----------------------------- MODULE SensorState -----------------------------
(***************************************************************************)
(* firmware-c6/components/sensor_state/sensor_state.c, layers 1 to 3: the  *)
(* registered devices and their attributes, the equipment with its         *)
(* bindings, and the spaces whose aggregated data the control loop and the *)
(* BACnet task read.                                                       *)
(*                                                                         *)
(* Every call holds the store mutex from its first read to its last write, *)
(* so a call is one action.  A call that times out on the mutex, or that   *)
(* returns NOT_FOUND, NO_MEM or INVALID_ARG, changes nothing: its guard is *)
(* false here.  Timestamps are left out, no code reads them back.          *)
(***************************************************************************)
EXTENDS ClusterMap, FiniteSets, FiniteSetsExt

CONSTANTS
  Device,       \* IEEE addresses that exist in the field
  Space,        \* space ids
  Equip,        \* equipment ids
  Descriptors,  \* equipment_t contents commissioning can store
  Reports,      \* <<attribute, value>> pairs that reports carry
  MaxDevices,   \* MAX_ZB_DEVICES
  MaxSlots,     \* MAX_ZB_CLUSTERS, attribute slots per device
  MaxEquipment, \* MAX_EQUIPMENT
  MaxSpaces,    \* MAX_SPACES
  NoValue       \* an attribute slot never written; an id not configured

Averaged == {"TEMPERATURE", "HUMIDITY", "CO2"}
Category == Averaged \union {"DRY_CONTACT", "BATTERY", "UNKNOWN"}

\* data_binding_t and equipment_t.  Two equal bindings of one equipment are one.
Binding == [category: Category, device: Device, attr: Attribute]
Equipment == [space: Space, enabled: BOOLEAN, bindings: SUBSET Binding]

ASSUME FieldAssumption ==
  /\ IsFiniteSet(Device) /\ IsFiniteSet(Equip) /\ IsFiniteSet(Space)
  /\ Descriptors \subseteq Equipment
  /\ \A d \in Descriptors : IsFiniteSet(d.bindings)
  /\ Reports \subseteq Attribute \X Int
  /\ NoValue \notin Int /\ NoValue \notin Equipment

ASSUME LimitAssumption ==
  MaxDevices \in Nat /\ MaxSlots \in Nat /\ MaxEquipment \in Nat /\ MaxSpaces \in Nat

VARIABLES
  devices,     \* registered devices (device table)
  online,      \* the online flag of each device
  attributes,  \* value of each attribute slot of each device
  equipment,   \* configured equipment
  spaces,      \* aggregated data of each configured space
  batteryMin   \* battery_min_pct

vars == <<devices, online, attributes, equipment, spaces, batteryMin>>

Aggregated == [avg: [Averaged -> Int], dry: BOOLEAN,
               equipmentCount: Nat, onlineCount: Nat]

Configured(f) == {x \in DOMAIN f : f[x] # NoValue}

LayersOK ==
  /\ devices \subseteq Device
  /\ online \in [Device -> BOOLEAN]
  /\ attributes \in [Device -> [Mapped -> Int \union {NoValue}]]
  /\ equipment \in [Equip -> Equipment \union {NoValue}]

\* No table holds more entries than its array.
TablesFit ==
  /\ Cardinality(devices) <= MaxDevices
  /\ Cardinality(Configured(equipment)) <= MaxEquipment
  /\ Cardinality(Configured(spaces)) <= MaxSpaces
  /\ \A d \in Device : Cardinality(Configured(attributes[d])) <= MaxSlots

TypeOK ==
  /\ LayersOK
  /\ TablesFit
  /\ spaces \in [Space -> Aggregated \union {NoValue}]
  /\ batteryMin \in Int

\* sensor_state_init.
Init ==
  /\ devices = {}
  /\ online = [d \in Device |-> FALSE]
  /\ attributes = [d \in Device |-> [a \in Mapped |-> NoValue]]
  /\ equipment = [e \in Equip |-> NoValue]
  /\ spaces = [x \in Space |-> NoValue]
  /\ batteryMin = 0

-----------------------------------------------------------------------------
(* Aggregation.                                                            *)

\* Enabled equipment of space x.
EquipmentIn(x, eqs) ==
  {e \in Configured(eqs) : eqs[e].enabled /\ eqs[e].space = x}

\* resolve_attribute finds a value for the binding.
Resolves(b, devs, attrs) ==
  b.device \in devs /\ b.attr \in Mapped /\ attrs[b.device][b.attr] # NoValue

\* The equipment and bindings of space x that deliver a value of category c.
Sourced(x, c, devs, attrs, eqs) ==
  {p \in EquipmentIn(x, eqs) \X UNION {eqs[e].bindings : e \in Configured(eqs)} :
     /\ p[2] \in eqs[p[1]].bindings /\ p[2].category = c
     /\ Resolves(p[2], devs, attrs)}

Reading(p, attrs) == attrs[p[2].device][p[2].attr]

\* 0 when no binding delivers a value.
Average(x, c, devs, attrs, eqs) ==
  LET ps == Sourced(x, c, devs, attrs, eqs)
  IN IF ps = {} THEN 0
     ELSE MapThenSumSet(LAMBDA p : Reading(p, attrs), ps) \div Cardinality(ps)

AnyDryContact(x, devs, attrs, eqs) ==
  \E p \in Sourced(x, "DRY_CONTACT", devs, attrs, eqs) : Reading(p, attrs) # 0

\* Equipment with at least one online device among its bindings.
OnlineIn(x, devs, onl, eqs) ==
  {e \in EquipmentIn(x, eqs) :
     \E b \in eqs[e].bindings : b.device \in devs /\ onl[b.device]}

\* aggregate_space.
Aggregate(x, devs, onl, attrs, eqs) ==
  [avg |-> [c \in Averaged |-> Average(x, c, devs, attrs, eqs)],
   dry |-> AnyDryContact(x, devs, attrs, eqs),
   equipmentCount |-> Cardinality(EquipmentIn(x, eqs)),
   onlineCount |-> Cardinality(OnlineIn(x, devs, onl, eqs))]

\* aggregate_all_spaces over the layer-1 and layer-2 contents given.
AggregateAll(devs, onl, attrs, eqs) ==
  [x \in Space |-> IF spaces[x] = NoValue THEN NoValue
                   ELSE Aggregate(x, devs, onl, attrs, eqs)]

BatteryReadings(devs, attrs) == {attrs[d]["battery"] : d \in devs} \ {NoValue}

Least(S) == IF S = {} THEN 0 ELSE CHOOSE m \in S : \A p \in S : m <= p

\* recompute_battery_min: 0 without a battery reading.
BatteryMin(devs, attrs) == Least(BatteryReadings(devs, attrs))

-----------------------------------------------------------------------------
(* Calls.                                                                  *)

\* sensor_state_add_space: insert or replace, then aggregate that space.
AddSpace(x) ==
  /\ spaces[x] # NoValue \/ Cardinality(Configured(spaces)) < MaxSpaces
  /\ spaces' = [spaces EXCEPT ![x] = Aggregate(x, devices, online, attributes, equipment)]
  /\ UNCHANGED <<devices, online, attributes, equipment, batteryMin>>

\* Equipment stored without re-aggregating.
AddEquipmentNoRefresh(e, desc) ==
  /\ equipment[e] # NoValue \/ Cardinality(Configured(equipment)) < MaxEquipment
  /\ equipment' = [equipment EXCEPT ![e] = desc]
  /\ UNCHANGED <<devices, online, attributes, spaces, batteryMin>>

\* sensor_state_add_equipment: insert or replace, then aggregate every space.
AddEquipment(e, desc) ==
  /\ equipment[e] # NoValue \/ Cardinality(Configured(equipment)) < MaxEquipment
  /\ equipment' = [equipment EXCEPT ![e] = desc]
  /\ spaces' = AggregateAll(devices, online, attributes, equipment')
  /\ UNCHANGED <<devices, online, attributes, batteryMin>>

\* The table filled one entry too far.
RegisterDeviceOverfull(d, on) ==
  /\ d \in devices \/ Cardinality(devices) <= MaxDevices
  /\ devices' = devices \union {d}
  /\ online' = [online EXCEPT ![d] = on]
  /\ UNCHANGED <<attributes, equipment, spaces, batteryMin>>

\* Registering clears the attributes of the device, as a fresh slot would be.
RegisterDeviceClearing(d, on) ==
  /\ d \in devices \/ Cardinality(devices) < MaxDevices
  /\ devices' = devices \union {d}
  /\ online' = [online EXCEPT ![d] = on]
  /\ attributes' = [attributes EXCEPT ![d] = [a \in Mapped |-> NoValue]]
  /\ UNCHANGED <<equipment, spaces, batteryMin>>

\* sensor_state_register_device: insert or replace the descriptor.  The
\* attributes stay, and nothing is aggregated.
RegisterDevice(d, on) ==
  /\ d \in devices \/ Cardinality(devices) < MaxDevices
  /\ devices' = devices \union {d}
  /\ online' = [online EXCEPT ![d] = on]
  /\ UNCHANGED <<attributes, equipment, spaces, batteryMin>>

\* Only a device coming online refreshes the spaces.
SetDeviceOnlineLazy(d, on) ==
  /\ d \in devices
  /\ online' = [online EXCEPT ![d] = on]
  /\ spaces' = IF on THEN AggregateAll(devices, online', attributes, equipment)
               ELSE spaces
  /\ UNCHANGED <<devices, attributes, equipment, batteryMin>>

\* sensor_state_set_device_online.
SetDeviceOnline(d, on) ==
  /\ d \in devices
  /\ online' = [online EXCEPT ![d] = on]
  /\ spaces' = AggregateAll(devices, online', attributes, equipment)
  /\ UNCHANGED <<devices, attributes, equipment, batteryMin>>

\* find_or_alloc_attr_slot: the attribute has a slot, or one is free.
HasSlot(d, a) ==
  attributes[d][a] # NoValue \/ Cardinality(Configured(attributes[d])) < MaxSlots

\* What sensor_state_update_attribute checks before it writes.
Accepts(d, a, v) ==
  /\ d \in devices
  /\ a \in Mapped
  /\ v \in PlausibleRange(a)
  /\ HasSlot(d, a)

\* sensor_state_update_attribute.
UpdateAttribute(d, a, v) ==
  /\ Accepts(d, a, v)
  /\ attributes' = [attributes EXCEPT ![d][a] = v]
  /\ batteryMin' = IF CategoryOf(a) = "BATTERY"
                   THEN BatteryMin(devices, attributes') ELSE batteryMin
  /\ spaces' = AggregateAll(devices, online, attributes', equipment)
  /\ UNCHANGED <<devices, online, equipment>>

Join(d) == RegisterDevice(d, TRUE)

Next ==
  \/ \E x \in Space : AddSpace(x)
  \/ \E e \in Equip, desc \in Descriptors : AddEquipment(e, desc)
  \/ \E d \in Device : Join(d)
  \/ \E d \in Device, on \in BOOLEAN : SetDeviceOnline(d, on)
  \/ \E d \in Device, r \in Reports : UpdateAttribute(d, r[1], r[2])

Spec == Init /\ [][Next]_vars

-----------------------------------------------------------------------------
(* Properties.                                                             *)

\* A configured space shows exactly what its layers 1 and 2 say now.
Current(x) ==
  spaces[x] # NoValue =>
    spaces[x] = Aggregate(x, devices, online, attributes, equipment)

\* "reads of space data are always current": every field of every space.
AlwaysCurrent == \A x \in Space : Current(x)

\* The part of it the code keeps in every state: the averages, the dry contact
\* and the equipment count follow every report and every commissioning call.
\* (A join, which aggregates nothing, cannot make them stale: a device without
\* an entry has no attributes.)
ReadingsCurrent ==
  \A x \in Space : spaces[x] # NoValue =>
    LET now == Aggregate(x, devices, online, attributes, equipment)
    IN /\ spaces[x].avg = now.avg
       /\ spaces[x].dry = now.dry
       /\ spaces[x].equipmentCount = now.equipmentCount

\* Each average shown of a space lies between two of the readings that its
\* bindings deliver now, and is 0 when they deliver none.
AveragesWithin ==
  \A x \in Space, c \in Averaged : spaces[x] # NoValue =>
    LET ps == Sourced(x, c, devices, attributes, equipment)
    IN IF ps = {} THEN spaces[x].avg[c] = 0
       ELSE \E p, q \in ps : /\ Reading(p, attributes) <= spaces[x].avg[c]
                             /\ spaces[x].avg[c] <= Reading(q, attributes)

\* A stale online count lasts no longer than the next stored report, equipment
\* change or online/offline notice, of any device: those refresh every space.
CatchesUp ==
  [][(\/ attributes' # attributes \/ equipment' # equipment
      \/ \E d \in Device, on \in BOOLEAN : SetDeviceOnline(d, on))
     => AlwaysCurrent']_vars

\* battery_min_pct (BACnet AI 302) is the lowest battery reading of all devices.
BatteryMinCurrent == batteryMin = BatteryMin(devices, attributes)
=============================================================================
