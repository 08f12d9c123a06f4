-------------------------- MODULE SensorStateProofs --------------------------
(***************************************************************************)
(* Theorems about SensorState for every field, topology and table size.    *)
(* The invariant StoreInv adds to the properties the one fact they rest    *)
(* on: a device without an entry in the device table has no attributes, so *)
(* registering one cannot change what a binding resolves to.               *)
(*                                                                         *)
(* That the aggregates are current depends only on what they are computed  *)
(* from.  That they are numbers, and averages, is a matter of the sums:    *)
(* induction over the finite sets that are added up, as the impossibility  *)
(* of a smallest counterexample.                                           *)
(***************************************************************************)
EXTENDS SensorState, FiniteSetTheorems, WellFoundedInduction, TLAPS

StrangersHaveNoData ==
  \A d \in Device : d \notin devices => \A a \in Mapped : attributes[d][a] = NoValue

SpacesShape == spaces = [x \in Space |-> spaces[x]]

StoreInv ==
  /\ LayersOK
  /\ SpacesShape
  /\ StrangersHaveNoData
  /\ ReadingsCurrent
  /\ BatteryMinCurrent

-----------------------------------------------------------------------------
\* The value of an aggregate, field by field.
LEMMA AggregateFields ==
  ASSUME NEW x \in Space, NEW devs, NEW onl, NEW attrs, NEW eqs
  PROVE  /\ Aggregate(x, devs, onl, attrs, eqs).avg
              = [c \in Averaged |-> Average(x, c, devs, attrs, eqs)]
         /\ Aggregate(x, devs, onl, attrs, eqs).dry
              = AnyDryContact(x, devs, attrs, eqs)
         /\ Aggregate(x, devs, onl, attrs, eqs).equipmentCount
              = Cardinality(EquipmentIn(x, eqs))
  BY DEF Aggregate

\* A device that joins brings no readings: every binding resolves as before.
LEMMA JoinKeepsSources ==
  ASSUME LayersOK, StrangersHaveNoData, NEW d \in Device,
         NEW x \in Space, NEW c \in Category
  PROVE  Sourced(x, c, devices \union {d}, attributes, equipment)
           = Sourced(x, c, devices, attributes, equipment)
<1>1. ASSUME NEW b, Resolves(b, devices \union {d}, attributes)
      PROVE  Resolves(b, devices, attributes)
  BY <1>1 DEF Resolves, StrangersHaveNoData, LayersOK
<1>2. ASSUME NEW b, Resolves(b, devices, attributes)
      PROVE  Resolves(b, devices \union {d}, attributes)
  BY <1>2 DEF Resolves
<1>3. QED
  BY <1>1, <1>2 DEF Sourced

\* A join changes no average and no contact: the newcomer has no data.
LEMMA JoinKeepsReadings ==
  ASSUME LayersOK, StrangersHaveNoData, NEW d \in Device, NEW x \in Space
  PROVE  LET devs == devices \union {d}
         IN /\ \A c \in Averaged : Average(x, c, devs, attributes, equipment)
                                    = Average(x, c, devices, attributes, equipment)
            /\ AnyDryContact(x, devs, attributes, equipment)
                 = AnyDryContact(x, devices, attributes, equipment)
<1>1. ASSUME NEW c \in Averaged
      PROVE  Average(x, c, devices \union {d}, attributes, equipment)
               = Average(x, c, devices, attributes, equipment)
  <2>1. Sourced(x, c, devices \union {d}, attributes, equipment)
          = Sourced(x, c, devices, attributes, equipment)
    BY JoinKeepsSources DEF Category
  <2>2. QED
    BY <2>1, Zenon DEF Average
<1>2. AnyDryContact(x, devices \union {d}, attributes, equipment)
        = AnyDryContact(x, devices, attributes, equipment)
  <2>1. Sourced(x, "DRY_CONTACT", devices \union {d}, attributes, equipment)
          = Sourced(x, "DRY_CONTACT", devices, attributes, equipment)
    BY JoinKeepsSources DEF Category
  <2>2. QED
    BY <2>1, Zenon DEF AnyDryContact
<1>3. QED
  BY <1>1, <1>2

\* Nor does it bring a battery level.
LEMMA JoinKeepsBattery ==
  ASSUME LayersOK, StrangersHaveNoData, NEW d \in Device
  PROVE  BatteryMin(devices \union {d}, attributes) = BatteryMin(devices, attributes)
<1>1. d \notin devices => attributes[d]["battery"] = NoValue
  BY DEF StrangersHaveNoData, Mapped
<1>2. BatteryReadings(devices \union {d}, attributes)
        = BatteryReadings(devices, attributes)
  BY <1>1 DEF BatteryReadings
<1>3. QED
  BY <1>2, Zenon DEF BatteryMin

\* A call that aggregates every space leaves every space exact.
LEMMA RefreshMakesCurrent ==
  ASSUME NEW devs, NEW onl, NEW attrs, NEW eqs,
         spaces' = AggregateAll(devs, onl, attrs, eqs),
         devices' = devs, online' = onl, attributes' = attrs, equipment' = eqs
  PROVE  SpacesShape' /\ ReadingsCurrent' /\ AlwaysCurrent'
<1>1. \A x \in Space : spaces'[x] = NoValue
                         \/ spaces'[x] = Aggregate(x, devs, onl, attrs, eqs)
  BY DEF AggregateAll
<1>2. SpacesShape'
  BY DEF SpacesShape, AggregateAll
<1>3. AlwaysCurrent'
  BY <1>1 DEF AlwaysCurrent, Current
<1>4. ReadingsCurrent'
  BY <1>1 DEF ReadingsCurrent
<1>5. QED
  BY <1>2, <1>3, <1>4

-----------------------------------------------------------------------------
\* A cleared store satisfies the invariant.
LEMMA StoreInvInit == Init => StoreInv
<1> SUFFICES ASSUME Init PROVE StoreInv
  OBVIOUS
<1>1. LayersOK
  BY DEF Init, LayersOK
<1>2. SpacesShape /\ StrangersHaveNoData /\ ReadingsCurrent
  BY DEF Init, SpacesShape, StrangersHaveNoData, ReadingsCurrent
<1>3. BatteryMinCurrent
  <2>1. BatteryReadings(devices, attributes) = {}
    BY DEF Init, BatteryReadings
  <2>2. QED
    BY <2>1 DEF Init, BatteryMinCurrent, BatteryMin, Least
<1>4. QED
  BY <1>1, <1>2, <1>3 DEF StoreInv

\* A call that stores a space aggregates it from the layers it leaves alone.
LEMMA AddSpaceKeeps ==
  ASSUME StoreInv, NEW x \in Space, AddSpace(x)
  PROVE  StoreInv'
<1> USE DEF StoreInv
<1>1. LayersOK' /\ StrangersHaveNoData' /\ BatteryMinCurrent'
  BY DEF AddSpace, LayersOK, StrangersHaveNoData, BatteryMinCurrent
<1>2. SpacesShape'
  BY DEF AddSpace, SpacesShape
<1>3. ReadingsCurrent'
  <2> SUFFICES ASSUME NEW y \in Space, spaces'[y] # NoValue
               PROVE  /\ spaces'[y].avg = Aggregate(y, devices, online, attributes, equipment).avg
                      /\ spaces'[y].dry = Aggregate(y, devices, online, attributes, equipment).dry
                      /\ spaces'[y].equipmentCount
                           = Aggregate(y, devices, online, attributes, equipment).equipmentCount
    BY DEF ReadingsCurrent, AddSpace
  <2>1. CASE y = x
    BY <2>1 DEF AddSpace, SpacesShape
  <2>2. CASE y # x
    BY <2>2 DEF AddSpace, SpacesShape, ReadingsCurrent
  <2>3. QED
    BY <2>1, <2>2
<1>4. QED
  BY <1>1, <1>2, <1>3

\* sensor_state_add_equipment refreshes, so the aggregates are current.
LEMMA AddEquipmentKeeps ==
  ASSUME StoreInv, NEW e \in Equip, NEW desc \in Descriptors, AddEquipment(e, desc)
  PROVE  StoreInv' /\ AlwaysCurrent'
<1>1. SpacesShape' /\ ReadingsCurrent' /\ AlwaysCurrent'
  BY RefreshMakesCurrent DEF AddEquipment
<1>2. LayersOK'
  BY FieldAssumption DEF StoreInv, AddEquipment, LayersOK
<1>3. StrangersHaveNoData' /\ BatteryMinCurrent'
  BY DEF StoreInv, AddEquipment, StrangersHaveNoData, BatteryMinCurrent
<1>4. QED
  BY <1>1, <1>2, <1>3 DEF StoreInv

\* sensor_state_set_device_online refreshes too.
LEMMA SetDeviceOnlineKeeps ==
  ASSUME StoreInv, NEW d \in Device, NEW on \in BOOLEAN, SetDeviceOnline(d, on)
  PROVE  StoreInv' /\ AlwaysCurrent'
<1>1. SpacesShape' /\ ReadingsCurrent' /\ AlwaysCurrent'
  BY RefreshMakesCurrent DEF SetDeviceOnline
<1>2. LayersOK'
  BY DEF StoreInv, SetDeviceOnline, LayersOK
<1>3. StrangersHaveNoData' /\ BatteryMinCurrent'
  BY DEF StoreInv, SetDeviceOnline, StrangersHaveNoData, BatteryMinCurrent
<1>4. QED
  BY <1>1, <1>2, <1>3 DEF StoreInv

\* A report writes one slot of a registered device, and the minimum with it
\* when the slot holds a battery level.
LEMMA UpdateAttributeKeeps ==
  ASSUME StoreInv, NEW d \in Device, NEW r \in Reports,
         UpdateAttribute(d, r[1], r[2])
  PROVE  StoreInv' /\ AlwaysCurrent'
<1> DEFINE a == r[1]
           v == r[2]
<1>1. d \in devices /\ a \in Mapped /\ v \in Int
  BY FieldAssumption DEF UpdateAttribute, Accepts
<1>2. attributes' = [attributes EXCEPT ![d][a] = v]
  BY DEF UpdateAttribute
<1>3. SpacesShape' /\ ReadingsCurrent' /\ AlwaysCurrent'
  BY RefreshMakesCurrent DEF UpdateAttribute
<1>4. LayersOK'
  <2>1. attributes' \in [Device -> [Mapped -> Int \union {NoValue}]]
    BY <1>1, <1>2 DEF StoreInv, LayersOK
  <2>2. QED
    BY <2>1 DEF StoreInv, UpdateAttribute, LayersOK
<1>5. StrangersHaveNoData'
  BY <1>1, <1>2 DEF StoreInv, LayersOK, StrangersHaveNoData, UpdateAttribute
<1>6. BatteryMinCurrent'
  <2>1. CASE CategoryOf(a) = "BATTERY"
    BY <2>1 DEF UpdateAttribute, BatteryMinCurrent
  <2>2. CASE CategoryOf(a) # "BATTERY"
    <3>1. a # "battery"
      BY <2>2 DEF CategoryOf
    <3>2. \A c \in Device : attributes'[c]["battery"] = attributes[c]["battery"]
      BY <1>1, <1>2, <3>1 DEF StoreInv, LayersOK, Mapped
    <3>3. BatteryReadings(devices', attributes') = BatteryReadings(devices, attributes)
      BY <3>2 DEF BatteryReadings, UpdateAttribute, StoreInv, LayersOK
    <3>4. BatteryMin(devices', attributes') = BatteryMin(devices, attributes)
      BY <3>3, Zenon DEF BatteryMin
    <3>5. QED
      BY <2>2, <3>4 DEF UpdateAttribute, StoreInv, BatteryMinCurrent
  <2>3. QED
    BY <2>1, <2>2
<1>7. QED
  BY <1>3, <1>4, <1>5, <1>6 DEF StoreInv

\* A join aggregates nothing, and nothing but the online counts needs it.
LEMMA JoinKeeps ==
  ASSUME StoreInv, NEW d \in Device, Join(d)
  PROVE  StoreInv'
<1>1. /\ devices' = devices \union {d} /\ attributes' = attributes
      /\ equipment' = equipment /\ spaces' = spaces /\ batteryMin' = batteryMin
  BY DEF Join, RegisterDevice
<1>2. LayersOK' /\ SpacesShape' /\ StrangersHaveNoData'
  BY <1>1 DEF Join, RegisterDevice, StoreInv, LayersOK, SpacesShape, StrangersHaveNoData
<1>3. BatteryMinCurrent'
  <2>1. BatteryMin(devices \union {d}, attributes) = BatteryMin(devices, attributes)
    BY JoinKeepsBattery DEF StoreInv
  <2>2. QED
    BY <1>1, <2>1, Zenon DEF StoreInv, BatteryMinCurrent
<1>4. ReadingsCurrent'
  <2> SUFFICES ASSUME NEW x \in Space, spaces[x] # NoValue
               PROVE  /\ spaces[x].avg = Aggregate(x, devices', online', attributes, equipment).avg
                      /\ spaces[x].dry = Aggregate(x, devices', online', attributes, equipment).dry
                      /\ spaces[x].equipmentCount
                           = Aggregate(x, devices', online', attributes, equipment).equipmentCount
    BY <1>1 DEF ReadingsCurrent
  <2>1. /\ spaces[x].avg = [c \in Averaged |-> Average(x, c, devices, attributes, equipment)]
        /\ spaces[x].dry = AnyDryContact(x, devices, attributes, equipment)
        /\ spaces[x].equipmentCount = Cardinality(EquipmentIn(x, equipment))
    BY AggregateFields DEF StoreInv, ReadingsCurrent
  <2>2. /\ \A c \in Averaged : Average(x, c, devices', attributes, equipment)
                                = Average(x, c, devices, attributes, equipment)
        /\ AnyDryContact(x, devices', attributes, equipment)
             = AnyDryContact(x, devices, attributes, equipment)
    BY <1>1, JoinKeepsReadings DEF StoreInv
  <2>3. [c \in Averaged |-> Average(x, c, devices', attributes, equipment)]
          = [c \in Averaged |-> Average(x, c, devices, attributes, equipment)]
    BY <2>2
  <2>4. QED
    BY <2>1, <2>2, <2>3, AggregateFields
<1>5. QED
  BY <1>2, <1>3, <1>4 DEF StoreInv

-----------------------------------------------------------------------------
\* Every call of the interface keeps the invariant.
LEMMA StoreInvStep == StoreInv /\ [Next]_vars => StoreInv'
<1> SUFFICES ASSUME StoreInv, [Next]_vars PROVE StoreInv'
  OBVIOUS
<1>1. CASE \E x \in Space : AddSpace(x)
  BY <1>1, AddSpaceKeeps
<1>2. CASE \E e \in Equip, desc \in Descriptors : AddEquipment(e, desc)
  BY <1>2, AddEquipmentKeeps
<1>3. CASE \E d \in Device : Join(d)
  BY <1>3, JoinKeeps
<1>4. CASE \E d \in Device, on \in BOOLEAN : SetDeviceOnline(d, on)
  BY <1>4, SetDeviceOnlineKeeps
<1>5. CASE \E d \in Device, r \in Reports : UpdateAttribute(d, r[1], r[2])
  BY <1>5, UpdateAttributeKeeps
<1>6. CASE UNCHANGED vars
  BY <1>6 DEF vars, StoreInv, LayersOK, SpacesShape, StrangersHaveNoData,
              ReadingsCurrent, BatteryMinCurrent
<1>7. QED
  BY <1>1, <1>2, <1>3, <1>4, <1>5, <1>6 DEF Next

\* The layers belong together in every reachable state.
LEMMA StoreInvAlways == Spec => []StoreInv
<1>1. QED
  BY StoreInvInit, StoreInvStep, PTL DEF Spec

\* Whatever the devices, bindings and table sizes, the averages, the dry
\* contact and the equipment count of every space are those of its devices now.
THEOREM ReadingsStayCurrent == Spec => []ReadingsCurrent
<1>1. StoreInv => ReadingsCurrent
  BY DEF StoreInv
<1>2. QED
  BY <1>1, StoreInvAlways, PTL

\* battery_min_pct never lags behind the battery levels it summarises.
THEOREM BatteryMinStaysCurrent == Spec => []BatteryMinCurrent
<1>1. StoreInv => BatteryMinCurrent
  BY DEF StoreInv
<1>2. QED
  BY <1>1, StoreInvAlways, PTL

\* A stale online count ends with the next refreshing call, whichever it is.
THEOREM OnlineCountCatchesUp == Spec => CatchesUp
<1> DEFINE Refreshing == \/ attributes' # attributes \/ equipment' # equipment
                         \/ \E d \in Device, on \in BOOLEAN : SetDeviceOnline(d, on)
<1>1. StoreInv /\ [Next]_vars => (Refreshing => AlwaysCurrent')
  <2> SUFFICES ASSUME StoreInv, [Next]_vars, Refreshing PROVE AlwaysCurrent'
    OBVIOUS
  <2>1. CASE \E d \in Device, on \in BOOLEAN : SetDeviceOnline(d, on)
    BY <2>1, SetDeviceOnlineKeeps
  <2>2. CASE \E e \in Equip, desc \in Descriptors : AddEquipment(e, desc)
    BY <2>2, AddEquipmentKeeps
  <2>3. CASE \E d \in Device, r \in Reports : UpdateAttribute(d, r[1], r[2])
    BY <2>3, UpdateAttributeKeeps
  <2>4. ASSUME NEW x \in Space, AddSpace(x)
        PROVE  attributes' = attributes /\ equipment' = equipment
    BY <2>4 DEF AddSpace
  <2>5. ASSUME NEW d \in Device, Join(d)
        PROVE  attributes' = attributes /\ equipment' = equipment
    BY <2>5 DEF Join, RegisterDevice
  <2>6. CASE UNCHANGED vars
    BY <2>6, <2>1 DEF vars
  <2>7. QED
    BY <2>1, <2>2, <2>3, <2>4, <2>5, <2>6 DEF Next
<1>2. QED
  BY <1>1, StoreInvAlways, PTL DEF Spec, CatchesUp

-----------------------------------------------------------------------------
\* One more key of a finite table: its entries are counted right.
LEMMA OneMoreEntry ==
  ASSUME NEW K, IsFiniteSet(K), NEW f, DOMAIN f = K, NEW k \in K, NEW g,
         DOMAIN g = K, \A j \in K : j # k => g[j] = f[j],
         NEW limit \in Nat,
         Cardinality(Configured(f)) <= limit,
         f[k] # NoValue \/ Cardinality(Configured(f)) < limit
  PROVE  Cardinality(Configured(g)) <= limit
<1>1. IsFiniteSet(Configured(f)) /\ Cardinality(Configured(f)) \in Nat
  <2>1. Configured(f) \subseteq K
    BY DEF Configured
  <2>2. QED
    BY <2>1, FS_Subset, FS_CardinalityType
<1>2. IsFiniteSet(Configured(f) \union {k})
      /\ Cardinality(Configured(f) \union {k}) <= limit
  <2>1. CASE f[k] # NoValue
    <3>1. Configured(f) \union {k} = Configured(f)
      BY <2>1 DEF Configured
    <3>2. QED
      BY <1>1, <3>1
  <2>2. CASE f[k] = NoValue
    <3>1. k \notin Configured(f)
      BY <2>2 DEF Configured
    <3>2. /\ IsFiniteSet(Configured(f) \union {k})
          /\ Cardinality(Configured(f) \union {k}) = Cardinality(Configured(f)) + 1
      BY <1>1, <3>1, FS_AddElement, Zenon
    <3>3. QED
      BY <1>1, <2>2, <3>2
  <2>3. QED
    BY <2>1, <2>2
<1>3. Configured(g) \subseteq Configured(f) \union {k}
  BY DEF Configured
<1>4. Cardinality(Configured(g)) \in Nat
      /\ Cardinality(Configured(g)) <= Cardinality(Configured(f) \union {k})
  BY <1>2, <1>3, FS_Subset, FS_CardinalityType
<1>5. Cardinality(Configured(f) \union {k}) \in Nat
  BY <1>2, FS_CardinalityType
<1>6. QED
  BY <1>2, <1>4, <1>5
\* The five rows of the cluster map.
LEMMA MappedFinite == IsFiniteSet(Mapped)
<1>1. IsFiniteSet({} \union {"temperature"} \union {"humidity"} \union {"co2"}
                     \union {"dry_contact"} \union {"battery"})
  BY FS_EmptySet, FS_AddElement, Zenon
<1>2. Mapped = {} \union {"temperature"} \union {"humidity"} \union {"co2"}
                 \union {"dry_contact"} \union {"battery"}
  BY DEF Mapped
<1>3. QED
  BY <1>1, <1>2

\* A refresh never configures a space.
LEMMA FewerSpaces ==
  ASSUME SpacesShape, Configured(spaces') \subseteq Configured(spaces),
         Cardinality(Configured(spaces)) <= MaxSpaces
  PROVE  Cardinality(Configured(spaces')) <= MaxSpaces
<1>1. Configured(spaces) \subseteq Space
  BY DEF SpacesShape, Configured
<1>2. IsFiniteSet(Configured(spaces))
  BY <1>1, FieldAssumption, FS_Subset
<1>3. QED
  BY <1>2, FS_Subset, FS_CardinalityType, LimitAssumption

TablesInv == LayersOK /\ SpacesShape /\ TablesFit

\* The fixed arrays (spaces, equipment, devices, attribute slots) never take an
\* entry more than they have room for, for any sizes and any sequence of calls.
THEOREM TablesNeverOverflow == Spec => []TablesFit
<1>1. Init => TablesInv
  <2> SUFFICES ASSUME Init PROVE TablesInv
    OBVIOUS
  <2>1. LayersOK /\ SpacesShape
    BY StoreInvInit DEF StoreInv
  <2>2. /\ devices = {} /\ Configured(equipment) = {} /\ Configured(spaces) = {}
        /\ \A d \in Device : Configured(attributes[d]) = {}
    BY DEF Init, Configured
  <2>3. TablesFit
    BY <2>2, FS_EmptySet, LimitAssumption DEF TablesFit
  <2>4. QED
    BY <2>1, <2>3 DEF TablesInv
<1>2. StoreInv /\ TablesInv /\ [Next]_vars /\ StoreInv' => TablesInv'
  <2> SUFFICES ASSUME StoreInv, TablesInv, [Next]_vars, StoreInv' PROVE TablesFit'
    BY DEF StoreInv, TablesInv
  <2>1. CASE \E x \in Space : AddSpace(x)
    <3> PICK x \in Space : AddSpace(x)
      BY <2>1
    <3>1. Cardinality(Configured(spaces')) <= MaxSpaces
      <4>1. /\ DOMAIN spaces = Space /\ DOMAIN spaces' = Space
            /\ \A y \in Space : y # x => spaces'[y] = spaces[y]
        BY DEF AddSpace, TablesInv, SpacesShape
      <4>2. /\ Cardinality(Configured(spaces)) <= MaxSpaces
            /\ spaces[x] # NoValue \/ Cardinality(Configured(spaces)) < MaxSpaces
        BY DEF AddSpace, TablesInv, TablesFit
      <4>3. IsFiniteSet(Space) /\ MaxSpaces \in Nat
        BY FieldAssumption, LimitAssumption
      <4>4. QED
        BY <4>1, <4>2, <4>3, OneMoreEntry, Zenon
    <3>2. QED
      BY <3>1 DEF AddSpace, TablesInv, TablesFit
  <2>2. ASSUME NEW e \in Equip, NEW desc \in Descriptors, AddEquipment(e, desc)
        PROVE  TablesFit'
    <3>1. Cardinality(Configured(equipment')) <= MaxEquipment
      <4>1. /\ DOMAIN equipment = Equip /\ DOMAIN equipment' = Equip
            /\ \A g \in Equip : g # e => equipment'[g] = equipment[g]
        BY <2>2 DEF AddEquipment, TablesInv, LayersOK
      <4>2. QED
        BY <2>2, <4>1, OneMoreEntry, FieldAssumption, LimitAssumption
        DEF AddEquipment, TablesInv, TablesFit
    <3>2. Configured(spaces') \subseteq Configured(spaces)
      BY <2>2 DEF AddEquipment, AggregateAll, TablesInv, SpacesShape, Configured
    <3>3. QED
      BY <2>2, <3>1, <3>2, FewerSpaces DEF AddEquipment, TablesInv, TablesFit
  <2>3. ASSUME NEW d \in Device, Join(d) PROVE TablesFit'
    <3>1. IsFiniteSet(devices) /\ Cardinality(devices) \in Nat
      BY FieldAssumption, FS_Subset, FS_CardinalityType DEF TablesInv, LayersOK
    <3>2. Cardinality(devices \union {d}) <= MaxDevices
      <4>1. CASE d \in devices
        <5>1. devices \union {d} = devices
          BY <4>1
        <5>2. QED
          BY <5>1 DEF TablesInv, TablesFit
      <4>2. CASE d \notin devices
        <5>1. Cardinality(devices \union {d}) = Cardinality(devices) + 1
          BY <3>1, <4>2, FS_AddElement, Zenon
        <5>2. QED
          BY <2>3, <3>1, <4>2, <5>1, LimitAssumption DEF Join, RegisterDevice
      <4>3. QED
        BY <4>1, <4>2
    <3>3. QED
      BY <2>3, <3>2 DEF Join, RegisterDevice, TablesInv, TablesFit
  <2>4. ASSUME NEW d \in Device, NEW on \in BOOLEAN, SetDeviceOnline(d, on)
        PROVE  TablesFit'
    <3>1. Configured(spaces') \subseteq Configured(spaces)
      BY <2>4 DEF SetDeviceOnline, AggregateAll, TablesInv, SpacesShape, Configured
    <3>2. QED
      BY <2>4, <3>1, FewerSpaces DEF SetDeviceOnline, TablesInv, TablesFit
  <2>5. ASSUME NEW d \in Device, NEW r \in Reports, UpdateAttribute(d, r[1], r[2])
        PROVE  TablesFit'
    <3>1. Configured(spaces') \subseteq Configured(spaces)
      BY <2>5 DEF UpdateAttribute, AggregateAll, TablesInv, SpacesShape, Configured
    <3>2. r[1] \in Mapped /\ attributes' = [attributes EXCEPT ![d][r[1]] = r[2]]
      BY <2>5 DEF UpdateAttribute, Accepts
    <3>3. ASSUME NEW c \in Device
          PROVE  Cardinality(Configured(attributes'[c])) <= MaxSlots
      <4>1. CASE c # d
        BY <3>2, <4>1 DEF TablesInv, TablesFit, LayersOK
      <4>2. CASE c = d
        <5>1. /\ DOMAIN attributes[d] = Mapped /\ DOMAIN attributes'[d] = Mapped
              /\ \A a \in Mapped : a # r[1] => attributes'[d][a] = attributes[d][a]
          BY <3>2 DEF TablesInv, LayersOK
        <5>2. Cardinality(Configured(attributes[d])) <= MaxSlots
          BY DEF TablesInv, TablesFit
        <5>3. \/ attributes[d][r[1]] # NoValue
              \/ Cardinality(Configured(attributes[d])) < MaxSlots
          BY <2>5 DEF UpdateAttribute, Accepts, HasSlot
        <5>4. QED
          BY <3>2, <4>2, <5>1, <5>2, <5>3, MappedFinite, OneMoreEntry, LimitAssumption
      <4>3. QED
        BY <4>1, <4>2
    <3>4. QED
      BY <2>5, <3>1, <3>3, FewerSpaces DEF UpdateAttribute, TablesInv, TablesFit
  <2>6. CASE UNCHANGED vars
    BY <2>6 DEF vars, TablesInv, TablesFit, Configured
  <2>7. QED
    BY <2>1, <2>2, <2>3, <2>4, <2>5, <2>6 DEF Next
<1>3. TablesInv => TablesFit
  BY DEF TablesInv
<1>4. QED
  BY <1>1, <1>2, <1>3, StoreInvAlways, PTL DEF Spec

-----------------------------------------------------------------------------
(* Sums and minima of finite sets.                                         *)

\* A set of natural numbers has a least element: induction, in the form of a
\* smallest counterexample.
LEMMA SmallestInSet ==
  ASSUME NEW T \in SUBSET Nat, T # {}
  PROVE  \E n \in T : \A m \in T : n <= m
<1> DEFINE Less == {p \in Nat \X Nat : p[1] < p[2]}
<1>1. IsWellFoundedOn(Less, Nat)
  BY NatLessThanWellFounded, Zenon DEF OpToRel
<1>2. PICK n \in T : \A m \in T : <<m, n>> \notin Less
  BY <1>1, WFMin, Zenon
<1>3. \A m \in T : m < n => <<m, n>> \in Less
  OBVIOUS
<1> HIDE DEF Less
<1>4. \A m \in T : ~(m < n)
  BY <1>2, <1>3
<1>5. QED
  BY <1>4

\* One unfolding of the sum of the readings of a set of bindings.
Chosen(s) == CHOOSE p \in s : TRUE
SumBody(g, s, attrs) ==
  IF s = {} THEN 0 ELSE Reading(Chosen(s), attrs) + g[s \ {Chosen(s)}]
SumSolution(attrs, D) == CHOOSE g : g = [s \in D |-> SumBody(g, s, attrs)]

\* The fold of the community modules is the recursion of the sum.
LEMMA SumUnfolds ==
  ASSUME NEW attrs, NEW ps
  PROVE  MapThenSumSet(LAMBDA p : Reading(p, attrs), ps)
           = SumSolution(attrs, SUBSET ps)[ps]
  BY Zenon DEF MapThenSumSet, MapThenFoldSet, SumSolution, SumBody, Chosen

\* The recursion has a solution on the sets of up to n elements, for every n.
LEMMA SumSolvable ==
  ASSUME NEW attrs, NEW ps, IsFiniteSet(ps)
  PROVE  \E g : g = [s \in SUBSET ps |-> SumBody(g, s, attrs)]
<1> DEFINE Rank(n) == {s \in SUBSET ps : Cardinality(s) <= n}
           Solved(n) == \E g : g = [s \in Rank(n) |-> SumBody(g, s, attrs)]
           Unsolved == {n \in Nat : ~Solved(n)}
<1>0. \A s \in SUBSET ps : IsFiniteSet(s) /\ Cardinality(s) \in Nat
  BY FS_Subset, FS_CardinalityType
<1>1. Solved(0)
  <2>1. \A s \in Rank(0) : s = {}
    BY <1>0, FS_EmptySet
  <2>2. [s \in Rank(0) |-> 0] = [s \in Rank(0) |-> SumBody([t \in Rank(0) |-> 0], s, attrs)]
    BY <2>1 DEF SumBody
  <2>3. QED
    BY <2>2
<1>2. ASSUME NEW n \in Nat, Solved(n) PROVE Solved(n + 1)
  <2>1. PICK g : g = [s \in Rank(n) |-> SumBody(g, s, attrs)]
    BY <1>2
  <2> DEFINE h == [s \in Rank(n + 1) |-> SumBody(g, s, attrs)]
  <2>2. ASSUME NEW s \in Rank(n + 1) PROVE SumBody(g, s, attrs) = SumBody(h, s, attrs)
    <3>1. CASE s = {}
      BY <3>1 DEF SumBody
    <3>2. CASE s # {}
      <4> DEFINE rest == s \ {Chosen(s)}
      <4>1. Chosen(s) \in s
        BY <3>2 DEF Chosen
      <4>2. rest \in SUBSET ps /\ Cardinality(rest) = Cardinality(s) - 1
        BY <1>0, <4>1, FS_RemoveElement
      <4>3. rest \in Rank(n) /\ rest \in Rank(n + 1)
        BY <1>0, <4>2
      <4>4. g[rest] = SumBody(g, rest, attrs)
        BY <2>1, <4>3
      <4>5. h[rest] = SumBody(g, rest, attrs)
        BY <4>3
      <4>6. QED
        BY <3>2, <4>4, <4>5 DEF SumBody
    <3>3. QED
      BY <3>1, <3>2
  <2>3. h = [s \in Rank(n + 1) |-> SumBody(h, s, attrs)]
    BY <2>2, Zenon
  <2>4. QED
    BY <2>3
<1>3. Unsolved = {}
  <2> SUFFICES ASSUME Unsolved # {} PROVE FALSE
    OBVIOUS
  <2>1. PICK n \in Unsolved : \A m \in Unsolved : n <= m
    BY SmallestInSet
  <2>2. n \in Nat /\ ~Solved(n) /\ n # 0
    BY <1>1
  <2>3. n - 1 \in Nat /\ n - 1 \notin Unsolved
    <3>1. \A m \in Unsolved : m \in Nat /\ n <= m
      BY <2>1
    <3> HIDE DEF Unsolved
    <3>2. QED
      BY <2>2, <3>1
  <2>4. Solved(n - 1)
    BY <2>3
  <2>5. Solved((n - 1) + 1)
    BY <1>2, <2>3, <2>4
  <2>6. (n - 1) + 1 = n
    BY <2>2
  <2>7. QED
    BY <2>2, <2>5, <2>6
<1>4. Rank(Cardinality(ps)) = SUBSET ps /\ Cardinality(ps) \in Nat
  BY <1>0, FS_Subset
<1>5. Solved(Cardinality(ps))
  BY <1>3, <1>4
<1>6. QED
  BY <1>4, <1>5

\* What a sum of readings can be: a number, and between any bounds that all the
\* readings respect, times their count.
SumGood(sum, ps, attrs) ==
  /\ sum \in Int
  /\ \A b \in Int :
       /\ (\A p \in ps : b <= Reading(p, attrs)) => Cardinality(ps) * b <= sum
       /\ (\A p \in ps : Reading(p, attrs) <= b) => sum <= Cardinality(ps) * b

\* One reading more.
LEMMA SumGoodStep ==
  ASSUME NEW attrs, NEW s, NEW p \in s, NEW sum, IsFiniteSet(s),
         Reading(p, attrs) \in Int, SumGood(sum, s \ {p}, attrs)
  PROVE  SumGood(Reading(p, attrs) + sum, s, attrs)
<1> DEFINE t == Reading(p, attrs)
           n == Cardinality(s)
           m == Cardinality(s \ {p})
<1>1. n \in Nat /\ m \in Nat /\ n = m + 1
  BY FS_RemoveElement, FS_CardinalityType
<1>2. sum \in Int /\ t \in Int
  BY DEF SumGood
<1> HIDE DEF n, m
<1>3. ASSUME NEW b \in Int, \A q \in s : b <= Reading(q, attrs)
      PROVE  n * b <= t + sum
  <2>1. m * b <= sum /\ b <= t
    BY <1>3 DEF SumGood, m
  <2>2. n * b = m * b + b
    BY <1>1
  <2>3. QED
    BY <1>1, <1>2, <2>1, <2>2
<1>4. ASSUME NEW b \in Int, \A q \in s : Reading(q, attrs) <= b
      PROVE  t + sum <= n * b
  <2>1. sum <= m * b /\ t <= b
    BY <1>4 DEF SumGood, m
  <2>2. n * b = m * b + b
    BY <1>1
  <2>3. QED
    BY <1>1, <1>2, <2>1, <2>2
<1>5. t + sum \in Int
  BY <1>2
<1>6. QED
  BY <1>3, <1>4, <1>5 DEF SumGood, n

\* The sum of the readings of any finite set lies between its bounds.
LEMMA SumIsGood ==
  ASSUME NEW attrs, NEW ps, IsFiniteSet(ps), \A p \in ps : Reading(p, attrs) \in Int
  PROVE  SumGood(MapThenSumSet(LAMBDA p : Reading(p, attrs), ps), ps, attrs)
<1> DEFINE g == SumSolution(attrs, SUBSET ps)
           Bad == {s \in SUBSET ps : ~SumGood(g[s], s, attrs)}
<1>0. \A s \in SUBSET ps : IsFiniteSet(s)
  BY FS_Subset
<1>1. g = [s \in SUBSET ps |-> SumBody(g, s, attrs)]
  BY SumSolvable, Zenon DEF SumSolution
<1> HIDE DEF g
<1>2. ASSUME NEW s \in SUBSET ps, \A r \in SUBSET s : r # s => r \notin Bad
      PROVE  s \notin Bad
  <2>1. g[s] = SumBody(g, s, attrs)
    BY <1>1
  <2>2. CASE s = {}
    <3>1. g[s] = 0 /\ Cardinality(s) = 0
      BY <2>1, <2>2, FS_EmptySet DEF SumBody
    <3>2. QED
      BY <3>1 DEF SumGood
  <2>3. CASE s # {}
    <3>1. Chosen(s) \in s
      BY <2>3 DEF Chosen
    <3>2. SumGood(g[s \ {Chosen(s)}], s \ {Chosen(s)}, attrs)
      BY <1>2, <3>1
    <3>3. g[s] = Reading(Chosen(s), attrs) + g[s \ {Chosen(s)}]
      BY <2>1, <2>3 DEF SumBody
    <3>4. QED
      BY <1>0, <3>1, <3>2, <3>3, SumGoodStep
  <2>4. QED
    BY <2>2, <2>3
<1>3. Bad = {}
  <2> SUFFICES ASSUME Bad # {} PROVE FALSE
    OBVIOUS
  <2>1. Bad \subseteq FiniteSubsetsOf(ps)
    BY <1>0 DEF FiniteSubsetsOf
  <2>2. PICK s \in Bad : \A r \in Bad : ~(<<r, s>> \in StrictSubsetOrdering(ps))
    BY <2>1, FS_StrictSubsetOrderingWellFounded, WFMin
  <2>3. \A r \in SUBSET s : r # s => r \notin Bad
    BY <2>2 DEF StrictSubsetOrdering
  <2>4. QED
    BY <1>2, <2>3
<1>4. SumGood(g[ps], ps, attrs)
  BY <1>3
<1>5. QED
  BY <1>4, SumUnfolds DEF g

\* A finite set of numbers has a least one.
LEMMA LeastIsLeast ==
  ASSUME NEW S \in SUBSET Int, IsFiniteSet(S)
  PROVE  /\ Least(S) \in Int
         /\ S # {} => Least(S) \in S /\ \A v \in S : Least(S) <= v
<1> DEFINE HasLeast(T) == \E m \in T : \A v \in T : m <= v
           Bad == {T \in SUBSET S : T # {} /\ ~HasLeast(T)}
<1>1. ASSUME NEW T \in SUBSET S, \A U \in SUBSET T : U # T => U \notin Bad
      PROVE  T \notin Bad
  <2> SUFFICES ASSUME T # {} PROVE HasLeast(T)
    OBVIOUS
  <2>1. PICK x \in T : TRUE
    OBVIOUS
  <2>2. CASE T \ {x} = {}
    BY <2>2
  <2>3. CASE T \ {x} # {}
    <3>1. T \ {x} \in SUBSET T /\ T \ {x} # T
      OBVIOUS
    <3>2. HasLeast(T \ {x})
      BY <1>1, <2>3, <3>1
    <3>3. PICK m \in T \ {x} : \A v \in T \ {x} : m <= v
      BY <3>2
    <3>4. CASE m <= x
      BY <3>3, <3>4
    <3>5. CASE ~(m <= x)
      BY <3>3, <3>5
    <3>6. QED
      BY <3>4, <3>5
  <2>4. QED
    BY <2>2, <2>3
<1>2. Bad = {}
  <2> SUFFICES ASSUME Bad # {} PROVE FALSE
    OBVIOUS
  <2>1. Bad \subseteq FiniteSubsetsOf(S)
    BY FS_Subset DEF FiniteSubsetsOf
  <2>2. PICK T \in Bad : \A U \in Bad : ~(<<U, T>> \in StrictSubsetOrdering(S))
    BY <2>1, FS_StrictSubsetOrderingWellFounded, WFMin
  <2>3. \A U \in SUBSET T : U # T => U \notin Bad
    BY <2>2 DEF StrictSubsetOrdering
  <2>4. QED
    BY <1>1, <2>3
<1>3. S # {} => HasLeast(S)
  BY <1>2
<1>4. CASE S = {}
  BY <1>4 DEF Least
<1>5. CASE S # {}
  <2>1. \E m \in S : \A v \in S : m <= v
    BY <1>3, <1>5
  <2>2. Least(S) = CHOOSE m \in S : \A v \in S : m <= v
    BY <1>5, Zenon DEF Least
  <2>3. Least(S) \in S /\ \A v \in S : Least(S) <= v
    BY <2>1, <2>2, Zenon
  <2>4. QED
    BY <2>3
<1>6. QED
  BY <1>4, <1>5

-----------------------------------------------------------------------------
(* Types, and what an average is.                                          *)

\* Commissioning stores descriptors only, so every list of bindings is finite.
EquipmentStored == equipment \in [Equip -> Descriptors \union {NoValue}]

\* The image of a finite set is finite.
LEMMA ImageFinite ==
  ASSUME NEW K, IsFiniteSet(K), NEW f
  PROVE  IsFiniteSet({f[k] : k \in K})
<1> DEFINE g == [k \in K |-> f[k]]
<1>1. g \in Surjection(K, {f[k] : k \in K})
  BY DEF Surjection
<1>2. QED
  BY <1>1, FS_Surjection

\* The equipment of a space is finite, and each piece of it has a descriptor.
LEMMA EquipmentInFinite ==
  ASSUME NEW eqs \in [Equip -> Descriptors \union {NoValue}], NEW x
  PROVE  /\ IsFiniteSet(EquipmentIn(x, eqs)) /\ IsFiniteSet(Configured(eqs))
         /\ \A e \in Configured(eqs) : eqs[e] \in Descriptors
<1>1. Configured(eqs) \subseteq Equip /\ EquipmentIn(x, eqs) \subseteq Equip
  BY DEF Configured, EquipmentIn
<1>2. \A e \in Configured(eqs) : eqs[e] \in Descriptors
  BY DEF Configured
<1>3. QED
  BY <1>1, <1>2, FieldAssumption, FS_Subset

\* What an average is computed from: finitely many numbers.
LEMMA SourcesFinite ==
  ASSUME NEW eqs \in [Equip -> Descriptors \union {NoValue}], NEW x, NEW c,
         NEW attrs \in [Device -> [Mapped -> Int \union {NoValue}]], NEW devs
  PROVE  /\ IsFiniteSet(Sourced(x, c, devs, attrs, eqs))
         /\ \A p \in Sourced(x, c, devs, attrs, eqs) : Reading(p, attrs) \in Int
<1> DEFINE lists == {eqs[e].bindings : e \in Configured(eqs)}
           field == [e \in Configured(eqs) |-> eqs[e].bindings]
           pairs == EquipmentIn(x, eqs) \X UNION lists
<1>1. /\ IsFiniteSet(EquipmentIn(x, eqs)) /\ IsFiniteSet(Configured(eqs))
      /\ \A e \in Configured(eqs) : eqs[e] \in Descriptors
  BY EquipmentInFinite
<1>2. IsFiniteSet(lists)
  <2>1. \A f : IsFiniteSet({f[e] : e \in Configured(eqs)})
    BY <1>1, ImageFinite, Zenon
  <2>2. {field[e] : e \in Configured(eqs)} = lists
    OBVIOUS
  <2>3. QED
    BY <2>1, <2>2
<1>3. \A T \in lists : IsFiniteSet(T)
  BY <1>1, FieldAssumption
<1>4. IsFiniteSet(pairs)
  BY <1>1, <1>2, <1>3, FS_UNION, FS_Product
<1>5. Sourced(x, c, devs, attrs, eqs) \subseteq pairs
  BY DEF Sourced
<1>6. IsFiniteSet(Sourced(x, c, devs, attrs, eqs))
  BY <1>4, <1>5, FS_Subset
<1>7. ASSUME NEW p \in Sourced(x, c, devs, attrs, eqs) PROVE Reading(p, attrs) \in Int
  <2>1. /\ p[1] \in EquipmentIn(x, eqs) /\ p[2] \in eqs[p[1]].bindings
        /\ p[2].attr \in Mapped /\ attrs[p[2].device][p[2].attr] # NoValue
    BY DEF Sourced, Resolves
  <2>2. p[1] \in Configured(eqs)
    BY <2>1 DEF EquipmentIn
  <2>3. eqs[p[1]] \in Equipment
    BY <1>1, <2>2, FieldAssumption
  <2>4. p[2].device \in Device
    BY <2>1, <2>3 DEF Equipment, Binding
  <2>5. QED
    BY <2>1, <2>4 DEF Reading
<1>8. QED
  BY <1>6, <1>7

\* The quotient of a sum of n numbers lies between any bounds of the numbers.
LEMMA QuotientBounded ==
  ASSUME NEW n \in Nat, 0 < n, NEW sum \in Int, NEW b \in Int
  PROVE  /\ sum \div n \in Int
         /\ n * b <= sum => b <= sum \div n
         /\ sum <= n * b => sum \div n <= b
<1> DEFINE q == sum \div n
           r == sum % n
<1>1. q \in Int /\ r \in 0..(n - 1) /\ sum = n * q + r
  OBVIOUS
<1> HIDE DEF q, r
<1>2. ASSUME n * b <= sum PROVE b <= q
  <2>1. SUFFICES ASSUME q <= b - 1 PROVE FALSE
    BY <1>1
  <2>2. n * q <= n * (b - 1)
    BY <1>1, <2>1
  <2>3. n * (b - 1) = n * b - n
    OBVIOUS
  <2>4. QED
    BY <1>1, <1>2, <2>2, <2>3
<1>3. ASSUME sum <= n * b PROVE q <= b
  <2>1. SUFFICES ASSUME b + 1 <= q PROVE FALSE
    BY <1>1
  <2>2. n * (b + 1) <= n * q
    BY <1>1, <2>1
  <2>3. n * (b + 1) = n * b + n
    OBVIOUS
  <2>4. QED
    BY <1>1, <1>3, <2>2, <2>3
<1>4. QED
  BY <1>1, <1>2, <1>3 DEF q

\* An average is a number, 0 without a reading, else within the readings' bounds.
LEMMA AverageBounded ==
  ASSUME NEW eqs \in [Equip -> Descriptors \union {NoValue}], NEW x, NEW c,
         NEW attrs \in [Device -> [Mapped -> Int \union {NoValue}]], NEW devs
  PROVE  LET ps == Sourced(x, c, devs, attrs, eqs)
             avg == Average(x, c, devs, attrs, eqs)
         IN /\ avg \in Int
            /\ ps = {} => avg = 0
            /\ ps # {} => \A b \in Int :
                 /\ (\A p \in ps : b <= Reading(p, attrs)) => b <= avg
                 /\ (\A p \in ps : Reading(p, attrs) <= b) => avg <= b
<1> DEFINE ps == Sourced(x, c, devs, attrs, eqs)
           avg == Average(x, c, devs, attrs, eqs)
           sum == MapThenSumSet(LAMBDA p : Reading(p, attrs), ps)
           n == Cardinality(ps)
<1>1. IsFiniteSet(ps) /\ \A p \in ps : Reading(p, attrs) \in Int
  BY SourcesFinite
<1> HIDE DEF ps, avg
<1>2. CASE ps = {}
  BY <1>2 DEF Average, ps, avg
<1>3. CASE ps # {}
  <2>1. avg = sum \div n
    BY <1>3, Zenon DEF Average, ps, avg
  <2>2. n \in Nat /\ 0 < n
    BY <1>1, <1>3, FS_EmptySet, FS_CardinalityType
  <2>3. SumGood(sum, ps, attrs)
    BY <1>1, SumIsGood
  <2> HIDE DEF sum
  <2>4. sum \in Int
    BY <2>3 DEF SumGood
  <2>5. ASSUME NEW b \in Int
        PROVE  /\ (\A p \in ps : b <= Reading(p, attrs)) => n * b <= sum
               /\ (\A p \in ps : Reading(p, attrs) <= b) => sum <= n * b
    BY <2>3 DEF SumGood
  <2> HIDE DEF n
  <2>6. avg \in Int
    BY <2>1, <2>2, <2>4, QuotientBounded
  <2>7. ASSUME NEW b \in Int
        PROVE  /\ (\A p \in ps : b <= Reading(p, attrs)) => b <= avg
               /\ (\A p \in ps : Reading(p, attrs) <= b) => avg <= b
    <3>1. (n * b <= sum => b <= avg) /\ (sum <= n * b => avg <= b)
      BY <2>1, <2>2, <2>4, QuotientBounded
    <3>2. QED
      BY <2>5, <3>1, Zenon
  <2>8. QED
    BY <1>3, <2>6, <2>7, Zenon DEF ps, avg
<1>4. QED
  BY <1>2, <1>3 DEF ps, avg

\* Whatever is aggregated, a space holds numbers.
LEMMA AggregateTyped ==
  ASSUME NEW eqs \in [Equip -> Descriptors \union {NoValue}], NEW x \in Space,
         NEW attrs \in [Device -> [Mapped -> Int \union {NoValue}]], NEW devs, NEW onl
  PROVE  Aggregate(x, devs, onl, attrs, eqs) \in Aggregated
<1>1. \A c \in Averaged : Average(x, c, devs, attrs, eqs) \in Int
  BY AverageBounded
<1>2. [c \in Averaged |-> Average(x, c, devs, attrs, eqs)] \in [Averaged -> Int]
  BY <1>1
<1>3. AnyDryContact(x, devs, attrs, eqs) \in BOOLEAN
  BY DEF AnyDryContact
<1>4. IsFiniteSet(EquipmentIn(x, eqs))
  BY EquipmentInFinite
<1>5. OnlineIn(x, devs, onl, eqs) \subseteq EquipmentIn(x, eqs)
  BY DEF OnlineIn
<1>6. /\ Cardinality(EquipmentIn(x, eqs)) \in Nat
      /\ Cardinality(OnlineIn(x, devs, onl, eqs)) \in Nat
  BY <1>4, <1>5, FS_Subset, FS_CardinalityType
<1>7. QED
  BY <1>2, <1>3, <1>6 DEF Aggregate, Aggregated

SpacesTyped == spaces \in [Space -> Aggregated \union {NoValue}]

\* A refresh makes well-typed aggregates.
LEMMA RefreshTyped ==
  ASSUME NEW eqs \in [Equip -> Descriptors \union {NoValue}],
         NEW attrs \in [Device -> [Mapped -> Int \union {NoValue}]], NEW devs, NEW onl
  PROVE  AggregateAll(devs, onl, attrs, eqs) \in [Space -> Aggregated \union {NoValue}]
<1>1. \A x \in Space : Aggregate(x, devs, onl, attrs, eqs) \in Aggregated
  BY AggregateTyped
<1>2. QED
  BY <1>1 DEF AggregateAll

\* Every step keeps the equipment table typed.
LEMMA StoredKept == StoreInv /\ EquipmentStored /\ [Next]_vars => EquipmentStored'
<1> SUFFICES ASSUME StoreInv, EquipmentStored, [Next]_vars PROVE EquipmentStored'
  OBVIOUS
<1>1. ASSUME NEW e \in Equip, NEW desc \in Descriptors, AddEquipment(e, desc)
      PROVE  EquipmentStored'
  BY <1>1 DEF AddEquipment, EquipmentStored
<1>2. ASSUME equipment' = equipment PROVE EquipmentStored'
  BY <1>2 DEF EquipmentStored
<1>3. QED
  BY <1>1, <1>2
  DEF Next, AddSpace, Join, RegisterDevice, SetDeviceOnline, UpdateAttribute, vars

\* Every step keeps the aggregates typed.
LEMMA SpacesTypedKept ==
  StoreInv /\ EquipmentStored /\ SpacesTyped /\ [Next]_vars /\ StoreInv' /\ EquipmentStored'
    => SpacesTyped'
<1> SUFFICES ASSUME StoreInv, EquipmentStored, SpacesTyped, [Next]_vars, StoreInv',
                    EquipmentStored'
             PROVE  SpacesTyped'
  OBVIOUS
<1>1. /\ equipment \in [Equip -> Descriptors \union {NoValue}]
      /\ equipment' \in [Equip -> Descriptors \union {NoValue}]
      /\ attributes \in [Device -> [Mapped -> Int \union {NoValue}]]
      /\ attributes' \in [Device -> [Mapped -> Int \union {NoValue}]]
  BY DEF EquipmentStored, StoreInv, LayersOK
<1>2. ASSUME NEW x \in Space, AddSpace(x) PROVE SpacesTyped'
  <2>1. Aggregate(x, devices, online, attributes, equipment) \in Aggregated
    BY <1>1, AggregateTyped
  <2>2. QED
    BY <1>2, <2>1 DEF AddSpace, SpacesTyped
<1>3. ASSUME NEW e \in Equip, NEW desc \in Descriptors, AddEquipment(e, desc)
      PROVE  SpacesTyped'
  BY <1>1, <1>3, RefreshTyped DEF AddEquipment, SpacesTyped
<1>4. ASSUME NEW d \in Device, NEW on \in BOOLEAN, SetDeviceOnline(d, on)
      PROVE  SpacesTyped'
  BY <1>1, <1>4, RefreshTyped DEF SetDeviceOnline, SpacesTyped
<1>5. ASSUME NEW d \in Device, NEW r \in Reports, UpdateAttribute(d, r[1], r[2])
      PROVE  SpacesTyped'
  BY <1>1, <1>5, RefreshTyped DEF UpdateAttribute, SpacesTyped
<1>6. ASSUME spaces' = spaces PROVE SpacesTyped'
  BY <1>6 DEF SpacesTyped
<1>7. QED
  BY <1>2, <1>3, <1>4, <1>5, <1>6 DEF Next, Join, RegisterDevice, vars

TypeInv == EquipmentStored /\ SpacesTyped

\* Both are typed in every reachable state.
LEMMA TypeInvAlways == Spec => []TypeInv
<1>1. Init => TypeInv
  BY DEF Init, TypeInv, EquipmentStored, SpacesTyped
<1>2. StoreInv /\ TypeInv /\ [Next]_vars /\ StoreInv' => TypeInv'
  BY StoredKept, SpacesTypedKept DEF TypeInv
<1>3. QED
  BY <1>1, <1>2, StoreInvAlways, PTL DEF Spec

\* The least battery level is a number.
LEMMA BatteryMinNumber == StoreInv => batteryMin \in Int
<1> SUFFICES ASSUME StoreInv PROVE batteryMin \in Int
  OBVIOUS
<1> DEFINE levels == {attributes[d]["battery"] : d \in devices}
           level == [d \in devices |-> attributes[d]["battery"]]
<1>1. IsFiniteSet(levels)
  <2>1. IsFiniteSet(devices)
    BY FieldAssumption, FS_Subset DEF StoreInv, LayersOK
  <2>2. \A f : IsFiniteSet({f[d] : d \in devices})
    BY <2>1, ImageFinite, Zenon
  <2>3. {level[d] : d \in devices} = levels
    OBVIOUS
  <2>4. QED
    BY <2>2, <2>3
<1>2. BatteryReadings(devices, attributes) \subseteq levels
  BY DEF BatteryReadings
<1>3. BatteryReadings(devices, attributes) \in SUBSET Int
  BY DEF BatteryReadings, StoreInv, LayersOK, Mapped
<1>4. Least(BatteryReadings(devices, attributes)) \in Int
  BY <1>1, <1>2, <1>3, FS_Subset, LeastIsLeast
<1>5. QED
  BY <1>4 DEF StoreInv, BatteryMinCurrent, BatteryMin

\* The store keeps its types: every average is a number, whatever the field.
THEOREM StoreTypeCorrect == Spec => []TypeOK
<1>1. StoreInv /\ TypeInv /\ TablesFit => TypeOK
  BY BatteryMinNumber DEF StoreInv, TypeInv, SpacesTyped, TypeOK
<1>2. QED
  BY <1>1, StoreInvAlways, TypeInvAlways, TablesNeverOverflow, PTL

\* aggregate_space: no average is ever outside the readings it stands for, in
\* any state, for any number of devices and any bindings.
THEOREM AveragesStayWithin == Spec => []AveragesWithin
<1>1. StoreInv /\ TypeInv => AveragesWithin
  <2> SUFFICES ASSUME StoreInv, TypeInv, NEW x \in Space, NEW c \in Averaged,
                      spaces[x] # NoValue,
                      NEW ps, ps = Sourced(x, c, devices, attributes, equipment),
                      NEW avg, avg = spaces[x].avg[c]
               PROVE  IF ps = {} THEN avg = 0
                      ELSE \E p, q \in ps : /\ Reading(p, attributes) <= avg
                                            /\ avg <= Reading(q, attributes)
    BY DEF AveragesWithin
  <2>1. avg = Average(x, c, devices, attributes, equipment)
    <3>1. spaces[x].avg = [a \in Averaged |-> Average(x, a, devices, attributes, equipment)]
      BY AggregateFields DEF StoreInv, ReadingsCurrent
    <3>2. QED
      BY <3>1
  <2>2. /\ equipment \in [Equip -> Descriptors \union {NoValue}]
        /\ attributes \in [Device -> [Mapped -> Int \union {NoValue}]]
    BY DEF StoreInv, LayersOK, TypeInv, EquipmentStored
  <2>3. /\ avg \in Int
        /\ ps = {} => avg = 0
        /\ ps # {} => \A b \in Int :
              /\ (\A p \in ps : b <= Reading(p, attributes)) => b <= avg
              /\ (\A p \in ps : Reading(p, attributes) <= b) => avg <= b
    BY <2>1, <2>2, AverageBounded
  <2>4. \A p \in ps : Reading(p, attributes) \in Int
    BY <2>2, SourcesFinite
  <2>5. ASSUME ps # {} PROVE \E p \in ps : Reading(p, attributes) <= avg
    <3>1. ~(\A p \in ps : avg + 1 <= Reading(p, attributes))
      BY <2>3, <2>5
    <3>2. QED
      BY <2>3, <2>4, <3>1
  <2>6. ASSUME ps # {} PROVE \E q \in ps : avg <= Reading(q, attributes)
    <3>1. ~(\A q \in ps : Reading(q, attributes) <= avg - 1)
      BY <2>3, <2>6
    <3>2. QED
      BY <2>3, <2>4, <3>1
  <2>7. QED
    BY <2>3, <2>5, <2>6
<1>2. QED
  BY <1>1, StoreInvAlways, TypeInvAlways, PTL
=============================================================================
