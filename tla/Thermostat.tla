----------------------------- MODULE Thermostat -----------------------------
(***************************************************************************)
(* firmware-c6/components/control/control_task.c over the parts it reads:  *)
(* the store the RX task and the rest of the program write at any time,    *)
(* the H2's presence and the relay loop.                                   *)
(*                                                                         *)
(* A tick copies the recipe, the space, the H2's state and the local       *)
(* sensor one after the other, each under its own lock, and acts on the    *)
(* four copies together.  A copy whose lock times out ends the tick or,    *)
(* for the local sensor, counts as absent.                                 *)
(***************************************************************************)
EXTENDS SensorState

CONSTANTS
  ControlSpace,  \* control_loop_space_id
  Recipes,       \* recipes that sensor_state_set_recipe is called with
  LocalTemps,    \* readings of the local SHT40
  FaultyPins     \* see ControlLoop

VARIABLES
  fresh, asking, witnessed, overlapped, answer,               \* H2Presence
  pin, relays, pc, target, cmd, stuck, mended,                \* ControlLoop
  recipe,   \* active_recipe of the store
  local,    \* local temperature of the store, NoValue while unavailable
  at,       \* the step of control_loop_tick that comes next
  got,      \* the copies made in this tick
  everFresh,  \* history: the H2 was fresh at some moment of this tick
  offOrders   \* history: the orders to be off that held all through this tick

Decision == INSTANCE ControlDecision
H2 == INSTANCE H2Presence

\* Whatever recipe and inputs the tick comes by.
Loop == INSTANCE ControlLoop
          WITH Recipes <- Decision!Recipe, Inputs <- Decision!ControlInputs

storeVars == <<vars, recipe, local>>
h2Vars == <<fresh, asking, witnessed, overlapped, answer>>
loopVars == <<pin, relays, pc, target, cmd, stuck, mended>>
tickVars == <<at, got>>
history == <<everFresh, offOrders>>
thermostatVars == <<storeVars, h2Vars, loopVars, tickVars, history>>

ASSUME ThermostatAssumption ==
  /\ ControlSpace \in Space
  /\ Recipes \subseteq Decision!Recipe
  /\ LocalTemps \subseteq Int
  /\ FaultyPins \subseteq Loop!Relay

NoCopies == [recipe |-> Decision!ZeroRecipe, space |-> NoValue, local |-> NoValue]

ThermostatTypeOK ==
  /\ TypeOK /\ H2!TypeOK /\ Loop!TypeOK
  /\ recipe \in Decision!Recipe
  /\ local \in LocalTemps \union {NoValue}
  /\ at \in {"scan", "recipe", "space", "h2", "local", "run"}
  /\ got \in [recipe: Decision!Recipe, space: Aggregated \union {NoValue},
              local: LocalTemps \union {NoValue}]
  /\ everFresh \in BOOLEAN /\ offOrders \subseteq {"mode", "contact"}

\* Why the store's contents now ask for open relays: the mode, or the contact.
OffOrders ==
  {why \in {"mode", "contact"} :
     CASE why = "mode"    -> recipe.hvac_mode = "OFF"
       [] why = "contact" -> /\ spaces[ControlSpace] # NoValue
                             /\ Decision!Interlocked(recipe, spaces[ControlSpace].dry)}

ThermostatInit ==
  /\ Init /\ H2!Init /\ Loop!Init
  /\ recipe = Decision!ZeroRecipe
  /\ local = NoValue
  /\ at = "scan" /\ got = NoCopies
  /\ everFresh = FALSE /\ offOrders = {}

\* The history of the tick in progress, after a step of someone else's.
Remember ==
  /\ everFresh' = (at' # "scan" /\ (everFresh \/ fresh'))
  /\ offOrders' = offOrders \intersect OffOrders'

-----------------------------------------------------------------------------
(* Everybody but the control task.                                         *)

\* A call of the store's interface that changes layers 1 to 3.
StoreCall ==
  /\ Next
  /\ UNCHANGED <<recipe, local, h2Vars, loopVars, tickVars>>

\* sensor_state_set_recipe.
SetRecipe(r) ==
  /\ recipe' = r
  /\ UNCHANGED <<vars, local, h2Vars, loopVars, tickVars>>

\* A heartbeat, or the timeout without one.
H2Changes ==
  /\ H2!Beat \/ H2!Fade
  /\ UNCHANGED <<storeVars, loopVars, tickVars>>

\* The GPIO lines and the mutex behave from now on.
Mend ==
  /\ Loop!Mend
  /\ UNCHANGED <<storeVars, h2Vars, tickVars>>

Others == (StoreCall \/ (\E r \in Recipes : SetRecipe(r)) \/ H2Changes \/ Mend)
          /\ Remember

-----------------------------------------------------------------------------
(* The control task.                                                       *)

\* control_loop_init, before the task starts, and the three relay writes.
Actuate ==
  /\ Loop!LoopInit \/ Loop!WriteHeat \/ Loop!WriteCool \/ Loop!WriteFan \/ Loop!WriteFails
  /\ UNCHANGED <<storeVars, h2Vars, tickVars>>
  /\ Remember

\* The tick begins: io_scan_tick, with or without a new SHT40 reading.
Scan ==
  /\ at = "scan"
  /\ pc = "ready"
  /\ local' \in LocalTemps \union {local}
  /\ at' = "recipe"
  /\ everFresh' = fresh
  /\ offOrders' = OffOrders
  /\ UNCHANGED <<vars, recipe, got, h2Vars, loopVars>>

\* return from control_loop_tick without a decision; the relays stay.
GiveUp ==
  /\ at' = "scan"
  /\ got' = NoCopies
  /\ everFresh' = FALSE
  /\ offOrders' = {}
  /\ UNCHANGED <<storeVars, h2Vars, loopVars>>

\* A lock that is not free within STATE_MUTEX_TIMEOUT_MS, or no such space.
GetFails ==
  \/ at \in {"recipe", "space"} /\ ~mended /\ GiveUp
  \/ at = "space" /\ spaces[ControlSpace] = NoValue /\ GiveUp

\* On to the next call with one more copy.
Copied(copies, next) ==
  /\ got' = copies
  /\ at' = next
  /\ UNCHANGED <<storeVars, h2Vars, loopVars>>
  /\ Remember

GetRecipe ==
  /\ at = "recipe"
  /\ Copied([got EXCEPT !.recipe = recipe], "space")

GetSpace ==
  /\ at = "space"
  /\ spaces[ControlSpace] # NoValue
  /\ Copied([got EXCEPT !.space = spaces[ControlSpace]], "h2")

\* zigbee_bridge_is_h2_online, from its call to its return.
AskH2 ==
  /\ at = "h2"
  /\ H2!Ask
  /\ UNCHANGED <<storeVars, loopVars, tickVars>>
  /\ Remember

HearH2 ==
  /\ at = "h2"
  /\ H2!Answer
  /\ at' = "local"
  /\ UNCHANGED <<storeVars, loopVars, got>>
  /\ Remember

\* After a timeout the cleared in.local_temp counts as a reading.
GetLocalZero ==
  /\ at = "local"
  /\ \E copy \in {local} \union (IF mended THEN {} ELSE {0}) :
       Copied([got EXCEPT !.local = copy], "run")

\* The result of sensor_state_get_local is not checked: a timeout leaves
\* local_avail FALSE.
GetLocal ==
  /\ at = "local"
  /\ \E copy \in {local} \union (IF mended THEN {} ELSE {NoValue}) :
       Copied([got EXCEPT !.local = copy], "run")

\* zigbee_valid without asking the H2.
GatheredUnasked ==
  [zigbee_valid |-> got.space.onlineCount > 0,
   zigbee_temp  |-> got.space.avg["TEMPERATURE"],
   local_valid  |-> got.local # NoValue,
   local_temp   |-> IF got.local = NoValue THEN 0 ELSE got.local,
   dry          |-> got.space.dry]

\* The dry contact believed only while the H2 is online.
GatheredOnlineOnly ==
  [zigbee_valid |-> answer /\ got.space.onlineCount > 0,
   zigbee_temp  |-> got.space.avg["TEMPERATURE"],
   local_valid  |-> got.local # NoValue,
   local_temp   |-> IF got.local = NoValue THEN 0 ELSE got.local,
   dry          |-> answer /\ got.space.dry]

\* The control_inputs_t made of the copies.
Gathered ==
  [zigbee_valid |-> answer /\ got.space.onlineCount > 0,
   zigbee_temp  |-> got.space.avg["TEMPERATURE"],
   local_valid  |-> got.local # NoValue,
   local_temp   |-> IF got.local = NoValue THEN 0 ELSE got.local,
   dry          |-> got.space.dry]

\* control_loop_run up to the first relay write.
Run ==
  /\ at = "run"
  /\ Loop!Run(got.recipe, Gathered)
  /\ at' = "scan"
  /\ got' = NoCopies
  /\ UNCHANGED <<storeVars, h2Vars>>
  /\ Remember

Control == \/ Actuate \/ Scan \/ GetFails \/ GetRecipe \/ GetSpace
           \/ AskH2 \/ HearH2 \/ GetLocal \/ Run

ThermostatNext == Control \/ Others

\* The control task is scheduled every period.
Fairness == WF_thermostatVars(Control)

ThermostatSpec == ThermostatInit /\ [][ThermostatNext]_thermostatVars
FairThermostatSpec == ThermostatSpec /\ Fairness

-----------------------------------------------------------------------------
\* A decision on a Zigbee temperature is made only if the H2 was heard from, in
\* time, at some moment of the tick.
SilentH2IsIgnored ==
  [][pc = "ready" /\ pc' = "heat" /\ cmd'.source = "zigbee" => everFresh]_thermostatVars

\* When mode OFF, or an active contact under lockout, held from the tick's start
\* to its decision, the tick ends with all relays open, whatever mixture of old
\* and new contents its copies are.  (It must be one of the two all along: when
\* the contact opens while the mode turns to OFF, the tick can miss both.  And a
\* tick without any temperature source holds instead.)
OffOrdersObeyed ==
  /\ at = "scan" /\ pc = "ready" /\ stuck = {}
  /\ offOrders # {} /\ cmd.source \in {"zigbee", "local"}
  => pin = Loop!AllOff

\* With a local sensor and a configured space, a lasting order to be off opens
\* the relays for good, whatever the H2 and the reports do.
Served == mended /\ pc # "halted" /\ local # NoValue /\ spaces[ControlSpace] # NoValue
LastingOffOrders ==
  \/ <>[](Served /\ "mode" \in OffOrders)
  \/ <>[](Served /\ "contact" \in OffOrders)
  => <>[](pin = Loop!AllOff)

\* An H2 that stays silent hands the decisions to the local sensor for good.
FallsBackToLocal == <>[](Served /\ ~fresh) => <>[](cmd.source = "local")

\* "zigbee_valid: H2 online AND a fresh Zigbee reading": a decision on a Zigbee
\* temperature has a temperature reading of the space behind it.
ZigbeeMeansReading ==
  [][pc = "ready" /\ pc' = "heat" /\ cmd'.source = "zigbee"
     => Sourced(ControlSpace, "TEMPERATURE", devices, attributes, equipment) # {}]_thermostatVars
=============================================================================
