----------------------------- MODULE ControlLoop -----------------------------
(***************************************************************************)
(* firmware-c6/components/control/control_loop.c: source selection, the    *)
(* relay memory (s_relays) and actuation of the three relay pins.          *)
(*                                                                         *)
(* apply_relays writes heat, then cool, then fan through the GPIO HAL and  *)
(* returns at the first error.  Each hal_gpio_set is a step of its own:    *)
(* the control task can be preempted between two of them, and a write that *)
(* returns an error leaves the later pins untouched.                       *)
(***************************************************************************)
EXTENDS ControlDecision

CONSTANTS
  Inputs,      \* control_inputs_t values the caller can pass
  Recipes,     \* recipes that can be active
  FaultyPins   \* relay lines whose hal_gpio_set may return an error

Relay == {"heat", "cool", "fan"}

ASSUME InputsAssumption  == Inputs \subseteq ControlInputs
ASSUME RecipesAssumption == Recipes \subseteq Recipe
ASSUME FaultyAssumption  == FaultyPins \subseteq Relay

VARIABLES
  pin,      \* physical level of the relay lines (HAL_GPIO_RELAY_*)
  relays,   \* s_relays: last successfully applied state, hysteresis memory
  pc,       \* where the caller is: next pin to write, or between runs
  target,   \* argument of the apply_relays call in progress
  cmd,      \* recipe and inputs of the run in progress, or of the last one
  stuck,    \* history: lines whose latest write returned an error
  mended    \* environment: no write fails and no reset happens any more

vars == <<pin, relays, pc, target, cmd, stuck, mended>>

Sources == {"init", "zigbee", "local", "none"}

Command == [recipe: Recipe, source: Sources, temp: Int, dry: BOOLEAN]

TypeOK ==
  /\ pin \in RelayState
  /\ relays \in RelayState
  /\ pc \in {"boot", "heat", "cool", "fan", "ready", "halted"}
  /\ target \in RelayState
  /\ cmd \in Command
  /\ stuck \subseteq Relay
  /\ mended \in BOOLEAN

BootCommand == [recipe |-> ZeroRecipe, source |-> "init", temp |-> 0, dry |-> FALSE]

\* State after hal_gpio_init: every line driven low, the loop not yet set up.
Init ==
  /\ pin = AllOff
  /\ relays = AllOff
  /\ pc = "boot"
  /\ target = AllOff
  /\ cmd = BootCommand
  /\ stuck = {}
  /\ mended = FALSE

-----------------------------------------------------------------------------
\* control_loop_init: forget the relay memory, then drive all relays off.
LoopInit ==
  /\ pc = "boot"
  /\ relays' = AllOff
  /\ target' = AllOff
  /\ cmd' = BootCommand
  /\ pc' = "heat"
  /\ UNCHANGED <<pin, stuck, mended>>

\* Zigbee first, the local sensor as fallback, else no temperature source.
SelectSource(in) ==
  IF in.zigbee_valid THEN "zigbee" ELSE IF in.local_valid THEN "local" ELSE "none"

SelectTemp(in) ==
  IF SelectSource(in) = "zigbee" THEN in.zigbee_temp
  ELSE IF SelectSource(in) = "local" THEN in.local_temp ELSE 0

\* Without a source the memory is re-applied as it is (HOLD).
Decision(r, in) ==
  IF SelectSource(in) = "none"
  THEN relays
  ELSE Decide(r, SelectTemp(in), in.dry, relays)

\* Drive a new decision only when it differs from the memory.
RunSkippingUnchanged(r, in) ==
  /\ pc = "ready"
  /\ cmd' = [recipe |-> r, source |-> SelectSource(in),
             temp |-> SelectTemp(in), dry |-> in.dry]
  /\ target' = Decision(r, in)
  /\ pc' = IF Decision(r, in) = relays THEN "ready" ELSE "heat"
  /\ UNCHANGED <<pin, relays, stuck, mended>>

\* control_loop_run up to its call of apply_relays.
Run(r, in) ==
  /\ pc = "ready"
  /\ cmd' = [recipe |-> r, source |-> SelectSource(in),
             temp |-> SelectTemp(in), dry |-> in.dry]
  /\ target' = Decision(r, in)
  /\ pc' = "heat"
  /\ UNCHANGED <<pin, relays, stuck, mended>>

\* One hal_gpio_set that succeeds.
WriteHeat ==
  /\ pc = "heat"
  /\ pin' = [pin EXCEPT !.heat = target.heat]
  /\ stuck' = stuck \ {"heat"}
  /\ pc' = "cool"
  /\ UNCHANGED <<relays, target, cmd, mended>>

WriteCool ==
  /\ pc = "cool"
  /\ pin' = [pin EXCEPT !.cool = target.cool]
  /\ stuck' = stuck \ {"cool"}
  /\ pc' = "fan"
  /\ UNCHANGED <<relays, target, cmd, mended>>

\* An off-by-one over the relay lines: a fourth write follows the third.
WriteFanRunningOn ==
  /\ pc = "fan"
  /\ pin' = [pin EXCEPT !.fan = target.fan]
  /\ stuck' = stuck \ {"fan"}
  /\ pc' = "fourth"
  /\ UNCHANGED <<relays, target, cmd, mended>>

\* The last write: apply_relays returns ESP_OK and run_once latches.  After a
\* hold or an init, target is already the memory and the latch changes nothing.
WriteFan ==
  /\ pc = "fan"
  /\ pin' = [pin EXCEPT !.fan = target.fan]
  /\ stuck' = stuck \ {"fan"}
  /\ relays' = target
  /\ pc' = "ready"
  /\ UNCHANGED <<target, cmd, mended>>

\* The error noted, but the remaining lines driven all the same.
WriteFailsContinuing ==
  /\ pc \in FaultyPins
  /\ ~mended
  /\ stuck' = stuck \union {pc}
  /\ pc' = CASE pc = "heat" -> "cool" [] pc = "cool" -> "fan" [] OTHER -> "ready"
  /\ UNCHANGED <<pin, relays, target, cmd, mended>>

\* One hal_gpio_set that returns an error: apply_relays returns at once, the
\* memory keeps its old value.  app_main halts when that was control_loop_init,
\* control_loop_tick ignores it.
WriteFails ==
  /\ pc \in FaultyPins
  /\ ~mended
  /\ stuck' = stuck \union {pc}
  /\ pc' = IF cmd.source = "init" THEN "halted" ELSE "ready"
  /\ UNCHANGED <<pin, relays, target, cmd, mended>>

\* enter_fault: app_main blinks the LED forever, the control task never starts.
Blink == pc = "halted" /\ UNCHANGED vars

-----------------------------------------------------------------------------
\* Power cycle or watchdog reset at any point; hal_gpio_init drives lines low.
Reset ==
  /\ ~mended
  /\ pin' = AllOff
  /\ relays' = AllOff
  /\ pc' = "boot"
  /\ target' = AllOff
  /\ cmd' = BootCommand
  /\ stuck' = {}
  /\ UNCHANGED mended

\* From here on the hardware behaves.
Mend ==
  /\ ~mended
  /\ mended' = TRUE
  /\ UNCHANGED <<pin, relays, pc, target, cmd, stuck>>

Tick == \E r \in Recipes, in \in Inputs : Run(r, in)

\* What app_main and the control task do.
Step == LoopInit \/ Tick \/ WriteHeat \/ WriteCool \/ WriteFan \/ WriteFails

Next == Step \/ Blink \/ Reset \/ Mend

\* The task runs every period (vTaskDelayUntil) and no GPIO write blocks.
Fairness == WF_vars(Step)

Spec == Init /\ [][Next]_vars
FairSpec == Spec /\ Fairness

-----------------------------------------------------------------------------
\* Heat and cool are never called at once ("never heat and cool
\* simultaneously"): the two lines are high together only between the write of
\* the heat line and that of the cool line, or when the cool line failed to
\* open.  A heat line that fails cannot cause it: its error ends the apply.
OpposingOnlyBetweenWrites ==
  pin.heat /\ pin.cool => (pc = "cool" /\ target.heat) \/ "cool" \in stuck

\* "Circulate air whenever a heat/cool call is active": between runs, a heat or
\* cool line that is high without the fan means some line's last write failed.
CallsHaveAir ==
  pc = "ready" /\ stuck = {} /\ (pin.heat \/ pin.cool) => pin.fan

\* The hysteresis memory only ever takes a value that the pins have at that
\* moment ("latch only on successful actuation").
MemoryWasDriven == [][relays' # relays => pin' = relays']_vars

\* "Safety interlock takes precedence over everything else": a run that knew a
\* temperature, with the lockout configured and the contact active, and whose
\* writes all succeeded, leaves every relay open, whatever earlier runs left on
\* the lines.  A run without a temperature re-applies the last state instead and
\* looks at neither ("no source: set fault, HOLD the last relay state").
InterlockOpensRelays ==
  /\ pc = "ready" /\ stuck = {}
  /\ Interlocked(cmd.recipe, cmd.dry)
  /\ cmd.source \in {"zigbee", "local"}
  => pin = AllOff

\* Once the lines accept writes again, the pins return to the memory, whatever
\* mixture of old and new levels a failed apply has left on them.
FaultHeals == mended ~> (pc = "halted" \/ (pc = "ready" /\ pin = relays))
=============================================================================
