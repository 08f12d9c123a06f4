----------------------------- MODULE RelayCycles -----------------------------
(***************************************************************************)
(* ControlLoop with a history variable that remembers at which temperature *)
(* each call last changed under the present recipe, and the promise the    *)
(* deadband makes about two consecutive changes.                           *)
(***************************************************************************)
EXTENDS ControlLoop

CONSTANT NoSwing   \* no change remembered

ASSUME NoSwingAssumption == NoSwing \notin Int

VARIABLES
  watched,   \* the call followed by this behaviour
  swing      \* recipe and temperature of its latest change
cyclevars == <<vars, watched, swing>>

NoSwings == [recipe |-> ZeroRecipe, temp |-> NoSwing]

CycleInit == Init /\ watched \in {"heat", "cool"} /\ swing = NoSwings

\* run_once stores a decision: the last write of a run that had a temperature.
Latching == pc = "fan" /\ pc' = "ready" /\ cmd.source \in {"zigbee", "local"}

Changes == relays[watched] # relays'[watched]

\* A new recipe, the interlock or a reset starts a new history.
Continues == cmd.recipe = swing.recipe /\ ~Interlocked(cmd.recipe, cmd.dry)

NextSwing ==
  IF ~Latching THEN IF pc' = "boot" THEN NoSwings ELSE swing
  ELSE IF Interlocked(cmd.recipe, cmd.dry) THEN NoSwings
  ELSE IF Changes THEN [recipe |-> cmd.recipe, temp |-> cmd.temp]
  ELSE IF Continues THEN swing ELSE NoSwings

CycleNext == Next /\ swing' = NextSwing /\ UNCHANGED watched

CycleSpec == CycleInit /\ [][CycleNext]_cyclevars
FairCycleSpec == CycleSpec /\ Fairness

Dist(a, b) == IF a < b THEN b - a ELSE a - b

\* "the relays hold their state inside the deadband (no short-cycling)": while
\* one recipe with setpoint_heat <= setpoint_cool stays active and the interlock
\* does not act, two consecutive changes of a call are at temperatures at least
\* one deadband apart, failed writes included.
NoShortCycle ==
  [][/\ Latching /\ Continues /\ Changes /\ swing.temp # NoSwing
     /\ cmd.recipe.setpoint_heat <= cmd.recipe.setpoint_cool
     => Dist(cmd.temp, swing.temp) >= cmd.recipe.deadband]_cyclevars
=============================================================================
