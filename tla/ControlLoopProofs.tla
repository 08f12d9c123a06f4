-------------------------- MODULE ControlLoopProofs --------------------------
(***************************************************************************)
(* Theorems about ControlLoop for every set of recipes, inputs and faulty  *)
(* lines.  The safety results follow from one inductive invariant, LoopInv;*)
(* that the deadband keeps a call from cycling, from it and SwingInv.      *)
(***************************************************************************)
EXTENDS RelayCycles, TLAPS

\* No state asks for heat and cool at once, or for either without the fan.
Sane(r) == ~(r.heat /\ r.cool) /\ (r.heat \/ r.cool => r.fan)

\* The lines already written by the apply in progress carry the target.
WrittenPrefix ==
  /\ pc \in {"cool", "fan"} => pin.heat = target.heat
  /\ pc = "fan" => pin.cool = target.cool

\* Only a run whose writes all succeeded ends without a stuck line.
CleanRunApplied == pc = "ready" /\ stuck = {} => pin = target

\* The interlock has decided the target of every run that had a source.
InterlockTarget ==
  /\ pc \in {"heat", "cool", "fan", "ready"}
  /\ Interlocked(cmd.recipe, cmd.dry)
  /\ cmd.source \in {"zigbee", "local"}
  => target = AllOff

\* Before control_loop_init there is nothing to forget.
BootedClean == pc = "boot" => relays = AllOff

LoopInv ==
  /\ TypeOK
  /\ BootedClean
  /\ Sane(target) /\ Sane(relays)
  /\ WrittenPrefix
  /\ CleanRunApplied
  /\ InterlockTarget
  /\ OpposingOnlyBetweenWrites

-----------------------------------------------------------------------------
\* What control_loop_decide returns is a sane relay state for any input.
LEMMA DecideSane ==
  ASSUME NEW r \in Recipe, NEW temp \in Int, NEW dry \in BOOLEAN,
         NEW prev \in RelayState
  PROVE  /\ Decide(r, temp, dry, prev) \in RelayState
         /\ Sane(Decide(r, temp, dry, prev))
         /\ Interlocked(r, dry) => Decide(r, temp, dry, prev) = AllOff
<1> DEFINE heat == /\ r.hvac_mode \in {"HEAT", "AUTO"}
                   /\ HeatDecision(r, temp, prev.heat)
           cool == /\ r.hvac_mode \in {"COOL", "AUTO"}
                   /\ CoolDecision(r, temp, prev.cool)
                   /\ ~heat
           out  == [heat |-> heat, cool |-> cool,
                    fan |-> heat \/ cool \/ r.hvac_mode = "FAN_ONLY"]
<1>1. Decide(r, temp, dry, prev) = IF Interlocked(r, dry) THEN AllOff ELSE out
  BY Zenon DEF Decide
<1>2. AllOff \in RelayState /\ Sane(AllOff)
  BY DEF AllOff, RelayState, Sane
<1>3. heat \in BOOLEAN /\ cool \in BOOLEAN /\ ~(heat /\ cool)
  BY DEF HeatDecision, CoolDecision
<1>4. out \in RelayState /\ Sane(out)
  <2> HIDE DEF heat, cool
  <2>1. ASSUME NEW h \in BOOLEAN, NEW c \in BOOLEAN, NEW f \in BOOLEAN,
               ~(h /\ c), h \/ c => f
        PROVE  /\ [heat |-> h, cool |-> c, fan |-> f] \in RelayState
               /\ Sane([heat |-> h, cool |-> c, fan |-> f])
    BY <2>1 DEF RelayState, Sane
  <2>2. (heat \/ cool \/ r.hvac_mode = "FAN_ONLY") \in BOOLEAN
    OBVIOUS
  <2>3. QED
    BY <1>3, <2>1, <2>2
<1>5. QED
  BY <1>1, <1>2, <1>4, Zenon

\* So is the target of every run: a new decision, or the memory re-applied.
LEMMA DecisionSane ==
  ASSUME TypeOK, Sane(relays), NEW r \in Recipe, NEW in \in ControlInputs
  PROVE  /\ SelectSource(in) \in Sources /\ SelectTemp(in) \in Int
         /\ Decision(r, in) \in RelayState
         /\ Sane(Decision(r, in))
         /\ Interlocked(r, in.dry) /\ SelectSource(in) # "none"
              => Decision(r, in) = AllOff
<1>1. SelectSource(in) \in Sources /\ SelectTemp(in) \in Int /\ in.dry \in BOOLEAN
  BY DEF ControlInputs, SelectSource, SelectTemp, Sources
<1>2. relays \in RelayState
  BY DEF TypeOK
<1>3. CASE SelectSource(in) = "none"
  BY <1>1, <1>2, <1>3 DEF Decision
<1>4. CASE SelectSource(in) # "none"
  BY <1>1, <1>2, <1>4, DecideSane DEF Decision
<1>5. QED
  BY <1>3, <1>4

-----------------------------------------------------------------------------

\* The loop starts with every relay open and no command.
LEMMA LoopInvInit == Init => LoopInv
<1> SUFFICES ASSUME Init PROVE LoopInv
  OBVIOUS
<1>1. AllOff \in RelayState /\ Sane(AllOff) /\ ~AllOff.heat
  BY DEF AllOff, RelayState, Sane
<1>2. BootCommand \in Command
  BY DEF BootCommand, Command, ZeroRecipe, Recipe, Modes, Sources
<1>3. TypeOK
  BY <1>1, <1>2 DEF Init, TypeOK
<1>4. QED
  BY <1>1, <1>3 DEF Init, LoopInv, WrittenPrefix, CleanRunApplied,
                    InterlockTarget, BootedClean, OpposingOnlyBetweenWrites

\* One step per action; every action falls to the definitions it touches.
LEMMA LoopInvStep == LoopInv /\ [Next]_vars => LoopInv'
<1> SUFFICES ASSUME LoopInv, [Next]_vars PROVE LoopInv'
  OBVIOUS
<1>a. AllOff \in RelayState /\ Sane(AllOff)
  BY DEF AllOff, RelayState, Sane
<1>b. BootCommand \in Command /\ BootCommand.source = "init"
  BY DEF BootCommand, Command, ZeroRecipe, Recipe, Modes, Sources
<1>1. CASE LoopInit
  BY <1>1, <1>a, <1>b DEF LoopInit, LoopInv, TypeOK, WrittenPrefix,
     CleanRunApplied, InterlockTarget, BootedClean, OpposingOnlyBetweenWrites
<1>2. CASE Tick
  <2>1. PICK r \in Recipes, in \in Inputs : Run(r, in)
    BY <1>2 DEF Tick
  <2>2. r \in Recipe /\ in \in ControlInputs
    BY InputsAssumption, RecipesAssumption
  <2>3. /\ SelectSource(in) \in Sources /\ SelectTemp(in) \in Int
        /\ Decision(r, in) \in RelayState
        /\ Sane(Decision(r, in))
        /\ Interlocked(r, in.dry) /\ SelectSource(in) # "none"
             => Decision(r, in) = AllOff
    BY <2>2, DecisionSane DEF LoopInv
  <2>4. in.dry \in BOOLEAN
    BY <2>2 DEF ControlInputs
  <2>5. cmd' = [recipe |-> r, source |-> SelectSource(in),
                temp |-> SelectTemp(in), dry |-> in.dry]
    BY <2>1 DEF Run
  <2>6. cmd' \in Command
    BY <2>2, <2>3, <2>4, <2>5 DEF Command
  <2>7. InterlockTarget'
    BY <2>1, <2>3, <2>5 DEF InterlockTarget, Run
  <2>8. QED
    BY <2>1, <2>3, <2>6, <2>7 DEF Run, LoopInv, TypeOK, WrittenPrefix,
       CleanRunApplied, BootedClean, OpposingOnlyBetweenWrites
<1>3. CASE WriteHeat
  BY <1>3 DEF WriteHeat, LoopInv, TypeOK, RelayState, Relay, WrittenPrefix,
     CleanRunApplied, InterlockTarget, BootedClean, OpposingOnlyBetweenWrites
<1>4. CASE WriteCool
  BY <1>4 DEF WriteCool, LoopInv, TypeOK, RelayState, Relay, WrittenPrefix,
     CleanRunApplied, InterlockTarget, BootedClean, OpposingOnlyBetweenWrites, Sane
<1>5. CASE WriteFan
  BY <1>5 DEF WriteFan, LoopInv, TypeOK, RelayState, Relay, WrittenPrefix,
     CleanRunApplied, InterlockTarget, BootedClean, OpposingOnlyBetweenWrites, Sane
<1>6. CASE WriteFails
  BY <1>6, FaultyAssumption
     DEF WriteFails, LoopInv, TypeOK, Relay, WrittenPrefix, CleanRunApplied,
     InterlockTarget, BootedClean, OpposingOnlyBetweenWrites, Command, Sources
<1>7. CASE Blink
  BY <1>7 DEF Blink, vars, LoopInv, TypeOK, WrittenPrefix, CleanRunApplied,
     InterlockTarget, BootedClean, OpposingOnlyBetweenWrites
<1>8. CASE Reset
  <2>1. ~AllOff.heat
    BY DEF AllOff
  <2>2. QED
    BY <1>8, <1>a, <1>b, <2>1 DEF Reset, LoopInv, TypeOK, WrittenPrefix,
       CleanRunApplied, InterlockTarget, BootedClean, OpposingOnlyBetweenWrites
<1>9. CASE Mend
  BY <1>9 DEF Mend, LoopInv, TypeOK, WrittenPrefix, CleanRunApplied,
     InterlockTarget, BootedClean, OpposingOnlyBetweenWrites
<1>10. CASE UNCHANGED vars
  BY <1>10 DEF vars, LoopInv, TypeOK, WrittenPrefix, CleanRunApplied,
     InterlockTarget, BootedClean, OpposingOnlyBetweenWrites
<1>11. QED
  BY <1>1, <1>2, <1>3, <1>4, <1>5, <1>6, <1>7, <1>8, <1>9, <1>10 DEF Next, Step

\* Pins, target and memory belong together in every reachable state.
LEMMA LoopInvAlways == Spec => []LoopInv
  BY LoopInvInit, LoopInvStep, PTL DEF Spec

-----------------------------------------------------------------------------
\* Every variable of the loop keeps its type.
THEOREM TypeCorrect == Spec => []TypeOK
<1>1. LoopInv => TypeOK
  BY DEF LoopInv
<1>2. QED
  BY <1>1, LoopInvAlways, PTL

\* The heat and cool lines are high together only in the window between their
\* two writes, or after the cool line failed to open.
THEOREM OpposingCallsApart == Spec => []OpposingOnlyBetweenWrites
<1>1. LoopInv => OpposingOnlyBetweenWrites
  BY DEF LoopInv
<1>2. QED
  BY <1>1, LoopInvAlways, PTL

\* Between runs, with no line stuck, a heat or cool call has the fan.
THEOREM CallsAlwaysHaveAir == Spec => []CallsHaveAir
<1>1. LoopInv => CallsHaveAir
  BY DEF LoopInv, CallsHaveAir, CleanRunApplied, Sane
<1>2. QED
  BY <1>1, LoopInvAlways, PTL

\* The interlock opens every relay in a run that knew a temperature and whose
\* writes all succeeded.
THEOREM InterlockIsSafe == Spec => []InterlockOpensRelays
<1>1. LoopInv => InterlockOpensRelays
  BY DEF LoopInv, InterlockOpensRelays, InterlockTarget, CleanRunApplied
<1>2. QED
  BY <1>1, LoopInvAlways, PTL

\* The hysteresis memory changes only to what the three pins then carry.
THEOREM MemoryFollowsPins == Spec => MemoryWasDriven
<1>1. LoopInv /\ [Next]_vars => [relays' # relays => pin' = relays']_vars
  <2> SUFFICES ASSUME LoopInv, Next, relays' # relays
               PROVE  pin' = relays'
    BY DEF vars
  <2>1. CASE WriteFan
    BY <2>1 DEF WriteFan, LoopInv, TypeOK, RelayState, WrittenPrefix
  <2>2. CASE Reset
    BY <2>2 DEF Reset
  <2>3. ~LoopInit
    BY DEF LoopInit, LoopInv, BootedClean
  <2>4. QED
    BY <2>1, <2>2, <2>3
       DEF Next, Step, Tick, Run, WriteHeat, WriteCool, WriteFails, Blink, Mend, vars
<1>2. QED
  BY <1>1, LoopInvAlways, PTL DEF Spec, MemoryWasDriven

-----------------------------------------------------------------------------
(* The deadband.  A call that has changed under a recipe lies on the side   *)
(* of the band that made it change, and stays there as long as the recipe  *)
(* does; to change again it has to cross the band.                         *)

\* The apply in progress writes the decision on the command, or the memory.
DecidedTarget ==
  pc \in {"heat", "cool", "fan"} =>
    target = IF cmd.source \in {"zigbee", "local"}
             THEN Decide(cmd.recipe, cmd.temp, cmd.dry, relays)
             ELSE relays

\* At temperature t, recipe r moved the heat call to on.
HeatSide(r, t, on) ==
  IF on THEN /\ r.hvac_mode \in {"HEAT", "AUTO"}
             /\ 2 * t <= 2 * r.setpoint_heat - r.deadband
        ELSE \/ r.hvac_mode \notin {"HEAT", "AUTO"}
             \/ 2 * t >= 2 * r.setpoint_heat + r.deadband

\* The same for the cool call, which heat can also switch off.
CoolSide(r, t, on) ==
  IF on THEN /\ r.hvac_mode \in {"COOL", "AUTO"}
             /\ 2 * t >= 2 * r.setpoint_cool + r.deadband
        ELSE \/ r.hvac_mode \notin {"COOL", "AUTO"}
             \/ 2 * t <= 2 * r.setpoint_cool - r.deadband
             \/ r.setpoint_heat > r.setpoint_cool

SwingInv ==
  /\ watched \in {"heat", "cool"}
  /\ swing.temp # NoSwing =>
       /\ swing.recipe \in Recipe /\ swing.temp \in Int
       /\ watched = "heat" => HeatSide(swing.recipe, swing.temp, relays.heat)
       /\ watched = "cool" => CoolSide(swing.recipe, swing.temp, relays.cool)

CycleInv == LoopInv /\ DecidedTarget /\ SwingInv

\* A call changes only at a temperature beyond the edge of the band on the side
\* it changes to.
LEMMA ChangeBeyondEdge ==
  ASSUME NEW r \in Recipe, NEW t \in Int, NEW dry \in BOOLEAN,
         NEW prev \in RelayState, Sane(prev), ~Interlocked(r, dry),
         NEW next, next = Decide(r, t, dry, prev)
  PROVE  /\ next.heat # prev.heat => HeatSide(r, t, next.heat)
         /\ next.cool # prev.cool => CoolSide(r, t, next.cool)
<1> DEFINE heat == /\ r.hvac_mode \in {"HEAT", "AUTO"}
                   /\ HeatDecision(r, t, prev.heat)
           cool == /\ r.hvac_mode \in {"COOL", "AUTO"}
                   /\ CoolDecision(r, t, prev.cool)
                   /\ ~heat
<1>1. next.heat = heat /\ next.cool = cool
  BY Zenon DEF Decide
<1>2. /\ r.setpoint_heat \in Int /\ r.setpoint_cool \in Int /\ r.deadband \in Int
      /\ prev.heat \in BOOLEAN /\ prev.cool \in BOOLEAN /\ ~(prev.heat /\ prev.cool)
  BY DEF Recipe, RelayState, Sane
<1>3. heat # prev.heat => HeatSide(r, t, heat)
  <2>1. CASE heat /\ ~prev.heat
    BY <1>2, <2>1 DEF HeatDecision, HeatSide
  <2>2. CASE ~heat /\ prev.heat
    BY <1>2, <2>2 DEF HeatDecision, HeatSide
  <2>3. QED
    BY <1>2, <2>1, <2>2
<1>4. cool # prev.cool => CoolSide(r, t, cool)
  <2>1. CASE cool /\ ~prev.cool
    BY <1>2, <2>1 DEF CoolDecision, CoolSide
  <2>2. CASE ~cool /\ prev.cool
    BY <1>2, <2>2 DEF HeatDecision, CoolDecision, CoolSide
  <2>3. QED
    BY <1>2, <2>1, <2>2
<1>5. QED
  BY <1>1, <1>3, <1>4, Zenon

\* From one side of the band to the other is at least the deadband.
LEMMA SidesApart ==
  ASSUME NEW r \in Recipe, NEW t \in Int, NEW u \in Int,
         r.setpoint_heat <= r.setpoint_cool,
         NEW on \in BOOLEAN
  PROVE  /\ HeatSide(r, t, on) /\ HeatSide(r, u, ~on) => Dist(t, u) >= r.deadband
         /\ CoolSide(r, t, on) /\ CoolSide(r, u, ~on) => Dist(t, u) >= r.deadband
<1>1. r.setpoint_heat \in Int /\ r.setpoint_cool \in Int /\ r.deadband \in Int
  BY DEF Recipe
<1>2. QED
  BY <1>1 DEF HeatSide, CoolSide, Dist

\* The target stays what the command decided on until the next command.
LEMMA DecidedTargetStep ==
  ASSUME LoopInv, DecidedTarget, [Next]_vars
  PROVE  DecidedTarget'
<1>1. CASE LoopInit
  BY <1>1 DEF LoopInit, BootCommand, DecidedTarget
<1>2. CASE Tick
  <2>1. PICK r \in Recipes, in \in Inputs : Run(r, in)
    BY <1>2 DEF Tick
  <2>2. /\ cmd'.recipe = r /\ cmd'.source = SelectSource(in)
        /\ cmd'.temp = SelectTemp(in) /\ cmd'.dry = in.dry
        /\ relays' = relays /\ target' = Decision(r, in)
    BY <2>1 DEF Run
  <2>3. SelectSource(in) \in {"zigbee", "local", "none"}
    BY DEF SelectSource
  <2>4. QED
    BY <2>2, <2>3, Zenon DEF Decision, DecidedTarget
<1>3. CASE WriteHeat \/ WriteCool
  BY <1>3 DEF WriteHeat, WriteCool, DecidedTarget
<1>4. CASE WriteFan \/ WriteFails \/ Reset
  BY <1>4 DEF WriteFan, WriteFails, Reset, DecidedTarget
<1>5. CASE Blink \/ Mend \/ UNCHANGED vars
  BY <1>5 DEF Blink, Mend, vars, DecidedTarget
<1>6. QED
  BY <1>1, <1>2, <1>3, <1>4, <1>5 DEF Next, Step

\* What the last write of a run that had a temperature does to the memory.
LEMMA LatchedDecision ==
  ASSUME LoopInv, DecidedTarget, WriteFan, cmd.source \in {"zigbee", "local"}
  PROVE  /\ relays' = Decide(cmd.recipe, cmd.temp, cmd.dry, relays)
         /\ cmd.recipe \in Recipe /\ cmd.temp \in Int /\ cmd.dry \in BOOLEAN
         /\ relays \in RelayState /\ Sane(relays) /\ relays' \in RelayState
<1>1. pc = "fan" /\ relays' = target
  BY DEF WriteFan
<1>2. QED
  BY <1>1 DEF DecidedTarget, LoopInv, TypeOK, Command

\* Otherwise the memory changes only in a reset, from its boot value, or not.
LEMMA MemoryKept ==
  ASSUME LoopInv, DecidedTarget, [Next]_vars,
         ~(WriteFan /\ cmd.source \in {"zigbee", "local"})
  PROVE  relays' = relays \/ pc' = "boot"
<1>1. CASE WriteFan
  BY <1>1 DEF WriteFan, DecidedTarget
<1>2. CASE LoopInit
  BY <1>2 DEF LoopInit, LoopInv, BootedClean
<1>3. CASE Reset
  BY <1>3 DEF Reset
<1>4. CASE Tick \/ WriteHeat \/ WriteCool \/ WriteFails \/ Blink \/ Mend \/ UNCHANGED vars
  BY <1>4 DEF Tick, Run, WriteHeat, WriteCool, WriteFails, Blink, Mend, vars
<1>5. QED
  BY <1>1, <1>2, <1>3, <1>4 DEF Next, Step

\* Every step keeps the watched call on the side of the band where it was
\* decided.
LEMMA SwingInvStep ==
  ASSUME CycleInv, [Next]_vars, swing' = NextSwing, UNCHANGED watched
  PROVE  SwingInv'
<1>1. LoopInv /\ DecidedTarget /\ SwingInv
  BY DEF CycleInv
<1>2. ASSUME swing' = NoSwings PROVE SwingInv'
  BY <1>1, <1>2 DEF SwingInv, NoSwings
<1>3. ASSUME swing' = swing, relays' = relays PROVE SwingInv'
  BY <1>1, <1>3 DEF SwingInv
<1>4. CASE Latching /\ WriteFan
  <2>1. CASE Interlocked(cmd.recipe, cmd.dry)
    BY <1>2, <1>4, <2>1 DEF NextSwing
  <2>2. CASE ~Interlocked(cmd.recipe, cmd.dry) /\ Changes
    <3>1. /\ relays' = Decide(cmd.recipe, cmd.temp, cmd.dry, relays)
          /\ cmd.recipe \in Recipe /\ cmd.temp \in Int /\ cmd.dry \in BOOLEAN
          /\ relays \in RelayState /\ Sane(relays)
      BY <1>1, <1>4, LatchedDecision DEF Latching
    <3>2. /\ relays'.heat # relays.heat => HeatSide(cmd.recipe, cmd.temp, relays'.heat)
          /\ relays'.cool # relays.cool => CoolSide(cmd.recipe, cmd.temp, relays'.cool)
      BY <2>2, <3>1, ChangeBeyondEdge
    <3>3. swing' = [recipe |-> cmd.recipe, temp |-> cmd.temp]
      BY <1>4, <2>2 DEF NextSwing
    <3>4. swing'.recipe = cmd.recipe /\ swing'.temp = cmd.temp
      BY <3>3
    <3>5. CASE watched = "heat"
      <4>1. relays'.heat # relays.heat /\ watched' = "heat"
        BY <2>2, <3>5 DEF Changes
      <4>2. QED
        BY <3>1, <3>2, <3>4, <4>1, Zenon DEF SwingInv
    <3>6. CASE watched = "cool"
      <4>1. relays'.cool # relays.cool /\ watched' = "cool"
        BY <2>2, <3>6 DEF Changes
      <4>2. QED
        BY <3>1, <3>2, <3>4, <4>1, Zenon DEF SwingInv
    <3>7. QED
      BY <1>1, <3>5, <3>6 DEF SwingInv
  <2>3. CASE ~Interlocked(cmd.recipe, cmd.dry) /\ ~Changes
    <3>1. swing' = swing \/ swing' = NoSwings
      BY <1>4, <2>3 DEF NextSwing
    <3>2. ASSUME swing' = swing PROVE SwingInv'
      BY <1>1, <2>3, <3>2 DEF Changes, SwingInv
    <3>3. QED
      BY <1>2, <3>1, <3>2
  <2>4. QED
    BY <2>1, <2>2, <2>3
<1>5. CASE ~(Latching /\ WriteFan)
  <2>1. WriteFan /\ cmd.source \in {"zigbee", "local"} => Latching
    BY DEF WriteFan, Latching
  <2>2. relays' = relays \/ pc' = "boot"
    BY <1>1, <1>5, <2>1, MemoryKept
  <2>3. CASE pc' = "boot"
    BY <1>2, <2>3 DEF NextSwing, Latching
  <2>4. CASE relays' = relays
    <3>1. ~Changes
      BY <2>4 DEF Changes
    <3>2. swing' = swing \/ swing' = NoSwings
      BY <3>1 DEF NextSwing
    <3>3. QED
      BY <1>2, <1>3, <2>4, <3>2
  <2>5. QED
    BY <2>2, <2>3, <2>4
<1>6. QED
  BY <1>4, <1>5

\* Loop, target and swing belong together in every reachable state.
LEMMA CycleInvAlways == CycleSpec => []CycleInv
<1>1. CycleInit => CycleInv
  BY LoopInvInit DEF CycleInit, Init, CycleInv, DecidedTarget, SwingInv, NoSwings
<1>2. CycleInv /\ [CycleNext]_cyclevars => CycleInv'
  <2> SUFFICES ASSUME CycleInv, [CycleNext]_cyclevars PROVE CycleInv'
    OBVIOUS
  <2>1. CASE CycleNext
    <3>1. [Next]_vars /\ swing' = NextSwing /\ UNCHANGED watched
      BY <2>1 DEF CycleNext
    <3>2. QED
      BY <3>1, LoopInvStep, DecidedTargetStep, SwingInvStep DEF CycleInv
  <2>2. CASE UNCHANGED cyclevars
    <3>1. LoopInv' /\ DecidedTarget'
      BY <2>2, LoopInvStep, DecidedTargetStep DEF cyclevars, CycleInv
    <3>2. UNCHANGED <<relays, swing, watched>>
      BY <2>2 DEF cyclevars, vars
    <3>3. SwingInv'
      BY <3>2 DEF CycleInv, SwingInv
    <3>4. QED
      BY <3>1, <3>3 DEF CycleInv
  <2>3. QED
    BY <2>1, <2>2
<1>3. QED
  BY <1>1, <1>2, PTL DEF CycleSpec

\* For every recipe with ordered setpoints: two consecutive changes of a call
\* under it lie at least one deadband apart, whatever writes fail in between.
THEOREM DeadbandPreventsCycling == CycleSpec => NoShortCycle
<1> DEFINE Second == /\ Latching /\ Continues /\ Changes /\ swing.temp # NoSwing
                     /\ cmd.recipe.setpoint_heat <= cmd.recipe.setpoint_cool
<1>1. CycleInv /\ [CycleNext]_cyclevars
        => [Second => Dist(cmd.temp, swing.temp) >= cmd.recipe.deadband]_cyclevars
  <2> SUFFICES ASSUME CycleInv, CycleNext, Second
               PROVE  Dist(cmd.temp, swing.temp) >= cmd.recipe.deadband
    BY Zenon
  <2>1. LoopInv /\ DecidedTarget /\ SwingInv
    BY DEF CycleInv
  <2>2. WriteFan
    <3>1. relays' # relays /\ pc' # "boot"
      BY DEF Changes, Latching
    <3>2. QED
      BY <2>1, <3>1, MemoryKept DEF CycleNext
  <2>3. /\ relays' = Decide(cmd.recipe, cmd.temp, cmd.dry, relays)
        /\ cmd.recipe \in Recipe /\ cmd.temp \in Int /\ cmd.dry \in BOOLEAN
        /\ relays \in RelayState /\ Sane(relays) /\ relays' \in RelayState
    BY <2>1, <2>2, LatchedDecision DEF Latching
  <2>4. ~Interlocked(cmd.recipe, cmd.dry) /\ swing.recipe = cmd.recipe /\ swing.temp \in Int
    BY <2>1 DEF Continues, SwingInv
  <2>5. /\ relays'.heat # relays.heat => HeatSide(cmd.recipe, cmd.temp, relays'.heat)
        /\ relays'.cool # relays.cool => CoolSide(cmd.recipe, cmd.temp, relays'.cool)
    BY <2>3, <2>4, ChangeBeyondEdge
  <2>6. CASE watched = "heat"
    <3>1. relays'.heat = ~relays.heat /\ relays.heat \in BOOLEAN /\ relays'.heat \in BOOLEAN
      BY <2>3, <2>6 DEF Changes, RelayState
    <3>2. HeatSide(cmd.recipe, cmd.temp, relays'.heat)
      BY <2>5, <3>1
    <3>3. HeatSide(cmd.recipe, swing.temp, relays.heat)
      BY <2>1, <2>4, <2>6 DEF SwingInv
    <3>4. QED
      BY <2>3, <2>4, <3>1, <3>2, <3>3, SidesApart
  <2>7. CASE watched = "cool"
    <3>1. relays'.cool = ~relays.cool /\ relays.cool \in BOOLEAN /\ relays'.cool \in BOOLEAN
      BY <2>3, <2>7 DEF Changes, RelayState
    <3>2. CoolSide(cmd.recipe, cmd.temp, relays'.cool)
      BY <2>5, <3>1
    <3>3. CoolSide(cmd.recipe, swing.temp, relays.cool)
      BY <2>1, <2>4, <2>7 DEF SwingInv
    <3>4. QED
      BY <2>3, <2>4, <3>1, <3>2, <3>3, SidesApart
  <2>8. QED
    BY <2>1, <2>6, <2>7 DEF SwingInv
<1>2. QED
  BY <1>1, CycleInvAlways, PTL DEF CycleSpec, NoShortCycle
=============================================================================
