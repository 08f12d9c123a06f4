--------------------------- MODULE StoreReaderProofs ---------------------------
(***************************************************************************)
(* Theorems about the two tasks that live on copies of the store, for      *)
(* every field, topology, recipe, reading and number of transports, and    *)
(* for every interleaving with the tasks that write what they copy:        *)
(* Thermostat (the control tick) and BacnetServer (bacnet_task).           *)
(*                                                                         *)
(* Both are specifications of the store to start with (ThermostatUsesStore,*)
(* ServerUsesStore): what SensorStateProofs proves of the store holds in   *)
(* them, and their own types rest on its.                                  *)
(*                                                                         *)
(* The control arguments follow a tick from copy to copy.  An order to be  *)
(* off that has held since the tick began is in every copy the tick makes  *)
(* of it; whatever else the copies mix, it decides the run.  And an answer *)
(* "online" can only be a value the H2's freshness had during the question,*)
(* so the H2 was fresh at some moment of the tick.                         *)
(***************************************************************************)
EXTENDS Thermostat, BacnetServer, SensorStateProofs


RelayState == Decision!RelayState

\* What the relay loop keeps by itself: see ControlLoopProofs.
LoopShape ==
  /\ pin \in RelayState /\ relays \in RelayState /\ target \in RelayState
  /\ pc \in {"boot", "heat", "cool", "fan", "ready", "halted"}
  /\ pc \in {"cool", "fan"} => pin.heat = target.heat
  /\ pc = "fan" => pin.cool = target.cool
  /\ pc = "ready" /\ stuck = {} => pin = target

\* The tick runs only while the loop is idle, and makes its copies one by one.
TickShape ==
  /\ at \in {"scan", "recipe", "space", "h2", "local", "run"}
  /\ at # "scan" => pc = "ready"
  /\ DOMAIN got = {"recipe", "space", "local"}

\* A lasting order to be off is in every copy made so far, and in the outcome.
OrdersCopied ==
  /\ offOrders \subseteq OffOrders
  /\ at \in {"space", "h2", "local", "run"} =>
       /\ "mode" \in offOrders => got.recipe.hvac_mode = "OFF"
       /\ "contact" \in offOrders => got.recipe.lockout
  /\ at \in {"h2", "local", "run"} /\ "contact" \in offOrders => got.space.dry
  /\ at = "scan" /\ pc \in {"heat", "cool", "fan", "ready"} /\ offOrders # {}
       /\ cmd.source \in {"zigbee", "local"}
       => target = Loop!AllOff

OrdersInv == LoopShape /\ TickShape /\ OrdersCopied

\* An answer "online", or one in the making, stems from a moment of this tick.
FreshnessHeard ==
  /\ fresh \in BOOLEAN /\ witnessed \subseteq BOOLEAN
  /\ asking => at = "h2"
  /\ asking /\ TRUE \in witnessed => everFresh
  /\ at \in {"local", "run"} /\ answer => everFresh

-----------------------------------------------------------------------------

\* What each of the two orders to be off stands for.
LEMMA OffOrdersMeaning ==
  /\ OffOrders \subseteq {"mode", "contact"}
  /\ "mode" \in OffOrders <=> recipe.hvac_mode = "OFF"
  /\ "contact" \in OffOrders <=>
       spaces[ControlSpace] # NoValue /\ recipe.lockout /\ spaces[ControlSpace].dry
  BY DEF OffOrders, Decision!Interlocked

\* Mode OFF and an acting interlock open the relays at any temperature.
LEMMA OffDecision ==
  ASSUME NEW r, NEW temp, NEW dry, NEW prev
  PROVE  /\ Loop!Decide(r, temp, dry, prev) \in RelayState
         /\ r.hvac_mode = "OFF" \/ (r.lockout /\ dry)
              => Loop!Decide(r, temp, dry, prev) = Loop!AllOff
<1> DEFINE heat == /\ r.hvac_mode \in {"HEAT", "AUTO"}
                   /\ Loop!HeatDecision(r, temp, prev.heat)
           cool == /\ r.hvac_mode \in {"COOL", "AUTO"}
                   /\ Loop!CoolDecision(r, temp, prev.cool)
                   /\ ~heat
           fan  == heat \/ cool \/ r.hvac_mode = "FAN_ONLY"
           out  == [heat |-> heat, cool |-> cool, fan |-> fan]
<1>1. Loop!Decide(r, temp, dry, prev)
        = IF Loop!Interlocked(r, dry) THEN Loop!AllOff ELSE out
  BY Zenon DEF Loop!Decide
<1>2. Loop!AllOff \in RelayState
  BY DEF Loop!AllOff, RelayState, Decision!RelayState
<1>3. heat \in BOOLEAN /\ cool \in BOOLEAN /\ fan \in BOOLEAN
  OBVIOUS
<1>4. r.hvac_mode = "OFF" => heat = FALSE /\ cool = FALSE /\ fan = FALSE
  OBVIOUS
<1> HIDE DEF heat, cool, fan
<1>5. out \in RelayState
  BY <1>3 DEF RelayState, Decision!RelayState
<1>6. r.hvac_mode = "OFF" => out = Loop!AllOff
  BY <1>4 DEF Loop!AllOff
<1>7. QED
  BY <1>1, <1>2, <1>5, <1>6 DEF Loop!Interlocked

-----------------------------------------------------------------------------

\* The thermostat starts before its first tick.
LEMMA OrdersInvInit == ThermostatInit => OrdersInv /\ FreshnessHeard
<1> SUFFICES ASSUME ThermostatInit PROVE OrdersInv /\ FreshnessHeard
  OBVIOUS
<1>1. Loop!AllOff \in RelayState
  BY DEF Loop!AllOff, RelayState, Decision!RelayState
<1>2. LoopShape
  BY <1>1 DEF ThermostatInit, Loop!Init, LoopShape
<1>3. TickShape
  BY DEF ThermostatInit, NoCopies, TickShape
<1>4. OrdersCopied
  BY DEF ThermostatInit, OrdersCopied
<1>5. FreshnessHeard
  BY DEF ThermostatInit, H2!Init, FreshnessHeard
<1>6. QED
  BY <1>2, <1>3, <1>4, <1>5 DEF OrdersInv

\* Somebody else's step can only end an order, never start one in mid-tick.
LEMMA OthersKeepOrders ==
  ASSUME OrdersInv, Others
  PROVE  OrdersInv'
<1>1. UNCHANGED <<pin, relays, pc, target, cmd, stuck, tickVars>>
      /\ offOrders' = offOrders \intersect OffOrders'
  BY DEF Others, StoreCall, SetRecipe, H2Changes, Mend, Loop!Mend, loopVars, Remember
<1>2. LoopShape' /\ TickShape'
  BY <1>1 DEF OrdersInv, LoopShape, TickShape, tickVars
<1>3. offOrders' \subseteq OffOrders' /\ offOrders' \subseteq offOrders
  BY <1>1
<1>4. UNCHANGED <<at, got, pc, cmd, target>>
  BY <1>1 DEF tickVars
<1>5. OrdersCopied'
  BY <1>3, <1>4 DEF OrdersInv, OrdersCopied
<1>6. QED
  BY <1>2, <1>5 DEF OrdersInv

\* The writes bring the pins to the target, and nothing else.
LEMMA ActuateKeepsOrders ==
  ASSUME OrdersInv, Actuate
  PROVE  OrdersInv'
<1>1. /\ UNCHANGED <<storeVars, tickVars>>
      /\ offOrders' = offOrders \intersect OffOrders'
      /\ pc # "ready"
      /\ at = "scan"
  <2>1. pc # "ready"
    BY ThermostatAssumption
    DEF Actuate, Loop!LoopInit, Loop!WriteHeat, Loop!WriteCool, Loop!WriteFan,
        Loop!WriteFails, Loop!Relay
  <2>2. QED
    BY <2>1 DEF Actuate, Remember, OrdersInv, TickShape
<1>2. OffOrders' = OffOrders
  BY <1>1 DEF OffOrders, storeVars, vars
<1>3. TickShape'
  BY <1>1 DEF OrdersInv, TickShape, tickVars
<1>4. LoopShape'
  <2>1. Loop!AllOff \in RelayState
    BY DEF Loop!AllOff, RelayState, Decision!RelayState
  <2>2. CASE Loop!LoopInit
    BY <2>1, <2>2 DEF Loop!LoopInit, OrdersInv, LoopShape
  <2>3. CASE Loop!WriteHeat
    BY <2>3 DEF Loop!WriteHeat, OrdersInv, LoopShape, RelayState, Decision!RelayState
  <2>4. CASE Loop!WriteCool
    BY <2>4 DEF Loop!WriteCool, OrdersInv, LoopShape, RelayState, Decision!RelayState
  <2>5. CASE Loop!WriteFan
    BY <2>5 DEF Loop!WriteFan, OrdersInv, LoopShape, RelayState, Decision!RelayState
  <2>6. CASE Loop!WriteFails
    BY <2>6 DEF Loop!WriteFails, OrdersInv, LoopShape
  <2>7. QED
    BY <2>2, <2>3, <2>4, <2>5, <2>6 DEF Actuate
<1>5. /\ offOrders' = offOrders \intersect OffOrders
      /\ at' = "scan" /\ got' = got
      /\ \/ target' = target /\ cmd' = cmd /\ pc \in {"heat", "cool", "fan"}
         \/ cmd'.source = "init"
  <2>1. CASE Loop!LoopInit
    BY <1>1, <1>2, <2>1 DEF Loop!LoopInit, Loop!BootCommand, tickVars
  <2>2. CASE Loop!WriteHeat \/ Loop!WriteCool \/ Loop!WriteFan \/ Loop!WriteFails
    BY <1>1, <1>2, <2>2, ThermostatAssumption
    DEF Loop!WriteHeat, Loop!WriteCool, Loop!WriteFan, Loop!WriteFails, Loop!Relay, tickVars
  <2>3. QED
    BY <2>1, <2>2 DEF Actuate
<1>6. OrdersCopied'
  <2>1. offOrders' \subseteq OffOrders' /\ offOrders' \subseteq offOrders
    BY <1>1, <1>2
  <2>2. QED
    BY <1>1, <1>5, <2>1 DEF OrdersInv, OrdersCopied
<1>7. QED
  BY <1>3, <1>4, <1>6 DEF OrdersInv

\* The beginning of a tick, and its end without a decision.
LEMMA ScanKeepsOrders ==
  ASSUME OrdersInv, Scan \/ GetFails
  PROVE  OrdersInv'
<1>1. /\ UNCHANGED loopVars /\ UNCHANGED vars /\ recipe' = recipe
      /\ pc = "ready"
      /\ at' \in {"scan", "recipe"}
      /\ got' \in {got, NoCopies}
      /\ \/ offOrders' = OffOrders /\ at' = "recipe"
         \/ offOrders' = {} /\ at' = "scan"
  <2>1. CASE Scan
    BY <2>1 DEF Scan, loopVars
  <2>2. CASE GetFails
    <3>1. GiveUp /\ at # "scan"
      BY <2>2 DEF GetFails
    <3>2. QED
      BY <3>1 DEF GiveUp, storeVars, OrdersInv, TickShape
  <2>3. QED
    BY <2>1, <2>2
<1>2. OffOrders' = OffOrders
  BY <1>1 DEF OffOrders, vars
<1>3. LoopShape'
  BY <1>1 DEF OrdersInv, LoopShape, loopVars
<1>4. TickShape'
  BY <1>1 DEF OrdersInv, TickShape, loopVars, NoCopies
<1>5. OrdersCopied'
  BY <1>1, <1>2 DEF OrdersCopied
<1>6. QED
  BY <1>3, <1>4, <1>5 DEF OrdersInv

\* A copy of what holds an order holds the order.
LEMMA CopyKeepsOrders ==
  ASSUME OrdersInv, GetRecipe \/ GetSpace \/ AskH2 \/ HearH2 \/ GetLocal
  PROVE  OrdersInv'
<1>1. /\ UNCHANGED <<storeVars, loopVars>>
      /\ offOrders' = offOrders \intersect OffOrders'
      /\ at # "scan" /\ at' # "scan"
  BY DEF GetRecipe, GetSpace, AskH2, HearH2, GetLocal, Copied, Remember, tickVars
<1>2. OffOrders' = OffOrders
  BY <1>1 DEF OffOrders, storeVars, vars
<1>3. offOrders' = offOrders /\ offOrders \subseteq OffOrders
  BY <1>1, <1>2 DEF OrdersInv, OrdersCopied
<1>4. LoopShape'
  BY <1>1 DEF OrdersInv, LoopShape, loopVars
<1>5. CASE GetRecipe
  <2>1. at = "recipe" /\ at' = "space" /\ got' = [got EXCEPT !.recipe = recipe]
    BY <1>5 DEF GetRecipe, Copied
  <2>2. got'.recipe = recipe /\ DOMAIN got' = DOMAIN got
    BY <2>1 DEF OrdersInv, TickShape
  <2>3. TickShape'
    BY <1>1, <2>1, <2>2 DEF OrdersInv, TickShape, loopVars
  <2>4. OrdersCopied'
    BY <1>2, <1>3, <2>1, <2>2, OffOrdersMeaning DEF OrdersCopied
  <2>5. QED
    BY <1>4, <2>3, <2>4 DEF OrdersInv
<1>6. CASE GetSpace
  <2>1. at = "space" /\ at' = "h2" /\ got' = [got EXCEPT !.space = spaces[ControlSpace]]
    BY <1>6 DEF GetSpace, Copied
  <2>2. got'.space = spaces[ControlSpace] /\ got'.recipe = got.recipe /\ DOMAIN got' = DOMAIN got
    BY <2>1 DEF OrdersInv, TickShape
  <2>3. TickShape'
    BY <1>1, <2>1, <2>2 DEF OrdersInv, TickShape, loopVars
  <2>4. OrdersCopied'
    BY <1>2, <1>3, <2>1, <2>2, OffOrdersMeaning DEF OrdersInv, OrdersCopied
  <2>5. QED
    BY <1>4, <2>3, <2>4 DEF OrdersInv
<1>7. CASE AskH2 \/ HearH2
  <2>1. at = "h2" /\ at' \in {"h2", "local"} /\ got' = got
    BY <1>7 DEF AskH2, HearH2, tickVars
  <2>2. TickShape'
    BY <1>1, <2>1 DEF OrdersInv, TickShape, loopVars
  <2>3. OrdersCopied'
    BY <1>2, <1>3, <2>1 DEF OrdersInv, OrdersCopied
  <2>4. QED
    BY <1>4, <2>2, <2>3 DEF OrdersInv
<1>8. CASE GetLocal
  <2>1. PICK copy \in {local} \union (IF mended THEN {} ELSE {NoValue}) :
          Copied([got EXCEPT !.local = copy], "run")
    BY <1>8 DEF GetLocal
  <2>2. at = "local" /\ at' = "run" /\ got' = [got EXCEPT !.local = copy]
    BY <1>8, <2>1 DEF GetLocal, Copied
  <2>3. got'.space = got.space /\ got'.recipe = got.recipe /\ DOMAIN got' = DOMAIN got
    BY <2>2 DEF OrdersInv, TickShape
  <2>4. TickShape'
    BY <1>1, <2>2, <2>3 DEF OrdersInv, TickShape, loopVars
  <2>5. OrdersCopied'
    BY <1>2, <1>3, <2>2, <2>3 DEF OrdersInv, OrdersCopied
  <2>6. QED
    BY <1>4, <2>4, <2>5 DEF OrdersInv
<1>9. QED
  BY <1>5, <1>6, <1>7, <1>8

\* The order decides the run, unless there is no temperature at all.
LEMMA RunKeepsOrders ==
  ASSUME OrdersInv, Run
  PROVE  OrdersInv'
<1>1. /\ UNCHANGED storeVars
      /\ offOrders' = offOrders \intersect OffOrders'
      /\ at = "run" /\ at' = "scan" /\ got' = NoCopies
      /\ pc = "ready" /\ pc' = "heat"
      /\ cmd'.source = Loop!SelectSource(Gathered)
      /\ target' = Loop!Decision(got.recipe, Gathered)
      /\ UNCHANGED <<pin, relays, stuck>>
  BY DEF Run, Loop!Run, Remember
<1>2. offOrders' = offOrders
  BY <1>1 DEF OffOrders, storeVars, vars, OrdersInv, OrdersCopied
<1>3. Gathered.dry = got.space.dry
  BY DEF Gathered
<1>4. target' \in RelayState
  BY <1>1, OffDecision DEF Loop!Decision, OrdersInv, LoopShape
<1>5. LoopShape'
  BY <1>1, <1>4 DEF OrdersInv, LoopShape
<1>6. TickShape'
  BY <1>1 DEF TickShape, NoCopies
<1>7. ASSUME offOrders # {}, cmd'.source \in {"zigbee", "local"}
      PROVE  target' = Loop!AllOff
  <2>1. target' = Loop!Decide(got.recipe, Loop!SelectTemp(Gathered), Gathered.dry, relays)
    BY <1>1, <1>7 DEF Loop!Decision
  <2>2. "mode" \in offOrders \/ "contact" \in offOrders
    BY <1>7, OffOrdersMeaning DEF OrdersInv, OrdersCopied
  <2>3. got.recipe.hvac_mode = "OFF" \/ (got.recipe.lockout /\ Gathered.dry)
    BY <1>1, <1>3, <2>2 DEF OrdersInv, OrdersCopied
  <2>4. QED
    BY <2>1, <2>3, OffDecision
<1>8. offOrders' \subseteq OffOrders'
  BY <1>1
<1>9. OrdersCopied'
  BY <1>1, <1>2, <1>7, <1>8 DEF OrdersCopied
<1>10. QED
  BY <1>5, <1>6, <1>9 DEF OrdersInv

\* Every step keeps copies and orders related.
LEMMA OrdersInvStep == OrdersInv /\ [ThermostatNext]_thermostatVars => OrdersInv'
<1> SUFFICES ASSUME OrdersInv, [ThermostatNext]_thermostatVars PROVE OrdersInv'
  OBVIOUS
<1>1. CASE ThermostatNext
  BY <1>1, OthersKeepOrders, ActuateKeepsOrders, ScanKeepsOrders, CopyKeepsOrders,
     RunKeepsOrders DEF ThermostatNext, Control
<1>2. CASE UNCHANGED thermostatVars
  <2>1. /\ UNCHANGED <<pin, relays, pc, target, cmd, stuck, at, got, offOrders>>
        /\ UNCHANGED <<recipe, spaces>>
    BY <1>2 DEF thermostatVars, storeVars, vars, loopVars, tickVars, history
  <2>2. OffOrders' = OffOrders
    BY <2>1 DEF OffOrders
  <2>3. LoopShape' /\ TickShape'
    BY <2>1 DEF OrdersInv, LoopShape, TickShape
  <2>4. OrdersCopied'
    BY <2>1, <2>2 DEF OrdersInv, OrdersCopied
  <2>5. QED
    BY <2>3, <2>4 DEF OrdersInv
<1>3. QED
  BY <1>1, <1>2

\* Mode OFF, or the contact under lockout, that lasts through a tick with a
\* temperature leaves every relay open at its end, for every interleaving of
\* the tick's copies with the writers of what it copies.
THEOREM LastingOrdersObeyed == ThermostatSpec => []OffOrdersObeyed
<1>1. OrdersInv => OffOrdersObeyed
  BY DEF OrdersInv, LoopShape, OrdersCopied, OffOrdersObeyed
<1>2. ThermostatInit => OrdersInv
  BY OrdersInvInit
<1>3. QED
  BY <1>1, <1>2, OrdersInvStep, PTL DEF ThermostatSpec

-----------------------------------------------------------------------------
\* In a tick, once fresh at any moment is fresh for its history.
LEMMA RememberFresh ==
  ASSUME Remember, at' # "scan"
  PROVE  /\ everFresh => everFresh'
         /\ fresh' => everFresh'
  BY DEF Remember

\* Every step keeps an answer of the H2 tied to a moment when it was fresh.
LEMMA HeardInvStep ==
  ASSUME OrdersInv, FreshnessHeard, [ThermostatNext]_thermostatVars
  PROVE  FreshnessHeard'
<1>1. CASE Others /\ UNCHANGED h2Vars
  <2>1. UNCHANGED <<fresh, asking, witnessed, answer, at>> /\ Remember
    BY <1>1 DEF Others, StoreCall, SetRecipe, H2Changes, Mend, h2Vars, tickVars
  <2>2. QED
    BY <2>1, RememberFresh DEF FreshnessHeard
<1>2. CASE Others /\ ~UNCHANGED h2Vars
  <2>1. H2!Beat \/ H2!Fade
    BY <1>2 DEF Others, StoreCall, SetRecipe, H2Changes, Mend
  <2>2. /\ UNCHANGED <<asking, answer>> /\ fresh' \in BOOLEAN
        /\ witnessed' = IF asking THEN witnessed \union {fresh'} ELSE witnessed
    BY <2>1 DEF H2!Beat, H2!Fade, H2!Witness
  <2>3. Remember /\ at' = at
    BY <1>2 DEF Others, StoreCall, SetRecipe, H2Changes, Mend, tickVars
  <2>4. witnessed' \subseteq BOOLEAN
    BY <2>2, Zenon DEF FreshnessHeard
  <2>5. TRUE \in witnessed' => TRUE \in witnessed \/ (asking /\ fresh')
    BY <2>2
  <2>6. QED
    BY <2>2, <2>3, <2>4, <2>5, RememberFresh DEF FreshnessHeard
<1>3. CASE Actuate
  <2>1. UNCHANGED h2Vars /\ at' = at /\ Remember
    BY <1>3 DEF Actuate, tickVars
  <2>2. QED
    BY <2>1, RememberFresh DEF FreshnessHeard, h2Vars
<1>4. CASE Scan \/ GetFails
  <2>1. UNCHANGED h2Vars /\ at \notin {"h2", "local", "run"} /\ at' \in {"recipe", "scan"}
    BY <1>4 DEF Scan, GetFails, GiveUp
  <2>2. QED
    BY <2>1 DEF FreshnessHeard, h2Vars
<1>5. CASE GetRecipe \/ GetSpace \/ GetLocal
  <2>1. UNCHANGED h2Vars /\ Remember /\ at # "h2" /\ at' \in {"space", "h2", "run"}
        /\ (at' = "run" => at = "local")
    BY <1>5 DEF GetRecipe, GetSpace, GetLocal, Copied
  <2>2. UNCHANGED <<fresh, asking, witnessed, answer>> /\ ~asking
    BY <2>1 DEF FreshnessHeard, h2Vars
  <2>3. everFresh => everFresh'
    BY <2>1, RememberFresh
  <2>4. QED
    BY <2>1, <2>2, <2>3 DEF FreshnessHeard
<1>6. CASE AskH2
  <2>1. /\ at = "h2" /\ at' = "h2" /\ Remember
        /\ asking' = TRUE /\ witnessed' = {fresh} /\ fresh' = fresh
    BY <1>6 DEF AskH2, H2!Ask, tickVars
  <2>2. TRUE \in witnessed' => fresh'
    BY <2>1
  <2>3. fresh' => everFresh'
    BY <2>1, RememberFresh
  <2>4. witnessed' \subseteq BOOLEAN
    BY <2>1 DEF FreshnessHeard
  <2>5. QED
    BY <2>1, <2>2, <2>3, <2>4 DEF FreshnessHeard
<1>7. CASE HearH2
  <2>1. /\ at' = "local" /\ Remember
        /\ asking /\ asking' = FALSE /\ witnessed' = {} /\ fresh' = fresh
        /\ answer' \in witnessed \union (IF overlapped THEN {FALSE} ELSE {})
    BY <1>7 DEF HearH2, H2!Answer
  <2>2. answer' => TRUE \in witnessed
    BY <2>1 DEF FreshnessHeard
  <2>3. QED
    BY <2>1, <2>2, RememberFresh DEF FreshnessHeard
<1>8. CASE Run
  <2>1. UNCHANGED h2Vars /\ at = "run" /\ at' = "scan"
    BY <1>8 DEF Run
  <2>2. QED
    BY <2>1 DEF FreshnessHeard, h2Vars
<1>9. CASE UNCHANGED thermostatVars
  BY <1>9 DEF thermostatVars, h2Vars, tickVars, history, FreshnessHeard
<1>10. QED
  BY <1>1, <1>2, <1>3, <1>4, <1>5, <1>6, <1>7, <1>8, <1>9 DEF ThermostatNext, Control

\* A decision on a Zigbee temperature proves that the H2 was heard from, in
\* time, at some moment of the tick that made it.
THEOREM ZigbeeOnlyFromLiveH2 == ThermostatSpec => SilentH2IsIgnored
<1>1. OrdersInv /\ FreshnessHeard /\ [ThermostatNext]_thermostatVars
        => [pc = "ready" /\ pc' = "heat" /\ cmd'.source = "zigbee" => everFresh]_thermostatVars
  <2> SUFFICES ASSUME FreshnessHeard, ThermostatNext,
                      pc = "ready", pc' = "heat", cmd'.source = "zigbee"
               PROVE  everFresh
    BY Zenon
  <2>1. Run
    BY ThermostatAssumption
    DEF ThermostatNext, Control, Others, StoreCall, SetRecipe, H2Changes, Mend, Loop!Mend, Actuate,
        Loop!LoopInit, Loop!WriteHeat, Loop!WriteCool, Loop!WriteFan, Loop!WriteFails,
        Loop!Relay, Scan, GetFails, GiveUp, GetRecipe, GetSpace, GetLocal, Copied,
        AskH2, HearH2, loopVars
  <2>2. at = "run" /\ Loop!SelectSource(Gathered) = "zigbee"
    BY <2>1 DEF Run, Loop!Run
  <2>3. Gathered.zigbee_valid
    BY <2>2 DEF Loop!SelectSource
  <2>4. answer
    BY <2>3 DEF Gathered
  <2>5. QED
    BY <2>2, <2>4 DEF FreshnessHeard
<1>2. ThermostatInit => OrdersInv /\ FreshnessHeard
  BY OrdersInvInit
<1>3. OrdersInv /\ FreshnessHeard /\ [ThermostatNext]_thermostatVars => OrdersInv' /\ FreshnessHeard'
  BY OrdersInvStep, HeardInvStep
<1>4. QED
  BY <1>1, <1>2, <1>3, PTL DEF ThermostatSpec, SilentH2IsIgnored

-----------------------------------------------------------------------------
(* The control tick: types.                                                *)

\* Every step of the control task or of those around it is a call of the store's
\* interface or leaves the store alone.
THEOREM ThermostatUsesStore == ThermostatSpec => Spec
<1>1. ThermostatInit => Init
  BY DEF ThermostatInit
<1>2. [ThermostatNext]_thermostatVars => [Next]_vars
  <2> SUFFICES ASSUME [ThermostatNext]_thermostatVars PROVE [Next]_vars
    OBVIOUS
  <2>1. CASE Others
    BY <2>1 DEF Others, StoreCall, SetRecipe, H2Changes, Mend, storeVars
  <2>2. CASE Control
    BY <2>2 DEF Control, Actuate, Scan, GetFails, GiveUp, GetRecipe, GetSpace, AskH2,
      HearH2, GetLocal, Copied, Run, storeVars
  <2>3. CASE UNCHANGED thermostatVars
    BY <2>3 DEF thermostatVars, storeVars
  <2>4. QED
    BY <2>1, <2>2, <2>3 DEF ThermostatNext
<1>3. QED
  BY <1>1, <1>2, PTL DEF ThermostatSpec, Spec

\* What the tick needs for its inputs to be numbers: it never gathers without a
\* copy of the space.
TickTyped ==
  /\ recipe \in Decision!Recipe
  /\ local \in LocalTemps \union {NoValue}
  /\ got \in [recipe: Decision!Recipe, space: Aggregated \union {NoValue},
              local: LocalTemps \union {NoValue}]
  /\ at \in {"h2", "local", "run"} => got.space # NoValue
  /\ everFresh \in BOOLEAN

LoopTyped == cmd \in Loop!Command /\ stuck \subseteq Loop!Relay /\ mended \in BOOLEAN

\* The loop and the decision speak of the same recipes.
LEMMA SameRecipes == Loop!Recipe = Decision!Recipe
  BY DEF Loop!Recipe, Decision!Recipe, Loop!Modes, Decision!Modes

\* The recipe before the first one is a recipe.
LEMMA ZeroRecipeTyped == Decision!ZeroRecipe \in Decision!Recipe
  BY DEF Decision!ZeroRecipe, Decision!Recipe, Decision!Modes

\* The command before the first one is a command.
LEMMA BootCommandTyped == Loop!BootCommand \in Loop!Command
  BY DEF Loop!BootCommand, Loop!Command, Loop!ZeroRecipe, Loop!Recipe, Loop!Modes,
    Loop!Sources

\* A tick starts with well-typed copies.
LEMMA NoCopiesTyped ==
  NoCopies \in [recipe: Decision!Recipe, space: Aggregated \union {NoValue},
                local: LocalTemps \union {NoValue}]
  BY ZeroRecipeTyped DEF NoCopies

\* What the tick gathers is a control_inputs_t, and its copy of the recipe a
\* recipe: the relay loop is run on proper arguments only.
LEMMA GatheredTyped ==
  ASSUME TickTyped, at = "run", answer \in BOOLEAN
  PROVE  Gathered \in Decision!ControlInputs /\ got.recipe \in Decision!Recipe
<1>1. got.space \in Aggregated /\ got.local \in LocalTemps \union {NoValue}
      /\ got.recipe \in Decision!Recipe
  BY DEF TickTyped
<1>2. got.space.avg["TEMPERATURE"] \in Int /\ got.space.dry \in BOOLEAN
  BY <1>1 DEF Aggregated, Averaged
<1>3. (IF got.local = NoValue THEN 0 ELSE got.local) \in Int
  <2>1. LocalTemps \subseteq Int
    BY ThermostatAssumption
  <2>2. got.local = NoValue \/ got.local \in Int
    BY <1>1, <2>1
  <2>3. QED
    BY <2>2
<1>4. (answer /\ got.space.onlineCount > 0) \in BOOLEAN /\ (got.local # NoValue) \in BOOLEAN
  OBVIOUS
<1>5. QED
  BY <1>1, <1>2, <1>3, <1>4 DEF Gathered, Decision!ControlInputs

\* What the loop remembers of its run is a command.
LEMMA CommandTyped ==
  ASSUME TickTyped, at = "run", answer \in BOOLEAN
  PROVE  [recipe |-> got.recipe, source |-> Loop!SelectSource(Gathered),
          temp |-> Loop!SelectTemp(Gathered), dry |-> Gathered.dry] \in Loop!Command
<1>1. got.recipe \in Loop!Recipe
  BY GatheredTyped, SameRecipes
<1>2. Gathered.zigbee_temp \in Int /\ Gathered.local_temp \in Int
      /\ Gathered.dry \in BOOLEAN
  BY GatheredTyped DEF Decision!ControlInputs
<1>3. Loop!SelectSource(Gathered) \in Loop!Sources
  BY DEF Loop!SelectSource, Loop!Sources
<1>4. Loop!SelectTemp(Gathered) \in Int
  BY <1>2 DEF Loop!SelectTemp
<1>5. QED
  BY <1>1, <1>2, <1>3, <1>4 DEF Loop!Command

\* Every step keeps the presence of the H2 typed.
LEMMA H2TypedStep ==
  ASSUME H2!TypeOK, [ThermostatNext]_thermostatVars
  PROVE  H2!TypeOK'
<1>1. CASE UNCHANGED h2Vars
  BY <1>1 DEF h2Vars, H2!TypeOK
<1>2. CASE H2!Beat \/ H2!Fade
  <2>1. fresh' \in BOOLEAN /\ UNCHANGED <<asking, answer>>
        /\ witnessed' = IF asking THEN witnessed \union {fresh'} ELSE witnessed
    BY <1>2 DEF H2!Beat, H2!Fade, H2!Witness
  <2>2. witnessed' \subseteq BOOLEAN
    BY <2>1, Zenon DEF H2!TypeOK
  <2>3. overlapped' \in BOOLEAN
    BY <1>2 DEF H2!Beat, H2!Fade, H2!TypeOK
  <2>4. QED
    BY <2>1, <2>2, <2>3 DEF H2!TypeOK
<1>3. CASE H2!Ask
  BY <1>3 DEF H2!Ask, H2!TypeOK
<1>4. CASE H2!Answer
  <2>1. answer' \in BOOLEAN
    BY <1>4 DEF H2!Answer, H2!TypeOK
  <2>2. QED
    BY <1>4, <2>1 DEF H2!Answer, H2!TypeOK
<1>5. UNCHANGED h2Vars \/ H2!Beat \/ H2!Fade \/ H2!Ask \/ H2!Answer
  BY DEF ThermostatNext, Others, StoreCall, SetRecipe, H2Changes, Mend, Control, Actuate,
    Scan, GetFails, GiveUp, GetRecipe, GetSpace, AskH2, HearH2, GetLocal, Copied, Run,
    thermostatVars
<1>6. QED
  BY <1>1, <1>2, <1>3, <1>4, <1>5

\* Every step keeps the relay loop typed.
LEMMA LoopTypedStep ==
  ASSUME TickTyped, H2!TypeOK, LoopTyped, [ThermostatNext]_thermostatVars
  PROVE  LoopTyped'
<1>1. CASE UNCHANGED loopVars
  BY <1>1 DEF loopVars, LoopTyped
<1>2. CASE Loop!Mend
  BY <1>2 DEF Loop!Mend, LoopTyped
<1>3. CASE Loop!LoopInit
  BY <1>3, BootCommandTyped DEF Loop!LoopInit, LoopTyped
<1>4. CASE Loop!WriteHeat \/ Loop!WriteCool \/ Loop!WriteFan
  BY <1>4 DEF Loop!WriteHeat, Loop!WriteCool, Loop!WriteFan, LoopTyped
<1>5. CASE Loop!WriteFails
  BY <1>5, ThermostatAssumption DEF Loop!WriteFails, LoopTyped
<1>6. CASE Run
  <2>1. cmd' \in Loop!Command
    BY <1>6, CommandTyped DEF Run, Loop!Run, H2!TypeOK
  <2>2. QED
    BY <1>6, <2>1 DEF Run, Loop!Run, LoopTyped
<1>7. QED
  BY <1>1, <1>2, <1>3, <1>4, <1>5, <1>6
  DEF ThermostatNext, Others, StoreCall, SetRecipe, H2Changes, Mend, Control, Actuate,
    Scan, GetFails, GiveUp, GetRecipe, GetSpace, AskH2, HearH2, GetLocal, Copied, thermostatVars

\* Every step keeps the copies of the tick typed.
LEMMA TickTypedStep ==
  ASSUME SpacesTyped, TickShape, TickTyped, H2!TypeOK, H2!TypeOK',
         [ThermostatNext]_thermostatVars
  PROVE  TickTyped'
<1> DEFINE Copies == [recipe: Decision!Recipe, space: Aggregated \union {NoValue},
                      local: LocalTemps \union {NoValue}]
<1>1. everFresh' \in BOOLEAN
  BY DEF ThermostatNext, Others, Control, Actuate, Scan, GetFails, GiveUp, GetRecipe, GetSpace,
    AskH2, HearH2, GetLocal, Copied, Run, Remember, thermostatVars, history, TickTyped, H2!TypeOK
<1>2. recipe' \in Decision!Recipe /\ local' \in LocalTemps \union {NoValue}
  BY ThermostatAssumption
  DEF ThermostatNext, Others, StoreCall, SetRecipe, H2Changes, Mend, Control, Actuate, Scan,
    GetFails, GiveUp, GetRecipe, GetSpace, AskH2, HearH2, GetLocal, Copied, Run,
    thermostatVars, storeVars, TickTyped
<1>3. got' \in Copies /\ (at' \in {"h2", "local", "run"} => got'.space # NoValue)
  <2>1. CASE UNCHANGED tickVars
    BY <2>1 DEF tickVars, TickTyped
  <2>2. CASE Scan
    BY <2>2 DEF Scan, TickTyped
  <2>3. CASE GiveUp \/ Run
    BY <2>3, NoCopiesTyped DEF GiveUp, Run
  <2>4. CASE GetRecipe
    BY <2>4 DEF GetRecipe, Copied, TickTyped
  <2>5. CASE GetSpace
    <3>1. spaces[ControlSpace] \in Aggregated
      BY <2>5, ThermostatAssumption DEF GetSpace, SpacesTyped
    <3>2. got' = [got EXCEPT !.space = spaces[ControlSpace]] /\ spaces[ControlSpace] # NoValue
      BY <2>5 DEF GetSpace, Copied
    <3>3. QED
      BY <3>1, <3>2 DEF TickTyped
  <2>6. CASE HearH2
    BY <2>6 DEF HearH2, TickTyped
  <2>7. CASE GetLocal
    <3>1. PICK copy \in {local} \union (IF mended THEN {} ELSE {NoValue}) :
            Copied([got EXCEPT !.local = copy], "run")
      BY <2>7 DEF GetLocal
    <3>2. copy \in LocalTemps \union {NoValue} /\ at = "local"
      BY <2>7 DEF GetLocal, TickTyped
    <3>3. QED
      BY <3>1, <3>2 DEF Copied, TickTyped
  <2>8. QED
    BY <2>1, <2>2, <2>3, <2>4, <2>5, <2>6, <2>7
    DEF ThermostatNext, Others, StoreCall, SetRecipe, H2Changes, Mend, Control, Actuate,
      GetFails, AskH2, thermostatVars
<1>4. QED
  BY <1>1, <1>2, <1>3 DEF TickTyped

\* What store, H2, relay loop and tick rely on, of each other too.
TypedInv == TypeOK /\ OrdersInv /\ H2!TypeOK /\ LoopTyped /\ TickTyped

\* They keep it together.
LEMMA TypedInvAlways == ThermostatSpec => []TypedInv
<1>1. ThermostatInit => OrdersInv /\ H2!TypeOK /\ LoopTyped /\ TickTyped
  <2> SUFFICES ASSUME ThermostatInit PROVE H2!TypeOK /\ LoopTyped /\ TickTyped
    BY OrdersInvInit
  <2>1. H2!TypeOK
    BY DEF ThermostatInit, H2!Init, H2!TypeOK
  <2>2. LoopTyped
    BY BootCommandTyped DEF ThermostatInit, Loop!Init, LoopTyped
  <2>3. TickTyped
    BY NoCopiesTyped, ZeroRecipeTyped DEF ThermostatInit, TickTyped
  <2>4. QED
    BY <2>1, <2>2, <2>3
<1>2. /\ TypeOK /\ OrdersInv /\ H2!TypeOK /\ LoopTyped /\ TickTyped
      /\ [ThermostatNext]_thermostatVars
      => OrdersInv' /\ H2!TypeOK' /\ LoopTyped' /\ TickTyped'
  BY OrdersInvStep, H2TypedStep, LoopTypedStep, TickTypedStep
  DEF TypeOK, SpacesTyped, OrdersInv
<1>3. QED
  BY <1>1, <1>2, ThermostatUsesStore, StoreTypeCorrect, PTL DEF ThermostatSpec, TypedInv

\* Store, H2, relay loop and tick keep their types together: the loop only ever
\* runs on numbers.
THEOREM ThermostatTypeCorrect == ThermostatSpec => []ThermostatTypeOK
<1>1. TypedInv => ThermostatTypeOK
  <2> SUFFICES ASSUME TypeOK, OrdersInv, H2!TypeOK, LoopTyped, TickTyped
               PROVE  ThermostatTypeOK
    BY DEF TypedInv
  <2>1. Loop!TypeOK
    BY DEF Loop!TypeOK, OrdersInv, LoopShape, LoopTyped, RelayState, Loop!RelayState,
      Decision!RelayState
  <2>2. offOrders \subseteq {"mode", "contact"}
    BY OffOrdersMeaning DEF OrdersInv, OrdersCopied
  <2>3. QED
    BY <2>1, <2>2 DEF ThermostatTypeOK, OrdersInv, TickShape, TickTyped
<1>2. QED
  BY <1>1, TypedInvAlways, PTL

\* The tick asks whether the H2 is online as H2Presence says: its questions, and
\* the answers they get, are those of the abstract specification.
THEOREM ThermostatAsksH2 == ThermostatSpec => H2!Spec
<1>1. ThermostatInit => H2!Init
  BY DEF ThermostatInit
<1>2. [ThermostatNext]_thermostatVars => [H2!Next]_(H2!vars)
  <2>1. Others => H2!Next \/ UNCHANGED h2Vars
    BY DEF Others, StoreCall, SetRecipe, H2Changes, Mend, H2!Next
  <2>2. Control => H2!Next \/ UNCHANGED h2Vars
    BY DEF Control, Actuate, Scan, GetFails, GiveUp, GetRecipe, GetSpace, AskH2,
      HearH2, GetLocal, Copied, Run, H2!Next
  <2>3. UNCHANGED thermostatVars => UNCHANGED h2Vars
    BY DEF thermostatVars
  <2>4. QED
    BY <2>1, <2>2, <2>3 DEF ThermostatNext, h2Vars, H2!vars
<1>3. QED
  BY <1>1, <1>2, PTL DEF ThermostatSpec, H2!Spec

\* Every step of the thermostat is one of the relay loop or leaves it alone.
LEMMA LoopStep ==
  ASSUME TickTyped, H2!TypeOK, [ThermostatNext]_thermostatVars
  PROVE  [Loop!Next]_(Loop!vars)
<1>1. Others => Loop!Next \/ UNCHANGED loopVars
  BY DEF Others, StoreCall, SetRecipe, H2Changes, Mend, Loop!Next
<1>2. Actuate => Loop!Next
  BY DEF Actuate, Loop!Next, Loop!Step
<1>3. Run => Loop!Next
  <2>1. SUFFICES ASSUME Run PROVE Loop!Tick
    BY DEF Loop!Next, Loop!Step
  <2>2. at = "run" /\ Loop!Run(got.recipe, Gathered)
    BY <2>1 DEF Run
  <2>3. Gathered \in Decision!ControlInputs /\ got.recipe \in Decision!Recipe
    BY <2>2, GatheredTyped DEF H2!TypeOK
  <2>4. QED
    BY <2>2, <2>3, Zenon DEF Loop!Tick
<1>4. Scan \/ GetFails \/ GetRecipe \/ GetSpace \/ AskH2 \/ HearH2 \/ GetLocal
        => UNCHANGED loopVars
  BY DEF Scan, GetFails, GiveUp, GetRecipe, GetSpace, AskH2, HearH2, GetLocal, Copied
<1>5. UNCHANGED thermostatVars => UNCHANGED loopVars
  BY DEF thermostatVars
<1>6. QED
  BY <1>1, <1>2, <1>3, <1>4, <1>5 DEF ThermostatNext, Control, loopVars, Loop!vars

\* The control task runs the relay loop as ControlLoop says, on any mixture of
\* copies: what ControlLoopProofs proves of the loop holds in the thermostat.
THEOREM ThermostatRunsLoop == ThermostatSpec => Loop!Spec
<1>1. ThermostatInit => Loop!Init
  BY DEF ThermostatInit
<1>2. TypedInv /\ [ThermostatNext]_thermostatVars => [Loop!Next]_(Loop!vars)
  BY LoopStep DEF TypedInv
<1>3. QED
  BY <1>1, <1>2, TypedInvAlways, PTL DEF ThermostatSpec, Loop!Spec

-----------------------------------------------------------------------------
(* bacnet_task.                                                            *)

\* Nothing but a refresh touches what is shown.
LEMMA OthersShowNothing ==
  ASSUME [ServerNext]_serverVars
  PROVE  UNCHANGED shown \/ \E i \in Rows : Refresh(i)
<1>1. CASE AddTransport \/ Start \/ StoreChanges \/ IncrementDeadlineMiss \/ CalmDown
  BY <1>1 DEF AddTransport, Start, StoreChanges, IncrementDeadlineMiss, CalmDown, taskVars
<1>2. CASE \E i \in 1..MaxTransports : PduArrives(i)
  BY <1>2 DEF PduArrives, taskVars
<1>3. CASE Task
  BY <1>3 DEF Task, Receive, NothingReceived
<1>4. CASE UNCHANGED serverVars
  BY <1>4 DEF serverVars, taskVars
<1> QED
  BY <1>1, <1>2, <1>3, <1>4 DEF ServerNext

\* Whatever bacnet_task does, the store sees calls of its interface only.
THEOREM ServerUsesStore == ServerSpec => Spec
<1>1. ServerInit => Init
  BY DEF ServerInit
<1>2. [ServerNext]_serverVars => [Next]_vars
  <2> SUFFICES ASSUME [ServerNext]_serverVars PROVE [Next]_vars
    OBVIOUS
  <2>1. CASE StoreChanges
    BY <2>1 DEF StoreChanges
  <2>2. CASE AddTransport \/ Start \/ IncrementDeadlineMiss \/ CalmDown
    BY <2>2 DEF AddTransport, Start, IncrementDeadlineMiss, CalmDown, published
  <2>3. CASE \E i \in 1..MaxTransports : PduArrives(i)
    BY <2>3 DEF PduArrives, published
  <2>4. CASE Task
    BY <2>4 DEF Task, Receive, NothingReceived, Refresh, published
  <2>5. CASE UNCHANGED serverVars
    BY <2>5 DEF serverVars, published
  <2>6. QED
    BY <2>1, <2>2, <2>3, <2>4, <2>5 DEF ServerNext
<1>3. QED
  BY <1>1, <1>2, PTL DEF ServerSpec, Spec

CountersTyped ==
  /\ misses \in 0..MaxMisses /\ nvsWrites \in NvsCounts
  /\ links \in 0..MaxTransports /\ pending \subseteq 1..links
  /\ started \in BOOLEAN /\ calm \in BOOLEAN

Turns == [step: {"poll"}, n: 1..(MaxTransports + 1)] \union [step: {"refresh"}, n: Rows]

TurnTyped == turn \in Turns

ShownTyped == shown \in [Rows -> Int]

\* BACNET_OBJECT_MAP has eight rows.
LEMMA RowsAre == Rows = 1..8 /\ Len(ObjectMap) = 8
  BY DEF Rows, ObjectMap

\* The registry never outgrows its array, and only registered links have a PDU.
LEMMA CountersTypedStep ==
  ASSUME CountersTyped, [ServerNext]_serverVars
  PROVE  CountersTyped'
<1> USE BacnetAssumption
<1>1. CASE AddTransport
  <2>1. links' = links + 1 /\ links' \in 0..MaxTransports
        /\ UNCHANGED <<published, started, pending, calm>>
    BY <1>1 DEF AddTransport, CountersTyped
  <2>2. 1..links \subseteq 1..links'
    BY <2>1 DEF CountersTyped
  <2>3. QED
    BY <2>1, <2>2 DEF published, CountersTyped
<1>2. CASE Start \/ StoreChanges \/ CalmDown
  BY <1>2 DEF Start, StoreChanges, CalmDown, published, CountersTyped
<1>3. CASE IncrementDeadlineMiss
  BY <1>3 DEF IncrementDeadlineMiss, CountersTyped
<1>4. ASSUME NEW i \in 1..MaxTransports, PduArrives(i) PROVE CountersTyped'
  BY <1>4 DEF PduArrives, published, CountersTyped
<1>5. CASE Task
  BY <1>5 DEF Task, Receive, NothingReceived, Refresh, published, CountersTyped
<1>6. CASE UNCHANGED serverVars
  BY <1>6 DEF serverVars, published, CountersTyped
<1>7. QED
  BY <1>1, <1>2, <1>3, <1>4, <1>5, <1>6 DEF ServerNext

\* bacnet_task polls registered links and refreshes rows of the map only.
LEMMA TurnTypedStep ==
  ASSUME CountersTyped, TurnTyped, [ServerNext]_serverVars
  PROVE  TurnTyped'
<1>1. CASE UNCHANGED turn
  BY <1>1 DEF TurnTyped
<1>2. [step |-> "refresh", n |-> 1] \in Turns /\ [step |-> "poll", n |-> 1] \in Turns
  BY RowsAre, BacnetAssumption DEF Turns
<1>3. ASSUME NEW i \in 1..MaxTransports, Receive(i) \/ NothingReceived(i) PROVE TurnTyped'
  <2>1. i < links => [step |-> "poll", n |-> i + 1] \in Turns
    BY BacnetAssumption DEF Turns, CountersTyped
  <2>2. QED
    BY <1>2, <1>3, <2>1 DEF Receive, NothingReceived, TurnTyped
<1>4. ASSUME NEW i \in Rows, Refresh(i) PROVE TurnTyped'
  <2>1. i < Len(ObjectMap) => [step |-> "refresh", n |-> i + 1] \in Turns
    BY RowsAre DEF Turns
  <2>2. QED
    BY <1>2, <1>4, <2>1 DEF Refresh, Advance, TurnTyped
<1>5. QED
  BY <1>1, <1>3, <1>4
  DEF ServerNext, AddTransport, Start, StoreChanges, IncrementDeadlineMiss, CalmDown, PduArrives,
    Task, taskVars, serverVars

\* A row that resolves resolves to a number.
LEMMA PresentValueTyped ==
  ASSUME TypeOK, CountersTyped, NEW i \in Rows, PresentValue(ObjectMap[i]) # NoValue
  PROVE  PresentValue(ObjectMap[i]) \in Int
<1> DEFINE row == ObjectMap[i]
<1>1. row.category \in Averaged \union {"DRY_CONTACT", "UNKNOWN"}
  BY RowsAre DEF ObjectMap, Row, Averaged
<1>2. misses \in Int /\ batteryMin \in Int /\ nvsWrites \in Int
  BY BacnetAssumption DEF CountersTyped, TypeOK
<1>3. StoreValue(row.instance) \in Int \union {NoValue}
  BY <1>2 DEF StoreValue
<1>4. SpaceValue(row.category) \in Int \union {NoValue}
  <2>1. CASE row.category = "UNKNOWN" \/ spaces[Zone] = NoValue
    BY <2>1 DEF SpaceValue
  <2>2. CASE row.category # "UNKNOWN" /\ spaces[Zone] # NoValue
    <3>1. spaces[Zone] \in Aggregated
      BY <2>2, BacnetAssumption DEF TypeOK
    <3>2. \A c \in Averaged : spaces[Zone].avg[c] \in Int
      BY <3>1 DEF Aggregated
    <3>3. (IF spaces[Zone].dry THEN 1 ELSE 0) \in Int
      OBVIOUS
    <3>4. QED
      BY <1>1, <2>2, <3>2, <3>3 DEF SpaceValue
  <2>3. QED
    BY <2>1, <2>2
<1>5. QED
  BY <1>3, <1>4 DEF PresentValue

\* Every step keeps the published values typed.
LEMMA ShownTypedStep ==
  ASSUME TypeOK, CountersTyped, ShownTyped, [ServerNext]_serverVars
  PROVE  ShownTyped'
<1>1. CASE UNCHANGED shown
  BY <1>1 DEF ShownTyped
<1>2. ASSUME NEW i \in Rows, Refresh(i) PROVE ShownTyped'
  BY <1>2, PresentValueTyped DEF Refresh, ShownTyped
<1>3. QED
  BY <1>1, <1>2, OthersShowNothing

\* The published image keeps its types over any store: bacnet_task stays within
\* the registry and the object map, and every present value is a number.
THEOREM ServerTypeCorrect == ServerSpec => []ServerTypeOK
<1>1. ServerInit => CountersTyped /\ TurnTyped /\ ShownTyped
  <2> SUFFICES ASSUME ServerInit PROVE CountersTyped /\ TurnTyped /\ ShownTyped
    OBVIOUS
  <2>1. CountersTyped
    <3>1. misses = 0 /\ nvsWrites \in NvsCounts /\ links = 0 /\ pending = {}
          /\ started = FALSE /\ calm = FALSE
      BY DEF ServerInit
    <3>2. 0 \in 0..MaxMisses /\ 0 \in 0..MaxTransports
      BY BacnetAssumption
    <3>3. QED
      BY <3>1, <3>2 DEF CountersTyped
  <2>2. TurnTyped
    BY BacnetAssumption DEF ServerInit, TurnTyped, Turns
  <2>3. ShownTyped
    BY DEF ServerInit, ShownTyped
  <2>4. QED
    BY <2>1, <2>2, <2>3
<1>2. TypeOK /\ CountersTyped /\ TurnTyped /\ ShownTyped /\ [ServerNext]_serverVars
        => CountersTyped' /\ TurnTyped' /\ ShownTyped'
  BY CountersTypedStep, TurnTypedStep, ShownTypedStep
<1>3. TypeOK /\ CountersTyped /\ TurnTyped /\ ShownTyped => ServerTypeOK
  BY DEF ServerTypeOK, CountersTyped, TurnTyped, Turns, ShownTyped
<1>4. QED
  BY <1>1, <1>2, <1>3, ServerUsesStore, StoreTypeCorrect, PTL DEF ServerSpec
=============================================================================
