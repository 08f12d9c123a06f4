-------------------------- MODULE ControlTaskProofs --------------------------
(***************************************************************************)
(* Theorems about ControlTask, for any timeout, number of channels and     *)
(* bounds: the control task runs on a complete set-up only, and no relay   *)
(* stays closed for two timeouts behind a control task that does not run,  *)
(* although other tasks feed the same watchdog.                            *)
(***************************************************************************)
EXTENDS ControlTask, TLAPS

\* The initialisations that succeeded are those before the next one, and the task
\* exists from its own on.
BootInv ==
  /\ stage \in 1..13
  /\ ready = {Stages[i] : i \in 1..(stage - 1)}
  /\ step # "none" => stage > 9

\* Who runs is subscribed, and only a tick closes relays.  A subscriber that has
\* reset since the shared timer was restarted has been silent for no longer than
\* the timer runs; another one for up to a timeout more, because it had reset
\* before that restart.
WatchInv ==
  /\ closed \in BOOLEAN /\ gap \in Nat /\ fed \in Nat
  /\ fed <= Timeout /\ checked \subseteq subscribed
  /\ step \notin {"none", "created"} => "control" \in subscribed
  /\ step \in {"none", "created"} => ~closed
  /\ "control" \in checked => gap <= fed
  /\ "control" \in subscribed => gap <= Timeout + fed

\* There are twelve stages; the fourth sets up the watchdog, and only the ninth
\* makes the control task.
LEMMA StagesLength ==
  /\ Len(Stages) = 12
  /\ \A i \in 1..12 : Stages[i] = "control_task_start" => i = 9
  /\ \A i \in 1..12 : Stages[i] = "hal_wdt_init" => i = 4
<1>1. Len(Stages) = 12
  BY DEF Stages
<1>2. ASSUME NEW i \in 1..12
      PROVE  /\ Stages[i] = "control_task_start" => i = 9
             /\ Stages[i] = "hal_wdt_init" => i = 4
  <2>1. \/ i = 1 \/ i = 2 \/ i = 3 \/ i = 4 \/ i = 5 \/ i = 6
        \/ i = 7 \/ i = 8 \/ i = 9 \/ i = 10 \/ i = 11 \/ i = 12
    BY <1>2
  <2> QED
    BY <1>2, <2>1 DEF Stages
<1> QED
  BY <1>1, <1>2

\* A call of app_main keeps the order of the set-up.
LEMMA BootStep ==
  ASSUME BootInv, Boot
  PROVE  BootInv'
<1>0. Len(Stages) = 12
  BY StagesLength
<1>1. CASE InitFails(Stages[stage])
  BY <1>1 DEF BootInv, InitFails, taskVars, ioVars
<1>2. CASE /\ InitSucceeds(Stages[stage])
           /\ step' = step \/ (step' = "created" /\ Stages[stage] = "control_task_start")
  <2>1. stage \in 1..12
    BY <1>0 DEF Boot, BootInv
  <2>2. stage' = stage + 1 /\ ready' = ready \union {Stages[stage]}
    BY <1>2 DEF InitSucceeds
  <2>3. ready' = {Stages[i] : i \in 1..(stage' - 1)}
    BY <2>1, <2>2 DEF BootInv
  <2>4. step' # "none" => stage' > 9
    BY <1>2, <2>1, <2>2, StagesLength DEF BootInv
  <2> QED
    BY <2>1, <2>2, <2>3, <2>4 DEF BootInv
<1> QED
  BY <1>1, <1>2 DEF Boot, taskVars, dogVars

\* What is not app_main and not a reset leaves the set-up alone and starts no task.
LEMMA OtherStepBoot ==
  ASSUME BootInv, UNCHANGED bootVars, step = "none" => step' = "none"
  PROVE  BootInv'
BY DEF BootInv, bootVars

\* A reset begins anew, whoever causes it.
LEMMA ResetBoot ==
  ASSUME StartAnew
  PROVE  BootInv' /\ WatchInv'
<1>1. stage' = 1 /\ ready' = {} /\ step' = "none"
  BY DEF StartAnew
<1>2. 1..(stage' - 1) = {}
  BY <1>1
<1>3. BootInv'
  BY <1>1, <1>2 DEF BootInv
<1>4. WatchInv'
  <2>1. /\ closed' = FALSE /\ gap' = 0 /\ fed' = 0 /\ step' = "none"
        /\ checked' = {} /\ subscribed' = {}
    BY DEF StartAnew, Dog!Clear
  <2>2. Timeout \in Nat
    BY ControlTaskAssumption
  <2>3. /\ gap' \in Nat /\ fed' \in Nat /\ fed' <= Timeout
        /\ gap' <= fed' /\ gap' <= Timeout + fed'
    BY <2>1, <2>2
  <2>4. closed' \in BOOLEAN /\ ~closed' /\ checked' \subseteq subscribed'
    BY <2>1
  <2> QED
    BY <2>1, <2>3, <2>4 DEF WatchInv
<1> QED
  BY <1>3, <1>4

\* Every step keeps the order of the initialisations.
LEMMA BootInvStep ==
  ASSUME BootInv, [Next]_vars
  PROVE  BootInv'
<1>1. CASE Boot
  BY <1>1, BootStep
<1>2. CASE WatchdogFires \/ Reset
  BY <1>2, ResetBoot DEF WatchdogFires, Reset
<1>3. CASE Task
  BY <1>3, OtherStepBoot
  DEF Task, Enter, BeginCycle, ScanStep, Decide, DelayUntil, Wake
<1>4. CASE \/ Environment \/ BacnetTaskEnters \/ OtherTaskChecks
           \/ PeriodPasses \/ Blink \/ UNCHANGED vars
  BY <1>4, OtherStepBoot
  DEF Environment, BacnetTaskEnters, OtherTaskChecks, PeriodPasses, Blink, vars, taskVars
<1> QED
  BY <1>1, <1>2, <1>3, <1>4 DEF Next

\* A reset of the watchdog by another task: the timer restarts only when the
\* control task, if it is subscribed, has reset as well.
LEMMA CheckKeepsWatch ==
  ASSUME WatchInv, NEW task, task # "control", Dog!Check(task),
         UNCHANGED <<step, gap, closed>>
  PROVE  WatchInv'
<1> USE ControlTaskAssumption DEF WatchInv
<1>1. CASE task \notin subscribed
  BY <1>1 DEF Dog!Check
<1>2. CASE task \in subscribed /\ subscribed \subseteq checked \union {task}
  <2>1. checked' = {} /\ fed' = 0 /\ subscribed' = subscribed
    BY <1>2 DEF Dog!Check
  <2>2. "control" \in subscribed => gap <= Timeout
    BY <1>2
  <2> QED
    BY <2>1, <2>2
<1>3. CASE task \in subscribed /\ ~(subscribed \subseteq checked \union {task})
  BY <1>3 DEF Dog!Check
<1> QED
  BY <1>1, <1>2, <1>3

\* Every step keeps a running task subscribed and the two bounds on its silence.
LEMMA WatchInvStep ==
  ASSUME BootInv, WatchInv, [Next]_vars
  PROVE  WatchInv'
<1> USE ControlTaskAssumption
<1>1. CASE Boot
  <2>1. CASE UNCHANGED <<dogVars, taskVars, closed>>
    BY <2>1 DEF WatchInv, taskVars, dogVars
  <2>2. CASE /\ Stages[stage] = "hal_wdt_init" /\ Dog!Start
             /\ UNCHANGED <<taskVars, closed>>
    <3>1. stage = 4
      BY <1>1, <2>2, StagesLength DEF Boot, BootInv
    <3>2. step = "none"
      BY <3>1 DEF BootInv
    <3> QED
      BY <2>2, <3>2 DEF WatchInv, taskVars, Dog!Start
  <2>3. CASE /\ Stages[stage] = "control_task_start" /\ step' = "created"
             /\ UNCHANGED <<dogVars, gap, closed>>
    <3>1. stage = 9
      BY <1>1, <2>3, StagesLength DEF Boot, BootInv
    <3>2. ~closed
      BY <3>1 DEF BootInv, WatchInv
    <3> QED
      BY <2>3, <3>2 DEF WatchInv, dogVars
  <2> QED
    BY <1>1, <2>1, <2>2, <2>3 DEF Boot, InitFails
<1>2. CASE WatchdogFires \/ Reset
  BY <1>2, ResetBoot DEF WatchdogFires, Reset
<1>3. CASE Enter
  BY <1>3 DEF Enter, WatchInv, Dog!Subscribe
<1>4. CASE BeginCycle
  <2>1. Dog!Check("control") /\ gap' = 0 /\ step = "top" /\ step' = "scan" /\ closed' = closed
    BY <1>4 DEF BeginCycle
  <2>2. CASE "control" \notin subscribed
    BY <2>1, <2>2 DEF WatchInv
  <2>3. CASE "control" \in subscribed /\ subscribed \subseteq checked \union {"control"}
    BY <2>1, <2>3 DEF WatchInv, Dog!Check
  <2>4. CASE "control" \in subscribed /\ ~(subscribed \subseteq checked \union {"control"})
    BY <2>1, <2>4 DEF WatchInv, Dog!Check
  <2> QED
    BY <2>2, <2>3, <2>4
<1>5. CASE ScanStep \/ Decide \/ DelayUntil \/ Wake
  BY <1>5 DEF ScanStep, Decide, DelayUntil, Wake, WatchInv, dogVars
<1>6. CASE BacnetTaskEnters
  BY <1>6 DEF BacnetTaskEnters, taskVars, WatchInv, Dog!Subscribe
<1>7. CASE OtherTaskChecks
  <2>1. PICK task \in Others : Dog!Check(task)
    BY <1>7 DEF OtherTaskChecks
  <2>2. task # "control"
    BY DEF Others
  <2> QED
    BY <1>7, <2>1, <2>2, CheckKeepsWatch DEF OtherTaskChecks, taskVars
<1>8. CASE PeriodPasses
  <2>1. fed' = fed + 1 /\ fed < Timeout /\ UNCHANGED <<subscribed, checked, step, closed>>
    BY <1>8 DEF PeriodPasses, Dog!Elapse
  <2>2. gap' \in {gap, gap + 1}
    BY <1>8 DEF PeriodPasses
  <2> QED
    BY <2>1, <2>2 DEF WatchInv
<1>9. CASE Environment \/ Blink \/ UNCHANGED vars
  BY <1>9 DEF Environment, Blink, vars, taskVars, dogVars, WatchInv
<1> QED
  BY <1>1, <1>2, <1>3, <1>4, <1>5, <1>6, <1>7, <1>8, <1>9 DEF Next, Task

\* Both hold in every reachable state.
LEMMA BothAlways == Spec => [](BootInv /\ WatchInv)
<1>1. Init => BootInv /\ WatchInv
  <2> SUFFICES ASSUME Init PROVE BootInv /\ WatchInv
    OBVIOUS
  <2>1. 1..(stage - 1) = {}
    BY DEF Init
  <2>2. BootInv
    BY <2>1 DEF Init, BootInv
  <2>3. WatchInv
    <3>1. /\ closed = FALSE /\ gap = 0 /\ fed = 0 /\ step = "none"
          /\ checked = {} /\ subscribed = {}
      BY DEF Init, Dog!Init
    <3>2. Timeout \in Nat
      BY ControlTaskAssumption
    <3>3. /\ gap \in Nat /\ fed \in Nat /\ fed <= Timeout
          /\ gap <= fed /\ gap <= Timeout + fed
      BY <3>1, <3>2
    <3>4. closed \in BOOLEAN /\ ~closed /\ checked \subseteq subscribed
      BY <3>1
    <3> QED
      BY <3>1, <3>3, <3>4 DEF WatchInv
  <2> QED
    BY <2>2, <2>3
<1>2. BootInv /\ WatchInv /\ [Next]_vars => (BootInv /\ WatchInv)'
  BY BootInvStep, WatchInvStep
<1> QED
  BY <1>1, <1>2, PTL DEF Spec

\* enter_fault and the order of app_main: whatever fails, a control task that runs
\* has every part its ticks call into, and its watchdog, initialised.
THEOREM TaskRunsOnCompleteSetUp == Spec => []RunsFullyInitialised
<1>1. BootInv => RunsFullyInitialised
  <2> SUFFICES ASSUME BootInv, step # "none" PROVE Needed \subseteq ready
    BY DEF RunsFullyInitialised
  <2>1. 1..9 \subseteq 1..(stage - 1)
    BY DEF BootInv
  <2>2. {Stages[2], Stages[4], Stages[5], Stages[6], Stages[7], Stages[8]} \subseteq ready
    BY <2>1 DEF BootInv
  <2> QED
    BY <2>2 DEF Needed, Stages
<1> QED
  BY <1>1, BothAlways, PTL

\* hal_wdt_init, the subscriptions of the control and the BACnet task and their
\* resets: however the subscribers of the shared timer take turns, no relay stays
\* closed behind a control task that has been silent for more than two timeouts.
THEOREM NoRelayStaysUnattended == Spec => []NoUnattendedRelay
<1>1. WatchInv => NoUnattendedRelay
  BY ControlTaskAssumption DEF WatchInv, NoUnattendedRelay
<1> QED
  BY <1>1, BothAlways, PTL

-----------------------------------------------------------------------------
(* Types.                                                                  *)

IoImages ==
  /\ bus \in BOOLEAN /\ di \in BOOLEAN /\ held \in BOOLEAN /\ applied \in BOOLEAN
  /\ adcCh \in Io!Channel /\ ai \in [Io!Channel -> Io!Sample]
  /\ count \in 0..(Interval - 1) /\ local \in BOOLEAN

IoChips ==
  /\ pointer \in {"GPIOA", "GPIOB"} /\ directed \in BOOLEAN
  /\ adc \in [Io!Chip -> [result: Io!Sample, busy: Io!Sample]]

\* A start of a conversion on a channel there is leaves the converters well typed.
LEMMA StartedType ==
  ASSUME IoChips, NEW c \in Io!Channel, NEW next \in Io!Started(c)
  PROVE  next \in [Io!Chip -> [result: Io!Sample, busy: Io!Sample]]
<1>1. Io!AdsAddr(c) \in Io!Chip
  BY DEF Io!Chip
<1>2. c \in Io!Sample
  BY DEF Io!Sample
<1>3. next = adc \/ next = [adc EXCEPT ![Io!AdsAddr(c)].busy = c]
  BY DEF Io!Started
<1>4. [adc EXCEPT ![Io!AdsAddr(c)].busy = c]
        \in [Io!Chip -> [result: Io!Sample, busy: Io!Sample]]
  BY <1>1, <1>2 DEF IoChips
<1> QED
  BY <1>3, <1>4 DEF IoChips

\* The round-robin index stays on the channels there are.
LEMMA NextChannel ==
  ASSUME NEW c \in Io!Channel PROVE (c + 1) % Channels \in Io!Channel
BY ControlTaskAssumption DEF Io!Channel

\* There is a first channel to scan.
LEMMA FirstChannel == 0 \in Io!Channel
BY ControlTaskAssumption DEF Io!Channel

\* Every transaction of a tick keeps images and chips well typed.
LEMMA ScanType ==
  ASSUME Io!TypeOK, Io!Scan PROVE Io!TypeOK'
<1> USE DEF Io!TypeOK, Io!images, Io!chips
<1>1. CASE Io!PointAtA
  BY <1>1 DEF Io!PointAtA
<1>2. CASE Io!ReadPort
  BY <1>2 DEF Io!ReadPort
<1>3. CASE Io!StoreDi
  BY <1>3 DEF Io!StoreDi
<1>4. CASE Io!ReadResult
  <2>1. Io!AdsAddr(adcCh) \in Io!Chip
    BY DEF Io!Chip
  <2>2. adc[Io!AdsAddr(adcCh)].result \in Io!Sample
    BY <2>1
  <2>3. ai' \in [Io!Channel -> Io!Sample]
    BY <1>4, <2>2 DEF Io!ReadResult
  <2>4. adcCh' \in Io!Channel
    BY <1>4, NextChannel DEF Io!ReadResult
  <2> QED
    BY <1>4, <2>3, <2>4 DEF Io!ReadResult
<1>5. CASE Io!StartNext
  <2>1. adc' \in [Io!Chip -> [result: Io!Sample, busy: Io!Sample]]
    BY <1>5, StartedType DEF Io!StartNext, IoChips
  <2> QED
    BY <1>5, <2>1 DEF Io!StartNext
<1>6. CASE Io!WriteOutputs
  BY <1>6 DEF Io!WriteOutputs
<1>7. CASE Io!ReadLocal
  BY <1>7 DEF Io!ReadLocal
<1> QED
  BY <1>1, <1>2, <1>3, <1>4, <1>5, <1>6, <1>7 DEF Io!Scan

\* So does what happens outside the tick.
LEMMA OutsideType ==
  ASSUME Io!TypeOK, Io!Outside PROVE Io!TypeOK'
<1> USE DEF Io!TypeOK, Io!images, Io!chips
<1>1. ASSUME NEW a \in Io!Chip, Io!Convert(a) PROVE Io!TypeOK'
  <2>1. (IF calm THEN adc[a].busy ELSE NoValue) \in Io!Sample /\ NoValue \in Io!Sample
    BY DEF Io!Sample
  <2>2. adc' \in [Io!Chip -> [result: Io!Sample, busy: Io!Sample]]
    BY <1>1, <2>1 DEF Io!Convert
  <2> QED
    BY <1>1, <2>2 DEF Io!Convert
<1>2. CASE Io!CalmDown
  BY <1>2 DEF Io!CalmDown
<1>3. CASE Io!SafetyInterrupt
  BY <1>3 DEF Io!SafetyInterrupt
<1>4. CASE Io!SetOutput
  BY <1>4 DEF Io!SetOutput
<1> QED
  BY <1>1, <1>2, <1>3, <1>4 DEF Io!Outside

\* The set-up of the scan starts from well-typed images.
LEMMA SetupType ==
  ASSUME Io!TypeOK, Io!Setup PROVE Io!TypeOK'
<1> USE DEF Io!TypeOK
<1>1. adc' \in [Io!Chip -> [result: Io!Sample, busy: Io!Sample]]
  BY StartedType, FirstChannel DEF Io!Setup, IoChips
<1>2. bus' \in BOOLEAN /\ directed' \in BOOLEAN
  BY DEF Io!Setup
<1> QED
  BY <1>1, <1>2 DEF Io!Setup

\* The counter of the local sensor stays below its interval.
LEMMA BeginType ==
  ASSUME Io!TypeOK, Io!Begin PROVE Io!TypeOK'
<1>1. (count + 1) % Interval \in 0..(Interval - 1)
  BY ControlTaskAssumption DEF Io!TypeOK
<1> QED
  BY <1>1 DEF Io!TypeOK, Io!Begin, Io!chips

\* A restart of the scan empties the images.
LEMMA RestartType ==
  ASSUME Io!TypeOK, Io!Restart PROVE Io!TypeOK'
<1>1. Io!NoValues \in [Io!Channel -> Io!Sample]
  BY DEF Io!NoValues, Io!Sample
<1>2. 0 \in 0..(Interval - 1)
  BY ControlTaskAssumption
<1>3. Io!Resting \in [Io!Chip -> [result: Io!Sample, busy: Io!Sample]]
  BY DEF Io!Resting, Io!Sample
<1>4. /\ pointer' \in {"GPIOA", "GPIOB"} /\ directed' \in BOOLEAN
      /\ adc' \in [Io!Chip -> [result: Io!Sample, busy: Io!Sample]]
  BY <1>3 DEF Io!TypeOK, Io!Restart
<1> QED
  BY <1>1, <1>2, <1>4, FirstChannel DEF Io!TypeOK, Io!Restart

\* The images start empty.
LEMMA IoInitType ==
  ASSUME Io!Init PROVE Io!TypeOK
<1>1. Io!NoValues \in [Io!Channel -> Io!Sample] /\ NoValue \in Io!Sample
  BY DEF Io!NoValues, Io!Sample
<1>2. 0 \in 0..(Interval - 1)
  BY ControlTaskAssumption
<1> QED
  BY <1>1, <1>2, FirstChannel DEF Io!TypeOK, Io!Init, Io!Resting

\* Types of the set-up, the task and the watchdog.
TaskTypes ==
  /\ halted \in BOOLEAN
  /\ step \in {"none", "created", "top", "scan", "decide", "delay", "sleep"}
  /\ due \in (-MaxLag)..1 /\ gap \in 0..(2 * Timeout + 1)
  /\ misses \in 0..MaxMisses /\ closed \in BOOLEAN
  /\ step # "sleep" => due <= 0

\* The values the task starts with are within their bounds.
LEMMA Bounds == 0 \in (-MaxLag)..1 /\ 0 \in 0..(2 * Timeout + 1) /\ 0 \in 0..MaxMisses
<1>1. MaxLag \in Nat /\ Timeout \in Nat /\ MaxMisses \in Nat
  BY ControlTaskAssumption
<1>2. -MaxLag \in Int /\ -MaxLag <= 0
  BY <1>1
<1> QED
  BY <1>1, <1>2

\* Every step keeps the task's own variables typed.
LEMMA TaskTypesStep ==
  ASSUME BootInv, TaskTypes, [Next]_vars PROVE TaskTypes'
<1> USE ControlTaskAssumption DEF TaskTypes
<1>1. CASE Boot
  <2>1. CASE UNCHANGED <<taskVars, closed>> /\ halted' \in BOOLEAN
    BY <2>1 DEF taskVars
  <2>2. CASE /\ Stages[stage] = "control_task_start" /\ step' = "created" /\ halted' = halted
             /\ UNCHANGED <<due, gap, misses, closed>>
    <3>1. stage = 9
      BY <1>1, <2>2, StagesLength DEF Boot, BootInv
    <3>2. due <= 0
      BY <3>1 DEF BootInv
    <3> QED
      BY <2>2, <3>2
  <2> QED
    BY <1>1, <2>1, <2>2 DEF Boot, InitFails, InitSucceeds
<1>2. CASE Enter
  BY <1>2, Bounds DEF Enter, bootVars
<1>3. CASE BeginCycle
  BY <1>3 DEF BeginCycle, bootVars
<1>4. CASE ScanStep \/ Decide
  BY <1>4 DEF ScanStep, Decide, bootVars
<1>5. CASE DelayUntil \/ Wake
  BY <1>5 DEF DelayUntil, Wake, bootVars
<1>6. CASE PeriodPasses
  BY <1>6 DEF PeriodPasses, bootVars
<1>7. CASE Environment \/ BacnetTaskEnters \/ OtherTaskChecks \/ Blink \/ UNCHANGED vars
  BY <1>7 DEF Environment, BacnetTaskEnters, OtherTaskChecks, Blink, vars, bootVars, taskVars
<1>8. CASE WatchdogFires \/ Reset
  <2>1. /\ halted' = FALSE /\ step' = "none"
        /\ due' = 0 /\ gap' = 0 /\ misses' = 0 /\ closed' = FALSE
    BY <1>8 DEF WatchdogFires, Reset, StartAnew
  <2>2. due' \in (-MaxLag)..1 /\ gap' \in 0..(2 * Timeout + 1) /\ misses' \in 0..MaxMisses
    BY <2>1, Bounds
  <2>3. step' # "sleep" => due' <= 0
    BY <2>1
  <2> QED
    BY <2>1, <2>2, <2>3
<1> QED
  BY <1>1, <1>2, <1>3, <1>4, <1>5, <1>6, <1>7, <1>8 DEF Next, Task

\* Every step keeps the scan's variables typed.
LEMMA IoTypeStep ==
  ASSUME Io!TypeOK, [Next]_vars PROVE Io!TypeOK'
<1>1. CASE UNCHANGED ioVars
  BY <1>1 DEF ioVars, Io!TypeOK
<1>2. CASE Boot
  BY <1>1, <1>2, SetupType DEF Boot, InitFails, ioVars
<1>3. CASE BeginCycle \/ ScanStep
  BY <1>3, BeginType, ScanType DEF BeginCycle, ScanStep
<1>4. CASE \/ Enter \/ Decide \/ DelayUntil \/ Wake \/ Blink
           \/ BacnetTaskEnters \/ OtherTaskChecks \/ PeriodPasses
  BY <1>1, <1>4
  DEF Enter, Decide, DelayUntil, Wake, Blink, BacnetTaskEnters, OtherTaskChecks,
      PeriodPasses, vars
<1>5. CASE Environment
  BY <1>5, OutsideType DEF Environment
<1>6. CASE WatchdogFires \/ Reset
  BY <1>6, RestartType DEF WatchdogFires, Reset, StartAnew
<1> QED
  BY <1>1, <1>2, <1>3, <1>4, <1>5, <1>6 DEF Next, Task, vars

\* Every step keeps the watchdog's variables typed.
LEMMA DogTypeStep ==
  ASSUME Dog!TypeOK, [Next]_vars PROVE Dog!TypeOK'
<1> USE ControlTaskAssumption DEF Dog!TypeOK, Dog!Tasks
<1>1. CASE UNCHANGED dogVars
  BY <1>1 DEF dogVars
<1>0. 0 \in 0..Timeout
  OBVIOUS
<1>2. ASSUME NEW task, Dog!Check(task) PROVE Dog!TypeOK'
  <2>1. subscribed' = subscribed
    BY <1>2 DEF Dog!Check
  <2>2. \/ checked' = checked /\ fed' = fed
        \/ checked' = {} /\ fed' = 0
        \/ task \in subscribed /\ checked' = checked \union {task} /\ fed' = fed
    BY <1>2 DEF Dog!Check
  <2>3. fed' \in 0..Timeout
    BY <1>0, <2>2
  <2> QED
    BY <2>1, <2>2, <2>3
<1>3. CASE Dog!Start \/ Dog!Clear \/ Dog!Subscribe("control") \/ Dog!Subscribe("bacnet")
  <2>1. fed' \in 0..Timeout
    BY <1>0, <1>3 DEF Dog!Start, Dog!Clear, Dog!Subscribe
  <2>2. subscribed' \subseteq {"idle", "bacnet", "control"} /\ checked' \subseteq subscribed'
    BY <1>3 DEF Dog!Start, Dog!Clear, Dog!Subscribe
  <2> QED
    BY <2>1, <2>2
<1>4. CASE Dog!Elapse
  BY <1>4 DEF Dog!Elapse
<1>5. CASE Boot
  BY <1>1, <1>3, <1>5 DEF Boot, InitFails, dogVars
<1>6. CASE Task
  BY <1>1, <1>2, <1>3, <1>6
  DEF Task, Enter, BeginCycle, ScanStep, Decide, DelayUntil, Wake, dogVars
<1>7. CASE Environment \/ Blink \/ UNCHANGED vars
  BY <1>1, <1>7 DEF Environment, Blink, vars, dogVars
<1>8. CASE BacnetTaskEnters \/ OtherTaskChecks \/ PeriodPasses
  BY <1>2, <1>3, <1>4, <1>8 DEF BacnetTaskEnters, OtherTaskChecks, PeriodPasses
<1>9. CASE WatchdogFires \/ Reset
  BY <1>3, <1>9 DEF WatchdogFires, Reset, StartAnew
<1> QED
  BY <1>5, <1>6, <1>7, <1>8, <1>9 DEF Next

\* Every reachable state is well typed: the channel index never leaves its table,
\* and the task is never ahead of its schedule by more than a period.
THEOREM TaskTypeCorrect == Spec => []TypeOK
<1>1. Init => Io!TypeOK /\ Dog!TypeOK /\ TaskTypes
  <2> SUFFICES ASSUME Init PROVE Io!TypeOK /\ Dog!TypeOK /\ TaskTypes
    OBVIOUS
  <2>1. due \in (-MaxLag)..1 /\ gap \in 0..(2 * Timeout + 1) /\ misses \in 0..MaxMisses
    BY Bounds DEF Init
  <2>2. step # "sleep" => due <= 0
    BY DEF Init
  <2>3. TaskTypes
    BY <2>1, <2>2 DEF Init, TaskTypes
  <2>4. Dog!TypeOK
    BY ControlTaskAssumption DEF Init, Dog!Init, Dog!TypeOK
  <2> QED
    BY <2>3, <2>4, IoInitType DEF Init
<1>2. BootInv /\ Io!TypeOK /\ Dog!TypeOK /\ TaskTypes /\ [Next]_vars
        => (Io!TypeOK /\ Dog!TypeOK /\ TaskTypes)'
  BY IoTypeStep, DogTypeStep, TaskTypesStep
<1>3. BootInv /\ Io!TypeOK /\ Dog!TypeOK /\ TaskTypes => TypeOK
  <2> SUFFICES ASSUME BootInv, Io!TypeOK, Dog!TypeOK, TaskTypes PROVE TypeOK
    OBVIOUS
  <2>1. stage \in 1..(Len(Stages) + 1)
    BY StagesLength DEF BootInv
  <2>2. 1..(stage - 1) \subseteq 1..12
    BY DEF BootInv
  <2>3. DOMAIN Stages = 1..12
    BY DEF Stages
  <2>4. ready \subseteq ToSet(Stages)
    BY <2>2, <2>3 DEF BootInv, ToSet
  <2> QED
    BY <2>1, <2>4 DEF TypeOK, TaskTypes
<1> QED
  BY <1>1, <1>2, <1>3, BothAlways, PTL DEF Spec
=============================================================================
