----------------------------- MODULE ControlTask -----------------------------
(***************************************************************************)
(* firmware-c6: app_main's chain of initialisations, the periodic control  *)
(* task it starts (control_task.c), the task watchdog (TaskWatchdog) and   *)
(* the wired I/O scanned by each tick (IoScan).                            *)
(*                                                                         *)
(* Time passes in whole control periods.  Anything can delay the task:     *)
(* other tasks, a mutex, I2C timeouts.  vTaskDelayUntil adds a period to   *)
(* last_wake whatever happened, so a task that is behind runs its next     *)
(* ticks back to back.  What a tick decides is ControlLoop's business: here *)
(* the relays are set in any way, or left as they are.                     *)
(***************************************************************************)
EXTENDS Integers, Sequences, SequencesExt

CONSTANTS
  Channels, PerChip, Interval, NoValue,   \* see IoScan
  Timeout,  \* TASK_WDT_TIMEOUT_S in control periods
  MaxLag,   \* bound: periods the task is behind, when it is more
  MaxMisses \* bound: deadline misses counted

ASSUME ControlTaskAssumption ==
  /\ Channels \in Nat \ {0} /\ PerChip \in Nat \ {0} /\ Interval \in Nat \ {0}
  /\ NoValue \notin Nat
  /\ Timeout \in Nat \ {0} /\ MaxLag \in Nat /\ MaxMisses \in Nat

VARIABLES
  pointer, adc, directed, bus, di, held, applied, adcCh, ai, count, local, at, calm,  \* IoScan
  subscribed, checked, fed,  \* TaskWatchdog
  stage,    \* app_main: index of the initialisation that comes next
  halted,   \* app_main: in enter_fault
  ready,    \* the initialisations that succeeded
  step,     \* where the control task is
  due,      \* periods until last_wake + CONTROL_LOOP_PERIOD_MS, negative when behind
  gap,      \* periods since the control task last called hal_wdt_reset
  misses,   \* rt_deadline_miss_count of the store
  closed    \* a relay is closed

Io == INSTANCE IoScan
Dog == INSTANCE TaskWatchdog

ioVars == <<pointer, adc, directed, bus, di, held, applied, adcCh, ai, count, local, at, calm>>
dogVars == <<subscribed, checked, fed>>
bootVars == <<stage, halted, ready>>
taskVars == <<step, due, gap, misses>>
vars == <<ioVars, dogVars, bootVars, taskVars, closed>>

\* app_main.
Stages ==
  <<"hal_nvs_init", "hal_gpio_init", "H2_EN", "hal_wdt_init", "sensor_state_init",
    "zigbee_bridge_init", "io_scan_init", "control_loop_init", "control_task_start",
    "bacnet_server_init", "add_transport", "bacnet_server_start">>

\* What a tick calls into, and the watchdog it relies on.
Needed ==
  {"hal_gpio_init", "hal_wdt_init", "sensor_state_init", "zigbee_bridge_init",
   "io_scan_init", "control_loop_init"}

TypeOK ==
  /\ Io!TypeOK /\ Dog!TypeOK
  /\ stage \in 1..(Len(Stages) + 1) /\ halted \in BOOLEAN /\ ready \subseteq ToSet(Stages)
  /\ step \in {"none", "created", "top", "scan", "decide", "delay", "sleep"}
  /\ due \in (-MaxLag)..1 /\ gap \in 0..(2 * Timeout + 1)
  /\ misses \in 0..MaxMisses /\ closed \in BOOLEAN

Init ==
  /\ Io!Init /\ Dog!Init
  /\ stage = 1 /\ halted = FALSE /\ ready = {}
  /\ step = "none" /\ due = 0 /\ gap = 0
  /\ misses = 0 /\ closed = FALSE

-----------------------------------------------------------------------------
(* app_main.                                                               *)

InitSucceeds(s) ==
  /\ ready' = ready \union {s}
  /\ stage' = stage + 1
  /\ UNCHANGED halted

\* The failure is logged and the next initialisation tried.
InitFailsOn(s) ==
  /\ ~calm /\ s # "io_scan_init"
  /\ stage' = stage + 1
  /\ UNCHANGED <<halted, ready, ioVars, dogVars, taskVars, closed>>

\* enter_fault: app_main never goes on; tasks it created do.  io_scan_init has
\* no result but ESP_OK.
InitFails(s) ==
  /\ ~calm /\ s # "io_scan_init"
  /\ halted' = TRUE
  /\ UNCHANGED <<stage, ready, ioVars, dogVars, taskVars, closed>>

\* One call of app_main.
Boot ==
  /\ ~halted /\ stage <= Len(Stages)
  /\ LET s == Stages[stage]
     IN \/ InitFails(s)
        \/ /\ s \notin {"hal_wdt_init", "io_scan_init", "control_task_start"}
           /\ InitSucceeds(s)
           /\ UNCHANGED <<ioVars, dogVars, taskVars, closed>>
        \/ /\ s = "hal_wdt_init"
           /\ InitSucceeds(s)
           /\ Dog!Start
           /\ UNCHANGED <<ioVars, taskVars, closed>>
        \/ /\ s = "io_scan_init"
           /\ InitSucceeds(s)
           /\ Io!Setup
           /\ UNCHANGED <<dogVars, taskVars, closed>>
        \/ /\ s = "control_task_start"
           /\ InitSucceeds(s)
           /\ step' = "created"
           /\ UNCHANGED <<ioVars, dogVars, due, gap, misses, closed>>

\* enter_fault blinks the status LED for ever.
Blink == halted /\ UNCHANGED vars

-----------------------------------------------------------------------------
(* control_task.                                                           *)

\* The task does not subscribe.
EnterUnwatched ==
  /\ step = "created"
  /\ step' = "top"
  /\ due' = 0 /\ gap' = 0
  /\ UNCHANGED <<ioVars, dogVars, bootVars, misses, closed>>

\* hal_wdt_add_current_task; last_wake is now.
Enter ==
  /\ step = "created"
  /\ step' = "top"
  /\ due' = 0 /\ gap' = 0
  /\ Dog!Subscribe("control")
  /\ UNCHANGED <<ioVars, bootVars, misses, closed>>

\* hal_wdt_reset, the deadline check against the cycle before, and io_scan_tick
\* is called.  A miss is not counted when the store's mutex is not free in time.
BeginCycle ==
  /\ step = "top"
  /\ Dog!Check("control")
  /\ gap' = 0
  /\ \/ gap > 1 /\ misses' = IF misses < MaxMisses THEN misses + 1 ELSE misses
     \/ (gap <= 1 \/ ~calm) /\ misses' = misses
  /\ Io!Begin
  /\ step' = "scan"
  /\ UNCHANGED <<bootVars, due, closed>>

ScanStep ==
  /\ step = "scan"
  /\ Io!Scan
  /\ step' = IF at' = "idle" THEN "decide" ELSE "scan"
  /\ UNCHANGED <<bootVars, dogVars, due, gap, misses, closed>>

\* The rest of control_loop_tick.
Decide ==
  /\ step = "decide"
  /\ closed' \in BOOLEAN
  /\ step' = "delay"
  /\ UNCHANGED <<ioVars, dogVars, bootVars, due, gap, misses>>

\* vTaskDelayUntil is called and moves last_wake on by a period.
DelayUntil ==
  /\ step = "delay"
  /\ due' = due + 1
  /\ step' = "sleep"
  /\ UNCHANGED <<ioVars, dogVars, bootVars, gap, misses, closed>>

\* vTaskDelayUntil returns, at once when last_wake is past already.
Wake ==
  /\ step = "sleep" /\ due <= 0
  /\ step' = "top"
  /\ UNCHANGED <<ioVars, dogVars, bootVars, due, gap, misses, closed>>

Task == Enter \/ BeginCycle \/ ScanStep \/ Decide \/ DelayUntil \/ Wake

-----------------------------------------------------------------------------
(* The rest of the world.                                                  *)

Environment ==
  /\ Io!Outside
  /\ UNCHANGED <<dogVars, bootVars, taskVars, closed>>

Others == subscribed \ {"control"}

\* bacnet_task, once it has been started, subscribes.
BacnetTaskEnters ==
  /\ "bacnet_server_start" \in ready /\ "bacnet" \notin subscribed
  /\ Dog!Subscribe("bacnet")
  /\ UNCHANGED <<ioVars, bootVars, taskVars, closed>>

\* The idle task's hook or bacnet_task's loop resets the watchdog.
OtherTaskChecks ==
  /\ \E task \in Others : Dog!Check(task)
  /\ UNCHANGED <<ioVars, bootVars, taskVars, closed>>

\* A period goes by; a conversion takes less.  A delay inside the scan counts when
\* it has ended, since the scan neither looks at the time nor touches a relay.  In
\* calm weather the work of a tick fits between two periods, and so does a round of
\* each other task.
PeriodPasses ==
  /\ subscribed # {} /\ step # "scan"
  /\ \A a \in Io!Chip : adc[a].busy = NoValue
  /\ calm => step = "sleep" /\ due = 1 /\ Others \subseteq checked
  /\ Dog!Elapse
  /\ IF step \in {"none", "created"}
     THEN UNCHANGED <<due, gap>>
     ELSE /\ due' = IF due > -MaxLag THEN due - 1 ELSE due
          /\ gap' = IF gap <= 2 * Timeout THEN gap + 1 ELSE gap
  /\ UNCHANGED <<ioVars, bootVars, step, misses, closed>>

\* The program starts anew and the relay lines float.
StartAnew ==
  /\ stage' = 1 /\ halted' = FALSE /\ ready' = {}
  /\ step' = "none" /\ due' = 0 /\ gap' = 0
  /\ misses' = 0 /\ closed' = FALSE
  /\ Dog!Clear
  /\ Io!Restart

\* The task watchdog panics.
WatchdogFires == Dog!Expired /\ StartAnew

\* A failing ESP_ERROR_CHECK of a subscription aborts, or the power fails.
Reset == ~calm /\ StartAnew

Next ==
  \/ Boot \/ Blink \/ Task \/ Environment
  \/ BacnetTaskEnters \/ OtherTaskChecks \/ PeriodPasses \/ WatchdogFires \/ Reset

Spec == Init /\ [][Next]_vars

\* The program runs, time passes or the watchdog fires; the other tasks of the
\* watchdog are scheduled, conversions end.
Fairness ==
  /\ WF_vars(Boot \/ Task \/ PeriodPasses \/ WatchdogFires)
  /\ WF_vars(OtherTaskChecks)
  /\ \A a \in Io!Chip :
       WF_vars(Io!Convert(a) /\ UNCHANGED <<dogVars, bootVars, taskVars, closed>>)

FairSpec == Spec /\ Fairness

-----------------------------------------------------------------------------
\* A relay is never left closed by a control task that has been silent for twice
\* the watchdog's timeout: subscription, shared timer and the reset that opens the
\* lines work together, from the first tick on.  Not for once the timeout, though
\* "a subscribed task that fails to reset within the timeout triggers a panic":
\* the other subscribers can feed the timer after this task's last reset.
NoUnattendedRelay == closed => gap <= 2 * Timeout

\* enter_fault stops app_main only.  Whatever fails, a control task that runs has
\* every part its ticks call into, and its watchdog, initialised.
RunsFullyInitialised == step # "none" => Needed \subseteq ready

\* Once inputs and bus rest, the images and the local reading become right and
\* stay right, and the task is on time: interrupted port readings, results filed
\* under the wrong channel by a failed start or by a tick too early and a late task
\* all mend.  So do lost writes of the outputs, when the pins were made outputs.
\* (Neither when the bus could not be brought up: io_scan_init says nothing, and
\* each scan fails.  And a pin that io_scan_init could not make an output drives no
\* line until the next reset.)
ScanHeals ==
  /\ calm /\ step # "none" /\ bus ~> [](Io!InputsRight /\ gap <= 1)
  /\ calm /\ step # "none" /\ bus /\ directed ~> []Io!OutputsRight
=============================================================================
