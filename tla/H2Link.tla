------------------------------- MODULE H2Link -------------------------------
(***************************************************************************)
(* zigbee_bridge.c and zigbee_bridge_io.c, heartbeat supervision of the H2: *)
(* the RX task (priority 6) stores the time of every heartbeat and logs    *)
(* the loss of the link; the control task (priority 5) asks                *)
(* zigbee_bridge_is_h2_online once per tick.                               *)
(*                                                                         *)
(* The RX task preempts the control task and is preempted by no one, so a  *)
(* round of its loop is one step.  is_h2_online takes no lock: the control *)
(* task can be preempted between its reads.  C does not say which operand  *)
(* of hal_timer_get_ms() - s_last_heartbeat_ms is read first; both orders  *)
(* are steps here.                                                         *)
(***************************************************************************)
EXTENDS Integers

CONSTANTS
  Wrap,       \* the millisecond counter's modulus, 2^32
  Timeout,    \* H2_HEARTBEAT_TIMEOUT_MS
  SyncWait,   \* ZB_SYNC_TIMEOUT_MS
  MaxCall,    \* bound: how long the control task can be kept inside a call
  MaxSilence  \* bound: how long the H2 stays silent before the clock stops

ASSUME TimingAssumption ==
  /\ Wrap \in Nat /\ Timeout \in Nat /\ SyncWait \in Nat
  /\ MaxCall \in Nat /\ MaxSilence \in Nat
  /\ 0 < SyncWait /\ SyncWait < Timeout
  /\ Timeout + MaxCall < Wrap /\ MaxSilence + MaxCall < Wrap

VARIABLES
  clock,       \* hal_timer_get_ms()
  seen,        \* s_h2_seen
  lastBeat,    \* s_last_heartbeat_ms
  prevOnline,  \* s_prev_online
  idle,        \* how long the RX task has been waiting for a byte
  pc,          \* control task: outside, or which operand it has read
  operand,     \* that operand
  answer,      \* what its last call returned
  field,       \* environment: H2 "alive", "dead", or dead on a "quiet" line
  age,         \* history: true time since the last heartbeat, or since boot
  callAge,     \* history: true time since the call began
  noisy,       \* history: a byte outside a frame since the last service
  witnessed,   \* history: values of Fresh since the call began
  overlapped   \* history: a heartbeat was processed since the call began

line == <<seen, lastBeat, prevOnline, idle, noisy>>
call == <<pc, operand, answer>>
vars == <<clock, line, call, field, age, callAge, witnessed, overlapped>>

\* A heartbeat was seen within H2_HEARTBEAT_TIMEOUT_MS.
Fresh == seen /\ age < Timeout

Calling == pc \in {"called", "has_clock", "has_stamp"}

TypeOK ==
  /\ clock \in 0..(Wrap - 1) /\ lastBeat \in 0..(Wrap - 1)
  /\ seen \in BOOLEAN /\ prevOnline \in BOOLEAN /\ noisy \in BOOLEAN
  /\ idle \in 0..SyncWait
  /\ pc \in {"outside", "called", "has_clock", "has_stamp"}
  /\ operand \in 0..(Wrap - 1)
  /\ answer \in BOOLEAN
  /\ field \in {"alive", "dead", "quiet"}
  /\ age \in 0..MaxSilence /\ callAge \in 0..MaxCall
  /\ witnessed \subseteq BOOLEAN /\ overlapped \in BOOLEAN

\* zigbee_bridge_init, with the clock anywhere.
Init ==
  /\ clock \in 0..(Wrap - 1)
  /\ seen = FALSE /\ lastBeat = 0 /\ prevOnline = FALSE /\ idle = 0
  /\ pc = "outside" /\ operand = 0 /\ answer = FALSE
  /\ field = "alive" /\ age = 0 /\ callAge = 0 /\ noisy = FALSE
  /\ witnessed = {} /\ overlapped = FALSE

\* uint32_t subtraction.
Elapsed(now, stamp) == (now - stamp) % Wrap

\* A call in progress takes note of Fresh after the step.
Witness == witnessed' = IF Calling THEN witnessed \union {Fresh'} ELSE witnessed

-----------------------------------------------------------------------------
(* The RX task.                                                            *)

\* The body of is_h2_online, undisturbed.
IsOnline(seenNow, stamp) == seenNow /\ Elapsed(clock, stamp) < Timeout

\* The timeout and the wait for the next service added up.
ServiceLate(seenNow, stamp) ==
  /\ prevOnline' = (seenNow /\ Elapsed(clock, stamp) < Timeout + SyncWait)
  /\ noisy' = FALSE

\* The loss announced one service ahead.
ServiceEarly(seenNow, stamp) ==
  /\ prevOnline' = (seenNow /\ Elapsed(clock, stamp) + SyncWait < Timeout)
  /\ noisy' = FALSE

\* service_h2_watchdog.
Service(seenNow, stamp) ==
  /\ prevOnline' = IsOnline(seenNow, stamp)
  /\ noisy' = FALSE

\* The time of the next tick stored, without the wrap-around.
HeartbeatAhead ==
  /\ field = "alive"
  /\ seen' = TRUE
  /\ lastBeat' = clock + 1
  /\ age' = 0
  /\ idle' = 0
  /\ Service(TRUE, clock)
  /\ Witness
  /\ overlapped' = (overlapped \/ Calling)
  /\ UNCHANGED <<clock, call, field, callAge>>

\* A heartbeat frame: process_frame stores the time.
Heartbeat ==
  /\ field = "alive"
  /\ seen' = TRUE
  /\ lastBeat' = clock
  /\ age' = 0
  /\ idle' = 0
  /\ Service(TRUE, clock)
  /\ Witness
  /\ overlapped' = (overlapped \/ Calling)
  /\ UNCHANGED <<clock, call, field, callAge>>

\* Any other complete frame, good or with a bad CRC.
OtherFrame ==
  /\ field = "alive"
  /\ idle' = 0
  /\ Service(seen, lastBeat)
  /\ UNCHANGED <<clock, seen, lastBeat, call, field, age, callAge, witnessed, overlapped>>

\* A byte that starts no frame, a frame that breaks off or claims to be too
\* long: back to the sync wait, past service_h2_watchdog.
Noise ==
  /\ field # "quiet"
  /\ idle' = 0
  /\ noisy' = TRUE
  /\ UNCHANGED <<clock, seen, lastBeat, prevOnline, call, field, age, callAge,
                 witnessed, overlapped>>

\* ZB_SYNC_TIMEOUT_MS without a byte.
Silence ==
  /\ idle = SyncWait
  /\ idle' = 0
  /\ Service(seen, lastBeat)
  /\ UNCHANGED <<clock, seen, lastBeat, call, field, age, callAge, witnessed, overlapped>>

-----------------------------------------------------------------------------
(* The control task in zigbee_bridge_is_h2_online.                         *)

CallState(to, value) ==
  /\ pc' = to
  /\ operand' = value
  /\ UNCHANGED <<clock, line, field, age>>

Return(result) ==
  /\ answer' = result
  /\ CallState("outside", 0)
  /\ callAge' = 0 /\ witnessed' = {} /\ overlapped' = FALSE

Call ==
  /\ pc = "outside"
  /\ CallState("called", 0)
  /\ witnessed' = {Fresh}
  /\ UNCHANGED <<answer, callAge, overlapped>>

\* if (!s_h2_seen) return false;
NeverSeen ==
  /\ pc = "called"
  /\ ~seen
  /\ Return(FALSE)

ReadClock ==
  /\ pc = "called"
  /\ seen
  /\ CallState("has_clock", clock)
  /\ UNCHANGED <<answer, callAge, witnessed, overlapped>>

ReadStamp ==
  /\ pc = "called"
  /\ seen
  /\ CallState("has_stamp", lastBeat)
  /\ UNCHANGED <<answer, callAge, witnessed, overlapped>>

\* The last heartbeat accepted one unit too long.
SubtractFromClockLate ==
  pc = "has_stamp" /\ Return(Elapsed(clock, operand) <= Timeout)

\* The RX task's view returned instead of a comparison.
SubtractFromClockCached == pc = "has_stamp" /\ Return(prevOnline)

\* The other operand, the comparison and the return.
SubtractStamp == pc = "has_clock" /\ Return(Elapsed(operand, lastBeat) < Timeout)
SubtractFromClock == pc = "has_stamp" /\ Return(Elapsed(clock, operand) < Timeout)

Control == \/ Call \/ NeverSeen \/ ReadClock \/ ReadStamp
           \/ SubtractStamp \/ SubtractFromClock

-----------------------------------------------------------------------------
\* One unit of time.  The RX task never oversleeps its timeout.  At the bound
\* MaxSilence the clock stands still and only the waits go on.
Elapse ==
  /\ idle < SyncWait
  /\ Calling => callAge < MaxCall
  /\ IF age < MaxSilence
     THEN clock' = (clock + 1) % Wrap /\ age' = age + 1
     ELSE UNCHANGED <<clock, age>>
  /\ idle' = idle + 1
  /\ callAge' = IF Calling THEN callAge + 1 ELSE 0
  /\ UNCHANGED <<seen, lastBeat, prevOnline, noisy, call, field, overlapped>>
  /\ Witness

\* The H2 dies; later the line falls quiet too.
Worsen ==
  /\ field' = CASE field = "alive" -> "dead" [] OTHER -> "quiet"
  /\ field # "quiet"
  /\ UNCHANGED <<clock, line, call, age, callAge, witnessed, overlapped>>

Next == \/ Heartbeat \/ OtherFrame \/ Noise \/ Silence
        \/ Control \/ Elapse \/ Worsen

\* Time passes, a wait for a byte times out, and the control task runs.
Fairness == WF_vars(Elapse \/ Silence) /\ WF_vars(Control)

Spec == Init /\ [][Next]_vars
FairSpec == Spec /\ Fairness

-----------------------------------------------------------------------------
\* The promise to the control task: every answer was true at some moment of the
\* call, unless a heartbeat overlapped the call and the answer is "offline".
Promise == INSTANCE H2Presence WITH fresh <- Fresh, asking <- Calling
KeepsPromise == Promise!Spec

\* "@return true if a heartbeat was seen within H2_HEARTBEAT_TIMEOUT_MS": no
\* call answers "offline" of an H2 that was fresh from its start to its end.
NoFalseAlarm ==
  [][Calling /\ pc' = "outside" /\ ~answer' => FALSE \in witnessed]_vars

\* The RX task logs a loss at the latest one sync wait after it happened, as
\* long as no stray byte has kept it from its watchdog.
LossLoggedInTime == prevOnline /\ ~noisy => age < Timeout + SyncWait

\* It never logs the loss of an H2 that is fresh.
LoggedLossIsReal == [][prevOnline /\ ~prevOnline' => ~Fresh]_vars

\* Whatever bytes still arrive, a dead H2 is reported offline to the control
\* task from some call on.
DeadH2GoesOffline == field # "alive" ~> [](pc = "outside" => ~answer)
=============================================================================
