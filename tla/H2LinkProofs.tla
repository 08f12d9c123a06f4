---------------------------- MODULE H2LinkProofs ----------------------------
(***************************************************************************)
(* H2Link keeps the promise of H2Presence for every counter width, timeout *)
(* and pace of the control task, as long as no silence outlasts the        *)
(* counter.  The argument: while the counter has not wrapped since the     *)
(* last heartbeat, the subtraction yields the true age; an operand read    *)
(* before a heartbeat is only ever used in a call that the heartbeat       *)
(* overlapped.                                                             *)
(***************************************************************************)
EXTENDS H2Link, TLAPS

\* The subtraction of the two stored times is the true age.
AgeMeasured == seen => Elapsed(clock, lastBeat) = age

\* The values Fresh had since the call began, and how stale the operand is.
CallSound ==
  /\ ~Calling => witnessed = {} /\ overlapped = FALSE
  /\ Calling => Fresh \in witnessed
  /\ pc \in {"has_clock", "has_stamp"} => seen
  /\ pc = "has_clock" =>
       \/ overlapped /\ TRUE \in witnessed
       \/ (Elapsed(operand, lastBeat) < Timeout) \in witnessed
  /\ pc = "has_stamp" =>
       \/ overlapped /\ TRUE \in witnessed
       \/ operand = lastBeat

LinkInv == TypeOK /\ AgeMeasured /\ CallSound

-----------------------------------------------------------------------------
\* The remainder by the modulus, one turn below to one turn above zero.
LEMMA SmallRemainder ==
  ASSUME NEW W \in Nat, NEW n \in Int, 0 <= n, n < W
  PROVE  n % W = n
  OBVIOUS

\* The remainder of a small negative number.
LEMMA NegativeRemainder ==
  ASSUME NEW W \in Nat, NEW n \in Int, 0 - W <= n, n < 0
  PROVE  n % W = n + W
  OBVIOUS

\* A whole turn of the clock leaves nothing.
LEMMA FullRemainder ==
  ASSUME NEW W \in Nat, 0 < W
  PROVE  W % W = 0
  OBVIOUS
\* A heartbeat stored at this moment has no age.
LEMMA NoAge ==
  ASSUME NEW t \in 0..(Wrap - 1)
  PROVE  Elapsed(t, t) = 0
<1>1. 0 < Wrap /\ Wrap \in Nat
  BY TimingAssumption
<1>2. QED
  BY <1>1, SmallRemainder DEF Elapsed

\* As time passes, the measured age grows by as much, wrap-around or not.
LEMMA AgeGrows ==
  ASSUME NEW t \in 0..(Wrap - 1), NEW b \in 0..(Wrap - 1), Elapsed(t, b) + 1 < Wrap
  PROVE  /\ (t + 1) % Wrap \in 0..(Wrap - 1)
         /\ Elapsed((t + 1) % Wrap, b) = Elapsed(t, b) + 1
<1> DEFINE next == (t + 1) % Wrap
<1>1. Wrap \in Nat /\ 0 < Wrap
  BY TimingAssumption
<1>2. next = IF t + 1 < Wrap THEN t + 1 ELSE 0
  BY <1>1, SmallRemainder, FullRemainder
<1>3. Elapsed(t, b) = IF b <= t THEN t - b ELSE t - b + Wrap
  BY <1>1, SmallRemainder, NegativeRemainder DEF Elapsed
<1>4. next \in 0..(Wrap - 1)
  BY <1>1, <1>2
<1> HIDE DEF next
<1>5. Elapsed(next, b) = IF b <= next THEN next - b ELSE next - b + Wrap
  BY <1>1, <1>4, SmallRemainder, NegativeRemainder DEF Elapsed
<1>6. Elapsed(next, b) = Elapsed(t, b) + 1
  BY <1>1, <1>2, <1>3, <1>4, <1>5
<1>7. QED
  BY <1>4, <1>6 DEF next

-----------------------------------------------------------------------------

\* The link starts with no heartbeat seen.
LEMMA LinkInvInit == Init => LinkInv
<1> SUFFICES ASSUME Init PROVE LinkInv
  OBVIOUS
<1>1. TypeOK
  <2>1. /\ clock \in 0..(Wrap - 1) /\ lastBeat \in 0..(Wrap - 1) /\ operand \in 0..(Wrap - 1)
        /\ idle \in 0..SyncWait /\ age \in 0..MaxSilence /\ callAge \in 0..MaxCall
    BY TimingAssumption DEF Init
  <2>2. QED
    BY <2>1, Zenon DEF Init, TypeOK
<1>2. AgeMeasured /\ CallSound
  BY DEF Init, AgeMeasured, CallSound, Calling
<1>3. QED
  BY <1>1, <1>2 DEF LinkInv

\* Steps of the RX task other than a heartbeat touch nothing the call reads.
LEMMA RxKeeps ==
  ASSUME LinkInv, OtherFrame \/ Noise \/ Silence
  PROVE  LinkInv' /\ UNCHANGED Promise!vars
<1>1. /\ UNCHANGED <<clock, seen, lastBeat, call, field, age, callAge, witnessed, overlapped>>
      /\ idle' = 0 /\ prevOnline' \in BOOLEAN /\ noisy' \in BOOLEAN
  BY DEF OtherFrame, Noise, Silence, Service, IsOnline, LinkInv, TypeOK
<1>2. TypeOK'
  BY <1>1, TimingAssumption DEF LinkInv, TypeOK, call
<1>3. AgeMeasured' /\ CallSound'
  BY <1>1 DEF LinkInv, AgeMeasured, CallSound, call, Calling, Fresh, Elapsed
<1>4. UNCHANGED Promise!vars
  BY <1>1 DEF Promise!vars, call, Calling, Fresh
<1>5. QED
  BY <1>2, <1>3, <1>4 DEF LinkInv

\* A heartbeat keeps the invariant and is a Beat of the promise.
LEMMA HeartbeatKeeps ==
  ASSUME LinkInv, Heartbeat
  PROVE  LinkInv' /\ Promise!Beat
<1>1. /\ UNCHANGED <<clock, call, field, callAge>>
      /\ seen' = TRUE /\ lastBeat' = clock /\ age' = 0 /\ idle' = 0
      /\ prevOnline' \in BOOLEAN /\ noisy' = FALSE
      /\ overlapped' = (overlapped \/ Calling)
  BY DEF Heartbeat, Service, IsOnline
<1>2. Fresh' = TRUE
  BY <1>1, TimingAssumption DEF Fresh
<1>3. witnessed' = IF Calling THEN witnessed \union {TRUE} ELSE witnessed
  BY <1>2 DEF Heartbeat, Witness
<1>4. TypeOK'
  <2>1. witnessed' \subseteq BOOLEAN
    BY <1>3, Zenon DEF LinkInv, TypeOK
  <2>2. overlapped' \in BOOLEAN
    BY <1>1 DEF LinkInv, TypeOK, Calling
  <2>3. lastBeat' \in 0..(Wrap - 1) /\ idle' \in 0..SyncWait /\ age' \in 0..MaxSilence
    BY <1>1, TimingAssumption DEF LinkInv, TypeOK
  <2>4. QED
    BY <1>1, <2>1, <2>2, <2>3, Zenon DEF LinkInv, TypeOK, call
<1>5. AgeMeasured'
  BY <1>1, NoAge DEF LinkInv, TypeOK, AgeMeasured, Elapsed
<1>6. CallSound'
  BY <1>1, <1>2, <1>3 DEF LinkInv, CallSound, call, Calling
<1>7. Promise!Beat
  BY <1>1, <1>2, <1>3 DEF Promise!Beat, Promise!Witness, call, Calling
<1>8. QED
  BY <1>4, <1>5, <1>6, <1>7 DEF LinkInv

\* Time fades the H2 or leaves it as it is.
LEMMA ElapseKeeps ==
  ASSUME LinkInv, Elapse
  PROVE  LinkInv' /\ (Promise!Fade \/ UNCHANGED Promise!vars)
<1>1. /\ UNCHANGED <<seen, lastBeat, prevOnline, noisy, call, field, overlapped>>
      /\ idle' = idle + 1 /\ idle < SyncWait
      /\ callAge' \in 0..MaxCall
  BY TimingAssumption DEF Elapse, LinkInv, TypeOK
<1>2. witnessed' = IF Calling THEN witnessed \union {Fresh'} ELSE witnessed
  BY DEF Elapse, Witness
<1>3. /\ clock' \in 0..(Wrap - 1) /\ age' \in 0..MaxSilence /\ age <= age'
      /\ seen => Elapsed(clock', lastBeat) = age'
  <2>1. CASE age < MaxSilence
    <3>1. clock' = (clock + 1) % Wrap /\ age' = age + 1
      BY <2>1 DEF Elapse
    <3>2. CASE seen
      BY <2>1, <3>1, <3>2, AgeGrows, TimingAssumption DEF LinkInv, TypeOK, AgeMeasured
    <3>3. CASE ~seen
      <4>1. (clock + 1) % Wrap \in 0..(Wrap - 1)
        BY SmallRemainder, FullRemainder, TimingAssumption DEF LinkInv, TypeOK
      <4>2. QED
        BY <2>1, <3>1, <3>3, <4>1, TimingAssumption DEF LinkInv, TypeOK
    <3>4. QED
      BY <3>2, <3>3
  <2>2. CASE ~(age < MaxSilence)
    BY <2>2 DEF Elapse, LinkInv, TypeOK, AgeMeasured
  <2>3. QED
    BY <2>1, <2>2
<1>4. Fresh' => Fresh
  BY <1>1, <1>3, TimingAssumption DEF Fresh, LinkInv, TypeOK
<1>5. TypeOK'
  <2>1. Fresh' \in BOOLEAN
    BY <1>1, <1>3 DEF Fresh, LinkInv, TypeOK
  <2>2. witnessed' \subseteq BOOLEAN
    BY <1>2, <2>1, Zenon DEF LinkInv, TypeOK
  <2>3. QED
    BY <1>1, <1>3, <2>2, TimingAssumption DEF LinkInv, TypeOK, call
<1>6. AgeMeasured'
  BY <1>1, <1>3 DEF AgeMeasured, Elapsed
<1>7. CallSound'
  BY <1>1, <1>2 DEF LinkInv, CallSound, call, Calling, Elapsed
<1>8. Calling' = Calling /\ answer' = answer
  BY <1>1 DEF call, Calling
<1>9. ASSUME Fresh' = Fresh PROVE UNCHANGED Promise!vars
  <2>1. witnessed' = witnessed
    BY <1>2, <1>9 DEF LinkInv, CallSound
  <2>2. QED
    BY <1>1, <1>8, <1>9, <2>1 DEF Promise!vars
<1>10. ASSUME Fresh' # Fresh PROVE Promise!Fade
  <2>1. Fresh = TRUE /\ Fresh' = FALSE
    BY <1>4, <1>10 DEF Fresh, LinkInv, TypeOK
  <2>2. Promise!Witness
    BY <1>2 DEF Promise!Witness
  <2>3. QED
    BY <1>1, <1>8, <2>1, <2>2 DEF Promise!Fade
<1>11. QED
  BY <1>5, <1>6, <1>7, <1>9, <1>10 DEF LinkInv
\* A call begins, and reads its first operand.
LEMMA CallKeeps ==
  ASSUME LinkInv, Call
  PROVE  LinkInv' /\ Promise!Ask
<1>1. /\ UNCHANGED <<clock, line, field, age, answer, callAge, overlapped>>
      /\ pc = "outside" /\ pc' = "called" /\ operand' = 0 /\ witnessed' = {Fresh}
  BY DEF Call, CallState
<1>2. Fresh' = Fresh /\ ~Calling /\ Calling'
  BY <1>1 DEF Fresh, line, Calling
<1>3. overlapped = FALSE /\ overlapped' = FALSE
  BY <1>1, <1>2 DEF LinkInv, CallSound
<1>4. TypeOK'
  <2>1. operand' \in 0..(Wrap - 1) /\ witnessed' \subseteq BOOLEAN
    BY <1>1, TimingAssumption DEF Fresh, LinkInv, TypeOK
  <2>2. QED
    BY <1>1, <2>1, Zenon DEF LinkInv, TypeOK, line
<1>5. AgeMeasured'
  BY <1>1 DEF LinkInv, AgeMeasured, Elapsed, line
<1>6. CallSound'
  BY <1>1, <1>2 DEF CallSound
<1>7. Promise!Ask
  BY <1>1, <1>2, <1>3, Zenon DEF Promise!Ask
<1>8. QED
  BY <1>4, <1>5, <1>6, <1>7 DEF LinkInv

\* The reads inside is_h2_online keep the invariant and change nothing of the
\* promise.
LEMMA ReadKeeps ==
  ASSUME LinkInv, ReadClock \/ ReadStamp
  PROVE  LinkInv' /\ UNCHANGED Promise!vars
<1>1. /\ UNCHANGED <<clock, line, field, age, answer, callAge, witnessed, overlapped>>
      /\ pc = "called" /\ pc' \in {"has_clock", "has_stamp"} /\ seen
      /\ operand' = IF pc' = "has_clock" THEN clock ELSE lastBeat
  BY DEF ReadClock, ReadStamp, CallState
<1>2. Fresh' = Fresh /\ Calling /\ Calling'
  BY <1>1 DEF Fresh, line, Calling
<1>3. TypeOK'
  <2>1. operand' \in 0..(Wrap - 1)
    BY <1>1 DEF LinkInv, TypeOK
  <2>2. pc' \in {"outside", "called", "has_clock", "has_stamp"}
    BY <1>1
  <2>3. QED
    BY <1>1, <2>1, <2>2, Zenon DEF LinkInv, TypeOK, line
<1>4. AgeMeasured'
  BY <1>1 DEF LinkInv, AgeMeasured, Elapsed, line
<1>5. Fresh \in witnessed
  BY <1>2 DEF LinkInv, CallSound
<1>6. pc' = "has_clock" => (Elapsed(operand', lastBeat') < Timeout) \in witnessed'
  <2> SUFFICES ASSUME pc' = "has_clock"
               PROVE  (Elapsed(operand', lastBeat') < Timeout) \in witnessed'
    OBVIOUS
  <2>1. Elapsed(operand', lastBeat') = age
    BY <1>1 DEF LinkInv, AgeMeasured, line, Elapsed
  <2>2. (Elapsed(operand', lastBeat') < Timeout) = Fresh
    BY <1>1, <2>1 DEF Fresh
  <2>3. QED
    BY <1>1, <1>5, <2>2
<1>7. CallSound'
  BY <1>1, <1>2, <1>5, <1>6 DEF CallSound, line
<1>8. UNCHANGED Promise!vars
  BY <1>1, <1>2 DEF Promise!vars
<1>9. QED
  BY <1>3, <1>4, <1>7, <1>8 DEF LinkInv

\* The value returned is one the promise allows.
LEMMA ReturnKeeps ==
  ASSUME LinkInv, NeverSeen \/ SubtractStamp \/ SubtractFromClock
  PROVE  LinkInv' /\ Promise!Answer
<1>1. /\ UNCHANGED <<clock, line, field, age>>
      /\ pc' = "outside" /\ operand' = 0 /\ callAge' = 0
      /\ witnessed' = {} /\ overlapped' = FALSE
  BY DEF NeverSeen, SubtractStamp, SubtractFromClock, Return, CallState
<1>2. Fresh' = Fresh /\ Calling /\ ~Calling'
  BY <1>1 DEF Fresh, line, Calling, NeverSeen, SubtractStamp, SubtractFromClock
<1>3. Fresh \in witnessed
  BY <1>2 DEF LinkInv, CallSound
<1>4. \/ answer' \in witnessed
      \/ overlapped /\ TRUE \in witnessed /\ answer' \in BOOLEAN
  <2>1. CASE NeverSeen
    <3>1. answer' = FALSE /\ Fresh = FALSE
      BY <2>1 DEF NeverSeen, Return, Fresh
    <3>2. QED
      BY <1>3, <3>1
  <2>2. CASE SubtractStamp
    <3>1. pc = "has_clock" /\ answer' = (Elapsed(operand, lastBeat) < Timeout)
      BY <2>2 DEF SubtractStamp, Return
    <3>2. answer' \in BOOLEAN
      BY <3>1
    <3>3. CASE overlapped /\ TRUE \in witnessed
      BY <3>2, <3>3, Zenon
    <3>4. CASE (Elapsed(operand, lastBeat) < Timeout) \in witnessed
      BY <3>1, <3>4, Zenon
    <3>5. QED
      BY <3>1, <3>3, <3>4 DEF LinkInv, CallSound
  <2>3. CASE SubtractFromClock
    <3>1. pc = "has_stamp" /\ answer' = (Elapsed(clock, operand) < Timeout) /\ seen
      BY <2>3 DEF SubtractFromClock, Return, LinkInv, CallSound
    <3>2. CASE overlapped /\ TRUE \in witnessed
      <4>1. answer' \in BOOLEAN
        BY <3>1
      <4>2. QED
        BY <3>2, <4>1, Zenon
    <3>3. CASE operand = lastBeat
      <4>1. answer' = (age < Timeout)
        BY <3>1, <3>3 DEF LinkInv, AgeMeasured
      <4>2. answer' = Fresh
        BY <3>1, <4>1 DEF Fresh
      <4>3. QED
        BY <1>3, <4>2
    <3>4. QED
      BY <3>1, <3>2, <3>3 DEF LinkInv, CallSound
  <2>4. QED
    BY <2>1, <2>2, <2>3
<1>5. witnessed \subseteq BOOLEAN
  BY DEF LinkInv, TypeOK
<1>6. answer' \in BOOLEAN
  BY <1>4, <1>5
<1>7. TypeOK'
  <2>1. operand' \in 0..(Wrap - 1) /\ callAge' \in 0..MaxCall
    BY <1>1, TimingAssumption
  <2>2. QED
    BY <1>1, <1>6, <2>1, Zenon DEF LinkInv, TypeOK, line
<1>8. AgeMeasured' /\ CallSound'
  BY <1>1, <1>2 DEF LinkInv, AgeMeasured, CallSound, Elapsed, line
<1>9. Promise!Answer
  <2>0. Calling' = FALSE
    BY <1>1 DEF Calling
  <2>1. CASE answer' \in witnessed
    BY <1>1, <1>2, <2>0, <2>1, Zenon DEF Promise!Answer
  <2>2. CASE overlapped /\ TRUE \in witnessed /\ answer' \in BOOLEAN
    <3>1. answer' \in witnessed \/ answer' = FALSE
      BY <2>2, Zenon
    <3>2. answer' \in witnessed \union (IF overlapped THEN {FALSE} ELSE {})
      BY <2>2, <3>1, Zenon
    <3>3. QED
      BY <1>1, <1>2, <2>0, <3>2, Zenon DEF Promise!Answer
  <2>3. QED
    BY <1>4, <2>1, <2>2
<1>10. QED
  BY <1>7, <1>8, <1>9 DEF LinkInv

\* So does a worsening line.
LEMMA WorsenKeeps ==
  ASSUME LinkInv, Worsen
  PROVE  LinkInv' /\ UNCHANGED Promise!vars
<1>1. /\ UNCHANGED <<clock, line, call, age, callAge, witnessed, overlapped>>
      /\ field' \in {"alive", "dead", "quiet"}
  BY DEF Worsen
<1>2. TypeOK'
  BY <1>1, Zenon DEF LinkInv, TypeOK, line, call
<1>3. AgeMeasured' /\ CallSound'
  BY <1>1 DEF LinkInv, AgeMeasured, CallSound, line, call, Calling, Fresh, Elapsed
<1>4. UNCHANGED Promise!vars
  BY <1>1 DEF Promise!vars, line, call, Calling, Fresh
<1>5. QED
  BY <1>2, <1>3, <1>4 DEF LinkInv

-----------------------------------------------------------------------------
\* Every step keeps the invariant and is a step of the promise or none of its
\* business.
LEMMA LinkStep == LinkInv /\ [Next]_vars => LinkInv' /\ [Promise!Next]_Promise!vars
<1> SUFFICES ASSUME LinkInv, [Next]_vars
             PROVE  LinkInv' /\ [Promise!Next]_Promise!vars
  OBVIOUS
<1>1. CASE OtherFrame \/ Noise \/ Silence
  BY <1>1, RxKeeps
<1>2. CASE Heartbeat
  BY <1>2, HeartbeatKeeps DEF Promise!Next
<1>3. CASE Call
  BY <1>3, CallKeeps DEF Promise!Next
<1>4. CASE ReadClock \/ ReadStamp
  BY <1>4, ReadKeeps
<1>5. CASE NeverSeen \/ SubtractStamp \/ SubtractFromClock
  BY <1>5, ReturnKeeps DEF Promise!Next
<1>6. CASE Elapse
  BY <1>6, ElapseKeeps DEF Promise!Next
<1>7. CASE Worsen
  BY <1>7, WorsenKeeps
<1>8. CASE UNCHANGED vars
  <2>1. LinkInv'
    BY <1>8 DEF vars, line, call, LinkInv, TypeOK, AgeMeasured, CallSound, Calling,
                Fresh, Elapsed
  <2>2. UNCHANGED Promise!vars
    BY <1>8 DEF vars, line, call, Promise!vars, Calling, Fresh
  <2>3. QED
    BY <2>1, <2>2
<1>9. QED
  BY <1>1, <1>2, <1>3, <1>4, <1>5, <1>6, <1>7, <1>8 DEF Next, Control

\* The types hold for every width of the counter and every bound.
THEOREM LinkTypeCorrect == Spec => []TypeOK
<1>1. LinkInv => TypeOK
  BY DEF LinkInv
<1>2. QED
  BY <1>1, LinkInvInit, LinkStep, PTL DEF Spec

\* zigbee_bridge_is_h2_online, read without a lock and in either order, keeps
\* its promise to the control task: the detailed system implements H2Presence.
THEOREM LinkKeepsPromise == Spec => KeepsPromise
<1>1. Init => Promise!Init
  BY DEF Init, Promise!Init, Fresh, Calling
<1>2. QED
  BY <1>1, LinkInvInit, LinkStep, PTL DEF Spec, KeepsPromise, Promise!Spec

-----------------------------------------------------------------------------
(* The RX task's own view.  Between two services the H2 can only have aged  *)
(* by the time the task has been waiting: LossDue bounds the lateness by    *)
(* the wait in progress, and no wait outlasts SyncWait.                     *)

LossDue == prevOnline /\ ~noisy => age < Timeout + idle

\* A service finds out exactly whether the H2 is fresh.
LEMMA ServiceTellsTruth ==
  ASSUME LinkInv, OtherFrame \/ Silence
  PROVE  prevOnline' = Fresh /\ UNCHANGED <<seen, age>>
<1>1. prevOnline' = (seen /\ Elapsed(clock, lastBeat) < Timeout) /\ UNCHANGED <<seen, age>>
  BY DEF OtherFrame, Silence, Service, IsOnline
<1>2. CASE seen
  <2>1. Elapsed(clock, lastBeat) = age
    BY <1>2 DEF LinkInv, AgeMeasured
  <2>2. QED
    BY <1>1, <1>2, <2>1 DEF Fresh
<1>3. CASE ~seen
  BY <1>1, <1>3 DEF Fresh
<1>4. QED
  BY <1>2, <1>3 DEF LinkInv, TypeOK

\* Every step keeps the loss due in time.
LEMMA LossDueKept ==
  ASSUME LinkInv, LossDue, [Next]_vars
  PROVE  LossDue'
<1>1. CASE Heartbeat
  BY <1>1, TimingAssumption DEF Heartbeat, LossDue
<1>2. CASE OtherFrame \/ Silence
  <2>1. idle' = 0 /\ age' = age
    BY <1>2 DEF OtherFrame, Silence
  <2>2. prevOnline' => age < Timeout
    BY <1>2, ServiceTellsTruth DEF Fresh
  <2>3. QED
    BY <2>1, <2>2, TimingAssumption DEF LossDue
<1>3. CASE Noise
  BY <1>3 DEF Noise, LossDue
<1>4. CASE Elapse
  <2>1. UNCHANGED <<prevOnline, noisy>> /\ idle' = idle + 1 /\ age' \in {age, age + 1}
    BY <1>4 DEF Elapse
  <2>2. QED
    BY <2>1, TimingAssumption DEF LossDue, LinkInv, TypeOK
<1>5. CASE Control \/ Worsen \/ UNCHANGED vars
  <2>1. UNCHANGED <<line, age>>
    BY <1>5 DEF Control, Call, NeverSeen, ReadClock, ReadStamp, SubtractStamp,
                SubtractFromClock, Return, CallState, Worsen, vars
  <2>2. QED
    BY <2>1 DEF LossDue, line
<1>6. QED
  BY <1>1, <1>2, <1>3, <1>4, <1>5 DEF Next

\* For every timeout, sync wait and counter width: a loss of the H2 is logged
\* at the latest one sync wait after it happened.
THEOREM LossIsLoggedInTime == Spec => []LossLoggedInTime
<1>1. Init => LossDue
  BY DEF Init, LossDue
<1>2. LinkInv /\ LossDue => LossLoggedInTime
  BY TimingAssumption DEF LinkInv, TypeOK, LossDue, LossLoggedInTime
<1>3. LinkInv /\ LossDue /\ [Next]_vars => LinkInv' /\ LossDue'
  BY LinkStep, LossDueKept
<1>4. QED
  BY <1>1, <1>2, <1>3, LinkInvInit, PTL DEF Spec

\* The RX task never logs the loss of an H2 that is fresh, wrap-around or not.
THEOREM NoLossLoggedEarly == Spec => LoggedLossIsReal
<1>1. LinkInv /\ [Next]_vars => [prevOnline /\ ~prevOnline' => ~Fresh]_vars
  <2> SUFFICES ASSUME LinkInv, Next, prevOnline, ~prevOnline'
               PROVE  ~Fresh
    BY Zenon
  <2>1. CASE Heartbeat
    <3>1. prevOnline' = (TRUE /\ Elapsed(clock, clock) < Timeout)
      BY <2>1 DEF Heartbeat, Service, IsOnline
    <3>2. Elapsed(clock, clock) = 0
      BY NoAge DEF LinkInv, TypeOK
    <3>3. (TRUE /\ Elapsed(clock, clock) < Timeout) = TRUE
      BY <3>2, TimingAssumption
    <3>4. prevOnline' = TRUE
      BY <3>1, <3>3, Zenon
    <3>5. QED
      BY <3>4
  <2>2. CASE OtherFrame \/ Silence
    BY <2>2, ServiceTellsTruth
  <2>3. CASE Noise \/ Elapse \/ Control \/ Worsen
    <3>1. prevOnline' = prevOnline
      BY <2>3 DEF Noise, Elapse, Control, Call, NeverSeen, ReadClock, ReadStamp,
                  SubtractStamp, SubtractFromClock, Return, CallState, Worsen, line
    <3>2. QED
      BY <3>1
  <2>4. QED
    BY <2>1, <2>2, <2>3 DEF Next
<1>2. QED
  BY <1>1, LinkInvInit, LinkStep, PTL DEF Spec, LoggedLossIsReal
=============================================================================
