---------------------------- MODULE HalNvsProofs ----------------------------
(***************************************************************************)
(* HalNvs for any keys and values.  The safety properties hold separately *)
(* of each other; the one fact they need besides is that only a running    *)
(* store is inside do_commit_locked.                                       *)
(***************************************************************************)
EXTENDS HalNvs, TLAPS

\* Only a running store is inside do_commit_locked.
OnlyRunningCommits == phase # "up" => pc = "free"

NvsInv ==
  /\ TypeOK /\ ChangeHasCommitComing /\ CleanIsDurable
  /\ NeverOlderThanCommit /\ OnlyRunningCommits

-----------------------------------------------------------------------------

\* The store starts empty and clean.
LEMMA NvsInvInit == Init => NvsInv
<1> SUFFICES ASSUME Init PROVE NvsInv
  OBVIOUS
<1>1. TypeOK /\ NeverOlderThanCommit
  BY DEF Init, TypeOK, NeverOlderThanCommit, Empty, Entry
<1>2. ChangeHasCommitComing /\ CleanIsDurable /\ OnlyRunningCommits
  BY DEF Init, ChangeHasCommitComing, CleanIsDurable, OnlyRunningCommits
<1> QED
  BY <1>1, <1>2 DEF NvsInv

\* hal_nvs_init, in all its outcomes.
LEMMA BootsPreserve ==
  ASSUME NvsInv, Boot \/ Recover \/ BootFails
  PROVE  NvsInv'
<1> USE DEF NvsInv, entries, timer, history
<1>1. CASE Boot
  <2>1. TypeOK'
    BY <1>1 DEF Boot, TypeOK
  <2>2. ChangeHasCommitComing' /\ CleanIsDurable' /\ NeverOlderThanCommit' /\ OnlyRunningCommits'
    BY <1>1 DEF Boot, TypeOK, ChangeHasCommitComing, CleanIsDurable,
                NeverOlderThanCommit, OnlyRunningCommits
  <2> QED
    BY <2>1, <2>2
<1>2. CASE (Recover \/ BootFails) /\ Erased
  <2>1. /\ phase' \in {"up", "halted"} /\ phase = "off"
        /\ UNCHANGED <<dirty, armed, waiting, pc, calm>>
    BY <1>2 DEF Recover, BootFails
  <2>2. TypeOK'
    BY <1>2, <2>1 DEF Erased, TypeOK, Empty, Entry
  <2>3. ChangeHasCommitComing' /\ CleanIsDurable' /\ NeverOlderThanCommit'
    BY <1>2, <2>1 DEF Erased, TypeOK, ChangeHasCommitComing, CleanIsDurable,
                NeverOlderThanCommit, Empty
  <2>4. OnlyRunningCommits'
    BY <2>1 DEF OnlyRunningCommits
  <2> QED
    BY <2>2, <2>3, <2>4
<1>3. CASE BootFails /\ UNCHANGED <<entries, writeCount, history>>
  <2>1. /\ phase' = "halted" /\ phase = "off"
        /\ UNCHANGED <<cached, flash, writeCount, dirty, armed,
                       waiting, pc, failed, commits, since, calm>>
    BY <1>3 DEF BootFails
  <2>2. TypeOK'
    BY <2>1 DEF TypeOK
  <2>3. ChangeHasCommitComing' /\ CleanIsDurable' /\ NeverOlderThanCommit'
    BY <2>1 DEF ChangeHasCommitComing, CleanIsDurable, NeverOlderThanCommit
  <2>4. OnlyRunningCommits'
    BY <2>1 DEF OnlyRunningCommits
  <2> QED
    BY <2>2, <2>3, <2>4
<1> QED
  BY <1>1, <1>2, <1>3 DEF Recover, BootFails

\* One entry stored or erased: dirty, with the timer running.
LEMMA WritesPreserve ==
  ASSUME NvsInv, NEW k \in Key, NEW entry \in Entry,
         Writable, Store(k, entry), MarkDirty
  PROVE  NvsInv'
<1> USE DEF NvsInv, entries, Store, MarkDirty
<1>1. TypeOK'
  BY DEF TypeOK
<1>2. ChangeHasCommitComing' /\ CleanIsDurable' /\ OnlyRunningCommits'
  BY DEF TypeOK, ChangeHasCommitComing, CleanIsDurable, OnlyRunningCommits
<1>3. NeverOlderThanCommit'
  BY DEF TypeOK, NeverOlderThanCommit
<1> QED
  BY <1>1, <1>2, <1>3

\* The timer, its callback, the flush and the two halves of a commit.
LEMMA CommitsPreserve ==
  ASSUME NvsInv, Expire \/ Callback \/ Flush \/ Count \/ Commit
  PROVE  NvsInv'
<1> USE DEF NvsInv, entries, timer, history, EnterCommit, Owned
<1>1. CASE Expire \/ Callback \/ Flush
  <2>1. TypeOK'
    BY <1>1 DEF Expire, Callback, Flush, TypeOK
  <2>2. ChangeHasCommitComing' /\ CleanIsDurable' /\ NeverOlderThanCommit' /\ OnlyRunningCommits'
    BY <1>1 DEF Expire, Callback, Flush, TypeOK, ChangeHasCommitComing,
                CleanIsDurable, NeverOlderThanCommit, OnlyRunningCommits
  <2> QED
    BY <2>1, <2>2
<1>2. CASE Count
  <2>1. TypeOK'
    BY <1>2 DEF Count, TypeOK
  <2>2. ChangeHasCommitComing' /\ CleanIsDurable' /\ NeverOlderThanCommit'
    BY <1>2 DEF Count, ChangeHasCommitComing, CleanIsDurable, NeverOlderThanCommit
  <2>3. OnlyRunningCommits'
    BY <1>2 DEF Count, TypeOK, OnlyRunningCommits
  <2> QED
    BY <2>1, <2>2, <2>3
<1>3. CASE Commit
  <2>1. TypeOK'
    <3>1. flash' \in [Key -> Entry] /\ commits' \in Nat
      BY <1>3 DEF Commit, TypeOK
    <3>2. failed' \in BOOLEAN
      BY <1>3 DEF Commit
    <3>3. since' \in [Key -> SUBSET Entry]
      BY <1>3 DEF Commit, TypeOK
    <3> QED
      BY <1>3, <3>1, <3>2, <3>3 DEF Commit, TypeOK
  <2>2. ChangeHasCommitComing' /\ CleanIsDurable'
    BY <1>3 DEF Commit, ChangeHasCommitComing, CleanIsDurable
  <2>3. NeverOlderThanCommit'
    BY <1>3 DEF Commit, NeverOlderThanCommit
  <2>4. OnlyRunningCommits'
    BY <1>3 DEF Commit, TypeOK, OnlyRunningCommits
  <2> QED
    BY <2>1, <2>2, <2>3, <2>4
<1> QED
  BY <1>1, <1>2, <1>3

\* An early write of one entry.
LEMMA WriteBackPreserves ==
  ASSUME NvsInv, WriteBack
  PROVE  NvsInv'
<1> USE DEF NvsInv, entries, timer, history, WriteBack
<1>1. TypeOK'
  BY DEF TypeOK
<1>2. ChangeHasCommitComing' /\ OnlyRunningCommits'
  BY DEF TypeOK, ChangeHasCommitComing, OnlyRunningCommits
<1>3. CleanIsDurable'
  BY DEF TypeOK, CleanIsDurable
<1>4. NeverOlderThanCommit'
  BY DEF TypeOK, NeverOlderThanCommit
<1> QED
  BY <1>1, <1>2, <1>3, <1>4

\* Every step keeps the invariant.
LEMMA NvsInvNext == NvsInv /\ [Next]_vars => NvsInv'
<1> SUFFICES ASSUME NvsInv, [Next]_vars PROVE NvsInv'
  OBVIOUS
<1>1. CASE Boot \/ Recover \/ BootFails
  BY <1>1, BootsPreserve
<1>2. ASSUME NEW k \in Key, Erase(k) \/ \E v \in Value : Set(k, v) PROVE NvsInv'
  <2>1. PICK entry \in Entry : Writable /\ Store(k, entry) /\ MarkDirty
    BY <1>2 DEF Erase, Set, Entry
  <2> QED
    BY <2>1, WritesPreserve
<1>3. CASE Expire \/ Callback \/ Flush \/ Count \/ Commit
  BY <1>3, CommitsPreserve
<1>4. CASE WriteBack
  BY <1>4, WriteBackPreserves
<1>5. CASE Reset
  <2>1. TypeOK'
    BY <1>5 DEF Reset, NvsInv, TypeOK
  <2>2. ChangeHasCommitComing' /\ CleanIsDurable' /\ NeverOlderThanCommit' /\ OnlyRunningCommits'
    BY <1>5 DEF Reset, NvsInv, ChangeHasCommitComing, CleanIsDurable,
                NeverOlderThanCommit, OnlyRunningCommits
  <2> QED
    BY <2>1, <2>2 DEF NvsInv
<1>6. CASE CalmDown \/ Idle \/ UNCHANGED vars
  <2>1. /\ UNCHANGED <<phase, cached, flash, writeCount, dirty>>
        /\ UNCHANGED <<armed, waiting, pc, failed, commits, since>>
        /\ calm' \in BOOLEAN
    BY <1>6 DEF CalmDown, Idle, NvsInv, TypeOK, vars, entries, timer, history
  <2>2. TypeOK'
    BY <2>1 DEF NvsInv, TypeOK
  <2>3. ChangeHasCommitComing' /\ CleanIsDurable' /\ NeverOlderThanCommit' /\ OnlyRunningCommits'
    BY <2>1 DEF NvsInv, ChangeHasCommitComing, CleanIsDurable, NeverOlderThanCommit,
                OnlyRunningCommits
  <2> QED
    BY <2>2, <2>3 DEF NvsInv
<1> QED
  BY <1>1, <1>2, <1>3, <1>4, <1>5, <1>6 DEF Next, Work

\* It holds in every reachable state.
LEMMA NvsInvariant == Spec => []NvsInv
<1> QED
  BY NvsInvInit, NvsInvNext, PTL DEF Spec

-----------------------------------------------------------------------------
\* Every variable keeps its type.
THEOREM NvsTypeCorrect == Spec => []TypeOK
<1>1. NvsInv => TypeOK
  BY DEF NvsInv
<1> QED
  BY <1>1, NvsInvariant, PTL

\* No order of writes, flushes, expiries, callbacks, failed commits and resets
\* leaves an uncommitted change without a commit to come (mark_dirty_locked,
\* hal_nvs_flush, commit_timer_cb).
THEOREM NoChangeForgotten == Spec => []ChangeHasCommitComing
<1>1. NvsInv => ChangeHasCommitComing
  BY DEF NvsInv
<1> QED
  BY <1>1, NvsInvariant, PTL

\* A store without pending changes whose last commit succeeded is durable
\* (do_commit_locked).
THEOREM CleanStoreIsDurable == Spec => []CleanIsDurable
<1>1. NvsInv => CleanIsDurable
  BY DEF NvsInv
<1> QED
  BY <1>1, NvsInvariant, PTL

\* Only a factory reset takes an entry behind its last commit (hal_nvs_init).
THEOREM CommitsSurviveResets == Spec => []NeverOlderThanCommit
<1>1. NvsInv => NeverOlderThanCommit
  BY DEF NvsInv
<1> QED
  BY <1>1, NvsInvariant, PTL
=============================================================================
