-------------------------------- MODULE HalNvs --------------------------------
(***************************************************************************)
(* firmware-c6/components/bsp/hal_nvs.c: the key-value store of the C6,    *)
(* with its deferred commit, its commit counter and its recovery at boot.  *)
(*                                                                         *)
(* A write changes the cache of the NVS library at once and is committed   *)
(* by the callback of a one-shot timer or by hal_nvs_flush, whichever      *)
(* comes first.  Callers and the callback hold s_mutex; a callback whose   *)
(* timer has expired waits for it, so anything can happen in between.      *)
(* What the library itself does (nvs_set_*, nvs_commit, its own writes to  *)
(* flash, loss of its cache on reset) is external: an uncommitted entry    *)
(* may or may not be in flash when the power fails, each key by itself.    *)
(* So is its limit of 15 characters for a key.  HAL_NVS_WRITE_COUNT_KEY    *)
(* has 16: nvs_set_u32 and nvs_get_u32 return an error for the counter,    *)
(* which the code ignores in the first case and takes for 0 in the second. *)
(*                                                                         *)
(* The coalescing window is not timed: the timer can expire at any moment  *)
(* while it is armed.                                                      *)
(***************************************************************************)
EXTENDS Integers

CONSTANTS
  Key,        \* keys of the namespace
  Value,      \* strings and blobs
  Absent,     \* no entry
  MaxCommits  \* bound: no write after that many commits

ASSUME StoreAssumption == Absent \notin Value /\ MaxCommits \in Nat

VARIABLES
  phase,       \* "off": reset, "up": s_inited, "halted": enter_fault
  cached,      \* the entries as nvs_get_* returns them
  flash,       \* the entries that survive a reset
  dirty,       \* s_dirty
  writeCount,  \* s_write_count: lives in RAM only
  armed,       \* s_commit_timer is running
  waiting,     \* an expired timer's callback wants s_mutex
  pc,          \* inside do_commit_locked, or s_mutex is "free"
  failed,      \* history: the latest commit returned an error
  commits,     \* history: commits that reached flash since the store was empty
  since,       \* history: values of each entry since the last of those
  calm         \* environment: no write, error or reset happens any more

entries == <<cached, flash>>
timer == <<armed, waiting>>
history == <<failed, commits, since>>
vars == <<phase, entries, writeCount, dirty, timer, pc, history, calm>>

Entry == Value \union {Absent}
Empty == [k \in Key |-> Absent]

TypeOK ==
  /\ phase \in {"off", "up", "halted"}
  /\ cached \in [Key -> Entry] /\ flash \in [Key -> Entry]
  /\ writeCount \in Nat
  /\ dirty \in BOOLEAN /\ armed \in BOOLEAN /\ waiting \in BOOLEAN
  /\ pc \in {"free", "count", "commit"}
  /\ failed \in BOOLEAN
  /\ commits \in Nat
  /\ since \in [Key -> SUBSET Entry]
  /\ calm \in BOOLEAN

\* A blank partition before its first boot.
Init ==
  /\ phase = "off"
  /\ cached = Empty /\ flash = Empty
  /\ writeCount = 0
  /\ dirty = FALSE /\ armed = FALSE /\ waiting = FALSE
  /\ pc = "free"
  /\ failed = FALSE
  /\ commits = 0
  /\ since = [k \in Key |-> {Absent}]
  /\ calm = FALSE

-----------------------------------------------------------------------------
(* hal_nvs_init.                                                           *)

\* A factory reset on every boot.
BootErasing ==
  /\ phase = "off"
  /\ phase' = "up"
  /\ cached' = Empty /\ flash' = Empty
  /\ writeCount' = 0
  /\ UNCHANGED <<dirty, timer, pc, history, calm>>

\* The partition is good.  The counter is set to what its entry holds, or to 0
\* when it cannot be read, which is always.
Boot ==
  /\ phase = "off"
  /\ phase' = "up"
  /\ cached' = flash
  /\ writeCount' = 0
  /\ UNCHANGED <<flash, dirty, timer, pc, history, calm>>

\* The counter left as the stack had it when its entry cannot be read.
ErasedUncleared ==
  /\ cached' = Empty /\ flash' = Empty
  /\ writeCount' = -1
  /\ commits' = 0
  /\ since' = [k \in Key |-> {Absent}]
  /\ UNCHANGED failed

\* nvs_flash_erase: no free pages, or another version.
Erased ==
  /\ cached' = Empty /\ flash' = Empty
  /\ writeCount' = 0
  /\ commits' = 0
  /\ since' = [k \in Key |-> {Absent}]
  /\ UNCHANGED failed

\* The erase worked, and so does the partition then.
Recover ==
  /\ phase = "off" /\ ~calm
  /\ phase' = "up"
  /\ Erased
  /\ UNCHANGED <<dirty, timer, pc, calm>>

\* Any other error, before the erase or after it: app_main halts.
BootFails ==
  /\ phase = "off" /\ ~calm
  /\ phase' = "halted"
  /\ Erased \/ UNCHANGED <<entries, writeCount, history>>
  /\ UNCHANGED <<dirty, timer, pc, calm>>

-----------------------------------------------------------------------------
(* hal_nvs_set_str, hal_nvs_set_blob, hal_nvs_erase.                       *)

Owned == phase = "up" /\ pc = "free"

\* The running timer stopped and not started again.
MarkDirtyUnarmed == dirty' = TRUE /\ armed' = FALSE

\* mark_dirty_locked: the timer starts over.  A callback that is waiting stays.
MarkDirty == dirty' = TRUE /\ armed' = TRUE

\* Entry k changed in the library's cache.
Store(k, entry) ==
  /\ cached' = [cached EXCEPT ![k] = entry]
  /\ since' = [since EXCEPT ![k] = @ \union {entry}]
  /\ UNCHANGED <<phase, flash, writeCount, waiting, pc, failed, commits, calm>>

Writable == Owned /\ ~calm /\ writeCount < MaxCommits /\ commits < MaxCommits

Set(k, v) ==
  /\ Writable
  /\ Store(k, v)
  /\ MarkDirty

\* The store left clean by an erase.
EraseUnmarked(k) ==
  /\ Writable
  /\ cached[k] # Absent
  /\ Store(k, Absent)
  /\ UNCHANGED <<dirty, armed>>

\* ESP_ERR_NOT_FOUND when there is no such entry.
Erase(k) ==
  /\ Writable
  /\ cached[k] # Absent
  /\ Store(k, Absent)
  /\ MarkDirty

-----------------------------------------------------------------------------
(* Commits.                                                                *)

\* esp_timer: the one-shot timer expires, its callback is called.
Expire ==
  /\ phase = "up"
  /\ armed /\ ~waiting
  /\ armed' = FALSE
  /\ waiting' = TRUE
  /\ UNCHANGED <<phase, entries, writeCount, dirty, pc, history, calm>>

\* do_commit_locked is entered, and left at once when nothing is dirty.
EnterCommit == pc' = IF dirty THEN "count" ELSE "free"

\* commit_timer_cb gets the mutex.
Callback ==
  /\ Owned
  /\ waiting
  /\ waiting' = FALSE
  /\ EnterCommit
  /\ UNCHANGED <<phase, entries, writeCount, dirty, armed, history, calm>>

\* hal_nvs_flush.
Flush ==
  /\ Owned
  /\ armed' = FALSE
  /\ EnterCommit
  /\ UNCHANGED <<phase, entries, writeCount, dirty, waiting, history, calm>>

\* s_write_count++.  nvs_set_u32 refuses the key.
Count ==
  /\ phase = "up" /\ pc = "count"
  /\ writeCount' = writeCount + 1
  /\ pc' = "commit"
  /\ UNCHANGED <<phase, entries, dirty, timer, history, calm>>

\* nvs_commit, whose result is not looked at either; dirty is over in any case.
Commit ==
  /\ phase = "up" /\ pc = "commit"
  /\ \/ /\ flash' = cached
        /\ failed' = FALSE
        /\ commits' = commits + 1
        /\ since' = [k \in Key |-> {cached[k]}]
     \/ /\ ~calm
        /\ failed' = TRUE
        /\ UNCHANGED <<flash, commits, since>>
  /\ dirty' = FALSE
  /\ pc' = "free"
  /\ UNCHANGED <<phase, cached, writeCount, timer, calm>>

-----------------------------------------------------------------------------
(* The environment.                                                        *)

\* The library may write an entry to flash before it is told to commit.
WriteBack ==
  /\ phase = "up" /\ ~calm
  /\ \E k \in Key : flash' = [flash EXCEPT ![k] = cached[k]]
  /\ UNCHANGED <<phase, cached, writeCount, dirty, timer, pc, history, calm>>

\* Power cycle or watchdog reset.
Reset ==
  /\ phase # "off" /\ ~calm
  /\ phase' = "off"
  /\ cached' = flash
  /\ writeCount' = 0
  /\ dirty' = FALSE /\ armed' = FALSE /\ waiting' = FALSE
  /\ pc' = "free"
  /\ failed' = FALSE
  /\ UNCHANGED <<flash, commits, since, calm>>

\* From here on nothing is written, nothing fails and the power stays on.
CalmDown ==
  /\ ~calm
  /\ calm' = TRUE
  /\ UNCHANGED <<phase, entries, writeCount, dirty, timer, pc, history>>

\* enter_fault, and an idle store.
Idle == calm /\ (phase = "halted" \/ (Owned /\ ~armed /\ ~waiting)) /\ UNCHANGED vars

Work == Boot \/ Expire \/ Callback \/ Count \/ Commit

Next ==
  \/ Work \/ Recover \/ BootFails
  \/ \E k \in Key : Erase(k) \/ \E v \in Value : Set(k, v)
  \/ Flush \/ WriteBack \/ Reset \/ CalmDown \/ Idle

\* esp_timer runs its timers and their callbacks, and a commit ends.
Fairness == WF_vars(Work)

Spec == Init /\ [][Next]_vars
FairSpec == Spec /\ Fairness

-----------------------------------------------------------------------------
\* An uncommitted change always has a commit coming: the timer runs, its
\* callback waits, or a commit is under way.  Whatever the order of writes,
\* flushes, expiries and callbacks.
ChangeHasCommitComing == dirty => armed \/ waiting \/ pc # "free"

\* Once nothing is dirty, flash holds what reads return, unless the commit
\* failed (its result is dropped and the change no longer counts as pending).
CleanIsDurable == phase = "up" /\ ~dirty /\ ~failed => flash = cached

\* Without a factory reset, no entry falls back behind the last commit, and
\* none ever has a value that nobody stored.
NeverOlderThanCommit == \A k \in Key : flash[k] \in since[k] /\ cached[k] \in since[k]

\* hal_nvs_get_write_count: "Persisted across reboots under the reserved key
\* \"__hal_nvs_writes\"; reset to 0 by corruption recovery."  A running store has
\* counted at least the commits made since its partition was last empty.
CounterCoversCommits == phase = "up" => writeCount >= commits

\* When writes, errors and resets end, a pending change becomes durable.
ChangeReachesFlash == calm /\ dirty ~> ~dirty /\ flash = cached
=============================================================================
