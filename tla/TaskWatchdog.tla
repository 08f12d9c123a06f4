----------------------------- MODULE TaskWatchdog -----------------------------
(***************************************************************************)
(* The task watchdog of ESP-IDF as firmware-c6/components/bsp/hal_wdt.c    *)
(* configures and uses it.                                                 *)
(*                                                                         *)
(* There is one timer for all subscribers, and the library restarts it     *)
(* only when each of them has reset since it last did.  So the timeout     *)
(* does not count from a task's own last reset: a task that resets first   *)
(* may be silent for the rest of that round and the whole next one.        *)
(***************************************************************************)
EXTENDS Integers

CONSTANT Timeout  \* TASK_WDT_TIMEOUT_S in control periods

VARIABLES
  subscribed,  \* tasks the watchdog waits for
  checked,     \* of these, the ones that have reset since the timer was restarted
  fed          \* periods since the timer was restarted

Tasks == {"idle", "bacnet", "control"}

TypeOK ==
  /\ subscribed \subseteq Tasks
  /\ checked \subseteq subscribed
  /\ fed \in 0..Timeout

\* The default set-up that runs until hal_wdt_init watches no task of the program.
Init == subscribed = {} /\ checked = {} /\ fed = 0

\* hal_wdt_init: the idle task stays subscribed, a timeout panics.
Start ==
  /\ subscribed' = {"idle"}
  /\ checked' = {}
  /\ fed' = 0

\* hal_wdt_add_current_task.  The timer runs on.
Subscribe(task) ==
  /\ subscribed' = subscribed \union {task}
  /\ UNCHANGED <<checked, fed>>

\* hal_wdt_reset.  A task that is not subscribed gets an error nobody looks at.
Check(task) ==
  IF task \notin subscribed THEN UNCHANGED <<subscribed, checked, fed>>
  ELSE /\ IF subscribed \subseteq checked \union {task}
          THEN checked' = {} /\ fed' = 0
          ELSE checked' = checked \union {task} /\ fed' = fed
       /\ UNCHANGED subscribed

\* The timer has run out: panic and reset.
Expired == subscribed # {} /\ fed = Timeout

\* A period goes by without a panic.
Elapse ==
  /\ fed < Timeout
  /\ fed' = fed + 1
  /\ UNCHANGED <<subscribed, checked>>

\* The chip is reset.
Clear == subscribed' = {} /\ checked' = {} /\ fed' = 0
=============================================================================
