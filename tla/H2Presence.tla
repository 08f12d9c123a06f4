----------------------------- MODULE H2Presence -----------------------------
(***************************************************************************)
(* What zigbee_bridge promises the control task about the H2: heartbeats   *)
(* make it fresh, H2_HEARTBEAT_TIMEOUT_MS without one lets it fade, and a  *)
(* call of zigbee_bridge_is_h2_online answers how it was at some moment    *)
(* of the call.  The one exception is stated here too: a call that a       *)
(* heartbeat overlapped may answer "offline" of an H2 that never faded.    *)
(***************************************************************************)
EXTENDS Integers

VARIABLES
  fresh,      \* a heartbeat was seen within the timeout
  asking,     \* a call of is_h2_online is in progress
  witnessed,  \* values fresh had since that call began
  overlapped, \* a heartbeat arrived since that call began
  answer      \* what the last call returned

vars == <<fresh, asking, witnessed, overlapped, answer>>

TypeOK ==
  /\ fresh \in BOOLEAN /\ asking \in BOOLEAN
  /\ witnessed \subseteq BOOLEAN
  /\ overlapped \in BOOLEAN
  /\ answer \in BOOLEAN

Init ==
  /\ fresh = FALSE /\ asking = FALSE /\ witnessed = {}
  /\ overlapped = FALSE /\ answer = FALSE

\* A call in progress takes note of how fresh is after the step.
Witness ==
  witnessed' = IF asking THEN witnessed \union {fresh'} ELSE witnessed

\* A heartbeat frame from the H2.
Beat ==
  /\ fresh' = TRUE
  /\ Witness
  /\ overlapped' = (overlapped \/ asking)
  /\ UNCHANGED <<asking, answer>>

\* The timeout passes without one.
Fade ==
  /\ fresh
  /\ fresh' = FALSE
  /\ Witness
  /\ UNCHANGED <<asking, overlapped, answer>>

Ask ==
  /\ ~asking
  /\ asking' = TRUE
  /\ witnessed' = {fresh}
  /\ overlapped' = FALSE
  /\ UNCHANGED <<fresh, answer>>

Answer ==
  /\ asking
  /\ answer' \in witnessed \union (IF overlapped THEN {FALSE} ELSE {})
  /\ asking' = FALSE
  /\ witnessed' = {}
  /\ overlapped' = FALSE
  /\ UNCHANGED fresh

Next == Beat \/ Fade \/ Ask \/ Answer

Spec == Init /\ [][Next]_vars
=============================================================================
