------------------------------ MODULE FrameFifo ------------------------------
(***************************************************************************)
(* What the bridge promises about the frames of one direction, and what    *)
(* BridgeSession assumes of its wires: a frame handed over was sent, no    *)
(* frame is handed over twice or before an earlier one, some are never.    *)
(***************************************************************************)
EXTENDS Integers, Sequences

CONSTANTS Frame, NoFrame

VARIABLES
  flight,  \* frames sent that may still be handed over, oldest first
  got,     \* the last frame handed over
  parity   \* parity of the number of frames handed over

Init == flight = <<>> /\ got = NoFrame /\ parity = 0

After(i) == SubSeq(flight, i + 1, Len(flight))

Send(f) == flight' = Append(flight, f) /\ UNCHANGED <<got, parity>>

\* Frame i is handed over; those before it never will be.
Deliver(i) ==
  /\ got' = flight[i]
  /\ parity' = 1 - parity
  /\ flight' = After(i)

Lose(i) == flight' = After(i) /\ UNCHANGED <<got, parity>>

Next ==
  \/ \E f \in Frame : Send(f)
  \/ \E i \in DOMAIN flight : Deliver(i) \/ Lose(i)

Spec == Init /\ [][Next]_<<flight, got, parity>>
=============================================================================
