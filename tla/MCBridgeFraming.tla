--------------------------- MODULE MCBridgeFraming ---------------------------
(***************************************************************************)
(* BridgeFraming with the real CRC.  Two frames of the protocol: a command *)
(* to open the network for 170 s, whose payload looks like the start of a  *)
(* frame, and OTA_END, which has no payload.                               *)
(***************************************************************************)
EXTENDS BridgeFraming, Crc16

MCFrames == {[type |-> 16, payload |-> <<170>>], [type |-> 34, payload |-> <<>>]}

\* As a length: longer than what follows, impossible.  As a byte:
\* SOF, or any other.
MCGarbage == {7, 170}
=============================================================================
