--------------------------- MODULE MCBridgeSession ---------------------------
(***************************************************************************)
(* BridgeSession with two devices for a table of one.                      *)
(***************************************************************************)
EXTENDS BridgeSession

CONSTANTS d1, d2

Message(attr, type, bytes) == [attr |-> attr, type |-> type, bytes |-> bytes, number |-> 0]

\* The lower bound of the temperature range (-40.00), values beyond the bounds
\* (-40.01 and 81.00), a truncated message and one of an unknown type.
MCReadings == {d1} \X
  {Message("temperature", "s16", <<96, 240>>), Message("temperature", "s16", <<95, 240>>),
   Message("temperature", "s16", <<164, 31>>),
   Message("temperature", "s16", <<0>>),
   Message("temperature", "enum8", <<20>>)}
=============================================================================
