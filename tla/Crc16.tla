-------------------------------- MODULE Crc16 --------------------------------
(***************************************************************************)
(* bridge_crc16 of uart_bridge_framing.c: CRC-16/CCITT-FALSE, polynomial   *)
(* 0x1021, initial value 0xFFFF, nothing reflected.                        *)
(***************************************************************************)
EXTENDS Integers, Sequences, SequencesExt, Bitwise

\* One round of the inner loop.
Shift(crc) == IF crc >= 32768 THEN ((2 * crc) % 65536) ^^ 4129 ELSE 2 * crc

\* The eight rounds for a byte in the upper half of the register, for each byte.
Rounds ==
  [byte \in 0..255 |->
     LET crc[bit \in 0..8] == IF bit = 0 THEN 256 * byte ELSE Shift(crc[bit - 1])
     IN crc[8]]

bridge_crc16(data) ==
  FoldLeft(LAMBDA crc, byte : ((256 * crc) % 65536) ^^ Rounds[(crc \div 256) ^^ byte],
           65535, data)

\* The check value of CRC-16/CCITT-FALSE, that of the ASCII digits 1 to 9.
ASSUME CheckValue == bridge_crc16([i \in 1..9 |-> 48 + i]) = 10673
=============================================================================
