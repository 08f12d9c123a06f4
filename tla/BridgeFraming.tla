---------------------------- MODULE BridgeFraming ----------------------------
(***************************************************************************)
(* One direction of the UART between the chips, byte by byte: the frames   *)
(* of uart_bridge_framing.c, which both firmwares share, and the receive   *)
(* loop (rx_task of uart_bridge.c and of zigbee_bridge_io.c are the same   *)
(* in this).                                                               *)
(*                                                                         *)
(* The line changes, loses and adds bytes.  A silence longer than the      *)
(* frame timeout can begin only when no byte is under way: a sender writes *)
(* the bytes of a frame back to back.                                      *)
(***************************************************************************)
EXTENDS Integers, Sequences, SequencesExt

CONSTANTS
  Frame,       \* frames that are sent: message type and payload
  Garbage,     \* bytes that damage leaves behind
  MaxPayload,  \* BRIDGE_MAX_PAYLOAD
  Crc(_),      \* bridge_crc16, of a sequence of bytes
  MaxLine,     \* bound: bytes under way
  MaxBurst,    \* bound: frames whose fate is open, between two silences
  MaxFaults,   \* bound: damage between two silences
  NoFrame      \* got before the first frame

SOF == 170     \* BRIDGE_SOF, 0xAA
Overhead == 6  \* BRIDGE_FRAME_OVERHEAD: SOF, MSG_TYPE, LEN and CRC16
Byte == 0..255
Word == 0..(256 * 256 - 1)

VARIABLES
  wire,    \* bytes under way
  buf,     \* what the receiver has of a frame, empty while it waits for SOF
  flight,  \* history: frames sent that may still come, see FrameFifo
  got,     \* the last frame handed over
  parity,  \* parity of the number of frames handed over
  faults,  \* bytes damaged since the last silence
  quiet    \* history: none was since the last silence

link == <<wire, buf>>
fifo == <<flight, got, parity>>
vars == <<link, fifo, faults, quiet>>

-----------------------------------------------------------------------------
(* Frames.                                                                 *)

\* A 16-bit number, low byte first.
LE16(n) == <<n % 256, n \div 256>>
Number(low, high) == low + 256 * high

\* The CRC without the header.
CoveredPayloadOnly(type, payload) == payload

\* What the CRC covers: MSG_TYPE, LEN and PAYLOAD.
Covered(type, payload) == <<type>> \o LE16(Len(payload)) \o payload

\* The number at the end of a frame.
Checksum(type, payload) == Crc(Covered(type, payload))

\* bridge_frame_encode.
Encode(f) ==
  <<SOF, f.type>> \o LE16(Len(f.payload)) \o f.payload
    \o LE16(Checksum(f.type, f.payload))

PayloadLen(bytes) == Number(bytes[3], bytes[4])
PayloadOf(bytes) == SubSeq(bytes, 5, 4 + PayloadLen(bytes))
CrcOf(bytes) == Number(bytes[5 + PayloadLen(bytes)], bytes[6 + PayloadLen(bytes)])

\* bridge_frame_decode of a frame whose first bytes are in the buffer.
DecodeStatus(bytes) ==
  IF Len(bytes) < Overhead THEN "TOO_SHORT"
  ELSE IF bytes[1] # SOF THEN "BAD_SOF"
  ELSE IF PayloadLen(bytes) > MaxPayload THEN "BAD_LEN"
  ELSE IF Len(bytes) < Overhead + PayloadLen(bytes) THEN "TOO_SHORT"
  ELSE IF Checksum(bytes[2], PayloadOf(bytes)) # CrcOf(bytes) THEN "BAD_CRC"
  ELSE "OK"

Decoded(bytes) == [type |-> bytes[2], payload |-> PayloadOf(bytes)]

ASSUME FrameAssumption ==
  /\ Frame \subseteq [type: Byte, payload: Seq(Byte)]
  /\ NoFrame \notin Frame
  /\ \A f \in Frame : /\ Len(f.payload) <= MaxPayload
                      /\ Checksum(f.type, f.payload) \in Word
  /\ Garbage \subseteq Byte
  /\ MaxPayload \in Word /\ MaxLine \in Nat
  /\ MaxBurst \in Nat /\ MaxFaults \in Nat

TypeOK ==
  /\ wire \in Seq(Byte) /\ Len(wire) <= MaxLine
  /\ buf \in Seq(Byte) /\ Len(buf) < Overhead + MaxPayload
  /\ flight \in Seq(Frame) /\ Len(flight) <= MaxBurst
  /\ got \in [type: Byte, payload: Seq(Byte)] \union {NoFrame}
  /\ parity \in {0, 1}
  /\ faults \in 0..MaxFaults
  /\ quiet \in BOOLEAN

Init ==
  /\ wire = <<>> /\ buf = <<>>
  /\ flight = <<>> /\ got = NoFrame /\ parity = 0
  /\ faults = 0 /\ quiet = TRUE

-----------------------------------------------------------------------------
(* Sender and line.                                                        *)

\* send_frame, send_cmd: hal_uart_write of the encoded frame.
Send(f) ==
  /\ Len(wire) + Len(Encode(f)) <= MaxLine /\ Len(flight) < MaxBurst
  /\ wire' = wire \o Encode(f)
  /\ flight' = Append(flight, f)
  /\ UNCHANGED <<buf, got, parity, faults, quiet>>

\* A byte under way is changed or lost, or a stray one is picked up.
Damage ==
  /\ faults < MaxFaults
  /\ faults' = faults + 1
  /\ quiet' = FALSE
  /\ \/ \E i \in DOMAIN wire, b \in Garbage : wire' = [wire EXCEPT ![i] = b]
     \/ \E i \in DOMAIN wire : wire' = RemoveAt(wire, i)
     \/ \E b \in Garbage : Len(wire) < MaxLine /\ wire' = Append(wire, b)
  /\ UNCHANGED <<buf, fifo>>

-----------------------------------------------------------------------------
(* Receive loop.                                                           *)

\* The buffer with the next byte.
Grown == Append(buf, Head(wire))

Reads == wire # <<>> /\ wire' = Tail(wire)

\* Sync: a byte that is not SOF is skipped.
Sync ==
  /\ buf = <<>>
  /\ Reads
  /\ buf' = IF Head(wire) = SOF THEN <<SOF>> ELSE <<>>
  /\ UNCHANGED <<fifo, faults, quiet>>

\* The LEN of a header that could be read is believed.
BogusLengthNever(bytes) == FALSE

\* The header is there and its LEN is larger than any payload.
BogusLength(bytes) == Len(bytes) = 4 /\ PayloadLen(bytes) > MaxPayload

\* One byte is awaited too many.
CompleteLate(bytes) ==
  Len(bytes) >= 5 /\ Len(bytes) = Overhead + 1 + PayloadLen(bytes)

\* MSG_TYPE, LEN, payload and CRC have been read.
Complete(bytes) == Len(bytes) >= 5 /\ Len(bytes) = Overhead + PayloadLen(bytes)

\* read_exact of the header and of the rest of the frame.
ReadByte ==
  /\ buf # <<>>
  /\ Reads
  /\ ~BogusLength(Grown) /\ ~Complete(Grown)
  /\ buf' = Grown
  /\ UNCHANGED <<fifo, faults, quiet>>

DropBogus ==
  /\ buf # <<>>
  /\ Reads
  /\ BogusLength(Grown)
  /\ buf' = <<>>
  /\ UNCHANGED <<fifo, faults, quiet>>

\* The frames of flight behind the first one that equals f.
Behind(f) ==
  LET first == CHOOSE i \in DOMAIN flight :
                 flight[i] = f /\ \A j \in 1..(i - 1) : flight[j] # f
  IN IF \E i \in DOMAIN flight : flight[i] = f
     THEN SubSeq(flight, first + 1, Len(flight)) ELSE flight

\* A complete frame that bridge_frame_decode accepts goes to the command or
\* frame handler.
HandOver ==
  /\ buf # <<>>
  /\ Reads
  /\ Complete(Grown) /\ DecodeStatus(Grown) = "OK"
  /\ buf' = <<>>
  /\ got' = Decoded(Grown)
  /\ parity' = 1 - parity
  /\ flight' = Behind(Decoded(Grown))
  /\ UNCHANGED <<faults, quiet>>

\* One that it rejects is dropped.
Reject ==
  /\ buf # <<>>
  /\ Reads
  /\ Complete(Grown) /\ DecodeStatus(Grown) # "OK"
  /\ buf' = <<>>
  /\ UNCHANGED <<fifo, faults, quiet>>

\* A silence that the receiver sits out in the middle of a frame.
SilenceKeepingFrame ==
  /\ wire = <<>>
  /\ flight' = <<>>
  /\ faults' = 0
  /\ quiet' = TRUE
  /\ UNCHANGED <<link, got, parity>>

\* A silence: read_exact times out and the receiver waits for SOF again.  What
\* has not come by now never will.
Silence ==
  /\ wire = <<>>
  /\ buf' = <<>>
  /\ flight' = <<>>
  /\ faults' = 0
  /\ quiet' = TRUE
  /\ UNCHANGED <<wire, got, parity>>

Receive == Sync \/ ReadByte \/ DropBogus \/ HandOver \/ Reject

Next == (\E f \in Frame : Send(f)) \/ Damage \/ Receive \/ Silence

Spec == Init /\ [][Next]_vars

\* The receive task runs and takes the bytes that came: weak fairness of Receive,
\* which has a step to take exactly when there is a byte.
Fairness == []<>(wire = <<>>) \/ []<><<Receive>>_vars

FairSpec == Spec /\ Fairness

-----------------------------------------------------------------------------
\* The link is a FIFO that loses frames and invents none, whatever happens to
\* the bytes of up to MaxFaults places between two silences.
Fifo == INSTANCE FrameFifo
FramesInOrder == Fifo!Spec

\* As long as no byte is damaged after a silence, frames are handed over one by
\* one and none is skipped, whatever garbage came before the silence.
NothingSkipped ==
  [][quiet =>
       \/ flight' = flight
       \/ \E f \in Frame : flight' = Append(flight, f)
       \/ parity' # parity /\ flight # <<>> /\ flight' = Tail(flight) /\ got' = Head(flight)]_vars

\* And none is kept waiting for later bytes.
FrameArrives ==
  \A p \in {0, 1} :
    quiet /\ flight # <<>> /\ parity = p ~> ~quiet \/ parity # p
=============================================================================
