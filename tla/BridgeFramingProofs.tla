------------------------- MODULE BridgeFramingProofs -------------------------
(***************************************************************************)
(* Theorems about BridgeFraming, for every set of frames, every checksum   *)
(* and every amount of damage: the decoder undoes the encoder, the         *)
(* receiver's buffer never overflows, and an undamaged line skips no       *)
(* frame.                                                                  *)
(***************************************************************************)
EXTENDS BridgeFraming, SequenceTheorems, FiniteSetTheorems, WellFoundedInduction, TLAPS

-----------------------------------------------------------------------------
(* Encoding.                                                               *)

\* A 16-bit number is two bytes, and comes back from them.
LEMMA LE16Bytes ==
  ASSUME NEW n \in Word
  PROVE  /\ LE16(n) \in Seq(Byte) /\ Len(LE16(n)) = 2
         /\ LE16(n)[1] \in Byte /\ LE16(n)[2] \in Byte
         /\ Number(LE16(n)[1], LE16(n)[2]) = n
<1>1. n % 256 \in Byte /\ n \div 256 \in Byte /\ n = (n % 256) + 256 * (n \div 256)
  BY DEF Byte, Word
<1> QED  BY <1>1 DEF LE16, Number

\* Numbers below one of 16 bits have 16 bits.
LEMMA WordsBelow ==
  ASSUME NEW m \in Word
  PROVE  m \in Nat /\ \A n \in 0..m : n \in Word
<1> DEFINE top == 256 * 256 - 1
<1>1. Word = 0..top /\ top \in Nat  BY DEF Word
<1> HIDE DEF top
<1> QED  BY <1>1

\* MaxPayload is a number.
LEMMA MaxPayloadNat == MaxPayload \in Nat
BY FrameAssumption, WordsBelow

\* The fields of a frame that is sent.
LEMMA FrameFields ==
  ASSUME NEW f \in Frame
  PROVE  /\ f = [type |-> f.type, payload |-> f.payload]
         /\ f.type \in Byte /\ f.payload \in Seq(Byte)
         /\ Len(f.payload) \in Word /\ Len(f.payload) <= MaxPayload
         /\ Checksum(f.type, f.payload) \in Word
<1>1. f \in [type: Byte, payload: Seq(Byte)]  BY FrameAssumption
<1>2. Len(f.payload) \in Nat  BY <1>1, LenProperties
<1>3. Len(f.payload) <= MaxPayload /\ MaxPayload \in Word  BY FrameAssumption
<1>4. Len(f.payload) \in Word  BY <1>2, <1>3, WordsBelow
<1> QED  BY <1>1, <1>3, <1>4, FrameAssumption

\* Where the bytes of an encoded frame are.
LEMMA EncodedBytes ==
  ASSUME NEW f \in Frame
  PROVE  /\ Encode(f) \in Seq(Byte)
         /\ Len(Encode(f)) = Overhead + Len(f.payload)
         /\ Encode(f)[1] = SOF /\ Encode(f)[2] = f.type
         /\ PayloadLen(Encode(f)) = Len(f.payload)
         /\ \A k \in 1..Len(f.payload) : Encode(f)[4 + k] = f.payload[k]
         /\ CrcOf(Encode(f)) = Checksum(f.type, f.payload)
<1> DEFINE n == Len(f.payload)
           head == <<SOF, f.type>>
           len == LE16(n)
           crc == LE16(Checksum(f.type, f.payload))
<1>1. /\ f.type \in Byte /\ f.payload \in Seq(Byte) /\ n \in Nat /\ n \in Word
      /\ Checksum(f.type, f.payload) \in Word
  BY FrameFields
<1>2. /\ len \in Seq(Byte) /\ Len(len) = 2 /\ Number(len[1], len[2]) = n
      /\ crc \in Seq(Byte) /\ Len(crc) = 2
      /\ Number(crc[1], crc[2]) = Checksum(f.type, f.payload)
  BY <1>1, LE16Bytes
<1>3. head \in Seq(Byte) /\ Len(head) = 2 /\ head[1] = SOF /\ head[2] = f.type
  <2>1. SOF \in Byte  BY DEF SOF, Byte
  <2> QED  BY <1>1, <2>1
<1> HIDE DEF n, head, len, crc
<1> DEFINE a == head \o len  b == a \o f.payload  e == b \o crc
<1>4. /\ a \in Seq(Byte) /\ Len(a) = 4
      /\ a[1] = head[1] /\ a[2] = head[2] /\ a[3] = len[1] /\ a[4] = len[2]
  BY <1>2, <1>3, ConcatProperties
<1> HIDE DEF a
<1>5. /\ b \in Seq(Byte) /\ Len(b) = 4 + n
      /\ \A k \in 1..4 : b[k] = a[k]
      /\ \A k \in 1..n : b[4 + k] = f.payload[k]
  <2>1. f.payload \in Seq(Byte) /\ Len(f.payload) = n /\ n \in Nat  BY <1>1 DEF n
  <2>2. /\ b \in Seq(Byte) /\ Len(b) = Len(a) + Len(f.payload)
        /\ \A i \in 1..Len(a) + Len(f.payload) :
             b[i] = IF i <= Len(a) THEN a[i] ELSE f.payload[i - Len(a)]
    BY <1>4, <2>1, ConcatProperties
  <2> HIDE DEF b
  <2>3. \A k \in 1..n : b[4 + k] = f.payload[k]
    <3> SUFFICES ASSUME NEW k \in 1..n PROVE b[4 + k] = f.payload[k]  OBVIOUS
    <3>1. 4 + k \in 1..4 + n /\ ~(4 + k <= 4) /\ (4 + k) - 4 = k  BY <2>1
    <3> QED  BY <1>4, <2>1, <2>2, <3>1
  <2> QED  BY <1>4, <2>1, <2>2, <2>3
<1> HIDE DEF b
<1>6. /\ e \in Seq(Byte) /\ Len(e) = 6 + n
      /\ \A i \in 1..4 + n : e[i] = b[i]
      /\ e[5 + n] = crc[1] /\ e[6 + n] = crc[2]
  <2>1. /\ e \in Seq(Byte) /\ Len(e) = Len(b) + Len(crc)
        /\ \A i \in 1..Len(b) + Len(crc) :
             e[i] = IF i <= Len(b) THEN b[i] ELSE crc[i - Len(b)]
    BY <1>2, <1>5, ConcatProperties
  <2> HIDE DEF e
  <2>2. n \in Nat  BY <1>1
  <2>3. 5 + n \in 1..6 + n /\ 6 + n \in 1..6 + n /\ (5 + n) - (4 + n) = 1
        /\ (6 + n) - (4 + n) = 2 /\ ~(5 + n <= 4 + n) /\ ~(6 + n <= 4 + n)
    BY <2>2
  <2>4. e[5 + n] = crc[1] /\ e[6 + n] = crc[2]
    BY <1>2, <1>5, <2>1, <2>2, <2>3
  <2> QED  BY <1>2, <1>5, <2>1, <2>2, <2>4
<1> HIDE DEF e
<1>7. e = Encode(f)  BY DEF e, b, a, head, len, crc, n, Encode
<1>8. e[1] = SOF /\ e[2] = f.type /\ e[3] = len[1] /\ e[4] = len[2]
  <2>1. n \in Nat  BY <1>1
  <2>2. \A k \in 1..4 : k \in 1..4 + n  BY <2>1
  <2>3. \A k \in 1..4 : e[k] = b[k]  BY <1>6, <2>2
  <2>4. \A k \in 1..4 : e[k] = a[k]  BY <1>5, <2>3
  <2>5. 1 \in 1..4 /\ 2 \in 1..4 /\ 3 \in 1..4 /\ 4 \in 1..4  OBVIOUS
  <2> QED  BY <1>3, <1>4, <2>4, <2>5
<1>9. PayloadLen(e) = n  BY <1>2, <1>8 DEF PayloadLen
<1>10. CrcOf(e) = Checksum(f.type, f.payload)
  BY <1>2, <1>6, <1>9 DEF CrcOf
<1>11. \A k \in 1..n : e[4 + k] = f.payload[k]
  BY <1>1, <1>5, <1>6
<1> QED  BY <1>6, <1>7, <1>8, <1>9, <1>10, <1>11 DEF n, Overhead

\* bridge_frame_decode undoes bridge_frame_encode: what send_frame writes is
\* complete when its last byte has come, accepted, and the frame that was sent.
THEOREM DecodeUndoesEncode ==
  ASSUME NEW f \in Frame
  PROVE  /\ Complete(Encode(f))
         /\ DecodeStatus(Encode(f)) = "OK"
         /\ Decoded(Encode(f)) = f
<1> DEFINE e == Encode(f)  n == Len(f.payload)
<1>1. /\ f = [type |-> f.type, payload |-> f.payload]
      /\ f.payload \in Seq(Byte) /\ n \in Nat /\ n <= MaxPayload
  BY FrameFields
<1>2. /\ e \in Seq(Byte) /\ Len(e) = 6 + n /\ e[1] = SOF /\ e[2] = f.type
      /\ PayloadLen(e) = n
      /\ \A k \in 1..n : e[4 + k] = f.payload[k]
      /\ CrcOf(e) = Checksum(f.type, f.payload)
  BY EncodedBytes DEF Overhead
<1> HIDE DEF e
<1>3. PayloadOf(e) = f.payload
  <2> DEFINE p == SubSeq(e, 5, 4 + n)
  <2>1. \A i \in 5..4 + n : e[i] \in Byte
    BY <1>1, <1>2, ElementOfSeq
  <2>2. /\ p \in Seq(Byte)
        /\ Len(p) = IF 5 <= 4 + n THEN (4 + n) - 5 + 1 ELSE 0
        /\ \A i \in 1..(4 + n) - 5 + 1 : p[i] = e[5 + i - 1]
    BY <1>1, <2>1, SubSeqProperties
  <2> HIDE DEF p
  <2>3. Len(p) = n  BY <1>1, <2>2
  <2>4. \A i \in 1..n : p[i] = f.payload[i]
    <3> SUFFICES ASSUME NEW i \in 1..n PROVE p[i] = f.payload[i]  OBVIOUS
    <3>1. i \in 1..(4 + n) - 5 + 1 /\ 5 + i - 1 = 4 + i  BY <1>1
    <3> QED  BY <1>2, <2>2, <3>1
  <2>5. p = f.payload  BY <1>1, <2>2, <2>3, <2>4, SeqEqual
  <2> QED  BY <1>2, <2>5 DEF PayloadOf, p
<1>4. Complete(e)  BY <1>1, <1>2 DEF Complete, Overhead
<1>5. DecodeStatus(e) = "OK"
  BY <1>1, <1>2, <1>3, MaxPayloadNat DEF DecodeStatus, Overhead
<1>6. Decoded(e) = f  BY <1>1, <1>2, <1>3 DEF Decoded
<1> QED  BY <1>4, <1>5, <1>6 DEF e

-----------------------------------------------------------------------------
(* Types, and the room in the receiver's buffer.                           *)

\* A header that was kept announces a payload of legal length, and the frame is
\* not complete yet: read_exact has something left to read.
Fits(bytes) ==
  Len(bytes) >= 4 => /\ PayloadLen(bytes) <= MaxPayload
                     /\ Len(bytes) < Overhead + PayloadLen(bytes)

TypedInv == TypeOK /\ Fits(buf)

\* Bytes are numbers.
LEMMA BytesAreNumbers == Byte \subseteq Nat
BY DEF Byte

\* The length field is a number.
LEMMA PayloadLenNat ==
  ASSUME NEW bytes \in Seq(Byte), Len(bytes) >= 4
  PROVE  PayloadLen(bytes) \in Nat
<1>1. bytes[3] \in Byte /\ bytes[4] \in Byte  BY ElementOfSeq
<1>2. bytes[3] \in Nat /\ bytes[4] \in Nat  BY <1>1, BytesAreNumbers, Zenon
<1>3. PayloadLen(bytes) = bytes[3] + 256 * bytes[4]  BY DEF PayloadLen, Number
<1> QED  BY <1>2, <1>3

\* What the next byte makes of buffer and wire.
LEMMA GrownBytes ==
  ASSUME TypeOK, wire # <<>>
  PROVE  /\ Grown \in Seq(Byte) /\ Len(Grown) = Len(buf) + 1 /\ Len(buf) \in Nat
         /\ \A i \in 1..Len(buf) : Grown[i] = buf[i]
         /\ Grown[Len(buf) + 1] = wire[1]
         /\ Tail(wire) \in Seq(Byte) /\ Len(wire) \in Nat
         /\ Len(Tail(wire)) = Len(wire) - 1
         /\ \A i \in 1..Len(wire) - 1 : Tail(wire)[i] = wire[i + 1]
<1>1. buf \in Seq(Byte) /\ wire \in Seq(Byte)  BY DEF TypeOK
<1>2. Head(wire) \in Byte /\ Head(wire) = wire[1]  BY <1>1, HeadTailProperties
<1>3. /\ Tail(wire) \in Seq(Byte) /\ Len(Tail(wire)) = Len(wire) - 1
      /\ \A i \in 1..Len(wire) - 1 : Tail(wire)[i] = wire[i + 1]
  BY <1>1, HeadTailProperties
<1>4. Len(buf) \in Nat /\ Len(wire) \in Nat  BY <1>1, LenProperties
<1> QED  BY <1>1, <1>2, <1>3, <1>4, AppendProperties DEF Grown

\* The length field does not change behind the header.
LEMMA GrownLength ==
  ASSUME TypedInv, wire # <<>>, Len(Grown) >= 5
  PROVE  /\ PayloadLen(Grown) = PayloadLen(buf)
         /\ PayloadLen(Grown) \in Nat
         /\ PayloadLen(Grown) <= MaxPayload
         /\ Len(Grown) <= Overhead + PayloadLen(Grown)
<1>1. /\ Len(buf) >= 4 /\ Len(buf) \in Nat /\ Len(Grown) = Len(buf) + 1
      /\ \A i \in 1..Len(buf) : Grown[i] = buf[i]
  BY GrownBytes DEF TypedInv
<1>2. Grown[3] = buf[3] /\ Grown[4] = buf[4]  BY <1>1
<1>3. PayloadLen(Grown) = PayloadLen(buf)  BY <1>2 DEF PayloadLen
<1>4. PayloadLen(buf) \in Nat  BY <1>1, PayloadLenNat DEF TypedInv, TypeOK
<1> QED  BY <1>1, <1>3, <1>4, MaxPayloadNat DEF TypedInv, Fits, Overhead

\* A buffer that is kept has room for the rest of its frame.
LEMMA GrownFits ==
  ASSUME TypedInv, wire # <<>>, ~BogusLength(Grown), ~Complete(Grown)
  PROVE  Fits(Grown) /\ Len(Grown) < Overhead + MaxPayload
<1>1. Grown \in Seq(Byte) /\ Len(Grown) \in Nat  BY GrownBytes DEF TypedInv
<1>2. CASE Len(Grown) < 4
  BY <1>1, <1>2, MaxPayloadNat DEF Fits, Overhead
<1>3. CASE Len(Grown) = 4
  <2>1. PayloadLen(Grown) \in Nat
    <3>1. Len(Grown) >= 4  BY <1>3
    <3> QED  BY <1>1, <3>1, PayloadLenNat
  <2>2. PayloadLen(Grown) <= MaxPayload
    BY <1>3, <2>1, MaxPayloadNat DEF BogusLength
  <2> QED  BY <1>1, <1>3, <2>1, <2>2, MaxPayloadNat DEF Fits, Overhead
<1>4. CASE Len(Grown) >= 5
  <2>1. /\ PayloadLen(Grown) \in Nat /\ PayloadLen(Grown) <= MaxPayload
        /\ Len(Grown) <= Overhead + PayloadLen(Grown)
    BY <1>4, GrownLength
  <2>2. Len(Grown) # Overhead + PayloadLen(Grown)  BY <1>4 DEF Complete
  <2> QED  BY <1>1, <1>4, <2>1, <2>2, MaxPayloadNat DEF Fits, Overhead
<1> QED  BY <1>1, <1>2, <1>3, <1>4

\* A complete frame decodes to a type and a payload.
LEMMA DecodedTyped ==
  ASSUME TypedInv, wire # <<>>, Complete(Grown)
  PROVE  Decoded(Grown) \in [type: Byte, payload: Seq(Byte)]
<1>1. Grown \in Seq(Byte)  BY GrownBytes DEF TypedInv
<1>2. Len(Grown) >= 5 /\ Len(Grown) = Overhead + PayloadLen(Grown)
  BY DEF Complete
<1>3. PayloadLen(Grown) \in Nat  BY <1>2, GrownLength
<1>4. Grown[2] \in Byte  BY <1>1, <1>2, ElementOfSeq
<1>5. \A i \in 5..4 + PayloadLen(Grown) : Grown[i] \in Byte
  BY <1>1, <1>2, <1>3, ElementOfSeq DEF Overhead
<1>6. PayloadOf(Grown) \in Seq(Byte)
  BY <1>3, <1>5, SubSeqProperties DEF PayloadOf
<1> QED  BY <1>4, <1>6 DEF Decoded

\* A set of natural numbers has a least element.
LEMMA LeastElement ==
  ASSUME NEW T \in SUBSET Nat, T # {}
  PROVE  \E n \in T : \A m \in T : n <= m
<1> DEFINE Less == {p \in Nat \X Nat : p[1] < p[2]}
<1>1. IsWellFoundedOn(Less, Nat)
  BY NatLessThanWellFounded, Zenon DEF OpToRel
<1>2. PICK n \in T : \A m \in T : <<m, n>> \notin Less
  BY <1>1, WFMin, Zenon
<1>3. \A m \in T : m < n => <<m, n>> \in Less  OBVIOUS
<1> HIDE DEF Less
<1>4. \A m \in T : ~(m < n)  BY <1>2, <1>3
<1> QED  BY <1>4

\* An element that occurs in a sequence has a first occurrence.
LEMMA FirstOccurrence ==
  ASSUME NEW S, NEW s \in Seq(S), NEW e, \E i \in DOMAIN s : s[i] = e
  PROVE  \E i \in DOMAIN s : s[i] = e /\ \A j \in 1..(i - 1) : s[j] # e
<1> DEFINE places == {i \in DOMAIN s : s[i] = e}
<1>1. Len(s) \in Nat /\ DOMAIN s = 1..Len(s)  BY LenProperties
<1>2. places \in SUBSET Nat /\ places # {}  BY <1>1
<1>3. PICK i \in places : \A j \in places : i <= j  BY <1>2, LeastElement
<1>4. \A j \in 1..(i - 1) : s[j] # e  BY <1>1, <1>3
<1> QED  BY <1>3, <1>4

\* The frames behind a delivered one are frames in flight.
LEMMA BehindTyped ==
  ASSUME flight \in Seq(Frame), NEW f
  PROVE  /\ Behind(f) \in Seq(Frame)
         /\ Len(Behind(f)) \in Nat /\ Len(Behind(f)) <= Len(flight)
<1>1. CASE ~\E i \in DOMAIN flight : flight[i] = f
  BY <1>1, LenProperties DEF Behind
<1>2. CASE \E i \in DOMAIN flight : flight[i] = f
  <2> DEFINE first == CHOOSE i \in DOMAIN flight :
                        flight[i] = f /\ \A j \in 1..(i - 1) : flight[j] # f
  <2>1. \E i \in DOMAIN flight : flight[i] = f /\ \A j \in 1..(i - 1) : flight[j] # f
    BY <1>2, FirstOccurrence
  <2>2. first \in DOMAIN flight  BY <2>1
  <2>3. Behind(f) = SubSeq(flight, first + 1, Len(flight))  BY <1>2 DEF Behind
  <2> HIDE DEF first
  <2>4. Len(flight) \in Nat /\ first \in 1..Len(flight)  BY <2>2, LenProperties
  <2>5. \A i \in (first + 1)..Len(flight) : flight[i] \in Frame
    BY <2>4, ElementOfSeq
  <2> DEFINE behind == SubSeq(flight, first + 1, Len(flight))
  <2>6. /\ behind \in Seq(Frame)
        /\ Len(behind) = IF first + 1 <= Len(flight)
                           THEN Len(flight) - (first + 1) + 1 ELSE 0
    BY <2>4, <2>5, SubSeqProperties
  <2> HIDE DEF behind
  <2>7. Len(behind) \in Nat /\ Len(behind) <= Len(flight)  BY <2>4, <2>6
  <2> QED  BY <2>3, <2>6, <2>7 DEF behind
<1> QED  BY <1>1, <1>2

\* Damage leaves bytes.
LEMMA DamageTyped ==
  ASSUME TypeOK, Damage
  PROVE  wire' \in Seq(Byte) /\ Len(wire') <= MaxLine /\ faults' \in 0..MaxFaults
<1>1. /\ wire \in Seq(Byte) /\ Len(wire) <= MaxLine /\ Len(wire) \in Nat
      /\ DOMAIN wire = 1..Len(wire) /\ MaxLine \in Nat
  BY FrameAssumption, LenProperties DEF TypeOK
<1>2. ASSUME NEW i \in DOMAIN wire, NEW b \in Garbage, wire' = [wire EXCEPT ![i] = b]
      PROVE  wire' \in Seq(Byte) /\ Len(wire') <= MaxLine
  <2>1. b \in Byte  BY FrameAssumption, Zenon
  <2> QED  BY <1>1, <1>2, <2>1, ExceptSeq
<1>3. ASSUME NEW i \in DOMAIN wire, wire' = RemoveAt(wire, i)
      PROVE  wire' \in Seq(Byte) /\ Len(wire') <= MaxLine
  <2> DEFINE before == SubSeq(wire, 1, i - 1)
             behind == SubSeq(wire, i + 1, Len(wire))
  <2>1. i \in 1..Len(wire) /\ i \in Nat  BY <1>1
  <2>2. \A j \in 1..(i - 1) : wire[j] \in Byte  BY <1>1, <2>1, ElementOfSeq
  <2>3. \A j \in (i + 1)..Len(wire) : wire[j] \in Byte  BY <1>1, <2>1, ElementOfSeq
  <2>4. /\ before \in Seq(Byte)
        /\ Len(before) = IF 1 <= i - 1 THEN (i - 1) - 1 + 1 ELSE 0
    BY <2>1, <2>2, SubSeqProperties
  <2>5. /\ behind \in Seq(Byte)
        /\ Len(behind) = IF i + 1 <= Len(wire) THEN Len(wire) - (i + 1) + 1 ELSE 0
    BY <1>1, <2>1, <2>3, SubSeqProperties
  <2>6. wire' = before \o behind  BY <1>3 DEF RemoveAt
  <2> HIDE DEF before, behind
  <2>7. wire' \in Seq(Byte) /\ Len(wire') = Len(before) + Len(behind)
    BY <2>4, <2>5, <2>6, ConcatProperties
  <2> QED  BY <1>1, <2>1, <2>4, <2>5, <2>7
<1>4. ASSUME NEW b \in Garbage, Len(wire) < MaxLine, wire' = Append(wire, b)
      PROVE  wire' \in Seq(Byte) /\ Len(wire') <= MaxLine
  <2>1. b \in Byte  BY FrameAssumption, Zenon
  <2> QED  BY <1>1, <1>4, <2>1, AppendProperties
<1>5. faults' \in 0..MaxFaults
  BY FrameAssumption DEF TypeOK, Damage
<1>6. wire' \in Seq(Byte) /\ Len(wire') <= MaxLine
  BY <1>2, <1>3, <1>4 DEF Damage
<1> QED  BY <1>5, <1>6

\* Initially nothing is under way.
LEMMA TypedInit == Init => TypedInv
<1> SUFFICES ASSUME Init PROVE TypedInv  OBVIOUS
<1>1. <<>> \in Seq(Byte) /\ <<>> \in Seq(Frame) /\ Len(<<>>) = 0  OBVIOUS
<1>2. TypeOK
  BY <1>1, FrameAssumption, MaxPayloadNat DEF Init, TypeOK, Overhead
<1>3. Fits(buf)  BY <1>1 DEF Init, Fits
<1> QED  BY <1>2, <1>3 DEF TypedInv

\* Every step of sender, line and receiver keeps the types and the room in the
\* buffer.
LEMMA TypedStep == TypedInv /\ [Next]_vars => TypedInv'
<1> SUFFICES ASSUME TypedInv, [Next]_vars PROVE TypedInv'  OBVIOUS
<1>0. /\ wire \in Seq(Byte) /\ Len(wire) \in Nat /\ Len(wire) <= MaxLine
      /\ buf \in Seq(Byte) /\ Len(buf) < Overhead + MaxPayload
      /\ flight \in Seq(Frame) /\ Len(flight) \in Nat /\ Len(flight) <= MaxBurst
      /\ got \in [type: Byte, payload: Seq(Byte)] \union {NoFrame}
      /\ parity \in {0, 1} /\ faults \in 0..MaxFaults /\ quiet \in BOOLEAN
      /\ Fits(buf) /\ MaxLine \in Nat /\ MaxBurst \in Nat /\ MaxFaults \in Nat
  BY FrameAssumption, LenProperties DEF TypedInv, TypeOK
<1>1. <<>> \in Seq(Byte) /\ <<>> \in Seq(Frame) /\ Len(<<>>) = 0
      /\ 0 < Overhead + MaxPayload /\ Fits(<<>>)
  BY MaxPayloadNat DEF Overhead, Fits
<1>2. ASSUME wire # <<>>, wire' = Tail(wire)
      PROVE  wire' \in Seq(Byte) /\ Len(wire') <= MaxLine
  <2>1. Tail(wire) \in Seq(Byte) /\ Len(Tail(wire)) = Len(wire) - 1
    BY <1>2, GrownBytes DEF TypedInv
  <2> QED  BY <1>0, <1>2, <2>1
<1>3. ASSUME NEW f \in Frame, Send(f) PROVE TypedInv'
  <2>1. Encode(f) \in Seq(Byte)  BY EncodedBytes
  <2>2. wire' \in Seq(Byte) /\ Len(wire') <= MaxLine
    BY <1>0, <1>3, <2>1, ConcatProperties DEF Send
  <2>3. flight' \in Seq(Frame) /\ Len(flight') <= MaxBurst
    BY <1>0, <1>3, AppendProperties DEF Send
  <2> QED  BY <1>0, <1>3, <2>2, <2>3 DEF Send, TypedInv, TypeOK, Fits
<1>4. CASE Damage
  <2>1. wire' \in Seq(Byte) /\ Len(wire') <= MaxLine /\ faults' \in 0..MaxFaults
    BY <1>4, DamageTyped DEF TypedInv
  <2> QED  BY <1>0, <1>4, <2>1 DEF Damage, fifo, TypedInv, TypeOK, Fits
<1>5. CASE Sync
  <2>1. buf' \in {<<SOF>>, <<>>}  BY <1>5 DEF Sync
  <2>2. SOF \in Byte  BY DEF SOF, Byte
  <2>3. buf' \in Seq(Byte) /\ (Len(buf') = 0 \/ Len(buf') = 1)
    <3>1. CASE buf' = <<SOF>>
      <4>1. <<SOF>> \in Seq(Byte) /\ Len(<<SOF>>) = 1  BY <2>2
      <4> QED  BY <3>1, <4>1
    <3>2. CASE buf' = <<>>
      BY <1>1, <3>2
    <3> QED  BY <2>1, <3>1, <3>2
  <2>4. Len(buf') < Overhead + MaxPayload /\ Fits(buf')
    BY <2>3, MaxPayloadNat DEF Overhead, Fits
  <2> QED  BY <1>0, <1>2, <1>5, <2>3, <2>4 DEF Sync, Reads, fifo, TypedInv, TypeOK
<1>6. CASE ReadByte
  <2>1. Grown \in Seq(Byte)  BY <1>6, GrownBytes DEF ReadByte, Reads, TypedInv
  <2>2. Fits(Grown) /\ Len(Grown) < Overhead + MaxPayload
    BY <1>6, GrownFits DEF ReadByte, Reads
  <2>3. buf' = Grown  BY <1>6 DEF ReadByte
  <2> QED
    BY <1>0, <1>2, <1>6, <2>1, <2>2, <2>3 DEF ReadByte, Reads, fifo, TypedInv, TypeOK
<1>7. CASE DropBogus
  BY <1>0, <1>1, <1>2, <1>7 DEF DropBogus, Reads, fifo, TypedInv, TypeOK
<1>8. CASE HandOver
  <2>1. got' \in [type: Byte, payload: Seq(Byte)]
    BY <1>8, DecodedTyped DEF HandOver, Reads
  <2>2. flight' \in Seq(Frame) /\ Len(flight') <= MaxBurst
    <3>1. flight' = Behind(Decoded(Grown))  BY <1>8 DEF HandOver
    <3> QED  BY <1>0, <3>1, BehindTyped
  <2>3. parity' \in {0, 1}  BY <1>0, <1>8 DEF HandOver
  <2>4. /\ buf' = <<>> /\ UNCHANGED <<faults, quiet>>
        /\ wire' \in Seq(Byte) /\ Len(wire') <= MaxLine
    BY <1>2, <1>8 DEF HandOver, Reads
  <2> QED  BY <1>0, <1>1, <2>1, <2>2, <2>3, <2>4 DEF TypedInv, TypeOK
<1>9. CASE Reject
  BY <1>0, <1>1, <1>2, <1>9 DEF Reject, Reads, fifo, TypedInv, TypeOK
<1>10. CASE Silence
  BY <1>0, <1>1, <1>10 DEF Silence, TypedInv, TypeOK
<1>11. CASE UNCHANGED vars
  BY <1>0, <1>11 DEF vars, link, fifo, TypedInv, TypeOK, Fits
<1> QED
  BY <1>3, <1>4, <1>5, <1>6, <1>7, <1>8, <1>9, <1>10, <1>11 DEF Next, Receive

\* Types and room hold always.
LEMMA TypedAlways == Spec => []TypedInv
<1>1. Init => TypedInv  BY TypedInit
<1>2. TypedInv /\ [Next]_vars => TypedInv'  BY TypedStep
<1> QED  BY <1>1, <1>2, PTL DEF Spec

\* For every set of frames, checksum, garbage and amount of damage: whatever
\* length a damaged header announces, the receive loop never holds more bytes
\* than a frame of the largest payload has (its buffer in rx_task is of that
\* size), and only well-formed frames are handed over.
THEOREM FramingTypeCorrect == Spec => []TypeOK
<1>1. TypedInv => TypeOK  BY DEF TypedInv
<1> QED  BY <1>1, TypedAlways, PTL

-----------------------------------------------------------------------------
(* An undamaged line.  The bytes that have been sent and not been handed   *)
(* over are the frames in flight, one behind the other: they can be cut    *)
(* at places cut[0], cut[1], ... into the encodings of these frames.       *)

CutsAt(cut, s, fs) ==
  /\ cut[0] = 0 /\ cut[Len(fs)] = Len(s)
  /\ \A i, j \in 0..Len(fs) : i <= j => cut[i] <= cut[j]
  /\ \A i \in 1..Len(fs) :
       /\ cut[i] = cut[i - 1] + Len(Encode(fs[i]))
       /\ \A k \in 1..Len(Encode(fs[i])) : s[cut[i - 1] + k] = Encode(fs[i])[k]

AreFrames(s, fs) == \E cut \in [0..Len(fs) -> Nat] : CutsAt(cut, s, fs)

\* Since the last silence nothing was damaged: buffer and wire are the frames in
\* flight, and the first of them has not come as a whole.
QuietInv ==
  quiet => /\ AreFrames(buf \o wire, flight)
           /\ flight # <<>> => Len(buf) < Len(Encode(flight[1]))

\* No bytes, no frames, and the other way round.
LEMMA NoFrames ==
  ASSUME NEW s \in Seq(Byte)
  PROVE  AreFrames(s, <<>>) <=> s = <<>>
<1>1. Len(<<>>) = 0 /\ Len(s) \in Nat /\ (Len(s) = 0 <=> s = <<>>)
  BY LenProperties, EmptySeq
<1>2. ASSUME AreFrames(s, <<>>) PROVE s = <<>>
  BY <1>1, <1>2 DEF AreFrames, CutsAt
<1>3. ASSUME s = <<>> PROVE AreFrames(s, <<>>)
  <2> DEFINE cut == [i \in 0..0 |-> 0]
  <2>1. cut \in [0..Len(<<>>) -> Nat]  BY <1>1
  <2>2. CutsAt(cut, s, <<>>)  BY <1>1, <1>3 DEF CutsAt
  <2> QED  BY <2>1, <2>2 DEF AreFrames
<1> QED  BY <1>2, <1>3

\* The bytes begin with the first frame.
LEMMA FirstFrameFirst ==
  ASSUME NEW s \in Seq(Byte), NEW fs \in Seq(Frame), fs # <<>>, AreFrames(s, fs)
  PROVE  /\ fs[1] \in Frame
         /\ Len(Encode(fs[1])) <= Len(s)
         /\ \A k \in 1..Len(Encode(fs[1])) : s[k] = Encode(fs[1])[k]
<1>1. Len(fs) \in Nat /\ Len(fs) >= 1  BY EmptySeq, LenProperties
<1>2. fs[1] \in Frame  BY <1>1, ElementOfSeq
<1>3. PICK cut \in [0..Len(fs) -> Nat] : CutsAt(cut, s, fs)  BY DEF AreFrames
<1> DEFINE e == Encode(fs[1])
<1>4. Len(e) \in Nat  BY <1>2, EncodedBytes, LenProperties
<1> HIDE DEF e
<1>5. /\ cut[0] = 0 /\ cut[1] = cut[1 - 1] + Len(e)
      /\ \A k \in 1..Len(e) : s[cut[1 - 1] + k] = e[k]
      /\ cut[1] <= cut[Len(fs)] /\ cut[Len(fs)] = Len(s)
  BY <1>1, <1>3 DEF CutsAt, e
<1>6. cut[1 - 1] = 0  BY <1>5
<1>7. Len(e) <= Len(s) /\ \A k \in 1..Len(e) : s[k] = e[k]
  BY <1>4, <1>5, <1>6
<1> QED  BY <1>2, <1>7 DEF e

\* A frame that is sent comes last.
LEMMA SentFrameLast ==
  ASSUME NEW s \in Seq(Byte), NEW fs \in Seq(Frame), NEW f \in Frame, AreFrames(s, fs)
  PROVE  AreFrames(s \o Encode(f), Append(fs, f))
<1> DEFINE n == Len(fs)  m == Len(s)  e == Encode(f)  gs == Append(fs, f)  t == s \o e
<1>1. n \in Nat /\ m \in Nat /\ e \in Seq(Byte) /\ Len(e) \in Nat
  BY EncodedBytes, LenProperties
<1>2. Len(gs) = n + 1 /\ gs[n + 1] = f /\ \A i \in 1..n : gs[i] = fs[i]
  BY AppendProperties
<1>3. /\ Len(t) = m + Len(e)
      /\ \A i \in 1..m + Len(e) : t[i] = IF i <= m THEN s[i] ELSE e[i - m]
  BY <1>1, ConcatProperties
<1>4. PICK cut \in [0..n -> Nat] : CutsAt(cut, s, fs)  BY DEF AreFrames
<1>5. /\ cut[0] = 0 /\ cut[n] = m
      /\ \A i, j \in 0..n : i <= j => cut[i] <= cut[j]
      /\ \A i \in 1..n :
           /\ cut[i] = cut[i - 1] + Len(Encode(fs[i]))
           /\ \A k \in 1..Len(Encode(fs[i])) : s[cut[i - 1] + k] = Encode(fs[i])[k]
  BY <1>4 DEF CutsAt
<1> DEFINE new == [i \in 0..n + 1 |-> IF i <= n THEN cut[i] ELSE m + Len(e)]
<1>6. /\ new \in [0..n + 1 -> Nat]
      /\ \A i \in 0..n : new[i] = cut[i]
      /\ new[n + 1] = m + Len(e)
  BY <1>1, <1>4
<1>7. \A i \in 0..n : cut[i] \in Nat /\ cut[i] <= m
  <2> HIDE DEF n, m, e, gs, t
  <2> SUFFICES ASSUME NEW i \in 0..n PROVE cut[i] \in Nat /\ cut[i] <= m  OBVIOUS
  <2>1. n \in 0..n /\ i <= n /\ cut[i] \in Nat  BY <1>1, <1>4
  <2>2. cut[i] <= cut[n]  BY <1>5, <2>1
  <2> QED  BY <1>5, <2>1, <2>2
<1>8. \A i \in 1..n : Encode(fs[i]) \in Seq(Byte) /\ Len(Encode(fs[i])) \in Nat
  <2> SUFFICES ASSUME NEW i \in 1..n
               PROVE  Encode(fs[i]) \in Seq(Byte) /\ Len(Encode(fs[i])) \in Nat
    OBVIOUS
  <2>1. fs[i] \in Frame  BY ElementOfSeq
  <2> QED  BY <2>1, EncodedBytes, LenProperties
<1>9. e = Encode(gs[n + 1])  BY <1>2
<1> HIDE DEF new, n, m, e, gs, t
<1>10. new[0] = 0 /\ new[Len(gs)] = Len(t)  BY <1>1, <1>2, <1>3, <1>5, <1>6
<1>11. \A i, j \in 0..Len(gs) : i <= j => new[i] <= new[j]
  <2> SUFFICES ASSUME NEW i \in 0..n + 1, NEW j \in 0..n + 1, i <= j
               PROVE  new[i] <= new[j]
    BY <1>2
  <2>1. CASE j \in 0..n
    <3>1. i \in 0..n  BY <1>1, <2>1
    <3> QED  BY <1>5, <1>6, <2>1, <3>1
  <2>2. CASE i \in 0..n /\ j = n + 1
    BY <1>1, <1>6, <1>7, <2>2
  <2>3. CASE i = n + 1 /\ j = n + 1
    BY <1>1, <1>6, <2>3
  <2> QED  BY <1>1, <2>1, <2>2, <2>3
<1>12. ASSUME NEW i \in 1..Len(gs)
       PROVE  /\ new[i] = new[i - 1] + Len(Encode(gs[i]))
              /\ \A k \in 1..Len(Encode(gs[i])) : t[new[i - 1] + k] = Encode(gs[i])[k]
  <2>1. CASE i = n + 1
    <3>1. Encode(gs[i]) = e /\ new[i] = m + Len(e) /\ i - 1 = n /\ new[i - 1] = m
      BY <1>1, <1>5, <1>6, <1>9, <2>1
    <3>2. \A k \in 1..Len(e) : t[m + k] = e[k]
      <4> SUFFICES ASSUME NEW k \in 1..Len(e) PROVE t[m + k] = e[k]  OBVIOUS
      <4>1. m + k \in 1..m + Len(e) /\ ~(m + k <= m) /\ (m + k) - m = k  BY <1>1
      <4> QED  BY <1>3, <4>1
    <3> QED  BY <3>1, <3>2
  <2>2. CASE i # n + 1
    <3>1. i \in 1..n /\ i - 1 \in 0..n /\ i \in 0..n  BY <1>1, <1>2, <2>2
    <3>2. /\ Encode(gs[i]) = Encode(fs[i]) /\ Len(Encode(fs[i])) \in Nat
          /\ new[i] = cut[i] /\ new[i - 1] = cut[i - 1]
          /\ cut[i] = cut[i - 1] + Len(Encode(fs[i]))
          /\ cut[i - 1] \in Nat /\ cut[i] \in Nat /\ cut[i] <= m
      BY <1>2, <1>5, <1>6, <1>7, <1>8, <3>1
    <3>3. ASSUME NEW k \in 1..Len(Encode(fs[i]))
          PROVE  t[cut[i - 1] + k] = Encode(fs[i])[k]
      <4>1. cut[i - 1] + k \in 1..m /\ cut[i - 1] + k \in 1..m + Len(e)
        BY <1>1, <3>2
      <4>2. t[cut[i - 1] + k] = s[cut[i - 1] + k]  BY <1>3, <4>1
      <4>3. s[cut[i - 1] + k] = Encode(fs[i])[k]  BY <1>5, <3>1
      <4> QED  BY <4>2, <4>3
    <3> QED  BY <3>2, <3>3
  <2> QED  BY <2>1, <2>2
<1>13. CutsAt(new, t, gs)  BY <1>10, <1>11, <1>12 DEF CutsAt
<1>14. new \in [0..Len(gs) -> Nat]  BY <1>2, <1>6
<1>15. AreFrames(t, gs)  BY <1>13, <1>14 DEF AreFrames
<1> QED  BY <1>15 DEF t, gs, e

\* Behind the first frame come the others.
LEMMA OthersBehindFirst ==
  ASSUME NEW t \in Seq(Byte), NEW fs \in Seq(Frame), fs # <<>>,
         AreFrames(Encode(fs[1]) \o t, fs)
  PROVE  AreFrames(t, Tail(fs))
<1> DEFINE n == Len(fs)  e == Encode(fs[1])  s == e \o t  gs == Tail(fs)  m == Len(e)
<1>1. n \in Nat /\ n >= 1 /\ Len(t) \in Nat  BY EmptySeq, LenProperties
<1>2. fs[1] \in Frame  BY <1>1, ElementOfSeq
<1>3. e \in Seq(Byte) /\ m \in Nat  BY <1>2, EncodedBytes, LenProperties
<1>4. Len(gs) = n - 1 /\ \A i \in 1..n - 1 : gs[i] = fs[i + 1]
  BY <1>1, HeadTailProperties
<1>5. /\ Len(s) = m + Len(t)
      /\ \A i \in 1..m + Len(t) : s[i] = IF i <= m THEN e[i] ELSE t[i - m]
  BY <1>3, ConcatProperties
<1>6. PICK cut \in [0..n -> Nat] : CutsAt(cut, s, fs)  BY DEF AreFrames
<1>7. /\ cut[0] = 0 /\ cut[n] = Len(s)
      /\ \A i, j \in 0..n : i <= j => cut[i] <= cut[j]
      /\ \A i \in 1..n :
           /\ cut[i] = cut[i - 1] + Len(Encode(fs[i]))
           /\ \A k \in 1..Len(Encode(fs[i])) : s[cut[i - 1] + k] = Encode(fs[i])[k]
  BY <1>6 DEF CutsAt
<1>8. \A i \in 1..n : Len(Encode(fs[i])) \in Nat
  <2> SUFFICES ASSUME NEW i \in 1..n PROVE Len(Encode(fs[i])) \in Nat  OBVIOUS
  <2>1. fs[i] \in Frame  BY ElementOfSeq
  <2> QED  BY <2>1, EncodedBytes, LenProperties
<1>9. cut[1] = m
  <2>1. cut[1] = cut[1 - 1] + Len(Encode(fs[1])) /\ cut[1 - 1] = 0  BY <1>1, <1>7
  <2> QED  BY <1>3, <2>1
<1> DEFINE new == [i \in 0..n - 1 |-> cut[i + 1] - m]
<1> HIDE DEF n, e, s, gs, m
<1>10. \A i \in 0..n - 1 : /\ i + 1 \in 1..n /\ cut[i + 1] \in Nat
                           /\ cut[i + 1] >= m /\ cut[i + 1] <= m + Len(t)
  BY <1>1, <1>3, <1>5, <1>6, <1>7, <1>9
<1>11. new \in [0..n - 1 -> Nat] /\ \A i \in 0..n - 1 : new[i] = cut[i + 1] - m
  BY <1>3, <1>10
<1> HIDE DEF new
<1>12. new[0] = 0 /\ new[Len(gs)] = Len(t)
  BY <1>1, <1>3, <1>4, <1>5, <1>7, <1>9, <1>11
<1>13. \A i, j \in 0..Len(gs) : i <= j => new[i] <= new[j]
  <2> SUFFICES ASSUME NEW i \in 0..n - 1, NEW j \in 0..n - 1, i <= j
               PROVE  new[i] <= new[j]
    BY <1>4
  <2>1. i + 1 \in 0..n /\ j + 1 \in 0..n /\ i + 1 <= j + 1  BY <1>1
  <2>2. cut[i + 1] <= cut[j + 1]  BY <1>7, <2>1
  <2> QED  BY <1>3, <1>10, <1>11, <2>2
<1>14. ASSUME NEW i \in 1..Len(gs)
       PROVE  /\ new[i] = new[i - 1] + Len(Encode(gs[i]))
              /\ \A k \in 1..Len(Encode(gs[i])) : t[new[i - 1] + k] = Encode(gs[i])[k]
  <2>1. i \in 1..n - 1 /\ i \in 0..n - 1 /\ i - 1 \in 0..n - 1 /\ i + 1 \in 1..n
        /\ (i - 1) + 1 = i /\ (i + 1) - 1 = i
    BY <1>1, <1>4
  <2>2. gs[i] = fs[i + 1]  BY <1>4, <2>1
  <2>3. /\ new[i] = cut[i + 1] - m /\ new[i - 1] = cut[i] - m
        /\ cut[i + 1] = cut[i] + Len(Encode(fs[i + 1]))
        /\ \A k \in 1..Len(Encode(fs[i + 1])) :
             s[cut[i] + k] = Encode(fs[i + 1])[k]
    <3>1. new[i] = cut[i + 1] - m /\ new[i - 1] = cut[(i - 1) + 1] - m
      BY <1>11, <2>1
    <3>2. /\ cut[i + 1] = cut[(i + 1) - 1] + Len(Encode(fs[i + 1]))
          /\ \A k \in 1..Len(Encode(fs[i + 1])) :
               s[cut[(i + 1) - 1] + k] = Encode(fs[i + 1])[k]
      BY <1>7, <2>1
    <3> QED  BY <2>1, <3>1, <3>2
  <2>4. /\ cut[i] \in Nat /\ cut[i] >= m /\ cut[i + 1] \in Nat
        /\ cut[i + 1] <= m + Len(t) /\ Len(Encode(fs[i + 1])) \in Nat
    <3>1. cut[(i - 1) + 1] \in Nat /\ cut[(i - 1) + 1] >= m  BY <1>10, <2>1
    <3> QED  BY <1>8, <1>10, <2>1, <3>1
  <2>5. new[i] = new[i - 1] + Len(Encode(fs[i + 1]))  BY <1>3, <2>3, <2>4
  <2>6. ASSUME NEW k \in 1..Len(Encode(fs[i + 1]))
        PROVE  t[new[i - 1] + k] = Encode(fs[i + 1])[k]
    <3>1. cut[i] + k \in 1..m + Len(t) /\ ~(cut[i] + k <= m)
          /\ (cut[i] + k) - m = new[i - 1] + k
      <4> DEFINE c == cut[i]  l == Len(Encode(fs[i + 1]))  d == cut[i + 1]
      <4>1. c \in Nat /\ c >= m /\ l \in Nat /\ d = c + l /\ d <= m + Len(t)
            /\ k \in 1..l /\ new[i - 1] = c - m
        BY <2>3, <2>4
      <4> HIDE DEF c, l, d
      <4>2. c + k \in 1..m + Len(t) /\ ~(c + k <= m) /\ (c + k) - m = (c - m) + k
        BY <1>1, <1>3, <4>1
      <4> QED  BY <4>1, <4>2 DEF c
    <3>2. s[cut[i] + k] = t[new[i - 1] + k]  BY <1>5, <3>1
    <3> QED  BY <2>3, <3>2
  <2> QED  BY <2>2, <2>5, <2>6
<1>15. CutsAt(new, t, gs)  BY <1>12, <1>13, <1>14 DEF CutsAt
<1>16. new \in [0..Len(gs) -> Nat]  BY <1>4, <1>11
<1>17. AreFrames(t, gs)  BY <1>15, <1>16 DEF AreFrames
<1> QED  BY <1>17 DEF gs

\* Reading a byte moves it from the wire to the buffer.
LEMMA ByteMoves ==
  ASSUME TypedInv, wire # <<>>
  PROVE  buf \o wire = Grown \o Tail(wire)
<1> DEFINE b == Len(buf)  w == Len(wire)  s == buf \o wire  t == Grown \o Tail(wire)
<1>1. /\ Grown \in Seq(Byte) /\ Len(Grown) = b + 1 /\ b \in Nat
      /\ \A i \in 1..b : Grown[i] = buf[i]
      /\ Grown[b + 1] = wire[1]
      /\ Tail(wire) \in Seq(Byte) /\ w \in Nat /\ Len(Tail(wire)) = w - 1
      /\ \A i \in 1..w - 1 : Tail(wire)[i] = wire[i + 1]
      /\ buf \in Seq(Byte) /\ wire \in Seq(Byte)
  BY GrownBytes DEF TypedInv, TypeOK
<1>2. /\ s \in Seq(Byte) /\ Len(s) = b + w
      /\ \A i \in 1..b + w : s[i] = IF i <= b THEN buf[i] ELSE wire[i - b]
  BY <1>1, ConcatProperties
<1>3. w >= 1  BY <1>1, EmptySeq
<1> DEFINE rest == Tail(wire)
<1> HIDE DEF b, w, s, rest
<1>4. Len(rest) = w - 1  BY <1>1 DEF rest
<1>5. /\ t \in Seq(Byte) /\ Len(t) = Len(Grown) + Len(rest)
      /\ \A i \in 1..Len(Grown) + Len(rest) :
           t[i] = IF i <= Len(Grown) THEN Grown[i] ELSE rest[i - Len(Grown)]
  BY <1>1, ConcatProperties DEF rest
<1> HIDE DEF t
<1>6. Len(t) = b + w  BY <1>1, <1>3, <1>4, <1>5
<1>7. ASSUME NEW i \in 1..b + w PROVE s[i] = t[i]
  <2>1. i \in 1..Len(Grown) + Len(rest)  BY <1>1, <1>3, <1>4
  <2>2. CASE i <= b
    BY <1>1, <1>2, <1>5, <2>1, <2>2
  <2>3. CASE i = b + 1
    <3>1. ~(i <= b) /\ i - b = 1 /\ i <= Len(Grown)  BY <1>1, <2>3
    <3> QED  BY <1>1, <1>2, <1>5, <2>1, <2>3, <3>1
  <2>4. CASE i > b + 1
    <3>1. /\ ~(i <= b) /\ ~(i <= Len(Grown)) /\ i - Len(Grown) = i - (b + 1)
          /\ i - (b + 1) \in 1..w - 1 /\ (i - (b + 1)) + 1 = i - b
      BY <1>1, <1>3, <2>4
    <3>2. rest[i - (b + 1)] = wire[i - b]  BY <1>1, <3>1 DEF rest
    <3>3. t[i] = rest[i - (b + 1)]  BY <1>5, <2>1, <3>1
    <3>4. s[i] = wire[i - b]  BY <1>2, <3>1
    <3> QED  BY <3>2, <3>3, <3>4
  <2> QED  BY <1>1, <2>2, <2>3, <2>4
<1>8. s = t  BY <1>2, <1>5, <1>6, <1>7, SeqEqual
<1> QED  BY <1>8 DEF s, t, rest

\* On an undamaged line the buffer with the next byte is the beginning of the
\* first frame in flight.
LEMMA GrownIsFirst ==
  ASSUME TypedInv, QuietInv, quiet, wire # <<>>
  PROVE  /\ flight # <<>> /\ flight[1] \in Frame
         /\ Len(Grown) \in Nat /\ Len(Grown) <= Len(Encode(flight[1]))
         /\ \A k \in 1..Len(Grown) : Grown[k] = Encode(flight[1])[k]
<1>1. /\ Grown \in Seq(Byte) /\ Len(Grown) = Len(buf) + 1 /\ Len(buf) \in Nat
      /\ Tail(wire) \in Seq(Byte) /\ flight \in Seq(Frame)
      /\ buf \in Seq(Byte) /\ wire \in Seq(Byte)
  BY GrownBytes DEF TypedInv, TypeOK
<1> DEFINE s == buf \o wire  e == Encode(flight[1])
<1>2. s \in Seq(Byte) /\ s = Grown \o Tail(wire)
  BY <1>1, ByteMoves, ConcatProperties
<1>3. AreFrames(s, flight) /\ (flight # <<>> => Len(buf) < Len(e))
  BY DEF QuietInv
<1>4. s # <<>>  BY <1>1, ConcatEqualIffEmpty
<1>5. flight # <<>>
  <2> SUFFICES ASSUME flight = <<>> PROVE FALSE  OBVIOUS
  <2>1. AreFrames(s, <<>>)  BY <1>3
  <2> HIDE DEF s
  <2> QED  BY <1>2, <1>4, <2>1, NoFrames
<1>6. /\ flight[1] \in Frame /\ Len(e) <= Len(s)
      /\ \A k \in 1..Len(e) : s[k] = e[k]
  <2> HIDE DEF s
  <2> QED  BY <1>1, <1>2, <1>3, <1>5, FirstFrameFirst
<1>7. Len(e) \in Nat  BY <1>6, EncodedBytes, LenProperties
<1>8. Len(Grown) <= Len(e)  BY <1>1, <1>3, <1>5, <1>7
<1>9. \A k \in 1..Len(Grown) : s[k] = Grown[k]
  <2>1. Len(Tail(wire)) \in Nat  BY <1>1, LenProperties
  <2>2. \A k \in 1..Len(Grown) + Len(Tail(wire)) :
          s[k] = IF k <= Len(Grown) THEN Grown[k] ELSE Tail(wire)[k - Len(Grown)]
    <3> HIDE DEF s
    <3> QED  BY <1>1, <1>2, ConcatProperties
  <2> HIDE DEF s
  <2> QED  BY <1>1, <2>1, <2>2
<1>10. \A k \in 1..Len(Grown) : Grown[k] = e[k]
  <2> HIDE DEF s, e
  <2> QED  BY <1>1, <1>6, <1>7, <1>8, <1>9
<1> QED  BY <1>1, <1>5, <1>6, <1>8, <1>10

\* So its length field is that of the frame, and it is complete exactly when
\* all of the frame has come.
LEMMA GrownFollowsFirst ==
  ASSUME TypedInv, QuietInv, quiet, wire # <<>>
  PROVE  /\ ~BogusLength(Grown)
         /\ Complete(Grown) <=> Len(Grown) = Len(Encode(flight[1]))
         /\ Complete(Grown) => Grown = Encode(flight[1])
<1> DEFINE e == Encode(flight[1])  n == Len(flight[1].payload)
<1>1. /\ flight[1] \in Frame /\ Len(Grown) \in Nat /\ Len(Grown) <= Len(e)
      /\ \A k \in 1..Len(Grown) : Grown[k] = e[k]
  BY GrownIsFirst
<1>2. n \in Nat /\ n <= MaxPayload  BY <1>1, FrameFields, LenProperties
<1>3. e \in Seq(Byte) /\ Len(e) = 6 + n /\ PayloadLen(e) = n
  BY <1>1, EncodedBytes DEF Overhead
<1>4. Grown \in Seq(Byte)  BY GrownBytes DEF TypedInv
<1> HIDE DEF e, n
<1>5. Len(Grown) >= 4 => PayloadLen(Grown) = n
  <2> SUFFICES ASSUME Len(Grown) >= 4 PROVE PayloadLen(Grown) = n  OBVIOUS
  <2>1. Grown[3] = e[3] /\ Grown[4] = e[4]  BY <1>1
  <2> QED  BY <1>3, <2>1 DEF PayloadLen
<1>6. ~BogusLength(Grown)
  <2> SUFFICES ASSUME BogusLength(Grown) PROVE FALSE  OBVIOUS
  <2>1. Len(Grown) = 4 /\ PayloadLen(Grown) > MaxPayload  BY DEF BogusLength
  <2>2. PayloadLen(Grown) = n  BY <1>5, <2>1
  <2> QED  BY <1>2, <2>1, <2>2, MaxPayloadNat
<1>7. Complete(Grown) <=> Len(Grown) = Len(e)
  BY <1>1, <1>2, <1>3, <1>5 DEF Complete, Overhead
<1>8. Complete(Grown) => Grown = e
  BY <1>1, <1>3, <1>4, <1>7, SeqEqual
<1> QED  BY <1>6, <1>7, <1>8 DEF e

\* A byte that does not end a frame leaves the invariant as it is.
LEMMA KeptByteKeepsQuiet ==
  ASSUME TypedInv, QuietInv, quiet, wire # <<>>, ~Complete(Grown),
         wire' = Tail(wire), buf' = Grown, flight' = flight
  PROVE  QuietInv'
<1>1. AreFrames(buf \o wire, flight)  BY DEF QuietInv
<1>2. buf' \o wire' = buf \o wire
  <2>1. buf' \o wire' = Grown \o Tail(wire)  OBVIOUS
  <2> QED  BY <2>1, ByteMoves
<1>3. AreFrames(buf' \o wire', flight')  BY <1>1, <1>2
<1>4. flight[1] \in Frame /\ Len(Grown) \in Nat /\ Len(Grown) <= Len(Encode(flight[1]))
  BY GrownIsFirst
<1>5. Len(Encode(flight[1])) \in Nat  BY <1>4, EncodedBytes, LenProperties
<1>6. Len(Grown) < Len(Encode(flight[1]))  BY <1>4, <1>5, GrownFollowsFirst
<1> QED  BY <1>3, <1>6 DEF QuietInv

\* The last byte of a frame hands it over, and the next one comes first.
LEMMA HandOverIsFirst ==
  ASSUME TypedInv, QuietInv, quiet, HandOver
  PROVE  /\ flight # <<>> /\ got' = Head(flight) /\ flight' = Tail(flight)
         /\ parity' # parity
         /\ QuietInv'
<1> DEFINE f == flight[1]  n == Len(flight)
<1>1. /\ wire # <<>> /\ wire' = Tail(wire) /\ buf' = <<>> /\ Complete(Grown)
      /\ got' = Decoded(Grown) /\ flight' = Behind(Decoded(Grown))
      /\ parity' = 1 - parity
  BY DEF HandOver, Reads
<1>2. /\ flight # <<>> /\ f \in Frame /\ flight \in Seq(Frame)
      /\ Tail(wire) \in Seq(Byte)
  BY <1>1, GrownIsFirst, GrownBytes DEF TypedInv, TypeOK
<1>3. Grown = Encode(f)  BY <1>1, GrownFollowsFirst
<1>4. Decoded(Grown) = f  BY <1>2, <1>3, DecodeUndoesEncode
<1>5. n \in Nat /\ n >= 1 /\ DOMAIN flight = 1..n
  BY <1>2, EmptySeq, LenProperties
<1>6. Behind(f) = Tail(flight)
  <2> DEFINE First(i) == flight[i] = f /\ \A j \in 1..(i - 1) : flight[j] # f
             first == CHOOSE i \in DOMAIN flight : First(i)
  <2>1. 1 \in DOMAIN flight /\ First(1)  BY <1>5
  <2>2. first \in DOMAIN flight /\ First(first)  BY <2>1
  <2>3. first = 1
    <3> HIDE DEF first, f
    <3>1. first \in 1..n /\ \A j \in 1..(first - 1) : flight[j] # f
      BY <1>5, <2>2
    <3>2. flight[1] = f  BY DEF f
    <3> QED  BY <1>5, <3>1, <3>2
  <2>4. Behind(f) = SubSeq(flight, first + 1, Len(flight))
    BY <2>1 DEF Behind
  <2>5. Behind(f) = SubSeq(flight, 2, Len(flight))
    <3> HIDE DEF first, f
    <3> QED  BY <2>3, <2>4
  <2> QED  BY <1>2, <2>5, TailIsSubSeq
<1>7. flight' = Tail(flight)  BY <1>1, <1>4, <1>6
<1>8. got' = Head(flight)  BY <1>1, <1>2, <1>4
<1>9. parity' # parity  BY <1>1 DEF TypedInv, TypeOK
<1>10. AreFrames(Tail(wire), Tail(flight))
  <2>1. AreFrames(Encode(f) \o Tail(wire), flight)
    BY <1>1, <1>3, ByteMoves DEF QuietInv
  <2> QED  BY <1>2, <2>1, OthersBehindFirst
<1>11. buf' \o wire' = Tail(wire)
  <2>1. buf' \o wire' = <<>> \o Tail(wire)  BY <1>1
  <2> QED  BY <1>2, <2>1, ConcatEmptySeq
<1>12. AreFrames(buf' \o wire', flight')  BY <1>7, <1>10, <1>11
<1>13. flight' # <<>> => Len(buf') < Len(Encode(flight'[1]))
  <2> SUFFICES ASSUME flight' # <<>> PROVE Len(buf') < Len(Encode(flight'[1]))
    OBVIOUS
  <2>1. flight' \in Seq(Frame)  BY <1>2, <1>7, HeadTailProperties
  <2>2. flight'[1] \in Frame
    <3>1. Len(flight') \in Nat /\ Len(flight') >= 1
      BY <2>1, EmptySeq, LenProperties
    <3> QED  BY <2>1, <3>1, ElementOfSeq
  <2>3. /\ Len(Encode(flight'[1])) = 6 + Len(flight'[1].payload)
        /\ Len(flight'[1].payload) \in Nat
    <3>1. \A g \in Frame : /\ Len(Encode(g)) = 6 + Len(g.payload)
                           /\ Len(g.payload) \in Nat
      BY EncodedBytes, FrameFields, LenProperties DEF Overhead
    <3> QED  BY <2>2, <3>1
  <2>4. Len(buf') = 0  BY <1>1
  <2> QED  BY <2>3, <2>4
<1> QED  BY <1>2, <1>7, <1>8, <1>9, <1>12, <1>13 DEF QuietInv

\* Once all bytes of an undamaged line have been read, no frame is in flight.
LEMMA ReadToTheEnd ==
  ASSUME TypedInv, QuietInv, quiet, wire = <<>>
  PROVE  flight = <<>>
<1> SUFFICES ASSUME flight # <<>> PROVE FALSE  OBVIOUS
<1>1. buf \in Seq(Byte) /\ flight \in Seq(Frame)  BY DEF TypedInv, TypeOK
<1>2. buf \o wire = buf  BY <1>1, ConcatEmptySeq
<1>3. AreFrames(buf, flight) /\ Len(buf) < Len(Encode(flight[1]))
  BY <1>2 DEF QuietInv
<1>4. flight[1] \in Frame /\ Len(Encode(flight[1])) <= Len(buf)
  BY <1>1, <1>3, FirstFrameFirst
<1>5. Len(buf) \in Nat /\ Len(Encode(flight[1])) \in Nat
  BY <1>1, <1>4, EncodedBytes, LenProperties
<1> QED  BY <1>3, <1>4, <1>5

\* An empty line is in order.
LEMMA EmptyLine == AreFrames(<<>> \o <<>>, <<>>)
<1>1. <<>> \in Seq(Byte) /\ <<>> \o <<>> = <<>>  BY ConcatEmptySeq, EmptySeq
<1> QED  BY <1>1, NoFrames

\* What an undamaged line may do: nothing, take a frame, hand over the oldest.
InOrderStep ==
  \/ flight' = flight /\ UNCHANGED <<got, parity>>
  \/ \E f \in Frame : flight' = Append(flight, f) /\ UNCHANGED <<got, parity>>
  \/ /\ flight # <<>> /\ flight' = Tail(flight)
     /\ got' = Head(flight) /\ parity' = 1 - parity

\* Every step of an undamaged line is one of these.
LEMMA QuietStep ==
  ASSUME TypedInv, QuietInv, [Next]_vars
  PROVE  /\ QuietInv'
         /\ quiet => InOrderStep
<1>0. /\ wire \in Seq(Byte) /\ buf \in Seq(Byte) /\ flight \in Seq(Frame)
      /\ Len(buf) \in Nat
  BY LenProperties DEF TypedInv, TypeOK
<1>1. ASSUME NEW f \in Frame, Send(f)
      PROVE  QuietInv' /\ (quiet => InOrderStep)
  <2>1. /\ wire' = wire \o Encode(f) /\ flight' = Append(flight, f)
        /\ UNCHANGED <<buf, got, parity, quiet>>
    BY <1>1 DEF Send
  <2>2. Encode(f) \in Seq(Byte)  BY EncodedBytes
  <2>3. quiet => AreFrames(buf' \o wire', flight')
    <3> SUFFICES ASSUME quiet PROVE AreFrames(buf' \o wire', flight')  OBVIOUS
    <3>1. AreFrames(buf \o wire, flight) /\ buf \o wire \in Seq(Byte)
      BY <1>0, ConcatProperties DEF QuietInv
    <3>2. AreFrames((buf \o wire) \o Encode(f), Append(flight, f))
      <4> DEFINE s == buf \o wire
      <4>1. s \in Seq(Byte) /\ AreFrames(s, flight)  BY <3>1
      <4> HIDE DEF s
      <4>2. AreFrames(s \o Encode(f), Append(flight, f))
        BY <1>0, <4>1, SentFrameLast
      <4> QED  BY <4>2 DEF s
    <3>3. (buf \o wire) \o Encode(f) = buf \o (wire \o Encode(f))
      BY <1>0, <2>2, ConcatAssociative
    <3> QED  BY <2>1, <3>2, <3>3
  <2>4. quiet => Len(buf') < Len(Encode(flight'[1]))
    <3> SUFFICES ASSUME quiet PROVE Len(buf') < Len(Encode(flight'[1]))  OBVIOUS
    <3>1. CASE flight = <<>>
      <4>1. buf = <<>>
        <5>1. AreFrames(buf \o wire, <<>>) /\ buf \o wire \in Seq(Byte)
          BY <1>0, <3>1, ConcatProperties DEF QuietInv
        <5>2. buf \o wire = <<>>
          <6> DEFINE s == buf \o wire
          <6>1. s \in Seq(Byte) /\ AreFrames(s, <<>>)  BY <5>1
          <6> HIDE DEF s
          <6>2. s = <<>>  BY <6>1, NoFrames
          <6> QED  BY <6>2 DEF s
        <5> QED  BY <1>0, <5>2, ConcatEqualIffEmpty
      <4>2. flight'[1] = f  BY <2>1, <3>1
      <4>3. Len(Encode(f)) = 6 + Len(f.payload) /\ Len(f.payload) \in Nat
        BY EncodedBytes, FrameFields, LenProperties DEF Overhead
      <4>4. Len(buf') = 0  BY <2>1, <4>1
      <4> QED  BY <4>2, <4>3, <4>4
    <3>2. CASE flight # <<>>
      <4>1. flight'[1] = flight[1]
        <5>1. Len(flight) \in Nat /\ Len(flight) >= 1
          BY <1>0, <3>2, EmptySeq, LenProperties
        <5> QED  BY <1>0, <2>1, <5>1, AppendProperties
      <4> QED  BY <2>1, <3>2, <4>1 DEF QuietInv
    <3> QED  BY <3>1, <3>2
  <2>5. QuietInv'  BY <2>1, <2>3, <2>4 DEF QuietInv
  <2>6. InOrderStep  BY <2>1 DEF InOrderStep
  <2> QED  BY <2>5, <2>6
<1>2. CASE Damage
  BY <1>2 DEF Damage, fifo, QuietInv, InOrderStep
<1>3. CASE Sync
  <2>1. /\ buf = <<>> /\ wire # <<>> /\ wire' = Tail(wire)
        /\ buf' = IF Head(wire) = SOF THEN <<SOF>> ELSE <<>>
        /\ UNCHANGED <<flight, got, parity, quiet>>
    BY <1>3 DEF Sync, Reads, fifo
  <2>2. ASSUME quiet PROVE QuietInv'
    <3>1. /\ flight[1] \in Frame /\ Len(Grown) \in Nat
          /\ \A k \in 1..Len(Grown) : Grown[k] = Encode(flight[1])[k]
      BY <2>1, <2>2, GrownIsFirst
    <3>2. Grown = <<Head(wire)>> /\ Len(Grown) = 1 /\ Grown[1] = Head(wire)
      BY <2>1 DEF Grown
    <3>3. Head(wire) = SOF
      <4>1. Grown[1] = Encode(flight[1])[1]  BY <3>1, <3>2
      <4>2. Encode(flight[1])[1] = SOF  BY <3>1, EncodedBytes
      <4> QED  BY <3>2, <4>1, <4>2
    <3>4. buf' = Grown  BY <2>1, <3>2, <3>3
    <3>5. ~Complete(Grown)  BY <3>2 DEF Complete
    <3> QED  BY <2>1, <2>2, <3>4, <3>5, KeptByteKeepsQuiet
  <2>3. ~quiet => QuietInv'  BY <2>1 DEF QuietInv
  <2> QED  BY <2>1, <2>2, <2>3 DEF InOrderStep
<1>4. CASE ReadByte
  <2>1. /\ wire # <<>> /\ wire' = Tail(wire) /\ buf' = Grown /\ ~Complete(Grown)
        /\ UNCHANGED <<flight, got, parity, quiet>>
    BY <1>4 DEF ReadByte, Reads, fifo
  <2>2. quiet => QuietInv'  BY <2>1, KeptByteKeepsQuiet
  <2>3. ~quiet => QuietInv'  BY <2>1 DEF QuietInv
  <2> QED  BY <2>1, <2>2, <2>3 DEF InOrderStep
<1>5. CASE DropBogus
  <2>1. /\ wire # <<>> /\ BogusLength(Grown)
        /\ UNCHANGED <<flight, got, parity, quiet>>
    BY <1>5 DEF DropBogus, Reads, fifo
  <2>2. ~quiet  BY <2>1, GrownFollowsFirst
  <2> QED  BY <2>1, <2>2 DEF QuietInv
<1>6. CASE HandOver
  <2>1. UNCHANGED quiet /\ parity' = 1 - parity  BY <1>6 DEF HandOver
  <2>2. quiet => QuietInv' /\ InOrderStep
    BY <1>6, <2>1, HandOverIsFirst DEF InOrderStep
  <2>3. ~quiet => QuietInv'  BY <2>1 DEF QuietInv
  <2> QED  BY <2>2, <2>3
<1>7. CASE Reject
  <2>1. /\ wire # <<>> /\ Complete(Grown) /\ DecodeStatus(Grown) # "OK"
        /\ UNCHANGED <<flight, got, parity, quiet>>
    BY <1>7 DEF Reject, Reads, fifo
  <2>2. ~quiet
    <3> SUFFICES ASSUME quiet PROVE FALSE  OBVIOUS
    <3>1. flight[1] \in Frame /\ Grown = Encode(flight[1])
      BY <2>1, GrownIsFirst, GrownFollowsFirst
    <3> QED  BY <2>1, <3>1, DecodeUndoesEncode
  <2> QED  BY <2>1, <2>2 DEF QuietInv
<1>8. CASE Silence
  <2>1. /\ wire = <<>> /\ wire' = <<>> /\ buf' = <<>> /\ flight' = <<>>
        /\ UNCHANGED <<got, parity>>
    BY <1>8 DEF Silence
  <2>2. QuietInv'
    <3>1. AreFrames(buf' \o wire', flight')  BY <2>1, EmptyLine
    <3> QED  BY <2>1, <3>1 DEF QuietInv
  <2>3. quiet => flight = <<>>  BY <2>1, ReadToTheEnd
  <2> QED  BY <2>1, <2>2, <2>3 DEF InOrderStep
<1>9. CASE UNCHANGED vars
  BY <1>9 DEF vars, link, fifo, QuietInv, InOrderStep, AreFrames, CutsAt
<1> QED
  BY <1>1, <1>2, <1>3, <1>4, <1>5, <1>6, <1>7, <1>8, <1>9 DEF Next, Receive

\* The stream of an undamaged line is in order always.
LEMMA QuietAlways == Spec => [](TypedInv /\ QuietInv)
<1>1. Init => TypedInv /\ QuietInv
  <2> SUFFICES ASSUME Init PROVE TypedInv /\ QuietInv  OBVIOUS
  <2>1. wire = <<>> /\ buf = <<>> /\ flight = <<>>  BY DEF Init
  <2>2. AreFrames(buf \o wire, flight)  BY <2>1, EmptyLine
  <2> QED  BY <2>1, <2>2, TypedInit DEF QuietInv
<1>2. (TypedInv /\ QuietInv) /\ [Next]_vars => (TypedInv /\ QuietInv)'
  BY TypedStep, QuietStep
<1> QED  BY <1>1, <1>2, PTL DEF Spec

\* For every set of frames and every checksum: as long as no byte is damaged
\* after a silence, rx_task hands over the frames one by one and skips none,
\* whatever garbage came before the silence.
THEOREM UndamagedLineSkipsNothing == Spec => NothingSkipped
<1>1. (TypedInv /\ QuietInv) /\ [Next]_vars
        => [quiet =>
              \/ flight' = flight
              \/ \E f \in Frame : flight' = Append(flight, f)
              \/ parity' # parity /\ flight # <<>> /\ flight' = Tail(flight)
                   /\ got' = Head(flight)]_vars
  <2> SUFFICES ASSUME TypedInv, QuietInv, [Next]_vars, quiet
               PROVE  \/ flight' = flight
                      \/ \E f \in Frame : flight' = Append(flight, f)
                      \/ parity' # parity /\ flight # <<>> /\ flight' = Tail(flight)
                           /\ got' = Head(flight)
    OBVIOUS
  <2>1. InOrderStep  BY QuietStep
  <2>2. parity \in {0, 1}  BY DEF TypedInv, TypeOK
  <2>3. 1 - parity # parity  BY <2>2
  <2> QED  BY <2>1, <2>3 DEF InOrderStep
<1> QED  BY <1>1, QuietAlways, PTL DEF Spec, NothingSkipped

\* A line that nobody ever damages implements the abstract link: the frames come
\* in the order in which they were sent, each once, whatever the checksum.
THEOREM UndamagedLineIsFifo == Spec /\ []quiet => FramesInOrder
<1>1. Init => Fifo!Init  BY DEF Init, Fifo!Init
<1>2. (TypedInv /\ QuietInv) /\ quiet /\ [Next]_vars
        => [Fifo!Next]_<<flight, got, parity>>
  <2> SUFFICES ASSUME TypedInv, QuietInv, quiet, [Next]_vars
               PROVE  [Fifo!Next]_<<flight, got, parity>>
    OBVIOUS
  <2>0. flight \in Seq(Frame)  BY DEF TypedInv, TypeOK
  <2>1. InOrderStep  BY QuietStep
  <2>2. CASE UNCHANGED <<flight, got, parity>>
    BY <2>2
  <2>3. ASSUME NEW f \in Frame, flight' = Append(flight, f), UNCHANGED <<got, parity>>
        PROVE  Fifo!Next
    BY <2>3 DEF Fifo!Next, Fifo!Send
  <2>4. ASSUME flight # <<>>, flight' = Tail(flight), got' = Head(flight),
               parity' = 1 - parity
        PROVE  Fifo!Next
    <3>1. Len(flight) \in Nat /\ Len(flight) >= 1 /\ DOMAIN flight = 1..Len(flight)
      BY <2>0, <2>4, EmptySeq, LenProperties
    <3>2. 1 \in DOMAIN flight /\ Head(flight) = flight[1]  BY <2>0, <2>4, <3>1
    <3>3. Tail(flight) = SubSeq(flight, 1 + 1, Len(flight))
      BY <2>0, <2>4, TailIsSubSeq
    <3>4. Fifo!Deliver(1)
      BY <2>4, <3>2, <3>3 DEF Fifo!Deliver, Fifo!After
    <3> QED  BY <3>2, <3>4 DEF Fifo!Next
  <2> QED  BY <2>1, <2>2, <2>3, <2>4 DEF InOrderStep
<1> QED  BY <1>1, <1>2, QuietAlways, PTL DEF Spec, FramesInOrder, Fifo!Spec
=============================================================================
