---------------------------- MODULE ClusterHandler ----------------------------
(***************************************************************************)
(* firmware-h2/components/zigbee_coordinator/zigbee_cluster_handler.c: how *)
(* the H2 turns the bytes of a ZCL attribute into the value of a report,   *)
(* and which values it forwards.  Its table ATTR_MAP is kept by hand next  *)
(* to the C6's (ClusterMap).                                               *)
(*                                                                         *)
(* Values are whole engineering units; the range check is exact, by        *)
(* multiplying the bounds with the divisor of the scale.  The four bytes   *)
(* of a float (type "single") are abstracted to the number they encode.    *)
(***************************************************************************)
EXTENDS ClusterMap, Sequences, FiniteSetsExt

\* type_width.  Any other type is not decodable.
Width == [bool |-> 1, u8 |-> 1, s8 |-> 1, u16 |-> 2, s16 |-> 2, u24 |-> 3,
          u32 |-> 4, s32 |-> 4, single |-> 4]

\* ATTR_MAP: the pairs with VAL_BINARY, the divisor of scale, the range.
Binary == {"dry_contact"}

Divisor(a) ==
  CASE a \in {"temperature", "humidity"} -> 100
    [] a = "battery" -> 2
    [] OTHER -> 1

\* The temperature row copied from another sensor's sheet.
ForwardRangeWide(a) ==
  CASE a = "temperature" -> <<-55, 125>> [] a = "humidity" -> <<0, 100>>
    [] a = "co2"         -> <<0, 5000>>  [] a = "battery"  -> <<0, 100>>

\* min_plausible and max_plausible of the analog rows.
ForwardRange(a) ==
  CASE a = "temperature" -> <<-40, 80>> [] a = "humidity" -> <<0, 100>>
    [] a = "co2"         -> <<0, 5000>> [] a = "battery"  -> <<0, 100>>

\* A ZCL attribute as it arrives: bytes little-endian, of some length.
Decodable(r) == r.type \in DOMAIN Width /\ Len(r.bytes) >= Width[r.type]

\* Byte i, the topmost of a signed type with its sign.
SignedByte(r, i) ==
  IF r.type \in {"s8", "s16", "s32"} /\ i = Width[r.type] /\ r.bytes[i] >= 128
  THEN r.bytes[i] - 256 ELSE r.bytes[i]

\* decode_raw.
RawValue(r) ==
  IF r.type = "single" THEN r.number
  ELSE MapThenSumSet(LAMBDA i : SignedByte(r, i) * 256^(i - 1), 1..Width[r.type])

Plausible(a, raw) ==
  raw \in ForwardRange(a)[1] * Divisor(a) .. ForwardRange(a)[2] * Divisor(a)

\* zigbee_cluster_handler_process answers ESP_OK.
Forwarded(r) ==
  /\ r.attr \in Mapped
  /\ Decodable(r)
  /\ r.attr \notin Binary => Plausible(r.attr, RawValue(r))

\* The value of the report: value_bool as 0 or 1, or value_float.
ReportValue(r) ==
  IF r.attr \in Binary
  THEN IF RawValue(r) # 0 THEN 1 ELSE 0
  ELSE RawValue(r) \div Divisor(r.attr)
=============================================================================
