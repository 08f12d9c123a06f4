------------------------------ MODULE ClusterMap ------------------------------
(***************************************************************************)
(* firmware-c6/components/cluster_map/cluster_map.c: the table of the      *)
(* (cluster, attribute) pairs the firmware understands, with the category  *)
(* and the plausible range of each, in engineering units.  A pair is       *)
(* called by the name of what it measures.                                 *)
(***************************************************************************)
EXTENDS Integers

\* The five rows of CLUSTER_MAP.
Mapped == {"temperature", "humidity", "co2", "dry_contact", "battery"}

\* A pair without a row.
Attribute == Mapped \union {"unmapped"}

\* data_category_t of a row; cluster_map_category answers UNKNOWN without a row.
CategoryOf(a) ==
  CASE a = "temperature" -> "TEMPERATURE" [] a = "humidity"    -> "HUMIDITY"
    [] a = "co2"         -> "CO2"         [] a = "dry_contact" -> "DRY_CONTACT"
    [] a = "battery"     -> "BATTERY"     [] OTHER             -> "UNKNOWN"

\* min_plausible and max_plausible.
PlausibleRange(a) ==
  CASE a = "temperature" -> -40..80 [] a = "humidity"    -> 0..100
    [] a = "co2"         -> 0..5000 [] a = "dry_contact" -> 0..1
    [] a = "battery"     -> 0..100
=============================================================================
