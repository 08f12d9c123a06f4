---------------------------- MODULE MCSensorState ----------------------------
(***************************************************************************)
(* SensorState on a small instance: more devices than the device table     *)
(* holds, one equipment of two devices that can move between two spaces.   *)
(***************************************************************************)
EXTENDS SensorState, TLC

CONSTANTS d1, d2, d3, e1, e2, x1, x2

MCBinding(c, d, a) == [category |-> c, device |-> d, attr |-> a]

\* Both devices' temperatures and the contact of d1; or only d2.
Both(x) == [space |-> x, enabled |-> TRUE, bindings |->
  {MCBinding("TEMPERATURE", d1, "temperature"), MCBinding("DRY_CONTACT", d1, "dry_contact"),
   MCBinding("TEMPERATURE", d2, "temperature")}]
OnlyTwo(x, on) == [space |-> x, enabled |-> on, bindings |->
  {MCBinding("TEMPERATURE", d2, "temperature")}]

MCDescriptors == {Both(x1), OnlyTwo(x1, TRUE), OnlyTwo(x2, FALSE)}

\* Equipment ids are interchangeable, devices are not (the bindings name them).
MCSymmetry == Permutations({e1, e2})

\* 90 is implausible; the sums of two temperatures are even.
MCReports == {<<"temperature", 20>>, <<"temperature", 22>>, <<"temperature", 90>>, <<"dry_contact", 1>>,
              <<"dry_contact", 0>>, <<"battery", 50>>, <<"battery", 80>>,
              <<"unmapped", 1>>}
=============================================================================
