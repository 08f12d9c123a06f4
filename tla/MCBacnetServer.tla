---------------------------- MODULE MCBacnetServer ----------------------------
(***************************************************************************)
(* BacnetServer over a zone of one device, with two transports.            *)
(***************************************************************************)
EXTENDS BacnetServer

CONSTANTS d1, x1, e1

MCBinding(c, a) == [category |-> c, device |-> d1, attr |-> a]
MCDescriptors ==
  {[space |-> x1, enabled |-> TRUE,
    bindings |-> {MCBinding("TEMPERATURE", "temperature"),
                  MCBinding("DRY_CONTACT", "dry_contact")}]}

MCReports == {<<"temperature", 20>>, <<"dry_contact", 1>>, <<"dry_contact", 0>>}
=============================================================================
