---------------------------- MODULE MCThermostat ----------------------------
(***************************************************************************)
(* Thermostat with one zone, one two-sensor device and one equipment.      *)
(***************************************************************************)
EXTENDS Thermostat

CONSTANTS d1, x1, e1

MCBinding(c, a) == [category |-> c, device |-> d1, attr |-> a]
MCDescriptors ==
  {[space |-> x1, enabled |-> TRUE,
    bindings |-> {MCBinding("TEMPERATURE", "temperature"),
                  MCBinding("DRY_CONTACT", "dry_contact")}]}

\* 18 calls for heat; 24 does not.
MCReports == {<<"temperature", 18>>, <<"dry_contact", 0>>, <<"dry_contact", 1>>}
MCLocalTemps == {24}

MCRecipes ==
  {[hvac_mode |-> "AUTO", setpoint_heat |-> 20, setpoint_cool |-> 23,
    deadband |-> 1, lockout |-> TRUE], Decision!ZeroRecipe}
\* As in the firmware today, nobody reports a device offline.
MCNext == ThermostatNext /\ \A d \in Device : online[d] => online'[d]
MCSpec == ThermostatInit /\ [][MCNext]_thermostatVars /\ Fairness
=============================================================================
