--------------------------- MODULE ControlDecision ---------------------------
(***************************************************************************)
(* The pure part of firmware-c6/components/control/control_loop.c: what    *)
(* control_loop_decide computes from the active recipe, one temperature,   *)
(* the dry contact and the previous relay state.  No variables.            *)
(*                                                                         *)
(* Temperatures are integers on any scale.  The code compares the          *)
(* temperature with setpoint +/- deadband * 0.5; both sides are doubled    *)
(* here, so the comparison is exact for odd deadbands too.                 *)
(***************************************************************************)
EXTENDS Integers

Modes == {"OFF", "HEAT", "COOL", "AUTO", "FAN_ONLY", "DRY"}

\* control_recipe_t, the fields the control loop reads.
Recipe == [hvac_mode: Modes, setpoint_heat: Int, setpoint_cool: Int,
           deadband: Int, lockout: BOOLEAN]

\* control_inputs_t.
ControlInputs == [zigbee_valid: BOOLEAN, zigbee_temp: Int,
                  local_valid: BOOLEAN, local_temp: Int, dry: BOOLEAN]

\* relay_state_t.
RelayState == [heat: BOOLEAN, cool: BOOLEAN, fan: BOOLEAN]

AllOff == [heat |-> FALSE, cool |-> FALSE, fan |-> FALSE]

\* The zeroed recipe of a freshly cleared store: mode OFF (0), no lockout.
ZeroRecipe == [hvac_mode |-> "OFF", setpoint_heat |-> 0, setpoint_cool |-> 0,
               deadband |-> 0, lockout |-> FALSE]

-----------------------------------------------------------------------------
\* Without the hold inside the band: one threshold, the upper edge.
HeatDecisionNoHold(r, temp, prev) == 2 * temp < 2 * r.setpoint_heat + r.deadband

\* At or below the lower edge call heat, at or above the upper edge stop,
\* inside the band hold.  The lower edge is tested first.
HeatDecision(r, temp, prev) ==
  \/ 2 * temp <= 2 * r.setpoint_heat - r.deadband
  \/ prev /\ 2 * temp < 2 * r.setpoint_heat + r.deadband

CoolDecision(r, temp, prev) ==
  \/ 2 * temp >= 2 * r.setpoint_cool + r.deadband
  \/ prev /\ 2 * temp > 2 * r.setpoint_cool - r.deadband

Interlocked(r, dry) == r.lockout /\ dry

\* The fan derived from the previous calls instead of the new ones.
DecideFanLate(r, temp, dry, prev) ==
  LET heat == r.hvac_mode \in {"HEAT", "AUTO"} /\ HeatDecision(r, temp, prev.heat)
      cool == r.hvac_mode \in {"COOL", "AUTO"} /\ CoolDecision(r, temp, prev.cool)
  IN IF Interlocked(r, dry)
     THEN AllOff
     ELSE [heat |-> heat, cool |-> cool /\ ~heat,
           fan  |-> prev.heat \/ prev.cool \/ r.hvac_mode = "FAN_ONLY"]

\* The mode looked at before the lockout: FAN_ONLY runs the fan regardless.
DecideModeFirst(r, temp, dry, prev) ==
  LET heat == r.hvac_mode \in {"HEAT", "AUTO"} /\ HeatDecision(r, temp, prev.heat)
      cool == r.hvac_mode \in {"COOL", "AUTO"} /\ CoolDecision(r, temp, prev.cool)
  IN IF r.hvac_mode = "FAN_ONLY" THEN [AllOff EXCEPT !.fan = TRUE]
     ELSE IF Interlocked(r, dry) THEN AllOff
     ELSE [heat |-> heat, cool |-> cool /\ ~heat, fan |-> heat \/ cool]

\* Dry-contact lockout first, then the mode, then hysteresis; heat wins AUTO.
Decide(r, temp, dry, prev) ==
  LET heat == /\ r.hvac_mode \in {"HEAT", "AUTO"}
              /\ HeatDecision(r, temp, prev.heat)
      cool == /\ r.hvac_mode \in {"COOL", "AUTO"}
              /\ CoolDecision(r, temp, prev.cool)
              /\ ~heat
  IN IF Interlocked(r, dry)
     THEN AllOff
     ELSE [heat |-> heat, cool |-> cool,
           fan  |-> heat \/ cool \/ r.hvac_mode = "FAN_ONLY"]
=============================================================================
