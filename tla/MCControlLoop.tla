---------------------------- MODULE MCControlLoop ----------------------------
(***************************************************************************)
(* RelayCycles, and with it ControlLoop, on a small instance.              *)
(***************************************************************************)
EXTENDS RelayCycles

MCRecipe(mode, heat, cool, lockout) ==
  [hvac_mode |-> mode, setpoint_heat |-> heat, setpoint_cool |-> cool,
   deadband |-> 2, lockout |-> lockout]

\* Nothing in the code keeps the cool setpoint above the heat setpoint.  With
\* 2 and 2 the bands coincide (1..3); with 3 and 2 they are 2..4 and 1..3, and
\* only the priority of heat keeps the two calls apart.
MCRecipes == {MCRecipe("AUTO", 2, 2, TRUE), MCRecipe("AUTO", 3, 2, FALSE),
              MCRecipe("FAN_ONLY", 2, 2, TRUE), MCRecipe("COOL", 2, 2, FALSE)}

MCInput(zigbee_valid, temp, local_valid, dry) ==
  [zigbee_valid |-> zigbee_valid, zigbee_temp |-> temp,
   local_valid |-> local_valid, local_temp |-> 4, dry |-> dry]

\* Both sources, only the local one (4), none.
MCInputs == UNION {
  {MCInput(TRUE, t, TRUE, d) : t \in {1, 2, 3}} \union
  {MCInput(FALSE, 1, TRUE, d), MCInput(FALSE, 1, FALSE, d)} : d \in BOOLEAN}
=============================================================================
