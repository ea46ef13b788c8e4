-------------------------- MODULE MCSteeringHandoff --------------------------
(* SteeringHandoff with a few messages and failures.                       *)
EXTENDS SteeringHandoff

UserMessages == {1, 3}
MachineMessages == {2}
============================================================================
