---------------------------- MODULE MCSessionGate ----------------------------
(* Instances of SessionGate: the configurations name its operations.       *)
EXTENDS SessionGate
============================================================================
