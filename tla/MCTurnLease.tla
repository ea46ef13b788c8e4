---------------------------- MODULE MCTurnLease ----------------------------
(* The lock of one session on small constants: overlapping Runtimes, one   *)
(* Runtime at a time with liveness, and the disagreements with comments.   *)
EXTENDS TurnLease, TLC

CONSTANTS p, q, r, m

Symmetry == Permutations(Proc)
=============================================================================
