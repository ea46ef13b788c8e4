---------------------------- MODULE MCSharedLogin ----------------------------
(* Two processes with one client each.                                      *)
EXTENDS SharedLogin

CONSTANTS p1, p2, c1, c2

MCHome == [c \in {c1, c2} |-> IF c = c1 THEN p1 ELSE p2]
=============================================================================
