--------------------------- MODULE MCSessionQueue ---------------------------
(* The queue of one session on small constants.  Two configurations: one   *)
(* for the order of three rows while time stands still, one for two rows   *)
(* that expire and are recovered by a second run of the runtime.           *)
EXTENDS SessionQueue, TLC

CONSTANTS i1, i2, i3, r1, k1, o1, o2

\* A retried client request, a coalescing task, and both at once.
TimelessInput ==
    { [source |-> "api", request |-> r1, dedupe |-> None, expires |-> Never],
      [source |-> "task", request |-> None, dedupe |-> k1, expires |-> Never] }

\* A user message that expires, one that does not.
TimedInput ==
    { [source |-> "api", request |-> r1, dedupe |-> None, expires |-> 1],
      [source |-> "api", request |-> None, dedupe |-> None, expires |-> Never] }

Symmetry == Permutations(Item) \cup Permutations(Owner)
=============================================================================
