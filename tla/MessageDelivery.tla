--------------------------- MODULE MessageDelivery ---------------------------
(***************************************************************************)
(* What the runtime promises of the messages of one session: each is       *)
(* started at most once and then never removed, one that was removed is    *)
(* never started, and no two work at a time.  A user message that waits is *)
(* started or removed in the end.                                          *)
(***************************************************************************)
EXTENDS Naturals

CONSTANTS
    Item,        \* the messages
    Reluctant,   \* those that may wait for ever
    None         \* no message

VARIABLES
    status,      \* of each message
    active       \* the message whose host run goes on

vars == <<status, active>>

Init ==
    /\ status = [i \in Item |-> "absent"]
    /\ active = None

Become(i, s) == status' = [status EXCEPT ![i] = s]

Enqueue(i) == status[i] = "absent" /\ Become(i, "waiting") /\ UNCHANGED active

Start(i) ==
    /\ status[i] = "waiting" /\ active = None
    /\ Become(i, "started")
    /\ active' = i

Remove(i) == status[i] = "waiting" /\ Become(i, "gone") /\ UNCHANGED active

End == active # None /\ active' = None /\ UNCHANGED status

Settle(i) == Start(i) \/ Remove(i)

Next == End \/ \E i \in Item : Enqueue(i) \/ Settle(i)

Spec ==
    /\ Init /\ [][Next]_vars
    /\ WF_vars(End)
    /\ \A i \in Item \ Reluctant : WF_vars(Settle(i))
=============================================================================
