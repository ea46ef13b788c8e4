---------------------------- MODULE QueueDispatch ----------------------------
(***************************************************************************)
(* How the queued messages of one session reach an agent host: the drain   *)
(* passes of the queue dispatcher (service/turn-system/queue.dispatcher.ts)*)
(* and the two other ways to deliver a queued message, continuing a paused *)
(* queue and sending one message now (application/conversation/            *)
(* queue-steer-workflow.ts), each through the delivery of                  *)
(* user-message-turn-delivery.ts, in a process that may crash and restart. *)
(*                                                                         *)
(* SessionQueue models the tables themselves.  Here a row is what the      *)
(* delivery sees of it; messages are enqueued in the order of their number,*)
(* and a position is never changed.  Between two awaits the code runs      *)
(* alone: every action is one repository call and what follows it up to    *)
(* the next await.                                                         *)
(***************************************************************************)
EXTENDS Integers, FiniteSets

CONSTANTS
    Item,        \* the messages, by their position
    Reluctant,   \* those of the autonomous goal, which yield to user messages
    Other,       \* the workers beside the drain: "continued", "sender"
    Mishap,      \* what may go wrong: see the guards that ask for it
    MaxBoot,     \* bound on the restarts of the process
    MaxExtra,    \* bound on cancellation requests, pokes, Turns of no message,
                 \* claim leases that run out and closings of the dispatcher
    None         \* no item, no worker

ASSUME ConstantsAssumption ==
    /\ Item \subseteq Nat
    /\ Reluctant \subseteq Item
    /\ Other \subseteq {"continued", "sender"}
    /\ Mishap \subseteq {"policy", "fault", "stop", "slow", "close"}
    /\ MaxBoot \in Nat /\ MaxExtra \in Nat
    /\ None \notin Item /\ None \notin {"drain", "continued", "sender", "dead"}

Worker == {"drain"} \cup Other

VARIABLES
    row,         \* what became of each message
    claim,       \* the one claimed row, who claimed it, whether its lease runs
    paused,      \* there is a pause row
    turn,        \* who has the session: a Turn of a message, other work, or nobody
    pc,          \* how far each worker's delivery has come
    held,        \* the message each worker delivers
    yielded,     \* messages that gave up their position in this pass
    woken,       \* requestedWake is ahead of startedWake
    owed,        \* a dispatch call is due, but not made yet
    recovering,  \* recoverBeforeNextClaim
    doomed,      \* messages whose cancellation was requested
    open,        \* the dispatcher is neither closed nor blocked for the session
    begun,       \* messages whose host run has started
    boots, extras

process == <<pc, held, yielded, woken, recovering, open>>
counters == <<boots, extras>>
vars == <<row, claim, paused, turn, process, owed, doomed, begun, counters>>

NoClaim == [item |-> None, by |-> None, fresh |-> FALSE]
NoTurn == [phase |-> "free", by |-> None, item |-> None]

TurnOf(phase, w, i) == [phase |-> phase, by |-> w, item |-> i]

Pending(r) == {i \in Item : r[i] \in {"queued", "claimed"}}
Queued == {i \in Item : row[i] = "queued"}
FirstOf(S) == {i \in S : \A j \in S : i <= j}
Mine(w) == claim.by = w
Stale == claim # NoClaim /\ ~(claim.fresh /\ claim.by # "dead")

----------------------------------------------------------------------------
Init ==
    /\ row = [i \in Item |-> "new"]
    /\ claim = NoClaim /\ paused = FALSE /\ turn = NoTurn
    /\ pc = [w \in Worker |-> "idle"] /\ held = [w \in Worker |-> None]
    /\ yielded = {} /\ woken = FALSE /\ owed = FALSE /\ recovering = FALSE
    /\ doomed = {} /\ open = TRUE /\ begun = {}
    /\ boots = 0 /\ extras = 0

(* The queue's transactions, as the delivery uses them.  The recovery of a *)
(* claim returns its row too: each delivery was prepared under its claim.  *)

ReleaseRow ==
    /\ row' = [row EXCEPT ![claim.item] = "queued"]
    /\ claim' = NoClaim

\* Mutant of Release: the row is set back whoever claimed it meanwhile.
ReleaseAny(w) ==
    /\ row' = [row EXCEPT ![held[w]] = "queued"]
    /\ claim' = IF claim.item = held[w] THEN NoClaim ELSE claim

\* A release of a claim that is no longer there changes nothing.
Release(w) == IF Mine(w) THEN ReleaseRow ELSE UNCHANGED <<row, claim>>

\* The pause of a queue that becomes empty goes with its last row.
RemoveRow(i, as) ==
    /\ row' = [row EXCEPT ![i] = as]
    /\ claim' = IF claim.item = i THEN NoClaim ELSE claim
    /\ paused' = (paused /\ Pending(row') # {})

ClaimRow(w, i) ==
    /\ row' = [row EXCEPT ![i] = "claimed"]
    /\ claim' = [item |-> i, by |-> w, fresh |-> TRUE]
    /\ held' = [held EXCEPT ![w] = i]
    /\ pc' = [pc EXCEPT ![w] = "claimed"]

(* Ends of a delivery.  A drain goes round again when its delivery says so *)
(* or a wake arrived, unless it was closed or blocked meanwhile.           *)
\* Mutant of YieldAs: the message is noted after it was let go.
YieldNothing(w, next, yields) ==
    /\ pc' = [pc EXCEPT ![w] = next]
    /\ held' = [held EXCEPT ![w] = None]
    /\ yielded' = IF w # "drain" THEN yielded
                  ELSE IF next = "idle" THEN {}
                  ELSE IF yields THEN yielded \cup {held'[w]} ELSE yielded

YieldAs(w, next, yields) ==
    /\ pc' = [pc EXCEPT ![w] = next]
    /\ held' = [held EXCEPT ![w] = None]
    /\ yielded' = IF w # "drain" THEN yielded
                  ELSE IF next = "idle" THEN {}
                  ELSE IF yields THEN yielded \cup {held[w]} ELSE yielded

EndAs(w, next) == YieldAs(w, next, FALSE)

Finish(w, again) ==
    EndAs(w, IF w = "drain" /\ open /\ (again \/ woken) THEN "begin" ELSE "idle")

Throw(w) == EndAs(w, "idle")

Goto(w, next) ==
    /\ pc' = [pc EXCEPT ![w] = next]
    /\ UNCHANGED <<held, yielded>>

----------------------------------------------------------------------------
(* Wakes and the drain's pass.                                             *)

\* Mutant of Dispatch: a call that finds a drain running leaves it at that.
DispatchIdle ==
    /\ owed
    /\ owed' = FALSE
    /\ woken' = (woken \/ (open /\ pc["drain"] = "idle"))
    /\ UNCHANGED <<row, claim, paused, turn, pc, held, yielded, recovering,
                   open, doomed, begun, counters>>

Dispatch ==
    /\ owed
    /\ owed' = FALSE
    /\ woken' = (woken \/ open)
    /\ UNCHANGED <<row, claim, paused, turn, pc, held, yielded, recovering,
                   open, doomed, begun, counters>>

Begin ==
    /\ pc["drain"] = "begin" \/ (pc["drain"] = "idle" /\ woken)
    /\ woken' = FALSE
    /\ yielded' = IF woken THEN {} ELSE yielded
    /\ pc' = [pc EXCEPT !["drain"] =
                  IF recovering /\ open THEN "recover" ELSE "next"]
    /\ UNCHANGED <<row, claim, paused, turn, held, recovering, open, owed,
                   doomed, begun, counters>>

RecoverBeforeNextClaim ==
    /\ pc["drain"] = "recover"
    /\ \/ /\ IF Stale THEN ReleaseRow ELSE UNCHANGED <<row, claim>>
          /\ recovering' = FALSE
          /\ Goto("drain", "next")
       \/ /\ "fault" \in Mishap
          /\ Throw("drain")
          /\ UNCHANGED <<row, claim, recovering>>
    /\ UNCHANGED <<paused, turn, woken, open, owed, doomed, begun, counters>>

ClaimNextIfOpen ==
    LET candidates == Queued \ yielded
    IN  /\ pc["drain"] = "next"
        /\ IF open /\ ~paused /\ claim = NoClaim /\ candidates # {}
           THEN /\ \E i \in FirstOf(candidates) : ClaimRow("drain", i)
                /\ UNCHANGED yielded
           ELSE /\ Finish("drain", FALSE)
                /\ UNCHANGED <<row, claim>>
        /\ UNCHANGED <<paused, turn, woken, recovering, open, owed, doomed,
                       begun, counters>>

----------------------------------------------------------------------------
(* The other workers' claims.                                              *)

ContinuePaused ==
    /\ "continued" \in Other /\ pc["continued"] = "idle"
    /\ open /\ claim = NoClaim
    /\ \E i \in FirstOf(Queued) : ClaimRow("continued", i)
    /\ UNCHANGED <<paused, turn, yielded, woken, recovering, open, owed,
                   doomed, begun, counters>>

ClaimSelected ==
    /\ "sender" \in Other /\ pc["sender"] = "idle"
    /\ claim = NoClaim
    /\ \E i \in Queued : ClaimRow("sender", i)
    /\ UNCHANGED <<paused, turn, yielded, woken, recovering, open, owed,
                   doomed, begun, counters>>

----------------------------------------------------------------------------
(* From a claim to an accepted Turn.                                       *)

Dispatching(w) == w # "sender" /\ pc[w] \in {"claimed", "prepared"}
Cancelled(w) == w # "sender" /\ held[w] \in doomed

ReleaseStopped(w) ==
    /\ w # "sender" /\ pc[w] = "claimed" /\ ~open
    /\ Release(w)
    /\ Finish(w, FALSE)
    /\ UNCHANGED <<paused, turn, woken, recovering, open, owed, doomed, begun,
                   counters>>

\* Before a settlement the requests to cancel are asked once more.
CancelRequested(w) ==
    /\ Dispatching(w) \/ (w # "sender" /\ pc[w] \in {"rejected", "threw"})
    /\ pc[w] = "claimed" => open
    /\ Cancelled(w)
    /\ IF Mine(w)
       THEN RemoveRow(held[w], "gone") /\ Finish(w, TRUE)
       ELSE Throw(w) /\ UNCHANGED <<row, claim, paused>>
    /\ UNCHANGED <<turn, woken, recovering, open, owed, doomed, begun, counters>>

\* A user message waits behind the goal's: only then the goal's yields.
YieldsFifoPosition(i) ==
    i \in Reluctant /\ \E j \in Pending(row) \ {i} : j \notin Reluctant

\* Classification and the final admission check ask the same policies.
Defer(w) ==
    LET yields == w = "drain" /\ YieldsFifoPosition(held[w])
    IN  /\ Dispatching(w) /\ ~Cancelled(w)
        /\ pc[w] = "claimed" => open
        /\ held[w] \in Reluctant \/ "policy" \in Mishap
        /\ Release(w)
        /\ YieldAs(w, IF w = "drain" /\ open /\ (yields \/ woken)
                      THEN "begin" ELSE "idle", yields)
        /\ UNCHANGED <<paused, turn, woken, recovering, open, owed, doomed,
                       begun, counters>>

\* A refused message goes; one the user selected mostly stays.  The drain leaves the
\* next message alone when the user stopped the submission.
Refuse(w) ==
    /\ Dispatching(w) /\ ~Cancelled(w)
    /\ pc[w] = "claimed" => open
    /\ "policy" \in Mishap
    /\ \/ w # "drain" /\ Release(w) /\ Finish(w, FALSE) /\ UNCHANGED paused
       \/ /\ Mine(w)
          /\ RemoveRow(held[w], "gone")
          /\ \E again \in BOOLEAN : Finish(w, again)
       \/ ~Mine(w) /\ Throw(w) /\ UNCHANGED <<row, claim, paused>>
    /\ UNCHANGED <<turn, woken, recovering, open, owed, doomed, begun, counters>>

\* A policy, the preparation of the submission or a write fails.
Fails(w) ==
    /\ pc[w] \in {"claimed", "prepared"}
    /\ "fault" \in Mishap
    /\ Goto(w, "threw")
    /\ UNCHANGED <<row, claim, paused, turn, woken, recovering, open, owed,
                   doomed, begun, counters>>

\* The write that settles a claim fails: the claim stays where it is.
SettlementFails(w) ==
    /\ pc[w] \in {"claimed", "prepared", "rejected", "raced"}
    /\ "fault" \in Mishap
    /\ Throw(w)
    /\ UNCHANGED <<row, claim, paused, turn, woken, recovering, open, owed,
                   doomed, begun, counters>>

Prepare(w) ==
    /\ pc[w] = "claimed" /\ ~Cancelled(w)
    /\ w # "sender" => open
    /\ Goto(w, IF Mine(w) THEN "prepared" ELSE "threw")
    /\ UNCHANGED <<row, claim, paused, turn, woken, recovering, open, owed,
                   doomed, begun, counters>>

\* The admission fence: the claim must stand, and but for the one the user
\* selected no message before it may wait that did not yield.
Admits(w) ==
    /\ Mine(w)
    /\ w = "drain" => ~paused
    /\ w # "sender" =>
        \A j \in Pending(row) : j < held[w] => w = "drain" /\ j \in yielded

\* Admission, and the registration with the controller that follows it: one
\* that fails leaves an accepted Turn to be settled as failed.
Submit(w) ==
    /\ pc[w] = "prepared"
    /\ IF turn = NoTurn /\ Admits(w)
       THEN /\ \E phase \in {"waiting"} \cup
                            (IF "fault" \in Mishap THEN {"failing"} ELSE {}) :
                   turn' = TurnOf(phase, w, held[w])
            /\ paused' \in IF w = "continued" THEN {FALSE}
                           ELSE IF w = "sender" THEN {FALSE, paused}
                           ELSE {paused}
            /\ Goto(w, "accepted")
       ELSE /\ Goto(w, IF w = "sender" /\ turn # NoTurn THEN "raced" ELSE "rejected")
            /\ UNCHANGED <<paused, turn>>
    /\ UNCHANGED <<row, claim, woken, recovering, open, owed, doomed, begun,
                   counters>>

\* Mutant of SettleRejected: a busy session is treated like a deferral.
SettleRejectedYields(w) ==
    /\ pc[w] \in {"rejected", "raced"} /\ ~Cancelled(w)
    /\ Release(w)
    /\ YieldAs(w, IF w = "drain" /\ open THEN "begin" ELSE "idle", TRUE)
    /\ UNCHANGED <<paused, turn, woken, recovering, open, owed, doomed, begun,
                   counters>>

\* Nothing of the message happened yet: it goes back.
SettleRejected(w) ==
    /\ pc[w] \in {"rejected", "raced"} /\ ~Cancelled(w)
    /\ Release(w)
    /\ Finish(w, FALSE)
    /\ UNCHANGED <<paused, turn, woken, recovering, open, owed, doomed, begun,
                   counters>>

----------------------------------------------------------------------------
(* From an accepted Turn to its host run.                                  *)

FailStart(w) ==
    turn' = IF turn.by = w /\ turn.phase = "waiting"
            THEN [turn EXCEPT !.phase = "failing"] ELSE turn

\* The message is not committed, or the delivery fails otherwise.
DeliveryFails(w) ==
    /\ pc[w] = "accepted" /\ "fault" \in Mishap
    /\ FailStart(w)
    /\ Goto(w, "threw")
    /\ UNCHANGED <<row, claim, paused, woken, recovering, open, owed, doomed,
                   begun, counters>>

\* Mutant of Acknowledge: the row stays claimed when the host starts.
AcknowledgeLate(w) ==
    /\ pc[w] = "accepted"
    /\ Mine(w)
    /\ Goto(w, "acknowledged")
    /\ UNCHANGED <<row, claim, paused, turn, recovering, woken, open, owed,
                   doomed, begun, counters>>

\* acknowledge, tried twice, or the sender's consume.  To the sender a claim
\* that vanished with its message is settled work.
Acknowledge(w) ==
    /\ pc[w] = "accepted"
    /\ IF Mine(w)
       THEN /\ RemoveRow(held[w], "gone")
            /\ Goto(w, "acknowledged")
            /\ UNCHANGED <<turn, recovering>>
       ELSE /\ UNCHANGED <<row, claim, paused>>
            /\ IF w = "sender" /\ held[w] \notin Pending(row)
               THEN Goto(w, "acknowledged") /\ UNCHANGED <<turn, recovering>>
               ELSE /\ Goto(w, "threw")
                    /\ FailStart(w)
                    /\ recovering' = (recovering \/ w = "drain")
    /\ UNCHANGED <<woken, open, owed, doomed, begun, counters>>

AcknowledgeFails(w) ==
    /\ pc[w] = "accepted" /\ "fault" \in Mishap
    /\ FailStart(w)
    /\ recovering' = (recovering \/ w = "drain")
    /\ Goto(w, "threw")
    /\ UNCHANGED <<row, claim, paused, woken, open, owed, doomed, begun, counters>>

\* settleThrownClaim and the sender's release: the claim goes back, unless
\* that write fails too, and the error is the caller's.
SettleThrown(w) ==
    /\ pc[w] = "threw" /\ ~Cancelled(w)
    /\ \/ Release(w)
       \/ "fault" \in Mishap /\ UNCHANGED <<row, claim>>
    /\ Throw(w)
    /\ UNCHANGED <<paused, turn, woken, recovering, open, owed, doomed, begun,
                   counters>>

\* The start fence is released.  An aborted Turn ends without its host.
Start(w) ==
    /\ pc[w] = "acknowledged"
    /\ IF turn.by = w /\ turn.phase = "waiting"
       THEN \/ /\ turn' = [turn EXCEPT !.phase = "running"]
               /\ begun' = begun \cup {held[w]}
               /\ UNCHANGED paused
            \/ /\ "stop" \in Mishap
               /\ turn' = NoTurn
               /\ paused' \in {paused, Pending(row) # {}}
               /\ UNCHANGED begun
       ELSE UNCHANGED <<turn, begun, paused>>
    /\ IF w = "sender" THEN Goto(w, "unpausing") ELSE Finish(w, FALSE)
    /\ UNCHANGED <<row, claim, woken, recovering, open, owed, doomed, counters>>

----------------------------------------------------------------------------
(* Sending now into a Turn that runs: the message is handed to its host,   *)
(* then the pause ends, then the claim is consumed.                        *)

Steer ==
    /\ "sender" \in Other
    /\ pc["sender"] \in {"claimed", "raced"}
    /\ turn.phase \in {"waiting", "running", "held"}
    /\ Goto("sender", "steered")
    /\ UNCHANGED <<row, claim, paused, turn, woken, recovering, open, owed,
                   doomed, begun, counters>>

EndQueuePause ==
    /\ "sender" \in Other
    /\ pc["sender"] \in {"steered", "unpausing"}
    /\ \/ paused' = FALSE
       \/ "fault" \in Mishap /\ UNCHANGED paused
    /\ IF pc["sender"] = "steered" THEN Goto("sender", "consuming")
                                   ELSE Finish("sender", FALSE)
    /\ UNCHANGED <<row, claim, turn, woken, recovering, open, owed, doomed,
                   begun, counters>>

\* A consume that fails leaves the claim where it is.
ConsumeSteered ==
    /\ "sender" \in Other
    /\ pc["sender"] = "consuming"
    /\ \/ Mine("sender") /\ RemoveRow(held["sender"], "steered")
       \/ /\ ~Mine("sender") \/ "fault" \in Mishap
          /\ UNCHANGED <<row, claim, paused>>
    /\ Finish("sender", FALSE)
    /\ UNCHANGED <<turn, woken, recovering, open, owed, doomed, begun, counters>>

----------------------------------------------------------------------------
(* Turns and maintenance end.                                              *)

\* Mutant of TurnEnds: nobody is told that the session is free.
TurnEndsUnheard ==
    /\ turn.phase = "running"
    /\ turn' = NoTurn
    /\ UNCHANGED <<row, claim, paused, process, owed, doomed, begun, counters>>

\* A completed Turn wakes the queue; one that fails, is stopped or asks the
\* user something does not, and the user's may pause what waits.
TurnEnds ==
    /\ turn.phase = "running"
    /\ turn' = NoTurn
    /\ \/ owed' = TRUE /\ UNCHANGED paused
       \/ /\ "stop" \in Mishap
          /\ paused' \in {paused, Pending(row) # {}}
          /\ UNCHANGED owed
    /\ UNCHANGED <<row, claim, process, doomed, begun, counters>>

FailureSettles ==
    /\ turn.phase = "failing"
    /\ turn' = NoTurn
    /\ paused' \in {paused, Pending(row) # {}}
    /\ owed' = TRUE
    /\ UNCHANGED <<row, claim, process, doomed, begun, counters>>

HoldBegins ==
    /\ turn = NoTurn /\ extras < MaxExtra
    /\ turn' = TurnOf("held", None, None)
    /\ extras' = extras + 1
    /\ UNCHANGED <<row, claim, paused, process, owed, doomed, begun, boots>>

HoldEnds ==
    /\ turn.phase = "held"
    /\ turn' = NoTurn
    /\ owed' = TRUE \/ ("stop" \in Mishap /\ UNCHANGED owed)
    /\ UNCHANGED <<row, claim, paused, process, doomed, begun, counters>>

----------------------------------------------------------------------------
(* The users, the clock and the process.                                   *)

Enqueue(i) ==
    /\ row[i] = "new" /\ \A j \in Item : j < i => row[j] # "new"
    /\ row' = [row EXCEPT ![i] = "queued"]
    /\ owed' = TRUE
    /\ UNCHANGED <<claim, paused, turn, process, doomed, begun, counters>>

UserCancel(i) ==
    /\ row[i] = "queued"
    /\ RemoveRow(i, "gone")
    /\ UNCHANGED <<turn, process, owed, doomed, begun, counters>>

RequestCancellation(i) ==
    /\ i \in Pending(row) \ doomed /\ extras < MaxExtra
    /\ extras' = extras + 1
    /\ doomed' = doomed \cup {i}
    /\ owed' = TRUE
    /\ UNCHANGED <<row, claim, paused, turn, process, begun, boots>>

\* drainQueued of a resumed stream.
Poke ==
    /\ open /\ ~woken /\ extras < MaxExtra
    /\ extras' = extras + 1
    /\ woken' = TRUE
    /\ UNCHANGED <<row, claim, paused, turn, pc, held, yielded, recovering,
                   open, owed, doomed, begun, boots>>

QuiesceSession ==
    /\ open /\ "close" \in Mishap /\ extras < MaxExtra
    /\ extras' = extras + 1
    /\ open' = FALSE
    /\ UNCHANGED <<row, claim, paused, turn, pc, held, yielded, woken,
                   recovering, owed, doomed, begun, boots>>

LeaseRunsOut ==
    /\ "slow" \in Mishap /\ claim.fresh /\ extras < MaxExtra
    /\ extras' = extras + 1
    /\ claim' = [claim EXCEPT !.fresh = FALSE]
    /\ UNCHANGED <<row, paused, turn, process, owed, doomed, begun, boots>>

\* The recovery of a start and of the schedule; it wakes nobody.
RecoverPending ==
    /\ Stale
    /\ ReleaseRow
    /\ UNCHANGED <<paused, turn, process, owed, doomed, begun, counters>>

RecoverState ==
    /\ turn.phase = "orphan"
    /\ turn' = NoTurn
    /\ UNCHANGED <<row, claim, paused, process, owed, doomed, begun, counters>>

Crash ==
    /\ boots < MaxBoot
    /\ boots' = boots + 1
    /\ claim' = IF claim = NoClaim THEN claim ELSE [claim EXCEPT !.by = "dead"]
    /\ turn' = IF turn = NoTurn THEN turn ELSE TurnOf("orphan", None, None)
    /\ pc' = [w \in Worker |-> "idle"] /\ held' = [w \in Worker |-> None]
    /\ yielded' = {} /\ woken' = FALSE /\ owed' = FALSE /\ recovering' = FALSE
    /\ doomed' = {} /\ open' = TRUE
    /\ UNCHANGED <<row, paused, begun, extras>>

----------------------------------------------------------------------------
Deliver(w) ==
    \/ ReleaseStopped(w) \/ CancelRequested(w) \/ Defer(w) \/ Refuse(w)
    \/ Fails(w) \/ SettlementFails(w) \/ Prepare(w) \/ Submit(w) \/ SettleRejected(w)
    \/ DeliveryFails(w) \/ Acknowledge(w) \/ AcknowledgeFails(w)
    \/ SettleThrown(w) \/ Start(w)

DrainStep ==
    Begin \/ RecoverBeforeNextClaim \/ ClaimNextIfOpen \/ Deliver("drain")

SenderStep == Steer \/ EndQueuePause \/ ConsumeSteered

SessionFrees == TurnEnds \/ FailureSettles \/ HoldEnds

UserStep ==
    \/ \E i \in Item : Enqueue(i) \/ UserCancel(i) \/ RequestCancellation(i)
    \/ ContinuePaused \/ ClaimSelected \/ Poke

Environment ==
    \/ HoldBegins \/ QuiesceSession \/ LeaseRunsOut \/ RecoverPending
    \/ RecoverState \/ Crash

Next ==
    \/ Dispatch \/ DrainStep \/ SenderStep \/ SessionFrees
    \/ \E w \in Other : Deliver(w)
    \/ UserStep \/ Environment

Spec == Init /\ [][Next]_vars

(* What a worker awaits is answered, a Turn and maintenance end, a wake    *)
(* that is due is sent.                                                    *)
FairSpec ==
    /\ Spec
    /\ WF_vars(DrainStep) /\ WF_vars(Dispatch) /\ WF_vars(SessionFrees)
    /\ WF_vars(SenderStep) /\ \A w \in Other : WF_vars(Deliver(w))

----------------------------------------------------------------------------
(* Properties.                                                             *)

Phase == {"idle", "claimed", "prepared", "rejected", "raced", "threw",
          "accepted", "acknowledged", "steered", "consuming", "unpausing",
          "begin", "recover", "next"}

\* Every variable has its type.
TypeOK ==
    /\ row \in [Item -> {"new", "queued", "claimed", "gone", "steered"}]
    /\ claim \in [item : Item \cup {None}, by : Worker \cup {None, "dead"},
                  fresh : BOOLEAN]
    /\ paused \in BOOLEAN
    /\ turn \in [phase : {"free", "waiting", "running", "failing", "held", "orphan"},
                 by : Worker \cup {None}, item : Item \cup {None}]
    /\ pc \in [Worker -> Phase]
    /\ held \in [Worker -> Item \cup {None}]
    /\ yielded \subseteq Item /\ doomed \subseteq Item /\ begun \subseteq Item
    /\ woken \in BOOLEAN /\ owed \in BOOLEAN
    /\ recovering \in BOOLEAN /\ open \in BOOLEAN
    /\ boots \in 0 .. MaxBoot /\ extras \in 0 .. MaxExtra

\* A message starts at most one host run, whatever acknowledgements and
\* releases fail, however slow its delivery is, whoever else claims its row
\* meanwhile, and wherever the process crashes.
StartsAtMostOnce ==
    [][turn.phase = "waiting" /\ turn'.phase = "running" => turn.item \notin begun]_vars

\* A message is removed from the queue for good: no recovery and no release
\* brings back what was acknowledged, cancelled, refused or steered.
SettledStays ==
    [][\A i \in Item : row[i] \in {"gone", "steered"} => row'[i] = row[i]]_vars

Quiet ==
    /\ \A w \in Worker : pc[w] = "idle"
    /\ ~woken /\ ~owed /\ turn = NoTurn

\* No wake is lost and no claim is forgotten: when nothing works on the session
\* and no wake is due, no user message waits, queued or claimed, in an unpaused
\* queue (dispatch, and every way out of a delivery).
NothingForgotten ==
    (Quiet /\ ~paused /\ open) => Pending(row) \subseteq Reluctant

\* A message starts before an earlier one only if the goal's yielded to it.
StartsInOrder ==
    [][\A i \in begun' \ begun : \A j \in Pending(row) : j < i => j \in Reluctant]_vars

(* What the delivery promises, see MessageDelivery.                        *)
\* The Turn of a removed message still starts: its worker acknowledged it, or
\* is the sender, which takes the row's disappearance for its own doing.
StartPending(i) ==
    /\ turn.phase = "waiting" /\ turn.item = i
    /\ \/ pc[turn.by] = "acknowledged"
       \/ turn.by = "sender" /\ pc[turn.by] = "accepted"
StatusOf(i) ==
    IF i \in begun THEN "started"
    ELSE IF row[i] \in {"queued", "claimed"} \/ StartPending(i) THEN "waiting"
    ELSE IF row[i] = "new" THEN "absent" ELSE "gone"

Promise == INSTANCE MessageDelivery WITH
    status <- [i \in Item |-> StatusOf(i)],
    active <- IF turn.phase = "running" THEN turn.item ELSE None

\* Whatever goes wrong, a message is started at most once, never after it was
\* removed, and never removed after it was started.
DeliverySafe == Promise!Init /\ [][Promise!Next]_(Promise!vars)

\* While nothing goes wrong, the dispatcher keeps all of the promise: every
\* user message that waits is started or removed.
DeliveryPromise == Promise!Spec
=============================================================================
