--------------------------- MODULE SteeringHandoff ---------------------------
(***************************************************************************)
(* The messages a user sends into a running Turn, from their acceptance to *)
(* the place where they end: consumed by the Turn, a row of the            *)
(* conversation, or an item of the session's queue.  One Turn, from its    *)
(* registration on: the controller's steering lane (turn.controller.ts),   *)
(* the host that polls it (user-input-control.ts), the coordinator that    *)
(* settles the Turn (execution.coordinator.ts), the hand-over of what was  *)
(* not consumed (steering-requeue.ts, steering-teardown-commit.ts), and    *)
(* the shutdown of the process (initialize.ts).                            *)
(*                                                                         *)
(* A message is the number of its sending: createdAt and identity at once. *)
(* A Turn discards steering at most once for each cause, except that an    *)
(* abort may be followed by the restoration of what a poll had claimed, so *)
(* a batch is named by its cause; `discard` never meets the same batch     *)
(* twice, and its look-up of settled keys is left out.                     *)
(***************************************************************************)
EXTENDS Integers, SequencesExt

CONSTANTS
    User,       \* messages of users (isUserSteeringProducer)
    Machine,    \* messages of other producers: cron jobs, other sessions, tasks
    MaxFault    \* bound on writes that fail or take longer than their limit

Message == User \cup Machine

ASSUME ConstantsAssumption ==
    Message \subseteq Nat /\ User \cap Machine = {} /\ MaxFault \in Nat

\* "restored" is the `abort` of messages that a poll gives back after the abort.
Cause == {"abort", "restored", "seal", "exit"}

VARIABLES
    phase,      \* of the ActiveTurnEntry; "sealed" is the phase closing after a seal
    reason,     \* abortReason
    accepted,   \* the steeringIdentities
    steering,   \* the lane
    hand,       \* what a poll of the host has claimed: steeringClaims
    boundary,   \* where that poll stands: between two steps or at the exit
    given,      \* consumed by the Turn
    host,       \* how far the host has come with the Turn
    coord,      \* how far the coordinator has come with its settlement
    awaits,     \* the commits it waits for before the release
    pending,    \* batches that are not persisted: SteeringRequeue's `pending`
    left,       \* their messages: TrackedDiscard.messages
    route,      \* TrackedDiscard.route
    task,       \* `inflight`: what a batch is doing
    merged,     \* the batches whose task is commitMergedTeardown
    lane,       \* how far the detached retries of a batch have come
    conversation, \* the canonical history's rows for steered messages
    row,        \* the queue's item for a batch
    paused,     \* the queue is paused
    woken,      \* the release was published for an exit-close batch
    process,    \* of the runtime: open, closing, down
    drain,      \* how far SteeringRequeue.drain has come
    todo,       \* the batches it has still to see
    faults

turn == <<phase, reason, accepted, steering, hand, boundary, given, host>>
settlement == <<coord, awaits>>
batches == <<pending, left, route, task, merged, lane>>
stores == <<conversation, row, paused, woken>>
shutdown == <<process, drain, todo>>
vars == <<turn, settlement, batches, stores, shutdown, faults>>

Init ==
    /\ phase = "running" /\ reason = "none" /\ accepted = {} /\ steering = <<>>
    /\ hand = <<>> /\ boundary = "mid-turn" /\ given = {} /\ host = "starting"
    /\ coord = "host" /\ awaits = {}
    /\ pending = {} /\ left = [c \in Cause |-> <<>>]
    /\ route = [c \in Cause |-> "none"] /\ task = [c \in Cause |-> "none"]
    /\ merged = {} /\ lane = [c \in Cause |-> "none"]
    /\ conversation = <<>> /\ row = [c \in Cause |-> "none"]
    /\ paused = FALSE /\ woken = FALSE
    /\ process = "open" /\ drain = "idle" /\ todo = <<>>
    /\ faults = 0

Fault == faults < MaxFault /\ faults' = faults + 1
Up == process # "down"
Registered == Up /\ coord # "released"
Released == coord = "released"
Only(s, S) ==
    LET kept[n \in 0 .. Len(s)] ==
            IF n = 0 THEN <<>>
            ELSE IF s[n] \in S THEN Append(kept[n - 1], s[n]) ELSE kept[n - 1]
    IN  kept[Len(s)]

----------------------------------------------------------------------------
(* SteeringRequeue.discard, in the step that discards.                     *)

RouteOf(c) == IF c = "exit" THEN "requeue" ELSE "teardown"

\* Mutant of Discard: what other producers sent is handed over as well.
DiscardAll(c, msgs) ==
    /\ pending' = pending \cup {c}
    /\ left' = [left EXCEPT ![c] = msgs]
    /\ route' = [route EXCEPT ![c] = RouteOf(c)]
    /\ task' = [task EXCEPT ![c] = IF c = "exit" THEN "enqueue" ELSE "none"]
    /\ lane' = [lane EXCEPT ![c] = IF c = "exit" THEN "last" ELSE "waiting"]
    /\ UNCHANGED merged

Discard(c, msgs) ==
    IF Only(msgs, User) = <<>> THEN UNCHANGED batches
    ELSE /\ pending' = pending \cup {c}
         /\ left' = [left EXCEPT ![c] = Only(msgs, User)]
         /\ route' = [route EXCEPT ![c] = RouteOf(c)]
         /\ task' = [task EXCEPT ![c] = IF c = "exit" THEN "enqueue" ELSE "none"]
         /\ lane' = [lane EXCEPT ![c] = IF c = "exit" THEN "last" ELSE "waiting"]
         /\ UNCHANGED merged

----------------------------------------------------------------------------
(* The controller and the host.                                            *)

HostOnly == UNCHANGED <<settlement, stores, shutdown, faults>>

\* steerActiveTurn; a message that is sent again is answered and not appended.
Steer(m) ==
    /\ Registered /\ phase = "running"
    /\ \A n \in accepted : n < m
    /\ accepted' = accepted \cup {m}
    /\ steering' = Append(steering, m)
    /\ UNCHANGED <<phase, reason, hand, boundary, given, host, batches>> /\ HostOnly

AbortEntry(why) ==
    /\ phase' = "aborted" /\ reason' = why
    /\ steering' = <<>> /\ Discard("abort", steering)

\* The user's stop, or a lease that is lost.
Abort(why) ==
    /\ Registered /\ phase = "running"
    /\ AbortEntry(why)
    /\ UNCHANGED <<accepted, hand, boundary, given, host>> /\ HostOnly

\* executionStart: the delivery that activated the Turn is complete, or failed.
HostStarts ==
    /\ Up /\ host = "starting"
    /\ host' = IF phase = "aborted" THEN "over" ELSE "working"
    /\ UNCHANGED <<phase, reason, accepted, steering, hand, boundary, given, batches>>
    /\ HostOnly

Ended == IF phase = "running" THEN "unsealed" ELSE "over"

HostNeverStarts ==
    /\ Up /\ host = "starting"
    /\ host' = Ended
    /\ UNCHANGED <<phase, reason, accepted, steering, hand, boundary, given, batches>>
    /\ HostOnly

PollBegins(b) ==
    /\ Up /\ host = "working" /\ phase # "aborted"
    /\ host' = "polling" /\ boundary' = b
    /\ hand' = steering /\ steering' = <<>>
    /\ UNCHANGED <<phase, reason, accepted, given, batches>> /\ HostOnly

Restore(msgs) ==
    IF phase = "aborted" THEN UNCHANGED steering /\ Discard("restored", msgs)
    ELSE steering' = msgs \o steering /\ UNCHANGED batches

\* At the exit users' messages wait for the close; a plugin may stop the poll.
PollEnds ==
    /\ Up /\ host = "polling"
    /\ host' = "working" /\ hand' = <<>>
    /\ LET taken == IF boundary = "exit" THEN Machine ELSE Message
       IN \/ given' = given \cup (ToSet(hand) \cap taken)
             /\ Restore(Only(hand, Message \ taken))
          \/ UNCHANGED given /\ Restore(hand)
    /\ UNCHANGED <<phase, reason, accepted, boundary>> /\ HostOnly

PollFails ==
    /\ Up /\ host = "polling"
    /\ host' = "failing" /\ hand' = <<>>
    /\ UNCHANGED given /\ Restore(hand)
    /\ UNCHANGED <<phase, reason, accepted, boundary>> /\ HostOnly

TryBeginClose ==
    /\ Up /\ host = "working" /\ phase = "running"
    /\ ToSet(steering) \cap Machine = {}
    /\ phase' = "closing"
    /\ steering' = <<>> /\ Discard("exit", steering)
    /\ UNCHANGED <<reason, accepted, hand, boundary, given, host>> /\ HostOnly

HostCompletes ==
    /\ Up /\ host = "working" /\ phase # "running"
    /\ host' = "over"
    /\ UNCHANGED <<phase, reason, accepted, steering, hand, boundary, given, batches>>
    /\ HostOnly

\* A review stopped the output or the input: the outcome is a synthetic
\* `completed`, for which nothing closes and nothing seals the Turn.
ReviewStops ==
    /\ Up /\ host = "working"
    /\ host' = Ended
    /\ UNCHANGED <<phase, reason, accepted, steering, hand, boundary, given, batches>>
    /\ HostOnly

\* sealAbnormalTerminal: of a failed Turn, or of one that was aborted.
HostFails ==
    /\ Up /\ host \in {"working", "failing"}
    /\ host' = "over"
    /\ phase' = IF phase = "aborted" THEN phase ELSE "sealed"
    /\ steering' = <<>> /\ Discard("seal", steering)
    /\ UNCHANGED <<reason, accepted, hand, boundary, given>> /\ HostOnly

----------------------------------------------------------------------------
(* Tasks.  A batch has at most one; who asks for another waits for it.     *)

Kind(c) == IF route[c] = "teardown" THEN "commit" ELSE "enqueue"
Starts(c) == task' = IF task[c] = "none" THEN [task EXCEPT ![c] = Kind(c)] ELSE task
Sending(c) == ToSet(left[c])
Peers(c) == IF c \in merged THEN merged ELSE {c}
Rest(c) == (UNION {Sending(d) : d \in Peers(c)}) \ ToSet(conversation)

\* Mutant of NextOf: a merged commit is in the order of the discards.
NextOfFirstDiscarded(c) ==
    IF c \in merged
    THEN LET d == IF Sending("abort") \cap Rest(c) # {} THEN "abort"
                  ELSE CHOOSE d \in merged : Sending(d) \cap Rest(c) # {}
         IN Only(left[d], Rest(c))[1]
    ELSE Only(left[c], Rest(c))[1]

\* Send order in a merged commit; a single batch is in the order of its lane.
NextOf(c) == IF c \in merged THEN CHOOSE m \in Rest(c) : \A n \in Rest(c) : m <= n
             ELSE Only(left[c], Rest(c))[1]

TaskOnly == UNCHANGED <<turn, coord, route, lane, shutdown>>

CommitOne(c) ==
    /\ Up /\ task[c] = "commit" /\ Rest(c) # {}
    /\ conversation' = Append(conversation, NextOf(c))
    /\ UNCHANGED <<awaits, pending, left, task, merged, row, paused, woken, faults>>
    /\ TaskOnly

\* Mutant of CommitEnds: a commit that failed keeps all its messages.
CommitEndsWhole(c) ==
    /\ Up /\ task[c] = "commit"
    /\ \/ Rest(c) = {} /\ UNCHANGED faults
          /\ pending' = pending \ Peers(c)
       \/ Rest(c) # {} /\ Fault
          /\ UNCHANGED pending
    /\ UNCHANGED left
    /\ task' = [d \in Cause |-> IF d \in Peers(c) THEN "none" ELSE task[d]]
    /\ merged' = merged \ Peers(c) /\ awaits' = awaits \ Peers(c)
    /\ UNCHANGED stores /\ TaskOnly

\* All is committed, or a message failed: what is durable is trimmed.
CommitEnds(c) ==
    /\ Up /\ task[c] = "commit"
    /\ (Rest(c) = {} /\ UNCHANGED faults) \/ (Rest(c) # {} /\ Fault)
    /\ left' = [d \in Cause |-> IF d \in Peers(c)
                                THEN Only(left[d], Message \ ToSet(conversation))
                                ELSE left[d]]
    /\ pending' = pending \ {d \in Peers(c) : left'[d] = <<>>}
    /\ task' = [d \in Cause |-> IF d \in Peers(c) THEN "none" ELSE task[d]]
    /\ merged' = merged \ Peers(c) /\ awaits' = awaits \ Peers(c)
    /\ UNCHANGED stores /\ TaskOnly

UserStopped(c) == c \in {"abort", "restored"} /\ reason = "user"

Persisted(c) ==
    /\ pending' = pending \ {c}
    /\ task' = [task EXCEPT ![c] = "none"]
    /\ UNCHANGED faults
NotPersisted(c) ==
    /\ UNCHANGED pending
    /\ task' = [task EXCEPT ![c] = "none"]
    /\ Fault

RequeueOnly == UNCHANGED <<awaits, left, merged, conversation, woken>> /\ TaskOnly

\* Enqueueing a row again finds it, while the queue still has it.
Enqueue(c) ==
    /\ Up /\ task[c] = "enqueue"
    /\ \/ row' = [row EXCEPT ![c] = IF @ \in {"dispatched", "again"} THEN "again" ELSE "queued"]
          /\ IF UserStopped(c)
             THEN task' = [task EXCEPT ![c] = "pause"] /\ UNCHANGED <<pending, faults>>
             ELSE Persisted(c)
       \/ NotPersisted(c) /\ UNCHANGED row
    /\ UNCHANGED paused /\ RequeueOnly

\* pauseIfPending: a queue that is empty by now is not paused.
Pause(c) ==
    /\ Up /\ task[c] = "pause"
    /\ \/ paused' = (paused \/ \E d \in Cause : row[d] \in {"queued", "again"})
          /\ Persisted(c)
       \/ NotPersisted(c) /\ UNCHANGED paused
    /\ UNCHANGED row /\ RequeueOnly

----------------------------------------------------------------------------
(* The detached retries.  An exit-close batch started when it was          *)
(* discarded and is tried once more; a teardown batch is tried twice and   *)
(* then goes to the queue.                                                 *)

LaneOnly == UNCHANGED <<turn, settlement, pending, left, merged, stores, shutdown, faults>>

LaneBegins(c) ==
    /\ Up /\ Released /\ lane[c] = "waiting"
    /\ IF c \in pending THEN Starts(c) ELSE UNCHANGED task
    /\ lane' = [lane EXCEPT ![c] = "second"]
    /\ UNCHANGED route /\ LaneOnly

\* Mutant of LaneGoesOn: the last attempt is not made.
LaneGivesUp(c) ==
    /\ Up /\ Released /\ lane[c] \in {"second", "last"} /\ task[c] = "none"
    /\ lane' = [lane EXCEPT ![c] = IF lane[c] = "second" THEN "last" ELSE "over"]
    /\ IF c \in pending /\ lane[c] = "second" THEN Starts(c) ELSE UNCHANGED task
    /\ UNCHANGED route /\ LaneOnly

LaneGoesOn(c) ==
    /\ Up /\ Released /\ lane[c] \in {"second", "last"} /\ task[c] = "none"
    /\ lane' = [lane EXCEPT ![c] = IF lane[c] = "second" THEN "last" ELSE "over"]
    /\ IF c \notin pending THEN UNCHANGED <<route, task>>
       ELSE /\ route' = [route EXCEPT ![c] = IF lane[c] = "last" THEN "requeue" ELSE @]
            /\ task' = [task EXCEPT ![c] = IF route'[c] = "teardown" THEN "commit" ELSE "enqueue"]
    /\ LaneOnly

\* Mutant of Wake: the wake is for a batch that fell back to the queue.
WakeForFallen ==
    /\ Up /\ Released /\ ~woken
    /\ row["abort"] # "none" /\ task["abort"] = "none" /\ "abort" \notin pending
    /\ woken' = TRUE
    /\ UNCHANGED <<turn, settlement, batches, conversation, row, paused, shutdown, faults>>

\* wakeQueueAfterRelease.
Wake ==
    /\ Up /\ Released /\ ~woken
    /\ row["exit"] # "none" /\ task["exit"] = "none" /\ "exit" \notin pending
    /\ woken' = TRUE
    /\ UNCHANGED <<turn, settlement, batches, conversation, row, paused, shutdown, faults>>

\* The queue's dispatcher, which stops when the process closes.
Dispatch(c) ==
    /\ process = "open" /\ Released
    /\ row[c] = "queued" /\ ~paused
    /\ row' = [row EXCEPT ![c] = "dispatched"]
    /\ UNCHANGED <<turn, settlement, batches, conversation, paused, woken, shutdown, faults>>

----------------------------------------------------------------------------
(* The coordinator: commitDiscardedBeforeRelease, for two seconds at most, *)
(* then the settlement, then the release.                                  *)

CoordOnly == UNCHANGED <<phase, reason, accepted, hand, boundary, given, host>>
             /\ UNCHANGED <<pending, left, route, lane, stores, shutdown>>

\* Mutant of CommitBeforeRelease: nothing is committed before the release.
ReleaseAtOnce ==
    /\ Up /\ host \in {"over", "unsealed"} /\ coord = "host"
    /\ coord' = "committing"
    /\ UNCHANGED <<steering, awaits, merged, task, faults>> /\ CoordOnly

CommitBeforeRelease ==
    /\ Up /\ host \in {"over", "unsealed"} /\ coord = "host"
    /\ coord' = "committing"
    /\ LET due == {c \in pending : route[c] = "teardown"}
           ready == {c \in due : task[c] = "none"}
       IN /\ awaits' = due
          /\ merged' = ready
          /\ task' = [c \in Cause |-> IF c \in ready THEN "commit" ELSE task[c]]
    /\ UNCHANGED <<steering, faults>> /\ CoordOnly

\* A settlement that fails releases nothing; `complete` clears the lane.
Settle ==
    /\ Up /\ coord = "committing"
    /\ \/ awaits = {} /\ coord' = "released" /\ steering' = <<>> /\ UNCHANGED faults
       \/ awaits # {} /\ coord' = "released" /\ steering' = <<>> /\ Fault
       \/ coord' = "stuck" /\ UNCHANGED steering /\ Fault
    /\ awaits' = {}
    /\ UNCHANGED <<merged, task>> /\ CoordOnly

----------------------------------------------------------------------------
(* The shutdown: the controller's abort and the drain begin in one step.   *)

Earlier(c, d) == \E m \in Sending(c) : \A n \in Sending(d) : m < n
EarliestFirst(S) == {s \in SetToSeqs(S) : \A i, j \in DOMAIN s : i < j => Earlier(s[i], s[j])}
InFlight == {c \in Cause : task[c] # "none"}

Shutdown ==
    /\ process = "open"
    /\ process' = "closing" /\ drain' = "waiting"
    /\ IF Registered /\ phase # "aborted" THEN AbortEntry("other")
       ELSE UNCHANGED <<phase, reason, steering, batches>>
    /\ todo' = SetToSeq({c \in Cause : task'[c] # "none"})
    /\ UNCHANGED <<accepted, hand, boundary, given, host, settlement, stores, faults>>

DrainOnly == UNCHANGED <<turn, settlement, pending, left, merged, lane, stores, process, faults>>

\* The tasks it found, and then the batches that are pending, earliest first.
DrainWaits ==
    /\ Up /\ drain = "waiting"
    /\ \A c \in ToSet(todo) : task[c] = "none"
    /\ todo' \in EarliestFirst(pending)
    /\ drain' = "starting"
    /\ UNCHANGED <<route, task>> /\ DrainOnly

DrainStarts ==
    /\ Up /\ drain = "starting" /\ todo # <<>>
    /\ Starts(Head(todo)) /\ drain' = "trying"
    /\ UNCHANGED <<route, todo>> /\ DrainOnly

DrainTries ==
    /\ Up /\ drain = "trying"
    /\ LET c == Head(todo)
       IN /\ task[c] = "none"
          /\ IF route[c] = "teardown" /\ c \in pending
             THEN /\ route' = [route EXCEPT ![c] = "requeue"]
                  /\ task' = [task EXCEPT ![c] = "enqueue"]
                  /\ UNCHANGED <<todo, drain>>
             ELSE todo' = Tail(todo) /\ drain' = "starting" /\ UNCHANGED <<route, task>>
    /\ DrainOnly

DrainEnds ==
    /\ Up
    /\ \/ drain = "starting" /\ todo = <<>>
          /\ todo' = SetToSeq(InFlight) /\ drain' = "ending"
       \/ drain = "ending" /\ (\A c \in ToSet(todo) : task[c] = "none")
          /\ todo' = <<>> /\ drain' = "done"
    /\ UNCHANGED <<route, task>> /\ DrainOnly

\* The database closes when the drain is over and the Turn released, or the
\* five seconds that it has for that are over.
GoDown ==
    /\ process = "closing" /\ drain = "done"
    /\ process' = "down"
    /\ UNCHANGED <<turn, settlement, batches, stores, drain, todo, faults>>

----------------------------------------------------------------------------
HostStep ==
    \/ HostStarts \/ HostNeverStarts \/ PollEnds \/ PollFails
    \/ TryBeginClose \/ HostCompletes \/ ReviewStops \/ HostFails
TaskStep(c) == CommitOne(c) \/ CommitEnds(c) \/ Enqueue(c) \/ Pause(c)
LaneStep(c) == LaneBegins(c) \/ LaneGoesOn(c)
DrainStep == DrainWaits \/ DrainStarts \/ DrainTries \/ DrainEnds \/ GoDown

Next ==
    \/ \E m \in Message : Steer(m)
    \/ \E why \in {"user", "other"} : Abort(why)
    \/ \E b \in {"mid-turn", "exit"} : PollBegins(b)
    \/ HostStep
    \/ \E c \in Cause : TaskStep(c) \/ LaneStep(c) \/ Dispatch(c)
    \/ Wake
    \/ CommitBeforeRelease \/ Settle
    \/ Shutdown \/ DrainStep

Spec == Init /\ [][Next]_vars

\* A task ends, a retry that is due begins, and a publication is made.
Fairness ==
    /\ \A c \in Cause : WF_vars(TaskStep(c)) /\ WF_vars(LaneStep(c))
    /\ WF_vars(Wake)

FairSpec == Spec /\ Fairness

----------------------------------------------------------------------------
(* Properties.                                                             *)

\* The types of the variables.
TypeOK ==
    /\ phase \in {"running", "closing", "aborted", "sealed"}
    /\ reason \in {"none", "user", "other"} /\ accepted \subseteq Message
    /\ steering \in Seq(Message) /\ hand \in Seq(Message)
    /\ boundary \in {"mid-turn", "exit"} /\ given \subseteq Message
    /\ host \in {"starting", "working", "polling", "failing", "over", "unsealed"}
    /\ coord \in {"host", "committing", "released", "stuck"} /\ awaits \subseteq Cause
    /\ pending \subseteq Cause /\ left \in [Cause -> Seq(User)]
    /\ route \in [Cause -> {"none", "teardown", "requeue"}]
    /\ task \in [Cause -> {"none", "commit", "enqueue", "pause"}]
    /\ merged \subseteq Cause
    /\ lane \in [Cause -> {"none", "waiting", "second", "last", "over"}]
    /\ conversation \in Seq(User)
    /\ row \in [Cause -> {"none", "queued", "dispatched", "again"}]
    /\ paused \in BOOLEAN /\ woken \in BOOLEAN
    /\ process \in {"open", "closing", "down"}
    /\ drain \in {"idle", "waiting", "starting", "trying", "ending", "done"}
    /\ todo \in Seq(Cause) /\ faults \in Nat

Queued == UNION {Sending(c) : c \in {d \in Cause : row[d] # "none"}}
Kept == UNION {Sending(c) : c \in pending}

\* An accepted message of a user is always somewhere, and in one place: with the
\* Turn, consumed, in a batch that is still tried, in the conversation or in the
\* queue, whatever the poll, the abort, the close, the seal and the failures of
\* the stores do (a retry after a commit that failed half-way begins behind what
\* is durable), if the Turn was closed, sealed or aborted before its release.
KeptOnce ==
    /\ \/ host = "unsealed"
       \/ accepted \cap User \subseteq
             ToSet(steering) \cup ToSet(hand) \cup given \cup Kept
             \cup ToSet(conversation) \cup Queued
    /\ given \cap (ToSet(conversation) \cup Queued \cup Kept) = {}
    /\ ToSet(conversation) \cap Queued = {}
    /\ \A i, j \in 1 .. Len(conversation) :
           conversation[i] = conversation[j] => i = j
    /\ \A c, d \in Cause : c # d => Sending(c) \cap Sending(d) = {}

\* The commit before the release puts what one abort handed over in two
\* batches, newer before older, into the conversation as it was sent (TS-76);
\* a shutdown drains the first batch without waiting for the second.
SendOrder ==
    faults = 0 /\ process = "open" =>
    \A i, j \in 1 .. Len(conversation) : i < j => conversation[i] < conversation[j]

\* The next Turn reads what fell into the conversation: when the release comes
\* no batch is on its way there, unless a write failed or took too long.
FallenIsReadByNext ==
    Released /\ host = "over" /\ faults = 0
    => \A c \in pending : c = "exit"

\* A batch is not stranded by one failure: once the Turn is released the
\* hand-over ends, without waiting for the shutdown.
HandoverEnds == Released ~> pending = {} \/ faults > 1 \/ process = "down"

\* An idle dispatcher hears of what an exit-close put in the queue.
ExitIsWoken ==
    Released /\ "exit" \in pending ~> woken \/ faults > 1 \/ process = "down"

\* "... so no admitted message is ever dropped" (steering-requeue.ts:28): when
\* the Turn is released, what a user sent into it is consumed or handed over.
NoAdmittedMessageDropped ==
    Released => accepted \cap User \subseteq given \cup Kept \cup ToSet(conversation) \cup Queued

============================================================================
