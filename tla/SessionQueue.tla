---------------------------- MODULE SessionQueue ----------------------------
(***************************************************************************)
(* The durable queue of one session: the rows of local_runtime_queue_items *)
(* and the pause row of local_runtime_queue_pauses, as the SQL statements  *)
(* of DrizzleQueueRepository (service/session-system/queue/repo/drizzle.ts)*)
(* change them, and the three statements of the admission fence            *)
(* (turn-priority-fence.ts) that write the pause row inside the            *)
(* transactions of the Turn repository.                                    *)
(*                                                                         *)
(* Every method of the repository is one `immediate` SQLite transaction,   *)
(* so each is one action.  A method that throws rolls its transaction back *)
(* and is a step that does not happen; a method that finds nothing to do   *)
(* still commits the removal of the expired rows: that outcome is Refresh. *)
(* Messages, models, routing, requested Turn ids and the Turn and time of a*)
(* pause are not modelled: nothing here branches on them.                  *)
(***************************************************************************)
EXTENDS Integers, FiniteSets

CONSTANTS
    Item,        \* queue item ids; a restored requeue may use one again
    Request,     \* clientRequestIds
    DedupeKey,   \* dedupeKeys
    Source,      \* sources of a message: api, and those of the runtime
    Owner,       \* claimOwnerIds, one for each run of the runtime process
    Input,       \* the enqueue inputs callers offer
    Cause,       \* causes of a pause: user-stop, turn-final-failure
    None,        \* no request, no dedupe key, no owner
    NoPause,     \* there is no pause row
    ClaimLease,  \* DEFAULT_CLAIM_LEASE_MS, in clock ticks
    MaxTime,     \* bound on the clock
    MaxClaim,    \* bound on the claims ever made
    MaxPos       \* bound on the AUTOINCREMENT column

VARIABLES
    rows,        \* the rows of the session
    nextPos,     \* next value of the AUTOINCREMENT column
    issued,      \* item ids that have named a row
    nextClaim,   \* next claim id
    pause,       \* the cause in the pause row, or NoPause
    token,       \* the pause a Turn admission consumed and may still restore
    accepted,    \* claims for which a Turn receipt exists
    now,         \* the clock
    alive,       \* owners whose process runs
    startedAt,   \* when an owner's process started, or NotStarted
    facts        \* the facts the last transaction committed

tables == <<rows, nextPos, issued, nextClaim>>
environment == <<now, alive, startedAt>>
vars == <<rows, nextPos, issued, nextClaim, pause, token, accepted,
          now, alive, startedAt, facts>>

Reason == {"expired", "cancelled", "accepted", "injected",
           "admission-rejected", "composer-transferred"}
Time == 0 .. MaxTime
Never == MaxTime + 1          \* the expiry of a row without expiresAt
NotStarted == -1
NoClaim == 0
Claim == 1 .. MaxClaim

InputType == [source : Source, request : Request \cup {None},
              dedupe : DedupeKey \cup {None}, expires : 0 .. Never]

ASSUME ConstantsAssumption ==
    /\ "api" \in Source
    /\ MaxTime \in Nat /\ MaxClaim \in Nat /\ MaxPos \in Nat
    /\ ClaimLease \in Nat \ {0}
    /\ Input \subseteq InputType
    /\ NoPause \notin Cause
    /\ None \notin Item \cup Request \cup DedupeKey \cup Owner

Row == [item : Item, pos : 1 .. MaxPos, status : {"queued", "claimed"},
        source : Source, request : Request \cup {None},
        dedupe : DedupeKey \cup {None}, expires : 0 .. Never,
        claim : {NoClaim} \cup Claim, claimedAt : Time,
        owner : Owner \cup {None}, prepared : BOOLEAN]

RemovedFact(i, reason) == [kind |-> "removed", item |-> i, reason |-> reason]
EnqueuedFact(i) == [kind |-> "enqueued", item |-> i]
RequeuedFact(i) == [kind |-> "requeued", item |-> i]
StateFact(paused) == [kind |-> "execution-state-changed", paused |-> paused]

----------------------------------------------------------------------------
(* Row selection.                                                          *)

Queued(R) == {r \in R : r.status = "queued"}
Claimed(R) == {r \in R : r.status = "claimed"}
ClaimRows(R, c) == {r \in Claimed(R) : r.claim = c}
First(R) == {r \in R : \A s \in R : r.pos <= s.pos}

Expired(r) == r.expires <= now
ExpiredQueued == {r \in Queued(rows) : Expired(r)}
Live == rows \ ExpiredQueued
Removals(R, reason) == {RemovedFact(r.item, reason) : r \in R}
ExpiredFacts == Removals(ExpiredQueued, "expired")

WithoutClaim(r) == [r EXCEPT !.status = "queued", !.claim = NoClaim,
                             !.claimedAt = 0, !.owner = None,
                             !.prepared = FALSE]

\* Mutant of Write: the row is replaced, and takes a new position.
WriteAnew(R, r, s) == (R \ {r}) \cup {[s EXCEPT !.pos = nextPos]}

\* The rows R after row r was upserted as s: the upsert keeps the position.
Write(R, r, s) == (R \ {r}) \cup {[s EXCEPT !.pos = r.pos]}

\* Mutants of Commit: one leaves the pause of an empty queue, one does not
\* report its removal.
CommitUnreconciled(R, p, F) ==
    /\ rows' = R
    /\ pause' = p
    /\ facts' = F
CommitUnreported(R, p, F) ==
    /\ rows' = R
    /\ pause' = IF R = {} THEN NoPause ELSE p
    /\ facts' = F

(* The end of every repository transaction: a pause outlives the last      *)
(* pending row in no committed state, and its removal is reported.         *)
Commit(R, p, F) ==
    LET kept == IF R = {} THEN NoPause ELSE p
    IN  /\ rows' = R
        /\ pause' = kept
        /\ facts' = F \cup (IF pause # NoPause /\ kept = NoPause
                            THEN {StateFact(FALSE)} ELSE {})

(* Queued rows are deleted and inserted again, the first of them at        *)
(* position `from`; `pos` gives each its new position.                     *)
Placements(R, from) ==
    {pos \in [{r.item : r \in Queued(R)} -> from .. from + Cardinality(Queued(R)) - 1] :
        \A r, s \in Queued(R) : pos[r.item] = pos[s.item] => r = s}
PlacedUpTo(R, from) ==
    /\ nextPos' = from + Cardinality(Queued(R))
    /\ nextPos' \in 1 .. MaxPos + 1
Placed(R, pos) ==
    Claimed(R) \cup {[r EXCEPT !.pos = pos[r.item]] : r \in Queued(R)}
FrontFirst(R, i, pos) ==
    \A r, s \in Queued(R) :
        pos[r.item] < pos[s.item]
            <=> IF i \in {r.item, s.item} THEN r.item = i /\ s.item # i
                ELSE r.pos < s.pos

----------------------------------------------------------------------------
Init ==
    /\ rows = {} /\ nextPos = 1 /\ issued = {} /\ nextClaim = 1
    /\ pause = NoPause /\ token = NoPause /\ accepted = {}
    /\ now = 0 /\ facts = {}
    /\ \E o \in Owner :
        /\ alive = {o}
        /\ startedAt = [p \in Owner |-> IF p = o THEN 0 ELSE NotStarted]

(* Time, and runs of the runtime process.                                  *)

Tick ==
    /\ now < MaxTime
    /\ now' = now + 1
    /\ facts' = {}
    /\ UNCHANGED <<tables, pause, token, accepted, alive, startedAt>>

StartOwner(o) ==
    /\ startedAt[o] = NotStarted
    /\ startedAt' = [startedAt EXCEPT ![o] = now]
    /\ alive' = alive \cup {o}
    /\ facts' = {}
    /\ UNCHANGED <<tables, pause, token, accepted, now>>

\* A crash loses nothing durable, but the revocation its process still owed.
CrashOwner(o) ==
    /\ o \in alive
    /\ alive' = alive \ {o}
    /\ token' \in {token, NoPause}
    /\ facts' = {}
    /\ UNCHANGED <<tables, pause, accepted, now, startedAt>>

----------------------------------------------------------------------------
(* The queue as its users see it.                                          *)

\* snapshot, list, get and findByClientRequestId, and every other method
\* that returns before it changes a row of its own.
Refresh ==
    /\ Commit(Live, pause, ExpiredFacts)
    /\ UNCHANGED <<nextPos, issued, nextClaim, token, accepted, environment>>

PauseIfPending(cause) ==
    /\ Live # {}
    /\ pause = NoPause
    /\ Commit(Live, cause,
              ExpiredFacts \cup {StateFact(TRUE)})
    /\ UNCHANGED <<nextPos, issued, nextClaim, token, accepted, environment>>

ContinueQueue ==
    /\ pause # NoPause
    /\ Commit(Live, NoPause, ExpiredFacts)
    /\ UNCHANGED <<nextPos, issued, nextClaim, token, accepted, environment>>

\* Mutant of RowsOfRequest: claimed rows are overlooked.
QueuedOfRequest(in) ==
    {r \in Queued(Live) : r.request = in.request /\ in.request # None}

RowsOfRequest(in) ==
    {r \in Live : r.request = in.request /\ in.request # None}

\* An input whose clientRequestId already has a row changes no row but the
\* order of the queued ones; a claimed row cannot be inserted a second time.
ReplayEnqueue(in, restore, front) ==
    /\ in.expires > now
    /\ (front /\ restore = None) => Claimed(Live) = {}
    /\ \E found \in RowsOfRequest(in) :
        IF front
        THEN /\ found.status = "queued"
             /\ PlacedUpTo(Live, nextPos)
             /\ \E pos \in Placements(Live, nextPos) :
                 /\ FrontFirst(Live, found.item, pos)
                 /\ Commit(Placed(Live, pos), pause, ExpiredFacts)
        ELSE /\ Commit(Live, pause, ExpiredFacts)
             /\ UNCHANGED nextPos
    /\ UNCHANGED <<issued, nextClaim, token, accepted, environment>>

NewRow(i, pos, in) ==
    [item |-> i, pos |-> pos, status |-> "queued", source |-> in.source,
     request |-> in.request, dedupe |-> in.dedupe, expires |-> in.expires,
     claim |-> NoClaim, claimedAt |-> 0, owner |-> None, prepared |-> FALSE]

\* Mutant of IdentityOf: the id is restored though a queued row has it.
IdentityTrusted(i, restore, R) ==
    IF restore # None THEN i = restore ELSE i \in Item \ issued

\* makeId answers an id no row ever had.  A trusted requeue restores the id
\* it names unless a queued row has it; a claimed row under that id goes.
IdentityOf(i, restore, R) ==
    IF restore # None /\ \A r \in Queued(R) : r.item # restore
    THEN i = restore
    ELSE i \in Item \ issued

\* `members` are claimed rows an immediate-send batch carries away.
InsertEnqueue(in, restore, front, members) ==
    LET settled == Live \ members
        displaced == {r \in Claimed(settled) : r.item = restore}
        kept == settled \ displaced
        replaced == First({r \in Queued(kept) :
                              r.dedupe = in.dedupe /\ in.dedupe # None})
        from == IF replaced = {} THEN nextPos + 1 ELSE nextPos
    IN  /\ in.expires > now
        /\ RowsOfRequest(in) = {}
        /\ (front /\ restore = None) => Claimed(Live) = {}
        /\ members \subseteq Claimed(Live)
        /\ from <= MaxPos + 1
        /\ \E i \in Item :
            /\ IdentityOf(i, restore, settled)
            /\ issued' = issued \cup {i}
            /\ LET pos == IF replaced = {} THEN nextPos
                          ELSE CHOOSE p \in {r.pos : r \in replaced} : TRUE
                   written == (kept \ replaced) \cup {NewRow(i, pos, in)}
                   report == ExpiredFacts \cup Removals(members, "injected")
                             \cup Removals(displaced \cup replaced, "cancelled")
                             \cup {EnqueuedFact(i)}
               IN  IF front
                   THEN /\ PlacedUpTo(written, from)
                        /\ \E place \in Placements(written, from) :
                            /\ FrontFirst(written, i, place)
                            /\ Commit(Placed(written, place), pause, report)
                   ELSE /\ Commit(written, pause, report)
                        /\ nextPos' = from
        /\ UNCHANGED <<nextClaim, token, accepted, environment>>

\* Mutant of UpdateQueued: the time is added to the old one.
UpdateRelative(i, expires) ==
    \E r \in Queued(Live) :
        /\ r.item = i /\ r.source = "api"
        /\ expires > now
        /\ Commit(Write(Live, r, [r EXCEPT !.expires = @ + expires]),
                  pause, ExpiredFacts)
        /\ UNCHANGED <<nextPos, issued, nextClaim, token, accepted, environment>>

UpdateQueued(i, expires) ==
    \E r \in Queued(Live) :
        /\ r.item = i /\ r.source = "api"
        /\ expires > now
        /\ Commit(Write(Live, r, [r EXCEPT !.expires = expires]),
                  pause, ExpiredFacts)
        /\ UNCHANGED <<nextPos, issued, nextClaim, token, accepted, environment>>

Cancel(i) ==
    \E r \in Queued(Live) :
        /\ r.item = i
        /\ Commit(Live \ {r}, pause,
                  ExpiredFacts \cup {RemovedFact(i, "cancelled")})
        /\ UNCHANGED <<nextPos, issued, nextClaim, token, accepted, environment>>

QueuedApi == {r \in Queued(Live) : r.source = "api"}

ClearUserManageable ==
    /\ QueuedApi # {}
    /\ Commit(Live \ QueuedApi, pause,
              ExpiredFacts \cup Removals(QueuedApi, "cancelled"))
    /\ UNCHANGED <<nextPos, issued, nextClaim, token, accepted, environment>>

\* `taken` are the api rows whose message is plain text without attachments.
DrainComposerInjectable(taken) ==
    /\ taken # {} /\ taken \subseteq QueuedApi
    /\ Commit(Live \ taken, pause,
              ExpiredFacts \cup Removals(taken, "composer-transferred"))
    /\ UNCHANGED <<nextPos, issued, nextClaim, token, accepted, environment>>

PromoteQueuedSource(i, source) ==
    \E r \in Queued(Live) :
        /\ r.item = i
        /\ Commit(Write(Live, r, [r EXCEPT !.source = source]),
                  pause, ExpiredFacts)
        /\ UNCHANGED <<nextPos, issued, nextClaim, token, accepted, environment>>

Reorder ==
    /\ Claimed(Live) = {}
    /\ Live # {}
    /\ PlacedUpTo(Live, nextPos)
    /\ \E pos \in Placements(Live, nextPos) :
        Commit(Placed(Live, pos), pause, ExpiredFacts)
    /\ UNCHANGED <<issued, nextClaim, token, accepted, environment>>

DeleteSession ==
    /\ rows # {}
    /\ Commit({}, pause, ExpiredFacts \cup Removals(Live, "cancelled"))
    /\ UNCHANGED <<nextPos, issued, nextClaim, token, accepted, environment>>

----------------------------------------------------------------------------
(* Claims.                                                                 *)

\* Mutant of ClaimRow: a row is claimed beside the one that is.
ClaimBeside(o, r) ==
    /\ nextClaim <= MaxClaim
    /\ nextClaim' = nextClaim + 1
    /\ Commit(Write(Live, r, [r EXCEPT !.status = "claimed",
                                       !.claim = nextClaim,
                                       !.claimedAt = now, !.owner = o]),
              pause, ExpiredFacts)
    /\ UNCHANGED <<nextPos, issued, token, accepted, environment>>

ClaimRow(o, r) ==
    /\ Claimed(Live) = {}
    /\ nextClaim <= MaxClaim
    /\ nextClaim' = nextClaim + 1
    /\ Commit(Write(Live, r, [r EXCEPT !.status = "claimed",
                                       !.claim = nextClaim,
                                       !.claimedAt = now,
                                       !.owner = o,
                                       !.prepared = FALSE]),
              pause, ExpiredFacts)
    /\ UNCHANGED <<nextPos, issued, token, accepted, environment>>

\* claimNext of a drain pass: the queue's head, but for the items that
\* yielded their position in this pass.
ClaimFifo(o, yielded) ==
    /\ o \in alive
    /\ pause = NoPause
    /\ \E r \in First({q \in Queued(Live) : q.item \notin yielded}) :
        ClaimRow(o, r)

ClaimContinued(o) ==
    /\ o \in alive
    /\ \E r \in First(Queued(Live)) : ClaimRow(o, r)

ClaimExact(o, i) ==
    /\ o \in alive
    /\ \E r \in Queued(Live) : r.item = i /\ ClaimRow(o, r)

\* `prepared`: the last of the row's delivery attempts is of its present claim.
PrepareDelivery(c) ==
    /\ \E r \in ClaimRows(rows, c) :
        /\ ~r.prepared
        /\ Commit(Write(rows, r, [r EXCEPT !.prepared = TRUE]), pause, {})
    /\ UNCHANGED <<nextPos, issued, nextClaim, token, accepted, environment>>

\* The Turn repository's own transaction; its fence wants the claim's row.
TurnAccepts(c) ==
    /\ ClaimRows(rows, c) # {}
    /\ c \notin accepted
    /\ accepted' = accepted \cup {c}
    /\ facts' = {}
    /\ UNCHANGED <<tables, pause, token, environment>>

\* rejectClaim, cancelClaim and consumeClaim, by their reason.
RemoveClaimed(c, reason) ==
    /\ ClaimRows(Live, c) # {}
    /\ Commit(Live \ ClaimRows(Live, c), pause,
              ExpiredFacts \cup Removals(ClaimRows(Live, c), reason))
    /\ UNCHANGED <<nextPos, issued, nextClaim, token, accepted, environment>>

Acknowledge(c) ==
    /\ c \in accepted
    /\ RemoveClaimed(c, "accepted")

\* Mutant of Return: rows that expired while claimed go without a fact.
ReturnSilent(R, gone, F) ==
    LET back == {r \in R : ~Expired(r)}
    IN  Commit(((Live \ gone) \ R) \cup {WithoutClaim(r) : r \in back}, pause,
               F \cup ExpiredFacts \cup {RequeuedFact(r.item) : r \in back})

\* The rows of R go back to the queue, where they keep their position; those
\* whose time ran out while they were claimed go.
Return(R, gone, F) ==
    LET dropped == {r \in R : Expired(r)}
        back == R \ dropped
    IN  Commit(((Live \ gone) \ R) \cup {WithoutClaim(r) : r \in back}, pause,
               F \cup ExpiredFacts \cup Removals(dropped, "expired")
                 \cup {RequeuedFact(r.item) : r \in back})

ReleaseClaim(c) ==
    /\ ClaimRows(Live, c) # {}
    /\ Return(ClaimRows(Live, c), {}, {})
    /\ UNCHANGED <<nextPos, issued, nextClaim, token, accepted, environment>>

\* A claim made before process o started is dead whoever owns it when o
\* recovers with its start as the scope.
ActiveClaim(r, o, scoped) ==
    /\ ~(scoped /\ r.claimedAt <= startedAt[o])
    /\ r.claimedAt + ClaimLease > now
    /\ r.owner \in alive

RecoverClaims(o, scoped) ==
    LET stale == {r \in Claimed(Live) : ~ActiveClaim(r, o, scoped)}
        done == {r \in stale : ~r.prepared /\ r.claim \in accepted}
    IN  /\ o \in alive
        /\ stale # {}
        /\ Return(stale \ done, done, Removals(done, "accepted"))
        /\ UNCHANGED <<nextPos, issued, nextClaim, token, accepted, environment>>

----------------------------------------------------------------------------
(* The admission fence's writes, inside the Turn repository's transactions:*)
(* they neither remove expired rows nor reconcile the pause.               *)

\* Rows that still count when a Turn ends: claimed, or queued and unexpired.
PendingNow == Claimed(rows) \cup {r \in Queued(rows) : ~Expired(r)}

FenceAccepted ==
    /\ pause # NoPause
    /\ pause' = NoPause
    /\ token' = pause
    /\ facts' = {StateFact(FALSE)}
    /\ UNCHANGED <<tables, accepted, environment>>

FenceSettled(cause) ==
    /\ PendingNow # {}
    /\ pause' = cause
    /\ facts' = {StateFact(TRUE)}
    /\ UNCHANGED <<tables, token, accepted, environment>>

FenceRevoked ==
    /\ token # NoPause
    /\ token' = NoPause
    /\ IF PendingNow # {} /\ pause = NoPause
       THEN pause' = token /\ facts' = {StateFact(TRUE)}
       ELSE UNCHANGED pause /\ facts' = {}
    /\ UNCHANGED <<tables, accepted, environment>>

----------------------------------------------------------------------------
PlaceInFront ==
    \E in \in Input, restore \in Item \cup {None} :
        \/ ReplayEnqueue(in, restore, TRUE)
        \/ \E members \in SUBSET Claimed(rows) :
            InsertEnqueue(in, restore, TRUE, members)

EnqueueAtEnd ==
    \E in \in Input, restore \in Item \cup {None} :
        \/ ReplayEnqueue(in, restore, FALSE)
        \/ \E members \in SUBSET Claimed(rows) :
            InsertEnqueue(in, restore, FALSE, members)

UserStep ==
    \/ Refresh
    \/ \E cause \in Cause : PauseIfPending(cause)
    \/ ContinueQueue
    \/ EnqueueAtEnd
    \/ \E i \in Item :
        \/ \E expires \in Time : UpdateQueued(i, expires)
        \/ Cancel(i)
        \/ \E source \in Source : PromoteQueuedSource(i, source)
    \/ ClearUserManageable
    \/ \E taken \in SUBSET QueuedApi : DrainComposerInjectable(taken)
    \/ DeleteSession

ClaimStep ==
    \/ \E o \in Owner :
        \/ \E yielded \in SUBSET issued : ClaimFifo(o, yielded)
        \/ ClaimContinued(o)
        \/ \E i \in Item : ClaimExact(o, i)
        \/ \E scoped \in BOOLEAN : RecoverClaims(o, scoped)
    \/ \E c \in Claim :
        \/ PrepareDelivery(c)
        \/ TurnAccepts(c)
        \/ Acknowledge(c)
        \/ ReleaseClaim(c)
        \/ \E reason \in {"cancelled", "injected", "admission-rejected"} :
            RemoveClaimed(c, reason)

FenceStep ==
    \/ FenceAccepted
    \/ \E cause \in Cause : FenceSettled(cause)
    \/ FenceRevoked

ProcessStep ==
    \/ Tick
    \/ \E o \in Owner : StartOwner(o) \/ CrashOwner(o)

Next == UserStep \/ PlaceInFront \/ Reorder \/ ClaimStep \/ FenceStep \/ ProcessStep

Spec == Init /\ [][Next]_vars

----------------------------------------------------------------------------
(* Properties.                                                             *)

\* Every variable has its type.
TypeOK ==
    /\ rows \subseteq Row
    /\ nextPos \in 1 .. MaxPos + 1
    /\ issued \subseteq Item
    /\ nextClaim \in 1 .. MaxClaim + 1
    /\ pause \in Cause \cup {NoPause}
    /\ token \in Cause \cup {NoPause}
    /\ accepted \subseteq Claim
    /\ now \in Time
    /\ alive \subseteq Owner
    /\ startedAt \in [Owner -> {NotStarted} \cup Time]

\* At most one row of a session is claimed at any time: two drain passes, a
\* send-now and a restart recovery never hold two messages at once.
AtMostOneClaim ==
    \A r, s \in Claimed(rows) : r = s

\* A pause exists only while there is pending work, although two components
\* write the pause row and three kinds of removal empty the queue.
PauseNeedsPending ==
    pause # NoPause => rows # {}

\* A client request is in the queue once however often it is sent, and
\* whatever requeues, restorations and replacements happen meanwhile.
OneRowPerRequest ==
    \A r, s \in rows : (r.request = s.request /\ r.request # None) => r = s

\* The unique index and the AUTOINCREMENT column: an id names one row, and
\* no two rows share a place in the queue.
RowsDistinct ==
    \A r, s \in rows : (r.item = s.item \/ r.pos = s.pos) => r = s

\* Only a reorder and a front placement change the order of two queued or
\* claimed rows: a release or a recovery puts a message back where it was.
OrderKept ==
    [][(\E r, s \in rows, p, q \in rows' :
            /\ r.item = p.item /\ EnqueuedFact(p.item) \notin facts'
            /\ s.item = q.item /\ EnqueuedFact(q.item) \notin facts'
            /\ r.pos < s.pos /\ q.pos < p.pos)
        => PlaceInFront \/ Reorder]_vars

\* A message that leaves the queue, or whose claim is taken from its holder,
\* is reported by exactly the fact that says so: the completion registry
\* settles the sender's promise from these facts and nothing else.
ChangesReported ==
    [][\A r \in rows :
        LET same == {s \in rows' : s.item = r.item /\ EnqueuedFact(r.item) \notin facts'}
            gone == {f \in facts' : f.kind = "removed" /\ f.item = r.item}
        IN  /\ same = {} <=> gone # {}
            /\ Cardinality(gone) <= 1
            /\ (r.status = "claimed" /\ same # {} /\ same \subseteq Queued(rows'))
                   <=> RequeuedFact(r.item) \in facts']_vars

\* Every change between a paused and a running queue is reported, whichever
\* of the two components made it.
PauseReported ==
    [][\A paused \in BOOLEAN :
        (((pause = NoPause) # (pause' = NoPause)) /\ (pause' # NoPause) = paused)
            => StateFact(paused) \in facts']_vars
=============================================================================
