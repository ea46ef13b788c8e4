# MiniMax Code runtime: formal models

TLA+ models of the session core of `local-runtime-v2`, the runtime process behind
the terminal interface and the desktop host of this repository, and of the login
that all its processes share (`oauth-core`). A session is a
conversation; the hard part of the runtime is that several things want to work on
one session at once: the user's messages, queued messages, steering, scheduled and
background work, compaction, history mutations and deletion, in one process or in
several that share a data directory, each of which may stall, fail a write or end at
any point.

Paths below are relative to `src/packages/local-runtime-v2/src/` unless they start
with another package.

## Inventory

| Part | State it keeps | Operations | Talks to | What makes it correct |
|---|---|---|---|---|
| Session queue (`service/session-system/queue/repo`) | SQLite rows of queued and claimed messages, one pause row for each session | enqueue, replay, restore, reorder, edit, claim, prepare, acknowledge, release, reject, recover, pause, continue | dispatcher, send-now, completion registry (by committed facts), admission fence | one claim at a time, one row for a request, stable order, every loss reported, no pause of an empty queue |
| Admission fence (`queue/turn-priority-fence.ts`) | writes the pause row in the Turn repository's transactions | block, accepted, settled, revoked | queue tables, Turn repository | a pause is consumed once and restored only if nothing replaced it |
| Turn lock and receipts (`service/turn-system/persistence`) | one lock row for a session; a receipt for each Turn; failed settlements in memory | admit, renew, settle, revoke, maintenance, deletion, recovery of expired leases and of restarts | controllers of all processes that share the database | lock and receipt agree, an outcome is final, a fence stands |
| Turn controller and coordinator (`turn-system/execution`) | the active entry of a session, its phase and renewal timer | register, renew, abort, close, settle with one retry, complete | repository, agent host, queue wake | an accepted Turn ends, and nothing starts before the last one was released |
| Session deletion (`turn-system/lifecycle`, `session-system/sessions/lifecycle`) | a gate in memory, the fence in the lock row | gate, fence, drain, abort, erase, clean up, complete, resume at restart | all of the above | nothing writes between erasure and completion; a retried deletion ends |
| Session operation gate and history mutation (`turn-system/lifecycle`) | permits, exclusive leases and pending submissions in memory | enter, acquire exclusive, block, release, stop | every submission, compaction, maintenance, deletion, fork, rewind | exclusive means alone; every permit and lease comes back; a blocked session drains |
| Queue dispatcher (`turn-system/queue.dispatcher.ts`) and delivery (`application/conversation`) | wake counters, the pass's yielded items, recovery flags | dispatch, continue, quiesce, recover; prepare, admit, register, commit, acknowledge, start | queue, admission, agent host | no wake is lost, a pass ends, a message starts at most one host run |
| Steering (`turn-system/execution/steering`, the lane in the controller) | the lane, what a poll claimed, batches that are not persisted | steer, poll, acknowledge, restore, discard, commit, requeue, drain | controller, host, conversation, queue, shutdown | a steered message is in one place, in send order, and the hand-over ends |
| Runtime ownership (`infra/runtime-owner`) | lease files, owner ids | acquire, heartbeat, liveness, close | restart recovery, deletion | work is recovered only from the dead |
| Agent host and compaction (`turn-system/agent-host`, `turn-system/compaction`) | the run of one Turn | run, events, history commit, compaction | model, tools | one phase of a Turn from here |
| Session records and history (`service/session-system`) | transcripts, Session rows | read, append, delete | everything | storage |
| Scheduler, SSE ring, event bus (`infra`) | timers, replay buffers, subscribers | schedule, publish, subscribe | clients | bounded replay, no lost event |
| Mini-apps, cron, background tasks | supervised processes, schedules | start, stop, fire, retry | queue, sessions | at most one run of a job |
| Goals, runaway guard, permissions, other agent modules | policies of one Turn | evaluate | agent loop | pure functions, mostly |
| Credentials (`oauth-core`, `oauth-lease-protocol`) | a state file, a secret file with a cache in each process, a lock file | token, status, retry after 401, login, cancel, logout | all processes of the user, the authorization server | what was logged out stays out; one use of a refresh token; only the owner of a login commits it |
| Tool hosts, browser, agent loop, extensions, configuration, shared code, terminal interface, first-generation runtime | | | | not modelled: input and output, parsing, rendering, superseded code |

`PROJECT.json` lists the hazards of this code at the line where each one bites, with
the properties that watch it.

## Modules

### SessionQueue: the durable queue of one session

`SessionQueue.tla` is `DrizzleQueueRepository` and the fence. Each method of the
repository is one `immediate` SQLite transaction and one action; a method that throws
is rolled back and does not happen, and one that finds nothing still commits the
removal of expired rows (`Refresh`). `rows` is `local_runtime_queue_items`, `nextPos`
its AUTOINCREMENT column, `pause` the pause row, `facts` what the last transaction
hands to the committed-fact hub. `token` is the pause that an admission consumed and
may restore when it is revoked. `accepted` is what the Turn receipts say of a claim:
recovery asks it. `Commit` is the end of every transaction, which removes the pause of
an empty queue and reports it. Processes (`Owner`) start, end and start again as
another owner; a claim records the owner, its time, and whether the last delivery
attempt was prepared under it (`prepared`).

Left out, because nothing branches on them: message contents, models, routing and
requested Turn ids, the Turn and time recorded in a pause (`continueQueue` compares
them: `ContinueQueue` that finds another pause is `Refresh`), the migration of rows of
the first-generation runtime, and `replaceSession`, which has no caller.

### TurnLease: who may work on a session

`TurnLease.tla` composes `TurnRepository`, the controllers of the processes, the
execution coordinator's settlement, maintenance and session deletion. `lock` is the
row of `session_locks` (kind, lease id, process, what is left of the lease, and which
processes started after it was acquired: what restart recovery compares), `status` the
receipts, `work`/`runner` how far the code that runs a Turn has come and where,
`pending` the failed settlement a process remembers, `deletion` the step a process's
deletion is at. A transaction is a function from lock and receipts to lock and
receipts (`Settled`, `AfterPending`, `AfterExpiry`, `AfterExpiredOwner`), and an action
composes the ones the code calls, in its order.

The phases of `work` follow the code: `admitted` (the receipt is committed, the
controller has no entry yet), `running`, `closing` (sealed or aborted: no renewals; a
deletion that finds a Turn active aborts it, and may only then throw),
`released` (settled, the entry not yet completed), `failing` (settlement of an
admission that never registered), and `stuck`/`wedged` (settlement failed twice; the
entry stays, in the second case with its renewal timer).

Left out: duplicate client requests, steering receipts, queue facts (they are in
`SessionQueue`), and locks that carry no owner id, written by older versions.

### QueueDispatch and MessageDelivery: from the queue to a host run

`QueueDispatch.tla` composes the dispatcher's drain passes with the delivery of a
claimed message and the two other ways a user delivers one: continuing a paused queue,
and sending a queued message now. Each is a worker: `drain` (the pass of
`runDrain`), `continued` (`continuePausedQueue`) and `sender`
(`queue-steer-workflow.ts`). The runtime is one thread, so what interleaves is what
lies between two awaits, and that is one action.

`pc` is how far a worker's delivery has come. A pass goes `begin`, `recover` (only with
`recoverBeforeNextClaim`), `next` (claim). A delivery goes `claimed` (classification by
the policies), `prepared` (the submission is recorded), `accepted` (admission is
committed and the Turn waits at its start fence), `acknowledged` (the row is removed)
and ends when the fence is released. `rejected` is an admission that nothing accepted,
`raced` one that found the session busy, `threw` the error path that returns the
claim. The sender goes on with `steered` and `consuming` when it hands the message to
a Turn that runs, with `unpausing` when its own Turn started. `woken` says that
`requestedWake` is ahead of `startedWake`; `owed` is a dispatch that was published and
not yet run; `open` is false once the dispatcher is closed or blocked for the session;
`recovering` is `recoverBeforeNextClaim`.

The tables are those of `SessionQueue`, reduced to what a delivery sees: `row` of each
message, numbered by position, and the one `claim` with its worker and whether its
lease runs. `turn` is the lock of `TurnLease`, reduced to who has the session: a Turn
that waits, runs or is being failed, other work (`held`), or the Turn of a process that
ended (`orphan`).

Simplified: the fence `yieldsFifoPosition` and the release that follows it are one
step; classification and the policies asked at admission are one choice, so a message
may be deferred or refused until it is submitted; recovery always returns a stale
claim, because a delivery is prepared under its claim (the other answers of recovery
are in `SessionQueue`). Left out: duplicate client requests that answer from a receipt, hand-off to a cloud session,
revocation of an admission, requeued steering, and messages sent immediately without
the queue.

`MessageDelivery.tla` is what this promises, without workers, claims or wakes: a
message is absent, waiting, started or gone, and one host run goes on at a time. The
mapping (`StatusOf`) counts a message as waiting while its row is in the queue, and
also between the removal of the row and the start, as long as the Turn is going to
start. The calm run checks all of it with liveness (`DeliveryPromise`), the run with
mishaps its safety part (`DeliverySafe`).

### SessionGate: who may start something on a session

`SessionGate.tla` is `session-operation-gate.ts` with everything that passes it or goes
around it in one process. `permits` stands for the counter `active` (the set is the
number, with names), `mutation` for the exclusive lease's symbol, `sharedWait` and
`fullWait` for who waits for the two deferred drains; a promise is resolved exactly when
its waiter leaves the set. `pc` is where each operation stands between two awaits:
sends and compactions (`checking` the session, `preparing`, `admitted`, `accepting` the
delivery, `starting`), trusted submissions that take the same way without a permit,
interrupting sends (cloud hand-offs: `acquired`, `waiting` for the drain, `drained`,
`interrupting`, and then a submission), lifecycle fences and maintenance (`locked`,
`unlocked`). `stopped` is the flag of a `PendingSubmission`; a stop of an interrupting
send releases its lease while the send goes on to its next look at the flag. `del` is
the deletion, `fated` its process gate, `lock` the lock row, reduced to who has it and
whether a deletion marked it (`TurnLease` has the rest), `entry` the controller's Turn.

Left out: replays answered from a receipt, failing settlements and leases that run out
(in `TurnLease`), the queue wake after an interrupting send.

### SteeringHandoff: where a message sent into a Turn ends

`SteeringHandoff.tla` follows one Turn from its registration: the controller's lane, the
host that polls it, the four ways the lane is discarded (`abort`; `restored`, what a
poll gives back after an abort; `seal`; `exit`, the close), and the batches these make.
`pending`, `left`, `route` and `task` are the maps of `createSteeringRequeue`; `merged`
are the batches in the one commit before the release; `lane` is the detached function
that retries a batch after the release; `drain` and `todo` are the shutdown's drain. A
commit appends one message at a time and may fail after any of them; an enqueue and the
pause that follows it fail separately. A message is the number of its sending, which is
its identity and its `createdAt`. `conversation` is the history's rows for steered
messages in the order they were appended, `row` the queue item of a batch.

Left out: the tool-result lane, display rows (written with the history row), hooks (a
poll that a plugin stops is there), and a failed commit that wrote its message all the
same (the next attempt finds the identity and goes on).

### SharedLogin: the account of all processes

`SharedLogin.tla` is `MCodeOAuthCore` with the state file, the secret's file and the
lock file. `disk` is what the secret's file says, `cache` what each process's
`FileStore` remembers of it: it reads the file once. A call is a `kind` (a token, a
status, a retry after a refused token, a logout, a login) and a `pc`; a section under
the lock that writes once is one action, one that writes twice is two, so that a crash
falls between. Each write may also fail (`WriteFails`): the file stays what it was, since
it is replaced by a rename, but `FileStore` has changed what its process remembers
before it writes (`file-store.ts:145`, `:151`), the lock is given back, and what the call
does next is what its error path does: it ends, or it releases the lease of its login,
which is the one thing that `commitLogin` leaves undone when its state write fails
(`auth-core.ts:514`, rolled back only when the login was cancelled). A logout that does
not ask the server to revoke leaves the token accepted (`Revoke`). `seen` is what a call read before it waited. A credential is the
generation, the login it belongs to (`epoch`, named by its first grant) and the grant;
the server's part is what the code shows of it: it issues grants and accepts the newest
refresh token of a login.

The id of an authorization lease is the client's name, which is as unique as the random
id while a client runs one login. Left out: scopes, nonces, namespaces and their
migration, a file that cannot be read or does not parse, a lock that cannot be given
back, and a holder of the lock that stalls until the lock is taken over.

### MC modules and proofs

`MCSessionQueue` and `MCTurnLease` give the constants names and symmetry,
`MCQueueDispatch` and `MCSessionGate` are instantiated by their configurations alone,
`MCSteeringHandoff` and `MCSharedLogin` name messages and the processes of clients.
The theorems are in `SessionQueueProofs`, `TurnLeaseProofs`, `QueueDispatchProofs` with
`QueueDeliveryProofs` on top of it, `SessionGateProofs`, `SteeringHandoffProofs`, and
`SharedLoginProofs` with `SharedLoginSafetyProofs` on top of it.

## What the runs check

| Run | Shows |
|---|---|
| `queue_order` | three items, one repeated request, one coalescing key, no clock: `OneRowPerRequest`, `RowsDistinct`, and `OrderKept`: release, recovery, replacement and restoration leave the order alone |
| `queue_time` | two items that may expire while queued or claimed, two owners, one pause cause: `TypeOK`, `AtMostOneClaim`, `PauseNeedsPending`, `ChangesReported`, `PauseReported` |
| `lease_overlap` | two overlapping processes with failing writes, crashes and slow renewals, two Turns, one maintenance run: `TypeOK`, `LockMatchesTurn`, `EndsOnce`, `FenceHeldUntilGone` |
| `lease_single` | one process at a time, two restarts, no failing writes, with fairness: `AcceptedTurnIsServed`, `ErasedStaysErased`, `DeletionFinishes` |
| `lease_quiescent` | two overlapping processes with failing writes: an assertion of the code that the code does not keep; see Findings |
| `dispatch_calm` | three messages, the first of them the goal's, only the drain, nothing fails, with fairness: `NothingForgotten`, `StartsInOrder`, `DeliveryPromise` |
| `dispatch_mishaps` | two messages, all three workers, a crash, and every mishap (refusing policies, failing writes, stopped Turns, leases that run out, a closed dispatcher): `TypeOK`, `StartsAtMostOnce`, `SettledStays`, `DeliverySafe` |
| `gate` | a send, a trusted submission, an interrupting send, a fence, a maintenance run, one stop, one failing step, one deletion that is retried, with fairness: `TypeOK`, `PermitsComeBack`, `DrainedIsAlone`, `NothingOutlivesErasure`, `InterruptorIsNext`, `LeaseComesBack`, `DeletionEnds` |
| `steering` | two messages of the user, one of another producer between them, two failures, with fairness: `TypeOK`, `KeptOnce`, `SendOrder`, `FallenIsReadByNext`, `HandoverEnds`, `ExitIsWoken` |
| `login` | two processes with a client each, three calls of any kind, three grants, one mishap (a crash, a lost answer, a cancelled login or a failed write): `TypeOK`, `LoggedOutStaysOut`, `OneRefreshPerToken`, `SecretBehindState`, `OnlyOwnerCommits` |
| `steering_dropped`, `login_rollback` | two comments that the code does not keep; see Findings |

Bounds, and why they are enough. The lock row, the pause row and the claim are single
records of one session, and sessions do not share them, so one session is the whole
state. Two Turns let one be recovered while another is admitted; a third adds no new
pair. Two processes give an owner and a foreigner; the third one of `lease_single` lets
a restart itself be interrupted. A lease of one tick separates "valid" from "expired";
`lease_overlap` was also run with three processes and with a lease of two ticks, with
the same result. Three rows distinguish first, middle and last in `queue_order`; two
claims let a released row be claimed again; two rows, two clock values and expiry at 1
make a row expire queued and claimed. `MaxPos`, `MaxClaim` and `MaxTime` only bound
counters. In `dispatch_calm` three messages give the goal's message, one it yields to
and one behind both; `MaxExtra = 2` allows two of: cancellation request, poke,
maintenance. In `dispatch_mishaps` a message in delivery and one behind it are what the
three workers can fight over, since there is one claim; one extra and one crash may
fall anywhere, and failing writes are not bounded. In `gate` one operation of each kind
is enough to have every pair of holders and waiters; a compaction takes a send's way
with fewer steps, and instances with a compaction and with two interrupting sends, and
one with two deletions, were checked without failures, with the same result. In
`steering` the machine's message stands between the user's, so that a poll at the exit
takes the middle of the lane; four causes with at most two batches in one commit, and
two failures, exhaust a teardown batch's attempts but one. In `login` two processes give
one that wrote and one that remembers, and three calls let a login be ended and begun
anew while an old call is under way; the one mishap may be of any kind and fall anywhere, and two together are where the
properties end (see Observations). Deadlock is not checked: with bounded counters the system may stop, and an
idle session does nothing.

Fairness. In `lease_single`: time passes. What was admitted is registered, revoked
or failed, because `startAcceptedTurn` has no other way out. A Turn that runs ends:
the host seals it or is aborted by the deletion; that the host itself ends is assumed.
Settlement, completion and the release of maintenance are the code that follows. A
process that starts runs its recovery. `BeginFence` and its followers are fair because
a deletion that fails keeps its gate and is retried (`resumePendingDeletions` runs every
10 seconds, and a client repeats its call). Nothing is assumed of admissions, renewals,
process starts or new deletions. Failing writes are excluded there: with them a session
whose settlement failed twice keeps its entry until a restart.

In `dispatch_calm`: the drain's next step, a published dispatch and the end of a Turn
or of maintenance happen. The first two are promises and callbacks the event loop
runs; the third is the host's end, assumed. Nothing is assumed of users, of
recoveries or of crashes. Without mishaps is how liveness holds: a failed release
leaves a claim until its lease ran out, and nothing wakes the queue after that
(`NothingForgotten` fails with `"fault"`, and with the sender, see Observations).

In `gate`: each operation that began takes its next step (awaits that end, a drain
that times out after 30 seconds, a Turn that ends or is aborted), the deletion goes on,
and one that failed is asked for again. A stop, a new operation and a new deletion are
nobody's duty. `DeletionEnds` does not say that a deletion's drain ends by itself but
that what it waits for does. In `steering`: a task of the stores ends, a lane that is
due goes on and a wake is published; nothing is assumed of the host, the user or the
shutdown. `login` has safety only: a lock that others hold again and again may starve a
call, which then gives up.

## What is proved

TLAPS checks the theorems for every value of the constants, under each module's
`ConstantsAssumption` (types of the constants; the placeholder values differ from real
ones).

`SessionQueueProofs`. The inductive invariant `IInv` is the conjunction of the type
invariant and `GoodRows` about the rows: ids and positions are distinct, positions
lie below `nextPos`, ids were issued, one claim, one row for a request, and a pause
only with rows. Positions below `nextPos` are what makes a reinsertion distinct from
what stays; issued ids are what makes a fresh id distinct. Every transaction is a
composition of few row changes (rows leave, a row is rewritten, queued rows are placed
anew, a row is added, claimed rows return), each with its lemma. From it:
`QueueTypeOK`, `QueueAtMostOneClaim`, `QueueOneRowPerRequest`, `QueueRowsDistinct`,
`QueuePauseNeedsPending`, and three action properties. `QueuePauseReported` and
`QueueChangesReported`: the facts of a transaction name each row that came, went or
changed as it did (`Told`, row by row). `QueueOrderKept`: the transactions other than a
placement in front and a reordering leave each row they keep at its position and put a
new one last (`InPlace`), so that two rows never change their order (`PlacesKept`).

`TurnLeaseProofs`. `LockMatchesTurn` is inductive with the shape of the lock (a free
lock has no owner and no time; a Turn's lock is owned by a Turn, maintenance's by
maintenance). The proof argues about transactions, not actions:
`Sound(d, e)` says that a transaction from `d` to `e` keeps the match, overwrites no
outcome and lifts no fence without expiry; it holds of each transaction, composes
(`SoundTwice`), and an action commits one. From it: `LeaseTypeOK`, `LeaseMatchesTurn`,
`TurnEndsOnce` and `FenceHeld`, the last two as action properties. Two theorems have
an assumption on the constants. `ErasedReceiptsStayErased` is about Runtimes that do not
overlap (`~Overlap`): what is erased can come back only through an admission, which the
fence refuses, or an owner that still works, and with one process there is none but the
deletion's own. `AcceptedTurnsAreServed` is about Runtimes whose writes do not fail
(`~Faults`): the lock of a Turn then belongs to the process that works on it, and
recovery gives each accepted receipt it takes from the dead an outcome. Observations
say what happens without the assumptions.

`QueueDispatchProofs`. `IInv` says of claims that they name a claimed row and, if their
worker still delivers, the message it delivers; of deliveries that their message was
enqueued; of begun messages that their row is settled; and of a Turn at its start
fence that its worker holds its message, that the message has not begun, and that its
row is settled once the worker is `acknowledged`. The last part is the reason a
message starts once: what lets the host start is the removal of the row, and the proof
shows that no release and no recovery brings a removed row back, because each returns
a claimed one. A step is proved in three parts, what it does to the rows (`RowStep`),
to the workers (`WorkStep`) and to the Turn (`TurnStep`), which lemmas about the queue's
transactions and the ways out of a delivery supply; only claim, admission,
acknowledgement, start and crash argue about `IInv` directly. From it:
`MessageStartsAtMostOnce` and `SettledRowsStay`. The module's second part has the types
(`QueueDispatchTypes`) and `MessagesStartInOrder`, which assumes that no message is sent now (`"sender" \notin Other`): who waits at the
fence was admitted with nothing but yielding messages before it, and later messages get
later positions. A third theorem there, `NoWakeIsLost`, is `NothingForgotten` for the drain
alone without failures, crashes, stops or refusing policies (`Calm`); the dispatcher may
be closed. A pass goes to rest only when what is left yielded, when the goal's message
is not let through and nobody else waits, or when the session was busy, and then who has
the session owes a wake (`WakeCalm`). That a rejection always means a busy session is the
point to prove: no message gets in front of the one in delivery (`FrontCalm`).

`QueueDeliveryProofs` shows the refinement: `DeliveryImplementsPromise` says that every
step of `QueueDispatch`, mishaps included, is a step of `MessageDelivery` or a stutter. A
step changes what the promise sees in one of four ways (a row enters the queue, a row
leaves it, the Turn at its start fence starts or fails, a host run ends); `IInv` gives
that only the Turn at the fence may have its message off the queue and yet start it.

`SessionGateProofs`. `IInv` has eight parts: the types; that phases fit the kind of
operation and a release is never due twice (`PhasesFit`); permits are the operations
inside (`PermitsFit`); a lease has a live holder (`LeaseFit`); a waiter waits for what
is not yet the case (`WaitsFit`); an operation that has the lock row knows it, and an
accepted Turn has it (`LockFit`); the controller's entry is a Turn that registered
(`EntryFit`); and what a deletion may rely on at each step (`DeletionFit`): after its
drain nobody is inside, and after it read the lock nobody is accepted. Without
`DeletionFit` an operation could be admitted after the drain: what excludes it is that
trusted submissions, which enter without a permit, are refused by the lock row alone.
Each action is proved to keep each part it can disturb. From it: `GateTypes`,
`NoPermitLeaks`, `DrainedOperationsAreAlone`, `ErasureIsAlone`, and the action property
`InterruptorComesNext`.

`SharedLoginProofs` has the types and the lock's exclusion (`TInv`, `SharedLoginTypes`).
`SharedLoginSafetyProofs` argues about every credential a process may still present:
the file's, the cached ones and those in a call's hand (`Held`). A step brings a new one
into them only by storing a refreshed credential or by committing a login (`HeldStep`);
what a call has read and done since it got the lock is an invariant by itself
(`Sections`). `RefreshTokensAreUsedOnce` follows from `OneUse`: the spent credentials lie
below a generation that never falls (`Bar`), the one that may be presented above it, and
there is one live grant for a generation; it holds as long as nothing crashed, no
answer was lost and no write failed. `StateStandsOnItsSecret` and `OwnersCommit` follow
from `InStep`, which holds as long as nothing crashed, no login was cancelled and no write
failed: state and file agree up to the commit that is under way, and no credential is
ahead of the state but by that commit. `EndedLoginsStayOut` is `LoggedOutStaysOut` as the run
checks it, after one crash, one cancelled login or one failed write too; a write that
fails is argued in few forms (`WriteFailsForm`: who gives back the lock, what the cache
then holds). A secret may then be ahead of the state and
stay there, and two logins may have one generation; what remains is that no credential
is more than one generation ahead (`Near`) and that one which is ahead, or fits the
state, belongs to no login that was ended (`Out`). A logout counts on from the state and
so passes all of them. The generation that matters is `Floor`: the one a cancelled login
goes back to while it may still be rolled back. The one secret that may be two ahead is
that of a commit after the mishap, which nothing can stop any more (`Final`). That a login
about to be committed is nobody's yet and was not ended (`NewLogins`) holds whatever
happens.

`SteeringHandoffProofs`. `KeptOnce` (theorem `MessagesKeptOnce`) is not inductive: that a message is in one
place only needs that what a discard takes from the lane is taken whole and given to a
cause that has nothing yet (`TurnFit`, `Untouched`), that a poll's claim comes before
what stands in the lane (`LaneOrder`), and that a batch may hold a message which is
already in the conversation only while its commit goes on (`Apart`); without the last
part a commit that fails half-way and is tried again would count a message twice. A
batch that goes to the queue has no commit, and one that is committed has no row
(`BatchFit`). These parts, `PlaceInv`, hold whatever fails. `ConversationInSendOrder` and
`FallenReadByNext` need two more, about executions in which nothing has failed yet:
`Calm` (no batch falls back to the queue, and none waits without a task after its
retries began, so that the release finds nothing that belongs into the conversation) and
`InOrder` (until a shutdown the batches on their way to the conversation are all in one
commit or none is, and come after what is there). The steps are few kinds: the
Turn discards into one cause (`TurnMoves`), a store's task goes on (`Errand`), a batch is
committed, enqueued or paused, the drain moves on (`DrainMoves`); each kind keeps each
part by one lemma, and each action is shown to be of its kind. `Only`, which
picks messages out of a lane, is a recursive function: `OnlyKeeps` says what it returns
(members and order) for every lane. Its proof is an induction without an induction
rule: the least prefix for which the fact fails (`LeastNumber`, from the
well-foundedness of `<`) is contradicted by the one before it.

Only model-checked: the liveness properties (`DeletionFinishes`, `LeaseComesBack`,
`DeletionEnds`, `HandoverEnds`, `ExitIsWoken`, and what `DeliveryPromise` says beyond its
steps), since the prover reaches neither fairness nor `ENABLED`. Every safety property a
passing run checks is stated by a theorem, some of them under the assumptions named above.

## Findings

1. `renew` (`turn.repository.ts:126`) does not ask for the lock's kind, and a promoted
   fence keeps the Turn's lease id. A Turn whose settlement failed before its host
   started (`settlePreHostFailure`, `execution.coordinator.ts:147`) keeps its entry and its
   renewal timer, because nothing closed it. When a later admission in that Runtime is
   refused by another Runtime's deletion, it applies the remembered settlement, which
   makes the lock the fence; the next renewal gives the fence an expiry, after which it
   may be lifted before the deletion is done. Run `lease_quiescent`.
2. `complete` empties the lane without handing it over (`turn.controller.ts:173`). A
   Turn whose start failed before its host, and one whose output a review stopped, is
   neither closed nor sealed before that: what a user sent into it is lost, against
   `steering-requeue.ts:28`. Run `steering_dropped`; `KeptOnce` is stated up to it.
3. `auth-core.ts:520` says that the rollback of a cancelled login cannot erase another
   client's login. It restores what the process's `FileStore` remembers, which may be
   older than what another process wrote. Run `login_rollback`.

## Observations

Seen while modelling, each with a counterexample at the time; no run is kept for them.

- `infra/runtime-owner/identity.ts:64-65` says a slow foreign owner's work may not be
  recovered; an admission of another Runtime recovers it once the lease ran out
  (`turn-lease-recovery.ts:61`), and two Runtimes then work on the session.
- A deletion that finds the expired lock of plain maintenance throws "active Turn is
  missing" at each retry (`turn.repository.ts:846-913`); `DeletionFinishes` is stated up
  to this case.
- `persistence/contracts.ts:141-142` says that deletion is never resumed; restart
  recovery reclaims the fence and resumes it.
- `queue-steer-workflow.ts:213-214` says that after a message was sent into a Turn the
  remaining items drain when that Turn releases. A Turn that releases before the claim
  is consumed wakes a drain that finds a claimed row, and the consume wakes nobody.
- `queue.dispatcher.test.ts:681` says that a claim whose acknowledgement failed twice is
  recovered before the next dispatch. The real recovery leaves a live owner's claim
  within its lease alone, and the flag is cleared.
- A stop that names a Turn which is still prepared is not heard while another Turn is
  active (`turn-execution.service.ts:87`).
- The deletion of a session that does not exist lifts a gate it did not block, and
  throws if somebody is inside (`session-turn-deletion.ts:35`).
- The shutdown's drain commits the batch of the abort without waiting for what a poll
  gives back later, so these rows may be in another order than they were sent;
  `SendOrder` is stated while the process is open.
- `steering-requeue.ts:449-451` says that a repeated enqueue is absorbed. A row that was
  dispatched and removed meanwhile is not: a batch whose pause failed twice may be
  enqueued again (`row = "again"`).
- A status poll in another process during a login's commit remembers the secret; when
  the login is cancelled and rolled back, that process's recovery of the interrupted
  commit signs in with a secret that is no longer in the file. `SecretBehindState` and
  `OnlyOwnerCommits` are stated without crashes and cancelled logins for this reason.
- A crash between secret and state can leave two logins with one generation. So can a
  state that `commitLogin` fails to write (`auth-core.ts:514`): only a cancelled login is
  rolled back, the secret stays in the file, and a process with an older cache commits
  the same generation over it; a refresh by the first process then brings its login back.
- When the put of a refreshed secret fails (`auth-core.ts:717`), the token is spent, the
  file still has the old one and the state says `refreshing`. The next process presents
  the old token, is refused, and signs everyone out. In the process whose put failed,
  the cache has the new secret (`file-store.ts:145`), and a status call there publishes
  `authenticated` at a generation whose secret is not in the file. `OneRefreshPerToken`,
  `SecretBehindState` and `OnlyOwnerCommits` are therefore stated without failed writes.
- Two mishaps can put a secret two generations ahead of the state: another call of the
  process reads the secret of a login that is then rolled back and the next login, which
  counts on from that, crashes behind its secret. A logout from an older cache raises
  the state by one, and a process that read the secret signs in with the login that was
  ended. `LoggedOutStaysOut` is stated for at most one crash, cancelled
  login or failed write.
- With two overlapping Runtimes, the renewal of a Turn whose settlement failed can give
  the fence of a deletion an expiry (Findings, 1), and a Turn is admitted after the
  erasure: `ErasedStaysErased` is stated for one process at a time. The instance of
  `lease_quiescent` without failing writes keeps it, and the assertion of Findings, 1.
- With failing writes, an admission that the deletion gate refuses has recovered nothing
  and forgets the failed settlement all the same (`turn.repository.ts:277`), as does a
  settlement whose first attempt failed. The accepted receipt is served by nobody until
  its lease runs out: `AcceptedTurnIsServed` is stated without failing writes.

## Not modelled

The host's run of a Turn, compaction's content and the agent loop: they decide what a
model says, and are one phase here. Session records and transcripts: storage. Rendering,
configuration, protocol types, parsing, the browser and tool hosts: input and output.
The first-generation runtime: superseded. Goals, the runaway guard and permissions are
functions of one transcript or command. Scheduler, SSE ring, cron, background tasks and
mini-app supervision have state worth a module each and have none yet.

## Plan

1. `SessionQueue`, `TurnLease`, `QueueDispatch` with `MessageDelivery`, `SessionGate` and
   their proofs; `SteeringHandoff`; `SharedLogin`: done.
2. `RuntimeOwnership`: lease files and their generations under compromise; it justifies
   the liveness answers `TurnLease` takes from the environment.
3. `HistoryRewind`: what a rewind writes under its exclusive lease, and its recovery.
4. The SSE replay ring, cron runs, mini-app supervision.
5. To add to `QueueDispatch`: duplicate requests, immediate sends, cloud hand-off.
6. Proofs: the refinement of an abstract account by `SharedLogin`, and of an abstract
   lane by `SteeringHandoff`, once these are stated.
