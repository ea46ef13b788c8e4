----------------------------- MODULE SessionGate -----------------------------
(***************************************************************************)
(* The gate in front of one session in one Runtime process                 *)
(* (service/turn-system/lifecycle/session-operation-gate.ts) with all that *)
(* passes it or goes around it: ordinary sends and compactions (permits),  *)
(* trusted submissions of a conversation mutation (no permit), sends that  *)
(* interrupt the running Turn and lifecycle fences (exclusive leases),     *)
(* session maintenance, the user's stop, and the deletion of the session,  *)
(* which blocks the gate for good (turn-execution.service.ts,              *)
(* session-turn-deletion.ts, initialize.ts).                               *)
(*                                                                         *)
(* The process is one thread: an action is what runs between two awaits.   *)
(* TurnLease models the lock row with several processes, leases that run   *)
(* out and settlements that fail; here the lock is who has it.             *)
(***************************************************************************)
EXTENDS Integers

CONSTANTS
    Send,       \* submissions through the gate
    Compact,    \* requested compactions
    Trusted,    \* submissions around the gate: submitTrusted
    Handoff,    \* submissions that interrupt the running Turn
    Fence,      \* lifecycle operations: sessionLifecycle.runExclusive
    Upkeep,     \* maintenance runs
    None,       \* nobody
    MaxStop,    \* bound on the user's stops
    MaxFault,   \* bound on steps that fail
    MaxDelete   \* bound on deletion requests

Submission == Send \cup Compact \cup Trusted \cup Handoff
Op == Submission \cup Fence \cup Upkeep

ASSUME ConstantsAssumption ==
    /\ None \notin Op
    /\ MaxStop \in Nat /\ MaxFault \in Nat /\ MaxDelete \in Nat
    /\ Upkeep \cap (Fence \cup Submission) = {} /\ Fence \cap Submission = {}
    /\ Handoff \cap (Send \cup Compact \cup Trusted) = {}
    /\ Trusted \cap (Send \cup Compact) = {} /\ Send \cap Compact = {}

VARIABLES
    permits,    \* who has a permit that is not released: SessionOperationState.active
    deleting,   \* the gate is blocked
    mutation,   \* who has the exclusive lease
    sharedWait, \* who waits for sharedDrain, which is not yet resolved
    fullWait,   \* the deletion waits for fullDrain, which is not yet resolved
    pc,         \* how far each operation has come
    stopped,    \* the PendingSubmissions with a stop
    entry,      \* the Turn registered with the controller
    lock,       \* who has the session's lock row, and whether for a deletion
    exists,     \* the session has its row
    fated,      \* the session is in SessionDeletionGate.deleting
    del,        \* how far the deletion has come
    stops, faults, deletes

gate == <<permits, deleting, mutation, sharedWait, fullWait>>
database == <<lock, exists>>
counters == <<stops, faults, deletes>>
vars == <<gate, pc, stopped, entry, database, fated, del, counters>>

Phase == {"idle", "acquired", "waiting", "drained", "interrupting",
          "checking", "preparing", "admitted", "accepting", "starting",
          "running", "settled", "revoking", "failing", "fenced", "locked",
          "unlocked", "done"}
Step == {"idle", "absent", "begun", "draining", "aborting", "reading", "disposing",
         "erasing", "cleaning", "completing", "lifting", "failed", "done"}

\* An operation that is in the gate's count, and one that the user may stop.
Shared(o) == \/ o \in Send \cup Compact
                /\ pc[o] \in {"checking", "preparing", "admitted", "accepting",
                              "starting", "revoking"}
             \/ o \in Upkeep /\ pc[o] \in {"locked", "unlocked"}
Enrolled(o) == /\ o \in Submission \ Compact
               /\ pc[o] \in {"acquired", "waiting", "drained", "interrupting",
                             "checking", "preparing", "admitted", "accepting",
                             "starting", "revoking"}
Accepted(o) == o \in Submission /\ pc[o] \in {"admitted", "accepting", "starting",
                                              "running", "revoking", "failing"}

Free == [who |-> None, deleting |-> FALSE]
DeletionFence == [who |-> None, deleting |-> TRUE]
Held(o) == [who |-> o, deleting |-> FALSE]

Init ==
    /\ permits = {} /\ deleting = FALSE /\ mutation = None
    /\ sharedWait = {} /\ fullWait = FALSE
    /\ pc = [o \in Op |-> "idle"] /\ stopped = {}
    /\ entry = None
    /\ lock = Free /\ exists = TRUE /\ fated = FALSE
    /\ del = "idle" /\ stops = 0 /\ faults = 0 /\ deletes = 0

----------------------------------------------------------------------------
(* The gate.                                                               *)

\* Mutant of Open: an exclusive lease does not keep others out.
OpenToPermits == ~deleting

Open == ~deleting /\ mutation = None

\* settleState: whoever waited for what is now the case is woken.
Settled(held, owner) ==
    /\ sharedWait' = IF held = {} THEN {} ELSE sharedWait
    /\ fullWait' = (fullWait /\ (held # {} \/ owner # None))

Enter(o) ==
    /\ Open
    /\ permits' = permits \cup {o}
    /\ UNCHANGED <<deleting, mutation, sharedWait, fullWait>>

Leave(o) ==
    /\ permits' = permits \ {o}
    /\ Settled(permits', mutation)
    /\ UNCHANGED <<deleting, mutation>>

AcquireExclusive(o) ==
    /\ Open
    /\ mutation' = o
    /\ sharedWait' = IF permits = {} THEN sharedWait ELSE sharedWait \cup {o}
    /\ UNCHANGED <<permits, deleting, fullWait>>

\* Mutant of ReleaseExclusive: nobody is woken.
ReleaseExclusiveSilently(o) ==
    /\ mutation' = IF mutation = o THEN None ELSE mutation
    /\ UNCHANGED <<permits, deleting, sharedWait, fullWait>>

\* A lease is released once: the second time it does nothing.
ReleaseExclusive(o) ==
    /\ mutation' = IF mutation = o THEN None ELSE mutation
    /\ IF mutation = o THEN Settled(permits, None)
       ELSE UNCHANGED <<sharedWait, fullWait>>
    /\ UNCHANGED <<permits, deleting>>

Block ==
    /\ deleting' = TRUE
    /\ fullWait' = (fullWait \/ permits # {} \/ mutation # None)
    /\ UNCHANGED <<permits, mutation, sharedWait>>

\* Leaving the gate is the `finally` of the operation that entered it.
GiveBack(o) ==
    CASE o \in Send \cup Compact -> Leave(o)
      [] o \in Handoff -> ReleaseExclusive(o)
      [] OTHER -> UNCHANGED gate

----------------------------------------------------------------------------
(* The lock.                                                               *)

Unavailable == ~exists \/ fated \/ lock.deleting
Lockable == exists /\ ~fated /\ lock = Free
Unlocked == lock' = IF lock.deleting THEN DeletionFence ELSE Free

Goes(o, phase) == pc' = [pc EXCEPT ![o] = phase]
Moves(o, phase) == Goes(o, phase) /\ UNCHANGED <<gate, stopped>>
Fault == faults < MaxFault /\ faults' = faults + 1
Rest == UNCHANGED <<fated, del, stops, deletes>>
Keeps == UNCHANGED <<entry, database, faults>> /\ Rest
KeepsButLock == UNCHANGED <<entry, exists, faults>> /\ Rest

\* The ways back to the caller: pending.release, then the gate.
Back(o) == GiveBack(o) /\ stopped' = stopped \ {o}
Answer(o) == Goes(o, "done") /\ Back(o)
\* Mutant of GivesUp: a failed submission keeps its place in the gate.
GivesUpInside(o) == Goes(o, "failing") /\ UNCHANGED gate /\ stopped' = stopped \ {o}
GivesUp(o) == Goes(o, "failing") /\ Back(o)  \* its settlement is not awaited

----------------------------------------------------------------------------
(* Submissions: submitTurn, from sessionUnavailable to the registered Turn. *)
(* Each is enrolled before its first await, and the user may stop it until *)
(* it returns.                                                             *)

\* Mutant of Start: a send takes the exclusive lease.
StartExclusive(o) ==
    /\ pc[o] = "idle"
    /\ \/ AcquireExclusive(o) /\ Goes(o, "checking")
       \/ ~Open /\ UNCHANGED gate /\ Goes(o, "done")
    /\ UNCHANGED stopped /\ Keeps

Start(o) ==
    /\ pc[o] = "idle"
    /\ \/ o \in Trusted /\ UNCHANGED gate /\ Goes(o, "checking")
       \/ o \notin Trusted /\ Enter(o) /\ Goes(o, "checking")
       \/ o \notin Trusted /\ ~Open /\ UNCHANGED gate /\ Goes(o, "done")
    /\ UNCHANGED stopped /\ Keeps

Check(o) ==
    /\ pc[o] = "checking"
    /\ IF Unavailable THEN Answer(o) ELSE Moves(o, "preparing")
    /\ Keeps

\* Preparation, the admission policies or the lock may refuse.
Refuse(o) ==
    /\ pc[o] = "preparing"
    /\ Answer(o) /\ Keeps

\* A compaction has no preparation to commit and no delivery to accept.
Admit(o) ==
    /\ pc[o] = "preparing"
    /\ o \notin stopped /\ Lockable
    /\ lock' = Held(o)
    /\ Moves(o, IF o \in Compact THEN "accepting" ELSE "admitted")
    /\ KeepsButLock

Commit(o) ==
    /\ pc[o] = "admitted"
    /\ \/ Moves(o, IF o \in stopped THEN "revoking" ELSE "accepting")
          /\ UNCHANGED faults
       \/ Fault /\ GivesUp(o)
    /\ UNCHANGED <<entry, database>> /\ Rest

Register(o) ==
    /\ pc[o] = "accepting"
    /\ o \notin stopped
    /\ IF entry = None THEN entry' = o /\ Moves(o, "starting")
       ELSE GivesUp(o) /\ UNCHANGED entry
    /\ UNCHANGED <<database, faults>> /\ Rest

NotAccepted(o) ==
    /\ pc[o] = "accepting"
    /\ \/ o \in stopped /\ UNCHANGED faults
       \/ o \notin Compact /\ Fault
    /\ Moves(o, "revoking")
    /\ UNCHANGED <<entry, database>> /\ Rest

\* A lock that a deletion marked is not the submission's to remove.
Revoke(o) ==
    /\ pc[o] = "revoking"
    /\ \/ lock = Held(o) /\ lock' = Free /\ Answer(o) /\ UNCHANGED faults
       \/ lock # Held(o) /\ GivesUp(o) /\ UNCHANGED <<lock, faults>>
       \/ Fault /\ GivesUp(o) /\ UNCHANGED lock
    /\ UNCHANGED <<entry, exists>> /\ Rest

FailAdmission(o) ==
    /\ pc[o] = "failing"
    /\ Unlocked /\ Moves(o, "done") /\ KeepsButLock

Return(o) ==
    /\ pc[o] = "starting"
    /\ Goes(o, "running") /\ Back(o) /\ Keeps

SettleTurn(o) ==
    /\ pc[o] = "running"
    /\ Unlocked /\ Moves(o, "settled") /\ KeepsButLock

CompleteTurn(o) ==
    /\ pc[o] = "settled"
    /\ entry' = None /\ Moves(o, "done")
    /\ UNCHANGED <<database, faults>> /\ Rest

----------------------------------------------------------------------------
(* submitInterruptingHandoff: the exclusive lease, the drain, the abort of *)
(* the Turn that runs, and then submitTurn with the lease still held.      *)

HandoffStart(h) ==
    /\ pc[h] = "idle"
    /\ \/ AcquireExclusive(h) /\ Goes(h, "acquired")
       \/ ~Open /\ UNCHANGED gate /\ Goes(h, "done")
    /\ UNCHANGED stopped /\ Keeps

HandoffCheck(h) ==
    /\ pc[h] = "acquired"
    /\ IF Unavailable THEN Answer(h) ELSE Moves(h, "waiting")
    /\ Keeps

HandoffDrained(h) ==
    /\ pc[h] = "waiting" /\ h \notin sharedWait
    /\ IF h \in stopped THEN Answer(h) ELSE Moves(h, "drained")
    /\ Keeps

\* Mutant of HandoffTimeout: the send goes on without the drain.
HandoffImpatient(h) ==
    /\ pc[h] = "waiting" /\ h \in sharedWait
    /\ Moves(h, "drained") /\ Keeps

HandoffTimeout(h) ==
    /\ pc[h] = "waiting" /\ h \in sharedWait
    /\ Answer(h) /\ Keeps

HandoffInterrupt(h) ==
    /\ pc[h] = "drained"
    /\ IF h \in stopped THEN Answer(h)
       ELSE Moves(h, IF entry = None THEN "checking" ELSE "interrupting")
    /\ Keeps

\* The abort was answered: the Turn released, or it did not in time.
HandoffInterrupted(h) ==
    /\ pc[h] = "interrupting"
    /\ IF h \in stopped \/ entry # None THEN Answer(h) ELSE Moves(h, "checking")
    /\ Keeps

----------------------------------------------------------------------------
(* Lifecycle operations, which hold the exclusive lease and take the lock  *)
(* in their own name, and maintenance, which takes a permit with the lock. *)

FenceStart(f) ==
    /\ pc[f] = "idle"
    /\ \/ AcquireExclusive(f) /\ Goes(f, "fenced")
       \/ ~Open /\ UNCHANGED gate /\ Goes(f, "done")
    /\ UNCHANGED stopped /\ Keeps

FenceLock(f) ==
    /\ pc[f] = "fenced"
    /\ IF Lockable THEN lock' = Held(f) /\ Moves(f, "locked")
       ELSE UNCHANGED lock /\ Moves(f, "unlocked")
    /\ KeepsButLock

UpkeepStart(u) ==
    /\ pc[u] = "idle"
    /\ IF Open /\ Lockable
       THEN Enter(u) /\ lock' = Held(u) /\ Goes(u, "locked")
       ELSE UNCHANGED <<gate, lock>> /\ Goes(u, "done")
    /\ UNCHANGED stopped /\ KeepsButLock

MaintenanceEnds(o) ==
    /\ pc[o] = "locked"
    /\ Unlocked /\ Moves(o, "unlocked") /\ KeepsButLock

\* Mutant of MaintenanceLeaves: a refused fence keeps its lease.
MaintenanceStays(o) ==
    /\ pc[o] = "unlocked"
    /\ Goes(o, "done")
    /\ IF o \in Fence THEN UNCHANGED gate ELSE Leave(o)
    /\ UNCHANGED stopped /\ Keeps

MaintenanceLeaves(o) ==
    /\ pc[o] = "unlocked"
    /\ Goes(o, "done")
    /\ IF o \in Fence THEN ReleaseExclusive(o) ELSE Leave(o)
    /\ UNCHANGED stopped /\ Keeps

----------------------------------------------------------------------------
(* The user's stop, which names a Turn or nothing (PendingSubmissions).    *)
(* The lease of an interrupting send is released on the spot, while the    *)
(* send itself goes on to its next look at `stopped`.                      *)

Stops(t) == IF t = None \/ entry = None \/ t = entry
            THEN {o \in Submission : Enrolled(o) /\ (t = None \/ o = t)}
            ELSE {}

Stop(t) ==
    /\ stops < MaxStop
    /\ stops' = stops + 1
    /\ stopped' = stopped \cup Stops(t)
    /\ IF mutation \in Stops(t) THEN ReleaseExclusive(mutation)
       ELSE UNCHANGED gate
    /\ UNCHANGED <<pc, entry, database, fated, del, faults, deletes>>

----------------------------------------------------------------------------
(* The deletion of the session: one lane, retried by whoever asked.        *)

Gone(step) == del' = step /\ UNCHANGED <<pc, stopped, entry, stops>>

DeleteBegin ==
    /\ \/ del = "failed" /\ UNCHANGED deletes
       \/ del \in {"idle", "done"} /\ deletes < MaxDelete /\ deletes' = deletes + 1
    /\ fated' = exists
    /\ Gone(IF exists THEN "begun" ELSE "absent")
    /\ UNCHANGED <<gate, database, faults>>

Quiet == permits = {} /\ mutation = None

\* The gate's release throws while somebody is inside.
Unblock ==
    /\ IF Quiet THEN deleting' = FALSE /\ Settled(permits, mutation) /\ Gone("done")
       ELSE UNCHANGED <<deleting, sharedWait, fullWait>> /\ Gone("failed")
    /\ UNCHANGED <<permits, mutation>>

\* A session that is gone, or never was: its gate is lifted unblocked.
DeleteAbsent ==
    /\ del = "absent"
    /\ lock' = IF lock = DeletionFence THEN Free ELSE lock
    /\ Unblock
    /\ UNCHANGED <<exists, fated, faults, deletes>>

DeleteBlock ==
    /\ del = "begun"
    /\ Block
    /\ lock' = [lock EXCEPT !.deleting = TRUE]
    /\ Gone("draining")
    /\ UNCHANGED <<exists, fated, faults, deletes>>

DeleteDrained ==
    /\ del = "draining" /\ ~fullWait
    /\ Gone(IF entry = None THEN "reading" ELSE "aborting")
    /\ UNCHANGED <<gate, database, fated, faults, deletes>>

\* The Turn released, or the abort timed out.
DeleteAborted ==
    /\ del = "aborting"
    /\ Gone(IF entry = None THEN "reading" ELSE "failed")
    /\ UNCHANGED <<gate, database, fated, faults, deletes>>

\* Mutant of DeleteRead: only the controller is asked, not the lock.
DeleteReadController ==
    /\ del = "reading"
    /\ Gone(IF entry = None THEN "disposing" ELSE "failed")
    /\ UNCHANGED <<gate, database, fated, faults, deletes>>

DeleteRead ==
    /\ del = "reading"
    /\ Gone(IF lock = DeletionFence /\ entry = None THEN "disposing" ELSE "failed")
    /\ UNCHANGED <<gate, database, fated, faults, deletes>>

\* disposeRuntimeSession, deleteSessionData, and the removal of the session.
DeleteWork ==
    /\ \/ del = "disposing" /\ Gone("erasing") /\ UNCHANGED <<exists, faults>>
       \/ del = "erasing" /\ Gone("cleaning") /\ UNCHANGED <<exists, faults>>
       \/ del = "cleaning" /\ Gone("completing") /\ exists' = FALSE /\ UNCHANGED faults
       \/ del \in {"disposing", "erasing", "cleaning", "completing"}
          /\ Gone("failed") /\ Fault /\ UNCHANGED exists
    /\ UNCHANGED <<gate, lock, fated, deletes>>

DeleteComplete ==
    /\ del = "completing"
    /\ lock' = Free
    /\ Gone("lifting")
    /\ UNCHANGED <<gate, exists, fated, faults, deletes>>

DeleteLift ==
    /\ del = "lifting"
    /\ fated' = FALSE
    /\ Unblock
    /\ UNCHANGED <<database, faults, deletes>>

----------------------------------------------------------------------------
SubmissionStep(o) ==
    \/ Check(o) \/ Refuse(o) \/ Admit(o) \/ Commit(o) \/ Register(o)
    \/ NotAccepted(o) \/ Revoke(o) \/ FailAdmission(o) \/ Return(o)
    \/ SettleTurn(o) \/ CompleteTurn(o)
HandoffStep(h) ==
    \/ HandoffCheck(h) \/ HandoffDrained(h) \/ HandoffTimeout(h)
    \/ HandoffInterrupt(h) \/ HandoffInterrupted(h)
OtherStep(o) ==
    (o \in Fence /\ FenceLock(o)) \/ MaintenanceEnds(o) \/ MaintenanceLeaves(o)
DeleteStep ==
    \/ DeleteAbsent \/ DeleteBlock \/ DeleteDrained \/ DeleteAborted
    \/ DeleteRead \/ DeleteWork \/ DeleteComplete \/ DeleteLift

Next ==
    \/ \E o \in Send \cup Compact \cup Trusted : Start(o)
    \/ \E o \in Submission : SubmissionStep(o)
    \/ \E h \in Handoff : HandoffStart(h) \/ HandoffStep(h)
    \/ \E f \in Fence : FenceStart(f)
    \/ \E u \in Upkeep : UpkeepStart(u)
    \/ \E o \in Fence \cup Upkeep : OtherStep(o)
    \/ \E t \in Submission \cup {None} : Stop(t)
    \/ DeleteBegin
    \/ DeleteStep

Spec == Init /\ [][Next]_vars

\* What was begun goes on, and a deletion that failed is asked for again.
Fairness ==
    /\ \A o \in Submission : WF_vars(SubmissionStep(o))
    /\ \A h \in Handoff : WF_vars(HandoffStep(h))
    /\ \A o \in Fence \cup Upkeep : WF_vars(OtherStep(o))
    /\ WF_vars(del = "failed" /\ DeleteBegin)
    /\ WF_vars(DeleteStep)

FairSpec == Spec /\ Fairness

----------------------------------------------------------------------------
(* Properties.                                                             *)

\* The types of the variables.
TypeOK ==
    /\ permits \subseteq Op /\ deleting \in BOOLEAN
    /\ mutation \in Handoff \cup Fence \cup {None}
    /\ sharedWait \subseteq Op /\ fullWait \in BOOLEAN
    /\ pc \in [Op -> Phase] /\ stopped \subseteq Submission
    /\ entry \in Submission \cup {None}
    /\ lock \in [who : Op \cup {None}, deleting : BOOLEAN]
    /\ exists \in BOOLEAN /\ fated \in BOOLEAN /\ del \in Step
    /\ stops \in Nat /\ faults \in Nat /\ deletes \in Nat

\* Every way out of an operation gives its permit back, no way gives back one
\* that is still used, and a drain that is over has woken who waits for it: a
\* permit that leaked, or a wake that was lost, would make the next deletion
\* or interrupting send of the session wait for ever.
PermitsComeBack ==
    /\ permits = {o \in Op : Shared(o)}
    /\ mutation # None => pc[mutation] \notin {"idle", "running", "settled", "done"}
    /\ sharedWait # {} => permits # {}
    /\ fullWait => permits # {} \/ mutation # None

\* What the gate is for.  An interrupting send that has seen the drain, and
\* still holds its lease, is alone: nobody who entered before it is still
\* registering a Turn it would miss.  A deletion that has seen its drain is
\* alone until it lifts the gate, so that lifting it never throws.
Inner == {"drained", "interrupting", "checking", "preparing", "admitted",
          "accepting", "starting", "revoking"}
DrainedIsAlone ==
    /\ \A h \in Handoff : mutation = h /\ pc[h] \in Inner => permits = {}
    /\ del \in {"aborting", "reading", "disposing", "erasing", "cleaning",
                "completing", "lifting"}
       => deleting /\ permits = {} /\ mutation = None

\* From the moment a deletion takes the session apart no Turn of it is
\* accepted, registered or running and no maintenance works on it, whether it
\* came through the gate, around it, or with a lease that a stop released.
NothingOutlivesErasure ==
    del \in {"disposing", "erasing", "cleaning", "completing", "lifting"} \/ ~exists
    => /\ entry = None
       /\ \A o \in Op : ~Accepted(o) /\ pc[o] # "locked"

\* While an interrupting send that has seen its drain keeps its lease, only
\* its own Turn, or one that goes around the gate, gets the session's lock:
\* nothing slips in between the Turn it aborts and the Turn it starts.
Interrupting(h) == mutation = h /\ pc[h] \in Inner
InterruptorIsNext ==
    [][\A h \in Handoff : Interrupting(h)
           => lock'.who \in {lock.who, None, h} \cup Trusted]_vars

\* An exclusive lease comes back, whatever the Turn it interrupts, the drain
\* it waits for, or the user does.
LeaseComesBack == \A o \in Handoff \cup Fence : mutation = o ~> mutation # o

\* A deletion that began ends, and the gate is lifted with it, past permits,
\* leases, running Turns and Turns that come around the gate.
DeletionEnds == del \notin {"idle", "done"} ~> del = "done" /\ ~deleting /\ ~fated

============================================================================
