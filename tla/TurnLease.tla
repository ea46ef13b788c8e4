------------------------------ MODULE TurnLease ------------------------------
(***************************************************************************)
(* Who may work on one session: the row of session_locks and the Turn      *)
(* receipts (turn_ingress) that TurnRepository keeps in SQLite, the Turn   *)
(* controllers of the Runtime processes that share the database, and the   *)
(* deletion of the session (turn-system/persistence, execution, lifecycle).*)
(*                                                                         *)
(* Every method of the repository is one `immediate` transaction and one   *)
(* action; what a process does between two awaits is another.  A process   *)
(* that ends loses its memory, and one that starts later is another Proc.  *)
(* A lease id names the Turn or the maintenance run it was made for.  Time *)
(* is what is left of the lease: a renewal gives it LeaseLen ticks, and a  *)
(* process may be too slow to renew.  Receipts of clients, queue facts and *)
(* locks written by versions without owner ids are not modelled.           *)
(***************************************************************************)
EXTENDS Integers, FiniteSets

CONSTANTS
    Proc,      \* runs of the Runtime process
    Turn,      \* Turns, numbered by acceptedSequence
    Maint,     \* maintenance runs: leases of SessionMaintenanceService
    None,      \* nobody, nothing
    LeaseLen,  \* leaseMs, in clock ticks
    Overlap,   \* may two Runtime processes share the database?
    Faults     \* may a settlement, a release or a cleanup fail for good?

VARIABLES
    lock,      \* the session's row of session_locks
    status,    \* the receipt of each Turn: none, accepted, ..., gone
    exists,    \* the session has its row
    work,      \* how far the code that runs a Turn has come
    runner,    \* the process it runs in
    maint,     \* the process a maintenance run holds a lease in
    pending,   \* pendingSettlements of each process
    deletion,  \* how far a process has deleted the session
    alive,     \* the processes that run
    started    \* the processes that ever did

database == <<lock, status>>
memory == <<work, runner, maint, pending, deletion>>
processes == <<alive, started>>
vars == <<lock, status, exists, work, runner, maint, pending, deletion,
          alive, started>>

TurnKind == {"turn", "compaction"}
TurnDeleting == {"turn-deleting", "compaction-deleting"}
MaintKind == {"maintenance", "maintenance-deleting"}
DeletionKind == TurnDeleting \cup {"maintenance-deleting", "session-deletion"}
Kind == {"free"} \cup TurnKind \cup MaintKind \cup DeletionKind
Terminal == {"completed", "failed", "aborted"}
Status == {"none", "accepted", "gone"} \cup Terminal
Phase == {"none", "admitted", "failing", "running", "closing", "released",
          "stuck", "wedged"}
Entry == {"running", "closing", "released", "stuck", "wedged"}
Forever == LeaseLen + 1      \* DELETION_FENCE_EXPIRES_AT_MS

ASSUME ConstantsAssumption ==
    /\ Turn \subseteq Nat
    /\ LeaseLen \in Nat \ {0}
    /\ Overlap \in BOOLEAN /\ Faults \in BOOLEAN
    /\ None \notin Proc \cup Turn \cup Maint
    /\ Turn \cap Maint = {}

(* `older` holds the processes that started after the lock was acquired.   *)
Lock == [kind : Kind, owner : Turn \cup Maint \cup {None},
         proc : Proc \cup {None}, ttl : 0 .. Forever, older : SUBSET Proc]
Free == [kind |-> "free", owner |-> None, proc |-> None, ttl |-> 0,
         older |-> {}]
Held(kind, owner, p) == [kind |-> kind, owner |-> owner, proc |-> p,
                         ttl |-> LeaseLen, older |-> {}]
Fence(p) == [kind |-> "session-deletion", owner |-> None, proc |-> p,
             ttl |-> Forever, older |-> {}]

----------------------------------------------------------------------------
(* What the transactions do to the lock and the receipts.                  *)

Db == [lock |-> lock, status |-> status]
Becomes(d) == lock' = d.lock /\ status' = d.status

Accepted(d) == {t \in Turn : d.status[t] = "accepted"}
Latest(d) == {t \in Accepted(d) : \A u \in Accepted(d) : u <= t}
FailLatest(d) == [t \in Turn |-> IF t \in Latest(d) THEN "failed"
                                 ELSE d.status[t]]
Expired(l) == l.kind # "free" /\ l.ttl = 0

(* A lock that becomes the fence keeps its lease id, and so its process.   *)
Promoted(l) == [l EXCEPT !.kind = "session-deletion", !.ttl = Forever,
                         !.older = {}]
ReleasedOrPromoted(l) == IF l.kind \in TurnDeleting THEN Promoted(l) ELSE Free

Ended(d, t, outcome) ==
    [lock |-> ReleasedOrPromoted(d.lock),
     status |-> [d.status EXCEPT ![t] = outcome]]

\* Mutant of Settled: the lease is checked, the receipt is not.
SettledByOwner(d, t, outcome) ==
    IF d.lock.owner = t THEN Ended(d, t, outcome) ELSE d

Settled(d, t, outcome) ==
    IF d.lock.owner = t /\ t \in Latest(d) THEN Ended(d, t, outcome) ELSE d

(* A settlement that failed is repaired by the next admission or deletion. *)
AfterPending(d, p) ==
    LET t == pending[p]
    IN  IF t # None /\ d.lock.owner = t /\ d.status[t] = "accepted"
        THEN Ended(d, t, "failed") ELSE d

\* Mutant of AfterExpiry: the lock goes, the receipt stays accepted.
AfterExpiryOfLock(d) ==
    IF Expired(d.lock) THEN [d EXCEPT !.lock = Free] ELSE d

(* recoverExpired: whoever finds a lease that ran out ends it.             *)
AfterExpiry(d) ==
    IF Expired(d.lock) THEN [lock |-> Free, status |-> FailLatest(d)] ELSE d

----------------------------------------------------------------------------
(* Processes and time.                                                     *)

Local(p) == {t \in Turn : runner[t] = p}
HasEntry(p) == \E t \in Local(p) : work[t] \in Entry
HasPermit(p) == \/ \E t \in Local(p) : work[t] = "admitted"
                \/ \E m \in Maint : maint[m] = p

Tick ==
    /\ lock.ttl \in 1 .. LeaseLen
    /\ lock' = [lock EXCEPT !.ttl = @ - 1]
    /\ UNCHANGED <<status, exists, memory, processes>>

(* The lock may have been acquired in the millisecond of the start.        *)
StartProc(p) ==
    /\ p \notin started
    /\ Overlap \/ alive = {}
    /\ started' = started \cup {p}
    /\ alive' = alive \cup {p}
    /\ IF lock.kind = "free" THEN UNCHANGED lock
       ELSE \E older \in {lock.older, lock.older \cup {p}} :
                lock' = [lock EXCEPT !.older = older]
    /\ UNCHANGED <<status, exists, memory>>

CrashProc(p) ==
    /\ p \in alive
    /\ alive' = alive \ {p}
    /\ work' = [t \in Turn |-> IF runner[t] = p THEN "none" ELSE work[t]]
    /\ runner' = [t \in Turn |-> IF runner[t] = p THEN None ELSE runner[t]]
    /\ maint' = [m \in Maint |-> IF maint[m] = p THEN None ELSE maint[m]]
    /\ pending' = [pending EXCEPT ![p] = None]
    /\ deletion' = [deletion EXCEPT ![p] = "none"]
    /\ UNCHANGED <<database, exists, started>>

----------------------------------------------------------------------------
(* A Turn from its admission to its release.                               *)

Fresh(t) == status[t] = "none" /\ \A u \in Turn : u < t => status[u] # "none"
Gated(p) == deletion[p] # "none" \/ ~exists
AfterRecovery(p) == AfterExpiry(AfterPending(Db, p))

Admit(p, t, kind) ==
    LET d == AfterRecovery(p)
    IN  /\ p \in alive /\ ~Gated(p) /\ Fresh(t)
        /\ d.lock.kind = "free"
        /\ Becomes([lock |-> Held(kind, t, p),
                    status |-> [d.status EXCEPT ![t] = "accepted"]])
        /\ work' = [work EXCEPT ![t] = "admitted"]
        /\ runner' = [runner EXCEPT ![t] = p]
        /\ pending' = [pending EXCEPT ![p] = None]
        /\ UNCHANGED <<exists, maint, deletion, processes>>

(* A rejected admission commits what it recovered.  One that the deletion  *)
(* gate refuses has recovered nothing, and forgets the failed settlement.  *)
AdmitRejected(p) ==
    /\ p \in alive
    /\ Becomes(IF Gated(p) THEN Db ELSE AfterRecovery(p))
    /\ pending' = [pending EXCEPT ![p] = None]
    /\ UNCHANGED <<exists, work, runner, maint, deletion, processes>>

Register(t) ==
    /\ work[t] = "admitted"
    /\ ~HasEntry(runner[t])
    /\ work' = [work EXCEPT ![t] = "running"]
    /\ UNCHANGED <<database, exists, runner, maint, pending, deletion, processes>>

\* Mutant of StartFails: the admission is left as it is.
StartForgotten(t) ==
    /\ work[t] = "admitted"
    /\ work' = [work EXCEPT ![t] = "none"]
    /\ runner' = [runner EXCEPT ![t] = None]
    /\ UNCHANGED <<database, exists, maint, pending, deletion, processes>>

(* The controller has an entry for the session or is closed, or the start  *)
(* failed and the admission could not be revoked.                          *)
StartFails(t) ==
    /\ work[t] = "admitted"
    /\ work' = [work EXCEPT ![t] = "failing"]
    /\ UNCHANGED <<database, exists, runner, maint, pending, deletion, processes>>

RevokeAdmission(t) ==
    /\ work[t] = "admitted"
    /\ status[t] = "accepted" /\ lock.owner = t /\ lock.kind = "turn"
    /\ Becomes([lock |-> Free, status |-> [status EXCEPT ![t] = "gone"]])
    /\ work' = [work EXCEPT ![t] = "none"]
    /\ runner' = [runner EXCEPT ![t] = None]
    /\ UNCHANGED <<exists, maint, pending, deletion, processes>>

\* Mutant of Renew: the lease is extended by what it has left.
RenewOnTop(t) ==
    /\ work[t] \in {"running", "wedged"}
    /\ IF lock.owner = t /\ lock.ttl > 0
       THEN /\ lock' = [lock EXCEPT !.ttl = @ + LeaseLen]
            /\ UNCHANGED work
       ELSE /\ work' = [work EXCEPT ![t] = IF @ = "running" THEN "closing"
                                           ELSE "stuck"]
            /\ UNCHANGED lock
    /\ UNCHANGED <<status, exists, runner, maint, pending, deletion, processes>>

(* Renewal asks for the lease id and the time, not for the owner kind.     *)
Renew(t) ==
    /\ work[t] \in {"running", "wedged"}
    /\ IF lock.owner = t /\ lock.ttl > 0
       THEN /\ lock' = [lock EXCEPT !.ttl = LeaseLen]
            /\ UNCHANGED work
       ELSE /\ work' = [work EXCEPT ![t] = IF @ = "running" THEN "closing"
                                           ELSE "stuck"]
            /\ UNCHANGED lock
    /\ UNCHANGED <<status, exists, runner, maint, pending, deletion, processes>>

(* The host seals its outcome, or the Turn is aborted: no more renewals.   *)
Close(t) ==
    /\ work[t] \in {"running", "wedged"}
    /\ work' = [work EXCEPT ![t] = IF @ = "running" THEN "closing" ELSE "stuck"]
    /\ UNCHANGED <<database, exists, runner, maint, pending, deletion, processes>>

Afterwards(t) ==
    /\ work' = [work EXCEPT ![t] = IF @ = "failing" THEN "none" ELSE "released"]
    /\ runner' = IF work[t] = "failing" THEN [runner EXCEPT ![t] = None]
                 ELSE runner

Forgets(p, t) == IF pending[p] = t THEN [pending EXCEPT ![p] = None] ELSE pending

(* A first attempt that failed has overwritten the pending settlement.     *)
Settle(t, outcome) ==
    /\ work[t] \in {"failing", "running", "closing"}
    /\ work[t] = "failing" => outcome = "failed"
    /\ Becomes(Settled(Db, t, outcome))
    /\ Afterwards(t)
    /\ \/ pending' = Forgets(runner[t], t)
       \/ Faults /\ pending' = [pending EXCEPT ![runner[t]] = None]
    /\ UNCHANGED <<exists, maint, deletion, processes>>

SettleFails(t) ==
    /\ Faults
    /\ work[t] \in {"failing", "running", "closing"}
    /\ pending' = [pending EXCEPT ![runner[t]] = t]
    /\ work' = [work EXCEPT ![t] = CASE @ = "failing" -> "none"
                                     [] @ = "running" -> "wedged"
                                     [] @ = "closing" -> "stuck"]
    /\ runner' = IF work[t] = "failing" THEN [runner EXCEPT ![t] = None]
                 ELSE runner
    /\ UNCHANGED <<database, exists, maint, deletion, processes>>

Complete(t) ==
    /\ work[t] = "released"
    /\ work' = [work EXCEPT ![t] = "none"]
    /\ runner' = [runner EXCEPT ![t] = None]
    /\ UNCHANGED <<database, exists, maint, pending, deletion, processes>>

----------------------------------------------------------------------------
(* Maintenance.                                                            *)

AcquireMaintenance(p, m) ==
    LET d == AfterExpiry(Db)
    IN  /\ p \in alive /\ ~Gated(p)
        /\ maint[m] = None
        /\ d.lock.kind = "free"
        /\ Becomes([d EXCEPT !.lock = Held("maintenance", m, p)])
        /\ maint' = [maint EXCEPT ![m] = p]
        /\ UNCHANGED <<exists, work, runner, pending, deletion, processes>>

RenewMaintenance(m) ==
    /\ maint[m] # None
    /\ lock.owner = m /\ lock.kind \in MaintKind /\ lock.ttl > 0
    /\ lock' = [lock EXCEPT !.ttl = LeaseLen]
    /\ UNCHANGED <<status, exists, memory, processes>>

ReleaseMaintenance(m) ==
    /\ maint[m] # None
    /\ lock' = CASE lock.owner = m /\ lock.kind = "maintenance" -> Free
                 [] lock.owner = m /\ lock.kind = "maintenance-deleting" ->
                        Promoted(lock)
                 [] OTHER -> lock
    /\ maint' = [maint EXCEPT ![m] = None]
    /\ UNCHANGED <<status, exists, work, runner, pending, deletion, processes>>

ReleaseMaintenanceFails(m) ==
    /\ Faults
    /\ maint[m] # None
    /\ maint' = [maint EXCEPT ![m] = None]
    /\ UNCHANGED <<database, exists, work, runner, pending, deletion, processes>>

----------------------------------------------------------------------------
(* Deletion: the gate in memory, the fence in the lock row, then the data. *)

Deleting(kind) == CASE kind \in {"turn", "turn-deleting"} -> "turn-deleting"
                    [] kind \in {"compaction", "compaction-deleting"} ->
                           "compaction-deleting"
                    [] kind \in MaintKind -> "maintenance-deleting"

BeginGate(p) ==
    /\ p \in alive /\ exists /\ deletion[p] = "none"
    /\ deletion' = [deletion EXCEPT ![p] = "gated"]
    /\ UNCHANGED <<database, exists, work, runner, maint, pending, processes>>

\* Mutant of AfterExpiredOwner: the deletion waits for an owner that died.
ExpiredOwnerLeft(d) == d

(* recoverExpiredDeletionTurn: an expired lock ends as its owner would end *)
(* it.  That of plain maintenance has no Turn, and the transaction throws. *)
Recoverable(d) ==
    Expired(d.lock) /\ d.lock.kind \notin {"maintenance-deleting", "session-deletion"}
        => Latest(d) # {}
AfterExpiredOwner(d) ==
    CASE ~Expired(d.lock) \/ d.lock.kind = "session-deletion" -> d
      [] Expired(d.lock) /\ d.lock.kind = "maintenance-deleting" ->
             [d EXCEPT !.lock = Promoted(d.lock)]
      [] OTHER -> [lock |-> ReleasedOrPromoted(d.lock), status |-> FailLatest(d)]

BeginFence(p) ==
    LET d == AfterExpiredOwner(AfterPending(Db, p))
    IN  /\ deletion[p] = "gated"
        /\ Recoverable(AfterPending(Db, p))
        /\ \/ /\ d.lock.kind = "free"
              /\ Becomes([d EXCEPT !.lock = Fence(p)])
           \/ /\ d.lock.kind = "session-deletion" /\ d.lock.proc = p
              /\ Becomes(d)
           \/ /\ d.lock.kind = "session-deletion" /\ d.lock.proc \notin alive
              /\ Becomes([d EXCEPT !.lock = Fence(p)])
           \/ /\ d.lock.kind \in TurnKind \cup TurnDeleting \cup MaintKind
              /\ d.lock.kind \notin MaintKind => Accepted(d) # {}
              /\ Becomes([d EXCEPT !.lock.kind = Deleting(d.lock.kind)])
        /\ pending' = [pending EXCEPT ![p] = None]
        /\ deletion' = [deletion EXCEPT ![p] = "fenced"]
        /\ UNCHANGED <<exists, work, runner, maint, processes>>

NoReceipts == \A t \in Turn : status[t] \in {"none", "gone"}
Quiescent(p) == ~HasEntry(p) /\ lock.kind = "session-deletion"
Erasable == \/ lock.kind = "session-deletion"
            \/ lock.kind = "free" /\ NoReceipts

(* The permits are returned, the active Turn is released, the fence stands.*)
Quiet(p) ==
    /\ deletion[p] = "fenced"
    /\ ~HasPermit(p) /\ Quiescent(p)
    /\ deletion' = [deletion EXCEPT ![p] = "quiet"]
    /\ UNCHANGED <<database, exists, work, runner, maint, pending, processes>>

DeleteSessionData(p) ==
    /\ deletion[p] = "quiet" /\ Erasable
    /\ status' = [t \in Turn |-> IF status[t] = "none" THEN "none" ELSE "gone"]
    /\ pending' = [pending EXCEPT ![p] = None]
    /\ deletion' = [deletion EXCEPT ![p] = "erased"]
    /\ UNCHANGED <<lock, exists, work, runner, maint, processes>>

Cleanup(p) ==
    /\ deletion[p] = "erased"
    /\ exists' = FALSE
    /\ deletion' = [deletion EXCEPT ![p] = "cleaned"]
    /\ UNCHANGED <<database, work, runner, maint, pending, processes>>

(* Also the whole of a deletion that finds the session gone.               *)
CompleteDeletion(p) ==
    /\ p \in alive
    /\ \/ deletion[p] = "cleaned"
       \/ deletion[p] \in {"none", "gated"} /\ ~exists
    /\ \/ lock.kind = "free"
       \/ /\ lock.kind = "session-deletion" /\ lock.proc = p
          /\ NoReceipts
    /\ lock' = Free
    /\ deletion' = [deletion EXCEPT ![p] = "none"]
    /\ UNCHANGED <<status, exists, work, runner, maint, pending, processes>>

(* requireQuiescentTurn aborts the active Turn, which renews no more.       *)
Aborted(p) == [t \in Turn |-> CASE runner[t] = p /\ work[t] = "running" -> "closing"
                                [] runner[t] = p /\ work[t] = "wedged" -> "stuck"
                                [] OTHER -> work[t]]

(* The Turn did not release in time though it was aborted, the lock was    *)
(* lost or a step throws: the gate stays, for a later attempt.             *)
DeletionThrows(p) ==
    /\ \/ deletion[p] = "fenced" /\ ~HasPermit(p) /\ ~Quiescent(p) /\ work' = Aborted(p)
       \/ deletion[p] = "quiet" /\ ~Erasable /\ UNCHANGED work
       \/ deletion[p] \in {"fenced", "quiet", "erased", "cleaned"} /\ Faults /\ UNCHANGED work
    /\ deletion' = [deletion EXCEPT ![p] = "gated"]
    /\ UNCHANGED <<database, exists, runner, maint, pending, processes>>

----------------------------------------------------------------------------
(* A process recovers the locks that are older than itself.                *)

\* Mutant of RestartRecovery: the fence of an old deletion is removed too.
RestartRemovesAll(p) ==
    /\ p \in alive /\ p \in lock.older
    /\ lock.proc \notin alive
    /\ Becomes([lock |-> Free, status |-> FailLatest(Db)])
    /\ UNCHANGED <<exists, memory, processes>>

RestartRecovery(p) ==
    /\ p \in alive /\ p \in lock.older
    /\ lock.proc \notin alive
    /\ CASE lock.kind = "session-deletion" -> Becomes([Db EXCEPT !.lock = Fence(p)])
         [] lock.kind \in MaintKind -> Becomes([Db EXCEPT !.lock = Free])
         [] OTHER -> Becomes([lock |-> Free, status |-> FailLatest(Db)])
    /\ UNCHANGED <<exists, memory, processes>>

----------------------------------------------------------------------------
Init ==
    /\ lock = Free
    /\ status = [t \in Turn |-> "none"]
    /\ exists = TRUE
    /\ work = [t \in Turn |-> "none"]
    /\ runner = [t \in Turn |-> None]
    /\ maint = [m \in Maint |-> None]
    /\ pending = [p \in Proc |-> None]
    /\ deletion = [p \in Proc |-> "none"]
    /\ alive = {} /\ started = {}

TurnStep(t) ==
    \/ Register(t) \/ StartFails(t) \/ RevokeAdmission(t)
    \/ Renew(t) \/ Close(t)
    \/ \E outcome \in Terminal : Settle(t, outcome)
    \/ SettleFails(t) \/ Complete(t)
MaintStep(m) ==
    \/ \E p \in Proc : AcquireMaintenance(p, m)
    \/ RenewMaintenance(m) \/ ReleaseMaintenance(m) \/ ReleaseMaintenanceFails(m)
DeletionStep(p) ==
    \/ BeginGate(p) \/ BeginFence(p) \/ Quiet(p) \/ DeleteSessionData(p)
    \/ Cleanup(p) \/ CompleteDeletion(p) \/ DeletionThrows(p)
ProcStep(p) ==
    \/ StartProc(p) \/ CrashProc(p) \/ RestartRecovery(p) \/ AdmitRejected(p)
    \/ \E t \in Turn, kind \in TurnKind : Admit(p, t, kind)

Next ==
    \/ Tick
    \/ \E t \in Turn : TurnStep(t)
    \/ \E m \in Maint : MaintStep(m)
    \/ \E p \in Proc : ProcStep(p) \/ DeletionStep(p)

Spec == Init /\ [][Next]_vars
----------------------------------------------------------------------------
(* Properties.                                                             *)

\* The variables keep their types; nothing runs in a process that ended.
TypeOK ==
    /\ lock \in Lock
    /\ status \in [Turn -> Status]
    /\ exists \in BOOLEAN
    /\ work \in [Turn -> Phase]
    /\ runner \in [Turn -> Proc \cup {None}]
    /\ maint \in [Maint -> Proc \cup {None}]
    /\ pending \in [Proc -> Turn \cup {None}]
    /\ deletion \in [Proc -> {"none", "gated", "fenced", "quiet", "erased",
                              "cleaned"}]
    /\ alive \subseteq started /\ started \subseteq Proc

(* A receipt is accepted exactly while the lock is held for its Turn, so a *)
(* session never has two active Turns and no lock of a Turn is without one:*)
(* admission, settlement, recovery of expired and of old locks, revocation *)
(* and deletion change both in one transaction.                            *)
LockMatchesTurn ==
    \A t \in Turn :
        status[t] = "accepted" <=>
            lock.kind \in TurnKind \cup TurnDeleting /\ lock.owner = t

(* An accepted Turn is not forgotten: while its process runs, there is code*)
(* or a pending settlement in it that will end the receipt.                *)
AcceptedTurnIsServed ==
    \A t \in Turn :
        status[t] = "accepted" /\ lock.proc \in alive =>
            \/ runner[t] = lock.proc /\ work[t] \notin {"none", "released"}
            \/ pending[lock.proc] = t

(* Between the erasure of the receipts and the end of the deletion nothing *)
(* brings a Turn back (deleteTurnSessionData ... completeSessionDeletion). *)
ErasedStaysErased ==
    \A p \in Proc : deletion[p] \in {"erased", "cleaned"} =>
        \A t \in Turn : status[t] \in {"none", "gone"}

(* The fence of a deletion that was given no expiry falls only when the    *)
(* session is gone: neither the recovery of expired and of old locks nor an*)
(* admission, a settlement or another deletion removes it before.          *)
FenceHeldUntilGone ==
    [][lock.kind = "session-deletion" /\ lock.ttl = Forever
           => lock'.kind = "session-deletion" \/ ~exists]_vars

(* A Turn ends once: its outcome is never overwritten by a late settlement,*)
(* a recovery or a retry, and is forgotten only under the fence.           *)
EndsOnce ==
    [][\A t \in Turn : status[t] \in Terminal =>
           \/ status'[t] = status[t]
           \/ status'[t] = "gone" /\ lock.kind = "session-deletion"]_vars

(* What the program waits for: time, the start or failure of what it       *)
(* admitted, the end of what it runs, the settlement, the release, the     *)
(* recovery at its start, and a deletion that is tried again.              *)
Fairness ==
    /\ WF_vars(Tick)
    /\ \A t \in Turn :
        /\ WF_vars(Register(t) \/ StartFails(t) \/ RevokeAdmission(t))
        /\ WF_vars(Close(t))
        /\ WF_vars(\E outcome \in Terminal : Settle(t, outcome))
        /\ WF_vars(Complete(t))
    /\ \A m \in Maint : WF_vars(ReleaseMaintenance(m))
    /\ \A p \in Proc :
        /\ WF_vars(RestartRecovery(p))
        /\ WF_vars(BeginFence(p))
        /\ WF_vars(Quiet(p) \/ DeletionThrows(p))
        /\ WF_vars(DeleteSessionData(p))
        /\ WF_vars(Cleanup(p))

FairSpec == Spec /\ Fairness

(* A deletion that is retried ends with the session gone, whatever held the*)
(* lock: a Turn or maintenance of this process, or one that died.  Only the*)
(* expired lock of maintenance whose process died stops it.                *)
DeletionFinishes ==
    \A p \in Proc :
        deletion[p] = "gated" ~>
            ~exists \/ deletion[p] = "none" \/ ~Recoverable(Db)

----------------------------------------------------------------------------
(* What an assertion says, and the code does not ensure.                   *)

(* completeTurnSessionDeletion asserts, after the cleanup, that the lock is*)
(* the fence: "Session deletion is not quiescent".                         *)
CompletionIsQuiescent ==
    \A p \in Proc : deletion[p] = "cleaned" =>
        lock.kind \in {"free", "session-deletion"}

=============================================================================
