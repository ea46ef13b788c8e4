--------------------------- MODULE TurnLeaseProofs ---------------------------
(***************************************************************************)
(* Theorems about TurnLease, for any number of processes, Turns and        *)
(* maintenance runs, overlapping or not, failing or not.                   *)
(*                                                                         *)
(* The transactions are composed of a few functions on the pair of the lock*)
(* and the receipts.  Each is shown once to keep such a pair good, to end  *)
(* only what was accepted and to leave a standing fence alone (Sound); the *)
(* actions then follow from the functions they commit.                     *)
(***************************************************************************)
EXTENDS TurnLease, TLAPS

(* The receipt that is accepted is that of the Turn that holds the lock.   *)
Matched(d) ==
    \A t \in Turn :
        d.status[t] = "accepted" <=>
            d.lock.kind \in TurnKind \cup TurnDeleting /\ d.lock.owner = t

(* The owner of a lock is of the sort its kind says.                       *)
Shaped(l) ==
    /\ l.kind = "free" => l = Free
    /\ l.kind \in TurnKind \cup TurnDeleting => l.owner \in Turn
    /\ l.kind \in MaintKind => l.owner \in Maint

DbType == [lock : Lock, status : [Turn -> Status]]
Good(d) == d \in DbType /\ Matched(d) /\ Shaped(d.lock)

FenceUp(l) == l.kind = "session-deletion" /\ l.ttl = Forever

(* A transaction that turns d into e is sound.                             *)
Sound(d, e) ==
    /\ Good(e)
    /\ \A t \in Turn : d.status[t] # "accepted" => e.status[t] = d.status[t]
    /\ FenceUp(d.lock) => e.lock = d.lock

----------------------------------------------------------------------------
(* The functions the transactions are composed of.                         *)

(* Soundness composes.                                                     *)
LEMMA SoundTwice ==
    ASSUME NEW STATE d, NEW STATE e, NEW STATE f,
           Good(d), Sound(d, e), Sound(e, f)
    PROVE  Sound(d, f)
  <1>1. Good(f)
    BY DEF Sound
  <1>2. ASSUME NEW t \in Turn, d.status[t] # "accepted"
        PROVE  f.status[t] = d.status[t]
    <2>1. e.status[t] = d.status[t]
      BY <1>2 DEF Sound
    <2> QED
      BY <2>1, <1>2 DEF Sound
  <1>3. FenceUp(d.lock) => f.lock = d.lock
    BY DEF Sound
  <1> QED
    BY <1>1, <1>2, <1>3 DEF Sound

(* A transaction that changes nothing is sound.                            *)
LEMMA SoundSame == ASSUME NEW STATE d, Good(d) PROVE Sound(d, d)
  BY DEF Sound

(* The free lock, and the lock that becomes the fence, are locks.          *)
LEMMA LockForms ==
    /\ Free \in Lock /\ Shaped(Free)
    /\ \A l \in Lock : Promoted(l) \in Lock /\ Shaped(Promoted(l))
                       /\ Promoted(l).kind = "session-deletion"
    /\ \A p \in Proc : Fence(p) \in Lock /\ Shaped(Fence(p))
                       /\ Fence(p).kind = "session-deletion"
  <1>1. Forever \in Nat \ {0} /\ Forever \in 0 .. Forever /\ 0 \in 0 .. Forever
    BY ConstantsAssumption DEF Forever
  <1>2. Free \in Lock /\ Shaped(Free)
    BY <1>1 DEF Free, Lock, Shaped, Kind, TurnKind, TurnDeleting, MaintKind,
                DeletionKind
  <1>3. ASSUME NEW l \in Lock
        PROVE  Promoted(l) \in Lock /\ Shaped(Promoted(l))
               /\ Promoted(l).kind = "session-deletion"
    BY <1>1 DEF Promoted, Lock, Shaped, Kind, TurnKind, TurnDeleting, MaintKind,
                DeletionKind
  <1>4. ASSUME NEW p \in Proc
        PROVE  Fence(p) \in Lock /\ Shaped(Fence(p))
               /\ Fence(p).kind = "session-deletion"
    BY <1>1 DEF Fence, Lock, Shaped, Kind, TurnKind, TurnDeleting, MaintKind,
                DeletionKind
  <1> QED
    BY <1>2, <1>3, <1>4

(* A lock that ends is free or the fence, of no Turn either way.           *)
LEMMA EndedLock ==
    ASSUME NEW STATE l, l \in Lock
    PROVE  /\ ReleasedOrPromoted(l) \in Lock /\ Shaped(ReleasedOrPromoted(l))
           /\ ReleasedOrPromoted(l).kind \in {"free", "session-deletion"}
  <1>1. CASE l.kind \in TurnDeleting
    BY <1>1, LockForms DEF ReleasedOrPromoted
  <1>2. CASE l.kind \notin TurnDeleting
    BY <1>2, LockForms DEF ReleasedOrPromoted, Free
  <1> QED
    BY <1>1, <1>2

(* The end of an accepted Turn by the owner of the lock is sound.          *)
LEMMA EndedSound ==
    ASSUME NEW STATE d, Good(d), NEW STATE t, t \in Turn,
           d.status[t] = "accepted", NEW outcome \in Terminal
    PROVE  Sound(d, Ended(d, t, outcome))
  <1> DEFINE e == Ended(d, t, outcome)
  <1>0. d.lock \in Lock /\ d.status \in [Turn -> Status]
    BY DEF Good, DbType
  <1>1. e.lock = ReleasedOrPromoted(d.lock)
        /\ e.status = [d.status EXCEPT ![t] = outcome]
        /\ e = [lock |-> e.lock, status |-> e.status]
    BY DEF Ended
  <1>2. outcome \in Status /\ outcome # "accepted"
    BY DEF Terminal, Status
  <1>3. e \in DbType
    BY <1>0, <1>1, <1>2, EndedLock DEF DbType
  <1>4. d.lock.kind \in TurnKind \cup TurnDeleting /\ d.lock.owner = t
    BY DEF Good, Matched
  <1>5. \A u \in Turn : e.status[u] # "accepted"
    BY <1>0, <1>1, <1>2, <1>4 DEF Good, Matched
  <1>6. e.lock.kind \notin TurnKind \cup TurnDeleting
    BY <1>0, <1>1, EndedLock DEF TurnKind, TurnDeleting
  <1>7. Matched(e)
    BY <1>5, <1>6 DEF Matched
  <1>8. Shaped(e.lock)
    BY <1>0, <1>1, EndedLock
  <1>9. ~FenceUp(d.lock)
    BY <1>4 DEF FenceUp, TurnKind, TurnDeleting
  <1>10. \A u \in Turn : d.status[u] # "accepted" => e.status[u] = d.status[u]
    BY <1>0, <1>1
  <1> QED
    BY <1>3, <1>7, <1>8, <1>9, <1>10 DEF Sound, Good

(* settleInTransaction is sound, whether it finds its Turn or not.         *)
LEMMA SettledSound ==
    ASSUME NEW STATE d, Good(d), NEW t \in Turn, NEW outcome \in Terminal
    PROVE  Sound(d, Settled(d, t, outcome))
  <1>1. CASE d.lock.owner = t /\ t \in Latest(d)
    <2>1. d.status[t] = "accepted"
      BY <1>1 DEF Latest, Accepted
    <2> QED
      BY <1>1, <2>1, EndedSound DEF Settled
  <1>2. CASE ~(d.lock.owner = t /\ t \in Latest(d))
    BY <1>2, SoundSame DEF Settled
  <1> QED
    BY <1>1, <1>2

(* recoverPendingSettlementInTransaction is sound.                         *)
LEMMA AfterPendingSound ==
    ASSUME NEW STATE d, Good(d), NEW p \in Proc, pending[p] \in Turn \cup {None}
    PROVE  Sound(d, AfterPending(d, p))
  <1> DEFINE t == pending[p]
  <1>0. "failed" \in Terminal
    BY DEF Terminal
  <1>1. CASE t # None /\ d.lock.owner = t /\ d.status[t] = "accepted"
    <2>1. t \in Turn
      BY <1>1
    <2>2. AfterPending(d, p) = Ended(d, t, "failed")
      BY <1>1 DEF AfterPending
    <2> QED
      BY <1>0, <1>1, <2>1, <2>2, EndedSound
  <1>2. CASE ~(t # None /\ d.lock.owner = t /\ d.status[t] = "accepted")
    BY <1>2, SoundSame DEF AfterPending
  <1> QED
    BY <1>1, <1>2

(* At most one receipt is accepted, so to fail the latest leaves none.     *)
LEMMA FailLatestEndsAll ==
    ASSUME NEW STATE d, Good(d)
    PROVE  /\ FailLatest(d) \in [Turn -> Status]
           /\ \A t \in Turn : FailLatest(d)[t] # "accepted"
           /\ \A t \in Turn : d.status[t] # "accepted"
                                  => FailLatest(d)[t] = d.status[t]
  <1>0. d.status \in [Turn -> Status] /\ "failed" \in Status
    BY DEF Good, DbType, Status, Terminal
  <1>1. ASSUME NEW t \in Turn, d.status[t] = "accepted"
        PROVE  t \in Latest(d)
    <2>1. \A u \in Accepted(d) : u = t
      BY <1>1 DEF Accepted, Good, Matched
    <2>2. t <= t
      BY ConstantsAssumption
    <2> QED
      BY <1>1, <2>1, <2>2 DEF Latest, Accepted
  <1>2. \A t \in Latest(d) : d.status[t] = "accepted"
    BY DEF Latest, Accepted
  <1> QED
    BY <1>0, <1>1, <1>2 DEF FailLatest

(* To fail the latest and let go of a lock that is not the fence is sound. *)
LEMMA LetGoSound ==
    ASSUME NEW STATE d, Good(d), ~FenceUp(d.lock), NEW STATE l, l \in Lock,
           Shaped(l), l.kind \notin TurnKind \cup TurnDeleting
    PROVE  Sound(d, [lock |-> l, status |-> FailLatest(d)])
  <1> DEFINE e == [lock |-> l, status |-> FailLatest(d)]
  <1>1. e \in DbType
    BY FailLatestEndsAll DEF DbType
  <1>2. Matched(e)
    BY FailLatestEndsAll DEF Matched
  <1>3. \A t \in Turn : d.status[t] # "accepted" => e.status[t] = d.status[t]
    BY FailLatestEndsAll
  <1> QED
    BY <1>1, <1>2, <1>3 DEF Sound, Good

(* recoverExpired is sound: it lets go of no fence without expiry.         *)
LEMMA AfterExpirySound ==
    ASSUME NEW STATE d, Good(d) PROVE Sound(d, AfterExpiry(d))
  <1>1. CASE Expired(d.lock)
    <2>1. ~FenceUp(d.lock)
      BY <1>1, ConstantsAssumption DEF Expired, FenceUp, Forever
    <2>2. Free.kind \notin TurnKind \cup TurnDeleting
      BY DEF Free, TurnKind, TurnDeleting
    <2> QED
      BY <1>1, <2>1, <2>2, LockForms, LetGoSound DEF AfterExpiry
  <1>2. CASE ~Expired(d.lock)
    BY <1>2, SoundSame DEF AfterExpiry
  <1> QED
    BY <1>1, <1>2

(* A lock that changes while the receipts stay is sound, if it stays with  *)
(* the same Turn or was and is of none.                                    *)
LEMMA RelockSound ==
    ASSUME NEW STATE d, Good(d), NEW STATE l, l \in Lock, Shaped(l),
           FenceUp(d.lock) => l = d.lock,
           \/ l.kind \in TurnKind \cup TurnDeleting
              /\ d.lock.kind \in TurnKind \cup TurnDeleting
              /\ l.owner = d.lock.owner
           \/ l.kind \notin TurnKind \cup TurnDeleting
              /\ d.lock.kind \notin TurnKind \cup TurnDeleting
    PROVE  Sound(d, [lock |-> l, status |-> d.status])
           /\ [d EXCEPT !.lock = l] = [lock |-> l, status |-> d.status]
  <1>1. [lock |-> l, status |-> d.status] \in DbType
        /\ [d EXCEPT !.lock = l] = [lock |-> l, status |-> d.status]
    BY DEF Good, DbType
  <1>2. Matched([lock |-> l, status |-> d.status])
    BY DEF Good, Matched
  <1> QED
    BY <1>1, <1>2 DEF Sound, Good

(* recoverExpiredDeletionTurn is sound, whatever lock it takes over.       *)
LEMMA AfterExpiredOwnerSound ==
    ASSUME NEW STATE d, Good(d) PROVE Sound(d, AfterExpiredOwner(d))
  <1>0. d.lock \in Lock
    BY DEF Good, DbType
  <1>1. CASE ~Expired(d.lock) \/ d.lock.kind = "session-deletion"
    BY <1>1, SoundSame DEF AfterExpiredOwner
  <1>2. CASE Expired(d.lock) /\ d.lock.kind = "maintenance-deleting"
    <2>1. AfterExpiredOwner(d) = [d EXCEPT !.lock = Promoted(d.lock)]
      BY <1>2 DEF AfterExpiredOwner
    <2>2. ~FenceUp(d.lock)
      BY <1>2 DEF FenceUp
    <2>3. d.lock.kind \notin TurnKind \cup TurnDeleting
          /\ Promoted(d.lock).kind \notin TurnKind \cup TurnDeleting
      BY <1>0, <1>2, LockForms DEF TurnKind, TurnDeleting
    <2>4. Promoted(d.lock) \in Lock /\ Shaped(Promoted(d.lock))
      BY <1>0, LockForms
    <2>5. /\ Sound(d, [lock |-> Promoted(d.lock), status |-> d.status])
          /\ [d EXCEPT !.lock = Promoted(d.lock)]
                 = [lock |-> Promoted(d.lock), status |-> d.status]
      BY <2>2, <2>3, <2>4, RelockSound
    <2> QED
      BY <2>1, <2>5
  <1>3. CASE Expired(d.lock) /\ d.lock.kind \notin {"session-deletion",
                                                     "maintenance-deleting"}
    <2>1. AfterExpiredOwner(d)
              = [lock |-> ReleasedOrPromoted(d.lock), status |-> FailLatest(d)]
      BY <1>3 DEF AfterExpiredOwner
    <2>2. ~FenceUp(d.lock)
      BY <1>3 DEF FenceUp
    <2>3. ReleasedOrPromoted(d.lock).kind \notin TurnKind \cup TurnDeleting
      BY <1>0, EndedLock DEF TurnKind, TurnDeleting
    <2> QED
      BY <1>0, <2>1, <2>2, <2>3, EndedLock, LetGoSound
  <1> QED
    BY <1>1, <1>2, <1>3

----------------------------------------------------------------------------
(* The inductive invariant, and what a step may not do.                    *)

IInv ==
    /\ TypeOK
    /\ Good(Db)
    /\ \A p \in Proc : deletion[p] = "cleaned" => ~exists

(* The bodies of EndsOnce and FenceHeldUntilGone.                          *)
SafeStep ==
    /\ \A t \in Turn : status[t] \in Terminal =>
           \/ status'[t] = status[t]
           \/ status'[t] = "gone" /\ lock.kind = "session-deletion"
    /\ lock.kind = "session-deletion" /\ lock.ttl = Forever
           => lock'.kind = "session-deletion" \/ ~exists

(* No outcome of a Turn reads as accepted.                                 *)
LEMMA NotAccepted == "accepted" \notin Terminal
  BY DEF Terminal

(* A step that commits a sound transaction is safe.                        *)
LEMMA SoundCommit ==
    ASSUME IInv, NEW STATE e, Sound(Db, e), Becomes(e)
    PROVE  Good(Db)' /\ SafeStep /\ lock' \in Lock /\ status' \in [Turn -> Status]
  <1>1. Good(e) /\ e \in DbType
    BY DEF Sound, Good
  <1>2. lock' = e.lock /\ status' = e.status /\ e = [lock |-> e.lock, status |-> e.status]
    BY <1>1 DEF Becomes, DbType
  <1>3. Good(Db)'
    BY <1>1, <1>2 DEF Good, Db, Matched
  <1>4. Db.lock = lock /\ Db.status = status
    BY DEF Db
  <1>5. SafeStep
    BY <1>2, <1>4, NotAccepted DEF Sound, SafeStep, FenceUp
  <1>6. lock' \in Lock /\ status' \in [Turn -> Status]
    BY <1>1, <1>2 DEF DbType
  <1> QED
    BY <1>3, <1>5, <1>6

(* So is a step that leaves the lock and the receipts alone.               *)
LEMMA SameCommit ==
    ASSUME IInv, UNCHANGED database
    PROVE  Good(Db)' /\ SafeStep /\ lock' \in Lock /\ status' \in [Turn -> Status]
  <1>1. lock' = lock /\ status' = status
    BY DEF database
  <1>2. Good(Db)'
    BY <1>1 DEF IInv, Db, Good, Matched
  <1> QED
    BY <1>1, <1>2 DEF IInv, TypeOK, SafeStep

(* A step that changes only the time, the owners or the kind of the lock.  *)
LEMMA Relocked ==
    ASSUME IInv, lock' \in Lock, Shaped(lock'), status' = status,
           FenceUp(lock) => lock'.kind = "session-deletion",
           \/ lock'.kind \in TurnKind \cup TurnDeleting
              /\ lock.kind \in TurnKind \cup TurnDeleting
              /\ lock'.owner = lock.owner
           \/ lock'.kind \notin TurnKind \cup TurnDeleting
              /\ lock.kind \notin TurnKind \cup TurnDeleting
    PROVE  Good(Db)' /\ SafeStep
  <1>1. Good(Db)'
    BY DEF IInv, TypeOK, Good, Db, DbType, Matched
  <1>2. SafeStep
    BY DEF SafeStep, FenceUp
  <1> QED
    BY <1>1, <1>2

(* What an admission recovers first.                                       *)
LEMMA AfterRecoverySound ==
    ASSUME IInv, NEW p \in Proc
    PROVE  /\ Sound(Db, AfterPending(Db, p))
           /\ Sound(Db, AfterRecovery(p))
  <1>1. Sound(Db, AfterPending(Db, p))
    BY AfterPendingSound DEF IInv, TypeOK
  <1>2. Sound(AfterPending(Db, p), AfterRecovery(p))
    BY <1>1, AfterExpirySound DEF Sound, AfterRecovery
  <1> QED
    BY <1>1, <1>2, SoundTwice DEF IInv

----------------------------------------------------------------------------
(* The actions.                                                            *)

(* Time only shortens a lease; the fence without expiry has none.          *)
LEMMA TickKeeps == ASSUME IInv, Tick PROVE IInv' /\ SafeStep
  <1>1. lock \in Lock /\ lock.ttl \in 1 .. LeaseLen
        /\ lock' = [lock EXCEPT !.ttl = lock.ttl - 1]
    BY DEF Tick, IInv, TypeOK
  <1>2. lock' \in Lock /\ lock'.kind = lock.kind /\ lock'.owner = lock.owner
    BY <1>1, ConstantsAssumption DEF Lock, Forever
  <1>3. Shaped(lock')
    BY <1>1, <1>2 DEF IInv, Good, Db, Shaped, Free
  <1>4. Good(Db)' /\ SafeStep
    BY <1>1, <1>2, <1>3, Relocked DEF Tick, FenceUp
  <1> QED
    BY <1>2, <1>4 DEF Tick, IInv, TypeOK, memory, processes

(* A process that starts finds the lock older than itself.                 *)
LEMMA StartKeeps ==
    ASSUME IInv, NEW p \in Proc, StartProc(p) PROVE IInv' /\ SafeStep
  <1>1. /\ lock' \in Lock /\ lock'.kind = lock.kind
        /\ lock'.owner = lock.owner /\ Shaped(lock')
    <2>0. lock \in Lock /\ Shaped(lock)
      BY DEF IInv, TypeOK, Good, Db
    <2>1. CASE lock.kind = "free"
      BY <2>0, <2>1 DEF StartProc
    <2>2. CASE lock.kind # "free"
      <3>1. PICK older \in {lock.older, lock.older \cup {p}} :
              lock' = [lock EXCEPT !.older = older]
        BY <2>2 DEF StartProc
      <3>2. older \in SUBSET Proc
        BY <2>0, <3>1 DEF Lock
      <3> QED
        BY <2>0, <2>2, <3>1, <3>2 DEF Lock, Shaped, Free
    <2> QED
      BY <2>1, <2>2
  <1>2. Good(Db)' /\ SafeStep
    BY <1>1, Relocked DEF StartProc, FenceUp
  <1>3. alive' \subseteq started' /\ started' \subseteq Proc
    BY DEF StartProc, IInv, TypeOK
  <1> QED
    BY <1>1, <1>2, <1>3 DEF StartProc, IInv, TypeOK, memory

(* A process that ends leaves the lock and the receipts.                   *)
LEMMA CrashKeeps ==
    ASSUME IInv, NEW p \in Proc, CrashProc(p) PROVE IInv' /\ SafeStep
  <1>1. Good(Db)' /\ SafeStep /\ lock' \in Lock /\ status' \in [Turn -> Status]
    BY SameCommit DEF CrashProc
  <1>2. work' \in [Turn -> Phase] /\ runner' \in [Turn -> Proc \cup {None}]
    BY DEF CrashProc, IInv, TypeOK, Phase
  <1>3. maint' \in [Maint -> Proc \cup {None}]
        /\ pending' \in [Proc -> Turn \cup {None}]
    BY DEF CrashProc, IInv, TypeOK
  <1>4. /\ deletion' \in [Proc -> {"none", "gated", "fenced", "quiet",
                                    "erased", "cleaned"}]
        /\ \A s \in Proc : deletion'[s] = "cleaned" => ~exists
    BY DEF CrashProc, IInv, TypeOK
  <1> QED
    BY <1>1, <1>2, <1>3, <1>4 DEF CrashProc, IInv, TypeOK

(* admit: recovery, then a lock and a receipt for the same new Turn.       *)
LEMMA AdmitKeeps ==
    ASSUME IInv, NEW p \in Proc, NEW t \in Turn, NEW kind \in TurnKind,
           Admit(p, t, kind)
    PROVE  IInv' /\ SafeStep
  <1> DEFINE d == AfterRecovery(p)
             e == [lock |-> Held(kind, t, p),
                   status |-> [d.status EXCEPT ![t] = "accepted"]]
  <1>1. Sound(Db, d) /\ d \in DbType /\ Matched(d)
    BY AfterRecoverySound DEF Sound, Good
  <1>2. d.lock.kind = "free" /\ lock' = Held(kind, t, p)
        /\ status' = [d.status EXCEPT ![t] = "accepted"]
    BY DEF Admit, Becomes
  <1>3. status[t] = "none" /\ Db.status = status /\ Db.lock = lock
    BY DEF Admit, Fresh, Db
  <1> HIDE DEF d
  <1>4. \A u \in Turn : d.status[u] # "accepted"
    BY <1>1, <1>2 DEF Matched, TurnKind, TurnDeleting
  <1>5. Held(kind, t, p) \in Lock /\ Held(kind, t, p).kind = kind
        /\ Held(kind, t, p).owner = t
    BY ConstantsAssumption DEF Held, Lock, Forever, Kind
  <1>6. status' \in [Turn -> Status]
        /\ \A u \in Turn : status'[u] = "accepted" <=> u = t
    BY <1>1, <1>2, <1>4 DEF DbType, Status
  <1>7. Shaped(lock')
    BY <1>2, <1>5 DEF Shaped, TurnKind, MaintKind
  <1>8. Good(Db)'
    BY <1>2, <1>5, <1>6, <1>7 DEF Good, Db, DbType, Matched
  <1>9. \A u \in Turn : status[u] \in Terminal => status'[u] = status[u]
    BY <1>1, <1>2, <1>3, <1>6, NotAccepted DEF Sound, Terminal, DbType
  <1>10. ~FenceUp(lock)
    BY <1>1, <1>2, <1>3 DEF Sound, FenceUp
  <1>11. SafeStep
    BY <1>9, <1>10 DEF SafeStep, FenceUp
  <1>12. work' \in [Turn -> Phase] /\ runner' \in [Turn -> Proc \cup {None}]
         /\ pending' \in [Proc -> Turn \cup {None}]
    BY DEF Admit, IInv, TypeOK, Phase
  <1> QED
    BY <1>2, <1>5, <1>6, <1>8, <1>11, <1>12 DEF Admit, IInv, TypeOK, processes

(* A rejected admission commits its recovery and nothing else.             *)
LEMMA AdmitRejectedKeeps ==
    ASSUME IInv, NEW p \in Proc, AdmitRejected(p) PROVE IInv' /\ SafeStep
  <1>1. Good(Db)' /\ SafeStep /\ lock' \in Lock /\ status' \in [Turn -> Status]
    <2>1. CASE Gated(p)
      BY <2>1, SoundSame, SoundCommit DEF AdmitRejected, IInv
    <2>2. CASE ~Gated(p)
      BY <2>2, AfterRecoverySound, SoundCommit DEF AdmitRejected
    <2> QED
      BY <2>1, <2>2
  <1>2. pending' \in [Proc -> Turn \cup {None}]
    BY DEF AdmitRejected, IInv, TypeOK
  <1> QED
    BY <1>1, <1>2 DEF AdmitRejected, IInv, TypeOK, processes

(* recoverProcessRestart: the fence is reclaimed, other locks go.          *)
LEMMA RestartKeeps ==
    ASSUME IInv, NEW p \in Proc, RestartRecovery(p) PROVE IInv' /\ SafeStep
  <1>0. Db.lock = lock /\ Db.status = status /\ lock \in Lock /\ Shaped(lock)
        /\ Good(Db)
    BY DEF Db, IInv, TypeOK, Good
  <1>1. CASE lock.kind = "session-deletion"
    <2>1. Becomes([Db EXCEPT !.lock = Fence(p)])
      BY <1>1 DEF RestartRecovery, MaintKind
    <2>2. lock' = Fence(p) /\ status' = status
      BY <2>1 DEF Becomes, Db
    <2>3. lock' \in Lock /\ Shaped(lock') /\ lock'.kind = "session-deletion"
      BY <2>2, LockForms
    <2>4. Good(Db)' /\ SafeStep
      BY <1>1, <2>2, <2>3, Relocked DEF TurnKind, TurnDeleting
    <2> QED
      BY <2>2, <2>3, <2>4 DEF RestartRecovery, IInv, TypeOK, memory, processes
  <1>2. CASE lock.kind \in MaintKind
    <2>1. lock.kind # "session-deletion" /\ lock.kind \notin TurnKind \cup TurnDeleting
      BY <1>2 DEF MaintKind, TurnKind, TurnDeleting
    <2>2. Becomes([Db EXCEPT !.lock = Free])
      BY <1>2, <2>1 DEF RestartRecovery, MaintKind
    <2>3. lock' = Free /\ status' = status
      BY <2>2 DEF Becomes, Db
    <2>4. lock' \in Lock /\ Shaped(lock') /\ lock'.kind = "free"
      BY <2>3, LockForms DEF Free
    <2>5. Good(Db)' /\ SafeStep
      BY <2>1, <2>3, <2>4, Relocked DEF TurnKind, TurnDeleting, FenceUp
    <2> QED
      BY <2>3, <2>4, <2>5 DEF RestartRecovery, IInv, TypeOK, memory, processes
  <1>3. CASE lock.kind # "session-deletion" /\ lock.kind \notin MaintKind
    <2> DEFINE e == [lock |-> Free, status |-> FailLatest(Db)]
    <2>1. Becomes(e)
      BY <1>3 DEF RestartRecovery
    <2>2. ~FenceUp(Db.lock)
      BY <1>0, <1>3 DEF FenceUp
    <2>3. Free.kind \notin TurnKind \cup TurnDeleting
      BY DEF Free, TurnKind, TurnDeleting
    <2>4. Sound(Db, e)
      BY <1>0, <2>2, <2>3, LockForms, LetGoSound
    <2>5. Good(Db)' /\ SafeStep /\ lock' \in Lock /\ status' \in [Turn -> Status]
      BY <2>1, <2>4, SoundCommit
    <2> QED
      BY <2>5 DEF RestartRecovery, IInv, TypeOK, memory, processes
  <1> QED
    BY <1>1, <1>2, <1>3

(* register and its failure are in memory.                                 *)
LEMMA RegisterKeeps ==
    ASSUME IInv, NEW t \in Turn,
           Register(t) \/ StartFails(t) \/ Close(t) \/ Complete(t)
    PROVE  IInv' /\ SafeStep
  <1>1. Good(Db)' /\ SafeStep /\ lock' \in Lock /\ status' \in [Turn -> Status]
    BY SameCommit DEF Register, StartFails, Close, Complete
  <1>2. work' \in [Turn -> Phase] /\ runner' \in [Turn -> Proc \cup {None}]
    BY DEF Register, StartFails, Close, Complete, IInv, TypeOK, Phase
  <1> QED
    BY <1>1, <1>2 DEF Register, StartFails, Close, Complete, IInv, TypeOK,
                      database, processes

(* revokeAdmission drops the receipt with its lock.                        *)
LEMMA RevokeKeeps ==
    ASSUME IInv, NEW t \in Turn, RevokeAdmission(t) PROVE IInv' /\ SafeStep
  <1>1. lock' = Free /\ status' = [status EXCEPT ![t] = "gone"]
    BY DEF RevokeAdmission, Becomes
  <1>2. status \in [Turn -> Status] /\ Matched(Db) /\ Db = [lock |-> lock, status |-> status]
    BY DEF IInv, TypeOK, Good, Db
  <1>3. lock' \in Lock /\ Shaped(lock') /\ lock'.kind = "free"
    BY <1>1, LockForms DEF Free
  <1>4. status' \in [Turn -> Status] /\ \A u \in Turn : status'[u] # "accepted"
    BY <1>1, <1>2 DEF RevokeAdmission, Matched, Status
  <1>5. Good(Db)'
    BY <1>3, <1>4 DEF Good, Db, DbType, Matched, TurnKind, TurnDeleting
  <1>6. SafeStep
    BY <1>1, <1>2, NotAccepted DEF SafeStep, RevokeAdmission
  <1>7. work' \in [Turn -> Phase] /\ runner' \in [Turn -> Proc \cup {None}]
    BY DEF RevokeAdmission, IInv, TypeOK, Phase
  <1> QED
    BY <1>3, <1>4, <1>5, <1>6, <1>7 DEF RevokeAdmission, IInv, TypeOK, processes

(* renew changes the expiry, and that of a promoted fence too.             *)
LEMMA RenewKeeps ==
    ASSUME IInv, NEW t \in Turn, Renew(t) PROVE IInv' /\ SafeStep
  <1>0. lock \in Lock /\ Shaped(lock) /\ None \notin Turn
    BY ConstantsAssumption DEF IInv, TypeOK, Good, Db
  <1>1. CASE lock.owner = t /\ lock.ttl > 0
    <2>1. lock' = [lock EXCEPT !.ttl = LeaseLen] /\ work' = work
      BY <1>1 DEF Renew
    <2>2. lock' \in Lock /\ lock'.kind = lock.kind /\ lock'.owner = lock.owner
      BY <1>0, <2>1, ConstantsAssumption DEF Lock, Forever
    <2>3. Shaped(lock')
      BY <1>0, <1>1, <2>1, <2>2 DEF Shaped, Free
    <2>4. Good(Db)' /\ SafeStep
      BY <2>2, <2>3, Relocked DEF Renew, FenceUp
    <2> QED
      BY <2>1, <2>2, <2>4 DEF Renew, IInv, TypeOK, processes
  <1>2. CASE ~(lock.owner = t /\ lock.ttl > 0)
    <2>1. Good(Db)' /\ SafeStep /\ lock' \in Lock /\ status' \in [Turn -> Status]
      BY <1>2, SameCommit DEF Renew, database
    <2>2. work' \in [Turn -> Phase]
      BY <1>2 DEF Renew, IInv, TypeOK, Phase
    <2> QED
      BY <1>2, <2>1, <2>2 DEF Renew, IInv, TypeOK, processes
  <1> QED
    BY <1>1, <1>2

(* settle, with what it remembers of a pending settlement.                 *)
LEMMA SettleKeeps ==
    ASSUME IInv, NEW t \in Turn, NEW outcome \in Terminal, Settle(t, outcome)
    PROVE  IInv' /\ SafeStep
  <1>1. Good(Db)' /\ SafeStep /\ lock' \in Lock /\ status' \in [Turn -> Status]
    BY SettledSound, SoundCommit DEF Settle, IInv
  <1>2. work' \in [Turn -> Phase] /\ runner' \in [Turn -> Proc \cup {None}]
    BY DEF Settle, Afterwards, IInv, TypeOK, Phase
  <1>3. pending' \in [Proc -> Turn \cup {None}]
    BY DEF Settle, Forgets, IInv, TypeOK
  <1> QED
    BY <1>1, <1>2, <1>3 DEF Settle, IInv, TypeOK, processes

(* A settlement that fails, a completed Turn: the database stays.          *)
LEMMA SettleFailsKeeps ==
    ASSUME IInv, NEW t \in Turn, SettleFails(t) PROVE IInv' /\ SafeStep
  <1>1. Good(Db)' /\ SafeStep /\ lock' \in Lock /\ status' \in [Turn -> Status]
    BY SameCommit DEF SettleFails
  <1>2. runner' \in [Turn -> Proc \cup {None}]
        /\ pending' \in [Proc -> Turn \cup {None}]
    BY DEF SettleFails, IInv, TypeOK
  <1>3. work' \in [Turn -> Phase]
    <2>1. CASE work[t] = "failing"
      BY <2>1 DEF SettleFails, IInv, TypeOK, Phase
    <2>2. CASE work[t] = "running"
      BY <2>2 DEF SettleFails, IInv, TypeOK, Phase
    <2>3. CASE work[t] = "closing"
      BY <2>3 DEF SettleFails, IInv, TypeOK, Phase
    <2> QED
      BY <2>1, <2>2, <2>3 DEF SettleFails
  <1> QED
    BY <1>1, <1>2, <1>3 DEF SettleFails, IInv, TypeOK, processes

(* Maintenance takes, renews and releases a lock of no Turn.               *)
LEMMA MaintenanceKeeps ==
    ASSUME IInv, NEW m \in Maint, MaintStep(m) PROVE IInv' /\ SafeStep
  <1>0. lock \in Lock /\ Shaped(lock) /\ Good(Db) /\ Db.lock = lock
    BY DEF IInv, TypeOK, Good, Db
  <1>1. CASE \E p \in Proc : AcquireMaintenance(p, m)
    <2>1. PICK p \in Proc : AcquireMaintenance(p, m)
      BY <1>1
    <2> DEFINE d == AfterExpiry(Db)
               l == Held("maintenance", m, p)
    <2>2. Sound(Db, d) /\ Good(d)
      BY <1>0, AfterExpirySound DEF Sound
    <2>3. d.lock.kind = "free" /\ Becomes([d EXCEPT !.lock = l])
      BY <2>1 DEF AcquireMaintenance
    <2>4. l \in Lock /\ Shaped(l) /\ l.kind = "maintenance"
      BY ConstantsAssumption DEF Held, Lock, Forever, Kind, MaintKind, Shaped,
                                 TurnKind, TurnDeleting
    <2> HIDE DEF d, l
    <2>5. ~FenceUp(d.lock) /\ d.lock.kind \notin TurnKind \cup TurnDeleting
          /\ l.kind \notin TurnKind \cup TurnDeleting
      BY <2>3, <2>4 DEF FenceUp, TurnKind, TurnDeleting
    <2>6. /\ Sound(d, [lock |-> l, status |-> d.status])
          /\ [d EXCEPT !.lock = l] = [lock |-> l, status |-> d.status]
      BY <2>2, <2>4, <2>5, RelockSound
    <2>7. Sound(Db, [lock |-> l, status |-> d.status])
      BY <1>0, <2>2, <2>6, SoundTwice
    <2>8. Good(Db)' /\ SafeStep /\ lock' \in Lock /\ status' \in [Turn -> Status]
      BY <2>3, <2>6, <2>7, SoundCommit
    <2>9. maint' \in [Maint -> Proc \cup {None}]
      BY <2>1 DEF AcquireMaintenance, IInv, TypeOK
    <2> QED
      BY <2>1, <2>8, <2>9 DEF AcquireMaintenance, IInv, TypeOK, processes
  <1>2. CASE RenewMaintenance(m)
    <2>1. lock' = [lock EXCEPT !.ttl = LeaseLen] /\ lock.kind \in MaintKind
      BY <1>2 DEF RenewMaintenance
    <2>2. lock' \in Lock /\ lock'.kind = lock.kind /\ lock'.owner = lock.owner
      BY <1>0, <2>1, ConstantsAssumption DEF Lock, Forever
    <2>3. Shaped(lock')
      BY <1>0, <2>1, <2>2 DEF Shaped, MaintKind, TurnKind, TurnDeleting
    <2>4. Good(Db)' /\ SafeStep
      BY <1>2, <2>2, <2>3, Relocked DEF RenewMaintenance, FenceUp
    <2> QED
      BY <1>2, <2>2, <2>4 DEF RenewMaintenance, IInv, TypeOK, memory, processes
  <1>3. CASE ReleaseMaintenance(m)
    <2>1. /\ lock' \in Lock /\ Shaped(lock')
          /\ FenceUp(lock) => lock'.kind = "session-deletion"
          /\ \/ lock' = lock
             \/ lock'.kind \notin TurnKind \cup TurnDeleting
                /\ lock.kind \notin TurnKind \cup TurnDeleting
      <3>1. CASE lock.owner = m /\ lock.kind = "maintenance"
        <4>1. lock' = Free
          BY <1>3, <3>1 DEF ReleaseMaintenance
        <4>2. lock' \in Lock /\ Shaped(lock') /\ lock'.kind = "free"
          BY <4>1, LockForms DEF Free
        <4> QED
          BY <3>1, <4>2 DEF FenceUp, TurnKind, TurnDeleting
      <3>2. CASE lock.owner = m /\ lock.kind = "maintenance-deleting"
        <4>1. lock' = Promoted(lock)
          BY <1>3, <3>2 DEF ReleaseMaintenance
        <4>2. lock' \in Lock /\ Shaped(lock') /\ lock'.kind = "session-deletion"
          BY <1>0, <4>1, LockForms
        <4> QED
          BY <3>2, <4>2 DEF FenceUp, TurnKind, TurnDeleting
      <3>3. CASE ~(lock.owner = m /\ lock.kind \in MaintKind)
        <4>1. lock' = lock
          BY <1>3, <3>3 DEF ReleaseMaintenance, MaintKind
        <4> QED
          BY <1>0, <4>1 DEF FenceUp
      <3> QED
        BY <3>1, <3>2, <3>3 DEF MaintKind
    <2>2. Good(Db)' /\ SafeStep
      <3>1. CASE lock' = lock
        BY <1>3, <3>1, SameCommit DEF ReleaseMaintenance, database
      <3>2. CASE lock' # lock
        BY <1>3, <2>1, <3>2, Relocked DEF ReleaseMaintenance
      <3> QED
        BY <3>1, <3>2
    <2>3. maint' \in [Maint -> Proc \cup {None}]
      BY <1>3 DEF ReleaseMaintenance, IInv, TypeOK
    <2> QED
      BY <1>3, <2>1, <2>2, <2>3 DEF ReleaseMaintenance, IInv, TypeOK, processes
  <1>4. CASE ReleaseMaintenanceFails(m)
    <2>1. Good(Db)' /\ SafeStep /\ lock' \in Lock /\ status' \in [Turn -> Status]
      BY <1>4, SameCommit DEF ReleaseMaintenanceFails
    <2>2. maint' \in [Maint -> Proc \cup {None}]
      BY <1>4 DEF ReleaseMaintenanceFails, IInv, TypeOK
    <2> QED
      BY <1>4, <2>1, <2>2 DEF ReleaseMaintenanceFails, IInv, TypeOK, processes
  <1> QED
    BY <1>1, <1>2, <1>3, <1>4 DEF MaintStep

(* The lock a deletion takes over keeps its owner and stays of a Turn or   *)
(* of none.                                                                *)
LEMMA DeletingKeeps ==
    ASSUME NEW STATE d, Good(d),
           d.lock.kind \in TurnKind \cup TurnDeleting \cup MaintKind
    PROVE  Sound(d, [d EXCEPT !.lock.kind = Deleting(d.lock.kind)])
  <1> DEFINE l == [d.lock EXCEPT !.kind = Deleting(d.lock.kind)]
  <1>0. d.lock \in Lock /\ Shaped(d.lock) /\ d \in DbType
    BY DEF Good, DbType
  <1>1. [d EXCEPT !.lock.kind = Deleting(d.lock.kind)] = [d EXCEPT !.lock = l]
    BY <1>0 DEF DbType
  <1>2. \/ Deleting(d.lock.kind) \in TurnDeleting
           /\ d.lock.kind \in TurnKind \cup TurnDeleting
        \/ Deleting(d.lock.kind) = "maintenance-deleting"
           /\ d.lock.kind \in MaintKind
    <2>1. CASE d.lock.kind \in {"turn", "turn-deleting"}
      BY <2>1 DEF Deleting, TurnKind, TurnDeleting, MaintKind
    <2>2. CASE d.lock.kind \in {"compaction", "compaction-deleting"}
      BY <2>2 DEF Deleting, TurnKind, TurnDeleting, MaintKind
    <2>3. CASE d.lock.kind \in MaintKind
      BY <2>3 DEF Deleting, TurnKind, TurnDeleting, MaintKind
    <2> QED
      BY <2>1, <2>2, <2>3 DEF TurnKind, TurnDeleting
  <1>3. l.kind = Deleting(d.lock.kind) /\ l.owner = d.lock.owner
    BY <1>0 DEF Lock
  <1>4. l \in Lock /\ Shaped(l)
    BY <1>0, <1>2, <1>3
       DEF Lock, Kind, DeletionKind, Shaped, TurnKind, TurnDeleting, MaintKind
  <1>5. ~FenceUp(d.lock)
    BY DEF FenceUp, TurnKind, TurnDeleting, MaintKind
  <1>6. \/ l.kind \in TurnDeleting /\ d.lock.kind \in TurnKind \cup TurnDeleting
        \/ /\ l.kind \notin TurnKind \cup TurnDeleting
           /\ d.lock.kind \notin TurnKind \cup TurnDeleting
    BY <1>2, <1>3 DEF TurnKind, TurnDeleting, MaintKind
  <1> HIDE DEF l
  <1>7. /\ Sound(d, [lock |-> l, status |-> d.status])
        /\ [d EXCEPT !.lock = l] = [lock |-> l, status |-> d.status]
    BY <1>3, <1>4, <1>5, <1>6, RelockSound
  <1> QED
    BY <1>1, <1>7

(* beginSessionDeletion, in each of its four outcomes.                     *)
LEMMA FenceKeeps ==
    ASSUME IInv, NEW p \in Proc, BeginFence(p) PROVE IInv' /\ SafeStep
  <1> DEFINE d == AfterExpiredOwner(AfterPending(Db, p))
  <1>1. Sound(Db, d) /\ Good(d) /\ d \in DbType
    <2>1. Sound(Db, AfterPending(Db, p)) /\ Good(AfterPending(Db, p))
      BY AfterRecoverySound DEF Sound
    <2>2. Sound(AfterPending(Db, p), d)
      BY <2>1, AfterExpiredOwnerSound
    <2> QED
      BY <2>1, <2>2, SoundTwice DEF IInv, Sound, Good
  <1>2. \/ d.lock.kind = "free" /\ Becomes([d EXCEPT !.lock = Fence(p)])
        \/ d.lock.kind = "session-deletion" /\ Becomes(d)
        \/ d.lock.kind = "session-deletion" /\ Becomes([d EXCEPT !.lock = Fence(p)])
        \/ /\ d.lock.kind \in TurnKind \cup TurnDeleting \cup MaintKind
           /\ Becomes([d EXCEPT !.lock.kind = Deleting(d.lock.kind)])
    BY DEF BeginFence
  <1> HIDE DEF d
  <1>3. Good(Db)' /\ SafeStep /\ lock' \in Lock /\ status' \in [Turn -> Status]
    <2>1. CASE Becomes(d)
      BY <1>1, <2>1, SoundCommit
    <2>2. CASE /\ d.lock.kind \in {"free", "session-deletion"}
               /\ Becomes([d EXCEPT !.lock = Fence(p)])
      <3>1. lock' = Fence(p) /\ status' = d.status
        BY <1>1, <2>2 DEF Becomes, DbType
      <3>2. lock' \in Lock /\ Shaped(lock') /\ lock'.kind = "session-deletion"
        BY <3>1, LockForms
      <3>3. status' \in [Turn -> Status] /\ \A t \in Turn : status'[t] # "accepted"
        BY <1>1, <2>2, <3>1 DEF Good, DbType, Matched, TurnKind, TurnDeleting
      <3>4. Good(Db)'
        BY <3>2, <3>3 DEF Good, Db, DbType, Matched, TurnKind, TurnDeleting
      <3>5. \A t \in Turn : status[t] # "accepted" => status'[t] = status[t]
        BY <1>1, <3>1 DEF Sound, Db
      <3>6. SafeStep
        BY <3>2, <3>5, NotAccepted DEF SafeStep
      <3> QED
        BY <3>2, <3>3, <3>4, <3>6
    <2>3. CASE /\ d.lock.kind \in TurnKind \cup TurnDeleting \cup MaintKind
               /\ Becomes([d EXCEPT !.lock.kind = Deleting(d.lock.kind)])
      <3> DEFINE e == [d EXCEPT !.lock.kind = Deleting(d.lock.kind)]
      <3>1. Sound(d, e)
        BY <1>1, <2>3, DeletingKeeps
      <3>2. Becomes(e)
        BY <2>3
      <3> HIDE DEF e
      <3>3. Sound(Db, e)
        BY <1>1, <3>1, SoundTwice DEF IInv
      <3> QED
        BY <3>2, <3>3, SoundCommit
    <2> QED
      BY <1>2, <2>1, <2>2, <2>3
  <1>4. /\ pending' \in [Proc -> Turn \cup {None}]
        /\ deletion' \in [Proc -> {"none", "gated", "fenced", "quiet",
                                   "erased", "cleaned"}]
        /\ \A s \in Proc : deletion'[s] = "cleaned" => ~exists
    BY DEF BeginFence, IInv, TypeOK
  <1> QED
    BY <1>3, <1>4 DEF BeginFence, IInv, TypeOK, processes

(* deleteSessionData erases receipts under the fence.                      *)
LEMMA EraseKeeps ==
    ASSUME IInv, NEW p \in Proc, DeleteSessionData(p) PROVE IInv' /\ SafeStep
  <1>0. /\ status \in [Turn -> Status] /\ lock \in Lock /\ Shaped(lock)
        /\ lock' = lock
        /\ status' = [t \in Turn |-> IF status[t] = "none" THEN "none" ELSE "gone"]
    BY DEF IInv, TypeOK, Good, Db, DeleteSessionData
  <1>1. lock.kind \in {"free", "session-deletion"}
    BY DEF DeleteSessionData, Erasable
  <1>2. status' \in [Turn -> Status] /\ \A t \in Turn : status'[t] # "accepted"
    BY <1>0 DEF Status
  <1>3. Good(Db)'
    BY <1>0, <1>1, <1>2 DEF Good, Db, DbType, Matched, TurnKind, TurnDeleting
  <1>4. SafeStep
    <2>1. CASE lock.kind = "session-deletion"
      BY <1>0, <2>1 DEF SafeStep, Terminal
    <2>2. CASE lock.kind = "free"
      BY <1>0, <2>2 DEF SafeStep, Terminal, DeleteSessionData, Erasable, NoReceipts
    <2> QED
      BY <1>1, <2>1, <2>2
  <1>5. /\ pending' \in [Proc -> Turn \cup {None}]
        /\ deletion' \in [Proc -> {"none", "gated", "fenced", "quiet",
                                   "erased", "cleaned"}]
        /\ \A s \in Proc : deletion'[s] = "cleaned" => ~exists
    BY DEF DeleteSessionData, IInv, TypeOK
  <1> QED
    BY <1>0, <1>2, <1>3, <1>4, <1>5 DEF DeleteSessionData, IInv, TypeOK, processes

(* completeSessionDeletion removes the fence of a session that is gone.    *)
LEMMA CompleteKeeps ==
    ASSUME IInv, NEW p \in Proc, CompleteDeletion(p) PROVE IInv' /\ SafeStep
  <1>0. lock' = Free /\ status' = status /\ ~exists
    BY DEF CompleteDeletion, IInv
  <1>1. lock' \in Lock /\ Shaped(lock') /\ lock'.kind = "free"
    BY <1>0, LockForms DEF Free
  <1>2. lock.kind \in {"free", "session-deletion"} /\ status \in [Turn -> Status]
    BY DEF CompleteDeletion, IInv, TypeOK
  <1>3. \A t \in Turn : status[t] # "accepted"
    BY <1>2 DEF IInv, Good, Db, Matched, TurnKind, TurnDeleting
  <1>4. Good(Db)'
    BY <1>0, <1>1, <1>2, <1>3 DEF Good, Db, DbType, Matched, TurnKind, TurnDeleting
  <1>5. SafeStep
    BY <1>0 DEF SafeStep
  <1>6. /\ deletion' \in [Proc -> {"none", "gated", "fenced", "quiet",
                                   "erased", "cleaned"}]
        /\ \A s \in Proc : deletion'[s] = "cleaned" => ~exists
    BY DEF CompleteDeletion, IInv, TypeOK
  <1> QED
    BY <1>0, <1>1, <1>4, <1>5, <1>6 DEF CompleteDeletion, IInv, TypeOK, processes

(* The abort of a deletion ends no Turn: it stays at work until it settles.*)
LEMMA AbortedForms ==
    ASSUME IInv, NEW p \in Proc
    PROVE  /\ Aborted(p) \in [Turn -> Phase]
           /\ \A t \in Turn : work[t] \notin {"none", "released"} =>
                  Aborted(p)[t] \notin {"none", "released"}
BY DEF Aborted, IInv, TypeOK, Phase

(* Every step of a deletion keeps the invariant.                           *)
LEMMA DeletionKeeps ==
    ASSUME IInv, NEW p \in Proc, DeletionStep(p) PROVE IInv' /\ SafeStep
  <1>1. CASE BeginGate(p) \/ Quiet(p) \/ Cleanup(p) \/ DeletionThrows(p)
    <2>1. Good(Db)' /\ SafeStep /\ lock' \in Lock /\ status' \in [Turn -> Status]
      BY <1>1, SameCommit DEF BeginGate, Quiet, Cleanup, DeletionThrows
    <2>2. /\ deletion' \in [Proc -> {"none", "gated", "fenced", "quiet",
                                     "erased", "cleaned"}]
          /\ \A s \in Proc : deletion'[s] = "cleaned" => ~exists'
      BY <1>1 DEF BeginGate, Quiet, Cleanup, DeletionThrows, IInv, TypeOK
    <2>3. work' \in [Turn -> Phase]
      BY <1>1, AbortedForms DEF BeginGate, Quiet, Cleanup, DeletionThrows, IInv, TypeOK
    <2> QED
      BY <1>1, <2>1, <2>2, <2>3
         DEF BeginGate, Quiet, Cleanup, DeletionThrows, IInv, TypeOK, processes
  <1> QED
    BY <1>1, FenceKeeps, EraseKeeps, CompleteKeeps DEF DeletionStep

----------------------------------------------------------------------------
(* The theorems.                                                           *)

(* At the start the session is free and nothing was admitted.              *)
LEMMA InitGood == Init => IInv
  <1> SUFFICES ASSUME Init PROVE IInv
    OBVIOUS
  <1>1. lock \in Lock /\ Shaped(lock) /\ lock.kind = "free"
    BY LockForms DEF Init, Free
  <1>2. status \in [Turn -> Status] /\ \A t \in Turn : status[t] # "accepted"
    BY DEF Init, Status
  <1>3. Good(Db)
    BY <1>1, <1>2 DEF Good, Db, DbType, Matched, TurnKind, TurnDeleting
  <1>4. TypeOK
    BY <1>1, <1>2 DEF Init, TypeOK, Phase
  <1>5. \A p \in Proc : deletion[p] # "cleaned"
    BY DEF Init
  <1> QED
    BY <1>3, <1>4, <1>5 DEF IInv

(* Every step keeps the invariant, ends no Turn twice and leaves a standing*)
(* fence alone.                                                            *)
LEMMA StepKeeps == IInv /\ [Next]_vars => IInv' /\ [SafeStep]_vars
  <1> SUFFICES ASSUME IInv, [Next]_vars PROVE IInv' /\ [SafeStep]_vars
    OBVIOUS
  <1>1. CASE UNCHANGED vars
    BY <1>1 DEF vars, IInv, TypeOK, Good, Db, DbType, Matched
  <1>2. CASE Tick
    BY <1>2, TickKeeps
  <1>3. ASSUME NEW t \in Turn, TurnStep(t) PROVE IInv' /\ SafeStep
    BY <1>3, RegisterKeeps, RevokeKeeps, RenewKeeps, SettleKeeps, SettleFailsKeeps
       DEF TurnStep
  <1>4. ASSUME NEW m \in Maint, MaintStep(m) PROVE IInv' /\ SafeStep
    BY <1>4, MaintenanceKeeps
  <1>5. ASSUME NEW p \in Proc, ProcStep(p) PROVE IInv' /\ SafeStep
    BY <1>5, StartKeeps, CrashKeeps, RestartKeeps, AdmitRejectedKeeps, AdmitKeeps
       DEF ProcStep
  <1>6. ASSUME NEW p \in Proc, DeletionStep(p) PROVE IInv' /\ SafeStep
    BY <1>6, DeletionKeeps
  <1> QED
    BY <1>1, <1>2, <1>3, <1>4, <1>5, <1>6 DEF Next

(* The inductive invariant of the lock and the receipts, whatever the      *)
(* processes, their crashes and their failed settlements.                  *)
THEOREM LeaseInvariant == Spec => []IInv
  BY InitGood, StepKeeps, PTL DEF Spec

(* The types, as TLC checks them on the overlapping Runtimes.              *)
THEOREM LeaseTypeOK == Spec => []TypeOK
  <1>1. IInv => TypeOK
    BY DEF IInv
  <1> QED
    BY <1>1, LeaseInvariant, PTL

(* The repository never leaves two active Turns in a session, a receipt    *)
(* accepted without its lock, or a lock of a Turn without its receipt.     *)
THEOREM LeaseMatchesTurn == Spec => []LockMatchesTurn
  <1>1. IInv => LockMatchesTurn
    BY DEF IInv, Good, Matched, Db, LockMatchesTurn
  <1> QED
    BY <1>1, LeaseInvariant, PTL

(* Whichever of settlement, retry, recovery and deletion comes first gives *)
(* a Turn its outcome, and the later ones leave it.                        *)
THEOREM TurnEndsOnce == Spec => EndsOnce
  <1>1. [SafeStep]_vars => [\A t \in Turn : status[t] \in Terminal =>
                               \/ status'[t] = status[t]
                               \/ status'[t] = "gone"
                                  /\ lock.kind = "session-deletion"]_vars
    BY DEF SafeStep
  <1> QED
    BY <1>1, LeaseInvariant, StepKeeps, PTL DEF Spec, EndsOnce

(* beginSessionDeletion, recovery at a restart, admission and settlement   *)
(* all leave a fence without expiry in place until the session is gone.    *)
THEOREM FenceHeld == Spec => FenceHeldUntilGone
  <1>1. [SafeStep]_vars => [lock.kind = "session-deletion" /\ lock.ttl = Forever
                               => lock'.kind = "session-deletion" \/ ~exists]_vars
    BY DEF SafeStep
  <1> QED
    BY <1>1, LeaseInvariant, StepKeeps, PTL DEF Spec, FenceHeldUntilGone

----------------------------------------------------------------------------
(* What was erased stays erased, in a Runtime that has the database for    *)
(* itself.  Another process could admit a Turn when the fence runs out that*)
(* a slow owner renewed; the gate in the memory of this one stops its own. *)

Out == {"none", "gone"}

(* No step but an admission brings a receipt.                              *)
StaysOut == \A t \in Turn : status[t] \in Out => status'[t] \in Out

(* One process runs, and only it deletes.                                  *)
Alone ==
    /\ \A p, q \in alive : p = q
    /\ \A p \in Proc : deletion[p] # "none" => p \in alive

(* A step that admits nothing and begins, ends or advances no deletion past*)
(* the erasure.                                                            *)
Idle ==
    /\ StaysOut /\ UNCHANGED alive
    /\ \A p \in Proc : deletion'[p] = deletion[p] \/ deletion'[p] \in {"none", "gated"}
    /\ \A p \in Proc : deletion'[p] # "none" => p \in alive

LEMMA SoundStaysOut ==
    ASSUME NEW STATE e, Sound(Db, e), status' = e.status PROVE StaysOut
  BY DEF Sound, Db, Out, StaysOut

LEMMA IdleKeeps ==
    ASSUME Alone, ErasedStaysErased, Idle PROVE Alone' /\ ErasedStaysErased'
  <1>1. Alone'
    BY DEF Alone, Idle
  <1>2. ErasedStaysErased'
    BY DEF ErasedStaysErased, Idle, StaysOut, Out
  <1> QED
    BY <1>1, <1>2

(* Nothing is admitted while the data is erased: the gate is closed.       *)
LEMMA AdmitKeepsErased ==
    ASSUME Alone, NEW p \in Proc, NEW t \in Turn, NEW kind \in TurnKind,
           Admit(p, t, kind)
    PROVE  Alone' /\ ErasedStaysErased'
  <1>1. \A q \in Proc : deletion[q] = "none"
    BY DEF Admit, Gated, Alone
  <1> QED
    BY <1>1 DEF Admit, Alone, ErasedStaysErased, processes

LEMMA ProcStepKeepsErased ==
    ASSUME ~Overlap, IInv, Alone, ErasedStaysErased, NEW p \in Proc, ProcStep(p)
    PROVE  Alone' /\ ErasedStaysErased'
  <1>1. CASE StartProc(p)
    <2>1. status' = status /\ deletion' = deletion /\ alive = {} /\ alive' = {p}
      BY <1>1 DEF StartProc, memory
    <2> QED
      BY <2>1 DEF Alone, ErasedStaysErased
  <1>2. CASE CrashProc(p)
    <2>1. status' = status /\ alive' = alive \ {p}
          /\ deletion' = [deletion EXCEPT ![p] = "none"]
      BY <1>2 DEF CrashProc, database
    <2> QED
      BY <2>1 DEF IInv, TypeOK, Alone, ErasedStaysErased
  <1>3. CASE RestartRecovery(p)
    <2>1. status' = status \/ status' = FailLatest(Db)
      BY <1>3 DEF RestartRecovery, Becomes, Db
    <2>2. StaysOut
      BY <2>1, FailLatestEndsAll DEF IInv, Db, StaysOut, Out
    <2> QED
      BY <1>3, <2>2, IdleKeeps DEF RestartRecovery, memory, processes, Idle, Alone
  <1>4. CASE AdmitRejected(p)
    <2>1. StaysOut
      BY <1>4, AfterRecoverySound, SoundStaysOut
         DEF AdmitRejected, Becomes, Db, StaysOut
    <2> QED
      BY <1>4, <2>1, IdleKeeps DEF AdmitRejected, processes, Idle, Alone
  <1> QED
    BY <1>1, <1>2, <1>3, <1>4, AdmitKeepsErased DEF ProcStep

LEMMA TurnStepKeepsErased ==
    ASSUME IInv, Alone, ErasedStaysErased, NEW t \in Turn, TurnStep(t)
    PROVE  Alone' /\ ErasedStaysErased'
  <1>1. deletion' = deletion /\ alive' = alive
    BY DEF TurnStep, Register, StartFails, RevokeAdmission, Renew, Close, Settle,
           SettleFails, Complete, processes
  <1>2. StaysOut
    <2>1. CASE RevokeAdmission(t)
      BY <2>1 DEF RevokeAdmission, Becomes, IInv, TypeOK, StaysOut, Out
    <2>2. CASE \E outcome \in Terminal : Settle(t, outcome)
      BY <2>2, SettledSound, SoundStaysOut DEF Settle, Becomes, IInv
    <2>3. CASE status' = status
      BY <2>3 DEF StaysOut
    <2> QED
      BY <2>1, <2>2, <2>3
         DEF TurnStep, Register, StartFails, Renew, Close, SettleFails, Complete, database
  <1> QED
    BY <1>1, <1>2, IdleKeeps DEF Idle, Alone

LEMMA MaintStepKeepsErased ==
    ASSUME IInv, Alone, ErasedStaysErased, NEW m \in Maint, MaintStep(m)
    PROVE  Alone' /\ ErasedStaysErased'
  <1>1. deletion' = deletion /\ alive' = alive
    BY DEF MaintStep, AcquireMaintenance, RenewMaintenance, ReleaseMaintenance,
           ReleaseMaintenanceFails, memory, processes
  <1>2. StaysOut
    <2>1. CASE \E p \in Proc : AcquireMaintenance(p, m)
      <3>1. Sound(Db, AfterExpiry(Db)) /\ AfterExpiry(Db) \in DbType
        BY AfterExpirySound DEF IInv, Sound, Good
      <3>2. status' = AfterExpiry(Db).status
        BY <2>1, <3>1 DEF AcquireMaintenance, Becomes, DbType
      <3> QED
        BY <3>1, <3>2, SoundStaysOut
    <2>2. CASE status' = status
      BY <2>2 DEF StaysOut
    <2> QED
      BY <2>1, <2>2 DEF MaintStep, RenewMaintenance, ReleaseMaintenance,
                        ReleaseMaintenanceFails, database
  <1> QED
    BY <1>1, <1>2, IdleKeeps DEF Idle, Alone

LEMMA DeletionStepKeepsErased ==
    ASSUME IInv, Alone, ErasedStaysErased, NEW p \in Proc, DeletionStep(p)
    PROVE  Alone' /\ ErasedStaysErased'
  <1>0. p \in alive /\ alive' = alive
    BY DEF Alone, DeletionStep, BeginGate, BeginFence, Quiet, DeleteSessionData,
           Cleanup, CompleteDeletion, DeletionThrows, processes
  <1>1. Alone'
    BY <1>0
       DEF IInv, TypeOK, Alone, DeletionStep, BeginGate, BeginFence, Quiet,
           DeleteSessionData, Cleanup, CompleteDeletion, DeletionThrows
  <1>2. CASE BeginFence(p)
    <2> DEFINE d == AfterExpiredOwner(AfterPending(Db, p))
    <2>1. Sound(Db, d) /\ d \in DbType
      <3>1. Sound(Db, AfterPending(Db, p)) /\ Good(AfterPending(Db, p))
        BY AfterRecoverySound DEF Sound
      <3>2. Sound(AfterPending(Db, p), d)
        BY <3>1, AfterExpiredOwnerSound
      <3> QED
        BY <3>1, <3>2, SoundTwice DEF IInv, Sound, Good
    <2>2. \/ Becomes([d EXCEPT !.lock = Fence(p)]) \/ Becomes(d)
          \/ Becomes([d EXCEPT !.lock.kind = Deleting(d.lock.kind)])
      BY <1>2 DEF BeginFence
    <2> HIDE DEF d
    <2>3. status' = d.status
      BY <2>1, <2>2 DEF Becomes, DbType
    <2>4. StaysOut
      BY <2>1, <2>3, SoundStaysOut
    <2> QED
      BY <1>1, <1>2, <2>4
         DEF BeginFence, IInv, TypeOK, ErasedStaysErased, StaysOut, Out
  <1>3. CASE DeleteSessionData(p)
    BY <1>1, <1>3 DEF DeleteSessionData, IInv, TypeOK, ErasedStaysErased
  <1>4. CASE status' = status /\ ~BeginFence(p)
    BY <1>1, <1>4
       DEF IInv, TypeOK, ErasedStaysErased, DeletionStep, BeginGate, Quiet,
           DeleteSessionData, Cleanup, CompleteDeletion, DeletionThrows
  <1> QED
    BY <1>2, <1>3, <1>4
       DEF DeletionStep, BeginGate, Quiet, Cleanup, CompleteDeletion, DeletionThrows,
           database

(* Between the erasure of the receipts and the end of the deletion nothing *)
(* brings a Turn back while one Runtime has the database, whatever fails,  *)
(* expires or is recovered: deleteTurnSessionData erases behind the gate.  *)
THEOREM ErasedReceiptsStayErased == ASSUME ~Overlap PROVE Spec => []ErasedStaysErased
  <1>1. Init => Alone /\ ErasedStaysErased
    BY DEF Init, Alone, ErasedStaysErased
  <1>2. IInv /\ Alone /\ ErasedStaysErased /\ [Next]_vars
            => Alone' /\ ErasedStaysErased'
    <2> SUFFICES ASSUME IInv, Alone, ErasedStaysErased, [Next]_vars
                 PROVE  Alone' /\ ErasedStaysErased'
      OBVIOUS
    <2>1. CASE UNCHANGED vars \/ Tick
      BY <2>1, IdleKeeps DEF vars, Tick, memory, processes, Idle, StaysOut, Alone
    <2> QED
      BY <2>1, TurnStepKeepsErased, MaintStepKeepsErased, ProcStepKeepsErased,
         DeletionStepKeepsErased DEF Next
  <1> QED
    BY <1>1, <1>2, LeaseInvariant, PTL DEF Spec

----------------------------------------------------------------------------
(* An accepted Turn is served, when no settlement fails for good: the lock *)
(* of a Turn keeps its process, and the code of that process ends the      *)
(* receipt before it lets go.                                              *)

OfTurn(l) == l.kind \in TurnKind \cup TurnDeleting
AtWork(t) == work[t] \notin {"none", "released"}

Served ==
    \A t \in Turn : status[t] = "accepted" /\ lock.proc \in alive =>
        runner[t] = lock.proc /\ AtWork(t)

ServedInv ==
    /\ \A p \in Proc : pending[p] = None
    /\ OfTurn(lock) => lock.proc \in started
    /\ Served

(* What a step that admits nothing has to keep.                            *)
LockKept ==
    OfTurn(lock') => OfTurn(lock) /\ lock'.owner = lock.owner /\ lock'.proc = lock.proc
ProcsKept ==
    /\ started \subseteq started'
    /\ OfTurn(lock) /\ lock.proc \in alive' => lock.proc \in alive
WorkKept ==
    \A t \in Turn : status'[t] = "accepted" /\ runner[t] \in alive' /\ AtWork(t) =>
        runner'[t] = runner[t] /\ AtWork(t)'
PendingKept == \A p \in Proc : pending'[p] = None

LEMMA ServedKept ==
    ASSUME IInv, IInv', ServedInv, LockKept, ProcsKept, WorkKept, PendingKept
    PROVE  ServedInv'
  <1>1. OfTurn(lock)' => lock'.proc \in started'
    BY DEF ServedInv, LockKept, ProcsKept, OfTurn
  <1>2. Served'
    <2> SUFFICES ASSUME NEW t \in Turn, status'[t] = "accepted", lock'.proc \in alive'
                 PROVE  runner'[t] = lock'.proc /\ AtWork(t)'
      BY DEF Served
    <2>1. OfTurn(lock') /\ lock'.owner = t
      BY DEF IInv, Good, Matched, Db, OfTurn
    <2>2. status[t] = "accepted" /\ lock'.proc = lock.proc /\ lock.proc \in alive
      BY <2>1 DEF LockKept, ProcsKept, IInv, Good, Matched, Db, OfTurn
    <2>3. runner[t] = lock.proc /\ AtWork(t)
      BY <2>2 DEF ServedInv, Served
    <2> QED
      BY <2>2, <2>3 DEF WorkKept
  <1> QED
    BY <1>1, <1>2 DEF ServedInv, PendingKept

LEMMA TurnLockForms ==
    /\ ~OfTurn(Free)
    /\ \A p \in Proc : ~OfTurn(Fence(p))
    /\ \A l \in Lock : ~OfTurn(ReleasedOrPromoted(l)) /\ ~OfTurn(Promoted(l))
  BY LockForms, EndedLock
     DEF OfTurn, Free, TurnKind, TurnDeleting, ReleasedOrPromoted

(* Without a settlement to repair, recovery ends the lock or leaves it.    *)
LEMMA NothingPending ==
    ASSUME ServedInv, NEW p \in Proc
    PROVE  /\ AfterPending(Db, p) = Db
           /\ AfterRecovery(p).lock \in {lock, Free}
  <1>1. AfterPending(Db, p) = Db
    BY DEF ServedInv, AfterPending
  <1> QED
    BY <1>1 DEF AfterRecovery, AfterExpiry, Db

LEMMA ProcStepServes ==
    ASSUME IInv, IInv', ServedInv, NEW p \in Proc, ProcStep(p) PROVE ServedInv'
  <1>1. CASE StartProc(p)
    <2>1. /\ lock'.kind = lock.kind /\ lock'.owner = lock.owner
          /\ lock'.proc = lock.proc
      <3>1. lock \in Lock
        BY DEF IInv, TypeOK
      <3>2. CASE lock.kind = "free"
        BY <1>1, <3>2 DEF StartProc
      <3>3. CASE lock.kind # "free"
        <4>1. PICK older : lock' = [lock EXCEPT !.older = older]
          BY <1>1, <3>3 DEF StartProc
        <4> QED
          BY <3>1, <4>1 DEF Lock
      <3> QED
        BY <3>2, <3>3
    <2>2. LockKept
      BY <2>1 DEF LockKept, OfTurn
    <2>3. ProcsKept
      BY <1>1 DEF StartProc, ServedInv, ProcsKept
    <2>4. WorkKept /\ PendingKept
      BY <1>1 DEF StartProc, memory, WorkKept, AtWork, PendingKept, ServedInv
    <2> QED
      BY <2>2, <2>3, <2>4, ServedKept
  <1>2. CASE CrashProc(p)
    <2>1. LockKept /\ ProcsKept
      BY <1>2 DEF CrashProc, database, LockKept, ProcsKept
    <2>2. WorkKept
      BY <1>2 DEF CrashProc, IInv, TypeOK, WorkKept, AtWork
    <2>3. PendingKept
      BY <1>2 DEF CrashProc, IInv, TypeOK, PendingKept, ServedInv
    <2> QED
      BY <2>1, <2>2, <2>3, ServedKept
  <1>3. CASE RestartRecovery(p)
    <2>1. ~OfTurn(lock')
      BY <1>3, TurnLockForms DEF RestartRecovery, Becomes, Db
    <2>2. LockKept /\ ProcsKept /\ WorkKept /\ PendingKept
      BY <1>3, <2>1
         DEF RestartRecovery, memory, processes, LockKept, ProcsKept, WorkKept, AtWork,
             PendingKept, ServedInv
    <2> QED
      BY <2>2, ServedKept
  <1>4. CASE AdmitRejected(p)
    <2>1. lock' \in {lock, Free}
      BY <1>4, NothingPending DEF AdmitRejected, Becomes, Db
    <2>2. LockKept
      BY <2>1, TurnLockForms DEF LockKept
    <2>3. ProcsKept /\ WorkKept /\ PendingKept
      BY <1>4
         DEF AdmitRejected, processes, ProcsKept, WorkKept, AtWork, PendingKept,
             ServedInv, IInv, TypeOK
    <2> QED
      BY <2>2, <2>3, ServedKept
  <1>5. ASSUME NEW t \in Turn, NEW kind \in TurnKind, Admit(p, t, kind)
        PROVE  ServedInv'
    <2>1. /\ lock'.kind = kind /\ lock'.owner = t /\ lock'.proc = p /\ p \in alive
          /\ alive' = alive /\ started' = started
      BY <1>5 DEF Admit, Becomes, Held, processes
    <2>2. \A u \in Turn : status'[u] = "accepted" => u = t
      BY <2>1 DEF IInv, Good, Matched, Db
    <2>3. runner'[t] = p /\ work'[t] = "admitted"
      BY <1>5 DEF Admit, IInv, TypeOK
    <2>4. p \in started' /\ PendingKept
      BY <1>5, <2>1 DEF Admit, IInv, TypeOK, PendingKept, ServedInv
    <2> QED
      BY <2>1, <2>2, <2>3, <2>4 DEF ServedInv, Served, AtWork, PendingKept
  <1> QED
    BY <1>1, <1>2, <1>3, <1>4, <1>5 DEF ProcStep

(* The code of a Turn lets go only of a receipt that it ended.             *)
LEMMA SettleServes ==
    ASSUME ~Faults, IInv, IInv', ServedInv, NEW t \in Turn, NEW outcome \in Terminal,
           Settle(t, outcome)
    PROVE  ServedInv'
  <1>1. lock \in Lock /\ Good(Db) /\ Good(Db)' /\ Db.lock = lock /\ Db.status = status
    BY DEF IInv, TypeOK, Db
  <1>2. \/ lock' = lock /\ status' = status /\ ~(lock.owner = t /\ t \in Latest(Db))
        \/ /\ lock' = ReleasedOrPromoted(lock)
           /\ status' = [status EXCEPT ![t] = outcome]
    BY <1>1 DEF Settle, Settled, Ended, Becomes
  <1>3. LockKept
    BY <1>1, <1>2, TurnLockForms DEF LockKept
  <1>4. status'[t] # "accepted"
    <2>1. CASE status' = [status EXCEPT ![t] = outcome]
      BY <2>1, NotAccepted DEF IInv, TypeOK
    <2>2. CASE status[t] = "accepted" /\ lock' = lock /\ status' = status
      <3>1. lock.owner = t
        BY <1>1, <2>2 DEF Good, Matched
      <3>2. t \in Latest(Db)
        BY <1>1, <2>2, FailLatestEndsAll DEF FailLatest
      <3> QED
        BY <1>2, <3>1, <3>2, <2>1
    <2> QED
      BY <1>2, <2>1, <2>2
  <1>5. WorkKept
    BY <1>4 DEF Settle, Afterwards, IInv, TypeOK, WorkKept, AtWork
  <1>6. ProcsKept /\ PendingKept
    BY DEF Settle, Forgets, processes, ServedInv, IInv, TypeOK, ProcsKept, PendingKept
  <1> QED
    BY <1>3, <1>5, <1>6, ServedKept

LEMMA TurnStepServes ==
    ASSUME ~Faults, IInv, IInv', ServedInv, NEW t \in Turn, TurnStep(t)
    PROVE  ServedInv'
  <1>1. CASE Register(t) \/ StartFails(t) \/ Close(t) \/ Complete(t)
    <2>1. LockKept /\ ProcsKept /\ PendingKept
      BY <1>1 DEF Register, StartFails, Close, Complete, database, processes, LockKept,
                  ProcsKept, PendingKept, ServedInv
    <2>2. WorkKept
      BY <1>1 DEF Register, StartFails, Close, Complete, IInv, TypeOK, WorkKept, AtWork
    <2> QED
      BY <2>1, <2>2, ServedKept
  <1>2. CASE RevokeAdmission(t)
    <2>1. lock' = Free /\ status' = [status EXCEPT ![t] = "gone"]
      BY <1>2 DEF RevokeAdmission, Becomes
    <2>2. LockKept
      BY <2>1, TurnLockForms DEF LockKept
    <2>3. WorkKept /\ ProcsKept /\ PendingKept
      BY <1>2, <2>1 DEF RevokeAdmission, processes, IInv, TypeOK, WorkKept, AtWork,
                        ProcsKept, PendingKept, ServedInv
    <2> QED
      BY <2>2, <2>3, ServedKept
  <1>3. CASE Renew(t)
    <2>1. /\ lock'.kind = lock.kind /\ lock'.owner = lock.owner
          /\ lock'.proc = lock.proc
      BY <1>3 DEF Renew, IInv, TypeOK, Lock
    <2>2. LockKept
      BY <2>1 DEF LockKept, OfTurn
    <2>3. WorkKept
      BY <1>3 DEF Renew, IInv, TypeOK, WorkKept, AtWork
    <2>4. ProcsKept /\ PendingKept
      BY <1>3 DEF Renew, processes, ProcsKept, PendingKept, ServedInv
    <2> QED
      BY <2>2, <2>3, <2>4, ServedKept
  <1>4. ~SettleFails(t)
    BY DEF SettleFails
  <1> QED
    BY <1>1, <1>2, <1>3, <1>4, SettleServes DEF TurnStep

LEMMA MaintStepServes ==
    ASSUME IInv, IInv', ServedInv, NEW m \in Maint, MaintStep(m)
    PROVE  ServedInv'
  <1>1. WorkKept /\ ProcsKept /\ PendingKept
    BY DEF MaintStep, AcquireMaintenance, RenewMaintenance, ReleaseMaintenance,
           ReleaseMaintenanceFails, memory, processes, WorkKept, AtWork, ProcsKept,
           PendingKept, ServedInv
  <1>2. LockKept
    <2>1. CASE \E p \in Proc : AcquireMaintenance(p, m)
      <3>1. PICK p \in Proc : AcquireMaintenance(p, m)
        BY <2>1
      <3>2. AfterExpiry(Db) \in DbType
        BY AfterExpirySound DEF IInv, Sound, Good
      <3>3. lock' = Held("maintenance", m, p)
        BY <3>1, <3>2 DEF AcquireMaintenance, Becomes, DbType
      <3> QED
        BY <3>3 DEF Held, LockKept, OfTurn, TurnKind, TurnDeleting
    <2>2. CASE RenewMaintenance(m)
      BY <2>2 DEF RenewMaintenance, IInv, TypeOK, Lock, LockKept, OfTurn
    <2>3. CASE ReleaseMaintenance(m)
      <3>1. lock' \in {lock, Free, Promoted(lock)}
        BY <2>3 DEF ReleaseMaintenance
      <3> QED
        BY <3>1, TurnLockForms DEF IInv, TypeOK, LockKept
    <2>4. CASE lock' = lock
      BY <2>4 DEF LockKept
    <2> QED
      BY <2>1, <2>2, <2>3, <2>4 DEF MaintStep, ReleaseMaintenanceFails, database
  <1> QED
    BY <1>1, <1>2, ServedKept

(* A deletion takes over a lock that runs and keeps its process.           *)
LEMMA DeletionStepServes ==
    ASSUME IInv, IInv', ServedInv, NEW p \in Proc, DeletionStep(p)
    PROVE  ServedInv'
  <1>1. WorkKept /\ ProcsKept
    BY AbortedForms
       DEF DeletionStep, BeginGate, BeginFence, Quiet, DeleteSessionData, Cleanup,
           CompleteDeletion, DeletionThrows, processes, WorkKept, AtWork, ProcsKept
  <1>2. PendingKept
    BY DEF DeletionStep, BeginGate, BeginFence, Quiet, DeleteSessionData, Cleanup,
           CompleteDeletion, DeletionThrows, IInv, TypeOK, PendingKept, ServedInv
  <1>3. LockKept
    <2>1. CASE BeginFence(p)
      <3> DEFINE d == AfterExpiredOwner(Db)
      <3>1. lock \in Lock /\ d \in DbType
        BY AfterExpiredOwnerSound DEF IInv, TypeOK, Sound, Good
      <3>2. d.lock = lock \/ ~OfTurn(d.lock)
        <4>1. CASE ~Expired(lock) \/ lock.kind = "session-deletion"
          BY <4>1 DEF AfterExpiredOwner, Db
        <4>2. CASE Expired(lock) /\ lock.kind = "maintenance-deleting"
          BY <3>1, <4>2, TurnLockForms DEF AfterExpiredOwner, Db
        <4>3. CASE Expired(lock)
                   /\ lock.kind \notin {"session-deletion", "maintenance-deleting"}
          BY <3>1, <4>3, TurnLockForms DEF AfterExpiredOwner, Db
        <4> QED
          BY <4>1, <4>2, <4>3
      <3>3. \/ Becomes([d EXCEPT !.lock = Fence(p)]) \/ Becomes(d)
            \/ /\ Becomes([d EXCEPT !.lock.kind = Deleting(d.lock.kind)])
               /\ d.lock.kind \in TurnKind \cup TurnDeleting \cup MaintKind
        BY <2>1, NothingPending DEF BeginFence
      <3> HIDE DEF d
      <3>4. CASE Becomes([d EXCEPT !.lock = Fence(p)]) \/ Becomes(d)
        BY <3>1, <3>2, <3>4, TurnLockForms DEF Becomes, DbType, LockKept
      <3>5. CASE /\ Becomes([d EXCEPT !.lock.kind = Deleting(d.lock.kind)])
                 /\ d.lock.kind \in TurnKind \cup TurnDeleting \cup MaintKind
        <4>1. /\ lock'.kind = Deleting(d.lock.kind)
              /\ lock'.owner = d.lock.owner /\ lock'.proc = d.lock.proc
          BY <3>1, <3>5 DEF Becomes, DbType, Lock
        <4>2. d.lock.kind \in MaintKind => Deleting(d.lock.kind) = "maintenance-deleting"
          BY DEF Deleting, MaintKind, TurnKind, TurnDeleting
        <4> QED
          BY <3>2, <3>5, <4>1, <4>2 DEF LockKept, OfTurn, TurnKind, TurnDeleting
      <3> QED
        BY <3>3, <3>4, <3>5
    <2>2. CASE lock' \in {lock, Free}
      BY <2>2, TurnLockForms DEF LockKept
    <2> QED
      BY <2>1, <2>2 DEF DeletionStep, BeginGate, Quiet, DeleteSessionData, Cleanup,
                        CompleteDeletion, DeletionThrows, database
  <1> QED
    BY <1>1, <1>2, <1>3, ServedKept

(* While no settlement fails for good, no receipt is left accepted by code *)
(* that is gone, whoever deletes the session or takes over its lock, with  *)
(* any number of Runtimes on the database.                                 *)
THEOREM AcceptedTurnsAreServed == ASSUME ~Faults PROVE Spec => []AcceptedTurnIsServed
  <1>1. Init => ServedInv
    BY TurnLockForms DEF Init, ServedInv, Served
  <1>2. IInv /\ ServedInv /\ [Next]_vars => ServedInv'
    <2> SUFFICES ASSUME IInv, ServedInv, [Next]_vars PROVE ServedInv'
      OBVIOUS
    <2>0. IInv'
      BY StepKeeps
    <2>1. CASE UNCHANGED vars
      BY <2>1 DEF vars, ServedInv, Served, AtWork
    <2>2. CASE Tick
      <3>1. /\ lock'.kind = lock.kind /\ lock'.owner = lock.owner
            /\ lock'.proc = lock.proc
        BY <2>2 DEF Tick, IInv, TypeOK, Lock
      <3>2. LockKept
        BY <3>1 DEF LockKept, OfTurn
      <3>3. WorkKept /\ ProcsKept /\ PendingKept
        BY <2>2 DEF Tick, memory, processes, WorkKept, AtWork, ProcsKept, PendingKept,
                    ServedInv
      <3> QED
        BY <2>0, <3>2, <3>3, ServedKept
    <2> QED
      BY <2>0, <2>1, <2>2, TurnStepServes, MaintStepServes, ProcStepServes,
         DeletionStepServes DEF Next
  <1>3. ServedInv => AcceptedTurnIsServed
    BY DEF ServedInv, Served, AtWork, AcceptedTurnIsServed
  <1> QED
    BY <1>1, <1>2, <1>3, LeaseInvariant, PTL DEF Spec
=============================================================================
