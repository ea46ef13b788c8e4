------------------------- MODULE SessionGateProofs -------------------------
(***************************************************************************)
(* Theorems about SessionGate, for any number of operations of every kind. *)
(*                                                                         *)
(* The gate, the lock row and the controller's entry each name an          *)
(* operation; the invariant says which phases of an operation that stands  *)
(* for.  A lease whose holder does not wait has nobody beside it, because  *)
(* the holder waits from the moment it takes the lease until the last      *)
(* permit is back, and no permit is given out meanwhile; a deletion that   *)
(* does not wait is alone for the same reason, and finds the lock its own. *)
(***************************************************************************)
EXTENDS SessionGate, TLAPS

(* The phases in which an operation has the session's lock row, and those  *)
(* in which its Turn is the one registered with the controller.            *)
Locking == {"admitted", "accepting", "starting", "running", "revoking",
            "failing", "locked"}
Registered == {"starting", "running", "settled"}

(* How far each kind of operation can come.                                *)
Plain == {"idle", "checking", "preparing", "admitted", "accepting", "starting",
          "running", "settled", "revoking", "failing", "done"}
Before == {"acquired", "waiting", "drained", "interrupting"}
Fencing == {"fenced", "locked", "unlocked"}
Maintaining == {"locked", "unlocked"}

PhasesFit ==
    /\ \A o \in Send \cup Compact \cup Trusted : pc[o] \in Plain
    /\ \A o \in Handoff : pc[o] \in Plain \cup Before
    /\ \A o \in Fence : pc[o] \in Fencing \cup {"idle", "done"}
    /\ \A o \in Upkeep : pc[o] \in Maintaining \cup {"idle", "done"}

(* A permit is held by exactly those that are between entering and leaving. *)
PermitsFit == \A o \in Op : o \in permits <=> Shared(o)

(* An interrupting send that lost its lease was stopped; a fence keeps its. *)
LeaseFit ==
    /\ \A h \in Handoff : mutation = h => Enrolled(h)
    /\ \A h \in Handoff : Enrolled(h) /\ h \notin stopped => mutation = h
    /\ \A f \in Fence : mutation = f <=> pc[f] \in Fencing

(* Who waits has somebody to wait for, and who needs the drain and does not *)
(* wait has seen it.                                                       *)
WaitsFit ==
    /\ sharedWait # {} => permits # {}
    /\ fullWait => ~Quiet
    /\ mutation # None /\ permits # {} => mutation \in sharedWait
    /\ deleting /\ ~fullWait => Quiet
    /\ \A h \in Handoff : mutation = h /\ pc[h] \in Inner => permits = {}

(* An operation has the lock, and its Turn is registered, in these phases.  *)
LockFit == \A o \in Op : lock.who = o <=> pc[o] \in Locking
EntryFit == \A o \in Op : entry = o <=> pc[o] \in Registered

(* The deletion has what it looked for, from the step that saw it.         *)
Drained == {"aborting", "reading", "disposing", "erasing", "cleaning",
            "completing", "lifting"}
DeletionFit ==
    /\ del \in Drained \cup {"draining"} => deleting
    /\ del \in Drained => Quiet
    /\ del \in {"disposing", "erasing", "cleaning"} => lock = DeletionFence /\ entry = None
    /\ del \in {"completing", "lifting"} => ~exists
    /\ ~exists => lock.who = None /\ entry = None

IInv == /\ TypeOK /\ PhasesFit /\ PermitsFit /\ LeaseFit /\ WaitsFit
        /\ LockFit /\ EntryFit /\ DeletionFit

----------------------------------------------------------------------------
(* What the steps of the gate keep.                                        *)

GateTyped ==
    /\ permits \subseteq Op /\ deleting \in BOOLEAN
    /\ mutation \in Handoff \cup Fence \cup {None}
    /\ sharedWait \subseteq Op /\ fullWait \in BOOLEAN

GateWaits ==
    /\ sharedWait # {} => permits # {}
    /\ fullWait => ~Quiet
    /\ mutation # None /\ permits # {} => mutation \in sharedWait
    /\ deleting /\ ~fullWait => Quiet

GateGood == GateTyped /\ GateWaits

(* An operation has one kind.                                              *)
LEMMA KindsApart ==
    ASSUME NEW o \in Op
    PROVE  /\ o # None
           /\ o \in Submission => o \notin Fence /\ o \notin Upkeep
           /\ o \in Fence => o \notin Submission /\ o \notin Upkeep
           /\ o \in Handoff => o \notin Send /\ o \notin Compact /\ o \notin Trusted
           /\ o \in Trusted => o \notin Send /\ o \notin Compact /\ o \notin Handoff
           /\ o \in Send => o \notin Compact /\ o \notin Trusted /\ o \notin Handoff
           /\ o \in Compact => o \notin Send /\ o \notin Trusted /\ o \notin Handoff
           /\ o \in Upkeep => o \notin Submission /\ o \notin Fence
  BY ConstantsAssumption DEF ConstantsAssumption, Op, Submission

(* The invariant says it of the state.                                     *)
LEMMA GateGoodNow == ASSUME IInv PROVE GateGood
  BY DEF IInv, TypeOK, WaitsFit, GateGood, GateTyped, GateWaits

(* One lemma for each operation of the gate.                               *)
LEMMA EnterGood ==
    ASSUME GateGood, NEW o \in Op, Enter(o)
    PROVE  GateGood' /\ ~deleting /\ mutation = None
  BY DEF Enter, Open, GateGood, GateTyped, GateWaits, Quiet

LEMMA LeaveGood ==
    ASSUME GateGood, NEW o \in Op, Leave(o)
    PROVE  GateGood'
  BY DEF Leave, Settled, GateGood, GateTyped, GateWaits, Quiet

LEMMA AcquireGood ==
    ASSUME GateGood, NEW o \in Handoff \cup Fence, AcquireExclusive(o)
    PROVE  GateGood' /\ ~deleting /\ mutation = None
  BY KindsApart DEF AcquireExclusive, Open, GateGood, GateTyped, GateWaits, Quiet, Op, Submission

LEMMA ReleaseGood ==
    ASSUME GateGood, NEW o \in Op, ReleaseExclusive(o)
    PROVE  GateGood'
  BY DEF ReleaseExclusive, Settled, GateGood, GateTyped, GateWaits, Quiet

LEMMA BlockGood ==
    ASSUME GateGood, Block
    PROVE  GateGood'
  BY DEF Block, GateGood, GateTyped, GateWaits, Quiet

LEMMA UnblockGood ==
    ASSUME GateGood, Unblock
    PROVE  /\ GateGood' /\ permits' = permits /\ mutation' = mutation
           /\ \/ Quiet /\ deleting' = FALSE /\ Gone("done")
              \/ ~Quiet /\ deleting' = deleting /\ Gone("failed")
  <1>1. CASE Quiet
    BY <1>1 DEF Unblock, Settled, GateGood, GateTyped, GateWaits, Quiet
  <1>2. CASE ~Quiet
    BY <1>2 DEF Unblock, GateGood, GateTyped, GateWaits, Quiet
  <1> QED
    BY <1>1, <1>2

LEMMA GiveBackGood ==
    ASSUME GateGood, NEW o \in Submission, GiveBack(o)
    PROVE  /\ GateGood'
           /\ permits' = IF o \in Send \cup Compact THEN permits \ {o} ELSE permits
           /\ mutation' = IF o \in Handoff /\ mutation = o THEN None ELSE mutation
           /\ deleting' = deleting
  <1> USE DEF Op, Submission
  <1>1. CASE o \in Send \cup Compact
    BY <1>1, LeaveGood, KindsApart DEF GiveBack, Leave
  <1>2. CASE o \in Handoff
    BY <1>2, ReleaseGood, KindsApart DEF GiveBack, ReleaseExclusive
  <1>3. CASE o \in Trusted
    BY <1>3, KindsApart DEF GiveBack, gate, GateGood, GateTyped, GateWaits, Quiet
  <1> QED
    BY <1>1, <1>2, <1>3

LEMMA GateStays ==
    ASSUME GateGood, UNCHANGED gate
    PROVE  GateGood'
  BY DEF gate, GateGood, GateTyped, GateWaits, Quiet

(* The values of the lock row.                                             *)
LEMMA LocksTyped ==
    /\ Free \in [who : Op \cup {None}, deleting : BOOLEAN]
    /\ DeletionFence \in [who : Op \cup {None}, deleting : BOOLEAN]
    /\ \A o \in Op : Held(o) \in [who : Op \cup {None}, deleting : BOOLEAN]
    /\ \A l \in [who : Op \cup {None}, deleting : BOOLEAN] :
           [l EXCEPT !.deleting = TRUE] \in [who : Op \cup {None}, deleting : BOOLEAN]
  BY DEF Free, DeletionFence, Held

----------------------------------------------------------------------------
(* Submissions.                                                            *)

LEMMA StartSafe ==
    ASSUME IInv, NEW o \in Send \cup Compact \cup Trusted, Start(o)
    PROVE  IInv'
  <1> USE KindsApart
       DEF Start, gate, Goes, Enter, Open, Keeps, database, Rest, Submission,
       Op
  <1>1. GateGood /\ GateGood'
    BY EnterGood, GateGoodNow, GateStays
  <1>2. TypeOK'
    BY <1>1, SMTT(20)
       DEF IInv, TypeOK, GateGood, GateTyped, Phase, Step
  <1>3. PhasesFit'
    BY <1>1, SMTT(20)
       DEF IInv, TypeOK, PhasesFit, Plain, Before, Fencing, Maintaining
  <1>4. PermitsFit' /\ LeaseFit'
    BY <1>1, SMTT(20)
       DEF IInv, TypeOK, GateGood, GateTyped, PermitsFit, Shared, PhasesFit,
       Plain, Before, Fencing, LeaseFit, Enrolled, Maintaining
  <1>5. WaitsFit'
    BY <1>1, SMTT(20)
       DEF IInv, TypeOK, GateGood, GateWaits, WaitsFit, Inner, Quiet,
       LeaseFit, Enrolled, PermitsFit, Shared
  <1>6. LockFit' /\ EntryFit' /\ DeletionFit'
    BY <1>1, SMTT(20)
       DEF IInv, TypeOK, LockFit, Locking, EntryFit, Registered, DeletionFit,
       Drained, Quiet, GateGood, GateTyped, PermitsFit, Shared, LeaseFit,
       Enrolled, Fencing, DeletionFence
  <1> QED
    BY <1>2, <1>3, <1>4, <1>5, <1>6 DEF IInv

LEMMA CheckSafe ==
    ASSUME IInv, NEW o \in Submission, Check(o)
    PROVE  IInv'
  <1> USE GiveBackGood, KindsApart
       DEF Check, Unavailable, Answer, Goes, Back, Moves, gate, Keeps,
       database, Rest, Submission, Op
  <1>1. GateGood /\ GateGood'
    BY GateGoodNow, GateStays
  <1>2. TypeOK'
    BY <1>1, SMTT(20)
       DEF IInv, TypeOK, GateGood, GateTyped, Phase, Step
  <1>3. PhasesFit'
    BY <1>1, SMTT(20)
       DEF IInv, TypeOK, PhasesFit, Plain, Before, Fencing, Maintaining
  <1>4. PermitsFit' /\ LeaseFit'
    BY <1>1, SMTT(20)
       DEF IInv, TypeOK, GateGood, GateTyped, PermitsFit, Shared, PhasesFit,
       Plain, Before, Fencing, LeaseFit, Enrolled, Maintaining
  <1>5. WaitsFit'
    BY <1>1, SMTT(20)
       DEF IInv, TypeOK, GateGood, GateWaits, WaitsFit, Inner, Quiet,
       LeaseFit, Enrolled, PermitsFit, Shared
  <1>6. LockFit' /\ EntryFit' /\ DeletionFit'
    BY <1>1, SMTT(20)
       DEF IInv, TypeOK, LockFit, Locking, EntryFit, Registered, DeletionFit,
       Drained, Quiet, GateGood, GateTyped, PermitsFit, Shared, LeaseFit,
       Enrolled, Fencing, DeletionFence
  <1> QED
    BY <1>2, <1>3, <1>4, <1>5, <1>6 DEF IInv

LEMMA RefuseSafe ==
    ASSUME IInv, NEW o \in Submission, Refuse(o)
    PROVE  IInv'
  <1> USE GiveBackGood, KindsApart
       DEF Refuse, Answer, Goes, Back, Keeps, database, Rest, Submission, Op
  <1>1. GateGood /\ GateGood'
    BY GateGoodNow, GateStays
  <1>2. TypeOK'
    BY <1>1, SMTT(20)
       DEF IInv, TypeOK, GateGood, GateTyped, Phase, Step
  <1>3. PhasesFit'
    BY <1>1, SMTT(20)
       DEF IInv, TypeOK, PhasesFit, Plain, Before, Fencing, Maintaining
  <1>4. PermitsFit' /\ LeaseFit'
    BY <1>1, SMTT(20)
       DEF IInv, TypeOK, GateGood, GateTyped, PermitsFit, Shared, PhasesFit,
       Plain, Before, Fencing, LeaseFit, Enrolled, Maintaining
  <1>5. WaitsFit'
    BY <1>1, SMTT(20)
       DEF IInv, TypeOK, GateGood, GateWaits, WaitsFit, Inner, Quiet,
       LeaseFit, Enrolled, PermitsFit, Shared
  <1>6. LockFit' /\ EntryFit' /\ DeletionFit'
    BY <1>1, SMTT(20)
       DEF IInv, TypeOK, LockFit, Locking, EntryFit, Registered, DeletionFit,
       Drained, Quiet, GateGood, GateTyped, PermitsFit, Shared, LeaseFit,
       Enrolled, Fencing, DeletionFence
  <1> QED
    BY <1>2, <1>3, <1>4, <1>5, <1>6 DEF IInv

LEMMA CommitSafe ==
    ASSUME IInv, NEW o \in Submission, Commit(o)
    PROVE  IInv'
  <1> USE GiveBackGood, KindsApart
       DEF Commit, Moves, Goes, gate, Fault, GivesUp, Back, database, Rest,
       Submission, Op
  <1>1. GateGood /\ GateGood'
    BY GateGoodNow, GateStays
  <1>2. TypeOK'
    BY <1>1, SMTT(20)
       DEF IInv, TypeOK, GateGood, GateTyped, Phase, Step
  <1>3. PhasesFit'
    BY <1>1, SMTT(20)
       DEF IInv, TypeOK, PhasesFit, Plain, Before, Fencing, Maintaining
  <1>4. PermitsFit' /\ LeaseFit'
    BY <1>1, SMTT(20)
       DEF IInv, TypeOK, GateGood, GateTyped, PermitsFit, Shared, PhasesFit,
       Plain, Before, Fencing, LeaseFit, Enrolled, Maintaining
  <1>5. WaitsFit'
    BY <1>1, SMTT(20)
       DEF IInv, TypeOK, GateGood, GateWaits, WaitsFit, Inner, Quiet,
       LeaseFit, Enrolled, PermitsFit, Shared
  <1>6. LockFit' /\ EntryFit' /\ DeletionFit'
    BY <1>1, SMTT(20)
       DEF IInv, TypeOK, LockFit, Locking, EntryFit, Registered, DeletionFit,
       Drained, Quiet, GateGood, GateTyped, PermitsFit, Shared, LeaseFit,
       Enrolled, Fencing, DeletionFence
  <1> QED
    BY <1>2, <1>3, <1>4, <1>5, <1>6 DEF IInv

LEMMA RegisterSafe ==
    ASSUME IInv, NEW o \in Submission, Register(o)
    PROVE  IInv'
  <1> USE GiveBackGood, KindsApart
       DEF Register, Moves, Goes, gate, GivesUp, Back, database, Rest,
       Submission, Op
  <1>1. GateGood /\ GateGood'
    BY GateGoodNow, GateStays
  <1>2. TypeOK'
    BY <1>1, SMTT(20)
       DEF IInv, TypeOK, GateGood, GateTyped, Phase, Step
  <1>3. PhasesFit'
    BY <1>1, SMTT(20)
       DEF IInv, TypeOK, PhasesFit, Plain, Before, Fencing, Maintaining
  <1>4. PermitsFit' /\ LeaseFit'
    BY <1>1, SMTT(20)
       DEF IInv, TypeOK, GateGood, GateTyped, PermitsFit, Shared, PhasesFit,
       Plain, Before, Fencing, LeaseFit, Enrolled, Maintaining
  <1>5. WaitsFit'
    BY <1>1, SMTT(20)
       DEF IInv, TypeOK, GateGood, GateWaits, WaitsFit, Inner, Quiet,
       LeaseFit, Enrolled, PermitsFit, Shared
  <1>6. LockFit' /\ EntryFit' /\ DeletionFit'
    BY <1>1, SMTT(20)
       DEF IInv, TypeOK, LockFit, Locking, EntryFit, Registered, DeletionFit,
       Drained, Quiet, GateGood, GateTyped, PermitsFit, Shared, LeaseFit,
       Enrolled, Fencing, DeletionFence
  <1> QED
    BY <1>2, <1>3, <1>4, <1>5, <1>6 DEF IInv

LEMMA RevokeSafe ==
    ASSUME IInv, NEW o \in Submission, Revoke(o)
    PROVE  IInv'
  <1> USE GiveBackGood, KindsApart
       DEF Revoke, Answer, Goes, Back, GivesUp, Fault, Rest, Submission, Op
  <1>1. GateGood /\ GateGood'
    BY GateGoodNow, GateStays
  <1>2. TypeOK'
    BY <1>1, LocksTyped, SMTT(20)
       DEF IInv, TypeOK, GateGood, GateTyped, Phase, Step
  <1>3. PhasesFit'
    BY <1>1, SMTT(20)
       DEF IInv, TypeOK, PhasesFit, Plain, Before, Fencing, Maintaining
  <1>4. PermitsFit' /\ LeaseFit'
    BY <1>1, SMTT(20)
       DEF IInv, TypeOK, GateGood, GateTyped, PermitsFit, Shared, PhasesFit,
       Plain, Before, Fencing, Held, Free, LeaseFit, Enrolled, Maintaining
  <1>5. WaitsFit'
    BY <1>1, SMTT(20)
       DEF IInv, TypeOK, GateGood, GateWaits, WaitsFit, Inner, Quiet,
       LeaseFit, Enrolled, PermitsFit, Shared
  <1>6. LockFit' /\ EntryFit' /\ DeletionFit'
    BY <1>1, SMTT(20)
       DEF IInv, TypeOK, LockFit, Locking, Held, Free, EntryFit, Registered,
       DeletionFit, Drained, Quiet, GateGood, GateTyped, PermitsFit, Shared,
       LeaseFit, Enrolled, Fencing, DeletionFence
  <1> QED
    BY <1>2, <1>3, <1>4, <1>5, <1>6 DEF IInv

LEMMA ReturnSafe ==
    ASSUME IInv, NEW o \in Submission, Return(o)
    PROVE  IInv'
  <1> USE GiveBackGood, KindsApart
       DEF Return, Goes, Back, Keeps, database, Rest, Submission, Op
  <1>1. GateGood /\ GateGood'
    BY GateGoodNow, GateStays
  <1>2. TypeOK'
    BY <1>1, SMTT(20)
       DEF IInv, TypeOK, GateGood, GateTyped, Phase, Step
  <1>3. PhasesFit'
    BY <1>1, SMTT(20)
       DEF IInv, TypeOK, PhasesFit, Plain, Before, Fencing, Maintaining
  <1>4. PermitsFit' /\ LeaseFit'
    BY <1>1, SMTT(20)
       DEF IInv, TypeOK, GateGood, GateTyped, PermitsFit, Shared, PhasesFit,
       Plain, Before, Fencing, LeaseFit, Enrolled, Maintaining
  <1>5. WaitsFit'
    BY <1>1, SMTT(20)
       DEF IInv, TypeOK, GateGood, GateWaits, WaitsFit, Inner, Quiet,
       LeaseFit, Enrolled, PermitsFit, Shared
  <1>6. LockFit' /\ EntryFit' /\ DeletionFit'
    BY <1>1, SMTT(20)
       DEF IInv, TypeOK, LockFit, Locking, EntryFit, Registered, DeletionFit,
       Drained, Quiet, GateGood, GateTyped, PermitsFit, Shared, LeaseFit,
       Enrolled, Fencing, DeletionFence
  <1> QED
    BY <1>2, <1>3, <1>4, <1>5, <1>6 DEF IInv

LEMMA AdmitSafe ==
    ASSUME IInv, NEW o \in Submission, Admit(o)
    PROVE  IInv'
  <1> USE KindsApart
       DEF Admit, Lockable, Moves, Goes, gate, KeepsButLock, Rest, Submission,
       Op
  <1>1. GateGood /\ GateGood'
    BY GateGoodNow, GateStays
  <1>2. TypeOK'
    BY <1>1, LocksTyped, SMTT(20)
       DEF IInv, TypeOK, GateGood, GateTyped, Phase, Step
  <1>3. PhasesFit' /\ PermitsFit' /\ LeaseFit'
    BY <1>1, SMTT(20)
       DEF IInv, TypeOK, PhasesFit, Plain, Before, Fencing, Maintaining,
       GateGood, GateTyped, PermitsFit, Shared, Free, Held, LeaseFit, Enrolled
  <1>4. WaitsFit'
    BY <1>1, SMTT(20)
       DEF IInv, TypeOK, GateGood, GateWaits, WaitsFit, Inner, Quiet,
       LeaseFit, Enrolled, PermitsFit, Shared
  <1>5. LockFit' /\ EntryFit' /\ DeletionFit'
    BY <1>1, SMTT(20)
       DEF IInv, TypeOK, LockFit, Locking, Free, Held, EntryFit, Registered,
       DeletionFit, Drained, Quiet, GateGood, GateTyped, PermitsFit, Shared,
       LeaseFit, Enrolled, Fencing, DeletionFence
  <1> QED
    BY <1>2, <1>3, <1>4, <1>5 DEF IInv

LEMMA NotAcceptedSafe ==
    ASSUME IInv, NEW o \in Submission, NotAccepted(o)
    PROVE  IInv'
  <1> USE KindsApart
       DEF NotAccepted, Fault, Moves, Goes, gate, database, Rest, Submission,
       Op
  <1>1. GateGood /\ GateGood'
    BY GateGoodNow, GateStays
  <1>2. TypeOK'
    BY <1>1, SMTT(20)
       DEF IInv, TypeOK, GateGood, GateTyped, Phase, Step
  <1>3. PhasesFit' /\ PermitsFit' /\ LeaseFit'
    BY <1>1, SMTT(20)
       DEF IInv, TypeOK, PhasesFit, Plain, Before, Fencing, Maintaining,
       GateGood, GateTyped, PermitsFit, Shared, LeaseFit, Enrolled
  <1>4. WaitsFit'
    BY <1>1, SMTT(20)
       DEF IInv, TypeOK, GateGood, GateWaits, WaitsFit, Inner, Quiet,
       LeaseFit, Enrolled, PermitsFit, Shared
  <1>5. LockFit' /\ EntryFit' /\ DeletionFit'
    BY <1>1, SMTT(20)
       DEF IInv, TypeOK, LockFit, Locking, EntryFit, Registered, DeletionFit,
       Drained, Quiet, GateGood, GateTyped, PermitsFit, Shared, LeaseFit,
       Enrolled, Fencing, DeletionFence
  <1> QED
    BY <1>2, <1>3, <1>4, <1>5 DEF IInv

LEMMA FailAdmissionSafe ==
    ASSUME IInv, NEW o \in Submission, FailAdmission(o)
    PROVE  IInv'
  <1> USE KindsApart
       DEF FailAdmission, Unlocked, Moves, Goes, gate, KeepsButLock, Rest,
       Submission, Op
  <1>1. GateGood /\ GateGood'
    BY GateGoodNow, GateStays
  <1>2. TypeOK'
    BY <1>1, LocksTyped, SMTT(20)
       DEF IInv, TypeOK, GateGood, GateTyped, Phase, Step
  <1>3. PhasesFit' /\ PermitsFit' /\ LeaseFit'
    BY <1>1, SMTT(20)
       DEF IInv, TypeOK, PhasesFit, Plain, Before, Fencing, Maintaining,
       GateGood, GateTyped, PermitsFit, Shared, DeletionFence, Free, LeaseFit,
       Enrolled
  <1>4. WaitsFit'
    BY <1>1, SMTT(20)
       DEF IInv, TypeOK, GateGood, GateWaits, WaitsFit, Inner, Quiet,
       LeaseFit, Enrolled, PermitsFit, Shared
  <1>5. LockFit' /\ EntryFit' /\ DeletionFit'
    BY <1>1, SMTT(20)
       DEF IInv, TypeOK, LockFit, Locking, DeletionFence, Free, EntryFit,
       Registered, DeletionFit, Drained, Quiet, GateGood, GateTyped,
       PermitsFit, Shared, LeaseFit, Enrolled, Fencing
  <1> QED
    BY <1>2, <1>3, <1>4, <1>5 DEF IInv

LEMMA SettleTurnSafe ==
    ASSUME IInv, NEW o \in Submission, SettleTurn(o)
    PROVE  IInv'
  <1> USE KindsApart
       DEF SettleTurn, Unlocked, Moves, Goes, gate, KeepsButLock, Rest,
       Submission, Op
  <1>1. GateGood /\ GateGood'
    BY GateGoodNow, GateStays
  <1>2. TypeOK'
    BY <1>1, LocksTyped, SMTT(20)
       DEF IInv, TypeOK, GateGood, GateTyped, Phase, Step
  <1>3. PhasesFit' /\ PermitsFit' /\ LeaseFit'
    BY <1>1, SMTT(20)
       DEF IInv, TypeOK, PhasesFit, Plain, Before, Fencing, Maintaining,
       GateGood, GateTyped, PermitsFit, Shared, DeletionFence, Free, LeaseFit,
       Enrolled
  <1>4. WaitsFit'
    BY <1>1, SMTT(20)
       DEF IInv, TypeOK, GateGood, GateWaits, WaitsFit, Inner, Quiet,
       LeaseFit, Enrolled, PermitsFit, Shared
  <1>5. LockFit' /\ EntryFit' /\ DeletionFit'
    BY <1>1, SMTT(20)
       DEF IInv, TypeOK, LockFit, Locking, DeletionFence, Free, EntryFit,
       Registered, DeletionFit, Drained, Quiet, GateGood, GateTyped,
       PermitsFit, Shared, LeaseFit, Enrolled, Fencing
  <1> QED
    BY <1>2, <1>3, <1>4, <1>5 DEF IInv

LEMMA CompleteTurnSafe ==
    ASSUME IInv, NEW o \in Submission, CompleteTurn(o)
    PROVE  IInv'
  <1> USE KindsApart
       DEF CompleteTurn, Moves, Goes, gate, database, Rest, Submission, Op
  <1>1. GateGood /\ GateGood'
    BY GateGoodNow, GateStays
  <1>2. TypeOK'
    BY <1>1, SMTT(20)
       DEF IInv, TypeOK, GateGood, GateTyped, Phase, Step
  <1>3. PhasesFit' /\ PermitsFit' /\ LeaseFit'
    BY <1>1, SMTT(20)
       DEF IInv, TypeOK, PhasesFit, Plain, Before, Fencing, Maintaining,
       GateGood, GateTyped, PermitsFit, Shared, LeaseFit, Enrolled
  <1>4. WaitsFit'
    BY <1>1, SMTT(20)
       DEF IInv, TypeOK, GateGood, GateWaits, WaitsFit, Inner, Quiet,
       LeaseFit, Enrolled, PermitsFit, Shared
  <1>5. LockFit' /\ EntryFit' /\ DeletionFit'
    BY <1>1, SMTT(20)
       DEF IInv, TypeOK, LockFit, Locking, EntryFit, Registered, DeletionFit,
       Drained, Quiet, GateGood, GateTyped, PermitsFit, Shared, LeaseFit,
       Enrolled, Fencing, DeletionFence
  <1> QED
    BY <1>2, <1>3, <1>4, <1>5 DEF IInv

----------------------------------------------------------------------------
(* Interrupting sends.                                                     *)

LEMMA HandoffStartSafe ==
    ASSUME IInv, NEW h \in Handoff, HandoffStart(h)
    PROVE  IInv'
  <1> USE KindsApart
       DEF HandoffStart, AcquireExclusive, Open, Goes, gate, Keeps, database,
       Rest, Submission, Op
  <1>1. GateGood /\ GateGood'
    BY AcquireGood, GateGoodNow, GateStays
  <1>2. TypeOK'
    BY <1>1, SMTT(20)
       DEF IInv, TypeOK, GateGood, GateTyped, Phase, Step
  <1>3. PhasesFit'
    BY <1>1, SMTT(20)
       DEF IInv, TypeOK, PhasesFit, Plain, Before, Fencing, Maintaining
  <1>4. PermitsFit' /\ LeaseFit'
    BY <1>1, SMTT(20)
       DEF IInv, TypeOK, GateGood, GateTyped, PermitsFit, Shared, PhasesFit,
       Plain, Before, Fencing, LeaseFit, Enrolled, Maintaining
  <1>5. WaitsFit'
    BY <1>1, SMTT(20)
       DEF IInv, TypeOK, GateGood, GateWaits, WaitsFit, Inner, Quiet,
       LeaseFit, Enrolled, PermitsFit, Shared
  <1>6. LockFit' /\ EntryFit' /\ DeletionFit'
    BY <1>1, SMTT(20)
       DEF IInv, TypeOK, LockFit, Locking, EntryFit, Registered, DeletionFit,
       Drained, Quiet, GateGood, GateTyped, PermitsFit, Shared, LeaseFit,
       Enrolled, Fencing, DeletionFence
  <1> QED
    BY <1>2, <1>3, <1>4, <1>5, <1>6 DEF IInv

LEMMA HandoffCheckSafe ==
    ASSUME IInv, NEW h \in Handoff, HandoffCheck(h)
    PROVE  IInv'
  <1> USE GiveBackGood, KindsApart
       DEF HandoffCheck, Unavailable, Answer, Goes, Back, Moves, gate, Keeps,
       database, Rest, Submission, Op
  <1>1. GateGood /\ GateGood'
    BY GateGoodNow, GateStays
  <1>2. TypeOK'
    BY <1>1, SMTT(20)
       DEF IInv, TypeOK, GateGood, GateTyped, Phase, Step
  <1>3. PhasesFit'
    BY <1>1, SMTT(20)
       DEF IInv, TypeOK, PhasesFit, Plain, Before, Fencing, Maintaining
  <1>4. PermitsFit' /\ LeaseFit'
    BY <1>1, SMTT(20)
       DEF IInv, TypeOK, GateGood, GateTyped, PermitsFit, Shared, PhasesFit,
       Plain, Before, Fencing, LeaseFit, Enrolled, Maintaining
  <1>5. WaitsFit'
    BY <1>1, SMTT(20)
       DEF IInv, TypeOK, GateGood, GateWaits, WaitsFit, Inner, Quiet,
       LeaseFit, Enrolled, PermitsFit, Shared
  <1>6. LockFit' /\ EntryFit' /\ DeletionFit'
    BY <1>1, SMTT(20)
       DEF IInv, TypeOK, LockFit, Locking, EntryFit, Registered, DeletionFit,
       Drained, Quiet, GateGood, GateTyped, PermitsFit, Shared, LeaseFit,
       Enrolled, Fencing, DeletionFence
  <1> QED
    BY <1>2, <1>3, <1>4, <1>5, <1>6 DEF IInv

LEMMA HandoffDrainedSafe ==
    ASSUME IInv, NEW h \in Handoff, HandoffDrained(h)
    PROVE  IInv'
  <1> USE GiveBackGood, KindsApart
       DEF HandoffDrained, Answer, Goes, Back, Moves, gate, Keeps, database,
       Rest, Submission, Op
  <1>1. GateGood /\ GateGood'
    BY GateGoodNow, GateStays
  <1>2. TypeOK'
    BY <1>1, SMTT(20)
       DEF IInv, TypeOK, GateGood, GateTyped, Phase, Step
  <1>3. PhasesFit'
    BY <1>1, SMTT(20)
       DEF IInv, TypeOK, PhasesFit, Plain, Before, Fencing, Maintaining
  <1>4. PermitsFit' /\ LeaseFit'
    BY <1>1, SMTT(20)
       DEF IInv, TypeOK, GateGood, GateTyped, PermitsFit, Shared, PhasesFit,
       Plain, Before, Fencing, LeaseFit, Enrolled, Maintaining
  <1>5. WaitsFit'
    BY <1>1, SMTT(20)
       DEF IInv, TypeOK, GateGood, GateWaits, WaitsFit, Inner, Quiet,
       LeaseFit, Enrolled, PermitsFit, Shared
  <1>6. LockFit' /\ EntryFit' /\ DeletionFit'
    BY <1>1, SMTT(20)
       DEF IInv, TypeOK, LockFit, Locking, EntryFit, Registered, DeletionFit,
       Drained, Quiet, GateGood, GateTyped, PermitsFit, Shared, LeaseFit,
       Enrolled, Fencing, DeletionFence
  <1> QED
    BY <1>2, <1>3, <1>4, <1>5, <1>6 DEF IInv

LEMMA HandoffTimeoutSafe ==
    ASSUME IInv, NEW h \in Handoff, HandoffTimeout(h)
    PROVE  IInv'
  <1> USE GiveBackGood, KindsApart
       DEF HandoffTimeout, Answer, Goes, Back, Keeps, database, Rest,
       Submission, Op
  <1>1. GateGood /\ GateGood'
    BY GateGoodNow, GateStays
  <1>2. TypeOK'
    BY <1>1, SMTT(20)
       DEF IInv, TypeOK, GateGood, GateTyped, Phase, Step
  <1>3. PhasesFit'
    BY <1>1, SMTT(20)
       DEF IInv, TypeOK, PhasesFit, Plain, Before, Fencing, Maintaining
  <1>4. PermitsFit' /\ LeaseFit'
    BY <1>1, SMTT(20)
       DEF IInv, TypeOK, GateGood, GateTyped, PermitsFit, Shared, PhasesFit,
       Plain, Before, Fencing, LeaseFit, Enrolled, Maintaining
  <1>5. WaitsFit'
    BY <1>1, SMTT(20)
       DEF IInv, TypeOK, GateGood, GateWaits, WaitsFit, Inner, Quiet,
       LeaseFit, Enrolled, PermitsFit, Shared
  <1>6. LockFit' /\ EntryFit' /\ DeletionFit'
    BY <1>1, SMTT(20)
       DEF IInv, TypeOK, LockFit, Locking, EntryFit, Registered, DeletionFit,
       Drained, Quiet, GateGood, GateTyped, PermitsFit, Shared, LeaseFit,
       Enrolled, Fencing, DeletionFence
  <1> QED
    BY <1>2, <1>3, <1>4, <1>5, <1>6 DEF IInv

LEMMA HandoffInterruptSafe ==
    ASSUME IInv, NEW h \in Handoff, HandoffInterrupt(h)
    PROVE  IInv'
  <1> USE GiveBackGood, KindsApart
       DEF HandoffInterrupt, Answer, Goes, Back, Moves, gate, Keeps, database,
       Rest, Submission, Op
  <1>1. GateGood /\ GateGood'
    BY GateGoodNow, GateStays
  <1>2. TypeOK'
    BY <1>1, SMTT(20)
       DEF IInv, TypeOK, GateGood, GateTyped, Phase, Step
  <1>3. PhasesFit'
    BY <1>1, SMTT(20)
       DEF IInv, TypeOK, PhasesFit, Plain, Before, Fencing, Maintaining
  <1>4. PermitsFit' /\ LeaseFit'
    BY <1>1, SMTT(20)
       DEF IInv, TypeOK, GateGood, GateTyped, PermitsFit, Shared, PhasesFit,
       Plain, Before, Fencing, LeaseFit, Enrolled, Maintaining
  <1>5. WaitsFit'
    BY <1>1, SMTT(20)
       DEF IInv, TypeOK, GateGood, GateWaits, WaitsFit, Inner, Quiet,
       LeaseFit, Enrolled, PermitsFit, Shared
  <1>6. LockFit' /\ EntryFit' /\ DeletionFit'
    BY <1>1, SMTT(20)
       DEF IInv, TypeOK, LockFit, Locking, EntryFit, Registered, DeletionFit,
       Drained, Quiet, GateGood, GateTyped, PermitsFit, Shared, LeaseFit,
       Enrolled, Fencing, DeletionFence
  <1> QED
    BY <1>2, <1>3, <1>4, <1>5, <1>6 DEF IInv

LEMMA HandoffInterruptedSafe ==
    ASSUME IInv, NEW h \in Handoff, HandoffInterrupted(h)
    PROVE  IInv'
  <1> USE GiveBackGood, KindsApart
       DEF HandoffInterrupted, Answer, Goes, Back, Moves, gate, Keeps,
       database, Rest, Submission, Op
  <1>1. GateGood /\ GateGood'
    BY GateGoodNow, GateStays
  <1>2. TypeOK'
    BY <1>1, SMTT(20)
       DEF IInv, TypeOK, GateGood, GateTyped, Phase, Step
  <1>3. PhasesFit'
    BY <1>1, SMTT(20)
       DEF IInv, TypeOK, PhasesFit, Plain, Before, Fencing, Maintaining
  <1>4. PermitsFit' /\ LeaseFit'
    BY <1>1, SMTT(20)
       DEF IInv, TypeOK, GateGood, GateTyped, PermitsFit, Shared, PhasesFit,
       Plain, Before, Fencing, LeaseFit, Enrolled, Maintaining
  <1>5. WaitsFit'
    BY <1>1, SMTT(20)
       DEF IInv, TypeOK, GateGood, GateWaits, WaitsFit, Inner, Quiet,
       LeaseFit, Enrolled, PermitsFit, Shared
  <1>6. LockFit' /\ EntryFit' /\ DeletionFit'
    BY <1>1, SMTT(20)
       DEF IInv, TypeOK, LockFit, Locking, EntryFit, Registered, DeletionFit,
       Drained, Quiet, GateGood, GateTyped, PermitsFit, Shared, LeaseFit,
       Enrolled, Fencing, DeletionFence
  <1> QED
    BY <1>2, <1>3, <1>4, <1>5, <1>6 DEF IInv

----------------------------------------------------------------------------
(* Lifecycle operations, maintenance and the user's stop.                  *)

LEMMA FenceStartSafe ==
    ASSUME IInv, NEW f \in Fence, FenceStart(f)
    PROVE  IInv'
  <1> USE KindsApart
       DEF FenceStart, AcquireExclusive, Open, Goes, gate, Keeps, database,
       Rest, Submission, Op
  <1>1. GateGood /\ GateGood'
    BY AcquireGood, GateGoodNow, GateStays
  <1>2. TypeOK'
    BY <1>1, SMTT(20)
       DEF IInv, TypeOK, GateGood, GateTyped, Phase, Step
  <1>3. PhasesFit'
    BY <1>1, SMTT(20)
       DEF IInv, TypeOK, PhasesFit, Plain, Before, Fencing, Maintaining
  <1>4. PermitsFit' /\ LeaseFit'
    BY <1>1, SMTT(20)
       DEF IInv, TypeOK, GateGood, GateTyped, PermitsFit, Shared, PhasesFit,
       Plain, Before, Fencing, LeaseFit, Enrolled, Maintaining
  <1>5. WaitsFit'
    BY <1>1, SMTT(20)
       DEF IInv, TypeOK, GateGood, GateWaits, WaitsFit, Inner, Quiet,
       LeaseFit, Enrolled, PermitsFit, Shared
  <1>6. LockFit' /\ EntryFit' /\ DeletionFit'
    BY <1>1, SMTT(20)
       DEF IInv, TypeOK, LockFit, Locking, EntryFit, Registered, DeletionFit,
       Drained, Quiet, GateGood, GateTyped, PermitsFit, Shared, LeaseFit,
       Enrolled, Fencing, DeletionFence
  <1> QED
    BY <1>2, <1>3, <1>4, <1>5, <1>6 DEF IInv

LEMMA FenceLockSafe ==
    ASSUME IInv, NEW f \in Fence, FenceLock(f)
    PROVE  IInv'
  <1> USE KindsApart
       DEF FenceLock, Lockable, Moves, Goes, gate, KeepsButLock, Rest,
       Submission, Op
  <1>1. GateGood /\ GateGood'
    BY GateGoodNow, GateStays
  <1>2. TypeOK'
    BY <1>1, LocksTyped, SMTT(20)
       DEF IInv, TypeOK, GateGood, GateTyped, Phase, Step
  <1>3. PhasesFit' /\ PermitsFit' /\ LeaseFit'
    BY <1>1, SMTT(20)
       DEF IInv, TypeOK, PhasesFit, Plain, Before, Fencing, Maintaining,
       GateGood, GateTyped, PermitsFit, Shared, Free, Held, LeaseFit, Enrolled
  <1>4. WaitsFit'
    BY <1>1, SMTT(20)
       DEF IInv, TypeOK, GateGood, GateWaits, WaitsFit, Inner, Quiet,
       LeaseFit, Enrolled, PermitsFit, Shared
  <1>5. LockFit' /\ EntryFit' /\ DeletionFit'
    BY <1>1, SMTT(20)
       DEF IInv, TypeOK, LockFit, Locking, Free, Held, EntryFit, Registered,
       DeletionFit, Drained, Quiet, GateGood, GateTyped, PermitsFit, Shared,
       LeaseFit, Enrolled, Fencing, DeletionFence
  <1> QED
    BY <1>2, <1>3, <1>4, <1>5 DEF IInv

LEMMA UpkeepStartSafe ==
    ASSUME IInv, NEW u \in Upkeep, UpkeepStart(u)
    PROVE  IInv'
  <1> USE KindsApart
       DEF UpkeepStart, Open, Lockable, Enter, Goes, gate, KeepsButLock, Rest,
       Submission, Op
  <1>1. GateGood /\ GateGood'
    BY EnterGood, GateGoodNow, GateStays
  <1>2. TypeOK'
    BY <1>1, LocksTyped, SMTT(20)
       DEF IInv, TypeOK, GateGood, GateTyped, Phase, Step
  <1>3. PhasesFit'
    BY <1>1, SMTT(20)
       DEF IInv, TypeOK, PhasesFit, Plain, Before, Fencing, Maintaining
  <1>4. PermitsFit' /\ LeaseFit'
    BY <1>1, SMTT(20)
       DEF IInv, TypeOK, GateGood, GateTyped, PermitsFit, Shared, PhasesFit,
       Plain, Before, Fencing, Free, Held, LeaseFit, Enrolled, Maintaining
  <1>5. WaitsFit'
    BY <1>1, SMTT(20)
       DEF IInv, TypeOK, GateGood, GateWaits, WaitsFit, Inner, Quiet,
       LeaseFit, Enrolled, PermitsFit, Shared
  <1>6. LockFit' /\ EntryFit' /\ DeletionFit'
    BY <1>1, SMTT(20)
       DEF IInv, TypeOK, LockFit, Locking, Free, Held, EntryFit, Registered,
       DeletionFit, Drained, Quiet, GateGood, GateTyped, PermitsFit, Shared,
       LeaseFit, Enrolled, Fencing, DeletionFence
  <1> QED
    BY <1>2, <1>3, <1>4, <1>5, <1>6 DEF IInv

LEMMA MaintenanceEndsSafe ==
    ASSUME IInv, NEW o \in Fence \cup Upkeep, MaintenanceEnds(o)
    PROVE  IInv'
  <1> USE KindsApart
       DEF MaintenanceEnds, Unlocked, Moves, Goes, gate, KeepsButLock, Rest,
       Submission, Op
  <1>1. GateGood /\ GateGood'
    BY GateGoodNow, GateStays
  <1>2. TypeOK'
    BY <1>1, LocksTyped, SMTT(20)
       DEF IInv, TypeOK, GateGood, GateTyped, Phase, Step
  <1>3. PhasesFit' /\ PermitsFit' /\ LeaseFit'
    BY <1>1, SMTT(20)
       DEF IInv, TypeOK, PhasesFit, Plain, Before, Fencing, Maintaining,
       GateGood, GateTyped, PermitsFit, Shared, DeletionFence, Free, LeaseFit,
       Enrolled
  <1>4. WaitsFit'
    BY <1>1, SMTT(20)
       DEF IInv, TypeOK, GateGood, GateWaits, WaitsFit, Inner, Quiet,
       LeaseFit, Enrolled, PermitsFit, Shared
  <1>5. LockFit' /\ EntryFit' /\ DeletionFit'
    BY <1>1, SMTT(20)
       DEF IInv, TypeOK, LockFit, Locking, DeletionFence, Free, EntryFit,
       Registered, DeletionFit, Drained, Quiet, GateGood, GateTyped,
       PermitsFit, Shared, LeaseFit, Enrolled, Fencing
  <1> QED
    BY <1>2, <1>3, <1>4, <1>5 DEF IInv

LEMMA MaintenanceLeavesSafe ==
    ASSUME IInv, NEW o \in Fence \cup Upkeep, MaintenanceLeaves(o)
    PROVE  IInv'
  <1> USE KindsApart
       DEF MaintenanceLeaves, Goes, ReleaseExclusive, Leave, Keeps, database,
       Rest, Submission, Op
  <1>1. GateGood /\ GateGood'
    BY LeaveGood, ReleaseGood, GateGoodNow, GateStays
  <1>2. TypeOK'
    BY <1>1, LocksTyped, SMTT(20)
       DEF IInv, TypeOK, GateGood, GateTyped, Phase, Step
  <1>3. PhasesFit'
    BY <1>1, SMTT(20)
       DEF IInv, TypeOK, PhasesFit, Plain, Before, Fencing, Maintaining
  <1>4. PermitsFit' /\ LeaseFit'
    BY <1>1, SMTT(20)
       DEF IInv, TypeOK, GateGood, GateTyped, PermitsFit, Shared, PhasesFit,
       Plain, Before, Fencing, LeaseFit, Enrolled, Maintaining
  <1>5. WaitsFit'
    BY <1>1, SMTT(20)
       DEF IInv, TypeOK, GateGood, GateWaits, WaitsFit, Inner, Quiet,
       LeaseFit, Enrolled, PermitsFit, Shared
  <1>6. LockFit' /\ EntryFit' /\ DeletionFit'
    BY <1>1, SMTT(20)
       DEF IInv, TypeOK, LockFit, Locking, EntryFit, Registered, DeletionFit,
       Drained, Quiet, GateGood, GateTyped, PermitsFit, Shared, LeaseFit,
       Enrolled, Fencing, DeletionFence
  <1> QED
    BY <1>2, <1>3, <1>4, <1>5, <1>6 DEF IInv

LEMMA StopSafe ==
    ASSUME IInv, NEW t \in Submission \cup {None}, Stop(t)
    PROVE  IInv'
  <1> USE KindsApart
       DEF Stop, Stops, Enrolled, ReleaseExclusive, gate, database,
       Submission, Op
  <1>1. GateGood /\ GateGood'
    BY ReleaseGood, GateGoodNow, GateStays
  <1>2. TypeOK'
    BY <1>1, SMTT(20)
       DEF IInv, TypeOK, GateGood, GateTyped, Phase, Step
  <1>3. PhasesFit'
    BY <1>1, SMTT(20)
       DEF IInv, TypeOK, PhasesFit, Plain, Before, Fencing, Maintaining
  <1>4. PermitsFit' /\ LeaseFit'
    BY <1>1, SMTT(20)
       DEF IInv, TypeOK, GateGood, GateTyped, PermitsFit, Shared, PhasesFit,
       Plain, Before, Fencing, LeaseFit, Enrolled, Maintaining
  <1>5. WaitsFit'
    BY <1>1, SMTT(20)
       DEF IInv, TypeOK, GateGood, GateWaits, WaitsFit, Inner, Quiet,
       LeaseFit, Enrolled, PermitsFit, Shared
  <1>6. LockFit' /\ EntryFit' /\ DeletionFit'
    BY <1>1, SMTT(20)
       DEF IInv, TypeOK, LockFit, Locking, EntryFit, Registered, DeletionFit,
       Drained, Quiet, GateGood, GateTyped, PermitsFit, Shared, LeaseFit,
       Enrolled, Fencing, DeletionFence
  <1> QED
    BY <1>2, <1>3, <1>4, <1>5, <1>6 DEF IInv

----------------------------------------------------------------------------
(* The deletion.                                                           *)

LEMMA DeleteBeginSafe ==
    ASSUME IInv, DeleteBegin
    PROVE  IInv'
  <1> USE KindsApart
       DEF DeleteBegin, Gone, gate, database, Submission, Op
  <1>1. GateGood /\ GateGood'
    BY GateGoodNow, GateStays
  <1>2. TypeOK'
    BY <1>1, SMTT(20)
       DEF IInv, TypeOK, GateGood, GateTyped, Phase, Step
  <1>3. PhasesFit' /\ PermitsFit' /\ LeaseFit' /\ WaitsFit'
    BY <1>1, SMTT(20)
       DEF IInv, TypeOK, PhasesFit, Plain, Before, Fencing, Maintaining,
       GateGood, GateTyped, PermitsFit, Shared, LeaseFit, Enrolled, GateWaits,
       WaitsFit, Inner, Quiet
  <1>4. LockFit' /\ EntryFit' /\ DeletionFit'
    BY <1>1, SMTT(20)
       DEF IInv, TypeOK, LockFit, Locking, EntryFit, Registered, DeletionFit,
       Drained, Quiet, GateGood, GateTyped, PermitsFit, Shared, LeaseFit,
       Enrolled, Fencing, DeletionFence
  <1> QED
    BY <1>2, <1>3, <1>4 DEF IInv

LEMMA DeleteDrainedSafe ==
    ASSUME IInv, DeleteDrained
    PROVE  IInv'
  <1> USE KindsApart
       DEF DeleteDrained, Gone, gate, database, Submission, Op
  <1>1. GateGood /\ GateGood'
    BY GateGoodNow, GateStays
  <1>2. TypeOK'
    BY <1>1, SMTT(20)
       DEF IInv, TypeOK, GateGood, GateTyped, Phase, Step
  <1>3. PhasesFit' /\ PermitsFit' /\ LeaseFit' /\ WaitsFit'
    BY <1>1, SMTT(20)
       DEF IInv, TypeOK, PhasesFit, Plain, Before, Fencing, Maintaining,
       GateGood, GateTyped, PermitsFit, Shared, LeaseFit, Enrolled, GateWaits,
       WaitsFit, Inner, Quiet
  <1>4. LockFit' /\ EntryFit' /\ DeletionFit'
    BY <1>1, SMTT(20)
       DEF IInv, TypeOK, LockFit, Locking, EntryFit, Registered, DeletionFit,
       Drained, Quiet, GateGood, GateTyped, PermitsFit, Shared, LeaseFit,
       Enrolled, Fencing, DeletionFence, GateWaits
  <1> QED
    BY <1>2, <1>3, <1>4 DEF IInv

LEMMA DeleteAbortedSafe ==
    ASSUME IInv, DeleteAborted
    PROVE  IInv'
  <1> USE KindsApart
       DEF DeleteAborted, Gone, gate, database, Submission, Op
  <1>1. GateGood /\ GateGood'
    BY GateGoodNow, GateStays
  <1>2. TypeOK'
    BY <1>1, SMTT(20)
       DEF IInv, TypeOK, GateGood, GateTyped, Phase, Step
  <1>3. PhasesFit' /\ PermitsFit' /\ LeaseFit' /\ WaitsFit'
    BY <1>1, SMTT(20)
       DEF IInv, TypeOK, PhasesFit, Plain, Before, Fencing, Maintaining,
       GateGood, GateTyped, PermitsFit, Shared, LeaseFit, Enrolled, GateWaits,
       WaitsFit, Inner, Quiet
  <1>4. LockFit' /\ EntryFit' /\ DeletionFit'
    BY <1>1, SMTT(20)
       DEF IInv, TypeOK, LockFit, Locking, EntryFit, Registered, DeletionFit,
       Drained, Quiet, GateGood, GateTyped, PermitsFit, Shared, LeaseFit,
       Enrolled, Fencing, DeletionFence
  <1> QED
    BY <1>2, <1>3, <1>4 DEF IInv

LEMMA DeleteReadSafe ==
    ASSUME IInv, DeleteRead
    PROVE  IInv'
  <1> USE KindsApart
       DEF DeleteRead, Gone, gate, database, Submission, Op
  <1>1. GateGood /\ GateGood'
    BY GateGoodNow, GateStays
  <1>2. TypeOK'
    BY <1>1, LocksTyped, SMTT(20)
       DEF IInv, TypeOK, GateGood, GateTyped, Phase, Step
  <1>3. PhasesFit' /\ PermitsFit' /\ LeaseFit' /\ WaitsFit'
    BY <1>1, SMTT(20)
       DEF IInv, TypeOK, PhasesFit, Plain, Before, Fencing, Maintaining,
       GateGood, GateTyped, PermitsFit, Shared, DeletionFence, LeaseFit,
       Enrolled, GateWaits, WaitsFit, Inner, Quiet
  <1>4. LockFit' /\ EntryFit' /\ DeletionFit'
    BY <1>1, SMTT(20)
       DEF IInv, TypeOK, LockFit, Locking, DeletionFence, EntryFit,
       Registered, DeletionFit, Drained, Quiet, GateGood, GateTyped,
       PermitsFit, Shared, LeaseFit, Enrolled, Fencing
  <1> QED
    BY <1>2, <1>3, <1>4 DEF IInv

LEMMA DeleteWorkSafe ==
    ASSUME IInv, DeleteWork
    PROVE  IInv'
  <1> USE DEF DeleteWork, Gone, Fault, gate
  <1>1. GateGood /\ GateGood'
    BY GateGoodNow, GateStays
  <1>2. del' \in Step /\ faults' \in Nat
    BY DEF IInv, TypeOK, Step
  <1>3. exists' = exists \/ exists' = FALSE
    OBVIOUS
  <1>4. TypeOK'
    BY <1>1, <1>2, <1>3 DEF IInv, TypeOK, GateGood, GateTyped
  <1>5. PhasesFit' /\ PermitsFit' /\ LeaseFit' /\ WaitsFit'
    BY <1>1 DEF IInv, PhasesFit, PermitsFit, Shared, LeaseFit, Enrolled, WaitsFit,
       Quiet
  <1>6. LockFit' /\ EntryFit' /\ DeletionFit'
    BY DEF IInv, LockFit, EntryFit, DeletionFit, Drained, Quiet,
       DeletionFence
  <1> QED
    BY <1>4, <1>5, <1>6 DEF IInv

LEMMA DeleteAbsentSafe ==
    ASSUME IInv, DeleteAbsent
    PROVE  IInv'
  <1>1. GateGood /\ GateGood' /\ permits' = permits /\ mutation' = mutation
    BY GateGoodNow, UnblockGood DEF DeleteAbsent
  <1>2. /\ UNCHANGED <<pc, stopped, entry, stops>> /\ del' \in {"done", "failed"}
        /\ UNCHANGED <<exists, faults, deletes>>
        /\ fated' = fated \/ fated' = FALSE
    BY GateGoodNow, UnblockGood DEF DeleteAbsent, Gone, database
  <1>3. /\ lock' \in [who : Op \cup {None}, deleting : BOOLEAN]
        /\ lock'.who = lock.who
    BY LocksTyped DEF DeleteAbsent, database, IInv, TypeOK, Free, DeletionFence
  <1>4. TypeOK'
    BY <1>1, <1>2, <1>3 DEF IInv, TypeOK, GateGood, GateTyped, Step
  <1>5. PhasesFit' /\ PermitsFit' /\ LeaseFit' /\ LockFit' /\ EntryFit'
    BY <1>1, <1>2, <1>3 DEF IInv, PhasesFit, PermitsFit, Shared, LeaseFit, Enrolled,
       LockFit, EntryFit
  <1>6. WaitsFit' /\ DeletionFit'
    BY <1>1, <1>2, <1>3
       DEF IInv, GateGood, GateWaits, WaitsFit, Inner, Quiet, DeletionFit, Drained
  <1> QED
    BY <1>4, <1>5, <1>6 DEF IInv

LEMMA DeleteLiftSafe ==
    ASSUME IInv, DeleteLift
    PROVE  IInv'
  <1>1. GateGood /\ GateGood' /\ permits' = permits /\ mutation' = mutation
    BY GateGoodNow, UnblockGood DEF DeleteLift
  <1>2. /\ UNCHANGED <<pc, stopped, entry, stops>> /\ del' \in {"done", "failed"}
        /\ UNCHANGED <<exists, faults, deletes>>
        /\ fated' = fated \/ fated' = FALSE
    BY GateGoodNow, UnblockGood DEF DeleteLift, Gone, database
  <1>3. /\ lock' \in [who : Op \cup {None}, deleting : BOOLEAN]
        /\ lock'.who = lock.who
    BY LocksTyped DEF DeleteLift, database, IInv, TypeOK, Free, DeletionFence
  <1>4. TypeOK'
    BY <1>1, <1>2, <1>3 DEF IInv, TypeOK, GateGood, GateTyped, Step
  <1>5. PhasesFit' /\ PermitsFit' /\ LeaseFit' /\ LockFit' /\ EntryFit'
    BY <1>1, <1>2, <1>3 DEF IInv, PhasesFit, PermitsFit, Shared, LeaseFit, Enrolled,
       LockFit, EntryFit
  <1>6. WaitsFit' /\ DeletionFit'
    BY <1>1, <1>2, <1>3
       DEF IInv, GateGood, GateWaits, WaitsFit, Inner, Quiet, DeletionFit, Drained
  <1> QED
    BY <1>4, <1>5, <1>6 DEF IInv

LEMMA DeleteCompleteSafe ==
    ASSUME IInv, DeleteComplete
    PROVE  IInv'
  <1> USE KindsApart
       DEF DeleteComplete, Gone, gate, Submission, Op
  <1>1. GateGood /\ GateGood'
    BY GateGoodNow, GateStays
  <1>2. TypeOK'
    BY <1>1, LocksTyped, SMTT(20)
       DEF IInv, TypeOK, GateGood, GateTyped, Phase, Step
  <1>3. PhasesFit' /\ PermitsFit' /\ LeaseFit' /\ WaitsFit'
    BY <1>1, SMTT(20)
       DEF IInv, TypeOK, PhasesFit, Plain, Before, Fencing, Maintaining,
       GateGood, GateTyped, PermitsFit, Shared, Free, LeaseFit, Enrolled,
       GateWaits, WaitsFit, Inner, Quiet
  <1>4. LockFit' /\ EntryFit' /\ DeletionFit'
    BY <1>1, SMTT(20)
       DEF IInv, TypeOK, LockFit, Locking, Free, EntryFit, Registered,
       DeletionFit, Drained, Quiet, GateGood, GateTyped, PermitsFit, Shared,
       LeaseFit, Enrolled, Fencing, DeletionFence
  <1> QED
    BY <1>2, <1>3, <1>4 DEF IInv

LEMMA DeleteBlockSafe ==
    ASSUME IInv, DeleteBlock
    PROVE  IInv'
  <1> USE KindsApart
       DEF DeleteBlock, Block, Gone, Submission, Op
  <1>1. GateGood /\ GateGood'
    BY BlockGood, GateGoodNow, GateStays
  <1>2. TypeOK'
    BY <1>1, LocksTyped, SMTT(20)
       DEF IInv, TypeOK, GateGood, GateTyped, Phase, Step
  <1>3. PhasesFit' /\ PermitsFit' /\ LeaseFit' /\ WaitsFit'
    BY <1>1, SMTT(20)
       DEF IInv, TypeOK, PhasesFit, Plain, Before, Fencing, Maintaining,
       GateGood, GateTyped, PermitsFit, Shared, LeaseFit, Enrolled, GateWaits,
       WaitsFit, Inner, Quiet
  <1>4. LockFit' /\ EntryFit' /\ DeletionFit'
    BY <1>1, SMTT(20)
       DEF IInv, TypeOK, LockFit, Locking, EntryFit, Registered, DeletionFit,
       Drained, Quiet, GateGood, GateTyped, PermitsFit, Shared, LeaseFit,
       Enrolled, Fencing, DeletionFence
  <1> QED
    BY <1>2, <1>3, <1>4 DEF IInv

----------------------------------------------------------------------------
(* The invariant holds at first and is kept by every step.                 *)
LEMMA InitGood == Init => IInv
  <1> SUFFICES ASSUME Init PROVE IInv
    OBVIOUS
  <1> USE KindsApart, ConstantsAssumption DEF Init
  <1>1. TypeOK
    BY LocksTyped DEF TypeOK, Phase, Step
  <1>2. PhasesFit
    BY DEF PhasesFit, Plain, Op, Submission
  <1>3. PermitsFit /\ LeaseFit /\ WaitsFit
    BY DEF PermitsFit, Shared, LeaseFit, Enrolled, Fencing, WaitsFit, Quiet, Op, Submission
  <1>4. LockFit /\ EntryFit /\ DeletionFit
    BY DEF LockFit, Locking, EntryFit, Registered, DeletionFit, Drained, Free
  <1> QED
    BY <1>1, <1>2, <1>3, <1>4 DEF IInv

LEMMA NextGood == IInv /\ [Next]_vars => IInv'
  <1> SUFFICES ASSUME IInv, [Next]_vars PROVE IInv'
    OBVIOUS
  <1>1. CASE \E o \in Send \cup Compact \cup Trusted : Start(o)
    BY <1>1, StartSafe
  <1>2. CASE \E o \in Submission : SubmissionStep(o)
    BY <1>2, CheckSafe, RefuseSafe, AdmitSafe, CommitSafe, RegisterSafe, NotAcceptedSafe,
       RevokeSafe, FailAdmissionSafe, ReturnSafe, SettleTurnSafe, CompleteTurnSafe
       DEF SubmissionStep
  <1>3. CASE \E h \in Handoff : HandoffStart(h) \/ HandoffStep(h)
    BY <1>3, HandoffStartSafe, HandoffCheckSafe, HandoffDrainedSafe, HandoffTimeoutSafe,
       HandoffInterruptSafe, HandoffInterruptedSafe DEF HandoffStep
  <1>4. CASE \E f \in Fence : FenceStart(f)
    BY <1>4, FenceStartSafe
  <1>5. CASE \E u \in Upkeep : UpkeepStart(u)
    BY <1>5, UpkeepStartSafe
  <1>6. CASE \E o \in Fence \cup Upkeep : OtherStep(o)
    BY <1>6, FenceLockSafe, MaintenanceEndsSafe, MaintenanceLeavesSafe DEF OtherStep
  <1>7. CASE \E t \in Submission \cup {None} : Stop(t)
    BY <1>7, StopSafe
  <1>8. CASE DeleteBegin \/ DeleteStep
    BY <1>8, DeleteBeginSafe, DeleteAbsentSafe, DeleteBlockSafe, DeleteDrainedSafe,
       DeleteAbortedSafe, DeleteReadSafe, DeleteWorkSafe, DeleteCompleteSafe,
       DeleteLiftSafe DEF DeleteStep
  <1>9. CASE UNCHANGED vars
    BY <1>9 DEF vars, gate, database, counters, IInv, TypeOK, PhasesFit, PermitsFit, Shared,
       LeaseFit, Enrolled, WaitsFit, Quiet, LockFit, EntryFit, DeletionFit
  <1> QED
    BY <1>1, <1>2, <1>3, <1>4, <1>5, <1>6, <1>7, <1>8, <1>9 DEF Next

(* The inductive invariant of the gate, the lock and the registered Turn.  *)
THEOREM GateInvariant == Spec => []IInv
  BY InitGood, NextGood, PTL DEF Spec

(* The variables keep their types.                                         *)
THEOREM GateTypes == Spec => []TypeOK
  <1>1. IInv => TypeOK
    BY DEF IInv
  <1> QED
    BY <1>1, GateInvariant, PTL

(* For any number of operations of any kind, in any order: no permit and   *)
(* no lease leaks, and nobody waits for a drain that is over.              *)
THEOREM NoPermitLeaks == Spec => []PermitsComeBack
  <1>1. ASSUME IInv PROVE PermitsComeBack
    <2>1. permits = {o \in Op : Shared(o)}
      BY <1>1 DEF IInv, TypeOK, PermitsFit
    <2>2. mutation # None => pc[mutation] \notin {"idle", "running", "settled", "done"}
      BY <1>1 DEF IInv, TypeOK, LeaseFit, Enrolled, Fencing
    <2> QED
      BY <1>1, <2>1, <2>2 DEF IInv, WaitsFit, Quiet, PermitsComeBack
  <1> QED
    BY <1>1, GateInvariant, PTL

(* A send that interrupts is alone once it has seen the drain, for as long *)
(* as it has its lease, and so is a deletion until it lifts the gate.      *)
THEOREM DrainedOperationsAreAlone == Spec => []DrainedIsAlone
  <1>1. IInv => DrainedIsAlone
    BY DEF IInv, WaitsFit, DeletionFit, Drained, Quiet, DrainedIsAlone
  <1> QED
    BY <1>1, GateInvariant, PTL

(* Whatever came through the gate or around it, when a deletion takes the  *)
(* session apart no Turn and no maintenance of it is left.                 *)
THEOREM ErasureIsAlone == Spec => []NothingOutlivesErasure
  <1>1. ASSUME IInv PROVE NothingOutlivesErasure
    <2> SUFFICES ASSUME del \in {"disposing", "erasing", "cleaning", "completing", "lifting"}
                        \/ ~exists
                 PROVE  entry = None /\ \A o \in Op : ~Accepted(o) /\ pc[o] # "locked"
      BY DEF NothingOutlivesErasure
    <2>1. entry = None /\ lock.who = None
      BY <1>1 DEF IInv, DeletionFit, DeletionFence
    <2>2. \A o \in Op : pc[o] \notin Locking
      BY <1>1, <2>1, KindsApart DEF IInv, LockFit
    <2> QED
      BY <2>1, <2>2 DEF Accepted, Locking
  <1> QED
    BY <1>1, GateInvariant, PTL

(* Who gets the lock in a step.                                            *)
LEMMA LockTaken ==
    ASSUME IInv, [Next]_vars, lock'.who \notin {lock.who, None}
    PROVE  \/ \E o \in Submission : Admit(o) /\ lock'.who = o
           \/ \E f \in Fence : pc[f] = "fenced" /\ lock'.who = f
           \/ mutation = None
  <1> USE DEF gate, database, counters, Unlocked, Free, DeletionFence, Held
  <1> SUFFICES ASSUME mutation # None
               PROVE  \/ \E o \in Submission : Admit(o) /\ lock'.who = o
                      \/ \E f \in Fence : pc[f] = "fenced" /\ lock'.who = f
    OBVIOUS
  <1>1. CASE \E o \in Send \cup Compact \cup Trusted : Start(o)
    BY <1>1 DEF Start, Keeps
  <1>2. CASE \E o \in Submission : SubmissionStep(o)
    <2>1. PICK o \in Submission : SubmissionStep(o)
      BY <1>2
    <2>2. CASE Check(o) \/ Refuse(o) \/ Return(o)
      BY <2>2 DEF Check, Refuse, Return, Keeps
    <2>3. CASE Admit(o)
      BY <2>3 DEF Admit
    <2>4. CASE Commit(o) \/ Register(o) \/ NotAccepted(o) \/ CompleteTurn(o)
      BY <2>4 DEF Commit, Register, NotAccepted, CompleteTurn
    <2>5. CASE Revoke(o) \/ FailAdmission(o) \/ SettleTurn(o)
      BY <2>5 DEF Revoke, FailAdmission, SettleTurn
    <2> QED
      BY <2>1, <2>2, <2>3, <2>4, <2>5 DEF SubmissionStep
  <1>3. CASE \E h \in Handoff : HandoffStart(h) \/ HandoffStep(h)
    BY <1>3 DEF HandoffStart, HandoffStep, HandoffCheck, HandoffDrained, HandoffTimeout,
       HandoffInterrupt, HandoffInterrupted, Keeps
  <1>4. CASE \E f \in Fence : FenceStart(f)
    BY <1>4 DEF FenceStart, Keeps
  <1>5. CASE \E u \in Upkeep : UpkeepStart(u)
    BY <1>5 DEF UpkeepStart, Open
  <1>6. CASE \E o \in Fence \cup Upkeep : OtherStep(o)
    BY <1>6 DEF OtherStep, FenceLock, MaintenanceEnds, MaintenanceLeaves, Keeps
  <1>7. CASE \E t \in Submission \cup {None} : Stop(t)
    BY <1>7 DEF Stop
  <1>8. CASE DeleteBegin \/ DeleteAbsent \/ DeleteBlock
    BY <1>8 DEF DeleteBegin, DeleteAbsent, DeleteBlock, IInv, TypeOK
  <1>9. CASE DeleteDrained \/ DeleteAborted \/ DeleteRead \/ DeleteWork \/ DeleteComplete
             \/ DeleteLift
    BY <1>9 DEF DeleteDrained, DeleteAborted, DeleteRead, DeleteWork, DeleteComplete,
       DeleteLift
  <1>10. CASE UNCHANGED vars
    BY <1>10 DEF vars
  <1> QED
    BY <1>1, <1>2, <1>3, <1>4, <1>5, <1>6, <1>7, <1>8, <1>9, <1>10 DEF Next, DeleteStep

(* Between the Turn an interrupting send aborts and the one it starts, no  *)
(* other that goes through the gate gets the lock of the session.          *)
THEOREM InterruptorComesNext == Spec => InterruptorIsNext
  <1>1. ASSUME IInv, [Next]_vars, NEW h \in Handoff, Interrupting(h)
        PROVE  lock'.who \in {lock.who, None, h} \cup Trusted
    <2> SUFFICES ASSUME lock'.who \notin {lock.who, None} PROVE lock'.who \in {h} \cup Trusted
      OBVIOUS
    <2>1. mutation = h /\ h # None /\ permits = {}
      BY <1>1, KindsApart DEF Interrupting, IInv, WaitsFit, Op, Submission
    <2>2. ASSUME NEW f \in Fence, pc[f] = "fenced" PROVE FALSE
      BY <1>1, <2>1, <2>2, KindsApart DEF IInv, LeaseFit, Fencing, Op, Submission
    <2>3. ASSUME NEW o \in Submission, Admit(o), o \notin {h} \cup Trusted PROVE FALSE
      <3>1. pc[o] = "preparing" /\ o \notin stopped
        BY <2>3 DEF Admit
      <3>2. CASE o \in Handoff
        BY <1>1, <2>1, <2>3, <3>1, <3>2, KindsApart
           DEF IInv, LeaseFit, Enrolled, Op, Submission
      <3>3. CASE o \in Send \cup Compact
        BY <1>1, <2>1, <3>1, <3>3 DEF IInv, PermitsFit, Shared, Op, Submission
      <3> QED
        BY <2>3, <3>2, <3>3 DEF Submission
    <2> QED
      BY <1>1, <2>1, <2>2, <2>3, LockTaken
  <1>2. IInv /\ [Next]_vars => [\A h \in Handoff : Interrupting(h)
            => lock'.who \in {lock.who, None, h} \cup Trusted]_vars
    BY <1>1
  <1> QED
    BY <1>2, GateInvariant, PTL DEF Spec, InterruptorIsNext
=============================================================================
