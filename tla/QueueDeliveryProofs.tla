------------------------- MODULE QueueDeliveryProofs -------------------------
(***************************************************************************)
(* The deliveries of QueueDispatch implement the promise of MessageDelivery*)
(* in every step: whatever goes wrong, a message is started at most once,  *)
(* never after it was removed, and never removed after it was started.     *)
(*                                                                         *)
(* A step changes what the promise sees in one of four ways: a row enters  *)
(* the queue, a row leaves it for good, the Turn at the start fence starts *)
(* or fails, a host run ends.  Everything else is a stutter.  The inductive*)
(* invariant of QueueDispatchProofs says that the Turn at the fence is the *)
(* only one whose message may be off the queue and yet start.              *)
(***************************************************************************)
EXTENDS QueueDispatchProofs

Live == {"queued", "claimed"}

(* What the promise sees.                                                  *)
Status == [i \in Item |-> StatusOf(i)]
Host == IF turn.phase = "running" THEN turn.item ELSE None

(* A step of the promise, or a stutter.                                    *)
Mapped == [Promise!Next]_(Promise!vars)

(* No row enters or leaves the queue.                                      *)
LiveKept ==
    \A i \in Item : /\ row'[i] \in Live <=> row[i] \in Live
                    /\ row'[i] = "new" <=> row[i] = "new"

(* At most this row leaves the queue.                                      *)
Leaves(i) ==
    /\ row[i] \in Live /\ row'[i] \in Settled
    /\ \A j \in Item \ {i} : row'[j] = row[j]

(* The Turn stays, and its worker if it waits.                             *)
TurnAside ==
    /\ turn' = turn /\ begun' = begun
    /\ turn.phase = "waiting" => pc'[turn.by] = pc[turn.by]

----------------------------------------------------------------------------
(* The promise's steps from what changes.                                  *)

LEMMA StutterMaps ==
    ASSUME \A i \in Item : StatusOf(i)' = StatusOf(i), Host' = Host
    PROVE  Mapped
  <1>1. Status' = Status
    BY DEF Status
  <1> QED
    BY <1>1 DEF Mapped, Status, Host, Promise!vars

LEMMA EndMaps ==
    ASSUME \A i \in Item : StatusOf(i)' = StatusOf(i), Host' = None
    PROVE  Mapped
  <1>1. Status' = Status
    BY DEF Status
  <1> QED
    BY <1>1 DEF Mapped, Status, Host, Promise!vars, Promise!Next, Promise!End

(* One message changes its status.                                         *)
LEMMA StatusBecomes ==
    ASSUME NEW i \in Item, NEW s, StatusOf(i)' = s,
           \A j \in Item \ {i} : StatusOf(j)' = StatusOf(j)
    PROVE  Status' = [Status EXCEPT ![i] = s]
  BY DEF Status

LEMMA RemoveMaps ==
    ASSUME NEW i \in Item, StatusOf(i) = "waiting", StatusOf(i)' = "gone",
           \A j \in Item \ {i} : StatusOf(j)' = StatusOf(j), Host' = Host
    PROVE  Mapped
  <1>1. Status' = [Status EXCEPT ![i] = "gone"] /\ Status[i] = "waiting"
    BY StatusBecomes DEF Status
  <1> QED
    BY <1>1 DEF Mapped, Status, Host, Promise!vars, Promise!Next, Promise!Settle,
                Promise!Remove, Promise!Become

LEMMA EnqueueMaps ==
    ASSUME NEW i \in Item, StatusOf(i) = "absent", StatusOf(i)' = "waiting",
           \A j \in Item \ {i} : StatusOf(j)' = StatusOf(j), Host' = Host
    PROVE  Mapped
  <1>1. Status' = [Status EXCEPT ![i] = "waiting"] /\ Status[i] = "absent"
    BY StatusBecomes DEF Status
  <1> QED
    BY <1>1 DEF Mapped, Status, Host, Promise!vars, Promise!Next, Promise!Enqueue,
                Promise!Become

LEMMA StartMaps ==
    ASSUME NEW i \in Item, StatusOf(i) = "waiting", StatusOf(i)' = "started",
           \A j \in Item \ {i} : StatusOf(j)' = StatusOf(j), Host = None, Host' = i
    PROVE  Mapped
  <1>1. Status' = [Status EXCEPT ![i] = "started"] /\ Status[i] = "waiting"
    BY StatusBecomes DEF Status
  <1> QED
    BY <1>1 DEF Mapped, Status, Host, Promise!vars, Promise!Next, Promise!Settle,
                Promise!Start, Promise!Become

----------------------------------------------------------------------------
(* Steps that leave the Turn alone.                                        *)

LEMMA PendingKept ==
    ASSUME TurnAside
    PROVE  Host' = Host /\ \A i \in Item : StartPending(i)' = StartPending(i)
  BY DEF TurnAside, Host, StartPending

LEMMA LiveKeptMaps == ASSUME LiveKept, TurnAside PROVE Mapped
  <1>1. \A i \in Item : StatusOf(i)' = StatusOf(i)
    BY PendingKept DEF LiveKept, Live, TurnAside, StatusOf
  <1> QED
    BY <1>1, PendingKept, StutterMaps

(* A message whose Turn may yet start is not gone with its row.            *)
LEMMA LeavesMaps ==
    ASSUME IInv, NEW i \in Item, Leaves(i), TurnAside
    PROVE  Mapped
  <1>1. \A j \in Item \ {i} : StatusOf(j)' = StatusOf(j)
    BY PendingKept DEF Leaves, TurnAside, StatusOf
  <1>2. StatusOf(i) = "waiting"
    BY DEF IInv, BegunGone, Leaves, Live, Settled, StatusOf
  <1>3. StatusOf(i)' \in {"waiting", "gone"}
    BY DEF IInv, BegunGone, Leaves, Live, Settled, StatusOf, TurnAside
  <1>4. CASE StatusOf(i)' = "gone"
    BY <1>1, <1>2, <1>4, PendingKept, RemoveMaps
  <1>5. CASE StatusOf(i)' = "waiting"
    <2>1. \A j \in Item : StatusOf(j)' = StatusOf(j)
      BY <1>1, <1>2, <1>5
    <2> QED
      BY <2>1, PendingKept, StutterMaps
  <1> QED
    BY <1>3, <1>4, <1>5

(* The worker of a step that is not at the fence.                          *)
LEMMA WorkerAside ==
    ASSUME IInv, NEW w \in Worker, pc[w] \notin {"accepted", "acknowledged"},
           turn' = turn, begun' = begun,
           \A v \in Worker : v # w => pc'[v] = pc[v]
    PROVE  TurnAside
  BY FenceOf DEF TurnAside

LEMMA ProcessAside ==
    ASSUME pc' = pc, turn' = turn, begun' = begun
    PROVE  TurnAside
  BY DEF TurnAside

(* The queue's transactions.                                               *)
LEMMA RowsLive == ASSUME row' = row PROVE LiveKept
  BY DEF LiveKept

LEMMA ReleaseRowLive == ASSUME IInv, claim # NoClaim, ReleaseRow PROVE LiveKept
  <1>1. claim.item \in Item /\ row[claim.item] = "claimed"
    BY DEF IInv, ClaimGood
  <1> QED
    BY <1>1 DEF IInv, Typed, ReleaseRow, LiveKept, Live

LEMMA ReleaseLive == ASSUME IInv, NEW w \in Worker, Release(w) PROVE LiveKept
  BY RowsLive, ReleaseRowLive, MineIsHeld DEF Release

LEMMA RemoveRowLeaves ==
    ASSUME IInv, NEW i \in Item, NEW as \in Settled, row[i] \in Live, RemoveRow(i, as)
    PROVE  Leaves(i)
  BY DEF IInv, Typed, RemoveRow, Leaves

LEMMA MineLeaves ==
    ASSUME IInv, NEW w \in Worker, Mine(w), pc[w] \in Busy, NEW as \in Settled,
           RemoveRow(held[w], as)
    PROVE  held[w] \in Item /\ Leaves(held[w])
  <1>1. held[w] \in Item /\ row[held[w]] \in Live
    BY MineIsHeld, ConstantsAssumption DEF IInv, HeldGood, ConstantsAssumption, Live
  <1> QED
    BY <1>1, RemoveRowLeaves

LEMMA ClaimRowMaps ==
    ASSUME IInv, NEW w \in Worker, NEW i \in Item, row[i] = "queued",
           pc[w] \notin {"accepted", "acknowledged"}, ClaimRow(w, i),
           turn' = turn, begun' = begun
    PROVE  Mapped
  <1>1. LiveKept
    BY DEF IInv, Typed, ClaimRow, LiveKept, Live
  <1>2. TurnAside
    BY WorkerAside DEF IInv, Typed, ClaimRow
  <1> QED
    BY <1>1, <1>2, LiveKeptMaps

----------------------------------------------------------------------------
(* The steps of a delivery away from the start fence.                      *)

LEMMA ReleaseStoppedMaps == ASSUME IInv, NEW w \in Worker, ReleaseStopped(w) PROVE Mapped
  <1>1. LiveKept
    BY ReleaseLive DEF ReleaseStopped
  <1>2. TurnAside
    BY Finishes, WorkerAside DEF ReleaseStopped
  <1> QED
    BY <1>1, <1>2, LiveKeptMaps

LEMMA CancelRequestedMaps == ASSUME IInv, NEW w \in Worker, CancelRequested(w) PROVE Mapped
  <1>1. pc[w] \in Busy /\ pc[w] \notin {"accepted", "acknowledged"}
    BY DEF CancelRequested, Dispatching, Busy
  <1>2. TurnAside
    BY <1>1, Finishes, Throws, WorkerAside DEF CancelRequested
  <1>3. CASE Mine(w)
    BY <1>1, <1>2, <1>3, MineLeaves, LeavesMaps DEF CancelRequested, Settled
  <1>4. CASE ~Mine(w)
    BY <1>2, <1>4, RowsLive, LiveKeptMaps DEF CancelRequested
  <1> QED
    BY <1>3, <1>4

LEMMA DeferMaps == ASSUME IInv, NEW w \in Worker, Defer(w) PROVE Mapped
  <1>1. LiveKept
    BY ReleaseLive DEF Defer
  <1>2. TurnAside
    BY Yields, WorkerAside DEF Defer, Dispatching
  <1> QED
    BY <1>1, <1>2, LiveKeptMaps

LEMMA RefuseMaps == ASSUME IInv, NEW w \in Worker, Refuse(w) PROVE Mapped
  <1>1. pc[w] \in Busy /\ pc[w] \notin {"accepted", "acknowledged"}
    BY DEF Refuse, Dispatching, Busy
  <1>2. TurnAside
    BY <1>1, Finishes, Throws, WorkerAside DEF Refuse
  <1>3. CASE Mine(w) /\ RemoveRow(held[w], "gone")
    BY <1>1, <1>2, <1>3, MineLeaves, LeavesMaps DEF Settled
  <1>4. CASE Release(w) \/ UNCHANGED <<row, claim, paused>>
    BY <1>2, <1>4, ReleaseLive, RowsLive, LiveKeptMaps
  <1> QED
    BY <1>3, <1>4 DEF Refuse

LEMMA FailsMaps == ASSUME IInv, NEW w \in Worker, Fails(w) PROVE Mapped
  <1>1. TurnAside
    BY Goes, WorkerAside DEF Fails, Phase, Busy
  <1> QED
    BY <1>1, RowsLive, LiveKeptMaps DEF Fails

LEMMA SettlementFailsMaps ==
    ASSUME IInv, NEW w \in Worker, SettlementFails(w) PROVE Mapped
  <1>1. TurnAside
    BY Throws, WorkerAside DEF SettlementFails
  <1> QED
    BY <1>1, RowsLive, LiveKeptMaps DEF SettlementFails

LEMMA PrepareMaps == ASSUME IInv, NEW w \in Worker, Prepare(w) PROVE Mapped
  <1>1. TurnAside
    BY Goes, WorkerAside DEF Prepare, Phase, Busy
  <1> QED
    BY <1>1, RowsLive, LiveKeptMaps DEF Prepare

LEMMA SettleRejectedMaps ==
    ASSUME IInv, NEW w \in Worker, SettleRejected(w) PROVE Mapped
  <1>1. LiveKept
    BY ReleaseLive DEF SettleRejected
  <1>2. TurnAside
    BY Finishes, WorkerAside DEF SettleRejected
  <1> QED
    BY <1>1, <1>2, LiveKeptMaps

LEMMA SettleThrownMaps == ASSUME IInv, NEW w \in Worker, SettleThrown(w) PROVE Mapped
  <1>1. LiveKept
    BY ReleaseLive, RowsLive DEF SettleThrown
  <1>2. TurnAside
    BY Throws, WorkerAside DEF SettleThrown
  <1> QED
    BY <1>1, <1>2, LiveKeptMaps

----------------------------------------------------------------------------
(* The steps at the start fence.                                           *)

(* No Turn is at its fence, before or after; a host run may end.           *)
LEMMA NoFenceMaps ==
    ASSUME LiveKept, begun' = begun, Host' \in {Host, None},
           turn.phase # "waiting", turn'.phase # "waiting"
    PROVE  Mapped
  <1>1. \A i \in Item : StatusOf(i)' = StatusOf(i)
    BY DEF LiveKept, Live, StatusOf, StartPending
  <1> QED
    BY <1>1, StutterMaps, EndMaps

(* A Turn leaves its fence without its host: a message whose row is gone   *)
(* is gone.                                                                *)
LEMMA FenceFailsMaps ==
    ASSUME IInv, row' = row, begun' = begun,
           turn.phase = "waiting", turn'.phase \notin {"waiting", "running"}
    PROVE  Mapped
  <1>1. PICK i \in Item : i = turn.item
    BY DEF IInv, FenceGood
  <1>2. i \notin begun /\ row[i] # "new"
    BY <1>1 DEF IInv, FenceGood, HeldGood, Busy
  <1>3. \A j \in Item \ {i} : StatusOf(j)' = StatusOf(j)
    BY <1>1 DEF StatusOf, StartPending
  <1>4. Host' = Host
    BY DEF Host
  <1>5. CASE StatusOf(i)' = StatusOf(i)
    <2>1. \A j \in Item : StatusOf(j)' = StatusOf(j)
      BY <1>3, <1>5
    <2> QED
      BY <1>4, <2>1, StutterMaps
  <1>6. CASE StatusOf(i)' # StatusOf(i)
    <2>1. StatusOf(i) = "waiting" /\ StatusOf(i)' = "gone"
      BY <1>2, <1>6 DEF StatusOf, StartPending
    <2> QED
      BY <1>3, <1>4, <2>1, RemoveMaps
  <1> QED
    BY <1>5, <1>6

LEMMA FailStartMaps ==
    ASSUME IInv, NEW w \in Worker, row' = row, begun' = begun, FailStart(w),
           \A v \in Worker : v # w => pc'[v] = pc[v]
    PROVE  Mapped
  <1>1. CASE turn.by = w /\ turn.phase = "waiting"
    <2>1. turn'.phase = "failing"
      BY <1>1 DEF IInv, Typed, Turns, FailStart
    <2> QED
      BY <1>1, <2>1, FenceFailsMaps
  <1>2. CASE ~(turn.by = w /\ turn.phase = "waiting")
    <2>1. TurnAside
      BY <1>2 DEF IInv, FenceGood, FailStart, TurnAside
    <2> QED
      BY <2>1, RowsLive, LiveKeptMaps
  <1> QED
    BY <1>1, <1>2

LEMMA DeliveryFailsMaps == ASSUME IInv, NEW w \in Worker, DeliveryFails(w) PROVE Mapped
  BY Goes, FailStartMaps DEF DeliveryFails, Phase, Busy

LEMMA AcknowledgeFailsMaps ==
    ASSUME IInv, NEW w \in Worker, AcknowledgeFails(w) PROVE Mapped
  BY Goes, FailStartMaps DEF AcknowledgeFails, Phase, Busy

(* An admitted message is in the queue: to the promise it still waits.     *)
LEMMA SubmitMaps == ASSUME IInv, NEW w \in Worker, Submit(w) PROVE Mapped
  <1> USE DEF Submit
  <1>1. CASE turn' = turn
    <2>1. TurnAside
      BY <1>1, Goes, WorkerAside DEF Phase, Busy
    <2> QED
      BY <2>1, RowsLive, LiveKeptMaps
  <1>2. CASE turn' = TurnOf("failing", w, held[w]) /\ turn = NoTurn
    BY <1>2, RowsLive, NoFenceMaps DEF TurnOf, NoTurn, Host
  <1>3. CASE turn' = TurnOf("waiting", w, held[w]) /\ turn = NoTurn /\ Admits(w)
    <2>1. held[w] \in Item /\ row[held[w]] = "claimed"
      BY <1>3, MineIsHeld, ConstantsAssumption
         DEF Admits, IInv, HeldGood, Busy, ConstantsAssumption
    <2>2. \A i \in Item : StatusOf(i)' = StatusOf(i)
      BY <1>3, <2>1 DEF StatusOf, StartPending, TurnOf, NoTurn
    <2>3. Host' = Host
      BY <1>3 DEF Host, TurnOf, NoTurn
    <2> QED
      BY <2>2, <2>3, StutterMaps
  <1> QED
    BY <1>1, <1>2, <1>3

(* An acknowledgement takes the row off the queue and has the Turn start,  *)
(* if it still waits; one that finds no claim fails it.                    *)
LEMMA AcknowledgeMaps == ASSUME IInv, NEW w \in Worker, Acknowledge(w) PROVE Mapped
  <1> USE DEF Acknowledge
  <1>1. \A v \in Worker : v # w => pc'[v] = pc[v]
    BY Goes DEF Phase, Busy
  <1>2. held[w] \in Item /\ row[held[w]] # "new" /\ begun' = begun
    BY DEF IInv, HeldGood, Busy
  <1>3. CASE pc'[w] = "threw"
    BY <1>1, <1>3, FailStartMaps, Goes DEF Phase, Busy
  <1>4. CASE pc'[w] = "acknowledged"
    <2>1. turn' = turn
      BY <1>4, Goes DEF Phase, Busy
    <2>2. Host' = Host
      BY <2>1 DEF Host
    <2>3. \A j \in Item \ {held[w]} : StartPending(j)' = StartPending(j)
      BY <1>1, <2>1 DEF IInv, FenceGood, StartPending
    <2>4. CASE Mine(w)
      <3>1. PICK i \in Item : i = held[w] /\ Leaves(i)
        BY <2>4, MineLeaves DEF Busy, Settled
      <3>2. \A j \in Item \ {i} : StatusOf(j)' = StatusOf(j)
        BY <1>2, <2>3, <3>1 DEF Leaves, StatusOf
      <3>3. StatusOf(i) = "waiting" /\ StatusOf(i)' \in {"waiting", "gone"}
        BY <1>2, <3>1 DEF IInv, BegunGone, Leaves, Live, Settled, StatusOf
      <3>4. CASE StatusOf(i)' = "gone"
        BY <2>2, <3>2, <3>3, <3>4, RemoveMaps
      <3>5. CASE StatusOf(i)' = "waiting"
        <4>1. \A j \in Item : StatusOf(j)' = StatusOf(j)
          BY <3>2, <3>3, <3>5
        <4> QED
          BY <2>2, <4>1, StutterMaps
      <3> QED
        BY <3>3, <3>4, <3>5
    <2>5. CASE ~Mine(w)
      <3>1. w = "sender" /\ row' = row
        BY <1>4, <2>5, Goes DEF Phase, Busy
      <3>2. \A j \in Item : StartPending(j)' = StartPending(j)
        BY <1>1, <1>4, <2>1, <3>1 DEF IInv, FenceGood, StartPending
      <3>3. \A j \in Item : StatusOf(j)' = StatusOf(j)
        BY <1>2, <3>1, <3>2 DEF StatusOf
      <3> QED
        BY <2>2, <3>3, StutterMaps
    <2> QED
      BY <2>4, <2>5
  <1> QED
    BY <1>3, <1>4, Goes DEF Phase, Busy

(* The Turn at its fence starts, once, or ends without its host.           *)
LEMMA StartStepMaps == ASSUME IInv, NEW w \in Worker, Start(w) PROVE Mapped
  <1> USE DEF Start
  <1>1. \A v \in Worker : v # w => pc'[v] = pc[v]
    BY Goes, Finishes DEF Phase, Busy
  <1>2. CASE turn.by = w /\ turn.phase = "waiting" /\ turn' = NoTurn
    BY <1>2, FenceFailsMaps DEF NoTurn
  <1>3. CASE turn.by = w /\ turn.phase = "waiting" /\ turn' # NoTurn
    <2>1. PICK i \in Item : i = turn.item /\ i = held[w]
      BY <1>3 DEF IInv, FenceGood
    <2>2. turn'.phase = "running" /\ turn'.item = i /\ begun' = begun \cup {i}
      BY <1>3, <2>1 DEF IInv, Typed, Turns
    <2>3. StatusOf(i) = "waiting" /\ StatusOf(i)' = "started"
      BY <1>3, <2>1, <2>2 DEF IInv, FenceGood, StatusOf, StartPending
    <2>4. \A j \in Item \ {i} : StatusOf(j)' = StatusOf(j)
      BY <2>1, <2>2 DEF StatusOf, StartPending
    <2>5. Host = None /\ Host' = i
      BY <1>3, <2>2 DEF Host
    <2> QED
      BY <2>3, <2>4, <2>5, StartMaps
  <1>4. CASE ~(turn.by = w /\ turn.phase = "waiting")
    <2>1. TurnAside
      BY <1>1, <1>4 DEF IInv, FenceGood, TurnAside
    <2> QED
      BY <1>4, <2>1, RowsLive, LiveKeptMaps
  <1> QED
    BY <1>2, <1>3, <1>4

LEMMA DeliverMaps == ASSUME IInv, NEW w \in Worker, Deliver(w) PROVE Mapped
  BY ReleaseStoppedMaps, CancelRequestedMaps, DeferMaps, RefuseMaps, FailsMaps,
     SettlementFailsMaps, PrepareMaps, SubmitMaps, SettleRejectedMaps,
     DeliveryFailsMaps, AcknowledgeMaps, AcknowledgeFailsMaps, SettleThrownMaps,
     StartStepMaps
     DEF Deliver

----------------------------------------------------------------------------
(* Claims, the drain's pass and the steering of the sender.                *)

LEMMA DrainStepMaps == ASSUME IInv, DrainStep PROVE Mapped
  <1>1. CASE Begin
    <2>1. TurnAside
      BY <1>1, WorkerAside, DrainIsWorker DEF Begin, IInv, Typed
    <2> QED
      BY <1>1, <2>1, RowsLive, LiveKeptMaps DEF Begin
  <1>2. CASE RecoverBeforeNextClaim
    <2>1. LiveKept
      BY <1>2, RowsLive, ReleaseRowLive DEF RecoverBeforeNextClaim, Stale
    <2>2. TurnAside
      BY <1>2, Goes, Throws, WorkerAside, DrainIsWorker
         DEF RecoverBeforeNextClaim, Phase, Busy
    <2> QED
      BY <2>1, <2>2, LiveKeptMaps
  <1>3. CASE ClaimNextIfOpen
    <2> USE DEF ClaimNextIfOpen
    <2>1. CASE \E i \in FirstOf(Queued \ yielded) : ClaimRow("drain", i)
      BY <1>3, <2>1, ClaimRowMaps, DrainIsWorker DEF FirstOf, Queued
    <2>2. CASE row' = row /\ Finish("drain", FALSE)
      <3>1. TurnAside
        BY <1>3, <2>2, Finishes, WorkerAside, DrainIsWorker
      <3> QED
        BY <2>2, <3>1, RowsLive, LiveKeptMaps
    <2> QED
      BY <1>3, <2>1, <2>2
  <1> QED
    BY <1>1, <1>2, <1>3, DeliverMaps, DrainIsWorker DEF DrainStep

LEMMA SenderStepMaps == ASSUME IInv, SenderStep PROVE Mapped
  <1> USE OthersAreWorkers
  <1>1. CASE Steer
    <2>1. TurnAside
      BY <1>1, Goes, WorkerAside DEF Steer, Phase, Busy
    <2> QED
      BY <1>1, <2>1, RowsLive, LiveKeptMaps DEF Steer
  <1>2. CASE EndQueuePause
    <2> USE <1>2 DEF EndQueuePause
    <2>1. \A v \in Worker : v # "sender" => pc'[v] = pc[v]
      BY Goes, Finishes DEF Phase, Busy
    <2>2. TurnAside
      BY <2>1, WorkerAside
    <2> QED
      BY <2>2, RowsLive, LiveKeptMaps
  <1>3. CASE ConsumeSteered
    <2>1. TurnAside
      BY <1>3, Finishes, WorkerAside DEF ConsumeSteered
    <2>2. CASE Mine("sender") /\ RemoveRow(held["sender"], "steered")
      BY <1>3, <2>1, <2>2, MineLeaves, LeavesMaps DEF ConsumeSteered, Settled, Busy
    <2>3. CASE row' = row
      BY <2>1, <2>3, RowsLive, LiveKeptMaps
    <2> QED
      BY <1>3, <2>2, <2>3 DEF ConsumeSteered
  <1> QED
    BY <1>1, <1>2, <1>3 DEF SenderStep

----------------------------------------------------------------------------
(* Turns end, users act, the process crashes.                              *)

LEMMA SessionFreesMaps == ASSUME SessionFrees PROVE Mapped
  <1>1. row' = row /\ begun' = begun /\ turn' = NoTurn /\ turn.phase # "waiting"
    BY DEF SessionFrees, TurnEnds, FailureSettles, HoldEnds
  <1>2. Host' = None /\ turn'.phase # "waiting"
    BY <1>1 DEF Host, NoTurn
  <1> QED
    BY <1>1, <1>2, RowsLive, NoFenceMaps

(* A message is enqueued once: it was not begun, and no Turn waits for it. *)
LEMMA EnqueueStepMaps == ASSUME IInv, NEW i \in Item, Enqueue(i) PROVE Mapped
  <1> USE DEF Enqueue
  <1>1. TurnAside
    BY ProcessAside DEF process
  <1>2. /\ row[i] = "new" /\ row'[i] = "queued"
        /\ \A j \in Item \ {i} : row'[j] = row[j]
    BY DEF IInv, Typed
  <1>3. i \notin begun /\ ~StartPending(i)
    BY <1>2 DEF IInv, BegunGone, FenceGood, HeldGood, Busy, StartPending, Settled
  <1>4. StatusOf(i) = "absent" /\ StatusOf(i)' = "waiting"
    BY <1>1, <1>2, <1>3 DEF StatusOf, TurnAside
  <1>5. \A j \in Item \ {i} : StatusOf(j)' = StatusOf(j)
    BY <1>1, <1>2, PendingKept DEF StatusOf, TurnAside
  <1> QED
    BY <1>1, <1>4, <1>5, PendingKept, EnqueueMaps

LEMMA UserStepMaps == ASSUME IInv, UserStep PROVE Mapped
  <1>1. ASSUME NEW i \in Item, UserCancel(i) PROVE Mapped
    <2>1. Leaves(i)
      BY <1>1, RemoveRowLeaves DEF UserCancel, Live, Settled
    <2>2. TurnAside
      BY <1>1, ProcessAside DEF UserCancel, process
    <2> QED
      BY <2>1, <2>2, LeavesMaps
  <1>2. ASSUME NEW i \in Item, RequestCancellation(i) PROVE Mapped
    BY <1>2, ProcessAside, RowsLive, LiveKeptMaps DEF RequestCancellation, process
  <1>3. CASE ContinuePaused
    BY <1>3, ClaimRowMaps, OthersAreWorkers DEF ContinuePaused, FirstOf, Queued
  <1>4. CASE ClaimSelected
    BY <1>4, ClaimRowMaps, OthersAreWorkers DEF ClaimSelected, Queued
  <1>5. CASE Poke
    BY <1>5, ProcessAside, RowsLive, LiveKeptMaps DEF Poke
  <1> QED
    BY <1>1, <1>2, <1>3, <1>4, <1>5, EnqueueStepMaps DEF UserStep

(* A crash ends the host run, or leaves the Turn at its fence without one; *)
(* the rows survive it.                                                    *)
LEMMA CrashMaps == ASSUME IInv, Crash PROVE Mapped
  <1> USE DEF Crash
  <1>1. row' = row /\ begun' = begun /\ turn'.phase \notin {"waiting", "running"}
    BY DEF NoTurn, TurnOf
  <1>2. CASE turn.phase = "waiting"
    BY <1>1, <1>2, FenceFailsMaps
  <1>3. CASE turn.phase # "waiting"
    BY <1>1, <1>3, RowsLive, NoFenceMaps DEF Host
  <1> QED
    BY <1>2, <1>3

LEMMA EnvironmentMaps == ASSUME IInv, Environment PROVE Mapped
  <1>1. CASE HoldBegins
    BY <1>1, RowsLive, NoFenceMaps DEF HoldBegins, TurnOf, NoTurn, Host
  <1>2. CASE QuiesceSession
    BY <1>2, ProcessAside, RowsLive, LiveKeptMaps DEF QuiesceSession
  <1>3. CASE LeaseRunsOut
    BY <1>3, ProcessAside, RowsLive, LiveKeptMaps DEF LeaseRunsOut, process
  <1>4. CASE RecoverPending
    BY <1>4, ProcessAside, ReleaseRowLive, LiveKeptMaps DEF RecoverPending, Stale, process
  <1>5. CASE RecoverState
    BY <1>5, RowsLive, NoFenceMaps DEF RecoverState, NoTurn, Host
  <1> QED
    BY <1>1, <1>2, <1>3, <1>4, <1>5, CrashMaps DEF Environment

----------------------------------------------------------------------------
LEMMA InitMaps == Init => Promise!Init
  <1> SUFFICES ASSUME Init PROVE Promise!Init
    OBVIOUS
  <1>1. \A i \in Item : StatusOf(i) = "absent"
    BY DEF Init, StatusOf, StartPending, NoTurn
  <1> QED
    BY <1>1 DEF Init, NoTurn, Promise!Init

(* Every step of the deliveries is a step of the promise, or a stutter.    *)
LEMMA StepMaps == IInv /\ [Next]_vars => [Promise!Next]_(Promise!vars)
  <1> SUFFICES ASSUME IInv, [Next]_vars PROVE Mapped
    BY DEF Mapped
  <1>1. CASE UNCHANGED vars
    BY <1>1, ProcessAside, RowsLive, LiveKeptMaps DEF vars, process
  <1>2. CASE Dispatch
    BY <1>2, ProcessAside, RowsLive, LiveKeptMaps DEF Dispatch
  <1> QED
    BY <1>1, <1>2, DrainStepMaps, SenderStepMaps, SessionFreesMaps, DeliverMaps,
       OthersAreWorkers, UserStepMaps, EnvironmentMaps DEF Next

(* The deliveries implement the safety of the promise: a message is started*)
(* at most once, never after it was cancelled, refused or steered away,    *)
(* never removed after it was started, and no two host runs overlap,       *)
(* through failed acknowledgements and releases, slow deliveries, aborted  *)
(* starts and crashes.                                                     *)
THEOREM DeliveryImplementsPromise == Spec => DeliverySafe
  BY InitMaps, StepMaps, DispatchInvariant, PTL DEF Spec, DeliverySafe
=============================================================================
