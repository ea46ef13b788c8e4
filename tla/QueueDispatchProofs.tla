------------------------- MODULE QueueDispatchProofs -------------------------
(***************************************************************************)
(* Theorems about QueueDispatch, for any number of messages, any workers,  *)
(* mishaps, restarts and disturbances.                                     *)
(*                                                                         *)
(* Why a message starts once: a Turn that waits at its start fence belongs *)
(* to a worker that holds the message, and starts only after the worker    *)
(* acknowledged, that is removed the row; a row that was removed does not  *)
(* come back, because every release returns a claimed row.                 *)
(***************************************************************************)
EXTENDS QueueDispatch, TLAPS

RowState == {"new", "queued", "claimed", "gone", "steered"}
Settled == {"gone", "steered"}

(* The phases in which a worker has a message to deliver.                  *)
Busy == {"claimed", "prepared", "rejected", "raced", "threw", "accepted",
         "acknowledged", "steered", "consuming", "unpausing"}

Claims == [item : Item \cup {None}, by : Worker \cup {None, "dead"},
           fresh : BOOLEAN]
Turns == [phase : {"free", "waiting", "running", "failing", "held", "orphan"},
          by : Worker \cup {None}, item : Item \cup {None}]

Typed ==
    /\ row \in [Item -> RowState] /\ claim \in Claims /\ turn \in Turns
    /\ pc \in [Worker -> Phase] /\ held \in [Worker -> Item \cup {None}]
    /\ begun \subseteq Item

(* A claim stands for a claimed row, and for the one its worker delivers.  *)
ClaimGood ==
    claim # NoClaim =>
        /\ claim.item \in Item /\ row[claim.item] = "claimed"
        /\ \A w \in Worker : claim.by = w /\ held[w] # None => held[w] = claim.item

(* A worker delivers a message that was enqueued.                          *)
HeldGood ==
    \A w \in Worker : pc[w] \in Busy => held[w] \in Item /\ row[held[w]] # "new"

(* What was started is off the queue.                                      *)
BegunGone == \A i \in begun : row[i] \in Settled

(* A Turn at its start fence: its worker is between acceptance and start,  *)
(* and the message is off the queue once it was acknowledged.              *)
FenceGood ==
    turn.phase = "waiting" =>
        /\ turn.by \in Worker /\ turn.item \in Item
        /\ held[turn.by] = turn.item /\ turn.item \notin begun
        /\ pc[turn.by] \in {"accepted", "acknowledged"}
        /\ pc[turn.by] = "acknowledged" => row[turn.item] \in Settled

IInv == Typed /\ ClaimGood /\ HeldGood /\ BegunGone /\ FenceGood

(* What a step keeps: the invariant, the rows that are settled, and no     *)
(* second start.                                                           *)
SettledKept == \A i \in Item : row[i] \in Settled => row'[i] = row[i]
StartsOnce == turn.phase = "waiting" /\ turn'.phase = "running" => turn.item \notin begun
SafeStep == IInv' /\ SettledKept /\ StartsOnce

(* The parts of a step.  A transaction of the queue but a claim keeps the  *)
(* claim or ends it, settles rows for good and makes none new.             *)
RowStep ==
    /\ row' \in [Item -> RowState]
    /\ claim' # NoClaim => claim' = claim /\ row'[claim.item] = row[claim.item]
    /\ claim' \in Claims
    /\ SettledKept
    /\ \A i \in Item : row[i] # "new" => row'[i] # "new"

(* A worker goes on with its message or lets it go.                        *)
WorkStep ==
    /\ pc' \in [Worker -> Phase] /\ held' \in [Worker -> Item \cup {None}]
    /\ \A w \in Worker : held'[w] # None => held'[w] = held[w]
    /\ \A w \in Worker : pc'[w] \in Busy => pc[w] \in Busy /\ held'[w] = held[w]

(* The Turn stays, and so does its worker if it waits; or no Turn waits.   *)
TurnStep ==
    /\ turn' \in Turns
    /\ \/ /\ turn' = turn
          /\ turn.phase = "waiting" =>
                 pc'[turn.by] = pc[turn.by] /\ held'[turn.by] = held[turn.by]
       \/ turn'.phase \notin {"waiting", "running"}

----------------------------------------------------------------------------
(* A step made of these parts is safe.                                     *)
LEMMA PartsSafe ==
    ASSUME IInv, RowStep, WorkStep, TurnStep, begun' = begun
    PROVE  SafeStep
  <1>1. Typed'
    BY DEF IInv, Typed, RowStep, WorkStep, TurnStep
  <1>2. ClaimGood'
    BY DEF IInv, ClaimGood, RowStep, WorkStep
  <1>3. HeldGood'
    BY DEF IInv, Typed, HeldGood, RowStep, WorkStep
  <1>4. BegunGone'
    BY DEF IInv, Typed, BegunGone, RowStep, SettledKept, Settled
  <1>5. FenceGood'
    BY DEF IInv, Typed, FenceGood, RowStep, TurnStep, SettledKept, Settled
  <1>6. StartsOnce
    BY DEF StartsOnce, TurnStep
  <1> QED
    BY <1>1, <1>2, <1>3, <1>4, <1>5, <1>6 DEF IInv, SafeStep, RowStep

(* A worker that waits at the fence is between acceptance and start.       *)
LEMMA FenceOf ==
    ASSUME IInv, NEW w \in Worker, pc[w] \notin {"accepted", "acknowledged"}
    PROVE  turn.phase = "waiting" => turn.by \in Worker /\ turn.by # w
  BY DEF IInv, FenceGood

(* The worker that has the claim delivers the claimed row.                 *)
LEMMA MineIsHeld ==
    ASSUME IInv, NEW w \in Worker, Mine(w)
    PROVE  /\ claim # NoClaim /\ claim.item \in Item /\ row[claim.item] = "claimed"
           /\ held[w] # None => held[w] = claim.item
  BY ConstantsAssumption
     DEF IInv, Typed, ClaimGood, Mine, NoClaim, Worker, ConstantsAssumption

LEMMA NoClaimTyped == NoClaim \in Claims
  BY DEF NoClaim, Claims

(* Nothing happens to the rows.                                            *)
LEMMA RowsStay == ASSUME IInv, row' = row, claim' = claim PROVE RowStep
  BY DEF IInv, Typed, RowStep, SettledKept

(* A release returns a claimed row.                                        *)
LEMMA ReleaseRowSafe == ASSUME IInv, claim # NoClaim, ReleaseRow PROVE RowStep
  <1>1. claim.item \in Item /\ row[claim.item] = "claimed"
    BY DEF IInv, ClaimGood
  <1>2. row' \in [Item -> RowState]
    BY DEF IInv, Typed, ReleaseRow, RowState
  <1>3. SettledKept
    BY <1>1 DEF IInv, Typed, ReleaseRow, SettledKept, Settled
  <1> QED
    BY <1>1, <1>2, <1>3, NoClaimTyped DEF IInv, Typed, ReleaseRow, RowStep

LEMMA ReleaseSafe == ASSUME IInv, NEW w \in Worker, Release(w) PROVE RowStep
  BY RowsStay, ReleaseRowSafe, MineIsHeld DEF Release

(* A removal settles a row that was in the queue.                          *)
LEMMA RemoveRowSafe ==
    ASSUME IInv, NEW i \in Item, NEW as \in Settled, row[i] \notin Settled,
           RemoveRow(i, as)
    PROVE  RowStep /\ row'[i] = as
  <1>1. row' \in [Item -> RowState] /\ row'[i] = as
    BY DEF IInv, Typed, RemoveRow, RowState, Settled
  <1>2. SettledKept
    BY DEF IInv, Typed, RemoveRow, SettledKept, Settled
  <1>3. claim' \in Claims
    BY NoClaimTyped DEF IInv, Typed, RemoveRow
  <1>4. claim' # NoClaim => claim' = claim /\ row'[claim.item] = row[claim.item]
    BY DEF IInv, Typed, ClaimGood, RemoveRow
  <1>5. \A j \in Item : row[j] # "new" => row'[j] # "new"
    BY DEF IInv, Typed, RemoveRow, Settled
  <1> QED
    BY <1>1, <1>2, <1>3, <1>4, <1>5 DEF RowStep

LEMMA MineRemoved ==
    ASSUME IInv, NEW w \in Worker, Mine(w), pc[w] \in Busy, NEW as \in Settled,
           RemoveRow(held[w], as)
    PROVE  RowStep /\ row'[held[w]] = as
  <1>1. held[w] \in Item /\ row[held[w]] = "claimed"
    BY MineIsHeld, ConstantsAssumption DEF IInv, HeldGood, ConstantsAssumption
  <1> QED
    BY <1>1, RemoveRowSafe DEF Settled

(* A worker lets its message go.                                           *)
LEMMA Yields ==
    ASSUME IInv, NEW w \in Worker, NEW next \in {"idle", "begin"}, NEW yields,
           YieldAs(w, next, yields)
    PROVE  /\ WorkStep
           /\ \A v \in Worker : v # w => pc'[v] = pc[v] /\ held'[v] = held[v]
  BY DEF IInv, Typed, YieldAs, WorkStep, Phase, Busy

LEMMA Finishes ==
    ASSUME IInv, NEW w \in Worker, NEW again, Finish(w, again)
    PROVE  /\ WorkStep
           /\ \A v \in Worker : v # w => pc'[v] = pc[v] /\ held'[v] = held[v]
  BY Yields DEF Finish, EndAs

LEMMA Throws ==
    ASSUME IInv, NEW w \in Worker, Throw(w)
    PROVE  /\ WorkStep
           /\ \A v \in Worker : v # w => pc'[v] = pc[v] /\ held'[v] = held[v]
  BY Yields DEF Throw, EndAs

(* A worker goes on with its message.                                      *)
LEMMA Goes ==
    ASSUME IInv, NEW w \in Worker, NEW next \in Phase, Goto(w, next),
           pc[w] \in Busy \/ next \notin Busy
    PROVE  /\ WorkStep /\ pc'[w] = next
           /\ \A v \in Worker : v # w => pc'[v] = pc[v] /\ held'[v] = held[v]
  BY DEF IInv, Typed, Goto, WorkStep

LEMMA WorkersStay == ASSUME IInv, pc' = pc, held' = held PROVE WorkStep
  BY DEF IInv, Typed, WorkStep

(* A Turn is no worker's that does not wait for it.                        *)
LEMMA TurnStays ==
    ASSUME IInv, NEW w \in Worker, turn' = turn,
           pc[w] \notin {"accepted", "acknowledged"},
           \A v \in Worker : v # w => pc'[v] = pc[v] /\ held'[v] = held[v]
    PROVE  TurnStep
  BY FenceOf DEF IInv, Typed, TurnStep

(* A worker's step that leaves the Turn alone, which is not at its fence.  *)
LEMMA TurnAsideSafe ==
    ASSUME IInv, NEW w \in Worker, RowStep, WorkStep, turn' = turn, begun' = begun,
           pc[w] \notin {"accepted", "acknowledged"},
           \A v \in Worker : v # w => pc'[v] = pc[v] /\ held'[v] = held[v]
    PROVE  SafeStep
  BY TurnStays, PartsSafe

(* A step of others than the workers, the rows and the Turn.               *)
LEMMA AsideSafe ==
    ASSUME IInv, row' = row, claim' = claim, pc' = pc, held' = held, turn' = turn,
           begun' = begun
    PROVE  SafeStep
  <1>1. TurnStep
    BY DEF IInv, Typed, TurnStep
  <1> QED
    BY <1>1, RowsStay, WorkersStay, PartsSafe

----------------------------------------------------------------------------
(* The steps of a delivery that leave the Turn alone.                      *)

LEMMA ReleaseStoppedSafe == ASSUME IInv, NEW w \in Worker, ReleaseStopped(w) PROVE SafeStep
  <1>1. RowStep
    BY ReleaseSafe DEF ReleaseStopped
  <1>2. /\ WorkStep
        /\ \A v \in Worker : v # w => pc'[v] = pc[v] /\ held'[v] = held[v]
    BY Finishes DEF ReleaseStopped
  <1> QED
    BY <1>1, <1>2, TurnAsideSafe DEF ReleaseStopped

LEMMA CancelRequestedSafe == ASSUME IInv, NEW w \in Worker, CancelRequested(w) PROVE SafeStep
  <1>1. pc[w] \in Busy /\ pc[w] \notin {"accepted", "acknowledged"}
    BY DEF CancelRequested, Dispatching, Busy
  <1>2. RowStep
    BY <1>1, MineRemoved, RowsStay DEF CancelRequested, Settled
  <1>3. /\ WorkStep
        /\ \A v \in Worker : v # w => pc'[v] = pc[v] /\ held'[v] = held[v]
    BY Finishes, Throws DEF CancelRequested
  <1> QED
    BY <1>1, <1>2, <1>3, TurnAsideSafe DEF CancelRequested

LEMMA DeferSafe == ASSUME IInv, NEW w \in Worker, Defer(w) PROVE SafeStep
  <1>1. pc[w] \notin {"accepted", "acknowledged"}
    BY DEF Defer, Dispatching
  <1>2. RowStep
    BY ReleaseSafe DEF Defer
  <1>3. /\ WorkStep
        /\ \A v \in Worker : v # w => pc'[v] = pc[v] /\ held'[v] = held[v]
    BY Yields DEF Defer
  <1> QED
    BY <1>1, <1>2, <1>3, TurnAsideSafe DEF Defer

LEMMA RefuseSafe == ASSUME IInv, NEW w \in Worker, Refuse(w) PROVE SafeStep
  <1>1. pc[w] \in Busy /\ pc[w] \notin {"accepted", "acknowledged"}
    BY DEF Refuse, Dispatching, Busy
  <1>2. RowStep
    BY <1>1, MineRemoved, ReleaseSafe, RowsStay DEF Refuse, Settled
  <1>3. /\ WorkStep
        /\ \A v \in Worker : v # w => pc'[v] = pc[v] /\ held'[v] = held[v]
    BY Finishes, Throws DEF Refuse
  <1> QED
    BY <1>1, <1>2, <1>3, TurnAsideSafe DEF Refuse

LEMMA FailsSafe == ASSUME IInv, NEW w \in Worker, Fails(w) PROVE SafeStep
  <1>1. RowStep
    BY RowsStay DEF Fails
  <1>2. /\ WorkStep
        /\ \A v \in Worker : v # w => pc'[v] = pc[v] /\ held'[v] = held[v]
    BY Goes DEF Fails, Phase, Busy
  <1> QED
    BY <1>1, <1>2, TurnAsideSafe DEF Fails

LEMMA SettlementFailsSafe == ASSUME IInv, NEW w \in Worker, SettlementFails(w) PROVE SafeStep
  <1>1. RowStep
    BY RowsStay DEF SettlementFails
  <1>2. /\ WorkStep
        /\ \A v \in Worker : v # w => pc'[v] = pc[v] /\ held'[v] = held[v]
    BY Throws DEF SettlementFails
  <1> QED
    BY <1>1, <1>2, TurnAsideSafe DEF SettlementFails

LEMMA PrepareSafe == ASSUME IInv, NEW w \in Worker, Prepare(w) PROVE SafeStep
  <1>1. RowStep
    BY RowsStay DEF Prepare
  <1>2. /\ WorkStep
        /\ \A v \in Worker : v # w => pc'[v] = pc[v] /\ held'[v] = held[v]
    BY Goes DEF Prepare, Phase, Busy
  <1> QED
    BY <1>1, <1>2, TurnAsideSafe DEF Prepare

LEMMA SettleRejectedSafe == ASSUME IInv, NEW w \in Worker, SettleRejected(w) PROVE SafeStep
  <1>1. RowStep
    BY ReleaseSafe DEF SettleRejected
  <1>2. /\ WorkStep
        /\ \A v \in Worker : v # w => pc'[v] = pc[v] /\ held'[v] = held[v]
    BY Finishes DEF SettleRejected
  <1> QED
    BY <1>1, <1>2, TurnAsideSafe DEF SettleRejected

LEMMA SettleThrownSafe == ASSUME IInv, NEW w \in Worker, SettleThrown(w) PROVE SafeStep
  <1>1. RowStep
    BY ReleaseSafe, RowsStay DEF SettleThrown
  <1>2. /\ WorkStep
        /\ \A v \in Worker : v # w => pc'[v] = pc[v] /\ held'[v] = held[v]
    BY Throws DEF SettleThrown
  <1> QED
    BY <1>1, <1>2, TurnAsideSafe DEF SettleThrown

----------------------------------------------------------------------------
(* The steps at the start fence.                                           *)

(* An admitted message was not begun: it is claimed.                       *)
LEMMA SubmitSafe == ASSUME IInv, NEW w \in Worker, Submit(w) PROVE SafeStep
  <1> USE DEF Submit
  <1>1. RowStep
    BY RowsStay
  <1>2. /\ WorkStep
        /\ \A v \in Worker : v # w => pc'[v] = pc[v] /\ held'[v] = held[v]
    BY Goes DEF Phase, Busy
  <1>3. CASE turn' = turn
    BY <1>1, <1>2, <1>3, TurnAsideSafe
  <1>4. CASE turn' = TurnOf("failing", w, held[w])
    <2>1. TurnStep
      BY <1>4 DEF IInv, Typed, TurnStep, Turns, TurnOf
    <2> QED
      BY <1>1, <1>2, <2>1, PartsSafe
  <1>5. CASE turn # turn' /\ turn' = TurnOf("waiting", w, held[w])
    <2>1. Admits(w) /\ turn = NoTurn /\ pc'[w] = "accepted" /\ held' = held
      BY <1>2, <1>5, Goes DEF Goto, Phase, Busy
    <2>2. held[w] \in Item /\ row[held[w]] = "claimed"
      BY <2>1, MineIsHeld, ConstantsAssumption
         DEF Admits, IInv, HeldGood, Busy, ConstantsAssumption
    <2>3. Typed' /\ ClaimGood' /\ HeldGood' /\ BegunGone'
      BY <1>1, <1>2, <1>5, <2>2
         DEF IInv, Typed, ClaimGood, HeldGood, BegunGone, RowStep, WorkStep, Turns, TurnOf
    <2>4. FenceGood'
      BY <1>5, <2>1, <2>2 DEF IInv, BegunGone, FenceGood, TurnOf, Settled
    <2> QED
      BY <1>1, <1>5, <2>1, <2>3, <2>4
         DEF IInv, SafeStep, RowStep, StartsOnce, NoTurn
  <1> QED
    BY <1>3, <1>4, <1>5 DEF Goto

(* A worker that fails before its start takes its waiting Turn with it.    *)
LEMMA FailStartStep ==
    ASSUME IInv, NEW w \in Worker, FailStart(w),
           \A v \in Worker : v # w => pc'[v] = pc[v] /\ held'[v] = held[v]
    PROVE  TurnStep
  BY DEF IInv, Typed, FenceGood, FailStart, TurnStep, Turns

LEMMA DeliveryFailsSafe == ASSUME IInv, NEW w \in Worker, DeliveryFails(w) PROVE SafeStep
  <1>1. RowStep
    BY RowsStay DEF DeliveryFails
  <1>2. /\ WorkStep
        /\ \A v \in Worker : v # w => pc'[v] = pc[v] /\ held'[v] = held[v]
    BY Goes DEF DeliveryFails, Phase, Busy
  <1>3. TurnStep
    BY <1>2, FailStartStep DEF DeliveryFails
  <1> QED
    BY <1>1, <1>2, <1>3, PartsSafe DEF DeliveryFails

LEMMA AcknowledgeFailsSafe == ASSUME IInv, NEW w \in Worker, AcknowledgeFails(w) PROVE SafeStep
  <1>1. RowStep
    BY RowsStay DEF AcknowledgeFails
  <1>2. /\ WorkStep
        /\ \A v \in Worker : v # w => pc'[v] = pc[v] /\ held'[v] = held[v]
    BY Goes DEF AcknowledgeFails, Phase, Busy
  <1>3. TurnStep
    BY <1>2, FailStartStep DEF AcknowledgeFails
  <1> QED
    BY <1>1, <1>2, <1>3, PartsSafe DEF AcknowledgeFails

(* The row is off the queue when its worker is acknowledged.               *)
LEMMA AcknowledgeSafe == ASSUME IInv, NEW w \in Worker, Acknowledge(w) PROVE SafeStep
  <1> USE DEF Acknowledge
  <1>1. /\ WorkStep /\ held' = held /\ begun' = begun
        /\ \A v \in Worker : v # w => pc'[v] = pc[v] /\ held'[v] = held[v]
    BY Goes DEF Phase, Busy, Goto
  <1>2. CASE pc'[w] = "threw"
    <2>1. RowStep
      BY <1>2, RowsStay, Goes DEF Phase, Busy
    <2>2. TurnStep
      BY <1>1, <1>2, FailStartStep, Goes DEF Phase, Busy
    <2> QED
      BY <1>1, <2>1, <2>2, PartsSafe
  <1>3. CASE pc'[w] = "acknowledged"
    <2>1. turn' = turn
      BY <1>3, Goes DEF Phase, Busy
    <2>2. RowStep /\ row'[held[w]] \in Settled
      <3>1. CASE Mine(w)
        BY <3>1, MineRemoved DEF Settled, Busy
      <3>2. CASE ~Mine(w)
        <4>1. row' = row /\ claim' = claim /\ held[w] \notin Pending(row)
          BY <1>3, <3>2, Goes DEF Phase, Busy
        <4>2. held[w] \in Item /\ row[held[w]] \in RowState /\ row[held[w]] # "new"
          BY DEF IInv, Typed, HeldGood, Busy
        <4>3. row[held[w]] \in Settled
          BY <4>1, <4>2 DEF Pending, RowState, Settled
        <4> QED
          BY <4>1, <4>3, RowsStay
      <3> QED
        BY <3>1, <3>2
    <2>3. Typed' /\ ClaimGood' /\ HeldGood' /\ BegunGone'
      BY <1>1, <2>1, <2>2
         DEF IInv, Typed, ClaimGood, HeldGood, BegunGone, RowStep, WorkStep,
             SettledKept, Settled
    <2>4. FenceGood'
      BY <1>1, <1>3, <2>1, <2>2
         DEF IInv, Typed, FenceGood, RowStep, SettledKept, Settled
    <2> QED
      BY <2>1, <2>2, <2>3, <2>4 DEF IInv, SafeStep, RowStep, StartsOnce
  <1> QED
    BY <1>2, <1>3, Goes DEF Phase, Busy

(* The host starts for a message that is off the queue.                    *)
LEMMA StartSafe == ASSUME IInv, NEW w \in Worker, Start(w) PROVE SafeStep
  <1> USE DEF Start
  <1>1. RowStep
    BY RowsStay
  <1>2. /\ WorkStep
        /\ \A v \in Worker : v # w => pc'[v] = pc[v] /\ held'[v] = held[v]
    BY Goes, Finishes DEF Phase, Busy
  <1>3. CASE turn.by = w /\ turn.phase = "waiting"
    <2>1. /\ turn.item = held[w] /\ held[w] \in Item /\ row[held[w]] \in Settled
          /\ held[w] \notin begun
      BY <1>3 DEF IInv, FenceGood
    <2>2. /\ turn' \in Turns /\ turn'.phase # "waiting"
          /\ begun' \subseteq begun \cup {held[w]}
      BY <1>3 DEF IInv, Typed, Turns, NoTurn
    <2>3. Typed' /\ ClaimGood' /\ HeldGood'
      BY <1>1, <1>2, <2>1, <2>2
         DEF IInv, Typed, ClaimGood, HeldGood, RowStep, WorkStep
    <2>4. BegunGone' /\ FenceGood'
      BY <2>1, <2>2 DEF IInv, BegunGone, FenceGood
    <2> QED
      BY <1>1, <2>1, <2>3, <2>4 DEF IInv, SafeStep, RowStep, StartsOnce
  <1>4. CASE ~(turn.by = w /\ turn.phase = "waiting")
    <2>1. TurnStep
      BY <1>2, <1>4 DEF IInv, Typed, FenceGood, TurnStep
    <2> QED
      BY <1>1, <1>2, <1>4, <2>1, PartsSafe
  <1> QED
    BY <1>3, <1>4

LEMMA DeliverSafe == ASSUME IInv, NEW w \in Worker, Deliver(w) PROVE SafeStep
  BY ReleaseStoppedSafe, CancelRequestedSafe, DeferSafe, RefuseSafe, FailsSafe,
     SettlementFailsSafe, PrepareSafe, SubmitSafe, SettleRejectedSafe,
     DeliveryFailsSafe, AcknowledgeSafe, AcknowledgeFailsSafe, SettleThrownSafe,
     StartSafe
     DEF Deliver

----------------------------------------------------------------------------
(* Claims.                                                                 *)

(* A claim takes a queued row for a worker that is not at a fence.         *)
LEMMA ClaimRowSafe ==
    ASSUME IInv, NEW w \in Worker, NEW i \in Item, row[i] = "queued", claim = NoClaim,
           pc[w] \notin {"accepted", "acknowledged"}, ClaimRow(w, i),
           turn' = turn, begun' = begun
    PROVE  SafeStep
  <1> USE DEF ClaimRow
  <1>1. /\ row'[i] = "claimed" /\ \A j \in Item : j # i => row'[j] = row[j]
        /\ pc'[w] = "claimed" /\ held'[w] = i
        /\ \A v \in Worker : v # w => pc'[v] = pc[v] /\ held'[v] = held[v]
    BY DEF IInv, Typed
  <1>2. Typed'
    BY DEF IInv, Typed, RowState, Claims, Phase, Worker
  <1>3. ClaimGood'
    BY <1>1 DEF ClaimGood
  <1>4. HeldGood'
    BY <1>1 DEF IInv, HeldGood
  <1>5. SettledKept /\ StartsOnce
    BY <1>1 DEF SettledKept, StartsOnce, Settled
  <1>6. BegunGone'
    BY <1>5 DEF IInv, Typed, BegunGone, SettledKept
  <1>7. FenceGood'
    BY <1>1, <1>5, FenceOf DEF IInv, FenceGood, SettledKept
  <1> QED
    BY <1>2, <1>3, <1>4, <1>5, <1>6, <1>7 DEF IInv, SafeStep

LEMMA DrainIsWorker == "drain" \in Worker
  BY DEF Worker

LEMMA OthersAreWorkers == \A w \in Other : w \in Worker
  BY DEF Worker

LEMMA ClaimNextIfOpenSafe == ASSUME IInv, ClaimNextIfOpen PROVE SafeStep
  <1> USE DEF ClaimNextIfOpen
  <1>1. CASE claim = NoClaim /\ \E i \in FirstOf(Queued \ yielded) : ClaimRow("drain", i)
    BY <1>1, ClaimRowSafe, DrainIsWorker DEF FirstOf, Queued
  <1>2. CASE row' = row /\ claim' = claim /\ Finish("drain", FALSE)
    BY <1>2, RowsStay, Finishes, DrainIsWorker, TurnAsideSafe
  <1> QED
    BY <1>1, <1>2

LEMMA ContinuePausedSafe == ASSUME IInv, ContinuePaused PROVE SafeStep
  BY ClaimRowSafe, OthersAreWorkers DEF ContinuePaused, FirstOf, Queued

LEMMA ClaimSelectedSafe == ASSUME IInv, ClaimSelected PROVE SafeStep
  BY ClaimRowSafe, OthersAreWorkers DEF ClaimSelected, Queued

----------------------------------------------------------------------------
(* The drain's pass and the steering of the sender.                        *)

LEMMA DispatchSafe == ASSUME IInv, Dispatch PROVE SafeStep
  BY AsideSafe DEF Dispatch

LEMMA BeginSafe == ASSUME IInv, Begin PROVE SafeStep
  <1>1. /\ WorkStep
        /\ \A v \in Worker : v # "drain" => pc'[v] = pc[v] /\ held'[v] = held[v]
    BY DEF Begin, IInv, Typed, WorkStep, Phase, Busy
  <1> QED
    BY <1>1, RowsStay, DrainIsWorker, TurnAsideSafe DEF Begin

LEMMA RecoverBeforeNextClaimSafe == ASSUME IInv, RecoverBeforeNextClaim PROVE SafeStep
  <1>1. RowStep
    BY RowsStay, ReleaseRowSafe DEF RecoverBeforeNextClaim, Stale
  <1>2. /\ WorkStep
        /\ \A v \in Worker : v # "drain" => pc'[v] = pc[v] /\ held'[v] = held[v]
    BY Goes, Throws, DrainIsWorker DEF RecoverBeforeNextClaim, Phase, Busy
  <1> QED
    BY <1>1, <1>2, DrainIsWorker, TurnAsideSafe DEF RecoverBeforeNextClaim

LEMMA SteerSafe == ASSUME IInv, Steer PROVE SafeStep
  <1>1. /\ WorkStep
        /\ \A v \in Worker : v # "sender" => pc'[v] = pc[v] /\ held'[v] = held[v]
    BY Goes, OthersAreWorkers DEF Steer, Phase, Busy
  <1> QED
    BY <1>1, RowsStay, OthersAreWorkers, TurnAsideSafe DEF Steer

LEMMA EndQueuePauseSafe == ASSUME IInv, EndQueuePause PROVE SafeStep
  <1>1. /\ WorkStep
        /\ \A v \in Worker : v # "sender" => pc'[v] = pc[v] /\ held'[v] = held[v]
    BY Goes, Finishes, OthersAreWorkers DEF EndQueuePause, Phase, Busy
  <1> QED
    BY <1>1, RowsStay, OthersAreWorkers, TurnAsideSafe DEF EndQueuePause

LEMMA ConsumeSteeredSafe == ASSUME IInv, ConsumeSteered PROVE SafeStep
  <1>1. RowStep
    BY RowsStay, MineRemoved, OthersAreWorkers DEF ConsumeSteered, Settled, Busy
  <1>2. /\ WorkStep
        /\ \A v \in Worker : v # "sender" => pc'[v] = pc[v] /\ held'[v] = held[v]
    BY Finishes, OthersAreWorkers DEF ConsumeSteered
  <1> QED
    BY <1>1, <1>2, OthersAreWorkers, TurnAsideSafe DEF ConsumeSteered

----------------------------------------------------------------------------
(* Turns end, users act, the process crashes.                              *)

(* No worker and no row is concerned, and no Turn starts or waits.         *)
LEMMA TurnLeavesSafe ==
    ASSUME IInv, row' = row, claim' = claim, UNCHANGED process, begun' = begun,
           turn' \in Turns, turn'.phase \notin {"waiting", "running"}
    PROVE  SafeStep
  <1>1. WorkStep
    BY WorkersStay DEF process
  <1>2. TurnStep
    BY DEF TurnStep
  <1> QED
    BY <1>1, <1>2, RowsStay, PartsSafe

(* No worker and no Turn is concerned.                                     *)
LEMMA RowsLeaveSafe ==
    ASSUME IInv, RowStep, UNCHANGED process, turn' = turn, begun' = begun
    PROVE  SafeStep
  <1>1. WorkStep
    BY WorkersStay DEF process
  <1>2. TurnStep
    BY DEF IInv, Typed, TurnStep, process
  <1> QED
    BY <1>1, <1>2, PartsSafe

LEMMA FreeTurn == NoTurn \in Turns /\ NoTurn.phase = "free"
  BY DEF NoTurn, Turns

LEMMA TurnEndsSafe == ASSUME IInv, TurnEnds PROVE SafeStep
  BY FreeTurn, TurnLeavesSafe DEF TurnEnds

LEMMA FailureSettlesSafe == ASSUME IInv, FailureSettles PROVE SafeStep
  BY FreeTurn, TurnLeavesSafe DEF FailureSettles

LEMMA HoldEndsSafe == ASSUME IInv, HoldEnds PROVE SafeStep
  BY FreeTurn, TurnLeavesSafe DEF HoldEnds

LEMMA RecoverStateSafe == ASSUME IInv, RecoverState PROVE SafeStep
  BY FreeTurn, TurnLeavesSafe DEF RecoverState

LEMMA HoldBeginsSafe == ASSUME IInv, HoldBegins PROVE SafeStep
  <1>1. turn' \in Turns /\ turn'.phase = "held"
    BY DEF HoldBegins, Turns, TurnOf
  <1> QED
    BY <1>1, TurnLeavesSafe DEF HoldBegins

LEMMA EnqueueSafe == ASSUME IInv, NEW i \in Item, Enqueue(i) PROVE SafeStep
  <1>1. RowStep
    BY DEF Enqueue, IInv, Typed, ClaimGood, RowStep, RowState, SettledKept, Settled
  <1> QED
    BY <1>1, RowsLeaveSafe DEF Enqueue

LEMMA UserCancelSafe == ASSUME IInv, NEW i \in Item, UserCancel(i) PROVE SafeStep
  <1>1. RowStep
    BY RemoveRowSafe DEF UserCancel, Settled
  <1> QED
    BY <1>1, RowsLeaveSafe DEF UserCancel

LEMMA RequestCancellationSafe == ASSUME IInv, NEW i \in Item, RequestCancellation(i) PROVE SafeStep
  BY RowsStay, RowsLeaveSafe DEF RequestCancellation

LEMMA PokeSafe == ASSUME IInv, Poke PROVE SafeStep
  BY AsideSafe DEF Poke

LEMMA QuiesceSessionSafe == ASSUME IInv, QuiesceSession PROVE SafeStep
  BY AsideSafe DEF QuiesceSession

(* A claim whose lease ran out is still its worker's.                      *)
LEMMA LeaseRunsOutSafe == ASSUME IInv, LeaseRunsOut PROVE SafeStep
  <1>1. /\ row' = row /\ pc' = pc /\ held' = held /\ turn' = turn /\ begun' = begun
    BY DEF LeaseRunsOut, process
  <1>2. /\ claim' \in Claims /\ claim'.item = claim.item /\ claim'.by = claim.by
    BY DEF LeaseRunsOut, IInv, Typed, Claims
  <1>3. claim = NoClaim => claim' = NoClaim
    BY DEF LeaseRunsOut, NoClaim
  <1>4. Typed' /\ ClaimGood'
    BY <1>1, <1>2, <1>3 DEF IInv, Typed, ClaimGood
  <1> QED
    BY <1>1, <1>2, <1>4
       DEF IInv, SafeStep, SettledKept, StartsOnce, HeldGood, BegunGone, FenceGood

LEMMA RecoverPendingSafe == ASSUME IInv, RecoverPending PROVE SafeStep
  <1>1. RowStep
    BY ReleaseRowSafe DEF RecoverPending, Stale
  <1> QED
    BY <1>1, RowsLeaveSafe DEF RecoverPending

(* A crash leaves a claim to nobody and no Turn at its fence.              *)
LEMMA CrashSafe == ASSUME IInv, Crash PROVE SafeStep
  <1> USE DEF Crash
  <1>1. /\ claim' \in Claims /\ turn' \in Turns
        /\ turn'.phase \notin {"waiting", "running"}
    BY DEF IInv, Typed, Claims, Turns, NoTurn, TurnOf
  <1>2. Typed'
    BY <1>1 DEF IInv, Typed, Phase
  <1>3. ClaimGood'
    BY DEF IInv, Typed, Claims, ClaimGood, NoClaim
  <1>4. HeldGood' /\ BegunGone' /\ FenceGood'
    BY <1>1 DEF IInv, HeldGood, BegunGone, FenceGood, Busy
  <1> QED
    BY <1>1, <1>2, <1>3, <1>4 DEF IInv, SafeStep, SettledKept, StartsOnce

----------------------------------------------------------------------------
LEMMA InitGood == Init => IInv
  <1> SUFFICES ASSUME Init PROVE IInv
    OBVIOUS
  <1> USE DEF Init
  <1>1. Typed
    BY NoClaimTyped, FreeTurn DEF Typed, RowState, Phase
  <1>2. ClaimGood /\ HeldGood
    BY DEF ClaimGood, HeldGood, Busy
  <1>3. BegunGone /\ FenceGood
    BY DEF BegunGone, FenceGood, NoTurn
  <1> QED
    BY <1>1, <1>2, <1>3 DEF IInv

(* Every action keeps the invariant and is safe.                           *)
LEMMA StepKeeps == IInv /\ [Next]_vars => IInv' /\ [SafeStep]_vars
  <1> SUFFICES ASSUME IInv, [Next]_vars PROVE IInv' /\ [SafeStep]_vars
    OBVIOUS
  <1>1. CASE UNCHANGED vars
    BY <1>1 DEF vars, process, IInv, Typed, ClaimGood, HeldGood, BegunGone, FenceGood
  <1>2. CASE Dispatch
    BY <1>2, DispatchSafe DEF SafeStep
  <1>3. CASE DrainStep
    BY <1>3, BeginSafe, RecoverBeforeNextClaimSafe, ClaimNextIfOpenSafe, DeliverSafe,
       DrainIsWorker DEF DrainStep, SafeStep
  <1>4. CASE SenderStep
    BY <1>4, SteerSafe, EndQueuePauseSafe, ConsumeSteeredSafe DEF SenderStep, SafeStep
  <1>5. CASE SessionFrees
    BY <1>5, TurnEndsSafe, FailureSettlesSafe, HoldEndsSafe DEF SessionFrees, SafeStep
  <1>6. CASE \E w \in Other : Deliver(w)
    BY <1>6, DeliverSafe, OthersAreWorkers DEF SafeStep
  <1>7. CASE UserStep
    BY <1>7, EnqueueSafe, UserCancelSafe, RequestCancellationSafe, ContinuePausedSafe,
       ClaimSelectedSafe, PokeSafe DEF UserStep, SafeStep
  <1>8. CASE Environment
    BY <1>8, HoldBeginsSafe, QuiesceSessionSafe, LeaseRunsOutSafe, RecoverPendingSafe,
       RecoverStateSafe, CrashSafe DEF Environment, SafeStep
  <1> QED
    BY <1>1, <1>2, <1>3, <1>4, <1>5, <1>6, <1>7, <1>8 DEF Next

(* The inductive invariant of claims, rows, deliveries and the fence.      *)
THEOREM DispatchInvariant == Spec => []IInv
  BY InitGood, StepKeeps, PTL DEF Spec

(* Whatever acknowledgements and releases fail, whoever claims the row of  *)
(* a slow delivery, and wherever the process crashes, a message starts at  *)
(* most one host run.                                                      *)
THEOREM MessageStartsAtMostOnce == Spec => StartsAtMostOnce
  <1>1. [SafeStep]_vars => [turn.phase = "waiting" /\ turn'.phase = "running"
                               => turn.item \notin begun]_vars
    BY DEF SafeStep, StartsOnce
  <1> QED
    BY <1>1, DispatchInvariant, StepKeeps, PTL DEF Spec, StartsAtMostOnce

(* What was acknowledged, cancelled, refused or steered is off the queue   *)
(* for good: no release and no recovery brings it back.                    *)
THEOREM SettledRowsStay == Spec => SettledStays
  <1>1. [SafeStep]_vars => [\A i \in Item : row[i] \in {"gone", "steered"}
                               => row'[i] = row[i]]_vars
    BY DEF SafeStep, SettledKept, Settled
  <1> QED
    BY <1>1, DispatchInvariant, StepKeeps, PTL DEF Spec, SettledStays

----------------------------------------------------------------------------
(* More theorems about QueueDispatch: every variable has its type, the     *)
(* messages start in their order unless the user sends one now, and while  *)
(* nothing fails none is forgotten.                                        *)
(*                                                                         *)
(* Why in order: admission looks at the messages before the one it admits; *)
(* only the goal's may be passed over, and a message that comes later has  *)
(* a later position, so none gets in front of a Turn at its start fence.   *)

(* What TypeOK says beyond Typed.  Only the goal's messages yield.         *)
RestTyped ==
    /\ paused \in BOOLEAN /\ yielded \subseteq Reluctant /\ doomed \subseteq Item
    /\ woken \in BOOLEAN /\ owed \in BOOLEAN
    /\ recovering \in BOOLEAN /\ open \in BOOLEAN
    /\ boots \in 0 .. MaxBoot /\ extras \in 0 .. MaxExtra

(* Messages come in the order of their position.                           *)
Dense == \A i, j \in Item : row[i] # "new" /\ j < i => row[j] # "new"

(* Behind whom a Turn at its start fence may not be.                       *)
FenceOrder ==
    turn.phase = "waiting" /\ turn.by # "sender" =>
        \A j \in Pending(row) : j < turn.item => j \in Reluctant

OrderInv == RestTyped /\ Dense /\ FenceOrder

(* A step that enqueues nothing and admits no Turn.                        *)
NewKept == \A i \in Item : row[i] = "new" <=> row'[i] = "new"
NoneAdmitted == turn' = turn \/ turn'.phase # "waiting"
BegunAtFence == \A i \in begun' \ begun : turn.phase = "waiting" /\ i = turn.item
QuietStep == NewKept /\ NoneAdmitted /\ BegunAtFence /\ RestTyped'

(* What every step keeps.                                                  *)
OrderStep == OrderInv' /\ BegunAtFence

----------------------------------------------------------------------------
LEMMA QuietKeeps ==
    ASSUME IInv, OrderInv, SettledKept, IInv', QuietStep
    PROVE  OrderStep
  <1> USE DEF QuietStep
  <1>1. Dense'
    BY DEF OrderInv, Dense, NewKept
  <1>2. Pending(row)' \subseteq Pending(row)
    BY DEF IInv, Typed, RowState, Pending, NewKept, SettledKept, Settled
  <1>3. FenceOrder'
    BY <1>2 DEF OrderInv, FenceOrder, NoneAdmitted
  <1> QED
    BY <1>1, <1>3 DEF OrderInv, OrderStep

(* The queue's transactions enqueue nothing.                               *)
LEMMA RowsNew == ASSUME row' = row PROVE NewKept
  BY DEF NewKept

LEMMA ReleaseRowNew == ASSUME IInv, claim # NoClaim, ReleaseRow PROVE NewKept
  <1>1. claim.item \in Item /\ row[claim.item] = "claimed"
    BY DEF IInv, ClaimGood
  <1> QED
    BY <1>1 DEF IInv, Typed, ReleaseRow, NewKept

LEMMA ReleaseNew == ASSUME IInv, NEW w \in Worker, Release(w) PROVE NewKept
  BY RowsNew, ReleaseRowNew, MineIsHeld DEF Release

LEMMA RemoveRowNew ==
    ASSUME IInv, OrderInv, NEW i \in Item, NEW as \in Settled, row[i] # "new",
           RemoveRow(i, as)
    PROVE  NewKept /\ paused' \in BOOLEAN
  BY DEF IInv, Typed, OrderInv, RestTyped, RemoveRow, NewKept, Settled

LEMMA MineRemovedNew ==
    ASSUME IInv, OrderInv, NEW w \in Worker, pc[w] \in Busy, NEW as \in Settled,
           RemoveRow(held[w], as)
    PROVE  NewKept /\ paused' \in BOOLEAN
  BY RemoveRowNew DEF IInv, HeldGood

LEMMA ClaimRowNew ==
    ASSUME IInv, NEW w \in Worker, NEW i \in Item, row[i] = "queued", ClaimRow(w, i)
    PROVE  NewKept
  BY DEF IInv, Typed, ClaimRow, NewKept

(* What yields is the goal's.                                              *)
LEMMA YieldsTyped ==
    ASSUME OrderInv, NEW w, NEW next, NEW yields, YieldAs(w, next, yields),
           yields => held[w] \in Reluctant
    PROVE  yielded' \subseteq Reluctant
  BY DEF OrderInv, RestTyped, YieldAs

LEMMA FinishTyped ==
    ASSUME OrderInv, NEW w, NEW again, Finish(w, again)
    PROVE  yielded' \subseteq Reluctant
  BY YieldsTyped DEF Finish, EndAs

LEMMA ThrowTyped == ASSUME OrderInv, NEW w, Throw(w) PROVE yielded' \subseteq Reluctant
  BY YieldsTyped DEF Throw, EndAs

LEMMA GotoTyped ==
    ASSUME OrderInv, NEW w, NEW next, Goto(w, next)
    PROVE  yielded' \subseteq Reluctant
  BY DEF OrderInv, RestTyped, Goto

----------------------------------------------------------------------------
(* The steps of a delivery.                                                *)

LEMMA DeliverQuiet ==
    ASSUME IInv, OrderInv, NEW w \in Worker, Deliver(w), ~Submit(w)
    PROVE  QuietStep
  <1> USE DEF QuietStep, OrderInv, RestTyped, NoneAdmitted, BegunAtFence, counters
  <1>1. CASE ReleaseStopped(w)
    BY <1>1, ReleaseNew, FinishTyped DEF ReleaseStopped
  <1>2. CASE CancelRequested(w)
    <2>1. pc[w] \in Busy
      BY <1>2 DEF CancelRequested, Dispatching, Busy
    <2>2. NewKept /\ paused' \in BOOLEAN
      BY <1>2, <2>1, MineRemovedNew, RowsNew DEF CancelRequested, Settled
    <2> QED
      BY <1>2, <2>2, FinishTyped, ThrowTyped DEF CancelRequested
  <1>3. CASE Defer(w)
    <2>1. yielded' \subseteq Reluctant
      BY <1>3, YieldsTyped DEF Defer, YieldsFifoPosition
    <2> QED
      BY <1>3, <2>1, ReleaseNew DEF Defer
  <1>4. CASE Refuse(w)
    <2>1. pc[w] \in Busy
      BY <1>4 DEF Refuse, Dispatching, Busy
    <2>2. NewKept /\ paused' \in BOOLEAN
      BY <1>4, <2>1, ReleaseNew, MineRemovedNew, RowsNew DEF Refuse, Settled
    <2>3. yielded' \subseteq Reluctant
      BY <1>4, FinishTyped, ThrowTyped DEF Refuse
    <2> QED
      BY <1>4, <2>2, <2>3 DEF Refuse
  <1>5. CASE Fails(w)
    BY <1>5, RowsNew, GotoTyped DEF Fails
  <1>6. CASE SettlementFails(w)
    BY <1>6, RowsNew, ThrowTyped DEF SettlementFails
  <1>7. CASE Prepare(w)
    BY <1>7, RowsNew, GotoTyped DEF Prepare
  <1>8. CASE SettleRejected(w)
    BY <1>8, ReleaseNew, FinishTyped DEF SettleRejected
  <1>9. CASE DeliveryFails(w)
    <2>1. NoneAdmitted
      BY <1>9 DEF DeliveryFails, FailStart, IInv, Typed, Turns
    <2> QED
      BY <1>9, <2>1, RowsNew, GotoTyped DEF DeliveryFails
  <1>10. CASE Acknowledge(w)
    <2> USE <1>10 DEF Acknowledge
    <2>1. NoneAdmitted
      BY DEF FailStart, IInv, Typed, Turns
    <2>2. NewKept /\ paused' \in BOOLEAN
      BY MineRemovedNew, RowsNew DEF Settled, Busy
    <2>3. yielded' \subseteq Reluctant /\ recovering' \in BOOLEAN
      BY GotoTyped
    <2> QED
      BY <2>1, <2>2, <2>3
  <1>11. CASE AcknowledgeFails(w)
    <2>1. NoneAdmitted
      BY <1>11 DEF AcknowledgeFails, FailStart, IInv, Typed, Turns
    <2> QED
      BY <1>11, <2>1, RowsNew, GotoTyped DEF AcknowledgeFails
  <1>12. CASE SettleThrown(w)
    BY <1>12, ReleaseNew, RowsNew, ThrowTyped DEF SettleThrown
  <1>13. CASE Start(w)
    <2> USE <1>13 DEF Start
    <2>1. NoneAdmitted
      BY DEF IInv, Typed, Turns, NoTurn
    <2>2. BegunAtFence
      BY DEF IInv, FenceGood
    <2>3. paused' \in BOOLEAN /\ yielded' \subseteq Reluctant
      BY FinishTyped, GotoTyped
    <2> QED
      BY <2>1, <2>2, <2>3, RowsNew
  <1> QED
    BY <1>1, <1>2, <1>3, <1>4, <1>5, <1>6, <1>7, <1>8, <1>9, <1>10, <1>11, <1>12,
       <1>13 DEF Deliver

(* Admission passes over the goal's messages that yielded, and no others.  *)
LEMMA SubmitKeepsOrder ==
    ASSUME IInv, OrderInv, SettledKept, IInv', NEW w \in Worker, Submit(w)
    PROVE  OrderStep
  <1> USE DEF Submit
  <1>1. RestTyped'
    <2>1. paused' \in BOOLEAN
      BY DEF OrderInv, RestTyped
    <2>2. yielded' \subseteq Reluctant
      BY GotoTyped
    <2> QED
      BY <2>1, <2>2 DEF OrderInv, RestTyped, counters
  <1>2. CASE NoneAdmitted
    BY <1>1, <1>2, RowsNew, QuietKeeps DEF QuietStep, BegunAtFence
  <1>3. CASE ~NoneAdmitted
    <2>1. turn' = TurnOf("waiting", w, held[w]) /\ Admits(w)
      <3>1. turn' # turn /\ turn'.phase = "waiting"
        BY <1>3 DEF NoneAdmitted
      <3>2. PICK phase : Admits(w) /\ turn' = TurnOf(phase, w, held[w])
        BY <3>1
      <3> QED
        BY <3>1, <3>2 DEF TurnOf
    <2>2. w # "sender" => \A j \in Pending(row) : j < held[w] => j \in yielded
      BY <2>1 DEF Admits
    <2>3. FenceOrder'
      BY <2>1, <2>2 DEF OrderInv, RestTyped, FenceOrder, TurnOf, Pending
    <2>4. Dense' /\ BegunAtFence
      BY DEF OrderInv, Dense, BegunAtFence
    <2> QED
      BY <1>1, <2>3, <2>4 DEF OrderInv, OrderStep
  <1> QED
    BY <1>2, <1>3

----------------------------------------------------------------------------
(* The other steps.                                                        *)

LEMMA DrainStepOrder ==
    ASSUME IInv, OrderInv, DrainStep, ~Deliver("drain")
    PROVE  QuietStep
  <1> USE DEF QuietStep, OrderInv, RestTyped, NoneAdmitted, BegunAtFence, counters
  <1>1. CASE Begin
    BY <1>1, RowsNew DEF Begin
  <1>2. CASE RecoverBeforeNextClaim
    <2>1. NewKept
      BY <1>2, RowsNew, ReleaseRowNew DEF RecoverBeforeNextClaim, Stale
    <2>2. yielded' \subseteq Reluctant
      BY <1>2, GotoTyped, ThrowTyped DEF RecoverBeforeNextClaim
    <2> QED
      BY <1>2, <2>1, <2>2 DEF RecoverBeforeNextClaim
  <1>3. CASE ClaimNextIfOpen
    <2> USE <1>3 DEF ClaimNextIfOpen
    <2>1. NewKept
      BY ClaimRowNew, DrainIsWorker, RowsNew DEF FirstOf, Queued
    <2>2. yielded' \subseteq Reluctant
      BY FinishTyped
    <2> QED
      BY <2>1, <2>2
  <1> QED
    BY <1>1, <1>2, <1>3 DEF DrainStep

LEMMA SenderStepOrder == ASSUME IInv, OrderInv, SenderStep PROVE QuietStep
  <1> USE OthersAreWorkers
      DEF QuietStep, OrderInv, RestTyped, NoneAdmitted, BegunAtFence, counters
  <1>1. CASE Steer
    BY <1>1, RowsNew, GotoTyped DEF Steer
  <1>2. CASE EndQueuePause
    BY <1>2, RowsNew, GotoTyped, FinishTyped DEF EndQueuePause
  <1>3. CASE ConsumeSteered
    <2>1. NewKept /\ paused' \in BOOLEAN
      BY <1>3, RowsNew, MineRemovedNew DEF ConsumeSteered, Settled, Busy
    <2> QED
      BY <1>3, <2>1, FinishTyped DEF ConsumeSteered
  <1> QED
    BY <1>1, <1>2, <1>3 DEF SenderStep

LEMMA SessionFreesOrder == ASSUME OrderInv, SessionFrees PROVE QuietStep
  <1>1. /\ row' = row /\ begun' = begun /\ turn' = NoTurn
        /\ paused' \in BOOLEAN /\ owed' \in BOOLEAN
        /\ UNCHANGED <<process, doomed, counters>>
    BY DEF OrderInv, RestTyped, SessionFrees, TurnEnds, FailureSettles, HoldEnds
  <1> QED
    BY <1>1, RowsNew
       DEF QuietStep, OrderInv, RestTyped, NoneAdmitted, BegunAtFence, NoTurn,
           process, counters

(* What comes has the last position.                                       *)
LEMMA EnqueueOrder ==
    ASSUME IInv, OrderInv, IInv', NEW i \in Item, Enqueue(i)
    PROVE  OrderStep
  <1> USE DEF Enqueue, process, counters
  <1>1. /\ row[i] = "new" /\ row'[i] = "queued"
        /\ \A j \in Item \ {i} : row'[j] = row[j]
    BY DEF IInv, Typed
  <1>2. RestTyped'
    BY DEF OrderInv, RestTyped
  <1>3. Dense'
    BY <1>1 DEF OrderInv, Dense
  <1>4. FenceOrder'
    <2> SUFFICES ASSUME turn.phase = "waiting", turn.by # "sender",
                        NEW j \in Pending(row)', j < turn.item
                 PROVE  j \in Reluctant
      BY DEF FenceOrder
    <2>1. turn.item \in Item /\ row[turn.item] # "new"
      BY DEF IInv, FenceGood, HeldGood, Busy
    <2>2. row[j] # "new"
      BY <2>1 DEF OrderInv, Dense, Pending
    <2>3. j \in Pending(row)
      BY <1>1, <2>2 DEF Pending
    <2> QED
      BY <2>3 DEF OrderInv, FenceOrder
  <1> QED
    BY <1>2, <1>3, <1>4 DEF OrderInv, OrderStep, BegunAtFence

LEMMA UserStepOrder ==
    ASSUME IInv, OrderInv, UserStep, \A i \in Item : ~Enqueue(i)
    PROVE  QuietStep
  <1> USE ConstantsAssumption, OthersAreWorkers
      DEF QuietStep, OrderInv, RestTyped, NoneAdmitted, BegunAtFence, counters,
          process, ConstantsAssumption
  <1>1. ASSUME NEW i \in Item, UserCancel(i) PROVE QuietStep
    <2>1. NewKept /\ paused' \in BOOLEAN
      BY <1>1, RemoveRowNew DEF UserCancel, Settled
    <2> QED
      BY <1>1, <2>1 DEF UserCancel
  <1>2. ASSUME NEW i \in Item, RequestCancellation(i) PROVE QuietStep
    BY <1>2, RowsNew DEF RequestCancellation
  <1>3. CASE ContinuePaused
    BY <1>3, ClaimRowNew DEF ContinuePaused, FirstOf, Queued
  <1>4. CASE ClaimSelected
    BY <1>4, ClaimRowNew DEF ClaimSelected, Queued
  <1>5. CASE Poke
    BY <1>5, RowsNew DEF Poke
  <1> QED
    BY <1>1, <1>2, <1>3, <1>4, <1>5 DEF UserStep

LEMMA EnvironmentOrder == ASSUME IInv, OrderInv, Environment PROVE QuietStep
  <1> USE ConstantsAssumption
      DEF QuietStep, OrderInv, RestTyped, NoneAdmitted, BegunAtFence, counters,
          process, ConstantsAssumption
  <1>1. CASE HoldBegins
    BY <1>1, RowsNew DEF HoldBegins, TurnOf
  <1>2. CASE QuiesceSession
    <2>1. extras' \in 0 .. MaxExtra
      BY <1>2 DEF QuiesceSession
    <2> QED
      BY <1>2, <2>1, RowsNew DEF QuiesceSession
  <1>3. CASE LeaseRunsOut
    BY <1>3, RowsNew DEF LeaseRunsOut
  <1>4. CASE RecoverPending
    BY <1>4, ReleaseRowNew DEF RecoverPending, Stale
  <1>5. CASE RecoverState
    BY <1>5, RowsNew DEF RecoverState, NoTurn
  <1>6. CASE Crash
    <2>1. boots' \in 0 .. MaxBoot
      BY <1>6 DEF Crash
    <2>2. turn'.phase # "waiting"
      BY <1>6 DEF Crash, NoTurn, TurnOf
    <2> QED
      BY <1>6, <2>1, <2>2, RowsNew DEF Crash
  <1> QED
    BY <1>1, <1>2, <1>3, <1>4, <1>5, <1>6 DEF Environment

----------------------------------------------------------------------------
LEMMA InitInOrder == Init => OrderInv
  <1> SUFFICES ASSUME Init PROVE OrderInv
    OBVIOUS
  <1> USE DEF Init
  <1>1. RestTyped
    <2>1. boots \in 0 .. MaxBoot /\ extras \in 0 .. MaxExtra
      BY ConstantsAssumption DEF ConstantsAssumption
    <2> QED
      BY <2>1 DEF RestTyped
  <1>2. Dense /\ FenceOrder
    BY DEF Dense, FenceOrder, NoTurn
  <1> QED
    BY <1>1, <1>2 DEF OrderInv

LEMMA StepKeepsOrder == IInv /\ OrderInv /\ [Next]_vars => OrderInv' /\ BegunAtFence
  <1> SUFFICES ASSUME IInv, OrderInv, [Next]_vars PROVE OrderStep
    BY DEF OrderStep
  <1>1. IInv' /\ [SafeStep]_vars
    BY StepKeeps
  <1>2. SettledKept
    BY <1>1 DEF SafeStep, SettledKept, vars
  <1>3. ASSUME QuietStep PROVE OrderStep
    BY <1>1, <1>2, <1>3, QuietKeeps
  <1>4. CASE UNCHANGED vars
    BY <1>3, <1>4, RowsNew
       DEF vars, process, counters, QuietStep, NoneAdmitted, BegunAtFence, OrderInv,
           RestTyped
  <1>5. CASE Dispatch
    BY <1>3, <1>5, RowsNew
       DEF Dispatch, counters, QuietStep, NoneAdmitted, BegunAtFence, OrderInv,
           RestTyped
  <1>6. ASSUME NEW w \in Worker, Deliver(w) PROVE OrderStep
    BY <1>1, <1>2, <1>3, <1>6, DeliverQuiet, SubmitKeepsOrder
  <1>7. CASE DrainStep
    BY <1>3, <1>6, <1>7, DrainIsWorker, DrainStepOrder
  <1>8. CASE UserStep
    BY <1>1, <1>3, <1>8, EnqueueOrder, UserStepOrder
  <1> QED
    BY <1>3, <1>4, <1>5, <1>6, <1>7, <1>8, OthersAreWorkers, SenderStepOrder,
       SessionFreesOrder, EnvironmentOrder DEF Next

(* The inductive invariant of positions, with that of the deliveries.      *)
THEOREM OrderInvariant == Spec => [](IInv /\ OrderInv)
  BY InitGood, InitInOrder, StepKeeps, StepKeepsOrder, PTL DEF Spec

(* Every variable of the deliveries has its type, through every mishap.    *)
THEOREM QueueDispatchTypes == Spec => []TypeOK
  <1>1. IInv /\ OrderInv => TypeOK
    BY ConstantsAssumption
       DEF IInv, Typed, OrderInv, RestTyped, TypeOK, RowState, Claims, Turns,
           ConstantsAssumption
  <1> QED
    BY <1>1, OrderInvariant, PTL

(* Without a message sent now, a message starts before an earlier one only *)
(* if that one is the goal's, whatever fails, is paused, cancelled or      *)
(* recovered meanwhile.                                                    *)
THEOREM MessagesStartInOrder == ASSUME "sender" \notin Other PROVE Spec => StartsInOrder
  <1>1. IInv /\ OrderInv /\ BegunAtFence =>
            \A i \in begun' \ begun : \A j \in Pending(row) : j < i => j \in Reluctant
    BY ConstantsAssumption
       DEF IInv, FenceGood, OrderInv, FenceOrder, BegunAtFence, Worker,
           ConstantsAssumption
  <1>2. IInv /\ OrderInv /\ [Next]_vars =>
            [\A i \in begun' \ begun : \A j \in Pending(row) : j < i => j \in Reluctant]_vars
    BY <1>1, StepKeepsOrder
  <1> QED
    BY <1>2, OrderInvariant, PTL DEF Spec, StartsInOrder
----------------------------------------------------------------------------
(* No wake is lost: the drain alone, no failures, no crash, but users who  *)
(* cancel, other work that takes the session, pokes, and a dispatcher that *)
(* may be closed.                                                          *)
(*                                                                         *)
(* Why: a pass ends when nothing but yielded messages is left, when only   *)
(* the goal's message is left and is not let through, or when the session  *)
(* is busy; and whoever has the session owes a wake.  A message is never   *)
(* refused for its place, because none gets in front of it.                *)

Calm == Other = {} /\ Mishap \subseteq {"close"} /\ MaxBoot = 0

Claiming == {"claimed", "prepared", "rejected", "accepted"}
Passing == {"idle", "begin", "recover", "next"}

(* The claim is the drain's, while it delivers.                            *)
ClaimCalm ==
    /\ ~paused
    /\ pc["drain"] \in Claiming \cup Passing \cup {"acknowledged"}
    /\ pc["drain"] \in Claiming =>
           claim = [item |-> held["drain"], by |-> "drain", fresh |-> TRUE]
    /\ pc["drain"] \notin Claiming => claim = NoClaim
    /\ \A i \in Item : row[i] = "claimed" => claim # NoClaim /\ claim.item = i

(* Who has the session will say when it is free.                           *)
TurnCalm ==
    /\ turn = NoTurn \/ turn.phase \in {"waiting", "running", "held"}
    /\ pc["drain"] \in {"accepted", "acknowledged"} =>
           turn.phase = "waiting" /\ turn.by = "drain"

(* What waits before the drain's message yielded to it.                    *)
FrontCalm ==
    pc["drain"] \in {"claimed", "prepared"} =>
        \A j \in Pending(row) : j < held["drain"] => j \in yielded

Heard == woken \/ owed \/ turn # NoTurn

WakeCalm ==
    open => /\ pc["drain"] = "rejected" => Heard
            /\ pc["drain"] = "idle" => Heard \/ Pending(row) \subseteq Reluctant

CalmInv == ClaimCalm /\ TurnCalm /\ FrontCalm /\ WakeCalm

LEMMA CalmWorkers == ASSUME Calm PROVE Worker = {"drain"}
  BY DEF Calm, Worker

LEMMA InitCalm == ASSUME Calm, Init PROVE CalmInv
  <1>1. pc["drain"] = "idle" /\ Pending(row) = {}
    BY DrainIsWorker DEF Init, Pending
  <1> QED
    BY <1>1 DEF Init, CalmInv, ClaimCalm, TurnCalm, FrontCalm, WakeCalm, Claiming, Passing

(* Rows return or leave.                                                   *)
LEMMA ReleaseCalm ==
    ASSUME IInv, ClaimCalm, pc["drain"] \in Claiming, Release("drain")
    PROVE  /\ claim' = NoClaim /\ Pending(row)' = Pending(row)
           /\ \A i \in Item : row'[i] # "claimed"
  <1>1. claim.item \in Item /\ Mine("drain") /\ claim # NoClaim
    BY DrainIsWorker, MineIsHeld DEF ClaimCalm, Mine
  <1>2. row' = [row EXCEPT ![claim.item] = "queued"] /\ claim' = NoClaim
    BY <1>1 DEF Release, ReleaseRow
  <1>3. row[claim.item] = "claimed"
    BY <1>1 DEF IInv, ClaimGood
  <1> QED
    BY <1>1, <1>2, <1>3 DEF IInv, Typed, ClaimCalm, Pending

LEMMA RemoveCalm ==
    ASSUME IInv, ClaimCalm, pc["drain"] \in Claiming, NEW as \in Settled,
           RemoveRow(held["drain"], as)
    PROVE  /\ claim' = NoClaim /\ ~paused' /\ Pending(row)' \subseteq Pending(row)
           /\ \A i \in Item : row'[i] # "claimed"
  <1>1. claim.item \in Item /\ claim.item = held["drain"]
    BY DrainIsWorker, MineIsHeld DEF ClaimCalm, Mine
  <1> QED
    BY <1>1 DEF IInv, Typed, ClaimCalm, RemoveRow, Pending, Settled

(* A step of the drain that ends a delivery.                               *)
LEMMA EndCalm ==
    ASSUME IInv, CalmInv, claim' = NoClaim, ~paused', turn' = turn, woken' = woken,
           owed' = owed, open' = open, pc'["drain"] \in {"begin", "idle"},
           pc["drain"] \in Claiming,
           \A i \in Item : row'[i] # "claimed",
           open /\ pc'["drain"] = "idle" => Heard \/ Pending(row)' \subseteq Reluctant
    PROVE  CalmInv'
  BY DEF CalmInv, ClaimCalm, TurnCalm, FrontCalm, WakeCalm, Heard, Claiming, Passing

LEMMA DeliverCalm ==
    ASSUME Calm, IInv, OrderInv, CalmInv, Deliver("drain")
    PROVE  CalmInv'
  <1> USE DrainIsWorker
  <1>m. Mishap \cap {"policy", "fault", "stop", "slow"} = {}
    BY DEF Calm
  <1>p. pc["drain"] \in Claiming \cup Passing \cup {"acknowledged"}
        /\ pc \in [Worker -> Phase]
    BY DEF CalmInv, ClaimCalm, IInv, Typed
  <1>mine. pc["drain"] \in Claiming => Mine("drain") /\ held["drain"] \in Item
    <2> SUFFICES ASSUME pc["drain"] \in Claiming PROVE Mine("drain") /\ held["drain"] \in Item
      OBVIOUS
    <2> QED
      BY MineIsHeld DEF CalmInv, ClaimCalm, Mine, Claiming, Busy, IInv, HeldGood
  <1>1. CASE ReleaseStopped("drain")
    BY <1>1, <1>p, ReleaseCalm, EndCalm
       DEF ReleaseStopped, Finish, EndAs, YieldAs, CalmInv, Claiming, ClaimCalm
  <1>2. CASE CancelRequested("drain")
    <2>1. pc["drain"] \in Claiming
      BY <1>2, <1>p DEF CancelRequested, Dispatching, Claiming, Passing
    <2>2. RemoveRow(held["drain"], "gone") /\ Finish("drain", TRUE)
      BY <1>2, <2>1, <1>mine DEF CancelRequested
    <2>3. pc'["drain"] = IF open THEN "begin" ELSE "idle"
      BY <2>2, <1>p DEF Finish, EndAs, YieldAs
    <2> QED
      BY <1>2, <2>1, <2>2, <2>3, RemoveCalm, EndCalm DEF CancelRequested, CalmInv, Settled
  <1>3. CASE Defer("drain")
    <2>1. pc["drain"] \in Claiming /\ held["drain"] \in Reluctant
      BY <1>3, <1>m DEF Defer, Dispatching, Claiming
    <2>2. /\ claim' = NoClaim /\ Pending(row)' = Pending(row)
          /\ \A i \in Item : row'[i] # "claimed"
      BY <1>3, <2>1, ReleaseCalm DEF Defer, CalmInv
    <2>3. pc'["drain"] = IF open /\ (YieldsFifoPosition(held["drain"]) \/ woken)
                         THEN "begin" ELSE "idle"
      BY <1>3, <1>p DEF Defer, YieldAs
    <2>4. ~YieldsFifoPosition(held["drain"]) => Pending(row) \subseteq Reluctant
      BY <2>1 DEF YieldsFifoPosition
    <2> QED
      BY <1>3, <2>1, <2>2, <2>3, <2>4, EndCalm DEF Defer, CalmInv, ClaimCalm
  <1>4. CASE Prepare("drain")
    <2>1. pc' = [pc EXCEPT !["drain"] = "prepared"] /\ pc["drain"] = "claimed"
      BY <1>4, <1>mine DEF Prepare, Goto, Claiming
    <2> QED
      BY <1>4, <2>1, <1>p
         DEF Prepare, Goto, CalmInv, ClaimCalm, TurnCalm, FrontCalm, WakeCalm, Claiming,
             Passing
  <1>5. CASE Submit("drain")
    <2>1. pc["drain"] = "prepared" /\ Mine("drain") /\ held["drain"] \in Item
      BY <1>5, <1>mine DEF Submit, Claiming
    <2>2. Admits("drain")
      BY <2>1 DEF Admits, CalmInv, ClaimCalm, FrontCalm
    <2>3. CASE turn = NoTurn
      <3>1. /\ turn' = TurnOf("waiting", "drain", held["drain"]) /\ ~paused'
            /\ pc' = [pc EXCEPT !["drain"] = "accepted"]
        BY <1>5, <1>m, <2>2, <2>3 DEF Submit, Goto, CalmInv, ClaimCalm
      <3> QED
        BY <1>5, <2>1, <3>1, <1>p
           DEF Submit, Goto, CalmInv, ClaimCalm, TurnCalm, FrontCalm, WakeCalm, Claiming,
               Passing, TurnOf
    <2>4. CASE turn # NoTurn
      BY <1>5, <2>1, <2>4, <1>p
         DEF Submit, Goto, CalmInv, ClaimCalm, TurnCalm, FrontCalm, WakeCalm, Claiming,
             Passing, Heard
    <2> QED
      BY <2>3, <2>4
  <1>6. CASE SettleRejected("drain")
    <2>1. pc["drain"] \in Claiming /\ pc["drain"] = "rejected"
      BY <1>6, <1>p DEF SettleRejected, Claiming, Passing
    <2>2. pc'["drain"] = IF open /\ woken THEN "begin" ELSE "idle"
      BY <1>6, <1>p DEF SettleRejected, Finish, EndAs, YieldAs
    <2> QED
      BY <1>6, <2>1, <2>2, ReleaseCalm, EndCalm
         DEF SettleRejected, CalmInv, WakeCalm, ClaimCalm
  <1>7. CASE Acknowledge("drain")
    <2>1. pc["drain"] = "accepted" /\ Mine("drain") /\ pc["drain"] \in Claiming
      BY <1>7, <1>mine DEF Acknowledge, Claiming
    <2>2. RemoveRow(held["drain"], "gone") /\ turn' = turn
          /\ pc' = [pc EXCEPT !["drain"] = "acknowledged"]
      BY <1>7, <2>1 DEF Acknowledge, Goto
    <2> QED
      BY <2>1, <2>2, <1>p, RemoveCalm
         DEF CalmInv, ClaimCalm, TurnCalm, FrontCalm, WakeCalm, Claiming, Passing, Settled
  <1>8. CASE Start("drain")
    <2>1. turn.by = "drain" /\ turn.phase = "waiting" /\ pc["drain"] = "acknowledged"
      BY <1>8 DEF Start, CalmInv, TurnCalm
    <2>2. /\ turn' = [turn EXCEPT !.phase = "running"] /\ turn \in Turns
          /\ paused' = paused
      BY <1>8, <1>m, <2>1 DEF Start, IInv, Typed
    <2>3. turn'.phase = "running" /\ turn' # NoTurn
      BY <2>2 DEF Turns, NoTurn
    <2>4. pc'["drain"] \in {"begin", "idle"} /\ claim' = claim /\ row' = row
      BY <1>8, <1>p DEF Start, Finish, EndAs, YieldAs
    <2> QED
      BY <2>1, <2>2, <2>3, <2>4
         DEF CalmInv, ClaimCalm, TurnCalm, FrontCalm, WakeCalm, Heard, Claiming, Passing
  <1> QED
    BY <1>1, <1>2, <1>3, <1>4, <1>5, <1>6, <1>7, <1>8, <1>m, <1>p
       DEF Deliver, Refuse, Fails, SettlementFails, DeliveryFails, AcknowledgeFails,
           SettleThrown, Claiming, Passing

LEMMA DrainCalm ==
    ASSUME Calm, IInv, OrderInv, CalmInv, DrainStep
    PROVE  CalmInv'
  <1> USE DrainIsWorker DEF CalmInv
  <1>p. pc \in [Worker -> Phase] /\ yielded \subseteq Reluctant
    BY DEF IInv, Typed, OrderInv, RestTyped
  <1>1. CASE Begin
    <2>1. /\ pc["drain"] \in {"begin", "idle"} /\ pc'["drain"] \in {"recover", "next"}
          /\ UNCHANGED <<row, claim, paused, turn>>
      BY <1>1, <1>p DEF Begin
    <2> QED
      BY <2>1 DEF ClaimCalm, TurnCalm, FrontCalm, WakeCalm, Claiming, Passing
  <1>2. CASE RecoverBeforeNextClaim
    <2>1. pc["drain"] = "recover" /\ claim = NoClaim
      BY <1>2 DEF RecoverBeforeNextClaim, ClaimCalm, Claiming
    <2>2. pc'["drain"] = "next" /\ UNCHANGED <<row, claim, paused, turn>>
      BY <1>2, <1>p, <2>1 DEF RecoverBeforeNextClaim, Calm, Stale, Goto
    <2> QED
      BY <2>1, <2>2 DEF ClaimCalm, TurnCalm, FrontCalm, WakeCalm, Claiming, Passing
  <1>3. CASE ClaimNextIfOpen
    <2> DEFINE candidates == Queued \ yielded
    <2>1. pc["drain"] = "next" /\ claim = NoClaim /\ ~paused
      BY <1>3 DEF ClaimNextIfOpen, ClaimCalm, Claiming
    <2>2. CASE open /\ candidates # {}
      <3>1. PICK i \in FirstOf(candidates) : ClaimRow("drain", i) /\ yielded' = yielded
        BY <1>3, <2>1, <2>2 DEF ClaimNextIfOpen
      <3>2. i \in Item /\ row[i] = "queued" /\ \A j \in candidates : i <= j
        BY <3>1 DEF FirstOf, Queued
      <3>3. /\ claim' = [item |-> i, by |-> "drain", fresh |-> TRUE]
            /\ held'["drain"] = i /\ pc'["drain"] = "claimed"
            /\ row' = [row EXCEPT ![i] = "claimed"]
        BY <3>1, <1>p DEF ClaimRow, IInv, Typed
      <3>4. ClaimCalm'
        BY <1>3, <2>1, <3>2, <3>3, ConstantsAssumption
           DEF ClaimNextIfOpen, ClaimCalm, Claiming, NoClaim, ConstantsAssumption, IInv,
               Typed
      <3>5. FrontCalm'
        <4> SUFFICES ASSUME NEW j \in Pending(row)', j < i PROVE j \in yielded
          BY <3>1, <3>3 DEF FrontCalm
        <4>1. j \in Queued
          BY <2>1, <3>2, <3>3, ConstantsAssumption
             DEF Pending, Queued, IInv, Typed, ClaimCalm, ConstantsAssumption
        <4> QED
          BY <3>2, <4>1, ConstantsAssumption DEF ConstantsAssumption, Queued
      <3> QED
        BY <1>3, <3>3, <3>4, <3>5 DEF ClaimNextIfOpen, TurnCalm, WakeCalm
    <2>3. CASE ~(open /\ candidates # {})
      <3>1. open => Pending(row) \subseteq Reluctant
        BY <1>p, <2>1, <2>3 DEF ClaimCalm, Pending, Queued
      <3>2. /\ UNCHANGED <<row, claim, paused, turn, woken, owed, open>>
            /\ Finish("drain", FALSE)
        BY <1>3, <2>3 DEF ClaimNextIfOpen
      <3>3. pc'["drain"] \in {"begin", "idle"}
        BY <3>2, <1>p DEF Finish, EndAs, YieldAs
      <3> QED
        BY <2>1, <3>1, <3>2, <3>3
           DEF ClaimCalm, TurnCalm, FrontCalm, WakeCalm, Claiming, Passing, Pending
    <2> QED
      BY <2>2, <2>3
  <1> QED
    BY <1>1, <1>2, <1>3, DeliverCalm DEF DrainStep

LEMMA FreesCalm == ASSUME Calm, CalmInv, SessionFrees PROVE CalmInv'
  <1>1. turn' = NoTurn /\ owed' /\ UNCHANGED <<row, claim, paused, process>>
    BY DEF CalmInv, TurnCalm, SessionFrees, TurnEnds, FailureSettles, HoldEnds, Calm,
           NoTurn
  <1>2. pc["drain"] \notin {"accepted", "acknowledged"}
    BY DEF CalmInv, TurnCalm, SessionFrees, TurnEnds, FailureSettles, HoldEnds
  <1> QED
    BY <1>1, <1>2
       DEF CalmInv, ClaimCalm, TurnCalm, FrontCalm, WakeCalm, Heard, process, Pending

LEMMA UserCalm ==
    ASSUME Calm, IInv, OrderInv, CalmInv, UserStep
    PROVE  CalmInv'
  <1> USE DEF process, CalmInv
  <1>1. ASSUME NEW i \in Item, Enqueue(i) PROVE CalmInv'
    <2>1. /\ row[i] = "new" /\ row' = [row EXCEPT ![i] = "queued"] /\ owed'
          /\ UNCHANGED <<claim, paused, turn, process>>
      BY <1>1 DEF Enqueue
    <2>2. FrontCalm'
      <3> SUFFICES ASSUME pc["drain"] \in {"claimed", "prepared"},
                          NEW j \in Pending(row)', j < held["drain"]
                   PROVE  j \in yielded
        BY <2>1 DEF FrontCalm
      <3>1. held["drain"] \in Item /\ row[held["drain"]] # "new"
        BY DrainIsWorker DEF IInv, HeldGood, Busy
      <3>2. j \in Item /\ row[j] # "new"
        BY <3>1 DEF OrderInv, Dense, Pending
      <3>3. j \in Pending(row)
        BY <2>1, <3>2 DEF Pending, IInv, Typed
      <3> QED
        BY <3>3 DEF FrontCalm
    <2>3. ClaimCalm'
      BY <2>1 DEF ClaimCalm, IInv, Typed
    <2> QED
      BY <2>1, <2>2, <2>3 DEF TurnCalm, WakeCalm, Heard
  <1>2. ASSUME NEW i \in Item, UserCancel(i) PROVE CalmInv'
    <2>1. row[i] = "queued" /\ claim.item # i
      BY <1>2, ConstantsAssumption
         DEF UserCancel, IInv, ClaimGood, NoClaim, ConstantsAssumption
    <2>2. /\ row' = [row EXCEPT ![i] = "gone"] /\ claim' = claim /\ ~paused'
          /\ UNCHANGED <<turn, process, owed>>
      BY <1>2, <2>1 DEF UserCancel, RemoveRow, ClaimCalm
    <2>3. Pending(row)' \subseteq Pending(row)
      BY <2>2 DEF Pending, IInv, Typed
    <2>4. ClaimCalm'
      BY <2>2 DEF ClaimCalm, IInv, Typed
    <2> QED
      BY <2>2, <2>3, <2>4 DEF TurnCalm, FrontCalm, WakeCalm, Heard
  <1>3. ASSUME NEW i \in Item, RequestCancellation(i) PROVE CalmInv'
    BY <1>3
       DEF RequestCancellation, ClaimCalm, TurnCalm, FrontCalm, WakeCalm, Heard, Pending
  <1>4. CASE Poke
    BY <1>4 DEF Poke, ClaimCalm, TurnCalm, FrontCalm, WakeCalm, Heard, Pending
  <1> QED
    BY <1>1, <1>2, <1>3, <1>4 DEF UserStep, ContinuePaused, ClaimSelected, Calm

LEMMA EnvironmentCalm ==
    ASSUME Calm, IInv, OrderInv, CalmInv, Environment
    PROVE  CalmInv'
  <1> USE DEF process, CalmInv
  <1>1. ~Stale
    BY ConstantsAssumption
       DEF Stale, ClaimCalm, ConstantsAssumption
  <1>2. CASE HoldBegins
    BY <1>2
       DEF HoldBegins, TurnOf, NoTurn, ClaimCalm, TurnCalm, FrontCalm, WakeCalm, Heard,
           Pending
  <1>3. CASE QuiesceSession
    BY <1>3 DEF QuiesceSession, ClaimCalm, TurnCalm, FrontCalm, WakeCalm, Pending
  <1>4. ~Crash
    BY ConstantsAssumption DEF Crash, Calm, OrderInv, RestTyped, ConstantsAssumption
  <1>5. ~LeaseRunsOut /\ ~RecoverPending /\ ~RecoverState
    BY <1>1 DEF LeaseRunsOut, RecoverPending, RecoverState, Calm, TurnCalm, NoTurn
  <1> QED
    BY <1>2, <1>3, <1>4, <1>5 DEF Environment

LEMMA StepCalm ==
    ASSUME Calm, IInv, OrderInv, CalmInv, [Next]_vars
    PROVE  CalmInv'
  <1>1. CASE UNCHANGED vars
    BY <1>1
       DEF vars, process, CalmInv, ClaimCalm, TurnCalm, FrontCalm, WakeCalm, Heard, Pending
  <1>2. CASE Dispatch
    BY <1>2
       DEF Dispatch, CalmInv, ClaimCalm, TurnCalm, FrontCalm, WakeCalm, Heard, Pending
  <1>3. ~SenderStep /\ Other = {}
    BY DEF Calm, SenderStep, Steer, EndQueuePause, ConsumeSteered
  <1> QED
    BY <1>1, <1>2, <1>3, DrainCalm, FreesCalm, UserCalm, EnvironmentCalm DEF Next

(* No wake is lost and no claim forgotten: with the drain alone, nothing   *)
(* failing and no crash, a session on which nothing goes on and no wake is *)
(* due has no user message waiting.                                        *)
THEOREM NoWakeIsLost == ASSUME Calm PROVE Spec => []NothingForgotten
  <1>1. CalmInv => NothingForgotten
    BY DrainIsWorker DEF CalmInv, WakeCalm, Heard, NothingForgotten, Quiet
  <1>2. Init => CalmInv
    BY InitCalm
  <1>3. IInv /\ OrderInv /\ CalmInv /\ [Next]_vars => CalmInv'
    BY StepCalm
  <1> QED
    BY <1>1, <1>2, <1>3, OrderInvariant, PTL DEF Spec
=============================================================================
