------------------------- MODULE SessionQueueProofs -------------------------
(***************************************************************************)
(* The safety of the durable queue for every set of items, requests and    *)
(* runs of the runtime, and for every bound.                               *)
(*                                                                         *)
(* The invariant of the rows, GoodRows, is a predicate on a set of rows, so*)
(* that each way in which a transaction changes the set (rows leave, a row *)
(* is rewritten in place, a row is added, the queued rows are placed anew, *)
(* claimed rows return) is one lemma about sets of rows, and an action's   *)
(* proof only says which lemmas its transaction is made of.                *)
(***************************************************************************)
EXTENDS SessionQueue, FiniteSetTheorems, TLAPS

\* What holds of the rows R when `next` is the next value of the position
\* column and `ids` are the item ids handed out.
GoodRows(R, next, ids) ==
    /\ R \subseteq Row
    /\ IsFiniteSet(R)
    /\ \A r \in R : r.pos < next /\ r.item \in ids
    /\ \A r, s \in R : (r.item = s.item \/ r.pos = s.pos) => r = s
    /\ \A r, s \in Claimed(R) : r = s
    /\ \A r, s \in R : (r.request = s.request /\ r.request # None) => r = s

\* The inductive invariant: GoodRows makes OneRowPerRequest, AtMostOneClaim
\* and RowsDistinct inductive together.
IInv ==
    /\ TypeOK
    /\ GoodRows(rows, nextPos, issued)
    /\ PauseNeedsPending

----------------------------------------------------------------------------
(* Sets of rows.                                                           *)

\* Rows that leave do no harm: expiry, cancellation, acknowledgement.
LEMMA FewerRows ==
    ASSUME NEW R, NEW next, NEW ids, GoodRows(R, next, ids),
           NEW S, S \subseteq R
    PROVE  GoodRows(S, next, ids)
<1>1. IsFiniteSet(S)
  BY FS_Subset DEF GoodRows
<1> QED
  BY <1>1 DEF GoodRows, Claimed

\* A later value of the position column and more ids do no harm either.
LEMMA LaterRows ==
    ASSUME NEW R, NEW next \in Int, NEW ids, GoodRows(R, next, ids),
           NEW later \in Int, later >= next, NEW more, ids \subseteq more
    PROVE  GoodRows(R, later, more)
<1>1. \A r \in R : r.pos \in Int
  BY ConstantsAssumption DEF GoodRows, Row
<1> QED
  BY <1>1 DEF GoodRows

\* write: a row rewritten in place keeps its position and its identity.
LEMMA WrittenRows ==
    ASSUME NEW R, NEW next, NEW ids, GoodRows(R, next, ids),
           NEW r \in R, NEW s \in Row,
           s.item = r.item, s.request = r.request, s.pos = r.pos,
           s.status = "claimed" => Claimed(R \ {r}) = {}
    PROVE  GoodRows(Write(R, r, s), next, ids)
<1> DEFINE W == Write(R, r, s)
<1>1. [s EXCEPT !.pos = r.pos] = s
  BY DEF Row
<1>2. W = (R \ {r}) \cup {s}
  BY <1>1 DEF Write
<1> HIDE DEF W
<1>3. IsFiniteSet(R \ {r})
  BY FS_Subset DEF GoodRows
<1>9. IsFiniteSet(W)
  BY <1>2, <1>3, FS_AddElement
<1>4. W \subseteq Row
  BY <1>2 DEF GoodRows
<1>5. \A q \in W : q.pos < next /\ q.item \in ids
  BY <1>2 DEF GoodRows
<1>6. \A p, q \in W : (p.item = q.item \/ p.pos = q.pos) => p = q
  BY <1>2 DEF GoodRows
<1>7. \A p, q \in Claimed(W) : p = q
  BY <1>2 DEF GoodRows, Claimed
<1>8. \A p, q \in W : (p.request = q.request /\ p.request # None) => p = q
  BY <1>2 DEF GoodRows
<1> QED
  BY <1>4, <1>5, <1>6, <1>7, <1>8, <1>9 DEF GoodRows, W

\* replaceRows and moveQueuedToFront: the queued rows get new positions above
\* those of every row there was.
LEMMA PlacedRows ==
    ASSUME NEW R, NEW next \in 1 .. MaxPos + 1, NEW ids, GoodRows(R, next, ids),
           NEW from \in Int, next <= from,
           from + Cardinality(Queued(R)) \in 1 .. MaxPos + 1,
           NEW pos \in Placements(R, from)
    PROVE  GoodRows(Placed(R, pos), from + Cardinality(Queued(R)), ids)
<1> DEFINE n == Cardinality(Queued(R))
           moved == [r \in Queued(R) |-> [r EXCEPT !.pos = pos[r.item]]]
           M == {[r EXCEPT !.pos = pos[r.item]] : r \in Queued(R)}
           P == Placed(R, pos)
<1>1. IsFiniteSet(Queued(R)) /\ IsFiniteSet(Claimed(R))
  BY FS_Subset DEF GoodRows, Queued, Claimed
<1>2. n \in Nat
  BY <1>1, FS_CardinalityType
<1>3. moved \in Surjection(Queued(R), M)
  BY DEF Surjection
<1>4. IsFiniteSet(P)
  <2>1. IsFiniteSet(M)
    BY <1>1, <1>3, FS_Surjection
  <2>2. IsFiniteSet(Claimed(R) \cup M)
    BY <1>1, <2>1, FS_Union
  <2> QED
    BY <2>2 DEF Placed
<1> HIDE DEF n, moved
<1>5. /\ \A r \in Queued(R) : pos[r.item] \in from .. from + n - 1
      /\ \A r, s \in Queued(R) : pos[r.item] = pos[s.item] => r = s
  BY DEF Placements, n
<1>6. /\ from + n \in 1 .. MaxPos + 1
      /\ \A r \in R : r.pos \in Int /\ r.pos < from /\ r.pos < from + n
  BY <1>2, ConstantsAssumption DEF n, GoodRows, Row
<1>7. \A m \in M : \E r \in Queued(R) :
        /\ m \in Row /\ m.pos = pos[r.item]
        /\ m.item = r.item /\ m.request = r.request /\ m.status = "queued"
  <2> SUFFICES ASSUME NEW r \in Queued(R)
      PROVE  LET m == [r EXCEPT !.pos = pos[r.item]]
             IN  /\ m \in Row /\ m.pos = pos[r.item]
                 /\ m.item = r.item /\ m.request = r.request /\ m.status = "queued"
    OBVIOUS
  <2>1. r \in Row /\ r.status = "queued" /\ r \in R
    BY DEF GoodRows, Queued
  <2>2. pos[r.item] \in 1 .. MaxPos
    BY <1>2, <1>5, <1>6, <2>1, ConstantsAssumption
  <2> QED
    BY <2>1, <2>2 DEF Row
<1> HIDE DEF M
<1>8. P = Claimed(R) \cup M
  BY DEF Placed, M
<1> HIDE DEF P
<1>9. \A c \in Claimed(R) : c \in R /\ c \in Row /\ c.status = "claimed"
  BY DEF GoodRows, Claimed
<1>10. \A q \in Queued(R) : q \in R /\ q.status = "queued"
  BY DEF Queued
<1>11. \A m, k \in M : (m.item = k.item \/ m.pos = k.pos) => m = k
  <2> SUFFICES ASSUME NEW r \in Queued(R), NEW s \in Queued(R),
                      \/ [r EXCEPT !.pos = pos[r.item]].item = [s EXCEPT !.pos = pos[s.item]].item
                      \/ [r EXCEPT !.pos = pos[r.item]].pos = [s EXCEPT !.pos = pos[s.item]].pos
      PROVE  r = s
    BY DEF M
  <2>1. r.item = s.item \/ pos[r.item] = pos[s.item]
    BY <1>10 DEF GoodRows, Row
  <2> QED
    BY <1>5, <1>10, <2>1 DEF GoodRows
<1>12. \A m, k \in M : (m.request = k.request /\ m.request # None) => m = k
  <2> SUFFICES ASSUME NEW r \in Queued(R), NEW s \in Queued(R),
                      r.request = s.request, r.request # None
      PROVE  r = s
    BY <1>10 DEF M, GoodRows, Row
  <2> QED
    BY <1>10 DEF GoodRows
<1>13. P \subseteq Row
  BY <1>7, <1>8, <1>9
<1>14. \A p \in P : p.pos < from + n /\ p.item \in ids
  <2>1. \A c \in Claimed(R) : c.pos < from + n /\ c.item \in ids
    BY <1>6, <1>9 DEF GoodRows
  <2>2. \A m \in M : m.pos < from + n /\ m.item \in ids
    BY <1>2, <1>5, <1>6, <1>7, <1>10 DEF GoodRows
  <2> QED
    BY <1>8, <2>1, <2>2
<1>15. \A c \in Claimed(R), m \in M : c.item # m.item /\ c.pos # m.pos
  <2> SUFFICES ASSUME NEW c \in Claimed(R), NEW m \in M
      PROVE  c.item # m.item /\ c.pos # m.pos
    OBVIOUS
  <2>1. PICK r \in Queued(R) : m.pos = pos[r.item] /\ m.item = r.item
    BY <1>7
  <2>2. c # r /\ c \in R /\ r \in R
    BY <1>9, <1>10
  <2>3. m.pos >= from /\ c.pos < from
    BY <1>2, <1>5, <1>6, <2>1, <2>2
  <2>4. m.pos \in Int /\ c.pos \in Int
    BY <1>2, <1>5, <1>6, <2>1, <2>2
  <2> QED
    BY <2>1, <2>2, <2>3, <2>4 DEF GoodRows
<1>16. \A c \in Claimed(R), m \in M : c.request = m.request => c.request = None
  BY <1>7, <1>9, <1>10 DEF GoodRows
<1>17. \A p, q \in P : (p.item = q.item \/ p.pos = q.pos) => p = q
  BY <1>8, <1>9, <1>11, <1>15 DEF GoodRows
<1>18. \A p, q \in Claimed(P) : p = q
  BY <1>7, <1>8 DEF GoodRows, Claimed
<1>19. \A p, q \in P : (p.request = q.request /\ p.request # None) => p = q
  BY <1>8, <1>9, <1>12, <1>16 DEF GoodRows
<1> QED
  BY <1>4, <1>13, <1>14, <1>17, <1>18, <1>19 DEF GoodRows, P, n

\* withoutClaim: a row that was claimed is as it was while it was queued.
LEMMA UnclaimedRow ==
    ASSUME NEW r \in Row
    PROVE  LET s == WithoutClaim(r)
           IN  /\ s \in Row /\ s.item = r.item /\ s.request = r.request
               /\ s.pos = r.pos /\ s.status = "queued"
<1> DEFINE a == [r EXCEPT !.status = "queued"]
           b == [a EXCEPT !.claim = NoClaim]
           c == [b EXCEPT !.claimedAt = 0]
           d == [c EXCEPT !.owner = None]
           e == [d EXCEPT !.prepared = FALSE]
<1>1. WithoutClaim(r) = e
  BY DEF WithoutClaim
<1>2. /\ a \in Row /\ a.item = r.item /\ a.request = r.request
      /\ a.pos = r.pos /\ a.status = "queued"
  BY DEF Row
<1> HIDE DEF a
<1>3. /\ b \in Row /\ b.item = r.item /\ b.request = r.request
      /\ b.pos = r.pos /\ b.status = "queued"
  BY <1>2 DEF Row
<1> HIDE DEF b
<1>4. /\ c \in Row /\ c.item = r.item /\ c.request = r.request
      /\ c.pos = r.pos /\ c.status = "queued"
  BY <1>3, ConstantsAssumption DEF Row, Time
<1> HIDE DEF c
<1>5. /\ d \in Row /\ d.item = r.item /\ d.request = r.request
      /\ d.pos = r.pos /\ d.status = "queued"
  BY <1>4 DEF Row
<1> HIDE DEF d
<1>6. /\ e \in Row /\ e.item = r.item /\ e.request = r.request
      /\ e.pos = r.pos /\ e.status = "queued"
  BY <1>5 DEF Row
<1> QED
  BY <1>1, <1>6

\* release and recovery: claimed rows come back under their old positions.
LEMMA ReturnedRows ==
    ASSUME NEW R, NEW next, NEW ids, GoodRows(R, next, ids),
           NEW back, back \subseteq Claimed(R)
    PROVE  GoodRows((R \ back) \cup {WithoutClaim(r) : r \in back}, next, ids)
<1>1. CASE back = {}
  BY <1>1, FewerRows
<1>2. CASE back # {}
  <2>1. PICK r \in back : back = {r} /\ r \in R /\ r.status = "claimed"
    BY <1>2 DEF GoodRows, Claimed
  <2> DEFINE s == WithoutClaim(r)
  <2>2. /\ s \in Row /\ s.item = r.item /\ s.request = r.request
        /\ s.pos = r.pos /\ s.status = "queued"
    BY <2>1, UnclaimedRow DEF GoodRows
  <2>3. [s EXCEPT !.pos = r.pos] = s
    BY <2>2 DEF Row
  <2>4. (R \ back) \cup {WithoutClaim(q) : q \in back} = Write(R, r, s)
    BY <2>1, <2>3 DEF Write
  <2> HIDE DEF s
  <2>5. GoodRows(Write(R, r, s), next, ids)
    BY <2>1, <2>2, WrittenRows
  <2> QED
    BY <2>4, <2>5
<1> QED
  BY <1>1, <1>2

\* A queued row is added under a new position or under that of a row that
\* leaves, with an identity and a request no other row has.
LEMMA AddedRow ==
    ASSUME NEW R, NEW next, NEW ids, GoodRows(R, next, ids),
           NEW s \in Row, s.status = "queued", s.item \in ids, s.pos < next,
           \A r \in R : r.item # s.item /\ r.pos # s.pos,
           \A r \in R : r.request = s.request => s.request = None
    PROVE  GoodRows(R \cup {s}, next, ids)
<1>1. IsFiniteSet(R \cup {s})
  BY FS_AddElement DEF GoodRows
<1>2. /\ R \cup {s} \subseteq Row
      /\ \A r \in R \cup {s} : r.pos < next /\ r.item \in ids
  BY DEF GoodRows
<1>3. \A p, q \in R \cup {s} : (p.item = q.item \/ p.pos = q.pos) => p = q
  BY DEF GoodRows
<1>4. \A p, q \in Claimed(R \cup {s}) : p = q
  BY DEF GoodRows, Claimed
<1>5. \A p, q \in R \cup {s} : (p.request = q.request /\ p.request # None) => p = q
  BY DEF GoodRows
<1> QED
  BY <1>1, <1>2, <1>3, <1>4, <1>5 DEF GoodRows

----------------------------------------------------------------------------
(* Transactions.                                                           *)

\* The rows a transaction starts from, once the expired ones are deleted.
LEMMA LiveRows ==
    ASSUME IInv
    PROVE  GoodRows(Live, nextPos, issued) /\ Live \subseteq rows
BY FewerRows DEF IInv, Live

\* A transaction that commits good rows and a well-typed pause keeps IInv.
LEMMA Committed ==
    ASSUME IInv, NEW STATE R, NEW STATE p, NEW STATE F, Commit(R, p, F),
           GoodRows(R, nextPos', issued'), p \in Cause \cup {NoPause},
           nextPos' \in 1 .. MaxPos + 1, issued' \subseteq Item,
           nextClaim' \in 1 .. MaxClaim + 1,
           UNCHANGED <<token, accepted, environment>>
    PROVE  IInv'
<1>1. rows' = R /\ (pause' = p \/ pause' = NoPause) /\ (R = {} => pause' = NoPause)
  BY DEF Commit
<1>2. GoodRows(rows', nextPos', issued')
  BY <1>1
<1>3. TypeOK'
  BY <1>1, <1>2 DEF IInv, TypeOK, GoodRows, environment
<1>4. PauseNeedsPending'
  BY <1>1 DEF PauseNeedsPending
<1> QED
  BY <1>2, <1>3, <1>4 DEF IInv

\* The same, for the transactions that only drop some of the rows.
LEMMA CommittedFewer ==
    ASSUME IInv, NEW STATE R, NEW STATE p, NEW STATE F, Commit(R, p, F),
           R \subseteq Live, p \in Cause \cup {NoPause},
           UNCHANGED <<nextPos, issued, nextClaim, token, accepted, environment>>
    PROVE  IInv'
<1>1. GoodRows(R, nextPos', issued')
  BY LiveRows, FewerRows
<1> QED
  BY <1>1, Committed DEF IInv, TypeOK

\* claimNext: the one claim is of a row that was live.
LEMMA ClaimRowKeeps ==
    ASSUME IInv, NEW o \in Owner, NEW r \in Queued(Live), ClaimRow(o, r)
    PROVE  IInv'
<1> DEFINE a == [r EXCEPT !.status = "claimed"]
           b == [a EXCEPT !.claim = nextClaim]
           c == [b EXCEPT !.claimedAt = now]
           d == [c EXCEPT !.owner = o]
           s == [d EXCEPT !.prepared = FALSE]
<1>1. /\ r \in Live /\ r \in Row /\ nextClaim \in Claim /\ now \in Time
      /\ Claimed(Live) = {} /\ nextClaim' \in 1 .. MaxClaim + 1
      /\ Commit(Write(Live, r, s), pause, ExpiredFacts)
      /\ UNCHANGED <<nextPos, issued, token, accepted, environment>>
  BY LiveRows, ConstantsAssumption DEF ClaimRow, Queued, GoodRows, IInv, TypeOK, Claim
<1>2. a \in Row /\ a.item = r.item /\ a.request = r.request /\ a.pos = r.pos
  BY <1>1 DEF Row
<1> HIDE DEF a
<1>3. b \in Row /\ b.item = r.item /\ b.request = r.request /\ b.pos = r.pos
  BY <1>1, <1>2 DEF Row
<1> HIDE DEF b
<1>4. c \in Row /\ c.item = r.item /\ c.request = r.request /\ c.pos = r.pos
  BY <1>1, <1>3 DEF Row
<1> HIDE DEF c
<1>5. d \in Row /\ d.item = r.item /\ d.request = r.request /\ d.pos = r.pos
  BY <1>4 DEF Row
<1> HIDE DEF d
<1>6. s \in Row /\ s.item = r.item /\ s.request = r.request /\ s.pos = r.pos
  BY <1>5 DEF Row
<1> HIDE DEF s
<1>7. GoodRows(Write(Live, r, s), nextPos', issued')
  <2>1. Claimed(Live \ {r}) = {}
    BY <1>1 DEF Claimed
  <2> QED
    BY <1>1, <1>6, <2>1, LiveRows, WrittenRows
<1> QED
  BY <1>1, <1>7, Committed DEF IInv, TypeOK

\* A queued row rewritten in place, as updateQueued and promoteQueuedSource
\* and prepareDelivery do.
LEMMA RewriteKeeps ==
    ASSUME IInv, NEW STATE R, R \subseteq rows, GoodRows(R, nextPos, issued),
           NEW STATE r, r \in R, NEW STATE s, s \in Row,
           s.item = r.item, s.request = r.request, s.pos = r.pos,
           s.status = r.status, NEW STATE F, Commit(Write(R, r, s), pause, F),
           UNCHANGED <<nextPos, issued, nextClaim, token, accepted, environment>>
    PROVE  IInv'
<1>1. ASSUME s.status = "claimed" PROVE Claimed(R \ {r}) = {}
  <2>1. r \in Claimed(R)
    BY <1>1 DEF Claimed
  <2>2. \A q \in Claimed(R) : q = r
    BY <2>1 DEF GoodRows
  <2> QED
    BY <2>2 DEF Claimed
<1>2. GoodRows(Write(R, r, s), nextPos', issued')
  BY <1>1, WrittenRows
<1> QED
  BY <1>2, Committed DEF IInv, TypeOK

\* releaseClaim and recoverClaims, which both end in Return.
LEMMA ReturnKeeps ==
    ASSUME IInv, NEW STATE R, R \subseteq Claimed(Live), NEW STATE gone,
           gone \subseteq Live, R \cap gone = {}, NEW STATE F, Return(R, gone, F),
           UNCHANGED <<nextPos, issued, nextClaim, token, accepted, environment>>
    PROVE  IInv'
<1> DEFINE dropped == {r \in R : Expired(r)}
           back == R \ dropped
           base == (Live \ gone) \ dropped
           W == (base \ back) \cup {WithoutClaim(r) : r \in back}
<1>1. PICK G : Commit(W, pause, G)
  <2>1. ((Live \ gone) \ R) = base \ back
    OBVIOUS
  <2> QED
    BY <2>1 DEF Return
<1>2. GoodRows(base, nextPos, issued)
  BY LiveRows, FewerRows
<1>3. back \subseteq Claimed(base)
  BY DEF Claimed
<1>4. GoodRows(W, nextPos', issued')
  BY <1>2, <1>3, ReturnedRows
<1> QED
  BY <1>1, <1>4, Committed DEF IInv, TypeOK

\* enqueue of a request that has a row, reorder: the live rows placed anew.
LEMMA PlacementKeeps ==
    ASSUME IInv, PlacedUpTo(Live, nextPos), NEW pos \in Placements(Live, nextPos),
           NEW STATE F, Commit(Placed(Live, pos), pause, F),
           UNCHANGED <<issued, nextClaim, token, accepted, environment>>
    PROVE  IInv'
<1>1. nextPos \in 1 .. MaxPos + 1 /\ nextPos \in Int
  BY ConstantsAssumption DEF IInv, TypeOK
<1>2. GoodRows(Placed(Live, pos), nextPos', issued')
  BY <1>1, LiveRows, PlacedRows DEF PlacedUpTo
<1> QED
  BY <1>2, Committed DEF IInv, TypeOK, PlacedUpTo

\* enqueue of a new row, whatever it restores, replaces and carries away.
LEMMA InsertKeeps ==
    ASSUME IInv, NEW in \in Input, NEW restore \in Item \cup {None},
           NEW front \in BOOLEAN, NEW members \in SUBSET Claimed(rows),
           InsertEnqueue(in, restore, front, members)
    PROVE  IInv'
<1> DEFINE settled == Live \ members
           displaced == {r \in Claimed(settled) : r.item = restore}
           kept == settled \ displaced
           candidates == {r \in Queued(kept) : r.dedupe = in.dedupe /\ in.dedupe # None}
           replaced == First(candidates)
           from == IF replaced = {} THEN nextPos + 1 ELSE nextPos
           pos == IF replaced = {} THEN nextPos
                  ELSE CHOOSE p \in {r.pos : r \in replaced} : TRUE
           report(i) == ExpiredFacts \cup Removals(members, "injected")
                        \cup Removals(displaced \cup replaced, "cancelled")
                        \cup {EnqueuedFact(i)}
           written(i) == (kept \ replaced) \cup {NewRow(i, pos, in)}
<1>1. PICK i \in Item :
        /\ IdentityOf(i, restore, settled)
        /\ issued' = issued \cup {i}
        /\ IF front
           THEN /\ PlacedUpTo(written(i), from)
                /\ \E place \in Placements(written(i), from) :
                    Commit(Placed(written(i), place), pause, report(i))
           ELSE /\ Commit(written(i), pause, report(i))
                /\ nextPos' = from
  BY Zenon DEF InsertEnqueue
<1>2. /\ RowsOfRequest(in) = {} /\ from <= MaxPos + 1
      /\ UNCHANGED <<nextClaim, token, accepted, environment>>
  BY DEF InsertEnqueue
<1>3. replaced \subseteq kept /\ kept \subseteq Live
  BY DEF First, Queued
<1> HIDE DEF replaced, kept
<1>4. GoodRows(kept \ replaced, nextPos, issued)
  BY <1>3, LiveRows, FewerRows
<1>5. /\ nextPos \in 1 .. MaxPos + 1 /\ from \in 1 .. MaxPos + 1
      /\ nextPos <= from /\ MaxPos \in Nat
  BY <1>2, ConstantsAssumption DEF IInv, TypeOK
<1>6. /\ pos \in 1 .. MaxPos /\ pos < from
      /\ \A r \in kept \ replaced : r.pos # pos
  <2>1. CASE replaced = {}
    <3>1. pos = nextPos /\ from = nextPos + 1
      BY <2>1
    <3>2. \A r \in kept : r.pos < nextPos /\ r.pos \in Int
      BY <1>3, LiveRows, ConstantsAssumption DEF GoodRows, Row
    <3> QED
      BY <1>5, <3>1, <3>2
  <2>2. CASE replaced # {}
    <3>1. PICK q \in replaced : pos = q.pos
      BY <2>2
    <3>2. q \in Live /\ q.pos \in 1 .. MaxPos /\ q.pos < nextPos /\ from = nextPos
      BY <1>3, <2>2, <3>1, LiveRows DEF GoodRows, Row
    <3>3. \A r \in kept \ replaced : r.pos # q.pos
      BY <1>3, <3>1, LiveRows DEF GoodRows
    <3> QED
      BY <3>1, <3>2, <3>3
  <2> QED
    BY <2>1, <2>2
<1>7. \A r \in kept \ replaced : r.item # i
  <2>1. CASE restore # None /\ \A r \in Queued(settled) : r.item # restore
    BY <1>1, <2>1 DEF IdentityOf, kept, Queued, Claimed, GoodRows, Row, IInv, Live
  <2>2. CASE ~(restore # None /\ \A r \in Queued(settled) : r.item # restore)
    BY <1>1, <1>3, <2>2, LiveRows DEF IdentityOf, GoodRows
  <2> QED
    BY <2>1, <2>2
<1>8. \A r \in kept \ replaced : r.request = in.request => in.request = None
  BY <1>2, <1>3 DEF RowsOfRequest
<1> DEFINE s == NewRow(i, pos, in)
<1>9. /\ s \in Row /\ s.status = "queued" /\ s.item = i
      /\ s.pos = pos /\ s.request = in.request
  BY <1>6, ConstantsAssumption DEF NewRow, Row, InputType, NoClaim, Time
<1> HIDE DEF s, pos, from
<1>10. GoodRows(written(i), from, issued')
  <2>1. GoodRows(kept \ replaced, from, issued')
    BY <1>1, <1>4, <1>5, LaterRows
  <2> QED
    BY <1>1, <1>6, <1>7, <1>8, <1>9, <2>1, AddedRow DEF s
<1>11. issued' \subseteq Item
  BY <1>1 DEF IInv, TypeOK
<1> HIDE DEF written, report
<1>12. CASE front
  <2>1. PICK place \in Placements(written(i), from) :
          Commit(Placed(written(i), place), pause, report(i))
    BY <1>1, <1>12
  <2>2. PlacedUpTo(written(i), from)
    BY <1>1, <1>12
  <2>3. GoodRows(Placed(written(i), place), nextPos', issued')
    BY <1>5, <1>10, <2>2, PlacedRows DEF PlacedUpTo
  <2> QED
    BY <1>2, <1>11, <2>1, <2>2, <2>3, Committed DEF IInv, TypeOK, PlacedUpTo
<1>13. CASE ~front
  BY <1>1, <1>2, <1>5, <1>10, <1>11, <1>13, Committed DEF IInv, TypeOK
<1> QED
  BY <1>12, <1>13

----------------------------------------------------------------------------
(* The invariant.                                                          *)

\* An empty queue, without a pause, is good.
LEMMA InitGood == Init => IInv
<1> SUFFICES ASSUME Init PROVE IInv
  OBVIOUS
<1>1. TypeOK
  BY ConstantsAssumption DEF Init, TypeOK, Time, NotStarted
<1>2. GoodRows(rows, nextPos, issued)
  BY FS_EmptySet DEF Init, GoodRows, Claimed
<1>3. PauseNeedsPending
  BY DEF Init, PauseNeedsPending
<1> QED
  BY <1>1, <1>2, <1>3 DEF IInv

\* What the users of the queue do keeps the invariant.
LEMMA UserStepKeeps == IInv /\ UserStep => IInv'
<1> SUFFICES ASSUME IInv, UserStep PROVE IInv'
  OBVIOUS
<1> USE DEF IInv, TypeOK
<1>1. CASE Refresh
  BY <1>1, CommittedFewer DEF Refresh
<1>2. CASE \E cause \in Cause : PauseIfPending(cause)
  BY <1>2, CommittedFewer DEF PauseIfPending
<1>3. CASE ContinueQueue
  BY <1>3, CommittedFewer DEF ContinueQueue
<1>4. CASE EnqueueAtEnd
  <2>1. PICK in \in Input, restore \in Item \cup {None} :
          \/ ReplayEnqueue(in, restore, FALSE)
          \/ \E members \in SUBSET Claimed(rows) :
               InsertEnqueue(in, restore, FALSE, members)
    BY <1>4 DEF EnqueueAtEnd
  <2>2. CASE ReplayEnqueue(in, restore, FALSE)
    BY <2>2, CommittedFewer DEF ReplayEnqueue
  <2>3. CASE \E members \in SUBSET Claimed(rows) :
               InsertEnqueue(in, restore, FALSE, members)
    BY <2>3, InsertKeeps
  <2> QED
    BY <2>1, <2>2, <2>3
<1>5. CASE \E i \in Item, expires \in Time : UpdateQueued(i, expires)
  <2>1. PICK i \in Item, expires \in Time : UpdateQueued(i, expires)
    BY <1>5
  <2>2. PICK r \in Queued(Live) :
          /\ Commit(Write(Live, r, [r EXCEPT !.expires = expires]),
                    pause, ExpiredFacts)
          /\ UNCHANGED <<nextPos, issued, nextClaim, token, accepted, environment>>
    BY <2>1 DEF UpdateQueued
  <2> DEFINE s == [r EXCEPT !.expires = expires]
  <2>3. /\ r \in Live /\ r \in Row
    BY LiveRows DEF Queued, GoodRows
  <2>4. /\ s \in Row /\ s.item = r.item /\ s.request = r.request
        /\ s.pos = r.pos /\ s.status = r.status
    BY <2>3, ConstantsAssumption DEF Row, Time, Never
  <2> HIDE DEF s
  <2> QED
    BY <2>2, <2>3, <2>4, LiveRows, RewriteKeeps DEF s
<1>6. CASE \E i \in Item : Cancel(i)
  BY <1>6, CommittedFewer DEF Cancel
<1>7. CASE \E i \in Item, source \in Source : PromoteQueuedSource(i, source)
  <2>1. PICK i \in Item, source \in Source : PromoteQueuedSource(i, source)
    BY <1>7
  <2>2. PICK r \in Queued(Live) :
          /\ Commit(Write(Live, r, [r EXCEPT !.source = source]),
                    pause, ExpiredFacts)
          /\ UNCHANGED <<nextPos, issued, nextClaim, token, accepted, environment>>
    BY <2>1 DEF PromoteQueuedSource
  <2> DEFINE s == [r EXCEPT !.source = source]
  <2>3. r \in Live /\ r \in Row
    BY LiveRows DEF Queued, GoodRows
  <2>4. /\ s \in Row /\ s.item = r.item /\ s.request = r.request
        /\ s.pos = r.pos /\ s.status = r.status
    BY <2>3 DEF Row
  <2> HIDE DEF s
  <2> QED
    BY <2>2, <2>3, <2>4, LiveRows, RewriteKeeps DEF s
<1>8. CASE ClearUserManageable
  BY <1>8, CommittedFewer DEF ClearUserManageable
<1>9. CASE \E taken \in SUBSET QueuedApi : DrainComposerInjectable(taken)
  BY <1>9, CommittedFewer DEF DrainComposerInjectable
<1>10. CASE DeleteSession
  BY <1>10, CommittedFewer DEF DeleteSession
<1> QED
  BY <1>1, <1>2, <1>3, <1>4, <1>5, <1>6, <1>7, <1>8, <1>9, <1>10 DEF UserStep

\* Front placement and reordering keep the invariant.
LEMMA PlacementStepKeeps == IInv /\ (PlaceInFront \/ Reorder) => IInv'
<1> SUFFICES ASSUME IInv, PlaceInFront \/ Reorder PROVE IInv'
  OBVIOUS
<1>1. CASE \E in \in Input, restore \in Item \cup {None} : ReplayEnqueue(in, restore, TRUE)
  BY <1>1, PlacementKeeps DEF ReplayEnqueue
<1>2. CASE \E in \in Input, restore \in Item \cup {None}, members \in SUBSET Claimed(rows) :
             InsertEnqueue(in, restore, TRUE, members)
  BY <1>2, InsertKeeps
<1>3. CASE Reorder
  BY <1>3, PlacementKeeps DEF Reorder
<1> QED
  BY <1>1, <1>2, <1>3 DEF PlaceInFront

\* Claims, their ends and their recovery keep the invariant.
LEMMA ClaimStepKeeps == IInv /\ ClaimStep => IInv'
<1> SUFFICES ASSUME IInv, ClaimStep PROVE IInv'
  OBVIOUS
<1> USE DEF IInv, TypeOK
<1>1. CASE \E o \in Owner, yielded \in SUBSET issued : ClaimFifo(o, yielded)
  BY <1>1, ClaimRowKeeps DEF ClaimFifo, First, Queued
<1>2. CASE \E o \in Owner : ClaimContinued(o)
  BY <1>2, ClaimRowKeeps DEF ClaimContinued, First
<1>3. CASE \E o \in Owner, i \in Item : ClaimExact(o, i)
  BY <1>3, ClaimRowKeeps DEF ClaimExact
<1>4. CASE \E o \in Owner, scoped \in BOOLEAN : RecoverClaims(o, scoped)
  BY <1>4, ReturnKeeps DEF RecoverClaims, Claimed
<1>5. CASE \E c \in Claim : PrepareDelivery(c)
  <2>1. PICK c \in Claim, r \in rows :
          /\ Commit(Write(rows, r, [r EXCEPT !.prepared = TRUE]), pause, {})
          /\ UNCHANGED <<nextPos, issued, nextClaim, token, accepted, environment>>
    BY <1>5 DEF PrepareDelivery, ClaimRows, Claimed
  <2> DEFINE s == [r EXCEPT !.prepared = TRUE]
  <2>2. /\ s \in Row /\ s.item = r.item /\ s.request = r.request
        /\ s.pos = r.pos /\ s.status = r.status
    BY DEF Row
  <2> HIDE DEF s
  <2> QED
    BY <2>1, <2>2, RewriteKeeps DEF s
<1>6. CASE \E c \in Claim : TurnAccepts(c)
  BY <1>6 DEF TurnAccepts, tables, environment, PauseNeedsPending
<1>7. CASE \E c \in Claim, reason \in Reason : RemoveClaimed(c, reason)
  BY <1>7, CommittedFewer DEF RemoveClaimed
<1>8. CASE \E c \in Claim : ReleaseClaim(c)
  BY <1>8, ReturnKeeps DEF ReleaseClaim, ClaimRows
<1> QED
  BY <1>1, <1>2, <1>3, <1>4, <1>5, <1>6, <1>7, <1>8
     DEF ClaimStep, Acknowledge, Reason

\* The fence writes the pause row only while rows are pending.
LEMMA FenceStepKeeps == IInv /\ FenceStep => IInv'
<1> SUFFICES ASSUME IInv, FenceStep PROVE IInv'
  OBVIOUS
<1>1. PendingNow \subseteq rows
  BY DEF PendingNow, Claimed, Queued
<1>2. /\ UNCHANGED <<tables, accepted, environment>>
      /\ pause' \in Cause \cup {NoPause} /\ token' \in Cause \cup {NoPause}
      /\ pause' # NoPause => rows # {}
  BY <1>1 DEF FenceStep, FenceAccepted, FenceSettled, FenceRevoked, IInv, TypeOK,
              PauseNeedsPending
<1> QED
  BY <1>2 DEF IInv, TypeOK, PauseNeedsPending, tables, environment

\* The clock, and the start and the crash of a process, touch no row.
LEMMA ProcessStepKeeps == IInv /\ ProcessStep => IInv'
<1> SUFFICES ASSUME IInv, ProcessStep PROVE IInv'
  OBVIOUS
<1>1. /\ UNCHANGED <<tables, pause, accepted>>
      /\ now' \in Time /\ token' \in Cause \cup {NoPause} /\ alive' \subseteq Owner
      /\ startedAt' \in [Owner -> {NotStarted} \cup Time]
  BY ConstantsAssumption
     DEF ProcessStep, Tick, StartOwner, CrashOwner, IInv, TypeOK, Time
<1> QED
  BY <1>1 DEF IInv, TypeOK, PauseNeedsPending, tables

\* Every state the queue reaches satisfies the inductive invariant.
THEOREM QueueInvariant == Spec => []IInv
<1>1. Init => IInv
  BY InitGood
<1>2. IInv /\ [Next]_vars => IInv'
  <2> SUFFICES ASSUME IInv, [Next]_vars PROVE IInv'
    OBVIOUS
  <2>1. CASE Next
    BY <2>1, UserStepKeeps, PlacementStepKeeps, ClaimStepKeeps, FenceStepKeeps,
       ProcessStepKeeps DEF Next
  <2>2. CASE UNCHANGED vars
    BY <2>2 DEF vars, IInv, TypeOK, PauseNeedsPending
  <2> QED
    BY <2>1, <2>2
<1> QED
  BY <1>1, <1>2, PTL DEF Spec

\* The queue's tables, clock and claims keep their types.
THEOREM QueueTypeOK == Spec => []TypeOK
<1>1. IInv => TypeOK
  BY DEF IInv
<1> QED
  BY <1>1, QueueInvariant, PTL

\* hasClaimed guards every claim: a session has at most one claimed row, for
\* any number of processes, crashes and recoveries.
THEOREM QueueAtMostOneClaim == Spec => []AtMostOneClaim
<1>1. IInv => AtMostOneClaim
  BY DEF IInv, GoodRows, AtMostOneClaim
<1> QED
  BY <1>1, QueueInvariant, PTL

\* A client request names at most one row, through every requeue and
\* restoration.
THEOREM QueueOneRowPerRequest == Spec => []OneRowPerRequest
<1>1. IInv => OneRowPerRequest
  BY DEF IInv, GoodRows, OneRowPerRequest
<1> QED
  BY <1>1, QueueInvariant, PTL

\* The unique index on item ids is never violated by what the repository
\* writes, and positions stay distinct.
THEOREM QueueRowsDistinct == Spec => []RowsDistinct
<1>1. IInv => RowsDistinct
  BY DEF IInv, GoodRows, RowsDistinct
<1> QED
  BY <1>1, QueueInvariant, PTL

\* reconcilePause and the fence's pending count: no pause without a row.
THEOREM QueuePauseNeedsPending == Spec => []PauseNeedsPending
<1>1. IInv => PauseNeedsPending
  BY DEF IInv
<1> QED
  BY <1>1, QueueInvariant, PTL

----------------------------------------------------------------------------
(* Reports.                                                                *)

Reported ==
    \A paused \in BOOLEAN :
        (((pause = NoPause) # (pause' = NoPause)) /\ (pause' # NoPause) = paused)
            => StateFact(paused) \in facts'

\* withPauseRemovalFact: whatever a transaction does, it reports the removal
\* of a pause; whoever sets one has to report it in the transaction.
LEMMA CommitReports ==
    ASSUME NEW STATE R, NEW STATE p, NEW STATE F, Commit(R, p, F),
           p = pause \/ p = NoPause \/ StateFact(TRUE) \in F
    PROVE  Reported
<1>1. \/ pause' = NoPause
      \/ pause' = p
  BY DEF Commit
<1>2. pause # NoPause /\ pause' = NoPause => StateFact(FALSE) \in facts'
  BY DEF Commit
<1>3. F \subseteq facts'
  BY DEF Commit
<1> QED
  BY <1>1, <1>2, <1>3 DEF Reported

\* An enqueue commits with the pause it found.
LEMMA EnqueueReports ==
    ASSUME NEW in, NEW restore, NEW front \in BOOLEAN, NEW members,
           \/ ReplayEnqueue(in, restore, front)
           \/ InsertEnqueue(in, restore, front, members)
    PROVE  Reported
<1>1. CASE ReplayEnqueue(in, restore, front)
  <2>1. \E R : Commit(R, pause, ExpiredFacts)
    BY <1>1 DEF ReplayEnqueue
  <2> QED
    BY <2>1, CommitReports
<1>2. CASE InsertEnqueue(in, restore, front, members)
  <2>1. \E R, F : Commit(R, pause, F)
    BY <1>2, Zenon DEF InsertEnqueue
  <2> QED
    BY <2>1, CommitReports
<1> QED
  BY <1>1, <1>2

\* A subscriber that follows the facts knows whether the queue is paused:
\* no transaction of the queue or of the fence changes that in silence.
THEOREM QueuePauseReported == Spec => PauseReported
<1>1. ASSUME [Next]_vars PROVE [Reported]_vars
  <2>1. CASE UNCHANGED vars
    BY <2>1
  <2>2. CASE UserStep
    <3>1. CASE EnqueueAtEnd
      BY <3>1, EnqueueReports DEF EnqueueAtEnd
    <3>2. CASE \E cause \in Cause : PauseIfPending(cause)
      <4>1. PICK cause \in Cause :
              Commit(Live, cause, ExpiredFacts \cup {StateFact(TRUE)})
        BY <3>2 DEF PauseIfPending
      <4> QED
        BY <4>1, CommitReports
    <3>3. CASE ContinueQueue
      BY <3>3, CommitReports DEF ContinueQueue
    <3>4. CASE UserStep /\ ~EnqueueAtEnd /\ ~ContinueQueue
               /\ ~(\E cause \in Cause : PauseIfPending(cause))
      BY <3>4, CommitReports
         DEF UserStep, Refresh, UpdateQueued, Cancel, PromoteQueuedSource,
             ClearUserManageable, DrainComposerInjectable, DeleteSession
    <3> QED
      BY <2>2, <3>1, <3>2, <3>3, <3>4
  <2>3. CASE PlaceInFront \/ Reorder
    BY <2>3, EnqueueReports, CommitReports DEF PlaceInFront, Reorder
  <2>4. CASE ClaimStep
    <3>1. CASE \E o \in Owner, r \in Live : ClaimRow(o, r)
      BY <3>1, CommitReports DEF ClaimRow
    <3>2. CASE \E c \in Claim : PrepareDelivery(c)
      BY <3>2, CommitReports DEF PrepareDelivery
    <3>3. CASE \E c \in Claim : TurnAccepts(c)
      BY <3>3 DEF TurnAccepts, Reported
    <3>4. CASE \E c \in Claim, reason \in Reason : RemoveClaimed(c, reason)
      BY <3>4, CommitReports DEF RemoveClaimed
    <3>5. CASE \E R, gone, F : Return(R, gone, F)
      BY <3>5, CommitReports DEF Return
    <3> QED
      BY <2>4, <3>1, <3>2, <3>3, <3>4, <3>5
         DEF ClaimStep, ClaimFifo, ClaimContinued, ClaimExact, First, Queued,
             RecoverClaims, ReleaseClaim, Acknowledge, Reason
  <2>5. CASE FenceStep
    BY <2>5, ConstantsAssumption
       DEF FenceStep, FenceAccepted, FenceSettled, FenceRevoked, Reported
  <2>6. CASE ProcessStep
    BY <2>6 DEF ProcessStep, Tick, StartOwner, CrashOwner, Reported
  <2> QED
    BY <1>1, <2>1, <2>2, <2>3, <2>4, <2>5, <2>6 DEF Next
<1>2. [Reported]_vars => [\A paused \in BOOLEAN :
        (((pause = NoPause) # (pause' = NoPause)) /\ (pause' # NoPause) = paused)
            => StateFact(paused) \in facts']_vars
  BY DEF Reported
<1> QED
  BY <1>1, <1>2, PTL DEF Spec, PauseReported
----------------------------------------------------------------------------
(* Order.                                                                  *)

\* A row of S is one that was there, in its old place, or has an id of N.
InPlace(S, N) ==
    \A p \in S : p.item \in N \/ \E r \in rows : r.item = p.item /\ r.pos = p.pos

\* The rows after the step are in their places but for the enqueued ones.
PlacesKept ==
    \A p \in rows' :
        \/ EnqueuedFact(p.item) \in facts'
        \/ \E r \in rows : r.item = p.item /\ r.pos = p.pos

\* A transaction that commits rows in their places, and reports the others
\* as enqueued, moves no row.
LEMMA CommitInPlace ==
    ASSUME NEW STATE R, NEW STATE p, NEW STATE F, Commit(R, p, F),
           NEW STATE N, InPlace(R, N), \A i \in N : EnqueuedFact(i) \in F
    PROVE  PlacesKept
<1>1. rows' = R /\ F \subseteq facts'
  BY DEF Commit
<1> QED
  BY <1>1 DEF InPlace, PlacesKept

\* A transaction that only drops some of the live rows moves none.
LEMMA FewerInPlace ==
    ASSUME IInv, NEW STATE S, S \subseteq Live, NEW STATE p, NEW STATE F, Commit(S, p, F)
    PROVE  PlacesKept
<1>1. rows' \subseteq rows
  BY LiveRows DEF Commit
<1> QED
  BY <1>1 DEF PlacesKept

\* write keeps the position of the row it replaces.
LEMMA WrittenInPlace ==
    ASSUME NEW R, R \subseteq rows, NEW r \in R, r \in Row,
           NEW s \in Row, s.item = r.item
    PROVE  InPlace(Write(R, r, s), {})
<1>1. [s EXCEPT !.pos = r.pos].item = r.item /\ [s EXCEPT !.pos = r.pos].pos = r.pos
  BY DEF Row
<1> QED
  BY <1>1 DEF Write, InPlace

\* A claim that returns puts its row back where it was.
LEMMA ReturnInPlace ==
    ASSUME IInv, NEW STATE R, R \subseteq Claimed(Live), NEW STATE gone, NEW STATE F,
           Return(R, gone, F)
    PROVE  PlacesKept
<1> DEFINE back == R \ {r \in R : Expired(r)}
           W == ((Live \ gone) \ R) \cup {WithoutClaim(r) : r \in back}
<1>1. PICK G : Commit(W, pause, G)
  BY DEF Return
<1>2. \A r \in back : r \in rows /\ r \in Row
  BY LiveRows DEF Claimed, GoodRows
<1>3. \A r \in back : WithoutClaim(r).item = r.item /\ WithoutClaim(r).pos = r.pos
  BY <1>2, UnclaimedRow
<1>4. InPlace(W, {})
  BY <1>2, <1>3, LiveRows DEF InPlace
<1> QED
  BY <1>1, <1>4, CommitInPlace

\* An enqueue at the end moves no other row; the new one is reported.
LEMMA InsertInPlace ==
    ASSUME IInv, NEW in, NEW restore, NEW members,
           InsertEnqueue(in, restore, FALSE, members)
    PROVE  PlacesKept
<1>1. PICK i, pos, S, F :
        /\ S \subseteq Live
        /\ EnqueuedFact(i) \in F
        /\ Commit(S \cup {NewRow(i, pos, in)}, pause, F)
  <2> DEFINE settled == Live \ members
             displaced == {r \in Claimed(settled) : r.item = restore}
             kept == settled \ displaced
             replaced == First({r \in Queued(kept) :
                                  r.dedupe = in.dedupe /\ in.dedupe # None})
             pos == IF replaced = {} THEN nextPos
                    ELSE CHOOSE p \in {r.pos : r \in replaced} : TRUE
             F(i) == ExpiredFacts \cup Removals(members, "injected")
                     \cup Removals(displaced \cup replaced, "cancelled")
                     \cup {EnqueuedFact(i)}
  <2>1. \E i \in Item : Commit((kept \ replaced) \cup {NewRow(i, pos, in)}, pause, F(i))
    BY Zenon DEF InsertEnqueue
  <2>2. kept \ replaced \subseteq Live
    OBVIOUS
  <2>3. \A i : EnqueuedFact(i) \in F(i)
    OBVIOUS
  <2> HIDE DEF F, pos, replaced, kept
  <2> QED
    BY <2>1, <2>2, <2>3
<1>2. NewRow(i, pos, in).item = i
  BY DEF NewRow
<1>3. InPlace(S \cup {NewRow(i, pos, in)}, {i})
  BY <1>1, <1>2, LiveRows DEF InPlace
<1>4. rows' = S \cup {NewRow(i, pos, in)} /\ F \subseteq facts'
  BY <1>1 DEF Commit
<1> QED
  BY <1>1, <1>3, <1>4 DEF InPlace, PlacesKept

\* What users do, but for placing a message in front and for reordering,
\* moves no row.
LEMMA UserStepInPlace == IInv /\ UserStep => PlacesKept
<1> SUFFICES ASSUME IInv, UserStep PROVE PlacesKept
  OBVIOUS
<1>1. CASE EnqueueAtEnd
  <2>1. PICK in \in Input, restore \in Item \cup {None} :
          \/ ReplayEnqueue(in, restore, FALSE)
          \/ \E members \in SUBSET Claimed(rows) :
               InsertEnqueue(in, restore, FALSE, members)
    BY <1>1 DEF EnqueueAtEnd
  <2>2. CASE ReplayEnqueue(in, restore, FALSE)
    <3>1. Commit(Live, pause, ExpiredFacts)
      BY <2>2 DEF ReplayEnqueue
    <3> QED
      BY <3>1, FewerInPlace
  <2> QED
    BY <2>1, <2>2, InsertInPlace
<1>2. CASE \E i \in Item, expires \in Time : UpdateQueued(i, expires)
  <2>1. PICK r \in Queued(Live), expires \in Time :
          Commit(Write(Live, r, [r EXCEPT !.expires = expires]), pause, ExpiredFacts)
    BY <1>2 DEF UpdateQueued
  <2> DEFINE s == [r EXCEPT !.expires = expires]
  <2>2. r \in Live /\ r \in Row
    BY LiveRows DEF Queued, GoodRows
  <2>3. s \in Row /\ s.item = r.item
    BY <2>2, ConstantsAssumption DEF Row, Time, Never
  <2> HIDE DEF s
  <2>4. InPlace(Write(Live, r, s), {})
    BY <2>2, <2>3, LiveRows, WrittenInPlace
  <2> QED
    BY <2>1, <2>4, CommitInPlace DEF s
<1>3. CASE \E i \in Item, source \in Source : PromoteQueuedSource(i, source)
  <2>1. PICK r \in Queued(Live), source \in Source :
          Commit(Write(Live, r, [r EXCEPT !.source = source]), pause, ExpiredFacts)
    BY <1>3 DEF PromoteQueuedSource
  <2> DEFINE s == [r EXCEPT !.source = source]
  <2>2. r \in Live /\ r \in Row
    BY LiveRows DEF Queued, GoodRows
  <2>3. s \in Row /\ s.item = r.item
    BY <2>2 DEF Row
  <2> HIDE DEF s
  <2>4. InPlace(Write(Live, r, s), {})
    BY <2>2, <2>3, LiveRows, WrittenInPlace
  <2> QED
    BY <2>1, <2>4, CommitInPlace DEF s
<1>4. CASE \/ Refresh \/ ContinueQueue \/ ClearUserManageable \/ DeleteSession
           \/ \E cause \in Cause : PauseIfPending(cause)
           \/ \E i \in Item : Cancel(i)
           \/ \E taken \in SUBSET QueuedApi : DrainComposerInjectable(taken)
  <2>1. \E S, p, F : S \subseteq Live /\ Commit(S, p, F)
    BY <1>4 DEF Refresh, ContinueQueue, ClearUserManageable, DeleteSession,
                PauseIfPending, Cancel, DrainComposerInjectable
  <2> QED
    BY <2>1, FewerInPlace
<1> QED
  BY <1>1, <1>2, <1>3, <1>4 DEF UserStep

\* A claim is written in place.
LEMMA ClaimRowInPlace ==
    ASSUME IInv, NEW o \in Owner, NEW r \in Queued(Live), ClaimRow(o, r)
    PROVE  PlacesKept
<1> DEFINE s == [r EXCEPT !.status = "claimed", !.claim = nextClaim,
                          !.claimedAt = now, !.owner = o, !.prepared = FALSE]
<1>1. r \in Live /\ r \in Row /\ Commit(Write(Live, r, s), pause, ExpiredFacts)
  BY LiveRows DEF ClaimRow, Queued, GoodRows
<1>2. [s EXCEPT !.pos = r.pos].item = r.item /\ [s EXCEPT !.pos = r.pos].pos = r.pos
  BY <1>1 DEF Row
<1> HIDE DEF s
<1>3. InPlace(Write(Live, r, s), {})
  BY <1>1, <1>2, LiveRows DEF Write, InPlace
<1> QED
  BY <1>1, <1>3, CommitInPlace

\* Claims, their ends and their recovery move no row.
LEMMA ClaimStepInPlace == IInv /\ ClaimStep => PlacesKept
<1> SUFFICES ASSUME IInv, ClaimStep PROVE PlacesKept
  OBVIOUS
<1>1. CASE \E o \in Owner, r \in Queued(Live) : ClaimRow(o, r)
  BY <1>1, ClaimRowInPlace
<1>2. CASE \E c \in Claim : PrepareDelivery(c)
  <2>1. PICK r \in rows : Commit(Write(rows, r, [r EXCEPT !.prepared = TRUE]), pause, {})
    BY <1>2 DEF PrepareDelivery, ClaimRows, Claimed
  <2> DEFINE s == [r EXCEPT !.prepared = TRUE]
  <2>2. r \in Row /\ s \in Row /\ s.item = r.item
    BY DEF Row, IInv, TypeOK
  <2> HIDE DEF s
  <2>3. InPlace(Write(rows, r, s), {})
    BY <2>2, WrittenInPlace
  <2> QED
    BY <2>1, <2>3, CommitInPlace DEF s
<1>3. CASE \E c \in Claim : TurnAccepts(c)
  BY <1>3 DEF TurnAccepts, tables, PlacesKept
<1>4. CASE \E c \in Claim, reason \in Reason : RemoveClaimed(c, reason)
  <2>1. \E S, p, F : S \subseteq Live /\ Commit(S, p, F)
    BY <1>4 DEF RemoveClaimed
  <2> QED
    BY <2>1, FewerInPlace
<1>5. CASE \E o \in Owner, scoped \in BOOLEAN : RecoverClaims(o, scoped)
  BY <1>5, ReturnInPlace DEF RecoverClaims, Claimed
<1>6. CASE \E c \in Claim : ReleaseClaim(c)
  BY <1>6, ReturnInPlace DEF ReleaseClaim, ClaimRows
<1> QED
  BY <1>1, <1>2, <1>3, <1>4, <1>5, <1>6
     DEF ClaimStep, ClaimFifo, ClaimContinued, ClaimExact, First, Queued,
         Acknowledge, Reason

\* If rows keep their places, they keep their order: an id names one row.
LEMMA PlacesKeepOrder ==
    ASSUME IInv, PlacesKept, NEW r \in rows, NEW s \in rows,
           NEW p \in rows', NEW q \in rows',
           r.item = p.item, EnqueuedFact(p.item) \notin facts',
           s.item = q.item, EnqueuedFact(q.item) \notin facts',
           r.pos < s.pos
    PROVE  ~(q.pos < p.pos)
<1>1. p.pos = r.pos
  <2>1. PICK o \in rows : o.item = p.item /\ o.pos = p.pos
    BY DEF PlacesKept
  <2>2. o = r
    BY <2>1 DEF IInv, GoodRows
  <2> QED
    BY <2>1, <2>2
<1>2. q.pos = s.pos
  <2>1. PICK o \in rows : o.item = q.item /\ o.pos = q.pos
    BY DEF PlacesKept
  <2>2. o = s
    BY <2>1 DEF IInv, GoodRows
  <2> QED
    BY <2>1, <2>2
<1>3. r.pos \in Int /\ s.pos \in Int
  BY ConstantsAssumption DEF IInv, TypeOK, Row
<1> QED
  BY <1>1, <1>2, <1>3

Reversed ==
    \E r, s \in rows, p, q \in rows' :
        /\ r.item = p.item /\ EnqueuedFact(p.item) \notin facts'
        /\ s.item = q.item /\ EnqueuedFact(q.item) \notin facts'
        /\ r.pos < s.pos /\ q.pos < p.pos

\* replaceRows and moveQueuedToFront alone change the order of two messages:
\* no claim, release, recovery, edit or replacement does, however long a
\* message was away.
THEOREM QueueOrderKept == Spec => OrderKept
<1>1. ASSUME IInv, [Next]_vars PROVE [Reversed => PlaceInFront \/ Reorder]_vars
  <2>1. CASE UNCHANGED vars
    BY <2>1
  <2>2. CASE UserStep \/ ClaimStep \/ FenceStep \/ ProcessStep
    <3>1. CASE UserStep \/ ClaimStep
      BY <1>1, <3>1, UserStepInPlace, ClaimStepInPlace, PlacesKeepOrder DEF Reversed
    <3>2. CASE FenceStep \/ ProcessStep
      <4>1. rows' = rows
        BY <3>2 DEF FenceStep, FenceAccepted, FenceSettled, FenceRevoked, ProcessStep,
                    Tick, StartOwner, CrashOwner, tables
      <4>2. PlacesKept
        BY <4>1 DEF PlacesKept
      <4> QED
        BY <1>1, <4>2, PlacesKeepOrder DEF Reversed
    <3> QED
      BY <2>2, <3>1, <3>2
  <2> QED
    BY <1>1, <2>1, <2>2 DEF Next
<1>2. [Reversed => PlaceInFront \/ Reorder]_vars
        => [(\E r, s \in rows, p, q \in rows' :
               /\ r.item = p.item /\ EnqueuedFact(p.item) \notin facts'
               /\ s.item = q.item /\ EnqueuedFact(q.item) \notin facts'
               /\ r.pos < s.pos /\ q.pos < p.pos)
            => PlaceInFront \/ Reorder]_vars
  BY DEF Reversed
<1> QED
  BY <1>1, <1>2, QueueInvariant, PTL DEF Spec, OrderKept
----------------------------------------------------------------------------
(* Facts.                                                                  *)

\* What ChangesReported says of one row.
Told(r) ==
    LET same == {s \in rows' : s.item = r.item /\ EnqueuedFact(r.item) \notin facts'}
        gone == {f \in facts' : f.kind = "removed" /\ f.item = r.item}
    IN  /\ same = {} <=> gone # {}
        /\ Cardinality(gone) <= 1
        /\ (r.status = "claimed" /\ same # {} /\ same \subseteq Queued(rows'))
               <=> RequeuedFact(r.item) \in facts'

\* A row that stays is reported if its claim was taken from it, and as
\* nothing else.
LEMMA StaysTold ==
    ASSUME NEW r, NEW s \in rows', s.item = r.item, EnqueuedFact(r.item) \notin facts',
           \A q \in rows' : q.item = r.item => q = s,
           \A f \in facts' : f.kind = "removed" => f.item # r.item,
           (r.status = "claimed" /\ s.status = "queued") <=> RequeuedFact(r.item) \in facts'
    PROVE  Told(r)
<1> DEFINE same == {q \in rows' : q.item = r.item /\ EnqueuedFact(r.item) \notin facts'}
           gone == {f \in facts' : f.kind = "removed" /\ f.item = r.item}
<1>1. same = {s} /\ gone = {}
  OBVIOUS
<1>2. Cardinality(gone) <= 1
  BY <1>1, FS_EmptySet
<1>3. same \subseteq Queued(rows') <=> s.status = "queued"
  BY <1>1 DEF Queued
<1> QED
  BY <1>1, <1>2, <1>3 DEF Told

\* A row that leaves is reported once, with one reason.
LEMMA LeavesTold ==
    ASSUME NEW r, NEW reason,
           EnqueuedFact(r.item) \in facts' \/ \A q \in rows' : q.item # r.item,
           RemovedFact(r.item, reason) \in facts',
           \A f \in facts' : f.kind = "removed" /\ f.item = r.item
                                => f = RemovedFact(r.item, reason),
           RequeuedFact(r.item) \notin facts'
    PROVE  Told(r)
<1> DEFINE same == {q \in rows' : q.item = r.item /\ EnqueuedFact(r.item) \notin facts'}
           gone == {f \in facts' : f.kind = "removed" /\ f.item = r.item}
<1>1. same = {}
  OBVIOUS
<1>2. gone = {RemovedFact(r.item, reason)}
  BY DEF RemovedFact
<1> HIDE DEF gone
<1>3. Cardinality(gone) = 1 /\ gone # {}
  BY <1>2, FS_Singleton
<1> QED
  BY <1>1, <1>3 DEF Told, gone

\* What a transaction hands to Commit: the rows of E expired, those of A and
\* B went for other reasons, those of back return, and N was enqueued.
Report(E, A, a, B, b, back, N) ==
    Removals(E, "expired") \cup Removals(A, a) \cup Removals(B, b)
        \cup {RequeuedFact(r.item) : r \in back} \cup {EnqueuedFact(i) : i \in N}

\* The report names the rows as they went: those of R stay, or are new.
Accounts(R, F, E, A, a, B, b, back, N, X) ==
    /\ E \subseteq rows /\ A \subseteq rows /\ B \subseteq rows /\ back \subseteq rows
    /\ E \cap A = {} /\ E \cap B = {} /\ A \cap B = {}
    /\ back \cap (E \cup A \cup B) = {}
    /\ F = Report(E, A, a, B, b, back, N) \cup X
    /\ X \subseteq {StateFact(TRUE)}
    /\ \A r \in E \cup A \cup B : r.item \in N \/ \A q \in R : q.item # r.item
    /\ \A r \in rows \ (E \cup A \cup B) :
        /\ r.item \notin N
        /\ \E s \in R : /\ s.item = r.item
                        /\ (r.status = "claimed" /\ s.status = "queued") <=> r \in back

\* A transaction whose report names its rows as they went tells everything.
LEMMA CommitTells ==
    ASSUME IInv, IInv', NEW STATE R, NEW STATE p, NEW STATE F, Commit(R, p, F),
           NEW STATE E, NEW STATE A, NEW STATE a, NEW STATE B, NEW STATE b,
           NEW STATE back, NEW STATE N, NEW STATE X,
           Accounts(R, F, E, A, a, B, b, back, N, X)
    PROVE  \A r \in rows : Told(r)
<1> SUFFICES ASSUME NEW r \in rows PROVE Told(r)
  OBVIOUS
<1> USE DEF Accounts
<1>1. rows' = R
  BY DEF Commit
<1>2. \A q \in rows : q.item = r.item => q = r
  BY DEF IInv, GoodRows
<1>3. \A q, s \in rows' : q.item = s.item => q = s
  BY DEF IInv, GoodRows
<1>4. \A f \in facts' : \/ f \in Report(E, A, a, B, b, back, N)
                        \/ f \in {StateFact(TRUE), StateFact(FALSE)}
  BY DEF Commit
<1>5. Report(E, A, a, B, b, back, N) \subseteq facts'
  BY DEF Commit
<1>6. EnqueuedFact(r.item) \in facts' <=> r.item \in N
  <2>1. EnqueuedFact(r.item) \in facts' => r.item \in N
    BY <1>4 DEF Report, Removals, RemovedFact, RequeuedFact, EnqueuedFact, StateFact
  <2>2. r.item \in N => EnqueuedFact(r.item) \in facts'
    BY <1>5 DEF Report
  <2> QED
    BY <2>1, <2>2
<1>7. RequeuedFact(r.item) \in facts' <=> r \in back
  <2>1. RequeuedFact(r.item) \in facts' => \E q \in back : RequeuedFact(q.item) = RequeuedFact(r.item)
    BY <1>4 DEF Report, Removals, RemovedFact, RequeuedFact, EnqueuedFact, StateFact
  <2>2. r \in back => RequeuedFact(r.item) \in facts'
    BY <1>5 DEF Report
  <2> QED
    BY <1>2, <2>1, <2>2 DEF RequeuedFact
<1>8. ASSUME NEW f \in facts', f.kind = "removed", f.item = r.item
      PROVE  \/ r \in E /\ f = RemovedFact(r.item, "expired")
             \/ r \in A /\ f = RemovedFact(r.item, a)
             \/ r \in B /\ f = RemovedFact(r.item, b)
  <2>1. f \in Removals(E, "expired") \cup Removals(A, a) \cup Removals(B, b)
    BY <1>4, <1>8 DEF Report, RequeuedFact, EnqueuedFact, StateFact
  <2>2. ASSUME NEW S, S \subseteq rows, NEW reason, f \in Removals(S, reason)
        PROVE  r \in S /\ f = RemovedFact(r.item, reason)
    <3>1. PICK q \in S : f = RemovedFact(q.item, reason)
      BY <2>2 DEF Removals
    <3>2. q.item = r.item
      BY <3>1, <1>8 DEF RemovedFact
    <3> QED
      BY <1>2, <2>2, <3>1, <3>2
  <2> QED
    BY <2>1, <2>2
<1>9. ASSUME NEW S, NEW reason, r \in S, Removals(S, reason) \subseteq facts',
             \A f \in facts' : f.kind = "removed" /\ f.item = r.item
                                   => f = RemovedFact(r.item, reason),
             r \in E \cup A \cup B
      PROVE  Told(r)
  <2>1. RemovedFact(r.item, reason) \in facts'
    BY <1>9 DEF Removals
  <2>2. EnqueuedFact(r.item) \in facts' \/ \A q \in rows' : q.item # r.item
    BY <1>1, <1>6, <1>9
  <2>3. RequeuedFact(r.item) \notin facts'
    BY <1>7, <1>9
  <2> QED
    BY <1>9, <2>1, <2>2, <2>3, LeavesTold
<1>10. CASE r \in E
  <2>1. Removals(E, "expired") \subseteq facts'
    BY <1>5 DEF Report
  <2> QED
    BY <1>8, <1>9, <1>10, <2>1
<1>11. CASE r \in A
  <2>1. Removals(A, a) \subseteq facts'
    BY <1>5 DEF Report
  <2> QED
    BY <1>8, <1>9, <1>11, <2>1
<1>12. CASE r \in B
  <2>1. Removals(B, b) \subseteq facts'
    BY <1>5 DEF Report
  <2> QED
    BY <1>8, <1>9, <1>12, <2>1
<1>13. CASE r \notin E \cup A \cup B
  <2>1. PICK s \in R : /\ s.item = r.item
                       /\ (r.status = "claimed" /\ s.status = "queued") <=> r \in back
    BY <1>13
  <2>2. EnqueuedFact(r.item) \notin facts'
    BY <1>6, <1>13
  <2>3. \A q \in rows' : q.item = r.item => q = s
    BY <1>1, <1>3, <2>1
  <2>4. \A f \in facts' : f.kind = "removed" => f.item # r.item
    BY <1>8, <1>13
  <2> QED
    BY <1>1, <1>7, <2>1, <2>2, <2>3, <2>4, StaysTold
<1> QED
  BY <1>10, <1>11, <1>12, <1>13
\* Cancellation, removal and the expiry every transaction begins with.
LEMMA DropTells ==
    ASSUME IInv, IInv', NEW STATE gone, gone \subseteq Live, NEW STATE reason,
           NEW STATE X, X \subseteq {StateFact(TRUE)}, NEW STATE R, R = Live \ gone,
           NEW STATE F, F = ExpiredFacts \cup Removals(gone, reason) \cup X,
           NEW STATE p, Commit(R, p, F)
    PROVE  \A r \in rows : Told(r)
<1> DEFINE E == ExpiredQueued
<1>1. F = Report(E, gone, reason, {}, reason, {}, {}) \cup X
  BY DEF Report, ExpiredFacts, Removals
<1>2. E \subseteq rows /\ gone \subseteq rows /\ E \cap gone = {} /\ R = rows \ (E \cup gone)
  BY DEF ExpiredQueued, Queued, Live
<1>3. \A r \in E \cup gone : \A q \in R : q.item # r.item
  BY <1>2 DEF IInv, GoodRows
<1>4. \A r \in rows \ (E \cup gone) :
        \E s \in R : s.item = r.item /\ ~(r.status = "claimed" /\ s.status = "queued")
  BY <1>2
<1> HIDE DEF E
<1>5. Accounts(R, F, E, gone, reason, {}, reason, {}, {}, X)
  BY <1>1, <1>2, <1>3, <1>4 DEF Accounts
<1> QED
  BY <1>5, CommitTells

\* A row rewritten in place is still there, and it does not return to the
\* queue by that.
LEMMA WriteTells ==
    ASSUME IInv, IInv', NEW STATE R, R \subseteq rows, NEW STATE r, r \in R,
           NEW STATE s, s \in Row, s.item = r.item,
           ~(r.status = "claimed" /\ s.status = "queued"),
           NEW STATE p, Commit(Write(R, r, s), p, Removals(rows \ R, "expired"))
    PROVE  \A q \in rows : Told(q)
<1> DEFINE t == [s EXCEPT !.pos = r.pos]
           W == Write(R, r, s)
           E == rows \ R
           F == Removals(E, "expired")
<1>1. t.item = r.item /\ t.status = s.status
  BY DEF Row
<1>2. W = (R \ {r}) \cup {t}
  BY DEF Write
<1>3. F = Report(E, {}, "expired", {}, "expired", {}, {}) \cup {}
  BY DEF Report, Removals
<1>4. \A e \in E : \A q \in W : q.item # e.item
  BY <1>1, <1>2 DEF IInv, GoodRows
<1>5. ASSUME NEW q \in rows \ E
      PROVE  \E u \in W : u.item = q.item /\ ~(q.status = "claimed" /\ u.status = "queued")
  <2>1. CASE q = r
    BY <1>1, <1>2, <2>1
  <2>2. CASE q # r
    <3>1. q \in W
      BY <1>2, <1>5, <2>2
    <3> QED
      BY <3>1
  <2> QED
    BY <2>1, <2>2
<1>6. Commit(W, p, F) /\ E \subseteq rows
  OBVIOUS
<1> HIDE DEF t, W, E, F
<1>7. Accounts(W, F, E, {}, "expired", {}, "expired", {}, {}, {})
  BY <1>3, <1>4, <1>5, <1>6 DEF Accounts
<1> QED
  BY <1>6, <1>7, CommitTells

\* The rows that expired are the ones a transaction starts without.
LEMMA ExpiredFactsOf == ExpiredFacts = Removals(rows \ Live, "expired")
<1>1. rows \ Live = ExpiredQueued
  BY DEF Live, ExpiredQueued, Queued
<1> QED
  BY <1>1 DEF ExpiredFacts

\* Placing rows anew keeps their ids and their states.
LEMMA PlacedSame ==
    ASSUME NEW R, NEW pos, \A r \in R : r \in Row \/ \E i, at, in : r = NewRow(i, at, in)
    PROVE  /\ \A r \in R : \E s \in Placed(R, pos) : s.item = r.item /\ s.status = r.status
           /\ \A s \in Placed(R, pos) : \E r \in R : s.item = r.item /\ s.status = r.status
<1>1. \A r \in R : LET s == [r EXCEPT !.pos = pos[r.item]]
                   IN  s.item = r.item /\ s.status = r.status
  BY DEF Row, NewRow
<1>2. R = Claimed(R) \cup Queued(R)
  BY DEF Claimed, Queued, Row, NewRow
<1> QED
  BY <1>1, <1>2 DEF Placed

\* Reordering and a replayed placement in front report no row.
LEMMA PlaceTells ==
    ASSUME IInv, IInv', NEW STATE pos, NEW STATE p, Commit(Placed(Live, pos), p, ExpiredFacts)
    PROVE  \A r \in rows : Told(r)
<1> DEFINE R == Placed(Live, pos)
           E == rows \ Live
<1>1. /\ \A r \in Live : \E s \in R : s.item = r.item /\ s.status = r.status
      /\ \A s \in R : \E r \in Live : s.item = r.item /\ s.status = r.status
  BY LiveRows, PlacedSame DEF GoodRows
<1>2. ExpiredFacts = Report(E, {}, "expired", {}, "expired", {}, {}) \cup {}
  BY ExpiredFactsOf DEF Report, Removals
<1>3. Commit(R, p, ExpiredFacts)
  OBVIOUS
<1> HIDE DEF R
<1>4. E \subseteq rows /\ \A r \in E : \A q \in R : q.item # r.item
  BY <1>1, LiveRows DEF IInv, GoodRows
<1>5. \A r \in rows \ E :
        \E s \in R : s.item = r.item /\ ~(r.status = "claimed" /\ s.status = "queued")
  BY <1>1
<1> HIDE DEF E
<1>6. Accounts(R, ExpiredFacts, E, {}, "expired", {}, "expired", {}, {}, {})
  BY <1>2, <1>4, <1>5 DEF Accounts
<1> QED
  BY <1>3, <1>6, CommitTells

\* A release or a recovery reports the rows that return as requeued and those
\* that expired meanwhile, or were accepted, as removed.
LEMMA ReturnTells ==
    ASSUME IInv, IInv', NEW STATE R, R \subseteq Claimed(Live), NEW STATE gone,
           gone \subseteq Live, R \cap gone = {},
           Return(R, gone, Removals(gone, "accepted"))
    PROVE  \A r \in rows : Told(r)
<1> DEFINE dropped == {r \in R : Expired(r)}
           back == R \ dropped
           returned == {WithoutClaim(r) : r \in back}
           W == ((Live \ gone) \ R) \cup returned
           E == ExpiredQueued \cup dropped
           F == Removals(gone, "accepted") \cup ExpiredFacts \cup Removals(dropped, "expired")
                \cup {RequeuedFact(r.item) : r \in back}
<1>1. Commit(W, pause, F)
  BY DEF Return
<1>2. F = Report(E, gone, "accepted", {}, "accepted", back, {}) \cup {}
  BY DEF Report, ExpiredFacts, Removals
<1>3. /\ E \subseteq rows /\ gone \subseteq rows /\ back \subseteq rows
      /\ E \cap gone = {} /\ back \cap (E \cup gone) = {} /\ back \subseteq Claimed(rows)
      /\ \A r \in rows : r \in (Live \ gone) \ R \/ r \in back \/ r \in E \cup gone
  BY DEF Live, ExpiredQueued, Queued, Claimed
<1>4. \A r \in back : LET s == WithoutClaim(r) IN s.item = r.item /\ s.status = "queued"
  BY <1>3, UnclaimedRow DEF IInv, GoodRows
<1>5. \A s \in W : \E r \in rows \ (E \cup gone) : s.item = r.item
  BY <1>3, <1>4 DEF Live
<1>6. \A r \in E \cup gone : \A q \in W : q.item # r.item
  BY <1>3, <1>5 DEF IInv, GoodRows
<1>7. ASSUME NEW r \in rows \ (E \cup gone)
      PROVE  \E s \in W : /\ s.item = r.item
                          /\ (r.status = "claimed" /\ s.status = "queued") <=> r \in back
  <2>1. CASE r \in back
    <3>1. WithoutClaim(r) \in W /\ r.status = "claimed"
      BY <1>3, <2>1 DEF Claimed
    <3> QED
      BY <1>4, <2>1, <3>1
  <2>2. CASE r \notin back
    <3>1. r \in W
      BY <1>3, <1>7, <2>2
    <3> QED
      BY <2>2, <3>1
  <2> QED
    BY <2>1, <2>2
<1> HIDE DEF W, E, F, back
<1>8. Accounts(W, F, E, gone, "accepted", {}, "accepted", back, {}, {})
  BY <1>2, <1>3, <1>6, <1>7 DEF Accounts
<1> QED
  BY <1>1, <1>8, CommitTells

\* An enqueue reports what it carries away, what it displaces and replaces,
\* and the row it adds.
LEMMA InsertTells ==
    ASSUME IInv, IInv', NEW in \in Input, NEW restore \in Item \cup {None},
           NEW front \in BOOLEAN, NEW members \in SUBSET Claimed(rows),
           InsertEnqueue(in, restore, front, members)
    PROVE  \A r \in rows : Told(r)
<1> DEFINE settled == Live \ members
           displaced == {r \in Claimed(settled) : r.item = restore}
           kept == settled \ displaced
           replaced == First({r \in Queued(kept) : r.dedupe = in.dedupe /\ in.dedupe # None})
           pos == IF replaced = {} THEN nextPos
                  ELSE CHOOSE p \in {r.pos : r \in replaced} : TRUE
           report(i) == ExpiredFacts \cup Removals(members, "injected")
                        \cup Removals(displaced \cup replaced, "cancelled")
                        \cup {EnqueuedFact(i)}
           written(i) == (kept \ replaced) \cup {NewRow(i, pos, in)}
           E == ExpiredQueued
           B == displaced \cup replaced
<1>1. PICK i \in Item :
        /\ IdentityOf(i, restore, settled)
        /\ \/ Commit(written(i), pause, report(i))
           \/ \E place : Commit(Placed(written(i), place), pause, report(i))
  BY Zenon DEF InsertEnqueue
<1>2. members \subseteq Live
  BY DEF InsertEnqueue, Claimed
<1>3. replaced \subseteq kept
  BY DEF First, Queued
<1> HIDE DEF replaced, pos
<1>4. /\ E \subseteq rows /\ members \subseteq rows /\ B \subseteq rows
      /\ E \cap members = {} /\ E \cap B = {} /\ members \cap B = {}
      /\ kept \ replaced = rows \ (E \cup members \cup B)
  BY <1>2, <1>3 DEF Live, ExpiredQueued, Queued, Claimed
<1>5. report(i) = Report(E, members, "injected", B, "cancelled", {}, {i}) \cup {}
  BY DEF Report, ExpiredFacts, Removals
<1>6. \A r \in kept \ replaced : r.item # i
  <2>1. CASE restore # None /\ \A r \in Queued(settled) : r.item # restore
    BY <1>1, <2>1 DEF IdentityOf, Queued, Claimed, GoodRows, Row, IInv, Live
  <2>2. CASE ~(restore # None /\ \A r \in Queued(settled) : r.item # restore)
    BY <1>1, <2>2, LiveRows DEF IdentityOf, GoodRows
  <2> QED
    BY <2>1, <2>2
<1>7. NewRow(i, pos, in).item = i /\ NewRow(i, pos, in).status = "queued"
  BY DEF NewRow
<1> HIDE DEF kept, displaced, E, B, report
<1>8. /\ \A s \in written(i) : s.item = i \/ s \in kept \ replaced
      /\ kept \ replaced \subseteq written(i)
  BY <1>7
<1> HIDE DEF written
<1>9. ASSUME NEW STATE R, Commit(R, pause, report(i)),
             \A s \in R : \E t \in written(i) : s.item = t.item,
             \A t \in written(i) : \E s \in R : s.item = t.item /\ s.status = t.status
      PROVE  \A r \in rows : Told(r)
  <2>1. \A r \in E \cup members \cup B : r.item \in {i} \/ \A q \in R : q.item # r.item
    <3>1. \A r \in E \cup members \cup B : \A q \in kept \ replaced : q.item # r.item
      BY <1>4 DEF IInv, GoodRows
    <3> QED
      BY <1>8, <1>9, <3>1
  <2>2. \A r \in rows \ (E \cup members \cup B) :
          /\ r.item \notin {i}
          /\ \E s \in R : /\ s.item = r.item
                          /\ (r.status = "claimed" /\ s.status = "queued") <=> r \in {}
    <3>1. ASSUME NEW r \in rows \ (E \cup members \cup B)
          PROVE  /\ r.item \notin {i}
                 /\ \E s \in R : s.item = r.item /\ s.status = r.status
      BY <1>4, <1>6, <1>8, <1>9
    <3> QED
      BY <3>1
  <2>3. Accounts(R, report(i), E, members, "injected", B, "cancelled", {}, {i}, {})
    BY <1>4, <1>5, <2>1, <2>2 DEF Accounts
  <2> QED
    BY <1>9, <2>3, CommitTells
<1>10. CASE Commit(written(i), pause, report(i))
  BY <1>9, <1>10
<1>11. CASE \E place : Commit(Placed(written(i), place), pause, report(i))
  <2>1. PICK place : Commit(Placed(written(i), place), pause, report(i))
    BY <1>11
  <2>2. \A r \in written(i) : r \in Row \/ \E j, at, n : r = NewRow(j, at, n)
    BY <1>4 DEF IInv, GoodRows, written
  <2> QED
    BY <1>9, <2>1, <2>2, PlacedSame
<1> QED
  BY <1>1, <1>10, <1>11
\* A step that leaves the rows alone and reports none of them.
LEMMA QuietTells ==
    ASSUME IInv, rows' = rows, \A f \in facts' : f.kind = "execution-state-changed"
    PROVE  \A r \in rows : Told(r)
<1> SUFFICES ASSUME NEW r \in rows PROVE Told(r)
  OBVIOUS
<1>1. EnqueuedFact(r.item) \notin facts' /\ RequeuedFact(r.item) \notin facts'
  BY DEF EnqueuedFact, RequeuedFact
<1>2. \A q \in rows' : q.item = r.item => q = r
  BY DEF IInv, GoodRows
<1>3. \A f \in facts' : f.kind # "removed"
  OBVIOUS
<1> QED
  BY <1>1, <1>2, <1>3, StaysTold

\* What users do is told.
LEMMA UserStepTells == IInv /\ IInv' /\ UserStep => \A r \in rows : Told(r)
<1> SUFFICES ASSUME IInv, IInv', UserStep PROVE \A r \in rows : Told(r)
  OBVIOUS
<1>1. ASSUME NEW STATE p, NEW STATE F, Commit(Live, p, F),
             F = ExpiredFacts \/ F = ExpiredFacts \cup {StateFact(TRUE)}
      PROVE  \A r \in rows : Told(r)
  <2>1. Live = Live \ {} /\ {} \subseteq Live
    OBVIOUS
  <2>2. PICK X : /\ X \subseteq {StateFact(TRUE)}
                 /\ F = ExpiredFacts \cup Removals({}, "expired") \cup X
    <3>1. Removals({}, "expired") = {}
      BY DEF Removals
    <3>2. {} \subseteq {StateFact(TRUE)} /\ {StateFact(TRUE)} \subseteq {StateFact(TRUE)}
      OBVIOUS
    <3>3. CASE F = ExpiredFacts
      <4>1. F = ExpiredFacts \cup Removals({}, "expired") \cup {}
        BY <3>1, <3>3
      <4> QED
        BY <3>2, <4>1
    <3>4. CASE F = ExpiredFacts \cup {StateFact(TRUE)}
      <4>1. F = ExpiredFacts \cup Removals({}, "expired") \cup {StateFact(TRUE)}
        BY <3>1, <3>4
      <4> QED
        BY <3>2, <4>1
    <3> QED
      BY <1>1, <3>3, <3>4
  <2> QED
    BY <1>1, <2>1, <2>2, DropTells
<1>2. ASSUME NEW STATE gone, gone \subseteq Live, NEW STATE reason,
             Commit(Live \ gone, pause, ExpiredFacts \cup Removals(gone, reason))
      PROVE  \A r \in rows : Told(r)
  <2> DEFINE F == ExpiredFacts \cup Removals(gone, reason)
  <2>1. F = F \cup {}
    OBVIOUS
  <2> QED
    BY <1>2, <2>1, DropTells
<1>3. CASE \/ Refresh \/ ContinueQueue \/ \E cause \in Cause : PauseIfPending(cause)
  <2>1. \E p : \/ Commit(Live, p, ExpiredFacts)
               \/ Commit(Live, p, ExpiredFacts \cup {StateFact(TRUE)})
    BY <1>3 DEF Refresh, ContinueQueue, PauseIfPending
  <2> QED
    BY <1>1, <2>1
<1>4. CASE EnqueueAtEnd
  <2>1. PICK in \in Input, restore \in Item \cup {None} :
          \/ ReplayEnqueue(in, restore, FALSE)
          \/ \E members \in SUBSET Claimed(rows) :
               InsertEnqueue(in, restore, FALSE, members)
    BY <1>4 DEF EnqueueAtEnd
  <2>2. CASE ReplayEnqueue(in, restore, FALSE)
    <3>1. Commit(Live, pause, ExpiredFacts)
      BY <2>2 DEF ReplayEnqueue
    <3> QED
      BY <1>1, <3>1
  <2> QED
    BY <2>1, <2>2, InsertTells
<1>5. CASE \E i \in Item, expires \in Time : UpdateQueued(i, expires)
  <2>1. PICK r \in Queued(Live), expires \in Time :
          Commit(Write(Live, r, [r EXCEPT !.expires = expires]), pause, ExpiredFacts)
    BY <1>5 DEF UpdateQueued
  <2> DEFINE s == [r EXCEPT !.expires = expires]
  <2>2. r \in Live /\ r \in Row /\ r.status = "queued"
    BY LiveRows DEF Queued, GoodRows
  <2>3. s \in Row /\ s.item = r.item
    BY <2>2, ConstantsAssumption DEF Row, Time, Never
  <2> HIDE DEF s
  <2>4. Commit(Write(Live, r, s), pause, Removals(rows \ Live, "expired"))
    BY <2>1, ExpiredFactsOf DEF s
  <2> QED
    BY <2>2, <2>3, <2>4, LiveRows, WriteTells
<1>6. CASE \E i \in Item : Cancel(i)
  <2>1. PICK r \in Queued(Live) :
          Commit(Live \ {r}, pause, ExpiredFacts \cup {RemovedFact(r.item, "cancelled")})
    BY <1>6 DEF Cancel
  <2>2. {RemovedFact(r.item, "cancelled")} = Removals({r}, "cancelled") /\ {r} \subseteq Live
    BY DEF Removals, Queued
  <2> QED
    BY <1>2, <2>1, <2>2
<1>7. CASE \E i \in Item, source \in Source : PromoteQueuedSource(i, source)
  <2>1. PICK r \in Queued(Live), source \in Source :
          Commit(Write(Live, r, [r EXCEPT !.source = source]), pause, ExpiredFacts)
    BY <1>7 DEF PromoteQueuedSource
  <2> DEFINE s == [r EXCEPT !.source = source]
  <2>2. r \in Live /\ r \in Row /\ r.status = "queued"
    BY LiveRows DEF Queued, GoodRows
  <2>3. s \in Row /\ s.item = r.item
    BY <2>2 DEF Row
  <2> HIDE DEF s
  <2>4. Commit(Write(Live, r, s), pause, Removals(rows \ Live, "expired"))
    BY <2>1, ExpiredFactsOf DEF s
  <2> QED
    BY <2>2, <2>3, <2>4, LiveRows, WriteTells
<1>8. CASE ClearUserManageable
  BY <1>2, <1>8 DEF ClearUserManageable, QueuedApi, Queued
<1>9. CASE \E taken \in SUBSET QueuedApi : DrainComposerInjectable(taken)
  BY <1>2, <1>9 DEF DrainComposerInjectable, QueuedApi, Queued
<1>10. CASE DeleteSession
  <2>1. Commit(Live \ Live, pause, ExpiredFacts \cup Removals(Live, "cancelled"))
    BY <1>10 DEF DeleteSession
  <2> QED
    BY <1>2, <2>1
<1> QED
  BY <1>3, <1>4, <1>5, <1>6, <1>7, <1>8, <1>9, <1>10 DEF UserStep

\* Placing in front and reordering is told.
LEMMA PlacementStepTells ==
    IInv /\ IInv' /\ (PlaceInFront \/ Reorder) => \A r \in rows : Told(r)
<1> SUFFICES ASSUME IInv, IInv', PlaceInFront \/ Reorder PROVE \A r \in rows : Told(r)
  OBVIOUS
<1>1. CASE \E in \in Input, restore \in Item \cup {None} : ReplayEnqueue(in, restore, TRUE)
  <2>1. \E pos : Commit(Placed(Live, pos), pause, ExpiredFacts)
    BY <1>1 DEF ReplayEnqueue
  <2> QED
    BY <2>1, PlaceTells
<1>2. CASE \E in \in Input, restore \in Item \cup {None}, members \in SUBSET Claimed(rows) :
             InsertEnqueue(in, restore, TRUE, members)
  BY <1>2, InsertTells
<1>3. CASE Reorder
  <2>1. \E pos : Commit(Placed(Live, pos), pause, ExpiredFacts)
    BY <1>3 DEF Reorder
  <2> QED
    BY <2>1, PlaceTells
<1> QED
  BY <1>1, <1>2, <1>3 DEF PlaceInFront

\* Claims, their ends and their recovery are told.
LEMMA ClaimStepTells == IInv /\ IInv' /\ ClaimStep => \A r \in rows : Told(r)
<1> SUFFICES ASSUME IInv, IInv', ClaimStep PROVE \A r \in rows : Told(r)
  OBVIOUS
<1>1. CASE \E o \in Owner, r \in Queued(Live) : ClaimRow(o, r)
  <2>1. PICK o \in Owner, r \in Queued(Live) : ClaimRow(o, r)
    BY <1>1
  <2> DEFINE a == [r EXCEPT !.status = "claimed", !.claim = nextClaim]
             s == [r EXCEPT !.status = "claimed", !.claim = nextClaim,
                            !.claimedAt = now, !.owner = o, !.prepared = FALSE]
  <2>2. r \in Live /\ r \in Row /\ r.status = "queued" /\ nextClaim \in Claim /\ now \in Time
    BY <2>1, LiveRows, ConstantsAssumption
       DEF ClaimRow, Queued, GoodRows, IInv, TypeOK, Claim
  <2>3. a \in Row /\ a.item = r.item
    BY <2>2 DEF Row
  <2>4. s = [a EXCEPT !.claimedAt = now, !.owner = o, !.prepared = FALSE]
    OBVIOUS
  <2> HIDE DEF a
  <2>5. s \in Row /\ s.item = r.item
    BY <2>2, <2>3, <2>4 DEF Row
  <2>6. Commit(Write(Live, r, s), pause, Removals(rows \ Live, "expired"))
    BY <2>1, ExpiredFactsOf DEF ClaimRow
  <2> HIDE DEF s
  <2> QED
    BY <2>2, <2>5, <2>6, LiveRows, WriteTells
<1>2. CASE \E c \in Claim : PrepareDelivery(c)
  <2>1. PICK r \in rows : Commit(Write(rows, r, [r EXCEPT !.prepared = TRUE]), pause, {})
    BY <1>2 DEF PrepareDelivery, ClaimRows, Claimed
  <2> DEFINE s == [r EXCEPT !.prepared = TRUE]
  <2>2. r \in Row /\ s \in Row /\ s.item = r.item /\ s.status = r.status
    BY DEF Row, IInv, TypeOK
  <2>3. Commit(Write(rows, r, s), pause, Removals(rows \ rows, "expired"))
    BY <2>1 DEF Removals
  <2> HIDE DEF s
  <2> QED
    BY <2>2, <2>3, WriteTells
<1>3. CASE \E c \in Claim : TurnAccepts(c)
  BY <1>3, QuietTells DEF TurnAccepts, tables
<1>4. CASE \E c \in Claim, reason \in Reason : RemoveClaimed(c, reason)
  <2>1. PICK c \in Claim, reason \in Reason :
          Commit(Live \ ClaimRows(Live, c), pause,
                 ExpiredFacts \cup Removals(ClaimRows(Live, c), reason) \cup {})
    BY <1>4 DEF RemoveClaimed
  <2>2. ClaimRows(Live, c) \subseteq Live
    BY DEF ClaimRows, Claimed
  <2> QED
    BY <2>1, <2>2, DropTells
<1>5. CASE \E o \in Owner, scoped \in BOOLEAN : RecoverClaims(o, scoped)
  <2>1. PICK R, gone : /\ R \subseteq Claimed(Live) /\ gone \subseteq Live /\ R \cap gone = {}
                       /\ Return(R, gone, Removals(gone, "accepted"))
    BY <1>5, Zenon DEF RecoverClaims, Claimed
  <2> QED
    BY <2>1, ReturnTells
<1>6. CASE \E c \in Claim : ReleaseClaim(c)
  <2>1. PICK c \in Claim : Return(ClaimRows(Live, c), {}, {})
    BY <1>6 DEF ReleaseClaim
  <2>2. Removals({}, "accepted") = {} /\ ClaimRows(Live, c) \subseteq Claimed(Live)
    BY DEF Removals, ClaimRows
  <2> QED
    BY <2>1, <2>2, ReturnTells
<1> QED
  BY <1>1, <1>2, <1>3, <1>4, <1>5, <1>6
     DEF ClaimStep, ClaimFifo, ClaimContinued, ClaimExact, First, Queued,
         Acknowledge, Reason

\* The completion registry may rely on the facts: a message that leaves is
\* reported once with one reason, one that returns is reported as requeued,
\* and nothing else is reported of a message that stays.
THEOREM QueueChangesReported == Spec => ChangesReported
<1>1. ASSUME IInv, IInv', [Next]_vars PROVE [\A r \in rows : Told(r)]_vars
  <2>1. CASE UNCHANGED vars
    BY <2>1
  <2>2. CASE UserStep \/ PlaceInFront \/ Reorder \/ ClaimStep
    BY <1>1, <2>2, UserStepTells, PlacementStepTells, ClaimStepTells
  <2>3. CASE FenceStep \/ ProcessStep
    <3>1. rows' = rows /\ \A f \in facts' : f.kind = "execution-state-changed"
      BY <2>3 DEF FenceStep, FenceAccepted, FenceSettled, FenceRevoked, ProcessStep,
                  Tick, StartOwner, CrashOwner, tables, StateFact
    <3> QED
      BY <1>1, <3>1, QuietTells
  <2> QED
    BY <1>1, <2>1, <2>2, <2>3 DEF Next
<1>2. [\A r \in rows : Told(r)]_vars
        => [\A r \in rows :
              LET same == {s \in rows' : s.item = r.item /\ EnqueuedFact(r.item) \notin facts'}
                  gone == {f \in facts' : f.kind = "removed" /\ f.item = r.item}
              IN  /\ same = {} <=> gone # {}
                  /\ Cardinality(gone) <= 1
                  /\ (r.status = "claimed" /\ same # {} /\ same \subseteq Queued(rows'))
                         <=> RequeuedFact(r.item) \in facts']_vars
  BY DEF Told
<1> QED
  BY <1>1, <1>2, QueueInvariant, PTL DEF Spec, ChangesReported
=============================================================================
