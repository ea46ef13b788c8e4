------------------------ MODULE SteeringHandoffProofs ------------------------
(***************************************************************************)
(* Theorems about SteeringHandoff, for any messages and any number of      *)
(* faults.                                                                 *)
(*                                                                         *)
(* Why a message has one place: the lane is given away whole and in one    *)
(* step, to the poll, to a batch or to the Turn, and a batch that has been *)
(* used once is never used again; what a commit has made durable stays in  *)
(* its batch only while the commit goes on.                                *)
(***************************************************************************)
EXTENDS SteeringHandoff, FiniteSetTheorems, SequenceTheorems, TLAPS

Ascending(s) == \A i, j \in 1 .. Len(s) : i < j => s[i] < s[j]

----------------------------------------------------------------------------
(* Sequences and the least number of a set.                                *)

LEMMA ToSetEmpty == ToSet(<<>>) = {}
  BY DEF ToSet

LEMMA ToSetIs ==
    ASSUME NEW S, NEW s \in Seq(S)
    PROVE  ToSet(s) = {s[i] : i \in 1 .. Len(s)}
  BY LenProperties DEF ToSet

LEMMA ToSetIndex ==
    ASSUME NEW S, NEW s \in Seq(S), NEW x
    PROVE  x \in ToSet(s) <=> \E i \in 1 .. Len(s) : x = s[i]
  BY ToSetIs

LEMMA ToSetType ==
    ASSUME NEW S, NEW s \in Seq(S)
    PROVE  /\ ToSet(s) \subseteq S
           /\ s # <<>> => s[1] \in ToSet(s)
           /\ ToSet(s) = {} <=> s = <<>>
  <1>1. ToSet(s) = {s[i] : i \in 1 .. Len(s)} /\ \A i \in 1 .. Len(s) : s[i] \in S
    BY ToSetIs, ElementOfSeq
  <1>2. s # <<>> => 1 \in 1 .. Len(s)
    BY EmptySeq
  <1> QED
    BY <1>1, <1>2, ToSetEmpty

LEMMA ToSetAppend ==
    ASSUME NEW S, NEW s \in Seq(S), NEW e \in S
    PROVE  Append(s, e) \in Seq(S) /\ ToSet(Append(s, e)) = ToSet(s) \cup {e}
  <1>1. /\ Append(s, e) \in Seq(S) /\ Len(s) \in Nat /\ Len(Append(s, e)) = Len(s) + 1
        /\ \A i \in 1 .. Len(s) : Append(s, e)[i] = s[i]
        /\ Append(s, e)[Len(s) + 1] = e
    BY AppendProperties, LenProperties
  <1>2. \A x : x \in ToSet(Append(s, e)) <=> \E i \in 1 .. Len(s) + 1 : x = Append(s, e)[i]
    <2>1. ToSet(Append(s, e)) = {Append(s, e)[i] : i \in 1 .. Len(Append(s, e))}
      BY <1>1, ToSetIs
    <2> QED
      BY <1>1, <2>1
  <1>3. \A x : x \in ToSet(s) <=> \E i \in 1 .. Len(s) : x = s[i]
    BY ToSetIndex
  <1>4. \A i \in 1 .. Len(s) + 1 : i \in 1 .. Len(s) \/ i = Len(s) + 1
    BY <1>1
  <1>5. 1 .. Len(s) \subseteq 1 .. Len(s) + 1 /\ Len(s) + 1 \in 1 .. Len(s) + 1
    BY <1>1
  <1> QED
    BY <1>1, <1>2, <1>3, <1>4, <1>5

LEMMA ToSetConcat ==
    ASSUME NEW S, NEW s \in Seq(S), NEW t \in Seq(S)
    PROVE  s \o t \in Seq(S) /\ ToSet(s \o t) = ToSet(s) \cup ToSet(t)
  <1>1. /\ s \o t \in Seq(S) /\ Len(s \o t) = Len(s) + Len(t)
        /\ Len(s) \in Nat /\ Len(t) \in Nat
        /\ \A i \in 1 .. Len(s) + Len(t) :
               (s \o t)[i] = IF i <= Len(s) THEN s[i] ELSE t[i - Len(s)]
    BY ConcatProperties, LenProperties
  <1>2. \A x : x \in ToSet(s \o t) <=> \E i \in 1 .. Len(s) + Len(t) : x = (s \o t)[i]
    <2>1. ToSet(s \o t) = {(s \o t)[i] : i \in 1 .. Len(s \o t)}
      BY <1>1, ToSetIs
    <2> QED
      BY <1>1, <2>1
  <1>3. ASSUME NEW x \in ToSet(s \o t) PROVE x \in ToSet(s) \cup ToSet(t)
    <2>1. PICK i \in 1 .. Len(s) + Len(t) : x = (s \o t)[i]
      BY <1>2
    <2>2. CASE i <= Len(s)
      BY <1>1, <2>1, <2>2, ToSetIndex
    <2>3. CASE ~(i <= Len(s))
      <3>1. i - Len(s) \in 1 .. Len(t)
        BY <1>1, <2>3
      <3> QED
        BY <1>1, <2>1, <2>3, <3>1, ToSetIndex
    <2> QED
      BY <2>2, <2>3
  <1>4. ASSUME NEW x \in ToSet(s) PROVE x \in ToSet(s \o t)
    <2>1. PICK i \in 1 .. Len(s) : x = s[i]
      BY ToSetIndex
    <2>2. i \in 1 .. Len(s) + Len(t) /\ i <= Len(s)
      BY <1>1
    <2> QED
      BY <1>1, <1>2, <2>1, <2>2
  <1>5. ASSUME NEW x \in ToSet(t) PROVE x \in ToSet(s \o t)
    <2>1. PICK i \in 1 .. Len(t) : x = t[i]
      BY ToSetIndex
    <2>2. Len(s) + i \in 1 .. Len(s) + Len(t) /\ ~(Len(s) + i <= Len(s)) /\ Len(s) + i - Len(s) = i
      BY <1>1
    <2> QED
      BY <1>1, <1>2, <2>1, <2>2
  <1> QED
    BY <1>1, <1>3, <1>4, <1>5

LEMMA ToSetTail ==
    ASSUME NEW S, NEW s \in Seq(S), s # <<>>
    PROVE  Tail(s) \in Seq(S) /\ Head(s) \in ToSet(s) /\ ToSet(Tail(s)) \subseteq ToSet(s)
  <1>1. Head(s) = s[1]
    OBVIOUS
  <1>2. /\ Tail(s) \in Seq(S) /\ Len(Tail(s)) = Len(s) - 1 /\ Len(s) \in Nat
        /\ \A i \in 1 .. Len(Tail(s)) : Tail(s)[i] = s[i + 1]
    BY HeadTailProperties, LenProperties
  <1>3. \A i \in 1 .. Len(s) - 1 : i + 1 \in 1 .. Len(s)
    BY <1>2
  <1>4. ToSet(s) = {s[i] : i \in 1 .. Len(s)}
    BY ToSetIs
  <1>5. ToSet(Tail(s)) = {Tail(s)[i] : i \in 1 .. Len(s) - 1}
    BY <1>2, ToSetIs
  <1> QED
    BY <1>1, <1>2, <1>3, <1>4, <1>5, ToSetType

LEMMA SetToSeqIs ==
    ASSUME NEW S, IsFiniteSet(S)
    PROVE  SetToSeq(S) \in Seq(S)
  <1>1. Cardinality(S) \in Nat /\ ExistsBijection(1 .. Cardinality(S), S)
    BY FS_CardinalityType
  <1>2. PICK f \in [1 .. Cardinality(S) -> S] : IsInjective(f)
    BY <1>1 DEF ExistsBijection, Bijection, Injection, IsInjective
  <1>3. SetToSeq(S) \in [1 .. Cardinality(S) -> S]
    BY <1>2 DEF SetToSeq
  <1> QED
    BY <1>1, <1>3

LEMMA OrdersAre ==
    ASSUME NEW S, IsFiniteSet(S), NEW s \in EarliestFirst(S)
    PROVE  s \in Seq(S)
  <1>1. s \in [1 .. Cardinality(S) -> S]
    BY DEF EarliestFirst, SetToSeqs
  <1> QED
    BY <1>1, FS_CardinalityType

Below == {ss \in Nat \X Nat : ss[1] < ss[2]}

LEMMA LeastNumber ==
    ASSUME NEW S \in SUBSET Nat, S # {}
    PROVE  \E n \in S : \A m \in S : n <= m
  <1>1. Below = OpToRel(<, Nat)
    BY DEF Below, OpToRel
  <1>2. IsWellFoundedOn(Below, Nat)
    BY <1>1, NatLessThanWellFounded
  <1>3. PICK x \in S : \A y \in S : ~(<<y, x>> \in Below)
    BY <1>2, WFMin
  <1>4. ASSUME NEW y \in S PROVE x <= y
    <2>1. x \in Nat /\ y \in Nat
      OBVIOUS
    <2>2. <<y, x>> \notin Below
      BY <1>3
    <2>3. ~(y < x)
      BY <2>1, <2>2 DEF Below
    <2> QED
      BY <2>1, <2>3
  <1> QED
    BY <1>4

----------------------------------------------------------------------------
(* Only(s, S) is a function defined by recursion on the length.  That it   *)
(* exists, and what it returns, goes by a least length that fails.         *)

KeptOf(s, S, k, N) ==
    k = [n \in 0 .. N |->
            IF n = 0 THEN <<>>
            ELSE IF s[n] \in S THEN Append(k[n - 1], s[n]) ELSE k[n - 1]]

LEMMA KeptExtends ==
    ASSUME NEW s, NEW S, NEW k, NEW N \in Nat, KeptOf(s, S, k, N)
    PROVE  \E g : KeptOf(s, S, g, N + 1)
  <1> DEFINE e == IF s[N + 1] \in S THEN Append(k[N], s[N + 1]) ELSE k[N]
             g == [n \in 0 .. N + 1 |-> IF n = N + 1 THEN e ELSE k[n]]
  <1> HIDE DEF e
  <1>1. (\A n \in 0 .. N : g[n] = k[n]) /\ g[N + 1] = e
    OBVIOUS
  <1>2. ASSUME NEW n \in 0 .. N + 1
        PROVE  g[n] = IF n = 0 THEN <<>>
                      ELSE IF s[n] \in S THEN Append(g[n - 1], s[n]) ELSE g[n - 1]
    <2>1. CASE n = N + 1
      BY <2>1, <1>1 DEF e
    <2>2. CASE n # N + 1
      <3>1. n \in 0 .. N /\ (n # 0 => n - 1 \in 0 .. N)
        BY <2>2
      <3>2. k[n] = IF n = 0 THEN <<>>
                   ELSE IF s[n] \in S THEN Append(k[n - 1], s[n]) ELSE k[n - 1]
        BY <3>1 DEF KeptOf
      <3> QED
        BY <1>1, <3>1, <3>2
    <2> QED
      BY <2>1, <2>2
  <1>3. g = [n \in 0 .. N + 1 |-> g[n]]
    OBVIOUS
  <1> HIDE DEF g
  <1> QED
    BY <1>2, <1>3 DEF KeptOf

LEMMA KeptExists == ASSUME NEW s, NEW S, NEW N \in Nat PROVE \E k : KeptOf(s, S, k, N)
  <1> DEFINE B == {n \in Nat : ~ \E k : KeptOf(s, S, k, n)}
  <1> SUFFICES ASSUME B # {} PROVE FALSE
    OBVIOUS
  <1>1. PICK n \in B : \A m \in B : n <= m
    BY LeastNumber
  <1>2. n # 0
    <2>1. KeptOf(s, S, [i \in 0 .. 0 |-> <<>>], 0)
      BY DEF KeptOf
    <2> QED
      BY <2>1
  <1>3. n - 1 \in Nat /\ n - 1 \notin B
    BY <1>1, <1>2
  <1>4. PICK k : KeptOf(s, S, k, n - 1)
    BY <1>3
  <1> QED
    BY <1>3, <1>4, KeptExtends, <1>1

LEMMA OnlyIs ==
    ASSUME NEW s, NEW S, Len(s) \in Nat
    PROVE  \E k : KeptOf(s, S, k, Len(s)) /\ Only(s, S) = k[Len(s)]
  <1> DEFINE k == CHOOSE k : KeptOf(s, S, k, Len(s))
  <1>1. KeptOf(s, S, k, Len(s))
    BY KeptExists
  <1>2. Only(s, S) = k[Len(s)]
    BY ZenonT(20) DEF Only, KeptOf
  <1> QED
    BY <1>1, <1>2

(* What the prefix of length n keeps.                                      *)
KeptGood(s, S, k, n) ==
    /\ k[n] \in Seq(S)
    /\ ToSet(k[n]) = {s[i] : i \in 1 .. n} \cap S
    /\ Ascending(s) => Ascending(k[n])

LEMMA AscendingAppend ==
    ASSUME NEW s \in Seq(Nat), NEW e \in Nat, Ascending(s), \A x \in ToSet(s) : x < e
    PROVE  Ascending(Append(s, e))
  <1>1. /\ Len(s) \in Nat /\ Len(Append(s, e)) = Len(s) + 1
        /\ \A i \in 1 .. Len(s) : Append(s, e)[i] = s[i] /\ s[i] \in ToSet(s)
        /\ Append(s, e)[Len(s) + 1] = e
    BY AppendProperties, LenProperties, ToSetIndex
  <1>2. ASSUME NEW i \in 1 .. Len(s) + 1, NEW j \in 1 .. Len(s) + 1, i < j
        PROVE  Append(s, e)[i] < Append(s, e)[j]
    <2>1. i \in 1 .. Len(s) /\ (j \in 1 .. Len(s) \/ j = Len(s) + 1)
      BY <1>1, <1>2
    <2> QED
      BY <1>1, <1>2, <2>1 DEF Ascending
  <1> QED
    BY <1>1, <1>2 DEF Ascending

LEMMA AscendingConcat ==
    ASSUME NEW s \in Seq(Nat), NEW t \in Seq(Nat), Ascending(s), Ascending(t),
           \A x \in ToSet(s), y \in ToSet(t) : x < y
    PROVE  Ascending(s \o t)
  <1>1. /\ Len(s \o t) = Len(s) + Len(t)
        /\ Len(s) \in Nat /\ Len(t) \in Nat
        /\ \A i \in 1 .. Len(s) + Len(t) :
               (s \o t)[i] = IF i <= Len(s) THEN s[i] ELSE t[i - Len(s)]
    BY ConcatProperties, LenProperties
  <1>2. ASSUME NEW i \in 1 .. Len(s) + Len(t), NEW j \in 1 .. Len(s) + Len(t), i < j
        PROVE  (s \o t)[i] < (s \o t)[j]
    <2>1. CASE j <= Len(s)
      <3>1. i \in 1 .. Len(s) /\ j \in 1 .. Len(s) /\ i <= Len(s)
        BY <1>1, <1>2, <2>1
      <3> QED
        BY <1>1, <1>2, <2>1, <3>1 DEF Ascending
    <2>2. CASE i <= Len(s) /\ ~(j <= Len(s))
      <3>1. i \in 1 .. Len(s) /\ j - Len(s) \in 1 .. Len(t)
        BY <1>1, <2>2
      <3>2. s[i] \in ToSet(s) /\ t[j - Len(s)] \in ToSet(t)
        BY <3>1, ToSetIndex
      <3> QED
        BY <1>1, <2>2, <3>2
    <2>3. CASE ~(i <= Len(s))
      <3>1. /\ i - Len(s) \in 1 .. Len(t) /\ j - Len(s) \in 1 .. Len(t)
            /\ i - Len(s) < j - Len(s) /\ ~(j <= Len(s))
        BY <1>1, <1>2, <2>3
      <3>2. t[i - Len(s)] < t[j - Len(s)]
        BY <3>1 DEF Ascending
      <3> QED
        BY <1>1, <2>3, <3>1, <3>2
    <2> QED
      BY <2>1, <2>2, <2>3
  <1> QED
    BY <1>1, <1>2 DEF Ascending

LEMMA AscendingFirst ==
    ASSUME NEW s \in Seq(Nat), Ascending(s), s # <<>>
    PROVE  s[1] \in ToSet(s) /\ \A x \in ToSet(s) : s[1] <= x
  <1>1. s[1] \in ToSet(s) /\ Len(s) \in Nat /\ 1 \in 1 .. Len(s)
    BY ToSetType, LenProperties, EmptySeq
  <1>2. ASSUME NEW i \in 1 .. Len(s) PROVE s[1] <= s[i]
    <2>1. s[1] \in Nat /\ s[i] \in Nat
      BY <1>1, ElementOfSeq
    <2>2. CASE i = 1
      BY <2>1, <2>2
    <2>3. CASE i # 1
      <3>1. 1 < i
        BY <2>3
      <3>2. s[1] < s[i]
        BY <1>1, <3>1 DEF Ascending
      <3> QED
        BY <2>1, <3>2
    <2> QED
      BY <2>2, <2>3
  <1> QED
    BY <1>1, <1>2, ToSetIndex

LEMMA KeptGoodStep ==
    ASSUME NEW s \in Seq(Nat), NEW S \in SUBSET Nat, NEW k, KeptOf(s, S, k, Len(s)),
           NEW n \in 1 .. Len(s), KeptGood(s, S, k, n - 1)
    PROVE  KeptGood(s, S, k, n)
  <1>1. Len(s) \in Nat /\ n \in 0 .. Len(s) /\ n # 0
    BY LenProperties
  <1>2. k[n] = IF s[n] \in S THEN Append(k[n - 1], s[n]) ELSE k[n - 1]
    BY <1>1 DEF KeptOf
  <1>3. /\ k[n - 1] \in Seq(S) /\ ToSet(k[n - 1]) = {s[i] : i \in 1 .. n - 1} \cap S
        /\ Ascending(s) => Ascending(k[n - 1])
    BY DEF KeptGood
  <1>4. 1 .. n = 1 .. n - 1 \cup {n}
    BY <1>1
  <1>5. {s[i] : i \in 1 .. n} = {s[i] : i \in 1 .. n - 1} \cup {s[n]}
    BY <1>4
  <1>6. CASE s[n] \notin S
    BY <1>2, <1>3, <1>5, <1>6 DEF KeptGood
  <1>7. CASE s[n] \in S
    <2>1. k[n] = Append(k[n - 1], s[n])
      BY <1>2, <1>7
    <2>2. k[n] \in Seq(S) /\ ToSet(k[n]) = ToSet(k[n - 1]) \cup {s[n]}
      BY <2>1, <1>3, <1>7, ToSetAppend
    <2>3. ASSUME Ascending(s) PROVE Ascending(k[n])
      <3>1. k[n - 1] \in Seq(Nat) /\ s[n] \in Nat
        BY <1>3, <1>7, SeqMonotonic
      <3>2. \A i \in 1 .. n - 1 : i \in 1 .. Len(s) /\ i < n
        BY <1>1
      <3>3. \A x \in ToSet(k[n - 1]) : x < s[n]
        BY <1>3, <2>3, <3>2 DEF Ascending
      <3> QED
        BY <1>3, <2>1, <2>3, <3>1, <3>3, AscendingAppend
    <2> QED
      BY <1>3, <1>5, <1>7, <2>2, <2>3 DEF KeptGood
  <1> QED
    BY <1>6, <1>7

LEMMA OnlyKeeps ==
    ASSUME NEW s \in Seq(Nat), NEW S \in SUBSET Nat
    PROVE  /\ Only(s, S) \in Seq(S)
           /\ ToSet(Only(s, S)) = ToSet(s) \cap S
           /\ Ascending(s) => Ascending(Only(s, S))
  <1>1. Len(s) \in Nat /\ DOMAIN s = 1 .. Len(s)
    BY LenProperties
  <1>2. PICK k : KeptOf(s, S, k, Len(s)) /\ Only(s, S) = k[Len(s)]
    BY <1>1, OnlyIs
  <1>3. KeptGood(s, S, k, 0)
    <2>1. k[0] = <<>>
      BY <1>1, <1>2 DEF KeptOf
    <2> QED
      BY <2>1, ToSetEmpty, EmptySeq DEF KeptGood, Ascending
  <1>4. KeptGood(s, S, k, Len(s))
    <2> DEFINE B == {n \in 0 .. Len(s) : ~KeptGood(s, S, k, n)}
    <2> SUFFICES ASSUME B # {} PROVE FALSE
      BY <1>1
    <2>1. B \in SUBSET Nat
      OBVIOUS
    <2>2. PICK n \in B : \A m \in B : n <= m
      BY <2>1, LeastNumber
    <2>3. n \in 1 .. Len(s)
      BY <1>3, <2>2
    <2>4. n - 1 \in 0 .. Len(s) /\ ~(n <= n - 1)
      BY <1>1, <2>3
    <2>5. KeptGood(s, S, k, n - 1)
      BY <2>2, <2>4
    <2> QED
      BY <1>2, <2>2, <2>3, <2>5, KeptGoodStep
  <1> QED
    BY <1>1, <1>2, <1>4 DEF KeptGood, ToSet

----------------------------------------------------------------------------
(* The inductive invariant.                                                *)

Durable == ToSet(conversation)
InLane == ToSet(hand) \cup ToSet(steering)

(* A cause for which nothing was discarded.                                *)
Untouched(c) ==
    /\ c \notin pending /\ left[c] = <<>> /\ route[c] = "none" /\ task[c] = "none"
    /\ lane[c] = "none" /\ row[c] = "none" /\ c \notin merged

(* What the phase, the host and the coordinator say of lane and batches.   *)
TurnFit ==
    /\ phase # "running" => steering = <<>>
    /\ phase = "running" => conversation = <<>> /\ \A c \in Cause : Untouched(c)
    /\ hand # <<>> =>
           host = "polling" /\ phase \in {"running", "aborted"} /\ Untouched("restored")
    /\ host = "over" => phase # "running"
    /\ phase = "sealed" => host = "over"
    /\ host = "unsealed" => \A c \in Cause \ {"abort"} : Untouched(c)
    /\ coord # "host" => host \in {"over", "unsealed"}

(* The lane is in send order, and what a poll claimed comes before it.     *)
LaneOrder ==
    /\ Ascending(hand) /\ Ascending(steering)
    /\ \A m \in ToSet(hand), n \in ToSet(steering) : m < n

Admitted ==
    /\ InLane \subseteq accepted /\ given \subseteq accepted /\ Durable \subseteq accepted
    /\ \A c \in Cause : Ascending(left[c]) /\ Sending(c) \subseteq accepted

BatchFit(c) ==
    /\ route[c] = "none" => Untouched(c)
    /\ c \in pending => left[c] # <<>>
    /\ task[c] = "commit" => route[c] = "teardown"
    /\ task[c] \in {"enqueue", "pause"} => route[c] = "requeue"
    /\ row[c] # "none" => route[c] = "requeue"
    /\ task[c] = "pause" => row[c] # "none"
    /\ c \in merged => task[c] = "commit"
    /\ c = "exit" => route[c] # "teardown"

DrainFit ==
    /\ process = "open" => drain = "idle"
    /\ drain = "trying" => todo # <<>>
    /\ \A c \in ToSet(todo) : route[c] # "none"

(* No two places hold the same message, and the conversation has it once;  *)
(* only while a commit goes on its batch holds what is durable already.    *)
Apart ==
    /\ InLane \cap (given \cup Durable) = {} /\ given \cap Durable = {}
    /\ \A c \in Cause : /\ Sending(c) \cap (InLane \cup given) = {}
                        /\ task[c] # "commit" => Sending(c) \cap Durable = {}
    /\ \A c, d \in Cause : c # d => Sending(c) \cap Sending(d) = {}
    /\ \A i, j \in 1 .. Len(conversation) : conversation[i] = conversation[j] => i = j

Found ==
    \/ host = "unsealed"
    \/ accepted \cap User \subseteq InLane \cup given \cup Kept \cup Durable \cup Queued

Fit == TypeOK /\ TurnFit /\ LaneOrder /\ DrainFit
PlaceInv == Fit /\ Admitted /\ (\A c \in Cause : BatchFit(c)) /\ Apart /\ Found

(* While nothing has failed: no batch falls back to the queue, none is     *)
(* pending without a task once its retries began, and the release finds    *)
(* nothing that belongs into the conversation.                             *)
Calm == faults = 0 =>
    /\ \A c \in pending :
           /\ c # "exit" => route[c] = "teardown"
           /\ lane[c] \in {"second", "last", "over"} => task[c] # "none"
    /\ drain = "trying" => (Head(todo) \in pending => task[Head(todo)] # "none")
    /\ coord = "committing" /\ host = "over" => \A c \in pending : c # "exit" => c \in awaits
    /\ Released /\ host = "over" => \A c \in pending : c = "exit"

Falling == {c \in pending : route[c] = "teardown"}

(* ... and before a shutdown the batches on their way to the conversation  *)
(* are all in one commit, or none is, and come after what is there.        *)
InOrder == faults = 0 /\ process = "open" =>
    /\ Ascending(conversation)
    /\ \A c \in Falling : \A x \in Durable, y \in Sending(c) \ Durable : x < y
    /\ coord = "host" => conversation = <<>> /\ \A c \in Cause : task[c] # "commit"
    /\ \A c \in Cause : task[c] = "commit" => Falling = Peers(c)

IInv == PlaceInv /\ Calm /\ InOrder

----------------------------------------------------------------------------
(* A step of the Turn: c is given the messages M, if one of them is a      *)
(* user's.                                                                 *)

Handed(c, l) ==
    /\ l \in Seq(User) /\ l # <<>> /\ Ascending(l)
    /\ pending' = pending \cup {c}
    /\ left' = [left EXCEPT ![c] = l]
    /\ route' = [route EXCEPT ![c] = RouteOf(c)]
    /\ task' = [task EXCEPT ![c] = IF c = "exit" THEN "enqueue" ELSE "none"]
    /\ lane' = [lane EXCEPT ![c] = IF c = "exit" THEN "last" ELSE "waiting"]
    /\ UNCHANGED merged

GivesUp(c, M) ==
    \/ UNCHANGED batches /\ M \cap User = {}
    \/ Untouched(c) /\ \E l : Handed(c, l) /\ ToSet(l) = M \cap User

TurnMoves(c, M) ==
    /\ GivesUp(c, M) /\ UNCHANGED <<accepted, coord, awaits, stores, faults>>
    /\ InLane' \subseteq InLane \ M /\ M \subseteq InLane
    /\ given \subseteq given' /\ given' \ given \subseteq InLane \ (InLane' \cup M)
    /\ InLane \cap User \subseteq InLane' \cup given' \cup M
    /\ host \in {"over", "unsealed"} => host' = host
    /\ UNCHANGED <<process, drain, todo>> \/ (process' # "open" /\ drain' = "waiting")

LEMMA Numbers == User \subseteq Nat /\ Machine \subseteq Nat /\ Message \subseteq Nat
  BY ConstantsAssumption DEF Message

LEMMA LanesNumbers ==
    ASSUME TypeOK
    PROVE  /\ hand \in Seq(Nat) /\ steering \in Seq(Nat) /\ conversation \in Seq(Nat)
           /\ \A c \in Cause : left[c] \in Seq(Nat) /\ left[c] \in Seq(User)
           /\ InLane \subseteq Message /\ Durable \subseteq User
           /\ \A c \in Cause : Sending(c) \subseteq User
  <1>1. hand \in Seq(Message) /\ steering \in Seq(Message) /\ conversation \in Seq(User)
    BY DEF TypeOK
  <1>2. \A c \in Cause : left[c] \in Seq(User)
    BY DEF TypeOK
  <1> QED
    BY <1>1, <1>2, Numbers, SeqMonotonic, ToSetType DEF InLane, Durable, Sending

LEMMA DiscardGivesUp ==
    ASSUME NEW c \in Cause, NEW msgs \in Seq(Message), Ascending(msgs), Discard(c, msgs),
           msgs # <<>> => Untouched(c)
    PROVE  GivesUp(c, ToSet(msgs))
  <1>1. msgs \in Seq(Nat) /\ User \in SUBSET Nat
    BY Numbers, SeqMonotonic
  <1> DEFINE l == Only(msgs, User)
  <1>2. l \in Seq(User) /\ ToSet(l) = ToSet(msgs) \cap User /\ Ascending(l)
    BY <1>1, OnlyKeeps
  <1>3. CASE l = <<>>
    <2>1. UNCHANGED batches
      BY <1>3 DEF Discard
    <2> QED
      BY <1>2, <1>3, <2>1, ToSetEmpty DEF GivesUp
  <1>4. CASE l # <<>>
    <2>1. msgs # <<>>
      BY <1>2, <1>4, ToSetType, ToSetEmpty
    <2>2. Handed(c, l)
      BY <1>2, <1>4 DEF Discard, Handed
    <2> QED
      BY <1>2, <2>1, <2>2 DEF GivesUp
  <1> QED
    BY <1>3, <1>4

(* What was handed over is a batch of its own kind.                        *)
LEMMA HandedEffect ==
    ASSUME TypeOK, NEW c \in Cause, NEW l, Handed(c, l)
    PROVE  /\ left'[c] = l /\ left' \in [Cause -> Seq(User)] /\ pending' \subseteq Cause
           /\ route' \in [Cause -> {"none", "teardown", "requeue"}]
           /\ task' \in [Cause -> {"none", "commit", "enqueue", "pause"}]
           /\ lane' \in [Cause -> {"none", "waiting", "second", "last", "over"}]
           /\ route'[c] = RouteOf(c) /\ lane'[c] = (IF c = "exit" THEN "last" ELSE "waiting")
           /\ task'[c] = (IF c = "exit" THEN "enqueue" ELSE "none")
           /\ merged' = merged
           /\ \A d \in Cause : d # c =>
                  /\ d \in pending' <=> d \in pending
                  /\ left'[d] = left[d] /\ route'[d] = route[d]
                  /\ task'[d] = task[d] /\ lane'[d] = lane[d]
  BY DEF TypeOK, Handed, RouteOf

BatchTypes ==
    /\ pending' \subseteq Cause /\ left' \in [Cause -> Seq(User)]
    /\ route' \in [Cause -> {"none", "teardown", "requeue"}]
    /\ task' \in [Cause -> {"none", "commit", "enqueue", "pause"}]
    /\ lane' \in [Cause -> {"none", "waiting", "second", "last", "over"}]
    /\ merged' \subseteq Cause

LEMMA GivesUpTypes ==
    ASSUME TypeOK, NEW c \in Cause, NEW M, GivesUp(c, M)
    PROVE  BatchTypes
  <1>1. CASE UNCHANGED batches
    BY <1>1 DEF TypeOK, BatchTypes, batches
  <1>2. ASSUME NEW l, Handed(c, l) PROVE BatchTypes
    BY <1>2, HandedEffect DEF BatchTypes, TypeOK
  <1> QED
    BY <1>1, <1>2 DEF GivesUp

(* The other causes stay as they are.                                      *)
LEMMA GivesUpUntouched ==
    ASSUME TypeOK, NEW c \in Cause, NEW M, GivesUp(c, M), row' = row
    PROVE  /\ \A d \in Cause : d # c /\ Untouched(d) => Untouched(d)'
           /\ \A d \in Cause : route[d] # "none" => route'[d] # "none"
           /\ M = {} => \A d \in Cause : Untouched(d) => Untouched(d)'
  <1>1. CASE UNCHANGED batches
    BY <1>1 DEF Untouched, batches
  <1>2. ASSUME Untouched(c), NEW l, Handed(c, l), ToSet(l) = M \cap User
        PROVE  /\ \A d \in Cause : d # c /\ Untouched(d) => Untouched(d)'
               /\ \A d \in Cause : route[d] # "none" => route'[d] # "none"
               /\ M # {}
    <2>1. l \in Seq(User) /\ l # <<>>
      BY <1>2 DEF Handed
    <2>2. M # {}
      BY <1>2, <2>1, ToSetType
    <2> QED
      BY <1>2, <2>2, HandedEffect DEF Untouched, TypeOK
  <1> QED
    BY <1>1, <1>2 DEF GivesUp

LEMMA TurnMovesBatchFit ==
    ASSUME TypeOK, \A d \in Cause : BatchFit(d), NEW c \in Cause, NEW M, TurnMoves(c, M)
    PROVE  \A d \in Cause : BatchFit(d)'
  <1>0. row' = row /\ conversation' = conversation
    BY DEF TurnMoves, stores
  <1>1. CASE UNCHANGED batches
    BY <1>0, <1>1 DEF BatchFit, Untouched, batches
  <1>2. ASSUME Untouched(c), NEW l, Handed(c, l) PROVE \A d \in Cause : BatchFit(d)'
    <2>1. l # <<>>
      BY <1>2 DEF Handed
    <2>2. BatchFit(c)'
      BY <1>0, <1>2, <2>1, HandedEffect DEF BatchFit, Untouched, RouteOf
    <2>3. ASSUME NEW d \in Cause, d # c PROVE BatchFit(d)'
      <3>1. BatchFit(d)
        OBVIOUS
      <3> QED
        BY <1>0, <1>2, <2>3, <3>1, HandedEffect DEF BatchFit, Untouched
    <2> QED
      BY <2>2, <2>3
  <1> QED
    BY <1>1, <1>2 DEF TurnMoves, GivesUp

(* What the batches hold after the step, and who is still committing.      *)
NewBatch(c, M) ==
    /\ Untouched(c) /\ Sending(c)' = M \cap User /\ Ascending(left'[c])
    /\ c \in pending' /\ Sending(c) = {} /\ task[c] # "commit" /\ task'[c] # "commit"
    /\ M \cap User # {}
    /\ \A d \in Cause : d # c => /\ Sending(d)' = Sending(d) /\ left'[d] = left[d]
                                 /\ task'[d] = task[d]
                                 /\ d \in pending' <=> d \in pending

LEMMA TurnMovesSending ==
    ASSUME TypeOK, NEW c \in Cause, NEW M, TurnMoves(c, M)
    PROVE  (UNCHANGED batches /\ M \cap User = {}) \/ NewBatch(c, M)
  <1>1. ASSUME Untouched(c), NEW l, Handed(c, l), ToSet(l) = M \cap User
        PROVE  NewBatch(c, M)
    <2>1. l \in Seq(User) /\ l # <<>> /\ Ascending(l) /\ c \in pending'
      BY <1>1 DEF Handed
    <2>2. ToSet(l) # {}
      BY <2>1, ToSetType
    <2>3. Sending(c) = {}
      BY <1>1, ToSetEmpty DEF Untouched, Sending
    <2>4. /\ left'[c] = l /\ task'[c] # "commit"
          /\ \A d \in Cause : d # c => left'[d] = left[d] /\ task'[d] = task[d]
                                       /\ (d \in pending' <=> d \in pending)
      BY <1>1, HandedEffect
    <2> QED
      BY <1>1, <2>1, <2>2, <2>3, <2>4 DEF Sending, Untouched, NewBatch
  <1> QED
    BY <1>1 DEF TurnMoves, GivesUp

LEMMA TurnMovesAdmitted ==
    ASSUME TypeOK, Admitted, NEW c \in Cause, NEW M, TurnMoves(c, M)
    PROVE  Admitted'
  <1>1. /\ accepted' = accepted /\ Durable' = Durable /\ InLane' \subseteq InLane
        /\ M \subseteq InLane /\ given' \subseteq given \cup InLane
    BY DEF TurnMoves, stores, Durable
  <1>2. \A d \in Cause : Ascending(left'[d]) /\ Sending(d)' \subseteq accepted
    <2>1. CASE UNCHANGED batches
      BY <2>1 DEF batches, Sending, Admitted
    <2>2. CASE ~ UNCHANGED batches
      BY <2>2, <1>1, TurnMovesSending DEF NewBatch, Admitted
    <2> QED
      BY <2>1, <2>2
  <1> QED
    BY <1>1, <1>2 DEF Admitted, Sending

LEMMA TurnMovesApart ==
    ASSUME TypeOK, Admitted, Apart, NEW c \in Cause, NEW M, TurnMoves(c, M)
    PROVE  Apart'
  <1>1. /\ conversation' = conversation /\ Durable' = Durable /\ InLane' \subseteq InLane \ M
        /\ M \subseteq InLane /\ given \subseteq given'
        /\ given' \ given \subseteq InLane \ (InLane' \cup M)
    BY DEF TurnMoves, stores, Durable
  <1>2. InLane' \cap (given \cup Durable)' = {} /\ (given \cap Durable)' = {}
    BY <1>1 DEF Apart
  <1>3. CASE UNCHANGED batches
    <2>1. \A d \in Cause : Sending(d)' = Sending(d) /\ task'[d] = task[d]
      BY <1>3 DEF batches, Sending
    <2> QED
      BY <1>1, <1>2, <2>1 DEF Apart
  <1>4. CASE ~ UNCHANGED batches
    <2>1. /\ Sending(c)' = M \cap User
          /\ \A d \in Cause : d # c => Sending(d)' = Sending(d) /\ task'[d] = task[d]
      BY <1>4, TurnMovesSending DEF NewBatch
    <2>2. /\ InLane \cap (given \cup Durable) = {}
          /\ \A d \in Cause : Sending(d) \cap (InLane \cup given) = {}
          /\ \A d \in Cause : task[d] # "commit" => Sending(d) \cap Durable = {}
      BY DEF Apart
    <2>3. \A d \in Cause : Sending(d)' \cap (InLane \cup given)' = {}
      BY <1>1, <2>1, <2>2
    <2>4. \A d \in Cause : task'[d] # "commit" => Sending(d)' \cap Durable' = {}
      BY <1>1, <2>1, <2>2
    <2>5. \A d, e \in Cause : d # e => Sending(d)' \cap Sending(e)' = {}
      <3>1. \A d, e \in Cause : d # e => Sending(d) \cap Sending(e) = {}
        BY DEF Apart
      <3> QED
        BY <1>1, <2>1, <2>2, <3>1
    <2> QED
      BY <1>1, <1>2, <2>3, <2>4, <2>5 DEF Apart
  <1> QED
    BY <1>3, <1>4

LEMMA TurnMovesFound ==
    ASSUME TypeOK, Found, NEW c \in Cause, NEW M, TurnMoves(c, M)
    PROVE  Found'
  <1>1. /\ accepted' = accepted /\ Durable' = Durable /\ row' = row
        /\ InLane \cap User \subseteq InLane' \cup given' \cup M /\ given \subseteq given'
        /\ host = "unsealed" => host' = "unsealed"
    BY DEF TurnMoves, stores, Durable
  <1>2. Kept \cup (M \cap User) \subseteq Kept' /\ Queued \subseteq Queued'
    <2>1. CASE UNCHANGED batches
      <3>1. M \cap User = {}
        BY <2>1, ToSetType DEF TurnMoves, GivesUp, Handed, batches, Untouched
      <3> QED
        BY <1>1, <2>1, <3>1 DEF batches, Kept, Queued, Sending
    <2>2. CASE ~ UNCHANGED batches
      <3>1. /\ Sending(c)' = M \cap User /\ c \in pending' /\ Sending(c) = {}
            /\ \A d \in Cause : d # c => Sending(d)' = Sending(d)
                                         /\ (d \in pending' <=> d \in pending)
        BY <2>2, TurnMovesSending DEF NewBatch
      <3>2. pending \subseteq Cause /\ pending' \subseteq Cause
        BY GivesUpTypes DEF TypeOK, TurnMoves, BatchTypes
      <3>3. \A d \in Cause : Sending(d) \subseteq Sending(d)'
        BY <3>1
      <3>4. \A d \in pending : d \in pending'
        BY <3>1, <3>2
      <3>5. Kept \subseteq Kept'
        BY <3>2, <3>3, <3>4 DEF Kept
      <3>6. M \cap User \subseteq Kept'
        BY <3>1 DEF Kept
      <3>7. Queued \subseteq Queued'
        BY <1>1, <3>3 DEF Queued
      <3> QED
        BY <3>5, <3>6, <3>7
    <2> QED
      BY <2>1, <2>2
  <1> QED
    BY <1>1, <1>2 DEF Found

(* Nothing is handed over once the host is over: the lane is empty.        *)
LEMMA OverIsEmpty == ASSUME TurnFit, phase # "running", host # "polling" PROVE InLane = {}
  BY ToSetEmpty DEF TurnFit, InLane

LEMMA TurnMovesCalm ==
    ASSUME PlaceInv, Calm, NEW c \in Cause, NEW M, TurnMoves(c, M)
    PROVE  Calm'
  <1> SUFFICES ASSUME faults = 0 PROVE Calm'
    BY DEF TurnMoves, Calm
  <1> USE DEF PlaceInv, Fit
  <1>1. /\ UNCHANGED <<coord, awaits, faults>> /\ M \subseteq InLane
        /\ host \in {"over", "unsealed"} => host' = host
        /\ UNCHANGED <<process, drain, todo>> \/ drain' = "waiting"
    BY DEF TurnMoves
  <1>2. coord' # "host" /\ host' = "over" => coord # "host" /\ host = "over"
    BY <1>1 DEF TurnFit
  <1>3. host = "over" => InLane = {}
    BY OverIsEmpty DEF TurnFit
  <1>4. CASE UNCHANGED batches
    BY <1>1, <1>2, <1>4 DEF Calm, Released, batches
  <1>5. ASSUME Untouched(c), NEW l, Handed(c, l), M \cap User # {} PROVE Calm'
    <2>1. host # "over"
      BY <1>1, <1>3, <1>5
    <2>2. ~(coord' # "host" /\ host' = "over")
      BY <1>2, <2>1
    <2>3. /\ route'[c] = RouteOf(c) /\ lane'[c] = (IF c = "exit" THEN "last" ELSE "waiting")
          /\ task'[c] = (IF c = "exit" THEN "enqueue" ELSE "none")
          /\ pending' \subseteq Cause /\ pending \subseteq Cause
          /\ \A d \in Cause : d # c =>
                  /\ d \in pending' <=> d \in pending
                  /\ route'[d] = route[d] /\ task'[d] = task[d] /\ lane'[d] = lane[d]
      BY <1>5, HandedEffect DEF TypeOK
    <2>4. \A d \in pending' : /\ d # "exit" => route'[d] = "teardown"
                              /\ lane'[d] \in {"second", "last", "over"} => task'[d] # "none"
      <3>1. ASSUME NEW d \in pending', d # c
            PROVE  /\ d # "exit" => route'[d] = "teardown"
                   /\ lane'[d] \in {"second", "last", "over"} => task'[d] # "none"
        <4>1. d \in pending /\ d \in Cause
          BY <2>3, <3>1
        <4>2. /\ d # "exit" => route[d] = "teardown"
              /\ lane[d] \in {"second", "last", "over"} => task[d] # "none"
          BY <4>1 DEF Calm
        <4> QED
          BY <2>3, <3>1, <4>1, <4>2
      <3>2. /\ c # "exit" => route'[c] = "teardown"
            /\ lane'[c] \in {"second", "last", "over"} => task'[c] # "none"
        BY <2>3 DEF RouteOf
      <3> QED
        BY <3>1, <3>2
    <2>5. drain' = "trying" => (Head(todo)' \in pending' => task'[Head(todo)'] # "none")
      <3> SUFFICES ASSUME drain' = "trying" PROVE Head(todo)' \in pending' => task'[Head(todo)'] # "none"
        OBVIOUS
      <3>1. drain = "trying" /\ todo' = todo /\ todo # <<>>
        BY <1>1 DEF DrainFit
      <3>2. Head(todo) \in ToSet(todo)
        BY <3>1, ToSetTail DEF TypeOK
      <3>3. Head(todo) # c
        BY <3>2, <1>5 DEF DrainFit, Untouched
      <3>4. Head(todo) \in Cause
        BY <3>2, ToSetType DEF TypeOK
      <3> QED
        BY <2>3, <3>1, <3>3, <3>4 DEF Calm
    <2> QED
      BY <2>2, <2>4, <2>5 DEF Calm, Released
  <1>6. CASE ~ UNCHANGED batches
    <2>1. PICK l : Untouched(c) /\ Handed(c, l) /\ ToSet(l) = M \cap User
      BY <1>6 DEF TurnMoves, GivesUp
    <2>2. M \cap User # {}
      BY <1>6, TurnMovesSending DEF NewBatch
    <2> QED
      BY <1>5, <2>1, <2>2
  <1> QED
    BY <1>4, <1>6

LEMMA TurnMovesInOrder ==
    ASSUME PlaceInv, InOrder, NEW c \in Cause, NEW M, TurnMoves(c, M)
    PROVE  InOrder'
  <1> USE DEF PlaceInv, Fit
  <1>1. /\ UNCHANGED <<coord, faults, conversation>> /\ M \subseteq InLane
        /\ process' = "open" => process = "open" /\ Durable' = Durable
    BY DEF TurnMoves, stores, Durable
  <1> SUFFICES ASSUME faults = 0, process = "open" PROVE InOrder'
    BY <1>1 DEF InOrder
  <1>2. CASE UNCHANGED batches
    BY <1>1, <1>2 DEF InOrder, Falling, Sending, Peers, batches, Durable
  <1>3. CASE ~ UNCHANGED batches
    <2>1. /\ M \cap User # {} /\ Untouched(c) /\ task'[c] # "commit"
          /\ \A d \in Cause : d # c => task'[d] = task[d]
      BY <1>3, TurnMovesSending DEF NewBatch
    <2>2. InLane # {}
      BY <1>1, <2>1
    <2>3. conversation = <<>> /\ \A d \in Cause : task[d] # "commit"
      <3>1. CASE coord = "host"
        BY <3>1 DEF InOrder
      <3>2. CASE coord # "host"
        <4>1. host \in {"over", "unsealed"}
          BY <3>2 DEF TurnFit
        <4>2. phase = "running"
          BY <2>2, <4>1, OverIsEmpty
        <4> QED
          BY <4>2 DEF TurnFit, Untouched
      <3> QED
        BY <3>1, <3>2
    <2>4. conversation' = <<>> /\ Durable' = {} /\ \A d \in Cause : task'[d] # "commit"
      BY <1>1, <2>1, <2>3, ToSetEmpty DEF Durable
    <2>5. Ascending(conversation)'
      BY <2>4, EmptySeq DEF Ascending
    <2> QED
      BY <2>4, <2>5 DEF InOrder
  <1> QED
    BY <1>2, <1>3

LEMMA TurnMovesKeep ==
    ASSUME IInv, NEW c \in Cause, NEW M, TurnMoves(c, M), Fit'
    PROVE  IInv'
  <1> USE DEF IInv, PlaceInv, Fit
  <1>1. Admitted' /\ Apart' /\ Found' /\ \A d \in Cause : BatchFit(d)'
    BY TurnMovesAdmitted, TurnMovesApart, TurnMovesFound, TurnMovesBatchFit
  <1>2. Calm' /\ InOrder'
    BY TurnMovesCalm, TurnMovesInOrder
  <1> QED
    BY <1>1, <1>2

----------------------------------------------------------------------------
(* The actions of the Turn.                                                *)

TurnTypes ==
    /\ phase' \in {"running", "closing", "aborted", "sealed"}
    /\ reason' \in {"none", "user", "other"}
    /\ steering' \in Seq(Message) /\ hand' \in Seq(Message)
    /\ boundary' \in {"mid-turn", "exit"} /\ given' \subseteq Message
    /\ host' \in {"starting", "working", "polling", "failing", "over", "unsealed"}

LEMMA TurnMovesTypes ==
    ASSUME TypeOK, NEW c \in Cause, NEW M, TurnMoves(c, M), TurnTypes,
           process' \in {"open", "closing", "down"}, todo' \in Seq(Cause),
           drain' \in {"idle", "waiting", "starting", "trying", "ending", "done"}
    PROVE  TypeOK'
  <1>1. BatchTypes
    BY GivesUpTypes DEF TurnMoves
  <1>2. UNCHANGED <<accepted, coord, awaits, stores, faults>>
    BY DEF TurnMoves
  <1> QED
    BY <1>1, <1>2 DEF TypeOK, BatchTypes, TurnTypes, stores

LEMMA TurnMovesDrain ==
    ASSUME TypeOK, DrainFit, NEW c \in Cause, NEW M, TurnMoves(c, M),
           UNCHANGED <<process, drain, todo>>
    PROVE  DrainFit'
  <1>1. \A d \in Cause : route[d] # "none" => route'[d] # "none"
    BY GivesUpUntouched DEF TurnMoves, stores
  <1>2. ToSet(todo) \subseteq Cause
    BY ToSetType DEF TypeOK
  <1> QED
    BY <1>1, <1>2 DEF DrainFit

(* A host that goes on and leaves the lane alone.                          *)
LEMMA HostMovesKeep ==
    ASSUME IInv, host \in {"starting", "working"}, host' \in {"working", "over", "unsealed"},
           host' = "over" => phase # "running", host' = "unsealed" => phase = "running",
           UNCHANGED <<phase, reason, accepted, steering, hand, boundary, given, batches>>,
           HostOnly
    PROVE  IInv'
  <1> USE DEF IInv, PlaceInv, Fit
  <1>1. TurnMoves("abort", {})
    BY DEF TurnMoves, GivesUp, HostOnly, settlement, shutdown, InLane
  <1>2. TypeOK'
    <2>1. TurnTypes
      BY DEF TypeOK, TurnTypes
    <2> QED
      BY <1>1, <2>1, TurnMovesTypes DEF TypeOK, Cause, HostOnly, shutdown
  <1>3. DrainFit'
    BY <1>1, TurnMovesDrain DEF HostOnly, shutdown, Cause
  <1>4. TurnFit'
    <2>1. hand = <<>> /\ coord = "host" /\ coord' = coord
      BY DEF TurnFit, HostOnly, settlement
    <2>2. \A d \in Cause : Untouched(d) => Untouched(d)'
      BY DEF Untouched, batches, HostOnly, stores
    <2> QED
      BY <2>1, <2>2 DEF TurnFit, HostOnly, stores
  <1>5. LaneOrder'
    BY DEF LaneOrder
  <1> QED
    BY <1>1, <1>2, <1>3, <1>4, <1>5, TurnMovesKeep DEF Cause

LEMMA PollBeginsKeeps ==
    ASSUME IInv, NEW b \in {"mid-turn", "exit"}, PollBegins(b) PROVE IInv'
  <1> USE DEF IInv, PlaceInv, Fit
  <1>0. /\ host = "working" /\ host' = "polling" /\ hand = <<>> /\ hand' = steering
        /\ steering' = <<>> /\ boundary' = b /\ phase # "aborted"
        /\ UNCHANGED <<phase, reason, accepted, given, batches>>
        /\ UNCHANGED <<settlement, stores, shutdown, faults>>
    BY DEF PollBegins, TurnFit, HostOnly
  <1>1. TurnMoves("abort", {})
    <2>1. InLane' = InLane
      BY <1>0, ToSetEmpty DEF InLane
    <2> QED
      BY <1>0, <2>1 DEF TurnMoves, GivesUp, settlement, shutdown
  <1>2. TypeOK'
    <2>1. TurnTypes
      BY <1>0 DEF TypeOK, TurnTypes
    <2> QED
      BY <1>0, <1>1, <2>1, TurnMovesTypes DEF TypeOK, Cause, shutdown
  <1>3. DrainFit'
    BY <1>0, <1>1, TurnMovesDrain DEF shutdown, Cause
  <1>4. TurnFit'
    <2>1. \A d \in Cause : Untouched(d) => Untouched(d)'
      BY <1>0 DEF Untouched, batches, stores
    <2>2. steering # <<>> => phase = "running" /\ Untouched("restored")
      BY DEF TurnFit, Cause
    <2>3. phase # "sealed" /\ coord = "host"
      BY <1>0 DEF TurnFit
    <2> QED
      BY <1>0, <2>1, <2>2, <2>3 DEF TurnFit, stores, settlement, Cause
  <1>5. LaneOrder'
    BY <1>0, ToSetEmpty, EmptySeq DEF LaneOrder, Ascending
  <1> QED
    BY <1>1, <1>2, <1>3, <1>4, <1>5, TurnMovesKeep DEF Cause

(* What a poll gives back: to the lane, or to the batch of an abort.       *)
LEMMA RestoreKeeps ==
    ASSUME IInv, host = "polling", host' \in {"working", "failing"}, hand' = <<>>,
           NEW msgs \in Seq(Message), Ascending(msgs), ToSet(msgs) \subseteq ToSet(hand),
           Restore(msgs), given' = given \cup (ToSet(hand) \ ToSet(msgs)),
           UNCHANGED <<phase, reason, accepted, boundary>>, HostOnly
    PROVE  IInv'
  <1> USE DEF IInv, PlaceInv, Fit
  <1>0. UNCHANGED <<settlement, stores, shutdown, faults>>
    BY DEF HostOnly
  <1> DEFINE M == IF phase = "aborted" THEN ToSet(msgs) ELSE {}
  <1>1. /\ hand \in Seq(Message) /\ steering \in Seq(Message)
        /\ ToSet(hand) \subseteq Message /\ "restored" \in Cause
        /\ \A m \in ToSet(hand), n \in ToSet(steering) : m < n
        /\ ToSet(hand) \cap ToSet(steering) = {}
    <2>1. hand \in Seq(Message) /\ steering \in Seq(Message)
      BY DEF TypeOK
    <2>2. ToSet(hand) \subseteq Nat
      BY <2>1, ToSetType, Numbers
    <2> QED
      BY <2>1, <2>2, ToSetType DEF LaneOrder, Cause
  <1>2. CASE phase = "aborted"
    <2>1. steering' = steering /\ steering = <<>> /\ Discard("restored", msgs)
      BY <1>2 DEF Restore, TurnFit
    <2>2. hand # <<>> => Untouched("restored")
      BY DEF TurnFit
    <2>3. msgs # <<>> => hand # <<>>
      BY ToSetType, ToSetEmpty
    <2>4. GivesUp("restored", M)
      BY <1>1, <1>2, <2>1, <2>2, <2>3, DiscardGivesUp
    <2>5. TurnMoves("restored", M)
      <3>1. InLane' = {} /\ InLane = ToSet(hand)
        BY <2>1, ToSetEmpty DEF InLane
      <3> QED
        BY <1>0, <1>2, <2>4, <3>1 DEF TurnMoves, settlement, shutdown
    <2>6. TypeOK'
      <3>1. TurnTypes
        BY <1>1, <2>1, EmptySeq DEF TypeOK, TurnTypes
      <3> QED
        BY <1>0, <1>1, <2>5, <3>1, TurnMovesTypes DEF TypeOK, shutdown
    <2>7. DrainFit'
      BY <1>0, <1>1, <2>5, TurnMovesDrain DEF shutdown
    <2>8. TurnFit'
      BY <1>0, <1>2, <2>1 DEF TurnFit, settlement
    <2>9. LaneOrder'
      BY <2>1, ToSetEmpty, EmptySeq DEF LaneOrder, Ascending
    <2> QED
      BY <1>1, <2>5, <2>6, <2>7, <2>8, <2>9, TurnMovesKeep
  <1>3. CASE phase # "aborted"
    <2>1. steering' = msgs \o steering /\ UNCHANGED batches
      BY <1>3 DEF Restore
    <2>2. steering' \in Seq(Message) /\ ToSet(steering') = ToSet(msgs) \cup ToSet(steering)
      BY <1>1, <2>1, ToSetConcat
    <2>3. TurnMoves("abort", {})
      <3>1. InLane' = ToSet(msgs) \cup ToSet(steering)
        BY <2>2, ToSetEmpty DEF InLane
      <3>2. InLane = ToSet(hand) \cup ToSet(steering)
        BY DEF InLane
      <3> QED
        BY <1>0, <1>1, <2>1, <3>1, <3>2 DEF TurnMoves, GivesUp, settlement, shutdown
    <2>4. TypeOK'
      <3>1. TurnTypes
        BY <1>1, <2>2, EmptySeq DEF TypeOK, TurnTypes
      <3> QED
        BY <1>0, <2>3, <3>1, TurnMovesTypes DEF TypeOK, shutdown, Cause
    <2>5. DrainFit'
      BY <1>0, <2>3, TurnMovesDrain DEF shutdown, Cause
    <2>6. TurnFit'
      <3>1. \A d \in Cause : Untouched(d) => Untouched(d)'
        BY <1>0, <2>1 DEF Untouched, batches, stores
      <3>2. phase # "running" => steering' = <<>>
        <4>1. phase # "running" => hand = <<>> /\ steering = <<>>
          BY <1>3 DEF TurnFit
        <4>2. phase # "running" => ToSet(steering') = {}
          BY <2>2, <4>1, ToSetEmpty
        <4> QED
          BY <2>2, <4>2, ToSetType
      <3> QED
        BY <1>0, <3>1, <3>2 DEF TurnFit, settlement, stores
    <2>7. LaneOrder'
      <3>1. msgs \in Seq(Nat) /\ steering \in Seq(Nat)
        BY <1>1, Numbers, SeqMonotonic
      <3>2. Ascending(steering')
        BY <1>1, <2>1, <3>1, AscendingConcat DEF LaneOrder
      <3> QED
        BY <3>2, ToSetEmpty, EmptySeq DEF LaneOrder, Ascending
    <2> QED
      BY <2>3, <2>4, <2>5, <2>6, <2>7, TurnMovesKeep DEF Cause
  <1> QED
    BY <1>2, <1>3

LEMMA PollFailsKeeps == ASSUME IInv, PollFails PROVE IInv'
  <1>1. hand \in Seq(Message) /\ Ascending(hand) /\ given' = given \cup (ToSet(hand) \ ToSet(hand))
    BY DEF IInv, PlaceInv, Fit, TypeOK, LaneOrder, PollFails
  <1> QED
    BY <1>1, RestoreKeeps DEF PollFails

LEMMA PollEndsKeeps == ASSUME IInv, PollEnds PROVE IInv'
  <1>1. hand \in Seq(Message) /\ Ascending(hand) /\ hand \in Seq(Nat) /\ ToSet(hand) \subseteq Message
    <2>1. hand \in Seq(Message) /\ Ascending(hand)
      BY DEF IInv, PlaceInv, Fit, TypeOK, LaneOrder
    <2> QED
      BY <2>1, Numbers, SeqMonotonic, ToSetType
  <1> DEFINE taken == IF boundary = "exit" THEN Machine ELSE Message
             msgs == Only(hand, Message \ taken)
  <1>2. /\ host = "polling" /\ host' = "working" /\ hand' = <<>>
        /\ UNCHANGED <<phase, reason, accepted, boundary>> /\ HostOnly
        /\ \/ given' = given \cup (ToSet(hand) \cap taken) /\ Restore(msgs)
           \/ given' = given /\ Restore(hand)
    BY DEF PollEnds
  <1>3. CASE given' = given /\ Restore(hand)
    <2>1. given' = given \cup (ToSet(hand) \ ToSet(hand))
      BY <1>3
    <2> QED
      BY <1>1, <1>2, <1>3, <2>1, RestoreKeeps
  <1>4. CASE given' = given \cup (ToSet(hand) \cap taken) /\ Restore(msgs)
    <2> HIDE DEF taken
    <2>1. Message \ taken \in SUBSET Nat
      BY Numbers
    <2>2. /\ msgs \in Seq(Message \ taken) /\ ToSet(msgs) = ToSet(hand) \cap (Message \ taken)
          /\ Ascending(msgs)
      BY <1>1, <2>1, OnlyKeeps
    <2> HIDE DEF msgs
    <2>3. msgs \in Seq(Message)
      BY <2>2, SeqMonotonic
    <2>4. ToSet(msgs) \subseteq ToSet(hand) /\ given' = given \cup (ToSet(hand) \ ToSet(msgs))
      BY <1>1, <1>4, <2>2
    <2> QED
      BY <1>1, <1>2, <1>4, <2>2, <2>3, <2>4, RestoreKeeps
  <1> QED
    BY <1>2, <1>3, <1>4

LEMMA CausesFinite == ASSUME NEW S \in SUBSET Cause PROVE IsFiniteSet(S)
  <1>1. IsFiniteSet({"abort"}) /\ IsFiniteSet({"restored"})
        /\ IsFiniteSet({"seal"}) /\ IsFiniteSet({"exit"})
    BY FS_Singleton
  <1>2. IsFiniteSet({"abort"} \cup {"restored"}) /\ IsFiniteSet({"seal"} \cup {"exit"})
    BY <1>1, FS_Union
  <1>3. IsFiniteSet(({"abort"} \cup {"restored"}) \cup ({"seal"} \cup {"exit"}))
    BY <1>2, FS_Union
  <1>4. Cause = ({"abort"} \cup {"restored"}) \cup ({"seal"} \cup {"exit"})
    BY DEF Cause
  <1> QED
    BY <1>3, <1>4, FS_Subset

LEMMA SteerKeeps == ASSUME IInv, NEW m \in Message, Steer(m) PROVE IInv'
  <1> USE DEF IInv, PlaceInv, Fit
  <1>0. /\ phase = "running" /\ \A n \in accepted : n < m
        /\ accepted' = accepted \cup {m} /\ steering' = Append(steering, m)
        /\ UNCHANGED <<phase, reason, hand, boundary, given, host, batches>>
        /\ UNCHANGED <<settlement, stores, shutdown, faults>>
    BY DEF Steer, HostOnly
  <1>1. /\ steering \in Seq(Message) /\ steering' \in Seq(Message) /\ hand \in Seq(Message)
        /\ ToSet(steering') = ToSet(steering) \cup {m} /\ InLane' = InLane \cup {m}
        /\ m \notin accepted /\ Durable' = Durable
    <2>1. steering \in Seq(Message) /\ hand \in Seq(Message) /\ m \in Nat
      BY Numbers DEF TypeOK
    <2>2. m \notin accepted
      BY <1>0, <2>1
    <2> QED
      BY <1>0, <2>1, <2>2, ToSetAppend DEF InLane, Durable, stores
  <1>2. TypeOK'
    BY <1>0, <1>1 DEF TypeOK, batches, settlement, stores, shutdown
  <1>3. \A d \in Cause : /\ (Untouched(d) <=> Untouched(d)') /\ Sending(d)' = Sending(d)
                         /\ left'[d] = left[d] /\ task'[d] = task[d] /\ route'[d] = route[d]
    BY <1>0 DEF Untouched, Sending, batches, stores
  <1>4. TurnFit'
    BY <1>0, <1>3 DEF TurnFit, stores, settlement, Cause
  <1>5. LaneOrder'
    <2>1. steering \in Seq(Nat) /\ m \in Nat /\ ToSet(hand) \subseteq Nat
      BY LanesNumbers, Numbers, ToSetType
    <2>2. \A n \in ToSet(steering) \cup ToSet(hand) : n < m
      BY <1>0 DEF Admitted, InLane
    <2>3. Ascending(steering')
      BY <1>0, <2>1, <2>2, AscendingAppend DEF LaneOrder
    <2> QED
      BY <1>0, <1>1, <2>2, <2>3 DEF LaneOrder
  <1>6. DrainFit'
    BY <1>0 DEF DrainFit, shutdown, batches
  <1>7. Admitted'
    BY <1>0, <1>1, <1>3 DEF Admitted
  <1>8. \A d \in Cause : BatchFit(d)'
    BY <1>0 DEF BatchFit, Untouched, batches, stores
  <1>9. Apart'
    BY <1>0, <1>1, <1>3 DEF Apart, Admitted, stores
  <1>10. Found'
    <2>1. Kept' = Kept /\ Queued' = Queued
      BY <1>0 DEF Kept, Queued, Sending, batches, stores
    <2> QED
      BY <1>0, <1>1, <2>1 DEF Found
  <1>11. Calm'
    BY <1>0 DEF Calm, Released, batches, settlement, stores, shutdown
  <1>12. InOrder'
    BY <1>0, <1>1 DEF InOrder, Falling, Peers, Sending, batches, settlement, stores, shutdown
  <1> QED
    BY <1>2, <1>4, <1>5, <1>6, <1>7, <1>8, <1>9, <1>10, <1>11, <1>12

(* The abort and the shutdown.                                             *)
LEMMA AbortEntryMoves ==
    ASSUME PlaceInv, NEW why \in {"user", "other"}, AbortEntry(why), phase # "aborted",
           UNCHANGED <<accepted, hand, boundary, given, host>>,
           UNCHANGED <<settlement, stores, faults>>,
           UNCHANGED shutdown \/ (process' = "closing" /\ drain' = "waiting")
    PROVE  /\ TurnMoves("abort", ToSet(steering)) /\ TurnTypes /\ LaneOrder' /\ TurnFit'
  <1> USE DEF PlaceInv, Fit
  <1>0. /\ phase' = "aborted" /\ reason' = why /\ steering' = <<>> /\ Discard("abort", steering)
        /\ steering \in Seq(Message) /\ "abort" \in Cause
    BY DEF AbortEntry, TypeOK, Cause
  <1>1. GivesUp("abort", ToSet(steering))
    <2>1. steering # <<>> => Untouched("abort")
      BY <1>0 DEF TurnFit
    <2> QED
      BY <1>0, <2>1, DiscardGivesUp DEF LaneOrder
  <1>2. TurnMoves("abort", ToSet(steering))
    <2>1. InLane' = ToSet(hand) /\ InLane = ToSet(hand) \cup ToSet(steering)
      BY <1>0, ToSetEmpty DEF InLane
    <2>2. ToSet(hand) \cap ToSet(steering) = {}
      <3>1. ToSet(hand) \subseteq Nat
        BY ToSetType, Numbers DEF TypeOK
      <3> QED
        BY <3>1 DEF LaneOrder
    <2> QED
      BY <1>1, <2>1, <2>2 DEF TurnMoves, settlement, shutdown
  <1>3. TurnTypes
    BY <1>0, EmptySeq DEF TypeOK, TurnTypes
  <1>4. LaneOrder'
    BY <1>0, ToSetEmpty, EmptySeq DEF LaneOrder, Ascending
  <1>5. TurnFit'
    <2>1. \A d \in Cause : d # "abort" /\ Untouched(d) => Untouched(d)'
      BY <1>0, <1>1, GivesUpUntouched DEF stores
    <2>2. hand # <<>> => host = "polling" /\ Untouched("restored") /\ "restored" \in Cause
      BY DEF TurnFit, Cause
    <2> QED
      BY <1>0, <2>1, <2>2 DEF TurnFit, settlement
  <1> QED
    BY <1>2, <1>3, <1>4, <1>5

LEMMA AbortKeeps == ASSUME IInv, NEW why \in {"user", "other"}, Abort(why) PROVE IInv'
  <1> USE DEF IInv, PlaceInv, Fit
  <1>0. /\ phase = "running" /\ AbortEntry(why) /\ UNCHANGED <<accepted, hand, boundary, given, host>>
        /\ UNCHANGED <<settlement, stores, faults>> /\ UNCHANGED <<process, drain, todo>>
        /\ "abort" \in Cause
    BY DEF Abort, HostOnly, shutdown, Cause
  <1>1. TurnMoves("abort", ToSet(steering)) /\ TurnTypes /\ LaneOrder' /\ TurnFit'
    BY <1>0, AbortEntryMoves DEF shutdown
  <1>2. TypeOK' /\ DrainFit'
    BY <1>0, <1>1, TurnMovesTypes, TurnMovesDrain DEF TypeOK
  <1> QED
    BY <1>0, <1>1, <1>2, TurnMovesKeep

LEMMA ShutdownKeeps == ASSUME IInv, Shutdown PROVE IInv'
  <1> USE DEF IInv, PlaceInv, Fit
  <1>0. /\ process = "open" /\ process' = "closing" /\ drain' = "waiting" /\ "abort" \in Cause
        /\ todo' = SetToSeq({c \in Cause : task'[c] # "none"})
        /\ UNCHANGED <<accepted, hand, boundary, given, host>>
        /\ UNCHANGED <<settlement, stores, faults>>
    BY DEF Shutdown, Cause
  <1>1. PICK M : TurnMoves("abort", M) /\ TurnTypes /\ LaneOrder' /\ TurnFit'
    <2>1. CASE Registered /\ phase # "aborted"
      <3>1. AbortEntry("other")
        BY <2>1 DEF Shutdown
      <3> QED
        BY <1>0, <2>1, <3>1, AbortEntryMoves
    <2>2. CASE ~(Registered /\ phase # "aborted")
      <3>1. UNCHANGED <<phase, reason, steering, batches>>
        BY <2>2 DEF Shutdown
      <3>2. TurnMoves("abort", {})
        BY <1>0, <3>1 DEF TurnMoves, GivesUp, InLane, settlement
      <3>3. TurnTypes /\ LaneOrder'
        BY <1>0, <3>1 DEF TypeOK, TurnTypes, LaneOrder
      <3>4. TurnFit'
        <4>1. \A d \in Cause : Untouched(d) => Untouched(d)'
          BY <1>0, <3>1 DEF Untouched, batches, stores
        <4> QED
          BY <1>0, <3>1, <4>1 DEF TurnFit, settlement, stores, Cause
      <3> QED
        BY <3>2, <3>3, <3>4
    <2> QED
      BY <2>1, <2>2
  <1>2. todo' \in Seq({c \in Cause : task'[c] # "none"})
    BY <1>0, CausesFinite, SetToSeqIs
  <1>3. todo' \in Seq(Cause) /\ ToSet(todo') \subseteq {c \in Cause : task'[c] # "none"}
    BY <1>2, SeqMonotonic, ToSetType
  <1>4. TypeOK'
    BY <1>0, <1>1, <1>3, TurnMovesTypes
  <1>5. DrainFit'
    <2>1. \A d \in Cause : BatchFit(d)'
      BY <1>0, <1>1, TurnMovesBatchFit
    <2>2. \A d \in Cause : route'[d] = "none" => task'[d] = "none"
      BY <2>1 DEF BatchFit, Untouched
    <2> QED
      BY <1>0, <1>3, <2>2 DEF DrainFit
  <1> QED
    BY <1>0, <1>1, <1>4, <1>5, TurnMovesKeep

(* The host gives away the whole lane: at the exit, or when it failed.     *)
LEMMA HostGivesUp ==
    ASSUME IInv, NEW c \in {"seal", "exit"}, Discard(c, steering), host # "polling",
           host \notin {"over", "unsealed"}, host' = "over" \/ host' = host,
           steering' = <<>>, phase' \in {"closing", "aborted", "sealed"},
           phase' = "sealed" => host' = "over",
           UNCHANGED <<reason, accepted, hand, boundary, given>>, HostOnly
    PROVE  IInv'
  <1> USE DEF IInv, PlaceInv, Fit
  <1>0. /\ UNCHANGED <<settlement, stores, faults, process, drain, todo>> /\ c \in Cause
        /\ steering \in Seq(Message) /\ hand = <<>>
    BY DEF HostOnly, shutdown, Cause, TypeOK, TurnFit
  <1>1. GivesUp(c, ToSet(steering))
    <2>1. steering # <<>> => Untouched(c)
      BY <1>0 DEF TurnFit
    <2> QED
      BY <1>0, <2>1, DiscardGivesUp DEF LaneOrder
  <1>2. TurnMoves(c, ToSet(steering))
    <2>1. InLane' = {} /\ InLane = ToSet(steering)
      BY <1>0, ToSetEmpty DEF InLane
    <2> QED
      BY <1>0, <1>1, <2>1 DEF TurnMoves, settlement, shutdown
  <1>3. TypeOK'
    <2>1. TurnTypes
      BY <1>0, EmptySeq DEF TypeOK, TurnTypes
    <2> QED
      BY <1>0, <1>2, <2>1, TurnMovesTypes DEF TypeOK
  <1>4. DrainFit'
    BY <1>0, <1>2, TurnMovesDrain
  <1>5. TurnFit'
    BY <1>0 DEF TurnFit, settlement
  <1>6. LaneOrder'
    BY <1>0, ToSetEmpty, EmptySeq DEF LaneOrder, Ascending
  <1> QED
    BY <1>0, <1>2, <1>3, <1>4, <1>5, <1>6, TurnMovesKeep

LEMMA TryBeginCloseKeeps == ASSUME IInv, TryBeginClose PROVE IInv'
  BY HostGivesUp DEF TryBeginClose

LEMMA HostFailsKeeps == ASSUME IInv, HostFails PROVE IInv'
  BY HostGivesUp DEF HostFails

----------------------------------------------------------------------------
(* A step that moves no message: a task that goes to the queue, a retry,   *)
(* the settlement, the drain.                                              *)

Errand ==
    /\ UNCHANGED <<phase, reason, accepted, hand, boundary, given, host, left, conversation>>
    /\ steering' = steering \/ (steering' = <<>> /\ coord = "committing")
    /\ pending' \subseteq pending /\ \A c \in pending \ pending' : row'[c] # "none"
    /\ \A c \in Cause : /\ row[c] # "none" => row'[c] # "none"
                        /\ task[c] = "commit" => task'[c] = "commit"
                        /\ route[c] # "none" => route'[c] # "none"
                        /\ Untouched(c) => Untouched(c)'
    /\ coord' # "host" => host \in {"over", "unsealed"}

LEMMA ErrandKeepsPlaces ==
    ASSUME PlaceInv, Errand
    PROVE  TurnFit' /\ LaneOrder' /\ Admitted' /\ Apart' /\ Found'
  <1> USE DEF PlaceInv, Fit
  <1>0. /\ UNCHANGED <<phase, reason, accepted, hand, boundary, given, host, left, conversation>>
        /\ steering' = steering \/ steering' = <<>>
        /\ Durable' = Durable
        /\ \A c \in Cause : Sending(c)' = Sending(c) /\ left'[c] = left[c]
        /\ coord' # "host" => host \in {"over", "unsealed"}
    BY DEF Errand, Durable, Sending
  <1>1. InLane' \subseteq InLane
    BY <1>0, ToSetEmpty DEF InLane
  <1>2. TurnFit'
    <2>1. \A c \in Cause : Untouched(c) => Untouched(c)'
      BY DEF Errand
    <2> QED
      BY <1>0, <2>1 DEF TurnFit, Cause
  <1>3. LaneOrder'
    BY <1>0, ToSetEmpty, EmptySeq DEF LaneOrder, Ascending
  <1>4. Admitted'
    BY <1>0, <1>1 DEF Admitted
  <1>5. Apart'
    <2>1. \A c \in Cause : task'[c] # "commit" => task[c] # "commit"
      BY DEF Errand
    <2> QED
      BY <1>0, <1>1, <2>1 DEF Apart
  <1>6. Found'
    <2>1. host = "over" => InLane' = InLane
      BY <1>0 DEF InLane, TurnFit
    <2>2. InLane' = InLane \/ host = "unsealed"
      BY <1>0, <2>1 DEF InLane, TurnFit, Errand
    <2>3. Kept \cup Queued \subseteq Kept' \cup Queued'
      <3>1. /\ pending \subseteq Cause /\ pending' \subseteq pending
            /\ \A c \in pending \ pending' : row'[c] # "none"
            /\ \A c \in Cause : row[c] # "none" => row'[c] # "none"
        BY DEF TypeOK, Errand
      <3>2. Queued \subseteq Queued'
        BY <1>0, <3>1 DEF Queued
      <3>3. ASSUME NEW c \in pending PROVE Sending(c) \subseteq Kept' \cup Queued'
        <4>1. CASE c \in pending'
          BY <1>0, <3>1, <4>1 DEF Kept
        <4>2. CASE c \notin pending'
          BY <1>0, <3>1, <4>2 DEF Queued
        <4> QED
          BY <4>1, <4>2
      <3> QED
        BY <3>2, <3>3 DEF Kept
    <2> QED
      BY <1>0, <2>2, <2>3 DEF Found
  <1> QED
    BY <1>2, <1>3, <1>4, <1>5, <1>6

(* Nothing begins to commit, and nothing turns to the queue.               *)
SameCommits ==
    /\ Falling' = Falling /\ merged' = merged
    /\ \A c \in Cause : task'[c] = "commit" => task[c] = "commit"

LEMMA ErrandInOrder ==
    ASSUME PlaceInv, InOrder, Errand, coord' = coord \/ coord' # "host",
           faults' = 0 => faults = 0, process' = "open" => process = "open",
           faults' = 0 /\ process' = "open" => SameCommits
    PROVE  InOrder'
  <1> SUFFICES ASSUME faults' = 0, process' = "open", faults = 0, process = "open"
               PROVE  InOrder'
    BY DEF InOrder
  <1>1. /\ left' = left /\ conversation' = conversation /\ Falling' = Falling /\ merged' = merged
        /\ \A c \in Cause : task'[c] = "commit" => task[c] = "commit"
        /\ Durable' = Durable
    BY DEF Errand, SameCommits, Durable
  <1>2. \A c \in Cause : Peers(c)' = Peers(c) /\ Sending(c)' = Sending(c)
    BY <1>1 DEF Peers, Sending
  <1>3. \A c \in Falling : Sending(c)' = Sending(c)
    BY <1>1 DEF Sending
  <1> QED
    BY <1>1, <1>2, <1>3 DEF InOrder

ErrandRest == TypeOK' /\ DrainFit' /\ (\A c \in Cause : BatchFit(c)') /\ Calm' /\ InOrder'

LEMMA ErrandKeeps == ASSUME IInv, Errand, ErrandRest PROVE IInv'
  BY ErrandKeepsPlaces DEF IInv, PlaceInv, Fit, ErrandRest

LEMMA DrainFitKeeps ==
    ASSUME TypeOK, DrainFit, UNCHANGED <<process, drain, todo>>,
           \A c \in Cause : route[c] # "none" => route'[c] # "none"
    PROVE  DrainFit'
  <1>1. ToSet(todo) \subseteq Cause
    BY ToSetType DEF TypeOK
  <1> QED
    BY <1>1 DEF DrainFit

(* The head of what the drain goes through.                                *)
LEMMA HeadOfTodo ==
    ASSUME TypeOK, DrainFit, todo # <<>>
    PROVE  Head(todo) \in Cause /\ route[Head(todo)] # "none"
           /\ Tail(todo) \in Seq(Cause) /\ ToSet(Tail(todo)) \subseteq ToSet(todo)
  <1>1. todo \in Seq(Cause)
    BY DEF TypeOK
  <1>2. Head(todo) \in ToSet(todo) /\ ToSet(todo) \subseteq Cause
        /\ Tail(todo) \in Seq(Cause) /\ ToSet(Tail(todo)) \subseteq ToSet(todo)
    BY <1>1, ToSetTail, ToSetType
  <1> QED
    BY <1>2 DEF DrainFit

(* A task of the queue ends, or goes on with the pause.                    *)
QueueTask(c) ==
    /\ UNCHANGED <<turn, coord, route, lane, shutdown, awaits, left, merged, conversation, woken>>
    /\ task[c] \in {"enqueue", "pause"}
    /\ \A d \in Cause : /\ row[d] # "none" => row'[d] # "none"
                        /\ d # c => row'[d] = row[d]
    /\ row' \in [Cause -> {"none", "queued", "dispatched", "again"}] /\ paused' \in BOOLEAN
    /\ \/ /\ row'[c] # "none" /\ task' = [task EXCEPT ![c] = "pause"]
          /\ UNCHANGED <<pending, faults>>
       \/ /\ row'[c] # "none" /\ task' = [task EXCEPT ![c] = "none"]
          /\ pending' = pending \ {c} /\ UNCHANGED faults
       \/ /\ task' = [task EXCEPT ![c] = "none"] /\ faults' = faults + 1
          /\ UNCHANGED pending

LEMMA QueueTaskKeeps == ASSUME IInv, NEW c \in Cause, QueueTask(c) PROVE IInv'
  <1> USE DEF IInv, PlaceInv, Fit
  <1>0. /\ UNCHANGED <<phase, reason, accepted, steering, hand, boundary, given, host, coord, route,
                       lane, process, drain, todo, awaits, left, merged, conversation, woken>>
        /\ \A d \in Cause : d # c => row'[d] = row[d] /\ task'[d] = task[d]
                                     /\ (d \in pending' <=> d \in pending)
        /\ task[c] \in {"enqueue", "pause"} /\ task'[c] \in {"pause", "none"}
        /\ row[c] # "none" => row'[c] # "none"
        /\ task'[c] = "pause" => row'[c] # "none"
        /\ pending' = pending \/ (pending' = pending \ {c} /\ row'[c] # "none")
        /\ faults' = faults \/ faults' = faults + 1
        /\ faults' = faults => task'[c] = "pause" \/ c \notin pending'
        /\ faults \in Nat /\ pending \subseteq Cause
    BY DEF QueueTask, TypeOK, turn, shutdown
  <1>1. route[c] = "requeue" /\ c \notin merged
    BY <1>0 DEF BatchFit
  <1>2. TypeOK'
    <2>1. task' \in [Cause -> {"none", "commit", "enqueue", "pause"}]
      <3>1. task \in [Cause -> {"none", "commit", "enqueue", "pause"}]
        BY DEF TypeOK
      <3>2. task' = [task EXCEPT ![c] = "pause"] \/ task' = [task EXCEPT ![c] = "none"]
        BY DEF QueueTask
      <3> QED
        BY <3>1, <3>2
    <2>2. row' \in [Cause -> {"none", "queued", "dispatched", "again"}] /\ paused' \in BOOLEAN
      BY DEF QueueTask
    <2> QED
      BY <1>0, <2>1, <2>2 DEF TypeOK
  <1>3. DrainFit'
    BY <1>0, DrainFitKeeps
  <1>4. \A d \in Cause : BatchFit(d)'
    BY <1>0, <1>1 DEF BatchFit, Untouched
  <1>5. Errand
    BY <1>0, <1>1 DEF Errand, Untouched, TurnFit
  <1>6. faults' = 0 => faults = 0 /\ faults' = faults
    BY <1>0
  <1>7. Calm'
    <2> SUFFICES ASSUME faults' = 0, faults = 0, task'[c] = "pause" \/ c \notin pending' PROVE Calm'
      BY <1>0, <1>6 DEF Calm
    <2>1. pending' \subseteq pending
      BY <1>0
    <2>2. \A d \in pending' : task[d] # "none" => task'[d] # "none"
      BY <1>0
    <2> QED
      BY <1>0, <2>1, <2>2 DEF Calm, Released
  <1>8. InOrder'
    <2>1. SameCommits
      BY <1>0, <1>1 DEF SameCommits, Falling
    <2> QED
      BY <1>0, <1>5, <1>6, <2>1, ErrandInOrder
  <1> QED
    BY <1>2, <1>3, <1>4, <1>5, <1>7, <1>8, ErrandKeeps DEF ErrandRest

LEMMA EnqueueKeeps == ASSUME IInv, NEW c \in Cause, Enqueue(c) PROVE IInv'
  <1>1. row \in [Cause -> {"none", "queued", "dispatched", "again"}] /\ paused \in BOOLEAN
    BY DEF IInv, PlaceInv, Fit, TypeOK
  <1>2. QueueTask(c)
    BY <1>1 DEF Enqueue, QueueTask, Persisted, NotPersisted, Fault, RequeueOnly, TaskOnly
  <1> QED
    BY <1>2, QueueTaskKeeps

LEMMA PauseKeeps == ASSUME IInv, NEW c \in Cause, Pause(c) PROVE IInv'
  <1>1. /\ row \in [Cause -> {"none", "queued", "dispatched", "again"}] /\ paused \in BOOLEAN
        /\ task[c] = "pause" => row[c] # "none"
    BY DEF IInv, PlaceInv, Fit, TypeOK, BatchFit
  <1>2. paused' \in BOOLEAN
    BY <1>1 DEF Pause
  <1>3. QueueTask(c)
    BY <1>1, <1>2 DEF Pause, QueueTask, Persisted, NotPersisted, Fault, RequeueOnly, TaskOnly
  <1> QED
    BY <1>3, QueueTaskKeeps

(* The retries.                                                            *)
LEMMA StartsKind ==
    ASSUME TypeOK, NEW c \in Cause, BatchFit(c), route[c] # "none", Starts(c)
    PROVE  /\ task' \in [Cause -> {"none", "commit", "enqueue", "pause"}]
           /\ task'[c] # "none" /\ (task'[c] = task[c] \/ task[c] = "none")
           /\ task'[c] = "commit" => route[c] = "teardown"
           /\ task'[c] \in {"enqueue", "pause"} => route[c] = "requeue"
           /\ task'[c] = "pause" => task[c] = "pause"
           /\ \A d \in Cause : d # c => task'[d] = task[d]
  <1>1. /\ task \in [Cause -> {"none", "commit", "enqueue", "pause"}]
        /\ route[c] \in {"teardown", "requeue"}
    BY DEF TypeOK
  <1> QED
    BY <1>1 DEF Starts, Kind, BatchFit

LEMMA LaneBeginsKeeps == ASSUME IInv, NEW c \in Cause, LaneBegins(c) PROVE IInv'
  <1> USE DEF IInv, PlaceInv, Fit
  <1>0. /\ UNCHANGED <<phase, reason, accepted, steering, hand, boundary, given, host, coord, awaits,
                       pending, left, merged, conversation, row, paused, woken,
                       process, drain, todo, faults, route>>
        /\ Released /\ lane[c] = "waiting" /\ coord \in {"host", "committing", "released", "stuck"}
        /\ lane' = [lane EXCEPT ![c] = "second"] /\ pending \subseteq Cause
        /\ lane \in [Cause -> {"none", "waiting", "second", "last", "over"}]
    BY DEF LaneBegins, LaneOnly, turn, settlement, stores, shutdown, TypeOK
  <1>1. BatchFit(c) /\ route[c] # "none"
    BY <1>0 DEF BatchFit, Untouched
  <1>2. /\ task' \in [Cause -> {"none", "commit", "enqueue", "pause"}]
        /\ c \in pending => task'[c] # "none"
        /\ c \notin pending => task' = task
        /\ task'[c] = task[c] \/ task[c] = "none"
        /\ task'[c] = "commit" => route[c] = "teardown"
        /\ task'[c] \in {"enqueue", "pause"} => route[c] = "requeue"
        /\ task'[c] = "pause" => task[c] = "pause"
        /\ \A d \in Cause : d # c => task'[d] = task[d]
    <2>1. CASE c \in pending
      <3>1. Starts(c)
        BY <2>1 DEF LaneBegins
      <3> QED
        BY <1>1, <2>1, <3>1, StartsKind
    <2>2. CASE c \notin pending
      BY <1>1, <2>2 DEF LaneBegins, TypeOK, BatchFit
    <2> QED
      BY <2>1, <2>2
  <1>3. /\ lane' \in [Cause -> {"none", "waiting", "second", "last", "over"}]
        /\ lane'[c] = "second" /\ \A d \in Cause : d # c => lane'[d] = lane[d]
    BY <1>0
  <1>4. TypeOK'
    BY <1>0, <1>2, <1>3 DEF TypeOK
  <1>5. DrainFit'
    BY <1>0, DrainFitKeeps
  <1>6. \A d \in Cause : BatchFit(d)'
    BY <1>0, <1>1, <1>2, <1>3 DEF BatchFit, Untouched
  <1>7. Errand
    BY <1>0, <1>1, <1>2, <1>3 DEF Errand, Untouched, TurnFit
  <1>8. Calm'
    <2> SUFFICES ASSUME faults = 0 PROVE Calm'
      BY <1>0 DEF Calm
    <2>1. \A d \in Cause : task[d] # "none" => task'[d] # "none"
      BY <1>2
    <2>2. Head(todo) \in pending => Head(todo) \in Cause
      BY <1>0
    <2>3. \A d \in pending : lane'[d] \in {"second", "last", "over"} => task'[d] # "none"
      BY <1>0, <1>2, <1>3 DEF Calm
    <2> QED
      BY <1>0, <2>1, <2>2, <2>3 DEF Calm, Released
  <1>9. InOrder'
    <2> SUFFICES ASSUME faults = 0, process = "open" PROVE InOrder'
      BY <1>0 DEF InOrder
    <2>1. CASE task'[c] = "commit" => task[c] = "commit"
      <3>1. SameCommits
        BY <1>0, <1>2, <2>1 DEF SameCommits, Falling
      <3> QED
        BY <1>0, <1>7, <3>1, ErrandInOrder
    <2>2. CASE task'[c] = "commit" /\ task[c] # "commit"
      <3>1. c \in pending /\ route[c] = "teardown" /\ c # "exit"
        BY <1>1, <1>2, <2>2 DEF BatchFit
      <3>2. host = "unsealed"
        BY <1>0, <3>1 DEF TurnFit, Calm, Released
      <3>3. \A d \in Cause : Untouched(d) \/ d = "abort"
        BY <3>2 DEF TurnFit
      <3>4. c = "abort" /\ Falling = {c}
        BY <1>0, <3>1, <3>3 DEF Untouched, Falling
      <3>5. merged = {}
        BY <2>2, <3>3, <3>4 DEF Untouched, TypeOK, BatchFit
      <3>6. \A d \in Cause : task'[d] = "commit" => d = c
        BY <1>2, <3>3, <3>4 DEF Untouched
      <3>7. Falling' = Falling /\ \A d \in Cause : Peers(d)' = {d} /\ Sending(d)' = Sending(d)
        BY <1>0, <3>5 DEF Falling, Peers, Sending
      <3>8. \A d \in Cause : task'[d] = "commit" => Falling' = Peers(d)'
        BY <3>4, <3>6, <3>7
      <3>9. Durable' = Durable /\ coord' # "host"
        BY <1>0 DEF Durable, Released
      <3>10. Falling \subseteq Cause
        BY <1>0 DEF Falling
      <3>11. \A d \in Falling' : \A x \in Durable', y \in Sending(d)' \ Durable' : x < y
        BY <3>7, <3>9, <3>10 DEF InOrder
      <3>12. Ascending(conversation)'
        BY <1>0 DEF InOrder
      <3> QED
        BY <3>8, <3>9, <3>11, <3>12 DEF InOrder
    <2> QED
      BY <2>1, <2>2
  <1> QED
    BY <1>4, <1>5, <1>6, <1>7, <1>8, <1>9, ErrandKeeps DEF ErrandRest

LEMMA LaneGoesOnKeeps == ASSUME IInv, NEW c \in Cause, LaneGoesOn(c) PROVE IInv'
  <1> USE DEF IInv, PlaceInv, Fit
  <1>0. /\ UNCHANGED <<phase, reason, accepted, steering, hand, boundary, given, host, coord, awaits,
                       pending, left, merged, conversation, row, paused, woken,
                       process, drain, todo, faults>>
        /\ Released /\ lane[c] \in {"second", "last"} /\ task[c] = "none"
        /\ lane' = [lane EXCEPT ![c] = IF lane[c] = "second" THEN "last" ELSE "over"]
        /\ lane \in [Cause -> {"none", "waiting", "second", "last", "over"}]
        /\ route \in [Cause -> {"none", "teardown", "requeue"}]
        /\ task \in [Cause -> {"none", "commit", "enqueue", "pause"}]
        /\ pending \subseteq Cause /\ coord \in {"host", "committing", "released", "stuck"}
    BY DEF LaneGoesOn, LaneOnly, turn, settlement, stores, shutdown, TypeOK
  <1>1. BatchFit(c) /\ route[c] # "none"
    BY <1>0 DEF BatchFit, Untouched
  <1>2. /\ lane' \in [Cause -> {"none", "waiting", "second", "last", "over"}]
        /\ lane'[c] \in {"last", "over"} /\ \A d \in Cause : d # c => lane'[d] = lane[d]
    BY <1>0
  <1>3. /\ task' \in [Cause -> {"none", "commit", "enqueue", "pause"}]
        /\ route' \in [Cause -> {"none", "teardown", "requeue"}]
        /\ \A d \in Cause : d # c => task'[d] = task[d] /\ route'[d] = route[d]
        /\ c \notin pending => task' = task /\ route' = route
        /\ route'[c] = route[c] \/ route'[c] = "requeue"
        /\ task'[c] \in {"none", "commit", "enqueue"}
        /\ task'[c] = "commit" => route'[c] = "teardown"
        /\ task'[c] = "enqueue" => route'[c] = "requeue"
    <2>1. CASE c \notin pending
      BY <1>0, <2>1 DEF LaneGoesOn
    <2>2. CASE c \in pending
      <3>1. /\ route' = [route EXCEPT ![c] = IF lane[c] = "last" THEN "requeue" ELSE @]
            /\ task' = [task EXCEPT ![c] = IF route'[c] = "teardown" THEN "commit" ELSE "enqueue"]
        BY <2>2 DEF LaneGoesOn
      <3>2. /\ route' \in [Cause -> {"none", "teardown", "requeue"}]
            /\ route'[c] = route[c] \/ route'[c] = "requeue"
            /\ \A d \in Cause : d # c => route'[d] = route[d]
        BY <1>0, <3>1
      <3>3. route'[c] \in {"teardown", "requeue"}
        BY <1>0, <1>1, <3>2
      <3>4. /\ task' \in [Cause -> {"none", "commit", "enqueue", "pause"}]
            /\ task'[c] = (IF route'[c] = "teardown" THEN "commit" ELSE "enqueue")
            /\ \A d \in Cause : d # c => task'[d] = task[d]
        BY <1>0, <3>1
      <3> QED
        BY <2>2, <3>2, <3>3, <3>4
    <2> QED
      BY <2>1, <2>2
  <1>4. TypeOK'
    BY <1>0, <1>2, <1>3 DEF TypeOK
  <1>5. DrainFit'
    BY <1>0, <1>1, <1>3, DrainFitKeeps
  <1>6. \A d \in Cause : BatchFit(d)'
    BY <1>0, <1>1, <1>2, <1>3 DEF BatchFit, Untouched
  <1>7. Errand
    BY <1>0, <1>1, <1>2, <1>3 DEF Errand, Untouched, TurnFit
  <1>8. faults = 0 => c \notin pending
    BY <1>0 DEF Calm
  <1>9. Calm'
    <2> SUFFICES ASSUME faults = 0 PROVE Calm'
      BY <1>0 DEF Calm
    <2>1. task' = task /\ route' = route /\ \A d \in pending : lane'[d] = lane[d]
      BY <1>0, <1>2, <1>3, <1>8
    <2> QED
      BY <1>0, <2>1 DEF Calm, Released
  <1>10. InOrder'
    <2>1. faults = 0 => SameCommits
      BY <1>0, <1>3, <1>8 DEF SameCommits, Falling
    <2> QED
      BY <1>0, <1>7, <2>1, ErrandInOrder
  <1> QED
    BY <1>4, <1>5, <1>6, <1>7, <1>9, <1>10, ErrandKeeps DEF ErrandRest

(* The dispatcher takes a row; a release is published.                     *)
LEMMA RowsKeep ==
    ASSUME IInv, UNCHANGED <<turn, settlement, batches, conversation, paused, shutdown, faults>>,
           row' \in [Cause -> {"none", "queued", "dispatched", "again"}], woken' \in BOOLEAN,
           \A c \in Cause : row'[c] = "none" <=> row[c] = "none"
    PROVE  IInv'
  <1> USE DEF IInv, PlaceInv, Fit
  <1>0. UNCHANGED <<phase, reason, accepted, steering, hand, boundary, given, host, coord, awaits,
                    pending, left, route, task, merged, lane, conversation, paused,
                    process, drain, todo, faults>>
    BY DEF turn, settlement, batches, shutdown
  <1>1. TypeOK'
    BY <1>0 DEF TypeOK
  <1>2. DrainFit' /\ \A d \in Cause : BatchFit(d)'
    BY <1>0 DEF DrainFit, BatchFit, Untouched
  <1>3. Errand
    BY <1>0 DEF Errand, Untouched, TurnFit
  <1>4. Calm'
    BY <1>0 DEF Calm, Released
  <1>5. SameCommits
    BY <1>0 DEF SameCommits, Falling
  <1>6. InOrder'
    BY <1>0, <1>3, <1>5, ErrandInOrder
  <1> QED
    BY <1>1, <1>2, <1>3, <1>4, <1>6, ErrandKeeps DEF ErrandRest

LEMMA DispatchKeeps == ASSUME IInv, NEW c \in Cause, Dispatch(c) PROVE IInv'
  <1>1. row \in [Cause -> {"none", "queued", "dispatched", "again"}] /\ woken \in BOOLEAN
    BY DEF IInv, PlaceInv, Fit, TypeOK
  <1>2. /\ row' = [row EXCEPT ![c] = "dispatched"] /\ row[c] = "queued" /\ woken' = woken
        /\ UNCHANGED <<turn, settlement, batches, conversation, paused, shutdown, faults>>
    BY DEF Dispatch
  <1>3. row' \in [Cause -> {"none", "queued", "dispatched", "again"}]
        /\ \A d \in Cause : row'[d] = "none" <=> row[d] = "none"
    BY <1>1, <1>2
  <1> QED
    BY <1>1, <1>2, <1>3, RowsKeep

LEMMA WakeKeeps == ASSUME IInv, Wake PROVE IInv'
  <1>1. row \in [Cause -> {"none", "queued", "dispatched", "again"}]
    BY DEF IInv, PlaceInv, Fit, TypeOK
  <1> QED
    BY <1>1, RowsKeep DEF Wake

----------------------------------------------------------------------------
(* The coordinator.                                                        *)

LEMMA CommitBeforeReleaseKeeps == ASSUME IInv, CommitBeforeRelease PROVE IInv'
  <1> USE DEF IInv, PlaceInv, Fit
  <1> DEFINE due == {c \in pending : route[c] = "teardown"}
             ready == {c \in due : task[c] = "none"}
  <1>0. /\ UNCHANGED <<phase, reason, accepted, steering, hand, boundary, given, host, pending, left,
                       route, lane, conversation, row, paused, woken, process, drain, todo, faults>>
        /\ host \in {"over", "unsealed"} /\ coord = "host" /\ coord' = "committing"
        /\ awaits' = due /\ merged' = ready
        /\ task' = [c \in Cause |-> IF c \in ready THEN "commit" ELSE task[c]]
        /\ task \in [Cause -> {"none", "commit", "enqueue", "pause"}] /\ pending \subseteq Cause
    BY DEF CommitBeforeRelease, CoordOnly, stores, shutdown, TypeOK
  <1>1. /\ task' \in [Cause -> {"none", "commit", "enqueue", "pause"}]
        /\ \A c \in Cause : task'[c] = IF c \in ready THEN "commit" ELSE task[c]
        /\ ready \subseteq Cause /\ due \subseteq Cause
    BY <1>0
  <1>2. \A c \in ready : c \in pending /\ route[c] = "teardown" /\ task[c] = "none"
    OBVIOUS
  <1>3. TypeOK'
    BY <1>0, <1>1 DEF TypeOK
  <1>4. DrainFit'
    BY <1>0 DEF DrainFit
  <1> HIDE DEF ready
  <1>5. \A d \in Cause : BatchFit(d)'
    BY <1>0, <1>1, <1>2 DEF BatchFit, Untouched
  <1>6. Errand
    BY <1>0, <1>1, <1>2 DEF Errand, Untouched, TurnFit
  <1>7. \A c \in Cause : task[c] # "none" => task'[c] # "none"
    BY <1>1
  <1>8. Calm'
    <2> SUFFICES ASSUME faults = 0 PROVE Calm'
      BY <1>0 DEF Calm
    <2>1. \A c \in pending : c # "exit" => c \in awaits'
      BY <1>0 DEF Calm
    <2> QED
      BY <1>0, <1>7, <2>1 DEF Calm, Released
  <1>9. InOrder'
    <2> SUFFICES ASSUME faults = 0, process = "open" PROVE InOrder'
      BY <1>0 DEF InOrder
    <2>1. conversation = <<>> /\ \A c \in Cause : task[c] # "commit"
      BY <1>0 DEF InOrder
    <2>2. Durable' = {} /\ Ascending(conversation)'
      BY <1>0, <2>1, ToSetEmpty, EmptySeq DEF Durable, Ascending
    <2>3. \A c \in due : task[c] = "none"
      BY <1>0, <2>1 DEF BatchFit
    <2>4. ready = Falling /\ Falling' = Falling
      BY <1>0, <2>3 DEF Falling, ready
    <2>5. ASSUME NEW c \in Cause, task'[c] = "commit" PROVE Falling' = Peers(c)'
      <3>1. c \in ready
        BY <1>1, <2>1, <2>5
      <3> QED
        BY <1>0, <2>4, <3>1 DEF Peers
    <2> QED
      BY <1>0, <2>2, <2>5 DEF InOrder
  <1> QED
    BY <1>3, <1>4, <1>5, <1>6, <1>8, <1>9, ErrandKeeps DEF ErrandRest

LEMMA SettleKeeps == ASSUME IInv, Settle PROVE IInv'
  <1> USE DEF IInv, PlaceInv, Fit
  <1>0. /\ UNCHANGED <<phase, reason, accepted, hand, boundary, given, host, pending, left, route,
                       lane, conversation, row, paused, woken, process, drain, todo, merged, task>>
        /\ coord = "committing" /\ coord' \in {"released", "stuck"} /\ awaits' = {}
        /\ steering' = steering \/ steering' = <<>>
        /\ faults' = faults \/ faults' = faults + 1
        /\ coord' = "released" /\ faults' = faults => awaits = {}
        /\ faults \in Nat
    BY DEF Settle, CoordOnly, stores, shutdown, Fault, TypeOK
  <1>1. TypeOK'
    <2>1. steering' \in Seq(Message)
      BY <1>0, EmptySeq DEF TypeOK
    <2>2. faults' \in Nat
      BY <1>0
    <2> QED
      BY <1>0, <2>1, <2>2 DEF TypeOK
  <1>2. DrainFit' /\ \A d \in Cause : BatchFit(d)'
    BY <1>0 DEF DrainFit, BatchFit, Untouched
  <1>3. Errand
    BY <1>0 DEF Errand, Untouched, TurnFit
  <1>4. faults' = 0 => faults = 0 /\ faults' = faults
    BY <1>0
  <1>5. Calm'
    <2> SUFFICES ASSUME faults' = 0, faults = 0, faults' = faults PROVE Calm'
      BY <1>4 DEF Calm
    <2>1. coord' = "released" /\ host = "over" => \A c \in pending : c = "exit"
      BY <1>0 DEF Calm
    <2> QED
      BY <1>0, <2>1 DEF Calm, Released
  <1>6. SameCommits
    BY <1>0 DEF SameCommits, Falling
  <1>7. InOrder'
    BY <1>0, <1>3, <1>4, <1>6, ErrandInOrder
  <1> QED
    BY <1>1, <1>2, <1>3, <1>5, <1>7, ErrandKeeps DEF ErrandRest

----------------------------------------------------------------------------
(* The drain: only while the process is closing.                           *)

DrainMoves ==
    /\ UNCHANGED <<turn, settlement, pending, left, merged, lane, stores, faults>>
    /\ process # "open" /\ process' # "open" /\ process' \in {"open", "closing", "down"}
    /\ drain' \in {"idle", "waiting", "starting", "trying", "ending", "done"}
    /\ todo' \in Seq(Cause) /\ \A c \in ToSet(todo') : route'[c] # "none"
    /\ drain' = "trying" => todo' # <<>>

LEMMA DrainMovesKeep ==
    ASSUME IInv, DrainMoves, UNCHANGED <<route, task>>,
           drain' # "trying" \/ UNCHANGED <<drain, todo>>
    PROVE  IInv'
  <1> USE DEF IInv, PlaceInv, Fit
  <1>0. /\ UNCHANGED <<phase, reason, accepted, steering, hand, boundary, given, host, coord, awaits,
                       pending, left, route, task, merged, lane, conversation, row, paused, woken,
                       faults>>
        /\ process' # "open" /\ process' \in {"open", "closing", "down"}
        /\ drain' \in {"idle", "waiting", "starting", "trying", "ending", "done"}
        /\ todo' \in Seq(Cause) /\ \A c \in ToSet(todo') : route'[c] # "none"
        /\ drain' = "trying" => todo' # <<>>
    BY DEF DrainMoves, turn, settlement, stores
  <1>1. TypeOK'
    BY <1>0 DEF TypeOK
  <1>2. DrainFit' /\ \A d \in Cause : BatchFit(d)'
    BY <1>0 DEF DrainFit, BatchFit, Untouched
  <1>3. Errand
    BY <1>0 DEF Errand, Untouched, TurnFit
  <1>4. Calm'
    BY <1>0 DEF Calm, Released
  <1>5. InOrder'
    BY <1>0 DEF InOrder
  <1> QED
    BY <1>1, <1>2, <1>3, <1>4, <1>5, ErrandKeeps DEF ErrandRest

(* Whoever has a task has a route.                                         *)
LEMMA TasksRouted == ASSUME PlaceInv PROVE \A c \in InFlight \cup pending : route[c] # "none"
  BY DEF PlaceInv, Fit, InFlight, BatchFit, Untouched, TypeOK

LEMMA DrainWaitsKeeps == ASSUME IInv, DrainWaits PROVE IInv'
  <1>1. pending \subseteq Cause /\ process # "open" /\ process \in {"open", "closing", "down"}
    BY DEF IInv, PlaceInv, Fit, TypeOK, DrainFit, DrainWaits
  <1>2. todo' \in Seq(pending)
    BY <1>1, CausesFinite, OrdersAre DEF DrainWaits
  <1>3. todo' \in Seq(Cause) /\ ToSet(todo') \subseteq pending
    BY <1>1, <1>2, SeqMonotonic, ToSetType
  <1>4. DrainMoves
    BY <1>1, <1>3, TasksRouted DEF IInv, DrainWaits, DrainOnly, DrainMoves
  <1> QED
    BY <1>4, DrainMovesKeep DEF DrainWaits

LEMMA DrainEndsKeeps == ASSUME IInv, DrainEnds PROVE IInv'
  <1>1. process # "open" /\ process \in {"open", "closing", "down"} /\ InFlight \subseteq Cause
    BY DEF IInv, PlaceInv, Fit, TypeOK, DrainFit, DrainEnds, InFlight
  <1>2. SetToSeq(InFlight) \in Seq(Cause) /\ ToSet(SetToSeq(InFlight)) \subseteq InFlight
    BY <1>1, CausesFinite, SetToSeqIs, SeqMonotonic, ToSetType
  <1>3. todo' \in Seq(Cause) /\ ToSet(todo') \subseteq InFlight
    BY <1>2, ToSetEmpty, EmptySeq DEF DrainEnds
  <1>4. DrainMoves
    BY <1>1, <1>3, TasksRouted DEF IInv, DrainEnds, DrainOnly, DrainMoves
  <1> QED
    BY <1>4, DrainMovesKeep DEF DrainEnds

LEMMA GoDownKeeps == ASSUME IInv, GoDown PROVE IInv'
  <1>1. DrainMoves
    BY DEF IInv, PlaceInv, Fit, TypeOK, DrainFit, GoDown, DrainMoves, batches
  <1> QED
    BY <1>1, DrainMovesKeep DEF GoDown, batches

LEMMA DrainStartsKeeps == ASSUME IInv, DrainStarts PROVE IInv'
  <1> USE DEF IInv, PlaceInv, Fit
  <1> DEFINE c == Head(todo)
  <1>0. /\ UNCHANGED <<phase, reason, accepted, steering, hand, boundary, given, host, coord, awaits,
                       pending, left, route, merged, lane, conversation, row, paused, woken,
                       process, faults, todo>>
        /\ drain = "starting" /\ drain' = "trying" /\ todo # <<>> /\ Starts(c)
    BY DEF DrainStarts, DrainOnly, turn, settlement, stores
  <1>1. c \in Cause /\ route[c] # "none" /\ BatchFit(c) /\ process # "open"
    BY <1>0, HeadOfTodo DEF DrainFit
  <1> HIDE DEF c
  <1>2. /\ task' \in [Cause -> {"none", "commit", "enqueue", "pause"}]
        /\ task'[c] # "none" /\ (task'[c] = task[c] \/ task[c] = "none")
        /\ task'[c] = "commit" => route[c] = "teardown"
        /\ task'[c] \in {"enqueue", "pause"} => route[c] = "requeue"
        /\ task'[c] = "pause" => task[c] = "pause"
        /\ \A d \in Cause : d # c => task'[d] = task[d]
    BY <1>0, <1>1, StartsKind
  <1>3. TypeOK'
    BY <1>0, <1>2 DEF TypeOK
  <1>4. DrainFit'
    BY <1>0, <1>1 DEF DrainFit
  <1>5. \A d \in Cause : BatchFit(d)'
    BY <1>0, <1>1, <1>2 DEF BatchFit, Untouched
  <1>6. Errand
    BY <1>0, <1>1, <1>2 DEF Errand, Untouched, TurnFit
  <1>7. Calm'
    <2>1. \A d \in Cause : task[d] # "none" => task'[d] # "none"
      BY <1>2
    <2>2. pending \subseteq Cause /\ Head(todo) = c
      BY DEF TypeOK, c
    <2> QED
      BY <1>0, <1>2, <2>1, <2>2 DEF Calm, Released
  <1>8. InOrder'
    BY <1>0, <1>1 DEF InOrder
  <1> QED
    BY <1>3, <1>4, <1>5, <1>6, <1>7, <1>8, ErrandKeeps DEF ErrandRest

LEMMA DrainTriesKeeps == ASSUME IInv, DrainTries PROVE IInv'
  <1> USE DEF IInv, PlaceInv, Fit
  <1> DEFINE c == Head(todo)
  <1>0. /\ UNCHANGED <<phase, reason, accepted, steering, hand, boundary, given, host, coord, awaits,
                       pending, left, merged, lane, conversation, row, paused, woken,
                       process, faults>>
        /\ drain = "trying" /\ task[c] = "none"
        /\ task \in [Cause -> {"none", "commit", "enqueue", "pause"}]
        /\ route \in [Cause -> {"none", "teardown", "requeue"}]
    BY DEF DrainTries, DrainOnly, turn, settlement, stores, TypeOK
  <1>1. /\ c \in Cause /\ route[c] # "none" /\ BatchFit(c) /\ process # "open" /\ todo # <<>>
        /\ Tail(todo) \in Seq(Cause) /\ ToSet(Tail(todo)) \subseteq ToSet(todo)
    BY <1>0, HeadOfTodo DEF DrainFit
  <1>2. CASE route[c] = "teardown" /\ c \in pending
    <2>1. /\ route' = [route EXCEPT ![c] = "requeue"] /\ task' = [task EXCEPT ![c] = "enqueue"]
          /\ UNCHANGED <<todo, drain>>
      BY <1>2 DEF DrainTries
    <2>2. c = Head(todo)
      OBVIOUS
    <2> HIDE DEF c
    <2>3. /\ route' \in [Cause -> {"none", "teardown", "requeue"}]
          /\ task' \in [Cause -> {"none", "commit", "enqueue", "pause"}]
          /\ route'[c] = "requeue" /\ task'[c] = "enqueue"
          /\ \A d \in Cause : d # c => task'[d] = task[d] /\ route'[d] = route[d]
      BY <1>0, <1>1, <2>1
    <2>4. TypeOK'
      BY <1>0, <2>1, <2>3 DEF TypeOK
    <2>5. DrainFit'
      BY <1>0, <1>1, <2>1, <2>3, DrainFitKeeps
    <2>6. \A d \in Cause : BatchFit(d)'
      BY <1>0, <1>1, <2>3 DEF BatchFit, Untouched
    <2>7. Errand
      BY <1>0, <1>1, <2>3 DEF Errand, Untouched, TurnFit
    <2>8. faults # 0
      BY <1>0, <1>2, <2>2 DEF Calm
    <2>9. Calm' /\ InOrder'
      BY <1>0, <2>8 DEF Calm, InOrder
    <2> QED
      BY <2>4, <2>5, <2>6, <2>7, <2>9, ErrandKeeps DEF ErrandRest
  <1>3. CASE ~(route[c] = "teardown" /\ c \in pending)
    <2>1. todo' = Tail(todo) /\ drain' = "starting" /\ UNCHANGED <<route, task>>
      BY <1>3 DEF DrainTries
    <2>2. process \in {"open", "closing", "down"} /\ \A d \in ToSet(todo) : route[d] # "none"
      BY DEF TypeOK, DrainFit
    <2> HIDE DEF c
    <2>3. DrainMoves
      BY <1>0, <1>1, <2>1, <2>2 DEF DrainTries, DrainOnly, DrainMoves
    <2> QED
      BY <2>1, <2>3, DrainMovesKeep
  <1> QED
    BY <1>2, <1>3

----------------------------------------------------------------------------
(* The commits.                                                            *)

(* Who commits together has a commit each.                                 *)
LEMMA PeersCommit ==
    ASSUME PlaceInv, NEW c \in Cause, task[c] = "commit"
    PROVE  /\ c \in Peers(c) /\ Peers(c) \subseteq Cause
           /\ \A d \in Peers(c) : task[d] = "commit" /\ route[d] = "teardown" /\ row[d] = "none"
           /\ phase # "running"
  <1>1. merged \subseteq Cause /\ \A d \in Cause : BatchFit(d)
    BY DEF PlaceInv, Fit, TypeOK
  <1>2. c \in Peers(c) /\ Peers(c) \subseteq Cause
    BY <1>1 DEF Peers
  <1>3. \A d \in Peers(c) : task[d] = "commit" /\ route[d] = "teardown" /\ row[d] = "none"
    BY <1>1 DEF Peers, BatchFit
  <1>4. phase # "running"
    BY DEF PlaceInv, Fit, TurnFit, Untouched
  <1> QED
    BY <1>2, <1>3, <1>4

(* The next message of a commit is the first of those that are left.       *)
LEMMA NextIsLeast ==
    ASSUME PlaceInv, NEW c \in Cause, task[c] = "commit", Rest(c) # {}
    PROVE  /\ NextOf(c) \in Rest(c) /\ Rest(c) \subseteq User
           /\ \A n \in Rest(c) : NextOf(c) <= n
  <1>1. Peers(c) \subseteq Cause /\ \A d \in Cause : Sending(d) \subseteq User
    BY PeersCommit, LanesNumbers DEF PlaceInv, Fit
  <1>2. Rest(c) \subseteq User /\ Rest(c) \in SUBSET Nat
    BY <1>1, Numbers DEF Rest
  <1>3. CASE c \in merged
    BY <1>2, <1>3, LeastNumber DEF NextOf
  <1>4. CASE c \notin merged
    <2>1. Rest(c) \subseteq Sending(c)
      BY <1>4 DEF Rest, Peers
    <2>2. left[c] \in Seq(Nat) /\ Ascending(left[c]) /\ ToSet(left[c]) = Sending(c)
      BY LanesNumbers DEF PlaceInv, Fit, Admitted, Sending
    <2> DEFINE s == Only(left[c], Rest(c))
    <2>3. s \in Seq(Rest(c)) /\ ToSet(s) = Rest(c) /\ Ascending(s)
      <3>1. s \in Seq(Rest(c)) /\ ToSet(s) = ToSet(left[c]) \cap Rest(c) /\ Ascending(s)
        BY <1>2, <2>2, OnlyKeeps
      <3>2. ToSet(left[c]) \cap Rest(c) = Rest(c)
        BY <2>1, <2>2
      <3> QED
        BY <3>1, <3>2
    <2>4. NextOf(c) = s[1]
      BY <1>4 DEF NextOf
    <2> HIDE DEF s
    <2>5. s \in Seq(Nat) /\ s # <<>>
      BY <1>2, <2>3, SeqMonotonic, ToSetEmpty
    <2>6. s[1] \in ToSet(s) /\ \A n \in ToSet(s) : s[1] <= n
      BY <2>3, <2>5, AscendingFirst
    <2> QED
      BY <1>2, <2>3, <2>4, <2>6
  <1> QED
    BY <1>3, <1>4

LEMMA CommitOneKeeps == ASSUME IInv, NEW c \in Cause, CommitOne(c) PROVE IInv'
  <1> USE DEF IInv, PlaceInv, Fit
  <1> DEFINE x == NextOf(c)
  <1>0. /\ UNCHANGED <<phase, reason, accepted, steering, hand, boundary, given, host, coord, awaits,
                       pending, left, route, task, merged, lane, row, paused, woken,
                       process, drain, todo, faults>>
        /\ task[c] = "commit" /\ Rest(c) # {} /\ conversation' = Append(conversation, x)
        /\ conversation \in Seq(User)
    BY DEF CommitOne, TaskOnly, turn, shutdown, TypeOK
  <1>1. x \in Rest(c) /\ Rest(c) \subseteq User /\ \A n \in Rest(c) : x <= n
    BY <1>0, NextIsLeast
  <1>2. /\ c \in Peers(c) /\ Peers(c) \subseteq Cause /\ phase # "running"
        /\ \A d \in Peers(c) : task[d] = "commit" /\ route[d] = "teardown" /\ row[d] = "none"
    BY <1>0, PeersCommit
  <1> HIDE DEF x
  <1>3. conversation' \in Seq(User) /\ Durable' = Durable \cup {x} /\ x \in User
    BY <1>0, <1>1, ToSetAppend DEF Durable
  <1>4. PICK d \in Peers(c) : x \in Sending(d) /\ x \notin Durable
    BY <1>1 DEF Rest, Durable
  <1>5. \A e \in Cause : /\ Sending(e)' = Sending(e) /\ left'[e] = left[e] /\ task'[e] = task[e]
                         /\ Untouched(e) <=> Untouched(e)'
    BY <1>0 DEF Sending, Untouched
  <1>6. TypeOK'
    BY <1>0, <1>3 DEF TypeOK
  <1>7. TurnFit' /\ LaneOrder' /\ DrainFit'
    BY <1>0, <1>2, <1>5 DEF TurnFit, LaneOrder, DrainFit, Cause
  <1>8. \A e \in Cause : BatchFit(e)'
    BY <1>0, <1>5 DEF BatchFit
  <1>9. InLane' = InLane /\ d \in Cause /\ task[d] = "commit"
    BY <1>0, <1>2, <1>4 DEF InLane
  <1>10. Admitted'
    BY <1>0, <1>3, <1>4, <1>5, <1>9 DEF Admitted
  <1>11. Apart'
    <2>1. /\ InLane' \cap (given' \cup Durable') = {} /\ given' \cap Durable' = {}
          /\ \A e \in Cause : Sending(e)' \cap (InLane' \cup given') = {}
          /\ \A e, f \in Cause : e # f => Sending(e)' \cap Sending(f)' = {}
      BY <1>0, <1>3, <1>4, <1>5, <1>9 DEF Apart
    <2>2. ASSUME NEW e \in Cause, task'[e] # "commit" PROVE Sending(e)' \cap Durable' = {}
      <3>1. Sending(e) \cap Durable = {} /\ e # d
        BY <1>5, <1>9, <2>2 DEF Apart
      <3>2. x \notin Sending(e)
        BY <1>4, <1>9, <3>1 DEF Apart
      <3> QED
        BY <1>3, <1>5, <3>1, <3>2
    <2>3. \A i, j \in 1 .. Len(conversation)' : conversation'[i] = conversation'[j] => i = j
      <3>1. /\ Len(conversation) \in Nat /\ Len(conversation') = Len(conversation) + 1
            /\ \A i \in 1 .. Len(conversation) : conversation'[i] = conversation[i]
                                                 /\ conversation[i] \in Durable
            /\ conversation'[Len(conversation) + 1] = x
        BY <1>0, <1>3, AppendProperties, LenProperties, ToSetIndex DEF Durable
      <3>2. \A i \in 1 .. Len(conversation) + 1 :
                i \in 1 .. Len(conversation) \/ i = Len(conversation) + 1
        BY <3>1
      <3>3. \A i, j \in 1 .. Len(conversation) : conversation[i] = conversation[j] => i = j
        BY DEF Apart
      <3> QED
        BY <1>4, <3>1, <3>2, <3>3
    <2> QED
      BY <2>1, <2>2, <2>3 DEF Apart
  <1>12. Found'
    <2>1. Kept' = Kept /\ Queued' = Queued
      BY <1>0 DEF Kept, Queued, Sending
    <2> QED
      BY <1>0, <1>3, <1>9, <2>1 DEF Found
  <1>13. Calm'
    BY <1>0 DEF Calm, Released
  <1>14. InOrder'
    <2> SUFFICES ASSUME faults = 0, process = "open" PROVE InOrder'
      BY <1>0 DEF InOrder
    <2>1. /\ Ascending(conversation) /\ coord # "host" /\ Falling = Peers(c)
          /\ \A e \in Falling : \A z \in Durable, y \in Sending(e) \ Durable : z < y
          /\ \A e \in Cause : task[e] = "commit" => Falling = Peers(e)
      BY <1>0 DEF InOrder
    <2>2. conversation \in Seq(Nat) /\ x \in Nat /\ \A e \in Cause : Sending(e) \subseteq Nat
      BY <1>3, LanesNumbers, Numbers
    <2>3. Ascending(conversation)'
      <3>1. \A z \in ToSet(conversation) : z < x
        BY <1>4, <2>1 DEF Durable
      <3> QED
        BY <1>0, <2>1, <2>2, <3>1, AscendingAppend
    <2>4. /\ Falling' = Falling
          /\ \A e \in Cause : Peers(e)' = Peers(e)
      BY <1>0 DEF Falling, Peers
    <2>5. ASSUME NEW e \in Falling, NEW z \in Durable', NEW y \in Sending(e)' \ Durable'
          PROVE  z < y
      <3>1. e \in Cause /\ y \in Sending(e) /\ y \notin Durable /\ y # x
        BY <1>2, <1>3, <1>5, <2>1, <2>5
      <3>2. y \in Rest(c)
        BY <2>1, <3>1 DEF Rest, Durable
      <3>3. x < y
        BY <1>1, <2>2, <3>1, <3>2
      <3> QED
        BY <1>3, <2>1, <3>1, <3>3
    <2> QED
      BY <1>0, <2>1, <2>3, <2>4, <2>5 DEF InOrder
  <1> QED
    BY <1>6, <1>7, <1>8, <1>10, <1>11, <1>12, <1>13, <1>14

LEMMA SeqOfSet ==
    ASSUME NEW S, NEW T, NEW s \in Seq(S), ToSet(s) \subseteq T
    PROVE  s \in Seq(T)
  <1>1. Len(s) \in Nat /\ s \in [1 .. Len(s) -> S] /\ \A i \in 1 .. Len(s) : s[i] \in T
    BY LenProperties, ToSetIndex
  <1>2. s \in [1 .. Len(s) -> T]
    BY <1>1
  <1> QED
    BY <1>1, <1>2

LEMMA CommitEndsKeeps == ASSUME IInv, NEW c \in Cause, CommitEnds(c) PROVE IInv'
  <1> USE DEF IInv, PlaceInv, Fit
  <1> DEFINE P == Peers(c)
             Trim(d) == Only(left[d], Message \ Durable)
  <1>0. /\ UNCHANGED <<phase, reason, accepted, steering, hand, boundary, given, host, coord,
                       route, lane, row, paused, woken, conversation, process, drain, todo>>
        /\ task[c] = "commit"
        /\ (Rest(c) = {} /\ faults' = faults) \/ faults' = faults + 1
        /\ left' = [d \in Cause |-> IF d \in P THEN Trim(d) ELSE left[d]]
        /\ pending' = pending \ {d \in P : left'[d] = <<>>}
        /\ task' = [d \in Cause |-> IF d \in P THEN "none" ELSE task[d]]
        /\ merged' = merged \ P /\ awaits' = awaits \ P
        /\ faults \in Nat /\ pending \subseteq Cause /\ merged \subseteq Cause
        /\ task \in [Cause -> {"none", "commit", "enqueue", "pause"}]
    BY DEF CommitEnds, TaskOnly, turn, stores, shutdown, Fault, TypeOK, Durable
  <1>1. /\ c \in P /\ P \subseteq Cause /\ phase # "running"
        /\ \A d \in P : task[d] = "commit" /\ route[d] = "teardown" /\ row[d] = "none"
    BY <1>0, PeersCommit
  <1>2. \A d \in Cause : /\ Trim(d) \in Seq(User) /\ ToSet(Trim(d)) = Sending(d) \ Durable
                         /\ Ascending(Trim(d))
    <2> TAKE d \in Cause
    <2>1. left[d] \in Seq(Nat) /\ Ascending(left[d]) /\ Message \ Durable \in SUBSET Nat
          /\ Sending(d) \subseteq User /\ Sending(d) = ToSet(left[d])
      BY LanesNumbers, Numbers DEF Admitted, Sending
    <2>2. /\ Trim(d) \in Seq(Message \ Durable) /\ Ascending(Trim(d))
          /\ ToSet(Trim(d)) = ToSet(left[d]) \cap (Message \ Durable)
      BY <2>1, OnlyKeeps
    <2>3. ToSet(Trim(d)) = Sending(d) \ Durable
      BY <2>1, <2>2 DEF Message
    <2> HIDE DEF Trim
    <2> QED
      BY <2>1, <2>2, <2>3, SeqOfSet
  <1> HIDE DEF Trim, P
  <1>3. \A d \in Cause : /\ left'[d] = IF d \in P THEN Trim(d) ELSE left[d]
                         /\ task'[d] = IF d \in P THEN "none" ELSE task[d]
                         /\ d \notin P => (d \in pending' <=> d \in pending)
                         /\ d \in P /\ d \in pending' => left'[d] # <<>>
                         /\ d \in P /\ d \in pending /\ left'[d] # <<>> => d \in pending'
    BY <1>0
  <1>4. \A d \in Cause : /\ Sending(d)' = IF d \in P THEN Sending(d) \ Durable ELSE Sending(d)
                         /\ Ascending(left'[d])
    BY <1>2, <1>3 DEF Sending, Admitted
  <1>5. InLane' = InLane /\ Durable' = Durable
    BY <1>0 DEF InLane, Durable
  <1>6. TypeOK'
    <2>1. left \in [Cause -> Seq(User)] /\ awaits \subseteq Cause
      BY DEF TypeOK
    <2>2. left' \in [Cause -> Seq(User)]
      BY <1>0, <1>2, <2>1
    <2>3. /\ task' \in [Cause -> {"none", "commit", "enqueue", "pause"}]
          /\ pending' \subseteq Cause /\ merged' \subseteq Cause /\ awaits' \subseteq Cause
          /\ faults' \in Nat
      BY <1>0, <2>1
    <2> QED
      BY <1>0, <2>2, <2>3 DEF TypeOK
  <1>7. \A d \in Cause : Untouched(d) => Untouched(d)'
    BY <1>0, <1>1, <1>3 DEF Untouched
  <1>8. TurnFit' /\ LaneOrder' /\ DrainFit'
    BY <1>0, <1>1, <1>7 DEF TurnFit, LaneOrder, DrainFit, Cause
  <1>9. \A d \in Cause : BatchFit(d)'
    <2> TAKE d \in Cause
    <2>1. CASE d \in P
      BY <1>0, <1>1, <1>3, <2>1 DEF BatchFit
    <2>2. CASE d \notin P
      <3>1. BatchFit(d)
        OBVIOUS
      <3> QED
        BY <1>0, <1>3, <1>7, <2>2, <3>1 DEF BatchFit
    <2> QED
      BY <2>1, <2>2
  <1>10. Admitted'
    BY <1>0, <1>4, <1>5 DEF Admitted
  <1>11. Apart'
    BY <1>0, <1>3, <1>4, <1>5 DEF Apart
  <1>12. Found'
    <2>1. Queued \subseteq Queued'
      BY <1>0, <1>1, <1>4 DEF Queued
    <2>2. ASSUME NEW d \in pending, NEW m \in Sending(d) PROVE m \in Kept' \cup Durable'
      <3>1. CASE d \notin P
        BY <1>0, <1>3, <1>4, <2>2, <3>1 DEF Kept
      <3>2. CASE d \in P /\ m \notin Durable
        <4>1. d \in Cause /\ m \in Sending(d)'
          BY <1>0, <1>4, <2>2, <3>2
        <4>2. left'[d] # <<>>
          BY <4>1, ToSetEmpty DEF Sending
        <4>3. d \in pending'
          BY <1>3, <3>2, <4>1, <4>2
        <4> QED
          BY <4>1, <4>3 DEF Kept
      <3> QED
        BY <1>5, <3>1, <3>2
    <2>3. Kept \subseteq Kept' \cup Durable'
      BY <2>2 DEF Kept
    <2> QED
      BY <1>0, <1>5, <2>1, <2>3 DEF Found
  <1>13. faults' = 0 => /\ faults = 0 /\ \A d \in pending' : d \in pending /\ d \notin P
                        /\ awaits' = awaits \ P
    <2> SUFFICES ASSUME faults' = 0 PROVE faults = 0 /\ \A d \in P : d \notin pending'
      BY <1>0
    <2>1. faults = 0 /\ Rest(c) = {}
      BY <1>0
    <2>2. ASSUME NEW d \in P PROVE d \notin pending'
      <3>1. d \in Cause /\ Sending(d) \subseteq Durable
        BY <1>1, <2>1 DEF Rest, P, Durable
      <3>2. left'[d] \in Seq(User) /\ ToSet(left'[d]) = {}
        BY <1>2, <1>3, <1>4, <3>1 DEF Sending
      <3>3. left'[d] = <<>>
        BY <3>2, ToSetType
      <3> QED
        BY <1>3, <3>1, <3>3
    <2> QED
      BY <2>1, <2>2
  <1>14. Calm'
    <2> SUFFICES ASSUME faults' = 0, faults = 0 PROVE Calm'
      BY <1>13 DEF Calm
    <2>1. \A d \in pending' : d \in pending /\ task'[d] = task[d] /\ (d \in awaits => d \in awaits')
      BY <1>0, <1>3, <1>13
    <2> QED
      BY <1>0, <2>1 DEF Calm, Released
  <1>15. InOrder'
    <2> SUFFICES ASSUME faults' = 0, faults = 0, process = "open" PROVE InOrder'
      BY <1>0, <1>13 DEF InOrder
    <2>1. /\ Ascending(conversation) /\ coord # "host" /\ Falling = P
          /\ \A e \in Cause : task[e] = "commit" => Falling = Peers(e)
      BY <1>0 DEF InOrder, P
    <2>2. Falling' = {}
      BY <1>0, <1>13, <2>1 DEF Falling
    <2>3. ASSUME NEW e \in Cause, task'[e] = "commit" PROVE FALSE
      <3>1. e \notin P /\ task[e] = "commit"
        BY <1>3, <2>3
      <3>2. e \in Peers(e) /\ Peers(e) = P
        BY <2>1, <3>1, PeersCommit
      <3> QED
        BY <3>1, <3>2
    <2> QED
      BY <1>0, <2>1, <2>2, <2>3 DEF InOrder
  <1> QED
    BY <1>6, <1>8, <1>9, <1>10, <1>11, <1>12, <1>14, <1>15

----------------------------------------------------------------------------
(* The theorems.                                                           *)

LEMMA InitPlaces == ASSUME Init PROVE IInv
  <1>1. \A c \in Cause : Untouched(c)
    BY DEF Init, Untouched
  <1>2. \A c \in Cause : Sending(c) = {} /\ left[c] = <<>>
    BY ToSetEmpty DEF Init, Sending
  <1>3. InLane = {} /\ Durable = {} /\ ToSet(todo) = {}
    BY ToSetEmpty DEF Init, InLane, Durable
  <1>4. Len(<<>>) = 0 /\ Ascending(<<>>)
    BY EmptySeq DEF Ascending
  <1>5. TypeOK
    BY EmptySeq DEF Init, TypeOK
  <1>6. TurnFit /\ LaneOrder /\ DrainFit
    BY <1>1, <1>3, <1>4, ToSetEmpty DEF Init, TurnFit, LaneOrder, DrainFit
  <1>7. Admitted /\ \A c \in Cause : BatchFit(c)
    BY <1>1, <1>2, <1>3, <1>4 DEF Init, Admitted, BatchFit, Untouched
  <1>8. Apart /\ Found
    BY <1>2, <1>3, <1>4 DEF Init, Apart, Found
  <1>9. Calm /\ InOrder
    BY <1>1, <1>3, <1>4 DEF Init, Calm, InOrder, Released, Untouched
  <1> QED
    BY <1>5, <1>6, <1>7, <1>8, <1>9 DEF IInv, PlaceInv, Fit

LEMMA StutterKeeps == ASSUME IInv, UNCHANGED vars PROVE IInv'
  BY RowsKeep DEF vars, turn, settlement, batches, stores, shutdown, IInv, PlaceInv, Fit, TypeOK

LEMMA HostStepKeeps == ASSUME IInv, HostStep PROVE IInv'
  <1>1. CASE HostStarts
    BY <1>1, HostMovesKeep DEF HostStarts
  <1>2. CASE HostNeverStarts
    BY <1>2, HostMovesKeep DEF HostNeverStarts, Ended
  <1>3. CASE HostCompletes
    BY <1>3, HostMovesKeep DEF HostCompletes
  <1>4. CASE ReviewStops
    BY <1>4, HostMovesKeep DEF ReviewStops, Ended
  <1> QED
    BY <1>1, <1>2, <1>3, <1>4, PollEndsKeeps, PollFailsKeeps, TryBeginCloseKeeps, HostFailsKeeps
    DEF HostStep

LEMMA NextKeeps == ASSUME IInv, [Next]_vars PROVE IInv'
  <1>1. ASSUME NEW m \in Message, Steer(m) PROVE IInv'
    BY <1>1, SteerKeeps
  <1>2. ASSUME NEW why \in {"user", "other"}, Abort(why) PROVE IInv'
    BY <1>2, AbortKeeps
  <1>3. ASSUME NEW b \in {"mid-turn", "exit"}, PollBegins(b) PROVE IInv'
    BY <1>3, PollBeginsKeeps
  <1>4. ASSUME NEW c \in Cause, TaskStep(c) \/ LaneStep(c) \/ Dispatch(c) PROVE IInv'
    BY <1>4, CommitOneKeeps, CommitEndsKeeps, EnqueueKeeps, PauseKeeps, LaneBeginsKeeps,
       LaneGoesOnKeeps, DispatchKeeps DEF TaskStep, LaneStep
  <1>5. CASE CommitBeforeRelease \/ Settle \/ Wake
    BY <1>5, CommitBeforeReleaseKeeps, SettleKeeps, WakeKeeps
  <1>6. CASE Shutdown \/ DrainStep
    BY <1>6, ShutdownKeeps, DrainWaitsKeeps, DrainStartsKeeps, DrainTriesKeeps, DrainEndsKeeps,
       GoDownKeeps DEF DrainStep
  <1> QED
    BY <1>1, <1>2, <1>3, <1>4, <1>5, <1>6, HostStepKeeps, StutterKeeps DEF Next

(* Between accepting a message and handing it over the controller, the     *)
(* host, the coordinator and the drain keep the invariant.                 *)
THEOREM HandoffInvariant == Spec => []IInv
  BY InitPlaces, NextKeeps, PTL DEF Spec

(* The lane, the batches, their routes and tasks, the rows and the drain   *)
(* keep their types.                                                       *)
THEOREM SteeringTypes == Spec => []TypeOK
  <1>1. IInv => TypeOK
    BY DEF IInv, PlaceInv, Fit
  <1> QED
    BY <1>1, HandoffInvariant, PTL

(* An accepted message of a user is always somewhere, and in one place,    *)
(* whatever the poll, the abort, the close, the seal, the retries and the  *)
(* failures of the stores do.                                              *)
THEOREM MessagesKeptOnce == Spec => []KeptOnce
  <1>1. ASSUME IInv PROVE KeptOnce
    <2> USE DEF IInv, PlaceInv, Fit
    <2>1. \A c \in Cause : row[c] # "none" => task[c] # "commit"
      BY <1>1 DEF BatchFit
    <2>2. pending \subseteq Cause
      BY <1>1 DEF TypeOK
    <2>3. Durable \cap Queued = {}
      BY <1>1, <2>1 DEF Apart, Queued
    <2>4. given \cap (Durable \cup Queued \cup Kept) = {}
      BY <1>1, <2>2 DEF Apart, Queued, Kept
    <2> QED
      BY <1>1, <2>3, <2>4 DEF KeptOnce, Apart, Found, InLane, Durable
  <1> QED
    BY <1>1, HandoffInvariant, PTL

(* While nothing fails, and before a shutdown, the conversation has the    *)
(* messages of an aborted Turn as they were sent, though they were handed  *)
(* over in two batches, newer before older.                                *)
THEOREM ConversationInSendOrder == Spec => []SendOrder
  <1>1. IInv => SendOrder
    BY DEF IInv, InOrder, SendOrder, Ascending
  <1> QED
    BY <1>1, HandoffInvariant, PTL

(* While nothing fails the release of a closed, sealed or aborted Turn     *)
(* finds no batch on its way to the conversation.                          *)
THEOREM FallenReadByNext == Spec => []FallenIsReadByNext
  <1>1. IInv => FallenIsReadByNext
    BY DEF IInv, Calm, FallenIsReadByNext
  <1> QED
    BY <1>1, HandoffInvariant, PTL
=============================================================================
