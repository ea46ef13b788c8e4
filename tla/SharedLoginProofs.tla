-------------------------- MODULE SharedLoginProofs --------------------------
(***************************************************************************)
(* The shared account, for every number of processes and calls.            *)
(***************************************************************************)
EXTENDS SharedLogin, TLAPS

\* What a call has in hand at each of its phases.
InHand ==
    /\ \A c \in Client :
        /\ pc[c] \in {"refresh", "granted"} => seen[c].cred \in Credential
        /\ pc[c] \in {"granted", "commit"} => got[c] \in Grant
        /\ pc[c] \in {"stored", "committing", "committed"} => disk \in Credential
    /\ losses \in Nat /\ crashes \in Nat /\ cancels \in Nat /\ faults \in Nat

LEMMA NewStateType ==
    ASSUME NEW status \in Status, NEW gen \in Nat
    PROVE  NewState(status, gen) \in State
BY DEF NewState, State

LEMMA GenType ==
    ASSUME NEW s \in State, NEW cred \in OptCredential
    PROVE  /\ GenOf(cred) \in Nat /\ Highest(s, cred) \in Nat
           /\ Highest(s, cred) >= GenOf(cred) /\ Highest(s, cred) >= s.gen
           /\ GenOf(cred) > 0 => cred \in Credential
           /\ cred \in Credential => GenOf(cred) = cred.gen
BY ConstantsAssumption DEF GenOf, Highest, OptCredential, State, Credential, Grant

\* The parts of the type invariant, which the steps keep one by one.
FileTypes ==
    /\ state \in State /\ disk \in OptCredential
    /\ cache \in [Process -> OptCredential \cup {Unread}]
    /\ replaced \in OptCredential
CallTypes ==
    /\ pc \in [Client -> Phase]
    /\ seen \in [Client -> [state : State, cred : OptCredential]]
    /\ kind \in [Client -> Kind] /\ got \in [Client -> Grant \cup {None}]
    /\ token \in [Client -> OptCredential] /\ aborted \subseteq Client
ServerTypes ==
    /\ issued \in 0 .. MaxGrant /\ live \subseteq Grant /\ stale \subseteq Grant
    /\ ended \subseteq Grant /\ misused \in BOOLEAN
CountTypes == calls \in 0 .. MaxCall /\ losses + crashes + cancels + faults \in 0 .. MaxMishap
Exclusion ==
    /\ lock \in Client \cup {None, Dead}
    /\ \A c \in Client : lock = c <=> pc[c] \in UnderLock

TInv == FileTypes /\ CallTypes /\ ServerTypes /\ CountTypes /\ Exclusion /\ InHand

LEMMA StoredType ==
    ASSUME TInv, NEW c \in Client
    PROVE  Stored(c) \in OptCredential
BY ConstantsAssumption DEF TInv, FileTypes, Stored

LEMMA Bounds == MaxCall \in Nat /\ MaxGrant \in Nat /\ MaxMishap \in Nat
BY ConstantsAssumption

LEMMA InitTypes == Init => TInv
<1> SUFFICES ASSUME Init PROVE TInv
  OBVIOUS
<1> USE ConstantsAssumption DEF Init
<1>1. NewState("anonymous", 0) \in State
  BY NewStateType DEF Status
<1>2. InHand
  BY DEF InHand
<1>3. FileTypes
  BY <1>1 DEF FileTypes, OptCredential
<1>4. CallTypes
  <2>1. Nothing \in [state : State, cred : OptCredential]
    BY <1>1 DEF Nothing, OptCredential
  <2>2. "idle" \in Phase /\ "token" \in Kind /\ None \in OptCredential
    BY DEF Phase, Kind, OptCredential
  <2> QED
    BY <2>1, <2>2 DEF CallTypes
<1>5. ServerTypes /\ CountTypes
  <2>1. ServerTypes
    <3>1. 0 \in 0 .. MaxGrant
      BY Bounds
    <3>2. issued = 0 /\ live = {} /\ stale = {} /\ ended = {} /\ misused = FALSE
      OBVIOUS
    <3> HIDE ConstantsAssumption DEF Init
    <3> QED
      BY <3>1, <3>2 DEF ServerTypes
  <2>2. CountTypes
    BY Bounds DEF CountTypes
  <2> QED
    BY <2>1, <2>2
<1>6. Exclusion
  BY DEF Exclusion, UnderLock
<1> QED
  BY <1>2, <1>3, <1>4, <1>5, <1>6 DEF TInv

LEMMA StateOps ==
    ASSUME NEW s \in State
    PROVE  /\ s.gen \in Nat
           /\ \A status \in Status : /\ [s EXCEPT !.status = status] \in State
                                     /\ [s EXCEPT !.status = status].gen = s.gen
           /\ [s EXCEPT !.live = FALSE] \in State
BY DEF State

LEMMA CachesType ==
    ASSUME TInv, NEW c \in Client, Caches(c)
    PROVE  cache' \in [Process -> OptCredential \cup {Unread}]
BY StoredType, ConstantsAssumption DEF Caches, TInv, FileTypes

LEMMA StoreType ==
    ASSUME TInv, NEW c \in Client, NEW STATE cred, cred \in OptCredential, Store(c, cred)
    PROVE  /\ disk' = cred /\ disk' \in OptCredential
           /\ cache' \in [Process -> OptCredential \cup {Unread}]
BY ConstantsAssumption DEF Store, TInv, FileTypes

LEMMA SeesType ==
    ASSUME TInv, NEW c \in Client, NEW STATE s, s \in State,
           NEW STATE cred, cred \in OptCredential, Sees(c, s, cred)
    PROVE  /\ seen' \in [Client -> [state : State, cred : OptCredential]]
           /\ seen'[c].state = s /\ seen'[c].cred = cred
           /\ \A d \in Client \ {c} : seen'[d] = seen[d]
<1>1. [state |-> s, cred |-> cred] \in [state : State, cred : OptCredential]
  OBVIOUS
<1> QED
  BY <1>1 DEF Sees, TInv, CallTypes

LEMMA RotatesType ==
    ASSUME TInv, NEW g, Rotates(g)
    PROVE  issued' \in Grant /\ issued' \in 0 .. MaxGrant /\ live' \subseteq Grant /\ stale' = stale
<1>1. issued \in 0 .. MaxGrant /\ live \subseteq Grant
  BY DEF TInv, ServerTypes
<1>2. issued' \in 1 .. MaxGrant
  BY <1>1, Bounds DEF Rotates
<1>3. issued' \in 0 .. MaxGrant /\ issued' \in Grant
  BY <1>2, Bounds DEF Grant
<1>4. live' = (live \ {g}) \cup {issued'} /\ stale' = stale
  BY DEF Rotates
<1> QED
  BY <1>1, <1>3, <1>4

LEMMA DecidesEither ==
    ASSUME NEW c \in Client, NEW cred, Decides(c, cred)
    PROVE  /\ \E p \in {"idle", "claim", "recover"} : Goes(c, p)
           /\ UNCHANGED token \/ Takes(c, cred)
BY DEF Decides

\* Who claims a refresh begins it with a credential, or leaves things as they are.
LEMMA ClaimEither ==
    ASSUME TInv, NEW c \in Client, Claim(c)
    PROVE  /\ UNCHANGED disk /\ NoNews /\ Caches(c) /\ Free /\ pc[c] = "claim"
           /\ \/ BeginsRefresh(c, Stored(c)) /\ Stored(c) \in Credential
                 /\ Usable(state, Stored(c))
              \/ /\ UNCHANGED <<state, lock, seen>>
                 /\ \E p \in {"idle", "reread", "login"} : Goes(c, p)
                 /\ UNCHANGED token \/ Takes(c, Stored(c))
<1>1. Usable(state, Stored(c)) => Stored(c) \in Credential
  BY StoredType DEF Usable, OptCredential
<1>2. CASE Refreshes(c, Stored(c))
  BY <1>1, <1>2 DEF Claim, Refreshes
<1>3. CASE ~Refreshes(c, Stored(c))
  BY <1>3 DEF Claim, Settles, Again
<1> QED
  BY <1>2, <1>3

LEMMA StepTypes ==
    ASSUME TInv, NEW c \in Client, Step(c)
    PROVE  TInv'
<1> USE Bounds
<1>0. /\ FileTypes /\ CallTypes /\ ServerTypes /\ CountTypes /\ Exclusion /\ InHand
      /\ Stored(c) \in OptCredential /\ None \notin Client /\ Dead \notin Client
      /\ None \in OptCredential /\ Home[c] \in Process /\ None \notin Credential
      /\ seen[c].state \in State /\ seen[c].cred \in OptCredential
      /\ seen[c].state.gen \in Nat /\ state.gen \in Nat
  <2>1. /\ FileTypes /\ CallTypes /\ ServerTypes /\ CountTypes /\ Exclusion /\ InHand
        /\ Stored(c) \in OptCredential /\ None \notin Client /\ Dead \notin Client
        /\ None \in OptCredential /\ Home[c] \in Process /\ None \notin Credential
    BY StoredType, ConstantsAssumption DEF TInv, OptCredential, Credential, Grant
  <2>2. seen[c].state \in State /\ seen[c].cred \in OptCredential
    BY <2>1 DEF CallTypes
  <2> QED
    BY <2>1, <2>2, StateOps DEF FileTypes
<1>1. CASE PeekState(c)
  <2>1. FileTypes'
    BY <1>0, <1>1, GenType, NewStateType, StateOps, SeesType
       DEF PeekState, Goes, NoNews, Loads, Settled, FileTypes, InHand, Status, files, local,
               server, history, counters
  <2>2. CallTypes'
    BY <1>0, <1>1, GenType, SeesType DEF PeekState, Goes, NoNews, Loads, Settled, FileTypes,
            CallTypes, InHand, Phase, files, local, server, history, counters
  <2>3. ServerTypes' /\ CountTypes'
    BY <1>0, <1>1, SeesType DEF PeekState, Goes, NoNews, Loads, Settled, ServerTypes,
            CountTypes, InHand, FileTypes, Grant,
                 OptCredential, Credential, files, local, server, history, counters
  <2>4. Exclusion'
    BY <1>0, <1>1 DEF PeekState, Goes, NoNews, Loads, Settled, Exclusion, CallTypes, UnderLock,
            Phase, files, local, server, history, counters
  <2>5. InHand'
    BY <1>0, <1>1, GenType, SeesType DEF PeekState, Goes, NoNews, Loads, Settled, InHand,
            Exclusion, UnderLock, FileTypes, CallTypes,
        ServerTypes, files, local, server, history, counters
  <2> QED
    BY <2>1, <2>2, <2>3, <2>4, <2>5 DEF TInv
<1>2. CASE Load(c)
  <2>1. FileTypes'
    BY <1>0, <1>2, GenType, NewStateType, StateOps, SeesType
       DEF Load, Goes, NoNews, Decides, Takes, FileTypes, InHand, Status, files, local, server,
               history, counters
  <2>2. CallTypes'
    <3>1. CASE cache[Home[c]] = Unread
      BY <1>0, <1>2, <3>1, SeesType DEF Load, Goes, NoNews, FileTypes, CallTypes, Phase, files,
              local, server, history, counters
    <3>2. CASE cache[Home[c]] # Unread
      <4>1. cache[Home[c]] \in OptCredential
        BY <1>0, <3>2 DEF FileTypes
      <4>2. \E p \in {"idle", "claim", "recover"} : Goes(c, p)
        BY <1>2, <3>2, DecidesEither DEF Load
      <4>3. UNCHANGED token \/ Takes(c, cache[Home[c]])
        BY <1>2, <3>2, DecidesEither DEF Load
      <4>4. pc' \in [Client -> Phase] /\ token' \in [Client -> OptCredential]
        BY <1>0, <4>1, <4>2, <4>3 DEF Goes, Takes, CallTypes, Phase
      <4> QED
        BY <1>0, <1>2, <3>2, <4>4 DEF Load, NoNews, CallTypes
    <3> QED
      BY <3>1, <3>2
  <2>3. ServerTypes' /\ CountTypes'
    BY <1>0, <1>2, SeesType DEF Load, Goes, NoNews, Decides, Takes, ServerTypes, CountTypes,
            InHand, FileTypes, Grant,
                 OptCredential, Credential, files, local, server, history, counters
  <2>4. Exclusion'
    BY <1>0, <1>2 DEF Load, Goes, NoNews, Decides, Takes, Exclusion, CallTypes, UnderLock,
            Phase, files, local, server, history, counters
  <2>5. InHand'
    BY <1>0, <1>2, GenType, SeesType DEF Load, Goes, NoNews, Decides, Takes, InHand, Exclusion,
            UnderLock, FileTypes, CallTypes,
        ServerTypes, files, local, server, history, counters
  <2> QED
    BY <2>1, <2>2, <2>3, <2>4, <2>5 DEF TInv
<1>3. CASE Land(c)
  <2>1. FileTypes'
    BY <1>0, <1>3, GenType, NewStateType, StateOps
       DEF Land, Goes, NoNews, Decides, Takes, FileTypes, InHand, Status, files, local, server,
               history, counters
  <2>2. CallTypes'
    BY <1>0, <1>3, GenType DEF Land, Goes, NoNews, Decides, Takes, FileTypes, CallTypes,
            InHand, Phase, files, local, server, history, counters
  <2>3. ServerTypes' /\ CountTypes'
    BY <1>0, <1>3 DEF Land, Goes, NoNews, Decides, Takes, ServerTypes, CountTypes, InHand,
            FileTypes, Grant,
                 OptCredential, Credential, files, local, server, history, counters
  <2>4. Exclusion'
    BY <1>0, <1>3 DEF Land, Goes, NoNews, Decides, Takes, Exclusion, CallTypes, UnderLock,
            Phase, files, local, server, history, counters
  <2>5. InHand'
    BY <1>0, <1>3, GenType DEF Land, Goes, NoNews, Decides, Takes, InHand, Exclusion,
            UnderLock, FileTypes, CallTypes,
        ServerTypes, files, local, server, history, counters
  <2> QED
    BY <2>1, <2>2, <2>3, <2>4, <2>5 DEF TInv
<1>4. CASE Recover(c)
  <2>1. FileTypes'
    <3>1. state' \in State
      <4>1. CASE Interrupted(state, Stored(c))
        <5>1. state \in State /\ GenOf(Stored(c)) > state.gen
          BY <1>0, <4>1 DEF Interrupted, FileTypes
        <5>2. Stored(c) \in Credential
          BY <1>0, <5>1, GenType
        <5>3. Stored(c).gen \in Nat /\ "authenticated" \in Status
          BY <5>2 DEF Credential, Status
        <5> QED
          BY <1>4, <4>1, <5>3, NewStateType DEF Recover
      <4>2. CASE ~Interrupted(state, Stored(c))
        BY <1>0, <1>4, <4>2 DEF Recover, FileTypes
      <4> QED
        BY <4>1, <4>2
    <3> QED
      BY <1>0, <1>4, <3>1, CachesType DEF Recover, FileTypes, NoNews, files, local, server,
              history, counters
  <2>2. CallTypes'
    BY <1>0, <1>4, GenType, CachesType DEF Recover, Goes, NoNews, Free, Interrupted, FileTypes,
            CallTypes, InHand, Phase, files, local, server, history, counters
  <2>3. ServerTypes' /\ CountTypes'
    BY <1>0, <1>4, CachesType DEF Recover, Goes, NoNews, Free, Interrupted, ServerTypes,
            CountTypes, InHand, FileTypes, Grant,
                 OptCredential, Credential, files, local, server, history, counters
  <2>4. Exclusion'
    BY <1>0, <1>4 DEF Recover, Goes, NoNews, Free, Interrupted, Exclusion, CallTypes,
            UnderLock, Phase, files, local, server, history, counters
  <2>5. InHand'
    BY <1>0, <1>4, GenType, CachesType DEF Recover, Goes, NoNews, Free, Interrupted, InHand,
            Exclusion, UnderLock, FileTypes, CallTypes,
        ServerTypes, files, local, server, history, counters
  <2> QED
    BY <2>1, <2>2, <2>3, <2>4, <2>5 DEF TInv
<1>5. CASE Claim(c)
  <2>0. /\ UNCHANGED disk /\ NoNews /\ Caches(c) /\ Free /\ pc[c] = "claim"
        /\ \/ BeginsRefresh(c, Stored(c)) /\ Stored(c) \in Credential
           \/ /\ UNCHANGED <<state, lock, seen>>
              /\ \E p \in {"idle", "reread", "login"} : Goes(c, p)
              /\ UNCHANGED token \/ Takes(c, Stored(c))
    BY <1>5, ClaimEither
  <2>1. FileTypes'
    BY <1>0, <2>0, StateOps, CachesType DEF BeginsRefresh, FileTypes, Status, NoNews, files,
            local, server, history, counters
  <2>2. CallTypes'
    <3>1. pc' \in [Client -> Phase]
      BY <1>0, <2>0 DEF BeginsRefresh, Goes, CallTypes, Phase
    <3>2. token' \in [Client -> OptCredential]
      BY <1>0, <2>0 DEF BeginsRefresh, Takes, CallTypes
    <3>3. state \in State
      BY <1>0 DEF FileTypes
    <3>4. seen' \in [Client -> [state : State, cred : OptCredential]]
      BY <1>0, <2>0, <3>3, SeesType DEF BeginsRefresh, CallTypes
    <3> QED
      BY <1>0, <2>0, <3>1, <3>2, <3>4 DEF NoNews, CallTypes
  <2>3. ServerTypes' /\ CountTypes'
    BY <1>0, <2>0 DEF NoNews, ServerTypes, CountTypes, files, local, server, history, counters
  <2>4. Exclusion'
    BY <1>0, <2>0 DEF BeginsRefresh, Goes, Free, Exclusion, CallTypes, UnderLock
  <2>5. InHand'
    <3>1. CASE BeginsRefresh(c, Stored(c)) /\ Stored(c) \in Credential
      BY <1>0, <2>0, <3>1, SeesType DEF BeginsRefresh, Goes, NoNews, InHand, FileTypes,
              CallTypes, files, local, server, history, counters
    <3>2. CASE UNCHANGED seen /\ \E p \in {"idle", "reread", "login"} : Goes(c, p)
      BY <1>0, <2>0, <3>2 DEF Goes, NoNews, InHand, CallTypes, files, local, server, history,
              counters
    <3> QED
      BY <2>0, <3>1, <3>2
  <2> QED
    BY <2>1, <2>2, <2>3, <2>4, <2>5 DEF TInv
<1>6. CASE RefreshGranted(c)
  <2>1. FileTypes'
    BY <1>0, <1>6, GenType, NewStateType, StateOps, RotatesType
       DEF RefreshGranted, Goes, Keeps, FileTypes, InHand, Status, files, local, server,
               history, counters
  <2>2. CallTypes'
    BY <1>0, <1>6, GenType, RotatesType DEF RefreshGranted, Goes, Keeps, FileTypes, CallTypes,
            InHand, Phase, files, local, server, history, counters
  <2>3. ServerTypes' /\ CountTypes'
    BY <1>0, <1>6, RotatesType DEF RefreshGranted, Goes, Keeps, ServerTypes, CountTypes,
            InHand, FileTypes, Grant,
                 OptCredential, Credential, files, local, server, history, counters
  <2>4. Exclusion'
    BY <1>0, <1>6 DEF RefreshGranted, Goes, Keeps, Exclusion, CallTypes, UnderLock, Phase,
            files, local, server, history, counters
  <2>5. InHand'
    BY <1>0, <1>6, GenType, RotatesType DEF RefreshGranted, Goes, Keeps, InHand, Exclusion,
            UnderLock, FileTypes, CallTypes,
        ServerTypes, files, local, server, history, counters
  <2> QED
    BY <2>1, <2>2, <2>3, <2>4, <2>5 DEF TInv
<1>7. CASE RefreshRejected(c)
  <2>1. FileTypes'
    <3>1. state' \in State
      BY <1>0, <1>7, NewStateType DEF RefreshRejected, InHand, Status, Credential
    <3> QED
      BY <1>0, <1>7, <3>1 DEF RefreshRejected, FileTypes
  <2>2. CallTypes'
    BY <1>0, <1>7, GenType DEF RefreshRejected, Goes, Keeps, FileTypes, CallTypes, InHand,
            Phase, files, local, server, history, counters
  <2>3. ServerTypes' /\ CountTypes'
    BY <1>0, <1>7 DEF RefreshRejected, Goes, Keeps, ServerTypes, CountTypes, InHand, FileTypes,
            Grant,
                 OptCredential, Credential, files, local, server, history, counters
  <2>4. Exclusion'
    BY <1>0, <1>7 DEF RefreshRejected, Goes, Keeps, Exclusion, CallTypes, UnderLock, Phase,
            files, local, server, history, counters
  <2>5. InHand'
    BY <1>0, <1>7, GenType DEF RefreshRejected, Goes, Keeps, InHand, Exclusion, UnderLock,
            FileTypes, CallTypes,
        ServerTypes, files, local, server, history, counters
  <2> QED
    BY <2>1, <2>2, <2>3, <2>4, <2>5 DEF TInv
<1>8. CASE RefreshFails(c)
  <2>1. FileTypes'
    <3>1. state' \in State
      <4>1. PICK status \in {"authenticated", "expired"} :
                state' = [seen[c].state EXCEPT !.status = status]
        BY <1>8 DEF RefreshFails
      <4>2. status \in Status
        BY <4>1 DEF Status
      <4> QED
        BY <1>0, <4>1, <4>2, StateOps
    <3> QED
      BY <1>0, <1>8, <3>1 DEF RefreshFails, FileTypes, files, local, server, history, counters
  <2>2. CallTypes'
    BY <1>0, <1>8, GenType, RotatesType DEF RefreshFails, Goes, Leaves, FileTypes, CallTypes,
            InHand, Phase, files, local, server, history, counters
  <2>3. ServerTypes' /\ CountTypes'
    <3>1. ServerTypes'
      BY <1>0, <1>8, RotatesType DEF RefreshFails, ServerTypes, files, local, server, history,
              counters
    <3>2. CountTypes'
      BY <1>0, <1>8 DEF RefreshFails, MishapLeft, CountTypes, InHand
    <3> QED
      BY <3>1, <3>2
  <2>4. Exclusion'
    BY <1>0, <1>8 DEF RefreshFails, Goes, Leaves, Exclusion, CallTypes, UnderLock, Phase,
            files, local, server, history, counters
  <2>5. InHand'
    BY <1>0, <1>8, GenType, RotatesType DEF RefreshFails, Goes, Leaves, InHand, Exclusion,
            UnderLock, FileTypes, CallTypes,
        ServerTypes, files, local, server, history, counters
  <2> QED
    BY <2>1, <2>2, <2>3, <2>4, <2>5 DEF TInv
<1>9. CASE StoreRefreshed(c)
  <2>0. /\ pc[c] = "granted" /\ Goes(c, "stored") /\ UNCHANGED <<state, lock, seen,
          token>> /\ NoNews
        /\ seen[c].cred \in Credential /\ disk' \in Credential
        /\ cache' \in [Process -> OptCredential \cup {Unread}]
    <3> DEFINE cred == seen[c].cred
               new == [cred EXCEPT !.gen = Highest(seen[c].state, cred) + 1, !.grant = got[c]]
    <3>1. cred \in Credential /\ got[c] \in Grant
      BY <1>0, <1>9 DEF StoreRefreshed, Refreshed, InHand
    <3>2. new \in Credential
      <4>1. Highest(seen[c].state, cred) + 1 \in Nat
        BY <1>0, <3>1, GenType
      <4> QED
        BY <3>1, <4>1 DEF Credential
    <3>3. new \in OptCredential /\ Store(c, new)
      BY <1>9, <3>2 DEF StoreRefreshed, Refreshed, OptCredential
    <3> QED
      BY <1>9, <3>1, <3>2, <3>3, StoreType DEF StoreRefreshed, Refreshed
  <2>1. FileTypes'
    BY <1>0, <2>0 DEF FileTypes, OptCredential, NoNews, files, local, server, history, counters
  <2>2. CallTypes'
    BY <1>0, <1>9, GenType, StoreType DEF StoreRefreshed, Refreshed, Goes, NoNews, FileTypes, CallTypes,
            InHand, Phase, files, local, server, history, counters
  <2>3. ServerTypes' /\ CountTypes'
    BY <1>0, <1>9, StoreType DEF StoreRefreshed, Refreshed, Goes, NoNews, ServerTypes, CountTypes, InHand,
            FileTypes, Grant,
                 OptCredential, Credential, files, local, server, history, counters
  <2>4. Exclusion'
    BY <1>0, <1>9 DEF StoreRefreshed, Refreshed, Goes, NoNews, Exclusion, CallTypes, UnderLock, Phase,
            files, local, server, history, counters
  <2>5. InHand'
    BY <1>0, <2>0 DEF Goes, InHand, Exclusion, UnderLock, CallTypes, NoNews, files, local,
            server, history, counters
  <2> QED
    BY <2>1, <2>2, <2>3, <2>4, <2>5 DEF TInv
<1>10. CASE FinishRefresh(c)
  <2>1. FileTypes'
    BY <1>0, <1>10, GenType, NewStateType, StateOps
       DEF FinishRefresh, Goes, Leaves, Takes, NoNews, FileTypes, InHand, Status, files, local,
               server, history, counters
  <2>2. CallTypes'
    BY <1>0, <1>10, GenType DEF FinishRefresh, Goes, Leaves, Takes, NoNews, FileTypes,
            CallTypes, InHand, Phase, files, local, server, history, counters
  <2>3. ServerTypes' /\ CountTypes'
    BY <1>0, <1>10 DEF FinishRefresh, Goes, Leaves, Takes, NoNews, ServerTypes, CountTypes,
            InHand, FileTypes, Grant,
                 OptCredential, Credential, files, local, server, history, counters
  <2>4. Exclusion'
    BY <1>0, <1>10 DEF FinishRefresh, Goes, Leaves, Takes, NoNews, Exclusion, CallTypes,
            UnderLock, Phase, files, local, server, history, counters
  <2>5. InHand'
    BY <1>0, <1>10, GenType DEF FinishRefresh, Goes, Leaves, Takes, NoNews, InHand, Exclusion,
            UnderLock, FileTypes, CallTypes,
        ServerTypes, files, local, server, history, counters
  <2> QED
    BY <2>1, <2>2, <2>3, <2>4, <2>5 DEF TInv
<1>11. CASE EraseRejected(c)
  <2>1. FileTypes'
    BY <1>0, <1>11, GenType, NewStateType, StateOps, StoreType
       DEF EraseRejected, Goes, Leaves, Again, NoNews, FileTypes, InHand, Status, files, local,
               server, history, counters
  <2>2. CallTypes'
    BY <1>0, <1>11, GenType, StoreType DEF EraseRejected, Goes, Leaves, Again, NoNews,
            FileTypes, CallTypes, InHand, Phase, files, local, server, history, counters
  <2>3. ServerTypes' /\ CountTypes'
    BY <1>0, <1>11, StoreType DEF EraseRejected, Goes, Leaves, Again, NoNews, ServerTypes,
            CountTypes, InHand, FileTypes, Grant,
                 OptCredential, Credential, files, local, server, history, counters
  <2>4. Exclusion'
    BY <1>0, <1>11 DEF EraseRejected, Goes, Leaves, Again, NoNews, Exclusion, CallTypes,
            UnderLock, Phase, files, local, server, history, counters
  <2>5. InHand'
    BY <1>0, <1>11, GenType, StoreType DEF EraseRejected, Goes, Leaves, Again, NoNews, InHand,
            Exclusion, UnderLock, FileTypes, CallTypes,
        ServerTypes, files, local, server, history, counters
  <2> QED
    BY <2>1, <2>2, <2>3, <2>4, <2>5 DEF TInv
<1>12. CASE Logout(c)
  <2>1. FileTypes'
    <3>1. state' \in State
      <4>1. state \in State /\ Highest(state, Stored(c)) + 1 \in Nat /\ "logging_out" \in Status
        BY <1>0, GenType DEF FileTypes, Status
      <4>2. \/ UNCHANGED state
            \/ state' = NewState("logging_out", Highest(state, Stored(c)) + 1)
        BY <1>12 DEF Logout, SignedOut
      <4> QED
        BY <4>1, <4>2, NewStateType
    <3> QED
      BY <1>0, <1>12, <3>1, CachesType DEF Logout, FileTypes
  <2>2. CallTypes'
    BY <1>0, <1>12, GenType, CachesType, SeesType DEF Logout, Goes, SignedOut, Keeps, Free, Epochs,
            FileTypes, CallTypes, InHand, Phase, files, local, server, history, counters
  <2>3. ServerTypes' /\ CountTypes'
    BY <1>0, <1>12, CachesType, SeesType DEF Logout, Goes, SignedOut, Keeps, Free, Epochs,
            ServerTypes, CountTypes, InHand, FileTypes, Grant,
                 OptCredential, Credential, files, local, server, history, counters
  <2>4. Exclusion'
    BY <1>0, <1>12 DEF Logout, Goes, SignedOut, Keeps, Free, Epochs, Exclusion, CallTypes,
            UnderLock, Phase, files, local, server, history, counters
  <2>5. InHand'
    BY <1>0, <1>12, GenType, CachesType, SeesType DEF Logout, Goes, SignedOut, Keeps, Free, Epochs,
            InHand, Exclusion, UnderLock, FileTypes, CallTypes,
        ServerTypes, files, local, server, history, counters
  <2> QED
    BY <2>1, <2>2, <2>3, <2>4, <2>5 DEF TInv
<1>13. CASE Revoke(c)
  <2>1. FileTypes'
    <3>1. state' \in State
      BY <1>0, <1>13, NewStateType DEF Revoke, FileTypes, Status
    <3> QED
      BY <1>0, <1>13, <3>1 DEF Revoke, FileTypes, files, local, server, history, counters
  <2>2. CallTypes'
    BY <1>0, <1>13, GenType DEF Revoke, Goes, Leaves, FileTypes, CallTypes, InHand, Phase,
            files, local, server, history, counters
  <2>3. ServerTypes' /\ CountTypes'
    <3>1. ServerTypes'
      BY <1>0, <1>13 DEF Revoke, ServerTypes, files, local, server, history, counters
    <3>2. CountTypes'
      BY <1>0, <1>13 DEF Revoke, MishapLeft, CountTypes, InHand
    <3> QED
      BY <3>1, <3>2
  <2>4. Exclusion'
    BY <1>0, <1>13 DEF Revoke, Goes, Leaves, Exclusion, CallTypes, UnderLock, Phase, files,
            local, server, history, counters
  <2>5. InHand'
    BY <1>0, <1>13, GenType DEF Revoke, Goes, Leaves, InHand, Exclusion, UnderLock, FileTypes,
            CallTypes,
        ServerTypes, files, local, server, history, counters
  <2> QED
    BY <2>1, <2>2, <2>3, <2>4, <2>5 DEF TInv
<1>14. CASE EraseLogin(c)
  <2>1. FileTypes'
    BY <1>0, <1>14, GenType, NewStateType, StateOps, StoreType
       DEF EraseLogin, Goes, NoNews, FileTypes, InHand, Status, files, local, server, history,
               counters
  <2>2. CallTypes'
    BY <1>0, <1>14, GenType, StoreType DEF EraseLogin, Goes, NoNews, FileTypes, CallTypes,
            InHand, Phase, files, local, server, history, counters
  <2>3. ServerTypes' /\ CountTypes'
    BY <1>0, <1>14, StoreType DEF EraseLogin, Goes, NoNews, ServerTypes, CountTypes, InHand,
            FileTypes, Grant,
                 OptCredential, Credential, files, local, server, history, counters
  <2>4. Exclusion'
    BY <1>0, <1>14 DEF EraseLogin, Goes, NoNews, Exclusion, CallTypes, UnderLock, Phase, files,
            local, server, history, counters
  <2>5. InHand'
    BY <1>0, <1>14, GenType, StoreType DEF EraseLogin, Goes, NoNews, InHand, Exclusion,
            UnderLock, FileTypes, CallTypes,
        ServerTypes, files, local, server, history, counters
  <2> QED
    BY <2>1, <2>2, <2>3, <2>4, <2>5 DEF TInv
<1>15. CASE FinishLogout(c)
  <2>1. FileTypes'
    BY <1>0, <1>15, GenType, NewStateType, StateOps
       DEF FinishLogout, Goes, Leaves, NoNews, FileTypes, InHand, Status, files, local, server,
               history, counters
  <2>2. CallTypes'
    BY <1>0, <1>15, GenType DEF FinishLogout, Goes, Leaves, NoNews, FileTypes, CallTypes,
            InHand, Phase, files, local, server, history, counters
  <2>3. ServerTypes' /\ CountTypes'
    BY <1>0, <1>15 DEF FinishLogout, Goes, Leaves, NoNews, ServerTypes, CountTypes, InHand,
            FileTypes, Grant,
                 OptCredential, Credential, files, local, server, history, counters
  <2>4. Exclusion'
    BY <1>0, <1>15 DEF FinishLogout, Goes, Leaves, NoNews, Exclusion, CallTypes, UnderLock,
            Phase, files, local, server, history, counters
  <2>5. InHand'
    BY <1>0, <1>15, GenType DEF FinishLogout, Goes, Leaves, NoNews, InHand, Exclusion,
            UnderLock, FileTypes, CallTypes,
        ServerTypes, files, local, server, history, counters
  <2> QED
    BY <2>1, <2>2, <2>3, <2>4, <2>5 DEF TInv
<1>16. CASE Login(c)
  <2>1. FileTypes'
    <3>1. Authorizing(c) \in State
      BY <1>0, GenType DEF Authorizing, FileTypes, State, Status
    <3>2. state' \in State
      BY <1>0, <1>16, <3>1 DEF Login, Decide, FileTypes
    <3> QED
      BY <1>0, <1>16, <3>2, CachesType DEF Login, FileTypes, NoNews, files, local, server,
              history, counters
  <2>2. CallTypes'
    <3>1. state \in State
      BY <1>0 DEF FileTypes
    <3>2. seen' \in [Client -> [state : State, cred : OptCredential]]
      BY <1>0, <1>16, <3>1, SeesType DEF Login, Decide, CallTypes
    <3>3. pc' \in [Client -> Phase]
      BY <1>0, <1>16 DEF Login, Decide, Goes, CallTypes, Phase
    <3> QED
      BY <1>0, <1>16, <3>2, <3>3 DEF Login, CallTypes, NoNews
  <2>3. ServerTypes' /\ CountTypes'
    BY <1>0, <1>16, CachesType, SeesType DEF Login, Goes, Decide, Authorizing, Free, NoNews,
            ServerTypes, CountTypes, InHand, FileTypes, Grant,
                 OptCredential, Credential, files, local, server, history, counters
  <2>4. Exclusion'
    BY <1>0, <1>16 DEF Login, Goes, Decide, Authorizing, Free, NoNews, Exclusion, CallTypes,
            UnderLock, Phase, files, local, server, history, counters
  <2>5. InHand'
    BY <1>0, <1>16, GenType, CachesType, SeesType DEF Login, Goes, Decide, Authorizing, Free,
            NoNews, InHand, Exclusion, UnderLock, FileTypes, CallTypes,
        ServerTypes, files, local, server, history, counters
  <2> QED
    BY <2>1, <2>2, <2>3, <2>4, <2>5 DEF TInv
<1>17. CASE Reread(c)
  <2>1. FileTypes'
    BY <1>0, <1>17, GenType, NewStateType, StateOps
       DEF Reread, Goes, Again, NoNews, FileTypes, InHand, Status, files, local, server,
               history, counters
  <2>2. CallTypes'
    BY <1>0, <1>17, GenType DEF Reread, Goes, Again, NoNews, FileTypes, CallTypes, InHand,
            Phase, files, local, server, history, counters
  <2>3. ServerTypes' /\ CountTypes'
    BY <1>0, <1>17 DEF Reread, Goes, Again, NoNews, ServerTypes, CountTypes, InHand, FileTypes,
            Grant,
                 OptCredential, Credential, files, local, server, history, counters
  <2>4. Exclusion'
    BY <1>0, <1>17 DEF Reread, Goes, Again, NoNews, Exclusion, CallTypes, UnderLock, Phase,
            files, local, server, history, counters
  <2>5. InHand'
    BY <1>0, <1>17, GenType DEF Reread, Goes, Again, NoNews, InHand, Exclusion, UnderLock,
            FileTypes, CallTypes,
        ServerTypes, files, local, server, history, counters
  <2> QED
    BY <2>1, <2>2, <2>3, <2>4, <2>5 DEF TInv
<1>18. CASE Wait(c)
  <2>1. FileTypes'
    BY <1>0, <1>18, GenType, NewStateType, StateOps, CachesType
       DEF Wait, Goes, NoNews, FileTypes, InHand, Status, files, local, server, history,
               counters
  <2>2. CallTypes'
    BY <1>0, <1>18, GenType, CachesType DEF Wait, Goes, NoNews, FileTypes, CallTypes, InHand,
            Phase, files, local, server, history, counters
  <2>3. ServerTypes' /\ CountTypes'
    BY <1>0, <1>18, CachesType DEF Wait, Goes, NoNews, ServerTypes, CountTypes, InHand,
            FileTypes, Grant,
                 OptCredential, Credential, files, local, server, history, counters
  <2>4. Exclusion'
    BY <1>0, <1>18 DEF Wait, Goes, NoNews, Exclusion, CallTypes, UnderLock, Phase, files,
            local, server, history, counters
  <2>5. InHand'
    BY <1>0, <1>18, GenType, CachesType DEF Wait, Goes, NoNews, InHand, Exclusion, UnderLock,
            FileTypes, CallTypes,
        ServerTypes, files, local, server, history, counters
  <2> QED
    BY <2>1, <2>2, <2>3, <2>4, <2>5 DEF TInv
<1>19. CASE Device(c)
  <2>1. FileTypes'
    BY <1>0, <1>19, GenType, NewStateType, StateOps
       DEF Device, Goes, NoNews, FileTypes, InHand, Status, files, local, server, history,
               counters
  <2>2. CallTypes'
    BY <1>0, <1>19, GenType DEF Device, Goes, NoNews, FileTypes, CallTypes, InHand, Phase,
            files, local, server, history, counters
  <2>3. ServerTypes' /\ CountTypes'
    BY <1>0, <1>19 DEF Device, Goes, NoNews, ServerTypes, CountTypes, InHand, FileTypes, Grant,
                 OptCredential, Credential, files, local, server, history, counters
  <2>4. Exclusion'
    BY <1>0, <1>19 DEF Device, Goes, NoNews, Exclusion, CallTypes, UnderLock, Phase, files,
            local, server, history, counters
  <2>5. InHand'
    BY <1>0, <1>19, GenType DEF Device, Goes, NoNews, InHand, Exclusion, UnderLock, FileTypes,
            CallTypes,
        ServerTypes, files, local, server, history, counters
  <2> QED
    BY <2>1, <2>2, <2>3, <2>4, <2>5 DEF TInv
<1>20. CASE Publish(c)
  <2>1. FileTypes'
    BY <1>0, <1>20, GenType, NewStateType, StateOps
       DEF Publish, Goes, NoNews, Free, FileTypes, InHand, Status, files, local, server,
               history, counters
  <2>2. CallTypes'
    BY <1>0, <1>20, GenType DEF Publish, Goes, NoNews, Free, FileTypes, CallTypes, InHand,
            Phase, files, local, server, history, counters
  <2>3. ServerTypes' /\ CountTypes'
    BY <1>0, <1>20 DEF Publish, Goes, NoNews, Free, ServerTypes, CountTypes, InHand, FileTypes,
            Grant,
                 OptCredential, Credential, files, local, server, history, counters
  <2>4. Exclusion'
    BY <1>0, <1>20 DEF Publish, Goes, NoNews, Free, Exclusion, CallTypes, UnderLock, Phase,
            files, local, server, history, counters
  <2>5. InHand'
    BY <1>0, <1>20, GenType DEF Publish, Goes, NoNews, Free, InHand, Exclusion, UnderLock,
            FileTypes, CallTypes,
        ServerTypes, files, local, server, history, counters
  <2> QED
    BY <2>1, <2>2, <2>3, <2>4, <2>5 DEF TInv
<1>21. CASE PollGranted(c)
  <2>0. issued' \in Grant
    BY <1>0, <1>21 DEF PollGranted, ServerTypes, Grant
  <2>1. FileTypes'
    BY <1>0, <1>21, GenType, NewStateType, StateOps
       DEF PollGranted, Goes, Keeps, FileTypes, InHand, Status, files, local, server, history,
               counters
  <2>2. CallTypes'
    BY <1>0, <1>21, <2>0 DEF PollGranted, Goes, Keeps, CallTypes, Phase, files, local, server,
            history, counters
  <2>3. ServerTypes' /\ CountTypes'
    BY <1>0, <1>21 DEF PollGranted, Goes, Keeps, ServerTypes, CountTypes, InHand, FileTypes,
            Grant,
                 OptCredential, Credential, files, local, server, history, counters
  <2>4. Exclusion'
    BY <1>0, <1>21 DEF PollGranted, Goes, Keeps, Exclusion, CallTypes, UnderLock, Phase, files,
            local, server, history, counters
  <2>5. InHand'
    BY <1>0, <1>21, <2>0 DEF PollGranted, Goes, Keeps, InHand, CallTypes, files, local, server,
            history, counters
  <2> QED
    BY <2>1, <2>2, <2>3, <2>4, <2>5 DEF TInv
<1>22. CASE PollFails(c)
  <2>1. FileTypes'
    BY <1>0, <1>22, GenType, NewStateType, StateOps
       DEF PollFails, Goes, NoNews, FileTypes, InHand, Status, files, local, server, history,
               counters
  <2>2. CallTypes'
    BY <1>0, <1>22, GenType DEF PollFails, Goes, NoNews, FileTypes, CallTypes, InHand, Phase,
            files, local, server, history, counters
  <2>3. ServerTypes' /\ CountTypes'
    BY <1>0, <1>22 DEF PollFails, Goes, NoNews, ServerTypes, CountTypes, InHand, FileTypes,
            Grant,
                 OptCredential, Credential, files, local, server, history, counters
  <2>4. Exclusion'
    BY <1>0, <1>22 DEF PollFails, Goes, NoNews, Exclusion, CallTypes, UnderLock, Phase, files,
            local, server, history, counters
  <2>5. InHand'
    BY <1>0, <1>22, GenType DEF PollFails, Goes, NoNews, InHand, Exclusion, UnderLock,
            FileTypes, CallTypes,
        ServerTypes, files, local, server, history, counters
  <2> QED
    BY <2>1, <2>2, <2>3, <2>4, <2>5 DEF TInv
<1>23. CASE Commit(c)
  <2>0. NewLogin(c) \in Credential /\ NewLogin(c) \in OptCredential
    <3>1. got[c] \in Grant
      BY <1>0, <1>23 DEF Commit, InHand
    <3> QED
      BY <1>0, <3>1, GenType DEF NewLogin, Credential, OptCredential, FileTypes
  <2>1. FileTypes'
    BY <1>0, <1>23, <2>0, StoreType DEF Commit, FileTypes, Keeps, files, local, server,
            history, counters
  <2>2. CallTypes'
    BY <1>0, <1>23, GenType, StoreType, SeesType DEF Commit, Goes, Keeps, Free, NewLogin,
            Holds, FileTypes, CallTypes, InHand, Phase, files, local, server, history, counters
  <2>3. ServerTypes' /\ CountTypes'
    BY <1>0, <1>23, StoreType, SeesType DEF Commit, Goes, Keeps, Free, NewLogin, Holds,
            ServerTypes, CountTypes, InHand, FileTypes, Grant,
                 OptCredential, Credential, files, local, server, history, counters
  <2>4. Exclusion'
    BY <1>0, <1>23 DEF Commit, Goes, Keeps, Free, NewLogin, Holds, Exclusion, CallTypes,
            UnderLock, Phase, files, local, server, history, counters
  <2>5. InHand'
    BY <1>0, <1>23, <2>0, StoreType DEF Commit, Goes, Keeps, Free, InHand, Exclusion, UnderLock,
        CallTypes, files, local, server, history, counters
  <2> QED
    BY <2>1, <2>2, <2>3, <2>4, <2>5 DEF TInv
<1>24. CASE CommitState(c)
  <2>1. FileTypes'
    <3>1. disk.gen \in Nat
      BY <1>0, <1>24 DEF CommitState, InHand, Credential
    <3>2. state' \in State
      BY <1>0, <1>24, <3>1, NewStateType DEF CommitState, Status
    <3> QED
      BY <1>0, <1>24, <3>2 DEF CommitState, FileTypes, NoNews, files, local, server, history,
              counters
  <2>2. CallTypes'
    BY <1>0, <1>24, GenType DEF CommitState, Goes, NoNews, FileTypes, CallTypes, InHand, Phase,
            files, local, server, history, counters
  <2>3. ServerTypes' /\ CountTypes'
    BY <1>0, <1>24 DEF CommitState, Goes, NoNews, ServerTypes, CountTypes, InHand, FileTypes,
            Grant,
                 OptCredential, Credential, files, local, server, history, counters
  <2>4. Exclusion'
    BY <1>0, <1>24 DEF CommitState, Goes, NoNews, Exclusion, CallTypes, UnderLock, Phase,
            files, local, server, history, counters
  <2>5. InHand'
    BY <1>0, <1>24, GenType DEF CommitState, Goes, NoNews, InHand, Exclusion, UnderLock,
            FileTypes, CallTypes,
        ServerTypes, files, local, server, history, counters
  <2> QED
    BY <2>1, <2>2, <2>3, <2>4, <2>5 DEF TInv
<1>25. CASE CommitEnds(c)
  <2>1. FileTypes'
    BY <1>0, <1>25, GenType, NewStateType, StateOps
       DEF CommitEnds, Goes, Leaves, NoNews, FileTypes, InHand, Status, files, local, server,
               history, counters
  <2>2. CallTypes'
    BY <1>0, <1>25, GenType DEF CommitEnds, Goes, Leaves, NoNews, FileTypes, CallTypes, InHand,
            Phase, files, local, server, history, counters
  <2>3. ServerTypes' /\ CountTypes'
    BY <1>0, <1>25 DEF CommitEnds, Goes, Leaves, NoNews, ServerTypes, CountTypes, InHand,
            FileTypes, Grant,
                 OptCredential, Credential, files, local, server, history, counters
  <2>4. Exclusion'
    BY <1>0, <1>25 DEF CommitEnds, Goes, Leaves, NoNews, Exclusion, CallTypes, UnderLock,
            Phase, files, local, server, history, counters
  <2>5. InHand'
    BY <1>0, <1>25, GenType DEF CommitEnds, Goes, Leaves, NoNews, InHand, Exclusion, UnderLock,
            FileTypes, CallTypes,
        ServerTypes, files, local, server, history, counters
  <2> QED
    BY <2>1, <2>2, <2>3, <2>4, <2>5 DEF TInv
<1>26. CASE Rollback(c)
  <2>1. FileTypes'
    BY <1>0, <1>26, GenType, NewStateType, StateOps, StoreType
       DEF Rollback, Goes, Leaves, NoNews, FileTypes, InHand, Status, files, local, server,
               history, counters
  <2>2. CallTypes'
    BY <1>0, <1>26, GenType, StoreType DEF Rollback, Goes, Leaves, NoNews, FileTypes,
            CallTypes, InHand, Phase, files, local, server, history, counters
  <2>3. ServerTypes' /\ CountTypes'
    BY <1>0, <1>26, StoreType DEF Rollback, Goes, Leaves, NoNews, ServerTypes, CountTypes,
            InHand, FileTypes, Grant,
                 OptCredential, Credential, files, local, server, history, counters
  <2>4. Exclusion'
    BY <1>0, <1>26 DEF Rollback, Goes, Leaves, NoNews, Exclusion, CallTypes, UnderLock, Phase,
            files, local, server, history, counters
  <2>5. InHand'
    BY <1>0, <1>26, GenType, StoreType DEF Rollback, Goes, Leaves, NoNews, InHand, Exclusion,
            UnderLock, FileTypes, CallTypes,
        ServerTypes, files, local, server, history, counters
  <2> QED
    BY <2>1, <2>2, <2>3, <2>4, <2>5 DEF TInv
<1>27. CASE ReleaseLease(c)
  <2>1. FileTypes'
    BY <1>0, <1>27, GenType, NewStateType, StateOps
       DEF ReleaseLease, Goes, Free, NoNews, FileTypes, InHand, Status, files, local, server,
               history, counters
  <2>2. CallTypes'
    BY <1>0, <1>27, GenType DEF ReleaseLease, Goes, Free, NoNews, FileTypes, CallTypes, InHand,
            Phase, files, local, server, history, counters
  <2>3. ServerTypes' /\ CountTypes'
    BY <1>0, <1>27 DEF ReleaseLease, Goes, Free, NoNews, ServerTypes, CountTypes, InHand,
            FileTypes, Grant,
                 OptCredential, Credential, files, local, server, history, counters
  <2>4. Exclusion'
    BY <1>0, <1>27 DEF ReleaseLease, Goes, Free, NoNews, Exclusion, CallTypes, UnderLock,
            Phase, files, local, server, history, counters
  <2>5. InHand'
    BY <1>0, <1>27, GenType DEF ReleaseLease, Goes, Free, NoNews, InHand, Exclusion, UnderLock,
            FileTypes, CallTypes,
        ServerTypes, files, local, server, history, counters
  <2> QED
    BY <2>1, <2>2, <2>3, <2>4, <2>5 DEF TInv
<1> QED
  BY <1>1, <1>2, <1>3, <1>4, <1>5, <1>6, <1>7, <1>8, <1>9, <1>10, <1>11, <1>12, <1>13, <1>14,
          <1>15, <1>16, <1>17, <1>18, <1>19, <1>20, <1>21, <1>22, <1>23, <1>24, <1>25, <1>26,
          <1>27 DEF Step

\* What a failing write remembers is of the kinds that are written.
LEMMA Written ==
    ASSUME TInv, NEW c \in Client
    PROVE  /\ pc[c] = "granted" => Refreshed(c) \in Credential
           /\ pc[c] = "commit" => NewLogin(c) \in Credential
<1>1. state \in State /\ Stored(c) \in OptCredential /\ InHand
  BY StoredType DEF TInv, FileTypes
<1>2. seen[c].state \in State /\ seen[c].cred \in OptCredential
  BY DEF TInv, CallTypes
<1>3. CASE pc[c] = "granted"
  <2>1. seen[c].cred \in Credential /\ got[c] \in Grant
    BY <1>1, <1>3 DEF InHand
  <2>2. Highest(seen[c].state, seen[c].cred) + 1 \in Nat
    BY <1>2, GenType
  <2> QED
    BY <1>3, <2>1, <2>2 DEF Refreshed, Credential
<1>4. CASE pc[c] = "commit"
  <2>1. got[c] \in Grant
    BY <1>1, <1>4 DEF InHand
  <2> QED
    BY <1>1, <1>4, <2>1, GenType DEF NewLogin, Credential
<1> QED
  BY <1>3, <1>4

\* A failing write ends the call, or sends its login to release the lease.
LEMMA WriteFailsForm ==
    ASSUME TInv, NEW c \in Client, WriteFails(c)
    PROVE  /\ UNCHANGED <<state, disk, seen, kind, got, token, aborted,
                          ended, replaced, stale, calls, crashes, cancels>>
           /\ faults' = faults + 1
           /\ \E p \in {"idle", "failing"} : Goes(c, p)
           /\ \/ lock = None /\ lock' = None /\ pc[c] \notin UnderLock
              \/ lock' = None /\ pc[c] \in UnderLock
           /\ \/ UNCHANGED <<issued, live, losses, misused>> /\ MishapLeft
              \/ /\ UNCHANGED cache
                 /\ issued' \in 0 .. MaxGrant /\ live' \subseteq Grant /\ misused' \in BOOLEAN
                 /\ losses' \in {losses, losses + 1}
                 /\ losses' + crashes + cancels + faults' <= MaxMishap
           /\ \/ UNCHANGED cache \/ Caches(c) \/ Remembers(c, None)
              \/ pc[c] = "granted" /\ Remembers(c, Refreshed(c))
              \/ pc[c] = "commit" /\ Remembers(c, NewLogin(c))
              \/ pc[c] = "rollback" /\ Remembers(c, seen[c].cred)
<1> USE DEF UnderLock
<1>1. CASE FirstWriteFails(c)
  BY <1>1 DEF FirstWriteFails, Free, Writes, Fault, NoNewsButFault, server, history
<1>2. CASE StateWriteFails(c)
  BY <1>2 DEF StateWriteFails, Leaves, Fault, NoNewsButFault, server, history
<1>3. CASE SecretWriteFails(c)
  BY <1>3 DEF SecretWriteFails, Leaves, Free, Fault, NoNewsButFault, server, history
<1>4. CASE OutcomeWriteFails(c)
  <2>1. issued \in 0 .. MaxGrant /\ live \subseteq Grant /\ misused \in BOOLEAN
    BY DEF TInv, ServerTypes
  <2>2. \/ UNCHANGED <<issued, live, stale>>
        \/ \E g : Rotates(g)
        \/ UNCHANGED <<issued, stale>> /\ \E g : live' = live \ {g}
    <3>1. CASE pc[c] = "refresh"
      BY <1>4, <3>1 DEF OutcomeWriteFails, server
    <3>2. CASE pc[c] = "leaving"
      BY <1>4, <3>2 DEF OutcomeWriteFails, server
    <3> QED
      BY <1>4, <3>1, <3>2 DEF OutcomeWriteFails
  <2>3. issued' \in 0 .. MaxGrant /\ live' \subseteq Grant /\ stale' = stale
    BY <2>1, <2>2, RotatesType
  <2>4. misused' \in BOOLEAN /\ losses' \in {losses, losses + 1}
    BY <1>4, <2>1 DEF OutcomeWriteFails
  <2> QED
    BY <1>4, <2>3, <2>4 DEF OutcomeWriteFails, Leaves
<1> QED
  BY <1>1, <1>2, <1>3, <1>4 DEF WriteFails

LEMMA WriteFailsTypes ==
    ASSUME TInv, NEW c \in Client, WriteFails(c)
    PROVE  TInv'
<1>0. /\ FileTypes /\ CallTypes /\ ServerTypes /\ CountTypes /\ Exclusion /\ InHand
      /\ None \notin Client /\ None \in OptCredential /\ Credential \subseteq OptCredential
  BY ConstantsAssumption DEF TInv, OptCredential
<1>1. FileTypes'
  <2>1. cache' \in [Process -> OptCredential \cup {Unread}]
    <3>1. seen[c].cred \in OptCredential
      BY <1>0 DEF CallTypes
    <3> QED
      BY <1>0, <3>1, Written, WriteFailsForm, CachesType DEF Remembers, FileTypes
  <2> QED
    BY <1>0, <2>1, WriteFailsForm DEF FileTypes
<1>2. CallTypes'
  BY <1>0, WriteFailsForm DEF CallTypes, Goes, Phase
<1>3. ServerTypes'
  BY <1>0, WriteFailsForm DEF ServerTypes
<1>4. CountTypes' /\ losses' \in Nat /\ faults' \in Nat
  BY <1>0, WriteFailsForm, Bounds DEF CountTypes, InHand, MishapLeft
<1>5. Exclusion'
  BY <1>0, WriteFailsForm DEF Exclusion, CallTypes, Goes, UnderLock
<1>6. InHand'
  BY <1>0, <1>4, WriteFailsForm DEF InHand, CallTypes, Goes
<1> QED
  BY <1>1, <1>2, <1>3, <1>4, <1>5, <1>6 DEF TInv

LEMMA OtherTypes ==
    ASSUME TInv, Next, \A c \in Client : ~Step(c)
    PROVE  TInv'
<1> USE Bounds
<1>0. /\ FileTypes /\ CallTypes /\ ServerTypes /\ CountTypes /\ Exclusion /\ InHand
      /\ None \notin Client /\ Dead \notin Client /\ Dead # None /\ None \in OptCredential
  BY ConstantsAssumption DEF TInv, OptCredential
<1>1. ASSUME NEW c \in Client, NEW k \in Kind, Start(c, k) PROVE TInv'
  <2>1. PICK p \in Phase \ UnderLock : p \notin {"commit"} /\ Goes(c, p)
    BY <1>1 DEF Start, Kind, Phase, UnderLock
  <2>2. CallTypes' /\ Exclusion' /\ InHand'
    BY <1>0, <1>1, <2>1 DEF Start, Goes, CallTypes, Exclusion, InHand, UnderLock, files, local,
            server, history, counters
  <2>3. FileTypes' /\ ServerTypes' /\ CountTypes'
    BY <1>0, <1>1 DEF Start, FileTypes, ServerTypes, CountTypes, files, local, server, history,
            counters
  <2> QED
    BY <2>2, <2>3 DEF TInv
<1>2. ASSUME NEW c \in Client, Cancel(c) PROVE TInv'
  <2>1. CountTypes'
    BY <1>0, <1>2 DEF Cancel, MishapLeft, CountTypes, InHand
  <2>2. CallTypes' /\ Exclusion' /\ InHand' /\ FileTypes' /\ ServerTypes'
    BY <1>0, <1>2 DEF Cancel, CallTypes, Exclusion, InHand, FileTypes, ServerTypes, files,
            local, server, history, counters
  <2> QED
    BY <2>1, <2>2 DEF TInv
<1>3. ASSUME NEW c \in Client, LockTimeout(c) PROVE TInv'
  <2>1. CallTypes' /\ Exclusion' /\ InHand'
    BY <1>0, <1>3 DEF LockTimeout, Goes, NoNews, CallTypes, Phase, Exclusion, InHand,
            UnderLock, files, local, server, history, counters
  <2>2. FileTypes' /\ ServerTypes' /\ CountTypes'
    BY <1>0, <1>3 DEF LockTimeout, NoNews, FileTypes, ServerTypes, CountTypes, files, local,
            server, history, counters
  <2> QED
    BY <2>1, <2>2 DEF TInv
<1>4. ASSUME NEW p \in Process, Crash(p) PROVE TInv'
  <2>1. CountTypes'
    BY <1>0, <1>4 DEF Crash, MishapLeft, CountTypes, InHand
  <2>2. CallTypes' /\ FileTypes' /\ ServerTypes'
    BY <1>0, <1>4 DEF Crash, CallTypes, Phase, FileTypes, ServerTypes, files, local, server,
            history, counters
  <2>3. Exclusion'
    BY <1>0, <1>4 DEF Crash, At, CallTypes, Exclusion, UnderLock
  <2>4. InHand'
    BY <1>0, <1>4 DEF Crash, CallTypes, InHand
  <2> QED
    BY <2>1, <2>2, <2>3, <2>4 DEF TInv
<1>5. ASSUME NEW g \in Grant, ExpireToken(g) PROVE TInv'
  BY <1>0, <1>5 DEF ExpireToken, TInv, FileTypes, CallTypes, ServerTypes, CountTypes,
        Exclusion, InHand, files, local, server, history, counters
<1>6. ASSUME StaleLock PROVE TInv'
  <2>1. Exclusion'
    BY <1>0, <1>6 DEF StaleLock, Exclusion, local
  <2> QED
    BY <1>0, <1>6, <2>1 DEF StaleLock, TInv, FileTypes, CallTypes, ServerTypes, CountTypes,
        InHand, files, local, server, history, counters
<1>7. ASSUME ExpireLease PROVE TInv'
  <2>1. FileTypes'
    BY <1>0, <1>7, StateOps DEF ExpireLease, FileTypes, files, local, server, history, counters
  <2> QED
    BY <1>0, <1>7, <2>1 DEF ExpireLease, TInv, CallTypes, ServerTypes, CountTypes, Exclusion,
        InHand, files, local, server, history, counters
<1>8. ASSUME NEW c \in Client, WriteFails(c) PROVE TInv'
  BY <1>8, WriteFailsTypes
<1> QED
  BY <1>1, <1>2, <1>3, <1>4, <1>5, <1>6, <1>7, <1>8 DEF Next

LEMMA StutterTypes ==
    ASSUME TInv, UNCHANGED vars
    PROVE  TInv'
BY DEF vars, TInv, FileTypes, CallTypes, ServerTypes, CountTypes, Exclusion, InHand, files,
        local, server, history, counters

LEMMA TypesHold == Spec => []TInv
<1>1. TInv /\ [Next]_vars => TInv'
  BY StepTypes, OtherTypes, StutterTypes
<1> QED
  BY <1>1, InitTypes, PTL DEF Spec

\* A call is in a section under the lock exactly while the lock is its own, and
\* every file and every call keeps its type: withLock (auth-core.ts).
THEOREM SharedLoginTypes == Spec => []TypeOK
<1>1. TInv => TypeOK
  BY DEF TInv, FileTypes, CallTypes, ServerTypes, CountTypes, Exclusion, TypeOK
<1> QED
  BY <1>1, TypesHold, PTL
=============================================================================
