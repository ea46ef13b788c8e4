----------------------- MODULE SharedLoginSafetyProofs -----------------------
(***************************************************************************)
(* The shared account, for every number of processes and calls: what holds *)
(* inside each section under the lock, which credentials are about, that a *)
(* refresh token is presented once, that a state never stands without its  *)
(* secret, and that a login which was ended stays out.                     *)
(***************************************************************************)
EXTENDS SharedLoginProofs

----------------------------------------------------------------------------
(* The sections under the lock.                                            *)

\* Who has the lock finds the files as it left them.
LEMMA OthersInSection ==
    ASSUME TInv, NEW c \in Client, Step(c), NEW d \in Client, d # c
    PROVE  /\ pc'[d] = pc[d] /\ seen'[d] = seen[d] /\ got'[d] = got[d]
           /\ lock = d => state' = state /\ disk' = disk /\ lock' = lock
<1>0. Exclusion /\ CallTypes /\ None \notin Client
  BY ConstantsAssumption DEF TInv
<1>1. CASE PeekState(c)
  BY <1>0, <1>1 DEF PeekState, Sees, Goes, NoNews, Loads, Settled, Exclusion, CallTypes,
          UnderLock, files, local, server, history, counters
<1>2. CASE Load(c)
  BY <1>0, <1>2 DEF Load, Sees, Goes, NoNews, Decides, Takes, Exclusion, CallTypes, UnderLock,
          files, local, server, history, counters
<1>3. CASE Land(c)
  BY <1>0, <1>3 DEF Land, Goes, NoNews, Decides, Takes, Exclusion, CallTypes, UnderLock, files,
          local, server, history, counters
<1>4. CASE Recover(c)
  BY <1>0, <1>4 DEF Recover, Goes, NoNews, Caches, Free, Interrupted, Exclusion, CallTypes,
          UnderLock, files, local, server, history, counters
<1>5. CASE Claim(c)
  BY <1>0, <1>5 DEF Claim, Goes, NoNews, Caches, Free, Refreshes, Settles,
          Usable, Again, BeginsRefresh, Sees, Takes, Exclusion, CallTypes, UnderLock,
          files, local, server, history, counters
<1>6. CASE RefreshGranted(c)
  BY <1>0, <1>6 DEF RefreshGranted, Goes, Rotates, Keeps, Exclusion, CallTypes, UnderLock,
          files, local, server, history, counters
<1>7. CASE RefreshRejected(c)
  BY <1>0, <1>7 DEF RefreshRejected, Goes, Keeps, Exclusion, CallTypes, UnderLock, files,
          local, server, history, counters
<1>8. CASE RefreshFails(c)
  BY <1>0, <1>8 DEF RefreshFails, Goes, Leaves, Rotates, Exclusion, CallTypes, UnderLock,
          files, local, server, history, counters
<1>9. CASE StoreRefreshed(c)
  BY <1>0, <1>9 DEF StoreRefreshed, Refreshed, Goes, Store, NoNews, Exclusion, CallTypes,
        UnderLock,
          files, local, server, history, counters
<1>10. CASE FinishRefresh(c)
  BY <1>0, <1>10 DEF FinishRefresh, Goes, Leaves, Takes, NoNews, Exclusion, CallTypes,
          UnderLock, files, local, server, history, counters
<1>11. CASE EraseRejected(c)
  BY <1>0, <1>11 DEF EraseRejected, Goes, Leaves, Store, Again, NoNews, Exclusion, CallTypes,
          UnderLock, files, local, server, history, counters
<1>12. CASE Logout(c)
  BY <1>0, <1>12 DEF Logout, Goes, Sees, Caches, SignedOut, Keeps, Free, Epochs, Exclusion,
          CallTypes, UnderLock, files, local, server, history, counters
<1>13. CASE Revoke(c)
  BY <1>0, <1>13 DEF Revoke, Goes, Leaves, Exclusion, CallTypes, UnderLock, files, local,
          server, history, counters
<1>14. CASE EraseLogin(c)
  BY <1>0, <1>14 DEF EraseLogin, Goes, Store, NoNews, Exclusion, CallTypes, UnderLock, files,
          local, server, history, counters
<1>15. CASE FinishLogout(c)
  BY <1>0, <1>15 DEF FinishLogout, Goes, Leaves, NoNews, Exclusion, CallTypes, UnderLock,
          files, local, server, history, counters
<1>16. CASE Login(c)
  BY <1>0, <1>16 DEF Login, Goes, Sees, Caches, Decide, Waits, Authorizing, Free, NoNews,
        Exclusion,
          CallTypes, UnderLock, files, local, server, history, counters
<1>17. CASE Reread(c)
  BY <1>0, <1>17 DEF Reread, Goes, Again, NoNews, Exclusion, CallTypes, UnderLock, files,
          local, server, history, counters
<1>18. CASE Wait(c)
  BY <1>0, <1>18 DEF Wait, Goes, Caches, NoNews, Exclusion, CallTypes, UnderLock, files, local,
          server, history, counters
<1>19. CASE Device(c)
  BY <1>0, <1>19 DEF Device, Goes, NoNews, Exclusion, CallTypes, UnderLock, files, local,
          server, history, counters
<1>20. CASE Publish(c)
  BY <1>0, <1>20 DEF Publish, Goes, NoNews, Free, Exclusion, CallTypes, UnderLock, files,
          local, server, history, counters
<1>21. CASE PollGranted(c)
  BY <1>0, <1>21 DEF PollGranted, Goes, Keeps, Exclusion, CallTypes, UnderLock, files, local,
          server, history, counters
<1>22. CASE PollFails(c)
  BY <1>0, <1>22 DEF PollFails, Goes, NoNews, Exclusion, CallTypes, UnderLock, files, local,
          server, history, counters
<1>23. CASE Commit(c)
  BY <1>0, <1>23 DEF Commit, Goes, Keeps, Free, Store, Sees, NewLogin, Holds, Exclusion,
          CallTypes, UnderLock, files, local, server, history, counters
<1>24. CASE CommitState(c)
  BY <1>0, <1>24 DEF CommitState, Goes, NoNews, Exclusion, CallTypes, UnderLock, files, local,
          server, history, counters
<1>25. CASE CommitEnds(c)
  BY <1>0, <1>25 DEF CommitEnds, Goes, Leaves, NoNews, Exclusion, CallTypes, UnderLock, files,
          local, server, history, counters
<1>26. CASE Rollback(c)
  BY <1>0, <1>26 DEF Rollback, Goes, Leaves, Store, NoNews, Exclusion, CallTypes, UnderLock,
          files, local, server, history, counters
<1>27. CASE ReleaseLease(c)
  BY <1>0, <1>27 DEF ReleaseLease, Goes, Free, NoNews, Exclusion, CallTypes, UnderLock, files,
          local, server, history, counters
<1> QED
  BY <1>1, <1>2, <1>3, <1>4, <1>5, <1>6, <1>7, <1>8, <1>9, <1>10, <1>11, <1>12, <1>13, <1>14,
          <1>15, <1>16, <1>17, <1>18, <1>19, <1>20, <1>21, <1>22, <1>23, <1>24, <1>25, <1>26,
          <1>27 DEF Step

\* What a step of a call leaves to others: who may change the state without the
\* lock, who ends logins, and how a call comes to a commit or to a rollback.
LEMMA StepEffects ==
    ASSUME TInv, NEW c \in Client, Step(c)
    PROVE  /\ UNCHANGED <<aborted, crashes, cancels, faults>>
           /\ issued' \in {issued, issued + 1}
           /\ ended' = ended \/ Logout(c)
           /\ pc'[c] = "commit" => PollGranted(c)
           /\ pc'[c] = "committing" => Commit(c)
           /\ pc'[c] = "committed" => CommitState(c)
           /\ pc'[c] = "rollback" => c \in aborted
           /\ lock # c => \/ state' = state \/ Recover(c) \/ Claim(c) \/ Logout(c)
                          \/ Login(c) \/ ReleaseLease(c)
<1>0. Exclusion /\ CallTypes
  BY DEF TInv
<1>1. CASE PeekState(c)
  BY <1>0, <1>1 DEF PeekState, Sees, Goes, NoNews, Loads, Settled, files, Exclusion,
          CallTypes, UnderLock, local, server, history, counters
<1>2. CASE Load(c)
  BY <1>0, <1>2 DEF Load, Sees, Goes, NoNews, Decides, Takes, files, Exclusion, CallTypes,
          UnderLock, local, server, history, counters
<1>3. CASE Land(c)
  BY <1>0, <1>3 DEF Land, Goes, NoNews, Decides, Takes, files, Exclusion, CallTypes,
          UnderLock, local, server, history, counters
<1>4. CASE Recover(c)
  BY <1>0, <1>4 DEF Recover, Goes, NoNews, Caches, Free, Interrupted, files, Exclusion,
          CallTypes, UnderLock, local, server, history, counters
<1>5. CASE Claim(c)
  BY <1>0, <1>5 DEF Claim, Goes, NoNews, Caches, Free, Refreshes, Settles,
          Usable, Again, BeginsRefresh, Sees, Takes, files, Exclusion, CallTypes,
          UnderLock, local, server, history, counters
<1>6. CASE RefreshGranted(c)
  BY <1>0, <1>6 DEF RefreshGranted, Goes, Rotates, Keeps, files, Exclusion, CallTypes,
          UnderLock, local, server, history, counters
<1>7. CASE RefreshRejected(c)
  BY <1>0, <1>7 DEF RefreshRejected, Goes, Keeps, files, Exclusion, CallTypes, UnderLock,
          local, server, history, counters
<1>8. CASE RefreshFails(c)
  BY <1>0, <1>8 DEF RefreshFails, Goes, Leaves, Rotates, files, Exclusion, CallTypes,
          UnderLock, local, server, history, counters
<1>9. CASE StoreRefreshed(c)
  BY <1>0, <1>9 DEF StoreRefreshed, Refreshed, Goes, Store, NoNews, files, Exclusion, CallTypes,
          UnderLock, local, server, history, counters
<1>10. CASE FinishRefresh(c)
  BY <1>0, <1>10 DEF FinishRefresh, Goes, Leaves, Takes, NoNews, files, Exclusion,
          CallTypes, UnderLock, local, server, history, counters
<1>11. CASE EraseRejected(c)
  BY <1>0, <1>11 DEF EraseRejected, Goes, Leaves, Store, Again, NoNews, files, Exclusion,
          CallTypes, UnderLock, local, server, history, counters
<1>12. CASE Logout(c)
  BY <1>0, <1>12 DEF Logout, Goes, Sees, Caches, SignedOut, Keeps, Free, Epochs, files,
          Exclusion, CallTypes, UnderLock, local, server, history, counters
<1>13. CASE Revoke(c)
  BY <1>0, <1>13 DEF Revoke, Goes, Leaves, files, Exclusion, CallTypes, UnderLock, local,
          server, history, counters
<1>14. CASE EraseLogin(c)
  BY <1>0, <1>14 DEF EraseLogin, Goes, Store, NoNews, files, Exclusion, CallTypes,
          UnderLock, local, server, history, counters
<1>15. CASE FinishLogout(c)
  BY <1>0, <1>15 DEF FinishLogout, Goes, Leaves, NoNews, files, Exclusion, CallTypes,
          UnderLock, local, server, history, counters
<1>16. CASE Login(c)
  BY <1>0, <1>16 DEF Login, Goes, Sees, Caches, Decide, Waits, Authorizing, Free, NoNews, files,
          Exclusion, CallTypes, UnderLock, local, server, history, counters
<1>17. CASE Reread(c)
  BY <1>0, <1>17 DEF Reread, Goes, Again, NoNews, files, Exclusion, CallTypes, UnderLock,
          local, server, history, counters
<1>18. CASE Wait(c)
  BY <1>0, <1>18 DEF Wait, Goes, Caches, NoNews, files, Exclusion, CallTypes, UnderLock,
          local, server, history, counters
<1>19. CASE Device(c)
  BY <1>0, <1>19 DEF Device, Goes, NoNews, files, Exclusion, CallTypes, UnderLock, local,
          server, history, counters
<1>20. CASE Publish(c)
  BY <1>0, <1>20 DEF Publish, Goes, NoNews, Free, files, Exclusion, CallTypes, UnderLock,
          local, server, history, counters
<1>21. CASE PollGranted(c)
  BY <1>0, <1>21 DEF PollGranted, Goes, Keeps, files, Exclusion, CallTypes, UnderLock,
          local, server, history, counters
<1>22. CASE PollFails(c)
  BY <1>0, <1>22 DEF PollFails, Goes, NoNews, files, Exclusion, CallTypes, UnderLock,
          local, server, history, counters
<1>23. CASE Commit(c)
  BY <1>0, <1>23 DEF Commit, Goes, Keeps, Free, Store, Sees, NewLogin, Holds, files,
          Exclusion, CallTypes, UnderLock, local, server, history, counters
<1>24. CASE CommitState(c)
  BY <1>0, <1>24 DEF CommitState, Goes, NoNews, files, Exclusion, CallTypes, UnderLock,
          local, server, history, counters
<1>25. CASE CommitEnds(c)
  BY <1>0, <1>25 DEF CommitEnds, Goes, Leaves, NoNews, files, Exclusion, CallTypes,
          UnderLock, local, server, history, counters
<1>26. CASE Rollback(c)
  BY <1>0, <1>26 DEF Rollback, Goes, Leaves, Store, NoNews, files, Exclusion, CallTypes,
          UnderLock, local, server, history, counters
<1>27. CASE ReleaseLease(c)
  BY <1>0, <1>27 DEF ReleaseLease, Goes, Free, NoNews, files, Exclusion, CallTypes,
          UnderLock, local, server, history, counters
<1> QED
  BY <1>1, <1>2, <1>3, <1>4, <1>5, <1>6, <1>7, <1>8, <1>9, <1>10, <1>11, <1>12, <1>13,
          <1>14, <1>15, <1>16, <1>17, <1>18, <1>19, <1>20, <1>21, <1>22, <1>23, <1>24,
          <1>25, <1>26, <1>27 DEF Step

LEMMA StateFields ==
    ASSUME NEW s \in State, NEW status
    PROVE  /\ [s EXCEPT !.status = status].status = status
           /\ [s EXCEPT !.status = status].gen = s.gen
           /\ [s EXCEPT !.live = FALSE].gen = s.gen
           /\ [s EXCEPT !.live = FALSE].status = s.status
BY DEF State

\* What a call has seen and done, at each step of its section.
Section(c) ==
    /\ pc[c] \in {"refresh", "granted", "stored"} => state.status = "refreshing"
    /\ pc[c] \in {"refresh", "granted"} =>
           /\ seen[c].state.gen = state.gen /\ seen[c].cred.gen = state.gen
           /\ seen[c].state.status \in Settled
    /\ pc[c] = "stored" => disk.gen = state.gen + 1
    /\ pc[c] = "rejected" => state.status = "anonymous"
    /\ pc[c] \in {"leaving", "revoked", "erased"} => state.status = "logging_out"
    /\ pc[c] = "leaving" /\ seen[c].cred # None => seen[c].cred.gen < state.gen
    /\ pc[c] = "committing" =>
           /\ state.status = "authorizing" /\ seen[c].state.gen = state.gen /\ state.gen < disk.gen
           /\ seen[c].state.status = "authorizing"
    /\ pc[c] = "committed" =>
           /\ state.status = "authenticated" /\ disk.gen = state.gen
           /\ seen[c].state.status = "authorizing" /\ seen[c].state.gen < state.gen
Sections == \A c \in Client : Section(c)

LEMMA OwnSection ==
    ASSUME TInv, NEW c \in Client, Section(c), Step(c)
    PROVE  Section(c)'
<1>0. /\ Exclusion /\ CallTypes /\ FileTypes /\ InHand /\ None \notin Client
      /\ Stored(c) \in OptCredential /\ state.gen \in Nat /\ seen[c].state \in State
      /\ seen[c].state.gen \in Nat /\ seen[c].cred \in OptCredential
  <2>1. Exclusion /\ CallTypes /\ FileTypes /\ InHand /\ None \notin Client
    BY ConstantsAssumption DEF TInv
  <2>2. seen[c].state \in State /\ seen[c].cred \in OptCredential /\ state \in State
    BY <2>1 DEF CallTypes, FileTypes
  <2> QED
    BY <2>1, <2>2, StateOps, StoredType
<1>1. CASE PeekState(c)
  BY <1>0, <1>1 DEF PeekState, Sees, Goes, NoNews, Loads, Settled, Section, Exclusion,
          CallTypes, UnderLock, files, local, server, history, counters
<1>2. CASE Load(c)
  BY <1>0, <1>2 DEF Load, Sees, Goes, NoNews, Decides, Takes, Section, Exclusion, CallTypes,
          UnderLock, files, local, server, history, counters
<1>3. CASE Land(c)
  BY <1>0, <1>3 DEF Land, Goes, NoNews, Decides, Takes, Section, Exclusion, CallTypes,
          UnderLock, files, local, server, history, counters
<1>4. CASE Recover(c)
  BY <1>0, <1>4 DEF Recover, Goes, NoNews, Caches, Free, Interrupted, Section, Exclusion,
          CallTypes, UnderLock, files, local, server, history, counters
<1>5. CASE Claim(c)
  <2>1. CASE BeginsRefresh(c, Stored(c)) /\ Usable(state, Stored(c))
    <3>1. "refreshing" \in Status /\ state \in State
      BY <1>0 DEF FileTypes, Status
    <3>2. state'.status = "refreshing" /\ state'.gen = state.gen
      BY <2>1, <3>1, StateFields DEF BeginsRefresh
    <3>3. seen'[c].state = state /\ seen'[c].cred = Stored(c) /\ pc'[c] = "refresh"
      BY <1>0, <2>1, <3>1, SeesType DEF BeginsRefresh, Goes, CallTypes
    <3> QED
      BY <2>1, <3>2, <3>3 DEF Usable, Section, Settled
  <2>2. CASE \E p \in {"idle", "reread", "login"} : Goes(c, p)
    BY <1>0, <2>2 DEF Goes, CallTypes, Section
  <2> QED
    BY <1>5, <2>1, <2>2, ClaimEither
<1>6. CASE RefreshGranted(c)
  BY <1>0, <1>6 DEF RefreshGranted, Goes, Rotates, Keeps, Section, Exclusion, CallTypes,
          UnderLock, files, local, server, history, counters
<1>7. CASE RefreshRejected(c)
  BY <1>0, <1>7 DEF RefreshRejected, Goes, Section, CallTypes, NewState
<1>8. CASE RefreshFails(c)
  BY <1>0, <1>8 DEF RefreshFails, Goes, Leaves, Rotates, Section, Exclusion, CallTypes,
          UnderLock, files, local, server, history, counters
<1>9. CASE StoreRefreshed(c)
  <2> DEFINE cred == seen[c].cred
             high == Highest(seen[c].state, cred)
             new == [cred EXCEPT !.gen = high + 1, !.grant = got[c]]
  <2>1. cred \in Credential /\ cred.gen = state.gen /\ seen[c].state.gen = state.gen
    BY <1>0, <1>9 DEF StoreRefreshed, Refreshed, InHand, Section
  <2>2. high = state.gen
    BY <2>1, <1>0 DEF Highest, GenOf
  <2>3. new.gen = high + 1
    BY <2>1 DEF Credential
  <2>4. disk' = new /\ state' = state /\ pc'[c] = "stored"
    BY <1>0, <1>9 DEF StoreRefreshed, Refreshed, Store, Goes, CallTypes
  <2>5. state.status = "refreshing"
    BY <1>9 DEF StoreRefreshed, Refreshed, Section
  <2> QED
    BY <2>2, <2>3, <2>4, <2>5 DEF Section
<1>10. CASE FinishRefresh(c)
  BY <1>0, <1>10 DEF FinishRefresh, Goes, Leaves, Takes, NoNews, Section, Exclusion, CallTypes,
          UnderLock, files, local, server, history, counters
<1>11. CASE EraseRejected(c)
  BY <1>0, <1>11 DEF EraseRejected, Goes, Leaves, Store, Again, NoNews, Section, Exclusion,
          CallTypes, UnderLock, files, local, server, history, counters
<1>12. CASE Logout(c)
  <2>1. CASE pc'[c] = "idle"
    BY <2>1 DEF Section
  <2>2. CASE pc'[c] # "idle"
    <3>1. state' = NewState("logging_out", Highest(state, Stored(c)) + 1)
      BY <1>0, <1>12, <2>2 DEF Logout, SignedOut, Goes, CallTypes
    <3>2. pc'[c] = "leaving" /\ seen'[c].cred = Stored(c)
      BY <1>0, <1>12, <2>2 DEF Logout, SignedOut, Goes, Sees, CallTypes
    <3>3. Stored(c) # None => Stored(c).gen < Highest(state, Stored(c)) + 1
      <4>1. Stored(c) # None => Stored(c) \in Credential
        BY <1>0 DEF OptCredential
      <4>2. state \in State
        BY <1>0 DEF FileTypes
      <4>3. Stored(c) \in Credential => Stored(c).gen \in Nat
        BY DEF Credential
      <4> QED
        BY <1>0, <4>1, <4>2, <4>3, GenType
    <3> QED
      BY <3>1, <3>2, <3>3 DEF NewState, Section
  <2> QED
    BY <2>1, <2>2
<1>13. CASE Revoke(c)
  BY <1>0, <1>13 DEF Revoke, Goes, Leaves, Section, Exclusion, CallTypes, UnderLock, files,
          local, server, history, counters
<1>14. CASE EraseLogin(c)
  BY <1>0, <1>14 DEF EraseLogin, Goes, Store, NoNews, Section, Exclusion, CallTypes, UnderLock,
          files, local, server, history, counters
<1>15. CASE FinishLogout(c)
  BY <1>0, <1>15 DEF FinishLogout, Goes, Leaves, NoNews, Section, Exclusion, CallTypes,
          UnderLock, files, local, server, history, counters
<1>16. CASE Login(c)
  BY <1>0, <1>16 DEF Login, Goes, Sees, Caches, Decide, Waits, Authorizing, Free, NoNews, Section,
          Exclusion, CallTypes, UnderLock, files, local, server, history, counters
<1>17. CASE Reread(c)
  BY <1>0, <1>17 DEF Reread, Goes, Again, NoNews, Section, Exclusion, CallTypes, UnderLock,
          files, local, server, history, counters
<1>18. CASE Wait(c)
  BY <1>0, <1>18 DEF Wait, Goes, Caches, NoNews, Section, Exclusion, CallTypes, UnderLock,
          files, local, server, history, counters
<1>19. CASE Device(c)
  BY <1>0, <1>19 DEF Device, Goes, NoNews, Section, Exclusion, CallTypes, UnderLock, files,
          local, server, history, counters
<1>20. CASE Publish(c)
  BY <1>0, <1>20 DEF Publish, Goes, NoNews, Free, Section, Exclusion, CallTypes, UnderLock,
          files, local, server, history, counters
<1>21. CASE PollGranted(c)
  BY <1>0, <1>21 DEF PollGranted, Goes, Keeps, Section, Exclusion, CallTypes, UnderLock, files,
          local, server, history, counters
<1>22. CASE PollFails(c)
  BY <1>0, <1>22 DEF PollFails, Goes, NoNews, Section, Exclusion, CallTypes, UnderLock, files,
          local, server, history, counters
<1>23. CASE Commit(c)
  <2>1. CASE pc'[c] = "failing"
    BY <2>1 DEF Section
  <2>2. CASE pc'[c] # "failing"
    <3>1. /\ Holds(c) /\ disk' = NewLogin(c) /\ Sees(c, state, Stored(c)) /\ state' = state
          /\ pc'[c] = "committing"
      BY <1>0, <1>23, <2>2 DEF Commit, Store, Goes, CallTypes
    <3>2. seen'[c].state = state
      BY <1>0, <3>1 DEF Sees, CallTypes
    <3>3. state \in State /\ NewLogin(c).gen = Highest(state, Stored(c)) + 1
      BY <1>0 DEF FileTypes, NewLogin
    <3>4. state.gen < Highest(state, Stored(c)) + 1
      BY <1>0, <3>3, GenType
    <3> QED
      BY <3>1, <3>2, <3>3, <3>4 DEF Holds, Section
  <2> QED
    BY <2>1, <2>2
<1>24. CASE CommitState(c)
  <2>1. CASE pc'[c] = "rollback"
    BY <2>1 DEF Section
  <2>2. CASE pc'[c] # "rollback"
    <3>1. state' = NewState("authenticated", disk.gen) /\ disk' = disk /\ seen' = seen
          /\ pc'[c] = "committed"
      BY <1>0, <1>24, <2>2 DEF CommitState, Goes, CallTypes
    <3> QED
      BY <1>0, <1>24, <3>1 DEF CommitState, Section, NewState
  <2> QED
    BY <2>1, <2>2
<1>25. CASE CommitEnds(c)
  BY <1>0, <1>25 DEF CommitEnds, Goes, Leaves, NoNews, Section, Exclusion, CallTypes,
          UnderLock, files, local, server, history, counters
<1>26. CASE Rollback(c)
  BY <1>0, <1>26 DEF Rollback, Goes, Leaves, Store, NoNews, Section, Exclusion, CallTypes,
          UnderLock, files, local, server, history, counters
<1>27. CASE ReleaseLease(c)
  BY <1>0, <1>27 DEF ReleaseLease, Goes, Free, NoNews, Section, Exclusion, CallTypes,
          UnderLock, files, local, server, history, counters
<1> QED
  BY <1>1, <1>2, <1>3, <1>4, <1>5, <1>6, <1>7, <1>8, <1>9, <1>10, <1>11, <1>12, <1>13, <1>14,
          <1>15, <1>16, <1>17, <1>18, <1>19, <1>20, <1>21, <1>22, <1>23, <1>24, <1>25, <1>26,
          <1>27 DEF Step

LEMMA InitSections == Init => Sections
BY DEF Init, Sections, Section

LEMMA StepSections ==
    ASSUME TInv, Sections, NEW c \in Client, Step(c)
    PROVE  Sections'
<1> SUFFICES ASSUME NEW d \in Client PROVE Section(d)'
  BY DEF Sections
<1>1. CASE d = c
  BY <1>1, OwnSection DEF Sections
<1>2. CASE d # c
  <2>1. pc[d] \in UnderLock => lock = d
    BY DEF TInv, Exclusion
  <2>2. /\ pc'[d] = pc[d] /\ seen'[d] = seen[d]
        /\ pc[d] \in UnderLock => state' = state /\ disk' = disk
    BY <1>2, <2>1, OthersInSection
  <2>3. Section(d)
    BY DEF Sections
  <2> QED
    BY <2>2, <2>3 DEF Section, UnderLock
<1> QED
  BY <1>1, <1>2

LEMMA OtherSections ==
    ASSUME TInv, Sections, Next, \A c \in Client : ~Step(c)
    PROVE  Sections'
<1>0. CallTypes /\ FileTypes
  BY DEF TInv
<1>1. ASSUME NEW c \in Client, NEW k \in Kind, Start(c, k) PROVE Sections'
  <2>1. PICK p \in Phase \ UnderLock : Goes(c, p)
    BY <1>1 DEF Start, Kind, Phase, UnderLock
  <2> QED
    BY <1>0, <1>1, <2>1 DEF Start, Goes, CallTypes, Sections, Section, UnderLock, files, local,
            server, history, counters
<1>2. ASSUME NEW c \in Client, Cancel(c) PROVE Sections'
  BY <1>2 DEF Cancel, Sections, Section, files, local, server, history, counters
<1>3. ASSUME NEW c \in Client, LockTimeout(c) PROVE Sections'
  BY <1>0, <1>3 DEF LockTimeout, Goes, CallTypes, Sections, Section, files, local, server,
          history, counters
<1>4. ASSUME NEW p \in Process, Crash(p) PROVE Sections'
  BY <1>0, <1>4 DEF Crash, CallTypes, Sections, Section
<1>5. ASSUME NEW g \in Grant, ExpireToken(g) PROVE Sections'
  BY <1>5 DEF ExpireToken, Sections, Section, files, local, server, history, counters
<1>6. ASSUME StaleLock PROVE Sections'
  BY <1>6 DEF StaleLock, Sections, Section, files, local, server, history, counters
<1>7. ASSUME ExpireLease PROVE Sections'
  <2>1. state'.gen = state.gen /\ state'.status = state.status
    BY <1>0, <1>7, StateFields DEF ExpireLease, FileTypes
  <2> QED
    BY <1>7, <2>1 DEF ExpireLease, Sections, Section, files, local, server, history, counters
<1>8. ASSUME NEW c \in Client, WriteFails(c) PROVE Sections'
  <2>1. /\ UNCHANGED <<state, disk, seen>>
        /\ \E p \in {"idle", "failing"} : Goes(c, p)
    BY <1>8, WriteFailsForm
  <2> QED
    BY <1>0, <2>1 DEF Goes, CallTypes, Sections, Section
<1> QED
  BY <1>1, <1>2, <1>3, <1>4, <1>5, <1>6, <1>7, <1>8 DEF Next

LEMMA SectionsHold == Spec => [](TInv /\ Sections)
<1>1. TInv /\ Sections /\ [Next]_vars => (TInv /\ Sections)'
  <2>1. CASE UNCHANGED vars
    BY <2>1, StutterTypes DEF vars, Sections, Section, files, local, server, history, counters
  <2> QED
    BY <2>1, StepTypes, OtherTypes, StepSections, OtherSections
<1> QED
  BY <1>1, InitTypes, InitSections, PTL DEF Spec

----------------------------------------------------------------------------
(* The credentials that are about: in the file, in a process's memory, or  *)
(* in the hand of a call.                                                  *)

Held == {a \in Credential : \/ a = disk
                            \/ \E p \in Process : cache[p] = a
                            \/ \E c \in Client : seen[c].cred = a}

\* A refresh and a login bring one credential into the world; nothing else does.
Brings(c) == StoreRefreshed(c) \/ (Commit(c) /\ pc'[c] = "committing")

LEMMA StoredHeld ==
    ASSUME TInv, NEW c \in Client, Stored(c) \in Credential
    PROVE  Stored(c) \in Held
BY ConstantsAssumption DEF Stored, Held

LEMMA CachesFrom ==
    ASSUME TInv, NEW c \in Client, Caches(c), NEW p \in Process
    PROVE  cache'[p] \in {cache[p], Stored(c)}
BY DEF TInv, FileTypes, Caches

LEMMA SeesFrom ==
    ASSUME TInv, NEW c \in Client, NEW STATE s, NEW STATE x, Sees(c, s, x), NEW d \in Client
    PROVE  seen'[d].cred \in {seen[d].cred, x}
BY DEF TInv, CallTypes, Sees

\* What is held after a step that writes no credential.
LEMMA HeldFrom ==
    ASSUME TInv, NEW c \in Client, UNCHANGED disk, Caches(c),
           \A d \in Client : seen'[d].cred \in {seen[d].cred, Stored(c), None}
    PROVE  Held' \subseteq Held
<1>1. None \notin Credential
  BY ConstantsAssumption DEF Credential, Grant
<1>2. SUFFICES ASSUME NEW a \in Held' PROVE a \in Held
  OBVIOUS
<1>3. a \in Credential /\ (a = Stored(c) => a \in Held)
  BY StoredHeld DEF Held
<1>4. CASE a = disk'
  BY <1>3, <1>4 DEF Held
<1>5. CASE \E p \in Process : cache'[p] = a
  BY <1>3, <1>5, CachesFrom DEF Held
<1>6. CASE \E d \in Client : seen'[d].cred = a
  BY <1>1, <1>3, <1>6 DEF Held
<1> QED
  BY <1>4, <1>5, <1>6 DEF Held

LEMMA HeldStep ==
    ASSUME TInv, NEW c \in Client, Step(c), NEW a \in Held'
    PROVE  a \in Held \/ (a = disk' /\ Brings(c))
<1>0. CallTypes /\ FileTypes /\ a \in Credential /\ None \notin Credential
  BY ConstantsAssumption DEF TInv, Held, Credential, Grant
<1>1. CASE PeekState(c)
  BY <1>0, <1>1 DEF PeekState, Sees, Goes, NoNews, Loads, Settled, Stored, Held, Brings,
          CallTypes, FileTypes, files, local, server, history, counters
<1>2. CASE Load(c)
  BY <1>0, <1>2 DEF Load, Sees, Goes, NoNews, Decides, Takes, Stored, Held, Brings, CallTypes,
          FileTypes, files, local, server, history, counters
<1>3. CASE Land(c)
  BY <1>0, <1>3 DEF Land, Goes, NoNews, Decides, Takes, Stored, Held, Brings, CallTypes,
          FileTypes, files, local, server, history, counters
<1>4. CASE Recover(c)
  BY <1>0, <1>4 DEF Recover, Goes, NoNews, Caches, Free, Interrupted, Stored, Held, Brings,
          CallTypes, FileTypes, files, local, server, history, counters
<1>5. CASE Claim(c)
  <2>1. UNCHANGED disk /\ Caches(c)
    BY <1>5 DEF Claim
  <2>2. \A d \in Client : seen'[d].cred \in {seen[d].cred, Stored(c), None}
    BY <1>5, ClaimEither, SeesFrom DEF BeginsRefresh
  <2> QED
    BY <2>1, <2>2, HeldFrom
<1>6. CASE RefreshGranted(c)
  BY <1>0, <1>6 DEF RefreshGranted, Goes, Rotates, Keeps, Stored, Held, Brings, CallTypes,
          FileTypes, files, local, server, history, counters
<1>7. CASE RefreshRejected(c)
  BY <1>0, <1>7 DEF RefreshRejected, Goes, Keeps, Stored, Held, Brings, CallTypes, FileTypes,
          files, local, server, history, counters
<1>8. CASE RefreshFails(c)
  BY <1>0, <1>8 DEF RefreshFails, Goes, Leaves, Rotates, Stored, Held, Brings, CallTypes,
          FileTypes, files, local, server, history, counters
<1>9. CASE StoreRefreshed(c)
  BY <1>0, <1>9 DEF StoreRefreshed, Refreshed, Goes, Store, NoNews, Stored, Held, Brings,
        CallTypes,
          FileTypes, files, local, server, history, counters
<1>10. CASE FinishRefresh(c)
  BY <1>0, <1>10 DEF FinishRefresh, Goes, Leaves, Takes, NoNews, Stored, Held, Brings,
          CallTypes, FileTypes, files, local, server, history, counters
<1>11. CASE EraseRejected(c)
  BY <1>0, <1>11 DEF EraseRejected, Goes, Leaves, Store, Again, NoNews, Stored, Held, Brings,
          CallTypes, FileTypes, files, local, server, history, counters
<1>12. CASE Logout(c)
  <2>1. UNCHANGED disk /\ Caches(c)
    BY <1>12 DEF Logout
  <2>2. \A d \in Client : seen'[d].cred \in {seen[d].cred, Stored(c), None}
    BY <1>12, SeesFrom DEF Logout, SignedOut
  <2> QED
    BY <2>1, <2>2, HeldFrom
<1>13. CASE Revoke(c)
  BY <1>0, <1>13 DEF Revoke, Goes, Leaves, Stored, Held, Brings, CallTypes, FileTypes, files,
          local, server, history, counters
<1>14. CASE EraseLogin(c)
  BY <1>0, <1>14 DEF EraseLogin, Goes, Store, NoNews, Stored, Held, Brings, CallTypes,
          FileTypes, files, local, server, history, counters
<1>15. CASE FinishLogout(c)
  BY <1>0, <1>15 DEF FinishLogout, Goes, Leaves, NoNews, Stored, Held, Brings, CallTypes,
          FileTypes, files, local, server, history, counters
<1>16. CASE Login(c)
  <2>1. UNCHANGED disk /\ Caches(c)
    BY <1>16 DEF Login
  <2>2. \A d \in Client : seen'[d].cred \in {seen[d].cred, Stored(c), None}
    BY <1>16, SeesFrom DEF Login, Decide, Waits
  <2> QED
    BY <2>1, <2>2, HeldFrom
<1>17. CASE Reread(c)
  BY <1>0, <1>17 DEF Reread, Goes, Again, NoNews, Stored, Held, Brings, CallTypes, FileTypes,
          files, local, server, history, counters
<1>18. CASE Wait(c)
  BY <1>0, <1>18 DEF Wait, Goes, Caches, NoNews, Stored, Held, Brings, CallTypes, FileTypes,
          files, local, server, history, counters
<1>19. CASE Device(c)
  BY <1>0, <1>19 DEF Device, Goes, NoNews, Stored, Held, Brings, CallTypes, FileTypes, files,
          local, server, history, counters
<1>20. CASE Publish(c)
  BY <1>0, <1>20 DEF Publish, Goes, NoNews, Free, Stored, Held, Brings, CallTypes, FileTypes,
          files, local, server, history, counters
<1>21. CASE PollGranted(c)
  BY <1>0, <1>21 DEF PollGranted, Goes, Keeps, Stored, Held, Brings, CallTypes, FileTypes,
          files, local, server, history, counters
<1>22. CASE PollFails(c)
  BY <1>0, <1>22 DEF PollFails, Goes, NoNews, Stored, Held, Brings, CallTypes, FileTypes,
          files, local, server, history, counters
<1>23. CASE Commit(c)
  <2>1. CASE UNCHANGED <<files, seen>>
    BY <1>0, <2>1 DEF Held, files
  <2>2. CASE ~UNCHANGED <<files, seen>>
    <3>1. /\ disk' = NewLogin(c) /\ cache' = [cache EXCEPT ![Home[c]] = NewLogin(c)]
          /\ Sees(c, state, Stored(c)) /\ pc'[c] = "committing"
      BY <1>0, <1>23, <2>2 DEF Commit, Store, Goes, CallTypes
    <3>2. \A d \in Client : seen'[d].cred \in {seen[d].cred, Stored(c)}
      BY <3>1, SeesFrom
    <3>3. \A p \in Process : cache'[p] \in {cache[p], disk'}
      BY <1>0, <3>1 DEF FileTypes
    <3>4. a = Stored(c) => a \in Held
      BY <1>0, StoredHeld
    <3> QED
      BY <1>0, <1>23, <3>1, <3>2, <3>3, <3>4 DEF Held, Brings
  <2> QED
    BY <2>1, <2>2
<1>24. CASE CommitState(c)
  BY <1>0, <1>24 DEF CommitState, Goes, NoNews, Stored, Held, Brings, CallTypes, FileTypes,
          files, local, server, history, counters
<1>25. CASE CommitEnds(c)
  BY <1>0, <1>25 DEF CommitEnds, Goes, Leaves, NoNews, Stored, Held, Brings, CallTypes,
          FileTypes, files, local, server, history, counters
<1>26. CASE Rollback(c)
  BY <1>0, <1>26 DEF Rollback, Goes, Leaves, Store, NoNews, Stored, Held, Brings, CallTypes,
          FileTypes, files, local, server, history, counters
<1>27. CASE ReleaseLease(c)
  BY <1>0, <1>27 DEF ReleaseLease, Goes, Free, NoNews, Stored, Held, Brings, CallTypes,
          FileTypes, files, local, server, history, counters
<1> QED
  BY <1>1, <1>2, <1>3, <1>4, <1>5, <1>6, <1>7, <1>8, <1>9, <1>10, <1>11, <1>12, <1>13, <1>14,
          <1>15, <1>16, <1>17, <1>18, <1>19, <1>20, <1>21, <1>22, <1>23, <1>24, <1>25, <1>26,
          <1>27 DEF Step

\* The generation that every spent credential is below: the state's, which a
\* refresh is about to raise, and which a login that may roll back raised.
Bar ==
    IF lock \in Client /\ pc[lock] \in {"granted", "stored"} THEN state.gen + 1
    ELSE IF lock \in Client /\ pc[lock] \in {"committing",
            "committed"} THEN seen[lock].state.gen
    ELSE state.gen

LEMMA BarStep ==
    ASSUME TInv, Sections, NEW c \in Client, Step(c)
    PROVE  Bar' >= Bar /\ Bar \in Int
<1>0. /\ Exclusion /\ CallTypes /\ FileTypes /\ InHand /\ None \notin Client /\ Dead \notin Client
      /\ Stored(c) \in OptCredential /\ state.gen \in Nat /\ Section(c) /\ Bar \in Int
      /\ \A d \in Client : seen[d].state \in State /\ seen[d].state.gen \in Nat
      /\ seen[c].cred \in OptCredential
  <2>1. Exclusion /\ CallTypes /\ FileTypes /\ InHand /\ None \notin Client /\ Dead \notin Client
    BY ConstantsAssumption DEF TInv
  <2>2. /\ \A d \in Client : seen[d].state \in State /\ seen[d].state.gen \in Nat
        /\ seen[c].cred \in OptCredential /\ state \in State /\ state.gen \in Nat
    BY <2>1, StateOps DEF CallTypes, FileTypes
  <2>3. Bar \in Int
    BY <2>2 DEF Bar
  <2> QED
    BY <2>1, <2>2, <2>3, StoredType DEF Sections
<1>a. ASSUME NEW d \in Client, lock = d, d # c PROVE Bar' = Bar
  <2>1. pc'[d] = pc[d] /\ seen'[d] = seen[d] /\ state' = state /\ lock' = lock
    BY <1>a, OthersInSection
  <2> QED
    BY <1>a, <2>1 DEF Bar
<1>b. SUFFICES ASSUME lock \in Client => lock = c PROVE Bar' >= Bar
  BY <1>0, <1>a
<1>1. CASE PeekState(c)
  BY <1>0, <1>b, <1>1 DEF PeekState, Sees, Goes, NoNews, Loads, Settled, Bar, NewState,
          Section, Exclusion, CallTypes, UnderLock, files, local, server, history, counters
<1>2. CASE Load(c)
  BY <1>0, <1>b, <1>2 DEF Load, Sees, Goes, NoNews, Decides, Takes, Bar, NewState, Section,
          Exclusion, CallTypes, UnderLock, files, local, server, history, counters
<1>3. CASE Land(c)
  BY <1>0, <1>b, <1>3 DEF Land, Goes, NoNews, Decides, Takes, Bar, NewState, Section,
          Exclusion, CallTypes, UnderLock, files, local, server, history, counters
<1>4. CASE Recover(c)
  <2>1. state'.gen >= state.gen /\ lock' = None /\ lock = None
    <3>1. CASE Interrupted(state, Stored(c))
      <4>1. state' = NewState("authenticated", Stored(c).gen) /\ GenOf(Stored(c)) > state.gen
        BY <1>4, <3>1 DEF Recover, Interrupted
      <4>2. GenOf(Stored(c)) = Stored(c).gen /\ GenOf(Stored(c)) \in Nat
        <5>1. state \in State
          BY <1>0 DEF FileTypes
        <5> QED
          BY <1>0, <4>1, <5>1, GenType
      <4> QED
        BY <1>0, <1>4, <4>1, <4>2 DEF Recover, Free, NewState
    <3>2. CASE ~Interrupted(state, Stored(c))
      BY <1>0, <1>4, <3>2 DEF Recover, Free
    <3> QED
      BY <3>1, <3>2
  <2> QED
    BY <1>0, <2>1 DEF Bar
<1>5. CASE Claim(c)
  <2>1. lock = None /\ state'.gen = state.gen
    <3>1. lock = None /\ state \in State
      BY <1>0, <1>5, ClaimEither DEF Free, FileTypes
    <3>2. state' = state \/ state' = [state EXCEPT !.status = "refreshing"]
      BY <1>5, ClaimEither DEF BeginsRefresh
    <3>3. [state EXCEPT !.status = "refreshing"].gen = state.gen
      BY <3>1, StateFields
    <3> QED
      BY <3>1, <3>2, <3>3
  <2>2. lock' = None \/ (lock' = c /\ pc'[c] = "refresh")
    BY <1>0, <2>1, <1>5, ClaimEither DEF BeginsRefresh, Goes, CallTypes
  <2> QED
    BY <1>0, <2>1, <2>2 DEF Bar
<1>6. CASE RefreshGranted(c)
  BY <1>0, <1>b, <1>6 DEF RefreshGranted, Goes, Rotates, Keeps, Bar, NewState, Section,
          Exclusion, CallTypes, UnderLock, files, local, server, history, counters
<1>7. CASE RefreshRejected(c)
  BY <1>0, <1>b, <1>7 DEF RefreshRejected, Goes, Keeps, Bar, NewState, Section, Exclusion,
          CallTypes, UnderLock, files, local, server, history, counters
<1>8. CASE RefreshFails(c)
  BY <1>0, <1>b, <1>8 DEF RefreshFails, Goes, Leaves, Rotates, Bar, NewState, Section,
          Exclusion, CallTypes, UnderLock, files, local, server, history, counters
<1>9. CASE StoreRefreshed(c)
  BY <1>0, <1>b, <1>9 DEF StoreRefreshed, Refreshed, Goes, Store, NoNews, Bar, NewState, Section,
          Exclusion, CallTypes, UnderLock, files, local, server, history, counters
<1>10. CASE FinishRefresh(c)
  BY <1>0, <1>b, <1>10 DEF FinishRefresh, Goes, Leaves, Takes, NoNews, Bar, NewState, Section,
          Exclusion, CallTypes, UnderLock, files, local, server, history, counters
<1>11. CASE EraseRejected(c)
  BY <1>0, <1>b, <1>11 DEF EraseRejected, Goes, Leaves, Store, Again, NoNews, Bar, NewState,
          Section, Exclusion, CallTypes, UnderLock, files, local, server, history, counters
<1>12. CASE Logout(c)
  <2>1. lock = None
    BY <1>12 DEF Logout, Free
  <2>2. CASE UNCHANGED <<state, lock>>
    BY <1>0, <2>1, <2>2 DEF Bar
  <2>3. CASE ~UNCHANGED <<state, lock>>
    <3>1. /\ state' = NewState("logging_out", Highest(state, Stored(c)) + 1)
          /\ lock' = c /\ pc'[c] = "leaving" /\ state \in State
      BY <1>0, <1>12, <2>3 DEF Logout, SignedOut, Goes, CallTypes, FileTypes
    <3>2. state'.gen >= state.gen
      BY <1>0, <3>1, GenType DEF NewState
    <3> QED
      BY <1>0, <2>1, <3>1, <3>2 DEF Bar
  <2> QED
    BY <2>2, <2>3
<1>13. CASE Revoke(c)
  BY <1>0, <1>b, <1>13 DEF Revoke, Goes, Leaves, Bar, NewState, Section, Exclusion, CallTypes,
          UnderLock, files, local, server, history, counters
<1>14. CASE EraseLogin(c)
  BY <1>0, <1>b, <1>14 DEF EraseLogin, Goes, Store, NoNews, Bar, NewState, Section, Exclusion,
          CallTypes, UnderLock, files, local, server, history, counters
<1>15. CASE FinishLogout(c)
  BY <1>0, <1>b, <1>15 DEF FinishLogout, Goes, Leaves, NoNews, Bar, NewState, Section,
          Exclusion, CallTypes, UnderLock, files, local, server, history, counters
<1>16. CASE Login(c)
  <2>1. lock = None /\ lock' = None /\ state' \in {state, Authorizing(c)} /\ state \in State
    BY <1>0, <1>16 DEF Login, Free, Decide, Waits, FileTypes
  <2>2. state'.gen >= state.gen
    BY <1>0, <2>1, GenType DEF Authorizing
  <2> QED
    BY <1>0, <2>1, <2>2 DEF Bar
<1>17. CASE Reread(c)
  BY <1>0, <1>b, <1>17 DEF Reread, Goes, Again, NoNews, Bar, NewState, Section, Exclusion,
          CallTypes, UnderLock, files, local, server, history, counters
<1>18. CASE Wait(c)
  BY <1>0, <1>b, <1>18 DEF Wait, Goes, Caches, NoNews, Bar, NewState, Section, Exclusion,
          CallTypes, UnderLock, files, local, server, history, counters
<1>19. CASE Device(c)
  BY <1>0, <1>b, <1>19 DEF Device, Goes, NoNews, Bar, NewState, Section, Exclusion, CallTypes,
          UnderLock, files, local, server, history, counters
<1>20. CASE Publish(c)
  BY <1>0, <1>b, <1>20 DEF Publish, Goes, NoNews, Free, Bar, NewState, Section, Exclusion,
          CallTypes, UnderLock, files, local, server, history, counters
<1>21. CASE PollGranted(c)
  BY <1>0, <1>b, <1>21 DEF PollGranted, Goes, Keeps, Bar, NewState, Section, Exclusion,
          CallTypes, UnderLock, files, local, server, history, counters
<1>22. CASE PollFails(c)
  BY <1>0, <1>b, <1>22 DEF PollFails, Goes, NoNews, Bar, NewState, Section, Exclusion,
          CallTypes, UnderLock, files, local, server, history, counters
<1>23. CASE Commit(c)
  BY <1>0, <1>b, <1>23 DEF Commit, Goes, Keeps, Free, Store, Sees, NewLogin, Holds, Bar,
          NewState, Section, Exclusion, CallTypes, UnderLock, files, local, server, history,
          counters
<1>24. CASE CommitState(c)
  BY <1>0, <1>b, <1>24 DEF CommitState, Goes, NoNews, Bar, NewState, Section, Exclusion,
          CallTypes, UnderLock, files, local, server, history, counters
<1>25. CASE CommitEnds(c)
  BY <1>0, <1>b, <1>25 DEF CommitEnds, Goes, Leaves, NoNews, Bar, NewState, Section, Exclusion,
          CallTypes, UnderLock, files, local, server, history, counters
<1>26. CASE Rollback(c)
  BY <1>0, <1>b, <1>26 DEF Rollback, Goes, Leaves, Store, NoNews, Bar, NewState, Section,
          Exclusion, CallTypes, UnderLock, files, local, server, history, counters
<1>27. CASE ReleaseLease(c)
  BY <1>0, <1>b, <1>27 DEF ReleaseLease, Goes, Free, NoNews, Bar, NewState, Section, Exclusion,
          CallTypes, UnderLock, files, local, server, history, counters
<1> QED
  BY <1>1, <1>2, <1>3, <1>4, <1>5, <1>6, <1>7, <1>8, <1>9, <1>10, <1>11, <1>12, <1>13, <1>14,
          <1>15, <1>16, <1>17, <1>18, <1>19, <1>20, <1>21, <1>22, <1>23, <1>24, <1>25, <1>26,
          <1>27 DEF Step

----------------------------------------------------------------------------
(* While no process ended, no answer was lost and no write failed, a       *)
(* refresh token is used once.                                             *)

Unspent == ~misused /\ \A c \in Client : pc[c] # "rejected"
Numbered == (\A a \in Held : a.grant <= issued) /\ (\A g \in live : g <= issued)
OneGen == \A a, b \in Held : a.grant = b.grant => a.gen = b.gen

\* A grant that was received and is not yet stored is accepted, and nowhere else.
InFlight ==
    \A c \in Client : pc[c] \in {"granted", "commit"} =>
        /\ got[c] \in live /\ \A a \in Held : a.grant # got[c]
        /\ \A d \in Client \ {c} : pc[d] \in {"granted", "commit"} => got[d] # got[c]
SpentBelow == \A a \in Held : a.grant \notin live => a.gen < Bar
OneUse == Unspent /\ Numbered /\ OneGen /\ InFlight /\ SpentBelow

LEMMA CarryOn ==
    ASSUME OneUse, Bar \in Int, Bar' \in Int, Bar' >= Bar, Held' \subseteq Held,
           issued' = issued, live' = live, got' = got, misused' = misused,
           \A d \in Client : /\ pc'[d] \in {"granted", "commit"} => pc'[d] = pc[d]
                             /\ pc'[d] = "rejected" => pc[d] = "rejected"
    PROVE  OneUse'
<1>1. Unspent' /\ Numbered' /\ OneGen'
  BY DEF OneUse, Unspent, Numbered, OneGen
<1>2. InFlight'
  BY DEF OneUse, InFlight
<1>3. SpentBelow'
  <2>1. ASSUME NEW a \in Held', a.grant \notin live' PROVE a.gen < Bar'
    <3>1. a \in Held /\ a.gen \in Nat
      BY <2>1 DEF Held, Credential
    <3> QED
      BY <2>1, <3>1 DEF OneUse, SpentBelow
  <2> QED
    BY <2>1 DEF SpentBelow
<1> QED
  BY <1>1, <1>2, <1>3 DEF OneUse

\* A credential that is written with the grant a call received.
LEMMA Brought ==
    ASSUME OneUse, Bar \in Int, Bar' \in Int, Bar' >= Bar, NEW c \in Client,
           \A a \in Held' : a \in Held \/ a = disk', disk'.grant = got[c],
           pc[c] \in {"granted", "commit"}, pc'[c] \in {"stored", "committing"},
           \A d \in Client \ {c} : pc'[d] = pc[d],
           issued' = issued, live' = live, got' = got, misused' = misused
    PROVE  OneUse'
<1>0. got[c] \in live /\ got[c] <= issued /\ \A a \in Held : a.grant # got[c]
  BY DEF OneUse, InFlight, Numbered
<1>1. Unspent' /\ Numbered' /\ OneGen'
  BY <1>0 DEF OneUse, Unspent, Numbered, OneGen
<1>2. InFlight'
  BY <1>0 DEF OneUse, InFlight
<1>3. SpentBelow'
  <2>1. ASSUME NEW a \in Held', a.grant \notin live' PROVE a.gen < Bar'
    <3>1. a \in Held /\ a.gen \in Nat
      BY <1>0, <2>1 DEF Held, Credential
    <3> QED
      BY <2>1, <3>1 DEF OneUse, SpentBelow
  <2> QED
    BY <2>1 DEF SpentBelow
<1> QED
  BY <1>1, <1>2, <1>3 DEF OneUse

LEMMA StepOneUse ==
    ASSUME TInv, TInv', Sections, OneUse, NEW c \in Client, Step(c), crashes + losses + faults = 0,
           (crashes + losses + faults = 0)'
    PROVE  OneUse'
<1>0. /\ Exclusion /\ CallTypes /\ InHand /\ InHand' /\ CountTypes /\ ServerTypes /\ Section(c)
      /\ seen[c].cred \in OptCredential /\ state.gen \in Nat
      /\ Bar \in Int /\ Bar' \in Int /\ Bar' >= Bar
  <2>1. /\ Exclusion /\ CallTypes /\ InHand /\ InHand' /\ CountTypes /\ ServerTypes /\ Section(c)
        /\ state \in State
    BY DEF TInv, Sections, FileTypes
  <2>2. seen[c].cred \in OptCredential /\ state.gen \in Nat
    BY <2>1, StateOps DEF CallTypes
  <2>3. Bar' \in Int
    <3>1. (\A d \in Client : seen'[d].state \in State) /\ state' \in State
      BY DEF TInv, FileTypes, CallTypes
    <3>2. (\A d \in Client : seen'[d].state.gen \in Nat) /\ state'.gen \in Nat
      BY <3>1, StateOps
    <3> QED
      BY <3>2 DEF Bar
  <2> QED
    BY <2>1, <2>2, <2>3, BarStep
<1>1. CASE PeekState(c)
  <2>1. Held' \subseteq Held
    BY <1>1, HeldStep DEF Brings, StoreRefreshed, Commit, PeekState, Sees, Goes, NoNews, Loads,
            Settled, files, local, server, history, counters
  <2>2. UNCHANGED <<issued, live, got, misused>>
    BY <1>1 DEF PeekState, Sees, Goes, NoNews, Loads, Settled, files, local, server, history,
            counters
  <2>3. \A d \in Client : /\ pc'[d] \in {"granted", "commit"} => pc'[d] = pc[d]
                          /\ pc'[d] = "rejected" => pc[d] = "rejected"
    BY <1>0, <1>1 DEF PeekState, Sees, Goes, NoNews, Loads, Settled, CallTypes, files, local,
            server, history, counters
  <2> QED
    BY <1>0, <2>1, <2>2, <2>3, CarryOn
<1>2. CASE Load(c)
  <2>1. Held' \subseteq Held
    BY <1>2, HeldStep DEF Brings, StoreRefreshed, Commit, Load, Sees, Goes, NoNews, Decides,
            Takes, files, local, server, history, counters
  <2>2. UNCHANGED <<issued, live, got, misused>>
    BY <1>2 DEF Load, Sees, Goes, NoNews, Decides, Takes, files, local, server, history,
            counters
  <2>3. \A d \in Client : /\ pc'[d] \in {"granted", "commit"} => pc'[d] = pc[d]
                          /\ pc'[d] = "rejected" => pc[d] = "rejected"
    BY <1>0, <1>2 DEF Load, Sees, Goes, NoNews, Decides, Takes, CallTypes, files, local,
            server, history, counters
  <2> QED
    BY <1>0, <2>1, <2>2, <2>3, CarryOn
<1>3. CASE Land(c)
  <2>1. Held' \subseteq Held
    BY <1>3, HeldStep DEF Brings, StoreRefreshed, Commit, Land, Goes, NoNews, Decides, Takes,
            files, local, server, history, counters
  <2>2. UNCHANGED <<issued, live, got, misused>>
    BY <1>3 DEF Land, Goes, NoNews, Decides, Takes, files, local, server, history, counters
  <2>3. \A d \in Client : /\ pc'[d] \in {"granted", "commit"} => pc'[d] = pc[d]
                          /\ pc'[d] = "rejected" => pc[d] = "rejected"
    BY <1>0, <1>3 DEF Land, Goes, NoNews, Decides, Takes, CallTypes, files, local, server,
            history, counters
  <2> QED
    BY <1>0, <2>1, <2>2, <2>3, CarryOn
<1>4. CASE Recover(c)
  <2>1. Held' \subseteq Held
    BY <1>4, HeldStep DEF Brings, StoreRefreshed, Commit, Recover, Goes, NoNews, Caches, Free,
            Interrupted, files, local, server, history, counters
  <2>2. UNCHANGED <<issued, live, got, misused>>
    BY <1>4 DEF Recover, Goes, NoNews, Caches, Free, Interrupted, files, local, server,
            history, counters
  <2>3. \A d \in Client : /\ pc'[d] \in {"granted", "commit"} => pc'[d] = pc[d]
                          /\ pc'[d] = "rejected" => pc[d] = "rejected"
    BY <1>0, <1>4 DEF Recover, Goes, NoNews, Caches, Free, Interrupted, CallTypes, files,
            local, server, history, counters
  <2> QED
    BY <1>0, <2>1, <2>2, <2>3, CarryOn
<1>5. CASE Claim(c)
  <2>1. Held' \subseteq Held
    BY <1>5, HeldStep DEF Brings, StoreRefreshed, Commit, Claim, Goes, NoNews, Caches, Free,
            Refreshes, Settles, Usable, Again, BeginsRefresh, Sees,
            Takes, files, local, server, history, counters
  <2>2. UNCHANGED <<issued, live, got, misused>>
    BY <1>5 DEF Claim, Goes, NoNews, Caches, Free, Refreshes, Settles, Usable, Again,
          BeginsRefresh, Sees, Takes, files, local, server, history, counters
  <2>3. \A d \in Client : /\ pc'[d] \in {"granted", "commit"} => pc'[d] = pc[d]
                          /\ pc'[d] = "rejected" => pc[d] = "rejected"
    BY <1>0, <1>5 DEF Claim, Goes, NoNews, Caches, Free, Refreshes, Settles,
            Usable, Again, BeginsRefresh, Sees, Takes, CallTypes, files, local, server,
            history, counters
  <2> QED
    BY <1>0, <2>1, <2>2, <2>3, CarryOn
<1>6. CASE RefreshGranted(c)
  <2> DEFINE used == seen[c].cred
  <2>1. /\ used \in Credential /\ used \in Held /\ used.gen = state.gen /\ lock = c
        /\ used.grant \in live /\ issued \in Nat
    BY <1>0, <1>6 DEF RefreshGranted, Held, Section, InHand, Exclusion, UnderLock, ServerTypes
  <2>2. /\ issued' = issued + 1 /\ live' = (live \ {used.grant}) \cup {issued'}
        /\ got' = [got EXCEPT ![c] = issued'] /\ pc' = [pc EXCEPT ![c] = "granted"]
        /\ misused' = misused /\ state' = state /\ lock' = lock
    BY <1>6 DEF RefreshGranted, Rotates, Goes, Keeps, files, history
  <2>3. /\ got'[c] = issued' /\ pc'[c] = "granted"
        /\ \A d \in Client \ {c} : got'[d] = got[d] /\ pc'[d] = pc[d]
    BY <1>0, <2>2 DEF CallTypes
  <2>4. Held' \subseteq Held
    BY <1>6, HeldStep DEF RefreshGranted, files, Held
  <2>5. Numbered' /\ OneGen' /\ Unspent'
    <3>1. \A g \in live : g <= issued /\ g \in Nat
      BY <1>0, Bounds DEF ServerTypes, Grant, OneUse, Numbered
    <3>2. \A a \in Held : a.grant <= issued /\ a.grant \in Nat
      BY Bounds DEF Held, Credential, Grant, OneUse, Numbered
    <3>3. Numbered'
      BY <2>1, <2>2, <2>4, <3>1, <3>2 DEF Numbered
    <3>4. OneGen' /\ Unspent'
      BY <1>0, <2>2, <2>3, <2>4 DEF OneUse, OneGen, Unspent
    <3> QED
      BY <3>3, <3>4
  <2>6. InFlight'
    BY <1>0, <2>1, <2>2, <2>3, <2>4 DEF OneUse, Numbered, InFlight
  <2>7. SpentBelow'
    <3>1. Bar' = state.gen + 1
      BY <2>1, <2>2, <2>3 DEF Bar
    <3>2. ASSUME NEW a \in Held', a.grant \notin live' PROVE a.gen < Bar'
      <4>0. a \in Held /\ a.gen \in Nat
        BY <2>4 DEF Held, Credential
      <4>1. CASE a.grant \in live
        <5>1. a.gen = used.gen
          BY <2>1, <2>2, <3>2, <4>0, <4>1 DEF OneUse, OneGen
        <5> QED
          BY <1>0, <2>1, <3>1, <5>1
      <4>2. CASE a.grant \notin live
        BY <1>0, <4>0, <4>2 DEF OneUse, SpentBelow
      <4> QED
        BY <4>1, <4>2
    <3> QED
      BY <3>2 DEF SpentBelow
  <2> QED
    BY <2>5, <2>6, <2>7 DEF OneUse
<1>7. CASE RefreshRejected(c)
  <2> DEFINE used == seen[c].cred
  <2>1. /\ used \in Held /\ used.gen = state.gen /\ lock = c /\ used.grant \notin live
        /\ pc[c] = "refresh"
    BY <1>0, <1>7 DEF RefreshRejected, Held, Section, InHand, Exclusion, UnderLock
  <2>2. used.gen < Bar /\ Bar = state.gen
    BY <2>1 DEF OneUse, SpentBelow, Bar
  <2> QED
    BY <1>0, <2>1, <2>2
<1>8. CASE RefreshFails(c)
  <2>1. server' = server /\ got' = got /\ misused' = misused /\ pc' = [pc EXCEPT ![c] = "idle"]
    BY <1>0, <1>8 DEF RefreshFails, Leaves, Goes, history, InHand, CountTypes
  <2>2. Held' \subseteq Held
    BY <1>8, HeldStep DEF RefreshFails, Held
  <2> QED
    BY <1>0, <2>1, <2>2, CarryOn DEF server, CallTypes
<1>9. CASE StoreRefreshed(c)
  <2>1. /\ pc[c] = "granted" /\ pc' = [pc EXCEPT ![c] = "stored"] /\ NoNews
        /\ disk' \in Credential /\ disk'.grant = got[c]
    <3>1. seen[c].cred \in Credential /\ pc'[c] = "stored"
      BY <1>0, <1>9 DEF StoreRefreshed, Refreshed, InHand, Goes, CallTypes
    <3>2. disk' \in Credential
      BY <1>0, <3>1 DEF InHand
    <3> QED
      BY <1>9, <3>1, <3>2 DEF StoreRefreshed, Refreshed, Store, Goes, Credential
  <2> QED
    BY <1>0, <1>9, <2>1, HeldStep, Brought DEF NoNews, CallTypes, server, history
<1>10. CASE FinishRefresh(c)
  <2>1. Held' \subseteq Held
    BY <1>10, HeldStep DEF Brings, StoreRefreshed, Commit, FinishRefresh, Goes, Leaves, Takes,
            NoNews, files, local, server, history, counters
  <2>2. UNCHANGED <<issued, live, got, misused>>
    BY <1>10 DEF FinishRefresh, Goes, Leaves, Takes, NoNews, files, local, server, history,
            counters
  <2>3. \A d \in Client : /\ pc'[d] \in {"granted", "commit"} => pc'[d] = pc[d]
                          /\ pc'[d] = "rejected" => pc[d] = "rejected"
    BY <1>0, <1>10 DEF FinishRefresh, Goes, Leaves, Takes, NoNews, CallTypes, files, local,
            server, history, counters
  <2> QED
    BY <1>0, <2>1, <2>2, <2>3, CarryOn
<1>11. CASE EraseRejected(c)
  <2>1. Held' \subseteq Held
    BY <1>11, HeldStep DEF Brings, StoreRefreshed, Commit, EraseRejected, Goes, Leaves, Store,
            Again, NoNews, files, local, server, history, counters
  <2>2. UNCHANGED <<issued, live, got, misused>>
    BY <1>11 DEF EraseRejected, Goes, Leaves, Store, Again, NoNews, files, local, server,
            history, counters
  <2>3. \A d \in Client : /\ pc'[d] \in {"granted", "commit"} => pc'[d] = pc[d]
                          /\ pc'[d] = "rejected" => pc[d] = "rejected"
    BY <1>0, <1>11 DEF EraseRejected, Goes, Leaves, Store, Again, NoNews, CallTypes, files,
            local, server, history, counters
  <2> QED
    BY <1>0, <2>1, <2>2, <2>3, CarryOn
<1>12. CASE Logout(c)
  <2>1. Held' \subseteq Held
    BY <1>12, HeldStep DEF Brings, StoreRefreshed, Commit, Logout, Goes, Sees, Caches, SignedOut,
            Keeps, Free, Epochs, files, local, server, history, counters
  <2>2. UNCHANGED <<issued, live, got, misused>>
    BY <1>12 DEF Logout, Goes, Sees, Caches, SignedOut, Keeps, Free, Epochs, files, local, server,
            history, counters
  <2>3. \A d \in Client : /\ pc'[d] \in {"granted", "commit"} => pc'[d] = pc[d]
                          /\ pc'[d] = "rejected" => pc[d] = "rejected"
    BY <1>0, <1>12 DEF Logout, Goes, Sees, Caches, SignedOut, Keeps, Free, Epochs, CallTypes,
          files,
            local, server, history, counters
  <2> QED
    BY <1>0, <2>1, <2>2, <2>3, CarryOn
<1>13. CASE Revoke(c)
  <2> DEFINE used == seen[c].cred
  <2>1. /\ Held' \subseteq Held /\ lock = c /\ pc[c] = "leaving" /\ Bar = state.gen
        /\ issued' = issued /\ got' = got /\ misused' = misused
    <3>1. lock = c /\ pc[c] = "leaving"
      BY <1>0, <1>13 DEF Revoke, Exclusion, UnderLock
    <3> QED
      BY <1>13, <3>1, HeldStep DEF Revoke, Held, Bar, history
  <2>2. CASE live' = live
    <3>1. PICK p \in {"revoked", "idle"} : pc' = [pc EXCEPT ![c] = p]
      BY <1>13 DEF Revoke, Leaves, Goes
    <3> QED
      BY <1>0, <2>1, <2>2, <3>1, CarryOn DEF CallTypes
  <2>3. CASE live' # live
    <3>1. used # None /\ live' = live \ {used.grant}
      BY <1>13, <2>3 DEF Revoke
    <3>2. used \in Held /\ used.gen < state.gen
      BY <1>0, <2>1, <3>1 DEF Held, Section, OptCredential
    <3>3. pc' = [pc EXCEPT ![c] = "revoked"]
      <4>1. losses' # losses + 1
        <5>1. /\ crashes' = crashes /\ faults' = faults
              /\ losses \in Nat /\ crashes \in Nat /\ faults \in Nat
          BY <1>0, <1>13 DEF Revoke, InHand
        <5> QED
          BY <5>1
      <4> QED
        BY <1>13, <2>3, <4>1 DEF Revoke, Goes
    <3>4. Numbered' /\ OneGen' /\ Unspent'
      BY <1>0, <2>1, <3>1, <3>3 DEF OneUse, Numbered, OneGen, Unspent, CallTypes
    <3>5. InFlight'
      BY <1>0, <2>1, <3>1, <3>2, <3>3 DEF OneUse, InFlight, CallTypes
    <3>6. SpentBelow'
      <4>1. ASSUME NEW a \in Held', a.grant \notin live' PROVE a.gen < Bar'
        <5>0. a \in Held /\ a.gen \in Nat
          BY <2>1 DEF Held, Credential
        <5>1. a.grant \in live => a.gen = used.gen
          BY <3>1, <3>2, <4>1, <5>0 DEF OneUse, OneGen
        <5>2. a.grant \notin live => a.gen < Bar
          BY <5>0 DEF OneUse, SpentBelow
        <5> QED
          BY <1>0, <2>1, <3>2, <5>0, <5>1, <5>2
      <4> QED
        BY <4>1 DEF SpentBelow
    <3> QED
      BY <3>4, <3>5, <3>6 DEF OneUse
  <2> QED
    BY <2>2, <2>3
<1>14. CASE EraseLogin(c)
  <2>1. Held' \subseteq Held
    BY <1>14, HeldStep DEF Brings, StoreRefreshed, Commit, EraseLogin, Goes, Store, NoNews,
            files, local, server, history, counters
  <2>2. UNCHANGED <<issued, live, got, misused>>
    BY <1>14 DEF EraseLogin, Goes, Store, NoNews, files, local, server, history, counters
  <2>3. \A d \in Client : /\ pc'[d] \in {"granted", "commit"} => pc'[d] = pc[d]
                          /\ pc'[d] = "rejected" => pc[d] = "rejected"
    BY <1>0, <1>14 DEF EraseLogin, Goes, Store, NoNews, CallTypes, files, local, server,
            history, counters
  <2> QED
    BY <1>0, <2>1, <2>2, <2>3, CarryOn
<1>15. CASE FinishLogout(c)
  <2>1. Held' \subseteq Held
    BY <1>15, HeldStep DEF Brings, StoreRefreshed, Commit, FinishLogout, Goes, Leaves, NoNews,
            files, local, server, history, counters
  <2>2. UNCHANGED <<issued, live, got, misused>>
    BY <1>15 DEF FinishLogout, Goes, Leaves, NoNews, files, local, server, history, counters
  <2>3. \A d \in Client : /\ pc'[d] \in {"granted", "commit"} => pc'[d] = pc[d]
                          /\ pc'[d] = "rejected" => pc[d] = "rejected"
    BY <1>0, <1>15 DEF FinishLogout, Goes, Leaves, NoNews, CallTypes, files, local, server,
            history, counters
  <2> QED
    BY <1>0, <2>1, <2>2, <2>3, CarryOn
<1>16. CASE Login(c)
  <2>1. Held' \subseteq Held
    BY <1>16, HeldStep DEF Brings, StoreRefreshed, Commit, Login, Goes, Sees, Caches, Decide,
          Waits,
            Authorizing, Free, NoNews, files, local, server, history, counters
  <2>2. UNCHANGED <<issued, live, got, misused>>
    BY <1>16 DEF Login, Goes, Sees, Caches, Decide, Waits, Authorizing, Free, NoNews, files, local,
            server, history, counters
  <2>3. \A d \in Client : /\ pc'[d] \in {"granted", "commit"} => pc'[d] = pc[d]
                          /\ pc'[d] = "rejected" => pc[d] = "rejected"
    BY <1>0, <1>16 DEF Login, Goes, Sees, Caches, Decide, Waits, Authorizing, Free, NoNews,
          CallTypes,
            files, local, server, history, counters
  <2> QED
    BY <1>0, <2>1, <2>2, <2>3, CarryOn
<1>17. CASE Reread(c)
  <2>1. Held' \subseteq Held
    BY <1>17, HeldStep DEF Brings, StoreRefreshed, Commit, Reread, Goes, Again, NoNews, files,
            local, server, history, counters
  <2>2. UNCHANGED <<issued, live, got, misused>>
    BY <1>17 DEF Reread, Goes, Again, NoNews, files, local, server, history, counters
  <2>3. \A d \in Client : /\ pc'[d] \in {"granted", "commit"} => pc'[d] = pc[d]
                          /\ pc'[d] = "rejected" => pc[d] = "rejected"
    BY <1>0, <1>17 DEF Reread, Goes, Again, NoNews, CallTypes, files, local, server, history,
            counters
  <2> QED
    BY <1>0, <2>1, <2>2, <2>3, CarryOn
<1>18. CASE Wait(c)
  <2>1. Held' \subseteq Held
    BY <1>18, HeldStep DEF Brings, StoreRefreshed, Commit, Wait, Goes, Caches, NoNews, files,
            local, server, history, counters
  <2>2. UNCHANGED <<issued, live, got, misused>>
    BY <1>18 DEF Wait, Goes, Caches, NoNews, files, local, server, history, counters
  <2>3. \A d \in Client : /\ pc'[d] \in {"granted", "commit"} => pc'[d] = pc[d]
                          /\ pc'[d] = "rejected" => pc[d] = "rejected"
    BY <1>0, <1>18 DEF Wait, Goes, Caches, NoNews, CallTypes, files, local, server, history,
            counters
  <2> QED
    BY <1>0, <2>1, <2>2, <2>3, CarryOn
<1>19. CASE Device(c)
  <2>1. Held' \subseteq Held
    BY <1>19, HeldStep DEF Brings, StoreRefreshed, Commit, Device, Goes, NoNews, files, local,
            server, history, counters
  <2>2. UNCHANGED <<issued, live, got, misused>>
    BY <1>19 DEF Device, Goes, NoNews, files, local, server, history, counters
  <2>3. \A d \in Client : /\ pc'[d] \in {"granted", "commit"} => pc'[d] = pc[d]
                          /\ pc'[d] = "rejected" => pc[d] = "rejected"
    BY <1>0, <1>19 DEF Device, Goes, NoNews, CallTypes, files, local, server, history, counters
  <2> QED
    BY <1>0, <2>1, <2>2, <2>3, CarryOn
<1>20. CASE Publish(c)
  <2>1. Held' \subseteq Held
    BY <1>20, HeldStep DEF Brings, StoreRefreshed, Commit, Publish, Goes, NoNews, Free, files,
            local, server, history, counters
  <2>2. UNCHANGED <<issued, live, got, misused>>
    BY <1>20 DEF Publish, Goes, NoNews, Free, files, local, server, history, counters
  <2>3. \A d \in Client : /\ pc'[d] \in {"granted", "commit"} => pc'[d] = pc[d]
                          /\ pc'[d] = "rejected" => pc[d] = "rejected"
    BY <1>0, <1>20 DEF Publish, Goes, NoNews, Free, CallTypes, files, local, server, history,
            counters
  <2> QED
    BY <1>0, <2>1, <2>2, <2>3, CarryOn
<1>21. CASE PollGranted(c)
  <2>1. /\ issued' = issued + 1 /\ live' = live \cup {issued'} /\ issued \in Nat
        /\ misused' = misused /\ Held' \subseteq Held
    BY <1>0, <1>21, HeldStep DEF PollGranted, history, Held, files, ServerTypes
  <2>2. /\ got'[c] = issued' /\ pc'[c] = "commit"
        /\ \A d \in Client \ {c} : got'[d] = got[d] /\ pc'[d] = pc[d]
    BY <1>0, <1>21 DEF PollGranted, Goes, CallTypes
  <2>3. Numbered' /\ OneGen' /\ Unspent'
    <3>1. \A g \in live : g <= issued /\ g \in Nat
      BY <1>0, Bounds DEF ServerTypes, Grant, OneUse, Numbered
    <3>2. \A a \in Held : a.grant <= issued /\ a.grant \in Nat
      BY Bounds DEF Held, Credential, Grant, OneUse, Numbered
    <3>3. Numbered'
      BY <2>1, <3>1, <3>2 DEF Numbered
    <3>4. OneGen' /\ Unspent'
      BY <1>0, <2>1, <2>2 DEF OneUse, OneGen, Unspent
    <3> QED
      BY <3>3, <3>4
  <2>4. InFlight'
    BY <1>0, <2>1, <2>2 DEF OneUse, Numbered, InFlight
  <2>5. SpentBelow'
    <3>1. ASSUME NEW a \in Held', a.grant \notin live' PROVE a.gen < Bar'
      <4>1. a \in Held /\ a.grant \notin live /\ a.gen \in Nat
        BY <2>1, <3>1 DEF Held, Credential
      <4> QED
        BY <1>0, <4>1 DEF OneUse, SpentBelow
    <3> QED
      BY <3>1 DEF SpentBelow
  <2> QED
    BY <2>3, <2>4, <2>5 DEF OneUse
<1>22. CASE PollFails(c)
  <2>1. Held' \subseteq Held
    BY <1>22, HeldStep DEF Brings, StoreRefreshed, Commit, PollFails, Goes, NoNews, files,
            local, server, history, counters
  <2>2. UNCHANGED <<issued, live, got, misused>>
    BY <1>22 DEF PollFails, Goes, NoNews, files, local, server, history, counters
  <2>3. \A d \in Client : /\ pc'[d] \in {"granted", "commit"} => pc'[d] = pc[d]
                          /\ pc'[d] = "rejected" => pc[d] = "rejected"
    BY <1>0, <1>22 DEF PollFails, Goes, NoNews, CallTypes, files, local, server, history,
            counters
  <2> QED
    BY <1>0, <2>1, <2>2, <2>3, CarryOn
<1>23. CASE Commit(c)
  <2>1. Keeps /\ UNCHANGED <<got, server, misused>> /\ pc[c] = "commit"
    BY <1>23 DEF Commit
  <2>2. CASE pc'[c] = "committing"
    <3>1. pc' = [pc EXCEPT ![c] = "committing"] /\ disk' = NewLogin(c)
      BY <1>0, <1>23, <2>2 DEF Commit, Goes, Store, CallTypes
    <3>2. disk' \in Credential /\ disk'.grant = got[c]
      BY <1>0, <2>2, <3>1 DEF InHand, NewLogin
    <3> QED
      BY <1>0, <1>23, <2>1, <3>1, <3>2, HeldStep, Brought DEF CallTypes, server
  <2>3. CASE pc'[c] # "committing"
    <3>1. UNCHANGED <<files, seen>> /\ pc' = [pc EXCEPT ![c] = "failing"]
      BY <1>0, <1>23, <2>3 DEF Commit, Goes, CallTypes
    <3> QED
      BY <1>0, <2>1, <3>1, CarryOn DEF Held, files, server, CallTypes
  <2> QED
    BY <2>2, <2>3
<1>24. CASE CommitState(c)
  <2>1. Held' \subseteq Held
    BY <1>24, HeldStep DEF Brings, StoreRefreshed, Commit, CommitState, Goes, NoNews, files,
            local, server, history, counters
  <2>2. UNCHANGED <<issued, live, got, misused>>
    BY <1>24 DEF CommitState, Goes, NoNews, files, local, server, history, counters
  <2>3. \A d \in Client : /\ pc'[d] \in {"granted", "commit"} => pc'[d] = pc[d]
                          /\ pc'[d] = "rejected" => pc[d] = "rejected"
    BY <1>0, <1>24 DEF CommitState, Goes, NoNews, CallTypes, files, local, server, history,
            counters
  <2> QED
    BY <1>0, <2>1, <2>2, <2>3, CarryOn
<1>25. CASE CommitEnds(c)
  <2>1. Held' \subseteq Held
    BY <1>25, HeldStep DEF Brings, StoreRefreshed, Commit, CommitEnds, Goes, Leaves, NoNews,
            files, local, server, history, counters
  <2>2. UNCHANGED <<issued, live, got, misused>>
    BY <1>25 DEF CommitEnds, Goes, Leaves, NoNews, files, local, server, history, counters
  <2>3. \A d \in Client : /\ pc'[d] \in {"granted", "commit"} => pc'[d] = pc[d]
                          /\ pc'[d] = "rejected" => pc[d] = "rejected"
    BY <1>0, <1>25 DEF CommitEnds, Goes, Leaves, NoNews, CallTypes, files, local, server,
            history, counters
  <2> QED
    BY <1>0, <2>1, <2>2, <2>3, CarryOn
<1>26. CASE Rollback(c)
  <2>1. Held' \subseteq Held
    BY <1>26, HeldStep DEF Brings, StoreRefreshed, Commit, Rollback, Goes, Leaves, Store,
            NoNews, files, local, server, history, counters
  <2>2. UNCHANGED <<issued, live, got, misused>>
    BY <1>26 DEF Rollback, Goes, Leaves, Store, NoNews, files, local, server, history, counters
  <2>3. \A d \in Client : /\ pc'[d] \in {"granted", "commit"} => pc'[d] = pc[d]
                          /\ pc'[d] = "rejected" => pc[d] = "rejected"
    BY <1>0, <1>26 DEF Rollback, Goes, Leaves, Store, NoNews, CallTypes, files, local, server,
            history, counters
  <2> QED
    BY <1>0, <2>1, <2>2, <2>3, CarryOn
<1>27. CASE ReleaseLease(c)
  <2>1. Held' \subseteq Held
    BY <1>27, HeldStep DEF Brings, StoreRefreshed, Commit, ReleaseLease, Goes, Free, NoNews,
            files, local, server, history, counters
  <2>2. UNCHANGED <<issued, live, got, misused>>
    BY <1>27 DEF ReleaseLease, Goes, Free, NoNews, files, local, server, history, counters
  <2>3. \A d \in Client : /\ pc'[d] \in {"granted", "commit"} => pc'[d] = pc[d]
                          /\ pc'[d] = "rejected" => pc[d] = "rejected"
    BY <1>0, <1>27 DEF ReleaseLease, Goes, Free, NoNews, CallTypes, files, local, server,
            history, counters
  <2> QED
    BY <1>0, <2>1, <2>2, <2>3, CarryOn
<1> QED
  BY <1>1, <1>2, <1>3, <1>4, <1>5, <1>6, <1>7, <1>8, <1>9, <1>10, <1>11, <1>12, <1>13, <1>14,
          <1>15, <1>16, <1>17, <1>18, <1>19, <1>20, <1>21, <1>22, <1>23, <1>24, <1>25, <1>26,
          <1>27 DEF Step

LEMMA FaultCounted ==
    ASSUME TInv, TInv', NEW c \in Client, WriteFails(c)
    PROVE  crashes' + losses' + faults' # 0 /\ crashes' + cancels' + faults' # 0
<1>1. /\ crashes' \in Nat /\ losses' \in Nat /\ cancels' \in Nat
      /\ faults \in Nat /\ faults' = faults + 1
  BY WriteFailsForm DEF TInv, InHand
<1>2. \A a, b, n \in Nat : a + b + (n + 1) # 0
  OBVIOUS
<1> QED
  BY <1>1, <1>2

LEMMA OtherOneUse ==
    ASSUME TInv, TInv', OneUse, Next, \A c \in Client : ~Step(c), (crashes + losses + faults = 0)'
    PROVE  OneUse'
<1>0. CallTypes /\ InHand /\ Bar \in Int
  <2>1. CallTypes /\ InHand /\ state \in State /\ \A d \in Client : seen[d].state \in State
    BY DEF TInv, FileTypes, CallTypes
  <2>2. state.gen \in Nat /\ \A d \in Client : seen[d].state.gen \in Nat
    BY <2>1, StateOps
  <2> QED
    BY <2>1, <2>2 DEF Bar
<1>1. ASSUME NEW c \in Client, NEW k \in Kind, Start(c, k) PROVE OneUse'
  <2>1. PICK p \in Phase : /\ p \notin UnderLock /\ p # "commit"
                           /\ pc[c] = "idle" /\ pc' = [pc EXCEPT ![c] = p]
    BY <1>1 DEF Start, Goes, Kind, Phase, UnderLock
  <2>2. Bar' = Bar /\ Held' = Held
    BY <1>0, <1>1, <2>1 DEF Start, Bar, Held, CallTypes, UnderLock, files
  <2> QED
    BY <1>0, <1>1, <2>1, <2>2, CarryOn DEF Start, CallTypes, UnderLock, server, history
<1>2. ASSUME NEW c \in Client, Cancel(c) PROVE OneUse'
  <2>1. Bar' = Bar /\ Held' = Held
    BY <1>2 DEF Cancel, Bar, Held, files
  <2> QED
    BY <1>0, <1>2, <2>1, CarryOn DEF Cancel, server, history
<1>3. ASSUME NEW c \in Client, LockTimeout(c) PROVE OneUse'
  <2>1. PICK p \in {"idle", "failing"} : pc' = [pc EXCEPT ![c] = p]
    BY <1>3 DEF LockTimeout, Goes
  <2>2. pc[c] \notin UnderLock
    BY <1>3 DEF LockTimeout, UnderLock
  <2>3. Bar' = Bar /\ Held' = Held
    BY <1>0, <1>3, <2>1, <2>2 DEF LockTimeout, Bar, Held, CallTypes, UnderLock, files
  <2> QED
    BY <1>0, <1>3, <2>1, <2>3, CarryOn DEF LockTimeout, NoNews, CallTypes, server, history
<1>4. ASSUME NEW p \in Process, Crash(p) PROVE OneUse'
  <2>1. crashes' = crashes + 1 /\ losses' = losses /\ faults' = faults
    BY <1>4 DEF Crash
  <2> QED
    BY <1>0, <2>1 DEF InHand
<1>5. ASSUME NEW g \in Grant, ExpireToken(g) PROVE OneUse'
  <2>1. Bar' = Bar /\ Held' = Held
    BY <1>5 DEF ExpireToken, Bar, Held, files, local
  <2> QED
    BY <1>0, <1>5, <2>1, CarryOn DEF ExpireToken, local, history
<1>6. ASSUME StaleLock PROVE OneUse'
  <2>1. Bar' = Bar /\ Held' = Held
    BY <1>0, <1>6, ConstantsAssumption DEF StaleLock, Bar, Held, local
  <2> QED
    BY <1>0, <1>6, <2>1, CarryOn DEF StaleLock, local, server, history
<1>7. ASSUME ExpireLease PROVE OneUse'
  <2>1. state'.gen = state.gen
    BY <1>7, StateFields DEF ExpireLease, TInv, FileTypes
  <2>2. Bar' = Bar /\ Held' = Held
    BY <1>7, <2>1 DEF ExpireLease, Bar, Held, local
  <2> QED
    BY <1>0, <1>7, <2>2, CarryOn DEF ExpireLease, local, server, history
<1>8. \A c \in Client : ~WriteFails(c)
  BY FaultCounted
<1> QED
  BY <1>1, <1>2, <1>3, <1>4, <1>5, <1>6, <1>7, <1>8 DEF Next

\* Mishaps are counted, and never forgotten.
LEMMA MishapsGrow ==
    ASSUME TInv, [Next]_vars
    PROVE  /\ losses' >= losses /\ crashes' >= crashes /\ cancels' >= cancels /\ faults' >= faults
           /\ losses \in Nat /\ crashes \in Nat /\ cancels \in Nat /\ faults \in Nat
<1>0. losses \in Nat /\ crashes \in Nat /\ cancels \in Nat /\ faults \in Nat
  BY DEF TInv, InHand
<1>1. ASSUME NEW c \in Client, Step(c)
      PROVE  /\ losses' >= losses /\ crashes' >= crashes
             /\ cancels' >= cancels /\ faults' >= faults
  <2>1. CASE PeekState(c)
    BY <1>0, <2>1 DEF PeekState, Sees, Goes, NoNews, Loads, Settled, counters
  <2>2. CASE Load(c)
    BY <1>0, <2>2 DEF Load, Sees, Goes, NoNews, Decides, Takes, counters
  <2>3. CASE Land(c)
    BY <1>0, <2>3 DEF Land, Goes, NoNews, Decides, Takes, counters
  <2>4. CASE Recover(c)
    BY <1>0, <2>4 DEF Recover, Goes, NoNews, Caches, Free, Interrupted, counters
  <2>5. CASE Claim(c)
    BY <1>0, <2>5 DEF Claim, Goes, NoNews, Caches, Free, Refreshes, Settles,
            Usable, Again, BeginsRefresh, Sees, Takes, counters
  <2>6. CASE RefreshGranted(c)
    BY <1>0, <2>6 DEF RefreshGranted, Goes, Rotates, Keeps, counters
  <2>7. CASE RefreshRejected(c)
    BY <1>0, <2>7 DEF RefreshRejected, Goes, Keeps, counters
  <2>8. CASE RefreshFails(c)
    BY <1>0, <2>8 DEF RefreshFails, Goes, Leaves, Rotates, counters
  <2>9. CASE StoreRefreshed(c)
    BY <1>0, <2>9 DEF StoreRefreshed, Refreshed, Goes, Store, NoNews, counters
  <2>10. CASE FinishRefresh(c)
    BY <1>0, <2>10 DEF FinishRefresh, Goes, Leaves, Takes, NoNews, counters
  <2>11. CASE EraseRejected(c)
    BY <1>0, <2>11 DEF EraseRejected, Goes, Leaves, Store, Again, NoNews, counters
  <2>12. CASE Logout(c)
    BY <1>0, <2>12 DEF Logout, Goes, Sees, Caches, SignedOut, Keeps, Free, Epochs, counters
  <2>13. CASE Revoke(c)
    BY <1>0, <2>13 DEF Revoke, Goes, Leaves, counters
  <2>14. CASE EraseLogin(c)
    BY <1>0, <2>14 DEF EraseLogin, Goes, Store, NoNews, counters
  <2>15. CASE FinishLogout(c)
    BY <1>0, <2>15 DEF FinishLogout, Goes, Leaves, NoNews, counters
  <2>16. CASE Login(c)
    BY <1>0, <2>16 DEF Login, Goes, Sees, Caches, Decide, Waits, Authorizing, Free, NoNews,
          counters
  <2>17. CASE Reread(c)
    BY <1>0, <2>17 DEF Reread, Goes, Again, NoNews, counters
  <2>18. CASE Wait(c)
    BY <1>0, <2>18 DEF Wait, Goes, Caches, NoNews, counters
  <2>19. CASE Device(c)
    BY <1>0, <2>19 DEF Device, Goes, NoNews, counters
  <2>20. CASE Publish(c)
    BY <1>0, <2>20 DEF Publish, Goes, NoNews, Free, counters
  <2>21. CASE PollGranted(c)
    BY <1>0, <2>21 DEF PollGranted, Goes, Keeps, counters
  <2>22. CASE PollFails(c)
    BY <1>0, <2>22 DEF PollFails, Goes, NoNews, counters
  <2>23. CASE Commit(c)
    BY <1>0, <2>23 DEF Commit, Goes, Keeps, Free, Store, Sees, NewLogin, Holds, counters
  <2>24. CASE CommitState(c)
    BY <1>0, <2>24 DEF CommitState, Goes, NoNews, counters
  <2>25. CASE CommitEnds(c)
    BY <1>0, <2>25 DEF CommitEnds, Goes, Leaves, NoNews, counters
  <2>26. CASE Rollback(c)
    BY <1>0, <2>26 DEF Rollback, Goes, Leaves, Store, NoNews, counters
  <2>27. CASE ReleaseLease(c)
    BY <1>0, <2>27 DEF ReleaseLease, Goes, Free, NoNews, counters
  <2> QED
    BY <1>1, <2>1, <2>2, <2>3, <2>4, <2>5, <2>6, <2>7, <2>8, <2>9, <2>10, <2>11, <2>12, <2>13,
            <2>14, <2>15, <2>16, <2>17, <2>18, <2>19, <2>20, <2>21, <2>22, <2>23, <2>24, <2>25,
            <2>26, <2>27 DEF Step
<1>2. ASSUME NEW c \in Client, WriteFails(c)
      PROVE  /\ losses' >= losses /\ crashes' >= crashes
             /\ cancels' >= cancels /\ faults' >= faults
  BY <1>0, <1>2, WriteFailsForm
<1>3. CASE \A c \in Client : ~Step(c) /\ ~WriteFails(c)
  BY <1>0, <1>3 DEF Next, Start, Cancel, LockTimeout, NoNews, Crash, ExpireToken, StaleLock,
        ExpireLease, counters, vars
<1> QED
  BY <1>0, <1>1, <1>2, <1>3

LEMMA SumOfNats ==
    ASSUME NEW x \in Nat, NEW y \in Nat, NEW z \in Nat, x + y + z = 0
    PROVE  x = 0 /\ y = 0 /\ z = 0
OBVIOUS

LEMMA NoMishapBefore ==
    ASSUME TInv, TInv', [Next]_vars
    PROVE  /\ (crashes + losses + faults = 0)' => crashes + losses + faults = 0
           /\ (crashes + cancels + faults = 0)' => crashes + cancels + faults = 0
<1>1. crashes' \in Nat /\ losses' \in Nat /\ cancels' \in Nat /\ faults' \in Nat
  BY DEF TInv, InHand
<1>2. /\ losses' >= losses /\ crashes' >= crashes /\ cancels' >= cancels /\ faults' >= faults
      /\ losses \in Nat /\ crashes \in Nat /\ cancels \in Nat /\ faults \in Nat
  BY MishapsGrow
<1>3. ASSUME crashes' + losses' + faults' = 0 PROVE crashes + losses + faults = 0
  <2>1. crashes' = 0 /\ losses' = 0 /\ faults' = 0
    BY <1>1, <1>3, SumOfNats
  <2>2. crashes = 0 /\ losses = 0 /\ faults = 0
    BY <1>2, <2>1
  <2> QED
    BY <2>2
<1>4. ASSUME crashes' + cancels' + faults' = 0 PROVE crashes + cancels + faults = 0
  <2>1. crashes' = 0 /\ cancels' = 0 /\ faults' = 0
    BY <1>1, <1>4, SumOfNats
  <2>2. crashes = 0 /\ cancels = 0 /\ faults = 0
    BY <1>2, <2>1
  <2> QED
    BY <2>2
<1> QED
  BY <1>3, <1>4

\* A refresh token is presented once, unless a process ended, an answer was lost
\* or a write failed: refreshCredential and commitLogin write what the server granted before
\* anyone else may present a token (auth-core.ts).
THEOREM RefreshTokensAreUsedOnce == Spec => []OneRefreshPerToken
<1> DEFINE Calm == crashes + losses + faults = 0 => OneUse
           Inv == TInv /\ Sections /\ Calm
<1>1. Init => Calm
  <2> SUFFICES ASSUME Init PROVE OneUse
    OBVIOUS
  <2>1. Held = {}
    BY ConstantsAssumption DEF Init, Held, Nothing, Credential, Grant
  <2> QED
    BY <2>1 DEF Init, OneUse, Unspent, Numbered, OneGen, InFlight, SpentBelow
<1>2. TInv /\ Sections /\ TInv' /\ Calm /\ [Next]_vars => Calm'
  <2> SUFFICES ASSUME TInv, Sections, TInv', Calm, [Next]_vars, (crashes + losses + faults = 0)'
               PROVE  OneUse'
    OBVIOUS
  <2>1. crashes + losses + faults = 0 /\ OneUse
    BY NoMishapBefore
  <2>2. CASE UNCHANGED vars
    BY <2>1, <2>2 DEF vars, files, local, server, history, OneUse, Unspent, Numbered, OneGen,
          InFlight, SpentBelow, Held, Bar
  <2> QED
    BY <2>1, <2>2, StepOneUse, OtherOneUse
<1>3. Calm /\ TInv => OneRefreshPerToken
  <2> SUFFICES ASSUME Calm, TInv, misused PROVE crashes + losses + faults > 0
    BY DEF OneRefreshPerToken
  <2>1. /\ crashes \in Nat /\ losses \in Nat /\ faults \in Nat
        /\ crashes + losses + faults # 0
    BY DEF TInv, InHand, OneUse, Unspent
  <2> QED
    BY <2>1
<1> QED
  BY <1>1, <1>2, <1>3, SectionsHold, PTL DEF Spec

----------------------------------------------------------------------------
(* The logins.                                                             *)

LEMMA HeldGen == \A a \in Held : a.gen \in Nat /\ a.epoch \in Nat
BY Bounds DEF Held, Credential, Grant

\* A login that is about to be committed is nobody's yet.
NewLogins ==
    /\ \A a \in Held : a.epoch <= issued
    /\ \A e \in ended : e <= issued
    /\ \A c \in Client : pc[c] = "commit" =>
           /\ got[c] <= issued /\ got[c] \notin ended /\ \A a \in Held : a.epoch # got[c]
           /\ \A d \in Client \ {c} : pc[d] = "commit" => got[d] # got[c]

\* What is held after a step belongs to a login that was known before, or to the
\* one that is committed.
LEMMA HeldLogins ==
    ASSUME TInv, TInv', NEW c \in Client, Step(c), NEW a \in Held'
    PROVE  \/ \E b \in Held : a.epoch = b.epoch
           \/ pc[c] = "commit" /\ pc'[c] = "committing" /\ a.epoch = got[c]
<1>1. CallTypes /\ InHand /\ InHand'
  BY DEF TInv
<1>2. CASE a \in Held
  BY <1>2
<1>3. CASE a = disk' /\ StoreRefreshed(c)
  <2>1. seen[c].cred \in Credential /\ seen[c].cred \in Held
    BY <1>1, <1>3 DEF StoreRefreshed, Refreshed, InHand, Held
  <2>2. a.epoch = seen[c].cred.epoch
    BY <2>1, <1>3 DEF StoreRefreshed, Refreshed, Store, Credential
  <2> QED
    BY <2>1, <2>2
<1>4. CASE a = disk' /\ Commit(c) /\ pc'[c] = "committing"
  <2>1. pc[c] = "commit" /\ a = NewLogin(c)
    BY <1>1, <1>4 DEF Commit, Store, Goes, CallTypes
  <2> QED
    BY <2>1, <1>4 DEF NewLogin
<1> QED
  BY <1>2, <1>3, <1>4, HeldStep DEF Brings

\* A logout ends logins that somebody holds.
LEMMA EndsHeld ==
    ASSUME TInv, NEW c \in Client, Step(c), NEW e \in ended'
    PROVE  e \in ended \/ \E a \in Held : e = a.epoch
<1>1. ended' = ended \/ ended' = ended \cup Epochs(disk) \cup Epochs(Stored(c))
  BY StepEffects DEF Logout
<1>2. disk # None => disk \in Held
  BY DEF TInv, FileTypes, OptCredential, Held
<1>3. Stored(c) # None => Stored(c) \in Held
  BY StoredHeld, StoredType DEF TInv, OptCredential
<1> QED
  BY <1>1, <1>2, <1>3 DEF Epochs

LEMMA StepNewLogins ==
    ASSUME TInv, TInv', NewLogins, NEW c \in Client, Step(c)
    PROVE  NewLogins'
<1>1. /\ issued \in Nat /\ issued' \in Nat /\ issued' >= issued
      /\ \A e \in ended : e <= issued /\ e \in Nat
      /\ \A a \in Held : a.epoch <= issued /\ a.epoch \in Nat
      /\ \A d \in Client : pc[d] = "commit" => got[d] <= issued /\ got[d] \in Nat
  <2>1. issued \in Nat /\ issued' \in Nat
    BY Bounds DEF TInv, ServerTypes
  <2>2. issued' >= issued
    BY <2>1, StepEffects
  <2>3. \A e \in ended : e <= issued /\ e \in Nat
    <3>1. ended \subseteq Grant /\ Grant \subseteq Nat
      BY Bounds DEF TInv, ServerTypes, Grant
    <3>2. \A e \in ended : e <= issued
      BY DEF NewLogins
    <3> QED
      BY <3>1, <3>2
  <2>4. \A a \in Held : a.epoch <= issued /\ a.epoch \in Nat
    BY HeldGen DEF NewLogins
  <2>5. \A d \in Client : pc[d] = "commit" => got[d] <= issued /\ got[d] \in Nat
    BY Bounds DEF TInv, InHand, Grant, NewLogins
  <2> QED
    BY <2>1, <2>2, <2>3, <2>4, <2>5
<1>2. \A d \in Client \ {c} : pc'[d] = pc[d] /\ got'[d] = got[d]
  BY OthersInSection
<1>3. /\ \A a \in Held' : a.epoch <= issued' /\ a.epoch <= issued
      /\ \A e \in ended' : e <= issued' /\ e <= issued
  <2>1. \A a \in Held' : a.epoch <= issued /\ a.epoch \in Nat
    BY <1>1, HeldLogins
  <2>2. \A e \in ended' : e <= issued /\ e \in Nat
    BY <1>1, EndsHeld
  <2> QED
    BY <1>1, <2>1, <2>2
<1>4. ASSUME NEW d \in Client \ {c}, pc'[d] = "commit"
      PROVE  /\ got'[d] <= issued /\ got'[d] \in Nat /\ got'[d] <= issued'
             /\ got'[d] \notin ended' /\ \A a \in Held' : a.epoch # got'[d]
             /\ \A x \in Client \ {c, d} : pc'[x] = "commit" => got'[x] # got'[d]
  <2>1. pc[d] = "commit" /\ got'[d] = got[d]
    BY <1>2, <1>4
  <2>2. \A a \in Held' : a.epoch # got[d]
    BY <2>1, HeldLogins DEF NewLogins
  <2>3. got[d] \notin ended'
    BY <2>1, EndsHeld DEF NewLogins
  <2>4. got[d] <= issued'
    BY <1>1, <2>1
  <2> QED
    BY <1>1, <1>2, <2>1, <2>2, <2>3, <2>4 DEF NewLogins
<1>5. CASE pc'[c] # "commit"
  BY <1>3, <1>4, <1>5 DEF NewLogins
<1>6. CASE pc'[c] = "commit"
  <2>1. PollGranted(c)
    BY <1>6, StepEffects
  <2>2. issued' = issued + 1 /\ got'[c] = issued'
    BY <2>1 DEF PollGranted, TInv, CallTypes
  <2>3. /\ \A a \in Held' : a.epoch # issued'
        /\ issued' \notin ended'
        /\ \A d \in Client \ {c} : pc'[d] = "commit" => got'[d] # issued'
    BY <1>1, <1>3, <1>4, <2>2
  <2> QED
    BY <1>1, <1>3, <1>4, <2>2, <2>3 DEF NewLogins
<1> QED
  BY <1>5, <1>6

\* What is no step of a call changes neither the secret nor the generation, and
\* brings no credential unless it is a write that fails.
LEMMA OtherEffects ==
    ASSUME TInv, Next, \A c \in Client : ~Step(c) /\ ~WriteFails(c)
    PROVE  /\ UNCHANGED <<disk, seen, got, issued, ended>> /\ Held' \subseteq Held
           /\ state'.gen = state.gen /\ state'.status = state.status
           /\ \A d \in Client : pc'[d] \in {pc[d], "idle"} \/ (pc'[d] # "commit" /\ lock # d)
<1>0. /\ FileTypes /\ CallTypes /\ Exclusion /\ state \in State
      /\ None \notin Credential /\ Unread \notin Credential
  BY ConstantsAssumption DEF TInv, FileTypes, Credential, Grant
<1>1. ASSUME NEW c \in Client, NEW k \in Kind, Start(c, k)
      PROVE  /\ UNCHANGED <<state, disk, cache, seen, got, issued, ended>>
             /\ \A d \in Client : pc'[d] = pc[d] \/ (pc'[d] # "commit" /\ lock # d)
  <2>1. PICK p \in Phase : p # "commit" /\ pc' = [pc EXCEPT ![c] = p]
    BY <1>1 DEF Start, Goes, Kind, Phase
  <2>2. lock # c
    BY <1>0, <1>1 DEF Start, Exclusion, UnderLock
  <2> QED
    BY <1>0, <1>1, <2>1, <2>2 DEF Start, CallTypes, files, server, history
<1>2. ASSUME NEW c \in Client, Cancel(c)
      PROVE  UNCHANGED <<state, disk, cache, pc, seen, got, issued, ended>>
  BY <1>2 DEF Cancel, files, server, history
<1>3. ASSUME NEW c \in Client, LockTimeout(c)
      PROVE  /\ UNCHANGED <<state, disk, cache, seen, got, issued, ended>>
             /\ \A d \in Client : pc'[d] = pc[d] \/ (pc'[d] # "commit" /\ lock # d)
  BY <1>0, <1>3 DEF LockTimeout, Goes, NoNews, files, server, history, CallTypes, Exclusion,
          UnderLock
<1>4. ASSUME NEW p \in Process, Crash(p)
      PROVE  /\ UNCHANGED <<state, disk, seen, got, issued, ended>>
             /\ \A q \in Process : cache'[q] \in {cache[q], Unread}
             /\ \A d \in Client : pc'[d] \in {pc[d], "idle"}
  BY <1>0, <1>4 DEF Crash, server, history, FileTypes, CallTypes
<1>5. ASSUME NEW g \in Grant, ExpireToken(g)
      PROVE  UNCHANGED <<state, disk, cache, pc, seen, got, issued, ended>>
  BY <1>5 DEF ExpireToken, files, local, history
<1>6. ASSUME StaleLock
      PROVE  UNCHANGED <<state, disk, cache, pc, seen, got, issued, ended>>
  BY <1>6 DEF StaleLock, local, server, history
<1>7. ASSUME ExpireLease
      PROVE  /\ UNCHANGED <<disk, cache, pc, seen, got, issued, ended>>
             /\ state'.gen = state.gen /\ state'.status = state.status
  BY <1>0, <1>7, StateFields DEF ExpireLease, local, server, history
<1>8. UNCHANGED <<disk, seen>> /\ \A q \in Process : cache'[q] \in {cache[q], Unread}
  BY <1>0, <1>1, <1>2, <1>3, <1>4, <1>5, <1>6, <1>7 DEF Next
<1>9. Held' \subseteq Held
  BY <1>0, <1>8 DEF Held
<1> QED
  BY <1>1, <1>2, <1>3, <1>4, <1>5, <1>6, <1>7, <1>8, <1>9 DEF Next

LEMMA OtherNewLogins ==
    ASSUME TInv, NewLogins, Next, \A c \in Client : ~Step(c) /\ ~WriteFails(c)
    PROVE  NewLogins'
<1>1. /\ UNCHANGED <<got, issued, ended>> /\ Held' \subseteq Held
      /\ \A d \in Client : pc'[d] = "commit" => pc[d] = "commit"
  BY OtherEffects
<1> QED
  BY <1>1 DEF NewLogins

\* A put that fails leaves what it could not write in the process's memory.
LEMMA FaultHeld ==
    ASSUME TInv, NEW c \in Client, WriteFails(c), NEW a \in Held'
    PROVE  \/ a \in Held
           \/ pc[c] = "granted" /\ a = Refreshed(c)
           \/ pc[c] = "commit" /\ a = NewLogin(c) /\ Holds(c) /\ Free
<1>0. FileTypes /\ CallTypes /\ a \in Credential /\ None \notin Credential
  BY ConstantsAssumption DEF TInv, Held, Credential, Grant
<1>1. UNCHANGED <<disk, seen>>
  BY WriteFailsForm
<1>2. CASE \E p \in Process : cache'[p] = a /\ cache[p] # a
  <2>1. PICK p \in Process : cache'[p] = a /\ cache[p] # a
    BY <1>2
  <2>2. a = Stored(c) => a \in Held
    BY <1>0, StoredHeld
  <2>3. CASE FirstWriteFails(c)
    BY <1>0, <2>1, <2>2, <2>3, CachesFrom DEF FirstWriteFails
  <2>4. CASE SecretWriteFails(c)
    BY <1>0, <2>1, <2>4 DEF SecretWriteFails, Remembers, FileTypes, Held
  <2>5. CASE StateWriteFails(c) \/ OutcomeWriteFails(c)
    BY <2>1, <2>5 DEF StateWriteFails, OutcomeWriteFails
  <2> QED
    BY <2>3, <2>4, <2>5 DEF WriteFails
<1> QED
  BY <1>0, <1>1, <1>2 DEF Held

LEMMA FaultNewLogins ==
    ASSUME TInv, TInv', NewLogins, NEW c \in Client, WriteFails(c)
    PROVE  NewLogins'
<1>0. /\ issued \in Nat /\ issued' \in Nat /\ issued' >= issued
      /\ UNCHANGED <<got, ended>>
      /\ \A d \in Client : pc'[d] = "commit" => pc[d] = "commit" /\ d # c
  <2>1. issued' \in {issued, issued + 1} /\ issued \in 0 .. MaxGrant
    BY DEF TInv, ServerTypes, WriteFails, FirstWriteFails, StateWriteFails, SecretWriteFails,
           OutcomeWriteFails, NoNewsButFault, Rotates, server
  <2> QED
    BY <2>1, WriteFailsForm, Bounds DEF TInv, CallTypes, Goes
<1>1. ASSUME NEW a \in Held'
      PROVE  \/ \E b \in Held : a.epoch = b.epoch
             \/ pc[c] = "commit" /\ a.epoch = got[c]
  <2>1. CASE pc[c] = "granted" /\ a = Refreshed(c)
    <3>1. seen[c].cred \in Credential /\ seen[c].cred \in Held
      BY <2>1 DEF TInv, InHand, Held
    <3> QED
      BY <2>1, <3>1 DEF Refreshed, Credential
  <2>2. CASE pc[c] = "commit" /\ a = NewLogin(c)
    BY <2>2 DEF NewLogin
  <2> QED
    BY <2>1, <2>2, FaultHeld
<1>2. /\ \A b \in Held : b.epoch <= issued /\ b.epoch \in Nat
      /\ \A e \in ended : e <= issued /\ e \in Nat
      /\ \A d \in Client : pc[d] = "commit" => got[d] <= issued /\ got[d] \in Nat
  BY HeldGen, Bounds DEF TInv, ServerTypes, InHand, Grant, NewLogins
<1>3. /\ \A a \in Held' : a.epoch <= issued'
      /\ \A e \in ended' : e <= issued'
      /\ \A d \in Client : pc[d] = "commit" => got[d] <= issued'
  BY <1>0, <1>1, <1>2
<1>4. ASSUME NEW d \in Client, pc'[d] = "commit" PROVE \A a \in Held' : a.epoch # got'[d]
  BY <1>0, <1>1, <1>4 DEF NewLogins
<1> QED
  BY <1>0, <1>3, <1>4 DEF NewLogins

LEMMA LoginsAreNew == Spec => [](TInv /\ Sections /\ NewLogins)
<1>1. Init => NewLogins
  <2> SUFFICES ASSUME Init PROVE NewLogins
    OBVIOUS
  <2>1. Held = {}
    BY ConstantsAssumption DEF Init, Held, Nothing, Credential, Grant
  <2> QED
    BY <2>1 DEF Init, NewLogins
<1>2. TInv /\ TInv' /\ NewLogins /\ [Next]_vars => NewLogins'
  <2>1. CASE UNCHANGED vars
    BY <2>1 DEF vars, files, local, server, history, NewLogins, Held
  <2> QED
    BY <2>1, StepNewLogins, OtherNewLogins, FaultNewLogins
<1> QED
  BY <1>1, <1>2, SectionsHold, PTL DEF Spec

----------------------------------------------------------------------------
(* While no process ended, no login was cancelled and no write failed, the *)
(* state and the secret go together.                                       *)

Storing == lock \in Client /\ pc[lock] = "stored"
Writing == lock \in Client /\ pc[lock] \in {"stored", "committing"}

NoCancel == aborted = {} /\ \A c \in Client : pc[c] # "rollback"

\* Nothing is ahead of the state but the secret that is being put in place.
Behind == \A a \in Held : a.gen <= state.gen \/ (Writing /\ a = disk)
Agrees ==
    state.status \in Settled /\ ~Storing =>
        /\ disk \in Credential /\ disk.gen = state.gen
        /\ \A a \in Held : a.gen = state.gen => a = disk

InStep == NoCancel /\ Behind /\ Agrees

\* A step that leaves the secret alone, and does not settle the state.
LEMMA StayInStep ==
    ASSUME InStep, TInv, TInv', NoCancel', Held' \subseteq Held, disk' = disk,
           Writing' <=> Writing, Storing' <=> Storing, state'.gen >= state.gen,
           state'.status \in Settled => state.status \in Settled /\ state'.gen = state.gen
    PROVE  InStep'
<1>1. state.gen \in Nat /\ state'.gen \in Nat
  BY StateOps DEF TInv, FileTypes
<1>2. Behind'
  BY <1>1, HeldGen DEF InStep, Behind
<1>3. Agrees'
  BY DEF InStep, Agrees
<1> QED
  BY <1>2, <1>3 DEF InStep

LEMMA EraseInStep ==
    ASSUME InStep, NoCancel', Held' \subseteq Held, state' = state,
           state.status \notin Settled, ~Writing, ~Writing'
    PROVE  InStep'
BY DEF InStep, Behind, Agrees

LEMMA StepInStep ==
    ASSUME TInv, TInv', Sections, Sections', InStep, NEW c \in Client, Step(c)
    PROVE  InStep'
<1>0. /\ Exclusion /\ CallTypes /\ FileTypes /\ InHand /\ InHand' /\ CountTypes /\ ServerTypes
      /\ Section(c) /\ Section(c)' /\ None \notin Client /\ Dead \notin Client
      /\ state \in State /\ state.gen \in Nat /\ disk \in OptCredential
      /\ seen[c].state \in State /\ seen[c].cred \in OptCredential /\ Stored(c) \in OptCredential
      /\ NoCancel /\ Behind /\ Agrees /\ aborted = {} /\ NoCancel'
  <2>1. /\ Exclusion /\ CallTypes /\ FileTypes /\ InHand /\ InHand' /\ CountTypes /\ ServerTypes
        /\ Section(c) /\ Section(c)' /\ None \notin Client /\ Dead \notin Client
    BY ConstantsAssumption DEF TInv, Sections
  <2>2. /\ state \in State /\ state.gen \in Nat /\ disk \in OptCredential
        /\ seen[c].state \in State /\ seen[c].cred \in OptCredential
    BY <2>1, StateOps DEF FileTypes, CallTypes
  <2>3. NoCancel /\ Behind /\ Agrees /\ aborted = {}
    BY DEF InStep, NoCancel
  <2>4. NoCancel'
    BY <2>3, StepEffects, OthersInSection DEF NoCancel
  <2> QED
    BY <2>1, <2>2, <2>3, <2>4, StoredType
<1>1. CASE PeekState(c)
  <2>1. Held' \subseteq Held
    BY <1>1, HeldStep DEF Brings, StoreRefreshed, Commit, PeekState, Sees, Goes, NoNews, Loads,
            Settled, files, local, server, history, counters
  <2>2. state' = state /\ disk' = disk
    BY <1>0, <1>1 DEF PeekState, Sees, Goes, NoNews, Loads, Settled, NoCancel, files, local,
            server, history, counters
  <2>3. (Writing' <=> Writing) /\ (Storing' <=> Storing)
    BY <1>0, <1>1 DEF PeekState, Sees, Goes, NoNews, Loads, Settled, Writing, Storing,
            Exclusion, CallTypes, UnderLock, files, local, server, history, counters
  <2> QED
    BY <1>0, <2>1, <2>2, <2>3, StayInStep
<1>2. CASE Load(c)
  <2>1. Held' \subseteq Held
    BY <1>2, HeldStep DEF Brings, StoreRefreshed, Commit, Load, Sees, Goes, NoNews, Decides,
            Takes, files, local, server, history, counters
  <2>2. state' = state /\ disk' = disk
    BY <1>0, <1>2 DEF Load, Sees, Goes, NoNews, Decides, Takes, NoCancel, files, local, server,
            history, counters
  <2>3. (Writing' <=> Writing) /\ (Storing' <=> Storing)
    BY <1>0, <1>2 DEF Load, Sees, Goes, NoNews, Decides, Takes, Writing, Storing, Exclusion,
            CallTypes, UnderLock, files, local, server, history, counters
  <2> QED
    BY <1>0, <2>1, <2>2, <2>3, StayInStep
<1>3. CASE Land(c)
  <2>1. Held' \subseteq Held
    BY <1>3, HeldStep DEF Brings, StoreRefreshed, Commit, Land, Goes, NoNews, Decides, Takes,
            files, local, server, history, counters
  <2>2. state' = state /\ disk' = disk
    BY <1>0, <1>3 DEF Land, Goes, NoNews, Decides, Takes, NoCancel, files, local, server,
            history, counters
  <2>3. (Writing' <=> Writing) /\ (Storing' <=> Storing)
    BY <1>0, <1>3 DEF Land, Goes, NoNews, Decides, Takes, Writing, Storing, Exclusion,
            CallTypes, UnderLock, files, local, server, history, counters
  <2> QED
    BY <1>0, <2>1, <2>2, <2>3, StayInStep
<1>4. CASE Recover(c)
  <2>1. Held' \subseteq Held
    BY <1>4, HeldStep DEF Brings, StoreRefreshed, Commit, Recover, Goes, NoNews, Caches, Free,
            Interrupted, files, local, server, history, counters
  <2>2. /\ state'.gen >= state.gen /\ disk' = disk
        /\ state'.status \in Settled => state.status \in Settled /\ state'.gen = state.gen
    <3>1. ~Interrupted(state, Stored(c))
      <4>1. lock = None
        BY <1>4 DEF Recover, Free
      <4>2. Stored(c) # None => Stored(c) \in Held /\ Stored(c).gen <= state.gen
        BY <1>0, <4>1, StoredHeld DEF OptCredential, Behind, Writing
      <4> QED
        BY <1>0, <4>2, HeldGen DEF Interrupted, GenOf
    <3> QED
      BY <1>0, <3>1, <1>4 DEF Recover
  <2>3. ~Writing /\ ~Writing' /\ ~Storing /\ ~Storing'
    BY <1>0, <1>4 DEF Recover, Goes, NoNews, Caches, Free, Interrupted, Writing, Storing,
            Exclusion, CallTypes, UnderLock, files, local, server, history, counters
  <2> QED
    BY <1>0, <2>1, <2>2, <2>3, StayInStep
<1>5. CASE Claim(c)
  <2>1. Held' \subseteq Held
    BY <1>5, HeldStep DEF Brings, StoreRefreshed, Commit, Claim, Goes, NoNews, Caches, Free,
            Refreshes, Settles, Usable, Again, BeginsRefresh, Sees,
            Takes, files, local, server, history, counters
  <2>2. /\ state'.gen >= state.gen /\ disk' = disk
        /\ state'.status \in Settled => state.status \in Settled /\ state'.gen = state.gen
    <3>1. CASE BeginsRefresh(c, Stored(c)) /\ Usable(state, Stored(c))
      <4>1. state' = [state EXCEPT !.status = "refreshing"] /\ state.status \in Settled
        BY <3>1 DEF BeginsRefresh, Usable, Settled
      <4>2. [state EXCEPT !.status = "refreshing"].gen = state.gen
        BY <1>0, StateFields
      <4> QED
        BY <1>0, <1>5, <4>1, <4>2 DEF Claim
    <3>2. CASE UNCHANGED state
      BY <1>0, <1>5, <3>2 DEF Claim
    <3> QED
      BY <1>5, <3>1, <3>2, ClaimEither
  <2>3. ~Writing /\ ~Writing' /\ ~Storing /\ ~Storing'
    BY <1>0, <1>5 DEF Claim, Goes, NoNews, Caches, Free, Refreshes, Settles,
            Usable, Again, BeginsRefresh, Sees, Takes, Writing, Storing, Exclusion,
            CallTypes, UnderLock, files, local, server, history, counters
  <2> QED
    BY <1>0, <2>1, <2>2, <2>3, StayInStep
<1>6. CASE RefreshGranted(c)
  <2>1. Held' \subseteq Held
    BY <1>6, HeldStep DEF Brings, StoreRefreshed, Commit, RefreshGranted, Goes, Rotates, Keeps,
            files, local, server, history, counters
  <2>2. state' = state /\ disk' = disk
    BY <1>0, <1>6 DEF RefreshGranted, Goes, Rotates, Keeps, NoCancel, files, local, server,
            history, counters
  <2>3. (Writing' <=> Writing) /\ (Storing' <=> Storing)
    BY <1>0, <1>6 DEF RefreshGranted, Goes, Rotates, Keeps, Writing, Storing, Exclusion,
            CallTypes, UnderLock, files, local, server, history, counters
  <2> QED
    BY <1>0, <2>1, <2>2, <2>3, StayInStep
<1>7. CASE RefreshRejected(c)
  <2>1. Held' \subseteq Held
    BY <1>7, HeldStep DEF Brings, StoreRefreshed, Commit, RefreshRejected, Goes, Keeps, files,
            local, server, history, counters
  <2>2. /\ state'.gen >= state.gen /\ disk' = disk
        /\ state'.status \in Settled => state.status \in Settled /\ state'.gen = state.gen
    BY <1>0, <1>7 DEF RefreshRejected, NewState, Settled, Section
  <2>3. ~Writing /\ ~Writing' /\ ~Storing /\ ~Storing'
    BY <1>0, <1>7 DEF RefreshRejected, Goes, Keeps, Writing, Storing, Exclusion, CallTypes,
            UnderLock, files, local, server, history, counters
  <2> QED
    BY <1>0, <2>1, <2>2, <2>3, StayInStep
<1>8. CASE RefreshFails(c)
  <2>1. Held' \subseteq Held
    BY <1>8, HeldStep DEF Brings, StoreRefreshed, Commit, RefreshFails, Goes, Leaves, Rotates,
            files, local, server, history, counters
  <2>2. /\ state'.gen >= state.gen /\ disk' = disk
        /\ state'.status \in Settled => state.status \in Settled /\ state'.gen = state.gen
    <3>1. PICK status \in {"authenticated", "expired"} :
              state' = [seen[c].state EXCEPT !.status = status]
      BY <1>8 DEF RefreshFails
    <3>2. state'.gen = seen[c].state.gen
      BY <1>0, <3>1, StateFields
    <3>3. seen[c].state.gen = state.gen /\ state.status = "refreshing" /\ disk' = disk
      BY <1>0, <1>8 DEF RefreshFails, Section
    <3> QED
      BY <1>0, <3>2, <3>3 DEF Settled
  <2>3. ~Writing /\ ~Writing' /\ ~Storing /\ ~Storing'
    BY <1>0, <1>8 DEF RefreshFails, Goes, Leaves, Rotates, Writing, Storing, Exclusion,
            CallTypes, UnderLock, files, local, server, history, counters
  <2> QED
    BY <1>0, <2>1, <2>2, <2>3, StayInStep
<1>9. CASE StoreRefreshed(c)
  <2>1. /\ lock = c /\ ~Writing /\ ~Storing /\ state' = state
        /\ lock' = lock /\ pc'[c] = "stored"
    BY <1>0, <1>9 DEF StoreRefreshed, Refreshed, NoNews, Goes, CallTypes, Exclusion, UnderLock,
          Writing,
          Storing
  <2>2. Writing' /\ Storing' /\ \A a \in Held' : a \in Held \/ a = disk'
    BY <2>1, <1>9, HeldStep DEF Writing, Storing
  <2>3. Behind' /\ Agrees'
    BY <1>0, <2>1, <2>2 DEF Behind, Agrees
  <2> QED
    BY <1>0, <2>3 DEF InStep
<1>10. CASE FinishRefresh(c)
  <2>1. Held' \subseteq Held /\ disk' = disk
    BY <1>10, HeldStep DEF Brings, StoreRefreshed, Commit, FinishRefresh
  <2>2. /\ disk \in Credential /\ disk \in Held /\ disk.gen \in Nat /\ disk.gen > state.gen
        /\ state'.gen = disk.gen /\ Writing /\ ~Writing' /\ ~Storing'
    <3>1. disk \in Credential /\ lock = c /\ disk.gen = state.gen + 1 /\ lock' = None
      BY <1>0, <1>10 DEF FinishRefresh, Leaves, InHand, Section, Exclusion, UnderLock
    <3> QED
      BY <1>0, <3>1, <1>10 DEF FinishRefresh, NewState, Writing, Storing, Held, Credential
  <2>3. \A a \in Held' : a \in Held /\ a.gen \in Nat
    BY <2>1, HeldGen
  <2>4. Behind' /\ Agrees'
    BY <1>0, <2>1, <2>2, <2>3 DEF Behind, Agrees
  <2> QED
    BY <1>0, <2>4 DEF InStep
<1>11. CASE EraseRejected(c)
  <2>1. Held' \subseteq Held
    BY <1>11, HeldStep DEF Brings, StoreRefreshed, Commit, EraseRejected, Goes, Leaves, Store,
            Again, NoNews, files, local, server, history, counters
  <2>2. state' = state /\ disk' = None /\ state.status \notin Settled
    BY <1>0, <1>11 DEF EraseRejected, Store, Section, Settled
  <2>3. ~Writing /\ ~Writing' /\ ~Storing /\ ~Storing'
    BY <1>0, <1>11 DEF EraseRejected, Goes, Leaves, Store, Again, NoNews, Writing, Storing,
            Exclusion, CallTypes, UnderLock, files, local, server, history, counters
  <2> QED
    BY <1>0, <2>1, <2>2, <2>3, EraseInStep
<1>12. CASE Logout(c)
  <2>1. Held' \subseteq Held /\ disk' = disk
    BY <1>12, HeldStep DEF Brings, StoreRefreshed, Commit, Logout
  <2>2. state'.gen >= state.gen /\ (state'.status \in Settled => state' = state)
    BY <1>0, <1>12, GenType DEF Logout, SignedOut, NewState, Settled
  <2>3. ~Writing /\ ~Writing' /\ ~Storing /\ ~Storing'
    BY <1>0, <1>12 DEF Logout, Goes, Sees, Caches, SignedOut, Keeps, Free, Epochs, Writing,
          Storing,
            Exclusion, CallTypes, UnderLock, files, local, server, history, counters
  <2> QED
    BY <1>0, <2>1, <2>2, <2>3, StayInStep
<1>13. CASE Revoke(c)
  <2>1. Held' \subseteq Held
    BY <1>13, HeldStep DEF Brings, StoreRefreshed, Commit, Revoke, Goes, Leaves, files, local,
            server, history, counters
  <2>2. /\ state'.gen >= state.gen /\ disk' = disk
        /\ state'.status \in Settled => state.status \in Settled /\ state'.gen = state.gen
    BY <1>0, <1>13 DEF Revoke, NewState, Settled
  <2>3. ~Writing /\ ~Writing' /\ ~Storing /\ ~Storing'
    BY <1>0, <1>13 DEF Revoke, Goes, Leaves, Writing, Storing, Exclusion, CallTypes, UnderLock,
            files, local, server, history, counters
  <2> QED
    BY <1>0, <2>1, <2>2, <2>3, StayInStep
<1>14. CASE EraseLogin(c)
  <2>1. Held' \subseteq Held
    BY <1>14, HeldStep DEF Brings, StoreRefreshed, Commit, EraseLogin, Goes, Store, NoNews,
            files, local, server, history, counters
  <2>2. state' = state /\ disk' = None /\ state.status \notin Settled
    BY <1>0, <1>14 DEF EraseLogin, Store, Section, Settled
  <2>3. ~Writing /\ ~Writing' /\ ~Storing /\ ~Storing'
    BY <1>0, <1>14 DEF EraseLogin, Goes, Store, NoNews, Writing, Storing, Exclusion, CallTypes,
            UnderLock, files, local, server, history, counters
  <2> QED
    BY <1>0, <2>1, <2>2, <2>3, EraseInStep
<1>15. CASE FinishLogout(c)
  <2>1. Held' \subseteq Held
    BY <1>15, HeldStep DEF Brings, StoreRefreshed, Commit, FinishLogout, Goes, Leaves, NoNews,
            files, local, server, history, counters
  <2>2. /\ state'.gen >= state.gen /\ disk' = disk
        /\ state'.status \in Settled => state.status \in Settled /\ state'.gen = state.gen
    BY <1>0, <1>15 DEF FinishLogout, NewState, Settled
  <2>3. ~Writing /\ ~Writing' /\ ~Storing /\ ~Storing'
    BY <1>0, <1>15 DEF FinishLogout, Goes, Leaves, NoNews, Writing, Storing, Exclusion,
            CallTypes, UnderLock, files, local, server, history, counters
  <2> QED
    BY <1>0, <2>1, <2>2, <2>3, StayInStep
<1>16. CASE Login(c)
  <2>1. Held' \subseteq Held
    BY <1>16, HeldStep DEF Brings, StoreRefreshed, Commit, Login, Goes, Sees, Caches, Decide,
          Waits,
            Authorizing, Free, NoNews, files, local, server, history, counters
  <2>2. /\ state'.gen >= state.gen /\ disk' = disk
        /\ state'.status \in Settled => state.status \in Settled /\ state'.gen = state.gen
    <3>1. state' \in {state, Authorizing(c)} /\ disk' = disk
      BY <1>16 DEF Login, Decide, Waits
    <3>2. Authorizing(c).gen >= state.gen /\ Authorizing(c).status = "authorizing"
      BY <1>0, GenType DEF Authorizing
    <3> QED
      BY <1>0, <3>1, <3>2 DEF Settled
  <2>3. ~Writing /\ ~Writing' /\ ~Storing /\ ~Storing'
    BY <1>0, <1>16 DEF Login, Goes, Sees, Caches, Decide, Waits, Authorizing, Free, NoNews,
          Writing,
            Storing, Exclusion, CallTypes, UnderLock, files, local, server, history, counters
  <2> QED
    BY <1>0, <2>1, <2>2, <2>3, StayInStep
<1>17. CASE Reread(c)
  <2>1. Held' \subseteq Held
    BY <1>17, HeldStep DEF Brings, StoreRefreshed, Commit, Reread, Goes, Again, NoNews, files,
            local, server, history, counters
  <2>2. state' = state /\ disk' = disk
    BY <1>0, <1>17 DEF Reread, Goes, Again, NoNews, NoCancel, files, local, server, history,
            counters
  <2>3. (Writing' <=> Writing) /\ (Storing' <=> Storing)
    BY <1>0, <1>17 DEF Reread, Goes, Again, NoNews, Writing, Storing, Exclusion, CallTypes,
            UnderLock, files, local, server, history, counters
  <2> QED
    BY <1>0, <2>1, <2>2, <2>3, StayInStep
<1>18. CASE Wait(c)
  <2>1. Held' \subseteq Held
    BY <1>18, HeldStep DEF Brings, StoreRefreshed, Commit, Wait, Goes, Caches, NoNews, files,
            local, server, history, counters
  <2>2. state' = state /\ disk' = disk
    BY <1>0, <1>18 DEF Wait, Goes, Caches, NoNews, NoCancel, files, local, server, history,
            counters
  <2>3. (Writing' <=> Writing) /\ (Storing' <=> Storing)
    BY <1>0, <1>18 DEF Wait, Goes, Caches, NoNews, Writing, Storing, Exclusion, CallTypes,
            UnderLock, files, local, server, history, counters
  <2> QED
    BY <1>0, <2>1, <2>2, <2>3, StayInStep
<1>19. CASE Device(c)
  <2>1. Held' \subseteq Held
    BY <1>19, HeldStep DEF Brings, StoreRefreshed, Commit, Device, Goes, NoNews, files, local,
            server, history, counters
  <2>2. state' = state /\ disk' = disk
    BY <1>0, <1>19 DEF Device, Goes, NoNews, NoCancel, files, local, server, history, counters
  <2>3. (Writing' <=> Writing) /\ (Storing' <=> Storing)
    BY <1>0, <1>19 DEF Device, Goes, NoNews, Writing, Storing, Exclusion, CallTypes, UnderLock,
            files, local, server, history, counters
  <2> QED
    BY <1>0, <2>1, <2>2, <2>3, StayInStep
<1>20. CASE Publish(c)
  <2>1. Held' \subseteq Held
    BY <1>20, HeldStep DEF Brings, StoreRefreshed, Commit, Publish, Goes, NoNews, Free, files,
            local, server, history, counters
  <2>2. state' = state /\ disk' = disk
    BY <1>0, <1>20 DEF Publish, Goes, NoNews, Free, NoCancel, files, local, server, history,
            counters
  <2>3. (Writing' <=> Writing) /\ (Storing' <=> Storing)
    BY <1>0, <1>20 DEF Publish, Goes, NoNews, Free, Writing, Storing, Exclusion, CallTypes,
            UnderLock, files, local, server, history, counters
  <2> QED
    BY <1>0, <2>1, <2>2, <2>3, StayInStep
<1>21. CASE PollGranted(c)
  <2>1. Held' \subseteq Held /\ UNCHANGED <<state, disk>>
    BY <1>21, HeldStep DEF Brings, StoreRefreshed, Commit, PollGranted, files
  <2>2. (Writing' <=> Writing) /\ (Storing' <=> Storing)
    BY <1>0, <1>21 DEF PollGranted, Goes, CallTypes, Writing, Storing, files
  <2> QED
    BY <1>0, <2>1, <2>2, StayInStep
<1>22. CASE PollFails(c)
  <2>1. Held' \subseteq Held
    BY <1>22, HeldStep DEF Brings, StoreRefreshed, Commit, PollFails, Goes, NoNews, files,
            local, server, history, counters
  <2>2. state' = state /\ disk' = disk
    BY <1>0, <1>22 DEF PollFails, Goes, NoNews, NoCancel, files, local, server, history,
            counters
  <2>3. (Writing' <=> Writing) /\ (Storing' <=> Storing)
    BY <1>0, <1>22 DEF PollFails, Goes, NoNews, Writing, Storing, Exclusion, CallTypes,
            UnderLock, files, local, server, history, counters
  <2> QED
    BY <1>0, <2>1, <2>2, <2>3, StayInStep
<1>23. CASE Commit(c)
  <2>1. CASE pc'[c] = "committing"
    <3>1. lock = None /\ lock' = c /\ Holds(c) /\ state' = state
      BY <1>0, <1>23, <2>1 DEF Commit, Free, Goes, CallTypes
    <3>2. ~Writing /\ Writing' /\ \A a \in Held' : a \in Held \/ a = disk'
      BY <1>0, <1>23, <2>1, <3>1, HeldStep DEF Writing
    <3>3. Behind' /\ Agrees'
      BY <1>0, <3>1, <3>2 DEF Behind, Agrees, Holds, Settled
    <3> QED
      BY <1>0, <3>3 DEF InStep
  <2>2. CASE pc'[c] # "committing"
    <3>1. UNCHANGED <<files, seen>> /\ lock = None
      BY <1>0, <1>23, <2>2 DEF Commit, Free, Goes, CallTypes
    <3>2. Held' = Held /\ ~Writing /\ ~Writing' /\ ~Storing /\ ~Storing'
      BY <1>0, <3>1 DEF Held, Writing, Storing, files
    <3> QED
      BY <1>0, <3>1, <3>2, StayInStep DEF files
  <2> QED
    BY <2>1, <2>2
<1>24. CASE CommitState(c)
  <2>1. Held' \subseteq Held /\ disk' = disk
    BY <1>24, HeldStep DEF Brings, StoreRefreshed, Commit, CommitState
  <2>2. /\ disk \in Credential /\ disk \in Held /\ disk.gen \in Nat /\ disk.gen > state.gen
        /\ state'.gen = disk.gen /\ Writing /\ ~Writing' /\ ~Storing'
    <3>1. disk \in Credential /\ lock = c /\ disk.gen > state.gen /\ lock' = c
      BY <1>0, <1>24 DEF CommitState, InHand, Section, Exclusion, UnderLock
    <3>2. pc[c] = "committing" /\ pc'[c] = "committed" /\ state' = NewState("authenticated",
            disk.gen)
      BY <1>0, <1>24 DEF CommitState, Goes, CallTypes
    <3> QED
      BY <1>0, <3>1, <3>2 DEF NewState, Writing, Storing, Held, Credential
  <2>3. \A a \in Held' : a \in Held /\ a.gen \in Nat
    BY <2>1, HeldGen
  <2>4. Behind' /\ Agrees'
    BY <1>0, <2>1, <2>2, <2>3 DEF Behind, Agrees
  <2> QED
    BY <1>0, <2>4 DEF InStep
<1>25. CASE CommitEnds(c)
  <2>1. Held' \subseteq Held
    BY <1>25, HeldStep DEF Brings, StoreRefreshed, Commit, CommitEnds, Goes, Leaves, NoNews,
            files, local, server, history, counters
  <2>2. state' = state /\ disk' = disk
    BY <1>0, <1>25 DEF CommitEnds, Goes, Leaves, NoNews, NoCancel, files, local, server,
            history, counters
  <2>3. (Writing' <=> Writing) /\ (Storing' <=> Storing)
    BY <1>0, <1>25 DEF CommitEnds, Goes, Leaves, NoNews, Writing, Storing, Exclusion,
            CallTypes, UnderLock, files, local, server, history, counters
  <2> QED
    BY <1>0, <2>1, <2>2, <2>3, StayInStep
<1>26. CASE Rollback(c)
  BY <1>0, <1>26 DEF Rollback, NoCancel
<1>27. CASE ReleaseLease(c)
  <2>1. Held' \subseteq Held
    BY <1>27, HeldStep DEF Brings, StoreRefreshed, Commit, ReleaseLease, Goes, Free, NoNews,
            files, local, server, history, counters
  <2>2. /\ state'.gen >= state.gen /\ disk' = disk
        /\ state'.status \in Settled => state.status \in Settled /\ state'.gen = state.gen
    BY <1>0, <1>27 DEF ReleaseLease, NewState, Settled
  <2>3. ~Writing /\ ~Writing' /\ ~Storing /\ ~Storing'
    BY <1>0, <1>27 DEF ReleaseLease, Goes, Free, NoNews, Writing, Storing, Exclusion,
            CallTypes, UnderLock, files, local, server, history, counters
  <2> QED
    BY <1>0, <2>1, <2>2, <2>3, StayInStep
<1> QED
  BY <1>1, <1>2, <1>3, <1>4, <1>5, <1>6, <1>7, <1>8, <1>9, <1>10, <1>11, <1>12, <1>13, <1>14,
          <1>15, <1>16, <1>17, <1>18, <1>19, <1>20, <1>21, <1>22, <1>23, <1>24, <1>25, <1>26,
          <1>27 DEF Step

LEMMA OtherInStep ==
    ASSUME TInv, TInv', InStep, Next, \A c \in Client : ~Step(c), (crashes + cancels + faults = 0)'
    PROVE  InStep'
<1>a. \A c \in Client : ~WriteFails(c)
  BY FaultCounted
<1>0. /\ CallTypes /\ Exclusion /\ state.gen \in Nat
      /\ crashes \in Nat /\ cancels \in Nat /\ faults \in Nat
      /\ aborted = {} /\ \A c \in Client : pc[c] # "rollback"
      /\ disk' = disk /\ Held' \subseteq Held
      /\ state'.gen = state.gen /\ state'.status = state.status
  BY <1>a, StateOps, OtherEffects DEF TInv, FileTypes, InHand, InStep, NoCancel
<1>1. ASSUME NEW c \in Client, NEW k \in Kind, Start(c, k)
      PROVE  NoCancel' /\ (Writing' <=> Writing) /\ (Storing' <=> Storing)
  <2>1. PICK p \in Phase : /\ p \notin UnderLock /\ pc[c] = "idle"
                           /\ pc' = [pc EXCEPT ![c] = p]
    BY <1>1 DEF Start, Goes, Kind, Phase, UnderLock
  <2> QED
    BY <1>0, <1>1, <2>1 DEF Start, Writing, Storing, NoCancel, CallTypes, UnderLock, files
<1>2. ASSUME NEW c \in Client, LockTimeout(c)
      PROVE  NoCancel' /\ (Writing' <=> Writing) /\ (Storing' <=> Storing)
  BY <1>0, <1>2 DEF LockTimeout, Goes, NoNews, Writing, Storing, NoCancel, CallTypes, files
<1>3. \A c \in Client : ~Cancel(c)
  BY <1>0 DEF Cancel
<1>4. \A p \in Process : ~Crash(p)
  BY <1>0 DEF Crash
<1>5. ASSUME StaleLock \/ ExpireLease \/ \E g \in Grant : ExpireToken(g)
      PROVE  NoCancel' /\ (Writing' <=> Writing) /\ (Storing' <=> Storing)
  BY <1>0, <1>5, ConstantsAssumption DEF StaleLock, ExpireLease, ExpireToken, Writing, Storing,
          NoCancel, files, local
<1>6. NoCancel' /\ (Writing' <=> Writing) /\ (Storing' <=> Storing)
  BY <1>a, <1>1, <1>2, <1>3, <1>4, <1>5 DEF Next
<1> QED
  BY <1>0, <1>6, StayInStep

LEMMA StepsGoTogether == Spec => [](TInv /\ Sections /\ (crashes + cancels + faults = 0 => InStep))
<1> DEFINE Calm == crashes + cancels + faults = 0 => InStep
<1>1. Init => Calm
  <2> SUFFICES ASSUME Init PROVE InStep
    OBVIOUS
  <2>1. Held = {} /\ ~Writing
    BY ConstantsAssumption DEF Init, Held, Writing, Nothing, Credential, Grant
  <2>2. state.status = "anonymous"
    BY DEF Init, NewState
  <2> QED
    BY <2>1, <2>2 DEF Init, InStep, NoCancel, Behind, Agrees, Settled
<1>2. TInv /\ Sections /\ TInv' /\ Sections' /\ Calm /\ [Next]_vars => Calm'
  <2> SUFFICES ASSUME TInv, Sections, TInv', Sections', Calm, [Next]_vars,
                      (crashes + cancels + faults = 0)'
               PROVE  InStep'
    OBVIOUS
  <2>1. InStep
    BY NoMishapBefore
  <2>2. CASE UNCHANGED vars
    BY <2>1, <2>2 DEF vars, files, local, server, history, InStep, NoCancel, Behind, Agrees,
          Held, Writing, Storing
  <2> QED
    BY <2>1, <2>2, StepInStep, OtherInStep
<1> QED
  BY <1>1, <1>2, SectionsHold, PTL DEF Spec

\* Where a state says "authenticated", its secret is in the file, unless a process
\* ended, a login was cancelled or a write failed: commitLogin and refreshCredential
\* write the secret first (auth-core.ts).
THEOREM StateStandsOnItsSecret == Spec => []SecretBehindState
<1>1. TInv /\ Sections /\ (crashes + cancels + faults = 0 => InStep) => SecretBehindState
  <2> SUFFICES ASSUME Sections, InStep, state.status = "authenticated"
               PROVE  disk \in Credential /\ disk.gen = state.gen
    BY ConstantsAssumption DEF SecretBehindState, Credential, Grant
  <2>1. ~Storing
    BY DEF Storing, Sections, Section
  <2> QED
    BY <2>1 DEF InStep, Agrees, Settled
<1> QED
  BY <1>1, StepsGoTogether, PTL

LEMMA DiskStep ==
    ASSUME TInv, NEW c \in Client, Step(c), disk' # disk, disk' # None
    PROVE  StoreRefreshed(c) \/ Rollback(c) \/ (pc[c] = "commit" /\ Holds(c))
<1>1. CASE PeekState(c)
  BY <1>1 DEF PeekState, Sees, Goes, NoNews, Loads, Settled, files
<1>2. CASE Load(c)
  BY <1>2 DEF Load, Sees, Goes, NoNews, Decides, Takes, files
<1>3. CASE Land(c)
  BY <1>3 DEF Land, Goes, NoNews, Decides, Takes, files
<1>4. CASE Recover(c)
  BY <1>4 DEF Recover, Goes, NoNews, Caches, Free, Interrupted, files
<1>5. CASE Claim(c)
  BY <1>5 DEF Claim, Goes, NoNews, Caches, Free, Refreshes, Settles, Usable, Again,
        BeginsRefresh, Sees, Takes, files
<1>6. CASE RefreshGranted(c)
  BY <1>6 DEF RefreshGranted, Goes, Rotates, Keeps, files
<1>7. CASE RefreshRejected(c)
  BY <1>7 DEF RefreshRejected, Goes, Keeps, files
<1>8. CASE RefreshFails(c)
  BY <1>8 DEF RefreshFails, Goes, Leaves, Rotates, files
<1>9. CASE StoreRefreshed(c)
  BY <1>9 DEF StoreRefreshed, Refreshed, Goes, Store, NoNews, files
<1>10. CASE FinishRefresh(c)
  BY <1>10 DEF FinishRefresh, Goes, Leaves, Takes, NoNews, files
<1>11. CASE EraseRejected(c)
  BY <1>11 DEF EraseRejected, Goes, Leaves, Store, Again, NoNews, files
<1>12. CASE Logout(c)
  BY <1>12 DEF Logout, Goes, Sees, Caches, SignedOut, Keeps, Free, Epochs, files
<1>13. CASE Revoke(c)
  BY <1>13 DEF Revoke, Goes, Leaves, files
<1>14. CASE EraseLogin(c)
  BY <1>14 DEF EraseLogin, Goes, Store, NoNews, files
<1>15. CASE FinishLogout(c)
  BY <1>15 DEF FinishLogout, Goes, Leaves, NoNews, files
<1>16. CASE Login(c)
  BY <1>16 DEF Login, Goes, Sees, Caches, Decide, Waits, Authorizing, Free, NoNews, files
<1>17. CASE Reread(c)
  BY <1>17 DEF Reread, Goes, Again, NoNews, files
<1>18. CASE Wait(c)
  BY <1>18 DEF Wait, Goes, Caches, NoNews, files
<1>19. CASE Device(c)
  BY <1>19 DEF Device, Goes, NoNews, files
<1>20. CASE Publish(c)
  BY <1>20 DEF Publish, Goes, NoNews, Free, files
<1>21. CASE PollGranted(c)
  BY <1>21 DEF PollGranted, Goes, Keeps, files
<1>22. CASE PollFails(c)
  BY <1>22 DEF PollFails, Goes, NoNews, files
<1>23. CASE Commit(c)
  BY <1>23 DEF Commit, Goes, Keeps, Free, Store, Sees, NewLogin, Holds, files
<1>24. CASE CommitState(c)
  BY <1>24 DEF CommitState, Goes, NoNews, files
<1>25. CASE CommitEnds(c)
  BY <1>25 DEF CommitEnds, Goes, Leaves, NoNews, files
<1>26. CASE Rollback(c)
  BY <1>26 DEF Rollback, Goes, Leaves, Store, NoNews, files
<1>27. CASE ReleaseLease(c)
  BY <1>27 DEF ReleaseLease, Goes, Free, NoNews, files
<1> QED
  BY <1>1, <1>2, <1>3, <1>4, <1>5, <1>6, <1>7, <1>8, <1>9, <1>10, <1>11, <1>12, <1>13, <1>14,
          <1>15, <1>16, <1>17, <1>18, <1>19, <1>20, <1>21, <1>22, <1>23, <1>24, <1>25, <1>26,
          <1>27 DEF Step

\* Only the client whose lease the state names puts another login in the file,
\* while no process ended, no login was cancelled and no write failed: commitLogin
\* (auth-core.ts).
THEOREM OwnersCommit == Spec => OnlyOwnerCommits
<1> DEFINE Change == /\ crashes + cancels + faults = 0
                     /\ disk' \in Credential /\ Epochs(disk') # Epochs(disk)
           Owner == \E c \in Client : Holds(c) /\ pc[c] \in {"commit", "rollback"}
<1>1. /\ TInv /\ Sections /\ (crashes + cancels + faults = 0 => InStep)
      /\ [Next]_vars
      => [Change => Owner]_vars
  <2> SUFFICES ASSUME TInv, Sections, InStep, Next, Change PROVE Owner
    OBVIOUS
  <2>1. disk' # disk /\ disk' # None
    BY ConstantsAssumption DEF Credential, Grant
  <2>2. PICK c \in Client : Step(c)
    BY <2>1, WriteFailsForm DEF Next, Start, Cancel, LockTimeout, Crash, ExpireToken, StaleLock,
            ExpireLease, files
  <2>3. ~Rollback(c)
    BY DEF InStep, NoCancel, Rollback
  <2>4. ~StoreRefreshed(c)
    <3> SUFFICES ASSUME StoreRefreshed(c) PROVE Epochs(disk') = Epochs(disk)
      OBVIOUS
    <3>1. /\ lock = c /\ pc[c] = "granted" /\ seen[c].cred \in Credential
          /\ seen[c].cred.gen = state.gen /\ state.status \in Settled
      BY DEF StoreRefreshed, Refreshed, TInv, Exclusion, UnderLock, InHand, Sections, Section,
            Settled
    <3>2. seen[c].cred \in Held /\ ~Storing
      BY <3>1 DEF Held, Storing
    <3>3. seen[c].cred = disk
      BY <3>1, <3>2 DEF InStep, Agrees
    <3>4. disk'.epoch = disk.epoch
      BY <3>1, <3>3 DEF StoreRefreshed, Refreshed, Store, Credential
    <3> QED
      BY <2>1, <3>1, <3>3, <3>4, ConstantsAssumption DEF Epochs, Credential, Grant
  <2> QED
    BY <2>1, <2>2, <2>3, <2>4, DiskStep
<1> QED
  BY <1>1, StepsGoTogether, PTL DEF Spec, OnlyOwnerCommits
----------------------------------------------------------------------------
(* After one crash, one cancelled login or one write that failed.  A secret*)
(* may then be ahead of the state, and stay there; but only by one         *)
(* generation, and it belongs to no login that was ended.                  *)

\* The login that is being committed may still be rolled back.
Undoable ==
    /\ lock \in Client /\ pc[lock] = "committed"
    /\ lock \in aborted \/ crashes + cancels + faults = 0

\* The generation that the state has, or goes back to.
Floor == IF Undoable THEN seen[lock].state.gen ELSE state.gen

\* The secret in the file is about to get its state, and nothing can stop that.
Final ==
    /\ lock \in Client /\ pc[lock] = "committing" /\ lock \notin aborted
    /\ crashes + cancels + faults # 0

Near == \A a \in Held : a.gen <= Floor + 1 \/ (Final /\ a = disk)
Out ==
    \A a \in Held :
        a.gen > Floor \/ (state.status \in Settled /\ a.gen = state.gen) => a.epoch \notin ended

\* A step that brings no credential and ends no login.
LEMMA FloorRises ==
    ASSUME Near, Out, Held' \subseteq Held, ended' = ended,
           Floor \in Int, Floor' \in Int, Floor' >= Floor, Final => Final' /\ disk' = disk,
           state'.status \in Settled =>
               state'.gen > Floor \/ (state.status \in Settled /\ state'.gen = state.gen)
    PROVE  Near' /\ Out'
<1>1. \A a \in Held' : a \in Held /\ a.gen \in Nat
  BY HeldGen
<1>2. Near'
  BY <1>1 DEF Near
<1>3. Out'
  BY <1>1 DEF Out
<1> QED
  BY <1>2, <1>3

LEMMA FloorType ==
    ASSUME TInv
    PROVE  /\ state.gen \in Nat /\ Floor \in Nat
           /\ \A c \in Client : seen[c].state.gen \in Nat
<1>1. state \in State /\ \A c \in Client : seen[c].state \in State
  BY DEF TInv, FileTypes, CallTypes
<1> QED
  BY <1>1, StateOps DEF Floor, Undoable

\* While another call has the lock, a step touches none of this.
LEMMA OutsideLevel ==
    ASSUME TInv, TInv', Near, Out, NEW c \in Client, Step(c), lock \in Client \ {c}
    PROVE  Near' /\ Out'
<1>1. /\ lock' = lock /\ state' = state /\ disk' = disk /\ pc'[lock] = pc[lock]
      /\ seen'[lock] = seen[lock] /\ UNCHANGED <<aborted, crashes, cancels, faults>>
  BY OthersInSection, StepEffects
<1>2. Floor' = Floor /\ (Final' <=> Final)
  BY <1>1 DEF Floor, Undoable, Final
<1>3. lock # None /\ pc[c] # "granted"
  BY ConstantsAssumption DEF TInv, Exclusion, UnderLock
<1>4. Held' \subseteq Held /\ ended' = ended
  BY <1>3, HeldStep, StepEffects DEF Brings, StoreRefreshed, Commit, Logout, Free
<1> QED
  BY <1>1, <1>2, <1>4, FloorType, FloorRises

\* Nobody has the lock, and the step neither ends a login nor commits one.
LEMMA FreeLevel ==
    ASSUME TInv, TInv', Near, Out, NEW c \in Client, Step(c), lock \notin Client,
           pc'[c] # "committing", ~Logout(c) \/ state' = state
    PROVE  Near' /\ Out'
<1>0. /\ Exclusion /\ CallTypes /\ FileTypes /\ state \in State /\ state.gen \in Nat
      /\ Stored(c) \in OptCredential /\ lock # c /\ None \notin Client /\ Dead \notin Client
      /\ state'.gen \in Nat
  BY ConstantsAssumption, FloorType, StoredType, StateOps DEF TInv, FileTypes
<1>1. \A d \in Client : pc[d] \notin UnderLock /\ (pc'[d] \in UnderLock => d = c)
  BY <1>0, OthersInSection DEF Exclusion
<1>2. pc'[c] # "committed"
  BY <1>1, StepEffects DEF CommitState, UnderLock
<1>3. Floor = state.gen /\ Floor' = state'.gen /\ ~Final
  <2>1. lock' \in Client => lock' = c
    BY <1>1 DEF TInv, Exclusion
  <2> QED
    BY <1>2, <2>1 DEF Floor, Undoable, Final
<1>4. Held' \subseteq Held
  BY <1>1, HeldStep DEF Brings, StoreRefreshed, UnderLock
<1>5. ended' = ended
  BY <1>0, StepEffects, GenType DEF Logout, NewState, SignedOut
<1>6. /\ state'.gen >= state.gen
      /\ state'.status \in Settled =>
             state'.gen > state.gen \/ (state.status \in Settled /\ state'.gen = state.gen)
  <2>1. CASE state' = state
    BY <1>0, <2>1
  <2>2. CASE Recover(c)
    <3>1. Stored(c) # None => Stored(c).gen \in Nat
      BY <1>0, StoredHeld, HeldGen DEF OptCredential
    <3> QED
      BY <1>0, <2>2, <3>1 DEF Recover, Interrupted, GenOf, NewState
  <2>3. CASE Claim(c)
    <3>1. \/ state' = state
          \/ state' = [state EXCEPT !.status = "refreshing"] /\ Usable(state, Stored(c))
      BY <2>3, ClaimEither DEF BeginsRefresh
    <3>2. [state EXCEPT !.status = "refreshing"].gen = state.gen
      BY <1>0, StateFields
    <3>3. Usable(state, Stored(c)) => state.status \in Settled
      BY DEF Usable, Settled
    <3>4. state'.gen = state.gen /\ (state' = state \/ state.status \in Settled)
      BY <3>1, <3>2, <3>3
    <3> QED
      BY <1>0, <3>4
  <2>4. CASE Login(c)
    BY <1>0, <2>4, GenType DEF Login, Decide, Waits, Authorizing, Settled
  <2>5. CASE ReleaseLease(c)
    BY <1>0, <2>5 DEF ReleaseLease, NewState, Settled
  <2> QED
    BY <1>0, <2>1, <2>2, <2>3, <2>4, <2>5, StepEffects
<1> QED
  BY <1>0, <1>3, <1>4, <1>5, <1>6, FloorRises

\* logout raises the generation to that of any secret that is ahead.
LEMMA LogoutLevel ==
    ASSUME TInv, TInv', Near, NEW c \in Client, Logout(c), Step(c), state' # state
    PROVE  Near' /\ Out'
<1>0. CallTypes /\ lock = None /\ None \notin Client /\ Stored(c) \in OptCredential
  BY ConstantsAssumption, StoredType DEF TInv, Logout, Free
<1>1. /\ state' = NewState("logging_out", Highest(state, Stored(c)) + 1)
      /\ lock' = c /\ pc'[c] = "leaving"
  BY <1>0 DEF Logout, SignedOut, Goes, CallTypes
<1>2. /\ state.gen \in Nat /\ state'.gen \in Nat /\ state'.gen >= state.gen + 1
      /\ state'.status \notin Settled
  <2>1. GenOf(Stored(c)) \in Nat
    BY <1>0, StoredHeld, HeldGen DEF GenOf, OptCredential
  <2> QED
    BY <1>0, <1>1, <2>1, FloorType DEF NewState, Settled, Highest
<1>3. Floor = state.gen /\ ~Final /\ Floor' = state'.gen
  BY <1>0, <1>1 DEF Floor, Undoable, Final
<1>4. Held' \subseteq Held
  BY <1>0, HeldStep DEF Brings, StoreRefreshed, Commit, Logout
<1>5. \A a \in Held' : a.gen <= Floor'
  BY <1>2, <1>3, <1>4, HeldGen DEF Near
<1>6. \A a \in Held' : a.gen \in Nat
  BY <1>4, HeldGen
<1> QED
  BY <1>2, <1>3, <1>5, <1>6 DEF Near, Out

\* commitLogin brings a login that nobody had; while nothing happened its secret
\* is the state's successor, and otherwise nothing can stop it any more.
LEMMA CommitLevel ==
    ASSUME TInv, TInv', Near, Out, NewLogins, crashes + cancels + faults = 0 => InStep,
           NEW c \in Client, Commit(c), Step(c), pc'[c] = "committing"
    PROVE  Near' /\ Out'
<1>0. CallTypes /\ None \notin Client /\ Stored(c) \in OptCredential /\ disk' \in Credential
  BY ConstantsAssumption, StoredType DEF TInv, InHand
<1>1. /\ lock = None /\ lock' = c /\ Holds(c) /\ disk' = NewLogin(c) /\ state' = state
      /\ c \notin aborted /\ pc[c] = "commit" /\ ended' = ended
      /\ UNCHANGED <<aborted, crashes, cancels, faults>>
  BY <1>0 DEF Commit, Free, Store, Goes, Keeps, counters, CallTypes
<1>2. /\ Floor = state.gen /\ ~Final /\ Floor' = state.gen /\ state.gen \in Nat
      /\ Final' <=> crashes + cancels + faults # 0
  BY <1>0, <1>1, FloorType DEF Floor, Undoable, Final
<1>3. \A a \in Held' : (a \in Held /\ a.gen \in Nat) \/ a = disk'
  BY HeldStep, HeldGen
<1>4. disk'.epoch \notin ended /\ disk'.gen \in Nat
  <2>1. disk'.epoch = got[c] /\ disk' \in Held'
    BY <1>0, <1>1 DEF NewLogin, Held
  <2> QED
    BY <1>1, <2>1, HeldGen DEF NewLogins, Held, Credential
<1>5. crashes + cancels + faults = 0 => disk'.gen = state.gen + 1
  <2> SUFFICES ASSUME InStep PROVE disk'.gen = state.gen + 1
    OBVIOUS
  <2>1. Stored(c) # None => Stored(c).gen <= state.gen /\ Stored(c).gen \in Nat
    BY <1>0, <1>1, StoredHeld, HeldGen DEF OptCredential, InStep, Behind, Writing
  <2>2. Highest(state, Stored(c)) = state.gen
    BY <1>2, <2>1 DEF Highest, GenOf
  <2> QED
    BY <1>1, <2>2 DEF NewLogin
<1>6. Near'
  BY <1>2, <1>3, <1>4, <1>5 DEF Near
<1>7. Out'
  BY <1>1, <1>2, <1>3, <1>4 DEF Out, Holds, Settled
<1> QED
  BY <1>6, <1>7

\* A refresh puts the same login's next generation in place.
LEMMA StoreLevel ==
    ASSUME TInv, TInv', Sections, Sections', Near, Out, NEW c \in Client,
           StoreRefreshed(c), Step(c)
    PROVE  Near' /\ Out'
<1>0. /\ CallTypes /\ Exclusion /\ Section(c) /\ Section(c)' /\ InHand /\ InHand'
      /\ pc[c] = "granted" /\ state.gen \in Nat
  BY FloorType DEF TInv, Sections, StoreRefreshed, Refreshed
<1>1. /\ lock = c /\ lock' = c /\ state' = state /\ pc'[c] = "stored" /\ ended' = ended
      /\ seen[c].cred \in Held /\ seen[c].cred.gen = state.gen /\ state.status = "refreshing"
  BY <1>0 DEF StoreRefreshed, Refreshed, Goes, NoNews, history, CallTypes, Exclusion, UnderLock,
        Section,
        InHand, Held
<1>2. Floor = state.gen /\ Floor' = state.gen /\ ~Final
  BY <1>0, <1>1 DEF Floor, Undoable, Final
<1>3. disk' \in Credential /\ disk'.gen = state.gen + 1 /\ disk'.epoch = seen[c].cred.epoch
  BY <1>0, <1>1 DEF InHand, Section, StoreRefreshed, Refreshed, Store, Credential
<1>4. seen[c].cred.epoch \notin ended
  BY <1>1 DEF Out, Settled
<1>5. \A a \in Held' : (a \in Held /\ a.gen \in Nat) \/ a = disk'
  BY HeldStep, HeldGen
<1>6. Near'
  BY <1>0, <1>2, <1>3, <1>5 DEF Near
<1>7. Out'
  BY <1>0, <1>1, <1>2, <1>3, <1>4, <1>5 DEF Out
<1> QED
  BY <1>6, <1>7

\* The steps of who has the lock.
LEMMA OwnLevel ==
    ASSUME TInv, TInv', Sections, Sections', Near, Out, NEW c \in Client, Step(c), lock = c,
           ~StoreRefreshed(c)
    PROVE  Near' /\ Out'
<1>0. /\ CallTypes /\ Exclusion /\ Exclusion' /\ Section(c) /\ InHand /\ state \in State
      /\ state.gen \in Nat /\ state'.gen \in Nat /\ Floor \in Nat
      /\ seen[c].state \in State /\ seen[c].state.gen \in Nat
      /\ pc[c] \in UnderLock /\ None \notin Client
      /\ \A d \in Client \ {c} : pc'[d] \notin UnderLock
  <2>1. /\ CallTypes /\ Exclusion /\ Exclusion' /\ Section(c) /\ InHand /\ state \in State
        /\ None \notin Client /\ pc[c] \in UnderLock /\ seen[c].state \in State
    BY ConstantsAssumption DEF TInv, Sections, FileTypes, CallTypes, Exclusion
  <2>2. state.gen \in Nat /\ state'.gen \in Nat /\ Floor \in Nat /\ seen[c].state.gen \in Nat
    BY FloorType, StateOps DEF TInv, FileTypes
  <2>3. \A d \in Client \ {c} : pc'[d] \notin UnderLock
    BY <2>1, OthersInSection DEF Exclusion
  <2> QED
    BY <2>1, <2>2, <2>3
<1>1. UNCHANGED <<aborted, crashes, cancels, faults>> /\ Held' \subseteq Held /\ ended' = ended
  <2>1. ~Logout(c) /\ ~Commit(c)
    BY <1>0 DEF Logout, Commit, Free
  <2> QED
    BY <2>1, HeldStep, StepEffects DEF Brings
<1>2. lock' \in {None, c, Dead} /\ Dead \notin Client
  BY <1>0, ConstantsAssumption DEF Exclusion
<1>3. ASSUME pc[c] \notin {"committing", "committed"}, ~CommitState(c),
             state'.gen >= state.gen,
             state'.status \in Settled =>
                 state'.gen > state.gen \/ (state.status \in Settled /\ state'.gen = state.gen)
      PROVE  Near' /\ Out'
  <2>1. pc'[c] # "committed"
    BY <1>3, StepEffects
  <2>2. Floor = state.gen /\ ~Final /\ Floor' = state'.gen
    BY <1>0, <1>2, <1>3, <2>1 DEF Floor, Undoable, Final
  <2> QED
    BY <1>0, <1>1, <1>3, <2>2, FloorRises
<1>4. CASE RefreshGranted(c) \/ EraseRejected(c) \/ EraseLogin(c) \/ Rollback(c)
  <2>1. state' = state /\ pc[c] \notin {"committing", "committed"} /\ ~CommitState(c)
    BY <1>4 DEF RefreshGranted, EraseRejected, EraseLogin, Rollback, CommitState, files
  <2> QED
    BY <1>0, <1>3, <2>1
<1>5. CASE RefreshRejected(c) \/ Revoke(c) \/ FinishLogout(c)
  <2>1. state'.gen >= state.gen /\ (state'.status \in Settled => state' = state)
    BY <1>0, <1>5 DEF RefreshRejected, Revoke, FinishLogout, NewState, Settled, Section
  <2> QED
    BY <1>0, <1>3, <1>5, <2>1 DEF RefreshRejected, Revoke, FinishLogout, CommitState
<1>6. CASE RefreshFails(c)
  <2>1. pc[c] = "refresh" /\ seen[c].state.gen = state.gen /\ state.status \in Settled
    BY <1>0, <1>6 DEF RefreshFails, Section, Settled
  <2>2. state'.gen = state.gen
    BY <1>0, <1>6, <2>1, StateFields DEF RefreshFails
  <2> QED
    BY <1>0, <1>3, <2>1, <2>2 DEF CommitState
<1>7. CASE FinishRefresh(c)
  <2>1. pc[c] = "stored" /\ state'.gen = state.gen + 1
    BY <1>0, <1>7 DEF FinishRefresh, NewState, Section
  <2> QED
    BY <1>0, <1>3, <2>1 DEF CommitState
<1>8. CASE CommitState(c)
  <2>1. /\ pc[c] = "committing" /\ disk' = disk /\ lock' = c /\ seen'[c] = seen[c]
        /\ seen[c].state.gen = state.gen /\ disk.gen > state.gen /\ Floor = state.gen
        /\ seen[c].state.status = "authorizing" /\ disk \in Credential /\ disk.gen \in Nat
    <3>1. disk \in Credential /\ pc[c] = "committing" /\ Section(c)
      BY <1>0, <1>8 DEF CommitState, InHand
    <3> QED
      BY <1>0, <1>8, <3>1 DEF CommitState, Section, Floor, Undoable, Credential
  <2>2. CASE c \in aborted
    <3>1. state' = seen[c].state /\ pc'[c] = "rollback"
      BY <1>0, <1>8, <2>2 DEF CommitState, Goes, CallTypes
    <3>2. Floor' = state'.gen /\ ~Final
      BY <1>0, <2>1, <2>2, <3>1 DEF Floor, Undoable, Final
    <3> QED
      BY <1>0, <1>1, <2>1, <3>1, <3>2, FloorRises DEF Settled
  <2>3. CASE c \notin aborted
    <3>1. state'.gen = disk.gen /\ pc'[c] = "committed"
      BY <1>0, <1>8, <2>3 DEF CommitState, Goes, CallTypes, NewState
    <3>2. CASE crashes + cancels + faults = 0
      <4>1. Floor' = state.gen /\ ~Final
        BY <1>0, <1>1, <2>1, <3>1, <3>2 DEF Floor, Undoable, Final
      <4> QED
        BY <1>0, <1>1, <2>1, <3>1, <4>1, FloorRises
    <3>3. CASE crashes + cancels + faults # 0
      <4>1. Floor' = disk.gen
        BY <1>0, <1>1, <2>1, <2>3, <3>1, <3>3 DEF Floor, Undoable
      <4>2. \A a \in Held' : a \in Held /\ a.gen \in Nat
        BY <1>1, HeldGen
      <4>3. Near'
        BY <1>0, <2>1, <4>1, <4>2 DEF Near
      <4>4. Out'
        BY <1>0, <1>1, <2>1, <3>1, <4>1, <4>2 DEF Out
      <4> QED
        BY <4>3, <4>4
    <3> QED
      BY <3>2, <3>3
  <2> QED
    BY <2>2, <2>3
<1>9. CASE CommitEnds(c)
  <2>1. /\ pc[c] = "committed" /\ ~Final /\ pc'[c] \notin {"committed", "committing"}
        /\ seen[c].state.gen < state.gen /\ seen[c].state.status = "authorizing"
    BY <1>0, <1>9 DEF CommitEnds, Leaves, Goes, CallTypes, Section, Final
  <2>2. Floor' = state'.gen
    BY <1>0, <1>2, <2>1 DEF Floor, Undoable
  <2>3. CASE c \in aborted
    <3>1. state' = seen[c].state /\ Floor = seen[c].state.gen
      BY <1>0, <1>9, <2>1, <2>3 DEF CommitEnds, Floor, Undoable
    <3> QED
      BY <1>0, <1>1, <2>1, <2>2, <3>1, FloorRises DEF Settled
  <2>4. CASE c \notin aborted
    <3>1. state' = state /\ Floor \in {state.gen, seen[c].state.gen}
      BY <1>0, <1>9, <2>4 DEF CommitEnds, Floor, Undoable
    <3> QED
      BY <1>0, <1>1, <2>1, <2>2, <3>1, FloorRises
  <2> QED
    BY <2>3, <2>4
<1>10. \/ RefreshGranted(c) \/ EraseRejected(c) \/ EraseLogin(c) \/ Rollback(c)
       \/ RefreshRejected(c) \/ Revoke(c) \/ FinishLogout(c) \/ RefreshFails(c)
       \/ FinishRefresh(c) \/ CommitState(c) \/ CommitEnds(c)
  BY <1>0 DEF Step, UnderLock, PeekState, Load, Land, Recover, Claim, Logout, Login, Reread, Wait,
        Device, Publish, PollGranted, PollFails, Commit, ReleaseLease, Free
<1> QED
  BY <1>4, <1>5, <1>6, <1>7, <1>8, <1>9, <1>10

LEMMA StepLevel ==
    ASSUME TInv, TInv', Sections, Sections', NewLogins, crashes + cancels + faults = 0 => InStep,
           Near, Out, NEW c \in Client, Step(c)
    PROVE  Near' /\ Out'
<1>1. CASE lock \in Client \ {c}
  BY <1>1, OutsideLevel
<1>2. CASE lock = c
  BY <1>2, OwnLevel, StoreLevel
<1>3. CASE lock \notin Client
  <2>1. pc[c] \notin UnderLock /\ ~StoreRefreshed(c)
    BY <1>3 DEF TInv, Exclusion, StoreRefreshed, Refreshed, UnderLock
  <2>2. CASE Logout(c) /\ state' # state
    BY <2>2, LogoutLevel
  <2>3. CASE pc'[c] = "committing"
    <3>1. Commit(c)
      BY <2>1, <2>3, StepEffects
    <3> QED
      BY <2>3, <3>1, CommitLevel
  <2> QED
    BY <1>3, <2>2, <2>3, FreeLevel
<1> QED
  BY <1>1, <1>2, <1>3

\* A crash or a cancelled login is the one mishap, and finds the secret at most
\* one ahead.
LEMMA OtherLevel ==
    ASSUME TInv, TInv', Sections, Near, Out, Next,
           \A c \in Client : ~Step(c) /\ ~WriteFails(c),
           (crashes + cancels + faults <= 1)'
    PROVE  Near' /\ Out'
<1>0. /\ CallTypes /\ Exclusion /\ state.gen \in Nat /\ Floor \in Nat
      /\ crashes \in Nat /\ cancels \in Nat /\ faults \in Nat
      /\ None \notin Client /\ Dead \notin Client
      /\ lock \in Client => seen[lock].state.gen \in Nat
      /\ Undoable => seen[lock].state.gen < state.gen
      /\ state'.gen = state.gen /\ state'.status = state.status
      /\ UNCHANGED <<disk, seen, ended>> /\ Held' \subseteq Held
  BY ConstantsAssumption, FloorType, OtherEffects DEF TInv, InHand, Sections, Section, Undoable
<1>1. ASSUME Floor' \in {Floor, state.gen}, Final => Final' PROVE Near' /\ Out'
  <2>1. Floor' \in Nat /\ Floor' >= Floor
    BY <1>0, <1>1 DEF Floor
  <2> QED
    BY <1>0, <1>1, <2>1, FloorRises
<1>2. ASSUME NEW c \in Client, NEW k \in Kind, Start(c, k) PROVE Near' /\ Out'
  <2>1. /\ lock' = lock /\ lock # c /\ UNCHANGED <<crashes, cancels, faults>>
        /\ aborted' = aborted \ {c}
        /\ lock \in Client => pc'[lock] = pc[lock]
    BY <1>0, <1>2 DEF Start, Goes, Exclusion, CallTypes, UnderLock, files
  <2>2. (Undoable' <=> Undoable) /\ (Final' <=> Final)
    BY <1>0, <2>1 DEF Undoable, Final
  <2> QED
    BY <1>0, <1>1, <2>1, <2>2 DEF Floor
<1>3. ASSUME NEW c \in Client, Cancel(c) PROVE Near' /\ Out'
  <2>1. crashes + cancels + faults = 0
    BY <1>0, <1>3 DEF Cancel
  <2>2. lock' = lock /\ pc' = pc
    BY <1>3 DEF Cancel, files
  <2>3. ~Final /\ Floor' \in {Floor, state.gen}
    BY <1>0, <2>1, <2>2 DEF Final, Floor, Undoable
  <2> QED
    BY <1>1, <2>3
<1>4. ASSUME NEW c \in Client, LockTimeout(c) PROVE Near' /\ Out'
  <2>1. /\ lock' = lock /\ UNCHANGED <<crashes, cancels, faults, aborted>>
        /\ lock \in Client => pc'[lock] = pc[lock]
    BY <1>0, <1>4 DEF LockTimeout, Goes, NoNews, counters, files, Exclusion, CallTypes, UnderLock
  <2>2. (Undoable' <=> Undoable) /\ (Final' <=> Final)
    BY <1>0, <2>1 DEF Undoable, Final
  <2> QED
    BY <1>0, <1>1, <2>1, <2>2 DEF Floor
<1>5. ASSUME NEW p \in Process, Crash(p) PROVE Near' /\ Out'
  <2>1. crashes + cancels + faults = 0
    BY <1>0, <1>5 DEF Crash
  <2>2. /\ ~Final /\ lock' \in {lock, Dead}
        /\ lock \in Client => pc'[lock] \in {pc[lock], "idle"}
    BY <1>0, <2>1, <1>5 DEF Final, Crash
  <2>3. Floor' \in {Floor, state.gen}
    BY <1>0, <2>1, <2>2 DEF Floor, Undoable
  <2> QED
    BY <1>1, <2>2, <2>3
<1>6. ASSUME StaleLock \/ ExpireLease \/ \E g \in Grant : ExpireToken(g) PROVE Near' /\ Out'
  <2>1. /\ UNCHANGED <<pc, aborted, crashes, cancels, faults>>
        /\ lock' = lock \/ (lock = Dead /\ lock' = None)
    BY <1>6 DEF StaleLock, ExpireLease, ExpireToken, files, local, counters
  <2>2. (Undoable' <=> Undoable) /\ (Final' <=> Final)
    BY <1>0, <2>1 DEF Undoable, Final
  <2> QED
    BY <1>0, <1>1, <2>1, <2>2 DEF Floor, Undoable
<1> QED
  BY <1>2, <1>3, <1>4, <1>5, <1>6 DEF Next

\* A write that fails is the one mishap: its secret, too, is one ahead.
LEMMA FaultLevel ==
    ASSUME TInv, TInv', Sections, NewLogins, crashes + cancels + faults = 0 => InStep,
           Near, Out, NEW c \in Client, WriteFails(c), (crashes + cancels + faults <= 1)'
    PROVE  Near' /\ Out'
<1>0. /\ CallTypes /\ InHand /\ state.gen \in Nat /\ Floor \in Nat /\ None \notin Client
      /\ UNCHANGED <<state, disk, seen, ended>> /\ lock' = None
      /\ crashes + cancels + faults = 0 /\ InStep
  <2>1. crashes' = crashes /\ cancels' = cancels /\ faults' = faults + 1
    BY WriteFailsForm
  <2>2. crashes \in Nat /\ cancels \in Nat /\ faults \in Nat
    BY DEF TInv, InHand
  <2>3. crashes + cancels + faults = 0
    BY <2>1, <2>2
  <2> QED
    BY <2>3, WriteFailsForm, FloorType, ConstantsAssumption DEF TInv
<1>1. Floor <= state.gen /\ ~Final /\ Floor' = state.gen /\ ~Final'
  <2>1. Undoable => seen[lock].state.gen < state.gen /\ seen[lock].state.gen \in Nat
    BY FloorType DEF Undoable, Sections, Section
  <2> QED
    BY <1>0, <2>1 DEF Floor, Undoable, Final
<1>2. ASSUME NEW a \in Held
      PROVE  /\ a.gen \in Nat /\ a.gen <= state.gen + 1
             /\ \/ a.gen > state.gen
                \/ state.status \in Settled /\ a.gen = state.gen
                => a.epoch \notin ended
  <2>1. a.gen \in Nat /\ a.gen <= Floor + 1
    BY <1>1, HeldGen DEF Near
  <2> QED
    BY <1>0, <1>1, <2>1 DEF Out
<1>3. ASSUME NEW a \in Held', pc[c] = "granted", a = Refreshed(c)
      PROVE  a.gen = state.gen + 1 /\ a.epoch \notin ended
  <2>1. /\ seen[c].cred \in Credential /\ seen[c].cred \in Held
        /\ seen[c].cred.gen = state.gen /\ seen[c].state.gen = state.gen
        /\ state.status \in Settled
    BY <1>0, <1>3 DEF InHand, Held, Sections, Section, Settled
  <2>2. Highest(seen[c].state, seen[c].cred) = state.gen
    BY <1>0, <2>1, ConstantsAssumption DEF Highest, GenOf, Credential, Grant
  <2> QED
    BY <1>2, <1>3, <2>1, <2>2 DEF Refreshed, Credential
<1>4. ASSUME NEW a \in Held', pc[c] = "commit", a = NewLogin(c), Free
      PROVE  a.gen = state.gen + 1 /\ a.epoch \notin ended
  <2>1. Stored(c) # None => Stored(c).gen <= state.gen /\ Stored(c).gen \in Nat
    BY <1>0, <1>4, StoredType, StoredHeld, HeldGen
       DEF OptCredential, InStep, Behind, Writing, Free
  <2>2. Highest(state, Stored(c)) = state.gen
    BY <1>0, <2>1 DEF Highest, GenOf
  <2> QED
    BY <1>4, <2>2 DEF NewLogin, NewLogins
<1>5. ASSUME NEW a \in Held'
      PROVE  /\ a.gen <= state.gen + 1
             /\ \/ a.gen > state.gen
                \/ state.status \in Settled /\ a.gen = state.gen
                => a.epoch \notin ended
  BY <1>0, <1>2, <1>3, <1>4, FaultHeld
<1> QED
  BY <1>0, <1>1, <1>5 DEF Near, Out

\* No process signs in with a login that a logout ended, however old its memory
\* of the file is, after at most one crash, cancelled login or failed write: logout and
\* commitLogin (auth-core.ts) count on from every generation they can see.
THEOREM EndedLoginsStayOut == Spec => []LoggedOutStaysOut
<1> DEFINE J == crashes + cancels + faults <= 1 => Near /\ Out
           K == TInv /\ Sections /\ NewLogins /\ (crashes + cancels + faults = 0 => InStep)
<1>1. Init => J
  <2> SUFFICES ASSUME Init PROVE Near /\ Out
    OBVIOUS
  <2>1. Held = {}
    BY ConstantsAssumption DEF Init, Held, Nothing, Credential, Grant
  <2> QED
    BY <2>1 DEF Near, Out
<1>2. K /\ K' /\ J /\ [Next]_vars => J'
  <2> SUFFICES ASSUME K, K', J, [Next]_vars, (crashes + cancels + faults <= 1)'
               PROVE  Near' /\ Out'
    OBVIOUS
  <2>1. Near /\ Out
    <3>1. /\ crashes' >= crashes /\ cancels' >= cancels /\ faults' >= faults
          /\ crashes \in Nat /\ cancels \in Nat /\ faults \in Nat
      BY MishapsGrow
    <3>2. crashes' \in Nat /\ cancels' \in Nat /\ faults' \in Nat
      BY DEF TInv, InHand
    <3>3. \A a, b, n, x, y, z \in Nat :
              x >= a /\ y >= b /\ z >= n /\ x + y + z <= 1 => a + b + n <= 1
      OBVIOUS
    <3>4. crashes + cancels + faults <= 1
      BY <3>1, <3>2, <3>3
    <3> QED
      BY <3>4
  <2>2. CASE UNCHANGED vars
    BY <2>1, <2>2 DEF vars, files, local, server, history, counters, Near, Out, Held, Floor,
          Undoable, Final
  <2> QED
    BY <2>1, <2>2, StepLevel, OtherLevel, FaultLevel
<1>3. K /\ J => LoggedOutStaysOut
  <2> SUFFICES ASSUME K, Near, Out,
                      NEW cred \in {disk} \cup {cache[p] : p \in Process},
                      cred \in Credential, cred.epoch \in ended, Usable(state, cred)
               PROVE  FALSE
    BY DEF LoggedOutStaysOut
  <2>1. cred \in Held /\ cred.gen = state.gen /\ state.status \in Settled
    BY DEF Held, Usable, Settled
  <2> QED
    BY <2>1 DEF Out
<1> QED
  BY <1>1, <1>2, <1>3, StepsGoTogether, LoginsAreNew, PTL DEF Spec

=============================================================================
