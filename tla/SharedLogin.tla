----------------------------- MODULE SharedLogin -----------------------------
(***************************************************************************)
(* The account that all MiniMax Code processes on a machine share          *)
(* (packages/oauth-core): a state file and a credential file behind a lock *)
(* file, and in each process one MCodeOAuthCore with its FileStore, which  *)
(* reads the credential file once and from then on knows only what it      *)
(* wrote itself.                                                           *)
(*                                                                         *)
(* A call holds the lock through several awaits; a section of the code     *)
(* that reads and then writes once under the lock is one action, because   *)
(* nobody else writes meanwhile.  Reads outside the lock are steps of      *)
(* their own, and so is a write that fails.  The server's part is          *)
(* external: it issues grants, rotates the refresh token, and may fail, or *)
(* answer to nobody.                                                       *)
(***************************************************************************)
EXTENDS Integers, FiniteSets

CONSTANTS
    Process,    \* processes, each with one MCodeOAuthCore
    Client,     \* where calls are made
    Home,       \* the process of each client
    None, Unread, Dead,
    MaxCall,    \* bound on calls
    MaxGrant,   \* bound on grants of the server
    MaxMishap   \* bound on answers that are lost, processes that end, logins
                \* that are cancelled and writes that fail, taken together

ASSUME ConstantsAssumption ==
    /\ Home \in [Client -> Process]
    /\ None \notin Client /\ Dead \notin Client /\ Dead # None
    /\ {MaxCall, MaxGrant, MaxMishap} \subseteq Nat
    /\ None \notin [gen : Nat, epoch : 1 .. MaxGrant, grant : 1 .. MaxGrant]
    /\ Unread \notin [gen : Nat, epoch : 1 .. MaxGrant, grant : 1 .. MaxGrant]

VARIABLES
    state,      \* auth-state.json
    disk,       \* the credential in auth.json
    cache,      \* FileStore.cached of each process
    lock,       \* who has auth.lock; Dead is a holder that ended
    pc,         \* where each call is
    seen,       \* the state and the credential it read
    kind,       \* which method it is in
    got,        \* the grant it received
    token,      \* the lease of an access token that each client uses
    aborted,    \* logins that were cancelled
    issued,     \* grants issued
    live,       \* grants whose refresh token is accepted
    stale,      \* grants whose access token expired
    ended,      \* logins (by their first grant) that a logout ended
    misused,    \* a refresh token that was no longer accepted was presented
    replaced,   \* what the last login to commit wrote over
    calls, losses, crashes, cancels, faults

files == <<state, disk, cache, lock>>
local == <<pc, seen, kind, got, token, aborted>>
server == <<issued, live, stale>>
history == <<ended, misused, replaced>>
counters == <<calls, losses, crashes, cancels, faults>>
vars == <<files, local, server, history, counters>>

Status == {"anonymous", "authorizing", "authenticated", "refreshing",
           "logging_out", "logout_pending", "expired", "error"}
Grant == 1 .. MaxGrant
Credential == [gen : Nat, epoch : Grant, grant : Grant]
State == [status : Status, gen : Nat, lease : Client \cup {None}, live : BOOLEAN]
Kind == {"token", "status", "retry", "logout", "login"}
Phase == {"idle", "peek", "load", "fetch", "claim", "recover",
          "refresh", "granted", "stored", "rejected",
          "logout", "leaving", "revoked", "erased",
          "login", "reread", "waiting", "device", "publish", "poll",
          "commit", "committing", "committed", "rollback", "failing"}

NewState(status, gen) == [status |-> status, gen |-> gen, lease |-> None, live |-> FALSE]
Nothing == [state |-> NewState("anonymous", 0), cred |-> None]

Init ==
    /\ state = NewState("anonymous", 0) /\ disk = None
    /\ cache = [p \in Process |-> Unread] /\ lock = None
    /\ pc = [c \in Client |-> "idle"] /\ seen = [c \in Client |-> Nothing]
    /\ kind = [c \in Client |-> "token"] /\ got = [c \in Client |-> None]
    /\ token = [c \in Client |-> None] /\ aborted = {}
    /\ issued = 0 /\ live = {} /\ stale = {}
    /\ ended = {} /\ misused = FALSE /\ replaced = None
    /\ calls = 0 /\ losses = 0 /\ crashes = 0 /\ cancels = 0 /\ faults = 0

----------------------------------------------------------------------------
(* The credential file, as a process sees it.                              *)

\* FileStore.get: the file is read once.
Stored(c) == IF cache[Home[c]] = Unread THEN disk ELSE cache[Home[c]]
Caches(c) == cache' = [cache EXCEPT ![Home[c]] = Stored(c)]

\* FileStore.put and delete.
Store(c, cred) == disk' = cred /\ cache' = [cache EXCEPT ![Home[c]] = cred]

GenOf(cred) == IF cred = None THEN 0 ELSE cred.gen
Highest(s, cred) == IF GenOf(cred) > s.gen THEN GenOf(cred) ELSE s.gen

\* Mutant of Usable: the generations are not compared.
UsableAnyGeneration(s, cred) ==
    s.status \in {"authenticated", "expired", "refreshing"} /\ cred # None

\* readUsableCredential and satisfiesMinValidity.
Usable(s, cred) ==
    /\ s.status \in {"authenticated", "expired", "refreshing"}
    /\ cred # None /\ cred.gen = s.gen
Fresh(s, cred) == Usable(s, cred) /\ s.status = "authenticated" /\ cred.grant \notin stale

Goes(c, phase) == pc' = [pc EXCEPT ![c] = phase]
Sees(c, s, cred) == seen' = [seen EXCEPT ![c] = [state |-> s, cred |-> cred]]
Takes(c, cred) == token' = [token EXCEPT ![c] = cred]
Free == lock = None
Leaves(c, phase) == lock' = None /\ Goes(c, phase)

Again(c) == IF c \in aborted THEN "idle" ELSE "login"

NoNews == UNCHANGED <<kind, got, aborted, server, history, counters>>
MishapLeft == losses + crashes + cancels + faults < MaxMishap
Keeps == UNCHANGED <<kind, aborted, counters>>

Start(c, k) ==
    /\ pc[c] = "idle" /\ calls < MaxCall
    /\ k = "retry" => token[c] # None
    /\ k = "login" => \A d \in Client :       \* loginPromise
           Home[d] = Home[c] /\ kind[d] = "login" => pc[d] = "idle"
    /\ calls' = calls + 1
    /\ kind' = [kind EXCEPT ![c] = k] /\ aborted' = aborted \ {c}
    /\ Goes(c, CASE k \in {"token", "status"} -> "peek"
                 [] k = "retry" -> "claim" [] OTHER -> k)
    /\ UNCHANGED <<files, seen, got, token, server, history,
                   losses, crashes, cancels, faults>>

----------------------------------------------------------------------------
(* getAccessToken and getStatus, which first look without the lock.        *)

Settled == {"authenticated", "expired", "refreshing"}
Loads(c) == IF kind[c] = "token" THEN Settled ELSE Settled \cup {"authorizing"}

PeekState(c) ==
    /\ pc[c] = "peek"
    /\ Sees(c, state, None)
    /\ Goes(c, IF state.status \in Loads(c) THEN "load"
               ELSE IF kind[c] = "token" THEN "claim" ELSE "idle")
    /\ UNCHANGED <<files, token>> /\ NoNews

Interrupted(s, cred) == s.status \in {"authorizing", "refreshing"} /\ GenOf(cred) > s.gen

Decides(c, cred) ==
    LET s == seen[c].state IN
    \/ /\ kind[c] = "token"
       /\ IF Fresh(s, cred) THEN Goes(c, "idle") /\ Takes(c, cred)
          ELSE Goes(c, "claim") /\ UNCHANGED token
    \/ /\ kind[c] = "status"
       /\ Goes(c, IF Interrupted(s, cred) THEN "recover" ELSE "idle")
       /\ UNCHANGED token

\* What is read is what the file says now; what it said is kept for good.
Load(c) ==
    /\ pc[c] = "load"
    /\ IF cache[Home[c]] = Unread
       THEN Sees(c, seen[c].state, disk) /\ Goes(c, "fetch") /\ UNCHANGED token
       ELSE Decides(c, cache[Home[c]]) /\ UNCHANGED seen
    /\ UNCHANGED files /\ NoNews

Land(c) ==
    /\ pc[c] = "fetch"
    /\ cache' = [cache EXCEPT ![Home[c]] = seen[c].cred]
    /\ Decides(c, seen[c].cred)
    /\ UNCHANGED <<state, disk, lock, seen>> /\ NoNews

\* Mutant of Recover: what was seen without the lock is not read again.
RecoverUnchecked(c) ==
    /\ pc[c] = "recover" /\ Free
    /\ Caches(c) /\ Goes(c, "idle")
    /\ state' = NewState("authenticated", GenOf(Stored(c)))
    /\ UNCHANGED <<disk, lock, seen, token>> /\ NoNews

\* recoverInterruptedCredentialCommit, under the lock.
Recover(c) ==
    /\ pc[c] = "recover" /\ Free
    /\ Caches(c) /\ Goes(c, "idle")
    /\ state' = IF Interrupted(state, Stored(c))
                THEN NewState("authenticated", Stored(c).gen) ELSE state
    /\ UNCHANGED <<disk, lock, seen, token>> /\ NoNews

----------------------------------------------------------------------------
(* The refresh, for a token that expires, for one that was refused, and    *)
(* for a login that finds an expired account.                              *)

BeginsRefresh(c, cred) ==
    /\ state' = [state EXCEPT !.status = "refreshing"]
    /\ lock' = c
    /\ Sees(c, state, cred) /\ Goes(c, "refresh")
    /\ UNCHANGED token

\* handleUnauthorized: only the login, and the grant, that was refused.  A login
\* leaves alone what was refreshed since it looked.
Refreshes(c, cred) ==
    /\ Usable(state, cred)
    /\ CASE kind[c] = "token" -> ~Fresh(state, cred)
         [] kind[c] = "retry" -> cred.epoch = token[c].epoch /\ cred.gen = token[c].gen
         [] OTHER -> cred.gen > seen[c].cred.gen => ~Fresh(state, cred)

Settles(c, cred) ==
    /\ Goes(c, IF kind[c] # "login" THEN "idle"
               ELSE IF Usable(state, cred) THEN "reread" ELSE Again(c))
    /\ IF kind[c] = "token" /\ Usable(state, cred) THEN Takes(c, cred) ELSE UNCHANGED token
    /\ UNCHANGED <<state, lock, seen>>

Claim(c) ==
    /\ pc[c] = "claim" /\ Free
    /\ Caches(c)
    /\ IF Refreshes(c, Stored(c)) THEN BeginsRefresh(c, Stored(c)) ELSE Settles(c, Stored(c))
    /\ UNCHANGED disk /\ NoNews

Rotates(grant) ==
    /\ issued < MaxGrant /\ issued' = issued + 1
    /\ live' = (live \ {grant}) \cup {issued'}
    /\ UNCHANGED stale

RefreshGranted(c) ==
    /\ pc[c] = "refresh" /\ seen[c].cred.grant \in live
    /\ Rotates(seen[c].cred.grant)
    /\ got' = [got EXCEPT ![c] = issued'] /\ Goes(c, "granted")
    /\ UNCHANGED <<files, seen, token, history>> /\ Keeps

RefreshRejected(c) ==
    /\ pc[c] = "refresh" /\ seen[c].cred.grant \notin live
    /\ state' = NewState("anonymous", seen[c].cred.gen + 1)
    /\ misused' = TRUE /\ Goes(c, "rejected")
    /\ UNCHANGED <<disk, cache, lock, seen, got, token, server, ended, replaced>> /\ Keeps

\* Mutant of RefreshFails: the lock is not given back.
RefreshFailsHolding(c) ==
    /\ pc[c] = "refresh"
    /\ state' = [seen[c].state EXCEPT !.status = "expired"]
    /\ Goes(c, "idle")
    /\ UNCHANGED <<disk, cache, lock, kind, seen, got, token, aborted, server, history, counters>>

\* The server did not answer, or answered to nobody.
RefreshFails(c) ==
    /\ pc[c] = "refresh"
    /\ \E status \in {"authenticated", "expired"} :
        /\ status = "authenticated" => kind[c] # "retry" /\ seen[c].state.status = status
        /\ state' = [seen[c].state EXCEPT !.status = status]
    /\ Leaves(c, "idle")
    /\ \/ UNCHANGED <<server, losses>>
       \/ /\ seen[c].cred.grant \in live /\ Rotates(seen[c].cred.grant)
          /\ MishapLeft /\ losses' = losses + 1
    /\ UNCHANGED <<disk, cache, kind, seen, got, token, aborted, history,
                   calls, crashes, cancels, faults>>

Refreshed(c) ==
    [seen[c].cred EXCEPT !.gen = Highest(seen[c].state, seen[c].cred) + 1, !.grant = got[c]]

StoreRefreshed(c) ==
    /\ pc[c] = "granted"
    /\ Store(c, Refreshed(c)) /\ Goes(c, "stored")
    /\ UNCHANGED <<state, lock, seen, token>> /\ NoNews

FinishRefresh(c) ==
    /\ pc[c] = "stored"
    /\ state' = NewState("authenticated", disk.gen)
    /\ Leaves(c, IF kind[c] = "login" THEN "reread" ELSE "idle")
    /\ IF kind[c] = "token" THEN Takes(c, disk) ELSE UNCHANGED token
    /\ UNCHANGED <<disk, cache, seen>> /\ NoNews

\* A login that finds the account gone starts over.
EraseRejected(c) ==
    /\ pc[c] = "rejected"
    /\ Store(c, None)
    /\ Leaves(c, IF kind[c] = "login" THEN Again(c) ELSE "idle")
    /\ UNCHANGED <<state, seen, token>> /\ NoNews

----------------------------------------------------------------------------
(* logout.                                                                 *)

Epochs(cred) == IF cred = None THEN {} ELSE {cred.epoch}
SignedOut(c) == Stored(c) = None /\ state.status = "anonymous"

Logout(c) ==
    /\ pc[c] = "logout" /\ Free
    /\ Caches(c)
    /\ IF SignedOut(c)
       THEN Goes(c, "idle") /\ UNCHANGED <<state, lock, seen, token, ended>>
       ELSE /\ state' = NewState("logging_out", Highest(state, Stored(c)) + 1)
            /\ lock' = c /\ Goes(c, "leaving") /\ Sees(c, state, Stored(c))
            /\ ended' = ended \cup Epochs(disk) \cup Epochs(Stored(c))
            /\ UNCHANGED token
    /\ UNCHANGED <<disk, got, server, misused, replaced>> /\ Keeps

\* The server takes the token back, unless the logout does not ask it to.  When
\* it gives no answer, it may have done so.
Revoke(c) ==
    /\ pc[c] = "leaving"
    /\ live' \in {live, live \ {g \in live : seen[c].cred # None /\ g = seen[c].cred.grant}}
    /\ \/ Goes(c, "revoked") /\ UNCHANGED <<state, lock, losses>>
       \/ /\ seen[c].cred # None
          /\ live' # live => MishapLeft
          /\ losses' = IF live' # live THEN losses + 1 ELSE losses
          /\ state' = NewState("logout_pending", state.gen) /\ Leaves(c, "idle")
    /\ UNCHANGED <<disk, cache, kind, seen, got, token, aborted, issued, stale, history,
                   calls, crashes, cancels, faults>>

EraseLogin(c) ==
    /\ pc[c] = "revoked"
    /\ Store(c, None) /\ Goes(c, "erased")
    /\ UNCHANGED <<state, lock, seen, token>> /\ NoNews

FinishLogout(c) ==
    /\ pc[c] = "erased"
    /\ state' = NewState("anonymous", state.gen) /\ Leaves(c, "idle")
    /\ UNCHANGED <<disk, cache, seen, token>> /\ NoNews

----------------------------------------------------------------------------
(* login.  The lease in the state names the client that may commit.        *)

\* Mutant of Authorizing: the generation starts from the credential alone.
AuthorizingFromScratch(c) ==
    [status |-> "authorizing", gen |-> GenOf(Stored(c)), lease |-> c, live |-> TRUE]

Authorizing(c) ==
    [status |-> "authorizing", gen |-> Highest(state, Stored(c)), lease |-> c, live |-> TRUE]

Waits(s) == s.status = "authorizing" /\ s.live

Decide(c) ==
    IF Usable(state, Stored(c))
    THEN /\ Goes(c, IF Fresh(state, Stored(c)) THEN "idle" ELSE "claim")
         /\ Sees(c, state, Stored(c)) /\ UNCHANGED state
    ELSE IF Waits(state)
    THEN Goes(c, "waiting") /\ Sees(c, state, None) /\ UNCHANGED state
    ELSE /\ state' = Authorizing(c)
         /\ Goes(c, "device") /\ UNCHANGED seen

Login(c) ==
    /\ pc[c] = "login" /\ Free
    /\ Caches(c) /\ Decide(c)
    /\ UNCHANGED <<disk, lock, token>> /\ NoNews

Reread(c) ==
    /\ pc[c] = "reread"
    /\ Goes(c, IF state.status = "authenticated" THEN "idle" ELSE Again(c))
    /\ UNCHANGED <<files, seen, token>> /\ NoNews

\* The wait ends with the lease that was seen, though another may follow it.
WaitIsOver(c) == state.lease = seen[c].state.lease => ~state.live

Wait(c) ==
    /\ pc[c] = "waiting"
    /\ IF c \in aborted THEN Goes(c, "idle") /\ UNCHANGED cache
       ELSE IF state.status = "authenticated"
       THEN Caches(c) /\ Goes(c, IF GenOf(Stored(c)) = state.gen THEN "idle" ELSE "login")
       ELSE /\ state.status # "authorizing" \/ WaitIsOver(c)
            /\ Goes(c, "login") /\ UNCHANGED cache
    /\ UNCHANGED <<state, disk, lock, seen, token>> /\ NoNews

Holds(c) == state.status = "authorizing" /\ state.lease = c

\* startDeviceAuthorization, which cancelling ends, or the server refuses.
Device(c) ==
    /\ pc[c] = "device"
    /\ Goes(c, "failing") \/ (c \notin aborted /\ Goes(c, "publish"))
    /\ UNCHANGED <<files, seen, token>> /\ NoNews

Publish(c) ==
    /\ pc[c] = "publish" /\ Free
    /\ Goes(c, IF Holds(c) THEN "poll" ELSE "failing")
    /\ UNCHANGED <<files, seen, token>> /\ NoNews

PollGranted(c) ==
    /\ pc[c] = "poll" /\ c \notin aborted /\ issued < MaxGrant
    /\ issued' = issued + 1 /\ live' = live \cup {issued'}
    /\ got' = [got EXCEPT ![c] = issued'] /\ Goes(c, "commit")
    /\ UNCHANGED <<files, seen, token, stale, history>> /\ Keeps

PollFails(c) ==
    /\ pc[c] = "poll"
    /\ Goes(c, "failing")
    /\ UNCHANGED <<files, seen, token>> /\ NoNews

NewLogin(c) ==
    [gen |-> Highest(state, Stored(c)) + 1, epoch |-> got[c], grant |-> got[c]]

\* Mutant of Commit: the lease is not looked at again.
CommitUnchecked(c) ==
    /\ pc[c] = "commit" /\ Free
    /\ Store(c, NewLogin(c)) /\ lock' = c /\ replaced' = disk
    /\ Sees(c, state, Stored(c)) /\ Goes(c, "committing")
    /\ UNCHANGED <<state, got, token, server, ended, misused>> /\ Keeps

\* commitLogin: what the lease allows is checked, and written, under the lock.
Commit(c) ==
    /\ pc[c] = "commit" /\ Free
    /\ IF c \in aborted \/ ~Holds(c)
       THEN Goes(c, "failing") /\ UNCHANGED <<files, seen, replaced>>
       ELSE /\ Store(c, NewLogin(c)) /\ lock' = c /\ replaced' = disk
            /\ Sees(c, state, Stored(c)) /\ Goes(c, "committing")
            /\ UNCHANGED state
    /\ UNCHANGED <<got, token, server, ended, misused>> /\ Keeps

CommitState(c) ==
    /\ pc[c] = "committing"
    /\ IF c \in aborted
       THEN state' = seen[c].state /\ Goes(c, "rollback")
       ELSE state' = NewState("authenticated", disk.gen) /\ Goes(c, "committed")
    /\ UNCHANGED <<disk, cache, lock, seen, token>> /\ NoNews

CommitEnds(c) ==
    /\ pc[c] = "committed"
    /\ IF c \in aborted
       THEN state' = seen[c].state /\ Goes(c, "rollback") /\ UNCHANGED lock
       ELSE Leaves(c, "idle") /\ UNCHANGED state
    /\ UNCHANGED <<disk, cache, seen, token>> /\ NoNews

Rollback(c) ==
    /\ pc[c] = "rollback"
    /\ Store(c, seen[c].cred) /\ Leaves(c, "failing")
    /\ UNCHANGED <<state, seen, token>> /\ NoNews

ReleaseLease(c) ==
    /\ pc[c] = "failing" /\ Free
    /\ state' = IF Holds(c)
                THEN NewState(IF c \in aborted THEN "anonymous" ELSE "error", state.gen)
                ELSE state
    /\ Goes(c, "idle")
    /\ UNCHANGED <<disk, cache, lock, seen, token>> /\ NoNews

----------------------------------------------------------------------------
(* What happens to a call, and around it.                                  *)

\* cancelLogin.
Cancel(c) ==
    /\ kind[c] = "login" /\ pc[c] # "idle" /\ c \notin aborted
    /\ MishapLeft /\ cancels' = cancels + 1
    /\ aborted' = aborted \cup {c}
    /\ UNCHANGED <<files, pc, seen, kind, got, token, server, history,
                   calls, losses, crashes, faults>>

\* withLock gives up after its retries while another call has the lock.
LockTimeout(c) ==
    /\ lock # None
    /\ \/ pc[c] \in {"claim", "recover", "logout", "login", "failing"} /\ Goes(c, "idle")
       \/ pc[c] \in {"publish", "commit"} /\ Goes(c, "failing")
    /\ UNCHANGED <<files, seen, token>> /\ NoNews

\* A lock file that nobody touches any more may be taken over.
StaleLock ==
    /\ lock = Dead /\ lock' = None
    /\ UNCHANGED <<state, disk, cache, local, server, history, counters>>

At(p) == {c \in Client : Home[c] = p}

Crash(p) ==
    /\ MishapLeft /\ crashes' = crashes + 1
    /\ pc' = [c \in Client |-> IF c \in At(p) THEN "idle" ELSE pc[c]]
    /\ token' = [c \in Client |-> IF c \in At(p) THEN None ELSE token[c]]
    /\ cache' = [cache EXCEPT ![p] = Unread]
    /\ lock' = IF lock \in At(p) THEN Dead ELSE lock
    /\ UNCHANGED <<state, disk, seen, kind, got, aborted, server, history,
                   calls, losses, cancels, faults>>

ExpireLease ==
    /\ state.live /\ state' = [state EXCEPT !.live = FALSE]
    /\ UNCHANGED <<disk, cache, lock, local, server, history, counters>>

ExpireToken(g) ==
    /\ g <= issued /\ stale' = stale \cup {g}
    /\ UNCHANGED <<files, local, issued, live, history, counters>>

----------------------------------------------------------------------------
(* Writes that fail.  atomicWritePrivateFile leaves the file as it was, but*)
(* FileStore.put and delete change what the process remembers first.  The  *)
(* lock is given back; the call ends, or releases the lease of its login.  *)

Fault == MishapLeft /\ faults' = faults + 1
NoNewsButFault ==
    UNCHANGED <<kind, got, aborted, server, history, calls, losses, crashes, cancels>>

\* A call that gets the lock has the state to write.
Writes(c) ==
    \/ pc[c] = "recover" /\ Interrupted(state, Stored(c))
    \/ pc[c] = "claim" /\ Refreshes(c, Stored(c))
    \/ pc[c] = "logout" /\ ~SignedOut(c)
    \/ pc[c] = "login" /\ ~Usable(state, Stored(c)) /\ ~Waits(state)
    \/ pc[c] \in {"publish", "failing"} /\ Holds(c)

FirstWriteFails(c) ==
    /\ Free /\ Writes(c) /\ Fault
    /\ IF pc[c] \in {"publish", "failing"} THEN UNCHANGED cache ELSE Caches(c)
    /\ Goes(c, IF pc[c] = "publish" THEN "failing" ELSE "idle")
    /\ UNCHANGED <<state, disk, lock, seen, token>> /\ NoNewsButFault

\* A commit whose state is not written is rolled back only if it was cancelled,
\* and the rollback writes a state first.
StateWriteFails(c) ==
    /\ \/ pc[c] \in {"stored", "erased"} /\ Leaves(c, "idle")
       \/ pc[c] = "committing" /\ Leaves(c, "failing")
       \/ pc[c] = "committed" /\ c \in aborted /\ Leaves(c, "failing")
    /\ Fault
    /\ UNCHANGED <<state, disk, cache, seen, token>> /\ NoNewsButFault

Remembers(c, cred) == cache' = [cache EXCEPT ![Home[c]] = cred]

SecretWriteFails(c) ==
    /\ \/ pc[c] = "granted" /\ Remembers(c, Refreshed(c)) /\ Leaves(c, "idle")
       \/ pc[c] \in {"rejected", "revoked"} /\ Remembers(c, None) /\ Leaves(c, "idle")
       \/ /\ pc[c] = "commit" /\ Free /\ c \notin aborted /\ Holds(c)
          /\ Remembers(c, NewLogin(c)) /\ Leaves(c, "failing")
       \/ pc[c] = "rollback" /\ Remembers(c, seen[c].cred) /\ Leaves(c, "failing")
    /\ Fault
    /\ UNCHANGED <<state, disk, seen, token>> /\ NoNewsButFault

\* What became of a request cannot be written down: the state stays as it was
\* while the request went on.
OutcomeWriteFails(c) ==
    /\ \/ /\ pc[c] = "refresh"
          /\ \/ UNCHANGED <<server, losses, misused>>
             \/ /\ seen[c].cred.grant \notin live /\ misused' = TRUE
                /\ UNCHANGED <<server, losses>>
             \/ /\ seen[c].cred.grant \in live /\ Rotates(seen[c].cred.grant)
                /\ losses' = losses + 1 /\ UNCHANGED misused
       \/ /\ pc[c] = "leaving" /\ seen[c].cred # None
          /\ \/ UNCHANGED <<live, losses>>
             \/ live' = live \ {seen[c].cred.grant} /\ losses' = losses + 1
          /\ UNCHANGED <<issued, stale, misused>>
    /\ faults' = faults + 1 /\ losses' + crashes + cancels + faults' <= MaxMishap
    /\ Leaves(c, "idle")
    /\ UNCHANGED <<state, disk, cache, seen, kind, got, token, aborted, ended, replaced,
                   calls, crashes, cancels>>

WriteFails(c) ==
    \/ FirstWriteFails(c) \/ StateWriteFails(c)
    \/ SecretWriteFails(c) \/ OutcomeWriteFails(c)

----------------------------------------------------------------------------
Step(c) ==
    \/ PeekState(c) \/ Load(c) \/ Land(c) \/ Recover(c) \/ Claim(c)
    \/ RefreshGranted(c) \/ RefreshRejected(c) \/ RefreshFails(c)
    \/ StoreRefreshed(c) \/ FinishRefresh(c) \/ EraseRejected(c)
    \/ Logout(c) \/ Revoke(c) \/ EraseLogin(c) \/ FinishLogout(c)
    \/ Login(c) \/ Reread(c) \/ Wait(c) \/ Device(c) \/ Publish(c)
    \/ PollGranted(c) \/ PollFails(c)
    \/ Commit(c) \/ CommitState(c) \/ CommitEnds(c) \/ Rollback(c) \/ ReleaseLease(c)

Next ==
    \/ \E c \in Client, k \in Kind : Start(c, k)
    \/ \E c \in Client : Step(c)
    \/ \E c \in Client : Cancel(c) \/ LockTimeout(c) \/ WriteFails(c)
    \/ \E p \in Process : Crash(p)
    \/ \E g \in Grant : ExpireToken(g)
    \/ StaleLock \/ ExpireLease

Spec == Init /\ [][Next]_vars

----------------------------------------------------------------------------
(* Properties.                                                             *)

UnderLock == {"refresh", "granted", "stored", "rejected", "leaving", "revoked", "erased",
              "committing", "committed", "rollback"}
OptCredential == Credential \cup {None}

TypeOK ==
    /\ state \in State /\ disk \in OptCredential
    /\ cache \in [Process -> OptCredential \cup {Unread}]
    /\ lock \in Client \cup {None, Dead}
    /\ pc \in [Client -> Phase]
    /\ seen \in [Client -> [state : State, cred : OptCredential]]
    /\ kind \in [Client -> Kind] /\ got \in [Client -> Grant \cup {None}]
    /\ token \in [Client -> OptCredential] /\ aborted \subseteq Client
    /\ issued \in 0 .. MaxGrant /\ live \subseteq Grant /\ stale \subseteq Grant
    /\ ended \subseteq Grant /\ misused \in BOOLEAN /\ replaced \in OptCredential
    /\ calls \in 0 .. MaxCall /\ losses + crashes + cancels + faults \in 0 .. MaxMishap
    /\ \A c \in Client : lock = c <=> pc[c] \in UnderLock

\* No process signs in with a login that a logout ended, whatever it still
\* has in its cache: logout and login (auth-core.ts) raise the generation past
\* every one that was given out, so that no old credential fits the state.
\* (One crash, cancelled login or failed write leaves a secret one generation
\* ahead of the state; two of them can put one out of the next login's reach.)
LoggedOutStaysOut ==
    crashes + cancels + faults <= 1 =>
    \A cred \in {disk} \cup {cache[p] : p \in Process} :
        cred \in Credential /\ cred.epoch \in ended => ~Usable(state, cred)

\* refreshCredential presents a refresh token once: only after a crash between
\* the grant and the file, an answer that was lost or a write that failed (the
\* put at auth-core.ts:717 leaves the spent token in the file) may a token be
\* presented that the server no longer accepts, which signs every process out.
OneRefreshPerToken == misused => crashes + losses + faults > 0

\* commitLogin: only the client whose lease the state names puts another login
\* in the credential file.  (A crash, a cancelled login, or a state that commitLogin
\* could not write and did not roll back can leave two logins with one generation,
\* and then a refresh may bring the other one back.)
OnlyOwnerCommits ==
    [][crashes + cancels + faults = 0 /\ disk' \in Credential /\ Epochs(disk') # Epochs(disk) =>
          \E c \in Client : Holds(c) /\ pc[c] \in {"commit", "rollback"}]_vars

\* Where a state says "authenticated", its secret is in the file: commitLogin and
\* refreshCredential write the secret first, and a status that saw a secret ahead
\* of the state (recoverInterruptedCredentialCommit) looks again under the lock.
\* (After a put that failed, what that status sees may be in its cache alone.)
SecretBehindState ==
    crashes + cancels + faults = 0 /\ state.status = "authenticated" =>
        disk # None /\ disk.gen = state.gen

\* A login that is cancelled while it commits leaves in the file what it
\* found there (auth-core.ts:520: "another client's login cannot be erased").
RollbackKeepsOthers ==
    [][\A c \in Client : pc[c] = "rollback" /\ pc'[c] = "failing" => disk' = replaced]_vars
=============================================================================
