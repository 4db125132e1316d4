---------------------------- MODULE TokenRefresh ----------------------------
(***************************************************************************)
(* Who renews the access token, and how they get in each other's way:      *)
(* requests of the HTTP transport that were refused (transporthttp.Client, *)
(* src/transport/http/client.go) through epicTokenProvider.Refresh, and    *)
(* auth.RefreshScheduler (src/auth/scheduler.go) through oauthRefresher    *)
(* (both in src/client/token_provider.go).  They share the token store and *)
(* the provider's mutex.  The grant is epic.Client.tokenGrant.             *)
(*                                                                         *)
(* Token sets are numbered in the order the service issues them, so a      *)
(* larger number is a newer one and 0 is an empty store.                   *)
(*                                                                         *)
(* An operator X_Bug is X with a bug somebody could have written; no       *)
(* action uses it.  PROJECT.json says which property rejects it.           *)
(***************************************************************************)
EXTENDS Naturals, FiniteSets

CONSTANTS Callers,      \* goroutines that send requests
          Scheduler,    \* the goroutine of RefreshScheduler.Run
          Casts,        \* who is there: Scheduler if Config.EnableAuthRefresh
          MaxRetries,   \* transporthttp.Config.MaxRetries
          GrantRetries, \* epic.Config.MaxRetries
          Rotations,    \* external: may a refresh token be good for one use?
          Starts,       \* what the store holds at first: 0 or 1
          MaxRequests,  \* bound: requests per caller
          MaxIssued,    \* bound: token sets issued
          MaxExpired,   \* bound: access tokens that expire
          MaxFaults     \* bound: grants without an answer

Actors == Callers \cup {Scheduler}
Nobody == "nobody"

ASSUME TokenAssumption ==
  /\ Scheduler \notin Callers /\ Nobody \notin Actors
  /\ Casts \subseteq SUBSET Actors
  /\ Rotations \subseteq BOOLEAN /\ Starts \subseteq {0, 1}
  /\ MaxRetries \in Nat /\ GrantRetries \in Nat /\ MaxRequests \in Nat
  /\ MaxIssued \in Nat \ {0} /\ MaxExpired \in Nat /\ MaxFaults \in Nat

Tokens == 1 .. MaxIssued

VARIABLES stored,    \* the token set in the store
          issued,    \* external: sets issued so far
          live,      \* external: access tokens the services accept
          rotates,   \* external: is a refresh token good for one use?
          spent,     \* external: refresh tokens used up
          faults,    \* grants that got no answer
          mu,        \* who holds epicTokenProvider.mu
          pc,        \* where an actor stands
          cur,       \* cur[a]: the set whose refresh token a uses
          got,       \* got[a]: the set a was granted
          tries,     \* tries[a]: attempts of tokenGrant
          token,     \* token[c]: the access token of the last attempt
          attempt,   \* attempt[c]: attempts of Client.Request
          refreshed, \* refreshed[c]: has this request refreshed?
          requests,  \* requests[c]: so far
          ret        \* ret[c]: how the last one ended

service == <<issued, live, rotates, spent, faults>>
grant == <<cur, got, tries>>
request == <<token, attempt, refreshed, requests, ret>>
vars == <<stored, service, mu, pc, grant, request>>

Init ==
  /\ stored \in Starts
  /\ issued = 1 /\ live = {1} /\ rotates \in Rotations /\ spent = {} /\ faults = 0
  /\ mu = Nobody
  /\ \E cast \in Casts :
       pc = [a \in Actors |-> CASE a \notin cast -> "stopped"
                                [] a = Scheduler -> "wait"
                                [] OTHER -> "idle"]
  /\ cur = [a \in Actors |-> 0] /\ got = [a \in Actors |-> 0]
  /\ tries = [a \in Actors |-> 0]
  /\ token = [c \in Callers |-> 0] /\ attempt = [c \in Callers |-> 0]
  /\ refreshed = [c \in Callers |-> FALSE] /\ requests = [c \in Callers |-> 0]
  /\ ret = [c \in Callers |-> "none"]

Goto(a, l) == pc' = [pc EXCEPT ![a] = l]

-----------------------------------------------------------------------------
(* Client.Request *)

Begin(c) ==
  /\ pc[c] = "idle" /\ requests[c] < MaxRequests
  /\ requests' = [requests EXCEPT ![c] = @ + 1]
  /\ attempt' = [attempt EXCEPT ![c] = 0]
  /\ refreshed' = [refreshed EXCEPT ![c] = FALSE]
  /\ ret' = [ret EXCEPT ![c] = "none"]
  /\ Goto(c, "token")
  /\ UNCHANGED <<stored, service, mu, grant, token>>

Returns(c, err) == Goto(c, "idle") /\ ret' = [ret EXCEPT ![c] = err]

\* The top of the loop: accessToken, and the request is on its way.
Send(c) ==
  /\ pc[c] = "token"
  /\ attempt' = [attempt EXCEPT ![c] = @ + 1]
  /\ \/ stored = 0 /\ Returns(c, "ErrNoToken") /\ UNCHANGED token
     \/ /\ stored # 0 /\ token' = [token EXCEPT ![c] = stored]
        /\ Goto(c, "sent") /\ UNCHANGED ret
  /\ UNCHANGED <<stored, service, mu, grant, refreshed, requests>>

\* One retry too many.
Unanswered_Bug(c) ==
  /\ pc[c] = "sent"
  /\ \/ attempt[c] > MaxRetries + 1 /\ Returns(c, "error")
     \/ attempt[c] <= MaxRetries + 1 /\ Goto(c, "token") /\ UNCHANGED ret
  /\ UNCHANGED <<stored, service, mu, grant, token, attempt, refreshed, requests>>

\* No answer, 429 or 5xx: back off and try again, or give up.
Unanswered(c) ==
  /\ pc[c] = "sent"
  /\ \/ attempt[c] >= MaxRetries + 1 /\ Returns(c, "error")
     \/ attempt[c] < MaxRetries + 1 /\ Goto(c, "token") /\ UNCHANGED ret
     \/ attempt[c] < MaxRetries + 1 /\ Returns(c, "ctx")
  /\ UNCHANGED <<stored, service, mu, grant, token, attempt, refreshed, requests>>

\* Any other status; a 401 that is not about the token is ErrUnauthorized too.
Answered(c) ==
  /\ pc[c] = "sent" /\ token[c] \in live
  /\ \E err \in {"nil", "denied"} : Returns(c, err)
  /\ UNCHANGED <<stored, service, mu, grant, token, attempt, refreshed, requests>>

\* shouldRefreshForAuthFailure: refresh once.
Unauthorized(c) ==
  /\ pc[c] = "sent" /\ token[c] \notin live
  /\ \/ refreshed[c] /\ Returns(c, "ErrUnauthorized")
     \/ ~refreshed[c] /\ Goto(c, "lock") /\ UNCHANGED ret
  /\ UNCHANGED <<stored, service, mu, grant, token, attempt, refreshed, requests>>

-----------------------------------------------------------------------------
(* epicTokenProvider.Refresh *)

\* The token set is that of the failed request.
Lock_Bug(c) ==
  /\ pc[c] = "lock" /\ mu = Nobody
  /\ mu' = c
  /\ cur' = [cur EXCEPT ![c] = token[c]] /\ tries' = [tries EXCEPT ![c] = 0]
  /\ Goto(c, "grant")
  /\ UNCHANGED <<stored, service, got, request>>

\* The mutex is taken first and the store is read under it.
Lock(c) ==
  /\ pc[c] = "lock" /\ mu = Nobody
  /\ mu' = c
  /\ cur' = [cur EXCEPT ![c] = stored] /\ tries' = [tries EXCEPT ![c] = 0]
  /\ Goto(c, "grant")
  /\ UNCHANGED <<stored, service, got, request>>

\* The mutex is given back before the store is written.
Save_Bug(c) ==
  \/ /\ pc[c] = "save" /\ mu = c
     /\ mu' = Nobody
     /\ UNCHANGED <<stored, service, pc, grant, request>>
  \/ /\ pc[c] = "save" /\ mu # c
     /\ stored' = got[c]
     /\ refreshed' = [refreshed EXCEPT ![c] = TRUE] /\ Goto(c, "token")
     /\ UNCHANGED <<service, mu, grant, token, attempt, requests, ret>>

\* Save, the deferred Unlock, and the request goes round again.
Save(c) ==
  /\ pc[c] = "save"
  /\ stored' = got[c] /\ mu' = Nobody
  /\ refreshed' = [refreshed EXCEPT ![c] = TRUE] /\ Goto(c, "token")
  /\ UNCHANGED <<service, grant, token, attempt, requests, ret>>

\* An error path that keeps the mutex.
RefreshFails_Bug(c) ==
  /\ pc[c] \in {"refused", "transient"}
  /\ Returns(c, "ErrRefreshFailed")
  /\ UNCHANGED <<stored, service, mu, grant, token, attempt, refreshed, requests>>

RefreshFails(c) ==
  /\ pc[c] \in {"refused", "transient"}
  /\ mu' = Nobody /\ Returns(c, "ErrRefreshFailed")
  /\ UNCHANGED <<stored, service, grant, token, attempt, refreshed, requests>>

-----------------------------------------------------------------------------
(* tokenGrant with the refresh token of cur[a], while a holds the mutex.   *)

Issue(a) ==
  /\ cur[a] \notin spent /\ issued < MaxIssued
  /\ issued' = issued + 1 /\ live' = live \cup {issued + 1}
  /\ spent' = IF rotates THEN spent \cup {cur[a]} ELSE spent
  /\ UNCHANGED rotates

Granted(a) ==
  /\ pc[a] = "grant"
  /\ Issue(a) /\ got' = [got EXCEPT ![a] = issued + 1] /\ Goto(a, "save")
  /\ UNCHANGED <<stored, faults, mu, cur, tries, request>>

\* invalid_grant is not retried.
Refused(a) ==
  /\ pc[a] = "grant" /\ cur[a] \in spent
  /\ Goto(a, "refused")
  /\ UNCHANGED <<stored, service, mu, grant, request>>

\* No answer, 429 or 5xx, whether or not the service had issued a set; the
\* same refresh token is sent again, GrantRetries + 2 times in all.  A body
\* that cannot be read, or a context that ends, ends the grant at once.
Lost(a) ==
  /\ pc[a] = "grant" /\ faults < MaxFaults /\ faults' = faults + 1
  /\ Issue(a) \/ UNCHANGED <<issued, live, rotates, spent>>
  /\ tries' = [tries EXCEPT ![a] = @ + 1]
  /\ \/ Goto(a, "transient")
     \/ tries[a] + 1 <= GrantRetries + 1 /\ UNCHANGED pc
  /\ UNCHANGED <<stored, mu, cur, got, request>>

-----------------------------------------------------------------------------
(* RefreshScheduler.Run with oauthRefresher *)

\* The timer, and the second Load, which does not take the mutex.
TimerFires ==
  /\ pc[Scheduler] = "wait" /\ stored # 0 /\ issued < MaxIssued
  /\ cur' = [cur EXCEPT ![Scheduler] = stored]
  /\ tries' = [tries EXCEPT ![Scheduler] = 0]
  /\ Goto(Scheduler, "lock")
  /\ UNCHANGED <<stored, service, mu, got, request>>

SchedulerLock ==
  /\ pc[Scheduler] = "lock" /\ mu = Nobody
  /\ mu' = Scheduler /\ Goto(Scheduler, "grant")
  /\ UNCHANGED <<stored, service, grant, request>>

\* oauthRefresher.Refresh gives the mutex back, and Run saves after that.
SchedulerUnlock ==
  /\ pc[Scheduler] = "save" /\ mu = Scheduler
  /\ mu' = Nobody
  /\ UNCHANGED <<stored, service, pc, grant, request>>

\* The new set is not saved.
SchedulerSave_Bug ==
  /\ pc[Scheduler] = "save" /\ mu # Scheduler
  /\ Goto(Scheduler, "wait")
  /\ UNCHANGED <<stored, service, mu, grant, request>>

SchedulerSave ==
  /\ pc[Scheduler] = "save" /\ mu # Scheduler
  /\ stored' = got[Scheduler] /\ Goto(Scheduler, "wait")
  /\ UNCHANGED <<service, mu, grant, request>>

\* An error path that keeps the mutex.
SchedulerFails_Bug ==
  /\ pc[Scheduler] \in {"refused", "transient"}
  /\ Goto(Scheduler, IF pc[Scheduler] = "refused" THEN "dead" ELSE "wait")
  /\ UNCHANGED <<stored, service, mu, grant, request>>

\* A fatal failure ends the scheduler, a transient one backs off.
SchedulerFails ==
  /\ pc[Scheduler] \in {"refused", "transient"}
  /\ mu' = Nobody
  /\ Goto(Scheduler, IF pc[Scheduler] = "refused" THEN "dead" ELSE "wait")
  /\ UNCHANGED <<stored, service, grant, request>>

\* Logout ends the scheduler's context, which it looks at when it waits.
SchedulerStops ==
  /\ pc[Scheduler] = "wait" /\ Goto(Scheduler, "stopped")
  /\ UNCHANGED <<stored, service, mu, grant, request>>

-----------------------------------------------------------------------------

\* The services stop accepting an access token.
Expire ==
  /\ Cardinality(1 .. issued \ live) < MaxExpired
  /\ \E n \in live : live' = live \ {n}
  /\ UNCHANGED <<stored, issued, rotates, spent, faults, mu, pc, grant, request>>

GrantStep(a) == Granted(a) \/ Refused(a) \/ Lost(a)
CallerStep(c) == \/ Send(c) \/ Unanswered(c) \/ Answered(c) \/ Unauthorized(c)
                 \/ Save(c) \/ RefreshFails(c)
SchedulerStep == TimerFires \/ SchedulerUnlock \/ SchedulerSave \/ SchedulerFails

Next ==
  \/ \E c \in Callers : Begin(c) \/ CallerStep(c) \/ Lock(c)
  \/ \E a \in Actors : GrantStep(a)
  \/ SchedulerStep \/ SchedulerLock \/ SchedulerStops
  \/ Expire

\* Exchanges end, timers fire, goroutines that can run do; sync.Mutex lets
\* every waiter in eventually.  No token has to expire, nobody has to call.
Fairness ==
  /\ \A c \in Callers : WF_vars(CallerStep(c)) /\ SF_vars(Lock(c))
  /\ \A a \in Actors : WF_vars(GrantStep(a))
  /\ WF_vars(SchedulerStep) /\ SF_vars(SchedulerLock)

Spec == Init /\ [][Next]_vars /\ Fairness

-----------------------------------------------------------------------------
(* Properties *)

\* The attempt that follows a refresh is not counted.
Extra(c) == IF refreshed[c] THEN 1 ELSE 0

\* Every variable has its type; a request is sent MaxRetries + 1 times, and
\* once more if it refreshed (client.go:98); a grant GrantRetries + 2 times.
TypeOK ==
  /\ stored \in 0 .. MaxIssued /\ issued \in Tokens
  /\ live \subseteq 1 .. issued /\ spent \subseteq 0 .. MaxIssued
  /\ rotates \in BOOLEAN /\ faults \in 0 .. MaxFaults /\ mu \in Actors \cup {Nobody}
  /\ pc \in [Actors -> {"idle", "token", "sent", "wait", "lock", "grant", "save",
                        "refused", "transient", "dead", "stopped"}]
  /\ \A c \in Callers : pc[c] \notin {"wait", "dead"}
  /\ pc[Scheduler] \notin {"idle", "token", "sent"}
  /\ cur \in [Actors -> 0 .. MaxIssued] /\ got \in [Actors -> 0 .. MaxIssued]
  /\ tries \in [Actors -> 0 .. GrantRetries + 2]
  /\ token \in [Callers -> 0 .. MaxIssued]
  /\ refreshed \in [Callers -> BOOLEAN]
  /\ attempt \in [Callers -> Nat]
  /\ \A c \in Callers : attempt[c] <= MaxRetries + 1 + Extra(c)
  /\ requests \in [Callers -> 0 .. MaxRequests]
  /\ ret \in [Callers -> {"none", "nil", "denied", "error", "ctx", "ErrNoToken",
                          "ErrUnauthorized", "ErrRefreshFailed"}]

\* A request that refreshed never puts an older token set over a newer one,
\* although others refresh at the same time (the scheduler may: it saves
\* outside the mutex).
StoreNeverGoesBack ==
  [][(\E c \in Callers : pc[c] = "save" /\ pc'[c] # "save") => stored' >= stored]_vars

\* Requests that refresh at the same time never use a refresh token another
\* one has used up: a refresh fails after a lost answer only, or when the
\* scheduler, which saves outside the mutex, has not saved its set yet.
RefreshFailsForAReason ==
  \A c \in Callers :
    ret[c] = "ErrRefreshFailed" => faults > 0 \/ got[Scheduler] > cur[c]

\* The scheduler dies (AuthFatal) of a lost answer, or of a race with a
\* request that refreshed after it had read the store; a newer token set is
\* then in the store.
SchedulerDiesOfARaceOnly ==
  pc[Scheduler] = "dead" => faults > 0 \/ cur[Scheduler] < stored

\* Every request returns, whatever the others do with the mutex.  (At the
\* bound MaxIssued the service stops answering, which proves nothing.)
RequestReturns ==
  \A c \in Callers : pc[c] = "token" ~> (pc[c] = "idle" \/ issued = MaxIssued)

\* While the scheduler lives, a token set that expired is replaced (up to the
\* bound MaxIssued).
ExpiredIsReplaced ==
  (stored # 0 /\ stored \notin live)
    ~> \/ stored \in live
       \/ pc[Scheduler] \in {"dead", "stopped"}
       \/ issued = MaxIssued

-----------------------------------------------------------------------------
(* The inductive invariant of TokenRefreshProofs *)

InMutex(a) == pc[a] \in {"grant", "save", "refused", "transient"}

\* Who holds the mutex; the scheduler may be in "save" without it.
Mutex ==
  /\ \A c \in Callers : InMutex(c) <=> mu = c
  /\ mu = Scheduler => InMutex(Scheduler)
  /\ pc[Scheduler] \in {"grant", "refused", "transient"} => mu = Scheduler

\* What is used was stored, and what is stored was issued.
Issued ==
  /\ stored <= issued
  /\ \A a \in Actors : cur[a] <= issued /\ got[a] <= issued
  /\ \A c \in Callers : pc[c] = "save" => got[c] = issued
  /\ \A c \in Callers : pc[c] \in {"sent", "lock"} => stored # 0
  /\ \A c \in Callers : pc[c] = "grant" => cur[c] # 0
  /\ pc[Scheduler] \in {"lock", "grant"} => cur[Scheduler] # 0 /\ stored # 0
  /\ pc[Scheduler] = "save" => got[Scheduler] # 0

\* With rotation the newest set alone has a refresh token that is not spent.
Rotation == spent = IF rotates THEN 1 .. issued - 1 ELSE {}

\* Until an answer is lost, the newest set is stored or about to be saved.
NewestKept ==
  rotates /\ faults = 0 =>
    /\ stored \in {0, issued} \/ \E a \in Actors : pc[a] = "save"
    /\ pc[Scheduler] = "save" =>
         /\ got[Scheduler] = issued /\ stored < issued
         /\ \A c \in Callers : pc[c] # "save"
    /\ \A c \in Callers : pc[c] = "grant" =>
         cur[c] = stored \/ cur[c] < got[Scheduler]

\* Whom a failure is due to.
Blame ==
  /\ \A a \in Actors : pc[a] = "transient" => faults > 0
  /\ \A c \in Callers : pc[c] = "refused" => faults > 0 \/ got[Scheduler] > cur[c]
  /\ \A c \in Callers : pc[c] \notin {"idle", "stopped"} => ret[c] = "none"
  /\ RefreshFailsForAReason
  /\ pc[Scheduler] \in {"refused", "dead"} => faults > 0 \/ cur[Scheduler] < stored

\* How many attempts are left.
Attempts ==
  /\ \A c \in Callers : pc[c] = "token" => attempt[c] <= MaxRetries + Extra(c)
  /\ \A c \in Callers : pc[c] \in {"lock", "grant", "save"} => ~refreshed[c]
  /\ \A a \in Actors : pc[a] = "grant" => tries[a] <= GrantRetries + 1
  /\ pc[Scheduler] = "lock" => tries[Scheduler] = 0

TokenInv == TypeOK /\ Attempts /\ Mutex /\ Issued /\ Rotation /\ NewestKept /\ Blame
=============================================================================
