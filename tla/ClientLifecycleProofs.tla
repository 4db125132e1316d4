------------------------ MODULE ClientLifecycleProofs ------------------------
(***************************************************************************)
(* Theorems about ClientLifecycle, for any number of sessions, threads and *)
(* connections and any room in the subscriptions.                          *)
(***************************************************************************)
EXTENDS ClientLifecycle, TLAPS

-----------------------------------------------------------------------------
(* The inductive invariant *)

LoginStates == {"none", "auth", "create", "watch", "connect", "wait", "party", "nil", "error"}

\* Sessions follow one another: what is under way, can be canceled or lives
\* belongs to the last, and a session that has not ended can be canceled.
Active(s) == UnderWay(s) \/ runCancel = s \/ ~Gone(s)
Ordered ==
  \A s \in Sessions :
    /\ login[s] # "none" => \A r \in Sessions : r < s => login[r] # "none"
    /\ Active(s) => login[s] # "none" /\ \A r \in Sessions : r > s => login[r] = "none"
    /\ login[s] # "none" /\ ~ended[s] => runCancel = s

\* What Login has done by the time it stands where it stands.
Placed(s) ==
  /\ login[s] \in {"none", "auth", "create", "watch", "connect"} => sup[s] = "none" /\ conns[s] = 0
  /\ login[s] \in {"none", "auth", "create", "watch"} => watcher[s] = "none"
  /\ login[s] \in {"auth", "create", "watch"} => watchSub = None
  /\ login[s] \in {"watch", "connect"} => xmppClient = s
  /\ Running(s) => xmppClient = s
  /\ runCancel = s /\ ~ended[s] /\ login[s] \in {"connect", "wait", "party", "nil"}
       => Watching(s) /\ watchSub = s
Prepared == \A s \in Sessions : Placed(s)

\* A connection that Login hears of is one of its own.
Heard ==
  /\ inbox # <<>> => \E s \in Sessions : login[s] = "wait"
  /\ \A s \in Sessions : \A i \in 1 .. Len(inbox) :
       login[s] = "wait" /\ inbox[i] = "connected" => conns[s] > 0
  /\ EnsureAfterConnect

\* How far a Logout has come that nothing got in the way of.
Leaving ==
  /\ \A t \in Threads : out[t] # "idle" => runCancel = None
  /\ ~rough =>
       /\ \A t, u \in Threads : out[t] # "idle" /\ out[u] # "idle" => t = u
       /\ runCancel = None => \A s \in Sessions : ~UnderWay(s)
       /\ \A t \in Threads :
            /\ out[t] = "closing" => arg[t] = xmppClient
            /\ out[t] \in {"stop", "wait", "emit"} => \A s \in Sessions : ~Running(s)
            /\ out[t] \in {"wait", "emit"} => watchSub = None
            /\ out[t] = "emit" => \A s \in Sessions : ~Watching(s)
       /\ runCancel = None /\ (\A t \in Threads : out[t] = "idle") =>
            watchSub = None /\ \A s \in Sessions : Gone(s)
       /\ watchSub = None => \/ \A s \in Sessions : ~Watching(s)
                             \/ \E t \in Threads : out[t] = "wait"

\* The watcher has been told of a connection; another one is on its way to it,
\* which it will not leave to Login.
Seen(s) == seenConnected[s] \/ \E i \in 1 .. Len(watched[s]) : watched[s][i] = "connected"
Due(s) ==
  \E i \in 1 .. Len(watched[s]) :
    /\ watched[s][i] = "connected"
    /\ seenConnected[s] \/ \E j \in 1 .. i - 1 : watched[s][j] = "connected"
Current(s) == login[s] \in {"wait", "party", "nil"} /\ ~ended[s]
Heeds(s) ==
  /\ Current(s) /\ ~missed /\ conns[s] > 0 => Seen(s)
  /\ Current(s) /\ ~missed /\ login[s] = "nil" /\ sup[s] = "up" =>
       ~stale \/ told \/ watcher[s] = "resync" \/ Due(s)
Resyncing == \A s \in Sessions : Heeds(s)

LifecycleInv == TypeOK /\ Ordered /\ Prepared /\ Heard /\ Leaving /\ Resyncing

-----------------------------------------------------------------------------
(* What the steps have in common *)

Events == {"connected", "fatal", "other"}

\* An event is put at the end of a subscription that has room, or lost.
LEMMA EmitEffect ==
  ASSUME TypeOK, NEW e \in Events, Emit(e)
  PROVE  /\ inbox' \in Seq(Events) /\ Len(inbox') <= LoginBuffer
         /\ inbox' = inbox \/ (inbox' = Append(inbox, e) /\ \E s \in Sessions : login[s] = "wait")
         /\ watched' \in [Sessions -> Seq(Events)]
         /\ \A s \in Sessions : Len(watched'[s]) <= WatchBuffer
         /\ \A s \in Sessions : \/ watched'[s] = watched[s]
                                \/ \E d \in Events : watched'[s] = Append(watched[s], d)
         /\ missed' \in BOOLEAN /\ (missed => missed')
         /\ \A s \in Sessions : watchSub = s /\ Watching(s) /\ e = "connected" /\ ~missed' =>
              watched'[s] = Append(watched[s], "connected")
<1> DEFINE d == IF e = "connected" THEN e ELSE "other"
           heard == watchSub # None /\ Watching(watchSub)
           full == heard /\ ~HasRoom(watched[watchSub], WatchBuffer)
<1>a. /\ watchSub \in 0 .. MaxLogins /\ inbox \in Seq(Events) /\ Len(inbox) <= LoginBuffer
      /\ watched \in [Sessions -> Seq(Events)] /\ \A s \in Sessions : Len(watched[s]) <= WatchBuffer
      /\ missed \in BOOLEAN /\ LoginBuffer \in Nat /\ WatchBuffer \in Nat /\ MaxLogins \in Nat
  BY LifecycleAssumption DEF TypeOK, Events
<1>b. d \in Events /\ (e = "connected" => d = "connected")
  BY DEF Events
<1>1. inbox' = IF (\E s \in Sessions : login[s] = "wait") /\ HasRoom(inbox, LoginBuffer)
               THEN Append(inbox, e) ELSE inbox
  BY DEF Emit
<1>2. watched' = IF heard /\ ~full
                 THEN [watched EXCEPT ![watchSub] = Append(@, d)] ELSE watched
  BY DEF Emit
<1>3. missed' = (missed \/ (full /\ e = "connected"))
  BY DEF Emit
<1> HIDE DEF d
<1>4. inbox' \in Seq(Events) /\ Len(inbox') <= LoginBuffer
  <2>1. Append(inbox, e) \in Seq(Events) /\ Len(Append(inbox, e)) = Len(inbox) + 1 /\ Len(inbox) \in Nat
    BY <1>a
  <2> QED
    BY <1>a, <1>1, <2>1 DEF HasRoom
<1>5. ASSUME NEW s \in Sessions
      PROVE  /\ watched'[s] \in Seq(Events) /\ Len(watched'[s]) <= WatchBuffer
             /\ watched'[s] = watched[s] \/ watched'[s] = Append(watched[s], d)
             /\ watchSub = s /\ heard /\ ~full => watched'[s] = Append(watched[s], d)
  <2>1. /\ Append(watched[s], d) \in Seq(Events) /\ Len(Append(watched[s], d)) = Len(watched[s]) + 1
        /\ Len(watched[s]) \in Nat
    BY <1>a, <1>b
  <2>2. CASE watchSub = s /\ heard /\ ~full
    BY <1>a, <1>2, <2>1, <2>2 DEF HasRoom
  <2>3. CASE ~(watchSub = s /\ heard /\ ~full)
    BY <1>a, <1>2, <2>3
  <2> QED
    BY <2>2, <2>3
<1>6. watched' \in [Sessions -> Seq(Events)]
  <2>1. watched' = [s \in Sessions |-> watched'[s]]
    BY <1>a, <1>2
  <2> QED
    BY <1>5, <2>1
<1>7. ASSUME NEW s \in Sessions, watchSub = s, Watching(s), e = "connected", ~missed'
      PROVE  watched'[s] = Append(watched[s], "connected")
  <2>1. watchSub # None /\ Watching(watchSub)
    BY <1>a, <1>7 DEF Sessions, None
  <2>2. ~full
    BY <1>3, <1>7
  <2> QED
    BY <1>b, <1>5, <1>7, <2>1, <2>2
<1>8. inbox' = inbox \/ (inbox' = Append(inbox, e) /\ \E s \in Sessions : login[s] = "wait")
  BY <1>1
<1>9. missed' \in BOOLEAN /\ (missed => missed')
  BY <1>a, <1>3
<1> QED
  BY <1>b, <1>4, <1>5, <1>6, <1>7, <1>8, <1>9

\* A supervisor at work goes on, or ends.
Works(s) == Supervise(s) \/ Connected(s) \/ Disconnected(s) \/ BudgetExceeded(s)
LEMMA SupervisorEffect ==
  ASSUME TypeOK, NEW s \in Sessions, Works(s)
  PROVE  /\ Running(s) /\ sup' \in [Sessions -> {"none", "done"} \cup Session!Alive]
         /\ \A r \in Sessions \ {s} : sup'[r] = sup[r]
         /\ sup'[s] # "none" /\ (sup'[s] = "up" => Connected(s) \/ sup[s] = "up")
         /\ UNCHANGED canceled /\ (~Connected(s) => UNCHANGED conns)
<1>1. sup \in [Sessions -> {"none", "done"} \cup Session!Alive]
  BY DEF TypeOK
<1>2. ASSUME NEW from \in Session!Alive, NEW to \in {"done"} \cup Session!Alive, Session!Moves(s, from, to)
      PROVE  /\ Running(s) /\ sup' \in [Sessions -> {"none", "done"} \cup Session!Alive]
             /\ \A r \in Sessions \ {s} : sup'[r] = sup[r]
             /\ sup'[s] = to /\ to # "none"
  BY <1>1, <1>2 DEF Session!Moves, Session!Alive, Running
<1>3. CASE Supervise(s)
  BY <1>2, <1>3 DEF Supervise, Session!Dial, Session!Ends, Session!Alive
<1>4. CASE Connected(s)
  BY <1>2, <1>4 DEF Connected, Session!Established, Session!Alive
<1>5. CASE Disconnected(s)
  BY <1>2, <1>5 DEF Disconnected, Session!Refused, Session!Broken, Session!Alive
<1>6. CASE BudgetExceeded(s)
  BY <1>2, <1>6 DEF BudgetExceeded, Session!GivesUp, Session!Alive
<1> QED
  BY <1>3, <1>4, <1>5, <1>6 DEF Works

\* What Login does to its own place and to the inbox.
LEMMA LoginEffect ==
  ASSUME TypeOK, NEW s \in Sessions, LoginStep(s)
  PROVE  /\ \E l \in LoginStates \ {"none"} : Goto(s, l)
         /\ UNCHANGED <<runCancel, ended, canceled, conns, seenConnected, outVars, rough>>
         /\ login[s] \notin {"none", "nil", "error"}
         /\ ~LoginParty(s) => UNCHANGED <<watched, cacheVars>>
         /\ ~LoginParty(s) => inbox' \in {<<>>, inbox} \/ (inbox # <<>> /\ inbox' = Tail(inbox))
<1> USE DEF LoginStates, At, Fails, Goto
<1>1. CASE LoginAuth(s)
  BY <1>1 DEF LoginAuth, LoginOnly, supVars, watchVars, outVars
<1>2. CASE LoginCreate(s)
  BY <1>2 DEF LoginCreate, supVars, watchVars, outVars
<1>3. CASE LoginWatch(s)
  BY <1>3 DEF LoginWatch, supVars, outVars
<1>4. CASE LoginConnect(s)
  BY <1>4 DEF LoginConnect, Session!Connect, watchVars, busVars, outVars
<1>5. CASE LoginEvent(s)
  <2>1. UNCHANGED <<runCancel, ended, canceled, conns, seenConnected, outVars, rough, watched, cacheVars>>
    BY <1>5 DEF LoginEvent, LoginOnly, supVars, watchVars, outVars
  <2>2. login[s] = "wait" /\ login = [login EXCEPT ![s] = "wait"]
    BY <1>5 DEF LoginEvent, TypeOK
  <2>3. \/ Goto(s, "party") /\ inbox' = <<>>
        \/ Goto(s, "error") /\ inbox' = <<>>
        \/ Goto(s, "wait") /\ inbox # <<>> /\ inbox' = Tail(inbox)
    BY <1>5, <2>2 DEF LoginEvent
  <2> QED
    BY <2>1, <2>2, <2>3
<1>6. CASE LoginParty(s)
  BY <1>6 DEF LoginParty, supVars, watchVars, outVars
<1>7. CASE LoginDone(s)
  BY <1>7 DEF LoginDone, LoginOnly, supVars, watchVars, outVars
<1> QED
  BY <1>1, <1>2, <1>3, <1>4, <1>5, <1>6, <1>7 DEF LoginStep

\* It touches no other session.
LEMMA LoginAlone ==
  ASSUME TypeOK, NEW s \in Sessions, LoginStep(s), NEW r \in Sessions \ {s}
  PROVE  login'[r] = login[r] /\ sup'[r] = sup[r] /\ watcher'[r] = watcher[r]
<1>1. login'[r] = login[r]
  BY LoginEffect DEF Goto, TypeOK
<1>2. CASE LoginAuth(s) \/ LoginEvent(s) \/ LoginDone(s)
  BY <1>1, <1>2 DEF LoginAuth, LoginEvent, LoginDone, LoginOnly, supVars, watchVars
<1>3. CASE LoginCreate(s) \/ LoginParty(s)
  BY <1>1, <1>3 DEF LoginCreate, LoginParty, supVars, watchVars
<1>4. CASE LoginWatch(s)
  BY <1>1, <1>4 DEF LoginWatch, supVars, TypeOK
<1>5. CASE LoginConnect(s)
  BY <1>1, <1>5 DEF LoginConnect, Session!Connect, Session!Moves, watchVars, TypeOK
<1> QED
  BY <1>2, <1>3, <1>4, <1>5 DEF LoginStep

-----------------------------------------------------------------------------
(* Types *)

LEMMA TypeStep ==
  ASSUME TypeOK, [Next]_vars
  PROVE  TypeOK'
<1> USE LifecycleAssumption DEF Events
<1>a. ASSUME NEW s \in Sessions, \E l \in LoginStates : Goto(s, l)
      PROVE  login' \in [Sessions -> LoginStates]
  BY <1>a DEF Goto, TypeOK, LoginStates
<1>b. ASSUME inbox' \in {<<>>, inbox} \/ (inbox # <<>> /\ inbox' = Tail(inbox))
      PROVE  inbox' \in Seq(Events) /\ Len(inbox') <= LoginBuffer
  <2>1. inbox \in Seq(Events) /\ Len(inbox) <= LoginBuffer /\ LoginBuffer \in Nat
    BY DEF TypeOK
  <2>2. <<>> \in Seq(Events) /\ Len(<<>>) <= LoginBuffer
    BY <2>1
  <2>3. ASSUME inbox # <<>>
        PROVE  Tail(inbox) \in Seq(Events) /\ Len(Tail(inbox)) <= LoginBuffer
    BY <2>1, <2>3
  <2> QED
    BY <1>b, <2>1, <2>2, <2>3
<1>c. ASSUME NEW s \in Sessions, Ended(s)
      PROVE  ended' \in [Sessions -> BOOLEAN] /\ canceled' \in [Sessions -> BOOLEAN]
  BY <1>c DEF Ended, TypeOK
<1>d. Sessions \subseteq 0 .. MaxLogins /\ \A s \in 0 .. MaxLogins : s # None => s \in Sessions
  BY DEF Sessions, None
<1>1. ASSUME OtherEvent PROVE TypeOK'
  BY <1>1, EmitEffect DEF OtherEvent, TypeOK, loginVars, supVars, watchVars, outVars, cacheVars
<1>2. ASSUME NEW s \in Sessions, Login(s) PROVE TypeOK'
  <2>1. login' \in [Sessions -> LoginStates]
    BY <1>2, <1>a DEF Login, LoginStates
  <2> QED
    BY <1>2, <1>d, <2>1 DEF Login, TypeOK, LoginStates, supVars, watchVars, busVars, outVars, cacheVars
<1>3. ASSUME NEW s \in Sessions, LoginStep(s) PROVE TypeOK'
  <2>1. login' \in [Sessions -> LoginStates]
    BY <1>3, <1>a, LoginEffect
  <2>2. UNCHANGED <<runCancel, ended, canceled, conns, seenConnected, out, arg, rough>>
    BY <1>3, LoginEffect DEF outVars
  <2>3. CASE LoginAuth(s) \/ LoginEvent(s) \/ LoginDone(s)
    <3>1. UNCHANGED <<sup, xmppClient, watchSub, watcher, watched, missed, stale, told>>
      BY <2>3 DEF LoginAuth, LoginEvent, LoginDone, LoginOnly, supVars, watchVars, cacheVars
    <3>2. ~LoginParty(s)
      BY <2>3 DEF LoginAuth, LoginEvent, LoginDone, LoginParty, At
    <3>3. inbox' \in Seq(Events) /\ Len(inbox') <= LoginBuffer
      BY <1>3, <1>b, <3>2, LoginEffect
    <3> QED
      BY <2>1, <2>2, <3>1, <3>3 DEF TypeOK, LoginStates
  <2>4. CASE LoginCreate(s)
    <3>1. UNCHANGED <<sup, watchSub, watcher, watched, missed, stale, told>> /\ xmppClient' \in {xmppClient, s}
      BY <2>4 DEF LoginCreate, supVars, watchVars, cacheVars
    <3>2. inbox' \in Seq(Events) /\ Len(inbox') <= LoginBuffer
      BY <2>4, <1>b DEF LoginCreate, Fails
    <3> QED
      BY <1>d, <2>1, <2>2, <3>1, <3>2 DEF TypeOK, LoginStates
  <2>5. CASE LoginWatch(s)
    BY <1>d, <2>1, <2>2, <2>5 DEF LoginWatch, TypeOK, LoginStates, supVars, cacheVars
  <2>6. CASE LoginConnect(s)
    <3>1. sup' \in [Sessions -> {"none", "done"} \cup Session!Alive]
      BY <2>6 DEF LoginConnect, Session!Connect, Session!Moves, Session!Alive, TypeOK
    <3> QED
      BY <2>1, <2>2, <2>6, <3>1 DEF LoginConnect, TypeOK, LoginStates, watchVars, busVars, cacheVars
  <2>7. CASE LoginParty(s)
    <3>1. UNCHANGED <<sup, xmppClient, watchSub, watcher>> /\ stale' \in BOOLEAN /\ told' \in BOOLEAN
      BY <2>7 DEF LoginParty, supVars, watchVars, cacheVars, TypeOK
    <3>2. CASE Emit("other")
      BY <2>1, <2>2, <3>1, <3>2, EmitEffect DEF TypeOK, LoginStates
    <3>3. CASE inbox' = <<>> /\ UNCHANGED <<watched, missed>>
      BY <1>b, <2>1, <2>2, <3>1, <3>3 DEF TypeOK, LoginStates
    <3> QED
      BY <2>7, <3>2, <3>3 DEF LoginParty, Fails
  <2> QED
    BY <1>3, <2>3, <2>4, <2>5, <2>6, <2>7 DEF LoginStep
<1>4. ASSUME NEW s \in Sessions, ContextEnds(s) PROVE TypeOK'
  BY <1>4, <1>c DEF ContextEnds, TypeOK, watchVars, busVars, outVars, cacheVars
<1>5. ASSUME NEW s \in Sessions, Works(s) PROVE TypeOK'
  <2>1. /\ sup' \in [Sessions -> {"none", "done"} \cup Session!Alive] /\ UNCHANGED canceled
        /\ ~Connected(s) => UNCHANGED conns
    BY <1>5, SupervisorEffect
  <2>2. UNCHANGED <<runCancel, xmppClient, login, ended, watchSub, watcher, seenConnected, out, arg, stale, rough>>
    BY <1>5 DEF Works, Supervise, Connected, Disconnected, BudgetExceeded, loginVars, watchVars, outVars, cacheVars
  <2>3. conns' \in [Sessions -> Nat] /\ told' \in BOOLEAN
    <3>1. CASE Connected(s)
      <4>1. conns' = [conns EXCEPT ![s] = @ + 1] /\ told' = FALSE
        BY <3>1 DEF Connected
      <4>2. conns \in [Sessions -> Nat]
        BY DEF TypeOK
      <4>3. \A r \in Sessions : conns[r] + 1 \in Nat
        BY <4>2
      <4>4. conns' \in [Sessions -> Nat]
        BY <4>1, <4>2, <4>3
      <4> QED
        BY <4>1, <4>4
    <3>2. CASE ~Connected(s)
      <4>1. told' = told
        BY <1>5, <3>2 DEF Works, Supervise, Disconnected, BudgetExceeded, cacheVars
      <4> QED
        BY <2>1, <3>2, <4>1 DEF TypeOK
    <3> QED
      BY <3>1, <3>2
  <2>4. CASE UNCHANGED busVars
    BY <2>1, <2>2, <2>3, <2>4 DEF TypeOK, busVars
  <2>5. ASSUME NEW e \in Events, Emit(e) PROVE TypeOK'
    BY <2>1, <2>2, <2>3, <2>5, EmitEffect DEF TypeOK
  <2> QED
    BY <1>5, <2>4, <2>5 DEF Works, Supervise, Connected, Disconnected, BudgetExceeded
<1>6. ASSUME ChangeMissed PROVE TypeOK'
  BY <1>6 DEF ChangeMissed, TypeOK, loginVars, supVars, watchVars, busVars, outVars
<1>7. ASSUME NEW s \in Sessions, WatcherStep(s) PROVE TypeOK'
  <2>1. UNCHANGED <<runCancel, xmppClient, login, ended, sup, canceled, conns, watchSub, out, arg, rough>>
    BY <1>7 DEF WatcherStep, WatcherEvent, WatcherResync, WatcherEnds, loginVars, supVars, outVars
  <2>2. CASE WatcherEvent(s)
    <3>1. watched' \in [Sessions -> Seq(Events)] /\ \A r \in Sessions : Len(watched'[r]) <= WatchBuffer
      BY <2>2 DEF WatcherEvent, TypeOK
    <3>2. watcher' \in [Sessions -> {"none", "select", "resync", "done"}]
          /\ seenConnected' \in [Sessions -> BOOLEAN]
      BY <2>2 DEF WatcherEvent, OnConnected, TypeOK
    <3> QED
      BY <2>1, <2>2, <3>1, <3>2 DEF WatcherEvent, TypeOK, cacheVars
  <2>3. CASE WatcherResync(s)
    <3>1. /\ watcher' \in [Sessions -> {"none", "select", "resync", "done"}]
          /\ UNCHANGED seenConnected /\ stale' \in BOOLEAN /\ told' \in BOOLEAN
      BY <2>3 DEF WatcherResync, TypeOK
    <3> QED
      BY <2>1, <2>3, <3>1, EmitEffect DEF WatcherResync, TypeOK
  <2>4. CASE WatcherEnds(s)
    <3>1. watched' \in [Sessions -> Seq(Events)] /\ \A r \in Sessions : Len(watched'[r]) <= WatchBuffer
      BY <2>4 DEF WatcherEnds, TypeOK
    <3> QED
      BY <2>1, <2>4, <3>1 DEF WatcherEnds, TypeOK, cacheVars
  <2> QED
    BY <1>7, <2>2, <2>3, <2>4 DEF WatcherStep
<1>8. ASSUME NEW t \in Threads, Logout(t) \/ LogoutStep(t) \/ LogoutGivesUp(t) PROVE TypeOK'
  <2>1. UNCHANGED <<xmppClient, login, conns, sup, watcher, seenConnected, stale, told>>
    BY <1>8 DEF Logout, LogoutStep, LogoutGivesUp, LogoutClose, LogoutClosed, LogoutStop, LogoutWaited,
                LogoutEmit, Session!Cancel, loginVars, supVars, watchVars, cacheVars
  <2>2. out' \in [Threads -> {"idle", "close", "closing", "stop", "wait", "emit"}]
        /\ arg' \in [Threads -> 0 .. MaxLogins] /\ rough' \in BOOLEAN
    BY <1>8 DEF Logout, LogoutStep, LogoutGivesUp, LogoutClose, LogoutClosed, LogoutStop, LogoutWaited,
                LogoutEmit, outVars, TypeOK
  <2>3. runCancel' \in 0 .. MaxLogins /\ watchSub' \in 0 .. MaxLogins
    BY <1>8 DEF Logout, LogoutStep, LogoutGivesUp, LogoutClose, LogoutClosed, LogoutStop, LogoutWaited,
                LogoutEmit, Unwatch, None, loginVars, watchVars, TypeOK
  <2>4. ended' \in [Sessions -> BOOLEAN] /\ canceled' \in [Sessions -> BOOLEAN]
    <3>1. CASE Logout(t)
      BY <1>c, <1>d, <3>1 DEF Logout, CancelRun, TypeOK
    <3>2. CASE LogoutClose(t)
      BY <1>d, <3>2 DEF LogoutClose, Session!Cancel, loginVars, TypeOK
    <3>3. CASE LogoutClosed(t) \/ LogoutStop(t) \/ LogoutWaited(t) \/ LogoutEmit(t) \/ LogoutGivesUp(t)
      BY <3>3 DEF LogoutClosed, LogoutStop, LogoutWaited, LogoutEmit, LogoutGivesUp, loginVars, supVars, TypeOK
    <3> QED
      BY <1>8, <3>1, <3>2, <3>3 DEF LogoutStep
  <2>5. CASE UNCHANGED busVars
    BY <2>1, <2>2, <2>3, <2>4, <2>5 DEF TypeOK, busVars
  <2>6. CASE Emit("other")
    BY <2>1, <2>2, <2>3, <2>4, <2>6, EmitEffect DEF TypeOK
  <2> QED
    BY <1>8, <2>5, <2>6 DEF Logout, LogoutStep, LogoutGivesUp, LogoutClose, LogoutClosed, LogoutStop,
                            LogoutWaited, LogoutEmit
<1>9. ASSUME UNCHANGED vars PROVE TypeOK'
  BY <1>9 DEF vars, loginVars, supVars, watchVars, busVars, outVars, cacheVars, TypeOK
<1> QED
  BY <1>1, <1>2, <1>3, <1>4, <1>5, <1>6, <1>7, <1>8, <1>9 DEF Next, SessionStep, SupervisorStep, Works

-----------------------------------------------------------------------------
(* Sessions follow one another *)

\* Logout ends the session that could be canceled.
LEMMA LogoutCancels ==
  ASSUME TypeOK, NEW t \in Threads, Logout(t), NEW r \in Sessions, ~ended'[r]
  PROVE  ~ended[r] /\ runCancel # r
<1>1. CancelRun /\ runCancel \in 0 .. MaxLogins /\ ended \in [Sessions -> BOOLEAN]
  BY DEF Logout, TypeOK
<1>2. r # None
  BY DEF Sessions, None
<1>3. CASE runCancel = None
  BY <1>1, <1>2, <1>3 DEF CancelRun
<1>4. CASE runCancel # None
  <2>1. ended' = [ended EXCEPT ![runCancel] = TRUE]
    BY <1>1, <1>4 DEF CancelRun, Ended
  <2> QED
    BY <1>1, <2>1
<1> QED
  BY <1>3, <1>4

\* What is active is the last session.
LEMMA ActiveIsLast ==
  ASSUME Ordered, NEW r \in Sessions, NEW s \in Sessions, Active(s), login[r] # "none"
  PROVE  r <= s
BY DEF Ordered, Sessions

LEMMA OneIsActive ==
  ASSUME Ordered, NEW r \in Sessions, NEW s \in Sessions, Active(s), Active(r)
  PROVE  r = s
BY DEF Ordered, Sessions

\* A Login that is careful meets nothing that lives.
LEMMA LoginMeetsNothing ==
  ASSUME ~Careless, Leaving, NEW s \in Sessions, Login(s)
  PROVE  /\ \A r \in Sessions : Gone(r) /\ ~UnderWay(r)
         /\ watchSub = None /\ runCancel = None /\ \A t \in Threads : out[t] = "idle"
BY DEF Login, Leaving

LEMMA OrderedFrame ==
  ASSUME Ordered,
         \A s \in Sessions : /\ login'[s] = "none" <=> login[s] = "none"
                             /\ Active(s)' => Active(s)
                             /\ ~ended'[s] => ~ended[s] /\ (runCancel = s => runCancel' = s)
  PROVE  Ordered'
BY DEF Ordered

LEMMA OrderedStep ==
  ASSUME ~Careless, TypeOK, Ordered, Leaving, [Next]_vars
  PROVE  Ordered'
<1> USE DEF Active, Gone, Running, Watching, UnderWay
<1>1. ASSUME UNCHANGED <<runCancel, login, ended, sup, watcher>> PROVE Ordered'
  BY <1>1, OrderedFrame
<1>2. ASSUME NEW s \in Sessions, Login(s) PROVE Ordered'
  <2>1. /\ login[s] = "none" /\ \A r \in Sessions : r < s => login[r] # "none"
        /\ runCancel' = s /\ UNCHANGED <<ended, sup, watcher>>
    BY <1>2 DEF Login, At, supVars, watchVars
  <2>2. \A r \in Sessions : login'[r] = IF r = s THEN "auth" ELSE login[r]
    BY <1>2 DEF Login, Goto, TypeOK
  <2>3. \A r \in Sessions : Gone(r) /\ ~UnderWay(r) /\ runCancel = None
    BY <1>2, LoginMeetsNothing
  <2>4. \A r \in Sessions : r > s => login[r] = "none"
    BY <2>1 DEF Ordered, Sessions
  <2>5. \A r \in Sessions : Active(r)' => r = s
    BY <2>1, <2>2, <2>3
  <2>6. ASSUME NEW r \in Sessions, login[r] # "none" PROVE ended[r]
    BY <2>3, <2>6 DEF Ordered, Sessions, None
  <2>7. ASSUME NEW r \in Sessions, NEW q \in Sessions, login'[r] # "none", q < r PROVE login'[q] # "none"
    BY <2>1, <2>2, <2>7 DEF Ordered, Sessions
  <2>8. \A r \in Sessions : r > s => login'[r] = "none"
    BY <2>2, <2>4 DEF Sessions
  <2>9. \A r \in Sessions : login'[r] # "none" /\ ~ended'[r] => runCancel' = r
    BY <2>1, <2>2, <2>6
  <2> QED
    BY <2>1, <2>2, <2>5, <2>7, <2>8, <2>9 DEF Ordered
<1>3. ASSUME NEW s \in Sessions, LoginStep(s) PROVE Ordered'
  <2>1. /\ UNCHANGED <<runCancel, ended>> /\ login[s] \notin {"none", "nil", "error"}
        /\ \A r \in Sessions \ {s} : login'[r] = login[r] /\ sup'[r] = sup[r] /\ watcher'[r] = watcher[r]
    BY <1>3, LoginEffect, LoginAlone
  <2>2. login'[s] # "none"
    BY <1>3, LoginEffect DEF Goto, TypeOK
  <2> QED
    BY <2>1, <2>2, OrderedFrame
<1>4. ASSUME NEW s \in Sessions, ContextEnds(s) PROVE Ordered'
  <2>1. UNCHANGED <<runCancel, login, sup, watcher>> /\ \A r \in Sessions : ended[r] => ended'[r]
    BY <1>4 DEF ContextEnds, Ended, watchVars, TypeOK
  <2> QED
    BY <2>1, OrderedFrame DEF TypeOK
<1>5. ASSUME NEW s \in Sessions, Works(s) PROVE Ordered'
  <2>1. UNCHANGED <<runCancel, login, ended, watcher>>
    BY <1>5 DEF Works, Supervise, Connected, Disconnected, BudgetExceeded, loginVars, watchVars
  <2>2. Running(s) /\ \A r \in Sessions \ {s} : sup'[r] = sup[r]
    BY <1>5, SupervisorEffect
  <2> QED
    BY <2>1, <2>2, OrderedFrame
<1>6. ASSUME NEW s \in Sessions, WatcherStep(s) PROVE Ordered'
  <2>1. UNCHANGED <<runCancel, login, ended, sup>>
    BY <1>6 DEF WatcherStep, WatcherEvent, WatcherResync, WatcherEnds, loginVars, supVars
  <2>2. Watching(s) /\ \A r \in Sessions \ {s} : watcher'[r] = watcher[r]
    BY <1>6 DEF WatcherStep, WatcherEvent, WatcherResync, WatcherEnds, TypeOK
  <2> QED
    BY <2>1, <2>2, OrderedFrame
<1>7. ASSUME NEW t \in Threads, Logout(t) PROVE Ordered'
  <2>1. UNCHANGED <<login, sup, watcher>> /\ runCancel' = None
    BY <1>7 DEF Logout, watchVars
  <2>2. \A r \in Sessions : r # None
    BY DEF Sessions, None
  <2>3. \A r \in Sessions : ~ended'[r] => ~ended[r] /\ runCancel # r
    BY <1>7, <2>2, LogoutCancels
  <2> QED
    BY <2>1, <2>2, <2>3, OrderedFrame
<1>8. ASSUME \/ OtherEvent \/ ChangeMissed
             \/ \E t \in Threads : LogoutStep(t) \/ LogoutGivesUp(t)
             \/ UNCHANGED vars
      PROVE  Ordered'
  <2>1. UNCHANGED <<runCancel, login, ended, sup, watcher>>
    BY <1>8 DEF OtherEvent, ChangeMissed, LogoutStep, LogoutGivesUp, LogoutClose, LogoutClosed, LogoutStop,
                LogoutWaited, LogoutEmit, Session!Cancel, vars, loginVars, supVars, watchVars
  <2> QED
    BY <1>1, <2>1
<1> QED
  BY <1>2, <1>3, <1>4, <1>5, <1>6, <1>7, <1>8 DEF Next, SessionStep, SupervisorStep, Works

-----------------------------------------------------------------------------
(* What Login has done *)

LEMMA PlacedFrame ==
  ASSUME NEW s \in Sessions, Placed(s),
         login'[s] = login[s], sup'[s] = sup[s], conns'[s] = conns[s], watcher'[s] = watcher[s],
         watchSub' = watchSub \/ (login[s] \notin {"auth", "create", "watch"} /\ runCancel' # s)
                              \/ (watchSub' = None /\ runCancel' # s),
         xmppClient' = xmppClient \/ (login[s] \notin {"watch", "connect"} /\ ~Running(s)),
         runCancel' = s => runCancel = s \/ login[s] \in {"none", "auth", "create", "watch", "error"},
         ~ended'[s] => ~ended[s]
  PROVE  Placed(s)'
BY DEF Placed, Running, Watching

LEMMA PreparedStep ==
  ASSUME ~Careless, TypeOK, Ordered, Prepared, Leaving, [Next]_vars
  PROVE  Prepared'
<1>a. ASSUME NEW s \in Sessions, NEW r \in Sessions \ {s}, UnderWay(s)
      PROVE  /\ login[r] \notin {"auth", "create", "watch", "connect", "wait", "party"}
             /\ ~Running(r) /\ runCancel # r /\ ~UnderWay(r)
  <2>1. ~Active(r)
    BY <1>a, OneIsActive DEF Active
  <2> QED
    BY <2>1 DEF Active, UnderWay, Gone
<1>1. ASSUME UNCHANGED <<runCancel, login, ended, sup, conns, watcher, watchSub, xmppClient>>
      PROVE  Prepared'
  BY <1>1 DEF Prepared, Placed, Running, Watching
<1>2. ASSUME NEW s \in Sessions, Login(s) PROVE Prepared'
  <2>1. /\ login[s] = "none" /\ runCancel' = s
        /\ UNCHANGED <<xmppClient, ended, sup, conns, watcher, watchSub>>
    BY <1>2 DEF Login, At, supVars, watchVars
  <2>2. \A r \in Sessions : login'[r] = IF r = s THEN "auth" ELSE login[r]
    BY <1>2 DEF Login, Goto, TypeOK
  <2>3. watchSub = None
    BY <1>2, LoginMeetsNothing
  <2>4. Placed(s)'
    BY <2>1, <2>2, <2>3 DEF Prepared, Placed, Running
  <2>5. ASSUME NEW r \in Sessions \ {s} PROVE Placed(r)'
    BY <2>1, <2>2, PlacedFrame DEF Prepared
  <2> QED
    BY <2>4, <2>5 DEF Prepared
<1>3. ASSUME NEW s \in Sessions, LoginStep(s) PROVE Prepared'
  <2>1. /\ UNCHANGED <<runCancel, ended, conns>> /\ UnderWay(s)
        /\ \A r \in Sessions \ {s} : login'[r] = login[r] /\ sup'[r] = sup[r] /\ watcher'[r] = watcher[r]
    BY <1>3, LoginEffect, LoginAlone DEF UnderWay
  <2>2. ASSUME NEW r \in Sessions \ {s} PROVE Placed(r)'
    <3>1. Placed(r) /\ login[r] \notin {"auth", "create", "watch", "connect"} /\ ~Running(r) /\ runCancel # r
      BY <1>a, <2>1 DEF Prepared
    <3> QED
      BY <2>1, <3>1, PlacedFrame
  <2>3. Placed(s)'
    <3>1. CASE LoginAuth(s)
      <4>1. UNCHANGED <<sup, watcher, watchSub, xmppClient>> /\ login[s] = "auth"
        BY <3>1 DEF LoginAuth, At, LoginOnly, supVars, watchVars
      <4>2. login'[s] \in {"create", "error"}
        BY <3>1 DEF LoginAuth, Goto, Fails, TypeOK
      <4> QED
        BY <2>1, <4>1, <4>2 DEF Prepared, Placed, Running, Watching
    <3>2. CASE LoginCreate(s)
      <4>1. UNCHANGED <<sup, watcher, watchSub>> /\ login[s] = "create"
        BY <3>2 DEF LoginCreate, At, supVars, watchVars
      <4>2. (login'[s] = "watch" /\ xmppClient' = s) \/ (login'[s] = "error" /\ xmppClient' = xmppClient)
        BY <3>2 DEF LoginCreate, Goto, Fails, TypeOK
      <4> QED
        BY <2>1, <4>1, <4>2 DEF Prepared, Placed, Running, Watching
    <3>3. CASE LoginWatch(s)
      <4>1. login[s] = "watch" /\ watchSub = None
        BY <3>3 DEF LoginWatch, At, Prepared, Placed
      <4>2. UNCHANGED <<sup, xmppClient>> /\ login'[s] = "connect" /\ watcher'[s] = "select" /\ watchSub' = s
        BY <3>3, <4>1 DEF LoginWatch, Goto, supVars, TypeOK
      <4> QED
        BY <2>1, <4>1, <4>2 DEF Prepared, Placed, Running, Watching
    <3>4. CASE LoginConnect(s)
      <4>1. login[s] = "connect" /\ login'[s] = "wait" /\ UNCHANGED <<watcher, watchSub, xmppClient>>
        BY <3>4 DEF LoginConnect, At, Goto, watchVars, TypeOK
      <4> QED
        BY <2>1, <4>1 DEF Prepared, Placed, Running, Watching
    <3>5. CASE LoginEvent(s) \/ LoginDone(s) \/ LoginParty(s)
      <4>1. UNCHANGED <<sup, watcher, watchSub, xmppClient>> /\ login[s] \in {"wait", "party"}
        BY <3>5 DEF LoginEvent, LoginDone, LoginParty, At, LoginOnly, supVars, watchVars
      <4>2. login'[s] \in {"wait", "party", "nil", "error"}
        BY <3>5, <4>1 DEF LoginEvent, LoginDone, LoginParty, Goto, Fails, TypeOK
      <4> QED
        BY <2>1, <4>1, <4>2 DEF Prepared, Placed, Running, Watching
    <3> QED
      BY <1>3, <3>1, <3>2, <3>3, <3>4, <3>5 DEF LoginStep
  <2> QED
    BY <2>2, <2>3 DEF Prepared
<1>4. ASSUME NEW s \in Sessions, ContextEnds(s) PROVE Prepared'
  <2>1. /\ UNCHANGED <<runCancel, login, sup, conns, watcher, watchSub, xmppClient>>
        /\ \A r \in Sessions : ~ended'[r] => ~ended[r]
    BY <1>4 DEF ContextEnds, Ended, watchVars, TypeOK
  <2> QED
    BY <2>1, PlacedFrame DEF Prepared
<1>5. ASSUME NEW s \in Sessions, Works(s) PROVE Prepared'
  <2>1. UNCHANGED <<runCancel, login, ended, watcher, watchSub, xmppClient>>
    BY <1>5 DEF Works, Supervise, Connected, Disconnected, BudgetExceeded, loginVars, watchVars
  <2>2. Running(s) /\ \A r \in Sessions \ {s} : sup'[r] = sup[r] /\ conns'[r] = conns[r]
    <3>1. \A r \in Sessions \ {s} : conns'[r] = conns[r]
      <4>1. Connected(s) => conns' = [conns EXCEPT ![s] = @ + 1]
        BY DEF Connected
      <4>2. ~Connected(s) => conns' = conns
        BY <1>5, SupervisorEffect
      <4> QED
        BY <4>1, <4>2 DEF TypeOK
    <3> QED
      BY <1>5, <3>1, SupervisorEffect
  <2>3. login[s] \notin {"none", "auth", "create", "watch", "connect"} /\ xmppClient = s /\ Placed(s)
    BY <2>2 DEF Prepared, Placed, Running, Session!Alive
  <2>4. Placed(s)'
    BY <2>1, <2>3 DEF Placed, Watching
  <2>5. ASSUME NEW r \in Sessions \ {s} PROVE Placed(r)'
    BY <2>1, <2>2, PlacedFrame DEF Prepared
  <2> QED
    BY <2>4, <2>5 DEF Prepared
<1>6. ASSUME NEW s \in Sessions, WatcherStep(s) PROVE Prepared'
  <2>1. UNCHANGED <<runCancel, login, ended, sup, conns, watchSub, xmppClient>>
    BY <1>6 DEF WatcherStep, WatcherEvent, WatcherResync, WatcherEnds, loginVars, supVars
  <2>2. Watching(s) /\ \A r \in Sessions \ {s} : watcher'[r] = watcher[r]
    BY <1>6 DEF WatcherStep, WatcherEvent, WatcherResync, WatcherEnds, Watching, TypeOK
  <2>3. Watching(s)' \/ Over(s)
    BY <1>6 DEF WatcherStep, WatcherEvent, WatcherResync, WatcherEnds, OnConnected, Watching, TypeOK
  <2>4. Placed(s) /\ (Over(s) => ended[s] \/ watchSub # s)
    BY DEF Prepared, Over
  <2>5. Placed(s)'
    BY <2>1, <2>2, <2>3, <2>4 DEF Placed, Watching, Running
  <2>6. ASSUME NEW r \in Sessions \ {s} PROVE Placed(r)'
    BY <2>1, <2>2, PlacedFrame DEF Prepared
  <2> QED
    BY <2>5, <2>6 DEF Prepared
<1>7. ASSUME NEW t \in Threads, Logout(t) PROVE Prepared'
  <2>1. UNCHANGED <<login, sup, conns, watcher, watchSub, xmppClient>> /\ runCancel' = None
    BY <1>7 DEF Logout, watchVars
  <2>2. \A r \in Sessions : runCancel' # r /\ (~ended'[r] => ~ended[r])
    BY <1>7, <2>1, LogoutCancels DEF Sessions, None
  <2> QED
    BY <2>1, <2>2, PlacedFrame DEF Prepared
<1>8. ASSUME NEW t \in Threads, LogoutStop(t) PROVE Prepared'
  <2>1. UNCHANGED <<runCancel, login, ended, sup, conns, watcher, xmppClient>> /\ watchSub' = None
    BY <1>8 DEF LogoutStop, Unwatch, loginVars, supVars
  <2>2. runCancel = None /\ \A r \in Sessions : runCancel # r
    BY <1>8 DEF LogoutStop, Leaving, Sessions, None
  <2> QED
    BY <2>1, <2>2, PlacedFrame DEF Prepared
<1>9. ASSUME \/ OtherEvent \/ ChangeMissed
             \/ \E t \in Threads : \/ LogoutClose(t) \/ LogoutClosed(t) \/ LogoutWaited(t)
                                   \/ LogoutEmit(t) \/ LogoutGivesUp(t)
             \/ UNCHANGED vars
      PROVE  Prepared'
  <2>1. UNCHANGED <<runCancel, login, ended, sup, conns, watcher, watchSub, xmppClient>>
    BY <1>9 DEF OtherEvent, ChangeMissed, LogoutGivesUp, LogoutClose, LogoutClosed,
                LogoutWaited, LogoutEmit, Session!Cancel, vars, loginVars, supVars, watchVars
  <2> QED
    BY <1>1, <2>1
<1> QED
  BY <1>2, <1>3, <1>4, <1>5, <1>6, <1>7, <1>8, <1>9 DEF Next, SessionStep, SupervisorStep, LogoutStep, Works

-----------------------------------------------------------------------------
(* Login hears of its own connections *)

LEMMA HeardFrame ==
  ASSUME TypeOK, Heard, login' = login, NEW e \in Events,
         inbox' = inbox \/ (inbox' = Append(inbox, e) /\ \E s \in Sessions : login[s] = "wait"),
         \A s \in Sessions : conns[s] > 0 => conns'[s] > 0,
         \A s \in Sessions : e = "connected" /\ login[s] = "wait" => conns'[s] > 0
  PROVE  Heard'
<1>1. EnsureAfterConnect'
  BY DEF Heard, EnsureAfterConnect
<1>2. CASE inbox' = inbox
  BY <1>1, <1>2 DEF Heard
<1>3. CASE inbox' = Append(inbox, e) /\ \E s \in Sessions : login[s] = "wait"
  <2>1. inbox \in Seq(Events)
    BY DEF TypeOK, Events
  <2>2. \A i \in 1 .. Len(inbox') : inbox'[i] = e \/ (i \in 1 .. Len(inbox) /\ inbox'[i] = inbox[i])
    BY <1>3, <2>1
  <2>3. ASSUME NEW s \in Sessions, NEW i \in 1 .. Len(inbox'), login'[s] = "wait", inbox'[i] = "connected"
        PROVE  conns'[s] > 0
    BY <2>2, <2>3 DEF Heard
  <2> QED
    BY <1>1, <1>3, <2>3 DEF Heard
<1> QED
  BY <1>2, <1>3

LEMMA HeardStep ==
  ASSUME ~Careless, TypeOK, Ordered, Heard, Leaving, [Next]_vars
  PROVE  Heard'
<1>a. ASSUME NEW s \in Sessions, UnderWay(s), login[s] # "wait" PROVE inbox = <<>>
  <2>1. \A r \in Sessions : login[r] = "wait" => r = s
    BY <1>a, OneIsActive DEF Active, UnderWay
  <2> QED
    BY <1>a, <2>1 DEF Heard
<1>b. ASSUME UNCHANGED <<login, conns>>, NEW e \in Events \ {"connected"},
             inbox' = inbox \/ (inbox' = Append(inbox, e) /\ \E s \in Sessions : login[s] = "wait")
      PROVE  Heard'
  BY <1>b, HeardFrame
<1>c. "other" \in Events \ {"connected"} /\ "fatal" \in Events \ {"connected"}
      /\ "other" \in Events /\ "connected" \in Events
  BY DEF Events
<1>1. ASSUME NEW s \in Sessions, Login(s) PROVE Heard'
  <2>1. UNCHANGED <<conns, inbox>> /\ \A r \in Sessions : login'[r] = IF r = s THEN "auth" ELSE login[r]
    BY <1>1 DEF Login, Goto, supVars, busVars, TypeOK
  <2>2. \A r \in Sessions : login[r] # "wait"
    BY <1>1, LoginMeetsNothing DEF UnderWay
  <2>3. inbox = <<>>
    BY <2>2 DEF Heard
  <2> QED
    BY <2>1, <2>2, <2>3 DEF Heard, EnsureAfterConnect
<1>2. ASSUME NEW s \in Sessions, LoginStep(s) PROVE Heard'
  <2>1. UNCHANGED conns /\ UnderWay(s) /\ \A r \in Sessions \ {s} : login'[r] = login[r] /\ login[r] # "wait"
    <3>1. UNCHANGED conns /\ UnderWay(s)
      BY <1>2, LoginEffect DEF UnderWay
    <3>2. \A r \in Sessions \ {s} : login[r] # "wait"
      BY <3>1, OneIsActive DEF Active, UnderWay
    <3> QED
      BY <1>2, <3>1, <3>2, LoginAlone
  <2>2. ASSUME inbox' = <<>>, login'[s] \in {"party", "nil"} => conns[s] > 0 PROVE Heard'
    BY <2>1, <2>2 DEF Heard, EnsureAfterConnect
  <2>3. CASE LoginAuth(s) \/ LoginCreate(s) \/ LoginWatch(s) \/ LoginConnect(s)
    <3>1. login[s] # "wait" /\ (inbox' = inbox \/ inbox' = <<>>)
      BY <2>3 DEF LoginAuth, LoginCreate, LoginWatch, LoginConnect, At, Fails, busVars
    <3>2. login'[s] \in {"create", "watch", "connect", "wait", "error"}
      BY <2>3 DEF LoginAuth, LoginCreate, LoginWatch, LoginConnect, Goto, Fails, TypeOK
    <3> QED
      BY <1>a, <2>1, <2>2, <3>1, <3>2
  <2>4. CASE LoginEvent(s)
    <3>1. login[s] = "wait" /\ inbox # <<>> /\ inbox \in Seq(Events)
      BY <2>4 DEF LoginEvent, At, TypeOK, Events
    <3>2. CASE Head(inbox) = "connected" /\ Goto(s, "party") /\ inbox' = <<>>
      <4>1. 1 \in 1 .. Len(inbox) /\ inbox[1] = Head(inbox)
        BY <3>1
      <4>2. conns[s] > 0
        BY <3>1, <3>2, <4>1 DEF Heard
      <4> QED
        BY <2>2, <3>2, <4>2
    <3>3. CASE Fails(s)
      <4>1. login'[s] = "error" /\ inbox' = <<>>
        BY <3>3 DEF Fails, Goto, TypeOK
      <4> QED
        BY <2>2, <4>1
    <3>4. CASE inbox' = Tail(inbox) /\ UNCHANGED login
      <4>1. \A i \in 1 .. Len(inbox') : i + 1 \in 1 .. Len(inbox) /\ inbox'[i] = inbox[i + 1]
        BY <3>1, <3>4
      <4> QED
        BY <2>1, <3>1, <3>4, <4>1 DEF Heard, EnsureAfterConnect
    <3> QED
      BY <2>4, <3>2, <3>3, <3>4 DEF LoginEvent
  <2>5. CASE LoginParty(s)
    <3>1. inbox = <<>> /\ conns[s] > 0
      BY <1>a, <2>1, <2>5 DEF LoginParty, At, Heard, EnsureAfterConnect
    <3>2. \A r \in Sessions : login[r] # "wait"
      BY <2>1, <2>5 DEF LoginParty, At
    <3>3. inbox' = <<>>
      <4>1. Emit("other") => inbox' = inbox
        BY <3>2 DEF Emit
      <4> QED
        BY <2>5, <3>1, <4>1 DEF LoginParty, Fails
    <3> QED
      BY <2>2, <3>1, <3>3
  <2>6. CASE LoginDone(s)
    <3>1. login'[s] = "error" /\ inbox' = <<>>
      BY <2>6 DEF LoginDone, Fails, Goto, TypeOK
    <3> QED
      BY <2>2, <3>1
  <2> QED
    BY <1>2, <2>3, <2>4, <2>5, <2>6 DEF LoginStep
<1>3. ASSUME NEW s \in Sessions, Works(s), ~Connected(s) PROVE Heard'
  <2>1. UNCHANGED <<login, conns>>
    BY <1>3, SupervisorEffect DEF Works, Supervise, Disconnected, BudgetExceeded, loginVars
  <2>2. UNCHANGED inbox \/ Emit("other") \/ Emit("fatal")
    BY <1>3 DEF Works, Supervise, Disconnected, BudgetExceeded, busVars
  <2> QED
    BY <1>b, <1>c, <2>1, <2>2, EmitEffect
<1>4. ASSUME NEW s \in Sessions, Connected(s) PROVE Heard'
  <2>1. login' = login /\ Emit("connected") /\ conns' = [conns EXCEPT ![s] = @ + 1] /\ conns \in [Sessions -> Nat]
    BY <1>4 DEF Connected, loginVars, TypeOK
  <2>2. conns'[s] > 0 /\ \A r \in Sessions : conns[r] > 0 => conns'[r] > 0
    BY <2>1
  <2>3. Running(s)
    BY <1>4, SupervisorEffect DEF Works
  <2>4. \A r \in Sessions : login[r] = "wait" => r = s
    BY <2>3, OneIsActive DEF Active, UnderWay, Gone
  <2> QED
    BY <1>c, <2>1, <2>2, <2>4, EmitEffect, HeardFrame
<1>5. ASSUME \/ OtherEvent
             \/ \E s \in Sessions : WatcherResync(s)
             \/ \E t \in Threads : LogoutEmit(t)
      PROVE  Heard'
  <2>1. UNCHANGED <<login, conns>> /\ Emit("other")
    BY <1>5 DEF OtherEvent, WatcherResync, LogoutEmit, loginVars, supVars
  <2> QED
    BY <1>b, <1>c, <2>1, EmitEffect
<1>6. ASSUME \/ ChangeMissed
             \/ \E s \in Sessions : ContextEnds(s) \/ WatcherEvent(s) \/ WatcherEnds(s)
             \/ \E t \in Threads : \/ Logout(t) \/ LogoutClose(t) \/ LogoutClosed(t) \/ LogoutStop(t)
                                   \/ LogoutWaited(t) \/ LogoutGivesUp(t)
             \/ UNCHANGED vars
      PROVE  Heard'
  <2>1. UNCHANGED <<login, conns, inbox>>
    BY <1>6 DEF ChangeMissed, ContextEnds, WatcherEvent, WatcherEnds, Logout, LogoutGivesUp, LogoutClose,
                LogoutClosed, LogoutStop, LogoutWaited, vars, loginVars, supVars, busVars
  <2> QED
    BY <2>1 DEF Heard, EnsureAfterConnect
<1> QED
  BY <1>1, <1>2, <1>3, <1>4, <1>5, <1>6
     DEF Next, SessionStep, SupervisorStep, WatcherStep, LogoutStep, Works

-----------------------------------------------------------------------------
(* How far a Logout has come *)

LEMMA LeavingFrame ==
  ASSUME Leaving, UNCHANGED <<runCancel, out, arg, xmppClient, watchSub, rough>>,
         \A s \in Sessions : /\ UnderWay(s)' => UnderWay(s)
                             /\ Running(s)' => Running(s)
                             /\ Watching(s)' => Watching(s)
  PROVE  Leaving'
BY DEF Leaving, Gone

\* The steps of one Logout, nobody else being in one.
LEMMA LeavingStage ==
  ASSUME Leaving, NEW t \in Threads, out[t] # "idle", out'[t] # "idle",
         \A u \in Threads \ {t} : out'[u] = out[u] /\ arg'[u] = arg[u],
         UNCHANGED <<runCancel, xmppClient, login, sup, watcher, rough>>,
         ~rough =>
           /\ out'[t] = "closing" => arg'[t] = xmppClient
           /\ out'[t] \in {"stop", "wait", "emit"} => \A s \in Sessions : ~Running(s)
           /\ out'[t] \in {"wait", "emit"} => watchSub' = None
           /\ out'[t] = "emit" => \A s \in Sessions : ~Watching(s)
           /\ watchSub' = None => \/ \A s \in Sessions : ~Watching(s)
                                  \/ out'[t] = "wait"
  PROVE  Leaving'
<1>1. \A s \in Sessions : /\ UnderWay(s)' = UnderWay(s) /\ Running(s)' = Running(s)
                          /\ Watching(s)' = Watching(s)
  BY DEF UnderWay, Running, Watching
<1>2. runCancel' = None /\ \A u \in Threads : out'[u] # "idle" => out[u] # "idle"
  BY DEF Leaving
<1>3. ~rough => \A u \in Threads \ {t} : out'[u] = "idle"
  BY DEF Leaving
<1> QED
  BY <1>1, <1>2, <1>3 DEF Leaving

LEMMA LeavingStep ==
  ASSUME ~Careless, TypeOK, Prepared, Leaving, [Next]_vars
  PROVE  Leaving'
<1>a. ASSUME ~rough, NEW t \in Threads, out[t] # "idle"
      PROVE  /\ \A u \in Threads \ {t} : out[u] = "idle"
             /\ watchSub = None /\ out[t] # "wait" => \A s \in Sessions : ~Watching(s)
  BY <1>a DEF Leaving
<1>b. None \notin Sessions
  BY DEF Sessions, None
<1>1. ASSUME NEW s \in Sessions, Login(s) PROVE Leaving'
  <2>1. runCancel' # None /\ \A t \in Threads : out[t] = "idle"
    BY <1>1, <1>b, LoginMeetsNothing DEF Login
  <2>2. UNCHANGED <<xmppClient, sup, watcher, watchSub, out, arg, rough>>
    BY <1>1 DEF Login, supVars, watchVars, outVars
  <2>3. \A r \in Sessions : ~Watching(r)'
    BY <1>1, <2>2, LoginMeetsNothing DEF Gone, Watching
  <2> QED
    BY <2>1, <2>2, <2>3 DEF Leaving
<1>2. ASSUME NEW s \in Sessions, LoginStep(s) PROVE Leaving'
  <2>1. UNCHANGED <<runCancel, out, arg, rough>> /\ UnderWay(s)
    BY <1>2, LoginEffect DEF outVars, UnderWay
  <2>2. CASE rough
    BY <2>1, <2>2 DEF Leaving
  <2>3. CASE ~rough
    <3>1. runCancel # None /\ \A t \in Threads : out[t] = "idle"
      BY <2>1, <2>3 DEF Leaving
    <3>2. watchSub' = None => watchSub = None /\ watcher' = watcher
      BY <1>2, <1>b DEF LoginStep, LoginAuth, LoginCreate, LoginWatch, LoginConnect, LoginEvent, LoginParty,
                        LoginDone, LoginOnly, watchVars
    <3>3. watchSub' = None => \A r \in Sessions : ~Watching(r)'
      BY <2>3, <3>1, <3>2 DEF Leaving, Watching
    <3> QED
      BY <2>1, <3>1, <3>3 DEF Leaving
  <2> QED
    BY <2>2, <2>3
<1>3. ASSUME NEW s \in Sessions, Works(s) PROVE Leaving'
  <2>1. UNCHANGED <<runCancel, xmppClient, login, watcher, watchSub, out, arg, rough>>
    BY <1>3 DEF Works, Supervise, Connected, Disconnected, BudgetExceeded, loginVars, watchVars, outVars
  <2>2. Running(s) /\ \A r \in Sessions \ {s} : sup'[r] = sup[r]
    BY <1>3, SupervisorEffect
  <2>3. \A r \in Sessions : Running(r)' => Running(r)
    BY <2>2 DEF Running
  <2> QED
    BY <2>1, <2>3, LeavingFrame DEF UnderWay, Watching
<1>4. ASSUME NEW s \in Sessions, WatcherStep(s) PROVE Leaving'
  <2>1. UNCHANGED <<runCancel, xmppClient, login, sup, watchSub, out, arg, rough>>
    BY <1>4 DEF WatcherStep, WatcherEvent, WatcherResync, WatcherEnds, loginVars, supVars, outVars
  <2>2. \A r \in Sessions : Watching(r)' => Watching(r)
    BY <1>4 DEF WatcherStep, WatcherEvent, WatcherResync, WatcherEnds, Watching, TypeOK
  <2> QED
    BY <2>1, <2>2, LeavingFrame DEF UnderWay, Running
<1>5. ASSUME NEW t \in Threads, Logout(t) PROVE Leaving'
  <2>1. UNCHANGED <<xmppClient, login, sup, watcher, watchSub, arg>> /\ runCancel' = None /\ out[t] = "idle"
    BY <1>5 DEF Logout, watchVars
  <2>2. \A u \in Threads : out'[u] = IF u = t THEN "close" ELSE out[u]
    BY <1>5 DEF Logout, TypeOK
  <2>3. ASSUME ~rough'
        PROVE  ~rough /\ (\A s \in Sessions : ~UnderWay(s)) /\ \A u \in Threads \ {t} : out[u] = "idle"
    BY <1>5, <2>3 DEF Logout
  <2>4. \A s \in Sessions : UnderWay(s)' = UnderWay(s) /\ Watching(s)' = Watching(s)
    BY <2>1 DEF UnderWay, Watching
  <2>5. ASSUME ~rough', watchSub = None PROVE \A s \in Sessions : ~Watching(s)
    BY <2>1, <2>3, <2>5 DEF Leaving
  <2> QED
    BY <2>1, <2>2, <2>3, <2>4, <2>5 DEF Leaving
<1>6. ASSUME NEW t \in Threads, LogoutClose(t) PROVE Leaving'
  <2>1. out[t] = "close" /\ UNCHANGED <<runCancel, xmppClient, login, sup, watcher, watchSub, rough>>
    BY <1>6 DEF LogoutClose, Session!Cancel, loginVars, watchVars
  <2>2. \A u \in Threads \ {t} : out'[u] = out[u] /\ arg'[u] = arg[u]
    BY <1>6 DEF LogoutClose, TypeOK
  <2>3. \/ out'[t] = "closing" /\ arg'[t] = xmppClient
        \/ out'[t] = "stop" /\ \A s \in Sessions : ~Running(s)
    <3>1. CASE xmppClient # None /\ Running(xmppClient)
      BY <1>6, <3>1 DEF LogoutClose, TypeOK
    <3>2. CASE ~(xmppClient # None /\ Running(xmppClient))
      BY <1>6, <1>b, <3>2 DEF LogoutClose, Prepared, Placed, TypeOK
    <3> QED
      BY <3>1, <3>2
  <2> QED
    BY <1>a, <2>1, <2>2, <2>3, LeavingStage
<1>7. ASSUME NEW t \in Threads, LogoutClosed(t) PROVE Leaving'
  <2>1. /\ out[t] = "closing" /\ ~Running(arg[t])
        /\ UNCHANGED <<runCancel, xmppClient, login, sup, watcher, watchSub, arg, rough>>
    BY <1>7 DEF LogoutClosed, Closed, loginVars, supVars, watchVars
  <2>2. \A u \in Threads : out'[u] = IF u = t THEN "stop" ELSE out[u]
    BY <1>7 DEF LogoutClosed, TypeOK
  <2>3. ~rough => \A s \in Sessions : ~Running(s)
    BY <2>1 DEF Leaving, Prepared, Placed
  <2> QED
    BY <1>a, <2>1, <2>2, <2>3, LeavingStage
<1>8. ASSUME NEW t \in Threads, LogoutGivesUp(t) PROVE Leaving'
  <2>1. rough' = TRUE /\ runCancel' = runCancel
    BY <1>8 DEF LogoutGivesUp, loginVars
  <2>2. \A u \in Threads : out'[u] # "idle" => out[u] # "idle"
    BY <1>8 DEF LogoutGivesUp, TypeOK
  <2> QED
    BY <2>1, <2>2 DEF Leaving
<1>9. ASSUME NEW t \in Threads, LogoutStop(t) PROVE Leaving'
  <2>1. /\ out[t] = "stop" /\ watchSub' = None
        /\ UNCHANGED <<runCancel, xmppClient, login, sup, watcher, arg, rough>>
    BY <1>9 DEF LogoutStop, Unwatch, loginVars, supVars
  <2>2. \A u \in Threads : out'[u] = IF u # t THEN out[u] ELSE IF watchSub # None THEN "wait" ELSE "emit"
    BY <1>9 DEF LogoutStop, TypeOK
  <2>3. ~rough => \A s \in Sessions : ~Running(s)
    BY <2>1 DEF Leaving
  <2> QED
    BY <1>a, <2>1, <2>2, <2>3, LeavingStage
<1>10. ASSUME NEW t \in Threads, LogoutWaited(t) PROVE Leaving'
  <2>1. /\ out[t] = "wait" /\ \A s \in Sessions : ~Watching(s)
        /\ UNCHANGED <<runCancel, xmppClient, login, sup, watcher, watchSub, arg, rough>>
    BY <1>10 DEF LogoutWaited, WatcherGone, loginVars, supVars, watchVars
  <2>2. \A u \in Threads : out'[u] = IF u = t THEN "emit" ELSE out[u]
    BY <1>10 DEF LogoutWaited, TypeOK
  <2>3. ~rough => watchSub = None /\ \A s \in Sessions : ~Running(s)
    BY <2>1 DEF Leaving
  <2> QED
    BY <2>1, <2>2, <2>3, LeavingStage
<1>11. ASSUME NEW t \in Threads, LogoutEmit(t) PROVE Leaving'
  <2>1. /\ out[t] = "emit"
        /\ UNCHANGED <<runCancel, xmppClient, login, sup, watcher, watchSub, arg, rough>>
    BY <1>11 DEF LogoutEmit, loginVars, supVars, watchVars
  <2>2. \A u \in Threads : out'[u] = IF u = t THEN "idle" ELSE out[u]
    BY <1>11 DEF LogoutEmit, TypeOK
  <2>3. \A s \in Sessions : /\ UnderWay(s)' = UnderWay(s) /\ Running(s)' = Running(s)
                            /\ Watching(s)' = Watching(s)
    BY <2>1 DEF UnderWay, Running, Watching
  <2>4. ~rough => watchSub = None /\ \A s \in Sessions : ~Running(s) /\ ~Watching(s)
    BY <2>1 DEF Leaving
  <2> QED
    BY <2>1, <2>2, <2>3, <2>4 DEF Leaving, Gone
<1>12. ASSUME \/ OtherEvent \/ ChangeMissed
              \/ \E s \in Sessions : ContextEnds(s)
              \/ UNCHANGED vars
       PROVE  Leaving'
  <2>1. UNCHANGED <<runCancel, xmppClient, login, sup, watcher, watchSub, out, arg, rough>>
    BY <1>12 DEF OtherEvent, ChangeMissed, ContextEnds, vars, loginVars, supVars, watchVars, outVars
  <2> QED
    BY <2>1, LeavingFrame DEF UnderWay, Running, Watching
<1> QED
  BY <1>1, <1>2, <1>3, <1>4, <1>5, <1>6, <1>7, <1>8, <1>9, <1>10, <1>11, <1>12
     DEF Next, SessionStep, SupervisorStep, LogoutStep, Works

-----------------------------------------------------------------------------
(* The watcher is told of what it has to read again *)

LEMMA SeenAppend ==
  ASSUME NEW s \in Sessions, watched[s] \in Seq(Events), NEW d, watched'[s] = Append(watched[s], d),
         seenConnected'[s] = seenConnected[s]
  PROVE  /\ Seen(s) \/ d = "connected" => Seen(s)'
         /\ Due(s) \/ (Seen(s) /\ d = "connected") => Due(s)'
<1>1. /\ Len(watched[s]) \in Nat /\ Len(watched'[s]) = Len(watched[s]) + 1
      /\ watched'[s][Len(watched[s]) + 1] = d
      /\ \A i \in 1 .. Len(watched[s]) : watched'[s][i] = watched[s][i]
  OBVIOUS
<1>2. Seen(s) \/ d = "connected" => Seen(s)'
  BY <1>1 DEF Seen
<1>3. ASSUME Due(s) PROVE Due(s)'
  <2>1. PICK i \in 1 .. Len(watched[s]) :
          /\ watched[s][i] = "connected"
          /\ seenConnected[s] \/ \E j \in 1 .. i - 1 : watched[s][j] = "connected"
    BY <1>3 DEF Due
  <2>2. \A j \in 1 .. i : j \in 1 .. Len(watched[s]) /\ watched'[s][j] = watched[s][j]
    BY <1>1
  <2>3. seenConnected'[s] \/ \E j \in 1 .. i - 1 : watched'[s][j] = "connected"
    BY <2>1, <2>2
  <2> QED
    BY <1>1, <2>1, <2>2, <2>3 DEF Due
<1>4. ASSUME Seen(s), d = "connected" PROVE Due(s)'
  <2> DEFINE i == Len(watched[s]) + 1
  <2>1. i \in 1 .. Len(watched'[s]) /\ watched'[s][i] = "connected"
    BY <1>1, <1>4
  <2>2. seenConnected'[s] \/ \E j \in 1 .. i - 1 : watched'[s][j] = "connected"
    BY <1>1, <1>4 DEF Seen
  <2> QED
    BY <2>1, <2>2 DEF Due
<1> QED
  BY <1>2, <1>3, <1>4

LEMMA SeenTail ==
  ASSUME NEW s \in Sessions, watched[s] \in Seq(Events), watched[s] # <<>>, watched'[s] = Tail(watched[s]),
         seenConnected[s] \in BOOLEAN,
         IF Head(watched[s]) = "connected" THEN seenConnected'[s] ELSE seenConnected'[s] = seenConnected[s]
  PROVE  /\ Seen(s) => Seen(s)'
         /\ Due(s) => Due(s)' \/ (seenConnected[s] /\ Head(watched[s]) = "connected")
<1>1. /\ Len(watched[s]) \in Nat \ {0} /\ Len(watched'[s]) = Len(watched[s]) - 1
      /\ Head(watched[s]) = watched[s][1]
      /\ \A i \in 2 .. Len(watched[s]) : i - 1 \in 1 .. Len(watched'[s]) /\ watched'[s][i - 1] = watched[s][i]
  OBVIOUS
<1>2. ASSUME Seen(s) PROVE Seen(s)'
  <2>1. CASE seenConnected[s] \/ watched[s][1] = "connected"
    BY <1>1, <2>1 DEF Seen
  <2>2. CASE \E i \in 2 .. Len(watched[s]) : watched[s][i] = "connected"
    BY <1>1, <2>2 DEF Seen
  <2> QED
    BY <1>1, <1>2, <2>1, <2>2 DEF Seen
<1>3. ASSUME Due(s), ~(seenConnected[s] /\ watched[s][1] = "connected") PROVE Due(s)'
  <2>1. PICK i \in 1 .. Len(watched[s]) :
          /\ watched[s][i] = "connected"
          /\ seenConnected[s] \/ \E j \in 1 .. i - 1 : watched[s][j] = "connected"
    BY <1>3 DEF Due
  <2>2. i \in 2 .. Len(watched[s])
    BY <1>1, <1>3, <2>1
  <2>3. i - 1 \in 1 .. Len(watched'[s]) /\ watched'[s][i - 1] = "connected"
    BY <1>1, <2>1, <2>2
  <2>4. seenConnected'[s] \/ \E j \in 1 .. (i - 1) - 1 : watched'[s][j] = "connected"
    <3>1. CASE seenConnected[s] \/ watched[s][1] = "connected"
      BY <1>1, <3>1
    <3>2. ASSUME NEW j \in 1 .. i - 1, watched[s][j] = "connected", watched[s][1] # "connected"
          PROVE  \E k \in 1 .. (i - 1) - 1 : watched'[s][k] = "connected"
      <4>1. j \in 2 .. Len(watched[s]) /\ j - 1 \in 1 .. (i - 1) - 1
        BY <1>1, <2>2, <3>2
      <4>2. watched'[s][j - 1] = "connected"
        BY <1>1, <3>2, <4>1
      <4> QED
        BY <4>1, <4>2
    <3> QED
      BY <2>1, <3>1, <3>2
  <2> QED
    BY <2>3, <2>4 DEF Due
<1> QED
  BY <1>1, <1>2, <1>3

\* An event for the watcher takes nothing away from it.
LEMMA SeenEmit ==
  ASSUME TypeOK, NEW s \in Sessions, NEW e \in Events, Emit(e), seenConnected'[s] = seenConnected[s]
  PROVE  /\ (Seen(s) => Seen(s)') /\ (Due(s) => Due(s)') /\ (~missed' => ~missed)
         /\ watchSub = s /\ Watching(s) /\ e = "connected" /\ ~missed' =>
              Seen(s)' /\ (Seen(s) => Due(s)')
<1>1. watched[s] \in Seq(Events)
  BY DEF TypeOK, Events
<1>2. ~missed' => ~missed
  BY EmitEffect
<1>3. CASE watched'[s] = watched[s]
  <2>1. Seen(s)' = Seen(s) /\ Due(s)' = Due(s)
    BY <1>3 DEF Seen, Due
  <2>2. watched'[s] # Append(watched[s], "connected")
    BY <1>1, <1>3
  <2>3. ~(watchSub = s /\ Watching(s) /\ e = "connected" /\ ~missed')
    BY <2>2, EmitEffect
  <2> QED
    BY <1>2, <2>1, <2>3
<1>4. ASSUME NEW d \in Events, watched'[s] = Append(watched[s], d)
      PROVE  /\ (Seen(s) => Seen(s)') /\ (Due(s) => Due(s)')
             /\ watchSub = s /\ Watching(s) /\ e = "connected" /\ ~missed' =>
                  Seen(s)' /\ (Seen(s) => Due(s)')
  <2>1. (Seen(s) => Seen(s)') /\ (Due(s) => Due(s)')
    BY <1>1, <1>4, SeenAppend
  <2>2. ASSUME watchSub = s, Watching(s), e = "connected", ~missed'
        PROVE  Seen(s)' /\ (Seen(s) => Due(s)')
    <3>1. watched'[s] = Append(watched[s], "connected")
      BY <2>2, EmitEffect
    <3> QED
      BY <1>1, <3>1, SeenAppend
  <2> QED
    BY <2>1, <2>2
<1> QED
  BY <1>2, <1>3, <1>4, EmitEffect

LEMMA HeedsFrame ==
  ASSUME NEW s \in Sessions, Heeds(s),
         login'[s] = login[s], conns'[s] = conns[s],
         ~ended'[s] => ~ended[s], ~missed' => ~missed, sup'[s] = "up" => sup[s] = "up",
         Seen(s) => Seen(s)', Due(s) => Due(s)',
         UNCHANGED <<stale, told>>, watcher[s] = "resync" => watcher'[s] = "resync"
  PROVE  Heeds(s)'
BY DEF Heeds, Current

LEMMA ResyncingStep ==
  ASSUME ~Careless, TypeOK, Ordered, Prepared, Heard, Resyncing, [Next]_vars
  PROVE  Resyncing'
<1>a. ASSUME NEW r \in Sessions, Current(r) PROVE runCancel = r /\ Active(r)
  BY <1>a DEF Current, Ordered, Active
<1>b. ASSUME NEW r \in Sessions, UNCHANGED <<watched, seenConnected>>
      PROVE  Seen(r)' = Seen(r) /\ Due(r)' = Due(r)
  BY <1>b DEF Seen, Due
<1>c. ASSUME NEW s \in Sessions, Active(s), NEW r \in Sessions \ {s},
             login'[r] = login[r], ~ended'[r] => ~ended[r]
      PROVE  Heeds(r)'
  <2>1. ~Current(r)
    BY <1>a, <1>c, OneIsActive
  <2> QED
    BY <1>c, <2>1 DEF Heeds, Current
<1>d. "other" \in Events /\ "fatal" \in Events /\ "connected" \in Events
  BY DEF Events
<1>1. ASSUME NEW s \in Sessions, Login(s) PROVE Resyncing'
  <2>1. /\ UNCHANGED <<ended, sup, conns, watched, missed, watcher, seenConnected, stale, told>>
        /\ \A r \in Sessions : login'[r] = IF r = s THEN "auth" ELSE login[r]
    BY <1>1 DEF Login, Goto, supVars, busVars, watchVars, cacheVars, TypeOK
  <2>2. Heeds(s)'
    BY <2>1 DEF Heeds, Current
  <2>3. ASSUME NEW r \in Sessions \ {s} PROVE Heeds(r)'
    BY <1>b, <2>1, HeedsFrame DEF Resyncing
  <2> QED
    BY <2>2, <2>3 DEF Resyncing
<1>2. ASSUME NEW s \in Sessions, LoginStep(s) PROVE Resyncing'
  <2>1. /\ UNCHANGED <<runCancel, ended, conns, seenConnected>> /\ Active(s)
        /\ \A r \in Sessions \ {s} : login'[r] = login[r]
    BY <1>2, LoginEffect, LoginAlone DEF Active, UnderWay
  <2>2. Heeds(s)'
    <3>1. CASE login'[s] \notin {"wait", "party", "nil"}
      BY <3>1 DEF Heeds, Current
    <3>2. CASE LoginAuth(s) \/ LoginCreate(s) \/ LoginWatch(s) \/ LoginDone(s)
      <4>1. login'[s] \in {"create", "watch", "connect", "error"}
        BY <3>2 DEF LoginAuth, LoginCreate, LoginWatch, LoginDone, Goto, Fails, TypeOK
      <4> QED
        BY <3>1, <4>1
    <3>3. CASE LoginConnect(s)
      <4>1. conns'[s] = 0 /\ login'[s] = "wait"
        BY <2>1, <3>3 DEF LoginConnect, At, Goto, Prepared, Placed, TypeOK
      <4> QED
        BY <4>1 DEF Heeds
    <3>4. CASE LoginEvent(s)
      <4>1. login[s] = "wait" /\ UNCHANGED <<watched, missed>>
        BY <3>4 DEF LoginEvent, At, LoginOnly
      <4>2. login'[s] \in {"wait", "party", "error"}
        BY <3>4, <4>1 DEF LoginEvent, Goto, Fails, TypeOK
      <4> QED
        BY <1>b, <2>1, <4>1, <4>2 DEF Resyncing, Heeds, Current
    <3>5. CASE LoginParty(s) /\ login'[s] # "error"
      <4>1. login[s] = "party" /\ login'[s] = "nil" /\ stale' = FALSE /\ Emit("other")
        BY <3>5 DEF LoginParty, At, Goto, Fails, TypeOK
      <4> QED
        BY <1>d, <2>1, <4>1, SeenEmit DEF Resyncing, Heeds, Current
    <3> QED
      BY <1>2, <3>1, <3>2, <3>3, <3>4, <3>5 DEF LoginStep
  <2> QED
    BY <1>c, <2>1, <2>2 DEF Resyncing
<1>3. ASSUME NEW s \in Sessions, ContextEnds(s) PROVE Resyncing'
  <2>1. /\ UNCHANGED <<login, sup, conns, watched, missed, watcher, seenConnected, stale, told>>
        /\ \A r \in Sessions : ~ended'[r] => ~ended[r]
    BY <1>3 DEF ContextEnds, Ended, watchVars, busVars, cacheVars, TypeOK
  <2> QED
    BY <1>b, <2>1, HeedsFrame DEF Resyncing
<1>4. ASSUME NEW s \in Sessions, Works(s) PROVE Resyncing'
  <2>1. UNCHANGED <<runCancel, login, ended, watchSub, watcher, seenConnected, stale>>
    BY <1>4 DEF Works, Supervise, Connected, Disconnected, BudgetExceeded, loginVars, watchVars, cacheVars
  <2>2. Active(s)
    BY <1>4, SupervisorEffect DEF Active, Gone
  <2>3. CASE Connected(s)
    <3>1. Emit("connected")
      BY <2>3 DEF Connected
    <3>2. ASSUME Current(s), ~missed' PROVE Seen(s)' /\ (login[s] = "nil" => Due(s)')
      <4>1. watchSub = s /\ Watching(s)
        BY <1>a, <3>2 DEF Current, Prepared, Placed
      <4>2. ~missed /\ Seen(s)' /\ (Seen(s) => Due(s)')
        BY <1>d, <2>1, <3>1, <3>2, <4>1, SeenEmit
      <4>3. login[s] = "nil" => conns[s] > 0
        BY DEF Heard, EnsureAfterConnect
      <4> QED
        BY <3>2, <4>2, <4>3 DEF Resyncing, Heeds
    <3>3. Heeds(s)'
      BY <2>1, <3>2 DEF Heeds, Current
    <3> QED
      BY <1>c, <2>1, <2>2, <3>3 DEF Resyncing
  <2>4. CASE ~Connected(s)
    <3>1. UNCHANGED <<conns, told>> /\ (sup'[s] = "up" => sup[s] = "up")
      BY <1>4, <2>4, SupervisorEffect DEF Works, Supervise, Disconnected, BudgetExceeded, cacheVars
    <3>2. UNCHANGED <<watched, missed>> \/ Emit("other") \/ Emit("fatal")
      BY <1>4, <2>4 DEF Works, Supervise, Disconnected, BudgetExceeded, busVars
    <3>3. (Seen(s) => Seen(s)') /\ (Due(s) => Due(s)') /\ (~missed' => ~missed)
      BY <1>b, <1>d, <2>1, <3>2, SeenEmit
    <3>4. Heeds(s)'
      BY <2>1, <3>1, <3>3, HeedsFrame DEF Resyncing
    <3> QED
      BY <1>c, <2>1, <2>2, <3>4 DEF Resyncing
  <2> QED
    BY <2>3, <2>4
<1>5. ASSUME ChangeMissed PROVE Resyncing'
  <2>1. /\ UNCHANGED <<login, ended, sup, conns, watched, missed, watcher, seenConnected>>
        /\ \A r \in Sessions : sup[r] # "up"
    BY <1>5 DEF ChangeMissed, loginVars, supVars, watchVars, busVars
  <2> QED
    BY <1>b, <2>1 DEF Resyncing, Heeds, Current
<1>6. ASSUME NEW s \in Sessions, WatcherStep(s) PROVE Resyncing'
  <2>1. UNCHANGED <<runCancel, login, ended, sup, conns, watchSub>>
    BY <1>6 DEF WatcherStep, WatcherEvent, WatcherResync, WatcherEnds, loginVars, supVars
  <2>2. Active(s)
    BY <1>6 DEF WatcherStep, WatcherEvent, WatcherResync, WatcherEnds, Active, Gone, Watching
  <2>3. Heeds(s)'
    <3>1. CASE WatcherEvent(s)
      <4>1. /\ watched[s] # <<>> /\ watched[s] \in Seq(Events) /\ seenConnected[s] \in BOOLEAN
            /\ watched'[s] = Tail(watched[s]) /\ UNCHANGED <<missed, stale, told>> /\ watcher[s] = "select"
        BY <3>1 DEF WatcherEvent, cacheVars, TypeOK, Events
      <4>2. IF Head(watched[s]) = "connected" THEN seenConnected'[s] ELSE seenConnected'[s] = seenConnected[s]
        BY <3>1 DEF WatcherEvent, TypeOK
      <4>3. Head(watched[s]) = "connected" /\ seenConnected[s] => watcher'[s] = "resync"
        BY <3>1 DEF WatcherEvent, OnConnected, TypeOK
      <4>4. (Seen(s) => Seen(s)') /\ (Due(s) => Due(s)' \/ watcher'[s] = "resync")
        BY <4>1, <4>2, <4>3, SeenTail
      <4> QED
        BY <2>1, <4>1, <4>4 DEF Resyncing, Heeds, Current
    <3>2. CASE WatcherResync(s)
      <4>1. Emit("other") /\ seenConnected' = seenConnected /\ (stale' = FALSE \/ told' = TRUE)
        BY <3>2 DEF WatcherResync
      <4>2. (Seen(s) => Seen(s)') /\ (~missed' => ~missed)
        BY <1>d, <4>1, SeenEmit
      <4> QED
        BY <2>1, <4>1, <4>2 DEF Resyncing, Heeds, Current
    <3>3. CASE WatcherEnds(s)
      <4>1. ended[s] \/ watchSub # s
        BY <3>3 DEF WatcherEnds, Over
      <4>2. ~Current(s)
        BY <1>a, <4>1 DEF Current, Prepared, Placed
      <4> QED
        BY <2>1, <4>2 DEF Heeds, Current
    <3> QED
      BY <1>6, <3>1, <3>2, <3>3 DEF WatcherStep
  <2> QED
    BY <1>c, <2>1, <2>2, <2>3 DEF Resyncing
<1>7. ASSUME NEW t \in Threads, Logout(t) PROVE Resyncing'
  <2>1. UNCHANGED <<login, sup, conns, watched, missed, watcher, seenConnected, stale, told>>
    BY <1>7 DEF Logout, watchVars, busVars, cacheVars
  <2>2. \A r \in Sessions : ~ended'[r] => ~ended[r]
    BY <1>7, LogoutCancels
  <2> QED
    BY <1>b, <2>1, <2>2, HeedsFrame DEF Resyncing
<1>8. ASSUME OtherEvent \/ \E t \in Threads : LogoutEmit(t) PROVE Resyncing'
  <2>1. UNCHANGED <<login, ended, sup, conns, watcher, seenConnected, stale, told>> /\ Emit("other")
    BY <1>8 DEF OtherEvent, LogoutEmit, loginVars, supVars, watchVars, cacheVars
  <2> QED
    BY <1>d, <2>1, SeenEmit, HeedsFrame DEF Resyncing
<1>9. ASSUME \/ \E t \in Threads : \/ LogoutClose(t) \/ LogoutClosed(t) \/ LogoutStop(t)
                                   \/ LogoutWaited(t) \/ LogoutGivesUp(t)
             \/ UNCHANGED vars
      PROVE  Resyncing'
  <2>1. UNCHANGED <<login, ended, sup, conns, watched, missed, watcher, seenConnected, stale, told>>
    BY <1>9 DEF LogoutGivesUp, LogoutClose, LogoutClosed, LogoutStop, LogoutWaited, Session!Cancel, vars,
                loginVars, supVars, watchVars, busVars, cacheVars
  <2> QED
    BY <1>b, <2>1, HeedsFrame DEF Resyncing
<1> QED
  BY <1>1, <1>2, <1>3, <1>4, <1>5, <1>6, <1>7, <1>8, <1>9
     DEF Next, SessionStep, SupervisorStep, LogoutStep, Works

-----------------------------------------------------------------------------
(* The theorems *)

LEMMA LifecycleInitially == Init => LifecycleInv
<1> SUFFICES ASSUME Init PROVE LifecycleInv
  OBVIOUS
<1> USE LifecycleAssumption
<1>1. \A s \in Sessions : /\ login[s] = "none" /\ sup[s] = "none" /\ watcher[s] = "none" /\ conns[s] = 0
                          /\ s # None
  BY DEF Init, Session!Init, Sessions, None
<1>2. \A s \in Sessions : ~UnderWay(s) /\ ~Running(s) /\ ~Watching(s) /\ runCancel # s
  BY <1>1 DEF Init, UnderWay, Running, Watching, Session!Alive
<1>3. TypeOK
  <2>1. <<>> \in Seq(Events) /\ Len(<<>>) = 0
    OBVIOUS
  <2>2. \A s \in Sessions : watched[s] = <<>>
    BY DEF Init
  <2>3. /\ watched \in [Sessions -> Seq(Events)] /\ inbox = <<>>
        /\ \A s \in Sessions : Len(watched[s]) <= WatchBuffer
    BY <2>1, <2>2 DEF Init
  <2>4. /\ login \in [Sessions -> LoginStates] /\ ended \in [Sessions -> BOOLEAN]
        /\ canceled \in [Sessions -> BOOLEAN] /\ sup \in [Sessions -> {"none", "done"} \cup Session!Alive]
        /\ conns \in [Sessions -> Nat] /\ seenConnected \in [Sessions -> BOOLEAN]
        /\ watcher \in [Sessions -> {"none", "select", "resync", "done"}]
    BY DEF Init, Session!Init, LoginStates
  <2>5. runCancel = 0 /\ xmppClient = 0 /\ watchSub = 0 /\ 0 \in 0 .. MaxLogins
    BY DEF Init, None
  <2>6. /\ out \in [Threads -> {"idle", "close", "closing", "stop", "wait", "emit"}]
        /\ arg \in [Threads -> 0 .. MaxLogins]
    BY <2>5 DEF Init, None
  <2>7. stale \in BOOLEAN /\ told \in BOOLEAN /\ missed \in BOOLEAN /\ rough \in BOOLEAN
    BY DEF Init
  <2> QED
    BY <2>1, <2>3, <2>4, <2>5, <2>6, <2>7 DEF TypeOK, LoginStates, Events
<1>4. Ordered
  BY <1>1, <1>2 DEF Ordered, Active, Gone
<1>5. Prepared
  BY <1>1, <1>2 DEF Prepared, Placed
<1>6. Heard
  BY <1>1 DEF Init, Heard, EnsureAfterConnect
<1>7. Leaving
  BY <1>2 DEF Init, Leaving, Gone
<1>8. Resyncing
  BY <1>1 DEF Resyncing, Heeds, Current
<1> QED
  BY <1>3, <1>4, <1>5, <1>6, <1>7, <1>8 DEF LifecycleInv

\* The state is of its types and no subscription holds more than it has room
\* for, however careless the application is (client.go, events/bus.go Emit).
THEOREM TypeCorrect == Spec => []TypeOK
<1>1. Init => TypeOK
  BY LifecycleInitially DEF LifecycleInv
<1>2. TypeOK /\ [Next]_vars => TypeOK'
  BY TypeStep
<1> QED
  BY <1>1, <1>2, PTL DEF Spec

\* The invariant holds as long as Login is not called while a Logout runs, nor
\* after one that gave up or got in the way of another call.
THEOREM LifecycleInvariant == ~Careless => (Spec => []LifecycleInv)
<1> SUFFICES ASSUME ~Careless PROVE Spec => []LifecycleInv
  OBVIOUS
<1>1. LifecycleInv /\ [Next]_vars => LifecycleInv'
  BY TypeStep, OrderedStep, PreparedStep, HeardStep, LeavingStep, ResyncingStep DEF LifecycleInv
<1> QED
  BY <1>1, LifecycleInitially, PTL DEF Spec

\* ClientDisconnected comes when no supervisor and no watcher is left, and the
\* next Login starts from nothing (client.go Logout, stopXMPPWatcher).
THEOREM LogoutCompletes == ~Careless => (Spec => []LogoutIsComplete)
<1>1. LifecycleInv => LogoutIsComplete
  <2> SUFFICES ASSUME LifecycleInv, NEW t \in Threads, out[t] = "emit", ~rough
               PROVE  runCancel = None /\ watchSub = None /\ \A s \in Sessions : Gone(s)
    BY DEF LogoutIsComplete
  <2> QED
    BY DEF LifecycleInv, Leaving, Gone
<1> QED
  BY <1>1, LifecycleInvariant, PTL

\* Whatever lives belongs to the last Login, and a session that can be canceled
\* has its watcher (client.go Login, startXMPPWatcher).
THEOREM OneSessionLives == ~Careless => (Spec => []OneSession)
<1>1. LifecycleInv => OneSession
  BY DEF LifecycleInv, Ordered, Prepared, Placed, OneSession, Active
<1> QED
  BY <1>1, LifecycleInvariant, PTL

\* Login asks for the party after a connection of its own, not after one of a
\* session before it (client.go Login).
THEOREM EnsuresAfterConnect == ~Careless => (Spec => []EnsureAfterConnect)
<1>1. LifecycleInv => EnsureAfterConnect
  BY DEF LifecycleInv, Heard
<1> QED
  BY <1>1, LifecycleInvariant, PTL

\* After a reconnect the party is read again, or the application has been told
\* that it was not, or an event was lost (client.go startXMPPWatcher).
THEOREM Resyncs == ~Careless => (Spec => []ReconnectResyncs)
<1>1. LifecycleInv => ReconnectResyncs
  <2> SUFFICES ASSUME LifecycleInv, NEW s \in Sessions, AtRest(s), ~missed PROVE ~stale \/ told
    BY DEF ReconnectResyncs
  <2>1. Current(s) /\ login[s] = "nil" /\ sup[s] = "up" /\ watcher[s] # "resync" /\ Heeds(s)
    BY DEF LifecycleInv, AtRest, Current, Resyncing
  <2>2. ~Due(s)
    BY DEF AtRest, Due
  <2> QED
    BY <2>1, <2>2 DEF Heeds
<1> QED
  BY <1>1, LifecycleInvariant, PTL
=============================================================================
