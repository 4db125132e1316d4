-------------------------- MODULE ClientLifecycle --------------------------
(***************************************************************************)
(* client.Client (src/client/client.go): Login starts a session of         *)
(* goroutines, Logout ends it, and the watcher reads the party again after *)
(* every reconnect.  Every session has an xmpp.Client of its own, of which *)
(* XMPPSession says what it does; all of them emit on the one bus.         *)
(*                                                                         *)
(* The refresh scheduler of a session is the subject of TokenRefresh.      *)
(*                                                                         *)
(* The application calls Login from one goroutine and Logout from any, so  *)
(* the two may overlap.  Login while runCancel is set returns nil and does *)
(* nothing.  A session is named by the order of the logins.                *)
(*                                                                         *)
(* `stale', `told', `missed' and `rough' are history.  An operator X_Bug   *)
(* is X with a bug somebody could have written; no action uses it.         *)
(* PROJECT.json says which property rejects it.                            *)
(***************************************************************************)
EXTENDS Naturals, Sequences, Functions

CONSTANTS Threads,      \* goroutines that call Logout
          LoginBuffer,  \* room of Login's own subscription
          WatchBuffer,  \* Config.EventBuffer, room of the watcher's
          Careless,     \* is Login called although `rough' holds, or too early?
          MaxLogins,    \* bound: sessions
          MaxConns      \* bound: connections of one session

ASSUME LifecycleAssumption ==
  /\ LoginBuffer \in Nat \ {0} /\ WatchBuffer \in Nat \ {0}
  /\ MaxLogins \in Nat /\ MaxConns \in Nat

Sessions == 1 .. MaxLogins
None == 0

VARIABLES runCancel,   \* the session Client.runCancel would cancel
          xmppClient,  \* the session Client.xmppClient belongs to
          login,       \* login[s]: where the Login of session s stands
          inbox,       \* Login's subscription
          ended,       \* ended[s]: the context of session s has ended
          sup, canceled, \* the supervisors, see XMPPSession
          conns,       \* conns[s]: how often session s connected
          watchSub,    \* Client.watchSub, None if not watchStarted
          watcher,     \* watcher[s]: where the watcher of session s stands
          watched,     \* watched[s]: what its subscription holds
          seenConnected, \* seenConnected[s]: its local variable
          out, arg,    \* out[t], arg[t]: the Logout of thread t, its client
          stale,       \* history: the party changed and nobody was connected
          told,        \* history: since the last connection a resync failed
          missed,      \* history: an XMPPConnected did not fit for the watcher
          rough        \* history: a Logout gave up, or overlapped another call

Session == INSTANCE XMPPSession

loginVars == <<runCancel, xmppClient, login, ended>>
supVars == <<sup, canceled, conns>>
watchVars == <<watchSub, watcher, seenConnected>>
busVars == <<inbox, watched, missed>>
outVars == <<out, arg>>
cacheVars == <<stale, told>>
vars == <<loginVars, supVars, watchVars, busVars, outVars, cacheVars, rough>>

UnderWay(s) == login[s] \notin {"none", "nil", "error"}
Watching(s) == watcher[s] \in {"select", "resync"}
Running(s) == sup[s] \in Session!Alive

Init ==
  /\ Session!Init
  /\ runCancel = None /\ xmppClient = None /\ watchSub = None
  /\ login = [s \in Sessions |-> "none"]
  /\ ended = [s \in Sessions |-> FALSE] /\ conns = [s \in Sessions |-> 0]
  /\ watcher = [s \in Sessions |-> "none"]
  /\ seenConnected = [s \in Sessions |-> FALSE]
  /\ inbox = <<>> /\ watched = [s \in Sessions |-> <<>>]
  /\ out = [t \in Threads |-> "idle"] /\ arg = [t \in Threads |-> None]
  /\ stale = TRUE /\ told = FALSE /\ missed = FALSE /\ rough = FALSE

HasRoom_Bug(queue, size) == TRUE
HasRoom(queue, size) == Len(queue) < size

\* Bus.Emit to the two subscriptions of the client: what does not fit is lost.
\* Everything but XMPPConnected and a fatal XMPPError is the event "other".
Emit(e) ==
  LET heard == watchSub # None /\ Watching(watchSub)
      full == heard /\ ~HasRoom(watched[watchSub], WatchBuffer) IN
  /\ inbox' = IF (\E s \in Sessions : login[s] = "wait") /\ HasRoom(inbox, LoginBuffer)
              THEN Append(inbox, e) ELSE inbox
  /\ watched' = IF heard /\ ~full
                THEN [watched EXCEPT ![watchSub] =
                        Append(@, IF e = "connected" THEN e ELSE "other")]
                ELSE watched
  /\ missed' = (missed \/ (full /\ e = "connected"))

\* The rest of the program emits, as long as there is a session.
OtherEvent ==
  /\ \E s \in Sessions : login[s] # "none" /\ ~ended[s]
  /\ Emit("other")
  /\ UNCHANGED <<loginVars, supVars, watchVars, outVars, cacheVars, rough>>

-----------------------------------------------------------------------------
(* Login *)

At(s, l) == login[s] = l
Goto(s, l) == login' = [login EXCEPT ![s] = l]
\* An exchange of Login fails, or its context ends: return err, no more.
Fails(s) == Goto(s, "error") /\ inbox' = <<>>

LoginOnly == UNCHANGED <<runCancel, xmppClient, ended, supVars, watchVars, watched, missed, outVars, cacheVars, rough>>

Login(s) ==
  /\ runCancel = None /\ At(s, "none")
  /\ \A r \in Sessions : (r < s => login[r] # "none") /\ ~UnderWay(r)
  /\ Careless \/ (~rough /\ \A t \in Threads : out[t] = "idle")
  /\ runCancel' = s
  /\ Goto(s, "auth")
  /\ UNCHANGED <<xmppClient, ended, supVars, watchVars, busVars, outVars, cacheVars, rough>>

\* loginWithDeviceAuth, initFortnite; the refresh scheduler is started.
LoginAuth(s) ==
  /\ At(s, "auth")
  /\ (Goto(s, "create") /\ UNCHANGED inbox) \/ Fails(s)
  /\ LoginOnly

\* The stored token set, and a new xmpp.Client.
LoginCreate(s) ==
  /\ At(s, "create")
  /\ \/ Goto(s, "watch") /\ xmppClient' = s /\ UNCHANGED inbox
     \/ Fails(s) /\ UNCHANGED xmppClient
  /\ UNCHANGED <<runCancel, ended, supVars, watchVars, watched, missed, outVars, cacheVars, rough>>

\* startXMPPWatcher: nothing to do if one is said to have been started.
LoginWatch(s) ==
  /\ At(s, "watch")
  /\ IF watchSub # None
     THEN UNCHANGED <<watchSub, watcher, missed>>
     ELSE watchSub' = s /\ watcher' = [watcher EXCEPT ![s] = "select"] /\ missed' = FALSE
  /\ Goto(s, "connect")
  /\ UNCHANGED <<runCancel, xmppClient, ended, supVars, seenConnected, inbox, watched, outVars, cacheVars, rough>>

\* Subscribe(64), then Connect with the context of the session.
LoginConnect(s) ==
  /\ At(s, "connect")
  /\ Session!Connect(s)
  /\ Goto(s, "wait")
  /\ UNCHANGED <<runCancel, xmppClient, ended, conns, watchVars, busVars, outVars, cacheVars, rough>>

\* The wait loop takes an event; anybody's XMPPConnected is good enough.
LoginEvent(s) ==
  /\ At(s, "wait") /\ inbox # <<>>
  /\ \/ Head(inbox) = "connected" /\ Goto(s, "party") /\ inbox' = <<>>
     \/ Head(inbox) = "fatal" /\ Fails(s)
     \/ Head(inbox) = "other" /\ inbox' = Tail(inbox) /\ UNCHANGED login
  /\ LoginOnly

\* EnsureParty reads the party; then PartyUpdated and ClientReady.
LoginParty(s) ==
  /\ At(s, "party")
  /\ \/ /\ Goto(s, "nil") /\ ~ended[s]
        /\ stale' = FALSE /\ told' = FALSE
        /\ Emit("other")
     \/ Fails(s) /\ UNCHANGED <<watched, missed, cacheVars>>
  /\ UNCHANGED <<runCancel, xmppClient, ended, supVars, watchVars, outVars, rough>>

\* The wait loop sees the end of the context.
LoginDone(s) ==
  /\ At(s, "wait") /\ ended[s]
  /\ Fails(s)
  /\ LoginOnly

\* The context of the session is a child of the one Login was called with.
Ended(s) == /\ ended' = [ended EXCEPT ![s] = TRUE]
            /\ canceled' = [canceled EXCEPT ![s] = TRUE]

ContextEnds(s) ==
  /\ ~At(s, "none") /\ ~ended[s]
  /\ Ended(s)
  /\ UNCHANGED <<runCancel, xmppClient, login, sup, conns, watchVars, busVars, outVars, cacheVars, rough>>

-----------------------------------------------------------------------------
(* The supervisors, and the events that matter here *)

\* Dialing, and what happens without an event.
Supervise(s) ==
  /\ Session!Dial(s) \/ Session!Ends(s)
  /\ UNCHANGED <<loginVars, conns, watchVars, busVars, outVars, cacheVars, rough>>

Connections == FoldFunction(+, 0, conns)

Connected(s) ==
  /\ Connections < MaxConns
  /\ Session!Established(s)
  /\ conns' = [conns EXCEPT ![s] = @ + 1]
  /\ Emit("connected")
  /\ told' = FALSE
  /\ UNCHANGED <<loginVars, watchVars, outVars, stale, rough>>

\* XMPPDisconnected, XMPPReconnecting, XMPPError.
Disconnected(s) ==
  /\ Session!Refused(s) \/ Session!Broken(s)
  /\ Emit("other")
  /\ UNCHANGED <<loginVars, conns, watchVars, outVars, cacheVars, rough>>

BudgetExceeded(s) ==
  /\ Session!GivesUp(s)
  /\ Emit("fatal")
  /\ UNCHANGED <<loginVars, conns, watchVars, outVars, cacheVars, rough>>

\* The party changes and no connection carries the notification.
ChangeMissed ==
  /\ \A s \in Sessions : sup[s] # "up"
  /\ stale' = TRUE
  /\ UNCHANGED <<loginVars, supVars, watchVars, busVars, outVars, told, rough>>

-----------------------------------------------------------------------------
(* The watcher *)

\* A watcher that leaves every XMPPConnected to Login, and one that leaves it
\* the first only.
OnConnected_Bug(s) == "select"
OnConnected(s) == IF seenConnected[s] THEN "resync" ELSE "select"

\* select: an event.
WatcherEvent(s) ==
  /\ watcher[s] = "select" /\ watched[s] # <<>>
  /\ watched' = [watched EXCEPT ![s] = Tail(@)]
  /\ IF Head(watched[s]) # "connected"
     THEN UNCHANGED <<watcher, seenConnected>>
     ELSE /\ seenConnected' = [seenConnected EXCEPT ![s] = TRUE]
          /\ watcher' = [watcher EXCEPT ![s] = OnConnected(s)]
  /\ UNCHANGED <<loginVars, supVars, watchSub, inbox, missed, outVars, cacheVars, rough>>

\* ResyncAfterReconnect reads the party, or an XMPPError says that it failed.
WatcherResync(s) ==
  /\ watcher[s] = "resync"
  /\ watcher' = [watcher EXCEPT ![s] = "select"]
  /\ \/ /\ ~ended[s]
        /\ stale' = FALSE /\ told' = FALSE
     \/ told' = TRUE /\ UNCHANGED stale
  /\ Emit("other")
  /\ UNCHANGED <<loginVars, supVars, watchSub, seenConnected, outVars, rough>>

Over_Bug(s) == watchSub # s /\ watched[s] = <<>>
Over(s) == ended[s] \/ (watchSub # s /\ watched[s] = <<>>)

\* select: the end of the context, or the channel is closed and empty.
WatcherEnds(s) ==
  /\ watcher[s] = "select" /\ Over(s)
  /\ watcher' = [watcher EXCEPT ![s] = "done"]
  /\ watched' = [watched EXCEPT ![s] = <<>>]
  /\ seenConnected' = [seenConnected EXCEPT ![s] = FALSE]
  /\ UNCHANGED <<loginVars, supVars, watchSub, inbox, missed, outVars, cacheVars, rough>>

-----------------------------------------------------------------------------
(* Logout *)

CancelRun_Bug == UNCHANGED <<ended, canceled>>
CancelRun == IF runCancel = None THEN UNCHANGED <<ended, canceled>> ELSE Ended(runCancel)

\* runCancel is taken and called.  Without anything to end, Logout would only
\* emit ClientDisconnected; such calls are left out.
Logout(t) ==
  /\ out[t] = "idle"
  /\ \/ runCancel # None \/ watchSub # None
     \/ xmppClient # None /\ Running(xmppClient)
  /\ CancelRun /\ runCancel' = None
  /\ out' = [out EXCEPT ![t] = "close"]
  /\ rough' = (rough \/ (\E s \in Sessions : UnderWay(s))
                     \/ (\E u \in Threads \ {t} : out[u] # "idle"))
  /\ UNCHANGED <<xmppClient, login, sup, conns, watchVars, busVars, arg, cacheVars>>

\* Close of the client that Client.xmppClient names now, if it is running.
LogoutClose(t) ==
  /\ out[t] = "close"
  /\ IF xmppClient # None /\ Running(xmppClient)
     THEN /\ Session!Cancel(xmppClient)
          /\ out' = [out EXCEPT ![t] = "closing"]
          /\ arg' = [arg EXCEPT ![t] = xmppClient]
     ELSE out' = [out EXCEPT ![t] = "stop"] /\ UNCHANGED <<sup, canceled, arg>>
  /\ UNCHANGED <<loginVars, conns, watchVars, busVars, cacheVars, rough>>

Closed_Bug(t) == TRUE
Closed(t) == ~Running(arg[t])

LogoutClosed(t) ==
  /\ out[t] = "closing" /\ Closed(t)
  /\ out' = [out EXCEPT ![t] = "stop"]
  /\ UNCHANGED <<loginVars, supVars, watchVars, busVars, arg, cacheVars, rough>>

\* The context given to Logout ends first: an error, and nothing more is done.
LogoutGivesUp(t) ==
  /\ out[t] = "closing"
  /\ out' = [out EXCEPT ![t] = "idle"]
  /\ rough' = TRUE
  /\ UNCHANGED <<loginVars, supVars, watchVars, busVars, arg, cacheVars>>

Unwatch_Bug == UNCHANGED watchSub
Unwatch == watchSub' = None

\* stopXMPPWatcher; if none is said to be started there is nobody to wait for.
LogoutStop(t) ==
  /\ out[t] = "stop"
  /\ out' = [out EXCEPT ![t] = IF watchSub # None THEN "wait" ELSE "emit"]
  /\ Unwatch
  /\ UNCHANGED <<loginVars, supVars, watcher, seenConnected, busVars, arg, cacheVars, rough>>

\* watchWG.Wait
WatcherGone_Bug == TRUE
WatcherGone == \A s \in Sessions : ~Watching(s)

LogoutWaited(t) ==
  /\ out[t] = "wait" /\ WatcherGone
  /\ out' = [out EXCEPT ![t] = "emit"]
  /\ UNCHANGED <<loginVars, supVars, watchVars, busVars, arg, cacheVars, rough>>

\* ClientDisconnected
LogoutEmit(t) ==
  /\ out[t] = "emit"
  /\ out' = [out EXCEPT ![t] = "idle"]
  /\ Emit("other")
  /\ UNCHANGED <<loginVars, supVars, watchVars, arg, cacheVars, rough>>

-----------------------------------------------------------------------------

LoginStep(s) == \/ LoginAuth(s) \/ LoginCreate(s) \/ LoginWatch(s)
                \/ LoginConnect(s) \/ LoginEvent(s) \/ LoginParty(s) \/ LoginDone(s)
SupervisorStep(s) == \/ Supervise(s) \/ Connected(s) \/ Disconnected(s)
                     \/ BudgetExceeded(s)
WatcherStep(s) == WatcherEvent(s) \/ WatcherResync(s) \/ WatcherEnds(s)
SessionStep(s) == \/ LoginStep(s) \/ SupervisorStep(s) \/ WatcherStep(s)
LogoutStep(t) == \/ LogoutClose(t) \/ LogoutClosed(t) \/ LogoutStop(t)
                 \/ LogoutWaited(t) \/ LogoutEmit(t)

Next ==
  \/ OtherEvent \/ ChangeMissed
  \/ \E s \in Sessions : Login(s) \/ ContextEnds(s) \/ SessionStep(s)
  \/ \E t \in Threads : Logout(t) \/ LogoutStep(t) \/ LogoutGivesUp(t)

\* An exchange ends when its context has; until then it may take for ever.
Fairness == /\ \A s \in Sessions : WF_vars(ended[s] /\ SessionStep(s))
            /\ \A t \in Threads : WF_vars(LogoutStep(t))

Spec == Init /\ [][Next]_vars /\ Fairness

-----------------------------------------------------------------------------
(* Properties *)

TypeOK ==
  /\ runCancel \in 0 .. MaxLogins /\ xmppClient \in 0 .. MaxLogins
  /\ login \in [Sessions -> {"none", "auth", "create", "watch", "connect", "wait",
                             "party", "nil", "error"}]
  /\ ended \in [Sessions -> BOOLEAN] /\ canceled \in [Sessions -> BOOLEAN]
  /\ sup \in [Sessions -> {"none", "done"} \cup Session!Alive]
  /\ conns \in [Sessions -> Nat]
  /\ watchSub \in 0 .. MaxLogins
  /\ watcher \in [Sessions -> {"none", "select", "resync", "done"}]
  /\ seenConnected \in [Sessions -> BOOLEAN]
  /\ inbox \in Seq({"connected", "fatal", "other"}) /\ Len(inbox) <= LoginBuffer
  /\ watched \in [Sessions -> Seq({"connected", "fatal", "other"})]
  /\ \A s \in Sessions : Len(watched[s]) <= WatchBuffer
  /\ out \in [Threads -> {"idle", "close", "closing", "stop", "wait", "emit"}]
  /\ arg \in [Threads -> 0 .. MaxLogins]
  /\ stale \in BOOLEAN /\ told \in BOOLEAN /\ missed \in BOOLEAN /\ rough \in BOOLEAN

Gone(s) == ~Running(s) /\ ~Watching(s)

\* No session outlives its Logout: when ClientDisconnected is emitted there is
\* no supervisor and no watcher left, and the next Login starts from nothing,
\* also after a Login that failed half-way (client.go:324).
LogoutIsComplete ==
  \A t \in Threads : out[t] = "emit" /\ ~rough =>
    /\ runCancel = None /\ watchSub = None
    /\ \A s \in Sessions : Gone(s)

\* There is one session at a time: whatever still lives belongs to the last
\* Login, and a watcher that ends before its session does not exist.
OneSession ==
  \A s \in Sessions :
    /\ ~Gone(s) => \A r \in Sessions : r > s => login[r] = "none"
    /\ runCancel = s /\ ~ended[s] /\ login[s] \in {"connect", "wait", "party", "nil"}
         => Watching(s) /\ watchSub = s

\* Login asks for the party only after a connection of its own (client.go:262).
EnsureAfterConnect ==
  \A s \in Sessions : login[s] \in {"party", "nil"} => conns[s] > 0

\* A session at rest: logged in, connected, nothing on its way to the watcher.
AtRest(s) == /\ login[s] = "nil" /\ sup[s] = "up" /\ ~ended[s]
             /\ watcher[s] = "select" /\ watched[s] = <<>>

\* Whatever changed while the connection was down has been read again, or the
\* application knows that reading failed, or events were lost for lack of room
\* (startXMPPWatcher).
ReconnectResyncs ==
  \A s \in Sessions : AtRest(s) => ~stale \/ told \/ missed

\* Logout returns, whatever the supervisor, the watcher and a Login it interrupts
\* are doing (Client.Logout, stopXMPPWatcher). The watcher of a Login called while
\* it runs is one it would wait for too, hence ~Careless.
LogoutReturns == \A t \in Threads : out[t] # "idle" ~> out[t] = "idle"

\* When the context of a session has ended its goroutines end, those of a
\* session whose Logout gave up or met a Login too.
SessionEnds ==
  \A s \in Sessions :
    ended[s] ~> (~UnderWay(s) /\ Gone(s))
=============================================================================
