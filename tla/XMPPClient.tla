----------------------------- MODULE XMPPClient -----------------------------
(***************************************************************************)
(* xmpp.Client (src/xmpp/client.go): Connect starts a supervisor, which    *)
(* dials, runs one connection after the other, backs off between them and  *)
(* gives up at its budget.  Every connection has a read loop, a write loop *)
(* and perhaps a keep-alive loop, which outlive it: nobody waits for them. *)
(* All connections share the queue sendCh.                                 *)
(*                                                                         *)
(* A supervisor is named by its run, a connection by the order of dialing. *)
(* Stanzas are numbered in the order sendCh takes them; a keep-alive is 0. *)
(* `wire' is history.                                                      *)
(*                                                                         *)
(* An operator X_Bug is X with a bug somebody could have written; no       *)
(* action uses it.  PROJECT.json says which property rejects it.           *)
(***************************************************************************)
EXTENDS Naturals, Sequences, FiniteSets

CONSTANTS Threads,              \* goroutines of the application
          WriteBuffer,          \* Config.WriteBuffer
          MaxReconnectAttempts, \* Config.MaxReconnectAttempts, 0: no budget
          KeepAlive,            \* Config.KeepAliveInterval > 0
          WriteDeadline,        \* Config.WriteDeadline > 0
          MaxRuns,              \* bound: supervisors
          MaxConns,             \* bound: connections established
          MaxDials,             \* bound: failures of one supervisor
          MaxSends              \* bound: stanzas accepted

ASSUME ClientAssumption ==
  /\ WriteBuffer \in Nat \ {0} /\ MaxReconnectAttempts \in Nat
  /\ KeepAlive \in BOOLEAN /\ WriteDeadline \in BOOLEAN
  /\ MaxRuns \in Nat /\ MaxConns \in Nat /\ MaxDials \in Nat /\ MaxSends \in Nat

Runs == 1 .. MaxRuns
Conns == 1 .. MaxConns

VARIABLES running,   \* Client.running
          runs,      \* supervisors started; the last one's cancel is Client.cancel
          sup,       \* sup[r]: where supervisor r stands
          canceled,  \* canceled[r]: its context has ended
          failures,  \* failures[r]: its counter
          conns,     \* connections established
          owner,     \* owner[k]: the supervisor of connection k
          current,   \* Client.conn, 0 for nil
          open,      \* open[k]: the socket has not been closed
          over,      \* over[k]: the deferred cancel of its loops was called
          errCh,     \* errCh[k]: errors its loops reported
          reader, writer, keeper, \* where its loops stand
          hand,      \* hand[k]: the stanza its write loop took
          sendCh,    \* Client.sendCh
          accepted,  \* stanzas taken by sendCh
          wire,      \* history: stanzas written
          app,       \* app[t]: where the call of thread t stands
          arg        \* arg[t]: the run it is to cancel

supVars == <<running, runs, sup, canceled, failures>>
connVars == <<conns, owner, current, open, over>>
loopVars == <<errCh, reader, writer, keeper, hand>>
queueVars == <<sendCh, accepted, wire>>
appVars == <<app, arg>>
vars == <<supVars, connVars, loopVars, queueVars, appVars>>

KeepAliveStanza == 0

Init ==
  /\ running = FALSE /\ runs = 0 /\ conns = 0 /\ current = 0
  /\ sup = [r \in Runs |-> "none"]
  /\ canceled = [r \in Runs |-> FALSE] /\ failures = [r \in Runs |-> 0]
  /\ owner = [k \in Conns |-> 0]
  /\ open = [k \in Conns |-> FALSE] /\ over = [k \in Conns |-> FALSE]
  /\ errCh = [k \in Conns |-> <<>>]
  /\ reader = [k \in Conns |-> "none"] /\ writer = [k \in Conns |-> "none"]
  /\ keeper = [k \in Conns |-> "none"] /\ hand = [k \in Conns |-> 0]
  /\ sendCh = <<>> /\ accepted = 0 /\ wire = <<>>
  /\ app = [t \in Threads |-> "idle"] /\ arg = [t \in Threads |-> 0]

-----------------------------------------------------------------------------
(* The application *)

\* Connect; while running it returns nil and does nothing.
Connect(t) ==
  /\ app[t] = "idle" /\ ~running /\ runs < MaxRuns
  /\ running' = TRUE /\ runs' = runs + 1
  /\ sup' = [sup EXCEPT ![runs + 1] = "loop"]
  /\ UNCHANGED <<canceled, failures, connVars, loopVars, queueVars, appVars>>

\* Close, first lines: read Client.cancel; not running: nil at once.
Close(t) ==
  /\ app[t] = "idle" /\ running
  /\ app' = [app EXCEPT ![t] = "canceling"] /\ arg' = [arg EXCEPT ![t] = runs]
  /\ UNCHANGED <<supVars, connVars, loopVars, queueVars>>

\* cancel(), then wg.Wait; the group may be empty by now.
CloseCancel(t) ==
  /\ app[t] = "canceling"
  /\ canceled' = [canceled EXCEPT ![arg[t]] = TRUE]
  /\ app' = [app EXCEPT ![t] =
               IF \E r \in Runs : sup[r] \notin {"none", "done"}
               THEN "waiting" ELSE "idle"]
  /\ arg' = [arg EXCEPT ![t] = 0]
  /\ UNCHANGED <<running, runs, sup, failures, connVars, loopVars, queueVars>>

\* The context of Close or of SendRaw ends first.
CallGivesUp(t) ==
  /\ app[t] \in {"waiting", "sending"}
  /\ app' = [app EXCEPT ![t] = "idle"]
  /\ UNCHANGED <<supVars, connVars, loopVars, queueVars, arg>>

\* The context given to Connect, of which the supervisor's is a child, ends.
ContextEnds(r) ==
  /\ sup[r] \notin {"none", "done"} /\ ~canceled[r]
  /\ canceled' = [canceled EXCEPT ![r] = TRUE]
  /\ UNCHANGED <<running, runs, sup, failures, connVars, loopVars, queueVars, appVars>>

\* SendRaw, first lines: ErrNotRunning otherwise.
SendRaw(t) ==
  /\ app[t] = "idle" /\ running
  /\ app' = [app EXCEPT ![t] = "sending"]
  /\ UNCHANGED <<supVars, connVars, loopVars, queueVars, arg>>

\* c.sendCh <- raw, whether or not anything still runs.
SendRawQueued(t) ==
  /\ app[t] = "sending"
  /\ Len(sendCh) < WriteBuffer /\ accepted < MaxSends
  /\ accepted' = accepted + 1
  /\ sendCh' = Append(sendCh, accepted + 1)
  /\ app' = [app EXCEPT ![t] = "idle"]
  /\ UNCHANGED <<supVars, connVars, loopVars, wire, arg>>

-----------------------------------------------------------------------------
(* The supervisor *)

\* The count starts again with every connection that was established.
AfterError_Bug(r, err) ==
  LET n == IF sup[r] = "up" THEN 1 ELSE failures[r] + 1 IN
  IF err = "canceled"
  THEN sup' = [sup EXCEPT ![r] = "stop"] /\ UNCHANGED failures
  ELSE /\ failures' = [failures EXCEPT ![r] = n]
       /\ sup' = [sup EXCEPT ![r] =
                    IF MaxReconnectAttempts > 0 /\ n > MaxReconnectAttempts
                    THEN "stop" ELSE "backoff"]

\* After connectAndRun returned err: count, emit, back off or give up.
AfterError(r, err) ==
  LET n == failures[r] + 1 IN
  IF err = "canceled"
  THEN sup' = [sup EXCEPT ![r] = "stop"] /\ UNCHANGED failures
  ELSE /\ failures' = [failures EXCEPT ![r] = n]
       /\ sup' = [sup EXCEPT ![r] =
                    IF MaxReconnectAttempts > 0 /\ n > MaxReconnectAttempts
                    THEN "stop" ELSE "backoff"]

\* The end of the context is noticed by the loops of a connection only.
SupervisorLoop_Bug(r) ==
  /\ sup[r] = "loop"
  /\ sup' = [sup EXCEPT ![r] = "dial"]
  /\ UNCHANGED <<running, runs, canceled, failures, connVars, loopVars, queueVars, appVars>>

SupervisorLoop(r) ==
  /\ sup[r] = "loop"
  /\ sup' = [sup EXCEPT ![r] = IF canceled[r] THEN "stop" ELSE "dial"]
  /\ UNCHANGED <<running, runs, canceled, failures, connVars, loopVars, queueVars, appVars>>

\* No token, no socket, or no handshake; a socket is closed before it returns.
DialFails(r) ==
  /\ sup[r] = "dial"
  /\ \/ failures[r] < MaxDials /\ AfterError(r, "other")
     \/ canceled[r] /\ AfterError(r, "canceled")
  /\ UNCHANGED <<running, runs, canceled, connVars, loopVars, queueVars, appVars>>

\* setConn, XMPPConnected, and the loops of the new connection.
Dialed(r) ==
  LET k == conns + 1 IN
  /\ sup[r] = "dial" /\ conns < MaxConns
  /\ conns' = k /\ current' = k
  /\ owner' = [owner EXCEPT ![k] = r] /\ open' = [open EXCEPT ![k] = TRUE]
  /\ reader' = [reader EXCEPT ![k] = "read"]
  /\ writer' = [writer EXCEPT ![k] = "select"]
  /\ keeper' = [keeper EXCEPT ![k] = IF KeepAlive THEN "select" ELSE "done"]
  /\ sup' = [sup EXCEPT ![r] = "up"]
  /\ UNCHANGED <<running, runs, canceled, failures, over, errCh, hand, queueVars, appVars>>

\* err = <-errCh: close the socket, clearConn, XMPPDisconnected, cancel the loops.
Disconnect_Bug(r, k) ==
  /\ sup[r] = "up" /\ owner[k] = r /\ ~over[k] /\ errCh[k] # <<>>
  /\ over' = [over EXCEPT ![k] = TRUE]
  /\ current' = IF current = k THEN 0 ELSE current
  /\ AfterError(r, Head(errCh[k]))
  /\ errCh' = [errCh EXCEPT ![k] = Tail(@)]
  /\ UNCHANGED <<running, runs, canceled, conns, owner, open, reader, writer, keeper, hand, queueVars, appVars>>

Disconnect(r, k) ==
  /\ sup[r] = "up" /\ owner[k] = r /\ ~over[k] /\ errCh[k] # <<>>
  /\ open' = [open EXCEPT ![k] = FALSE]
  /\ over' = [over EXCEPT ![k] = TRUE]
  /\ current' = IF current = k THEN 0 ELSE current
  /\ AfterError(r, Head(errCh[k]))
  /\ errCh' = [errCh EXCEPT ![k] = Tail(@)]
  /\ UNCHANGED <<running, runs, canceled, conns, owner, reader, writer, keeper, hand, queueVars, appVars>>

\* sleepContext: the delay is over, or the context.
BackedOff(r) ==
  /\ sup[r] = "backoff"
  /\ \/ sup' = [sup EXCEPT ![r] = "loop"]
     \/ canceled[r] /\ sup' = [sup EXCEPT ![r] = "stop"]
  /\ UNCHANGED <<running, runs, canceled, failures, connVars, loopVars, queueVars, appVars>>

MarkStopped(r) ==
  /\ sup[r] = "stop"
  /\ running' = FALSE
  /\ open' = IF current = 0 THEN open ELSE [open EXCEPT ![current] = FALSE]
  /\ current' = 0
  /\ sup' = [sup EXCEPT ![r] = "marked"]
  /\ UNCHANGED <<runs, canceled, failures, conns, owner, over, loopVars, queueVars, appVars>>

\* wg.Done; at zero it releases everybody in wg.Wait.
SupervisorEnds(r) ==
  /\ sup[r] = "marked"
  /\ sup' = [sup EXCEPT ![r] = "done"]
  /\ app' = IF \A s \in Runs \ {r} : sup[s] \in {"none", "done"}
            THEN [t \in Threads |-> IF app[t] = "waiting" THEN "idle" ELSE app[t]]
            ELSE app
  /\ UNCHANGED <<running, runs, canceled, failures, connVars, loopVars, queueVars, arg>>

-----------------------------------------------------------------------------
(* The loops of a connection.  errCh has room for one error of each.       *)

LoopOver(k) == over[k] \/ canceled[owner[k]]
Reports(k, err) == errCh' = [errCh EXCEPT ![k] = Append(@, err)]

\* ReadMessage fails: the peer, the read deadline, or the closed socket.
ReaderFails(k) ==
  /\ reader[k] = "read"
  /\ reader' = [reader EXCEPT ![k] = "done"] /\ Reports(k, "other")
  /\ UNCHANGED <<supVars, connVars, writer, keeper, hand, queueVars, appVars>>

\* A frame is read, and later dispatched and emitted, connected or not.
ReaderGets(k) ==
  /\ reader[k] = "read" /\ open[k]
  /\ reader' = [reader EXCEPT ![k] = "dispatch"]
  /\ UNCHANGED <<supVars, connVars, errCh, writer, keeper, hand, queueVars, appVars>>

ReaderDispatches(k) ==
  /\ reader[k] = "dispatch"
  /\ reader' = [reader EXCEPT ![k] = "read"]
  /\ UNCHANGED <<supVars, connVars, errCh, writer, keeper, hand, queueVars, appVars>>

\* select: the context has ended.
WriterEnds_Bug(k) ==
  /\ writer[k] = "select" /\ LoopOver(k)
  /\ writer' = [writer EXCEPT ![k] = "done"]
  /\ UNCHANGED <<supVars, connVars, errCh, reader, keeper, hand, queueVars, appVars>>

WriterEnds(k) ==
  /\ writer[k] = "select" /\ LoopOver(k)
  /\ writer' = [writer EXCEPT ![k] = "done"] /\ Reports(k, "canceled")
  /\ UNCHANGED <<supVars, connVars, reader, keeper, hand, queueVars, appVars>>

\* select: a stanza; it may be chosen although the context has ended.
WriterTakes(k) ==
  /\ writer[k] = "select" /\ sendCh # <<>>
  /\ writer' = [writer EXCEPT ![k] = "write"]
  /\ hand' = [hand EXCEPT ![k] = Head(sendCh)] /\ sendCh' = Tail(sendCh)
  /\ UNCHANGED <<supVars, connVars, errCh, reader, keeper, accepted, wire, appVars>>

WriterWrites(k) ==
  /\ writer[k] = "write" /\ open[k]
  /\ writer' = [writer EXCEPT ![k] = "select"]
  /\ wire' = IF hand[k] = KeepAliveStanza THEN wire ELSE Append(wire, hand[k])
  /\ hand' = [hand EXCEPT ![k] = 0]
  /\ UNCHANGED <<supVars, connVars, errCh, reader, keeper, sendCh, accepted, appVars>>

\* The loop goes on after an error.
WriterFails_Bug(k) ==
  /\ writer[k] = "write"
  /\ writer' = [writer EXCEPT ![k] = "select"]
  /\ Reports(k, "other")
  /\ hand' = [hand EXCEPT ![k] = 0]
  /\ UNCHANGED <<supVars, connVars, reader, keeper, queueVars, appVars>>

\* The stanza goes back to the end of the queue.
WriterFails_BugRequeue(k) ==
  /\ writer[k] = "write"
  /\ writer' = [writer EXCEPT ![k] = "done"] /\ Reports(k, "other")
  /\ hand' = [hand EXCEPT ![k] = 0]
  /\ sendCh' = IF Len(sendCh) < WriteBuffer THEN Append(sendCh, hand[k]) ELSE sendCh
  /\ UNCHANGED <<supVars, connVars, reader, keeper, accepted, wire, appVars>>

\* WriteMessage fails, at its deadline or on a closed socket: the stanza is lost.
WriterFails(k) ==
  /\ writer[k] = "write"
  /\ writer' = [writer EXCEPT ![k] = "done"] /\ Reports(k, "other")
  /\ hand' = [hand EXCEPT ![k] = 0]
  /\ UNCHANGED <<supVars, connVars, reader, keeper, queueVars, appVars>>

\* A tick finds room in the queue.
KeeperSends(k) ==
  /\ keeper[k] = "select" /\ Len(sendCh) < WriteBuffer
  /\ sendCh' = Append(sendCh, KeepAliveStanza)
  /\ UNCHANGED <<supVars, connVars, loopVars, accepted, wire, appVars>>

\* A tick that finds none is dropped.
KeeperFull_Bug(k) ==
  /\ keeper[k] = "select" /\ Len(sendCh) = WriteBuffer /\ ~LoopOver(k)
  /\ UNCHANGED vars

\* A tick that finds none ends the connection.
KeeperFull(k) ==
  /\ keeper[k] = "select" /\ Len(sendCh) = WriteBuffer /\ ~LoopOver(k)
  /\ keeper' = [keeper EXCEPT ![k] = "done"] /\ Reports(k, "other")
  /\ UNCHANGED <<supVars, connVars, reader, writer, hand, queueVars, appVars>>

\* The context has ended, and nobody is told.
KeeperEnds(k) ==
  /\ keeper[k] = "select" /\ LoopOver(k)
  /\ keeper' = [keeper EXCEPT ![k] = "done"]
  /\ UNCHANGED <<supVars, connVars, errCh, reader, writer, hand, queueVars, appVars>>

-----------------------------------------------------------------------------

SupervisorStep(r) ==
  \/ SupervisorLoop(r) \/ DialFails(r) \/ Dialed(r) \/ BackedOff(r)
  \/ (\E k \in Conns : Disconnect(r, k)) \/ MarkStopped(r) \/ SupervisorEnds(r)

LoopStep(k) ==
  \/ ReaderFails(k) \/ ReaderGets(k) \/ ReaderDispatches(k)
  \/ WriterEnds(k) \/ WriterTakes(k) \/ WriterWrites(k) \/ WriterFails(k)
  \/ KeeperSends(k) \/ KeeperFull(k) \/ KeeperEnds(k)

Next ==
  \/ \E t \in Threads : \/ Connect(t) \/ Close(t) \/ CloseCancel(t) \/ CallGivesUp(t)
                        \/ SendRaw(t) \/ SendRawQueued(t)
  \/ \E r \in Runs : ContextEnds(r) \/ SupervisorStep(r)
  \/ \E k \in Conns : LoopStep(k)

\* A write ends at its deadline; without one, only on a closed socket.
WriteReturns(k) == /\ WriteDeadline \/ ~open[k]
                   /\ WriterWrites(k) \/ WriterFails(k)

\* Dialing is bounded by its context and the handshake by its timeouts, ticks
\* come, and a goroutine that can run does.  A select that offers the end of
\* its context again and again takes it in the end, hence strong fairness.
\* A peer has to do nothing, and neither has the application.
Fairness ==
  /\ \A r \in Runs : WF_vars(SupervisorStep(r))
  /\ \A t \in Threads : WF_vars(CloseCancel(t))
  /\ \A k \in Conns : /\ SF_vars(WriterEnds(k)) /\ SF_vars(KeeperEnds(k))
                      /\ WF_vars(WriterTakes(k)) /\ WF_vars(WriteReturns(k))
                      /\ WF_vars(KeeperSends(k) \/ KeeperFull(k))

Spec == Init /\ [][Next]_vars /\ Fairness

-----------------------------------------------------------------------------
(* Properties *)

\* Every variable has its type, and errCh has room for whatever the loops of
\* its connection report, so that none of them blocks for ever.
TypeOK ==
  /\ running \in BOOLEAN /\ runs \in 0 .. MaxRuns /\ conns \in 0 .. MaxConns
  /\ current \in 0 .. MaxConns
  /\ sup \in [Runs -> {"none", "loop", "dial", "up", "backoff", "stop", "marked", "done"}]
  /\ canceled \in [Runs -> BOOLEAN] /\ failures \in [Runs -> Nat]
  /\ owner \in [Conns -> 0 .. MaxRuns]
  /\ open \in [Conns -> BOOLEAN] /\ over \in [Conns -> BOOLEAN]
  /\ errCh \in [Conns -> Seq({"other", "canceled"})]
  /\ \A k \in Conns : Len(errCh[k]) <= 3
  /\ reader \in [Conns -> {"none", "read", "dispatch", "done"}]
  /\ writer \in [Conns -> {"none", "select", "write", "done"}]
  /\ keeper \in [Conns -> {"none", "select", "done"}]
  /\ hand \in [Conns -> 0 .. MaxSends]
  /\ sendCh \in Seq(0 .. MaxSends) /\ Len(sendCh) <= WriteBuffer
  /\ accepted \in 0 .. MaxSends /\ wire \in Seq(1 .. MaxSends)
  /\ app \in [Threads -> {"idle", "canceling", "waiting", "sending"}]
  /\ arg \in [Threads -> 0 .. MaxRuns]

Alive == {"loop", "dial", "up", "backoff", "stop"}

\* Connect, Close and a supervisor that ends, in any order: `running' stands
\* for exactly one live supervisor, and an open socket is the one connection
\* that supervisor waits on, known to Client.conn (connectAndRun, markStopped).
OneSupervisor ==
  /\ Cardinality({r \in Runs : sup[r] \in Alive}) = (IF running THEN 1 ELSE 0)
  /\ \A k \in Conns : open[k] => current = k /\ sup[owner[k]] = "up"

\* A supervisor stops only because its context ended or because it used up
\* its budget, and it never dials beyond the budget; connections that worked
\* in between count too, since the counter is never reset.
StopsForAReason ==
  \A r \in Runs :
    /\ sup[r] \in {"stop", "marked", "done"} =>
         canceled[r] \/ (MaxReconnectAttempts > 0 /\ failures[r] > MaxReconnectAttempts)
    /\ sup[r] \in {"loop", "dial", "up", "backoff"} /\ MaxReconnectAttempts > 0 =>
         /\ failures[r] <= MaxReconnectAttempts
         /\ failures[r] + (IF sup[r] = "up" THEN 1 ELSE 0)
              >= Cardinality({k \in Conns : owner[k] = r})

\* Close cancels and returns, whatever the loops are doing, when writes have
\* a deadline (without one a blocked write keeps the supervisor waiting).
CloseReturns == \A t \in Threads : app[t] = "canceling" ~> app[t] = "idle"

\* Without a write deadline the keep-alive loop frees a write that hangs: its
\* ticks fill the queue, and the full queue ends the connection.
StuckWriteEnds ==
  \A k \in Conns :
    writer[k] = "write" ~> (writer[k] # "write" \/ canceled[owner[k]])

\* The queue seen by a caller of SendRaw: what the write loop of the open
\* connection holds counts as waiting, what another one holds is lost already.
InFlight == {k \in Conns : open[k] /\ writer[k] = "write"}
Waiting == ({hand[k] : k \in InFlight} \cup {sendCh[n] : n \in DOMAIN sendCh})
             \ {KeepAliveStanza}
MayLose(k) == writer[k] = "select" \/ (writer[k] = "write" /\ open[k])
Queue == INSTANCE LossyQueue WITH
           waiting <- Waiting,
           credit <- Cardinality({k \in Conns : MayLose(k)})

\* The write loops of all connections together are one lossy FIFO queue.
ImplementsQueue == Queue!Spec

\* Seen from the client facade, back-off is part of trying again.
PhaseOf(r) == CASE sup[r] = "backoff" -> "loop"
                [] sup[r] \in {"stop", "marked"} -> "done"
                [] OTHER -> sup[r]
Session == INSTANCE XMPPSession WITH Sessions <- Runs,
                                     sup <- [r \in Runs |-> PhaseOf(r)]

\* With a write deadline a supervisor with all its loops behaves like the
\* session ClientLifecycle is built on: it never dials once its context has
\* ended, and it ends (supervisor, connectAndRun).
ImplementsSession == Session!Spec
=============================================================================
