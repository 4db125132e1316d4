-------------------------- MODULE XMPPClientProofs --------------------------
(***************************************************************************)
(* Theorems about XMPPClient, for any number of threads, supervisors,      *)
(* connections and stanzas, any budget and any room in the queue.          *)
(***************************************************************************)
EXTENDS XMPPClient, FiniteSetTheorems, TLAPS

-----------------------------------------------------------------------------
(* The inductive invariant *)

\* The last supervisor started is the one that may live.
Supervised ==
  /\ \A r \in Runs : /\ sup[r] \in Alive <=> running /\ r = runs
                     /\ r > runs <=> sup[r] = "none"
                     /\ r > runs => failures[r] = 0
  /\ running => runs > 0
  /\ \A t \in Threads : app[t] = "canceling" => arg[t] \in Runs

\* The connections to come, and those there have been: one whose loops have
\* not been canceled is the one its supervisor waits on.
Unborn(k) == /\ owner[k] = 0 /\ ~open[k] /\ ~over[k]
             /\ reader[k] = "none" /\ writer[k] = "none" /\ keeper[k] = "none"
Connected ==
  \A k \in Conns :
    /\ k > conns => Unborn(k)
    /\ k <= conns => /\ owner[k] \in Runs /\ owner[k] <= runs
                     /\ over[k] \/ (sup[owner[k]] = "up" /\ current = k)
    /\ open[k] => ~over[k]

\* Each loop of a connection reports one error at most, and the end of its
\* context only after it.
Count(p) == IF p THEN 1 ELSE 0
Reported ==
  \A k \in Conns :
    /\ Len(errCh[k]) <= Count(reader[k] = "done") + Count(writer[k] = "done") + Count(keeper[k] = "done")
    /\ \A i \in 1 .. Len(errCh[k]) : errCh[k][i] = "canceled" => LoopOver(k)

ClientInv == TypeOK /\ Supervised /\ Connected /\ Reported /\ StopsForAReason

\* Stanzas leave in the order in which they came, and none of them twice
\* (client.go SendRaw, writeLoop).
WireInOrder == \A i, j \in 1 .. Len(wire) : i < j => wire[i] < wire[j]

\* What the write loop of the open connection holds comes after what has been
\* written, and before what waits in the queue.
Queued(j) == j \in 1 .. Len(sendCh) /\ sendCh[j] # KeepAliveStanza
Ordered ==
  /\ WireInOrder
  /\ \A i \in 1 .. Len(wire) : wire[i] <= accepted
  /\ \A j \in 1 .. Len(sendCh) : sendCh[j] <= accepted
  /\ \A i, j \in 1 .. Len(sendCh) : Queued(i) /\ Queued(j) /\ i < j => sendCh[i] < sendCh[j]
  /\ \A i \in 1 .. Len(wire), j \in 1 .. Len(sendCh) : Queued(j) => wire[i] < sendCh[j]
  /\ \A k \in Conns :
       /\ writer[k] # "write" => hand[k] = 0
       /\ hand[k] <= accepted
       /\ open[k] /\ hand[k] # KeepAliveStanza =>
            /\ \A i \in 1 .. Len(wire) : wire[i] < hand[k]
            /\ \A j \in 1 .. Len(sendCh) : Queued(j) => hand[k] < sendCh[j]

-----------------------------------------------------------------------------
(* What the steps have in common *)

\* A supervisor whose attempt has come to an error.
LEMMA AfterErrorEffect ==
  ASSUME TypeOK, NEW r \in Runs, NEW err, AfterError(r, err)
  PROVE  /\ sup' \in [Runs -> {"none", "loop", "dial", "up", "backoff", "stop", "marked", "done"}]
         /\ failures' \in [Runs -> Nat]
         /\ \A q \in Runs \ {r} : sup'[q] = sup[q] /\ failures'[q] = failures[q]
         /\ \/ err = "canceled" /\ sup'[r] = "stop" /\ failures'[r] = failures[r]
            \/ /\ failures'[r] = failures[r] + 1
               /\ sup'[r] = IF MaxReconnectAttempts > 0 /\ failures'[r] > MaxReconnectAttempts
                            THEN "stop" ELSE "backoff"
<1>1. sup \in [Runs -> {"none", "loop", "dial", "up", "backoff", "stop", "marked", "done"}]
      /\ failures \in [Runs -> Nat]
  BY DEF TypeOK
<1>2. CASE err = "canceled"
  BY <1>1, <1>2 DEF AfterError
<1>3. CASE err # "canceled"
  <2> DEFINE n == failures[r] + 1
             to == IF MaxReconnectAttempts > 0 /\ n > MaxReconnectAttempts THEN "stop" ELSE "backoff"
  <2>1. failures' = [failures EXCEPT ![r] = n] /\ sup' = [sup EXCEPT ![r] = to]
    BY <1>3 DEF AfterError
  <2>2. n \in Nat /\ to \in {"stop", "backoff"}
    BY <1>1
  <2> QED
    BY <1>1, <2>1, <2>2
<1> QED
  BY <1>2, <1>3

\* The loops of a connection touch what is theirs, and the queue.
LEMMA LoopEffect ==
  ASSUME TypeOK, NEW k \in Conns, LoopStep(k)
  PROVE  /\ UNCHANGED <<supVars, connVars, appVars, accepted>>
         /\ \A j \in Conns \ {k} :
              /\ errCh'[j] = errCh[j] /\ reader'[j] = reader[j] /\ writer'[j] = writer[j]
              /\ keeper'[j] = keeper[j] /\ hand'[j] = hand[j]
         /\ reader[k] # "none" \/ writer[k] # "none" \/ keeper[k] # "none"
<1> USE DEF TypeOK, Reports
<1>1. CASE ReaderFails(k) \/ ReaderGets(k) \/ ReaderDispatches(k)
  BY <1>1 DEF ReaderFails, ReaderGets, ReaderDispatches, queueVars
<1>2. CASE WriterEnds(k) \/ WriterTakes(k) \/ WriterWrites(k) \/ WriterFails(k)
  BY <1>2 DEF WriterEnds, WriterTakes, WriterWrites, WriterFails, queueVars
<1>3. CASE KeeperSends(k) \/ KeeperFull(k) \/ KeeperEnds(k)
  BY <1>3 DEF KeeperSends, KeeperFull, KeeperEnds, loopVars, queueVars
<1> QED
  BY <1>1, <1>2, <1>3 DEF LoopStep

AppStep(t) == \/ Connect(t) \/ Close(t) \/ CloseCancel(t) \/ CallGivesUp(t)
              \/ SendRaw(t) \/ SendRawQueued(t)

LEMMA AppEffect ==
  ASSUME NEW t \in Threads, AppStep(t)
  PROVE  UNCHANGED <<connVars, loopVars, failures, wire>>
BY DEF AppStep, Connect, Close, CloseCancel, CallGivesUp, SendRaw, SendRawQueued, queueVars, supVars

\* The end of a context sets its flag and does nothing else.
LEMMA ContextEffect ==
  ASSUME NEW r \in Runs, ContextEnds(r), canceled \in [Runs -> BOOLEAN]
  PROVE  /\ canceled' = [canceled EXCEPT ![r] = TRUE] /\ canceled' \in [Runs -> BOOLEAN]
         /\ \A q \in Runs : canceled[q] => canceled'[q]
         /\ UNCHANGED <<running, runs, sup, failures>>
         /\ UNCHANGED <<connVars, loopVars, queueVars, appVars>>
BY DEF ContextEnds

-----------------------------------------------------------------------------
(* The error channel of a connection *)

LEMMA ReportedFrame ==
  ASSUME NEW k \in Conns, errCh'[k] = errCh[k],
         reader[k] = "done" <=> reader'[k] = "done", writer[k] = "done" <=> writer'[k] = "done",
         keeper[k] = "done" => keeper'[k] = "done",
         errCh[k] \in Seq({"other", "canceled"}),
         errCh[k] # <<>> /\ LoopOver(k) => LoopOver(k)',
         Len(errCh[k]) <= Count(reader[k] = "done") + Count(writer[k] = "done") + Count(keeper[k] = "done"),
         \A i \in 1 .. Len(errCh[k]) : errCh[k][i] = "canceled" => LoopOver(k)
  PROVE  /\ Len(errCh'[k]) <=
              Count(reader'[k] = "done") + Count(writer'[k] = "done") + Count(keeper'[k] = "done")
         /\ \A i \in 1 .. Len(errCh'[k]) : errCh'[k][i] = "canceled" => LoopOver(k)'
<1>1. Len(errCh[k]) \in Nat /\ (errCh[k] = <<>> => Len(errCh[k]) = 0)
  OBVIOUS
<1> QED
  BY <1>1 DEF Count

LEMMA ReportedAppend ==
  ASSUME TypeOK, Reported, NEW k \in Conns, NEW err \in {"other", "canceled"}, Reports(k, err),
         err = "canceled" => LoopOver(k), UNCHANGED connVars, UNCHANGED canceled,
         \/ reader[k] # "done" /\ reader'[k] = "done" /\ writer'[k] = writer[k] /\ keeper'[k] = keeper[k]
         \/ writer[k] # "done" /\ writer'[k] = "done" /\ reader'[k] = reader[k] /\ keeper'[k] = keeper[k]
         \/ keeper[k] # "done" /\ keeper'[k] = "done" /\ reader'[k] = reader[k] /\ writer'[k] = writer[k]
  PROVE  /\ Len(errCh'[k]) <=
              Count(reader'[k] = "done") + Count(writer'[k] = "done") + Count(keeper'[k] = "done")
         /\ \A i \in 1 .. Len(errCh'[k]) : errCh'[k][i] = "canceled" => LoopOver(k)'
<1>1. errCh[k] \in Seq({"other", "canceled"}) /\ errCh'[k] = Append(errCh[k], err)
  BY DEF Reports, TypeOK
<1>2. /\ Len(errCh[k]) \in Nat /\ Len(errCh'[k]) = Len(errCh[k]) + 1
      /\ \A i \in 1 .. Len(errCh'[k]) : errCh'[k][i] = err \/ (i \in 1 .. Len(errCh[k]) /\ errCh'[k][i] = errCh[k][i])
  BY <1>1
<1>3. LoopOver(k)' = LoopOver(k)
  BY DEF LoopOver, connVars
<1>4. Len(errCh[k]) <= Count(reader[k] = "done") + Count(writer[k] = "done") + Count(keeper[k] = "done")
  BY DEF Reported
<1>5. Count(reader'[k] = "done") + Count(writer'[k] = "done") + Count(keeper'[k] = "done")
        = Count(reader[k] = "done") + Count(writer[k] = "done") + Count(keeper[k] = "done") + 1
  BY DEF Count
<1>6. Len(errCh'[k]) <= Count(reader'[k] = "done") + Count(writer'[k] = "done") + Count(keeper'[k] = "done")
  <2>1. Count(reader[k] = "done") + Count(writer[k] = "done") + Count(keeper[k] = "done") \in Nat
    BY DEF Count
  <2> QED
    BY <1>2, <1>4, <1>5, <2>1
<1>7. \A i \in 1 .. Len(errCh'[k]) : errCh'[k][i] = "canceled" => LoopOver(k)'
  BY <1>2, <1>3 DEF Reported
<1> QED
  BY <1>6, <1>7

LEMMA ReportedStep ==
  ASSUME TypeOK, Supervised, Connected, Reported, [Next]_vars
  PROVE  Reported'
<1>a. ASSUME NEW k \in Conns, k > conns PROVE errCh[k] = <<>>
  <2>a. errCh[k] \in Seq({"other", "canceled"}) /\ Len(errCh[k]) \in Nat
    BY DEF TypeOK
  <2>b. reader[k] = "none" /\ writer[k] = "none" /\ keeper[k] = "none"
    BY <1>a DEF Connected, Unborn
  <2>c. Len(errCh[k]) <= Count(reader[k] = "done") + Count(writer[k] = "done") + Count(keeper[k] = "done")
    BY DEF Reported
  <2>1. Len(errCh[k]) <= 0 /\ errCh[k] \in Seq({"other", "canceled"})
    BY <2>a, <2>b, <2>c DEF Count
  <2>2. Len(errCh[k]) \in Nat
    BY <2>1
  <2>3. Len(errCh[k]) = 0
    BY <2>1, <2>2
  <2> QED
    BY <2>1, <2>3
<1>b. \A k \in Conns :
        /\ errCh[k] \in Seq({"other", "canceled"}) /\ k \in Nat
        /\ Len(errCh[k]) <= Count(reader[k] = "done") + Count(writer[k] = "done") + Count(keeper[k] = "done")
        /\ \A i \in 1 .. Len(errCh[k]) : errCh[k][i] = "canceled" => LoopOver(k)
  <2>1. \A k \in Conns : errCh[k] \in Seq({"other", "canceled"}) /\ k \in Nat
    BY DEF TypeOK, Conns
  <2> QED
    BY <2>1 DEF Reported
<1>1. ASSUME UNCHANGED <<loopVars, owner, over>>, \A r \in Runs : canceled[r] => canceled'[r] PROVE Reported'
  <2>1. ASSUME NEW k \in Conns, errCh[k] # <<>>, LoopOver(k) PROVE LoopOver(k)'
    <3>1. owner[k] \in Runs
      BY <1>a, <2>1 DEF Connected, TypeOK, Conns
    <3> QED
      BY <1>1, <2>1, <3>1 DEF LoopOver
  <2> QED
    BY <1>1, <1>b, <2>1, ReportedFrame DEF Reported, loopVars
<1>2. ASSUME NEW t \in Threads, AppStep(t) PROVE Reported'
  <2>1. \A r \in Runs : canceled[r] => canceled'[r]
    BY <1>2 DEF AppStep, Connect, Close, CloseCancel, CallGivesUp, SendRaw, SendRawQueued, supVars, TypeOK
  <2> QED
    BY <1>1, <1>2, <2>1, AppEffect DEF connVars
<1>3. ASSUME NEW r \in Runs, \/ SupervisorLoop(r) \/ DialFails(r) \/ BackedOff(r)
                             \/ MarkStopped(r) \/ SupervisorEnds(r)
      PROVE  Reported'
  <2>1. UNCHANGED <<loopVars, owner, over, canceled>>
    BY <1>3 DEF SupervisorLoop, DialFails, BackedOff, MarkStopped, SupervisorEnds, connVars
  <2> QED
    BY <1>1, <2>1
<1>4. ASSUME NEW r \in Runs, Dialed(r) PROVE Reported'
  <2>1. conns + 1 \in Conns /\ errCh[conns + 1] = <<>>
    BY <1>4, <1>a, ClientAssumption DEF Dialed, TypeOK, Conns
  <2>2. UNCHANGED <<errCh, over, canceled>>
    BY <1>4 DEF Dialed
  <2>3. ASSUME NEW k \in Conns, k # conns + 1
        PROVE  owner'[k] = owner[k] /\ reader'[k] = reader[k] /\ writer'[k] = writer[k] /\ keeper'[k] = keeper[k]
    BY <1>4, <2>3 DEF Dialed, TypeOK
  <2>4. ASSUME NEW k \in Conns, k # conns + 1
        PROVE  /\ Len(errCh'[k]) <=
                    Count(reader'[k] = "done") + Count(writer'[k] = "done") + Count(keeper'[k] = "done")
               /\ \A i \in 1 .. Len(errCh'[k]) : errCh'[k][i] = "canceled" => LoopOver(k)'
    BY <1>b, <2>2, <2>3, <2>4, ReportedFrame DEF LoopOver
  <2>5. ASSUME NEW k \in Conns, k = conns + 1
        PROVE  /\ Len(errCh'[k]) <=
                    Count(reader'[k] = "done") + Count(writer'[k] = "done") + Count(keeper'[k] = "done")
               /\ \A i \in 1 .. Len(errCh'[k]) : errCh'[k][i] = "canceled" => LoopOver(k)'
    BY <2>1, <2>2, <2>5 DEF Count
  <2> QED
    BY <2>4, <2>5 DEF Reported
<1>5. ASSUME NEW r \in Runs, NEW k \in Conns, Disconnect(r, k) PROVE Reported'
  <2>1. /\ errCh[k] # <<>> /\ errCh[k] \in Seq({"other", "canceled"}) /\ errCh'[k] = Tail(errCh[k]) /\ over'[k]
        /\ \A j \in Conns \ {k} : errCh'[j] = errCh[j] /\ over'[j] = over[j]
        /\ UNCHANGED <<owner, canceled, reader, writer, keeper>>
    BY <1>5 DEF Disconnect, TypeOK
  <2>2. ASSUME NEW j \in Conns \ {k}
        PROVE  /\ Len(errCh'[j]) <=
                    Count(reader'[j] = "done") + Count(writer'[j] = "done") + Count(keeper'[j] = "done")
               /\ \A i \in 1 .. Len(errCh'[j]) : errCh'[j][i] = "canceled" => LoopOver(j)'
    BY <1>b, <2>1, ReportedFrame DEF LoopOver
  <2>3. Len(errCh'[k]) <= Count(reader'[k] = "done") + Count(writer'[k] = "done") + Count(keeper'[k] = "done")
    <3>1. Len(errCh'[k]) <= Len(errCh[k]) /\ Len(errCh[k]) \in Nat /\ Len(errCh'[k]) \in Nat
      BY <2>1
    <3> QED
      BY <1>b, <2>1, <3>1 DEF Count
  <2>4. LoopOver(k)'
    BY <2>1 DEF LoopOver
  <2> QED
    BY <2>2, <2>3, <2>4 DEF Reported
<1>6. ASSUME NEW k \in Conns, LoopStep(k) PROVE Reported'
  <2>1. /\ UNCHANGED <<owner, over, canceled, connVars>>
        /\ \A j \in Conns \ {k} :
             /\ errCh'[j] = errCh[j] /\ reader'[j] = reader[j] /\ writer'[j] = writer[j] /\ keeper'[j] = keeper[j]
    BY <1>6, LoopEffect DEF supVars, connVars
  <2>2. LoopOver(k)' = LoopOver(k)
    BY <2>1 DEF LoopOver
  <2>3. ASSUME NEW j \in Conns \ {k}
        PROVE  /\ Len(errCh'[j]) <=
                    Count(reader'[j] = "done") + Count(writer'[j] = "done") + Count(keeper'[j] = "done")
               /\ \A i \in 1 .. Len(errCh'[j]) : errCh'[j][i] = "canceled" => LoopOver(j)'
    BY <1>b, <2>1, ReportedFrame DEF LoopOver
  <2>4. /\ Len(errCh'[k]) <=
             Count(reader'[k] = "done") + Count(writer'[k] = "done") + Count(keeper'[k] = "done")
        /\ \A i \in 1 .. Len(errCh'[k]) : errCh'[k][i] = "canceled" => LoopOver(k)'
    <3>1. CASE errCh'[k] = errCh[k] /\ (reader[k] = "done" <=> reader'[k] = "done")
               /\ (writer[k] = "done" <=> writer'[k] = "done") /\ (keeper[k] = "done" => keeper'[k] = "done")
      BY <1>b, <2>2, <3>1, ReportedFrame
    <3>2. CASE ReaderFails(k)
      <4>1. /\ Reports(k, "other") /\ UNCHANGED <<connVars, canceled, writer, keeper>>
            /\ reader[k] # "done" /\ reader'[k] = "done"
        BY <3>2 DEF ReaderFails, supVars, TypeOK
      <4> QED
        BY <4>1, ReportedAppend
    <3>3. CASE WriterEnds(k)
      <4>1. /\ Reports(k, "canceled") /\ LoopOver(k) /\ UNCHANGED <<connVars, canceled, reader, keeper>>
            /\ writer[k] # "done" /\ writer'[k] = "done"
        BY <3>3 DEF WriterEnds, supVars, TypeOK
      <4> QED
        BY <4>1, ReportedAppend
    <3>4. CASE WriterFails(k)
      <4>1. /\ Reports(k, "other") /\ UNCHANGED <<connVars, canceled, reader, keeper>>
            /\ writer[k] # "done" /\ writer'[k] = "done"
        BY <3>4 DEF WriterFails, supVars, TypeOK
      <4> QED
        BY <4>1, ReportedAppend
    <3>5. CASE KeeperFull(k)
      <4>1. /\ Reports(k, "other") /\ UNCHANGED <<connVars, canceled, reader, writer>>
            /\ keeper[k] # "done" /\ keeper'[k] = "done"
        BY <3>5 DEF KeeperFull, supVars, TypeOK
      <4> QED
        BY <4>1, ReportedAppend
    <3>6. CASE \/ ReaderGets(k) \/ ReaderDispatches(k) \/ WriterTakes(k) \/ WriterWrites(k)
               \/ KeeperSends(k) \/ KeeperEnds(k)
      <4>1. /\ errCh'[k] = errCh[k] /\ (reader[k] = "done" <=> reader'[k] = "done")
            /\ (writer[k] = "done" <=> writer'[k] = "done") /\ (keeper[k] = "done" => keeper'[k] = "done")
        BY <3>6 DEF ReaderGets, ReaderDispatches, WriterTakes, WriterWrites, KeeperSends, KeeperEnds,
                    loopVars, TypeOK
      <4> QED
        BY <3>1, <4>1
    <3> QED
      BY <1>6, <3>2, <3>3, <3>4, <3>5, <3>6 DEF LoopStep
  <2> QED
    BY <2>3, <2>4 DEF Reported
<1>8. ASSUME NEW r \in Runs, ContextEnds(r) PROVE Reported'
  <2>1. \A q \in Runs : canceled[q] => canceled'[q]
    BY <1>8, ContextEffect DEF TypeOK
  <2>2. UNCHANGED <<loopVars, connVars>>
    BY <1>8, ContextEffect DEF TypeOK
  <2> QED
    BY <1>1, <2>1, <2>2 DEF connVars
<1>7. ASSUME UNCHANGED vars PROVE Reported'
  BY <1>1, <1>7 DEF vars, supVars, connVars
<1> QED
  BY <1>2, <1>3, <1>4, <1>5, <1>6, <1>7, <1>8 DEF Next, SupervisorStep, AppStep

-----------------------------------------------------------------------------
(* Types *)

Phases == {"none", "loop", "dial", "up", "backoff", "stop", "marked", "done"}
Errors == {"other", "canceled"}
SupTypes == /\ running \in BOOLEAN /\ runs \in 0 .. MaxRuns /\ sup \in [Runs -> Phases]
            /\ canceled \in [Runs -> BOOLEAN] /\ failures \in [Runs -> Nat]
ConnTypes == /\ conns \in 0 .. MaxConns /\ current \in 0 .. MaxConns /\ owner \in [Conns -> 0 .. MaxRuns]
             /\ open \in [Conns -> BOOLEAN] /\ over \in [Conns -> BOOLEAN]
LoopTypes == /\ errCh \in [Conns -> Seq(Errors)]
             /\ reader \in [Conns -> {"none", "read", "dispatch", "done"}]
             /\ writer \in [Conns -> {"none", "select", "write", "done"}]
             /\ keeper \in [Conns -> {"none", "select", "done"}]
             /\ hand \in [Conns -> 0 .. MaxSends]
QueueTypes == /\ sendCh \in Seq(0 .. MaxSends) /\ Len(sendCh) <= WriteBuffer
              /\ accepted \in 0 .. MaxSends /\ wire \in Seq(1 .. MaxSends)
AppTypes == /\ app \in [Threads -> {"idle", "canceling", "waiting", "sending"}]
            /\ arg \in [Threads -> 0 .. MaxRuns]

LEMMA TypeParts == TypeOK <=> /\ SupTypes /\ ConnTypes /\ LoopTypes /\ QueueTypes /\ AppTypes
                              /\ \A k \in Conns : Len(errCh[k]) <= 3
BY DEF TypeOK, SupTypes, ConnTypes, LoopTypes, QueueTypes, AppTypes, Phases, Errors

LEMMA TypeFrame ==
  /\ SupTypes /\ UNCHANGED supVars => SupTypes'
  /\ ConnTypes /\ UNCHANGED connVars => ConnTypes'
  /\ LoopTypes /\ UNCHANGED loopVars => LoopTypes'
  /\ QueueTypes /\ UNCHANGED queueVars => QueueTypes'
  /\ AppTypes /\ UNCHANGED appVars => AppTypes'
<1>1. SupTypes /\ UNCHANGED supVars => SupTypes'
  BY DEF SupTypes, supVars
<1>2. ConnTypes /\ UNCHANGED connVars => ConnTypes'
  BY DEF ConnTypes, connVars
<1>3. LoopTypes /\ UNCHANGED loopVars => LoopTypes'
  BY DEF LoopTypes, loopVars
<1>4. QueueTypes /\ UNCHANGED queueVars => QueueTypes'
  BY DEF QueueTypes, queueVars
<1>5. AppTypes /\ UNCHANGED appVars => AppTypes'
  BY DEF AppTypes, appVars
<1> QED
  BY <1>1, <1>2, <1>3, <1>4, <1>5

LEMMA TypeStep ==
  ASSUME TypeOK, Supervised, Reported', [Next]_vars
  PROVE  TypeOK'
<1> USE ClientAssumption
<1>a. SupTypes /\ ConnTypes /\ LoopTypes /\ QueueTypes /\ AppTypes
  BY TypeParts
<1>b. ASSUME SupTypes', ConnTypes', LoopTypes', QueueTypes', AppTypes' PROVE TypeOK'
  <2>1. \A k \in Conns : Len(errCh'[k]) <= 3
    <3>1. \A k \in Conns : Len(errCh'[k]) \in Nat
      BY <1>b DEF LoopTypes
    <3> QED
      BY <3>1 DEF Reported, Count
  <2> QED
    BY <1>b, <2>1 DEF TypeOK, SupTypes, ConnTypes, LoopTypes, QueueTypes, AppTypes, Phases, Errors
<1>1. ASSUME NEW t \in Threads, AppStep(t) PROVE TypeOK'
  <2>1. LoopTypes' /\ ConnTypes'
    BY <1>1, <1>a, AppEffect, TypeFrame
  <2>2. SupTypes'
    <3>1. CASE Connect(t)
      BY <1>a, <3>1 DEF Connect, SupTypes, Runs, Phases
    <3>2. CASE CloseCancel(t)
      BY <1>a, <3>2 DEF CloseCancel, SupTypes, Supervised
    <3>3. CASE UNCHANGED supVars
      BY <1>a, <3>3, TypeFrame
    <3> QED
      BY <1>1, <3>1, <3>2, <3>3 DEF AppStep, Close, CallGivesUp, SendRaw, SendRawQueued
  <2>3. QueueTypes'
    <3>1. CASE SendRawQueued(t)
      BY <1>a, <3>1 DEF SendRawQueued, QueueTypes
    <3>2. CASE UNCHANGED queueVars
      BY <1>a, <3>2, TypeFrame
    <3> QED
      BY <1>1, <3>1, <3>2 DEF AppStep, Connect, Close, CloseCancel, CallGivesUp, SendRaw
  <2>4. AppTypes'
    <3>1. CASE CloseCancel(t)
      <4>1. 0 \in 0 .. MaxRuns
        OBVIOUS
      <4> QED
        BY <1>a, <3>1, <4>1 DEF CloseCancel, AppTypes
    <3>2. CASE ~CloseCancel(t)
      BY <1>1, <1>a, <3>2 DEF AppStep, Connect, Close, CallGivesUp, SendRaw, SendRawQueued, AppTypes,
                              SupTypes, appVars
    <3> QED
      BY <3>1, <3>2
  <2> QED
    BY <1>b, <2>1, <2>2, <2>3, <2>4
<1>2. ASSUME NEW r \in Runs, \/ SupervisorLoop(r) \/ DialFails(r) \/ BackedOff(r) \/ MarkStopped(r)
                             \/ SupervisorEnds(r)
      PROVE  TypeOK'
  <2>1. LoopTypes' /\ QueueTypes'
    BY <1>2, <1>a, TypeFrame DEF SupervisorLoop, DialFails, BackedOff, MarkStopped, SupervisorEnds
  <2>2. ConnTypes'
    <3>1. CASE MarkStopped(r)
      <4>1. open \in [Conns -> BOOLEAN] /\ 0 \in 0 .. MaxConns
        BY <1>a DEF ConnTypes
      <4>2. open' \in [Conns -> BOOLEAN] /\ current' = 0 /\ UNCHANGED <<conns, owner, over>>
        BY <3>1, <4>1 DEF MarkStopped
      <4> QED
        BY <1>a, <4>1, <4>2 DEF ConnTypes
    <3>2. CASE UNCHANGED connVars
      BY <1>a, <3>2, TypeFrame
    <3> QED
      BY <1>2, <3>1, <3>2 DEF SupervisorLoop, DialFails, BackedOff, SupervisorEnds
  <2>3. SupTypes'
    <3>1. CASE DialFails(r)
      BY <1>a, <3>1, AfterErrorEffect DEF DialFails, SupTypes, Phases
    <3>2. CASE ~DialFails(r)
      BY <1>2, <1>a, <3>2 DEF SupervisorLoop, BackedOff, MarkStopped, SupervisorEnds, SupTypes, Phases
    <3> QED
      BY <3>1, <3>2
  <2>4. AppTypes'
    BY <1>2, <1>a DEF SupervisorLoop, DialFails, BackedOff, MarkStopped, SupervisorEnds, AppTypes, appVars
  <2> QED
    BY <1>b, <2>1, <2>2, <2>3, <2>4
<1>3. ASSUME NEW r \in Runs, Dialed(r) PROVE TypeOK'
  <2>1. QueueTypes' /\ AppTypes'
    BY <1>3, <1>a, TypeFrame DEF Dialed
  <2>2. SupTypes'
    BY <1>3, <1>a DEF Dialed, SupTypes, Phases
  <2>3. ConnTypes'
    <3>1. conns + 1 \in 0 .. MaxConns /\ r \in 0 .. MaxRuns
      BY <1>3, <1>a DEF Dialed, ConnTypes, Runs
    <3>2. /\ conns' = conns + 1 /\ current' = conns + 1 /\ over' = over
          /\ owner' = [owner EXCEPT ![conns + 1] = r] /\ open' = [open EXCEPT ![conns + 1] = TRUE]
      BY <1>3 DEF Dialed
    <3>3. owner' \in [Conns -> 0 .. MaxRuns]
      BY <1>a, <3>1, <3>2 DEF ConnTypes
    <3>4. open' \in [Conns -> BOOLEAN]
      BY <1>a, <3>2 DEF ConnTypes
    <3> QED
      BY <1>a, <3>1, <3>2, <3>3, <3>4 DEF ConnTypes
  <2>4. LoopTypes'
    BY <1>3, <1>a DEF Dialed, LoopTypes
  <2> QED
    BY <1>b, <2>1, <2>2, <2>3, <2>4
<1>4. ASSUME NEW r \in Runs, NEW k \in Conns, Disconnect(r, k) PROVE TypeOK'
  <2>1. QueueTypes' /\ AppTypes'
    BY <1>4, <1>a, TypeFrame DEF Disconnect
  <2>2. SupTypes'
    BY <1>4, <1>a, AfterErrorEffect DEF Disconnect, SupTypes, Phases
  <2>3. ConnTypes'
    BY <1>4, <1>a DEF Disconnect, ConnTypes
  <2>4. LoopTypes'
    <3>1. errCh[k] \in Seq(Errors) /\ errCh[k] # <<>>
      BY <1>4, <1>a DEF Disconnect, LoopTypes
    <3>2. Tail(errCh[k]) \in Seq(Errors)
      BY <3>1
    <3> QED
      BY <1>4, <1>a, <3>2 DEF Disconnect, LoopTypes
  <2> QED
    BY <1>b, <2>1, <2>2, <2>3, <2>4
<1>5. ASSUME NEW k \in Conns, LoopStep(k) PROVE TypeOK'
  <2>1. SupTypes' /\ ConnTypes' /\ AppTypes'
    BY <1>5, <1>a, LoopEffect, TypeFrame
  <2>1a. /\ errCh \in [Conns -> Seq(Errors)]
         /\ \A err \in Errors : [errCh EXCEPT ![k] = Append(@, err)] \in [Conns -> Seq(Errors)]
    <3>1. errCh \in [Conns -> Seq(Errors)]
      BY <1>a DEF LoopTypes
    <3>2. \A err \in Errors : Append(errCh[k], err) \in Seq(Errors)
      BY <3>1
    <3> QED
      BY <3>1, <3>2
  <2>1b. ASSUME NEW err \in Errors, Reports(k, err) PROVE errCh' \in [Conns -> Seq(Errors)]
    BY <2>1a, <2>1b DEF Reports
  <2>1c. "other" \in Errors /\ "canceled" \in Errors
    BY DEF Errors
  <2>2. CASE ReaderFails(k) \/ ReaderGets(k) \/ ReaderDispatches(k) \/ WriterEnds(k)
    <3>1. LoopTypes'
      <4>1. errCh' \in [Conns -> Seq(Errors)]
        BY <2>1a, <2>1b, <2>1c, <2>2 DEF ReaderFails, ReaderGets, ReaderDispatches, WriterEnds
      <4> QED
        BY <1>a, <2>2, <4>1 DEF ReaderFails, ReaderGets, ReaderDispatches, WriterEnds, LoopTypes
    <3> QED
      BY <1>a, <1>b, <2>1, <2>2, <3>1, TypeFrame DEF ReaderFails, ReaderGets, ReaderDispatches, WriterEnds
  <2>3. CASE WriterTakes(k)
    <3>1. Head(sendCh) \in 0 .. MaxSends /\ Tail(sendCh) \in Seq(0 .. MaxSends)
          /\ Len(Tail(sendCh)) <= WriteBuffer
      BY <1>a, <2>3 DEF WriterTakes, QueueTypes
    <3>2. LoopTypes' /\ QueueTypes'
      BY <1>a, <2>3, <3>1 DEF WriterTakes, LoopTypes, QueueTypes
    <3> QED
      BY <1>b, <2>1, <3>2
  <2>4. CASE WriterWrites(k)
    <3>1. hand[k] # 0 => hand[k] \in 1 .. MaxSends
      BY <1>a DEF LoopTypes
    <3>2. wire' \in Seq(1 .. MaxSends)
      <4>1. wire \in Seq(1 .. MaxSends)
        BY <1>a DEF QueueTypes
      <4>2. ASSUME hand[k] # 0 PROVE Append(wire, hand[k]) \in Seq(1 .. MaxSends)
        BY <3>1, <4>1, <4>2
      <4>3. wire' = IF hand[k] = 0 THEN wire ELSE Append(wire, hand[k])
        BY <2>4 DEF WriterWrites, KeepAliveStanza
      <4> QED
        BY <4>1, <4>2, <4>3
    <3>3. LoopTypes' /\ QueueTypes'
      BY <1>a, <2>4, <3>2 DEF WriterWrites, LoopTypes, QueueTypes
    <3> QED
      BY <1>b, <2>1, <3>3
  <2>5. CASE WriterFails(k) \/ KeeperFull(k) \/ KeeperEnds(k)
    <3>1. LoopTypes'
      <4>1. errCh' \in [Conns -> Seq(Errors)]
        BY <2>1a, <2>1b, <2>1c, <2>5 DEF WriterFails, KeeperFull, KeeperEnds
      <4>2. 0 \in 0 .. MaxSends /\ hand \in [Conns -> 0 .. MaxSends]
        BY <1>a DEF LoopTypes
      <4>3. hand' \in [Conns -> 0 .. MaxSends]
        BY <2>5, <4>2 DEF WriterFails, KeeperFull, KeeperEnds
      <4>4. /\ reader' \in [Conns -> {"none", "read", "dispatch", "done"}]
            /\ writer' \in [Conns -> {"none", "select", "write", "done"}]
            /\ keeper' \in [Conns -> {"none", "select", "done"}]
        BY <1>a, <2>5 DEF WriterFails, KeeperFull, KeeperEnds, LoopTypes
      <4> QED
        BY <4>1, <4>3, <4>4 DEF LoopTypes
    <3> QED
      BY <1>a, <1>b, <2>1, <2>5, <3>1, TypeFrame DEF WriterFails, KeeperFull, KeeperEnds
  <2>6. CASE KeeperSends(k)
    <3>1. QueueTypes'
      BY <1>a, <2>6 DEF KeeperSends, QueueTypes, KeepAliveStanza
    <3> QED
      BY <1>a, <1>b, <2>1, <2>6, <3>1, TypeFrame DEF KeeperSends
  <2> QED
    BY <1>5, <2>2, <2>3, <2>4, <2>5, <2>6 DEF LoopStep
<1>7. ASSUME NEW r \in Runs, ContextEnds(r) PROVE TypeOK'
  <2>1. SupTypes'
    BY <1>7, <1>a, ContextEffect DEF SupTypes
  <2>2. LoopTypes' /\ ConnTypes' /\ QueueTypes' /\ AppTypes'
    BY <1>7, <1>a, ContextEffect, TypeFrame DEF SupTypes
  <2> QED
    BY <1>b, <2>1, <2>2
<1>6. ASSUME UNCHANGED vars PROVE TypeOK'
  BY <1>6, <1>a, <1>b, TypeFrame DEF vars
<1> QED
  BY <1>1, <1>2, <1>3, <1>4, <1>5, <1>6, <1>7 DEF Next, SupervisorStep, AppStep

-----------------------------------------------------------------------------
(* One supervisor *)

LEMMA SupervisedStep ==
  ASSUME TypeOK, Supervised, [Next]_vars
  PROVE  Supervised'
<1>a. /\ sup \in [Runs -> Phases] /\ failures \in [Runs -> Nat] /\ runs \in 0 .. MaxRuns /\ MaxRuns \in Nat
      /\ arg \in [Threads -> 0 .. MaxRuns] /\ app \in [Threads -> {"idle", "canceling", "waiting", "sending"}]
      /\ running \in BOOLEAN
  BY ClientAssumption DEF TypeOK, Phases
<1>b. ASSUME UNCHANGED <<running, runs, app, arg>>,
             NEW r \in Runs, sup[r] # "none", sup'[r] # "none", sup[r] \in Alive <=> sup'[r] \in Alive,
             \A q \in Runs \ {r} : sup'[q] = sup[q] /\ failures'[q] = failures[q]
      PROVE  Supervised'
  <2>1. \A q \in Runs : /\ sup'[q] \in Alive <=> sup[q] \in Alive
                        /\ sup'[q] = "none" <=> sup[q] = "none"
                        /\ sup'[q] = "none" => failures'[q] = failures[q]
    BY <1>b
  <2> QED
    BY <1>b, <2>1 DEF Supervised
<1>1. ASSUME NEW t \in Threads, AppStep(t) PROVE Supervised'
  <2>1. CASE Connect(t)
    <3>1. /\ ~running /\ runs < MaxRuns /\ running' = TRUE /\ runs' = runs + 1
          /\ sup' = [sup EXCEPT ![runs + 1] = "loop"] /\ UNCHANGED <<failures, app, arg>>
      BY <2>1 DEF Connect, appVars
    <3>2. runs + 1 \in Runs
      BY <1>a, <3>1 DEF Runs
    <3>3. \A q \in Runs : sup'[q] = IF q = runs + 1 THEN "loop" ELSE sup[q]
      BY <1>a, <3>1
    <3>4. ASSUME NEW q \in Runs
          PROVE  /\ sup'[q] \in Alive <=> running' /\ q = runs'
                 /\ q > runs' <=> sup'[q] = "none"
                 /\ q > runs' => failures'[q] = 0
      <4>0. q \in Nat /\ runs \in Nat
        BY <1>a DEF Runs
      <4>1. CASE q = runs + 1
        BY <3>1, <3>3, <4>0, <4>1 DEF Alive
      <4>2. CASE q # runs + 1
        <5>1. sup'[q] = sup[q] /\ sup[q] \notin Alive
          BY <3>1, <3>3, <4>2 DEF Supervised
        <5>2. q > runs' <=> q > runs
          BY <3>1, <4>0, <4>2
        <5> QED
          BY <3>1, <4>2, <5>1, <5>2 DEF Supervised
      <4> QED
        BY <4>1, <4>2
    <3>5. runs' > 0
      BY <1>a, <3>1
    <3> QED
      BY <3>1, <3>4, <3>5 DEF Supervised
  <2>2. CASE Close(t)
    <3>1. runs \in Runs
      BY <1>a, <2>2 DEF Close, Supervised, Runs
    <3>2. \A u \in Threads : app'[u] = "canceling" => arg'[u] \in Runs
      BY <1>a, <2>2, <3>1 DEF Close, Supervised
    <3> QED
      BY <2>2, <3>2 DEF Close, Supervised, supVars
  <2>3. CASE CloseCancel(t) \/ CallGivesUp(t) \/ SendRaw(t) \/ SendRawQueued(t)
    <3>1. UNCHANGED <<running, runs, sup, failures>>
      BY <2>3 DEF CloseCancel, CallGivesUp, SendRaw, SendRawQueued, supVars
    <3>2. \A u \in Threads : app'[u] = "canceling" => app[u] = "canceling" /\ arg'[u] = arg[u]
      BY <1>a, <2>3 DEF CloseCancel, CallGivesUp, SendRaw, SendRawQueued
    <3> QED
      BY <3>1, <3>2 DEF Supervised
  <2> QED
    BY <1>1, <2>1, <2>2, <2>3 DEF AppStep
<1>2. ASSUME NEW r \in Runs, SupervisorLoop(r) \/ BackedOff(r) PROVE Supervised'
  <2>1. UNCHANGED <<running, runs, app, arg, failures>>
    BY <1>2 DEF SupervisorLoop, BackedOff, appVars
  <2>2. /\ sup[r] \in Alive /\ sup'[r] \in Alive /\ sup[r] # "none" /\ sup'[r] # "none"
        /\ \A q \in Runs \ {r} : sup'[q] = sup[q]
    BY <1>2, <1>a DEF SupervisorLoop, BackedOff, Alive
  <2> QED
    BY <1>b, <2>1, <2>2
<1>3. ASSUME NEW r \in Runs, \/ DialFails(r) \/ \E k \in Conns : Disconnect(r, k) PROVE Supervised'
  <2>1. UNCHANGED <<running, runs, app, arg>>
    BY <1>3 DEF DialFails, Disconnect, appVars
  <2>2. PICK err : AfterError(r, err)
    BY <1>3 DEF DialFails, Disconnect
  <2>3. sup[r] \in Alive /\ sup[r] # "none"
    BY <1>3 DEF DialFails, Disconnect, Alive
  <2>4. /\ sup'[r] \in Alive /\ sup'[r] # "none"
        /\ \A q \in Runs \ {r} : sup'[q] = sup[q] /\ failures'[q] = failures[q]
    BY <2>2, AfterErrorEffect DEF Alive
  <2> QED
    BY <1>b, <2>1, <2>3, <2>4
<1>4. ASSUME NEW r \in Runs, Dialed(r) PROVE Supervised'
  <2>1. UNCHANGED <<running, runs, app, arg, failures>>
    BY <1>4 DEF Dialed, appVars
  <2>2. /\ sup[r] \in Alive /\ sup'[r] \in Alive /\ sup[r] # "none" /\ sup'[r] # "none"
        /\ \A q \in Runs \ {r} : sup'[q] = sup[q]
    BY <1>4, <1>a DEF Dialed, Alive
  <2> QED
    BY <1>b, <2>1, <2>2
<1>5. ASSUME NEW r \in Runs, MarkStopped(r) PROVE Supervised'
  <2>1. sup[r] = "stop" /\ sup' = [sup EXCEPT ![r] = "marked"] /\ ~running' /\ UNCHANGED <<runs, failures, app, arg>>
    BY <1>5 DEF MarkStopped, appVars
  <2>2. running /\ r = runs
    BY <2>1 DEF Supervised, Alive
  <2>3. \A q \in Runs : sup'[q] = IF q = r THEN "marked" ELSE sup[q]
    BY <1>a, <2>1
  <2>4. \A q \in Runs : sup'[q] \notin Alive /\ (sup'[q] = "none" <=> sup[q] = "none")
    BY <2>1, <2>2, <2>3 DEF Supervised, Alive
  <2> QED
    BY <2>1, <2>4 DEF Supervised
<1>6. ASSUME NEW r \in Runs, SupervisorEnds(r) PROVE Supervised'
  <2>1. sup[r] = "marked" /\ sup' = [sup EXCEPT ![r] = "done"] /\ UNCHANGED <<running, runs, failures, arg>>
    BY <1>6 DEF SupervisorEnds
  <2>2. \A q \in Runs : /\ sup'[q] \in Alive <=> sup[q] \in Alive
                        /\ sup'[q] = "none" <=> sup[q] = "none"
    BY <1>a, <2>1 DEF Alive
  <2>3. \A t \in Threads : app'[t] = "canceling" => app[t] = "canceling"
    BY <1>a, <1>6 DEF SupervisorEnds
  <2> QED
    BY <2>1, <2>2, <2>3 DEF Supervised
<1>7. ASSUME NEW k \in Conns, LoopStep(k) PROVE Supervised'
  <2>1. UNCHANGED <<supVars, appVars>>
    BY <1>7, LoopEffect
  <2> QED
    BY <2>1 DEF Supervised, supVars, appVars
<1>9. ASSUME NEW r \in Runs, ContextEnds(r) PROVE Supervised'
  <2>1. UNCHANGED <<running, runs, sup, failures, appVars>>
    BY <1>9, ContextEffect DEF TypeOK
  <2> QED
    BY <2>1 DEF Supervised, appVars
<1>8. ASSUME UNCHANGED vars PROVE Supervised'
  BY <1>8 DEF Supervised, vars, supVars, appVars
<1> QED
  BY <1>1, <1>2, <1>3, <1>4, <1>5, <1>6, <1>7, <1>8, <1>9 DEF Next, SupervisorStep, AppStep

-----------------------------------------------------------------------------
(* One connection *)

LEMMA ConnectedStep ==
  ASSUME TypeOK, Supervised, Connected, [Next]_vars
  PROVE  Connected'
<1>a. /\ sup \in [Runs -> Phases] /\ runs \in Nat /\ conns \in Nat /\ MaxConns \in Nat /\ MaxRuns \in Nat
      /\ owner \in [Conns -> 0 .. MaxRuns] /\ open \in [Conns -> BOOLEAN] /\ over \in [Conns -> BOOLEAN]
      /\ current \in 0 .. MaxConns
  BY ClientAssumption DEF TypeOK, Phases
<1>b. ASSUME UNCHANGED <<connVars, loopVars>>, runs <= runs', runs' \in Nat,
             \A q \in Runs : q <= runs /\ sup[q] = "up" => sup'[q] = "up"
      PROVE  Connected'
  <2>1. \A q \in Runs : q <= runs => q <= runs'
    BY <1>a, <1>b DEF Runs
  <2> QED
    BY <1>b, <2>1 DEF Connected, Unborn, connVars, loopVars
<1>c. ASSUME NEW r \in Runs, sup[r] \in Alive \ {"up"}, NEW k \in Conns, k <= conns
      PROVE  over[k] /\ ~open[k]
  BY <1>c DEF Connected, Supervised, Alive
<1>1. ASSUME NEW t \in Threads, AppStep(t) PROVE Connected'
  <2>1. CASE Connect(t)
    <3>1. runs' = runs + 1 /\ sup' = [sup EXCEPT ![runs + 1] = "loop"]
      BY <2>1 DEF Connect
    <3>2. \A q \in Runs : q <= runs => sup'[q] = sup[q]
      BY <1>a, <3>1 DEF Runs
    <3> QED
      BY <1>1, <1>a, <1>b, <3>1, <3>2, AppEffect
  <2>2. CASE UNCHANGED <<runs, sup>>
    BY <1>1, <1>a, <1>b, <2>2, AppEffect
  <2> QED
    BY <1>1, <2>1, <2>2 DEF AppStep, Close, CloseCancel, CallGivesUp, SendRaw, SendRawQueued, supVars
<1>2. ASSUME NEW r \in Runs, \/ SupervisorLoop(r) \/ DialFails(r) \/ BackedOff(r) \/ SupervisorEnds(r)
      PROVE  Connected'
  <2>1. UNCHANGED <<connVars, loopVars, runs>> /\ sup[r] # "up"
    BY <1>2 DEF SupervisorLoop, DialFails, BackedOff, SupervisorEnds
  <2>2. \A q \in Runs \ {r} : sup'[q] = sup[q]
    <3>1. CASE DialFails(r)
      BY <3>1, AfterErrorEffect DEF DialFails
    <3> QED
      BY <1>2, <1>a, <3>1 DEF SupervisorLoop, BackedOff, SupervisorEnds
  <2> QED
    BY <1>a, <1>b, <2>1, <2>2
<1>3. ASSUME NEW r \in Runs, Dialed(r) PROVE Connected'
  <2> DEFINE new == conns + 1
  <2>1. /\ new \in Conns /\ conns' = new /\ current' = new /\ UNCHANGED <<runs, over>>
        /\ owner' = [owner EXCEPT ![new] = r] /\ open' = [open EXCEPT ![new] = TRUE]
        /\ sup' = [sup EXCEPT ![r] = "up"] /\ sup[r] = "dial"
    BY <1>3, <1>a DEF Dialed, Conns
  <2>2. r = runs
    BY <2>1 DEF Supervised, Alive
  <2>3. ASSUME NEW k \in Conns, k # new
        PROVE  /\ reader'[k] = reader[k] /\ writer'[k] = writer[k] /\ keeper'[k] = keeper[k]
               /\ owner'[k] = owner[k] /\ open'[k] = open[k] /\ over'[k] = over[k]
    BY <1>3, <1>a, <2>1, <2>3 DEF Dialed, TypeOK
  <2>4. ASSUME NEW k \in Conns
        PROVE  /\ k > conns' => Unborn(k)'
               /\ k <= conns' => /\ owner'[k] \in Runs /\ owner'[k] <= runs'
                                 /\ over'[k] \/ (sup'[owner'[k]] = "up" /\ current' = k)
               /\ open'[k] => ~over'[k]
    <3>0. k \in Nat
      BY DEF Conns
    <3>1. CASE k < new
      <4>1. k <= conns /\ k # new /\ ~(k > conns')
        BY <1>a, <2>1, <3>0, <3>1
      <4>2. over[k]
        BY <1>c, <2>1, <4>1 DEF Alive
      <4> QED
        BY <2>1, <2>3, <4>1, <4>2 DEF Connected
    <3>2. CASE k = new
      <4>1. k > conns /\ k <= conns' /\ ~(k > conns')
        BY <1>a, <2>1, <3>0, <3>2
      <4>2. ~over[k]
        BY <4>1 DEF Connected, Unborn
      <4>3. owner'[k] = r /\ sup'[r] = "up" /\ current' = k
        BY <1>a, <2>1, <3>2
      <4>4. runs <= runs
        BY <1>a
      <4> QED
        BY <2>1, <2>2, <4>1, <4>2, <4>3, <4>4
    <3>3. CASE k > new
      <4>1. k > conns /\ k # new /\ ~(k <= conns')
        BY <1>a, <2>1, <3>0, <3>3
      <4> QED
        BY <2>3, <4>1 DEF Connected, Unborn
    <3> QED
      BY <1>a, <3>0, <3>1, <3>2, <3>3
  <2> QED
    BY <2>4 DEF Connected
<1>4. ASSUME NEW r \in Runs, NEW k \in Conns, Disconnect(r, k) PROVE Connected'
  <2>1. /\ owner[k] = r /\ ~over[k] /\ open' = [open EXCEPT ![k] = FALSE] /\ over' = [over EXCEPT ![k] = TRUE]
        /\ UNCHANGED <<runs, conns, owner, reader, writer, keeper>>
        /\ \E err : AfterError(r, err)
    BY <1>4 DEF Disconnect
  <2>2. k <= conns /\ current = k
    <3>1. owner[k] # 0
      BY <2>1 DEF Runs
    <3> QED
      BY <1>a, <2>1, <3>1 DEF Connected, Unborn, Conns
  <2>3. \A j \in Conns : /\ over'[j] <=> over[j] \/ j = k
                         /\ open'[j] <=> open[j] /\ j # k
    BY <1>a, <2>1
  <2>4. \A j \in Conns : j <= conns => over'[j]
    BY <2>2, <2>3 DEF Connected
  <2>5. \A j \in Conns : j > conns => Unborn(j)'
    <3>1. ~(k > conns)
      BY <1>a, <2>2 DEF Conns
    <3> QED
      BY <2>1, <2>3, <3>1 DEF Connected, Unborn
  <2>6. \A j \in Conns : open'[j] => ~over'[j]
    BY <2>3 DEF Connected
  <2> QED
    BY <2>1, <2>4, <2>5, <2>6 DEF Connected
<1>5. ASSUME NEW r \in Runs, MarkStopped(r) PROVE Connected'
  <2>1. sup[r] = "stop" /\ UNCHANGED <<runs, conns, owner, over, loopVars>>
    BY <1>5 DEF MarkStopped
  <2>2. \A k \in Conns : open'[k] => open[k]
    BY <1>5, <1>a DEF MarkStopped
  <2>3. \A k \in Conns : k <= conns => over'[k]
    BY <1>c, <2>1 DEF Alive
  <2> QED
    BY <1>a, <2>1, <2>2, <2>3 DEF Connected, Unborn, loopVars
<1>6. ASSUME NEW k \in Conns, LoopStep(k) PROVE Connected'
  <2>1. UNCHANGED <<supVars, connVars>>
    BY <1>6, LoopEffect
  <2>2. ~(k > conns)
    BY <1>6, LoopEffect DEF Connected, Unborn
  <2>3. \A j \in Conns : j > conns => Unborn(j)'
    BY <1>6, <2>1, <2>2, LoopEffect DEF Connected, Unborn, connVars
  <2> QED
    BY <2>1, <2>3 DEF Connected, supVars, connVars
<1>8. ASSUME NEW r \in Runs, ContextEnds(r) PROVE Connected'
  <2>1. UNCHANGED <<connVars, loopVars, runs, sup>>
    BY <1>8, ContextEffect DEF TypeOK
  <2> QED
    BY <1>a, <1>b, <2>1
<1>7. ASSUME UNCHANGED vars PROVE Connected'
  BY <1>7, <1>a, <1>b DEF vars, supVars
<1> QED
  BY <1>1, <1>2, <1>3, <1>4, <1>5, <1>6, <1>7, <1>8 DEF Next, SupervisorStep, AppStep

-----------------------------------------------------------------------------
(* Why a supervisor stops *)

Owned(r) == {k \in Conns : owner[k] = r}

LEMMA OwnedCount == \A r : IsFiniteSet(Owned(r)) /\ Cardinality(Owned(r)) \in Nat
<1> TAKE r
<1>1. IsFiniteSet(Conns)
  BY ClientAssumption, FS_Interval DEF Conns
<1>2. Owned(r) \subseteq Conns
  BY DEF Owned
<1> QED
  BY <1>1, <1>2, FS_Subset, FS_CardinalityType

\* StopsForAReason for one supervisor.
Reason(r) ==
  /\ sup[r] \in {"stop", "marked", "done"} =>
       canceled[r] \/ (MaxReconnectAttempts > 0 /\ failures[r] > MaxReconnectAttempts)
  /\ sup[r] \in {"loop", "dial", "up", "backoff"} /\ MaxReconnectAttempts > 0 =>
       /\ failures[r] <= MaxReconnectAttempts
       /\ failures[r] + (IF sup[r] = "up" THEN 1 ELSE 0) >= Cardinality(Owned(r))

LEMMA ReasonFrame ==
  ASSUME NEW r \in Runs, Reason(r), sup'[r] = sup[r], failures'[r] = failures[r],
         canceled[r] => canceled'[r], Owned(r)' = Owned(r)
  PROVE  Reason(r)'
BY DEF Reason

\* An attempt that ends, with the context or with a failure that is counted.
LEMMA ReasonAfterError ==
  ASSUME TypeOK, NEW r \in Runs, Reason(r), sup[r] \in {"dial", "up"}, NEW err, AfterError(r, err),
         err = "canceled" => canceled[r], UNCHANGED <<canceled, owner>>
  PROVE  \A q \in Runs : Reason(q) => Reason(q)'
<1>1. /\ \A q \in Runs \ {r} : sup'[q] = sup[q] /\ failures'[q] = failures[q]
      /\ \/ err = "canceled" /\ sup'[r] = "stop" /\ failures'[r] = failures[r]
         \/ /\ failures'[r] = failures[r] + 1
            /\ sup'[r] = IF MaxReconnectAttempts > 0 /\ failures'[r] > MaxReconnectAttempts
                         THEN "stop" ELSE "backoff"
  BY AfterErrorEffect
<1>2. \A q \in Runs : Owned(q)' = Owned(q)
  BY DEF Owned
<1>3. failures[r] \in Nat /\ MaxReconnectAttempts \in Nat
  BY ClientAssumption DEF TypeOK
<1>4. Reason(r)'
  <2> DEFINE card == Cardinality(Owned(r))
  <2>1. card \in Nat /\ Cardinality(Owned(r))' = card
    BY <1>2, OwnedCount
  <2>2. CASE err = "canceled" /\ sup'[r] = "stop" /\ failures'[r] = failures[r]
    BY <2>2 DEF Reason
  <2>3. CASE failures'[r] = failures[r] + 1 /\ MaxReconnectAttempts > 0 /\ failures'[r] > MaxReconnectAttempts
             /\ sup'[r] = "stop"
    BY <2>3 DEF Reason
  <2>4. CASE failures'[r] = failures[r] + 1 /\ ~(MaxReconnectAttempts > 0 /\ failures'[r] > MaxReconnectAttempts)
             /\ sup'[r] = "backoff"
    <3>1. MaxReconnectAttempts > 0 => failures'[r] <= MaxReconnectAttempts
      BY <1>3, <2>4
    <3>2. MaxReconnectAttempts > 0 => failures[r] + (IF sup[r] = "up" THEN 1 ELSE 0) >= card
      BY DEF Reason
    <3>3. MaxReconnectAttempts > 0 => failures'[r] + 0 >= card
      BY <1>3, <2>1, <2>4, <3>2
    <3> QED
      BY <2>1, <2>4, <3>1, <3>3 DEF Reason
  <2> QED
    BY <1>1, <2>2, <2>3, <2>4
<1> QED
  BY <1>1, <1>2, <1>4, ReasonFrame

LEMMA StopsStep ==
  ASSUME TypeOK, Supervised, Connected, Reported, StopsForAReason, [Next]_vars
  PROVE  StopsForAReason'
<1>a. \A r \in Runs : Reason(r)
  BY DEF StopsForAReason, Reason, Owned
<1>b. ASSUME \A r \in Runs : Reason(r)' PROVE StopsForAReason'
  BY <1>b DEF StopsForAReason, Reason, Owned
<1>c. /\ sup \in [Runs -> Phases] /\ canceled \in [Runs -> BOOLEAN] /\ failures \in [Runs -> Nat]
      /\ runs \in Nat /\ conns \in Nat /\ MaxConns \in Nat /\ MaxRuns \in Nat /\ MaxReconnectAttempts \in Nat
      /\ owner \in [Conns -> 0 .. MaxRuns]
  BY ClientAssumption DEF TypeOK, Phases
<1>d. ASSUME UNCHANGED owner PROVE \A r \in Runs : Owned(r)' = Owned(r)
  BY <1>d DEF Owned
<1>1. ASSUME NEW t \in Threads, AppStep(t) PROVE StopsForAReason'
  <2>1. UNCHANGED <<owner, failures>> /\ \A r \in Runs : canceled[r] => canceled'[r]
    <3>1. UNCHANGED <<owner, failures>>
      BY <1>1, AppEffect DEF connVars
    <3>2. \A r \in Runs : canceled[r] => canceled'[r]
      BY <1>1, <1>c DEF AppStep, Connect, Close, CloseCancel, CallGivesUp, SendRaw, SendRawQueued, supVars
    <3> QED
      BY <3>1, <3>2
  <2>2. CASE Connect(t)
    <3>0. runs + 1 \in Runs /\ sup' = [sup EXCEPT ![runs + 1] = "loop"]
      BY <1>c, <2>2 DEF Connect, Runs
    <3>1. PICK new \in Runs : new = runs + 1 /\ sup' = [sup EXCEPT ![new] = "loop"]
      BY <3>0
    <3>2. failures[new] = 0 /\ failures'[new] = 0
      BY <1>c, <2>1, <3>1 DEF Supervised
    <3>3. \A k \in Conns : owner[k] # new
      <4>1. \A k \in Conns : k > conns \/ k <= conns
        BY <1>c DEF Conns
      <4>2. \A k \in Conns : owner[k] = 0 \/ owner[k] <= runs
        BY <4>1 DEF Connected, Unborn
      <4> QED
        BY <1>c, <3>1, <4>2
    <3>4. Owned(new) = {} /\ Cardinality(Owned(new)) = 0
      BY <3>3, FS_EmptySet DEF Owned
    <3>5. Cardinality(Owned(new))' = 0 /\ sup'[new] = "loop"
      BY <1>c, <2>1, <3>1, <3>4 DEF Owned
    <3>6. Reason(new)'
      <4>1. 0 <= MaxReconnectAttempts /\ 0 + 0 >= 0
        BY <1>c
      <4> QED
        BY <3>2, <3>5, <4>1 DEF Reason
    <3>7. \A r \in Runs \ {new} : sup'[r] = sup[r]
      BY <1>c, <3>1
    <3> QED
      BY <1>a, <1>b, <1>d, <2>1, <3>6, <3>7, ReasonFrame
  <2>3. CASE UNCHANGED sup
    BY <1>a, <1>b, <1>d, <2>1, <2>3, ReasonFrame
  <2> QED
    BY <1>1, <2>2, <2>3 DEF AppStep, Close, CloseCancel, CallGivesUp, SendRaw, SendRawQueued, supVars
<1>2. ASSUME NEW r \in Runs, SupervisorLoop(r) \/ BackedOff(r) \/ MarkStopped(r) \/ SupervisorEnds(r)
      PROVE  StopsForAReason'
  <2>1. UNCHANGED <<owner, failures, canceled>>
    BY <1>2 DEF SupervisorLoop, BackedOff, MarkStopped, SupervisorEnds, connVars
  <2>2. /\ \A q \in Runs \ {r} : sup'[q] = sup[q]
        /\ \/ sup[r] = "loop" /\ sup'[r] = "dial"
           \/ sup[r] = "backoff" /\ sup'[r] = "loop"
           \/ canceled[r] /\ sup'[r] = "stop"
           \/ sup[r] = "stop" /\ sup'[r] = "marked"
           \/ sup[r] = "marked" /\ sup'[r] = "done"
    BY <1>2, <1>c DEF SupervisorLoop, BackedOff, MarkStopped, SupervisorEnds
  <2>3. Reason(r)'
    BY <1>a, <1>d, <2>1, <2>2 DEF Reason
  <2> QED
    BY <1>a, <1>b, <1>d, <2>1, <2>2, <2>3, ReasonFrame
<1>3. ASSUME NEW r \in Runs, DialFails(r) PROVE StopsForAReason'
  <2>1. sup[r] = "dial" /\ UNCHANGED <<canceled, owner>>
    BY <1>3 DEF DialFails, connVars
  <2>2. PICK err : AfterError(r, err) /\ (err = "canceled" => canceled[r])
    BY <1>3 DEF DialFails
  <2> QED
    BY <1>a, <1>b, <2>1, <2>2, ReasonAfterError
<1>4. ASSUME NEW r \in Runs, NEW k \in Conns, Disconnect(r, k) PROVE StopsForAReason'
  <2>1. /\ sup[r] = "up" /\ UNCHANGED <<canceled, owner>> /\ AfterError(r, Head(errCh[k]))
        /\ owner[k] = r /\ ~over[k] /\ errCh[k] # <<>>
    BY <1>4 DEF Disconnect
  <2>2. 1 \in 1 .. Len(errCh[k]) /\ Head(errCh[k]) = errCh[k][1]
    <3>1. errCh[k] \in Seq(Errors)
      BY DEF TypeOK, Errors
    <3> QED
      BY <2>1, <3>1
  <2>3. Head(errCh[k]) = "canceled" => canceled[r]
    BY <2>1, <2>2 DEF Reported, LoopOver
  <2> QED
    BY <1>a, <1>b, <2>1, <2>3, ReasonAfterError
<1>5. ASSUME NEW r \in Runs, Dialed(r) PROVE StopsForAReason'
  <2> DEFINE new == conns + 1
  <2>1. /\ new \in Conns /\ sup[r] = "dial" /\ sup' = [sup EXCEPT ![r] = "up"]
        /\ owner' = [owner EXCEPT ![new] = r] /\ UNCHANGED <<canceled, failures>>
    BY <1>5, <1>c DEF Dialed, Conns
  <2>2. owner[new] = 0
    BY <1>c, <2>1 DEF Connected, Unborn
  <2>3. /\ \A q \in Runs \ {r} : sup'[q] = sup[q]
        /\ sup'[r] = "up"
        /\ \A k \in Conns : owner'[k] = IF k = new THEN r ELSE owner[k]
    BY <1>c, <2>1
  <2>4. \A q \in Runs \ {r} : Owned(q)' = Owned(q)
    <3>1. \A q \in Runs : q # 0
      BY DEF Runs
    <3> QED
      BY <2>2, <2>3, <3>1 DEF Owned
  <2>5. Owned(r)' = Owned(r) \cup {new} /\ new \notin Owned(r)
    <3>1. r # 0
      BY DEF Runs
    <3> QED
      BY <2>1, <2>2, <2>3, <3>1 DEF Owned
  <2>6. Cardinality(Owned(r))' = Cardinality(Owned(r)) + 1
    BY <2>5, OwnedCount, FS_AddElement
  <2>7. Reason(r)'
    <3>1. Cardinality(Owned(r)) \in Nat /\ failures[r] \in Nat
      BY <1>c, OwnedCount
    <3>2. MaxReconnectAttempts > 0 =>
            failures[r] <= MaxReconnectAttempts /\ failures[r] + 0 >= Cardinality(Owned(r))
      BY <1>a, <2>1 DEF Reason
    <3>3. MaxReconnectAttempts > 0 =>
            failures'[r] <= MaxReconnectAttempts /\ failures'[r] + 1 >= Cardinality(Owned(r))'
      BY <2>1, <2>6, <3>1, <3>2
    <3> QED
      BY <2>3, <3>3 DEF Reason
  <2> QED
    BY <1>a, <1>b, <2>1, <2>3, <2>4, <2>7, ReasonFrame
<1>6. ASSUME NEW k \in Conns, LoopStep(k) PROVE StopsForAReason'
  <2>1. UNCHANGED <<supVars, connVars>>
    BY <1>6, LoopEffect
  <2> QED
    BY <1>a, <1>b, <1>d, <2>1, ReasonFrame DEF supVars, connVars
<1>8. ASSUME NEW r \in Runs, ContextEnds(r) PROVE StopsForAReason'
  <2>1. UNCHANGED <<sup, failures, connVars>> /\ \A q \in Runs : canceled[q] => canceled'[q]
    BY <1>8, <1>c, ContextEffect
  <2> QED
    BY <1>a, <1>b, <1>d, <2>1, ReasonFrame DEF connVars
<1>7. ASSUME UNCHANGED vars PROVE StopsForAReason'
  BY <1>7, <1>a, <1>b, <1>d, ReasonFrame DEF vars, supVars, connVars
<1> QED
  BY <1>1, <1>2, <1>3, <1>4, <1>5, <1>6, <1>7, <1>8 DEF Next, SupervisorStep, AppStep

-----------------------------------------------------------------------------
(* The order of the stanzas *)

LEMMA OrderedStep ==
  ASSUME TypeOK, Connected, Ordered, [Next]_vars
  PROVE  Ordered'
<1>a. /\ open \in [Conns -> BOOLEAN] /\ hand \in [Conns -> 0 .. MaxSends] /\ conns \in Nat /\ MaxConns \in Nat
      /\ writer \in [Conns -> {"none", "select", "write", "done"}]
      /\ sendCh \in Seq(0 .. MaxSends) /\ wire \in Seq(1 .. MaxSends) /\ accepted \in Nat /\ MaxSends \in Nat
      /\ \A k \in Conns : hand[k] \in Nat
  BY ClientAssumption DEF TypeOK
<1>b. /\ \A i \in 1 .. Len(wire) : wire[i] \in Nat /\ i \in Nat
      /\ \A j \in 1 .. Len(sendCh) : sendCh[j] \in Nat /\ j \in Nat
      /\ Len(wire) \in Nat /\ Len(sendCh) \in Nat
  BY <1>a
<1>c. ASSUME UNCHANGED <<wire, sendCh, accepted>>,
             \A k \in Conns : /\ hand'[k] = hand[k] \/ hand'[k] = 0
                              /\ open'[k] /\ hand'[k] # 0 => open[k]
                              /\ writer'[k] # "write" => writer[k] # "write" \/ hand'[k] = 0
      PROVE  Ordered'
  <2>1. WireInOrder' /\ \A j : Queued(j)' <=> Queued(j)
    BY <1>c DEF WireInOrder, Queued, Ordered
  <2>2. \A k \in Conns :
          /\ writer'[k] # "write" => hand'[k] = 0
          /\ hand'[k] <= accepted'
          /\ open'[k] /\ hand'[k] # KeepAliveStanza =>
               /\ \A i \in 1 .. Len(wire') : wire'[i] < hand'[k]
               /\ \A j \in 1 .. Len(sendCh') : Queued(j)' => hand'[k] < sendCh'[j]
    BY <1>a, <1>c, <2>1 DEF Ordered, KeepAliveStanza
  <2> QED
    BY <1>c, <2>1, <2>2 DEF Ordered
<1>d. \A j, k \in Conns : open[j] /\ open[k] => j = k
  <2>1. \A k \in Conns : open[k] => k <= conns
    BY <1>a DEF Connected, Unborn, Conns
  <2> QED
    BY <2>1 DEF Connected
\* A stanza that joins the queue.
<1>e. ASSUME NEW n \in Nat, sendCh' = Append(sendCh, n), UNCHANGED <<wire, hand, open, writer>>,
             \/ n = KeepAliveStanza /\ accepted' = accepted
             \/ n = accepted + 1 /\ accepted' = accepted + 1
      PROVE  Ordered'
  <2>1. \A j \in 1 .. Len(sendCh') : \/ j \in 1 .. Len(sendCh) /\ sendCh'[j] = sendCh[j]
                                     \/ j = Len(sendCh) + 1 /\ sendCh'[j] = n
    BY <1>a, <1>e
  <2>2. \A j \in 1 .. Len(sendCh') : Queued(j)' =>
          \/ j \in 1 .. Len(sendCh) /\ Queued(j) /\ sendCh'[j] = sendCh[j]
          \/ j = Len(sendCh) + 1 /\ sendCh'[j] = accepted + 1
    BY <1>e, <2>1 DEF Queued
  <2>3. accepted <= accepted' /\ n <= accepted' /\ accepted' \in Nat
    BY <1>a, <1>e DEF KeepAliveStanza
  <2>4. WireInOrder' /\ \A i \in 1 .. Len(wire') : wire'[i] <= accepted'
    BY <1>a, <1>b, <1>e, <2>3 DEF Ordered, WireInOrder
  <2>5. \A j \in 1 .. Len(sendCh') : sendCh'[j] <= accepted'
    BY <1>a, <1>b, <2>1, <2>3 DEF Ordered
  <2>6. \A i, j \in 1 .. Len(sendCh') : Queued(i)' /\ Queued(j)' /\ i < j => sendCh'[i] < sendCh'[j]
    <3> SUFFICES ASSUME NEW i \in 1 .. Len(sendCh'), NEW j \in 1 .. Len(sendCh'), Queued(i)', Queued(j)', i < j
                 PROVE  sendCh'[i] < sendCh'[j]
      OBVIOUS
    <3>1. i \in 1 .. Len(sendCh) /\ Queued(i) /\ sendCh'[i] = sendCh[i]
      <4>1. i # Len(sendCh) + 1
        BY <1>b, <2>1
      <4> QED
        BY <2>2, <4>1
    <3>2. CASE j = Len(sendCh) + 1 /\ sendCh'[j] = accepted + 1
      BY <1>a, <1>b, <3>1, <3>2 DEF Ordered
    <3>3. CASE j \in 1 .. Len(sendCh) /\ Queued(j) /\ sendCh'[j] = sendCh[j]
      BY <3>1, <3>3 DEF Ordered
    <3> QED
      BY <2>2, <3>2, <3>3
  <2>7. \A i \in 1 .. Len(wire'), j \in 1 .. Len(sendCh') : Queued(j)' => wire'[i] < sendCh'[j]
    BY <1>a, <1>b, <1>e, <2>2 DEF Ordered
  <2>8. \A k \in Conns :
          /\ writer'[k] # "write" => hand'[k] = 0
          /\ hand'[k] <= accepted'
          /\ open'[k] /\ hand'[k] # KeepAliveStanza =>
               /\ \A i \in 1 .. Len(wire') : wire'[i] < hand'[k]
               /\ \A j \in 1 .. Len(sendCh') : Queued(j)' => hand'[k] < sendCh'[j]
    <3> SUFFICES ASSUME NEW k \in Conns
                 PROVE  /\ writer'[k] # "write" => hand'[k] = 0
                        /\ hand'[k] <= accepted'
                        /\ open'[k] /\ hand'[k] # KeepAliveStanza =>
                             /\ \A i \in 1 .. Len(wire') : wire'[i] < hand'[k]
                             /\ \A j \in 1 .. Len(sendCh') : Queued(j)' => hand'[k] < sendCh'[j]
      OBVIOUS
    <3>1. hand[k] <= accepted /\ hand'[k] <= accepted' /\ hand[k] \in Nat
      BY <1>a, <1>e, <2>3 DEF Ordered
    <3>2. ASSUME open'[k], hand'[k] # KeepAliveStanza
          PROVE  \A j \in 1 .. Len(sendCh') : Queued(j)' => hand'[k] < sendCh'[j]
      BY <1>a, <1>e, <2>2, <3>1, <3>2 DEF Ordered
    <3> QED
      BY <1>e, <3>1, <3>2 DEF Ordered
  <2> QED
    BY <2>4, <2>5, <2>6, <2>7, <2>8 DEF Ordered
<1>1. ASSUME NEW t \in Threads, AppStep(t) PROVE Ordered'
  <2>1. UNCHANGED <<wire, hand, open, writer>>
    BY <1>1, AppEffect DEF connVars, loopVars
  <2>2. CASE SendRawQueued(t)
    BY <1>a, <1>e, <2>1, <2>2 DEF SendRawQueued
  <2>3. CASE UNCHANGED queueVars
    BY <1>c, <2>1, <2>3 DEF queueVars
  <2> QED
    BY <1>1, <2>2, <2>3 DEF AppStep, Connect, Close, CloseCancel, CallGivesUp, SendRaw
<1>2. ASSUME NEW r \in Runs, SupervisorStep(r) PROVE Ordered'
  <2>1. UNCHANGED <<wire, sendCh, accepted, hand>>
    BY <1>2 DEF SupervisorStep, SupervisorLoop, DialFails, Dialed, BackedOff, Disconnect, MarkStopped,
                SupervisorEnds, loopVars, queueVars
  <2>2. CASE Dialed(r)
    <3>1. conns + 1 \in Conns /\ open' = [open EXCEPT ![conns + 1] = TRUE]
          /\ writer' = [writer EXCEPT ![conns + 1] = "select"]
      BY <1>a, <2>2 DEF Dialed, Conns
    <3>2. writer[conns + 1] = "none" /\ hand[conns + 1] = 0
      BY <1>a, <3>1 DEF Connected, Unborn, Ordered
    <3>3. \A k \in Conns \ {conns + 1} : open'[k] = open[k] /\ writer'[k] = writer[k]
      BY <1>a, <3>1
    <3> QED
      BY <1>c, <2>1, <3>2, <3>3
  <2>3. CASE ~Dialed(r)
    <3>1. UNCHANGED writer
      BY <1>2, <2>3 DEF SupervisorStep, SupervisorLoop, DialFails, BackedOff, Disconnect, MarkStopped,
                        SupervisorEnds, loopVars
    <3>2. \A k \in Conns : open'[k] => open[k]
      BY <1>a, <1>2, <2>3 DEF SupervisorStep, SupervisorLoop, DialFails, BackedOff, Disconnect, MarkStopped,
                              SupervisorEnds, connVars
    <3> QED
      BY <1>c, <2>1, <3>1, <3>2
  <2> QED
    BY <2>2, <2>3
<1>3. ASSUME NEW k \in Conns, LoopStep(k) PROVE Ordered'
  <2>1. UNCHANGED open
    BY <1>3, LoopEffect DEF connVars
  <2>2. CASE WriterTakes(k)
    <3>1. /\ writer[k] = "select" /\ sendCh # <<>> /\ writer' = [writer EXCEPT ![k] = "write"]
          /\ hand' = [hand EXCEPT ![k] = Head(sendCh)] /\ sendCh' = Tail(sendCh)
          /\ UNCHANGED <<wire, accepted>>
      BY <2>2 DEF WriterTakes
    <3>2. /\ 1 \in 1 .. Len(sendCh) /\ Head(sendCh) = sendCh[1]
          /\ \A j \in 1 .. Len(sendCh') : j + 1 \in 1 .. Len(sendCh) /\ sendCh'[j] = sendCh[j + 1]
      BY <1>a, <3>1
    <3>3. \A j \in 1 .. Len(sendCh') : Queued(j)' => Queued(j + 1)
      BY <3>2 DEF Queued
    <3>4. hand'[k] = sendCh[1] /\ \A j \in Conns \ {k} : hand'[j] = hand[j] /\ writer'[j] = writer[j]
      BY <1>a, <3>1, <3>2
    <3>5. writer'[k] = "write"
      BY <1>a, <3>1
    <3>6. WireInOrder' /\ \A i \in 1 .. Len(wire') : wire'[i] <= accepted'
      BY <3>1 DEF Ordered, WireInOrder
    <3>7. \A j \in 1 .. Len(sendCh') : sendCh'[j] <= accepted'
      BY <3>1, <3>2 DEF Ordered
    <3>8. \A i, j \in 1 .. Len(sendCh') : Queued(i)' /\ Queued(j)' /\ i < j => sendCh'[i] < sendCh'[j]
      <4>1. \A i, j \in 1 .. Len(sendCh') : i < j => i + 1 < j + 1
        OBVIOUS
      <4> QED
        BY <3>2, <3>3, <4>1 DEF Ordered
    <3>9. \A i \in 1 .. Len(wire'), j \in 1 .. Len(sendCh') : Queued(j)' => wire'[i] < sendCh'[j]
      BY <3>1, <3>2, <3>3 DEF Ordered
    <3>10. /\ hand'[k] <= accepted'
           /\ hand'[k] # KeepAliveStanza =>
                /\ \A i \in 1 .. Len(wire') : wire'[i] < hand'[k]
                /\ \A j \in 1 .. Len(sendCh') : Queued(j)' => hand'[k] < sendCh'[j]
      <4>1. hand'[k] # KeepAliveStanza => Queued(1)
        BY <3>2, <3>4 DEF Queued
      <4>2. hand'[k] <= accepted'
        BY <3>1, <3>2, <3>4 DEF Ordered
      <4>3. ASSUME hand'[k] # KeepAliveStanza PROVE \A i \in 1 .. Len(wire') : wire'[i] < hand'[k]
        BY <3>1, <3>2, <3>4, <4>1, <4>3 DEF Ordered
      <4>4. ASSUME hand'[k] # KeepAliveStanza
            PROVE  \A j \in 1 .. Len(sendCh') : Queued(j)' => hand'[k] < sendCh'[j]
        <5>1. \A j \in 1 .. Len(sendCh') : 1 < j + 1
          OBVIOUS
        <5> QED
          BY <3>2, <3>3, <3>4, <4>1, <4>4, <5>1 DEF Ordered
      <4> QED
        BY <4>2, <4>3, <4>4
    <3>11. ASSUME NEW j \in Conns, j # k
           PROVE  /\ writer'[j] # "write" => hand'[j] = 0
                  /\ hand'[j] <= accepted'
                  /\ open'[j] /\ hand'[j] # KeepAliveStanza =>
                       /\ \A i \in 1 .. Len(wire') : wire'[i] < hand'[j]
                       /\ \A i \in 1 .. Len(sendCh') : Queued(i)' => hand'[j] < sendCh'[i]
      <4>1. ASSUME open'[j], hand'[j] # KeepAliveStanza
            PROVE  \A i \in 1 .. Len(sendCh') : Queued(i)' => hand'[j] < sendCh'[i]
        BY <2>1, <3>2, <3>3, <3>4, <3>11, <4>1 DEF Ordered
      <4> QED
        BY <2>1, <3>1, <3>4, <3>11, <4>1 DEF Ordered
    <3> QED
      BY <3>5, <3>6, <3>7, <3>8, <3>9, <3>10, <3>11 DEF Ordered
  <2>3. CASE WriterWrites(k)
    <3>1. /\ writer[k] = "write" /\ open[k] /\ writer' = [writer EXCEPT ![k] = "select"]
          /\ wire' = IF hand[k] = KeepAliveStanza THEN wire ELSE Append(wire, hand[k])
          /\ hand' = [hand EXCEPT ![k] = 0] /\ UNCHANGED <<sendCh, accepted>>
      BY <2>3 DEF WriterWrites
    <3>2. hand'[k] = 0 /\ \A j \in Conns \ {k} : hand'[j] = hand[j] /\ writer'[j] = writer[j] /\ ~open[j]
      BY <1>a, <1>d, <3>1
    <3>3. CASE hand[k] = KeepAliveStanza
      BY <1>c, <2>1, <3>1, <3>2, <3>3 DEF KeepAliveStanza
    <3>4. CASE hand[k] # KeepAliveStanza
      <4>1. \A i \in 1 .. Len(wire') : \/ i \in 1 .. Len(wire) /\ wire'[i] = wire[i]
                                       \/ i = Len(wire) + 1 /\ wire'[i] = hand[k]
        BY <1>a, <3>1, <3>4
      <4>2. /\ \A i \in 1 .. Len(wire) : wire[i] < hand[k]
            /\ \A j \in 1 .. Len(sendCh) : Queued(j) => hand[k] < sendCh[j]
            /\ hand[k] <= accepted
        BY <3>1, <3>4 DEF Ordered
      <4>3. WireInOrder'
        <5> SUFFICES ASSUME NEW i \in 1 .. Len(wire'), NEW j \in 1 .. Len(wire'), i < j
                     PROVE  wire'[i] < wire'[j]
          BY DEF WireInOrder
        <5>1. i \in 1 .. Len(wire) /\ wire'[i] = wire[i]
          BY <1>b, <4>1
        <5> QED
          BY <4>1, <4>2, <5>1 DEF Ordered, WireInOrder
      <4>4. \A i \in 1 .. Len(wire') : wire'[i] <= accepted'
        BY <3>1, <4>1, <4>2 DEF Ordered
      <4>5. \A j : Queued(j)' <=> Queued(j)
        BY <3>1 DEF Queued
      <4>6. \A i \in 1 .. Len(wire'), j \in 1 .. Len(sendCh') : Queued(j)' => wire'[i] < sendCh'[j]
        BY <3>1, <4>1, <4>2, <4>5 DEF Ordered
      <4>7. \A j \in Conns : /\ writer'[j] # "write" => hand'[j] = 0
                             /\ hand'[j] <= accepted'
                             /\ ~open'[j] \/ hand'[j] = KeepAliveStanza
        BY <1>a, <2>1, <3>1, <3>2 DEF Ordered, KeepAliveStanza
      <4> QED
        BY <3>1, <4>3, <4>4, <4>5, <4>6, <4>7 DEF Ordered
    <3> QED
      BY <3>3, <3>4
  <2>4. CASE WriterFails(k)
    <3>1. UNCHANGED <<wire, sendCh, accepted>> /\ hand' = [hand EXCEPT ![k] = 0]
          /\ writer' = [writer EXCEPT ![k] = "done"]
      BY <2>4 DEF WriterFails, queueVars
    <3>2. hand'[k] = 0 /\ \A j \in Conns \ {k} : hand'[j] = hand[j] /\ writer'[j] = writer[j]
      BY <1>a, <3>1
    <3> QED
      BY <1>c, <2>1, <3>1, <3>2
  <2>5. CASE KeeperSends(k)
    BY <1>e, <2>1, <2>5 DEF KeeperSends, loopVars, KeepAliveStanza
  <2>6. CASE WriterEnds(k)
    <3>1. UNCHANGED <<wire, sendCh, accepted, hand>> /\ writer[k] = "select"
          /\ writer' = [writer EXCEPT ![k] = "done"]
      BY <2>6 DEF WriterEnds, queueVars
    <3>2. \A j \in Conns \ {k} : writer'[j] = writer[j]
      BY <1>a, <3>1
    <3> QED
      BY <1>c, <2>1, <3>1, <3>2
  <2>7. CASE ReaderFails(k) \/ ReaderGets(k) \/ ReaderDispatches(k) \/ KeeperFull(k) \/ KeeperEnds(k)
    <3>1. UNCHANGED <<wire, sendCh, accepted, hand, writer>>
      BY <2>7 DEF ReaderFails, ReaderGets, ReaderDispatches, KeeperFull, KeeperEnds, queueVars
    <3> QED
      BY <1>c, <2>1, <3>1
  <2> QED
    BY <1>3, <2>2, <2>3, <2>4, <2>5, <2>6, <2>7 DEF LoopStep
<1>5. ASSUME NEW r \in Runs, ContextEnds(r) PROVE Ordered'
  <2>1. UNCHANGED <<connVars, loopVars, queueVars>>
    BY <1>5, ContextEffect DEF TypeOK
  <2> QED
    BY <1>c, <2>1 DEF connVars, loopVars, queueVars
<1>4. ASSUME UNCHANGED vars PROVE Ordered'
  BY <1>4, <1>c DEF vars, connVars, loopVars, queueVars
<1> QED
  BY <1>1, <1>2, <1>3, <1>4, <1>5 DEF Next, AppStep

-----------------------------------------------------------------------------
(* The session seen from the client facade *)

LEMMA PhaseMoves ==
  ASSUME NEW r \in Runs, NEW from, NEW to, PhaseOf(r) = from, PhaseOf(r)' = to,
         \A q \in Runs \ {r} : PhaseOf(q)' = PhaseOf(q)
  PROVE  Session!Moves(r, from, to)
BY DEF Session!Moves

LEMMA PhaseStays ==
  ASSUME \A q \in Runs : PhaseOf(q)' = PhaseOf(q), UNCHANGED canceled
  PROVE  UNCHANGED Session!vars
BY DEF Session!vars

LEMMA SessionStep ==
  ASSUME ClientInv, [Next]_vars
  PROVE  [Session!Next]_(Session!vars)
<1>a. /\ sup \in [Runs -> Phases] /\ canceled \in [Runs -> BOOLEAN] /\ runs \in Nat /\ MaxRuns \in Nat
  BY ClientAssumption DEF ClientInv, TypeOK, Phases
<1>b. ASSUME NEW r \in Runs, \A q \in Runs \ {r} : sup'[q] = sup[q]
      PROVE  \A q \in Runs \ {r} : PhaseOf(q)' = PhaseOf(q)
  BY <1>b DEF PhaseOf
<1>c. ASSUME NEW r \in Runs, Session!Connect(r) \/ Session!Cancel(r) \/ Session!Step(r) PROVE Session!Next
  BY <1>c DEF Session!Next
\* An attempt that ends.
<1>d. ASSUME NEW r \in Runs, NEW from \in {"dial", "up"}, sup[r] = from, NEW err, AfterError(r, err),
             UNCHANGED canceled
      PROVE  Session!Step(r)
  <2>1. /\ \A q \in Runs \ {r} : sup'[q] = sup[q]
        /\ sup'[r] \in {"stop", "backoff"}
    BY <1>d, AfterErrorEffect DEF ClientInv
  <2>2. PhaseOf(r) = from /\ \A q \in Runs \ {r} : PhaseOf(q)' = PhaseOf(q)
    BY <1>b, <1>d, <2>1 DEF PhaseOf
  <2>3. CASE sup'[r] = "stop"
    <3>1. PhaseOf(r)' = "done"
      BY <2>3 DEF PhaseOf
    <3>2. Session!Moves(r, from, "done")
      BY <2>2, <3>1, PhaseMoves
    <3> QED
      BY <1>d, <3>2 DEF Session!Step, Session!GivesUp
  <2>4. CASE sup'[r] = "backoff"
    <3>1. PhaseOf(r)' = "loop"
      BY <2>4 DEF PhaseOf
    <3>2. Session!Moves(r, from, "loop")
      BY <2>2, <3>1, PhaseMoves
    <3> QED
      BY <1>d, <3>2 DEF Session!Step, Session!Refused, Session!Broken
  <2> QED
    BY <2>1, <2>3, <2>4
<1>1. ASSUME NEW t \in Threads, AppStep(t) PROVE [Session!Next]_(Session!vars)
  <2>1. CASE Connect(t)
    <3>1. /\ runs + 1 \in Runs /\ sup' = [sup EXCEPT ![runs + 1] = "loop"] /\ UNCHANGED canceled
      BY <1>a, <2>1 DEF Connect, Runs
    <3>2. PICK new \in Runs : new = runs + 1
      BY <3>1
    <3>3. sup[new] = "none" /\ sup'[new] = "loop" /\ \A q \in Runs \ {new} : sup'[q] = sup[q]
      BY <1>a, <3>1, <3>2 DEF ClientInv, Supervised
    <3>4. PhaseOf(new) = "none" /\ PhaseOf(new)' = "loop" /\ \A q \in Runs \ {new} : PhaseOf(q)' = PhaseOf(q)
      BY <1>b, <3>3 DEF PhaseOf
    <3> QED
      BY <1>c, <3>1, <3>4, PhaseMoves DEF Session!Connect
  <2>2. CASE CloseCancel(t)
    <3>1. arg[t] \in Runs /\ canceled' = [canceled EXCEPT ![arg[t]] = TRUE] /\ sup' = sup
      BY <2>2 DEF CloseCancel, ClientInv, Supervised
    <3>2. [r \in Runs |-> PhaseOf(r)]' = [r \in Runs |-> PhaseOf(r)]
      BY <3>1 DEF PhaseOf
    <3>3. Session!Cancel(arg[t])
      BY <3>1, <3>2 DEF Session!Cancel
    <3> QED
      BY <3>1, <3>3 DEF Session!Next
  <2>3. CASE UNCHANGED <<sup, canceled>>
    BY <2>3, PhaseStays DEF PhaseOf
  <2> QED
    BY <1>1, <2>1, <2>2, <2>3 DEF AppStep, Close, CallGivesUp, SendRaw, SendRawQueued, supVars
<1>2. ASSUME NEW r \in Runs, SupervisorLoop(r) PROVE [Session!Next]_(Session!vars)
  <2>1. /\ sup[r] = "loop" /\ UNCHANGED canceled /\ \A q \in Runs \ {r} : sup'[q] = sup[q]
        /\ sup'[r] = IF canceled[r] THEN "stop" ELSE "dial"
    BY <1>a, <1>2 DEF SupervisorLoop
  <2>2. PhaseOf(r) = "loop" /\ PhaseOf(r)' = (IF canceled[r] THEN "done" ELSE "dial")
    BY <2>1 DEF PhaseOf
  <2>3. Session!Moves(r, "loop", IF canceled[r] THEN "done" ELSE "dial")
    BY <1>b, <2>1, <2>2, PhaseMoves
  <2>4. Session!Dial(r) \/ Session!Ends(r)
    BY <2>1, <2>3 DEF Session!Dial, Session!Ends, Session!Alive
  <2> QED
    BY <1>c, <2>4 DEF Session!Step
<1>3. ASSUME NEW r \in Runs, DialFails(r) PROVE [Session!Next]_(Session!vars)
  <2>1. sup[r] = "dial" /\ UNCHANGED canceled /\ \E err : AfterError(r, err)
    BY <1>3 DEF DialFails
  <2> QED
    BY <1>c, <1>d, <2>1
<1>4. ASSUME NEW r \in Runs, NEW k \in Conns, Disconnect(r, k) PROVE [Session!Next]_(Session!vars)
  <2>1. sup[r] = "up" /\ UNCHANGED canceled /\ \E err : AfterError(r, err)
    BY <1>4 DEF Disconnect
  <2> QED
    BY <1>c, <1>d, <2>1
<1>5. ASSUME NEW r \in Runs, Dialed(r) PROVE [Session!Next]_(Session!vars)
  <2>1. sup[r] = "dial" /\ sup'[r] = "up" /\ UNCHANGED canceled /\ \A q \in Runs \ {r} : sup'[q] = sup[q]
    BY <1>a, <1>5 DEF Dialed
  <2>2. PhaseOf(r) = "dial" /\ PhaseOf(r)' = "up"
    BY <2>1 DEF PhaseOf
  <2>3. Session!Established(r)
    BY <1>b, <2>1, <2>2, PhaseMoves DEF Session!Established
  <2> QED
    BY <1>c, <2>3 DEF Session!Step
<1>6. ASSUME NEW r \in Runs, BackedOff(r) PROVE [Session!Next]_(Session!vars)
  <2>1. /\ sup[r] = "backoff" /\ UNCHANGED canceled /\ \A q \in Runs \ {r} : sup'[q] = sup[q]
        /\ sup'[r] = "loop" \/ (canceled[r] /\ sup'[r] = "stop")
    BY <1>a, <1>6 DEF BackedOff
  <2>2. PhaseOf(r) = "loop" /\ \A q \in Runs \ {r} : PhaseOf(q)' = PhaseOf(q)
    BY <1>b, <2>1 DEF PhaseOf
  <2>3. CASE sup'[r] = "loop"
    <3>1. PhaseOf(r)' = "loop"
      BY <2>3 DEF PhaseOf
    <3> QED
      BY <2>1, <2>2, <3>1, PhaseStays
  <2>4. CASE canceled[r] /\ sup'[r] = "stop"
    <3>1. PhaseOf(r)' = "done"
      BY <2>4 DEF PhaseOf
    <3>2. Session!Ends(r)
      BY <2>1, <2>2, <2>4, <3>1, PhaseMoves DEF Session!Ends, Session!Alive
    <3> QED
      BY <1>c, <3>2 DEF Session!Step
  <2> QED
    BY <2>1, <2>3, <2>4
<1>7. ASSUME NEW r \in Runs, MarkStopped(r) \/ SupervisorEnds(r) PROVE [Session!Next]_(Session!vars)
  <2>1. /\ UNCHANGED canceled /\ \A q \in Runs \ {r} : sup'[q] = sup[q]
        /\ \/ sup[r] = "stop" /\ sup'[r] = "marked"
           \/ sup[r] = "marked" /\ sup'[r] = "done"
    BY <1>a, <1>7 DEF MarkStopped, SupervisorEnds
  <2>2. PhaseOf(r) = "done" /\ PhaseOf(r)' = "done"
    BY <2>1 DEF PhaseOf
  <2> QED
    BY <1>b, <2>1, <2>2, PhaseStays
<1>8. ASSUME NEW k \in Conns, LoopStep(k) PROVE [Session!Next]_(Session!vars)
  <2>1. UNCHANGED <<sup, canceled>>
    BY <1>8, LoopEffect DEF supVars, ClientInv
  <2> QED
    BY <2>1, PhaseStays DEF PhaseOf
<1>10. ASSUME NEW r \in Runs, ContextEnds(r) PROVE [Session!Next]_(Session!vars)
  <2>1. canceled' = [canceled EXCEPT ![r] = TRUE] /\ sup' = sup
    BY <1>10, <1>a, ContextEffect
  <2>2. [q \in Runs |-> PhaseOf(q)]' = [q \in Runs |-> PhaseOf(q)]
    BY <2>1 DEF PhaseOf
  <2>3. Session!Cancel(r)
    BY <2>1, <2>2 DEF Session!Cancel
  <2> QED
    BY <1>c, <2>3
<1>9. ASSUME UNCHANGED vars PROVE [Session!Next]_(Session!vars)
  BY <1>9, PhaseStays DEF vars, supVars, PhaseOf
<1> QED
  BY <1>1, <1>2, <1>3, <1>4, <1>5, <1>6, <1>7, <1>8, <1>9, <1>10 DEF Next, SupervisorStep, AppStep

-----------------------------------------------------------------------------
(* The queue seen by a caller of SendRaw *)

Flying == {hand[k] : k \in InFlight}
Lying == {sendCh[n] : n \in DOMAIN sendCh}
Credit == Cardinality({k \in Conns : MayLose(k)})

LEMMA WaitingParts ==
  /\ Waiting = (Flying \cup Lying) \ {KeepAliveStanza}
  /\ Waiting' = (Flying' \cup Lying') \ {KeepAliveStanza}
BY DEF Waiting, Flying, Lying

LEMMA LosersFinite ==
  /\ IsFiniteSet({k \in Conns : MayLose(k)})
  /\ Credit \in Nat
<1>1. IsFiniteSet(Conns)
  BY ClientAssumption, FS_Interval DEF Conns
<1>2. {k \in Conns : MayLose(k)} \in SUBSET Conns
  OBVIOUS
<1> QED
  BY <1>1, <1>2, FS_Subset, FS_CardinalityType DEF Credit

LEMMA CreditStays ==
  ASSUME \A k \in Conns : MayLose(k)' <=> MayLose(k)
  PROVE  Credit' = Credit
<1>1. {k \in Conns : MayLose(k)'} = {k \in Conns : MayLose(k)}
  OBVIOUS
<1> QED
  BY <1>1 DEF Credit

LEMMA CreditRises ==
  ASSUME NEW c \in Conns, ~MayLose(c), MayLose(c)',
         \A k \in Conns \ {c} : MayLose(k)' <=> MayLose(k)
  PROVE  Credit' = Credit + 1
<1> DEFINE S == {k \in Conns : MayLose(k)}
<1>1. {k \in Conns : MayLose(k)'} = S \cup {c} /\ c \notin S
  OBVIOUS
<1>2. Cardinality(S \cup {c}) = Cardinality(S) + 1
  BY <1>1, LosersFinite, FS_AddElement
<1> QED
  BY <1>1, <1>2 DEF Credit

LEMMA CreditFalls ==
  ASSUME NEW c \in Conns, MayLose(c), ~MayLose(c)',
         \A k \in Conns \ {c} : MayLose(k)' <=> MayLose(k)
  PROVE  Credit > 0 /\ Credit' = Credit - 1
<1> DEFINE S == {k \in Conns : MayLose(k)}
<1>1. {k \in Conns : MayLose(k)'} = S \ {c} /\ c \in S
  OBVIOUS
<1>2. Cardinality(S \ {c}) = Cardinality(S) - 1
  BY <1>1, LosersFinite, FS_RemoveElement
<1>3. Cardinality(S) # 0
  BY <1>1, LosersFinite, FS_EmptySet
<1> QED
  BY <1>1, <1>2, <1>3, LosersFinite DEF Credit

\* One socket is open at most, so one stanza at most is on its way.
LEMMA OneInFlight ==
  ASSUME ClientInv, NEW k \in Conns, open[k]
  PROVE  /\ \A j \in Conns \ {k} : ~open[j]
         /\ writer[k] = "write" => InFlight = {k} /\ Flying = {hand[k]}
         /\ writer[k] # "write" => InFlight = {} /\ Flying = {}
<1>1. conns \in Nat /\ \A j \in Conns : open[j] => current = j
  BY ClientAssumption DEF ClientInv, TypeOK, Connected, Unborn, Conns
<1>2. \A j \in Conns \ {k} : ~open[j]
  BY <1>1
<1> QED
  BY <1>2 DEF InFlight, Flying

\* What is on its way is before what waits.
LEMMA FlyingFirst ==
  ASSUME TypeOK, Ordered, NEW n \in Flying, n # KeepAliveStanza
  PROVE  n \notin Lying /\ \A m \in Lying \ {KeepAliveStanza} : n < m
<1>1. PICK k \in Conns : open[k] /\ hand[k] = n
  BY DEF Flying, InFlight
<1>2. DOMAIN sendCh = 1 .. Len(sendCh) /\ hand[k] \in Nat
  BY ClientAssumption DEF TypeOK
<1>3. \A j \in 1 .. Len(sendCh) : sendCh[j] # KeepAliveStanza => hand[k] < sendCh[j]
  BY <1>1, <1>2 DEF Ordered, Queued
<1> QED
  BY <1>1, <1>2, <1>3 DEF Lying

LEMMA Emptier ==
  ASSUME TypeOK, Ordered, sendCh # <<>>
  PROVE  /\ Head(sendCh) \in Lying /\ Head(sendCh) \in Nat
         /\ {Tail(sendCh)[n] : n \in DOMAIN Tail(sendCh)} \cup {Head(sendCh)} = Lying
         /\ Head(sendCh) # KeepAliveStanza =>
              Head(sendCh) \notin {Tail(sendCh)[n] : n \in DOMAIN Tail(sendCh)}
<1>1. /\ sendCh \in Seq(Nat) /\ Len(sendCh) \in Nat /\ Len(sendCh) # 0
      /\ DOMAIN sendCh = 1 .. Len(sendCh) /\ Head(sendCh) = sendCh[1]
      /\ DOMAIN Tail(sendCh) = 1 .. Len(sendCh) - 1
      /\ \A n \in 1 .. Len(sendCh) - 1 : Tail(sendCh)[n] = sendCh[n + 1]
  BY ClientAssumption DEF TypeOK
<1>2. 1 \in DOMAIN sendCh /\ \A n \in DOMAIN sendCh : n = 1 \/ n - 1 \in 1 .. Len(sendCh) - 1
  BY <1>1
<1>3. Head(sendCh) \in Lying /\ Head(sendCh) \in Nat
  BY <1>1, <1>2 DEF Lying
<1>4. ASSUME NEW x \in Lying PROVE x \in {Tail(sendCh)[n] : n \in DOMAIN Tail(sendCh)} \cup {Head(sendCh)}
  <2>1. PICK n \in DOMAIN sendCh : x = sendCh[n]
    BY <1>4 DEF Lying
  <2>2. CASE n = 1
    BY <1>1, <2>1, <2>2
  <2>3. CASE n # 1
    <3>1. n - 1 \in 1 .. Len(sendCh) - 1 /\ (n - 1) + 1 = n
      BY <1>1, <1>2, <2>3
    <3> QED
      BY <1>1, <2>1, <3>1
  <2> QED
    BY <2>2, <2>3
<1>5. ASSUME NEW n \in DOMAIN Tail(sendCh)
      PROVE  /\ Tail(sendCh)[n] \in Lying
             /\ Head(sendCh) # KeepAliveStanza => Tail(sendCh)[n] # Head(sendCh)
  <2>1. n + 1 \in 1 .. Len(sendCh) /\ 1 < n + 1 /\ Tail(sendCh)[n] = sendCh[n + 1]
    BY <1>1
  <2>2. ASSUME Head(sendCh) # KeepAliveStanza, sendCh[n + 1] = sendCh[1] PROVE FALSE
    <3>1. Queued(1) /\ Queued(n + 1)
      BY <1>1, <2>1, <2>2 DEF Queued
    <3>2. sendCh[1] < sendCh[n + 1]
      BY <1>1, <2>1, <3>1 DEF Ordered
    <3> QED
      BY <1>1, <1>3, <2>2, <3>2
  <2> QED
    BY <1>1, <2>1, <2>2 DEF Lying
<1> QED
  BY <1>3, <1>4, <1>5

LEMMA Fuller ==
  ASSUME TypeOK, NEW n \in Nat, sendCh' = Append(sendCh, n)
  PROVE  Lying' = Lying \cup {n}
<1>1. /\ Len(sendCh) \in Nat /\ DOMAIN sendCh = 1 .. Len(sendCh)
      /\ DOMAIN sendCh' = 1 .. Len(sendCh) + 1 /\ sendCh'[Len(sendCh) + 1] = n
      /\ \A j \in 1 .. Len(sendCh) : sendCh'[j] = sendCh[j]
  BY DEF TypeOK
<1>2. \A j \in 1 .. Len(sendCh) + 1 : j \in 1 .. Len(sendCh) \/ j = Len(sendCh) + 1
  BY <1>1
<1>3. Len(sendCh) + 1 \in 1 .. Len(sendCh) + 1 /\ 1 .. Len(sendCh) \subseteq 1 .. Len(sendCh) + 1
  BY <1>1
<1> QED
  BY <1>1, <1>2, <1>3 DEF Lying

\* The connection k is of no use any more, and what it held is lost.
LEMMA Lost ==
  ASSUME NEW k \in Conns, MayLose(k), ~MayLose(k)', UNCHANGED <<wire, accepted>>,
         \A j \in Conns \ {k} : MayLose(j)' <=> MayLose(j),
         \/ Waiting' = Waiting
         \/ \E n \in Waiting : Waiting' = Waiting \ {n}
  PROVE  Queue!Next
<1>1. Credit > 0 /\ Credit' = Credit - 1
  BY CreditFalls
<1> QED
  BY <1>1 DEF Queue!Next, Queue!Broken, Credit

\* A socket is closed: a stanza being written to it is lost.
LEMMA SocketCloses ==
  ASSUME ClientInv, Ordered, NEW k \in Conns, open' = [open EXCEPT ![k] = FALSE],
         UNCHANGED <<writer, hand, sendCh, accepted, wire>>
  PROVE  [Queue!Next]_(Queue!vars)
<1>1. open \in [Conns -> BOOLEAN] /\ Lying' = Lying
  BY DEF ClientInv, TypeOK, Lying
<1>2. CASE open[k] /\ writer[k] = "write"
  <2>1. InFlight = {k} /\ Flying = {hand[k]} /\ \A j \in Conns \ {k} : ~open[j]
    BY <1>2, OneInFlight
  <2>2. InFlight' = {} /\ Flying' = {}
    BY <1>1, <2>1 DEF InFlight, Flying
  <2>3. Waiting' = Lying \ {KeepAliveStanza} /\ Waiting = ({hand[k]} \cup Lying) \ {KeepAliveStanza}
    BY <1>1, <2>1, <2>2, WaitingParts
  <2>4. Waiting' = Waiting \/ \E n \in Waiting : Waiting' = Waiting \ {n}
    <3>1. CASE hand[k] = KeepAliveStanza
      BY <2>3, <3>1
    <3>2. CASE hand[k] # KeepAliveStanza
      <4>1. hand[k] \notin Lying
        BY <2>1, <3>2, FlyingFirst DEF ClientInv
      <4>2. hand[k] \in Waiting /\ Waiting' = Waiting \ {hand[k]}
        BY <2>3, <3>2, <4>1
      <4> QED
        BY <4>2
    <3> QED
      BY <3>1, <3>2
  <2>5. MayLose(k) /\ ~MayLose(k)' /\ \A j \in Conns \ {k} : MayLose(j)' <=> MayLose(j)
    BY <1>1, <1>2 DEF MayLose
  <2> QED
    BY <2>4, <2>5, Lost
<1>3. CASE ~(open[k] /\ writer[k] = "write")
  <2>1. InFlight' = InFlight /\ \A j \in Conns : MayLose(j)' <=> MayLose(j)
    BY <1>1, <1>3 DEF InFlight, MayLose
  <2>2. Waiting' = Waiting
    BY <1>1, <2>1, WaitingParts DEF Flying
  <2> QED
    BY <2>1, <2>2, CreditStays DEF Queue!vars, Credit
<1> QED
  BY <1>2, <1>3

LEMMA QueueStep ==
  ASSUME ClientInv, Ordered, [Next]_vars
  PROVE  [Queue!Next]_(Queue!vars)
<1>a. /\ open \in [Conns -> BOOLEAN] /\ hand \in [Conns -> 0 .. MaxSends] /\ conns \in Nat /\ MaxConns \in Nat
      /\ writer \in [Conns -> {"none", "select", "write", "done"}] /\ accepted \in Nat
      /\ current \in 0 .. MaxConns /\ MaxSends \in Nat /\ TypeOK
  BY ClientAssumption DEF ClientInv, TypeOK
\* Nothing that the queue is made of.
<1>b. ASSUME UNCHANGED <<writer, hand, open, sendCh, accepted, wire>>
      PROVE  UNCHANGED Queue!vars
  <2>1. \A k \in Conns : MayLose(k)' <=> MayLose(k)
    BY <1>b DEF MayLose
  <2>2. Waiting' = Waiting
    BY <1>b DEF Waiting, InFlight
  <2> QED
    BY <1>b, <2>1, <2>2, CreditStays DEF Queue!vars, Credit
<1>1. ASSUME NEW t \in Threads, AppStep(t) PROVE [Queue!Next]_(Queue!vars)
  <2>1. UNCHANGED <<wire, hand, open, writer>>
    BY <1>1, AppEffect DEF connVars, loopVars
  <2>2. CASE SendRawQueued(t)
    <3>1. /\ accepted < MaxSends /\ accepted' = accepted + 1
          /\ sendCh' = Append(sendCh, accepted + 1)
      BY <2>2 DEF SendRawQueued
    <3>2. Lying' = Lying \cup {accepted + 1}
      BY <1>a, <3>1, Fuller
    <3>3. Flying' = Flying
      BY <2>1 DEF Flying, InFlight
    <3>4. Waiting' = Waiting \cup {accepted + 1}
      BY <1>a, <3>2, <3>3, WaitingParts DEF KeepAliveStanza
    <3>5. Credit' = Credit
      BY <2>1, CreditStays DEF MayLose
    <3> QED
      BY <2>1, <3>1, <3>4, <3>5 DEF Queue!Next, Queue!Accept, Credit
  <2>3. CASE UNCHANGED queueVars
    BY <1>b, <2>1, <2>3 DEF queueVars
  <2> QED
    BY <1>1, <2>2, <2>3 DEF AppStep, Connect, Close, CloseCancel, CallGivesUp, SendRaw
<1>2. ASSUME NEW r \in Runs, SupervisorStep(r) PROVE [Queue!Next]_(Queue!vars)
  <2>1. UNCHANGED <<wire, sendCh, accepted, hand>>
    BY <1>2 DEF SupervisorStep, SupervisorLoop, DialFails, Dialed, BackedOff, Disconnect, MarkStopped,
                SupervisorEnds, loopVars, queueVars
  <2>2. CASE Dialed(r)
    <3>1. /\ conns + 1 \in Conns /\ open' = [open EXCEPT ![conns + 1] = TRUE]
          /\ writer' = [writer EXCEPT ![conns + 1] = "select"]
      BY <1>a, <2>2 DEF Dialed, Conns
    <3>2. PICK c \in Conns : c = conns + 1
      BY <3>1
    <3>3. writer[c] = "none" /\ ~open[c]
      BY <1>a, <3>2 DEF ClientInv, Connected, Unborn
    <3>4. /\ writer'[c] = "select"
          /\ \A k \in Conns \ {c} : open'[k] = open[k] /\ writer'[k] = writer[k]
      BY <1>a, <3>1, <3>2
    <3>5. InFlight' = InFlight
      BY <3>3, <3>4 DEF InFlight
    <3>6. Waiting' = Waiting
      BY <2>1, <3>5 DEF Waiting
    <3>7. Credit' = Credit + 1
      BY <3>3, <3>4, CreditRises DEF MayLose
    <3> QED
      BY <2>1, <3>6, <3>7 DEF Queue!Next, Queue!Connected, Credit
  <2>3. CASE \E k \in Conns : Disconnect(r, k)
    <3>1. PICK k \in Conns : Disconnect(r, k)
      BY <2>3
    <3> QED
      BY <2>1, <3>1, SocketCloses DEF Disconnect
  <2>4. CASE MarkStopped(r)
    <3>1. CASE current = 0
      BY <1>b, <2>1, <2>4, <3>1 DEF MarkStopped, loopVars
    <3>2. CASE current # 0
      <4>1. current \in Conns
        BY <1>a, <3>2 DEF Conns
      <4> QED
        BY <2>1, <2>4, <3>2, <4>1, SocketCloses DEF MarkStopped, loopVars
    <3> QED
      BY <3>1, <3>2
  <2>5. CASE SupervisorLoop(r) \/ DialFails(r) \/ BackedOff(r) \/ SupervisorEnds(r)
    BY <1>b, <2>1, <2>5 DEF SupervisorLoop, DialFails, BackedOff, SupervisorEnds, connVars, loopVars
  <2> QED
    BY <1>2, <2>2, <2>3, <2>4, <2>5 DEF SupervisorStep
<1>3. ASSUME NEW k \in Conns, LoopStep(k) PROVE [Queue!Next]_(Queue!vars)
  <2>1. UNCHANGED <<open, accepted>>
    BY <1>3, LoopEffect DEF ClientInv, connVars
  <2>2. \A j \in Conns \ {k} : hand'[j] = hand[j] /\ writer'[j] = writer[j]
    BY <1>3, LoopEffect DEF ClientInv
  <2>3. \A j \in Conns \ {k} : MayLose(j)' <=> MayLose(j)
    BY <2>1, <2>2 DEF MayLose
  <2>4. CASE WriterTakes(k)
    <3>1. /\ writer[k] = "select" /\ sendCh # <<>> /\ writer' = [writer EXCEPT ![k] = "write"]
          /\ hand' = [hand EXCEPT ![k] = Head(sendCh)] /\ sendCh' = Tail(sendCh)
          /\ UNCHANGED <<wire, accepted>>
      BY <2>4 DEF WriterTakes
    <3>2. writer'[k] = "write" /\ hand'[k] = Head(sendCh)
      BY <1>a, <3>1
    <3>3. /\ Head(sendCh) \in Lying /\ Lying' \cup {Head(sendCh)} = Lying
          /\ Head(sendCh) # KeepAliveStanza => Head(sendCh) \notin Lying'
      BY <1>a, <3>1, Emptier DEF Lying
    <3>4. CASE open[k]
      <4>1. Flying = {} /\ InFlight = {} /\ \A j \in Conns \ {k} : ~open[j]
        BY <3>1, <3>4, OneInFlight
      <4>2. InFlight' = {k} /\ Flying' = {Head(sendCh)}
        BY <2>1, <3>2, <3>4, <4>1 DEF InFlight, Flying
      <4>3. Waiting' = Waiting
        BY <3>3, <4>1, <4>2, WaitingParts
      <4>4. MayLose(k)' <=> MayLose(k)
        BY <2>1, <3>1, <3>2, <3>4 DEF MayLose
      <4>5. Credit' = Credit
        BY <2>3, <4>4, CreditStays
      <4> QED
        BY <3>1, <4>3, <4>5 DEF Queue!vars, Credit
    <3>5. CASE ~open[k]
      <4>1. InFlight' = InFlight /\ k \notin InFlight
        BY <2>1, <2>2, <3>5 DEF InFlight
      <4>2. Flying' = Flying
        BY <2>2, <4>1 DEF Flying, InFlight
      <4>3. Head(sendCh) # KeepAliveStanza => Head(sendCh) \notin Flying
        BY <1>a, <3>3, FlyingFirst
      <4>4. Waiting' = Waiting \/ \E n \in Waiting : Waiting' = Waiting \ {n}
        <5>1. CASE Head(sendCh) = KeepAliveStanza
          BY <3>3, <4>2, <5>1, WaitingParts
        <5>2. CASE Head(sendCh) # KeepAliveStanza
          <6>1. Head(sendCh) \in Waiting /\ Waiting' = Waiting \ {Head(sendCh)}
            BY <3>3, <4>2, <4>3, <5>2, WaitingParts
          <6> QED
            BY <6>1
        <5> QED
          BY <5>1, <5>2
      <4>5. MayLose(k) /\ ~MayLose(k)'
        BY <2>1, <3>1, <3>2, <3>5 DEF MayLose
      <4> QED
        BY <2>3, <3>1, <4>4, <4>5, Lost
    <3> QED
      BY <3>4, <3>5
  <2>5. CASE WriterWrites(k)
    <3>1. /\ writer[k] = "write" /\ open[k] /\ writer' = [writer EXCEPT ![k] = "select"]
          /\ wire' = IF hand[k] = KeepAliveStanza THEN wire ELSE Append(wire, hand[k])
          /\ UNCHANGED <<sendCh, accepted>>
      BY <2>5 DEF WriterWrites
    <3>2. writer'[k] = "select"
      BY <1>a, <3>1
    <3>3. Flying = {hand[k]} /\ \A j \in Conns \ {k} : ~open[j]
      BY <3>1, OneInFlight
    <3>4. InFlight' = {} /\ Flying' = {} /\ Lying' = Lying
      BY <2>1, <3>1, <3>2, <3>3 DEF InFlight, Flying, Lying
    <3>5. MayLose(k)' <=> MayLose(k)
      BY <3>1, <3>2 DEF MayLose
    <3>6. Credit' = Credit
      BY <2>3, <3>5, CreditStays
    <3>7. CASE hand[k] = KeepAliveStanza
      <4>1. Waiting' = Waiting
        BY <3>3, <3>4, <3>7, WaitingParts
      <4> QED
        BY <3>1, <3>6, <3>7, <4>1 DEF Queue!vars, Credit
    <3>8. CASE hand[k] # KeepAliveStanza
      <4>1. hand[k] \notin Lying /\ \A m \in Lying \ {KeepAliveStanza} : hand[k] < m
        BY <1>a, <3>3, <3>8, FlyingFirst
      <4>2. hand[k] \in Waiting /\ Waiting' = Waiting \ {hand[k]} /\ \A m \in Waiting : hand[k] <= m
        BY <1>a, <3>3, <3>4, <3>8, <4>1, WaitingParts
      <4> QED
        BY <3>1, <3>6, <3>8, <4>2 DEF Queue!Next, Queue!Write, Credit
    <3> QED
      BY <3>7, <3>8
  <2>6. CASE WriterFails(k)
    <3>1. /\ writer[k] = "write" /\ writer' = [writer EXCEPT ![k] = "done"]
          /\ UNCHANGED <<sendCh, wire, accepted>>
      BY <2>6 DEF WriterFails, queueVars
    <3>2. writer'[k] = "done"
      BY <1>a, <3>1
    <3>3. CASE open[k]
      <4>1. Flying = {hand[k]} /\ \A j \in Conns \ {k} : ~open[j]
        BY <3>1, <3>3, OneInFlight
      <4>2. InFlight' = {} /\ Flying' = {} /\ Lying' = Lying
        BY <2>1, <3>1, <3>2, <4>1 DEF InFlight, Flying, Lying
      <4>3. Waiting' = Waiting \/ \E n \in Waiting : Waiting' = Waiting \ {n}
        <5>1. CASE hand[k] = KeepAliveStanza
          BY <4>1, <4>2, <5>1, WaitingParts
        <5>2. CASE hand[k] # KeepAliveStanza
          <6>1. hand[k] \notin Lying
            BY <1>a, <4>1, <5>2, FlyingFirst
          <6>2. hand[k] \in Waiting /\ Waiting' = Waiting \ {hand[k]}
            BY <4>1, <4>2, <5>2, <6>1, WaitingParts
          <6> QED
            BY <6>2
        <5> QED
          BY <5>1, <5>2
      <4>4. MayLose(k) /\ ~MayLose(k)'
        BY <3>1, <3>2, <3>3 DEF MayLose
      <4> QED
        BY <2>3, <3>1, <4>3, <4>4, Lost
    <3>4. CASE ~open[k]
      <4>1. InFlight' = InFlight /\ k \notin InFlight
        BY <2>1, <2>2, <3>4 DEF InFlight
      <4>2. Flying' = Flying /\ Lying' = Lying
        BY <2>2, <3>1, <4>1 DEF Flying, InFlight, Lying
      <4>3. MayLose(k)' <=> MayLose(k)
        BY <2>1, <3>1, <3>2, <3>4 DEF MayLose
      <4>4. Credit' = Credit
        BY <2>3, <4>3, CreditStays
      <4> QED
        BY <3>1, <4>2, <4>4, WaitingParts DEF Queue!vars, Credit
    <3> QED
      BY <3>3, <3>4
  <2>7. CASE WriterEnds(k)
    <3>1. /\ writer[k] = "select" /\ writer' = [writer EXCEPT ![k] = "done"]
          /\ UNCHANGED <<sendCh, wire, accepted, hand>>
      BY <2>7 DEF WriterEnds, queueVars
    <3>2. writer'[k] = "done"
      BY <1>a, <3>1
    <3>3. InFlight' = InFlight
      BY <2>1, <2>2, <3>1, <3>2 DEF InFlight
    <3>4. Waiting' = Waiting
      BY <3>1, <3>3 DEF Waiting
    <3> QED
      BY <2>3, <3>1, <3>2, <3>4, Lost DEF MayLose
  <2>8. CASE KeeperSends(k)
    <3>1. sendCh' = Append(sendCh, KeepAliveStanza) /\ UNCHANGED <<writer, hand, wire, accepted>>
      BY <2>8 DEF KeeperSends, loopVars
    <3>2. Lying' = Lying \cup {KeepAliveStanza}
      BY <1>a, <3>1, Fuller DEF KeepAliveStanza
    <3>3. Flying' = Flying
      BY <2>1, <3>1 DEF Flying, InFlight
    <3>4. Waiting' = Waiting
      BY <3>2, <3>3, WaitingParts
    <3>5. Credit' = Credit
      BY <2>1, <3>1, CreditStays DEF MayLose
    <3> QED
      BY <3>1, <3>4, <3>5 DEF Queue!vars, Credit
  <2>9. CASE ReaderFails(k) \/ ReaderGets(k) \/ ReaderDispatches(k) \/ KeeperFull(k) \/ KeeperEnds(k)
    BY <1>b, <2>1, <2>9 DEF ReaderFails, ReaderGets, ReaderDispatches, KeeperFull, KeeperEnds, queueVars
  <2> QED
    BY <1>3, <2>4, <2>5, <2>6, <2>7, <2>8, <2>9 DEF LoopStep
<1>5. ASSUME NEW r \in Runs, ContextEnds(r) PROVE [Queue!Next]_(Queue!vars)
  <2>1. UNCHANGED <<connVars, loopVars, queueVars>>
    BY <1>5, <1>a, ContextEffect DEF TypeOK
  <2> QED
    BY <1>b, <2>1 DEF connVars, loopVars, queueVars
<1>4. ASSUME UNCHANGED vars PROVE UNCHANGED Queue!vars
  BY <1>4, <1>b DEF vars, connVars, loopVars, queueVars
<1> QED
  BY <1>1, <1>2, <1>3, <1>4, <1>5 DEF Next, AppStep

LEMMA QueueInit == Init => Queue!Init
<1> SUFFICES ASSUME Init PROVE Queue!Init
  OBVIOUS
<1>1. InFlight = {} /\ {sendCh[n] : n \in DOMAIN sendCh} = {}
  BY DEF Init, InFlight
<1>2. Waiting = {}
  BY <1>1 DEF Waiting
<1>3. {k \in Conns : MayLose(k)} = {}
  BY DEF Init, MayLose
<1>4. Cardinality({k \in Conns : MayLose(k)}) = 0
  BY <1>3, FS_EmptySet
<1> QED
  BY <1>2, <1>4 DEF Init, Queue!Init

-----------------------------------------------------------------------------
(* Theorems *)

LEMMA ClientInitially == Init => ClientInv /\ Ordered
<1> SUFFICES ASSUME Init PROVE ClientInv /\ Ordered
  OBVIOUS
<1> USE ClientAssumption
<1>1. TypeOK
  <2>1. 0 \in 0 .. MaxRuns /\ 0 \in 0 .. MaxConns /\ 0 \in 0 .. MaxSends
    OBVIOUS
  <2>2. <<>> \in Seq({"other", "canceled"}) /\ <<>> \in Seq(0 .. MaxSends) /\ <<>> \in Seq(1 .. MaxSends)
        /\ Len(<<>>) = 0
    OBVIOUS
  <2>3. errCh \in [Conns -> Seq({"other", "canceled"})] /\ \A k \in Conns : Len(errCh[k]) <= 3
    BY <2>2 DEF Init
  <2>4. Len(sendCh) <= WriteBuffer
    BY <2>2 DEF Init
  <2> QED
    BY <2>1, <2>2, <2>3, <2>4 DEF Init, TypeOK
<1>2. Supervised
  BY DEF Init, Supervised, Alive, Runs
<1>3. Connected
  BY DEF Init, Connected, Unborn, Conns
<1>4. Reported
  BY DEF Init, Reported, Count
<1>5. StopsForAReason
  BY DEF Init, StopsForAReason
<1>6. Ordered
  BY DEF Init, Ordered, WireInOrder, Queued
<1> QED
  BY <1>1, <1>2, <1>3, <1>4, <1>5, <1>6 DEF ClientInv

\* The supervisors and their connections keep the invariant, whatever the
\* application, the peer and the loops do (client.go).
THEOREM ClientInvariant == Spec => []ClientInv
<1>1. ClientInv /\ [Next]_vars => ClientInv'
  BY TypeStep, SupervisedStep, ConnectedStep, ReportedStep, StopsStep DEF ClientInv
<1> QED
  BY <1>1, ClientInitially, PTL DEF Spec

\* Every variable has its type, and no loop ever finds its errCh full: three
\* places are enough (client.go connectAndRun).
THEOREM TypeCorrect == Spec => []TypeOK
<1>1. ClientInv => TypeOK
  BY DEF ClientInv
<1> QED
  BY <1>1, ClientInvariant, PTL

\* Client.running stands for exactly one live supervisor, and an open socket is
\* the connection it waits on (client.go Connect, connectAndRun, markStopped).
THEOREM OneSupervisorLives == Spec => []OneSupervisor
<1>1. ClientInv => OneSupervisor
  <2> SUFFICES ASSUME ClientInv PROVE OneSupervisor
    OBVIOUS
  <2>a. runs \in 0 .. MaxRuns /\ conns \in Nat
    BY ClientAssumption DEF ClientInv, TypeOK
  <2>1. Cardinality({r \in Runs : sup[r] \in Alive}) = (IF running THEN 1 ELSE 0)
    <3>1. CASE running
      <4>1. runs \in Runs
        BY <2>a, <3>1 DEF ClientInv, Supervised, Runs
      <4>2. {r \in Runs : sup[r] \in Alive} = {runs}
        BY <3>1, <4>1 DEF ClientInv, Supervised
      <4> QED
        BY <3>1, <4>2, FS_Singleton
    <3>2. CASE ~running
      <4>1. {r \in Runs : sup[r] \in Alive} = {}
        BY <3>2 DEF ClientInv, Supervised
      <4> QED
        BY <3>2, <4>1, FS_EmptySet
    <3> QED
      BY <3>1, <3>2
  <2>2. \A k \in Conns : open[k] => current = k /\ sup[owner[k]] = "up"
    BY <2>a DEF ClientInv, Connected, Unborn, Conns
  <2> QED
    BY <2>1, <2>2 DEF OneSupervisor
<1> QED
  BY <1>1, ClientInvariant, PTL

\* A supervisor stops only when its context ended or its budget is used up, and
\* connections that worked count against the budget too (client.go supervisor).
THEOREM StopsWithReason == Spec => []StopsForAReason
<1>1. ClientInv => StopsForAReason
  BY DEF ClientInv
<1> QED
  BY <1>1, ClientInvariant, PTL

\* Across all connections no stanza is written twice and none overtakes one
\* that SendRaw took before it (client.go writeLoop).
THEOREM StanzasInOrder == Spec => []WireInOrder
<1>1. ClientInv /\ Ordered /\ [Next]_vars => Ordered'
  BY OrderedStep DEF ClientInv
<1>2. Ordered => WireInOrder
  BY DEF Ordered
<1> QED
  BY <1>1, <1>2, ClientInitially, ClientInvariant, PTL DEF Spec

\* The safety part of ImplementsSession: seen from the client facade, every
\* step of a supervisor and its loops is one of XMPPSession or none at all.
THEOREM SupervisorImplementsSession == Spec => Session!Init /\ [][Session!Next]_(Session!vars)
<1>1. Init => Session!Init
  BY DEF Init, Session!Init, PhaseOf
<1>2. ClientInv /\ [Next]_vars => [Session!Next]_(Session!vars)
  BY SessionStep
<1> QED
  BY <1>1, <1>2, ClientInvariant, PTL DEF Spec

\* The loops of all connections together, with the queue they share, implement
\* the lossy queue a caller of SendRaw is promised: what was accepted is written
\* in that order, and each connection costs one stanza at most (client.go
\* SendRaw, writeLoop, connectAndRun).
THEOREM ClientImplementsQueue == Spec => ImplementsQueue
<1>1. ClientInv /\ Ordered /\ [Next]_vars => Ordered'
  BY OrderedStep DEF ClientInv
<1>2. ClientInv /\ Ordered /\ [Next]_vars => [Queue!Next]_(Queue!vars)
  BY QueueStep
<1> QED
  BY <1>1, <1>2, QueueInit, ClientInitially, ClientInvariant, PTL DEF Spec, ImplementsQueue, Queue!Spec
=============================================================================
