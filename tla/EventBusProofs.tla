--------------------------- MODULE EventBusProofs ---------------------------
(***************************************************************************)
(* Theorems about EventBus for every number of callers, kinds of events,   *)
(* capacities and bounds.                                                  *)
(***************************************************************************)
EXTENDS EventBus, TLAPS

\* What a registration does to the counter and to the new channel.
LEMMA AllocateTypes ==
  ASSUME TypeOK, Allocate
  PROVE  /\ nextID \in ID /\ nextID' \in 0 .. MaxID /\ nextID' = nextID + 1
         /\ open' \in [ID -> BOOLEAN]
         /\ from' \in [ID -> Nat] /\ seen' \in [ID -> Nat]
<1>1. nextID \in ID /\ nextID' \in 0 .. MaxID
  BY BusAssumption DEF TypeOK, Allocate, ID
<1>2. Len(log) \in Nat
  BY DEF TypeOK
<1> QED
  BY <1>1, <1>2 DEF TypeOK, Allocate

\* Taking the head of a channel that is not empty.
LEMMA TakeTypes ==
  ASSUME TypeOK, NEW i \in ID, buf[i] # <<>>
  PROVE  /\ Head(buf[i]) \in Nat
         /\ [buf EXCEPT ![i] = Tail(@)] \in [ID -> Seq(Nat)]
<1>1. buf[i] \in Seq(Nat)
  BY DEF TypeOK
<1>2. Head(buf[i]) \in Nat /\ Tail(buf[i]) \in Seq(Nat)
  BY <1>1
<1> QED
  BY <1>2 DEF TypeOK

\* TypeOK: every variable keeps its type; the ids handed out stay below MaxID.
THEOREM TypeCorrect == Spec => []TypeOK
<1> USE BusAssumption DEF ID, NoID, CtxStates, InCall, Errors
<1>1. Init => TypeOK
  <2> SUFFICES ASSUME Init PROVE TypeOK
    OBVIOUS
  <2>1. nextID \in 0 .. MaxID /\ callID \in [Callers -> ID \cup {NoID}]
    BY DEF Init
  <2>2. buf \in [ID -> Seq(Nat)] /\ log \in Seq(Events)
    BY DEF Init
  <2>3. ret \in [Callers -> [err : {"none", "nil"} \cup Errors, at : Nat]]
    BY DEF Init, None
  <2> QED
    BY <2>1, <2>2, <2>3 DEF Init, TypeOK
<1>2. TypeOK /\ [Next]_vars => TypeOK'
  <2> SUFFICES ASSUME TypeOK, [Next]_vars PROVE TypeOK'
    OBVIOUS
  <2> USE DEF TypeOK, busVars, callVars
  <2>1. ASSUME NEW b \in Buffers, Subscribe(b) PROVE TypeOK'
    <3>1. Allocate
      BY <2>1 DEF Subscribe
    <3>2. Capacity(b) \in Nat
      BY DEF Capacity
    <3> QED
      BY <2>1, <3>1, <3>2, AllocateTypes DEF Subscribe
  <2>2. ASSUME NEW i \in ID, Cancel(i) PROVE TypeOK'
    BY <2>2 DEF Cancel
  <2>3. ASSUME NEW i \in ID, ReadSub(i) PROVE TypeOK'
    <3>1. /\ Head(buf[i]) \in Nat
          /\ buf' \in [ID -> Seq(Nat)]
      BY <2>3, TakeTypes DEF ReadSub
    <3> QED
      BY <2>3, <3>1 DEF ReadSub
  <2>4. ASSUME NEW e \in Events, Emit(e) PROVE TypeOK'
    <3>1. Len(log) + 1 \in Nat /\ log' \in Seq(Events)
      BY <2>4 DEF Emit
    <3>2. \A i \in ID : Append(buf[i], Len(log) + 1) \in Seq(Nat)
      BY <3>1
    <3>3. buf' \in [ID -> Seq(Nat)]
      BY <2>4, <3>2 DEF Emit
    <3> QED
      BY <2>4, <3>1, <3>3 DEF Emit
  <2>5. ASSUME Close PROVE TypeOK'
    BY <2>5 DEF Close
  <2>6. ASSUME NEW c \in Callers, NEW w \in Predicates, NEW x \in CtxStates,
               WaitForRegister(c, w, x)
        PROVE  TypeOK'
    <3>1. Allocate
      BY <2>6 DEF WaitForRegister
    <3> QED
      BY <2>6, <3>1, AllocateTypes DEF WaitForRegister, None
  <2>7. ASSUME NEW c \in Callers, WaitForRefused(c) PROVE TypeOK'
    BY <2>7 DEF WaitForRefused, Fail
  <2>8. ASSUME NEW c \in Callers, WaitForEvent(c) PROVE TypeOK'
    <3> DEFINE i == callID[c]
    <3>1. i \in ID
      BY <2>8 DEF WaitForEvent
    <3>2. Head(buf[i]) \in Nat /\ buf' \in [ID -> Seq(Nat)]
      BY <2>8, <3>1, TakeTypes DEF WaitForEvent
    <3> QED
      BY <2>8, <3>2 DEF WaitForEvent, Got
  <2>9. ASSUME NEW c \in Callers, WaitForClosedChan(c) PROVE TypeOK'
    BY <2>9 DEF WaitForClosedChan
  <2>10. ASSUME NEW c \in Callers, WaitForRecheck(c) PROVE TypeOK'
    BY <2>10 DEF WaitForRecheck, Fail, CtxError
  <2>11. ASSUME NEW c \in Callers, WaitForDone(c) PROVE TypeOK'
    BY <2>11 DEF WaitForDone
  <2>12. ASSUME NEW c \in Callers, WaitForGiveUp(c) PROVE TypeOK'
    BY <2>12 DEF WaitForGiveUp, Fail, CtxError
  <2>13. ASSUME NEW c \in Callers, NEW x \in CtxStates, ContextEnds(c, x)
         PROVE  TypeOK'
    BY <2>13 DEF ContextEnds
  <2>14. ASSUME UNCHANGED vars PROVE TypeOK'
    BY <2>14 DEF vars
  <2> QED
    BY <2>1, <2>2, <2>3, <2>4, <2>5, <2>6, <2>7, <2>8, <2>9, <2>10,
       <2>11, <2>12, <2>13, <2>14 DEF Next, CallerStep
<1> QED
  BY <1>1, <1>2, PTL DEF Spec

\* A step leaves the registry sound: see Registry.
LEMMA RegistryStep ==
  ASSUME TypeOK, TypeOK', Registry, Ownership, [Next]_vars PROVE Registry'
<1>a. ASSUME NEW i \in ID PROVE
        /\ nextID \in Nat /\ i \in Nat /\ buf[i] \in Seq(Nat) /\ log \in Seq(Events)
        /\ subCap[i] \in Nat /\ open[i] \in BOOLEAN /\ from[i] \in Nat
        /\ Entry(i) /\ Len(log) \in Nat /\ Len(buf[i]) \in Nat
        /\ (buf[i] = <<>> <=> Len(buf[i]) = 0)
  BY BusAssumption DEF TypeOK, Registry, ID
<1>1. ASSUME NEW b \in Buffers, Subscribe(b) PROVE Registry'
  <2>1. Capacity(b) \in Nat \ {0}
    BY BusAssumption DEF Capacity
  <2>2. Allocate
    BY <1>1 DEF Subscribe
  <2>3. ASSUME NEW j \in ID PROVE Entry(j)'
    <3>1. /\ open'[j] <=> j = nextID \/ open[j]
          /\ from'[j] = IF j = nextID THEN Len(log) ELSE from[j]
          /\ subCap'[j] = IF j = nextID THEN Capacity(b) ELSE subCap[j]
      BY <1>1, <2>2 DEF Subscribe, Allocate, TypeOK
    <3> QED
      BY <1>1, <1>a, <2>1, <2>2, <3>1 DEF Subscribe, Allocate, Entry
  <2> QED
    BY <1>1, <2>3 DEF Subscribe, Registry
<1>2. ASSUME NEW i \in ID, Cancel(i) PROVE Registry'
  <2>1. ASSUME NEW j \in ID PROVE Entry(j)'
    BY <1>2, <1>a DEF Cancel, Entry, TypeOK
  <2> QED
    BY <1>2, <2>1 DEF Cancel, Registry
<1>3. ASSUME NEW i \in ID, ReadSub(i) PROVE Registry'
  <2>1. i \notin waiters /\ Len(Tail(buf[i])) = Len(buf[i]) - 1
    BY <1>3, <1>a DEF ReadSub, Entry
  <2>2. ASSUME NEW j \in ID PROVE Entry(j)'
    <3>1. buf'[j] = IF j = i THEN Tail(buf[i]) ELSE buf[j]
      BY <1>3 DEF ReadSub, TypeOK
    <3> QED
      BY <1>3, <1>a, <2>1, <3>1 DEF ReadSub, Entry, busVars
  <2> QED
    BY <1>3, <2>2 DEF ReadSub, Registry, busVars
<1>4. ASSUME NEW e \in Events, Emit(e) PROVE Registry'
  <2>1. Len(log') = Len(log) + 1
    BY <1>4, <1>a DEF Emit, TypeOK
  <2>2. ASSUME NEW j \in ID PROVE Entry(j)'
    <3>1. Len(Append(buf[j], Len(log) + 1)) = Len(buf[j]) + 1
      BY <1>a
    <3>2. /\ buf'[j] = IF j \in Receivers(e) \cup Matching(e)
                       THEN Append(buf[j], Len(log) + 1) ELSE buf[j]
          /\ open'[j] = (open[j] /\ j \notin Matching(e))
      BY <1>4 DEF Emit
    <3> QED
      BY <1>4, <1>a, <2>1, <3>1, <3>2
         DEF Emit, Entry, Receivers, Matching
  <2> QED
    BY <1>4, <2>2 DEF Emit, Registry
<1>5. ASSUME Close PROVE Registry'
  <2>1. ASSUME NEW j \in ID PROVE Entry(j)'
    BY <1>5, <1>a DEF Close, Entry
  <2> QED
    BY <1>5, <2>1 DEF Close, Registry
<1>6. ASSUME NEW c \in Callers, NEW w \in Predicates, NEW x \in CtxStates,
             WaitForRegister(c, w, x)
      PROVE  Registry'
  <2>1. Allocate
    BY <1>6 DEF WaitForRegister
  <2>2. ASSUME NEW j \in ID PROVE Entry(j)'
    <3>1. /\ open'[j] <=> j = nextID \/ open[j]
          /\ from'[j] = IF j = nextID THEN Len(log) ELSE from[j]
      BY <2>1 DEF Allocate, TypeOK
    <3> QED
      BY <1>6, <1>a, <2>1, <3>1 DEF WaitForRegister, Allocate, Entry
  <2> QED
    BY <1>6, <2>2 DEF WaitForRegister, Registry
<1>7. ASSUME NEW c \in Callers, WaitForEvent(c) PROVE Registry'
  <2>1. callID[c] \in ID /\ callID[c] \notin waiters /\ subCap[callID[c]] = 0 /\ callID[c] < nextID
    <3>1. callID[c] \in ID /\ callID[c] # NoID
      BY <1>7, BusAssumption DEF WaitForEvent, TypeOK, InCall, ID, NoID
    <3> QED
      BY <1>7, <1>a, <3>1 DEF WaitForEvent, Entry, Ownership
  <2>2. ASSUME NEW j \in ID PROVE Entry(j)'
    <3>1. buf'[j] = IF j = callID[c] THEN Tail(buf[callID[c]]) ELSE buf[j]
      BY <1>7 DEF WaitForEvent, TypeOK
    <3> QED
      BY <1>7, <1>a, <2>1, <3>1 DEF WaitForEvent, Entry, busVars
  <2> QED
    BY <1>7, <2>2 DEF WaitForEvent, Registry, busVars
<1>8. ASSUME NEW c \in Callers, WaitForGiveUp(c) PROVE Registry'
  <2>1. ASSUME NEW j \in ID PROVE Entry(j)'
    <3>1. open'[j] = (open[j] /\ (callID[c] \in waiters => j # callID[c]))
      BY <1>8, <1>a DEF WaitForGiveUp, TypeOK
    <3> QED
      BY <1>8, <1>a, <3>1 DEF WaitForGiveUp, Entry
  <2> QED
    BY <1>8, <2>1 DEF WaitForGiveUp, Registry
<1>9. ASSUME UNCHANGED <<busVars, buf, open, log, from>> PROVE Registry'
  BY <1>9 DEF Registry, Entry, busVars
<1> QED
  BY <1>1, <1>2, <1>3, <1>4, <1>5, <1>6, <1>7, <1>8, <1>9
     DEF Next, CallerStep, WaitForRefused, WaitForClosedChan, WaitForRecheck,
         WaitForDone, ContextEnds, vars

\* A step leaves every id with its owner: see Ownership.
LEMMA OwnershipStep ==
  ASSUME TypeOK, TypeOK', Registry, Ownership, Delivery, [Next]_vars
  PROVE  Ownership'
<1>a. /\ nextID \in Nat /\ nextID <= MaxID /\ NoID = MaxID /\ MaxID \in Nat
      /\ \A c \in Callers : callID[c] \in Nat
      /\ \A c \in Callers : pc[c] \in InCall => callID[c] # NoID /\ callID[c] \in ID
  BY BusAssumption DEF TypeOK, ID, NoID
<1>1. ASSUME NEW b \in Buffers, Subscribe(b) PROVE Ownership'
  <2>1. \A j \in ID : j # nextID => subCap'[j] = subCap[j]
    BY <1>1 DEF Subscribe, TypeOK
  <2>2. \A c \in Callers : callID[c] # NoID => callID[c] \in ID
    BY DEF TypeOK
  <2> QED
    BY <1>1, <1>a, <2>1, <2>2 DEF Subscribe, Allocate, Ownership, callVars
<1>2. ASSUME NEW c \in Callers, NEW w \in Predicates, NEW x \in CtxStates,
             WaitForRegister(c, w, x)
      PROVE  Ownership'
  <2>1. /\ nextID' = nextID + 1 /\ nextID \in ID /\ nextID # NoID
        /\ waiters' = waiters \cup {nextID} /\ subCap' = subCap
    <3>1. Allocate
      BY <1>2 DEF WaitForRegister
    <3> QED
      BY <1>2, <3>1, <1>a, AllocateTypes DEF WaitForRegister, ID
  <2>2. /\ callID'[c] = nextID /\ pc'[c] = "select"
        /\ \A d \in Callers : d # c => callID'[d] = callID[d] /\ pc'[d] = pc[d]
    BY <1>2 DEF WaitForRegister, TypeOK
  <2>3. subCap[nextID] = 0
    BY <2>1, <1>a DEF Registry, Entry
  <2>4. pc[c] \notin InCall
    BY <1>2 DEF WaitForRegister, InCall
  <2>5. \A i \in waiters' : \E d \in Callers : pc'[d] \in InCall /\ callID'[d] = i
    <3>1. "select" \in InCall
      BY DEF InCall
    <3> QED
      BY <2>1, <2>2, <2>4, <3>1 DEF Ownership
  <2> QED
    BY <2>1, <2>2, <2>3, <2>5, <1>a DEF Ownership
<1>3. ASSUME NEW c \in Callers, WaitForRefused(c) PROVE Ownership'
  <2>1. \A d \in Callers : callID'[d] = IF d = c THEN NoID ELSE callID[d]
    BY <1>3 DEF WaitForRefused, TypeOK
  <2>2. NoID' = NoID /\ pc[c] \notin InCall
    BY <1>3 DEF WaitForRefused, NoID, InCall
  <2> QED
    BY <1>3, <2>1, <2>2 DEF WaitForRefused, Ownership, busVars
\* A call ends: its id is no longer, or not after this step, a waiter.
<1>4. ASSUME NEW c \in Callers, pc[c] \in InCall, pc' = [pc EXCEPT ![c] = "idle"],
             callID[c] \notin waiters', waiters' \subseteq waiters,
             UNCHANGED <<nextID, subCap, callID>>
      PROVE  Ownership'
  <2>1. \A d \in Callers : d # c => pc'[d] = pc[d]
    BY <1>4 DEF TypeOK
  <2> QED
    BY <1>4, <2>1 DEF Ownership, NoID
<1>5. ASSUME NEW c \in Callers, WaitForEvent(c) PROVE Ownership'
  <2>1. callID[c] \notin waiters /\ pc[c] \in InCall
    BY <1>5, <1>a DEF WaitForEvent, Registry, Entry, InCall, TypeOK
  <2> QED
    BY <1>4, <1>5, <2>1 DEF WaitForEvent, busVars
<1>6. ASSUME NEW c \in Callers, WaitForRecheck(c) PROVE Ownership'
  <2>1. callID[c] \notin waiters /\ pc[c] \in InCall
    BY <1>6 DEF WaitForRecheck, Delivery, CallOK, ShutOut, InCall
  <2> QED
    BY <1>4, <1>6, <2>1 DEF WaitForRecheck, busVars
<1>7. ASSUME NEW c \in Callers, WaitForGiveUp(c) PROVE Ownership'
  <2>1. /\ callID[c] \notin waiters' /\ waiters' \subseteq waiters
        /\ pc[c] \in InCall
    BY <1>7 DEF WaitForGiveUp, InCall
  <2> QED
    BY <1>4, <1>7, <2>1 DEF WaitForGiveUp
<1>8. ASSUME NEW c \in Callers, WaitForClosedChan(c) \/ WaitForDone(c)
      PROVE  Ownership'
  <2>1. \A d \in Callers : pc[d] \in InCall => pc'[d] \in InCall
    BY <1>8 DEF WaitForClosedChan, WaitForDone, InCall, TypeOK
  <2> QED
    BY <1>8, <2>1 DEF WaitForClosedChan, WaitForDone, Ownership, busVars, NoID
<1>9. ASSUME UNCHANGED <<nextID, subCap, pc, callID>>, waiters' \subseteq waiters
      PROVE  Ownership'
  BY <1>9 DEF Ownership, NoID
<1> QED
  BY <1>1, <1>2, <1>3, <1>5, <1>6, <1>7, <1>8, <1>9
     DEF Next, CallerStep, Cancel, ReadSub, Emit, Close, ContextEnds,
         vars, busVars, callVars

\* What was due to i stays due: nothing rewrites the predicate, the place of
\* registration or the log.
LEMMA DueFrame ==
  ASSUME NEW i, want'[i] = want[i], from'[i] = from[i], log' = log
  PROVE  /\ \A n : Due(i, n)' <=> Due(i, n)
         /\ \A n : IsFirstDue(i, n)' <=> IsFirstDue(i, n)
         /\ NothingDue(i)' <=> NothingDue(i)
BY DEF Due, IsFirstDue, NothingDue

\* A channel no step touches stays as it is.
LEMMA ChannelFrame ==
  ASSUME NEW i, want'[i] = want[i], from'[i] = from[i], log' = log,
         i \in waiters' <=> i \in waiters, open'[i] <=> open[i],
         buf'[i] = buf[i], closed' = closed
  PROVE  /\ Waiting(i)' <=> Waiting(i)
         /\ Served(i)' <=> Served(i)
         /\ ShutOut(i)' <=> ShutOut(i)
BY DueFrame DEF Waiting, Served, ShutOut

\* One more event in the log: what was due before is what is due now, and the
\* new position is due exactly to those that accept the new kind.
LEMMA DueAfterEmit ==
  ASSUME TypeOK, Registry, NEW e \in Events, Emit(e), NEW i \in ID,
         NEW k, k = Len(log) + 1
  PROVE  /\ \A n : IsFirstDue(i, n) => IsFirstDue(i, n)'
         /\ NothingDue(i) /\ e \in want[i] => IsFirstDue(i, k)'
         /\ NothingDue(i) /\ e \notin want[i] => NothingDue(i)'
<1>1. /\ log \in Seq(Events) /\ log' = Append(log, e)
      /\ from[i] \in Nat /\ from[i] <= Len(log)
      /\ want' = want /\ from' = from
  BY DEF TypeOK, Registry, Entry, Emit
<1>2. /\ Len(log) \in Nat /\ Len(log') = k
      /\ log'[k] = e
      /\ \A n \in 1 .. Len(log) : log'[n] = log[n]
  BY <1>1
<1>3. \A n \in 1 .. Len(log) : Due(i, n)' <=> Due(i, n)
  BY <1>1, <1>2 DEF Due
<1>4. Due(i, k)' <=> e \in want[i]
  BY <1>1, <1>2 DEF Due
<1>5. \A n : Due(i, n) => n \in 1 .. Len(log)
  BY <1>1, <1>2 DEF Due
<1>6. \A n : IsFirstDue(i, n) => IsFirstDue(i, n)'
  BY <1>2, <1>3, <1>5 DEF IsFirstDue
<1>7. ASSUME NothingDue(i), e \in want[i] PROVE IsFirstDue(i, k)'
  <2>1. \A n \in 1 .. k - 1 : ~Due(i, n)'
    BY <1>2, <1>3, <1>7 DEF NothingDue
  <2> QED
    BY <1>4, <1>7, <2>1 DEF IsFirstDue
<1>8. ASSUME NothingDue(i), e \notin want[i] PROVE NothingDue(i)'
  <2>1. \A n \in 1 .. k : n \in 1 .. Len(log) \/ n = k
    BY <1>2
  <2> QED
    BY <1>2, <1>3, <1>4, <1>8, <2>1 DEF NothingDue
<1> QED
  BY <1>6, <1>7, <1>8

\* The id of a running call: handed out, no subscription's, and its own.
LEMMA CallFacts ==
  ASSUME TypeOK, Registry, Ownership, NEW c \in Callers, pc[c] \in InCall
  PROVE  /\ callID[c] \in ID /\ callID[c] < nextID /\ callID[c] # nextID
         /\ subCap[callID[c]] = 0 /\ callID[c] \notin subs /\ Entry(callID[c])
         /\ \A d \in Callers : callID[d] = callID[c] => d = c
<1>1. callID[c] \in ID /\ callID[c] # NoID
  BY BusAssumption DEF TypeOK, ID, NoID
<1>2. callID[c] < nextID /\ subCap[callID[c]] = 0 /\ Entry(callID[c])
  BY <1>1 DEF Ownership, Registry
<1>3. callID[c] # nextID
  BY <1>1, <1>2, BusAssumption DEF ID, TypeOK
<1> QED
  BY <1>1, <1>2, <1>3 DEF Entry, Ownership

\* A step keeps the channel of every running call in one of its three states.
LEMMA DeliveryStep ==
  ASSUME TypeOK, TypeOK', Registry, Ownership, Delivery, [Next]_vars
  PROVE  Delivery'
<1>a. ASSUME NEW c \in Callers, pc[c] \in InCall
      PROVE  /\ callID[c] \in ID /\ callID[c] < nextID /\ callID[c] # nextID
             /\ subCap[callID[c]] = 0 /\ callID[c] \notin subs
             /\ Entry(callID[c]) /\ CallOK(c)
             /\ \A d \in Callers : callID[d] = callID[c] => d = c
  BY <1>a, CallFacts DEF Delivery
\* A call that goes on, and whose channel goes from one state to the next.
<1>b. ASSUME NEW c \in Callers, pc'[c] \in InCall => pc'[c] = pc[c],
             NEW i, i = callID[c], callID'[c] = i,
             pc[c] \in InCall =>
               /\ Waiting(i) => Waiting(i)' \/ Served(i)' \/ ShutOut(i)'
               /\ Served(i) => Served(i)'
               /\ ShutOut(i) => ShutOut(i)'
      PROVE  CallOK(c)'
  <2>1. pc'[c] \notin InCall => CallOK(c)'
    BY DEF CallOK, InCall
  <2>2. ASSUME pc'[c] \in InCall PROVE CallOK(c)'
    BY <2>2, <1>b, <1>a DEF CallOK
  <2> QED
    BY <2>1, <2>2
\* The same when the step leaves the channel alone.
<1>c. ASSUME NEW c \in Callers, pc'[c] \in InCall => pc'[c] = pc[c],
             NEW i, i = callID[c], callID'[c] = i,
             pc[c] \in InCall =>
               /\ want'[i] = want[i] /\ from'[i] = from[i] /\ log' = log
               /\ (i \in waiters' <=> i \in waiters) /\ (open'[i] <=> open[i])
               /\ buf'[i] = buf[i] /\ closed' = closed
      PROVE  CallOK(c)'
  BY <1>b, <1>c, ChannelFrame
<1>1. ASSUME NEW b \in Buffers, Subscribe(b), NEW c \in Callers PROVE CallOK(c)'
  <2> DEFINE i == callID[c]
  <2>1. pc[c] \in InCall => from'[i] = from[i] /\ (open'[i] <=> open[i])
    BY <1>1, <1>a DEF Subscribe, Allocate, TypeOK
  <2> QED
    BY <1>1, <1>c, <2>1 DEF Subscribe, callVars
<1>2. ASSUME NEW j \in ID, Cancel(j), NEW c \in Callers PROVE CallOK(c)'
  <2> DEFINE i == callID[c]
  <2>1. pc[c] \in InCall => (open'[i] <=> open[i])
    BY <1>2, <1>a DEF Cancel, TypeOK
  <2> QED
    BY <1>2, <1>c, <2>1 DEF Cancel, callVars
<1>3. ASSUME NEW j \in ID, ReadSub(j), NEW c \in Callers PROVE CallOK(c)'
  <2> DEFINE i == callID[c]
  <2>1. pc[c] \in InCall => buf'[i] = buf[i]
    BY <1>3, <1>a DEF ReadSub, TypeOK
  <2> QED
    BY <1>3, <1>c, <2>1 DEF ReadSub, busVars, callVars
<1>4. ASSUME NEW e \in Events, Emit(e), NEW c \in Callers PROVE CallOK(c)'
  <2> DEFINE i == callID[c]
  <2> DEFINE k == Len(log) + 1
  <2>1. ASSUME pc[c] \in InCall
        PROVE  /\ Waiting(i) => Waiting(i)' \/ Served(i)'
               /\ Served(i) => Served(i)'
               /\ ~ShutOut(i)
    <3>1. /\ i \in ID /\ Entry(i) /\ i \notin Receivers(e)
          /\ buf[i] \in Seq(Nat) /\ Len(log) + 1 \in Nat
      BY <2>1, <1>a DEF TypeOK, Receivers
    <3>2. /\ buf'[i] = IF i \in Matching(e) THEN Append(buf[i], Len(log) + 1) ELSE buf[i]
          /\ open'[i] <=> open[i] /\ i \notin Matching(e)
          /\ i \in waiters' <=> i \in waiters /\ i \notin Matching(e)
      BY <1>4, <3>1 DEF Emit
    <3>3. CASE i \in Matching(e)
      <4>1. buf[i] = <<>> /\ i \in waiters /\ e \in want[i]
        BY <3>1, <3>3 DEF Matching, Entry
      <4>2. Len(buf'[i]) = 1 /\ buf'[i][1] = Len(log) + 1
        BY <3>1, <3>2, <3>3, <4>1
      <4>3. ASSUME NEW m, m = k, NothingDue(i) PROVE Served(i)'
        <5>1. \A j : j = i => IsFirstDue(j, m)'
          BY <1>4, <3>1, <4>1, <4>3, DueAfterEmit
        <5>2. callID' = callID
          BY <1>4 DEF Emit, callVars
        <5> QED
          BY <3>2, <3>3, <4>2, <4>3, <5>1, <5>2 DEF Served
      <4> QED
        BY <4>1, <4>3 DEF Waiting, Served, ShutOut
    <3>4. CASE i \notin Matching(e)
      <4>1. i \in waiters => e \notin want[i]
        BY <3>4 DEF Matching
      <4>2. /\ \A n : IsFirstDue(i, n) => IsFirstDue(i, n)'
            /\ NothingDue(i) /\ e \notin want[i] => NothingDue(i)'
        BY <1>4, <3>1, DueAfterEmit DEF Emit, callVars
      <4>3. callID' = callID /\ ~closed
        BY <1>4 DEF Emit, callVars
      <4> QED
        BY <3>2, <3>4, <4>1, <4>2, <4>3 DEF Waiting, Served, ShutOut
    <3> QED
      BY <3>3, <3>4
  <2> QED
    BY <1>4, <1>b, <2>1 DEF Emit, callVars
<1>5. ASSUME Close, NEW c \in Callers PROVE CallOK(c)'
  <2> DEFINE i == callID[c]
  <2>1. ASSUME pc[c] \in InCall
        PROVE  /\ Waiting(i) => ShutOut(i)'
               /\ Served(i) => Served(i)'
               /\ ~ShutOut(i)
    <3>1. /\ want'[i] = want[i] /\ from'[i] = from[i] /\ log' = log
          /\ ~closed /\ closed' /\ buf' = buf /\ waiters' = {}
          /\ callID' = callID
      BY <1>5 DEF Close, callVars
    <3>2. i \in ID /\ Entry(i) /\ (open'[i] <=> open[i] /\ i \notin subs \cup waiters)
      BY <1>5, <1>a, <2>1 DEF Close
    <3>3. /\ \A n : IsFirstDue(i, n)' <=> IsFirstDue(i, n)
          /\ NothingDue(i)' <=> NothingDue(i)
      BY <3>1, DueFrame
    <3> QED
      BY <3>1, <3>2, <3>3 DEF Waiting, Served, ShutOut, Entry
  <2> QED
    BY <1>5, <1>b, <2>1 DEF Close, callVars
<1>6. ASSUME NEW d \in Callers, NEW w \in Predicates, NEW x \in CtxStates,
             WaitForRegister(d, w, x), NEW c \in Callers
      PROVE  CallOK(c)'
  <2> DEFINE i == callID[c]
  <2>0. Allocate /\ nextID \in ID
    <3>1. Allocate
      BY <1>6 DEF WaitForRegister
    <3> QED
      BY <3>1, AllocateTypes
  <2>1. CASE c # d
    <3>1. pc'[c] = pc[c] /\ callID'[c] = i
      BY <1>6, <2>1 DEF WaitForRegister, TypeOK
    <3>2. pc[c] \in InCall =>
            /\ want'[i] = want[i] /\ from'[i] = from[i]
            /\ open'[i] <=> open[i]
            /\ i \in waiters' <=> i \in waiters
      BY <1>6, <1>a, <2>0 DEF WaitForRegister, Allocate, TypeOK
    <3> QED
      BY <1>6, <1>c, <3>1, <3>2 DEF WaitForRegister
  <2>2. CASE c = d
    <3>1. pc'[c] = "select" /\ callID'[c] = nextID /\ nextID \in waiters'
      BY <1>6, <2>2 DEF WaitForRegister, TypeOK
    <3>2. from'[nextID] = Len(log) /\ log' = log /\ Len(log) \in Nat
      BY <1>6, <2>0 DEF WaitForRegister, Allocate, TypeOK
    <3>3. NothingDue(callID[c])'
      BY <3>1, <3>2 DEF NothingDue, Due
    <3> QED
      BY <3>1, <3>3 DEF CallOK, Waiting
  <2> QED
    BY <2>1, <2>2
<1>7. ASSUME NEW d \in Callers, WaitForRefused(d), NEW c \in Callers PROVE CallOK(c)'
  <2>1. CASE c = d
    BY <1>7, <2>1 DEF WaitForRefused, CallOK
  <2>2. CASE c # d
    <3>1. callID'[c] = callID[c]
      BY <1>7, <2>2 DEF WaitForRefused, TypeOK
    <3> QED
      BY <1>7, <1>c, <3>1 DEF WaitForRefused, busVars
  <2> QED
    BY <2>1, <2>2
<1>8. ASSUME NEW d \in Callers, WaitForEvent(d), NEW c \in Callers PROVE CallOK(c)'
  <2>1. /\ d = c => pc'[c] = "idle"
        /\ d # c => pc'[c] = pc[c]
    BY <1>8 DEF WaitForEvent, TypeOK
  <2>2. CASE c = d
    BY <2>1, <2>2 DEF CallOK
  <2>3. CASE c # d
    <3>1. pc[c] \in InCall => buf'[callID[c]] = buf[callID[c]]
      BY <1>8, <1>a, <2>3 DEF WaitForEvent, TypeOK, InCall
    <3> QED
      BY <1>8, <1>c, <2>1, <2>3, <3>1 DEF WaitForEvent, busVars
  <2> QED
    BY <2>2, <2>3
<1>9. ASSUME NEW d \in Callers, WaitForClosedChan(d), NEW c \in Callers
      PROVE  CallOK(c)'
  <2> DEFINE i == callID[c]
  <2>1. /\ d = c => pc'[c] = "recheck"
        /\ d # c => pc'[c] = pc[c]
        /\ UNCHANGED <<busVars, buf, open, callID, log, from>>
    BY <1>9 DEF WaitForClosedChan, TypeOK
  <2>2. CASE c = d
    <3>1. /\ pc[c] = "select" /\ buf[i] = <<>> /\ ~open[i]
          /\ Entry(i) /\ CallOK(c)
      BY <1>9, <1>a, <2>2 DEF WaitForClosedChan, InCall
    <3>2. ~Waiting(i) /\ ~Served(i)
      BY <3>1 DEF Waiting, Served, Entry
    <3>3. ShutOut(i)
      BY <3>1, <3>2 DEF CallOK
    <3>4. ShutOut(i)' <=> ShutOut(i)
      BY <2>1, ChannelFrame DEF busVars
    <3> QED
      BY <2>1, <2>2, <3>3, <3>4 DEF CallOK
  <2>3. CASE c # d
    BY <1>c, <2>1, <2>3 DEF busVars
  <2> QED
    BY <2>2, <2>3
<1>10. ASSUME NEW d \in Callers, WaitForRecheck(d), NEW c \in Callers PROVE CallOK(c)'
  <2>1. pc'[c] = IF c = d THEN "idle" ELSE pc[c]
    BY <1>10 DEF WaitForRecheck, TypeOK
  <2> QED
    BY <1>10, <1>c, <2>1 DEF WaitForRecheck, busVars, InCall
<1>11. ASSUME NEW d \in Callers, WaitForDone(d), NEW c \in Callers PROVE CallOK(c)'
  <2> DEFINE i == callID[c]
  <2>1. /\ pc'[c] = IF c = d THEN "done" ELSE pc[c]
        /\ UNCHANGED <<busVars, buf, open, callID, log, from>>
    BY <1>11 DEF WaitForDone, TypeOK
  <2>2. CASE c = d
    <3>1. Waiting(i) \/ Served(i) \/ ShutOut(i)
      BY <1>11, <2>2 DEF WaitForDone, Delivery, CallOK
    <3>2. Waiting(i)' \/ Served(i)' \/ ShutOut(i)'
      BY <2>1, <3>1, ChannelFrame DEF busVars
    <3> QED
      BY <2>1, <2>2, <3>2 DEF CallOK
  <2>3. CASE c # d
    BY <1>c, <2>1, <2>3 DEF busVars
  <2> QED
    BY <2>2, <2>3
<1>12. ASSUME NEW d \in Callers, WaitForGiveUp(d), NEW c \in Callers PROVE CallOK(c)'
  <2> DEFINE i == callID[c]
  <2>1. /\ d = c => pc'[c] = "idle"
        /\ d # c => pc'[c] = pc[c]
    BY <1>12 DEF WaitForGiveUp, TypeOK
  <2>2. CASE c = d
    BY <2>1, <2>2 DEF CallOK
  <2>3. CASE c # d
    <3>1. pc[c] \in InCall =>
            /\ open'[i] <=> open[i]
            /\ i \in waiters' <=> i \in waiters
      BY <1>12, <1>a, <2>3 DEF WaitForGiveUp, TypeOK, InCall
    <3>2. UNCHANGED <<closed, want, from, log, buf, callID>>
      BY <1>12 DEF WaitForGiveUp
    <3> QED
      BY <1>c, <2>1, <2>3, <3>1, <3>2
  <2> QED
    BY <2>2, <2>3
<1>13. ASSUME UNCHANGED <<busVars, buf, open, pc, callID, log, from>>,
              NEW c \in Callers
       PROVE  CallOK(c)'
  BY <1>c, <1>13 DEF busVars
<1> QED
  BY <1>1, <1>2, <1>3, <1>4, <1>5, <1>6, <1>7, <1>8, <1>9, <1>10, <1>11, <1>12,
     <1>13 DEF Delivery, Next, CallerStep, ContextEnds, vars, callVars

\* A step keeps what the finished calls returned true of the bus.
LEMMA ResultsStep ==
  ASSUME TypeOK, TypeOK', Registry, Ownership, Delivery, Results, [Next]_vars
  PROVE  Results'
<1>a. /\ NoID' = NoID
      /\ \A c \in Callers : ResultOK(c)
      /\ \A c \in Callers : callID[c] # NoID => callID[c] \in ID /\ callID[c] # nextID
  <2>1. NoID' = NoID /\ \A c \in Callers : ResultOK(c)
    BY DEF Results, NoID
  <2>2. ASSUME NEW c \in Callers, callID[c] # NoID
        PROVE  callID[c] \in ID /\ callID[c] < nextID
    BY <2>2 DEF TypeOK, Ownership
  <2>3. nextID \in Nat /\ \A j \in ID : j \in Nat
    BY BusAssumption DEF TypeOK, ID
  <2> QED
    BY <2>1, <2>2, <2>3
\* A caller whose result the step leaves alone.
<1>b. ASSUME NEW c \in Callers, ret'[c] = ret[c], callID'[c] = callID[c],
             ctx'[c] = ctx[c] \/ ctx[c] = "live", closed => closed',
             NEW i, i = callID[c],
             i # NoID => /\ \A n : IsFirstDue(i, n) => IsFirstDue(i, n)'
                         /\ closed /\ NothingDue(i) => NothingDue(i)'
      PROVE  ResultOK(c)'
  BY <1>a, <1>b DEF ResultOK
<1>c. ASSUME NEW c \in Callers, ret'[c] = ret[c], callID'[c] = callID[c],
             ctx'[c] = ctx[c] \/ ctx[c] = "live", closed => closed',
             NEW i, i = callID[c],
             i # NoID => want'[i] = want[i] /\ from'[i] = from[i] /\ log' = log
      PROVE  ResultOK(c)'
  BY <1>b, <1>c, DueFrame
<1>1. ASSUME NEW b \in Buffers, Subscribe(b), NEW c \in Callers PROVE ResultOK(c)'
  <2>1. callID[c] # NoID => from'[callID[c]] = from[callID[c]]
    BY <1>1, <1>a DEF Subscribe, Allocate, TypeOK
  <2> QED
    BY <1>1, <1>c, <2>1 DEF Subscribe, callVars
<1>2. ASSUME NEW e \in Events, Emit(e), NEW c \in Callers PROVE ResultOK(c)'
  <2> DEFINE i == callID[c]
  <2>1. ASSUME i # NoID PROVE \A n : IsFirstDue(i, n) => IsFirstDue(i, n)'
    BY <1>2, <1>a, <2>1, DueAfterEmit DEF Emit, callVars
  <2>2. ~closed /\ closed' = closed /\ UNCHANGED <<ret, callID, ctx>>
    BY <1>2 DEF Emit, callVars
  <2> QED
    BY <1>b, <2>1, <2>2
<1>3. ASSUME NEW d \in Callers, NEW w \in Predicates, NEW x \in CtxStates,
             WaitForRegister(d, w, x), NEW c \in Callers
      PROVE  ResultOK(c)'
  <2>1. CASE c = d
    BY <1>3, <2>1 DEF WaitForRegister, ResultOK, None, TypeOK
  <2>2. CASE c # d
    <3>1. callID'[c] = callID[c] /\ ret'[c] = ret[c] /\ ctx'[c] = ctx[c]
      BY <1>3, <2>2 DEF WaitForRegister, TypeOK
    <3>2. callID[c] # NoID => /\ from'[callID[c]] = from[callID[c]]
                              /\ want'[callID[c]] = want[callID[c]]
      BY <1>3, <1>a DEF WaitForRegister, Allocate, TypeOK
    <3> QED
      BY <1>3, <1>c, <3>1, <3>2 DEF WaitForRegister
  <2> QED
    BY <2>1, <2>2
<1>4. ASSUME NEW d \in Callers, WaitForRefused(d), NEW c \in Callers
      PROVE  ResultOK(c)'
  <2>1. CASE c = d
    BY <1>4, <2>1, <1>a DEF WaitForRefused, ResultOK, Fail, TypeOK, busVars
  <2>2. CASE c # d
    <3>1. callID'[c] = callID[c] /\ ret'[c] = ret[c]
      BY <1>4, <2>2 DEF WaitForRefused, TypeOK
    <3> QED
      BY <1>4, <1>c, <3>1 DEF WaitForRefused, busVars
  <2> QED
    BY <2>1, <2>2
\* A call returns r; the others are not concerned.
<1>5. ASSUME NEW d \in Callers, NEW r, ret' = [ret EXCEPT ![d] = r],
             UNCHANGED <<closed, want, from, log, callID, ctx>>,
             ResultOK(d)', NEW c \in Callers
      PROVE  ResultOK(c)'
  <2>1. CASE c # d
    <3>1. ret'[c] = ret[c]
      BY <1>5, <2>1 DEF TypeOK
    <3> QED
      BY <1>5, <1>c, <3>1
  <2> QED
    BY <1>5, <2>1
<1>6. ASSUME NEW d \in Callers, WaitForEvent(d), NEW c \in Callers PROVE ResultOK(c)'
  <2> DEFINE i == callID[d]
  <2>1. /\ UNCHANGED <<closed, waiters, want, from, log, callID, ctx>>
        /\ ret'[d] = Got(Head(buf[i])) /\ buf[i] # <<>>
        /\ i \in ID /\ Entry(i)
    BY <1>6 DEF WaitForEvent, busVars, TypeOK, Registry, InCall
  <2>2. Served(i)
    BY <1>6, <2>1 DEF WaitForEvent, Delivery, CallOK, Waiting, ShutOut, Entry
  <2>3. IsFirstDue(i, Head(buf[i])) /\ i # NoID
    BY <2>1, <2>2, BusAssumption DEF Served, TypeOK, ID, NoID
  <2>4. \A n : IsFirstDue(i, n)' <=> IsFirstDue(i, n)
    BY <2>1, DueFrame
  <2>5. ResultOK(d)'
    BY <1>a, <2>1, <2>3, <2>4 DEF ResultOK, Got
  <2> QED
    BY <1>5, <1>6, <2>1, <2>5 DEF WaitForEvent
<1>7. ASSUME NEW d \in Callers, WaitForRecheck(d), NEW c \in Callers PROVE ResultOK(c)'
  <2> DEFINE i == callID[d]
  <2>1. UNCHANGED <<closed, want, from, log, callID, ctx>>
    BY <1>7 DEF WaitForRecheck, busVars
  <2>2. closed /\ NothingDue(i)
    BY <1>7 DEF WaitForRecheck, Delivery, CallOK, ShutOut
  <2>3. ret'[d] = Fail("ErrBusClosed") /\ (NothingDue(i)' <=> NothingDue(i))
    BY <1>7, <2>1, <2>2, DueFrame DEF WaitForRecheck, TypeOK
  <2>4. ResultOK(d)'
    BY <2>1, <2>2, <2>3 DEF ResultOK, Fail
  <2> QED
    BY <1>5, <1>7, <2>1, <2>4 DEF WaitForRecheck
<1>8. ASSUME NEW d \in Callers, WaitForGiveUp(d), NEW c \in Callers PROVE ResultOK(c)'
  <2>1. /\ UNCHANGED <<closed, want, from, log, callID, ctx>>
        /\ ret'[d] = Fail(CtxError(d))
    BY <1>8 DEF WaitForGiveUp, TypeOK
  <2>2. ctx[d] # "live"
    BY <1>8 DEF WaitForGiveUp, TypeOK
  <2>3. ResultOK(d)'
    BY <2>1, <2>2 DEF ResultOK, Fail, CtxError, TypeOK, CtxStates
  <2> QED
    BY <1>5, <1>8, <2>1, <2>3 DEF WaitForGiveUp
<1>9. ASSUME NEW d \in Callers, NEW x \in CtxStates, ContextEnds(d, x), NEW c \in Callers
      PROVE  ResultOK(c)'
  <2>1. ctx'[c] = ctx[c] \/ ctx[c] = "live"
    BY <1>9 DEF ContextEnds, TypeOK
  <2> QED
    BY <1>9, <1>c, <2>1 DEF ContextEnds, busVars
<1>10. ASSUME UNCHANGED <<want, callVars, log, from>>, closed => closed',
              NEW c \in Callers
       PROVE  ResultOK(c)'
  BY <1>10, <1>c DEF callVars
<1>11. ASSUME NEW d \in Callers, WaitForClosedChan(d) \/ WaitForDone(d), NEW c \in Callers
       PROVE  ResultOK(c)'
  BY <1>11, <1>c DEF WaitForClosedChan, WaitForDone, busVars
<1> QED
  BY <1>1, <1>2, <1>3, <1>4, <1>6, <1>7, <1>8, <1>9, <1>10, <1>11
     DEF Results, Next, CallerStep, Cancel, ReadSub, Close, vars, busVars

\* Every reachable state satisfies the inductive invariant.
THEOREM WaitInvariant == Spec => []WaitInv
<1>1. Init => Registry /\ Ownership /\ Delivery /\ Results
  <2> SUFFICES ASSUME Init PROVE Registry /\ Ownership /\ Delivery /\ Results
    OBVIOUS
  <2>1. Registry
    BY BusAssumption DEF Init, Registry, Entry, ID
  <2>2. Ownership
    BY DEF Init, Ownership
  <2>3. Delivery
    BY DEF Init, Delivery, CallOK
  <2>4. Results
    BY DEF Init, Results, ResultOK, None
  <2> QED
    BY <2>1, <2>2, <2>3, <2>4
<1>2. /\ TypeOK /\ Registry /\ Ownership /\ Delivery /\ Results
      /\ TypeOK' /\ [Next]_vars
      => Registry' /\ Ownership' /\ Delivery' /\ Results'
  BY RegistryStep, OwnershipStep, DeliveryStep, ResultsStep
<1> QED
  BY <1>1, <1>2, TypeCorrect, PTL DEF Spec, WaitInv

\* The mutex is never held by a goroutine that blocks or panics: Emit's sends
\* and every close find their channel open, and Emit's send finds it empty.
THEOREM LockedSafety == Spec => []LockedStepsAreSafe
<1>1. WaitInv => LockedStepsAreSafe
  BY DEF WaitInv, TypeOK, Registry, Entry, LockedStepsAreSafe
<1> QED
  BY <1>1, WaitInvariant, PTL

\* No waiter outlives its call, however the call and the bus end.
THEOREM NoWaiterLeaks == Spec => []WaitersHaveCallers
<1>1. WaitInv => WaitersHaveCallers
  BY BusAssumption
     DEF WaitInv, TypeOK, Registry, Ownership, WaitersHaveCallers, ID, NoID
<1> QED
  BY <1>1, WaitInvariant, PTL

\* WaitFor returns the first matching event emitted since it registered.
THEOREM FirstMatch == Spec => []FirstMatchWins
<1>1. WaitInv => FirstMatchWins
  BY DEF WaitInv, Results, ResultOK, IsFirstDue, FirstMatchWins
<1> QED
  BY <1>1, WaitInvariant, PTL

\* WaitFor's errors say what happened: in particular ErrBusClosed is never
\* returned in place of an event emitted before the bus closed.
THEOREM TruthfulErrors == Spec => []ErrorsAreTruthful
<1>1. WaitInv => ErrorsAreTruthful
  BY DEF WaitInv, Results, ResultOK, NothingDue, ErrorsAreTruthful
<1> QED
  BY <1>1, WaitInvariant, PTL

\* The gate of a call, by the state of its channel.
LEMMA GateStates ==
  ASSUME WaitInv, NEW c \in Callers, NEW i, i = callID[c]
  PROVE  /\ pc[c] = "idle" => GateOf(c) = [st |-> "idle"]
         /\ pc[c] \in InCall /\ Waiting(i) => GateOf(c) = [st |-> "open", want |-> want[i]]
         /\ pc[c] \in InCall /\ Served(i) =>
              GateOf(c) = [st |-> "passed", evt |-> log[buf[i][1]]]
         /\ pc[c] \in InCall /\ ShutOut(i) => GateOf(c) = [st |-> "shut"]
         /\ pc[c] \in InCall => Waiting(i) \/ Served(i) \/ ShutOut(i)
         /\ pc[c] = "idle" \/ pc[c] \in InCall
<1>1. pc[c] = "idle" \/ pc[c] \in InCall
  BY DEF WaitInv, TypeOK
<1>2. pc[c] = "idle" => GateOf(c) = [st |-> "idle"]
  BY DEF GateOf
<1>3. ASSUME pc[c] \in InCall PROVE pc[c] # "idle" /\ i \in ID /\ CallOK(c)
  BY <1>3 DEF WaitInv, TypeOK, InCall, Delivery
<1>4. ASSUME pc[c] \in InCall, Waiting(i)
      PROVE  GateOf(c) = [st |-> "open", want |-> want[i]]
  BY <1>3, <1>4 DEF GateOf, Waiting
<1>5. ASSUME pc[c] \in InCall, Served(i)
      PROVE  GateOf(c) = [st |-> "passed", evt |-> log[buf[i][1]]]
  <2>1. buf[i] # <<>> /\ Head(buf[i]) = buf[i][1] /\ i \notin waiters
    <3>1. buf[i] \in Seq(Nat)
      BY <1>3, <1>5 DEF WaitInv, TypeOK
    <3> QED
      BY <1>5, <3>1 DEF Served
  <2> QED
    BY <1>3, <1>5, <2>1 DEF GateOf
<1>6. ASSUME pc[c] \in InCall, ShutOut(i) PROVE GateOf(c) = [st |-> "shut"]
  BY <1>3, <1>6 DEF GateOf, ShutOut
<1>7. pc[c] \in InCall => Waiting(i) \/ Served(i) \/ ShutOut(i)
  BY <1>3 DEF CallOK, InCall
<1> QED
  BY <1>1, <1>2, <1>4, <1>5, <1>6, <1>7

\* A caller whose call, channel and result a step leaves alone keeps its gate.
LEMMA GateFrame ==
  ASSUME WaitInv, NEW c \in Callers, pc'[c] = pc[c], callID'[c] = callID[c],
         ret'[c] = ret[c],
         \A n \in 1 .. Len(log) : log'[n] = log[n],
         NEW i, i = callID[c],
         pc[c] \in InCall =>
           /\ want'[i] = want[i] /\ buf'[i] = buf[i]
           /\ i \in waiters' <=> i \in waiters
  PROVE  GateOf(c)' = GateOf(c) /\ ResOf(c)' = ResOf(c)
<1>1. ResOf(c)' = ResOf(c)
  <2>1. ret[c].err = "nil" => ret[c].at \in 1 .. Len(log)
    BY DEF WaitInv, Results, ResultOK, IsFirstDue, Due, Registry, TypeOK
  <2> QED
    BY <2>1 DEF ResOf
<1>2. GateOf(c)' = GateOf(c)
  <2>1. CASE pc[c] = "idle"
    BY <2>1 DEF GateOf
  <2>2. CASE pc[c] \in InCall
    <3>1. pc[c] # "idle"
      BY <2>2 DEF InCall
    <3>2. ASSUME i \notin waiters, buf[i] # <<>> PROVE Head(buf[i]) \in 1 .. Len(log)
      <4>1. Served(i) /\ buf[i] \in Seq(Nat)
        BY <2>2, <3>2, GateStates DEF Waiting, ShutOut, WaitInv, TypeOK
      <4>2. Head(buf[i]) = buf[i][1] /\ IsFirstDue(i, buf[i][1])
        BY <4>1 DEF Served
      <4>3. from[i] \in Nat /\ Len(log) \in Nat
        BY <2>2 DEF WaitInv, TypeOK
      <4> QED
        BY <4>2, <4>3 DEF IsFirstDue, Due
    <3> QED
      BY <2>2, <3>1, <3>2 DEF GateOf
  <2> QED
    BY <2>1, <2>2, GateStates
<1> QED
  BY <1>1, <1>2

\* Two functions on Callers that agree everywhere are one.
LEMMA GateStep ==
  ASSUME WaitInv, WaitInv', [Next]_vars
  PROVE  [Gate!Next]_(Gate!vars)
<1> DEFINE G == [c \in Callers |-> GateOf(c)]
           R == [c \in Callers |-> ResOf(c)]
\* Steps that no gate shows.
<1>a. ASSUME closed' = closed,
             \A c \in Callers : GateOf(c)' = GateOf(c) /\ ResOf(c)' = ResOf(c)
      PROVE  UNCHANGED Gate!vars
  BY <1>a DEF Gate!vars
\* A call ends with result r.
<1>b. ASSUME NEW c \in Callers, NEW r, closed' = closed, ResOf(c)' = r, pc'[c] = "idle",
             \A d \in Callers \ {c} : GateOf(d)' = GateOf(d) /\ ResOf(d)' = ResOf(d)
      PROVE  Gate!Leave(c, r)
  BY <1>b DEF Gate!Leave, Gate!Idle, GateOf
<1>1. ASSUME NEW b \in Buffers, Subscribe(b) PROVE UNCHANGED Gate!vars
  BY <1>1, <1>a, GateFrame DEF Subscribe, callVars
<1>2. ASSUME NEW j \in ID, Cancel(j) PROVE UNCHANGED Gate!vars
  BY <1>2, <1>a, GateFrame DEF Cancel, callVars
<1>3. ASSUME NEW j \in ID, ReadSub(j) PROVE UNCHANGED Gate!vars
  <2>1. ASSUME NEW c \in Callers, pc[c] \in InCall
        PROVE  buf'[callID[c]] = buf[callID[c]]
    <3>1. callID[c] # j
      <4>1. subCap[callID[c]] = 0 /\ subCap[j] \in Nat
        BY <2>1, CallFacts DEF WaitInv, TypeOK
      <4> QED
        BY <1>3, <4>1 DEF ReadSub
    <3> QED
      BY <1>3, <3>1 DEF ReadSub, WaitInv, TypeOK
  <2> QED
    BY <1>3, <1>a, <2>1, GateFrame DEF ReadSub, busVars, callVars
<1>4. ASSUME NEW e \in Events, Emit(e) PROVE Gate!Emit(e)
  <2>1. /\ ~closed /\ closed' = closed /\ want' = want /\ log' = Append(log, e)
        /\ log \in Seq(Events) /\ Len(log) \in Nat
        /\ UNCHANGED <<pc, callID, ctx, ret>>
    BY <1>4 DEF Emit, callVars, WaitInv, TypeOK
  <2>2. \A n \in 1 .. Len(log) : log'[n] = log[n]
    BY <2>1
  <2>3. ASSUME NEW c \in Callers
        PROVE  /\ ResOf(c)' = ResOf(c)
               /\ GateOf(c)' = IF GateOf(c).st = "open" /\ e \in GateOf(c).want
                              THEN [st |-> "passed", evt |-> e] ELSE GateOf(c)
    <3> DEFINE i == callID[c]
    <3>1. CASE pc[c] \in InCall /\ i \in Matching(e)
      <4>1. /\ i \in ID /\ i \in waiters /\ e \in want[i] /\ buf[i] = <<>>
        BY <3>1 DEF Matching, WaitInv, TypeOK, Registry, Entry
      <4>2. buf'[i] = Append(buf[i], Len(log) + 1) /\ i \notin waiters'
        BY <1>4, <3>1, <4>1 DEF Emit
      <4>3. buf'[i] # <<>> /\ Head(buf'[i]) = Len(log) + 1 /\ log'[Len(log) + 1] = e
        BY <2>1, <4>1, <4>2
      <4>4. GateOf(c) = [st |-> "open", want |-> want[i]]
        BY <3>1, <4>1, GateStates DEF Served, ShutOut
      <4>5. GateOf(c)' = [st |-> "passed", evt |-> e]
        BY <2>1, <3>1, <4>2, <4>3 DEF GateOf, InCall
      <4>6. ret[c].err = "nil" => ret[c].at \in 1 .. Len(log)
        BY DEF WaitInv, Results, ResultOK, IsFirstDue, Due, Registry, TypeOK
      <4> QED
        BY <2>1, <2>2, <4>1, <4>4, <4>5, <4>6 DEF ResOf
    <3>2. CASE ~(pc[c] \in InCall /\ i \in Matching(e))
      <4>1. ASSUME pc[c] \in InCall
            PROVE  buf'[i] = buf[i] /\ (i \in waiters' <=> i \in waiters)
        <5>1. i \in ID /\ i \notin Receivers(e)
          BY <4>1, CallFacts DEF Receivers, WaitInv
        <5> QED
          BY <1>4, <3>2, <4>1, <5>1 DEF Emit
      <4>2. GateOf(c)' = GateOf(c) /\ ResOf(c)' = ResOf(c)
        BY <2>1, <2>2, <4>1, GateFrame
      <4>3. ~(GateOf(c).st = "open" /\ e \in GateOf(c).want)
        BY <3>2, GateStates DEF Waiting, Matching
      <4> QED
        BY <4>2, <4>3
    <3> QED
      BY <3>1, <3>2
  <2> QED
    BY <2>1, <2>3 DEF Gate!Emit, Gate!Passed
<1>5. ASSUME Close PROVE Gate!Close
  <2>1. ~closed /\ closed' /\ waiters' = {} /\ UNCHANGED <<want, buf, pc, callID, ret, log>>
    BY <1>5 DEF Close, callVars
  <2>2. ASSUME NEW c \in Callers
        PROVE  /\ ResOf(c)' = ResOf(c)
               /\ GateOf(c)' = IF GateOf(c).st = "open" THEN [st |-> "shut"] ELSE GateOf(c)
    <3>1. CASE pc[c] \in InCall /\ callID[c] \in waiters
      <4>1. GateOf(c) = [st |-> "open", want |-> want[callID[c]]] /\ buf[callID[c]] = <<>>
        BY <3>1, GateStates DEF Served, ShutOut, WaitInv, Registry, Entry, TypeOK
      <4>2. GateOf(c)' = [st |-> "shut"]
        BY <2>1, <3>1, <4>1 DEF GateOf, InCall
      <4> QED
        BY <2>1, <4>1, <4>2 DEF ResOf
    <3>2. CASE ~(pc[c] \in InCall /\ callID[c] \in waiters)
      <4>1. GateOf(c)' = GateOf(c) /\ ResOf(c)' = ResOf(c)
        BY <2>1, <3>2, GateFrame
      <4>2. GateOf(c).st # "open"
        BY <3>2, GateStates DEF Waiting
      <4> QED
        BY <4>1, <4>2
    <3> QED
      BY <3>1, <3>2
  <2> QED
    BY <2>1, <2>2 DEF Gate!Close, Gate!Shut
<1>6. ASSUME NEW c \in Callers, NEW w \in Predicates, NEW x \in CtxStates,
             WaitForRegister(c, w, x)
      PROVE  Gate!Begin(c, w)
  <2>0. Allocate /\ nextID \in ID
    <3>1. Allocate
      BY <1>6 DEF WaitForRegister
    <3> QED
      BY <3>1, AllocateTypes DEF WaitInv
  <2>1. /\ ~closed /\ UNCHANGED <<closed, log, buf>>
        /\ pc[c] = "idle" /\ pc'[c] = "select" /\ callID'[c] = nextID
        /\ nextID \in waiters' /\ want'[nextID] = w /\ ret'[c] = None
    BY <1>6, <2>0 DEF WaitForRegister, WaitInv, TypeOK
  <2>2. /\ GateOf(c) = [st |-> "idle"]
        /\ GateOf(c)' = [st |-> "open", want |-> w] /\ ResOf(c)' = "none"
    BY <2>1 DEF GateOf, ResOf, None
  <2>3. ASSUME NEW d \in Callers \ {c}
        PROVE  GateOf(d)' = GateOf(d) /\ ResOf(d)' = ResOf(d)
    <3>1. pc'[d] = pc[d] /\ callID'[d] = callID[d] /\ ret'[d] = ret[d]
      BY <1>6 DEF WaitForRegister, WaitInv, TypeOK
    <3>2. pc[d] \in InCall => callID[d] # nextID /\ callID[d] \in ID
      BY CallFacts DEF WaitInv
    <3>3. pc[d] \in InCall =>
            /\ want'[callID[d]] = want[callID[d]]
            /\ callID[d] \in waiters' <=> callID[d] \in waiters
      BY <1>6, <3>2 DEF WaitForRegister, WaitInv, TypeOK
    <3>4. \A n \in 1 .. Len(log) : log'[n] = log[n]
      BY <2>1
    <3>5. pc[d] \in InCall => buf'[callID[d]] = buf[callID[d]]
      BY <2>1
    <3> QED
      BY <3>1, <3>3, <3>4, <3>5, GateFrame
  <2> QED
    BY <2>1, <2>2, <2>3 DEF Gate!Begin, Gate!Idle, Gate!Open
<1>7. ASSUME NEW c \in Callers, WaitForRefused(c) PROVE Gate!Begin(c, {})
  <2>1. /\ closed /\ pc[c] = "idle" /\ ret'[c] = Fail("ErrBusClosed")
        /\ UNCHANGED <<closed, waiters, want, buf, pc, log>>
        /\ \A d \in Callers \ {c} : callID'[d] = callID[d] /\ ret'[d] = ret[d]
    BY <1>7 DEF WaitForRefused, busVars, WaitInv, TypeOK
  <2>2. /\ GateOf(c) = [st |-> "idle"] /\ GateOf(c)' = [st |-> "idle"]
        /\ ResOf(c)' = "ErrBusClosed"
    BY <2>1 DEF GateOf, ResOf, Fail
  <2>3. \A d \in Callers \ {c} : GateOf(d)' = GateOf(d) /\ ResOf(d)' = ResOf(d)
    BY <2>1, GateFrame
  <2> QED
    BY <2>1, <2>2, <2>3 DEF Gate!Begin, Gate!Idle
\* What the other callers see of a step of c's own call.
<1>c. ASSUME NEW c \in Callers, pc[c] \in InCall, pc'[c] = "idle", closed' = closed,
             \A d \in Callers \ {c} : pc'[d] = pc[d] /\ ret'[d] = ret[d],
             UNCHANGED <<callID, log, want>>,
             \A j \in ID \ {callID[c]} : buf'[j] = buf[j] /\ (j \in waiters' <=> j \in waiters),
             NEW r, ResOf(c)' = r
      PROVE  Gate!Leave(c, r)
  <2>1. ASSUME NEW d \in Callers \ {c}
        PROVE  GateOf(d)' = GateOf(d) /\ ResOf(d)' = ResOf(d)
    <3>1. pc[d] \in InCall => callID[d] \in ID \ {callID[c]}
      BY <1>c, CallFacts DEF WaitInv
    <3> QED
      BY <1>c, <3>1, GateFrame
  <2> QED
    BY <1>b, <1>c, <2>1
<1>8. ASSUME NEW c \in Callers, WaitForEvent(c) PROVE Gate!Return(c)
  <2> DEFINE i == callID[c]
             e == log[Head(buf[i])]
  <2>1. /\ pc[c] \in InCall /\ buf[i] # <<>> /\ i \in ID
        /\ pc'[c] = "idle" /\ ret'[c] = Got(Head(buf[i]))
        /\ \A d \in Callers \ {c} : pc'[d] = pc[d] /\ ret'[d] = ret[d]
        /\ UNCHANGED <<closed, waiters, callID, log, want>>
        /\ \A j \in ID \ {i} : buf'[j] = buf[j]
    BY <1>8 DEF WaitForEvent, busVars, WaitInv, TypeOK, InCall
  <2>2. GateOf(c) = [st |-> "passed", evt |-> e]
    <3>1. i \notin waiters
      BY <2>1 DEF WaitInv, Registry, Entry
    <3> QED
      BY <2>1, <3>1 DEF GateOf, InCall
  <2>3. ResOf(c)' = e
    BY <2>1 DEF ResOf, Got
  <2>4. Gate!Leave(c, e)
    BY <1>c, <2>1, <2>3
  <2> QED
    BY <2>2, <2>4 DEF Gate!Return
<1>9. ASSUME NEW c \in Callers, WaitForClosedChan(c) \/ WaitForDone(c)
      PROVE  UNCHANGED Gate!vars
  <2>1. UNCHANGED <<closed, waiters, want, buf, callID, ret, log>>
    BY <1>9 DEF WaitForClosedChan, WaitForDone, busVars
  <2>2. \A d \in Callers : pc'[d] = "idle" <=> pc[d] = "idle"
    BY <1>9 DEF WaitForClosedChan, WaitForDone, WaitInv, TypeOK
  <2>3. \A d \in Callers : GateOf(d)' = GateOf(d) /\ ResOf(d)' = ResOf(d)
    BY <2>1, <2>2 DEF GateOf, ResOf
  <2> QED
    BY <1>a, <2>1, <2>3
<1>10. ASSUME NEW c \in Callers, WaitForRecheck(c) PROVE Gate!Return(c)
  <2> DEFINE i == callID[c]
  <2>1. ShutOut(i) /\ pc[c] \in InCall
    BY <1>10 DEF WaitForRecheck, WaitInv, Delivery, CallOK, InCall
  <2>2. /\ pc'[c] = "idle" /\ ret'[c] = Fail("ErrBusClosed")
        /\ \A d \in Callers \ {c} : pc'[d] = pc[d] /\ ret'[d] = ret[d]
        /\ UNCHANGED <<closed, waiters, callID, log, want, buf>>
    BY <1>10, <2>1 DEF WaitForRecheck, busVars, WaitInv, TypeOK, ShutOut
  <2>3. GateOf(c) = [st |-> "shut"] /\ ResOf(c)' = "ErrBusClosed"
    BY <2>1, <2>2, GateStates DEF ResOf, Fail
  <2>4. Gate!Leave(c, "ErrBusClosed")
    BY <1>c, <2>1, <2>2, <2>3
  <2> QED
    BY <2>3, <2>4 DEF Gate!Return
<1>11. ASSUME NEW c \in Callers, WaitForGiveUp(c) PROVE Gate!Return(c) \/ Gate!GiveUp(c)
  <2> DEFINE i == callID[c]
  <2>1. /\ pc[c] \in InCall /\ pc'[c] = "idle" /\ ret'[c] = Fail(CtxError(c))
        /\ \A d \in Callers \ {c} : pc'[d] = pc[d] /\ ret'[d] = ret[d]
        /\ UNCHANGED <<closed, callID, log, want, buf>>
        /\ \A j \in ID \ {i} : j \in waiters' <=> j \in waiters
    BY <1>11 DEF WaitForGiveUp, WaitInv, TypeOK, InCall
  <2>2. CtxError(c) \in Gate!GaveUp /\ ResOf(c)' = CtxError(c)
    BY <2>1 DEF CtxError, Gate!GaveUp, ResOf, Fail
  <2>3. \A r : r = CtxError(c) => Gate!Leave(c, r)
    BY <1>c, <2>1, <2>2
  <2>4. GateOf(c).st \in {"open", "passed", "shut"}
    BY <2>1, GateStates
  <2> QED
    BY <2>2, <2>3, <2>4 DEF Gate!Return, Gate!GiveUp
<1>12. ASSUME UNCHANGED <<closed, waiters, want, buf, pc, callID, ret, log>>
       PROVE  UNCHANGED Gate!vars
  BY <1>12, <1>a, GateFrame
<1> QED
  BY <1>1, <1>2, <1>3, <1>4, <1>5, <1>6, <1>7, <1>8, <1>9, <1>10, <1>11, <1>12,
     BusAssumption
     DEF Next, CallerStep, ContextEnds, vars, busVars, callVars, Gate!Next

\* The bus implements its abstract specification, fairness aside: whatever the
\* ids, maps, channels and selects do, a caller sees a gate.
THEOREM BusImplementsGate == Spec => Gate!Init /\ [][Gate!Next]_(Gate!vars)
<1>1. Init => Gate!Init
  BY DEF Init, Gate!Init, Gate!Idle, GateOf, ResOf, None
<1>2. WaitInv /\ WaitInv' /\ [Next]_vars => [Gate!Next]_(Gate!vars)
  BY GateStep
<1> QED
  BY <1>1, <1>2, WaitInvariant, PTL DEF Spec

-----------------------------------------------------------------------------
(* Subscriptions *)

\* SubscriptionsInOrder for one subscription, with what makes it inductive: a
\* reader has seen nothing that is yet to be emitted, and as long as no more
\* events came than it has room for the channel holds every one it has not seen.
Whole(i) == i \in subs /\ Len(log) - from[i] <= subCap[i]
Delivers(i) ==
  subCap[i] > 0 =>
    /\ \A m, n \in 1 .. Len(buf[i]) : m < n => buf[i][m] < buf[i][n]
    /\ \A n \in 1 .. Len(buf[i]) : seen[i] < buf[i][n] /\ buf[i][n] <= Len(log)
    /\ from[i] <= seen[i] /\ seen[i] <= Len(log)
    /\ Whole(i) => /\ Len(buf[i]) = Len(log) - seen[i]
                   /\ \A n \in 1 .. Len(buf[i]) : buf[i][n] = seen[i] + n

LEMMA DeliversFrame ==
  ASSUME NEW i \in ID, Delivers(i), UNCHANGED log, subCap'[i] = 0 \/ subCap'[i] = subCap[i],
         subCap'[i] > 0 => buf'[i] = buf[i] /\ seen'[i] = seen[i] /\ from'[i] = from[i],
         i \in subs' => i \in subs
  PROVE  Delivers(i)'
BY DEF Delivers, Whole

LEMMA DeliversStep ==
  ASSUME WaitInv, \A i \in ID : Delivers(i), [Next]_vars
  PROVE  \A i \in ID : Delivers(i)'
<1>a. /\ log \in Seq(Events) /\ Len(log) \in Nat /\ nextID \in Nat /\ NoID = MaxID /\ MaxID \in Nat
      /\ buf \in [ID -> Seq(Nat)] /\ seen \in [ID -> Nat] /\ from \in [ID -> Nat] /\ subCap \in [ID -> Nat]
      /\ \A i \in ID : /\ Entry(i) /\ i \in Nat /\ i # NoID /\ Len(buf[i]) \in Nat /\ buf[i] \in Seq(Nat)
                       /\ seen[i] \in Nat /\ from[i] \in Nat /\ subCap[i] \in Nat
  <2>1. /\ log \in Seq(Events) /\ nextID \in Nat /\ NoID = MaxID /\ MaxID \in Nat
        /\ buf \in [ID -> Seq(Nat)] /\ seen \in [ID -> Nat] /\ from \in [ID -> Nat] /\ subCap \in [ID -> Nat]
    BY BusAssumption DEF WaitInv, TypeOK, ID, NoID
  <2>2. \A i \in ID : Entry(i) /\ i \in Nat /\ i # NoID
    BY BusAssumption DEF WaitInv, Registry, ID, NoID
  <2>3. Len(log) \in Nat /\ \A i \in ID : buf[i] \in Seq(Nat) /\ Len(buf[i]) \in Nat
    BY <2>1
  <2> QED
    BY <2>1, <2>2, <2>3
<1>b. ASSUME Allocate
      PROVE  /\ nextID \in ID /\ subCap[nextID] = 0 /\ buf[nextID] = <<>>
             /\ from'[nextID] = Len(log) /\ seen'[nextID] = Len(log)
             /\ \A i \in ID \ {nextID} : from'[i] = from[i] /\ seen'[i] = seen[i]
  <2>1. nextID \in ID
    BY <1>a, <1>b DEF Allocate, ID
  <2> QED
    BY <1>a, <1>b, <2>1 DEF Allocate, Entry
<1>1. ASSUME NEW b \in Buffers, Subscribe(b) PROVE \A i \in ID : Delivers(i)'
  <2>1. Allocate /\ subs' = subs \cup {nextID} /\ subCap' = [subCap EXCEPT ![nextID] = Capacity(b)]
        /\ UNCHANGED <<buf, log>>
    BY <1>1 DEF Subscribe
  <2>2. ASSUME NEW i \in ID, i # nextID PROVE Delivers(i)'
    BY <1>a, <1>b, <2>1, <2>2, DeliversFrame
  <2>3. ASSUME NEW i \in ID, i = nextID PROVE Delivers(i)'
    <3>1. buf'[i] = <<>> /\ Len(buf'[i]) = 0 /\ seen'[i] = Len(log) /\ from'[i] = Len(log) /\ log' = log
      BY <1>b, <2>1, <2>3
    <3> QED
      BY <1>a, <3>1 DEF Delivers
  <2> QED
    BY <2>2, <2>3
<1>2. ASSUME NEW j \in ID, ReadSub(j) PROVE \A i \in ID : Delivers(i)'
  <2>1. /\ subCap[j] > 0 /\ buf[j] # <<>> /\ seen' = [seen EXCEPT ![j] = Head(buf[j])]
        /\ buf' = [buf EXCEPT ![j] = Tail(@)] /\ UNCHANGED <<subs, subCap, log, from>>
    BY <1>2 DEF ReadSub, busVars
  <2>2. ASSUME NEW i \in ID, i # j PROVE Delivers(i)'
    BY <1>a, <2>1, <2>2, DeliversFrame
  <2>3. Delivers(j)'
    <3>1. /\ seen'[j] = buf[j][1] /\ buf'[j] = Tail(buf[j]) /\ 1 \in 1 .. Len(buf[j])
          /\ Len(buf'[j]) = Len(buf[j]) - 1 /\ buf[j][1] \in Nat
          /\ \A n \in 1 .. Len(buf'[j]) : n + 1 \in 1 .. Len(buf[j]) /\ buf'[j][n] = buf[j][n + 1]
      BY <1>a, <2>1
    <3>2. \A m, n \in 1 .. Len(buf'[j]) : m < n => buf'[j][m] < buf'[j][n]
      <4>1. \A m, n \in 1 .. Len(buf'[j]) : m < n => m + 1 < n + 1
        OBVIOUS
      <4> QED
        BY <2>1, <3>1, <4>1 DEF Delivers
    <3>3. \A n \in 1 .. Len(buf'[j]) : seen'[j] < buf'[j][n] /\ buf'[j][n] <= Len(log)
      <4>1. \A n \in 1 .. Len(buf'[j]) : 1 < n + 1
        OBVIOUS
      <4> QED
        BY <2>1, <3>1, <4>1 DEF Delivers
    <3>4. from[j] <= seen'[j] /\ seen'[j] <= Len(log)
      BY <1>a, <2>1, <3>1 DEF Delivers
    <3>5. ASSUME Whole(j)
          PROVE  /\ Len(buf'[j]) = Len(log) - seen'[j]
                 /\ \A n \in 1 .. Len(buf'[j]) : buf'[j][n] = seen'[j] + n
      <4>1. /\ Len(buf[j]) = Len(log) - seen[j]
            /\ \A n \in 1 .. Len(buf[j]) : buf[j][n] = seen[j] + n
        BY <2>1, <3>5 DEF Delivers
      <4>2. seen'[j] = seen[j] + 1
        BY <3>1, <4>1
      <4>3. \A n \in 1 .. Len(buf'[j]) : buf'[j][n] = seen[j] + (n + 1)
        BY <3>1, <4>1
      <4>4. Len(buf[j]) \in Nat /\ Len(log) \in Nat /\ seen[j] \in Nat
        BY <1>a
      <4>5. Len(buf'[j]) = Len(log) - seen'[j]
        BY <3>1, <4>1, <4>2, <4>4
      <4>6. \A n \in 1 .. Len(buf'[j]) : buf'[j][n] = seen'[j] + n
        <5>1. \A n \in 1 .. Len(buf'[j]) : n \in Nat
          BY <3>1, <4>4
        <5> QED
          BY <4>2, <4>3, <4>4, <5>1
      <4> QED
        BY <4>5, <4>6
    <3>6. Whole(j)' <=> Whole(j)
      BY <2>1 DEF Whole
    <3> QED
      BY <2>1, <3>2, <3>3, <3>4, <3>5, <3>6 DEF Delivers
  <2> QED
    BY <2>2, <2>3
<1>3. ASSUME NEW e \in Events, Emit(e) PROVE \A i \in ID : Delivers(i)'
  <2>1. /\ log' = Append(log, e) /\ UNCHANGED <<subs, subCap, from, seen>>
        /\ buf' = [i \in ID |-> IF i \in Receivers(e) \cup Matching(e)
                                THEN Append(buf[i], Len(log) + 1) ELSE buf[i]]
    BY <1>3 DEF Emit
  <2>2. Len(log') = Len(log) + 1
    BY <1>a, <2>1
  <2>3. ASSUME NEW i \in ID, subCap[i] > 0 PROVE Delivers(i)'
    <3>0. i \notin Matching(e) /\ (i \in Receivers(e) <=> i \in subs /\ Len(buf[i]) < subCap[i])
      BY <1>a, <2>3 DEF Entry, Matching, Receivers
    <3>1. ASSUME Whole(i)'
          PROVE  Whole(i) /\ i \in Receivers(e)
      <4>1. i \in subs /\ Len(log) + 1 - from[i] <= subCap[i]
        <5>1. subs' = subs /\ subCap'[i] = subCap[i] /\ from'[i] = from[i]
          BY <2>1
        <5>2. Len(log) \in Nat /\ from[i] \in Nat /\ subCap[i] \in Nat
          BY <1>a
        <5> QED
          BY <2>2, <3>1, <5>1, <5>2 DEF Whole
      <4>2. Whole(i)
        BY <1>a, <4>1 DEF Whole
      <4>3. Len(buf[i]) = Len(log) - seen[i] /\ from[i] <= seen[i]
        BY <2>3, <4>2 DEF Delivers
      <4>4. Len(buf[i]) < subCap[i]
        BY <1>a, <4>1, <4>3
      <4> QED
        BY <3>0, <4>1, <4>2, <4>4
    <3>2. CASE i \in Receivers(e)
      <4>1. /\ Len(buf'[i]) = Len(buf[i]) + 1
            /\ \A n \in 1 .. Len(buf'[i]) :
                 \/ n \in 1 .. Len(buf[i]) /\ buf'[i][n] = buf[i][n]
                 \/ n = Len(buf[i]) + 1 /\ buf'[i][n] = Len(log) + 1
        <5>1. buf'[i] = Append(buf[i], Len(log) + 1) /\ buf[i] \in Seq(Nat)
          BY <1>a, <2>1, <3>2
        <5> QED
          BY <5>1
      <4>2. \A n \in 1 .. Len(buf[i]) : seen[i] < buf[i][n] /\ buf[i][n] <= Len(log) /\ buf[i][n] \in Nat
        BY <1>a, <2>3 DEF Delivers
      <4>3. \A m, n \in 1 .. Len(buf'[i]) : m < n => buf'[i][m] < buf'[i][n]
        <5> SUFFICES ASSUME NEW m \in 1 .. Len(buf'[i]), NEW n \in 1 .. Len(buf'[i]), m < n
                     PROVE  buf'[i][m] < buf'[i][n]
          OBVIOUS
        <5>1. m \in 1 .. Len(buf[i]) /\ buf'[i][m] = buf[i][m]
          BY <1>a, <4>1
        <5>2. CASE n = Len(buf[i]) + 1 /\ buf'[i][n] = Len(log) + 1
          BY <1>a, <4>2, <5>1, <5>2
        <5>3. CASE n \in 1 .. Len(buf[i]) /\ buf'[i][n] = buf[i][n]
          BY <2>3, <5>1, <5>3 DEF Delivers
        <5> QED
          BY <4>1, <5>2, <5>3
      <4>4. from[i] <= seen[i] /\ seen[i] <= Len(log)
        BY <2>3 DEF Delivers
      <4>a. Len(buf[i]) \in Nat /\ Len(log) \in Nat /\ seen[i] \in Nat
        BY <1>a
      <4>5. \A n \in 1 .. Len(buf'[i]) : seen[i] < buf'[i][n] /\ buf'[i][n] <= Len(log) + 1
        <5> SUFFICES ASSUME NEW n \in 1 .. Len(buf'[i]) PROVE seen[i] < buf'[i][n] /\ buf'[i][n] <= Len(log) + 1
          OBVIOUS
        <5>1. CASE n \in 1 .. Len(buf[i]) /\ buf'[i][n] = buf[i][n]
          BY <4>2, <4>a, <5>1
        <5>2. CASE buf'[i][n] = Len(log) + 1
          BY <4>4, <4>a, <5>2
        <5> QED
          BY <4>1, <5>1, <5>2
      <4>6. ASSUME Whole(i)'
            PROVE  /\ Len(buf'[i]) = Len(log) + 1 - seen[i]
                   /\ \A n \in 1 .. Len(buf'[i]) : buf'[i][n] = seen[i] + n
        <5>1. /\ Len(buf[i]) = Len(log) - seen[i]
              /\ \A n \in 1 .. Len(buf[i]) : buf[i][n] = seen[i] + n
          BY <2>3, <3>1, <4>6 DEF Delivers
        <5>2. Len(buf'[i]) = Len(log) + 1 - seen[i]
          BY <4>1, <4>a, <5>1
        <5>3. \A n \in 1 .. Len(buf'[i]) : buf'[i][n] = seen[i] + n
          BY <4>1, <4>a, <5>1
        <5> QED
          BY <5>2, <5>3
      <4>7. seen'[i] = seen[i] /\ from'[i] = from[i] /\ seen[i] <= Len(log) + 1
        BY <2>1, <4>4, <4>a
      <4>8. \A n \in 1 .. Len(buf'[i]) : seen'[i] < buf'[i][n] /\ buf'[i][n] <= Len(log')
        BY <2>2, <4>5, <4>7
      <4>9. from'[i] <= seen'[i] /\ seen'[i] <= Len(log')
        BY <2>2, <4>4, <4>7
      <4>10. Whole(i)' => /\ Len(buf'[i]) = Len(log') - seen'[i]
                         /\ \A n \in 1 .. Len(buf'[i]) : buf'[i][n] = seen'[i] + n
        <5> SUFFICES ASSUME Whole(i)'
                     PROVE  /\ Len(buf'[i]) = Len(log') - seen'[i]
                            /\ \A n \in 1 .. Len(buf'[i]) : buf'[i][n] = seen'[i] + n
          OBVIOUS
        <5>0. Len(buf'[i]) = Len(log) + 1 - seen[i]
          BY <4>6
        <5>1. Len(buf'[i]) = Len(log') - seen'[i]
          BY <2>2, <4>7, <4>a, <5>0
        <5>2. \A n \in 1 .. Len(buf'[i]) : buf'[i][n] = seen'[i] + n
          BY <4>6, <4>7
        <5> QED
          BY <5>1, <5>2
      <4> QED
        BY <4>3, <4>8, <4>9, <4>10 DEF Delivers
    <3>3. CASE i \notin Receivers(e)
      <4>1. buf'[i] = buf[i] /\ ~Whole(i)'
        BY <2>1, <3>0, <3>1, <3>3
      <4>2. \A n \in 1 .. Len(buf[i]) : buf[i][n] <= Len(log) + 1
        <5>1. \A n \in 1 .. Len(buf[i]) : buf[i][n] \in Nat /\ buf[i][n] <= Len(log)
          BY <1>a, <2>3 DEF Delivers
        <5> QED
          BY <1>a, <5>1
      <4>3. seen[i] <= Len(log) + 1
        BY <1>a, <2>3 DEF Delivers
      <4> QED
        BY <2>1, <2>2, <2>3, <4>1, <4>2, <4>3 DEF Delivers
    <3> QED
      BY <3>2, <3>3
  <2>4. ASSUME NEW i \in ID, ~(subCap[i] > 0) PROVE Delivers(i)'
    BY <2>1, <2>4 DEF Delivers
  <2> QED
    BY <2>3, <2>4
<1>4. ASSUME NEW j \in ID, Cancel(j) PROVE \A i \in ID : Delivers(i)'
  BY <1>4, DeliversFrame DEF Cancel
<1>5. ASSUME Close PROVE \A i \in ID : Delivers(i)'
  BY <1>5, DeliversFrame DEF Close
<1>6. ASSUME NEW c \in Callers, NEW w \in Predicates, NEW x \in CtxStates, WaitForRegister(c, w, x)
      PROVE  \A i \in ID : Delivers(i)'
  <2>1. Allocate /\ UNCHANGED <<subs, subCap, buf, log>>
    BY <1>6 DEF WaitForRegister
  <2>2. \A i \in ID : subCap[i] > 0 => from'[i] = from[i] /\ seen'[i] = seen[i]
    BY <1>a, <1>b, <2>1
  <2> QED
    BY <2>1, <2>2, DeliversFrame
<1>7. ASSUME NEW c \in Callers, WaitForEvent(c) PROVE \A i \in ID : Delivers(i)'
  <2>1. UNCHANGED <<subs, subCap, log, from, seen>> /\ buf' = [buf EXCEPT ![callID[c]] = Tail(@)]
    BY <1>7 DEF WaitForEvent, busVars
  <2>2. callID[c] \in ID /\ callID[c] # NoID
    BY <1>7, <1>a DEF WaitForEvent, WaitInv, TypeOK, InCall
  <2>3. subCap[callID[c]] = 0
    BY <2>2 DEF WaitInv, Ownership
  <2>4. \A i \in ID : subCap[i] > 0 => buf'[i] = buf[i]
    <3>1. \A i \in ID \ {callID[c]} : buf'[i] = buf[i]
      BY <1>a, <2>1
    <3>2. \A i \in ID : subCap[i] > 0 => i # callID[c]
      BY <2>3
    <3> QED
      BY <3>1, <3>2
  <2> QED
    BY <2>1, <2>4, DeliversFrame
<1>8. ASSUME UNCHANGED <<subs, subCap, buf, log, from, seen>> PROVE \A i \in ID : Delivers(i)'
  BY <1>8, DeliversFrame
<1>9. ASSUME NEW c \in Callers,
             \/ WaitForRefused(c) \/ WaitForClosedChan(c) \/ WaitForRecheck(c) \/ WaitForDone(c)
             \/ WaitForGiveUp(c) \/ \E x \in CtxStates : ContextEnds(c, x)
      PROVE  \A i \in ID : Delivers(i)'
  BY <1>8, <1>9 DEF WaitForRefused, WaitForClosedChan, WaitForRecheck, WaitForDone, WaitForGiveUp, ContextEnds,
                    busVars
<1> QED
  BY <1>1, <1>2, <1>3, <1>4, <1>5, <1>6, <1>7, <1>8, <1>9 DEF Next, CallerStep, vars, busVars

\* What a reader of a subscription gets is in the order of emission, new, and
\* complete until more events came than its channel has room for (bus.go Emit).
THEOREM InOrder == Spec => []SubscriptionsInOrder
<1> DEFINE All == \A i \in ID : Delivers(i)
<1>1. Init => All
  BY DEF Init, Delivers
<1>2. WaitInv /\ All /\ [Next]_vars => All'
  BY DeliversStep
<1>3. All => SubscriptionsInOrder
  BY DEF Delivers, Whole, SubscriptionsInOrder
<1> HIDE DEF All
<1> QED
  BY <1>1, <1>2, <1>3, WaitInvariant, PTL DEF Spec
=============================================================================
