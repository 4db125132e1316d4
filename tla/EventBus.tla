------------------------------ MODULE EventBus ------------------------------
(***************************************************************************)
(* events.Bus (src/events/bus.go): the in-process bus that joins every     *)
(* component of the client.  The shared state is guarded by one mutex, so  *)
(* each critical section is one action; a WaitFor call is the sequence of  *)
(* its critical sections and of its select.                                *)
(*                                                                         *)
(* A channel is named by the id it was stored under; it outlives its map   *)
(* entry.  An emitted event is named by its position in `log', so that the *)
(* order of emission and "the first event since" can be spoken about.      *)
(* `log', `from' and `seen' are history: no guard of the code reads them.  *)
(*                                                                         *)
(* An operator X_Bug is X with a bug somebody could have written; no       *)
(* action uses it.  PROJECT.json says which property rejects it.           *)
(***************************************************************************)
EXTENDS Naturals, Sequences

CONSTANTS Callers,   \* goroutines that call WaitFor, one call at a time
          Events,    \* kinds of events
          Predicates, \* predicates given to WaitFor: the kinds they accept
          Buffers,   \* arguments given to Subscribe
          MaxID,     \* bound: registrations (Subscribe and WaitFor) per run
          MaxEmits   \* bound: events emitted per run

ASSUME BusAssumption == /\ Predicates \subseteq SUBSET Events
                        /\ Buffers \subseteq Nat
                        /\ MaxID \in Nat
                        /\ MaxEmits \in Nat

VARIABLES closed,    \* Bus.closed
          nextID,    \* Bus.nextID
          subs,      \* keys of Bus.subs
          waiters,   \* keys of Bus.waiters
          want,      \* want[i]: waiter.pred, the kinds it accepts
          subCap,    \* subCap[i]: capacity of subscription i, 0 if i is none
          buf,       \* buf[i]: contents of channel i (positions in log)
          open,      \* open[i]: channel i has not been closed
          pc,        \* pc[c]: where the WaitFor call of c stands
          callID,    \* callID[c]: its local id
          ctx,       \* ctx[c]: state of its context
          ret,       \* ret[c]: what its last call returned
          log,       \* history: every event emitted
          from,      \* history: Len(log) when i was registered
          seen       \* history: last position read from subscription i

busVars  == <<closed, nextID, subs, waiters, want, subCap>>
callVars == <<pc, callID, ctx, ret>>
vars == <<busVars, buf, open, callVars, log, from, seen>>

ID == 0 .. MaxID - 1
NoID == MaxID
Position == 1 .. MaxEmits
Errors == {"ErrBusClosed", "ErrWaitTimeout", "ErrWaitCanceled"}
CtxStates == {"live", "deadline", "canceled"}
InCall == {"select", "done", "recheck"}

None == [err |-> "none", at |-> 0]
Fail(e) == [err |-> e, at |-> 0]
Got(n) == [err |-> "nil", at |-> n]

\* ctx.Err() passed on as it is.
CtxError_Bug(c) == ctx[c]

\* ctx.Err() as WaitFor reports it.
CtxError(c) ==
  IF ctx[c] = "deadline" THEN "ErrWaitTimeout" ELSE "ErrWaitCanceled"

\* NewBus.  Channels that do not exist yet count as closed.
Init ==
  /\ closed = FALSE
  /\ nextID = 0
  /\ subs = {} /\ waiters = {}
  /\ want = [i \in ID |-> {}]
  /\ subCap = [i \in ID |-> 0]
  /\ buf = [i \in ID |-> <<>>]
  /\ open = [i \in ID |-> FALSE]
  /\ pc = [c \in Callers |-> "idle"]
  /\ callID = [c \in Callers |-> NoID]
  /\ ctx = [c \in Callers |-> "live"]
  /\ ret = [c \in Callers |-> None]
  /\ log = <<>>
  /\ from = [i \in ID |-> 0]
  /\ seen = [i \in ID |-> 0]

\* id := b.nextID; b.nextID++; a fresh channel is stored under id.
Allocate ==
  /\ nextID < MaxID
  /\ nextID' = nextID + 1
  /\ open' = [open EXCEPT ![nextID] = TRUE]
  /\ from' = [from EXCEPT ![nextID] = Len(log)]
  /\ seen' = [seen EXCEPT ![nextID] = Len(log)]

\* Capacity of make(chan Event, buffer).
Capacity(b) == IF b <= 0 THEN 1 ELSE b

\* Subscribe(b); on a closed bus it returns ErrBusClosed and changes nothing.
Subscribe(b) ==
  /\ ~closed
  /\ Allocate
  /\ subs' = subs \cup {nextID}
  /\ subCap' = [subCap EXCEPT ![nextID] = Capacity(b)]
  /\ UNCHANGED <<closed, waiters, want, buf, callVars, log>>

\* Subscription.Cancel: once, and only while the bus still holds the id.
Cancel(i) ==
  /\ i \in subs
  /\ subs' = subs \ {i}
  /\ open' = [open EXCEPT ![i] = FALSE]
  /\ UNCHANGED <<closed, nextID, waiters, want, subCap, buf, callVars,
                 log, from, seen>>

\* The reader takes the next event; what is buffered survives Cancel and Close.
ReadSub(i) ==
  /\ subCap[i] > 0
  /\ buf[i] # <<>>
  /\ seen' = [seen EXCEPT ![i] = Head(buf[i])]
  /\ buf' = [buf EXCEPT ![i] = Tail(@)]
  /\ UNCHANGED <<busVars, open, callVars, log, from>>

\* Who an event of kind e goes to: subscriptions with room, waiters that match.
Receivers_Bug(e) == {i \in subs : Len(buf[i]) + 1 < subCap[i]}
Receivers(e) == {i \in subs : Len(buf[i]) < subCap[i]}
Matching_Bug(e) == {i \in waiters : want[i] # {}}
Matching_BugOne(e) ==
  LET m == {i \in waiters : e \in want[i]}
  IN {i \in m : \A j \in m : i <= j}
Matching(e) == {i \in waiters : e \in want[i]}

\* Emit without delete(b.waiters, id).
Emit_Bug(e) ==
  /\ ~closed
  /\ Len(log) < MaxEmits
  /\ log' = Append(log, e)
  /\ buf' = [i \in ID |-> IF i \in Receivers(e) \cup Matching(e)
                          THEN Append(buf[i], Len(log) + 1) ELSE buf[i]]
  /\ open' = [i \in ID |-> open[i] /\ i \notin Matching(e)]
  /\ UNCHANGED <<closed, nextID, subs, waiters, want, subCap, callVars, from, seen>>

\* Emit(e) under the mutex; on a closed bus it returns ErrBusClosed.
Emit(e) ==
  /\ ~closed
  /\ Len(log) < MaxEmits
  /\ log' = Append(log, e)
  /\ buf' = [i \in ID |-> IF i \in Receivers(e) \cup Matching(e)
                          THEN Append(buf[i], Len(log) + 1) ELSE buf[i]]
  /\ waiters' = waiters \ Matching(e)
  /\ open' = [i \in ID |-> open[i] /\ i \notin Matching(e)]
  /\ UNCHANGED <<closed, nextID, subs, want, subCap, callVars, from, seen>>

\* WaitFor(ctx, pred), first critical section; the context may be over already.
WaitForRegister(c, w, x) ==
  /\ pc[c] = "idle"
  /\ ~closed
  /\ Allocate
  /\ waiters' = waiters \cup {nextID}
  /\ want' = [want EXCEPT ![nextID] = w]
  /\ pc' = [pc EXCEPT ![c] = "select"]
  /\ callID' = [callID EXCEPT ![c] = nextID]
  /\ ctx' = [ctx EXCEPT ![c] = x]
  /\ ret' = [ret EXCEPT ![c] = None]
  /\ UNCHANGED <<closed, subs, subCap, buf, log>>

WaitForRefused(c) ==
  /\ pc[c] = "idle"
  /\ closed
  /\ callID' = [callID EXCEPT ![c] = NoID]
  /\ ret' = [ret EXCEPT ![c] = Fail("ErrBusClosed")]
  /\ UNCHANGED <<busVars, buf, open, pc, ctx, log, from, seen>>

\* select, case evt, ok := <-w.ch with ok: return evt, nil.
WaitForEvent(c) ==
  LET i == callID[c] IN
  /\ pc[c] = "select"
  /\ buf[i] # <<>>
  /\ ret' = [ret EXCEPT ![c] = Got(Head(buf[i]))]
  /\ buf' = [buf EXCEPT ![i] = Tail(@)]
  /\ pc' = [pc EXCEPT ![c] = "idle"]
  /\ UNCHANGED <<busVars, open, callID, ctx, log, from, seen>>

\* The same with a channel that was closed after its event was sent.
WaitForClosedChan_Bug(c) ==
  /\ pc[c] = "select"
  /\ ~open[callID[c]]
  /\ pc' = [pc EXCEPT ![c] = "recheck"]
  /\ UNCHANGED <<busVars, buf, open, callID, ctx, ret, log, from, seen>>

\* select, the same case with ok false: the channel was closed empty.
WaitForClosedChan(c) ==
  LET i == callID[c] IN
  /\ pc[c] = "select"
  /\ buf[i] = <<>>
  /\ ~open[i]
  /\ pc' = [pc EXCEPT ![c] = "recheck"]
  /\ UNCHANGED <<busVars, buf, open, callID, ctx, ret, log, from, seen>>

\* IsClosed and the returns after it.
WaitForRecheck(c) ==
  /\ pc[c] = "recheck"
  /\ ret' = [ret EXCEPT ![c] =
               Fail(IF closed THEN "ErrBusClosed" ELSE CtxError(c))]
  /\ pc' = [pc EXCEPT ![c] = "idle"]
  /\ UNCHANGED <<busVars, buf, open, callID, ctx, log, from, seen>>

\* select, case <-ctx.Done().  Go picks any ready case, so this one may be
\* taken although the event is already in the channel.
WaitForDone(c) ==
  /\ pc[c] = "select"
  /\ ctx[c] # "live"
  /\ pc' = [pc EXCEPT ![c] = "done"]
  /\ UNCHANGED <<busVars, buf, open, callID, ctx, ret, log, from, seen>>

\* Return from the ctx.Done case without taking the waiter out of the map.
WaitForGiveUp_Bug(c) ==
  /\ pc[c] = "done"
  /\ ret' = [ret EXCEPT ![c] = Fail(CtxError(c))]
  /\ pc' = [pc EXCEPT ![c] = "idle"]
  /\ UNCHANGED <<busVars, buf, open, callID, ctx, log, from, seen>>

\* The critical section of that case: the waiter may have gone meanwhile.
WaitForGiveUp(c) ==
  LET i == callID[c] IN
  /\ pc[c] = "done"
  /\ IF i \in waiters
     THEN /\ waiters' = waiters \ {i}
          /\ open' = [open EXCEPT ![i] = FALSE]
     ELSE UNCHANGED <<waiters, open>>
  /\ ret' = [ret EXCEPT ![c] = Fail(CtxError(c))]
  /\ pc' = [pc EXCEPT ![c] = "idle"]
  /\ UNCHANGED <<closed, nextID, subs, want, subCap, buf, callID, ctx,
                 log, from, seen>>

\* A deadline passes or someone cancels: nothing orders it against the rest.
ContextEnds(c, x) ==
  /\ pc[c] \in InCall
  /\ ctx[c] = "live"
  /\ x # "live"
  /\ ctx' = [ctx EXCEPT ![c] = x]
  /\ UNCHANGED <<busVars, buf, open, pc, callID, ret, log, from, seen>>

\* Close that forgets to close the channels of the waiters.
Close_Bug ==
  /\ ~closed
  /\ closed' = TRUE
  /\ subs' = {} /\ waiters' = {}
  /\ open' = [i \in ID |-> open[i] /\ i \notin subs]
  /\ UNCHANGED <<nextID, want, subCap, buf, callVars, log, from, seen>>

\* Close; the second call returns at once.
Close ==
  /\ ~closed
  /\ closed' = TRUE
  /\ subs' = {} /\ waiters' = {}
  /\ open' = [i \in ID |-> open[i] /\ i \notin subs \cup waiters]
  /\ UNCHANGED <<nextID, want, subCap, buf, callVars, log, from, seen>>

CallerStep(c) == \/ WaitForEvent(c)
                 \/ WaitForClosedChan(c)
                 \/ WaitForRecheck(c)
                 \/ WaitForDone(c)
                 \/ WaitForGiveUp(c)

Next ==
  \/ \E b \in Buffers : Subscribe(b)
  \/ \E i \in ID : Cancel(i) \/ ReadSub(i)
  \/ \E e \in Events : Emit(e)
  \/ Close
  \/ \E c \in Callers : \/ \E w \in Predicates, x \in CtxStates :
                             WaitForRegister(c, w, x)
                        \/ WaitForRefused(c)
                        \/ CallerStep(c)
                        \/ \E x \in CtxStates : ContextEnds(c, x)

\* A goroutine that can run does; nobody has to emit, close or give up.
Fairness == \A c \in Callers : WF_vars(CallerStep(c))

Spec == Init /\ [][Next]_vars /\ Fairness
-----------------------------------------------------------------------------
(* Properties *)

TypeOK ==
  /\ closed \in BOOLEAN
  /\ nextID \in 0 .. MaxID
  /\ subs \subseteq ID /\ waiters \subseteq ID
  /\ want \in [ID -> SUBSET Events]
  /\ subCap \in [ID -> Nat]
  /\ buf \in [ID -> Seq(Nat)]
  /\ open \in [ID -> BOOLEAN]
  /\ pc \in [Callers -> {"idle"} \cup InCall]
  /\ callID \in [Callers -> ID \cup {NoID}]
  /\ ctx \in [Callers -> CtxStates]
  /\ \A c \in Callers : /\ pc[c] \in InCall => callID[c] \in ID
                        /\ pc[c] = "done" => ctx[c] # "live"
  /\ ret \in [Callers -> [err : {"none", "nil"} \cup Errors, at : Nat]]
  /\ log \in Seq(Events)
  /\ from \in [ID -> Nat] /\ seen \in [ID -> Nat]

\* Nothing done while the mutex is held can block or panic: the channel of a
\* registered waiter is open and empty (Emit's plain send into capacity 1 and
\* its close), that of a subscription is open (send, Cancel, Close).
LockedStepsAreSafe ==
  /\ \A i \in waiters : open[i] /\ buf[i] = <<>>
  /\ \A i \in subs : open[i] /\ Len(buf[i]) <= subCap[i]

\* However a WaitFor ends (event, close, deadline, cancel, or two of them at
\* once) its waiter leaves the map: a registered waiter always belongs to a
\* call that is still running, and to one only, and a closed bus holds none.
WaitersHaveCallers ==
  /\ \A i \in waiters : \E c \in Callers : pc[c] \in InCall /\ callID[c] = i
  /\ \A c, d \in Callers :
       pc[c] \in InCall /\ pc[d] \in InCall /\ callID[c] = callID[d] => c = d
  /\ closed => subs = {} /\ waiters = {}

\* Was an event the waiter i accepts emitted at position n of the log?
Due(i, n) == n \in from[i] + 1 .. Len(log) /\ log[n] \in want[i]

\* WaitFor hands over the first event that matches since it registered, not
\* just any: a later one must not overtake it, an earlier one must not count.
FirstMatchWins ==
  \A c \in Callers : ret[c].err = "nil" =>
    LET i == callID[c] IN
      /\ Due(i, ret[c].at)
      /\ \A n \in 1 .. ret[c].at - 1 : ~Due(i, n)

\* ErrBusClosed is reported only for a closed bus and never in place of an
\* event: if the bus closes after the matching Emit the caller gets the event.
\* A timeout or a cancellation is reported only when the context has ended so.
ErrorsAreTruthful ==
  \A c \in Callers :
    /\ ret[c].err = "ErrBusClosed" =>
         closed /\ (callID[c] # NoID => \A n \in 1 .. Len(log) : ~Due(callID[c], n))
    /\ ret[c].err = "ErrWaitTimeout" => ctx[c] = "deadline"
    /\ ret[c].err = "ErrWaitCanceled" => ctx[c] = "canceled"

\* A subscription delivers in the order of emission, only events emitted after
\* it was made, and loses none until more events than its capacity came.
SubscriptionsInOrder ==
  \A i \in ID : subCap[i] > 0 =>
    /\ \A m, n \in 1 .. Len(buf[i]) : m < n => buf[i][m] < buf[i][n]
    /\ \A n \in 1 .. Len(buf[i]) : seen[i] < buf[i][n]
    /\ i \in subs /\ Len(log) - from[i] <= subCap[i] =>
         Len(buf[i]) = Len(log) - seen[i]

\* A call that has its event, or whose bus closed or whose context ended,
\* returns: no wake-up is lost between the map, the channel and the select.
WaitForReturns ==
  \A c \in Callers :
    (pc[c] \in InCall /\ \/ closed
                         \/ ctx[c] # "live"
                         \/ \E n \in 1 .. Len(log) : Due(callID[c], n))
      ~> pc[c] = "idle"

\* The bus is a set of gates: refinement mapping to the abstract specification.
GateOf(c) ==
  LET i == callID[c] IN
  CASE pc[c] = "idle" -> [st |-> "idle"]
    [] pc[c] # "idle" /\ i \in waiters -> [st |-> "open", want |-> want[i]]
    [] pc[c] # "idle" /\ i \notin waiters /\ buf[i] # <<>> ->
         [st |-> "passed", evt |-> log[Head(buf[i])]]
    [] OTHER -> [st |-> "shut"]
ResOf(c) == IF ret[c].err = "nil" THEN log[ret[c].at] ELSE ret[c].err
Gate == INSTANCE EventGate WITH gate <- [c \in Callers |-> GateOf(c)],
                                res <- [c \in Callers |-> ResOf(c)]

\* Every step of ids, maps, channels and select is a step of a gate or none.
ImplementsGate == Gate!Spec
-----------------------------------------------------------------------------
(* The inductive invariant of EventBusProofs *)

\* What is stored under an id, and that ids not handed out are untouched.
Entry(i) ==
  /\ i \in waiters => i < nextID /\ subCap[i] = 0 /\ open[i] /\ buf[i] = <<>>
  /\ i \in subs => i < nextID /\ subCap[i] > 0 /\ open[i] /\ Len(buf[i]) <= subCap[i]
  /\ i >= nextID => subCap[i] = 0 /\ buf[i] = <<>> /\ ~open[i]
  /\ from[i] <= Len(log)
Registry == /\ \A i \in ID : Entry(i)
            /\ closed => subs = {} /\ waiters = {}

\* Whose the ids are.
Ownership ==
  /\ \A i \in waiters : \E c \in Callers : pc[c] \in InCall /\ callID[c] = i
  /\ \A c \in Callers : callID[c] # NoID =>
       callID[c] < nextID /\ subCap[callID[c]] = 0
  /\ \A c, d \in Callers : callID[c] # NoID /\ callID[c] = callID[d] => c = d

IsFirstDue(i, n) == Due(i, n) /\ \A m \in 1 .. n - 1 : ~Due(i, m)
NothingDue(i) == \A n \in 1 .. Len(log) : ~Due(i, n)

\* The three states of the channel of a running call: waiting, served, shut.
Waiting(i) == i \in waiters /\ NothingDue(i)
Served(i) == /\ i \notin waiters /\ ~open[i]
             /\ Len(buf[i]) = 1 /\ IsFirstDue(i, buf[i][1])
ShutOut(i) == i \notin waiters /\ ~open[i] /\ buf[i] = <<>>
              /\ closed /\ NothingDue(i)

CallOK(c) ==
  LET i == callID[c] IN
  /\ pc[c] \in {"select", "done"} => Waiting(i) \/ Served(i) \/ ShutOut(i)
  /\ pc[c] = "recheck" => ShutOut(i)
Delivery == \A c \in Callers : CallOK(c)

\* What a finished call may have returned.
ResultOK(c) ==
  LET i == callID[c] IN
  /\ ret[c].err = "nil" => i # NoID /\ IsFirstDue(i, ret[c].at)
  /\ ret[c].err = "ErrBusClosed" => closed /\ (i # NoID => NothingDue(i))
  /\ ret[c].err = "ErrWaitTimeout" => ctx[c] = "deadline"
  /\ ret[c].err = "ErrWaitCanceled" => ctx[c] = "canceled"
Results == \A c \in Callers : ResultOK(c)

WaitInv == TypeOK /\ Registry /\ Ownership /\ Delivery /\ Results
=============================================================================
