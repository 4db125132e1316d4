----------------------------- MODULE EventGate -----------------------------
(***************************************************************************)
(* What events.Bus promises a goroutine that waits for an event, with no   *)
(* ids, no channels and no lock: every wait is a gate.  An open gate is    *)
(* passed by the FIRST emitted event it wants, a closing bus shuts the     *)
(* gates that are still open, and the waiting goroutine leaves with the    *)
(* event, with ErrBusClosed, or with the error of its own context.         *)
(* EventBus implements this specification (EventBus!ImplementsGate).       *)
(***************************************************************************)
CONSTANTS Callers,   \* goroutines that call WaitFor
          Events     \* what can be emitted

VARIABLES closed,    \* has the bus been closed?
          gate,      \* gate[c]: the wait of caller c
          res        \* res[c]: how its last wait ended

vars == <<closed, gate, res>>

GaveUp == {"ErrWaitTimeout", "ErrWaitCanceled"}

Idle       == [st |-> "idle"]
Open(w)    == [st |-> "open", want |-> w]
Passed(e)  == [st |-> "passed", evt |-> e]
Shut       == [st |-> "shut"]

Init == /\ closed = FALSE
        /\ gate = [c \in Callers |-> Idle]
        /\ res = [c \in Callers |-> "none"]

Begin(c, w) ==
  /\ gate[c] = Idle
  /\ IF closed
     THEN /\ res' = [res EXCEPT ![c] = "ErrBusClosed"]
          /\ UNCHANGED gate
     ELSE /\ gate' = [gate EXCEPT ![c] = Open(w)]
          /\ res' = [res EXCEPT ![c] = "none"]
  /\ UNCHANGED closed

Emit(e) ==
  /\ ~closed
  /\ gate' = [c \in Callers |->
                IF gate[c].st = "open" /\ e \in gate[c].want
                THEN Passed(e) ELSE gate[c]]
  /\ UNCHANGED <<closed, res>>

Close ==
  /\ ~closed
  /\ closed' = TRUE
  /\ gate' = [c \in Callers |-> IF gate[c].st = "open" THEN Shut ELSE gate[c]]
  /\ UNCHANGED res

Leave(c, r) ==
  /\ gate' = [gate EXCEPT ![c] = Idle]
  /\ res' = [res EXCEPT ![c] = r]
  /\ UNCHANGED closed

\* Once the gate is passed or shut the caller leaves; a context that ends at
\* the same time may win, and the event is then lost to this caller.
Return(c) ==
  \/ /\ gate[c].st = "passed"
     /\ \E r \in {gate[c].evt} \cup GaveUp : Leave(c, r)
  \/ /\ gate[c].st = "shut"
     /\ \E r \in {"ErrBusClosed"} \cup GaveUp : Leave(c, r)

GiveUp(c) == /\ gate[c].st = "open"
             /\ \E r \in GaveUp : Leave(c, r)

Next == \/ \E c \in Callers : \/ \E w \in SUBSET Events : Begin(c, w)
                              \/ Return(c)
                              \/ GiveUp(c)
        \/ \E e \in Events : Emit(e)
        \/ Close

Spec == Init /\ [][Next]_vars /\ \A c \in Callers : WF_vars(Return(c))
=============================================================================
