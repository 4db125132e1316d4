---------------------------- MODULE XMPPSession ----------------------------
(***************************************************************************)
(* What the supervisor of an xmpp.Client promises the code above it: it    *)
(* tries, connects, loses the connection and tries again until it gives    *)
(* up.  It never dials once its context has ended, but a dial under way at *)
(* that moment may still connect; then too it ends.                        *)
(* XMPPClient implements this specification (XMPPClient!ImplementsSession) *)
(* and ClientLifecycle is built on it.                                     *)
(***************************************************************************)
CONSTANT Sessions     \* supervisors

VARIABLES sup,        \* sup[s]: what supervisor s is doing
          canceled    \* canceled[s]: its context has ended

vars == <<sup, canceled>>

Alive == {"loop", "dial", "up"}
Moves(s, from, to) == sup[s] = from /\ sup' = [sup EXCEPT ![s] = to]

Init == /\ sup = [s \in Sessions |-> "none"]
        /\ canceled = [s \in Sessions |-> FALSE]

Connect(s) == Moves(s, "none", "loop") /\ UNCHANGED canceled
Cancel(s) == canceled' = [canceled EXCEPT ![s] = TRUE] /\ UNCHANGED sup

Dial(s)        == Moves(s, "loop", "dial") /\ ~canceled[s] /\ UNCHANGED canceled
Refused(s)     == Moves(s, "dial", "loop") /\ UNCHANGED canceled
Established(s) == Moves(s, "dial", "up") /\ UNCHANGED canceled
Broken(s)      == Moves(s, "up", "loop") /\ UNCHANGED canceled

\* Its budget is used up, and somebody is told; or its context has ended.
GivesUp(s) == (\E at \in {"dial", "up"} : Moves(s, at, "done")) /\ UNCHANGED canceled
Ends(s) == canceled[s] /\ (\E at \in Alive : Moves(s, at, "done")) /\ UNCHANGED canceled

Step(s) == \/ Dial(s) \/ Refused(s) \/ Established(s) \/ Broken(s)
           \/ GivesUp(s) \/ Ends(s)

Next == \E s \in Sessions : Connect(s) \/ Cancel(s) \/ Step(s)

\* A supervisor whose context has ended does not stand still.
Fairness == \A s \in Sessions : WF_vars(canceled[s] /\ Step(s))

Spec == Init /\ [][Next]_vars /\ Fairness
=============================================================================
