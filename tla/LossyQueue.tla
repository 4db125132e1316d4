----------------------------- MODULE LossyQueue -----------------------------
(***************************************************************************)
(* What xmpp.Client promises a caller of SendRaw: stanzas are written in   *)
(* the order in which they were accepted, and each connection costs one    *)
(* stanza at most.  It need not be the oldest: the write loop of a broken  *)
(* connection may take one more before it ends.  The others are written on *)
(* the next connection.                                                    *)
(*                                                                         *)
(* Stanzas are numbered as they are accepted, so that a queue is the set   *)
(* of those in it and its head is the least.                               *)
(* XMPPClient implements this specification (XMPPClient!ImplementsQueue).  *)
(***************************************************************************)
EXTENDS Naturals, Sequences

CONSTANT MaxSends    \* bound: stanzas accepted per run

VARIABLES accepted,  \* how many stanzas were accepted
          waiting,   \* those accepted and neither written nor lost
          wire,      \* those written, in this order
          credit     \* connections that may still lose a stanza

vars == <<accepted, waiting, wire, credit>>

Init == accepted = 0 /\ waiting = {} /\ wire = <<>> /\ credit = 0

Accept ==
  /\ accepted < MaxSends
  /\ accepted' = accepted + 1
  /\ waiting' = waiting \cup {accepted + 1}
  /\ UNCHANGED <<wire, credit>>

\* The oldest one is written.
Write ==
  /\ \E n \in waiting :
       /\ \A m \in waiting : n <= m
       /\ wire' = Append(wire, n) /\ waiting' = waiting \ {n}
  /\ UNCHANGED <<accepted, credit>>

Connected == credit' = credit + 1 /\ UNCHANGED <<accepted, waiting, wire>>

\* A connection is gone; it lost one stanza at most.
Broken ==
  /\ credit > 0 /\ credit' = credit - 1
  /\ UNCHANGED waiting \/ \E n \in waiting : waiting' = waiting \ {n}
  /\ UNCHANGED <<accepted, wire>>

Next == Accept \/ Write \/ Connected \/ Broken

Spec == Init /\ [][Next]_vars
=============================================================================
