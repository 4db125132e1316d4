----------------------------- MODULE MCFriends -----------------------------
(* Friends with headers of every kind: a second, none, one that fits no   *)
(* duration and becomes negative; no header; a date ahead, a date past.   *)
(* Two doublings of the least delay fit no duration either.               *)
EXTENDS Friends

Headers ==
  {NoHeader, [kind |-> "seconds", n |-> 1], [kind |-> "seconds", n |-> 0],
   [kind |-> "seconds", n |-> 30],
   [kind |-> "seconds", n |-> -1], [kind |-> "date", n |-> 15], [kind |-> "date", n |-> -3]}
=============================================================================
