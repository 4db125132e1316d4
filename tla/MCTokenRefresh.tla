--------------------------- MODULE MCTokenRefresh ---------------------------
(* Small instances of TokenRefresh. *)
EXTENDS TokenRefresh, TLC

CONSTANTS c1, c2
CallersOnly == {c1, c2}
WithScheduler == {c1, Scheduler}
TwoCasts == {CallersOnly, WithScheduler}
=============================================================================
