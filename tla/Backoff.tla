------------------------------ MODULE Backoff ------------------------------
(***************************************************************************)
(* Delays: backoff.Exponential (src/internal/backoff/backoff.go), used by  *)
(* the HTTP transport and by the XMPP supervisor, and retryAfterDelay      *)
(* (src/transport/http/client.go).  A time.Duration is an integer between  *)
(* -top - 1 and top that wraps around; one unit is 100 ms.                 *)
(***************************************************************************)
EXTENDS Integers

Second == 10

\* Arithmetic of a Go integer: 2 * (top + 1) values.
Wrap(n, top) == ((n + top + 1) % (2 * (top + 1))) - (top + 1)
Fits(n, top) == n = Wrap(n, top)

\* What NewClient and Exponential make of their bounds.
AtLeast(n, default) == IF n <= 0 THEN default ELSE n
Larger(m, n) == IF m < n THEN n ELSE m

\* delay *= 2, as often as the index says.
Doublings(delay, top) ==
  LET d[i \in Nat] == IF i = 0 THEN delay ELSE Wrap(2 * d[i - 1], top) IN d

\* The bounds Exponential works with.
Lower(min) == AtLeast(min, 1)
Upper(min, max) == Larger(AtLeast(max, 5 * Second), Lower(min))

\* The limit is applied to the last doubling only.
Exponential_Bug(attempt, min, max, top) ==
  LET delay == Doublings(Lower(min), top)
      last == IF attempt <= 0 THEN Lower(min) ELSE delay[attempt]
  IN IF last >= Upper(min, max) THEN Upper(min, max) ELSE last

\* Exponential(attempt, min, max): the loop returns at the first doubling that
\* reaches the limit.
Exponential(attempt, min, max, top) ==
  LET hi == Upper(min, max)
      delay == Doublings(Lower(min), top)
  IN CASE attempt <= 0 -> Lower(min)
       [] attempt > 0 /\ (\E i \in 1 .. attempt : delay[i] >= hi) -> hi
       [] OTHER -> delay[attempt]

\* A Retry-After header: nothing usable, a number of seconds, or a date, given
\* by how far ahead of the local clock it is.
NoHeader == [kind |-> "none", n |-> 0]
IsHeader(h) == h \in [kind : {"none", "seconds", "date"}, n : Int]

\* retryAfterDelay that forgets to multiply by time.Second.
retryAfterDelay_Bug(h, fallback, top) ==
  IF h.kind = "none" \/ h.n < 0 THEN fallback ELSE h.n

\* retryAfterDelay(header, fallback)
retryAfterDelay(h, fallback, top) ==
  CASE h.kind = "seconds" /\ h.n >= 0 -> Wrap(h.n * Second, top)
    [] h.kind = "date" /\ h.n > 0 -> h.n
    [] OTHER -> fallback
=============================================================================
