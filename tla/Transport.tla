----------------------------- MODULE Transport -----------------------------
(***************************************************************************)
(* transporthttp.Client.Request (src/transport/http/client.go): one        *)
(* request, sent again after a broken exchange, a 429 or a 5xx until its   *)
(* attempts are used up or its context ends.  What it does about tokens is *)
(* in TokenRefresh.  The caller and the service are in the module that     *)
(* extends this one: it says what an exchange does and ends in Answer.     *)
(***************************************************************************)
EXTENDS Backoff, Sequences

CONSTANTS MaxRetries,   \* Config.MaxRetries
          MinBackoff, MaxBackoff, \* Config.MinBackoff, Config.MaxBackoff
          MaxDuration,  \* the largest time.Duration
          RetryAfters,  \* headers the service may send with a 429
          MaxFaults     \* bound: exchanges that go wrong

ASSUME TransportAssumption ==
  /\ MaxRetries \in Nat /\ MaxFaults \in Nat /\ MaxDuration \in Nat
  /\ MinBackoff \in Int /\ MaxBackoff \in Int
  /\ \A h \in RetryAfters : IsHeader(h)

VARIABLES tx,      \* the request: where it is, attempt, last delay, header
          ans,     \* what the last exchange came to
          ended,   \* the context of the call has ended
          faults   \* exchanges that went wrong so far

transportVars == <<tx, ans, ended, faults>>

NoRequest == [at |-> "idle", attempt |-> 0, delay |-> 0, header |-> NoHeader]

\* Outcomes: an answer, an answer that asks to come again, none, no more.
Statuses == {"none", "ok", "refused", "busy", "down", "broken", "ctx"}
Retriable == ans \in {"busy", "down", "broken"}
Failed == ans # "ok"

TransportInit == tx = NoRequest /\ ans = "none" /\ ended = FALSE /\ faults = 0

Request == tx' = [NoRequest EXCEPT !.at = "send", !.attempt = 1] /\ ans' = "none"

Send ==
  /\ tx.at = "send" /\ ~ended
  /\ tx' = [tx EXCEPT !.at = "flight"]
  /\ UNCHANGED <<ans, ended, faults>>

\* The exchange is over; header is what came with a 429.
Answer(outcome, header) ==
  /\ ans' = outcome
  /\ tx' = [tx EXCEPT !.at = "got", !.header = header]
Fault == faults < MaxFaults /\ faults' = faults + 1

\* Nothing is sent once the context has ended.
NotSent ==
  /\ tx.at = "send" /\ ended
  /\ Answer("broken", NoHeader)
  /\ UNCHANGED <<ended, faults>>

LastAttempt_Bug == tx.attempt > MaxRetries + 1
LastAttempt == tx.attempt >= MaxRetries + 1

\* Request returns to its caller.
Returned == tx.at = "got" /\ (~Retriable \/ LastAttempt)

\* NewClient: Config.MaxBackoff has a default of its own.
MinDelay == AtLeast(MinBackoff, 1)
MaxDelay == Larger(AtLeast(MaxBackoff, 2 * Second), MinDelay)

Delay ==
  LET fallback == Exponential(tx.attempt - 1, MinDelay, MaxDelay, MaxDuration)
  IN IF ans = "busy" THEN retryAfterDelay(tx.header, fallback, MaxDuration) ELSE fallback

\* Back-off; sleepContext does not sleep when the delay is not positive.
Retry ==
  /\ tx.at = "got" /\ Retriable /\ ~LastAttempt
  /\ tx' = [tx EXCEPT !.at = "sleep", !.delay = Delay]
  /\ UNCHANGED <<ans, ended, faults>>

Slept ==
  /\ tx.at = "sleep"
  /\ tx' = [tx EXCEPT !.at = "send", !.attempt = @ + 1]
  /\ ans' = "none"
  /\ UNCHANGED <<ended, faults>>

\* select: the end of the context while it sleeps.
SleepCut ==
  /\ tx.at = "sleep" /\ tx.delay > 0 /\ ended
  /\ Answer("ctx", NoHeader)
  /\ UNCHANGED <<ended, faults>>

ContextEnds ==
  /\ tx.at # "idle" /\ ~ended
  /\ ended' = TRUE
  /\ UNCHANGED <<tx, ans, faults>>

TransportTypeOK ==
  /\ tx \in [at : {"idle", "send", "flight", "got", "sleep"}, attempt : 0 .. MaxRetries + 1,
             delay : Int, header : {tx.header}]
  /\ IsHeader(tx.header)
  /\ ans \in Statuses /\ ended \in BOOLEAN /\ faults \in 0 .. MaxFaults

\* A request that is sent again was held back: for as long as the service asked
\* for, if a duration can hold that; otherwise within the bounds of the
\* configuration, though doubling wraps around, unless the limit is beyond half
\* of what a duration can hold (sleepContext, Exponential).
RetriesArePaced ==
  tx.at = "sleep" =>
    LET h == tx.header
        asked == IF h.kind = "seconds" THEN h.n * Second ELSE h.n
    IN IF (h.kind = "seconds" /\ h.n >= 0) \/ (h.kind = "date" /\ h.n > 0)
       THEN Fits(asked, MaxDuration) => tx.delay >= asked
       ELSE 2 * MaxDelay <= MaxDuration => tx.delay \in MinDelay .. MaxDelay
=============================================================================
