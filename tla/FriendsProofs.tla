---------------------------- MODULE FriendsProofs ----------------------------
(***************************************************************************)
(* Theorems about Friends, and about the transport below it, for any other *)
(* accounts, retries, delays, headers and bounds.                          *)
(***************************************************************************)
EXTENDS Friends, BackoffProofs

-----------------------------------------------------------------------------
(* The inductive invariant *)

\* What the service notifies this account of.
Notes ==
  {Friend(status, dir, a) : status \in {"PENDING", "ACCEPTED"},
                            dir \in {"INBOUND", "OUTBOUND"}, a \in Others}
    \cup {Remove(reason, a, Self) : reason \in {"DELETED", "REJECTED", "ABORTED"}, a \in Others}
    \cup {Remove(reason, Self, a) : reason \in {"DELETED", "REJECTED", "ABORTED"}, a \in Others}

\* Which command can be running, and what it has written by then.
Commands ==
  /\ mail \in Seq(Notes)
  /\ op.name = "none" <=> op = NoOp
  /\ op.name = "list" => op.bulk /\ op.acct = Self
  /\ op.name = "add" => ~op.bulk
  /\ op.name \in {"add", "remove"} => op.acct \in Others
  /\ op # NoOp => ret = "none"
  /\ ans = "ok" => tx.at = "got"
  /\ tx.at = "got" /\ ans # "busy" => tx.header = NoHeader
  /\ tx.at = "sleep" => tx.attempt <= MaxRetries

\* Where a removal stands: a request that has been served is answered, or it
\* counts as unclear.
Removals ==
  op.name = "remove" =>
    /\ op.acct \notin todo \cup removed \cup failed
    /\ \A a \in todo : a \notin undone
    /\ ans = "ok" => op.acct \in undone
    /\ op.acct \in undone => op.acct \in unclear \/ ans = "ok"

\* What is known of the friends who are left.
Left ==
  /\ Befriended \cap undone \subseteq since
  /\ op # NoOp /\ (~op.bulk \/ op.name = "list") =>
       removed = {} /\ failed = {} /\ (op.name # "remove" => undone = {})
  /\ op.name = "list" /\ ans = "ok" => Befriended \subseteq todo \cup since
  /\ op.bulk /\ op.name = "remove" =>
       Befriended \subseteq todo \cup {op.acct} \cup failed \cup since

\* The notifications that make a friend of a, and those that end it.
Makes(n, a) == n.type = "friend" /\ n.status = "ACCEPTED" /\ n.acct = a
Breaks(n, a) == n.type = "remove" /\ n.reason = "DELETED" /\ Other(n) = a
Touches(n, a) == Makes(n, a) \/ Breaks(n, a)

\* The last notification about a that is under way says what the service has
\* about a; if there is none, the application has it already.
Follows(a) ==
  /\ \A i \in 1 .. Len(mail) :
       Touches(mail[i], a) /\ (\A j \in i + 1 .. Len(mail) : ~Touches(mail[j], a))
         => (Makes(mail[i], a) <=> bond[a] = "friend")
  /\ (\A i \in 1 .. Len(mail) : ~Touches(mail[i], a))
         => (a \in friends <=> bond[a] = "friend")
Following == \A a \in Others : Follows(a)

FriendsInv == TypeOK /\ Commands /\ Removals /\ Left /\ BulkRemovalTrue /\ Following /\ RetriesArePaced

-----------------------------------------------------------------------------
(* Types *)

\* What an answer, an error or the end of a sleep makes of the request.
LEMMA AnswerTypes ==
  ASSUME TransportTypeOK, NEW outcome \in Statuses, NEW h, IsHeader(h), Answer(outcome, h)
  PROVE  /\ tx' \in [at : {"got"}, attempt : 0 .. MaxRetries + 1, delay : Int, header : {h}]
         /\ ans' \in Statuses
         /\ tx'.header = h /\ IsHeader(tx'.header) /\ tx'.at = "got"
BY DEF TransportTypeOK, Answer

LEMMA NoHeaderIsHeader == IsHeader(NoHeader)
BY DEF IsHeader, NoHeader

\* The delay before a repetition is a number, and it keeps to the bounds or to
\* what was asked for.
LEMMA DelayIsPaced ==
  ASSUME TransportTypeOK, tx.at = "got", ans = "busy" \/ tx.header = NoHeader
  PROVE  /\ Delay \in Int
         /\ LET h == tx.header
                asked == IF h.kind = "seconds" THEN h.n * Second ELSE h.n
            IN IF (h.kind = "seconds" /\ h.n >= 0) \/ (h.kind = "date" /\ h.n > 0)
               THEN Fits(asked, MaxDuration) => Delay >= asked
               ELSE 2 * MaxDelay <= MaxDuration => Delay \in MinDelay .. MaxDelay
<1> DEFINE fallback == Exponential(tx.attempt - 1, MinDelay, MaxDelay, MaxDuration)
           h == tx.header
<1>1. /\ tx.attempt \in Int /\ MaxDuration \in Nat
      /\ h \in [kind : {"none", "seconds", "date"}, n : Int]
  BY TransportAssumption DEF TransportTypeOK, IsHeader
<1>2. MinDelay \in Nat \ {0} /\ MaxDelay \in Nat \ {0} /\ MinDelay <= MaxDelay
  BY TransportAssumption DEF MinDelay, MaxDelay, AtLeast, Larger, Second
<1>3. Lower(MinDelay) = MinDelay /\ Upper(MinDelay, MaxDelay) = MaxDelay
  BY <1>2 DEF Lower, Upper, AtLeast, Larger, Second
<1>a. tx.attempt - 1 \in Int /\ MinDelay \in Int /\ MaxDelay \in Int
  BY <1>1, <1>2
<1>4. fallback \in Int
  BY <1>1, <1>a, ExponentialIsInt
<1>5. 2 * MaxDelay <= MaxDuration => fallback \in MinDelay .. MaxDelay
  BY <1>1, <1>a, <1>3, ExponentialBounded
<1>6. \A n \in Int : Wrap(n, MaxDuration) \in Int
  BY <1>1, WrapProperties
<1> HIDE DEF fallback
<1>7. Delay = IF ans = "busy" THEN retryAfterDelay(h, fallback, MaxDuration) ELSE fallback
  BY DEF Delay, fallback
<1>8. CASE h.kind = "seconds" /\ h.n >= 0
  <2>1. Delay = Wrap(h.n * Second, MaxDuration)
    BY <1>7, <1>8 DEF retryAfterDelay, NoHeader
  <2>2. h.n * Second \in Int
    BY <1>1 DEF Second
  <2> QED
    BY <1>6, <1>8, <2>1, <2>2 DEF Fits
<1>9. CASE h.kind = "date" /\ h.n > 0
  <2>1. Delay = h.n
    BY <1>7, <1>9 DEF retryAfterDelay, NoHeader
  <2> QED
    BY <1>1, <1>9, <2>1
<1>10. CASE ~(h.kind = "seconds" /\ h.n >= 0) /\ ~(h.kind = "date" /\ h.n > 0)
  <2>1. Delay = fallback
    BY <1>7, <1>10 DEF retryAfterDelay
  <2> QED
    BY <1>4, <1>5, <1>10, <2>1
<1> QED
  BY <1>8, <1>9, <1>10

\* An accepted request reads the list, or changes the bond with one account.
LEMMA EffectCases ==
  ASSUME Effect, Commands, TypeOK
  PROVE  \/ /\ op.name = "list" /\ todo' = Befriended /\ since' = {}
            /\ UNCHANGED <<bond, mail, undone>>
         \/ /\ op.name \in {"add", "remove"} /\ op.acct \in Others /\ UNCHANGED todo
            /\ undone' = IF op.name = "remove" THEN undone \cup {op.acct} ELSE undone
            /\ \E b \in Bonds, n \in Notes :
                 /\ Becomes(op.acct, b, n)
                 /\ op.name = "remove" => b = "none"
                 /\ Touches(n, op.acct) <=> (b = "friend" \/ bond[op.acct] = "friend")
                 /\ \A a \in Others \ {op.acct} : ~Touches(n, a)
                 /\ Makes(n, op.acct) <=> b = "friend"
<1> USE FriendsAssumption DEF Commands, Bonds, Touches, Makes, Breaks, Other, Friend, Remove
<1> DEFINE a == op.acct
<1>1. CASE op.name = "add" /\ bond[a] = "none" /\ Becomes(a, "outgoing", Friend("PENDING", "OUTBOUND", a))
           /\ UNCHANGED <<todo, undone>>
  <2>1. Friend("PENDING", "OUTBOUND", a) \in Notes
    BY <1>1 DEF Notes
  <2> QED
    BY <1>1, <2>1
<1>2. CASE op.name = "add" /\ bond[a] = "incoming" /\ Becomes(a, "friend", Friend("ACCEPTED", "INBOUND", a))
           /\ UNCHANGED <<todo, undone>>
  <2>1. Friend("ACCEPTED", "INBOUND", a) \in Notes
    BY <1>2 DEF Notes
  <2> QED
    BY <1>2, <2>1
<1>3. CASE op.name = "remove" /\ bond[a] # "none"
           /\ Becomes(a, "none", Remove(Reason(bond[a], FALSE), Self, a))
           /\ undone' = undone \cup {a} /\ UNCHANGED todo
  <2>1. bond[a] \in {"incoming", "outgoing", "friend"}
    BY <1>3 DEF TypeOK
  <2>2. Reason(bond[a], FALSE) \in {"DELETED", "REJECTED", "ABORTED"}
        /\ (Reason(bond[a], FALSE) = "DELETED" <=> bond[a] = "friend")
    BY <2>1 DEF Reason
  <2>3. \A r \in {"DELETED", "REJECTED", "ABORTED"} : Remove(r, Self, a) \in Notes
    BY <1>3 DEF Notes
  <2> QED
    BY <1>3, <2>2, <2>3
<1> QED
  BY <1>1, <1>2, <1>3 DEF Effect

\* What another account does is notified, and says what becomes of its bond.
LEMMA OtherActsCases ==
  ASSUME NEW a \in Others, OtherActs(a), TypeOK
  PROVE  \E b \in Bonds, n \in Notes :
           /\ Becomes(a, b, n) /\ mail' = Append(mail, n)
           /\ Touches(n, a) <=> (b = "friend" \/ bond[a] = "friend")
           /\ \A c \in Others \ {a} : ~Touches(n, c)
           /\ Makes(n, a) <=> b = "friend"
<1> USE FriendsAssumption DEF Bonds, Touches, Makes, Breaks, Other, Friend, Remove
<1>1. CASE bond[a] = "none" /\ Becomes(a, "incoming", Friend("PENDING", "INBOUND", a))
  <2>1. Friend("PENDING", "INBOUND", a) \in Notes
    BY DEF Notes
  <2> QED
    BY <1>1, <2>1 DEF Becomes
<1>2. CASE bond[a] = "outgoing" /\ Becomes(a, "friend", Friend("ACCEPTED", "OUTBOUND", a))
  <2>1. Friend("ACCEPTED", "OUTBOUND", a) \in Notes
    BY DEF Notes
  <2> QED
    BY <1>2, <2>1 DEF Becomes
<1>3. CASE bond[a] # "none" /\ Becomes(a, "none", Remove(Reason(bond[a], TRUE), a, Self))
  <2>1. bond[a] \in {"incoming", "outgoing", "friend"}
    BY <1>3 DEF TypeOK
  <2>2. Reason(bond[a], TRUE) \in {"DELETED", "REJECTED", "ABORTED"}
        /\ (Reason(bond[a], TRUE) = "DELETED" <=> bond[a] = "friend")
    BY <2>1 DEF Reason
  <2>3. \A r \in {"DELETED", "REJECTED", "ABORTED"} : Remove(r, a, Self) \in Notes
    BY DEF Notes
  <2> QED
    BY <1>3, <2>2, <2>3 DEF Becomes
<1> QED
  BY <1>1, <1>2, <1>3 DEF OtherActs

\* A notification makes a friend of one account, or ends a friendship with one.
LEMMA DispatchEffect ==
  ASSUME Dispatch, mail \in Seq(Notes), friends \subseteq Others
  PROVE  /\ mail # <<>> /\ Head(mail) \in Notes
         /\ friends' = {a \in Others : \/ Makes(Head(mail), a)
                                       \/ a \in friends /\ ~Breaks(Head(mail), a)}
<1> DEFINE n == Head(mail)
<1>1. mail # <<>> /\ n \in Notes
  BY DEF Dispatch
<1>2. \/ n.type = "friend" /\ n.acct \in Others
      \/ n.type = "remove" /\ Other(n) \in Others
  BY <1>1, FriendsAssumption DEF Notes, Friend, Remove, Other
<1> HIDE DEF n
<1>3. friends' = CASE n.type = "friend" /\ n.status = "ACCEPTED" -> friends \cup {n.acct}
                   [] n.type = "remove" /\ n.reason = "DELETED" -> friends \ {Other(n)}
                   [] OTHER -> friends
  BY DEF Dispatch, n
<1> DEFINE G == {a \in Others : Makes(n, a) \/ (a \in friends /\ ~Breaks(n, a))}
<1>4. ASSUME n.type = "friend", n.acct \in Others PROVE friends' = G
  <2>1. friends' = IF n.status = "ACCEPTED" THEN friends \cup {n.acct} ELSE friends
    BY <1>3, <1>4
  <2>2. \A a : a \in G <=> a \in Others /\ ((n.status = "ACCEPTED" /\ n.acct = a) \/ a \in friends)
    BY <1>4 DEF Makes, Breaks
  <2> QED
    BY <1>4, <2>1, <2>2
<1>5. ASSUME n.type = "remove" PROVE friends' = G
  <2>1. friends' = IF n.reason = "DELETED" THEN friends \ {Other(n)} ELSE friends
    BY <1>3, <1>5
  <2>2. \A a : a \in G <=> a \in Others /\ a \in friends /\ ~(n.reason = "DELETED" /\ Other(n) = a)
    BY <1>5 DEF Makes, Breaks
  <2> QED
    BY <2>1, <2>2
<1>6. friends' = G
  BY <1>2, <1>4, <1>5
<1> QED
  BY <1>1, <1>6 DEF n

\* Every step leaves the variables their types.
LEMMA TypeStep ==
  ASSUME TypeOK, Commands, Removals, Left, [Next]_vars
  PROVE  TypeOK'
<1> USE TransportAssumption, FriendsAssumption, NoHeaderIsHeader
<1>a. TransportTypeOK /\ faults \in Int /\ MaxFaults \in Int /\ tx.attempt \in 0 .. MaxRetries + 1
      /\ NoOp \in [name : {"none", "add", "remove", "list"}, acct : Others \cup {Self}, bulk : BOOLEAN]
  BY DEF TypeOK, TransportTypeOK, NoOp
<1>b. ASSUME NEW a \in Others, NEW b \in Bonds, NEW n, Becomes(a, b, n)
      PROVE  bond' \in [Others -> Bonds] /\ since' \subseteq Others
  BY <1>b DEF Becomes, TypeOK
<1>c. ASSUME Request
      PROVE  /\ tx'.at = "send" /\ tx'.header = NoHeader /\ ans' = "none"
             /\ tx' \in [at : {"send"}, attempt : 0 .. MaxRetries + 1, delay : Int,
                        header : {NoHeader}]
  <2>1. tx' = [at |-> "send", attempt |-> 1, delay |-> 0, header |-> NoHeader] /\ ans' = "none"
    BY <1>c DEF Request, NoRequest
  <2>2. 1 \in 0 .. MaxRetries + 1
    OBVIOUS
  <2> QED
    BY <2>1, <2>2
<1>d. ASSUME NEW name \in {"add", "remove", "list"}, NEW a \in Others \cup {Self},
             NEW b \in BOOLEAN, Call(name, a, b)
      PROVE  TypeOK'
  <2>1. TransportTypeOK'
    BY <1>a, <1>c, <1>d DEF Call, TransportTypeOK, Statuses
  <2>2. op' \in [name : {"none", "add", "remove", "list"}, acct : Others \cup {Self}, bulk : BOOLEAN]
        /\ op' # NoOp /\ tx'.at # "idle"
    BY <1>c, <1>d DEF Call, NoOp
  <2> QED
    BY <1>d, <2>1, <2>2 DEF Call, TypeOK, serviceVars
<1>e. ASSUME NEW r \in {"ok", "error", "cleared"}, Return(r)
      PROVE  /\ tx'.at = "idle" /\ tx'.header = NoHeader /\ ans' = "none" /\ ended' = FALSE
             /\ tx' \in [at : {"idle"}, attempt : 0 .. MaxRetries + 1, delay : Int,
                        header : {NoHeader}]
             /\ op' = NoOp /\ ret' = r
  BY <1>e DEF Return, NoRequest
<1>1. ASSUME NEW a \in Others, OtherActs(a) PROVE TypeOK'
  <2>1. bond' \in [Others -> Bonds] /\ since' \subseteq Others
    BY <1>1, <1>b DEF OtherActs, Bonds
  <2> QED
    BY <1>1, <2>1 DEF OtherActs, TypeOK, TransportTypeOK, transportVars, resultVars, NoOp
<1>2. ASSUME NEW a \in Others, AddFriend(a) \/ RemoveFriend(a) PROVE TypeOK'
  BY <1>2, <1>d DEF AddFriend, RemoveFriend
<1>3. ASSUME RemoveAllFriends PROVE TypeOK'
  BY <1>3, <1>d DEF RemoveAllFriends
<1>4. ASSUME Exchange, UNCHANGED Outside PROVE TypeOK'
  <2>1. ASSUME TransportTypeOK', tx.at # "idle", tx'.at # "idle" PROVE TypeOK'
    BY <1>4, <2>1 DEF Outside, TypeOK, serviceVars, resultVars, historyVars, NoOp
  <2>2. CASE Send
    BY <1>a, <2>1, <2>2 DEF Send, TransportTypeOK
  <2>3. CASE NotSent
    <3>1. tx'.at = "got" /\ TransportTypeOK'
      BY <1>a, <2>3, AnswerTypes DEF NotSent, TransportTypeOK, Statuses
    <3> QED
      BY <2>1, <2>3, <3>1 DEF NotSent
  <2>4. CASE Retry
    <3>1. Delay \in Int
      BY <1>a, <2>4, DelayIsPaced DEF Retry, Commands
    <3>2. tx'.at = "sleep" /\ TransportTypeOK'
      BY <1>a, <2>4, <3>1 DEF Retry, TransportTypeOK
    <3> QED
      BY <2>1, <2>4, <3>2 DEF Retry
  <2>5. CASE Slept
    <3>1. tx.attempt + 1 \in 0 .. MaxRetries + 1
      BY <1>a, <2>5 DEF Slept, Commands
    <3>2. tx'.at = "send" /\ TransportTypeOK'
      BY <1>a, <2>5, <3>1 DEF Slept, TransportTypeOK, Statuses
    <3> QED
      BY <2>1, <2>5, <3>2 DEF Slept
  <2>6. CASE SleepCut
    <3>1. tx'.at = "got" /\ TransportTypeOK'
      BY <1>a, <2>6, AnswerTypes DEF SleepCut, TransportTypeOK, Statuses
    <3> QED
      BY <2>1, <2>6, <3>1 DEF SleepCut
  <2>7. CASE ContextEnds
    BY <1>a, <2>1, <2>7 DEF ContextEnds, TransportTypeOK
  <2> QED
    BY <1>4, <2>2, <2>3, <2>4, <2>5, <2>6, <2>7 DEF Exchange
<1>5. ASSUME Serve \/ ServedUnanswered \/ NotServed PROVE TypeOK'
  <2>a. tx.at = "flight" /\ op # NoOp
    BY <1>5 DEF Serve, ServedUnanswered, NotServed, TypeOK
  <2>b. ASSUME NEW o \in Statuses, NEW h, IsHeader(h), Answer(o, h),
               ended' \in BOOLEAN, faults' \in 0 .. MaxFaults
        PROVE  TransportTypeOK' /\ tx'.at = "got"
    BY <1>a, <2>b, AnswerTypes DEF TransportTypeOK
  <2>c. ASSUME Unanswered PROVE
          /\ faults' \in 0 .. MaxFaults
          /\ \E o \in Statuses : Answer(o, NoHeader)
    BY <1>a, <2>c DEF Unanswered, Fault, Statuses, TransportTypeOK
  <2>d. bond \in [Others -> Bonds] /\ todo \subseteq Others /\ undone \subseteq Others
        /\ since \subseteq Others /\ unclear \subseteq Others /\ ended \in BOOLEAN
    BY DEF TypeOK, TransportTypeOK
  <2>1. TransportTypeOK' /\ tx'.at = "got"
    <3>1. CASE Serve
      BY <1>a, <2>b, <2>d, <3>1 DEF Serve, Statuses, TransportTypeOK
    <3>2. CASE ServedUnanswered
      <4>1. PICK o \in Statuses : Answer(o, NoHeader)
        BY <2>c, <3>2 DEF ServedUnanswered
      <4> QED
        BY <2>b, <2>c, <2>d, <3>2, <4>1 DEF ServedUnanswered
    <3>3. CASE NotServed
      <4>1. CASE Unanswered
        <5>1. PICK o \in Statuses : Answer(o, NoHeader)
          BY <2>c, <4>1
        <5> QED
          BY <2>b, <2>c, <2>d, <3>3, <4>1, <5>1 DEF NotServed
      <4>2. ASSUME NEW h \in RetryAfters, Fault, Answer("busy", h) PROVE TransportTypeOK' /\ tx'.at = "got"
        <5>1. IsHeader(h) /\ "busy" \in Statuses
          BY DEF Statuses
        <5>2. ended' \in BOOLEAN /\ faults' \in 0 .. MaxFaults
          BY <1>a, <2>d, <3>3, <4>2 DEF NotServed, Fault, TransportTypeOK
        <5> QED
          BY <2>b, <4>2, <5>1, <5>2
      <4> QED
        BY <3>3, <4>1, <4>2 DEF NotServed
    <3> QED
      BY <1>5, <3>1, <3>2, <3>3
  <2>2. ASSUME Effect PROVE
          /\ bond' \in [Others -> Bonds] /\ todo' \subseteq Others /\ undone' \subseteq Others
          /\ since' \subseteq Others /\ todo' \cap (removed \cup failed) = {}
    <3>1. CASE op.name = "list" /\ todo' = Befriended /\ since' = {} /\ UNCHANGED <<bond, undone>>
      BY <2>a, <2>d, <3>1 DEF Befriended, Left
    <3>2. CASE UNCHANGED todo /\ op.acct \in Others /\ undone' \in {undone, undone \cup {op.acct}}
               /\ \E b \in Bonds, n \in Notes : Becomes(op.acct, b, n)
      BY <1>b, <2>d, <3>2 DEF TypeOK
    <3> QED
      BY <2>2, <3>1, <3>2, EffectCases DEF Commands
  <2>3. /\ bond' \in [Others -> Bonds] /\ todo' \subseteq Others /\ undone' \subseteq Others
        /\ since' \subseteq Others /\ todo' \cap (removed \cup failed) = {}
        /\ unclear' \subseteq Others
    <3>1. CASE Effect /\ unclear' \in {unclear, unclear \cup {op.acct}} /\ (unclear' = unclear \/ op.name = "remove")
      BY <2>2, <2>d, <3>1 DEF Commands
    <3>2. CASE Untouched /\ UNCHANGED unclear
      BY <2>d, <3>2 DEF Untouched, serviceVars, TypeOK
    <3> QED
      BY <1>5, <3>1, <3>2 DEF Serve, ServedUnanswered, NotServed
  <2>4. Aside
    BY <1>5 DEF Serve, ServedUnanswered, NotServed
  <2> QED
    BY <2>a, <2>1, <2>3, <2>4 DEF Aside, TypeOK
<1>6. ASSUME Answered PROVE TypeOK'
  <2>1. PICK r \in {"ok", "error", "cleared"} : Return(r)
    BY <1>6 DEF Answered
  <2>2. TransportTypeOK'
    BY <1>a, <1>e, <1>6, <2>1 DEF Answered, TransportTypeOK, Statuses
  <2> QED
    BY <1>a, <1>e, <1>6, <2>1, <2>2 DEF Answered, TypeOK, serviceVars, resultVars, historyVars
<1>f. ASSUME NextFriend, faults' = faults,
             removed' \in SUBSET Others, failed' \in SUBSET Others,
             \A x \in Others : ~(x \in removed' /\ x \in failed'),
             \A x \in todo : x \notin removed' /\ x \notin failed',
             UNCHANGED <<bond, friends, ops, changes, undone, unclear, since>>
      PROVE  TypeOK'
  <2>1. CASE (\E r \in {"error", "cleared"} : Return(r)) /\ UNCHANGED todo
    <3>1. TransportTypeOK'
      BY <1>a, <1>e, <1>f, <2>1 DEF TransportTypeOK, Statuses
    <3> QED
      BY <1>a, <1>e, <1>f, <2>1, <3>1 DEF TypeOK
  <2>2. ASSUME NEW a \in todo, todo' = todo \ {a}, op' = [op EXCEPT !.name = "remove", !.acct = a],
               Request, UNCHANGED <<ended, ret>>
        PROVE  TypeOK'
    <3>1. TransportTypeOK' /\ tx'.at # "idle"
      BY <1>a, <1>c, <1>f, <2>2 DEF TransportTypeOK, Statuses
    <3>2. op' \in [name : {"none", "add", "remove", "list"}, acct : Others \cup {Self}, bulk : BOOLEAN]
          /\ op' # NoOp
      BY <2>2 DEF TypeOK, NoOp
    <3> QED
      BY <1>f, <2>2, <3>1, <3>2 DEF TypeOK
  <2> QED
    BY <1>f, <2>1, <2>2 DEF NextFriend
<1>7. ASSUME Listed PROVE TypeOK'
  <2>1. CASE Failed /\ Return("error") /\ UNCHANGED todo
    <3>1. TransportTypeOK'
      BY <1>a, <1>e, <1>7, <2>1 DEF Listed, TransportTypeOK, Statuses
    <3> QED
      BY <1>a, <1>e, <1>7, <2>1, <3>1 DEF Listed, TypeOK, serviceVars, historyVars
  <2>2. CASE NextFriend
    BY <1>f, <1>7, <2>2 DEF Listed, TypeOK, serviceVars, historyVars
  <2> QED
    BY <1>7, <2>1, <2>2 DEF Listed
<1>8. ASSUME RemovedNext PROVE TypeOK'
  <2>1. /\ removed' \in SUBSET Others /\ failed' \in SUBSET Others
        /\ \A x \in Others : ~(x \in removed' /\ x \in failed')
        /\ \A x \in todo : x \notin removed' /\ x \notin failed'
    BY <1>8 DEF RemovedNext, Removal, TypeOK, Commands, Removals
  <2>2. NextFriend /\ UNCHANGED <<faults, bond, friends, ops, changes, undone, unclear, since>>
    BY <1>8 DEF RemovedNext, serviceVars, historyVars
  <2> QED
    BY <1>f, <2>1, <2>2
<1>9. ASSUME Dispatch PROVE TypeOK'
  <2>1. friends' \subseteq Others
    BY <1>9, DispatchEffect DEF Commands, TypeOK
  <2> QED
    BY <1>9, <2>1 DEF Dispatch, TypeOK, TransportTypeOK, transportVars, resultVars, historyVars
<1>10. ASSUME UNCHANGED vars PROVE TypeOK'
  BY <1>10 DEF vars, TypeOK, TransportTypeOK, transportVars, serviceVars, resultVars, historyVars
<1> QED
  BY <1>1, <1>2, <1>3, <1>4, <1>5, <1>6, <1>7, <1>8, <1>9, <1>10 DEF Next

\* Notifications are those of Notes, and a command has written what it should.
LEMMA CommandsStep ==
  ASSUME TypeOK, Commands, [Next]_vars
  PROVE  Commands'
<1> USE TransportAssumption, FriendsAssumption
<1>a. ASSUME NEW n \in Notes, mail' = Append(mail, n) PROVE mail' \in Seq(Notes)
  BY <1>a DEF Commands
<1>b. tx.at \in {"idle", "send", "flight", "got", "sleep"} /\ tx.attempt \in Nat
      /\ op \in [name : {"none", "add", "remove", "list"}, acct : Others \cup {Self}, bulk : BOOLEAN]
      /\ (op = NoOp <=> tx.at = "idle")
      /\ tx \in [at : {"idle", "send", "flight", "got", "sleep"}, attempt : 0 .. MaxRetries + 1,
                delay : Int, header : {tx.header}]
  BY DEF TypeOK, TransportTypeOK
<1>1. ASSUME NEW a \in Others, OtherActs(a) PROVE Commands'
  <2>1. PICK n \in Notes : mail' = Append(mail, n)
    BY <1>1, OtherActsCases
  <2> QED
    BY <1>1, <1>a, <2>1 DEF OtherActs, Commands, transportVars, NoOp
<1>2. ASSUME NEW a \in Others, AddFriend(a) \/ RemoveFriend(a) PROVE Commands'
  <2>1. PICK name \in {"add", "remove"} : Call(name, a, FALSE)
    BY <1>2 DEF AddFriend, RemoveFriend
  <2>2. op' = [name |-> name, acct |-> a, bulk |-> FALSE] /\ ret' = "none" /\ mail' = mail
    BY <2>1 DEF Call, serviceVars
  <2>3. ans' = "none" /\ tx'.at = "send"
    BY <2>1 DEF Call, Request, NoRequest
  <2> QED
    BY <2>2, <2>3 DEF Commands, NoOp
<1>3. ASSUME RemoveAllFriends PROVE Commands'
  <2>1. op' = [name |-> "list", acct |-> Self, bulk |-> TRUE] /\ ret' = "none" /\ mail' = mail
    BY <1>3 DEF RemoveAllFriends, Call, serviceVars
  <2>2. ans' = "none" /\ tx'.at = "send"
    BY <1>3 DEF RemoveAllFriends, Call, Request, NoRequest
  <2> QED
    BY <2>1, <2>2 DEF Commands, NoOp
<1>4. ASSUME Exchange, UNCHANGED Outside PROVE Commands'
  <2>1. UNCHANGED <<mail, op, ret>>
    BY <1>4 DEF Outside, serviceVars
  <2>2. /\ ans' = "ok" => tx'.at = "got"
        /\ tx'.at = "got" /\ ans' # "busy" => tx'.header = NoHeader
        /\ tx'.at = "sleep" => tx'.attempt <= MaxRetries
    <3>1. CASE Send
      BY <1>b, <3>1 DEF Send, Commands
    <3>2. CASE NotSent \/ SleepCut
      BY <1>b, <3>2 DEF NotSent, SleepCut, Answer
    <3>3. CASE Retry
      <4>1. tx'.at = "sleep" /\ tx'.attempt = tx.attempt /\ ans' = ans
        BY <1>b, <3>3 DEF Retry
      <4>2. tx.attempt <= MaxRetries /\ ans # "ok"
        BY <1>b, <3>3 DEF Retry, LastAttempt, Retriable
      <4> QED
        BY <4>1, <4>2
    <3>4. CASE Slept
      BY <1>b, <3>4 DEF Slept
    <3>5. CASE ContextEnds
      BY <3>5 DEF ContextEnds, Commands
    <3> QED
      BY <1>4, <3>1, <3>2, <3>3, <3>4, <3>5 DEF Exchange
  <2> QED
    BY <2>1, <2>2 DEF Commands, NoOp
<1>5. ASSUME Serve \/ ServedUnanswered \/ NotServed PROVE Commands'
  <2>1. tx'.at = "got" /\ (ans' # "busy" => tx'.header = NoHeader)
    BY <1>5, <1>b DEF Serve, ServedUnanswered, NotServed, Unanswered, Answer
  <2>2. mail' \in Seq(Notes)
    <3>1. CASE Effect
      <4>1. CASE UNCHANGED mail
        BY <4>1 DEF Commands
      <4>2. ASSUME NEW b \in Bonds, NEW n \in Notes, Becomes(op.acct, b, n) PROVE mail' \in Seq(Notes)
        BY <1>a, <4>2 DEF Becomes
      <4> QED
        BY <3>1, <4>1, <4>2, EffectCases
    <3>2. CASE Untouched
      BY <3>2 DEF Untouched, serviceVars, Commands
    <3> QED
      BY <1>5, <3>1, <3>2 DEF Serve, ServedUnanswered, NotServed
  <2>3. UNCHANGED <<op, ret>>
    BY <1>5 DEF Serve, ServedUnanswered, NotServed, Aside
  <2> QED
    BY <2>1, <2>2, <2>3 DEF Commands, NoOp
<1>6. ASSUME Answered PROVE Commands'
  BY <1>6 DEF Answered, Return, NoRequest, NoOp, serviceVars, Commands
<1>7. ASSUME Listed \/ RemovedNext PROVE Commands'
  <2>1. CASE \E r \in {"error", "cleared"} : Return(r)
    BY <1>7, <2>1 DEF Listed, RemovedNext, Return, NoRequest, NoOp, serviceVars, Commands
  <2>2. ASSUME NEW a \in todo, op' = [op EXCEPT !.name = "remove", !.acct = a],
               Request, UNCHANGED ret
        PROVE  Commands'
    BY <1>7, <1>b, <2>2 DEF Listed, RemovedNext, Returned, Request, NoRequest, NoOp, serviceVars,
                            Commands, TypeOK
  <2> QED
    BY <1>7, <2>1, <2>2 DEF Listed, RemovedNext, NextFriend
<1>8. ASSUME Dispatch PROVE Commands'
  <2>1. mail' \in Seq(Notes)
    BY <1>8 DEF Dispatch, Commands
  <2> QED
    BY <1>8, <2>1 DEF Dispatch, Commands, transportVars, NoOp
<1>9. ASSUME UNCHANGED vars PROVE Commands'
  BY <1>9 DEF vars, Commands, transportVars, serviceVars, NoOp
<1> QED
  BY <1>1, <1>2, <1>3, <1>4, <1>5, <1>6, <1>7, <1>8, <1>9 DEF Next

\* Of a removal that has been served the answer is known, or it counts as
\* unclear; the account it is about is off the list and not counted yet.
LEMMA RemovalsStep ==
  ASSUME TypeOK, Commands, Removals, Left, [Next]_vars
  PROVE  Removals'
<1>1. ASSUME NEW a \in Others, OtherActs(a) PROVE Removals'
  BY <1>1 DEF OtherActs, Removals, transportVars, resultVars
<1>2. ASSUME NEW a \in Others, AddFriend(a) \/ RemoveFriend(a) PROVE Removals'
  BY <1>2 DEF AddFriend, RemoveFriend, Call, Request, Removals
<1>3. ASSUME RemoveAllFriends PROVE Removals'
  BY <1>3 DEF RemoveAllFriends, Call, Removals
<1>4. ASSUME Exchange, UNCHANGED Outside PROVE Removals'
  <2>1. UNCHANGED <<op, todo, removed, failed, undone, unclear>>
    BY <1>4 DEF Outside, resultVars, historyVars
  <2>2. ans = "ok" <=> ans' = "ok"
    BY <1>4 DEF Exchange, Send, NotSent, Retry, Slept, SleepCut, ContextEnds, Answer, Commands, Retriable
  <2> QED
    BY <2>1, <2>2 DEF Removals
<1>5. ASSUME Serve \/ ServedUnanswered \/ NotServed PROVE Removals'
  <2>1. UNCHANGED <<op, removed, failed>> /\ ans # "ok"
    BY <1>5 DEF Serve, ServedUnanswered, NotServed, Aside, Commands
  <2>2. CASE Serve /\ Accepted /\ Effect /\ Answer("ok", NoHeader)
    BY <2>1, <2>2, EffectCases DEF Answer, Removals
  <2>3. CASE (Serve \/ NotServed) /\ Untouched /\ UNCHANGED unclear /\ ans' # "ok"
    BY <2>1, <2>3 DEF Untouched, Removals
  <2>4. CASE ServedUnanswered
    <3>1. ans' # "ok"
      BY <2>4 DEF ServedUnanswered, Unanswered, Answer
    <3> QED
      BY <2>1, <2>4, <3>1, EffectCases DEF ServedUnanswered, Removals
  <2>5. (Serve /\ ~(Accepted /\ Effect /\ Answer("ok", NoHeader))) \/ NotServed
          => Untouched /\ UNCHANGED unclear /\ ans' # "ok"
    BY DEF Serve, NotServed, Unanswered, Answer
  <2> QED
    BY <1>5, <2>2, <2>3, <2>4, <2>5
<1>6. ASSUME Answered PROVE Removals'
  BY <1>6 DEF Answered, Return, NoOp, Removals
<1>7. ASSUME NextFriend, UNCHANGED <<undone, unclear>>,
             \A x \in todo : x \notin removed' /\ x \notin failed' /\ x \notin undone
      PROVE  Removals'
  <2>1. CASE \E r \in {"error", "cleared"} : Return(r)
    BY <2>1 DEF Return, NoOp, Removals
  <2>2. ASSUME NEW a \in todo, todo' = todo \ {a}, op' = [op EXCEPT !.name = "remove", !.acct = a],
               Request
        PROVE  Removals'
    <3>1. op'.acct = a /\ ans' = "none"
      BY <2>2 DEF Request, TypeOK
    <3>2. a \notin undone' /\ a \notin todo' \cup removed' \cup failed'
          /\ \A x \in todo' : x \notin undone'
      BY <1>7, <2>2
    <3> QED
      BY <3>1, <3>2 DEF Removals
  <2> QED
    BY <1>7, <2>1, <2>2 DEF NextFriend
<1>8. ASSUME Listed PROVE Removals'
  <2>1. CASE Failed
    BY <1>8, <2>1 DEF Listed, Return, NoOp, Removals
  <2>2. CASE NextFriend
    <3>1. op.name = "list" /\ removed' = {} /\ failed' = {} /\ undone = {}
          /\ UNCHANGED <<undone, unclear>>
      BY <1>8 DEF Listed, Left, Returned, TypeOK, historyVars
    <3> QED
      BY <1>7, <2>2, <3>1
  <2> QED
    BY <1>8, <2>1, <2>2 DEF Listed
<1>9. ASSUME RemovedNext PROVE Removals'
  <2>1. \A x \in todo : x \notin removed' /\ x \notin failed' /\ x \notin undone
    BY <1>9 DEF RemovedNext, Removal, Removals, TypeOK
  <2>2. NextFriend /\ UNCHANGED <<undone, unclear>>
    BY <1>9 DEF RemovedNext, historyVars
  <2> QED
    BY <1>7, <2>1, <2>2
<1>10. ASSUME Dispatch PROVE Removals'
  BY <1>10 DEF Dispatch, Removals, transportVars, resultVars, historyVars
<1>11. ASSUME UNCHANGED vars PROVE Removals'
  BY <1>11 DEF vars, Removals, transportVars, resultVars, historyVars
<1> QED
  BY <1>1, <1>2, <1>3, <1>4, <1>5, <1>6, <1>8, <1>9, <1>10, <1>11 DEF Next

\* A removal that is over was done, or counts as failed.
LEMMA RemovalCounted ==
  ASSUME RemovedNext, Removals, Left
  PROVE  Befriended \subseteq todo \cup failed' \cup since
<1>1. CASE Failed
  BY <1>1 DEF RemovedNext, Removal, Left
<1>2. CASE ~Failed
  <2>1. op.acct \in undone
    BY <1>2 DEF RemovedNext, Failed, Removals
  <2> QED
    BY <1>2, <2>1 DEF RemovedNext, Removal, Left
<1> QED
  BY <1>1, <1>2

\* Of the friends who are left it is known why.
LEMMA LeftStep ==
  ASSUME TypeOK, Commands, Removals, Left, [Next]_vars
  PROVE  Left'
<1>a. ASSUME NEW a \in Others, NEW b \in Bonds, NEW n, Becomes(a, b, n)
      PROVE  /\ Befriended' = IF b = "friend" THEN Befriended \cup {a} ELSE Befriended \ {a}
             /\ since' = IF b = "friend" THEN since \cup {a} ELSE since
  BY <1>a DEF Becomes, Befriended, TypeOK
<1>b. op \in [name : {"none", "add", "remove", "list"}, acct : Others \cup {Self}, bulk : BOOLEAN]
      /\ (op = NoOp <=> tx.at = "idle")
  BY DEF TypeOK
<1>1. ASSUME NEW a \in Others, OtherActs(a) PROVE Left'
  <2>1. PICK b \in Bonds, n \in Notes : Becomes(a, b, n)
    BY <1>1, OtherActsCases
  <2>2. UNCHANGED <<op, ans, todo, removed, failed, undone>>
    BY <1>1 DEF OtherActs, transportVars, resultVars
  <2>3. \A x : x \in Befriended' => x \in Befriended \/ x \in since'
    BY <1>a, <2>1
  <2>4. since \subseteq since'
    BY <1>a, <2>1
  <2> QED
    BY <2>2, <2>3, <2>4 DEF Left
<1>2. ASSUME NEW name \in {"add", "remove", "list"}, NEW a, NEW b, Call(name, a, b),
             name = "remove" => b = FALSE
      PROVE  Left'
  <2>1. op' = [name |-> name, acct |-> a, bulk |-> b] /\ ans' = "none"
        /\ removed' = {} /\ failed' = {} /\ undone' = {}
    BY <1>2 DEF Call, Request
  <2> QED
    BY <1>2, <2>1 DEF Left
<1>3. ASSUME NEW a \in Others, AddFriend(a) \/ RemoveFriend(a) PROVE Left'
  BY <1>2, <1>3 DEF AddFriend, RemoveFriend
<1>4. ASSUME RemoveAllFriends PROVE Left'
  BY <1>2, <1>4 DEF RemoveAllFriends
<1>5. ASSUME Exchange, UNCHANGED Outside PROVE Left'
  <2>1. UNCHANGED <<bond, op, todo, removed, failed, undone, since>>
    BY <1>5 DEF Outside, serviceVars, resultVars, historyVars
  <2>2. ans' = "ok" => ans = "ok"
    BY <1>5 DEF Exchange, Send, NotSent, Retry, Slept, SleepCut, ContextEnds, Answer
  <2> QED
    BY <2>1, <2>2 DEF Left, Befriended
<1>6. ASSUME Serve \/ ServedUnanswered \/ NotServed PROVE Left'
  <2>1. UNCHANGED <<op, removed, failed>> /\ op # NoOp
    BY <1>6, <1>b DEF Serve, ServedUnanswered, NotServed, Aside
  <2>2. CASE Effect
    <3>1. CASE op.name = "list" /\ todo' = Befriended /\ UNCHANGED <<bond, undone>>
      BY <2>1, <3>1 DEF Left, Befriended
    <3>2. ASSUME op.name \in {"add", "remove"}, op.acct \in Others, UNCHANGED todo,
                 undone' = IF op.name = "remove" THEN undone \cup {op.acct} ELSE undone,
                 NEW b \in Bonds, NEW n \in Notes, Becomes(op.acct, b, n),
                 op.name = "remove" => b = "none"
          PROVE  Left'
      <4>1. \A x : x \in Befriended' => x \in Befriended \/ x \in since'
        BY <1>a, <3>2
      <4>2. since \subseteq since'
        BY <1>a, <3>2
      <4>3. op.name = "remove" => op.acct \notin Befriended'
        BY <1>a, <3>2
      <4> QED
        BY <2>1, <3>2, <4>1, <4>2, <4>3 DEF Left
    <3> QED
      BY <2>2, <3>1, <3>2, EffectCases
  <2>3. CASE Untouched /\ (op.name = "list" => ans' # "ok")
    BY <2>1, <2>3 DEF Untouched, serviceVars, Left, Befriended
  <2>4. Effect \/ (Untouched /\ (op.name = "list" => ans' # "ok"))
    BY <1>6 DEF Serve, ServedUnanswered, NotServed, Unanswered, Answer, Accepted
  <2> QED
    BY <2>2, <2>3, <2>4
<1>7. ASSUME Answered PROVE Left'
  BY <1>7 DEF Answered, Return, NoOp, Left, Befriended, serviceVars, historyVars
<1>8. ASSUME NextFriend, UNCHANGED <<bond, undone, since>>, op.bulk,
             Befriended \subseteq todo \cup failed' \cup since
      PROVE  Left'
  <2>1. CASE \E r \in {"error", "cleared"} : Return(r)
    BY <1>8, <2>1 DEF Return, NoOp, Left, Befriended
  <2>2. ASSUME NEW a \in todo, todo' = todo \ {a}, op' = [op EXCEPT !.name = "remove", !.acct = a]
        PROVE  Left'
    <3>1. op'.acct = a /\ op'.name = "remove" /\ op'.bulk
      BY <1>8, <1>b, <2>2
    <3>2. Befriended' = Befriended
      BY <1>8 DEF Befriended
    <3> QED
      BY <1>8, <2>2, <3>1, <3>2 DEF Left
  <2> QED
    BY <1>8, <2>1, <2>2 DEF NextFriend
<1>9. ASSUME Listed PROVE Left'
  <2>1. CASE Failed /\ Return("error")
    BY <1>9, <2>1 DEF Listed, Return, NoOp, Left, Befriended, serviceVars, historyVars
  <2>2. CASE ~Failed /\ NextFriend
    <3>1. Befriended \subseteq todo \cup failed' \cup since /\ op.bulk
          /\ UNCHANGED <<bond, undone, since>>
      BY <1>9, <2>2 DEF Listed, Failed, Left, Commands, serviceVars, historyVars
    <3> QED
      BY <1>8, <2>2, <3>1
  <2> QED
    BY <1>9, <2>1, <2>2 DEF Listed
<1>10. ASSUME RemovedNext PROVE Left'
  <2>1. Befriended \subseteq todo \cup failed' \cup since
    BY <1>10, RemovalCounted
  <2>2. NextFriend /\ op.bulk /\ UNCHANGED <<bond, undone, since>>
    BY <1>10 DEF RemovedNext, serviceVars, historyVars
  <2> QED
    BY <1>8, <2>1, <2>2
<1>11. ASSUME Dispatch PROVE Left'
  BY <1>11 DEF Dispatch, Left, Befriended, transportVars, resultVars, historyVars
<1>12. ASSUME UNCHANGED vars PROVE Left'
  BY <1>12 DEF vars, Left, Befriended, transportVars, serviceVars, resultVars, historyVars
<1> QED
  BY <1>1, <1>3, <1>4, <1>5, <1>6, <1>7, <1>9, <1>10, <1>11, <1>12 DEF Next

\* What RemoveAllFriends reports stays true.
LEMMA BulkStep ==
  ASSUME TypeOK, Commands, Removals, Left, BulkRemovalTrue, [Next]_vars
  PROVE  BulkRemovalTrue'
<1>b. op = NoOp <=> tx.at = "idle"
  BY DEF TypeOK
<1>1. ASSUME NEW a \in Others, OtherActs(a) PROVE BulkRemovalTrue'
  <2>1. PICK b \in Bonds, n \in Notes : Becomes(a, b, n)
    BY <1>1, OtherActsCases
  <2>2. UNCHANGED <<ret, removed, failed, undone, unclear>>
    BY <1>1 DEF OtherActs, resultVars
  <2>3. \A x : x \in Befriended' => x \in Befriended \/ x \in since'
    BY <2>1 DEF Becomes, Befriended, TypeOK
  <2>4. since \subseteq since'
    BY <2>1 DEF Becomes
  <2> QED
    BY <2>2, <2>3, <2>4 DEF BulkRemovalTrue
<1>2. ASSUME NEW a \in Others, AddFriend(a) \/ RemoveFriend(a) PROVE BulkRemovalTrue'
  BY <1>2 DEF AddFriend, RemoveFriend, Call, BulkRemovalTrue
<1>3. ASSUME RemoveAllFriends PROVE BulkRemovalTrue'
  BY <1>3 DEF RemoveAllFriends, Call, BulkRemovalTrue
<1>4. ASSUME Exchange, UNCHANGED Outside PROVE BulkRemovalTrue'
  BY <1>4 DEF Outside, serviceVars, resultVars, historyVars, BulkRemovalTrue, Befriended
<1>5. ASSUME Serve \/ ServedUnanswered \/ NotServed PROVE BulkRemovalTrue'
  <2>1. UNCHANGED <<ret, removed, failed>> /\ ret = "none"
    BY <1>5, <1>b DEF Serve, ServedUnanswered, NotServed, Aside, Commands
  <2>2. unclear \subseteq unclear'
    BY <1>5 DEF Serve, ServedUnanswered, NotServed
  <2>3. \/ undone' = undone
        \/ undone' = undone \cup {op.acct} /\ op.name = "remove"
    BY <1>5, EffectCases DEF Serve, ServedUnanswered, NotServed, Untouched
  <2> QED
    BY <2>1, <2>2, <2>3 DEF BulkRemovalTrue, Removals
<1>6. ASSUME Answered PROVE BulkRemovalTrue'
  BY <1>6 DEF Answered, Return, resultVars, serviceVars, historyVars, BulkRemovalTrue
<1>7. ASSUME NextFriend, op # NoOp, UNCHANGED <<bond, undone, unclear, since>>,
             Befriended \subseteq todo \cup failed' \cup since,
             removed' \subseteq undone, failed' \cap undone \subseteq unclear
      PROVE  BulkRemovalTrue'
  <2>1. ret' = "cleared" => todo = {}
    BY <1>7 DEF NextFriend, Return, Commands
  <2>2. Befriended' = Befriended
    BY <1>7 DEF Befriended
  <2> QED
    BY <1>7, <2>1, <2>2 DEF BulkRemovalTrue
<1>8. ASSUME Listed PROVE BulkRemovalTrue'
  <2>1. UNCHANGED <<bond, removed, failed, undone, unclear, since>> /\ op # NoOp
    BY <1>8 DEF Listed, serviceVars, historyVars, NoOp
  <2>2. CASE Failed /\ Return("error")
    BY <2>1, <2>2 DEF Return, BulkRemovalTrue, Befriended
  <2>3. CASE ~Failed /\ NextFriend
    <3>1. Befriended \subseteq todo \cup failed' \cup since
      BY <1>8, <2>3 DEF Listed, Failed, Left
    <3> QED
      BY <1>7, <2>1, <2>3, <3>1 DEF BulkRemovalTrue
  <2> QED
    BY <1>8, <2>2, <2>3 DEF Listed
<1>9. ASSUME RemovedNext PROVE BulkRemovalTrue'
  <2>1. UNCHANGED <<bond, undone, unclear, since>> /\ op # NoOp /\ NextFriend
    BY <1>9 DEF RemovedNext, serviceVars, historyVars, NoOp
  <2>2. Befriended \subseteq todo \cup failed' \cup since
    BY <1>9, RemovalCounted
  <2>3. removed' \subseteq undone
    BY <1>9 DEF RemovedNext, Removal, Failed, Removals, BulkRemovalTrue
  <2>4. failed' \cap undone \subseteq unclear
    BY <1>9 DEF RemovedNext, Removal, Failed, Removals, BulkRemovalTrue
  <2> QED
    BY <1>7, <2>1, <2>2, <2>3, <2>4
<1>10. ASSUME Dispatch PROVE BulkRemovalTrue'
  BY <1>10 DEF Dispatch, BulkRemovalTrue, Befriended, resultVars, historyVars
<1>11. ASSUME UNCHANGED vars PROVE BulkRemovalTrue'
  BY <1>11 DEF vars, BulkRemovalTrue, Befriended, serviceVars, resultVars, historyVars
<1> QED
  BY <1>1, <1>2, <1>3, <1>4, <1>5, <1>6, <1>8, <1>9, <1>10, <1>11 DEF Next

\* A notification more: it says what has become of a, or nothing has.
LEMMA FollowsAppend ==
  ASSUME mail \in Seq(Notes), NEW n \in Notes, mail' = Append(mail, n), friends' = friends,
         NEW a \in Others, Follows(a),
         IF Touches(n, a) THEN Makes(n, a) <=> bond'[a] = "friend"
                          ELSE bond'[a] = "friend" <=> bond[a] = "friend"
  PROVE  Follows(a)'
<1>1. /\ Len(mail) \in Nat /\ Len(mail') = Len(mail) + 1
      /\ mail'[Len(mail) + 1] = n /\ \A i \in 1 .. Len(mail) : mail'[i] = mail[i]
  OBVIOUS
<1>2. CASE Touches(n, a)
  <2>1. ASSUME NEW i \in 1 .. Len(mail'), \A j \in i + 1 .. Len(mail') : ~Touches(mail'[j], a)
        PROVE  i = Len(mail) + 1
    BY <1>1, <1>2, <2>1
  <2> QED
    BY <1>1, <1>2, <2>1 DEF Follows
<1>3. CASE ~Touches(n, a)
  <2>1. ASSUME NEW i \in 1 .. Len(mail'), Touches(mail'[i], a),
               \A j \in i + 1 .. Len(mail') : ~Touches(mail'[j], a)
        PROVE  Makes(mail'[i], a) <=> bond'[a] = "friend"
    <3>1. i \in 1 .. Len(mail) /\ mail'[i] = mail[i]
      BY <1>1, <1>3, <2>1
    <3>2. \A j \in i + 1 .. Len(mail) : ~Touches(mail[j], a)
      BY <1>1, <2>1, <3>1
    <3> QED
      BY <1>3, <2>1, <3>1, <3>2 DEF Follows
  <2>2. ASSUME \A i \in 1 .. Len(mail') : ~Touches(mail'[i], a)
        PROVE  a \in friends' <=> bond'[a] = "friend"
    BY <1>1, <1>3, <2>2 DEF Follows
  <2> QED
    BY <2>1, <2>2 DEF Follows
<1> QED
  BY <1>2, <1>3

\* A notification less: it has been followed.
LEMMA FollowsTail ==
  ASSUME mail \in Seq(Notes), mail # <<>>, mail' = Tail(mail), bond' = bond,
         NEW a \in Others, Follows(a),
         a \in friends' <=> Makes(Head(mail), a) \/ (a \in friends /\ ~Breaks(Head(mail), a))
  PROVE  Follows(a)'
<1>1. /\ Len(mail) \in Nat \ {0} /\ Len(mail') = Len(mail) - 1 /\ Head(mail) = mail[1]
      /\ \A i \in 1 .. Len(mail') : mail'[i] = mail[i + 1]
  OBVIOUS
<1>a. \A j \in 2 .. Len(mail) : j - 1 \in 1 .. Len(mail') /\ mail[j] = mail'[j - 1]
  BY <1>1
<1>2. ASSUME NEW i \in 1 .. Len(mail'), Touches(mail'[i], a),
             \A j \in i + 1 .. Len(mail') : ~Touches(mail'[j], a)
      PROVE  Makes(mail'[i], a) <=> bond'[a] = "friend"
  <2>1. i + 1 \in 1 .. Len(mail) /\ mail[i + 1] = mail'[i]
    BY <1>1
  <2>2. ASSUME NEW j \in (i + 1) + 1 .. Len(mail) PROVE ~Touches(mail[j], a)
    <3>1. j \in 2 .. Len(mail) /\ j - 1 \in i + 1 .. Len(mail')
      BY <1>1
    <3> QED
      BY <1>a, <1>2, <3>1
  <2> QED
    BY <1>2, <2>1, <2>2 DEF Follows
<1>3. ASSUME \A i \in 1 .. Len(mail') : ~Touches(mail'[i], a)
      PROVE  a \in friends' <=> bond'[a] = "friend"
  <2>1. \A j \in 2 .. Len(mail) : ~Touches(mail[j], a)
    BY <1>a, <1>3
  <2>2. CASE Touches(mail[1], a)
    <3>1. Makes(mail[1], a) <=> bond[a] = "friend"
      BY <1>1, <2>1, <2>2 DEF Follows
    <3> QED
      BY <1>1, <2>2, <3>1 DEF Touches
  <2>3. CASE ~Touches(mail[1], a)
    <3>1. \A i \in 1 .. Len(mail) : ~Touches(mail[i], a)
      BY <1>1, <2>1, <2>3
    <3>2. a \in friends <=> bond[a] = "friend"
      BY <3>1 DEF Follows
    <3> QED
      BY <1>1, <2>3, <3>2 DEF Touches
  <2> QED
    BY <2>2, <2>3
<1> QED
  BY <1>2, <1>3 DEF Follows

\* The notifications under way lead the application to what the service has.
LEMMA FollowStep ==
  ASSUME TypeOK, Commands, Following, [Next]_vars
  PROVE  Following'
<1>a. ASSUME UNCHANGED <<bond, mail, friends>> PROVE Following'
  BY <1>a DEF Following, Follows
<1>b. ASSUME NEW c \in Others, NEW b \in Bonds, NEW n \in Notes, Becomes(c, b, n), friends' = friends,
             Touches(n, c) <=> (b = "friend" \/ bond[c] = "friend"),
             \A a \in Others \ {c} : ~Touches(n, a),
             Makes(n, c) <=> b = "friend"
      PROVE  Following'
  <2> SUFFICES ASSUME NEW a \in Others PROVE Follows(a)'
    BY DEF Following
  <2>1. bond'[a] = IF a = c THEN b ELSE bond[a]
    BY <1>b DEF Becomes, TypeOK
  <2>2. mail' = Append(mail, n) /\ mail \in Seq(Notes) /\ Follows(a)
    BY <1>b DEF Becomes, Commands, Following
  <2>3. IF Touches(n, a) THEN Makes(n, a) <=> bond'[a] = "friend"
                         ELSE bond'[a] = "friend" <=> bond[a] = "friend"
    BY <1>b, <2>1
  <2> QED
    BY <1>b, <2>2, <2>3, FollowsAppend
<1>1. ASSUME NEW a \in Others, OtherActs(a) PROVE Following'
  <2>1. friends' = friends
    BY <1>1 DEF OtherActs
  <2> QED
    BY <1>1, <1>b, <2>1, OtherActsCases
<1>2. ASSUME Serve \/ ServedUnanswered \/ NotServed PROVE Following'
  <2>1. friends' = friends
    BY <1>2 DEF Serve, ServedUnanswered, NotServed, Aside
  <2>2. CASE Effect
    <3>1. CASE UNCHANGED <<bond, mail>>
      BY <1>a, <2>1, <3>1
    <3>2. CASE op.acct \in Others /\ \E b \in Bonds, n \in Notes :
                 /\ Becomes(op.acct, b, n)
                 /\ Touches(n, op.acct) <=> (b = "friend" \/ bond[op.acct] = "friend")
                 /\ \A a \in Others \ {op.acct} : ~Touches(n, a)
                 /\ Makes(n, op.acct) <=> b = "friend"
      BY <1>b, <2>1, <3>2
    <3> QED
      BY <2>2, <3>1, <3>2, EffectCases
  <2>3. CASE Untouched
    BY <1>a, <2>1, <2>3 DEF Untouched, serviceVars
  <2> QED
    BY <1>2, <2>2, <2>3 DEF Serve, ServedUnanswered, NotServed
<1>3. ASSUME Dispatch PROVE Following'
  <2> SUFFICES ASSUME NEW a \in Others PROVE Follows(a)'
    BY DEF Following
  <2>1. /\ mail \in Seq(Notes) /\ friends \subseteq Others /\ Follows(a)
        /\ mail' = Tail(mail) /\ bond' = bond
    BY <1>3 DEF Commands, TypeOK, Following, Dispatch
  <2>2. /\ mail # <<>>
        /\ a \in friends' <=> Makes(Head(mail), a) \/ (a \in friends /\ ~Breaks(Head(mail), a))
    BY <1>3, <2>1, DispatchEffect
  <2> QED
    BY <2>1, <2>2, FollowsTail
<1>4. ASSUME \/ \E a \in Others : AddFriend(a) \/ RemoveFriend(a)
             \/ RemoveAllFriends \/ (Exchange /\ UNCHANGED Outside)
             \/ Answered \/ Listed \/ RemovedNext \/ UNCHANGED vars
      PROVE  Following'
  <2>1. UNCHANGED <<bond, mail, friends>>
    BY <1>4 DEF AddFriend, RemoveFriend, RemoveAllFriends, Call, Outside, Answered, Listed, RemovedNext,
                vars, serviceVars
  <2> QED
    BY <1>a, <2>1
<1> QED
  BY <1>1, <1>2, <1>3, <1>4 DEF Next

\* Whoever sleeps before a repetition sleeps as long as he should.
LEMMA PacedStep ==
  ASSUME TypeOK, Commands, RetriesArePaced, [Next]_vars
  PROVE  RetriesArePaced'
<1>1. CASE tx' = tx
  BY <1>1 DEF RetriesArePaced
<1>2. CASE tx'.at # "sleep"
  BY <1>2 DEF RetriesArePaced
<1>3. CASE Retry
  <2>1. tx'.at = "sleep" /\ tx'.delay = Delay /\ tx'.header = tx.header
    BY <1>3 DEF Retry, TypeOK, TransportTypeOK
  <2>2. tx.at = "got" /\ (ans = "busy" \/ tx.header = NoHeader) /\ TransportTypeOK
    BY <1>3 DEF Retry, Commands, TypeOK
  <2> QED
    BY <2>1, <2>2, DelayIsPaced DEF RetriesArePaced
<1>4. ASSUME Next PROVE tx' = tx \/ tx'.at # "sleep" \/ Retry
  <2>a. tx \in [at : {"idle", "send", "flight", "got", "sleep"}, attempt : 0 .. MaxRetries + 1,
                delay : Int, header : {tx.header}]
    BY DEF TypeOK, TransportTypeOK
  <2>1. Request \/ tx' = NoRequest => tx'.at # "sleep"
    <3>1. Request => tx'.at = "send"
      BY DEF Request, NoRequest
    <3>2. tx' = NoRequest => tx'.at = "idle"
      BY DEF NoRequest
    <3> QED
      BY <3>1, <3>2
  <2>2. ASSUME NEW o, NEW h, Answer(o, h) PROVE tx'.at # "sleep"
    BY <2>2, <2>a DEF Answer
  <2>3. ASSUME NEW a \in Others, OtherActs(a) \/ AddFriend(a) \/ RemoveFriend(a)
        PROVE  tx' = tx \/ tx'.at # "sleep"
    BY <2>1, <2>3 DEF OtherActs, AddFriend, RemoveFriend, Call, transportVars
  <2>4. ASSUME RemoveAllFriends PROVE tx'.at # "sleep"
    BY <2>1, <2>4 DEF RemoveAllFriends, Call
  <2>5. ASSUME Exchange PROVE tx' = tx \/ tx'.at # "sleep" \/ Retry
    BY <2>2, <2>5, <2>a DEF Exchange, Send, NotSent, Slept, SleepCut, ContextEnds
  <2>6. ASSUME Serve \/ ServedUnanswered \/ NotServed PROVE tx'.at # "sleep"
    BY <2>2, <2>6 DEF Serve, ServedUnanswered, NotServed, Unanswered
  <2>7. ASSUME Answered \/ Listed \/ RemovedNext PROVE tx'.at # "sleep"
    BY <2>1, <2>7 DEF Answered, Listed, RemovedNext, NextFriend, Return
  <2>8. ASSUME Dispatch PROVE tx' = tx
    BY <2>8 DEF Dispatch, transportVars
  <2> QED
    BY <1>4, <2>3, <2>4, <2>5, <2>6, <2>7, <2>8 DEF Next
<1> QED
  BY <1>1, <1>2, <1>3, <1>4 DEF vars, transportVars

-----------------------------------------------------------------------------
(* The theorems *)

LEMMA FriendsInitially == Init => FriendsInv
<1> SUFFICES ASSUME Init PROVE FriendsInv
  OBVIOUS
<1> USE TransportAssumption, FriendsAssumption
<1>1. tx = NoRequest /\ ans = "none" /\ ended = FALSE /\ faults = 0 /\ op = NoOp /\ mail = <<>>
  BY DEF Init, TransportInit
<1>2. TransportTypeOK
  <2>1. tx = [at |-> "idle", attempt |-> 0, delay |-> 0, header |-> NoHeader]
    BY <1>1 DEF NoRequest
  <2>2. MaxRetries + 1 \in Nat /\ IsHeader(tx.header)
    BY <2>1, NoHeaderIsHeader
  <2>3. tx \in [at : {"idle", "send", "flight", "got", "sleep"}, attempt : 0 .. MaxRetries + 1,
               delay : Int, header : {tx.header}]
    BY <2>1, <2>2
  <2>4. ans \in Statuses /\ ended \in BOOLEAN
    BY <1>1 DEF Statuses
  <2>5. faults \in 0 .. MaxFaults
    BY <1>1
  <2> QED
    BY <2>2, <2>3, <2>4, <2>5 DEF TransportTypeOK
<1>3. Befriended \subseteq Others
  BY DEF Befriended
<1>4. TypeOK
  BY <1>1, <1>2, <1>3 DEF Init, TypeOK, NoOp, NoRequest, Bonds
<1>5. Commands /\ Removals
  BY <1>1 DEF Commands, Removals, NoOp, NoRequest
<1>6. Left
  BY <1>1 DEF Init, Left, NoOp
<1>7. BulkRemovalTrue /\ RetriesArePaced
  BY <1>1 DEF Init, BulkRemovalTrue, RetriesArePaced, NoRequest
<1>8. Following
  BY DEF Init, Following, Follows, Befriended
<1> QED
  BY <1>4, <1>5, <1>6, <1>7, <1>8 DEF FriendsInv

\* The invariant holds of every state: each action of a command, of the
\* service, of another account and of the application keeps it.
THEOREM FriendsInvariant == Spec => []FriendsInv
<1>1. FriendsInv /\ [Next]_vars => FriendsInv'
  BY TypeStep, CommandsStep, RemovalsStep, LeftStep, BulkStep, FollowStep, PacedStep DEF FriendsInv
<1> QED
  BY <1>1, FriendsInitially, PTL DEF Spec

\* The state is of its types, what is to be removed and what has been tried do
\* not overlap, and a request is under way exactly while a command runs
\* (friends/commands.go, transport/http/client.go Request).
THEOREM TypeCorrect == Spec => []TypeOK
<1>1. FriendsInv => TypeOK
  BY DEF FriendsInv
<1> QED
  BY <1>1, FriendsInvariant, PTL

\* A request is sent again after the time the service asked for, or after one
\* within the limits of the configuration, wherever doubling wraps around
\* (transport/http/client.go Request, retryAfterDelay; backoff.go Exponential).
THEOREM RetriesPaced == Spec => []RetriesArePaced
<1>1. FriendsInv => RetriesArePaced
  BY DEF FriendsInv
<1> QED
  BY <1>1, FriendsInvariant, PTL

\* RemoveAllFriends that returns no error leaves no listed friend but those it
\* reports as failed, and its result tells the truth, whatever fails on the way
\* (commands.go RemoveAllFriends).
THEOREM BulkRemoval == Spec => []BulkRemovalTrue
<1>1. FriendsInv => BulkRemovalTrue
  BY DEF FriendsInv
<1> QED
  BY <1>1, FriendsInvariant, PTL

\* With every notification handled, the friends an application has made of the
\* events are those of the service (xmpp_decoder.go DispatchStanza).
THEOREM EventsFollow == Spec => []FriendsFollow
<1>1. FriendsInv => FriendsFollow
  <2> SUFFICES ASSUME FriendsInv, mail = <<>> PROVE friends = Befriended
    BY DEF FriendsFollow
  <2>1. \A a \in Others : a \in friends <=> bond[a] = "friend"
    BY DEF FriendsInv, Following, Follows
  <2> QED
    BY <2>1 DEF FriendsInv, TypeOK, Befriended
<1> QED
  BY <1>1, FriendsInvariant, PTL
=============================================================================
