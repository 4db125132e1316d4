------------------------------ MODULE Friends ------------------------------
(***************************************************************************)
(* friends.Commands (src/friends/commands.go) over the HTTP transport, the *)
(* friends service, and friends.XMPPDecoder (src/friends/xmpp_decoder.go). *)
(* One command runs at a time; the other accounts act whenever they like.  *)
(*                                                                         *)
(* `friends' is what an application makes of the events: it adds on        *)
(* FriendAdded and removes on FriendRemoved.  `undone', `unclear' and      *)
(* `since' are history of the running command.                             *)
(*                                                                         *)
(* An operator X_Bug is X with a bug somebody could have written; no       *)
(* action uses it.  PROJECT.json says which property rejects it.           *)
(***************************************************************************)
EXTENDS Transport, FiniteSets

CONSTANTS Others,      \* the other accounts
          Self,        \* this account
          MaxOps,      \* bound: commands
          MaxChanges   \* bound: what the other accounts do

ASSUME FriendsAssumption == Self \notin Others /\ MaxOps \in Nat /\ MaxChanges \in Nat

VARIABLES bond,     \* bond[a]: what the service has about this account and a
          mail,     \* notifications on their way
          friends,  \* what the events make of it
          op,       \* the running command
          todo,     \* RemoveAllFriends: listed, and not tried yet
          removed, failed, \* its BulkRemoveResult
          ret, ops, changes,
          undone,   \* history: accounts this command really removed
          unclear,  \* history: those whose removal was not answered
          since     \* history: friends made since the list was read

serviceVars == <<bond, mail>>
resultVars == <<todo, removed, failed>>
historyVars == <<undone, unclear, since>>
vars == <<transportVars, serviceVars, friends, op, resultVars, ret, ops, changes, historyVars>>

Bonds == {"none", "incoming", "outgoing", "friend"}
Befriended == {a \in Others : bond[a] = "friend"}
NoOp == [name |-> "none", acct |-> Self, bulk |-> FALSE]

Init ==
  /\ TransportInit
  /\ bond \in [Others -> {"none", "friend"}]
  /\ mail = <<>> /\ friends = Befriended
  /\ op = NoOp /\ todo = {} /\ removed = {} /\ failed = {}
  /\ ret = "none" /\ ops = 0 /\ changes = 0
  /\ undone = {} /\ unclear = {} /\ since = {}

-----------------------------------------------------------------------------
(* The service *)

Friend(status, dir, a) == [type |-> "friend", status |-> status, dir |-> dir, acct |-> a]
Remove(reason, from, to) == [type |-> "remove", reason |-> reason, from |-> from, to |-> to]

\* bond[a] becomes b, and this account is notified.
Becomes(a, b, note) ==
  /\ bond' = [bond EXCEPT ![a] = b]
  /\ mail' = Append(mail, note)
  /\ since' = IF b = "friend" THEN since \cup {a} ELSE since

\* Taking back: a friendship, a request received, a request sent.
Reason(b, theirs) ==
  CASE b = "friend" -> "DELETED"
    [] b = "incoming" -> IF theirs THEN "ABORTED" ELSE "REJECTED"
    [] b = "outgoing" -> IF theirs THEN "REJECTED" ELSE "ABORTED"

OtherActs(a) ==
  /\ changes < MaxChanges /\ changes' = changes + 1
  /\ \/ bond[a] = "none" /\ Becomes(a, "incoming", Friend("PENDING", "INBOUND", a))
     \/ bond[a] = "outgoing" /\ Becomes(a, "friend", Friend("ACCEPTED", "OUTBOUND", a))
     \/ bond[a] # "none" /\ Becomes(a, "none", Remove(Reason(bond[a], TRUE), a, Self))
  /\ UNCHANGED <<transportVars, friends, op, resultVars, ret, ops, undone, unclear>>

-----------------------------------------------------------------------------
(* One exchange with the service *)

Accepted ==
  CASE op.name = "add" -> bond[op.acct] \in {"none", "incoming"}
    [] op.name = "remove" -> bond[op.acct] # "none"
    [] op.name = "list" -> TRUE

\* What an accepted request does.
Effect ==
  LET a == op.acct IN
  \/ /\ op.name = "add" /\ bond[a] = "none"
     /\ Becomes(a, "outgoing", Friend("PENDING", "OUTBOUND", a))
     /\ UNCHANGED <<todo, undone>>
  \/ /\ op.name = "add" /\ bond[a] = "incoming"
     /\ Becomes(a, "friend", Friend("ACCEPTED", "INBOUND", a))
     /\ UNCHANGED <<todo, undone>>
  \/ /\ op.name = "remove" /\ bond[a] # "none"
     /\ Becomes(a, "none", Remove(Reason(bond[a], FALSE), Self, a))
     /\ undone' = undone \cup {a}
     /\ UNCHANGED todo
  \/ /\ op.name = "list"
     /\ todo' = Befriended /\ since' = {}
     /\ UNCHANGED <<bond, mail, undone>>

Untouched == UNCHANGED <<serviceVars, todo, undone, since>>
Aside == UNCHANGED <<friends, op, removed, failed, ret, ops, changes>>

Serve ==
  /\ tx.at = "flight"
  /\ \/ Accepted /\ Effect /\ Answer("ok", NoHeader)
     \/ ~Accepted /\ Untouched /\ Answer("refused", NoHeader)
  /\ UNCHANGED <<ended, faults, unclear>> /\ Aside

\* No answer to the request comes of it: the exchange is cut at the end of the
\* context, or it breaks, or the service is down or too busy.
Unanswered ==
  \/ ended /\ UNCHANGED faults /\ Answer("broken", NoHeader)
  \/ Fault /\ \E s \in {"broken", "down"} : Answer(s, NoHeader)

\* It has been served all the same.
ServedUnanswered ==
  /\ tx.at = "flight" /\ op.name # "list"
  /\ Accepted /\ Effect /\ Unanswered
  /\ unclear' = IF op.name = "remove" THEN unclear \cup {op.acct} ELSE unclear
  /\ UNCHANGED ended /\ Aside

NotServed ==
  /\ tx.at = "flight"
  /\ Untouched
  /\ Unanswered \/ (Fault /\ \E h \in RetryAfters : Answer("busy", h))
  /\ UNCHANGED <<ended, unclear>> /\ Aside

-----------------------------------------------------------------------------
(* The commands *)

\* A call begins with a context of its own.
Call(name, a, bulk) ==
  /\ op = NoOp /\ ops < MaxOps /\ ops' = ops + 1
  /\ op' = [name |-> name, acct |-> a, bulk |-> bulk]
  /\ Request
  /\ todo' = {} /\ removed' = {} /\ failed' = {} /\ ret' = "none"
  /\ undone' = {} /\ unclear' = {} /\ since' = {}
  /\ UNCHANGED <<ended, faults, serviceVars, friends, changes>>

AddFriend(a) == Call("add", a, FALSE)
\* Also CancelOutgoingFriendRequest and DeclineIncomingFriendRequest.
RemoveFriend(a) == Call("remove", a, FALSE)
RemoveAllFriends == Call("list", Self, TRUE)

Return(result) ==
  /\ tx' = NoRequest /\ ans' = "none" /\ ended' = FALSE
  /\ op' = NoOp /\ ret' = result

\* The answer to a command of one request.
Answered ==
  /\ Returned /\ ~op.bulk
  /\ Return(IF Failed THEN "error" ELSE "ok")
  /\ UNCHANGED <<faults, serviceVars, friends, resultVars, ops, changes, historyVars>>

\* RemoveAllFriends that leaves the loop at the end of the context.
NextFriend_Bug ==
  \/ (todo = {} \/ ended) /\ Return("cleared") /\ UNCHANGED todo
  \/ /\ ~ended
     /\ \E a \in todo : todo' = todo \ {a} /\ op' = [op EXCEPT !.name = "remove", !.acct = a]
     /\ Request /\ UNCHANGED <<ended, ret>>

\* The head of the loop of RemoveAllFriends; the list comes in any order.
NextFriend ==
  \/ todo = {} /\ Return("cleared") /\ UNCHANGED todo
  \/ todo # {} /\ ended /\ Return("error") /\ UNCHANGED todo
  \/ /\ ~ended
     /\ \E a \in todo : todo' = todo \ {a} /\ op' = [op EXCEPT !.name = "remove", !.acct = a]
     /\ Request /\ UNCHANGED <<ended, ret>>

\* RemoveAllFriends: the list has come, or not.
Listed ==
  /\ Returned /\ op.name = "list"
  /\ IF Failed THEN Return("error") /\ UNCHANGED todo ELSE NextFriend
  /\ UNCHANGED <<faults, serviceVars, friends, removed, failed, ops, changes, historyVars>>

Removal ==
  /\ removed' = IF Failed THEN removed ELSE removed \cup {op.acct}
  /\ failed' = IF Failed THEN failed \cup {op.acct} ELSE failed

\* RemoveAllFriends: one removal is over; a failed one does not stop the loop.
RemovedNext ==
  /\ Returned /\ op.bulk /\ op.name = "remove"
  /\ Removal /\ NextFriend
  /\ UNCHANGED <<faults, serviceVars, friends, ops, changes, historyVars>>

-----------------------------------------------------------------------------
(* XMPPDecoder, and an application that follows its events *)

Other_Bug(note) == note.from

\* handleFriendshipRemove: the account at the other end.
Other(note) == IF note.from = Self THEN note.to ELSE note.from

\* DispatchStanza; every other status or reason changes no friendship.
Dispatch ==
  /\ mail # <<>> /\ mail' = Tail(mail)
  /\ LET note == Head(mail) IN
     friends' = CASE note.type = "friend" /\ note.status = "ACCEPTED" -> friends \cup {note.acct}
                  [] note.type = "remove" /\ note.reason = "DELETED" -> friends \ {Other(note)}
                  [] OTHER -> friends
  /\ UNCHANGED <<transportVars, bond, op, resultVars, ret, ops, changes, historyVars>>

-----------------------------------------------------------------------------
Exchange == Send \/ NotSent \/ Retry \/ Slept \/ SleepCut \/ ContextEnds
Outside == <<serviceVars, friends, op, resultVars, ret, ops, changes, historyVars>>

Next ==
  \/ \E a \in Others : OtherActs(a) \/ AddFriend(a) \/ RemoveFriend(a)
  \/ RemoveAllFriends
  \/ Exchange /\ UNCHANGED Outside
  \/ Serve \/ ServedUnanswered \/ NotServed
  \/ Answered \/ Listed \/ RemovedNext
  \/ Dispatch

Spec == Init /\ [][Next]_vars

-----------------------------------------------------------------------------
(* Properties *)

\* The state is of its types; what is to be removed and what has been tried do
\* not overlap, and a request is under way exactly while a command runs
\* (friends/commands.go, transport/http/client.go Request).
TypeOK ==
  /\ TransportTypeOK
  /\ bond \in [Others -> Bonds] /\ friends \subseteq Others
  /\ op \in [name : {"none", "add", "remove", "list"}, acct : Others \cup {Self}, bulk : BOOLEAN]
  /\ ret \in {"none", "ok", "error", "cleared"}
  /\ ops \in 0 .. MaxOps /\ changes \in 0 .. MaxChanges
  /\ todo \cup removed \cup failed \cup undone \cup unclear \cup since \subseteq Others
  /\ todo \cap (removed \cup failed) = {} /\ removed \cap failed = {}
  /\ op = NoOp <=> tx.at = "idle"

\* "RemoveAllFriends removes all currently listed friends": when it returns no
\* error, a friend who is left is one it reports as failed, or became one after
\* the list was read.  Its result tells the truth at every point: who counts as
\* removed was removed by this call, and who was removed and is reported as
\* failed is one whose removal was served and not answered.  Other accounts may
\* act, exchanges may fail and the context may end anywhere (commands.go
\* RemoveAllFriends, RemoveFriend; client.go Request).
BulkRemovalTrue ==
  /\ ret = "cleared" => Befriended \subseteq failed \cup since
  /\ removed \subseteq undone
  /\ failed \cap undone \subseteq unclear

\* An application that adds on FriendAdded and removes on FriendRemoved has the
\* friends the service has once every notification is handled, whichever side
\* ended a friendship or a request (xmpp_decoder.go handleFriendshipRemove).
FriendsFollow == mail = <<>> => friends = Befriended
=============================================================================
