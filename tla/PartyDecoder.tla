---------------------------- MODULE PartyDecoder ----------------------------
(***************************************************************************)
(* party.XMPPDecoder (src/party/xmpp_decoder.go): the read loop hands it   *)
(* one notification at a time and it folds each into the cached party.     *)
(* handleMessage looks at neither the party id nor the revision of a       *)
(* notification before it applies it.                                      *)
(*                                                                         *)
(* MEMBER_STATE_UPDATED takes two critical sections of State: a Snapshot   *)
(* to complete the member, then ApplyEvent; a command may act in between.  *)
(* Every other notification is one ApplyEvent.  The events emitted on the  *)
(* bus afterwards change nothing here (EventBus.tla has their delivery).   *)
(***************************************************************************)
EXTENDS PartyService

VARIABLES local,     \* State.party
          decoding   \* the reducer event between the two critical sections

Idle == BlankEvent("idle", "", 0)

\* MEMBER_JOINED: the metadata is the notification's.
Joined(n) ==
  [BlankEvent("joined", n.party, n.rev) EXCEPT
     !.acct = n.acct, !.member = MemberOf(n.role, n.rev, n.updates, n.updates)]

Gone(n) == [BlankEvent("gone", n.party, n.rev) EXCEPT !.acct = n.acct]

NewCaptain(n) ==
  [BlankEvent("party", n.party, n.rev) EXCEPT !.captain = n.acct]

Updated(n) ==
  [BlankEvent("party", n.party, n.rev) EXCEPT
     !.customKey = Lookup(n.updates, "CustomMatchKey"),
     !.playlist  = extractPlaylist(Lookup(n.updates, "SelectedIsland")),
     !.updates = n.updates, !.removed = n.removed]

\* The extracted fields are taken from the updates alone.
StateUpdated_Bug(n) ==
  [BlankEvent("updated", n.party, n.rev) EXCEPT
     !.acct = n.acct, !.removed = n.removed,
     !.member = MemberOf(n.role, n.rev, n.updates, n.updates)]

\* MEMBER_STATE_UPDATED: what it does not say is taken from the snapshot.
StateUpdated(n) ==
  LET known  == n.acct \in DOMAIN local.members
      old    == IF known THEN local.members[n.acct] ELSE NoMember
      merged == Overlay(old.meta, n.updates, n.removed)
      rev    == IF n.rev = 0 THEN old.rev ELSE n.rev
  IN  [BlankEvent("updated", n.party, n.rev) EXCEPT
         !.acct = n.acct, !.removed = n.removed,
         !.member = MemberOf(OrElse(n.role, old.role), rev, n.updates, merged)]

EventOf(n) ==
  CASE n.type = "MEMBER_JOINED" -> Joined(n)
    [] n.type \in {"MEMBER_LEFT", "MEMBER_KICKED"} -> Gone(n)
    [] n.type = "MEMBER_NEW_CAPTAIN" -> NewCaptain(n)
    [] n.type = "PARTY_UPDATED" -> Updated(n)

Receive ==
  /\ decoding = Idle /\ inbox # <<>>
  /\ inbox' = Tail(inbox)
  /\ UNCHANGED <<remote, faults, changes, wire>>

\* One notification, one ApplyEvent.
Apply ==
  /\ Receive
  /\ Head(inbox).type # "MEMBER_STATE_UPDATED"
  /\ local' = ApplyEvent(local, EventOf(Head(inbox)))
  /\ UNCHANGED decoding

\* state.Snapshot(), and the member it completes.
Complete ==
  /\ Receive
  /\ Head(inbox).type = "MEMBER_STATE_UPDATED"
  /\ decoding' = StateUpdated(Head(inbox))
  /\ UNCHANGED local

\* state.ApplyEvent() of the completed member.
ApplyCompleted ==
  /\ decoding # Idle
  /\ local' = ApplyEvent(local, decoding)
  /\ decoding' = Idle
  /\ UNCHANGED <<world, wire>>

Decode == Apply \/ Complete \/ ApplyCompleted
=============================================================================
