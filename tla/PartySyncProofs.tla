--------------------------- MODULE PartySyncProofs ---------------------------
(***************************************************************************)
(* Theorems about PartySync, for any accounts, parties, documents, faults  *)
(* and bounds.                                                             *)
(***************************************************************************)
EXTENDS PartySync, TLAPS

-----------------------------------------------------------------------------
(* What the operators on maps return. *)

LEMMA NothingType ==
  ASSUME NEW K, NEW V
  PROVE  IsMap(Nothing, K, V) /\ DOMAIN Nothing = {}
BY DEF IsMap, Nothing

LEMMA OverlayType ==
  ASSUME NEW K, NEW V, NEW m, IsMap(m, K, V), NEW u, IsMap(u, K, V), NEW D
  PROVE  IsMap(Overlay(m, u, D), K, V)
BY DEF IsMap, Overlay

LEMMA LookupType ==
  ASSUME NEW K, NEW m, IsMap(m, K, Values), NEW k
  PROVE  Lookup(m, k) \in Values
BY ReducerAssumption DEF IsMap, Lookup

LEMMA DifferingType ==
  ASSUME NEW K, NEW V, NEW u, IsMap(u, K, V), NEW m
  PROVE  IsMap(Differing(u, m), K, V)
BY DEF IsMap, Differing

LEMMA ExtractType ==
  ASSUME NEW v \in Values
  PROVE  /\ extractReady(v) \in Values
         /\ extractPlaylist(v) \in Values
         /\ extractSlot(v) \in Values
BY ReducerAssumption DEF extractReady, extractPlaylist, extractSlot

-----------------------------------------------------------------------------
(* The records of the reducer. *)

Roles == {"", "MEMBER", "CAPTAIN"}

LEMMA MemberOfType ==
  ASSUME NEW role \in Roles, NEW rev \in Nat,
         NEW meta, IsMeta(meta), NEW visible, IsMeta(visible)
  PROVE  IsMember(MemberOf(role, rev, meta, visible))
<1>1. /\ Lookup(visible, "LobbyState") \in Values
      /\ Lookup(visible, "CosmeticLoadout") \in Values
      /\ Lookup(visible, "FrontendEmote") \in Values
  BY LookupType DEF IsMeta
<1> QED BY <1>1, ExtractType DEF MemberOf, IsMember, Roles

LEMMA BlankType ==
  /\ IsMember(NoMember) /\ IsParty(EmptyParty) /\ IsView(NoView)
  /\ IsMeta(Nothing) /\ IsPartyMeta(Nothing) /\ IsRemoteMembers(Nothing)
<1>1. IsMeta(Nothing) /\ IsPartyMeta(Nothing) /\ IsRemoteMembers(Nothing)
  BY NothingType DEF IsMeta, IsPartyMeta, IsRemoteMembers
<1>2. IsMember(NoMember)
  BY <1>1, ReducerAssumption DEF IsMember, NoMember
<1>3. IsView(NoView)
  BY <1>1 DEF IsView, NoView, MaybeParty
<1>4. IsParty(EmptyParty)
  BY <1>1, NothingType, ReducerAssumption
     DEF IsParty, EmptyParty, MaybeParty, MaybeAccount, Nothing
<1> QED BY <1>1, <1>2, <1>3, <1>4

LEMMA CaptainType ==
  ASSUME NEW ms, IsRemoteMembers(ms)
  PROVE  CaptainOf(ms) \in MaybeAccount
BY DEF IsRemoteMembers, IsMap, CaptainOf, MaybeAccount

LEMMA MapRemoteType ==
  ASSUME NEW v, IsView(v)
  PROVE  /\ IsParty(mapRemoteParty(v))
         /\ mapRemoteParty(v).id = v.id
         /\ DOMAIN mapRemoteParty(v).members = DOMAIN v.members
<1> DEFINE ms == [a \in DOMAIN v.members |->
                    MemberOf(v.members[a].role, v.members[a].rev,
                             v.members[a].meta, v.members[a].meta)]
<1>1. \A a \in DOMAIN v.members : IsMember(ms[a])
  BY MemberOfType DEF IsView, IsRemoteMembers, Roles
<1>2. /\ Lookup(v.meta, "CustomMatchKey") \in Values
      /\ Lookup(v.meta, "RegionId") \in Values
      /\ extractPlaylist(Lookup(v.meta, "SelectedIsland")) \in Values
  BY LookupType, ExtractType DEF IsView, IsPartyMeta
<1>3. CaptainOf(v.members) \in MaybeAccount
  BY CaptainType DEF IsView
<1>4. DOMAIN ms = DOMAIN v.members /\ DOMAIN ms \subseteq Accounts
  BY DEF IsView, IsRemoteMembers, IsMap
<1>5. ms \in [DOMAIN ms -> {ms[a] : a \in DOMAIN ms}]
  OBVIOUS
<1>6. mapRemoteParty(v).members = ms
  BY DEF mapRemoteParty
<1> HIDE DEF ms
<1>7. IsParty(mapRemoteParty(v))
  BY <1>1, <1>2, <1>3, <1>4, <1>5, <1>6 DEF IsParty, IsView, mapRemoteParty
<1> QED BY <1>4, <1>6, <1>7 DEF mapRemoteParty

LEMMA OrElseType ==
  ASSUME NEW S, NEW v \in S, NEW old \in S
  PROVE  OrElse(v, old) \in S
BY DEF OrElse

LEMMA PrologueType ==
  ASSUME NEW p, IsParty(p), NEW e, IsReducerEvent(e)
  PROVE  /\ IsParty(Prologue(p, e))
         /\ Prologue(p, e).id = OrElse(p.id, e.party)
         /\ Prologue(p, e).members = p.members
<1>1. OrElse(p.id, e.party) \in MaybeParty /\ Larger(p.rev, e.rev) \in Nat
  BY OrElseType DEF IsParty, IsReducerEvent, Larger
<1> QED BY <1>1 DEF IsParty, Prologue

LEMMA SyncFromMetaType ==
  ASSUME NEW p, IsParty(p)
  PROVE  IsParty(SyncFromMeta(p)) /\ SyncFromMeta(p).id = p.id
<1>1. \A k \in DOMAIN p.meta : p.meta[k] \in Values
  BY DEF IsParty, IsPartyMeta, IsMap
<1>2. OrElse(extractPlaylist(Lookup(p.meta, "SelectedIsland")), p.playlist) \in Values
  BY LookupType, ExtractType, OrElseType DEF IsParty, IsPartyMeta
<1> QED BY <1>1, <1>2 DEF IsParty, SyncFromMeta

LEMMA PartyUpdatedType ==
  ASSUME NEW p, IsParty(p), NEW e, IsReducerEvent(e)
  PROVE  IsParty(PartyUpdated(p, e)) /\ PartyUpdated(p, e).id = p.id
<1>1. IsPartyMeta(Overlay(p.meta, e.updates, e.removed))
  BY OverlayType DEF IsParty, IsReducerEvent, IsPartyMeta
<1>2. /\ OrElse(e.captain, p.captain) \in MaybeAccount
      /\ OrElse(e.playlist, p.playlist) \in Values
      /\ OrElse(e.customKey, p.customKey) \in Values
  BY OrElseType DEF IsParty, IsReducerEvent
<1> DEFINE q == [p EXCEPT
     !.meta      = Overlay(@, e.updates, e.removed),
     !.captain   = OrElse(e.captain, @),
     !.playlist  = OrElse(e.playlist, @),
     !.customKey = OrElse(e.customKey, @)]
<1>3. IsParty(q) /\ q.id = p.id
  BY <1>1, <1>2 DEF IsParty
<1>4. PartyUpdated(p, e) = SyncFromMeta(q)
  BY DEF PartyUpdated
<1> QED BY <1>3, <1>4, SyncFromMetaType

IsMembers(ms) == /\ IsMap(ms, Accounts, {ms[a] : a \in DOMAIN ms})
                 /\ \A a \in DOMAIN ms : IsMember(ms[a])

\* A party that differs in its members and its captain only.
LEMMA MembersType ==
  ASSUME NEW p, IsParty(p), NEW ms, IsMembers(ms), NEW c \in MaybeAccount
  PROVE  /\ IsParty([p EXCEPT !.members = ms, !.captain = c])
         /\ [p EXCEPT !.members = ms, !.captain = c].id = p.id
BY DEF IsMembers, IsParty, IsMap

LEMMA PutMemberType ==
  ASSUME NEW p, IsParty(p), NEW a \in Accounts, NEW m, IsMember(m)
  PROVE  IsMembers(Put(p.members, a, m))
BY DEF Put, IsMembers, IsMap, IsParty

LEMMA DropMemberType ==
  ASSUME NEW p, IsParty(p), NEW D
  PROVE  IsMembers(Drop(p.members, D))
BY DEF Drop, IsMembers, IsMap, IsParty

LEMMA MemberJoinedType ==
  ASSUME NEW p, IsParty(p), NEW e, IsReducerEvent(e), e.acct # ""
  PROVE  IsParty(MemberJoined(p, e)) /\ MemberJoined(p, e).id = p.id
<1>1. e.acct \in Accounts /\ IsMember(e.member)
  BY DEF IsReducerEvent, MaybeAccount
<1>2. PICK c \in MaybeAccount :
        c = IF e.member.role = "CAPTAIN" THEN e.acct ELSE OrElse(p.captain, e.acct)
  BY OrElseType DEF IsParty, IsReducerEvent
<1>3. PICK ms : /\ ms = Put(p.members, e.acct, e.member)
                /\ IsMembers(ms)
  BY <1>1, PutMemberType
<1>4. MemberJoined(p, e) = [p EXCEPT !.members = ms, !.captain = c]
  BY <1>2, <1>3 DEF MemberJoined
<1>5. c \in MaybeAccount /\ IsMembers(ms)
  BY <1>2, <1>3
<1>6. /\ IsParty([p EXCEPT !.members = ms, !.captain = c])
      /\ [p EXCEPT !.members = ms, !.captain = c].id = p.id
  BY <1>5, MembersType
<1> QED BY <1>4, <1>6

LEMMA MemberGoneType ==
  ASSUME NEW p, IsParty(p), NEW e, IsReducerEvent(e)
  PROVE  IsParty(MemberGone(p, e)) /\ MemberGone(p, e).id = p.id
<1>1. PICK c \in MaybeAccount : c = IF p.captain = e.acct THEN "" ELSE p.captain
  BY DEF IsParty, MaybeAccount
<1>2. PICK ms : /\ ms = Drop(p.members, {e.acct})
                /\ IsMembers(ms)
  BY DropMemberType
<1>3. MemberGone(p, e) = [p EXCEPT !.members = ms, !.captain = c]
  BY <1>1, <1>2 DEF MemberGone
<1>4. c \in MaybeAccount /\ IsMembers(ms)
  BY <1>1, <1>2
<1>5. /\ IsParty([p EXCEPT !.members = ms, !.captain = c])
      /\ [p EXCEPT !.members = ms, !.captain = c].id = p.id
  BY <1>4, MembersType
<1> QED BY <1>3, <1>5

LEMMA MemberUpdatedType ==
  ASSUME NEW p, IsParty(p), NEW e, IsReducerEvent(e), e.acct # ""
  PROVE  IsParty(MemberUpdated(p, e)) /\ MemberUpdated(p, e).id = p.id
<1>1. e.acct \in Accounts /\ IsMember(e.member)
  BY DEF IsReducerEvent, MaybeAccount
<1>2. PICK old : /\ old = IF e.acct \in DOMAIN p.members THEN p.members[e.acct] ELSE NoMember
                 /\ IsMember(old)
  BY BlankType DEF IsParty
<1>3. PICK new : new = [role |-> OrElse(e.member.role, old.role),
              rev    |-> Larger(old.rev, e.member.rev),
              ready  |-> OrElse(e.member.ready, old.ready),
              outfit |-> OrElse(e.member.outfit, old.outfit),
              emote  |-> OrElse(e.member.emote, old.emote),
              meta   |-> Overlay(old.meta, e.member.meta, e.removed)]
  OBVIOUS
<1>4. IsMeta(new.meta)
  BY <1>1, <1>2, <1>3, OverlayType DEF IsMember, IsMeta
<1>5. new.role \in Roles /\ new.rev \in Nat
  BY <1>1, <1>2, <1>3, OrElseType DEF IsMember, Larger, Roles
<1>6. new.ready \in Values /\ new.outfit \in Values /\ new.emote \in Values
  BY <1>1, <1>2, <1>3, OrElseType DEF IsMember
<1>7. IsMember(new)
  BY <1>3, <1>4, <1>5, <1>6 DEF IsMember, Roles
<1>8. PICK c \in MaybeAccount : c = IF e.member.role = "CAPTAIN" THEN e.acct ELSE p.captain
  BY DEF IsParty, IsReducerEvent
<1>9. PICK ms : /\ ms = Put(p.members, e.acct, new)
                /\ IsMembers(ms)
  BY <1>1, <1>7, PutMemberType
<1>10. MemberUpdated(p, e) = [p EXCEPT !.members = ms, !.captain = c]
  BY <1>2, <1>3, <1>8, <1>9 DEF MemberUpdated
<1>11. c \in MaybeAccount /\ IsMembers(ms)
  BY <1>8, <1>9
<1>12. /\ IsParty([p EXCEPT !.members = ms, !.captain = c])
      /\ [p EXCEPT !.members = ms, !.captain = c].id = p.id
  BY <1>11, MembersType
<1> QED BY <1>10, <1>12

\* Whatever the decoder folds in, a party stays a party, and one that has a
\* name keeps it.
LEMMA ApplyEventType ==
  ASSUME NEW p, IsParty(p), NEW e, IsReducerEvent(e), e.kind # "idle"
  PROVE  IsParty(ApplyEvent(p, e)) /\ ApplyEvent(p, e).id = OrElse(p.id, e.party)
<1>1. PICK q : q = Prologue(p, e)
  OBVIOUS
<1>2. IsParty(q) /\ q.id = OrElse(p.id, e.party)
  BY <1>1, PrologueType
<1>3. CASE e.kind = "joined"
  <2>1. ApplyEvent(p, e) = MemberJoined(q, e)
    BY <1>1, <1>3 DEF ApplyEvent
  <2>2. e.acct # ""
    BY <1>3 DEF IsReducerEvent
  <2>3. IsParty(MemberJoined(q, e)) /\ MemberJoined(q, e).id = q.id
    BY <1>2, <2>2, MemberJoinedType
  <2> QED BY <1>2, <2>1, <2>3
<1>4. CASE e.kind = "updated"
  <2>1. ApplyEvent(p, e) = MemberUpdated(q, e)
    BY <1>1, <1>4 DEF ApplyEvent
  <2>2. e.acct # ""
    BY <1>4 DEF IsReducerEvent
  <2>3. IsParty(MemberUpdated(q, e)) /\ MemberUpdated(q, e).id = q.id
    BY <1>2, <2>2, MemberUpdatedType
  <2> QED BY <1>2, <2>1, <2>3
<1>5. CASE e.kind = "gone"
  <2>1. ApplyEvent(p, e) = MemberGone(q, e)
    BY <1>1, <1>5 DEF ApplyEvent
  <2>2. IsParty(MemberGone(q, e)) /\ MemberGone(q, e).id = q.id
    BY <1>2, MemberGoneType
  <2> QED BY <1>2, <2>1, <2>2
<1>6. CASE e.kind = "party"
  <2>1. ApplyEvent(p, e) = PartyUpdated(q, e)
    BY <1>1, <1>6 DEF ApplyEvent
  <2>2. IsParty(PartyUpdated(q, e)) /\ PartyUpdated(q, e).id = q.id
    BY <1>2, PartyUpdatedType
  <2> QED BY <1>2, <2>1, <2>2
<1> QED BY <1>3, <1>4, <1>5, <1>6 DEF IsReducerEvent

-----------------------------------------------------------------------------
(* The notifications under way. *)

IsInbox(s) == /\ s \in Seq({s[n] : n \in DOMAIN s})
              /\ \A n \in DOMAIN s : IsNotification(s[n])

\* A sequence over any set is one over the set of its elements.
LEMMA InboxType ==
  ASSUME NEW S, NEW s \in Seq(S), \A n \in DOMAIN s : IsNotification(s[n])
  PROVE  IsInbox(s)
<1>1. Len(s) \in Nat /\ DOMAIN s = 1 .. Len(s) /\ s \in [1 .. Len(s) -> S]
  OBVIOUS
<1>2. s \in [1 .. Len(s) -> {s[n] : n \in DOMAIN s}]
  BY <1>1
<1> QED BY <1>1, <1>2 DEF IsInbox

LEMMA TailType ==
  ASSUME NEW s, IsInbox(s), s # <<>>
  PROVE  IsInbox(Tail(s)) /\ IsNotification(Head(s))
<1> DEFINE S == {s[n] : n \in DOMAIN s}
<1>1. s \in Seq(S) /\ \A n \in DOMAIN s : IsNotification(s[n])
  BY DEF IsInbox
<1> HIDE DEF S
<1>2. /\ Tail(s) \in Seq(S) /\ Len(Tail(s)) = Len(s) - 1
      /\ \A n \in 1 .. Len(s) - 1 : Tail(s)[n] = s[n + 1]
      /\ Head(s) = s[1] /\ Len(s) \in Nat \ {0}
      /\ DOMAIN s = 1 .. Len(s) /\ DOMAIN Tail(s) = 1 .. Len(s) - 1
  BY <1>1
<1>3. \A n \in DOMAIN Tail(s) : IsNotification(Tail(s)[n])
  <2> TAKE n \in DOMAIN Tail(s)
  <2>1. n \in 1 .. Len(s) - 1 /\ n + 1 \in DOMAIN s
    BY <1>2
  <2> QED BY <1>1, <1>2, <2>1
<1>4. IsNotification(Head(s))
  BY <1>1, <1>2
<1> QED BY <1>2, <1>3, <1>4, InboxType

LEMMA ConcatType ==
  ASSUME NEW s, IsInbox(s), NEW t, IsInbox(t)
  PROVE  IsInbox(s \o t)
<1> DEFINE S == {s[n] : n \in DOMAIN s} \cup {t[n] : n \in DOMAIN t}
<1>1. /\ s \in Seq({s[n] : n \in DOMAIN s}) /\ t \in Seq({t[n] : n \in DOMAIN t})
      /\ \A n \in DOMAIN s : IsNotification(s[n])
      /\ \A n \in DOMAIN t : IsNotification(t[n])
  BY DEF IsInbox
<1>2. /\ Len(s) \in Nat /\ DOMAIN s = 1 .. Len(s) /\ s \in [1 .. Len(s) -> S]
      /\ Len(t) \in Nat /\ DOMAIN t = 1 .. Len(t) /\ t \in [1 .. Len(t) -> S]
  BY <1>1
<1> HIDE DEF S
<1>3. s \in Seq(S) /\ t \in Seq(S)
  BY <1>2
<1>4. /\ s \o t \in Seq(S) /\ DOMAIN (s \o t) = 1 .. Len(s) + Len(t)
      /\ \A n \in 1 .. Len(s) + Len(t) :
           (s \o t)[n] = IF n <= Len(s) THEN s[n] ELSE t[n - Len(s)]
  BY <1>3
<1>5. \A n \in DOMAIN (s \o t) : IsNotification((s \o t)[n])
  <2> TAKE n \in DOMAIN (s \o t)
  <2>1. CASE n <= Len(s)
    <3>1. n \in DOMAIN s
      BY <1>2, <1>4, <2>1
    <3> QED BY <1>1, <1>4, <2>1, <3>1
  <2>2. CASE ~(n <= Len(s))
    <3>1. n - Len(s) \in DOMAIN t
      BY <1>2, <1>4, <2>2
    <3> QED BY <1>1, <1>4, <2>2, <3>1
  <2> QED BY <2>1, <2>2
<1> QED BY <1>4, <1>5, InboxType

LEMMA SingleType ==
  ASSUME NEW n, IsNotification(n)
  PROVE  IsInbox(<<n>>)
<1>1. <<n>> \in Seq({n}) /\ DOMAIN <<n>> = {1} /\ <<n>>[1] = n
  OBVIOUS
<1> QED BY <1>1, InboxType

LEMMA EmptyInbox == IsInbox(<<>>)
<1>1. <<>> \in Seq({}) /\ DOMAIN <<>> = {}
  OBVIOUS
<1> QED BY <1>1, InboxType

LEMMA NoteType ==
  ASSUME NEW type \in {"MEMBER_JOINED", "MEMBER_LEFT", "MEMBER_KICKED",
                       "MEMBER_NEW_CAPTAIN", "MEMBER_STATE_UPDATED"},
         NEW p \in Parties, NEW a \in Accounts, NEW rev \in Nat
  PROVE  IsNotification(Note(type, p, a, rev))
BY BlankType, ReducerAssumption DEF IsNotification, Note, MaybeAccount

-----------------------------------------------------------------------------
(* What a change of the service leaves behind. *)

IsRemoteParty(w) ==
  /\ w \in [rev : Nat, meta : {w.meta}, members : {w.members}]
  /\ IsPartyMeta(w.meta) /\ IsRemoteMembers(w.members)

\* Party p may become new: it has been born, and takes nobody from another.
Takes(p, new) ==
  /\ IsRemoteParty(new) /\ new.rev # 0
  /\ \A q \in Parties \ {p} : DOMAIN new.members \cap DOMAIN remote[q].members = {}

LEMMA ChangeType ==
  ASSUME IsWorld(remote), IsInbox(inbox), NEW p \in Parties, NEW new, Takes(p, new),
         NEW notes, IsInbox(notes), Change(p, new, notes)
  PROVE  IsWorld(remote') /\ IsInbox(inbox')
<1>1. remote' = [remote EXCEPT ![p] = new] /\ DOMAIN remote = Parties
  BY DEF Change, IsWorld
<1>2. remote'[p] = new /\ \A q \in Parties \ {p} : remote'[q] = remote[q]
  BY <1>1
<1>3. remote' \in [Parties -> {remote'[q] : q \in Parties}]
  BY <1>1 DEF IsWorld
<1>4. \A q \in Parties : IsRemoteParty(remote'[q]) /\ (remote'[q].rev = 0 => remote'[q] = Unborn)
  BY <1>2 DEF IsWorld, IsRemoteParty, Takes
<1>5. \A q \in Parties, r \in Parties : q # r =>
        DOMAIN remote'[q].members \cap DOMAIN remote'[r].members = {}
  BY <1>2 DEF IsWorld, Takes
<1>6. IsInbox(inbox')
  BY ConcatType DEF Change
<1> QED BY <1>3, <1>4, <1>5, <1>6 DEF IsWorld, IsRemoteParty

\* The members of a party, when one is put in, or goes, or changes.
LEMMA RemoteMembersType ==
  ASSUME NEW ms, IsRemoteMembers(ms)
  PROVE  /\ \A D : IsRemoteMembers(Drop(ms, D)) /\ DOMAIN Drop(ms, D) = DOMAIN ms \ D
         /\ \A a \in Accounts : \A m :
              /\ m \in [role : {"MEMBER", "CAPTAIN"}, rev : Nat, meta : {m.meta}]
              /\ IsMeta(m.meta)
              => /\ IsRemoteMembers(Put(ms, a, m))
                 /\ DOMAIN Put(ms, a, m) = DOMAIN ms \cup {a}
         /\ \A a \in DOMAIN ms :
              /\ ms[a] \in [role : {"MEMBER", "CAPTAIN"}, rev : Nat, meta : {ms[a].meta}]
              /\ IsMeta(ms[a].meta) /\ a \in Accounts
<1>1. ms = [a \in DOMAIN ms |-> ms[a]] /\ DOMAIN ms \subseteq Accounts
  BY DEF IsRemoteMembers, IsMap
<1>2. \A a \in DOMAIN ms :
        /\ ms[a] \in [role : {"MEMBER", "CAPTAIN"}, rev : Nat, meta : {ms[a].meta}]
        /\ IsMeta(ms[a].meta) /\ a \in Accounts
  BY <1>1 DEF IsRemoteMembers
<1>3. \A D : IsRemoteMembers(Drop(ms, D)) /\ DOMAIN Drop(ms, D) = DOMAIN ms \ D
  BY <1>1, <1>2 DEF Drop, IsRemoteMembers, IsMap
<1>4. ASSUME NEW a \in Accounts, NEW m,
             m \in [role : {"MEMBER", "CAPTAIN"}, rev : Nat, meta : {m.meta}],
             IsMeta(m.meta)
      PROVE  /\ IsRemoteMembers(Put(ms, a, m))
             /\ DOMAIN Put(ms, a, m) = DOMAIN ms \cup {a}
  BY <1>1, <1>2, <1>4 DEF Put, IsRemoteMembers, IsMap
<1> QED BY <1>2, <1>3, <1>4

LEMMA JoinNowType ==
  ASSUME IsWorld(remote), IsInbox(inbox), NEW p \in Parties, NEW a \in Accounts,
         \A q \in Parties : a \notin DOMAIN remote[q].members, JoinNow(p, a)
  PROVE  IsWorld(remote') /\ IsInbox(inbox')
<1>1. PICK role \in {"MEMBER", "CAPTAIN"} :
        role = IF DOMAIN remote[p].members = {} THEN "CAPTAIN" ELSE "MEMBER"
  OBVIOUS
<1>2. PICK rev \in Nat \ {0} : rev = remote[p].rev + 1
  BY DEF IsWorld
<1>3. PICK m : m = [role |-> role, rev |-> 0, meta |-> Nothing]
  OBVIOUS
<1>4. PICK ms : ms = Put(remote[p].members, a, m)
  OBVIOUS
<1>5. IsRemoteMembers(ms) /\ DOMAIN ms = DOMAIN remote[p].members \cup {a}
  <2>1. m \in [role : {"MEMBER", "CAPTAIN"}, rev : Nat, meta : {m.meta}] /\ IsMeta(m.meta)
    BY <1>3, BlankType
  <2> QED BY <1>4, <2>1, RemoteMembersType DEF IsWorld
<1>6. PICK new : new = [remote[p] EXCEPT !.rev = rev, !.members = ms]
  OBVIOUS
<1>7. Takes(p, new)
  <2>1. IsRemoteParty(new) /\ new.rev # 0 /\ DOMAIN new.members = DOMAIN remote[p].members \cup {a}
    BY <1>5, <1>6 DEF IsRemoteParty, IsWorld
  <2>2. \A q \in Parties \ {p} : DOMAIN remote[p].members \cap DOMAIN remote[q].members = {}
    BY DEF IsWorld
  <2> QED BY <2>1, <2>2 DEF Takes
<1>8. PICK n : n = [Note("MEMBER_JOINED", p, a, rev) EXCEPT !.role = role]
  OBVIOUS
<1>9. IsInbox(<<n>>)
  <2>1. IsNotification(Note("MEMBER_JOINED", p, a, rev))
    BY NoteType
  <2>2. IsNotification(n)
    BY <1>8, <2>1 DEF IsNotification, Note
  <2> QED BY <2>2, SingleType
<1>10. Change(p, new, <<n>>)
  BY <1>1, <1>2, <1>3, <1>4, <1>6, <1>8 DEF JoinNow
<1> QED BY <1>7, <1>9, <1>10, ChangeType

LEMMA GoneNowType ==
  ASSUME IsWorld(remote), IsInbox(inbox), NEW type \in {"MEMBER_LEFT", "MEMBER_KICKED"},
         NEW p \in Parties, NEW a \in DOMAIN remote[p].members, GoneNow(type, p, a)
  PROVE  IsWorld(remote') /\ IsInbox(inbox')
<1> DEFINE rev  == remote[p].rev + 1
           rest == Drop(remote[p].members, {a})
           heir == IF CaptainOf(rest) = "" /\ DOMAIN rest # {}
                   THEN CHOOSE b \in DOMAIN rest : TRUE ELSE ""
           ms == IF heir = "" THEN rest ELSE [rest EXCEPT ![heir].role = "CAPTAIN"]
           new == [remote[p] EXCEPT !.rev = rev, !.members = ms]
           tail == IF heir = "" THEN <<>> ELSE <<Note("MEMBER_NEW_CAPTAIN", p, heir, rev)>>
           notes == <<Note(type, p, a, rev)>> \o tail
<1>1. Change(p, new, notes)
  BY DEF GoneNow
<1>2. rev \in Nat \ {0}
  BY DEF IsWorld
<1>3. a \in Accounts /\ IsRemoteMembers(remote[p].members)
  BY RemoteMembersType DEF IsWorld
<1>4. IsRemoteMembers(rest) /\ DOMAIN rest \subseteq DOMAIN remote[p].members
  BY <1>3, RemoteMembersType DEF Drop
<1> HIDE DEF rev, rest
<1>5. heir = "" \/ (heir \in DOMAIN rest /\ heir \in Accounts)
  BY <1>4, RemoteMembersType
<1> HIDE DEF heir
<1>6. IsRemoteMembers(ms) /\ DOMAIN ms = DOMAIN rest
  BY <1>4, <1>5 DEF IsRemoteMembers, IsMap
<1> HIDE DEF ms
<1>7. Takes(p, new)
  <2>1. IsRemoteParty(new) /\ new.rev # 0 /\ DOMAIN new.members = DOMAIN rest
    BY <1>2, <1>6 DEF IsRemoteParty, IsWorld
  <2>2. \A q \in Parties \ {p} : DOMAIN remote[p].members \cap DOMAIN remote[q].members = {}
    BY DEF IsWorld
  <2> QED BY <1>4, <2>1, <2>2 DEF Takes
<1>8. IsInbox(<<Note(type, p, a, rev)>>)
  BY <1>2, <1>3, NoteType, SingleType
<1>9. heir # "" => IsInbox(<<Note("MEMBER_NEW_CAPTAIN", p, heir, rev)>>)
  BY <1>2, <1>5, NoteType, SingleType
<1>10. IsInbox(tail)
  BY <1>9, EmptyInbox
<1> HIDE DEF tail, new
<1>11. IsInbox(notes)
  BY <1>8, <1>10, ConcatType
<1> QED BY <1>1, <1>7, <1>11, ChangeType

LEMMA PromoteNowType ==
  ASSUME IsWorld(remote), IsInbox(inbox), NEW p \in Parties,
         NEW a \in DOMAIN remote[p].members, PromoteNow(p, a)
  PROVE  IsWorld(remote') /\ IsInbox(inbox')
<1>1. PICK rev \in Nat \ {0} : rev = remote[p].rev + 1
  BY DEF IsWorld
<1>2. a \in Accounts /\ IsRemoteMembers(remote[p].members)
  BY RemoteMembersType DEF IsWorld
<1>3. PICK ms : ms = [b \in DOMAIN remote[p].members |->
                [remote[p].members[b] EXCEPT !.role = IF b = a THEN "CAPTAIN" ELSE "MEMBER"]]
  OBVIOUS
<1>4. IsRemoteMembers(ms) /\ DOMAIN ms = DOMAIN remote[p].members
  BY <1>2, <1>3 DEF IsRemoteMembers, IsMap
<1>5. PICK new : new = [remote[p] EXCEPT !.rev = rev, !.members = ms]
  OBVIOUS
<1>6. Takes(p, new)
  BY <1>4, <1>5 DEF Takes, IsRemoteParty, IsWorld
<1>7. IsInbox(<<Note("MEMBER_NEW_CAPTAIN", p, a, rev)>>)
  BY <1>2, NoteType, SingleType
<1>8. Change(p, new, <<Note("MEMBER_NEW_CAPTAIN", p, a, rev)>>)
  BY <1>1, <1>3, <1>5 DEF PromoteNow
<1> QED BY <1>6, <1>7, <1>8, ChangeType

LEMMA PatchNowType ==
  ASSUME IsWorld(remote), IsInbox(inbox), NEW p \in Parties,
         NEW u, IsPartyMeta(u), NEW r \in SUBSET Keys, PatchNow(p, u, r)
  PROVE  IsWorld(remote') /\ IsInbox(inbox')
<1>1. PICK rev \in Nat \ {0} : rev = remote[p].rev + 1
  BY DEF IsWorld
<1>2. PICK new : new = [remote[p] EXCEPT !.rev = rev, !.meta = Overlay(remote[p].meta, u, r)]
  OBVIOUS
<1>3. IsPartyMeta(Overlay(remote[p].meta, u, r))
  BY OverlayType DEF IsWorld, IsPartyMeta
<1>4. Takes(p, new)
  BY <1>2, <1>3 DEF Takes, IsRemoteParty, IsWorld
<1>5. PICK n : n = [Note("PARTY_UPDATED", p, "", rev) EXCEPT !.updates = u, !.removed = r]
  OBVIOUS
<1>6. IsNotification(n)
  BY <1>5 DEF IsNotification, Note, MaybeAccount
<1>7. IsInbox(<<n>>)
  BY <1>6, SingleType
<1>8. Change(p, new, <<n>>)
  BY <1>1, <1>2, <1>5 DEF PatchNow
<1> QED BY <1>4, <1>7, <1>8, ChangeType

LEMMA MemberPatchNowType ==
  ASSUME IsWorld(remote), IsInbox(inbox), NEW p \in Parties,
         NEW a \in DOMAIN remote[p].members,
         NEW u, IsMeta(u), NEW r \in SUBSET Keys, MemberPatchNow(p, a, u, r)
  PROVE  IsWorld(remote') /\ IsInbox(inbox')
<1> DEFINE m == [remote[p].members[a] EXCEPT !.rev = @ + 1, !.meta = Overlay(@, u, r)]
           new == [remote[p] EXCEPT !.members[a] = m]
           note == [Note("MEMBER_STATE_UPDATED", p, a, m.rev) EXCEPT !.updates = u, !.removed = r]
<1>1. Change(p, new, <<note>>)
  BY DEF MemberPatchNow
<1>2. a \in Accounts /\ IsRemoteMembers(remote[p].members)
  BY RemoteMembersType DEF IsWorld
<1>3. IsMeta(Overlay(remote[p].members[a].meta, u, r))
  BY <1>2, RemoteMembersType, OverlayType DEF IsMeta
<1>4. /\ m \in [role : {"MEMBER", "CAPTAIN"}, rev : Nat, meta : {m.meta}]
      /\ IsMeta(m.meta)
  <2>1. PICK old : /\ old = remote[p].members[a]
                   /\ old \in [role : {"MEMBER", "CAPTAIN"}, rev : Nat, meta : {old.meta}]
    BY <1>2, RemoteMembersType
  <2>2. PICK meta : meta = Overlay(old.meta, u, r) /\ IsMeta(meta)
    BY <1>3, <2>1
  <2>3. m = [old EXCEPT !.rev = old.rev + 1, !.meta = meta]
    BY <2>1, <2>2
  <2> HIDE DEF m
  <2>4. old.rev + 1 \in Nat
    BY <2>1
  <2> QED BY <2>1, <2>2, <2>3, <2>4
<1> HIDE DEF m
<1>5. PICK ms : ms = [remote[p].members EXCEPT ![a] = m]
  OBVIOUS
<1>6. IsRemoteMembers(ms) /\ DOMAIN ms = DOMAIN remote[p].members
  BY <1>2, <1>4, <1>5 DEF IsRemoteMembers, IsMap
<1>7. new = [remote[p] EXCEPT !.members = ms]
  BY <1>5
<1>8. remote[p].rev # 0
  BY NothingType DEF IsWorld, Unborn
<1> HIDE DEF new
<1>9. Takes(p, new)
  <2>1. IsRemoteParty(new) /\ new.rev # 0 /\ DOMAIN new.members = DOMAIN remote[p].members
    BY <1>6, <1>7, <1>8 DEF IsRemoteParty, IsWorld
  <2>2. \A q \in Parties \ {p} : DOMAIN remote[p].members \cap DOMAIN remote[q].members = {}
    BY DEF IsWorld
  <2> QED BY <2>1, <2>2 DEF Takes
<1>10. IsNotification(note)
  BY <1>2, <1>4, ReducerAssumption DEF IsNotification, Note, MaybeAccount
<1> HIDE DEF note
<1>11. IsInbox(<<note>>)
  BY <1>10, SingleType
<1> QED BY <1>1, <1>9, <1>11, ChangeType

-----------------------------------------------------------------------------
(* The exchange and the world keep their types. *)

WorldOK == IsWorld(remote) /\ IsInbox(inbox)
FaultsOK == faults \in Seq(Faults) /\ Len(faults) <= MaxFaults
ChangesOK == changes \in 0 .. MaxChanges

\* A view that is one names its party.
IsFound(v) == IsView(v) /\ (v # NoView => v.id \in Parties)
WireOK == /\ IsRequest(req)
          /\ ans \in [st : Statuses, view : {ans.view}] /\ IsFound(ans.view)

LEMMA SpendType ==
  ASSUME FaultsOK, NEW kind, Spend(kind)
  PROVE  FaultsOK'
BY ServiceAssumption DEF FaultsOK, Spend

LEMMA ReplyType ==
  ASSUME FaultsOK, WireOK, NEW st \in Statuses, NEW view, IsFound(view), Reply(st, view)
  PROVE  FaultsOK' /\ WireOK' /\ req' = req /\ changes' = changes
<1>1. FaultsOK' /\ req' = req /\ changes' = changes
  BY SpendType DEF Reply, FaultsOK
<1>2. \/ ans' = [st |-> st, view |-> view]
      \/ ans' = [st |-> "failed", view |-> NoView]
      \/ ans' = [st |-> "pending", view |-> NoView]
  BY DEF Reply, Failed, Pending
<1>3. ans' \in [st : Statuses, view : {ans'.view}] /\ IsFound(ans'.view)
  BY <1>2, BlankType DEF Statuses, IsFound
<1> QED BY <1>1, <1>3 DEF WireOK

LEMMA ViewType ==
  ASSUME WorldOK, NEW p \in Parties
  PROVE  /\ IsFound(ViewOf(p)) /\ ViewOf(p).id = p
         /\ IsFound([ViewOf(p) EXCEPT !.members = Drop(@, {Self})])
         /\ IsFound(NoView)
<1>1. IsPartyMeta(remote[p].meta) /\ IsRemoteMembers(remote[p].members) /\ remote[p].rev \in Nat
  BY DEF WorldOK, IsWorld
<1>2. IsRemoteMembers(Drop(remote[p].members, {Self}))
  BY <1>1, RemoteMembersType
<1> QED BY <1>1, <1>2, BlankType DEF ViewOf, IsFound, IsView, MaybeParty

LEMMA HomeType ==
  ASSUME NEW r, NEW a
  PROVE  /\ Home(r, a) \in MaybeParty
         /\ Home(r, a) # "" => Home(r, a) \in Parties /\ a \in DOMAIN r[Home(r, a)].members
         /\ Home(r, a) = "" => \A p \in Parties : a \notin DOMAIN r[p].members
BY ReducerAssumption DEF Home, MaybeParty

LEMMA NewPartyType ==
  ASSUME NEW p \in Parties
  PROVE  IsFound(NewParty(p)) /\ NewParty(p).id = p
<1>1. PICK m : m = [role |-> "CAPTAIN", rev |-> 0, meta |-> Nothing]
  OBVIOUS
<1>2. IsRemoteMembers(Put(Nothing, Self, m))
  BY <1>1, BlankType, RemoteMembersType, ServiceAssumption
<1> QED BY <1>1, <1>2, BlankType DEF NewParty, IsFound, IsView, MaybeParty

\* What the service does with a request keeps the types.
LEMMA ServeType ==
  ASSUME WorldOK, FaultsOK, ChangesOK, WireOK, Serve
  PROVE  WorldOK' /\ FaultsOK' /\ ChangesOK' /\ WireOK' /\ req' = req
<1> SUFFICES WorldOK' /\ \E st \in Statuses : \E v : IsFound(v) /\ Reply(st, v)
  BY ReplyType DEF ChangesOK
<1>a. ASSUME NEW st \in Statuses, NEW v, IsFound(v), Reply(st, v), UNCHANGED <<remote, inbox>>
      PROVE  WorldOK' /\ \E s \in Statuses : \E w : IsFound(w) /\ Reply(s, w)
  BY <1>a DEF WorldOK
<1>b. ASSUME NEW st \in Statuses, Refuse(st)
      PROVE  WorldOK' /\ \E s \in Statuses : \E w : IsFound(w) /\ Reply(s, w)
  BY <1>a, <1>b, BlankType DEF Refuse, IsFound
<1>c. ASSUME NEW v, IsFound(v), Report(v)
      PROVE  WorldOK' /\ \E s \in Statuses : \E w : IsFound(w) /\ Reply(s, w)
  <2>1. "ok" \in Statuses
    BY DEF Statuses
  <2> QED BY <1>a, <1>c, <2>1 DEF Report
<1>d. ASSUME NEW v, IsFound(v), Reply("ok", v), WorldOK'
      PROVE  WorldOK' /\ \E s \in Statuses : \E w : IsFound(w) /\ Reply(s, w)
  BY <1>d DEF Statuses
<1>e. {"notFound", "noParty", "forbidden", "selfOnly", "stale", "hasParty"} \subseteq Statuses
  BY DEF Statuses
<1>f. IsFound(NoView)
  BY BlankType DEF IsFound
<1>g. /\ req.kind \in {"party", "join", "leave", "promote", "partyPatch", "memberPatch"}
           => req.party \in Parties
      /\ req.acct \in MaybeAccount
  BY DEF WireOK, IsRequest, MaybeParty
<1>1. CASE ServeUser
  <2>1. PICK p : p = Home(remote, req.acct)
    OBVIOUS
  <2>2. IsFound(IF p = "" THEN NoView ELSE ViewOf(p))
    BY <1>f, <2>1, HomeType, ViewType
  <2> QED BY <1>1, <1>b, <1>c, <1>e, <2>1, <2>2 DEF ServeUser
<1>2. CASE ServeParty
  <2>1. IsFound(ViewOf(req.party)) /\ IsFound([ViewOf(req.party) EXCEPT !.members = Drop(@, {Self})])
    BY <1>2, <1>g, ViewType DEF ServeParty, Asked
  <2> QED BY <1>2, <1>b, <1>c, <1>e, <2>1 DEF ServeParty
<1>3. CASE ServeCreate
  <2>1. ASSUME Home(remote, Self) = "", Fresh # {}
        PROVE  WorldOK' /\ \E s \in Statuses : \E w : IsFound(w) /\ Reply(s, w)
    <3>1. PICK p : p = CHOOSE q \in Fresh : TRUE
      OBVIOUS
    <3>2. p \in Parties
      BY <2>1, <3>1 DEF Fresh
    <3>3. JoinNow(p, Self) /\ Reply("ok", NewParty(p))
      BY <1>3, <2>1, <3>1 DEF ServeCreate
    <3>4. WorldOK'
      BY <2>1, <3>2, <3>3, HomeType, JoinNowType, ServiceAssumption DEF WorldOK
    <3> QED BY <1>d, <3>2, <3>3, <3>4, NewPartyType
  <2> QED BY <1>3, <1>b, <1>e, <2>1 DEF ServeCreate
<1>4. CASE ServeJoin
  <2>1. ASSUME Home(remote, Self) = "", JoinNow(req.party, Self), Reply("ok", NoView)
        PROVE  WorldOK' /\ \E s \in Statuses : \E w : IsFound(w) /\ Reply(s, w)
    <3>1. WorldOK'
      BY <1>4, <1>g, <2>1, HomeType, JoinNowType, ServiceAssumption DEF WorldOK, ServeJoin, Asked
    <3> QED BY <1>d, <1>f, <2>1, <3>1
  <2> QED BY <1>4, <1>b, <1>e, <2>1 DEF ServeJoin
<1>5. CASE ServeLeave
  <2>1. ASSUME Self \in DOMAIN remote[req.party].members,
               GoneNow("MEMBER_LEFT", req.party, Self), Reply("ok", NoView)
        PROVE  WorldOK' /\ \E s \in Statuses : \E w : IsFound(w) /\ Reply(s, w)
    <3>1. WorldOK'
      BY <1>5, <1>g, <2>1, GoneNowType DEF WorldOK, ServeLeave, Asked
    <3> QED BY <1>d, <1>f, <2>1, <3>1
  <2> QED BY <1>5, <1>b, <1>e, <2>1 DEF ServeLeave
<1>6. CASE ServePromote
  <2>1. ASSUME req.acct \in DOMAIN remote[req.party].members,
               PromoteNow(req.party, req.acct), Reply("ok", NoView)
        PROVE  WorldOK' /\ \E s \in Statuses : \E w : IsFound(w) /\ Reply(s, w)
    <3>1. WorldOK'
      BY <1>6, <1>g, <2>1, PromoteNowType DEF WorldOK, ServePromote, Asked
    <3> QED BY <1>d, <1>f, <2>1, <3>1
  <2> QED BY <1>6, <1>b, <1>e, <2>1 DEF ServePromote
<1>7. CASE ServePartyPatch
  <2>1. ASSUME PatchNow(req.party, req.updates, {}), Reply("ok", NoView)
        PROVE  WorldOK' /\ \E s \in Statuses : \E w : IsFound(w) /\ Reply(s, w)
    <3>1. IsPartyMeta(req.updates) /\ req.party \in Parties
      BY <1>7, <1>g DEF WireOK, IsRequest, ServePartyPatch, Asked
    <3>2. WorldOK'
      BY <2>1, <3>1, PatchNowType DEF WorldOK
    <3> QED BY <1>d, <1>f, <2>1, <3>2
  <2> QED BY <1>7, <1>b, <1>e, <2>1 DEF ServePartyPatch
<1>8. CASE ServeMemberPatch
  <2>1. ASSUME Self \in DOMAIN remote[req.party].members,
               MemberPatchNow(req.party, Self, req.updates, {}), Reply("ok", NoView)
        PROVE  WorldOK' /\ \E s \in Statuses : \E w : IsFound(w) /\ Reply(s, w)
    <3>1. IsMeta(req.updates) /\ req.party \in Parties
      BY <1>8, <1>g DEF WireOK, IsRequest, ServeMemberPatch, Asked
    <3>2. WorldOK'
      BY <2>1, <3>1, MemberPatchNowType DEF WorldOK
    <3> QED BY <1>d, <1>f, <2>1, <3>2
  <2> QED BY <1>8, <1>b, <1>e, <2>1 DEF ServeMemberPatch
<1>9. CASE ServePings
  <2>1. PICK p : p = Home(remote, req.acct)
    OBVIOUS
  <2>2. IsFound(IF p = "" THEN NoView ELSE ViewOf(p))
    BY <1>f, <2>1, HomeType, ViewType
  <2> QED BY <1>9, <1>c, <2>1, <2>2 DEF ServePings
<1>10. CASE ServeIntention
  BY <1>10, <1>c, <1>f DEF ServeIntention
<1> QED BY <1>1, <1>2, <1>3, <1>4, <1>5, <1>6, <1>7, <1>8, <1>9, <1>10 DEF Serve

LEMMA LoseType ==
  ASSUME WorldOK, FaultsOK, ChangesOK, WireOK, Lose
  PROVE  WorldOK' /\ FaultsOK' /\ ChangesOK' /\ WireOK' /\ req' = req
<1>1. WorldOK' /\ FaultsOK' /\ ChangesOK' /\ req' = req
  BY SpendType DEF Lose, WorldOK, ChangesOK
<1>2. ans' = [st |-> "failed", view |-> NoView]
  BY DEF Lose, Failed
<1>3. ans' \in [st : Statuses, view : {ans'.view}] /\ IsFound(ans'.view)
  BY <1>2, BlankType DEF Statuses, IsFound
<1> QED BY <1>1, <1>3 DEF WireOK

\* What the other accounts do keeps the types.
LEMMA EnvironmentType ==
  ASSUME WorldOK, FaultsOK, ChangesOK, WireOK, Environment
  PROVE  WorldOK' /\ FaultsOK' /\ ChangesOK' /\ WireOK' /\ req' = req
<1>1. PICK p \in Parties, a \in Accounts \ {Self} :
        \/ OtherJoins(p, a) \/ OtherLeaves(p, a) \/ KickedBy(p, a)
        \/ OtherPromotes(p, a) \/ OtherPatches(p, a) \/ OtherSets(p, a)
  BY DEF Environment
<1>2. \E o : Acts(o)
  BY <1>1 DEF OtherJoins, OtherLeaves, KickedBy, OtherPromotes, OtherPatches, OtherSets
<1>3. FaultsOK' /\ ChangesOK' /\ WireOK' /\ req' = req
  BY <1>2, ServiceAssumption DEF Acts, FaultsOK, ChangesOK, WireOK
<1>4. WorldOK'
  <2>1. CASE OtherJoins(p, a)
    BY <2>1, HomeType, JoinNowType DEF OtherJoins, WorldOK
  <2>2. CASE OtherLeaves(p, a)
    BY <2>2, GoneNowType DEF OtherLeaves, WorldOK
  <2>3. CASE KickedBy(p, a)
    BY <2>3, GoneNowType DEF KickedBy, WorldOK
  <2>4. CASE OtherPromotes(p, a)
    BY <2>4, PromoteNowType DEF OtherPromotes, WorldOK
  <2>5. CASE OtherPatches(p, a)
    <3>1. PICK d \in PartyDeltas : PatchNow(p, d.updates, d.removed)
      BY <2>5 DEF OtherPatches
    <3>2. IsPartyMeta(d.updates) /\ d.removed \in SUBSET Keys
      BY ServiceAssumption DEF IsDelta, IsPartyMeta, Keys
    <3> QED BY <3>1, <3>2, PatchNowType DEF WorldOK
  <2>6. CASE OtherSets(p, a)
    <3>1. PICK d \in MemberDeltas : MemberPatchNow(p, a, d.updates, d.removed)
      BY <2>6 DEF OtherSets
    <3>2. IsMeta(d.updates) /\ d.removed \in SUBSET Keys
      BY ServiceAssumption DEF IsDelta, IsMeta, Keys
    <3> QED BY <2>6, <3>1, <3>2, MemberPatchNowType DEF WorldOK, OtherSets
  <2> QED BY <1>1, <2>1, <2>2, <2>3, <2>4, <2>5, <2>6
<1> QED BY <1>3, <1>4

-----------------------------------------------------------------------------
(* The decoder keeps the types. *)

\* A reducer event whose kind does not need what is not there yet.
IsBlank(b, kind, party, rev) ==
  /\ b \in [kind : {kind}, party : {party}, rev : {rev}, acct : {""}, member : {NoMember},
            captain : {""}, playlist : {""}, customKey : {""}, updates : {Nothing},
            removed : {{}}]

LEMMA BlankEventType ==
  ASSUME NEW kind, NEW party, NEW rev
  PROVE  IsBlank(BlankEvent(kind, party, rev), kind, party, rev)
BY DEF BlankEvent, IsBlank

LEMMA JoinedType ==
  ASSUME NEW n, IsNotification(n), IsMeta(n.updates), n.acct # ""
  PROVE  /\ IsReducerEvent(Joined(n))
         /\ Joined(n).kind = "joined" /\ Joined(n).party = n.party
<1>1. PICK m : m = MemberOf(n.role, n.rev, n.updates, n.updates) /\ IsMember(m)
  BY MemberOfType DEF IsNotification, Roles
<1>2. PICK b : b = BlankEvent("joined", n.party, n.rev) /\ IsBlank(b, "joined", n.party, n.rev)
  BY BlankEventType
<1>3. PICK e : e = [b EXCEPT !.acct = n.acct, !.member = m]
  OBVIOUS
<1>4. IsBlank(b, "joined", n.party, n.rev) /\ IsMember(m)
  BY <1>1, <1>2
<1>5. IsReducerEvent(e) /\ e.kind = "joined" /\ e.party = n.party
  BY <1>3, <1>4, BlankType, ReducerAssumption
     DEF IsBlank, IsReducerEvent, MaybeParty, MaybeAccount, IsNotification
<1> QED BY <1>1, <1>2, <1>3, <1>5 DEF Joined

LEMMA GoneType ==
  ASSUME NEW n, IsNotification(n), n.acct # ""
  PROVE  /\ IsReducerEvent(Gone(n))
         /\ Gone(n).kind = "gone" /\ Gone(n).party = n.party
<1>1. PICK b : b = BlankEvent("gone", n.party, n.rev) /\ IsBlank(b, "gone", n.party, n.rev)
  BY BlankEventType
<1>2. PICK e : e = [b EXCEPT !.acct = n.acct]
  OBVIOUS
<1>3. IsBlank(b, "gone", n.party, n.rev)
  BY <1>1
<1>4. IsReducerEvent(e) /\ e.kind = "gone" /\ e.party = n.party
  BY <1>2, <1>3, BlankType, ReducerAssumption
     DEF IsBlank, IsReducerEvent, MaybeParty, MaybeAccount, IsNotification
<1> QED BY <1>1, <1>2, <1>4 DEF Gone

LEMMA NewCaptainType ==
  ASSUME NEW n, IsNotification(n)
  PROVE  /\ IsReducerEvent(NewCaptain(n))
         /\ NewCaptain(n).kind = "party" /\ NewCaptain(n).party = n.party
<1>1. PICK b : b = BlankEvent("party", n.party, n.rev) /\ IsBlank(b, "party", n.party, n.rev)
  BY BlankEventType
<1>2. PICK e : e = [b EXCEPT !.captain = n.acct]
  OBVIOUS
<1>3. IsBlank(b, "party", n.party, n.rev)
  BY <1>1
<1>4. IsReducerEvent(e) /\ e.kind = "party" /\ e.party = n.party
  BY <1>2, <1>3, BlankType, ReducerAssumption
     DEF IsBlank, IsReducerEvent, MaybeParty, MaybeAccount, IsNotification
<1> QED BY <1>1, <1>2, <1>4 DEF NewCaptain

LEMMA UpdatedType ==
  ASSUME NEW n, IsNotification(n), IsPartyMeta(n.updates)
  PROVE  /\ IsReducerEvent(Updated(n))
         /\ Updated(n).kind = "party" /\ Updated(n).party = n.party
<1>1. PICK key \in Values : key = Lookup(n.updates, "CustomMatchKey")
  BY LookupType DEF IsPartyMeta
<1>2. PICK playlist \in Values :
        playlist = extractPlaylist(Lookup(n.updates, "SelectedIsland"))
  BY LookupType, ExtractType DEF IsPartyMeta
<1>3. PICK b : b = BlankEvent("party", n.party, n.rev) /\ IsBlank(b, "party", n.party, n.rev)
  BY BlankEventType
<1>4. PICK e : e = [b EXCEPT !.customKey = key, !.playlist = playlist,
                             !.updates = n.updates, !.removed = n.removed]
  OBVIOUS
<1>5. IsBlank(b, "party", n.party, n.rev) /\ key \in Values /\ playlist \in Values
  BY <1>1, <1>2, <1>3
<1>6. IsReducerEvent(e) /\ e.kind = "party" /\ e.party = n.party
  BY <1>4, <1>5, BlankType, ReducerAssumption
     DEF IsBlank, IsReducerEvent, MaybeParty, MaybeAccount, IsNotification
<1>7. Updated(n) = e
  BY <1>1, <1>2, <1>3, <1>4 DEF Updated
<1> QED BY <1>6, <1>7

LEMMA EventOfType ==
  ASSUME NEW n, IsNotification(n), n.type # "MEMBER_STATE_UPDATED"
  PROVE  IsReducerEvent(EventOf(n)) /\ EventOf(n).kind # "idle" /\ EventOf(n).party = n.party
<1>1. CASE n.type = "MEMBER_JOINED"
  <2>1. EventOf(n) = Joined(n)
    BY <1>1 DEF EventOf
  <2>2. IsMeta(n.updates) /\ n.acct # ""
    BY <1>1 DEF IsNotification
  <2> QED BY <2>1, <2>2, JoinedType
<1>2. CASE n.type \in {"MEMBER_LEFT", "MEMBER_KICKED"}
  <2>1. EventOf(n) = Gone(n)
    BY <1>2 DEF EventOf
  <2>2. n.acct # ""
    BY <1>2 DEF IsNotification
  <2> QED BY <2>1, <2>2, GoneType
<1>3. CASE n.type = "MEMBER_NEW_CAPTAIN"
  <2>1. EventOf(n) = NewCaptain(n)
    BY <1>3 DEF EventOf
  <2> QED BY <2>1, NewCaptainType
<1>4. CASE n.type = "PARTY_UPDATED"
  <2>1. EventOf(n) = Updated(n)
    BY <1>4 DEF EventOf
  <2>2. IsPartyMeta(n.updates)
    BY <1>4 DEF IsNotification
  <2> QED BY <2>1, <2>2, UpdatedType
<1> QED BY <1>1, <1>2, <1>3, <1>4 DEF IsNotification

LEMMA StateUpdatedType ==
  ASSUME NEW n, IsNotification(n), n.type = "MEMBER_STATE_UPDATED", IsParty(local)
  PROVE  /\ IsReducerEvent(StateUpdated(n))
         /\ StateUpdated(n).kind = "updated" /\ StateUpdated(n).party = n.party
<1> DEFINE known  == n.acct \in DOMAIN local.members
           old    == IF known THEN local.members[n.acct] ELSE NoMember
           merged == Overlay(old.meta, n.updates, n.removed)
           rev    == IF n.rev = 0 THEN old.rev ELSE n.rev
           m      == MemberOf(OrElse(n.role, old.role), rev, n.updates, merged)
           b      == BlankEvent("updated", n.party, n.rev)
           e      == [b EXCEPT !.acct = n.acct, !.removed = n.removed, !.member = m]
<1>1. StateUpdated(n) = e
  BY DEF StateUpdated
<1>2. IsMember(old)
  BY BlankType DEF IsParty
<1>3. IsMeta(n.updates) /\ n.acct # ""
  BY DEF IsNotification
<1> HIDE DEF old
<1>4. IsMeta(merged)
  BY <1>2, <1>3, OverlayType DEF IsMember, IsMeta
<1>5. rev \in Nat /\ OrElse(n.role, old.role) \in Roles
  BY <1>2, OrElseType DEF IsMember, IsNotification, Roles
<1> HIDE DEF merged, rev
<1>6. IsMember(m)
  BY <1>3, <1>4, <1>5, MemberOfType
<1>7. IsBlank(b, "updated", n.party, n.rev)
  BY BlankEventType
<1> HIDE DEF m, b
<1>8. IsReducerEvent(e) /\ e.kind = "updated" /\ e.party = n.party
  BY <1>3, <1>6, <1>7, BlankType, ReducerAssumption
     DEF IsBlank, IsReducerEvent, MaybeParty, MaybeAccount, IsNotification
<1> HIDE DEF e
<1> QED BY <1>1, <1>8

LEMMA IdleType == IsReducerEvent(Idle)
BY BlankType, ReducerAssumption
   DEF Idle, BlankEvent, IsReducerEvent, MaybeParty, MaybeAccount

CacheOK == /\ IsParty(local) /\ IsReducerEvent(decoding)
           /\ decoding # Idle => decoding.kind = "updated" /\ decoding.party \in Parties

\* A notification changes the cached party and keeps the name of one that
\* has a name.
LEMMA DecodeType ==
  ASSUME WorldOK, CacheOK, Decode
  PROVE  /\ WorldOK' /\ CacheOK'
         /\ local.id # "" => local'.id = local.id
<1>1. CASE Apply
  <2>1. IsInbox(Tail(inbox)) /\ IsNotification(Head(inbox))
    BY <1>1, TailType DEF Apply, Receive, WorldOK
  <2>2. WorldOK'
    BY <1>1, <2>1 DEF Apply, Receive, WorldOK
  <2>3. PICK e : /\ e = EventOf(Head(inbox)) /\ IsReducerEvent(e) /\ e.kind # "idle"
    BY <1>1, <2>1, EventOfType DEF Apply
  <2>4. IsParty(local') /\ local'.id = OrElse(local.id, e.party)
    BY <1>1, <2>3, ApplyEventType DEF Apply, CacheOK
  <2> QED BY <1>1, <2>2, <2>4 DEF Apply, CacheOK, OrElse
<1>2. CASE Complete
  <2>1. IsInbox(Tail(inbox)) /\ IsNotification(Head(inbox))
    BY <1>2, TailType DEF Complete, Receive, WorldOK
  <2>2. WorldOK'
    BY <1>2, <2>1 DEF Complete, Receive, WorldOK
  <2>3. /\ IsReducerEvent(decoding') /\ decoding'.kind = "updated"
        /\ decoding'.party = Head(inbox).party
    BY <1>2, <2>1, StateUpdatedType DEF Complete, CacheOK
  <2> QED BY <1>2, <2>1, <2>2, <2>3 DEF Complete, CacheOK, IsNotification
<1>3. CASE ApplyCompleted
  <2>1. WorldOK' /\ decoding' = Idle
    BY <1>3 DEF ApplyCompleted, WorldOK, world
  <2>2. IsParty(local') /\ local'.id = OrElse(local.id, decoding.party)
    BY <1>3, ApplyEventType DEF ApplyCompleted, CacheOK
  <2> QED BY IdleType, <2>1, <2>2 DEF CacheOK, OrElse
<1> QED BY <1>1, <1>2, <1>3 DEF Decode

-----------------------------------------------------------------------------
(* The commands keep the types. *)

IsOp(o) ==
  o \in [name : Ops \cup {"none"}, party : MaybeParty, acct : MaybeAccount,
         intent : Intents \cup {NoIntent}]
IsPlan(q) ==
  /\ q \in [snap : {q.snap}, member : {q.member}, attempt : 0 .. MaxPatchRetries]
  /\ IsParty(q.snap) /\ IsMeta(q.member)

\* What a command that waits has at hand for its next request.
HasTarget(l, o, q) ==
  /\ l \in {"leaveFirst", "join", "joinGet", "promote", "promoteGet"} => o.party # ""
  /\ l \in {"partyPatch", "memberPatch", "refresh", "refreshStale"}
       => q.snap.id # "" /\ Self \in DOMAIN q.snap.members

CommandOK == /\ at \in Labels /\ IsPlan(plan) /\ ret \in Errors
             /\ HasTarget(at, op, plan)
OpOK == IsOp(op) /\ ops \in 0 .. MaxOps

LEMMA NoPlanType == IsPlan(NoPlan)
BY BlankType, SyncAssumption DEF IsPlan, NoPlan

LEMMA NoReqType == IsRequest(NoReq)
BY BlankType DEF IsRequest, NoReq, MaybeParty, MaybeAccount

LEMMA PendingType == Pending \in [st : Statuses, view : {Pending.view}] /\ IsFound(Pending.view)
BY BlankType DEF Pending, Statuses, IsFound

LEMMA ReturnType ==
  ASSUME NEW err \in Errors, Return(err)
  PROVE  WireOK' /\ CommandOK' /\ at' = "idle" /\ plan' = NoPlan
<1>1. WireOK'
  BY NoReqType, PendingType DEF Return, WireOK
<1> QED BY <1>1, NoPlanType DEF Return, CommandOK, HasTarget, Labels

LEMMA CallType ==
  ASSUME CommandOK, NEW l \in Labels, NEW r, IsRequest(r), Call(l, r), IsPlan(plan'),
         HasTarget(l, op', plan')
  PROVE  WireOK' /\ CommandOK' /\ at' = l
<1>1. WireOK'
  BY PendingType DEF Call, WireOK
<1> QED BY <1>1 DEF Call, CommandOK, HasTarget

LEMMA RequestType ==
  /\ \A a \in Accounts : IsRequest(GetUser(a))
  /\ \A p \in Parties : IsRequest(Get(p))
  /\ \A kind \in {"create", "pings", "intention"}, a \in Accounts : IsRequest(On(kind, "", a))
  /\ \A kind \in {"join", "leave", "promote"}, p \in Parties, a \in Accounts :
       IsRequest(On(kind, p, a))
<1>1. ASSUME NEW a \in Accounts PROVE IsRequest(GetUser(a))
  BY BlankType DEF IsRequest, NoReq, GetUser, MaybeParty, MaybeAccount
<1>2. ASSUME NEW p \in Parties PROVE IsRequest(Get(p))
  BY BlankType, ReducerAssumption DEF IsRequest, NoReq, Get, MaybeParty, MaybeAccount
<1>3. ASSUME NEW kind \in {"create", "pings", "intention"}, NEW a \in Accounts
      PROVE  IsRequest(On(kind, "", a))
  BY BlankType DEF IsRequest, NoReq, On, MaybeParty, MaybeAccount
<1>4. ASSUME NEW kind \in {"join", "leave", "promote"}, NEW p \in Parties, NEW a \in Accounts
      PROVE  IsRequest(On(kind, p, a))
  BY BlankType, ReducerAssumption DEF IsRequest, NoReq, On, MaybeParty, MaybeAccount
<1> QED BY <1>1, <1>2, <1>3, <1>4

LEMMA PartyPatchType ==
  ASSUME NEW s, IsParty(s), s.id # "", NEW u, IsPartyMeta(u)
  PROVE  IsRequest(PartyPatch(s, u))
BY DEF IsRequest, PartyPatch, On, NoReq, IsParty, MaybeParty, MaybeAccount

LEMMA MemberPatchType ==
  ASSUME NEW s, IsParty(s), s.id # "", Self \in DOMAIN s.members, NEW u, IsMeta(u)
  PROVE  IsRequest(MemberPatch(s, u))
<1>1. IsMember(s.members[Self])
  BY DEF IsParty
<1> QED BY <1>1, ServiceAssumption
        DEF IsMember, IsRequest, MemberPatch, On, NoReq, IsParty, MaybeParty, MaybeAccount

LEMMA IntentType ==
  ASSUME NEW o, IsOp(o)
  PROVE  IsPartyMeta(o.intent.party) /\ IsMeta(o.intent.member)
BY SyncAssumption, BlankType DEF IsOp, NoIntent

LEMMA MemberUpdatesType ==
  ASSUME NEW u, IsMeta(u), NEW current, NEW m \in MemberUpdates(u, current)
  PROVE  IsMeta(m)
<1>1. IsMeta(Differing(u, current))
  BY DifferingType DEF IsMeta
<1>2. IsMeta([k \in DOMAIN u \cap Stamped |-> u[k]])
  BY DEF IsMeta, IsMap
<1>3. IsMeta(Overlay(Differing(u, current), [k \in DOMAIN u \cap Stamped |-> u[k]], {}))
  BY <1>1, <1>2, OverlayType DEF IsMeta
<1> QED BY <1>1, <1>3 DEF MemberUpdates

LEMMA FetchedType ==
  ASSUME WireOK
  PROVE  /\ IsParty(Fetched) /\ Fetched.id = ans.view.id
         /\ DOMAIN Fetched.members = DOMAIN ans.view.members
         /\ Found => ans.view.id \in Parties
BY MapRemoteType DEF WireOK, IsFound, Fetched, Found

LEMMA RefusalType == {Refusal, "nil", "ErrPartyNotFound", "ErrInviteNotFound", "ErrPatchConflict",
                      "ctx", PromoteError} \subseteq Errors
<1>1. Refusal \in Errors
  BY DEF Refusal, Errors
<1> QED BY <1>1 DEF PromoteError, Errors

\* One attempt of a Set.
LEMMA PatchType ==
  ASSUME CommandOK, NEW o, IsOp(o), NEW s, IsParty(s), s.id # "", Self \in DOMAIN s.members,
         NEW attempt \in 0 .. MaxPatchRetries, Patch(o, s, attempt)
  PROVE  WireOK' /\ CommandOK'
<1>1. PICK member \in MemberUpdates(o.intent.member, s.members[Self].meta) :
        LET party == Differing(o.intent.party, s.meta)
        IN  IF party = Nothing /\ member = Nothing THEN Return("nil")
            ELSE /\ plan' = [snap |-> s, member |-> member, attempt |-> attempt]
                 /\ IF party # Nothing
                    THEN Call("partyPatch", PartyPatch(s, party))
                    ELSE Call("memberPatch", MemberPatch(s, member))
  BY DEF Patch
<1>2. PICK party : party = Differing(o.intent.party, s.meta)
  OBVIOUS
<1>3. IsPartyMeta(party) /\ IsMeta(member)
  BY <1>2, IntentType, DifferingType, MemberUpdatesType DEF IsPartyMeta
<1>4. CASE Return("nil")
  BY <1>4, ReturnType, RefusalType
<1>5. ASSUME plan' = [snap |-> s, member |-> member, attempt |-> attempt]
      PROVE  IsPlan(plan') /\ \A l : l \in {"partyPatch", "memberPatch"} => HasTarget(l, op', plan')
  BY <1>3, <1>5 DEF IsPlan, HasTarget
<1>6. ASSUME plan' = [snap |-> s, member |-> member, attempt |-> attempt],
             Call("partyPatch", PartyPatch(s, party))
      PROVE  WireOK' /\ CommandOK'
  <2>1. IsRequest(PartyPatch(s, party)) /\ "partyPatch" \in Labels
    BY <1>3, PartyPatchType DEF Labels
  <2> QED BY <1>5, <1>6, <2>1, CallType
<1>7. ASSUME plan' = [snap |-> s, member |-> member, attempt |-> attempt],
             Call("memberPatch", MemberPatch(s, member))
      PROVE  WireOK' /\ CommandOK'
  <2>1. IsRequest(MemberPatch(s, member)) /\ "memberPatch" \in Labels
    BY <1>3, MemberPatchType DEF Labels
  <2> QED BY <1>5, <1>7, <2>1, CallType
<1> QED BY <1>1, <1>2, <1>4, <1>6, <1>7

LEMMA TryType ==
  ASSUME CommandOK, IsParty(local), NEW o, IsOp(o), NEW attempt \in 0 .. MaxPatchRetries,
         Try(o, attempt)
  PROVE  WireOK' /\ CommandOK'
<1>1. CASE Return("ErrPartyNotFound")
  BY <1>1, ReturnType, RefusalType
<1>2. ASSUME plan' = [NoPlan EXCEPT !.snap = local, !.attempt = attempt],
             Call("hydrate", GetUser(Self))
      PROVE  WireOK' /\ CommandOK'
  <2>1. IsPlan(plan') /\ HasTarget("hydrate", op', plan') /\ "hydrate" \in Labels
    BY <1>2, BlankType DEF IsPlan, NoPlan, HasTarget, Labels
  <2> QED BY <1>2, <2>1, CallType, RequestType, ServiceAssumption
<1>3. CASE local.id # "" /\ Self \in DOMAIN local.members /\ Patch(o, local, attempt)
  BY <1>3, PatchType
<1> QED BY <1>1, <1>2, <1>3 DEF Try

\* What a step of a command leaves well typed.
StepOK == WireOK /\ CommandOK /\ IsParty(local) /\ OpOK

LEMMA EndType ==
  ASSUME NEW err \in Errors, Return(err), IsParty(local'), OpOK'
  PROVE  StepOK'
BY ReturnType DEF StepOK

LEMMA AskType ==
  ASSUME StepOK, NEW l \in Labels, NEW r, IsRequest(r), Call(l, r), IsPlan(plan'),
         HasTarget(l, op', plan'), IsParty(local'), OpOK'
  PROVE  StepOK'
BY CallType DEF StepOK

LEMMA QuietType ==
  ASSUME OpOK, Quiet
  PROVE  OpOK' /\ op' = op
BY DEF Quiet, OpOK, IsOp

LEMMA EnsureType ==
  ASSUME StepOK, Sync \/ Ensure \/ Create \/ CreateGet
  PROVE  StepOK'
<1>1. /\ Quiet /\ OpOK' /\ op' = op /\ IsParty(Fetched)
      /\ IsParty(local) /\ IsParty(EmptyParty) /\ IsPlan(plan)
  BY QuietType, FetchedType, BlankType DEF StepOK, CommandOK, Sync, Ensure, Create, CreateGet
<1>2. Refusal \in Errors /\ "nil" \in Errors
  BY RefusalType
<1>3. /\ IsRequest(GetUser(Self)) /\ IsRequest(On("create", "", Self))
      /\ {"create", "createGet"} \subseteq Labels
      /\ \A l \in {"create", "createGet"} : HasTarget(l, op, plan)
  BY RequestType, ServiceAssumption DEF Labels, HasTarget
<1>4. CASE Return(Refusal) /\ UNCHANGED local
  BY <1>1, <1>2, <1>4, EndType
<1>5. CASE Return("nil") /\ local' \in {local, Fetched, EmptyParty}
  BY <1>1, <1>2, <1>5, EndType
<1>6. CASE Call("create", On("create", "", Self)) /\ UNCHANGED <<local, plan>>
  BY <1>1, <1>3, <1>6, AskType
<1>7. CASE Call("createGet", GetUser(Self)) /\ UNCHANGED <<local, plan>>
  BY <1>1, <1>3, <1>7, AskType
<1> QED BY <1>4, <1>5, <1>6, <1>7 DEF Sync, Ensure, Create, CreateGet, Created

\* joinPartyLocked up to its first request.
LEMMA JoinLockedType ==
  ASSUME StepOK, NEW o, IsOp(o), NEW p \in Parties, JoinLocked(o, p), ops' \in 0 .. MaxOps
  PROVE  StepOK'
<1>1. IsOp(op') /\ op'.party = p /\ OpOK'
  BY DEF JoinLocked, IsOp, OpOK, MaybeParty
<1>2. local' = local /\ IsParty(local) /\ IsPlan(plan)
  BY DEF JoinLocked, StepOK, CommandOK
<1>3. CASE Return("nil")
  BY <1>1, <1>2, <1>3, EndType, RefusalType
<1>4. CASE local.id \notin {"", p} /\ Call("leaveFirst", On("leave", local.id, Self)) /\ UNCHANGED plan
  <2>1. local.id \in Parties
    BY <1>2, <1>4 DEF IsParty, MaybeParty
  <2>2. IsRequest(On("leave", local.id, Self)) /\ "leaveFirst" \in Labels
    BY <2>1, RequestType, ServiceAssumption DEF Labels
  <2>3. HasTarget("leaveFirst", op', plan')
    BY <1>1, ReducerAssumption DEF HasTarget
  <2> QED BY <1>1, <1>2, <1>4, <2>2, <2>3, AskType
<1>5. CASE Call("join", On("join", p, Self)) /\ UNCHANGED plan
  <2>1. IsRequest(On("join", p, Self)) /\ "join" \in Labels
    BY RequestType, ServiceAssumption DEF Labels
  <2>2. HasTarget("join", op', plan')
    BY <1>1, ReducerAssumption DEF HasTarget
  <2> QED BY <1>1, <1>2, <1>5, <2>1, <2>2, AskType
<1> QED BY <1>3, <1>4, <1>5 DEF JoinLocked

LEMMA JoinType ==
  ASSUME StepOK, LeaveFirst \/ Join \/ JoinGet \/ JoinHydrate
  PROVE  StepOK'
<1>1. /\ Quiet /\ OpOK' /\ op' = op /\ IsParty(Fetched)
      /\ IsParty(local) /\ IsParty(EmptyParty) /\ IsPlan(plan) /\ IsParty(plan.snap)
  BY QuietType, FetchedType, BlankType
     DEF StepOK, CommandOK, IsPlan, LeaveFirst, Join, JoinGet, JoinHydrate
<1>2. Refusal \in Errors /\ "nil" \in Errors
  BY RefusalType
<1>3. CASE Return(Refusal) /\ local' \in {local, EmptyParty}
  BY <1>1, <1>2, <1>3, EndType
<1>4. CASE Return("nil") /\ local' \in {local, Fetched, plan.snap}
  BY <1>1, <1>2, <1>4, EndType
<1>5. at \in {"leaveFirst", "join"} => op.party \in Parties
  BY DEF StepOK, CommandOK, HasTarget, OpOK, IsOp, MaybeParty
<1>6. CASE /\ at = "leaveFirst" /\ local' = EmptyParty
           /\ Call("join", On("join", op.party, Self)) /\ UNCHANGED plan
  <2>1. IsRequest(On("join", op.party, Self)) /\ "join" \in Labels
    BY <1>5, <1>6, RequestType, ServiceAssumption DEF Labels
  <2>2. HasTarget("join", op', plan')
    BY <1>1, <1>5, <1>6, ReducerAssumption DEF HasTarget
  <2> QED BY <1>1, <1>6, <2>1, <2>2, AskType
<1>7. CASE at = "join" /\ Call("joinGet", Get(op.party)) /\ UNCHANGED <<plan, local>>
  <2>1. IsRequest(Get(op.party)) /\ "joinGet" \in Labels
    BY <1>5, <1>7, RequestType DEF Labels
  <2>2. HasTarget("joinGet", op', plan')
    BY <1>1, <1>5, <1>7, ReducerAssumption DEF HasTarget
  <2> QED BY <1>1, <1>7, <2>1, <2>2, AskType
<1>8. CASE /\ plan' = [NoPlan EXCEPT !.snap = Fetched]
           /\ Call("joinHydrate", GetUser(Self)) /\ UNCHANGED local
  <2>1. IsRequest(GetUser(Self)) /\ "joinHydrate" \in Labels
    BY RequestType, ServiceAssumption DEF Labels
  <2>2. IsPlan(plan')
    BY <1>1, <1>8, BlankType, SyncAssumption DEF IsPlan, NoPlan
  <2>3. HasTarget("joinHydrate", op', plan')
    BY DEF HasTarget
  <2> QED BY <1>1, <1>8, <2>1, <2>2, <2>3, AskType
<1> QED BY <1>3, <1>4, <1>6, <1>7, <1>8 DEF LeaveFirst, Join, JoinGet, JoinHydrate, Answered

LEMMA JoinByType ==
  ASSUME StepOK, JoinMember \/ JoinInvite
  PROVE  StepOK'
<1>1. ops' = ops /\ IsOp(op) /\ ops \in 0 .. MaxOps
  BY DEF JoinMember, JoinInvite, StepOK, OpOK
<1>2. CASE Found /\ JoinLocked(op, ans.view.id)
  <2>1. ans.view.id \in Parties
    BY <1>2, FetchedType DEF StepOK
  <2> QED BY <1>1, <1>2, <2>1, JoinLockedType
<1>3. ASSUME UNCHANGED <<op, local>>, NEW err \in Errors, Return(err)
      PROVE  StepOK'
  BY <1>1, <1>3, EndType DEF StepOK, OpOK, IsOp
<1> QED BY <1>2, <1>3, RefusalType DEF JoinMember, JoinInvite

LEMMA MemberType ==
  ASSUME StepOK, Request \/ Leave \/ Promote \/ PromoteGet
  PROVE  StepOK'
<1>1. /\ Quiet /\ OpOK' /\ op' = op /\ IsParty(Fetched)
      /\ IsParty(local) /\ IsParty(EmptyParty) /\ IsPlan(plan) /\ IsOp(op)
  BY QuietType, FetchedType, BlankType DEF StepOK, CommandOK, OpOK, Request, Leave, Promote, PromoteGet
<1>2. Refusal \in Errors /\ "nil" \in Errors /\ PromoteError \in Errors
  BY RefusalType
<1>3. ASSUME NEW err \in {Refusal, "nil", PromoteError}, Return(err),
             local' \in {local, EmptyParty}
      PROVE  StepOK'
  BY <1>1, <1>2, <1>3, EndType
<1>4. CASE /\ local' = [Fetched EXCEPT !.captain = OrElse(@, op.acct)] /\ Return("nil")
  <2>1. OrElse(Fetched.captain, op.acct) \in MaybeAccount
    BY <1>1, OrElseType DEF IsParty, IsOp
  <2>2. IsParty(local')
    BY <1>1, <1>4, <2>1 DEF IsParty
  <2> QED BY <1>1, <1>2, <1>4, <2>2, EndType
<1>5. CASE local' = EmptyParty /\ Call("ensure", GetUser(Self)) /\ UNCHANGED plan
  <2>1. IsRequest(GetUser(Self)) /\ "ensure" \in Labels /\ HasTarget("ensure", op', plan')
    BY RequestType, ServiceAssumption DEF Labels, HasTarget
  <2> QED BY <1>1, <1>5, <2>1, AskType
<1>6. CASE at = "promote" /\ Call("promoteGet", Get(op.party)) /\ UNCHANGED <<plan, local>>
  <2>1. op.party \in Parties
    BY <1>1, <1>6 DEF StepOK, CommandOK, HasTarget, IsOp, MaybeParty
  <2>2. IsRequest(Get(op.party)) /\ "promoteGet" \in Labels
    BY <2>1, RequestType DEF Labels
  <2>3. HasTarget("promoteGet", op', plan')
    BY <1>1, <2>1, ReducerAssumption DEF HasTarget
  <2> QED BY <1>1, <1>6, <2>2, <2>3, AskType
<1>7. CASE Request
  BY <1>1, <1>3, <1>7 DEF Request
<1>8. CASE Leave
  BY <1>1, <1>3, <1>5, <1>8 DEF Leave
<1>9. CASE Promote
  BY <1>3, <1>6, <1>9 DEF Promote, Answered
<1>10. CASE PromoteGet
  BY <1>3, <1>4, <1>10 DEF PromoteGet
<1> QED BY <1>7, <1>8, <1>9, <1>10

LEMMA SetType ==
  ASSUME StepOK, Hydrate \/ PatchParty \/ PatchMember \/ Refresh \/ RefreshStale
  PROVE  StepOK'
<1>1. /\ Quiet /\ OpOK' /\ op' = op /\ IsParty(Fetched)
      /\ IsParty(local) /\ IsPlan(plan) /\ IsOp(op) /\ IsParty(plan.snap) /\ IsMeta(plan.member)
      /\ CommandOK /\ plan.attempt \in 0 .. MaxPatchRetries
  BY QuietType, FetchedType
     DEF StepOK, CommandOK, OpOK, IsPlan, Hydrate, PatchParty, PatchMember, Refresh, RefreshStale
<1>2. Refusal \in Errors /\ "nil" \in Errors /\ {"ErrPartyNotFound", "ErrPatchConflict"} \subseteq Errors
  BY RefusalType
<1>3. ASSUME NEW err \in {Refusal, "nil", "ErrPartyNotFound", "ErrPatchConflict"}, Return(err),
             local' \in {local, Fetched}
      PROVE  StepOK'
  BY <1>1, <1>2, <1>3, EndType
<1>4. CASE Hydrate
  <2>1. CASE Hydrates /\ local' = Fetched /\ Patch(op, Fetched, plan.attempt)
    <3>1. Fetched.id # "" /\ Self \in DOMAIN Fetched.members
      BY <2>1, FetchedType, ReducerAssumption DEF StepOK, Hydrates
    <3>2. WireOK' /\ CommandOK'
      BY <1>1, <2>1, <3>1, PatchType
    <3> QED BY <1>1, <2>1, <3>2 DEF StepOK
  <2> QED BY <1>3, <1>4, <2>1 DEF Hydrate
<1>5. at \in {"partyPatch", "memberPatch"} => plan.snap.id \in Parties /\ Self \in DOMAIN plan.snap.members
  BY <1>1 DEF CommandOK, HasTarget, IsParty, MaybeParty
<1>6. ASSUME at \in {"partyPatch", "memberPatch"}, NEW l \in {"refresh", "refreshStale"},
             Call(l, Get(plan.snap.id)), UNCHANGED <<plan, local>>
      PROVE  StepOK'
  <2>1. IsRequest(Get(plan.snap.id)) /\ l \in Labels
    BY <1>5, <1>6, RequestType DEF Labels
  <2>2. HasTarget(l, op', plan')
    BY <1>5, <1>6, ReducerAssumption DEF HasTarget
  <2> QED BY <1>1, <1>6, <2>1, <2>2, AskType
<1>7. CASE PatchParty
  <2>1. CASE Call("memberPatch", MemberPatch(plan.snap, plan.member)) /\ UNCHANGED <<plan, local>>
    <3>1. plan.snap.id # "" /\ Self \in DOMAIN plan.snap.members
      BY <1>5, <1>7, ReducerAssumption DEF PatchParty, Answered
    <3>2. IsRequest(MemberPatch(plan.snap, plan.member)) /\ "memberPatch" \in Labels
      BY <1>1, <3>1, MemberPatchType DEF Labels
    <3>3. HasTarget("memberPatch", op', plan')
      BY <2>1, <3>1 DEF HasTarget
    <3> QED BY <1>1, <2>1, <3>2, <3>3, AskType
  <2> QED BY <1>3, <1>6, <1>7, <2>1 DEF PatchParty, Answered
<1>8. CASE PatchMember
  BY <1>3, <1>6, <1>8 DEF PatchMember, Answered
<1>9. CASE Refresh
  BY <1>3, <1>9 DEF Refresh
<1>10. CASE RefreshStale
  <2>1. CASE local' = Fetched /\ plan.attempt # MaxPatchRetries /\ Sleep
    <3>1. WireOK'
      BY <2>1, NoReqType, PendingType DEF Sleep, WireOK
    <3>2. plan.attempt + 1 \in 0 .. MaxPatchRetries
      BY <1>1, <2>1, SyncAssumption
    <3>3. IsPlan(plan')
      BY <1>1, <2>1, <3>2 DEF Sleep, IsPlan
    <3>4. CommandOK'
      BY <1>1, <2>1, <3>3 DEF Sleep, CommandOK, HasTarget, Labels
    <3> QED BY <1>1, <2>1, <3>1, <3>4 DEF StepOK
  <2> QED BY <1>3, <1>10, <2>1 DEF RefreshStale
<1> QED BY <1>4, <1>7, <1>8, <1>9, <1>10

LEMMA WakeUpType ==
  ASSUME StepOK, FaultsOK, WakeUp
  PROVE  StepOK' /\ FaultsOK'
<1>1. OpOK' /\ local' = local /\ op' = op /\ IsOp(op) /\ plan.attempt \in 0 .. MaxPatchRetries
  BY DEF WakeUp, StepOK, OpOK, IsOp, CommandOK, IsPlan
<1>2. CASE Try(op, plan.attempt) /\ UNCHANGED world
  <2>1. WireOK' /\ CommandOK'
    BY <1>1, <1>2, TryType DEF StepOK
  <2> QED BY <1>1, <1>2, <2>1 DEF StepOK, FaultsOK, world
<1>3. CASE Return("ctx") /\ Spend("canceled")
  <2>1. StepOK'
    BY <1>1, <1>3, EndType, RefusalType DEF StepOK
  <2> QED BY <1>3, <2>1, SpendType
<1> QED BY <1>2, <1>3 DEF WakeUp

\* What Begin leaves of the types: the command that begins is one.
LEMMA BeginType ==
  ASSUME StepOK, NEW o, o \in [name : Ops, party : MaybeParty, acct : MaybeAccount,
                               intent : Intents \cup {NoIntent}], Begin(o)
  PROVE  IsOp(o) /\ ops' \in 0 .. MaxOps
BY SyncAssumption DEF Begin, StepOK, OpOK, IsOp

LEMMA OpensType ==
  ASSUME StepOK, NEW o, o \in [name : Ops, party : MaybeParty, acct : MaybeAccount,
                               intent : Intents \cup {NoIntent}], Opens(o)
  PROVE  IsOp(o) /\ OpOK' /\ op' = o /\ local' = local /\ IsParty(local')
BY BeginType DEF Opens, OpOK, IsOp, StepOK

\* A command that asks before it has touched anything.
LEMMA OpensAsksType ==
  ASSUME StepOK, NEW o, o \in [name : Ops, party : MaybeParty, acct : MaybeAccount,
                               intent : Intents \cup {NoIntent}], Opens(o),
         NEW l \in Labels, NEW r, IsRequest(r), Call(l, r), UNCHANGED plan,
         HasTarget(l, o, plan)
  PROVE  StepOK'
<1>1. OpOK' /\ op' = o /\ IsParty(local')
  BY OpensType
<1>2. IsPlan(plan') /\ HasTarget(l, op', plan')
  BY <1>1 DEF StepOK, CommandOK
<1> QED BY <1>1, <1>2, AskType

LEMMA ApplicationType ==
  ASSUME StepOK, Application
  PROVE  StepOK'
<1> DEFINE S == [name : Ops, party : MaybeParty, acct : MaybeAccount,
                 intent : Intents \cup {NoIntent}]
<1>0. NoOp.party \in MaybeParty /\ NoOp.acct \in MaybeAccount /\ NoOp.intent = NoIntent
  BY DEF NoOp, MaybeParty, MaybeAccount
<1>1. ASSUME NEW name \in Ops, NEW a \in MaybeAccount, NEW p \in MaybeParty
      PROVE  /\ [NoOp EXCEPT !.name = name] \in S
             /\ [NoOp EXCEPT !.name = name, !.acct = a] \in S
             /\ [NoOp EXCEPT !.name = name, !.party = p, !.acct = a] \in S
  BY DEF NoOp, MaybeParty, MaybeAccount
<1>2. ASSUME NEW l \in Labels \ {"leaveFirst", "join", "joinGet", "promote", "promoteGet",
                                 "partyPatch", "memberPatch", "refresh", "refreshStale"},
             NEW o
      PROVE  HasTarget(l, o, plan)
  BY DEF HasTarget
<1>3. /\ {"sync", "ensure", "create", "joinMember", "joinInvite", "request", "leave", "promote"}
           \subseteq Labels
      /\ Self \in Accounts
  BY ServiceAssumption DEF Labels
<1>4. CASE BeginSync
  <2>1. PICK o : /\ o = [NoOp EXCEPT !.name = "sync"]
                 /\ Opens(o) /\ Call("sync", GetUser(Self)) /\ UNCHANGED plan
    BY <1>4 DEF BeginSync
  <2>2. o \in S
    BY <1>1, <2>1 DEF Opens, Begin, NoOp, MaybeAccount, MaybeParty
  <2> QED BY <1>2, <1>3, <2>1, <2>2, OpensAsksType, RequestType
<1>5. CASE BeginEnsure
  <2>1. PICK o : /\ o = [NoOp EXCEPT !.name = "ensure"]
                 /\ Opens(o) /\ Call("ensure", GetUser(Self)) /\ UNCHANGED plan
    BY <1>5 DEF BeginEnsure
  <2>2. o \in S
    BY <1>1, <2>1 DEF Opens, Begin, NoOp, MaybeAccount, MaybeParty
  <2> QED BY <1>2, <1>3, <2>1, <2>2, OpensAsksType, RequestType
<1>6. CASE BeginCreate
  <2>1. PICK o : /\ o = [NoOp EXCEPT !.name = "create"]
                 /\ Opens(o) /\ Call("create", On("create", "", Self)) /\ UNCHANGED plan
    BY <1>6 DEF BeginCreate
  <2>2. o \in S
    BY <1>1, <2>1 DEF Opens, Begin, NoOp, MaybeAccount, MaybeParty
  <2> QED BY <1>2, <1>3, <2>1, <2>2, OpensAsksType, RequestType
<1>7. ASSUME NEW a \in Accounts, BeginJoinMember(a)
      PROVE  StepOK'
  <2>1. PICK o : /\ o = [NoOp EXCEPT !.name = "joinMember", !.acct = a]
                 /\ Opens(o) /\ Call("joinMember", GetUser(a)) /\ UNCHANGED plan
    BY <1>7 DEF BeginJoinMember
  <2>2. o \in S
    BY <2>1 DEF Opens, Begin, NoOp, MaybeAccount, MaybeParty
  <2> QED BY <1>2, <1>3, <2>1, <2>2, OpensAsksType, RequestType
<1>8. ASSUME NEW a \in Accounts, BeginJoinInvite(a)
      PROVE  StepOK'
  <2>1. PICK o : /\ o = [NoOp EXCEPT !.name = "joinInvite", !.acct = a]
                 /\ Opens(o) /\ Call("joinInvite", On("pings", "", a)) /\ UNCHANGED plan
    BY <1>8 DEF BeginJoinInvite
  <2>2. o \in S
    BY <2>1 DEF Opens, Begin, NoOp, MaybeAccount, MaybeParty
  <2> QED BY <1>2, <1>3, <2>1, <2>2, OpensAsksType, RequestType
<1>9. ASSUME NEW a \in Accounts, BeginRequest(a)
      PROVE  StepOK'
  <2>1. PICK o : /\ o = [NoOp EXCEPT !.name = "request", !.acct = a]
                 /\ Opens(o) /\ Call("request", On("intention", "", a)) /\ UNCHANGED plan
    BY <1>9 DEF BeginRequest
  <2>2. o \in S
    BY <2>1 DEF Opens, Begin, NoOp, MaybeAccount, MaybeParty
  <2> QED BY <1>2, <1>3, <2>1, <2>2, OpensAsksType, RequestType
<1>10. ASSUME NEW p \in Parties, BeginJoin(p)
       PROVE  StepOK'
  <2>1. PICK o : o = [NoOp EXCEPT !.name = "join"] /\ Begin(o) /\ JoinLocked(o, p)
    BY <1>10 DEF BeginJoin
  <2>2. o \in S
    BY <2>1 DEF Begin, NoOp, MaybeAccount, MaybeParty
  <2>3. IsOp(o) /\ ops' \in 0 .. MaxOps
    BY <2>1, <2>2, BeginType
  <2> QED BY <2>1, <2>3, JoinLockedType
<1>11. local.id # "" => local.id \in Parties
  BY DEF StepOK, IsParty, MaybeParty
<1>12. CASE BeginLeave
  <2>1. PICK o : /\ o = [NoOp EXCEPT !.name = "leave"]
                 /\ Opens(o)
                 /\ IF local.id = "" THEN Return("ErrPartyNotFound")
                    ELSE Call("leave", On("leave", local.id, Self)) /\ UNCHANGED plan
    BY <1>12 DEF BeginLeave
  <2>2. o \in S
    BY <2>1 DEF Opens, Begin, NoOp, MaybeAccount, MaybeParty
  <2>3. CASE Return("ErrPartyNotFound")
    BY <2>1, <2>2, <2>3, OpensType, EndType, RefusalType
  <2>4. CASE local.id # "" /\ Call("leave", On("leave", local.id, Self)) /\ UNCHANGED plan
    <3>1. IsRequest(On("leave", local.id, Self))
      BY <1>3, <1>11, <2>4, RequestType
    <3> QED BY <1>2, <1>3, <2>1, <2>2, <2>4, <3>1, OpensAsksType
  <2> QED BY <2>1, <2>3, <2>4
<1>13. ASSUME NEW p \in MaybeParty, NEW a \in Accounts, BeginPromote(p, a)
       PROVE  StepOK'
  <2>1. PICK o : /\ o = [NoOp EXCEPT !.name = "promote", !.party = OrElse(p, local.id), !.acct = a]
                 /\ Opens(o)
                 /\ IF local.id = "" THEN Return("ErrPartyNotFound")
                    ELSE Call("promote", On("promote", o.party, a)) /\ UNCHANGED plan
    BY <1>13 DEF BeginPromote
  <2>2. OrElse(p, local.id) \in MaybeParty
    BY OrElseType DEF StepOK, IsParty
  <2>3. o.party = OrElse(p, local.id) /\ o.name = "promote" /\ "promote" \in Ops
    BY <2>1 DEF Opens, Begin, NoOp
  <2>4. o \in S
    BY <2>1, <2>2, <2>3 DEF NoOp, MaybeAccount
  <2>5. CASE Return("ErrPartyNotFound")
    BY <2>1, <2>4, <2>5, OpensType, EndType, RefusalType
  <2>6. CASE local.id # "" /\ Call("promote", On("promote", o.party, a)) /\ UNCHANGED plan
    <3>1. o.party \in Parties
      BY <1>11, <2>2, <2>3, <2>6 DEF OrElse, MaybeParty
    <3>2. IsRequest(On("promote", o.party, a)) /\ HasTarget("promote", o, plan)
      BY <3>1, RequestType, ReducerAssumption DEF HasTarget
    <3> QED BY <1>3, <2>1, <2>4, <2>6, <3>2, OpensAsksType
  <2> QED BY <2>1, <2>5, <2>6
<1>14. ASSUME NEW i \in Intents, BeginSet(i)
       PROVE  StepOK'
  <2>1. PICK o : o = [NoOp EXCEPT !.name = "set", !.intent = i] /\ Opens(o) /\ Try(o, 0)
    BY <1>14 DEF BeginSet
  <2>2. o \in S
    BY <2>1 DEF Opens, Begin, NoOp, MaybeAccount, MaybeParty
  <2>3. IsOp(o) /\ OpOK' /\ IsParty(local')
    BY <2>1, <2>2, OpensType
  <2>4. 0 \in 0 .. MaxPatchRetries
    BY SyncAssumption
  <2> QED BY <2>1, <2>3, <2>4, TryType DEF StepOK
<1>15. Parties \cup {""} = MaybeParty
  BY DEF MaybeParty
<1> QED BY <1>4, <1>5, <1>6, <1>7, <1>8, <1>9, <1>10, <1>12, <1>13, <1>14, <1>15 DEF Application

-----------------------------------------------------------------------------
(* Type correctness *)

HistoryOK == been \subseteq MaybeParty /\ since \in 0 .. MaxChanges + MaxFaults

TypeInvariant ==
  WorldOK /\ FaultsOK /\ ChangesOK /\ CacheOK /\ StepOK /\ HistoryOK

LEMMA TypeInvariantImplies == TypeInvariant => TypeOK
BY DEF TypeInvariant, TypeOK, WorldOK, FaultsOK, ChangesOK, CacheOK, StepOK, HistoryOK,
       WireOK, CommandOK, OpOK, IsInbox, IsFound, IsPlan, IsOp

LEMMA HomeViewType ==
  ASSUME IsWorld(remote), Home(remote, Self) # ""
  PROVE  IsParty(mapRemoteParty(ViewOf(Home(remote, Self))))
<1>1. Home(remote, Self) \in Parties
  BY HomeType
<1>2. IsView(ViewOf(Home(remote, Self)))
  BY <1>1 DEF IsWorld, IsView, ViewOf, MaybeParty
<1> QED BY <1>2, MapRemoteType

LEMMA TypeInit == Init => TypeInvariant
<1> SUFFICES ASSUME Init PROVE TypeInvariant
  OBVIOUS
<1>1. WorldOK
  BY EmptyInbox, SyncAssumption DEF Init, WorldOK
<1>0. 0 \in 0 .. MaxChanges /\ 0 \in 0 .. MaxOps /\ 0 \in 0 .. MaxChanges + MaxFaults /\ 0 <= MaxFaults
  BY ServiceAssumption, SyncAssumption
<1>2. FaultsOK /\ ChangesOK
  <2>1. <<>> \in Seq(Faults) /\ Len(<<>>) = 0
    OBVIOUS
  <2> QED BY <1>0, <2>1 DEF Init, FaultsOK, ChangesOK
<1>3. IsParty(local)
  BY <1>1, HomeViewType, BlankType DEF Init, WorldOK
<1>4. IsReducerEvent(decoding)
  BY IdleType DEF Init
<1>5. WireOK
  BY NoReqType, PendingType DEF Init, WireOK
<1>6. CommandOK
  BY NoPlanType DEF Init, CommandOK, HasTarget, Labels, Errors
<1>7. OpOK
  <2>1. IsOp(NoOp)
    BY DEF IsOp, NoOp, MaybeParty, MaybeAccount
  <2> QED BY <1>0, <2>1 DEF Init, OpOK
<1>8. HistoryOK
  BY <1>0 DEF Init, HistoryOK
<1> QED BY <1>1, <1>2, <1>3, <1>4, <1>5, <1>6, <1>7, <1>8
        DEF TypeInvariant, CacheOK, StepOK, Init

LEMMA ClientType ==
  ASSUME StepOK, FaultsOK, Client
  PROVE  StepOK' /\ FaultsOK'
<1>1. CASE WakeUp
  BY <1>1, WakeUpType
<1>2. CASE Sync \/ Ensure \/ Create \/ CreateGet
  BY <1>2, EnsureType DEF Sync, Ensure, Create, CreateGet, Quiet, world, FaultsOK
<1>3. CASE LeaveFirst \/ Join \/ JoinGet \/ JoinHydrate
  BY <1>3, JoinType DEF LeaveFirst, Join, JoinGet, JoinHydrate, Quiet, world, FaultsOK
<1>4. CASE JoinMember \/ JoinInvite
  BY <1>4, JoinByType DEF JoinMember, JoinInvite, world, FaultsOK
<1>5. CASE Request \/ Leave \/ Promote \/ PromoteGet
  BY <1>5, MemberType DEF Request, Leave, Promote, PromoteGet, Quiet, world, FaultsOK
<1>6. CASE Hydrate \/ PatchParty \/ PatchMember \/ Refresh \/ RefreshStale
  BY <1>6, SetType DEF Hydrate, PatchParty, PatchMember, Refresh, RefreshStale, Quiet, world, FaultsOK
<1> QED BY <1>1, <1>2, <1>3, <1>4, <1>5, <1>6 DEF Client

\* What the steps of a command leave alone.
LEMMA CommandFrame ==
  ASSUME Client \/ Application
  PROVE  UNCHANGED <<remote, inbox, changes, decoding>>
<1>1. CASE Client
  BY <1>1 DEF Client, Sync, Ensure, Create, CreateGet, LeaveFirst, Join, JoinGet, JoinHydrate,
              JoinMember, JoinInvite, Request, Leave, Promote, PromoteGet, Hydrate,
              PatchParty, PatchMember, Refresh, RefreshStale, WakeUp, Quiet, world
<1>2. CASE Application
  BY <1>2 DEF Application, BeginSync, BeginEnsure, BeginCreate, BeginLeave, BeginJoin,
              BeginJoinMember, BeginJoinInvite, BeginRequest, BeginPromote, BeginSet,
              Opens, Begin, world
<1> QED BY <1>1, <1>2

LEMMA ApplicationFrame ==
  ASSUME Application
  PROVE  UNCHANGED faults
BY DEF Application, BeginSync, BeginEnsure, BeginCreate, BeginLeave, BeginJoin,
       BeginJoinMember, BeginJoinInvite, BeginRequest, BeginPromote, BeginSet,
       Opens, Begin, world

LEMMA TypeStep ==
  ASSUME TypeInvariant, [Next]_vars
  PROVE  TypeInvariant'
<1> USE DEF TypeInvariant
<1>1. CASE UNCHANGED vars
  BY <1>1 DEF vars, command, world, wire, WorldOK, FaultsOK, ChangesOK, CacheOK, StepOK, WireOK,
     CommandOK, OpOK, HistoryOK, HasTarget
<1>2. ASSUME Next
      PROVE  WorldOK' /\ FaultsOK' /\ ChangesOK' /\ CacheOK' /\ StepOK'
  <2>1. CASE Client
    <3>1. UNCHANGED <<remote, inbox, changes, decoding>>
      BY <2>1, CommandFrame
    <3>2. StepOK' /\ FaultsOK'
      BY <2>1, ClientType
    <3> QED BY <3>1, <3>2 DEF WorldOK, ChangesOK, CacheOK, StepOK
  <2>2. CASE Application
    <3>1. UNCHANGED <<remote, inbox, changes, decoding, faults>>
      BY <2>2, CommandFrame, ApplicationFrame
    <3>2. StepOK'
      BY <2>2, ApplicationType
    <3> QED BY <3>1, <3>2 DEF WorldOK, ChangesOK, CacheOK, StepOK, FaultsOK
  <2>3. CASE Decode /\ UNCHANGED command
    <3>1. WorldOK' /\ CacheOK'
      BY <2>3, DecodeType
    <3>2. UNCHANGED <<faults, changes, req, ans>>
      BY <2>3 DEF Decode, Apply, Complete, ApplyCompleted, Receive, wire, world
    <3>3. UNCHANGED <<at, op, plan, ret, ops>>
      BY <2>3 DEF command
    <3> QED BY <3>1, <3>2, <3>3
            DEF FaultsOK, ChangesOK, StepOK, WireOK, CommandOK, OpOK, CacheOK
  <2>4. CASE (Serve \/ Lose \/ Environment) /\ UNCHANGED <<local, decoding, command>>
    <3>1. WorldOK' /\ FaultsOK' /\ ChangesOK' /\ WireOK'
      BY <2>4, ServeType, LoseType, EnvironmentType DEF StepOK
    <3>2. UNCHANGED <<at, op, plan, ret, ops, local, decoding>>
      BY <2>4 DEF command
    <3> QED BY <3>1, <3>2 DEF StepOK, CommandOK, OpOK, CacheOK
  <2> QED BY <1>2, <2>1, <2>2, <2>3, <2>4 DEF Next, Step
<1>3. ASSUME Next
      PROVE  HistoryOK'
  <2>1. Home(remote, Self) \in MaybeParty /\ Home(remote', Self) \in MaybeParty
    BY HomeType
  <2>2. been' \subseteq MaybeParty
    BY <1>3, <2>1 DEF Next, Watch, HistoryOK
  <2>3. Len(faults) \in 0 .. MaxFaults /\ changes \in 0 .. MaxChanges
    BY DEF FaultsOK, ChangesOK
  <2>4. changes + Len(faults) \in 0 .. MaxChanges + MaxFaults
    BY <2>3, ServiceAssumption
  <2>5. since' \in 0 .. MaxChanges + MaxFaults
    BY <1>3, <2>4 DEF Next, Watch, HistoryOK, Disturbances
  <2> QED BY <2>2, <2>5 DEF HistoryOK
<1> QED BY <1>1, <1>2, <1>3

\* Whatever commands, answers, notifications, other accounts and faults come
\* together, the cached party, the metadata built from it and every request
\* are of their types, and no command makes more attempts than it may.
THEOREM TypeCorrect == Spec => []TypeOK
<1>1. Init => TypeInvariant
  BY TypeInit
<1>2. TypeInvariant /\ [Next]_vars => TypeInvariant'
  BY TypeStep
<1>3. TypeInvariant => TypeOK
  BY TypeInvariantImplies
<1> QED BY <1>1, <1>2, <1>3, PTL DEF Spec

-----------------------------------------------------------------------------
(* Which request is out while a command waits in which place. *)

\* Where a command has a snapshot to go on with.
Planning == {"joinHydrate", "hydrate", "partyPatch", "memberPatch", "refresh",
             "refreshStale", "sleep"}

Wired(l, o, q, r) ==
  /\ l \in {"idle", "sleep"} => r = NoReq
  /\ l \in {"sync", "ensure", "createGet", "hydrate", "joinHydrate"} => r = GetUser(Self)
  /\ l = "create" => r = On("create", "", Self)
  /\ l \in {"leaveFirst", "leave"} => r.kind = "leave"
  /\ l = "join" => r = On("join", o.party, Self)
  /\ l \in {"joinGet", "promoteGet"} => r = Get(o.party)
  /\ l = "promote" => r = On("promote", o.party, o.acct)
  /\ l = "joinMember" => r.kind = "user"
  /\ l = "joinInvite" => r.kind = "pings"
  /\ l = "request" => r.kind = "intention"
  /\ l \in {"refresh", "refreshStale"} => r = Get(q.snap.id)
  /\ l = "partyPatch" => r = PartyPatch(q.snap, r.updates)
  /\ l = "memberPatch" => r = MemberPatch(q.snap, r.updates)
  /\ l \notin Planning => q = NoPlan

Wiring == /\ Wired(at, op, plan, req)
          /\ at \in {"idle", "sleep"} => ans = Pending

LEMMA ReturnWired ==
  ASSUME NEW err, Return(err)
  PROVE  Wiring'
BY DEF Return, Wiring, Wired, Planning

LEMMA CallWired ==
  ASSUME NEW l, NEW r, Call(l, r), Wired(l, op', plan', r), l \notin {"idle", "sleep"}
  PROVE  Wiring'
BY DEF Call, Wiring

LEMMA KindOf ==
  /\ \A a : GetUser(a).kind = "user" /\ GetUser(a).acct = a
  /\ \A p : Get(p).kind = "party" /\ Get(p).party = p
  /\ \A kind, p, a : /\ On(kind, p, a).kind = kind
                     /\ On(kind, p, a).party = p
                     /\ On(kind, p, a).acct = a
  /\ NoReq.kind = "none"
BY DEF GetUser, Get, On, NoReq

LEMMA PatchFields ==
  ASSUME NEW s, NEW u
  PROVE  /\ PartyPatch(s, u).kind = "partyPatch" /\ PartyPatch(s, u).party = s.id
         /\ PartyPatch(s, u).rev = s.rev /\ PartyPatch(s, u).base = s.meta
         /\ PartyPatch(s, u).updates = u
         /\ MemberPatch(s, u).kind = "memberPatch" /\ MemberPatch(s, u).party = s.id
         /\ MemberPatch(s, u).rev = s.members[Self].rev
         /\ MemberPatch(s, u).base = s.members[Self].meta
         /\ MemberPatch(s, u).updates = u
BY DEF PartyPatch, MemberPatch, On, NoReq

\* The place of a command is known from the request that is out.
LEMMA WiredKinds ==
  ASSUME at \in Labels, Wired(at, op, plan, req)
  PROVE  /\ req.kind = "join" => at = "join"
         /\ req.kind = "create" => at = "create"
         /\ req.kind = "leave" => at \in {"leave", "leaveFirst"}
         /\ req.kind = "promote" => at = "promote"
         /\ req.kind = "partyPatch" => at = "partyPatch"
         /\ req.kind = "memberPatch" => at = "memberPatch"
<1>1. /\ GetUser(Self).kind = "user" /\ On("create", "", Self).kind = "create"
      /\ On("join", op.party, Self).kind = "join" /\ Get(op.party).kind = "party"
      /\ On("promote", op.party, op.acct).kind = "promote"
      /\ Get(plan.snap.id).kind = "party" /\ NoReq.kind = "none"
  BY DEF GetUser, Get, On, NoReq
<1>2. /\ PartyPatch(plan.snap, req.updates).kind = "partyPatch"
      /\ MemberPatch(plan.snap, req.updates).kind = "memberPatch"
  BY PatchFields
<1>3. CASE at \in {"idle", "sleep", "sync", "ensure", "createGet", "hydrate", "joinHydrate"}
  BY <1>1, <1>3 DEF Wired
<1>4. CASE at \in {"create", "leaveFirst", "leave", "join", "joinGet", "promoteGet", "promote"}
  BY <1>1, <1>4 DEF Wired
<1>5. CASE at \in {"joinMember", "joinInvite", "request", "refresh", "refreshStale"}
  BY <1>1, <1>5 DEF Wired
<1>6. CASE at \in {"partyPatch", "memberPatch"}
  BY <1>2, <1>6 DEF Wired
<1> QED BY <1>3, <1>4, <1>5, <1>6 DEF Labels

LEMMA PatchWired ==
  ASSUME NEW o, NEW s, NEW attempt, Patch(o, s, attempt)
  PROVE  Wiring'
<1>1. PICK member \in MemberUpdates(o.intent.member, s.members[Self].meta) :
        LET party == Differing(o.intent.party, s.meta)
        IN  IF party = Nothing /\ member = Nothing THEN Return("nil")
            ELSE /\ plan' = [snap |-> s, member |-> member, attempt |-> attempt]
                 /\ IF party # Nothing
                    THEN Call("partyPatch", PartyPatch(s, party))
                    ELSE Call("memberPatch", MemberPatch(s, member))
  BY DEF Patch
<1>2. PICK party : party = Differing(o.intent.party, s.meta)
  OBVIOUS
<1>3. CASE Return("nil")
  BY <1>3, ReturnWired
<1>4. ASSUME plan'.snap = s, Call("partyPatch", PartyPatch(s, party))
      PROVE  Wiring'
  <2>1. Wired("partyPatch", op', plan', PartyPatch(s, party))
    BY <1>4, PatchFields DEF Wired, Planning
  <2> QED BY <1>4, <2>1, CallWired
<1>5. ASSUME plan'.snap = s, Call("memberPatch", MemberPatch(s, member))
      PROVE  Wiring'
  <2>1. Wired("memberPatch", op', plan', MemberPatch(s, member))
    BY <1>5, PatchFields DEF Wired, Planning
  <2> QED BY <1>5, <2>1, CallWired
<1> QED BY <1>1, <1>2, <1>3, <1>4, <1>5

LEMMA TryWired ==
  ASSUME NEW o, NEW attempt, Try(o, attempt)
  PROVE  Wiring'
<1>1. CASE Return("ErrPartyNotFound")
  BY <1>1, ReturnWired
<1>2. CASE Call("hydrate", GetUser(Self))
  <2>1. Wired("hydrate", op', plan', GetUser(Self))
    BY DEF Wired, Planning
  <2> QED BY <1>2, <2>1, CallWired
<1>3. CASE Patch(o, local, attempt)
  BY <1>3, PatchWired
<1> QED BY <1>1, <1>2, <1>3 DEF Try

LEMMA JoinLockedWired ==
  ASSUME NEW o, IsOp(o), NEW p, JoinLocked(o, p), plan = NoPlan
  PROVE  Wiring'
<1>1. op'.party = p
  BY DEF JoinLocked, IsOp
<1>2. CASE Return("nil")
  BY <1>2, ReturnWired
<1>3. CASE Call("leaveFirst", On("leave", local.id, Self)) /\ UNCHANGED plan
  <2>1. Wired("leaveFirst", op', plan', On("leave", local.id, Self))
    BY <1>3, KindOf DEF Wired, Planning
  <2> QED BY <1>3, <2>1, CallWired
<1>4. CASE Call("join", On("join", p, Self)) /\ UNCHANGED plan
  <2>1. Wired("join", op', plan', On("join", p, Self))
    BY <1>1, <1>4 DEF Wired, Planning
  <2> QED BY <1>4, <2>1, CallWired
<1> QED BY <1>2, <1>3, <1>4 DEF JoinLocked

LEMMA ClientWired ==
  ASSUME StepOK, Wiring, Client
  PROVE  Wiring'
<1>a. ASSUME NEW l, NEW r, Call(l, r), UNCHANGED plan, UNCHANGED op, at \notin Planning,
             \/ l \in {"createGet", "ensure"} /\ r = GetUser(Self)
             \/ l = "create" /\ r = On("create", "", Self)
             \/ l = "join" /\ r = On("join", op.party, Self)
             \/ l \in {"joinGet", "promoteGet"} /\ r = Get(op.party)
      PROVE  Wiring'
  <2>1. plan' = NoPlan /\ op' = op
    BY <1>a DEF Wiring, Wired
  <2>2. Wired(l, op', plan', r) /\ l \notin {"idle", "sleep"}
    BY <1>a, <2>1 DEF Wired, Planning
  <2> QED BY <1>a, <2>2, CallWired
<1>b. ASSUME NEW l \in {"refresh", "refreshStale"}, Call(l, Get(plan.snap.id)), UNCHANGED plan
      PROVE  Wiring'
  <2>1. Wired(l, op', plan', Get(plan.snap.id)) /\ l \notin {"idle", "sleep"}
    BY <1>b DEF Wired, Planning
  <2> QED BY <1>b, <2>1, CallWired
<1>1. CASE Sync
  BY <1>1, ReturnWired DEF Sync
<1>2. CASE Ensure
  BY <1>2, <1>a, ReturnWired DEF Ensure, Quiet, Answered, Planning
<1>3. CASE Create
  BY <1>3, <1>a, ReturnWired DEF Create, Created, Quiet, Answered, Planning
<1>4. CASE CreateGet
  BY <1>4, ReturnWired DEF CreateGet, Created
<1>5. CASE LeaveFirst
  BY <1>5, <1>a, ReturnWired DEF LeaveFirst, Quiet, Answered, Planning
<1>6. CASE Join
  BY <1>6, <1>a, ReturnWired DEF Join, Quiet, Answered, Planning
<1>7. CASE JoinGet
  <2>1. CASE Call("joinHydrate", GetUser(Self))
    <3>1. Wired("joinHydrate", op', plan', GetUser(Self))
      BY DEF Wired, Planning
    <3> QED BY <2>1, <3>1, CallWired
  <2> QED BY <1>7, <2>1, ReturnWired DEF JoinGet
<1>8. CASE JoinHydrate
  BY <1>8, ReturnWired DEF JoinHydrate
<1>9. CASE JoinMember \/ JoinInvite
  <2>1. plan = NoPlan /\ IsOp(op)
    BY <1>9 DEF JoinMember, JoinInvite, Answered, Wiring, Wired, Planning, StepOK, OpOK
  <2> QED BY <1>9, <2>1, JoinLockedWired, ReturnWired DEF JoinMember, JoinInvite
<1>10. CASE Request
  BY <1>10, ReturnWired DEF Request
<1>11. CASE Leave
  BY <1>11, <1>a, ReturnWired DEF Leave, Quiet, Answered, Planning
<1>12. CASE Promote
  BY <1>12, <1>a, ReturnWired DEF Promote, Quiet, Answered, Planning
<1>13. CASE PromoteGet
  BY <1>13, ReturnWired DEF PromoteGet
<1>14. CASE Hydrate
  BY <1>14, PatchWired, ReturnWired DEF Hydrate
<1>15. CASE PatchParty
  <2>1. CASE Call("memberPatch", MemberPatch(plan.snap, plan.member)) /\ UNCHANGED plan
    <3>1. Wired("memberPatch", op', plan', MemberPatch(plan.snap, plan.member))
      BY <2>1, PatchFields DEF Wired, Planning
    <3> QED BY <2>1, <3>1, CallWired
  <2> QED BY <1>15, <1>b, <2>1, ReturnWired DEF PatchParty
<1>16. CASE PatchMember
  BY <1>16, <1>b, ReturnWired DEF PatchMember
<1>17. CASE Refresh
  BY <1>17, ReturnWired DEF Refresh
<1>18. CASE RefreshStale
  <2>1. CASE Sleep
    BY <2>1 DEF Sleep, Wiring, Wired, Planning
  <2> QED BY <1>18, <2>1, ReturnWired DEF RefreshStale
<1>19. CASE WakeUp
  BY <1>19, TryWired, ReturnWired DEF WakeUp
<1> QED BY <1>1, <1>2, <1>3, <1>4, <1>5, <1>6, <1>7, <1>8, <1>9, <1>10, <1>11, <1>12,
           <1>13, <1>14, <1>15, <1>16, <1>17, <1>18, <1>19 DEF Client

LEMMA ApplicationWired ==
  ASSUME StepOK, Wiring, Application
  PROVE  Wiring'
<1>0. at = "idle" /\ plan = NoPlan
  BY DEF Application, BeginSync, BeginEnsure, BeginCreate, BeginLeave, BeginJoin,
         BeginJoinMember, BeginJoinInvite, BeginRequest, BeginPromote, BeginSet,
         Opens, Begin, Wiring, Wired, Planning
<1>a. ASSUME NEW l, NEW r, Call(l, r), UNCHANGED plan,
             \/ l \in {"sync", "ensure"} /\ r = GetUser(Self)
             \/ l = "create" /\ r = On("create", "", Self)
             \/ l = "joinMember" /\ r.kind = "user"
             \/ l = "joinInvite" /\ r.kind = "pings"
             \/ l = "request" /\ r.kind = "intention"
             \/ l = "leave" /\ r.kind = "leave"
             \/ l = "promote" /\ r = On("promote", op'.party, op'.acct)
      PROVE  Wiring'
  <2>1. Wired(l, op', plan', r) /\ l \notin {"idle", "sleep"}
    BY <1>0, <1>a DEF Wired, Planning
  <2> QED BY <1>a, <2>1, CallWired
<1>1. CASE BeginSync
  BY <1>1, <1>a DEF BeginSync
<1>2. CASE BeginEnsure
  BY <1>2, <1>a DEF BeginEnsure
<1>3. CASE BeginCreate
  BY <1>3, <1>a DEF BeginCreate
<1>4. ASSUME NEW a, BeginJoinMember(a) \/ BeginJoinInvite(a) \/ BeginRequest(a)
      PROVE  Wiring'
  <2>1. /\ UNCHANGED plan
        /\ \/ Call("joinMember", GetUser(a))
           \/ Call("joinInvite", On("pings", "", a))
           \/ Call("request", On("intention", "", a))
    BY <1>4 DEF BeginJoinMember, BeginJoinInvite, BeginRequest
  <2>2. /\ GetUser(a).kind = "user" /\ On("pings", "", a).kind = "pings"
        /\ On("intention", "", a).kind = "intention"
    BY DEF GetUser, On, NoReq
  <2>3. CASE Call("joinMember", GetUser(a))
    BY <1>a, <2>1, <2>2, <2>3
  <2>4. CASE Call("joinInvite", On("pings", "", a))
    BY <1>a, <2>1, <2>2, <2>4
  <2>5. CASE Call("request", On("intention", "", a))
    BY <1>a, <2>1, <2>2, <2>5
  <2> QED BY <2>1, <2>3, <2>4, <2>5
<1>5. CASE BeginLeave
  <2>1. On("leave", local.id, Self).kind = "leave"
    BY KindOf
  <2>2. CASE Call("leave", On("leave", local.id, Self)) /\ UNCHANGED plan
    BY <1>a, <2>1, <2>2
  <2> QED BY <1>5, <2>2, ReturnWired DEF BeginLeave
<1>6. ASSUME NEW p, NEW a, BeginPromote(p, a) PROVE Wiring'
  <2>1. PICK o : /\ o = [NoOp EXCEPT !.name = "promote", !.party = OrElse(p, local.id), !.acct = a]
                 /\ op' = o
                 /\ IF local.id = "" THEN Return("ErrPartyNotFound")
                    ELSE Call("promote", On("promote", o.party, a)) /\ UNCHANGED plan
    BY <1>6 DEF BeginPromote, Opens
  <2>2. o.acct = a
    BY <2>1 DEF NoOp
  <2> QED BY <1>a, <2>1, <2>2, ReturnWired
<1>7. ASSUME NEW i, BeginSet(i) PROVE Wiring'
  BY <1>7, TryWired DEF BeginSet
<1>8. ASSUME NEW p \in Parties, BeginJoin(p) PROVE Wiring'
  <2>1. PICK o : o = [NoOp EXCEPT !.name = "join"] /\ Begin(o) /\ JoinLocked(o, p)
    BY <1>8 DEF BeginJoin
  <2>2. IsOp(o)
    BY <2>1 DEF Begin, NoOp, MaybeAccount, MaybeParty, IsOp
  <2> QED BY <1>0, <2>1, <2>2, JoinLockedWired
<1> QED BY <1>1, <1>2, <1>3, <1>4, <1>5, <1>6, <1>7, <1>8 DEF Application

LEMMA WiringStep ==
  ASSUME TypeInvariant, Wiring, [Next]_vars
  PROVE  Wiring'
<1>1. CASE UNCHANGED vars
  BY <1>1 DEF vars, command, wire, Wiring
<1>2. CASE Client
  BY <1>2, ClientWired DEF TypeInvariant
<1>3. CASE Application
  BY <1>3, ApplicationWired DEF TypeInvariant
<1>4. CASE Decode /\ UNCHANGED command
  <2>1. UNCHANGED <<at, op, plan, req, ans>>
    BY <1>4 DEF command, Decode, Apply, Complete, ApplyCompleted, Receive, wire
  <2> QED BY <2>1 DEF Wiring
<1>5. CASE (Serve \/ Lose \/ Environment) /\ UNCHANGED <<local, decoding, command>>
  <2>1. UNCHANGED <<at, op, plan>> /\ req' = req
    BY <1>5, ServeType, LoseType, EnvironmentType DEF command, TypeInvariant, StepOK
  <2>2. Serve \/ Lose => req # NoReq
    BY KindOf DEF Serve, ServeUser, ServeParty, ServeCreate, ServeJoin, ServeLeave, ServePromote,
       ServePartyPatch, ServeMemberPatch, ServePings, ServeIntention, Asked, Lose
  <2>3. Environment => ans' = ans
    BY DEF Environment, OtherJoins, OtherLeaves, KickedBy, OtherPromotes, OtherPatches,
           OtherSets, Acts
  <2>4. at \in {"idle", "sleep"} => ans' = ans
    BY <1>5, <2>2, <2>3 DEF Wiring, Wired
  <2> QED BY <2>1, <2>4 DEF Wiring
<1> QED BY <1>1, <1>2, <1>3, <1>4, <1>5 DEF Next, Step

-----------------------------------------------------------------------------
(* What the client knows of the service, when no notification comes in. *)

\* A copy of a party that was true once: nothing in it is newer than the
\* party, and what has the revision of the party has its metadata.
Knows(c) ==
  c.id # "" =>
    LET r == remote[c.id] IN
    /\ r.rev # 0 /\ c.rev <= r.rev
    /\ c.rev = r.rev => c.meta = r.meta
    /\ Self \in DOMAIN c.members \cap DOMAIN r.members =>
         /\ c.members[Self].rev <= r.members[Self].rev
         /\ c.members[Self].rev = r.members[Self].rev
              => c.members[Self].meta = r.members[Self].meta

\* A copy that has the types Knows compares.
IsCopy(c) ==
  /\ c.id \in MaybeParty /\ c.rev \in Nat
  /\ Self \in DOMAIN c.members => c.members[Self].rev \in Nat

LEMMA PartyIsCopy ==
  ASSUME NEW c, IsParty(c) \/ IsView(c)
  PROVE  IsCopy(c)
BY DEF IsParty, IsView, IsCopy, IsRemoteMembers, IsMember

\* How a party may change: every change of metadata has a revision of its own.
Grows(p) ==
  LET r == remote[p]
      s == remote'[p]
  IN  /\ r.rev <= s.rev
      /\ s.rev = r.rev => s.meta = r.meta
      /\ Self \in DOMAIN s.members \cap DOMAIN r.members =>
           /\ r.members[Self].rev <= s.members[Self].rev
           /\ s.members[Self].rev = r.members[Self].rev
                => s.members[Self].meta = r.members[Self].meta

\* This account becomes a member of p.
Enters(p) == Self \in DOMAIN remote'[p].members \ DOMAIN remote[p].members

LEMMA Between ==
  ASSUME NEW x \in Nat, NEW y \in Nat, NEW z \in Nat, x <= y, y <= z
  PROVE  /\ x <= z /\ (x = z => x = y /\ z = y)
         /\ y # 0 => z # 0
OBVIOUS

LEMMA KnowsStep ==
  ASSUME IsWorld(remote), IsWorld(remote'), NEW c, IsCopy(c), Knows(c),
         c.id # "" => Grows(c.id) /\ ~Enters(c.id)
  PROVE  c.id # "" =>
           LET s == remote'[c.id] IN
           /\ s.rev # 0 /\ c.rev <= s.rev
           /\ c.rev = s.rev => c.meta = s.meta
           /\ Self \in DOMAIN c.members \cap DOMAIN s.members =>
                /\ c.members[Self].rev <= s.members[Self].rev
                /\ c.members[Self].rev = s.members[Self].rev
                     => c.members[Self].meta = s.members[Self].meta
<1> SUFFICES ASSUME c.id # ""
             PROVE  LET s == remote'[c.id] IN
           /\ s.rev # 0 /\ c.rev <= s.rev
           /\ c.rev = s.rev => c.meta = s.meta
           /\ Self \in DOMAIN c.members \cap DOMAIN s.members =>
                /\ c.members[Self].rev <= s.members[Self].rev
                /\ c.members[Self].rev = s.members[Self].rev
                     => c.members[Self].meta = s.members[Self].meta
  OBVIOUS
<1>1. c.id \in Parties
  BY DEF IsCopy, MaybeParty
<1>2. /\ remote[c.id].rev \in Nat /\ remote'[c.id].rev \in Nat /\ c.rev \in Nat
      /\ IsRemoteMembers(remote[c.id].members) /\ IsRemoteMembers(remote'[c.id].members)
  BY <1>1 DEF IsWorld, IsCopy
<1>3. PICK x \in Nat, y \in Nat, z \in Nat :
        x = c.rev /\ y = remote[c.id].rev /\ z = remote'[c.id].rev
  BY <1>2
<1>4. /\ x <= y /\ y # 0 /\ (x = y => c.meta = remote[c.id].meta)
      /\ y <= z /\ (z = y => remote'[c.id].meta = remote[c.id].meta)
  BY <1>3 DEF Knows, Grows
<1>4a. x <= z /\ z # 0 /\ (x = z => x = y /\ z = y)
  BY <1>4, Between
<1>4b. x = z => c.meta = remote'[c.id].meta
  BY <1>4, <1>4a
<1>5. ASSUME Self \in DOMAIN c.members \cap DOMAIN remote'[c.id].members
      PROVE  /\ c.members[Self].rev <= remote'[c.id].members[Self].rev
             /\ c.members[Self].rev = remote'[c.id].members[Self].rev
                  => c.members[Self].meta = remote'[c.id].members[Self].meta
  <2>1. Self \in DOMAIN remote[c.id].members
    BY <1>5 DEF Enters
  <2>2. PICK i \in Nat, j \in Nat, k \in Nat :
          /\ i = c.members[Self].rev /\ j = remote[c.id].members[Self].rev
          /\ k = remote'[c.id].members[Self].rev
    BY <1>2, <1>5, <2>1 DEF IsCopy, IsRemoteMembers
  <2>3. i <= j /\ j <= k
    BY <1>5, <2>1, <2>2 DEF Knows, Grows
  <2>4. i <= k /\ (i = k => i = j /\ k = j)
    BY <2>3, Between
  <2>5. i = j => c.members[Self].meta = remote[c.id].members[Self].meta
    BY <1>5, <2>1, <2>2 DEF Knows
  <2>6. k = j => remote'[c.id].members[Self].meta = remote[c.id].members[Self].meta
    BY <1>5, <2>1, <2>2 DEF Grows
  <2>7. i = k => c.members[Self].meta = remote'[c.id].members[Self].meta
    BY <2>4, <2>5, <2>6
  <2> QED BY <2>2, <2>4, <2>7
<1> QED BY <1>3, <1>4a, <1>4b, <1>5

-----------------------------------------------------------------------------
(* Every change of the service lets a party grow. *)

LEMMA ChangeGrows ==
  ASSUME IsWorld(remote), NEW p \in Parties, NEW new, NEW notes, Change(p, new, notes),
         remote[p].rev <= new.rev, new.rev = remote[p].rev => new.meta = remote[p].meta,
         Self \in DOMAIN new.members \cap DOMAIN remote[p].members =>
           /\ remote[p].members[Self].rev <= new.members[Self].rev
           /\ new.members[Self].rev = remote[p].members[Self].rev
                => new.members[Self].meta = remote[p].members[Self].meta
  PROVE  /\ \A q \in Parties : Grows(q)
         /\ \A q \in Parties : Enters(q) => q = p /\ Self \in DOMAIN new.members
<1>1. remote'[p] = new /\ \A q \in Parties \ {p} : remote'[q] = remote[q]
  BY DEF Change, IsWorld
<1>2. Grows(p)
  BY <1>1 DEF Grows
<1>3. ASSUME NEW q \in Parties \ {p} PROVE Grows(q) /\ ~Enters(q)
  <2>1. remote[q].rev \in Nat /\ remote'[q] = remote[q]
    BY <1>1 DEF IsWorld
  <2>2. Self \in DOMAIN remote[q].members => remote[q].members[Self].rev \in Nat
    BY DEF IsWorld, IsRemoteMembers
  <2>3. remote[q].rev <= remote[q].rev
    BY <2>1
  <2>4. Self \in DOMAIN remote[q].members => remote[q].members[Self].rev <= remote[q].members[Self].rev
    BY <2>2
  <2> QED BY <2>1, <2>3, <2>4 DEF Grows, Enters
<1> QED BY <1>1, <1>2, <1>3 DEF Enters

LEMMA JoinNowGrows ==
  ASSUME IsWorld(remote), NEW p \in Parties, NEW a \in Accounts,
         a \notin DOMAIN remote[p].members, JoinNow(p, a)
  PROVE  /\ \A q \in Parties : Grows(q)
         /\ \A q \in Parties : Enters(q) => q = p /\ a = Self
         /\ remote'[p].rev = remote[p].rev + 1 /\ remote'[p].meta = remote[p].meta
         /\ remote'[p].members[a].rev = 0 /\ remote'[p].members[a].meta = Nothing
         /\ DOMAIN remote'[p].members = DOMAIN remote[p].members \cup {a}
<1> DEFINE m == [role |-> IF DOMAIN remote[p].members = {} THEN "CAPTAIN" ELSE "MEMBER",
                 rev |-> 0, meta |-> Nothing]
           new == [remote[p] EXCEPT !.rev = remote[p].rev + 1, !.members = Put(@, a, m)]
           notes == <<[Note("MEMBER_JOINED", p, a, remote[p].rev + 1) EXCEPT !.role = m.role]>>
<1>1. Change(p, new, notes)
  BY DEF JoinNow
<1>2. m.rev = 0 /\ m.meta = Nothing
  OBVIOUS
<1> HIDE DEF m, notes
<1>3. remote[p].rev \in Nat /\ IsRemoteMembers(remote[p].members)
  BY DEF IsWorld
<1>4. /\ new.rev = remote[p].rev + 1 /\ new.meta = remote[p].meta
      /\ new.members = Put(remote[p].members, a, m)
  BY DEF IsWorld
<1>5. /\ DOMAIN new.members = DOMAIN remote[p].members \cup {a}
      /\ new.members[a] = m
      /\ \A b \in DOMAIN remote[p].members : new.members[b] = remote[p].members[b]
  BY <1>4 DEF Put
<1>6. remote'[p] = new
  BY <1>1 DEF Change, IsWorld
<1> HIDE DEF new
<1>7. remote[p].rev <= new.rev /\ new.rev # remote[p].rev
  BY <1>3, <1>4
<1>8. Self \in DOMAIN remote[p].members => remote[p].members[Self].rev <= remote[p].members[Self].rev
  BY <1>3 DEF IsRemoteMembers
<1>9. /\ \A q \in Parties : Grows(q)
      /\ \A q \in Parties : Enters(q) => q = p /\ Self \in DOMAIN new.members
  BY <1>1, <1>5, <1>7, <1>8, ChangeGrows
<1> QED BY <1>2, <1>4, <1>5, <1>6, <1>9 DEF Enters

LEMMA GoneNowGrows ==
  ASSUME IsWorld(remote), NEW type, NEW p \in Parties, NEW a \in DOMAIN remote[p].members,
         GoneNow(type, p, a)
  PROVE  /\ \A q \in Parties : Grows(q) /\ ~Enters(q)
         /\ remote'[p].rev = remote[p].rev + 1
<1> DEFINE rev  == remote[p].rev + 1
           rest == Drop(remote[p].members, {a})
           heir == IF CaptainOf(rest) = "" /\ DOMAIN rest # {}
                   THEN CHOOSE b \in DOMAIN rest : TRUE ELSE ""
           ms == IF heir = "" THEN rest ELSE [rest EXCEPT ![heir].role = "CAPTAIN"]
           new == [remote[p] EXCEPT !.rev = rev, !.members = ms]
           tail == IF heir = "" THEN <<>> ELSE <<Note("MEMBER_NEW_CAPTAIN", p, heir, rev)>>
           notes == <<Note(type, p, a, rev)>> \o tail
<1>1. Change(p, new, notes)
  BY DEF GoneNow
<1>2. remote[p].rev \in Nat /\ IsRemoteMembers(remote[p].members)
  BY DEF IsWorld
<1>3. /\ IsRemoteMembers(rest) /\ DOMAIN rest \subseteq DOMAIN remote[p].members
      /\ \A b \in DOMAIN rest : rest[b] = remote[p].members[b]
  BY <1>2, RemoteMembersType DEF Drop
<1> HIDE DEF rest
<1>4. heir = "" \/ heir \in DOMAIN rest
  OBVIOUS
<1> HIDE DEF heir
<1>5. /\ DOMAIN ms = DOMAIN rest
      /\ \A b \in DOMAIN rest : ms[b].rev = rest[b].rev /\ ms[b].meta = rest[b].meta
  BY <1>3, <1>4 DEF IsRemoteMembers, IsMap
<1> HIDE DEF ms
<1>6. /\ new.rev = rev /\ new.meta = remote[p].meta /\ new.members = ms
  BY DEF IsWorld
<1>7. remote'[p] = new
  BY <1>1 DEF Change, IsWorld
<1> HIDE DEF new, notes
<1>8. remote[p].rev <= new.rev /\ new.rev # remote[p].rev
  BY <1>2, <1>6
<1>9. Self \in DOMAIN remote[p].members => remote[p].members[Self].rev <= remote[p].members[Self].rev
  BY <1>2 DEF IsRemoteMembers
<1>10. Self \in DOMAIN new.members \cap DOMAIN remote[p].members =>
         /\ new.members[Self].rev = remote[p].members[Self].rev
         /\ new.members[Self].meta = remote[p].members[Self].meta
  BY <1>3, <1>5, <1>6
<1>11. /\ \A q \in Parties : Grows(q)
       /\ \A q \in Parties : Enters(q) => q = p /\ Self \in DOMAIN new.members
  BY <1>1, <1>8, <1>9, <1>10, ChangeGrows
<1> QED BY <1>3, <1>5, <1>6, <1>7, <1>11 DEF Enters

LEMMA PromoteNowGrows ==
  ASSUME IsWorld(remote), NEW p \in Parties, NEW a, PromoteNow(p, a)
  PROVE  /\ \A q \in Parties : Grows(q) /\ ~Enters(q)
         /\ remote'[p].rev = remote[p].rev + 1
<1> DEFINE rev  == remote[p].rev + 1
           ms == [b \in DOMAIN remote[p].members |->
                    [remote[p].members[b] EXCEPT !.role = IF b = a THEN "CAPTAIN" ELSE "MEMBER"]]
           new == [remote[p] EXCEPT !.rev = rev, !.members = ms]
           notes == <<Note("MEMBER_NEW_CAPTAIN", p, a, rev)>>
<1>1. Change(p, new, notes)
  BY DEF PromoteNow
<1>2. remote[p].rev \in Nat /\ IsRemoteMembers(remote[p].members)
  BY DEF IsWorld
<1>3. /\ DOMAIN ms = DOMAIN remote[p].members
      /\ \A b \in DOMAIN ms : /\ ms[b].rev = remote[p].members[b].rev
                              /\ ms[b].meta = remote[p].members[b].meta
  BY <1>2 DEF IsRemoteMembers, IsMap
<1> HIDE DEF ms
<1>4. /\ new.rev = rev /\ new.meta = remote[p].meta /\ new.members = ms
  BY DEF IsWorld
<1>5. remote'[p] = new
  BY <1>1 DEF Change, IsWorld
<1> HIDE DEF new, notes
<1>6. remote[p].rev <= new.rev /\ new.rev # remote[p].rev
  BY <1>2, <1>4
<1>7. Self \in DOMAIN remote[p].members => remote[p].members[Self].rev <= remote[p].members[Self].rev
  BY <1>2 DEF IsRemoteMembers
<1>8. Self \in DOMAIN new.members \cap DOMAIN remote[p].members =>
         /\ new.members[Self].rev = remote[p].members[Self].rev
         /\ new.members[Self].meta = remote[p].members[Self].meta
  BY <1>3, <1>4
<1>9. /\ \A q \in Parties : Grows(q)
      /\ \A q \in Parties : Enters(q) => q = p /\ Self \in DOMAIN new.members
  BY <1>1, <1>6, <1>7, <1>8, ChangeGrows
<1> QED BY <1>3, <1>4, <1>5, <1>9 DEF Enters

LEMMA PatchNowGrows ==
  ASSUME IsWorld(remote), NEW p \in Parties, NEW u, NEW r, PatchNow(p, u, r)
  PROVE  /\ \A q \in Parties : Grows(q) /\ ~Enters(q)
         /\ remote'[p].rev = remote[p].rev + 1
<1> DEFINE rev  == remote[p].rev + 1
           new == [remote[p] EXCEPT !.rev = rev, !.meta = Overlay(@, u, r)]
           notes == <<[Note("PARTY_UPDATED", p, "", rev) EXCEPT !.updates = u, !.removed = r]>>
<1>1. Change(p, new, notes)
  BY DEF PatchNow
<1>2. remote[p].rev \in Nat /\ IsRemoteMembers(remote[p].members)
  BY DEF IsWorld
<1>3. new.rev = rev /\ new.members = remote[p].members
  BY DEF IsWorld
<1>4. remote'[p] = new
  BY <1>1 DEF Change, IsWorld
<1> HIDE DEF new, notes
<1>5. remote[p].rev <= new.rev /\ new.rev # remote[p].rev
  BY <1>2, <1>3
<1>6. Self \in DOMAIN remote[p].members => remote[p].members[Self].rev <= remote[p].members[Self].rev
  BY <1>2 DEF IsRemoteMembers
<1>7. /\ \A q \in Parties : Grows(q)
      /\ \A q \in Parties : Enters(q) => q = p /\ Self \in DOMAIN new.members
  BY <1>1, <1>3, <1>5, <1>6, ChangeGrows
<1> QED BY <1>3, <1>4, <1>7 DEF Enters

LEMMA MemberPatchNowGrows ==
  ASSUME IsWorld(remote), NEW p \in Parties, NEW a \in DOMAIN remote[p].members,
         NEW u, NEW r, MemberPatchNow(p, a, u, r)
  PROVE  /\ \A q \in Parties : Grows(q) /\ ~Enters(q)
         /\ a = Self => remote'[p].members[Self].rev = remote[p].members[Self].rev + 1
<1> DEFINE m == [remote[p].members[a] EXCEPT !.rev = @ + 1, !.meta = Overlay(@, u, r)]
           new == [remote[p] EXCEPT !.members[a] = m]
           notes == <<[Note("MEMBER_STATE_UPDATED", p, a, m.rev) EXCEPT !.updates = u, !.removed = r]>>
<1>1. Change(p, new, notes)
  BY DEF MemberPatchNow
<1>2. remote[p].rev \in Nat /\ IsRemoteMembers(remote[p].members)
  BY DEF IsWorld
<1>3. PICK old : old = remote[p].members[a] /\ old.rev \in Nat
                 /\ old \in [role : {"MEMBER", "CAPTAIN"}, rev : Nat, meta : {old.meta}]
  BY <1>2 DEF IsRemoteMembers
<1>4. m.rev = old.rev + 1
  BY <1>3
<1> HIDE DEF m, notes
<1>5. new = [remote[p] EXCEPT !.members = [remote[p].members EXCEPT ![a] = m]]
  OBVIOUS
<1>6. /\ new.rev = remote[p].rev /\ new.meta = remote[p].meta
      /\ new.members = [remote[p].members EXCEPT ![a] = m]
  BY <1>5 DEF IsWorld
<1>7. remote'[p] = new
  BY <1>1 DEF Change, IsWorld
<1> HIDE DEF new
<1>8. /\ DOMAIN new.members = DOMAIN remote[p].members /\ new.members[a] = m
      /\ \A b \in DOMAIN remote[p].members \ {a} : new.members[b] = remote[p].members[b]
  BY <1>2, <1>6 DEF IsRemoteMembers, IsMap
<1>9. remote[p].rev <= new.rev
  BY <1>2, <1>6
<1>10. old.rev <= m.rev /\ m.rev # old.rev
  BY <1>3, <1>4
<1>11. Self \in DOMAIN remote[p].members =>
         /\ remote[p].members[Self].rev <= new.members[Self].rev
         /\ new.members[Self].rev = remote[p].members[Self].rev
              => new.members[Self].meta = remote[p].members[Self].meta
  <2>1. CASE a = Self
    BY <1>3, <1>8, <1>10, <2>1
  <2>2. ASSUME a # Self, Self \in DOMAIN remote[p].members
        PROVE  /\ remote[p].members[Self].rev <= new.members[Self].rev
               /\ new.members[Self].meta = remote[p].members[Self].meta
    <3>1. remote[p].members[Self].rev \in Nat /\ new.members[Self] = remote[p].members[Self]
      BY <1>2, <1>8, <2>2 DEF IsRemoteMembers
    <3>2. remote[p].members[Self].rev <= remote[p].members[Self].rev
      BY <3>1
    <3> QED BY <3>1, <3>2
  <2> QED BY <2>1, <2>2
<1>12. /\ \A q \in Parties : Grows(q)
       /\ \A q \in Parties : Enters(q) => q = p /\ Self \in DOMAIN new.members
  BY <1>1, <1>6, <1>9, <1>11, ChangeGrows
<1> QED BY <1>3, <1>4, <1>7, <1>8, <1>12 DEF Enters

-----------------------------------------------------------------------------
(* The inductive invariant behind RevisionSafe *)

Copies == Knows(local) /\ Knows(plan.snap) /\ Knows(ans.view)

Known == /\ Wiring
         /\ inbox = <<>> /\ decoding = Idle
         /\ Copies
         /\ at = "join" => local.id = ""

LEMMA KnownImplies == TypeInvariant /\ Known => RevisionSafe
<1> SUFFICES ASSUME TypeInvariant, Known PROVE RevisionSafe
  OBVIOUS
<1>1. at \in Labels /\ Wired(at, op, plan, req) /\ Knows(plan.snap) /\ HasTarget(at, op, plan)
  BY DEF TypeInvariant, StepOK, CommandOK, Known, Wiring, Copies
<1>2. ASSUME PartyPatchFits PROVE req.base = remote[req.party].meta
  <2>1. at = "partyPatch"
    BY <1>1, <1>2, WiredKinds DEF PartyPatchFits
  <2>2. req = PartyPatch(plan.snap, req.updates)
    BY <1>1, <2>1 DEF Wired
  <2>3. req.party = plan.snap.id /\ req.rev = plan.snap.rev /\ req.base = plan.snap.meta
    BY <2>2, PatchFields
  <2>4. plan.snap.id # ""
    BY <1>1, <2>1 DEF HasTarget
  <2> QED BY <1>1, <1>2, <2>3, <2>4 DEF PartyPatchFits, Knows
<1>3. ASSUME MemberPatchFits PROVE req.base = remote[req.party].members[Self].meta
  <2>1. at = "memberPatch"
    BY <1>1, <1>3, WiredKinds DEF MemberPatchFits
  <2>2. req = MemberPatch(plan.snap, req.updates)
    BY <1>1, <2>1 DEF Wired
  <2>3. /\ req.party = plan.snap.id /\ req.rev = plan.snap.members[Self].rev
        /\ req.base = plan.snap.members[Self].meta
    BY <2>2, PatchFields
  <2>4. plan.snap.id # "" /\ Self \in DOMAIN plan.snap.members
    BY <1>1, <2>1 DEF HasTarget
  <2> QED BY <1>1, <1>3, <2>3, <2>4 DEF MemberPatchFits, Knows
<1> QED BY <1>2, <1>3 DEF RevisionSafe

LEMMA NobodyKnows ==
  /\ Knows(EmptyParty) /\ Knows(NoView) /\ Knows(NoPlan.snap) /\ Knows(Pending.view)
  /\ EmptyParty.id = "" /\ NoPlan.snap.id = "" /\ NoView.id = ""
BY DEF Knows, EmptyParty, NoView, NoPlan, Pending

\* What is mapped from an answer is known as well as the answer.
LEMMA MappedKnows ==
  ASSUME NEW v, IsView(v), Knows(v)
  PROVE  Knows(mapRemoteParty(v))
<1> DEFINE ms == [a \in DOMAIN v.members |->
                    MemberOf(v.members[a].role, v.members[a].rev,
                             v.members[a].meta, v.members[a].meta)]
<1>1. /\ mapRemoteParty(v).id = v.id /\ mapRemoteParty(v).rev = v.rev
      /\ mapRemoteParty(v).meta = v.meta /\ mapRemoteParty(v).members = ms
  BY DEF mapRemoteParty
<1>2. Self \in DOMAIN ms => /\ Self \in DOMAIN v.members
                            /\ ms[Self].rev = v.members[Self].rev
                            /\ ms[Self].meta = v.members[Self].meta
  BY DEF MemberOf
<1> HIDE DEF ms
<1> QED BY <1>1, <1>2 DEF Knows

\* A party as the service has it.
LEMMA ReportedKnows ==
  ASSUME IsWorld(remote), NEW p \in Parties, DOMAIN remote[p].members # {}
  PROVE  /\ Knows(ViewOf(p))
         /\ Knows([ViewOf(p) EXCEPT !.members = Drop(@, {Self})])
<1>1. remote[p].rev # 0 /\ remote[p].rev \in Nat
  BY NothingType DEF IsWorld, Unborn
<1>2. remote[p].rev <= remote[p].rev
  BY <1>1
<1>3. Self \in DOMAIN remote[p].members =>
        remote[p].members[Self].rev <= remote[p].members[Self].rev
  <2>1. Self \in DOMAIN remote[p].members => remote[p].members[Self].rev \in Nat
    BY DEF IsWorld, IsRemoteMembers
  <2> QED BY <2>1
<1>4. Knows(ViewOf(p))
  BY <1>1, <1>2, <1>3 DEF Knows, ViewOf
<1>5. PICK v : v = [ViewOf(p) EXCEPT !.members = Drop(remote[p].members, {Self})]
  OBVIOUS
<1>6. v.id = p /\ v.rev = remote[p].rev /\ v.meta = remote[p].meta /\ Self \notin DOMAIN v.members
  BY <1>5 DEF ViewOf, Drop
<1>7. Knows(v)
  BY <1>1, <1>2, <1>6 DEF Knows
<1> QED BY <1>4, <1>5, <1>7 DEF ViewOf

\* The copies at hand stay true while the service changes, unless this
\* account enters a party it has a copy of.
LEMMA GrowthKnows ==
  ASSUME TypeInvariant, Copies, IsWorld(remote'), UNCHANGED <<local, plan>>,
         \A q \in Parties : Grows(q),
         \A q \in Parties : Enters(q) => q \notin {local.id, plan.snap.id}
  PROVE  Knows(local)' /\ Knows(plan.snap)'
<1>1. IsCopy(local) /\ IsCopy(plan.snap) /\ IsWorld(remote)
  BY PartyIsCopy DEF TypeInvariant, StepOK, CommandOK, IsPlan, WorldOK
<1>2. local.id \in MaybeParty /\ plan.snap.id \in MaybeParty
  BY <1>1 DEF IsCopy
<1>3. local.id # "" => Grows(local.id) /\ ~Enters(local.id)
  BY <1>2 DEF MaybeParty
<1>4. plan.snap.id # "" => Grows(plan.snap.id) /\ ~Enters(plan.snap.id)
  BY <1>2 DEF MaybeParty
<1>5. Knows(local)'
  BY <1>1, <1>3, KnowsStep DEF Copies, Knows
<1>6. Knows(plan.snap)'
  BY <1>1, <1>4, KnowsStep DEF Copies, Knows
<1> QED BY <1>5, <1>6

LEMMA ReplyView ==
  ASSUME NEW st, NEW view, Reply(st, view)
  PROVE  ans'.view \in {view, NoView}
BY DEF Reply, Failed, Pending

LEMMA ServeKnows ==
  ASSUME TypeInvariant, Known, Serve, UNCHANGED <<local, plan>>
  PROVE  Copies'
<1>1. /\ IsWorld(remote) /\ IsInbox(inbox) /\ WireOK /\ at \in Labels
      /\ Wired(at, op, plan, req) /\ IsWorld(remote')
  BY ServeType DEF TypeInvariant, WorldOK, StepOK, CommandOK, Known, Wiring
<1>2. /\ req.kind \in {"party", "join", "leave", "promote", "partyPatch", "memberPatch"}
           => req.party \in Parties
  BY <1>1 DEF WireOK, IsRequest, MaybeParty
<1>3. ASSUME UNCHANGED remote, NEW view, Knows(view), ans'.view \in {view, NoView}
      PROVE  Copies'
  <2>1. Knows(ans'.view)
    BY <1>3, NobodyKnows
  <2>2. Knows(local) /\ Knows(plan.snap)
    BY DEF Known, Copies
  <2> QED BY <1>3, <2>1, <2>2 DEF Copies, Knows
<1>4. ASSUME NEW st, Refuse(st) PROVE Copies'
  BY <1>3, <1>4, ReplyView, NobodyKnows DEF Refuse
<1>5. ASSUME NEW view, Report(view), Knows(view) PROVE Copies'
  BY <1>3, <1>5, ReplyView DEF Report
<1>6. ASSUME ans'.view = NoView, \A q \in Parties : Grows(q) /\ ~Enters(q)
      PROVE  Copies'
  <2>1. Knows(local)' /\ Knows(plan.snap)'
    BY <1>1, <1>6, GrowthKnows DEF Known
  <2>2. ans'.view.id = ""
    BY <1>6, NobodyKnows
  <2>3. Knows(ans.view)'
    BY <2>2 DEF Knows
  <2> QED BY <2>1, <2>3 DEF Copies
<1>7. ASSUME NEW p, p = Home(remote, req.acct)
      PROVE  Knows(IF p = "" THEN NoView ELSE ViewOf(p))
  <2>1. CASE p = ""
    BY <2>1, NobodyKnows
  <2>2. CASE p # ""
    <3>1. p \in Parties /\ DOMAIN remote[p].members # {}
      BY <1>7, <2>2, HomeType
    <3> QED BY <1>1, <2>2, <3>1, ReportedKnows
  <2> QED BY <2>1, <2>2
<1>8. CASE ServeUser
  BY <1>4, <1>5, <1>7, <1>8 DEF ServeUser
<1>9. CASE ServeParty
  <2>1. CASE DOMAIN remote[req.party].members = {}
    BY <1>4, <1>9, <2>1 DEF ServeParty
  <2>2. CASE DOMAIN remote[req.party].members # {}
    <3>1. req.party \in Parties
      BY <1>2, <1>9 DEF ServeParty, Asked
    <3>2. /\ Knows(ViewOf(req.party))
          /\ Knows([ViewOf(req.party) EXCEPT !.members = Drop(@, {Self})])
      BY <1>1, <2>2, <3>1, ReportedKnows
    <3> QED BY <1>5, <1>9, <2>2, <3>2 DEF ServeParty
  <2> QED BY <2>1, <2>2
<1>10. CASE ServeCreate
  <2>1. CASE Home(remote, Self) # "" \/ Fresh = {}
    BY <1>4, <1>10, <2>1 DEF ServeCreate
  <2>2. CASE Home(remote, Self) = "" /\ Fresh # {}
    <3>1. PICK p : p = CHOOSE q \in Fresh : TRUE
      OBVIOUS
    <3>2. p \in Parties /\ remote[p].rev = 0
      BY <2>2, <3>1 DEF Fresh
    <3>3. JoinNow(p, Self) /\ Reply("ok", NewParty(p))
      BY <1>10, <2>2, <3>1 DEF ServeCreate
    <3>4. Self \notin DOMAIN remote[p].members /\ Self \in Accounts
      BY <2>2, <3>2, HomeType, ServiceAssumption
    <3>5. /\ \A q \in Parties : Grows(q)
          /\ \A q \in Parties : Enters(q) => q = p
          /\ remote'[p].rev = remote[p].rev + 1 /\ remote'[p].meta = remote[p].meta
          /\ remote'[p].members[Self].rev = 0 /\ remote'[p].members[Self].meta = Nothing
      BY <1>1, <3>2, <3>3, <3>4, JoinNowGrows
    <3>6. p \notin {local.id, plan.snap.id}
      BY <3>2, ReducerAssumption DEF Known, Copies, Knows
    <3>7. Knows(local)' /\ Knows(plan.snap)'
      BY <1>1, <3>5, <3>6, GrowthKnows DEF Known
    <3>8. remote'[p].rev = 1 /\ remote'[p].meta = Nothing
      BY <1>1, <3>2, <3>5 DEF IsWorld, Unborn
    <3>9. PICK v : v = NewParty(p)
      OBVIOUS
    <3>10. /\ v.id = p /\ v.rev = 1 /\ v.meta = Nothing
           /\ v.members[Self].rev = 0 /\ v.members[Self].meta = Nothing
      BY <3>9 DEF NewParty, Put
    <3>11. ans'.view \in {v, NoView}
      BY <3>3, <3>9, ReplyView
    <3>12. ASSUME ans'.view = NoView PROVE Knows(ans.view)'
      <4>1. ans'.view.id = ""
        BY <3>12, NobodyKnows
      <4> QED BY <4>1 DEF Knows
    <3>13. ASSUME ans'.view = v PROVE Knows(ans.view)'
      <4>1. 1 <= remote'[p].rev /\ remote'[p].rev # 0 /\ 0 <= remote'[p].members[Self].rev
        BY <3>5, <3>8
      <4>2. /\ ans'.view.id = p /\ ans'.view.rev = 1 /\ ans'.view.meta = Nothing
            /\ ans'.view.members[Self].rev = 0 /\ ans'.view.members[Self].meta = Nothing
        BY <3>10, <3>13
      <4> QED BY <3>5, <3>8, <4>1, <4>2 DEF Knows
    <3>14. Knows(ans.view)'
      BY <3>11, <3>12, <3>13
    <3> QED BY <3>7, <3>14 DEF Copies
  <2> QED BY <2>1, <2>2
<1>11. CASE ServeJoin
  <2>1. CASE DOMAIN remote[req.party].members = {} \/ Home(remote, Self) # ""
    BY <1>4, <1>11, <2>1 DEF ServeJoin
  <2>2. CASE DOMAIN remote[req.party].members # {} /\ Home(remote, Self) = ""
    <3>1. JoinNow(req.party, Self) /\ Reply("ok", NoView) /\ req.kind = "join"
      BY <1>11, <2>2 DEF ServeJoin, Asked
    <3>7. at = "join" /\ local.id = ""
      BY <1>1, <3>1, WiredKinds DEF Known
    <3>8. plan = NoPlan
      BY <1>1, <3>7 DEF Wired, Planning
    <3>2. at = "join" /\ local.id = "" /\ plan.snap.id = ""
      BY <3>7, <3>8 DEF NoPlan, EmptyParty
    <3>3. req.party \in Parties /\ Self \notin DOMAIN remote[req.party].members
      BY <1>2, <2>2, <3>1, HomeType
    <3>4. \A q \in Parties : Grows(q)
      BY <1>1, <3>1, <3>3, JoinNowGrows, ServiceAssumption
    <3>5. Knows(local)' /\ Knows(plan.snap)'
      BY <1>1, <3>2, <3>4, GrowthKnows, ReducerAssumption DEF Known
    <3>9. ans'.view.id = ""
      BY <3>1, ReplyView, NobodyKnows
    <3>6. Knows(ans.view)'
      BY <3>9 DEF Knows
    <3> QED BY <3>5, <3>6 DEF Copies
  <2> QED BY <2>1, <2>2
<1>12. CASE ServeLeave
  <2>1. CASE Self \notin DOMAIN remote[req.party].members
    BY <1>4, <1>12, <2>1 DEF ServeLeave
  <2>2. CASE Self \in DOMAIN remote[req.party].members
    <3>1. GoneNow("MEMBER_LEFT", req.party, Self) /\ Reply("ok", NoView) /\ req.party \in Parties
      BY <1>2, <1>12, <2>2 DEF ServeLeave, Asked
    <3> QED BY <1>1, <1>6, <2>2, <3>1, GoneNowGrows, ReplyView
  <2> QED BY <2>1, <2>2
<1>13. CASE ServePromote
  <2>1. CASE Refuse("noParty") \/ Refuse("forbidden") \/ Refuse("notFound")
    BY <1>4, <2>1
  <2>2. CASE PromoteNow(req.party, req.acct) /\ Reply("ok", NoView)
    <3>1. req.party \in Parties
      BY <1>2, <1>13 DEF ServePromote, Asked
    <3> QED BY <1>1, <1>6, <2>2, <3>1, PromoteNowGrows, ReplyView
  <2> QED BY <1>13, <2>1, <2>2 DEF ServePromote
<1>14. CASE ServePartyPatch
  <2>1. CASE Refuse("forbidden") \/ Refuse("stale")
    BY <1>4, <2>1
  <2>2. CASE PatchNow(req.party, req.updates, {}) /\ Reply("ok", NoView)
    <3>1. req.party \in Parties
      BY <1>2, <1>14 DEF ServePartyPatch, Asked
    <3> QED BY <1>1, <1>6, <2>2, <3>1, PatchNowGrows, ReplyView
  <2> QED BY <1>14, <2>1, <2>2 DEF ServePartyPatch
<1>15. CASE ServeMemberPatch
  <2>1. CASE Refuse("notFound") \/ Refuse("stale")
    BY <1>4, <2>1
  <2>2. CASE /\ Self \in DOMAIN remote[req.party].members
             /\ MemberPatchNow(req.party, Self, req.updates, {}) /\ Reply("ok", NoView)
    <3>1. req.party \in Parties
      BY <1>2, <1>15 DEF ServeMemberPatch, Asked
    <3> QED BY <1>1, <1>6, <2>2, <3>1, MemberPatchNowGrows, ReplyView
  <2> QED BY <1>15, <2>1, <2>2 DEF ServeMemberPatch
<1>16. CASE ServePings
  BY <1>5, <1>7, <1>16 DEF ServePings
<1>17. CASE ServeIntention
  BY <1>5, <1>17, NobodyKnows DEF ServeIntention
<1> QED BY <1>8, <1>9, <1>10, <1>11, <1>12, <1>13, <1>14, <1>15, <1>16, <1>17 DEF Serve

LEMMA EnvironmentGrows ==
  ASSUME IsWorld(remote), Environment
  PROVE  \A q \in Parties : Grows(q) /\ ~Enters(q)
<1>1. PICK p \in Parties, a \in Accounts \ {Self} :
        \/ OtherJoins(p, a) \/ OtherLeaves(p, a) \/ KickedBy(p, a)
        \/ OtherPromotes(p, a) \/ OtherPatches(p, a) \/ OtherSets(p, a)
  BY DEF Environment
<1>2. CASE OtherJoins(p, a)
  <2>1. JoinNow(p, a) /\ a \notin DOMAIN remote[p].members
    BY <1>2, HomeType DEF OtherJoins
  <2> QED BY <2>1, JoinNowGrows
<1>3. CASE OtherLeaves(p, a)
  BY <1>3, GoneNowGrows DEF OtherLeaves
<1>4. CASE KickedBy(p, a)
  BY <1>4, GoneNowGrows DEF KickedBy
<1>5. CASE OtherPromotes(p, a)
  BY <1>5, PromoteNowGrows DEF OtherPromotes
<1>6. CASE OtherPatches(p, a)
  BY <1>6, PatchNowGrows DEF OtherPatches
<1>7. CASE OtherSets(p, a)
  BY <1>7, MemberPatchNowGrows DEF OtherSets
<1> QED BY <1>1, <1>2, <1>3, <1>4, <1>5, <1>6, <1>7

LEMMA EnvironmentKnows ==
  ASSUME TypeInvariant, Known, Environment, UNCHANGED <<local, plan>>
  PROVE  Copies'
<1>1. IsWorld(remote) /\ IsWorld(remote') /\ UNCHANGED ans
  BY EnvironmentType
     DEF TypeInvariant, StepOK, WorldOK, Environment, OtherJoins, OtherLeaves, KickedBy,
         OtherPromotes, OtherPatches, OtherSets, Acts
<1>2. \A q \in Parties : Grows(q) /\ ~Enters(q)
  BY <1>1, EnvironmentGrows
<1>3. Knows(local)' /\ Knows(plan.snap)'
  BY <1>1, <1>2, GrowthKnows DEF Known
<1>4. IsCopy(ans.view) /\ ans.view.id \in MaybeParty
  BY PartyIsCopy DEF TypeInvariant, StepOK, WireOK, IsFound, IsCopy
<1>5. ans.view.id # "" => Grows(ans.view.id) /\ ~Enters(ans.view.id)
  BY <1>2, <1>4 DEF MaybeParty
<1>6. Knows(ans.view)'
  BY <1>1, <1>4, <1>5, KnowsStep DEF Known, Copies, Knows
<1> QED BY <1>3, <1>6 DEF Copies

\* What a step of a command may leave behind: copies it had, or the answer.
Promoted == local' = [Fetched EXCEPT !.captain = local'.captain]
Moves == /\ local' \in {local, EmptyParty, plan.snap, Fetched} \/ Promoted
         /\ plan'.snap \in {plan.snap, EmptyParty, local, Fetched}
         /\ ans' = Pending
         /\ at' = "join" => local'.id = ""

LEMMA ReturnMoves ==
  ASSUME NEW err, Return(err)
  PROVE  plan'.snap = EmptyParty /\ ans' = Pending /\ at' # "join"
BY DEF Return, NoPlan

LEMMA PatchMoves ==
  ASSUME NEW o, NEW s, NEW attempt, Patch(o, s, attempt)
  PROVE  plan'.snap \in {s, EmptyParty} /\ ans' = Pending /\ at' # "join"
<1>1. PICK member \in MemberUpdates(o.intent.member, s.members[Self].meta) :
        LET party == Differing(o.intent.party, s.meta)
        IN  IF party = Nothing /\ member = Nothing THEN Return("nil")
            ELSE /\ plan' = [snap |-> s, member |-> member, attempt |-> attempt]
                 /\ IF party # Nothing
                    THEN Call("partyPatch", PartyPatch(s, party))
                    ELSE Call("memberPatch", MemberPatch(s, member))
  BY DEF Patch
<1>2. CASE Return("nil")
  BY <1>2, ReturnMoves
<1>3. CASE ~Return("nil")
  BY <1>1, <1>3 DEF Call
<1> QED BY <1>2, <1>3

LEMMA TryMoves ==
  ASSUME NEW o, NEW attempt, Try(o, attempt)
  PROVE  plan'.snap \in {local, EmptyParty} /\ ans' = Pending /\ at' # "join"
<1>1. CASE Return("ErrPartyNotFound")
  BY <1>1, ReturnMoves
<1>2. CASE Call("hydrate", GetUser(Self)) /\ plan' = [NoPlan EXCEPT !.snap = local, !.attempt = attempt]
  BY <1>2 DEF Call, NoPlan
<1>3. CASE Patch(o, local, attempt)
  BY <1>3, PatchMoves
<1> QED BY <1>1, <1>2, <1>3 DEF Try

LEMMA JoinLockedMoves ==
  ASSUME NEW o, NEW p, JoinLocked(o, p)
  PROVE  Moves
<1>1. CASE Return("nil")
  BY <1>1, ReturnMoves DEF JoinLocked, Moves
<1>2. CASE Call("leaveFirst", On("leave", local.id, Self)) /\ UNCHANGED plan
  BY <1>2 DEF Call, JoinLocked, Moves
<1>3. CASE local.id = "" /\ Call("join", On("join", p, Self)) /\ UNCHANGED plan
  BY <1>3 DEF Call, JoinLocked, Moves
<1> QED BY <1>1, <1>2, <1>3 DEF JoinLocked

LEMMA ClientMoves ==
  ASSUME StepOK, Client
  PROVE  Moves
<1>1. CASE Sync
  BY <1>1, ReturnMoves DEF Sync, Moves
<1>2. CASE Ensure
  BY <1>2, ReturnMoves DEF Call, Ensure, Moves
<1>3. CASE Create
  BY <1>3, ReturnMoves DEF Call, Create, Created, Moves
<1>4. CASE CreateGet
  BY <1>4, ReturnMoves DEF CreateGet, Created, Moves
<1>5. CASE LeaveFirst
  BY <1>5, ReturnMoves, NobodyKnows DEF Call, LeaveFirst, Moves
<1>6. CASE Join
  BY <1>6, ReturnMoves DEF Call, Join, Moves
<1>7. CASE JoinGet
  <2>1. CASE plan' = [NoPlan EXCEPT !.snap = Fetched] /\ Call("joinHydrate", GetUser(Self)) /\ UNCHANGED local
    <3>1. plan'.snap = Fetched
      BY <2>1 DEF NoPlan
    <3> QED BY <2>1, <3>1 DEF Call, Moves
  <2> QED BY <1>7, <2>1, ReturnMoves DEF JoinGet, Moves
<1>8. CASE JoinHydrate
  BY <1>8, ReturnMoves DEF JoinHydrate, Moves
<1>9. CASE JoinMember \/ JoinInvite
  BY <1>9, ReturnMoves, JoinLockedMoves DEF JoinMember, JoinInvite, Moves
<1>10. CASE Request
  BY <1>10, ReturnMoves DEF Request, Moves
<1>11. CASE Leave
  BY <1>11, ReturnMoves DEF Call, Leave, Moves
<1>12. CASE Promote
  BY <1>12, ReturnMoves DEF Call, Promote, Moves
<1>13. CASE PromoteGet
  <2>1. CASE Return("nil") /\ local' = [Fetched EXCEPT !.captain = OrElse(Fetched.captain, op.acct)]
    <3>1. local'.captain = OrElse(Fetched.captain, op.acct)
      BY <2>1 DEF mapRemoteParty, Fetched
    <3> QED BY <2>1, <3>1, ReturnMoves DEF Moves, Promoted
  <2> QED BY <1>13, <2>1, ReturnMoves DEF PromoteGet, Moves
<1>14. CASE Hydrate
  BY <1>14, PatchMoves, ReturnMoves DEF Hydrate, Moves
<1>15. CASE PatchParty
  BY <1>15, ReturnMoves DEF Call, PatchParty, Moves
<1>16. CASE PatchMember
  BY <1>16, ReturnMoves DEF Call, PatchMember, Moves
<1>17. CASE Refresh
  BY <1>17, ReturnMoves DEF Refresh, Moves
<1>18. CASE RefreshStale
  <2>1. ASSUME Sleep PROVE plan'.snap = plan.snap /\ ans' = Pending /\ at' # "join"
    BY <2>1 DEF Sleep, StepOK, CommandOK, IsPlan
  <2> QED BY <1>18, <2>1, ReturnMoves DEF RefreshStale, Moves
<1>19. CASE WakeUp
  BY <1>19, TryMoves, ReturnMoves DEF WakeUp, Moves
<1> QED BY <1>1, <1>2, <1>3, <1>4, <1>5, <1>6, <1>7, <1>8, <1>9, <1>10, <1>11, <1>12,
           <1>13, <1>14, <1>15, <1>16, <1>17, <1>18, <1>19 DEF Client

LEMMA ApplicationMoves ==
  ASSUME Application
  PROVE  Moves
<1>1. CASE BeginSync
  BY <1>1 DEF Call, BeginSync, Opens, Moves
<1>2. CASE BeginEnsure \/ BeginCreate
  BY <1>2 DEF Call, BeginEnsure, BeginCreate, Opens, Moves
<1>3. CASE BeginLeave
  BY <1>3, ReturnMoves DEF Call, BeginLeave, Opens, Moves
<1>4. ASSUME NEW p, BeginJoin(p) PROVE Moves
  BY <1>4, JoinLockedMoves DEF BeginJoin
<1>5. ASSUME NEW a, BeginJoinMember(a) \/ BeginJoinInvite(a) \/ BeginRequest(a) PROVE Moves
  BY <1>5 DEF Call, BeginJoinMember, BeginJoinInvite, BeginRequest, Opens, Moves
<1>6. ASSUME NEW p, NEW a, BeginPromote(p, a) PROVE Moves
  BY <1>6, ReturnMoves DEF Call, BeginPromote, Opens, Moves
<1>7. ASSUME NEW i, BeginSet(i) PROVE Moves
  BY <1>7, TryMoves DEF BeginSet, Opens, Moves
<1> QED BY <1>1, <1>2, <1>3, <1>4, <1>5, <1>6, <1>7 DEF Application

\* Nothing at hand and nothing asked for: what the moves leave is known too.
LEMMA MovesKnow ==
  ASSUME TypeInvariant, Copies, Moves, UNCHANGED remote
  PROVE  Copies'
<1>1. Knows(local) /\ Knows(plan.snap) /\ Knows(EmptyParty) /\ Knows(Pending.view)
  BY NobodyKnows DEF Copies
<1>2. Knows(Fetched)
  BY MappedKnows DEF Copies, Fetched, TypeInvariant, StepOK, WireOK, IsFound
<1>3. PICK now : /\ now \in {local, EmptyParty, plan.snap, Fetched} /\ Knows(now)
                 /\ local'.id = now.id /\ local'.rev = now.rev
                 /\ local'.meta = now.meta /\ local'.members = now.members
  <2>1. CASE local' \in {local, EmptyParty, plan.snap, Fetched}
    BY <1>1, <1>2, <2>1
  <2>2. CASE Promoted
    <3>1. /\ local'.id = Fetched.id /\ local'.rev = Fetched.rev
          /\ local'.meta = Fetched.meta /\ local'.members = Fetched.members
      BY <2>2 DEF Promoted, Fetched, mapRemoteParty
    <3> QED BY <1>2, <3>1
  <2> QED BY <2>1, <2>2 DEF Moves
<1>4. Knows(local)'
  <2>1. now.id # "" => Knows(now)
    BY <1>3
  <2> QED BY <1>3, <2>1 DEF Knows
<1>5. Knows(plan.snap)'
  <2>1. Knows(plan'.snap)
    BY <1>1, <1>2 DEF Moves
  <2> QED BY <2>1 DEF Knows
<1>6. Knows(ans.view)'
  <2>1. Knows(ans'.view)
    BY <1>1 DEF Moves
  <2> QED BY <2>1 DEF Knows
<1> QED BY <1>4, <1>5, <1>6 DEF Copies

LEMMA KnownInit == Init => Known
<1> SUFFICES ASSUME Init PROVE Known
  OBVIOUS
<1>1. IsWorld(remote)
  BY SyncAssumption DEF Init
<1>2. Wiring
  BY DEF Init, Wiring, Wired, Planning
<1>3. Knows(local)
  <2>1. CASE Home(remote, Self) # ""
    <3>1. PICK p : p = Home(remote, Self)
      OBVIOUS
    <3>2. p \in Parties /\ Self \in DOMAIN remote[p].members
      BY <2>1, <3>1, HomeType
    <3>3. Knows(ViewOf(p)) /\ IsView(ViewOf(p))
      <4>1. WorldOK
        BY <1>1, EmptyInbox DEF Init, WorldOK
      <4>2. DOMAIN remote[p].members # {}
        BY <3>2
      <4> QED BY <1>1, <3>2, <4>1, <4>2, ReportedKnows, ViewType DEF IsFound
    <3>4. Knows(mapRemoteParty(ViewOf(p)))
      BY <3>3, MappedKnows
    <3> QED BY <3>1, <3>4, NobodyKnows DEF Init
  <2>2. CASE Home(remote, Self) = ""
    BY <2>2, NobodyKnows DEF Init
  <2> QED BY <2>1, <2>2
<1>4. Knows(plan.snap) /\ Knows(ans.view)
  BY NobodyKnows DEF Init
<1> QED BY <1>2, <1>3, <1>4 DEF Init, Known, Copies

\* Without notifications the inbox stays empty.
LEMMA Silent ==
  ASSUME ~Notified, Serve \/ Lose \/ Environment
  PROVE  inbox' = inbox
<1>1. \A p, new, notes : Change(p, new, notes) => inbox' = inbox
  BY DEF Change
<1>2. /\ \A p, a : JoinNow(p, a) => inbox' = inbox
      /\ \A p, a : PromoteNow(p, a) => inbox' = inbox
      /\ \A type, p, a : GoneNow(type, p, a) => inbox' = inbox
      /\ \A p, u, r : PatchNow(p, u, r) => inbox' = inbox
      /\ \A p, a, u, r : MemberPatchNow(p, a, u, r) => inbox' = inbox
  BY <1>1 DEF JoinNow, PromoteNow, GoneNow, PatchNow, MemberPatchNow
<1>3. CASE Serve
  BY <1>2, <1>3 DEF Serve, ServeUser, ServeParty, ServeCreate, ServeJoin, ServeLeave,
     ServePromote, ServePartyPatch, ServeMemberPatch, ServePings, ServeIntention,
     Refuse, Report
<1>4. CASE Lose
  BY <1>4 DEF Lose
<1>5. CASE Environment
  BY <1>2, <1>5 DEF Environment, OtherJoins, OtherLeaves, KickedBy, OtherPromotes,
     OtherPatches, OtherSets
<1> QED BY <1>3, <1>4, <1>5

LEMMA KnownStep ==
  ASSUME ~Notified, TypeInvariant, Known, [Next]_vars
  PROVE  Known'
<1>1. Wiring'
  BY WiringStep DEF Known
<1>2. CASE UNCHANGED vars
  BY <1>1, <1>2 DEF vars, command, world, wire, Known, Copies, Knows
<1>3. CASE Client \/ Application
  <2>1. UNCHANGED <<remote, inbox, decoding>>
    BY <1>3, CommandFrame
  <2>2. Moves
    BY <1>3, ClientMoves, ApplicationMoves DEF TypeInvariant
  <2>3. Copies'
    BY <2>1, <2>2, MovesKnow DEF Known
  <2> QED BY <1>1, <2>1, <2>2, <2>3 DEF Known, Moves
<1>4. CASE Decode
  BY <1>4 DEF Decode, Apply, Complete, ApplyCompleted, Receive, Known
<1>5. CASE (Serve \/ Lose \/ Environment) /\ UNCHANGED <<local, decoding, command>>
  <2>1. inbox' = inbox /\ UNCHANGED <<local, plan, at, decoding>>
    BY <1>5, Silent DEF command
  <2>2. ASSUME Serve PROVE Copies'
    BY <2>1, <2>2, ServeKnows
  <2>3. ASSUME Lose PROVE Copies'
    <3>1. Knows(local)' /\ Knows(plan.snap)'
      BY <2>1, <2>3 DEF Lose, Known, Copies, Knows
    <3>2. ans'.view.id = ""
      BY <2>3, NobodyKnows DEF Lose, Failed
    <3>3. Knows(ans.view)'
      BY <3>2 DEF Knows
    <3> QED BY <3>1, <3>3 DEF Copies
  <2>4. ASSUME Environment PROVE Copies'
    BY <2>1, <2>4, EnvironmentKnows
  <2>5. Copies'
    BY <1>5, <2>2, <2>3, <2>4
  <2> QED BY <1>1, <2>1, <2>5 DEF Known
<1> QED BY <1>2, <1>3, <1>4, <1>5 DEF Next, Step

\* What the service would accept from a client that hears of the party only
\* by asking is a patch of the metadata it asked about, whatever the other
\* accounts do and however the exchanges fail (applyIntentWithRetry,
\* refreshPartyStateByIDLocked).
THEOREM RevisionsSafe == ASSUME ~Notified PROVE Spec => []RevisionSafe
<1>1. Init => TypeInvariant /\ Known
  BY TypeInit, KnownInit
<1>2. TypeInvariant /\ Known /\ [Next]_vars => (TypeInvariant /\ Known)'
  BY TypeStep, KnownStep
<1>3. TypeInvariant /\ Known => RevisionSafe
  BY KnownImplies
<1> QED BY <1>1, <1>2, <1>3, PTL DEF Spec

-----------------------------------------------------------------------------
(* EnsureIsValid: the party a command ends with is the one it asked about. *)

\* The waits in which ensurePartyLocked and createPartyLocked learn the party.
Learning == {"ensure", "create", "createGet"}

\* No other command returns under the name of one of these two.
Named == at \notin Learning \cup {"idle"} =>
           op.name # "ensure" /\ (at # "leave" => op.name # "leave")

\* What they learn is a party this account was in while the command ran.
Learned == at \in Learning /\ ans.view.id # "" => ans.view.id \in been

Ensuring == Wiring /\ Named /\ Learned /\ EnsureIsValid

LEMMA ClientNames ==
  ASSUME StepOK, Client
  PROVE  at # "idle" /\ op'.name = op.name
<1>1. CASE JoinMember \/ JoinInvite
  <2>1. ASSUME NEW p, JoinLocked(op, p) PROVE op'.name = op.name
    BY <2>1 DEF JoinLocked, StepOK, OpOK, IsOp
  <2> QED BY <1>1, <2>1 DEF JoinMember, JoinInvite, Answered
<1>2. CASE ~(JoinMember \/ JoinInvite)
  BY <1>2 DEF Client, Sync, Ensure, Create, CreateGet, LeaveFirst, Join, JoinGet, JoinHydrate,
              Request, Leave, Promote, PromoteGet, Hydrate, PatchParty, PatchMember, Refresh,
              RefreshStale, WakeUp, Quiet, Answered
<1> QED BY <1>1, <1>2

LEMMA RefusalNotNil == Refusal # "nil"
BY DEF Refusal

LEMMA LearningEnds ==
  ASSUME Client, at \in Learning, at' = "idle", ret' = "nil", op.name # "create"
  PROVE  local'.id = ans.view.id /\ ans.view # NoView
<1>1. Ensure \/ Create \/ CreateGet
  BY DEF Client, Sync, LeaveFirst, Join, JoinGet, JoinHydrate, JoinMember, JoinInvite,
         Request, Leave, Promote, PromoteGet, Hydrate, PatchParty, PatchMember, Refresh,
         RefreshStale, WakeUp, Answered, Learning
<1>2. Found /\ local' = Fetched
  BY <1>1, RefusalNotNil DEF Ensure, Create, CreateGet, Created, Return, Call
<1>3. Fetched.id = ans.view.id
  BY DEF Fetched, mapRemoteParty
<1> QED BY <1>2, <1>3 DEF Found

LEMMA LeaveEnds ==
  ASSUME Client, at = "leave", at' = "idle", ret' = "nil"
  PROVE  ~AutoCreate
<1>1. Leave
  BY DEF Client, Sync, Ensure, Create, CreateGet, LeaveFirst, Join, JoinGet, JoinHydrate,
         JoinMember, JoinInvite, Request, Promote, PromoteGet, Hydrate, PatchParty,
         PatchMember, Refresh, RefreshStale, WakeUp, Answered
<1> QED BY <1>1, RefusalNotNil DEF Leave, Return, Call

\* Where a command goes from a wait of its own.
LEMMA PatchGoes ==
  ASSUME NEW o, NEW s, NEW attempt, Patch(o, s, attempt)
  PROVE  at' \in {"idle", "partyPatch", "memberPatch"}
BY DEF Patch, Call, Return

LEMMA TryGoes ==
  ASSUME NEW o, NEW attempt, Try(o, attempt)
  PROVE  at' \in {"idle", "hydrate", "partyPatch", "memberPatch"}
BY PatchGoes DEF Try, Call, Return

LEMMA JoinLockedGoes ==
  ASSUME NEW o, NEW p, JoinLocked(o, p)
  PROVE  at' \in {"idle", "leaveFirst", "join"}
BY DEF JoinLocked, Call, Return

LEMMA ClientGoes ==
  ASSUME Client
  PROVE  /\ at \in Learning => at' \in Learning \cup {"idle"}
         /\ at = "leave" => at' \in {"idle", "ensure"}
         /\ at' \in Learning => at \in Learning \cup {"leave"}
         /\ at' # "leave"
<1>1. CASE Sync \/ Ensure \/ Create \/ CreateGet
  BY <1>1 DEF Sync, Ensure, Create, CreateGet, Created, Return, Call, Answered, Learning
<1>2. CASE LeaveFirst \/ Join \/ JoinGet \/ JoinHydrate
  BY <1>2 DEF LeaveFirst, Join, JoinGet, JoinHydrate, Return, Call, Answered, Learning
<1>3. CASE JoinMember \/ JoinInvite
  BY <1>3, JoinLockedGoes DEF JoinMember, JoinInvite, Return, Answered, Learning
<1>4. CASE Request \/ Leave \/ Promote \/ PromoteGet
  BY <1>4 DEF Request, Leave, Promote, PromoteGet, Return, Call, Answered, Learning
<1>5. CASE Hydrate
  BY <1>5, PatchGoes DEF Hydrate, Return, Answered, Learning
<1>6. CASE PatchParty \/ PatchMember \/ Refresh \/ RefreshStale
  BY <1>6 DEF PatchParty, PatchMember, Refresh, RefreshStale, Sleep, Return, Call,
              Answered, Learning
<1>7. CASE WakeUp
  BY <1>7, TryGoes DEF WakeUp, Return, Learning
<1> QED BY <1>1, <1>2, <1>3, <1>4, <1>5, <1>6, <1>7 DEF Client

LEMMA ApplicationGoes ==
  ASSUME Application
  PROVE  /\ at = "idle"
         /\ Named'
         /\ at' = "idle" /\ ret' = "nil" => op'.name \notin {"ensure", "leave"}
<1>0. at = "idle"
  BY DEF Application, BeginSync, BeginEnsure, BeginCreate, BeginLeave, BeginJoin,
         BeginJoinMember, BeginJoinInvite, BeginRequest, BeginPromote, BeginSet,
         Opens, Begin
<1> DEFINE Goes == /\ Named'
                   /\ at' = "idle" /\ ret' = "nil" => op'.name \notin {"ensure", "leave"}
<1>1. ASSUME BeginSync \/ BeginEnsure \/ BeginCreate \/ BeginLeave PROVE Goes
  BY <1>1 DEF BeginSync, BeginEnsure, BeginCreate, BeginLeave, Opens, Call, Return, NoOp,
              Named, Learning
<1>2. ASSUME NEW p, BeginJoin(p) PROVE Goes
  <2>1. op'.name = "join"
    BY <1>2 DEF BeginJoin, JoinLocked, NoOp
  <2> QED BY <2>1 DEF Named
<1>3. ASSUME NEW a, BeginJoinMember(a) \/ BeginJoinInvite(a) \/ BeginRequest(a) PROVE Goes
  BY <1>3 DEF BeginJoinMember, BeginJoinInvite, BeginRequest, Opens, NoOp, Named
<1>4. ASSUME NEW p, NEW a, BeginPromote(p, a) PROVE Goes
  BY <1>4 DEF BeginPromote, Opens, NoOp, Named
<1>5. ASSUME NEW i, BeginSet(i) PROVE Goes
  BY <1>5 DEF BeginSet, Opens, NoOp, Named
<1>6. Goes
  BY <1>1, <1>2, <1>3, <1>4, <1>5 DEF Application
<1> QED BY <1>0, <1>6

\* The service names the party this account is in, or the one it makes for it.
LEMMA HomeIs ==
  ASSUME IsWorld(remote'), NEW p \in Parties, Self \in DOMAIN remote'[p].members
  PROVE  Home(remote', Self) = p
<1>1. PICK q : q = Home(remote', Self)
  OBVIOUS
<1>2. q \in Parties /\ Self \in DOMAIN remote'[q].members
  BY <1>1, HomeType
<1>3. q \in Parties \ {p} => DOMAIN remote'[p].members \cap DOMAIN remote'[q].members = {}
  BY DEF IsWorld
<1> QED BY <1>1, <1>2, <1>3

LEMMA ServeLearns ==
  ASSUME TypeInvariant, Wiring, Serve, at \in Learning
  PROVE  ans'.view.id \in {"", Home(remote, Self), Home(remote', Self)}
<1>1. /\ IsWorld(remote) /\ IsWorld(remote') /\ at \in Labels /\ Wired(at, op, plan, req)
  BY ServeType DEF TypeInvariant, WorldOK, StepOK, CommandOK, Wiring
<1>2. req = GetUser(Self) \/ req = On("create", "", Self)
  BY <1>1 DEF Wired, Learning
<1>3. \/ req.kind = "user" /\ req.acct = Self
      \/ req.kind = "create"
  <2>1. GetUser(Self).kind = "user" /\ GetUser(Self).acct = Self
    BY DEF GetUser, NoReq
  <2>2. On("create", "", Self).kind = "create"
    BY DEF On, NoReq
  <2> QED BY <1>2, <2>1, <2>2
<1>4. ServeUser \/ ServeCreate
  BY <1>3 DEF Serve, ServeParty, ServeJoin, ServeLeave, ServePromote, ServePartyPatch,
              ServeMemberPatch, ServePings, ServeIntention, Asked
<1>5. ASSUME NEW st, Refuse(st) PROVE ans'.view.id = ""
  BY <1>5, ReplyView, NobodyKnows DEF Refuse
<1>6. CASE ServeUser /\ req.acct = Self
  <2>1. PICK v : v = IF Home(remote, Self) = "" THEN NoView ELSE ViewOf(Home(remote, Self))
    OBVIOUS
  <2>2. v.id = "" \/ v.id = Home(remote, Self)
    BY <2>1, NobodyKnows DEF ViewOf
  <2>3. Report(v) \/ Refuse("selfOnly")
    BY <1>6, <2>1 DEF ServeUser
  <2>4. Report(v) => ans'.view \in {v, NoView}
    BY ReplyView DEF Report
  <2> QED BY <1>5, <2>2, <2>3, <2>4, NobodyKnows
<1>7. CASE ServeCreate
  <2>1. CASE Home(remote, Self) # "" \/ Fresh = {}
    BY <1>5, <1>7, <2>1 DEF ServeCreate
  <2>2. CASE Home(remote, Self) = "" /\ Fresh # {}
    <3>1. PICK p : p = CHOOSE q \in Fresh : TRUE
      OBVIOUS
    <3>2. p \in Parties
      BY <2>2, <3>1 DEF Fresh
    <3>3. JoinNow(p, Self) /\ Reply("ok", NewParty(p))
      BY <1>7, <2>2, <3>1 DEF ServeCreate
    <3>4. Self \notin DOMAIN remote[p].members /\ Self \in Accounts
      BY <2>2, <3>2, HomeType, ServiceAssumption
    <3>5. Self \in DOMAIN remote'[p].members
      BY <1>1, <3>2, <3>3, <3>4, JoinNowGrows
    <3>6. Home(remote', Self) = p
      BY <1>1, <3>2, <3>5, HomeIs
    <3>7. NewParty(p).id = p
      BY DEF NewParty
    <3>8. PICK v : v = NewParty(p) /\ v.id = p
      BY <3>7
    <3>9. ans'.view \in {v, NoView}
      BY <3>3, <3>8, ReplyView
    <3>10. v.id = p /\ NoView.id = ""
      BY <3>8, NobodyKnows
    <3> QED BY <3>6, <3>9, <3>10
  <2> QED BY <2>1, <2>2
<1>8. ServeUser => req.acct = Self
  BY <1>3 DEF ServeUser, Asked
<1> QED BY <1>4, <1>6, <1>7, <1>8

LEMMA NoAnswer == Pending.view.id = "" /\ Pending.st = "pending"
BY DEF Pending, NoView

LEMMA EnsuringInit == Init => Ensuring
BY KnownInit, NobodyKnows
   DEF Init, Known, Ensuring, Named, Learned, Learning, EnsureIsValid, Succeeded

LEMMA EnsuringStep ==
  ASSUME TypeInvariant, Ensuring, [Next]_vars
  PROVE  Ensuring'
<1>1. Wiring'
  BY WiringStep DEF Ensuring
<1>2. CASE UNCHANGED vars
  BY <1>1, <1>2 DEF vars, command, wire, Ensuring, Named, Learned, EnsureIsValid, Succeeded
<1>3. ASSUME Next, UNCHANGED <<at, op, ret>>,
             local.id # "" => local'.id = local.id,
             at \in Learning => ans'.view.id \in {"", ans.view.id, Home(remote, Self), Home(remote', Self)}
      PROVE  Ensuring'
  <2>1. /\ at # "idle" => been' = been \cup {Home(remote, Self), Home(remote', Self)}
        /\ at = "idle" => been' = been
    BY <1>3 DEF Next, Watch
  <2>2. Named'
    BY <1>3 DEF Ensuring, Named
  <2>3. Learned'
    BY <1>3, <2>1 DEF Ensuring, Learned, Learning
  <2>4. EnsureIsValid'
    BY <1>3, <2>1 DEF Ensuring, EnsureIsValid, Succeeded
  <2> QED BY <1>1, <2>2, <2>3, <2>4 DEF Ensuring
<1>4. CASE Next /\ Client
  <2>1. at # "idle" /\ op'.name = op.name /\ at \in Labels
    BY <1>4, ClientNames DEF TypeInvariant, StepOK, CommandOK
  <2>2. ans'.view.id = ""
    BY <1>4, ClientMoves, NoAnswer DEF TypeInvariant, Moves
  <2>3. been \subseteq been'
    BY <1>4, <2>1 DEF Next, Watch
  <2>4. Named'
    BY <1>4, <2>1, ClientGoes DEF Ensuring, Named, Learning
  <2>5. Learned'
    BY <2>2 DEF Learned
  <2>6. EnsureIsValid'
    <3> SUFFICES ASSUME at' = "idle", ret' = "nil",
                        op'.name \in {"ensure"} \cup (IF AutoCreate THEN {"leave"} ELSE {})
                 PROVE  local'.id \in been' \ {""}
      BY DEF EnsureIsValid, Succeeded
    <3>1. at \in Learning
      BY <1>4, <2>1, LeaveEnds DEF Ensuring, Named
    <3>2. local'.id = ans.view.id /\ ans.view # NoView
      BY <1>4, <2>1, <3>1, LearningEnds
    <3>3. ans.view.id # ""
      BY <3>2, ReducerAssumption DEF TypeInvariant, StepOK, WireOK, IsFound
    <3> QED BY <2>3, <3>1, <3>2, <3>3 DEF Ensuring, Learned
  <2> QED BY <1>1, <2>4, <2>5, <2>6 DEF Ensuring
<1>5. CASE Next /\ Application
  <2>1. Named' /\ (at' = "idle" /\ ret' = "nil" => op'.name \notin {"ensure", "leave"})
    BY <1>5, ApplicationGoes
  <2>2. ans'.view.id = ""
    BY <1>5, ApplicationMoves, NoAnswer DEF Moves
  <2>3. Learned'
    BY <2>2 DEF Learned
  <2>4. EnsureIsValid'
    BY <2>1 DEF EnsureIsValid, Succeeded
  <2> QED BY <1>1, <2>1, <2>3, <2>4 DEF Ensuring
<1>6. CASE Next /\ Decode /\ UNCHANGED command
  <2>1. UNCHANGED <<at, op, ret, ans>>
    BY <1>6 DEF command, Decode, Apply, Complete, ApplyCompleted, Receive, wire
  <2>2. local.id # "" => local'.id = local.id
    BY <1>6, DecodeType DEF TypeInvariant
  <2> QED BY <1>3, <1>6, <2>1, <2>2
<1>7. CASE Next /\ (Serve \/ Lose \/ Environment) /\ UNCHANGED <<local, decoding, command>>
  <2>1. UNCHANGED <<at, op, ret, local>>
    BY <1>7 DEF command
  <2>2. ASSUME at \in Learning
        PROVE  ans'.view.id \in {"", ans.view.id, Home(remote, Self), Home(remote', Self)}
    <3>1. ASSUME Serve PROVE ans'.view.id \in {"", Home(remote, Self), Home(remote', Self)}
      BY <2>2, <3>1, ServeLearns DEF Ensuring
    <3>2. ASSUME Lose PROVE ans'.view.id = ""
      BY <3>2, NobodyKnows DEF Lose, Failed
    <3>3. ASSUME Environment PROVE ans' = ans
      BY <3>3 DEF Environment, OtherJoins, OtherLeaves, KickedBy, OtherPromotes,
                  OtherPatches, OtherSets, Acts
    <3> QED BY <1>7, <3>1, <3>2, <3>3
  <2> QED BY <1>3, <1>7, <2>1, <2>2
<1> QED BY <1>2, <1>4, <1>5, <1>6, <1>7 DEF Next, Step

\* EnsureParty, ResyncAfterReconnect and LeaveParty with auto-create end
\* with a party this account was in while they ran, whatever notifications,
\* kicks and faults come in between (ensurePartyLocked, createPartyLocked).
THEOREM EnsureValid == Spec => []EnsureIsValid
<1>1. Init => TypeInvariant /\ Ensuring
  BY TypeInit, EnsuringInit
<1>2. TypeInvariant /\ Ensuring /\ [Next]_vars => (TypeInvariant /\ Ensuring)'
  BY TypeStep, EnsuringStep
<1>3. TypeInvariant /\ Ensuring => EnsureIsValid
  BY DEF Ensuring
<1> QED BY <1>1, <1>2, <1>3, PTL DEF Spec

-----------------------------------------------------------------------------
(* ConflictNeedsContention: an attempt in vain costs somebody something. *)

\* The copy c has the revisions of the world r, or this account's at least.
FitsSelf(r, c) ==
  Self \in DOMAIN c.members \cap DOMAIN r[c.id].members =>
    c.members[Self].rev = r[c.id].members[Self].rev
Fits(r, c) == c.rev = r[c.id].rev /\ FitsSelf(r, c)

\* As many disturbances as attempts, since the command began.
Room(n) == since + n <= Disturbances

\* The waits of an attempt, and why it will not be told that it is stale:
\* the copy it is made from, or will be, is the current one.
Trying == {"hydrate", "partyPatch", "memberPatch", "sleep"}
NotStale(r, l, c, s, a) ==
  /\ l = "sleep" /\ c.id # "" => Fits(r, c)
  /\ l = "hydrate" /\ a.view.id # "" => Fits(r, a.view)
  /\ l = "partyPatch" => /\ a.st = "pending" => Fits(r, s)
                         /\ a.st = "ok" => FitsSelf(r, s)
                         /\ a.st # "stale"
  /\ l = "memberPatch" => (a.st = "pending" => FitsSelf(r, s)) /\ a.st # "stale"

Paced ==
  /\ at \in Trying =>
       /\ since + plan.attempt <= Disturbances + 1
       /\ Room(plan.attempt) \/ NotStale(remote, at, local, plan.snap, ans)
  /\ at = "refreshStale" =>
       /\ Room(plan.attempt)
       /\ Room(plan.attempt + 1) \/ (ans.view.id # "" => Fits(remote, ans.view))

ConflictInv == Known /\ Paced /\ ConflictNeedsContention

LEMMA Numbers ==
  ASSUME TypeInvariant
  PROVE  /\ since \in Nat /\ plan.attempt \in Nat /\ Disturbances \in Nat
         /\ plan.attempt <= MaxPatchRetries /\ MaxPatchRetries \in Nat
         /\ Len(faults) \in Nat /\ changes \in Nat
<1>1. Len(faults) \in Nat /\ changes \in 0 .. MaxChanges /\ since \in 0 .. MaxChanges + MaxFaults
      /\ plan.attempt \in 0 .. MaxPatchRetries
  BY DEF TypeInvariant, FaultsOK, ChangesOK, HistoryOK, StepOK, CommandOK, IsPlan
<1> QED BY <1>1, SyncAssumption, ServiceAssumption DEF Disturbances

\* Each fault and each change of another account is a disturbance.
LEMMA SpendCosts ==
  ASSUME TypeInvariant, NEW kind, Spend(kind), UNCHANGED changes
  PROVE  Disturbances' = Disturbances + 1
<1>1. faults \in Seq(Faults) /\ changes \in Nat
  BY Numbers DEF TypeInvariant, FaultsOK
<1>2. Len(faults') = Len(faults) + 1
  BY <1>1 DEF Spend
<1> QED BY <1>1, <1>2 DEF Disturbances

LEMMA ReplyCosts ==
  ASSUME TypeInvariant, NEW st, NEW view, Reply(st, view)
  PROVE  \/ Disturbances' = Disturbances + 1
         \/ Disturbances' = Disturbances /\ ans' = [st |-> st, view |-> view]
<1>1. CASE ans' = [st |-> st, view |-> view] /\ UNCHANGED faults
  BY <1>1 DEF Reply, Disturbances
<1>2. CASE Spend("lostAnswer") \/ Spend("resent")
  BY <1>2, SpendCosts DEF Reply
<1> QED BY <1>1, <1>2 DEF Reply

LEMMA Disturbed ==
  ASSUME TypeInvariant, Paced, UNCHANGED <<at, plan, since>>,
         Disturbances' = Disturbances + 1
  PROVE  Paced'
<1>1. PICK s \in Nat, n \in Nat, d \in Nat : s = since /\ n = plan.attempt /\ d = Disturbances
  BY Numbers
<1>2. s + n <= d + 1 => s + n <= (d + 1) + 1 /\ s + n <= d + 1
  BY <1>1
<1>3. s + n <= d => s + n <= d + 1 /\ s + (n + 1) <= d + 1
  BY <1>1
<1>4. CASE at \in Trying
  <2>1. s + n <= d + 1
    BY <1>1, <1>4 DEF Paced
  <2> QED BY <1>1, <1>2, <1>4, <2>1 DEF Paced, Room, Trying
<1>5. CASE at = "refreshStale"
  <2>1. s + n <= d
    BY <1>1, <1>5 DEF Paced, Room
  <2> QED BY <1>1, <1>3, <1>5, <2>1 DEF Paced, Room, Trying
<1>6. CASE at \notin Trying \cup {"refreshStale"}
  BY <1>6 DEF Paced
<1> QED BY <1>4, <1>5, <1>6

\* A party the service reports is current.
LEMMA ReportedFits ==
  ASSUME NEW p, IsWorld(remote), p \in Parties
  PROVE  /\ Fits(remote, ViewOf(p))
         /\ Fits(remote, [ViewOf(p) EXCEPT !.members = Drop(@, {Self})])
<1>1. Fits(remote, ViewOf(p))
  BY DEF Fits, FitsSelf, ViewOf
<1>2. PICK v : v = [ViewOf(p) EXCEPT !.members = Drop(remote[p].members, {Self})]
  OBVIOUS
<1>3. v.id = p /\ v.rev = remote[p].rev /\ Self \notin DOMAIN v.members
  BY <1>2 DEF ViewOf, Drop
<1>4. Fits(remote, v)
  BY <1>3 DEF Fits, FitsSelf
<1> QED BY <1>1, <1>2, <1>4 DEF ViewOf

\* Which part of the service a waiting attempt has asked.
LEMMA ServeIs ==
  ASSUME at \in Labels, Wiring, Serve
  PROVE  /\ at # "sleep" /\ at # "idle"
         /\ at = "hydrate" => ServeUser /\ req.acct = Self
         /\ at = "partyPatch" => ServePartyPatch
         /\ at = "memberPatch" => ServeMemberPatch
         /\ at \in {"refresh", "refreshStale"} => ServeParty /\ req.party = plan.snap.id
<1>1. /\ GetUser(Self).kind = "user" /\ GetUser(Self).acct = Self
      /\ Get(plan.snap.id).kind = "party" /\ Get(plan.snap.id).party = plan.snap.id
      /\ NoReq.kind = "none"
  BY DEF GetUser, Get, NoReq
<1>2. /\ PartyPatch(plan.snap, req.updates).kind = "partyPatch"
      /\ MemberPatch(plan.snap, req.updates).kind = "memberPatch"
  BY PatchFields
<1>3. /\ at \in {"sleep", "idle"} => req.kind = "none"
      /\ at = "hydrate" => req.kind = "user" /\ req.acct = Self
      /\ at \in {"refresh", "refreshStale"} => req.kind = "party" /\ req.party = plan.snap.id
      /\ at = "partyPatch" => req.kind = "partyPatch"
      /\ at = "memberPatch" => req.kind = "memberPatch"
  BY <1>1, <1>2 DEF Wiring, Wired
<1> QED BY <1>3 DEF Serve, ServeUser, ServeParty, ServeCreate, ServeJoin, ServeLeave,
           ServePromote, ServePartyPatch, ServeMemberPatch, ServePings, ServeIntention, Asked

LEMMA ServePaced ==
  ASSUME TypeInvariant, Known, Paced, Serve, UNCHANGED <<at, plan, since, local>>
  PROVE  Paced'
<1>1. /\ IsWorld(remote) /\ WireOK /\ at \in Labels /\ Wiring
  BY DEF TypeInvariant, WorldOK, StepOK, CommandOK, Known
<1>2. CASE Disturbances' = Disturbances + 1
  BY <1>2, Disturbed
<1>3. ASSUME Disturbances' = Disturbances, at = "hydrate" PROVE Paced'
  <2>1. ServeUser
    BY <1>1, <1>3, ServeIs
  <2>2. Paced' <=> /\ since + plan.attempt <= Disturbances + 1
                   /\ Room(plan.attempt) \/ (ans'.view.id # "" => Fits(remote', ans'.view))
    BY <1>3 DEF Paced, Room, Trying, NotStale
  <2>3. ASSUME NEW p, p = Home(remote, Self), Report(IF p = "" THEN NoView ELSE ViewOf(p))
        PROVE  ans'.view.id # "" => Fits(remote', ans'.view)
    <3>1. remote' = remote /\ ans'.view \in {IF p = "" THEN NoView ELSE ViewOf(p), NoView}
      BY <2>3, ReplyView DEF Report
    <3>2. p # "" => Fits(remote, ViewOf(p))
      BY <1>1, <2>3, HomeType, ReportedFits
    <3> QED BY <3>1, <3>2, NobodyKnows
  <2>4. Report(IF Home(remote, Self) = "" THEN NoView ELSE ViewOf(Home(remote, Self)))
    BY <1>1, <1>3, <2>1, ServeIs DEF ServeUser
  <2>5. since + plan.attempt <= Disturbances + 1
    BY <1>3 DEF Paced, Trying
  <2> QED BY <2>2, <2>3, <2>4, <2>5
<1>4. ASSUME Disturbances' = Disturbances, at = "refreshStale" PROVE Paced'
  <2>1. ServeParty /\ req.party = plan.snap.id
    BY <1>1, <1>4, ServeIs
  <2>2. req.party \in Parties
    BY <1>1, <2>1 DEF ServeParty, Asked, WireOK, IsRequest, MaybeParty
  <2>3. ans'.view.id # "" => Fits(remote', ans'.view)
    <3>1. ASSUME NEW v, Report(v), Fits(remote, v) PROVE ans'.view.id # "" => Fits(remote', ans'.view)
      BY <3>1, ReplyView, NobodyKnows DEF Report
    <3>2. ASSUME Refuse("notFound") PROVE ans'.view.id = ""
      BY <3>2, ReplyView, NobodyKnows DEF Refuse
    <3> QED BY <1>1, <2>1, <2>2, <3>1, <3>2, ReportedFits DEF ServeParty
  <2> QED BY <1>4, <2>3 DEF Paced, Room, Trying
<1>5. ASSUME Disturbances' = Disturbances, at \in {"partyPatch", "memberPatch"},
             NotStale(remote, at, local, plan.snap, ans)
               => NotStale(remote', at, local, plan.snap, ans')
      PROVE  Paced'
  BY <1>5 DEF Paced, Room, Trying
<1>6. ASSUME Disturbances' = Disturbances, at = "partyPatch" PROVE Paced'
  <2>1. ServePartyPatch /\ req.party \in Parties
    BY <1>1, <1>6, ServeIs DEF ServePartyPatch, Asked, WireOK, IsRequest, MaybeParty
  <2>2. \A st, view : Reply(st, view) => ans' = [st |-> st, view |-> view]
    BY <1>6, ReplyCosts, Numbers
  <2>3. ans.st = "pending"
    BY <2>1 DEF ServePartyPatch, Asked, Pending
  <2>4. req.party = plan.snap.id /\ req.rev = plan.snap.rev
    BY <1>1, <1>6, PatchFields DEF Wiring, Wired
  <2>5. CASE Refuse("forbidden")
    <3>1. ans'.st = "forbidden"
      BY <2>2, <2>5 DEF Refuse
    <3> QED BY <1>5, <1>6, <3>1 DEF NotStale
  <2>6. CASE req.rev # remote[req.party].rev
    BY <1>5, <1>6, <2>3, <2>4, <2>6 DEF NotStale, Fits
  <2>7. CASE PatchNow(req.party, req.updates, {}) /\ Reply("ok", NoView)
    <3>1. ans'.st = "ok"
      BY <2>2, <2>7
    <3>2. remote'[req.party].members = remote[req.party].members
      BY <1>1, <2>1, <2>7 DEF PatchNow, Change, IsWorld
    <3>3. FitsSelf(remote, plan.snap) => FitsSelf(remote', plan.snap)
      BY <2>4, <3>2 DEF FitsSelf
    <3> QED BY <1>5, <1>6, <2>3, <3>1, <3>3 DEF NotStale, Fits
  <2> QED BY <2>1, <2>5, <2>6, <2>7 DEF ServePartyPatch
<1>7. ASSUME Disturbances' = Disturbances, at = "memberPatch" PROVE Paced'
  <2>1. ServeMemberPatch /\ req.party \in Parties
    BY <1>1, <1>7, ServeIs DEF ServeMemberPatch, Asked, WireOK, IsRequest, MaybeParty
  <2>2. \A st, view : Reply(st, view) => ans' = [st |-> st, view |-> view]
    BY <1>7, ReplyCosts, Numbers
  <2>3. ans.st = "pending"
    BY <2>1 DEF ServeMemberPatch, Asked, Pending
  <2>4. /\ req.party = plan.snap.id /\ req.rev = plan.snap.members[Self].rev
        /\ Self \in DOMAIN plan.snap.members
    <3>1. req = MemberPatch(plan.snap, req.updates)
      BY <1>1, <1>7 DEF Wiring, Wired
    <3>2. Self \in DOMAIN plan.snap.members
      BY <1>7 DEF TypeInvariant, StepOK, CommandOK, HasTarget
    <3> QED BY <3>1, <3>2, PatchFields
  <2>5. CASE Refuse("notFound") \/ Reply("ok", NoView)
    <3>1. ans'.st \in {"notFound", "ok"}
      BY <2>2, <2>5 DEF Refuse
    <3> QED BY <1>5, <1>7, <3>1 DEF NotStale
  <2>6. CASE Self \in DOMAIN remote[req.party].members /\ req.rev # remote[req.party].members[Self].rev
    BY <1>5, <1>7, <2>3, <2>4, <2>6 DEF NotStale, FitsSelf
  <2> QED BY <2>1, <2>5, <2>6 DEF ServeMemberPatch
<1>8. CASE at \notin Trying \cup {"refreshStale"}
  BY <1>8 DEF Paced
<1>9. Disturbances' \in {Disturbances, Disturbances + 1}
  BY ReplyCosts DEF Serve, ServeUser, ServeParty, ServeCreate, ServeJoin, ServeLeave, ServePromote,
     ServePartyPatch, ServeMemberPatch, ServePings, ServeIntention, Refuse, Report
<1>10. at # "sleep"
  BY <1>1, ServeIs
<1> QED BY <1>2, <1>3, <1>4, <1>6, <1>7, <1>8, <1>9, <1>10 DEF Trying

LEMMA PatchPaced ==
  ASSUME NEW o, NEW s, NEW n \in Nat, Patch(o, s, n), UNCHANGED remote,
         since' + n <= Disturbances' + 1,
         since' + n <= Disturbances' \/ Fits(remote, s)
  PROVE  Paced'
<1>1. PICK member \in MemberUpdates(o.intent.member, s.members[Self].meta) :
        LET party == Differing(o.intent.party, s.meta)
        IN  IF party = Nothing /\ member = Nothing THEN Return("nil")
            ELSE /\ plan' = [snap |-> s, member |-> member, attempt |-> n]
                 /\ IF party # Nothing
                    THEN Call("partyPatch", PartyPatch(s, party))
                    ELSE Call("memberPatch", MemberPatch(s, member))
  BY DEF Patch
<1>2. CASE Return("nil")
  BY <1>2 DEF Return, Paced, Trying
<1>3. CASE ~Return("nil")
  <2>1. /\ at' \in {"partyPatch", "memberPatch"} /\ ans'.st = "pending"
        /\ plan'.snap = s /\ plan'.attempt = n
    BY <1>1, <1>3 DEF Call, Pending
  <2>2. since' + plan'.attempt <= Disturbances' + 1
    BY <2>1
  <2>3. since' + plan'.attempt <= Disturbances' \/ NotStale(remote', at', local', plan'.snap, ans')
    BY <2>1 DEF NotStale, Fits
  <2> QED BY <2>1, <2>2, <2>3 DEF Paced, Room
<1> QED BY <1>2, <1>3

LEMMA TryPaced ==
  ASSUME NEW o, NEW n \in Nat, Try(o, n), UNCHANGED remote,
         since' + n <= Disturbances' + 1,
         since' + n <= Disturbances' \/ (local.id # "" => Fits(remote, local))
  PROVE  Paced'
<1>1. CASE Return("ErrPartyNotFound")
  BY <1>1 DEF Return, Paced, Trying
<1>2. CASE /\ plan' = [NoPlan EXCEPT !.snap = local, !.attempt = n]
           /\ Call("hydrate", GetUser(Self))
  <2>1. at' = "hydrate" /\ plan'.attempt = n /\ ans'.view.id = ""
    BY <1>2, NoAnswer DEF NoPlan, Call
  <2> QED BY <2>1 DEF Paced, Room, NotStale
<1>3. CASE local.id # "" /\ Patch(o, local, n)
  BY <1>3, PatchPaced
<1> QED BY <1>1, <1>2, <1>3 DEF Try

\* The commands that are no Set come nowhere near.
LEMMA ClientElsewhere ==
  ASSUME Client, ~(Hydrate \/ PatchParty \/ PatchMember \/ RefreshStale \/ WakeUp)
  PROVE  /\ at' \notin Trying \cup {"refreshStale"}
         /\ at' = "idle" => ret' # "ErrPatchConflict"
<1>1. Refusal # "ErrPatchConflict" /\ PromoteError # "ErrPatchConflict"
  BY DEF Refusal, PromoteError
<1>2. CASE Sync \/ Ensure \/ Create \/ CreateGet
  BY <1>1, <1>2 DEF Sync, Ensure, Create, CreateGet, Created, Return, Call, Trying
<1>3. CASE LeaveFirst \/ Join \/ JoinGet \/ JoinHydrate
  BY <1>1, <1>3 DEF LeaveFirst, Join, JoinGet, JoinHydrate, Return, Call, Trying
<1>4. CASE JoinMember \/ JoinInvite
  <2>1. ASSUME NEW p, JoinLocked(op, p)
        PROVE  at' \notin Trying \cup {"refreshStale"} /\ (at' = "idle" => ret' # "ErrPatchConflict")
    BY <2>1 DEF JoinLocked, Return, Call, Trying
  <2>2. ASSUME NEW err, Return(err), err # "ErrPatchConflict"
        PROVE  at' \notin Trying \cup {"refreshStale"} /\ (at' = "idle" => ret' # "ErrPatchConflict")
    BY <2>2 DEF Return, Trying
  <2> QED BY <1>1, <1>4, <2>1, <2>2 DEF JoinMember, JoinInvite
<1>5. CASE Request \/ Leave \/ Promote \/ PromoteGet
  BY <1>1, <1>5 DEF Request, Leave, Promote, PromoteGet, Return, Call, Trying
<1>6. CASE Refresh
  BY <1>1, <1>6 DEF Refresh, Return, Trying
<1> QED BY <1>2, <1>3, <1>4, <1>5, <1>6 DEF Client

LEMMA ReturnElsewhere ==
  ASSUME NEW err, Return(err)
  PROVE  Paced' /\ (err # "ErrPatchConflict" => ret' # "ErrPatchConflict")
BY DEF Return, Paced, Trying

LEMMA ClientPaced ==
  ASSUME TypeInvariant, Paced, Client, since' = since
  PROVE  /\ Paced'
         /\ at' = "idle" /\ ret' = "ErrPatchConflict" => Room(MaxPatchRetries)'
<1> DEFINE Goal == /\ Paced'
                   /\ at' = "idle" /\ ret' = "ErrPatchConflict" => Room(MaxPatchRetries)'
<1>0. UNCHANGED remote
  BY CommandFrame
<1>a. PICK s \in Nat, n \in Nat, d \in Nat : s = since /\ n = plan.attempt /\ d = Disturbances
  BY Numbers
<1>b. Quiet => Disturbances' = Disturbances
  BY DEF Quiet, world, Disturbances
<1>c. Refusal # "ErrPatchConflict"
  BY DEF Refusal
<1>d. ASSUME NEW err, Return(err), err # "ErrPatchConflict" PROVE Goal
  BY <1>d, ReturnElsewhere
<1>e. ASSUME Paced', ret' # "ErrPatchConflict" \/ at' # "idle" PROVE Goal
  BY <1>e
<1>1. CASE Hydrate
  <2>1. CASE Patch(op, Fetched, n) /\ Hydrates
    <3>1. at = "hydrate" /\ Disturbances' = d
      BY <1>1, <1>a, <1>b DEF Hydrate, Answered
    <3>2. s + n <= d + 1 /\ (s + n <= d \/ (ans.view.id # "" => Fits(remote, ans.view)))
      BY <1>a, <3>1 DEF Paced, Room, NotStale, Trying
    <3>3. ans.view.id # ""
      BY <2>1, ReducerAssumption DEF Hydrates, Found, TypeInvariant, StepOK, WireOK, IsFound
    <3>4. Fits(remote, ans.view) => Fits(remote, Fetched)
      <4>1. /\ Fetched.id = ans.view.id /\ Fetched.rev = ans.view.rev
            /\ Fetched.members = [a \in DOMAIN ans.view.members |->
                    MemberOf(ans.view.members[a].role, ans.view.members[a].rev,
                             ans.view.members[a].meta, ans.view.members[a].meta)]
        BY DEF Fetched, mapRemoteParty
      <4>2. /\ DOMAIN Fetched.members = DOMAIN ans.view.members
            /\ Self \in DOMAIN ans.view.members =>
                 Fetched.members[Self].rev = ans.view.members[Self].rev
        BY <4>1 DEF MemberOf
      <4> QED BY <4>1, <4>2 DEF Fits, FitsSelf
    <3>5. Paced'
      BY <1>0, <1>a, <2>1, <3>1, <3>2, <3>3, <3>4, PatchPaced
    <3>6. at' # "idle" \/ ret' = "nil"
      BY <2>1 DEF Patch, Call, Return
    <3> QED BY <1>e, <3>5, <3>6
  <2> QED BY <1>1, <1>a, <1>d, <2>1 DEF Hydrate
<1>2. CASE PatchParty
  <2>1. at = "partyPatch" /\ Disturbances' = d
    BY <1>2, <1>a, <1>b DEF PatchParty, Answered
  <2>2. s + n <= d + 1 /\ (s + n <= d \/ NotStale(remote, at, local, plan.snap, ans))
    BY <1>a, <2>1 DEF Paced, Room, Trying
  <2>3. CASE ans.st = "stale" /\ Call("refreshStale", Get(plan.snap.id)) /\ UNCHANGED plan
    <3>1. s + n <= d
      BY <2>1, <2>2, <2>3 DEF NotStale
    <3>2. at' = "refreshStale" /\ ans'.view.id = "" /\ plan'.attempt = n
      BY <1>a, <2>3, NoAnswer DEF Call
    <3> QED BY <1>a, <2>1, <3>1, <3>2 DEF Paced, Room, Trying
  <2>4. CASE /\ ans.st = "ok" /\ UNCHANGED plan
             /\ Call("memberPatch", MemberPatch(plan.snap, plan.member))
    <3>1. at' = "memberPatch" /\ ans'.st = "pending" /\ plan' = plan
      BY <2>4 DEF Call, Pending
    <3>2. s + n <= d \/ NotStale(remote', at', local', plan'.snap, ans')
      BY <1>0, <2>1, <2>2, <2>4, <3>1 DEF NotStale
    <3> QED BY <1>a, <2>1, <2>2, <3>1, <3>2 DEF Paced, Room
  <2>5. CASE Call("refresh", Get(plan.snap.id))
    BY <2>5 DEF Call, Paced, Trying
  <2> QED BY <1>2, <1>c, <1>d, <2>3, <2>4, <2>5 DEF PatchParty
<1>3. CASE PatchMember
  <2>1. at = "memberPatch" /\ Disturbances' = d
    BY <1>3, <1>a, <1>b DEF PatchMember, Answered
  <2>2. s + n <= d + 1 /\ (s + n <= d \/ NotStale(remote, at, local, plan.snap, ans))
    BY <1>a, <2>1 DEF Paced, Room, Trying
  <2>3. CASE ans.st = "stale" /\ Call("refreshStale", Get(plan.snap.id)) /\ UNCHANGED plan
    <3>1. s + n <= d
      BY <2>1, <2>2, <2>3 DEF NotStale
    <3>2. at' = "refreshStale" /\ ans'.view.id = "" /\ plan'.attempt = n
      BY <1>a, <2>3, NoAnswer DEF Call
    <3> QED BY <1>a, <2>1, <3>1, <3>2 DEF Paced, Room, Trying
  <2>4. CASE Call("refresh", Get(plan.snap.id))
    BY <2>4 DEF Call, Paced, Trying
  <2> QED BY <1>3, <1>c, <1>d, <2>3, <2>4 DEF PatchMember
<1>4. CASE RefreshStale
  <2>1. at = "refreshStale" /\ Disturbances' = d
    BY <1>4, <1>a, <1>b DEF RefreshStale, Answered
  <2>2. s + n <= d /\ (s + (n + 1) <= d \/ (ans.view.id # "" => Fits(remote, ans.view)))
    BY <1>a, <2>1 DEF Paced, Room
  <2>3. CASE plan.attempt = MaxPatchRetries /\ Return("ErrPatchConflict")
    BY <1>a, <2>1, <2>2, <2>3, ReturnElsewhere DEF Room
  <2>4. CASE Found /\ local' = Fetched /\ Sleep
    <3>1. at' = "sleep" /\ plan'.attempt = n + 1
      BY <1>a, <2>4 DEF Sleep, TypeInvariant, StepOK, CommandOK, IsPlan
    <3>2. Fits(remote, ans.view) => Fits(remote', local')
      <4>1. /\ local'.id = ans.view.id /\ local'.rev = ans.view.rev
            /\ local'.members = [a \in DOMAIN ans.view.members |->
                    MemberOf(ans.view.members[a].role, ans.view.members[a].rev,
                             ans.view.members[a].meta, ans.view.members[a].meta)]
        BY <2>4 DEF Fetched, mapRemoteParty
      <4>2. /\ DOMAIN local'.members = DOMAIN ans.view.members
            /\ Self \in DOMAIN ans.view.members =>
                 local'.members[Self].rev = ans.view.members[Self].rev
        BY <4>1 DEF MemberOf
      <4> QED BY <1>0, <4>1, <4>2 DEF Fits, FitsSelf
    <3>3. ans.view.id # ""
      BY <2>4, ReducerAssumption DEF Found, TypeInvariant, StepOK, WireOK, IsFound
    <3>4. s + (n + 1) <= d \/ NotStale(remote', at', local', plan'.snap, ans')
      BY <2>2, <3>1, <3>2, <3>3 DEF NotStale
    <3>5. s + (n + 1) <= d + 1
      <4>1. s + n <= d
        BY <2>2
      <4> QED BY <4>1
    <3> QED BY <1>a, <2>1, <3>1, <3>4, <3>5 DEF Paced, Room
  <2> QED BY <1>4, <1>c, <1>d, <2>3, <2>4 DEF RefreshStale
<1>5. CASE WakeUp
  <2>1. CASE Try(op, n) /\ UNCHANGED world
    <3>1. at = "sleep" /\ Disturbances' = d
      BY <1>5, <1>a, <2>1 DEF WakeUp, world, Disturbances
    <3>2. s + n <= d + 1 /\ (s + n <= d \/ (local.id # "" => Fits(remote, local)))
      BY <1>a, <3>1 DEF Paced, Room, NotStale, Trying
    <3>3. Paced'
      BY <1>0, <1>a, <2>1, <3>1, <3>2, TryPaced
    <3>4. at' # "idle" \/ ret' # "ErrPatchConflict"
      BY <2>1 DEF Try, Patch, Call, Return
    <3> QED BY <1>e, <3>3, <3>4
  <2> QED BY <1>5, <1>a, <1>d, <2>1 DEF WakeUp
<1>6. CASE ~(Hydrate \/ PatchParty \/ PatchMember \/ RefreshStale \/ WakeUp)
  BY <1>6, ClientElsewhere DEF Paced
<1> QED BY <1>1, <1>2, <1>3, <1>4, <1>5, <1>6

LEMMA Gap ==
  /\ \A s, d, m \in Nat : s + m <= d => d - s >= m
  /\ \A d \in Nat : d + 0 <= d + 1 /\ d + 0 <= d
OBVIOUS

LEMMA ApplicationPaced ==
  ASSUME TypeInvariant, Application, Watch
  PROVE  Paced' /\ (at' = "idle" => ret' # "ErrPatchConflict")
<1> DEFINE Goal == Paced' /\ (at' = "idle" => ret' # "ErrPatchConflict")
<1>0. UNCHANGED <<remote, changes, faults>> /\ at = "idle"
  BY CommandFrame, ApplicationFrame, ApplicationGoes
<1>1. PICK d \in Nat : d = Disturbances /\ d = Disturbances'
  BY <1>0, Numbers DEF Disturbances
<1>2. at' # "idle" => since' = d
  BY <1>0, <1>1 DEF Watch
<1>3. ASSUME BeginSync \/ BeginEnsure \/ BeginCreate \/ BeginLeave PROVE Goal
  BY <1>3 DEF BeginSync, BeginEnsure, BeginCreate, BeginLeave, Call, Return, Paced, Trying
<1>4. ASSUME NEW p, BeginJoin(p) PROVE Goal
  <2>1. PICK o : JoinLocked(o, p)
    BY <1>4 DEF BeginJoin
  <2>2. at' \notin Trying \cup {"refreshStale"} /\ (at' = "idle" => ret' = "nil")
    BY <2>1 DEF JoinLocked, Call, Return, Trying
  <2> QED BY <2>2 DEF Paced
<1>5. ASSUME NEW a, BeginJoinMember(a) \/ BeginJoinInvite(a) \/ BeginRequest(a) PROVE Goal
  BY <1>5 DEF BeginJoinMember, BeginJoinInvite, BeginRequest, Call, Paced, Trying
<1>6. ASSUME NEW p, NEW a, BeginPromote(p, a) PROVE Goal
  BY <1>6 DEF BeginPromote, Call, Return, Paced, Trying
<1>7. ASSUME NEW i, BeginSet(i) PROVE Goal
  <2>1. PICK o : Try(o, 0)
    BY <1>7 DEF BeginSet
  <2>2. at' = "idle" => ret' # "ErrPatchConflict"
    BY <2>1 DEF Try, Patch, Call, Return
  <2>3. CASE at' = "idle"
    BY <2>2, <2>3 DEF Paced, Trying
  <2>4. CASE at' # "idle"
    <3>1. d + 0 <= d + 1 /\ d + 0 <= d
      BY Gap
    <3>2. since' = d /\ Disturbances' = d
      BY <1>1, <1>2, <2>4
    <3> QED BY <1>0, <2>1, <2>4, <3>1, <3>2, TryPaced
  <2> QED BY <2>3, <2>4
<1> QED BY <1>3, <1>4, <1>5, <1>6, <1>7 DEF Application

LEMMA ConflictStep ==
  ASSUME ~Notified, TypeInvariant, ConflictInv, [Next]_vars
  PROVE  ConflictInv'
<1>1. Known'
  BY KnownStep DEF ConflictInv
<1>2. CASE UNCHANGED vars
  BY <1>1, <1>2 DEF vars, command, world, wire, ConflictInv, Paced, Room, Disturbances,
                    ConflictNeedsContention
<1>3. CASE Next /\ Client
  <2>1. at # "idle" /\ since' = since
    BY <1>3, ClientNames DEF TypeInvariant, Next, Watch
  <2>2. Paced' /\ (at' = "idle" /\ ret' = "ErrPatchConflict" => Room(MaxPatchRetries)')
    BY <1>3, <2>1, ClientPaced DEF ConflictInv
  <2>3. ConflictNeedsContention'
    <3>1. PICK s \in Nat, d \in Nat, m \in Nat : s = since' /\ d = Disturbances' /\ m = MaxPatchRetries
      BY <1>3, <2>1, TypeStep, Numbers DEF TypeInvariant, FaultsOK, ChangesOK, Disturbances
    <3>2. s + m <= d => d - s >= m
      BY <3>1, Gap
    <3> QED BY <2>2, <3>1, <3>2 DEF ConflictNeedsContention, Room
  <2> QED BY <1>1, <2>2, <2>3 DEF ConflictInv
<1>4. CASE Next /\ Application
  BY <1>1, <1>4, ApplicationPaced DEF Next, ConflictInv, ConflictNeedsContention
<1>5. CASE Decode
  BY <1>5 DEF Decode, Apply, Complete, ApplyCompleted, Receive, Known, ConflictInv
<1>6. CASE Next /\ (Serve \/ Lose \/ Environment) /\ UNCHANGED <<local, decoding, command>>
  <2>1. UNCHANGED <<at, plan, ret, local>> /\ since' = since
    BY <1>6 DEF command, Next, Watch
  <2>2. ASSUME Lose \/ Environment PROVE Disturbances' = Disturbances + 1
    <3>1. ASSUME Lose PROVE Disturbances' = Disturbances + 1
      BY <3>1, SpendCosts DEF Lose
    <3>2. ASSUME Environment PROVE Disturbances' = Disturbances + 1
      <4>1. changes' = changes + 1 /\ UNCHANGED faults
        BY <3>2 DEF Environment, OtherJoins, OtherLeaves, KickedBy, OtherPromotes,
                    OtherPatches, OtherSets, Acts
      <4> QED BY <4>1, Numbers DEF Disturbances
    <3> QED BY <2>2, <3>1, <3>2
  <2>3. ASSUME Serve PROVE Disturbances' \in {Disturbances, Disturbances + 1}
    BY <2>3, ReplyCosts
       DEF Serve, ServeUser, ServeParty, ServeCreate, ServeJoin, ServeLeave, ServePromote,
           ServePartyPatch, ServeMemberPatch, ServePings, ServeIntention, Refuse, Report
  <2>4. Paced'
    <3>1. ASSUME Lose \/ Environment PROVE Paced'
      BY <2>1, <2>2, <3>1, Disturbed DEF ConflictInv
    <3>2. ASSUME Serve PROVE Paced'
      BY <2>1, <3>2, ServePaced DEF ConflictInv
    <3> QED BY <1>6, <3>1, <3>2
  <2>5. ConflictNeedsContention'
    <3>1. PICK s \in Nat, d \in Nat, m \in Nat : s = since /\ d = Disturbances /\ m = MaxPatchRetries
      BY Numbers
    <3>2. Disturbances' \in {d, d + 1}
      BY <1>6, <2>2, <2>3, <3>1
    <3>3. d - s >= m => (d + 1) - s >= m
      BY <3>1
    <3> QED BY <2>1, <3>1, <3>2, <3>3 DEF ConflictInv, ConflictNeedsContention
  <2> QED BY <1>1, <2>4, <2>5 DEF ConflictInv
<1> QED BY <1>2, <1>3, <1>4, <1>5, <1>6 DEF Next, Step

\* ErrPatchConflict is returned only when somebody is to blame: there were
\* at least as many changes by others and faults of the transport, since the
\* command began, as there were retries (applyIntentWithRetry).
THEOREM ConflictContended == ASSUME ~Notified PROVE Spec => []ConflictNeedsContention
<1>1. Init => TypeInvariant /\ ConflictInv
  <2>1. Init => Paced /\ ConflictNeedsContention
    BY DEF Init, Paced, Trying, ConflictNeedsContention
  <2> QED BY <2>1, TypeInit, KnownInit DEF ConflictInv
<1>2. TypeInvariant /\ ConflictInv /\ [Next]_vars => (TypeInvariant /\ ConflictInv)'
  BY TypeStep, ConflictStep
<1>3. TypeInvariant /\ ConflictInv => ConflictNeedsContention
  BY DEF ConflictInv
<1> QED BY <1>1, <1>2, <1>3, PTL DEF Spec

-----------------------------------------------------------------------------
(* SetIsEffective: what the client knows of its own metadata. *)

\* This account is in party p of the world r.
Here(r, p) == p # "" /\ Self \in DOMAIN r[p].members

\* The copy c has the metadata this account has in it, and all of u is set.
SameSelf(r, c) ==
  Here(r, c.id) /\ Self \in DOMAIN c.members
    => c.members[Self].meta = r[c.id].members[Self].meta
SetAt(r, p, u) ==
  Here(r, p) => \A k \in DOMAIN u : Lookup(r[p].members[Self].meta, k) = u[k]

\* What u says and current does not, the updates do.
Covers(updates, current, u) ==
  \A k \in DOMAIN u : IF k \in DOMAIN updates THEN updates[k] = u[k]
                      ELSE Lookup(current, k) = u[k]

\* Nobody but this account changes its metadata, in the step from r to s.
Keeps(r, s, p) == Here(s, p) => /\ Here(r, p)
                                /\ s[p].members[Self].meta = r[p].members[Self].meta
Stays(r, s, p) == Here(r, p) => Here(s, p)

LEMMA KeepsSame ==
  ASSUME NEW r, NEW s, NEW c, c.id # "" => Keeps(r, s, c.id), SameSelf(r, c)
  PROVE  SameSelf(s, c)
BY DEF Keeps, SameSelf, Here

LEMMA KeepsSet ==
  ASSUME NEW r, NEW s, NEW p, p # "" => Keeps(r, s, p), NEW u, SetAt(r, p, u)
  PROVE  SetAt(s, p, u)
BY DEF Keeps, SetAt, Here

LEMMA UpdatesCover ==
  ASSUME NEW u, NEW current, NEW updates \in MemberUpdates(u, current)
  PROVE  Covers(updates, current, u)
<1>1. PICK d : d = Differing(u, current)
  OBVIOUS
<1>2. /\ DOMAIN d = {x \in DOMAIN u : Lookup(current, x) # u[x]}
      /\ \A k \in DOMAIN d : d[k] = u[k]
  BY <1>1 DEF Differing
<1>3. PICK t : t = [k \in DOMAIN u \cap Stamped |-> u[k]]
  OBVIOUS
<1>4. DOMAIN t = DOMAIN u \cap Stamped /\ \A k \in DOMAIN t : t[k] = u[k]
  BY <1>3
<1>5. CASE updates = d
  BY <1>2, <1>5 DEF Covers
<1>6. CASE updates = Overlay(d, t, {})
  <2>1. /\ DOMAIN updates = DOMAIN d \cup DOMAIN t
        /\ \A k \in DOMAIN updates : updates[k] = IF k \in DOMAIN t THEN t[k] ELSE d[k]
    BY <1>6 DEF Overlay
  <2> QED BY <1>2, <1>4, <2>1 DEF Covers
<1> QED BY <1>1, <1>3, <1>5, <1>6 DEF MemberUpdates

LEMMA CoveredOverlay ==
  ASSUME NEW updates, NEW current, NEW u, Covers(updates, current, u), NEW k \in DOMAIN u
  PROVE  Lookup(Overlay(current, updates, {}), k) = u[k]
BY DEF Covers, Overlay, Lookup

LEMMA CoveredByNothing ==
  ASSUME NEW current, NEW u, Covers(Nothing, current, u)
  PROVE  \A k \in DOMAIN u : Lookup(current, k) = u[k]
BY DEF Covers, Nothing

-----------------------------------------------------------------------------
(* What the service does to the metadata of this account. *)

LEMMA ChangeKeeps ==
  ASSUME IsWorld(remote), NEW p \in Parties, NEW new, NEW notes, Change(p, new, notes)
  PROVE  /\ (Self \in DOMAIN new.members =>
                /\ Self \in DOMAIN remote[p].members
                /\ new.members[Self].meta = remote[p].members[Self].meta)
             => \A q \in Parties : Keeps(remote, remote', q)
         /\ (Self \in DOMAIN remote[p].members => Self \in DOMAIN new.members)
             => \A q \in Parties : Stays(remote, remote', q)
<1>1. remote'[p] = new /\ \A q \in Parties \ {p} : remote'[q] = remote[q]
  BY DEF Change, IsWorld
<1>2. \A q \in Parties \ {p} : Keeps(remote, remote', q) /\ Stays(remote, remote', q)
  BY <1>1 DEF Keeps, Stays, Here
<1>3. (Self \in DOMAIN new.members =>
         /\ Self \in DOMAIN remote[p].members
         /\ new.members[Self].meta = remote[p].members[Self].meta) => Keeps(remote, remote', p)
  BY <1>1 DEF Keeps, Here
<1>4. (Self \in DOMAIN remote[p].members => Self \in DOMAIN new.members) => Stays(remote, remote', p)
  BY <1>1 DEF Stays, Here
<1> QED BY <1>2, <1>3, <1>4

LEMMA JoinNowKeeps ==
  ASSUME IsWorld(remote), NEW p \in Parties, NEW a, JoinNow(p, a)
  PROVE  \A q \in Parties : /\ a # Self \/ q # p => Keeps(remote, remote', q)
                            /\ Stays(remote, remote', q)
<1> DEFINE m == [role |-> IF DOMAIN remote[p].members = {} THEN "CAPTAIN" ELSE "MEMBER",
                 rev |-> 0, meta |-> Nothing]
           new == [remote[p] EXCEPT !.rev = remote[p].rev + 1, !.members = Put(@, a, m)]
           notes == <<[Note("MEMBER_JOINED", p, a, remote[p].rev + 1) EXCEPT !.role = m.role]>>
<1>1. Change(p, new, notes)
  BY DEF JoinNow
<1>2. new.members = Put(remote[p].members, a, m)
  BY DEF IsWorld
<1> HIDE DEF new, notes, m
<1>3. a # Self /\ Self \in DOMAIN new.members =>
        /\ Self \in DOMAIN remote[p].members
        /\ new.members[Self].meta = remote[p].members[Self].meta
  BY <1>2 DEF Put
<1>3a. Self \in DOMAIN remote[p].members => Self \in DOMAIN new.members
  BY <1>2 DEF Put
<1>3b. \A q \in Parties : Stays(remote, remote', q)
  BY <1>1, <1>3a, ChangeKeeps
<1>4. CASE a # Self
  BY <1>1, <1>3, <1>3b, <1>4, ChangeKeeps
<1>5. ASSUME NEW q \in Parties, q # p PROVE Keeps(remote, remote', q)
  <2>1. remote'[q] = remote[q]
    BY <1>1, <1>5 DEF Change, IsWorld
  <2> QED BY <2>1 DEF Keeps, Here
<1> QED BY <1>3b, <1>4, <1>5

LEMMA GoneNowKeeps ==
  ASSUME IsWorld(remote), NEW p \in Parties, NEW type, NEW a, GoneNow(type, p, a)
  PROVE  /\ \A q \in Parties : Keeps(remote, remote', q)
         /\ a # Self => \A q \in Parties : Stays(remote, remote', q)
         /\ a \notin DOMAIN remote'[p].members
<1> DEFINE rest == Drop(remote[p].members, {a})
           heir == IF CaptainOf(rest) = "" /\ DOMAIN rest # {}
                   THEN CHOOSE b \in DOMAIN rest : TRUE ELSE ""
           rev == remote[p].rev + 1
           ms == IF heir = "" THEN rest ELSE [rest EXCEPT ![heir].role = "CAPTAIN"]
           new == [remote[p] EXCEPT !.rev = rev, !.members = ms]
           notes == <<Note(type, p, a, rev)>> \o
                    (IF heir = "" THEN <<>> ELSE <<Note("MEMBER_NEW_CAPTAIN", p, heir, rev)>>)
<1>1. Change(p, new, notes)
  BY DEF GoneNow
<1>2. new.members = ms
  BY DEF IsWorld
<1>3. /\ IsRemoteMembers(rest) /\ DOMAIN rest \subseteq DOMAIN remote[p].members
      /\ \A b \in DOMAIN rest : rest[b] = remote[p].members[b]
      /\ DOMAIN rest = DOMAIN remote[p].members \ {a}
  BY RemoteMembersType DEF IsWorld, Drop
<1> HIDE DEF rest
<1>4. heir = "" \/ heir \in DOMAIN rest
  OBVIOUS
<1> HIDE DEF heir
<1>5. /\ DOMAIN ms = DOMAIN rest
      /\ \A b \in DOMAIN rest : ms[b].meta = rest[b].meta
  BY <1>3, <1>4 DEF IsRemoteMembers, IsMap
<1>6. remote'[p] = new
  BY <1>1 DEF Change, IsWorld
<1> HIDE DEF ms, new, notes
<1>7. \A q \in Parties : Keeps(remote, remote', q)
  BY <1>1, <1>2, <1>3, <1>5, ChangeKeeps
<1>8. a # Self => \A q \in Parties : Stays(remote, remote', q)
  BY <1>1, <1>2, <1>3, <1>5, ChangeKeeps
<1> QED BY <1>2, <1>3, <1>5, <1>6, <1>7, <1>8

LEMMA PromoteNowKeeps ==
  ASSUME IsWorld(remote), NEW p \in Parties, NEW a, PromoteNow(p, a)
  PROVE  \A q \in Parties : Keeps(remote, remote', q) /\ Stays(remote, remote', q)
<1> DEFINE ms == [b \in DOMAIN remote[p].members |->
                    [remote[p].members[b] EXCEPT !.role = IF b = a THEN "CAPTAIN" ELSE "MEMBER"]]
           rev == remote[p].rev + 1
           new == [remote[p] EXCEPT !.rev = rev, !.members = ms]
           notes == <<Note("MEMBER_NEW_CAPTAIN", p, a, rev)>>
<1>1. Change(p, new, notes)
  BY DEF PromoteNow
<1>2. new.members = ms
  BY DEF IsWorld
<1> HIDE DEF new, notes
<1>3. DOMAIN ms = DOMAIN remote[p].members
  OBVIOUS
<1>4. ASSUME Self \in DOMAIN remote[p].members
      PROVE  ms[Self].meta = remote[p].members[Self].meta
  <2>1. PICK m : m = remote[p].members[Self]
                 /\ m \in [role : {"MEMBER", "CAPTAIN"}, rev : Nat, meta : {m.meta}]
    BY <1>4 DEF IsWorld, IsRemoteMembers
  <2>2. ms[Self] = [m EXCEPT !.role = IF Self = a THEN "CAPTAIN" ELSE "MEMBER"]
    BY <1>4, <2>1
  <2> QED BY <2>1, <2>2
<1> HIDE DEF ms
<1>5. \A q \in Parties : Keeps(remote, remote', q)
  BY <1>1, <1>2, <1>3, <1>4, ChangeKeeps
<1>6. \A q \in Parties : Stays(remote, remote', q)
  BY <1>1, <1>2, <1>3, ChangeKeeps
<1> QED BY <1>5, <1>6

LEMMA PatchNowKeeps ==
  ASSUME IsWorld(remote), NEW p \in Parties, NEW u, NEW r, PatchNow(p, u, r)
  PROVE  \A q \in Parties : Keeps(remote, remote', q) /\ Stays(remote, remote', q)
<1> DEFINE rev == remote[p].rev + 1
           new == [remote[p] EXCEPT !.rev = rev, !.meta = Overlay(@, u, r)]
           notes == <<[Note("PARTY_UPDATED", p, "", rev) EXCEPT !.updates = u, !.removed = r]>>
<1>1. Change(p, new, notes)
  BY DEF PatchNow
<1>2. new.members = remote[p].members
  BY DEF IsWorld
<1> HIDE DEF new, notes
<1>3. \A q \in Parties : Keeps(remote, remote', q)
  BY <1>1, <1>2, ChangeKeeps
<1>4. \A q \in Parties : Stays(remote, remote', q)
  BY <1>1, <1>2, ChangeKeeps
<1> QED BY <1>3, <1>4

LEMMA MemberPatchNowKeeps ==
  ASSUME IsWorld(remote), NEW p \in Parties, NEW a \in DOMAIN remote[p].members,
         NEW u, NEW r, MemberPatchNow(p, a, u, r)
  PROVE  /\ a # Self => \A q \in Parties : Keeps(remote, remote', q)
         /\ a = Self => /\ remote'[p].members[Self].meta = Overlay(remote[p].members[Self].meta, u, r)
                        /\ \A q \in Parties \ {p} : Keeps(remote, remote', q)
         /\ \A q \in Parties : Stays(remote, remote', q)
<1> DEFINE m == [remote[p].members[a] EXCEPT !.rev = @ + 1, !.meta = Overlay(@, u, r)]
           new == [remote[p] EXCEPT !.members[a] = m]
           notes == <<[Note("MEMBER_STATE_UPDATED", p, a, m.rev) EXCEPT !.updates = u, !.removed = r]>>
<1>1. Change(p, new, notes)
  BY DEF MemberPatchNow
<1>2. PICK old : old = remote[p].members[a]
                 /\ old \in [role : {"MEMBER", "CAPTAIN"}, rev : Nat, meta : {old.meta}]
  BY DEF IsWorld, IsRemoteMembers
<1>3. m.meta = Overlay(old.meta, u, r)
  BY <1>2
<1> HIDE DEF m, notes
<1>4. new = [remote[p] EXCEPT !.members = [remote[p].members EXCEPT ![a] = m]]
  OBVIOUS
<1>5. new.members = [remote[p].members EXCEPT ![a] = m] /\ remote'[p] = new
  BY <1>1, <1>4 DEF IsWorld, Change
<1> HIDE DEF new
<1>6. /\ DOMAIN new.members = DOMAIN remote[p].members /\ new.members[a] = m
      /\ \A b \in DOMAIN remote[p].members \ {a} : new.members[b] = remote[p].members[b]
  BY <1>5 DEF IsWorld, IsRemoteMembers, IsMap
<1>7. CASE a # Self
  BY <1>1, <1>6, <1>7, ChangeKeeps
<1>8. \A q \in Parties : Stays(remote, remote', q)
  BY <1>1, <1>6, ChangeKeeps
<1>9. CASE a = Self
  <2>1. \A q \in Parties \ {p} : remote'[q] = remote[q]
    BY <1>1 DEF Change, IsWorld
  <2>2. \A q \in Parties \ {p} : Keeps(remote, remote', q)
    BY <2>1 DEF Keeps, Here
  <2> QED BY <1>2, <1>3, <1>5, <1>6, <1>8, <1>9, <2>2
<1> QED BY <1>7, <1>8, <1>9

LEMMA EnvironmentKeeps ==
  ASSUME IsWorld(remote), Environment
  PROVE  \A q \in Parties : /\ Keeps(remote, remote', q)
                            /\ "kick" \notin EnvOps => Stays(remote, remote', q)
<1>1. PICK p \in Parties, a \in Accounts \ {Self} :
        \/ OtherJoins(p, a) \/ OtherLeaves(p, a) \/ KickedBy(p, a)
        \/ OtherPromotes(p, a) \/ OtherPatches(p, a) \/ OtherSets(p, a)
  BY DEF Environment
<1>2. CASE OtherJoins(p, a)
  BY <1>2, JoinNowKeeps DEF OtherJoins
<1>3. CASE OtherLeaves(p, a) \/ KickedBy(p, a)
  BY <1>3, GoneNowKeeps DEF OtherLeaves, KickedBy, Acts
<1>4. CASE OtherPromotes(p, a)
  BY <1>4, PromoteNowKeeps DEF OtherPromotes
<1>5. CASE OtherPatches(p, a)
  BY <1>5, PatchNowKeeps DEF OtherPatches
<1>6. CASE OtherSets(p, a)
  BY <1>6, MemberPatchNowKeeps DEF OtherSets
<1> QED BY <1>1, <1>2, <1>3, <1>4, <1>5, <1>6

-----------------------------------------------------------------------------
(* What a Set knows on its way. *)

Intact == ~Happened({"lostRequest", "lostAnswer"})
SetWaits == {"hydrate", "partyPatch", "memberPatch", "refresh", "refreshStale", "sleep"}
Patching == {"partyPatch", "memberPatch", "refresh", "refreshStale"}

\* No other command returns under the name of a Set.
SetNamed == at \notin SetWaits \cup {"idle"} => op.name # "set"

\* The cached metadata of this account is what the service has, but for the
\* time between a patch and the answer that refreshes it; there the answer
\* to the patch tells, or this account is gone from the party.
CopyTrue ==
  /\ at \notin {"memberPatch", "refresh", "refreshStale"} => SameSelf(remote, local)
  /\ at \in {"partyPatch", "joinHydrate"} => SameSelf(remote, plan.snap)
  /\ SameSelf(remote, ans.view)
PlanTrue ==
  /\ at \in {"partyPatch", "memberPatch"} =>
       Covers(plan.member, plan.snap.members[Self].meta, op.intent.member)
  /\ at = "memberPatch" => req.updates = plan.member
  /\ at \in Patching => local.id = plan.snap.id
AnswerTrue ==
  /\ at = "memberPatch" /\ ans.st = "ok" => SetAt(remote, plan.snap.id, op.intent.member)
  /\ at = "memberPatch" /\ ans.st \notin {"pending", "ok", "stale"} => ~Here(remote, plan.snap.id)
  /\ at = "refresh" => SetAt(remote, plan.snap.id, op.intent.member)
  /\ at \in {"refresh", "refreshStale"} =>
       /\ ans.st \notin {"pending", "ok"} => ~Here(remote, plan.snap.id)
       /\ ans.view.id \in {"", plan.snap.id}

Truth == SetNamed /\ (Intact => CopyTrue /\ PlanTrue /\ AnswerTrue)
EffectInv == Known /\ Truth /\ SetIsEffective

LEMMA EffectIs ==
  SetIsEffective <=>
    (at = "idle" /\ ret = "nil" /\ op.name = "set" /\ Intact
       => SetAt(remote, local.id, op.intent.member))
BY DEF SetIsEffective, Succeeded, InLocalParty, SetAt, Here, Intact

\* What was lost stays lost.
LEMMA IntactBefore ==
  ASSUME TypeInvariant, faults' = faults \/ \E kind : Spend(kind), Intact'
  PROVE  /\ Intact
         /\ \A kind \in {"lostRequest", "lostAnswer"} : ~Spend(kind)
<1>1. faults \in Seq(Faults)
  BY DEF TypeInvariant, FaultsOK
<1>2. CASE faults' = faults
  <2>1. ASSUME NEW kind, Spend(kind) PROVE FALSE
    BY <1>1, <1>2, <2>1 DEF Spend
  <2> QED BY <1>2, <2>1 DEF Intact, Happened
<1>3. ASSUME NEW kind, Spend(kind)
      PROVE  Intact /\ kind \notin {"lostRequest", "lostAnswer"}
  <2>1. faults' = Append(faults, kind) /\ kind \in Faults
    BY <1>3 DEF Spend
  <2>2. /\ DOMAIN faults' = 1 .. Len(faults) + 1 /\ DOMAIN faults = 1 .. Len(faults)
        /\ \A n \in DOMAIN faults : n \in DOMAIN faults' /\ faults'[n] = faults[n]
        /\ Len(faults) + 1 \in DOMAIN faults' /\ faults'[Len(faults) + 1] = kind
    BY <1>1, <2>1
  <2>3. \A n \in DOMAIN faults' : faults'[n] \notin {"lostRequest", "lostAnswer"}
    BY DEF Intact, Happened
  <2> QED BY <2>2, <2>3 DEF Intact, Happened
<1> QED BY <1>2, <1>3

\* The answer of the service, when it is not lost.
LEMMA IntactReply ==
  ASSUME TypeInvariant, NEW st, NEW view, Reply(st, view), Intact'
  PROVE  /\ Intact
         /\ \/ ans' = [st |-> st, view |-> view]
            \/ ans' = Pending
<1>1. faults' = faults \/ \E kind : Spend(kind)
  BY DEF Reply
<1>2. ~Spend("lostAnswer") /\ Intact
  BY <1>1, IntactBefore
<1> QED BY <1>2 DEF Reply

\* A step that keeps the metadata of this account, and asks for nothing new.
LEMMA TruthKept ==
  ASSUME TypeInvariant, Truth, Intact, UNCHANGED <<at, op, plan, local, req>>,
         \A q \in Parties : q \in {local.id, plan.snap.id} => Keeps(remote, remote', q),
         SameSelf(remote', ans'.view)
  PROVE  /\ CopyTrue' /\ PlanTrue'
         /\ AnswerTrue' \/ at \in {"memberPatch", "refresh", "refreshStale"}
         /\ at = "refresh" => SetAt(remote', plan.snap.id, op.intent.member)
         /\ ~Here(remote, plan.snap.id) => ~Here(remote', plan.snap.id)
<1>1. local.id \in MaybeParty /\ plan.snap.id \in MaybeParty
  BY DEF TypeInvariant, StepOK, CommandOK, IsPlan, IsParty
<1>2. /\ local.id # "" => Keeps(remote, remote', local.id)
      /\ plan.snap.id # "" => Keeps(remote, remote', plan.snap.id)
  BY <1>1 DEF MaybeParty
<1>3. /\ SameSelf(remote, local) => SameSelf(remote', local)
      /\ SameSelf(remote, plan.snap) => SameSelf(remote', plan.snap)
  BY <1>2, KeepsSame
<1>4. SetAt(remote, plan.snap.id, op.intent.member) => SetAt(remote', plan.snap.id, op.intent.member)
  BY <1>2, KeepsSet
<1>5. ~Here(remote, plan.snap.id) => ~Here(remote', plan.snap.id)
  BY <1>2 DEF Keeps, Here
<1>6. CopyTrue'
  BY <1>3 DEF Truth, CopyTrue
<1>7. PlanTrue'
  BY DEF Truth, PlanTrue
<1>8. AnswerTrue' \/ at \in {"memberPatch", "refresh", "refreshStale"}
  BY DEF AnswerTrue
<1> QED BY <1>4, <1>5, <1>6, <1>7, <1>8 DEF Truth, AnswerTrue

LEMMA ReportedSame ==
  ASSUME NEW p
  PROVE  /\ SameSelf(remote, ViewOf(p))
         /\ SameSelf(remote, [ViewOf(p) EXCEPT !.members = Drop(@, {Self})])
<1>1. PICK v : v = [ViewOf(p) EXCEPT !.members = Drop(remote[p].members, {Self})]
  OBVIOUS
<1>2. Self \notin DOMAIN v.members
  BY <1>1 DEF ViewOf, Drop
<1> QED BY <1>1, <1>2 DEF ViewOf, SameSelf

LEMMA UnnamedSame ==
  ASSUME NEW r, NEW c, c.id = ""
  PROVE  SameSelf(r, c)
BY DEF SameSelf, Here

LEMMA MemberPatchTruth ==
  ASSUME TypeInvariant, Known, Truth, ServeMemberPatch, at = "memberPatch",
         UNCHANGED <<at, op, plan, local, req>>, Intact'
  PROVE  CopyTrue' /\ PlanTrue' /\ AnswerTrue'
<1>1. /\ IsWorld(remote) /\ req.party \in Parties /\ ans.st = "pending"
  BY DEF TypeInvariant, WorldOK, StepOK, WireOK, IsRequest, ServeMemberPatch, Asked, MaybeParty, Pending
<1>2. req = MemberPatch(plan.snap, req.updates) /\ Self \in DOMAIN plan.snap.members
  BY DEF Known, Wiring, Wired, TypeInvariant, StepOK, CommandOK, HasTarget
<1>3. req.party = plan.snap.id /\ req.rev = plan.snap.members[Self].rev /\ plan.snap.id # ""
  <2>1. req.party = plan.snap.id /\ req.rev = plan.snap.members[Self].rev
    BY <1>2, PatchFields
  <2> QED BY <1>1, <2>1, ReducerAssumption
<1>4. ASSUME NEW st, Reply(st, NoView)
      PROVE  /\ Intact /\ ans'.view.id = ""
             /\ ans' = Pending \/ ans'.st = st
             /\ CopyTrue' /\ PlanTrue'
  <2>1. Intact /\ (ans' = [st |-> st, view |-> NoView] \/ ans' = Pending)
    BY <1>4, IntactReply
  <2>2. ans'.view.id = "" /\ (ans' = Pending \/ ans'.st = st)
    <3>1. ans' = Pending \/ (ans'.st = st /\ ans'.view = NoView)
      BY <2>1
    <3> QED BY <3>1, NoAnswer, NobodyKnows
  <2>3. CopyTrue'
    BY <2>2, UnnamedSame DEF CopyTrue
  <2>4. PlanTrue'
    BY <2>1 DEF Truth, PlanTrue
  <2> QED BY <2>1, <2>2, <2>3, <2>4
<1>5. ASSUME NEW st \in {"notFound", "stale"}, Refuse(st),
             st = "notFound" => Self \notin DOMAIN remote[req.party].members
      PROVE  CopyTrue' /\ PlanTrue' /\ AnswerTrue'
  <2>1. Reply(st, NoView) /\ remote' = remote
    BY <1>5 DEF Refuse
  <2>2. CopyTrue' /\ PlanTrue' /\ (ans' = Pending \/ ans'.st = st)
    BY <1>4, <2>1
  <2>3. st = "notFound" => ~Here(remote', plan'.snap.id)
    BY <1>3, <1>5, <2>1 DEF Here
  <2>4. AnswerTrue'
    <3>1. ans'.st \in {"pending", st}
      BY <2>2, NoAnswer
    <3> QED BY <1>5, <2>3, <3>1 DEF AnswerTrue
  <2> QED BY <2>2, <2>4
<1>6. ASSUME Self \in DOMAIN remote[req.party].members,
             req.rev = remote[req.party].members[Self].rev,
             MemberPatchNow(req.party, Self, req.updates, {}), Reply("ok", NoView)
      PROVE  CopyTrue' /\ PlanTrue' /\ AnswerTrue'
  <2>1. Intact /\ CopyTrue' /\ PlanTrue' /\ ans'.st \in {"pending", "ok"}
    <3>1. Intact /\ CopyTrue' /\ PlanTrue' /\ (ans' = Pending \/ ans'.st = "ok")
      BY <1>4, <1>6
    <3> QED BY <3>1, NoAnswer
  <2>2. plan.snap.members[Self].meta = remote[req.party].members[Self].meta
    BY <1>2, <1>3, <1>6 DEF Known, Copies, Knows
  <2>3. remote'[req.party].members[Self].meta
          = Overlay(plan.snap.members[Self].meta, plan.member, {})
    <3>1. req.updates = plan.member
      BY <2>1 DEF Truth, PlanTrue
    <3> QED BY <1>1, <1>6, <2>2, <3>1, MemberPatchNowKeeps
  <2>4. Covers(plan.member, plan.snap.members[Self].meta, op.intent.member)
    BY <2>1 DEF Truth, PlanTrue
  <2>5. \A k \in DOMAIN op.intent.member :
          Lookup(remote'[req.party].members[Self].meta, k) = op.intent.member[k]
    BY <2>3, <2>4, CoveredOverlay
  <2>6. SetAt(remote', plan'.snap.id, op'.intent.member)
    BY <1>3, <2>5 DEF SetAt
  <2>7. AnswerTrue'
    BY <2>1, <2>6 DEF AnswerTrue
  <2> QED BY <2>1, <2>7
<1> QED BY <1>5, <1>6 DEF ServeMemberPatch

LEMMA RefreshTruth ==
  ASSUME TypeInvariant, Known, Truth, ServeParty, at \in {"refresh", "refreshStale"},
         req.party = plan.snap.id, UNCHANGED <<at, op, plan, local, req>>, Intact'
  PROVE  CopyTrue' /\ PlanTrue' /\ AnswerTrue'
<1>1. req.party \in Parties
  BY DEF TypeInvariant, StepOK, WireOK, IsRequest, ServeParty, Asked, MaybeParty
<1>2. ASSUME NEW st, NEW v, Reply(st, v), UNCHANGED remote, SameSelf(remote, v),
             v.id \in {"", plan.snap.id}, st # "ok" => ~Here(remote, plan.snap.id)
      PROVE  CopyTrue' /\ PlanTrue' /\ AnswerTrue'
  <2>1. Intact /\ (ans' = [st |-> st, view |-> v] \/ ans' = Pending)
    BY <1>2, IntactReply
  <2>2. /\ ans'.view.id \in {"", v.id} /\ ans'.st \in {"pending", st}
        /\ SameSelf(remote', ans'.view)
    <3>1. CASE ans' = Pending
      <4>1. ans'.view.id = "" /\ ans'.st = "pending"
        BY <3>1, NoAnswer DEF Pending
      <4> QED BY <4>1, UnnamedSame
    <3>2. CASE ans' = [st |-> st, view |-> v]
      BY <1>2, <3>2
    <3> QED BY <2>1, <3>1, <3>2
  <2>3. CopyTrue'
    BY <2>2 DEF CopyTrue
  <2>4. PlanTrue'
    BY <2>1 DEF Truth, PlanTrue
  <2>5. AnswerTrue'
    BY <1>2, <2>1, <2>2 DEF Truth, AnswerTrue
  <2> QED BY <2>3, <2>4, <2>5
<1>3. CASE DOMAIN remote[req.party].members = {}
  <2>1. Reply("notFound", NoView) /\ UNCHANGED remote
    BY <1>3 DEF ServeParty, Refuse
  <2>2. ~Here(remote, plan.snap.id)
    BY <1>3 DEF Here
  <2>3. SameSelf(remote, NoView) /\ NoView.id = ""
    BY NobodyKnows, UnnamedSame
  <2> QED BY <1>2, <2>1, <2>2, <2>3
<1>4. CASE DOMAIN remote[req.party].members # {}
  <2>1. PICK v : /\ v \in {ViewOf(req.party), [ViewOf(req.party) EXCEPT !.members = Drop(@, {Self})]}
                 /\ Report(v)
    BY <1>4 DEF ServeParty
  <2>2. SameSelf(remote, v)
    BY <2>1, ReportedSame
  <2>3. v.id = plan.snap.id
    BY <2>1 DEF ViewOf
  <2>4. Reply("ok", v) /\ UNCHANGED remote
    BY <2>1 DEF Report
  <2> QED BY <1>2, <2>2, <2>3, <2>4
<1> QED BY <1>3, <1>4

LEMMA ServeTruth ==
  ASSUME TypeInvariant, Known, Truth, Serve, UNCHANGED <<at, op, plan, local>>, Intact'
  PROVE  CopyTrue' /\ PlanTrue' /\ AnswerTrue'
<1>1. /\ IsWorld(remote) /\ IsWorld(remote') /\ at \in Labels /\ Wiring /\ req' = req
      /\ Wired(at, op, plan, req)
  BY ServeType DEF TypeInvariant, WorldOK, StepOK, CommandOK, Known, Wiring
<1>2. /\ req.kind \in {"party", "join", "leave", "promote", "partyPatch", "memberPatch"}
           => req.party \in Parties
  BY DEF TypeInvariant, StepOK, WireOK, IsRequest, MaybeParty
<1>3. CASE at = "memberPatch"
  BY <1>1, <1>3, ServeIs, MemberPatchTruth
<1>4. CASE at \in {"refresh", "refreshStale"}
  BY <1>1, <1>4, ServeIs, RefreshTruth
<1>5. ASSUME at \notin {"memberPatch", "refresh", "refreshStale"}
      PROVE  CopyTrue' /\ PlanTrue' /\ AnswerTrue'
  <2>1. ASSUME NEW st, NEW v, Reply(st, v), SameSelf(remote', v),
               \A q \in Parties : q \in {local.id, plan.snap.id} => Keeps(remote, remote', q)
        PROVE  CopyTrue' /\ PlanTrue' /\ AnswerTrue'
    <3>1. Intact
      BY <2>1, IntactReply
    <3>2. SameSelf(remote', ans'.view)
      <4>1. ans'.view \in {v, NoView}
        BY <2>1, ReplyView
      <4>2. SameSelf(remote', NoView)
        BY NobodyKnows, UnnamedSame
      <4> QED BY <2>1, <4>1, <4>2
    <3> QED BY <1>1, <1>5, <2>1, <3>1, <3>2, TruthKept
  <2>2. ASSUME NEW st, NEW v, Reply(st, v), UNCHANGED remote, SameSelf(remote, v)
        PROVE  CopyTrue' /\ PlanTrue' /\ AnswerTrue'
    <3>1. \A q \in Parties : Keeps(remote, remote', q)
      BY <2>2 DEF Keeps
    <3> QED BY <2>1, <2>2, <3>1
  <2>3. ASSUME NEW st, Refuse(st) PROVE CopyTrue' /\ PlanTrue' /\ AnswerTrue'
    <3>1. SameSelf(remote, NoView)
      BY NobodyKnows, UnnamedSame
    <3> QED BY <2>2, <2>3, <3>1 DEF Refuse
  <2>4. ASSUME NEW v, Report(v), SameSelf(remote, v) PROVE CopyTrue' /\ PlanTrue' /\ AnswerTrue'
    BY <2>2, <2>4 DEF Report
  <2>5. \A p : SameSelf(remote, IF p = "" THEN NoView ELSE ViewOf(p))
    <3>1. SameSelf(remote, NoView)
      BY NobodyKnows, UnnamedSame
    <3> QED BY <3>1, ReportedSame
  <2>6. ASSUME Reply("ok", NoView), \A q \in Parties : Keeps(remote, remote', q)
        PROVE  CopyTrue' /\ PlanTrue' /\ AnswerTrue'
    <3>1. SameSelf(remote', NoView)
      BY NobodyKnows, UnnamedSame
    <3> QED BY <2>1, <2>6, <3>1
  <2>7. CASE ServeUser \/ ServePings
    BY <2>3, <2>4, <2>5, <2>7 DEF ServeUser, ServePings
  <2>8. CASE ServeIntention
    <3>1. SameSelf(remote, NoView)
      BY NobodyKnows, UnnamedSame
    <3> QED BY <2>4, <2>8, <3>1 DEF ServeIntention
  <2>9. CASE ServeParty
    BY <2>3, <2>4, <2>9, ReportedSame DEF ServeParty
  <2>10. CASE ServeLeave
    <3>1. ASSUME Self \in DOMAIN remote[req.party].members
          PROVE  GoneNow("MEMBER_LEFT", req.party, Self) /\ Reply("ok", NoView) /\ req.party \in Parties
      BY <1>2, <2>10, <3>1 DEF ServeLeave, Asked
    <3> QED BY <1>1, <2>3, <2>6, <2>10, <3>1, GoneNowKeeps DEF ServeLeave
  <2>11. CASE ServePromote
    <3>1. ASSUME PromoteNow(req.party, req.acct) /\ Reply("ok", NoView)
          PROVE  CopyTrue' /\ PlanTrue' /\ AnswerTrue'
      <4>1. req.party \in Parties
        BY <1>2, <2>11 DEF ServePromote, Asked
      <4> QED BY <1>1, <2>6, <3>1, <4>1, PromoteNowKeeps
    <3> QED BY <2>3, <2>11, <3>1 DEF ServePromote
  <2>12. CASE ServePartyPatch
    <3>1. ASSUME PatchNow(req.party, req.updates, {}) /\ Reply("ok", NoView)
          PROVE  CopyTrue' /\ PlanTrue' /\ AnswerTrue'
      <4>1. req.party \in Parties
        BY <1>2, <2>12 DEF ServePartyPatch, Asked
      <4> QED BY <1>1, <2>6, <3>1, <4>1, PatchNowKeeps
    <3> QED BY <2>3, <2>12, <3>1 DEF ServePartyPatch
  <2>13. ~ServeMemberPatch
    BY <1>1, <1>5, WiredKinds DEF ServeMemberPatch, Asked
  <2>14. CASE ServeJoin
    <3>1. ASSUME JoinNow(req.party, Self) /\ Reply("ok", NoView)
          PROVE  CopyTrue' /\ PlanTrue' /\ AnswerTrue'
      <4>1. at = "join" /\ local.id = ""
        BY <1>1, <2>14, WiredKinds DEF Known, ServeJoin, Asked
      <4>2. plan.snap.id = ""
        BY <1>1, <4>1, NobodyKnows DEF Wired, Planning
      <4>3. SameSelf(remote', NoView)
        BY NobodyKnows, UnnamedSame
      <4> QED BY <2>1, <3>1, <4>1, <4>2, <4>3, ReducerAssumption
    <3> QED BY <2>3, <2>14, <3>1 DEF ServeJoin
  <2>15. CASE ServeCreate
    <3>1. ASSUME NEW p, p = CHOOSE q \in Fresh : TRUE, Fresh # {}, Home(remote, Self) = "",
                 JoinNow(p, Self), Reply("ok", NewParty(p))
          PROVE  CopyTrue' /\ PlanTrue' /\ AnswerTrue'
      <4>1. p \in Parties /\ remote[p].rev = 0
        BY <3>1 DEF Fresh
      <4>2. p \notin {local.id, plan.snap.id}
        BY <4>1, ReducerAssumption DEF Known, Copies, Knows
      <4>3. \A q \in Parties : q # p => Keeps(remote, remote', q)
        BY <1>1, <3>1, <4>1, JoinNowKeeps
      <4>4. remote'[p].members[Self].meta = Nothing
        <5>1. Self \notin DOMAIN remote[p].members /\ Self \in Accounts
          BY <3>1, <4>1, HomeType, ServiceAssumption
        <5> QED BY <1>1, <3>1, <4>1, <5>1, JoinNowGrows
      <4>5. PICK v : v = NewParty(p)
        OBVIOUS
      <4>6. v.id = p /\ v.members[Self].meta = Nothing
        BY <4>5 DEF NewParty, Put
      <4>7. SameSelf(remote', v)
        BY <4>4, <4>6 DEF SameSelf
      <4>8. Reply("ok", v)
        BY <3>1, <4>5
      <4> QED BY <2>1, <4>2, <4>3, <4>7, <4>8
    <3> QED BY <2>3, <2>15, <3>1 DEF ServeCreate
  <2> QED BY <2>7, <2>8, <2>9, <2>10, <2>11, <2>12, <2>13, <2>14, <2>15 DEF Serve
<1> QED BY <1>3, <1>4, <1>5

\* All of Truth that is not about names, and what a Set returns with.
Told == CopyTrue /\ PlanTrue /\ AnswerTrue

LEMMA FetchedSame ==
  ASSUME SameSelf(remote, ans.view)
  PROVE  /\ SameSelf(remote, Fetched) /\ Fetched.id = ans.view.id
         /\ DOMAIN Fetched.members = DOMAIN ans.view.members
         /\ Promoted => SameSelf(remote, local')
<1>1. /\ Fetched.id = ans.view.id
      /\ Fetched.members = [a \in DOMAIN ans.view.members |->
              MemberOf(ans.view.members[a].role, ans.view.members[a].rev,
                       ans.view.members[a].meta, ans.view.members[a].meta)]
  BY DEF Fetched, mapRemoteParty
<1>2. /\ DOMAIN Fetched.members = DOMAIN ans.view.members
      /\ Self \in DOMAIN ans.view.members =>
           Fetched.members[Self].meta = ans.view.members[Self].meta
  BY <1>1 DEF MemberOf
<1>3. SameSelf(remote, Fetched)
  BY <1>1, <1>2 DEF SameSelf
<1>4. ASSUME Promoted PROVE SameSelf(remote, local')
  <2>1. local'.id = Fetched.id /\ local'.members = Fetched.members
    BY <1>4 DEF Promoted, Fetched, mapRemoteParty
  <2> QED BY <1>3, <2>1 DEF SameSelf
<1> QED BY <1>1, <1>2, <1>3, <1>4

LEMMA PatchTruth ==
  ASSUME NEW o, NEW s, NEW n, Patch(o, s, n), o.intent = op'.intent, UNCHANGED remote,
         SameSelf(remote, local'), SameSelf(remote, s), local'.id = s.id,
         Self \in DOMAIN s.members
  PROVE  /\ Told'
         /\ at' = "idle" => SetAt(remote', local'.id, op'.intent.member)
         /\ at' \in SetWaits \cup {"idle"}
<1>1. PICK member \in MemberUpdates(o.intent.member, s.members[Self].meta) :
        LET party == Differing(o.intent.party, s.meta)
        IN  IF party = Nothing /\ member = Nothing THEN Return("nil")
            ELSE /\ plan' = [snap |-> s, member |-> member, attempt |-> n]
                 /\ IF party # Nothing
                    THEN Call("partyPatch", PartyPatch(s, party))
                    ELSE Call("memberPatch", MemberPatch(s, member))
  BY DEF Patch
<1>2. Covers(member, s.members[Self].meta, op'.intent.member)
  BY UpdatesCover
<1>3. ans'.view.id = "" /\ ans'.st = "pending"
  BY <1>1, NoAnswer DEF Call, Return
<1>4. SameSelf(remote', ans'.view)
  BY <1>3, UnnamedSame
<1>5. CASE member = Nothing /\ Return("nil")
  <2>1. \A k \in DOMAIN op'.intent.member :
          Lookup(s.members[Self].meta, k) = op'.intent.member[k]
    BY <1>2, <1>5, CoveredByNothing
  <2>2. SetAt(remote', local'.id, op'.intent.member)
    BY <2>1 DEF SetAt, SameSelf
  <2>3. at' = "idle"
    BY <1>5 DEF Return
  <2>4. Told'
    BY <1>4, <2>3 DEF Told, CopyTrue, PlanTrue, AnswerTrue, Patching
  <2> QED BY <2>2, <2>3, <2>4
<1>6. ASSUME plan' = [snap |-> s, member |-> member, attempt |-> n],
             \/ Call("partyPatch", PartyPatch(s, Differing(o.intent.party, s.meta)))
             \/ Call("memberPatch", MemberPatch(s, member))
      PROVE  /\ Told'
             /\ at' = "idle" => SetAt(remote', local'.id, op'.intent.member)
             /\ at' \in SetWaits \cup {"idle"}
  <2>1. /\ at' = "partyPatch" \/ (at' = "memberPatch" /\ req'.updates = member)
        /\ plan'.snap = s /\ plan'.member = member
    BY <1>6, PatchFields DEF Call
  <2>2. CopyTrue'
    BY <1>4, <2>1 DEF CopyTrue
  <2>3. PlanTrue'
    BY <1>2, <2>1 DEF PlanTrue
  <2>4. AnswerTrue'
    BY <1>3, <2>1 DEF AnswerTrue
  <2> QED BY <2>1, <2>2, <2>3, <2>4 DEF Told, SetWaits
<1> QED BY <1>1, <1>5, <1>6

LEMMA TryTruth ==
  ASSUME NEW o, NEW n, Try(o, n), o.intent = op'.intent, UNCHANGED <<remote, local>>,
         SameSelf(remote, local)
  PROVE  /\ Told'
         /\ at' = "idle" /\ ret' = "nil" => SetAt(remote', local'.id, op'.intent.member)
         /\ at' \in SetWaits \cup {"idle"}
<1>1. SameSelf(remote', local')
  OBVIOUS
<1>2. CASE Return("ErrPartyNotFound") \/ Call("hydrate", GetUser(Self))
  <2>1. at' \in {"idle", "hydrate"} /\ (at' = "idle" => ret' = "ErrPartyNotFound") /\ ans' = Pending
    BY <1>2 DEF Return, Call
  <2>2. SameSelf(remote', ans'.view)
    BY <2>1, NoAnswer, UnnamedSame
  <2>3. Told'
    BY <1>1, <2>1, <2>2 DEF Told, CopyTrue, PlanTrue, AnswerTrue, Patching
  <2> QED BY <2>1, <2>3 DEF SetWaits
<1>3. CASE Self \in DOMAIN local.members /\ Patch(o, local, n)
  BY <1>3, PatchTruth
<1> QED BY <1>2, <1>3 DEF Try

LEMMA PlainTruth ==
  ASSUME at' \notin Patching, ans' = Pending, SameSelf(remote', local'),
         at' = "joinHydrate" => SameSelf(remote', plan'.snap)
  PROVE  Told'
<1>1. SameSelf(remote', ans'.view)
  BY NoAnswer, UnnamedSame
<1> QED BY <1>1 DEF Told, CopyTrue, PlanTrue, AnswerTrue, Patching

LEMMA ReturnTruth ==
  ASSUME NEW err, Return(err), SameSelf(remote', local')
  PROVE  Told' /\ at' = "idle" /\ ret' = err
BY PlainTruth DEF Return, Patching

LEMMA ClientIntact ==
  ASSUME TypeInvariant, Client, Intact'
  PROVE  Intact
<1>1. CASE WakeUp
  <2>1. faults' = faults \/ \E kind : Spend(kind)
    BY <1>1 DEF WakeUp, world
  <2> QED BY <2>1, IntactBefore
<1>2. CASE ~WakeUp
  <2>1. UNCHANGED world
    BY <1>2 DEF Client, Sync, Ensure, Create, CreateGet, LeaveFirst, Join, JoinGet, JoinHydrate,
                JoinMember, JoinInvite, Request, Leave, Promote, PromoteGet, Hydrate, PatchParty,
                PatchMember, Refresh, RefreshStale, Quiet
  <2> QED BY <2>1, IntactBefore DEF world
<1> QED BY <1>1, <1>2

LEMMA AskedTruth ==
  ASSUME ans' = Pending, at' \in {"memberPatch", "refresh", "refreshStale"},
         local'.id = plan'.snap.id,
         at' = "memberPatch" =>
           /\ Covers(plan'.member, plan'.snap.members[Self].meta, op'.intent.member)
           /\ req'.updates = plan'.member,
         at' = "refresh" => SetAt(remote', plan'.snap.id, op'.intent.member)
  PROVE  Told'
<1>1. ans'.st = "pending" /\ ans'.view.id = "" /\ SameSelf(remote', ans'.view)
  BY NoAnswer, UnnamedSame
<1>2. CopyTrue'
  BY <1>1 DEF CopyTrue
<1>3. PlanTrue'
  BY DEF PlanTrue
<1>4. AnswerTrue'
  BY <1>1 DEF AnswerTrue
<1> QED BY <1>2, <1>3, <1>4 DEF Told

LEMMA PatchPartyTruth ==
  ASSUME TypeInvariant, CopyTrue, PlanTrue, PatchParty
  PROVE  /\ Told' /\ at' \in SetWaits \cup {"idle"}
         /\ at' = "idle" => ret' # "nil"
<1>1. /\ at = "partyPatch" /\ UNCHANGED <<remote, local, op>>
      /\ plan.snap.id # "" /\ Self \in DOMAIN plan.snap.members
  BY DEF PatchParty, Answered, Quiet, world, TypeInvariant, StepOK, CommandOK, HasTarget
<1>2. /\ SameSelf(remote, local) /\ SameSelf(remote, plan.snap) /\ local.id = plan.snap.id
      /\ Covers(plan.member, plan.snap.members[Self].meta, op.intent.member)
  BY <1>1 DEF CopyTrue, PlanTrue, Patching
<1>3. CASE ans.st = "stale" /\ Call("refreshStale", Get(plan.snap.id)) /\ UNCHANGED plan
  <2>1. at' = "refreshStale" /\ ans' = Pending /\ local'.id = plan'.snap.id
    BY <1>1, <1>2, <1>3 DEF Call
  <2> QED BY <2>1, AskedTruth DEF SetWaits
<1>4. CASE Refused /\ ans.st # "stale" /\ Return(Refusal)
  BY <1>1, <1>2, <1>4, ReturnTruth, RefusalNotNil
<1>5. ASSUME plan.member # Nothing, UNCHANGED plan,
             Call("memberPatch", MemberPatch(plan.snap, plan.member))
      PROVE  Told' /\ at' = "memberPatch"
  <2>1. /\ at' = "memberPatch" /\ ans' = Pending /\ local'.id = plan'.snap.id
        /\ req' = MemberPatch(plan.snap, plan.member)
    BY <1>1, <1>2, <1>5 DEF Call
  <2>2. req'.updates = plan'.member
    BY <1>5, <2>1, PatchFields
  <2>3. Covers(plan'.member, plan'.snap.members[Self].meta, op'.intent.member)
    BY <1>1, <1>2, <1>5
  <2> QED BY <2>1, <2>2, <2>3, AskedTruth
<1>6. ASSUME plan.member = Nothing, UNCHANGED plan, Call("refresh", Get(plan.snap.id))
      PROVE  Told' /\ at' = "refresh"
  <2>1. at' = "refresh" /\ ans' = Pending /\ local'.id = plan'.snap.id
    BY <1>1, <1>2, <1>6 DEF Call
  <2>2. \A k \in DOMAIN op.intent.member :
          Lookup(plan.snap.members[Self].meta, k) = op.intent.member[k]
    BY <1>2, <1>6, CoveredByNothing
  <2>3. SetAt(remote, plan.snap.id, op.intent.member)
    BY <1>1, <1>2, <2>2 DEF SetAt, SameSelf
  <2>4. SetAt(remote', plan'.snap.id, op'.intent.member)
    BY <1>1, <1>6, <2>3
  <2> QED BY <2>1, <2>4, AskedTruth
<1> QED BY <1>3, <1>4, <1>5, <1>6 DEF PatchParty, SetWaits

LEMMA PatchMemberTruth ==
  ASSUME TypeInvariant, CopyTrue, PlanTrue, AnswerTrue, PatchMember
  PROVE  /\ Told' /\ at' \in SetWaits \cup {"idle"}
         /\ at' = "idle" => ret' # "nil"
<1>1. at = "memberPatch" /\ UNCHANGED <<remote, local, op>>
  BY DEF PatchMember, Answered, Quiet, world
<1>2. local.id = plan.snap.id
  BY <1>1 DEF PlanTrue, Patching
<1>3. CASE ans.st = "stale" /\ Call("refreshStale", Get(plan.snap.id)) /\ UNCHANGED plan
  <2>1. at' = "refreshStale" /\ ans' = Pending /\ local'.id = plan'.snap.id
    BY <1>1, <1>2, <1>3 DEF Call
  <2> QED BY <2>1, AskedTruth DEF SetWaits
<1>4. CASE Refused /\ ans.st # "stale" /\ Return(Refusal)
  <2>1. ~Here(remote, plan.snap.id)
    BY <1>1, <1>4 DEF AnswerTrue, Refused
  <2>2. SameSelf(remote', local')
    BY <1>1, <1>2, <2>1 DEF SameSelf
  <2> QED BY <1>4, <2>2, ReturnTruth, RefusalNotNil
<1>5. CASE ans.st = "ok" /\ Call("refresh", Get(plan.snap.id)) /\ UNCHANGED plan
  <2>1. at' = "refresh" /\ ans' = Pending /\ local'.id = plan'.snap.id
    BY <1>1, <1>2, <1>5 DEF Call
  <2>2. SetAt(remote', plan'.snap.id, op'.intent.member)
    BY <1>1, <1>5 DEF AnswerTrue
  <2> QED BY <2>1, <2>2, AskedTruth DEF SetWaits
<1> QED BY <1>3, <1>4, <1>5 DEF PatchMember

LEMMA RefreshedTruth ==
  ASSUME TypeInvariant, CopyTrue, PlanTrue, AnswerTrue, Refresh \/ RefreshStale
  PROVE  /\ Told' /\ at' \in SetWaits \cup {"idle"}
         /\ at' = "idle" /\ ret' = "nil" => SetAt(remote', local'.id, op'.intent.member)
<1>1. at \in {"refresh", "refreshStale"} /\ UNCHANGED <<remote, op>>
  BY DEF Refresh, RefreshStale, Answered, Quiet, world
<1>2. local.id = plan.snap.id /\ SameSelf(remote, ans.view)
  BY <1>1 DEF PlanTrue, CopyTrue, Patching
<1>3. CASE Refused /\ Return(Refusal) /\ UNCHANGED local
  <2>1. ~Here(remote, plan.snap.id)
    BY <1>1, <1>3 DEF AnswerTrue, Refused
  <2>2. SameSelf(remote', local')
    BY <1>1, <1>2, <1>3, <2>1 DEF SameSelf
  <2> QED BY <1>3, <2>2, ReturnTruth, RefusalNotNil
<1>4. ASSUME local' = Fetched PROVE SameSelf(remote', local') /\ local'.id = ans.view.id
  BY <1>1, <1>2, <1>4, FetchedSame
<1>5. CASE Refresh /\ Found /\ local' = Fetched /\ Return("nil")
  <2>1. ans.view.id # ""
    BY <1>5, ReducerAssumption DEF Found, TypeInvariant, StepOK, WireOK, IsFound
  <2>2. at = "refresh"
    BY <1>5 DEF Refresh, Answered
  <2>3. local'.id = plan.snap.id
    BY <1>4, <1>5, <2>1, <2>2 DEF AnswerTrue
  <2>4. SetAt(remote', local'.id, op'.intent.member)
    BY <1>1, <2>2, <2>3 DEF AnswerTrue
  <2> QED BY <1>4, <1>5, <2>4, ReturnTruth
<1>6. CASE RefreshStale /\ local' = Fetched /\ Return("ErrPatchConflict")
  BY <1>4, <1>6, ReturnTruth
<1>7. CASE RefreshStale /\ local' = Fetched /\ Sleep
  BY <1>4, <1>7, PlainTruth DEF Sleep, SetWaits, Patching
<1> QED BY <1>3, <1>5, <1>6, <1>7 DEF Refresh, RefreshStale

\* A Set goes on.
LEMMA SetTruth ==
  ASSUME TypeInvariant, CopyTrue, PlanTrue, AnswerTrue, Client, at \in SetWaits
  PROVE  /\ Told' /\ at' \in SetWaits \cup {"idle"}
         /\ at' = "idle" /\ ret' = "nil" => SetAt(remote', local'.id, op'.intent.member)
<1>1. Hydrate \/ PatchParty \/ PatchMember \/ Refresh \/ RefreshStale \/ WakeUp
  BY DEF Client, Sync, Ensure, Create, CreateGet, LeaveFirst, Join, JoinGet, JoinHydrate,
         JoinMember, JoinInvite, Request, Leave, Promote, PromoteGet, Answered, SetWaits
<1>2. CASE Hydrate
  <2>1. at = "hydrate" /\ UNCHANGED <<remote, op>>
    BY <1>2 DEF Hydrate, Answered, Quiet, world
  <2>2. SameSelf(remote, ans.view) /\ SameSelf(remote, local)
    BY <2>1 DEF CopyTrue
  <2>3. CASE Hydrates /\ local' = Fetched /\ Patch(op, Fetched, plan.attempt)
    <3>1. Self \in DOMAIN Fetched.members /\ SameSelf(remote, Fetched)
      BY <2>2, <2>3, FetchedSame DEF Hydrates
    <3> QED BY <2>1, <2>3, <3>1, PatchTruth
  <2>4. CASE Return("ErrPartyNotFound") /\ UNCHANGED local
    BY <2>1, <2>2, <2>4, ReturnTruth
  <2> QED BY <1>2, <2>3, <2>4 DEF Hydrate
<1>3. CASE WakeUp
  <2>1. SameSelf(remote, local) /\ UNCHANGED <<remote, local, op>>
    <3>1. UNCHANGED remote
      BY CommandFrame
    <3> QED BY <1>3, <3>1 DEF WakeUp, CopyTrue
  <2>2. CASE Try(op, plan.attempt)
    BY <2>1, <2>2, TryTruth
  <2>3. CASE Return("ctx")
    BY <2>1, <2>3, ReturnTruth
  <2> QED BY <1>3, <2>2, <2>3 DEF WakeUp
<1> QED BY <1>1, <1>2, <1>3, PatchPartyTruth, PatchMemberTruth, RefreshedTruth

\* The other commands.
LEMMA OtherWaits ==
  ASSUME Client, at \notin SetWaits
  PROVE  at' \notin SetWaits
<1>1. ~(Hydrate \/ PatchParty \/ PatchMember \/ Refresh \/ RefreshStale \/ WakeUp)
  BY DEF Hydrate, PatchParty, PatchMember, Refresh, RefreshStale, WakeUp, Answered, SetWaits
<1>2. at' \notin Trying \cup {"refreshStale"}
  BY <1>1, ClientElsewhere
<1>3. at' # "refresh"
  <2>1. CASE Sync \/ Ensure \/ Create \/ CreateGet
    BY <2>1 DEF Sync, Ensure, Create, CreateGet, Created, Return, Call
  <2>2. CASE LeaveFirst \/ Join \/ JoinGet \/ JoinHydrate
    BY <2>2 DEF LeaveFirst, Join, JoinGet, JoinHydrate, Return, Call
  <2>3. CASE JoinMember \/ JoinInvite
    BY <2>3, JoinLockedGoes DEF JoinMember, JoinInvite, Return
  <2>4. CASE Request \/ Leave \/ Promote \/ PromoteGet
    BY <2>4 DEF Request, Leave, Promote, PromoteGet, Return, Call
  <2> QED BY <1>1, <2>1, <2>2, <2>3, <2>4 DEF Client
<1> QED BY <1>2, <1>3 DEF SetWaits, Trying

LEMMA MovesTruth ==
  ASSUME Moves, UNCHANGED remote, SameSelf(remote, local), SameSelf(remote, plan.snap),
         SameSelf(remote, ans.view), at' \notin Patching
  PROVE  Told'
<1>1. SameSelf(remote, EmptyParty) /\ SameSelf(remote, Fetched)
      /\ (Promoted => SameSelf(remote, local'))
  BY NobodyKnows, UnnamedSame, FetchedSame
<1>2. SameSelf(remote', local')
  BY <1>1 DEF Moves
<1>3. SameSelf(remote', plan'.snap)
  BY <1>1 DEF Moves
<1> QED BY <1>2, <1>3, PlainTruth DEF Moves

LEMMA OtherTruth ==
  ASSUME TypeInvariant, Known, CopyTrue, Client, at \notin SetWaits
  PROVE  Told'
<1>1. UNCHANGED remote /\ Moves
  BY CommandFrame, ClientMoves DEF TypeInvariant
<1>2. SameSelf(remote, local) /\ SameSelf(remote, ans.view)
  BY DEF CopyTrue, SetWaits
<1>3. SameSelf(remote, plan.snap)
  <2>1. CASE at = "joinHydrate"
    BY <2>1 DEF CopyTrue
  <2>2. CASE at # "joinHydrate"
    <3>1. plan = NoPlan
      BY <2>2 DEF Known, Wiring, Wired, Planning, SetWaits
    <3> QED BY <3>1, NobodyKnows, UnnamedSame
  <2> QED BY <2>1, <2>2
<1>4. at' \notin Patching
  BY OtherWaits DEF SetWaits, Patching
<1> QED BY <1>1, <1>2, <1>3, <1>4, MovesTruth

LEMMA ClientTruth ==
  ASSUME TypeInvariant, Known, Truth, Client
  PROVE  /\ Truth'
         /\ at' = "idle" /\ ret' = "nil" /\ op'.name = "set" /\ Intact'
              => SetAt(remote', local'.id, op'.intent.member)
<1>1. at # "idle" /\ op'.name = op.name
  BY ClientNames DEF TypeInvariant
<1>2. Intact' => CopyTrue /\ PlanTrue /\ AnswerTrue
  BY ClientIntact DEF Truth
<1>3. CASE at \in SetWaits
  <2>1. ASSUME Intact'
        PROVE  /\ Told'
               /\ at' = "idle" /\ ret' = "nil" => SetAt(remote', local'.id, op'.intent.member)
    BY <1>2, <1>3, <2>1, SetTruth
  <2>2. at' \in SetWaits \cup {"idle"}
    <3>1. PatchParty \/ PatchMember \/ Refresh \/ RefreshStale
            => at' \in SetWaits \cup {"idle"}
      BY DEF PatchParty, PatchMember, Refresh, RefreshStale, Call, Return, Sleep, SetWaits
    <3>2. Hydrate => at' \in SetWaits \cup {"idle"}
      BY PatchGoes DEF Hydrate, Return, SetWaits
    <3>3. WakeUp => at' \in SetWaits \cup {"idle"}
      BY TryGoes DEF WakeUp, Return, SetWaits
    <3>4. Hydrate \/ PatchParty \/ PatchMember \/ Refresh \/ RefreshStale \/ WakeUp
      BY <1>3 DEF Client, Sync, Ensure, Create, CreateGet, LeaveFirst, Join, JoinGet, JoinHydrate,
         JoinMember, JoinInvite, Request, Leave, Promote, PromoteGet, Answered, SetWaits
    <3> QED BY <3>1, <3>2, <3>3, <3>4
  <2> QED BY <2>1, <2>2 DEF Truth, Told, SetNamed
<1>4. CASE at \notin SetWaits
  <2>1. op'.name # "set" /\ at' \notin SetWaits
    BY <1>1, <1>4, OtherWaits DEF Truth, SetNamed
  <2>2. Intact' => Told'
    BY <1>2, <1>4, OtherTruth
  <2> QED BY <2>1, <2>2 DEF Truth, Told, SetNamed
<1> QED BY <1>3, <1>4

LEMMA ApplicationTruth ==
  ASSUME TypeInvariant, Known, Truth, Application
  PROVE  /\ Truth'
         /\ at' = "idle" /\ ret' = "nil" /\ op'.name = "set" /\ Intact'
              => SetAt(remote', local'.id, op'.intent.member)
<1> DEFINE Goal == /\ Truth'
                   /\ at' = "idle" /\ ret' = "nil" /\ op'.name = "set" /\ Intact'
                        => SetAt(remote', local'.id, op'.intent.member)
<1>1. UNCHANGED <<remote, faults>> /\ at = "idle" /\ Moves
  BY CommandFrame, ApplicationFrame, ApplicationGoes, ApplicationMoves
<1>2. Intact' => Intact
  BY <1>1 DEF Intact, Happened
<1>3. Intact => /\ SameSelf(remote, local) /\ SameSelf(remote, ans.view)
                /\ SameSelf(remote, plan.snap)
  <2>1. plan = NoPlan
    BY <1>1 DEF Known, Wiring, Wired, Planning
  <2>2. SameSelf(remote, plan.snap)
    BY <2>1, NobodyKnows, UnnamedSame
  <2> QED BY <1>1, <2>2 DEF Truth, CopyTrue
<1>4. ASSUME op'.name # "set", at' \notin SetWaits PROVE Goal
  <2>1. Intact' => Told'
    BY <1>1, <1>2, <1>3, <1>4, MovesTruth DEF SetWaits, Patching
  <2> QED BY <1>4, <2>1 DEF Truth, Told, SetNamed
<1>5. ASSUME BeginSync \/ BeginEnsure \/ BeginCreate \/ BeginLeave PROVE Goal
  <2>1. op'.name # "set"
    BY <1>5 DEF BeginSync, BeginEnsure, BeginCreate, BeginLeave, Opens, NoOp
  <2>2. at' \notin SetWaits
    BY <1>5 DEF BeginSync, BeginEnsure, BeginCreate, BeginLeave, Call, Return, SetWaits
  <2> QED BY <1>4, <2>1, <2>2
<1>6. ASSUME NEW p, BeginJoin(p) PROVE Goal
  <2>1. PICK o : o = [NoOp EXCEPT !.name = "join"] /\ JoinLocked(o, p)
    BY <1>6 DEF BeginJoin
  <2>2. op'.name # "set"
    BY <2>1 DEF JoinLocked, NoOp
  <2>3. at' \notin SetWaits
    BY <2>1, JoinLockedGoes DEF SetWaits
  <2> QED BY <1>4, <2>2, <2>3
<1>7. ASSUME NEW a, BeginJoinMember(a) \/ BeginJoinInvite(a) \/ BeginRequest(a) PROVE Goal
  <2>1. op'.name # "set"
    BY <1>7 DEF BeginJoinMember, BeginJoinInvite, BeginRequest, Opens, NoOp
  <2>2. at' \notin SetWaits
    BY <1>7 DEF BeginJoinMember, BeginJoinInvite, BeginRequest, Call, SetWaits
  <2> QED BY <1>4, <2>1, <2>2
<1>8. ASSUME NEW p, NEW a, BeginPromote(p, a) PROVE Goal
  <2>1. op'.name # "set"
    BY <1>8 DEF BeginPromote, Opens, NoOp
  <2>2. at' \notin SetWaits
    BY <1>8 DEF BeginPromote, Call, Return, SetWaits
  <2> QED BY <1>4, <2>1, <2>2
<1>9. ASSUME NEW i, BeginSet(i) PROVE Goal
  <2>1. PICK o : o = op' /\ Try(o, 0)
    BY <1>9 DEF BeginSet, Opens
  <2>2. UNCHANGED local
    BY <1>9 DEF BeginSet, Opens
  <2>3. at' \in SetWaits \cup {"idle"}
    BY <2>1, TryGoes DEF SetWaits
  <2>4. ASSUME Intact'
        PROVE  /\ Told'
               /\ at' = "idle" /\ ret' = "nil" => SetAt(remote', local'.id, op'.intent.member)
    BY <1>1, <1>2, <1>3, <2>1, <2>2, <2>4, TryTruth
  <2> QED BY <2>3, <2>4 DEF Truth, Told, SetNamed
<1> QED BY <1>5, <1>6, <1>7, <1>8, <1>9 DEF Application

LEMMA EnvironmentTruth ==
  ASSUME TypeInvariant, EffectInv, Environment, UNCHANGED <<at, op, plan, local, ret>>
  PROVE  Truth' /\ SetIsEffective'
<1>1. IsWorld(remote) /\ UNCHANGED <<req, ans, faults>>
  BY DEF TypeInvariant, WorldOK, Environment, OtherJoins, OtherLeaves, KickedBy, OtherPromotes,
         OtherPatches, OtherSets, Acts
<1>2. \A q \in Parties : Keeps(remote, remote', q)
  BY <1>1, EnvironmentKeeps
<1>3. Intact' = Intact
  BY <1>1 DEF Intact, Happened
<1>4. local.id \in MaybeParty /\ ans.view.id \in MaybeParty
  BY NobodyKnows DEF TypeInvariant, StepOK, IsParty, WireOK, IsFound, MaybeParty
<1>5. ASSUME Intact PROVE CopyTrue' /\ PlanTrue' /\ AnswerTrue'
  <2>1. SameSelf(remote, ans.view)
    BY <1>5 DEF EffectInv, Truth, CopyTrue
  <2>2. SameSelf(remote', ans'.view)
    <3>1. ans.view.id # "" => Keeps(remote, remote', ans.view.id)
      BY <1>2, <1>4 DEF MaybeParty
    <3>2. SameSelf(remote', ans.view)
      BY <2>1, <3>1, KeepsSame
    <3> QED BY <1>1, <3>2
  <2>3. /\ CopyTrue' /\ PlanTrue'
        /\ AnswerTrue' \/ at \in {"memberPatch", "refresh", "refreshStale"}
        /\ at = "refresh" => SetAt(remote', plan.snap.id, op.intent.member)
        /\ ~Here(remote, plan.snap.id) => ~Here(remote', plan.snap.id)
    BY <1>1, <1>2, <1>5, <2>2, TruthKept DEF EffectInv
  <2>4. SetAt(remote, plan.snap.id, op.intent.member) => SetAt(remote', plan.snap.id, op.intent.member)
    <3>1. plan.snap.id # "" => Keeps(remote, remote', plan.snap.id)
      BY <1>2 DEF TypeInvariant, StepOK, CommandOK, IsPlan, IsParty, MaybeParty
    <3> QED BY <3>1, KeepsSet
  <2>5. AnswerTrue'
    BY <1>1, <1>5, <2>3, <2>4 DEF EffectInv, Truth, AnswerTrue
  <2> QED BY <2>3, <2>5
<1>6. SetAt(remote, local.id, op.intent.member) => SetAt(remote', local.id, op.intent.member)
  <2>1. local.id # "" => Keeps(remote, remote', local.id)
    BY <1>2, <1>4 DEF MaybeParty
  <2> QED BY <2>1, KeepsSet
<1>7. at' = "idle" /\ ret' = "nil" /\ op'.name = "set" /\ Intact'
        => SetAt(remote', local'.id, op'.intent.member)
  BY <1>3, <1>6, EffectIs DEF EffectInv
<1>8. SetIsEffective'
  BY <1>7 DEF SetIsEffective, Succeeded, InLocalParty, SetAt, Here, Intact
<1> QED BY <1>3, <1>5, <1>8 DEF EffectInv, Truth, SetNamed

LEMMA EffectStep ==
  ASSUME ~Notified, TypeInvariant, EffectInv, [Next]_vars
  PROVE  EffectInv'
<1>1. Known'
  BY KnownStep DEF EffectInv
<1>2. ASSUME Truth',
             at' = "idle" /\ ret' = "nil" /\ op'.name = "set" /\ Intact'
               => SetAt(remote', local'.id, op'.intent.member)
      PROVE  EffectInv'
  <2>1. SetIsEffective'
    BY <1>2 DEF SetIsEffective, Succeeded, InLocalParty, SetAt, Here, Intact
  <2> QED BY <1>1, <1>2, <2>1 DEF EffectInv
<1>3. CASE UNCHANGED vars
  <2>1. UNCHANGED <<remote, local, plan, op, at, ret, req, ans, faults>>
    BY <1>3 DEF vars, command, world, wire
  <2>2. Truth'
    BY <2>1 DEF EffectInv, Truth, SetNamed, CopyTrue, PlanTrue, AnswerTrue, Intact, Happened
  <2>3. SetIsEffective'
    BY <2>1 DEF EffectInv, SetIsEffective, Succeeded, InLocalParty, Happened
  <2> QED BY <1>1, <2>2, <2>3 DEF EffectInv
<1>4. CASE Client
  BY <1>2, <1>4, ClientTruth DEF EffectInv
<1>5. CASE Application
  BY <1>2, <1>5, ApplicationTruth DEF EffectInv
<1>6. CASE Decode
  BY <1>6 DEF Decode, Apply, Complete, ApplyCompleted, Receive, Known, EffectInv
<1>7. CASE (Serve \/ Lose \/ Environment) /\ UNCHANGED <<local, decoding, command>>
  <2>1. UNCHANGED <<at, op, plan, local, ret>>
    BY <1>7 DEF command
  <2>2. CASE Environment
    BY <1>1, <2>1, <2>2, EnvironmentTruth DEF EffectInv
  <2>3. CASE Serve
    <3>1. at # "idle"
      <4>1. ans = Pending /\ req.kind # "none"
        BY <2>3 DEF Serve, ServeUser, ServeParty, ServeCreate, ServeJoin, ServeLeave, ServePromote,
             ServePartyPatch, ServeMemberPatch, ServePings, ServeIntention, Asked
      <4> QED BY <4>1, KindOf DEF EffectInv, Known, Wiring, Wired
    <3>2. Intact' => CopyTrue' /\ PlanTrue' /\ AnswerTrue'
      BY <2>1, <2>3, ServeTruth DEF EffectInv
    <3> QED BY <1>2, <2>1, <3>1, <3>2 DEF EffectInv, Truth, SetNamed
  <2>4. CASE Lose
    <3>1. ~Intact'
      <4>1. Spend("lostRequest")
        BY <2>4 DEF Lose
      <4> QED BY <4>1, IntactBefore
    <3> QED BY <1>2, <2>1, <3>1 DEF EffectInv, Truth, SetNamed
  <2> QED BY <1>7, <2>2, <2>3, <2>4
<1> QED BY <1>3, <1>4, <1>5, <1>6, <1>7 DEF Next, Step

LEMMA EffectInit == Init => EffectInv
<1> SUFFICES ASSUME Init PROVE EffectInv
  OBVIOUS
<1>1. at = "idle" /\ ret = "none" /\ plan = NoPlan /\ ans = Pending
  BY DEF Init
<1>2. SameSelf(remote, local)
  <2>1. CASE local = EmptyParty
    BY <2>1, NobodyKnows, UnnamedSame
  <2>2. CASE local = mapRemoteParty(ViewOf(Home(remote, Self)))
    <3>1. PICK v : v = ViewOf(Home(remote, Self))
      OBVIOUS
    <3>2. SameSelf(remote, v)
      BY <3>1, ReportedSame
    <3>3. /\ local.id = v.id
          /\ local.members = [a \in DOMAIN v.members |->
                  MemberOf(v.members[a].role, v.members[a].rev, v.members[a].meta, v.members[a].meta)]
      BY <2>2, <3>1 DEF mapRemoteParty
    <3>4. /\ DOMAIN local.members = DOMAIN v.members
          /\ Self \in DOMAIN v.members => local.members[Self].meta = v.members[Self].meta
      BY <3>3 DEF MemberOf
    <3> QED BY <3>2, <3>3, <3>4 DEF SameSelf
  <2> QED BY <2>1, <2>2 DEF Init
<1>3. SameSelf(remote, ans.view)
  BY <1>1, NoAnswer, UnnamedSame
<1>4. Truth
  BY <1>1, <1>2, <1>3 DEF Truth, SetNamed, CopyTrue, PlanTrue, AnswerTrue, Patching
<1> QED BY <1>1, <1>4, KnownInit DEF EffectInv, SetIsEffective, Succeeded

\* What a Set reports as done is done, also the values it found in the cache
\* and did not send, as long as no exchange was lost: whatever the other
\* accounts and the retries did in between (applyIntentWithRetry, BuildIntents).
THEOREM SetEffective == ASSUME ~Notified PROVE Spec => []SetIsEffective
<1>1. Init => TypeInvariant /\ EffectInv
  BY TypeInit, EffectInit
<1>2. TypeInvariant /\ EffectInv /\ [Next]_vars => (TypeInvariant /\ EffectInv)'
  BY TypeStep, EffectStep
<1>3. EffectInv => SetIsEffective
  BY DEF EffectInv
<1> QED BY <1>1, <1>2, <1>3, PTL DEF Spec

-----------------------------------------------------------------------------
(* LocalIDSound: the party the client believes it is in.                   *)

Heard == ~Happened({"lostAnswer", "resent"})
Leaving == {"leave", "leaveFirst"}

\* The cached party is this account's, until it learns that it has left;
\* answers are about this account's party, or the one they were asked for;
\* a join and a promotion are about the party this account is then in.
CopyHome ==
  IF at \in Leaving /\ ans.st = "ok" THEN Home(remote, Self) = ""
  ELSE local.id \in {"", Home(remote, Self)}
AnswerHome ==
  ans.view.id # "" =>
    /\ at \in {"sync", "ensure", "create", "createGet", "hydrate", "joinHydrate"}
         => ans.view.id = Home(remote, Self)
    /\ at \in {"joinGet", "promoteGet"} => ans.view.id = op.party
    /\ at \in {"refresh", "refreshStale"} => ans.view.id = plan.snap.id
PartyHome ==
  at \in {"joinGet", "joinHydrate", "promoteGet"} \/ (at \in {"join", "promote"} /\ ans.st = "ok")
    => Home(remote, Self) = op.party
PlanHome ==
  /\ at = "joinHydrate" => plan.snap.id = op.party
  /\ at \in Patching => local.id = plan.snap.id

HomeSound == CopyHome /\ AnswerHome /\ PartyHome /\ PlanHome
HomeInv == Known /\ (Heard => HomeSound)

LEMMA HeardBefore ==
  ASSUME TypeInvariant, faults' = faults \/ \E kind : Spend(kind), Heard'
  PROVE  /\ Heard
         /\ \A kind \in {"lostAnswer", "resent"} : ~Spend(kind)
<1>1. faults \in Seq(Faults)
  BY DEF TypeInvariant, FaultsOK
<1>2. CASE faults' = faults
  <2>1. ASSUME NEW kind, Spend(kind) PROVE FALSE
    BY <1>1, <1>2, <2>1 DEF Spend
  <2> QED BY <1>2, <2>1 DEF Heard, Happened
<1>3. ASSUME NEW kind, Spend(kind)
      PROVE  Heard /\ kind \notin {"lostAnswer", "resent"}
  <2>1. faults' = Append(faults, kind) /\ kind \in Faults
    BY <1>3 DEF Spend
  <2>2. /\ DOMAIN faults' = 1 .. Len(faults) + 1 /\ DOMAIN faults = 1 .. Len(faults)
        /\ \A n \in DOMAIN faults : n \in DOMAIN faults' /\ faults'[n] = faults[n]
        /\ Len(faults) + 1 \in DOMAIN faults' /\ faults'[Len(faults) + 1] = kind
    BY <1>1, <2>1
  <2>3. \A n \in DOMAIN faults' : faults'[n] \notin {"lostAnswer", "resent"}
    BY DEF Heard, Happened
  <2> QED BY <2>2, <2>3 DEF Heard, Happened
<1> QED BY <1>2, <1>3

LEMMA HeardReply ==
  ASSUME TypeInvariant, NEW st, NEW view, Reply(st, view), Heard'
  PROVE  Heard /\ ans' = [st |-> st, view |-> view]
<1>1. faults' = faults \/ \E kind : Spend(kind)
  BY DEF Reply
<1>2. ~Spend("lostAnswer") /\ ~Spend("resent") /\ Heard
  BY <1>1, HeardBefore
<1> QED BY <1>2 DEF Reply

LEMMA SameHome ==
  ASSUME IsWorld(remote'), \A q \in Parties : Here(remote, q) <=> Here(remote', q)
  PROVE  Home(remote', Self) = Home(remote, Self)
<1>1. PICK p : p = Home(remote, Self)
  OBVIOUS
<1>2. \A q \in Parties : Self \in DOMAIN remote[q].members <=> Self \in DOMAIN remote'[q].members
  BY ReducerAssumption DEF Here
<1>3. CASE p = ""
  <2>1. \A q \in Parties : Self \notin DOMAIN remote'[q].members
    BY <1>1, <1>2, <1>3, HomeType
  <2> QED BY <1>1, <1>3, <2>1, HomeType
<1>4. CASE p # ""
  <2>1. p \in Parties /\ Self \in DOMAIN remote'[p].members
    BY <1>1, <1>2, <1>4, HomeType
  <2> QED BY <1>1, <2>1, HomeIs
<1> QED BY <1>3, <1>4

LEMMA EnvironmentHome ==
  ASSUME IsWorld(remote), IsWorld(remote'), Environment, "kick" \notin EnvOps
  PROVE  Home(remote', Self) = Home(remote, Self)
BY EnvironmentKeeps, SameHome DEF Keeps, Stays

-----------------------------------------------------------------------------
(* The commands. *)

LEMMA HomeEnds ==
  ASSUME UNCHANGED remote, ans' = Pending, local'.id \in {"", Home(remote, Self)},
         at' \in {"joinGet", "joinHydrate", "promoteGet"} => Home(remote, Self) = op'.party,
         at' = "joinHydrate" => plan'.snap.id = op'.party,
         at' \in Patching => local'.id = plan'.snap.id
  PROVE  HomeSound'
<1>1. ans'.st = "pending" /\ ans'.view.id = ""
  BY NoAnswer
<1>2. PICK h : h = Home(remote, Self) /\ h = Home(remote', Self)
  OBVIOUS
<1>3. CopyHome'
  BY <1>1, <1>2 DEF CopyHome
<1>4. AnswerHome'
  BY <1>1 DEF AnswerHome
<1>5. PartyHome'
  BY <1>1, <1>2 DEF PartyHome
<1>6. PlanHome'
  BY DEF PlanHome
<1> QED BY <1>3, <1>4, <1>5, <1>6 DEF HomeSound

LEMMA PatchHome ==
  ASSUME NEW o, NEW s, NEW n, Patch(o, s, n), UNCHANGED remote, local'.id = s.id,
         s.id \in {"", Home(remote, Self)}
  PROVE  HomeSound'
<1>1. ans' = Pending /\ at' \in {"idle", "partyPatch", "memberPatch"}
  BY PatchMoves, PatchGoes
<1>2. at' # "idle" => plan'.snap = s
  <2>1. PICK member \in MemberUpdates(o.intent.member, s.members[Self].meta) :
          LET party == Differing(o.intent.party, s.meta)
          IN  IF party = Nothing /\ member = Nothing THEN Return("nil")
              ELSE /\ plan' = [snap |-> s, member |-> member, attempt |-> n]
                   /\ IF party # Nothing
                      THEN Call("partyPatch", PartyPatch(s, party))
                      ELSE Call("memberPatch", MemberPatch(s, member))
    BY DEF Patch
  <2>2. CASE Return("nil")
    BY <2>2 DEF Return
  <2>3. CASE plan' = [snap |-> s, member |-> member, attempt |-> n]
    BY <2>3
  <2> QED BY <2>1, <2>2, <2>3
<1> QED BY <1>1, <1>2, HomeEnds DEF Patching

LEMMA TryHome ==
  ASSUME NEW o, NEW n, Try(o, n), UNCHANGED <<remote, local>>,
         local.id \in {"", Home(remote, Self)}
  PROVE  HomeSound'
<1>1. CASE Return("ErrPartyNotFound") \/ Call("hydrate", GetUser(Self))
  <2>1. ans' = Pending /\ at' \in {"idle", "hydrate"}
    BY <1>1 DEF Return, Call
  <2> QED BY <2>1, HomeEnds DEF Patching
<1>2. CASE Patch(o, local, n)
  BY <1>2, PatchHome
<1> QED BY <1>1, <1>2 DEF Try

\* A command that goes where nothing but the cached party counts.
LEMMA LeaveHome ==
  ASSUME UNCHANGED remote, local'.id \in {"", Home(remote, Self)},
         \/ \E err : Return(err)
         \/ \E l, r : /\ Call(l, r)
                      /\ l \notin {"joinGet", "joinHydrate", "promoteGet"} \cup Patching
  PROVE  HomeSound'
<1>1. ans' = Pending /\ at' \notin {"joinGet", "joinHydrate", "promoteGet"} \cup Patching
  BY DEF Return, Call, Patching
<1> QED BY <1>1, HomeEnds

LEMMA JoinLockedHome ==
  ASSUME NEW o, NEW p, JoinLocked(o, p), UNCHANGED remote, local.id \in {"", Home(remote, Self)}
  PROVE  HomeSound'
<1>1. /\ UNCHANGED local /\ ans' = Pending
      /\ at' \in {"idle", "leaveFirst", "join"}
  BY JoinLockedGoes, JoinLockedMoves DEF JoinLocked, Moves
<1> QED BY <1>1, HomeEnds DEF Patching

LEMMA ClientHome ==
  ASSUME TypeInvariant, HomeSound, Client
  PROVE  HomeSound'
<1>1. UNCHANGED remote
  BY CommandFrame
<1>2. PICK h : h = Home(remote, Self)
  OBVIOUS
<1>3. at \notin Leaving \/ ans.st # "ok" => local.id \in {"", h}
  BY <1>2 DEF HomeSound, CopyHome
<1>4. Fetched.id = ans.view.id /\ EmptyParty.id = ""
  BY NobodyKnows DEF Fetched, mapRemoteParty
<1>5. Found => ans.view.id # ""
  BY ReducerAssumption DEF Found, TypeInvariant, StepOK, WireOK, IsFound
<1>6. CASE Sync \/ Ensure \/ Create \/ CreateGet
  <2>1. at \in {"sync", "ensure", "create", "createGet"}
    BY <1>6 DEF Sync, Ensure, Create, CreateGet, Answered
  <2>2. Found => ans.view.id = h
    BY <1>2, <1>5, <2>1 DEF HomeSound, AnswerHome
  <2>3. local.id \in {"", h}
    BY <1>3, <2>1 DEF Leaving
  <2>4. local'.id \in {"", h}
    BY <1>4, <1>6, <2>2, <2>3 DEF Sync, Ensure, Create, CreateGet, Created
  <2>5. CASE \E err : Return(err)
    BY <1>1, <1>2, <2>4, <2>5, LeaveHome
  <2>6. ASSUME NEW l \in {"create", "createGet"}, NEW r, Call(l, r) PROVE HomeSound'
    BY <1>1, <1>2, <2>4, <2>6, LeaveHome DEF Patching
  <2> QED BY <1>6, <2>5, <2>6 DEF Sync, Ensure, Create, CreateGet, Created
<1>7. CASE LeaveFirst \/ Leave
  <2>1. local'.id \in {"", h}
    BY <1>3, <1>4, <1>7 DEF LeaveFirst, Leave, Refused
  <2>2. CASE \E err : Return(err)
    BY <1>1, <1>2, <2>1, <2>2, LeaveHome
  <2>3. ASSUME NEW l \in {"join", "ensure"}, NEW r, Call(l, r) PROVE HomeSound'
    BY <1>1, <1>2, <2>1, <2>3, LeaveHome DEF Patching
  <2> QED BY <1>7, <2>2, <2>3 DEF LeaveFirst, Leave
<1>8. CASE Join \/ Promote
  <2>1. at \in {"join", "promote"} /\ UNCHANGED <<local, op>>
    BY <1>8 DEF Join, Promote, Answered, Quiet
  <2>2. local'.id \in {"", h}
    BY <1>3, <2>1 DEF Leaving
  <2>3. CASE \E err : Return(err)
    BY <1>1, <1>2, <2>2, <2>3, LeaveHome
  <2>4. ASSUME ans.st = "ok", NEW l \in {"joinGet", "promoteGet"}, NEW r, Call(l, r)
        PROVE  HomeSound'
    <3>1. h = op.party
      BY <1>2, <2>1, <2>4 DEF HomeSound, PartyHome
    <3>2. ans' = Pending /\ at' = l
      BY <2>4 DEF Call
    <3> QED BY <1>1, <1>2, <2>1, <2>2, <2>4, <3>1, <3>2, HomeEnds DEF Patching
  <2> QED BY <1>8, <2>3, <2>4 DEF Join, Promote
<1>9. CASE JoinGet \/ PromoteGet
  <2>1. at \in {"joinGet", "promoteGet"} /\ UNCHANGED op
    BY <1>9 DEF JoinGet, PromoteGet, Answered, Quiet
  <2>2. h = op.party /\ (Found => ans.view.id = op.party) /\ local.id \in {"", h}
    BY <1>2, <1>3, <1>5, <2>1 DEF HomeSound, PartyHome, AnswerHome, Leaving
  <2>3. ASSUME NEW c, local' = [Fetched EXCEPT !.captain = c] PROVE local'.id = ans.view.id
    BY <1>4, <2>3 DEF Fetched, mapRemoteParty
  <2>4. local'.id \in {"", h}
    BY <1>4, <1>9, <2>2, <2>3 DEF JoinGet, PromoteGet
  <2>5. CASE \E err : Return(err)
    BY <1>1, <1>2, <2>4, <2>5, LeaveHome
  <2>6. CASE /\ Found /\ plan' = [NoPlan EXCEPT !.snap = Fetched]
             /\ Call("joinHydrate", GetUser(Self))
    <3>1. plan'.snap.id = op.party
      BY <1>4, <2>2, <2>6 DEF NoPlan
    <3>2. ans' = Pending /\ at' = "joinHydrate"
      BY <2>6 DEF Call
    <3> QED BY <1>1, <1>2, <2>1, <2>2, <2>4, <3>1, <3>2, HomeEnds DEF Patching
  <2> QED BY <1>9, <2>5, <2>6 DEF JoinGet, PromoteGet
<1>10. CASE JoinHydrate
  <2>1. at = "joinHydrate"
    BY <1>10 DEF JoinHydrate, Answered
  <2>2. h = op.party /\ plan.snap.id = op.party /\ (Found => ans.view.id = h)
    BY <1>2, <1>5, <2>1 DEF HomeSound, PartyHome, PlanHome, AnswerHome
  <2>3. local'.id = h
    BY <1>4, <1>10, <2>2 DEF JoinHydrate, Hydrates
  <2> QED BY <1>1, <1>2, <1>10, <2>3, LeaveHome DEF JoinHydrate
<1>11. CASE JoinMember \/ JoinInvite \/ Request
  <2>1. local.id \in {"", h}
    BY <1>3, <1>11 DEF JoinMember, JoinInvite, Request, Answered, Leaving
  <2>2. CASE (\E err : Return(err)) /\ UNCHANGED local
    BY <1>1, <1>2, <2>1, <2>2, LeaveHome
  <2>3. ASSUME NEW p, JoinLocked(op, p) PROVE HomeSound'
    BY <1>1, <1>2, <2>1, <2>3, JoinLockedHome
  <2> QED BY <1>11, <2>2, <2>3 DEF JoinMember, JoinInvite, Request
<1>12. CASE Hydrate
  <2>1. at = "hydrate"
    BY <1>12 DEF Hydrate, Answered
  <2>2. local.id \in {"", h} /\ (Found => ans.view.id = h)
    BY <1>2, <1>3, <1>5, <2>1 DEF HomeSound, AnswerHome, Leaving
  <2>3. CASE Hydrates /\ local' = Fetched /\ Patch(op, Fetched, plan.attempt)
    BY <1>1, <1>2, <1>4, <2>2, <2>3, PatchHome DEF Hydrates
  <2>4. CASE Return("ErrPartyNotFound") /\ UNCHANGED local
    BY <1>1, <1>2, <2>2, <2>4, LeaveHome
  <2> QED BY <1>12, <2>3, <2>4 DEF Hydrate
<1>13. CASE PatchParty \/ PatchMember
  <2>1. at \in {"partyPatch", "memberPatch"} /\ UNCHANGED local
    BY <1>13 DEF PatchParty, PatchMember, Answered
  <2>2. local'.id \in {"", h} /\ local.id = plan.snap.id
    BY <1>3, <2>1 DEF HomeSound, PlanHome, Patching, Leaving
  <2>3. CASE \E err : Return(err)
    BY <1>1, <1>2, <2>2, <2>3, LeaveHome
  <2>4. ASSUME NEW l \in Patching, NEW r, Call(l, r), UNCHANGED plan PROVE HomeSound'
    <3>1. ans' = Pending /\ at' = l
      BY <2>4 DEF Call
    <3> QED BY <1>1, <1>2, <2>1, <2>2, <2>4, <3>1, HomeEnds DEF Patching
  <2> QED BY <1>13, <2>3, <2>4 DEF PatchParty, PatchMember, Patching
<1>14. CASE Refresh \/ RefreshStale
  <2>1. at \in {"refresh", "refreshStale"}
    BY <1>14 DEF Refresh, RefreshStale, Answered
  <2>2. /\ local.id \in {"", h} /\ local.id = plan.snap.id
        /\ Found => ans.view.id = plan.snap.id
    BY <1>3, <1>5, <2>1 DEF HomeSound, PlanHome, AnswerHome, Patching, Leaving
  <2>3. local'.id \in {"", h}
    BY <1>4, <1>14, <2>2 DEF Refresh, RefreshStale
  <2>4. CASE \E err : Return(err)
    BY <1>1, <1>2, <2>3, <2>4, LeaveHome
  <2>5. CASE Sleep
    <3>1. ans' = Pending /\ at' = "sleep"
      BY <2>5 DEF Sleep
    <3> QED BY <1>1, <1>2, <2>3, <3>1, HomeEnds DEF Patching
  <2> QED BY <1>14, <2>4, <2>5 DEF Refresh, RefreshStale
<1>15. CASE WakeUp
  <2>1. local.id \in {"", h} /\ UNCHANGED local
    BY <1>3, <1>15 DEF WakeUp, Leaving
  <2>2. CASE Try(op, plan.attempt)
    BY <1>1, <1>2, <2>1, <2>2, TryHome
  <2>3. CASE Return("ctx")
    BY <1>1, <1>2, <2>1, <2>3, LeaveHome
  <2> QED BY <1>15, <2>2, <2>3 DEF WakeUp
<1> QED BY <1>6, <1>7, <1>8, <1>9, <1>10, <1>11, <1>12, <1>13, <1>14, <1>15 DEF Client

LEMMA ApplicationHome ==
  ASSUME HomeSound, Application
  PROVE  HomeSound'
<1>1. UNCHANGED remote /\ at = "idle"
  BY CommandFrame, ApplicationGoes
<1>2. local.id \in {"", Home(remote, Self)}
  BY <1>1 DEF HomeSound, CopyHome, Leaving
<1>3. ASSUME UNCHANGED local, (\E err : Return(err))
               \/ \E l, r : /\ Call(l, r)
                            /\ l \in {"sync", "ensure", "create", "leave", "joinMember",
                                      "joinInvite", "request", "promote"}
      PROVE  HomeSound'
  BY <1>1, <1>2, <1>3, LeaveHome DEF Patching
<1>4. ASSUME BeginSync \/ BeginEnsure \/ BeginCreate \/ BeginLeave PROVE HomeSound'
  BY <1>3, <1>4 DEF BeginSync, BeginEnsure, BeginCreate, BeginLeave, Opens
<1>5. ASSUME NEW p, BeginJoin(p) PROVE HomeSound'
  BY <1>1, <1>2, <1>5, JoinLockedHome DEF BeginJoin
<1>6. ASSUME NEW a, BeginJoinMember(a) \/ BeginJoinInvite(a) \/ BeginRequest(a) PROVE HomeSound'
  BY <1>3, <1>6 DEF BeginJoinMember, BeginJoinInvite, BeginRequest, Opens
<1>7. ASSUME NEW p, NEW a, BeginPromote(p, a) PROVE HomeSound'
  BY <1>3, <1>7 DEF BeginPromote, Opens
<1>8. ASSUME NEW i, BeginSet(i) PROVE HomeSound'
  BY <1>1, <1>2, <1>8, TryHome DEF BeginSet, Opens
<1> QED BY <1>4, <1>5, <1>6, <1>7, <1>8 DEF Application

-----------------------------------------------------------------------------
(* The service. *)

LEMMA AskedFor ==
  ASSUME at \in Labels, Wired(at, op, plan, req)
  PROVE  /\ at \in {"sync", "ensure", "createGet", "hydrate", "joinHydrate"}
              => req.kind = "user" /\ req.acct = Self
         /\ at = "joinMember" => req.kind = "user"
         /\ at \in {"joinGet", "promoteGet"} => req.kind = "party" /\ req.party = op.party
         /\ at \in {"refresh", "refreshStale"} => req.kind = "party" /\ req.party = plan.snap.id
         /\ at = "create" => req.kind = "create"
         /\ at \in Leaving => req.kind = "leave"
         /\ at \in {"join", "promote"} => req.kind = at /\ req.party = op.party
         /\ at \in {"partyPatch", "memberPatch"} => req.kind = at
         /\ at = "joinInvite" => req.kind = "pings"
         /\ at = "request" => req.kind = "intention"
         /\ at \in {"idle", "sleep"} => req.kind = "none"
<1>1. CASE at \in {"sync", "ensure", "createGet", "hydrate", "joinHydrate", "joinMember",
                   "joinInvite", "request", "leave", "leaveFirst"}
  BY <1>1, KindOf DEF Wired, Leaving
<1>2. CASE at \in {"joinGet", "promoteGet"}
  <2>1. req = Get(op.party)
    BY <1>2 DEF Wired
  <2> QED BY <1>2, <2>1, KindOf DEF Leaving
<1>3. CASE at \in {"refresh", "refreshStale"}
  <2>1. req = Get(plan.snap.id)
    BY <1>3 DEF Wired
  <2> QED BY <1>3, <2>1, KindOf DEF Leaving
<1>4. CASE at \in {"create", "join", "promote", "idle", "sleep"}
  <2>1. /\ at = "create" => req = On("create", "", Self)
        /\ at = "join" => req = On("join", op.party, Self)
        /\ at = "promote" => req = On("promote", op.party, op.acct)
        /\ at \in {"idle", "sleep"} => req = NoReq
    BY DEF Wired
  <2>2. /\ at \in {"create", "join", "promote"} => req.kind = at
        /\ at \in {"join", "promote"} => req.party = op.party
        /\ at \in {"idle", "sleep"} => req.kind = "none"
    <3>1. /\ On("create", "", Self).kind = "create"
          /\ On("join", op.party, Self).kind = "join" /\ On("join", op.party, Self).party = op.party
          /\ On("promote", op.party, op.acct).kind = "promote"
          /\ On("promote", op.party, op.acct).party = op.party
          /\ NoReq.kind = "none"
      BY DEF On, NoReq
    <3> QED BY <2>1, <3>1
  <2> QED BY <1>4, <2>2 DEF Leaving
<1>5. CASE at \in {"partyPatch", "memberPatch"}
  <2>1. req = PartyPatch(plan.snap, req.updates) \/ req = MemberPatch(plan.snap, req.updates)
    BY <1>5 DEF Wired
  <2>2. /\ at = "partyPatch" => req = PartyPatch(plan.snap, req.updates)
        /\ at = "memberPatch" => req = MemberPatch(plan.snap, req.updates)
    BY DEF Wired
  <2> QED BY <1>5, <2>2, PatchFields DEF Leaving
<1> QED BY <1>1, <1>2, <1>3, <1>4, <1>5 DEF Labels

LEMMA ServeHome ==
  ASSUME TypeInvariant, Known, HomeSound, Serve, UNCHANGED <<at, op, plan, local>>, Heard'
  PROVE  HomeSound'
<1>1. /\ IsWorld(remote) /\ IsWorld(remote') /\ at \in Labels /\ Wired(at, op, plan, req)
  BY ServeType DEF TypeInvariant, WorldOK, StepOK, CommandOK, Known, Wiring
<1>2. /\ req.kind \in {"party", "join", "leave", "promote", "partyPatch", "memberPatch"}
           => req.party \in Parties
  BY DEF TypeInvariant, StepOK, WireOK, IsRequest, MaybeParty
<1>3. ans = Pending /\ ans.st = "pending"
  BY NoAnswer DEF Serve, ServeUser, ServeParty, ServeCreate, ServeJoin, ServeLeave, ServePromote,
             ServePartyPatch, ServeMemberPatch, ServePings, ServeIntention, Asked
<1>4. PICK h : h = Home(remote, Self)
  OBVIOUS
<1>5. local.id \in {"", h}
  BY <1>3, <1>4 DEF HomeSound, CopyHome
<1>6. ASSUME NEW st, NEW v, Reply(st, v), Home(remote', Self) = h,
             st = "ok" => at \notin Leaving /\ (at \in {"join", "promote"} => h = op.party),
             v.id # "" =>
               /\ at \in {"sync", "ensure", "create", "createGet", "hydrate", "joinHydrate"} => v.id = h
               /\ at \in {"joinGet", "promoteGet"} => v.id = op.party
               /\ at \in {"refresh", "refreshStale"} => v.id = plan.snap.id
      PROVE  HomeSound'
  <2>1. ans'.st = st /\ ans'.view = v
    <3>1. ans' = [st |-> st, view |-> v]
      BY <1>6, HeardReply
    <3> QED BY <3>1
  <2>2. CopyHome'
    BY <1>5, <1>6, <2>1 DEF CopyHome
  <2>3. AnswerHome'
    BY <1>6, <2>1 DEF AnswerHome
  <2>4. PartyHome'
    BY <1>4, <1>6, <2>1 DEF HomeSound, PartyHome
  <2>5. PlanHome'
    BY DEF HomeSound, PlanHome
  <2> QED BY <2>2, <2>3, <2>4, <2>5 DEF HomeSound
<1>7. ASSUME NEW st, Refuse(st), st # "ok" PROVE HomeSound'
  <2>1. Reply(st, NoView) /\ Home(remote', Self) = h /\ NoView.id = ""
    BY <1>4, <1>7, NobodyKnows DEF Refuse
  <2> QED BY <1>6, <1>7, <2>1
<1>8. ASSUME Reply("ok", NoView), Home(remote', Self) = h,
             at \notin Leaving, at \in {"join", "promote"} => h = op.party
      PROVE  HomeSound'
  <2>1. NoView.id = ""
    BY NobodyKnows
  <2> QED BY <1>6, <1>8, <2>1
<1>9. ASSUME NEW v, Report(v), at \notin Leaving \cup {"join", "promote"},
             v.id # "" =>
               /\ at \in {"sync", "ensure", "create", "createGet", "hydrate", "joinHydrate"} => v.id = h
               /\ at \in {"joinGet", "promoteGet"} => v.id = op.party
               /\ at \in {"refresh", "refreshStale"} => v.id = plan.snap.id
      PROVE  HomeSound'
  <2>1. Reply("ok", v) /\ Home(remote', Self) = h
    BY <1>4, <1>9 DEF Report
  <2> QED BY <1>6, <1>9, <2>1
<1>10. CASE ServeUser
  <2>1. at \in {"sync", "ensure", "createGet", "hydrate", "joinHydrate", "joinMember"}
    BY <1>1, <1>10, AskedFor DEF ServeUser, Asked, Labels, Leaving
  <2>2. PICK p, v : p = Home(remote, req.acct) /\ v = IF p = "" THEN NoView ELSE ViewOf(p)
    OBVIOUS
  <2>3. v.id = p
    BY <2>2, NobodyKnows DEF ViewOf
  <2>4. at # "joinMember" => p = h
    BY <1>1, <1>4, <2>1, <2>2, AskedFor
  <2>5. Report(v) \/ Refuse("selfOnly")
    BY <1>10, <2>2 DEF ServeUser
  <2> QED BY <1>7, <1>9, <2>1, <2>3, <2>4, <2>5 DEF Leaving
<1>11. CASE ServeParty
  <2>1. at \in {"joinGet", "promoteGet", "refresh", "refreshStale"}
    BY <1>1, <1>11, AskedFor DEF ServeParty, Asked, Labels, Leaving
  <2>2. ASSUME NEW v, Report(v), v.id = req.party PROVE HomeSound'
    BY <1>1, <1>9, <2>1, <2>2, AskedFor DEF Leaving
  <2>3. PICK v, w : v = ViewOf(req.party) /\ w = [ViewOf(req.party) EXCEPT !.members = Drop(@, {Self})]
    OBVIOUS
  <2>4. v.id = req.party /\ w.id = req.party
    BY <2>3 DEF ViewOf
  <2>5. Report(v) \/ Report(w) \/ Refuse("notFound")
    BY <1>11, <2>3 DEF ServeParty
  <2> QED BY <1>7, <2>2, <2>4, <2>5
<1>12. CASE ServePings \/ ServeIntention
  <2>1. at \in {"joinInvite", "request"}
    BY <1>1, <1>12, AskedFor DEF ServePings, ServeIntention, Asked, Labels, Leaving
  <2>2. ASSUME NEW v, Report(v) PROVE HomeSound'
    BY <1>9, <2>1, <2>2 DEF Leaving
  <2> QED BY <1>12, <2>2 DEF ServePings, ServeIntention
<1>13. CASE ServeCreate
  <2>1. at = "create"
    BY <1>1, <1>13, AskedFor DEF ServeCreate, Asked, Labels, Leaving
  <2>2. ASSUME NEW p, p = CHOOSE q \in Fresh : TRUE, Fresh # {}, h = "",
               JoinNow(p, Self), Reply("ok", NewParty(p))
        PROVE  HomeSound'
    <3>1. p \in Parties
      BY <2>2 DEF Fresh
    <3>2. Self \notin DOMAIN remote[p].members /\ Self \in Accounts
      BY <1>4, <2>2, <3>1, HomeType, ServiceAssumption
    <3>3. Self \in DOMAIN remote'[p].members
      <4>1. JoinNow(p, Self) /\ IsWorld(remote)
        BY <1>1, <2>2
      <4>2. DOMAIN remote'[p].members = DOMAIN remote[p].members \cup {Self}
        BY <3>1, <3>2, <4>1, JoinNowGrows
      <4> QED BY <4>2
    <3>4. Home(remote', Self) = p
      BY <1>1, <3>1, <3>3, HomeIs
    <3>5. PICK v : v = NewParty(p)
      OBVIOUS
    <3>6. v.id = p /\ ans'.view = v
      <4>1. ans' = [st |-> "ok", view |-> v]
        BY <2>2, <3>5, HeardReply
      <4> QED BY <3>5, <4>1 DEF NewParty
    <3>7. local'.id = ""
      BY <1>5, <2>2
    <3>8. CopyHome'
      BY <2>1, <3>7 DEF CopyHome, Leaving
    <3>9. AnswerHome' /\ PartyHome' /\ PlanHome'
      BY <2>1, <3>4, <3>6 DEF AnswerHome, PartyHome, PlanHome, Patching
    <3> QED BY <3>8, <3>9 DEF HomeSound
  <2> QED BY <1>4, <1>7, <1>13, <2>2 DEF ServeCreate
<1>14. CASE ServeJoin
  <2>1. at = "join" /\ req.party = op.party /\ req.party \in Parties
    BY <1>1, <1>2, <1>14, AskedFor DEF ServeJoin, Asked, Labels, Leaving
  <2>2. ASSUME h = "", JoinNow(req.party, Self), Reply("ok", NoView)
        PROVE  HomeSound'
    <3>1. Self \notin DOMAIN remote[req.party].members /\ Self \in Accounts
      BY <1>4, <2>1, <2>2, HomeType, ServiceAssumption
    <3>2. Self \in DOMAIN remote'[req.party].members
      <4>1. DOMAIN remote'[req.party].members = DOMAIN remote[req.party].members \cup {Self}
        BY <1>1, <2>1, <2>2, <3>1, JoinNowGrows
      <4> QED BY <4>1
    <3>3. Home(remote', Self) = op.party
      BY <1>1, <2>1, <3>2, HomeIs
    <3>4. ans'.view.id = ""
      <4>1. ans'.view = NoView
        BY <2>2, ReplyView
      <4> QED BY <4>1, NobodyKnows
    <3>5. local'.id = ""
      BY <2>1 DEF Known
    <3> QED BY <2>1, <3>3, <3>4, <3>5
            DEF HomeSound, CopyHome, AnswerHome, PartyHome, PlanHome, Patching, Leaving
  <2> QED BY <1>4, <1>7, <1>14, <2>2 DEF ServeJoin
<1>15. CASE ServeLeave
  <2>1. at \in Leaving /\ req.party \in Parties
    BY <1>1, <1>2, <1>15, AskedFor DEF ServeLeave, Asked, Labels, Leaving
  <2>2. ASSUME Self \in DOMAIN remote[req.party].members,
               GoneNow("MEMBER_LEFT", req.party, Self), Reply("ok", NoView)
        PROVE  HomeSound'
    <3>1. /\ \A q \in Parties : Keeps(remote, remote', q)
          /\ Self \notin DOMAIN remote'[req.party].members
      BY <1>1, <2>1, <2>2, GoneNowKeeps
    <3>2. \A q \in Parties \ {req.party} : Self \notin DOMAIN remote[q].members
      BY <1>1, <2>1, <2>2 DEF IsWorld
    <3>3. \A q \in Parties : Self \notin DOMAIN remote'[q].members
      BY <3>1, <3>2, ReducerAssumption DEF Keeps, Here
    <3>4. Home(remote', Self) = ""
      BY <3>3, HomeType
    <3>5. ans'.st = "ok" /\ ans'.view.id = ""
      <4>1. ans' = [st |-> "ok", view |-> NoView]
        BY <2>2, HeardReply
      <4> QED BY <4>1, NobodyKnows
    <3> QED BY <2>1, <3>4, <3>5
            DEF HomeSound, CopyHome, AnswerHome, PartyHome, PlanHome, Patching, Leaving
  <2> QED BY <1>7, <1>15, <2>2 DEF ServeLeave
<1>16. CASE ServePromote
  <2>1. at = "promote" /\ req.party = op.party /\ req.party \in Parties
    BY <1>1, <1>2, <1>16, AskedFor DEF ServePromote, Asked, Labels, Leaving
  <2>2. ASSUME IsCaptain(req.party, Self), PromoteNow(req.party, req.acct), Reply("ok", NoView)
        PROVE  HomeSound'
    <3>1. Home(remote', Self) = h
      BY <1>1, <1>4, <2>1, <2>2, PromoteNowKeeps, SameHome DEF Keeps, Stays
    <3>2. Self \in DOMAIN remote'[op.party].members
      <4>1. Here(remote, op.party)
        BY <2>1, <2>2, ReducerAssumption DEF IsCaptain, Here
      <4>2. Here(remote', op.party)
        BY <1>1, <2>1, <2>2, <4>1, PromoteNowKeeps DEF Stays
      <4> QED BY <4>2 DEF Here
    <3>3. h = op.party
      BY <1>1, <2>1, <3>1, <3>2, HomeIs
    <3> QED BY <1>8, <2>1, <2>2, <3>1, <3>3 DEF Leaving
  <2> QED BY <1>7, <1>16, <2>2 DEF ServePromote
<1>17. CASE ServePartyPatch
  <2>1. at = "partyPatch" /\ req.party \in Parties
    BY <1>1, <1>2, <1>17, AskedFor DEF ServePartyPatch, Asked, Labels, Leaving
  <2>2. ASSUME PatchNow(req.party, req.updates, {}), Reply("ok", NoView)
        PROVE  HomeSound'
    <3>1. Home(remote', Self) = h
      BY <1>1, <1>4, <2>1, <2>2, PatchNowKeeps, SameHome DEF Keeps, Stays
    <3> QED BY <1>8, <2>1, <2>2, <3>1 DEF Leaving
  <2> QED BY <1>7, <1>17, <2>2 DEF ServePartyPatch
<1>18. CASE ServeMemberPatch
  <2>1. at = "memberPatch" /\ req.party \in Parties
    BY <1>1, <1>2, <1>18, AskedFor DEF ServeMemberPatch, Asked, Labels, Leaving
  <2>2. ASSUME Self \in DOMAIN remote[req.party].members,
               MemberPatchNow(req.party, Self, req.updates, {}), Reply("ok", NoView)
        PROVE  HomeSound'
    <3>1. /\ \A q \in Parties \ {req.party} : Keeps(remote, remote', q)
          /\ \A q \in Parties : Stays(remote, remote', q)
      BY <1>1, <2>1, <2>2, MemberPatchNowKeeps
    <3>2. Here(remote, req.party)
      BY <2>1, <2>2, ReducerAssumption DEF Here
    <3>3. Home(remote', Self) = h
      BY <1>1, <1>4, <3>1, <3>2, SameHome DEF Keeps, Stays
    <3> QED BY <1>8, <2>1, <2>2, <3>3 DEF Leaving
  <2> QED BY <1>7, <1>18, <2>2 DEF ServeMemberPatch
<1> QED BY <1>10, <1>11, <1>12, <1>13, <1>14, <1>15, <1>16, <1>17, <1>18 DEF Serve

LEMMA HomeStep ==
  ASSUME ~Notified, "kick" \notin EnvOps, TypeInvariant, HomeInv, [Next]_vars
  PROVE  HomeInv'
<1>1. Known'
  BY KnownStep DEF HomeInv
<1>2. CASE UNCHANGED vars
  BY <1>1, <1>2 DEF vars, command, world, wire, HomeInv, HomeSound, CopyHome, AnswerHome,
                    PartyHome, PlanHome, Heard, Happened
<1>3. CASE Client
  <2>1. faults' = faults \/ \E kind : Spend(kind)
    BY <1>3 DEF Client, Sync, Ensure, Create, CreateGet, LeaveFirst, Join, JoinGet, JoinHydrate,
                JoinMember, JoinInvite, Request, Leave, Promote, PromoteGet, Hydrate, PatchParty,
                PatchMember, Refresh, RefreshStale, WakeUp, Quiet, world
  <2>2. Heard' => HomeSound
    BY <2>1, HeardBefore DEF HomeInv
  <2> QED BY <1>1, <1>3, <2>2, ClientHome DEF HomeInv
<1>4. CASE Application
  <2>1. faults' = faults
    BY <1>4, ApplicationFrame
  <2>2. Heard' => HomeSound
    BY <2>1 DEF HomeInv, Heard, Happened
  <2> QED BY <1>1, <1>4, <2>2, ApplicationHome DEF HomeInv
<1>5. CASE Decode
  BY <1>5 DEF Decode, Apply, Complete, ApplyCompleted, Receive, Known, HomeInv
<1>6. CASE (Serve \/ Lose \/ Environment) /\ UNCHANGED <<local, decoding, command>>
  <2>1. UNCHANGED <<at, op, plan, local>>
    BY <1>6 DEF command
  <2>2. ASSUME Serve, Heard' PROVE HomeSound'
    <3>1. faults' = faults \/ \E kind : Spend(kind)
      BY <2>2 DEF Serve, ServeUser, ServeParty, ServeCreate, ServeJoin, ServeLeave, ServePromote,
             ServePartyPatch, ServeMemberPatch, ServePings, ServeIntention, Refuse, Report, Reply
    <3>2. HomeSound
      BY <2>2, <3>1, HeardBefore DEF HomeInv
    <3> QED BY <2>1, <2>2, <3>2, ServeHome DEF HomeInv
  <2>3. ASSUME Lose, Heard' PROVE HomeSound'
    <3>1. HomeSound
      BY <2>3, HeardBefore DEF Lose, HomeInv
    <3>2. ans.st = "pending" /\ ans'.st # "ok" /\ ans'.view.id = "" /\ remote' = remote
      BY <2>3, NoAnswer, NobodyKnows DEF Lose, Failed
    <3> QED BY <2>1, <3>1, <3>2 DEF HomeSound, CopyHome, AnswerHome, PartyHome, PlanHome
  <2>4. ASSUME Environment, Heard' PROVE HomeSound'
    <3>1. UNCHANGED <<ans, faults>>
      BY <2>4 DEF Environment, OtherJoins, OtherLeaves, KickedBy, OtherPromotes, OtherPatches,
                  OtherSets, Acts
    <3>2. IsWorld(remote) /\ IsWorld(remote')
      <4>1. WorldOK /\ WorldOK'
        BY <2>4, EnvironmentType DEF TypeInvariant, StepOK
      <4> QED BY <4>1 DEF WorldOK
    <3>3. Home(remote', Self) = Home(remote, Self)
      BY <2>4, <3>2, EnvironmentHome
    <3>4. HomeSound
      BY <2>4, <3>1 DEF HomeInv, Heard, Happened
    <3> QED BY <2>1, <3>1, <3>3, <3>4 DEF HomeSound, CopyHome, AnswerHome, PartyHome, PlanHome
  <2> QED BY <1>1, <1>6, <2>2, <2>3, <2>4 DEF HomeInv
<1> QED BY <1>2, <1>3, <1>4, <1>5, <1>6 DEF Next, Step

LEMMA HomeInit == Init => HomeInv
<1> SUFFICES ASSUME Init PROVE HomeInv
  OBVIOUS
<1>1. at = "idle" /\ ans = Pending
  BY DEF Init
<1>2. local.id \in {"", Home(remote, Self)}
  <2>1. mapRemoteParty(ViewOf(Home(remote, Self))).id = Home(remote, Self)
    BY DEF mapRemoteParty, ViewOf
  <2> QED BY <2>1, NobodyKnows DEF Init
<1>3. HomeSound
  BY <1>1, <1>2, NoAnswer
     DEF HomeSound, CopyHome, AnswerHome, PartyHome, PlanHome, Leaving, Patching
<1> QED BY <1>3, KnownInit DEF HomeInv

\* Between commands the cached party is the one this account is in, or none,
\* as long as every exchange was answered once and nobody kicks this account
\* unheard (leavePartyLocked, joinPartyLocked, ensurePartyLocked).
THEOREM LocalIDStaysSound ==
  ASSUME ~Notified, "kick" \notin EnvOps PROVE Spec => []LocalIDSound
<1>1. Init => TypeInvariant /\ HomeInv
  BY TypeInit, HomeInit
<1>2. TypeInvariant /\ HomeInv /\ [Next]_vars => (TypeInvariant /\ HomeInv)'
  BY TypeStep, HomeStep
<1>3. HomeInv => LocalIDSound
  BY DEF HomeInv, HomeSound, CopyHome, Heard, Leaving, LocalIDSound
<1> QED BY <1>1, <1>2, <1>3, PTL DEF Spec

-----------------------------------------------------------------------------
(* Convergence.  What a party looks like through notifications: the        *)
(* metadata of the party and of its members.  The copy the decoder keeps   *)
(* and the party of the service differ by what is still under way.         *)

Metas(ms) == [a \in DOMAIN ms |-> ms[a].meta]
MirrorOf(p) == [meta |-> p.meta, members |-> Metas(p.members)]

\* What a notification says happened.
Hear(m, n) ==
  CASE n.type = "MEMBER_JOINED" ->
         [meta |-> m.meta, members |-> Put(m.members, n.acct, n.updates)]
    [] n.type \in {"MEMBER_LEFT", "MEMBER_KICKED"} ->
         [meta |-> m.meta, members |-> Drop(m.members, {n.acct})]
    [] n.type = "MEMBER_NEW_CAPTAIN" -> m
    [] n.type = "PARTY_UPDATED" ->
         [meta |-> Overlay(m.meta, n.updates, n.removed), members |-> m.members]
    [] n.type = "MEMBER_STATE_UPDATED" ->
         [meta |-> m.meta, members |->
            Put(m.members, n.acct,
                Overlay(IF n.acct \in DOMAIN m.members THEN m.members[n.acct] ELSE Nothing,
                        n.updates, n.removed))]

\* Every member's readiness is the one its metadata speaks of.
IsReady(m) == m.ready = extractReady(Lookup(m.meta, "LobbyState"))
Readies(ms) == \A a \in DOMAIN ms : IsReady(ms[a])

LEMMA MetasOf ==
  ASSUME NEW ms
  PROVE  /\ \A a : \A x : Metas(Put(ms, a, x)) = Put(Metas(ms), a, x.meta)
         /\ \A D : Metas(Drop(ms, D)) = Drop(Metas(ms), D)
         /\ DOMAIN Metas(ms) = DOMAIN ms
BY DEF Metas, Put, Drop

LEMMA ReadiesOf ==
  ASSUME NEW ms, Readies(ms)
  PROVE  /\ \A a : \A x : IsReady(x) => Readies(Put(ms, a, x))
         /\ \A D : Readies(Drop(ms, D))
BY DEF Readies, Put, Drop

LEMMA PrologueMirror ==
  ASSUME NEW p, IsParty(p), NEW e
  PROVE  Prologue(p, e).meta = p.meta /\ Prologue(p, e).members = p.members
BY DEF Prologue, IsParty

LEMMA JoinedHeard ==
  ASSUME NEW p, IsParty(p), Readies(p.members), NEW n, n.type = "MEMBER_JOINED"
  PROVE  /\ MirrorOf(ApplyEvent(p, Joined(n))) = Hear(MirrorOf(p), n)
         /\ Readies(ApplyEvent(p, Joined(n)).members)
<1>1. PICK m : m = MemberOf(n.role, n.rev, n.updates, n.updates)
  OBVIOUS
<1>2. m.meta = n.updates /\ IsReady(m)
  BY <1>1 DEF MemberOf, IsReady
<1>3. Joined(n).kind = "joined" /\ Joined(n).acct = n.acct /\ Joined(n).member = m
  BY <1>1 DEF Joined, BlankEvent
<1>4. PICK q : q = Prologue(p, Joined(n))
  OBVIOUS
<1>5. q.meta = p.meta /\ q.members = p.members /\ q = [q EXCEPT !.id = q.id]
  BY <1>4, PrologueMirror DEF Prologue, IsParty
<1>6. ApplyEvent(p, Joined(n)) = MemberJoined(q, Joined(n))
  BY <1>3, <1>4 DEF ApplyEvent
<1>7. PICK r : r = ApplyEvent(p, Joined(n))
  OBVIOUS
<1>8. r.meta = p.meta /\ r.members = Put(p.members, n.acct, m)
  BY <1>3, <1>4, <1>5, <1>6, <1>7 DEF MemberJoined, Prologue, IsParty
<1>9. MirrorOf(r) = [meta |-> p.meta, members |-> Put(Metas(p.members), n.acct, n.updates)]
  BY <1>2, <1>8, MetasOf DEF MirrorOf
<1>10. Hear(MirrorOf(p), n) = [meta |-> p.meta, members |-> Put(Metas(p.members), n.acct, n.updates)]
  BY DEF Hear, MirrorOf
<1> QED BY <1>2, <1>7, <1>8, <1>9, <1>10, ReadiesOf

LEMMA GoneHeard ==
  ASSUME NEW p, IsParty(p), Readies(p.members), NEW n,
         n.type \in {"MEMBER_LEFT", "MEMBER_KICKED"}
  PROVE  /\ MirrorOf(ApplyEvent(p, Gone(n))) = Hear(MirrorOf(p), n)
         /\ Readies(ApplyEvent(p, Gone(n)).members)
<1>1. Gone(n).kind = "gone" /\ Gone(n).acct = n.acct
  BY DEF Gone, BlankEvent
<1>2. PICK q : q = Prologue(p, Gone(n))
  OBVIOUS
<1>3. q.meta = p.meta /\ q.members = p.members
  BY <1>2, PrologueMirror
<1>4. ApplyEvent(p, Gone(n)) = MemberGone(q, Gone(n))
  BY <1>1, <1>2 DEF ApplyEvent
<1>5. PICK r : r = ApplyEvent(p, Gone(n))
  OBVIOUS
<1>6. r.meta = p.meta /\ r.members = Drop(p.members, {n.acct})
  BY <1>1, <1>2, <1>3, <1>4, <1>5 DEF MemberGone, Prologue, IsParty
<1>7. MirrorOf(r) = [meta |-> p.meta, members |-> Drop(Metas(p.members), {n.acct})]
  BY <1>6, MetasOf DEF MirrorOf
<1>8. Hear(MirrorOf(p), n) = [meta |-> p.meta, members |-> Drop(Metas(p.members), {n.acct})]
  BY DEF Hear, MirrorOf
<1> QED BY <1>5, <1>6, <1>7, <1>8, ReadiesOf

\* A party event touches no member, and the fields taken from metadata are
\* not part of it.
LEMMA PartyHeard ==
  ASSUME NEW p, IsParty(p), Readies(p.members), NEW e, e.kind = "party"
  PROVE  /\ ApplyEvent(p, e).meta = Overlay(p.meta, e.updates, e.removed)
         /\ ApplyEvent(p, e).members = p.members
<1>1. PICK q : q = Prologue(p, e)
  OBVIOUS
<1>2. q.meta = p.meta /\ q.members = p.members
  BY <1>1, PrologueMirror
<1>3. ApplyEvent(p, e) = PartyUpdated(q, e)
  BY <1>1 DEF ApplyEvent
<1>4. PICK r : r = [q EXCEPT
     !.meta      = Overlay(@, e.updates, e.removed),
     !.captain   = OrElse(e.captain, @),
     !.playlist  = OrElse(e.playlist, @),
     !.customKey = OrElse(e.customKey, @)]
  OBVIOUS
<1>5. /\ r.meta = Overlay(p.meta, e.updates, e.removed) /\ r.members = p.members
      /\ "customKey" # "meta" /\ DOMAIN r = DOMAIN p
  BY <1>1, <1>2, <1>4 DEF Prologue, IsParty
<1>6. SyncFromMeta(r).meta = r.meta /\ SyncFromMeta(r).members = r.members
  BY <1>1, <1>4 DEF SyncFromMeta, Prologue, IsParty
<1> QED BY <1>3, <1>4, <1>5, <1>6 DEF PartyUpdated

LEMMA OverlayNothing ==
  ASSUME NEW m, IsPartyMeta(m)
  PROVE  Overlay(m, Nothing, {}) = m
BY DEF Overlay, Nothing, IsPartyMeta, IsMap

LEMMA NewCaptainHeard ==
  ASSUME NEW p, IsParty(p), Readies(p.members), NEW n, n.type = "MEMBER_NEW_CAPTAIN"
  PROVE  /\ MirrorOf(ApplyEvent(p, NewCaptain(n))) = Hear(MirrorOf(p), n)
         /\ Readies(ApplyEvent(p, NewCaptain(n)).members)
<1>1. NewCaptain(n).kind = "party" /\ NewCaptain(n).updates = Nothing /\ NewCaptain(n).removed = {}
  BY DEF NewCaptain, BlankEvent
<1>2. PICK r : r = ApplyEvent(p, NewCaptain(n))
  OBVIOUS
<1>3. r.meta = p.meta /\ r.members = p.members
  <2>1. r.meta = Overlay(p.meta, Nothing, {}) /\ r.members = p.members
    BY <1>1, <1>2, PartyHeard
  <2>2. IsPartyMeta(p.meta)
    BY DEF IsParty
  <2> QED BY <2>1, <2>2, OverlayNothing
<1>4. Hear(MirrorOf(p), n) = MirrorOf(p)
  BY DEF Hear
<1> QED BY <1>2, <1>3, <1>4 DEF MirrorOf

LEMMA UpdatedHeard ==
  ASSUME NEW p, IsParty(p), Readies(p.members), NEW n, n.type = "PARTY_UPDATED"
  PROVE  /\ MirrorOf(ApplyEvent(p, Updated(n))) = Hear(MirrorOf(p), n)
         /\ Readies(ApplyEvent(p, Updated(n)).members)
<1>1. /\ Updated(n).kind = "party" /\ Updated(n).updates = n.updates
      /\ Updated(n).removed = n.removed
  BY DEF Updated, BlankEvent
<1>2. PICK r : r = ApplyEvent(p, Updated(n))
  OBVIOUS
<1>3. r.meta = Overlay(p.meta, n.updates, n.removed) /\ r.members = p.members
  BY <1>1, <1>2, PartyHeard
<1>4. Hear(MirrorOf(p), n) = [meta |-> Overlay(p.meta, n.updates, n.removed), members |-> Metas(p.members)]
  BY DEF Hear, MirrorOf
<1> QED BY <1>2, <1>3, <1>4 DEF MirrorOf

\* The member an update completes is the one it is folded into.
LEMMA StateUpdatedHeard ==
  ASSUME IsParty(local), Readies(local.members), NEW n, n.type = "MEMBER_STATE_UPDATED"
  PROVE  /\ MirrorOf(ApplyEvent(local, StateUpdated(n))) = Hear(MirrorOf(local), n)
         /\ Readies(ApplyEvent(local, StateUpdated(n)).members)
<1>1. PICK old : old = IF n.acct \in DOMAIN local.members THEN local.members[n.acct] ELSE NoMember
  OBVIOUS
<1>2. PICK merged : merged = Overlay(old.meta, n.updates, n.removed)
  OBVIOUS
<1>3. PICK e : e = StateUpdated(n)
  OBVIOUS
<1>4. /\ e.kind = "updated" /\ e.acct = n.acct /\ e.removed = n.removed
      /\ e.member.meta = n.updates
      /\ e.member.ready = extractReady(Lookup(merged, "LobbyState"))
  BY <1>1, <1>2, <1>3 DEF StateUpdated, BlankEvent, MemberOf
<1>5. PICK q : q = Prologue(local, e)
  OBVIOUS
<1>6. q.meta = local.meta /\ q.members = local.members
  BY <1>5, PrologueMirror
<1>7. ApplyEvent(local, e) = MemberUpdated(q, e)
  BY <1>4, <1>5 DEF ApplyEvent
<1>8. PICK new : new = [role |-> OrElse(e.member.role, old.role),
              rev    |-> Larger(old.rev, e.member.rev),
              ready  |-> OrElse(e.member.ready, old.ready),
              outfit |-> OrElse(e.member.outfit, old.outfit),
              emote  |-> OrElse(e.member.emote, old.emote),
              meta   |-> Overlay(old.meta, e.member.meta, e.removed)]
  OBVIOUS
<1>9. new.meta = merged /\ IsReady(new)
  BY <1>2, <1>4, <1>8 DEF IsReady, OrElse, extractReady
<1>10. PICK r : r = ApplyEvent(local, e)
  OBVIOUS
<1>11. r.meta = local.meta /\ r.members = Put(local.members, n.acct, new)
  <2>1. MemberUpdated(q, e) =
          [q EXCEPT !.members = Put(q.members, e.acct, new),
                    !.captain = IF e.member.role = "CAPTAIN" THEN e.acct ELSE @]
    BY <1>1, <1>4, <1>6, <1>8 DEF MemberUpdated
  <2> QED BY <1>4, <1>5, <1>6, <1>7, <1>10, <2>1 DEF Prologue, IsParty
<1>12. old.meta = IF n.acct \in DOMAIN Metas(local.members) THEN Metas(local.members)[n.acct] ELSE Nothing
  BY <1>1 DEF Metas, NoMember
<1>13. MirrorOf(r) = [meta |-> local.meta, members |-> Put(Metas(local.members), n.acct, merged)]
  BY <1>9, <1>11, MetasOf DEF MirrorOf
<1>14. Hear(MirrorOf(local), n) = [meta |-> local.meta, members |-> Put(Metas(local.members), n.acct, merged)]
  BY <1>2, <1>12 DEF Hear, MirrorOf
<1> QED BY <1>3, <1>9, <1>10, <1>11, <1>13, <1>14, ReadiesOf

LEMMA EventHeard ==
  ASSUME NEW p, IsParty(p), Readies(p.members),
         NEW n, IsNotification(n), n.type # "MEMBER_STATE_UPDATED"
  PROVE  /\ MirrorOf(ApplyEvent(p, EventOf(n))) = Hear(MirrorOf(p), n)
         /\ Readies(ApplyEvent(p, EventOf(n)).members)
<1>1. CASE n.type = "MEMBER_JOINED"
  BY <1>1, JoinedHeard DEF EventOf
<1>2. CASE n.type \in {"MEMBER_LEFT", "MEMBER_KICKED"}
  BY <1>2, GoneHeard DEF EventOf
<1>3. CASE n.type = "MEMBER_NEW_CAPTAIN"
  BY <1>3, NewCaptainHeard DEF EventOf
<1>4. CASE n.type = "PARTY_UPDATED"
  BY <1>4, UpdatedHeard DEF EventOf
<1> QED BY <1>1, <1>2, <1>3, <1>4 DEF IsNotification

-----------------------------------------------------------------------------
(* What a sequence of notifications makes of a party, one after the other:  *)
(* f[n] is what is left of m after the first n of s, and r is the last.     *)

Trail(f, m, s, r) ==
  /\ DOMAIN f = 0 .. Len(s) /\ f[0] = m /\ f[Len(s)] = r
  /\ \A n \in 1 .. Len(s) : f[n] = Hear(f[n - 1], s[n])
Leads(m, s, r) == \E f : Trail(f, m, s, r)

LEMMA LeadsNowhere ==
  ASSUME NEW m, NEW s, IsInbox(s), NEW r, Leads(m, s, r), s = <<>>
  PROVE  r = m
<1>1. Len(s) = 0
  OBVIOUS
<1> QED BY <1>1 DEF Leads, Trail

LEMMA LeadsEmpty ==
  ASSUME NEW m
  PROVE  Leads(m, <<>>, m)
<1>1. PICK f : f = [n \in 0 .. 0 |-> m]
  OBVIOUS
<1>2. Len(<<>>) = 0 /\ 0 \in 0 .. 0 /\ 1 .. 0 = {}
  OBVIOUS
<1>3. Trail(f, m, <<>>, m)
  BY <1>1, <1>2 DEF Trail
<1> QED BY <1>3 DEF Leads

\* The first one is heard.
LEMMA LeadsOn ==
  ASSUME NEW m, NEW s, IsInbox(s), NEW r, Leads(m, s, r), s # <<>>
  PROVE  Leads(Hear(m, Head(s)), Tail(s), r)
<1>1. PICK f : Trail(f, m, s, r)
  BY DEF Leads
<1>2. /\ Len(Tail(s)) = Len(s) - 1 /\ Head(s) = s[1] /\ Len(s) \in Nat \ {0}
      /\ \A n \in 1 .. Len(s) - 1 : Tail(s)[n] = s[n + 1]
  <2>1. s \in Seq({s[n] : n \in DOMAIN s})
    BY DEF IsInbox
  <2> QED BY <2>1
<1>3. PICK k \in Nat : k = Len(s) - 1 /\ Len(Tail(s)) = k /\ Len(s) = k + 1
  <2>1. Len(s) - 1 \in Nat /\ Len(s) = (Len(s) - 1) + 1
    BY <1>2
  <2> QED BY <1>2, <2>1
<1>4. PICK g : g = [n \in 0 .. k |-> f[n + 1]]
  OBVIOUS
<1>5. f[0] = m /\ f[k + 1] = r /\ \A n \in 1 .. k + 1 : f[n] = Hear(f[n - 1], s[n])
  BY <1>1, <1>3 DEF Trail
<1>6. DOMAIN g = 0 .. k /\ g[0] = Hear(m, Head(s)) /\ g[k] = r
  <2>1. 1 \in 1 .. k + 1 /\ 1 - 1 = 0 /\ 0 + 1 = 1 /\ 0 \in 0 .. k /\ k \in 0 .. k
    OBVIOUS
  <2>2. f[1] = Hear(f[0], s[1])
    BY <1>5, <2>1
  <2> QED BY <1>2, <1>4, <1>5, <2>1, <2>2
<1>7. ASSUME NEW n \in 1 .. k
      PROVE  g[n] = Hear(g[n - 1], Tail(s)[n])
  <2>1. n + 1 \in 1 .. k + 1 /\ (n + 1) - 1 = n /\ n \in 0 .. k /\ n - 1 \in 0 .. k /\ (n - 1) + 1 = n
    OBVIOUS
  <2>2. f[n + 1] = Hear(f[n], s[n + 1])
    BY <1>5, <2>1
  <2> QED BY <1>2, <1>3, <1>4, <2>1, <2>2
<1>8. Trail(g, Hear(m, Head(s)), Tail(s), r)
  BY <1>3, <1>6, <1>7 DEF Trail
<1> QED BY <1>8 DEF Leads

LEMMA LeadsOne ==
  ASSUME NEW m, NEW n
  PROVE  Leads(m, <<n>>, Hear(m, n))
<1>1. PICK f : f = [j \in 0 .. 1 |-> IF j = 0 THEN m ELSE Hear(m, n)]
  OBVIOUS
<1>2. Len(<<n>>) = 1 /\ <<n>>[1] = n
  OBVIOUS
<1>3. DOMAIN f = 0 .. 1 /\ f[0] = m /\ f[1] = Hear(m, n)
  BY <1>1
<1>4. \A j \in 1 .. 1 : j = 1 /\ j - 1 = 0
  OBVIOUS
<1>5. Trail(f, m, <<n>>, Hear(m, n))
  BY <1>2, <1>3, <1>4 DEF Trail
<1> QED BY <1>5 DEF Leads

\* More are sent.
LEMMA LeadsFarther ==
  ASSUME NEW m, NEW s, IsInbox(s), NEW r, Leads(m, s, r),
         NEW t, IsInbox(t), NEW x, Leads(r, t, x)
  PROVE  Leads(m, s \o t, x)
<1>1. PICK f, g : Trail(f, m, s, r) /\ Trail(g, r, t, x)
  BY DEF Leads
<1> DEFINE S == {s[j] : j \in DOMAIN s} \cup {t[j] : j \in DOMAIN t}
<1>2. s \in Seq(S) /\ t \in Seq(S)
  <2>1. s \in Seq({s[j] : j \in DOMAIN s}) /\ t \in Seq({t[j] : j \in DOMAIN t})
    BY DEF IsInbox
  <2> QED BY <2>1
<1> HIDE DEF S
<1>3. PICK k \in Nat, l \in Nat : k = Len(s) /\ l = Len(t)
  BY <1>2
<1>4. PICK u : u = s \o t
  OBVIOUS
<1>5. /\ Len(u) = k + l
      /\ \A j \in 1 .. k + l : u[j] = IF j <= k THEN s[j] ELSE t[j - k]
  BY <1>2, <1>3, <1>4
<1>6. /\ f[0] = m /\ f[k] = r /\ \A j \in 1 .. k : f[j] = Hear(f[j - 1], s[j])
      /\ g[0] = r /\ g[l] = x /\ \A j \in 1 .. l : g[j] = Hear(g[j - 1], t[j])
  BY <1>1, <1>3 DEF Trail
<1>7. PICK h : h = [j \in 0 .. k + l |-> IF j <= k THEN f[j] ELSE g[j - k]]
  OBVIOUS
<1>8. \A j \in 0 .. k : h[j] = f[j]
  BY <1>7
<1>9. \A j \in k .. k + l : h[j] = g[j - k]
  <2> TAKE j \in k .. k + l
  <2>1. j \in 0 .. k + l /\ (j <= k => j = k) /\ k - k = 0
    OBVIOUS
  <2> QED BY <1>6, <1>7, <2>1
<1>10. DOMAIN h = 0 .. k + l /\ h[0] = m /\ h[k + l] = x
  <2>1. 0 \in 0 .. k /\ k + l \in k .. k + l /\ (k + l) - k = l
    OBVIOUS
  <2> QED BY <1>6, <1>7, <1>8, <1>9, <2>1
<1>11. ASSUME NEW j \in 1 .. k + l
       PROVE  h[j] = Hear(h[j - 1], u[j])
  <2>1. CASE j <= k
    <3>1. j \in 1 .. k /\ j \in 0 .. k /\ j - 1 \in 0 .. k
      BY <2>1
    <3> QED BY <1>5, <1>6, <1>8, <2>1, <3>1
  <2>2. CASE ~(j <= k)
    <3>1. /\ j - k \in 1 .. l /\ j \in k .. k + l /\ j - 1 \in k .. k + l
          /\ (j - 1) - k = (j - k) - 1
      BY <2>2
    <3>2. u[j] = t[j - k] /\ h[j] = g[j - k] /\ h[j - 1] = g[(j - k) - 1]
      BY <1>5, <1>9, <2>2, <3>1
    <3> QED BY <1>6, <3>1, <3>2
  <2> QED BY <2>1, <2>2
<1>12. Trail(h, m, u, x)
  BY <1>5, <1>10, <1>11 DEF Trail
<1> QED BY <1>4, <1>12 DEF Leads

-----------------------------------------------------------------------------
(* What the service does to a party and what it says of it agree. *)

\* Whatever led to the party q leads to what becomes of it.
Follows(q) ==
  \A m : Leads(m, inbox, MirrorOf(remote[q])) => Leads(m, inbox', MirrorOf(remote'[q]))

LEMMA ChangeLeads ==
  ASSUME IsWorld(remote), IsInbox(inbox), Notified, NEW p \in Parties, NEW new,
         NEW notes, IsInbox(notes), Change(p, new, notes),
         Self \in DOMAIN new.members =>
           Self \in DOMAIN remote[p].members /\ Leads(MirrorOf(remote[p]), notes, MirrorOf(new)),
         NEW q \in Parties, Self \in DOMAIN remote'[q].members
  PROVE  Self \in DOMAIN remote[q].members /\ Follows(q)
<1>1. remote'[p] = new /\ \A x \in Parties \ {p} : remote'[x] = remote[x]
  <2>1. remote' = [remote EXCEPT ![p] = new] /\ DOMAIN remote = Parties
    BY DEF Change, IsWorld
  <2> QED BY <2>1
<1>2. CASE q = p
  <2>1. Self \in DOMAIN remote[p].members /\ Leads(MirrorOf(remote[p]), notes, MirrorOf(new))
    BY <1>1, <1>2
  <2>2. inbox' = inbox \o notes
    BY <2>1 DEF Change
  <2> QED BY <1>1, <1>2, <2>1, <2>2, LeadsFarther DEF Follows
<1>3. CASE q # p
  <2>1. remote'[q] = remote[q] /\ Self \in DOMAIN remote[q].members
    BY <1>1, <1>3
  <2>2. Self \notin DOMAIN remote[p].members
    BY <1>3, <2>1 DEF IsWorld
  <2>3. inbox' = inbox
    BY <2>2 DEF Change
  <2> QED BY <2>1, <2>3 DEF Follows
<1> QED BY <1>2, <1>3

LEMMA MirrorOne ==
  ASSUME NEW m, NEW n, IsNotification(n)
  PROVE  IsInbox(<<n>>) /\ Leads(m, <<n>>, Hear(m, n))
BY LeadsOne, SingleType

LEMMA JoinNowLeads ==
  ASSUME IsWorld(remote), IsInbox(inbox), Notified, NEW p \in Parties, NEW a \in Accounts \ {Self},
         JoinNow(p, a), NEW q \in Parties, Self \in DOMAIN remote'[q].members
  PROVE  Self \in DOMAIN remote[q].members /\ Follows(q)
<1>1. PICK role \in {"MEMBER", "CAPTAIN"} :
        role = IF DOMAIN remote[p].members = {} THEN "CAPTAIN" ELSE "MEMBER"
  OBVIOUS
<1>2. PICK rev \in Nat \ {0} : rev = remote[p].rev + 1
  BY DEF IsWorld
<1>3. PICK b : b = [role |-> role, rev |-> 0, meta |-> Nothing]
  OBVIOUS
<1>4. PICK ms : ms = Put(remote[p].members, a, b)
  OBVIOUS
<1>5. PICK new : new = [remote[p] EXCEPT !.rev = rev, !.members = ms]
  OBVIOUS
<1>6. new.meta = remote[p].meta /\ new.members = ms
  BY <1>5 DEF IsWorld
<1>7. PICK n : n = [Note("MEMBER_JOINED", p, a, rev) EXCEPT !.role = role]
  OBVIOUS
<1>8. /\ IsNotification(n)
      /\ n.type = "MEMBER_JOINED" /\ n.acct = a /\ n.updates = Nothing
  <2>1. IsNotification(Note("MEMBER_JOINED", p, a, rev))
    BY NoteType
  <2> QED BY <1>7, <2>1 DEF IsNotification, Note
<1>9. Change(p, new, <<n>>)
  BY <1>1, <1>2, <1>3, <1>4, <1>5, <1>7 DEF JoinNow
<1>10. MirrorOf(new) = Hear(MirrorOf(remote[p]), n)
  <2>1. Metas(ms) = Put(Metas(remote[p].members), a, Nothing)
    BY <1>3, <1>4, MetasOf
  <2> QED BY <1>6, <1>8, <2>1 DEF MirrorOf, Hear
<1>11. Self \in DOMAIN new.members => Self \in DOMAIN remote[p].members
  BY <1>4, <1>6 DEF Put
<1> QED BY <1>8, <1>9, <1>10, <1>11, MirrorOne, ChangeLeads

LEMMA GoneNowLeads ==
  ASSUME IsWorld(remote), IsInbox(inbox), Notified, NEW type \in {"MEMBER_LEFT", "MEMBER_KICKED"},
         NEW p \in Parties, NEW a \in DOMAIN remote[p].members, GoneNow(type, p, a),
         NEW q \in Parties, Self \in DOMAIN remote'[q].members
  PROVE  Self \in DOMAIN remote[q].members /\ Follows(q)
<1> DEFINE rev  == remote[p].rev + 1
           rest == Drop(remote[p].members, {a})
           heir == IF CaptainOf(rest) = "" /\ DOMAIN rest # {}
                   THEN CHOOSE b \in DOMAIN rest : TRUE ELSE ""
           ms == IF heir = "" THEN rest ELSE [rest EXCEPT ![heir].role = "CAPTAIN"]
           new == [remote[p] EXCEPT !.rev = rev, !.members = ms]
           gone == Note(type, p, a, rev)
           passed == Note("MEMBER_NEW_CAPTAIN", p, heir, rev)
           tail == IF heir = "" THEN <<>> ELSE <<passed>>
<1>1. Change(p, new, <<gone>> \o tail)
  BY DEF GoneNow
<1>2. rev \in Nat \ {0}
  BY DEF IsWorld
<1>3. a \in Accounts /\ IsRemoteMembers(remote[p].members)
  BY RemoteMembersType DEF IsWorld
<1>4. IsRemoteMembers(rest) /\ DOMAIN rest \subseteq DOMAIN remote[p].members
  BY <1>3, RemoteMembersType DEF Drop
<1>5. Metas(rest) = Drop(Metas(remote[p].members), {a})
  BY MetasOf
<1> HIDE DEF rev, rest
<1>6. heir = "" \/ (heir \in DOMAIN rest /\ heir \in Accounts)
  BY <1>4, RemoteMembersType
<1> HIDE DEF heir
<1>7. Metas(ms) = Metas(rest) /\ DOMAIN ms = DOMAIN rest
  <2>1. \A b \in DOMAIN rest :
          rest[b] \in [role : {"MEMBER", "CAPTAIN"}, rev : Nat, meta : {rest[b].meta}]
    BY <1>4, RemoteMembersType
  <2>2. DOMAIN ms = DOMAIN rest /\ \A b \in DOMAIN rest : ms[b].meta = rest[b].meta
    BY <1>6, <2>1
  <2> QED BY <2>2 DEF Metas
<1> HIDE DEF ms
<1>8. new.meta = remote[p].meta /\ new.members = ms
  BY DEF IsWorld
<1>9. /\ IsNotification(gone) /\ gone.type = type /\ gone.acct = a
      /\ heir # "" => IsNotification(passed) /\ passed.type = "MEMBER_NEW_CAPTAIN"
  BY <1>2, <1>3, <1>6, NoteType DEF Note
<1>10. MirrorOf(new) = Hear(MirrorOf(remote[p]), gone)
  BY <1>5, <1>7, <1>8, <1>9 DEF MirrorOf, Hear
<1>11. heir # "" => MirrorOf(new) = Hear(MirrorOf(new), passed)
  BY <1>9 DEF Hear
<1>12. Self \in DOMAIN new.members => Self \in DOMAIN remote[p].members
  BY <1>4, <1>7, <1>8
<1> HIDE DEF gone, passed, new
<1>13. IsInbox(tail) /\ Leads(MirrorOf(new), tail, MirrorOf(new))
  <2>1. CASE heir = ""
    BY <2>1, EmptyInbox, LeadsEmpty
  <2>2. CASE heir # ""
    BY <1>9, <1>11, <2>2, MirrorOne
  <2> QED BY <2>1, <2>2
<1> HIDE DEF tail
<1>14. IsInbox(<<gone>>) /\ Leads(MirrorOf(remote[p]), <<gone>>, MirrorOf(new))
  BY <1>9, <1>10, MirrorOne
<1>15. /\ IsInbox(<<gone>> \o tail)
       /\ Leads(MirrorOf(remote[p]), <<gone>> \o tail, MirrorOf(new))
  BY <1>13, <1>14, ConcatType, LeadsFarther
<1> QED BY <1>1, <1>12, <1>15, ChangeLeads

LEMMA PromoteNowLeads ==
  ASSUME IsWorld(remote), IsInbox(inbox), Notified, NEW p \in Parties,
         NEW a \in DOMAIN remote[p].members, PromoteNow(p, a),
         NEW q \in Parties, Self \in DOMAIN remote'[q].members
  PROVE  Self \in DOMAIN remote[q].members /\ Follows(q)
<1>1. PICK rev \in Nat \ {0} : rev = remote[p].rev + 1
  BY DEF IsWorld
<1>2. a \in Accounts /\ IsRemoteMembers(remote[p].members)
  BY RemoteMembersType DEF IsWorld
<1>3. PICK ms : ms = [b \in DOMAIN remote[p].members |->
                [remote[p].members[b] EXCEPT !.role = IF b = a THEN "CAPTAIN" ELSE "MEMBER"]]
  OBVIOUS
<1>4. Metas(ms) = Metas(remote[p].members) /\ DOMAIN ms = DOMAIN remote[p].members
  <2>1. \A b \in DOMAIN remote[p].members : remote[p].members[b] \in
          [role : {"MEMBER", "CAPTAIN"}, rev : Nat, meta : {remote[p].members[b].meta}]
    BY <1>2, RemoteMembersType
  <2>2. \A b \in DOMAIN remote[p].members : ms[b].meta = remote[p].members[b].meta
    BY <1>3, <2>1
  <2> QED BY <1>3, <2>2 DEF Metas
<1>5. PICK new : new = [remote[p] EXCEPT !.rev = rev, !.members = ms]
  OBVIOUS
<1>6. new.meta = remote[p].meta /\ new.members = ms
  BY <1>5 DEF IsWorld
<1>7. PICK n : n = Note("MEMBER_NEW_CAPTAIN", p, a, rev)
  OBVIOUS
<1>8. IsNotification(n) /\ n.type = "MEMBER_NEW_CAPTAIN"
  BY <1>2, <1>7, NoteType DEF Note
<1>9. Change(p, new, <<n>>)
  BY <1>1, <1>3, <1>5, <1>7 DEF PromoteNow
<1>10. MirrorOf(new) = Hear(MirrorOf(remote[p]), n)
  BY <1>4, <1>6, <1>8 DEF MirrorOf, Hear
<1> QED BY <1>4, <1>6, <1>8, <1>9, <1>10, MirrorOne, ChangeLeads

LEMMA PatchNowLeads ==
  ASSUME IsWorld(remote), IsInbox(inbox), Notified, NEW p \in Parties,
         NEW u, IsPartyMeta(u), NEW r \in SUBSET Keys, PatchNow(p, u, r),
         NEW q \in Parties, Self \in DOMAIN remote'[q].members
  PROVE  Self \in DOMAIN remote[q].members /\ Follows(q)
<1>1. PICK rev \in Nat \ {0} : rev = remote[p].rev + 1
  BY DEF IsWorld
<1>2. PICK new : new = [remote[p] EXCEPT !.rev = rev, !.meta = Overlay(remote[p].meta, u, r)]
  OBVIOUS
<1>3. new.meta = Overlay(remote[p].meta, u, r) /\ new.members = remote[p].members
  BY <1>2 DEF IsWorld
<1>4. PICK n : n = [Note("PARTY_UPDATED", p, "", rev) EXCEPT !.updates = u, !.removed = r]
  OBVIOUS
<1>5. IsNotification(n) /\ n.type = "PARTY_UPDATED" /\ n.updates = u /\ n.removed = r
  BY <1>4 DEF IsNotification, Note, MaybeAccount
<1>6. Change(p, new, <<n>>)
  BY <1>1, <1>2, <1>4 DEF PatchNow
<1>7. MirrorOf(new) = Hear(MirrorOf(remote[p]), n)
  BY <1>3, <1>5 DEF MirrorOf, Hear
<1> QED BY <1>3, <1>5, <1>6, <1>7, MirrorOne, ChangeLeads

LEMMA MemberPatchNowLeads ==
  ASSUME IsWorld(remote), IsInbox(inbox), Notified, NEW p \in Parties,
         NEW a \in DOMAIN remote[p].members,
         NEW u, IsMeta(u), NEW r \in SUBSET Keys, MemberPatchNow(p, a, u, r),
         NEW q \in Parties, Self \in DOMAIN remote'[q].members
  PROVE  Self \in DOMAIN remote[q].members /\ Follows(q)
<1>1. a \in Accounts /\ IsRemoteMembers(remote[p].members)
  BY RemoteMembersType DEF IsWorld
<1>2. PICK old : /\ old = remote[p].members[a]
                 /\ old \in [role : {"MEMBER", "CAPTAIN"}, rev : Nat, meta : {old.meta}]
  BY <1>1, RemoteMembersType
<1>3. PICK b : b = [old EXCEPT !.rev = @ + 1, !.meta = Overlay(@, u, r)]
  OBVIOUS
<1>4. b.meta = Overlay(old.meta, u, r) /\ b.rev \in Nat
  BY <1>2, <1>3
<1>5. PICK new : new = [remote[p] EXCEPT !.members[a] = b]
  OBVIOUS
<1>6. PICK ms : ms = [remote[p].members EXCEPT ![a] = b]
  OBVIOUS
<1>7. new.meta = remote[p].meta /\ new.members = ms /\ DOMAIN ms = DOMAIN remote[p].members
  BY <1>5, <1>6 DEF IsWorld
<1>8. Metas(ms) = Put(Metas(remote[p].members), a, Overlay(old.meta, u, r))
  <2>1. \A c \in DOMAIN ms : ms[c] = IF c = a THEN b ELSE remote[p].members[c]
    BY <1>6
  <2> QED BY <1>4, <1>7, <2>1 DEF Metas, Put
<1>9. PICK n : n = [Note("MEMBER_STATE_UPDATED", p, a, b.rev) EXCEPT !.updates = u, !.removed = r]
  OBVIOUS
<1>10. /\ IsNotification(n) /\ n.type = "MEMBER_STATE_UPDATED" /\ n.acct = a
       /\ n.updates = u /\ n.removed = r
  BY <1>1, <1>4, <1>9, ReducerAssumption DEF IsNotification, Note, MaybeAccount
<1>11. Change(p, new, <<n>>)
  BY <1>2, <1>3, <1>5, <1>9 DEF MemberPatchNow
<1>12. MirrorOf(new) = Hear(MirrorOf(remote[p]), n)
  <2>1. a \in DOMAIN Metas(remote[p].members) /\ Metas(remote[p].members)[a] = old.meta
    BY <1>2 DEF Metas
  <2> QED BY <1>7, <1>8, <1>10, <2>1 DEF MirrorOf, Hear
<1> QED BY <1>7, <1>10, <1>11, <1>12, MirrorOne, ChangeLeads

LEMMA EnvironmentLeads ==
  ASSUME WorldOK, Notified, Environment, NEW q \in Parties, Self \in DOMAIN remote'[q].members
  PROVE  Self \in DOMAIN remote[q].members /\ Follows(q)
<1>1. PICK p \in Parties, a \in Accounts \ {Self} :
        \/ OtherJoins(p, a) \/ OtherLeaves(p, a) \/ KickedBy(p, a)
        \/ OtherPromotes(p, a) \/ OtherPatches(p, a) \/ OtherSets(p, a)
  BY DEF Environment
<1>2. IsWorld(remote) /\ IsInbox(inbox)
  BY DEF WorldOK
<1>3. CASE OtherJoins(p, a)
  BY <1>2, <1>3, JoinNowLeads DEF OtherJoins
<1>4. CASE OtherLeaves(p, a)
  BY <1>2, <1>4, GoneNowLeads DEF OtherLeaves
<1>5. CASE KickedBy(p, a)
  BY <1>2, <1>5, GoneNowLeads DEF KickedBy
<1>6. CASE OtherPromotes(p, a)
  BY <1>2, <1>6, PromoteNowLeads DEF OtherPromotes
<1>7. CASE OtherPatches(p, a)
  <2>1. PICK d \in PartyDeltas : PatchNow(p, d.updates, d.removed)
    BY <1>7 DEF OtherPatches
  <2>2. IsPartyMeta(d.updates) /\ d.removed \in SUBSET Keys
    BY ServiceAssumption DEF IsDelta, IsPartyMeta, Keys
  <2> QED BY <1>2, <2>1, <2>2, PatchNowLeads
<1>8. CASE OtherSets(p, a)
  <2>1. PICK d \in MemberDeltas : MemberPatchNow(p, a, d.updates, d.removed)
    BY <1>8 DEF OtherSets
  <2>2. IsMeta(d.updates) /\ d.removed \in SUBSET Keys
    BY ServiceAssumption DEF IsDelta, IsMeta, Keys
  <2> QED BY <1>2, <1>8, <2>1, <2>2, MemberPatchNowLeads DEF OtherSets
<1> QED BY <1>1, <1>3, <1>4, <1>5, <1>6, <1>7, <1>8

-----------------------------------------------------------------------------
(* The notifications under way lead from the copy to the party. *)

\* The cached party once the notification in hand is folded in.
Copy == IF decoding = Idle THEN local ELSE ApplyEvent(local, decoding)

Silence == at = "idle" /\ req = NoReq
Mirrors == /\ Readies(local.members) /\ Readies(Copy.members)
           /\ \A p \in Parties : Self \in DOMAIN remote[p].members =>
                local.id = p /\ Leads(MirrorOf(Copy), inbox, MirrorOf(remote[p]))
Converging == Silence /\ Mirrors

LEMMA ConvergingImplies == TypeInvariant /\ Converging => Converges
<1> SUFFICES ASSUME TypeInvariant, Converging, Settled
             PROVE  LET r == remote[local.id] IN
                    /\ local.meta = r.meta
                    /\ DOMAIN local.members = DOMAIN r.members
                    /\ \A a \in DOMAIN r.members :
                         /\ local.members[a].meta = r.members[a].meta
                         /\ local.members[a].ready = extractReady(Lookup(r.members[a].meta, "LobbyState"))
  BY DEF Converges
<1>1. PICK p \in Parties : p = local.id /\ Self \in DOMAIN remote[p].members
  <2>1. local.id \in MaybeParty /\ local.id # ""
    BY DEF TypeInvariant, CacheOK, IsParty, Settled, InLocalParty
  <2> QED BY <2>1 DEF MaybeParty, Settled, InLocalParty
<1>2. Leads(MirrorOf(local), <<>>, MirrorOf(remote[p])) /\ Readies(local.members)
  BY <1>1 DEF Converging, Mirrors, Copy, Settled
<1>3. MirrorOf(remote[p]) = MirrorOf(local)
  BY <1>2, EmptyInbox, LeadsNowhere
<1>4. local.meta = remote[p].meta /\ Metas(local.members) = Metas(remote[p].members)
  BY <1>3 DEF MirrorOf
<1>5. /\ DOMAIN local.members = DOMAIN remote[p].members
      /\ \A a \in DOMAIN remote[p].members : local.members[a].meta = remote[p].members[a].meta
  <2>1. \A a \in DOMAIN remote[p].members : Metas(remote[p].members)[a] = remote[p].members[a].meta
    BY DEF Metas
  <2>2. \A a \in DOMAIN local.members : Metas(local.members)[a] = local.members[a].meta
    BY DEF Metas
  <2> QED BY <1>4, <2>1, <2>2, MetasOf
<1> QED BY <1>1, <1>2, <1>4, <1>5 DEF Readies, IsReady

LEMMA ConvergingInit == ASSUME Synced PROVE Init => Converging
<1> SUFFICES ASSUME Init PROVE Converging
  OBVIOUS
<1>1. Silence /\ inbox = <<>> /\ Copy = local
  BY DEF Init, Silence, Copy
<1>2. IsWorld(remote)
  BY SyncAssumption DEF Init
<1>3. CASE Home(remote, Self) = ""
  <2>1. local = EmptyParty
    BY <1>3 DEF Init
  <2>2. Readies(local.members)
    BY <2>1 DEF EmptyParty, Nothing, Readies
  <2>3. \A p \in Parties : Self \notin DOMAIN remote[p].members
    BY <1>3, HomeType
  <2> QED BY <1>1, <2>2, <2>3 DEF Converging, Mirrors
<1>4. CASE Home(remote, Self) # ""
  <2>1. PICK h \in Parties : h = Home(remote, Self)
    BY <1>4, HomeType
  <2>2. local = mapRemoteParty(ViewOf(h))
    BY <1>4, <2>1 DEF Init
  <2>3. /\ local.id = h /\ local.meta = remote[h].meta
        /\ DOMAIN local.members = DOMAIN remote[h].members
        /\ \A a \in DOMAIN remote[h].members :
             local.members[a].meta = remote[h].members[a].meta /\ IsReady(local.members[a])
    BY <2>2 DEF mapRemoteParty, ViewOf, MemberOf, IsReady
  <2>4. MirrorOf(local) = MirrorOf(remote[h]) /\ Readies(local.members)
    BY <2>3 DEF MirrorOf, Metas, Readies
  <2>5. \A p \in Parties : Self \in DOMAIN remote[p].members => p = h
    <3>1. Self \in DOMAIN remote[h].members
      BY <1>4, <2>1, HomeType
    <3> QED BY <1>2, <3>1 DEF IsWorld
  <2> QED BY <1>1, <2>3, <2>4, <2>5, LeadsEmpty DEF Converging, Mirrors
<1> QED BY <1>3, <1>4

\* The copy hears what the decoder takes.
LEMMA DecodeHears ==
  ASSUME TypeInvariant, Readies(local.members), Readies(Copy.members), Decode
  PROVE  /\ Readies(local'.members) /\ Readies(Copy'.members)
         /\ \/ inbox' = inbox /\ Copy' = Copy
            \/ /\ inbox # <<>> /\ inbox' = Tail(inbox)
               /\ MirrorOf(Copy') = Hear(MirrorOf(Copy), Head(inbox))
<1>1. IsParty(local) /\ IsInbox(inbox)
  BY DEF TypeInvariant, CacheOK, WorldOK
<1>2. CASE Apply
  <2>1. /\ decoding = Idle /\ decoding' = Idle /\ inbox # <<>> /\ inbox' = Tail(inbox)
        /\ Head(inbox).type # "MEMBER_STATE_UPDATED"
        /\ local' = ApplyEvent(local, EventOf(Head(inbox)))
    BY <1>2 DEF Apply, Receive
  <2>2. IsNotification(Head(inbox))
    BY <1>1, <2>1, TailType
  <2>3. Copy = local /\ Copy' = local'
    BY <2>1 DEF Copy
  <2> QED BY <1>1, <2>1, <2>2, <2>3, EventHeard
<1>3. CASE Complete
  <2>1. /\ decoding = Idle /\ inbox # <<>> /\ inbox' = Tail(inbox)
        /\ Head(inbox).type = "MEMBER_STATE_UPDATED"
        /\ decoding' = StateUpdated(Head(inbox)) /\ local' = local
    BY <1>3 DEF Complete, Receive
  <2>2. IsNotification(Head(inbox))
    BY <1>1, <2>1, TailType
  <2>3. decoding' # Idle
    <3>1. decoding'.kind = "updated"
      BY <1>1, <2>1, <2>2, StateUpdatedType
    <3>2. Idle.kind = "idle"
      BY DEF Idle, BlankEvent
    <3> QED BY <3>1, <3>2
  <2>4. Copy = local /\ Copy' = ApplyEvent(local, StateUpdated(Head(inbox)))
    BY <2>1, <2>3 DEF Copy
  <2> QED BY <1>1, <2>1, <2>4, StateUpdatedHeard
<1>4. CASE ApplyCompleted
  <2>1. /\ decoding # Idle /\ decoding' = Idle /\ inbox' = inbox
        /\ local' = ApplyEvent(local, decoding)
    BY <1>4 DEF ApplyCompleted, world
  <2>2. Copy' = Copy /\ local' = Copy
    BY <2>1 DEF Copy
  <2> QED BY <2>1, <2>2
<1> QED BY <1>2, <1>3, <1>4 DEF Decode

LEMMA ConvergingStep ==
  ASSUME Notified, Ops = {}, TypeInvariant, Converging, [Next]_vars
  PROVE  Converging'
<1>1. CASE UNCHANGED vars
  <2>1. Copy' = Copy
    BY <1>1 DEF vars, Copy
  <2> QED BY <1>1, <2>1 DEF vars, world, wire, command, Converging, Silence, Mirrors
<1>2. CASE Client
  BY <1>2 DEF Client, Sync, Ensure, Create, CreateGet, LeaveFirst, Join, JoinGet, JoinHydrate,
              JoinMember, JoinInvite, Request, Leave, Promote, PromoteGet, Hydrate, PatchParty,
              PatchMember, Refresh, RefreshStale, WakeUp, Answered, Converging, Silence
<1>3. CASE Application
  BY <1>3 DEF Application, BeginSync, BeginEnsure, BeginCreate, BeginLeave, BeginJoin,
              BeginJoinMember, BeginJoinInvite, BeginRequest, BeginPromote, BeginSet, Opens, Begin
<1>4. CASE Decode /\ UNCHANGED command
  <2>1. Silence'
    BY <1>4 DEF Converging, Silence, command, Decode, Apply, Complete, ApplyCompleted, Receive, wire
  <2>2. UNCHANGED remote
    BY <1>4 DEF Decode, Apply, Complete, ApplyCompleted, Receive, world
  <2>3. local.id # "" => local'.id = local.id
    BY <1>4, DecodeType DEF TypeInvariant
  <2>4. /\ Readies(local'.members) /\ Readies(Copy'.members)
        /\ \/ inbox' = inbox /\ Copy' = Copy
           \/ /\ inbox # <<>> /\ inbox' = Tail(inbox)
              /\ MirrorOf(Copy') = Hear(MirrorOf(Copy), Head(inbox))
    BY <1>4, DecodeHears DEF Converging, Mirrors
  <2>5. ASSUME NEW p \in Parties, Self \in DOMAIN remote'[p].members
        PROVE  local'.id = p /\ Leads(MirrorOf(Copy'), inbox', MirrorOf(remote'[p]))
    <3>1. local.id = p /\ Leads(MirrorOf(Copy), inbox, MirrorOf(remote[p]))
      BY <2>2, <2>5 DEF Converging, Mirrors
    <3>2. local'.id = p
      BY <2>3, <3>1, ReducerAssumption
    <3>3. IsInbox(inbox)
      BY DEF TypeInvariant, WorldOK
    <3> QED BY <2>2, <2>4, <3>1, <3>2, <3>3, LeadsOn
  <2> QED BY <2>1, <2>4, <2>5 DEF Converging, Mirrors
<1>5. CASE (Serve \/ Lose) /\ UNCHANGED <<local, decoding, command>>
  BY <1>5 DEF Serve, ServeUser, ServeParty, ServeCreate, ServeJoin, ServeLeave, ServePromote,
              ServePartyPatch, ServeMemberPatch, ServePings, ServeIntention, Asked, Lose,
              Converging, Silence, NoReq
<1>6. CASE Environment /\ UNCHANGED <<local, decoding, command>>
  <2>1. Silence'
    BY <1>6 DEF Converging, Silence, command, Environment, OtherJoins, OtherLeaves, KickedBy,
                OtherPromotes, OtherPatches, OtherSets, Acts
  <2>2. local' = local /\ Copy' = Copy
    BY <1>6 DEF Copy
  <2>3. ASSUME NEW p \in Parties, Self \in DOMAIN remote'[p].members
        PROVE  local.id = p /\ Leads(MirrorOf(Copy), inbox', MirrorOf(remote'[p]))
    <3>1. Self \in DOMAIN remote[p].members /\ Follows(p)
      BY <1>6, <2>3, EnvironmentLeads DEF TypeInvariant
    <3>2. local.id = p /\ Leads(MirrorOf(Copy), inbox, MirrorOf(remote[p]))
      BY <3>1 DEF Converging, Mirrors
    <3> QED BY <3>1, <3>2 DEF Follows
  <2> QED BY <2>1, <2>2, <2>3 DEF Converging, Mirrors
<1> QED BY <1>1, <1>2, <1>3, <1>4, <1>5, <1>6 DEF Next, Step

\* As long as notifications alone change the cached party, folding them in one
\* after the other gives it the members, the metadata and the readiness the
\* service has, however late they come and however many are under way
\* (xmpp_decoder.go handleMessage, reducer.go ApplyEvent).
THEOREM CopyConverges ==
  ASSUME Notified, Synced, Ops = {} PROVE Spec => []Converges
<1>1. Init => TypeInvariant /\ Converging
  BY TypeInit, ConvergingInit
<1>2. TypeInvariant /\ Converging /\ [Next]_vars => (TypeInvariant /\ Converging)'
  BY TypeStep, ConvergingStep
<1>3. TypeInvariant /\ Converging => Converges
  BY ConvergingImplies
<1> QED BY <1>1, <1>2, <1>3, PTL DEF Spec

-----------------------------------------------------------------------------
(* The refinement of VersionedCopy.  Documents first: which ones a state   *)
(* of the service, or a cached party, has.                                 *)

LEMMA TruthDocs ==
  ASSUME NEW r
  PROVE  /\ \A d \in DOMAIN TruthOf(r) : \E p \in Parties : d \in {<<p, "party">>, <<p, "self">>}
         /\ \A p \in Parties :
              /\ <<p, "party">> \in DOMAIN TruthOf(r) <=> r[p].rev # 0
              /\ r[p].rev # 0 =>
                   TruthOf(r)[<<p, "party">>] = [rev |-> r[p].rev, meta |-> r[p].meta]
              /\ <<p, "self">> \in DOMAIN TruthOf(r)
                   <=> r[p].rev # 0 /\ Self \in DOMAIN r[p].members
              /\ r[p].rev # 0 /\ Self \in DOMAIN r[p].members =>
                   TruthOf(r)[<<p, "self">>] =
                     [rev |-> r[p].members[Self].rev, meta |-> r[p].members[Self].meta]
<1>1. DOMAIN TruthOf(r) = {e \in Documents : r[e[1]].rev # 0 /\ Has(r[e[1]], e[2])}
  BY DEF TruthOf
<1>2. \A d \in DOMAIN TruthOf(r) : TruthOf(r)[d] = Document(r[d[1]], d[2])
  BY DEF TruthOf
<1>3. \A d \in Documents : \E p \in Parties : d \in {<<p, "party">>, <<p, "self">>}
  BY DEF Documents
<1>4. ASSUME NEW p \in Parties
      PROVE  /\ <<p, "party">> \in Documents /\ <<p, "self">> \in Documents
             /\ <<p, "party">>[1] = p /\ <<p, "party">>[2] = "party"
             /\ <<p, "self">>[1] = p /\ <<p, "self">>[2] = "self"
  BY DEF Documents
<1>5. \A x : /\ Has(x, "party") /\ (Has(x, "self") <=> Self \in DOMAIN x.members)
             /\ Document(x, "party") = [rev |-> x.rev, meta |-> x.meta]
             /\ Document(x, "self") = [rev |-> x.members[Self].rev, meta |-> x.members[Self].meta]
  BY DEF Has, Document
<1>6. ASSUME NEW p \in Parties
      PROVE  /\ <<p, "party">> \in DOMAIN TruthOf(r) <=> r[p].rev # 0
             /\ <<p, "self">> \in DOMAIN TruthOf(r)
                   <=> r[p].rev # 0 /\ Self \in DOMAIN r[p].members
  BY <1>1, <1>4, <1>5
<1>7. ASSUME NEW p \in Parties, r[p].rev # 0
      PROVE  TruthOf(r)[<<p, "party">>] = [rev |-> r[p].rev, meta |-> r[p].meta]
  BY <1>2, <1>4, <1>5, <1>6, <1>7
<1>8. ASSUME NEW p \in Parties, r[p].rev # 0, Self \in DOMAIN r[p].members
      PROVE  TruthOf(r)[<<p, "self">>] =
               [rev |-> r[p].members[Self].rev, meta |-> r[p].members[Self].meta]
  BY <1>2, <1>4, <1>5, <1>6, <1>8
<1> QED BY <1>1, <1>3, <1>6, <1>7, <1>8

LEMMA CopyDocs ==
  ASSUME NEW c
  PROVE  /\ \A d \in DOMAIN CopyOf(c) :
              c.id \in Parties /\ d \in {<<c.id, "party">>, <<c.id, "self">>}
         /\ c.id \in Parties =>
              /\ <<c.id, "party">> \in DOMAIN CopyOf(c)
              /\ CopyOf(c)[<<c.id, "party">>] = [rev |-> c.rev, meta |-> c.meta]
              /\ <<c.id, "self">> \in DOMAIN CopyOf(c) <=> Self \in DOMAIN c.members
              /\ Self \in DOMAIN c.members =>
                   CopyOf(c)[<<c.id, "self">>] =
                     [rev |-> c.members[Self].rev, meta |-> c.members[Self].meta]
<1>1. DOMAIN CopyOf(c) = {e \in Documents : e[1] = c.id /\ Has(c, e[2])}
  BY DEF CopyOf
<1>2. \A d \in DOMAIN CopyOf(c) : CopyOf(c)[d] = Document(c, d[2])
  BY DEF CopyOf
<1>3. \A d \in Documents : d[1] \in Parties /\ d \in {<<d[1], "party">>, <<d[1], "self">>}
  BY DEF Documents
<1>4. /\ \A p \in Parties : <<p, "party">> \in Documents /\ <<p, "self">> \in Documents
      /\ \A p : /\ <<p, "party">>[1] = p /\ <<p, "party">>[2] = "party"
                /\ <<p, "self">>[1] = p /\ <<p, "self">>[2] = "self"
  BY DEF Documents
<1>5. /\ Has(c, "party") /\ (Has(c, "self") <=> Self \in DOMAIN c.members)
      /\ Document(c, "party") = [rev |-> c.rev, meta |-> c.meta]
      /\ Document(c, "self") = [rev |-> c.members[Self].rev, meta |-> c.members[Self].meta]
  BY DEF Has, Document
<1>6. c.id \in Parties => /\ <<c.id, "party">> \in DOMAIN CopyOf(c)
                          /\ <<c.id, "self">> \in DOMAIN CopyOf(c) <=> Self \in DOMAIN c.members
  BY <1>1, <1>4, <1>5
<1>7. c.id \in Parties => CopyOf(c)[<<c.id, "party">>] = [rev |-> c.rev, meta |-> c.meta]
  BY <1>2, <1>4, <1>5, <1>6
<1>8. c.id \in Parties /\ Self \in DOMAIN c.members =>
        CopyOf(c)[<<c.id, "self">>] = [rev |-> c.members[Self].rev, meta |-> c.members[Self].meta]
  BY <1>2, <1>4, <1>5, <1>6
<1> QED BY <1>1, <1>3, <1>6, <1>7, <1>8

\* c is not newer than the party (or copy) x.
NotNewer(c, x) ==
  /\ c.rev <= x.rev /\ (c.rev = x.rev => c.meta = x.meta)
  /\ Self \in DOMAIN c.members \cap DOMAIN x.members =>
       /\ c.members[Self].rev <= x.members[Self].rev
       /\ c.members[Self].rev = x.members[Self].rev
            => c.members[Self].meta = x.members[Self].meta

LEMMA UpToFields ==
  ASSUME NEW a, NEW b, NEW m, NEW n, a <= b, a = b => m = n
  PROVE  Versioned!UpTo([rev |-> a, meta |-> m], [rev |-> b, meta |-> n])
BY DEF Versioned!UpTo

LEMMA CopyBehindTruth ==
  ASSUME NEW c, NEW r, c.id # "" => NotNewer(c, r[c.id])
  PROVE  Versioned!Behind(CopyOf(c), TruthOf(r))
<1> SUFFICES ASSUME NEW d \in DOMAIN CopyOf(c) \cap DOMAIN TruthOf(r)
             PROVE  Versioned!UpTo(CopyOf(c)[d], TruthOf(r)[d])
  BY DEF Versioned!Behind
<1>1. c.id \in Parties /\ d \in {<<c.id, "party">>, <<c.id, "self">>}
  BY CopyDocs
<1>2. NotNewer(c, r[c.id])
  BY <1>1, ReducerAssumption
<1>3. CASE d = <<c.id, "party">>
  <2>1. CopyOf(c)[d] = [rev |-> c.rev, meta |-> c.meta]
    BY <1>1, <1>3, CopyDocs
  <2>2. TruthOf(r)[d] = [rev |-> r[c.id].rev, meta |-> r[c.id].meta]
    BY <1>1, <1>3, TruthDocs
  <2> QED BY <1>2, <2>1, <2>2, UpToFields DEF NotNewer
<1>4. CASE d = <<c.id, "self">>
  <2>1. Self \in DOMAIN c.members /\ Self \in DOMAIN r[c.id].members
    BY <1>1, <1>4, CopyDocs, TruthDocs
  <2>2. CopyOf(c)[d] = [rev |-> c.members[Self].rev, meta |-> c.members[Self].meta]
    BY <1>1, <1>4, <2>1, CopyDocs
  <2>3. TruthOf(r)[d] = [rev  |-> r[c.id].members[Self].rev,
                         meta |-> r[c.id].members[Self].meta]
    <3>1. PICK p \in Parties : p = c.id
      BY <1>1
    <3>4. <<p, "self">> \in DOMAIN TruthOf(r)
      BY <1>4, <3>1
    <3>2. r[p].rev # 0 /\ Self \in DOMAIN r[p].members
      BY <3>4, TruthDocs
    <3>3. TruthOf(r)[<<p, "self">>] = [rev |-> r[p].members[Self].rev,
                                       meta |-> r[p].members[Self].meta]
      BY <3>2, TruthDocs
    <3> QED BY <1>4, <3>1, <3>3
  <2> QED BY <1>2, <2>1, <2>2, <2>3, UpToFields DEF NotNewer
<1> QED BY <1>1, <1>3, <1>4

LEMMA CopyBehindCopy ==
  ASSUME NEW b, NEW c, b.id # "" /\ b.id = c.id => NotNewer(b, c)
  PROVE  Versioned!Behind(CopyOf(b), CopyOf(c))
<1> SUFFICES ASSUME NEW d \in DOMAIN CopyOf(b) \cap DOMAIN CopyOf(c)
             PROVE  Versioned!UpTo(CopyOf(b)[d], CopyOf(c)[d])
  BY DEF Versioned!Behind
<1>1. /\ b.id \in Parties /\ d \in {<<b.id, "party">>, <<b.id, "self">>}
      /\ c.id \in Parties /\ d \in {<<c.id, "party">>, <<c.id, "self">>}
  BY CopyDocs
<1>2. b.id = c.id
  <2>1. /\ <<b.id, "party">>[1] = b.id /\ <<b.id, "self">>[1] = b.id
        /\ <<c.id, "party">>[1] = c.id /\ <<c.id, "self">>[1] = c.id
    OBVIOUS
  <2> QED BY <1>1, <2>1
<1>3. NotNewer(b, c)
  BY <1>1, <1>2, ReducerAssumption
<1>4. CASE d = <<b.id, "party">>
  <2>1. /\ CopyOf(b)[d] = [rev |-> b.rev, meta |-> b.meta]
        /\ CopyOf(c)[d] = [rev |-> c.rev, meta |-> c.meta]
    BY <1>1, <1>2, <1>4, CopyDocs
  <2> QED BY <1>3, <2>1, UpToFields DEF NotNewer
<1>5. CASE d = <<b.id, "self">>
  <2>1. Self \in DOMAIN b.members /\ Self \in DOMAIN c.members
    BY <1>1, <1>2, <1>5, CopyDocs
  <2>2. /\ CopyOf(b)[d] = [rev |-> b.members[Self].rev, meta |-> b.members[Self].meta]
        /\ CopyOf(c)[d] = [rev |-> c.members[Self].rev, meta |-> c.members[Self].meta]
    BY <1>1, <1>2, <1>5, <2>1, CopyDocs
  <2> QED BY <1>3, <2>1, <2>2, UpToFields DEF NotNewer
<1> QED BY <1>1, <1>4, <1>5

\* Whatever grows is behind what it becomes, and no document comes that the
\* client has a copy of.
LEMMA GrowthChanges ==
  ASSUME Knows(local), UNCHANGED local, Writing' = Writing,
         \A q \in Parties : Grows(q),
         \A q \in Parties : Enters(q) => q # local.id
  PROVE  Versioned!Change
<1>1. PICK r, s : r = remote /\ s = remote'
  OBVIOUS
<1>2. /\ TruthOf(remote) = TruthOf(r) /\ TruthOf(remote)' = TruthOf(s)
      /\ CopyOf(local)' = CopyOf(local)
  BY <1>1 DEF TruthOf, CopyOf
<1>3. \A q \in Parties : NotNewer(r[q], s[q])
  BY <1>1 DEF Grows, NotNewer
<1>4. ASSUME NEW d \in DOMAIN TruthOf(r) \cap DOMAIN TruthOf(s)
      PROVE  Versioned!UpTo(TruthOf(r)[d], TruthOf(s)[d])
  <2>1. PICK q \in Parties : d \in {<<q, "party">>, <<q, "self">>}
    BY TruthDocs
  <2>2. CASE d = <<q, "party">>
    <3>1. /\ TruthOf(r)[d] = [rev |-> r[q].rev, meta |-> r[q].meta]
          /\ TruthOf(s)[d] = [rev |-> s[q].rev, meta |-> s[q].meta]
      BY <2>2, TruthDocs
    <3> QED BY <1>3, <3>1, UpToFields DEF NotNewer
  <2>3. CASE d = <<q, "self">>
    <3>1. Self \in DOMAIN r[q].members /\ Self \in DOMAIN s[q].members
      BY <2>3, TruthDocs
    <3>2. /\ TruthOf(r)[d] = [rev |-> r[q].members[Self].rev, meta |-> r[q].members[Self].meta]
          /\ TruthOf(s)[d] = [rev |-> s[q].members[Self].rev, meta |-> s[q].members[Self].meta]
      BY <2>3, TruthDocs
    <3> QED BY <1>3, <3>1, <3>2, UpToFields DEF NotNewer
  <2> QED BY <2>1, <2>2, <2>3
<1>5. ASSUME NEW d \in DOMAIN TruthOf(s) \ DOMAIN TruthOf(r), d \in DOMAIN CopyOf(local)
      PROVE  FALSE
  <2>1. local.id \in Parties /\ d \in {<<local.id, "party">>, <<local.id, "self">>}
    BY <1>5, CopyDocs
  <2>2. r[local.id].rev # 0 /\ ~Enters(local.id)
    BY <1>1, <2>1, ReducerAssumption DEF Knows
  <2>3. CASE d = <<local.id, "party">>
    BY <1>5, <2>1, <2>2, <2>3, TruthDocs
  <2>4. CASE d = <<local.id, "self">>
    BY <1>1, <1>5, <2>1, <2>2, <2>4, TruthDocs DEF Enters
  <2> QED BY <2>1, <2>3, <2>4
<1> QED BY <1>2, <1>4, <1>5 DEF Versioned!Change, Versioned!Behind

\* Where a command stands, the cached party is what it has to be for the
\* next one not to be older: it is none while a joined party is asked for,
\* the snapshot of the patch under way, and never newer than an answer.
Steady ==
  /\ local.id # "" /\ ans.view.id = local.id => NotNewer(local, ans.view)
  /\ at \in {"joinGet", "joinHydrate"} => local.id = ""
  /\ at \in {"hydrate", "partyPatch", "memberPatch"} => plan.snap = local

LEMMA NoAnswerFresh ==
  ASSUME NEW c, NEW v, v.id = ""
  PROVE  c.id # "" /\ v.id = c.id => NotNewer(c, v)
OBVIOUS

LEMMA SteadyInit == Init => Steady
<1> SUFFICES ASSUME Init PROVE Steady
  OBVIOUS
<1>1. ans.view.id = "" /\ at = "idle"
  BY NobodyKnows DEF Init, Pending
<1> QED BY <1>1 DEF Steady

\* A step of a command leaves the cache as it was, empties it, or fills it
\* from the answer; what was fetched before fills an empty cache only.
Refills == \/ local' \in {local, EmptyParty, Fetched} \/ Promoted
           \/ at = "joinHydrate"

LEMMA PatchSteady ==
  ASSUME NEW o, NEW s, NEW attempt, Patch(o, s, attempt)
  PROVE  /\ at' \in {"idle", "partyPatch", "memberPatch"}
         /\ at' # "idle" => plan'.snap = s
<1>1. PICK member \in MemberUpdates(o.intent.member, s.members[Self].meta) :
        LET party == Differing(o.intent.party, s.meta)
        IN  IF party = Nothing /\ member = Nothing THEN Return("nil")
            ELSE /\ plan' = [snap |-> s, member |-> member, attempt |-> attempt]
                 /\ IF party # Nothing
                    THEN Call("partyPatch", PartyPatch(s, party))
                    ELSE Call("memberPatch", MemberPatch(s, member))
  BY DEF Patch
<1>2. CASE Return("nil")
  BY <1>2 DEF Return
<1>3. CASE ~Return("nil")
  BY <1>1, <1>3 DEF Call
<1> QED BY <1>2, <1>3

LEMMA TrySteady ==
  ASSUME NEW o, NEW attempt, Try(o, attempt)
  PROVE  /\ at' \in {"idle", "hydrate", "partyPatch", "memberPatch"}
         /\ at' # "idle" => plan'.snap = local
<1>1. CASE Return("ErrPartyNotFound")
  BY <1>1 DEF Return
<1>2. CASE plan' = [NoPlan EXCEPT !.snap = local, !.attempt = attempt] /\ Call("hydrate", GetUser(Self))
  BY <1>2 DEF Call, NoPlan
<1>3. CASE Patch(o, local, attempt)
  BY <1>3, PatchSteady
<1> QED BY <1>1, <1>2, <1>3 DEF Try

LEMMA JoinLockedSteady ==
  ASSUME NEW o, NEW p, JoinLocked(o, p)
  PROVE  at' \in {"idle", "leaveFirst", "join"} /\ local' = local
BY DEF JoinLocked, Return, Call

\* Where the waits in question are reached.
Calm == /\ at' \in {"joinGet", "joinHydrate"} => local'.id = ""
        /\ at' \in {"hydrate", "partyPatch", "memberPatch"} => plan'.snap = local'
        /\ Refills

LEMMA ReturnCalm ==
  ASSUME NEW err, Return(err), Refills
  PROVE  Calm
BY DEF Return, Calm

LEMMA CallCalm ==
  ASSUME NEW l, NEW r, Call(l, r), Refills,
         l \notin {"joinGet", "joinHydrate", "hydrate", "partyPatch", "memberPatch"}
  PROVE  Calm
BY DEF Call, Calm

LEMMA ClientCalm ==
  ASSUME Known, Steady, Client
  PROVE  Calm
<1>1. CASE Sync
  BY <1>1, ReturnCalm DEF Sync, Refills
<1>2. CASE Ensure
  BY <1>2, ReturnCalm, CallCalm DEF Ensure, Refills
<1>3. CASE Create \/ CreateGet
  BY <1>3, ReturnCalm, CallCalm DEF Create, CreateGet, Created, Refills
<1>4. CASE LeaveFirst
  BY <1>4, ReturnCalm, CallCalm DEF LeaveFirst, Refills
<1>5. CASE Join
  <2>1. at = "join" /\ local' = local /\ local.id = ""
    BY <1>5 DEF Join, Answered, Known
  <2>2. ASSUME Call("joinGet", Get(op.party)) PROVE Calm
    BY <2>1, <2>2 DEF Call, Calm, Refills
  <2> QED BY <1>5, <2>1, <2>2, ReturnCalm DEF Join, Refills
<1>6. CASE JoinGet
  <2>1. at = "joinGet" /\ local.id = ""
    BY <1>6 DEF JoinGet, Answered, Steady
  <2>2. ASSUME Call("joinHydrate", GetUser(Self)), local' = local PROVE Calm
    BY <2>1, <2>2 DEF Call, Calm, Refills
  <2> QED BY <1>6, <2>1, <2>2, ReturnCalm DEF JoinGet, Refills
<1>7. CASE JoinHydrate
  BY <1>7, ReturnCalm DEF JoinHydrate, Answered, Refills
<1>8. CASE JoinMember \/ JoinInvite
  <2>1. ASSUME NEW p, JoinLocked(op, p) PROVE Calm
    BY <2>1, JoinLockedSteady DEF Calm, Refills
  <2>2. ASSUME NEW err, Return(err), local' = local PROVE Calm
    BY <2>2, ReturnCalm DEF Refills
  <2> QED BY <1>8, <2>1, <2>2 DEF JoinMember, JoinInvite
<1>9. CASE Request
  BY <1>9, ReturnCalm DEF Request, Refills
<1>10. CASE Leave
  BY <1>10, ReturnCalm, CallCalm DEF Leave, Refills
<1>11. CASE Promote
  BY <1>11, ReturnCalm, CallCalm DEF Promote, Refills
<1>12. CASE PromoteGet
  <2>1. CASE Return("nil") /\ local' = [Fetched EXCEPT !.captain = OrElse(Fetched.captain, op.acct)]
    <3>1. local'.captain = OrElse(Fetched.captain, op.acct)
      BY <2>1 DEF mapRemoteParty, Fetched
    <3> QED BY <2>1, <3>1, ReturnCalm DEF Refills, Promoted
  <2> QED BY <1>12, <2>1, ReturnCalm DEF PromoteGet, Refills
<1>13. CASE Hydrate
  <2>1. ASSUME Patch(op, Fetched, plan.attempt), local' = Fetched PROVE Calm
    BY <2>1, PatchSteady DEF Calm, Refills
  <2> QED BY <1>13, <2>1, ReturnCalm DEF Hydrate, Refills
<1>14. CASE PatchParty
  <2>1. at = "partyPatch" /\ local' = local /\ plan.snap = local
    BY <1>14 DEF PatchParty, Answered, Steady
  <2>2. ASSUME NEW r, Call("memberPatch", r), UNCHANGED plan PROVE Calm
    BY <2>1, <2>2 DEF Call, Calm, Refills
  <2> QED BY <1>14, <2>1, <2>2, ReturnCalm, CallCalm DEF PatchParty, Refills
<1>15. CASE PatchMember
  BY <1>15, ReturnCalm, CallCalm DEF PatchMember, Refills
<1>16. CASE Refresh
  BY <1>16, ReturnCalm DEF Refresh, Refills
<1>17. CASE RefreshStale
  <2>1. ASSUME Sleep, Refills PROVE Calm
    BY <2>1 DEF Sleep, Calm
  <2> QED BY <1>17, <2>1, ReturnCalm DEF RefreshStale, Refills
<1>18. CASE WakeUp
  <2>1. ASSUME Try(op, plan.attempt), local' = local PROVE Calm
    BY <2>1, TrySteady DEF Calm, Refills
  <2> QED BY <1>18, <2>1, ReturnCalm DEF WakeUp, Refills
<1> QED BY <1>1, <1>2, <1>3, <1>4, <1>5, <1>6, <1>7, <1>8, <1>9, <1>10, <1>11, <1>12,
           <1>13, <1>14, <1>15, <1>16, <1>17, <1>18 DEF Client

LEMMA ApplicationCalm ==
  ASSUME Application
  PROVE  Calm
<1>1. CASE BeginSync \/ BeginEnsure \/ BeginCreate
  BY <1>1, CallCalm DEF BeginSync, BeginEnsure, BeginCreate, Opens, Refills
<1>2. CASE BeginLeave
  BY <1>2, ReturnCalm, CallCalm DEF BeginLeave, Opens, Refills
<1>3. ASSUME NEW p, BeginJoin(p) PROVE Calm
  BY <1>3, JoinLockedSteady DEF BeginJoin, Calm, Refills
<1>4. ASSUME NEW a, BeginJoinMember(a) \/ BeginJoinInvite(a) \/ BeginRequest(a) PROVE Calm
  BY <1>4, CallCalm DEF BeginJoinMember, BeginJoinInvite, BeginRequest, Opens, Refills
<1>5. ASSUME NEW p, NEW a, BeginPromote(p, a) PROVE Calm
  <2>1. local' = local /\ (Return("ErrPartyNotFound") \/ \E r : Call("promote", r))
    BY <1>5 DEF BeginPromote, Opens
  <2> QED BY <2>1, ReturnCalm, CallCalm DEF Refills
<1>6. ASSUME NEW i, BeginSet(i) PROVE Calm
  BY <1>6, TrySteady DEF BeginSet, Opens, Calm, Refills
<1> QED BY <1>1, <1>2, <1>3, <1>4, <1>5, <1>6 DEF Application

\* The service answers with a party as it is, less this account perhaps, or
\* with one it has just created.

\* The service answers with a party as it is, less this account perhaps, or
\* with one it has just created.
Reported(p) == {ViewOf(p), [ViewOf(p) EXCEPT !.members = Drop(@, {Self})]}

LEMMA ServeReports ==
  ASSUME WorldOK, WireOK, Serve
  PROVE  \/ ans'.view = NoView
         \/ \E p \in Parties : ans'.view \in Reported(p)
         \/ \E p \in Parties : remote[p].rev = 0 /\ ans'.view.id = p
<1>1. ASSUME NEW st, NEW view, Reply(st, view) PROVE ans'.view \in {view, NoView}
  BY <1>1, ReplyView
<1>2. ASSUME NEW st, Refuse(st) PROVE ans'.view = NoView
  BY <1>1, <1>2 DEF Refuse
<1>3. ASSUME NEW p, p = Home(remote, req.acct), Report(IF p = "" THEN NoView ELSE ViewOf(p))
      PROVE  ans'.view = NoView \/ \E q \in Parties : ans'.view \in Reported(q)
  <2>1. p = "" \/ p \in Parties
    BY <1>3, HomeType
  <2>2. CASE p = ""
    BY <1>1, <1>3, <2>2 DEF Report
  <2>3. CASE p \in Parties /\ p # ""
    <3>1. Reply("ok", ViewOf(p))
      BY <1>3, <2>3 DEF Report
    <3>2. ans'.view \in {ViewOf(p), NoView}
      BY <1>1, <3>1
    <3> QED BY <2>3, <3>2 DEF Reported
  <2> QED BY <2>1, <2>2, <2>3
<1>4. CASE ServeUser
  BY <1>2, <1>3, <1>4 DEF ServeUser
<1>5. CASE ServeParty
  <2>1. req.party \in Parties
    BY <1>5 DEF ServeParty, Asked, WireOK, IsRequest, MaybeParty
  <2>2. ASSUME NEW v \in Reported(req.party), Report(v)
        PROVE  \E p \in Parties : ans'.view \in Reported(p) \/ ans'.view = NoView
    <3>1. ans'.view \in {v, NoView}
      BY <1>1, <2>2 DEF Report
    <3> QED BY <2>1, <2>2, <3>1
  <2>3. \/ Refuse("notFound") \/ Report(ViewOf(req.party))
        \/ Report([ViewOf(req.party) EXCEPT !.members = Drop(@, {Self})])
    BY <1>5 DEF ServeParty
  <2>4. /\ ViewOf(req.party) \in Reported(req.party)
        /\ [ViewOf(req.party) EXCEPT !.members = Drop(@, {Self})] \in Reported(req.party)
    BY DEF Reported
  <2> QED BY <1>2, <2>2, <2>3, <2>4
<1>6. CASE ServeCreate
  <2>1. CASE Home(remote, Self) # "" \/ Fresh = {}
    BY <1>2, <1>6, <2>1 DEF ServeCreate
  <2>2. CASE Home(remote, Self) = "" /\ Fresh # {}
    <3>1. PICK p : p = CHOOSE q \in Fresh : TRUE
      OBVIOUS
    <3>2. p \in Parties /\ remote[p].rev = 0
      BY <2>2, <3>1 DEF Fresh
    <3>3. Reply("ok", NewParty(p))
      BY <1>6, <2>2, <3>1 DEF ServeCreate
    <3>4. NewParty(p).id = p
      BY DEF NewParty
    <3> QED BY <1>1, <3>2, <3>3, <3>4
  <2> QED BY <2>1, <2>2
<1>7. CASE ServeJoin \/ ServeLeave \/ ServePromote
  BY <1>1, <1>2, <1>7 DEF ServeJoin, ServeLeave, ServePromote
<1>8. CASE ServePartyPatch \/ ServeMemberPatch
  BY <1>1, <1>2, <1>8 DEF ServePartyPatch, ServeMemberPatch
<1>9. CASE ServePings
  BY <1>3, <1>9 DEF ServePings
<1>10. CASE ServeIntention
  BY <1>1, <1>10 DEF ServeIntention, Report
<1> QED BY <1>4, <1>5, <1>6, <1>7, <1>8, <1>9, <1>10 DEF Serve

\* Hence no answer is older than the cache.
LEMMA ServeFresh ==
  ASSUME WorldOK, WireOK, Knows(local), Serve
  PROVE  local.id # "" /\ ans'.view.id = local.id => NotNewer(local, ans'.view)
<1> SUFFICES ASSUME local.id # "", ans'.view.id = local.id
             PROVE  NotNewer(local, ans'.view)
  OBVIOUS
<1>1. ans'.view # NoView
  BY NobodyKnows
<1>2. remote[local.id].rev # 0 /\ NotNewer(local, remote[local.id])
  BY DEF Knows, NotNewer
<1>3. PICK p \in Parties : ans'.view \in Reported(p)
  BY <1>1, <1>2, ServeReports
<1>4. PICK v : v = ans'.view
  OBVIOUS
<1>5. /\ v.id = p /\ v.rev = remote[p].rev /\ v.meta = remote[p].meta
      /\ Self \in DOMAIN v.members => v.members = remote[p].members
  <2>1. CASE v = ViewOf(p)
    BY <2>1 DEF ViewOf
  <2>2. CASE v = [ViewOf(p) EXCEPT !.members = Drop(remote[p].members, {Self})]
    BY <2>2 DEF ViewOf, Drop
  <2>3. v \in {ViewOf(p), [ViewOf(p) EXCEPT !.members = Drop(@, {Self})]}
    BY <1>3, <1>4 DEF Reported
  <2>4. ViewOf(p).members = remote[p].members
    BY DEF ViewOf
  <2> QED BY <2>1, <2>2, <2>3, <2>4
<1>6. NotNewer(local, v)
  BY <1>2, <1>4, <1>5 DEF NotNewer
<1> QED BY <1>4, <1>6

LEMMA SteadyStep ==
  ASSUME ~Notified, TypeInvariant, Known, Steady, [Next]_vars
  PROVE  Steady'
<1>1. CASE UNCHANGED vars
  BY <1>1 DEF vars, command, world, wire, Steady, NotNewer
<1>2. CASE Client \/ Application
  <2>1. Calm
    BY <1>2, ClientCalm, ApplicationCalm
  <2>2. ans'.view.id = ""
    BY <1>2, ClientMoves, ApplicationMoves, NoAnswer DEF Moves, TypeInvariant
  <2>3. ~(local'.id # "" /\ ans'.view.id = local'.id)
    BY <2>2
  <2> QED BY <2>1, <2>3 DEF Calm, Steady
<1>3. CASE Decode
  BY <1>3 DEF Decode, Apply, Complete, ApplyCompleted, Receive, Known
<1>4. CASE (Serve \/ Lose \/ Environment) /\ UNCHANGED <<local, decoding, command>>
  <2>1. UNCHANGED <<local, plan, at>>
    BY <1>4 DEF command
  <2>2. local.id # "" /\ ans'.view.id = local.id => NotNewer(local, ans'.view)
    <3>1. CASE Serve
      BY <3>1, ServeFresh DEF TypeInvariant, StepOK, Known, Copies
    <3>2. CASE Lose
      BY <3>2, NobodyKnows DEF Lose, Failed
    <3>3. CASE Environment
      <4>1. ans' = ans
        BY <3>3 DEF Environment, OtherJoins, OtherLeaves, KickedBy, OtherPromotes,
                    OtherPatches, OtherSets, Acts
      <4> QED BY <4>1 DEF Steady
    <3> QED BY <1>4, <3>1, <3>2, <3>3
  <2> QED BY <2>1, <2>2 DEF Steady, NotNewer
<1> QED BY <1>1, <1>2, <1>3, <1>4 DEF Next, Step

\* Parties stay behind what a request makes of them, and this account enters
\* no party that it has a copy of.
LEMMA ServeGrows ==
  ASSUME TypeInvariant, Known, Serve
  PROVE  /\ \A q \in Parties : Grows(q)
         /\ \A q \in Parties : Enters(q) => q # local.id
<1>1. /\ IsWorld(remote) /\ WireOK /\ at \in Labels /\ Wired(at, op, plan, req)
  BY DEF TypeInvariant, WorldOK, StepOK, CommandOK, Known, Wiring
<1>2. /\ req.kind \in {"party", "join", "leave", "promote", "partyPatch", "memberPatch"}
           => req.party \in Parties
  BY <1>1 DEF WireOK, IsRequest, MaybeParty
<1>3. ASSUME UNCHANGED remote, NEW q \in Parties PROVE Grows(q) /\ ~Enters(q)
  <2>3. remote[q].rev \in Nat /\ IsRemoteMembers(remote[q].members)
    BY <1>1 DEF IsWorld
  <2>1. remote[q].rev <= remote[q].rev
    BY <2>3
  <2>2. Self \in DOMAIN remote[q].members => remote[q].members[Self].rev <= remote[q].members[Self].rev
    BY <2>3 DEF IsRemoteMembers
  <2> QED BY <1>3, <2>1, <2>2 DEF Grows, Enters
<1>4. ASSUME NEW st, Refuse(st) PROVE \A q \in Parties : Grows(q) /\ ~Enters(q)
  BY <1>3, <1>4 DEF Refuse
<1>5. CASE ServeUser \/ ServeParty \/ ServePings \/ ServeIntention
  BY <1>3, <1>5 DEF ServeUser, ServeParty, ServePings, ServeIntention, Refuse, Report
<1>6. CASE ServeCreate
  <2>1. CASE Home(remote, Self) # "" \/ Fresh = {}
    BY <1>4, <1>6, <2>1 DEF ServeCreate
  <2>2. CASE Home(remote, Self) = "" /\ Fresh # {}
    <3>1. PICK p : p = CHOOSE q \in Fresh : TRUE
      OBVIOUS
    <3>2. p \in Parties /\ remote[p].rev = 0
      BY <2>2, <3>1 DEF Fresh
    <3>3. JoinNow(p, Self)
      BY <1>6, <2>2, <3>1 DEF ServeCreate
    <3>4. Self \notin DOMAIN remote[p].members /\ Self \in Accounts
      BY <2>2, <3>2, HomeType, ServiceAssumption
    <3>5. p # local.id
      BY <3>2, ReducerAssumption DEF Known, Copies, Knows
    <3> QED BY <1>1, <3>2, <3>3, <3>4, <3>5, JoinNowGrows
  <2> QED BY <2>1, <2>2
<1>7. CASE ServeJoin
  <2>1. CASE DOMAIN remote[req.party].members = {} \/ Home(remote, Self) # ""
    BY <1>4, <1>7, <2>1 DEF ServeJoin
  <2>2. CASE DOMAIN remote[req.party].members # {} /\ Home(remote, Self) = ""
    <3>1. JoinNow(req.party, Self) /\ req.kind = "join"
      BY <1>7, <2>2 DEF ServeJoin, Asked
    <3>2. local.id = ""
      BY <1>1, <3>1, WiredKinds DEF Known
    <3>3. req.party \in Parties /\ Self \notin DOMAIN remote[req.party].members
      BY <1>2, <2>2, <3>1, HomeType
    <3> QED BY <1>1, <3>1, <3>2, <3>3, JoinNowGrows, ServiceAssumption, ReducerAssumption
  <2> QED BY <2>1, <2>2
<1>8. CASE ServeLeave
  <2>1. CASE Self \notin DOMAIN remote[req.party].members
    BY <1>4, <1>8, <2>1 DEF ServeLeave
  <2>2. CASE Self \in DOMAIN remote[req.party].members
    <3>1. GoneNow("MEMBER_LEFT", req.party, Self) /\ req.party \in Parties
      BY <1>2, <1>8, <2>2 DEF ServeLeave, Asked
    <3> QED BY <1>1, <2>2, <3>1, GoneNowGrows
  <2> QED BY <2>1, <2>2
<1>9. CASE ServePromote
  <2>1. req.party \in Parties
    BY <1>2, <1>9 DEF ServePromote, Asked
  <2>2. \/ Refuse("noParty") \/ Refuse("forbidden") \/ Refuse("notFound")
        \/ PromoteNow(req.party, req.acct)
    BY <1>9 DEF ServePromote
  <2> QED BY <1>1, <1>4, <2>1, <2>2, PromoteNowGrows
<1>10. CASE ServePartyPatch
  <2>1. req.party \in Parties
    BY <1>2, <1>10 DEF ServePartyPatch, Asked
  <2>2. \/ Refuse("forbidden") \/ Refuse("stale") \/ PatchNow(req.party, req.updates, {})
    BY <1>10 DEF ServePartyPatch
  <2> QED BY <1>1, <1>4, <2>1, <2>2, PatchNowGrows
<1>11. CASE ServeMemberPatch
  <2>1. req.party \in Parties
    BY <1>2, <1>11 DEF ServeMemberPatch, Asked
  <2>2. \/ Refuse("notFound") \/ Refuse("stale")
        \/ /\ Self \in DOMAIN remote[req.party].members
           /\ MemberPatchNow(req.party, Self, req.updates, {})
    BY <1>11 DEF ServeMemberPatch
  <2> QED BY <1>1, <1>4, <2>1, <2>2, MemberPatchNowGrows
<1> QED BY <1>5, <1>6, <1>7, <1>8, <1>9, <1>10, <1>11 DEF Serve

-----------------------------------------------------------------------------
(* The patches. *)

LEMMA ReplyWrites ==
  ASSUME NEW st, st # "pending", NEW view, Reply(st, view), ans = Pending
  PROVE  Writing' \in {{}, Writing}
<1>1. req' = req
  BY DEF Reply
<1>2. CASE ans' = Pending
  BY <1>1, <1>2 DEF Writing, WriteOf
<1>3. CASE ans' = Failed
  BY <1>3 DEF Failed, Pending, Writing
<1>4. CASE ans' = [st |-> st, view |-> view]
  BY <1>4 DEF Pending, Writing
<1> QED BY <1>2, <1>3, <1>4 DEF Reply

\* A patch that is not accepted is refused, or will be served again.
LEMMA RefuseRefuses ==
  ASSUME NEW st, st # "pending", Refuse(st), ans = Pending, UNCHANGED local, Writing # {}
  PROVE  Versioned!Refuse \/ UNCHANGED Versioned!vars
<1>1. Writing' \in {{}, Writing}
  BY ReplyWrites DEF Refuse
<1>2. TruthOf(remote)' = TruthOf(remote) /\ CopyOf(local)' = CopyOf(local)
  BY DEF Refuse, TruthOf, CopyOf
<1> QED BY <1>1, <1>2 DEF Versioned!Refuse, Versioned!vars

\* Two states of the service that differ in one document.
LEMMA OneDocument ==
  ASSUME NEW r, NEW s, NEW d \in DOMAIN TruthOf(r), NEW v,
         DOMAIN TruthOf(s) = DOMAIN TruthOf(r), TruthOf(s)[d] = v,
         \A e \in DOMAIN TruthOf(r) : e # d => TruthOf(s)[e] = TruthOf(r)[e]
  PROVE  TruthOf(s) = [TruthOf(r) EXCEPT ![d] = v]
<1>1. \A e \in DOMAIN TruthOf(r) : TruthOf(s)[e] = [TruthOf(r) EXCEPT ![d] = v][e]
  OBVIOUS
<1>2. /\ TruthOf(s) = [e \in DOMAIN TruthOf(s) |-> TruthOf(s)[e]]
      /\ [TruthOf(r) EXCEPT ![d] = v] = [e \in DOMAIN TruthOf(r) |-> [TruthOf(r) EXCEPT ![d] = v][e]]
  BY DEF TruthOf
<1> QED BY <1>1, <1>2

LEMMA DocumentParts ==
  ASSUME NEW e \in Documents
  PROVE  e[1] \in Parties /\ e[2] \in {"party", "self"} /\ e = <<e[1], e[2]>>
BY DEF Documents

LEMMA TruthFunction ==
  ASSUME NEW r
  PROVE  /\ DOMAIN TruthOf(r) = {e \in Documents : r[e[1]].rev # 0 /\ Has(r[e[1]], e[2])}
         /\ \A e \in DOMAIN TruthOf(r) : e \in Documents /\ TruthOf(r)[e] = Document(r[e[1]], e[2])
BY DEF TruthOf

LEMMA SwapsParty ==
  ASSUME NEW r, NEW s, NEW p \in Parties, r[p].rev # 0, s[p].rev # 0,
         s[p].members = r[p].members, \A q \in Parties : q # p => s[q] = r[q]
  PROVE  TruthOf(s) = [TruthOf(r) EXCEPT ![<<p, "party">>] = [rev |-> s[p].rev, meta |-> s[p].meta]]
<1>1. \A q \in Parties : /\ s[q].rev # 0 <=> r[q].rev # 0
                         /\ \A k : Has(s[q], k) <=> Has(r[q], k)
  BY DEF Has
<1>2. DOMAIN TruthOf(s) = DOMAIN TruthOf(r)
  <2>1. \A e \in Documents : /\ s[e[1]].rev # 0 <=> r[e[1]].rev # 0
                             /\ Has(s[e[1]], e[2]) <=> Has(r[e[1]], e[2])
    BY <1>1, DocumentParts
  <2>2. /\ DOMAIN TruthOf(r) = {e \in Documents : r[e[1]].rev # 0 /\ Has(r[e[1]], e[2])}
        /\ DOMAIN TruthOf(s) = {e \in Documents : s[e[1]].rev # 0 /\ Has(s[e[1]], e[2])}
    BY TruthFunction
  <2> QED BY <2>1, <2>2
<1>3. ASSUME NEW e \in DOMAIN TruthOf(r), e # <<p, "party">>
      PROVE  TruthOf(s)[e] = TruthOf(r)[e]
  <2>1. /\ e \in Documents /\ TruthOf(r)[e] = Document(r[e[1]], e[2])
        /\ TruthOf(s)[e] = Document(s[e[1]], e[2])
    BY <1>2, TruthFunction
  <2>2. e[1] \in Parties /\ (e[1] # p \/ e[2] = "self")
    BY <1>3, <2>1, DocumentParts
  <2>3. CASE e[1] # p
    BY <2>1, <2>2, <2>3
  <2>4. CASE e[1] = p /\ e[2] = "self"
    BY <2>1, <2>4 DEF Document
  <2> QED BY <2>2, <2>3, <2>4
<1>4. <<p, "party">> \in Documents /\ <<p, "party">>[1] = p /\ <<p, "party">>[2] = "party"
  BY DEF Documents
<1>5. <<p, "party">> \in DOMAIN TruthOf(r)
  BY <1>4, TruthFunction DEF Has
<1>6. TruthOf(s)[<<p, "party">>] = [rev |-> s[p].rev, meta |-> s[p].meta]
  BY <1>2, <1>4, <1>5, TruthFunction DEF Document
<1> QED BY <1>2, <1>3, <1>5, <1>6, OneDocument

LEMMA SwapsSelf ==
  ASSUME NEW r, NEW s, NEW p \in Parties, r[p].rev # 0,
         s[p].rev = r[p].rev, s[p].meta = r[p].meta,
         DOMAIN s[p].members = DOMAIN r[p].members, Self \in DOMAIN r[p].members,
         \A q \in Parties : q # p => s[q] = r[q]
  PROVE  TruthOf(s) = [TruthOf(r) EXCEPT ![<<p, "self">>] =
                         [rev |-> s[p].members[Self].rev, meta |-> s[p].members[Self].meta]]
<1>1. \A q \in Parties : /\ s[q].rev # 0 <=> r[q].rev # 0
                         /\ \A k : Has(s[q], k) <=> Has(r[q], k)
  BY DEF Has
<1>2. DOMAIN TruthOf(s) = DOMAIN TruthOf(r)
  <2>1. \A e \in Documents : /\ s[e[1]].rev # 0 <=> r[e[1]].rev # 0
                             /\ Has(s[e[1]], e[2]) <=> Has(r[e[1]], e[2])
    BY <1>1, DocumentParts
  <2>2. /\ DOMAIN TruthOf(r) = {e \in Documents : r[e[1]].rev # 0 /\ Has(r[e[1]], e[2])}
        /\ DOMAIN TruthOf(s) = {e \in Documents : s[e[1]].rev # 0 /\ Has(s[e[1]], e[2])}
    BY TruthFunction
  <2> QED BY <2>1, <2>2
<1>3. ASSUME NEW e \in DOMAIN TruthOf(r), e # <<p, "self">>
      PROVE  TruthOf(s)[e] = TruthOf(r)[e]
  <2>1. /\ e \in Documents /\ TruthOf(r)[e] = Document(r[e[1]], e[2])
        /\ TruthOf(s)[e] = Document(s[e[1]], e[2])
    BY <1>2, TruthFunction
  <2>2. e[1] \in Parties /\ (e[1] # p \/ e[2] = "party")
    BY <1>3, <2>1, DocumentParts
  <2>3. CASE e[1] # p
    BY <2>1, <2>2, <2>3
  <2>4. CASE e[1] = p /\ e[2] = "party"
    BY <2>1, <2>4 DEF Document
  <2> QED BY <2>2, <2>3, <2>4
<1>4. <<p, "self">> \in Documents /\ <<p, "self">>[1] = p /\ <<p, "self">>[2] = "self"
  BY DEF Documents
<1>5. <<p, "self">> \in DOMAIN TruthOf(r)
  BY <1>4, TruthFunction DEF Has
<1>6. TruthOf(s)[<<p, "self">>] = [rev |-> s[p].members[Self].rev, meta |-> s[p].members[Self].meta]
  <2>1. PICK e : e = <<p, "self">>
    OBVIOUS
  <2>2. TruthOf(s)[e] = Document(s[e[1]], e[2])
    BY <1>2, <1>5, <2>1, TruthFunction
  <2> QED BY <1>4, <2>1, <2>2 DEF Document
<1> QED BY <1>2, <1>3, <1>5, <1>6, OneDocument

\* The service compares revisions; by RevisionSafe it swaps what was read.
LEMMA AcceptsParty ==
  ASSUME TypeInvariant, RevisionSafe, ServePartyPatch, UNCHANGED local,
         PatchNow(req.party, req.updates, {}), Reply("ok", NoView),
         IsCaptain(req.party, Self), req.rev = remote[req.party].rev
  PROVE  Versioned!Accept
<1>1. req.kind = "partyPatch" /\ ans = Pending /\ IsWorld(remote) /\ req.party \in Parties
  BY DEF ServePartyPatch, Asked, TypeInvariant, WorldOK, StepOK, WireOK, IsRequest, MaybeParty
<1>0. PICK p \in Parties : p = req.party
  BY <1>1
<1>2. PICK r, s : p = req.party /\ r = remote /\ s = remote'
  BY <1>0
<1>3. PICK w : w = WriteOf(req)
  OBVIOUS
<1>4. /\ w.doc = <<p, "party">> /\ w.rev = req.rev /\ w.base = req.base
      /\ w.meta = Overlay(req.base, req.updates, {})
  BY <1>1, <1>2, <1>3 DEF WriteOf
<1>5. Writing = {w}
  BY <1>1, <1>3 DEF Writing
<1>6. req.base = r[p].meta
  BY <1>1, <1>2 DEF RevisionSafe, PartyPatchFits
<1>7. r[p].rev \in Nat /\ r[p].rev # 0
  <2>1. Self \in DOMAIN r[p].members
    BY <1>2 DEF IsCaptain
  <2>2. DOMAIN r[p].members # {}
    BY <2>1
  <2> QED BY <1>1, <1>2, <2>2, NothingType DEF IsWorld, Unborn
<1>8. <<p, "party">> \in DOMAIN TruthOf(r)
      /\ TruthOf(r)[<<p, "party">>] = [rev |-> w.rev, meta |-> w.base]
  <2>1. /\ <<p, "party">> \in DOMAIN TruthOf(r)
        /\ TruthOf(r)[<<p, "party">>] = [rev |-> r[p].rev, meta |-> r[p].meta]
    BY <1>7, TruthDocs
  <2>2. w.rev = r[p].rev /\ w.base = r[p].meta
    BY <1>2, <1>4, <1>6
  <2> QED BY <2>1, <2>2
<1>9. PICK new : new = [r[p] EXCEPT !.rev = r[p].rev + 1, !.meta = Overlay(r[p].meta, req.updates, {})]
  OBVIOUS
<1>10. /\ new.rev = r[p].rev + 1 /\ new.meta = Overlay(r[p].meta, req.updates, {})
       /\ new.members = r[p].members
  BY <1>1, <1>2, <1>9 DEF IsWorld
<1>11. s = [r EXCEPT ![p] = new]
  BY <1>2, <1>9 DEF PatchNow, Change
<1>12. s[p] = new /\ \A q \in Parties : q # p => s[q] = r[q]
  BY <1>1, <1>2, <1>11 DEF IsWorld
<1>13. TruthOf(s) = [TruthOf(r) EXCEPT ![<<p, "party">>] = [rev |-> s[p].rev, meta |-> s[p].meta]]
  BY <1>7, <1>10, <1>12, SwapsParty
<1>14. [rev |-> s[p].rev, meta |-> s[p].meta] = [rev |-> w.rev + 1, meta |-> w.meta]
  BY <1>2, <1>4, <1>6, <1>10, <1>12
<1>15. TruthOf(remote)' = [TruthOf(remote) EXCEPT ![w.doc] = [rev |-> w.rev + 1, meta |-> w.meta]]
  <2>1. TruthOf(remote)' = TruthOf(s) /\ TruthOf(remote) = TruthOf(r)
    BY <1>2 DEF TruthOf
  <2> QED BY <1>4, <1>13, <1>14, <2>1
<1>16. Versioned!Computed(w, TruthOf(remote))
  BY <1>2, <1>4, <1>8 DEF Versioned!Computed
<1>17. Writing' \in {{}, Writing} /\ CopyOf(local)' = CopyOf(local)
  BY <1>1, ReplyWrites DEF CopyOf
<1> QED BY <1>5, <1>15, <1>16, <1>17 DEF Versioned!Accept

LEMMA AcceptsSelf ==
  ASSUME TypeInvariant, RevisionSafe, ServeMemberPatch, UNCHANGED local,
         MemberPatchNow(req.party, Self, req.updates, {}), Reply("ok", NoView),
         Self \in DOMAIN remote[req.party].members,
         req.rev = remote[req.party].members[Self].rev
  PROVE  Versioned!Accept
<1>1. req.kind = "memberPatch" /\ ans = Pending /\ IsWorld(remote) /\ req.party \in Parties
  BY DEF ServeMemberPatch, Asked, TypeInvariant, WorldOK, StepOK, WireOK, IsRequest, MaybeParty
<1>0. PICK p \in Parties : p = req.party
  BY <1>1
<1>2. PICK r, s : p = req.party /\ r = remote /\ s = remote'
  BY <1>0
<1>3. PICK w : w = WriteOf(req)
  OBVIOUS
<1>4. /\ w.doc = <<p, "self">> /\ w.rev = req.rev /\ w.base = req.base
      /\ w.meta = Overlay(req.base, req.updates, {})
  BY <1>1, <1>2, <1>3 DEF WriteOf
<1>5. Writing = {w}
  BY <1>1, <1>3 DEF Writing
<1>6. req.base = r[p].members[Self].meta
  BY <1>1, <1>2 DEF RevisionSafe, MemberPatchFits
<1>7. r[p].rev # 0 /\ IsRemoteMembers(r[p].members) /\ r[p].rev \in Nat
  <2>1. DOMAIN r[p].members # {}
    BY <1>2
  <2> QED BY <1>1, <1>2, <2>1, NothingType DEF IsWorld, Unborn
<1>8. <<p, "self">> \in DOMAIN TruthOf(r)
      /\ TruthOf(r)[<<p, "self">>] = [rev |-> w.rev, meta |-> w.base]
  <2>1. Self \in DOMAIN r[p].members
    BY <1>2
  <2>2. /\ <<p, "self">> \in DOMAIN TruthOf(r)
        /\ TruthOf(r)[<<p, "self">>] =
             [rev |-> r[p].members[Self].rev, meta |-> r[p].members[Self].meta]
    BY <1>7, <2>1, TruthDocs
  <2>3. w.rev = r[p].members[Self].rev /\ w.base = r[p].members[Self].meta
    BY <1>2, <1>4, <1>6
  <2> QED BY <2>2, <2>3
<1>9. PICK old, m : /\ old = r[p].members[Self]
                    /\ m = [old EXCEPT !.rev = @ + 1, !.meta = Overlay(@, req.updates, {})]
  OBVIOUS
<1>10. m.rev = old.rev + 1 /\ m.meta = Overlay(old.meta, req.updates, {})
  <2>1. old \in [role : {"MEMBER", "CAPTAIN"}, rev : Nat, meta : {old.meta}]
    BY <1>2, <1>7, <1>9 DEF IsRemoteMembers
  <2> QED BY <1>9, <2>1
<1>11. PICK new : new = [r[p] EXCEPT !.members = [r[p].members EXCEPT ![Self] = m]]
  OBVIOUS
<1>12. s = [r EXCEPT ![p] = new]
  BY <1>2, <1>9, <1>11 DEF MemberPatchNow, Change
<1>13. s[p] = new /\ \A q \in Parties : q # p => s[q] = r[q]
  BY <1>1, <1>2, <1>12 DEF IsWorld
<1>14. /\ s[p].rev = r[p].rev /\ s[p].meta = r[p].meta
       /\ s[p].members = [r[p].members EXCEPT ![Self] = m]
  BY <1>1, <1>2, <1>11, <1>13 DEF IsWorld
<1>15. DOMAIN s[p].members = DOMAIN r[p].members /\ s[p].members[Self] = m
  BY <1>2, <1>7, <1>14 DEF IsRemoteMembers, IsMap
<1>16. TruthOf(s) = [TruthOf(r) EXCEPT ![<<p, "self">>] =
                       [rev |-> s[p].members[Self].rev, meta |-> s[p].members[Self].meta]]
  BY <1>2, <1>7, <1>13, <1>14, <1>15, SwapsSelf
<1>17. [rev |-> s[p].members[Self].rev, meta |-> s[p].members[Self].meta]
         = [rev |-> w.rev + 1, meta |-> w.meta]
  BY <1>2, <1>4, <1>6, <1>9, <1>10, <1>15
<1>18. TruthOf(remote)' = [TruthOf(remote) EXCEPT ![w.doc] = [rev |-> w.rev + 1, meta |-> w.meta]]
  <2>1. TruthOf(remote)' = TruthOf(s) /\ TruthOf(remote) = TruthOf(r)
    BY <1>2 DEF TruthOf
  <2> QED BY <1>4, <1>16, <1>17, <2>1
<1>19. Versioned!Computed(w, TruthOf(remote))
  BY <1>2, <1>4, <1>8 DEF Versioned!Computed
<1>20. Writing' \in {{}, Writing} /\ CopyOf(local)' = CopyOf(local)
  BY <1>1, ReplyWrites DEF CopyOf
<1> QED BY <1>5, <1>18, <1>19, <1>20 DEF Versioned!Accept

LEMMA ServeVersioned ==
  ASSUME TypeInvariant, Known, Serve, UNCHANGED local
  PROVE  Versioned!Next \/ UNCHANGED Versioned!vars
<1>1. RevisionSafe
  BY KnownImplies
<1>2. ans = Pending
  BY DEF Serve, ServeUser, ServeParty, ServeCreate, ServeJoin, ServeLeave, ServePromote,
         ServePartyPatch, ServeMemberPatch, ServePings, ServeIntention, Asked
<1>3. CASE ServePartyPatch
  <2>1. Writing # {}
    BY <1>3 DEF ServePartyPatch, Asked, Writing
  <2>2. CASE Refuse("forbidden") \/ Refuse("stale")
    BY <1>2, <2>1, <2>2, RefuseRefuses DEF Versioned!Next
  <2>3. CASE /\ IsCaptain(req.party, Self) /\ req.rev = remote[req.party].rev
             /\ PatchNow(req.party, req.updates, {}) /\ Reply("ok", NoView)
    BY <1>1, <1>3, <2>3, AcceptsParty DEF Versioned!Next
  <2> QED BY <1>3, <2>2, <2>3 DEF ServePartyPatch
<1>4. CASE ServeMemberPatch
  <2>1. Writing # {}
    BY <1>4 DEF ServeMemberPatch, Asked, Writing
  <2>2. CASE Refuse("notFound") \/ Refuse("stale")
    BY <1>2, <2>1, <2>2, RefuseRefuses DEF Versioned!Next
  <2>3. CASE /\ Self \in DOMAIN remote[req.party].members
             /\ req.rev = remote[req.party].members[Self].rev
             /\ MemberPatchNow(req.party, Self, req.updates, {}) /\ Reply("ok", NoView)
    BY <1>1, <1>4, <2>3, AcceptsSelf DEF Versioned!Next
  <2> QED BY <1>4, <2>2, <2>3 DEF ServeMemberPatch
<1>5. CASE ~ServePartyPatch /\ ~ServeMemberPatch
  <2>1. req.kind \notin {"partyPatch", "memberPatch"} /\ req' = req
    BY <1>5 DEF Serve, ServeUser, ServeParty, ServeCreate, ServeJoin, ServeLeave,
       ServePromote, ServePings, ServeIntention, Asked, Refuse, Report, Reply
  <2>2. Writing = {} /\ Writing' = {}
    BY <2>1 DEF Writing
  <2>3. Knows(local)
    BY DEF Known, Copies
  <2> QED BY <2>2, <2>3, ServeGrows, GrowthChanges DEF Versioned!Next
<1> QED BY <1>3, <1>4, <1>5

LEMMA LoseVersioned ==
  ASSUME Lose, UNCHANGED local
  PROVE  Versioned!Refuse \/ UNCHANGED Versioned!vars
<1>1. Writing' = {} /\ UNCHANGED remote
  BY DEF Lose, Failed, Pending, Writing
<1>2. TruthOf(remote)' = TruthOf(remote) /\ CopyOf(local)' = CopyOf(local)
  BY <1>1 DEF TruthOf, CopyOf
<1> QED BY <1>1, <1>2 DEF Versioned!Refuse, Versioned!vars

LEMMA EnvironmentVersioned ==
  ASSUME TypeInvariant, Known, Environment, UNCHANGED local
  PROVE  Versioned!Change
<1>1. UNCHANGED <<req, ans>>
  BY DEF Environment, OtherJoins, OtherLeaves, KickedBy, OtherPromotes, OtherPatches,
         OtherSets, Acts
<1>2. Writing' = Writing
  BY <1>1 DEF Writing, WriteOf
<1>3. IsWorld(remote) /\ Knows(local)
  BY DEF TypeInvariant, WorldOK, Known, Copies
<1> QED BY <1>2, <1>3, EnvironmentGrows, GrowthChanges

\* A command goes on only when no request is out.
LEMMA ClientIdles ==
  ASSUME Wiring, Client \/ Application
  PROVE  Writing = {}
<1>1. CASE Client
  <2>1. ans # Pending \/ at = "sleep"
    BY <1>1 DEF Client, Sync, Ensure, Create, CreateGet, LeaveFirst, Join, JoinGet,
       JoinHydrate, JoinMember, JoinInvite, Request, Leave, Promote, PromoteGet, Hydrate,
       PatchParty, PatchMember, Refresh, RefreshStale, WakeUp, Answered
  <2> QED BY <2>1, KindOf DEF Wiring, Wired, Writing
<1>2. CASE Application
  <2>1. at = "idle"
    BY <1>2 DEF Application, BeginSync, BeginEnsure, BeginCreate, BeginLeave, BeginJoin,
       BeginJoinMember, BeginJoinInvite, BeginRequest, BeginPromote, BeginSet, Opens, Begin
  <2> QED BY <2>1, KindOf DEF Wiring, Wired, Writing
<1> QED BY <1>1, <1>2

LEMMA CopyNotNewer ==
  ASSUME NEW c, IsCopy(c)
  PROVE  NotNewer(c, c)
<1>1. c.rev \in Nat /\ (Self \in DOMAIN c.members => c.members[Self].rev \in Nat)
  BY DEF IsCopy
<1>2. \A n \in Nat : n <= n
  OBVIOUS
<1> QED BY <1>1, <1>2 DEF NotNewer

\* What a refill puts in the cache is not older than what was there.
LEMMA RefillsNewer ==
  ASSUME TypeInvariant, Steady, Refills
  PROVE  Versioned!Behind(CopyOf(local), CopyOf(local'))
<1> SUFFICES ASSUME local.id # "", local'.id = local.id
             PROVE  NotNewer(local, local')
  BY CopyBehindCopy
<1>1. IsParty(local) /\ IsView(ans.view)
  BY DEF TypeInvariant, StepOK, WireOK, IsFound
<1>2. CASE local' = local
  <2>1. NotNewer(local, local)
    BY <1>1, PartyIsCopy, CopyNotNewer
  <2> QED BY <1>2, <2>1
<1>3. CASE local' = Fetched \/ Promoted
  <2>1. PICK f : f = Fetched
    OBVIOUS
  <2>2. /\ local'.id = f.id /\ local'.rev = f.rev
        /\ local'.meta = f.meta /\ local'.members = f.members
    BY <1>3, <2>1 DEF Promoted, Fetched, mapRemoteParty
  <2>3. /\ f.id = ans.view.id /\ f.rev = ans.view.rev /\ f.meta = ans.view.meta
        /\ DOMAIN f.members = DOMAIN ans.view.members
        /\ Self \in DOMAIN f.members =>
             /\ f.members[Self].rev = ans.view.members[Self].rev
             /\ f.members[Self].meta = ans.view.members[Self].meta
    BY <2>1 DEF Fetched, mapRemoteParty, MemberOf
  <2>4. NotNewer(local, ans.view)
    BY <2>2, <2>3 DEF Steady
  <2> QED BY <2>2, <2>3, <2>4 DEF NotNewer
<1>4. CASE local' = EmptyParty
  BY <1>4, NobodyKnows
<1>5. CASE at = "joinHydrate"
  BY <1>5 DEF Steady
<1> QED BY <1>2, <1>3, <1>4, <1>5 DEF Refills

\* A patch under way was computed from the cached party, which is not newer
\* than the party of the service.
FromCopy == Writing = {} \/ \E w \in Writing : Writing = {w} /\ Versioned!Computed(w, CopyOf(local))
OldCopy == Versioned!Behind(CopyOf(local), TruthOf(remote))

CopyInv == TypeInvariant /\ Known /\ Steady

LEMMA ComputedFromCopy == CopyInv => FromCopy
<1> SUFFICES ASSUME CopyInv, Writing # {}
             PROVE  Writing = {WriteOf(req)} /\ Versioned!Computed(WriteOf(req), CopyOf(local))
  BY DEF FromCopy
<1>1. at \in Labels /\ Wired(at, op, plan, req) /\ HasTarget(at, op, plan)
  BY DEF CopyInv, TypeInvariant, StepOK, CommandOK, Known, Wiring
<1>2. req.kind \in {"partyPatch", "memberPatch"} /\ Writing = {WriteOf(req)}
  BY DEF Writing
<1>3. at \in {"partyPatch", "memberPatch"} /\ (req.kind = at)
  BY <1>1, <1>2, WiredKinds
<1>4. plan.snap = local
  BY <1>3 DEF CopyInv, Steady
<1>5. local.id \in Parties /\ Self \in DOMAIN local.members
  BY <1>1, <1>3, <1>4 DEF HasTarget, CopyInv, TypeInvariant, StepOK, IsParty, MaybeParty
<1>6. PICK w : w = WriteOf(req)
  OBVIOUS
<1>7. CASE at = "partyPatch"
  <2>1. req = PartyPatch(local, req.updates)
    BY <1>1, <1>4, <1>7 DEF Wired
  <2>2. req.party = local.id /\ req.rev = local.rev /\ req.base = local.meta
    BY <2>1, PatchFields
  <2>3. w.doc = <<local.id, "party">> /\ w.rev = local.rev /\ w.base = local.meta
    BY <1>3, <1>6, <1>7, <2>2 DEF WriteOf
  <2>4. Versioned!Computed(w, CopyOf(local))
    BY <1>5, <2>3, CopyDocs DEF Versioned!Computed
  <2> QED BY <1>2, <1>6, <2>4
<1>8. CASE at = "memberPatch"
  <2>1. req = MemberPatch(local, req.updates)
    BY <1>1, <1>4, <1>8 DEF Wired
  <2>2. /\ req.party = local.id /\ req.rev = local.members[Self].rev
        /\ req.base = local.members[Self].meta
    BY <2>1, PatchFields
  <2>3. /\ w.doc = <<local.id, "self">> /\ w.rev = local.members[Self].rev
        /\ w.base = local.members[Self].meta
    BY <1>3, <1>6, <1>8, <2>2 DEF WriteOf
  <2>4. Versioned!Computed(w, CopyOf(local))
    BY <1>5, <2>3, CopyDocs DEF Versioned!Computed
  <2> QED BY <1>2, <1>6, <2>4
<1> QED BY <1>3, <1>7, <1>8

LEMMA KnownIsOld == CopyInv => OldCopy
<1> SUFFICES ASSUME CopyInv PROVE OldCopy
  OBVIOUS
<1>1. local.id # "" => NotNewer(local, remote[local.id])
  BY DEF CopyInv, Known, Copies, Knows, NotNewer
<1> QED BY <1>1, CopyBehindTruth DEF OldCopy

LEMMA StepVersioned ==
  ASSUME CopyInv, FromCopy', OldCopy', [Next]_vars
  PROVE  [Versioned!Next]_(Versioned!vars)
<1>1. CASE UNCHANGED vars
  <2>1. /\ TruthOf(remote)' = TruthOf(remote) /\ CopyOf(local)' = CopyOf(local)
        /\ Writing' = Writing
    BY <1>1 DEF vars, command, world, wire, TruthOf, CopyOf, Writing, WriteOf
  <2> QED BY <2>1 DEF Versioned!vars
<1>2. CASE Client \/ Application
  <2>1. Refills
    BY <1>2, ClientCalm, ApplicationCalm DEF CopyInv, Calm
  <2>2. Writing = {}
    BY <1>2, ClientIdles DEF CopyInv, Known
  <2>3. TruthOf(remote)' = TruthOf(remote)
    BY <1>2, CommandFrame DEF TruthOf
  <2>4. Versioned!Behind(CopyOf(local), CopyOf(local)')
    <3>1. CopyOf(local)' = CopyOf(local')
      BY DEF CopyOf
    <3> QED BY <2>1, <3>1, RefillsNewer DEF CopyInv
  <2>5. Versioned!Behind(CopyOf(local)', TruthOf(remote))
    BY <2>3 DEF OldCopy, Versioned!Behind
  <2> QED BY <2>2, <2>3, <2>4, <2>5 DEF FromCopy, Versioned!Read, Versioned!Next
<1>3. CASE Decode
  BY <1>3 DEF Decode, Apply, Complete, ApplyCompleted, Receive, Known, CopyInv
<1>4. CASE (Serve \/ Lose \/ Environment) /\ UNCHANGED <<local, decoding, command>>
  BY <1>4, ServeVersioned, LoseVersioned, EnvironmentVersioned DEF CopyInv, Versioned!Next
<1> QED BY <1>1, <1>2, <1>3, <1>4 DEF Next, Step

\* Without notifications the commands, their retries and their faults are no
\* more than a copy that is only replaced by newer ones and a compare-and-
\* swap, for every number of accounts, parties and attempts.
THEOREM SyncImplementsCopy == ASSUME ~Notified PROVE Spec => ImplementsCopy
<1>1. Init => CopyInv
  BY TypeInit, KnownInit, SteadyInit DEF CopyInv
<1>2. CopyInv /\ [Next]_vars => CopyInv'
  BY TypeStep, KnownStep, SteadyStep DEF CopyInv
<1>3. CopyInv => FromCopy /\ OldCopy
  BY ComputedFromCopy, KnownIsOld
<1>4. Init /\ OldCopy => Versioned!Init
  <2>1. Init => Writing = {}
    BY KindOf DEF Init, Writing
  <2> QED BY <2>1 DEF OldCopy, Versioned!Init
<1>5. CopyInv /\ (FromCopy /\ OldCopy)' /\ [Next]_vars => [Versioned!Next]_(Versioned!vars)
  BY StepVersioned
<1> QED BY <1>1, <1>2, <1>3, <1>4, <1>5, PTL DEF Spec, ImplementsCopy, Versioned!Spec
=============================================================================
