---------------------------- MODULE PartyReducer ----------------------------
(***************************************************************************)
(* The pure half of the party component: what the reducer does to the      *)
(* cached party (src/party/reducer.go) and how an answer of the party      *)
(* service becomes one (mapRemoteParty, src/party/commands.go).            *)
(*                                                                         *)
(* A Go map is a function with a finite domain; a metadata document is     *)
(* abstracted to the one thing the code extracts from it.  The outfit      *)
(* stands for the three slots of the cosmetic document, which the code     *)
(* treats alike.  Display names and times are left out.  A nil *Party is   *)
(* EmptyParty: every reader treats nil and an empty ID in the same way.    *)
(***************************************************************************)
EXTENDS Naturals

CONSTANT Accounts,   \* account ids
         Parties,    \* party ids
         Values      \* what metadata documents may say

Blank == "blank"     \* a document that names nothing

ASSUME ReducerAssumption ==
  /\ "" \notin Accounts /\ "" \notin Parties
  /\ {"", Blank, "Ready", "NotReady"} \subseteq Values

PartyKeys  == {"CustomMatchKey", "RegionId", "SelectedIsland"}
MemberKeys == {"LobbyState", "CosmeticLoadout", "FrontendEmote", "MatchmakingInfo"}

IsMap(m, K, V) == DOMAIN m \subseteq K /\ m \in [DOMAIN m -> V]
Nothing == [k \in {} |-> ""]
Put(m, k, v) == [x \in DOMAIN m \cup {k} |-> IF x = k THEN v ELSE m[x]]
Drop(m, K) == [x \in DOMAIN m \ K |-> m[x]]
Lookup(m, k) == IF k \in DOMAIN m THEN m[k] ELSE ""
OrElse(v, old) == IF v # "" THEN v ELSE old
Larger(a, b) == IF a > b THEN a ELSE b

\* Both applyPartyMeta and the member branch: updates first, then removals.
Overlay(m, updates, removed) ==
  [k \in (DOMAIN m \cup DOMAIN updates) \ removed |->
     IF k \in DOMAIN updates THEN updates[k] ELSE m[k]]

MaybeParty == Parties \cup {""}
MaybeAccount == Accounts \cup {""}

IsMeta(m) == IsMap(m, MemberKeys, Values)
IsPartyMeta(m) == IsMap(m, PartyKeys, Values)

IsMember(m) ==
  /\ m \in [role : {"", "MEMBER", "CAPTAIN"}, rev : Nat, ready : Values,
            outfit : Values, emote : Values, meta : {m.meta}]
  /\ IsMeta(m.meta)
IsParty(p) ==
  /\ p \in [id : MaybeParty, rev : Nat, captain : MaybeAccount,
            customKey : Values, region : Values, playlist : Values,
            meta : {p.meta}, members : [DOMAIN p.members -> {p.members[a] : a \in DOMAIN p.members}]]
  /\ IsPartyMeta(p.meta)
  /\ DOMAIN p.members \subseteq Accounts
  /\ \A a \in DOMAIN p.members : IsMember(p.members[a])

NoMember == [role |-> "", rev |-> 0, ready |-> "", outfit |-> "",
             emote |-> "", meta |-> Nothing]
EmptyParty == [id |-> "", rev |-> 0, captain |-> "", customKey |-> "",
               region |-> "", playlist |-> "", meta |-> Nothing,
               members |-> Nothing]

-----------------------------------------------------------------------------
(* What the code reads in a document. *)

extractReady(doc) == IF doc = "Ready" THEN "Ready" ELSE "NotReady"
extractPlaylist(doc) == IF doc = Blank THEN "" ELSE doc
extractSlot(doc) == IF doc = Blank THEN "" ELSE doc

\* A member as the decoder and mapRemoteParty build it: fields from metadata.
MemberOf(role, rev, meta, visible) ==
  [role |-> role, rev |-> rev, meta |-> meta,
   ready  |-> extractReady(Lookup(visible, "LobbyState")),
   outfit |-> extractSlot(Lookup(visible, "CosmeticLoadout")),
   emote  |-> extractSlot(Lookup(visible, "FrontendEmote"))]

-----------------------------------------------------------------------------
(* A reducer event: kind, party, revision, and what the kind needs. *)

BlankEvent(kind, party, rev) ==
  [kind |-> kind, party |-> party, rev |-> rev, acct |-> "",
   member |-> NoMember, captain |-> "", playlist |-> "", customKey |-> "",
   updates |-> Nothing, removed |-> {}]

\* ensureParty, bumpRevision: whatever the kind, and whatever the party.
Prologue(p, e) ==
  [p EXCEPT !.id = OrElse(@, e.party), !.rev = Larger(@, e.rev)]

SyncFromMeta(p) ==
  LET Say(k, old) == IF k \in DOMAIN p.meta THEN p.meta[k] ELSE old
  IN  [p EXCEPT
         !.customKey = Say("CustomMatchKey", @),
         !.region    = Say("RegionId", @),
         !.playlist  = OrElse(extractPlaylist(Lookup(p.meta, "SelectedIsland")), @)]

MemberJoined(p, e) ==
  [p EXCEPT
     !.members = Put(@, e.acct, e.member),
     !.captain = IF e.member.role = "CAPTAIN" THEN e.acct ELSE OrElse(@, e.acct)]

MemberUpdated(p, e) ==
  LET old == IF e.acct \in DOMAIN p.members THEN p.members[e.acct] ELSE NoMember
      new == [role   |-> OrElse(e.member.role, old.role),
              rev    |-> Larger(old.rev, e.member.rev),
              ready  |-> OrElse(e.member.ready, old.ready),
              outfit |-> OrElse(e.member.outfit, old.outfit),
              emote  |-> OrElse(e.member.emote, old.emote),
              meta   |-> Overlay(old.meta, e.member.meta, e.removed)]
  IN  [p EXCEPT
         !.members = Put(@, e.acct, new),
         !.captain = IF e.member.role = "CAPTAIN" THEN e.acct ELSE @]

MemberGone(p, e) ==
  [p EXCEPT
     !.members = Drop(@, {e.acct}),
     !.captain = IF @ = e.acct THEN "" ELSE @]

PartyUpdated(p, e) ==
  SyncFromMeta([p EXCEPT
     !.meta      = Overlay(@, e.updates, e.removed),
     !.captain   = OrElse(e.captain, @),
     !.playlist  = OrElse(e.playlist, @),
     !.customKey = OrElse(e.customKey, @)])

\* State.ApplyEvent, for the kinds the decoder produces.
ApplyEvent(p, e) ==
  LET q == Prologue(p, e)
  IN  CASE e.kind = "joined"  -> MemberJoined(q, e)
        [] e.kind = "updated" -> MemberUpdated(q, e)
        [] e.kind = "gone"    -> MemberGone(q, e)
        [] e.kind = "party"   -> PartyUpdated(q, e)

-----------------------------------------------------------------------------
(* An answer of the party service, and the Party it becomes. *)

IsRemoteMembers(ms) ==
  /\ IsMap(ms, Accounts, {ms[a] : a \in DOMAIN ms})
  /\ \A a \in DOMAIN ms :
       /\ ms[a] \in [role : {"MEMBER", "CAPTAIN"}, rev : Nat, meta : {ms[a].meta}]
       /\ IsMeta(ms[a].meta)
IsView(v) ==
  /\ v \in [id : MaybeParty, rev : Nat, meta : {v.meta}, members : {v.members}]
  /\ IsPartyMeta(v.meta) /\ IsRemoteMembers(v.members)
NoView == [id |-> "", rev |-> 0, meta |-> Nothing, members |-> Nothing]

CaptainOf(members) ==
  IF \E a \in DOMAIN members : members[a].role = "CAPTAIN"
  THEN CHOOSE a \in DOMAIN members : members[a].role = "CAPTAIN"
  ELSE ""

mapRemoteParty(v) ==
  [id |-> v.id, rev |-> v.rev, meta |-> v.meta,
   captain   |-> CaptainOf(v.members),
   customKey |-> Lookup(v.meta, "CustomMatchKey"),
   region    |-> Lookup(v.meta, "RegionId"),
   playlist  |-> extractPlaylist(Lookup(v.meta, "SelectedIsland")),
   members   |-> [a \in DOMAIN v.members |->
                    MemberOf(v.members[a].role, v.members[a].rev,
                             v.members[a].meta, v.members[a].meta)]]
=============================================================================
