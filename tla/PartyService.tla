---------------------------- MODULE PartyService ----------------------------
(***************************************************************************)
(* The world outside the client, modelled from how src/party uses it: the  *)
(* party service with its revisions, the notifications it pushes over      *)
(* XMPP, the other accounts, and the HTTP exchange with its faults.        *)
(*                                                                         *)
(* One exchange is outstanding at most, because Commands.opMu is held      *)
(* during every command.  A party keeps its id for ever; a disbanded party *)
(* has no member and an id that was never given out has revision 0.        *)
(* Membership, captaincy and party metadata move the party's revision;     *)
(* member metadata moves the member's own (two numbers in remoteParty and  *)
(* remotePartyMember, src/party/commands.go).                              *)
(***************************************************************************)
EXTENDS PartyReducer, Sequences

CONSTANTS Self,        \* the account of this client
          Notified,    \* does XMPP deliver notifications?
          LaggingReads, \* may GET /parties/{id} omit this account?
          Faults,      \* what may go wrong with an exchange
          MaxFaults,   \* bound: faults per run
          EnvOps,      \* what the other accounts do
          PartyDeltas, \* what they write to party metadata
          MemberDeltas, \* and to their own
          MaxChanges   \* bound: changes by other accounts per run

IsDelta(d, K) == /\ d \in [updates : {d.updates}, removed : SUBSET K]
                 /\ IsMap(d.updates, K, Values)

ASSUME ServiceAssumption ==
  /\ Self \in Accounts
  /\ Notified \in BOOLEAN /\ LaggingReads \in BOOLEAN
  /\ Faults \subseteq {"lostRequest", "lostAnswer", "resent", "canceled"}
  /\ MaxFaults \in Nat /\ MaxChanges \in Nat
  /\ EnvOps \subseteq {"join", "leave", "kick", "promote",
                       "partyPatch", "memberPatch"}
  /\ \A d \in PartyDeltas : IsDelta(d, PartyKeys)
  /\ \A d \in MemberDeltas : IsDelta(d, MemberKeys)

VARIABLES remote,   \* remote[p]: party p as the service knows it
          inbox,    \* notifications sent to this client and not yet decoded
          req,      \* the outstanding HTTP request
          ans,      \* its answer, or Pending
          faults,   \* the faults so far
          changes   \* changes by other accounts so far

world == <<remote, inbox, faults, changes>>
wire == <<req, ans>>

Unborn == [rev |-> 0, meta |-> Nothing, members |-> Nothing]
Pending == [st |-> "pending", view |-> NoView]
Failed == [st |-> "failed", view |-> NoView]
NoReq == [kind |-> "none", party |-> "", acct |-> "", rev |-> 0,
          updates |-> Nothing, base |-> Nothing]

Statuses == {"pending", "failed", "ok", "notFound", "noParty", "forbidden",
             "selfOnly", "stale", "hasParty"}

ViewOf(p) == [id |-> p, rev |-> remote[p].rev, meta |-> remote[p].meta,
              members |-> remote[p].members]
Home(r, a) == IF \E p \in Parties : a \in DOMAIN r[p].members
              THEN CHOOSE p \in Parties : a \in DOMAIN r[p].members
              ELSE ""
Fresh == {p \in Parties : remote[p].rev = 0}
IsCaptain(p, a) == /\ a \in DOMAIN remote[p].members
                   /\ remote[p].members[a].role = "CAPTAIN"

-----------------------------------------------------------------------------
(* Changes to a party, and the notifications they send to its members. *)

Note(type, p, a, rev) ==
  [type |-> type, party |-> p, acct |-> a, rev |-> rev, role |-> "",
   updates |-> Nothing, removed |-> {}]

Change(p, new, notes) ==
  /\ remote' = [remote EXCEPT ![p] = new]
  /\ inbox' = IF Notified /\ Self \in DOMAIN remote[p].members \cup DOMAIN new.members
              THEN inbox \o notes ELSE inbox

JoinNow(p, a) ==
  LET role == IF DOMAIN remote[p].members = {} THEN "CAPTAIN" ELSE "MEMBER"
      rev == remote[p].rev + 1
  IN  Change(p, [remote[p] EXCEPT !.rev = rev,
                   !.members = Put(@, a, [role |-> role, rev |-> 0, meta |-> Nothing])],
             <<[Note("MEMBER_JOINED", p, a, rev) EXCEPT !.role = role]>>)

\* The captaincy passes on when the captain goes.
GoneNow(type, p, a) ==
  LET rev  == remote[p].rev + 1
      rest == Drop(remote[p].members, {a})
      heir == IF CaptainOf(rest) = "" /\ DOMAIN rest # {}
              THEN CHOOSE b \in DOMAIN rest : TRUE ELSE ""
  IN  Change(p, [remote[p] EXCEPT !.rev = rev,
                   !.members = IF heir = "" THEN rest
                               ELSE [rest EXCEPT ![heir].role = "CAPTAIN"]],
             <<Note(type, p, a, rev)>> \o
             (IF heir = "" THEN <<>> ELSE <<Note("MEMBER_NEW_CAPTAIN", p, heir, rev)>>))

PromoteNow(p, a) ==
  LET rev == remote[p].rev + 1
  IN  Change(p, [remote[p] EXCEPT !.rev = rev,
                   !.members = [b \in DOMAIN @ |->
                     [@[b] EXCEPT !.role = IF b = a THEN "CAPTAIN" ELSE "MEMBER"]]],
             <<Note("MEMBER_NEW_CAPTAIN", p, a, rev)>>)

PatchNow(p, updates, removed) ==
  LET rev == remote[p].rev + 1
  IN  Change(p, [remote[p] EXCEPT !.rev = rev, !.meta = Overlay(@, updates, removed)],
             <<[Note("PARTY_UPDATED", p, "", rev) EXCEPT
                  !.updates = updates, !.removed = removed]>>)

MemberPatchNow(p, a, updates, removed) ==
  LET member == [remote[p].members[a] EXCEPT
                   !.rev = @ + 1, !.meta = Overlay(@, updates, removed)]
  IN  Change(p, [remote[p] EXCEPT !.members[a] = member],
             <<[Note("MEMBER_STATE_UPDATED", p, a, member.rev) EXCEPT
                  !.updates = updates, !.removed = removed]>>)

-----------------------------------------------------------------------------
(* The exchange.  A lost answer fails a request that took effect; a resent *)
(* one takes effect and is sent again by the transport, which retries      *)
(* every method after a 5xx or a broken connection.                        *)

Spend(kind) ==
  /\ kind \in Faults /\ Len(faults) < MaxFaults
  /\ faults' = Append(faults, kind)

Reply(st, view) ==
  /\ UNCHANGED <<req, changes>>
  /\ \/ ans' = [st |-> st, view |-> view] /\ UNCHANGED faults
     \/ ans' = Failed /\ Spend("lostAnswer")
     \/ ans' = Pending /\ Spend("resent")

Refuse(st) == Reply(st, NoView) /\ UNCHANGED <<remote, inbox>>
Report(view) == Reply("ok", view) /\ UNCHANGED <<remote, inbox>>

Asked(kind) == req.kind = kind /\ ans = Pending

\* GET /user/{a}; other accounts may be off limits (isSelfOnlyUserQueryForbidden).
ServeUser ==
  /\ Asked("user")
  /\ LET p == Home(remote, req.acct)
     IN  \/ Report(IF p = "" THEN NoView ELSE ViewOf(p))
         \/ req.acct # Self /\ Refuse("selfOnly")

\* GET /parties/{id}
ServeParty ==
  /\ Asked("party")
  /\ IF DOMAIN remote[req.party].members = {} THEN Refuse("notFound")
     ELSE \/ Report(ViewOf(req.party))
          \/ /\ LaggingReads
             /\ Report([ViewOf(req.party) EXCEPT !.members = Drop(@, {Self})])

NewParty(p) ==
  [id |-> p, rev |-> 1, meta |-> Nothing, members |->
     Put(Nothing, Self, [role |-> "CAPTAIN", rev |-> 0, meta |-> Nothing])]

\* POST /parties
ServeCreate ==
  /\ Asked("create")
  /\ IF Home(remote, Self) # "" THEN Refuse("hasParty")
     ELSE IF Fresh = {} THEN Refuse("forbidden")
     ELSE LET p == CHOOSE q \in Fresh : TRUE
          IN  JoinNow(p, Self) /\ Reply("ok", NewParty(p))

\* POST /parties/{id}/members/{a}/join
ServeJoin ==
  /\ Asked("join")
  /\ IF DOMAIN remote[req.party].members = {} THEN Refuse("notFound")
     ELSE IF Home(remote, Self) # "" THEN Refuse("hasParty")
     ELSE JoinNow(req.party, Self) /\ Reply("ok", NoView)

\* DELETE /parties/{id}/members/{a}
ServeLeave ==
  /\ Asked("leave")
  /\ IF Self \notin DOMAIN remote[req.party].members THEN Refuse("notFound")
     ELSE GoneNow("MEMBER_LEFT", req.party, Self) /\ Reply("ok", NoView)

\* POST /parties/{id}/members/{a}/promote; the client tells the two 404 apart.
ServePromote ==
  /\ Asked("promote")
  /\ IF DOMAIN remote[req.party].members = {} THEN Refuse("noParty")
     ELSE IF ~IsCaptain(req.party, Self) THEN Refuse("forbidden")
     ELSE IF req.acct \notin DOMAIN remote[req.party].members THEN Refuse("notFound")
     ELSE PromoteNow(req.party, req.acct) /\ Reply("ok", NoView)

\* PATCH /parties/{id}
ServePartyPatch ==
  /\ Asked("partyPatch")
  /\ IF ~IsCaptain(req.party, Self) THEN Refuse("forbidden")
     ELSE IF req.rev # remote[req.party].rev THEN Refuse("stale")
     ELSE PatchNow(req.party, req.updates, {}) /\ Reply("ok", NoView)

\* PATCH /parties/{id}/members/{a}/meta
ServeMemberPatch ==
  /\ Asked("memberPatch")
  /\ IF Self \notin DOMAIN remote[req.party].members THEN Refuse("notFound")
     ELSE IF req.rev # remote[req.party].members[Self].rev THEN Refuse("stale")
     ELSE MemberPatchNow(req.party, Self, req.updates, {}) /\ Reply("ok", NoView)

\* GET /user/{self}/pings/{a}/parties: where that account invites us to.
ServePings ==
  /\ Asked("pings")
  /\ LET p == Home(remote, req.acct)
     IN  Report(IF p = "" THEN NoView ELSE ViewOf(p))

\* POST /members/{a}/intentions/{self}
ServeIntention == Asked("intention") /\ Report(NoView)

\* The request never arrives.
Lose ==
  /\ req # NoReq /\ ans = Pending
  /\ ans' = Failed /\ Spend("lostRequest")
  /\ UNCHANGED <<remote, inbox, req, changes>>

Serve == \/ ServeUser \/ ServeParty \/ ServeCreate \/ ServeJoin \/ ServeLeave
         \/ ServePromote \/ ServePartyPatch \/ ServeMemberPatch
         \/ ServePings \/ ServeIntention

-----------------------------------------------------------------------------
(* The other accounts. *)

Acts(op) ==
  /\ op \in EnvOps
  /\ changes < MaxChanges /\ changes' = changes + 1
  /\ UNCHANGED <<req, ans, faults>>

OtherJoins(p, a) ==
  /\ Home(remote, a) = "" /\ DOMAIN remote[p].members # {}
  /\ JoinNow(p, a) /\ Acts("join")

OtherLeaves(p, a) ==
  /\ a \in DOMAIN remote[p].members
  /\ GoneNow("MEMBER_LEFT", p, a) /\ Acts("leave")

KickedBy(p, a) ==
  /\ IsCaptain(p, a) /\ Self \in DOMAIN remote[p].members
  /\ GoneNow("MEMBER_KICKED", p, Self) /\ Acts("kick")

OtherPromotes(p, a) ==
  /\ IsCaptain(p, a)
  /\ \E b \in DOMAIN remote[p].members \ {a} : PromoteNow(p, b)
  /\ Acts("promote")

OtherPatches(p, a) ==
  /\ IsCaptain(p, a)
  /\ \E d \in PartyDeltas : PatchNow(p, d.updates, d.removed)
  /\ Acts("partyPatch")

OtherSets(p, a) ==
  /\ a \in DOMAIN remote[p].members
  /\ \E d \in MemberDeltas : MemberPatchNow(p, a, d.updates, d.removed)
  /\ Acts("memberPatch")

Environment ==
  \E p \in Parties, a \in Accounts \ {Self} :
    \/ OtherJoins(p, a) \/ OtherLeaves(p, a) \/ KickedBy(p, a)
    \/ OtherPromotes(p, a) \/ OtherPatches(p, a) \/ OtherSets(p, a)
=============================================================================
