----------------------------- MODULE PartySync -----------------------------
(***************************************************************************)
(* party.Commands (src/party/commands.go), composed with the decoder and   *)
(* with the party service.  opMu is held from the first line of a command  *)
(* to its return, so commands run one after the other; notifications do    *)
(* not take it and change the cached party between any two steps.          *)
(*                                                                         *)
(* A command is cut at its HTTP exchanges: `at' names the exchange it      *)
(* waits in, and the action of that name runs from the answer to the next  *)
(* request or to the return.  `been' and `since' are history: what the     *)
(* service and the other accounts did while the command ran.               *)
(*                                                                         *)
(* An operator X_Bug is X with a bug somebody could have written; no       *)
(* action uses it.  PROJECT.json says which property rejects it.           *)
(***************************************************************************)
EXTENDS PartyDecoder

CONSTANTS Ops,             \* the commands the application calls
          Intents,         \* what it sets
          MaxPatchRetries, \* Config.MaxPatchRetries
          AutoCreate,      \* ~Config.DisableAutoCreateAfterLeave
          MaxOps,          \* bound: commands per run
          Synced,          \* does State mirror the party at first?
          Worlds           \* what the service may look like at first

\* A party that never was has nothing, and nobody is in two parties.
IsWorld(w) ==
  /\ w \in [Parties -> {w[p] : p \in Parties}]
  /\ \A p \in Parties :
       /\ w[p] \in [rev : Nat, meta : {w[p].meta}, members : {w[p].members}]
       /\ IsPartyMeta(w[p].meta) /\ IsRemoteMembers(w[p].members)
       /\ w[p].rev = 0 => w[p] = Unborn
       /\ \A q \in Parties \ {p} : DOMAIN w[p].members \cap DOMAIN w[q].members = {}

ASSUME SyncAssumption ==
  /\ Ops \subseteq {"sync", "ensure", "create", "join", "joinMember", "joinInvite",
                    "request", "leave", "promote", "set"}
  /\ \A i \in Intents : /\ i \in [party : {i.party}, member : {i.member}]
                        /\ IsPartyMeta(i.party) /\ IsMeta(i.member)
  /\ \A w \in Worlds : IsWorld(w)
  /\ MaxPatchRetries \in Nat \ {0} /\ MaxOps \in Nat
  /\ AutoCreate \in BOOLEAN /\ Synced \in BOOLEAN

VARIABLES at,      \* where the running command waits, or "idle"
          op,      \* the running command and its arguments
          plan,    \* applyIntentWithRetry: snapshot, member updates, attempt
          ret,     \* what the last command returned
          ops,     \* commands so far
          been,    \* history: parties this account was in during the command
          since    \* history: Disturbances when the command began

command == <<at, op, plan, ret, ops>>
vars == <<world, wire, local, decoding, command, been, since>>

NoIntent == [party |-> Nothing, member |-> Nothing]
NoOp == [name |-> "none", party |-> "", acct |-> "", intent |-> NoIntent]
NoPlan == [snap |-> EmptyParty, member |-> Nothing, attempt |-> 0]

\* MatchmakingInfo carries the time of the call.
Stamped == {"MatchmakingInfo"}

Init ==
  /\ remote \in Worlds /\ inbox = <<>> /\ faults = <<>> /\ changes = 0
  /\ req = NoReq /\ ans = Pending
  /\ local = IF Synced /\ Home(remote, Self) # ""
             THEN mapRemoteParty(ViewOf(Home(remote, Self))) ELSE EmptyParty
  /\ decoding = Idle
  /\ at = "idle" /\ op = NoOp /\ plan = NoPlan /\ ret = "none" /\ ops = 0
  /\ been = {} /\ since = 0

-----------------------------------------------------------------------------
(* The ways a step ends. *)

\* An error path that keeps the lock.
Return_Bug(err) ==
  /\ at' = IF err = "APIError" THEN "locked" ELSE "idle"
  /\ ret' = err
  /\ req' = NoReq /\ ans' = Pending /\ plan' = NoPlan

\* The deferred Unlock of every command.
Return(err) ==
  /\ at' = "idle" /\ ret' = err
  /\ req' = NoReq /\ ans' = Pending /\ plan' = NoPlan

\* Ask the service and wait at l.
Call(l, r) == at' = l /\ req' = r /\ ans' = Pending /\ UNCHANGED ret

Get(p) == [NoReq EXCEPT !.kind = "party", !.party = p]
GetUser(a) == [NoReq EXCEPT !.kind = "user", !.acct = a]
On(kind, p, a) == [NoReq EXCEPT !.kind = kind, !.party = p, !.acct = a]

\* err != nil, or decodeAPIError of a status >= 300.
Refusal == IF ans = Failed THEN "transport" ELSE "APIError"
Refused == ans.st \notin {"pending", "ok"}
Answered(l) == at = l /\ ans # Pending
Fetched == mapRemoteParty(ans.view)
Found == ans.st = "ok" /\ ans.view # NoView

Quiet == UNCHANGED <<world, decoding, op, ops>>

-----------------------------------------------------------------------------
(* SyncCurrentParty, EnsureParty, ResyncAfterReconnect, CreateParty *)

Sync ==
  /\ Answered("sync")
  /\ \/ Refused /\ Return(Refusal) /\ UNCHANGED local
     \/ /\ ans.st = "ok"
        /\ local' = IF Found THEN Fetched ELSE EmptyParty
        /\ Return("nil")
  /\ Quiet

\* A cached party is believed when the service reports none.
Ensure_Bug ==
  /\ Answered("ensure")
  /\ \/ Refused /\ Return(Refusal) /\ UNCHANGED local
     \/ Found /\ local' = Fetched /\ Return("nil")
     \/ /\ ans.st = "ok" /\ ~Found /\ UNCHANGED local
        /\ IF local.id # "" THEN Return("nil")
           ELSE Call("create", On("create", "", Self)) /\ UNCHANGED plan
  /\ Quiet

\* ensurePartyLocked, after its GET.
Ensure ==
  /\ Answered("ensure")
  /\ \/ Refused /\ Return(Refusal) /\ UNCHANGED local
     \/ Found /\ local' = Fetched /\ Return("nil")
     \/ /\ ans.st = "ok" /\ ~Found
        /\ Call("create", On("create", "", Self)) /\ UNCHANGED <<local, plan>>
  /\ Quiet

\* CreateParty hands the party to the caller and leaves State alone;
\* ensurePartyLocked replaces State with it.
Created == /\ local' = IF op.name = "create" THEN local ELSE Fetched
           /\ Return("nil")

\* createPartyLocked, after its POST.
Create ==
  /\ Answered("create")
  /\ \/ Found /\ Created
     \/ ans.st = "hasParty" /\ Call("createGet", GetUser(Self)) /\ UNCHANGED <<local, plan>>
     \/ Refused /\ ans.st # "hasParty" /\ Return(Refusal) /\ UNCHANGED local
  /\ Quiet

\* The party that user_has_party speaks of.
CreateGet ==
  /\ Answered("createGet")
  /\ \/ Found /\ Created
     \/ ~Found /\ Return(Refusal) /\ UNCHANGED local
  /\ Quiet

-----------------------------------------------------------------------------
(* JoinParty, JoinPartyByMemberID, JoinPartyInviteFrom *)

\* joinPartyLocked, up to its first request.
JoinLocked(o, p) ==
  /\ op' = [o EXCEPT !.party = p]
  /\ \/ local.id = p /\ Return("nil")
     \/ /\ local.id \notin {"", p}
        /\ Call("leaveFirst", On("leave", local.id, Self)) /\ UNCHANGED plan
     \/ local.id = "" /\ Call("join", On("join", p, Self)) /\ UNCHANGED plan
  /\ UNCHANGED local

\* State is emptied with the join only.
LeaveFirst_Bug ==
  /\ Answered("leaveFirst")
  /\ \/ Refused /\ Return(Refusal)
     \/ /\ ans.st = "ok"
        /\ Call("join", On("join", op.party, Self)) /\ UNCHANGED plan
  /\ Quiet /\ UNCHANGED local

\* leavePartyLocked(ctx, false) inside joinPartyLocked.
LeaveFirst ==
  /\ Answered("leaveFirst")
  /\ \/ Refused /\ Return(Refusal) /\ UNCHANGED local
     \/ /\ ans.st = "ok"
        /\ local' = EmptyParty
        /\ Call("join", On("join", op.party, Self)) /\ UNCHANGED plan
  /\ Quiet

Join ==
  /\ Answered("join")
  /\ \/ Refused /\ Return(Refusal)
     \/ ans.st = "ok" /\ Call("joinGet", Get(op.party)) /\ UNCHANGED plan
  /\ Quiet /\ UNCHANGED local

\* getParty; hydrateJoinedPartySelfMember if the answer lacks this account.
JoinGet ==
  /\ Answered("joinGet")
  /\ \/ Refused /\ Return(Refusal) /\ UNCHANGED local
     \/ /\ Found /\ Self \in DOMAIN ans.view.members
        /\ local' = Fetched /\ Return("nil")
     \/ /\ Found /\ Self \notin DOMAIN ans.view.members
        /\ plan' = [NoPlan EXCEPT !.snap = Fetched]
        /\ Call("joinHydrate", GetUser(Self)) /\ UNCHANGED local
  /\ Quiet

\* The party of GET /user, when it is the one joined and has this account.
Hydrates == Found /\ ans.view.id = plan.snap.id /\ Self \in DOMAIN ans.view.members

JoinHydrate ==
  /\ Answered("joinHydrate")
  /\ local' = IF Hydrates THEN Fetched ELSE plan.snap
  /\ Return("nil")
  /\ Quiet

JoinMember ==
  /\ Answered("joinMember")
  /\ \/ Found /\ JoinLocked(op, ans.view.id)
     \/ /\ ~Found /\ UNCHANGED <<op, local>>
        /\ Return(IF ans.st \in {"ok", "selfOnly"} THEN "ErrPartyNotFound" ELSE Refusal)
  /\ UNCHANGED <<world, decoding, ops>>

JoinInvite ==
  /\ Answered("joinInvite")
  /\ \/ Found /\ JoinLocked(op, ans.view.id)
     \/ /\ ~Found /\ UNCHANGED <<op, local>>
        /\ Return(IF ans.st = "ok" THEN "ErrInviteNotFound" ELSE Refusal)
  /\ UNCHANGED <<world, decoding, ops>>

\* SendJoinRequestToMember
Request ==
  /\ Answered("request")
  /\ Return(IF Refused THEN Refusal ELSE "nil")
  /\ Quiet /\ UNCHANGED local

-----------------------------------------------------------------------------
(* LeaveParty, PromoteMember *)

Leave ==
  /\ Answered("leave")
  /\ \/ Refused /\ Return(Refusal) /\ UNCHANGED local
     \/ /\ ans.st = "ok"
        /\ local' = EmptyParty
        /\ IF AutoCreate THEN Call("ensure", GetUser(Self)) /\ UNCHANGED plan
           ELSE Return("nil")
  /\ Quiet

\* mapPromoteError; ErrNotInParty is another name for ErrPartyNotFound.
PromoteError ==
  CASE ans.st = "forbidden" -> "ErrNotCaptain"
    [] ans.st = "notFound"  -> "ErrMemberNotFound"
    [] ans.st = "noParty"   -> "ErrPartyNotFound"
    [] OTHER -> Refusal

Promote ==
  /\ Answered("promote")
  /\ \/ Refused /\ Return(PromoteError)
     \/ ans.st = "ok" /\ Call("promoteGet", Get(op.party)) /\ UNCHANGED plan
  /\ Quiet /\ UNCHANGED local

PromoteGet ==
  /\ Answered("promoteGet")
  /\ \/ Refused /\ Return(Refusal) /\ UNCHANGED local
     \/ /\ Found
        /\ local' = [Fetched EXCEPT !.captain = OrElse(@, op.acct)]
        /\ Return("nil")
  /\ Quiet

-----------------------------------------------------------------------------
(* SetReady, SetPlaylist, SetCustomKey, SetOutfit, SetEmote, ClearEmote,   *)
(* SetLoadout: applyIntentWithRetry.                                       *)

\* BuildIntents: what the intent says and the snapshot does not say already.
Differing(updates, current) ==
  [k \in {x \in DOMAIN updates : Lookup(current, x) # updates[x]} |-> updates[k]]

\* Two calls within a second stamp alike; else a stamped key always differs.
MemberUpdates(updates, current) ==
  {Differing(updates, current),
   Overlay(Differing(updates, current),
           [k \in DOMAIN updates \cap Stamped |-> updates[k]], {})}

PartyPatch(s, updates) ==
  [On("partyPatch", s.id, "") EXCEPT
     !.rev = s.rev, !.updates = updates, !.base = s.meta]
MemberPatch(s, updates) ==
  [On("memberPatch", s.id, Self) EXCEPT
     !.rev = s.members[Self].rev, !.updates = updates, !.base = s.members[Self].meta]

\* One attempt on snapshot s, which has this account: party first, then member.
Patch(o, s, attempt) ==
  \E member \in MemberUpdates(o.intent.member, s.members[Self].meta) :
    LET party == Differing(o.intent.party, s.meta)
    IN  IF party = Nothing /\ member = Nothing THEN Return("nil")
        ELSE /\ plan' = [snap |-> s, member |-> member, attempt |-> attempt]
             /\ IF party # Nothing
                THEN Call("partyPatch", PartyPatch(s, party))
                ELSE Call("memberPatch", MemberPatch(s, member))

\* The top of the loop.
Try(o, attempt) ==
  \/ local.id = "" /\ Return("ErrPartyNotFound")
  \/ /\ local.id # "" /\ Self \notin DOMAIN local.members
     /\ plan' = [NoPlan EXCEPT !.snap = local, !.attempt = attempt]
     /\ Call("hydrate", GetUser(Self))
  \/ local.id # "" /\ Self \in DOMAIN local.members /\ Patch(o, local, attempt)

\* hydratePartyStateForSelfMember
Hydrate ==
  /\ Answered("hydrate")
  /\ \/ Hydrates /\ local' = Fetched /\ Patch(op, Fetched, plan.attempt)
     \/ ~Hydrates /\ Return("ErrPartyNotFound") /\ UNCHANGED local
  /\ Quiet

\* The member half of the intent is dropped once the party half is in.
PatchParty_Bug ==
  /\ Answered("partyPatch")
  /\ \/ ans.st = "stale" /\ Call("refreshStale", Get(plan.snap.id)) /\ UNCHANGED plan
     \/ Refused /\ ans.st # "stale" /\ Return(Refusal)
     \/ ans.st = "ok" /\ Call("refresh", Get(plan.snap.id)) /\ UNCHANGED plan
  /\ Quiet /\ UNCHANGED local

\* A stale patch refreshes, and so does one that was applied.
PatchParty ==
  /\ Answered("partyPatch")
  /\ \/ ans.st = "stale" /\ Call("refreshStale", Get(plan.snap.id)) /\ UNCHANGED plan
     \/ Refused /\ ans.st # "stale" /\ Return(Refusal)
     \/ /\ ans.st = "ok" /\ UNCHANGED plan
        /\ IF plan.member # Nothing
           THEN Call("memberPatch", MemberPatch(plan.snap, plan.member))
           ELSE Call("refresh", Get(plan.snap.id))
  /\ Quiet /\ UNCHANGED local

PatchMember ==
  /\ Answered("memberPatch")
  /\ \/ ans.st = "stale" /\ Call("refreshStale", Get(plan.snap.id)) /\ UNCHANGED plan
     \/ Refused /\ ans.st # "stale" /\ Return(Refusal)
     \/ ans.st = "ok" /\ Call("refresh", Get(plan.snap.id)) /\ UNCHANGED plan
  /\ Quiet /\ UNCHANGED local

Refresh ==
  /\ Answered("refresh")
  /\ \/ Refused /\ Return(Refusal) /\ UNCHANGED local
     \/ Found /\ local' = Fetched /\ Return("nil")
  /\ Quiet

\* Back off, unless this was the last attempt.
Sleep == /\ at' = "sleep" /\ req' = NoReq /\ ans' = Pending
         /\ plan' = [plan EXCEPT !.attempt = @ + 1]
         /\ UNCHANGED ret

\* The state is not refreshed: only the revision of the answer is taken over.
RefreshStale_Bug ==
  /\ Answered("refreshStale")
  /\ \/ Refused /\ Return(Refusal) /\ UNCHANGED local
     \/ /\ Found /\ local' = [local EXCEPT !.rev = Fetched.rev]
        /\ IF plan.attempt = MaxPatchRetries THEN Return("ErrPatchConflict") ELSE Sleep
  /\ Quiet

\* The answer is not stored at all.
RefreshStale_BugKept ==
  /\ Answered("refreshStale")
  /\ \/ Refused /\ Return(Refusal)
     \/ Found /\ IF plan.attempt = MaxPatchRetries THEN Return("ErrPatchConflict") ELSE Sleep
  /\ Quiet /\ UNCHANGED local

\* One retry too many.
RefreshStale_BugOne ==
  /\ Answered("refreshStale")
  /\ \/ Refused /\ Return(Refusal) /\ UNCHANGED local
     \/ /\ Found /\ local' = Fetched
        /\ IF plan.attempt > MaxPatchRetries THEN Return("ErrPatchConflict") ELSE Sleep
  /\ Quiet

RefreshStale ==
  /\ Answered("refreshStale")
  /\ \/ Refused /\ Return(Refusal) /\ UNCHANGED local
     \/ /\ Found /\ local' = Fetched
        /\ IF plan.attempt = MaxPatchRetries THEN Return("ErrPatchConflict") ELSE Sleep
  /\ Quiet

\* sleepContext returns: the next attempt, or the context's error.
WakeUp ==
  /\ at = "sleep"
  /\ \/ Try(op, plan.attempt) /\ UNCHANGED world
     \/ Return("ctx") /\ Spend("canceled") /\ UNCHANGED <<remote, inbox, changes>>
  /\ UNCHANGED <<local, decoding, op, ops>>

-----------------------------------------------------------------------------
(* A command takes opMu and runs to its first request. *)

Begin(o) ==
  /\ at = "idle" /\ o.name \in Ops
  /\ ops < MaxOps /\ ops' = ops + 1
  /\ UNCHANGED <<world, decoding>>

\* Most commands change nothing before their first answer.
Opens(o) == Begin(o) /\ op' = o /\ UNCHANGED local

BeginSync == LET o == [NoOp EXCEPT !.name = "sync"]
             IN  Opens(o) /\ Call("sync", GetUser(Self)) /\ UNCHANGED plan

\* EnsureParty and ResyncAfterReconnect
BeginEnsure == LET o == [NoOp EXCEPT !.name = "ensure"]
               IN  Opens(o) /\ Call("ensure", GetUser(Self)) /\ UNCHANGED plan

BeginCreate == LET o == [NoOp EXCEPT !.name = "create"]
               IN  Opens(o) /\ Call("create", On("create", "", Self)) /\ UNCHANGED plan

BeginJoin(p) == LET o == [NoOp EXCEPT !.name = "join"]
                IN  Begin(o) /\ JoinLocked(o, p)

BeginJoinMember(a) == LET o == [NoOp EXCEPT !.name = "joinMember", !.acct = a]
                      IN  Opens(o) /\ Call("joinMember", GetUser(a)) /\ UNCHANGED plan

BeginJoinInvite(a) == LET o == [NoOp EXCEPT !.name = "joinInvite", !.acct = a]
                      IN  Opens(o) /\ Call("joinInvite", On("pings", "", a)) /\ UNCHANGED plan

BeginRequest(a) == LET o == [NoOp EXCEPT !.name = "request", !.acct = a]
                   IN  Opens(o) /\ Call("request", On("intention", "", a)) /\ UNCHANGED plan

BeginLeave ==
  LET o == [NoOp EXCEPT !.name = "leave"]
  IN  /\ Opens(o)
      /\ IF local.id = "" THEN Return("ErrPartyNotFound")
         ELSE Call("leave", On("leave", local.id, Self)) /\ UNCHANGED plan

\* The party may be given by the caller, from an older snapshot.
BeginPromote(p, a) ==
  LET o == [NoOp EXCEPT !.name = "promote", !.party = OrElse(p, local.id), !.acct = a]
  IN  /\ Opens(o)
      /\ IF local.id = "" THEN Return("ErrPartyNotFound")
         ELSE Call("promote", On("promote", o.party, a)) /\ UNCHANGED plan

BeginSet(i) ==
  LET o == [NoOp EXCEPT !.name = "set", !.intent = i]
  IN  Opens(o) /\ Try(o, 0)

-----------------------------------------------------------------------------

Client ==
  \/ Sync \/ Ensure \/ Create \/ CreateGet \/ LeaveFirst \/ Join \/ JoinGet
  \/ JoinHydrate \/ JoinMember \/ JoinInvite \/ Request \/ Leave \/ Promote
  \/ PromoteGet \/ Hydrate \/ PatchParty \/ PatchMember \/ Refresh
  \/ RefreshStale \/ WakeUp

Application ==
  \/ BeginSync \/ BeginEnsure \/ BeginCreate \/ BeginLeave
  \/ \E p \in Parties : BeginJoin(p)
  \/ \E a \in Accounts \ {Self} : BeginJoinMember(a) \/ BeginJoinInvite(a) \/ BeginRequest(a)
  \/ \E p \in Parties \cup {""}, a \in Accounts : BeginPromote(p, a)
  \/ \E i \in Intents : BeginSet(i)

\* What a command may blame for a stale revision.
Disturbances == changes + Len(faults)

\* History, written by every step.
Watch ==
  /\ been' = IF at = "idle" /\ at' = "idle" THEN been
             ELSE (IF at = "idle" THEN {} ELSE been)
                  \cup {Home(remote, Self), Home(remote', Self)}
  /\ since' = IF at = "idle" /\ at' # "idle" THEN Disturbances ELSE since

ClientStep == Client /\ Watch
ServiceStep == Serve /\ UNCHANGED <<local, decoding, command>> /\ Watch

Step ==
  \/ Client \/ Application
  \/ Decode /\ UNCHANGED command
  \/ (Serve \/ Lose \/ Environment) /\ UNCHANGED <<local, decoding, command>>

Next == Step /\ Watch

\* The transport answers every request or fails it (its retries and its
\* context are bounded), and a command whose answer is there goes on.
Fairness == WF_vars(ClientStep) /\ WF_vars(ServiceStep)

Spec == Init /\ [][Next]_vars /\ Fairness

-----------------------------------------------------------------------------
(* Types *)

Errors == {"none", "nil", "ErrPartyNotFound", "ErrInviteNotFound", "ErrNotCaptain",
           "ErrMemberNotFound", "ErrPatchConflict", "APIError", "transport", "ctx"}
Labels == {"idle", "sync", "ensure", "create", "createGet", "leaveFirst", "join",
           "joinGet", "joinHydrate", "joinMember", "joinInvite", "request", "leave",
           "promote", "promoteGet", "hydrate", "partyPatch", "memberPatch",
           "refresh", "refreshStale", "sleep"}
Keys == PartyKeys \cup MemberKeys

IsNotification(n) ==
  /\ n \in [type : {"MEMBER_JOINED", "MEMBER_LEFT", "MEMBER_KICKED",
                    "MEMBER_NEW_CAPTAIN", "MEMBER_STATE_UPDATED", "PARTY_UPDATED"},
            party : Parties, acct : MaybeAccount, rev : Nat,
            role : {"", "MEMBER", "CAPTAIN"}, updates : {n.updates}, removed : SUBSET Keys]
  /\ IF n.type = "PARTY_UPDATED" THEN IsPartyMeta(n.updates)
     ELSE IsMeta(n.updates) /\ n.acct # ""
IsRequest(r) ==
  /\ r \in [kind : {"none", "user", "party", "create", "join", "leave", "promote",
                    "partyPatch", "memberPatch", "pings", "intention"},
            party : MaybeParty, acct : MaybeAccount, rev : Nat,
            updates : {r.updates}, base : {r.base}]
  /\ r.kind \in {"party", "join", "leave", "promote", "partyPatch", "memberPatch"}
       => r.party # ""
  /\ IF r.kind = "partyPatch" THEN IsPartyMeta(r.updates) /\ IsPartyMeta(r.base)
     ELSE IsMeta(r.updates) /\ IsMeta(r.base)
IsReducerEvent(e) ==
  /\ e \in [kind : {"idle", "joined", "updated", "gone", "party"},
            party : MaybeParty, rev : Nat, acct : MaybeAccount, member : {e.member},
            captain : MaybeAccount, playlist : Values, customKey : Values,
            updates : {e.updates}, removed : SUBSET Keys]
  /\ IsMember(e.member) /\ IsPartyMeta(e.updates)
  /\ e.kind \in {"joined", "updated", "gone"} => e.acct # ""

\* Every variable has its type, and no command makes more attempts than
\* MaxPatchRetries allows (commands.go:577).
TypeOK ==
  /\ IsWorld(remote)
  /\ inbox \in Seq({inbox[n] : n \in DOMAIN inbox})
  /\ \A n \in DOMAIN inbox : IsNotification(inbox[n])
  /\ IsRequest(req)
  /\ ans \in [st : Statuses, view : {ans.view}] /\ IsView(ans.view)
  /\ faults \in Seq(Faults) /\ Len(faults) <= MaxFaults /\ changes \in 0 .. MaxChanges
  /\ IsParty(local)
  /\ IsReducerEvent(decoding)
  /\ at \in Labels
  /\ op \in [name : Ops \cup {"none"}, party : MaybeParty, acct : MaybeAccount,
             intent : Intents \cup {NoIntent}]
  /\ plan \in [snap : {plan.snap}, member : {plan.member}, attempt : 0 .. MaxPatchRetries]
  /\ IsParty(plan.snap) /\ IsMeta(plan.member)
  /\ ret \in Errors
  /\ ops \in 0 .. MaxOps /\ since \in 0 .. MaxChanges + MaxFaults
  /\ been \subseteq MaybeParty

-----------------------------------------------------------------------------
(* Properties.  A property that notifications, faults or kicks would break *)
(* is checked without them; README.md says which and why.                  *)

Succeeded(names) == at = "idle" /\ ret = "nil" /\ op.name \in names
Happened(kinds) == \E n \in DOMAIN faults : faults[n] \in kinds
InLocalParty == local.id # "" /\ Self \in DOMAIN remote[local.id].members

\* The patch on its way would be accepted: its revision is the current one.
PartyPatchFits ==
  /\ req.kind = "partyPatch" /\ ans = Pending
  /\ req.rev = remote[req.party].rev
MemberPatchFits ==
  /\ req.kind = "memberPatch" /\ ans = Pending
  /\ Self \in DOMAIN remote[req.party].members
  /\ req.rev = remote[req.party].members[Self].rev

\* The service accepts a patch only from a client that knows what it
\* replaces: when the revision of a patch is the current one, the metadata
\* it was computed from is the current metadata (README.md:11,
\* applyIntentWithRetry).
RevisionSafe ==
  /\ PartyPatchFits => req.base = remote[req.party].meta
  /\ MemberPatchFits => req.base = remote[req.party].members[Self].meta

\* Between commands, the party the client believes it is in is the one the
\* service has it in (joinPartyLocked, leavePartyLocked), unless an exchange
\* took effect and did not say so.
LocalIDSound ==
  (at = "idle" /\ ~Happened({"lostAnswer", "resent"}))
    => local.id \in {"", Home(remote, Self)}

\* EnsureParty, ResyncAfterReconnect and LeaveParty with auto-create return
\* nil only with a party this account was a member of while they ran.
EnsureIsValid ==
  Succeeded({"ensure"} \cup (IF AutoCreate THEN {"leave"} ELSE {}))
    => local.id \in been \ {""}

\* ErrPatchConflict means contention: between any two attempts somebody
\* changed something or the transport repeated a patch (commands.go:645).
ConflictNeedsContention ==
  (at = "idle" /\ ret = "ErrPatchConflict") => Disturbances - since >= MaxPatchRetries

\* A Set that returned nil has set: the service knows every member value of
\* the intent, those that were not sent because they seemed to be there too
\* (unless an exchange was lost before, which leaves an old cache).
SetIsEffective ==
  (Succeeded({"set"}) /\ InLocalParty /\ ~Happened({"lostRequest", "lostAnswer"}))
    => \A k \in DOMAIN op.intent.member :
         Lookup(remote[local.id].members[Self].meta, k) = op.intent.member[k]

Settled == inbox = <<>> /\ decoding = Idle /\ InLocalParty

\* Once every notification is folded in, the cached party has the members,
\* the metadata and the readiness the service has.
Converges ==
  Settled =>
    LET r == remote[local.id] IN
    /\ local.meta = r.meta
    /\ DOMAIN local.members = DOMAIN r.members
    /\ \A a \in DOMAIN r.members :
         /\ local.members[a].meta = r.members[a].meta
         /\ local.members[a].ready = extractReady(Lookup(r.members[a].meta, "LobbyState"))

\* The captain too is the one the service named last.
CaptainConverges ==
  Settled => local.captain = CaptainOf(remote[local.id].members)

\* Every command returns, so the next caller gets opMu.
CommandReturns == (at # "idle") ~> (at = "idle")

-----------------------------------------------------------------------------
(* The commands seen from above: documents with revisions, a copy of some, *)
(* and at most one write.  A document is the metadata of a party, or that  *)
(* of this account in it.                                                  *)

Documents == Parties \X {"party", "self"}
Has(x, kind) == kind = "party" \/ Self \in DOMAIN x.members
Document(x, kind) ==
  IF kind = "party" THEN [rev |-> x.rev, meta |-> x.meta]
  ELSE [rev |-> x.members[Self].rev, meta |-> x.members[Self].meta]

TruthOf(r) == [d \in {e \in Documents : r[e[1]].rev # 0 /\ Has(r[e[1]], e[2])} |->
                 Document(r[d[1]], d[2])]
CopyOf(c) == [d \in {e \in Documents : e[1] = c.id /\ Has(c, e[2])} |-> Document(c, d[2])]
WriteOf(r) == [doc  |-> <<r.party, IF r.kind = "partyPatch" THEN "party" ELSE "self">>,
               rev  |-> r.rev,
               base |-> r.base,
               meta |-> Overlay(r.base, r.updates, {})]
Writing == IF ans = Pending /\ req.kind \in {"partyPatch", "memberPatch"}
           THEN {WriteOf(req)} ELSE {}
Versioned == INSTANCE VersionedCopy WITH
               truth <- TruthOf(remote), copy <- CopyOf(local), write <- Writing

\* Without notifications, a patch is a compare-and-swap of the metadata and
\* the cached party never goes back, whatever is lost, repeated or changed by
\* others (applyIntentWithRetry, refreshPartyStateByIDLocked).
ImplementsCopy == Versioned!Spec
=============================================================================
