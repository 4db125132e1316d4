---------------------------- MODULE MCPartySync ----------------------------
(* Small instances of PartySync: two other accounts, two or three parties. *)
EXTENDS PartySync, TLC

Says(k, v) == k :> v
Plays(role, meta) == [role |-> role, rev |-> 0, meta |-> meta]
With(members) == [rev |-> 1, meta |-> Nothing, members |-> members]

\* This account is the captain of p1; another one is the captain of p2.
Leading == [p \in Parties |->
  CASE p = "p1" -> With("me" :> Plays("CAPTAIN", Nothing) @@ "ann" :> Plays("MEMBER", Nothing))
    [] p = "p2" -> With("bob" :> Plays("CAPTAIN", Nothing))
    [] OTHER -> Unborn]

\* This account is a member of the party of another one.
Following == [p \in Parties |->
  CASE p = "p1" -> With("ann" :> Plays("CAPTAIN", Nothing) @@ "me" :> Plays("MEMBER", Nothing))
    [] OTHER -> Unborn]

\* This account is in no party.
Alone == [p \in Parties |->
  IF p = "p2" THEN With("bob" :> Plays("CAPTAIN", Nothing)) ELSE Unborn]

OneWorld == {Leading}
MemberWorld == {Following}
PartyWorlds == {Leading, Following}
AnyWorld == {Leading, Following, Alone}

SetKey == {[party |-> Says("CustomMatchKey", v), member |-> Nothing] : v \in {"k", "l"}}
SetReady == {[party |-> Nothing, member |-> Says("LobbyState", v)] : v \in {"Ready", "NotReady"}}
SetPlaylist == {[party |-> Says("SelectedIsland", "k"), member |-> Says("MatchmakingInfo", "k")]}
AllIntents == SetKey \cup SetReady \cup SetPlaylist

Writes(k, vs) == {[updates |-> Says(k, v), removed |-> {}] : v \in vs}
Removes(k) == {[updates |-> Nothing, removed |-> {k}]}
KeyDeltas == Writes("CustomMatchKey", {"l"})
PartyChanges == Writes("CustomMatchKey", {"k", "l"}) \cup Removes("CustomMatchKey")
MemberChanges ==
  Writes("LobbyState", {"Ready"}) \cup Writes("FrontendEmote", {"k"}) \cup Removes("LobbyState")
NoDeltas == {}
=============================================================================
