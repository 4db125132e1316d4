---------------------------- MODULE VersionedCopy ----------------------------
(***************************************************************************)
(* What party.Commands and the party service promise about metadata when   *)
(* the client hears of the party only by asking.  The metadata of a party  *)
(* and of a member are documents with a revision.  The service has them    *)
(* (truth); the client has a copy of some (copy), perhaps an old one, and  *)
(* replaces what it has by something newer only.  It writes one document   *)
(* at a time, and the write is a compare-and-swap: it takes effect only    *)
(* while the document is, revision and contents, the one that the new      *)
(* contents were computed from.                                            *)
(*                                                                         *)
(* There is no command here, no retry, no answer and no fault but that a   *)
(* write may be refused, or be served again when it took effect.           *)
(* PartySync implements this specification (PartySync!ImplementsCopy): a   *)
(* service that compares revisions alone never swaps unseen contents.      *)
(***************************************************************************)
EXTENDS Naturals

VARIABLES truth,  \* the documents of the service, [rev, meta] each
          copy,   \* those the client knows, as it knows them
          write   \* the write under way: {} or {[doc, rev, base, meta]}

vars == <<truth, copy, write>>

\* v is w or older than w.
UpTo(v, w) == v.rev <= w.rev /\ (v.rev = w.rev => v.meta = w.meta)
\* What both have is not newer in m than in n.
Behind(m, n) == \A d \in DOMAIN m \cap DOMAIN n : UpTo(m[d], n[d])

\* The contents to be replaced are those of the copy.
Computed(w, from) ==
  w.doc \in DOMAIN from /\ from[w.doc] = [rev |-> w.rev, meta |-> w.base]

Init == Behind(copy, truth) /\ write = {}

\* Documents are changed, come and go.  What comes was never copied.
Change ==
  /\ Behind(truth, truth')
  /\ (DOMAIN truth' \ DOMAIN truth) \cap DOMAIN copy = {}
  /\ UNCHANGED <<copy, write>>

\* The client replaces, extends or drops copies, and may then begin a write.
Read ==
  /\ write = {}
  /\ Behind(copy, copy') /\ Behind(copy', truth)
  /\ write' = {} \/ \E w \in write' : write' = {w} /\ Computed(w, copy')
  /\ UNCHANGED truth

\* The compare-and-swap.  A write whose answer is not known is served again.
Accept ==
  \E w \in write :
    /\ Computed(w, truth)
    /\ truth' = [truth EXCEPT ![w.doc] = [rev |-> w.rev + 1, meta |-> w.meta]]
    /\ write' \in {{}, write}
    /\ UNCHANGED copy

Refuse == write # {} /\ write' = {} /\ UNCHANGED <<truth, copy>>

Next == Change \/ Read \/ Accept \/ Refuse

Spec == Init /\ [][Next]_vars
=============================================================================
