----------------------------- MODULE IndexSpec -----------------------------
(***************************************************************************)
(* What the index promises its user: every key owns the references         *)
(* inserted under it, in the order of insertion; an insertion touches no   *)
(* other key.                                                              *)
(***************************************************************************)
EXTENDS Sequences

CONSTANTS Key, Ref

VARIABLE content

Init == content = [k \in Key |-> <<>>]

Insert(k, r) ==
  /\ content'[k] = Append(content[k], r)
  /\ \A j \in Key \ {k} : content'[j] = content[j]

Next == \E k \in Key, r \in Ref : Insert(k, r)

Spec == Init /\ [][Next]_content
=============================================================================
