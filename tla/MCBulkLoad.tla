----------------------------- MODULE MCBulkLoad -----------------------------
(***************************************************************************)
(* Bulk loads and insertions in the same index, on a small instance.       *)
(***************************************************************************)
EXTENDS BulkLoadInv, MCInsertion

LOCAL INSTANCE SequencesExt
LOCAL INSTANCE FiniteSetsExt

CONSTANTS MaxDeque   \* keys of a deque

\* Two values that share a byte.
TwoValues == {<<1, 1>>, <<1, 2>>}

\* Deques of different keys, in one order each, and deques that end with the
\* first of their keys again.
Deques ==
  LET distinct == {SetToSeq(S) : S \in UNION {kSubset(l, Key) : l \in 0..MaxDeque}}
      repeated == {Append(q, q[1]) : q \in {q \in distinct : Len(q) \in 1..(MaxDeque - 1)}}
  IN  {[i \in DOMAIN q |-> [path |-> q[i].path, value |-> q[i].value,
                            ref |-> CHOOSE r \in Ref : TRUE]] : q \in distinct \cup repeated}
=============================================================================
