---------------------------- MODULE MCInsertion ----------------------------
(***************************************************************************)
(* Insertion on a small instance.                                          *)
(***************************************************************************)
EXTENDS InsertionInv

\* new returns the lowest free address; the model never compares addresses.
LowestFree(used) ==
  IF Node \subseteq used THEN {} ELSE {Least(Node \ used)}

MCWidths == <<2, 3>>

\* Paths with three different first bytes (a node grows from two to three), two
\* of which share a byte; values that differ in the first or the second byte.
MCPaths == {<<0>>, <<1, 0>>, <<1, 2, 0>>, <<2, 0>>}
MCValues == {<<1, 1>>, <<1, 2>>, <<2, 1>>}

\* Keys of SurrogateCas with max_depth 1: labels deeper than that are mapped
\* all the same (surrogate.cpp), so one path is a proper prefix of others.
SurrogatePaths == {<<1>>, <<1, 1>>, <<1, 2>>, <<2, 1>>, <<2, 2>>}
OneValue == {<<0>>}

-----------------------------------------------------------------------------
(* Keys that are a prefix of others                                         *)

IsPrefixKey(j, k) ==
  /\ j # k
  /\ Len(j.path) <= Len(k.path) /\ SubSeq(k.path, 1, Len(j.path)) = j.path
  /\ Len(j.value) <= Len(k.value) /\ SubSeq(k.value, 1, Len(j.value)) = j.value

\* The comment "bkey_ is a prefix of an existing key" above the last return of
\* Execute (insertion.cpp:48): such a key is not inserted.
PrefixKeyRejected ==
  [][pc = "locate" /\ pc' = "idle"
     /\ (\E k \in Key : content[k] # <<>> /\ IsPrefixKey(BKey, k))
     => UNCHANGED <<root, heap, nr_keys>>]_vars
=============================================================================
