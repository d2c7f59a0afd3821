----------------------------- MODULE ChildMap -----------------------------
(***************************************************************************)
(* What an inner node of the trie promises to the rest of the index,       *)
(* whatever its width: a finite map from a discriminative byte to a child. *)
(* LocateChild reads it, Put extends it, ReplaceBytePointer overwrites an  *)
(* entry.  Widening a node (Grow) is invisible here.                       *)
(***************************************************************************)
EXTENDS Integers

CONSTANTS Byte,       \* the byte values, an interval of integers
          Child,      \* pointers to child nodes
          NULL        \* nullptr: no child under that byte

VARIABLE map

Init == map = [b \in Byte |-> NULL]

\* Node::Put: a child for a byte that has none.
Put(b, c) ==
  /\ map[b] = NULL
  /\ map' = [map EXCEPT ![b] = c]

\* Node::ReplaceBytePointer: the child of a byte that has one is exchanged.
Replace(b, c) ==
  /\ map[b] # NULL
  /\ map' = [map EXCEPT ![b] = c]

Next == \E b \in Byte, c \in Child : Put(b, c) \/ Replace(b, c)

Spec == Init /\ [][Next]_map

\* The entries an ordered range scan over low..high has to deliver.
Entries(low, high) == {<<b, map[b]>> : b \in {x \in low..high : map[x] # NULL}}
=============================================================================
