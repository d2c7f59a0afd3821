------------------------------- MODULE Trie -------------------------------
(***************************************************************************)
(* The data the index is made of: two-dimensional binary keys (binary_key) *)
(* and the nodes of the trie (node.hpp, node0.cpp).  The trie lives in a   *)
(* heap, a function from the addresses of the allocated nodes to records.  *)
(* The children of an inner node are the map that module ChildMap promises *)
(* and AdaptiveNode delivers; of the four layouts only the capacity stays. *)
(* Sequences count from 1, the positions of the source from 0.             *)
(***************************************************************************)
EXTENDS Integers, Sequences, FiniteSets, Loops

CONSTANTS MaxByte,    \* the largest byte value (255)
          Widths,     \* capacities of the node types, <<4, 16, 48, 256>>
          Paths,      \* encoded paths that occur in keys
          Values,     \* encoded values that occur in keys
          Ref,        \* references to the indexed records
          Node,       \* addresses a node may have
          nullptr,    \* the null pointer
          Malloc(_)   \* the addresses "new" may return, given those in use

Byte == 0..MaxByte

ASSUME ByteAssumption == MaxByte \in Nat

\* Two children fit into the narrowest node, all bytes into the widest.
ASSUME WidthAssumption ==
  /\ Widths \in Seq(Nat) /\ Len(Widths) > 0
  /\ \A i \in 1..Len(Widths) : Widths[i] >= 2
  /\ \A i, j \in 1..Len(Widths) : i < j => Widths[i] < Widths[j]
  /\ Widths[Len(Widths)] = MaxByte + 1

ASSUME KeyAssumption == Paths \subseteq Seq(Byte) /\ Values \subseteq Seq(Byte)

ASSUME HeapAssumption ==
  /\ nullptr \notin Node
  /\ \A used \in SUBSET Node : Malloc(used) \subseteq Node \ used

Key == [path : Paths, value : Values]

Dimension == {"Path", "Value"}

\* Module FrontEndProofs shows that encoded keys are prefix-free.
PrefixFree == PrefixFreeSet(Paths) /\ PrefixFreeSet(Values)

\* Key k has a byte in dimension d behind its first p path and v value bytes;
\* that byte; the steps to the positions behind it.
HasByte(k, d, p, v) == IF d = "Path" THEN p < Len(k.path) ELSE v < Len(k.value)
ByteAt(k, d, p, v)  == IF d = "Path" THEN k.path[p + 1] ELSE k.value[v + 1]
PathStep(d)  == IF d = "Path" THEN 1 ELSE 0
ValueStep(d) == IF d = "Path" THEN 0 ELSE 1

-----------------------------------------------------------------------------
NoChildren == [b \in Byte |-> nullptr]

\* Node0(bkey, path_pos, value_pos): the bytes of the key from these
\* positions on, the path bytes first.
NewLeaf(key, p, v, r) ==
  [dim      |-> "Leaf",
   prefix   |-> From(key.path, p) \o From(key.value, v),
   sep      |-> Len(key.path) - p,
   children |-> NoChildren,
   layout   |-> 0,
   refs     |-> <<r>>]

\* Put: child c under byte b.
Put(n, b, c) == [n EXCEPT !.children[b] = c]

\* A fresh Node4.
NewNode4(d, prefix, sep) ==
  [dim      |-> d,
   prefix   |-> prefix,
   sep      |-> sep,
   children |-> NoChildren,
   layout   |-> 1,
   refs     |-> <<>>]

NrChildren(n) == Cardinality({b \in Byte : n.children[b] # nullptr})

\* Defect: one child too many fits.
IsOverfull(n) == NrChildren(n) > Widths[n.layout]

IsFull(n) == NrChildren(n) >= Widths[n.layout]

\* Grow: the header and the children move to the next layout.
Grow(n) == [n EXCEPT !.layout = @ + 1]

InnerNode ==
  [dim : Dimension, prefix : Seq(Byte), sep : Nat,
   children : [Byte -> Node \cup {nullptr}],
   layout : 1..Len(Widths), refs : {<<>>}]

LeafNode ==
  [dim : {"Leaf"}, prefix : Seq(Byte), sep : Nat,
   children : {NoChildren}, layout : {0}, refs : Seq(Ref)]

NodeRecord == {n \in InnerNode \cup LeafNode : n.sep <= Len(n.prefix)}
=============================================================================
