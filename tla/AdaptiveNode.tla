--------------------------- MODULE AdaptiveNode ---------------------------
(***************************************************************************)
(* One inner node of the trie, in the four layouts of src/cas/node4.cpp,   *)
(* node16.cpp, node48.cpp and node256.cpp:                                 *)
(*   Node4, Node16  two parallel arrays, sorted by key byte;               *)
(*   Node48         a byte-indexed array of slot numbers and an array of   *)
(*                  children;                                              *)
(*   Node256        an array of children indexed by the byte.              *)
(* A node is a record; a layout leaves the arrays it does not have empty.  *)
(* Arrays are functions on 0..n-1, as in the source, and keep what earlier *)
(* operations left beyond nr_children.  The header (dimension, separator,  *)
(* prefix) that Grow moves along is part of module Insertion.              *)
(***************************************************************************)
EXTENDS Integers, Sequences, FiniteSets, Loops

CONSTANTS MaxByte,              \* the largest byte value (255)
          Cap4, Cap16, Cap48,   \* capacities of the three narrow layouts
          Child,                \* pointers to child nodes
          NULL                  \* nullptr

ASSUME CapAssumption ==
  /\ MaxByte \in Nat /\ Cap4 \in Nat /\ Cap16 \in Nat /\ Cap48 \in Nat
  /\ 0 < Cap4 /\ Cap4 < Cap16 /\ Cap16 < Cap48 /\ Cap48 <= MaxByte

ASSUME NullAssumption == NULL \notin Child

Byte == 0..MaxByte
kEmptyIndex == MaxByte          \* 0xFF, never a slot of a Node48
Sorted == {"Node4", "Node16"}
NodeType == Sorted \cup {"Node48", "Node256"}

NodeWidth(type) ==
  CASE type = "Node4"   -> Cap4
    [] type = "Node16"  -> Cap16
    [] type = "Node48"  -> Cap48
    [] type = "Node256" -> MaxByte + 1

Slots(type) == 0..(NodeWidth(type) - 1)
KeySlots(type) == IF type \in Sorted THEN Slots(type) ELSE {}
IndexSlots(type) == IF type = "Node48" THEN Byte ELSE {}

VARIABLE node

NewNode(type) ==
  [type        |-> type,
   nr_children |-> 0,
   keys        |-> [i \in KeySlots(type) |-> 0],
   indexes     |-> [b \in IndexSlots(type) |-> kEmptyIndex],
   children    |-> [i \in Slots(type) |-> NULL]]

\* Defect: a node is taken for full one child too early.
IsFullEarly(n) == n.nr_children >= NodeWidth(n.type) - 1

IsFull(n) == n.nr_children >= NodeWidth(n.type)

\* The positions of the key array that hold byte b.
Hits(n, b) == {i \in 0..(n.nr_children - 1) : n.keys[i] = b}

LocateChild(n, b) ==
  CASE n.type \in Sorted   -> IF Hits(n, b) = {} THEN NULL
                              ELSE n.children[Least(Hits(n, b))]
    [] n.type = "Node48"   -> IF n.indexes[b] = kEmptyIndex THEN NULL
                              ELSE n.children[n.indexes[b]]
    [] n.type = "Node256"  -> n.children[b]

\* The bytes that have a child.
PresentBytes(n) == {b \in Byte : LocateChild(n, b) # NULL}

-----------------------------------------------------------------------------
(* Put: the caller guarantees room and that b has no child yet.            *)

\* Defect: the memmove is missing.
InsertNoShift(array, pos, nr, x) == [array EXCEPT ![pos] = x]

\* memmove of the entries pos..nr-1 one place up, then the write at pos.
Insert(array, pos, nr, x) ==
  [i \in DOMAIN array |-> IF i = pos THEN x
                          ELSE IF i \in (pos + 1)..nr THEN array[i - 1]
                          ELSE array[i]]

PutSorted(n, b, c) ==
  LET nr  == n.nr_children
      pos == Least({i \in 0..nr : i = nr \/ b <= n.keys[i]})
  IN  [n EXCEPT !.keys = Insert(@, pos, nr, b),
                !.children = Insert(@, pos, nr, c),
                !.nr_children = nr + 1]

PutIndexed(n, b, c) ==
  LET pos == Least({i \in 0..Cap48 : i = Cap48 \/ n.children[i] = NULL})
  IN  [n EXCEPT !.indexes[b] = pos,
                !.children[pos] = c,
                !.nr_children = @ + 1]

PutDirect(n, b, c) ==
  [n EXCEPT !.children[b] = c, !.nr_children = @ + 1]

Put(n, b, c) ==
  CASE n.type \in Sorted   -> PutSorted(n, b, c)
    [] n.type = "Node48"   -> PutIndexed(n, b, c)
    [] n.type = "Node256"  -> PutDirect(n, b, c)

-----------------------------------------------------------------------------
(* Grow: the next wider layout with the same children.                     *)

\* Node4 -> Node16: both arrays are copied, the rest stays zero.
GrowTo16(n) ==
  [type        |-> "Node16",
   nr_children |-> Cap4,
   keys        |-> [i \in Slots("Node16") |-> IF i < Cap4 THEN n.keys[i] ELSE 0],
   indexes     |-> NewNode("Node16").indexes,
   children    |-> [i \in Slots("Node16") |-> IF i < Cap4 THEN n.children[i] ELSE NULL]]

\* The last position of the full Node16 n that holds b: later writes to
\* indexes_[b] win.
LastPosition(n, b) ==
  CHOOSE i \in 0..(Cap16 - 1) : /\ n.keys[i] = b
                                /\ \A j \in 0..(Cap16 - 1) : n.keys[j] = b => j <= i

Node48With(nr, n) ==
  [type        |-> "Node48",
   nr_children |-> nr,
   keys        |-> NewNode("Node48").keys,
   indexes     |-> [b \in Byte |-> IF \E i \in 0..(Cap16 - 1) : n.keys[i] = b
                                THEN LastPosition(n, b) ELSE kEmptyIndex],
   children    |-> [i \in Slots("Node48") |-> IF i < Cap16 THEN n.children[i] ELSE NULL]]

\* Defect: the literal of the narrower layout.
GrowTo48Short(n) == Node48With(Cap4, n)

\* Node16 -> Node48: child i keeps its position, its key byte points at it.
GrowTo48(n) == Node48With(Cap16, n)

\* Defect: the children are copied by slot, as the narrower layouts may.
GrowTo256BySlot(n) ==
  [NewNode("Node256") EXCEPT
     !.nr_children = Cap48,
     !.children = [b \in Byte |-> IF b < Cap48 THEN n.children[b] ELSE NULL]]

\* Node48 -> Node256: the indirection is resolved.
GrowTo256(n) ==
  [type        |-> "Node256",
   nr_children |-> Cap48,
   keys        |-> NewNode("Node256").keys,
   indexes     |-> NewNode("Node256").indexes,
   children    |-> [b \in Byte |-> IF n.indexes[b] = kEmptyIndex THEN NULL
                                  ELSE n.children[n.indexes[b]]]]

\* A Node256 cannot grow: its Grow is assert(false).
Grow(n) ==
  CASE n.type = "Node4"  -> GrowTo16(n)
    [] n.type = "Node16" -> GrowTo48(n)
    [] n.type = "Node48" -> GrowTo256(n)

-----------------------------------------------------------------------------
\* ReplaceBytePointer: the caller found a child under b before.
ReplaceBytePointer(n, b, c) ==
  CASE n.type \in Sorted   -> [n EXCEPT !.children[Least(Hits(n, b))] = c]
    [] n.type = "Node48"   -> [n EXCEPT !.children[n.indexes[b]] = c]
    [] n.type = "Node256"  -> [n EXCEPT !.children[b] = c]

-----------------------------------------------------------------------------
\* ForEachChild: the calls of the callback, in order.  The loop of a sorted
\* layout walks down from the last key, stops at the first key below low and
\* skips the keys above high; the others walk the bytes from high to low.

\* Defect: the loop stops at the key equal to low.
VisitsAboveLow(n, i, low, high) ==
  /\ \A j \in i..(n.nr_children - 1) : n.keys[j] > low
  /\ n.keys[i] <= high

Visits(n, i, low, high) ==
  /\ \A j \in i..(n.nr_children - 1) : n.keys[j] >= low
  /\ n.keys[i] <= high

ForEachChild(n, low, high) ==
  IF n.type \in Sorted
  THEN LET last    == n.nr_children - 1
           visited == DownTo(last, 0, {i \in 0..last : Visits(n, i, low, high)})
       IN  [k \in DOMAIN visited |-> <<n.keys[visited[k]], n.children[visited[k]]>>]
  ELSE LET visited == DownTo(high, low, PresentBytes(n))
       IN  [k \in DOMAIN visited |-> <<visited[k], LocateChild(n, visited[k])>>]

-----------------------------------------------------------------------------
\* A fresh node: Restructure makes a Node4, bulk loading the narrowest layout
\* that has room for the partitions.
Init == \E type \in NodeType : node = NewNode(type)

\* Insertion::AddNewLeaf, as far as it concerns the node it extends: a full
\* node is replaced by a wider one before the byte is added.
Grown == IF IsFull(node) THEN Grow(node) ELSE node

Add(b, c) ==
  /\ LocateChild(node, b) = NULL
  /\ node' = Put(Grown, b, c)

\* A split or a grown node below takes the place of the child under b.
Replace(b, c) ==
  /\ LocateChild(node, b) # NULL
  /\ node' = ReplaceBytePointer(node, b, c)

Next == \E b \in Byte, c \in Child : Add(b, c) \/ Replace(b, c)

Spec == Init /\ [][Next]_node

-----------------------------------------------------------------------------
\* The arrays have the shape of the layout: a sorted layout has strictly
\* ascending keys and no null child below nr_children; a Node48 has used the
\* slots 0..nr-1, each by exactly one byte.
NodeRecord(type) ==
  [type        : {type},
   nr_children : 0..NodeWidth(type),
   keys        : [KeySlots(type) -> Byte],
   indexes     : [IndexSlots(type) -> Byte],
   children    : [Slots(type) -> Child \cup {NULL}]]

SortedLayout(n) ==
  /\ \A i, j \in 0..(n.nr_children - 1) : i < j => n.keys[i] < n.keys[j]
  /\ \A i \in 0..(n.nr_children - 1) : n.children[i] # NULL

IndexedLayout(n) ==
  /\ \A b \in Byte : n.indexes[b] \in (0..(n.nr_children - 1)) \cup {kEmptyIndex}
  /\ \A a, b \in Byte : n.indexes[a] = n.indexes[b] =>
                          a = b \/ n.indexes[a] = kEmptyIndex
  /\ \A i \in Slots("Node48") : n.children[i] # NULL <=> i < n.nr_children

NodeOK(n) ==
  /\ n.type \in NodeType
  /\ n \in NodeRecord(n.type)
  /\ n.type \in Sorted => SortedLayout(n)
  /\ n.type = "Node48" => IndexedLayout(n)

\* Type invariant: the node is well formed in its layout.
TypeOK == NodeOK(node)

\* nr_children, which every layout maintains on its own and Grow sets to a
\* literal, counts the bytes that have a child.
CountOK == node.nr_children = Cardinality(PresentBytes(node))

\* Put never meets a full node (node4.cpp:17 and its siblings would exit the
\* process) and a Node256 is never asked to grow (node256.cpp:29 asserts):
\* when some byte has no child, growing once if needed leaves room.
RoomToGrow ==
  (\E b \in Byte : LocateChild(node, b) = NULL)
    => /\ node.type = "Node256" => ~IsFull(node)
       /\ ~IsFull(Grown)

cm == INSTANCE ChildMap WITH map <- [b \in Byte |-> LocateChild(node, b)]

\* Every layout implements the abstract map, across all widenings.
ImplementsChildMap == cm!Spec

\* A range scan calls back once for every child whose byte lies in low..high,
\* with that child, in descending order of the bytes; the query relies on the
\* set, its stack order on the direction.
ScanExact ==
  \A low, high \in Byte : low <= high =>
    LET calls == ForEachChild(node, low, high) IN
    /\ {calls[i] : i \in DOMAIN calls} = cm!Entries(low, high)
    /\ \A i, j \in DOMAIN calls : i < j => calls[i][1] > calls[j][1]
=============================================================================
