------------------------------ MODULE BulkLoad ------------------------------
(***************************************************************************)
(* Cas for the dynamic index: single insertions and BulkLoad (cas.cpp),    *)
(* which builds a whole trie from a deque of keys (bulk_load.cpp).  Every  *)
(* call of the recursive Construct is a step: it makes the node of one     *)
(* partition of the keys, hangs it under its parent and leaves the calls   *)
(* for the partitions below to be made.  These calls share nothing, so     *)
(* todo is a set.  A child is linked when it is made, in the source when   *)
(* the call that made it returns; nothing looks at the trie in between.    *)
(***************************************************************************)
EXTENDS InsertionInv

CONSTANTS Loads,     \* the deques of keys that are loaded
          MaxLoads   \* bound: bulk loads

ASSUME LoadAssumption ==
  \A ks \in Loads : ks \in Seq([path : Paths, value : Values, ref : Ref])

VARIABLES keys,      \* BulkLoad::keys_
          todo,      \* the calls of Construct that are still to be made
          nr_loads,
          leaked     \* number of nodes that nothing points to any more

lvars == <<keys, todo, nr_loads, leaked>>

CasInit == Init /\ keys = <<>> /\ todo = {} /\ nr_loads = 0 /\ leaked = 0

DoesNotExist == -1

\* The arguments of Construct, and the link that its result goes to: the entry
\* of parent under byte, or root_.
Call(indexes, dp, dv, dimension, parent, byte) ==
  [indexes |-> indexes, dp |-> dp, dv |-> dv, dimension |-> dimension,
   parent |-> parent, byte |-> byte]

KeyOf(ks, i) == [path |-> ks[i].path, value |-> ks[i].value]
String(i, d) == IF d = "Path" THEN keys[i].path ELSE keys[i].value
First(indexes) == Least(indexes)

\* Defect: only the first and the last key of the deque are compared.
DiscriminativeOfTwo(indexes, d, lower_bound) ==
  LET s == String(First(indexes), d)
      last == CHOOSE i \in indexes : \A j \in indexes : j <= i
      diff == {x \in lower_bound..(Len(s) - 1) : String(last, d)[x + 1] # s[x + 1]}
  IN  IF lower_bound = DoesNotExist \/ diff = {} THEN DoesNotExist ELSE Least(diff)

\* String i has another byte at position x than the string s.
Disagrees(s, i, d, x) == x < Len(String(i, d)) /\ String(i, d)[x + 1] # s[x + 1]

\* The first position from lower_bound on in which the strings differ.
DiscriminativeByte(indexes, d, lower_bound) ==
  LET s == String(First(indexes), d)
      diff == {x \in lower_bound..(Len(s) - 1) : \E i \in indexes : Disagrees(s, i, d, x)}
  IN  IF lower_bound = DoesNotExist \/ diff = {} THEN DoesNotExist ELSE Least(diff)

\* It reads a string behind its end: the first string is longer, and no string
\* before this one ends the search at the position.
ScanBehind(indexes, d, lower_bound) ==
  LET s == String(First(indexes), d)
      pos == DiscriminativeByte(indexes, d, lower_bound)
  IN  /\ lower_bound # DoesNotExist
      /\ \E i \in indexes, x \in lower_bound..(Len(s) - 1) :
           /\ x >= Len(String(i, d)) /\ (pos # DoesNotExist => x <= pos)
           /\ \A j \in indexes : j < i => ~Disagrees(s, j, d, x)

\* BuildPrefix: the bytes of a string from one discriminative byte to the next.
End(s, pos) == IF pos = DoesNotExist THEN Len(s) ELSE pos
Part(s, from, to) == SubSeq(s, End(s, from) + 1, End(s, to))

\* The references of the keys with these indexes, in the order of the deque.
RefsOf(ks, indexes) ==
  LET f == CHOOSE f \in [1..Cardinality(indexes) -> indexes] :
             \A i, j \in DOMAIN f : i < j => f[i] < f[j]
  IN  [i \in 1..Cardinality(indexes) |-> ks[f[i]].ref]

\* Defect: a node type with one child too little room is taken.
LayoutTooNarrow(n) == Least({i \in DOMAIN Widths : n <= Widths[i] + 1})

\* The narrowest node with room for n children.
Layout(n) == Least({i \in DOMAIN Widths : n <= Widths[i]})

\* Partition: the indexes by the byte at position disc_byte.
Partition(indexes, d, disc_byte) ==
  [b \in {String(i, d)[disc_byte + 1] : i \in indexes} |->
     {i \in indexes : String(i, d)[disc_byte + 1] = b}]

\* Defect: the calls below look at the discriminative byte again.
PositionStays(pos, d, dimension) == pos

\* Where the partitions below dimension d go on in dimension e.
Position(pos, d, e) == IF d = e THEN pos + 1 ELSE pos

-----------------------------------------------------------------------------
\* The link that led to the call now leads to n.
Link(h, c, n) ==
  IF c.parent = nullptr
  THEN root' = n /\ heap' = h
  ELSE root' = root /\ heap' = [h EXCEPT ![c.parent] = Put(@, c.byte, n)]

PathByteOf(c)  == DiscriminativeByte(c.indexes, "Path", c.dp)
ValueByteOf(c) == DiscriminativeByte(c.indexes, "Value", c.dv)
AtLeaf(c) == PathByteOf(c) = DoesNotExist /\ ValueByteOf(c) = DoesNotExist

\* The part of a node's record that BuildPrefix fills.
PathPrefix(c)  == Part(keys[First(c.indexes)].path, c.dp, PathByteOf(c))
ValuePrefix(c) == Part(keys[First(c.indexes)].value, c.dv, ValueByteOf(c))

\* Defect: no key is expected twice.
ConstructLeafOfOne(c) ==
  /\ AtLeaf(c) /\ Cardinality(c.indexes) = 1
  /\ \E n \in Malloc(DOMAIN heap) :
       Link([m \in DOMAIN heap \cup {n} |->
               IF m = n THEN NewLeaf(KeyOf(keys, First(c.indexes)), End(keys[First(c.indexes)].path, c.dp),
                                     End(keys[First(c.indexes)].value, c.dv), keys[First(c.indexes)].ref)
               ELSE heap[m]], c, n)
  /\ todo' = todo \ {c}

ConstructLeaf(c) ==
  /\ AtLeaf(c)
  /\ \E n \in Malloc(DOMAIN heap) :
       Link([m \in DOMAIN heap \cup {n} |->
               IF m = n THEN [dim |-> "Leaf", prefix |-> PathPrefix(c) \o ValuePrefix(c),
                              sep |-> Len(PathPrefix(c)), children |-> NoChildren,
                              layout |-> 0, refs |-> RefsOf(keys, c.indexes)]
               ELSE heap[m]], c, n)
  /\ todo' = todo \ {c}

\* The dimension alternates, unless the keys differ only in the other one.
SplitDimension(c) ==
  IF c.dimension = "Path" /\ PathByteOf(c) = DoesNotExist THEN "Value"
  ELSE IF c.dimension = "Value" /\ ValueByteOf(c) = DoesNotExist THEN "Path"
  ELSE c.dimension

\* A string is too short for the search, or for Partition.
ReadsBehind(c) ==
  \/ ScanBehind(c.indexes, "Path", c.dp) \/ ScanBehind(c.indexes, "Value", c.dv)
  \/ /\ ~AtLeaf(c)
     /\ LET d == SplitDimension(c)
            disc_byte == IF d = "Path" THEN PathByteOf(c) ELSE ValueByteOf(c)
        IN  \E i \in c.indexes : disc_byte >= Len(String(i, d))

ConstructInner(c) ==
  /\ ~AtLeaf(c)
  /\ LET d == SplitDimension(c)
         partitions == Partition(c.indexes, d, IF d = "Path" THEN PathByteOf(c)
                                                             ELSE ValueByteOf(c))
     IN  \E n \in Malloc(DOMAIN heap) :
           /\ Link([m \in DOMAIN heap \cup {n} |->
                      IF m = n THEN [dim |-> d, prefix |-> PathPrefix(c) \o ValuePrefix(c),
                                     sep |-> Len(PathPrefix(c)), children |-> NoChildren,
                                     layout |-> Layout(Cardinality(DOMAIN partitions)),
                                     refs |-> <<>>]
                      ELSE heap[m]], c, n)
           /\ todo' = (todo \ {c}) \cup
                {Call(partitions[b], Position(PathByteOf(c), d, "Path"),
                      Position(ValueByteOf(c), d, "Value"), Opposite(d), n, b) :
                   b \in DOMAIN partitions}

ConstructNode ==
  /\ \E c \in todo : ~ReadsBehind(c) /\ (ConstructLeaf(c) \/ ConstructInner(c))
  /\ UNCHANGED <<nr_keys, pc, bkey, loc, content, keys, nr_loads, leaked>>

\* Undefined behaviour, where the model stops.
ReadBehindString ==
  /\ \E c \in todo : ReadsBehind(c)
  /\ pc' = "undefined"
  /\ UNCHANGED <<root, heap, nr_keys, bkey, loc, content, lvars>>

Construct == pc = "idle" /\ (ConstructNode \/ ReadBehindString)

\* Defect: Execute lacks the test for an empty deque.
StartLoadEmpty(ks) ==
  /\ pc = "idle" /\ todo = {} /\ nr_loads < MaxLoads
  /\ nr_loads' = nr_loads + 1
  /\ keys' = ks
  /\ todo' = {Call(DOMAIN ks, 0, 0, "Value", nullptr, 0)}
  /\ UNCHANGED <<vars, leaked>>

\* Cas::BulkLoad and BulkLoad::Execute.  Whatever the index held before is
\* forgotten: root_ and nr_keys_ are overwritten, its nodes are not deleted.
StartLoad(ks) ==
  /\ pc = "idle" /\ todo = {} /\ nr_loads < MaxLoads
  /\ nr_loads' = nr_loads + 1
  /\ keys' = ks
  /\ todo' = IF ks = <<>> THEN {}
             ELSE {Call(DOMAIN ks, 0, 0, "Value", nullptr, 0)}
  /\ leaked' = leaked + Cardinality(DOMAIN heap)
  /\ heap' = [n \in {} |-> nullptr]
  /\ root' = nullptr
  /\ nr_keys' = Len(ks)
  /\ content' = [k \in Key |-> RefsOf(ks, {i \in DOMAIN ks : KeyOf(ks, i) = k})]
  /\ UNCHANGED <<pc, bkey, loc>>

CasNext ==
  \/ todo = {} /\ Next /\ UNCHANGED lvars
  \/ Construct
  \/ \E ks \in Loads : StartLoad(ks)

CasSpec == CasInit /\ [][CasNext]_<<vars, lvars>>

\* The program is sequential: a call that has begun runs on.
CasFairSpec == /\ CasSpec
               /\ WF_<<vars, lvars>>(Construct)
               /\ WF_<<vars, lvars>>(LocateSteps /\ UNCHANGED lvars)

-----------------------------------------------------------------------------
CallRecord ==
  [indexes : (SUBSET DOMAIN keys) \ {{}}, dp : Nat \cup {DoesNotExist},
   dv : Nat \cup {DoesNotExist}, dimension : Dimension,
   parent : DOMAIN heap \cup {nullptr}, byte : Byte]

\* Type invariant.
CasTypeOK ==
  /\ TypeOK
  /\ keys \in Seq([path : Paths, value : Values, ref : Ref])
  /\ todo \subseteq CallRecord
  /\ nr_loads \in Nat /\ leaked \in Nat
  /\ todo # {} => pc = "idle"

\* While the trie is built every key of the deque is in exactly one place: in
\* the partition of one pending call or in a leaf, with all keys equal to it.
\* The keys of a partition agree in all bytes before its two positions, so no
\* string of it is read behind its end.
KeysCovered ==
  todo # {} =>
    /\ \A i \in DOMAIN keys :
         LET here == {c \in todo : i \in c.indexes}
             leaves == {n \in DOMAIN heap : heap[n].refs # <<>> /\
                          heap[n].refs = content[KeyOf(keys, i)]}
         IN  \/ \E c \in here : here = {c}
             \/ here = {} /\ leaves # {}
    /\ \A c \in todo : \A i \in c.indexes :
         LET a == KeyOf(keys, First(c.indexes)) IN
         Agree(a, KeyOf(keys, i), End(a.path, c.dp), End(a.value, c.dv))

\* Construct returns: every call is made.
LoadEnds == todo # {} ~> todo = {}
=============================================================================
