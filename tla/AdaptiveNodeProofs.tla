------------------------ MODULE AdaptiveNodeProofs ------------------------
(***************************************************************************)
(* Proofs about AdaptiveNode: every layout stays well formed, implements   *)
(* ChildMap across all widenings, counts its children correctly, always    *)
(* has room for the byte it is asked to take, and is scanned in order.     *)
(***************************************************************************)
EXTENDS AdaptiveNode, LoopsProofs, FiniteSetTheorems, TLAPS

-----------------------------------------------------------------------------
(* The operations, layout by layout.                                        *)

\* The loop that searches the position of a byte in the sorted layouts.
Position(n, b) == Least({i \in 0..n.nr_children : i = n.nr_children \/ b <= n.keys[i]})

LEMMA PositionIsSorted ==
  ASSUME NEW n, NodeOK(n), n.type \in Sorted, ~IsFull(n), NEW b \in Byte
  PROVE  /\ Position(n, b) \in 0..n.nr_children
         /\ \A i \in 0..(n.nr_children - 1) : i < Position(n, b) <=> n.keys[i] < b
<1> DEFINE S == {i \in 0..n.nr_children : i = n.nr_children \/ b <= n.keys[i]}
           m == Least(S)
<1>1. n.nr_children \in Nat /\ n.keys \in [Slots(n.type) -> Byte]
      /\ n.nr_children < NodeWidth(n.type) /\ NodeWidth(n.type) \in Nat
  BY CapAssumption DEF NodeOK, NodeRecord, KeySlots, IsFull, NodeWidth, Sorted, NodeType
<1>2. S \subseteq Nat /\ n.nr_children \in S
  BY <1>1
<1>3. m \in S /\ \A j \in S : m <= j
  <2> HIDE DEF S
  <2> QED  BY <1>2, LeastIsLeast
<1>4. /\ m \in 0..n.nr_children
      /\ m = n.nr_children \/ b <= n.keys[m]
      /\ \A j \in 0..n.nr_children : j = n.nr_children \/ b <= n.keys[j] => m <= j
  BY <1>3
<1>5. \A i \in 0..(n.nr_children - 1) : n.keys[i] \in Int
  BY <1>1 DEF Slots, Byte
<1>6. b \in Int
  BY DEF Byte
<1>7. \A i, j \in 0..(n.nr_children - 1) : i < j => n.keys[i] < n.keys[j]
  BY DEF NodeOK, SortedLayout
<1> HIDE DEF m
<1>8. \A i \in 0..(n.nr_children - 1) : i < m <=> n.keys[i] < b
  BY <1>1, <1>4, <1>5, <1>6, <1>7
<1> QED
  BY <1>4, <1>8 DEF Position, m

LEMMA Widths ==
  /\ \A type \in NodeType : NodeWidth(type) \in Nat /\ NodeWidth(type) > 0
  /\ NodeWidth("Node4") = Cap4 /\ NodeWidth("Node16") = Cap16
  /\ NodeWidth("Node48") = Cap48 /\ NodeWidth("Node256") = MaxByte + 1
BY CapAssumption DEF NodeWidth, NodeType, Sorted

\* What NodeOK says of a sorted layout, fact by fact.
LEMMA SortedFacts ==
  ASSUME NEW n, NodeOK(n), n.type \in Sorted
  PROVE  /\ NodeWidth(n.type) \in Nat /\ n.nr_children \in 0..NodeWidth(n.type)
         /\ n.keys \in [Slots(n.type) -> Byte]
         /\ n.children \in [Slots(n.type) -> Child \cup {NULL}]
         /\ n.indexes \in [{} -> Byte]
         /\ n = [type |-> n.type, nr_children |-> n.nr_children, keys |-> n.keys,
                 indexes |-> n.indexes, children |-> n.children]
         /\ \A i, j \in 0..(n.nr_children - 1) : i < j => n.keys[i] < n.keys[j]
         /\ \A i \in 0..(n.nr_children - 1) :
              i \in Slots(n.type) /\ n.children[i] # NULL /\ n.keys[i] \in Byte
<1>1. NodeWidth(n.type) \in Nat /\ n.nr_children \in 0..NodeWidth(n.type)
  BY Widths DEF NodeOK, NodeRecord, NodeType
<1>2. /\ n.keys \in [Slots(n.type) -> Byte] /\ n.indexes \in [{} -> Byte]
      /\ n.children \in [Slots(n.type) -> Child \cup {NULL}]
      /\ n = [type |-> n.type, nr_children |-> n.nr_children, keys |-> n.keys,
              indexes |-> n.indexes, children |-> n.children]
  BY DEF NodeOK, NodeRecord, KeySlots, IndexSlots, Sorted
<1>3. \A i \in 0..(n.nr_children - 1) : i \in Slots(n.type)
  BY <1>1 DEF Slots
<1> QED
  BY <1>1, <1>2, <1>3 DEF NodeOK, SortedLayout

\* In a sorted layout the byte at position i leads to the child at position i,
\* and a byte that is at no position leads nowhere.
LEMMA SortedLookup ==
  ASSUME NEW n, NodeOK(n), n.type \in Sorted
  PROVE  /\ \A i \in 0..(n.nr_children - 1) : LocateChild(n, n.keys[i]) = n.children[i]
         /\ \A b : (\A i \in 0..(n.nr_children - 1) : n.keys[i] # b)
                     => LocateChild(n, b) = NULL
<1>1. n.nr_children \in Nat
  BY SortedFacts, Widths
<1>2. ASSUME NEW i \in 0..(n.nr_children - 1)
      PROVE  LocateChild(n, n.keys[i]) = n.children[i]
  <2> DEFINE H == Hits(n, n.keys[i])
  <2>1. H \subseteq Nat /\ i \in H
    BY <1>1 DEF Hits
  <2>2. Least(H) \in H
    <3> HIDE DEF H
    <3> QED  BY <2>1, LeastIsLeast
  <2>3. \A j \in 0..(n.nr_children - 1) : j # i => n.keys[j] # n.keys[i]
    <3>1. \A j \in 0..(n.nr_children - 1) : n.keys[j] \in Int
      BY SortedFacts DEF Byte
    <3> QED  BY <3>1, SortedFacts, <1>1
  <2>4. Least(H) = i
    BY <2>2, <2>3 DEF Hits
  <2> QED  BY <2>1, <2>4 DEF LocateChild, Sorted
<1>3. ASSUME NEW b, \A i \in 0..(n.nr_children - 1) : n.keys[i] # b
      PROVE  LocateChild(n, b) = NULL
  <2>1. Hits(n, b) = {}
    BY <1>3 DEF Hits
  <2> QED  BY <2>1 DEF LocateChild, Sorted
<1> QED  BY <1>2, <1>3

\* What the three operations owe to ChildMap: m is n with b mapped to c.
Maps(m, n, b, c) ==
  \A x \in Byte : LocateChild(m, x) = IF x = b THEN c ELSE LocateChild(n, x)

\* Put into a sorted layout that has room and not the byte.
LEMMA PutSortedOK ==
  ASSUME NEW n, NodeOK(n), n.type \in Sorted, ~IsFull(n),
         NEW b \in Byte, NEW c \in Child, LocateChild(n, b) = NULL
  PROVE  /\ NodeOK(PutSorted(n, b, c)) /\ Maps(PutSorted(n, b, c), n, b, c)
         /\ PutSorted(n, b, c).nr_children = n.nr_children + 1
         /\ PutSorted(n, b, c).type = n.type
<1> DEFINE nr  == n.nr_children
           pos == Position(n, b)
           m   == PutSorted(n, b, c)
<1>1. /\ nr \in Nat /\ nr < NodeWidth(n.type) /\ NodeWidth(n.type) \in Nat
      /\ Slots(n.type) = 0..(NodeWidth(n.type) - 1)
  BY SortedFacts DEF IsFull, Slots
<1>2. pos \in 0..nr /\ \A i \in 0..(nr - 1) : i < pos <=> n.keys[i] < b
  BY PositionIsSorted
<1>3. \A i \in 0..(nr - 1) : n.keys[i] # b /\ n.keys[i] \in Int /\ b \in Int
  BY SortedLookup, SortedFacts DEF Byte
<1>4. m = [type |-> n.type, nr_children |-> nr + 1, keys |-> Insert(n.keys, pos, nr, b),
           indexes |-> n.indexes, children |-> Insert(n.children, pos, nr, c)]
  <2>1. n = [type |-> n.type, nr_children |-> nr, keys |-> n.keys,
             indexes |-> n.indexes, children |-> n.children]
    BY SortedFacts
  <2>2. m = [n EXCEPT !.keys = Insert(n.keys, pos, nr, b),
                      !.children = Insert(n.children, pos, nr, c),
                      !.nr_children = nr + 1]
    BY <2>1 DEF PutSorted, Position
  <2> HIDE DEF m, pos
  <2> QED  BY <2>1, <2>2
<1> HIDE DEF m, pos
<1>5. \A i \in Slots(n.type) :
        /\ m.keys[i] = IF i = pos THEN b
                       ELSE IF i \in (pos + 1)..nr THEN n.keys[i - 1] ELSE n.keys[i]
        /\ m.children[i] = IF i = pos THEN c
                           ELSE IF i \in (pos + 1)..nr THEN n.children[i - 1] ELSE n.children[i]
  BY <1>4, SortedFacts DEF Insert
<1>6. \A i \in 0..nr : i \in Slots(n.type) /\ (i # 0 => i - 1 \in Slots(n.type))
  BY <1>1
<1>11. \A i \in 0..nr :
         /\ i < pos => m.keys[i] = n.keys[i] /\ m.children[i] = n.children[i]
         /\ i = pos => m.keys[i] = b /\ m.children[i] = c
         /\ i > pos => m.keys[i] = n.keys[i - 1] /\ m.children[i] = n.children[i - 1]
  <2> TAKE i \in 0..nr
  <2>1. i \in Slots(n.type)
    BY <1>6
  <2>2. i > pos => i \in (pos + 1)..nr
    BY <1>1, <1>2
  <2>3. i < pos => i \notin (pos + 1)..nr /\ i # pos
    BY <1>1, <1>2
  <2>4. i > pos => i # pos
    BY <1>1, <1>2
  <2> QED  BY <2>1, <2>2, <2>3, <2>4, <1>5
<1>7. m \in NodeRecord(m.type) /\ m.type = n.type /\ m.nr_children = nr + 1
  <2>1. Insert(n.keys, pos, nr, b) \in [Slots(n.type) -> Byte]
    BY SortedFacts, <1>1, <1>2, <1>6 DEF Insert
  <2>2. Insert(n.children, pos, nr, c) \in [Slots(n.type) -> Child \cup {NULL}]
    BY SortedFacts, <1>1, <1>2, <1>6 DEF Insert
  <2> QED
    <3>1. m.type = n.type /\ m.nr_children = nr + 1 /\ nr + 1 \in 0..NodeWidth(n.type)
      BY <1>1, <1>4
    <3>2. KeySlots(n.type) = Slots(n.type) /\ IndexSlots(n.type) = {}
      BY DEF KeySlots, IndexSlots, Sorted
    <3> QED  BY <1>4, <2>1, <2>2, <3>1, <3>2, SortedFacts DEF NodeRecord
<1>8. \A i, j \in 0..nr : i < j => m.keys[i] < m.keys[j]
  <2>1. \A i \in 0..nr : m.keys[i] = IF i < pos THEN n.keys[i] ELSE IF i = pos THEN b
                                     ELSE n.keys[i - 1]
    <3>1. \A i \in 0..nr : i < pos \/ i = pos \/ i > pos
      BY <1>1, <1>2
    <3> QED  BY <3>1, <1>11, <1>2
  <2>2. \A i, j \in 0..(nr - 1) : i < j => n.keys[i] < n.keys[j]
    BY SortedFacts
  <2>3. \A i \in 0..(nr - 1) : (i < pos => n.keys[i] < b) /\ (pos <= i => b < n.keys[i])
    BY <1>1, <1>2, <1>3
  <2>4. SUFFICES ASSUME NEW i \in 0..nr, NEW j \in 0..nr, i < j
                 PROVE  m.keys[i] < m.keys[j]
    OBVIOUS
  <2>5. CASE j < pos
    BY <2>1, <2>2, <2>5, <2>4, <1>1, <1>2
  <2>6. CASE j = pos
    BY <2>1, <2>3, <2>6, <2>4, <1>1, <1>2
  <2>7. CASE i < pos /\ pos < j
    <3>1. i \in 0..(nr - 1) /\ j - 1 \in 0..(nr - 1)
      BY <2>4, <2>7, <1>1, <1>2
    <3>2. n.keys[i] < b /\ b < n.keys[j - 1] /\ n.keys[i] \in Int /\ n.keys[j - 1] \in Int
      BY <3>1, <2>3, <2>7, <1>2, <1>3
    <3>3. m.keys[i] = n.keys[i] /\ m.keys[j] = n.keys[j - 1]
      BY <2>1, <2>7, <1>2
    <3> QED  BY <3>2, <3>3, <1>3, <3>1
  <2>8. CASE i = pos
    BY <2>1, <2>3, <2>8, <2>4, <1>1, <1>2
  <2>9. CASE pos < i
    BY <2>1, <2>2, <2>9, <2>4, <1>1, <1>2
  <2> QED  BY <2>5, <2>6, <2>7, <2>8, <2>9, <1>1, <1>2
<1>9. \A i \in 0..nr : m.children[i] # NULL
  <2>1. \A i \in 0..nr : (i < pos => i \in 0..(nr - 1)) /\ (i > pos => i - 1 \in 0..(nr - 1))
    BY <1>1, <1>2
  <2>2. \A i \in 0..nr : i < pos \/ i = pos \/ i > pos
    BY <1>1, <1>2
  <2> QED  BY <2>1, <2>2, <1>11, SortedFacts, NullAssumption
<1>10. NodeOK(m)
  BY <1>1, <1>7, <1>8, <1>9 DEF NodeOK, SortedLayout, NodeType, Sorted
<1>12. Maps(m, n, b, c)
  <2>1. /\ \A i \in 0..nr : LocateChild(m, m.keys[i]) = m.children[i]
        /\ \A x : (\A i \in 0..nr : m.keys[i] # x) => LocateChild(m, x) = NULL
    BY <1>1, <1>7, <1>10, SortedLookup
  <2>2. LocateChild(m, b) = c
    <3>1. m.keys[pos] = b /\ m.children[pos] = c
      BY <1>2, <1>5, <1>6
    <3> QED  BY <2>1, <3>1, <1>2
  <2>3. ASSUME NEW i \in 0..(nr - 1)
        PROVE  LocateChild(m, n.keys[i]) = LocateChild(n, n.keys[i])
    <3> DEFINE k == IF i < pos THEN i ELSE i + 1
    <3>1. k \in 0..nr /\ (i < pos => k = i) /\ (~(i < pos) => k > pos /\ k - 1 = i)
      BY <1>1, <1>2
    <3>2. m.keys[k] = n.keys[i] /\ m.children[k] = n.children[i]
      <4> HIDE DEF k
      <4> QED  BY <1>11, <3>1
    <3> QED  BY <2>1, <3>1, <3>2, SortedLookup
  <2>4. ASSUME NEW x \in Byte, x # b, \A i \in 0..(nr - 1) : n.keys[i] # x
        PROVE  LocateChild(m, x) = LocateChild(n, x)
    <3>1. \A i \in 0..nr : m.keys[i] # x
      <4>1. \A i \in 0..nr : (i < pos => i \in 0..(nr - 1))
                             /\ (i > pos => i - 1 \in 0..(nr - 1))
                             /\ (i < pos \/ i = pos \/ i > pos)
        BY <1>1, <1>2
      <4> QED  BY <4>1, <1>11, <2>4
    <3> QED  BY <3>1, <2>1, <2>4, SortedLookup
  <2> QED  BY <2>2, <2>3, <2>4 DEF Maps
<1> QED
  BY <1>7, <1>10, <1>12 DEF m

\* What NodeOK says of a Node48, fact by fact.
LEMMA IndexedFacts ==
  ASSUME NEW n, NodeOK(n), n.type = "Node48"
  PROVE  /\ Slots("Node48") = 0..(Cap48 - 1) /\ n.nr_children \in 0..Cap48
         /\ n.keys \in [{} -> Byte] /\ n.indexes \in [Byte -> Byte]
         /\ n.children \in [Slots("Node48") -> Child \cup {NULL}]
         /\ n = [type |-> n.type, nr_children |-> n.nr_children, keys |-> n.keys,
                 indexes |-> n.indexes, children |-> n.children]
         /\ \A b \in Byte : n.indexes[b] \in (0..(n.nr_children - 1)) \cup {kEmptyIndex}
         /\ \A a, b \in Byte : n.indexes[a] = n.indexes[b] =>
                                 a = b \/ n.indexes[a] = kEmptyIndex
         /\ \A i \in Slots("Node48") : n.children[i] # NULL <=> i < n.nr_children
         /\ kEmptyIndex \notin Slots("Node48")
<1>1. Slots("Node48") = 0..(Cap48 - 1)
  BY Widths DEF Slots
<1>2. n.nr_children \in 0..Cap48
  BY Widths DEF NodeOK, NodeRecord
<1>3. /\ n.keys \in [{} -> Byte] /\ n.indexes \in [Byte -> Byte]
      /\ n.children \in [Slots("Node48") -> Child \cup {NULL}]
      /\ n = [type |-> n.type, nr_children |-> n.nr_children, keys |-> n.keys,
              indexes |-> n.indexes, children |-> n.children]
  BY DEF NodeOK, NodeRecord, KeySlots, IndexSlots, Sorted
<1>4. kEmptyIndex \notin 0..(Cap48 - 1)
  BY CapAssumption DEF kEmptyIndex
<1> QED
  BY <1>1, <1>2, <1>3, <1>4 DEF NodeOK, IndexedLayout

\* What NodeOK says of a Node256.
LEMMA DirectFacts ==
  ASSUME NEW n, NodeOK(n), n.type = "Node256"
  PROVE  /\ Slots("Node256") = Byte /\ n.nr_children \in 0..(MaxByte + 1)
         /\ n.keys \in [{} -> Byte] /\ n.indexes \in [{} -> Byte]
         /\ n.children \in [Byte -> Child \cup {NULL}]
         /\ n = [type |-> n.type, nr_children |-> n.nr_children, keys |-> n.keys,
                 indexes |-> n.indexes, children |-> n.children]
<1>1. Slots("Node256") = Byte
  BY Widths, CapAssumption DEF Slots, Byte
<1> QED
  BY <1>1, Widths DEF NodeOK, NodeRecord, KeySlots, IndexSlots, Sorted

\* Put into a Node48 that has room takes the first slot never used.
LEMMA PutIndexedOK ==
  ASSUME NEW n, NodeOK(n), n.type = "Node48", ~IsFull(n),
         NEW b \in Byte, NEW c \in Child, LocateChild(n, b) = NULL
  PROVE  /\ NodeOK(PutIndexed(n, b, c)) /\ Maps(PutIndexed(n, b, c), n, b, c)
         /\ PutIndexed(n, b, c).nr_children = n.nr_children + 1
         /\ PutIndexed(n, b, c).type = n.type
<1> DEFINE nr == n.nr_children
           S  == {i \in 0..Cap48 : i = Cap48 \/ n.children[i] = NULL}
           m  == PutIndexed(n, b, c)
<1>1. Cap48 \in Nat /\ Cap48 <= MaxByte /\ nr \in Nat /\ nr < Cap48
  BY IndexedFacts, Widths, CapAssumption DEF IsFull
<1>2. nr \in S /\ S \subseteq Nat /\ \A i \in S : nr <= i
  BY IndexedFacts, <1>1
<1>3. Least(S) \in S /\ \A i \in S : Least(S) <= i
  <2> HIDE DEF S
  <2> QED  BY <1>2, LeastIsLeast
<1>4. Least(S) = nr
  <2> DEFINE k == Least(S)
  <2>1. k \in Nat /\ k <= nr /\ nr <= k
    <3> HIDE DEF S
    <3> QED  BY <1>2, <1>3
  <2> HIDE DEF k
  <2>2. k = nr
    BY <1>1, <2>1
  <2> QED  BY <2>2 DEF k
<1>5. m = [type |-> n.type, nr_children |-> nr + 1, keys |-> n.keys,
           indexes |-> [n.indexes EXCEPT ![b] = nr],
           children |-> [n.children EXCEPT ![nr] = c]]
  <2>1. n = [type |-> n.type, nr_children |-> nr, keys |-> n.keys,
             indexes |-> n.indexes, children |-> n.children]
    BY IndexedFacts
  <2>2. m = [n EXCEPT !.indexes[b] = nr, !.children[nr] = c, !.nr_children = @ + 1]
    BY <1>4 DEF PutIndexed
  <2> HIDE DEF m
  <2> QED  BY <2>1, <2>2
<1> HIDE DEF m, S
<1>6. nr \in Byte /\ nr \in Slots("Node48") /\ nr # kEmptyIndex
  BY <1>1, IndexedFacts, CapAssumption DEF Byte, kEmptyIndex
<1>7. m \in NodeRecord(m.type) /\ m.type = "Node48" /\ m.nr_children = nr + 1
  <2>1. nr + 1 \in 0..NodeWidth("Node48")
    BY <1>1, Widths
  <2>2. /\ [n.indexes EXCEPT ![b] = nr] \in [Byte -> Byte]
        /\ [n.children EXCEPT ![nr] = c] \in [Slots("Node48") -> Child \cup {NULL}]
    BY <1>6, IndexedFacts
  <2>3. KeySlots("Node48") = {} /\ IndexSlots("Node48") = Byte
    BY DEF KeySlots, IndexSlots, Sorted
  <2> QED  BY <1>5, <2>1, <2>2, <2>3, IndexedFacts DEF NodeRecord
<1>8. /\ \A x \in Byte : m.indexes[x] = IF x = b THEN nr ELSE n.indexes[x]
      /\ \A i \in Slots("Node48") : m.children[i] = IF i = nr THEN c ELSE n.children[i]
  BY <1>5, <1>6, IndexedFacts
<1>9. \A x \in Byte : n.indexes[x] # nr
  BY <1>1, <1>6, IndexedFacts
<1>10. NodeOK(m)
  <2>1. \A x \in Byte : m.indexes[x] \in (0..nr) \cup {kEmptyIndex}
    BY <1>1, <1>8, IndexedFacts
  <2>2. \A x, y \in Byte : m.indexes[x] = m.indexes[y] =>
                             x = y \/ m.indexes[x] = kEmptyIndex
    BY <1>8, <1>9, IndexedFacts
  <2>3. \A i \in Slots("Node48") : m.children[i] # NULL <=> i < nr + 1
    BY <1>1, <1>8, IndexedFacts, NullAssumption
  <2>4. (nr + 1) - 1 = nr
    BY <1>1
  <2> QED  BY <1>7, <2>1, <2>2, <2>3, <2>4 DEF NodeOK, IndexedLayout, NodeType, Sorted
<1>11. Maps(m, n, b, c)
  <2>1. \A x \in Byte : LocateChild(m, x) = IF m.indexes[x] = kEmptyIndex THEN NULL
                                            ELSE m.children[m.indexes[x]]
    BY <1>7 DEF LocateChild, Sorted
  <2>2. \A x \in Byte : LocateChild(n, x) = IF n.indexes[x] = kEmptyIndex THEN NULL
                                            ELSE n.children[n.indexes[x]]
    BY DEF LocateChild, Sorted
  <2>3. \A x \in Byte : n.indexes[x] # kEmptyIndex => n.indexes[x] \in Slots("Node48")
    BY <1>1, IndexedFacts
  <2> QED  BY <2>1, <2>2, <2>3, <1>6, <1>8, <1>9 DEF Maps
<1> QED  BY <1>7, <1>10, <1>11 DEF m

\* Put into a Node256 that has not the byte.
LEMMA PutDirectOK ==
  ASSUME NEW n, NodeOK(n), n.type = "Node256", ~IsFull(n),
         NEW b \in Byte, NEW c \in Child, LocateChild(n, b) = NULL
  PROVE  /\ NodeOK(PutDirect(n, b, c)) /\ Maps(PutDirect(n, b, c), n, b, c)
         /\ PutDirect(n, b, c).nr_children = n.nr_children + 1
         /\ PutDirect(n, b, c).type = n.type
<1> DEFINE m == PutDirect(n, b, c)
<1>1. m = [type |-> n.type, nr_children |-> n.nr_children + 1, keys |-> n.keys,
           indexes |-> n.indexes, children |-> [n.children EXCEPT ![b] = c]]
  <2>1. n = [type |-> n.type, nr_children |-> n.nr_children, keys |-> n.keys,
             indexes |-> n.indexes, children |-> n.children]
    BY DirectFacts
  <2>2. m = [n EXCEPT !.children[b] = c, !.nr_children = @ + 1]
    BY DEF PutDirect
  <2> HIDE DEF m
  <2> QED  BY <2>1, <2>2
<1> HIDE DEF m
<1>2. n.nr_children + 1 \in 0..NodeWidth("Node256")
  BY DirectFacts, Widths, CapAssumption DEF IsFull
<1>3. m \in NodeRecord(m.type) /\ m.type = "Node256"
  <2>1. KeySlots("Node256") = {} /\ IndexSlots("Node256") = {}
    BY DEF KeySlots, IndexSlots, Sorted
  <2>2. [n.children EXCEPT ![b] = c] \in [Byte -> Child \cup {NULL}]
    BY DirectFacts
  <2> QED  BY <1>1, <1>2, <2>1, <2>2, DirectFacts DEF NodeRecord
<1>4. NodeOK(m)
  BY <1>3 DEF NodeOK, NodeType, Sorted
<1>5. Maps(m, n, b, c)
  <2>1. \A x \in Byte : LocateChild(m, x) = m.children[x] /\ LocateChild(n, x) = n.children[x]
    BY <1>3 DEF LocateChild, Sorted
  <2>2. \A x \in Byte : m.children[x] = IF x = b THEN c ELSE n.children[x]
    BY <1>1, DirectFacts
  <2> QED  BY <2>1, <2>2 DEF Maps
<1> QED  BY <1>1, <1>4, <1>5 DEF m

\* Put, whatever the layout.
LEMMA PutOK ==
  ASSUME NEW n, NodeOK(n), ~IsFull(n),
         NEW b \in Byte, NEW c \in Child, LocateChild(n, b) = NULL
  PROVE  /\ NodeOK(Put(n, b, c)) /\ Maps(Put(n, b, c), n, b, c)
         /\ Put(n, b, c).nr_children = n.nr_children + 1
         /\ Put(n, b, c).type = n.type
<1>1. CASE n.type \in Sorted
  <2>1. Put(n, b, c) = PutSorted(n, b, c)
    BY <1>1 DEF Put, Sorted
  <2> QED  BY <1>1, <2>1, PutSortedOK
<1>2. CASE n.type = "Node48"
  <2>1. Put(n, b, c) = PutIndexed(n, b, c)
    BY <1>2 DEF Put, Sorted
  <2> QED  BY <1>2, <2>1, PutIndexedOK
<1>3. CASE n.type = "Node256"
  <2>1. Put(n, b, c) = PutDirect(n, b, c)
    BY <1>3 DEF Put, Sorted
  <2> QED  BY <1>3, <2>1, PutDirectOK
<1> QED  BY <1>1, <1>2, <1>3 DEF NodeOK, NodeType

-----------------------------------------------------------------------------
(* Grow: a full node becomes a wider one with the same map and with room.   *)

Widened(m, n) ==
  /\ NodeOK(m) /\ ~IsFull(m) /\ m.nr_children = n.nr_children
  /\ \A x \in Byte : LocateChild(m, x) = LocateChild(n, x)

LEMMA GrowTo16OK ==
  ASSUME NEW n, NodeOK(n), n.type = "Node4", IsFull(n)
  PROVE  Widened(GrowTo16(n), n)
<1> DEFINE m == GrowTo16(n)
<1>1. /\ n.nr_children = Cap4 /\ Cap4 \in Nat /\ Cap16 \in Nat /\ Cap4 < Cap16
      /\ Slots("Node4") = 0..(Cap4 - 1) /\ Slots("Node16") = 0..(Cap16 - 1)
  BY SortedFacts, Widths, CapAssumption DEF IsFull, Slots, Sorted
<1>2. /\ m.type = "Node16" /\ m.nr_children = Cap4 /\ m.indexes = [b \in {} |-> kEmptyIndex]
      /\ m.keys = [i \in Slots("Node16") |-> IF i < Cap4 THEN n.keys[i] ELSE 0]
      /\ m.children = [i \in Slots("Node16") |-> IF i < Cap4 THEN n.children[i] ELSE NULL]
      /\ m = [type |-> m.type, nr_children |-> m.nr_children, keys |-> m.keys,
              indexes |-> m.indexes, children |-> m.children]
  <2>1. NewNode("Node16").indexes = [b \in {} |-> kEmptyIndex]
    BY DEF NewNode, KeySlots, IndexSlots, Sorted
  <2>2. m = [type |-> "Node16", nr_children |-> Cap4,
             keys |-> [i \in Slots("Node16") |-> IF i < Cap4 THEN n.keys[i] ELSE 0],
             indexes |-> [b \in {} |-> kEmptyIndex],
             children |-> [i \in Slots("Node16") |-> IF i < Cap4 THEN n.children[i] ELSE NULL]]
    BY <2>1 DEF GrowTo16
  <2> HIDE DEF m
  <2> QED  BY <2>2
<1> HIDE DEF m
<1>3. \A i \in 0..(Cap4 - 1) :
        /\ i \in Slots("Node16") /\ i < Cap4
        /\ m.keys[i] = n.keys[i] /\ m.children[i] = n.children[i]
  BY <1>1, <1>2
<1>4. m \in NodeRecord("Node16")
  <2>1. Cap4 \in 0..NodeWidth("Node16")
    BY <1>1, Widths
  <2>2. m.keys \in [Slots("Node16") -> Byte]
    <3>1. 0 \in Byte
      BY CapAssumption DEF Byte
    <3>2. \A i \in Slots("Node16") : i < Cap4 => i \in Slots("Node4")
      BY <1>1
    <3> QED  BY <1>2, <3>1, <3>2, SortedFacts DEF Sorted
  <2>3. m.children \in [Slots("Node16") -> Child \cup {NULL}]
    <3>1. \A i \in Slots("Node16") : i < Cap4 => i \in Slots("Node4")
      BY <1>1
    <3> QED  BY <1>2, <3>1, SortedFacts DEF Sorted
  <2>4. m.indexes \in [IndexSlots("Node16") -> Byte] /\ KeySlots("Node16") = Slots("Node16")
    BY <1>2 DEF IndexSlots, KeySlots, Sorted
  <2> QED  BY <1>2, <2>1, <2>2, <2>3, <2>4 DEF NodeRecord
<1>5. NodeOK(m)
  <2>1. SortedLayout(m)
    BY <1>1, <1>2, <1>3, SortedFacts DEF SortedLayout, Sorted
  <2> QED  BY <1>2, <1>4, <2>1 DEF NodeOK, NodeType, Sorted
<1>6. \A x \in Byte : LocateChild(m, x) = LocateChild(n, x)
  <2>1. m.type \in Sorted /\ n.type \in Sorted
    BY <1>2 DEF Sorted
  <2>2. /\ \A i \in 0..(Cap4 - 1) : LocateChild(m, m.keys[i]) = m.children[i]
        /\ \A x : (\A i \in 0..(Cap4 - 1) : m.keys[i] # x) => LocateChild(m, x) = NULL
    BY <1>2, <1>5, <2>1, SortedLookup
  <2>3. /\ \A i \in 0..(Cap4 - 1) : LocateChild(n, n.keys[i]) = n.children[i]
        /\ \A x : (\A i \in 0..(Cap4 - 1) : n.keys[i] # x) => LocateChild(n, x) = NULL
    BY <1>1, <2>1, SortedLookup
  <2> QED  BY <1>3, <2>2, <2>3
<1> QED  BY <1>1, <1>2, <1>5, <1>6, Widths DEF Widened, IsFull, m

LEMMA GrowTo48OK ==
  ASSUME NEW n, NodeOK(n), n.type = "Node16", IsFull(n)
  PROVE  Widened(GrowTo48(n), n)
<1> DEFINE m == GrowTo48(n)
<1>1. /\ n.nr_children = Cap16 /\ Cap16 \in Nat /\ Cap48 \in Nat /\ Cap16 < Cap48
      /\ Cap48 <= MaxByte /\ MaxByte \in Nat
      /\ Slots("Node16") = 0..(Cap16 - 1) /\ Slots("Node48") = 0..(Cap48 - 1)
  BY SortedFacts, Widths, CapAssumption DEF IsFull, Slots, Sorted
<1>2. /\ m.type = "Node48" /\ m.nr_children = Cap16 /\ m.keys = [i \in {} |-> 0]
      /\ m.indexes = [b \in Byte |-> IF \E i \in 0..(Cap16 - 1) : n.keys[i] = b
                                   THEN LastPosition(n, b) ELSE kEmptyIndex]
      /\ m.children = [i \in Slots("Node48") |-> IF i < Cap16 THEN n.children[i] ELSE NULL]
      /\ m = [type |-> m.type, nr_children |-> m.nr_children, keys |-> m.keys,
              indexes |-> m.indexes, children |-> m.children]
  <2>1. NewNode("Node48").keys = [i \in {} |-> 0]
    BY DEF NewNode, KeySlots, IndexSlots, Sorted
  <2>2. m = [type |-> "Node48", nr_children |-> Cap16,
             keys |-> [i \in {} |-> 0],
             indexes |-> [b \in Byte |-> IF \E i \in 0..(Cap16 - 1) : n.keys[i] = b
                                         THEN LastPosition(n, b) ELSE kEmptyIndex],
             children |-> [i \in Slots("Node48") |-> IF i < Cap16 THEN n.children[i] ELSE NULL]]
    BY <2>1 DEF GrowTo48, Node48With
  <2> HIDE DEF m
  <2> QED  BY <2>2
<1> HIDE DEF m
<1>3. /\ \A i, j \in 0..(Cap16 - 1) : n.keys[i] = n.keys[j] => i = j
      /\ \A i \in 0..(Cap16 - 1) : n.keys[i] \in Byte /\ n.children[i] # NULL
                                   /\ n.children[i] \in Child \cup {NULL}
  <2>1. \A i, j \in 0..(Cap16 - 1) : i < j => n.keys[i] < n.keys[j]
    BY <1>1, SortedFacts DEF Sorted
  <2>2. \A i \in 0..(Cap16 - 1) : n.keys[i] \in Byte /\ n.children[i] # NULL
                                   /\ n.children[i] \in Child \cup {NULL}
    BY <1>1, SortedFacts DEF Sorted
  <2>3. \A i \in 0..(Cap16 - 1) : n.keys[i] \in Int
    BY <2>2 DEF Byte
  <2>4. ASSUME NEW i \in 0..(Cap16 - 1), NEW j \in 0..(Cap16 - 1), n.keys[i] = n.keys[j], i # j
        PROVE  FALSE
    <3>1. CASE i < j
      <4>1. n.keys[i] < n.keys[j]
        BY <2>1, <3>1
      <4> QED  BY <4>1, <2>3, <2>4
    <3>2. CASE j < i
      <4>1. n.keys[j] < n.keys[i]
        BY <2>1, <3>2
      <4> QED  BY <4>1, <2>3, <2>4
    <3> QED  BY <3>1, <3>2, <2>4, <1>1
  <2> QED  BY <2>2, <2>4
<1>4. \A i \in 0..(Cap16 - 1) : m.indexes[n.keys[i]] = i
  <2> TAKE i \in 0..(Cap16 - 1)
  <2>1. \A j \in 0..(Cap16 - 1) : n.keys[j] = n.keys[i] => j = i
    BY <1>3
  <2>2. LastPosition(n, n.keys[i]) = i
    BY <2>1, <1>1 DEF LastPosition
  <2> QED  BY <1>2, <1>3, <2>2
<1>5. \A b \in Byte : (\A i \in 0..(Cap16 - 1) : n.keys[i] # b) => m.indexes[b] = kEmptyIndex
  BY <1>2
<1>6. \A b \in Byte : m.indexes[b] # kEmptyIndex =>
        m.indexes[b] \in 0..(Cap16 - 1) /\ n.keys[m.indexes[b]] = b
  BY <1>4, <1>5
<1>7. \A i \in Slots("Node48") : m.children[i] = IF i < Cap16 THEN n.children[i] ELSE NULL
  BY <1>2
<1>8. kEmptyIndex \in Byte /\ kEmptyIndex \notin 0..(Cap16 - 1) /\ 0..(Cap16 - 1) \subseteq Byte
      /\ 0..(Cap16 - 1) \subseteq Slots("Node48")
  BY <1>1 DEF kEmptyIndex, Byte
<1>9. m \in NodeRecord("Node48")
  <2>1. Cap16 \in 0..NodeWidth("Node48")
    BY <1>1, Widths
  <2>2. m.indexes \in [Byte -> Byte]
    <3>1. m.indexes = [b \in Byte |-> m.indexes[b]]
      BY <1>2
    <3>2. \A b \in Byte : m.indexes[b] \in Byte
      BY <1>6, <1>8
    <3> QED  BY <3>1, <3>2
  <2>3. m.children \in [Slots("Node48") -> Child \cup {NULL}]
    <3>1. \A i \in Slots("Node48") : i < Cap16 => i \in 0..(Cap16 - 1)
      BY <1>1
    <3> QED  BY <1>2, <1>3, <3>1
  <2>4. m.keys \in [KeySlots("Node48") -> Byte] /\ IndexSlots("Node48") = Byte
    BY <1>2 DEF IndexSlots, KeySlots, Sorted
  <2> QED  BY <1>2, <2>1, <2>2, <2>3, <2>4 DEF NodeRecord
<1>10. NodeOK(m)
  <2>1. \A b \in Byte : m.indexes[b] \in 0..(Cap16 - 1) \cup {kEmptyIndex}
    BY <1>6
  <2>2. \A a, b \in Byte : m.indexes[a] = m.indexes[b] =>
                             a = b \/ m.indexes[a] = kEmptyIndex
    BY <1>6
  <2>3. \A i \in Slots("Node48") : m.children[i] # NULL <=> i < Cap16
    <3>1. \A i \in Slots("Node48") : i < Cap16 => i \in 0..(Cap16 - 1)
      BY <1>1
    <3> QED  BY <1>3, <1>7, <3>1
  <2> QED  BY <1>2, <1>9, <2>1, <2>2, <2>3 DEF NodeOK, IndexedLayout, NodeType, Sorted
<1>11. \A x \in Byte : LocateChild(m, x) = LocateChild(n, x)
  <2>1. n.type \in Sorted
    BY DEF Sorted
  <2>2. /\ \A i \in 0..(Cap16 - 1) : LocateChild(n, n.keys[i]) = n.children[i]
        /\ \A x : (\A i \in 0..(Cap16 - 1) : n.keys[i] # x) => LocateChild(n, x) = NULL
    BY <1>1, <2>1, SortedLookup
  <2>3. \A x \in Byte : LocateChild(m, x) = IF m.indexes[x] = kEmptyIndex THEN NULL
                                            ELSE m.children[m.indexes[x]]
    BY <1>2 DEF LocateChild, Sorted
  <2>4. \A i \in 0..(Cap16 - 1) : m.children[i] = n.children[i]
    BY <1>7, <1>8, <1>1
  <2> QED  BY <1>4, <1>5, <1>3, <1>6, <1>8, <2>2, <2>3, <2>4
<1> QED  BY <1>1, <1>2, <1>10, <1>11, Widths DEF Widened, IsFull, m

LEMMA GrowTo256OK ==
  ASSUME NEW n, NodeOK(n), n.type = "Node48", IsFull(n)
  PROVE  Widened(GrowTo256(n), n)
<1> DEFINE m == GrowTo256(n)
<1>1. n.nr_children = Cap48 /\ Cap48 \in Nat /\ MaxByte \in Nat /\ Cap48 < MaxByte + 1
  BY IndexedFacts, Widths, CapAssumption DEF IsFull
<1>2. m = [type |-> "Node256", nr_children |-> Cap48,
           keys |-> [i \in {} |-> 0], indexes |-> [b \in {} |-> kEmptyIndex],
           children |-> [b \in Byte |-> IF n.indexes[b] = kEmptyIndex THEN NULL
                                        ELSE n.children[n.indexes[b]]]]
  <2>1. /\ NewNode("Node256").keys = [i \in {} |-> 0]
        /\ NewNode("Node256").indexes = [b \in {} |-> kEmptyIndex]
    BY DEF NewNode, KeySlots, IndexSlots, Sorted
  <2> QED  BY <2>1 DEF GrowTo256
<1> HIDE DEF m
<1>3. \A b \in Byte : n.indexes[b] # kEmptyIndex => n.indexes[b] \in Slots("Node48")
  BY <1>1, IndexedFacts
<1>4. m \in NodeRecord("Node256")
  <2>1. Cap48 \in 0..NodeWidth("Node256")
    BY <1>1, Widths
  <2>2. m.children \in [Byte -> Child \cup {NULL}]
    BY <1>2, <1>3, IndexedFacts
  <2>3. Slots("Node256") = Byte
    BY Widths, <1>1 DEF Slots, Byte
  <2>4. KeySlots("Node256") = {} /\ IndexSlots("Node256") = {}
    BY DEF KeySlots, IndexSlots, Sorted
  <2> QED  BY <1>2, <2>1, <2>2, <2>3, <2>4 DEF NodeRecord
<1>5. NodeOK(m)
  BY <1>2, <1>4 DEF NodeOK, NodeType, Sorted
<1>6. \A x \in Byte : LocateChild(m, x) = LocateChild(n, x)
  <2>1. \A x \in Byte : LocateChild(m, x) = m.children[x]
    BY <1>2 DEF LocateChild, Sorted
  <2>2. \A x \in Byte : LocateChild(n, x) = IF n.indexes[x] = kEmptyIndex THEN NULL
                                            ELSE n.children[n.indexes[x]]
    BY DEF LocateChild, Sorted
  <2> QED  BY <1>2, <2>1, <2>2
<1> QED  BY <1>1, <1>2, <1>5, <1>6, Widths DEF Widened, IsFull, m

LEMMA GrowOK ==
  ASSUME NEW n, NodeOK(n), n.type # "Node256", IsFull(n)
  PROVE  Widened(Grow(n), n)
<1>1. CASE n.type = "Node4"
  BY <1>1, GrowTo16OK DEF Grow
<1>2. CASE n.type = "Node16"
  BY <1>2, GrowTo48OK DEF Grow
<1>3. CASE n.type = "Node48"
  BY <1>3, GrowTo256OK DEF Grow
<1> QED  BY <1>1, <1>2, <1>3 DEF NodeOK, NodeType, Sorted

-----------------------------------------------------------------------------
\* ReplaceBytePointer exchanges the child of a byte that has one and leaves
\* every other byte alone.
LEMMA ReplaceOK ==
  ASSUME NEW n, NodeOK(n), NEW b \in Byte, NEW c \in Child, LocateChild(n, b) # NULL
  PROVE  /\ NodeOK(ReplaceBytePointer(n, b, c)) /\ Maps(ReplaceBytePointer(n, b, c), n, b, c)
         /\ ReplaceBytePointer(n, b, c).nr_children = n.nr_children
<1> DEFINE m == ReplaceBytePointer(n, b, c)
<1>1. CASE n.type \in Sorted
  <2>1. PICK p \in 0..(n.nr_children - 1) : n.keys[p] = b
    BY <1>1, SortedLookup
  <2>2. n.nr_children \in Nat
    BY <1>1, SortedFacts
  <2>3. \A i \in 0..(n.nr_children - 1) : n.keys[i] = b => i = p
    <3>1. \A i \in 0..(n.nr_children - 1) : n.keys[i] \in Int
      BY <1>1, SortedFacts DEF Byte
    <3> QED  BY <1>1, <2>1, <2>2, <3>1, SortedFacts
  <2>4. Least(Hits(n, b)) = p
    <3> DEFINE H == Hits(n, b)
    <3>1. H \subseteq Nat /\ p \in H /\ \A i \in H : i = p
      BY <2>1, <2>2, <2>3 DEF Hits
    <3>2. Least(H) \in H
      <4> HIDE DEF H
      <4> QED  BY <3>1, LeastIsLeast
    <3> QED  BY <3>1, <3>2
  <2>5. m = [type |-> n.type, nr_children |-> n.nr_children, keys |-> n.keys,
             indexes |-> n.indexes, children |-> [n.children EXCEPT ![p] = c]]
    <3>1. n = [type |-> n.type, nr_children |-> n.nr_children, keys |-> n.keys,
               indexes |-> n.indexes, children |-> n.children]
      BY <1>1, SortedFacts
    <3>2. m = [n EXCEPT !.children[p] = c]
      BY <1>1, <2>4 DEF ReplaceBytePointer, Sorted
    <3> HIDE DEF m
    <3> QED  BY <3>1, <3>2
  <2> HIDE DEF m
  <2>6. \A i \in 0..(n.nr_children - 1) :
          m.children[i] = IF i = p THEN c ELSE n.children[i]
    BY <1>1, <2>5, SortedFacts
  <2>7. m \in NodeRecord(m.type)
    <3>1. KeySlots(n.type) = Slots(n.type) /\ IndexSlots(n.type) = {}
      BY <1>1 DEF KeySlots, IndexSlots, Sorted
    <3>2. [n.children EXCEPT ![p] = c] \in [Slots(n.type) -> Child \cup {NULL}]
      BY <1>1, <2>1, SortedFacts
    <3> QED  BY <1>1, <2>5, <3>1, <3>2, SortedFacts DEF NodeRecord
  <2>8. NodeOK(m)
    <3>1. SortedLayout(m)
      BY <1>1, <2>5, <2>6, SortedFacts, NullAssumption DEF SortedLayout
    <3> QED  BY <1>1, <2>5, <2>7, <3>1 DEF NodeOK, NodeType, Sorted
  <2>9. Maps(m, n, b, c)
    <3>1. /\ \A i \in 0..(n.nr_children - 1) : LocateChild(m, n.keys[i]) = m.children[i]
          /\ \A x : (\A i \in 0..(n.nr_children - 1) : n.keys[i] # x)
                      => LocateChild(m, x) = NULL
      BY <1>1, <2>5, <2>8, SortedLookup
    <3>2. /\ \A i \in 0..(n.nr_children - 1) : LocateChild(n, n.keys[i]) = n.children[i]
          /\ \A x : (\A i \in 0..(n.nr_children - 1) : n.keys[i] # x)
                      => LocateChild(n, x) = NULL
      BY <1>1, SortedLookup
    <3> QED  BY <2>1, <2>3, <2>6, <3>1, <3>2 DEF Maps
  <2> QED  BY <2>5, <2>8, <2>9 DEF m
<1>2. CASE n.type = "Node48"
  <2> DEFINE p == n.indexes[b]
  <2>1. p # kEmptyIndex /\ p \in Slots("Node48") /\ n.children[p] # NULL
    <3>1. p # kEmptyIndex /\ n.children[p] # NULL
      BY <1>2 DEF LocateChild, Sorted
    <3> QED  BY <1>2, <3>1, IndexedFacts, CapAssumption
  <2>2. m = [type |-> n.type, nr_children |-> n.nr_children, keys |-> n.keys,
             indexes |-> n.indexes, children |-> [n.children EXCEPT ![p] = c]]
    <3>1. n = [type |-> n.type, nr_children |-> n.nr_children, keys |-> n.keys,
               indexes |-> n.indexes, children |-> n.children]
      BY <1>2, IndexedFacts
    <3>2. m = [n EXCEPT !.children[p] = c]
      BY <1>2 DEF ReplaceBytePointer, Sorted
    <3> HIDE DEF m, p
    <3> QED  BY <3>1, <3>2
  <2> HIDE DEF m
  <2>3. \A i \in Slots("Node48") : m.children[i] = IF i = p THEN c ELSE n.children[i]
    BY <1>2, <2>1, <2>2, IndexedFacts
  <2>4. m \in NodeRecord(m.type)
    <3>1. KeySlots("Node48") = {} /\ IndexSlots("Node48") = Byte
      BY DEF KeySlots, IndexSlots, Sorted
    <3>2. [n.children EXCEPT ![p] = c] \in [Slots("Node48") -> Child \cup {NULL}]
      BY <1>2, <2>1, IndexedFacts
    <3> QED  BY <1>2, <2>2, <3>1, <3>2, IndexedFacts, Widths DEF NodeRecord
  <2>5. NodeOK(m)
    <3>1. \A i \in Slots("Node48") : m.children[i] # NULL <=> i < m.nr_children
      BY <1>2, <2>1, <2>2, <2>3, IndexedFacts, NullAssumption
    <3> QED  BY <1>2, <2>2, <2>4, <3>1, IndexedFacts DEF NodeOK, IndexedLayout, NodeType, Sorted
  <2>6. Maps(m, n, b, c)
    <3>1. \A x \in Byte : LocateChild(m, x) = IF n.indexes[x] = kEmptyIndex THEN NULL
                                              ELSE m.children[n.indexes[x]]
      BY <1>2, <2>2 DEF LocateChild, Sorted
    <3>2. \A x \in Byte : LocateChild(n, x) = IF n.indexes[x] = kEmptyIndex THEN NULL
                                              ELSE n.children[n.indexes[x]]
      BY <1>2 DEF LocateChild, Sorted
    <3>3. \A x \in Byte : n.indexes[x] # kEmptyIndex => n.indexes[x] \in Slots("Node48")
      BY <1>2, IndexedFacts, CapAssumption
    <3>4. \A x \in Byte : n.indexes[x] = p => x = b
      BY <1>2, <2>1, IndexedFacts
    <3> QED  BY <2>1, <2>3, <3>1, <3>2, <3>3, <3>4 DEF Maps
  <2> QED  BY <2>2, <2>5, <2>6 DEF m
<1>3. CASE n.type = "Node256"
  <2>1. m = [type |-> n.type, nr_children |-> n.nr_children, keys |-> n.keys,
             indexes |-> n.indexes, children |-> [n.children EXCEPT ![b] = c]]
    <3>1. n = [type |-> n.type, nr_children |-> n.nr_children, keys |-> n.keys,
               indexes |-> n.indexes, children |-> n.children]
      BY <1>3, DirectFacts
    <3>2. m = [n EXCEPT !.children[b] = c]
      BY <1>3 DEF ReplaceBytePointer, Sorted
    <3> HIDE DEF m
    <3> QED  BY <3>1, <3>2
  <2> HIDE DEF m
  <2>2. m \in NodeRecord(m.type)
    <3>1. KeySlots("Node256") = {} /\ IndexSlots("Node256") = {}
      BY DEF KeySlots, IndexSlots, Sorted
    <3>2. [n.children EXCEPT ![b] = c] \in [Byte -> Child \cup {NULL}]
      BY <1>3, DirectFacts
    <3> QED  BY <1>3, <2>1, <3>1, <3>2, DirectFacts, Widths DEF NodeRecord
  <2>3. NodeOK(m)
    BY <1>3, <2>1, <2>2 DEF NodeOK, NodeType, Sorted
  <2>4. Maps(m, n, b, c)
    <3>1. \A x \in Byte : LocateChild(m, x) = m.children[x] /\ LocateChild(n, x) = n.children[x]
      BY <1>3, <2>1 DEF LocateChild, Sorted
    <3>2. \A x \in Byte : m.children[x] = IF x = b THEN c ELSE n.children[x]
      BY <1>3, <2>1, DirectFacts
    <3> QED  BY <3>1, <3>2 DEF Maps
  <2> QED  BY <2>1, <2>3, <2>4 DEF m
<1> QED  BY <1>1, <1>2, <1>3 DEF NodeOK, NodeType

-----------------------------------------------------------------------------
(* The inductive invariant: the shape of the arrays and the counter.  The   *)
(* counter needs the shape (Put adds one entry), and the shape needs the    *)
(* counter: only a counted Node256 is known to have room for a new byte.    *)

IInv == TypeOK /\ CountOK

LEMMA NewNodeOK ==
  ASSUME NEW type \in NodeType
  PROVE  /\ NodeOK(NewNode(type)) /\ NewNode(type).nr_children = 0
         /\ \A b \in Byte : LocateChild(NewNode(type), b) = NULL
<1> DEFINE n == NewNode(type)
<1>1. n = [type |-> type, nr_children |-> 0, keys |-> [i \in KeySlots(type) |-> 0],
           indexes |-> [b \in IndexSlots(type) |-> kEmptyIndex],
           children |-> [i \in Slots(type) |-> NULL]]
  BY DEF NewNode
<1> HIDE DEF n
<1>2. 0 \in Byte /\ kEmptyIndex \in Byte /\ 0 \in 0..NodeWidth(type)
  BY CapAssumption, Widths DEF Byte, kEmptyIndex
<1>3. n \in NodeRecord(n.type) /\ n.type = type
  BY <1>1, <1>2 DEF NodeRecord
<1>4. type \in Sorted => SortedLayout(n)
  BY <1>1 DEF SortedLayout
<1>5. type = "Node48" => IndexedLayout(n)
  BY <1>1, Widths DEF IndexedLayout, IndexSlots, Slots
<1>6. NodeOK(n)
  BY <1>3, <1>4, <1>5 DEF NodeOK
<1>7. \A b \in Byte : LocateChild(n, b) = NULL
  <2>1. CASE type \in Sorted
    BY <1>1, <1>3, <1>6, <2>1, SortedLookup
  <2>2. CASE type = "Node48"
    BY <1>1, <2>2 DEF LocateChild, Sorted, IndexSlots
  <2>3. CASE type = "Node256"
    BY <1>1, <2>3, Widths, CapAssumption DEF LocateChild, Sorted, Slots, Byte
  <2> QED  BY <2>1, <2>2, <2>3 DEF NodeType
<1> QED  BY <1>1, <1>6, <1>7 DEF n

\* When a byte has no child, a Node256 still has room, and growing a full
\* narrower node makes room.
LEMMA RoomOK ==
  ASSUME IInv, NEW b \in Byte, LocateChild(node, b) = NULL
  PROVE  /\ node.type = "Node256" => ~IsFull(node)
         /\ NodeOK(Grown) /\ ~IsFull(Grown) /\ Grown.nr_children = node.nr_children
         /\ \A x \in Byte : LocateChild(Grown, x) = LocateChild(node, x)
<1>1. ASSUME node.type = "Node256"
      PROVE  ~IsFull(node)
  <2>1. IsFiniteSet(Byte) /\ Cardinality(Byte) = MaxByte + 1
    BY FS_Interval, CapAssumption DEF Byte
  <2>2. PresentBytes(node) \in SUBSET Byte /\ PresentBytes(node) # Byte
    BY DEF PresentBytes
  <2>3. /\ Cardinality(PresentBytes(node)) <= MaxByte + 1
        /\ Cardinality(PresentBytes(node)) # MaxByte + 1
    <3> HIDE DEF PresentBytes
    <3> QED  BY <2>1, <2>2, FS_Subset
  <2>4. node.nr_children \in Nat /\ node.nr_children = Cardinality(PresentBytes(node))
    BY <1>1, DirectFacts, CapAssumption DEF IInv, TypeOK, CountOK
  <2> QED  BY <1>1, <2>3, <2>4, Widths, CapAssumption DEF IsFull
<1>2. CASE IsFull(node)
  <2>1. Widened(Grow(node), node)
    BY <1>1, <1>2, GrowOK DEF IInv, TypeOK
  <2> QED  BY <1>1, <1>2, <2>1 DEF Grown, Widened
<1>3. CASE ~IsFull(node)
  BY <1>3 DEF Grown, IInv, TypeOK
<1> QED  BY <1>1, <1>2, <1>3

\* Add maps its byte and counts it; Replace changes one entry.
LEMMA AddOK ==
  ASSUME IInv, NEW b \in Byte, NEW c \in Child, Add(b, c)
  PROVE  NodeOK(node') /\ Maps(node', node, b, c) /\ node'.nr_children = node.nr_children + 1
<1>1. /\ NodeOK(Grown) /\ ~IsFull(Grown) /\ Grown.nr_children = node.nr_children
      /\ \A x \in Byte : LocateChild(Grown, x) = LocateChild(node, x)
  BY RoomOK DEF Add
<1>2. LocateChild(Grown, b) = NULL
  BY <1>1 DEF Add
<1>3. /\ NodeOK(Put(Grown, b, c)) /\ Maps(Put(Grown, b, c), Grown, b, c)
      /\ Put(Grown, b, c).nr_children = Grown.nr_children + 1
  BY <1>1, <1>2, PutOK
<1> QED  BY <1>1, <1>3 DEF Add, Maps

LEMMA IInvInit == Init => IInv
<1> SUFFICES ASSUME NEW type \in NodeType, node = NewNode(type)  PROVE IInv
  BY DEF Init
<1>1. PresentBytes(node) = {} /\ NodeOK(node) /\ node.nr_children = 0
  BY NewNodeOK DEF PresentBytes
<1> QED  BY <1>1, FS_EmptySet DEF IInv, TypeOK, CountOK

LEMMA IInvNext == IInv /\ [Next]_node => IInv'
<1> SUFFICES ASSUME IInv, [Next]_node  PROVE IInv'
  OBVIOUS
<1>1. ASSUME NEW b \in Byte, NEW c \in Child, Add(b, c)
      PROVE  IInv'
  <2>1. NodeOK(node') /\ Maps(node', node, b, c) /\ node'.nr_children = node.nr_children + 1
    BY <1>1, AddOK
  <2>2. PresentBytes(node') = PresentBytes(node) \cup {b} /\ b \notin PresentBytes(node)
    BY <1>1, <2>1, NullAssumption DEF PresentBytes, Maps, Add
  <2>3. IsFiniteSet(PresentBytes(node))
    <3>1. IsFiniteSet(Byte)
      BY FS_Interval, CapAssumption DEF Byte
    <3>2. PresentBytes(node) \in SUBSET Byte
      BY DEF PresentBytes
    <3> QED  BY <3>1, <3>2, FS_Subset
  <2>4. Cardinality(PresentBytes(node')) = Cardinality(PresentBytes(node)) + 1
    <3> HIDE DEF PresentBytes
    <3> QED  BY <2>2, <2>3, FS_AddElement
  <2> QED  BY <2>1, <2>4 DEF IInv, TypeOK, CountOK
<1>2. ASSUME NEW b \in Byte, NEW c \in Child, Replace(b, c)
      PROVE  IInv'
  <2>1. NodeOK(node') /\ Maps(node', node, b, c) /\ node'.nr_children = node.nr_children
    BY <1>2, ReplaceOK DEF Replace, IInv, TypeOK
  <2>2. PresentBytes(node') = PresentBytes(node)
    BY <1>2, <2>1, NullAssumption DEF PresentBytes, Maps, Replace
  <2> QED  BY <2>1, <2>2 DEF IInv, TypeOK, CountOK
<1>3. CASE UNCHANGED node
  BY <1>3 DEF IInv, TypeOK, CountOK
<1> QED  BY <1>1, <1>2, <1>3 DEF Next

\* The inductive invariant holds in every reachable state.
THEOREM IInvCorrect == Spec => []IInv
BY IInvInit, IInvNext, PTL DEF Spec

\* Node4..Node256: the arrays of an inner node always have the shape the
\* lookups and scans of its layout rely on.
THEOREM TypeCorrect == Spec => []TypeOK
<1>1. IInv => TypeOK
  BY DEF IInv
<1> QED  BY <1>1, IInvCorrect, PTL

\* nr_children, which IsFull and Grow depend on, always counts the children.
THEOREM CountCorrect == Spec => []CountOK
<1>1. IInv => CountOK
  BY DEF IInv
<1> QED  BY <1>1, IInvCorrect, PTL

\* Put never finds the node full and Grow is never called on a Node256.
THEOREM RoomCorrect == Spec => []RoomToGrow
<1>1. IInv => RoomToGrow
  BY RoomOK DEF RoomToGrow
<1> QED  BY <1>1, IInvCorrect, PTL

\* The four layouts and the widenings between them implement the abstract map.
THEOREM ImplementsMap == Spec => ImplementsChildMap
<1> DEFINE abs == [b \in Byte |-> LocateChild(node, b)]
<1>1. Init => cm!Init
  BY NewNodeOK DEF Init, cm!Init
<1>2. IInv /\ [Next]_node => [cm!Next]_abs
  <2> SUFFICES ASSUME IInv, [Next]_node  PROVE [cm!Next]_abs
    OBVIOUS
  <2>1. ASSUME NEW b \in Byte, NEW c \in Child, Add(b, c)
        PROVE  cm!Put(b, c)
    <3>1. Maps(node', node, b, c)
      BY <2>1, AddOK
    <3> QED  BY <2>1, <3>1 DEF cm!Put, Maps, Add
  <2>2. ASSUME NEW b \in Byte, NEW c \in Child, Replace(b, c)
        PROVE  cm!Replace(b, c)
    <3>1. Maps(node', node, b, c)
      BY <2>2, ReplaceOK DEF Replace, IInv, TypeOK
    <3> QED  BY <2>2, <3>1 DEF cm!Replace, Maps, Replace
  <2>3. CASE UNCHANGED node
    BY <2>3
  <2> QED  BY <2>1, <2>2, <2>3 DEF Next, cm!Next
<1> QED
  BY <1>1, <1>2, IInvCorrect, PTL DEF Spec, ImplementsChildMap, cm!Spec

-----------------------------------------------------------------------------
(* Range scans.                                                            *)

\* The calls of a scan of n: one per child in low..high, from high to low.
LEMMA ScanOK ==
  ASSUME NEW n, NodeOK(n), NEW low \in Byte, NEW high \in Byte, low <= high
  PROVE  LET calls == ForEachChild(n, low, high) IN
         /\ {calls[i] : i \in DOMAIN calls}
              = {<<b, LocateChild(n, b)>> : b \in {x \in low..high : LocateChild(n, x) # NULL}}
         /\ \A i, j \in DOMAIN calls : i < j => calls[i][1] > calls[j][1]
<1> DEFINE calls == ForEachChild(n, low, high)
           E     == {<<b, LocateChild(n, b)>> : b \in {x \in low..high : LocateChild(n, x) # NULL}}
<1>1. low \in Int /\ high \in Int /\ low..high \subseteq Byte
  BY CapAssumption DEF Byte
<1>2. CASE n.type \in Sorted
  <2> DEFINE last == n.nr_children - 1
             hits == {i \in 0..last : Visits(n, i, low, high)}
             s    == DownTo(last, 0, hits)
  <2>1. /\ n.nr_children \in Nat /\ last \in Int /\ last + 1 = n.nr_children
        /\ \A i \in 0..last : n.keys[i] \in Int /\ n.keys[i] \in Byte
                              /\ n.children[i] # NULL
                              /\ LocateChild(n, n.keys[i]) = n.children[i]
    <3>1. n.nr_children \in Nat /\ last \in Int /\ last + 1 = n.nr_children
      BY <1>2, SortedFacts
    <3>2. \A i \in 0..last : n.keys[i] \in Byte /\ n.children[i] # NULL
      BY <1>2, SortedFacts
    <3>3. \A i \in 0..last : n.keys[i] \in Int
      BY <3>2 DEF Byte
    <3> QED  BY <1>2, <3>1, <3>2, <3>3, SortedLookup
  <2>2. \A i, j \in 0..last : i < j => n.keys[i] < n.keys[j]
    BY <1>2, SortedFacts
  <2>3. \A i \in 0..last : i \in hits <=> n.keys[i] \in low..high
    <3> SUFFICES ASSUME NEW i \in 0..last
                 PROVE  Visits(n, i, low, high) <=> n.keys[i] \in low..high
      OBVIOUS
    <3>1. i \in i..last /\ i \in Int /\ \A j \in i..last : j \in 0..last
      BY <2>1
    <3>2. \A j \in i..last : n.keys[i] <= n.keys[j]
      BY <2>1, <2>2, <3>1
    <3> QED  BY <1>1, <2>1, <3>1, <3>2 DEF Visits
  <2>4. Scanned(s, last, last + 1, hits)
    <3>1. 0 <= last + 1 /\ last - 0 + 1 = last + 1
      BY <2>1
    <3> HIDE DEF last, hits
    <3>2. Scanned(DownTo(last, 0, hits), last, last - 0 + 1, hits)
      BY <2>1, <3>1, DownToScans
    <3> QED  BY <3>1, <3>2
  <2>5. calls = [k \in DOMAIN s |-> <<n.keys[s[k]], n.children[s[k]]>>]
    BY <1>2 DEF ForEachChild
  <2> HIDE DEF calls, s, hits
  <2>6. /\ s \in Seq(Int) /\ DOMAIN s = 1..Len(s) /\ Len(s) \in Nat
        /\ \A x \in 1..Len(s) : s[x] \in hits /\ s[x] \in 0..last
        /\ \A i \in 0..last : i \in hits => \E x \in 1..Len(s) : s[x] = i
        /\ \A x, y \in 1..Len(s) : x < y => s[x] > s[y]
    <3>1. last - (last + 1) + 1 = 0
      BY <2>1
    <3>2. s \in Seq(Int)
      BY <2>4 DEF Scanned
    <3>3. DOMAIN s = 1..Len(s) /\ Len(s) \in Nat
      BY <3>2
    <3> HIDE DEF last
    <3> QED  BY <2>4, <3>1, <3>2, <3>3 DEF Scanned
  <2>7. \A k \in DOMAIN calls : calls[k] \in E
    <3> SUFFICES ASSUME NEW k \in 1..Len(s) PROVE calls[k] \in E
      BY <2>5, <2>6
    <3>1. s[k] \in 0..last /\ n.keys[s[k]] \in low..high
      BY <2>3, <2>6
    <3>2. calls[k] = <<n.keys[s[k]], LocateChild(n, n.keys[s[k]])>>
          /\ LocateChild(n, n.keys[s[k]]) # NULL
      BY <2>1, <2>5, <2>6, <3>1
    <3> QED  BY <3>1, <3>2
  <2>8. \A e \in E : \E k \in DOMAIN calls : calls[k] = e
    <3> SUFFICES ASSUME NEW b \in low..high, LocateChild(n, b) # NULL
                 PROVE  \E k \in DOMAIN calls : calls[k] = <<b, LocateChild(n, b)>>
      OBVIOUS
    <3>1. PICK i \in 0..last : n.keys[i] = b
      BY <1>2, SortedLookup
    <3>2. PICK k \in 1..Len(s) : s[k] = i
      BY <2>3, <2>6, <3>1
    <3>3. calls[k] = <<b, LocateChild(n, b)>>
      BY <2>1, <2>5, <2>6, <3>1, <3>2
    <3> QED  BY <2>5, <2>6, <3>3
  <2>9. \A i, j \in DOMAIN calls : i < j => calls[i][1] > calls[j][1]
    <3> SUFFICES ASSUME NEW i \in 1..Len(s), NEW j \in 1..Len(s), i < j
                 PROVE  calls[i][1] > calls[j][1]
      BY <2>5, <2>6
    <3>1. calls[i][1] = n.keys[s[i]] /\ calls[j][1] = n.keys[s[j]]
      BY <2>5, <2>6
    <3>2. s[i] > s[j] /\ s[i] \in 0..last /\ s[j] \in 0..last
      BY <2>6
    <3> QED  BY <2>1, <2>2, <3>1, <3>2
  <2> HIDE DEF E
  <2>10. {calls[i] : i \in DOMAIN calls} = E
    BY <2>7, <2>8
  <2> QED  BY <2>9, <2>10 DEF calls, E
<1>3. CASE n.type \notin Sorted
  <2> DEFINE s == DownTo(high, low, PresentBytes(n))
  <2>1. Scanned(s, high, high - low + 1, PresentBytes(n))
    BY <1>1, DownToScans
  <2>2. calls = [k \in DOMAIN s |-> <<s[k], LocateChild(n, s[k])>>]
    BY <1>3 DEF ForEachChild
  <2> HIDE DEF calls, s
  <2>3. /\ s \in Seq(Int) /\ DOMAIN s = 1..Len(s) /\ Len(s) \in Nat
        /\ \A x \in 1..Len(s) : s[x] \in PresentBytes(n) /\ s[x] \in low..high
        /\ \A i \in low..high : i \in PresentBytes(n) => \E x \in 1..Len(s) : s[x] = i
        /\ \A x, y \in 1..Len(s) : x < y => s[x] > s[y]
    <3>1. high - (high - low + 1) + 1 = low
      BY <1>1
    <3>2. s \in Seq(Int)
      BY <2>1 DEF Scanned
    <3>3. DOMAIN s = 1..Len(s) /\ Len(s) \in Nat
      BY <3>2
    <3> QED  BY <2>1, <3>1, <3>2, <3>3 DEF Scanned
  <2>4. \A b \in low..high : b \in PresentBytes(n) <=> LocateChild(n, b) # NULL
    BY <1>1 DEF PresentBytes
  <2>5. \A k \in DOMAIN calls : calls[k] \in E
    BY <2>2, <2>3, <2>4
  <2>6. \A e \in E : \E k \in DOMAIN calls : calls[k] = e
    BY <2>2, <2>3, <2>4
  <2>7. \A i, j \in DOMAIN calls : i < j => calls[i][1] > calls[j][1]
    BY <2>2, <2>3
  <2> HIDE DEF E
  <2>8. {calls[i] : i \in DOMAIN calls} = E
    BY <2>5, <2>6
  <2> QED  BY <2>7, <2>8 DEF calls, E
<1> QED  BY <1>2, <1>3

\* ForEachChild of Node4..Node256: a range query is called back for exactly the
\* children of its range, highest byte first, whatever the layout.
THEOREM ScanCorrect == Spec => []ScanExact
<1>1. IInv => ScanExact
  <2> SUFFICES ASSUME IInv, NEW low \in Byte, NEW high \in Byte, low <= high
               PROVE  LET calls == ForEachChild(node, low, high) IN
                      /\ {calls[i] : i \in DOMAIN calls} = cm!Entries(low, high)
                      /\ \A i, j \in DOMAIN calls : i < j => calls[i][1] > calls[j][1]
    BY DEF ScanExact
  <2>1. low..high \subseteq Byte
    BY CapAssumption DEF Byte
  <2>2. cm!Entries(low, high)
          = {<<b, LocateChild(node, b)>> : b \in {x \in low..high : LocateChild(node, x) # NULL}}
    BY <2>1 DEF cm!Entries
  <2> QED  BY <2>2, ScanOK DEF IInv, TypeOK
<1> QED  BY <1>1, IInvCorrect, PTL
=============================================================================
