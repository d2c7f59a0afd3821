---------------------------- MODULE QueryProofs ----------------------------
(***************************************************************************)
(* Why a query finds what it should.                                       *)
(*                                                                         *)
(* The labels of InsertionInv give every node a stored key and a place in   *)
(* it.  A State on the stack stands for the stored keys below its node:     *)
(*   - it is about to consume the byte that led to the node, and the bytes   *)
(*     of the buffers it calls its own are those of the node's key;          *)
(*   - its matcher knows of every key below the node what it knows of one,   *)
(*     and the bounds agree with the value as far as they were compared;     *)
(*   - a State above it has at least as many bytes of its own, and other     *)
(*     keys: writing them leaves the bytes of the States below alone;        *)
(*   - what has been emitted was asked for, and will not come again.         *)
(* That nothing is missed is a second invariant: a stored key that          *)
(* qualifies has been emitted or is below a State still to come.  At the    *)
(* end the same for integers, whose order is that of their bytes.           *)
(***************************************************************************)
EXTENDS IntegerQuery, InsertionProofs, PathPatternProofs

-----------------------------------------------------------------------------
(* What queries need of keys, patterns and bounds                           *)

LEMMA WordFacts ==
  ASSUME NEW w \in Paths
  PROVE  WordOK(w) /\ w \in Seq(Byte) /\ Len(w) \in 2..BufferSize /\ BufferSize \in Nat
<1>1. /\ w \in Seq(PathByte) /\ Len(w) \in 2..BufferSize /\ BufferSize \in Nat
      /\ \A i \in 1..Len(w) : w[i] = kNullByte <=> i = Len(w)
  BY QueryAssumption
<1>2. ASSUME NEW k \in 0..(Len(w) - 1)
      PROVE  w[k + 1] \in PathByte /\ (w[k + 1] = kNullByte <=> k = Len(w) - 1)
  <2>1. k + 1 \in 1..Len(w) /\ (k + 1 = Len(w) <=> k = Len(w) - 1)
    BY <1>1
  <2> QED BY <1>1, <2>1
<1>3. WordOK(w)
  BY <1>1, <1>2 DEF WordOK
<1>4. w \in Seq(Byte)
  BY KeyAssumption
<1> QED BY <1>1, <1>3, <1>4

LEMMA PatternFacts ==
  ASSUME Searchable, NEW p \in Patterns
  PROVE  /\ PatternOK(p)
         /\ \A n \in 1..Len(p) : p[n] \in PathByte \cup {Wildcard, Descendant}
<1>1. p \in Seq(Letter \cup {kPathSep, Wildcard, Descendant}) /\ Len(p) \in Nat
  BY QueryAssumption
<1>2. /\ kNullByte \notin Letter \cup {kPathSep, Wildcard, Descendant}
      /\ Letter \cup {kPathSep, Wildcard, Descendant} \subseteq PathByte \cup {Wildcard, Descendant}
  BY SpecialAssumption DEF PathByte
<1>3. \A n \in 1..Len(p) : p[n] \in Letter \cup {kPathSep, Wildcard, Descendant}
  BY <1>1
<1>4. BehindAxis(p)
  BY DEF Searchable
<1> QED BY <1>1, <1>2, <1>3, <1>4 DEF PatternOK

\* The keys are prefix-free, as the theorems on insertion assume.
LEMMA SearchableFree == Searchable => PrefixFree
<1> SUFFICES ASSUME Searchable PROVE PrefixFree
  OBVIOUS
<1>1. PrefixFreeSet(Values)
  BY DEF Searchable, PrefixFreeSet
<1>2. ASSUME NEW a \in Paths, NEW b \in Paths, Len(a) <= Len(b),
             \A i \in 1..Len(a) : a[i] = b[i]
      PROVE  a = b
  <2>1. /\ a \in Seq(Byte) /\ b \in Seq(Byte) /\ Len(a) \in Nat /\ Len(b) \in Nat /\ Len(a) >= 2
        /\ \A i \in 1..Len(a) : a[i] = kNullByte <=> i = Len(a)
        /\ \A i \in 1..Len(b) : b[i] = kNullByte <=> i = Len(b)
    BY WordFacts, QueryAssumption
  <2>2. Len(a) \in 1..Len(a) /\ Len(a) \in 1..Len(b)
    BY <1>2, <2>1
  <2>3. a[Len(a)] = kNullByte /\ b[Len(a)] = a[Len(a)]
    BY <1>2, <2>1, <2>2
  <2>4. Len(a) = Len(b)
    BY <2>1, <2>2, <2>3
  <2> QED BY <1>2, <2>1, <2>4, SeqEqual
<1>3. PrefixFreeSet(Paths)
  BY <1>2 DEF PrefixFreeSet
<1> QED BY <1>1, <1>3 DEF PrefixFree

LEMMA BytesAreNumbers == \A b \in Byte : b \in Nat
BY ByteAssumption DEF Byte

LEMMA BoundFacts ==
  ASSUME NEW b \in Bounds
  PROVE  b \in Seq(Byte) /\ Len(b) \in Nat
BY QueryAssumption

\* A value that begins like a bound, or a bound that begins like a value, is
\* that bound.
LEMMA BoundIsValue ==
  ASSUME Searchable, NEW k \in Key, NEW b \in Bounds, NEW n \in Nat,
         \A i \in 1..n : b[i] = k.value[i],
         n <= Len(b), n <= Len(k.value), n = Len(b) \/ n = Len(k.value)
  PROVE  b = k.value
<1>1. k.value \in Values /\ Len(k.value) \in Nat /\ Len(b) \in Nat
  BY KeyFacts, BoundFacts
<1>2. b \in Values \cup Bounds /\ k.value \in Values \cup Bounds
  BY <1>1
<1>3. CASE n = Len(b)
  <2>1. Len(b) <= Len(k.value) /\ \A i \in 1..Len(b) : b[i] = k.value[i]
    BY <1>3
  <2> QED BY <1>2, <2>1 DEF Searchable, PrefixFreeSet
<1>4. CASE n = Len(k.value)
  <2>1. Len(k.value) <= Len(b) /\ \A i \in 1..Len(k.value) : k.value[i] = b[i]
    BY <1>4
  <2> QED BY <1>2, <2>1 DEF Searchable, PrefixFreeSet
<1> QED BY <1>3, <1>4

-----------------------------------------------------------------------------
(* The order of byte strings                                                *)

LEMMA SubSeqAgree ==
  ASSUME NEW S, NEW a \in Seq(S), NEW b \in Seq(S), NEW n \in Nat,
         n <= Len(a), n <= Len(b)
  PROVE  SubSeq(a, 1, n) = SubSeq(b, 1, n) <=> \A i \in 1..n : a[i] = b[i]
<1>1. Len(a) \in Nat /\ Len(b) \in Nat
  OBVIOUS
<1>2. SubSeq(a, 1, n) = [i \in 1..n |-> a[i]] /\ SubSeq(b, 1, n) = [i \in 1..n |-> b[i]]
  <2>1. \A i \in 1..n : 1 + i - 1 = i
    OBVIOUS
  <2> QED BY <1>1, <2>1
<1> QED BY <1>2

LEMMA OrderedAtOnce ==
  ASSUME NEW a \in Seq(Byte), NEW b \in Seq(Byte), NEW n \in Nat,
         n < Len(a), n < Len(b), \A i \in 1..n : a[i] = b[i], a[n + 1] < b[n + 1]
  PROVE  LessOrEqual(a, b) /\ ~ LessOrEqual(b, a)
<1>1. Len(a) \in Nat /\ Len(b) \in Nat /\ n + 1 \in 1..Len(a) /\ n + 1 \in 1..Len(b)
  OBVIOUS
<1>2. /\ \A i \in 1..Len(a) : a[i] \in Int
      /\ \A i \in 1..Len(b) : b[i] \in Int
  <2>1. (\A i \in 1..Len(a) : a[i] \in Byte) /\ \A i \in 1..Len(b) : b[i] \in Byte
    OBVIOUS
  <2> QED BY <2>1, BytesAreNumbers
<1>3. LessOrEqual(a, b)
  <2>1. SubSeq(a, 1, n) = SubSeq(b, 1, n)
    BY <1>1, SubSeqAgree
  <2>2. (n + 1) - 1 = n
    OBVIOUS
  <2>3. SubSeq(a, 1, (n + 1) - 1) = SubSeq(b, 1, (n + 1) - 1)
    BY <2>1, <2>2
  <2> QED BY <1>1, <2>3 DEF LessOrEqual
<1>4. ASSUME Len(b) <= Len(a), SubSeq(a, 1, Len(b)) = b PROVE FALSE
  <2>1. SubSeq(a, 1, Len(b)) = SubSeq(b, 1, Len(b))
    BY <1>1, <1>4
  <2>2. \A i \in 1..Len(b) : a[i] = b[i]
    BY <1>1, <1>4, <2>1, SubSeqAgree
  <2> QED BY <1>1, <1>2, <2>2
<1>5. ASSUME NEW i \in 1..Len(b), i <= Len(a), b[i] < a[i],
             SubSeq(b, 1, i - 1) = SubSeq(a, 1, i - 1)
      PROVE  FALSE
  <2>1. i - 1 \in Nat /\ i - 1 <= Len(a) /\ i - 1 <= Len(b)
    BY <1>1, <1>5
  <2>2. \A j \in 1..(i - 1) : b[j] = a[j]
    BY <1>5, <2>1, SubSeqAgree
  <2>3. CASE i <= n
    BY <1>1, <1>2, <1>5, <2>3
  <2>4. CASE i = n + 1
    BY <1>1, <1>2, <1>5, <2>4
  <2>5. CASE i > n + 1
    <3>1. n + 1 \in 1..(i - 1)
      BY <2>5
    <3> QED BY <1>1, <1>2, <2>2, <3>1
  <2> QED BY <2>3, <2>4, <2>5
<1> QED BY <1>3, <1>4, <1>5 DEF LessOrEqual

LEMMA OrderedSame ==
  ASSUME NEW a \in Seq(Byte)
  PROVE  LessOrEqual(a, a)
<1>1. SubSeq(a, 1, Len(a)) = a /\ Len(a) <= Len(a)
  OBVIOUS
<1> QED BY <1>1 DEF LessOrEqual

-----------------------------------------------------------------------------
(* The children are visited once each                                       *)

LEMMA DecreasingExists ==
  ASSUME NEW n \in Nat
  PROVE  \A S \in SUBSET Byte : Cardinality(S) = n =>
           \E f \in [1..n -> S] : \A i, j \in 1..n : i < j => f[i] > f[j]
<1> DEFINE P(m) == \A S \in SUBSET Byte : Cardinality(S) = m =>
                     \E f \in [1..m -> S] : \A i, j \in 1..m : i < j => f[i] > f[j]
           T == {m \in Nat : ~ P(m)}
<1>1. T = {}
  <2> SUFFICES ASSUME T # {} PROVE FALSE
    OBVIOUS
  <2> DEFINE m == Least(T)
  <2>1. m \in T /\ \A j \in T : m <= j
    <3>1. T \in SUBSET Nat
      OBVIOUS
    <3> HIDE DEF T
    <3> QED BY <3>1, LeastIsLeast
  <2>2. m \in Nat /\ ~ P(m)
    BY <2>1
  <2> HIDE DEF m
  <2>3. PICK S \in SUBSET Byte : /\ Cardinality(S) = m
                                 /\ ~ \E f \in [1..m -> S] : \A i, j \in 1..m : i < j => f[i] > f[j]
    BY <2>2
  <2>4. IsFiniteSet(S)
    <3>1. IsFiniteSet(Byte)
      BY ByteAssumption, FS_Interval DEF Byte
    <3> QED BY <3>1, FS_Subset
  <2>5. CASE m = 0
    <3> DEFINE f == [i \in 1..0 |-> 0]
    <3>1. f \in [1..0 -> S] /\ \A i, j \in 1..0 : i < j => f[i] > f[j]
      OBVIOUS
    <3> HIDE DEF f
    <3> QED BY <2>3, <2>5, <3>1
  <2>6. CASE m # 0
    <3>1. S # {}
      BY <2>3, <2>6, FS_EmptySet
    <3> DEFINE e == Least(S)
    <3>2. e \in S /\ \A j \in S : e <= j
      <4>1. S \in SUBSET Nat
        BY DEF Byte
      <4> QED BY <3>1, <4>1, LeastIsLeast
    <3> HIDE DEF e
    <3> DEFINE R == S \ {e}
    <3>3. R \in SUBSET Byte /\ Cardinality(R) = m - 1
      BY <2>3, <2>4, <3>2, FS_RemoveElement
    <3>4. m - 1 \in Nat /\ P(m - 1)
      <4>1. m - 1 \in Nat /\ ~ (m <= m - 1)
        BY <2>2, <2>6
      <4>2. m - 1 \notin T
        <5> HIDE DEF T
        <5> QED BY <2>1, <4>1
      <4> QED BY <4>1, <4>2
    <3> HIDE DEF R
    <3>5. PICK g \in [1..(m - 1) -> R] : \A i, j \in 1..(m - 1) : i < j => g[i] > g[j]
      BY <3>3, <3>4
    <3> DEFINE f == [i \in 1..m |-> IF i = m THEN e ELSE g[i]]
    <3>6. \A i \in 1..m : i = m \/ i \in 1..(m - 1)
      BY <2>2
    <3>7. f \in [1..m -> S]
      <4>1. \A i \in 1..m : (IF i = m THEN e ELSE g[i]) \in S
        BY <3>2, <3>5, <3>6 DEF R
      <4> QED BY <4>1
    <3>8. ASSUME NEW i \in 1..m, NEW j \in 1..m, i < j PROVE f[i] > f[j]
      <4>1. i \in 1..(m - 1) /\ i # m /\ f[i] = g[i]
        BY <2>2, <3>8
      <4>2. CASE j = m
        <5>1. f[j] = e /\ g[i] \in R
          BY <3>5, <4>1, <4>2
        <5>2. g[i] \in S /\ g[i] # e /\ e <= g[i]
          BY <3>2, <5>1 DEF R
        <5>3. g[i] \in Int /\ e \in Int
          BY <3>2, <5>2, BytesAreNumbers
        <5> HIDE DEF f
        <5> QED BY <4>1, <5>1, <5>2, <5>3
      <4>3. CASE j # m
        <5>1. j \in 1..(m - 1) /\ f[j] = g[j]
          BY <3>6, <4>3
        <5> HIDE DEF f
        <5> QED BY <3>5, <3>8, <4>1, <5>1
      <4> QED BY <4>2, <4>3
    <3> HIDE DEF f
    <3> QED BY <2>3, <3>7, <3>8
  <2> QED BY <2>5, <2>6
<1> QED BY <1>1

LEMMA EveryChildOnce ==
  ASSUME NEW S \in SUBSET Byte
  PROVE  LET f == HighToLow(S) IN
         /\ Cardinality(S) \in Nat /\ f \in [1..Cardinality(S) -> S]
         /\ \A i, j \in 1..Cardinality(S) : i # j => f[i] # f[j]
         /\ \A b \in S : \E i \in 1..Cardinality(S) : f[i] = b
<1> DEFINE n == Cardinality(S)
           f == HighToLow(S)
           D(g) == \A i, j \in DOMAIN g : i < j => g[i] > g[j]
<1>1. IsFiniteSet(S)
  <2>1. IsFiniteSet(Byte)
    BY ByteAssumption, FS_Interval DEF Byte
  <2> QED BY <2>1, FS_Subset
<1>2. n \in Nat
  BY <1>1, FS_CardinalityType
<1>3. \E g \in [1..n -> S] : D(g)
  <2>1. PICK g \in [1..n -> S] : \A i, j \in 1..n : i < j => g[i] > g[j]
    <3> HIDE DEF n
    <3>1. Cardinality(S) = n
      BY DEF n
    <3> QED BY <1>2, <3>1, DecreasingExists
  <2>2. DOMAIN g = 1..n
    OBVIOUS
  <2> QED BY <2>1, <2>2
<1>4. f \in [1..n -> S] /\ D(f)
  <2>1. f = CHOOSE g \in [1..n -> S] : D(g)
    BY DEF HighToLow
  <2> HIDE DEF n, f, D
  <2> QED BY <1>3, <2>1
<1>5. \A i, j \in 1..n : i < j => f[i] > f[j]
  BY <1>4
<1>6. ASSUME NEW i \in 1..n, NEW j \in 1..n, i # j PROVE f[i] # f[j]
  <2> HIDE DEF n, f
  <2>1. f[i] \in Int /\ f[j] \in Int
    <3>1. f[i] \in S /\ f[j] \in S
      BY <1>4
    <3> QED BY <3>1, BytesAreNumbers
  <2>2. i < j \/ j < i
    BY <1>2, <1>6
  <2> QED BY <1>5, <2>1, <2>2
<1>7. ASSUME NEW b \in S PROVE \E i \in 1..n : f[i] = b
  <2>1. f \in Injection(1..n, S)
    <3> HIDE DEF n, f
    <3> QED BY <1>4, <1>6 DEF Injection, IsInjective
  <2>2. IsFiniteSet(1..n) /\ Cardinality(1..n) = n
    <3> HIDE DEF n
    <3> QED BY <1>2, FS_Interval
  <2>3. f \in Surjection(1..n, S)
    <3> HIDE DEF f
    <3> QED BY <1>1, <2>1, <2>2, FS_Injection
  <2> HIDE DEF f, n
  <2> QED BY <2>3 DEF Surjection
<1> QED BY <1>2, <1>4, <1>6, <1>7

-----------------------------------------------------------------------------
(* The invariant of a walk.  A State stands for the keys below its node.    *)

\* What a State is, whatever trie and key it belongs to.
StateRecord ==
  [node : Node, parent_dimension : Dimension, parent_byte : Byte,
   len_pat : Nat, len_val : Nat,
   pm_state : [ppos_ : Nat, qpos_ : Nat, desc_ppos_ : Nat, desc_qpos_ : Int],
   vl_pos : Nat, vh_pos : Nat]

\* The stored keys below n.
Covers(lab, n, k) ==
  k \in Key /\ content[k] # <<>> /\ Agree(k, lab[n].key, lab[n].p, lab[n].v)

\* The State is about to consume the byte that led to its node.
Entered(lab, t) ==
  IF t.node = root THEN t.len_pat = 0 /\ t.len_val = 0
  ELSE LET d == t.parent_dimension IN
       /\ lab[t.node].p = t.len_pat + PathStep(d)
       /\ lab[t.node].v = t.len_val + ValueStep(d)
       /\ ByteAt(lab[t.node].key, d, t.len_pat, t.len_val) = t.parent_byte

\* The buffers hold the bytes of k that belong to the State.
Holds(k, t) == /\ \A i \in 1..t.len_pat : buf_pat[i] = k.path[i]
               /\ \A i \in 1..t.len_val : buf_val[i] = k.value[i]

\* The first pos of len value bytes of k are those of the bound.
Shares(k, bound, pos, len) ==
  pos \in 0..len /\ pos <= Len(bound) /\ \A i \in 1..pos : bound[i] = k.value[i]

Compared(k, t) == /\ Shares(k, key.low, t.vl_pos, t.len_val)
                  /\ Shares(k, key.high, t.vh_pos, t.len_val)

\* A State on the stack.
Waiting(lab, t) ==
  /\ t \in StateRecord /\ t.node \in DOMAIN heap /\ Entered(lab, t)
  /\ Holds(lab[t.node].key, t) /\ Compared(lab[t.node].key, t)
  /\ \A k : Covers(lab, t.node, k) =>
       \E m \in {"INCOMPLETE", "MATCH"} : Knows(k.path, key.path, t.len_pat, t.pm_state, m)

\* The State that has been popped, while it is evaluated.
Current(lab) ==
  /\ s \in StateRecord /\ s.node \in DOMAIN heap
  /\ s.len_pat = EndP(heap, lab, s.node) /\ s.len_val = EndV(heap, lab, s.node)
  /\ Holds(lab[s.node].key, s) /\ Compared(lab[s.node].key, s)
  /\ \A k : Covers(lab, s.node, k) =>
       \/ Knows(k.path, key.path, s.len_pat, pm_state, match_pat)
       \/ match_pat = "calling" /\ Knows(k.path, key.path, s.len_pat, pm_state, "MATCH")

\* A State above t on the stack owns all bytes that t owns, and other keys.
Before(lab, t, u) ==
  t.len_pat <= u.len_pat /\ t.len_val <= u.len_val /\ Conflict(lab[t.node], lab[u.node])

\* Keys that the walk has still to come to.
Pending(lab, k) ==
  \/ \E i \in DOMAIN stack : Covers(lab, stack[i].node, k)
  \/ qpc = "match" /\ Covers(lab, s.node, k)

WalkType ==
  /\ root \in DOMAIN heap /\ key \in SearchKey /\ stack \in Seq(StateRecord)
  /\ s = NoState \/ StateOK(s)
  /\ pm_state \in PMState
  /\ buf_pat \in [1..BufferSize -> Byte] /\ buf_val \in [1..BufferSize -> Byte]
  /\ emitted \in [Key -> Seq(Ref)]

\* What has been emitted, was rightly and completely emitted.
Sound(lab) ==
  \A k \in Key : emitted[k] # <<>> =>
    emitted[k] = content[k] /\ Qualifies(k) /\ ~ Pending(lab, k)

QueryWalk(lab) ==
  /\ WalkType
  /\ \A i \in DOMAIN stack : Waiting(lab, stack[i])
  /\ \A i, j \in DOMAIN stack : i < j => Before(lab, stack[i], stack[j])
  /\ qpc = "match" => Current(lab) /\ \A i \in DOMAIN stack : Before(lab, stack[i], s)
  /\ Sound(lab)

\* What the walk has passed, has been emitted.
Complete(lab) ==
  \A k \in Key : content[k] # <<>> /\ Qualifies(k) /\ ~ Pending(lab, k) =>
    emitted[k] = content[k]

\* The trie during a walk.
Labels(lab) == HeapOK(heap) /\ Labelled(heap, content, root, lab)

-----------------------------------------------------------------------------
LEMMA CoversLabel ==
  ASSUME NEW lab, Labels(lab), NEW n \in DOMAIN heap
  PROVE  Covers(lab, n, lab[n].key)
<1>1. /\ lab[n].key \in Key /\ content[lab[n].key] # <<>>
      /\ lab[n].p <= Len(lab[n].key.path) /\ lab[n].v <= Len(lab[n].key.value)
  BY LabelFacts DEF Labels, LabelOK
<1> QED BY <1>1, AgreeRefl DEF Covers

\* A covered key has all bytes in common that the node spells out.
LEMMA CoversEnd ==
  ASSUME NEW lab, Labels(lab), NEW n \in DOMAIN heap, NEW k, Covers(lab, n, k)
  PROVE  LET p == EndP(heap, lab, n)
             v == EndV(heap, lab, n)
         IN  /\ Agree(k, lab[n].key, p, v)
             /\ p \in Nat /\ v \in Nat /\ p <= Len(k.path) /\ v <= Len(k.value)
             /\ heap[n].dim = "Leaf" => k = lab[n].key
             /\ heap[n].dim # "Leaf" =>
                  /\ HasByte(k, heap[n].dim, p, v)
                  /\ heap[n].children[ByteAt(k, heap[n].dim, p, v)] # nullptr
<1>1. k \in Key /\ content[k] # <<>> /\ Agree(k, lab[n].key, lab[n].p, lab[n].v)
  BY DEF Covers
<1>2. EndP(heap, lab, n) \in Nat /\ EndV(heap, lab, n) \in Nat
  BY LabelFacts DEF Labels
<1>3. Agree(k, lab[n].key, EndP(heap, lab, n), EndV(heap, lab, n))
  BY <1>1, StoredIsBelow DEF Labels
<1>4. /\ heap[n].dim = "Leaf" => k = lab[n].key
      /\ heap[n].dim # "Leaf" =>
           /\ HasByte(k, heap[n].dim, EndP(heap, lab, n), EndV(heap, lab, n))
           /\ heap[n].children[ByteAt(k, heap[n].dim, EndP(heap, lab, n), EndV(heap, lab, n))] # nullptr
  BY <1>1, StoredIsBelow DEF Labels
<1> QED BY <1>2, <1>3, <1>4 DEF Agree

\* The way of a key through the buffers.
LEMMA KeyRoom ==
  ASSUME NEW k \in Key
  PROVE  /\ WordOK(k.path) /\ k.path \in Seq(Byte) /\ k.value \in Seq(Byte)
         /\ Len(k.path) \in 2..BufferSize /\ Len(k.value) \in 0..BufferSize /\ BufferSize \in Nat
<1>1. k.path \in Paths /\ k.value \in Values /\ k.value \in Seq(Byte) /\ Len(k.value) \in Nat
  BY KeyFacts
<1> QED BY <1>1, WordFacts, QueryAssumption

\* The positions of a matcher that knows something.
LEMMA KnowsRange ==
  ASSUME Searchable, key \in SearchKey, NEW k \in Key, NEW len, NEW st, NEW m,
         Knows(k.path, key.path, len, st, m)
  PROVE  /\ st \in PMState /\ PatternOK(key.path) /\ WordOK(k.path)
         /\ st \in [ppos_ : Nat, qpos_ : Nat, desc_ppos_ : Nat, desc_qpos_ : Int]
         /\ Places(k.path, key.path, st.ppos_, st.qpos_, st.desc_ppos_, st.desc_qpos_)
<1>1. key.path \in Patterns
  BY DEF SearchKey
<1>2. PatternOK(key.path) /\ WordOK(k.path) /\ Len(k.path) \in 2..BufferSize /\ BufferSize \in Nat
  BY <1>1, PatternFacts, KeyRoom
<1>3. /\ st = At(st.ppos_, st.qpos_, st.desc_ppos_, st.desc_qpos_)
      /\ Places(k.path, key.path, st.ppos_, st.qpos_, st.desc_ppos_, st.desc_qpos_)
  BY DEF Knows
<1>4. Len(key.path) \in Nat
  BY <1>2 DEF PatternOK
<1>5. /\ st.ppos_ \in 0..BufferSize /\ st.desc_ppos_ \in 0..BufferSize
      /\ st.qpos_ \in 0..Len(key.path) /\ st.desc_qpos_ \in (-1)..(Len(key.path) - 1)
  BY <1>2, <1>3, <1>4 DEF Places
<1>6. st \in PMState
  BY <1>3, <1>5 DEF PMState, At, Position, matcher!NoDescendant
<1>7. /\ st.ppos_ \in Nat /\ st.desc_ppos_ \in Nat /\ st.qpos_ \in Nat /\ st.desc_qpos_ \in Int
  BY <1>2, <1>4, <1>5
<1>8. st \in [ppos_ : Nat, qpos_ : Nat, desc_ppos_ : Nat, desc_qpos_ : Int]
  BY <1>3, <1>7 DEF At
<1> QED BY <1>2, <1>3, <1>6, <1>8

LEMMA WaitingOK ==
  ASSUME Searchable, key \in SearchKey, NEW lab, Labels(lab), NEW t, Waiting(lab, t)
  PROVE  /\ StateOK(t)
         /\ t.len_pat <= lab[t.node].p /\ t.len_val <= lab[t.node].v
<1> DEFINE k == lab[t.node].key
<1>1. /\ t \in StateRecord /\ t.node \in DOMAIN heap /\ Entered(lab, t)
      /\ Compared(k, t)
  BY DEF Waiting
<1>2. /\ k \in Key /\ lab[t.node].p \in Nat /\ lab[t.node].v \in Nat
      /\ lab[t.node].p <= Len(k.path) /\ lab[t.node].v <= Len(k.value)
  BY <1>1, LabelFacts DEF Labels, LabelOK
<1>3. /\ t.len_pat \in Nat /\ t.len_val \in Nat /\ t.parent_dimension \in Dimension
      /\ t.parent_byte \in Byte
  BY <1>1 DEF StateRecord
<1>4. t.len_pat <= lab[t.node].p /\ t.len_val <= lab[t.node].v
  BY <1>1, <1>2, <1>3 DEF Entered, PathStep, ValueStep
<1>5. t.len_pat \in Position /\ t.len_val \in Position
  BY <1>2, <1>3, <1>4, KeyRoom DEF Position
<1>6. Covers(lab, t.node, k)
  BY <1>1, CoversLabel
<1>7. PICK m : Knows(k.path, key.path, t.len_pat, t.pm_state, m)
  BY <1>6 DEF Waiting
<1>8. t.pm_state \in PMState
  BY <1>2, <1>7, KnowsRange
<1>9. t.vl_pos \in 0..t.len_val /\ t.vh_pos \in 0..t.len_val
  BY <1>1 DEF Compared, Shares
<1> QED BY <1>1, <1>3, <1>4, <1>5, <1>8, <1>9 DEF StateOK

-----------------------------------------------------------------------------
(* Pop: the buffers                                                         *)

\* The bytes src are those of w behind the first pos.
Copies(src, w, pos) == src \in Seq(Byte) /\ \A i \in 1..Len(src) : src[i] = w[pos + i]

\* One byte or none, and what follows it.
LEMMA Glue ==
  ASSUME NEW h, NEW r, NEW w, NEW a \in Nat, NEW p, NEW e,
         Copies(h, w, a), Copies(r, w, p), p = a + Len(h), e = p + Len(r)
  PROVE  Copies(h \o r, w, a) /\ a + Len(h \o r) = e
<1>1. /\ h \in Seq(Byte) /\ r \in Seq(Byte) /\ Len(h) \in Nat /\ Len(r) \in Nat
      /\ \A i \in 1..Len(h) : h[i] = w[a + i]
      /\ \A i \in 1..Len(r) : r[i] = w[p + i]
  BY DEF Copies
<1>2. /\ h \o r \in Seq(Byte) /\ Len(h \o r) = Len(h) + Len(r)
      /\ \A x \in 1..Len(h) : (h \o r)[x] = h[x]
      /\ \A x \in 1..Len(r) : (h \o r)[Len(h) + x] = r[x]
  BY <1>1, Concatenation
<1>3. ASSUME NEW i \in 1..(Len(h) + Len(r)) PROVE (h \o r)[i] = w[a + i]
  <2>1. CASE i <= Len(h)
    <3>1. i \in 1..Len(h)
      BY <1>1, <2>1
    <3> QED BY <1>1, <1>2, <3>1
  <2>2. CASE i > Len(h)
    <3>1. PICK x \in 1..Len(r) : i = Len(h) + x
      <4>1. i - Len(h) \in 1..Len(r) /\ i = Len(h) + (i - Len(h))
        BY <1>1, <2>2
      <4> QED BY <4>1
    <3>2. p + x = a + i
      BY <1>1, <3>1
    <3> QED BY <1>1, <1>2, <3>1, <3>2
  <2> QED BY <1>1, <2>1, <2>2
<1>4. a + Len(h \o r) = e
  BY <1>1, <1>2
<1> QED BY <1>2, <1>3, <1>4 DEF Copies

\* The first n bytes of b are those of w.
Begins(b, w, n) == \A i \in 1..n : b[i] = w[i]

\* Bytes written behind those of the key that are there already.
LEMMA WriteFacts ==
  ASSUME NEW b \in [1..BufferSize -> Byte], NEW pos \in Nat, NEW src, NEW w, Copies(src, w, pos),
         NEW e, e = pos + Len(src), Begins(b, w, pos), e <= BufferSize
  PROVE  /\ Write(b, pos, src) \in [1..BufferSize -> Byte]
         /\ Begins(Write(b, pos, src), w, e) /\ Begins(Write(b, pos, src), b, pos)
<1> DEFINE c == Write(b, pos, src)
<1>1. /\ Len(src) \in Nat /\ DOMAIN src = 1..Len(src) /\ DOMAIN b = 1..BufferSize
      /\ BufferSize \in Nat /\ src \in Seq(Byte)
      /\ \A i \in 1..Len(src) : src[i] = w[pos + i]
      /\ \A i \in 1..pos : b[i] = w[i]
  BY QueryAssumption DEF Copies, Begins
<1>2. c = [i \in 1..BufferSize |-> IF i - pos \in 1..Len(src) THEN src[i - pos] ELSE b[i]]
  BY <1>1 DEF Write
<1>3. \A i \in 1..BufferSize : (IF i - pos \in 1..Len(src) THEN src[i - pos] ELSE b[i]) \in Byte
  BY <1>1
<1>4. c \in [1..BufferSize -> Byte]
  <2> HIDE DEF c
  <2> QED BY <1>2, <1>3
<1>5. \A i \in 1..BufferSize : c[i] = IF i - pos \in 1..Len(src) THEN src[i - pos] ELSE b[i]
  <2> HIDE DEF c
  <2> QED BY <1>2
<1> HIDE DEF c
<1>6. ASSUME NEW i \in 1..pos PROVE c[i] = b[i]
  <2>1. i \in 1..BufferSize /\ i - pos \notin 1..Len(src)
    BY <1>1
  <2> QED BY <1>5, <2>1
<1>7. ASSUME NEW i \in 1..e PROVE c[i] = w[i]
  <2>1. CASE i <= pos
    <3>1. i \in 1..pos
      BY <1>1, <2>1
    <3> QED BY <1>1, <1>6, <3>1
  <2>2. CASE i > pos
    <3>1. i \in 1..BufferSize /\ i - pos \in 1..Len(src) /\ pos + (i - pos) = i
      BY <1>1, <2>2
    <3>2. src[i - pos] = w[pos + (i - pos)]
      BY <1>1, <3>1
    <3>3. c[i] = src[i - pos]
      BY <1>5, <3>1
    <3> QED BY <3>1, <3>2, <3>3
  <2> QED BY <1>1, <2>1, <2>2
<1> QED BY <1>4, <1>6, <1>7 DEF c, Begins

\* What PrepareBuffer writes are the bytes of the label's key.
LEMMA PartFacts ==
  ASSUME Searchable, key \in SearchKey, NEW lab, Labels(lab), NEW t, Waiting(lab, t)
  PROVE  LET k == lab[t.node].key IN
         /\ Copies(PathPart(t), k.path, t.len_pat) /\ Copies(ValuePart(t), k.value, t.len_val)
         /\ t.len_pat + Len(PathPart(t)) = EndP(heap, lab, t.node)
         /\ t.len_val + Len(ValuePart(t)) = EndV(heap, lab, t.node)
<1> DEFINE k == lab[t.node].key
           n == heap[t.node]
           p == lab[t.node].p
           v == lab[t.node].v
           d == t.parent_dimension
           b == t.parent_byte
           hp == IF t.node # root /\ d = "Path" THEN <<b>> ELSE <<>>
           hv == IF t.node # root /\ d = "Value" THEN <<b>> ELSE <<>>
           rp == SubSeq(n.prefix, 1, n.sep)
           rv == From(n.prefix, n.sep)
<1>1. /\ t.node \in DOMAIN heap /\ t.len_pat \in Nat /\ t.len_val \in Nat
      /\ d \in {"Path", "Value"} /\ b \in Byte /\ Entered(lab, t)
  BY DEF Waiting, StateRecord, Dimension
<1>2. /\ n.sep \in Nat /\ n.prefix \in Seq(Byte) /\ Len(n.prefix) \in Nat /\ n.sep <= Len(n.prefix)
  <2>1. n \in NodeRecord
    BY <1>1 DEF Labels, HeapOK
  <2> QED BY <2>1, NodeFacts
<1>3. /\ p \in Nat /\ v \in Nat
      /\ \A i \in 1..n.sep : n.prefix[i] = k.path[p + i]
      /\ \A i \in 1..(Len(n.prefix) - n.sep) : n.prefix[n.sep + i] = k.value[v + i]
      /\ t.node = root => p = 0 /\ v = 0
  <2>1. LabelOK(heap, content, lab, t.node) /\ p \in Nat /\ v \in Nat
    BY <1>1, LabelFacts DEF Labels
  <2>2. t.node = root => p = 0 /\ v = 0
    <3>1. t.node \in Node
      BY <1>1 DEF Labels, HeapOK
    <3>2. t.node # nullptr
      BY <3>1, HeapAssumption
    <3> QED BY <3>2 DEF Labels, Labelled
  <2> QED BY <2>1, <2>2 DEF LabelOK, Spells
<1>4. /\ EndP(heap, lab, t.node) = p + n.sep
      /\ EndV(heap, lab, t.node) = v + (Len(n.prefix) - n.sep)
  BY DEF EndP, EndV
<1>5. /\ rp \in Seq(Byte) /\ Len(rp) = n.sep /\ \A i \in 1..n.sep : rp[i] = n.prefix[i]
  <2> HIDE DEF n
  <2>1. 0 \in 0..Len(n.prefix) /\ n.sep \in 0..Len(n.prefix) /\ 0 + 1 = 1 /\ n.sep - 0 = n.sep
    BY <1>2
  <2>2. /\ SubSeq(n.prefix, 0 + 1, n.sep) \in Seq(Byte)
        /\ Len(SubSeq(n.prefix, 0 + 1, n.sep)) = n.sep - 0
        /\ \A x \in 1..(n.sep - 0) : SubSeq(n.prefix, 0 + 1, n.sep)[x] = n.prefix[0 + x]
    BY <1>2, <2>1, RangeCopy
  <2> QED BY <1>2, <2>1, <2>2
<1>6. /\ rv \in Seq(Byte) /\ Len(rv) = Len(n.prefix) - n.sep
      /\ \A i \in 1..(Len(n.prefix) - n.sep) : rv[i] = n.prefix[n.sep + i]
  <2> HIDE DEF n
  <2>1. n.sep \in 0..Len(n.prefix)
    BY <1>2
  <2> QED BY <1>2, <2>1, FromCopy
<1>7. /\ hp \in Seq(Byte) /\ hv \in Seq(Byte) /\ p = t.len_pat + Len(hp) /\ v = t.len_val + Len(hv)
      /\ \A i \in 1..Len(hp) : hp[i] = k.path[t.len_pat + i]
      /\ \A i \in 1..Len(hv) : hv[i] = k.value[t.len_val + i]
  <2>1. CASE t.node = root
    <3>1. hp = <<>> /\ hv = <<>> /\ p = 0 /\ v = 0 /\ t.len_pat = 0 /\ t.len_val = 0
      BY <1>1, <1>3, <2>1 DEF Entered
    <3> HIDE DEF hp, hv, p, v, k
    <3> QED BY <3>1
  <2>2. CASE t.node # root /\ d = "Path"
    <3>1. /\ hp = <<b>> /\ hv = <<>> /\ p = t.len_pat + 1 /\ v = t.len_val + 0
          /\ k.path[t.len_pat + 1] = b
      BY <1>1, <2>2 DEF Entered, PathStep, ValueStep, ByteAt
    <3> HIDE DEF hp, hv, p, v, k
    <3> QED BY <1>1, <3>1
  <2>3. CASE t.node # root /\ d = "Value"
    <3>1. /\ hp = <<>> /\ hv = <<b>> /\ p = t.len_pat + 0 /\ v = t.len_val + 1
          /\ k.value[t.len_val + 1] = b
      BY <1>1, <2>3 DEF Entered, PathStep, ValueStep, ByteAt
    <3> HIDE DEF hp, hv, p, v, k
    <3> QED BY <1>1, <3>1
  <2> QED BY <1>1, <2>1, <2>2, <2>3
<1>8. PathPart(t) = hp \o rp /\ ValuePart(t) = hv \o rv
  BY DEF PathPart, ValuePart
<1> DEFINE P == EndP(heap, lab, t.node)
           V == EndV(heap, lab, t.node)
<1>9. P = p + Len(rp) /\ V = v + Len(rv)
  BY <1>4, <1>5, <1>6
<1>10. Copies(rp, k.path, p) /\ Copies(rv, k.value, v)
  <2> HIDE DEF n, rp, rv, p, v, k
  <2> QED BY <1>3, <1>5, <1>6 DEF Copies
<1>11. Copies(hp, k.path, t.len_pat) /\ Copies(hv, k.value, t.len_val)
  <2> HIDE DEF hp, hv, p, v, k
  <2> QED BY <1>7 DEF Copies
<1> HIDE DEF hp, hv, rp, rv, p, v, k, P, V
<1>12. Copies(hp \o rp, k.path, t.len_pat) /\ t.len_pat + Len(hp \o rp) = P
  BY <1>1, <1>7, <1>9, <1>10, <1>11, Glue
<1>13. Copies(hv \o rv, k.value, t.len_val) /\ t.len_val + Len(hv \o rv) = V
  BY <1>1, <1>7, <1>9, <1>10, <1>11, Glue
<1> QED BY <1>8, <1>12, <1>13 DEF k, P, V

-----------------------------------------------------------------------------
(* Pop                                                                      *)

\* A waiting State stays one while its bytes stay in the buffers.
LEMMA KeepWaiting ==
  ASSUME UNCHANGED vars, key' = key, NEW lab, NEW t, Waiting(lab, t),
         \A i \in 1..t.len_pat : buf_pat'[i] = buf_pat[i],
         \A i \in 1..t.len_val : buf_val'[i] = buf_val[i]
  PROVE  Waiting(lab, t)'
BY DEF Waiting, Entered, Holds, Compared, Shares, Covers, vars

LEMMA SameCovers ==
  ASSUME UNCHANGED vars, NEW lab, NEW n, NEW k
  PROVE  Covers(lab, n, k)' <=> Covers(lab, n, k)
BY DEF Covers, vars

\* What has been emitted stays rightly and completely emitted, if no key is
\* lost and none comes back.
LEMMA KeepSound ==
  ASSUME UNCHANGED <<vars, key, emitted>>, NEW lab, Sound(lab),
         \A k : Pending(lab, k)' => Pending(lab, k)
  PROVE  Sound(lab)'
BY DEF Sound, Qualifies, vars

LEMMA KeepComplete ==
  ASSUME UNCHANGED <<vars, key, emitted>>, NEW lab, Complete(lab),
         \A k : Pending(lab, k) => Pending(lab, k)'
  PROVE  Complete(lab)'
BY DEF Complete, Qualifies, vars

LEMMA KnowsLonger ==
  ASSUME NEW w, NEW p, NEW len \in Nat, NEW st, NEW more \in Nat, len <= more,
         Len(w) \in Nat, Knows(w, p, len, st, "MATCH")
  PROVE  Knows(w, p, more, st, "MATCH")
<1>1. /\ st = At(st.ppos_, st.qpos_, st.desc_ppos_, st.desc_qpos_)
      /\ Places(w, p, st.ppos_, st.qpos_, st.desc_ppos_, st.desc_qpos_)
      /\ st.ppos_ <= len /\ st.desc_ppos_ <= len
      /\ Matches(w, p) /\ len >= Len(w) /\ st.ppos_ = Len(w) - 1 /\ st.qpos_ = Len(p)
  BY DEF Knows
<1>2. st.ppos_ \in Int /\ st.desc_ppos_ \in Int
  BY <1>1 DEF Places
<1>3. st.ppos_ <= more /\ st.desc_ppos_ <= more /\ more >= Len(w)
  BY <1>1, <1>2
<1> QED BY <1>1, <1>3 DEF Knows

LEMMA TopFacts ==
  ASSUME stack \in Seq(StateRecord), stack # <<>>
  PROVE  /\ Top \in DOMAIN stack /\ stack[Top] \in StateRecord
         /\ Rest \in Seq(StateRecord)
         /\ \A i \in DOMAIN Rest : i \in DOMAIN stack /\ i < Top /\ Rest[i] = stack[i]
         /\ \A i \in DOMAIN stack : i # Top => i \in DOMAIN Rest
<1>1. Len(stack) \in Nat /\ Len(stack) # 0 /\ DOMAIN stack = 1..Len(stack)
  OBVIOUS
<1>2. \A i \in 1..(Len(stack) - 1) : i < Len(stack) /\ i \in 1..Len(stack)
  BY <1>1
<1>3. Rest = [i \in 1..(Len(stack) - 1) |-> stack[i]]
  BY <1>2 DEF Rest, Top
<1>4. Len(stack) - 1 \in Nat /\ \A i \in 1..(Len(stack) - 1) : stack[i] \in StateRecord
  BY <1>1
<1>5. Rest \in Seq(StateRecord) /\ DOMAIN Rest = 1..(Len(stack) - 1)
  BY <1>3, <1>4
<1>6. Len(stack) \in DOMAIN stack /\ stack[Len(stack)] \in StateRecord
  BY <1>1
<1>7. \A i \in DOMAIN stack : i # Len(stack) => i \in 1..(Len(stack) - 1)
  BY <1>1
<1> QED BY <1>1, <1>2, <1>3, <1>5, <1>6, <1>7 DEF Top

\* The State that Pop puts into the buffers.
LEMMA PopCurrent ==
  ASSUME Searchable, NEW lab, Labels(lab), QueryWalk(lab), Pop, UNCHANGED vars
  PROVE  LET t == stack[Top] IN
         /\ Current(lab)' /\ StateOK(s)' /\ (pm_state \in PMState)'
         /\ s'.node = t.node
         /\ t.len_pat <= s'.len_pat /\ t.len_val <= s'.len_val
         /\ buf_pat' \in [1..BufferSize -> Byte] /\ buf_val' \in [1..BufferSize -> Byte]
         /\ \A i \in 1..t.len_pat : buf_pat'[i] = buf_pat[i]
         /\ \A i \in 1..t.len_val : buf_val'[i] = buf_val[i]
<1>1. /\ stack \in Seq(StateRecord) /\ stack # <<>> /\ key \in SearchKey
      /\ buf_pat \in [1..BufferSize -> Byte] /\ buf_val \in [1..BufferSize -> Byte]
  BY DEF QueryWalk, WalkType, Pop
<1>2. PICK t : t = stack[Top]
  OBVIOUS
<1>3. t \in StateRecord /\ Waiting(lab, t)
  BY <1>1, <1>2, TopFacts DEF QueryWalk
<1> DEFINE k == lab[t.node].key
           p == EndP(heap, lab, t.node)
           v == EndV(heap, lab, t.node)
<1>4. /\ t.node \in DOMAIN heap /\ t.len_pat \in Nat /\ t.len_val \in Nat
      /\ Holds(k, t) /\ Compared(k, t)
      /\ \A c : Covers(lab, t.node, c) =>
           \E m \in {"INCOMPLETE", "MATCH"} : Knows(c.path, key.path, t.len_pat, t.pm_state, m)
  BY <1>3 DEF Waiting, StateRecord
<1>5. /\ s' = [t EXCEPT !.len_pat = @ + Len(PathPart(t)), !.len_val = @ + Len(ValuePart(t))]
      /\ buf_pat' = Write(buf_pat, t.len_pat, PathPart(t))
      /\ buf_val' = Write(buf_val, t.len_val, ValuePart(t))
      /\ pm_state' = t.pm_state /\ match_pat' = "calling" /\ key' = key
  BY <1>2 DEF Pop
<1>6. /\ Copies(PathPart(t), k.path, t.len_pat) /\ Copies(ValuePart(t), k.value, t.len_val)
      /\ t.len_pat + Len(PathPart(t)) = p /\ t.len_val + Len(ValuePart(t)) = v
  BY <1>1, <1>3, PartFacts
<1>7. /\ k \in Key /\ p \in Nat /\ v \in Nat /\ p <= Len(k.path) /\ v <= Len(k.value)
      /\ lab[t.node].p <= p /\ lab[t.node].v <= v /\ lab[t.node].p \in Nat /\ lab[t.node].v \in Nat
  BY <1>4, LabelFacts DEF Labels
<1>8. /\ Len(k.path) \in 0..BufferSize /\ Len(k.value) \in 0..BufferSize /\ BufferSize \in Nat
  BY <1>7, KeyRoom
<1>9. p <= BufferSize /\ v <= BufferSize
  BY <1>7, <1>8
<1>10. t.len_pat <= p /\ t.len_val <= v
  <2>1. t.len_pat <= lab[t.node].p /\ t.len_val <= lab[t.node].v
    BY <1>1, <1>3, WaitingOK
  <2> QED BY <1>4, <1>7, <2>1
<1>11. /\ s'.node = t.node /\ s'.len_pat = p /\ s'.len_val = v
       /\ s'.vl_pos = t.vl_pos /\ s'.vh_pos = t.vh_pos /\ s'.pm_state = t.pm_state
       /\ s'.parent_dimension = t.parent_dimension /\ s'.parent_byte = t.parent_byte
       /\ s' \in StateRecord
  <2> HIDE DEF p, v
  <2>1. s' = [t EXCEPT !.len_pat = p, !.len_val = v]
    BY <1>3, <1>5, <1>6 DEF StateRecord
  <2> QED BY <1>3, <1>7, <2>1 DEF StateRecord
<1>12. /\ buf_pat' \in [1..BufferSize -> Byte]
       /\ \A i \in 1..p : buf_pat'[i] = k.path[i]
       /\ \A i \in 1..t.len_pat : buf_pat'[i] = buf_pat[i]
  <2> DEFINE w == k.path
             src == PathPart(t)
             pos == t.len_pat
  <2>1. /\ buf_pat \in [1..BufferSize -> Byte] /\ pos \in Nat /\ Copies(src, w, pos)
        /\ p = pos + Len(src) /\ p <= BufferSize /\ Begins(buf_pat, w, pos)
    BY <1>1, <1>4, <1>6, <1>9 DEF Holds, Begins
  <2>2. buf_pat' = Write(buf_pat, pos, src)
    BY <1>5
  <2> HIDE DEF w, src, pos, p
  <2>3. /\ Write(buf_pat, pos, src) \in [1..BufferSize -> Byte]
        /\ Begins(Write(buf_pat, pos, src), w, p)
        /\ Begins(Write(buf_pat, pos, src), buf_pat, pos)
    BY <2>1, WriteFacts
  <2> QED BY <2>2, <2>3 DEF w, pos, Begins
<1>13. /\ buf_val' \in [1..BufferSize -> Byte]
       /\ \A i \in 1..v : buf_val'[i] = k.value[i]
       /\ \A i \in 1..t.len_val : buf_val'[i] = buf_val[i]
  <2> DEFINE w == k.value
             src == ValuePart(t)
             pos == t.len_val
  <2>1. /\ buf_val \in [1..BufferSize -> Byte] /\ pos \in Nat /\ Copies(src, w, pos)
        /\ v = pos + Len(src) /\ v <= BufferSize /\ Begins(buf_val, w, pos)
    BY <1>1, <1>4, <1>6, <1>9 DEF Holds, Begins
  <2>2. buf_val' = Write(buf_val, pos, src)
    BY <1>5
  <2> HIDE DEF w, src, pos, v
  <2>3. /\ Write(buf_val, pos, src) \in [1..BufferSize -> Byte]
        /\ Begins(Write(buf_val, pos, src), w, v)
        /\ Begins(Write(buf_val, pos, src), buf_val, pos)
    BY <2>1, WriteFacts
  <2> QED BY <2>2, <2>3 DEF w, pos, Begins
<1>14. ASSUME NEW c, Covers(lab, t.node, c)
       PROVE  \/ Knows(c.path, key.path, p, t.pm_state, "calling")
              \/ Knows(c.path, key.path, p, t.pm_state, "MATCH")
  <2>1. c \in Key /\ p <= Len(c.path)
    BY <1>4, <1>14, CoversEnd DEF Covers
  <2>2. Len(c.path) \in Nat
    BY <2>1, KeyFacts
  <2>3. t.len_pat \in 0..Len(c.path) /\ p \in t.len_pat..Len(c.path)
    BY <1>4, <1>7, <1>10, <2>1, <2>2
  <2>4. PICK m \in {"INCOMPLETE", "MATCH"} : Knows(c.path, key.path, t.len_pat, t.pm_state, m)
    BY <1>4, <1>14
  <2> HIDE DEF p
  <2>5. CASE m = "INCOMPLETE"
    BY <2>2, <2>3, <2>4, <2>5, ShownMore
  <2>6. CASE m = "MATCH"
    BY <1>4, <1>7, <1>10, <2>2, <2>4, <2>6, KnowsLonger
  <2> QED BY <2>4, <2>5, <2>6
<1>15. Current(lab)'
  <2>1. (s \in StateRecord /\ s.node \in DOMAIN heap)'
    BY <1>4, <1>11 DEF vars
  <2>2. (s.len_pat = EndP(heap, lab, s.node) /\ s.len_val = EndV(heap, lab, s.node))'
    BY <1>11 DEF vars
  <2>3. Holds(lab[s.node].key, s)'
    BY <1>11, <1>12, <1>13 DEF Holds
  <2>4. Compared(lab[s.node].key, s)'
    <3>1. Compared(k, t)' /\ t.vl_pos \in Nat /\ t.vh_pos \in Nat
      BY <1>3, <1>4, <1>5 DEF Compared, Shares, StateRecord
    <3>2. \A e \in Nat : e <= t.len_val => e <= v
      BY <1>4, <1>7, <1>10
    <3> HIDE DEF k, v
    <3> QED BY <1>4, <1>5, <1>7, <1>11, <3>1, <3>2 DEF Compared, Shares, k
  <2>5. (\A c : Covers(lab, s.node, c) =>
           \/ Knows(c.path, key.path, s.len_pat, pm_state, match_pat)
           \/ match_pat = "calling" /\ Knows(c.path, key.path, s.len_pat, pm_state, "MATCH"))'
    <3>1. \A c : Covers(lab, t.node, c)' <=> Covers(lab, t.node, c)
      BY SameCovers
    <3> HIDE DEF p
    <3> QED BY <1>5, <1>11, <1>14, <3>1
  <2> QED BY <2>1, <2>2, <2>3, <2>4, <2>5 DEF Current
<1>16. StateOK(s)' /\ (pm_state \in PMState)'
  <2>1. StateOK(t)
    BY <1>1, <1>3, WaitingOK
  <2>2. p \in Position /\ v \in Position
    BY <1>7, <1>8, <1>9 DEF Position
  <2>3. t.vl_pos \in 0..v /\ t.vh_pos \in 0..v
    BY <1>4, <1>7, <1>10, <2>1 DEF StateOK
  <2>4. PMState' = PMState
    BY <1>5 DEF PMState
  <2> HIDE DEF p, v
  <2> QED BY <1>5, <1>11, <2>1, <2>2, <2>3, <2>4 DEF StateOK, vars
<1> QED BY <1>2, <1>10, <1>11, <1>12, <1>13, <1>15, <1>16

LEMMA PopStep ==
  ASSUME Searchable, NEW lab, Labels(lab), QueryWalk(lab), Pop, UNCHANGED vars
  PROVE  QueryWalk(lab)' /\ \A k : Pending(lab, k)' <=> Pending(lab, k)
<1>1. /\ stack \in Seq(StateRecord) /\ stack # <<>> /\ root \in DOMAIN heap /\ key \in SearchKey
      /\ emitted \in [Key -> Seq(Ref)]
  BY DEF QueryWalk, WalkType, Pop
<1>2. PICK t : t = stack[Top]
  OBVIOUS
<1>3. /\ Current(lab)' /\ StateOK(s)' /\ (pm_state \in PMState)'
      /\ s'.node = t.node /\ t.len_pat <= s'.len_pat /\ t.len_val <= s'.len_val
      /\ buf_pat' \in [1..BufferSize -> Byte] /\ buf_val' \in [1..BufferSize -> Byte]
      /\ \A i \in 1..t.len_pat : buf_pat'[i] = buf_pat[i]
      /\ \A i \in 1..t.len_val : buf_val'[i] = buf_val[i]
  BY <1>2, PopCurrent
<1>4. /\ Top \in DOMAIN stack /\ t \in StateRecord /\ Rest \in Seq(StateRecord)
      /\ \A i \in DOMAIN Rest : i \in DOMAIN stack /\ i < Top /\ Rest[i] = stack[i]
      /\ \A i \in DOMAIN stack : i # Top => i \in DOMAIN Rest
  BY <1>1, <1>2, TopFacts
<1>5. /\ stack' = Rest /\ qpc' = "match" /\ qpc = "pop" /\ key' = key /\ emitted' = emitted
  BY DEF Pop
<1>6. WalkType'
  BY <1>1, <1>3, <1>4, <1>5 DEF WalkType, vars
<1>7. ASSUME NEW u, NEW i \in DOMAIN Rest, u = Rest[i]
      PROVE  Waiting(lab, u)' /\ Before(lab, u, t) /\ u \in StateRecord
  <2>1. u = stack[i] /\ i \in DOMAIN stack /\ i < Top /\ u \in StateRecord
    BY <1>4, <1>7
  <2>2. Waiting(lab, u) /\ Before(lab, u, t)
    BY <1>2, <1>4, <2>1 DEF QueryWalk
  <2>3. u.len_pat \in Nat /\ t.len_pat \in Nat /\ u.len_val \in Nat /\ t.len_val \in Nat
    BY <1>4, <2>1 DEF StateRecord
  <2>4. u.len_pat <= t.len_pat /\ u.len_val <= t.len_val
    BY <2>2 DEF Before
  <2>5. /\ \A j \in 1..u.len_pat : buf_pat'[j] = buf_pat[j]
        /\ \A j \in 1..u.len_val : buf_val'[j] = buf_val[j]
    BY <1>3, <2>3, <2>4
  <2>6. Waiting(lab, u)'
    BY <1>5, <2>2, <2>5, KeepWaiting
  <2> QED BY <2>1, <2>2, <2>6
<1>8. (\A i \in DOMAIN stack : Waiting(lab, stack[i]))'
  <2> SUFFICES ASSUME NEW i \in DOMAIN Rest PROVE Waiting(lab, stack[i])'
    BY <1>5
  <2>1. PICK u : u = Rest[i]
    OBVIOUS
  <2> QED BY <1>5, <1>7, <2>1
<1>9. (\A i, j \in DOMAIN stack : i < j => Before(lab, stack[i], stack[j]))'
  <2>1. \A i, j \in DOMAIN Rest : i < j => Before(lab, Rest[i], Rest[j])
    BY <1>4 DEF QueryWalk
  <2> QED BY <1>5, <2>1
<1>10. (\A i \in DOMAIN stack : Before(lab, stack[i], s))'
  <2> SUFFICES ASSUME NEW i \in DOMAIN Rest PROVE Before(lab, Rest[i], s')
    BY <1>5
  <2>1. PICK u : u = Rest[i]
    OBVIOUS
  <2>2. Before(lab, u, t) /\ u \in StateRecord
    BY <1>7, <2>1
  <2>3. s' \in StateRecord
    BY <1>3 DEF Current
  <2>4. /\ u.len_pat \in Nat /\ t.len_pat \in Nat /\ u.len_val \in Nat /\ t.len_val \in Nat
        /\ s'.len_pat \in Nat /\ s'.len_val \in Nat
    BY <1>4, <2>2, <2>3 DEF StateRecord
  <2> QED BY <1>3, <2>1, <2>2, <2>4 DEF Before
<1>11. ASSUME NEW k PROVE Pending(lab, k)' <=> Pending(lab, k)
  <2>1. \A n : Covers(lab, n, k)' <=> Covers(lab, n, k)
    BY SameCovers
  <2>2. Pending(lab, k)' <=> \/ \E i \in DOMAIN Rest : Covers(lab, Rest[i].node, k)
                             \/ Covers(lab, t.node, k)
    BY <1>3, <1>5, <2>1 DEF Pending
  <2>3. Pending(lab, k) <=> \E i \in DOMAIN stack : Covers(lab, stack[i].node, k)
    BY <1>5 DEF Pending
  <2> QED BY <1>2, <1>4, <2>2, <2>3
<1>12. Sound(lab)'
  <2>1. Sound(lab)
    BY DEF QueryWalk
  <2> QED BY <1>5, <1>11, <2>1, KeepSound
<1> QED BY <1>3, <1>6, <1>8, <1>9, <1>10, <1>11, <1>12 DEF QueryWalk

-----------------------------------------------------------------------------
(* A step of the PathMatcher                                                *)

\* The matcher that works on the buffer takes the steps of the relation Takes.
LEMMA MatcherTakes ==
  ASSUME key \in SearchKey, pm_state \in PMState, matcher!Steps
  PROVE  /\ match_pat = "calling"
         /\ Takes(buf_pat, key.path, s.len_pat, pm_state, pm_state', match_pat')
<1> DEFINE w == buf_pat
           p == key.path
           i == pm_state.ppos_
           q == pm_state.qpos_
           x == pm_state.desc_ppos_
           d == pm_state.desc_qpos_
<1>1. match_pat = "calling"
  BY DEF matcher!Steps, matcher!MatchSymbol, matcher!MatchWildcard, matcher!EnterDescendant,
         matcher!WidenDescendant, matcher!Fail, matcher!NeedMore, matcher!Finish,
         matcher!NoSymbol, matcher!Looping
<1>2. /\ i \in Int /\ q \in Int /\ x \in Int /\ d \in Int /\ Len(p) \in Nat
      /\ pm_state = [ppos_ |-> i, qpos_ |-> q, desc_ppos_ |-> x, desc_qpos_ |-> d]
  <2>1. key.path \in Seq(Letter \cup {kPathSep, Wildcard, Descendant})
    BY QueryAssumption DEF SearchKey
  <2>2. BufferSize \in Nat /\ Len(key.path) \in Nat
    BY <2>1, QueryAssumption
  <2> QED BY <2>2 DEF PMState, Position, matcher!NoDescendant
<1>3. matcher!Looping => i < s.len_pat /\ x < s.len_pat /\ w[i + 1] # kNullByte
  BY DEF matcher!Looping, matcher!CanRead, matcher!PathAt
<1>4. matcher!NoSymbol => Rejects(w, p, i, q)
  BY DEF matcher!NoSymbol, Rejects, matcher!Expects, matcher!AtDescendant, matcher!PathAt
<1> HIDE DEF w, p, i, q, x, d
<1>5. ASSUME matcher!Looping, Accepts(w, p, i, q, x, d, pm_state'), match_pat' = match_pat
      PROVE  Takes(buf_pat, key.path, s.len_pat, pm_state, pm_state', match_pat')
  BY <1>1, <1>3, <1>5 DEF Takes, w, p, i, q, x, d
<1>6. CASE matcher!MatchSymbol
  <2>1. matcher!Looping /\ q < Len(p) /\ p[q + 1] = w[i + 1] /\ match_pat' = match_pat
        /\ pm_state' = [pm_state EXCEPT !.ppos_ = @ + 1, !.qpos_ = @ + 1]
    BY <1>6 DEF matcher!MatchSymbol, matcher!Expects, matcher!PathAt, w, p, i, q
  <2>2. pm_state' = At(i + 1, q + 1, x, d)
    BY <1>2, <2>1 DEF At
  <2>3. Accepts(w, p, i, q, x, d, pm_state')
    BY <2>1, <2>2 DEF Accepts
  <2> QED BY <1>1, <1>5, <2>1, <2>3
<1>7. CASE matcher!MatchWildcard
  <2>1. matcher!Looping /\ q < Len(p) /\ p[q + 1] = Wildcard /\ match_pat' = match_pat
        /\ pm_state' = IF w[i + 1] = kPathSep THEN [pm_state EXCEPT !.qpos_ = @ + 1]
                                              ELSE [pm_state EXCEPT !.ppos_ = @ + 1]
    BY <1>7 DEF matcher!MatchWildcard, matcher!Expects, matcher!PathAt, w, p, i, q
  <2>2. CASE w[i + 1] = kPathSep
    <3>1. pm_state' = At(i, q + 1, x, d)
      BY <1>2, <2>1, <2>2 DEF At
    <3>2. Accepts(w, p, i, q, x, d, pm_state')
      BY <2>1, <2>2, <3>1 DEF Accepts
    <3> QED BY <1>1, <1>5, <2>1, <3>2
  <2>3. CASE w[i + 1] # kPathSep
    <3>1. pm_state' = At(i + 1, q, x, d)
      BY <1>2, <2>1, <2>3 DEF At
    <3>2. Accepts(w, p, i, q, x, d, pm_state')
      BY <2>1, <2>3, <3>1 DEF Accepts
    <3> QED BY <1>1, <1>5, <2>1, <3>2
  <2> QED BY <2>2, <2>3
<1>8. CASE matcher!EnterDescendant
  <2>1. /\ matcher!Looping /\ q < Len(p) /\ p[q + 1] = Descendant /\ w[i + 1] = kPathSep
        /\ match_pat' = match_pat
        /\ pm_state' = [ppos_ |-> i + 1, qpos_ |-> q + 1, desc_ppos_ |-> i + 1, desc_qpos_ |-> q]
    BY <1>8 DEF matcher!EnterDescendant, matcher!AtDescendant, matcher!Expects, matcher!PathAt,
                w, p, i, q
  <2>2. pm_state' = At(i + 1, q + 1, i + 1, q)
    BY <2>1 DEF At
  <2>3. Accepts(w, p, i, q, x, d, pm_state')
    BY <2>1, <2>2 DEF Accepts
  <2> QED BY <1>1, <1>5, <2>1, <2>3
<1>9. CASE matcher!WidenDescendant
  <2>1. /\ matcher!Looping /\ Rejects(w, p, i, q) /\ d # -1 /\ match_pat' = match_pat
        /\ pm_state' = matcher!Widen
    BY <1>4, <1>9 DEF matcher!WidenDescendant, matcher!NoSymbol, matcher!NoDescendant, d
  <2>2. Widens(w, p, i, q, x, d, pm_state')
    <3>1. CASE w[x + 1] = kPathSep
      <4>1. pm_state' = [pm_state EXCEPT !.ppos_ = x + 1, !.qpos_ = d + 1, !.desc_ppos_ = @ + 1]
        BY <2>1, <3>1, SpecialAssumption DEF matcher!Widen, matcher!PathAt, w, x, d
      <4>2. pm_state' = At(x + 1, d + 1, x + 1, d)
        BY <1>2, <4>1 DEF At
      <4> QED BY <3>1, <4>2 DEF Widens
    <3>2. CASE w[x + 1] = kNullByte
      <4>1. pm_state' = [pm_state EXCEPT !.ppos_ = x, !.qpos_ = d + 1]
        BY <2>1, <3>2, SpecialAssumption DEF matcher!Widen, matcher!PathAt, w, x, d
      <4>2. pm_state' = At(x, d + 1, x, d)
        BY <1>2, <4>1 DEF At
      <4> QED BY <3>2, <4>2 DEF Widens
    <3>3. CASE w[x + 1] # kPathSep /\ w[x + 1] # kNullByte
      <4>1. pm_state' = [pm_state EXCEPT !.desc_ppos_ = @ + 1]
        BY <2>1, <3>3 DEF matcher!Widen, matcher!PathAt, w, x, d
      <4>2. pm_state' = At(i, q, x + 1, d)
        BY <1>2, <4>1 DEF At
      <4> QED BY <3>3, <4>2 DEF Widens
    <3> QED BY <3>1, <3>2, <3>3
  <2> QED BY <1>1, <1>3, <2>1, <2>2 DEF Takes, w, p, i, q, x, d
<1>10. CASE matcher!Fail
  <2>1. /\ matcher!Looping /\ Rejects(w, p, i, q) /\ d = -1
        /\ match_pat' = "MISMATCH" /\ pm_state' = pm_state
    BY <1>4, <1>10 DEF matcher!Fail, matcher!NoSymbol, matcher!NoDescendant, d
  <2> QED BY <1>1, <1>3, <2>1 DEF Takes, w, p, i, q, x, d
<1>11. CASE matcher!NeedMore
  <2>1. ~ (i < s.len_pat /\ x < s.len_pat) /\ pm_state' = pm_state /\ match_pat' = "INCOMPLETE"
    BY <1>11 DEF matcher!NeedMore, matcher!CanRead, i, x
  <2> QED BY <1>1, <2>1 DEF Takes, i, x
<1>12. CASE matcher!Finish
  <2> DEFINE b == matcher!BehindWildcard
             z == matcher!EndTrailing(b)
  <2>1. /\ i < s.len_pat /\ x < s.len_pat /\ w[i + 1] = kNullByte
        /\ pm_state' = [pm_state EXCEPT !.qpos_ = z]
        /\ match_pat' = IF pm_state'.qpos_ = Len(p) THEN "MATCH" ELSE "MISMATCH"
    BY <1>12 DEF matcher!Finish, matcher!CanRead, matcher!PathAt, w, p, i, x
  <2>2. pm_state'.qpos_ = z
    BY <1>2, <2>1
  <2>3. b = IF q < Len(p) /\ p[q + 1] = Wildcard /\ w[i] # kPathSep THEN q + 1 ELSE q
    <3>1. (i - 1) + 1 = i
      BY <1>2
    <3> QED BY <3>1 DEF matcher!BehindWildcard, matcher!Expects, matcher!PathAt, w, p, i, q
  <2> HIDE DEF b
  <2>4. z = RestFrom(w, p, i, q)
    BY <2>3 DEF matcher!EndTrailing, matcher!Least, RestFrom, TrailingEnd, Least, p
  <2> HIDE DEF z
  <2>5. pm_state' = At(i, z, x, d)
    BY <1>2, <2>1 DEF At
  <2> QED BY <1>1, <2>1, <2>2, <2>4, <2>5 DEF Takes, w, p, i, q, x, d
<1> QED
  BY <1>1, <1>6, <1>7, <1>8, <1>9, <1>10, <1>11, <1>12 DEF matcher!Steps

\* The bytes in the buffer are those of every key below the node.
LEMMA CurrentHolds ==
  ASSUME NEW lab, Labels(lab), Current(lab), NEW c, Covers(lab, s.node, c)
  PROVE  /\ c \in Key /\ Holds(c, s)
         /\ s.len_pat \in 0..Len(c.path) /\ s.len_val \in 0..Len(c.value)
<1> DEFINE k == lab[s.node].key
           p == EndP(heap, lab, s.node)
           v == EndV(heap, lab, s.node)
<1>1. s.node \in DOMAIN heap /\ s.len_pat = p /\ s.len_val = v /\ Holds(k, s)
  BY DEF Current
<1>2. /\ Agree(c, k, p, v) /\ p \in Nat /\ v \in Nat /\ p <= Len(c.path) /\ v <= Len(c.value)
  BY <1>1, CoversEnd
<1>3. c \in Key /\ Len(c.path) \in Nat /\ Len(c.value) \in Nat
  BY KeyFacts DEF Covers
<1> HIDE DEF k, p, v
<1> QED BY <1>1, <1>2, <1>3 DEF Holds, Agree

LEMMA MatchPathStep ==
  ASSUME Searchable, NEW lab, Labels(lab), QueryWalk(lab), MatchPathPrefix, UNCHANGED vars
  PROVE  QueryWalk(lab)' /\ \A k : Pending(lab, k)' <=> Pending(lab, k)
<1>1. /\ qpc = "match" /\ matcher!Steps
      /\ UNCHANGED <<qpc, key, stack, s, buf_pat, buf_val, emitted>>
  BY DEF MatchPathPrefix
<1>2. Current(lab) /\ WalkType
  BY <1>1 DEF QueryWalk
<1>3. key \in SearchKey /\ pm_state \in PMState
  BY <1>2 DEF WalkType
<1>4. /\ match_pat = "calling"
      /\ Takes(buf_pat, key.path, s.len_pat, pm_state, pm_state', match_pat')
  BY <1>1, <1>3, MatcherTakes
<1>5. s.node \in DOMAIN heap
  BY <1>2 DEF Current
<1>6. ASSUME NEW c, Covers(lab, s.node, c)
      PROVE  c \in Key /\ Knows(c.path, key.path, s.len_pat, pm_state', match_pat')
  <2>1. /\ c \in Key /\ s.len_pat \in 0..Len(c.path)
        /\ \A i \in 1..s.len_pat : buf_pat[i] = c.path[i]
    BY <1>2, <1>6, CurrentHolds DEF Holds
  <2>2. \/ Knows(c.path, key.path, s.len_pat, pm_state, "calling")
        \/ Knows(c.path, key.path, s.len_pat, pm_state, "MATCH")
    BY <1>2, <1>4, <1>6 DEF Current
  <2>3. /\ PatternOK(key.path) /\ WordOK(c.path)
        /\ Places(c.path, key.path, pm_state.ppos_, pm_state.qpos_, pm_state.desc_ppos_,
                  pm_state.desc_qpos_)
    BY <1>3, <2>1, <2>2, KnowsRange
  <2>4. Takes(c.path, key.path, s.len_pat, pm_state, pm_state', match_pat')
    <3> DEFINE w == c.path
               u == buf_pat
               len == s.len_pat
    <3>1. /\ WordOK(w) /\ len \in 0..Len(w) /\ \A i \in 1..len : u[i] = w[i]
          /\ Places(w, key.path, pm_state.ppos_, pm_state.qpos_, pm_state.desc_ppos_,
                    pm_state.desc_qpos_)
          /\ Takes(u, key.path, len, pm_state, pm_state', match_pat')
      BY <1>4, <2>1, <2>3
    <3> HIDE DEF w, u, len
    <3>2. Takes(w, key.path, len, pm_state, pm_state', match_pat')
      BY <3>1, TakesShown
    <3> QED BY <3>2 DEF w, len
  <2>5. CASE Knows(c.path, key.path, s.len_pat, pm_state, "calling")
    BY <2>1, <2>3, <2>4, <2>5, TakesKnows
  <2>6. CASE Knows(c.path, key.path, s.len_pat, pm_state, "MATCH")
    <3>1. match_pat' = "MATCH" /\ pm_state' = pm_state
      BY <2>1, <2>3, <2>4, <2>6, TakesDone
    <3> QED BY <2>1, <2>6, <3>1
  <2> QED BY <2>2, <2>5, <2>6
<1>7. pm_state' \in PMState
  <2>1. Covers(lab, s.node, lab[s.node].key)
    BY <1>5, CoversLabel
  <2> QED BY <1>3, <1>6, <2>1, KnowsRange
<1>8. WalkType'
  <2>1. PMState' = PMState
    BY <1>1 DEF PMState
  <2>2. (s = NoState \/ StateOK(s))'
    BY <1>1, <1>2 DEF WalkType, StateOK, PMState, vars
  <2> QED BY <1>1, <1>2, <1>7, <2>1, <2>2 DEF WalkType, vars
<1>9. (\A i \in DOMAIN stack : Waiting(lab, stack[i]))'
  <2> SUFFICES ASSUME NEW i \in DOMAIN stack PROVE Waiting(lab, stack[i])'
    BY <1>1
  <2>1. PICK u : u = stack[i]
    OBVIOUS
  <2>2. Waiting(lab, u)
    BY <2>1 DEF QueryWalk
  <2>3. Waiting(lab, u)'
    BY <1>1, <2>2, KeepWaiting
  <2> QED BY <1>1, <2>1, <2>3
<1>10. Current(lab)'
  <2>1. (s \in StateRecord /\ s.node \in DOMAIN heap)'
    BY <1>1, <1>2 DEF Current, vars
  <2>2. (s.len_pat = EndP(heap, lab, s.node) /\ s.len_val = EndV(heap, lab, s.node))'
    BY <1>1, <1>2 DEF Current, vars
  <2>3. Holds(lab[s.node].key, s)' /\ Compared(lab[s.node].key, s)'
    BY <1>1, <1>2 DEF Current, Holds, Compared
  <2>4. \A c : Covers(lab, s.node, c)' <=> Covers(lab, s.node, c)
    BY <1>1, SameCovers
  <2> QED BY <1>1, <1>6, <2>1, <2>2, <2>3, <2>4 DEF Current
<1>11. (\A i, j \in DOMAIN stack : i < j => Before(lab, stack[i], stack[j]))'
  BY <1>1 DEF QueryWalk
<1>12. (\A i \in DOMAIN stack : Before(lab, stack[i], s))'
  BY <1>1 DEF QueryWalk
<1>13. \A k : Pending(lab, k)' <=> Pending(lab, k)
  BY <1>1, SameCovers DEF Pending
<1>14. Sound(lab)'
  <2>1. Sound(lab)
    BY DEF QueryWalk
  <2> QED BY <1>1, <1>13, <2>1, KeepSound
<1> QED BY <1>8, <1>9, <1>10, <1>11, <1>12, <1>13, <1>14 DEF QueryWalk

-----------------------------------------------------------------------------
(* MatchValuePrefix                                                         *)

\* The first position at which the value leaves a bound, or the end of one.
Leaves(bound, pos, k) ==
  /\ Shares(k, bound, pos, s.len_val)
  /\ pos < Len(bound) /\ pos < s.len_val => bound[pos + 1] # k.value[pos + 1]

LEMMA AdvanceFacts ==
  ASSUME NEW bound \in Bounds, NEW k \in Key, NEW pos, Shares(k, bound, pos, s.len_val),
         buf_val \in [1..BufferSize -> Byte], s.len_val \in 0..BufferSize,
         \A i \in 1..s.len_val : buf_val[i] = k.value[i]
  PROVE  Leaves(bound, Advance(bound, pos), k)
<1> DEFINE len == s.len_val
           m == MatchLength(bound, pos, buf_val, pos, len)
           a == Advance(bound, pos)
<1>1. BufferSize \in Nat /\ len \in Nat /\ len <= BufferSize
  BY QueryAssumption
<1>2. /\ bound \in Seq(Byte) /\ Len(bound) \in Nat /\ pos \in 0..len /\ pos <= Len(bound)
      /\ \A i \in 1..pos : bound[i] = k.value[i]
  BY BoundFacts DEF Shares
<1>3. buf_val \in Seq(Byte) /\ Len(buf_val) = BufferSize
  BY <1>1
<1>4. pos \in 0..Len(bound) /\ len \in 0..Len(buf_val)
  BY <1>1, <1>2, <1>3
<1>5. /\ m \in 0..(len - pos) /\ pos + m <= Len(bound)
      /\ \A x \in 1..m : bound[pos + x] = buf_val[pos + x]
      /\ m < len - pos => pos + m = Len(bound) \/ bound[pos + m + 1] # buf_val[pos + m + 1]
  <2>1. Stops(bound, pos, buf_val, pos, len, m)
    <3> HIDE DEF len
    <3> QED BY <1>2, <1>3, <1>4, MatchStops
  <2> QED BY <2>1 DEF Stops
<1>6. a = pos + m
  BY DEF Advance
<1> HIDE DEF m, a
<1>7. a \in Nat /\ a \in 0..len /\ a <= Len(bound)
  BY <1>1, <1>2, <1>5, <1>6
<1>8. ASSUME NEW i \in 1..a PROVE bound[i] = k.value[i]
  <2>1. CASE i <= pos
    <3>1. i \in 1..pos
      BY <1>2, <1>7, <2>1
    <3> QED BY <1>2, <3>1
  <2>2. CASE i > pos
    <3>1. i - pos \in 1..m /\ pos + (i - pos) = i /\ i \in 1..len
      BY <1>1, <1>2, <1>5, <1>6, <1>7, <2>2
    <3>2. bound[pos + (i - pos)] = buf_val[pos + (i - pos)]
      BY <1>5, <3>1
    <3> QED BY <3>1, <3>2
  <2> QED BY <1>2, <1>7, <2>1, <2>2
<1>9. Shares(k, bound, a, len)
  BY <1>7, <1>8 DEF Shares
<1>10. ASSUME a < Len(bound), a < len PROVE bound[a + 1] # k.value[a + 1]
  <2>1. m < len - pos /\ pos + m # Len(bound) /\ pos + m + 1 = a + 1 /\ a + 1 \in 1..len
    BY <1>1, <1>2, <1>5, <1>6, <1>7, <1>10
  <2>2. bound[pos + m + 1] # buf_val[pos + m + 1]
    BY <1>5, <2>1
  <2> QED BY <2>1, <2>2
<1> QED BY <1>9, <1>10 DEF Leaves, a

LEMMA BoundsCompared ==
  ASSUME NEW lab, Labels(lab), Current(lab), WalkType
  PROVE  LET k == lab[s.node].key IN
         /\ Leaves(key.low, vl_pos, k) /\ Leaves(key.high, vh_pos, k)
         /\ key.low \in Bounds /\ key.high \in Bounds
         /\ vl_pos \in Nat /\ vh_pos \in Nat
<1> DEFINE k == lab[s.node].key
<1>1. /\ s.node \in DOMAIN heap /\ Holds(k, s)
      /\ Shares(k, key.low, s.vl_pos, s.len_val) /\ Shares(k, key.high, s.vh_pos, s.len_val)
  BY DEF Current, Compared
<1>2. Covers(lab, s.node, k)
  BY <1>1, CoversLabel
<1>3. k \in Key /\ s.len_val \in 0..Len(k.value)
  BY <1>2, CurrentHolds
<1>4. s.len_val \in 0..BufferSize
  <2>1. Len(k.value) \in 0..BufferSize /\ BufferSize \in Nat
    BY <1>3, KeyRoom
  <2> QED BY <1>3, <2>1
<1>5. /\ key.low \in Bounds /\ key.high \in Bounds /\ buf_val \in [1..BufferSize -> Byte]
  BY DEF WalkType, SearchKey
<1>6. \A i \in 1..s.len_val : buf_val[i] = k.value[i]
  BY <1>1 DEF Holds
<1> HIDE DEF k
<1>7. Leaves(key.low, vl_pos, k)
  BY <1>1, <1>3, <1>4, <1>5, <1>6, AdvanceFacts DEF vl_pos
<1>8. Leaves(key.high, vh_pos, k)
  BY <1>1, <1>3, <1>4, <1>5, <1>6, AdvanceFacts DEF vh_pos
<1>9. vl_pos \in Nat /\ vh_pos \in Nat
  BY <1>4, <1>7, <1>8 DEF Leaves, Shares
<1> QED BY <1>5, <1>7, <1>8, <1>9 DEF k

\* The same for every key below the node.
LEMMA CoveredCompared ==
  ASSUME NEW lab, Labels(lab), Current(lab), WalkType, NEW c, Covers(lab, s.node, c)
  PROVE  /\ c \in Key /\ c.value \in Seq(Byte) /\ Len(c.value) \in Nat
         /\ \A i \in 1..s.len_val : c.value[i] = lab[s.node].key.value[i] /\ c.value[i] = buf_val[i]
         /\ s.len_val \in Nat /\ s.len_val <= Len(c.value)
         /\ Leaves(key.low, vl_pos, c) /\ Leaves(key.high, vh_pos, c)
<1> DEFINE k == lab[s.node].key
<1>1. s.node \in DOMAIN heap
  BY DEF Current
<1>2. Covers(lab, s.node, k)
  BY <1>1, CoversLabel
<1>3. /\ c \in Key /\ Holds(c, s) /\ Holds(k, s) /\ s.len_val \in 0..Len(c.value)
  BY <1>2, CurrentHolds
<1>4. c.value \in Seq(Byte) /\ Len(c.value) \in Nat
  BY <1>3, KeyFacts
<1>5. \A i \in 1..s.len_val : c.value[i] = k.value[i] /\ c.value[i] = buf_val[i]
  BY <1>3 DEF Holds
<1>6. Leaves(key.low, vl_pos, k) /\ Leaves(key.high, vh_pos, k)
      /\ vl_pos \in Nat /\ vh_pos \in Nat
  BY BoundsCompared
<1> HIDE DEF k
<1>7. ASSUME NEW b, NEW pos \in Nat, Leaves(b, pos, k) PROVE Leaves(b, pos, c)
  <2>1. /\ pos \in 0..s.len_val /\ pos <= Len(b) /\ \A i \in 1..pos : b[i] = k.value[i]
        /\ pos < Len(b) /\ pos < s.len_val => b[pos + 1] # k.value[pos + 1]
    BY <1>7 DEF Leaves, Shares
  <2>2. \A i \in 1..pos : i \in 1..s.len_val
    BY <1>3, <2>1
  <2>3. pos < s.len_val => pos + 1 \in 1..s.len_val
    BY <1>3, <1>7
  <2> QED BY <1>5, <2>1, <2>2, <2>3 DEF Leaves, Shares
<1> QED BY <1>3, <1>4, <1>5, <1>6, <1>7 DEF k

LEMMA OutOfRange ==
  ASSUME NEW lab, Labels(lab), Current(lab), WalkType, NEW c, Covers(lab, s.node, c),
         BelowLow \/ AboveHigh
  PROVE  ~ Qualifies(c)
<1>1. /\ c \in Key /\ c.value \in Seq(Byte) /\ Len(c.value) \in Nat
      /\ \A i \in 1..s.len_val : c.value[i] = buf_val[i]
      /\ s.len_val \in Nat /\ s.len_val <= Len(c.value)
      /\ Leaves(key.low, vl_pos, c) /\ Leaves(key.high, vh_pos, c)
  BY CoveredCompared
<1>2. key.low \in Seq(Byte) /\ key.high \in Seq(Byte) /\ vl_pos \in Nat /\ vh_pos \in Nat
  BY BoundsCompared, BoundFacts
<1> DEFINE l == key.low
           h == key.high
           a == c.value
           n == vl_pos
           m == vh_pos
<1>3. CASE BelowLow
  <2>1. n < Len(l) /\ n < s.len_val /\ buf_val[n + 1] < l[n + 1]
    BY <1>3 DEF BelowLow
  <2>2. n < Len(a) /\ n + 1 \in 1..s.len_val
    BY <1>1, <1>2, <2>1
  <2>3. a[n + 1] < l[n + 1]
    BY <1>1, <2>1, <2>2
  <2>4. \A i \in 1..n : a[i] = l[i]
    BY <1>1 DEF Leaves, Shares
  <2>5. a \in Seq(Byte) /\ l \in Seq(Byte) /\ n \in Nat
    BY <1>1, <1>2
  <2> HIDE DEF a, l, n
  <2>6. ~ LessOrEqual(l, a)
    BY <2>1, <2>2, <2>3, <2>4, <2>5, OrderedAtOnce
  <2> QED BY <2>6 DEF Qualifies, a, l
<1>4. CASE AboveHigh
  <2>1. m < Len(h) /\ m < s.len_val /\ buf_val[m + 1] > h[m + 1]
    BY <1>4 DEF AboveHigh
  <2>2. m < Len(a) /\ m + 1 \in 1..s.len_val /\ m + 1 \in 1..Len(h)
    BY <1>1, <1>2, <2>1
  <2>3. h[m + 1] < a[m + 1]
    <3>1. a[m + 1] = buf_val[m + 1] /\ a[m + 1] \in Byte /\ h[m + 1] \in Byte
      <4>1. m + 1 \in 1..Len(a)
        BY <1>1, <2>2
      <4> QED BY <1>1, <1>2, <2>2, <4>1
    <3>2. a[m + 1] \in Nat /\ h[m + 1] \in Nat
      BY <3>1, BytesAreNumbers
    <3> HIDE DEF a, h, m
    <3> QED BY <2>1, <3>1, <3>2
  <2>4. \A i \in 1..m : h[i] = a[i]
    BY <1>1 DEF Leaves, Shares
  <2>5. a \in Seq(Byte) /\ h \in Seq(Byte) /\ m \in Nat
    BY <1>1, <1>2
  <2> HIDE DEF a, h, m
  <2>6. ~ LessOrEqual(a, h)
    BY <2>1, <2>2, <2>3, <2>4, <2>5, OrderedAtOnce
  <2> QED BY <2>6 DEF Qualifies, a, h
<1> QED BY <1>3, <1>4

\* The value at a leaf that is not outside of the bounds is between them.
LEMMA InRange ==
  ASSUME Searchable, NEW lab, Labels(lab), Current(lab), WalkType, NEW c, Covers(lab, s.node, c),
         s.len_val = Len(c.value), ~ BelowLow, ~ AboveHigh
  PROVE  LessOrEqual(key.low, c.value) /\ LessOrEqual(c.value, key.high)
<1>1. /\ c \in Key /\ c.value \in Seq(Byte) /\ Len(c.value) \in Nat
      /\ \A i \in 1..s.len_val : c.value[i] = buf_val[i]
      /\ Leaves(key.low, vl_pos, c) /\ Leaves(key.high, vh_pos, c)
  BY CoveredCompared
<1>2. /\ key.low \in Bounds /\ key.high \in Bounds /\ vl_pos \in Nat /\ vh_pos \in Nat
      /\ key.low \in Seq(Byte) /\ key.high \in Seq(Byte)
      /\ Len(key.low) \in Nat /\ Len(key.high) \in Nat
  BY BoundsCompared, BoundFacts
<1> DEFINE l == key.low
           h == key.high
           a == c.value
           n == vl_pos
           m == vh_pos
<1>3. /\ n <= Len(a) /\ n <= Len(l) /\ \A i \in 1..n : l[i] = a[i]
      /\ m <= Len(a) /\ m <= Len(h) /\ \A i \in 1..m : h[i] = a[i]
  BY <1>1, <1>2 DEF Leaves, Shares
<1>4. LessOrEqual(l, a)
  <2>1. CASE n = Len(l) \/ n = Len(a)
    <3>1. l = a
      BY <1>1, <1>2, <1>3, <2>1, BoundIsValue
    <3> QED BY <1>1, <3>1, OrderedSame
  <2>2. CASE ~ (n = Len(l) \/ n = Len(a))
    <3>1. n < Len(l) /\ n < Len(a) /\ n + 1 \in 1..Len(a) /\ n + 1 \in 1..Len(l)
      BY <1>1, <1>2, <1>3, <2>2
    <3>2. l[n + 1] # a[n + 1] /\ ~ (a[n + 1] < l[n + 1])
      BY <1>1, <3>1 DEF Leaves, BelowLow
    <3>3. l[n + 1] \in Nat /\ a[n + 1] \in Nat
      <4>1. l[n + 1] \in Byte /\ a[n + 1] \in Byte
        BY <1>1, <1>2, <3>1
      <4> QED BY <4>1, BytesAreNumbers
    <3>4. l[n + 1] < a[n + 1]
      <4> HIDE DEF a, l, n
      <4> QED BY <3>2, <3>3
    <3>5. a \in Seq(Byte) /\ l \in Seq(Byte) /\ n \in Nat
      BY <1>1, <1>2
    <3> HIDE DEF a, l, n
    <3> QED BY <1>3, <3>1, <3>4, <3>5, OrderedAtOnce
  <2> QED BY <2>1, <2>2
<1>5. LessOrEqual(a, h)
  <2>1. CASE m = Len(h) \/ m = Len(a)
    <3>1. h = a
      BY <1>1, <1>2, <1>3, <2>1, BoundIsValue
    <3> QED BY <1>1, <3>1, OrderedSame
  <2>2. CASE ~ (m = Len(h) \/ m = Len(a))
    <3>1. m < Len(h) /\ m < Len(a) /\ m + 1 \in 1..Len(a) /\ m + 1 \in 1..Len(h)
      BY <1>1, <1>2, <1>3, <2>2
    <3>2. h[m + 1] # a[m + 1] /\ ~ (a[m + 1] > h[m + 1])
      BY <1>1, <3>1 DEF Leaves, AboveHigh
    <3>3. h[m + 1] \in Nat /\ a[m + 1] \in Nat
      <4>1. h[m + 1] \in Byte /\ a[m + 1] \in Byte
        BY <1>1, <1>2, <3>1
      <4> QED BY <4>1, BytesAreNumbers
    <3>4. a[m + 1] < h[m + 1]
      <4> HIDE DEF a, h, m
      <4> QED BY <3>2, <3>3
    <3>5. a \in Seq(Byte) /\ h \in Seq(Byte) /\ m \in Nat /\ \A i \in 1..m : a[i] = h[i]
      BY <1>1, <1>2, <1>3
    <3> HIDE DEF a, h, m
    <3> QED BY <3>1, <3>4, <3>5, OrderedAtOnce
  <2> QED BY <2>1, <2>2
<1> QED BY <1>4, <1>5

-----------------------------------------------------------------------------
(* Decisions                                                                *)

\* What is known when the matcher has returned.
LEMMA DecidedFacts ==
  ASSUME NEW lab, Labels(lab), QueryWalk(lab), Decided
  PROVE  /\ qpc = "match" /\ match_pat # "calling" /\ WalkType /\ Current(lab)
         /\ s.node \in DOMAIN heap /\ Covers(lab, s.node, lab[s.node].key)
         /\ \A c : Covers(lab, s.node, c) =>
              Knows(c.path, key.path, s.len_pat, pm_state, match_pat)
<1>1. qpc = "match" /\ match_pat # "calling"
  BY DEF Decided
<1>2. WalkType /\ Current(lab)
  BY <1>1 DEF QueryWalk
<1>3. s.node \in DOMAIN heap
  BY <1>2 DEF Current
<1>4. \A c : Covers(lab, s.node, c) => Knows(c.path, key.path, s.len_pat, pm_state, match_pat)
  BY <1>1, <1>2 DEF Current
<1> QED BY <1>1, <1>2, <1>3, <1>4, CoversLabel

\* A value is complete if all of its bytes are in the buffer.
LEMMA CompleteValue ==
  ASSUME Searchable, NEW lab, Labels(lab), Current(lab), NEW c, Covers(lab, s.node, c)
  PROVE  IsCompleteValue <=> s.len_val = Len(c.value)
<1>1. c \in Key /\ Holds(c, s) /\ s.len_val \in 0..Len(c.value)
  BY CurrentHolds
<1>2. c.value \in Values /\ Len(c.value) \in Nat
  BY <1>1, KeyFacts
<1>3. IF ValueSize > 0 THEN Len(c.value) = ValueSize
      ELSE Len(c.value) > 1 /\ \A i \in 1..Len(c.value) : c.value[i] = kNullByte <=> i = Len(c.value)
  BY <1>2 DEF Searchable
<1>4. CASE ValueSize > 0
  BY <1>3, <1>4 DEF IsCompleteValue
<1>5. CASE ~ (ValueSize > 0)
  <2>1. IsCompleteValue <=> s.len_val > 1 /\ buf_val[s.len_val] = kNullByte
    BY <1>5 DEF IsCompleteValue
  <2>2. s.len_val > 1 => s.len_val \in 1..Len(c.value) /\ buf_val[s.len_val] = c.value[s.len_val]
    BY <1>1 DEF Holds
  <2> QED BY <1>1, <1>2, <1>3, <1>5, <2>1, <2>2
<1> QED BY <1>4, <1>5

LEMMA LeafFacts ==
  ASSUME NEW lab, Labels(lab), Current(lab), IsLeaf
  PROVE  LET k == lab[s.node].key IN
         /\ s.len_pat = Len(k.path) /\ s.len_val = Len(k.value) /\ heap[s.node].refs = content[k]
         /\ \A c : Covers(lab, s.node, c) => c = k
<1>1. /\ s.node \in DOMAIN heap /\ heap[s.node].dim = "Leaf"
      /\ s.len_pat = EndP(heap, lab, s.node) /\ s.len_val = EndV(heap, lab, s.node)
  BY DEF Current, IsLeaf
<1>2. EndOK(heap, content, lab, s.node)
  BY <1>1, LabelFacts DEF Labels, LabelOK
<1>3. \A c : Covers(lab, s.node, c) => c = lab[s.node].key
  BY <1>1, CoversEnd
<1> QED BY <1>1, <1>2, <1>3 DEF EndOK

\* Inner nodes have keys that go on.
LEMMA InnerFacts ==
  ASSUME NEW lab, Labels(lab), Current(lab), ~ IsLeaf, NEW c, Covers(lab, s.node, c)
  PROVE  /\ heap[s.node].dim \in Dimension /\ c \in Key
         /\ s.len_pat \in Nat /\ s.len_val \in Nat
         /\ HasByte(c, heap[s.node].dim, s.len_pat, s.len_val)
         /\ ByteAt(c, heap[s.node].dim, s.len_pat, s.len_val) \in Byte
         /\ Child(ByteAt(c, heap[s.node].dim, s.len_pat, s.len_val)) # nullptr
<1> DEFINE d == heap[s.node].dim
<1>1. /\ s.node \in DOMAIN heap /\ d # "Leaf" /\ s \in StateRecord
      /\ s.len_pat = EndP(heap, lab, s.node) /\ s.len_val = EndV(heap, lab, s.node)
  BY DEF Current, IsLeaf
<1>2. heap[s.node] \in NodeRecord
  BY <1>1 DEF Labels, HeapOK
<1>3. d \in Dimension
  BY <1>1, <1>2, NodeFacts
<1>4. /\ HasByte(c, d, s.len_pat, s.len_val)
      /\ Child(ByteAt(c, d, s.len_pat, s.len_val)) # nullptr
  BY <1>1, CoversEnd DEF Child
<1>5. c \in Key /\ s.len_pat \in Nat /\ s.len_val \in Nat
  BY <1>1 DEF Covers, StateRecord
<1>6. c.path \in Seq(Byte) /\ c.value \in Seq(Byte) /\ Len(c.path) \in Nat /\ Len(c.value) \in Nat
  BY <1>5, KeyFacts
<1>7. ByteAt(c, d, s.len_pat, s.len_val) \in Byte
  <2>1. CASE d = "Path"
    <3>1. s.len_pat + 1 \in 1..Len(c.path)
      BY <1>4, <1>5, <1>6, <2>1 DEF HasByte
    <3> QED BY <1>6, <2>1, <3>1 DEF ByteAt
  <2>2. CASE d # "Path"
    <3>1. s.len_val + 1 \in 1..Len(c.value)
      BY <1>4, <1>5, <1>6, <2>2 DEF HasByte
    <3> QED BY <1>6, <2>2, <3>1 DEF ByteAt
  <2> QED BY <2>1, <2>2
<1> QED BY <1>3, <1>4, <1>5, <1>7

\* The assertions of Execute hold.
LEMMA MatchIsLeaf ==
  ASSUME Searchable, NEW lab, Labels(lab), QueryWalk(lab), Decided, ~ Mismatch
  PROVE  BothMatch <=> IsLeaf
<1> DEFINE k == lab[s.node].key
<1>1. /\ Current(lab) /\ WalkType /\ s.node \in DOMAIN heap /\ Covers(lab, s.node, k)
      /\ match_pat # "calling"
      /\ Knows(k.path, key.path, s.len_pat, pm_state, match_pat)
  BY DecidedFacts
<1>2. /\ match_pat \in {"INCOMPLETE", "MATCH"}
      /\ match_val = "MATCH" <=> IsCompleteValue
  BY <1>1 DEF Knows, Mismatch, match_val
<1>3. IsCompleteValue <=> s.len_val = Len(k.value)
  BY <1>1, CompleteValue
<1>4. k \in Key /\ Len(k.path) \in Nat /\ Len(k.value) \in Nat /\ s.len_pat \in 0..Len(k.path)
  BY <1>1, CurrentHolds, KeyFacts
<1> HIDE DEF k
<1>5. ASSUME IsLeaf PROVE BothMatch
  <2>1. s.len_pat = Len(k.path) /\ s.len_val = Len(k.value)
    BY <1>1, <1>5, LeafFacts DEF k
  <2>2. match_pat # "INCOMPLETE"
    <3> SUFFICES ASSUME match_pat = "INCOMPLETE" PROVE FALSE
      OBVIOUS
    <3>1. /\ Places(k.path, key.path, pm_state.ppos_, pm_state.qpos_, pm_state.desc_ppos_,
                    pm_state.desc_qpos_)
          /\ pm_state.ppos_ >= s.len_pat \/ pm_state.desc_ppos_ >= s.len_pat
      BY <1>1 DEF Knows
    <3> QED BY <1>4, <2>1, <3>1 DEF Places
  <2> QED BY <1>2, <1>3, <2>1, <2>2 DEF BothMatch
<1>6. ASSUME BothMatch, ~ IsLeaf PROVE FALSE
  <2>1. match_pat = "MATCH" /\ s.len_val = Len(k.value)
    BY <1>2, <1>3, <1>6 DEF BothMatch
  <2>2. s.len_pat >= Len(k.path)
    BY <1>1, <2>1 DEF Knows
  <2>3. HasByte(k, heap[s.node].dim, s.len_pat, s.len_val)
    BY <1>1, <1>6, InnerFacts
  <2> QED BY <1>4, <2>1, <2>2, <2>3 DEF HasByte
<1> QED BY <1>5, <1>6

\* Two States that conflict have no keys in common.
LEMMA Uncovered ==
  ASSUME NEW lab, Labels(lab), NEW t, NEW u, Before(lab, t, u),
         t.node \in DOMAIN heap, u.node \in DOMAIN heap, NEW c, Covers(lab, u.node, c)
  PROVE  ~ Covers(lab, t.node, c)
<1> SUFFICES ASSUME Covers(lab, t.node, c) PROVE FALSE
  OBVIOUS
<1> DEFINE l == lab[t.node]
           m == lab[u.node]
           k == [key |-> c, p |-> Len(c.path), v |-> Len(c.value)]
<1>1. Conflict(l, m)
  BY DEF Before
<1>2. /\ l.p \in Nat /\ l.v \in Nat /\ m.p \in Nat /\ m.v \in Nat
  BY LabelFacts DEF Labels
<1>3. c \in Key /\ Agree(c, l.key, l.p, l.v) /\ Agree(c, m.key, m.p, m.v)
  BY DEF Covers
<1>4. k.key = c /\ k.p \in Nat /\ k.v \in Nat /\ k.p = Len(c.path) /\ k.v = Len(c.value)
  BY <1>3, KeyFacts
<1>5. /\ Agree(l.key, k.key, l.p, l.v) /\ Agree(m.key, k.key, m.p, m.v)
      /\ l.p <= k.p /\ l.v <= k.v /\ m.p <= k.p /\ m.v <= k.v
  BY <1>3, <1>4, AgreeSym DEF Agree
<1> HIDE DEF l, m, k
<1>6. Conflict(k, m)
  BY <1>1, <1>2, <1>4, <1>5, ConflictBelow
<1>7. Conflict(m, k)
  BY <1>2, <1>4, <1>6, ConflictSym
<1>8. Conflict(k, k)
  BY <1>2, <1>4, <1>5, <1>7, ConflictBelow
<1> QED BY <1>8 DEF Conflict, Differ

\* What is pending when the State has been dealt with.
LEMMA LeftPending ==
  ASSUME NEW lab, Labels(lab), QueryWalk(lab), qpc = "match", qpc' = "pop", stack' = stack,
         UNCHANGED vars, NEW c
  PROVE  Pending(lab, c)' <=> Pending(lab, c) /\ ~ Covers(lab, s.node, c)
<1>1. \A n : Covers(lab, n, c)' <=> Covers(lab, n, c)
  BY SameCovers
<1>2. Pending(lab, c)' <=> \E i \in DOMAIN stack : Covers(lab, stack[i].node, c)
  BY <1>1 DEF Pending
<1>3. ASSUME NEW i \in DOMAIN stack, Covers(lab, s.node, c)
      PROVE  ~ Covers(lab, stack[i].node, c)
  <2>1. Before(lab, stack[i], s) /\ Waiting(lab, stack[i]) /\ Current(lab)
    BY DEF QueryWalk
  <2>2. stack[i].node \in DOMAIN heap /\ s.node \in DOMAIN heap
    BY <2>1 DEF Waiting, Current
  <2> QED BY <1>3, <2>1, <2>2, Uncovered
<1> QED BY <1>2, <1>3 DEF Pending

\* The rest of the stack goes on waiting.
LEMMA RestWaits ==
  ASSUME NEW lab, QueryWalk(lab), qpc' = "pop",
         UNCHANGED <<vars, key, stack, s, pm_state, buf_pat, buf_val>>,
         emitted' \in [Key -> Seq(Ref)], Sound(lab)'
  PROVE  QueryWalk(lab)'
<1>1. WalkType'
  <2>1. WalkType
    BY DEF QueryWalk
  <2> QED BY <2>1 DEF WalkType, StateOK, PMState, vars
<1>2. (\A i \in DOMAIN stack : Waiting(lab, stack[i]))'
  <2> SUFFICES ASSUME NEW i \in DOMAIN stack PROVE Waiting(lab, stack[i])'
    OBVIOUS
  <2>1. PICK u : u = stack[i]
    OBVIOUS
  <2>2. Waiting(lab, u)
    BY <2>1 DEF QueryWalk
  <2>3. Waiting(lab, u)'
    BY <2>2, KeepWaiting
  <2> QED BY <2>1, <2>3
<1>3. (\A i, j \in DOMAIN stack : i < j => Before(lab, stack[i], stack[j]))'
  BY DEF QueryWalk
<1> QED BY <1>1, <1>2, <1>3 DEF QueryWalk

LEMMA PruneStep ==
  ASSUME NEW lab, Labels(lab), QueryWalk(lab), Prune, UNCHANGED vars
  PROVE  QueryWalk(lab)' /\ (Complete(lab) => Complete(lab)')
<1>1. /\ Decided /\ Mismatch /\ qpc = "match" /\ qpc' = "pop"
      /\ UNCHANGED <<key, stack, s, pm_state, match_pat, buf_pat, buf_val, emitted>>
  BY DEF Prune, Decided
<1>2. \A c : Pending(lab, c)' <=> Pending(lab, c) /\ ~ Covers(lab, s.node, c)
  BY <1>1, LeftPending
<1>3. QueryWalk(lab)'
  <2>1. Sound(lab)' /\ emitted \in [Key -> Seq(Ref)]
    BY <1>1, <1>2, KeepSound DEF QueryWalk, WalkType
  <2> QED BY <1>1, <2>1, RestWaits
<1>4. ASSUME NEW c, Covers(lab, s.node, c) PROVE ~ Qualifies(c)
  <2>1. /\ WalkType /\ Current(lab)
        /\ Knows(c.path, key.path, s.len_pat, pm_state, match_pat)
    BY <1>1, <1>4, DecidedFacts
  <2>2. CASE match_pat = "MISMATCH"
    BY <2>1, <2>2 DEF Knows, Qualifies
  <2>3. CASE match_val = "MISMATCH"
    <3>1. BelowLow \/ AboveHigh
      BY <2>3 DEF match_val
    <3> QED BY <1>4, <2>1, <3>1, OutOfRange
  <2> QED BY <1>1, <2>2, <2>3 DEF Mismatch
<1>5. Complete(lab) => Complete(lab)'
  BY <1>1, <1>2, <1>4 DEF Complete, Qualifies, vars
<1> QED BY <1>3, <1>5

-----------------------------------------------------------------------------
(* EmitMatch                                                                *)

\* A string ends at the first null byte of the buffer.
LEMMA NullEnds ==
  ASSUME NEW w \in Seq(Byte), NEW b \in [1..BufferSize -> Byte], Begins(b, w, Len(w)),
         Len(w) \in 1..BufferSize, \A i \in 1..Len(w) : w[i] = kNullByte <=> i = Len(w)
  PROVE  UpToNull(b) = w
<1> DEFINE Z == {i \in DOMAIN b : b[i] = kNullByte}
           e == Least(Z)
<1>1. BufferSize \in Nat /\ Len(w) \in Nat /\ DOMAIN b = 1..BufferSize
      /\ \A i \in 1..Len(w) : i \in 1..BufferSize /\ b[i] = w[i]
  BY QueryAssumption DEF Begins
<1>2. Len(w) \in Z
  BY <1>1
<1>3. Z \in SUBSET Nat /\ Z # {}
  BY <1>1, <1>2
<1>4. e \in Z /\ \A j \in Z : e <= j
  <2> HIDE DEF Z
  <2> QED BY <1>3, LeastIsLeast
<1>5. e = Len(w)
  <2>1. e \in 1..Len(w) /\ b[e] = kNullByte
    <3>1. e \in Z /\ e <= Len(w)
      <4> HIDE DEF Z, e
      <4> QED BY <1>2, <1>4
    <3> HIDE DEF e
    <3> QED BY <1>1, <3>1
  <2> HIDE DEF e
  <2> QED BY <1>1, <2>1
<1>6. UpToNull(b) = SubSeq(b, 1, e)
  BY DEF UpToNull
<1> HIDE DEF e, Z
<1>7. b \in Seq(Byte) /\ Len(b) = BufferSize
  BY <1>1
<1>8. SubSeq(b, 1, Len(w)) = SubSeq(w, 1, Len(w))
  BY <1>1, <1>7, SubSeqAgree
<1> QED BY <1>5, <1>6, <1>8

LEMMA DecodesKey ==
  ASSUME Searchable, NEW lab, Labels(lab), Current(lab), WalkType, IsLeaf
  PROVE  DecodedKey = lab[s.node].key
<1> DEFINE k == lab[s.node].key
<1>1. s.len_pat = Len(k.path) /\ s.len_val = Len(k.value) /\ s.node \in DOMAIN heap
      /\ Holds(k, s)
  BY LeafFacts DEF Current
<1>2. k \in Key
  BY <1>1, LabelFacts DEF Labels
<1>3. /\ k.path \in Paths /\ k.value \in Values /\ k = [path |-> k.path, value |-> k.value]
      /\ k.path \in Seq(Byte) /\ k.value \in Seq(Byte)
      /\ Len(k.path) \in Nat /\ Len(k.value) \in Nat
  BY <1>2, KeyFacts
<1>4. /\ Len(k.path) \in 2..BufferSize /\ Len(k.value) <= BufferSize /\ BufferSize \in Nat
      /\ \A i \in 1..Len(k.path) : k.path[i] = kNullByte <=> i = Len(k.path)
  BY <1>3, QueryAssumption
<1>5. buf_pat \in [1..BufferSize -> Byte] /\ buf_val \in [1..BufferSize -> Byte]
  BY DEF WalkType
<1>6. Begins(buf_pat, k.path, Len(k.path)) /\ Begins(buf_val, k.value, Len(k.value))
  BY <1>1 DEF Holds, Begins
<1> HIDE DEF k
<1>7. UpToNull(buf_pat) = k.path
  BY <1>3, <1>4, <1>5, <1>6, NullEnds
<1>8. (IF ValueSize > 0 THEN SubSeq(buf_val, 1, ValueSize) ELSE UpToNull(buf_val)) = k.value
  <2>1. CASE ValueSize > 0
    <3>1. Len(k.value) = ValueSize
      BY <1>3, <2>1 DEF Searchable
    <3>2. buf_val \in Seq(Byte) /\ Len(buf_val) = BufferSize
      BY <1>4, <1>5
    <3>3. SubSeq(buf_val, 1, Len(k.value)) = SubSeq(k.value, 1, Len(k.value))
      BY <1>3, <1>4, <1>6, <3>2, SubSeqAgree DEF Begins
    <3> QED BY <1>3, <2>1, <3>1, <3>3
  <2>2. CASE ~ (ValueSize > 0)
    <3>1. Len(k.value) > 1 /\ \A i \in 1..Len(k.value) : k.value[i] = kNullByte <=> i = Len(k.value)
      BY <1>3, <2>2 DEF Searchable
    <3>2. Len(k.value) \in 1..BufferSize
      BY <1>3, <1>4, <3>1
    <3>3. UpToNull(buf_val) = k.value
      BY <1>3, <1>5, <1>6, <3>1, <3>2, NullEnds
    <3> QED BY <2>2, <3>3
  <2> QED BY <2>1, <2>2
<1> QED BY <1>3, <1>7, <1>8 DEF DecodedKey, k

LEMMA EmitStep ==
  ASSUME Searchable, NEW lab, Labels(lab), QueryWalk(lab), EmitMatch, UNCHANGED vars,
         content \in [Key -> Seq(Ref)]
  PROVE  QueryWalk(lab)' /\ (Complete(lab) => Complete(lab)')
<1> DEFINE k == lab[s.node].key
<1>1. /\ Decided /\ BothMatch /\ IsLeaf /\ qpc = "match" /\ qpc' = "pop"
      /\ UNCHANGED <<key, stack, s, pm_state, match_pat, buf_pat, buf_val>>
      /\ emitted' = [emitted EXCEPT ![DecodedKey] = @ \o heap[s.node].refs]
  BY DEF EmitMatch, Decided
<1>2. /\ Current(lab) /\ WalkType /\ s.node \in DOMAIN heap /\ Covers(lab, s.node, k)
      /\ Knows(k.path, key.path, s.len_pat, pm_state, match_pat)
  BY <1>1, DecidedFacts
<1>3. /\ s.len_val = Len(k.value) /\ heap[s.node].refs = content[k]
      /\ \A c : Covers(lab, s.node, c) => c = k
  BY <1>1, <1>2, LeafFacts
<1>4. DecodedKey = k
  BY <1>1, <1>2, DecodesKey
<1>5. k \in Key /\ content[k] # <<>> /\ emitted \in [Key -> Seq(Ref)] /\ content[k] \in Seq(Ref)
  BY <1>2 DEF Covers, WalkType
<1>6. emitted[k] = <<>>
  <2>1. Pending(lab, k)
    BY <1>1, <1>2 DEF Pending
  <2> QED BY <1>5, <2>1 DEF QueryWalk, Sound
<1>7. Qualifies(k)
  <2>1. match_pat = "MATCH" /\ match_val = "MATCH"
    BY <1>1 DEF BothMatch
  <2>2. Matches(k.path, key.path)
    BY <1>2, <2>1 DEF Knows
  <2>3. ~ BelowLow /\ ~ AboveHigh
    BY <2>1 DEF match_val
  <2>4. LessOrEqual(key.low, k.value) /\ LessOrEqual(k.value, key.high)
    BY <1>2, <1>3, <2>3, InRange
  <2> QED BY <2>2, <2>4 DEF Qualifies
<1> HIDE DEF k
<1>8. emitted' = [emitted EXCEPT ![k] = content[k]]
  <2>1. emitted' = [emitted EXCEPT ![k] = emitted[k] \o content[k]]
    BY <1>1, <1>3, <1>4
  <2>2. emitted[k] \o content[k] = content[k]
    BY <1>5, <1>6
  <2> QED BY <2>1, <2>2
<1>9. /\ emitted' \in [Key -> Seq(Ref)] /\ emitted'[k] = content[k]
      /\ \A c \in Key : c # k => emitted'[c] = emitted[c]
  BY <1>5, <1>8
<1>10. \A c : Pending(lab, c)' <=> Pending(lab, c) /\ ~ Covers(lab, s.node, c)
  BY <1>1, LeftPending
<1>11. \A c : Qualifies(c)' <=> Qualifies(c)
  BY <1>1 DEF Qualifies
<1>12. content' = content
  BY DEF vars
<1>13. Sound(lab)'
  <2> SUFFICES ASSUME NEW c \in Key, emitted'[c] # <<>>
               PROVE  emitted'[c] = content[c] /\ Qualifies(c) /\ ~ Pending(lab, c)'
    BY <1>11, <1>12 DEF Sound
  <2>1. CASE c = k
    <3>1. Covers(lab, s.node, c)
      BY <1>2, <2>1 DEF k
    <3>2. ~ Pending(lab, c)'
      BY <1>10, <3>1
    <3>3. Qualifies(c) /\ emitted'[c] = content[c]
      BY <1>7, <1>9, <2>1
    <3> QED BY <3>2, <3>3
  <2>2. CASE c # k
    BY <1>9, <1>10, <2>2 DEF QueryWalk, Sound
  <2> QED BY <2>1, <2>2
<1>14. QueryWalk(lab)'
  BY <1>1, <1>9, <1>13, RestWaits
<1>15. ASSUME Complete(lab) PROVE Complete(lab)'
  <2> SUFFICES ASSUME NEW c \in Key, content[c] # <<>>, Qualifies(c), ~ Pending(lab, c)'
               PROVE  emitted'[c] = content[c]
    BY <1>11, <1>12 DEF Complete
  <2>1. CASE c = k
    BY <1>9, <2>1
  <2>2. CASE c # k
    <3>1. ~ Pending(lab, c)
      BY <1>3, <1>10, <2>2 DEF k
    <3> QED BY <1>9, <1>15, <2>2, <3>1 DEF Complete
  <2> QED BY <2>1, <2>2
<1> QED BY <1>14, <1>15

-----------------------------------------------------------------------------
(* The children are pushed                                                  *)

\* The keys below a child are those of its parent that go on with its byte.
LEMMA ChildCovers ==
  ASSUME NEW lab, Labels(lab), Current(lab), NEW b \in Byte, Child(b) # nullptr
  PROVE  LET c == Child(b)
             d == heap[s.node].dim
             n == s.node
         IN  /\ c \in DOMAIN heap /\ c # root /\ d \in Dimension /\ ~ IsLeaf
             /\ lab[c].p = s.len_pat + PathStep(d) /\ lab[c].v = s.len_val + ValueStep(d)
             /\ lab[n].p <= lab[c].p /\ lab[n].v <= lab[c].v
             /\ Agree(lab[n].key, lab[c].key, lab[n].p, lab[n].v)
             /\ ByteAt(lab[c].key, d, s.len_pat, s.len_val) = b
             /\ \A k : Covers(lab, c, k) <=>
                  Covers(lab, n, k) /\ ByteAt(k, d, s.len_pat, s.len_val) = b
<1> DEFINE n == s.node
           c == Child(b)
           d == heap[n].dim
           p == s.len_pat
           v == s.len_val
<1>1. /\ n \in DOMAIN heap /\ p = EndP(heap, lab, n) /\ v = EndV(heap, lab, n)
      /\ heap[n].children[b] # nullptr /\ c = heap[n].children[b]
      /\ HeapOK(heap) /\ Labelled(heap, content, root, lab)
  BY DEF Current, Child, Labels
<1>2. /\ c \in DOMAIN heap /\ d # "Leaf"
      /\ Agree(lab[n].key, lab[c].key, p, v)
      /\ lab[c].p = p + PathStep(d) /\ lab[c].v = v + ValueStep(d)
      /\ lab[c].p + lab[c].v = p + v + 1
      /\ ByteAt(lab[c].key, d, p, v) = b /\ HasByte(lab[c].key, d, p, v)
  <2> HIDE DEF c, d, n, p, v
  <2>1. heap[n].dim = d
    BY DEF d
  <2> QED BY <1>1, <2>1, ChildFacts
<1>3. /\ lab[n].key \in Key /\ lab[n].p \in Nat /\ lab[n].v \in Nat /\ p \in Nat /\ v \in Nat
      /\ lab[n].p <= p /\ lab[n].v <= v
  <2> HIDE DEF p, v, n, c
  <2> QED BY <1>1, LabelFacts
<1>4. lab[c].key \in Key /\ lab[c].p \in Nat /\ lab[c].v \in Nat
  <2> HIDE DEF p, v, n, c
  <2> QED BY <1>1, <1>2, LabelFacts
<1>5. d \in Dimension /\ ~ IsLeaf
  <2>1. heap[n] \in NodeRecord
    BY <1>1 DEF HeapOK
  <2> QED BY <1>2, <2>1, NodeFacts DEF IsLeaf
<1>6. c # root
  <2> SUFFICES ASSUME c = root PROVE FALSE
    OBVIOUS
  <2>1. c # nullptr
    BY <1>1
  <2>2. lab[c].p = 0 /\ lab[c].v = 0
    <3> HIDE DEF c
    <3> QED BY <1>1, <2>1 DEF Labelled
  <2> HIDE DEF c, p, v
  <2> QED BY <1>2, <1>3, <2>2
<1>7. lab[n].p <= lab[c].p /\ lab[n].v <= lab[c].v
  <2> HIDE DEF c, p, v, n
  <2> QED BY <1>2, <1>3, <1>5 DEF PathStep, ValueStep
<1>8. Agree(lab[n].key, lab[c].key, lab[n].p, lab[n].v)
  <2> HIDE DEF c, p, v, n
  <2> QED BY <1>2, <1>3, <1>4, AgreeMono
<1>9. \A k : Agree(k, lab[c].key, lab[c].p, lab[c].v) => HasByte(k, d, p, v)
  <2> HIDE DEF c, p, v, n
  <2> SUFFICES ASSUME NEW k, Agree(k, lab[c].key, lab[c].p, lab[c].v) PROVE HasByte(k, d, p, v)
    OBVIOUS
  <2>1. lab[c].p <= Len(k.path) /\ lab[c].v <= Len(k.value)
    BY DEF Agree
  <2> QED BY <1>2, <1>3, <1>4, <1>5, <2>1 DEF HasByte, PathStep, ValueStep, Dimension
<1>10. ASSUME NEW k \in Key, Agree(k, lab[c].key, lab[c].p, lab[c].v)
       PROVE  Agree(k, lab[n].key, lab[n].p, lab[n].v) /\ ByteAt(k, d, p, v) = b
  <2>1. Agree(k, lab[c].key, lab[n].p, lab[n].v)
    <3> HIDE DEF c, p, v, n
    <3> QED BY <1>3, <1>4, <1>7, <1>10, AgreeMono
  <2>2. Agree(lab[c].key, lab[n].key, lab[n].p, lab[n].v)
    BY <1>8, AgreeSym
  <2>3. Agree(k, lab[n].key, lab[n].p, lab[n].v)
    BY <2>1, <2>2, AgreeTrans
  <2>4. ByteAt(k, d, p, v) = ByteAt(lab[c].key, d, p, v)
    <3> HIDE DEF c, p, v, n, d
    <3>1. /\ \A i \in 1..lab[c].p : k.path[i] = lab[c].key.path[i]
          /\ \A i \in 1..lab[c].v : k.value[i] = lab[c].key.value[i]
      BY <1>10 DEF Agree
    <3>2. d = "Path" => p + 1 \in 1..lab[c].p
      BY <1>2, <1>3, <1>4 DEF PathStep
    <3>3. d # "Path" => v + 1 \in 1..lab[c].v
      BY <1>2, <1>3, <1>4 DEF ValueStep
    <3> QED BY <3>1, <3>2, <3>3 DEF ByteAt
  <2> HIDE DEF c, p, v, n, d
  <2> QED BY <1>2, <2>3, <2>4
<1>11. ASSUME NEW k, Covers(lab, n, k), ByteAt(k, d, p, v) = b
       PROVE  Agree(k, lab[c].key, lab[c].p, lab[c].v)
  <2>1. k \in Key /\ Agree(k, lab[n].key, p, v) /\ HasByte(k, d, p, v)
    BY <1>1, <1>2, <1>11, CoversEnd DEF Labels, Covers
  <2> HIDE DEF c, p, v, n, d
  <2>2. Agree(k, lab[c].key, p, v)
    BY <1>2, <2>1, AgreeTrans
  <2>3. Agree(k, lab[c].key, p + PathStep(d), v + ValueStep(d))
    BY <1>2, <1>3, <1>4, <1>11, <2>1, <2>2, AgreeStep
  <2> QED BY <1>2, <2>3
<1>12. \A k : Covers(lab, c, k) <=> Covers(lab, n, k) /\ ByteAt(k, d, p, v) = b
  <2> HIDE DEF c, p, v, n, d
  <2> QED BY <1>10, <1>11 DEF Covers
<1> QED BY <1>2, <1>5, <1>6, <1>7, <1>8, <1>12

LEMMA SiblingsConflict ==
  ASSUME NEW lab, Labels(lab), Current(lab), NEW b \in Byte, Child(b) # nullptr,
         NEW e \in Byte, Child(e) # nullptr, b # e
  PROVE  Conflict(lab[Child(b)], lab[Child(e)])
<1> DEFINE l == lab[Child(b)]
           m == lab[Child(e)]
           d == heap[s.node].dim
           p == s.len_pat
           v == s.len_val
<1>1. /\ l.p = p + PathStep(d) /\ l.v = v + ValueStep(d) /\ d \in Dimension
      /\ m.p = p + PathStep(d) /\ m.v = v + ValueStep(d)
      /\ ByteAt(l.key, d, p, v) = b /\ ByteAt(m.key, d, p, v) = e
  BY ChildCovers
<1>2. p \in Nat /\ v \in Nat
  BY DEF Current, StateRecord
<1> HIDE DEF l, m, d, p, v
<1>3. CASE d = "Path"
  <2>1. p + 1 \in 1..l.p /\ p + 1 <= m.p /\ l.key.path[p + 1] # m.key.path[p + 1]
    BY <1>1, <1>2, <1>3 DEF PathStep, ByteAt
  <2>2. Differ(l.key.path, m.key.path, l.p, m.p)
    BY <2>1 DEF Differ
  <2> QED BY <2>2 DEF Conflict, l, m
<1>4. CASE d # "Path"
  <2>1. v + 1 \in 1..l.v /\ v + 1 <= m.v /\ l.key.value[v + 1] # m.key.value[v + 1]
    BY <1>1, <1>2, <1>4 DEF ValueStep, ByteAt
  <2>2. Differ(l.key.value, m.key.value, l.v, m.v)
    BY <2>1 DEF Differ
  <2> QED BY <2>2 DEF Conflict, l, m
<1> QED BY <1>3, <1>4

\* The State of a child.
Pushed(b) ==
  QState(Child(b), heap[s.node].dim, b, s.len_pat, s.len_val, pm_state, vl_pos, vh_pos)

LEMMA PushedWaits ==
  ASSUME Searchable, NEW lab, Labels(lab), QueryWalk(lab), Decided, ~ Mismatch,
         NEW b \in Byte, Child(b) # nullptr
  PROVE  Pushed(b) \in StateRecord /\ Waiting(lab, Pushed(b))
<1> DEFINE n == s.node
           c == Child(b)
           d == heap[n].dim
           k == lab[c].key
<1>1. PICK t : t = Pushed(b)
  OBVIOUS
<1>2. /\ t.node = c /\ t.parent_dimension = d /\ t.parent_byte = b
      /\ t.len_pat = s.len_pat /\ t.len_val = s.len_val /\ t.pm_state = pm_state
      /\ t.vl_pos = vl_pos /\ t.vh_pos = vh_pos
      /\ t = QState(c, d, b, s.len_pat, s.len_val, pm_state, vl_pos, vh_pos)
  BY <1>1 DEF Pushed, QState
<1>3. /\ Current(lab) /\ WalkType /\ n \in DOMAIN heap /\ match_pat # "calling"
      /\ \A x : Covers(lab, n, x) => Knows(x.path, key.path, s.len_pat, pm_state, match_pat)
  BY DecidedFacts
<1>4. /\ c \in DOMAIN heap /\ c # root /\ d \in Dimension
      /\ lab[c].p = s.len_pat + PathStep(d) /\ lab[c].v = s.len_val + ValueStep(d)
      /\ ByteAt(k, d, s.len_pat, s.len_val) = b
      /\ \A x : Covers(lab, c, x) => Covers(lab, n, x)
  BY <1>3, ChildCovers
<1>5. Covers(lab, c, k) /\ Covers(lab, n, k)
  BY <1>4, CoversLabel
<1>6. k \in Key /\ Holds(k, s) /\ s.len_pat \in Nat /\ s.len_val \in Nat
  BY <1>3, <1>5, CurrentHolds DEF Current, StateRecord
<1>7. /\ Shares(k, key.low, vl_pos, s.len_val) /\ Shares(k, key.high, vh_pos, s.len_val)
  BY <1>3, <1>5, CoveredCompared DEF Leaves
<1>8. vl_pos \in Nat /\ vh_pos \in Nat
  BY <1>3, BoundsCompared
<1>9. match_pat \in {"INCOMPLETE", "MATCH"}
  BY <1>3, <1>5 DEF Knows, Mismatch
<1>10. pm_state \in [ppos_ : Nat, qpos_ : Nat, desc_ppos_ : Nat, desc_qpos_ : Int]
  BY <1>3, <1>5, <1>6, KnowsRange DEF WalkType
<1>11. c \in Node
  BY <1>4 DEF Labels, HeapOK
<1> HIDE DEF n, c, d, k
<1>12. t \in StateRecord
  BY <1>2, <1>4, <1>6, <1>8, <1>10, <1>11 DEF StateRecord, QState
<1>13. Entered(lab, t)
  BY <1>2, <1>4 DEF Entered, k
<1>14. Holds(k, t) /\ Compared(k, t)
  BY <1>2, <1>6, <1>7 DEF Holds, Compared
<1>15. \A x : Covers(lab, t.node, x) =>
         \E m \in {"INCOMPLETE", "MATCH"} : Knows(x.path, key.path, t.len_pat, t.pm_state, m)
  BY <1>2, <1>3, <1>4, <1>9
<1>16. Waiting(lab, t)
  BY <1>2, <1>4, <1>12, <1>13, <1>14, <1>15 DEF Waiting, k
<1> QED BY <1>1, <1>12, <1>16

LEMMA PushedBefore ==
  ASSUME NEW lab, Labels(lab), QueryWalk(lab), Decided, NEW b \in Byte, Child(b) # nullptr
  PROVE  /\ \A i \in DOMAIN stack : Before(lab, stack[i], Pushed(b))
         /\ \A e \in Byte : Child(e) # nullptr /\ b # e => Before(lab, Pushed(b), Pushed(e))
<1>1. Current(lab) /\ WalkType /\ qpc = "match" /\ s.len_pat \in Nat /\ s.len_val \in Nat
  BY DecidedFacts DEF Current, StateRecord
<1>2. \A e : /\ Pushed(e).node = Child(e) /\ Pushed(e).len_pat = s.len_pat
             /\ Pushed(e).len_val = s.len_val
  BY DEF Pushed, QState
<1>3. ASSUME NEW e \in Byte, Child(e) # nullptr, b # e
      PROVE  Before(lab, Pushed(b), Pushed(e))
  <2>1. Conflict(lab[Child(b)], lab[Child(e)])
    BY <1>1, <1>3, SiblingsConflict
  <2> QED BY <1>1, <1>2, <2>1 DEF Before
<1>4. ASSUME NEW i \in DOMAIN stack PROVE Before(lab, stack[i], Pushed(b))
  <2> DEFINE l == lab[stack[i].node]
             m == lab[s.node]
             k == lab[Child(b)]
  <2>1. Before(lab, stack[i], s) /\ Waiting(lab, stack[i])
    BY <1>1 DEF QueryWalk
  <2>2. /\ stack[i].node \in DOMAIN heap /\ s.node \in DOMAIN heap
        /\ Conflict(l, m) /\ stack[i].len_pat <= s.len_pat /\ stack[i].len_val <= s.len_val
    BY <1>1, <2>1 DEF Before, Waiting, Current
  <2>3. /\ Child(b) \in DOMAIN heap /\ m.p <= k.p /\ m.v <= k.v
        /\ Agree(m.key, k.key, m.p, m.v)
    BY <1>1, ChildCovers
  <2>4. /\ l.p \in Nat /\ l.v \in Nat /\ m.p \in Nat /\ m.v \in Nat /\ k.p \in Nat /\ k.v \in Nat
    BY <2>2, <2>3, LabelFacts DEF Labels
  <2> HIDE DEF l, m, k
  <2>5. Conflict(m, l)
    BY <2>2, <2>4, ConflictSym
  <2>6. Conflict(k, l)
    BY <2>3, <2>4, <2>5, ConflictBelow
  <2>7. Conflict(l, k)
    BY <2>4, <2>6, ConflictSym
  <2> QED BY <1>2, <2>2, <2>7 DEF Before, l, k
<1> QED BY <1>3, <1>4

\* c is a, and b behind it.
Joins(c, a, b) ==
  /\ Len(a) \in Nat
  /\ \A i \in DOMAIN a : i \in DOMAIN c /\ i <= Len(a) /\ c[i] = a[i]
  /\ \A j \in DOMAIN b : Len(a) + j \in DOMAIN c /\ c[Len(a) + j] = b[j]
  /\ \A i \in DOMAIN c : i \in DOMAIN a \/ \E j \in DOMAIN b : i = Len(a) + j

LEMMA AppendedFacts ==
  ASSUME NEW S, NEW a \in Seq(S), NEW b \in Seq(S)
  PROVE  a \o b \in Seq(S) /\ Joins(a \o b, a, b)
<1>1. /\ Len(a) \in Nat /\ Len(b) \in Nat /\ DOMAIN a = 1..Len(a) /\ DOMAIN b = 1..Len(b)
  OBVIOUS
<1>2. /\ a \o b \in Seq(S) /\ Len(a \o b) = Len(a) + Len(b)
      /\ \A x \in 1..Len(a) : (a \o b)[x] = a[x]
      /\ \A x \in 1..Len(b) : (a \o b)[Len(a) + x] = b[x]
  BY Concatenation
<1> DEFINE c == a \o b
<1> HIDE DEF c
<1>3. DOMAIN c = 1..(Len(a) + Len(b))
  BY <1>1, <1>2 DEF c
<1>4. ASSUME NEW i \in 1..(Len(a) + Len(b))
      PROVE  i \in 1..Len(a) \/ \E j \in 1..Len(b) : i = Len(a) + j
  <2>1. i \notin 1..Len(a) => i - Len(a) \in 1..Len(b) /\ i = Len(a) + (i - Len(a))
    BY <1>1
  <2> QED BY <2>1
<1>5. \A i \in 1..Len(a) : i \in 1..(Len(a) + Len(b)) /\ i <= Len(a)
  BY <1>1
<1>6. \A j \in 1..Len(b) : Len(a) + j \in 1..(Len(a) + Len(b))
  BY <1>1
<1> QED BY <1>1, <1>2, <1>3, <1>4, <1>5, <1>6 DEF Joins, c

LEMMA PushStep ==
  ASSUME Searchable, NEW lab, Labels(lab), QueryWalk(lab), Decided, ~ Mismatch, ~ IsLeaf,
         NEW S \in SUBSET Byte, Push(S), UNCHANGED vars
  PROVE  /\ QueryWalk(lab)'
         /\ \A c : Pending(lab, c) =>
              \/ Pending(lab, c)'
              \/ /\ Covers(lab, s.node, c)
                 /\ ByteAt(c, heap[s.node].dim, s.len_pat, s.len_val) \notin S
<1>1. PICK T : T = {b \in S : Child(b) # nullptr}
  OBVIOUS
<1>2. T \in SUBSET Byte /\ \A b \in T : b \in Byte /\ Child(b) # nullptr
  BY <1>1
<1>3. PICK f, n : f = HighToLow(T) /\ n = Cardinality(T)
  OBVIOUS
<1>4. /\ n \in Nat /\ f \in [1..n -> T]
      /\ \A i, j \in 1..n : i # j => f[i] # f[j]
      /\ \A b \in T : \E i \in 1..n : f[i] = b
  BY <1>2, <1>3, EveryChildOnce
<1>5. PICK new : new = [i \in 1..n |-> Pushed(f[i])]
  OBVIOUS
<1>6. /\ stack' = stack \o new /\ qpc' = "pop" /\ qpc = "match"
      /\ UNCHANGED <<key, s, pm_state, match_pat, buf_pat, buf_val, emitted>>
  <2>1. DOMAIN f = 1..n
    BY <1>4
  <2> QED BY <1>1, <1>3, <1>5, <2>1 DEF Push, Decided, Pushed
<1>7. \A i \in 1..n : f[i] \in T /\ Pushed(f[i]) \in StateRecord /\ Waiting(lab, Pushed(f[i]))
  BY <1>2, <1>4, PushedWaits
<1>8. new \in Seq(StateRecord) /\ DOMAIN new = 1..n /\ \A i \in 1..n : new[i] = Pushed(f[i])
  BY <1>4, <1>5, <1>7
<1>9. stack \in Seq(StateRecord) /\ WalkType /\ Current(lab)
  BY <1>6 DEF QueryWalk, WalkType
<1>10. /\ stack' \in Seq(StateRecord) /\ Len(stack) \in Nat
       /\ \A i \in DOMAIN stack : i \in DOMAIN stack' /\ i <= Len(stack) /\ stack'[i] = stack[i]
       /\ \A j \in 1..n : Len(stack) + j \in DOMAIN stack' /\ stack'[Len(stack) + j] = new[j]
       /\ \A i \in DOMAIN stack' : i \in DOMAIN stack \/ \E j \in 1..n : i = Len(stack) + j
  <2>1. stack \o new \in Seq(StateRecord) /\ Joins(stack \o new, stack, new)
    BY <1>8, <1>9, AppendedFacts
  <2>2. stack' \in Seq(StateRecord) /\ Joins(stack', stack, new)
    BY <1>6, <2>1
  <2> QED BY <1>8, <2>2 DEF Joins
<1>11. WalkType'
  BY <1>6, <1>9, <1>10 DEF WalkType, StateOK, PMState, vars
<1>12. (\A i \in DOMAIN stack : Waiting(lab, stack[i]))'
  <2> SUFFICES ASSUME NEW i \in DOMAIN stack' PROVE Waiting(lab, stack[i])'
    OBVIOUS
  <2>1. PICK u : u = stack'[i]
    OBVIOUS
  <2>2. Waiting(lab, u)
    <3>1. CASE i \in DOMAIN stack
      BY <1>10, <2>1, <3>1 DEF QueryWalk
    <3>2. CASE \E j \in 1..n : i = Len(stack) + j
      BY <1>7, <1>8, <1>10, <2>1, <3>2
    <3> QED BY <1>10, <3>1, <3>2
  <2>3. Waiting(lab, u)'
    BY <1>6, <2>2, KeepWaiting
  <2> QED BY <2>1, <2>3
<1>13. (\A i, j \in DOMAIN stack : i < j => Before(lab, stack[i], stack[j]))'
  <2> SUFFICES ASSUME NEW i \in DOMAIN stack', NEW j \in DOMAIN stack', i < j
               PROVE  Before(lab, stack'[i], stack'[j])
    OBVIOUS
  <2>1. DOMAIN stack = 1..Len(stack)
    BY <1>9
  <2>2. CASE i \in DOMAIN stack /\ j \in DOMAIN stack
    BY <1>10, <2>2 DEF QueryWalk
  <2>3. CASE i \in DOMAIN stack /\ \E y \in 1..n : j = Len(stack) + y
    <3>1. PICK y \in 1..n : j = Len(stack) + y
      BY <2>3
    <3>2. stack'[i] = stack[i] /\ stack'[j] = Pushed(f[y]) /\ f[y] \in T
      BY <1>7, <1>8, <1>10, <2>3, <3>1
    <3> QED BY <1>2, <2>3, <3>2, PushedBefore
  <2>4. CASE (\E x \in 1..n : i = Len(stack) + x) /\ \E y \in 1..n : j = Len(stack) + y
    <3>1. PICK x \in 1..n, y \in 1..n : i = Len(stack) + x /\ j = Len(stack) + y
      BY <2>4
    <3>2. stack'[i] = Pushed(f[x]) /\ stack'[j] = Pushed(f[y]) /\ f[x] \in T /\ f[y] \in T
      BY <1>7, <1>8, <1>10, <3>1
    <3>3. x # y
      BY <1>4, <1>10, <3>1
    <3>4. f[x] # f[y]
      BY <1>4, <3>3
    <3> QED BY <1>2, <3>2, <3>4, PushedBefore
  <2>5. CASE (\E x \in 1..n : i = Len(stack) + x) /\ j \in DOMAIN stack
    BY <1>10, <2>1, <2>5
  <2> QED BY <1>10, <2>2, <2>3, <2>4, <2>5
<1>14. \A m, c : Covers(lab, m, c)' <=> Covers(lab, m, c)
  BY SameCovers
<1>15. \A b : Pushed(b).node = Child(b)
  BY DEF Pushed, QState
<1>16. ASSUME NEW b \in T, NEW c
       PROVE  Covers(lab, Child(b), c) <=>
                Covers(lab, s.node, c) /\ ByteAt(c, heap[s.node].dim, s.len_pat, s.len_val) = b
  BY <1>2, <1>9, ChildCovers
<1>17. ASSUME NEW c, Pending(lab, c)' PROVE Pending(lab, c)
  <2>1. PICK i \in DOMAIN stack' : Covers(lab, stack'[i].node, c)
    BY <1>6, <1>14, <1>17 DEF Pending
  <2>2. CASE i \in DOMAIN stack
    BY <1>10, <2>1, <2>2 DEF Pending
  <2>3. CASE \E j \in 1..n : i = Len(stack) + j
    <3>1. PICK j \in 1..n : i = Len(stack) + j
      BY <2>3
    <3>2. f[j] \in T /\ Covers(lab, Child(f[j]), c)
      BY <1>7, <1>8, <1>10, <1>15, <2>1, <3>1
    <3>3. Covers(lab, s.node, c)
      BY <1>16, <3>2
    <3> QED BY <1>6, <3>3 DEF Pending
  <2> QED BY <1>10, <2>2, <2>3
<1>18. Sound(lab)'
  BY <1>6, <1>17, KeepSound DEF QueryWalk
<1>19. ASSUME NEW c, Pending(lab, c), ~ Pending(lab, c)'
       PROVE  /\ Covers(lab, s.node, c)
              /\ ByteAt(c, heap[s.node].dim, s.len_pat, s.len_val) \notin S
  <2>1. \A i \in DOMAIN stack' : ~ Covers(lab, stack'[i].node, c)
    BY <1>14, <1>19 DEF Pending
  <2>2. \A i \in DOMAIN stack : ~ Covers(lab, stack[i].node, c)
    BY <1>10, <2>1
  <2>3. Covers(lab, s.node, c)
    BY <1>19, <2>2 DEF Pending
  <2> DEFINE b == ByteAt(c, heap[s.node].dim, s.len_pat, s.len_val)
  <2>5. b \notin T
    <3> SUFFICES ASSUME b \in T PROVE FALSE
      OBVIOUS
    <3>1. Covers(lab, Child(b), c)
      <4> HIDE DEF b
      <4>1. b = ByteAt(c, heap[s.node].dim, s.len_pat, s.len_val)
        BY DEF b
      <4> QED BY <1>16, <2>3, <4>1
    <3>2. PICK j \in 1..n : f[j] = b
      BY <1>4
    <3>3. stack'[Len(stack) + j].node = Child(b) /\ Len(stack) + j \in DOMAIN stack'
      BY <1>8, <1>10, <1>15, <3>2
    <3> QED BY <2>1, <3>1, <3>3
  <2>6. Child(b) # nullptr
    BY <1>9, <2>3, InnerFacts
  <2> HIDE DEF b
  <2>7. b \notin S
    BY <1>1, <2>5, <2>6
  <2> QED BY <2>3, <2>7 DEF b
<1> QED BY <1>11, <1>12, <1>13, <1>17, <1>18, <1>19, <1>6, <1>9 DEF QueryWalk

-----------------------------------------------------------------------------
(* Which children are looked for                                            *)

\* No key that qualifies is left behind with the children that are not pushed.
LEMMA NoneLeft ==
  ASSUME NEW lab, NEW S, Complete(lab), UNCHANGED <<vars, key, emitted>>,
         \A c : Pending(lab, c) =>
           \/ Pending(lab, c)'
           \/ /\ Covers(lab, s.node, c)
              /\ ByteAt(c, heap[s.node].dim, s.len_pat, s.len_val) \notin S,
         \A c : Covers(lab, s.node, c) /\ Qualifies(c) =>
           ByteAt(c, heap[s.node].dim, s.len_pat, s.len_val) \in S
  PROVE  Complete(lab)'
<1>1. /\ content' = content /\ emitted' = emitted
      /\ \A c : Qualifies(c)' <=> Qualifies(c)
  BY DEF vars, Qualifies
<1> SUFFICES ASSUME NEW c \in Key, content[c] # <<>>, Qualifies(c), ~ Pending(lab, c)'
             PROVE  emitted[c] = content[c]
  BY <1>1 DEF Complete
<1>2. ~ Pending(lab, c)
  OBVIOUS
<1> QED BY <1>2 DEF Complete

LEMMA DescendPathStep ==
  ASSUME Searchable, NEW lab, Labels(lab), QueryWalk(lab), DescendPathNode, UNCHANGED vars
  PROVE  QueryWalk(lab)' /\ (ChildByteInPattern /\ Complete(lab) => Complete(lab)')
<1>1. /\ Decided /\ ~ BothMatch /\ ~ Mismatch /\ heap[s.node].dim = "Path"
  BY DEF DescendPathNode
<1>2. PICK b \in PatternBytes :
        IF pm_state.desc_qpos_ # matcher!NoDescendant \/ b \in Axes
        THEN Push(Byte) ELSE Push({b})
  BY DEF DescendPathNode
<1>3. ~ IsLeaf
  BY <1>1 DEF IsLeaf
<1>4. /\ Current(lab) /\ WalkType /\ match_pat # "calling"
      /\ \A c : Covers(lab, s.node, c) =>
           Knows(c.path, key.path, s.len_pat, pm_state, match_pat)
  BY <1>1, DecidedFacts
<1>5. CASE Push(Byte)
  <2>1. /\ QueryWalk(lab)' /\ UNCHANGED <<key, emitted>>
        /\ \A c : Pending(lab, c) =>
             \/ Pending(lab, c)'
             \/ /\ Covers(lab, s.node, c)
                /\ ByteAt(c, heap[s.node].dim, s.len_pat, s.len_val) \notin Byte
    BY <1>1, <1>3, <1>5, PushStep DEF Push
  <2>2. \A c : Covers(lab, s.node, c) => ByteAt(c, heap[s.node].dim, s.len_pat, s.len_val) \in Byte
    BY <1>3, <1>4, InnerFacts
  <2>3. Complete(lab) => Complete(lab)'
    BY <2>1, <2>2, NoneLeft
  <2> QED BY <2>1, <2>3
<1>6. CASE pm_state.desc_qpos_ = matcher!NoDescendant /\ b \notin Axes /\ Push({b})
  <2>1. /\ key.path \in Patterns /\ pm_state.qpos_ \in 0..Len(key.path)
    BY <1>4 DEF WalkType, SearchKey, PMState
  <2>2. Len(key.path) \in Nat
    BY <2>1, QueryAssumption
  <2>3. /\ PatternOK(key.path)
        /\ \A n \in 1..Len(key.path) : key.path[n] \in PathByte \cup {Wildcard, Descendant}
    BY <2>1, PatternFacts
  <2>4. pm_state.qpos_ < Len(key.path) =>
          b = key.path[pm_state.qpos_ + 1] /\ pm_state.qpos_ + 1 \in 1..Len(key.path)
    BY <2>1, <2>2 DEF PatternBytes
  <2>5. b \in Byte
    <3>1. CASE pm_state.qpos_ < Len(key.path)
      BY <1>6, <2>3, <2>4, <3>1, QueryAssumption DEF Axes
    <3>2. CASE ~ (pm_state.qpos_ < Len(key.path))
      BY <3>2 DEF PatternBytes
    <3> QED BY <3>1, <3>2
  <2>6. /\ QueryWalk(lab)' /\ UNCHANGED <<key, emitted>>
        /\ \A c : Pending(lab, c) =>
             \/ Pending(lab, c)'
             \/ /\ Covers(lab, s.node, c)
                /\ ByteAt(c, heap[s.node].dim, s.len_pat, s.len_val) \notin {b}
    BY <1>1, <1>3, <1>6, <2>5, PushStep DEF Push
  <2>7. ASSUME ChildByteInPattern, NEW c, Covers(lab, s.node, c), Qualifies(c)
        PROVE  ByteAt(c, heap[s.node].dim, s.len_pat, s.len_val) \in {b}
    <3>1. pm_state.qpos_ < Len(key.path) /\ pm_state.desc_qpos_ = -1
      BY <1>1, <1>6, <2>7 DEF ChildByteInPattern, matcher!NoDescendant
    <3>2. /\ c \in Key /\ s.len_pat \in Nat /\ s.len_pat < Len(c.path)
          /\ ByteAt(c, heap[s.node].dim, s.len_pat, s.len_val) = c.path[s.len_pat + 1]
      BY <1>1, <1>3, <1>4, <2>7, InnerFacts DEF HasByte, ByteAt
    <3>3. /\ WordOK(c.path) /\ Len(c.path) \in Nat
      BY <3>2, KeyRoom, KeyFacts
    <3>4. Knows(c.path, key.path, s.len_pat, pm_state, match_pat)
      BY <1>4, <2>7
    <3>5. match_pat = "INCOMPLETE"
      <4>1. match_pat # "MATCH"
        BY <3>2, <3>3, <3>4 DEF Knows
      <4> QED BY <1>1, <1>4, <3>4, <4>1 DEF Knows, Mismatch
    <3>6. b = key.path[pm_state.qpos_ + 1] /\ b # Wildcard /\ b # Descendant
      BY <1>6, <2>4, <3>1 DEF Axes
    <3>7. Matches(c.path, key.path)
      BY <2>7 DEF Qualifies
    <3>8. s.len_pat \in 0..Len(c.path)
      BY <3>2, <3>3
    <3>9. c.path[s.len_pat + 1] = key.path[pm_state.qpos_ + 1]
      BY <2>3, <3>1, <3>3, <3>4, <3>5, <3>6, <3>7, <3>8, OneByteFollows
    <3> QED BY <3>2, <3>6, <3>9
  <2>8. ChildByteInPattern /\ Complete(lab) => Complete(lab)'
    BY <2>6, <2>7, NoneLeft
  <2> QED BY <2>6, <2>8
<1> QED BY <1>2, <1>5, <1>6

LEMMA DescendValueStep ==
  ASSUME Searchable, NEW lab, Labels(lab), QueryWalk(lab), DescendValueNode, UNCHANGED vars
  PROVE  QueryWalk(lab)' /\ (Complete(lab) => Complete(lab)')
<1>1. /\ Decided /\ ~ BothMatch /\ ~ Mismatch /\ heap[s.node].dim = "Value"
      /\ Push(ScanLow..ScanHigh)
  BY DEF DescendValueNode
<1>2. ~ IsLeaf
  BY <1>1 DEF IsLeaf
<1>3. /\ Current(lab) /\ WalkType /\ s.node \in DOMAIN heap
      /\ Covers(lab, s.node, lab[s.node].key)
  BY <1>1, DecidedFacts
<1>4. /\ key.low \in Bounds /\ key.high \in Bounds /\ vl_pos \in Nat /\ vh_pos \in Nat
      /\ key.low \in Seq(Byte) /\ key.high \in Seq(Byte)
      /\ Len(key.low) \in Nat /\ Len(key.high) \in Nat
  BY <1>3, BoundsCompared, BoundFacts
<1>5. ASSUME NEW c, Covers(lab, s.node, c)
      PROVE  /\ c \in Key /\ c.value \in Seq(Byte) /\ s.len_val \in Nat /\ s.len_val < Len(c.value)
             /\ Len(c.value) \in Nat
             /\ Leaves(key.low, vl_pos, c) /\ Leaves(key.high, vh_pos, c)
             /\ ByteAt(c, heap[s.node].dim, s.len_pat, s.len_val) = c.value[s.len_val + 1]
             /\ c.value[s.len_val + 1] \in Byte
  BY <1>1, <1>2, <1>3, <1>5, InnerFacts, CoveredCompared DEF HasByte, ByteAt
\* A bound that agrees with the value so far goes on.
<1>6. /\ vl_pos = s.len_val => vl_pos < Len(key.low)
      /\ vh_pos = s.len_val => vh_pos < Len(key.high)
  <2> DEFINE k == lab[s.node].key
  <2>1. /\ k \in Key /\ s.len_val \in Nat /\ s.len_val < Len(k.value) /\ Len(k.value) \in Nat
        /\ Leaves(key.low, vl_pos, k) /\ Leaves(key.high, vh_pos, k)
    BY <1>3, <1>5
  <2> HIDE DEF k
  <2>2. ASSUME NEW b \in Bounds, NEW pos \in Nat, Leaves(b, pos, k), pos = s.len_val
        PROVE  pos < Len(b)
    <3>1. pos <= Len(b) /\ (\A i \in 1..pos : b[i] = k.value[i]) /\ Len(b) \in Nat
      BY <2>2, BoundFacts DEF Leaves, Shares
    <3>2. pos = Len(b) => b = k.value
      BY <2>1, <2>2, <3>1, BoundIsValue
    <3> QED BY <2>1, <2>2, <3>1, <3>2
  <2> QED BY <1>4, <2>1, <2>2
<1>7. ScanLow \in Nat /\ ScanHigh \in Int /\ ScanHigh <= MaxByte
  <2>1. vl_pos = s.len_val => key.low[vl_pos + 1] \in Byte
    BY <1>4, <1>6
  <2>2. vh_pos = s.len_val => key.high[vh_pos + 1] \in Byte
    BY <1>4, <1>6
  <2> QED BY <2>1, <2>2, ByteAssumption DEF ScanLow, ScanHigh, Byte
<1>8. ScanLow..ScanHigh \in SUBSET Byte
  BY <1>7, ByteAssumption DEF Byte
<1>9. /\ QueryWalk(lab)' /\ UNCHANGED <<key, emitted>>
      /\ \A c : Pending(lab, c) =>
           \/ Pending(lab, c)'
           \/ /\ Covers(lab, s.node, c)
              /\ ByteAt(c, heap[s.node].dim, s.len_pat, s.len_val) \notin ScanLow..ScanHigh
  BY <1>1, <1>2, <1>8, PushStep DEF Push
<1>10. ASSUME NEW c, Covers(lab, s.node, c), Qualifies(c)
       PROVE  ByteAt(c, heap[s.node].dim, s.len_pat, s.len_val) \in ScanLow..ScanHigh
  <2> DEFINE a == c.value
             l == key.low
             h == key.high
             n == s.len_val
             x == a[n + 1]
  <2>1. /\ a \in Seq(Byte) /\ n \in Nat /\ n < Len(a) /\ x \in Byte /\ Len(a) \in Nat
        /\ Leaves(l, vl_pos, c) /\ Leaves(h, vh_pos, c)
        /\ ByteAt(c, heap[s.node].dim, s.len_pat, s.len_val) = x
    BY <1>5, <1>10
  <2>2. x \in Nat /\ x <= MaxByte
    BY <2>1, ByteAssumption DEF Byte
  <2>3. LessOrEqual(l, a) /\ LessOrEqual(a, h)
    BY <1>10 DEF Qualifies
  <2>4. ASSUME x < ScanLow PROVE FALSE
    <3>1. vl_pos = n /\ x < l[n + 1]
      BY <2>2, <2>4 DEF ScanLow
    <3>2. n < Len(l) /\ \A i \in 1..n : a[i] = l[i]
      BY <1>6, <2>1, <3>1 DEF Leaves, Shares
    <3>3. l \in Seq(Byte)
      BY <1>4
    <3> HIDE DEF a, l, n
    <3> QED BY <2>1, <2>3, <3>1, <3>2, <3>3, OrderedAtOnce
  <2>5. ASSUME x > ScanHigh PROVE FALSE
    <3>1. vh_pos = n /\ h[n + 1] < x
      <4>1. vh_pos = n /\ h[n + 1] = ScanHigh
        <5>1. vh_pos # s.len_val => ScanHigh = MaxByte
          BY DEF ScanHigh
        <5>2. vh_pos = s.len_val => h[n + 1] = ScanHigh
          BY DEF ScanHigh
        <5> HIDE DEF x
        <5> QED BY <2>2, <2>5, <5>1, <5>2, ByteAssumption
      <4> HIDE DEF x, h, n
      <4> QED BY <1>7, <2>2, <2>5, <4>1
    <3>2. n < Len(h) /\ \A i \in 1..n : h[i] = a[i]
      BY <1>6, <2>1, <3>1 DEF Leaves, Shares
    <3>3. h \in Seq(Byte)
      BY <1>4
    <3> HIDE DEF a, h, n
    <3> QED BY <2>1, <2>3, <3>1, <3>2, <3>3, OrderedAtOnce
  <2> HIDE DEF x
  <2> QED BY <1>7, <2>1, <2>2, <2>4, <2>5
<1>11. Complete(lab) => Complete(lab)'
  BY <1>9, <1>10, NoneLeft
<1> QED BY <1>9, <1>11

-----------------------------------------------------------------------------
(* The invariants of the whole system                                       *)

\* Between two queries.
QueryIdle ==
  /\ qpc = "idle" /\ key = NoSearchKey /\ stack = <<>> /\ s = NoState
  /\ pm_state = matcher!InitialState /\ match_pat = "calling"
  /\ buf_pat = Zeros /\ buf_val = Zeros
  /\ emitted = [k \in Key |-> <<>>]

Querying == qpc \in {"pop", "match"} /\ pc = "idle"

\* The walk goes on as it should.
OnTheWay == \E lab : Labels(lab) /\ QueryWalk(lab)
AllFound == \E lab : Labels(lab) /\ QueryWalk(lab) /\ Complete(lab)

QInv == IInv /\ (QueryIdle \/ (Querying /\ OnTheWay))

\* Nothing has been missed.
QCompleteInv == IInv /\ (QueryIdle \/ (Querying /\ AllFound))

LEMMA ReadOnly ==
  ASSUME UNCHANGED vars
  PROVE  /\ IInv => IInv'
         /\ \A lab : Labels(lab) => Labels(lab)'
<1>1. IInv => IInv'
  BY DEF vars, IInv, TypeOK, Represents, Represented, Location, BKey
<1>2. \A lab : Labels(lab) => Labels(lab)'
  BY DEF Labels, vars
<1> QED BY <1>1, <1>2

LEMMA TrieLabels ==
  ASSUME IInv
  PROVE  /\ \E lab : Labels(lab)
         /\ HeapOK(heap) /\ content \in [Key -> Seq(Ref)]
<1>1. HeapOK(heap) /\ content \in [Key -> Seq(Ref)]
  BY DEF IInv, TypeOK, HeapOK
<1>2. PICK lab : Represented(lab)
  BY DEF IInv, Represents
<1> QED BY <1>1, <1>2 DEF Represented, Labels

LEMMA ZerosOK == Zeros \in [1..BufferSize -> Byte]
<1>1. 0 \in Byte
  BY ByteAssumption DEF Byte
<1> QED BY <1>1 DEF Zeros

LEMMA IdleFacts ==
  ASSUME QueryIdle
  PROVE  /\ pm_state \in PMState /\ emitted \in [Key -> Seq(Ref)]
         /\ buf_pat \in [1..BufferSize -> Byte] /\ buf_val \in [1..BufferSize -> Byte]
<1>1. Len(key.path) = 0
  BY DEF QueryIdle, NoSearchKey
<1>2. pm_state \in PMState
  BY <1>1, QueryAssumption
     DEF QueryIdle, PMState, Position, matcher!InitialState, matcher!NoDescendant
<1>3. <<>> \in Seq(Ref)
  OBVIOUS
<1> QED BY <1>2, <1>3, ZerosOK DEF QueryIdle

-----------------------------------------------------------------------------
(* Start and Finish                                                         *)

LEMMA StartStep ==
  ASSUME Searchable, IInv, QueryIdle, NEW k \in SearchKey, Start(k), UNCHANGED vars
  PROVE  (Querying /\ AllFound)'
<1> DEFINE m0 == matcher!InitialState
<1>0. PICK t : t = QState(root, "Path", 0, 0, 0, m0, 0, 0)
  OBVIOUS
<1>1. /\ qpc = "idle" /\ pc = "idle" /\ root # nullptr /\ key' = k /\ stack' = <<t>> /\ qpc' = "pop"
      /\ UNCHANGED <<s, pm_state, match_pat, buf_pat, buf_val, emitted>>
  BY <1>0 DEF Start
<1>2. PICK lab : Labels(lab)
  BY TrieLabels
<1>3. /\ root \in DOMAIN heap /\ lab[root].p = 0 /\ lab[root].v = 0
  BY <1>1, <1>2 DEF Labels, Labelled
<1>4. /\ heap' = heap /\ root' = root /\ content' = content /\ pc' = pc
  BY DEF vars
<1>5. /\ DOMAIN heap \subseteq Node /\ lab[root].key \in Key
  BY <1>2, <1>3, TrieLabels, LabelFacts DEF HeapOK, Labels
<1>6. m0 = At(0, 0, 0, -1)
  BY DEF matcher!InitialState, matcher!NoDescendant, At
<1>7. t \in StateRecord
  <2>1. /\ 0 \in Byte /\ 0 \in Nat /\ -1 \in Int /\ "Path" \in Dimension
    BY ByteAssumption DEF Byte, Dimension
  <2>2. At(0, 0, 0, -1) \in [ppos_ : Nat, qpos_ : Nat, desc_ppos_ : Nat, desc_qpos_ : Int]
    BY DEF At
  <2> QED BY <1>0, <1>3, <1>5, <1>6, <2>1, <2>2 DEF QState, StateRecord
<1>8. /\ t.node = root /\ t.len_pat = 0 /\ t.len_val = 0 /\ t.pm_state = m0
      /\ t.vl_pos = 0 /\ t.vh_pos = 0
  BY <1>0 DEF QState
<1>9. /\ Len(k.low) \in Nat /\ Len(k.high) \in Nat /\ k.path \in Patterns
  BY BoundFacts DEF SearchKey
<1>10. Waiting(lab, t)'
  <2>1. Entered(lab, t)'
    BY <1>4, <1>8 DEF Entered
  <2>2. Holds(lab[root].key, t)'
    BY <1>8 DEF Holds
  <2>3. Compared(lab[root].key, t)'
    BY <1>1, <1>8, <1>9 DEF Compared, Shares
  <2>4. ASSUME NEW c, Covers(lab, root, c)'
        PROVE  Knows(c.path, k.path, 0, m0, "INCOMPLETE")
    <3>1. c \in Key
      BY <2>4 DEF Covers
    <3> QED BY <1>6, <1>9, <3>1, KeyRoom, PatternFacts, KnowsAtFirst
  <2> QED BY <1>1, <1>3, <1>4, <1>7, <1>8, <2>1, <2>2, <2>3, <2>4 DEF Waiting
<1>11. WalkType'
  <2>1. stack' \in Seq(StateRecord)
    BY <1>1, <1>7
  <2>2. pm_state' \in PMState'
    <3>1. Len(k.path) \in Nat
      BY <1>9, QueryAssumption
    <3> QED BY <1>1, <3>1, QueryAssumption
        DEF QueryIdle, PMState, Position, matcher!InitialState, matcher!NoDescendant
  <2>3. s' = NoState
    BY <1>1 DEF QueryIdle
  <2>4. NoState' = NoState
    BY DEF NoState
  <2> QED BY <1>1, <1>3, <1>4, <2>1, <2>2, <2>3, <2>4, IdleFacts DEF WalkType
<1>12. Sound(lab)'
  BY <1>1 DEF Sound, QueryIdle
<1>13. DOMAIN stack' = {1} /\ stack'[1] = t
  BY <1>1
<1>14. QueryWalk(lab)'
  <2>1. (\A i \in DOMAIN stack : Waiting(lab, stack[i]))'
    BY <1>10, <1>13
  <2>2. (\A i, j \in DOMAIN stack : i < j => Before(lab, stack[i], stack[j]))'
    BY <1>13
  <2>3. qpc' # "match"
    BY <1>1
  <2> QED BY <1>11, <1>12, <2>1, <2>2, <2>3 DEF QueryWalk
<1>15. Complete(lab)'
  <2> SUFFICES ASSUME NEW c \in Key, (content[c] # <<>>)' PROVE Pending(lab, c)'
    BY DEF Complete
  <2>1. Agree(c, lab[root].key, lab[root].p, lab[root].v)
    BY <1>3, <1>5, KeyFacts DEF Agree
  <2>2. Covers(lab, root, c)'
    BY <1>4, <2>1 DEF Covers
  <2>3. PICK x : x = stack'[1]
    OBVIOUS
  <2>4. Covers(lab, x.node, c)'
    BY <1>4, <1>8, <1>13, <2>2, <2>3
  <2> QED BY <1>13, <2>3, <2>4 DEF Pending
<1>16. Labels(lab)'
  BY <1>2, ReadOnly
<1> QED BY <1>1, <1>4, <1>14, <1>15, <1>16 DEF Querying, AllFound

LEMMA QueryFinishStep == Finish => QueryIdle'
<1>1. NoState' = NoState
  BY DEF NoState
<1> QED BY <1>1 DEF Finish, QueryIdle, matcher!InitialState

-----------------------------------------------------------------------------
(* The steps between                                                        *)

\* No assertion fails.
LEMMA NoAbort ==
  ASSUME Searchable, NEW lab, Labels(lab), QueryWalk(lab), QueryAbort
  PROVE  FALSE
<1>1. Decided /\ ~ Mismatch /\ BothMatch # IsLeaf
  BY DEF QueryAbort
<1>2. BothMatch <=> IsLeaf
  BY <1>1, MatchIsLeaf
<1>3. BothMatch \in BOOLEAN /\ IsLeaf \in BOOLEAN
  BY DEF BothMatch, IsLeaf
<1> QED BY <1>1, <1>2, <1>3

WalkSteps ==
  \/ Pop \/ MatchPathPrefix \/ EmitMatch \/ Prune \/ DescendPathNode \/ DescendValueNode

LEMMA WalkStep ==
  ASSUME Searchable, NEW lab, Labels(lab), QueryWalk(lab), WalkSteps, UNCHANGED vars,
         content \in [Key -> Seq(Ref)]
  PROVE  /\ QueryWalk(lab)' /\ qpc' \in {"pop", "match"}
         /\ ChildByteInPattern /\ Complete(lab) => Complete(lab)'
<1>1. CASE Pop \/ MatchPathPrefix
  <2>1. QueryWalk(lab)' /\ \A k : Pending(lab, k)' <=> Pending(lab, k)
    BY <1>1, PopStep, MatchPathStep
  <2>2. UNCHANGED <<key, emitted>> /\ qpc' \in {"pop", "match"}
    BY <1>1 DEF Pop, MatchPathPrefix
  <2> QED BY <2>1, <2>2, KeepComplete
<1>2. CASE EmitMatch
  BY <1>2, EmitStep DEF EmitMatch
<1>3. CASE Prune
  BY <1>3, PruneStep DEF Prune
<1>4. CASE DescendPathNode
  <2>1. qpc' = "pop"
    BY <1>4 DEF DescendPathNode, Push
  <2> QED BY <1>4, <2>1, DescendPathStep
<1>5. CASE DescendValueNode
  <2>1. qpc' = "pop"
    BY <1>5 DEF DescendValueNode, Push
  <2> QED BY <1>5, <2>1, DescendValueStep
<1> QED BY <1>1, <1>2, <1>3, <1>4, <1>5 DEF WalkSteps

\* Only a query that runs takes these steps.
LEMMA StepsRun ==
  ASSUME QuerySteps
  PROVE  qpc \in {"pop", "match"} /\ (WalkSteps \/ QueryAbort \/ Finish)
BY DEF QuerySteps, WalkSteps, Pop, MatchPathPrefix, EmitMatch, Prune, DescendPathNode,
       DescendValueNode, QueryAbort, Finish, Decided

\* Nothing happens.
LEMMA StutterStep ==
  ASSUME NEW lab, QueryWalk(lab), UNCHANGED <<vars, qvars>>
  PROVE  QueryWalk(lab)' /\ (Complete(lab) => Complete(lab)')
<1>1. UNCHANGED <<vars, key, stack, s, pm_state, match_pat, buf_pat, buf_val, emitted, qpc>>
  BY DEF qvars
<1>2. \A n, k : Covers(lab, n, k)' <=> Covers(lab, n, k)
  BY <1>1, SameCovers
<1>3. \A k : Pending(lab, k)' <=> Pending(lab, k)
  BY <1>1, <1>2 DEF Pending
<1>4. WalkType'
  BY <1>1 DEF QueryWalk, WalkType, StateOK, PMState, NoState, vars
<1>5. (\A i \in DOMAIN stack : Waiting(lab, stack[i]))'
  <2> SUFFICES ASSUME NEW i \in DOMAIN stack PROVE Waiting(lab, stack[i])'
    BY <1>1
  <2>1. PICK u : u = stack[i]
    OBVIOUS
  <2>2. Waiting(lab, u)
    BY <2>1 DEF QueryWalk
  <2>3. Waiting(lab, u)'
    BY <1>1, <2>2, KeepWaiting
  <2> QED BY <1>1, <2>1, <2>3
<1>6. (\A i, j \in DOMAIN stack : i < j => Before(lab, stack[i], stack[j]))'
  BY <1>1 DEF QueryWalk
<1>7. (qpc = "match" => Current(lab) /\ \A i \in DOMAIN stack : Before(lab, stack[i], s))'
  <2>1. Current(lab) => Current(lab)'
    BY <1>1, <1>2 DEF Current, Holds, Compared, Shares, vars
  <2> QED BY <1>1, <2>1 DEF QueryWalk
<1>8. Sound(lab)' /\ (Complete(lab) => Complete(lab)')
  BY <1>1, <1>3, KeepSound, KeepComplete DEF QueryWalk
<1> QED BY <1>4, <1>5, <1>6, <1>7, <1>8 DEF QueryWalk

LEMMA StartsIdle == \A k \in SearchKey : Start(k) => qpc = "idle"
BY DEF Start

LEMMA QInvInit == QueryInit => QInv /\ QCompleteInv
<1> SUFFICES ASSUME QueryInit PROVE QInv /\ QCompleteInv
  OBVIOUS
<1>1. IInv
  BY InitInv DEF QueryInit
<1>2. QueryIdle
  BY DEF QueryInit, QueryIdle
<1> QED BY <1>1, <1>2 DEF QInv, QCompleteInv

\* Insertions between two queries.
LEMMA IdleStep ==
  ASSUME Searchable, IInv, QueryIdle, [Next]_vars, UNCHANGED qvars
  PROVE  IInv' /\ QueryIdle'
<1>1. IInv'
  BY SearchableFree, NextInv
<1>2. QueryIdle'
  BY DEF QueryIdle, qvars, NoState, matcher!InitialState
<1> QED BY <1>1, <1>2

LEMMA QInvNext ==
  ASSUME Searchable, QInv, [QueryNext]_<<vars, qvars>>
  PROVE  QInv'
<1>1. CASE QueryIdle
  <2>1. CASE UNCHANGED qvars /\ [Next]_vars
    BY <1>1, <2>1, IdleStep DEF QInv
  <2>2. ASSUME NEW k \in SearchKey, Start(k), UNCHANGED vars PROVE QInv'
    <3>1. (Querying /\ AllFound)' /\ IInv'
      BY <1>1, <2>2, StartStep, ReadOnly DEF QInv
    <3> QED BY <3>1 DEF QInv, AllFound, OnTheWay
  <2>3. ~ QuerySteps
    BY <1>1, StepsRun DEF QueryIdle
  <2> QED BY <2>1, <2>2, <2>3 DEF QueryNext, qvars, vars
<1>2. CASE Querying /\ OnTheWay
  <2>1. PICK lab : Labels(lab) /\ QueryWalk(lab)
    BY <1>2 DEF OnTheWay
  <2>2. ASSUME UNCHANGED vars
        PROVE  IInv' /\ Labels(lab)' /\ content \in [Key -> Seq(Ref)] /\ pc' = "idle"
    BY <1>2, <2>1, <2>2, ReadOnly, TrieLabels DEF QInv, Querying, vars
  <2>3. CASE WalkSteps /\ UNCHANGED vars
    BY <2>1, <2>2, <2>3, WalkStep DEF QInv, Querying, OnTheWay
  <2>4. CASE Finish /\ UNCHANGED vars
    BY <2>2, <2>4, QueryFinishStep DEF QInv
  <2>5. CASE UNCHANGED <<vars, qvars>>
    <3>1. QueryWalk(lab)' /\ qpc' = qpc
      BY <2>1, <2>5, StutterStep DEF qvars
    <3> QED BY <1>2, <2>2, <2>5, <3>1 DEF QInv, Querying, OnTheWay
  <2>6. ~ QueryAbort /\ \A k \in SearchKey : ~ Start(k)
    BY <1>2, <2>1, NoAbort, StartsIdle DEF Querying
  <2>7. qpc # "idle"
    BY <1>2 DEF Querying
  <2> QED BY <2>3, <2>4, <2>5, <2>6, <2>7, StepsRun DEF QueryNext
<1> QED BY <1>1, <1>2 DEF QInv

LEMMA QCompleteNext ==
  ASSUME Searchable, QCompleteInv, ChildByteInPattern, [QueryNext]_<<vars, qvars>>
  PROVE  QCompleteInv'
<1>1. CASE QueryIdle
  <2>1. CASE UNCHANGED qvars /\ [Next]_vars
    BY <1>1, <2>1, IdleStep DEF QCompleteInv
  <2>2. ASSUME NEW k \in SearchKey, Start(k), UNCHANGED vars PROVE QCompleteInv'
    BY <1>1, <2>2, StartStep, ReadOnly DEF QCompleteInv
  <2>3. ~ QuerySteps
    BY <1>1, StepsRun DEF QueryIdle
  <2> QED BY <2>1, <2>2, <2>3 DEF QueryNext, qvars, vars
<1>2. CASE Querying /\ AllFound
  <2>1. PICK lab : Labels(lab) /\ QueryWalk(lab) /\ Complete(lab)
    BY <1>2 DEF AllFound
  <2>2. ASSUME UNCHANGED vars
        PROVE  IInv' /\ Labels(lab)' /\ content \in [Key -> Seq(Ref)] /\ pc' = "idle"
    BY <1>2, <2>1, <2>2, ReadOnly, TrieLabels DEF QCompleteInv, Querying, vars
  <2>3. CASE WalkSteps /\ UNCHANGED vars
    BY <2>1, <2>2, <2>3, WalkStep DEF QCompleteInv, Querying, AllFound
  <2>4. CASE Finish /\ UNCHANGED vars
    BY <2>2, <2>4, QueryFinishStep DEF QCompleteInv
  <2>5. CASE UNCHANGED <<vars, qvars>>
    <3>1. QueryWalk(lab)' /\ Complete(lab)' /\ qpc' = qpc
      BY <2>1, <2>5, StutterStep DEF qvars
    <3> QED BY <1>2, <2>2, <2>5, <3>1 DEF QCompleteInv, Querying, AllFound
  <2>6. ~ QueryAbort /\ \A k \in SearchKey : ~ Start(k)
    BY <1>2, <2>1, NoAbort, StartsIdle DEF Querying
  <2>7. qpc # "idle"
    BY <1>2 DEF Querying
  <2> QED BY <2>3, <2>4, <2>5, <2>6, <2>7, StepsRun DEF QueryNext
<1> QED BY <1>1, <1>2 DEF QCompleteInv

-----------------------------------------------------------------------------
(* What follows from the invariants                                         *)

LEMMA QInvType ==
  ASSUME Searchable, QInv
  PROVE  QueryTypeOK
<1>1. CASE QueryIdle
  <2>1. DOMAIN stack = {}
    BY <1>1 DEF QueryIdle
  <2>2. /\ qpc = "idle" /\ key = NoSearchKey /\ s = NoState
    BY <1>1 DEF QueryIdle
  <2> QED BY <1>1, <2>1, <2>2, IdleFacts DEF QueryTypeOK
<1>2. CASE Querying /\ OnTheWay
  <2>1. PICK lab : Labels(lab) /\ QueryWalk(lab)
    BY <1>2 DEF OnTheWay
  <2>2. WalkType
    BY <2>1 DEF QueryWalk
  <2>3. \A i \in DOMAIN stack : StateOK(stack[i])
    BY <2>1, <2>2, WaitingOK DEF QueryWalk, WalkType
  <2>4. qpc \in {"idle", "pop", "match", "aborted"}
    BY <1>2 DEF Querying
  <2> QED BY <2>2, <2>3, <2>4 DEF WalkType, QueryTypeOK
<1> QED BY <1>1, <1>2 DEF QInv

LEMMA QInvBuffer ==
  ASSUME Searchable, QInv
  PROVE  BufferHoldsWay
<1> SUFFICES ASSUME NEW i \in DOMAIN stack, NEW t, t = stack[i], t.node # root
             PROVE  \E k \in Key :
                      /\ content[k] # <<>>
                      /\ t.len_pat <= Len(k.path) /\ t.len_val <= Len(k.value)
                      /\ SubSeq(buf_pat, 1, t.len_pat) = SubSeq(k.path, 1, t.len_pat)
                      /\ SubSeq(buf_val, 1, t.len_val) = SubSeq(k.value, 1, t.len_val)
                      /\ HasByte(k, t.parent_dimension, t.len_pat, t.len_val)
                      /\ ByteAt(k, t.parent_dimension, t.len_pat, t.len_val) = t.parent_byte
  BY DEF BufferHoldsWay
<1>1. Querying /\ OnTheWay
  BY DEF QInv, QueryIdle
<1>2. PICK lab : Labels(lab) /\ QueryWalk(lab)
  BY <1>1 DEF OnTheWay
<1>3. /\ WalkType /\ Waiting(lab, t)
  BY <1>2 DEF QueryWalk
<1>4. /\ t \in StateRecord /\ t.node \in DOMAIN heap /\ Entered(lab, t) /\ Holds(lab[t.node].key, t)
  BY <1>3 DEF Waiting
<1>5. StateOK(t)
  BY <1>2, <1>3, WaitingOK DEF WalkType
<1>6. PICK k : k = lab[t.node].key
  OBVIOUS
<1>7. /\ k \in Key /\ content[k] # <<>> /\ lab[t.node].p \in Nat /\ lab[t.node].v \in Nat
      /\ lab[t.node].p <= Len(k.path) /\ lab[t.node].v <= Len(k.value)
  BY <1>2, <1>4, <1>6, LabelFacts DEF Labels, LabelOK
<1>8. /\ t.len_pat \in Nat /\ t.len_val \in Nat /\ t.parent_dimension \in Dimension
      /\ t.len_pat <= BufferSize /\ t.len_val <= BufferSize
  BY <1>4, <1>5, QueryAssumption DEF StateRecord, StateOK, Position
<1>9. /\ lab[t.node].p = t.len_pat + PathStep(t.parent_dimension)
      /\ lab[t.node].v = t.len_val + ValueStep(t.parent_dimension)
      /\ ByteAt(k, t.parent_dimension, t.len_pat, t.len_val) = t.parent_byte
  BY <1>4, <1>6 DEF Entered
<1>10. /\ k.path \in Seq(Byte) /\ k.value \in Seq(Byte)
       /\ Len(k.path) \in Nat /\ Len(k.value) \in Nat
  BY <1>7, KeyFacts
<1>11. /\ t.len_pat <= Len(k.path) /\ t.len_val <= Len(k.value)
       /\ HasByte(k, t.parent_dimension, t.len_pat, t.len_val)
  BY <1>7, <1>8, <1>9, <1>10 DEF PathStep, ValueStep, HasByte, Dimension
<1>12. /\ buf_pat \in Seq(Byte) /\ Len(buf_pat) = BufferSize
       /\ buf_val \in Seq(Byte) /\ Len(buf_val) = BufferSize
  <2>1. BufferSize \in Nat
    BY QueryAssumption
  <2>2. buf_pat \in [1..BufferSize -> Byte] /\ buf_val \in [1..BufferSize -> Byte]
    BY <1>3 DEF WalkType
  <2> QED BY <2>1, <2>2
<1>13. /\ \A j \in 1..t.len_pat : buf_pat[j] = k.path[j]
       /\ \A j \in 1..t.len_val : buf_val[j] = k.value[j]
  BY <1>4, <1>6 DEF Holds
<1>14. /\ SubSeq(buf_pat, 1, t.len_pat) = SubSeq(k.path, 1, t.len_pat)
       /\ SubSeq(buf_val, 1, t.len_val) = SubSeq(k.value, 1, t.len_val)
  BY <1>8, <1>10, <1>11, <1>12, <1>13, SubSeqAgree
<1> QED BY <1>7, <1>9, <1>11, <1>14

LEMMA QInvLeaves == QInv => DecidedAtLeaves
BY DEF QInv, QueryIdle, Querying, DecidedAtLeaves

LEMMA CompleteExact ==
  ASSUME QCompleteInv
  PROVE  QueryExact
<1> SUFFICES ASSUME qpc = "pop", stack = <<>>
             PROVE  emitted = [k \in Key |-> IF Qualifies(k) THEN content[k] ELSE <<>>]
  BY DEF QueryExact
<1>1. AllFound
  BY DEF QCompleteInv, QueryIdle
<1>2. PICK lab : Labels(lab) /\ QueryWalk(lab) /\ Complete(lab)
  BY <1>1 DEF AllFound
<1>3. \A k : ~ Pending(lab, k)
  BY DEF Pending
<1>4. emitted \in [Key -> Seq(Ref)] /\ Sound(lab)
  BY <1>2 DEF QueryWalk, WalkType
<1>5. ASSUME NEW k \in Key PROVE emitted[k] = IF Qualifies(k) THEN content[k] ELSE <<>>
  <2>1. emitted[k] # <<>> => emitted[k] = content[k] /\ Qualifies(k)
    BY <1>4 DEF Sound
  <2>2. content[k] # <<>> /\ Qualifies(k) => emitted[k] = content[k]
    BY <1>2, <1>3 DEF Complete
  <2> QED BY <2>1, <2>2
<1> QED BY <1>4, <1>5

-----------------------------------------------------------------------------
(* Theorems                                                                 *)

\* Between the steps of a query every State belongs to a place in the trie.
LEMMA QInvCorrect ==
  ASSUME Searchable
  PROVE  QuerySpec => []QInv
<1>1. QueryInit => QInv
  BY QInvInit
<1>2. QInv /\ [QueryNext]_<<vars, qvars>> => QInv'
  BY QInvNext
<1> QED BY <1>1, <1>2, PTL DEF QuerySpec

\* The buffers have room for every way through the trie, and no State refers to
\* a freed node or to bytes that no way has written (query.cpp:103-125).
THEOREM QueryTypeCorrect ==
  ASSUME Searchable
  PROVE  QuerySpec => []QueryTypeOK
<1>1. QInv => QueryTypeOK
  BY QInvType
<1> QED BY <1>1, QInvCorrect, PTL

\* The bytes of the shared buffers that a State calls its own are those of the
\* keys below its node, whatever branches were evaluated since it was pushed
\* (query.cpp:103-125, 199-215, 234-259).
THEOREM BufferCorrect ==
  ASSUME Searchable
  PROVE  QuerySpec => []BufferHoldsWay
<1>1. QInv => BufferHoldsWay
  BY QInvBuffer
<1> QED BY <1>1, QInvCorrect, PTL

\* Both assertions of Execute hold: a State matches in both dimensions at a leaf
\* and nowhere else (query.cpp:53, 57).
THEOREM LeavesCorrect ==
  ASSUME Searchable
  PROVE  QuerySpec => []DecidedAtLeaves
<1>1. QInv => DecidedAtLeaves
  BY QInvLeaves
<1> QED BY <1>1, QInvCorrect, PTL

\* As long as the one child that is looked for is one that the pattern names, a
\* query emits the references of exactly the qualifying keys (query.cpp:30-69).
THEOREM QueryCorrect ==
  ASSUME Searchable
  PROVE  QuerySpec /\ []ChildByteInPattern => []QueryExact
<1>1. QueryInit => QCompleteInv
  BY QInvInit
<1>2. QCompleteInv /\ ChildByteInPattern /\ [QueryNext]_<<vars, qvars>> => QCompleteInv'
  BY QCompleteNext
<1>3. QCompleteInv => QueryExact
  BY CompleteExact
<1> QED BY <1>1, <1>2, <1>3, PTL DEF QuerySpec

-----------------------------------------------------------------------------
(* Patterns that go on                                                      *)

LEMMA TwoMembers ==
  ASSUME NEW S, IsFiniteSet(S), Cardinality(S) >= 2
  PROVE  \E a, b \in S : a # b
<1>1. S # {}
  BY FS_EmptySet
<1>2. PICK a \in S : TRUE
  BY <1>1
<1>3. IsFiniteSet(S \ {a}) /\ Cardinality(S \ {a}) = Cardinality(S) - 1
  BY <1>2, FS_RemoveElement
<1>4. Cardinality(S) \in Nat
  BY FS_CardinalityType
<1>5. S \ {a} # {}
  BY <1>3, <1>4, FS_EmptySet
<1> QED BY <1>2, <1>5

\* Behind the end of the pattern the matcher has cut all it was shown.
LEMMA PatternEnds ==
  ASSUME NEW w, NEW p, NEW len, NEW st, WordOK(w), PatternOK(p), len \in 0..Len(w),
         Knows(w, p, len, st, "INCOMPLETE"), st.desc_qpos_ = -1, ~ (st.qpos_ < Len(p))
  PROVE  /\ len \in Cuts(w, p)[Len(p)]
         /\ \A n \in 1..Len(p) : p[n] # Descendant
         /\ Len(p) > 0 => p[Len(p)] # Wildcard
<1> DEFINE i == st.ppos_
           q == st.qpos_
           x == st.desc_ppos_
<1>1. PICK g : Standing(w, p, i, q, x, -1, g)
  BY DEF Knows
<1>2. /\ i <= len
      /\ i >= len \/ x >= len
      /\ q > 0 /\ p[q] = Wildcard => i < len
  BY DEF Knows
<1>3. /\ Len(w) \in Nat /\ Len(w) >= 2 /\ Len(p) \in Nat /\ q = Len(p) /\ i \in Nat /\ x = 0
  BY <1>1, StandingFacts DEF Standing, Axis
<1> HIDE DEF i, q, x
<1>4. i = len
  BY <1>2, <1>3
<1>5. Cut(w, p, Len(p), g) /\ g[Len(p)] = len
  BY <1>1, <1>3, <1>4 DEF Standing, Here
<1>6. Len(p) \in 0..Len(p)
  BY <1>3
<1>7. len \in Cuts(w, p)[Len(p)]
  BY <1>3, <1>5, <1>6, CutsAreCuts
<1>8. \A n \in 1..Len(p) : p[n] # Descendant
  BY <1>1, <1>3 DEF Standing, Axis
<1> QED BY <1>2, <1>3, <1>4, <1>7, <1>8

\* An inner path node has two children, whose keys part behind what is shown.
LEMMA GoesOn ==
  ASSUME Searchable, PatternsGoOn, NEW lab, Labels(lab), QueryWalk(lab), FanOut
  PROVE  ChildByteInPattern
<1> SUFFICES ASSUME Decided, ~ BothMatch, ~ Mismatch, heap[s.node].dim = "Path",
                    pm_state.desc_qpos_ = -1, ~ (pm_state.qpos_ < Len(key.path))
             PROVE  FALSE
  BY DEF ChildByteInPattern, matcher!NoDescendant
<1>1. /\ Current(lab) /\ WalkType /\ s.node \in DOMAIN heap
      /\ \A c : Covers(lab, s.node, c) =>
           Knows(c.path, key.path, s.len_pat, pm_state, match_pat)
  BY DecidedFacts
<1>2. ~ IsLeaf
  BY DEF IsLeaf
<1> DEFINE Used == {b \in Byte : heap[s.node].children[b] # nullptr}
<1>3. IsFiniteSet(Used) /\ Cardinality(Used) >= 2
  <2>1. NrChildren(heap[s.node]) \in 2..Widths[heap[s.node].layout]
    BY <1>1 DEF FanOut
  <2>2. IsFiniteSet(Byte)
    BY ByteAssumption, FS_Interval DEF Byte
  <2>3. IsFiniteSet(Used)
    BY <2>2, FS_Subset
  <2> QED BY <2>1, <2>3 DEF NrChildren
<1>4. PICK b1, b2 \in Used : b1 # b2
  BY <1>3, TwoMembers
<1>5. ASSUME NEW b \in Used
      PROVE  \E k \in Key : /\ Covers(lab, s.node, k) /\ k.path \in Paths
                            /\ s.len_pat \in Nat /\ s.len_pat < Len(k.path)
                            /\ k.path[s.len_pat + 1] = b
  <2> DEFINE k == lab[Child(b)].key
  <2>1. b \in Byte /\ Child(b) # nullptr
    BY DEF Child
  <2>2. /\ Child(b) \in DOMAIN heap
        /\ ByteAt(k, heap[s.node].dim, s.len_pat, s.len_val) = b
        /\ \A c : Covers(lab, Child(b), c) => Covers(lab, s.node, c)
    BY <1>1, <2>1, ChildCovers
  <2>3. Covers(lab, s.node, k)
    BY <2>2, CoversLabel
  <2> HIDE DEF k
  <2>4. /\ k \in Key /\ s.len_pat \in Nat
        /\ HasByte(k, heap[s.node].dim, s.len_pat, s.len_val)
    BY <1>1, <1>2, <2>3, InnerFacts
  <2>5. k.path \in Paths
    BY <2>4, KeyFacts
  <2> QED BY <2>2, <2>3, <2>4, <2>5 DEF HasByte, ByteAt
<1>6. PICK k1 \in Key : /\ Covers(lab, s.node, k1) /\ k1.path \in Paths
                        /\ s.len_pat \in Nat /\ s.len_pat < Len(k1.path)
                        /\ k1.path[s.len_pat + 1] = b1
  BY <1>4, <1>5
<1>7. PICK k2 \in Key : /\ Covers(lab, s.node, k2) /\ k2.path \in Paths
                        /\ s.len_pat < Len(k2.path)
                        /\ k2.path[s.len_pat + 1] = b2
  BY <1>4, <1>5
<1> DEFINE n == s.len_pat
           p == key.path
           a == k1.path
           b == k2.path
<1>8. \A i \in 1..n : a[i] = b[i]
  <2>1. Holds(k1, s) /\ Holds(k2, s)
    BY <1>1, <1>6, <1>7, CurrentHolds
  <2> QED BY <2>1 DEF Holds
<1>9. /\ p \in Patterns /\ PatternOK(p) /\ WordOK(a)
      /\ Len(a) \in 0..BufferSize /\ BufferSize \in Nat
  BY <1>1, <1>6, PatternFacts, KeyRoom DEF WalkType, SearchKey
<1>10. match_pat = "INCOMPLETE" /\ Knows(a, p, n, pm_state, match_pat)
  <2>1. Knows(a, p, n, pm_state, match_pat)
    BY <1>1, <1>6
  <2>2. match_pat # "MATCH"
    BY <1>6, <1>9, <2>1 DEF Knows
  <2> QED BY <2>1, <2>2, DecidedFacts DEF Knows, Mismatch
<1>11. n \in 0..Len(a) /\ n \in 0..BufferSize
  BY <1>6, <1>9
<1>12. a[n + 1] # b[n + 1] /\ n < Len(a) /\ n < Len(b) /\ a \in Paths /\ b \in Paths
  BY <1>4, <1>6, <1>7
<1>13. ~ (pm_state.qpos_ < Len(p))
  OBVIOUS
<1> HIDE DEF n, p, a, b
<1>14. /\ n \in Cuts(a, p)[Len(p)]
       /\ \A i \in 1..Len(p) : p[i] # Descendant
       /\ Len(p) > 0 => p[Len(p)] # Wildcard
  BY <1>9, <1>10, <1>11, <1>13, PatternEnds
<1> QED BY <1>8, <1>9, <1>11, <1>12, <1>14 DEF PatternsGoOn

GoOnInv == QInv /\ FanOut

LEMMA GoOnInvCorrect ==
  ASSUME Searchable
  PROVE  QuerySpec => []GoOnInv
<1>1. QueryInit => GoOnInv
  BY QInvInit DEF QueryInit, Init, GoOnInv, FanOut
<1>2. ASSUME GoOnInv, [QueryNext]_<<vars, qvars>> PROVE GoOnInv'
  <2>1. QInv' /\ IInv
    BY <1>2, QInvNext DEF GoOnInv, QInv
  <2>2. [Next]_vars
    BY <1>2 DEF QueryNext
  <2>3. FanOut'
    BY <1>2, <2>1, <2>2, FanOutStep, SearchableFree DEF GoOnInv
  <2> QED BY <2>1, <2>3 DEF GoOnInv
<1> QED BY <1>1, <1>2, PTL DEF QuerySpec

\* "We are looking for exactly one child": no byte is read behind the pattern
\* if no pattern ends where two paths part (query.cpp:199-215).
THEOREM ChildByteCorrect ==
  ASSUME Searchable, PatternsGoOn
  PROVE  QuerySpec => []ChildByteInPattern
<1>1. ASSUME GoOnInv PROVE ChildByteInPattern
  <2>1. CASE QueryIdle
    BY <2>1 DEF QueryIdle, ChildByteInPattern, Decided
  <2>2. CASE OnTheWay
    BY <1>1, <2>2, GoesOn DEF OnTheWay, GoOnInv
  <2> QED BY <1>1, <2>1, <2>2 DEF GoOnInv, QInv
<1> QED BY <1>1, GoOnInvCorrect, PTL

\* At its end a query over such patterns has emitted every reference of every
\* qualifying key, under that key, once and in the order of insertion, and
\* nothing else (query.cpp:30-69).
THEOREM QueryExactCorrect ==
  ASSUME Searchable, PatternsGoOn
  PROVE  QuerySpec => []QueryExact
BY ChildByteCorrect, QueryCorrect, PTL

-----------------------------------------------------------------------------
(* Queries for integers                                                     *)

\* The encoded integers are ordered as the integers, and decoded to them.
LEMMA EncodedIntegers ==
  ASSUME IntegersAsked, NEW m \in SourceIntegers \cup SourceBounds,
         NEW n \in SourceIntegers \cup SourceBounds
  PROVE  LET a == encoder!EncodeInt(m)
             b == encoder!EncodeInt(n)
         IN  /\ a \in Seq(Byte) /\ Len(a) = ValueSize
             /\ m <= n <=> LessOrEqual(a, b)
             /\ m = n <=> a = b
             /\ encoder!DecodeInt(b) = n
<1> DEFINE B == MaxByte + 1
           u == TurnSign(Weight, B, m)
           v == TurnSign(Weight, B, n)
           d == Digits(Weight, B, u)
           e == Digits(Weight, B, v)
<1>1. /\ PlaceValues(Weight, B) /\ ValueSize = Len(Weight) /\ Len(Weight) \in Nat
      /\ B \in Nat /\ MaxByte \in Nat
  BY ByteAssumption DEF IntegersAsked, PlaceValues
<1>2. m \in SignedNumbers(Weight, B) /\ n \in SignedNumbers(Weight, B)
  BY DEF IntegersAsked, SignedNumbers, Half, encoder!kMsbMask, encoder!Modulus
<1>3. encoder!EncodeInt(m) = d /\ encoder!EncodeInt(n) = e
  BY DEF encoder!EncodeInt, encoder!BigEndian, encoder!Complement, encoder!kMsbMask,
         encoder!Modulus, Digits, TurnSign, Half
<1> HIDE DEF B
<1>4. /\ u \in Nat /\ u < Weight[1] * B /\ v \in Nat /\ v < Weight[1] * B
      /\ m \in Int /\ n \in Int
  BY <1>1, <1>2, TurnedFacts
<1>5. /\ m < n <=> LessBytes(d, e)
      /\ n < m <=> LessBytes(e, d)
      /\ m = n <=> d = e
  BY <1>1, <1>2, SignedOrder
<1>6. encoder!DecodeInt(e) = n
  <2>1. encoder!Unsigned(e) = v
    <3> HIDE DEF v
    <3> QED  BY <1>1, <1>4, DigitsSum DEF encoder!Unsigned, B
  <2>2. LET c == (v + Half(Weight, B)) % (Weight[1] * B)
        IN  n = IF c < Half(Weight, B) THEN c ELSE c - Weight[1] * B
    BY <1>1, <1>2, TurnedTwice
  <2> HIDE DEF v, e
  <2> QED  BY <2>1, <2>2 DEF encoder!DecodeInt, encoder!Signed, encoder!Complement,
                              encoder!kMsbMask, encoder!Modulus, Half, B
<1>7. ASSUME NEW x \in Nat, x < Weight[1] * B
      PROVE  Digits(Weight, B, x) \in Seq(Byte) /\ Len(Digits(Weight, B, x)) = ValueSize
  <2> DEFINE f == Digits(Weight, B, x)
  <2>1. f = [i \in 1..Len(Weight) |-> f[i]] /\ Len(f) = Len(Weight)
    BY <1>1 DEF Digits
  <2>2. \A i \in 1..Len(Weight) : f[i] \in 0..(B - 1)
    BY <1>1, <1>7, DigitFacts
  <2>3. 0..(B - 1) = Byte
    BY <1>1 DEF B, Byte
  <2> HIDE DEF f
  <2> QED  BY <1>1, <2>1, <2>2, <2>3 DEF f
<1>8. d \in Seq(Byte) /\ Len(d) = ValueSize /\ e \in Seq(Byte) /\ Len(e) = ValueSize
  BY <1>4, <1>7
<1> HIDE DEF u, v, d, e
<1>9. \A a, b \in {d, e} : LessBytes(a, b) => LessOrEqual(a, b) /\ ~LessOrEqual(b, a)
  <2> SUFFICES ASSUME NEW a \in {d, e}, NEW b \in {d, e}, LessBytes(a, b)
               PROVE  LessOrEqual(a, b) /\ ~LessOrEqual(b, a)
    OBVIOUS
  <2>1. a \in Seq(Byte) /\ b \in Seq(Byte) /\ Len(a) \in Nat /\ Len(b) \in Nat
    BY <1>8
  <2>2. PICK i \in 1..Len(a) : LessAt(a, b, i)
    BY DEF LessBytes
  <2> DEFINE k == i - 1
  <2>3. /\ k \in Nat /\ k < Len(a) /\ k < Len(b) /\ k + 1 = i
        /\ \A j \in 1..k : a[j] = b[j]
        /\ a[k + 1] < b[k + 1]
    BY <2>1, <2>2 DEF LessAt
  <2> HIDE DEF k
  <2> QED  BY <2>1, <2>3, OrderedAtOnce
<1>10. d = e => LessOrEqual(d, e)
  BY <1>8, OrderedSame
<1>11. m <= n <=> LessOrEqual(d, e)
  BY <1>4, <1>5, <1>9, <1>10
<1> QED  BY <1>3, <1>5, <1>6, <1>8, <1>11

\* Integers of one size can be searched for.
LEMMA IntegersSearchable ==
  ASSUME IntegersAsked
  PROVE  Searchable
<1>1. \A v \in Values \cup Bounds : v \in Seq(Byte) /\ Len(v) = ValueSize
  BY EncodedIntegers DEF IntegersAsked, Encoded
<1>2. ValueSize \in Nat /\ ValueSize > 0
  BY DEF IntegersAsked, PlaceValues
<1>3. PrefixFreeSet(Values \cup Bounds)
  <2> SUFFICES ASSUME NEW a \in Values \cup Bounds, NEW b \in Values \cup Bounds,
                      \A i \in 1..Len(a) : a[i] = b[i]
               PROVE  a = b
    BY DEF PrefixFreeSet
  <2> QED  BY <1>1, SeqEqual
<1>4. \A p \in Patterns : BehindAxis(p)
  BY DEF IntegersAsked
<1> QED  BY <1>1, <1>2, <1>3, <1>4 DEF Searchable

\* What the user of an index of integers is promised (cas.cpp:122): the bytes do
\* not show.  Every key on a matching path whose integer lies in the range, and
\* no other, is emitted, and the integer can be read back from it.
THEOREM IntegerQueryCorrect ==
  ASSUME IntegersAsked
  PROVE  QuerySpec => []IntegerQueryExact
<1>1. Searchable /\ PatternsGoOn
  BY IntegersSearchable DEF IntegersAsked
<1>2. QInv /\ QueryExact => IntegerQueryExact
  <2> SUFFICES ASSUME QInv, QueryExact, qpc = "pop", stack = <<>>,
                      NEW path \in Paths, NEW n \in SourceIntegers
               PROVE  LET k == [path |-> path, value |-> encoder!EncodeInt(n)]
                          asked == \E low, high \in SourceBounds :
                                     /\ key.low = encoder!EncodeInt(low) /\ low <= n
                                     /\ key.high = encoder!EncodeInt(high) /\ n <= high
                      IN  /\ emitted[k] = IF asked /\ Matches(path, key.path) THEN content[k] ELSE <<>>
                          /\ encoder!DecodeInt(k.value) = n
    BY DEF IntegerQueryExact
  <2> DEFINE k == [path |-> path, value |-> encoder!EncodeInt(n)]
             asked == \E low, high \in SourceBounds :
                        /\ key.low = encoder!EncodeInt(low) /\ low <= n
                        /\ key.high = encoder!EncodeInt(high) /\ n <= high
  <2>1. k \in Key /\ k.path = path /\ k.value = encoder!EncodeInt(n)
    BY DEF Key, IntegersAsked, Encoded
  <2>2. emitted[k] = IF Qualifies(k) THEN content[k] ELSE <<>>
    BY <2>1 DEF QueryExact
  <2>3. key \in SearchKey
    BY DEF QInv, QueryIdle, OnTheWay, QueryWalk, WalkType
  <2>4. PICK low \in SourceBounds : key.low = encoder!EncodeInt(low)
    BY <2>3 DEF SearchKey, IntegersAsked, Encoded
  <2>5. PICK high \in SourceBounds : key.high = encoder!EncodeInt(high)
    BY <2>3 DEF SearchKey, IntegersAsked, Encoded
  <2>6. \A l \in SourceBounds : key.low = encoder!EncodeInt(l) => l = low
    BY <2>4, EncodedIntegers
  <2>7. \A h \in SourceBounds : key.high = encoder!EncodeInt(h) => h = high
    BY <2>5, EncodedIntegers
  <2>8. asked <=> low <= n /\ n <= high
    BY <2>4, <2>5, <2>6, <2>7
  <2>9. /\ low <= n <=> LessOrEqual(key.low, k.value)
        /\ n <= high <=> LessOrEqual(k.value, key.high)
        /\ encoder!DecodeInt(k.value) = n
    BY <2>1, <2>4, <2>5, EncodedIntegers
  <2> HIDE DEF asked, k
  <2>10. Qualifies(k) <=> asked /\ Matches(path, key.path)
    BY <2>1, <2>8, <2>9 DEF Qualifies
  <2>11. /\ emitted[k] = IF asked /\ Matches(path, key.path) THEN content[k] ELSE <<>>
         /\ encoder!DecodeInt(k.value) = n
    BY <2>2, <2>9, <2>10
  <2> QED  BY <2>11 DEF k, asked
<1> QED  BY <1>1, <1>2, QInvCorrect, QueryExactCorrect, PTL
=============================================================================
