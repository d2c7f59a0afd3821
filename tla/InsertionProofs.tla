-------------------------- MODULE InsertionProofs --------------------------
(***************************************************************************)
(* For prefix-free keys and every choice of the constants: the trie always *)
(* represents the inserted keys (InsertionInv), hence the Locator finds    *)
(* exactly the stored keys, reads nothing out of range and rejects no key, *)
(* and the nodes form one tree in which every node fits its layout.  A walk *)
(* from the root reads the labels back, so the trie implements the abstract *)
(* index, and nr_keys_ is the number of references in it.                  *)
(*                                                                         *)
(* The first half holds lemmas on heaps, labels and keys, not on the       *)
(* state.  Every way in which an insertion changes the trie is put together *)
(* from five changes (a first leaf, a further reference, a leaf added to a *)
(* node, a node split by a new parent, a node moved to another address),   *)
(* and each of them keeps the trie labelled.                               *)
(***************************************************************************)
EXTENDS InsertionInv, LoopsProofs, FiniteSetTheorems, TLAPS

-----------------------------------------------------------------------------
(* Keys that agree                                                          *)

LEMMA KeyFacts ==
  ASSUME NEW k \in Key
  PROVE  /\ k.path \in Paths /\ k.value \in Values
         /\ k.path \in Seq(Byte) /\ k.value \in Seq(Byte)
         /\ Len(k.path) \in Nat /\ Len(k.value) \in Nat
         /\ k = [path |-> k.path, value |-> k.value]
<1>1. k.path \in Paths /\ k.value \in Values /\ k = [path |-> k.path, value |-> k.value]
  BY DEF Key
<1>2. k.path \in Seq(Byte) /\ k.value \in Seq(Byte)
  BY <1>1, KeyAssumption
<1> QED  BY <1>1, <1>2

LEMMA AgreeSym ==
  ASSUME NEW a, NEW b, NEW p, NEW v, Agree(a, b, p, v)
  PROVE  Agree(b, a, p, v)
BY DEF Agree

LEMMA AgreeRefl ==
  ASSUME NEW a, NEW p, NEW v, p <= Len(a.path), v <= Len(a.value)
  PROVE  Agree(a, a, p, v)
BY DEF Agree

LEMMA AgreeTrans ==
  ASSUME NEW a, NEW b, NEW c, NEW p, NEW v, Agree(a, b, p, v), Agree(b, c, p, v)
  PROVE  Agree(a, c, p, v)
BY DEF Agree

LEMMA AgreeMono ==
  ASSUME NEW a \in Key, NEW b \in Key, NEW p \in Nat, NEW v \in Nat, Agree(a, b, p, v),
         NEW q \in Nat, NEW w \in Nat, q <= p, w <= v
  PROVE  Agree(a, b, q, w)
<1>1. Len(a.path) \in Nat /\ Len(a.value) \in Nat /\ Len(b.path) \in Nat /\ Len(b.value) \in Nat
  BY KeyFacts
<1> QED  BY <1>1 DEF Agree

LEMMA AgreeStep ==
  ASSUME NEW a \in Key, NEW b \in Key, NEW p \in Nat, NEW v \in Nat, NEW d,
         Agree(a, b, p, v), HasByte(a, d, p, v), HasByte(b, d, p, v),
         ByteAt(a, d, p, v) = ByteAt(b, d, p, v)
  PROVE  Agree(a, b, p + PathStep(d), v + ValueStep(d))
<1>1. Len(a.path) \in Nat /\ Len(a.value) \in Nat /\ Len(b.path) \in Nat /\ Len(b.value) \in Nat
  BY KeyFacts
<1>2. CASE d = "Path"
  <2>1. \A i \in 1..(p + 1) : i \in 1..p \/ i = p + 1
    OBVIOUS
  <2>2. p + 1 <= Len(a.path) /\ p + 1 <= Len(b.path) /\ a.path[p + 1] = b.path[p + 1]
    BY <1>1, <1>2 DEF HasByte, ByteAt
  <2>3. PathStep(d) = 1 /\ ValueStep(d) = 0
    BY <1>2 DEF PathStep, ValueStep
  <2>4. Agree(a, b, p + 1, v + 0)
    BY <2>1, <2>2 DEF Agree
  <2> QED  BY <2>3, <2>4
<1>3. CASE d # "Path"
  <2>1. \A i \in 1..(v + 1) : i \in 1..v \/ i = v + 1
    OBVIOUS
  <2>2. v + 1 <= Len(a.value) /\ v + 1 <= Len(b.value) /\ a.value[v + 1] = b.value[v + 1]
    BY <1>1, <1>3 DEF HasByte, ByteAt
  <2>3. PathStep(d) = 0 /\ ValueStep(d) = 1
    BY <1>3 DEF PathStep, ValueStep
  <2>4. Agree(a, b, p + 0, v + 1)
    BY <2>1, <2>2 DEF Agree
  <2> QED  BY <2>3, <2>4
<1> QED  BY <1>2, <1>3

\* In a prefix-free set a key that agrees to its end is the same key.
LEMMA AgreeToEnd ==
  ASSUME PrefixFree, NEW a \in Key, NEW b \in Key, NEW p \in Nat, NEW v \in Nat,
         Agree(a, b, p, v)
  PROVE  /\ p = Len(a.path) => a.path = b.path
         /\ v = Len(a.value) => a.value = b.value
<1>1. /\ a.path \in Paths /\ b.path \in Paths /\ a.value \in Values /\ b.value \in Values
  BY KeyFacts
<1> QED  BY <1>1 DEF Agree, PrefixFree, PrefixFreeSet

-----------------------------------------------------------------------------
(* Heaps                                                                    *)

HeapOK(h) == DOMAIN h \subseteq Node /\ \A n \in DOMAIN h : h[n] \in NodeRecord

LEMMA NodeFacts ==
  ASSUME NEW n \in NodeRecord
  PROVE  /\ n.sep \in Nat /\ n.prefix \in Seq(Byte) /\ Len(n.prefix) \in Nat
         /\ n.sep <= Len(n.prefix) /\ Len(n.prefix) - n.sep \in Nat
         /\ n.dim \in Dimension \cup {"Leaf"}
         /\ n.children \in [Byte -> Node \cup {nullptr}]
         /\ n = [dim |-> n.dim, prefix |-> n.prefix, sep |-> n.sep,
                 children |-> n.children, layout |-> n.layout, refs |-> n.refs]
         /\ n.dim = "Leaf" => \A b \in Byte : n.children[b] = nullptr
         /\ n.dim = "Leaf" => n.refs \in Seq(Ref)
         /\ n.dim # "Leaf" => n \in InnerNode
<1>1. CASE n \in InnerNode
  BY <1>1 DEF NodeRecord, InnerNode, Dimension
<1>2. CASE n \in LeafNode
  BY <1>2 DEF NodeRecord, LeafNode, NoChildren
<1> QED  BY <1>1, <1>2 DEF NodeRecord

\* The positions at a node and behind its prefix.
LEMMA LabelFacts ==
  ASSUME NEW h, HeapOK(h), NEW ct, NEW rt, NEW lab, Labelled(h, ct, rt, lab),
         NEW n \in DOMAIN h
  PROVE  /\ lab[n].key \in Key /\ lab[n].p \in Nat /\ lab[n].v \in Nat
         /\ EndP(h, lab, n) \in Nat /\ EndV(h, lab, n) \in Nat
         /\ lab[n].p <= EndP(h, lab, n) /\ lab[n].v <= EndV(h, lab, n)
         /\ EndP(h, lab, n) <= Len(lab[n].key.path) /\ EndV(h, lab, n) <= Len(lab[n].key.value)
         /\ LabelOK(h, ct, lab, n)
<1>1. lab[n] \in Label /\ LabelOK(h, ct, lab, n)
  BY DEF Labelled
<1>2. h[n].sep \in Nat /\ Len(h[n].prefix) - h[n].sep \in Nat
  BY NodeFacts DEF HeapOK
<1>3. lab[n].key \in Key /\ lab[n].p \in Nat /\ lab[n].v \in Nat
  BY <1>1 DEF Label
<1>4. /\ lab[n].p + h[n].sep <= Len(lab[n].key.path)
      /\ lab[n].v + (Len(h[n].prefix) - h[n].sep) <= Len(lab[n].key.value)
  BY <1>1 DEF LabelOK, Spells
<1> QED  BY <1>1, <1>2, <1>3, <1>4 DEF EndP, EndV

\* Keys that agree in all a node has consumed have no conflict with it.
LEMMA AgreeNoConflict ==
  ASSUME NEW l, NEW m, l.p \in Nat, l.v \in Nat, Agree(l.key, m.key, l.p, l.v)
  PROVE  ~Conflict(l, m)
BY DEF Agree, Conflict, Differ

\* A difference is seen from both sides, and from a sequence that shares the
\* bytes up to it.
LEMMA DifferSym ==
  ASSUME NEW s, NEW t, NEW i \in Nat, NEW j \in Nat, Differ(s, t, i, j)
  PROVE  Differ(t, s, j, i)
<1>1. PICK x \in 1..i : x <= j /\ s[x] # t[x]
  BY DEF Differ
<1>2. x \in 1..j /\ x <= i /\ t[x] # s[x]
  BY <1>1
<1> QED  BY <1>2 DEF Differ

LEMMA ConflictSym ==
  ASSUME NEW l, NEW m, l.p \in Nat, l.v \in Nat, m.p \in Nat, m.v \in Nat, Conflict(l, m)
  PROVE  Conflict(m, l)
BY DifferSym DEF Conflict

\* A node that goes on from where another one stands keeps its conflicts.
LEMMA ConflictBelow ==
  ASSUME NEW l, NEW m, NEW k,
         l.p \in Nat, l.v \in Nat, m.p \in Nat, m.v \in Nat, k.p \in Nat, k.v \in Nat,
         Conflict(l, m), Agree(l.key, k.key, l.p, l.v), l.p <= k.p, l.v <= k.v
  PROVE  Conflict(k, m)
<1>1. CASE Differ(l.key.path, m.key.path, l.p, m.p)
  <2>1. PICK x \in 1..l.p : x <= m.p /\ l.key.path[x] # m.key.path[x]
    BY <1>1 DEF Differ
  <2>2. x \in 1..k.p /\ x <= m.p /\ k.key.path[x] # m.key.path[x]
    BY <2>1 DEF Agree
  <2> QED  BY <2>2 DEF Conflict, Differ
<1>2. CASE Differ(l.key.value, m.key.value, l.v, m.v)
  <2>1. PICK x \in 1..l.v : x <= m.v /\ l.key.value[x] # m.key.value[x]
    BY <1>2 DEF Differ
  <2>2. x \in 1..k.v /\ x <= m.v /\ k.key.value[x] # m.key.value[x]
    BY <2>1 DEF Agree
  <2> QED  BY <2>2 DEF Conflict, Differ
<1> QED  BY <1>1, <1>2 DEF Conflict

\* The descent is inevitable: below a node whose consumed bytes agree with a
\* stored key lies the leaf of that key.
LEMMA StoredIsBelow ==
  ASSUME NEW h, HeapOK(h), NEW ct, NEW rt, NEW lab, Labelled(h, ct, rt, lab),
         NEW n \in DOMAIN h, NEW k \in Key, ct[k] # <<>>,
         Agree(k, lab[n].key, lab[n].p, lab[n].v)
  PROVE  /\ Agree(k, lab[n].key, EndP(h, lab, n), EndV(h, lab, n))
         /\ h[n].dim = "Leaf" => k = lab[n].key
         /\ h[n].dim # "Leaf" =>
              /\ HasByte(k, h[n].dim, EndP(h, lab, n), EndV(h, lab, n))
              /\ h[n].children[ByteAt(k, h[n].dim, EndP(h, lab, n), EndV(h, lab, n))] # nullptr
<1>1. PICK l \in DOMAIN h : h[l].dim = "Leaf" /\ lab[l].key = k
  BY DEF Labelled
<1>2. CASE l = n
  <2>1. EndP(h, lab, n) <= Len(k.path) /\ EndV(h, lab, n) <= Len(k.value)
    BY <1>1, <1>2, LabelFacts
  <2> QED  BY <1>1, <1>2, <2>1, AgreeRefl
<1>3. CASE l # n
  <2>1. ~Conflict(lab[n], lab[l])
    BY <1>1, AgreeSym, AgreeNoConflict, LabelFacts
  <2>2. ~Below(h, lab, l, n)
    BY <1>1 DEF Below
  <2>3. Below(h, lab, n, l)
    BY <1>3, <2>1, <2>2 DEF Labelled, Apart
  <2>4. /\ h[n].dim # "Leaf"
        /\ Agree(k, lab[n].key, EndP(h, lab, n), EndV(h, lab, n))
        /\ h[n].children[ByteAt(k, h[n].dim, EndP(h, lab, n), EndV(h, lab, n))] # nullptr
    BY <1>1, <2>3, AgreeSym DEF Below
  <2>5. HasByte(k, h[n].dim, EndP(h, lab, n), EndV(h, lab, n))
    <3>1. /\ EndP(h, lab, n) + PathStep(h[n].dim) <= lab[l].p
          /\ EndV(h, lab, n) + ValueStep(h[n].dim) <= lab[l].v
      BY <2>3 DEF Below
    <3>2. /\ EndP(h, lab, n) \in Nat /\ EndV(h, lab, n) \in Nat
          /\ lab[l].p \in Nat /\ lab[l].v \in Nat
          /\ lab[l].p <= Len(k.path) /\ lab[l].v <= Len(k.value)
          /\ Len(k.path) \in Nat /\ Len(k.value) \in Nat
      BY <1>1, LabelFacts, KeyFacts DEF LabelOK
    <3> QED  BY <3>1, <3>2 DEF PathStep, ValueStep, HasByte
  <2> QED  BY <2>4, <2>5
<1> QED  BY <1>2, <1>3

-----------------------------------------------------------------------------
(* The changes of the heap.  Three of them make up every insertion: a leaf  *)
(* is added to a node, a node is split by a new parent with it as the only  *)
(* child, a node moves to another address.                                  *)

LEMMA NewLeafFacts ==
  ASSUME NEW k \in Key, NEW p \in 0..Len(k.path), NEW v \in 0..Len(k.value), NEW r \in Ref
  PROVE  LET leaf == NewLeaf(k, p, v, r) IN
         /\ leaf \in NodeRecord /\ leaf.dim = "Leaf" /\ leaf.refs = <<r>>
         /\ leaf.children = NoChildren
         /\ Spells(leaf, k, p, v)
         /\ p + leaf.sep = Len(k.path)
         /\ v + (Len(leaf.prefix) - leaf.sep) = Len(k.value)
<1> DEFINE leaf == NewLeaf(k, p, v, r)
           s == From(k.path, p)
           t == From(k.value, v)
<1>1. /\ k.path \in Seq(Byte) /\ k.value \in Seq(Byte)
      /\ Len(k.path) \in Nat /\ Len(k.value) \in Nat
  BY KeyFacts
<1>2. /\ s \in Seq(Byte) /\ Len(s) = Len(k.path) - p
      /\ \A x \in 1..(Len(k.path) - p) : s[x] = k.path[p + x]
  BY <1>1, FromCopy
<1>3. /\ t \in Seq(Byte) /\ Len(t) = Len(k.value) - v
      /\ \A x \in 1..(Len(k.value) - v) : t[x] = k.value[v + x]
  BY <1>1, FromCopy
<1>4. /\ leaf.dim = "Leaf" /\ leaf.prefix = s \o t /\ leaf.sep = Len(k.path) - p
      /\ leaf.children = NoChildren /\ leaf.layout = 0 /\ leaf.refs = <<r>>
      /\ leaf = [dim |-> "Leaf", prefix |-> s \o t, sep |-> Len(k.path) - p,
                 children |-> NoChildren, layout |-> 0, refs |-> <<r>>]
  BY DEF NewLeaf
<1> HIDE DEF leaf, s, t
<1>5. /\ s \o t \in Seq(Byte) /\ Len(s \o t) = Len(s) + Len(t)
      /\ \A x \in 1..Len(s) : (s \o t)[x] = s[x]
      /\ \A x \in 1..Len(t) : (s \o t)[Len(s) + x] = t[x]
  <2>1. s \in Seq(Byte) /\ t \in Seq(Byte)
    BY <1>2, <1>3
  <2> QED  BY <2>1, Concatenation
<1>6. leaf \in NodeRecord
  <2>1. <<r>> \in Seq(Ref) /\ Len(k.path) - p \in Nat /\ Len(k.path) - p <= Len(s \o t)
    BY <1>1, <1>2, <1>3, <1>5
  <2> QED  BY <1>4, <1>5, <2>1 DEF NodeRecord, LeafNode
<1>7. /\ p + leaf.sep = Len(k.path) /\ Len(leaf.prefix) - leaf.sep = Len(k.value) - v
      /\ v + (Len(leaf.prefix) - leaf.sep) = Len(k.value)
  BY <1>1, <1>2, <1>3, <1>4, <1>5
<1>8. Spells(leaf, k, p, v)
  <2>1. leaf.sep = Len(s) /\ Len(leaf.prefix) - leaf.sep = Len(t)
    BY <1>2, <1>3, <1>4, <1>7
  <2>2. \A i \in 1..leaf.sep : leaf.prefix[i] = k.path[p + i]
    BY <1>2, <1>4, <1>5, <2>1
  <2>3. \A i \in 1..(Len(leaf.prefix) - leaf.sep) :
          leaf.prefix[leaf.sep + i] = k.value[v + i]
    BY <1>3, <1>4, <1>5, <2>1
  <2> QED  BY <1>1, <1>7, <2>2, <2>3 DEF Spells
<1> QED  BY <1>4, <1>6, <1>7, <1>8 DEF leaf

\* Node s with record x is added and becomes the child of n under byte b.
Linked(h, n, b, s, x) ==
  [m \in DOMAIN h \cup {s} |-> IF m = s THEN x
                               ELSE IF m = n THEN Put(h[n], b, s) ELSE h[m]]

With(lab, s, l) == [m \in DOMAIN lab \cup {s} |-> IF m = s THEN l ELSE lab[m]]

\* What adding a child leaves as it is.
IsLinked(h, h2, n, b, s, x) ==
  /\ DOMAIN h2 = DOMAIN h \cup {s} /\ h2[s] = x /\ HeapOK(h2)
  /\ \A m \in DOMAIN h :
       /\ h2[m].dim = h[m].dim /\ h2[m].prefix = h[m].prefix
       /\ h2[m].sep = h[m].sep /\ h2[m].refs = h[m].refs
       /\ \A c \in Byte : h2[m].children[c] =
                            IF m = n /\ c = b THEN s ELSE h[m].children[c]

LEMMA PutFacts ==
  ASSUME NEW z \in NodeRecord, z.dim # "Leaf", NEW b \in Byte, NEW s \in Node
  PROVE  /\ Put(z, b, s) \in NodeRecord
         /\ Put(z, b, s).dim = z.dim /\ Put(z, b, s).prefix = z.prefix
         /\ Put(z, b, s).sep = z.sep /\ Put(z, b, s).refs = z.refs
         /\ Put(z, b, s).layout = z.layout
         /\ \A c \in Byte : Put(z, b, s).children[c] = IF c = b THEN s ELSE z.children[c]
<1> DEFINE y == Put(z, b, s)
<1>1. z = [dim |-> z.dim, prefix |-> z.prefix, sep |-> z.sep,
           children |-> z.children, layout |-> z.layout, refs |-> z.refs]
  BY NodeFacts
<1>2. y = [z EXCEPT !.children[b] = s]
  BY DEF Put
<1> HIDE DEF y
<1>3. y = [dim |-> z.dim, prefix |-> z.prefix, sep |-> z.sep,
           children |-> [z.children EXCEPT ![b] = s],
           layout |-> z.layout, refs |-> z.refs]
  BY <1>1, <1>2
<1>4. z \in InnerNode /\ z.sep <= Len(z.prefix) /\ z.children \in [Byte -> Node \cup {nullptr}]
  BY NodeFacts
<1>5. y \in NodeRecord
  BY <1>3, <1>4 DEF NodeRecord, InnerNode
<1>6. \A c \in Byte : y.children[c] = IF c = b THEN s ELSE z.children[c]
  BY <1>3, <1>4
<1>7. /\ y.dim = z.dim /\ y.prefix = z.prefix /\ y.sep = z.sep /\ y.refs = z.refs
      /\ y.layout = z.layout
  BY <1>3
<1> QED  BY <1>5, <1>6, <1>7 DEF y

LEMMA LinkedFacts ==
  ASSUME NEW h, HeapOK(h), NEW n \in DOMAIN h, h[n].dim # "Leaf", NEW b \in Byte,
         NEW s \in Node, s \notin DOMAIN h, NEW x \in NodeRecord
  PROVE  IsLinked(h, Linked(h, n, b, s, x), n, b, s, x)
<1> DEFINE h2 == Linked(h, n, b, s, x)
           y == Put(h[n], b, s)
<1>1. DOMAIN h2 = DOMAIN h \cup {s} /\ h2[s] = x /\ h2[n] = y
      /\ \A m \in DOMAIN h : m # n => h2[m] = h[m]
  BY DEF Linked
<1>2. h[n] \in NodeRecord
  BY DEF HeapOK
<1>3. /\ y \in NodeRecord
      /\ y.dim = h[n].dim /\ y.prefix = h[n].prefix /\ y.sep = h[n].sep /\ y.refs = h[n].refs
      /\ \A c \in Byte : y.children[c] = IF c = b THEN s ELSE h[n].children[c]
  BY <1>2, PutFacts
<1> HIDE DEF y, h2
<1>4. HeapOK(h2)
  BY <1>1, <1>3 DEF HeapOK
<1>5. IsLinked(h, h2, n, b, s, x)
  BY <1>1, <1>3, <1>4 DEF IsLinked
<1> QED  BY <1>5 DEF h2

\* A new key gets a leaf: its bytes agree with node n to the end of the prefix
\* and go on with a byte for which n has no child.
LEMMA AddLeafOK ==
  ASSUME NEW h, HeapOK(h), NEW ct \in [Key -> Seq(Ref)], NEW rt, NEW lab,
         Labelled(h, ct, rt, lab),
         NEW n \in DOMAIN h, h[n].dim # "Leaf", NEW k \in Key, ct[k] = <<>>,
         Agree(k, lab[n].key, EndP(h, lab, n), EndV(h, lab, n)),
         HasByte(k, h[n].dim, EndP(h, lab, n), EndV(h, lab, n)),
         NEW b, b = ByteAt(k, h[n].dim, EndP(h, lab, n), EndV(h, lab, n)),
         h[n].children[b] = nullptr,
         NEW s \in Node, s \notin DOMAIN h, NEW r \in Ref,
         NEW p, p = EndP(h, lab, n) + PathStep(h[n].dim),
         NEW v, v = EndV(h, lab, n) + ValueStep(h[n].dim)
  PROVE  LET h2 == Linked(h, n, b, s, NewLeaf(k, p, v, r))
             ct2 == [ct EXCEPT ![k] = Append(@, r)]
             lab2 == With(lab, s, [key |-> k, p |-> p, v |-> v])
         IN  Labelled(h2, ct2, rt, lab2) /\ HeapOK(h2) /\ b \in Byte
<1> DEFINE leaf == NewLeaf(k, p, v, r)
           h2 == Linked(h, n, b, s, leaf)
           ct2 == [ct EXCEPT ![k] = Append(@, r)]
           l == [key |-> k, p |-> p, v |-> v]
           lab2 == With(lab, s, l)
           D == DOMAIN h
           d == h[n].dim
           P == EndP(h, lab, n)
           V == EndV(h, lab, n)
<1>1. /\ P \in Nat /\ V \in Nat /\ p \in Nat /\ v \in Nat
      /\ Len(k.path) \in Nat /\ Len(k.value) \in Nat /\ p <= Len(k.path) /\ v <= Len(k.value)
      /\ p = P + PathStep(d) /\ v = V + ValueStep(d) /\ P <= p /\ V <= v
      /\ k.path \in Seq(Byte) /\ k.value \in Seq(Byte)
  <2>1. P \in Nat /\ V \in Nat
    BY LabelFacts
  <2>2. /\ Len(k.path) \in Nat /\ Len(k.value) \in Nat
        /\ k.path \in Seq(Byte) /\ k.value \in Seq(Byte)
    BY KeyFacts
  <2>3. P <= Len(k.path) /\ V <= Len(k.value)
    BY DEF Agree
  <2> QED  BY <2>1, <2>2, <2>3 DEF HasByte, PathStep, ValueStep
<1>2. b \in Byte
  BY <1>1 DEF ByteAt, HasByte
<1>3. /\ leaf \in NodeRecord /\ leaf.dim = "Leaf" /\ leaf.refs = <<r>>
      /\ leaf.children = NoChildren
      /\ Spells(leaf, k, p, v) /\ p + leaf.sep = Len(k.path)
      /\ v + (Len(leaf.prefix) - leaf.sep) = Len(k.value)
  BY <1>1, NewLeafFacts
<1> HIDE DEF leaf
<1>4. /\ DOMAIN h2 = D \cup {s} /\ h2[s] = leaf /\ HeapOK(h2)
      /\ \A m \in D : /\ h2[m].dim = h[m].dim /\ h2[m].prefix = h[m].prefix
                      /\ h2[m].sep = h[m].sep /\ h2[m].refs = h[m].refs
                      /\ \A c \in Byte : h2[m].children[c] =
                                           IF m = n /\ c = b THEN s ELSE h[m].children[c]
  <2>1. b \in Byte /\ leaf \in NodeRecord
    BY <1>2, <1>3
  <2>2. IsLinked(h, h2, n, b, s, leaf)
    BY <2>1, LinkedFacts
  <2> QED  BY <2>2 DEF IsLinked
<1>5. DOMAIN lab = D /\ lab2 = [m \in D \cup {s} |-> IF m = s THEN l ELSE lab[m]]
  BY DEF Labelled, With
<1>6. lab2[s] = l /\ \A m \in D : lab2[m] = lab[m]
  BY <1>5
<1>7. l \in Label /\ l.key = k /\ l.p = p /\ l.v = v
  BY <1>1 DEF Label
<1>8. /\ ct2[k] # <<>> /\ ct2[k] = <<r>>
      /\ \A j \in Key : j # k => ct2[j] = ct[j]
  <2>1. ct2[k] = Append(ct[k], r)
    OBVIOUS
  <2>2. Append(<<>>, r) = <<r>>
    OBVIOUS
  <2> QED  BY <2>1, <2>2
<1> HIDE DEF h2, ct2, lab2, l, P, V
<1>9. /\ \A m \in D : EndP(h2, lab2, m) = EndP(h, lab, m) /\ EndV(h2, lab2, m) = EndV(h, lab, m)
      /\ EndP(h2, lab2, s) = Len(k.path) /\ EndV(h2, lab2, s) = Len(k.value)
  BY <1>3, <1>4, <1>6, <1>7 DEF EndP, EndV
<1>10. \A m \in D : lab[m].key \in Key /\ lab[m].key # k
  BY LabelFacts DEF LabelOK
<1>11. \A m \in D \cup {s} : LabelOK(h2, ct2, lab2, m)
  <2>1. ASSUME NEW m \in D  PROVE LabelOK(h2, ct2, lab2, m)
    <3>1. LabelOK(h, ct, lab, m)
      BY DEF Labelled
    <3>2. Spells(h2[m], lab2[m].key, lab2[m].p, lab2[m].v)
      BY <1>4, <1>6, <3>1 DEF LabelOK, Spells
    <3>3. EndOK(h2, ct2, lab2, m)
      BY <1>4, <1>6, <1>8, <1>9, <1>10, <3>1 DEF LabelOK, EndOK
    <3> QED  BY <1>6, <1>8, <1>10, <3>1, <3>2, <3>3 DEF LabelOK
  <2>2. LabelOK(h2, ct2, lab2, s)
    BY <1>1, <1>3, <1>4, <1>6, <1>7, <1>8, <1>9 DEF LabelOK, EndOK
  <2> QED  BY <2>1, <2>2
<1>12. \A m \in D \cup {s}, c \in Byte : h2[m].children[c] # nullptr =>
         /\ h2[m].children[c] \in D \cup {s}
         /\ ChildOK(h2, lab2, m, c, h2[m].children[c])
  <2>1. ASSUME NEW m \in D, NEW c \in Byte, h[m].children[c] # nullptr, ~(m = n /\ c = b)
        PROVE  h2[m].children[c] \in D /\ ChildOK(h2, lab2, m, c, h2[m].children[c])
    <3>1. h2[m].children[c] = h[m].children[c]
      BY <1>4, <2>1
    <3>2. h[m].children[c] \in D /\ ChildOK(h, lab, m, c, h[m].children[c])
      BY <2>1 DEF Labelled
    <3> QED  BY <1>4, <1>6, <1>9, <3>1, <3>2 DEF ChildOK
  <2>2. h2[n].children[b] = s /\ ChildOK(h2, lab2, n, b, s)
    <3>1. h2[n].children[b] = s
      BY <1>2, <1>4
    <3>2. Agree(lab[n].key, k, P, V)
      BY AgreeSym DEF P, V
    <3>3. HasByte(k, d, P, V) /\ ByteAt(k, d, P, V) = b
      BY DEF P, V
    <3> QED  BY <1>1, <1>4, <1>6, <1>7, <1>9, <3>1, <3>2, <3>3 DEF ChildOK, P, V
  <2>3. \A c \in Byte : h2[s].children[c] = nullptr
    BY <1>3, <1>4 DEF NoChildren
  <2> QED  BY <1>2, <1>4, <2>1, <2>2, <2>3
<1>13. \A m \in D : m # n => Apart(h, lab, n, m)
  BY DEF Labelled
\* A branch apart from n stays apart from the new leaf below n.
<1>14. Agree(k, lab[n].key, P, V) /\ lab[n].p <= P /\ lab[n].v <= V
       /\ lab[n].p \in Nat /\ lab[n].v \in Nat /\ lab[n].key \in Key
  BY LabelFacts DEF P, V
<1>15. Below(h2, lab2, n, s)
  <2>1. h2[n].children[b] = s /\ s # nullptr
    BY <1>2, <1>4, HeapAssumption
  <2>2. Agree(lab[n].key, k, P, V)
    BY AgreeSym DEF P, V
  <2> QED  BY <1>1, <1>4, <1>6, <1>7, <1>9, <2>1, <2>2 DEF Below, P, V
<1>16. ASSUME NEW m \in D, m # n  PROVE Apart(h2, lab2, m, s)
  <2>0. lab[m].p \in Nat /\ lab[m].v \in Nat /\ lab[m].key \in Key
        /\ EndP(h, lab, m) \in Nat /\ EndV(h, lab, m) \in Nat
    BY LabelFacts
  <2>1. CASE Conflict(lab[n], lab[m])
    <3>1. Agree(lab[n].key, k, lab[n].p, lab[n].v)
      BY <1>1, <1>14, AgreeSym, AgreeMono
    <3>2. lab[n].p <= p /\ lab[n].v <= v
      BY <1>1, <1>14
    <3>3. Conflict(lab[m], l)
      <4>1. /\ Agree(lab[n].key, l.key, lab[n].p, lab[n].v)
            /\ lab[n].p <= l.p /\ lab[n].v <= l.v /\ l.p \in Nat /\ l.v \in Nat
        BY <1>1, <1>7, <3>1, <3>2
      <4>2. Conflict(l, lab[m])
        BY <1>14, <2>0, <2>1, <4>1, ConflictBelow
      <4> QED  BY <2>0, <4>1, <4>2, ConflictSym
    <3> QED  BY <1>6, <3>3 DEF Apart
  <2>2. CASE Below(h, lab, m, n)
    <3> DEFINE e == h[m].dim
               Q == EndP(h, lab, m)
               W == EndV(h, lab, m)
    <3>1. /\ e # "Leaf" /\ Agree(lab[m].key, lab[n].key, Q, W)
          /\ Q + PathStep(e) <= lab[n].p /\ W + ValueStep(e) <= lab[n].v
          /\ h[m].children[ByteAt(lab[n].key, e, Q, W)] # nullptr
      BY <2>2 DEF Below
    <3>2. Q <= P /\ W <= V /\ Q + PathStep(e) <= P /\ W + ValueStep(e) <= V
          /\ Q \in Nat /\ W \in Nat
      <4>1. Q \in Nat /\ W \in Nat
        BY <2>0
      <4>2. PathStep(e) \in Nat /\ ValueStep(e) \in Nat
        BY DEF PathStep, ValueStep
      <4>3. P \in Nat /\ V \in Nat /\ lab[n].p \in Nat /\ lab[n].v \in Nat
            /\ lab[n].p <= P /\ lab[n].v <= V
        BY <1>1, <1>14
      <4>4. Q + PathStep(e) <= lab[n].p /\ W + ValueStep(e) <= lab[n].v
        BY <3>1
      <4> HIDE DEF Q, W, P, V, e
      <4>5. Q + PathStep(e) <= P /\ Q <= P
        BY <4>1, <4>2, <4>3, <4>4
      <4>6. W + ValueStep(e) <= V /\ W <= V
        BY <4>1, <4>2, <4>3, <4>4
      <4> QED  BY <4>1, <4>5, <4>6
    <3>3. Agree(lab[n].key, k, Q, W)
      BY <1>1, <1>14, <3>2, AgreeSym, AgreeMono
    <3>4. ByteAt(k, e, Q, W) = ByteAt(lab[n].key, e, Q, W)
      <4>1. e = "Path" => Q + 1 \in 1..P
        BY <1>1, <3>2 DEF PathStep
      <4>2. e # "Path" => W + 1 \in 1..V
        BY <1>1, <3>2 DEF ValueStep
      <4> QED  BY <1>14, <4>1, <4>2 DEF Agree, ByteAt
    <3>5. Agree(lab[m].key, k, Q, W)
      BY <3>1, <3>3, AgreeTrans
    <3>6. ByteAt(k, e, Q, W) \in Byte
      BY <1>1, <3>2, <3>3, <1>14 DEF ByteAt, PathStep, ValueStep, Agree
    <3>7. h2[m].children[ByteAt(k, e, Q, W)] # nullptr
      BY <1>4, <1>16, <3>1, <3>4, <3>6
    <3>8. Q + PathStep(e) <= p /\ W + ValueStep(e) <= v
      BY <1>1, <3>2 DEF PathStep, ValueStep
    <3> HIDE DEF e, Q, W
    <3>9. Below(h2, lab2, m, s)
      BY <1>4, <1>6, <1>7, <1>9, <3>1, <3>5, <3>7, <3>8 DEF Below, e, Q, W
    <3> QED  BY <3>9 DEF Apart
  <2>3. CASE Below(h, lab, n, m)
    <3>1. /\ Agree(lab[n].key, lab[m].key, P, V)
          /\ P + PathStep(d) <= lab[m].p /\ V + ValueStep(d) <= lab[m].v
          /\ h[n].children[ByteAt(lab[m].key, d, P, V)] # nullptr
      BY <2>3 DEF Below, P, V
    <3>2. ByteAt(lab[m].key, d, P, V) # ByteAt(k, d, P, V)
      BY <3>1 DEF P, V
    <3>3. Conflict(lab[m], l)
      <4>1. CASE d = "Path"
        <5>1. P + 1 \in 1..lab[m].p /\ P + 1 <= p /\ lab[m].key.path[P + 1] # k.path[P + 1]
          BY <1>1, <2>0, <3>1, <3>2, <4>1 DEF ByteAt, PathStep
        <5> QED  BY <1>7, <5>1 DEF Conflict, Differ
      <4>2. CASE d # "Path"
        <5>1. V + 1 \in 1..lab[m].v /\ V + 1 <= v /\ lab[m].key.value[V + 1] # k.value[V + 1]
          BY <1>1, <2>0, <3>1, <3>2, <4>2 DEF ByteAt, ValueStep
        <5> QED  BY <1>7, <5>1 DEF Conflict, Differ
      <4> QED  BY <4>1, <4>2
    <3> QED  BY <1>6, <3>3 DEF Apart
  <2> QED  BY <1>13, <1>16, <2>1, <2>2, <2>3 DEF Apart
<1>17. ASSUME NEW x \in D, NEW y \in D, x # y  PROVE Apart(h2, lab2, x, y)
  <2>1. Apart(h, lab, x, y)
    BY <1>17 DEF Labelled
  <2>2. ASSUME NEW i \in D, NEW j \in D, Below(h, lab, i, j)  PROVE Below(h2, lab2, i, j)
    <3> DEFINE c == ByteAt(lab[j].key, h[i].dim, EndP(h, lab, i), EndV(h, lab, i))
    <3>1. c \in Byte
      <4>1. /\ lab[j].key \in Key /\ lab[j].p <= Len(lab[j].key.path)
            /\ lab[j].v <= Len(lab[j].key.value) /\ lab[j].p \in Nat /\ lab[j].v \in Nat
            /\ EndP(h, lab, i) \in Nat /\ EndV(h, lab, i) \in Nat
        BY LabelFacts DEF LabelOK
      <4>2. lab[j].key.path \in Seq(Byte) /\ lab[j].key.value \in Seq(Byte)
        BY <4>1, KeyFacts
      <4>3. /\ EndP(h, lab, i) + PathStep(h[i].dim) <= lab[j].p
            /\ EndV(h, lab, i) + ValueStep(h[i].dim) <= lab[j].v
        BY <2>2 DEF Below
      <4>4. CASE h[i].dim = "Path"
        <5>1. EndP(h, lab, i) + 1 \in 1..Len(lab[j].key.path)
          BY <4>1, <4>2, <4>3, <4>4 DEF PathStep
        <5> QED  BY <4>2, <4>4, <5>1 DEF ByteAt
      <4>5. CASE h[i].dim # "Path"
        <5>1. EndV(h, lab, i) + 1 \in 1..Len(lab[j].key.value)
          BY <4>1, <4>2, <4>3, <4>5 DEF ValueStep
        <5> QED  BY <4>2, <4>5, <5>1 DEF ByteAt
      <4> QED  BY <4>4, <4>5
    <3>2. h2[i].children[c] # nullptr
      BY <1>4, <2>2, <3>1, HeapAssumption DEF Below
    <3> QED  BY <1>4, <1>6, <1>9, <2>2, <3>2 DEF Below
  <2> QED  BY <1>6, <2>1, <2>2 DEF Apart
<1>18. \A x, y \in D \cup {s} : x # y => Apart(h2, lab2, x, y)
  <2>1. Apart(h2, lab2, n, s)
    BY <1>15 DEF Apart
  <2>2. \A m \in D : Apart(h2, lab2, m, s)
    BY <1>16, <2>1
  <2>3. \A m \in D : Apart(h2, lab2, s, m)
    <3>1. \A m \in D : lab[m].p \in Nat /\ lab[m].v \in Nat
      BY LabelFacts
    <3> QED  BY <1>1, <1>6, <1>7, <2>2, <3>1, ConflictSym DEF Apart
  <2> QED  BY <1>17, <2>2, <2>3
<1>19. \A j \in Key : ct2[j] # <<>> =>
         \E m \in D \cup {s} : h2[m].dim = "Leaf" /\ lab2[m].key = j
  <2>1. h2[s].dim = "Leaf" /\ lab2[s].key = k
    BY <1>3, <1>4, <1>6, <1>7
  <2>2. ASSUME NEW j \in Key, j # k, ct2[j] # <<>>
        PROVE  \E m \in D : h2[m].dim = "Leaf" /\ lab2[m].key = j
    <3>1. PICK m \in D : h[m].dim = "Leaf" /\ lab[m].key = j
      BY <1>8, <2>2 DEF Labelled
    <3> QED  BY <1>4, <1>6, <3>1
  <2> QED  BY <2>1, <2>2
<1>20. rt # nullptr /\ rt \in D /\ lab2[rt].p = 0 /\ lab2[rt].v = 0
  BY <1>6 DEF Labelled
<1>21. lab2 \in [D \cup {s} -> Label]
  BY <1>5, <1>7 DEF Labelled
<1>22. \A m \in D \cup {s} : m # rt =>
         \E x \in D \cup {s}, c \in Byte : h2[x].children[c] = m
  <2>1. h2[n].children[b] = s
    BY <1>2, <1>4
  <2>2. ASSUME NEW m \in D, m # rt
        PROVE  \E x \in D, c \in Byte : h2[x].children[c] = m
    <3>1. PICK x \in D, c \in Byte : h[x].children[c] = m
      BY <2>2 DEF Labelled
    <3>2. m # nullptr
      BY HeapAssumption DEF HeapOK
    <3> QED  BY <1>4, <3>1, <3>2
  <2> QED  BY <1>2, <2>1, <2>2
<1>23. Labelled(h2, ct2, rt, lab2)
  BY <1>4, <1>11, <1>12, <1>18, <1>19, <1>20, <1>21, <1>22 DEF Labelled
<1> QED  BY <1>2, <1>4, <1>23 DEF h2, ct2, lab2, l, leaf

-----------------------------------------------------------------------------
(* The tree.  The positions of the labels grow from parent to child, so no  *)
(* node has two links, and none leads to the root.                          *)

LEMMA ChildFacts ==
  ASSUME NEW h, HeapOK(h), NEW ct, NEW rt, NEW lab, Labelled(h, ct, rt, lab),
         NEW n \in DOMAIN h, NEW b \in Byte, h[n].children[b] # nullptr,
         NEW c, c = h[n].children[b]
  PROVE  /\ c \in DOMAIN h /\ h[n].dim # "Leaf"
         /\ Agree(lab[n].key, lab[c].key, EndP(h, lab, n), EndV(h, lab, n))
         /\ lab[c].p = EndP(h, lab, n) + PathStep(h[n].dim)
         /\ lab[c].v = EndV(h, lab, n) + ValueStep(h[n].dim)
         /\ lab[c].p + lab[c].v = EndP(h, lab, n) + EndV(h, lab, n) + 1
         /\ ByteAt(lab[c].key, h[n].dim, EndP(h, lab, n), EndV(h, lab, n)) = b
         /\ HasByte(lab[c].key, h[n].dim, EndP(h, lab, n), EndV(h, lab, n))
<1>1. c \in DOMAIN h /\ ChildOK(h, lab, n, b, c)
  BY DEF Labelled
<1>2. h[n].dim # "Leaf"
  BY NodeFacts DEF HeapOK
<1>3. EndP(h, lab, n) \in Nat /\ EndV(h, lab, n) \in Nat
  BY LabelFacts
<1>4. PathStep(h[n].dim) + ValueStep(h[n].dim) = 1
      /\ PathStep(h[n].dim) \in Nat /\ ValueStep(h[n].dim) \in Nat
  BY DEF PathStep, ValueStep
<1>5. /\ Agree(lab[n].key, lab[c].key, EndP(h, lab, n), EndV(h, lab, n))
      /\ lab[c].p = EndP(h, lab, n) + PathStep(h[n].dim)
      /\ lab[c].v = EndV(h, lab, n) + ValueStep(h[n].dim)
      /\ ByteAt(lab[c].key, h[n].dim, EndP(h, lab, n), EndV(h, lab, n)) = b
      /\ HasByte(lab[c].key, h[n].dim, EndP(h, lab, n), EndV(h, lab, n))
  BY <1>1 DEF ChildOK
<1>6. lab[c].p + lab[c].v = EndP(h, lab, n) + EndV(h, lab, n) + 1
  BY <1>3, <1>4, <1>5
<1> QED  BY <1>1, <1>2, <1>5, <1>6

LEMMA OneLink ==
  ASSUME NEW h, HeapOK(h), NEW ct, NEW rt, NEW lab, Labelled(h, ct, rt, lab),
         NEW n \in DOMAIN h, NEW b \in Byte, NEW m \in DOMAIN h, NEW c \in Byte,
         h[n].children[b] # nullptr, h[m].children[c] = h[n].children[b]
  PROVE  n = m /\ b = c
<1> DEFINE x == h[n].children[b]
           P(z) == EndP(h, lab, z)
           V(z) == EndV(h, lab, z)
<1>1. x \in DOMAIN h
  BY ChildFacts
<1>2. /\ Agree(lab[n].key, lab[x].key, P(n), V(n))
      /\ lab[x].p + lab[x].v = P(n) + V(n) + 1
      /\ lab[x].p = P(n) + PathStep(h[n].dim) /\ lab[x].v = V(n) + ValueStep(h[n].dim)
      /\ ByteAt(lab[x].key, h[n].dim, P(n), V(n)) = b
  BY ChildFacts
<1>3. /\ Agree(lab[m].key, lab[x].key, P(m), V(m))
      /\ lab[x].p + lab[x].v = P(m) + V(m) + 1
      /\ lab[x].p = P(m) + PathStep(h[m].dim) /\ lab[x].v = V(m) + ValueStep(h[m].dim)
      /\ ByteAt(lab[x].key, h[m].dim, P(m), V(m)) = c
  BY ChildFacts
<1>4. /\ \A z \in DOMAIN h : /\ P(z) \in Nat /\ V(z) \in Nat /\ lab[z].key \in Key
                             /\ lab[z].p \in Nat /\ lab[z].v \in Nat
                             /\ lab[z].p <= P(z) /\ lab[z].v <= V(z)
  BY LabelFacts
<1>5. ASSUME NEW i \in {n, m}, NEW j \in {n, m}, i # j  PROVE ~Below(h, lab, i, j)
  <2>1. Below(h, lab, i, j) => P(i) + PathStep(h[i].dim) <= lab[j].p
                               /\ V(i) + ValueStep(h[i].dim) <= lab[j].v
    BY DEF Below
  <2>2. PathStep(h[i].dim) + ValueStep(h[i].dim) = 1
        /\ PathStep(h[i].dim) \in Nat /\ ValueStep(h[i].dim) \in Nat
    BY DEF PathStep, ValueStep
  <2>3. P(i) + V(i) = P(j) + V(j)
    BY <1>2, <1>3, <1>4
  <2> HIDE DEF P, V
  <2> QED  BY <1>4, <2>1, <2>2, <2>3
<1>6. ~Conflict(lab[n], lab[m])
  <2>1. lab[n].p <= P(n) /\ lab[n].v <= V(n) /\ lab[m].p <= P(m) /\ lab[m].v <= V(m)
    BY <1>4
  <2>2. /\ \A i \in 1..P(n) : lab[n].key.path[i] = lab[x].key.path[i]
        /\ \A i \in 1..V(n) : lab[n].key.value[i] = lab[x].key.value[i]
        /\ \A i \in 1..P(m) : lab[m].key.path[i] = lab[x].key.path[i]
        /\ \A i \in 1..V(m) : lab[m].key.value[i] = lab[x].key.value[i]
    BY <1>2, <1>3 DEF Agree
  <2> HIDE DEF P, V, x
  <2>3. \A i \in 1..lab[n].p : i <= lab[m].p => lab[n].key.path[i] = lab[m].key.path[i]
    BY <1>4, <2>1, <2>2
  <2>4. \A i \in 1..lab[n].v : i <= lab[m].v => lab[n].key.value[i] = lab[m].key.value[i]
    BY <1>4, <2>1, <2>2
  <2> QED  BY <2>3, <2>4 DEF Conflict, Differ
<1>7. n = m
  <2>1. n # m => ~Below(h, lab, n, m) /\ ~Below(h, lab, m, n)
    BY <1>5
  <2> QED  BY <1>6, <2>1 DEF Labelled, Apart
<1> QED  BY <1>2, <1>3, <1>7

\* The link that leads to n.
Hangs(h, rt, n, parent, b) ==
  IF parent = nullptr THEN n = rt
  ELSE parent \in DOMAIN h /\ b \in Byte /\ h[parent].children[b] = n

LEMMA HangsFacts ==
  ASSUME NEW h, HeapOK(h), NEW ct, NEW rt, NEW lab, Labelled(h, ct, rt, lab),
         NEW n \in DOMAIN h, NEW parent, NEW b, Hangs(h, rt, n, parent, b)
  PROVE  /\ parent # n /\ n # nullptr
         /\ parent # nullptr => n # rt
         /\ \A m \in DOMAIN h, c \in Byte :
              h[m].children[c] = n <=> parent # nullptr /\ m = parent /\ c = b
<1>1. n # nullptr
  BY HeapAssumption DEF HeapOK
<1>2. rt \in DOMAIN h /\ lab[rt].p = 0 /\ lab[rt].v = 0
  BY DEF Labelled
<1>3. \A m \in DOMAIN h, c \in Byte : h[m].children[c] # rt
  <2>1. SUFFICES ASSUME NEW m \in DOMAIN h, NEW c \in Byte, h[m].children[c] = rt
                 PROVE  FALSE
    OBVIOUS
  <2>2. rt # nullptr
    BY <1>2, HeapAssumption DEF HeapOK
  <2>3. lab[rt].p + lab[rt].v = EndP(h, lab, m) + EndV(h, lab, m) + 1
    BY <2>1, <2>2, ChildFacts
  <2>4. EndP(h, lab, m) \in Nat /\ EndV(h, lab, m) \in Nat
    BY LabelFacts
  <2> QED  BY <1>2, <2>3, <2>4
<1>4. CASE parent = nullptr
  BY <1>1, <1>3, <1>4 DEF Hangs
<1>5. CASE parent # nullptr
  <2>1. parent \in DOMAIN h /\ b \in Byte /\ h[parent].children[b] = n
    BY <1>5 DEF Hangs
  <2>2. n # rt
    BY <1>3, <2>1
  <2>3. \A m \in DOMAIN h, c \in Byte : h[m].children[c] = n => m = parent /\ c = b
    BY <1>1, <2>1, OneLink
  <2>4. parent # n
    <3>1. /\ lab[n].p + lab[n].v = EndP(h, lab, parent) + EndV(h, lab, parent) + 1
      BY <1>1, <2>1, ChildFacts
    <3>2. /\ lab[n].p <= EndP(h, lab, n) /\ lab[n].v <= EndV(h, lab, n)
          /\ lab[n].p \in Nat /\ lab[n].v \in Nat
          /\ EndP(h, lab, n) \in Nat /\ EndV(h, lab, n) \in Nat
      BY LabelFacts
    <3> QED  BY <3>1, <3>2
  <2> QED  BY <1>1, <1>5, <2>1, <2>2, <2>3, <2>4
<1> QED  BY <1>4, <1>5

-----------------------------------------------------------------------------
(* A split: node x gives the matched part of its prefix, np path bytes and  *)
(* the value bytes up to nv, to a new parent and loses the byte behind it   *)
(* in dimension d.                                                          *)

UpperNode(x, np, nv, d, b, n) ==
  Put(NewNode4(d, SubSeq(x.prefix, 1, np) \o SubSeq(x.prefix, x.sep + 1, nv), np), b, n)

LowerNode(x, np, nv, d) ==
  LET p == np + PathStep(d)
      v == nv + ValueStep(d)
  IN  [x EXCEPT !.prefix = SubSeq(x.prefix, p + 1, x.sep) \o From(x.prefix, v),
                !.sep = Len(SubSeq(x.prefix, p + 1, x.sep))]

SplitAt(x, np, nv, d) ==
  /\ x \in NodeRecord /\ d \in Dimension
  /\ np \in 0..x.sep /\ nv \in x.sep..Len(x.prefix)
  /\ np + PathStep(d) <= x.sep /\ nv + ValueStep(d) <= Len(x.prefix)

LEMMA UpperFacts ==
  ASSUME NEW x, NEW np, NEW nv, NEW d, SplitAt(x, np, nv, d), NEW b \in Byte, NEW n \in Node,
         NEW k, NEW p \in Nat, NEW v \in Nat, Spells(x, k, p, v),
         Len(k.path) \in Nat, Len(k.value) \in Nat
  PROVE  LET u == UpperNode(x, np, nv, d, b, n) IN
         /\ u \in NodeRecord /\ u.dim = d /\ u.sep = np /\ Len(u.prefix) - u.sep = nv - x.sep
         /\ \A c \in Byte : u.children[c] = IF c = b THEN n ELSE nullptr
         /\ Spells(u, k, p, v)
<1> DEFINE S == x.sep
           L == Len(x.prefix)
           t == SubSeq(x.prefix, S + 1, nv)
           s == SubSeq(x.prefix, 1, np)
           w == NewNode4(d, s \o t, np)
           u == UpperNode(x, np, nv, d, b, n)
           M == nv - S
           K == Len(k.path)
           W == Len(k.value)
<1>0. x.prefix \in Seq(Byte)
  BY NodeFacts DEF SplitAt
<1>1. /\ L \in Nat /\ S \in Nat /\ S <= L
      /\ np \in Nat /\ nv \in Nat /\ np <= S /\ S <= nv /\ nv <= L
      /\ M \in Nat /\ S + M = nv
  BY NodeFacts DEF SplitAt
<1>2. /\ p + S <= K /\ v + (L - S) <= W /\ K \in Nat /\ W \in Nat
      /\ \A i \in 1..S : x.prefix[i] = k.path[p + i]
      /\ \A i \in 1..(L - S) : x.prefix[S + i] = k.value[v + i]
  BY DEF Spells
<1>3. /\ u = [w EXCEPT !.children[b] = n]
      /\ w = [dim |-> d, prefix |-> s \o t, sep |-> np, children |-> NoChildren,
              layout |-> 1, refs |-> <<>>]
  BY DEF UpperNode, NewNode4, Put
<1>4. s \in Seq(Byte) /\ Len(s) = np /\ \A i \in 1..np : s[i] = x.prefix[i]
  <2> HIDE DEF S, M
  <2>1. 0 \in 0..L /\ np \in 0..L
    BY <1>1
  <2>2. /\ SubSeq(x.prefix, 0 + 1, np) \in Seq(Byte)
        /\ Len(SubSeq(x.prefix, 0 + 1, np)) = np - 0
        /\ \A i \in 1..(np - 0) : SubSeq(x.prefix, 0 + 1, np)[i] = x.prefix[0 + i]
    BY <1>0, <2>1, RangeCopy
  <2> HIDE DEF L
  <2> QED  BY <1>1, <2>2
<1>5. t \in Seq(Byte) /\ Len(t) = M /\ \A i \in 1..M : t[i] = x.prefix[S + i]
  <2>1. S \in 0..L /\ nv \in S..L
    <3> HIDE DEF S, L, M
    <3> QED  BY <1>1
  <2> QED  BY <1>0, <2>1, RangeCopy
<1> HIDE DEF S, L, s, t, u, w, M, K, W
<1>6. /\ s \o t \in Seq(Byte) /\ Len(s \o t) = np + M
      /\ \A i \in 1..np : (s \o t)[i] = s[i]
      /\ \A i \in 1..M : (s \o t)[np + i] = t[i]
  <2>1. s \in Seq(Byte) /\ t \in Seq(Byte)
    BY <1>4, <1>5
  <2>2. /\ s \o t \in Seq(Byte) /\ Len(s \o t) = Len(s) + Len(t)
        /\ \A i \in 1..Len(s) : (s \o t)[i] = s[i]
        /\ \A i \in 1..Len(t) : (s \o t)[Len(s) + i] = t[i]
    BY <2>1, Concatenation
  <2> QED  BY <1>4, <1>5, <2>2
<1>7. u = [dim |-> d, prefix |-> s \o t, sep |-> np, children |-> [NoChildren EXCEPT ![b] = n],
           layout |-> 1, refs |-> <<>>]
  BY <1>3
<1>8. NoChildren \in [Byte -> Node \cup {nullptr}] /\ \A c \in Byte : NoChildren[c] = nullptr
  BY DEF NoChildren
<1>9. u \in NodeRecord
  <2>1. [NoChildren EXCEPT ![b] = n] \in [Byte -> Node \cup {nullptr}]
    BY <1>8
  <2>2. np <= Len(s \o t) /\ d \in Dimension /\ 1 \in 1..Len(Widths)
    BY <1>1, <1>6, WidthAssumption DEF SplitAt
  <2> QED  BY <1>1, <1>6, <1>7, <2>1, <2>2 DEF NodeRecord, InnerNode
<1>10. \A c \in Byte : u.children[c] = IF c = b THEN n ELSE nullptr
  BY <1>7, <1>8
<1>11. u.sep = np /\ u.dim = d /\ u.prefix = s \o t
  BY <1>7
<1>12. Len(u.prefix) - u.sep = M
  <2>1. Len(u.prefix) = np + M
    BY <1>6, <1>11
  <2> QED  BY <1>1, <1>11, <2>1
<1>13. Spells(u, k, p, v)
  <2>1. p + np <= K /\ v + M <= W
    BY <1>1, <1>2
  <2>2. \A i \in 1..np : u.prefix[i] = k.path[p + i]
    <3>1. TAKE i \in 1..np
    <3>2. i \in 1..S
      BY <1>1
    <3> QED  BY <1>2, <1>4, <1>6, <1>11, <3>2
  <2>3. \A i \in 1..M : u.prefix[np + i] = k.value[v + i]
    <3>1. TAKE i \in 1..M
    <3>2. i \in 1..(L - S)
      BY <1>1
    <3> QED  BY <1>2, <1>5, <1>6, <1>11, <3>2
  <2> QED  BY <1>11, <1>12, <2>1, <2>2, <2>3 DEF Spells, K, W
<1> QED  BY <1>9, <1>10, <1>11, <1>12, <1>13 DEF u, M, S

LEMMA LowerFacts ==
  ASSUME NEW x, NEW np, NEW nv, NEW d, SplitAt(x, np, nv, d),
         NEW k, NEW p \in Nat, NEW v \in Nat, Spells(x, k, p, v),
         Len(k.path) \in Nat, Len(k.value) \in Nat,
         NEW p2, p2 = p + np + PathStep(d), NEW v2, v2 = v + (nv - x.sep) + ValueStep(d)
  PROVE  LET y == LowerNode(x, np, nv, d) IN
         /\ y \in NodeRecord /\ y.dim = x.dim /\ y.refs = x.refs /\ y.children = x.children
         /\ p2 + y.sep = p + x.sep
         /\ v2 + (Len(y.prefix) - y.sep) = v + (Len(x.prefix) - x.sep)
         /\ Spells(y, k, p2, v2)
<1> DEFINE S == x.sep
           L == Len(x.prefix)
           i == np + PathStep(d)
           j == nv + ValueStep(d)
           s == SubSeq(x.prefix, i + 1, S)
           t == From(x.prefix, j)
           y == LowerNode(x, np, nv, d)
           A == S - i
           B == L - j
           K == Len(k.path)
           W == Len(k.value)
<1>0. x.prefix \in Seq(Byte)
  BY NodeFacts DEF SplitAt
<1>1. /\ L \in Nat /\ S \in Nat /\ i \in Nat /\ j \in Nat
      /\ i <= S /\ S <= j /\ j <= L
      /\ p2 = p + i /\ v2 = v + (j - S)
  <2>1. L \in Nat /\ S \in Nat
    BY NodeFacts DEF SplitAt
  <2>2. np \in 0..S /\ nv \in S..L /\ i <= S /\ j <= L
    BY DEF SplitAt
  <2> DEFINE X == PathStep(d)
             Y == ValueStep(d)
  <2>3. X \in Nat /\ Y \in Nat
    BY DEF PathStep, ValueStep
  <2>4. p2 = p + np + X /\ v2 = v + (nv - S) + Y /\ i = np + X /\ j = nv + Y
    OBVIOUS
  <2> HIDE DEF S, L, X, Y, i, j
  <2>5. /\ np \in Nat /\ nv \in Nat /\ S <= nv /\ i \in Nat /\ j \in Nat
        /\ i <= S /\ S <= j /\ j <= L
    BY <2>1, <2>2, <2>3, <2>4
  <2> QED  BY <2>1, <2>3, <2>4, <2>5
<1>2. /\ p + S <= K /\ v + (L - S) <= W /\ K \in Nat /\ W \in Nat
      /\ \A a \in 1..S : x.prefix[a] = k.path[p + a]
      /\ \A a \in 1..(L - S) : x.prefix[S + a] = k.value[v + a]
  BY DEF Spells
<1>3. y = [x EXCEPT !.prefix = s \o t, !.sep = Len(s)]
  BY DEF LowerNode
<1>4. x = [dim |-> x.dim, prefix |-> x.prefix, sep |-> x.sep,
           children |-> x.children, layout |-> x.layout, refs |-> x.refs]
  BY NodeFacts DEF SplitAt
<1> HIDE DEF i, j
<1>5. s \in Seq(Byte) /\ Len(s) = A /\ \A a \in 1..A : s[a] = x.prefix[i + a]
  <2>1. i \in 0..L /\ S \in i..L
    <3> HIDE DEF S, L, A, B
    <3> QED  BY <1>1
  <2> QED  BY <1>0, <2>1, RangeCopy
<1>6. t \in Seq(Byte) /\ Len(t) = B /\ \A a \in 1..B : t[a] = x.prefix[j + a]
  <2>1. j \in 0..L
    <3> HIDE DEF S, L, A, B
    <3> QED  BY <1>1
  <2> QED  BY <1>0, <2>1, FromCopy
<1> HIDE DEF s, t, y
<1>7. y = [dim |-> x.dim, prefix |-> s \o t, sep |-> Len(s),
           children |-> x.children, layout |-> x.layout, refs |-> x.refs]
  BY <1>3, <1>4
<1>8. S = x.sep /\ L = Len(x.prefix)
  OBVIOUS
<1> HIDE DEF S, L, K, W
<1>9. A \in Nat /\ B \in Nat
  BY <1>1
<1>10. /\ i + A = S /\ j + B = L
  BY <1>1
<1> HIDE DEF A, B
<1>11. /\ s \o t \in Seq(Byte) /\ Len(s \o t) = A + B
       /\ \A a \in 1..A : (s \o t)[a] = s[a]
       /\ \A a \in 1..B : (s \o t)[A + a] = t[a]
  <2>1. s \in Seq(Byte) /\ t \in Seq(Byte)
    BY <1>5, <1>6
  <2>2. /\ s \o t \in Seq(Byte) /\ Len(s \o t) = Len(s) + Len(t)
        /\ \A a \in 1..Len(s) : (s \o t)[a] = s[a]
        /\ \A a \in 1..Len(t) : (s \o t)[Len(s) + a] = t[a]
    BY <2>1, Concatenation
  <2> QED  BY <1>5, <1>6, <2>2
<1>12. y \in NodeRecord
  <2>1. Len(s) \in Nat /\ Len(s) <= Len(s \o t)
    BY <1>5, <1>9, <1>11
  <2>2. CASE x \in InnerNode
    BY <1>7, <1>11, <2>1, <2>2 DEF NodeRecord, InnerNode
  <2>3. CASE x \in LeafNode
    BY <1>7, <1>11, <2>1, <2>3 DEF NodeRecord, LeafNode
  <2> QED  BY <2>2, <2>3 DEF SplitAt, NodeRecord
<1>13. /\ y.dim = x.dim /\ y.refs = x.refs /\ y.children = x.children /\ y.prefix = s \o t
       /\ y.sep = A
  BY <1>5, <1>7
<1>14. Len(y.prefix) - y.sep = B
  <2>1. Len(y.prefix) = A + B
    BY <1>11, <1>13
  <2> QED  BY <1>9, <1>13, <2>1
<1>15. p2 + A = p + S /\ v2 + B = v + (L - S)
  BY <1>1, <1>9, <1>10
<1>16. Spells(y, k, p2, v2)
  <2>1. p2 + A <= K /\ v2 + B <= W
    BY <1>2, <1>15
  <2>2. \A a \in 1..A : y.prefix[a] = k.path[p2 + a]
    <3>1. TAKE a \in 1..A
    <3>2. i + a \in 1..S /\ p + (i + a) = p2 + a
      BY <1>1, <1>9, <1>10
    <3>3. x.prefix[i + a] = k.path[p + (i + a)]
      BY <1>2, <3>2
    <3> QED  BY <1>5, <1>11, <1>13, <3>2, <3>3
  <2>3. \A a \in 1..B : y.prefix[A + a] = k.value[v2 + a]
    <3>1. TAKE a \in 1..B
    <3>2. /\ (j - S) + a \in 1..(L - S) /\ S + ((j - S) + a) = j + a
          /\ v + ((j - S) + a) = v2 + a
      BY <1>1, <1>9, <1>10
    <3>3. x.prefix[S + ((j - S) + a)] = k.value[v + ((j - S) + a)]
      BY <1>2, <3>2
    <3> QED  BY <1>6, <1>11, <1>13, <3>2, <3>3
  <2> QED  BY <1>13, <1>14, <2>1, <2>2, <2>3 DEF Spells, K, W
<1>17. p2 + y.sep = p + x.sep /\ v2 + (Len(y.prefix) - y.sep) = v + (Len(x.prefix) - x.sep)
  BY <1>8, <1>13, <1>14, <1>15
<1> QED  BY <1>12, <1>13, <1>16, <1>17 DEF y

\* The new parent q with record u takes the place of n, whose record becomes y.
Split(h, n, q, parent, b, u, y) ==
  [m \in DOMAIN h \cup {q} |-> IF m = q THEN u ELSE IF m = n THEN y
                               ELSE IF m = parent THEN Put(h[m], b, q) ELSE h[m]]

IsSplit(h, h2, n, q, parent, b, u, y) ==
  /\ DOMAIN h2 = DOMAIN h \cup {q} /\ h2[q] = u /\ h2[n] = y /\ HeapOK(h2)
  /\ \A m \in DOMAIN h \ {n} :
       /\ h2[m].dim = h[m].dim /\ h2[m].prefix = h[m].prefix
       /\ h2[m].sep = h[m].sep /\ h2[m].refs = h[m].refs
       /\ \A c \in Byte : h2[m].children[c] =
                            IF m = parent /\ c = b THEN q ELSE h[m].children[c]

LEMMA SplitFacts ==
  ASSUME NEW h, HeapOK(h), NEW n \in DOMAIN h, NEW parent, NEW b,
         parent # nullptr => parent \in DOMAIN h /\ h[parent].dim # "Leaf" /\ b \in Byte,
         NEW q \in Node, q \notin DOMAIN h, NEW u \in NodeRecord, NEW y \in NodeRecord
  PROVE  IsSplit(h, Split(h, n, q, parent, b, u, y), n, q, parent, b, u, y)
<1> DEFINE h2 == Split(h, n, q, parent, b, u, y)
<1>1. /\ DOMAIN h2 = DOMAIN h \cup {q} /\ h2[q] = u /\ h2[n] = y
      /\ \A m \in DOMAIN h \ {n} :
           h2[m] = IF m = parent THEN Put(h[m], b, q) ELSE h[m]
  BY DEF Split
<1> HIDE DEF h2
<1>2. \A m \in DOMAIN h : m # nullptr /\ h[m] \in NodeRecord
  BY HeapAssumption DEF HeapOK
<1>3. ASSUME NEW m \in DOMAIN h \ {n}
      PROVE  /\ h2[m] \in NodeRecord
             /\ h2[m].dim = h[m].dim /\ h2[m].prefix = h[m].prefix
             /\ h2[m].sep = h[m].sep /\ h2[m].refs = h[m].refs
             /\ \A c \in Byte : h2[m].children[c] =
                                  IF m = parent /\ c = b THEN q ELSE h[m].children[c]
  <2>1. CASE m = parent
    <3>1. h[m] \in NodeRecord /\ h[m].dim # "Leaf" /\ b \in Byte /\ h2[m] = Put(h[m], b, q)
      BY <1>1, <1>2, <2>1
    <3> QED  BY <2>1, <3>1, PutFacts
  <2>2. CASE m # parent
    BY <1>1, <1>2, <2>2
  <2> QED  BY <2>1, <2>2
<1>4. HeapOK(h2)
  BY <1>1, <1>3 DEF HeapOK
<1>5. IsSplit(h, h2, n, q, parent, b, u, y)
  BY <1>1, <1>3, <1>4 DEF IsSplit
<1> QED  BY <1>5 DEF h2

LEMMA BelowByte ==
  ASSUME NEW h, HeapOK(h), NEW ct, NEW rt, NEW lab, Labelled(h, ct, rt, lab),
         NEW i \in DOMAIN h, NEW j \in DOMAIN h, Below(h, lab, i, j)
  PROVE  /\ HasByte(lab[j].key, h[i].dim, EndP(h, lab, i), EndV(h, lab, i))
         /\ ByteAt(lab[j].key, h[i].dim, EndP(h, lab, i), EndV(h, lab, i)) \in Byte
<1>1. /\ lab[j].key \in Key /\ lab[j].p <= Len(lab[j].key.path)
      /\ lab[j].v <= Len(lab[j].key.value) /\ lab[j].p \in Nat /\ lab[j].v \in Nat
      /\ EndP(h, lab, i) \in Nat /\ EndV(h, lab, i) \in Nat
  BY LabelFacts DEF LabelOK
<1>2. /\ lab[j].key.path \in Seq(Byte) /\ lab[j].key.value \in Seq(Byte)
      /\ Len(lab[j].key.path) \in Nat /\ Len(lab[j].key.value) \in Nat
  BY <1>1, KeyFacts
<1>3. /\ EndP(h, lab, i) + PathStep(h[i].dim) <= lab[j].p
      /\ EndV(h, lab, i) + ValueStep(h[i].dim) <= lab[j].v
  BY DEF Below
<1>4. CASE h[i].dim = "Path"
  <2>1. EndP(h, lab, i) + 1 \in 1..Len(lab[j].key.path)
    BY <1>1, <1>2, <1>3, <1>4 DEF PathStep
  <2>2. EndP(h, lab, i) < Len(lab[j].key.path)
    BY <1>1, <1>2, <2>1
  <2> QED  BY <1>2, <1>4, <2>1, <2>2 DEF ByteAt, HasByte
<1>5. CASE h[i].dim # "Path"
  <2>1. EndV(h, lab, i) + 1 \in 1..Len(lab[j].key.value)
    BY <1>1, <1>2, <1>3, <1>5 DEF ValueStep
  <2>2. EndV(h, lab, i) < Len(lab[j].key.value)
    BY <1>1, <1>2, <2>1
  <2> QED  BY <1>2, <1>5, <2>1, <2>2 DEF ByteAt, HasByte
<1> QED  BY <1>4, <1>5

SplitLabel(lab, n, q, l) ==
  [m \in DOMAIN lab \cup {q} |-> IF m = q THEN lab[n] ELSE IF m = n THEN l ELSE lab[m]]

\* The trie with the new parent stores the same keys; the parent takes over the
\* label of n, and n goes on behind the parent and its byte.
LEMMA SplitOK ==
  ASSUME NEW h, HeapOK(h), NEW ct, NEW rt, NEW lab, Labelled(h, ct, rt, lab),
         NEW n \in DOMAIN h, NEW parent, NEW b, Hangs(h, rt, n, parent, b),
         NEW q \in Node, q \notin DOMAIN h, NEW np, NEW nv, NEW d, SplitAt(h[n], np, nv, d)
  PROVE  LET P == lab[n].p + np
             V == lab[n].v + (nv - h[n].sep)
             p == P + PathStep(d)
             v == V + ValueStep(d)
             e == ByteAt(lab[n].key, d, P, V)
             h2 == Split(h, n, q, parent, b, UpperNode(h[n], np, nv, d, e, n),
                         LowerNode(h[n], np, nv, d))
             rt2 == IF parent = nullptr THEN q ELSE rt
             lab2 == SplitLabel(lab, n, q, [key |-> lab[n].key, p |-> p, v |-> v])
         IN  /\ Labelled(h2, ct, rt2, lab2) /\ HeapOK(h2)
             /\ q \in DOMAIN h2 /\ lab2[q] = lab[n] /\ h2[q].dim = d /\ e \in Byte
             /\ EndP(h2, lab2, q) = P /\ EndV(h2, lab2, q) = V
             /\ \A c \in Byte : h2[q].children[c] = IF c = e THEN n ELSE nullptr
<1> DEFINE D == DOMAIN h
           x == h[n]
           k == lab[n].key
           P == lab[n].p + np
           V == lab[n].v + (nv - h[n].sep)
           p == P + PathStep(d)
           v == V + ValueStep(d)
           e == ByteAt(lab[n].key, d, P, V)
           u == UpperNode(h[n], np, nv, d, e, n)
           y == LowerNode(h[n], np, nv, d)
           h2 == Split(h, n, q, parent, b, u, y)
           rt2 == IF parent = nullptr THEN q ELSE rt
           l == [key |-> lab[n].key, p |-> p, v |-> v]
           lab2 == SplitLabel(lab, n, q, l)
<1>1. /\ k \in Key /\ lab[n].p \in Nat /\ lab[n].v \in Nat
      /\ Len(k.path) \in Nat /\ Len(k.value) \in Nat
      /\ k.path \in Seq(Byte) /\ k.value \in Seq(Byte)
      /\ Spells(x, k, lab[n].p, lab[n].v) /\ ct[k] # <<>> /\ EndOK(h, ct, lab, n)
  BY LabelFacts, KeyFacts DEF LabelOK
<1>2. n \in Node /\ n # nullptr /\ q # nullptr /\ q # n
  BY HeapAssumption DEF HeapOK
<1>3. /\ y \in NodeRecord /\ y.dim = x.dim /\ y.refs = x.refs /\ y.children = x.children
      /\ p + y.sep = lab[n].p + x.sep
      /\ v + (Len(y.prefix) - y.sep) = lab[n].v + (Len(x.prefix) - x.sep)
      /\ Spells(y, k, p, v)
  BY <1>1, LowerFacts
<1> HIDE DEF y
<1>4. /\ P \in Nat /\ V \in Nat /\ p \in Nat /\ v \in Nat
      /\ lab[n].p <= P /\ lab[n].v <= V /\ P <= p /\ V <= v
      /\ p <= EndP(h, lab, n) /\ v <= EndV(h, lab, n)
      /\ p <= Len(k.path) /\ v <= Len(k.value)
      /\ HasByte(k, d, P, V)
  <2> DEFINE S == x.sep
             L == Len(x.prefix)
             X == PathStep(d)
             Y == ValueStep(d)
             a == lab[n].p
             w == lab[n].v
             K == Len(k.path)
             W == Len(k.value)
  <2>1. /\ S \in Nat /\ L \in Nat /\ np \in 0..S /\ nv \in S..L /\ np + X <= S /\ nv + Y <= L
    BY NodeFacts DEF SplitAt
  <2>2. X \in Nat /\ Y \in Nat /\ (d = "Path" => X = 1) /\ (d # "Path" => Y = 1)
    BY DEF PathStep, ValueStep
  <2>3. P = a + np /\ V = w + (nv - S) /\ p = P + X /\ v = V + Y
    OBVIOUS
  <2>4. a \in Nat /\ w \in Nat /\ K \in Nat /\ W \in Nat /\ a + S <= K /\ w + (L - S) <= W
    BY <1>1 DEF Spells
  <2>5. EndP(h, lab, n) = a + S /\ EndV(h, lab, n) = w + (L - S)
    BY DEF EndP, EndV
  <2>6. HasByte(k, d, P, V) = IF d = "Path" THEN P < K ELSE V < W
    BY DEF HasByte
  <2> HIDE DEF S, L, X, Y, a, w, K, W
  <2>7. np \in Nat /\ nv \in Nat /\ S <= nv /\ P \in Nat /\ V \in Nat /\ p \in Nat /\ v \in Nat
    BY <2>1, <2>2, <2>3, <2>4
  <2>8. /\ a <= P /\ w <= V /\ P <= p /\ V <= v /\ p <= a + S /\ v <= w + (L - S)
        /\ p <= K /\ v <= W
    BY <2>1, <2>2, <2>3, <2>4, <2>7
  <2>9. IF d = "Path" THEN P < K ELSE V < W
    BY <2>2, <2>3, <2>4, <2>7, <2>8
  <2> QED  BY <2>5, <2>6, <2>7, <2>8, <2>9 DEF a, w, K, W
<1>e. /\ p = P + PathStep(d) /\ v = V + ValueStep(d) /\ e = ByteAt(k, d, P, V)
      /\ P = lab[n].p + np /\ V = lab[n].v + (nv - x.sep)
  OBVIOUS
<1> HIDE DEF P, V, p, v
<1>5. e \in Byte
  <2>1. CASE d = "Path"
    <3>1. P + 1 \in 1..Len(k.path)
      BY <1>1, <1>4, <2>1 DEF HasByte
    <3> QED  BY <1>1, <2>1, <3>1 DEF ByteAt
  <2>2. CASE d # "Path"
    <3>1. V + 1 \in 1..Len(k.value)
      BY <1>1, <1>4, <2>2 DEF HasByte
    <3> QED  BY <1>1, <2>2, <3>1 DEF ByteAt
  <2> QED  BY <2>1, <2>2
<1>6. /\ u \in NodeRecord /\ u.dim = d /\ u.sep = np /\ Len(u.prefix) - u.sep = nv - x.sep
      /\ \A c \in Byte : u.children[c] = IF c = e THEN n ELSE nullptr
      /\ Spells(u, k, lab[n].p, lab[n].v)
  BY <1>1, <1>2, <1>5, UpperFacts
<1> HIDE DEF e, u
<1>7. /\ parent # n
      /\ parent # nullptr => n # rt /\ parent \in D /\ h[parent].dim # "Leaf" /\ b \in Byte
                             /\ h[parent].children[b] = n
      /\ \A m \in D, c \in Byte : h[m].children[c] = n <=> parent # nullptr /\ m = parent /\ c = b
  <2>1. /\ parent # n
        /\ parent # nullptr => n # rt
        /\ \A m \in D, c \in Byte :
             h[m].children[c] = n <=> parent # nullptr /\ m = parent /\ c = b
    BY HangsFacts
  <2>2. parent # nullptr => parent \in D /\ b \in Byte /\ h[parent].children[b] = n
    BY DEF Hangs
  <2>3. parent # nullptr => h[parent].dim # "Leaf"
    BY <1>2, <2>2, ChildFacts
  <2> QED  BY <2>1, <2>2, <2>3
<1>8. /\ DOMAIN h2 = D \cup {q} /\ h2[q] = u /\ h2[n] = y /\ HeapOK(h2)
      /\ \A m \in D \ {n} :
           /\ h2[m].dim = h[m].dim /\ h2[m].prefix = h[m].prefix
           /\ h2[m].sep = h[m].sep /\ h2[m].refs = h[m].refs
           /\ \A c \in Byte : h2[m].children[c] =
                                IF m = parent /\ c = b THEN q ELSE h[m].children[c]
  <2>1. IsSplit(h, h2, n, q, parent, b, u, y)
    BY <1>3, <1>6, <1>7, SplitFacts
  <2> QED  BY <2>1 DEF IsSplit
<1> HIDE DEF h2
<1>9. /\ lab2[q] = lab[n] /\ lab2[n] = l /\ \A m \in D \ {n} : lab2[m] = lab[m]
      /\ lab2 \in [D \cup {q} -> Label]
  <2>1. lab \in [D -> Label] /\ l \in Label
    BY <1>1, <1>4 DEF Labelled, Label
  <2> HIDE DEF l
  <2> QED  BY <1>2, <2>1 DEF SplitLabel
<1>10. l \in Label /\ l.key = k /\ l.p = p /\ l.v = v
  BY <1>1, <1>4 DEF Label
<1> HIDE DEF l, lab2, rt2
<1>11. /\ \A m \in D : /\ EndP(h2, lab2, m) = EndP(h, lab, m)
                       /\ EndV(h2, lab2, m) = EndV(h, lab, m)
                       /\ lab2[m].key = lab[m].key /\ h2[m].dim = h[m].dim
                       /\ h2[m].refs = h[m].refs
       /\ EndP(h2, lab2, q) = P /\ EndV(h2, lab2, q) = V /\ lab2[q].key = k /\ h2[q].dim = d
  <2>1. EndP(h2, lab2, n) = EndP(h, lab, n) /\ EndV(h2, lab2, n) = EndV(h, lab, n)
    BY <1>3, <1>8, <1>9, <1>10 DEF EndP, EndV
  <2>2. \A m \in D \ {n} : /\ EndP(h2, lab2, m) = EndP(h, lab, m)
                           /\ EndV(h2, lab2, m) = EndV(h, lab, m)
    BY <1>8, <1>9 DEF EndP, EndV
  <2>3. EndP(h2, lab2, q) = P /\ EndV(h2, lab2, q) = V
    BY <1>e, <1>6, <1>8, <1>9 DEF EndP, EndV
  <2> QED  BY <1>3, <1>6, <1>8, <1>9, <1>10, <2>1, <2>2, <2>3
<1>12. \A m \in D \cup {q} : LabelOK(h2, ct, lab2, m)
  <2>1. ASSUME NEW m \in D  PROVE EndOK(h2, ct, lab2, m) /\ ct[lab2[m].key] # <<>>
    <3>1. LabelOK(h, ct, lab, m)
      BY DEF Labelled
    <3> QED  BY <1>11, <3>1 DEF LabelOK, EndOK
  <2>2. \A m \in D \ {n} : LabelOK(h2, ct, lab2, m)
    <3>1. TAKE m \in D \ {n}
    <3>2. LabelOK(h, ct, lab, m)
      BY DEF Labelled
    <3>3. Spells(h2[m], lab2[m].key, lab2[m].p, lab2[m].v)
      BY <1>8, <1>9, <3>2 DEF LabelOK, Spells
    <3> QED  BY <1>9, <2>1, <3>2, <3>3 DEF LabelOK
  <2>3. LabelOK(h2, ct, lab2, n)
    BY <1>3, <1>4, <1>8, <1>9, <1>10, <2>1 DEF LabelOK
  <2>4. LabelOK(h2, ct, lab2, q)
    <3>1. EndOK(h2, ct, lab2, q)
      <4>1. d # "Leaf"
        BY DEF SplitAt, Dimension
      <4> QED  BY <1>4, <1>11, <4>1 DEF EndOK
    <3>2. lab[n].p <= Len(k.path) /\ lab[n].v <= Len(k.value)
      BY <1>1, <1>4
    <3> QED  BY <1>1, <1>6, <1>8, <1>9, <3>1, <3>2 DEF LabelOK
  <2> QED  BY <2>2, <2>3, <2>4
<1>13. \A m \in D \cup {q}, c \in Byte : h2[m].children[c] # nullptr =>
         /\ h2[m].children[c] \in D \cup {q}
         /\ ChildOK(h2, lab2, m, c, h2[m].children[c])
  <2>1. ASSUME NEW m \in D, NEW c \in Byte, h[m].children[c] # nullptr
        PROVE  h[m].children[c] \in D /\ ChildOK(h, lab, m, c, h[m].children[c])
    BY <2>1 DEF Labelled
  <2>2. ASSUME NEW m \in D, NEW c \in Byte, h[m].children[c] # nullptr,
               h[m].children[c] # n, h2[m].children[c] = h[m].children[c]
        PROVE  h2[m].children[c] \in D /\ ChildOK(h2, lab2, m, c, h2[m].children[c])
    <3> DEFINE o == h[m].children[c]
    <3>1. o \in D \ {n} /\ ChildOK(h, lab, m, c, o)
      BY <2>1, <2>2
    <3>2. lab2[o] = lab[o]
      BY <1>9, <3>1
    <3> HIDE DEF o
    <3>3. ChildOK(h2, lab2, m, c, o)
      BY <1>11, <3>1, <3>2 DEF ChildOK
    <3> QED  BY <2>2, <3>1, <3>3 DEF o
  <2>3. ASSUME NEW m \in D \ {n}, NEW c \in Byte, h2[m].children[c] # nullptr,
               ~(m = parent /\ c = b)
        PROVE  h2[m].children[c] \in D /\ ChildOK(h2, lab2, m, c, h2[m].children[c])
    BY <1>7, <1>8, <2>2, <2>3
  <2>4. ASSUME NEW c \in Byte, h2[n].children[c] # nullptr
        PROVE  h2[n].children[c] \in D /\ ChildOK(h2, lab2, n, c, h2[n].children[c])
    BY <1>3, <1>7, <1>8, <2>2, <2>4
  <2>5. ASSUME parent \in D \ {n}, parent # nullptr
        PROVE  h2[parent].children[b] = q /\ ChildOK(h2, lab2, parent, b, q)
    <3>1. h2[parent].children[b] = q
      BY <1>7, <1>8, <2>5
    <3>2. ChildOK(h, lab, parent, b, n)
      BY <1>2, <1>7, <2>1, <2>5
    <3> QED  BY <1>9, <1>11, <2>5, <3>1, <3>2 DEF ChildOK
  <2>6. ChildOK(h2, lab2, q, e, n)
    <3>1. Agree(k, k, P, V)
      BY <1>1, <1>4, AgreeRefl
    <3> QED  BY <1>e, <1>4, <1>9, <1>10, <1>11, <3>1 DEF ChildOK
  <2>7. \A c \in Byte : h2[q].children[c] # nullptr =>
          h2[q].children[c] \in D /\ ChildOK(h2, lab2, q, c, h2[q].children[c])
    BY <1>6, <1>8, <2>6
  <2>8. parent = nullptr => parent \notin D
    BY HeapAssumption DEF HeapOK
  <2> QED  BY <1>7, <2>3, <2>4, <2>5, <2>7, <2>8
<1>14. \A i, j \in D : i # j => Apart(h, lab, i, j)
  BY DEF Labelled
<1>15. \A m \in D : /\ lab[m].key \in Key /\ lab[m].p \in Nat /\ lab[m].v \in Nat
                    /\ EndP(h, lab, m) \in Nat /\ EndV(h, lab, m) \in Nat
                    /\ lab[m].p <= Len(lab[m].key.path) /\ lab[m].v <= Len(lab[m].key.value)
  BY LabelFacts DEF LabelOK
\* Nothing but n itself moves, and n only further down.
<1>16. ASSUME NEW i \in D, NEW j \in D, Below(h, lab, i, j)
       PROVE  /\ Below(h2, lab2, i, j)
              /\ j = n => Below(h2, lab2, i, q)
  <2> DEFINE c == ByteAt(lab[j].key, h[i].dim, EndP(h, lab, i), EndV(h, lab, i))
  <2>1. c \in Byte
    BY <1>16, BelowByte
  <2>2. /\ h[i].dim # "Leaf" /\ Agree(lab[i].key, lab[j].key, EndP(h, lab, i), EndV(h, lab, i))
        /\ EndP(h, lab, i) + PathStep(h[i].dim) <= lab[j].p
        /\ EndV(h, lab, i) + ValueStep(h[i].dim) <= lab[j].v
        /\ h[i].children[c] # nullptr
    BY <1>16 DEF Below
  <2>3. h2[i].children[c] # nullptr
    BY <1>2, <1>3, <1>8, <2>1, <2>2
  <2> DEFINE Q == EndP(h, lab, i) + PathStep(h[i].dim)
             W == EndV(h, lab, i) + ValueStep(h[i].dim)
  <2>4. Q \in Nat /\ W \in Nat /\ Q <= lab[j].p /\ W <= lab[j].v
    BY <1>15, <2>2 DEF PathStep, ValueStep
  <2> HIDE DEF Q, W
  <2>5. Q <= lab2[j].p /\ W <= lab2[j].v /\ (j = n => Q <= lab2[q].p /\ W <= lab2[q].v)
    <3>1. CASE j = n
      <4>1. Q <= p /\ W <= v
        BY <1>1, <1>4, <2>4, <3>1
      <4> QED  BY <1>9, <1>10, <2>4, <3>1, <4>1
    <3>2. CASE j # n
      BY <1>9, <2>4, <3>2
    <3> QED  BY <3>1, <3>2
  <2> HIDE DEF c
  <2>6. Below(h2, lab2, i, j)
    BY <1>11, <2>2, <2>3, <2>5 DEF Below, Q, W, c
  <2>7. ASSUME j = n  PROVE Below(h2, lab2, i, q)
    BY <1>9, <1>11, <2>2, <2>3, <2>5, <2>7 DEF Below, Q, W, c
  <2> QED  BY <2>6, <2>7
<1>17. ASSUME NEW m \in D, m # n
       PROVE  Apart(h2, lab2, n, m) /\ Apart(h2, lab2, q, m)
  <2>1. CASE Conflict(lab[n], lab[m])
    <3>1. Conflict(lab2[q], lab2[m])
      BY <1>9, <1>17, <2>1
    <3>2. Agree(lab[n].key, l.key, lab[n].p, lab[n].v)
      BY <1>1, <1>4, <1>10, AgreeRefl
    <3>3. Conflict(l, lab[m])
      <4>1. l.p \in Nat /\ l.v \in Nat /\ lab[n].p <= l.p /\ lab[n].v <= l.v
        BY <1>1, <1>4, <1>10
      <4>2. lab[m].p \in Nat /\ lab[m].v \in Nat /\ lab[n].p \in Nat /\ lab[n].v \in Nat
        BY <1>15
      <4> HIDE DEF k
      <4> QED  BY <2>1, <3>2, <4>1, <4>2, ConflictBelow
    <3> QED  BY <1>9, <1>17, <3>1, <3>3 DEF Apart
  <2>2. CASE Below(h, lab, m, n)
    BY <1>16, <2>2 DEF Apart
  <2>3. CASE Below(h, lab, n, m)
    <3> DEFINE a == EndP(h, lab, n)
               w == EndV(h, lab, n)
               j == lab[m].key
    <3>1. /\ Agree(k, j, a, w) /\ a + PathStep(x.dim) <= lab[m].p /\ w + ValueStep(x.dim) <= lab[m].v
      BY <2>3 DEF Below
    <3>2. /\ a \in Nat /\ w \in Nat /\ j \in Key /\ P <= a /\ V <= w /\ p <= lab[m].p /\ v <= lab[m].v
      <4>1. /\ a \in Nat /\ w \in Nat /\ j \in Key /\ lab[m].p \in Nat /\ lab[m].v \in Nat
        BY <1>15
      <4>2. PathStep(x.dim) \in Nat /\ ValueStep(x.dim) \in Nat
        BY DEF PathStep, ValueStep
      <4> HIDE DEF a, w, x
      <4>3. p <= a /\ v <= w
        BY <1>4 DEF a, w
      <4> QED  BY <1>4, <3>1, <4>1, <4>2, <4>3
    <3>3. Agree(k, j, P, V)
      BY <1>1, <1>4, <3>1, <3>2, AgreeMono
    <3>4. ByteAt(j, d, P, V) = e
      <4>1. p <= a /\ v <= w
        BY <1>4
      <4> HIDE DEF a, w
      <4>2. d = "Path" => P + 1 \in 1..a
        BY <1>e, <1>4, <3>2, <4>1 DEF PathStep
      <4>3. d # "Path" => V + 1 \in 1..w
        BY <1>e, <1>4, <3>2, <4>1 DEF ValueStep
      <4> QED  BY <1>e, <3>1, <4>2, <4>3 DEF Agree, ByteAt
    <3>5. h2[q].children[e] # nullptr /\ d # "Leaf"
      BY <1>2, <1>5, <1>6, <1>8 DEF SplitAt, Dimension
    <3>6. Below(h2, lab2, q, m)
      BY <1>e, <1>9, <1>11, <1>17, <3>2, <3>3, <3>4, <3>5 DEF Below
    <3>7. Below(h2, lab2, n, m)
      BY <1>16, <2>3
    <3> QED  BY <3>6, <3>7 DEF Apart
  <2>4. Apart(h, lab, n, m)
    BY <1>14, <1>17
  <2> QED  BY <2>1, <2>2, <2>3, <2>4 DEF Apart
<1>18. \A i, j \in D \cup {q} : i # j => Apart(h2, lab2, i, j)
  <2>1. Apart(h2, lab2, q, n)
    <3>1. Agree(k, k, P, V)
      BY <1>1, <1>4, AgreeRefl
    <3>2. h2[q].children[e] # nullptr /\ d # "Leaf"
      BY <1>2, <1>5, <1>6, <1>8 DEF SplitAt, Dimension
    <3>3. Below(h2, lab2, q, n)
      BY <1>e, <1>4, <1>9, <1>10, <1>11, <3>1, <3>2 DEF Below
    <3> QED  BY <3>3 DEF Apart
  <2>2. ASSUME NEW i \in D \ {n}, NEW j \in D \ {n}, i # j  PROVE Apart(h2, lab2, i, j)
    <3>1. Apart(h, lab, i, j)
      BY <1>14, <2>2
    <3>2. Conflict(lab[i], lab[j]) => Conflict(lab2[i], lab2[j])
      BY <1>9
    <3> QED  BY <1>16, <3>1, <3>2 DEF Apart
  <2>3. \A i \in D \cup {q} : lab2[i].p \in Nat /\ lab2[i].v \in Nat
    BY <1>9 DEF Label
  <2>4. ASSUME NEW i \in D \cup {q}, NEW j \in D \cup {q}, Apart(h2, lab2, i, j)
        PROVE  Apart(h2, lab2, j, i)
    BY <2>3, <2>4, ConflictSym DEF Apart
  <2> QED  BY <1>17, <2>1, <2>2, <2>4
<1>19. \A j \in Key : ct[j] # <<>> =>
         \E m \in D \cup {q} : h2[m].dim = "Leaf" /\ lab2[m].key = j
  <2>1. \A j \in Key : ct[j] # <<>> => \E m \in D : h[m].dim = "Leaf" /\ lab[m].key = j
    BY DEF Labelled
  <2> QED  BY <1>11, <2>1
<1>20. rt2 # nullptr /\ rt2 \in D \cup {q} /\ lab2[rt2].p = 0 /\ lab2[rt2].v = 0
  <2>1. rt # nullptr /\ rt \in D /\ lab[rt].p = 0 /\ lab[rt].v = 0
    BY DEF Labelled
  <2>2. parent = nullptr => n = rt
    BY DEF Hangs
  <2> QED  BY <1>2, <1>7, <1>9, <2>1, <2>2 DEF rt2
<1>21. lab2 \in [D \cup {q} -> Label]
  BY <1>9
<1>22. \A m \in D \cup {q} : m # rt2 =>
         \E i \in D \cup {q}, c \in Byte : h2[i].children[c] = m
  <2>1. h2[q].children[e] = n
    BY <1>5, <1>6, <1>8
  <2>2. parent # nullptr => h2[parent].children[b] = q
    BY <1>7, <1>8
  <2>3. ASSUME NEW m \in D, m # n, m # rt
        PROVE  \E i \in D, c \in Byte : h2[i].children[c] = m
    <3>1. PICK i \in D, c \in Byte : h[i].children[c] = m
      BY <2>3 DEF Labelled
    <3>2. ~(parent # nullptr /\ i = parent /\ c = b)
      BY <1>7, <2>3, <3>1
    <3>3. parent = nullptr => i # parent
      BY HeapAssumption DEF HeapOK
    <3>4. h2[i].children[c] = m
      BY <1>3, <1>8, <3>1, <3>2, <3>3
    <3> QED  BY <3>4
  <2>4. parent = nullptr => n = rt
    BY DEF Hangs
  <2> QED  BY <1>5, <1>7, <2>1, <2>2, <2>3, <2>4 DEF rt2
<1>23. Labelled(h2, ct, rt2, lab2)
  BY <1>8, <1>12, <1>13, <1>18, <1>19, <1>20, <1>21, <1>22 DEF Labelled
<1> QED
  <2>1. q \in DOMAIN h2 /\ \A c \in Byte : h2[q].children[c] = IF c = e THEN n ELSE nullptr
    BY <1>6, <1>8
  <2>2. lab2[q] = lab[n] /\ h2[q].dim = d /\ EndP(h2, lab2, q) = P /\ EndV(h2, lab2, q) = V
    BY <1>9, <1>11
  <2> QED  BY <1>5, <1>8, <1>23, <2>1, <2>2 DEF h2, lab2, rt2, l, u, y, e, p, v, P, V

-----------------------------------------------------------------------------
(* A move: node n, rewritten as z, goes to address g and is deleted.        *)

Move(h, n, g, parent, b, z) ==
  [m \in (DOMAIN h \cup {g}) \ {n} |->
     IF m = g THEN z ELSE IF m = parent THEN Put(h[m], b, g) ELSE h[m]]

MoveLabel(lab, n, g) ==
  [m \in (DOMAIN lab \cup {g}) \ {n} |-> IF m = g THEN lab[n] ELSE lab[m]]

\* Nothing but the address changes.
LEMMA MoveOK ==
  ASSUME NEW h, HeapOK(h), NEW ct, NEW rt, NEW lab, Labelled(h, ct, rt, lab),
         NEW n \in DOMAIN h, NEW parent, NEW b, Hangs(h, rt, n, parent, b),
         NEW g \in Node, g \notin DOMAIN h,
         NEW z \in NodeRecord, z.dim = h[n].dim, z.prefix = h[n].prefix, z.sep = h[n].sep,
         z.refs = h[n].refs, z.children = h[n].children
  PROVE  LET h2 == Move(h, n, g, parent, b, z)
             rt2 == IF parent = nullptr THEN g ELSE rt
             lab2 == MoveLabel(lab, n, g)
         IN  /\ Labelled(h2, ct, rt2, lab2) /\ HeapOK(h2)
             /\ g \in DOMAIN h2 /\ lab2[g] = lab[n]
             /\ h2[g].dim = h[n].dim /\ h2[g].prefix = h[n].prefix /\ h2[g].sep = h[n].sep
             /\ h2[g].children = h[n].children
             /\ EndP(h2, lab2, g) = EndP(h, lab, n) /\ EndV(h2, lab2, g) = EndV(h, lab, n)
<1> DEFINE D == DOMAIN h
           D2 == (D \cup {g}) \ {n}
           h2 == Move(h, n, g, parent, b, z)
           rt2 == IF parent = nullptr THEN g ELSE rt
           lab2 == MoveLabel(lab, n, g)
           old(m) == IF m = g THEN n ELSE m
           new(c) == IF c = n THEN g ELSE c
<1>1. /\ n \in Node /\ n # nullptr /\ g # nullptr /\ g # n /\ nullptr \notin D
      /\ \A m \in D : h[m] \in NodeRecord
  BY HeapAssumption DEF HeapOK
<1>2. /\ parent # n
      /\ parent # nullptr => n # rt /\ parent \in D /\ h[parent].dim # "Leaf" /\ b \in Byte
                             /\ h[parent].children[b] = n
      /\ \A m \in D, c \in Byte : h[m].children[c] = n <=> parent # nullptr /\ m = parent /\ c = b
  <2>1. /\ parent # n
        /\ parent # nullptr => n # rt
        /\ \A m \in D, c \in Byte :
             h[m].children[c] = n <=> parent # nullptr /\ m = parent /\ c = b
    BY HangsFacts
  <2>2. parent # nullptr => parent \in D /\ b \in Byte /\ h[parent].children[b] = n
    BY DEF Hangs
  <2>3. parent # nullptr => h[parent].dim # "Leaf"
    BY <1>1, <2>2, ChildFacts
  <2> QED  BY <2>1, <2>2, <2>3
<1>3. /\ \A m \in D2 : old(m) \in D /\ new(old(m)) = m
      /\ \A m \in D : new(m) \in D2 /\ old(new(m)) = m
      /\ new(nullptr) = nullptr /\ \A c : new(c) = nullptr <=> c = nullptr
      /\ \A i, j \in D2 : i # j => old(i) # old(j)
  BY <1>1
<1>4. /\ DOMAIN h2 = D2 /\ h2[g] = z
      /\ \A m \in D2 : m # g => h2[m] = IF m = parent THEN Put(h[m], b, g) ELSE h[m]
  BY <1>1 DEF Move
<1> HIDE DEF h2
<1>5. \A m \in D2 :
        /\ h2[m] \in NodeRecord
        /\ h2[m].dim = h[old(m)].dim /\ h2[m].prefix = h[old(m)].prefix
        /\ h2[m].sep = h[old(m)].sep /\ h2[m].refs = h[old(m)].refs
        /\ \A c \in Byte : h2[m].children[c] = new(h[old(m)].children[c])
  <2>1. TAKE m \in D2
  <2>2. CASE m = g
    <3>1. \A c \in Byte : h[n].children[c] # n
      BY <1>2
    <3> QED  BY <1>4, <2>2, <3>1
  <2>3. CASE m # g /\ m = parent
    <3>1. parent # nullptr /\ m \in D
      BY <1>1, <2>3
    <3>2. h2[m] = Put(h[m], b, g) /\ h[m] \in NodeRecord /\ h[m].dim # "Leaf" /\ b \in Byte
      BY <1>1, <1>2, <1>4, <2>3, <3>1
    <3>3. /\ h2[m] \in NodeRecord
          /\ h2[m].dim = h[m].dim /\ h2[m].prefix = h[m].prefix
          /\ h2[m].sep = h[m].sep /\ h2[m].refs = h[m].refs
          /\ \A c \in Byte : h2[m].children[c] = IF c = b THEN g ELSE h[m].children[c]
      BY <3>2, PutFacts
    <3>4. \A c \in Byte : h[m].children[c] = n <=> c = b
      BY <1>2, <2>3, <3>1
    <3> QED  BY <2>3, <3>3, <3>4
  <2>4. CASE m # g /\ m # parent
    <3>1. m \in D /\ h2[m] = h[m]
      BY <1>4, <2>4
    <3>2. \A c \in Byte : h[m].children[c] # n
      BY <1>2, <2>4, <3>1
    <3> QED  BY <1>1, <2>4, <3>1, <3>2
  <2> QED  BY <2>2, <2>3, <2>4
<1>6. HeapOK(h2)
  BY <1>4, <1>5 DEF HeapOK
<1>7. /\ \A m \in D2 : lab2[m] = lab[old(m)]
      /\ lab2 \in [D2 -> Label]
  <2>1. lab \in [D -> Label] /\ DOMAIN lab = D
    BY DEF Labelled
  <2>2. \A m \in D2 : lab2[m] = lab[old(m)]
    BY <2>1 DEF MoveLabel
  <2>3. DOMAIN lab2 = D2 /\ lab2 = [m \in D2 |-> lab2[m]]
    BY <2>1 DEF MoveLabel
  <2> HIDE DEF lab2
  <2> QED  BY <1>3, <2>1, <2>2, <2>3
<1> HIDE DEF D2, rt2, lab2, old, new
<1>8. \A m \in D2 : EndP(h2, lab2, m) = EndP(h, lab, old(m)) /\ EndV(h2, lab2, m) = EndV(h, lab, old(m))
  BY <1>5, <1>7 DEF EndP, EndV
<1>9. \A m \in D2 : LabelOK(h2, ct, lab2, m)
  <2>1. TAKE m \in D2
  <2>2. LabelOK(h, ct, lab, old(m))
    BY <1>3 DEF Labelled
  <2>3. Spells(h2[m], lab2[m].key, lab2[m].p, lab2[m].v)
    BY <1>5, <1>7, <2>2 DEF LabelOK, Spells
  <2>4. EndOK(h2, ct, lab2, m)
    BY <1>5, <1>7, <1>8, <2>2 DEF LabelOK, EndOK
  <2> QED  BY <1>7, <2>2, <2>3, <2>4 DEF LabelOK
<1>10. \A m \in D2, c \in Byte : h2[m].children[c] # nullptr =>
         /\ h2[m].children[c] \in D2
         /\ ChildOK(h2, lab2, m, c, h2[m].children[c])
  <2>1. SUFFICES ASSUME NEW m \in D2, NEW c \in Byte, h2[m].children[c] # nullptr
                 PROVE  /\ h2[m].children[c] \in D2
                        /\ ChildOK(h2, lab2, m, c, h2[m].children[c])
    OBVIOUS
  <2> DEFINE o == h[old(m)].children[c]
  <2>2. h2[m].children[c] = new(o) /\ o # nullptr /\ old(m) \in D
    BY <1>3, <1>5, <2>1
  <2>3. o \in D /\ ChildOK(h, lab, old(m), c, o)
    BY <2>2 DEF Labelled
  <2> HIDE DEF o
  <2>4. new(o) \in D2 /\ lab2[new(o)] = lab[o]
    BY <1>3, <1>7, <2>3
  <2>5. ChildOK(h2, lab2, m, c, new(o))
    BY <1>5, <1>7, <1>8, <2>3, <2>4 DEF ChildOK
  <2> QED  BY <2>2, <2>4, <2>5
<1>11. ASSUME NEW i \in D2, NEW j \in D2, Below(h, lab, old(i), old(j))
       PROVE  Below(h2, lab2, i, j)
  <2> DEFINE c == ByteAt(lab[old(j)].key, h[old(i)].dim, EndP(h, lab, old(i)), EndV(h, lab, old(i)))
  <2>1. old(i) \in D /\ old(j) \in D
    BY <1>3
  <2>2. c \in Byte
    BY <1>11, <2>1, BelowByte
  <2>3. h[old(i)].children[c] # nullptr
    BY <1>11 DEF Below
  <2>4. h2[i].children[c] # nullptr
    BY <1>3, <1>5, <2>2, <2>3
  <2> QED  BY <1>5, <1>7, <1>8, <1>11, <2>4 DEF Below
<1>12. \A i, j \in D2 : i # j => Apart(h2, lab2, i, j)
  <2>1. TAKE i \in D2, j \in D2
  <2>2. HAVE i # j
  <2>3. Apart(h, lab, old(i), old(j))
    BY <1>3, <2>2 DEF Labelled
  <2>4. Conflict(lab[old(i)], lab[old(j)]) => Conflict(lab2[i], lab2[j])
    BY <1>7
  <2> QED  BY <1>11, <2>3, <2>4 DEF Apart
<1>13. \A k \in Key : ct[k] # <<>> => \E m \in D2 : h2[m].dim = "Leaf" /\ lab2[m].key = k
  <2>1. TAKE k \in Key
  <2>2. HAVE ct[k] # <<>>
  <2>3. PICK m \in D : h[m].dim = "Leaf" /\ lab[m].key = k
    BY <2>2 DEF Labelled
  <2>4. new(m) \in D2 /\ old(new(m)) = m
    BY <1>3
  <2>5. h2[new(m)].dim = "Leaf" /\ lab2[new(m)].key = k
    BY <1>5, <1>7, <2>3, <2>4
  <2> QED  BY <2>4, <2>5
<1>14. rt2 \in D2 /\ rt2 # nullptr /\ rt2 = new(rt) /\ lab2[rt2].p = 0 /\ lab2[rt2].v = 0
  <2>1. rt # nullptr /\ rt \in D /\ lab[rt].p = 0 /\ lab[rt].v = 0
    BY DEF Labelled
  <2>2. rt2 = new(rt)
    <3>1. parent = nullptr => n = rt
      BY DEF Hangs
    <3> QED  BY <1>2, <3>1 DEF rt2, new
  <2>3. new(rt) \in D2 /\ old(new(rt)) = rt /\ new(rt) # nullptr
    BY <1>3, <2>1
  <2> QED  BY <1>7, <2>1, <2>2, <2>3
<1>15. \A m \in D2 : m # rt2 => \E i \in D2, c \in Byte : h2[i].children[c] = m
  <2>1. TAKE m \in D2
  <2>2. HAVE m # rt2
  <2>3. old(m) \in D /\ new(old(m)) = m
    BY <1>3
  <2>4. old(m) # rt
    BY <1>14, <2>2, <2>3
  <2>5. PICK i \in D, c \in Byte : h[i].children[c] = old(m)
    BY <2>3, <2>4 DEF Labelled
  <2>6. new(i) \in D2 /\ old(new(i)) = i
    BY <1>3
  <2>7. h2[new(i)].children[c] = m
    BY <1>5, <2>3, <2>5, <2>6
  <2> QED  BY <2>6, <2>7
<1>16. Labelled(h2, ct, rt2, lab2)
  BY <1>4, <1>7, <1>9, <1>10, <1>12, <1>13, <1>14, <1>15 DEF Labelled
<1>17. g \in D2 /\ old(g) = n
  BY <1>1 DEF D2, old
<1>18. /\ lab2[g] = lab[n]
       /\ h2[g].dim = h[n].dim /\ h2[g].prefix = h[n].prefix /\ h2[g].sep = h[n].sep
       /\ h2[g].children = h[n].children
       /\ EndP(h2, lab2, g) = EndP(h, lab, n) /\ EndV(h2, lab2, g) = EndV(h, lab, n)
  BY <1>4, <1>7, <1>8, <1>17
<1> QED  BY <1>4, <1>6, <1>16, <1>17, <1>18 DEF h2, rt2, lab2, D2

-----------------------------------------------------------------------------
(* A further reference for a stored key, and the first key.                 *)

LEMMA AddRefOK ==
  ASSUME NEW h, HeapOK(h), NEW ct \in [Key -> Seq(Ref)], NEW rt, NEW lab,
         Labelled(h, ct, rt, lab),
         NEW n \in DOMAIN h, h[n].dim = "Leaf", NEW k \in Key, lab[n].key = k, NEW r \in Ref
  PROVE  LET h2 == [h EXCEPT ![n].refs = Append(@, r)]
             ct2 == [ct EXCEPT ![k] = Append(@, r)]
         IN  Labelled(h2, ct2, rt, lab) /\ HeapOK(h2)
<1> DEFINE D == DOMAIN h
           x == h[n]
           y == [x EXCEPT !.refs = Append(@, r)]
           h2 == [h EXCEPT ![n].refs = Append(@, r)]
           ct2 == [ct EXCEPT ![k] = Append(@, r)]
<1>1. /\ x = [dim |-> x.dim, prefix |-> x.prefix, sep |-> x.sep,
              children |-> x.children, layout |-> x.layout, refs |-> x.refs]
      /\ x \in NodeRecord /\ x.refs \in Seq(Ref)
  BY NodeFacts DEF HeapOK
<1>2. x \in LeafNode
  BY <1>1 DEF NodeRecord, InnerNode, Dimension
<1>3. h2[n] = y /\ DOMAIN h2 = D /\ \A m \in D \ {n} : h2[m] = h[m]
  OBVIOUS
<1>4. y = [dim |-> x.dim, prefix |-> x.prefix, sep |-> x.sep, children |-> x.children,
           layout |-> x.layout, refs |-> Append(x.refs, r)]
  <2>1. x = [dim |-> x.dim, prefix |-> x.prefix, sep |-> x.sep,
             children |-> x.children, layout |-> x.layout, refs |-> x.refs]
    BY <1>1
  <2>2. y = [x EXCEPT !.refs = Append(@, r)]
    OBVIOUS
  <2> HIDE DEF x, y
  <2> QED  BY <2>1, <2>2
<1>5. /\ ct2[k] = Append(ct[k], r) /\ ct2[k] # <<>>
      /\ \A j \in Key : j # k => ct2[j] = ct[j]
  <2>1. ct2[k] = Append(ct[k], r) /\ ct[k] \in Seq(Ref)
    OBVIOUS
  <2>2. Append(ct[k], r) # <<>>
    BY <2>1
  <2>3. \A j \in Key : j # k => ct2[j] = ct[j]
    OBVIOUS
  <2> QED  BY <2>1, <2>2, <2>3
<1> HIDE DEF x, y, h2, ct2
<1>6. y \in NodeRecord
  <2>1. Append(x.refs, r) \in Seq(Ref)
    BY <1>1
  <2> QED  BY <1>1, <1>2, <1>4, <2>1 DEF NodeRecord, LeafNode
<1>7. HeapOK(h2)
  BY <1>3, <1>6 DEF HeapOK
<1>8. \A m \in D : /\ h2[m].dim = h[m].dim /\ h2[m].prefix = h[m].prefix
                   /\ h2[m].sep = h[m].sep /\ h2[m].children = h[m].children
                   /\ m # n => h2[m].refs = h[m].refs
  BY <1>3, <1>4 DEF x
<1>9. \A m \in D : EndP(h2, lab, m) = EndP(h, lab, m) /\ EndV(h2, lab, m) = EndV(h, lab, m)
  BY <1>8 DEF EndP, EndV
\* Of two leaves none is below the other, so their keys differ.
<1>10. \A m \in D : m # n /\ h[m].dim = "Leaf" => lab[m].key # k
  <2>1. SUFFICES ASSUME NEW m \in D, m # n, h[m].dim = "Leaf", lab[m].key = k
                 PROVE  FALSE
    OBVIOUS
  <2>2. Conflict(lab[n], lab[m])
    BY <2>1 DEF Labelled, Apart, Below
  <2> QED  BY <2>1, <2>2 DEF Conflict, Differ
<1>11. \A m \in D : LabelOK(h2, ct2, lab, m)
  <2>1. TAKE m \in D
  <2>2. LabelOK(h, ct, lab, m) /\ lab[m].key \in Key
    BY LabelFacts
  <2>3. Spells(h2[m], lab[m].key, lab[m].p, lab[m].v)
    BY <1>8, <2>2 DEF LabelOK, Spells
  <2>4. ct2[lab[m].key] # <<>>
    BY <1>5, <2>2 DEF LabelOK
  <2>5. EndOK(h2, ct2, lab, m)
    <3>1. CASE m = n
      <4>1. h2[n].refs = Append(x.refs, r) /\ h2[n].dim = "Leaf"
        BY <1>3, <1>4 DEF x
      <4>2. x.refs = ct[k]
        BY <2>2, <3>1 DEF LabelOK, EndOK, x
      <4> QED  BY <1>5, <1>9, <2>2, <3>1, <4>1, <4>2 DEF LabelOK, EndOK
    <3>2. CASE m # n /\ h[m].dim = "Leaf"
      BY <1>5, <1>8, <1>9, <1>10, <2>2, <3>2 DEF LabelOK, EndOK
    <3>3. CASE m # n /\ h[m].dim # "Leaf"
      BY <1>8, <1>9, <2>2, <3>3 DEF LabelOK, EndOK
    <3> QED  BY <3>1, <3>2, <3>3
  <2> QED  BY <2>2, <2>3, <2>4, <2>5 DEF LabelOK
<1>12. \A m \in D, b \in Byte : h2[m].children[b] # nullptr =>
         h2[m].children[b] \in D /\ ChildOK(h2, lab, m, b, h2[m].children[b])
  <2>1. \A m \in D, b \in Byte : h[m].children[b] # nullptr =>
         h[m].children[b] \in D /\ ChildOK(h, lab, m, b, h[m].children[b])
    BY DEF Labelled
  <2> QED  BY <1>8, <1>9, <2>1 DEF ChildOK
<1>13. \A i, j \in D : i # j => Apart(h2, lab, i, j)
  <2>1. \A i, j \in D : i # j => Apart(h, lab, i, j)
    BY DEF Labelled
  <2>2. \A i, j \in D : Below(h, lab, i, j) => Below(h2, lab, i, j)
    BY <1>8, <1>9 DEF Below
  <2> QED  BY <2>1, <2>2 DEF Apart
<1>14. \A j \in Key : ct2[j] # <<>> => \E m \in D : h2[m].dim = "Leaf" /\ lab[m].key = j
  <2>1. \A j \in Key : ct[j] # <<>> => \E m \in D : h[m].dim = "Leaf" /\ lab[m].key = j
    BY DEF Labelled
  <2>2. h2[n].dim = "Leaf" /\ lab[n].key = k
    BY <1>8
  <2>3. \A j \in Key : j # k /\ ct2[j] # <<>> =>
          \E m \in D : h2[m].dim = "Leaf" /\ lab[m].key = j
    BY <1>5, <1>8, <2>1
  <2> QED  BY <2>2, <2>3
<1>15. /\ rt # nullptr /\ rt \in D /\ lab[rt].p = 0 /\ lab[rt].v = 0 /\ lab \in [D -> Label]
       /\ \A m \in D : m # rt => \E i \in D, b \in Byte : h2[i].children[b] = m
  <2>1. /\ rt # nullptr /\ rt \in D /\ lab[rt].p = 0 /\ lab[rt].v = 0 /\ lab \in [D -> Label]
        /\ \A m \in D : m # rt => \E i \in D, b \in Byte : h[i].children[b] = m
    BY DEF Labelled
  <2> QED  BY <1>8, <2>1
<1>16. Labelled(h2, ct2, rt, lab)
  BY <1>3, <1>11, <1>12, <1>13, <1>14, <1>15 DEF Labelled
<1> QED  BY <1>7, <1>16 DEF h2, ct2

FirstLeaf(h, n, k, r) ==
  [m \in DOMAIN h \cup {n} |-> IF m = n THEN NewLeaf(k, 0, 0, r) ELSE h[m]]

FirstLabel(n, k) == [m \in {n} |-> [key |-> k, p |-> 0, v |-> 0]]

LEMMA FirstLeafOK ==
  ASSUME NEW h, DOMAIN h = {}, NEW ct \in [Key -> Seq(Ref)], NEW lab,
         Labelled(h, ct, nullptr, lab),
         NEW n \in Node, NEW k \in Key, NEW r \in Ref
  PROVE  LET ct2 == [ct EXCEPT ![k] = Append(@, r)]
         IN  /\ Labelled(FirstLeaf(h, n, k, r), ct2, n, FirstLabel(n, k))
             /\ HeapOK(FirstLeaf(h, n, k, r))
<1> DEFINE leaf == NewLeaf(k, 0, 0, r)
           h2 == [m \in DOMAIN h \cup {n} |-> IF m = n THEN leaf ELSE h[m]]
           ct2 == [ct EXCEPT ![k] = Append(@, r)]
           l == [key |-> k, p |-> 0, v |-> 0]
           lab2 == [m \in {n} |-> l]
<1>1. \A j \in Key : ct[j] = <<>>
  BY DEF Labelled
<1>2. Len(k.path) \in Nat /\ Len(k.value) \in Nat
  BY KeyFacts
<1>3. /\ leaf \in NodeRecord /\ leaf.dim = "Leaf" /\ leaf.refs = <<r>>
      /\ leaf.children = NoChildren
      /\ Spells(leaf, k, 0, 0) /\ 0 + leaf.sep = Len(k.path)
      /\ 0 + (Len(leaf.prefix) - leaf.sep) = Len(k.value)
  <2>1. 0 \in 0..Len(k.path) /\ 0 \in 0..Len(k.value)
    BY <1>2
  <2> QED  BY <2>1, NewLeafFacts
<1> HIDE DEF leaf
<1>4. DOMAIN h2 = {n} /\ h2[n] = leaf
  OBVIOUS
<1>5. lab2 \in [{n} -> Label] /\ lab2[n] = l /\ l.key = k /\ l.p = 0 /\ l.v = 0
  BY DEF Label
<1>6. ct2[k] = <<r>> /\ ct2[k] # <<>> /\ \A j \in Key : j # k => ct2[j] = <<>>
  <2>1. ct2[k] = Append(ct[k], r) /\ ct[k] = <<>> /\ Append(<<>>, r) = <<r>> /\ <<r>> # <<>>
    BY <1>1
  <2>2. \A j \in Key : j # k => ct2[j] = <<>>
    BY <1>1
  <2> QED  BY <2>1, <2>2
<1> HIDE DEF h2, ct2, l, lab2
<1>7. HeapOK(h2) /\ n # nullptr
  BY <1>3, <1>4, HeapAssumption DEF HeapOK
<1>8. LabelOK(h2, ct2, lab2, n)
  BY <1>2, <1>3, <1>4, <1>5, <1>6 DEF LabelOK, EndOK, EndP, EndV
<1>9. \A c \in Byte : h2[n].children[c] = nullptr
  BY <1>3, <1>4 DEF NoChildren
<1>10. Labelled(h2, ct2, n, lab2)
  BY <1>3, <1>4, <1>5, <1>6, <1>7, <1>8, <1>9 DEF Labelled
<1> QED  BY <1>7, <1>10 DEF h2, ct2, lab2, l, leaf, FirstLeaf, FirstLabel

-----------------------------------------------------------------------------
(* The Locator                                                              *)

\* Matching the prefix of a node that the key has agreed with so far.
LEMMA MatchLocated ==
  ASSUME NEW h, HeapOK(h), NEW ct, NEW rt, NEW lab, Labelled(h, ct, rt, lab),
         NEW n \in DOMAIN h, NEW k \in Key, Agree(k, lab[n].key, lab[n].p, lab[n].v),
         NEW parent, NEW b, Hangs(h, rt, n, parent, b)
  PROVE  LET p == lab[n].p
             v == lab[n].v
             mp == MatchLength(k.path, p, h[n].prefix, 0, h[n].sep)
             mv == MatchLength(k.value, v, h[n].prefix, h[n].sep, Len(h[n].prefix))
             l == [node |-> n, parent |-> parent, parent_byte |-> b,
                   bkey_p_pos |-> p + mp, bkey_v_pos |-> v + mv,
                   node_p_pos |-> mp, node_v_pos |-> h[n].sep + mv]
         IN  /\ Located(h, rt, k, l, lab)
             /\ mp \in Nat /\ mv \in Nat /\ p \in Nat /\ v \in Nat /\ h[n].sep \in Nat
<1> DEFINE S == h[n].sep
           t == h[n].prefix
           L == Len(t)
           j == lab[n].key
           p == lab[n].p
           v == lab[n].v
           mp == MatchLength(k.path, p, t, 0, S)
           mv == MatchLength(k.value, v, t, S, L)
           l == [node |-> n, parent |-> parent, parent_byte |-> b,
                 bkey_p_pos |-> p + mp, bkey_v_pos |-> v + mv,
                 node_p_pos |-> mp, node_v_pos |-> S + mv]
           K == Len(k.path)
           W == Len(k.value)
<1>1. /\ k.path \in Seq(Byte) /\ k.value \in Seq(Byte) /\ K \in Nat /\ W \in Nat
  BY KeyFacts
<1>2. /\ t \in Seq(Byte) /\ L \in Nat /\ S \in Nat /\ S <= L
  BY NodeFacts DEF HeapOK
<1>3. /\ p \in Nat /\ v \in Nat /\ p + S <= Len(j.path) /\ v + (L - S) <= Len(j.value)
      /\ Len(j.path) \in Nat /\ Len(j.value) \in Nat
      /\ \A i \in 1..S : t[i] = j.path[p + i]
      /\ \A i \in 1..(L - S) : t[S + i] = j.value[v + i]
  BY LabelFacts, KeyFacts DEF LabelOK, Spells
<1>4. /\ p <= K /\ v <= W
      /\ \A i \in 1..p : k.path[i] = j.path[i]
      /\ \A i \in 1..v : k.value[i] = j.value[i]
  BY DEF Agree
<1>5. l.node = n /\ l.parent = parent /\ l.parent_byte = b /\ l.bkey_p_pos = p + mp
      /\ l.bkey_v_pos = v + mv /\ l.node_p_pos = mp /\ l.node_v_pos = S + mv
  OBVIOUS
<1>6. /\ mp \in 0..(S - 0) /\ p + mp <= K
      /\ \A i \in 1..mp : k.path[p + i] = t[0 + i]
      /\ mp < S - 0 => p + mp = K \/ k.path[p + mp + 1] # t[0 + mp + 1]
  <2>1. p \in 0..K /\ S \in 0..L /\ 0 \in 0..S
    <3> HIDE DEF S, L, K, p
    <3> QED  BY <1>1, <1>2, <1>3, <1>4
  <2>2. Stops(k.path, p, t, 0, S, mp)
    BY <1>1, <1>2, <2>1, MatchStops
  <2> QED  BY <2>2 DEF Stops
<1>7. /\ mv \in 0..(L - S) /\ v + mv <= W
      /\ \A i \in 1..mv : k.value[v + i] = t[S + i]
      /\ mv < L - S => v + mv = W \/ k.value[v + mv + 1] # t[S + mv + 1]
  <2>1. v \in 0..W /\ L \in 0..L /\ S \in 0..L
    <3> HIDE DEF S, L, W, v
    <3> QED  BY <1>1, <1>2, <1>3, <1>4
  <2>2. Stops(k.value, v, t, S, L, mv)
    BY <1>1, <1>2, <2>1, MatchStops
  <2> QED  BY <2>2 DEF Stops
<1> HIDE DEF S, t, L, p, v, j, mp, mv, l, K, W
<1>8. /\ mp \in Nat /\ mv \in Nat /\ mp <= S /\ S + mv <= L
      /\ mp < S => p + mp = K \/ k.path[p + mp + 1] # t[mp + 1]
      /\ S + mv < L => v + mv = W \/ k.value[v + mv + 1] # t[S + mv + 1]
      /\ \A i \in 1..mp : k.path[p + i] = t[i]
      /\ \A i \in 1..mv : k.value[v + i] = t[S + i]
      /\ (S + mv) - S = mv
  BY <1>2, <1>6, <1>7
<1>9. Agree(k, j, p + mp, v + mv)
  <2>1. p + mp <= Len(j.path) /\ v + mv <= Len(j.value)
    <3> DEFINE J == Len(j.path)
               I == Len(j.value)
    <3>1. J \in Nat /\ I \in Nat /\ p + S <= J /\ v + (L - S) <= I
      BY <1>3
    <3>2. p \in Nat /\ v \in Nat /\ mp \in Nat /\ mv \in Nat /\ mp <= S /\ S + mv <= L
      BY <1>3, <1>8
    <3> HIDE DEF J, I
    <3>3. p + mp <= J /\ v + mv <= I
      BY <1>2, <3>1, <3>2
    <3> QED  BY <3>3 DEF J, I
  <2>2. \A i \in 1..(p + mp) : k.path[i] = j.path[i]
    <3>1. TAKE i \in 1..(p + mp)
    <3>2. CASE i <= p
      <4>1. i \in 1..p
        BY <1>3, <1>8, <3>2
      <4> QED  BY <1>4, <4>1
    <3>3. CASE i > p
      <4>1. i - p \in 1..mp /\ i - p \in 1..S /\ p + (i - p) = i
        BY <1>2, <1>3, <1>8, <3>3
      <4> QED  BY <1>3, <1>8, <4>1
    <3> QED  BY <1>3, <3>2, <3>3
  <2>3. \A i \in 1..(v + mv) : k.value[i] = j.value[i]
    <3>1. TAKE i \in 1..(v + mv)
    <3>2. CASE i <= v
      <4>1. i \in 1..v
        BY <1>3, <1>8, <3>2
      <4> QED  BY <1>4, <4>1
    <3>3. CASE i > v
      <4>1. i - v \in 1..mv /\ i - v \in 1..(L - S) /\ v + (i - v) = i
        BY <1>2, <1>3, <1>8, <3>3
      <4>2. k.value[v + (i - v)] = t[S + (i - v)] /\ t[S + (i - v)] = j.value[v + (i - v)]
        BY <1>3, <1>8, <4>1
      <4> QED  BY <4>1, <4>2
    <3> QED  BY <1>3, <3>2, <3>3
  <2> QED  BY <1>6, <1>7, <2>1, <2>2, <2>3 DEF Agree, K, W
<1>10. Located(h, rt, k, l, lab)
  <2>1. S <= S + mv
    BY <1>2, <1>8
  <2>2. S = h[n].sep /\ t = h[n].prefix /\ L = Len(h[n].prefix) /\ K = Len(k.path) /\ W = Len(k.value)
    BY DEF S, t, L, K, W
  <2>3. p = lab[n].p /\ v = lab[n].v /\ j = lab[n].key
    BY DEF p, v, j
  <2>4. IF parent = nullptr THEN n = rt ELSE h[parent].children[b] = n
    BY DEF Hangs
  <2> QED  BY <1>5, <1>8, <1>9, <2>1, <2>2, <2>3, <2>4 DEF Located
<1> QED  BY <1>2, <1>3, <1>8, <1>10 DEF l, mp, mv, S, t, L, p, v

IInv == TypeOK /\ Represents

-----------------------------------------------------------------------------
(* Where the Locator stands                                                 *)

LEMMA LocateFacts ==
  ASSUME TypeOK, pc = "locate", NEW lab, Represented(lab)
  PROVE  /\ HeapOK(heap) /\ Labelled(heap, content, root, lab)
         /\ Located(heap, root, BKey, loc, lab)
         /\ Hangs(heap, root, loc.node, loc.parent, loc.parent_byte)
         /\ BKey \in Key /\ BKey.path = bkey.path /\ BKey.value = bkey.value /\ bkey.ref \in Ref
         /\ loc.node \in DOMAIN heap /\ N \in NodeRecord
         /\ loc.bkey_p_pos \in Nat /\ loc.bkey_v_pos \in Nat
         /\ loc.node_p_pos \in Nat /\ loc.node_v_pos \in Nat
<1>1. HeapOK(heap) /\ Labelled(heap, content, root, lab) /\ Located(heap, root, BKey, loc, lab)
  BY DEF TypeOK, HeapOK, Represented
<1>2. bkey \in [path : Paths, value : Values, ref : Ref] /\ loc \in Location
  BY DEF TypeOK
<1>3. BKey \in Key /\ BKey.path = bkey.path /\ BKey.value = bkey.value /\ bkey.ref \in Ref
  BY <1>2 DEF BKey, Key
<1>4. /\ loc.node \in DOMAIN heap /\ loc.parent \in DOMAIN heap \cup {nullptr}
      /\ loc.parent_byte \in Byte
      /\ loc.bkey_p_pos \in Nat /\ loc.bkey_v_pos \in Nat
      /\ loc.node_p_pos \in Nat /\ loc.node_v_pos \in Nat
  BY <1>2 DEF Location
<1>5. N \in NodeRecord
  BY <1>1, <1>4 DEF N, HeapOK
<1>6. Hangs(heap, root, loc.node, loc.parent, loc.parent_byte)
  BY <1>1, <1>4 DEF Located, Hangs
<1> QED  BY <1>1, <1>3, <1>4, <1>5, <1>6

\* The positions of the key and of the node move together.
LEMMA PositionFacts ==
  ASSUME TypeOK, pc = "locate", NEW lab, Represented(lab)
  PROVE  LET m == lab[loc.node] IN
         /\ m.key \in Key /\ m.p \in Nat /\ m.v \in Nat
         /\ N.sep \in Nat /\ Len(N.prefix) \in Nat /\ N.sep <= Len(N.prefix)
         /\ loc.node_p_pos <= N.sep /\ N.sep <= loc.node_v_pos
         /\ loc.node_v_pos <= Len(N.prefix)
         /\ loc.bkey_p_pos = m.p + loc.node_p_pos
         /\ loc.bkey_v_pos = m.v + (loc.node_v_pos - N.sep)
         /\ Agree(BKey, m.key, loc.bkey_p_pos, loc.bkey_v_pos)
         /\ m.p + N.sep = EndP(heap, lab, loc.node)
         /\ m.v + (Len(N.prefix) - N.sep) = EndV(heap, lab, loc.node)
<1>1. /\ HeapOK(heap) /\ Labelled(heap, content, root, lab)
      /\ Located(heap, root, BKey, loc, lab)
      /\ loc.node \in DOMAIN heap /\ N \in NodeRecord
  BY LocateFacts
<1>2. lab[loc.node].key \in Key /\ lab[loc.node].p \in Nat /\ lab[loc.node].v \in Nat
  BY <1>1, LabelFacts
<1>3. N.sep \in Nat /\ Len(N.prefix) \in Nat /\ N.sep <= Len(N.prefix)
  BY <1>1, NodeFacts
<1>4. /\ loc.node_p_pos <= N.sep /\ N.sep <= loc.node_v_pos
      /\ loc.node_v_pos <= Len(N.prefix)
      /\ loc.bkey_p_pos = lab[loc.node].p + loc.node_p_pos
      /\ loc.bkey_v_pos = lab[loc.node].v + (loc.node_v_pos - N.sep)
      /\ Agree(BKey, lab[loc.node].key, loc.bkey_p_pos, loc.bkey_v_pos)
  BY <1>1 DEF Located, N
<1>5. /\ lab[loc.node].p + N.sep = EndP(heap, lab, loc.node)
      /\ lab[loc.node].v + (Len(N.prefix) - N.sep) = EndV(heap, lab, loc.node)
  BY DEF EndP, EndV, N
<1> QED  BY <1>2, <1>3, <1>4, <1>5

\* Without a mismatch all of the prefix is consumed.
LEMMA MatchedFacts ==
  ASSUME TypeOK, pc = "locate", NEW lab, Represented(lab), ~HasMismatch
  PROVE  /\ loc.bkey_p_pos = EndP(heap, lab, loc.node)
         /\ loc.bkey_v_pos = EndV(heap, lab, loc.node)
         /\ Agree(BKey, lab[loc.node].key, EndP(heap, lab, loc.node), EndV(heap, lab, loc.node))
<1> DEFINE S == N.sep
           L == Len(N.prefix)
           a == lab[loc.node].p
           w == lab[loc.node].v
<1>1. /\ a \in Nat /\ w \in Nat /\ S \in Nat /\ L \in Nat
      /\ loc.node_p_pos <= S /\ loc.node_v_pos <= L
      /\ loc.bkey_p_pos = a + loc.node_p_pos /\ loc.bkey_v_pos = w + (loc.node_v_pos - S)
      /\ a + S = EndP(heap, lab, loc.node) /\ w + (L - S) = EndV(heap, lab, loc.node)
      /\ Agree(BKey, lab[loc.node].key, loc.bkey_p_pos, loc.bkey_v_pos)
  BY PositionFacts
<1>2. loc.node_p_pos \in Nat /\ loc.node_v_pos \in Nat
  BY LocateFacts
<1>3. ~(loc.node_p_pos < S) /\ ~(loc.node_v_pos < L)
  BY DEF HasMismatch, PathMismatch, ValueMismatch
<1> HIDE DEF S, L, a, w
<1>4. loc.node_p_pos = S /\ loc.node_v_pos = L
  BY <1>1, <1>2, <1>3
<1> QED  BY <1>1, <1>4

\* A key that is consumed is the key of a leaf.
LEMMA FullyMatchedFacts ==
  ASSUME PrefixFree, TypeOK, pc = "locate", NEW lab, Represented(lab), KeyFullyMatched
  PROVE  BKey = lab[loc.node].key /\ N.dim = "Leaf" /\ ~HasMismatch
<1> DEFINE j == lab[loc.node].key
           S == N.sep
           L == Len(N.prefix)
           a == lab[loc.node].p
           w == lab[loc.node].v
           np == loc.node_p_pos
           nv == loc.node_v_pos
           P == EndP(heap, lab, loc.node)
           V == EndV(heap, lab, loc.node)
           K == Len(j.path)
           W == Len(j.value)
<1>1. /\ a \in Nat /\ w \in Nat /\ S \in Nat /\ L \in Nat /\ j \in Key
      /\ np <= S /\ S <= nv /\ nv <= L
      /\ loc.bkey_p_pos = a + np /\ loc.bkey_v_pos = w + (nv - S)
      /\ a + S = P /\ w + (L - S) = V
      /\ Agree(BKey, j, loc.bkey_p_pos, loc.bkey_v_pos)
  BY PositionFacts
<1>2. /\ BKey \in Key /\ BKey.path = bkey.path /\ BKey.value = bkey.value
      /\ loc.bkey_p_pos \in Nat /\ loc.bkey_v_pos \in Nat /\ np \in Nat /\ nv \in Nat
  BY LocateFacts
<1>3. loc.bkey_p_pos = Len(BKey.path) /\ loc.bkey_v_pos = Len(BKey.value)
  <2>1. loc.bkey_p_pos >= Len(BKey.path) /\ loc.bkey_v_pos >= Len(BKey.value)
    BY <1>2 DEF KeyFullyMatched
  <2>2. loc.bkey_p_pos <= Len(BKey.path) /\ loc.bkey_v_pos <= Len(BKey.value)
    BY <1>1 DEF Agree
  <2>3. Len(BKey.path) \in Nat /\ Len(BKey.value) \in Nat
    BY <1>2, KeyFacts
  <2> QED  BY <1>2, <2>1, <2>2, <2>3
<1>4. BKey.path = j.path /\ BKey.value = j.value
  <2>1. /\ BKey \in Key /\ j \in Key /\ loc.bkey_p_pos \in Nat /\ loc.bkey_v_pos \in Nat
        /\ Agree(BKey, j, loc.bkey_p_pos, loc.bkey_v_pos)
    BY <1>1, <1>2
  <2> HIDE DEF S, L, a, w, np, nv, P, V, j, K, W
  <2> QED  BY <1>3, <2>1, AgreeToEnd
<1>5. BKey = j
  <2>1. /\ BKey = [path |-> BKey.path, value |-> BKey.value]
        /\ j = [path |-> j.path, value |-> j.value]
    BY <1>1, <1>2, KeyFacts
  <2> QED  BY <1>4, <2>1
<1>6. a + np = K /\ w + (nv - S) = W /\ P <= K /\ V <= W /\ K \in Nat /\ W \in Nat
  <2>1. P <= K /\ V <= W
    BY LocateFacts, LabelFacts
  <2>2. K \in Nat /\ W \in Nat
    BY <1>1, KeyFacts
  <2> QED  BY <1>1, <1>3, <1>4, <2>1, <2>2
<1>7. EndOK(heap, content, lab, loc.node)
  BY LocateFacts, LabelFacts DEF LabelOK
<1> HIDE DEF S, L, a, w, np, nv, P, V, K, W
<1>8. np = S /\ nv = L /\ P = K /\ V = W
  BY <1>1, <1>2, <1>6
<1>9. ~HasMismatch
  BY <1>1, <1>8 DEF HasMismatch, PathMismatch, ValueMismatch, S, L, np, nv
<1>10. N.dim = "Leaf"
  <2>1. ~(P < K) /\ ~(V < W)
    BY <1>6, <1>8
  <2> QED  BY <1>7, <2>1 DEF EndOK, HasByte, P, V, K, W, N
<1> QED  BY <1>5, <1>9, <1>10

\* At an inner node whose prefix is matched the key has a further byte in the
\* dimension of the node: else it would end inside another key.
LEMMA InnerHasByte ==
  ASSUME PrefixFree, TypeOK, pc = "locate", NEW lab, Represented(lab),
         ~HasMismatch, N.dim # "Leaf"
  PROVE  HasByte(BKey, N.dim, EndP(heap, lab, loc.node), EndV(heap, lab, loc.node))
<1> DEFINE j == lab[loc.node].key
           P == EndP(heap, lab, loc.node)
           V == EndV(heap, lab, loc.node)
<1>1. Agree(BKey, j, P, V)
  BY MatchedFacts
<1>2. /\ HeapOK(heap) /\ Labelled(heap, content, root, lab) /\ loc.node \in DOMAIN heap
      /\ BKey \in Key
  BY LocateFacts
<1>3. P \in Nat /\ V \in Nat /\ j \in Key /\ EndOK(heap, content, lab, loc.node)
  BY <1>2, LabelFacts DEF LabelOK
<1>4. HasByte(j, N.dim, P, V)
  BY <1>3 DEF EndOK, N
<1>5. /\ Len(BKey.path) \in Nat /\ Len(BKey.value) \in Nat
      /\ P <= Len(BKey.path) /\ V <= Len(BKey.value)
  BY <1>1, <1>2, KeyFacts DEF Agree
<1>6. /\ P = Len(BKey.path) => BKey.path = j.path
      /\ V = Len(BKey.value) => BKey.value = j.value
  <2>1. BKey \in Key /\ j \in Key /\ P \in Nat /\ V \in Nat /\ Agree(BKey, j, P, V)
    BY <1>1, <1>2, <1>3
  <2> HIDE DEF P, V, j
  <2> QED  BY <2>1, AgreeToEnd
<1> HIDE DEF P, V, j
<1>7. CASE N.dim = "Path"
  <2>1. P < Len(j.path)
    BY <1>4, <1>7 DEF HasByte
  <2>2. P # Len(BKey.path)
    BY <1>3, <1>6, <2>1
  <2>3. P < Len(BKey.path)
    BY <1>3, <1>5, <2>2
  <2> QED  BY <1>7, <2>3 DEF HasByte, P, V
<1>8. CASE N.dim # "Path"
  <2>1. V < Len(j.value)
    BY <1>4, <1>8 DEF HasByte
  <2>2. V # Len(BKey.value)
    BY <1>3, <1>6, <2>1
  <2>3. V < Len(BKey.value)
    BY <1>3, <1>5, <2>2
  <2> QED  BY <1>8, <2>3 DEF HasByte, P, V
<1> QED  BY <1>7, <1>8

\* At a mismatch the key has a further byte, and it differs from the prefix.
LEMMA MismatchFacts ==
  ASSUME PrefixFree, TypeOK, pc = "locate", NEW lab, Represented(lab)
  PROVE  /\ PathMismatch => /\ HasByte(BKey, "Path", loc.bkey_p_pos, loc.bkey_v_pos)
                            /\ BKey.path[loc.bkey_p_pos + 1] # N.prefix[loc.node_p_pos + 1]
         /\ ValueMismatch => /\ HasByte(BKey, "Value", loc.bkey_p_pos, loc.bkey_v_pos)
                             /\ BKey.value[loc.bkey_v_pos + 1] # N.prefix[loc.node_v_pos + 1]
<1> DEFINE j == lab[loc.node].key
           S == N.sep
           L == Len(N.prefix)
           a == lab[loc.node].p
           w == lab[loc.node].v
           np == loc.node_p_pos
           nv == loc.node_v_pos
           P == EndP(heap, lab, loc.node)
           V == EndV(heap, lab, loc.node)
<1>1. /\ a \in Nat /\ w \in Nat /\ S \in Nat /\ L \in Nat /\ j \in Key
      /\ np <= S /\ S <= nv /\ nv <= L
      /\ loc.bkey_p_pos = a + np /\ loc.bkey_v_pos = w + (nv - S)
      /\ a + S = P /\ w + (L - S) = V
      /\ Agree(BKey, j, loc.bkey_p_pos, loc.bkey_v_pos)
  BY PositionFacts
<1>2. /\ BKey \in Key /\ Located(heap, root, BKey, loc, lab)
      /\ loc.bkey_p_pos \in Nat /\ loc.bkey_v_pos \in Nat /\ np \in Nat /\ nv \in Nat
  BY LocateFacts
<1>3. /\ P <= Len(j.path) /\ V <= Len(j.value) /\ Len(j.path) \in Nat /\ Len(j.value) \in Nat
  BY <1>1, LocateFacts, LabelFacts, KeyFacts
<1>4. /\ Len(BKey.path) \in Nat /\ Len(BKey.value) \in Nat
      /\ loc.bkey_p_pos <= Len(BKey.path) /\ loc.bkey_v_pos <= Len(BKey.value)
  BY <1>1, <1>2, KeyFacts DEF Agree
<1>5. /\ loc.bkey_p_pos = Len(BKey.path) => BKey.path = j.path
      /\ loc.bkey_v_pos = Len(BKey.value) => BKey.value = j.value
  <2>1. /\ BKey \in Key /\ j \in Key /\ loc.bkey_p_pos \in Nat /\ loc.bkey_v_pos \in Nat
        /\ Agree(BKey, j, loc.bkey_p_pos, loc.bkey_v_pos)
    BY <1>1, <1>2
  <2> HIDE DEF S, L, a, w, P, V, j
  <2> QED  BY <2>1, AgreeToEnd
<1>6. /\ np < S => \/ loc.bkey_p_pos = Len(BKey.path)
                   \/ BKey.path[loc.bkey_p_pos + 1] # N.prefix[np + 1]
      /\ nv < L => \/ loc.bkey_v_pos = Len(BKey.value)
                   \/ BKey.value[loc.bkey_v_pos + 1] # N.prefix[nv + 1]
  BY <1>2 DEF Located, N
<1> HIDE DEF S, L, a, w, P, V, j
<1>7. ASSUME PathMismatch
      PROVE  /\ HasByte(BKey, "Path", loc.bkey_p_pos, loc.bkey_v_pos)
             /\ BKey.path[loc.bkey_p_pos + 1] # N.prefix[np + 1]
  <2>1. np < S
    BY <1>7 DEF PathMismatch, S
  <2>2. loc.bkey_p_pos < Len(j.path)
    BY <1>1, <1>2, <1>3, <2>1
  <2>3. loc.bkey_p_pos # Len(BKey.path)
    BY <1>2, <1>5, <2>2
  <2>4. loc.bkey_p_pos < Len(BKey.path)
    BY <1>2, <1>4, <2>3
  <2> QED  BY <1>6, <2>1, <2>3, <2>4 DEF HasByte
<1>8. ASSUME ValueMismatch
      PROVE  /\ HasByte(BKey, "Value", loc.bkey_p_pos, loc.bkey_v_pos)
             /\ BKey.value[loc.bkey_v_pos + 1] # N.prefix[nv + 1]
  <2>1. nv < L
    BY <1>8 DEF ValueMismatch, L
  <2>2. loc.bkey_v_pos < Len(j.value)
    BY <1>1, <1>2, <1>3, <2>1
  <2>3. loc.bkey_v_pos # Len(BKey.value)
    BY <1>2, <1>5, <2>2
  <2>4. loc.bkey_v_pos < Len(BKey.value)
    BY <1>2, <1>4, <2>3
  <2> QED  BY <1>6, <2>1, <2>3, <2>4 DEF HasByte
<1> QED  BY <1>7, <1>8

\* The descent with a stored key meets neither a mismatch nor a missing child.
LEMMA StoredFacts ==
  ASSUME PrefixFree, TypeOK, pc = "locate", NEW lab, Represented(lab),
         content[BKey] # <<>>
  PROVE  /\ ~HasMismatch
         /\ N.dim # "Leaf" => LocateChild # nullptr
<1> DEFINE j == lab[loc.node].key
           S == N.sep
           L == Len(N.prefix)
           a == lab[loc.node].p
           w == lab[loc.node].v
           np == loc.node_p_pos
           nv == loc.node_v_pos
           P == EndP(heap, lab, loc.node)
           V == EndV(heap, lab, loc.node)
<1>1. /\ a \in Nat /\ w \in Nat /\ S \in Nat /\ L \in Nat /\ j \in Key
      /\ np <= S /\ S <= nv /\ nv <= L
      /\ loc.bkey_p_pos = a + np /\ loc.bkey_v_pos = w + (nv - S)
      /\ a + S = P /\ w + (L - S) = V
      /\ Agree(BKey, j, loc.bkey_p_pos, loc.bkey_v_pos)
  BY PositionFacts
<1>2. /\ HeapOK(heap) /\ Labelled(heap, content, root, lab) /\ loc.node \in DOMAIN heap
      /\ BKey \in Key
      /\ loc.bkey_p_pos \in Nat /\ loc.bkey_v_pos \in Nat /\ np \in Nat /\ nv \in Nat
  BY LocateFacts
<1>3. Agree(BKey, j, a, w)
  <2>1. a <= loc.bkey_p_pos /\ w <= loc.bkey_v_pos
    <3> HIDE DEF a, w, S, L, np, nv
    <3> QED  BY <1>1, <1>2
  <2> QED  BY <1>1, <1>2, <2>1, AgreeMono
<1>4. /\ Agree(BKey, j, P, V)
      /\ N.dim # "Leaf" => N.children[ByteAt(BKey, N.dim, P, V)] # nullptr
  BY <1>2, <1>3, StoredIsBelow DEF N
<1>5. /\ \A i \in 1..S : N.prefix[i] = j.path[a + i]
      /\ \A i \in 1..(L - S) : N.prefix[S + i] = j.value[w + i]
  <2>1. LabelOK(heap, content, lab, loc.node)
    BY <1>2, LabelFacts
  <2>2. Spells(N, j, a, w)
    BY <2>1 DEF LabelOK, N
  <2> QED  BY <2>2 DEF Spells
<1>6. /\ \A i \in 1..P : BKey.path[i] = j.path[i]
      /\ \A i \in 1..V : BKey.value[i] = j.value[i]
  BY <1>4 DEF Agree
<1> HIDE DEF S, L, a, w, np, nv, P, V, j
<1>7. ~PathMismatch
  <2>1. SUFFICES ASSUME PathMismatch  PROVE FALSE
    OBVIOUS
  <2>2. np < S /\ BKey.path[loc.bkey_p_pos + 1] # N.prefix[np + 1]
    BY <2>1, MismatchFacts DEF PathMismatch, np, S
  <2>3. np + 1 \in 1..S /\ loc.bkey_p_pos + 1 \in 1..P /\ a + (np + 1) = loc.bkey_p_pos + 1
    BY <1>1, <1>2, <2>2
  <2>4. N.prefix[np + 1] = j.path[a + (np + 1)]
    BY <1>5, <2>3
  <2>5. BKey.path[loc.bkey_p_pos + 1] = j.path[loc.bkey_p_pos + 1]
    BY <1>6, <2>3
  <2> QED  BY <2>2, <2>3, <2>4, <2>5
<1>8. ~ValueMismatch
  <2>1. SUFFICES ASSUME ValueMismatch  PROVE FALSE
    OBVIOUS
  <2>2. nv < L /\ BKey.value[loc.bkey_v_pos + 1] # N.prefix[nv + 1]
    BY <2>1, MismatchFacts DEF ValueMismatch, nv, L
  <2> DEFINE i == (nv - S) + 1
  <2>3. /\ i \in 1..(L - S) /\ S + i = nv + 1
        /\ loc.bkey_v_pos + 1 \in 1..V /\ w + i = loc.bkey_v_pos + 1
    BY <1>1, <1>2, <2>2
  <2>4. N.prefix[S + i] = j.value[w + i]
    BY <1>5, <2>3
  <2>5. BKey.value[loc.bkey_v_pos + 1] = j.value[loc.bkey_v_pos + 1]
    BY <1>6, <2>3
  <2> HIDE DEF i
  <2> QED  BY <2>2, <2>3, <2>4, <2>5
<1>9. ~HasMismatch
  BY <1>7, <1>8 DEF HasMismatch
<1>10. loc.bkey_p_pos = P /\ loc.bkey_v_pos = V
  BY <1>9, MatchedFacts DEF P, V
<1>11. N.dim # "Leaf" => LocateChild # nullptr
  <2>1. NextByte = ByteAt(BKey, N.dim, P, V)
    BY <1>10 DEF NextByte, ByteAt, BKey
  <2> QED  BY <1>4, <2>1 DEF LocateChild
<1> QED  BY <1>9, <1>11

-----------------------------------------------------------------------------
(* The invariant is inductive                                               *)

LEMMA InitInv == Init => IInv
<1> SUFFICES ASSUME Init  PROVE IInv
  OBVIOUS
<1>1. DOMAIN heap = {}
  BY DEF Init
<1>2. TypeOK
  <2>1. content \in [Key -> Seq(Ref)]
    <3>1. <<>> \in Seq(Ref)
      OBVIOUS
    <3> QED  BY <3>1 DEF Init
  <2> QED  BY <1>1, <2>1 DEF Init, TypeOK
<1>3. PICK lab \in [DOMAIN heap -> Label] : TRUE
  <2>1. [n \in DOMAIN heap |-> n] \in [DOMAIN heap -> Label]
    BY <1>1
  <2> QED  BY <2>1
<1>4. Represented(lab)
  <2>1. \A k \in Key : content[k] = <<>>
    BY DEF Init
  <2>2. Labelled(heap, content, root, lab)
    BY <1>1, <1>3, <2>1 DEF Init, Labelled
  <2> QED  BY <2>2 DEF Init, Represented
<1> QED  BY <1>2, <1>3, <1>4 DEF IInv, Represents

\* The state after a successful insertion.
LEMMA SuccessType ==
  ASSUME TypeOK, pc = "locate", Success, HeapOK(heap'), NEW lab,
         LET k == [path |-> bkey.path, value |-> bkey.value]
         IN  Labelled(heap', [content EXCEPT ![k] = Append(@, bkey.ref)], root', lab)
  PROVE  IInv'
<1> DEFINE k == [path |-> bkey.path, value |-> bkey.value]
<1>1. /\ content' = [content EXCEPT ![k] = Append(@, bkey.ref)]
      /\ nr_keys' = nr_keys + 1 /\ pc' = "idle" /\ bkey' = NoKey /\ loc' = NoLoc
  BY DEF Success
<1>2. k \in Key /\ bkey.ref \in Ref /\ content \in [Key -> Seq(Ref)] /\ nr_keys \in Nat
  BY DEF TypeOK, Key
<1> HIDE DEF k
<1>3. content' \in [Key -> Seq(Ref)]
  <2>1. Append(content[k], bkey.ref) \in Seq(Ref)
    BY <1>2
  <2> QED  BY <1>1, <1>2, <2>1
<1>4. Labelled(heap', content', root', lab)
  BY <1>1 DEF k
<1>5. root' \in DOMAIN heap' \cup {nullptr} /\ lab \in [DOMAIN heap' -> Label]
  BY <1>4 DEF Labelled
<1>6. TypeOK'
  <2>1. nr_keys' \in Nat
    BY <1>1, <1>2
  <2> QED  BY <1>1, <1>3, <1>5, <2>1 DEF TypeOK, HeapOK, NoKey, NoLoc
<1>7. Represented(lab)'
  BY <1>1, <1>4 DEF Represented
<1> QED  BY <1>5, <1>6, <1>7 DEF IInv, Represents

LEMMA AddRefStep ==
  ASSUME PrefixFree, IInv, pc = "locate", KeyFullyMatched, AddRef
  PROVE  IInv'
<1>1. TypeOK /\ pc = "locate" /\ KeyFullyMatched /\ N.dim = "Leaf" /\ Success
  BY DEF IInv, AddRef
<1>2. PICK lab \in [DOMAIN heap -> Label] : Represented(lab)
  BY DEF IInv, Represents
<1>3. /\ HeapOK(heap) /\ Labelled(heap, content, root, lab) /\ loc.node \in DOMAIN heap
      /\ BKey \in Key /\ bkey.ref \in Ref
  BY <1>1, <1>2, LocateFacts
<1>4. BKey = lab[loc.node].key
  BY <1>1, <1>2, FullyMatchedFacts
<1>5. heap[loc.node].dim = "Leaf" /\ content \in [Key -> Seq(Ref)]
  BY <1>1 DEF N, TypeOK
<1> DEFINE ct2 == [content EXCEPT ![BKey] = Append(@, bkey.ref)]
<1>6. heap' = [heap EXCEPT ![loc.node].refs = Append(@, bkey.ref)] /\ root' = root
  BY DEF AddRef
<1>7. Labelled(heap', ct2, root', lab) /\ HeapOK(heap')
  BY <1>3, <1>4, <1>5, <1>6, AddRefOK
<1> QED  BY <1>1, <1>7, SuccessType DEF BKey

LEMMA InsertFirstStep ==
  ASSUME IInv, NEW k \in Key, NEW r \in Ref, InsertFirst(k, r)
  PROVE  IInv'
<1>1. TypeOK /\ root = nullptr /\ pc = "idle" /\ content \in [Key -> Seq(Ref)]
      /\ DOMAIN heap \subseteq Node /\ nr_keys \in Nat
  BY DEF IInv, InsertFirst, TypeOK
<1>2. PICK lab \in [DOMAIN heap -> Label] : Labelled(heap, content, root, lab)
  BY DEF IInv, Represents, Represented
<1>3. DOMAIN heap = {}
  BY <1>1, <1>2 DEF Labelled
<1>4. PICK n \in Malloc(DOMAIN heap) :
        /\ root' = n
        /\ heap' = [m \in DOMAIN heap \cup {n} |->
                      IF m = n THEN NewLeaf(k, 0, 0, r) ELSE heap[m]]
  BY DEF InsertFirst
<1>5. n \in Node
  BY <1>1, HeapAssumption
<1> DEFINE lab2 == FirstLabel(n, k)
<1>6. content' = [content EXCEPT ![k] = Append(@, r)]
  BY DEF InsertFirst
<1>7. Labelled(heap', content', root', lab2) /\ HeapOK(heap')
  <2> DEFINE ct2 == [content EXCEPT ![k] = Append(@, r)]
  <2>1. Labelled(heap, content, nullptr, lab)
    BY <1>1, <1>2
  <2>2. Labelled(FirstLeaf(heap, n, k, r), ct2, n, lab2) /\ HeapOK(FirstLeaf(heap, n, k, r))
    BY <1>1, <1>3, <1>5, <2>1, FirstLeafOK
  <2>3. heap' = FirstLeaf(heap, n, k, r) /\ root' = n /\ content' = ct2
    BY <1>4, <1>6 DEF FirstLeaf
  <2> HIDE DEF ct2, lab2
  <2> QED  BY <2>2, <2>3
<1> HIDE DEF lab2
<1>8. pc' = "idle" /\ bkey' = NoKey /\ loc' = NoLoc /\ nr_keys' \in Nat
  <2>1. bkey = NoKey /\ loc = NoLoc
    BY <1>1 DEF TypeOK
  <2> QED  BY <1>1, <2>1 DEF InsertFirst
<1>9. content' \in [Key -> Seq(Ref)]
  <2>1. Append(content[k], r) \in Seq(Ref)
    BY <1>1
  <2> QED  BY <1>1, <1>6, <2>1
<1>10. root' \in DOMAIN heap' \cup {nullptr} /\ lab2 \in [DOMAIN heap' -> Label]
  BY <1>7 DEF Labelled
<1>11. TypeOK'
  BY <1>7, <1>8, <1>9, <1>10 DEF TypeOK, HeapOK, NoKey, NoLoc
<1>12. Represented(lab2)'
  BY <1>7, <1>8 DEF Represented
<1> QED  BY <1>10, <1>11, <1>12 DEF IInv, Represents

\* The Locator at its next node.
LEMMA MatchStep ==
  ASSUME HeapOK(heap), NEW lab, Labelled(heap, content, root, lab),
         NEW n \in DOMAIN heap, NEW k \in Key, NEW key, key.path = k.path, key.value = k.value,
         NEW p, NEW v, p = lab[n].p, v = lab[n].v, Agree(k, lab[n].key, lab[n].p, lab[n].v),
         NEW parent \in DOMAIN heap \cup {nullptr}, NEW b \in Byte,
         Hangs(heap, root, n, parent, b)
  PROVE  /\ Match(key, n, parent, b, p, v) \in Location
         /\ Located(heap, root, k, Match(key, n, parent, b, p, v), lab)
<1> DEFINE mp == MatchLength(k.path, lab[n].p, heap[n].prefix, 0, heap[n].sep)
           mv == MatchLength(k.value, lab[n].v, heap[n].prefix, heap[n].sep, Len(heap[n].prefix))
           l == [node |-> n, parent |-> parent, parent_byte |-> b,
                 bkey_p_pos |-> lab[n].p + mp, bkey_v_pos |-> lab[n].v + mv,
                 node_p_pos |-> mp, node_v_pos |-> heap[n].sep + mv]
<1>1. /\ Located(heap, root, k, l, lab)
      /\ mp \in Nat /\ mv \in Nat /\ lab[n].p \in Nat /\ lab[n].v \in Nat /\ heap[n].sep \in Nat
  BY MatchLocated
<1>2. Match(key, n, parent, b, p, v) = l
  BY DEF Match
<1> HIDE DEF mp, mv
<1>3. l \in Location
  BY <1>1 DEF Location
<1> HIDE DEF l
<1> QED  BY <1>1, <1>2, <1>3

LEMMA BeginStep ==
  ASSUME IInv, NEW k \in Key, NEW r \in Ref, Begin(k, r)
  PROVE  IInv'
<1>1. TypeOK /\ root # nullptr /\ HeapOK(heap) /\ UNCHANGED <<root, heap, nr_keys, content>>
      /\ pc' = "locate"
  BY DEF IInv, Begin, TypeOK, HeapOK
<1>2. PICK lab \in [DOMAIN heap -> Label] : Labelled(heap, content, root, lab)
  BY DEF IInv, Represents, Represented
<1>3. root \in DOMAIN heap /\ lab[root].p = 0 /\ lab[root].v = 0 /\ lab[root].key \in Key
  BY <1>1, <1>2, LabelFacts DEF Labelled
<1>4. Agree(k, lab[root].key, 0, 0)
  BY <1>3, KeyFacts DEF Agree
<1> DEFINE l == Match(k, root, nullptr, 0, 0, 0)
<1>5. l \in Location /\ Located(heap, root, k, l, lab)
  <2>1. Hangs(heap, root, root, nullptr, 0)
    BY DEF Hangs
  <2>2. 0 \in Byte
    BY ByteAssumption DEF Byte
  <2> QED  BY <1>1, <1>2, <1>3, <1>4, <2>1, <2>2, MatchStep
<1>6. loc' = l /\ bkey' = [path |-> k.path, value |-> k.value, ref |-> r]
  BY DEF Begin
<1> HIDE DEF l
<1>7. bkey' \in [path : Paths, value : Values, ref : Ref] /\ BKey' = k
  BY <1>6, KeyFacts DEF BKey
<1>8. TypeOK'
  <2>1. Location' = Location
    BY <1>1 DEF Location
  <2> QED  BY <1>1, <1>5, <1>6, <1>7, <2>1 DEF TypeOK
<1>9. Represented(lab)'
  BY <1>1, <1>2, <1>5, <1>6, <1>7 DEF Represented
<1>10. lab \in [DOMAIN heap' -> Label]
  BY <1>1
<1> QED  BY <1>8, <1>9, <1>10 DEF IInv, Represents

\* The child that the next byte of the key selects.
LEMMA DescendStep ==
  ASSUME PrefixFree, IInv, Descend
  PROVE  IInv'
<1>1. /\ TypeOK /\ pc = "locate" /\ ~HasMismatch /\ N.dim # "Leaf" /\ LocateChild # nullptr
      /\ loc' = Match(bkey, LocateChild, loc.node, NextByte, NextPath, NextValue)
      /\ UNCHANGED <<root, heap, nr_keys, pc, bkey, content>>
  BY DEF IInv, Descend, Descending
<1>2. PICK lab \in [DOMAIN heap -> Label] : Represented(lab)
  BY DEF IInv, Represents
<1>3. /\ HeapOK(heap) /\ Labelled(heap, content, root, lab) /\ loc.node \in DOMAIN heap
      /\ BKey \in Key /\ BKey.path = bkey.path /\ BKey.value = bkey.value
  BY <1>1, <1>2, LocateFacts
<1> DEFINE n == loc.node
           P == EndP(heap, lab, n)
           V == EndV(heap, lab, n)
           d == N.dim
           c == LocateChild
<1>4. Agree(BKey, lab[n].key, P, V) /\ loc.bkey_p_pos = P /\ loc.bkey_v_pos = V
  BY <1>1, <1>2, MatchedFacts
<1>5. HasByte(BKey, d, P, V)
  BY <1>1, <1>2, InnerHasByte
<1>6. NextByte = ByteAt(BKey, d, P, V) /\ NextPath = P + PathStep(d) /\ NextValue = V + ValueStep(d)
  BY <1>4 DEF NextByte, NextPath, NextValue, ByteAt, BKey
<1>7. P \in Nat /\ V \in Nat /\ lab[n].key \in Key
  BY <1>3, LabelFacts
<1>8. NextByte \in Byte
  <2>1. /\ BKey.path \in Seq(Byte) /\ BKey.value \in Seq(Byte)
        /\ Len(BKey.path) \in Nat /\ Len(BKey.value) \in Nat
    BY <1>3, KeyFacts
  <2> HIDE DEF P, V, d
  <2>2. CASE d = "Path"
    <3>1. P + 1 \in 1..Len(BKey.path)
      BY <1>5, <1>7, <2>1, <2>2 DEF HasByte
    <3> QED  BY <1>6, <2>1, <2>2, <3>1 DEF ByteAt
  <2>3. CASE d # "Path"
    <3>1. V + 1 \in 1..Len(BKey.value)
      BY <1>5, <1>7, <2>1, <2>3 DEF HasByte
    <3> QED  BY <1>6, <2>1, <2>3, <3>1 DEF ByteAt
  <2> QED  BY <2>2, <2>3
<1>9. heap[n].children[NextByte] # nullptr /\ c = heap[n].children[NextByte] /\ heap[n].dim = d
  BY <1>1 DEF LocateChild, N
<1>10. /\ c \in DOMAIN heap /\ Agree(lab[n].key, lab[c].key, P, V)
       /\ lab[c].p = P + PathStep(d) /\ lab[c].v = V + ValueStep(d)
       /\ ByteAt(lab[c].key, d, P, V) = NextByte /\ HasByte(lab[c].key, d, P, V)
  BY <1>3, <1>8, <1>9, ChildFacts
<1>11. lab[c].key \in Key
  BY <1>3, <1>10, LabelFacts
<1> HIDE DEF P, V, d, c
<1>12. Agree(BKey, lab[c].key, lab[c].p, lab[c].v)
  <2>1. Agree(BKey, lab[c].key, P, V)
    BY <1>4, <1>10, AgreeTrans
  <2>2. Agree(BKey, lab[c].key, P + PathStep(d), V + ValueStep(d))
    BY <1>3, <1>5, <1>6, <1>7, <1>10, <1>11, <2>1, AgreeStep
  <2> QED  BY <1>10, <2>2
<1>13. Hangs(heap, root, c, n, NextByte)
  <2>1. n # nullptr
    BY <1>3, HeapAssumption DEF HeapOK
  <2> QED  BY <1>3, <1>8, <1>9, <2>1 DEF Hangs
<1>14. NextPath = lab[c].p /\ NextValue = lab[c].v
  BY <1>6, <1>10
<1>15. loc' \in Location /\ Located(heap, root, BKey, loc', lab)
  <2>1. loc' = Match(bkey, c, n, NextByte, NextPath, NextValue)
    BY <1>1 DEF c
  <2> QED  BY <1>3, <1>8, <1>10, <1>12, <1>13, <1>14, <2>1, MatchStep
<1>16. TypeOK'
  <2>1. Location' = Location
    BY <1>1 DEF Location
  <2> QED  BY <1>1, <1>15, <2>1 DEF TypeOK
<1>17. Represented(lab)'
  <2>1. BKey' = BKey
    BY <1>1 DEF BKey
  <2> QED  BY <1>1, <1>3, <1>15, <2>1 DEF Represented
<1>18. lab \in [DOMAIN heap' -> Label]
  BY <1>1
<1> QED  BY <1>16, <1>17, <1>18 DEF IInv, Represents

\* The dimension of a split is one in which the prefix mismatches.
LEMMA DimensionFacts ==
  ASSUME HasMismatch
  PROVE  /\ DetermineDimension \in Dimension
         /\ DetermineDimension = "Path" => PathMismatch
         /\ DetermineDimension # "Path" => ValueMismatch
<1>1. \A x : Opposite(x) \in Dimension
  BY DEF Opposite, Dimension
<1>2. DetermineDimension \in Dimension
  BY <1>1 DEF DetermineDimension, Dimension
<1> QED  BY <1>2 DEF DetermineDimension, HasMismatch, Dimension

\* The split node and the byte that selects it under its new parent.
LEMMA SplitPosition ==
  ASSUME PrefixFree, TypeOK, pc = "locate", NEW lab, Represented(lab), HasMismatch
  PROVE  LET d == DetermineDimension
             P == loc.bkey_p_pos
             V == loc.bkey_v_pos
         IN  /\ SplitAt(N, loc.node_p_pos, loc.node_v_pos, d)
             /\ HasByte(BKey, d, P, V)
             /\ SiblingByte(d) = ByteAt(BKey, d, P, V)
             /\ NodeByte(d) = ByteAt(lab[loc.node].key, d, P, V)
             /\ SiblingByte(d) # NodeByte(d)
<1> DEFINE d == DetermineDimension
           j == lab[loc.node].key
           S == N.sep
           L == Len(N.prefix)
           a == lab[loc.node].p
           w == lab[loc.node].v
           np == loc.node_p_pos
           nv == loc.node_v_pos
           P == loc.bkey_p_pos
           V == loc.bkey_v_pos
<1>1. /\ a \in Nat /\ w \in Nat /\ S \in Nat /\ L \in Nat
      /\ np <= S /\ S <= nv /\ nv <= L
      /\ P = a + np /\ V = w + (nv - S)
  BY PositionFacts
<1>2. /\ np \in Nat /\ nv \in Nat /\ P \in Nat /\ V \in Nat /\ N \in NodeRecord
      /\ HeapOK(heap) /\ Labelled(heap, content, root, lab) /\ loc.node \in DOMAIN heap
  BY LocateFacts
<1>3. /\ d \in Dimension
      /\ d = "Path" => np < S
      /\ d # "Path" => nv < L
  BY DimensionFacts DEF PathMismatch, ValueMismatch
<1>4. /\ d = "Path" => /\ HasByte(BKey, "Path", P, V)
                       /\ BKey.path[P + 1] # N.prefix[np + 1]
      /\ d # "Path" => /\ HasByte(BKey, "Value", P, V)
                       /\ BKey.value[V + 1] # N.prefix[nv + 1]
  BY DimensionFacts, MismatchFacts
<1>5. /\ \A i \in 1..S : N.prefix[i] = j.path[a + i]
      /\ \A i \in 1..(L - S) : N.prefix[S + i] = j.value[w + i]
  <2>1. LabelOK(heap, content, lab, loc.node)
    BY <1>2, LabelFacts
  <2>2. Spells(N, j, a, w)
    BY <2>1 DEF LabelOK, N
  <2> QED  BY <2>2 DEF Spells
<1>6. SiblingByte(d) = ByteAt(BKey, d, P, V)
  BY DEF SiblingByte, ByteAt, BKey
<1> HIDE DEF d, j, S, L, a, w, np, nv, P, V
<1>7. SplitAt(N, np, nv, d)
  <2>1. /\ np \in 0..S /\ nv \in S..L
        /\ np + PathStep(d) <= S /\ nv + ValueStep(d) <= L
    BY <1>1, <1>2, <1>3 DEF PathStep, ValueStep
  <2> QED  BY <1>2, <1>3, <2>1 DEF SplitAt, S, L
<1>8. HasByte(BKey, d, P, V)
  BY <1>4 DEF HasByte
<1>9. NodeByte(d) = ByteAt(j, d, P, V)
  <2>1. CASE d = "Path"
    <3>1. np + 1 \in 1..S /\ a + (np + 1) = P + 1
      BY <1>1, <1>2, <1>3, <2>1
    <3>2. N.prefix[np + 1] = j.path[P + 1]
      BY <1>5, <3>1
    <3> QED  BY <2>1, <3>2 DEF NodeByte, ByteAt, np
  <2>2. CASE d # "Path"
    <3> DEFINE i == (nv - S) + 1
    <3>1. i \in 1..(L - S) /\ S + i = nv + 1 /\ w + i = V + 1
      BY <1>1, <1>2, <1>3, <2>2
    <3> HIDE DEF i
    <3>2. N.prefix[nv + 1] = j.value[V + 1]
      BY <1>5, <3>1
    <3> QED  BY <2>2, <3>2 DEF NodeByte, ByteAt, nv
  <2> QED  BY <2>1, <2>2
<1>10. SiblingByte(d) # NodeByte(d)
  <2>1. d = "Path" => NodeByte(d) = N.prefix[np + 1] /\ ByteAt(BKey, d, P, V) = BKey.path[P + 1]
    BY DEF NodeByte, ByteAt, np
  <2>2. d # "Path" => NodeByte(d) = N.prefix[nv + 1] /\ ByteAt(BKey, d, P, V) = BKey.value[V + 1]
    BY DEF NodeByte, ByteAt, nv
  <2> QED  BY <1>4, <1>6, <2>1, <2>2
<1> QED  BY <1>6, <1>7, <1>8, <1>9, <1>10 DEF d, j, np, nv, P, V

LEMMA RestructureStep ==
  ASSUME PrefixFree, IInv, pc = "locate", ~KeyFullyMatched, HasMismatch, Restructure
  PROVE  IInv'
<1> DEFINE n == loc.node
           d == DetermineDimension
           np == loc.node_p_pos
           nv == loc.node_v_pos
           P == loc.bkey_p_pos
           V == loc.bkey_v_pos
           par == loc.parent
           pb == loc.parent_byte
           nb == NodeByte(d)
           sb == SiblingByte(d)
           u == UpperNode(N, np, nv, d, nb, n)
           y == LowerNode(N, np, nv, d)
           p2 == P + PathStep(d)
           v2 == V + ValueStep(d)
           x == NewLeaf(BKey, p2, v2, bkey.ref)
<1>1. TypeOK /\ pc = "locate" /\ HasMismatch /\ Success
  BY DEF IInv, Restructure
<1>2. PICK lab \in [DOMAIN heap -> Label] : Represented(lab)
  BY DEF IInv, Represents
<1>3. /\ HeapOK(heap) /\ Labelled(heap, content, root, lab) /\ n \in DOMAIN heap
      /\ BKey \in Key /\ bkey.ref \in Ref /\ content \in [Key -> Seq(Ref)]
      /\ Hangs(heap, root, n, par, pb) /\ N = heap[n]
  BY <1>1, <1>2, LocateFacts DEF N, TypeOK
<1> DEFINE g(q, s) == [m \in DOMAIN heap \cup {q, s} |->
                        CASE m = q -> Put(Put(NewNode4(d, ParentPrefix, np), nb, n), sb, s)
                          [] m = s -> NewSibling(d)
                          [] m = n -> Shortened(d)
                          [] OTHER -> heap[m]]
<1>4a. PICK q \in Malloc(DOMAIN heap) :
         \E s \in Malloc(DOMAIN heap \cup {q}) : Relink(g(q, s), q)
  BY DEF Restructure
<1>4. PICK s \in Malloc(DOMAIN heap \cup {q}) : Relink(g(q, s), q)
  BY <1>4a
<1>5. /\ q \in Node /\ q \notin DOMAIN heap
      /\ s \in Node /\ s \notin DOMAIN heap /\ s # q
  BY <1>3, <1>4a, <1>4, HeapAssumption DEF HeapOK
<1>6. content[BKey] = <<>>
  BY <1>1, <1>2, StoredFacts
<1>7. /\ SplitAt(heap[n], np, nv, d) /\ HasByte(BKey, d, P, V) /\ sb = ByteAt(BKey, d, P, V)
      /\ nb = ByteAt(lab[n].key, d, P, V) /\ sb # nb
  BY <1>1, <1>2, <1>3, SplitPosition
<1>8. /\ P = lab[n].p + np /\ V = lab[n].v + (nv - heap[n].sep)
      /\ Agree(BKey, lab[n].key, P, V)
  BY <1>1, <1>2, <1>3, PositionFacts
<1>9. u = Put(NewNode4(d, ParentPrefix, np), nb, n) /\ y = Shortened(d) /\ x = NewSibling(d)
  BY DEF UpperNode, LowerNode, ParentPrefix, Shortened, NewSibling, NewLeaf, BKey
<1> HIDE DEF n, d, np, nv, P, V, par, pb, nb, sb
<1> DEFINE h1 == Split(heap, n, q, par, pb, u, y)
           rt1 == IF par = nullptr THEN q ELSE root
           lab1 == SplitLabel(lab, n, q, [key |-> lab[n].key, p |-> p2, v |-> v2])
<1>10. /\ Labelled(h1, content, rt1, lab1) /\ HeapOK(h1)
       /\ q \in DOMAIN h1 /\ lab1[q] = lab[n] /\ h1[q].dim = d
       /\ EndP(h1, lab1, q) = P /\ EndV(h1, lab1, q) = V
       /\ \A c \in Byte : h1[q].children[c] = IF c = nb THEN n ELSE nullptr
  BY <1>3, <1>5, <1>7, <1>8, SplitOK
<1>11. DOMAIN h1 = DOMAIN heap \cup {q} /\ h1[q] = u
  BY DEF Split
<1>12. d \in Dimension /\ (d # "Leaf")
  BY <1>7 DEF SplitAt, Dimension
<1>13. sb \in Byte
  <2>1. /\ BKey.path \in Seq(Byte) /\ BKey.value \in Seq(Byte)
        /\ Len(BKey.path) \in Nat /\ Len(BKey.value) \in Nat
    BY <1>3, KeyFacts
  <2>2. P \in Nat /\ V \in Nat
    BY <1>1, <1>2, LocateFacts DEF P, V
  <2>3. CASE d = "Path"
    <3>1. P + 1 \in 1..Len(BKey.path)
      BY <1>7, <2>1, <2>2, <2>3 DEF HasByte
    <3> QED  BY <1>7, <2>1, <2>3, <3>1 DEF ByteAt
  <2>4. CASE d # "Path"
    <3>1. V + 1 \in 1..Len(BKey.value)
      BY <1>7, <2>1, <2>2, <2>4 DEF HasByte
    <3> QED  BY <1>7, <2>1, <2>4, <3>1 DEF ByteAt
  <2> QED  BY <2>3, <2>4
<1> DEFINE h2 == Linked(h1, q, sb, s, x)
           ct2 == [content EXCEPT ![BKey] = Append(@, bkey.ref)]
           lab2 == With(lab1, s, [key |-> BKey, p |-> p2, v |-> v2])
<1>14. Labelled(h2, ct2, rt1, lab2) /\ HeapOK(h2)
  <2>1. h1[q].children[sb] = nullptr
    BY <1>7, <1>10, <1>13
  <2>2. Agree(BKey, lab1[q].key, P, V)
    BY <1>8, <1>10
  <2>3. s \notin DOMAIN h1
    BY <1>5, <1>11
  <2> HIDE DEF h1, rt1, lab1
  <2> QED  BY <1>3, <1>5, <1>6, <1>7, <1>10, <1>12, <2>1, <2>2, <2>3, AddLeafOK
<1>15. heap' = h2 /\ root' = rt1
  <2> DEFINE g0 == g(q, s)
  <2>1. /\ par = nullptr => root' = q /\ heap' = g0
        /\ par # nullptr => root' = root /\ heap' = [g0 EXCEPT ![par] = Put(@, pb, q)]
    BY <1>4 DEF Relink, par, pb
  <2>2. par # nullptr => par \in DOMAIN heap /\ par # n
    BY <1>3, HangsFacts DEF Hangs
  <2>3. nullptr \notin DOMAIN heap
    BY <1>3, HeapAssumption DEF HeapOK
  <2>4. /\ DOMAIN g0 = DOMAIN heap \cup {q, s}
        /\ g0[q] = Put(u, sb, s) /\ g0[s] = x /\ g0[n] = y
        /\ \A m \in DOMAIN heap \ {n} : g0[m] = heap[m]
    BY <1>3, <1>5, <1>9
  <2> HIDE DEF g0, g, u, y, x
  <2>5. /\ h2 = [m \in DOMAIN h2 |-> h2[m]] /\ DOMAIN h2 = DOMAIN heap \cup {q, s}
        /\ h2[q] = Put(u, sb, s) /\ h2[s] = x /\ h2[n] = y
        /\ \A m \in DOMAIN heap \ {n} : h2[m] = IF m = par THEN Put(heap[m], pb, q) ELSE heap[m]
    BY <1>3, <1>5 DEF Linked, Split
  <2> DEFINE h3 == [g0 EXCEPT ![par] = Put(@, pb, q)]
  <2>6. CASE par = nullptr
    <3>1. g0 = [m \in DOMAIN g0 |-> g0[m]]
      BY DEF g0, g
    <3>2. \A m \in DOMAIN heap \cup {q, s} : g0[m] = h2[m]
      BY <2>3, <2>4, <2>5, <2>6
    <3> HIDE DEF h2
    <3>3. g0 = h2
      BY <2>4, <2>5, <3>1, <3>2
    <3> QED  BY <2>1, <2>6, <3>3
  <2>7. CASE par # nullptr
    <3>1. /\ h3 = [m \in DOMAIN h3 |-> h3[m]] /\ DOMAIN h3 = DOMAIN g0
          /\ \A m \in DOMAIN g0 : h3[m] = IF m = par THEN Put(g0[m], pb, q) ELSE g0[m]
      OBVIOUS
    <3>2. par \in DOMAIN heap \ {n} /\ par # q /\ par # s
      BY <1>5, <2>2, <2>7
    <3> HIDE DEF h2, h3
    <3>3. \A m \in DOMAIN heap \cup {q, s} : h3[m] = h2[m]
      BY <1>3, <2>4, <2>5, <3>1, <3>2
    <3>4. h3 = h2
      BY <2>4, <2>5, <3>1, <3>3
    <3> QED  BY <2>1, <2>7, <3>4 DEF h3
  <2> QED  BY <2>6, <2>7
<1> HIDE DEF h2, rt1, lab2
<1> QED  BY <1>1, <1>14, <1>15, SuccessType DEF BKey

\* A full node that lacks a child is not of the widest layout: it can grow.
LEMMA GrowFacts ==
  ASSUME NEW x \in InnerNode, x.sep <= Len(x.prefix), IsFull(x),
         NEW b \in Byte, x.children[b] = nullptr
  PROVE  /\ Grow(x) \in NodeRecord
         /\ Grow(x).dim = x.dim /\ Grow(x).prefix = x.prefix /\ Grow(x).sep = x.sep
         /\ Grow(x).refs = x.refs /\ Grow(x).children = x.children
<1> DEFINE used == {c \in Byte : x.children[c] # nullptr}
           top == Len(Widths)
<1>1. top \in Nat /\ Widths[top] = MaxByte + 1 /\ MaxByte \in Nat
  BY WidthAssumption, ByteAssumption
<1>2. Cardinality(used) <= MaxByte
  <2>1. IsFiniteSet(0..MaxByte) /\ Cardinality(0..MaxByte) = MaxByte + 1
    <3>1. /\ IsFiniteSet(0..MaxByte)
          /\ Cardinality(0..MaxByte) = IF 0 > MaxByte THEN 0 ELSE MaxByte - 0 + 1
      BY ByteAssumption, FS_Interval
    <3> QED  BY <1>1, <3>1
  <2>2. used \subseteq (0..MaxByte) \ {b}
    BY DEF Byte
  <2>3. IsFiniteSet((0..MaxByte) \ {b}) /\ Cardinality((0..MaxByte) \ {b}) = MaxByte
    <3>1. b \in 0..MaxByte
      BY DEF Byte
    <3> DEFINE B == 0..MaxByte
    <3> HIDE DEF B
    <3>2. IsFiniteSet(B \ {b}) /\ Cardinality(B \ {b}) = Cardinality(B) - 1
      BY <2>1, <3>1, FS_RemoveElement DEF B
    <3> QED  BY <1>1, <2>1, <3>2 DEF B
  <2> HIDE DEF used
  <2> QED  BY <2>2, <2>3, FS_Subset
<1>3. Cardinality(used) >= Widths[x.layout]
  BY DEF IsFull, NrChildren
<1>4. x.layout \in 1..top
  BY DEF InnerNode
<1> HIDE DEF used
<1>5. x.layout # top
  <2>1. Cardinality(used) \in Nat
    <3>1. IsFiniteSet(Byte)
      BY <1>1, FS_Interval DEF Byte
    <3>2. used \subseteq Byte
      BY DEF used
    <3> QED  BY <3>1, <3>2, FS_Subset, FS_CardinalityType
  <2> QED  BY <1>1, <1>2, <1>3, <2>1
<1>6. x.layout + 1 \in 1..top
  BY <1>1, <1>4, <1>5
<1>7. /\ Grow(x) \in InnerNode
      /\ Grow(x).dim = x.dim /\ Grow(x).prefix = x.prefix /\ Grow(x).sep = x.sep
      /\ Grow(x).refs = x.refs /\ Grow(x).children = x.children
  BY <1>6 DEF Grow, InnerNode
<1> QED  BY <1>7 DEF NodeRecord

LEMMA AddNewLeafStep ==
  ASSUME PrefixFree, IInv, AddNewLeaf
  PROVE  IInv'
<1> DEFINE n == loc.node
           d == N.dim
           par == loc.parent
           pb == loc.parent_byte
           b == NextByte
<1>1. /\ TypeOK /\ pc = "locate" /\ ~HasMismatch /\ N.dim # "Leaf" /\ LocateChild = nullptr
      /\ Success
  BY DEF IInv, AddNewLeaf, Descending
<1>2. PICK lab \in [DOMAIN heap -> Label] : Represented(lab)
  BY DEF IInv, Represents
<1> DEFINE P == EndP(heap, lab, n)
           V == EndV(heap, lab, n)
           p2 == P + PathStep(d)
           v2 == V + ValueStep(d)
           x == NewLeaf(BKey, p2, v2, bkey.ref)
<1>3. /\ HeapOK(heap) /\ Labelled(heap, content, root, lab) /\ n \in DOMAIN heap
      /\ BKey \in Key /\ bkey.ref \in Ref /\ content \in [Key -> Seq(Ref)]
      /\ Hangs(heap, root, n, par, pb) /\ N = heap[n] /\ N \in NodeRecord
  BY <1>1, <1>2, LocateFacts DEF N, TypeOK
<1>4. Agree(BKey, lab[n].key, P, V) /\ loc.bkey_p_pos = P /\ loc.bkey_v_pos = V
  BY <1>1, <1>2, MatchedFacts
<1>5. HasByte(BKey, d, P, V)
  BY <1>1, <1>2, InnerHasByte
<1>6. b = ByteAt(BKey, d, P, V) /\ NewSibling(d) = x
  BY <1>4 DEF NextByte, NewSibling, NewLeaf, ByteAt, BKey
<1>7. content[BKey] = <<>>
  BY <1>1, <1>2, StoredFacts
<1>8. heap[n].dim = d /\ d # "Leaf" /\ heap[n].children[b] = nullptr
  BY <1>1 DEF N, LocateChild
<1> DEFINE e(s) == [m \in DOMAIN heap \cup {s} |->
                      CASE m = s -> NewSibling(d)
                        [] m = n -> Put(N, b, s)
                        [] OTHER -> heap[m]]
           f(s, g) == [m \in (DOMAIN heap \cup {s, g}) \ {n} |->
                         CASE m = s -> NewSibling(d)
                           [] m = g -> Put(Grow(N), b, s)
                           [] OTHER -> heap[m]]
<1>9. PICK s \in Malloc(DOMAIN heap) :
        IF IsFull(N)
        THEN \E g \in Malloc(DOMAIN heap \cup {s}) : Relink(f(s, g), g)
        ELSE heap' = e(s) /\ root' = root
  BY DEF AddNewLeaf
<1>10. s \in Node /\ s \notin DOMAIN heap
  BY <1>3, <1>9, HeapAssumption DEF HeapOK
<1> DEFINE ct2 == [content EXCEPT ![BKey] = Append(@, bkey.ref)]
           l == [key |-> BKey, p |-> p2, v |-> v2]
<1>11. CASE ~IsFull(N)
  <2> DEFINE h2 == Linked(heap, n, b, s, x)
             lab2 == With(lab, s, l)
  <2>1. Labelled(h2, ct2, root, lab2) /\ HeapOK(h2)
    <3> HIDE DEF n, d, P, V, b
    <3>1. /\ Agree(BKey, lab[n].key, EndP(heap, lab, n), EndV(heap, lab, n))
          /\ HasByte(BKey, heap[n].dim, EndP(heap, lab, n), EndV(heap, lab, n))
          /\ b = ByteAt(BKey, heap[n].dim, EndP(heap, lab, n), EndV(heap, lab, n))
          /\ p2 = EndP(heap, lab, n) + PathStep(heap[n].dim)
          /\ v2 = EndV(heap, lab, n) + ValueStep(heap[n].dim)
      BY <1>4, <1>5, <1>6, <1>8 DEF P, V
    <3> HIDE DEF p2, v2
    <3> QED  BY <1>3, <1>7, <1>8, <1>10, <3>1, AddLeafOK
  <2>2. heap' = h2 /\ root' = root
    <3>1. heap' = e(s) /\ root' = root
      BY <1>9, <1>11
    <3>2. e(s) = [m \in DOMAIN heap \cup {s} |->
                    IF m = s THEN x ELSE IF m = n THEN Put(heap[n], b, s) ELSE heap[m]]
      <4>1. NewSibling(d) = x /\ N = heap[n] /\ s # n
        BY <1>3, <1>6, <1>10
      <4> HIDE DEF n, b, x, d
      <4> QED  BY <4>1
    <3> HIDE DEF e, n, b, x
    <3> QED  BY <3>1, <3>2 DEF Linked
  <2> HIDE DEF h2, lab2
  <2> QED  BY <1>1, <2>1, <2>2, SuccessType DEF BKey
<1>12. CASE IsFull(N)
  <2>1. PICK g \in Malloc(DOMAIN heap \cup {s}) : Relink(f(s, g), g)
    BY <1>9, <1>12
  <2>2. g \in Node /\ g \notin DOMAIN heap /\ g # s
    BY <1>3, <1>10, <2>1, HeapAssumption DEF HeapOK
  <2>3. b \in Byte
    <3>1. /\ BKey.path \in Seq(Byte) /\ BKey.value \in Seq(Byte)
          /\ Len(BKey.path) \in Nat /\ Len(BKey.value) \in Nat
      BY <1>3, KeyFacts
    <3>2. P \in Nat /\ V \in Nat
      BY <1>3, LabelFacts
    <3> HIDE DEF P, V, d
    <3>3. CASE d = "Path"
      <4>1. P + 1 \in 1..Len(BKey.path)
        BY <1>5, <3>1, <3>2, <3>3 DEF HasByte
      <4> QED  BY <1>6, <3>1, <3>3, <4>1 DEF ByteAt
    <3>4. CASE d # "Path"
      <4>1. V + 1 \in 1..Len(BKey.value)
        BY <1>5, <3>1, <3>2, <3>4 DEF HasByte
      <4> QED  BY <1>6, <3>1, <3>4, <4>1 DEF ByteAt
    <3> QED  BY <3>3, <3>4
  <2> DEFINE z == Grow(N)
  <2>4. /\ z \in NodeRecord /\ z.dim = heap[n].dim /\ z.prefix = heap[n].prefix
        /\ z.sep = heap[n].sep /\ z.refs = heap[n].refs /\ z.children = heap[n].children
    <3>1. N \in InnerNode /\ N.sep <= Len(N.prefix)
      BY <1>1, <1>3, NodeFacts
    <3> HIDE DEF b
    <3> QED  BY <1>3, <1>8, <1>12, <2>3, <3>1, GrowFacts
  <2> HIDE DEF n, d, P, V, par, pb, b, z
  <2> DEFINE h1 == Move(heap, n, g, par, pb, z)
             rt1 == IF par = nullptr THEN g ELSE root
             lab1 == MoveLabel(lab, n, g)
  <2>5. /\ Labelled(h1, content, rt1, lab1) /\ HeapOK(h1)
        /\ g \in DOMAIN h1 /\ lab1[g] = lab[n]
        /\ h1[g].dim = d /\ h1[g].children = heap[n].children
        /\ EndP(h1, lab1, g) = P /\ EndV(h1, lab1, g) = V
    BY <1>3, <1>8, <2>2, <2>4, MoveOK DEF P, V
  <2>6. DOMAIN h1 = (DOMAIN heap \cup {g}) \ {n}
    BY DEF Move
  <2> DEFINE h2 == Linked(h1, g, b, s, x)
             lab2 == With(lab1, s, l)
  <2>7. Labelled(h2, ct2, rt1, lab2) /\ HeapOK(h2)
    <3>1. h1[g].children[b] = nullptr /\ Agree(BKey, lab1[g].key, P, V)
      BY <1>4, <1>8, <2>5
    <3>2. s \notin DOMAIN h1
      BY <1>10, <2>2, <2>6
    <3> HIDE DEF h1, rt1, lab1
    <3> QED  BY <1>3, <1>5, <1>6, <1>7, <1>8, <1>10, <2>5, <3>1, <3>2, AddLeafOK
  <2>8. heap' = h2 /\ root' = rt1
    <3> DEFINE g0 == f(s, g)
               h3 == [g0 EXCEPT ![par] = Put(@, pb, g)]
    <3>1. /\ par = nullptr => root' = g /\ heap' = g0
          /\ par # nullptr => root' = root /\ heap' = h3
      BY <2>1 DEF Relink, par, pb
    <3>2. par # nullptr => par \in DOMAIN heap /\ par # n
      BY <1>3, HangsFacts DEF Hangs
    <3>3. nullptr \notin DOMAIN heap
      BY <1>3, HeapAssumption DEF HeapOK
    <3>4. /\ g0 = [m \in DOMAIN g0 |-> g0[m]]
          /\ DOMAIN g0 = (DOMAIN heap \cup {s, g}) \ {n}
          /\ g0[g] = Put(z, b, s) /\ g0[s] = x
          /\ \A m \in DOMAIN heap \ {n} : g0[m] = heap[m]
      BY <1>3, <1>6, <1>10, <2>2 DEF z
    <3> HIDE DEF f, g0, x
    <3>5. /\ h2 = [m \in DOMAIN h2 |-> h2[m]] /\ DOMAIN h2 = (DOMAIN heap \cup {s, g}) \ {n}
          /\ h2[g] = Put(z, b, s) /\ h2[s] = x
          /\ \A m \in DOMAIN heap \ {n} : h2[m] = IF m = par THEN Put(heap[m], pb, g) ELSE heap[m]
      BY <1>3, <1>10, <2>2 DEF Linked, Move
    <3>6. CASE par = nullptr
      <4>1. \A m \in (DOMAIN heap \cup {s, g}) \ {n} : g0[m] = h2[m]
        BY <3>3, <3>4, <3>5, <3>6
      <4> HIDE DEF h2
      <4>2. g0 = h2
        BY <3>4, <3>5, <4>1
      <4> QED  BY <3>1, <3>6, <4>2
    <3>7. CASE par # nullptr
      <4>1. /\ h3 = [m \in DOMAIN h3 |-> h3[m]] /\ DOMAIN h3 = DOMAIN g0
            /\ \A m \in DOMAIN g0 : h3[m] = IF m = par THEN Put(g0[m], pb, g) ELSE g0[m]
        OBVIOUS
      <4>2. par \in DOMAIN heap \ {n} /\ par # g /\ par # s
        BY <1>10, <2>2, <3>2, <3>7
      <4> HIDE DEF h2, h3
      <4>3. \A m \in (DOMAIN heap \cup {s, g}) \ {n} : h3[m] = h2[m]
        BY <3>4, <3>5, <4>1, <4>2
      <4>4. h3 = h2
        BY <3>4, <3>5, <4>1, <4>3
      <4> QED  BY <3>1, <3>7, <4>4
    <3> QED  BY <3>6, <3>7
  <2> HIDE DEF h2, rt1, lab2
  <2> QED  BY <1>1, <2>7, <2>8, SuccessType DEF BKey
<1> QED  BY <1>11, <1>12

LEMMA RejectStep ==
  ASSUME IInv, NEW d, Reject \/ Abort \/ ReadBehindKey(d)
  PROVE  IInv'
<1>1. /\ pc' \in {"idle", "aborted", "undefined"} /\ bkey' = NoKey /\ loc' = NoLoc
      /\ UNCHANGED <<root, heap, nr_keys, content>>
  BY DEF Reject, Abort, ReadBehindKey
<1>2. PICK lab \in [DOMAIN heap -> Label] : Labelled(heap, content, root, lab)
  BY DEF IInv, Represents, Represented
<1>3. TypeOK'
  BY <1>1 DEF IInv, TypeOK
<1>4. Represented(lab)'
  BY <1>1, <1>2 DEF Represented
<1>5. lab \in [DOMAIN heap' -> Label]
  BY <1>1
<1> QED  BY <1>3, <1>4, <1>5 DEF IInv, Represents

LEMMA NextInv ==
  ASSUME PrefixFree, IInv, [Next]_vars
  PROVE  IInv'
<1>1. ASSUME NEW k \in Key, NEW r \in Ref, InsertFirst(k, r)  PROVE IInv'
  BY <1>1, InsertFirstStep
<1>2. ASSUME NEW k \in Key, NEW r \in Ref, Begin(k, r)  PROVE IInv'
  BY <1>2, BeginStep
<1>3. CASE Locate
  BY <1>3, DescendStep, RejectStep DEF Locate
<1>4. CASE AddRefToExistingLeaf
  BY <1>4, AddRefStep, RejectStep DEF AddRefToExistingLeaf
<1>5. CASE AtMismatch
  BY <1>5, RestructureStep, RejectStep DEF AtMismatch
<1>6. CASE AddNewLeaf
  BY <1>6, AddNewLeafStep
<1>7. CASE UNCHANGED vars
  BY <1>7 DEF vars, IInv, TypeOK, Represents, Represented, Location, BKey
<1> QED  BY <1>1, <1>2, <1>3, <1>4, <1>5, <1>6, <1>7 DEF Next, LocateSteps

-----------------------------------------------------------------------------
(* How full the nodes are                                                   *)

\* FanOut for the node record x.
Room(x) ==
  x.dim # "Leaf" =>
    /\ NrChildren(x) \in 2..Widths[x.layout]
    /\ x.layout > 1 => NrChildren(x) > Widths[x.layout - 1]

RoomInside(h) == \A m \in DOMAIN h : Room(h[m])

\* Only the entries in use and the layout matter.
LEMMA SameRoom ==
  ASSUME NEW x, Room(x), NEW y, y.dim = x.dim, y.layout = x.layout,
         \A b \in Byte : y.children[b] = nullptr <=> x.children[b] = nullptr
  PROVE  Room(y)
<1>1. NrChildren(y) = NrChildren(x)
  <2>1. {b \in Byte : y.children[b] # nullptr} = {b \in Byte : x.children[b] # nullptr}
    OBVIOUS
  <2> QED  BY <2>1 DEF NrChildren
<1> QED  BY <1>1 DEF Room

\* Put adds a child if the entry is free.
LEMMA PutCount ==
  ASSUME NEW z \in NodeRecord, z.dim # "Leaf", NEW b \in Byte, NEW s \in Node
  PROVE  /\ NrChildren(z) \in Nat
         /\ NrChildren(Put(z, b, s)) =
              IF z.children[b] = nullptr THEN NrChildren(z) + 1 ELSE NrChildren(z)
<1> DEFINE kids == {c \in Byte : z.children[c] # nullptr}
<1>1. IsFiniteSet(kids)
  <2>1. IsFiniteSet(Byte)
    BY ByteAssumption, FS_Interval DEF Byte
  <2>2. kids \in SUBSET Byte
    OBVIOUS
  <2> QED  BY <2>1, <2>2, FS_Subset
<1>2. {c \in Byte : Put(z, b, s).children[c] # nullptr} = kids \cup {b}
  BY PutFacts, HeapAssumption
<1>3. b \in kids <=> z.children[b] # nullptr
  OBVIOUS
<1> HIDE DEF kids
<1>4. Cardinality(kids) \in Nat
  BY <1>1, FS_CardinalityType
<1>5. Cardinality(kids \cup {b}) = IF b \in kids THEN Cardinality(kids) ELSE Cardinality(kids) + 1
  BY <1>1, FS_AddElement
<1> QED  BY <1>2, <1>3, <1>4, <1>5 DEF NrChildren, kids

\* A link that changes its target leaves the counts alone.
LEMMA RelinkRoom ==
  ASSUME NEW h, h = [m \in DOMAIN h |-> h[m]], RoomInside(h), NEW q \in Node, Relink(h, q),
         loc.parent # nullptr =>
           /\ loc.parent \in DOMAIN h /\ h[loc.parent] \in NodeRecord
           /\ h[loc.parent].dim # "Leaf" /\ loc.parent_byte \in Byte
           /\ h[loc.parent].children[loc.parent_byte] # nullptr
  PROVE  DOMAIN heap' = DOMAIN h /\ RoomInside(heap')
<1>1. CASE loc.parent = nullptr
  BY <1>1 DEF Relink, RoomInside
<1>2. CASE loc.parent # nullptr
  <2> DEFINE z == h[loc.parent]
             y == Put(z, loc.parent_byte, q)
  <2>1. heap' = [h EXCEPT ![loc.parent] = y]
    BY <1>2 DEF Relink
  <2>2. Room(y)
    <3>1. /\ y.dim = z.dim /\ y.layout = z.layout
          /\ \A c \in Byte : y.children[c] = IF c = loc.parent_byte THEN q ELSE z.children[c]
      BY <1>2, PutFacts
    <3>2. Room(z) /\ q # nullptr /\ z.children[loc.parent_byte] # nullptr
      BY <1>2, HeapAssumption DEF RoomInside
    <3> HIDE DEF z, y
    <3> QED  BY <3>1, <3>2, SameRoom
  <2> HIDE DEF z, y
  <2> QED  BY <1>2, <2>1, <2>2 DEF RoomInside
<1> QED  BY <1>1, <1>2

\* The parent of the node where the Locator stands.
LEMMA ParentFacts ==
  ASSUME TypeOK, pc = "locate", NEW lab, Represented(lab), loc.parent # nullptr
  PROVE  /\ loc.parent \in DOMAIN heap /\ loc.parent # loc.node
         /\ heap[loc.parent] \in NodeRecord /\ heap[loc.parent].dim # "Leaf"
         /\ loc.parent_byte \in Byte
         /\ heap[loc.parent].children[loc.parent_byte] # nullptr
<1>1. /\ HeapOK(heap) /\ Labelled(heap, content, root, lab) /\ loc.node \in DOMAIN heap
      /\ Hangs(heap, root, loc.node, loc.parent, loc.parent_byte)
  BY LocateFacts
<1>2. /\ loc.parent # loc.node /\ loc.node # nullptr
      /\ loc.parent \in DOMAIN heap /\ loc.parent_byte \in Byte
      /\ heap[loc.parent].children[loc.parent_byte] = loc.node
  BY <1>1, HangsFacts DEF Hangs
<1>3. heap[loc.parent] \in NodeRecord
  BY <1>1, <1>2 DEF HeapOK
<1> QED  BY <1>2, <1>3, NodeFacts

LeavesRoom == RoomInside(heap') /\ (IsFiniteSet(DOMAIN heap) => IsFiniteSet(DOMAIN heap'))

LEMMA RestructureRoom ==
  ASSUME PrefixFree, IInv, FanOut, pc = "locate", ~KeyFullyMatched, HasMismatch,
         Restructure
  PROVE  LeavesRoom
<1> DEFINE n == loc.node
           d == DetermineDimension
           np == loc.node_p_pos
           nb == NodeByte(d)
           sb == SiblingByte(d)
           z == NewNode4(d, ParentPrefix, np)
           z1 == Put(z, nb, n)
<1>1. TypeOK /\ pc = "locate" /\ HasMismatch /\ ~KeyFullyMatched
  BY DEF IInv, Restructure
<1>2. PICK lab \in [DOMAIN heap -> Label] : Represented(lab)
  BY DEF IInv, Represents
<1>3. /\ HeapOK(heap) /\ n \in DOMAIN heap /\ N = heap[n] /\ N \in NodeRecord
      /\ BKey \in Key /\ Labelled(heap, content, root, lab)
  BY <1>1, <1>2, LocateFacts DEF N
<1> DEFINE g(q, s) == [m \in DOMAIN heap \cup {q, s} |->
                        CASE m = q -> Put(z1, sb, s)
                          [] m = s -> NewSibling(d)
                          [] m = n -> Shortened(d)
                          [] OTHER -> heap[m]]
<1>4a. PICK q \in Malloc(DOMAIN heap) :
         \E s \in Malloc(DOMAIN heap \cup {q}) : Relink(g(q, s), q)
  BY DEF Restructure
<1>4. PICK s \in Malloc(DOMAIN heap \cup {q}) : Relink(g(q, s), q)
  BY <1>4a
<1>5. /\ q \in Node /\ q \notin DOMAIN heap
      /\ s \in Node /\ s \notin DOMAIN heap /\ s # q /\ n \in Node
  BY <1>3, <1>4a, <1>4, HeapAssumption DEF HeapOK
<1>6. sb # nb /\ sb \in Byte /\ nb \in Byte /\ d \in Dimension
  <2>1. /\ sb = ByteAt(BKey, d, loc.bkey_p_pos, loc.bkey_v_pos)
        /\ nb = ByteAt(lab[n].key, d, loc.bkey_p_pos, loc.bkey_v_pos)
        /\ sb # nb /\ SplitAt(N, np, loc.node_v_pos, d)
        /\ HasByte(BKey, d, loc.bkey_p_pos, loc.bkey_v_pos)
    BY <1>1, <1>2, SplitPosition
  <2>2. loc.bkey_p_pos \in Nat /\ loc.bkey_v_pos \in Nat /\ np \in Nat /\ loc.node_v_pos \in Nat
    BY <1>1, <1>2, LocateFacts
  <2>3. N.sep \in Nat /\ N.prefix \in Seq(Byte) /\ Len(N.prefix) \in Nat /\ N.sep <= Len(N.prefix)
    BY <1>3, NodeFacts
  <2>4. /\ BKey.path \in Seq(Byte) /\ BKey.value \in Seq(Byte)
        /\ Len(BKey.path) \in Nat /\ Len(BKey.value) \in Nat
    BY <1>3, KeyFacts
  <2>5. /\ d \in Dimension
        /\ d = "Path" => np < N.sep
        /\ d # "Path" => loc.node_v_pos < Len(N.prefix)
    BY <1>1, DimensionFacts DEF PathMismatch, ValueMismatch
  <2>6. nb \in Byte
    <3>1. d = "Path" => np + 1 \in 1..Len(N.prefix) /\ nb = N.prefix[np + 1]
      BY <2>2, <2>3, <2>5 DEF NodeByte
    <3>2. d # "Path" => /\ loc.node_v_pos + 1 \in 1..Len(N.prefix)
                        /\ nb = N.prefix[loc.node_v_pos + 1]
      BY <2>2, <2>3, <2>5 DEF NodeByte
    <3> HIDE DEF d, np, nb
    <3> QED  BY <2>3, <3>1, <3>2
  <2> HIDE DEF d, np, nb, sb
  <2>7. sb \in Byte
    <3>1. d = "Path" => loc.bkey_p_pos + 1 \in 1..Len(BKey.path)
      BY <2>1, <2>2, <2>4 DEF HasByte
    <3>2. d # "Path" => loc.bkey_v_pos + 1 \in 1..Len(BKey.value)
      BY <2>1, <2>2, <2>4 DEF HasByte
    <3> QED  BY <2>1, <2>4, <3>1, <3>2 DEF ByteAt
  <2> QED  BY <2>1, <2>5, <2>6, <2>7
<1> DEFINE z2 == Put(z1, sb, s)
<1>7. /\ z1 \in NodeRecord /\ z1.dim # "Leaf" /\ z1.layout = 1
      /\ \A c \in Byte : z1.children[c] = IF c = nb THEN n ELSE nullptr
  <2> DEFINE k == lab[n].key
             u == UpperNode(N, np, loc.node_v_pos, d, nb, n)
  <2>1. /\ k \in Key /\ lab[n].p \in Nat /\ lab[n].v \in Nat /\ LabelOK(heap, content, lab, n)
    BY <1>3, LabelFacts
  <2>2. Spells(N, k, lab[n].p, lab[n].v) /\ Len(k.path) \in Nat /\ Len(k.value) \in Nat
    BY <1>3, <2>1, KeyFacts DEF LabelOK
  <2>3. SplitAt(N, np, loc.node_v_pos, d)
    BY <1>1, <1>2, SplitPosition
  <2>4. u = z1 /\ z.layout = 1 /\ z = [z EXCEPT !.layout = z.layout]
    BY DEF UpperNode, ParentPrefix, NewNode4
  <2>5. z1.layout = 1
    BY DEF NewNode4, Put
  <2> HIDE DEF d, nb, np, k, n
  <2>6. /\ u \in NodeRecord /\ u.dim = d
        /\ \A c \in Byte : u.children[c] = IF c = nb THEN n ELSE nullptr
    BY <1>5, <1>6, <2>1, <2>2, <2>3, UpperFacts
  <2> HIDE DEF u, z1
  <2> QED  BY <1>6, <2>4, <2>5, <2>6 DEF Dimension
<1> HIDE DEF d, np, nb, sb, z1
<1>8. Room(z2)
  <2>1. z1.children[sb] = nullptr
    BY <1>6, <1>7
  <2>2. NrChildren(z1) = 1
    <3>1. {c \in Byte : z1.children[c] # nullptr} = {nb}
      BY <1>3, <1>6, <1>7, HeapAssumption DEF HeapOK
    <3> QED  BY <3>1, FS_Singleton DEF NrChildren
  <2>3. z2.layout = 1 /\ z2.dim # "Leaf"
    BY <1>5, <1>6, <1>7, PutFacts
  <2>4. NrChildren(z2) = 2
    BY <1>5, <1>6, <1>7, <2>1, <2>2, PutCount
  <2>5. Widths[1] \in Nat /\ Widths[1] >= 2
    BY WidthAssumption
  <2> HIDE DEF z2
  <2> QED  BY <2>3, <2>4, <2>5 DEF Room
<1> DEFINE h == g(q, s)
<1>9. /\ DOMAIN h = DOMAIN heap \cup {q, s} /\ h = [m \in DOMAIN h |-> h[m]]
      /\ h[q] = z2 /\ h[s] = NewSibling(d) /\ h[n] = Shortened(d)
      /\ \A m \in DOMAIN heap \ {n} : h[m] = heap[m]
  BY <1>3, <1>5
<1>10. Relink(h, q)
  BY <1>4 DEF z1, nb, sb, d, np
<1> HIDE DEF g, h, n
<1>11. RoomInside(h)
  <2>1. Room(NewSibling(d))
    BY DEF Room, NewSibling, NewLeaf
  <2>2. \A m \in DOMAIN heap : Room(heap[m])
    BY DEF FanOut, Room
  <2>3. Room(Shortened(d))
    <3>1. /\ Shortened(d).dim = N.dim /\ Shortened(d).layout = N.layout
          /\ Shortened(d).children = N.children
      <4>1. N = [dim |-> N.dim, prefix |-> N.prefix, sep |-> N.sep,
                 children |-> N.children, layout |-> N.layout, refs |-> N.refs]
        BY <1>3, NodeFacts
      <4> QED  BY <4>1 DEF Shortened
    <3>2. Room(N)
      BY <1>3, <2>2
    <3> QED  BY <3>1, <3>2, SameRoom
  <2> QED  BY <1>8, <1>9, <2>1, <2>2, <2>3 DEF RoomInside
<1>12. loc.parent # nullptr =>
         /\ loc.parent \in DOMAIN h /\ h[loc.parent] \in NodeRecord
         /\ h[loc.parent].dim # "Leaf" /\ loc.parent_byte \in Byte
         /\ h[loc.parent].children[loc.parent_byte] # nullptr
  BY <1>1, <1>2, <1>9, ParentFacts DEF n
<1>13. DOMAIN heap' = DOMAIN h /\ RoomInside(heap')
  BY <1>5, <1>9, <1>10, <1>11, <1>12, RelinkRoom
<1>14. IsFiniteSet(DOMAIN heap) => IsFiniteSet(DOMAIN heap \cup {q, s})
  <2>1. DOMAIN heap \cup {q, s} = (DOMAIN heap \cup {q}) \cup {s}
    OBVIOUS
  <2> QED  BY <2>1, FS_AddElement
<1> QED  BY <1>9, <1>13, <1>14 DEF LeavesRoom

LEMMA AddNewLeafRoom ==
  ASSUME PrefixFree, IInv, FanOut, AddNewLeaf
  PROVE  LeavesRoom
<1> DEFINE n == loc.node
           d == N.dim
           b == NextByte
<1>1. TypeOK /\ pc = "locate" /\ ~HasMismatch /\ d # "Leaf" /\ LocateChild = nullptr
  BY DEF IInv, AddNewLeaf, Descending
<1>2. PICK lab \in [DOMAIN heap -> Label] : Represented(lab)
  BY DEF IInv, Represents
<1>3. /\ HeapOK(heap) /\ n \in DOMAIN heap /\ N = heap[n] /\ N \in NodeRecord
      /\ BKey \in Key /\ Labelled(heap, content, root, lab)
  BY <1>1, <1>2, LocateFacts DEF N
<1>4. b \in Byte
  <2>1. /\ BKey.path \in Seq(Byte) /\ BKey.value \in Seq(Byte)
        /\ Len(BKey.path) \in Nat /\ Len(BKey.value) \in Nat
    BY <1>3, KeyFacts
  <2>2. loc.bkey_p_pos \in Nat /\ loc.bkey_v_pos \in Nat
    BY <1>1, <1>2, LocateFacts
  <2>3. HasByte(BKey, d, loc.bkey_p_pos, loc.bkey_v_pos)
    BY <1>1, <1>2, InnerHasByte, MatchedFacts
  <2>4. b = ByteAt(BKey, d, loc.bkey_p_pos, loc.bkey_v_pos)
    BY DEF NextByte, ByteAt, BKey
  <2> HIDE DEF b, d
  <2>5. d = "Path" => loc.bkey_p_pos + 1 \in 1..Len(BKey.path)
    BY <2>1, <2>2, <2>3 DEF HasByte
  <2>6. d # "Path" => loc.bkey_v_pos + 1 \in 1..Len(BKey.value)
    BY <2>1, <2>2, <2>3 DEF HasByte
  <2> QED  BY <2>1, <2>4, <2>5, <2>6 DEF ByteAt
<1>5. N.children[b] = nullptr
  BY <1>1 DEF LocateChild
<1>6. \A m \in DOMAIN heap : Room(heap[m])
  BY DEF FanOut, Room
<1>7. Room(NewSibling(d))
  BY DEF Room, NewSibling, NewLeaf
<1>8. /\ N \in InnerNode /\ N.sep <= Len(N.prefix) /\ N.layout \in 1..Len(Widths)
      /\ NrChildren(N) \in Nat /\ NrChildren(N) \in 2..Widths[N.layout]
      /\ N.layout > 1 => NrChildren(N) > Widths[N.layout - 1]
  <2>1. N \in InnerNode /\ N.sep <= Len(N.prefix)
    BY <1>1, <1>3, NodeFacts
  <2>2. Room(N)
    BY <1>3, <1>6
  <2> QED  BY <1>1, <2>1, <2>2 DEF Room, InnerNode
<1>9. /\ Len(Widths) \in Nat
      /\ \A i \in 1..Len(Widths) : Widths[i] \in Nat
      /\ \A i, j \in 1..Len(Widths) : i < j => Widths[i] < Widths[j]
  BY WidthAssumption
<1> DEFINE e(s) == [m \in DOMAIN heap \cup {s} |->
                      CASE m = s -> NewSibling(d)
                        [] m = n -> Put(N, b, s)
                        [] OTHER -> heap[m]]
           f(s, g) == [m \in (DOMAIN heap \cup {s, g}) \ {n} |->
                         CASE m = s -> NewSibling(d)
                           [] m = g -> Put(Grow(N), b, s)
                           [] OTHER -> heap[m]]
<1>10. PICK s \in Malloc(DOMAIN heap) :
        IF IsFull(N)
        THEN \E g \in Malloc(DOMAIN heap \cup {s}) : Relink(f(s, g), g)
        ELSE heap' = e(s) /\ root' = root
  BY DEF AddNewLeaf
<1>11. s \in Node /\ s \notin DOMAIN heap
  BY <1>3, <1>10, HeapAssumption DEF HeapOK
<1> HIDE DEF n, d, b
<1>12. CASE ~IsFull(N)
  <2> DEFINE y == Put(N, b, s)
  <2>1. heap' = e(s)
    BY <1>10, <1>12
  <2>2. NrChildren(y) = NrChildren(N) + 1 /\ y.layout = N.layout
    BY <1>1, <1>3, <1>4, <1>5, <1>11, PutCount, PutFacts DEF d
  <2>3. ~(NrChildren(N) >= Widths[N.layout])
    BY <1>12 DEF IsFull
  <2>4. Room(y)
    <3> DEFINE c == NrChildren(N)
               i == N.layout
    <3>1. /\ c \in Nat /\ i \in Nat /\ Widths[i] \in Nat
          /\ i > 1 => Widths[i - 1] \in Nat
      BY <1>8, <1>9
    <3>2. c >= 2 /\ ~(c >= Widths[i]) /\ (i > 1 => c > Widths[i - 1])
      BY <1>8, <2>3
    <3> HIDE DEF c, i
    <3>3. c + 1 \in 2..Widths[i]
      BY <3>1, <3>2
    <3>4. i > 1 => c + 1 > Widths[i - 1]
      BY <3>1, <3>2
    <3> HIDE DEF y
    <3> QED  BY <2>2, <3>3, <3>4 DEF Room, c, i
  <2> HIDE DEF y
  <2>5. RoomInside(heap')
    <3>1. DOMAIN e(s) = DOMAIN heap \cup {s}
      OBVIOUS
    <3>2. \A m \in DOMAIN heap \cup {s} :
            e(s)[m] = IF m = s THEN NewSibling(d) ELSE IF m = n THEN y ELSE heap[m]
      BY <1>3, <1>11 DEF y, n
    <3> HIDE DEF e
    <3> QED  BY <1>6, <1>7, <2>1, <2>4, <3>1, <3>2 DEF RoomInside
  <2>6. DOMAIN heap' = DOMAIN heap \cup {s}
    BY <2>1
  <2> QED  BY <2>5, <2>6, FS_AddElement DEF LeavesRoom
<1>13. CASE IsFull(N)
  <2>1. PICK g \in Malloc(DOMAIN heap \cup {s}) : Relink(f(s, g), g)
    BY <1>10, <1>13
  <2>2. g \in Node /\ g \notin DOMAIN heap /\ g # s
    BY <1>3, <1>11, <2>1, HeapAssumption DEF HeapOK
  <2> DEFINE z == Grow(N)
             y == Put(z, b, s)
  <2>3. z \in NodeRecord /\ z.dim = N.dim /\ z.children = N.children /\ z.layout = N.layout + 1
    <3>1. z \in NodeRecord /\ z.dim = N.dim /\ z.children = N.children
      BY <1>4, <1>5, <1>8, <1>13, GrowFacts
    <3>2. z.layout = N.layout + 1
      <4>1. N = [dim |-> N.dim, prefix |-> N.prefix, sep |-> N.sep,
                 children |-> N.children, layout |-> N.layout, refs |-> N.refs]
        BY <1>3, NodeFacts
      <4> QED  BY <4>1 DEF Grow
    <3> QED  BY <3>1, <3>2
  <2>4. z \in InnerNode
    BY <1>1, <2>3, NodeFacts DEF d
  <2> HIDE DEF z
  <2>5. z.layout \in 1..Len(Widths)
    BY <2>4 DEF InnerNode
  <2>6. NrChildren(z) = NrChildren(N)
    BY <2>3 DEF NrChildren
  <2>7. NrChildren(y) = NrChildren(N) + 1 /\ y.layout = N.layout + 1
    BY <1>1, <1>4, <1>5, <1>11, <2>3, <2>6, PutCount, PutFacts DEF d
  <2>8. NrChildren(N) >= Widths[N.layout]
    BY <1>13 DEF IsFull
  <2> HIDE DEF y
  <2>9. Room(y)
    <3> DEFINE c == NrChildren(N)
               i == N.layout
    <3>1. /\ c \in Nat /\ i \in 1..Len(Widths) /\ i + 1 \in 1..Len(Widths)
          /\ Len(Widths) \in Nat
      BY <1>8, <1>9, <2>3, <2>5
    <3>2. c >= 2 /\ c >= Widths[i] /\ c \in 2..Widths[i]
      BY <1>8, <2>8
    <3> HIDE DEF c, i
    <3>3. Widths[i] \in Nat /\ Widths[i + 1] \in Nat /\ Widths[i] < Widths[i + 1]
      BY <1>9, <3>1
    <3>4. c + 1 \in 2..Widths[i + 1] /\ c + 1 > Widths[(i + 1) - 1]
      <4>1. c <= Widths[i] /\ (i + 1) - 1 = i
        BY <3>1, <3>2, <3>3
      <4> QED  BY <3>1, <3>2, <3>3, <4>1
    <3> QED  BY <2>7, <3>4 DEF Room, c, i
  <2> DEFINE h == f(s, g)
  <2>10. /\ DOMAIN h = (DOMAIN heap \cup {s, g}) \ {n} /\ h = [m \in DOMAIN h |-> h[m]]
         /\ h[s] = NewSibling(d) /\ h[g] = y
         /\ \A m \in DOMAIN heap \ {n} : h[m] = heap[m]
    BY <1>3, <1>11, <2>2 DEF y, z, n
  <2>11. Relink(h, g)
    BY <2>1
  <2> HIDE DEF f, h
  <2>12. RoomInside(h)
    BY <1>6, <1>7, <2>9, <2>10 DEF RoomInside
  <2>13. loc.parent # nullptr =>
         /\ loc.parent \in DOMAIN h /\ h[loc.parent] \in NodeRecord
         /\ h[loc.parent].dim # "Leaf" /\ loc.parent_byte \in Byte
         /\ h[loc.parent].children[loc.parent_byte] # nullptr
    BY <1>1, <1>2, <2>10, ParentFacts DEF n
  <2>14. DOMAIN heap' = DOMAIN h /\ RoomInside(heap')
    BY <2>2, <2>10, <2>11, <2>12, <2>13, RelinkRoom
  <2>15. IsFiniteSet(DOMAIN heap) => IsFiniteSet(DOMAIN h)
    <3>1. DOMAIN h \subseteq (DOMAIN heap \cup {s}) \cup {g}
      BY <2>10
    <3>2. IsFiniteSet(DOMAIN heap) => IsFiniteSet((DOMAIN heap \cup {s}) \cup {g})
      BY FS_AddElement
    <3> QED  BY <3>1, <3>2, FS_Subset
  <2> QED  BY <2>14, <2>15 DEF LeavesRoom
<1> QED  BY <1>12, <1>13

LEMMA FanOutStep ==
  ASSUME PrefixFree, IInv, FanOut, [Next]_vars
  PROVE  FanOut' /\ (IsFiniteSet(DOMAIN heap) => IsFiniteSet(DOMAIN heap'))
<1> SUFFICES LeavesRoom
  BY DEF LeavesRoom, RoomInside, FanOut, Room
<1>1. \A m \in DOMAIN heap : Room(heap[m])
  BY DEF FanOut, Room
<1>2. ASSUME UNCHANGED heap  PROVE LeavesRoom
  BY <1>1, <1>2 DEF LeavesRoom, RoomInside
<1>3. ASSUME NEW k \in Key, NEW r \in Ref, InsertFirst(k, r)  PROVE LeavesRoom
  <2>1. PICK n \in Malloc(DOMAIN heap) :
          heap' = [m \in DOMAIN heap \cup {n} |->
                     IF m = n THEN NewLeaf(k, 0, 0, r) ELSE heap[m]]
    BY <1>3 DEF InsertFirst
  <2>2. Room(NewLeaf(k, 0, 0, r))
    BY DEF Room, NewLeaf
  <2>3. IsFiniteSet(DOMAIN heap) => IsFiniteSet(DOMAIN heap \cup {n})
    BY FS_AddElement
  <2> QED  BY <1>1, <2>1, <2>2, <2>3 DEF LeavesRoom, RoomInside
<1>4. ASSUME pc = "locate", AddRef  PROVE LeavesRoom
  <2> DEFINE y == [N EXCEPT !.refs = Append(@, bkey.ref)]
  <2>1. heap' = [heap EXCEPT ![loc.node] = y] /\ N.dim = "Leaf"
    BY <1>4 DEF AddRef, N
  <2>2. N \in NodeRecord
    BY <1>4, LocateFacts DEF IInv, Represents
  <2>3. y.dim = "Leaf"
    <3>1. N = [dim |-> N.dim, prefix |-> N.prefix, sep |-> N.sep,
               children |-> N.children, layout |-> N.layout, refs |-> N.refs]
      BY <2>2, NodeFacts
    <3> QED  BY <2>1, <3>1
  <2>4. Room(y)
    BY <2>3 DEF Room
  <2> HIDE DEF y
  <2> QED  BY <1>1, <2>1, <2>4 DEF LeavesRoom, RoomInside
<1>5. CASE AddRefToExistingLeaf
  BY <1>2, <1>4, <1>5 DEF AddRefToExistingLeaf, Reject
<1>5a. ASSUME NEW d, ReadBehindKey(d)  PROVE LeavesRoom
  BY <1>2, <1>5a DEF ReadBehindKey
<1>6. CASE AtMismatch \/ AddNewLeaf
  BY <1>5a, <1>6, RestructureRoom, AddNewLeafRoom DEF AtMismatch
<1>7. CASE Locate \/ (\E k \in Key, r \in Ref : Begin(k, r)) \/ UNCHANGED vars
  BY <1>5a, <1>2, <1>7 DEF Locate, Begin, Descend, Abort, vars
<1> QED  BY <1>3, <1>5, <1>6, <1>7 DEF Next, LocateSteps

-----------------------------------------------------------------------------
(* What follows from the invariant                                          *)

\* The trie has its types and represents the inserted keys.
THEOREM RepresentsCorrect ==
  ASSUME PrefixFree
  PROVE  Spec => []IInv
<1>1. IInv /\ [Next]_vars => IInv'
  BY NextInv
<1> QED  BY <1>1, InitInv, PTL DEF Spec

\* Every node is a well-formed leaf or inner node, links lead to allocated
\* nodes, and the Locator always stands at one (insertion.cpp, locator.cpp).
THEOREM TypeCorrect ==
  ASSUME PrefixFree
  PROVE  Spec => []TypeOK
<1>1. IInv => TypeOK
  BY DEF IInv
<1> QED  BY <1>1, RepresentsCorrect, PTL

\* The positions of the Locator follow from its place in the labelled trie.
LEMMA InvReads ==
  ASSUME PrefixFree, IInv
  PROVE  ReadsInRange
<1>1. SUFFICES ASSUME pc = "locate"  PROVE ReadsInRange
  BY DEF ReadsInRange
<1>2. TypeOK
  BY DEF IInv
<1>3. PICK lab \in [DOMAIN heap -> Label] : Represented(lab)
  BY DEF IInv, Represents
<1> DEFINE P == loc.bkey_p_pos
           V == loc.bkey_v_pos
           j == lab[loc.node].key
<1>4. \A d : HasByte(BKey, d, P, V) <=> HasByte(bkey, d, P, V)
  BY DEF HasByte, BKey
<1>5. Descending => HasByte(bkey, N.dim, P, V)
  <2>1. Descending => HasByte(BKey, N.dim, P, V)
    BY <1>1, <1>2, <1>3, InnerHasByte, MatchedFacts DEF Descending
  <2> QED  BY <1>4, <2>1
<1>6. ASSUME ~HasMismatch, N.dim = "Leaf"  PROVE KeyFullyMatched
  <2>1. /\ Agree(BKey, j, P, V) /\ P = EndP(heap, lab, loc.node)
        /\ V = EndV(heap, lab, loc.node)
    BY <1>1, <1>2, <1>3, <1>6, MatchedFacts
  <2>2. /\ HeapOK(heap) /\ Labelled(heap, content, root, lab) /\ loc.node \in DOMAIN heap
        /\ BKey \in Key /\ BKey.path = bkey.path /\ BKey.value = bkey.value
        /\ P \in Nat /\ V \in Nat
    BY <1>1, <1>2, <1>3, LocateFacts
  <2>3. j \in Key /\ EndOK(heap, content, lab, loc.node)
    BY <2>2, LabelFacts DEF LabelOK
  <2>4. P = Len(j.path) /\ V = Len(j.value)
    BY <1>6, <2>1, <2>3 DEF EndOK, N
  <2>5. j.path = BKey.path /\ j.value = BKey.value
    <3>1. Agree(j, BKey, P, V)
      BY <2>1, <2>2, <2>3, AgreeSym
    <3> QED  BY <2>2, <2>3, <2>4, <3>1, AgreeToEnd
  <2> QED  BY <2>2, <2>4, <2>5 DEF KeyFullyMatched
<1>7. ASSUME HasMismatch
      PROVE  LET d == DetermineDimension IN
             /\ IF d = "Path" THEN PathMismatch ELSE ValueMismatch
             /\ HasByte(bkey, d, P, V)
             /\ NodeByte(d) # SiblingByte(d)
  BY <1>1, <1>2, <1>3, <1>4, <1>7, DimensionFacts, SplitPosition
<1> QED  BY <1>5, <1>6, <1>7 DEF ReadsInRange, InsideKey

\* No step of an insertion reads behind the end of a key or of a prefix, the
\* Locator never wants to descend from a leaf, and the two entries of a fresh
\* Node4 differ (locator.cpp:34, insertion.cpp:53-135).
THEOREM ReadsCorrect ==
  ASSUME PrefixFree
  PROVE  Spec => []ReadsInRange
<1>1. IInv => ReadsInRange
  BY InvReads
<1> QED  BY <1>1, RepresentsCorrect, PTL

\* The descent follows the labels.
LEMMA InvLookup ==
  ASSUME PrefixFree, IInv
  PROVE  LookupExact
<1>1. SUFFICES ASSUME pc = "locate"  PROVE LookupExact
  BY DEF LookupExact
<1>2. TypeOK
  BY DEF IInv
<1>3. PICK lab \in [DOMAIN heap -> Label] : Represented(lab)
  BY DEF IInv, Represents
<1>4. content[BKey] # <<>> => ~HasMismatch /\ (Descending => LocateChild # nullptr)
  BY <1>1, <1>2, <1>3, StoredFacts DEF Descending
<1>5. ASSUME KeyFullyMatched
      PROVE  N.dim = "Leaf" /\ N.refs = content[BKey] /\ N.refs # <<>>
  <2>1. BKey = lab[loc.node].key /\ N.dim = "Leaf"
    BY <1>1, <1>2, <1>3, <1>5, FullyMatchedFacts
  <2>2. LabelOK(heap, content, lab, loc.node)
    BY <1>1, <1>2, <1>3, LocateFacts, LabelFacts
  <2> QED  BY <2>1, <2>2 DEF LabelOK, EndOK, N
<1> QED  BY <1>4, <1>5 DEF LookupExact

\* The descent with a key that is in the index ends at the leaf with all its
\* references, and a key that is consumed is in the index: an insertion adds
\* its reference to the leaf of its own key or makes a leaf for a key that has
\* none (locator.cpp:12-46, insertion.cpp:19-50).
THEOREM LookupCorrect ==
  ASSUME PrefixFree
  PROVE  Spec => []LookupExact
<1>1. IInv => LookupExact
  BY InvLookup
<1> QED  BY <1>1, RepresentsCorrect, PTL

\* A node has one parent because positions grow on the way down.
LEMMA LabelledTree ==
  ASSUME HeapOK(heap), NEW lab, Labelled(heap, content, root, lab)
  PROVE  OneTree
<1>2. nullptr \notin DOMAIN heap
  BY HeapAssumption DEF HeapOK
<1>3. \A m \in DOMAIN heap, b \in Byte : heap[m].children[b] \in DOMAIN heap \cup {nullptr}
  BY DEF Labelled
<1>4. ASSUME NEW m \in DOMAIN heap, NEW b \in Byte, heap[m].children[b] # nullptr,
             root # nullptr
      PROVE  heap[m].children[b] # root
  <2> DEFINE c == heap[m].children[b]
  <2>1. /\ lab[c].p + lab[c].v = EndP(heap, lab, m) + EndV(heap, lab, m) + 1
    BY <1>2, <1>4, ChildFacts
  <2>2. EndP(heap, lab, m) \in Nat /\ EndV(heap, lab, m) \in Nat
    BY <1>2, <1>4, LabelFacts
  <2>3. lab[root].p = 0 /\ lab[root].v = 0
    BY <1>4 DEF Labelled
  <2> HIDE DEF c
  <2>4. c # root
    BY <2>1, <2>2, <2>3
  <2> QED  BY <2>4 DEF c
<1>5. root # nullptr => LinksTo(root) = {}
  BY <1>2, <1>4 DEF LinksTo
<1>6. ASSUME NEW n \in DOMAIN heap, n # root
      PROVE  \E l \in LinksTo(n) : LinksTo(n) = {l}
  <2>1. PICK m \in DOMAIN heap, b \in Byte : heap[m].children[b] = n
    BY <1>6 DEF Labelled
  <2>2. \A i \in DOMAIN heap, c \in Byte : heap[i].children[c] = n => i = m /\ c = b
    BY <1>2, <2>1, OneLink
  <2>3. LinksTo(n) = {<<m, b>>}
    BY <2>1, <2>2 DEF LinksTo
  <2> QED  BY <2>3
<1> QED  BY <1>3, <1>5, <1>6 DEF OneTree

LEMMA InvTree ==
  ASSUME IInv
  PROVE  OneTree
<1>1. HeapOK(heap)
  BY DEF IInv, TypeOK, HeapOK
<1>2. PICK lab \in [DOMAIN heap -> Label] : Labelled(heap, content, root, lab)
  BY DEF IInv, Represents, Represented
<1> QED  BY <1>1, <1>2, LabelledTree

\* Restructure, Grow and AddNewLeaf leave one tree behind: every node but the
\* root hangs at one entry of one node, nothing leads to a deleted node
\* (insertion.cpp:86-105, 154-169; cas.cpp:25-41 frees every node once).
THEOREM TreeCorrect ==
  ASSUME PrefixFree
  PROVE  Spec => []OneTree
<1>1. IInv => OneTree
  BY InvTree
<1> QED  BY <1>1, RepresentsCorrect, PTL

\* Restructure makes nodes of two children, and a node grows only when it is
\* full, so every inner node fits its layout and deserves it (insertion.cpp:
\* 101-105, 138-166; node4.cpp, node16.cpp, node48.cpp: Grow).
THEOREM FanOutCorrect ==
  ASSUME PrefixFree
  PROVE  Spec => []FanOut
<1>1. Init => IInv /\ FanOut
  BY InitInv DEF Init, FanOut
<1>2. IInv /\ FanOut /\ [Next]_vars => (IInv /\ FanOut)'
  BY NextInv, FanOutStep
<1> QED  BY <1>1, <1>2, PTL DEF Spec

-----------------------------------------------------------------------------
(* Walks.  A labelled trie whose parts hang together: Labelled without the   *)
(* clauses that say that nothing is missing, so that a trie under            *)
(* construction is one, too.                                                 *)

Rooted(h, ct, rt, lab) ==
  /\ lab \in [DOMAIN h -> Label]
  /\ \A n \in DOMAIN h : LabelOK(h, ct, lab, n)
  /\ \A n \in DOMAIN h, b \in Byte :
       h[n].children[b] # nullptr =>
         /\ h[n].children[b] \in DOMAIN h
         /\ ChildOK(h, lab, n, b, h[n].children[b])
  /\ \A n \in DOMAIN h : n # rt =>
       \E m \in DOMAIN h, b \in Byte : h[m].children[b] = n
  /\ rt # nullptr /\ rt \in DOMAIN h /\ lab[rt].p = 0 /\ lab[rt].v = 0

LEMMA LabelledRooted ==
  ASSUME NEW h, NEW ct, NEW rt, NEW lab, Labelled(h, ct, rt, lab), rt # nullptr
  PROVE  Rooted(h, ct, rt, lab)
BY DEF Labelled, Rooted

LEMMA RootedFacts ==
  ASSUME NEW h, HeapOK(h), NEW ct, NEW rt, NEW lab, Rooted(h, ct, rt, lab),
         NEW n \in DOMAIN h
  PROVE  /\ lab[n].key \in Key /\ lab[n].p \in Nat /\ lab[n].v \in Nat
         /\ h[n] \in NodeRecord
         /\ EndP(h, lab, n) \in Nat /\ EndV(h, lab, n) \in Nat
         /\ lab[n].p <= EndP(h, lab, n) /\ lab[n].v <= EndV(h, lab, n)
         /\ EndP(h, lab, n) <= Len(lab[n].key.path) /\ EndV(h, lab, n) <= Len(lab[n].key.value)
         /\ LabelOK(h, ct, lab, n)
         /\ \A b \in Byte : h[n].children[b] # nullptr =>
              /\ h[n].children[b] \in DOMAIN h
              /\ ChildOK(h, lab, n, b, h[n].children[b])
              /\ h[n].dim # "Leaf"
<1>1. /\ lab[n] \in Label /\ LabelOK(h, ct, lab, n) /\ h[n] \in NodeRecord
      /\ \A b \in Byte : h[n].children[b] # nullptr =>
              /\ h[n].children[b] \in DOMAIN h
              /\ ChildOK(h, lab, n, b, h[n].children[b])
  BY DEF Rooted, HeapOK
<1>2. /\ h[n].sep \in Nat /\ Len(h[n].prefix) - h[n].sep \in Nat /\ Len(h[n].prefix) \in Nat
      /\ h[n].dim = "Leaf" => \A b \in Byte : h[n].children[b] = nullptr
  BY <1>1, NodeFacts
<1>3. lab[n].key \in Key /\ lab[n].p \in Nat /\ lab[n].v \in Nat
  BY <1>1 DEF Label
<1>4. Spells(h[n], lab[n].key, lab[n].p, lab[n].v)
  BY <1>1 DEF LabelOK
<1>5. EndP(h, lab, n) = lab[n].p + h[n].sep
      /\ EndV(h, lab, n) = lab[n].v + (Len(h[n].prefix) - h[n].sep)
  BY DEF EndP, EndV
<1>6. EndP(h, lab, n) <= Len(lab[n].key.path) /\ EndV(h, lab, n) <= Len(lab[n].key.value)
  BY <1>4, <1>5 DEF Spells
<1>7. EndP(h, lab, n) \in Nat /\ EndV(h, lab, n) \in Nat
      /\ lab[n].p <= EndP(h, lab, n) /\ lab[n].v <= EndV(h, lab, n)
  BY <1>2, <1>3, <1>5
<1>8. \A b \in Byte : h[n].children[b] # nullptr => h[n].dim # "Leaf"
  BY <1>2
<1> QED  BY <1>1, <1>3, <1>6, <1>7, <1>8

LEMMA ByteIsByte ==
  ASSUME NEW k \in Key, NEW d, NEW p \in Nat, NEW v \in Nat, HasByte(k, d, p, v)
  PROVE  ByteAt(k, d, p, v) \in Byte
<1>1. k.path \in Seq(Byte) /\ k.value \in Seq(Byte) /\ Len(k.path) \in Nat /\ Len(k.value) \in Nat
  BY KeyFacts
<1>2. \A i \in 1..Len(k.path) : k.path[i] \in Byte
  BY <1>1
<1>3. \A i \in 1..Len(k.value) : k.value[i] \in Byte
  BY <1>1
<1>4. CASE d = "Path"
  BY <1>1, <1>2, <1>4 DEF HasByte, ByteAt
<1>5. CASE d # "Path"
  BY <1>1, <1>3, <1>5 DEF HasByte, ByteAt
<1> QED  BY <1>4, <1>5

\* A key that agrees with the label's to the end of the prefix has the prefix.
LEMMA SpellsAgree ==
  ASSUME NEW x \in NodeRecord, NEW a \in Key, NEW k \in Key, NEW p \in Nat, NEW v \in Nat,
         Spells(x, a, p, v), Agree(k, a, p + x.sep, v + (Len(x.prefix) - x.sep))
  PROVE  Spells(x, k, p, v)
<1>1. x.sep \in Nat /\ Len(x.prefix) - x.sep \in Nat /\ Len(x.prefix) \in Nat
  BY NodeFacts
<1>2. \A i \in 1..x.sep : p + i \in 1..(p + x.sep)
  BY <1>1
<1>3. \A i \in 1..(Len(x.prefix) - x.sep) : v + i \in 1..(v + (Len(x.prefix) - x.sep))
  BY <1>1
<1>4. /\ \A i \in 1..x.sep : x.prefix[i] = a.path[p + i]
      /\ \A i \in 1..(Len(x.prefix) - x.sep) : x.prefix[x.sep + i] = a.value[v + i]
  BY DEF Spells
<1>5. /\ p + x.sep <= Len(k.path) /\ v + (Len(x.prefix) - x.sep) <= Len(k.value)
      /\ \A i \in 1..(p + x.sep) : k.path[i] = a.path[i]
      /\ \A i \in 1..(v + (Len(x.prefix) - x.sep)) : k.value[i] = a.value[i]
  BY DEF Agree
<1> QED  BY <1>2, <1>3, <1>4, <1>5 DEF Spells

\* Two keys with the same prefix behind agreeing bytes agree to its end.
LEMMA AgreeSpelled ==
  ASSUME NEW x \in NodeRecord, NEW a \in Key, NEW k \in Key, NEW p \in Nat, NEW v \in Nat,
         Spells(x, a, p, v), Spells(x, k, p, v), Agree(k, a, p, v)
  PROVE  Agree(k, a, p + x.sep, v + (Len(x.prefix) - x.sep))
<1>1. x.sep \in Nat /\ Len(x.prefix) - x.sep \in Nat /\ Len(x.prefix) \in Nat
  BY NodeFacts
<1> DEFINE s == x.sep
           t == Len(x.prefix) - x.sep
<1>2. /\ \A i \in 1..s : x.prefix[i] = a.path[p + i] /\ x.prefix[i] = k.path[p + i]
      /\ \A i \in 1..t : x.prefix[x.sep + i] = a.value[v + i] /\ x.prefix[x.sep + i] = k.value[v + i]
      /\ p + s <= Len(k.path) /\ v + t <= Len(k.value)
      /\ p + s <= Len(a.path) /\ v + t <= Len(a.value)
  BY DEF Spells
<1>3. /\ \A i \in 1..p : k.path[i] = a.path[i]
      /\ \A i \in 1..v : k.value[i] = a.value[i]
  BY DEF Agree
<1>4. s \in Nat /\ t \in Nat
  BY <1>1
<1> HIDE DEF s, t
<1>5. \A i \in 1..(p + s) : k.path[i] = a.path[i]
  <2> TAKE i \in 1..(p + s)
  <2>1. CASE i <= p
    BY <1>3, <1>4, <2>1
  <2>2. CASE i > p
    <3>1. i - p \in 1..s /\ p + (i - p) = i
      BY <1>4, <2>2
    <3> QED  BY <1>2, <3>1
  <2> QED  BY <1>4, <2>1, <2>2
<1>6. \A i \in 1..(v + t) : k.value[i] = a.value[i]
  <2> TAKE i \in 1..(v + t)
  <2>1. CASE i <= v
    BY <1>3, <1>4, <2>1
  <2>2. CASE i > v
    <3>1. i - v \in 1..t /\ v + (i - v) = i
      BY <1>4, <2>2
    <3> QED  BY <1>2, <3>1
  <2> QED  BY <1>4, <2>1, <2>2
<1>7. Agree(k, a, p + s, v + t)
  BY <1>2, <1>5, <1>6 DEF Agree
<1> QED  BY <1>7 DEF s, t

Place(lab, n) == [node |-> n, p |-> lab[n].p, v |-> lab[n].v]

\* A place where a walk with key k may be.
OnWay(k, lab, s) ==
  /\ s.node \in DOMAIN heap /\ s = Place(lab, s.node)
  /\ Agree(k, lab[s.node].key, s.p, s.v)

\* The step of a walk leads to the place of the child.
LEMMA OnwardStep ==
  ASSUME HeapOK(heap), NEW ct, NEW lab, Rooted(heap, ct, root, lab), NEW k \in Key,
         NEW s, OnWay(k, lab, s), NEW t \in Onward(k, s)
  PROVE  OnWay(k, lab, t)
<1> DEFINE n == s.node
           x == heap[n]
           p == s.p + x.sep
           v == s.v + (Len(x.prefix) - x.sep)
           b == ByteAt(k, x.dim, p, v)
           c == x.children[b]
<1>1. /\ n \in DOMAIN heap /\ s.p = lab[n].p /\ s.v = lab[n].v
      /\ Agree(k, lab[n].key, lab[n].p, lab[n].v)
  BY DEF OnWay, Place
<1>2. /\ x.dim # "Leaf" /\ Spells(x, k, s.p, s.v) /\ HasByte(k, x.dim, p, v) /\ c # nullptr
      /\ t = [node |-> c, p |-> p + PathStep(x.dim), v |-> v + ValueStep(x.dim)]
  BY DEF Onward
<1>3. /\ p = EndP(heap, lab, n) /\ v = EndV(heap, lab, n) /\ p \in Nat /\ v \in Nat
      /\ lab[n].key \in Key /\ lab[n].p \in Nat /\ lab[n].v \in Nat /\ x \in NodeRecord
      /\ Spells(x, lab[n].key, lab[n].p, lab[n].v)
      /\ \A e \in Byte : x.children[e] # nullptr =>
              /\ x.children[e] \in DOMAIN heap
              /\ ChildOK(heap, lab, n, e, x.children[e])
  BY <1>1, RootedFacts DEF EndP, EndV, LabelOK
<1>4. b \in Byte
  <2> HIDE DEF p, v, x
  <2> QED  BY <1>2, <1>3, ByteIsByte
<1>5. c \in DOMAIN heap /\ ChildOK(heap, lab, n, b, c)
  BY <1>2, <1>3, <1>4
<1>6. Agree(k, lab[n].key, p, v)
  BY <1>1, <1>2, <1>3, AgreeSpelled
<1> HIDE DEF p, v, b, c, x, n
<1>7. /\ Agree(lab[n].key, lab[c].key, p, v)
      /\ HasByte(lab[c].key, x.dim, p, v) /\ ByteAt(lab[c].key, x.dim, p, v) = b
      /\ lab[c].p = p + PathStep(x.dim) /\ lab[c].v = v + ValueStep(x.dim)
      /\ lab[c].key \in Key
  <2>1. lab[c].key \in Key
    BY <1>5, RootedFacts
  <2> QED  BY <1>3, <1>5, <2>1 DEF ChildOK, x
<1>8. Agree(k, lab[c].key, p, v)
  BY <1>6, <1>7, AgreeTrans
<1>9. Agree(k, lab[c].key, p + PathStep(x.dim), v + ValueStep(x.dim))
  BY <1>2, <1>3, <1>7, <1>8, AgreeStep DEF b, n
<1> QED  BY <1>2, <1>5, <1>7, <1>9 DEF OnWay, Place

\* It leads to every child whose key shares the bytes consumed there.
LEMMA OnwardReaches ==
  ASSUME HeapOK(heap), NEW ct, NEW lab, Rooted(heap, ct, root, lab), NEW k \in Key,
         NEW m \in DOMAIN heap, NEW b \in Byte, NEW n \in DOMAIN heap,
         heap[m].children[b] = n, n # nullptr,
         Agree(k, lab[n].key, lab[n].p, lab[n].v)
  PROVE  /\ Agree(k, lab[m].key, lab[m].p, lab[m].v)
         /\ lab[m].p + lab[m].v < lab[n].p + lab[n].v
         /\ Place(lab, n) \in Onward(k, Place(lab, m))
<1> DEFINE x == heap[m]
           p == EndP(heap, lab, m)
           v == EndV(heap, lab, m)
<1>1. /\ lab[n].key \in Key /\ lab[n].p \in Nat /\ lab[n].v \in Nat
      /\ lab[m].key \in Key /\ lab[m].p \in Nat /\ lab[m].v \in Nat
      /\ p \in Nat /\ v \in Nat /\ lab[m].p <= p /\ lab[m].v <= v
      /\ x \in NodeRecord /\ x.dim # "Leaf"
      /\ LabelOK(heap, ct, lab, m) /\ ChildOK(heap, lab, m, b, n)
  BY RootedFacts
<1>2. /\ p = lab[m].p + x.sep /\ v = lab[m].v + (Len(x.prefix) - x.sep)
  BY DEF EndP, EndV
<1>3. Spells(x, lab[m].key, lab[m].p, lab[m].v)
  BY <1>1 DEF LabelOK
<1> HIDE DEF x, p, v
<1>4. /\ Agree(lab[m].key, lab[n].key, p, v)
      /\ HasByte(lab[n].key, x.dim, p, v) /\ ByteAt(lab[n].key, x.dim, p, v) = b
      /\ lab[n].p = p + PathStep(x.dim) /\ lab[n].v = v + ValueStep(x.dim)
  BY <1>1 DEF ChildOK, x, p, v
<1>5. p <= lab[n].p /\ v <= lab[n].v /\ p + v < lab[n].p + lab[n].v
  BY <1>1, <1>4 DEF PathStep, ValueStep
<1>6. Agree(k, lab[n].key, p, v)
  BY <1>1, <1>5, AgreeMono
<1>7. Agree(k, lab[m].key, p, v)
  BY <1>4, <1>6, AgreeSym, AgreeTrans
<1>8. Agree(k, lab[m].key, lab[m].p, lab[m].v)
  BY <1>1, <1>7, AgreeMono
<1>9. Spells(x, k, lab[m].p, lab[m].v)
  BY <1>1, <1>2, <1>3, <1>7, SpellsAgree
<1>10. HasByte(k, x.dim, p, v) /\ ByteAt(k, x.dim, p, v) = b
  <2>1. Len(k.path) \in Nat /\ Len(k.value) \in Nat
    BY KeyFacts
  <2>2. /\ lab[n].p <= Len(k.path) /\ lab[n].v <= Len(k.value)
        /\ \A i \in 1..lab[n].p : k.path[i] = lab[n].key.path[i]
        /\ \A i \in 1..lab[n].v : k.value[i] = lab[n].key.value[i]
    BY DEF Agree
  <2>3. CASE x.dim = "Path"
    <3>1. lab[n].p = p + 1 /\ p + 1 \in 1..lab[n].p
      BY <1>1, <1>4, <2>3 DEF PathStep
    <3> QED  BY <1>1, <1>4, <2>1, <2>2, <2>3, <3>1 DEF HasByte, ByteAt
  <2>4. CASE x.dim # "Path"
    <3>1. lab[n].v = v + 1 /\ v + 1 \in 1..lab[n].v
      BY <1>1, <1>4, <2>4 DEF ValueStep
    <3> QED  BY <1>1, <1>4, <2>1, <2>2, <2>4, <3>1 DEF HasByte, ByteAt
  <2> QED  BY <2>3, <2>4
<1>11. Place(lab, n) \in Onward(k, Place(lab, m))
  <2>1. Place(lab, m).node = m /\ Place(lab, m).p = lab[m].p /\ Place(lab, m).v = lab[m].v
    BY DEF Place
  <2>2. Place(lab, n) = [node |-> n, p |-> p + PathStep(x.dim), v |-> v + ValueStep(x.dim)]
    BY <1>4 DEF Place
  <2> QED  BY <1>1, <1>2, <1>9, <1>10, <2>1, <2>2 DEF Onward, x
<1> QED  BY <1>1, <1>5, <1>8, <1>11

LEMMA SumIsNat ==
  ASSUME NEW a \in Nat, NEW b \in Nat
  PROVE  /\ a + b \in Nat
         /\ \A i, j \in Nat : i <= a /\ j <= b => i + j <= a + b
OBVIOUS

Way(k, lab) == {s \in [node : DOMAIN heap, p : Nat, v : Nat] : OnWay(k, lab, s)}

\* The recursion of Walk.
IsWalk(k, at) ==
  LET start == [node |-> root, p |-> 0, v |-> 0]
      L == Len(k.path) + Len(k.value)
  IN  /\ Walk(k) = at[L] /\ at[0] = {start}
      /\ \A i \in 1..L : at[i] = {start} \cup UNION {Onward(k, s) : s \in at[i - 1]}

LEMMA WalkRecursive ==
  ASSUME HeapOK(heap), NEW ct, NEW lab, Rooted(heap, ct, root, lab), NEW k \in Key
  PROVE  \E at : IsWalk(k, at) /\ \A i \in 0..(Len(k.path) + Len(k.value)) : at[i] \subseteq Way(k, lab)
<1> DEFINE start == [node |-> root, p |-> 0, v |-> 0]
           L == Len(k.path) + Len(k.value)
           T == SUBSET Way(k, lab)
           W(x) == {start} \cup UNION {Onward(k, s) : s \in x}
           next == [z \in (1..L) \X T |-> W(z[2])]
           G(g, i) == {start} \cup IF i = 0 THEN {} ELSE UNION {Onward(k, s) : s \in g[i - 1]}
<1>1. L \in Nat
  <2> HIDE DEF start, T, W, next, G
  <2>1. Len(k.path) \in Nat /\ Len(k.value) \in Nat
    BY KeyFacts
  <2> QED  BY <2>1, SumIsNat
<1>2. start \in Way(k, lab)
  <2>1. root \in DOMAIN heap /\ lab[root].p = 0 /\ lab[root].v = 0
    BY DEF Rooted
  <2>2. lab[root].key \in Key
    BY <2>1, RootedFacts
  <2>3. Agree(k, lab[root].key, 0, 0)
    <3>1. Len(lab[root].key.path) \in Nat /\ Len(lab[root].key.value) \in Nat
      BY <2>2, KeyFacts
    <3>2. Len(k.path) \in Nat /\ Len(k.value) \in Nat
      BY KeyFacts
    <3> QED  BY <3>1, <3>2 DEF Agree
  <2> QED  BY <2>1, <2>3 DEF Way, OnWay, Place
<1>3. \A x \in T : W(x) \in T
  <2>1. SUFFICES ASSUME NEW x \in T, NEW s \in x, NEW t \in Onward(k, s) PROVE t \in Way(k, lab)
    BY <1>2
  <2>2. OnWay(k, lab, s)
    BY DEF Way
  <2>3. OnWay(k, lab, t)
    BY <2>2, OnwardStep
  <2>4. t \in [node : DOMAIN heap, p : Nat, v : Nat]
    <3>1. t.node \in DOMAIN heap /\ t = [node |-> t.node, p |-> lab[t.node].p, v |-> lab[t.node].v]
      BY <2>3 DEF OnWay, Place
    <3>2. lab[t.node].p \in Nat /\ lab[t.node].v \in Nat
      BY <3>1, RootedFacts
    <3> QED  BY <3>1, <3>2
  <2> QED  BY <2>3, <2>4 DEF Way
<1>4. \A i \in 1..L, x \in T : next[<<i, x>>] = W(x) /\ next[<<i, x>>] \in T
  <2> HIDE DEF W, T, L
  <2> QED  BY <1>3
<1>5. {start} \in T
  BY <1>2
<1> HIDE DEF next, T, W, L, start
<1>6. PICK f \in [0..L -> T] :
        f[0] = {start} /\ \A i \in 1..L : f[i] = next[<<i, f[i - 1]>>]
  <2> HIDE DEF G
  <2>1. StaysIn(next, L, T)
    BY <1>4 DEF StaysIn
  <2> DEFINE a == {start}
  <2>2. a \in T
    BY <1>5
  <2> HIDE DEF a
  <2>3. \E f \in [0..L -> T] : f[0] = a /\ \A i \in 1..L : f[i] = next[<<i, f[i - 1]>>]
    BY <1>1, <2>1, <2>2, Recursion
  <2> QED  BY <2>3 DEF a
<1>7. \A i \in 1..L : f[i] = W(f[i - 1])
  <2> TAKE i \in 1..L
  <2>1. i - 1 \in 0..L
    BY <1>1
  <2> QED  BY <1>4, <1>6, <2>1
<1>8. f = [i \in 0..L |-> G(f, i)]
  <2>1. \A i \in 0..L : f[i] = G(f, i)
    <3> TAKE i \in 0..L
    <3>1. CASE i = 0
      BY <1>6, <3>1
    <3>2. CASE i # 0
      <4>1. i \in 1..L
        BY <1>1, <3>2
      <4> QED  BY <1>7, <3>2, <4>1 DEF W
    <3> QED  BY <3>1, <3>2
  <2>2. f = [i \in 0..L |-> f[i]]
    BY <1>6
  <2> HIDE DEF G
  <2> QED  BY <2>1, <2>2
<1> DEFINE at == CHOOSE g : g = [i \in 0..L |-> G(g, i)]
<1>9. at = [i \in 0..L |-> G(at, i)]
  <2> HIDE DEF G
  <2> QED  BY <1>8
<1>10. Walk(k) = at[L]
  BY DEF Walk, L, start
<1> HIDE DEF at
<1>11. at[0] = {start} /\ \A i \in 1..L : at[i] = W(at[i - 1])
  <2>1. \A i \in 0..L : at[i] = G(at, i)
    <3> HIDE DEF G
    <3> QED  BY <1>9
  <2>2. \A i \in 1..L : i \in 0..L /\ i # 0
    BY <1>1
  <2>3. 0 \in 0..L
    BY <1>1
  <2> QED  BY <2>1, <2>2, <2>3 DEF W
<1>12. IsWalk(k, at)
  BY <1>10, <1>11 DEF IsWalk, W, L, start
<1>13. \A i \in 0..L : at[i] \in T
  <2> DEFINE S == {i \in Nat : i <= L => at[i] \in T}
  <2>1. 0 \in S
    BY <1>5, <1>11
  <2>2. ASSUME NEW i \in Nat, i \in S PROVE i + 1 \in S
    <3> SUFFICES ASSUME i + 1 <= L PROVE at[i + 1] \in T
      OBVIOUS
    <3>1. at[i] \in T
      BY <1>1, <2>2
    <3>2. i + 1 \in 1..L /\ (i + 1) - 1 = i
      BY <1>1
    <3>3. at[i + 1] = W(at[i])
      BY <1>11, <3>2
    <3> QED  BY <1>4, <3>1, <3>2, <3>3
  <2>3. Nat \subseteq S
    <3> HIDE DEF S
    <3> QED  BY <2>1, <2>2, Induction
  <2> QED  BY <1>1, <2>3
<1>14. \A i \in 0..(Len(k.path) + Len(k.value)) : at[i] \subseteq Way(k, lab)
  BY <1>13 DEF L, T
<1> QED  BY <1>12, <1>14

\* The walk with a key visits exactly the nodes whose keys share all bytes that
\* they have consumed.
LEMMA WalkVisits ==
  ASSUME HeapOK(heap), NEW ct, NEW lab, Rooted(heap, ct, root, lab), NEW k \in Key, NEW s
  PROVE  s \in Walk(k) <=> OnWay(k, lab, s)
<1> DEFINE L == Len(k.path) + Len(k.value)
<1>1. PICK at : IsWalk(k, at) /\ \A i \in 0..L : at[i] \subseteq Way(k, lab)
  BY WalkRecursive
<1>2. Len(k.path) \in Nat /\ Len(k.value) \in Nat /\ L \in Nat
  <2>1. Len(k.path) \in Nat /\ Len(k.value) \in Nat
    BY KeyFacts
  <2> QED  BY <2>1, SumIsNat
<1>3. Walk(k) = at[L] /\ L \in 0..L
  <2>1. Walk(k) = at[L]
    BY <1>1 DEF IsWalk
  <2> HIDE DEF L
  <2> QED  BY <1>2, <2>1
<1>4. ASSUME s \in Walk(k) PROVE OnWay(k, lab, s)
  BY <1>1, <1>3, <1>4 DEF Way
<1>5. ASSUME OnWay(k, lab, s) PROVE s \in Walk(k)
  <2> DEFINE D(n) == lab[n].p + lab[n].v
             S == {d \in Nat : \A n \in DOMAIN heap :
                     D(n) <= d /\ Agree(k, lab[n].key, lab[n].p, lab[n].v) =>
                       \A i \in 0..L : D(n) <= i => Place(lab, n) \in at[i]}
  <2>1. \A n \in DOMAIN heap : lab[n].p \in Nat /\ lab[n].v \in Nat /\ D(n) \in Nat
    BY RootedFacts
  <2>2. /\ root \in DOMAIN heap
        /\ Place(lab, root) = [node |-> root, p |-> 0, v |-> 0]
        /\ \A i \in 0..L : Place(lab, root) \in at[i]
    <3>1. root \in DOMAIN heap /\ Place(lab, root) = [node |-> root, p |-> 0, v |-> 0]
      BY DEF Rooted, Place
    <3>2. \A i \in 0..L : i = 0 \/ i \in 1..L
      <4> HIDE DEF L
      <4> QED  BY <1>2
    <3> QED  BY <1>1, <3>1, <3>2 DEF IsWalk
  <2>3. \A n \in DOMAIN heap : n # root =>
          \E m \in DOMAIN heap, b \in Byte : heap[m].children[b] = n
    BY DEF Rooted
  <2>4. \A n \in DOMAIN heap : n # nullptr
    BY HeapAssumption DEF HeapOK
  <2>5. ASSUME NEW n \in DOMAIN heap, n # root, Agree(k, lab[n].key, lab[n].p, lab[n].v)
        PROVE  \E m \in DOMAIN heap : /\ Agree(k, lab[m].key, lab[m].p, lab[m].v) /\ D(m) < D(n)
                                      /\ Place(lab, n) \in Onward(k, Place(lab, m))
    <3>1. PICK m \in DOMAIN heap, b \in Byte : heap[m].children[b] = n
      BY <2>3, <2>5
    <3> QED  BY <2>4, <2>5, <3>1, OnwardReaches
  <2> HIDE DEF D, L
  <2>6. 0 \in S
    <3>1. ASSUME NEW n \in DOMAIN heap, D(n) <= 0, Agree(k, lab[n].key, lab[n].p, lab[n].v)
          PROVE  n = root
      <4> SUFFICES ASSUME n # root PROVE FALSE
        OBVIOUS
      <4>1. PICK m \in DOMAIN heap : D(m) < D(n)
        BY <2>5, <3>1
      <4> QED  BY <2>1, <3>1, <4>1
    <3> QED  BY <2>2, <3>1
  <2>7. ASSUME NEW d \in Nat, d \in S PROVE d + 1 \in S
    <3> SUFFICES ASSUME NEW n \in DOMAIN heap, D(n) <= d + 1,
                        Agree(k, lab[n].key, lab[n].p, lab[n].v),
                        NEW i \in 0..L, D(n) <= i
                 PROVE  Place(lab, n) \in at[i]
      OBVIOUS
    <3>1. CASE n = root
      BY <2>2, <3>1
    <3>2. CASE n # root
      <4>1. PICK m \in DOMAIN heap :
              /\ Agree(k, lab[m].key, lab[m].p, lab[m].v) /\ D(m) < D(n)
              /\ Place(lab, n) \in Onward(k, Place(lab, m))
        BY <2>5, <3>2
      <4>2. D(m) \in Nat /\ D(n) \in Nat
        BY <2>1
      <4>3. D(m) <= d /\ i \in 1..L /\ i - 1 \in 0..L /\ D(m) <= i - 1
        BY <1>2, <4>1, <4>2
      <4>4. Place(lab, m) \in at[i - 1]
        BY <2>7, <4>1, <4>3
      <4>5. at[i] = {[node |-> root, p |-> 0, v |-> 0]} \cup UNION {Onward(k, t) : t \in at[i - 1]}
        BY <1>1, <4>3 DEF IsWalk, L
      <4> QED  BY <4>1, <4>4, <4>5
    <3> QED  BY <3>1, <3>2
  <2>8. Nat \subseteq S
    <3> HIDE DEF S
    <3> QED  BY <2>6, <2>7, Induction
  <2>9. /\ s.node \in DOMAIN heap /\ s = Place(lab, s.node)
        /\ Agree(k, lab[s.node].key, lab[s.node].p, lab[s.node].v)
    BY <1>5 DEF OnWay, Place
  <2>10. D(s.node) <= L
    <3>1. lab[s.node].p <= Len(k.path) /\ lab[s.node].v <= Len(k.value)
      BY <2>9 DEF Agree
    <3>2. lab[s.node].p \in Nat /\ lab[s.node].v \in Nat
      BY <2>1, <2>9
    <3> QED  BY <1>2, <3>1, <3>2, SumIsNat DEF D, L
  <2>11. D(s.node) \in Nat
    BY <2>1, <2>9
  <2>12. D(s.node) \in S
    BY <2>8, <2>11
  <2> QED  BY <1>3, <2>9, <2>10, <2>11, <2>12
<1> QED  BY <1>4, <1>5

\* Keys that agree to the ends of both are the same.
LEMMA SameKey ==
  ASSUME NEW a \in Key, NEW b \in Key, Len(a.path) = Len(b.path), Len(a.value) = Len(b.value),
         Agree(a, b, Len(a.path), Len(a.value))
  PROVE  a = b
<1>1. /\ a = [path |-> a.path, value |-> a.value] /\ b = [path |-> b.path, value |-> b.value]
      /\ a.path \in Seq(Byte) /\ a.value \in Seq(Byte)
      /\ b.path \in Seq(Byte) /\ b.value \in Seq(Byte)
  BY KeyFacts
<1>2. a.path = b.path
  BY <1>1, SeqEqual DEF Agree
<1>3. a.value = b.value
  BY <1>1, SeqEqual DEF Agree
<1> QED  BY <1>1, <1>2, <1>3

\* A walk finds the references that were inserted under the key.
LEMMA FoundExact ==
  ASSUME HeapOK(heap), NEW ct, NEW lab, Labelled(heap, ct, root, lab), root # nullptr,
         NEW k \in Key
  PROVE  Found(k) = ct[k]
<1> DEFINE ends == {s \in Walk(k) : EndsAt(k, s)}
<1>1. Rooted(heap, ct, root, lab)
  BY LabelledRooted
<1>2. Len(k.path) \in Nat /\ Len(k.value) \in Nat
  BY KeyFacts
<1>3. ASSUME NEW s \in ends
      PROVE  heap[s.node].refs = ct[k] /\ ct[k] # <<>>
  <2> DEFINE n == s.node
  <2>1. OnWay(k, lab, s) /\ EndsAt(k, s)
    BY <1>1, WalkVisits
  <2>2. /\ n \in DOMAIN heap /\ s.p = lab[n].p /\ s.v = lab[n].v
        /\ Agree(k, lab[n].key, lab[n].p, lab[n].v)
    BY <2>1 DEF OnWay, Place
  <2>3. /\ heap[n].dim = "Leaf" /\ Spells(heap[n], k, lab[n].p, lab[n].v)
        /\ EndP(heap, lab, n) = Len(k.path) /\ EndV(heap, lab, n) = Len(k.value)
    BY <2>1, <2>2 DEF EndsAt, EndP, EndV
  <2>4. /\ lab[n].key \in Key /\ lab[n].p \in Nat /\ lab[n].v \in Nat
        /\ heap[n] \in NodeRecord /\ LabelOK(heap, ct, lab, n)
    BY <1>1, <2>2, RootedFacts
  <2> HIDE DEF n
  <2>5. /\ EndP(heap, lab, n) = Len(lab[n].key.path) /\ EndV(heap, lab, n) = Len(lab[n].key.value)
        /\ heap[n].refs = ct[lab[n].key] /\ ct[lab[n].key] # <<>>
        /\ Spells(heap[n], lab[n].key, lab[n].p, lab[n].v)
    BY <2>3, <2>4 DEF LabelOK, EndOK
  <2>6. Agree(k, lab[n].key, EndP(heap, lab, n), EndV(heap, lab, n))
    BY <2>2, <2>3, <2>4, <2>5, AgreeSpelled DEF EndP, EndV
  <2>7. k = lab[n].key
    BY <2>3, <2>4, <2>5, <2>6, SameKey
  <2> QED  BY <2>5, <2>7 DEF n
<1>4. ASSUME ct[k] # <<>> PROVE ends # {}
  <2>1. PICK n \in DOMAIN heap : heap[n].dim = "Leaf" /\ lab[n].key = k
    BY <1>4 DEF Labelled
  <2>2. lab[n].p <= Len(k.path) /\ lab[n].v <= Len(k.value)
        /\ lab[n].p \in Nat /\ lab[n].v \in Nat /\ LabelOK(heap, ct, lab, n)
    BY <1>1, <2>1, RootedFacts DEF LabelOK
  <2>3. Agree(k, lab[n].key, lab[n].p, lab[n].v)
    BY <2>1, <2>2, AgreeRefl
  <2>4. OnWay(k, lab, Place(lab, n))
    BY <2>3 DEF OnWay, Place
  <2>5. Place(lab, n) \in Walk(k)
    BY <1>1, <2>4, WalkVisits
  <2>6. EndsAt(k, Place(lab, n))
    BY <2>1, <2>2 DEF EndsAt, Place, LabelOK, EndOK, EndP, EndV
  <2> QED  BY <2>5, <2>6
<1>5. CASE ends = {}
  <2>1. ct[k] = <<>>
    BY <1>4, <1>5
  <2> QED  BY <1>5, <2>1 DEF Found
<1>6. CASE ends # {}
  <2>1. (CHOOSE s \in ends : TRUE) \in ends
    BY <1>6
  <2>2. Found(k) = heap[(CHOOSE s \in ends : TRUE).node].refs
    BY <1>6 DEF Found
  <2> HIDE DEF ends
  <2> QED  BY <1>3, <2>1, <2>2
<1> QED  BY <1>5, <1>6

\* What a walk finds for each key is what was inserted under it.
LEMMA StoredContent ==
  ASSUME IInv
  PROVE  Stored = content
<1>1. PICK lab \in [DOMAIN heap -> Label] : Labelled(heap, content, root, lab)
  BY DEF IInv, Represents, Represented
<1>2. HeapOK(heap) /\ content \in [Key -> Seq(Ref)]
  BY DEF IInv, TypeOK, HeapOK
<1>3. \A k \in Key : (IF root = nullptr THEN <<>> ELSE Found(k)) = content[k]
  <2> TAKE k \in Key
  <2>1. CASE root = nullptr
    BY <1>1, <2>1 DEF Labelled
  <2>2. CASE root # nullptr
    BY <1>1, <1>2, <2>2, FoundExact
  <2> QED  BY <2>1, <2>2
<1>4. content = [k \in Key |-> content[k]]
  BY <1>2
<1> QED  BY <1>3, <1>4 DEF Stored

\* A step of the program is an insertion into the abstract index or none.
LEMMA NextContent ==
  ASSUME IInv, [Next]_vars
  PROVE  \/ content' = content
         \/ \E k \in Key, r \in Ref : content' = [content EXCEPT ![k] = Append(@, r)]
<1>1. ASSUME pc = "locate", Success
      PROVE  \E k \in Key, r \in Ref : content' = [content EXCEPT ![k] = Append(@, r)]
  <2> DEFINE k == [path |-> bkey.path, value |-> bkey.value]
  <2>1. k \in Key /\ bkey.ref \in Ref
    BY <1>1 DEF IInv, TypeOK, Key
  <2> QED  BY <1>1, <2>1 DEF Success
<1>2. CASE UNCHANGED vars
  BY <1>2 DEF vars
<1>3. ASSUME NEW k \in Key, NEW r \in Ref, InsertFirst(k, r) \/ Begin(k, r)
      PROVE  content' = content \/ content' = [content EXCEPT ![k] = Append(@, r)]
  BY <1>3 DEF InsertFirst, Begin
<1>4. CASE Locate
  BY <1>4 DEF Locate, Descend, Abort, ReadBehindKey
<1>5. CASE AddRefToExistingLeaf
  BY <1>1, <1>5 DEF AddRefToExistingLeaf, AddRef, Reject
<1>6. CASE AtMismatch
  BY <1>1, <1>6 DEF AtMismatch, Restructure, ReadBehindKey
<1>7. CASE AddNewLeaf
  BY <1>1, <1>7 DEF AddNewLeaf, Descending
<1> QED  BY <1>2, <1>3, <1>4, <1>5, <1>6, <1>7 DEF Next, LocateSteps

Reads == Stored = content

\* The trie, split, shortened and grown by insertions, is the abstract index:
\* every step of Insertion::Execute that changes what walks from the root find
\* adds one reference to one key (insertion.cpp).
THEOREM IndexCorrect ==
  ASSUME PrefixFree
  PROVE  Spec => ImplementsIndex
<1>1. Init => index!Init
  <2> SUFFICES ASSUME Init PROVE index!Init
    OBVIOUS
  <2>1. Stored = content
    BY InitInv, StoredContent
  <2> QED  BY <2>1 DEF Init, index!Init
<1>2. IInv => Reads
  BY StoredContent DEF Reads
<1>3. IInv /\ Reads /\ Reads' /\ [Next]_vars => [index!Next]_Stored
  <2> SUFFICES ASSUME IInv, Reads, Reads', [Next]_vars PROVE [index!Next]_Stored
    OBVIOUS
  <2>1. Stored = content /\ Stored' = content'
    BY DEF Reads
  <2>2. content \in [Key -> Seq(Ref)]
    BY DEF IInv, TypeOK
  <2>3. ASSUME NEW k \in Key, NEW r \in Ref, content' = [content EXCEPT ![k] = Append(@, r)]
        PROVE  index!Insert(k, r)
    BY <2>1, <2>2, <2>3 DEF index!Insert
  <2> QED  BY <2>1, <2>3, NextContent DEF index!Next
<1>4. IInv /\ [Next]_vars => IInv'
  BY NextInv
<1> QED  BY <1>1, <1>2, <1>3, <1>4, InitInv, PTL DEF Spec, ImplementsIndex, index!Spec

-----------------------------------------------------------------------------
(* The labels that walks read from the trie.  A node may have the key of any *)
(* leaf below it in its label.                                               *)

IsRelabel(h, ct, lab, lab2) ==
  /\ lab2 \in [DOMAIN h -> Label]
  /\ \A n \in DOMAIN h :
       LET k == lab2[n].key
           p == EndP(h, lab, n)
           v == EndV(h, lab, n)
       IN  /\ lab2[n].p = lab[n].p /\ lab2[n].v = lab[n].v /\ ct[k] # <<>>
           /\ Agree(k, lab[n].key, p, v)
           /\ h[n].dim = "Leaf" => k = lab[n].key
           /\ h[n].dim # "Leaf" => HasByte(k, h[n].dim, p, v)

LEMMA RelabelNode ==
  ASSUME NEW h, HeapOK(h), NEW ct, NEW rt, NEW lab, Rooted(h, ct, rt, lab),
         NEW lab2, IsRelabel(h, ct, lab, lab2), NEW n \in DOMAIN h
  PROVE  /\ EndP(h, lab2, n) = EndP(h, lab, n) /\ EndV(h, lab2, n) = EndV(h, lab, n)
         /\ LabelOK(h, ct, lab2, n)
<1>1. /\ lab[n].key \in Key /\ lab[n].p \in Nat /\ lab[n].v \in Nat
      /\ h[n] \in NodeRecord
      /\ EndP(h, lab, n) \in Nat /\ EndV(h, lab, n) \in Nat
      /\ lab[n].p <= EndP(h, lab, n) /\ lab[n].v <= EndV(h, lab, n)
      /\ LabelOK(h, ct, lab, n)
  BY RootedFacts
<1> DEFINE k == lab2[n].key
           p == EndP(h, lab, n)
           v == EndV(h, lab, n)
<1>2. /\ lab2[n].p = lab[n].p /\ lab2[n].v = lab[n].v /\ ct[k] # <<>> /\ k \in Key
      /\ Agree(k, lab[n].key, p, v)
      /\ h[n].dim = "Leaf" => k = lab[n].key
      /\ h[n].dim # "Leaf" => HasByte(k, h[n].dim, p, v)
  BY DEF IsRelabel, Label
<1>3. EndP(h, lab2, n) = p /\ EndV(h, lab2, n) = v
  BY <1>2 DEF EndP, EndV
<1>4. Spells(h[n], lab[n].key, lab[n].p, lab[n].v)
  BY <1>1 DEF LabelOK
<1>5. p = lab[n].p + h[n].sep /\ v = lab[n].v + (Len(h[n].prefix) - h[n].sep)
  BY DEF EndP, EndV
<1> HIDE DEF k, p, v
<1>6. Spells(h[n], k, lab[n].p, lab[n].v)
  BY <1>1, <1>2, <1>4, <1>5, SpellsAgree
<1>7. lab[n].p <= Len(k.path) /\ lab[n].v <= Len(k.value)
  <2>1. p <= Len(k.path) /\ v <= Len(k.value) /\ Len(k.path) \in Nat /\ Len(k.value) \in Nat
    BY <1>2, KeyFacts DEF Agree
  <2> QED  BY <1>1, <2>1 DEF p, v
<1>8. EndOK(h, ct, lab2, n)
  <2>1. CASE h[n].dim = "Leaf"
    <3>1. EndOK(h, ct, lab, n) /\ k = lab[n].key
      BY <1>1, <1>2, <2>1 DEF LabelOK
    <3> QED  BY <1>3, <2>1, <3>1 DEF EndOK, k, p, v
  <2>2. CASE h[n].dim # "Leaf"
    BY <1>2, <1>3, <2>2 DEF EndOK, k, p, v
  <2> QED  BY <2>1, <2>2
<1>9. LabelOK(h, ct, lab2, n)
  BY <1>2, <1>6, <1>7, <1>8 DEF LabelOK, k
<1> QED  BY <1>3, <1>9 DEF p, v

\* A key that agrees with another one behind a step has the byte of the step.
LEMMA StepByte ==
  ASSUME NEW a \in Key, NEW k \in Key, NEW p \in Nat, NEW v \in Nat, NEW d,
         HasByte(a, d, p, v), NEW q \in Nat, NEW w \in Nat,
         p + PathStep(d) <= q, v + ValueStep(d) <= w, Agree(k, a, q, w)
  PROVE  HasByte(k, d, p, v) /\ ByteAt(k, d, p, v) = ByteAt(a, d, p, v)
<1>1. Len(k.path) \in Nat /\ Len(k.value) \in Nat
  BY KeyFacts
<1>2. /\ q <= Len(k.path) /\ w <= Len(k.value)
      /\ \A i \in 1..q : k.path[i] = a.path[i]
      /\ \A i \in 1..w : k.value[i] = a.value[i]
  BY DEF Agree
<1>3. CASE d = "Path"
  <2>1. p + 1 <= q /\ p + 1 \in 1..q
    BY <1>3 DEF PathStep
  <2> QED  BY <1>1, <1>2, <1>3, <2>1 DEF HasByte, ByteAt
<1>4. CASE d # "Path"
  <2>1. v + 1 <= w /\ v + 1 \in 1..w
    BY <1>4 DEF ValueStep
  <2> QED  BY <1>1, <1>2, <1>4, <2>1 DEF HasByte, ByteAt
<1> QED  BY <1>3, <1>4

LEMMA RelabelChild ==
  ASSUME NEW h, HeapOK(h), NEW ct, NEW rt, NEW lab, Rooted(h, ct, rt, lab),
         NEW lab2, IsRelabel(h, ct, lab, lab2),
         NEW n \in DOMAIN h, NEW b \in Byte, h[n].children[b] # nullptr
  PROVE  h[n].children[b] \in DOMAIN h /\ ChildOK(h, lab2, n, b, h[n].children[b])
<1> DEFINE c == h[n].children[b]
           d == h[n].dim
           p == EndP(h, lab, n)
           v == EndV(h, lab, n)
<1>1. c \in DOMAIN h /\ ChildOK(h, lab, n, b, c) /\ p \in Nat /\ v \in Nat
  BY RootedFacts
<1>2. /\ EndP(h, lab2, n) = p /\ EndV(h, lab2, n) = v
  BY RelabelNode
<1>3. /\ lab[c].key \in Key /\ EndP(h, lab, c) \in Nat /\ EndV(h, lab, c) \in Nat
      /\ lab[c].p <= EndP(h, lab, c) /\ lab[c].v <= EndV(h, lab, c)
      /\ lab[c].p \in Nat /\ lab[c].v \in Nat
  BY <1>1, RootedFacts
<1>4. /\ lab2[c].key \in Key /\ lab2[c].p = lab[c].p /\ lab2[c].v = lab[c].v
      /\ Agree(lab2[c].key, lab[c].key, EndP(h, lab, c), EndV(h, lab, c))
      /\ Agree(lab2[n].key, lab[n].key, p, v)
  BY <1>1 DEF IsRelabel, Label
<1>5. Agree(lab2[c].key, lab[c].key, lab[c].p, lab[c].v)
  BY <1>3, <1>4, AgreeMono
<1> HIDE DEF c, d, p, v
<1>6. /\ Agree(lab[n].key, lab[c].key, p, v)
      /\ HasByte(lab[c].key, d, p, v) /\ ByteAt(lab[c].key, d, p, v) = b
      /\ lab[c].p = p + PathStep(d) /\ lab[c].v = v + ValueStep(d)
  BY <1>1 DEF ChildOK, c, d, p, v
<1>7. p <= lab[c].p /\ v <= lab[c].v
  BY <1>1, <1>6 DEF PathStep, ValueStep
<1>8. Agree(lab2[c].key, lab[c].key, p, v)
  BY <1>1, <1>3, <1>4, <1>5, <1>7, AgreeMono
<1>9. Agree(lab2[n].key, lab2[c].key, p, v)
  BY <1>4, <1>6, <1>8, AgreeSym, AgreeTrans
<1>10. HasByte(lab2[c].key, d, p, v) /\ ByteAt(lab2[c].key, d, p, v) = b
  BY <1>1, <1>3, <1>4, <1>5, <1>6, StepByte
<1>11. ChildOK(h, lab2, n, b, c)
  BY <1>2, <1>4, <1>6, <1>9, <1>10 DEF ChildOK, d, p, v
<1> QED  BY <1>1, <1>11 DEF c

LEMMA RelabelConflict ==
  ASSUME NEW h, HeapOK(h), NEW ct, NEW rt, NEW lab, Rooted(h, ct, rt, lab),
         NEW lab2, IsRelabel(h, ct, lab, lab2), NEW n \in DOMAIN h,
         NEW m, m.p \in Nat, m.v \in Nat, Conflict(lab[n], m)
  PROVE  Conflict(lab2[n], m)
<1>1. /\ lab[n].key \in Key /\ lab[n].p \in Nat /\ lab[n].v \in Nat
      /\ EndP(h, lab, n) \in Nat /\ EndV(h, lab, n) \in Nat
      /\ lab[n].p <= EndP(h, lab, n) /\ lab[n].v <= EndV(h, lab, n)
  BY RootedFacts
<1>2. /\ lab2[n].key \in Key /\ lab2[n].p = lab[n].p /\ lab2[n].v = lab[n].v
      /\ Agree(lab2[n].key, lab[n].key, EndP(h, lab, n), EndV(h, lab, n))
  BY DEF IsRelabel, Label
<1>3. Agree(lab[n].key, lab2[n].key, lab[n].p, lab[n].v)
  BY <1>1, <1>2, AgreeMono, AgreeSym
<1>4. lab2[n].p \in Nat /\ lab2[n].v \in Nat /\ lab[n].p <= lab2[n].p /\ lab[n].v <= lab2[n].v
  BY <1>1, <1>2
<1> QED  BY <1>1, <1>3, <1>4, ConflictBelow

LEMMA RelabelApart ==
  ASSUME NEW h, HeapOK(h), NEW ct, NEW rt, NEW lab, Rooted(h, ct, rt, lab),
         NEW lab2, IsRelabel(h, ct, lab, lab2),
         NEW n \in DOMAIN h, NEW m \in DOMAIN h, Apart(h, lab, n, m)
  PROVE  Apart(h, lab2, n, m)
<1>1. \A i \in DOMAIN h :
        /\ lab[i].key \in Key /\ lab[i].p \in Nat /\ lab[i].v \in Nat
        /\ EndP(h, lab, i) \in Nat /\ EndV(h, lab, i) \in Nat
        /\ lab[i].p <= EndP(h, lab, i) /\ lab[i].v <= EndV(h, lab, i)
        /\ EndP(h, lab, i) <= Len(lab[i].key.path) /\ EndV(h, lab, i) <= Len(lab[i].key.value)
  BY RootedFacts
<1>2. \A i \in DOMAIN h :
        /\ lab2[i].key \in Key /\ lab2[i].p = lab[i].p /\ lab2[i].v = lab[i].v
        /\ Agree(lab2[i].key, lab[i].key, EndP(h, lab, i), EndV(h, lab, i))
  BY DEF IsRelabel, Label
<1>3. \A i \in DOMAIN h : EndP(h, lab2, i) = EndP(h, lab, i) /\ EndV(h, lab2, i) = EndV(h, lab, i)
  BY RelabelNode
<1>4. ASSUME Conflict(lab[n], lab[m])
      PROVE  Conflict(lab2[n], lab2[m])
  <2>1. Conflict(lab2[n], lab[m])
    BY <1>1, <1>4, RelabelConflict
  <2>2. Conflict(lab[m], lab2[n])
    BY <1>1, <1>2, <2>1, ConflictSym
  <2>3. Conflict(lab2[m], lab2[n])
    BY <1>1, <1>2, <2>2, RelabelConflict
  <2> QED  BY <1>1, <1>2, <2>3, ConflictSym
<1>5. ASSUME NEW i \in DOMAIN h, NEW j \in DOMAIN h, Below(h, lab, i, j)
      PROVE  Below(h, lab2, i, j)
  <2> DEFINE d == h[i].dim
             p == EndP(h, lab, i)
             v == EndV(h, lab, i)
  <2>1. /\ d # "Leaf" /\ Agree(lab[i].key, lab[j].key, p, v)
        /\ p + PathStep(d) <= lab[j].p /\ v + ValueStep(d) <= lab[j].v
        /\ h[i].children[ByteAt(lab[j].key, d, p, v)] # nullptr
    BY <1>5 DEF Below
  <2>2. /\ p \in Nat /\ v \in Nat
        /\ Agree(lab2[i].key, lab[i].key, p, v) /\ EndP(h, lab2, i) = p /\ EndV(h, lab2, i) = v
        /\ lab[i].key \in Key /\ lab2[i].key \in Key
    BY <1>1, <1>2, <1>3
  <2>3. /\ lab2[j].key \in Key /\ lab[j].key \in Key /\ lab2[j].p = lab[j].p /\ lab2[j].v = lab[j].v
        /\ lab[j].p \in Nat /\ lab[j].v \in Nat
        /\ Agree(lab2[j].key, lab[j].key, lab[j].p, lab[j].v)
    BY <1>1, <1>2, AgreeMono
  <2>4. lab[j].p <= Len(lab[j].key.path) /\ lab[j].v <= Len(lab[j].key.value)
        /\ Len(lab[j].key.path) \in Nat /\ Len(lab[j].key.value) \in Nat
    BY <2>3, KeyFacts DEF Agree
  <2> HIDE DEF d, p, v
  <2>5. HasByte(lab[j].key, d, p, v) /\ p <= lab[j].p /\ v <= lab[j].v
    BY <2>1, <2>2, <2>3, <2>4 DEF HasByte, PathStep, ValueStep
  <2>6. ByteAt(lab2[j].key, d, p, v) = ByteAt(lab[j].key, d, p, v)
    BY <2>1, <2>2, <2>3, <2>5, StepByte
  <2>7. Agree(lab2[j].key, lab[j].key, p, v)
    BY <2>2, <2>3, <2>5, AgreeMono
  <2>8. Agree(lab2[i].key, lab2[j].key, p, v)
    BY <2>1, <2>2, <2>7, AgreeSym, AgreeTrans
  <2> QED  BY <2>1, <2>2, <2>3, <2>6, <2>8 DEF Below, d
<1> QED  BY <1>4, <1>5 DEF Apart

\* Another key below the node does as well.
LEMMA RelabelOK ==
  ASSUME NEW h, HeapOK(h), NEW ct, NEW rt, NEW lab, Labelled(h, ct, rt, lab), rt # nullptr,
         NEW lab2, IsRelabel(h, ct, lab, lab2)
  PROVE  Labelled(h, ct, rt, lab2)
<1>1. Rooted(h, ct, rt, lab)
  BY LabelledRooted
<1>2. /\ lab2 \in [DOMAIN h -> Label]
      /\ \A n \in DOMAIN h : /\ lab2[n].p = lab[n].p /\ lab2[n].v = lab[n].v
                             /\ h[n].dim = "Leaf" => lab2[n].key = lab[n].key
  BY DEF IsRelabel
<1>3. \A n \in DOMAIN h : LabelOK(h, ct, lab2, n)
  BY <1>1, RelabelNode
<1>4. \A n \in DOMAIN h, b \in Byte : h[n].children[b] # nullptr =>
        h[n].children[b] \in DOMAIN h /\ ChildOK(h, lab2, n, b, h[n].children[b])
  BY <1>1, RelabelChild
<1>5. \A n, m \in DOMAIN h : n # m => Apart(h, lab2, n, m)
  BY <1>1, RelabelApart DEF Labelled
<1>6. /\ \A k \in Key : ct[k] # <<>> => \E n \in DOMAIN h : h[n].dim = "Leaf" /\ lab2[n].key = k
      /\ \A n \in DOMAIN h : n # rt => \E m \in DOMAIN h, b \in Byte : h[m].children[b] = n
      /\ rt \in DOMAIN h /\ lab2[rt].p = 0 /\ lab2[rt].v = 0
  BY <1>2 DEF Labelled
<1> QED  BY <1>2, <1>3, <1>4, <1>5, <1>6 DEF Labelled

\* The labels of walks are the places of the labels, with stored keys.
LEMMA WalkLabelFacts ==
  ASSUME HeapOK(heap), NEW lab, Rooted(heap, content, root, lab)
  PROVE  /\ WalkLabels \in [DOMAIN heap -> Label]
         /\ \A n \in DOMAIN heap :
              /\ WalkLabels[n].p = lab[n].p /\ WalkLabels[n].v = lab[n].v
              /\ content[WalkLabels[n].key] # <<>>
              /\ Agree(WalkLabels[n].key, lab[n].key, lab[n].p, lab[n].v)
<1> DEFINE along == UNION {{[node |-> s.node, key |-> k, p |-> s.p, v |-> s.v] : s \in Walk(k)} :
                           k \in {k \in Key : content[k] # <<>>}}
           of == [n \in DOMAIN heap |-> CHOOSE l \in along : l.node = n]
<1>1. ASSUME NEW l \in along
      PROVE  /\ l.key \in Key /\ content[l.key] # <<>> /\ l.node \in DOMAIN heap
             /\ l.p = lab[l.node].p /\ l.v = lab[l.node].v
             /\ Agree(l.key, lab[l.node].key, l.p, l.v)
  <2>0. PICK k \in Key :
          content[k] # <<>> /\ l \in {[node |-> s.node, key |-> k, p |-> s.p, v |-> s.v] : s \in Walk(k)}
    OBVIOUS
  <2>1. PICK s \in Walk(k) :
          content[k] # <<>> /\ l = [node |-> s.node, key |-> k, p |-> s.p, v |-> s.v]
    BY <2>0
  <2>2. OnWay(k, lab, s)
    BY WalkVisits
  <2> QED  BY <2>1, <2>2 DEF OnWay, Place
<1>2. ASSUME NEW n \in DOMAIN heap
      PROVE  \E l \in along : l.node = n
  <2> DEFINE k == lab[n].key
  <2>1. /\ k \in Key /\ content[k] # <<>> /\ lab[n].p <= Len(k.path) /\ lab[n].v <= Len(k.value)
    BY RootedFacts DEF LabelOK
  <2>2. Agree(k, lab[n].key, lab[n].p, lab[n].v)
    BY <2>1, AgreeRefl
  <2>3. OnWay(k, lab, Place(lab, n))
    BY <2>2 DEF OnWay, Place
  <2>4. Place(lab, n) \in Walk(k)
    BY <2>1, <2>3, WalkVisits
  <2> DEFINE l == [node |-> Place(lab, n).node, key |-> k, p |-> Place(lab, n).p, v |-> Place(lab, n).v]
  <2>5. l \in along
    BY <2>1, <2>4
  <2>6. l.node = n
    BY DEF Place
  <2> QED  BY <2>5, <2>6
<1> HIDE DEF along
<1>3. \A n \in DOMAIN heap : of[n] \in along /\ of[n].node = n
  BY <1>2
<1>4. WalkLabels = [n \in DOMAIN heap |-> [key |-> of[n].key, p |-> of[n].p, v |-> of[n].v]]
  BY DEF WalkLabels, along
<1> HIDE DEF of
<1>5. \A n \in DOMAIN heap :
        /\ of[n].key \in Key /\ content[of[n].key] # <<>>
        /\ of[n].p = lab[n].p /\ of[n].v = lab[n].v
        /\ Agree(of[n].key, lab[n].key, of[n].p, of[n].v)
  BY <1>1, <1>3
<1>6. \A n \in DOMAIN heap : lab[n].p \in Nat /\ lab[n].v \in Nat
  BY RootedFacts
<1> QED  BY <1>4, <1>5, <1>6 DEF Label

LEMMA WalkRelabels ==
  ASSUME HeapOK(heap), NEW lab, Labelled(heap, content, root, lab), root # nullptr
  PROVE  IsRelabel(heap, content, lab, WalkLabels)
<1> DEFINE lab2 == WalkLabels
<1>1. /\ lab2 \in [DOMAIN heap -> Label]
      /\ \A n \in DOMAIN heap :
              /\ lab2[n].p = lab[n].p /\ lab2[n].v = lab[n].v
              /\ content[lab2[n].key] # <<>>
              /\ Agree(lab2[n].key, lab[n].key, lab[n].p, lab[n].v)
  BY LabelledRooted, WalkLabelFacts
<1> HIDE DEF lab2
<1>2. \A n \in DOMAIN heap : lab2[n].key \in Key
  BY <1>1 DEF Label
<1>3. \A n \in DOMAIN heap :
        /\ Agree(lab2[n].key, lab[n].key, EndP(heap, lab, n), EndV(heap, lab, n))
        /\ heap[n].dim = "Leaf" => lab2[n].key = lab[n].key
        /\ heap[n].dim # "Leaf" =>
             HasByte(lab2[n].key, heap[n].dim, EndP(heap, lab, n), EndV(heap, lab, n))
  BY <1>1, <1>2, StoredIsBelow
<1>4. IsRelabel(heap, content, lab, lab2)
  BY <1>1, <1>3 DEF IsRelabel
<1> QED  BY <1>4 DEF lab2

\* The labels exist: they can be read from the trie at any time.
LEMMA InvLabels ==
  ASSUME IInv
  PROVE  LabelsExist
<1>1. PICK lab \in [DOMAIN heap -> Label] : Represented(lab)
  BY DEF IInv, Represents
<1>2. HeapOK(heap) /\ Labelled(heap, content, root, lab) /\ TypeOK
  BY <1>1 DEF IInv, TypeOK, HeapOK, Represented
<1> DEFINE lab2 == WalkLabels
<1>3. CASE root = nullptr
  <2>1. DOMAIN heap = {} /\ pc # "locate"
    BY <1>2, <1>3 DEF Labelled, TypeOK
  <2>2. lab2 = lab
    BY <1>1, <2>1 DEF WalkLabels
  <2> QED  BY <1>1, <2>2 DEF LabelsExist
<1>4. CASE root # nullptr
  <2>1. IsRelabel(heap, content, lab, lab2) /\ Labelled(heap, content, root, lab2)
    BY <1>2, <1>4, WalkRelabels, RelabelOK
  <2>2. ASSUME pc = "locate" PROVE Located(heap, root, BKey, loc, lab2)
    <3> DEFINE n == loc.node
    <3>1. Located(heap, root, BKey, loc, lab) /\ n \in DOMAIN heap /\ BKey \in Key
      BY <1>1, <1>2, <2>2, LocateFacts
    <3>2. /\ lab2[n].p = lab[n].p /\ lab2[n].v = lab[n].v /\ lab2[n].key \in Key
          /\ Agree(lab2[n].key, lab[n].key, EndP(heap, lab, n), EndV(heap, lab, n))
      BY <2>1, <3>1 DEF IsRelabel, Label
    <3>3. /\ lab[n].key \in Key /\ EndP(heap, lab, n) \in Nat /\ EndV(heap, lab, n) \in Nat
          /\ loc.bkey_p_pos \in Nat /\ loc.bkey_v_pos \in Nat
          /\ loc.bkey_p_pos <= EndP(heap, lab, n) /\ loc.bkey_v_pos <= EndV(heap, lab, n)
      <4>1. /\ lab[n].key \in Key /\ EndP(heap, lab, n) \in Nat /\ EndV(heap, lab, n) \in Nat
            /\ lab[n].p \in Nat /\ lab[n].v \in Nat
        BY <1>2, <3>1, LabelFacts
      <4>2. /\ loc.bkey_p_pos \in Nat /\ loc.bkey_v_pos \in Nat
            /\ loc.node_p_pos \in Nat /\ loc.node_v_pos \in Nat
        BY <1>1, <1>2, <2>2, LocateFacts
      <4>3. /\ N.sep \in Nat /\ Len(N.prefix) \in Nat
            /\ loc.node_p_pos <= N.sep /\ N.sep <= loc.node_v_pos /\ loc.node_v_pos <= Len(N.prefix)
            /\ loc.bkey_p_pos = lab[n].p + loc.node_p_pos
            /\ loc.bkey_v_pos = lab[n].v + (loc.node_v_pos - N.sep)
            /\ lab[n].p + N.sep = EndP(heap, lab, n)
            /\ lab[n].v + (Len(N.prefix) - N.sep) = EndV(heap, lab, n)
        BY <1>1, <1>2, <2>2, PositionFacts
      <4> HIDE DEF n, lab2
      <4>4. loc.bkey_p_pos <= lab[n].p + N.sep
        BY <4>1, <4>2, <4>3
      <4>5. loc.bkey_v_pos <= lab[n].v + (Len(N.prefix) - N.sep)
        BY <4>1, <4>2, <4>3
      <4> QED  BY <4>1, <4>2, <4>3, <4>4, <4>5
    <3>4. Agree(lab2[n].key, lab[n].key, loc.bkey_p_pos, loc.bkey_v_pos)
      BY <3>2, <3>3, AgreeMono
    <3>5. Agree(BKey, lab2[n].key, loc.bkey_p_pos, loc.bkey_v_pos)
      BY <3>1, <3>4, AgreeSym, AgreeTrans DEF Located
    <3> HIDE DEF lab2
    <3> QED  BY <3>1, <3>2, <3>5 DEF Located
  <2> QED  BY <2>1, <2>2 DEF LabelsExist, Represented
<1> QED  BY <1>3, <1>4

\* Whatever has been inserted, the labels can be read from the trie by walks.
THEOREM LabelsCorrect ==
  ASSUME PrefixFree
  PROVE  Spec => []LabelsExist
<1>1. IInv => LabelsExist
  BY InvLabels
<1> QED  BY <1>1, RepresentsCorrect, PTL

-----------------------------------------------------------------------------
(* The number of keys.                                                      *)

LEMMA SlotIn ==
  ASSUME NEW h, NEW x
  PROVE  x \in RefSlots(h) <=> \E n \in DOMAIN h, i \in Nat : i \in 1..Len(h[n].refs) /\ x = <<n, i>>
<1>1. ASSUME x \in RefSlots(h)
      PROVE  \E n \in DOMAIN h, i \in Nat : i \in 1..Len(h[n].refs) /\ x = <<n, i>>
  <2>1. PICK n \in DOMAIN h : x \in {n} \X (1..Len(h[n].refs))
    BY <1>1 DEF RefSlots
  <2>2. PICK i \in 1..Len(h[n].refs) : x = <<n, i>>
    BY <2>1
  <2>3. i \in Nat
    OBVIOUS
  <2> QED  BY <2>2, <2>3
<1>2. ASSUME NEW n \in DOMAIN h, NEW i \in Nat, i \in 1..Len(h[n].refs), x = <<n, i>>
      PROVE  x \in RefSlots(h)
  <2>1. x \in {n} \X (1..Len(h[n].refs))
    BY <1>2
  <2> QED  BY <2>1 DEF RefSlots
<1> QED  BY <1>1, <1>2

\* One more reference is one more slot.
OneMore(S, T) == IsFiniteSet(S) => IsFiniteSet(T) /\ Cardinality(T) = Cardinality(S) + 1

LEMMA AddedSlot ==
  ASSUME NEW h, NEW h2, NEW x, x \notin RefSlots(h),
         \A y : y \in RefSlots(h2) <=> y \in RefSlots(h) \/ y = x
  PROVE  OneMore(RefSlots(h), RefSlots(h2))
<1>1. RefSlots(h2) = RefSlots(h) \cup {x}
  OBVIOUS
<1> QED  BY <1>1, FS_AddElement DEF OneMore

\* A new leaf s is the only node with more references than before; nodes
\* without references come and go.
AddsLeaf(h, h2, s) ==
  /\ s \in DOMAIN h2 /\ s \notin DOMAIN h /\ Len(h2[s].refs) = 1
  /\ \A n \in DOMAIN h2 : n # s =>
       (n \in DOMAIN h /\ h2[n].refs = h[n].refs) \/ Len(h2[n].refs) = 0
  /\ \A n \in DOMAIN h :
       (n \in DOMAIN h2 /\ h2[n].refs = h[n].refs) \/ Len(h[n].refs) = 0

LEMMA AddedLeaf ==
  ASSUME NEW h, NEW h2, NEW s, AddsLeaf(h, h2, s)
  PROVE  OneMore(RefSlots(h), RefSlots(h2))
<1> DEFINE x == <<s, 1>>
<1>1. x \notin RefSlots(h)
  BY SlotIn DEF AddsLeaf
<1>2. ASSUME NEW y, y \in RefSlots(h2)  PROVE y \in RefSlots(h) \/ y = x
  <2>1. PICK n \in DOMAIN h2, i \in Nat : i \in 1..Len(h2[n].refs) /\ y = <<n, i>>
    BY <1>2, SlotIn
  <2>2. CASE n = s
    <3>1. Len(h2[n].refs) = 1
      BY <2>2 DEF AddsLeaf
    <3>2. i \in 1..1
      BY <2>1, <3>1
    <3>3. i = 1
      BY <3>2
    <3> QED  BY <2>1, <2>2, <3>3
  <2>3. CASE n # s
    <3>1. n \in DOMAIN h /\ h2[n].refs = h[n].refs
      BY <2>1, <2>3 DEF AddsLeaf
    <3> QED  BY <2>1, <3>1, SlotIn
  <2> QED  BY <2>2, <2>3
<1>3. ASSUME NEW y, y \in RefSlots(h)  PROVE y \in RefSlots(h2)
  <2>1. PICK n \in DOMAIN h, i \in Nat : i \in 1..Len(h[n].refs) /\ y = <<n, i>>
    BY <1>3, SlotIn
  <2>2. n \in DOMAIN h2 /\ h2[n].refs = h[n].refs
    BY <2>1 DEF AddsLeaf
  <2> QED  BY <2>1, <2>2, SlotIn
<1>4. x \in RefSlots(h2)
  <2>1. s \in DOMAIN h2 /\ 1 \in Nat /\ 1 \in 1..Len(h2[s].refs)
    BY DEF AddsLeaf
  <2> QED  BY <2>1, SlotIn
<1>5. \A y : y \in RefSlots(h2) <=> y \in RefSlots(h) \/ y = x
  BY <1>2, <1>3, <1>4
<1> QED  BY <1>1, <1>5, AddedSlot

LEMMA AddedRef ==
  ASSUME NEW h, NEW n \in DOMAIN h, h[n] \in NodeRecord, h[n].dim = "Leaf", NEW r \in Ref
  PROVE  OneMore(RefSlots(h), RefSlots([h EXCEPT ![n].refs = Append(@, r)]))
<1> DEFINE z == h[n]
           y == [z EXCEPT !.refs = Append(@, r)]
           h2 == [h EXCEPT ![n].refs = Append(@, r)]
           x == <<n, Len(z.refs) + 1>>
<1>1. z = [dim |-> z.dim, prefix |-> z.prefix, sep |-> z.sep,
           children |-> z.children, layout |-> z.layout, refs |-> z.refs]
      /\ z.refs \in Seq(Ref)
  BY NodeFacts
<1>2. y.refs = Append(z.refs, r)
  BY <1>1
<1>3. Len(z.refs) \in Nat /\ Len(Append(z.refs, r)) = Len(z.refs) + 1
  BY <1>1
<1>4. DOMAIN h2 = DOMAIN h /\ h2[n] = y /\ \A m \in DOMAIN h : m # n => h2[m] = h[m]
  OBVIOUS
<1> HIDE DEF y, h2
<1>5. Len(h2[n].refs) = Len(z.refs) + 1
  BY <1>2, <1>3, <1>4
<1>6. x \notin RefSlots(h)
  BY <1>3, SlotIn
<1>7. ASSUME NEW w, w \in RefSlots(h2)  PROVE w \in RefSlots(h) \/ w = x
  <2>1. PICK m \in DOMAIN h2, i \in Nat : i \in 1..Len(h2[m].refs) /\ w = <<m, i>>
    BY <1>7, SlotIn
  <2>2. CASE m = n
    <3>1. i \in 1..Len(z.refs) \/ i = Len(z.refs) + 1
      BY <1>3, <1>5, <2>1, <2>2
    <3> QED  BY <2>1, <2>2, <3>1, SlotIn
  <2>3. CASE m # n
    BY <1>4, <2>1, <2>3, SlotIn
  <2> QED  BY <2>2, <2>3
<1>8. ASSUME NEW w, w \in RefSlots(h)  PROVE w \in RefSlots(h2)
  <2>1. PICK m \in DOMAIN h, i \in Nat : i \in 1..Len(h[m].refs) /\ w = <<m, i>>
    BY <1>8, SlotIn
  <2>2. i \in 1..Len(h2[m].refs) /\ m \in DOMAIN h2
    BY <1>3, <1>4, <1>5, <2>1
  <2> QED  BY <2>1, <2>2, SlotIn
<1>9. x \in RefSlots(h2)
  <2>1. n \in DOMAIN h2 /\ Len(z.refs) + 1 \in Nat /\ Len(z.refs) + 1 \in 1..Len(h2[n].refs)
    BY <1>3, <1>4, <1>5
  <2> QED  BY <2>1, SlotIn
<1>10. \A w : w \in RefSlots(h2) <=> w \in RefSlots(h) \/ w = x
  BY <1>7, <1>8, <1>9
<1>11. OneMore(RefSlots(h), RefSlots(h2))
  BY <1>6, <1>10, AddedSlot
<1> QED  BY <1>11 DEF h2

\* Nodes are records; Put changes a child.
IsRecord(z) == z = [dim |-> z.dim, prefix |-> z.prefix, sep |-> z.sep,
                    children |-> z.children, layout |-> z.layout, refs |-> z.refs]

LEMMA PutRefs ==
  ASSUME NEW z, IsRecord(z), NEW b, NEW s
  PROVE  IsRecord(Put(z, b, s)) /\ Put(z, b, s).refs = z.refs
<1> DEFINE y == Put(z, b, s)
<1>1. y = [dim |-> z.dim, prefix |-> z.prefix, sep |-> z.sep,
           children |-> [z.children EXCEPT ![b] = s], layout |-> z.layout, refs |-> z.refs]
  BY DEF Put, IsRecord
<1> HIDE DEF y
<1>2. IsRecord(y) /\ y.refs = z.refs
  BY <1>1 DEF IsRecord
<1> QED  BY <1>2 DEF y

LEMMA RelinkRefs ==
  ASSUME NEW h, NEW q, Relink(h, q),
         loc.parent # nullptr => loc.parent \in DOMAIN h /\ IsRecord(h[loc.parent])
  PROVE  DOMAIN heap' = DOMAIN h /\ \A m \in DOMAIN h : heap'[m].refs = h[m].refs
<1>1. CASE loc.parent = nullptr
  BY <1>1 DEF Relink
<1>2. CASE loc.parent # nullptr
  <2> DEFINE y == Put(h[loc.parent], loc.parent_byte, q)
  <2>1. heap' = [h EXCEPT ![loc.parent] = y]
    BY <1>2 DEF Relink
  <2>2. y.refs = h[loc.parent].refs
    BY <1>2, PutRefs
  <2> HIDE DEF y
  <2> QED  BY <1>2, <2>1, <2>2
<1> QED  BY <1>1, <1>2

Counts == OneMore(RefSlots(heap), RefSlots(heap'))

\* What every insertion below the root starts from.
LEMMA NodesAreRecords ==
  ASSUME TypeOK, pc = "locate"
  PROVE  /\ loc.node \in DOMAIN heap
         /\ loc.parent # nullptr => loc.parent \in DOMAIN heap
         /\ \A m \in DOMAIN heap : IsRecord(heap[m])
         /\ N = heap[loc.node]
<1>1. \A m \in DOMAIN heap : IsRecord(heap[m])
  BY NodeFacts DEF TypeOK, IsRecord
<1>2. loc \in Location
  BY DEF TypeOK
<1> QED  BY <1>1, <1>2 DEF Location, N

LEMMA LeafRefs ==
  ASSUME NEW key, NEW p, NEW v, NEW r
  PROVE  Len(NewLeaf(key, p, v, r).refs) = 1
BY DEF NewLeaf

LEMMA RestructureCounts ==
  ASSUME IInv, pc = "locate", ~KeyFullyMatched, HasMismatch, Restructure
  PROVE  Counts
<1> DEFINE n == loc.node
           d == DetermineDimension
           np == loc.node_p_pos
           z == NewNode4(d, ParentPrefix, np)
           z1 == Put(z, NodeByte(d), n)
           g(q, s) == [m \in DOMAIN heap \cup {q, s} |->
                        CASE m = q -> Put(z1, SiblingByte(d), s)
                          [] m = s -> NewSibling(d)
                          [] m = n -> Shortened(d)
                          [] OTHER -> heap[m]]
<1>1. TypeOK /\ pc = "locate"
  BY DEF IInv, Restructure
<1>2. PICK q \in Malloc(DOMAIN heap) :
         \E s \in Malloc(DOMAIN heap \cup {q}) : Relink(g(q, s), q)
  BY DEF Restructure
<1>3. PICK s \in Malloc(DOMAIN heap \cup {q}) : Relink(g(q, s), q)
  BY <1>2
<1>4. DOMAIN heap \subseteq Node
  BY <1>1 DEF TypeOK
<1>5. q \in Node /\ q \notin DOMAIN heap /\ s \in Node /\ s \notin DOMAIN heap /\ s # q
  BY <1>2, <1>3, <1>4, HeapAssumption
<1>6. /\ n \in DOMAIN heap /\ N = heap[n]
      /\ loc.parent # nullptr => loc.parent \in DOMAIN heap
      /\ \A m \in DOMAIN heap : IsRecord(heap[m])
  BY <1>1, NodesAreRecords
<1> DEFINE z2 == Put(z1, SiblingByte(d), s)
<1>7. z2.refs = <<>>
  <2>1. IsRecord(z) /\ z.refs = <<>>
    BY DEF NewNode4, IsRecord
  <2> HIDE DEF z
  <2>2. IsRecord(z1) /\ z1.refs = <<>>
    BY <2>1, PutRefs
  <2> HIDE DEF z1
  <2> QED  BY <2>2, PutRefs
<1>8. IsRecord(Shortened(d)) /\ Shortened(d).refs = N.refs
  <2>1. IsRecord(N)
    BY <1>6
  <2> DEFINE pf == SubSeq(N.prefix, np + PathStep(d) + 1, N.sep) \o From(N.prefix, loc.node_v_pos + ValueStep(d))
             sp == Len(SubSeq(N.prefix, np + PathStep(d) + 1, N.sep))
             y == [N EXCEPT !.prefix = pf, !.sep = sp]
  <2>2. y = Shortened(d)
    BY DEF Shortened
  <2> HIDE DEF pf, sp, d, np
  <2>3. y = [dim |-> N.dim, prefix |-> pf, sep |-> sp, children |-> N.children, layout |-> N.layout, refs |-> N.refs]
    <3>1. N = [dim |-> N.dim, prefix |-> N.prefix, sep |-> N.sep,
               children |-> N.children, layout |-> N.layout, refs |-> N.refs]
      BY <2>1 DEF IsRecord
    <3>2. y = [[N EXCEPT !.prefix = pf] EXCEPT !.sep = sp]
      OBVIOUS
    <3> DEFINE w == [N EXCEPT !.prefix = pf]
    <3>3. w = [dim |-> N.dim, prefix |-> pf, sep |-> N.sep,
               children |-> N.children, layout |-> N.layout, refs |-> N.refs]
      BY <3>1
    <3>4. y = [w EXCEPT !.sep = sp]
      BY <3>2
    <3> HIDE DEF w, y
    <3> QED  BY <3>3, <3>4
  <2> HIDE DEF y
  <2> QED  BY <2>2, <2>3 DEF IsRecord
<1> DEFINE h == g(q, s)
<1>9. /\ DOMAIN h = DOMAIN heap \cup {q, s}
      /\ h[q] = z2 /\ h[s] = NewSibling(d) /\ h[n] = Shortened(d)
      /\ \A m \in DOMAIN heap : m # n => h[m] = heap[m]
  <2> HIDE DEF z1, d, np
  <2> QED  BY <1>5, <1>6
<1>10. Relink(h, q)
  BY <1>3
<1> HIDE DEF g, h, n, z2, d
<1>11. loc.parent # nullptr => loc.parent \in DOMAIN h /\ IsRecord(h[loc.parent])
  BY <1>6, <1>8, <1>9
<1>12. DOMAIN heap' = DOMAIN h /\ \A m \in DOMAIN h : heap'[m].refs = h[m].refs
  BY <1>10, <1>11, RelinkRefs
<1>13. Len(NewSibling(d).refs) = 1
  BY LeafRefs DEF NewSibling
<1>14. AddsLeaf(heap, heap', s)
  BY <1>5, <1>6, <1>7, <1>8, <1>9, <1>12, <1>13 DEF AddsLeaf
<1> QED  BY <1>14, AddedLeaf DEF Counts

LEMMA AddNewLeafCounts ==
  ASSUME IInv, AddNewLeaf
  PROVE  Counts
<1> DEFINE n == loc.node
           d == N.dim
           b == NextByte
           e(s) == [m \in DOMAIN heap \cup {s} |->
                      CASE m = s -> NewSibling(d)
                        [] m = n -> Put(N, b, s)
                        [] OTHER -> heap[m]]
           f(s, g) == [m \in (DOMAIN heap \cup {s, g}) \ {n} |->
                         CASE m = s -> NewSibling(d)
                           [] m = g -> Put(Grow(N), b, s)
                           [] OTHER -> heap[m]]
<1>1. TypeOK /\ pc = "locate" /\ d # "Leaf"
  BY DEF IInv, AddNewLeaf, Descending
<1>2. PICK s \in Malloc(DOMAIN heap) :
        IF IsFull(N)
        THEN \E g \in Malloc(DOMAIN heap \cup {s}) : Relink(f(s, g), g)
        ELSE heap' = e(s) /\ root' = root
  BY DEF AddNewLeaf
<1>3. DOMAIN heap \subseteq Node /\ \A m \in DOMAIN heap : heap[m] \in NodeRecord
  BY <1>1 DEF TypeOK
<1>4. s \in Node /\ s \notin DOMAIN heap
  BY <1>2, <1>3, HeapAssumption
<1>5. /\ n \in DOMAIN heap /\ N = heap[n]
      /\ loc.parent # nullptr => loc.parent \in DOMAIN heap
      /\ \A m \in DOMAIN heap : IsRecord(heap[m])
  BY <1>1, NodesAreRecords
<1>6. Len(NewSibling(d).refs) = 1
  BY LeafRefs DEF NewSibling
<1>7. N.refs = <<>>
  BY <1>1, <1>3, <1>5, NodeFacts DEF InnerNode
<1>8. CASE ~IsFull(N)
  <2> DEFINE y == Put(N, b, s)
  <2>1. y.refs = N.refs
    BY <1>5, PutRefs
  <2>2. heap' = e(s)
    BY <1>2, <1>8
  <2>3. /\ DOMAIN e(s) = DOMAIN heap \cup {s} /\ e(s)[s] = NewSibling(d) /\ e(s)[n] = y
        /\ \A m \in DOMAIN heap : m # n => e(s)[m] = heap[m]
    BY <1>4, <1>5
  <2> HIDE DEF e, y, d, n
  <2>4. AddsLeaf(heap, heap', s)
    BY <1>4, <1>5, <1>6, <2>1, <2>2, <2>3 DEF AddsLeaf
  <2> QED  BY <2>4, AddedLeaf DEF Counts
<1>9. CASE IsFull(N)
  <2>1. PICK g \in Malloc(DOMAIN heap \cup {s}) : Relink(f(s, g), g)
    BY <1>2, <1>9
  <2>2. g \in Node /\ g \notin DOMAIN heap /\ g # s
    BY <1>3, <1>4, <2>1, HeapAssumption
  <2> DEFINE z == Grow(N)
             y == Put(z, b, s)
             h == f(s, g)
  <2>3. IsRecord(z) /\ z.refs = N.refs
    <3>1. IsRecord(N)
      BY <1>5
    <3> QED  BY <3>1 DEF IsRecord, Grow
  <2>4. IsRecord(y) /\ y.refs = <<>>
    <3> HIDE DEF z
    <3> QED  BY <1>7, <2>3, PutRefs
  <2>5. /\ DOMAIN h = (DOMAIN heap \cup {s, g}) \ {n}
        /\ h[s] = NewSibling(d) /\ h[g] = y
        /\ \A m \in DOMAIN heap : m # n => h[m] = heap[m]
    BY <1>4, <1>5, <2>2
  <2>6. Relink(h, g)
    BY <2>1
  <2>7. loc.parent # nullptr => loc.parent # n
    BY <1>1, ParentFacts DEF IInv, Represents
  <2> HIDE DEF f, h, y, n, d
  <2>8. loc.parent # nullptr => loc.parent \in DOMAIN h /\ IsRecord(h[loc.parent])
    BY <1>5, <2>5, <2>7
  <2>9. DOMAIN heap' = DOMAIN h /\ \A m \in DOMAIN h : heap'[m].refs = h[m].refs
    BY <2>6, <2>8, RelinkRefs
  <2>10. AddsLeaf(heap, heap', s)
    BY <1>4, <1>5, <1>6, <1>7, <2>2, <2>4, <2>5, <2>9 DEF AddsLeaf
  <2> QED  BY <2>10, AddedLeaf DEF Counts
<1> QED  BY <1>8, <1>9

CountInv == IsFiniteSet(RefSlots(heap)) /\ CountExact

LEMMA CountStep ==
  ASSUME IInv, CountInv, [Next]_vars
  PROVE  CountInv'
<1>1. ASSUME Counts, nr_keys' = nr_keys + 1  PROVE CountInv'
  BY <1>1 DEF Counts, OneMore, CountInv, CountExact
<1>2. ASSUME UNCHANGED <<heap, nr_keys>>  PROVE CountInv'
  BY <1>2 DEF CountInv, CountExact
<1>3. ASSUME NEW k \in Key, NEW r \in Ref, InsertFirst(k, r)  PROVE CountInv'
  <2>1. PICK n \in Malloc(DOMAIN heap) :
          heap' = [m \in DOMAIN heap \cup {n} |->
                     IF m = n THEN NewLeaf(k, 0, 0, r) ELSE heap[m]]
    BY <1>3 DEF InsertFirst
  <2>2. n \notin DOMAIN heap
    BY <2>1, HeapAssumption DEF IInv, TypeOK
  <2>3. Len(NewLeaf(k, 0, 0, r).refs) = 1
    BY LeafRefs
  <2>4. AddsLeaf(heap, heap', n)
    BY <2>1, <2>2, <2>3 DEF AddsLeaf
  <2> QED  BY <1>1, <1>3, <2>4, AddedLeaf DEF Counts, InsertFirst
<1>4. ASSUME pc = "locate", AddRef  PROVE CountInv'
  <2>1. /\ heap' = [heap EXCEPT ![loc.node].refs = Append(@, bkey.ref)]
        /\ heap[loc.node].dim = "Leaf" /\ nr_keys' = nr_keys + 1
    BY <1>4 DEF AddRef, N, Success
  <2>2. loc.node \in DOMAIN heap /\ heap[loc.node] \in NodeRecord /\ bkey.ref \in Ref
    BY <1>4, NodesAreRecords DEF IInv, TypeOK
  <2> QED  BY <1>1, <2>1, <2>2, AddedRef DEF Counts
<1>5. CASE AddRefToExistingLeaf
  BY <1>2, <1>4, <1>5 DEF AddRefToExistingLeaf, Reject
<1>6. CASE AtMismatch
  <2>1. CASE Restructure
    BY <1>1, <1>6, <2>1, RestructureCounts DEF AtMismatch, Restructure, Success
  <2>2. ASSUME NEW d, ReadBehindKey(d)  PROVE CountInv'
    BY <1>2, <2>2 DEF ReadBehindKey
  <2> QED  BY <1>6, <2>1, <2>2 DEF AtMismatch
<1>7. CASE AddNewLeaf
  BY <1>1, <1>7, AddNewLeafCounts DEF AddNewLeaf, Success
<1>8. CASE Locate \/ (\E k \in Key, r \in Ref : Begin(k, r)) \/ UNCHANGED vars
  BY <1>2, <1>8 DEF Locate, Begin, Descend, Abort, ReadBehindKey, vars
<1> QED  BY <1>3, <1>5, <1>6, <1>7, <1>8 DEF Next, LocateSteps

LEMMA InitCount == Init => CountInv
<1> SUFFICES ASSUME Init PROVE CountInv
  OBVIOUS
<1>1. DOMAIN heap = {}
  BY DEF Init
<1>2. RefSlots(heap) = {}
  BY <1>1, SlotIn
<1> QED  BY <1>2, FS_EmptySet DEF Init, CountInv, CountExact

\* Cas::Insert counts exactly the insertions that leave a reference in the trie:
\* Restructure, AddNewLeaf and Grow neither lose nor copy one (insertion.cpp,
\* cas.cpp).
THEOREM CountCorrect ==
  ASSUME PrefixFree
  PROVE  Spec => []CountExact
<1>1. Init => IInv /\ CountInv
  BY InitInv, InitCount
<1>2. IInv /\ CountInv /\ [Next]_vars => (IInv /\ CountInv)'
  BY NextInv, CountStep
<1>3. CountInv => CountExact
  BY DEF CountInv
<1> QED  BY <1>1, <1>2, <1>3, PTL DEF Spec
=============================================================================
