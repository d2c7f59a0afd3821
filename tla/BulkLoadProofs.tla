-------------------------- MODULE BulkLoadProofs --------------------------
(***************************************************************************)
(* For prefix-free keys and every choice of the constants, of the deques   *)
(* that are loaded and of the insertions between the loads: the nodes that *)
(* Construct has made and its pending calls together represent the deque   *)
(* (BulkLoadInv).  No key is lost or stored twice, every node has the      *)
(* layout its children will need, and the loaded trie is one that          *)
(* insertions go on with.  Walks read the labels of a partly built trie,   *)
(* too, and its references and those of the pending calls are nr_keys_.    *)
(*                                                                         *)
(* The second part is about the other index types, which Cas::BulkLoad     *)
(* fills with one static insertion per key.  An interleaved key is an      *)
(* order of the bytes of a key.  If the orders of all inserted keys agree  *)
(* on what comes next wherever they have agreed so far, every node lies in *)
(* the order of some inserted key, its child byte is of the dimension the  *)
(* next key needs, and the trie is labelled like a dynamic one.            *)
(***************************************************************************)
EXTENDS BulkLoadInv, InsertionStatic, InsertionProofs

-----------------------------------------------------------------------------
(* The result of a call takes its place in the trie                         *)

\* The node n with record x is the result of call c and hangs in the new heap.
IsHung(h, h2, c, n, x) ==
  /\ DOMAIN h2 = DOMAIN h \cup {n} /\ h2[n] = x /\ HeapOK(h2)
  /\ \A m \in DOMAIN h :
       /\ h2[m].dim = h[m].dim /\ h2[m].prefix = h[m].prefix
       /\ h2[m].sep = h[m].sep /\ h2[m].refs = h[m].refs
       /\ h2[m].layout = h[m].layout
       /\ \A b \in Byte : h2[m].children[b] =
                            IF m = c.parent /\ b = c.byte THEN n ELSE h[m].children[b]

\* x is the node for call c with label l.
IsResult(ct, l, x) ==
  /\ x \in NodeRecord /\ x.children = NoChildren
  /\ ct[l.key] # <<>> /\ Spells(x, l.key, l.p, l.v)
  /\ IF x.dim = "Leaf"
     THEN /\ l.p + x.sep = Len(l.key.path)
          /\ l.v + (Len(x.prefix) - x.sep) = Len(l.key.value)
          /\ x.refs = ct[l.key]
     ELSE HasByte(l.key, x.dim, l.p + x.sep, l.v + (Len(x.prefix) - x.sep))

\* The call e below n with record x, the result of a call with label l.
GoesOn(ks, l, n, x, e) ==
  LET m == CallLabel(ks, e)
      p == l.p + x.sep
      v == l.v + (Len(x.prefix) - x.sep)
  IN  /\ IsPartition(ks, e, m) /\ e.parent = n /\ e.byte \in Byte /\ x.dim # "Leaf"
      /\ Agree(l.key, m.key, p, v)
      /\ HasByte(m.key, x.dim, p, v) /\ ByteAt(m.key, x.dim, p, v) = e.byte
      /\ m.p = p + PathStep(x.dim) /\ m.v = v + ValueStep(x.dim)

\* The calls ncs take the place of call c.
Divided(ks, l, n, x, c, ncs) ==
  /\ \A e \in ncs : GoesOn(ks, l, n, x, e)
  /\ \A e, f \in ncs : e # f => e.byte # f.byte
  /\ \A i \in c.indexes : \/ x.dim = "Leaf" /\ KeyOf(ks, i) = l.key
                          \/ \E e \in ncs : i \in e.indexes

\* Positions at a node of a partly built trie.
LEMMA PartFacts ==
  ASSUME NEW h, HeapOK(h), NEW ct, NEW rt, NEW lab, NodesOK(h, ct, rt, lab),
         NEW n \in DOMAIN h
  PROVE  /\ lab[n].key \in Key /\ lab[n].p \in Nat /\ lab[n].v \in Nat
         /\ EndP(h, lab, n) \in Nat /\ EndV(h, lab, n) \in Nat
         /\ lab[n].p <= EndP(h, lab, n) /\ lab[n].v <= EndV(h, lab, n)
         /\ EndP(h, lab, n) <= Len(lab[n].key.path) /\ EndV(h, lab, n) <= Len(lab[n].key.value)
         /\ lab[n].p <= Len(lab[n].key.path) /\ lab[n].v <= Len(lab[n].key.value)
         /\ h[n] \in NodeRecord /\ n # nullptr
<1>1. lab[n] \in Label /\ LabelOK(h, ct, lab, n)
  BY DEF NodesOK
<1>2. h[n].sep \in Nat /\ Len(h[n].prefix) - h[n].sep \in Nat
  BY NodeFacts DEF HeapOK
<1>3. lab[n].key \in Key /\ lab[n].p \in Nat /\ lab[n].v \in Nat
  BY <1>1 DEF Label
<1>4. /\ lab[n].p + h[n].sep <= Len(lab[n].key.path)
      /\ lab[n].v + (Len(h[n].prefix) - h[n].sep) <= Len(lab[n].key.value)
      /\ lab[n].p <= Len(lab[n].key.path) /\ lab[n].v <= Len(lab[n].key.value)
  BY <1>1 DEF LabelOK, Spells
<1>5. h[n] \in NodeRecord /\ n # nullptr
  BY HeapAssumption DEF HeapOK
<1> QED  BY <1>1, <1>2, <1>3, <1>4, <1>5 DEF EndP, EndV

\* The byte by which a node tells what lies below it.
LEMMA ByteBelow ==
  ASSUME NEW k \in Key, NEW d, NEW p \in Nat, NEW v \in Nat, NEW q \in Nat, NEW w \in Nat,
         q <= Len(k.path), w <= Len(k.value),
         p + PathStep(d) <= q, v + ValueStep(d) <= w
  PROVE  HasByte(k, d, p, v) /\ ByteAt(k, d, p, v) \in Byte /\ p <= q /\ v <= w
<1>1. /\ k.path \in Seq(Byte) /\ k.value \in Seq(Byte)
      /\ Len(k.path) \in Nat /\ Len(k.value) \in Nat
  BY KeyFacts
<1>2. CASE d = "Path"
  <2>1. p + 1 \in 1..Len(k.path) /\ p < Len(k.path) /\ p <= q /\ v <= w
    BY <1>1, <1>2 DEF PathStep, ValueStep
  <2> QED  BY <1>1, <1>2, <2>1 DEF ByteAt, HasByte
<1>3. CASE d # "Path"
  <2>1. v + 1 \in 1..Len(k.value) /\ v < Len(k.value) /\ v <= w /\ p <= q
    BY <1>1, <1>3 DEF PathStep, ValueStep
  <2> QED  BY <1>1, <1>3, <2>1 DEF ByteAt, HasByte
<1> QED  BY <1>2, <1>3

\* Keys that agree beyond a byte have it in common.
LEMMA SameByte ==
  ASSUME NEW a \in Key, NEW b \in Key, NEW d, NEW p \in Nat, NEW v \in Nat,
         NEW q \in Nat, NEW w \in Nat, Agree(a, b, q, w),
         p + PathStep(d) <= q, v + ValueStep(d) <= w
  PROVE  ByteAt(a, d, p, v) = ByteAt(b, d, p, v) /\ Agree(a, b, p, v)
<1>1. Agree(a, b, p, v)
  <2>1. p <= q /\ v <= w
    BY DEF PathStep, ValueStep
  <2> QED  BY <2>1, AgreeMono
<1>2. CASE d = "Path"
  <2>1. p + 1 \in 1..q
    BY <1>2 DEF PathStep
  <2> QED  BY <1>1, <1>2, <2>1 DEF Agree, ByteAt
<1>3. CASE d # "Path"
  <2>1. v + 1 \in 1..w
    BY <1>3 DEF ValueStep
  <2> QED  BY <1>1, <1>3, <2>1 DEF Agree, ByteAt
<1> QED  BY <1>2, <1>3

\* Two labels that go on from the same position with different bytes.
LEMMA BytesConflict ==
  ASSUME NEW l \in Label, NEW m \in Label, NEW d, NEW p \in Nat, NEW v \in Nat,
         p + PathStep(d) <= l.p, v + ValueStep(d) <= l.v,
         p + PathStep(d) <= m.p, v + ValueStep(d) <= m.v,
         ByteAt(l.key, d, p, v) # ByteAt(m.key, d, p, v)
  PROVE  Conflict(l, m)
<1>1. l.p \in Nat /\ l.v \in Nat /\ m.p \in Nat /\ m.v \in Nat
  BY DEF Label
<1>2. CASE d = "Path"
  <2>1. p + 1 \in 1..l.p /\ p + 1 <= m.p /\ l.key.path[p + 1] # m.key.path[p + 1]
    BY <1>1, <1>2 DEF PathStep, ByteAt
  <2> QED  BY <2>1 DEF Conflict, Differ
<1>3. CASE d # "Path"
  <2>1. v + 1 \in 1..l.v /\ v + 1 <= m.v /\ l.key.value[v + 1] # m.key.value[v + 1]
    BY <1>1, <1>3 DEF ValueStep, ByteAt
  <2> QED  BY <2>1 DEF Conflict, Differ
<1> QED  BY <1>2, <1>3

\* What the state before a step of Construct says of call c, its label l and
\* its result.
Pending(h, ct, rt, lab, ks, cs, c, l, n, x) ==
  /\ HeapOK(h) /\ Loading(h, ct, rt, lab, ks, cs) /\ c \in cs /\ l = CallLabel(ks, c)
  /\ n \in Node /\ n \notin DOMAIN h /\ IsResult(ct, l, x)

\* The positions behind the prefix of the new node.
LEMMA ResultFacts ==
  ASSUME NEW h, NEW ct, NEW rt, NEW lab, NEW ks, NEW cs, NEW c, NEW l, NEW n, NEW x,
         Pending(h, ct, rt, lab, ks, cs, c, l, n, x)
  PROVE  /\ l \in Label /\ l.key \in Key /\ l.p \in Nat /\ l.v \in Nat
         /\ l.p <= Len(l.key.path) /\ l.v <= Len(l.key.value)
         /\ IsPartition(ks, c, l) /\ Waits(h, rt, lab, c, l) /\ NodesOK(h, ct, rt, lab)
         /\ x.sep \in Nat /\ Len(x.prefix) - x.sep \in Nat
         /\ n # nullptr /\ \A b \in Byte : x.children[b] = nullptr
         /\ c.parent = nullptr => DOMAIN h = {} /\ cs = {c}
<1>1. /\ l \in Label /\ l.p <= Len(l.key.path) /\ l.v <= Len(l.key.value)
      /\ IsPartition(ks, c, l) /\ Waits(h, rt, lab, c, l) /\ NodesOK(h, ct, rt, lab)
  BY DEF Pending, Loading, CallsOK, IsPartition
<1>2. x.sep \in Nat /\ Len(x.prefix) - x.sep \in Nat
  BY NodeFacts DEF Pending, IsResult
<1>3. n # nullptr /\ \A b \in Byte : x.children[b] = nullptr
  BY HeapAssumption DEF Pending, IsResult, NoChildren
<1>4. ASSUME c.parent = nullptr  PROVE DOMAIN h = {} /\ cs = {c}
  <2>1. rt = nullptr /\ l.p = 0 /\ l.v = 0
    BY <1>1, <1>4 DEF Waits
  <2>2. ~Conflict(l, CallLabel(ks, c)) /\ \A e \in cs : ~Conflict(l, CallLabel(ks, e))
    BY <2>1 DEF Conflict, Differ
  <2>3. cs = {c}
    BY <2>2 DEF Pending, Loading, CallsOK
  <2> QED  BY <1>1, <2>1, <2>3 DEF NodesOK
<1>5. l.key \in Key /\ l.p \in Nat /\ l.v \in Nat
  BY <1>1 DEF Label
<1> QED  BY <1>1, <1>2, <1>3, <1>4, <1>5

LEMMA HungNodes ==
  ASSUME NEW h, NEW ct, NEW rt, NEW lab, NEW ks, NEW cs, NEW c, NEW l, NEW n, NEW x,
         Pending(h, ct, rt, lab, ks, cs, c, l, n, x),
         NEW h2, IsHung(h, h2, c, n, x)
  PROVE  NodesOK(h2, ct, IF c.parent = nullptr THEN n ELSE rt, With(lab, n, l))
<1> DEFINE D == DOMAIN h
           rt2 == IF c.parent = nullptr THEN n ELSE rt
           lab2 == With(lab, n, l)
           L == l.p
<1>1. /\ l \in Label /\ l.key \in Key /\ l.p \in Nat /\ l.v \in Nat
      /\ l.p <= Len(l.key.path) /\ l.v <= Len(l.key.value)
      /\ Waits(h, rt, lab, c, l) /\ NodesOK(h, ct, rt, lab)
      /\ x.sep \in Nat /\ Len(x.prefix) - x.sep \in Nat
      /\ n # nullptr /\ (\A b \in Byte : x.children[b] = nullptr)
      /\ (c.parent = nullptr => D = {})
  BY ResultFacts
<1>2. /\ DOMAIN h2 = D \cup {n} /\ h2[n] = x /\ HeapOK(h2) /\ HeapOK(h)
      /\ n \notin D /\ IsResult(ct, l, x)
      /\ \A m \in D :
           /\ h2[m].dim = h[m].dim /\ h2[m].prefix = h[m].prefix
           /\ h2[m].sep = h[m].sep /\ h2[m].refs = h[m].refs
           /\ \A b \in Byte : h2[m].children[b] =
                                IF m = c.parent /\ b = c.byte THEN n ELSE h[m].children[b]
  BY DEF IsHung, Pending
<1>3. lab \in [D -> Label]
  BY <1>1 DEF NodesOK
<1>4. /\ lab2 \in [D \cup {n} -> Label] /\ lab2[n] = l /\ \A m \in D : lab2[m] = lab[m]
  BY <1>1, <1>2, <1>3 DEF With
<1> HIDE DEF lab2
<1>5. /\ \A m \in D : EndP(h2, lab2, m) = EndP(h, lab, m) /\ EndV(h2, lab2, m) = EndV(h, lab, m)
      /\ EndP(h2, lab2, n) = l.p + x.sep /\ EndV(h2, lab2, n) = l.v + (Len(x.prefix) - x.sep)
  BY <1>2, <1>4 DEF EndP, EndV
<1>6. \A m \in D \cup {n} : LabelOK(h2, ct, lab2, m)
  <2>1. ASSUME NEW m \in D  PROVE LabelOK(h2, ct, lab2, m)
    <3>1. LabelOK(h, ct, lab, m)
      BY <1>1 DEF NodesOK
    <3>2. Spells(h2[m], lab2[m].key, lab2[m].p, lab2[m].v)
      BY <1>2, <1>4, <3>1 DEF LabelOK, Spells
    <3>3. EndOK(h2, ct, lab2, m)
      BY <1>2, <1>4, <1>5, <3>1 DEF LabelOK, EndOK
    <3> QED  BY <1>4, <3>1, <3>2, <3>3 DEF LabelOK
  <2>2. LabelOK(h2, ct, lab2, n)
    BY <1>1, <1>2, <1>4, <1>5 DEF LabelOK, EndOK, IsResult
  <2> QED  BY <2>1, <2>2
<1>7. \A m \in D \cup {n}, b \in Byte : h2[m].children[b] # nullptr =>
         /\ h2[m].children[b] \in D \cup {n}
         /\ ChildOK(h2, lab2, m, b, h2[m].children[b])
  <2>1. ASSUME NEW m \in D, NEW b \in Byte, h[m].children[b] # nullptr,
               ~(m = c.parent /\ b = c.byte)
        PROVE  h2[m].children[b] \in D /\ ChildOK(h2, lab2, m, b, h2[m].children[b])
    <3>1. h2[m].children[b] = h[m].children[b]
      BY <1>2, <2>1
    <3>2. h[m].children[b] \in D /\ ChildOK(h, lab, m, b, h[m].children[b])
      BY <1>1, <2>1 DEF NodesOK
    <3> QED  BY <1>2, <1>4, <1>5, <3>1, <3>2 DEF ChildOK
  <2>2. ASSUME NEW m \in D, NEW b \in Byte, m = c.parent, b = c.byte
        PROVE  h2[m].children[b] = n /\ ChildOK(h2, lab2, m, b, n)
    <3>1. m # nullptr
      BY <1>1, <2>2, PartFacts, <1>2
    <3>2. h2[m].children[b] = n
      BY <1>2, <2>2
    <3> QED  BY <1>1, <1>2, <1>4, <1>5, <2>2, <3>1, <3>2 DEF Waits, ChildOK
  <2> QED  BY <1>1, <1>2, <2>1, <2>2
<1>8. ASSUME NEW i \in D, NEW j \in D, Below(h, lab, i, j)  PROVE Below(h2, lab2, i, j)
  <2> DEFINE b == ByteAt(lab[j].key, h[i].dim, EndP(h, lab, i), EndV(h, lab, i))
  <2>1. b \in Byte
    BY <1>1, <1>2, <1>8, PartFacts, ByteBelow DEF Below
  <2>2. h2[i].children[b] # nullptr
    BY <1>1, <1>2, <1>8, <2>1 DEF Below
  <2> QED  BY <1>2, <1>4, <1>5, <1>8, <2>2 DEF Below
<1>9. ASSUME NEW m \in D  PROVE Conflict(lab2[m], lab2[n]) \/ Below(h2, lab2, m, n)
  <2>1. CASE Conflict(lab[m], l)
    BY <1>4, <2>1
  <2>2. CASE Above(h, lab, m, c, l)
    <3> DEFINE b == ByteAt(l.key, h[m].dim, EndP(h, lab, m), EndV(h, lab, m))
    <3>1. b \in Byte
      BY <1>1, <1>2, <2>2, PartFacts, ByteBelow DEF Above
    <3>2. h2[m].children[b] # nullptr
      BY <1>1, <1>2, <2>2, <3>1 DEF Above
    <3> QED  BY <1>2, <1>4, <1>5, <2>2, <3>2 DEF Above, Below
  <2> QED  BY <2>1, <2>2 DEF Pending, Loading, CallsOK
<1>10. \A i, j \in D \cup {n} : i # j => Apart(h2, lab2, i, j)
  <2>1. ASSUME NEW i \in D, NEW j \in D, i # j  PROVE Apart(h2, lab2, i, j)
    <3>1. Apart(h, lab, i, j)
      BY <1>1, <2>1 DEF NodesOK
    <3> QED  BY <1>4, <1>8, <3>1 DEF Apart
  <2>2. ASSUME NEW m \in D  PROVE Apart(h2, lab2, m, n) /\ Apart(h2, lab2, n, m)
    <3>1. \A i \in D \cup {n} : lab2[i].p \in Nat /\ lab2[i].v \in Nat
      BY <1>4 DEF Label
    <3>2. Conflict(lab2[m], lab2[n]) => Conflict(lab2[n], lab2[m])
      BY <3>1, ConflictSym
    <3> QED  BY <1>9, <3>2 DEF Apart
  <2> QED  BY <2>1, <2>2
<1>11. \A m \in D \cup {n} : m # rt2 =>
         \E i \in D \cup {n}, b \in Byte : h2[i].children[b] = m
  <2>1. ASSUME n # rt2  PROVE \E i \in D, b \in Byte : h2[i].children[b] = n
    <3>1. c.parent \in D /\ c.byte \in Byte
      BY <1>1, <2>1 DEF Waits
    <3> QED  BY <1>2, <3>1
  <2>2. ASSUME NEW m \in D, m # rt2  PROVE \E i \in D, b \in Byte : h2[i].children[b] = m
    <3>1. c.parent # nullptr /\ m # rt /\ m # nullptr
      BY <1>1, <1>2, <2>2, PartFacts
    <3>2. PICK i \in D, b \in Byte : h[i].children[b] = m
      BY <1>1, <3>1 DEF NodesOK
    <3>3. ~(i = c.parent /\ b = c.byte)
      BY <1>1, <3>1, <3>2 DEF Waits
    <3> QED  BY <1>2, <3>2, <3>3
  <2> QED  BY <2>1, <2>2
<1>12. rt2 \in D \cup {n} /\ rt2 # nullptr /\ lab2[rt2].p = 0 /\ lab2[rt2].v = 0
  <2>1. CASE c.parent = nullptr
    BY <1>1, <1>4, <2>1 DEF Waits
  <2>2. CASE c.parent # nullptr
    <3>1. c.parent \in D
      BY <1>1, <2>2 DEF Waits
    <3>2. rt # nullptr /\ rt \in D /\ lab[rt].p = 0 /\ lab[rt].v = 0
      BY <1>1, <3>1 DEF NodesOK
    <3> QED  BY <1>4, <2>2, <3>2
  <2> QED  BY <2>1, <2>2
<1> HIDE DEF rt2
<1>13. NodesOK(h2, ct, rt2, lab2)
  BY <1>2, <1>4, <1>6, <1>7, <1>10, <1>11, <1>12 DEF NodesOK
<1> QED  BY <1>13 DEF rt2, lab2

LEMMA HungCalls ==
  ASSUME NEW h, NEW ct, NEW rt, NEW lab, NEW ks, NEW cs, NEW c, NEW l, NEW n, NEW x,
         Pending(h, ct, rt, lab, ks, cs, c, l, n, x),
         NEW h2, IsHung(h, h2, c, n, x), NEW ncs, Divided(ks, l, n, x, c, ncs)
  PROVE  CallsOK(h2, IF c.parent = nullptr THEN n ELSE rt, With(lab, n, l), ks,
                 (cs \ {c}) \cup ncs)
<1> DEFINE D == DOMAIN h
           old == cs \ {c}
           rt2 == IF c.parent = nullptr THEN n ELSE rt
           lab2 == With(lab, n, l)
           CL(e) == CallLabel(ks, e)
           P == l.p + x.sep
           V == l.v + (Len(x.prefix) - x.sep)
           d == x.dim
<1>1. /\ l \in Label /\ l.key \in Key /\ l.p \in Nat /\ l.v \in Nat
      /\ l.p <= Len(l.key.path) /\ l.v <= Len(l.key.value)
      /\ Waits(h, rt, lab, c, l) /\ NodesOK(h, ct, rt, lab)
      /\ x.sep \in Nat /\ Len(x.prefix) - x.sep \in Nat
      /\ n # nullptr /\ (\A b \in Byte : x.children[b] = nullptr)
      /\ (c.parent = nullptr => D = {} /\ cs = {c})
  BY ResultFacts
<1>2. /\ DOMAIN h2 = D \cup {n} /\ h2[n] = x /\ HeapOK(h2) /\ HeapOK(h)
      /\ n \notin D /\ IsResult(ct, l, x)
      /\ \A m \in D :
           /\ h2[m].dim = h[m].dim /\ h2[m].prefix = h[m].prefix
           /\ h2[m].sep = h[m].sep /\ h2[m].refs = h[m].refs
           /\ \A b \in Byte : h2[m].children[b] =
                                IF m = c.parent /\ b = c.byte THEN n ELSE h[m].children[b]
  BY DEF IsHung, Pending
<1>3. lab2[n] = l /\ \A m \in D : lab2[m] = lab[m]
  BY <1>1, <1>2 DEF With, NodesOK
<1>4. /\ \A m \in D : EndP(h2, lab2, m) = EndP(h, lab, m) /\ EndV(h2, lab2, m) = EndV(h, lab, m)
      /\ EndP(h2, lab2, n) = P /\ EndV(h2, lab2, n) = V
  BY <1>2, <1>3 DEF EndP, EndV
<1>5. /\ \A e \in old : /\ IsPartition(ks, e, CL(e)) /\ Waits(h, rt, lab, e, CL(e))
                        /\ CL(e) \in Label /\ Conflict(l, CL(e))
      /\ \A e, f \in old : e # f => Conflict(CL(e), CL(f))
      /\ \A e \in old, m \in D : Conflict(lab[m], CL(e)) \/ Above(h, lab, m, e, CL(e))
      /\ \A m \in D : Conflict(lab[m], l) \/ Above(h, lab, m, c, l)
  BY DEF Pending, Loading, CallsOK, IsPartition
<1>6. \A e \in ncs :
        /\ IsPartition(ks, e, CL(e)) /\ CL(e) \in Label
        /\ e.parent = n /\ e.byte \in Byte /\ d # "Leaf"
        /\ Agree(l.key, CL(e).key, P, V)
        /\ HasByte(CL(e).key, d, P, V) /\ ByteAt(CL(e).key, d, P, V) = e.byte
        /\ CL(e).p = P + PathStep(d) /\ CL(e).v = V + ValueStep(d)
  BY DEF Divided, GoesOn, IsPartition
<1>7. P \in Nat /\ V \in Nat /\ l.p <= P /\ l.v <= V
      /\ PathStep(d) \in Nat /\ ValueStep(d) \in Nat
  BY <1>1 DEF PathStep, ValueStep
<1> HIDE DEF P, V, lab2, CL
<1>8. \A m \in Label : m.key \in Key /\ m.p \in Nat /\ m.v \in Nat
  BY DEF Label
\* A new call stands apart from everything that call c stood apart from.
<1>9. ASSUME NEW e \in ncs
      PROVE  /\ Agree(l.key, CL(e).key, l.p, l.v) /\ l.p <= CL(e).p /\ l.v <= CL(e).v
             /\ \A m \in Label : Conflict(l, m) => Conflict(CL(e), m) /\ Conflict(m, CL(e))
  <2>1. Agree(l.key, CL(e).key, l.p, l.v)
    BY <1>1, <1>6, <1>7, <1>8, AgreeMono
  <2>2. l.p <= CL(e).p /\ l.v <= CL(e).v
    BY <1>1, <1>6, <1>7
  <2>3. \A m \in Label : Conflict(l, m) => Conflict(CL(e), m)
    BY <1>1, <1>6, <1>8, <2>1, <2>2, ConflictBelow
  <2> QED  BY <1>6, <1>8, <2>1, <2>2, <2>3, ConflictSym
<1>10. ASSUME NEW m \in D, NEW e, NEW k \in Label, k.p <= Len(k.key.path), k.v <= Len(k.key.value),
              Above(h, lab, m, e, k), e # c
       PROVE  Above(h2, lab2, m, e, k)
  <2> DEFINE b == ByteAt(k.key, h[m].dim, EndP(h, lab, m), EndV(h, lab, m))
  <2>1. b \in Byte
    BY <1>1, <1>2, <1>8, <1>10, PartFacts, ByteBelow DEF Above
  <2>2. h2[m].children[b] # nullptr \/ (e.parent = m /\ e.byte = b)
    BY <1>1, <1>2, <1>10, <2>1 DEF Above
  <2> QED  BY <1>2, <1>3, <1>4, <1>10, <2>2 DEF Above
<1>11. ASSUME NEW e \in old  PROVE Waits(h2, rt2, lab2, e, CL(e))
  <2>1. Waits(h, rt, lab, e, CL(e)) /\ Conflict(l, CL(e)) /\ CL(e) \in Label
    BY <1>5
  <2>2. e.parent # nullptr
    <3>1. SUFFICES ASSUME e.parent = nullptr  PROVE FALSE
      OBVIOUS
    <3>2. CL(e).p = 0 /\ CL(e).v = 0
      BY <2>1, <3>1 DEF Waits
    <3>3. ~Conflict(CL(e), l)
      BY <3>2 DEF Conflict, Differ
    <3> QED  BY <1>1, <1>8, <2>1, <3>3, ConflictSym
  <2>3. e.parent \in D /\ e.byte \in Byte /\ h[e.parent].children[e.byte] = nullptr
    BY <2>1, <2>2 DEF Waits
  <2>4. ~(e.parent = c.parent /\ e.byte = c.byte)
    <3>1. SUFFICES ASSUME e.parent = c.parent, e.byte = c.byte  PROVE FALSE
      OBVIOUS
    <3> DEFINE m == c.parent
               f == h[m].dim
               p == EndP(h, lab, m)
               v == EndV(h, lab, m)
    <3>2. /\ Agree(lab[m].key, l.key, p, v)
          /\ HasByte(l.key, f, p, v) /\ ByteAt(l.key, f, p, v) = c.byte
          /\ l.p = p + PathStep(f) /\ l.v = v + ValueStep(f)
      BY <1>1, <2>2, <3>1 DEF Waits
    <3>3. /\ Agree(lab[m].key, CL(e).key, p, v)
          /\ HasByte(CL(e).key, f, p, v) /\ ByteAt(CL(e).key, f, p, v) = c.byte
      BY <2>1, <2>2, <3>1 DEF Waits
    <3>4. p \in Nat /\ v \in Nat /\ lab[m].key \in Key
      BY <1>1, <1>2, <2>3, <3>1, PartFacts
    <3> HIDE DEF p, v, f, m
    <3>5. Agree(l.key, CL(e).key, p, v)
      BY <3>2, <3>3, AgreeSym, AgreeTrans
    <3>6. Agree(l.key, CL(e).key, l.p, l.v)
      BY <1>1, <1>8, <2>1, <3>2, <3>3, <3>4, <3>5, AgreeStep
    <3> QED  BY <1>1, <2>1, <3>6, AgreeNoConflict
  <2>5. h2[e.parent].children[e.byte] = nullptr
    BY <1>2, <2>3, <2>4
  <2> QED  BY <1>2, <1>3, <1>4, <2>1, <2>2, <2>3, <2>5 DEF Waits
<1>12. ASSUME NEW e \in ncs  PROVE Waits(h2, rt2, lab2, e, CL(e))
  BY <1>1, <1>2, <1>3, <1>4, <1>6 DEF Waits
<1>13. ASSUME NEW e \in old \cup ncs, NEW m \in D \cup {n}
       PROVE  Conflict(lab2[m], CL(e)) \/ Above(h2, lab2, m, e, CL(e))
  <2>1. CASE e \in old /\ m \in D
    <3>1. CL(e) \in Label /\ CL(e).p <= Len(CL(e).key.path) /\ CL(e).v <= Len(CL(e).key.value)
      BY <1>5, <2>1 DEF IsPartition
    <3>2. Above(h, lab, m, e, CL(e)) => Above(h2, lab2, m, e, CL(e))
      BY <1>10, <2>1, <3>1
    <3> QED  BY <1>3, <1>5, <2>1, <3>2
  <2>2. CASE e \in old /\ m = n
    BY <1>3, <1>5, <2>2
  <2>3. CASE e \in ncs /\ m \in D
    <3>0. lab[m] \in Label
      BY <1>1, <2>3 DEF NodesOK
    <3>1. CASE Conflict(lab[m], l)
      <4>1. Conflict(l, lab[m])
        BY <1>1, <1>8, <3>0, <3>1, ConflictSym
      <4> QED  BY <1>3, <1>9, <2>3, <3>0, <4>1
    <3>2. CASE Above(h, lab, m, c, l)
      <4> DEFINE f == h[m].dim
                 p == EndP(h, lab, m)
                 v == EndV(h, lab, m)
                 b == ByteAt(l.key, f, p, v)
      <4>1. /\ p \in Nat /\ v \in Nat /\ f # "Leaf" /\ Agree(lab[m].key, l.key, p, v)
            /\ p + PathStep(f) <= l.p /\ v + ValueStep(f) <= l.v
            /\ (h[m].children[b] # nullptr \/ (c.parent = m /\ c.byte = b))
        BY <1>1, <1>2, <2>3, <3>2, PartFacts DEF Above
      <4> HIDE DEF p, v
      <4>2. b \in Byte
        BY <1>1, <4>1, ByteBelow
      <4>3. h2[m].children[b] # nullptr
        BY <1>1, <1>2, <2>3, <4>1, <4>2
      <4>4. Agree(l.key, CL(e).key, l.p, l.v) /\ l.p <= CL(e).p /\ l.v <= CL(e).v
            /\ CL(e) \in Label
        BY <1>6, <1>9, <2>3
      <4>5. b = ByteAt(CL(e).key, f, p, v) /\ Agree(l.key, CL(e).key, p, v)
        BY <1>1, <1>8, <4>1, <4>4, SameByte
      <4>6. Agree(lab[m].key, CL(e).key, p, v)
        BY <4>1, <4>5, AgreeTrans
      <4>7. p + PathStep(f) <= CL(e).p /\ v + ValueStep(f) <= CL(e).v
        <5>1. PathStep(f) \in Nat /\ ValueStep(f) \in Nat /\ CL(e).p \in Nat /\ CL(e).v \in Nat
          BY <1>8, <4>4 DEF PathStep, ValueStep
        <5>2. /\ p + PathStep(f) <= l.p /\ l.p <= CL(e).p /\ p \in Nat /\ l.p \in Nat
              /\ v + ValueStep(f) <= l.v /\ l.v <= CL(e).v /\ v \in Nat /\ l.v \in Nat
          BY <1>1, <4>1, <4>4
        <5> HIDE DEF f
        <5> QED  BY <5>1, <5>2
      <4>8. EndP(h2, lab2, m) = p /\ EndV(h2, lab2, m) = v /\ h2[m].dim = f /\ lab2[m] = lab[m]
        BY <1>2, <1>3, <1>4, <2>3 DEF p, v
      <4> HIDE DEF f, b
      <4>9. Above(h2, lab2, m, e, CL(e))
        BY <4>1, <4>3, <4>5, <4>6, <4>7, <4>8 DEF Above
      <4> QED  BY <4>9
    <3> QED  BY <1>5, <2>3, <3>1, <3>2
  <2>4. CASE e \in ncs /\ m = n
    <3>1. Above(h2, lab2, n, e, CL(e))
      BY <1>2, <1>3, <1>4, <1>6, <1>7, <2>4 DEF Above
    <3> QED  BY <2>4, <3>1
  <2> QED  BY <1>13, <2>1, <2>2, <2>3, <2>4
<1>14. ASSUME NEW e \in old \cup ncs, NEW f \in old \cup ncs, e # f
       PROVE  Conflict(CL(e), CL(f))
  <2>1. CASE e \in old /\ f \in old
    BY <1>5, <1>14, <2>1
  <2>2. CASE e \in old /\ f \in ncs
    BY <1>5, <1>9, <2>2
  <2>3. CASE e \in ncs /\ f \in old
    BY <1>5, <1>9, <2>3
  <2>4. CASE e \in ncs /\ f \in ncs
    <3>1. e.byte # f.byte
      BY <1>14, <2>4 DEF Divided
    <3>2. ByteAt(CL(e).key, d, P, V) # ByteAt(CL(f).key, d, P, V)
      BY <1>6, <2>4, <3>1
    <3>3. /\ CL(e) \in Label /\ CL(f) \in Label
          /\ P + PathStep(d) <= CL(e).p /\ V + ValueStep(d) <= CL(e).v
          /\ P + PathStep(d) <= CL(f).p /\ V + ValueStep(d) <= CL(f).v
      BY <1>6, <1>7, <2>4
    <3> HIDE DEF d
    <3> QED  BY <1>7, <3>2, <3>3, BytesConflict
  <2> QED  BY <1>14, <2>1, <2>2, <2>3, <2>4
<1>15. \A e \in old \cup ncs : IsPartition(ks, e, CL(e)) /\ Waits(h2, rt2, lab2, e, CL(e))
  BY <1>5, <1>6, <1>11, <1>12
<1> HIDE DEF rt2, old
<1>16. CallsOK(h2, rt2, lab2, ks, old \cup ncs)
  BY <1>2, <1>13, <1>14, <1>15 DEF CallsOK, CL
<1> QED  BY <1>16 DEF rt2, old, lab2

\* A step of Construct keeps the partly built trie represented.
LEMMA HangOK ==
  ASSUME NEW h, NEW ct, NEW rt, NEW lab, NEW ks, NEW cs, NEW c, NEW l, NEW n, NEW x,
         Pending(h, ct, rt, lab, ks, cs, c, l, n, x),
         NEW h2, IsHung(h, h2, c, n, x), NEW ncs, Divided(ks, l, n, x, c, ncs)
  PROVE  Loading(h2, ct, IF c.parent = nullptr THEN n ELSE rt, With(lab, n, l), ks,
                 (cs \ {c}) \cup ncs)
<1> DEFINE lab2 == With(lab, n, l)
           cs2 == (cs \ {c}) \cup ncs
<1>1. /\ DOMAIN h2 = DOMAIN h \cup {n} /\ h2[n] = x
      /\ \A m \in DOMAIN h : h2[m].dim = h[m].dim
  BY DEF IsHung
<1>2. lab2[n] = l /\ \A m \in DOMAIN h : lab2[m] = lab[m]
  BY DEF With, Pending, Loading, NodesOK
<1> HIDE DEF lab2
<1>3. ASSUME NEW k \in Key, ct[k] # <<>>
      PROVE  \/ \E m \in DOMAIN h2 : h2[m].dim = "Leaf" /\ lab2[m].key = k
             \/ \E e \in cs2 : \E i \in e.indexes : KeyOf(ks, i) = k
  <2>1. CASE \E m \in DOMAIN h : h[m].dim = "Leaf" /\ lab[m].key = k
    BY <1>1, <1>2, <2>1
  <2>2. CASE \E e \in cs \ {c} : \E i \in e.indexes : KeyOf(ks, i) = k
    BY <2>2
  <2>3. CASE \E i \in c.indexes : KeyOf(ks, i) = k
    <3>1. PICK i \in c.indexes : KeyOf(ks, i) = k
      BY <2>3
    <3>2. CASE x.dim = "Leaf" /\ KeyOf(ks, i) = l.key
      BY <1>1, <1>2, <3>1, <3>2
    <3>3. CASE \E e \in ncs : i \in e.indexes
      BY <3>1, <3>3
    <3> QED  BY <3>1, <3>2, <3>3 DEF Divided
  <2> QED  BY <1>3, <2>1, <2>2, <2>3 DEF Pending, Loading, AllKept
<1>4. AllKept(h2, ct, lab2, ks, cs2)
  BY <1>3 DEF AllKept
<1> QED  BY <1>4, HungNodes, HungCalls DEF Loading, lab2, cs2

-----------------------------------------------------------------------------
(* The keys with some indexes, the layout for a number of children          *)

\* A finite set of numbers can be enumerated in order.
LEMMA Enumeration ==
  ASSUME NEW n \in Nat, NEW S \in SUBSET (1..n)
  PROVE  /\ IsFiniteSet(S) /\ Cardinality(S) \in Nat
         /\ \E f \in [1..Cardinality(S) -> S] :
              \A i, j \in DOMAIN f : i < j => f[i] < f[j]
<1> DEFINE Upto(y) == {z \in S : z <= y}
           N0 == Cardinality(S)
           g == [y \in S |-> Cardinality(Upto(y))]
<1>1. IsFiniteSet(S) /\ N0 \in Nat
  <2>1. IsFiniteSet(1..n)
    BY FS_Interval
  <2> QED  BY <2>1, FS_Subset, FS_CardinalityType
<1>2. \A y \in S : /\ IsFiniteSet(Upto(y)) /\ Cardinality(Upto(y)) \in 1..N0
  <2>1. TAKE y \in S
  <2>2. Upto(y) \in SUBSET S /\ y \in Upto(y)
    OBVIOUS
  <2>3. IsFiniteSet(Upto(y)) /\ Cardinality(Upto(y)) <= N0
    BY <1>1, <2>2, FS_Subset
  <2>4. Cardinality(Upto(y)) \in Nat /\ Cardinality(Upto(y)) # 0
    BY <2>2, <2>3, FS_EmptySet, FS_CardinalityType
  <2> HIDE DEF Upto
  <2> QED  BY <1>1, <2>3, <2>4
<1>3. \A y, z \in S : y < z => g[y] < g[z]
  <2>1. SUFFICES ASSUME NEW y \in S, NEW z \in S, y < z
                 PROVE  Cardinality(Upto(y)) < Cardinality(Upto(z))
    OBVIOUS
  <2>2. Upto(y) \in SUBSET Upto(z) /\ z \in Upto(z) /\ z \notin Upto(y)
    <3>1. y \in Int /\ z \in Int /\ \A x \in S : x \in Int
      OBVIOUS
    <3>2. \A x \in S : x <= y => x <= z
      BY <2>1, <3>1
    <3>3. z \in Upto(z) /\ ~(z <= y)
      BY <2>1, <3>1
    <3>4. z \notin Upto(y)
      BY <3>3
    <3>5. Upto(y) \in SUBSET Upto(z)
      BY <3>2
    <3> QED  BY <3>3, <3>4, <3>5
  <2>3. /\ Cardinality(Upto(y)) <= Cardinality(Upto(z))
        /\ Cardinality(Upto(z)) = Cardinality(Upto(y)) => Upto(z) = Upto(y)
    BY <1>2, <2>2, FS_Subset
  <2>4. Cardinality(Upto(y)) \in 1..N0 /\ Cardinality(Upto(z)) \in 1..N0
    BY <1>2
  <2> HIDE DEF Upto
  <2> QED  BY <1>1, <2>2, <2>3, <2>4
<1>4. g \in [S -> 1..N0]
  BY <1>2
<1> HIDE DEF g, Upto
<1>5. g \in Injection(S, 1..N0)
  <2>1. \A y, z \in S : g[y] = g[z] => y = z
    <3>1. TAKE y \in S, z \in S
    <3>2. y \in Int /\ z \in Int /\ g[y] \in Int /\ g[z] \in Int
      BY <1>1, <1>4
    <3> QED  BY <1>3, <3>2
  <2> QED  BY <1>4, <2>1 DEF Injection, IsInjective
<1>6. g \in Surjection(S, 1..N0)
  <2>1. IsFiniteSet(1..N0) /\ Cardinality(1..N0) = N0
    <3>1. Cardinality(1..N0) = IF 1 > N0 THEN 0 ELSE N0 - 1 + 1
      BY <1>1, FS_Interval
    <3> HIDE DEF N0
    <3> QED  BY <1>1, <3>1, FS_Interval
  <2> QED  BY <1>5, <2>1, FS_Injection
<1>7. \A i \in 1..N0 : \E y \in S : g[y] = i
  BY <1>6 DEF Surjection
<1> DEFINE f == [i \in 1..N0 |-> CHOOSE y \in S : g[y] = i]
<1>8. \A i \in 1..N0 : f[i] \in S /\ g[f[i]] = i
  BY <1>7
<1>9. f \in [1..N0 -> S] /\ DOMAIN f = 1..N0
  BY <1>8
<1> HIDE DEF f
<1>10. \A i, j \in 1..N0 : i < j => f[i] < f[j]
  <2>1. SUFFICES ASSUME NEW i \in 1..N0, NEW j \in 1..N0, i < j, ~(f[i] < f[j])
                 PROVE  FALSE
    OBVIOUS
  <2>2. f[i] \in Int /\ f[j] \in Int /\ f[i] \in S /\ f[j] \in S
    <3>1. \A x \in S : x \in Int
      OBVIOUS
    <3> QED  BY <1>8, <3>1
  <2>3. f[j] < f[i] \/ f[j] = f[i]
    BY <2>1, <2>2
  <2>4. g[f[j]] <= g[f[i]]
    <3>1. g[f[j]] \in Int /\ g[f[i]] \in Int
      BY <1>8
    <3> QED  BY <1>3, <2>2, <2>3, <3>1
  <2> QED  BY <1>8, <2>1, <2>4
<1> QED  BY <1>1, <1>9, <1>10

KeyRef == [path : Paths, value : Values, ref : Ref]

LEMMA RefsOfFacts ==
  ASSUME NEW ks \in Seq(KeyRef), NEW S \in SUBSET DOMAIN ks
  PROVE  /\ RefsOf(ks, S) \in Seq(Ref)
         /\ RefsOf(ks, S) = <<>> <=> S = {}
<1> DEFINE N0 == Cardinality(S)
           Sorted(f) == \A i, j \in DOMAIN f : i < j => f[i] < f[j]
           f == CHOOSE g \in [1..N0 -> S] : Sorted(g)
           r == [i \in 1..N0 |-> ks[f[i]].ref]
<1>1. Len(ks) \in Nat /\ DOMAIN ks = 1..Len(ks) /\ \A i \in 1..Len(ks) : ks[i].ref \in Ref
  <2>1. Len(ks) \in Nat /\ DOMAIN ks = 1..Len(ks) /\ \A i \in 1..Len(ks) : ks[i] \in KeyRef
    OBVIOUS
  <2> QED  BY <2>1 DEF KeyRef
<1>2. N0 \in Nat /\ IsFiniteSet(S) /\ \E g \in [1..N0 -> S] : Sorted(g)
  BY <1>1, Enumeration
<1>3. f \in [1..N0 -> S]
  BY <1>2
<1>4. RefsOf(ks, S) = r
  BY DEF RefsOf
<1> HIDE DEF f, N0
<1>5. r \in Seq(Ref) /\ Len(r) = N0
  <2>1. \A i \in 1..N0 : ks[f[i]].ref \in Ref
    BY <1>1, <1>3
  <2> QED  BY <1>2, <2>1
<1>6. r = <<>> <=> N0 = 0
  <2> HIDE DEF r
  <2> QED  BY <1>5
<1> QED  BY <1>2, <1>4, <1>5, <1>6, FS_EmptySet DEF N0

\* The layout chosen for the children is the narrowest that holds them.
LEMMA LayoutFacts ==
  ASSUME NEW n \in Nat, n <= MaxByte + 1
  PROVE  /\ Layout(n) \in 1..Len(Widths) /\ n <= Widths[Layout(n)]
         /\ Layout(n) > 1 => n > Widths[Layout(n) - 1]
<1> DEFINE S == {i \in DOMAIN Widths : n <= Widths[i]}
<1>1. /\ Len(Widths) \in Nat /\ Len(Widths) > 0 /\ DOMAIN Widths = 1..Len(Widths)
      /\ \A i \in 1..Len(Widths) : Widths[i] \in Nat
      /\ Widths[Len(Widths)] = MaxByte + 1
  BY WidthAssumption
<1>2. Len(Widths) \in S /\ S \in SUBSET Nat
  BY <1>1
<1>3. Layout(n) \in S /\ \A j \in S : Layout(n) <= j
  BY <1>2, LeastIsLeast DEF Layout
<1>4. ASSUME Layout(n) > 1  PROVE n > Widths[Layout(n) - 1]
  <2>1. Layout(n) \in 1..Len(Widths) /\ Layout(n) - 1 \in 1..Len(Widths)
    BY <1>1, <1>3, <1>4
  <2>2. Layout(n) - 1 \notin S
    BY <1>3, <2>1
  <2> QED  BY <1>1, <2>1, <2>2
<1> QED  BY <1>1, <1>3, <1>4

-----------------------------------------------------------------------------
(* Discriminative bytes                                                     *)

LEMMA StringFacts ==
  ASSUME keys \in Seq(KeyRef), NEW i \in DOMAIN keys
  PROVE  /\ KeyOf(keys, i) \in Key
         /\ String(i, "Path") = KeyOf(keys, i).path /\ String(i, "Value") = KeyOf(keys, i).value
         /\ \A d \in Dimension :
              /\ String(i, d) \in IF d = "Path" THEN Paths ELSE Values
              /\ String(i, d) \in Seq(Byte) /\ Len(String(i, d)) \in Nat
<1>1. keys[i] \in KeyRef
  OBVIOUS
<1>2. keys[i].path \in Paths /\ keys[i].value \in Values
  BY <1>1 DEF KeyRef
<1>3. /\ KeyOf(keys, i) \in Key
      /\ KeyOf(keys, i).path = keys[i].path /\ KeyOf(keys, i).value = keys[i].value
  BY <1>2 DEF KeyOf, Key
<1>4. /\ keys[i].path \in Seq(Byte) /\ keys[i].value \in Seq(Byte)
      /\ Len(keys[i].path) \in Nat /\ Len(keys[i].value) \in Nat
  BY <1>2, KeyAssumption
<1> QED  BY <1>2, <1>3, <1>4 DEF String, Dimension

\* The strings of a partition start with the same e bytes.
Shared(S, d, e) ==
  \A i \in S : /\ e <= Len(String(i, d))
               /\ \A x \in 1..e : String(i, d)[x] = String(First(S), d)[x]

\* From position e on the discriminative byte pos is looked for.  In front of f,
\* where it is, all strings are the same, all of them have a byte there, and not
\* all the same one; without it they are all equal.
Discriminates(S, d, e, pos, f) ==
  /\ pos \in Nat \cup {DoesNotExist} /\ e \in Nat /\ f \in Nat
  /\ e <= f /\ f <= Len(String(First(S), d)) /\ Shared(S, d, f)
  /\ pos = DoesNotExist => \A i \in S : String(i, d) = String(First(S), d)
  /\ pos # DoesNotExist =>
       /\ pos = f /\ \A i \in S : pos < Len(String(i, d))
       /\ \E i \in S : String(i, d)[pos + 1] # String(First(S), d)[pos + 1]

LEMMA DiscFacts ==
  ASSUME PrefixFree, keys \in Seq(KeyRef), NEW S \in SUBSET DOMAIN keys, S # {},
         NEW d \in Dimension, NEW lb \in Nat \cup {DoesNotExist},
         Shared(S, d, End(String(First(S), d), lb))
  PROVE  LET pos == DiscriminativeByte(S, d, lb)
         IN  Discriminates(S, d, End(String(First(S), d), lb), pos, End(String(First(S), d), pos))
<1> DEFINE T == IF d = "Path" THEN Paths ELSE Values
           t(i) == String(i, d)
           s == t(First(S))
           pos == DiscriminativeByte(S, d, lb)
           e == End(s, lb)
           f == End(s, pos)
           diff == {x \in lb..(Len(s) - 1) : \E i \in S : x < Len(t(i)) /\ t(i)[x + 1] # s[x + 1]}
<1>1. PrefixFreeSet(T) /\ \A i \in S : t(i) \in T /\ Len(t(i)) \in Nat
  BY StringFacts DEF PrefixFree
<1>2. First(S) \in S
  <2>1. S \in SUBSET Nat
    OBVIOUS
  <2> QED  BY <2>1, LeastIsLeast DEF First
<1>3. s \in T /\ Len(s) \in Nat
  BY <1>1, <1>2
<1>4. /\ e = IF lb = DoesNotExist THEN Len(s) ELSE lb
      /\ f = IF pos = DoesNotExist THEN Len(s) ELSE pos
      /\ pos = IF lb = DoesNotExist \/ diff = {} THEN DoesNotExist ELSE Least(diff)
      /\ DoesNotExist \notin Nat
  BY DEF End, DiscriminativeByte, Disagrees, DoesNotExist, e, f, pos
<1>5. \A i \in S : e <= Len(t(i)) /\ \A x \in 1..e : t(i)[x] = s[x]
  BY DEF Shared, e, s, t
<1>6. e \in Nat /\ e <= Len(s)
  BY <1>2, <1>3, <1>4, <1>5
\* A string that agrees with s as far as both go is s.
<1>7. ASSUME NEW i \in S, \A x \in 1..Len(s) : x <= Len(t(i)) => t(i)[x] = s[x]
      PROVE  t(i) = s
  <2>1. CASE Len(s) <= Len(t(i))
    <3>1. \A x \in 1..Len(s) : s[x] = t(i)[x]
      BY <1>1, <1>3, <1>7, <2>1
    <3> QED  BY <1>1, <1>3, <2>1, <3>1 DEF PrefixFreeSet
  <2>2. CASE Len(t(i)) <= Len(s)
    <3>1. \A x \in 1..Len(t(i)) : t(i)[x] = s[x]
      BY <1>1, <1>3, <1>7, <2>2
    <3> QED  BY <1>1, <1>3, <2>2, <3>1 DEF PrefixFreeSet
  <2> QED  BY <1>1, <1>3, <2>1, <2>2
<1>8. SUFFICES Discriminates(S, d, e, pos, f)
  BY DEF e, f, pos, s, t
<1> HIDE DEF s, t, T, e, f, pos
<1>9. ASSUME lb \in Nat, NEW y \in Nat, y <= Len(s),
             \A x \in lb..(y - 1), i \in S : x < Len(t(i)) => t(i)[x + 1] = s[x + 1]
      PROVE  \A i \in S, x \in 1..y : x <= Len(t(i)) => t(i)[x] = s[x]
  <2>1. TAKE i \in S, x \in 1..y
  <2> HAVE x <= Len(t(i))
  <2>2. CASE x <= e
    BY <1>5, <1>6, <2>2
  <2>3. CASE x > e
    <3>1. e = lb /\ x \in Int
      BY <1>4, <1>9
    <3>2. x - 1 \in lb..(y - 1) /\ (x - 1) + 1 = x /\ x - 1 < Len(t(i))
      BY <1>1, <1>9, <2>3, <3>1
    <3> QED  BY <1>9, <3>2
  <2> QED  BY <1>6, <2>2, <2>3
<1>10. CASE lb = DoesNotExist
  <2>1. pos = DoesNotExist /\ f = Len(s) /\ e = Len(s)
    BY <1>4, <1>10
  <2>2. \A i \in S : t(i) = s
    BY <1>5, <1>7, <2>1
  <2> QED  BY <1>2, <1>3, <2>1, <2>2 DEF Shared, Discriminates, s, t
<1>11. CASE lb \in Nat /\ diff = {}
  <2>1. pos = DoesNotExist /\ f = Len(s)
    BY <1>4, <1>11
  <2>2. \A x \in lb..(Len(s) - 1), i \in S : x < Len(t(i)) => t(i)[x + 1] = s[x + 1]
    BY <1>11
  <2>3. \A i \in S, x \in 1..Len(s) : x <= Len(t(i)) => t(i)[x] = s[x]
    BY <1>3, <1>9, <1>11, <2>2
  <2>4. \A i \in S : t(i) = s
    BY <1>7, <2>3
  <2> QED  BY <1>2, <1>3, <1>6, <2>1, <2>4 DEF Shared, Discriminates, s, t
<1>12. CASE lb \in Nat /\ diff # {}
  <2>1. diff \in SUBSET Nat
    BY <1>12
  <2>2. pos = Least(diff) /\ lb # DoesNotExist
    BY <1>4, <1>12
  <2>3. pos \in diff /\ \A x \in diff : pos <= x
    BY <1>12, <2>1, <2>2, LeastIsLeast
  <2>4. /\ pos \in Nat /\ lb <= pos /\ pos < Len(s) /\ pos # DoesNotExist /\ f = pos /\ e = lb
        /\ \E i \in S : t(i)[pos + 1] # s[pos + 1]
    <3>1. pos \in lb..(Len(s) - 1) /\ \E i \in S : t(i)[pos + 1] # s[pos + 1]
      BY <2>3
    <3>2. pos \in Nat /\ lb \in Nat
      BY <1>12, <2>1, <2>3
    <3>3. pos # DoesNotExist /\ lb # DoesNotExist
      BY <1>4, <3>2
    <3>4. lb <= pos /\ pos < Len(s)
      BY <1>3, <3>1, <3>2
    <3> QED  BY <1>4, <3>1, <3>2, <3>3, <3>4
  <2>5. \A x \in lb..(pos - 1) : x \notin diff
    <3>1. SUFFICES ASSUME NEW x \in lb..(pos - 1), x \in diff  PROVE FALSE
      OBVIOUS
    <3> HIDE DEF diff
    <3>2. pos <= x /\ pos \in Int /\ x \in Int
      BY <1>12, <2>3, <2>4, <3>1
    <3> QED  BY <3>2
  <2>6. \A x \in lb..(pos - 1), i \in S : x < Len(t(i)) => t(i)[x + 1] = s[x + 1]
    <3>1. \A x \in lb..(pos - 1) : x \in lb..(Len(s) - 1)
      BY <1>3, <1>12, <2>4
    <3> QED  BY <2>5, <3>1
  <2>7. \A i \in S, x \in 1..pos : x <= Len(t(i)) => t(i)[x] = s[x]
    <3>1. pos \in Nat /\ pos <= Len(s) /\ lb \in Nat
      BY <1>3, <1>12, <2>4
    <3> HIDE DEF diff
    <3> QED  BY <1>9, <2>6, <3>1
  <2>8. ASSUME NEW i \in S  PROVE pos < Len(t(i))
    <3>1. SUFFICES ASSUME Len(t(i)) <= pos  PROVE FALSE
      BY <1>1, <2>4
    <3>2. \A x \in 1..Len(s) : x <= Len(t(i)) => t(i)[x] = s[x]
      BY <1>1, <1>3, <2>4, <2>7, <3>1
    <3>3. t(i) = s
      BY <1>7, <3>2
    <3> QED  BY <1>3, <2>4, <3>1, <3>3
  <2>9. \A i \in S : pos <= Len(t(i)) /\ \A x \in 1..pos : t(i)[x] = s[x]
    BY <1>1, <2>4, <2>7, <2>8
  <2> HIDE DEF diff
  <2> QED  BY <1>2, <1>3, <1>6, <2>4, <2>8, <2>9 DEF Shared, Discriminates, s, t
<1> QED  BY <1>10, <1>11, <1>12

-----------------------------------------------------------------------------
(* The node of a call                                                       *)

\* Where the node made for a call ends in the keys of the partition.
EndPath(c)  == End(CallLabel(keys, c).key.path, PathByteOf(c))
EndValue(c) == End(CallLabel(keys, c).key.value, ValueByteOf(c))

LEMMA CallFacts ==
  ASSUME PrefixFree, keys \in Seq(KeyRef), NEW c, NEW l, l = CallLabel(keys, c),
         IsPartition(keys, c, l),
         c.dp \in Nat \cup {DoesNotExist}, c.dv \in Nat \cup {DoesNotExist}
  PROVE  /\ First(c.indexes) \in c.indexes /\ l.key = KeyOf(keys, First(c.indexes))
         /\ l.key \in Key /\ l.p \in Nat /\ l.v \in Nat
         /\ PathByteOf(c) \in Nat \cup {DoesNotExist} /\ ValueByteOf(c) \in Nat \cup {DoesNotExist}
         /\ EndPath(c) \in Nat /\ EndValue(c) \in Nat
         /\ l.p <= EndPath(c) /\ EndPath(c) <= Len(l.key.path)
         /\ l.v <= EndValue(c) /\ EndValue(c) <= Len(l.key.value)
         /\ \A i \in c.indexes : /\ KeyOf(keys, i) \in Key
                                 /\ Agree(l.key, KeyOf(keys, i), EndPath(c), EndValue(c))
         /\ PathByteOf(c) = DoesNotExist =>
              /\ EndPath(c) = Len(l.key.path)
              /\ \A i \in c.indexes : KeyOf(keys, i).path = l.key.path
         /\ ValueByteOf(c) = DoesNotExist =>
              /\ EndValue(c) = Len(l.key.value)
              /\ \A i \in c.indexes : KeyOf(keys, i).value = l.key.value
         /\ PathByteOf(c) # DoesNotExist =>
              /\ PathByteOf(c) = EndPath(c)
              /\ \A i \in c.indexes : EndPath(c) < Len(KeyOf(keys, i).path)
              /\ \E i \in c.indexes : String(i, "Path")[EndPath(c) + 1]
                                        # String(First(c.indexes), "Path")[EndPath(c) + 1]
         /\ ValueByteOf(c) # DoesNotExist =>
              /\ ValueByteOf(c) = EndValue(c)
              /\ \A i \in c.indexes : EndValue(c) < Len(KeyOf(keys, i).value)
              /\ \E i \in c.indexes : String(i, "Value")[EndValue(c) + 1]
                                        # String(First(c.indexes), "Value")[EndValue(c) + 1]
<1> DEFINE S == c.indexes
           a == First(S)
           pp == DiscriminativeByte(S, "Path", c.dp)
           vp == DiscriminativeByte(S, "Value", c.dv)
           p == End(String(a, "Path"), c.dp)
           v == End(String(a, "Value"), c.dv)
           P == End(String(a, "Path"), pp)
           V == End(String(a, "Value"), vp)
<1>1. /\ S \in SUBSET DOMAIN keys /\ S # {} /\ l \in Label
      /\ \A i \in S : Agree(l.key, KeyOf(keys, i), l.p, l.v)
  BY DEF IsPartition
<1>2. a \in S
  <2>1. S \in SUBSET Nat
    BY <1>1
  <2> QED  BY <1>1, <2>1, LeastIsLeast DEF First
<1>3. /\ \A i \in S : /\ KeyOf(keys, i) \in Key
                      /\ String(i, "Path") = KeyOf(keys, i).path
                      /\ String(i, "Value") = KeyOf(keys, i).value
                      /\ Len(String(i, "Path")) \in Nat /\ Len(String(i, "Value")) \in Nat
  BY <1>1, StringFacts
<1>4. /\ l.key = KeyOf(keys, a) /\ l.p = p /\ l.v = v
      /\ EndPath(c) = P /\ EndValue(c) = V /\ PathByteOf(c) = pp /\ ValueByteOf(c) = vp
  BY <1>2, <1>3 DEF CallLabel, EndPath, EndValue, PathByteOf, ValueByteOf
<1>5. l.key.path = String(a, "Path") /\ l.key.value = String(a, "Value")
      /\ l.key \in Key /\ l.p \in Nat /\ l.v \in Nat
  BY <1>1, <1>2, <1>3, <1>4 DEF Label
<1>6. Shared(S, "Path", p) /\ Shared(S, "Value", v)
  <2>1. \A i \in S : Agree(l.key, KeyOf(keys, i), p, v)
    BY <1>1, <1>4
  <2> HIDE DEF S, p, v
  <2>2. /\ \A i \in S : p <= Len(String(i, "Path")) /\ v <= Len(String(i, "Value"))
        /\ \A i \in S, x \in 1..p : String(i, "Path")[x] = String(a, "Path")[x]
        /\ \A i \in S, x \in 1..v : String(i, "Value")[x] = String(a, "Value")[x]
    BY <1>3, <1>5, <2>1 DEF Agree
  <2> QED  BY <2>2 DEF Shared
<1>7. "Path" \in Dimension /\ "Value" \in Dimension
  BY DEF Dimension
<1> HIDE DEF S, a, pp, vp, p, v, P, V
<1>8. /\ pp \in Nat \cup {DoesNotExist} /\ P \in Nat
      /\ p <= P /\ P <= Len(String(a, "Path")) /\ Shared(S, "Path", P)
      /\ pp = DoesNotExist => \A i \in S : String(i, "Path") = String(a, "Path")
      /\ pp # DoesNotExist =>
           /\ pp = P /\ \A i \in S : pp < Len(String(i, "Path"))
           /\ \E i \in S : String(i, "Path")[pp + 1] # String(a, "Path")[pp + 1]
  <2>1. Shared(S, "Path", End(String(First(S), "Path"), c.dp))
    BY <1>6 DEF p, a
  <2>2. Discriminates(S, "Path", p, pp, P)
    BY <1>1, <1>7, <2>1, DiscFacts DEF p, pp, P, a
  <2> QED  BY <2>2 DEF Discriminates, a
<1>9. /\ vp \in Nat \cup {DoesNotExist} /\ V \in Nat
      /\ v <= V /\ V <= Len(String(a, "Value")) /\ Shared(S, "Value", V)
      /\ vp = DoesNotExist => \A i \in S : String(i, "Value") = String(a, "Value")
      /\ vp # DoesNotExist =>
           /\ vp = V /\ \A i \in S : vp < Len(String(i, "Value"))
           /\ \E i \in S : String(i, "Value")[vp + 1] # String(a, "Value")[vp + 1]
  <2>1. Shared(S, "Value", End(String(First(S), "Value"), c.dv))
    BY <1>6 DEF v, a
  <2>2. Discriminates(S, "Value", v, vp, V)
    BY <1>1, <1>7, <2>1, DiscFacts DEF v, vp, V, a
  <2> QED  BY <2>2 DEF Discriminates, a
<1>10. \A i \in S : Agree(l.key, KeyOf(keys, i), P, V)
  BY <1>3, <1>5, <1>8, <1>9 DEF Shared, Agree, a
<1>11. /\ pp = DoesNotExist => P = Len(String(a, "Path"))
       /\ vp = DoesNotExist => V = Len(String(a, "Value"))
  BY DEF P, V, End
<1>12. PathByteOf(c) = DoesNotExist =>
         /\ EndPath(c) = Len(l.key.path)
         /\ \A i \in S : KeyOf(keys, i).path = l.key.path
  BY <1>3, <1>4, <1>5, <1>8, <1>11
<1>13. ValueByteOf(c) = DoesNotExist =>
         /\ EndValue(c) = Len(l.key.value)
         /\ \A i \in S : KeyOf(keys, i).value = l.key.value
  BY <1>3, <1>4, <1>5, <1>9, <1>11
<1>14. PathByteOf(c) # DoesNotExist =>
         /\ PathByteOf(c) = EndPath(c)
         /\ \A i \in S : EndPath(c) < Len(KeyOf(keys, i).path)
         /\ \E i \in S : String(i, "Path")[EndPath(c) + 1] # String(a, "Path")[EndPath(c) + 1]
  BY <1>3, <1>4, <1>8
<1>15. ValueByteOf(c) # DoesNotExist =>
         /\ ValueByteOf(c) = EndValue(c)
         /\ \A i \in S : EndValue(c) < Len(KeyOf(keys, i).value)
         /\ \E i \in S : String(i, "Value")[EndValue(c) + 1] # String(a, "Value")[EndValue(c) + 1]
  BY <1>3, <1>4, <1>9
<1>16. /\ EndPath(c) \in Nat /\ EndValue(c) \in Nat
       /\ l.p <= EndPath(c) /\ EndPath(c) <= Len(l.key.path)
       /\ l.v <= EndValue(c) /\ EndValue(c) <= Len(l.key.value)
       /\ PathByteOf(c) \in Nat \cup {DoesNotExist} /\ ValueByteOf(c) \in Nat \cup {DoesNotExist}
  BY <1>4, <1>5, <1>8, <1>9
<1>17. \A i \in S : /\ KeyOf(keys, i) \in Key
                    /\ Agree(l.key, KeyOf(keys, i), EndPath(c), EndValue(c))
  BY <1>3, <1>4, <1>10
<1> QED  BY <1>2, <1>4, <1>5, <1>12, <1>13, <1>14, <1>15, <1>16, <1>17 DEF S, a

\* BuildPrefix: the bytes between the positions of the call and of the node.
LEMMA PrefixFacts ==
  ASSUME PrefixFree, keys \in Seq(KeyRef), NEW c, NEW l, l = CallLabel(keys, c),
         IsPartition(keys, c, l),
         c.dp \in Nat \cup {DoesNotExist}, c.dv \in Nat \cup {DoesNotExist},
         NEW x, x.prefix = PathPrefix(c) \o ValuePrefix(c), x.sep = Len(PathPrefix(c))
  PROVE  /\ x.prefix \in Seq(Byte) /\ x.sep \in Nat /\ x.sep <= Len(x.prefix)
         /\ l.p + x.sep = EndPath(c) /\ l.v + (Len(x.prefix) - x.sep) = EndValue(c)
         /\ Spells(x, l.key, l.p, l.v)
<1> DEFINE s == PathPrefix(c)
           t == ValuePrefix(c)
           P == EndPath(c)
           V == EndValue(c)
           ap == l.key.path
           av == l.key.value
<1>1. /\ l.key = KeyOf(keys, First(c.indexes)) /\ l.key \in Key
      /\ l.p \in Nat /\ l.v \in Nat /\ P \in Nat /\ V \in Nat
      /\ l.p <= P /\ P <= Len(ap) /\ l.v <= V /\ V <= Len(av)
  BY CallFacts
<1>2. ap \in Seq(Byte) /\ av \in Seq(Byte) /\ Len(ap) \in Nat /\ Len(av) \in Nat
  BY <1>1, KeyFacts
<1>3. s = SubSeq(ap, l.p + 1, P) /\ t = SubSeq(av, l.v + 1, V)
  <2>1. ap = keys[First(c.indexes)].path /\ av = keys[First(c.indexes)].value
    BY <1>1 DEF KeyOf
  <2>2. /\ l.p = End(ap, c.dp) /\ l.v = End(av, c.dv)
        /\ P = End(ap, PathByteOf(c)) /\ V = End(av, ValueByteOf(c))
    BY <1>1 DEF CallLabel, EndPath, EndValue
  <2> HIDE DEF ap, av, P, V
  <2> QED  BY <2>1, <2>2 DEF PathPrefix, ValuePrefix, Part
<1> HIDE DEF P, V, ap, av, s, t
<1>4. /\ s \in Seq(Byte) /\ Len(s) = P - l.p
      /\ \A i \in 1..(P - l.p) : s[i] = ap[l.p + i]
  <2> DEFINE i0 == l.p
  <2>1. i0 \in 0..Len(ap) /\ P \in i0..Len(ap)
    BY <1>1, <1>2
  <2>2. s = SubSeq(ap, i0 + 1, P)
    BY <1>3
  <2> HIDE DEF i0
  <2>3. /\ s \in Seq(Byte) /\ Len(s) = P - i0
        /\ \A i \in 1..(P - i0) : s[i] = ap[i0 + i]
    BY <1>2, <2>1, <2>2, RangeCopy
  <2> QED  BY <2>3 DEF i0
<1>5. /\ t \in Seq(Byte) /\ Len(t) = V - l.v
      /\ \A i \in 1..(V - l.v) : t[i] = av[l.v + i]
  <2> DEFINE i0 == l.v
  <2>1. i0 \in 0..Len(av) /\ V \in i0..Len(av)
    BY <1>1, <1>2
  <2>2. t = SubSeq(av, i0 + 1, V)
    BY <1>3
  <2> HIDE DEF i0
  <2>3. /\ t \in Seq(Byte) /\ Len(t) = V - i0
        /\ \A i \in 1..(V - i0) : t[i] = av[i0 + i]
    BY <1>2, <2>1, <2>2, RangeCopy
  <2> QED  BY <2>3 DEF i0
<1>6. /\ s \o t \in Seq(Byte) /\ Len(s \o t) = Len(s) + Len(t)
      /\ \A i \in 1..Len(s) : (s \o t)[i] = s[i]
      /\ \A i \in 1..Len(t) : (s \o t)[Len(s) + i] = t[i]
  <2>1. s \in Seq(Byte) /\ t \in Seq(Byte)
    BY <1>4, <1>5
  <2> QED  BY <2>1, Concatenation
<1>7. x.prefix = s \o t /\ x.sep = Len(s)
  BY DEF s, t
<1>8. /\ x.prefix \in Seq(Byte) /\ x.sep \in Nat /\ x.sep <= Len(x.prefix)
      /\ x.sep = P - l.p /\ Len(x.prefix) - x.sep = V - l.v
      /\ l.p + x.sep = P /\ l.v + (Len(x.prefix) - x.sep) = V
  <2>1. /\ Len(s) = P - l.p /\ Len(t) = V - l.v /\ Len(s \o t) = Len(s) + Len(t)
        /\ l.p \in Nat /\ l.v \in Nat /\ P \in Nat /\ V \in Nat /\ l.p <= P /\ l.v <= V
    BY <1>1, <1>4, <1>5, <1>6
  <2>2. x.prefix \in Seq(Byte) /\ Len(x.prefix) = Len(s) + Len(t)
    BY <1>6, <1>7
  <2> HIDE DEF s, t
  <2>3. x.sep = P - l.p /\ Len(x.prefix) - x.sep = V - l.v /\ x.sep \in Nat
    BY <1>7, <2>1, <2>2
  <2>4. l.p + x.sep = P /\ l.v + (Len(x.prefix) - x.sep) = V
    <3> DEFINE z == Len(x.prefix) - x.sep
               y == x.sep
    <3>1. /\ y = P - l.p /\ z = V - l.v
          /\ l.p \in Nat /\ l.v \in Nat /\ P \in Nat /\ V \in Nat
      BY <2>1, <2>3
    <3> HIDE DEF y, z
    <3>2. l.p + y = P /\ l.v + z = V
      BY <3>1
    <3> QED  BY <3>2 DEF y, z
  <2>5. x.sep <= Len(x.prefix)
    <3> DEFINE a == Len(s)
               b == Len(t)
    <3>1. a \in Nat /\ b \in Nat
      BY <1>4, <1>5
    <3>2. x.sep = a /\ Len(x.prefix) = a + b
      BY <1>7, <2>2
    <3> HIDE DEF a, b
    <3> QED  BY <3>1, <3>2
  <2> QED  BY <2>2, <2>3, <2>4, <2>5
<1>9. /\ \A i \in 1..x.sep : x.prefix[i] = ap[l.p + i]
      /\ \A i \in 1..(Len(x.prefix) - x.sep) : x.prefix[x.sep + i] = av[l.v + i]
  <2>1. \A i \in 1..x.sep : x.prefix[i] = ap[l.p + i]
    BY <1>4, <1>6, <1>7
  <2>2. Len(x.prefix) - x.sep = Len(t)
    BY <1>5, <1>8
  <2> QED  BY <1>5, <1>6, <1>7, <2>1, <2>2
<1>10. Spells(x, l.key, l.p, l.v)
  BY <1>1, <1>8, <1>9 DEF Spells, ap, av
<1> QED  BY <1>8, <1>10 DEF P, V

-----------------------------------------------------------------------------
(* The invariant                                                            *)

\* The inductive invariant.
CasInv ==
  /\ CasTypeOK
  /\ IF todo = {} THEN Represents ELSE LoadRepresents
  /\ RoomFor /\ IsFiniteSet(DOMAIN heap)

Fresh(h, n, x) == [m \in DOMAIN h \cup {n} |-> IF m = n THEN x ELSE h[m]]

LEMMA LinkFacts ==
  ASSUME HeapOK(heap), NEW c, NEW lab, NEW l, Waits(heap, root, lab, c, l),
         NEW n \in Malloc(DOMAIN heap), NEW x \in NodeRecord,
         Link(Fresh(heap, n, x), c, n)
  PROVE  /\ n \in Node /\ n \notin DOMAIN heap
         /\ IsHung(heap, heap', c, n, x)
         /\ root' = IF c.parent = nullptr THEN n ELSE root
<1> DEFINE h == Fresh(heap, n, x)
<1>1. n \in Node /\ n \notin DOMAIN heap /\ nullptr \notin DOMAIN heap
  BY HeapAssumption DEF HeapOK
<1>2. /\ DOMAIN h = DOMAIN heap \cup {n} /\ h[n] = x
      /\ \A m \in DOMAIN heap : h[m] = heap[m] /\ heap[m] \in NodeRecord
  BY <1>1 DEF Fresh, HeapOK
<1> HIDE DEF h
<1>3. CASE c.parent = nullptr
  <2>1. heap' = h /\ root' = n
    BY <1>3 DEF Link, h
  <2>2. HeapOK(h)
    BY <1>1, <1>2 DEF HeapOK
  <2> QED  BY <1>1, <1>2, <1>3, <2>1, <2>2 DEF IsHung
<1>4. CASE c.parent # nullptr
  <2> DEFINE q == c.parent
  <2>1. q \in DOMAIN heap /\ heap[q].dim # "Leaf" /\ c.byte \in Byte
    BY <1>4 DEF Waits
  <2> DEFINE y == Put(heap[q], c.byte, n)
  <2>2. heap' = [h EXCEPT ![q] = Put(@, c.byte, n)] /\ root' = root
    BY <1>4 DEF Link, h
  <2>3. /\ y \in NodeRecord
        /\ y.dim = heap[q].dim /\ y.prefix = heap[q].prefix /\ y.sep = heap[q].sep
        /\ y.refs = heap[q].refs /\ y.layout = heap[q].layout
        /\ \A b \in Byte : y.children[b] = IF b = c.byte THEN n ELSE heap[q].children[b]
    BY <1>1, <1>2, <2>1, PutFacts
  <2>4. /\ DOMAIN heap' = DOMAIN heap \cup {n} /\ heap'[n] = x /\ heap'[q] = y
        /\ \A m \in DOMAIN heap : m # q => heap'[m] = heap[m]
    BY <1>1, <1>2, <2>1, <2>2
  <2> HIDE DEF y
  <2>5. HeapOK(heap')
    BY <1>1, <1>2, <2>3, <2>4 DEF HeapOK
  <2> QED  BY <1>1, <1>4, <2>1, <2>2, <2>3, <2>4, <2>5 DEF IsHung
<1> QED  BY <1>3, <1>4

\* An inner node has two children at least and the narrowest layout for them.
Roomy(x, k) == /\ k \in 2..Widths[x.layout]
               /\ x.layout > 1 => k > Widths[x.layout - 1]

LEMMA ConstructInv ==
  ASSUME PrefixFree, CasInv, NEW c \in todo, NEW l, l = CallLabel(keys, c),
         NEW n \in Malloc(DOMAIN heap), NEW x, IsResult(content, l, x),
         Link(Fresh(heap, n, x), c, n),
         NEW ncs, Divided(keys, l, n, x, c, ncs), todo' = (todo \ {c}) \cup ncs,
         ncs \subseteq [indexes : (SUBSET DOMAIN keys) \ {{}}, dp : Nat \cup {DoesNotExist},
                        dv : Nat \cup {DoesNotExist}, dimension : Dimension,
                        parent : {n}, byte : Byte],
         x.dim = "Leaf" => ncs = {},
         x.dim # "Leaf" => Roomy(x, Cardinality({e.byte : e \in ncs})),
         UNCHANGED <<nr_keys, pc, bkey, loc, content, keys, nr_loads, leaked>>
  PROVE  CasInv'
<1>1. /\ CasTypeOK /\ LoadRepresents /\ RoomFor /\ TypeOK /\ HeapOK(heap)
      /\ pc = "idle" /\ content = ContentOf(keys)
  BY DEF CasInv, CasTypeOK, LoadRepresents, TypeOK, HeapOK
<1>2. PICK lab \in [DOMAIN heap -> Label] : Loading(heap, content, root, lab, keys, todo)
  BY <1>1 DEF LoadRepresents
<1>3. Waits(heap, root, lab, c, l) /\ x \in NodeRecord
  BY <1>2 DEF Loading, CallsOK, IsResult
<1>4. /\ n \in Node /\ n \notin DOMAIN heap /\ IsHung(heap, heap', c, n, x)
      /\ root' = IF c.parent = nullptr THEN n ELSE root
  BY <1>1, <1>3, LinkFacts
<1> DEFINE lab2 == With(lab, n, l)
<1>5. Pending(heap, content, root, lab, keys, todo, c, l, n, x)
  BY <1>1, <1>2, <1>4 DEF Pending
<1>6. Loading(heap', content, root', lab2, keys, todo')
  BY <1>4, <1>5, HangOK
<1>7. lab2 \in [DOMAIN heap' -> Label] /\ HeapOK(heap')
  BY <1>4, <1>6 DEF Loading, NodesOK, IsHung
<1>8. n \in DOMAIN heap' /\ DOMAIN heap' = DOMAIN heap \cup {n}
  BY <1>4 DEF IsHung
<1> HIDE DEF lab2
<1>9. TypeOK'
  <2>1. root' \in DOMAIN heap' \cup {nullptr}
    BY <1>1, <1>4, <1>8 DEF TypeOK
  <2>2. bkey = NoKey /\ loc = NoLoc /\ nr_keys \in Nat /\ content \in [Key -> Seq(Ref)]
    BY <1>1 DEF TypeOK
  <2> QED  BY <1>1, <1>7, <2>1, <2>2 DEF TypeOK, HeapOK
<1>10. CasTypeOK'
  <2>1. todo' \subseteq CallRecord'
    <3>1. todo \subseteq CallRecord
      BY <1>1 DEF CasTypeOK
    <3>2. \A e \in todo : e \in CallRecord'
      BY <1>8, <3>1 DEF CallRecord
    <3>3. \A e \in ncs : e \in CallRecord'
      BY <1>8 DEF CallRecord
    <3> QED  BY <3>2, <3>3
  <2> QED  BY <1>1, <1>9, <2>1 DEF CasTypeOK
<1>11. ASSUME todo' = {}  PROVE Represents'
  <2>1. Labelled(heap', content', root', lab2)
    BY <1>6, <1>11 DEF Loading, NodesOK, AllKept, Labelled
  <2>2. pc' = "idle"
    BY <1>1
  <2> QED  BY <1>7, <2>1, <2>2 DEF Represents, Represented
<1>12. LoadRepresents'
  BY <1>1, <1>6, <1>7 DEF LoadRepresents
<1>13. RoomFor'
  <2>1. /\ heap'[n] = x
        /\ \A m \in DOMAIN heap :
             /\ heap'[m].dim = heap[m].dim /\ heap'[m].layout = heap[m].layout
             /\ \A b \in Byte : heap'[m].children[b] =
                                  IF m = c.parent /\ b = c.byte THEN n ELSE heap[m].children[b]
    BY <1>4 DEF IsHung
  <2>2. n # nullptr /\ \A b \in Byte : x.children[b] = nullptr
    BY HeapAssumption, <1>4 DEF IsResult, NoChildren
  <2>3. \A e \in todo : e.parent \in DOMAIN heap \cup {nullptr} /\ e.parent # n /\ e.byte \in Byte
    BY <1>1, <1>4, HeapAssumption DEF CasTypeOK, CallRecord
  <2>4. \A e \in ncs : e.parent = n /\ e.byte \in Byte
    OBVIOUS
  <2>5. ASSUME NEW m \in DOMAIN heap  PROVE Slots(m)' = Slots(m)
    <3>1. m # n
      BY <1>4
    <3>2. ASSUME NEW b \in Byte  PROVE b \in Slots(m)' <=> b \in Slots(m)
      BY <2>1, <2>2, <2>3, <2>4, <3>1, <3>2 DEF Slots
    <3> QED  BY <3>2 DEF Slots
  <2>6. Slots(n)' = {e.byte : e \in ncs}
    <3>1. ASSUME NEW b \in Byte
          PROVE  b \in Slots(n)' <=> b \in {e.byte : e \in ncs}
      BY <2>1, <2>2, <2>3, <2>4 DEF Slots
    <3>2. {e.byte : e \in ncs} \subseteq Byte /\ Slots(n)' \subseteq Byte
      BY <2>4 DEF Slots
    <3> QED  BY <3>1, <3>2
  <2> DEFINE S(m) == Slots(m)
  <2>7. ASSUME NEW m \in DOMAIN heap, heap[m].dim # "Leaf"
        PROVE  /\ Cardinality(Slots(m)') \in 2..Widths[heap'[m].layout]
               /\ heap'[m].layout > 1 => Cardinality(Slots(m)') > Widths[heap'[m].layout - 1]
    BY <1>1, <2>1, <2>5, <2>7 DEF RoomFor
  <2>8. x.dim # "Leaf" =>
          /\ Cardinality(Slots(n)') \in 2..Widths[heap'[n].layout]
          /\ heap'[n].layout > 1 => Cardinality(Slots(n)') > Widths[heap'[n].layout - 1]
    BY <2>1, <2>6 DEF Roomy
  <2> QED  BY <1>8, <2>1, <2>7, <2>8 DEF RoomFor
<1>14. IsFiniteSet(DOMAIN heap')
  BY <1>8, FS_AddElement DEF CasInv
<1> QED  BY <1>10, <1>11, <1>12, <1>13, <1>14 DEF CasInv

-----------------------------------------------------------------------------
(* The steps of Construct                                                   *)

\* What the invariant says of a pending call.
LEMMA PendingFacts ==
  ASSUME CasInv, NEW c \in todo
  PROVE  /\ keys \in Seq(KeyRef) /\ content = ContentOf(keys)
         /\ IsPartition(keys, c, CallLabel(keys, c))
         /\ c.indexes \subseteq DOMAIN keys
         /\ c.dp \in Nat \cup {DoesNotExist} /\ c.dv \in Nat \cup {DoesNotExist}
         /\ c.dimension \in Dimension
<1>1. CasTypeOK /\ LoadRepresents
  BY DEF CasInv
<1>2. c \in CallRecord /\ keys \in Seq(KeyRef)
  BY <1>1 DEF CasTypeOK, KeyRef
<1>3. IsPartition(keys, c, CallLabel(keys, c)) /\ content = ContentOf(keys)
  BY <1>1 DEF LoadRepresents, Loading, CallsOK
<1> QED  BY <1>2, <1>3 DEF CallRecord

\* The key of a partition is stored, and when all keys of the partition are
\* equal, so are its references.
LEMMA StoredRefs ==
  ASSUME keys \in Seq(KeyRef), content = ContentOf(keys), NEW c, NEW l,
         IsPartition(keys, c, l), First(c.indexes) \in c.indexes,
         l.key = KeyOf(keys, First(c.indexes)), l.key \in Key
  PROVE  /\ content[l.key] # <<>>
         /\ (\A i \in c.indexes : KeyOf(keys, i) = l.key) =>
              RefsOf(keys, c.indexes) = content[l.key] /\ content[l.key] \in Seq(Ref)
<1> DEFINE S == {i \in DOMAIN keys : KeyOf(keys, i) = l.key}
<1>1. content[l.key] = RefsOf(keys, S)
  BY DEF ContentOf
<1>2. First(c.indexes) \in S /\ S \in SUBSET DOMAIN keys
  BY DEF IsPartition
<1>3. content[l.key] # <<>> /\ content[l.key] \in Seq(Ref)
  BY <1>1, <1>2, RefsOfFacts
<1>4. ASSUME \A i \in c.indexes : KeyOf(keys, i) = l.key
      PROVE  c.indexes = S
  <2>1. \A i \in c.indexes : i \in S
    BY <1>4 DEF IsPartition
  <2>2. \A i \in S : i \in c.indexes
    BY <1>2 DEF IsPartition
  <2> QED  BY <2>1, <2>2
<1> QED  BY <1>1, <1>3, <1>4

LEMMA ConstructLeafStep ==
  ASSUME PrefixFree, CasInv, NEW c \in todo, ConstructLeaf(c),
         UNCHANGED <<nr_keys, pc, bkey, loc, content, keys, nr_loads, leaked>>
  PROVE  CasInv'
<1> DEFINE l == CallLabel(keys, c)
           x == [dim |-> "Leaf", prefix |-> PathPrefix(c) \o ValuePrefix(c),
                 sep |-> Len(PathPrefix(c)), children |-> NoChildren,
                 layout |-> 0, refs |-> RefsOf(keys, c.indexes)]
<1>1. PICK n \in Malloc(DOMAIN heap) : Link(Fresh(heap, n, x), c, n)
  BY DEF ConstructLeaf, Fresh
<1>2. todo' = (todo \ {c}) \cup {} /\ AtLeaf(c)
  BY DEF ConstructLeaf
<1>3. /\ keys \in Seq(KeyRef) /\ content = ContentOf(keys) /\ IsPartition(keys, c, l)
      /\ c.indexes \subseteq DOMAIN keys
      /\ c.dp \in Nat \cup {DoesNotExist} /\ c.dv \in Nat \cup {DoesNotExist}
  BY PendingFacts
<1>4. /\ x.dim = "Leaf" /\ x.prefix = PathPrefix(c) \o ValuePrefix(c)
      /\ x.sep = Len(PathPrefix(c)) /\ x.children = NoChildren
      /\ x.refs = RefsOf(keys, c.indexes)
      /\ x = [dim |-> "Leaf", prefix |-> x.prefix, sep |-> x.sep, children |-> NoChildren,
              layout |-> 0, refs |-> x.refs]
  OBVIOUS
<1> HIDE DEF x, l
<1>5. /\ First(c.indexes) \in c.indexes /\ l.key = KeyOf(keys, First(c.indexes))
      /\ l.key \in Key
      /\ EndPath(c) = Len(l.key.path) /\ EndValue(c) = Len(l.key.value)
      /\ \A i \in c.indexes : KeyOf(keys, i).path = l.key.path /\ KeyOf(keys, i).value = l.key.value
                              /\ KeyOf(keys, i) \in Key
  BY <1>2, <1>3, CallFacts DEF AtLeaf, l
<1>6. \A i \in c.indexes : KeyOf(keys, i) = l.key
  BY <1>5, KeyFacts
<1>7. /\ content[l.key] # <<>> /\ x.refs = content[l.key] /\ x.refs \in Seq(Ref)
  BY <1>3, <1>4, <1>5, <1>6, StoredRefs
<1>8. /\ x.prefix \in Seq(Byte) /\ x.sep \in Nat /\ x.sep <= Len(x.prefix)
      /\ l.p + x.sep = EndPath(c) /\ l.v + (Len(x.prefix) - x.sep) = EndValue(c)
      /\ Spells(x, l.key, l.p, l.v)
  BY <1>3, <1>4, PrefixFacts DEF l
<1>9. x \in NodeRecord
  <2>1. x \in LeafNode
    <3> DEFINE p == x.prefix
               q == x.sep
               r == x.refs
    <3>1. p \in Seq(Byte) /\ q \in Nat /\ r \in Seq(Ref)
      BY <1>7, <1>8
    <3>2. x = [dim |-> "Leaf", prefix |-> p, sep |-> q, children |-> NoChildren,
               layout |-> 0, refs |-> r]
      BY <1>4
    <3> HIDE DEF p, q, r
    <3> QED  BY <3>1, <3>2 DEF LeafNode
  <2> QED  BY <1>8, <2>1 DEF NodeRecord
<1>10. IsResult(content, l, x)
  BY <1>4, <1>5, <1>7, <1>8, <1>9 DEF IsResult
<1>11. Divided(keys, l, n, x, c, {})
  BY <1>4, <1>6 DEF Divided
<1> QED  BY <1>1, <1>2, <1>4, <1>10, <1>11, ConstructInv DEF l

\* The dimension of a new inner node is one in which the keys differ.
LEMMA SplitFact ==
  ASSUME NEW c, c.dimension \in Dimension, ~AtLeaf(c)
  PROVE  /\ SplitDimension(c) \in Dimension
         /\ SplitDimension(c) = "Path" => PathByteOf(c) # DoesNotExist
         /\ SplitDimension(c) = "Value" => ValueByteOf(c) # DoesNotExist
BY DEF SplitDimension, AtLeaf, Dimension

\* A call of Construct on strings none of which is a proper prefix of another one
\* reads no string behind its end (bulk_load.cpp:107 and :125).
LEMMA ReadsInside ==
  ASSUME PrefixFree, CasInv, NEW c \in todo
  PROVE  ~ReadsBehind(c)
<1> DEFINE l == CallLabel(keys, c)
           S == c.indexes
<1>1. /\ keys \in Seq(KeyRef) /\ IsPartition(keys, c, l)
      /\ S \subseteq DOMAIN keys /\ c.dimension \in Dimension
      /\ c.dp \in Nat \cup {DoesNotExist} /\ c.dv \in Nat \cup {DoesNotExist}
  BY PendingFacts
<1> HIDE DEF l
<1>2. /\ First(S) \in S /\ l.key = KeyOf(keys, First(S))
      /\ EndPath(c) \in Nat /\ EndValue(c) \in Nat
      /\ PathByteOf(c) = DoesNotExist => \A i \in S : KeyOf(keys, i).path = l.key.path
      /\ ValueByteOf(c) = DoesNotExist => \A i \in S : KeyOf(keys, i).value = l.key.value
      /\ PathByteOf(c) # DoesNotExist =>
           PathByteOf(c) = EndPath(c) /\ \A i \in S : EndPath(c) < Len(KeyOf(keys, i).path)
      /\ ValueByteOf(c) # DoesNotExist =>
           ValueByteOf(c) = EndValue(c) /\ \A i \in S : EndValue(c) < Len(KeyOf(keys, i).value)
  BY <1>1, CallFacts DEF l
<1>3. \A i \in S : /\ String(i, "Path") = KeyOf(keys, i).path
                   /\ String(i, "Value") = KeyOf(keys, i).value
                   /\ Len(String(i, "Path")) \in Nat /\ Len(String(i, "Value")) \in Nat
  BY <1>1, StringFacts DEF Dimension
<1>4. ~ScanBehind(S, "Path", c.dp)
  <2> SUFFICES ASSUME c.dp # DoesNotExist, NEW i \in S,
                      NEW x \in c.dp..(Len(String(First(S), "Path")) - 1),
                      x >= Len(String(i, "Path")),
                      PathByteOf(c) # DoesNotExist => x <= PathByteOf(c)
               PROVE  FALSE
    BY DEF ScanBehind, PathByteOf
  <2>1. x \in Int /\ x < Len(String(First(S), "Path"))
    BY <1>1, <1>2, <1>3
  <2>2. CASE PathByteOf(c) = DoesNotExist
    BY <1>2, <1>3, <2>1, <2>2
  <2>3. CASE PathByteOf(c) # DoesNotExist
    BY <1>2, <1>3, <2>1, <2>3
  <2> QED  BY <2>2, <2>3
<1>5. ~ScanBehind(S, "Value", c.dv)
  <2> SUFFICES ASSUME c.dv # DoesNotExist, NEW i \in S,
                      NEW x \in c.dv..(Len(String(First(S), "Value")) - 1),
                      x >= Len(String(i, "Value")),
                      ValueByteOf(c) # DoesNotExist => x <= ValueByteOf(c)
               PROVE  FALSE
    BY DEF ScanBehind, ValueByteOf
  <2>1. x \in Int /\ x < Len(String(First(S), "Value"))
    BY <1>1, <1>2, <1>3
  <2>2. CASE ValueByteOf(c) = DoesNotExist
    BY <1>2, <1>3, <2>1, <2>2
  <2>3. CASE ValueByteOf(c) # DoesNotExist
    BY <1>2, <1>3, <2>1, <2>3
  <2> QED  BY <2>2, <2>3
<1>6. ASSUME ~AtLeaf(c), NEW i \in S
      PROVE  (IF SplitDimension(c) = "Path" THEN PathByteOf(c) ELSE ValueByteOf(c))
               < Len(String(i, SplitDimension(c)))
  <2>1. CASE SplitDimension(c) = "Path"
    BY <1>1, <1>2, <1>3, <1>6, <2>1, SplitFact
  <2>2. CASE SplitDimension(c) = "Value"
    BY <1>1, <1>2, <1>3, <1>6, <2>2, SplitFact
  <2> QED  BY <1>1, <1>6, <2>1, <2>2, SplitFact DEF Dimension
<1>7. ASSUME ~AtLeaf(c)
      PROVE  (IF SplitDimension(c) = "Path" THEN PathByteOf(c) ELSE ValueByteOf(c)) \in Nat
  BY <1>1, <1>2, <1>7, SplitFact DEF Dimension
<1>8. ASSUME NEW i \in S  PROVE Len(String(i, SplitDimension(c))) \in Nat
  BY <1>1, <1>3, <1>8 DEF SplitDimension, Dimension
<1> QED  BY <1>4, <1>5, <1>6, <1>7, <1>8 DEF ReadsBehind

LEMMA ConstructInnerStep ==
  ASSUME PrefixFree, CasInv, NEW c \in todo, ConstructInner(c),
         UNCHANGED <<nr_keys, pc, bkey, loc, content, keys, nr_loads, leaked>>
  PROVE  CasInv'
<1> DEFINE l == CallLabel(keys, c)
           d == SplitDimension(c)
           pp == PathByteOf(c)
           vp == ValueByteOf(c)
           disc == IF d = "Path" THEN pp ELSE vp
           parts == Partition(c.indexes, d, disc)
           P == EndPath(c)
           V == EndValue(c)
           x == [dim |-> d, prefix |-> PathPrefix(c) \o ValuePrefix(c),
                 sep |-> Len(PathPrefix(c)), children |-> NoChildren,
                 layout |-> Layout(Cardinality(DOMAIN parts)), refs |-> <<>>]
           call(n, b) == Call(parts[b], Position(pp, d, "Path"), Position(vp, d, "Value"),
                              Opposite(d), n, b)
           S == c.indexes
           t(i) == String(i, d)
<1>1. PICK n \in Malloc(DOMAIN heap) :
         /\ Link(Fresh(heap, n, x), c, n)
         /\ todo' = (todo \ {c}) \cup {call(n, b) : b \in DOMAIN parts}
  BY DEF ConstructInner, Fresh
<1>2. ~AtLeaf(c)
  BY DEF ConstructInner
<1>3. /\ keys \in Seq(KeyRef) /\ content = ContentOf(keys) /\ IsPartition(keys, c, l)
      /\ S \subseteq DOMAIN keys /\ c.dimension \in Dimension
      /\ c.dp \in Nat \cup {DoesNotExist} /\ c.dv \in Nat \cup {DoesNotExist}
  BY PendingFacts
<1>4. /\ x.dim = d /\ x.prefix = PathPrefix(c) \o ValuePrefix(c)
      /\ x.sep = Len(PathPrefix(c)) /\ x.children = NoChildren
      /\ x.refs = <<>> /\ x.layout = Layout(Cardinality(DOMAIN parts))
      /\ x = [dim |-> d, prefix |-> x.prefix, sep |-> x.sep, children |-> NoChildren,
              layout |-> x.layout, refs |-> x.refs]
  OBVIOUS
<1> HIDE DEF x, l
<1>5. /\ d \in Dimension /\ d # "Leaf"
      /\ d = "Path" => pp # DoesNotExist
      /\ d # "Path" => d = "Value" /\ vp # DoesNotExist
  BY <1>2, <1>3, SplitFact DEF Dimension
<1>6. /\ First(S) \in S /\ l.key = KeyOf(keys, First(S)) /\ l.key \in Key
      /\ l.p \in Nat /\ l.v \in Nat
      /\ P \in Nat /\ V \in Nat /\ l.p <= P /\ P <= Len(l.key.path)
      /\ l.v <= V /\ V <= Len(l.key.value)
      /\ pp \in Nat \cup {DoesNotExist} /\ vp \in Nat \cup {DoesNotExist}
      /\ \A i \in S : KeyOf(keys, i) \in Key /\ Agree(l.key, KeyOf(keys, i), P, V)
  BY <1>3, CallFacts DEF l
<1>7. /\ pp = DoesNotExist => /\ P = Len(l.key.path)
                              /\ \A i \in S : KeyOf(keys, i).path = l.key.path
      /\ vp = DoesNotExist => /\ V = Len(l.key.value)
                              /\ \A i \in S : KeyOf(keys, i).value = l.key.value
  BY <1>3, CallFacts DEF l
<1>8. /\ pp # DoesNotExist => /\ pp = P
                              /\ \A i \in S : P < Len(KeyOf(keys, i).path)
                              /\ \E i \in S : String(i, "Path")[P + 1] # String(First(S), "Path")[P + 1]
      /\ vp # DoesNotExist => /\ vp = V
                              /\ \A i \in S : V < Len(KeyOf(keys, i).value)
                              /\ \E i \in S : String(i, "Value")[V + 1] # String(First(S), "Value")[V + 1]
  BY <1>3, CallFacts DEF l
<1>9. \A i \in S : /\ KeyOf(keys, i) \in Key
                   /\ String(i, "Path") = KeyOf(keys, i).path
                   /\ String(i, "Value") = KeyOf(keys, i).value
  BY <1>3, StringFacts
<1>10. /\ x.prefix \in Seq(Byte) /\ x.sep \in Nat /\ x.sep <= Len(x.prefix)
       /\ l.p + x.sep = P /\ l.v + (Len(x.prefix) - x.sep) = V
       /\ Spells(x, l.key, l.p, l.v)
  BY <1>3, <1>4, PrefixFacts DEF l
<1> HIDE DEF d, pp, vp, P, V, S
<1>11. /\ disc \in Nat
       /\ \A i \in S : /\ HasByte(KeyOf(keys, i), d, P, V)
                       /\ ByteAt(KeyOf(keys, i), d, P, V) = t(i)[disc + 1]
       /\ \E i \in S : t(i)[disc + 1] # t(First(S))[disc + 1]
  <2>1. CASE d = "Path"
    <3>1. disc = pp /\ pp = P /\ \A i \in S : t(i) = KeyOf(keys, i).path
      BY <1>5, <1>8, <1>9, <2>1
    <3> QED  BY <1>5, <1>6, <1>8, <1>9, <2>1, <3>1 DEF HasByte, ByteAt
  <2>2. CASE d # "Path"
    <3>1. disc = vp /\ vp = V /\ \A i \in S : t(i) = KeyOf(keys, i).value
      BY <1>5, <1>8, <1>9, <2>2
    <3> QED  BY <1>5, <1>6, <1>8, <1>9, <2>2, <3>1 DEF HasByte, ByteAt
  <2> QED  BY <2>1, <2>2
<1> HIDE DEF disc, t
<1>12. /\ DOMAIN parts = {t(i)[disc + 1] : i \in S}
       /\ \A b \in DOMAIN parts : parts[b] = {i \in S : t(i)[disc + 1] = b}
  BY DEF Partition, S, t
<1> HIDE DEF parts
<1>13. \A i \in S : ByteAt(KeyOf(keys, i), d, P, V) \in Byte
  <2>1. TAKE i \in S
  <2>2. KeyOf(keys, i) \in Key /\ HasByte(KeyOf(keys, i), d, P, V)
    BY <1>6, <1>11
  <2> DEFINE k == KeyOf(keys, i)
  <2>3. /\ k.path \in Seq(Byte) /\ k.value \in Seq(Byte)
        /\ Len(k.path) \in Nat /\ Len(k.value) \in Nat
    BY <2>2, KeyFacts
  <2>4. CASE d = "Path"
    <3>1. P + 1 \in 1..Len(k.path)
      BY <1>6, <2>2, <2>3, <2>4 DEF HasByte
    <3> HIDE DEF k
    <3>2. k.path[P + 1] \in Byte
      BY <2>3, <3>1
    <3> QED  BY <2>4, <3>2 DEF ByteAt, k
  <2>5. CASE d # "Path"
    <3>1. V + 1 \in 1..Len(k.value)
      BY <1>6, <2>2, <2>3, <2>5 DEF HasByte
    <3> HIDE DEF k
    <3>2. k.value[V + 1] \in Byte
      BY <2>3, <3>1
    <3> QED  BY <2>5, <3>2 DEF ByteAt, k
  <2> QED  BY <2>4, <2>5
<1>14. DOMAIN parts \in SUBSET Byte
  BY <1>11, <1>12, <1>13
<1>15. Roomy(x, Cardinality(DOMAIN parts)) /\ x.layout \in 1..Len(Widths)
  <2> DEFINE B == DOMAIN parts
             k == Cardinality(B)
  <2>1. IsFiniteSet(Byte) /\ Cardinality(Byte) = MaxByte + 1
    <3>1. Cardinality(0..MaxByte) = IF 0 > MaxByte THEN 0 ELSE MaxByte - 0 + 1
      BY ByteAssumption, FS_Interval
    <3> QED  BY <3>1, ByteAssumption, FS_Interval DEF Byte
  <2>2. IsFiniteSet(B) /\ k <= MaxByte + 1 /\ k \in Nat
    BY <1>14, <2>1, FS_Subset, FS_CardinalityType
  <2>3. \E y, z \in B : y # z
    BY <1>6, <1>11, <1>12
  <2>4. k # 0 /\ k # 1
    BY <2>2, <2>3, FS_EmptySet, FS_Singleton
  <2> HIDE DEF k
  <2>5. /\ Layout(k) \in 1..Len(Widths) /\ k <= Widths[Layout(k)]
        /\ Layout(k) > 1 => k > Widths[Layout(k) - 1]
    BY <2>2, LayoutFacts
  <2>6. x.layout = Layout(k)
    BY <1>4 DEF k
  <2>7. Widths[Layout(k)] \in Nat
    BY <2>5, WidthAssumption
  <2>8. k \in 2..Widths[x.layout]
    BY <2>2, <2>4, <2>5, <2>6, <2>7
  <2>9. x.layout \in 1..Len(Widths) /\ x.layout > 1 => k > Widths[x.layout - 1]
    BY <2>5, <2>6
  <2> QED  BY <2>5, <2>6, <2>8, <2>9 DEF Roomy, k
<1>16. x \in NodeRecord
  BY <1>4, <1>5, <1>10, <1>15, HeapAssumption DEF NodeRecord, InnerNode, NoChildren
<1>17. IsResult(content, l, x)
  <2>1. content[l.key] # <<>>
    BY <1>3, <1>6, StoredRefs DEF S
  <2>2. HasByte(l.key, d, P, V)
    BY <1>6, <1>11
  <2> QED  BY <1>4, <1>5, <1>10, <1>16, <2>1, <2>2 DEF IsResult
<1> DEFINE ncs == {call(n, b) : b \in DOMAIN parts}
           dp2 == Position(pp, d, "Path")
           dv2 == Position(vp, d, "Value")
<1>18. dp2 \in Nat \cup {DoesNotExist} /\ dv2 \in Nat \cup {DoesNotExist}
  BY <1>5, <1>6 DEF Position
<1>19. \A b \in DOMAIN parts : parts[b] \subseteq S /\ parts[b] # {}
  BY <1>12
<1> HIDE DEF dp2, dv2
<1>20. /\ \A b \in DOMAIN parts :
            /\ call(n, b).indexes = parts[b] /\ call(n, b).dp = dp2 /\ call(n, b).dv = dv2
            /\ call(n, b).parent = n /\ call(n, b).byte = b
            /\ call(n, b) \in [indexes : (SUBSET DOMAIN keys) \ {{}}, dp : Nat \cup {DoesNotExist},
                               dv : Nat \cup {DoesNotExist}, dimension : Dimension,
                               parent : {n}, byte : Byte]
  <2>1. Opposite(d) \in Dimension
    BY DEF Opposite, Dimension
  <2>2. \A b \in DOMAIN parts : parts[b] \in (SUBSET DOMAIN keys) \ {{}} /\ b \in Byte
    BY <1>3, <1>14, <1>19 DEF S
  <2> QED  BY <1>18, <2>1, <2>2 DEF Call, dp2, dv2
<1> HIDE DEF call
<1>21. ASSUME NEW b \in DOMAIN parts  PROVE GoesOn(keys, l, n, x, call(n, b))
  <2> DEFINE e == call(n, b)
             m == CallLabel(keys, e)
             a == First(parts[b])
             k == KeyOf(keys, a)
  <2>1. /\ e.indexes = parts[b] /\ e.dp = dp2 /\ e.dv = dv2 /\ e.parent = n /\ e.byte = b
        /\ b \in Byte
    BY <1>14, <1>20
  <2> HIDE DEF e
  <2>2. a \in parts[b]
    <3>1. parts[b] \in SUBSET Nat
      BY <1>3, <1>19 DEF S
    <3> QED  BY <1>19, <3>1, LeastIsLeast DEF First
  <2>3. a \in S /\ t(a)[disc + 1] = b
    BY <1>12, <2>2
  <2>4. /\ m.key = k /\ m.p = End(k.path, dp2) /\ m.v = End(k.value, dv2)
    BY <2>1 DEF CallLabel
  <2> HIDE DEF m, a, k
  <2>5. /\ k \in Key /\ Agree(l.key, k, P, V) /\ HasByte(k, d, P, V) /\ ByteAt(k, d, P, V) = b
    BY <1>6, <1>11, <2>3 DEF k
  <2>6. Len(k.path) \in Nat /\ Len(k.value) \in Nat
    BY <2>5, KeyFacts
  <2>7. pp = DoesNotExist => k.path = l.key.path
    BY <1>7, <2>3 DEF k
  <2>8. vp = DoesNotExist => k.value = l.key.value
    BY <1>7, <2>3 DEF k
  <2>9. m.p = P + PathStep(d)
    <3>1. CASE d = "Path"
      <4>1. dp2 = P + 1 /\ P + 1 # DoesNotExist
        BY <1>5, <1>6, <1>8, <3>1 DEF dp2, Position, DoesNotExist
      <4> QED  BY <2>4, <3>1, <4>1 DEF End, PathStep
    <3>2. CASE d # "Path"
      <4>1. dp2 = pp
        BY <3>2 DEF dp2, Position
      <4>2. End(k.path, pp) = P
        BY <1>7, <1>8, <2>7 DEF End
      <4> QED  BY <1>6, <2>4, <3>2, <4>1, <4>2 DEF PathStep
    <3> QED  BY <3>1, <3>2
  <2>10. m.v = V + ValueStep(d)
    <3>1. CASE d # "Path"
      <4>1. dv2 = V + 1 /\ V + 1 # DoesNotExist
        BY <1>5, <1>6, <1>8, <3>1 DEF dv2, Position, DoesNotExist
      <4> QED  BY <2>4, <3>1, <4>1 DEF End, ValueStep
    <3>2. CASE d = "Path"
      <4>1. dv2 = vp
        BY <3>2 DEF dv2, Position
      <4>2. End(k.value, vp) = V
        BY <1>7, <1>8, <2>8 DEF End
      <4> QED  BY <1>6, <2>4, <3>2, <4>1, <4>2 DEF ValueStep
    <3> QED  BY <3>1, <3>2
  <2>11. \A i \in parts[b] : Agree(k, KeyOf(keys, i), m.p, m.v)
    <3>1. TAKE i \in parts[b]
    <3>2. i \in S /\ t(i)[disc + 1] = b
      BY <1>12
    <3>3. /\ KeyOf(keys, i) \in Key /\ Agree(l.key, KeyOf(keys, i), P, V)
          /\ HasByte(KeyOf(keys, i), d, P, V) /\ ByteAt(KeyOf(keys, i), d, P, V) = b
      BY <1>6, <1>11, <3>2
    <3>4. Agree(k, KeyOf(keys, i), P, V)
      BY <2>5, <3>3, AgreeSym, AgreeTrans
    <3> QED  BY <1>6, <2>5, <2>9, <2>10, <3>3, <3>4, AgreeStep
  <2>12. m.p \in Nat /\ m.v \in Nat /\ m.p <= Len(k.path) /\ m.v <= Len(k.value)
    <3>1. PathStep(d) \in Nat /\ ValueStep(d) \in Nat
      BY DEF PathStep, ValueStep
    <3>2. Agree(k, KeyOf(keys, a), m.p, m.v)
      BY <2>2, <2>11
    <3> QED  BY <1>6, <2>9, <2>10, <3>1, <3>2 DEF Agree
  <2>13. m \in Label
    <3>1. m = [key |-> m.key, p |-> m.p, v |-> m.v]
      BY DEF m, CallLabel
    <3> QED  BY <2>4, <2>5, <2>12, <3>1 DEF Label
  <2>14. \A i \in parts[b], j \in DOMAIN keys :
           KeyOf(keys, i) = KeyOf(keys, j) => j \in parts[b]
    <3>1. TAKE i \in parts[b], j \in DOMAIN keys
    <3>2. HAVE KeyOf(keys, i) = KeyOf(keys, j)
    <3>3. i \in S /\ t(i)[disc + 1] = b
      BY <1>12
    <3>4. j \in S
      BY <1>3, <3>2, <3>3 DEF IsPartition, S
    <3>5. t(j)[disc + 1] = b
      BY <1>11, <3>2, <3>3, <3>4
    <3> QED  BY <1>12, <3>4, <3>5
  <2>15. IsPartition(keys, e, m)
    <3>1. parts[b] \subseteq DOMAIN keys /\ parts[b] # {}
      BY <1>3, <1>19 DEF S
    <3> QED  BY <2>1, <2>4, <2>11, <2>12, <2>13, <2>14, <3>1 DEF IsPartition
  <2>16. GoesOn(keys, l, n, x, e)
    BY <1>4, <1>5, <1>10, <2>1, <2>4, <2>5, <2>9, <2>10, <2>15 DEF GoesOn, m
  <2> QED  BY <2>16 DEF e
<1>22. Divided(keys, l, n, x, c, ncs)
  <2>1. \A e \in ncs : GoesOn(keys, l, n, x, e)
    BY <1>21
  <2>2. \A e, f \in ncs : e # f => e.byte # f.byte
    BY <1>20
  <2>3. \A i \in S : \E e \in ncs : i \in e.indexes
    <3>1. TAKE i \in S
    <3> DEFINE b == t(i)[disc + 1]
    <3>2. b \in DOMAIN parts
      BY <1>12
    <3>3. i \in parts[b]
      BY <1>12, <3>2
    <3> HIDE DEF b
    <3>4. call(n, b) \in ncs /\ i \in call(n, b).indexes
      BY <1>20, <3>2, <3>3
    <3> QED  BY <3>4
  <2> HIDE DEF ncs
  <2> QED  BY <2>1, <2>2, <2>3 DEF Divided, S
<1>23. {e.byte : e \in ncs} = DOMAIN parts
  <2>1. \A b \in DOMAIN parts : call(n, b) \in ncs /\ call(n, b).byte = b
    BY <1>20
  <2>2. \A e \in ncs : e.byte \in DOMAIN parts
    BY <1>20
  <2> HIDE DEF ncs
  <2> QED  BY <2>1, <2>2
<1>24. ncs \subseteq [indexes : (SUBSET DOMAIN keys) \ {{}}, dp : Nat \cup {DoesNotExist},
                      dv : Nat \cup {DoesNotExist}, dimension : Dimension,
                      parent : {n}, byte : Byte]
  BY <1>20
<1>25. todo' = (todo \ {c}) \cup ncs /\ Link(Fresh(heap, n, x), c, n)
  BY <1>1
<1> HIDE DEF ncs
<1> QED  BY <1>4, <1>5, <1>15, <1>17, <1>22, <1>23, <1>24, <1>25, ConstructInv DEF l

-----------------------------------------------------------------------------
(* Loads, and insertions between them                                       *)

\* A load starts from nothing but the deque; its only call is for all the keys.
LEMMA StartLoadStep ==
  ASSUME PrefixFree, CasInv, NEW ks \in Loads, StartLoad(ks)
  PROVE  CasInv'
<1> DEFINE c0 == Call(DOMAIN ks, 0, 0, "Value", nullptr, 0)
<1>1. /\ CasTypeOK /\ TypeOK /\ IsFiniteSet(DOMAIN heap)
      /\ pc = "idle" /\ todo = {} /\ keys' = ks /\ nr_loads' = nr_loads + 1
      /\ todo' = IF ks = <<>> THEN {} ELSE {c0}
      /\ leaked' = leaked + Cardinality(DOMAIN heap)
      /\ heap' = [n \in {} |-> nullptr] /\ root' = nullptr /\ nr_keys' = Len(ks)
      /\ content' = ContentOf(ks) /\ UNCHANGED <<pc, bkey, loc>>
  BY DEF CasInv, CasTypeOK, StartLoad, ContentOf
<1>2. /\ ks \in Seq(KeyRef) /\ Len(ks) \in Nat /\ DOMAIN ks = 1..Len(ks)
      /\ ks # <<>> => DOMAIN ks # {}
  <2>1. ks \in Seq(KeyRef)
    BY LoadAssumption DEF KeyRef
  <2>2. Len(ks) \in Nat /\ DOMAIN ks = 1..Len(ks) /\ (ks # <<>> => Len(ks) # 0)
    BY <2>1
  <2>3. Len(ks) # 0 => 1 \in 1..Len(ks)
    BY <2>2
  <2> QED  BY <2>1, <2>2, <2>3
<1>3. DOMAIN heap' = {} /\ bkey = NoKey /\ loc = NoLoc
  BY <1>1 DEF TypeOK
<1>4. content' \in [Key -> Seq(Ref)]
  <2>1. ASSUME NEW k \in Key
        PROVE  RefsOf(ks, {i \in DOMAIN ks : KeyOf(ks, i) = k}) \in Seq(Ref)
    <3> DEFINE S == {i \in DOMAIN ks : KeyOf(ks, i) = k}
    <3>1. S \in SUBSET DOMAIN ks
      OBVIOUS
    <3> HIDE DEF S
    <3>2. RefsOf(ks, S) \in Seq(Ref)
      BY <1>2, <3>1, RefsOfFacts
    <3> QED  BY <3>2 DEF S
  <2> QED  BY <1>1, <2>1 DEF ContentOf
<1>5. TypeOK'
  BY <1>1, <1>2, <1>3, <1>4 DEF TypeOK
<1>6. ks # <<>> => c0 \in CallRecord'
  <2>1. 0 \in Byte /\ "Value" \in Dimension
    BY ByteAssumption DEF Byte, Dimension
  <2> QED  BY <1>1, <1>2, <2>1 DEF CallRecord, Call
<1>7. CasTypeOK'
  <2>1. nr_loads' \in Nat /\ leaked' \in Nat
    <3>1. nr_loads \in Nat /\ leaked \in Nat
      BY <1>1 DEF CasTypeOK
    <3>2. Cardinality(DOMAIN heap) \in Nat
      BY <1>1, FS_CardinalityType
    <3> QED  BY <1>1, <3>1, <3>2
  <2> QED  BY <1>1, <1>2, <1>5, <1>6, <2>1 DEF CasTypeOK, KeyRef
<1> DEFINE lab == [n \in {} |-> nullptr]
<1>8. lab \in [DOMAIN heap' -> Label] /\ NodesOK(heap', content', root', lab)
  BY <1>1, <1>3 DEF NodesOK
<1>9. CASE ks = <<>>
  <2>1. \A k \in Key : content'[k] = <<>>
    <3>1. TAKE k \in Key
    <3>2. {i \in DOMAIN ks : KeyOf(ks, i) = k} = {}
      BY <1>9
    <3>3. {} \in SUBSET DOMAIN ks
      OBVIOUS
    <3>4. RefsOf(ks, {}) = <<>>
      BY <1>2, <3>3, RefsOfFacts
    <3> QED  BY <1>1, <3>2, <3>4 DEF ContentOf
  <2>2. Labelled(heap', content', root', lab)
    BY <1>3, <1>8, <2>1 DEF NodesOK, Labelled
  <2>3. Represents'
    BY <1>1, <1>8, <2>2 DEF Represents, Represented
  <2>4. todo' = {}
    BY <1>1, <1>9
  <2> QED  BY <1>3, <1>7, <2>3, <2>4, FS_EmptySet DEF CasInv, RoomFor
<1>10. CASE ks # <<>>
  <2> DEFINE S == DOMAIN ks
             l == CallLabel(ks, c0)
             k0 == KeyOf(ks, First(S))
  <2>1. todo' = {c0} /\ c0.indexes = S /\ c0.dp = 0 /\ c0.dv = 0 /\ c0.parent = nullptr
    BY <1>1, <1>10 DEF Call
  <2>2. First(S) \in S
    <3>1. S \in SUBSET Nat /\ S # {}
      BY <1>2, <1>10
    <3> QED  BY <3>1, LeastIsLeast DEF First
  <2>3. ASSUME NEW i \in S
        PROVE  /\ KeyOf(ks, i) \in Key
               /\ Len(KeyOf(ks, i).path) \in Nat /\ Len(KeyOf(ks, i).value) \in Nat
    <3>1. ks[i] \in KeyRef
      BY <1>2
    <3>2. KeyOf(ks, i) \in Key
      BY <3>1 DEF KeyRef, KeyOf, Key
    <3> QED  BY <3>2, KeyFacts
  <2> HIDE DEF c0
  <2>4. /\ l = [key |-> k0, p |-> End(k0.path, 0), v |-> End(k0.value, 0)]
        /\ End(k0.path, 0) = 0 /\ End(k0.value, 0) = 0
    BY <2>1 DEF CallLabel, End, DoesNotExist
  <2>5. /\ l.key = k0 /\ l.p = 0 /\ l.v = 0 /\ l \in Label /\ k0 \in Key
        /\ Len(k0.path) \in Nat /\ Len(k0.value) \in Nat
    BY <2>2, <2>3, <2>4 DEF Label
  <2> HIDE DEF l, k0
  <2>6. IsPartition(ks, c0, l)
    <3>1. \A i \in S : Agree(k0, KeyOf(ks, i), 0, 0)
      BY <2>3, <2>5 DEF Agree
    <3> QED  BY <2>1, <2>2, <2>5, <3>1 DEF IsPartition
  <2>7. Waits(heap', root', lab, c0, l)
    BY <1>1, <2>1, <2>5 DEF Waits
  <2>8. CallsOK(heap', root', lab, ks, todo')
    BY <1>3, <2>1, <2>6, <2>7 DEF CallsOK, l
  <2>9. AllKept(heap', content', lab, ks, todo')
    <3>1. ASSUME NEW k \in Key, content'[k] # <<>>
          PROVE  \E i \in c0.indexes : KeyOf(ks, i) = k
      <4> DEFINE T == {i \in S : KeyOf(ks, i) = k}
      <4>1. content'[k] = RefsOf(ks, T)
        BY <1>1 DEF ContentOf
      <4>2. T \in SUBSET S
        OBVIOUS
      <4> HIDE DEF T
      <4>3. T # {}
        BY <1>2, <3>1, <4>1, <4>2, RefsOfFacts
      <4> QED  BY <2>1, <4>3 DEF T
    <3> QED  BY <2>1, <3>1 DEF AllKept
  <2>10. LoadRepresents'
    BY <1>1, <1>8, <2>8, <2>9 DEF LoadRepresents, Loading
  <2>11. todo' # {}
    BY <2>1
  <2> QED  BY <1>3, <1>7, <2>10, <2>11, FS_EmptySet DEF CasInv, RoomFor
<1> QED  BY <1>9, <1>10

\* Without pending calls RoomFor is FanOut.
LEMMA RoomIsFanOut ==
  ASSUME todo = {}
  PROVE  RoomFor <=> FanOut
<1>1. \A n : Slots(n) = {b \in Byte : heap[n].children[b] # nullptr}
  BY DEF Slots
<1> QED  BY <1>1 DEF RoomFor, FanOut, NrChildren

\* Insertions into a trie that is complete, loaded or not.
LEMMA InsertionStep ==
  ASSUME PrefixFree, CasInv, todo = {}, [Next]_vars, UNCHANGED lvars
  PROVE  CasInv'
<1>1. IInv /\ FanOut /\ CasTypeOK /\ IsFiniteSet(DOMAIN heap)
  BY RoomIsFanOut DEF CasInv, CasTypeOK, IInv
<1>2. IInv' /\ FanOut' /\ IsFiniteSet(DOMAIN heap')
  BY <1>1, NextInv, FanOutStep
<1>3. todo' = {} /\ UNCHANGED <<keys, nr_loads, leaked>>
  BY DEF lvars
<1>4. CasTypeOK'
  BY <1>1, <1>2, <1>3 DEF CasTypeOK, IInv
<1>5. RoomFor'
  <2>1. \A n : Slots(n)' = {b \in Byte : heap'[n].children[b] # nullptr}
    BY <1>3 DEF Slots
  <2> QED  BY <1>2, <2>1 DEF RoomFor, FanOut, NrChildren
<1> QED  BY <1>2, <1>3, <1>4, <1>5 DEF CasInv, IInv

LEMMA CasInitInv == CasInit => CasInv
<1>1. SUFFICES ASSUME CasInit  PROVE CasInv
  OBVIOUS
<1>2. /\ IInv /\ DOMAIN heap = {} /\ todo = {} /\ keys = <<>>
      /\ nr_loads = 0 /\ leaked = 0
  BY <1>1, InitInv DEF CasInit, Init
<1>3. CasTypeOK
  BY <1>2 DEF CasTypeOK, IInv
<1> QED  BY <1>2, <1>3, FS_EmptySet DEF CasInv, IInv, RoomFor

LEMMA CasNextInv ==
  ASSUME PrefixFree, CasInv, [CasNext]_<<vars, lvars>>
  PROVE  CasInv'
<1>1. CASE todo = {} /\ Next /\ UNCHANGED lvars
  BY <1>1, InsertionStep
<1>2. CASE Construct
  BY <1>2, ConstructLeafStep, ConstructInnerStep, ReadsInside
     DEF Construct, ConstructNode, ReadBehindString
<1>3. ASSUME NEW ks \in Loads, StartLoad(ks)  PROVE CasInv'
  BY <1>3, StartLoadStep
<1>4. CASE UNCHANGED <<vars, lvars>>
  <2>1. CASE todo = {}
    BY <1>4, <2>1, InsertionStep
  <2>2. CASE todo # {}
    <3>1. CasTypeOK' /\ LoadRepresents' /\ RoomFor' /\ IsFiniteSet(DOMAIN heap') /\ todo' # {}
      BY <1>4, <2>2 DEF CasInv, CasTypeOK, LoadRepresents, RoomFor, Slots, CallRecord,
                         TypeOK, Location, vars, lvars
    <3> QED  BY <3>1 DEF CasInv
  <2> QED  BY <2>1, <2>2
<1> QED  BY <1>1, <1>2, <1>3, <1>4 DEF CasNext

\* Two pending calls have no key in common, and neither have a call and a leaf.
LEMMA OnePlace ==
  ASSUME NEW h, NEW ct, NEW rt, NEW lab, NEW ks, NEW cs, Loading(h, ct, rt, lab, ks, cs),
         NEW c \in cs, NEW i \in c.indexes
  PROVE  /\ \A e \in cs : i \in e.indexes => e = c
         /\ \A n \in DOMAIN h : h[n].dim = "Leaf" => lab[n].key # KeyOf(ks, i)
<1> DEFINE k == KeyOf(ks, i)
           l == CallLabel(ks, c)
<1>1. NodesOK(h, ct, rt, lab) /\ CallsOK(h, rt, lab, ks, cs)
  BY DEF Loading
<1>2. \A e \in cs : i \in e.indexes => Agree(CallLabel(ks, e).key, k, CallLabel(ks, e).p, CallLabel(ks, e).v)
  BY <1>1 DEF CallsOK, IsPartition
<1>3. Agree(l.key, k, l.p, l.v) /\ l \in Label
  BY <1>1 DEF CallsOK, IsPartition
<1>4. ASSUME NEW e \in cs, i \in e.indexes  PROVE e = c
  <2> DEFINE m == CallLabel(ks, e)
  <2>1. Agree(m.key, k, m.p, m.v) /\ m \in Label
    BY <1>1, <1>2, <1>4 DEF CallsOK, IsPartition
  <2>2. c # e => Conflict(l, m)
    BY <1>1, <1>4 DEF CallsOK
  <2> HIDE DEF l, m, k
  <2>4. l.p \in Nat /\ l.v \in Nat /\ m.p \in Nat /\ m.v \in Nat
    BY <1>3, <2>1 DEF Label
  <2>5. Agree(l.key, k, l.p, l.v) /\ Agree(m.key, k, m.p, m.v)
    BY <1>3, <2>1
  <2>3. ~Conflict(l, m)
    BY <2>4, <2>5, SMTT(30) DEF Conflict, Differ, Agree
  <2> QED  BY <2>2, <2>3
<1>5. ASSUME NEW n \in DOMAIN h, h[n].dim = "Leaf", lab[n].key = k  PROVE FALSE
  <2> DEFINE m == lab[n]
  <2>1. m \in Label
    BY <1>1, <1>5 DEF NodesOK
  <2>2. Conflict(m, l)
    BY <1>1, <1>5 DEF CallsOK, Above
  <2>3. m.key = k
    BY <1>5
  <2> HIDE DEF l, m, k
  <2> QED  BY <1>3, <2>1, <2>2, <2>3 DEF Conflict, Differ, Agree, Label
<1> QED  BY <1>4, <1>5

-----------------------------------------------------------------------------
(* Theorems                                                                 *)

\* The invariant holds however loads and insertions follow each other.
THEOREM CasInvariant ==
  ASSUME PrefixFree
  PROVE  CasSpec => []CasInv
<1>1. CasInv /\ [CasNext]_<<vars, lvars>> => CasInv'
  BY CasNextInv
<1> QED  BY <1>1, CasInitInv, PTL DEF CasSpec

\* Construct is called with positions and a link that exist, the nodes it makes
\* are well-formed, and no insertion begins before it returns (bulk_load.cpp).
THEOREM CasTypeCorrect ==
  ASSUME PrefixFree
  PROVE  CasSpec => []CasTypeOK
<1>1. CasInv => CasTypeOK
  BY DEF CasInv
<1> QED  BY <1>1, CasInvariant, PTL

\* Construct loses no key of the deque and makes no leaf twice, and reads no
\* string behind its end (bulk_load.cpp: Partition, DiscriminativeByte).
THEOREM KeysCoveredCorrect ==
  ASSUME PrefixFree
  PROVE  CasSpec => []KeysCovered
<1>1. ASSUME CasInv  PROVE KeysCovered
  <2>1. SUFFICES ASSUME todo # {}  PROVE KeysCovered
    BY DEF KeysCovered
  <2>2. CasTypeOK /\ keys \in Seq(KeyRef) /\ content = ContentOf(keys)
    BY <1>1, <2>1 DEF CasInv, CasTypeOK, KeyRef, LoadRepresents
  <2>3. PICK lab \in [DOMAIN heap -> Label] : Loading(heap, content, root, lab, keys, todo)
    BY <1>1, <2>1 DEF CasInv, LoadRepresents
  <2>4. ASSUME NEW c \in todo, NEW i \in c.indexes
        PROVE  LET a == KeyOf(keys, First(c.indexes)) IN
               Agree(a, KeyOf(keys, i), End(a.path, c.dp), End(a.value, c.dv))
    BY <2>3 DEF Loading, CallsOK, IsPartition, CallLabel
  <2>5. ASSUME NEW i \in DOMAIN keys
        PROVE  LET here == {c \in todo : i \in c.indexes}
                   leaves == {n \in DOMAIN heap : heap[n].refs # <<>> /\
                                heap[n].refs = content[KeyOf(keys, i)]}
               IN  (\E c \in here : here = {c}) \/ (here = {} /\ leaves # {})
    <3> DEFINE k == KeyOf(keys, i)
               here == {c \in todo : i \in c.indexes}
    <3>1. k \in Key /\ content[k] # <<>>
      <4>1. keys[i] \in KeyRef
        BY <2>2
      <4>2. k \in Key
        BY <4>1 DEF KeyRef, KeyOf, Key
      <4> DEFINE T == {j \in DOMAIN keys : KeyOf(keys, j) = k}
      <4>3. T \in SUBSET DOMAIN keys /\ i \in T
        OBVIOUS
      <4>4. content[k] = RefsOf(keys, T)
        BY <2>2, <4>2 DEF ContentOf
      <4> HIDE DEF T
      <4> QED  BY <2>2, <4>2, <4>3, <4>4, RefsOfFacts
    <3>2. \A c \in here : here = {c}
      BY <2>3, OnePlace
    <3>3. ASSUME here = {}
          PROVE  \E n \in DOMAIN heap : heap[n].refs = content[k]
      <4>1. ASSUME NEW c \in todo, NEW j \in c.indexes, KeyOf(keys, j) = k  PROVE FALSE
        <5>1. i \in c.indexes
          BY <2>3, <4>1 DEF Loading, CallsOK, IsPartition
        <5> QED  BY <3>3, <5>1
      <4>2. PICK n \in DOMAIN heap : heap[n].dim = "Leaf" /\ lab[n].key = k
        BY <2>3, <3>1, <4>1 DEF Loading, AllKept
      <4>3. EndOK(heap, content, lab, n)
        BY <2>3 DEF Loading, NodesOK, LabelOK
      <4>4. heap[n].refs = content[k]
        BY <4>2, <4>3 DEF EndOK
      <4> QED  BY <4>4
    <3> HIDE DEF here
    <3>4. (\E c \in here : here = {c}) \/ (here = {} /\ \E n \in DOMAIN heap : heap[n].refs = content[k])
      BY <3>2, <3>3
    <3> QED  BY <3>1, <3>4 DEF here
  <2> QED  BY <2>4, <2>5 DEF KeysCovered
<1> QED  BY <1>1, CasInvariant, PTL

\* Every node has the right layout as soon as it is made, and keeps it however
\* insertions go on (bulk_load.cpp: Construct; insertion.cpp).
THEOREM RoomCorrect ==
  ASSUME PrefixFree
  PROVE  CasSpec => []RoomFor
<1>1. CasInv => RoomFor
  BY DEF CasInv
<1> QED  BY <1>1, CasInvariant, PTL

\* What was bulk-loaded is as good as what was inserted: the trie represents
\* the keys, so insertions find what is stored, read nothing out of range and
\* leave one tree behind (cas.cpp: BulkLoad, then Insert).
LoadedTrie ==
  todo = {} => Represents /\ ReadsInRange /\ LookupExact /\ OneTree /\ FanOut

THEOREM LoadedTrieCorrect ==
  ASSUME PrefixFree
  PROVE  CasSpec => []LoadedTrie
<1>1. ASSUME CasInv  PROVE LoadedTrie
  <2>1. SUFFICES ASSUME todo = {}  PROVE LoadedTrie
    BY DEF LoadedTrie
  <2>2. IInv /\ FanOut
    BY <1>1, <2>1, RoomIsFanOut DEF CasInv, CasTypeOK, IInv
  <2> QED  BY <2>2, InvReads, InvLookup, InvTree DEF LoadedTrie, IInv
<1> QED  BY <1>1, CasInvariant, PTL

-----------------------------------------------------------------------------
(* The labels that walks read from a trie that is being built               *)

LEMMA NodesRooted ==
  ASSUME NEW h, NEW ct, NEW rt, NEW lab, NodesOK(h, ct, rt, lab), rt # nullptr
  PROVE  Rooted(h, ct, rt, lab)
BY DEF NodesOK, Rooted

\* A stored key that goes on from a node spells its prefix and has a byte
\* behind it: its leaf lies below the node, or the call that it is in.
LEMMA KeptIsBelow ==
  ASSUME NEW h, HeapOK(h), NEW ct, NEW rt, rt # nullptr, NEW lab, NEW ks, NEW cs,
         Loading(h, ct, rt, lab, ks, cs),
         NEW n \in DOMAIN h, NEW k \in Key, ct[k] # <<>>,
         Agree(k, lab[n].key, lab[n].p, lab[n].v)
  PROVE  /\ Agree(k, lab[n].key, EndP(h, lab, n), EndV(h, lab, n))
         /\ h[n].dim = "Leaf" => k = lab[n].key
         /\ h[n].dim # "Leaf" => HasByte(k, h[n].dim, EndP(h, lab, n), EndV(h, lab, n))
<1> DEFINE d == h[n].dim
           p == EndP(h, lab, n)
           v == EndV(h, lab, n)
<1>1. NodesOK(h, ct, rt, lab) /\ Rooted(h, ct, rt, lab)
  BY NodesRooted DEF Loading
<1>2. /\ lab[n].key \in Key /\ lab[n].p \in Nat /\ lab[n].v \in Nat
      /\ p \in Nat /\ v \in Nat
      /\ Len(k.path) \in Nat /\ Len(k.value) \in Nat
  BY <1>1, RootedFacts, KeyFacts
<1>3. ASSUME NEW m \in DOMAIN h, h[m].dim = "Leaf", lab[m].key = k
      PROVE  /\ Agree(k, lab[n].key, p, v)
             /\ d = "Leaf" => k = lab[n].key
             /\ d # "Leaf" => HasByte(k, d, p, v)
  <2>1. CASE m = n
    <3>1. EndP(h, lab, n) <= Len(k.path) /\ EndV(h, lab, n) <= Len(k.value)
      BY <1>1, <1>3, <2>1, RootedFacts
    <3> QED  BY <1>3, <2>1, <3>1, AgreeRefl
  <2>2. CASE m # n
    <3>1. ~Conflict(lab[n], lab[m])
      BY <1>2, <1>3, AgreeSym, AgreeNoConflict
    <3>2. ~Below(h, lab, m, n)
      BY <1>3 DEF Below
    <3>3. Below(h, lab, n, m)
      BY <1>1, <2>2, <3>1, <3>2 DEF NodesOK, Apart
    <3>4. /\ d # "Leaf" /\ Agree(k, lab[n].key, p, v)
          /\ p + PathStep(d) <= lab[m].p /\ v + ValueStep(d) <= lab[m].v
      BY <1>3, <3>3, AgreeSym DEF Below
    <3>5. lab[m].p \in Nat /\ lab[m].v \in Nat /\ lab[m].p <= Len(k.path) /\ lab[m].v <= Len(k.value)
      BY <1>1, <1>3, RootedFacts DEF LabelOK
    <3> HIDE DEF d, p, v
    <3>6. HasByte(k, d, p, v)
      BY <1>2, <3>4, <3>5 DEF HasByte, PathStep, ValueStep
    <3> QED  BY <3>4, <3>6
  <2> QED  BY <2>1, <2>2
<1>4. ASSUME NEW c \in cs, NEW i \in c.indexes, KeyOf(ks, i) = k
      PROVE  d # "Leaf" /\ Agree(k, lab[n].key, p, v) /\ HasByte(k, d, p, v)
  <2> DEFINE l == CallLabel(ks, c)
  <2>1. /\ l \in Label /\ Agree(l.key, k, l.p, l.v)
        /\ Conflict(lab[n], l) \/ Above(h, lab, n, c, l)
    BY <1>4 DEF Loading, CallsOK, IsPartition
  <2> HIDE DEF l
  <2>2. l.key \in Key /\ l.p \in Nat /\ l.v \in Nat
    BY <2>1 DEF Label
  <2>3. ~Conflict(lab[n], l)
    <3>1. /\ \A x \in 1..lab[n].p : k.path[x] = lab[n].key.path[x]
          /\ \A x \in 1..lab[n].v : k.value[x] = lab[n].key.value[x]
      BY DEF Agree
    <3>2. /\ \A x \in 1..l.p : k.path[x] = l.key.path[x]
          /\ \A x \in 1..l.v : k.value[x] = l.key.value[x]
      BY <2>1 DEF Agree
    <3> QED  BY <1>2, <2>2, <3>1, <3>2 DEF Conflict, Differ
  <2>4. /\ d # "Leaf" /\ Agree(lab[n].key, l.key, p, v)
        /\ p + PathStep(d) <= l.p /\ v + ValueStep(d) <= l.v
    BY <2>1, <2>3 DEF Above
  <2>5. l.p <= Len(k.path) /\ l.v <= Len(k.value)
    BY <2>1 DEF Agree
  <2> HIDE DEF d, p, v
  <2>6. p <= l.p /\ v <= l.v /\ HasByte(k, d, p, v)
    BY <1>2, <2>2, <2>4, <2>5 DEF HasByte, PathStep, ValueStep
  <2>7. Agree(k, l.key, p, v)
    BY <1>2, <2>1, <2>2, <2>6, AgreeMono, AgreeSym
  <2>8. Agree(k, lab[n].key, p, v)
    BY <2>4, <2>7, AgreeSym, AgreeTrans
  <2> QED  BY <2>4, <2>6, <2>8
<1>5. \/ \E m \in DOMAIN h : h[m].dim = "Leaf" /\ lab[m].key = k
      \/ \E c \in cs : \E i \in c.indexes : KeyOf(ks, i) = k
  BY DEF Loading, AllKept
<1> QED  BY <1>3, <1>4, <1>5

LEMMA RelabelLoading ==
  ASSUME NEW h, HeapOK(h), NEW ct, NEW rt, rt # nullptr, NEW lab, NEW ks, NEW cs,
         Loading(h, ct, rt, lab, ks, cs), NEW lab2, IsRelabel(h, ct, lab, lab2)
  PROVE  Loading(h, ct, rt, lab2, ks, cs)
<1>1. NodesOK(h, ct, rt, lab) /\ Rooted(h, ct, rt, lab) /\ CallsOK(h, rt, lab, ks, cs)
  BY NodesRooted DEF Loading
<1>2. /\ lab2 \in [DOMAIN h -> Label]
      /\ \A n \in DOMAIN h : /\ lab2[n].p = lab[n].p /\ lab2[n].v = lab[n].v
                             /\ lab2[n].key \in Key
                             /\ Agree(lab2[n].key, lab[n].key, EndP(h, lab, n), EndV(h, lab, n))
                             /\ h[n].dim = "Leaf" => lab2[n].key = lab[n].key
  BY DEF IsRelabel, Label
<1>3. \A n \in DOMAIN h : /\ LabelOK(h, ct, lab2, n)
                          /\ EndP(h, lab2, n) = EndP(h, lab, n) /\ EndV(h, lab2, n) = EndV(h, lab, n)
  BY <1>1, RelabelNode
<1>4. NodesOK(h, ct, rt, lab2)
  <2>1. \A n \in DOMAIN h, b \in Byte : h[n].children[b] # nullptr =>
          h[n].children[b] \in DOMAIN h /\ ChildOK(h, lab2, n, b, h[n].children[b])
    BY <1>1, RelabelChild
  <2>2. \A n, m \in DOMAIN h : n # m => Apart(h, lab2, n, m)
    BY <1>1, RelabelApart DEF NodesOK
  <2>3. /\ \A n \in DOMAIN h : n # rt => \E m \in DOMAIN h, b \in Byte : h[m].children[b] = n
        /\ rt \in DOMAIN h /\ lab2[rt].p = 0 /\ lab2[rt].v = 0
    BY <1>1, <1>2 DEF NodesOK
  <2> QED  BY <1>2, <1>3, <2>1, <2>2, <2>3 DEF NodesOK
<1>5. ASSUME NEW c \in cs
      PROVE  /\ IsPartition(ks, c, CallLabel(ks, c))
             /\ Waits(h, rt, lab2, c, CallLabel(ks, c))
             /\ \A n \in DOMAIN h : \/ Conflict(lab2[n], CallLabel(ks, c))
                                    \/ Above(h, lab2, n, c, CallLabel(ks, c))
  <2> DEFINE l == CallLabel(ks, c)
  <2>1. IsPartition(ks, c, l) /\ Waits(h, rt, lab, c, l)
    BY <1>1 DEF CallsOK
  <2>2. \A n \in DOMAIN h : Conflict(lab[n], l) \/ Above(h, lab, n, c, l)
    BY <1>1 DEF CallsOK
  <2> HIDE DEF l
  <2>3. l \in Label /\ l.key \in Key /\ l.p \in Nat /\ l.v \in Nat
    BY <2>1 DEF IsPartition, Label
  <2>4. ASSUME NEW n \in DOMAIN h, NEW p, NEW v, p = EndP(h, lab, n), v = EndV(h, lab, n),
               Agree(lab[n].key, l.key, p, v)
        PROVE  Agree(lab2[n].key, l.key, p, v)
    BY <1>2, <2>4, AgreeTrans
  <2>5. Waits(h, rt, lab2, c, l)
    BY <1>3, <2>1, <2>4 DEF Waits
  <2>6. \A n \in DOMAIN h : Above(h, lab, n, c, l) => Above(h, lab2, n, c, l)
    BY <1>3, <2>4 DEF Above
  <2>7. \A n \in DOMAIN h : Conflict(lab[n], l) => Conflict(lab2[n], l)
    BY <1>1, <2>3, RelabelConflict
  <2> QED  BY <2>1, <2>2, <2>5, <2>6, <2>7 DEF l
<1>6. CallsOK(h, rt, lab2, ks, cs)
  BY <1>1, <1>5 DEF CallsOK
<1>7. AllKept(h, ct, lab2, ks, cs)
  BY <1>2 DEF Loading, AllKept
<1> QED  BY <1>4, <1>6, <1>7 DEF Loading

\* While the trie is built, walks read a labelling from what is there.
LEMMA LoadingLabels ==
  ASSUME HeapOK(heap), NEW lab, NEW ks, NEW cs, Loading(heap, content, root, lab, ks, cs)
  PROVE  Loading(heap, content, root, WalkLabels, ks, cs)
<1> DEFINE lab2 == WalkLabels
<1>1. NodesOK(heap, content, root, lab) /\ lab \in [DOMAIN heap -> Label]
  BY DEF Loading, NodesOK
<1>2. CASE root = nullptr
  <2>1. DOMAIN heap = {}
    BY <1>1, <1>2 DEF NodesOK
  <2>2. lab2 = lab
    BY <1>1, <2>1 DEF WalkLabels
  <2> QED  BY <2>2
<1>3. CASE root # nullptr
  <2>1. /\ lab2 \in [DOMAIN heap -> Label]
        /\ \A n \in DOMAIN heap :
              /\ lab2[n].p = lab[n].p /\ lab2[n].v = lab[n].v
              /\ content[lab2[n].key] # <<>>
              /\ Agree(lab2[n].key, lab[n].key, lab[n].p, lab[n].v)
    BY <1>1, <1>3, NodesRooted, WalkLabelFacts
  <2> HIDE DEF lab2
  <2>2. \A n \in DOMAIN heap : lab2[n].key \in Key
    BY <2>1 DEF Label
  <2>3. \A n \in DOMAIN heap :
          /\ Agree(lab2[n].key, lab[n].key, EndP(heap, lab, n), EndV(heap, lab, n))
          /\ heap[n].dim = "Leaf" => lab2[n].key = lab[n].key
          /\ heap[n].dim # "Leaf" =>
               HasByte(lab2[n].key, heap[n].dim, EndP(heap, lab, n), EndV(heap, lab, n))
    BY <1>3, <2>1, <2>2, KeptIsBelow
  <2>4. IsRelabel(heap, content, lab, lab2)
    BY <2>1, <2>3 DEF IsRelabel
  <2>5. Loading(heap, content, root, lab2, ks, cs)
    BY <1>3, <2>4, RelabelLoading
  <2> QED  BY <2>5 DEF lab2
<1> QED  BY <1>2, <1>3

-----------------------------------------------------------------------------
(* The number of keys while the trie is built                               *)

\* The indexes of the keys that are still in pending calls.
Left(cs) == UNION {c.indexes : c \in cs}

\* The keys of the deque are in the trie or in a pending call.
LoadCount ==
  /\ IsFiniteSet(RefSlots(heap)) /\ IsFiniteSet(Left(todo))
  /\ nr_keys = Cardinality(RefSlots(heap)) + Cardinality(Left(todo))

LEMMA NoneLeft ==
  ASSUME todo = {}
  PROVE  Left(todo) = {} /\ (LoadCount <=> CountInv)
<1>1. Left(todo) = {}
  BY DEF Left
<1>2. IsFiniteSet({}) /\ Cardinality({}) = 0
  BY FS_EmptySet
<1>3. IsFiniteSet(RefSlots(heap)) => Cardinality(RefSlots(heap)) \in Nat
  BY FS_CardinalityType
<1> QED  BY <1>1, <1>2, <1>3 DEF LoadCount, CountInv, CountExact

\* As many references as there are keys.
LEMMA RefsOfLength ==
  ASSUME NEW ks \in Seq(KeyRef), NEW S \in SUBSET DOMAIN ks
  PROVE  IsFiniteSet(S) /\ Cardinality(S) \in Nat /\ Len(RefsOf(ks, S)) = Cardinality(S)
<1>1. DOMAIN ks = 1..Len(ks) /\ Len(ks) \in Nat
  OBVIOUS
<1>2. Cardinality(S) \in Nat /\ IsFiniteSet(S)
  BY <1>1, Enumeration
<1> DEFINE f == CHOOSE g \in [1..Cardinality(S) -> S] :
                  \A i, j \in DOMAIN g : i < j => g[i] < g[j]
           ref(i) == ks[f[i]].ref
<1>3. RefsOf(ks, S) = [i \in 1..Cardinality(S) |-> ref(i)]
  BY DEF RefsOf
<1> HIDE DEF ref
<1>4. Len([i \in 1..Cardinality(S) |-> ref(i)]) = Cardinality(S)
  BY <1>2
<1> QED  BY <1>2, <1>3, <1>4

\* The new node adds its references, and no other node changes its own.
LEMMA LinkRefs ==
  ASSUME NEW c, NEW n, n \notin DOMAIN heap, NEW x, Len(x.refs) \in Nat,
         Link(Fresh(heap, n, x), c, n),
         c.parent # nullptr => c.parent \in DOMAIN heap /\ IsRecord(heap[c.parent])
  PROVE  /\ DOMAIN heap' = DOMAIN heap \cup {n} /\ heap'[n].refs = x.refs
         /\ \A m \in DOMAIN heap : heap'[m].refs = heap[m].refs
<1> DEFINE h == Fresh(heap, n, x)
<1>1. DOMAIN h = DOMAIN heap \cup {n} /\ h[n] = x /\ \A m \in DOMAIN heap : h[m] = heap[m]
  BY DEF Fresh
<1> HIDE DEF h
<1>2. CASE c.parent = nullptr
  BY <1>1, <1>2 DEF Link, h
<1>3. CASE c.parent # nullptr
  <2> DEFINE q == c.parent
             y == Put(h[q], c.byte, n)
  <2>1. heap' = [h EXCEPT ![q] = y] /\ q \in DOMAIN heap /\ q # n
    BY <1>3 DEF Link, h
  <2>2. y.refs = heap[q].refs
    BY <1>1, <1>3, <2>1, PutRefs
  <2> HIDE DEF y
  <2> QED  BY <1>1, <2>1, <2>2
<1> QED  BY <1>2, <1>3

LEMMA LinkSlots ==
  ASSUME NEW h, NEW h2, NEW n, n \notin DOMAIN h, DOMAIN h2 = DOMAIN h \cup {n},
         Len(h2[n].refs) \in Nat, \A m \in DOMAIN h : h2[m].refs = h[m].refs,
         IsFiniteSet(RefSlots(h))
  PROVE  /\ IsFiniteSet(RefSlots(h2))
         /\ Cardinality(RefSlots(h2)) = Cardinality(RefSlots(h)) + Len(h2[n].refs)
<1> DEFINE k == Len(h2[n].refs)
           new == {n} \X (1..k)
<1>1. RefSlots(h2) = RefSlots(h) \cup new
  <2>1. ASSUME NEW y, y \in RefSlots(h2)  PROVE y \in RefSlots(h) \/ y \in new
    <3>1. PICK m \in DOMAIN h2, i \in Nat : i \in 1..Len(h2[m].refs) /\ y = <<m, i>>
      BY <2>1, SlotIn
    <3>2. CASE m = n
      BY <3>1, <3>2
    <3>3. CASE m # n
      BY <3>1, <3>3, SlotIn
    <3> QED  BY <3>2, <3>3
  <2>2. ASSUME NEW y, y \in RefSlots(h)  PROVE y \in RefSlots(h2)
    <3>1. PICK m \in DOMAIN h, i \in Nat : i \in 1..Len(h[m].refs) /\ y = <<m, i>>
      BY <2>2, SlotIn
    <3> QED  BY <3>1, SlotIn
  <2>3. ASSUME NEW y, y \in new  PROVE y \in RefSlots(h2)
    <3>1. PICK i \in 1..k : y = <<n, i>>
      BY <2>3
    <3>2. i \in Nat /\ n \in DOMAIN h2
      OBVIOUS
    <3> QED  BY <3>1, <3>2, SlotIn
  <2> HIDE DEF new
  <2> QED  BY <2>1, <2>2, <2>3
<1>2. RefSlots(h) \cap new = {}
  <2>1. ASSUME NEW y, y \in RefSlots(h), y \in new  PROVE FALSE
    <3>1. PICK m \in DOMAIN h, i \in Nat : i \in 1..Len(h[m].refs) /\ y = <<m, i>>
      BY <2>1, SlotIn
    <3>2. y[1] = n /\ y[1] = m
      BY <2>1, <3>1
    <3> QED  BY <3>2
  <2> QED  BY <2>1
<1>3. IsFiniteSet(new) /\ Cardinality(new) = k
  <2>1. IsFiniteSet({n}) /\ Cardinality({n}) = 1
    BY FS_Singleton
  <2>2. IsFiniteSet(1..k) /\ Cardinality(1..k) = k
    <3>1. k \in Nat
      OBVIOUS
    <3> HIDE DEF k
    <3>2. IsFiniteSet(1..k) /\ Cardinality(1..k) = IF 1 > k THEN 0 ELSE k - 1 + 1
      BY <3>1, FS_Interval
    <3> QED  BY <3>1, <3>2
  <2>3. IsFiniteSet(new) /\ Cardinality(new) = Cardinality({n}) * Cardinality(1..k)
    BY <2>1, <2>2, FS_Product
  <2> QED  BY <2>1, <2>2, <2>3
<1> HIDE DEF new, k
<1>4. /\ IsFiniteSet(RefSlots(h) \cup new)
      /\ Cardinality(RefSlots(h) \cup new) =
           Cardinality(RefSlots(h)) + Cardinality(new) - Cardinality(RefSlots(h) \cap new)
  BY <1>3, FS_Union
<1>5. Cardinality(RefSlots(h) \cap new) = 0 /\ Cardinality(RefSlots(h)) \in Nat
  BY <1>2, FS_EmptySet, FS_CardinalityType
<1>6. k \in Nat
  BY DEF k
<1> QED  BY <1>1, <1>3, <1>4, <1>5, <1>6 DEF k

\* What the invariant says of the place of a pending call.
LEMMA CallPlace ==
  ASSUME CasInv, NEW c \in todo, NEW n \in Malloc(DOMAIN heap)
  PROVE  /\ n \notin DOMAIN heap
         /\ c.parent # nullptr => c.parent \in DOMAIN heap /\ IsRecord(heap[c.parent])
         /\ \A e \in todo, i \in c.indexes : i \in e.indexes => e = c
<1>1. CasTypeOK /\ LoadRepresents /\ TypeOK
  BY DEF CasInv, CasTypeOK
<1>2. n \notin DOMAIN heap
  BY <1>1, HeapAssumption DEF TypeOK
<1>3. c.parent \in DOMAIN heap \cup {nullptr}
  BY <1>1 DEF CasTypeOK, CallRecord
<1>4. \A m \in DOMAIN heap : IsRecord(heap[m])
  BY <1>1, NodeFacts DEF TypeOK, IsRecord
<1>5. PICK lab \in [DOMAIN heap -> Label] : Loading(heap, content, root, lab, keys, todo)
  BY <1>1 DEF LoadRepresents
<1>6. \A e \in todo, i \in c.indexes : i \in e.indexes => e = c
  BY <1>5, OnePlace
<1> QED  BY <1>2, <1>3, <1>4, <1>6

LEMMA ConstructLeafCount ==
  ASSUME CasInv, LoadCount, NEW c \in todo, ConstructLeaf(c), UNCHANGED <<nr_keys, keys>>
  PROVE  LoadCount'
<1> DEFINE x == [dim |-> "Leaf", prefix |-> PathPrefix(c) \o ValuePrefix(c),
                 sep |-> Len(PathPrefix(c)), children |-> NoChildren,
                 layout |-> 0, refs |-> RefsOf(keys, c.indexes)]
           S == c.indexes
           old == Left(todo \ {c})
<1>1. PICK n \in Malloc(DOMAIN heap) : Link(Fresh(heap, n, x), c, n)
  BY DEF ConstructLeaf, Fresh
<1>2. todo' = todo \ {c} /\ Left(todo') = old
  BY DEF ConstructLeaf
<1>3. x.refs = RefsOf(keys, S)
  OBVIOUS
<1>4. keys \in Seq(KeyRef) /\ S \subseteq DOMAIN keys
  BY PendingFacts
<1> HIDE DEF x
<1>5. IsFiniteSet(S) /\ Cardinality(S) \in Nat /\ Len(x.refs) = Cardinality(S)
  BY <1>3, <1>4, RefsOfLength
<1>6. /\ n \notin DOMAIN heap
      /\ c.parent # nullptr => c.parent \in DOMAIN heap /\ IsRecord(heap[c.parent])
      /\ \A e \in todo, i \in S : i \in e.indexes => e = c
  BY CallPlace
<1>7. /\ DOMAIN heap' = DOMAIN heap \cup {n} /\ heap'[n].refs = x.refs
      /\ \A m \in DOMAIN heap : heap'[m].refs = heap[m].refs
  BY <1>1, <1>5, <1>6, LinkRefs
<1>8. /\ IsFiniteSet(RefSlots(heap'))
      /\ Cardinality(RefSlots(heap')) = Cardinality(RefSlots(heap)) + Cardinality(S)
  BY <1>5, <1>6, <1>7, LinkSlots DEF LoadCount
<1>9. Left(todo) = old \cup S /\ old \cap S = {}
  BY <1>6 DEF Left
<1> HIDE DEF S, old
<1>10. IsFiniteSet(old) /\ Cardinality(Left(todo)) = Cardinality(old) + Cardinality(S)
  <2>1. IsFiniteSet(old)
    BY <1>9, FS_Subset DEF LoadCount
  <2>2. Cardinality(old \cup S) = Cardinality(old) + Cardinality(S) - Cardinality(old \cap S)
    BY <1>5, <2>1, FS_Union
  <2>3. Cardinality(old \cap S) = 0 /\ Cardinality(old) \in Nat
    BY <1>9, <2>1, FS_EmptySet, FS_CardinalityType
  <2> QED  BY <1>5, <1>9, <2>1, <2>2, <2>3
<1>11. Cardinality(RefSlots(heap)) \in Nat /\ Cardinality(old) \in Nat
  BY <1>10, FS_CardinalityType DEF LoadCount
<1> QED  BY <1>2, <1>5, <1>8, <1>10, <1>11 DEF LoadCount

LEMMA ConstructInnerCount ==
  ASSUME CasInv, LoadCount, NEW c \in todo, ConstructInner(c), UNCHANGED <<nr_keys, keys>>
  PROVE  LoadCount'
<1> DEFINE d == SplitDimension(c)
           disc == IF d = "Path" THEN PathByteOf(c) ELSE ValueByteOf(c)
           parts == Partition(c.indexes, d, disc)
           x == [dim |-> d, prefix |-> PathPrefix(c) \o ValuePrefix(c),
                 sep |-> Len(PathPrefix(c)), children |-> NoChildren,
                 layout |-> Layout(Cardinality(DOMAIN parts)), refs |-> <<>>]
           call(n, b) == Call(parts[b], Position(PathByteOf(c), d, "Path"),
                              Position(ValueByteOf(c), d, "Value"), Opposite(d), n, b)
<1>1. PICK n \in Malloc(DOMAIN heap) :
         /\ Link(Fresh(heap, n, x), c, n)
         /\ todo' = (todo \ {c}) \cup {call(n, b) : b \in DOMAIN parts}
  BY DEF ConstructInner, Fresh
<1>2. x.refs = <<>> /\ \A b : call(n, b).indexes = parts[b]
  BY DEF Call
<1> HIDE DEF x, call
<1>3. Len(x.refs) = 0 /\ Len(x.refs) \in Nat /\ Link(Fresh(heap, n, x), c, n)
  BY <1>1, <1>2
<1>4. /\ n \notin DOMAIN heap
      /\ c.parent # nullptr => c.parent \in DOMAIN heap /\ IsRecord(heap[c.parent])
  BY CallPlace
<1>5. /\ DOMAIN heap' = DOMAIN heap \cup {n} /\ heap'[n].refs = x.refs
      /\ \A m \in DOMAIN heap : heap'[m].refs = heap[m].refs
  BY <1>3, <1>4, LinkRefs
<1>6. /\ IsFiniteSet(RefSlots(heap'))
      /\ Cardinality(RefSlots(heap')) = Cardinality(RefSlots(heap))
  <2>1. /\ IsFiniteSet(RefSlots(heap'))
        /\ Cardinality(RefSlots(heap')) = Cardinality(RefSlots(heap)) + 0
    BY <1>3, <1>4, <1>5, LinkSlots DEF LoadCount
  <2> QED  BY <2>1, FS_CardinalityType DEF LoadCount
<1>7. /\ \A b \in DOMAIN parts : parts[b] \subseteq c.indexes
      /\ \A i \in c.indexes : \E b \in DOMAIN parts : i \in parts[b]
  <2> DEFINE at(i) == String(i, d)[disc + 1]
  <2>1. parts = [b \in {at(i) : i \in c.indexes} |-> {i \in c.indexes : at(i) = b}]
    BY DEF Partition
  <2> HIDE DEF parts, at
  <2> QED  BY <2>1
<1> HIDE DEF parts
<1>8. Left(todo') = Left(todo)
  <2>1. ASSUME NEW e \in todo', NEW i \in e.indexes  PROVE i \in Left(todo)
    BY <1>1, <1>2, <1>7 DEF Left
  <2>2. ASSUME NEW e \in todo, NEW i \in e.indexes  PROVE i \in Left(todo')
    <3>1. CASE e # c
      BY <1>1, <3>1 DEF Left
    <3>2. CASE e = c
      <4>1. PICK b \in DOMAIN parts : i \in parts[b]
        BY <1>7, <3>2
      <4>2. call(n, b) \in todo' /\ i \in call(n, b).indexes
        BY <1>1, <1>2, <4>1
      <4> QED  BY <4>2 DEF Left
    <3> QED  BY <3>1, <3>2
  <2>3. Left(todo') \subseteq Left(todo)
    BY <2>1 DEF Left
  <2>4. Left(todo) \subseteq Left(todo')
    BY <2>2 DEF Left
  <2> QED  BY <2>3, <2>4
<1> QED  BY <1>6, <1>8 DEF LoadCount

LEMMA StartLoadCount ==
  ASSUME NEW ks \in Loads, StartLoad(ks)
  PROVE  LoadCount'
<1> DEFINE c0 == Call(DOMAIN ks, 0, 0, "Value", nullptr, 0)
<1>1. /\ todo' = IF ks = <<>> THEN {} ELSE {c0}
      /\ DOMAIN heap' = {} /\ nr_keys' = Len(ks)
  BY DEF StartLoad
<1>2. Len(ks) \in Nat /\ DOMAIN ks = 1..Len(ks) /\ (ks = <<>> <=> Len(ks) = 0)
  BY LoadAssumption
<1>3. Left(todo') = 1..Len(ks)
  <2>1. CASE ks = <<>>
    BY <1>1, <1>2, <2>1 DEF Left
  <2>2. CASE ks # <<>>
    <3>1. todo' = {c0} /\ c0.indexes = DOMAIN ks
      BY <1>1, <2>2 DEF Call
    <3> HIDE DEF c0
    <3> QED  BY <1>2, <3>1 DEF Left
  <2> QED  BY <2>1, <2>2
<1>4. IsFiniteSet(1..Len(ks)) /\ Cardinality(1..Len(ks)) = Len(ks)
  <2>1. /\ IsFiniteSet(1..Len(ks))
        /\ Cardinality(1..Len(ks)) = IF 1 > Len(ks) THEN 0 ELSE Len(ks) - 1 + 1
    BY <1>2, FS_Interval
  <2> QED  BY <1>2, <2>1
<1>5. RefSlots(heap') = {}
  BY <1>1, SlotIn
<1>6. IsFiniteSet({}) /\ Cardinality({}) = 0
  BY FS_EmptySet
<1> QED  BY <1>1, <1>2, <1>3, <1>4, <1>5, <1>6 DEF LoadCount

LEMMA CasNextCount ==
  ASSUME CasInv, LoadCount, [CasNext]_<<vars, lvars>>
  PROVE  LoadCount'
<1>1. ASSUME todo = {}, [Next]_vars, UNCHANGED lvars  PROVE LoadCount'
  <2>1. IInv /\ CountInv
    BY <1>1, NoneLeft DEF CasInv, CasTypeOK, IInv
  <2>2. CountInv' /\ todo' = {}
    BY <1>1, <2>1, CountStep DEF lvars
  <2>3. Left(todo') = {}
    BY <2>2 DEF Left
  <2>4. IsFiniteSet({}) /\ Cardinality({}) = 0 /\ Cardinality(RefSlots(heap')) \in Nat
    BY <2>2, FS_EmptySet, FS_CardinalityType DEF CountInv
  <2> QED  BY <2>2, <2>3, <2>4 DEF LoadCount, CountInv, CountExact
<1>2. CASE Construct
  <2>1. CASE ConstructNode
    BY <2>1, ConstructLeafCount, ConstructInnerCount DEF ConstructNode
  <2>2. CASE ReadBehindString
    BY <2>2 DEF ReadBehindString, LoadCount, Left, lvars
  <2> QED  BY <1>2, <2>1, <2>2 DEF Construct
<1>3. ASSUME NEW ks \in Loads, StartLoad(ks)  PROVE LoadCount'
  BY <1>3, StartLoadCount
<1>4. CASE UNCHANGED <<vars, lvars>>
  BY <1>4 DEF LoadCount, vars, lvars
<1> QED  BY <1>1, <1>2, <1>3, <1>4 DEF CasNext

\* Whatever was there before and however insertions go on, a load leaves a trie
\* whose labels walks can read and whose references nr_keys_ counts, and so do
\* the nodes made so far with the calls still to be made (cas.cpp: BulkLoad).
THEOREM LoadedCorrect ==
  ASSUME PrefixFree
  PROVE  CasSpec => []LoadedRepresents
<1>1. CasInit => CasInv /\ LoadCount
  <2>1. SUFFICES ASSUME CasInit  PROVE CasInv /\ LoadCount
    OBVIOUS
  <2>2. CountInv /\ todo = {}
    BY <2>1, InitCount DEF CasInit
  <2> QED  BY <2>1, <2>2, NoneLeft, CasInitInv
<1>2. CasInv /\ LoadCount /\ [CasNext]_<<vars, lvars>> => (CasInv /\ LoadCount)'
  BY CasNextInv, CasNextCount
<1>3. ASSUME CasInv, LoadCount  PROVE LoadedRepresents
  <2>1. CASE todo = {}
    <3>1. IInv /\ CountInv
      BY <1>3, <2>1, NoneLeft DEF CasInv, CasTypeOK, IInv
    <3> QED  BY <2>1, <3>1, InvLabels DEF LoadedRepresents, CountInv
  <2>2. CASE todo # {}
    <3>1. HeapOK(heap)
      BY <1>3 DEF CasInv, CasTypeOK, TypeOK, HeapOK
    <3>2. PICK lab \in [DOMAIN heap -> Label] : Loading(heap, content, root, lab, keys, todo)
      BY <1>3, <2>2 DEF CasInv, LoadRepresents
    <3> QED  BY <2>2, <3>1, <3>2, LoadingLabels DEF LoadedRepresents
  <2> QED  BY <2>1, <2>2
<1>4. CasInv /\ LoadCount => LoadedRepresents
  BY <1>3
<1> QED  BY <1>1, <1>2, <1>4, PTL DEF CasSpec

-----------------------------------------------------------------------------
(* Interleaved keys: how many bytes of a dimension are among the first i.   *)

TaggedByte == [byte : Byte, dimension : Dimension]

Taken(u, i, d) == Cardinality({j \in 1..i : u[j].dimension = d})

LEMMA TakenStep ==
  ASSUME NEW u, NEW d, NEW i \in Nat
  PROVE  /\ Taken(u, i, d) \in Nat /\ Taken(u, 0, d) = 0
         /\ Taken(u, i + 1, d) = Taken(u, i, d) + IF u[i + 1].dimension = d THEN 1 ELSE 0
<1> DEFINE A == {j \in 1..i : u[j].dimension = d}
           C == {j \in 1..(i + 1) : u[j].dimension = d}
<1>1. IsFiniteSet(A) /\ Cardinality(A) \in Nat
  <2>1. IsFiniteSet(1..i)
    BY FS_Interval
  <2>2. IsFiniteSet(A)
    BY <2>1, FS_Subset
  <2> QED  BY <2>2, FS_CardinalityType
<1>2. Taken(u, 0, d) = 0
  <2>1. {j \in 1..0 : u[j].dimension = d} = {}
    OBVIOUS
  <2> QED  BY <2>1, FS_EmptySet DEF Taken
<1>3. i + 1 \notin A /\ i + 1 \in 1..(i + 1) /\ \A j : j \in 1..(i + 1) <=> j \in 1..i \/ j = i + 1
  OBVIOUS
<1>4. C = IF u[i + 1].dimension = d THEN A \cup {i + 1} ELSE A
  BY <1>3
<1>5. Cardinality(A \cup {i + 1}) = Cardinality(A) + 1
  <2> HIDE DEF A
  <2> QED  BY <1>1, <1>3, FS_AddElement
<1> HIDE DEF A, C
<1>6. Cardinality(C) = Cardinality(A) + IF u[i + 1].dimension = d THEN 1 ELSE 0
  BY <1>1, <1>4, <1>5
<1> QED  BY <1>1, <1>2, <1>6 DEF Taken, A, C

LEMMA TakenMonotone ==
  ASSUME NEW u, NEW d, NEW i \in Nat, NEW j \in Nat, i <= j
  PROVE  Taken(u, i, d) <= Taken(u, j, d)
<1> DEFINE A == {x \in 1..i : u[x].dimension = d}
           C == {x \in 1..j : u[x].dimension = d}
<1>1. IsFiniteSet(C) /\ A \subseteq C
  <2>1. IsFiniteSet(1..j)
    BY FS_Interval
  <2>2. IsFiniteSet(C)
    BY <2>1, FS_Subset
  <2> QED  BY <2>2
<1> HIDE DEF A, C
<1>2. Cardinality(A) <= Cardinality(C)
  BY <1>1, FS_Subset
<1> QED  BY <1>2 DEF Taken, A, C

LEMMA TakenSame ==
  ASSUME NEW u, NEW w, NEW i \in Nat, \A j \in 1..i : u[j].dimension = w[j].dimension, NEW d
  PROVE  Taken(u, i, d) = Taken(w, i, d)
<1>1. {j \in 1..i : u[j].dimension = d} = {j \in 1..i : w[j].dimension = d}
  OBVIOUS
<1> QED  BY <1>1 DEF Taken

LEMMA TakenSum ==
  ASSUME NEW u \in Seq(TaggedByte), NEW i \in 0..Len(u)
  PROVE  Taken(u, i, "Path") + Taken(u, i, "Value") = i
<1> DEFINE S == {n \in Nat : n <= Len(u) => Taken(u, n, "Path") + Taken(u, n, "Value") = n}
<1>1. 0 \in S
  BY TakenStep
<1>2. ASSUME NEW n \in Nat, n \in S  PROVE n + 1 \in S
  <2> SUFFICES ASSUME n + 1 <= Len(u)
               PROVE  Taken(u, n + 1, "Path") + Taken(u, n + 1, "Value") = n + 1
    OBVIOUS
  <2>1. u[n + 1].dimension \in {"Path", "Value"}
    <3>1. n + 1 \in 1..Len(u)
      OBVIOUS
    <3>2. u[n + 1] \in TaggedByte
      BY <3>1
    <3> QED  BY <3>2 DEF TaggedByte, Dimension
  <2>2. Taken(u, n, "Path") + Taken(u, n, "Value") = n
    BY <1>2
  <2>3. /\ Taken(u, n, "Path") \in Nat /\ Taken(u, n, "Value") \in Nat
        /\ Taken(u, n + 1, "Path") = Taken(u, n, "Path") + IF u[n + 1].dimension = "Path" THEN 1 ELSE 0
        /\ Taken(u, n + 1, "Value") = Taken(u, n, "Value") + IF u[n + 1].dimension = "Value" THEN 1 ELSE 0
    BY TakenStep
  <2> QED  BY <2>1, <2>2, <2>3
<1> HIDE DEF S
<1>3. Nat \subseteq S
  BY <1>1, <1>2, Induction
<1>4. i \in Nat /\ i <= Len(u)
  OBVIOUS
<1> QED  BY <1>3, <1>4 DEF S

\* The bytes of a key in a dimension.
BytesOf(k, d) == IF d = "Path" THEN k.path ELSE k.value

\* u consists of the first p path bytes and the first v value bytes of k.
MergeOf(u, k, p, v) ==
  /\ u \in Seq(TaggedByte)
  /\ p <= Len(k.path) /\ v <= Len(k.value)
  /\ Taken(u, Len(u), "Path") = p /\ Taken(u, Len(u), "Value") = v
  /\ \A i \in 1..Len(u) : u[i].byte = BytesOf(k, u[i].dimension)[Taken(u, i, u[i].dimension)]

\* u is an order of the bytes of k.
Merges(u, k) == MergeOf(u, k, Len(k.path), Len(k.value))

\* The first p path bytes and v value bytes come first in u.
Passes(u, p, v) == p + v <= Len(u) /\ Taken(u, p + v, "Path") = p

LEMMA MergeFacts ==
  ASSUME NEW k \in Key, NEW p, NEW v, NEW u, MergeOf(u, k, p, v)
  PROVE  /\ p \in Nat /\ v \in Nat /\ Len(u) = p + v /\ u \in Seq(TaggedByte)
         /\ Len(k.path) \in Nat /\ Len(k.value) \in Nat /\ Len(u) \in Nat
         /\ \A i \in 1..Len(u) : u[i] \in TaggedByte /\ u[i].dimension \in Dimension
<1>1. Len(k.path) \in Nat /\ Len(k.value) \in Nat
  BY KeyFacts
<1>2. u \in Seq(TaggedByte) /\ Len(u) \in Nat
  BY DEF MergeOf
<1>3. Taken(u, Len(u), "Path") = p /\ Taken(u, Len(u), "Value") = v
  BY DEF MergeOf
<1>4. p \in Nat /\ v \in Nat
  BY <1>2, <1>3, TakenStep
<1>5. Len(u) \in 0..Len(u)
  BY <1>2
<1>6. p + v = Len(u)
  BY <1>2, <1>3, <1>5, TakenSum
<1>7. \A i \in 1..Len(u) : u[i] \in TaggedByte
  BY <1>2
<1>8. \A x \in TaggedByte : x.dimension \in Dimension
  BY DEF TaggedByte
<1> QED  BY <1>1, <1>2, <1>4, <1>6, <1>7, <1>8

LEMMA MergesFacts ==
  ASSUME NEW k \in Key, NEW u, Merges(u, k)
  PROVE  /\ u \in Seq(TaggedByte) /\ Len(u) \in Nat
         /\ Len(k.path) \in Nat /\ Len(k.value) \in Nat
         /\ Len(u) = Len(k.path) + Len(k.value)
         /\ \A i \in 1..Len(u) : u[i] \in TaggedByte /\ u[i].dimension \in Dimension
         /\ Passes(u, Len(k.path), Len(k.value))
<1> DEFINE K == Len(k.path)
           W == Len(k.value)
<1>1. MergeOf(u, k, K, W) /\ Taken(u, Len(u), "Path") = K
  BY DEF Merges, MergeOf
<1> HIDE DEF K, W
<1>2. /\ u \in Seq(TaggedByte) /\ Len(u) \in Nat /\ K \in Nat /\ W \in Nat
      /\ Len(u) = K + W
      /\ \A i \in 1..Len(u) : u[i] \in TaggedByte /\ u[i].dimension \in Dimension
  BY <1>1, MergeFacts
<1>3. Passes(u, K, W)
  BY <1>1, <1>2 DEF Passes
<1> QED  BY <1>2, <1>3, KeyFacts DEF K, W

LEMMA PassesFacts ==
  ASSUME NEW u \in Seq(TaggedByte), NEW p \in Nat, NEW v \in Nat, Passes(u, p, v)
  PROVE  /\ Taken(u, p + v, "Path") = p /\ Taken(u, p + v, "Value") = v
         /\ p + v + 1 <= Len(u) =>
              LET d == u[p + v + 1].dimension IN
              /\ d \in Dimension
              /\ Passes(u, p + PathStep(d), v + ValueStep(d))
              /\ p + PathStep(d) + (v + ValueStep(d)) = p + v + 1
<1>1. p + v \in 0..Len(u) /\ p + v \in Nat /\ Taken(u, p + v, "Path") = p
  BY DEF Passes
<1>2. Taken(u, p + v, "Value") = v
  BY <1>1, TakenSum, TakenStep
<1>3. ASSUME p + v + 1 <= Len(u)
      PROVE  LET d == u[p + v + 1].dimension IN
             /\ d \in Dimension
             /\ Passes(u, p + PathStep(d), v + ValueStep(d))
             /\ p + PathStep(d) + (v + ValueStep(d)) = p + v + 1
  <2> DEFINE d == u[p + v + 1].dimension
  <2>1. d \in Dimension
    <3>1. p + v + 1 \in 1..Len(u)
      BY <1>1, <1>3
    <3>2. u[p + v + 1] \in TaggedByte
      BY <3>1
    <3> QED  BY <3>2 DEF TaggedByte
  <2>2. Taken(u, p + v + 1, "Path") = p + IF d = "Path" THEN 1 ELSE 0
    BY <1>1, TakenStep
  <2> HIDE DEF d
  <2>3. /\ p + PathStep(d) + (v + ValueStep(d)) = p + v + 1
        /\ p + PathStep(d) = p + IF d = "Path" THEN 1 ELSE 0
    BY DEF PathStep, ValueStep
  <2>4. Passes(u, p + PathStep(d), v + ValueStep(d))
    BY <1>3, <2>2, <2>3 DEF Passes
  <2> QED  BY <2>1, <2>3, <2>4 DEF d
<1> QED  BY <1>1, <1>2, <1>3

\* The byte behind the first p + v is the next of its dimension.
LEMMA MergeNext ==
  ASSUME NEW k \in Key, NEW u, Merges(u, k), NEW p \in Nat, NEW v \in Nat, Passes(u, p, v),
         p + v < Len(u)
  PROVE  LET d == u[p + v + 1].dimension
         IN  /\ d \in Dimension /\ HasByte(k, d, p, v) /\ u[p + v + 1].byte = ByteAt(k, d, p, v)
             /\ p <= Len(k.path) /\ v <= Len(k.value)
<1> DEFINE d == u[p + v + 1].dimension
           n == p + v
           L == Len(u)
           K == Len(k.path)
           W == Len(k.value)
<1>1. /\ u \in Seq(TaggedByte) /\ L = K + W /\ L \in Nat /\ K \in Nat /\ W \in Nat
      /\ \A i \in 1..L : u[i].dimension \in Dimension
  BY MergesFacts
<1>2. /\ Taken(u, L, "Path") = K /\ Taken(u, L, "Value") = W
      /\ \A i \in 1..L : u[i].byte = BytesOf(k, u[i].dimension)[Taken(u, i, u[i].dimension)]
  BY DEF Merges, MergeOf
<1>3. Taken(u, n, "Path") = p /\ Taken(u, n, "Value") = v
  BY <1>1, PassesFacts
<1> HIDE DEF L, K, W
<1>4. n \in Nat /\ n + 1 \in 1..L /\ n + 1 <= L /\ n <= L /\ n + 1 \in Nat
  <2>1. p + v < L
    BY DEF L
  <2> QED  BY <1>1, <2>1
<1>5. d \in Dimension /\ u[n + 1].byte = BytesOf(k, d)[Taken(u, n + 1, d)]
  BY <1>1, <1>2, <1>4
<1>6. Taken(u, n + 1, d) = Taken(u, n, d) + 1
  <2>1. d = u[n + 1].dimension
    OBVIOUS
  <2> HIDE DEF n, d
  <2> QED  BY <1>4, <2>1, TakenStep
<1> HIDE DEF n
<1>7. Taken(u, n + 1, d) <= Taken(u, L, d)
  BY <1>1, <1>4, TakenMonotone
<1>8. p <= K /\ v <= W
  BY <1>1, <1>2, <1>3, <1>4, TakenMonotone
<1> HIDE DEF d
<1>9. CASE d = "Path"
  <2>1. Taken(u, n + 1, d) = p + 1 /\ p + 1 <= K
    BY <1>2, <1>3, <1>6, <1>7, <1>9
  <2>2. HasByte(k, d, p, v) /\ u[n + 1].byte = k.path[p + 1]
    BY <1>1, <1>5, <1>9, <2>1 DEF HasByte, BytesOf, K
  <2> QED  BY <1>5, <1>8, <1>9, <2>2 DEF ByteAt, d, n, K, W
<1>10. CASE d = "Value"
  <2>1. Taken(u, n + 1, d) = v + 1 /\ v + 1 <= W
    BY <1>2, <1>3, <1>6, <1>7, <1>10
  <2>2. HasByte(k, d, p, v) /\ u[n + 1].byte = k.value[v + 1]
    BY <1>1, <1>5, <1>10, <2>1 DEF HasByte, BytesOf, W
  <2> QED  BY <1>5, <1>8, <1>10, <2>2 DEF ByteAt, d, n, K, W
<1> QED  BY <1>5, <1>9, <1>10 DEF Dimension

-----------------------------------------------------------------------------
\* Two orders that go on in the same dimension as long as they are equal.
Alike(u, w) ==
  \A i \in 1..Len(u) : i <= Len(w) /\ SubSeq(u, 1, i - 1) = SubSeq(w, 1, i - 1)
                       => u[i].dimension = w[i].dimension

LEMMA AlikeGoesOn ==
  ASSUME NEW u \in Seq(TaggedByte), NEW w \in Seq(TaggedByte), Alike(u, w),
         NEW n \in Nat, n < Len(u), n < Len(w), \A i \in 1..n : u[i] = w[i]
  PROVE  u[n + 1].dimension = w[n + 1].dimension
<1>1. Len(u) \in Nat /\ Len(w) \in Nat
  OBVIOUS
<1>2. SubSeq(u, 1, n) = [i \in 1..n |-> u[i]] /\ SubSeq(w, 1, n) = [i \in 1..n |-> w[i]]
  <2>1. ASSUME NEW x \in Seq(TaggedByte), n < Len(x)
        PROVE  SubSeq(x, 1, n) = [i \in 1..n |-> x[i]]
    <3>1. Len(x) \in Nat
      OBVIOUS
    <3>2. 1 - 1 \in 0..Len(x) /\ n \in 0..Len(x)
      BY <2>1, <3>1
    <3>3. SubSeq(x, 1, n) = [i \in 1..(n - 1 + 1) |-> x[i + 1 - 1]]
      BY <2>1, <3>1
    <3>4. n - 1 + 1 = n /\ \A i \in 1..n : i + 1 - 1 = i
      OBVIOUS
    <3> QED  BY <3>3, <3>4
  <2> QED  BY <2>1
<1>3. SubSeq(u, 1, n) = SubSeq(w, 1, n)
  BY <1>2
<1>4. n + 1 \in 1..Len(u) /\ n + 1 <= Len(w) /\ (n + 1) - 1 = n
  BY <1>1
<1>5. SubSeq(u, 1, (n + 1) - 1) = SubSeq(w, 1, (n + 1) - 1)
  BY <1>3, <1>4
<1> QED  BY <1>4, <1>5 DEF Alike

\* What two keys have in common comes in the same order.
LEMMA SameOrder ==
  ASSUME NEW k \in Key, NEW l \in Key, NEW u, NEW w, Merges(u, k), Merges(w, l), Alike(u, w),
         NEW p \in Nat, NEW v \in Nat, Passes(u, p, v), Agree(k, l, p, v)
  PROVE  /\ Passes(w, p, v)
         /\ \A i \in 1..(p + v) : u[i] = w[i]
         /\ p + v < Len(u) /\ p + v < Len(w) =>
              u[p + v + 1].dimension = w[p + v + 1].dimension
<1> DEFINE S == {n \in Nat : n <= p + v => \A i \in 1..n : u[i] = w[i]}
<1>1. /\ u \in Seq(TaggedByte) /\ Len(u) \in Nat /\ w \in Seq(TaggedByte) /\ Len(w) \in Nat
      /\ Len(w) = Len(l.path) + Len(l.value)
  BY MergesFacts
<1>2. p + v <= Len(u) /\ p + v <= Len(w)
  <2>1. p <= Len(l.path) /\ v <= Len(l.value)
    BY DEF Agree
  <2>2. Len(l.path) \in Nat /\ Len(l.value) \in Nat
    BY KeyFacts
  <2>3. p + v <= Len(w)
    <3> DEFINE K == Len(l.path)
               W == Len(l.value)
               L == Len(w)
    <3>1. L = K + W /\ L \in Nat /\ K \in Nat /\ W \in Nat /\ p <= K /\ v <= W
      BY <1>1, <2>1, <2>2
    <3> HIDE DEF K, W, L
    <3>2. p + v <= L
      BY <3>1
    <3> QED  BY <3>2 DEF L
  <2> QED  BY <2>3 DEF Passes
<1>3. 0 \in S
  OBVIOUS
<1>4. ASSUME NEW n \in Nat, n \in S  PROVE n + 1 \in S
  <2> SUFFICES ASSUME n + 1 <= p + v  PROVE u[n + 1] = w[n + 1]
    <3>1. n + 1 <= p + v => \A i \in 1..n : u[i] = w[i]
      BY <1>4
    <3>2. \A i \in 1..(n + 1) : i \in 1..n \/ i = n + 1
      OBVIOUS
    <3> QED  BY <3>1, <3>2
  <2>1. \A i \in 1..n : u[i] = w[i]
    BY <1>4
  <2>2. n < Len(u) /\ n < Len(w) /\ n + 1 \in 1..Len(u) /\ n + 1 \in 1..Len(w)
    <3> DEFINE U == Len(u)
               W == Len(w)
    <3>1. U \in Nat /\ W \in Nat /\ p + v <= U /\ p + v <= W
      BY <1>1, <1>2
    <3> HIDE DEF U, W
    <3>2. n < U /\ n < W /\ n + 1 \in 1..U /\ n + 1 \in 1..W
      BY <3>1
    <3> QED  BY <3>2 DEF U, W
  <2> DEFINE d == u[n + 1].dimension
             a == Taken(u, n + 1, d)
  <2>3. d = w[n + 1].dimension
    BY <1>1, <2>1, <2>2, AlikeGoesOn
  <2>4. \A i \in 1..(n + 1) : u[i].dimension = w[i].dimension
    <3>1. \A i \in 1..(n + 1) : i \in 1..n \/ i = n + 1
      OBVIOUS
    <3> QED  BY <2>1, <2>3, <3>1
  <2>5. a = Taken(w, n + 1, d)
    BY <2>4, TakenSame
  <2>6. d \in Dimension
    BY <2>2, MergesFacts
  <2>7. u[n + 1].byte = BytesOf(k, d)[a] /\ w[n + 1].byte = BytesOf(l, d)[a]
    BY <2>2, <2>3, <2>5 DEF Merges, MergeOf
  <2>8. a \in Nat /\ a > 0
    <3>1. d = u[n + 1].dimension
      OBVIOUS
    <3> HIDE DEF d
    <3>2. Taken(u, n, d) \in Nat /\ Taken(u, n + 1, d) = Taken(u, n, d) + 1
      BY <3>1, TakenStep
    <3> QED  BY <3>2
  <2>9. a <= Taken(u, p + v, d)
    BY TakenMonotone
  <2>10. Taken(u, p + v, "Path") = p /\ Taken(u, p + v, "Value") = v
    BY <1>1, PassesFacts
  <2> HIDE DEF d, a
  <2>11. BytesOf(k, d)[a] = BytesOf(l, d)[a]
    <3>1. CASE d = "Path"
      <4>1. a \in 1..p
        BY <2>8, <2>9, <2>10, <3>1
      <4> QED  BY <3>1, <4>1 DEF Agree, BytesOf
    <3>2. CASE d = "Value"
      <4>1. a \in 1..v
        BY <2>8, <2>9, <2>10, <3>2
      <4> QED  BY <3>2, <4>1 DEF Agree, BytesOf
    <3> QED  BY <2>6, <3>1, <3>2 DEF Dimension
  <2>12. u[n + 1] \in TaggedByte /\ w[n + 1] \in TaggedByte
    BY <2>2, MergesFacts
  <2>13. u[n + 1].dimension = w[n + 1].dimension
    BY <2>3 DEF d
  <2>14. u[n + 1].byte = w[n + 1].byte
    BY <2>7, <2>11
  <2> QED  BY <2>12, <2>13, <2>14 DEF TaggedByte
<1>5. Nat \subseteq S
  <2> HIDE DEF S
  <2> QED  BY <1>3, <1>4, Induction
<1>6. \A i \in 1..(p + v) : u[i] = w[i]
  <2>1. p + v \in S
    BY <1>5
  <2> QED  BY <2>1
<1>7. Taken(w, p + v, "Path") = Taken(u, p + v, "Path")
  <2>1. p + v \in Nat /\ \A i \in 1..(p + v) : w[i].dimension = u[i].dimension
    BY <1>6
  <2> QED  BY <2>1, TakenSame
<1>8. Passes(w, p, v)
  BY <1>2, <1>7 DEF Passes
<1>9. p + v < Len(u) /\ p + v < Len(w) => u[p + v + 1].dimension = w[p + v + 1].dimension
  <2> DEFINE n == p + v
  <2>1. n \in Nat /\ \A i \in 1..n : u[i] = w[i]
    BY <1>6
  <2>2. n < Len(u) /\ n < Len(w) => u[n + 1].dimension = w[n + 1].dimension
    <3> HIDE DEF n
    <3> QED  BY <1>1, <2>1, AlikeGoesOn
  <2> QED  BY <2>2
<1> QED  BY <1>6, <1>8, <1>9

\* What is passed later.
LEMMA PassesBounds ==
  ASSUME NEW u \in Seq(TaggedByte), NEW p \in Nat, NEW v \in Nat, Passes(u, p, v),
         NEW q \in Nat, NEW w \in Nat, Passes(u, q, w), p + v <= q + w
  PROVE  p <= q /\ v <= w
<1>1. /\ Taken(u, p + v, "Path") = p /\ Taken(u, p + v, "Value") = v
      /\ Taken(u, q + w, "Path") = q /\ Taken(u, q + w, "Value") = w
  BY PassesFacts
<1>2. p + v \in Nat /\ q + w \in Nat
  OBVIOUS
<1> QED  BY <1>1, <1>2, TakenMonotone

-----------------------------------------------------------------------------
(* The bytes that are left of an order.                                     *)

LEMMA RangeGrows ==
  ASSUME NEW T, NEW t \in Seq(T), NEW a \in Nat, NEW b \in Nat, a <= b, b + 1 <= Len(t)
  PROVE  Append(SubSeq(t, a + 1, b), t[b + 1]) = SubSeq(t, a + 1, b + 1)
<1> DEFINE L == Len(t)
           x == SubSeq(t, a + 1, b)
           y == SubSeq(t, a + 1, b + 1)
<1>1. L \in Nat /\ b + 1 <= L
  OBVIOUS
<1>2. a \in 0..Len(t) /\ b \in a..Len(t) /\ b + 1 \in a..Len(t)
  <2> HIDE DEF L
  <2>1. a \in 0..L /\ b \in a..L /\ b + 1 \in a..L
    BY <1>1
  <2> QED  BY <2>1 DEF L
<1>3. /\ x \in Seq(T) /\ Len(x) = b - a /\ \A i \in 1..(b - a) : x[i] = t[a + i]
  BY <1>2, RangeCopy
<1>4. /\ y \in Seq(T) /\ Len(y) = (b + 1) - a /\ \A i \in 1..((b + 1) - a) : y[i] = t[a + i]
  <2> DEFINE c == b + 1
  <2>1. c \in a..Len(t)
    BY <1>2
  <2> HIDE DEF c
  <2>2. /\ SubSeq(t, a + 1, c) \in Seq(T) /\ Len(SubSeq(t, a + 1, c)) = c - a
        /\ \A i \in 1..(c - a) : SubSeq(t, a + 1, c)[i] = t[a + i]
    BY <1>2, <2>1, RangeCopy
  <2> QED  BY <2>2 DEF c
<1>5. t[b + 1] \in T
  <2>1. b + 1 \in 1..Len(t)
    BY <1>1
  <2> QED  BY <2>1
<1> DEFINE z == Append(x, t[b + 1])
<1> HIDE DEF x, y
<1>6. /\ z \in Seq(T) /\ Len(z) = (b - a) + 1 /\ z[(b - a) + 1] = t[b + 1]
      /\ \A i \in 1..(b - a) : z[i] = x[i]
  BY <1>3, <1>5
<1> HIDE DEF z
<1>7. (b - a) + 1 = (b + 1) - a /\ (b - a) + 1 \in Nat /\ a + ((b + 1) - a) = b + 1
  OBVIOUS
<1>8. \A i \in 1..((b + 1) - a) : z[i] = y[i]
  <2> TAKE i \in 1..((b + 1) - a)
  <2>1. i \in 1..(b - a) \/ i = (b + 1) - a
    OBVIOUS
  <2>2. y[i] = t[a + i]
    BY <1>4
  <2>3. CASE i \in 1..(b - a)
    BY <1>3, <1>6, <2>2, <2>3
  <2>4. CASE i = (b + 1) - a
    BY <1>6, <1>7, <2>2, <2>4
  <2> QED  BY <2>1, <2>3, <2>4
<1>9. z = y
  BY <1>4, <1>6, <1>7, <1>8, SeqEqual
<1> QED  BY <1>9 DEF x, y, z

LEMMA RestIs ==
  ASSUME NEW k \in Key, Merges(ikey, k), NEW pos \in 0..Len(ikey), NEW d \in Dimension
  PROVE  Rest(pos, d) = From(BytesOf(k, d), Taken(ikey, pos, d))
<1> DEFINE n == Len(ikey)
           B == BytesOf(k, d)
           q(i) == IF i <= pos THEN <<>> ELSE SubSeq(B, Taken(ikey, pos, d) + 1, Taken(ikey, i, d))
           f == [i \in 0..n |-> q(i)]
           G(g, i) == IF i <= pos THEN <<>>
                      ELSE IF ikey[i].dimension = d THEN Append(g[i - 1], ikey[i].byte) ELSE g[i - 1]
           Body(g) == [i \in 0..n |-> G(g, i)]
           from[i \in 0..n] == IF i <= pos THEN <<>>
                      ELSE IF ikey[i].dimension = d THEN Append(from[i - 1], ikey[i].byte) ELSE from[i - 1]
<1>1. /\ n \in Nat /\ pos \in Nat /\ pos <= n /\ B \in Seq(Byte) /\ Len(B) \in Nat
      /\ Taken(ikey, n, d) = Len(B)
      /\ \A i \in 1..n : ikey[i].dimension = d => ikey[i].byte = B[Taken(ikey, i, d)]
  <2>1. n \in Nat /\ pos \in Nat /\ pos <= n
    BY MergesFacts
  <2>2. B \in Seq(Byte) /\ Len(B) \in Nat
    BY KeyFacts DEF BytesOf
  <2>3. Taken(ikey, n, d) = Len(B)
    BY DEF Merges, MergeOf, BytesOf, Dimension
  <2>4. \A i \in 1..n : ikey[i].dimension = d => ikey[i].byte = B[Taken(ikey, i, d)]
    BY DEF Merges, MergeOf
  <2> QED  BY <2>1, <2>2, <2>3, <2>4
<1> HIDE DEF n, B
<1>2. \A i \in 0..n : Taken(ikey, i, d) \in Nat /\ Taken(ikey, i, d) <= Len(B)
  <2> TAKE i \in 0..n
  <2>1. i \in Nat /\ i <= n
    BY <1>1
  <2>2. Taken(ikey, i, d) \in Nat
    BY <2>1, TakenStep
  <2>3. Taken(ikey, i, d) <= Taken(ikey, n, d)
    BY <1>1, <2>1, TakenMonotone
  <2> QED  BY <1>1, <2>2, <2>3
<1>3. ASSUME NEW i \in 1..n, i > pos
      PROVE  q(i) = IF ikey[i].dimension = d THEN Append(q(i - 1), ikey[i].byte) ELSE q(i - 1)
  <2> DEFINE a == Taken(ikey, pos, d)
             b == Taken(ikey, i - 1, d)
             c == Taken(ikey, i, d)
  <2>1. i - 1 \in Nat /\ i \in Nat /\ (i - 1) + 1 = i /\ pos <= i - 1 /\ i <= n
    BY <1>1, <1>3
  <2>2. a \in Nat /\ b \in Nat /\ a <= b /\ c <= Len(B)
    <3>1. a \in Nat /\ b \in Nat
      BY <1>1, <2>1, TakenStep
    <3>2. i \in 0..n
      BY <1>1, <2>1
    <3>3. c <= Len(B)
      BY <1>2, <3>2
    <3> DEFINE j == i - 1
    <3>4. j \in Nat /\ pos <= j
      BY <2>1
    <3> HIDE DEF j
    <3>5. Taken(ikey, pos, d) <= Taken(ikey, j, d)
      BY <1>1, <3>4, TakenMonotone
    <3> QED  BY <3>1, <3>3, <3>5 DEF j
  <2>3. c = b + IF ikey[i].dimension = d THEN 1 ELSE 0
    <3> DEFINE j == i - 1
    <3>1. j \in Nat /\ j + 1 = i
      BY <2>1
    <3> HIDE DEF j
    <3>2. Taken(ikey, j + 1, d) = Taken(ikey, j, d) + IF ikey[j + 1].dimension = d THEN 1 ELSE 0
      BY <3>1, TakenStep
    <3> QED  BY <3>1, <3>2 DEF j
  <2>4. q(i) = SubSeq(B, a + 1, c)
    <3>1. ~(i <= pos)
      BY <1>1, <1>3
    <3> QED  BY <3>1
  <2>5. q(i - 1) = SubSeq(B, a + 1, b)
    <3>1. CASE i - 1 <= pos
      <4>1. i - 1 = pos
        BY <1>1, <2>1, <3>1
      <4>2. a = b
        BY <4>1
      <4>3. SubSeq(B, a + 1, b) = <<>>
        <5> HIDE DEF a, b
        <5>1. a \in 0..Len(B) /\ b \in a..Len(B)
          BY <1>1, <2>2, <2>3, <4>2
        <5>2. SubSeq(B, a + 1, b) \in Seq(Byte) /\ Len(SubSeq(B, a + 1, b)) = 0
          BY <1>1, <2>2, <4>2, <5>1, RangeCopy
        <5> QED  BY <5>2
      <4> QED  BY <3>1, <4>3
    <3>2. CASE ~(i - 1 <= pos)
      BY <3>2
    <3> QED  BY <3>1, <3>2
  <2>6. ikey[i].dimension = d => ikey[i].byte = B[c]
    BY <1>1
  <2> HIDE DEF q, a, b, c
  <2>7. CASE ikey[i].dimension = d
    <3>1. c = b + 1 /\ b + 1 <= Len(B)
      BY <2>2, <2>3, <2>7
    <3>2. Append(SubSeq(B, a + 1, b), B[b + 1]) = SubSeq(B, a + 1, b + 1)
      BY <1>1, <2>2, <3>1, RangeGrows
    <3> QED  BY <2>4, <2>5, <2>6, <2>7, <3>1, <3>2
  <2>8. CASE ikey[i].dimension # d
    <3>1. c = b
      BY <2>2, <2>3, <2>8
    <3> QED  BY <2>4, <2>5, <2>8, <3>1
  <2> QED  BY <2>7, <2>8
<1>4. \A i \in 0..n : i <= pos => q(i) = <<>>
  OBVIOUS
<1>5. \A i \in 0..n : i <= pos \/ (i \in 1..n /\ i > pos /\ i - 1 \in 0..n)
  BY <1>1
<1> HIDE DEF q
<1>6. from = Body(from)
  <2>1. \E g : g = Body(g)
    <3>1. \A i \in 0..n : f[i] = q(i)
      OBVIOUS
    <3>2. ASSUME NEW i \in 0..n  PROVE q(i) = G(f, i)
      <4>1. CASE i <= pos
        BY <1>4, <4>1
      <4>2. CASE ~(i <= pos)
        <5>1. i \in 1..n /\ i > pos /\ i - 1 \in 0..n
          BY <1>5, <4>2
        <5>2. f[i - 1] = q(i - 1)
          BY <3>1, <5>1
        <5> QED  BY <1>3, <4>2, <5>1, <5>2
      <4> QED  BY <4>1, <4>2
    <3>3. f = Body(f)
      BY <3>2
    <3> QED  BY <3>3
  <2> QED  BY <2>1
<1> HIDE DEF from
<1>7. \A i \in 0..n : from[i] = G(from, i)
  BY <1>6
<1> DEFINE S == {m \in Nat : m <= n => from[m] = q(m)}
<1>8. 0 \in S
  BY <1>1, <1>4, <1>7
<1>9. ASSUME NEW m \in Nat, m \in S  PROVE m + 1 \in S
  <2>1. SUFFICES ASSUME m + 1 <= n  PROVE from[m + 1] = q(m + 1)
    OBVIOUS
  <2>2. from[m] = q(m) /\ m + 1 \in 0..n /\ (m + 1) - 1 = m
    BY <1>1, <1>9, <2>1
  <2>3. CASE m + 1 <= pos
    BY <1>4, <1>7, <2>2, <2>3
  <2>4. CASE ~(m + 1 <= pos)
    <3>1. m + 1 \in 1..n /\ m + 1 > pos
      BY <1>5, <2>2, <2>4
    <3>2. q(m + 1) = IF ikey[m + 1].dimension = d THEN Append(q((m + 1) - 1), ikey[m + 1].byte)
                     ELSE q((m + 1) - 1)
      BY <1>3, <3>1
    <3> QED  BY <1>7, <2>2, <2>4, <3>2
  <2> QED  BY <2>3, <2>4
<1>10. n \in S
  <2> HIDE DEF S
  <2> QED  BY <1>1, <1>8, <1>9, Induction
<1>11. from[n] = q(n)
  BY <1>1, <1>10
<1>12. Rest(pos, d) = from[n]
  BY DEF Rest, from, n
<1>13. q(n) = SubSeq(B, Taken(ikey, pos, d) + 1, Len(B))
  <2>0. ~(n <= pos) \/ pos = n
    BY <1>1
  <2>1. CASE ~(n <= pos)
    BY <1>1, <2>1 DEF q
  <2>2. CASE pos = n
    <3>1. Taken(ikey, pos, d) = Len(B)
      BY <1>1, <2>2
    <3> DEFINE L == Len(B)
    <3>2. L \in 0..Len(B) /\ L \in L..Len(B)
      BY <1>1
    <3> HIDE DEF L
    <3>3. SubSeq(B, L + 1, L) \in Seq(Byte) /\ Len(SubSeq(B, L + 1, L)) = L - L
      BY <1>1, <3>2, RangeCopy
    <3>4. SubSeq(B, L + 1, L) = <<>>
      BY <1>1, <3>3 DEF L
    <3> QED  BY <1>1, <2>2, <3>1, <3>4 DEF q, L
  <2> QED  BY <2>0, <2>1, <2>2
<1> QED  BY <1>11, <1>12, <1>13 DEF From, B

-----------------------------------------------------------------------------
(* Orders grow by ranges of bytes of one dimension.                         *)

LEMMA TaggedFacts ==
  ASSUME NEW s \in Seq(Byte), NEW d \in Dimension
  PROVE  /\ Tagged(s, d) \in Seq(TaggedByte) /\ Len(Tagged(s, d)) = Len(s)
         /\ \A x \in 1..Len(s) : Tagged(s, d)[x].byte = s[x] /\ Tagged(s, d)[x].dimension = d
<1>1. Len(s) \in Nat /\ DOMAIN s = 1..Len(s) /\ \A x \in 1..Len(s) : s[x] \in Byte
  OBVIOUS
<1>2. Tagged(s, d) = [x \in 1..Len(s) |-> [byte |-> s[x], dimension |-> d]]
  BY <1>1 DEF Tagged
<1>3. \A x \in 1..Len(s) : [byte |-> s[x], dimension |-> d] \in TaggedByte
  BY <1>1 DEF TaggedByte
<1> DEFINE n == Len(s)
           q(x) == [byte |-> s[x], dimension |-> d]
<1>4. n \in Nat /\ Tagged(s, d) = [x \in 1..n |-> q(x)] /\ \A x \in 1..n : q(x) \in TaggedByte
  BY <1>1, <1>2, <1>3
<1>6. \A x \in 1..n : q(x).byte = s[x] /\ q(x).dimension = d
  OBVIOUS
<1> HIDE DEF n, q
<1>5. Tagged(s, d) \in Seq(TaggedByte) /\ Len(Tagged(s, d)) = n /\ \A x \in 1..n : Tagged(s, d)[x] = q(x)
  BY <1>4
<1> QED  BY <1>5, <1>6 DEF n

\* All bytes of t have dimension d.
AllOf(t, d) == \A x \in 1..Len(t) : t[x].dimension = d

LEMMA TakenBehind ==
  ASSUME NEW u \in Seq(TaggedByte), NEW t \in Seq(TaggedByte), NEW d, NEW c,
         AllOf(t, d), NEW y \in 0..Len(t)
  PROVE  Taken(u \o t, Len(u) + y, c) = Taken(u, Len(u), c) + IF c = d THEN y ELSE 0
<1> DEFINE z == u \o t
           n == Len(u)
           m == Len(t)
           S == {x \in Nat : x <= m => Taken(z, n + x, c) = Taken(u, n, c) + IF c = d THEN x ELSE 0}
<1>1. /\ n \in Nat /\ m \in Nat
      /\ \A x \in 1..n : z[x] = u[x]
      /\ \A x \in 1..m : z[n + x] = t[x] /\ t[x].dimension = d
  BY Concatenation DEF AllOf
<1>2. Taken(u, n, c) \in Nat
  BY <1>1, TakenStep
<1> HIDE DEF z, n
<1>3. 0 \in S
  <2>0. n \in Nat /\ \A x \in 1..n : z[x].dimension = u[x].dimension
    BY <1>1
  <2>1. Taken(z, n, c) = Taken(u, n, c)
    BY <2>0, TakenSame
  <2> QED  BY <1>1, <1>2, <2>1
<1>4. ASSUME NEW x \in Nat, x \in S  PROVE x + 1 \in S
  <2> SUFFICES ASSUME x + 1 <= m
               PROVE  Taken(z, n + (x + 1), c) = Taken(u, n, c) + IF c = d THEN x + 1 ELSE 0
    OBVIOUS
  <2>1. Taken(z, n + x, c) = Taken(u, n, c) + IF c = d THEN x ELSE 0
    BY <1>1, <1>4
  <2>2. x + 1 \in 1..m /\ n + x \in Nat /\ n + (x + 1) = (n + x) + 1
    BY <1>1
  <2>3. z[n + (x + 1)] = t[x + 1] /\ t[x + 1].dimension = d
    BY <1>1, <2>2
  <2>4. Taken(z, (n + x) + 1, c) = Taken(z, n + x, c) + IF z[(n + x) + 1].dimension = c THEN 1 ELSE 0
    BY <2>2, TakenStep
  <2> QED  BY <1>2, <2>1, <2>2, <2>3, <2>4
<1>5. Nat \subseteq S
  <2> HIDE DEF S
  <2> QED  BY <1>3, <1>4, Induction
<1>6. y \in Nat /\ y <= m /\ y \in S
  BY <1>1, <1>5
<1> QED  BY <1>6 DEF z, n

\* The places from which u goes on in the path, path and value bytes taken, are
\* those in G.
Obeys(u, G) ==
  \A i \in 1..Len(u) :
    u[i].dimension = IF <<Taken(u, i - 1, "Path"), Taken(u, i - 1, "Value")>> \in G
                     THEN "Path" ELSE "Value"

\* The bytes n + 1..m of s, each with dimension d.
Segment(s, n, m, d) == Tagged(SubSeq(s, n + 1, m), d)

LEMMA SegmentFacts ==
  ASSUME NEW s \in Seq(Byte), NEW d \in Dimension, NEW n \in Nat, NEW m \in Nat, n <= m, m <= Len(s)
  PROVE  /\ Segment(s, n, m, d) \in Seq(TaggedByte) /\ Len(Segment(s, n, m, d)) = m - n
         /\ m - n \in Nat
         /\ \A x \in 1..(m - n) : /\ Segment(s, n, m, d)[x].byte = s[n + x]
                                  /\ Segment(s, n, m, d)[x].dimension = d
<1> DEFINE L == Len(s)
           t == SubSeq(s, n + 1, m)
<1>1. L \in Nat /\ m <= L
  OBVIOUS
<1>2. n \in 0..Len(s) /\ m \in n..Len(s)
  <2> HIDE DEF L
  <2>1. n \in 0..L /\ m \in n..L
    BY <1>1
  <2> QED  BY <2>1 DEF L
<1>3. t \in Seq(Byte) /\ Len(t) = m - n /\ \A x \in 1..(m - n) : t[x] = s[n + x]
  BY <1>2, RangeCopy
<1> HIDE DEF t
<1>4. /\ Tagged(t, d) \in Seq(TaggedByte) /\ Len(Tagged(t, d)) = Len(t)
      /\ \A x \in 1..Len(t) : Tagged(t, d)[x].byte = t[x] /\ Tagged(t, d)[x].dimension = d
  BY <1>3, TaggedFacts
<1> QED  BY <1>3, <1>4 DEF Segment, t

IsSegment(t, s, n, m, d) ==
  /\ t \in Seq(TaggedByte) /\ Len(t) = m - n /\ m - n \in Nat
  /\ \A x \in 1..(m - n) : t[x].byte = s[n + x] /\ t[x].dimension = d

LEMMA SegmentIs ==
  ASSUME NEW s \in Seq(Byte), NEW d \in Dimension, NEW n \in Nat, NEW m \in Nat, n <= m, m <= Len(s)
  PROVE  IsSegment(Segment(s, n, m, d), s, n, m, d)
<1> DEFINE t == Segment(s, n, m, d)
<1>1. t \in Seq(TaggedByte)
  BY SegmentFacts
<1>2. Len(t) = m - n /\ m - n \in Nat
  BY SegmentFacts
<1>3. ASSUME NEW x \in 1..(m - n)  PROVE t[x].byte = s[n + x]
  BY <1>3, SegmentFacts
<1>4. ASSUME NEW x \in 1..(m - n)  PROVE t[x].dimension = d
  BY <1>4, SegmentFacts
<1> HIDE DEF t
<1>5. IsSegment(t, s, n, m, d)
  BY <1>1, <1>2, <1>3, <1>4 DEF IsSegment
<1> QED  BY <1>5 DEF t

\* The position in dimension d of a place.
TakenIn(d, p, v) == IF d = "Path" THEN p ELSE v

\* The place behind bytes n + 1..m of dimension d.
LEMMA MergeExtends ==
  ASSUME NEW k \in Key, NEW p, NEW v, NEW u, MergeOf(u, k, p, v), NEW d \in Dimension,
         NEW n, n = TakenIn(d, p, v),
         NEW m \in Nat, n <= m, m <= Len(BytesOf(k, d))
  PROVE  MergeOf(u \o Segment(BytesOf(k, d), n, m, d), k,
                 IF d = "Path" THEN m ELSE p, IF d = "Path" THEN v ELSE m)
<1> DEFINE B == BytesOf(k, d)
           t == Segment(B, n, m, d)
           z == u \o t
           L == Len(u)
           M == Len(t)
           p2 == IF d = "Path" THEN m ELSE p
           v2 == IF d = "Path" THEN v ELSE m
<1>1. /\ p \in Nat /\ v \in Nat /\ L \in Nat /\ L = p + v /\ u \in Seq(TaggedByte)
  BY MergeFacts
<1>2. B \in Seq(Byte) /\ n \in Nat /\ m <= Len(B)
  <2>1. B \in Seq(Byte)
    BY KeyFacts DEF BytesOf
  <2>2. n \in Nat
    BY <1>1 DEF TakenIn
  <2> QED  BY <2>1, <2>2
<1>3. /\ t \in Seq(TaggedByte) /\ M = m - n /\ M \in Nat
      /\ \A x \in 1..M : t[x].byte = B[n + x] /\ t[x].dimension = d
  <2>2. B \in Seq(Byte) /\ n \in Nat /\ n <= m /\ m <= Len(B)
    BY <1>2
  <2> HIDE DEF B, t
  <2>1. IsSegment(Segment(B, n, m, d), B, n, m, d)
    BY <2>2, SegmentIs
  <2>3. IsSegment(t, B, n, m, d)
    BY <2>1 DEF t
  <2> QED  BY <2>3 DEF IsSegment
<1> HIDE DEF t, B
<1>4. /\ z \in Seq(TaggedByte) /\ Len(z) = L + M
      /\ \A x \in 1..L : z[x] = u[x]
      /\ \A x \in 1..M : z[L + x] = t[x]
  <2>1. u \in Seq(TaggedByte) /\ t \in Seq(TaggedByte)
    BY <1>1, <1>3
  <2> QED  BY <2>1, Concatenation
<1>5. \A c : \A y \in 0..M : Taken(z, L + y, c) = Taken(u, L, c) + IF c = d THEN y ELSE 0
  <2>1. u \in Seq(TaggedByte) /\ t \in Seq(TaggedByte) /\ AllOf(t, d)
    BY <1>1, <1>3 DEF AllOf
  <2> SUFFICES ASSUME NEW c, NEW y \in 0..Len(t)
               PROVE  Taken(u \o t, Len(u) + y, c) = Taken(u, Len(u), c) + IF c = d THEN y ELSE 0
    OBVIOUS
  <2> QED  BY <2>1, TakenBehind
<1>6. Taken(u, L, "Path") = p /\ Taken(u, L, "Value") = v
  BY DEF MergeOf
<1>7. \A i \in 1..L : u[i].byte = BytesOf(k, u[i].dimension)[Taken(u, i, u[i].dimension)]
  BY DEF MergeOf
<1> HIDE DEF z, L, M
<1>8. Taken(z, Len(z), "Path") = p2 /\ Taken(z, Len(z), "Value") = v2
  <2>1. M \in 0..M
    BY <1>3
  <2>2. /\ Taken(z, L + M, "Path") = p + IF "Path" = d THEN M ELSE 0
        /\ Taken(z, L + M, "Value") = v + IF "Value" = d THEN M ELSE 0
    BY <1>5, <1>6, <2>1
  <2>3. n + M = m
    BY <1>2, <1>3
  <2> QED  BY <1>1, <1>4, <2>2, <2>3 DEF Dimension, TakenIn
<1>9. p2 <= Len(k.path) /\ v2 <= Len(k.value)
  BY DEF MergeOf, BytesOf
<1>10. ASSUME NEW i \in 1..Len(z)
       PROVE  z[i].byte = BytesOf(k, z[i].dimension)[Taken(z, i, z[i].dimension)]
  <2>1. i \in 1..L \/ \E x \in 1..M : i = L + x
    <3>1. i \in 1..L \/ (i - L \in 1..M /\ i = L + (i - L))
      BY <1>1, <1>3, <1>4
    <3> QED  BY <3>1
  <2>2. CASE i \in 1..L
    <3>1. z[i] = u[i] /\ i \in Nat
      BY <1>4, <2>2
    <3>2. \A j \in 1..i : z[j].dimension = u[j].dimension
      <4>1. \A j \in 1..i : j \in 1..L
        BY <1>1, <2>2
      <4> QED  BY <1>4, <4>1
    <3>3. Taken(z, i, z[i].dimension) = Taken(u, i, z[i].dimension)
      BY <3>1, <3>2, TakenSame
    <3> QED  BY <1>7, <2>2, <3>1, <3>3
  <2>3. ASSUME NEW x \in 1..M, i = L + x
        PROVE  z[i].byte = BytesOf(k, z[i].dimension)[Taken(z, i, z[i].dimension)]
    <3>1. z[i].byte = B[n + x] /\ z[i].dimension = d
      BY <1>3, <1>4, <2>3
    <3>2. x \in 0..M /\ x \in Nat
      BY <1>3
    <3>3. Taken(z, L + x, d) = Taken(u, L, d) + x
      BY <1>5, <3>2
    <3>4. Taken(u, L, d) = n
      BY <1>6 DEF Dimension, TakenIn
    <3> QED  BY <2>3, <3>1, <3>3, <3>4 DEF B
  <2> QED  BY <2>1, <2>2, <2>3
<1>11. MergeOf(z, k, p2, v2)
  BY <1>4, <1>8, <1>9, <1>10 DEF MergeOf
<1> QED  BY <1>11 DEF z, t, B

LEMMA ObeysExtends ==
  ASSUME NEW k \in Key, NEW p, NEW v, NEW u, MergeOf(u, k, p, v), NEW d \in Dimension,
         NEW n, n = TakenIn(d, p, v),
         NEW m \in Nat, n <= m, m <= Len(BytesOf(k, d)),
         NEW G, Obeys(u, G),
         \A x \in n..(m - 1) : IF d = "Path" THEN <<x, v>> \in G ELSE <<p, x>> \notin G
  PROVE  Obeys(u \o Segment(BytesOf(k, d), n, m, d), G)
<1> DEFINE B == BytesOf(k, d)
           t == Segment(B, n, m, d)
           z == u \o t
           L == Len(u)
           M == Len(t)
<1>1. /\ p \in Nat /\ v \in Nat /\ L \in Nat /\ u \in Seq(TaggedByte)
  BY MergeFacts
<1>2. B \in Seq(Byte) /\ n \in Nat /\ m <= Len(B)
  <2>1. B \in Seq(Byte)
    BY KeyFacts DEF BytesOf
  <2>2. n \in Nat
    BY <1>1 DEF TakenIn
  <2> QED  BY <2>1, <2>2
<1>3. /\ t \in Seq(TaggedByte) /\ M = m - n /\ M \in Nat
      /\ \A x \in 1..M : t[x].dimension = d
  <2>2. B \in Seq(Byte) /\ n \in Nat /\ n <= m /\ m <= Len(B)
    BY <1>2
  <2> HIDE DEF B, t
  <2>1. IsSegment(Segment(B, n, m, d), B, n, m, d)
    BY <2>2, SegmentIs
  <2>3. IsSegment(t, B, n, m, d)
    BY <2>1 DEF t
  <2> QED  BY <2>3 DEF IsSegment
<1> HIDE DEF t, B
<1>4. /\ z \in Seq(TaggedByte) /\ Len(z) = L + M
      /\ \A x \in 1..L : z[x] = u[x]
      /\ \A x \in 1..M : z[L + x] = t[x]
  <2>1. u \in Seq(TaggedByte) /\ t \in Seq(TaggedByte)
    BY <1>1, <1>3
  <2> QED  BY <2>1, Concatenation
<1>5. \A c : \A y \in 0..M : Taken(z, L + y, c) = Taken(u, L, c) + IF c = d THEN y ELSE 0
  <2>1. u \in Seq(TaggedByte) /\ t \in Seq(TaggedByte) /\ AllOf(t, d)
    BY <1>1, <1>3 DEF AllOf
  <2> SUFFICES ASSUME NEW c, NEW y \in 0..Len(t)
               PROVE  Taken(u \o t, Len(u) + y, c) = Taken(u, Len(u), c) + IF c = d THEN y ELSE 0
    OBVIOUS
  <2> QED  BY <2>1, TakenBehind
<1>6. Taken(u, L, "Path") = p /\ Taken(u, L, "Value") = v
  BY DEF MergeOf
<1>7. \A i \in 1..L :
        u[i].dimension = IF <<Taken(u, i - 1, "Path"), Taken(u, i - 1, "Value")>> \in G
                         THEN "Path" ELSE "Value"
  BY DEF Obeys
<1> HIDE DEF z, L, M
<1>8. ASSUME NEW i \in 1..Len(z)
      PROVE  z[i].dimension = IF <<Taken(z, i - 1, "Path"), Taken(z, i - 1, "Value")>> \in G
                              THEN "Path" ELSE "Value"
  <2>1. i \in 1..L \/ \E x \in 1..M : i = L + x
    <3>1. i \in 1..L \/ (i - L \in 1..M /\ i = L + (i - L))
      BY <1>1, <1>3, <1>4
    <3> QED  BY <3>1
  <2>2. CASE i \in 1..L
    <3>1. z[i] = u[i] /\ i - 1 \in Nat
      BY <1>1, <1>4, <2>2
    <3>2. \A j \in 1..(i - 1) : z[j].dimension = u[j].dimension
      <4>1. \A j \in 1..(i - 1) : j \in 1..L
        BY <1>1, <2>2
      <4> QED  BY <1>4, <4>1
    <3>3. \A c : Taken(z, i - 1, c) = Taken(u, i - 1, c)
      <4> DEFINE j == i - 1
      <4>1. j \in Nat /\ \A x \in 1..j : z[x].dimension = u[x].dimension
        BY <3>1, <3>2
      <4> HIDE DEF j
      <4>2. \A c : Taken(z, j, c) = Taken(u, j, c)
        BY <4>1, TakenSame
      <4> QED  BY <4>2 DEF j
    <3> QED  BY <1>7, <2>2, <3>1, <3>3
  <2>3. ASSUME NEW x \in 1..M, i = L + x
        PROVE  z[i].dimension = IF <<Taken(z, i - 1, "Path"), Taken(z, i - 1, "Value")>> \in G
                                THEN "Path" ELSE "Value"
    <3> DEFINE y == x - 1
    <3>1. y \in 0..M /\ y \in Nat /\ i - 1 = L + y /\ n + y \in n..(m - 1)
      <4>1. M = m - n /\ n \in Nat /\ L \in Nat /\ x \in 1..M /\ M \in Nat
        BY <1>1, <1>2, <1>3
      <4>2. y \in 0..M /\ y \in Nat
        BY <4>1
      <4>3. n + y \in n..(m - 1)
        BY <4>1
      <4>4. i - 1 = L + y
        BY <2>3, <4>1
      <4> QED  BY <4>2, <4>3, <4>4
    <3> HIDE DEF y
    <3>2. z[i].dimension = d
      BY <1>3, <1>4, <2>3
    <3>3. /\ Taken(z, L + y, "Path") = p + IF "Path" = d THEN y ELSE 0
          /\ Taken(z, L + y, "Value") = v + IF "Value" = d THEN y ELSE 0
      BY <1>5, <1>6, <3>1
    <3>4. IF d = "Path" THEN <<n + y, v>> \in G ELSE <<p, n + y>> \notin G
      BY <3>1
    <3>5. CASE d = "Path"
      <4>1. Taken(z, i - 1, "Path") = n + y /\ Taken(z, i - 1, "Value") = v
        BY <1>1, <3>1, <3>3, <3>5 DEF TakenIn
      <4> QED  BY <3>2, <3>4, <3>5, <4>1
    <3>6. CASE d = "Value"
      <4>1. Taken(z, i - 1, "Path") = p /\ Taken(z, i - 1, "Value") = n + y
        BY <1>1, <3>1, <3>3, <3>6 DEF TakenIn
      <4> QED  BY <3>2, <3>4, <3>6, <4>1
    <3> QED  BY <3>5, <3>6 DEF Dimension
  <2> QED  BY <2>1, <2>2, <2>3
<1>9. Obeys(z, G)
  BY <1>8 DEF Obeys
<1> QED  BY <1>9 DEF z, t, B

-----------------------------------------------------------------------------
(* The interleavings of a key are orders of its bytes.                      *)

LEMMA NothingMerged ==
  ASSUME NEW k \in Key
  PROVE  MergeOf(<<>>, k, 0, 0) /\ \A G : Obeys(<<>>, G)
<1>1. <<>> \in Seq(TaggedByte) /\ Len(<<>>) = 0 /\ 1..Len(<<>>) = {}
  OBVIOUS
<1>2. 0 \in Nat
  OBVIOUS
<1>3. Taken(<<>>, 0, "Path") = 0 /\ Taken(<<>>, 0, "Value") = 0
  BY <1>2, TakenStep
<1>4. Len(k.path) \in Nat /\ Len(k.value) \in Nat
  BY KeyFacts
<1>5. 0 <= Len(k.path) /\ 0 <= Len(k.value)
  BY <1>4
<1>6. MergeOf(<<>>, k, 0, 0)
  BY <1>1, <1>3, <1>5 DEF MergeOf
<1>7. \A G : Obeys(<<>>, G)
  BY <1>1 DEF Obeys
<1> QED  BY <1>6, <1>7

LEMMA WholeSegment ==
  ASSUME NEW s \in Seq(Byte), NEW d \in Dimension
  PROVE  Segment(s, 0, Len(s), d) = Tagged(s, d) /\ <<>> \o Tagged(s, d) = Tagged(s, d)
<1> DEFINE n == Len(s)
           t == SubSeq(s, 0 + 1, n)
           x == Tagged(s, d)
           y == <<>> \o x
<1>1. n \in Nat /\ 0 \in 0..Len(s) /\ n \in 0..Len(s)
  OBVIOUS
<1>2. t \in Seq(Byte) /\ Len(t) = n - 0 /\ \A i \in 1..(n - 0) : t[i] = s[0 + i]
  BY <1>1, RangeCopy
<1>3. t = s
  <2> HIDE DEF t
  <2>1. Len(t) = Len(s) /\ \A i \in 1..Len(s) : t[i] = s[i]
    BY <1>1, <1>2
  <2> QED  BY <1>2, <2>1, SeqEqual
<1>4. x \in Seq(TaggedByte) /\ <<>> \in Seq(TaggedByte) /\ Len(<<>>) = 0
  BY TaggedFacts
<1> HIDE DEF x
<1>5. y \in Seq(TaggedByte) /\ Len(y) = 0 + Len(x) /\ \A i \in 1..Len(x) : y[0 + i] = x[i]
  BY <1>4, Concatenation
<1>6. Len(x) \in Nat
  BY <1>4
<1> HIDE DEF y
<1>7. Len(y) = Len(x) /\ \A i \in 1..Len(x) : y[i] = x[i]
  BY <1>5, <1>6
<1>8. y = x
  BY <1>4, <1>5, <1>7, SeqEqual
<1> QED  BY <1>3, <1>8 DEF Segment, x, y

\* The places of a key where its path, its value is not yet taken.
PathLeft(k)  == {x \in Nat \X Nat : x[1] < Len(k.path)}
ValueTaken(k) == {x \in Nat \X Nat : ~(x[2] < Len(k.value))}

LEMMA PathValueMerges ==
  ASSUME NEW k \in Key
  PROVE  Merges(PathValue(k), k) /\ Obeys(PathValue(k), PathLeft(k))
<1> DEFINE K == Len(k.path)
           W == Len(k.value)
           G == PathLeft(k)
           u == <<>> \o Segment(k.path, 0, K, "Path")
           w == u \o Segment(k.value, 0, W, "Value")
<1>1. k.path \in Seq(Byte) /\ k.value \in Seq(Byte) /\ K \in Nat /\ W \in Nat
  BY KeyFacts
<1>2. BytesOf(k, "Path") = k.path /\ BytesOf(k, "Value") = k.value
  BY DEF BytesOf
<1>3. "Path" \in Dimension /\ "Value" \in Dimension
  BY DEF Dimension
<1>4. MergeOf(<<>>, k, 0, 0) /\ Obeys(<<>>, G)
  BY NothingMerged
<1>5. 0 = TakenIn("Path", 0, 0) /\ 0 = TakenIn("Value", K, 0)
  BY DEF TakenIn
<1>6. 0 <= K /\ 0 <= W /\ K <= Len(BytesOf(k, "Path")) /\ W <= Len(BytesOf(k, "Value"))
  BY <1>1, <1>2
<1>7. MergeOf(u, k, K, 0)
  <2>1. MergeOf(<<>> \o Segment(BytesOf(k, "Path"), 0, K, "Path"), k, K, 0)
    BY <1>1, <1>3, <1>4, <1>5, <1>6, MergeExtends
  <2> QED  BY <1>2, <2>1
<1>8. Obeys(u, G)
  <2>1. \A x \in 0..(K - 1) : <<x, 0>> \in G
    BY <1>1 DEF PathLeft
  <2> HIDE DEF G
  <2>2. Obeys(<<>> \o Segment(BytesOf(k, "Path"), 0, K, "Path"), G)
    BY <1>1, <1>3, <1>4, <1>5, <1>6, <2>1, ObeysExtends
  <2> QED  BY <1>2, <2>2
<1> HIDE DEF u
<1>9. MergeOf(w, k, K, W)
  <2>1. MergeOf(u \o Segment(BytesOf(k, "Value"), 0, W, "Value"), k, K, W)
    BY <1>1, <1>3, <1>5, <1>6, <1>7, MergeExtends
  <2> QED  BY <1>2, <2>1
<1>10. Obeys(w, G)
  <2>1. \A x \in 0..(W - 1) : <<K, x>> \notin G
    BY <1>1 DEF PathLeft
  <2> HIDE DEF G
  <2>2. Obeys(u \o Segment(BytesOf(k, "Value"), 0, W, "Value"), G)
    BY <1>1, <1>3, <1>5, <1>6, <1>7, <1>8, <2>1, ObeysExtends
  <2> QED  BY <1>2, <2>2
<1>11. w = PathValue(k)
  BY <1>1, <1>3, WholeSegment DEF PathValue, u, K, W
<1> QED  BY <1>9, <1>10, <1>11 DEF Merges

LEMMA ValuePathMerges ==
  ASSUME NEW k \in Key
  PROVE  Merges(ValuePath(k), k) /\ Obeys(ValuePath(k), ValueTaken(k))
<1> DEFINE K == Len(k.path)
           W == Len(k.value)
           G == ValueTaken(k)
           u == <<>> \o Segment(k.value, 0, W, "Value")
           w == u \o Segment(k.path, 0, K, "Path")
<1>1. k.path \in Seq(Byte) /\ k.value \in Seq(Byte) /\ K \in Nat /\ W \in Nat
  BY KeyFacts
<1>2. BytesOf(k, "Path") = k.path /\ BytesOf(k, "Value") = k.value
  BY DEF BytesOf
<1>3. "Path" \in Dimension /\ "Value" \in Dimension
  BY DEF Dimension
<1>4. MergeOf(<<>>, k, 0, 0) /\ Obeys(<<>>, G)
  BY NothingMerged
<1>5. 0 = TakenIn("Value", 0, 0) /\ 0 = TakenIn("Path", 0, W)
  BY DEF TakenIn
<1>6. 0 <= K /\ 0 <= W /\ K <= Len(BytesOf(k, "Path")) /\ W <= Len(BytesOf(k, "Value"))
  BY <1>1, <1>2
<1>7. MergeOf(u, k, 0, W)
  <2>1. MergeOf(<<>> \o Segment(BytesOf(k, "Value"), 0, W, "Value"), k, 0, W)
    BY <1>1, <1>3, <1>4, <1>5, <1>6, MergeExtends
  <2> QED  BY <1>2, <2>1
<1>8. Obeys(u, G)
  <2>1. \A x \in 0..(W - 1) : IF "Value" = "Path" THEN <<x, 0>> \in G ELSE <<0, x>> \notin G
    BY <1>1 DEF ValueTaken
  <2> HIDE DEF G, K, W
  <2> DEFINE u0 == <<>>
  <2>3. MergeOf(u0, k, 0, 0) /\ Obeys(u0, G)
    BY <1>4
  <2> HIDE DEF u0
  <2>4. Obeys(u0 \o Segment(BytesOf(k, "Value"), 0, W, "Value"), G)
    BY <1>1, <1>3, <1>5, <1>6, <2>1, <2>3, ObeysExtends
  <2>2. Obeys(<<>> \o Segment(BytesOf(k, "Value"), 0, W, "Value"), G)
    BY <2>4 DEF u0
  <2> QED  BY <1>2, <2>2
<1> HIDE DEF u
<1>9. MergeOf(w, k, K, W)
  <2>1. MergeOf(u \o Segment(BytesOf(k, "Path"), 0, K, "Path"), k, K, W)
    BY <1>1, <1>3, <1>5, <1>6, <1>7, MergeExtends
  <2> QED  BY <1>2, <2>1
<1>10. Obeys(w, G)
  <2>1. \A x \in 0..(K - 1) : <<x, W>> \in G
    BY <1>1 DEF ValueTaken
  <2> HIDE DEF G
  <2>2. Obeys(u \o Segment(BytesOf(k, "Path"), 0, K, "Path"), G)
    BY <1>1, <1>3, <1>5, <1>6, <1>7, <1>8, <2>1, ObeysExtends
  <2> QED  BY <1>2, <2>2
<1>11. w = ValuePath(k)
  BY <1>1, <1>3, WholeSegment DEF ValuePath, u, K, W
<1> QED  BY <1>9, <1>10, <1>11 DEF Merges

-----------------------------------------------------------------------------
(* Rounds of the z-order.                                                   *)

LEMMA BoundFacts ==
  ASSUME NEW a \in Nat, NEW b \in Nat, NEW n \in Nat, a <= b
  PROVE  /\ Bound(a, n) \in Nat /\ Bound(b, n) \in Nat
         /\ Bound(a, n) <= Bound(b, n) /\ Bound(b, n) <= n
         /\ n <= a => Bound(a, n) = n
         /\ a <= n => Bound(a, n) = a
BY DEF Bound

LEMMA CeilDivFacts ==
  ASSUME NEW a \in Nat, NEW b \in Nat, a > 0, b > 0
  PROVE  CeilDiv(a, b) \in Nat /\ CeilDiv(a, b) > 0 /\ a <= b * CeilDiv(a, b)
<1> DEFINE c == a + b - 1
           q == c \div b
           r == c % b
<1>1. c \in Int
  OBVIOUS
<1>2. q \in Int /\ r \in 0..(b - 1) /\ c = b * q + r
  <2> HIDE DEF c
  <2> QED  BY <1>1, DivMod
<1> HIDE DEF q, r
<1>3. r \in Int /\ r <= b - 1 /\ a + b - 1 = b * q + r
  BY <1>2
<1> DEFINE x == b * q
<1>4. x \in Int
  BY <1>2
<1>5. a <= x
  <2> HIDE DEF x
  <2>1. a + b - 1 = x + r
    BY <1>3 DEF x
  <2> QED  BY <1>3, <1>4, <2>1
<1>6. q > 0
  <2>1. q <= 0 => b * q <= 0
    BY <1>2
  <2> QED  BY <1>2, <1>5, <2>1
<1> QED  BY <1>2, <1>5, <1>6 DEF CeilDiv, q

\* What a round of runs of c value and e path bytes adds to u.
ZStep(k, c, e, r, u) ==
  u \o Segment(k.value, Bound((r - 1) * c, Len(k.value)), Bound(r * c, Len(k.value)), "Value")
    \o Segment(k.path, Bound((r - 1) * e, Len(k.path)), Bound(r * e, Len(k.path)), "Path")

LEMMA RunFacts ==
  ASSUME NEW c \in Nat, NEW r \in Nat, r > 0, NEW n \in Nat
  PROVE  /\ (r - 1) * c \in Nat /\ r * c \in Nat /\ (r - 1) * c <= r * c
         /\ Bound((r - 1) * c, n) \in Nat /\ Bound(r * c, n) \in Nat
         /\ Bound((r - 1) * c, n) <= Bound(r * c, n) /\ Bound(r * c, n) <= n
<1>1. (r - 1) * c \in Nat /\ r * c \in Nat /\ (r - 1) * c <= r * c
  <2>1. r - 1 \in Nat /\ r * c = (r - 1) * c + c
    OBVIOUS
  <2>2. (r - 1) * c \in Nat
    BY <2>1
  <2> DEFINE x == (r - 1) * c
             y == r * c
  <2> HIDE DEF x, y
  <2>3. x \in Nat /\ y = x + c
    BY <2>1, <2>2 DEF x, y
  <2>4. y \in Nat /\ x <= y
    BY <2>3
  <2> QED  BY <2>3, <2>4 DEF x, y
<1> DEFINE x == (r - 1) * c
           y == r * c
<1> HIDE DEF x, y
<1>2. x \in Nat /\ y \in Nat /\ x <= y
  BY <1>1 DEF x, y
<1>3. /\ Bound(x, n) \in Nat /\ Bound(y, n) \in Nat
      /\ Bound(x, n) <= Bound(y, n) /\ Bound(y, n) <= n
  BY <1>2, BoundFacts
<1> QED  BY <1>2, <1>3 DEF x, y

LEMMA ZStepMerges ==
  ASSUME NEW k \in Key, NEW c \in Nat, NEW e \in Nat, NEW r \in Nat, r > 0, NEW u,
         MergeOf(u, k, Bound((r - 1) * e, Len(k.path)), Bound((r - 1) * c, Len(k.value)))
  PROVE  MergeOf(ZStep(k, c, e, r, u), k, Bound(r * e, Len(k.path)), Bound(r * c, Len(k.value)))
<1> DEFINE p == Bound((r - 1) * e, Len(k.path))
           v == Bound((r - 1) * c, Len(k.value))
           p2 == Bound(r * e, Len(k.path))
           v2 == Bound(r * c, Len(k.value))
           w == u \o Segment(k.value, v, v2, "Value")
<1>1. Len(k.path) \in Nat /\ Len(k.value) \in Nat
  BY KeyFacts
<1>2. p \in Nat /\ p2 \in Nat /\ p <= p2 /\ p2 <= Len(k.path)
  BY <1>1, RunFacts
<1>3. v \in Nat /\ v2 \in Nat /\ v <= v2 /\ v2 <= Len(k.value)
  BY <1>1, RunFacts
<1>4. MergeOf(u, k, p, v)
  OBVIOUS
<1>5. ZStep(k, c, e, r, u) = w \o Segment(k.path, p, p2, "Path")
  BY DEF ZStep
<1> HIDE DEF p, v, p2, v2
<1>6. BytesOf(k, "Path") = k.path /\ BytesOf(k, "Value") = k.value
  BY DEF BytesOf
<1>7. "Path" \in Dimension /\ "Value" \in Dimension
  BY DEF Dimension
<1>8. v = TakenIn("Value", p, v) /\ p = TakenIn("Path", p, v2)
  BY DEF TakenIn
<1>9. MergeOf(w, k, p, v2)
  <2>1. MergeOf(u \o Segment(BytesOf(k, "Value"), v, v2, "Value"), k, p, v2)
    BY <1>3, <1>4, <1>6, <1>7, <1>8, MergeExtends
  <2> QED  BY <1>6, <2>1
<1> HIDE DEF w
<1>10. MergeOf(w \o Segment(k.path, p, p2, "Path"), k, p2, v2)
  <2>1. MergeOf(w \o Segment(BytesOf(k, "Path"), p, p2, "Path"), k, p2, v2)
    BY <1>2, <1>6, <1>7, <1>8, <1>9, MergeExtends
  <2> QED  BY <1>6, <2>1
<1> QED  BY <1>5, <1>10 DEF p2, v2

ZRuns(k, r, f) ==
  LET c == CeilDiv(Len(k.value), Len(k.path))
      e == CeilDiv(Len(k.path), Len(k.value))
  IN  /\ f[0] = <<>> /\ \A i \in 1..r : f[i] = ZStep(k, c, e, i, f[i - 1])
      /\ ZOrder(k) = f[r] /\ r = Bound(Len(k.path), Len(k.value))

LEMMA ZOrderRuns ==
  ASSUME NEW k \in Key, Len(k.path) > 0, Len(k.value) > 0
  PROVE  \E f : ZRuns(k, Bound(Len(k.path), Len(k.value)), f)
<1> DEFINE K == Len(k.path)
           W == Len(k.value)
           c == CeilDiv(W, K)
           e == CeilDiv(K, W)
           n == Bound(K, W)
           T == Seq(TaggedByte)
           Body(g) == [r \in 0..n |->
              IF r = 0 THEN <<>>
              ELSE g[r - 1]
                     \o Tagged(Slice(k.value, (r - 1) * c, r * c), "Value")
                     \o Tagged(Slice(k.path, (r - 1) * e, r * e), "Path")]
           Rounds[r \in 0..n] ==
              IF r = 0 THEN <<>>
              ELSE Rounds[r - 1]
                     \o Tagged(Slice(k.value, (r - 1) * c, r * c), "Value")
                     \o Tagged(Slice(k.path, (r - 1) * e, r * e), "Path")
           next == [z \in (1..n) \X T |-> ZStep(k, c, e, z[1], z[2])]
<1>1. K \in Nat /\ W \in Nat /\ k.path \in Seq(Byte) /\ k.value \in Seq(Byte)
  BY KeyFacts
<1>2. c \in Nat /\ e \in Nat
  BY <1>1, CeilDivFacts
<1>3. n \in Nat
  BY <1>1 DEF Bound
<1> HIDE DEF c, e, n
<1>4. \A r \in 1..n, u \in T : ZStep(k, c, e, r, u) \in T
  <2> TAKE r \in 1..n, u \in T
  <2> DEFINE v == Bound((r - 1) * c, W)
             v2 == Bound(r * c, W)
             p == Bound((r - 1) * e, K)
             p2 == Bound(r * e, K)
             s == Segment(k.value, v, v2, "Value")
             t == Segment(k.path, p, p2, "Path")
  <2>1. r \in Nat /\ r > 0
    BY <1>3
  <2>2. v \in Nat /\ v2 \in Nat /\ v <= v2 /\ v2 <= W
    BY <1>1, <1>2, <2>1, RunFacts
  <2>3. p \in Nat /\ p2 \in Nat /\ p <= p2 /\ p2 <= K
    BY <1>1, <1>2, <2>1, RunFacts
  <2>4. ZStep(k, c, e, r, u) = (u \o s) \o t
    BY DEF ZStep
  <2> HIDE DEF v, v2, p, p2
  <2>5. "Path" \in Dimension /\ "Value" \in Dimension
    BY DEF Dimension
  <2>6. s \in T /\ t \in T
    BY <1>1, <2>2, <2>3, <2>5, SegmentFacts
  <2> HIDE DEF s, t
  <2>7. u \o s \in T
    BY <2>6, Concatenation
  <2>8. (u \o s) \o t \in T
    BY <2>6, <2>7, Concatenation
  <2> QED  BY <2>4, <2>8
<1>5. \A g : \A r \in 1..n :
        g[r - 1] \o Tagged(Slice(k.value, (r - 1) * c, r * c), "Value")
                 \o Tagged(Slice(k.path, (r - 1) * e, r * e), "Path")
          = ZStep(k, c, e, r, g[r - 1])
  BY DEF ZStep, Segment, Slice
<1> HIDE DEF T
<1>6. <<>> \in T
  BY DEF T
<1>7. PICK f \in [0..n -> T] : f[0] = <<>> /\ \A i \in 1..n : f[i] = next[<<i, f[i - 1]>>]
  <2>1. StaysIn(next, n, T)
    BY <1>4 DEF StaysIn
  <2> HIDE DEF next
  <2> QED  BY <1>3, <1>6, <2>1, Recursion
<1>8. \A i \in 1..n : f[i] = ZStep(k, c, e, i, f[i - 1])
  <2> TAKE i \in 1..n
  <2>1. i - 1 \in 0..n
    BY <1>3
  <2>2. <<i, f[i - 1]>> \in (1..n) \X T
    BY <2>1
  <2> QED  BY <1>7, <2>2
<1>9. f = Body(f)
  <2>1. \A r \in 0..n : r = 0 \/ r \in 1..n
    BY <1>3
  <2>2. \A r \in 0..n : f[r] = Body(f)[r]
    BY <1>5, <1>7, <1>8, <2>1
  <2>3. DOMAIN f = 0..n /\ f = [r \in 0..n |-> f[r]]
    BY <1>7
  <2>4. Body(f) = [r \in 0..n |-> Body(f)[r]]
    OBVIOUS
  <2> HIDE DEF Body
  <2> QED  BY <2>2, <2>3, <2>4
<1>10. Rounds = Body(Rounds)
  <2>1. \E g : g = Body(g)
    BY <1>9
  <2> QED  BY <2>1
<1> HIDE DEF Rounds
<1>11. Rounds[0] = <<>> /\ \A r \in 1..n : Rounds[r] = ZStep(k, c, e, r, Rounds[r - 1])
  <2>1. \A r \in 1..n : r \in 0..n /\ r # 0
    BY <1>3
  <2>2. 0 \in 0..n
    BY <1>3
  <2>3. Rounds[0] = <<>>
    BY <1>10, <2>2
  <2>4. \A r \in 1..n : Rounds[r] = Rounds[r - 1]
                 \o Tagged(Slice(k.value, (r - 1) * c, r * c), "Value")
                 \o Tagged(Slice(k.path, (r - 1) * e, r * e), "Path")
    BY <1>10, <2>1
  <2> QED  BY <1>5, <2>3, <2>4
<1>12. ZOrder(k) = Rounds[n]
  BY DEF ZOrder, Rounds, c, e, n
<1>13. ZRuns(k, n, Rounds)
  BY <1>11, <1>12 DEF ZRuns, c, e, n
<1> QED  BY <1>13 DEF n

LEMMA ZOrderMerges ==
  ASSUME NEW k \in Key, Len(k.path) > 0, Len(k.value) > 0
  PROVE  Merges(ZOrder(k), k)
<1> DEFINE K == Len(k.path)
           W == Len(k.value)
           c == CeilDiv(W, K)
           e == CeilDiv(K, W)
           n == Bound(K, W)
<1>1. K \in Nat /\ W \in Nat /\ K > 0 /\ W > 0
  BY KeyFacts
<1>2. c \in Nat /\ e \in Nat /\ c > 0 /\ e > 0 /\ W <= K * c /\ K <= W * e
  <2> HIDE DEF K, W
  <2>1. c \in Nat /\ c > 0 /\ W <= K * c
    BY <1>1, CeilDivFacts
  <2>2. e \in Nat /\ e > 0 /\ K <= W * e
    BY <1>1, CeilDivFacts
  <2> QED  BY <2>1, <2>2
<1>3. PICK f : ZRuns(k, n, f)
  BY ZOrderRuns
<1>4. /\ f[0] = <<>> /\ \A i \in 1..n : f[i] = ZStep(k, c, e, i, f[i - 1])
      /\ ZOrder(k) = f[n]
  BY <1>3 DEF ZRuns
<1>5. n \in Nat /\ (n = K \/ n = W)
  BY <1>1 DEF Bound
<1> HIDE DEF c, e, n, K, W
<1> DEFINE S == {m \in Nat : m <= n => MergeOf(f[m], k, Bound(m * e, K), Bound(m * c, W))}
<1>6. 0 \in S
  <2>1. 0 * e = 0 /\ 0 * c = 0
    BY <1>2
  <2>2. Bound(0, K) = 0 /\ Bound(0, W) = 0
    BY <1>1 DEF Bound
  <2>3. MergeOf(f[0], k, 0, 0)
    BY <1>4, NothingMerged
  <2> QED  BY <2>1, <2>2, <2>3
<1>7. ASSUME NEW m \in Nat, m \in S  PROVE m + 1 \in S
  <2> SUFFICES ASSUME m + 1 <= n
               PROVE  MergeOf(f[m + 1], k, Bound((m + 1) * e, K), Bound((m + 1) * c, W))
    OBVIOUS
  <2> DEFINE r == m + 1
  <2>1. r \in Nat /\ r > 0 /\ r \in 1..n /\ r - 1 = m
    BY <1>5
  <2>2. MergeOf(f[m], k, Bound(m * e, K), Bound(m * c, W))
    BY <1>5, <1>7
  <2> HIDE DEF r
  <2>3. MergeOf(f[r - 1], k, Bound((r - 1) * e, K), Bound((r - 1) * c, W))
    BY <2>1, <2>2
  <2>4. MergeOf(ZStep(k, c, e, r, f[r - 1]), k, Bound(r * e, K), Bound(r * c, W))
    BY <1>2, <2>1, <2>3, ZStepMerges DEF K, W
  <2>5. f[r] = ZStep(k, c, e, r, f[r - 1])
    BY <1>4, <2>1
  <2> QED  BY <2>4, <2>5 DEF r
<1>8. MergeOf(f[n], k, Bound(n * e, K), Bound(n * c, W))
  <2> HIDE DEF S
  <2>1. n \in S
    BY <1>5, <1>6, <1>7, Induction
  <2> QED  BY <1>5, <2>1 DEF S
<1>9. K <= n * e /\ W <= n * c /\ n * e \in Nat /\ n * c \in Nat
  <2>1. K <= K * e /\ W <= W * c
    BY <1>1, <1>2
  <2> QED  BY <1>1, <1>2, <1>5, <2>1
<1>10. Bound(n * e, K) = K /\ Bound(n * c, W) = W
  <2> DEFINE x == n * e
             y == n * c
  <2>1. K <= x /\ W <= y /\ x \in Nat /\ y \in Nat
    BY <1>9
  <2> HIDE DEF x, y
  <2>2. Bound(x, K) = K /\ Bound(y, W) = W
    BY <1>1, <2>1 DEF Bound
  <2> QED  BY <2>2 DEF x, y
<1> QED  BY <1>4, <1>8, <1>10 DEF Merges, K, W

\* Two sequences of bytes in the same dimensions.
SameDims(u, w) ==
  /\ u \in Seq(TaggedByte) /\ w \in Seq(TaggedByte) /\ Len(u) = Len(w)
  /\ \A i \in 1..Len(u) : u[i].dimension = w[i].dimension

LEMMA SameDimsExtend ==
  ASSUME NEW u, NEW w, SameDims(u, w), NEW s \in Seq(Byte), NEW t \in Seq(Byte), Len(s) = Len(t),
         NEW d \in Dimension, NEW n \in Nat, NEW m \in Nat, n <= m, m <= Len(s)
  PROVE  SameDims(u \o Segment(s, n, m, d), w \o Segment(t, n, m, d))
<1> DEFINE x == Segment(s, n, m, d)
           y == Segment(t, n, m, d)
           L == Len(u)
           M == m - n
           a == u \o x
           b == w \o y
<1>1. u \in Seq(TaggedByte) /\ w \in Seq(TaggedByte) /\ L \in Nat /\ Len(w) = L
  BY DEF SameDims
<1>2. /\ x \in Seq(TaggedByte) /\ Len(x) = M /\ M \in Nat
      /\ \A i \in 1..M : x[i].dimension = d
  <2>1. x \in Seq(TaggedByte)
    BY SegmentFacts
  <2>2. Len(x) = m - n /\ m - n \in Nat
    BY SegmentFacts
  <2>3. \A i \in 1..(m - n) : x[i].dimension = d
    BY SegmentFacts
  <2> HIDE DEF x
  <2> QED  BY <2>1, <2>2, <2>3
<1>3. /\ y \in Seq(TaggedByte) /\ Len(y) = M
      /\ \A i \in 1..M : y[i].dimension = d
  <2>0. m <= Len(t)
    OBVIOUS
  <2>1. y \in Seq(TaggedByte)
    BY <2>0, SegmentFacts
  <2>2. Len(y) = m - n
    BY <2>0, SegmentFacts
  <2>3. \A i \in 1..(m - n) : y[i].dimension = d
    BY <2>0, SegmentFacts
  <2> HIDE DEF y
  <2> QED  BY <2>1, <2>2, <2>3
<1> HIDE DEF x, y, M
<1>4. /\ a \in Seq(TaggedByte) /\ Len(a) = L + M /\ \A i \in 1..L : a[i] = u[i]
      /\ \A i \in 1..M : a[L + i] = x[i]
  <2>1. u \in Seq(TaggedByte) /\ x \in Seq(TaggedByte)
    BY <1>1, <1>2
  <2>2. /\ a \in Seq(TaggedByte) /\ Len(a) = Len(u) + Len(x) /\ \A i \in 1..Len(u) : a[i] = u[i]
        /\ \A i \in 1..Len(x) : a[Len(u) + i] = x[i]
    BY <2>1, Concatenation
  <2> HIDE DEF a
  <2> QED  BY <1>2, <2>2
<1>5. /\ b \in Seq(TaggedByte) /\ Len(b) = L + M /\ \A i \in 1..L : b[i] = w[i]
      /\ \A i \in 1..M : b[L + i] = y[i]
  <2>1. /\ b \in Seq(TaggedByte) /\ Len(b) = Len(w) + Len(y) /\ \A i \in 1..Len(w) : b[i] = w[i]
        /\ \A i \in 1..Len(y) : b[Len(w) + i] = y[i]
    <3>1. w \in Seq(TaggedByte) /\ y \in Seq(TaggedByte)
      BY <1>1, <1>3
    <3> QED  BY <3>1, Concatenation
  <2> HIDE DEF b, L
  <2> QED  BY <1>1, <1>3, <2>1
<1>6. \A i \in 1..L : u[i].dimension = w[i].dimension
  BY DEF SameDims
<1> HIDE DEF a, b, L
<1>7. \A i \in 1..Len(a) : a[i].dimension = b[i].dimension
  <2> TAKE i \in 1..Len(a)
  <2>1. i \in 1..L \/ (i - L \in 1..M /\ i = L + (i - L))
    BY <1>1, <1>2, <1>4
  <2>2. CASE i \in 1..L
    BY <1>4, <1>5, <1>6, <2>2
  <2>3. CASE i - L \in 1..M /\ i = L + (i - L)
    <3> DEFINE j == i - L
    <3>1. j \in 1..M /\ i = L + j
      BY <2>3
    <3> HIDE DEF j
    <3> QED  BY <1>2, <1>3, <1>4, <1>5, <3>1
  <2> QED  BY <2>1, <2>2, <2>3
<1>8. SameDims(a, b)
  BY <1>4, <1>5, <1>7 DEF SameDims
<1> QED  BY <1>8 DEF a, b, x, y

\* The z-orders of keys of the same sizes have the same dimensions.
LEMMA ZOrderSame ==
  ASSUME NEW k \in Key, NEW l \in Key, Len(k.path) > 0, Len(k.value) > 0,
         Len(k.path) = Len(l.path), Len(k.value) = Len(l.value)
  PROVE  SameDims(ZOrder(k), ZOrder(l))
<1> DEFINE K == Len(k.path)
           W == Len(k.value)
           c == CeilDiv(W, K)
           e == CeilDiv(K, W)
           n == Bound(K, W)
<1>1. /\ K \in Nat /\ W \in Nat /\ K > 0 /\ W > 0
      /\ k.path \in Seq(Byte) /\ k.value \in Seq(Byte) /\ l.path \in Seq(Byte) /\ l.value \in Seq(Byte)
  BY KeyFacts
<1>2. c \in Nat /\ e \in Nat
  <2> HIDE DEF K, W
  <2> QED  BY <1>1, CeilDivFacts
<1>3. PICK f : ZRuns(k, n, f)
  BY ZOrderRuns
<1>4. PICK g : ZRuns(l, n, g)
  BY ZOrderRuns
<1>5. /\ f[0] = <<>> /\ \A i \in 1..n : f[i] = ZStep(k, c, e, i, f[i - 1])
      /\ ZOrder(k) = f[n]
  BY <1>3 DEF ZRuns
<1>6. /\ g[0] = <<>> /\ \A i \in 1..n : g[i] = ZStep(l, c, e, i, g[i - 1])
      /\ ZOrder(l) = g[n]
  BY <1>4 DEF ZRuns
<1>7. n \in Nat
  BY <1>1 DEF Bound
<1>8. Len(k.path) = K /\ Len(l.path) = K /\ Len(k.value) = W /\ Len(l.value) = W
  OBVIOUS
<1> HIDE DEF c, e, n, K, W
<1> DEFINE S == {m \in Nat : m <= n => SameDims(f[m], g[m])}
<1>9. 0 \in S
  <2>1. SameDims(<<>>, <<>>)
    BY DEF SameDims
  <2> QED  BY <1>5, <1>6, <2>1
<1>10. ASSUME NEW m \in Nat, m \in S  PROVE m + 1 \in S
  <2> SUFFICES ASSUME m + 1 <= n  PROVE SameDims(f[m + 1], g[m + 1])
    OBVIOUS
  <2> DEFINE r == m + 1
             v == Bound((r - 1) * c, W)
             v2 == Bound(r * c, W)
             p == Bound((r - 1) * e, K)
             p2 == Bound(r * e, K)
             a == f[r - 1] \o Segment(k.value, v, v2, "Value")
             b == g[r - 1] \o Segment(l.value, v, v2, "Value")
  <2>1. r \in Nat /\ r > 0 /\ r \in 1..n /\ r - 1 = m
    BY <1>7
  <2>2. SameDims(f[m], g[m])
    BY <1>7, <1>10
  <2> HIDE DEF r
  <2>3. v \in Nat /\ v2 \in Nat /\ v <= v2 /\ v2 <= W
    BY <1>1, <1>2, <2>1, RunFacts
  <2>4. p \in Nat /\ p2 \in Nat /\ p <= p2 /\ p2 <= K
    BY <1>1, <1>2, <2>1, RunFacts
  <2>5. /\ f[r] = a \o Segment(k.path, p, p2, "Path")
        /\ g[r] = b \o Segment(l.path, p, p2, "Path")
    BY <1>5, <1>6, <1>8, <2>1 DEF ZStep
  <2> HIDE DEF v, v2, p, p2
  <2>6. "Path" \in Dimension /\ "Value" \in Dimension
    BY DEF Dimension
  <2>7. SameDims(f[r - 1], g[r - 1])
    BY <2>1, <2>2
  <2>8. SameDims(a, b)
    <3>1. v2 <= Len(k.value) /\ Len(k.value) = Len(l.value)
      BY <1>8, <2>3
    <3> QED  BY <1>1, <2>3, <2>6, <2>7, <3>1, SameDimsExtend
  <2> HIDE DEF a, b
  <2>9. SameDims(f[r], g[r])
    <3>1. p2 <= Len(k.path) /\ Len(k.path) = Len(l.path)
      BY <1>8, <2>4
    <3> QED  BY <1>1, <2>4, <2>5, <2>6, <2>8, <3>1, SameDimsExtend
  <2> QED  BY <2>9 DEF r
<1>11. n \in S
  <2> HIDE DEF S
  <2> QED  BY <1>7, <1>9, <1>10, Induction
<1> QED  BY <1>5, <1>6, <1>7, <1>11

-----------------------------------------------------------------------------
(* Rounds of path labels.                                                   *)

LEMMA LabelEndFacts ==
  ASSUME NEW s \in Seq(Byte), NEW p \in Nat, p <= Len(s)
  PROVE  /\ LabelEnd(s, p) \in Nat /\ p <= LabelEnd(s, p) /\ LabelEnd(s, p) <= Len(s)
         /\ p < Len(s) => p + 1 <= LabelEnd(s, p)
<1> DEFINE L == Len(s)
           seps == {e \in (p + 2)..L : s[e] = kPathSep}
<1>1. L \in Nat /\ p <= L
  OBVIOUS
<1>2. LabelEnd(s, p) = IF p >= L \/ seps = {} THEN L
                       ELSE CHOOSE e \in seps : \A f \in seps : e <= f
  BY DEF LabelEnd
<1>3. seps \in SUBSET Nat /\ seps \subseteq (p + 2)..L
  <2> HIDE DEF L
  <2> QED  BY <1>1
<1> HIDE DEF seps, L
<1>4. CASE p >= L \/ seps = {}
  BY <1>1, <1>2, <1>4 DEF L
<1>5. CASE ~(p >= L \/ seps = {})
  <2>1. Least(seps) \in seps
    BY <1>3, <1>5, LeastIsLeast
  <2>2. LabelEnd(s, p) = Least(seps)
    BY <1>2, <1>5 DEF Least
  <2>3. LabelEnd(s, p) \in (p + 2)..L
    BY <1>3, <2>1, <2>2
  <2> DEFINE x == LabelEnd(s, p)
  <2> HIDE DEF x
  <2>4. x \in Nat /\ p + 2 <= x /\ x <= L
    BY <1>1, <2>3 DEF x
  <2>5. x \in Nat /\ p <= x /\ x <= L /\ p + 1 <= x
    BY <1>1, <2>4
  <2> QED  BY <2>5 DEF x, L
<1> QED  BY <1>4, <1>5

\* A label that ends where two paths agree ends there in both.
LEMMA LabelEndSame ==
  ASSUME PrefixFree, NEW s \in Paths, NEW t \in Paths, NEW P \in Nat, P <= Len(s), P <= Len(t),
         \A i \in 1..P : s[i] = t[i], NEW p \in Nat, p <= P, LabelEnd(s, p) <= P
  PROVE  LabelEnd(t, p) = LabelEnd(s, p)
<1> DEFINE L == Len(s)
           M == Len(t)
           A == {e \in (p + 2)..L : s[e] = kPathSep}
           B == {e \in (p + 2)..M : t[e] = kPathSep}
           x == LabelEnd(s, p)
<1>1. s \in Seq(Byte) /\ t \in Seq(Byte)
  BY KeyAssumption
<1>2. L \in Nat /\ M \in Nat /\ P <= L /\ P <= M
  BY <1>1
<1>3. /\ LabelEnd(s, p) = IF p >= L \/ A = {} THEN L
                          ELSE CHOOSE e \in A : \A f \in A : e <= f
      /\ LabelEnd(t, p) = IF p >= M \/ B = {} THEN M
                          ELSE CHOOSE e \in B : \A f \in B : e <= f
  BY DEF LabelEnd
<1>4. x <= P
  OBVIOUS
<1>5. L <= P => s = t
  <2> SUFFICES ASSUME L <= P  PROVE s = t
    OBVIOUS
  <2>1. Len(s) <= Len(t) /\ \A i \in 1..Len(s) : s[i] = t[i]
    <3>1. L = P /\ L <= M
      BY <1>2
    <3> QED  BY <3>1
  <2> QED  BY <2>1 DEF PrefixFree, PrefixFreeSet
<1>6. A \in SUBSET Nat /\ B \in SUBSET Nat /\ A \subseteq (p + 2)..L /\ B \subseteq (p + 2)..M
      /\ (\A e \in (p + 2)..L : s[e] = kPathSep => e \in A)
      /\ (\A e \in A : s[e] = kPathSep)
      /\ (\A e \in (p + 2)..M : t[e] = kPathSep => e \in B)
      /\ (\A e \in B : t[e] = kPathSep)
  <2> HIDE DEF L, M
  <2> QED  BY <1>2
<1> HIDE DEF A, B, L, M, x
<1>7. CASE p >= L \/ A = {}
  <2>1. x = L
    BY <1>3, <1>7 DEF x
  <2>2. s = t
    BY <1>4, <1>5, <2>1
  <2> QED  BY <2>2
<1>8. CASE ~(p >= L \/ A = {})
  <2>1. x = Least(A)
    BY <1>3, <1>8 DEF Least, x
  <2>2. x \in A /\ \A f \in A : x <= f
    BY <1>6, <1>8, <2>1, LeastIsLeast
  <2>3. x \in Nat /\ p + 2 <= x /\ x <= P
    BY <1>2, <1>4, <1>6, <2>2
  <2>4. t[x] = kPathSep
    <3>1. x \in 1..P
      BY <2>3
    <3> QED  BY <1>6, <2>2, <3>1
  <2>5. x \in (p + 2)..M
    BY <1>2, <2>3
  <2>6. x \in B
    BY <1>6, <2>4, <2>5
  <2>7. \A f \in B : x <= f
    <3> SUFFICES ASSUME NEW f \in B, f < x  PROVE FALSE
      <4>1. \A f \in B : f \in Nat
        BY <1>6
      <4> QED  BY <2>3, <4>1
    <3>1. f \in Nat /\ p + 2 <= f /\ f <= P /\ f <= L
      BY <1>2, <1>6, <2>3
    <3>2. f \in 1..P /\ f \in (p + 2)..L
      BY <1>2, <3>1
    <3>3. s[f] = kPathSep
      BY <1>6, <3>2
    <3>4. x <= f
      BY <1>6, <2>2, <3>2, <3>3
    <3> QED  BY <2>3, <3>1, <3>4
  <2>8. \A y \in B : (\A f \in B : y <= f) => y = x
    <3>1. \A y \in B : y \in Nat
      BY <1>6
    <3> QED  BY <2>3, <2>6, <2>7, <3>1
  <2>9. ~(p >= M)
    BY <1>2, <2>3
  <2>10. LabelEnd(t, p) = x
    BY <1>3, <2>6, <2>7, <2>8, <2>9
  <2> QED  BY <2>10 DEF x
<1> QED  BY <1>7, <1>8

KeySize(k) == Len(k.path) + Len(k.value)

\* E are the ends of the labels of k.
LabelEnds(k, E) ==
  /\ E[0] = 0
  /\ \A r \in 1..(Len(k.path) + Len(k.value)) : E[r] = LabelEnd(k.path, E[r - 1])

LEMMA EndsFacts ==
  ASSUME NEW k \in Key, NEW E, LabelEnds(k, E)
  PROVE  /\ \A r \in 0..(Len(k.path) + Len(k.value)) : E[r] \in Nat /\ E[r] <= Len(k.path)
         /\ \A r \in 1..(Len(k.path) + Len(k.value)) : E[r - 1] <= E[r]
         /\ E[Len(k.path) + Len(k.value)] = Len(k.path)
<1> DEFINE K == Len(k.path)
           W == Len(k.value)
           R == K + W
           S == {r \in Nat : r <= R => E[r] \in Nat /\ E[r] <= K /\ Bound(r, K) <= E[r]}
<1>1. K \in Nat /\ W \in Nat /\ R \in Nat /\ k.path \in Seq(Byte) /\ K <= R
  <2>1. K \in Nat /\ W \in Nat /\ k.path \in Seq(Byte)
    BY KeyFacts
  <2> HIDE DEF K, W
  <2> QED  BY <2>1
<1>2. E[0] = 0 /\ \A r \in 1..R : E[r] = LabelEnd(k.path, E[r - 1])
  BY DEF LabelEnds
<1>3. \A p \in Nat : p <= K => /\ LabelEnd(k.path, p) \in Nat /\ p <= LabelEnd(k.path, p)
                               /\ LabelEnd(k.path, p) <= K
                               /\ p < K => p + 1 <= LabelEnd(k.path, p)
  BY <1>1, LabelEndFacts
<1> HIDE DEF K, W, R
<1>4. 0 \in S
  BY <1>1, <1>2 DEF Bound
<1>5. ASSUME NEW r \in Nat, r \in S  PROVE r + 1 \in S
  <2> SUFFICES ASSUME r + 1 <= R
               PROVE  E[r + 1] \in Nat /\ E[r + 1] <= K /\ Bound(r + 1, K) <= E[r + 1]
    OBVIOUS
  <2> DEFINE p == E[r]
             q == E[r + 1]
  <2>1. r + 1 \in 1..R /\ (r + 1) - 1 = r /\ r <= R
    BY <1>1
  <2>2. p \in Nat /\ p <= K /\ Bound(r, K) <= p
    BY <1>5, <2>1
  <2>3. q = LabelEnd(k.path, p)
    BY <1>2, <2>1
  <2> HIDE DEF p, q
  <2>4. q \in Nat /\ p <= q /\ q <= K /\ (p < K => p + 1 <= q)
    BY <1>3, <2>2, <2>3
  <2>5. Bound(r + 1, K) <= q
    BY <1>1, <2>2, <2>4 DEF Bound
  <2> QED  BY <2>4, <2>5 DEF q
<1>6. Nat \subseteq S
  <2> HIDE DEF S
  <2> QED  BY <1>4, <1>5, Induction
<1>7. \A r \in 0..R : E[r] \in Nat /\ E[r] <= K /\ Bound(r, K) <= E[r]
  <2>1. \A r \in 0..R : r \in Nat /\ r <= R
    BY <1>1
  <2> QED  BY <1>6, <2>1
<1>8. \A r \in 1..R : E[r - 1] <= E[r]
  <2> TAKE r \in 1..R
  <2>1. r - 1 \in 0..R
    BY <1>1
  <2>2. E[r - 1] \in Nat /\ E[r - 1] <= K
    BY <1>7, <2>1
  <2> QED  BY <1>2, <1>3, <2>2
<1>9. E[R] = K
  <2>1. R \in 0..R /\ Bound(R, K) = K
    BY <1>1 DEF Bound
  <2>2. E[R] \in Nat /\ E[R] <= K /\ K <= E[R]
    BY <1>7, <2>1
  <2> QED  BY <1>1, <2>2
<1> QED  BY <1>7, <1>8, <1>9 DEF R, K, W

LEMMA EndsSame ==
  ASSUME PrefixFree, NEW k \in Key, NEW l \in Key, NEW E, NEW F, LabelEnds(k, E), LabelEnds(l, F),
         NEW P \in Nat, NEW V, Agree(k, l, P, V), NEW n \in Nat, E[n] <= P,
         n <= KeySize(k), n <= KeySize(l)
  PROVE  F[n] = E[n]
<1> DEFINE NK == Len(k.path) + Len(k.value)
           NL == Len(l.path) + Len(l.value)
           S == {r \in Nat : r <= n => E[r] <= P /\ F[r] = E[r]}
           T == {r \in Nat : r <= n => E[n - r] <= P}
<1>1. NK \in Nat /\ NL \in Nat /\ n <= NK /\ n <= NL
  <2>1. /\ Len(k.path) \in Nat /\ Len(k.value) \in Nat
        /\ Len(l.path) \in Nat /\ Len(l.value) \in Nat
    BY KeyFacts
  <2>2. n <= NK /\ n <= NL
    BY DEF KeySize
  <2> DEFINE a == Len(k.path)
             b == Len(k.value)
             c == Len(l.path)
             d == Len(l.value)
  <2>4. a \in Nat /\ b \in Nat /\ c \in Nat /\ d \in Nat
    BY <2>1
  <2> HIDE DEF a, b, c, d
  <2>5. a + b \in Nat /\ c + d \in Nat
    BY <2>4
  <2>3. NK \in Nat /\ NL \in Nat
    BY <2>5 DEF a, b, c, d
  <2> QED  BY <2>2, <2>3
<1>2. /\ \A r \in 0..NK : E[r] \in Nat
      /\ \A r \in 1..NK : E[r - 1] <= E[r]
  BY EndsFacts
<1>3. /\ E[0] = 0 /\ \A r \in 1..NK : E[r] = LabelEnd(k.path, E[r - 1])
      /\ F[0] = 0 /\ \A r \in 1..NL : F[r] = LabelEnd(l.path, F[r - 1])
  BY DEF LabelEnds
<1>4. /\ k.path \in Paths /\ l.path \in Paths /\ P <= Len(k.path) /\ P <= Len(l.path)
      /\ \A i \in 1..P : k.path[i] = l.path[i]
  BY KeyFacts DEF Agree
<1> HIDE DEF NK, NL
<1>5. \A r \in 0..n : E[r] \in Nat /\ E[r] <= P
  <2>1. 0 \in T
    OBVIOUS
  <2>2. ASSUME NEW r \in Nat, r \in T  PROVE r + 1 \in T
    <3> SUFFICES ASSUME r + 1 <= n  PROVE E[n - (r + 1)] <= P
      OBVIOUS
    <3> DEFINE m == n - r
    <3>1. m \in 1..NK /\ m \in 0..NK /\ m - 1 \in 0..NK /\ n - (r + 1) = m - 1
      BY <1>1
    <3>2. E[m] <= P
      BY <2>2
    <3> HIDE DEF m
    <3>3. E[m - 1] \in Nat /\ E[m] \in Nat /\ E[m - 1] <= E[m]
      BY <1>2, <3>1
    <3>4. E[m - 1] <= P
      BY <3>2, <3>3
    <3> QED  BY <3>1, <3>4
  <2>3. Nat \subseteq T
    <3> HIDE DEF T
    <3> QED  BY <2>1, <2>2, Induction
  <2> TAKE r \in 0..n
  <2>4. n - r \in Nat /\ n - r <= n /\ n - (n - r) = r /\ r \in 0..NK
    BY <1>1
  <2>5. n - r \in T
    BY <2>3, <2>4
  <2>6. E[n - (n - r)] <= P
    BY <2>4, <2>5
  <2> QED  BY <1>2, <2>4, <2>6
<1>6. 0 \in S
  BY <1>3
<1>7. ASSUME NEW r \in Nat, r \in S  PROVE r + 1 \in S
  <2> SUFFICES ASSUME r + 1 <= n  PROVE E[r + 1] <= P /\ F[r + 1] = E[r + 1]
    OBVIOUS
  <2>1. r + 1 \in 1..NK /\ r + 1 \in 1..NL /\ (r + 1) - 1 = r /\ r \in 0..n /\ r + 1 \in 0..n
    BY <1>1
  <2>2. F[r] = E[r] /\ E[r] \in Nat /\ E[r] <= P /\ E[r + 1] <= P
    BY <1>5, <1>7, <2>1
  <2>3. E[r + 1] = LabelEnd(k.path, E[r]) /\ F[r + 1] = LabelEnd(l.path, F[r])
    BY <1>3, <2>1
  <2> DEFINE p == E[r]
  <2>4. p \in Nat /\ p <= P /\ LabelEnd(k.path, p) <= P
    BY <2>2, <2>3
  <2> HIDE DEF p
  <2>5. LabelEnd(l.path, p) = LabelEnd(k.path, p)
    BY <1>4, <2>4, LabelEndSame
  <2> QED  BY <2>2, <2>3, <2>5 DEF p
<1>8. n \in S
  <2> HIDE DEF S
  <2> QED  BY <1>6, <1>7, Induction
<1> QED  BY <1>8

LabelRuns(k, E, f) ==
  LET n == Len(k.path) + Len(k.value) IN
  /\ LabelEnds(k, E) /\ f[0] = <<>>
  /\ \A r \in 1..n :
       f[r] = f[r - 1] \o Segment(k.path, E[r - 1], E[r], "Path")
                       \o Segment(k.value, Bound(r - 1, Len(k.value)), Bound(r, Len(k.value)), "Value")
  /\ LabelWise(k) = f[n]

LEMMA LabelWiseRuns ==
  ASSUME NEW k \in Key
  PROVE  \E E, f : LabelRuns(k, E, f)
<1> DEFINE K == Len(k.path)
           W == Len(k.value)
           n == K + W
           T == Seq(TaggedByte)
           BodyE(g) == [r \in 0..n |-> IF r = 0 THEN 0 ELSE LabelEnd(k.path, g[r - 1])]
           Ends[r \in 0..n] == IF r = 0 THEN 0 ELSE LabelEnd(k.path, Ends[r - 1])
           nextE == [z \in (1..n) \X (0..K) |-> LabelEnd(k.path, z[2])]
           Add(r, u) == u \o Tagged(SubSeq(k.path, Ends[r - 1] + 1, Ends[r]), "Path")
                          \o Tagged(Slice(k.value, r - 1, r), "Value")
           Body(g) == [r \in 0..n |-> IF r = 0 THEN <<>> ELSE Add(r, g[r - 1])]
           Rounds[r \in 0..n] == IF r = 0 THEN <<>>
              ELSE Rounds[r - 1] \o Tagged(SubSeq(k.path, Ends[r - 1] + 1, Ends[r]), "Path")
                                 \o Tagged(Slice(k.value, r - 1, r), "Value")
           next == [z \in (1..n) \X T |-> Add(z[1], z[2])]
<1>1. K \in Nat /\ W \in Nat /\ n \in Nat /\ k.path \in Seq(Byte) /\ k.value \in Seq(Byte)
  <2>1. K \in Nat /\ W \in Nat /\ k.path \in Seq(Byte) /\ k.value \in Seq(Byte)
    BY KeyFacts
  <2> HIDE DEF K, W
  <2> QED  BY <2>1
<1>2. LabelWise(k) = Rounds[n]
  BY DEF LabelWise
<1>3. \A p \in 0..K : LabelEnd(k.path, p) \in 0..K /\ p <= LabelEnd(k.path, p)
  <2> TAKE p \in 0..K
  <2>1. p \in Nat /\ p <= Len(k.path)
    BY <1>1
  <2> DEFINE q == LabelEnd(k.path, p)
  <2>2. q \in Nat /\ p <= q /\ q <= K
    BY <1>1, <2>1, LabelEndFacts
  <2> HIDE DEF q, K
  <2>3. q \in 0..K /\ p <= q
    BY <1>1, <2>2
  <2> QED  BY <2>3 DEF q
<1> HIDE DEF K, W, n
<1>4. \A r \in 0..n : r = 0 \/ (r \in 1..n /\ r - 1 \in 0..n /\ r # 0)
  BY <1>1
<1>5. \A r \in 1..n : r \in 0..n /\ r - 1 \in 0..n /\ r # 0
  BY <1>1
<1>6. 0 \in 0..n /\ 0 \in 0..K
  BY <1>1
<1>7. Ends = BodyE(Ends)
  <2>1. PICK f \in [0..n -> 0..K] : f[0] = 0 /\ \A i \in 1..n : f[i] = nextE[<<i, f[i - 1]>>]
    <3>1. StaysIn(nextE, n, 0..K)
      BY <1>3 DEF StaysIn
    <3> DEFINE R == 0..K
           a == 0
    <3>2. n \in Nat /\ a \in R
      BY <1>1, <1>6
    <3>4. StaysIn(nextE, n, R)
      BY <3>1
    <3> HIDE DEF nextE, R, a, T, BodyE, Ends, Add, Body, Rounds, next
    <3>3. \E f \in [0..n -> R] : f[0] = a /\ \A i \in 1..n : f[i] = nextE[<<i, f[i - 1]>>]
      BY <3>2, <3>4, Recursion
    <3> QED  BY <3>3 DEF R, a
  <2>2. \A i \in 1..n : f[i] = LabelEnd(k.path, f[i - 1])
    <3> TAKE i \in 1..n
    <3>1. <<i, f[i - 1]>> \in (1..n) \X (0..K)
      BY <1>5, <2>1
    <3> QED  BY <2>1, <3>1
  <2>3. f = BodyE(f)
    BY <1>4, <2>1, <2>2
  <2>4. \E g : g = BodyE(g)
    BY <2>3
  <2> QED  BY <2>4
<1>8. Ends[0] = 0 /\ \A r \in 1..n : Ends[r] = LabelEnd(k.path, Ends[r - 1])
  <2> HIDE DEF Ends
  <2> QED  BY <1>5, <1>6, <1>7
<1> HIDE DEF Ends
<1>9. LabelEnds(k, Ends)
  BY <1>8 DEF LabelEnds, n, K, W
<1>10. /\ \A r \in 0..n : Ends[r] \in Nat /\ Ends[r] <= K
       /\ \A r \in 1..n : Ends[r - 1] <= Ends[r]
  BY <1>9, EndsFacts DEF n, K, W
<1>11. \A r \in 1..n, u \in T : Add(r, u) \in T
  <2> TAKE r \in 1..n, u \in T
  <2> DEFINE v == Bound(r - 1, W)
             v2 == Bound(r, W)
             p == Ends[r - 1]
             p2 == Ends[r]
             s == Segment(k.path, p, p2, "Path")
             t == Segment(k.value, v, v2, "Value")
  <2>1. v \in Nat /\ v2 \in Nat /\ v <= v2 /\ v2 <= W
    BY <1>1 DEF Bound
  <2>2. p \in Nat /\ p2 \in Nat /\ p <= p2 /\ p2 <= K
    BY <1>5, <1>10
  <2>3. Add(r, u) = (u \o s) \o t
    BY DEF Segment, Slice, W
  <2> HIDE DEF v, v2, p, p2, Add
  <2>4. "Path" \in Dimension /\ "Value" \in Dimension
    BY DEF Dimension
  <2>5. s \in T
    BY <1>1, <2>2, <2>4, SegmentFacts DEF K
  <2>6. t \in T
    BY <1>1, <2>1, <2>4, SegmentFacts DEF W
  <2> HIDE DEF s, t
  <2>7. u \o s \in T
    BY <2>5, Concatenation
  <2>8. (u \o s) \o t \in T
    BY <2>6, <2>7, Concatenation
  <2> QED  BY <2>3, <2>8
<1> HIDE DEF T
<1>12. <<>> \in T
  BY DEF T
<1>13. Rounds = Body(Rounds)
  <2>1. PICK f \in [0..n -> T] : f[0] = <<>> /\ \A i \in 1..n : f[i] = next[<<i, f[i - 1]>>]
    <3>1. StaysIn(next, n, T)
      <4> HIDE DEF Add
      <4> QED  BY <1>11 DEF StaysIn
    <3> HIDE DEF next
    <3> QED  BY <1>1, <1>12, <3>1, Recursion
  <2>2. \A i \in 1..n : f[i] = Add(i, f[i - 1])
    <3> TAKE i \in 1..n
    <3>1. <<i, f[i - 1]>> \in (1..n) \X T
      BY <1>5, <2>1
    <3> HIDE DEF Add
    <3> QED  BY <2>1, <3>1
  <2>3. f = Body(f)
    <3> HIDE DEF Add
    <3>1. \A r \in 0..n : f[r] = IF r = 0 THEN <<>> ELSE Add(r, f[r - 1])
      BY <1>4, <2>1, <2>2
    <3> QED  BY <2>1, <3>1
  <2>4. \E g : g = Body(g)
    BY <2>3
  <2> QED  BY <2>4
<1>14. Rounds[0] = <<>> /\ \A r \in 1..n : Rounds[r] = Add(r, Rounds[r - 1])
  <2> HIDE DEF Rounds, Add
  <2> QED  BY <1>5, <1>6, <1>13
<1> HIDE DEF Rounds
<1>15. \A r \in 1..n : Rounds[r] = Rounds[r - 1] \o Segment(k.path, Ends[r - 1], Ends[r], "Path")
                       \o Segment(k.value, Bound(r - 1, W), Bound(r, W), "Value")
  BY <1>14 DEF Segment, Slice, W
<1>16. LabelRuns(k, Ends, Rounds)
  BY <1>2, <1>9, <1>14, <1>15 DEF LabelRuns, n, K, W
<1> QED  BY <1>16

\* The places from which the label-wise order goes on in the path.
LabelLeft(k, E) == {x \in Nat \X Nat : ~(x[2] < Len(k.value)) \/ x[1] < E[x[2] + 1]}

LEMMA LabelWiseMerges ==
  ASSUME NEW k \in Key, NEW E, NEW f, LabelRuns(k, E, f)
  PROVE  Merges(LabelWise(k), k) /\ Obeys(LabelWise(k), LabelLeft(k, E))
<1> DEFINE K == Len(k.path)
           W == Len(k.value)
           n == K + W
           G == LabelLeft(k, E)
<1>1. K \in Nat /\ W \in Nat /\ n \in Nat /\ k.path \in Seq(Byte) /\ k.value \in Seq(Byte) /\ W <= n
  <2>1. K \in Nat /\ W \in Nat /\ k.path \in Seq(Byte) /\ k.value \in Seq(Byte)
    BY KeyFacts
  <2> HIDE DEF K, W
  <2> QED  BY <2>1
<1>2. /\ LabelEnds(k, E) /\ f[0] = <<>> /\ LabelWise(k) = f[n]
      /\ \A r \in 1..n :
           f[r] = f[r - 1] \o Segment(k.path, E[r - 1], E[r], "Path")
                           \o Segment(k.value, Bound(r - 1, W), Bound(r, W), "Value")
  BY DEF LabelRuns
<1>3. /\ \A r \in 0..n : E[r] \in Nat /\ E[r] <= K
      /\ \A r \in 1..n : E[r - 1] <= E[r]
      /\ E[n] = K /\ E[0] = 0
  BY <1>2, EndsFacts DEF LabelEnds
<1>4. BytesOf(k, "Path") = k.path /\ BytesOf(k, "Value") = k.value
  BY DEF BytesOf
<1>5. "Path" \in Dimension /\ "Value" \in Dimension
  BY DEF Dimension
<1>6. \A x \in Nat, y \in Nat : <<x, y>> \in G <=> ~(y < W) \/ x < E[y + 1]
  BY DEF LabelLeft
<1>7. K <= Len(BytesOf(k, "Path")) /\ W <= Len(BytesOf(k, "Value"))
  BY <1>1, <1>4
<1> HIDE DEF K, W, n, G
<1> DEFINE S == {r \in Nat : r <= n => MergeOf(f[r], k, E[r], Bound(r, W)) /\ Obeys(f[r], G)}
<1>8. 0 \in S
  <2>1. Bound(0, W) = 0
    BY <1>1 DEF Bound
  <2>2. MergeOf(<<>>, k, 0, 0) /\ Obeys(<<>>, G)
    BY NothingMerged
  <2> QED  BY <1>2, <1>3, <2>1, <2>2
<1>9. ASSUME NEW m \in Nat, m \in S  PROVE m + 1 \in S
  <2> SUFFICES ASSUME m + 1 <= n
               PROVE  MergeOf(f[m + 1], k, E[m + 1], Bound(m + 1, W)) /\ Obeys(f[m + 1], G)
    OBVIOUS
  <2> DEFINE p == E[m]
             p2 == E[m + 1]
             v == Bound(m, W)
             v2 == Bound(m + 1, W)
             u == f[m]
             w == u \o Segment(k.path, p, p2, "Path")
             z == w \o Segment(k.value, v, v2, "Value")
  <2>1. m + 1 \in 1..n /\ m + 1 \in 0..n /\ m \in 0..n /\ (m + 1) - 1 = m
    BY <1>1
  <2>2. MergeOf(u, k, p, v) /\ Obeys(u, G)
    BY <1>9, <2>1
  <2>3. p \in Nat /\ p2 \in Nat /\ p <= p2 /\ p2 <= K
    BY <1>3, <2>1
  <2>4. /\ v \in Nat /\ v2 \in Nat /\ v <= v2 /\ v2 <= W
        /\ m < W => v = m /\ v2 = m + 1
        /\ ~(m < W) => v = W /\ v2 = W
    BY <1>1 DEF Bound
  <2>5. f[m + 1] = z
    BY <1>2, <2>1
  <2>6. \A x \in Nat, y \in Nat : y = m => (<<x, y>> \in G <=> ~(y < W) \/ x < p2)
    BY <1>6
  <2> HIDE DEF p, p2, v, v2, u
  <2>7. p2 <= Len(BytesOf(k, "Path")) /\ v2 <= Len(BytesOf(k, "Value"))
    BY <1>4, <2>3, <2>4 DEF K, W
  <2>8. p = TakenIn("Path", p, v) /\ v = TakenIn("Value", p2, v)
    BY DEF TakenIn
  <2>9. MergeOf(w, k, p2, v)
    <3>1. MergeOf(u \o Segment(BytesOf(k, "Path"), p, p2, "Path"), k, p2, v)
      BY <1>5, <2>2, <2>3, <2>7, <2>8, MergeExtends
    <3> QED  BY <1>4, <3>1
  <2>10. Obeys(w, G)
    <3>1. \A x \in p..(p2 - 1) : <<x, v>> \in G
      <4> TAKE x \in p..(p2 - 1)
      <4>1. x \in Nat /\ x < p2
        BY <2>3
      <4>2. CASE m < W
        BY <2>4, <2>6, <4>1, <4>2
      <4>3. CASE ~(m < W)
        <5>1. v = W
          BY <2>4, <4>3
        <5> QED  BY <1>1, <1>6, <4>1, <5>1
      <4> QED  BY <4>2, <4>3
    <3>2. \A x \in p..(p2 - 1) : IF "Path" = "Path" THEN <<x, v>> \in G ELSE <<p, x>> \notin G
      BY <3>1
    <3>3. Obeys(u \o Segment(BytesOf(k, "Path"), p, p2, "Path"), G)
      BY <1>5, <2>2, <2>3, <2>7, <2>8, <3>2, ObeysExtends
    <3> QED  BY <1>4, <3>3
  <2> HIDE DEF w
  <2>11. MergeOf(z, k, p2, v2)
    <3>1. MergeOf(w \o Segment(BytesOf(k, "Value"), v, v2, "Value"), k, p2, v2)
      BY <1>5, <2>4, <2>7, <2>8, <2>9, MergeExtends
    <3> QED  BY <1>4, <3>1
  <2>12. Obeys(z, G)
    <3>1. \A x \in v..(v2 - 1) : <<p2, x>> \notin G
      <4> TAKE x \in v..(v2 - 1)
      <4>1. m < W /\ x = m
        <5>1. m < W
          BY <1>1, <2>4
        <5> QED  BY <2>4, <5>1
      <4> QED  BY <1>1, <2>3, <2>6, <4>1
    <3>2. \A x \in v..(v2 - 1) : IF "Value" = "Path" THEN <<x, v>> \in G ELSE <<p2, x>> \notin G
      BY <3>1
    <3>3. Obeys(w \o Segment(BytesOf(k, "Value"), v, v2, "Value"), G)
      BY <1>5, <2>4, <2>7, <2>8, <2>9, <2>10, <3>2, ObeysExtends
    <3> QED  BY <1>4, <3>3
  <2> HIDE DEF z
  <2> QED  BY <2>5, <2>11, <2>12 DEF p2, v2
<1>10. MergeOf(f[n], k, E[n], Bound(n, W)) /\ Obeys(f[n], G)
  <2> HIDE DEF S
  <2>1. n \in S
    BY <1>1, <1>8, <1>9, Induction
  <2> QED  BY <1>1, <2>1 DEF S
<1>11. Bound(n, W) = W
  BY <1>1 DEF Bound
<1> QED  BY <1>2, <1>3, <1>10, <1>11 DEF Merges, K, W, G

-----------------------------------------------------------------------------
(* Orders that follow the same rule go on alike.                            *)

LEMMA TakenReaches ==
  ASSUME NEW u, NEW d, NEW n \in Nat, NEW a \in 1..Taken(u, n, d)
  PROVE  \E i \in 1..n : u[i].dimension = d /\ Taken(u, i, d) = a
<1> DEFINE Meets(m) == \A b \in 1..Taken(u, m, d) :
                         \E i \in 1..m : u[i].dimension = d /\ Taken(u, i, d) = b
           S == {m \in Nat : Meets(m)}
<1>1. 0 \in S
  <2>1. Taken(u, 0, d) = 0
    BY TakenStep
  <2> QED  BY <2>1
<1>2. ASSUME NEW m \in Nat, m \in S  PROVE m + 1 \in S
  <2> SUFFICES ASSUME NEW b \in 1..Taken(u, m + 1, d)
               PROVE  \E i \in 1..(m + 1) : u[i].dimension = d /\ Taken(u, i, d) = b
    OBVIOUS
  <2>1. /\ Taken(u, m, d) \in Nat
        /\ Taken(u, m + 1, d) = Taken(u, m, d) + IF u[m + 1].dimension = d THEN 1 ELSE 0
    BY TakenStep
  <2>2. CASE b \in 1..Taken(u, m, d)
    <3>1. PICK i \in 1..m : u[i].dimension = d /\ Taken(u, i, d) = b
      BY <1>2, <2>2
    <3>2. i \in 1..(m + 1)
      OBVIOUS
    <3> QED  BY <3>1, <3>2
  <2>3. CASE b \notin 1..Taken(u, m, d)
    <3>1. u[m + 1].dimension = d /\ b = Taken(u, m + 1, d)
      BY <2>1, <2>3
    <3>2. m + 1 \in 1..(m + 1)
      OBVIOUS
    <3> QED  BY <3>1, <3>2
  <2> QED  BY <2>2, <2>3
<1>3. n \in S
  <2> HIDE DEF S
  <2> QED  BY <1>1, <1>2, Induction
<1> QED  BY <1>3

LEMMA EqualBytesAgree ==
  ASSUME NEW k \in Key, NEW l \in Key, NEW u, NEW w, Merges(u, k), Merges(w, l),
         NEW n \in Nat, n <= Len(u), n <= Len(w), \A i \in 1..n : u[i] = w[i]
  PROVE  /\ Agree(k, l, Taken(u, n, "Path"), Taken(u, n, "Value"))
         /\ \A d : Taken(w, n, d) = Taken(u, n, d)
         /\ Taken(u, n, "Path") \in Nat /\ Taken(u, n, "Value") \in Nat
         /\ Taken(u, n, "Path") + Taken(u, n, "Value") = n
<1> DEFINE P == Taken(u, n, "Path")
           V == Taken(u, n, "Value")
<1>1. /\ u \in Seq(TaggedByte) /\ Len(u) \in Nat /\ w \in Seq(TaggedByte) /\ Len(w) \in Nat
  BY MergesFacts
<1>2. \A m \in 0..n : \A d : Taken(w, m, d) = Taken(u, m, d)
  <2> TAKE m \in 0..n
  <2>1. m \in Nat /\ \A j \in 1..m : w[j].dimension = u[j].dimension
    <3>1. \A j \in 1..m : j \in 1..n
      OBVIOUS
    <3> QED  BY <3>1
  <2> QED  BY <2>1, TakenSame
<1>3. \A d : Taken(w, n, d) = Taken(u, n, d)
  BY <1>2
<1>4. P \in Nat /\ V \in Nat
  BY TakenStep
<1>5. P + V = n
  <2>1. n \in 0..Len(u)
    BY <1>1
  <2> QED  BY <1>1, <2>1, TakenSum
<1>6. P <= Len(k.path) /\ V <= Len(k.value)
  <2>1. P <= Taken(u, Len(u), "Path") /\ V <= Taken(u, Len(u), "Value")
    BY <1>1, TakenMonotone
  <2> QED  BY <2>1 DEF Merges, MergeOf
<1>7. P <= Len(l.path) /\ V <= Len(l.value)
  <2>1. Taken(w, n, "Path") <= Taken(w, Len(w), "Path") /\ Taken(w, n, "Value") <= Taken(w, Len(w), "Value")
    BY <1>1, TakenMonotone
  <2> QED  BY <1>3, <2>1 DEF Merges, MergeOf
<1>8. ASSUME NEW d, NEW a \in 1..Taken(u, n, d)
      PROVE  BytesOf(k, d)[a] = BytesOf(l, d)[a]
  <2>1. PICK i \in 1..n : u[i].dimension = d /\ Taken(u, i, d) = a
    BY TakenReaches
  <2>2. i \in 1..Len(u) /\ i \in 1..Len(w) /\ i \in 0..n
    BY <1>1
  <2>3. u[i] = w[i]
    OBVIOUS
  <2>4. u[i].byte = BytesOf(k, d)[a]
    BY <2>1, <2>2 DEF Merges, MergeOf
  <2>5. Taken(w, i, d) = a
    BY <1>2, <2>1, <2>2
  <2>6. w[i].byte = BytesOf(l, d)[a]
    BY <2>1, <2>2, <2>3, <2>5 DEF Merges, MergeOf
  <2> QED  BY <2>3, <2>4, <2>6
<1>9. \A i \in 1..P : k.path[i] = l.path[i]
  <2>1. \A i \in 1..P : BytesOf(k, "Path")[i] = BytesOf(l, "Path")[i]
    BY <1>8
  <2> QED  BY <2>1 DEF BytesOf
<1>10. \A i \in 1..V : k.value[i] = l.value[i]
  <2>1. \A i \in 1..V : BytesOf(k, "Value")[i] = BytesOf(l, "Value")[i]
    BY <1>8
  <2> QED  BY <2>1 DEF BytesOf
<1>11. Agree(k, l, P, V)
  <2> HIDE DEF P, V
  <2> QED  BY <1>6, <1>7, <1>9, <1>10 DEF Agree
<1> QED  BY <1>3, <1>4, <1>5, <1>11

\* Where two keys agree the rules agree.
SameRule(k, l, G, H) ==
  \A p, v \in Nat : Agree(k, l, p, v) => (<<p, v>> \in G <=> <<p, v>> \in H)

LEMMA RulesAlike ==
  ASSUME NEW k \in Key, NEW l \in Key, NEW u, NEW w, Merges(u, k), Merges(w, l),
         NEW G, NEW H, Obeys(u, G), Obeys(w, H), SameRule(k, l, G, H)
  PROVE  Alike(u, w)
<1>1. /\ u \in Seq(TaggedByte) /\ Len(u) \in Nat /\ w \in Seq(TaggedByte) /\ Len(w) \in Nat
  BY MergesFacts
<1>2. SUFFICES ASSUME NEW i \in 1..Len(u), i <= Len(w), SubSeq(u, 1, i - 1) = SubSeq(w, 1, i - 1)
               PROVE  u[i].dimension = w[i].dimension
  BY DEF Alike
<1> DEFINE n == i - 1
<1>3. n \in Nat /\ n <= Len(u) /\ n <= Len(w) /\ i \in 1..Len(w)
  BY <1>1, <1>2
<1>4. \A j \in 1..n : u[j] = w[j]
  <2>1. ASSUME NEW x \in Seq(TaggedByte), n <= Len(x), Len(x) \in Nat
        PROVE  \A j \in 1..n : SubSeq(x, 1, n)[j] = x[j]
    <3>1. 0 \in 0..Len(x) /\ n \in 0..Len(x)
      BY <1>3, <2>1
    <3> HIDE DEF n
    <3>2. \A j \in 1..(n - 0) : SubSeq(x, 0 + 1, n)[j] = x[0 + j]
      BY <3>1, RangeCopy
    <3>3. n - 0 = n /\ \A j \in 1..n : 0 + j = j
      BY <1>3
    <3>4. 0 + 1 = 1
      OBVIOUS
    <3> QED  BY <3>2, <3>3, <3>4
  <2>2. SubSeq(u, 1, n) = SubSeq(w, 1, n)
    BY <1>2
  <2> HIDE DEF n
  <2>3. \A j \in 1..n : SubSeq(u, 1, n)[j] = u[j]
    BY <1>1, <1>3, <2>1
  <2>4. \A j \in 1..n : SubSeq(w, 1, n)[j] = w[j]
    BY <1>1, <1>3, <2>1
  <2> QED  BY <2>2, <2>3, <2>4
<1> DEFINE P == Taken(u, n, "Path")
           V == Taken(u, n, "Value")
<1>5. /\ Agree(k, l, P, V) /\ P \in Nat /\ V \in Nat
      /\ Taken(w, n, "Path") = P /\ Taken(w, n, "Value") = V
  <2> HIDE DEF n
  <2> QED  BY <1>3, <1>4, EqualBytesAgree
<1>6. u[i].dimension = IF <<P, V>> \in G THEN "Path" ELSE "Value"
  BY DEF Obeys
<1>7. w[i].dimension = IF <<Taken(w, n, "Path"), Taken(w, n, "Value")>> \in H THEN "Path" ELSE "Value"
  BY <1>3 DEF Obeys
<1> HIDE DEF P, V
<1>8. <<P, V>> \in G <=> <<P, V>> \in H
  BY <1>5 DEF SameRule
<1> QED  BY <1>5, <1>6, <1>7, <1>8

LEMMA RulesSame ==
  ASSUME PrefixFree, NEW k \in Key, NEW l \in Key
  PROVE  /\ SameRule(k, l, PathLeft(k), PathLeft(l))
         /\ SameRule(k, l, ValueTaken(k), ValueTaken(l))
         /\ \A E, F : LabelEnds(k, E) /\ LabelEnds(l, F) =>
              SameRule(k, l, LabelLeft(k, E), LabelLeft(l, F))
<1>1. /\ Len(k.path) \in Nat /\ Len(k.value) \in Nat /\ Len(l.path) \in Nat /\ Len(l.value) \in Nat
  BY KeyFacts
<1>2. ASSUME NEW p \in Nat, NEW v \in Nat, Agree(k, l, p, v)
      PROVE  /\ p < Len(k.path) <=> p < Len(l.path)
             /\ v < Len(k.value) <=> v < Len(l.value)
  <2>1. Agree(l, k, p, v)
    BY <1>2, AgreeSym
  <2>2. /\ p = Len(k.path) => k.path = l.path
        /\ v = Len(k.value) => k.value = l.value
    BY <1>2, AgreeToEnd
  <2>3. /\ p = Len(l.path) => l.path = k.path
        /\ v = Len(l.value) => l.value = k.value
    BY <2>1, AgreeToEnd
  <2>4. p <= Len(k.path) /\ p <= Len(l.path) /\ v <= Len(k.value) /\ v <= Len(l.value)
    BY <1>2 DEF Agree
  <2>5. p < Len(k.path) <=> p < Len(l.path)
    BY <1>1, <2>2, <2>3, <2>4
  <2>6. v < Len(k.value) <=> v < Len(l.value)
    BY <1>1, <2>2, <2>3, <2>4
  <2> QED  BY <2>5, <2>6
<1>3. SameRule(k, l, PathLeft(k), PathLeft(l))
  <2> SUFFICES ASSUME NEW p \in Nat, NEW v \in Nat, Agree(k, l, p, v)
               PROVE  <<p, v>> \in PathLeft(k) <=> <<p, v>> \in PathLeft(l)
    BY DEF SameRule
  <2>1. p < Len(k.path) <=> p < Len(l.path)
    BY <1>2
  <2> QED  BY <2>1 DEF PathLeft
<1>4. SameRule(k, l, ValueTaken(k), ValueTaken(l))
  <2> SUFFICES ASSUME NEW p \in Nat, NEW v \in Nat, Agree(k, l, p, v)
               PROVE  <<p, v>> \in ValueTaken(k) <=> <<p, v>> \in ValueTaken(l)
    BY DEF SameRule
  <2>1. v < Len(k.value) <=> v < Len(l.value)
    BY <1>2
  <2> QED  BY <2>1 DEF ValueTaken
<1>5. ASSUME NEW E, NEW F, LabelEnds(k, E), LabelEnds(l, F)
      PROVE  SameRule(k, l, LabelLeft(k, E), LabelLeft(l, F))
  <2> SUFFICES ASSUME NEW p \in Nat, NEW v \in Nat, Agree(k, l, p, v)
               PROVE  <<p, v>> \in LabelLeft(k, E) <=> <<p, v>> \in LabelLeft(l, F)
    BY DEF SameRule
  <2>1. v < Len(k.value) <=> v < Len(l.value)
    BY <1>2
  <2>2. /\ <<p, v>> \in LabelLeft(k, E) <=> ~(v < Len(k.value)) \/ p < E[v + 1]
        /\ <<p, v>> \in LabelLeft(l, F) <=> ~(v < Len(l.value)) \/ p < F[v + 1]
    BY DEF LabelLeft
  <2>3. CASE ~(v < Len(k.value))
    BY <2>1, <2>2, <2>3
  <2>4. CASE v < Len(k.value)
    <3> DEFINE n == v + 1
    <3>1. n \in Nat /\ n <= KeySize(k) /\ n <= KeySize(l) /\ n \in 0..KeySize(k) /\ n \in 0..KeySize(l)
      <4> DEFINE a == Len(k.path)
                 b == Len(k.value)
                 c == Len(l.path)
                 d == Len(l.value)
      <4>1. a \in Nat /\ b \in Nat /\ c \in Nat /\ d \in Nat /\ v < b /\ v < d
        BY <1>1, <2>1, <2>4
      <4> HIDE DEF a, b, c, d
      <4>2. n \in Nat /\ n <= a + b /\ n <= c + d /\ n \in 0..(a + b) /\ n \in 0..(c + d)
        BY <4>1
      <4> QED  BY <4>2 DEF a, b, c, d, KeySize
    <3>2. /\ \A r \in 0..KeySize(k) : E[r] \in Nat
          /\ \A r \in 0..KeySize(l) : F[r] \in Nat
      BY <1>5, EndsFacts DEF KeySize
    <3> HIDE DEF n
    <3>3. E[n] \in Nat /\ F[n] \in Nat
      BY <3>1, <3>2
    <3>4. E[n] <= p => F[n] = E[n]
      BY <1>5, <3>1, EndsSame
    <3>5. F[n] <= p => E[n] = F[n]
      <4>1. Agree(l, k, p, v)
        BY AgreeSym
      <4> QED  BY <1>5, <3>1, <4>1, EndsSame
    <3>6. p < E[n] <=> p < F[n]
      BY <3>3, <3>4, <3>5
    <3> QED  BY <2>1, <2>2, <2>4, <3>6 DEF n
  <2> QED  BY <2>3, <2>4
<1> QED  BY <1>3, <1>4, <1>5

-----------------------------------------------------------------------------
(* What has been inserted.                                                  *)

\* Encoded paths and strings have at least their end, integers their bytes.
NonEmpty == <<>> \notin Paths /\ <<>> \notin Values

LEMMA InterleaveMerges ==
  ASSUME NonEmpty, NEW k \in Key, NEW how \in IndexType
  PROVE  Merges(Interleave(k, how), k) /\ Len(k.path) > 0 /\ Len(k.value) > 0
<1>1. Len(k.path) > 0 /\ Len(k.value) > 0
  <2>1. /\ k.path \in Seq(Byte) /\ k.value \in Seq(Byte) /\ k.path # <<>> /\ k.value # <<>>
        /\ Len(k.path) \in Nat /\ Len(k.value) \in Nat
    BY KeyFacts DEF NonEmpty
  <2> QED  BY <2>1
<1>2. CASE how = "PathValue"
  BY <1>1, <1>2, PathValueMerges DEF Interleave
<1>3. CASE how = "ValuePath"
  BY <1>1, <1>3, ValuePathMerges DEF Interleave
<1>4. CASE how = "LabelWise"
  <2>1. PICK E, f : LabelRuns(k, E, f)
    BY LabelWiseRuns
  <2>2. Merges(LabelWise(k), k)
    BY <2>1, LabelWiseMerges
  <2> QED  BY <1>1, <1>4, <2>2 DEF Interleave
<1>5. CASE how = "ZOrder"
  BY <1>1, <1>5, ZOrderMerges DEF Interleave
<1> QED  BY <1>2, <1>3, <1>4, <1>5 DEF IndexType

UsedOK ==
  /\ index_type \in IndexType
  /\ \A w \in used : w.how \in IndexType /\ \E k \in Key : w.bytes = Interleave(k, w.how)

LEMMA UsedInv ==
  /\ StaticInit => UsedOK
  /\ UsedOK /\ [StaticNext]_<<vars, svars>> => UsedOK'
<1>1. StaticInit => UsedOK
  BY DEF StaticInit, UsedOK
<1>2. ASSUME UsedOK, [StaticNext]_<<vars, svars>>  PROVE UsedOK'
  <2>1. ASSUME NEW k \in Key, NEW how \in {"PathValue", index_type}, index_type' = index_type,
               used' = used \cup {[how |-> how, bytes |-> Interleave(k, how)]}
        PROVE  UsedOK'
    <3>1. how \in IndexType
      BY <1>2 DEF UsedOK, IndexType
    <3>2. \A w \in used' : w \in used \/ w = [how |-> how, bytes |-> Interleave(k, how)]
      BY <2>1
    <3>3. \A w \in used' : w.how \in IndexType /\ \E l \in Key : w.bytes = Interleave(l, w.how)
      <4> TAKE w \in used'
      <4>1. CASE w \in used
        BY <1>2, <4>1 DEF UsedOK
      <4>2. CASE w = [how |-> how, bytes |-> Interleave(k, how)]
        BY <3>1, <4>2
      <4> QED  BY <3>2, <4>1, <4>2
    <3> QED  BY <1>2, <2>1, <3>3 DEF UsedOK
  <2>2. CASE UNCHANGED <<index_type, used>>
    BY <1>2, <2>2 DEF UsedOK
  <2>3. ASSUME NEW k \in Key, NEW r \in Ref, NEW how \in {"PathValue", index_type},
               StaticInsertFirst(k, r, how)
        PROVE  UsedOK'
    BY <2>1, <2>3 DEF StaticInsertFirst
  <2>4. ASSUME NEW k \in Key, NEW r \in Ref, NEW how \in {"PathValue", index_type},
               StaticBegin(k, r, how)
        PROVE  UsedOK'
    <3>1. /\ index_type' = index_type /\ ikey' = Interleave(k, how)
          /\ used' = used \cup {[how |-> how, bytes |-> ikey']}
      BY <2>4 DEF StaticBegin
    <3> QED  BY <2>1, <3>1
  <2>5. StaticSteps => UNCHANGED <<index_type, used>>
    BY DEF StaticSteps, StaticDescend, StaticAddRef, SplitNode, StaticAddNewLeaf, Undefined, svars
  <2>6. UNCHANGED <<vars, svars>> => UNCHANGED <<index_type, used>>
    BY DEF svars
  <2> QED  BY <1>2, <2>2, <2>3, <2>4, <2>5, <2>6 DEF StaticNext
<1> QED  BY <1>1, <1>2

LEMMA SameTypeAlike ==
  ASSUME PrefixFree, NonEmpty, NEW k \in Key, NEW l \in Key,
         NEW how \in {"PathValue", "ValuePath", "LabelWise"}
  PROVE  Alike(Interleave(k, how), Interleave(l, how))
<1>1. CASE how = "PathValue"
  <2>1. Merges(PathValue(k), k) /\ Obeys(PathValue(k), PathLeft(k))
    BY PathValueMerges
  <2>2. Merges(PathValue(l), l) /\ Obeys(PathValue(l), PathLeft(l))
    BY PathValueMerges
  <2>3. SameRule(k, l, PathLeft(k), PathLeft(l))
    BY RulesSame
  <2>4. Alike(PathValue(k), PathValue(l))
    BY <2>1, <2>2, <2>3, RulesAlike
  <2> QED  BY <1>1, <2>4 DEF Interleave
<1>2. CASE how = "ValuePath"
  <2>1. Merges(ValuePath(k), k) /\ Obeys(ValuePath(k), ValueTaken(k))
    BY ValuePathMerges
  <2>2. Merges(ValuePath(l), l) /\ Obeys(ValuePath(l), ValueTaken(l))
    BY ValuePathMerges
  <2>3. SameRule(k, l, ValueTaken(k), ValueTaken(l))
    BY RulesSame
  <2>4. Alike(ValuePath(k), ValuePath(l))
    BY <2>1, <2>2, <2>3, RulesAlike
  <2> QED  BY <1>2, <2>4 DEF Interleave
<1>3. CASE how = "LabelWise"
  <2>1. PICK E, f : LabelRuns(k, E, f)
    BY LabelWiseRuns
  <2>2. PICK F, g : LabelRuns(l, F, g)
    BY LabelWiseRuns
  <2>3. Merges(LabelWise(k), k) /\ Obeys(LabelWise(k), LabelLeft(k, E))
    BY <2>1, LabelWiseMerges
  <2>4. Merges(LabelWise(l), l) /\ Obeys(LabelWise(l), LabelLeft(l, F))
    BY <2>2, LabelWiseMerges
  <2>5. LabelEnds(k, E) /\ LabelEnds(l, F)
    BY <2>1, <2>2 DEF LabelRuns
  <2>6. SameRule(k, l, LabelLeft(k, E), LabelLeft(l, F))
    BY <2>5, RulesSame
  <2>7. Alike(LabelWise(k), LabelWise(l))
    BY <2>3, <2>4, <2>6, RulesAlike
  <2> QED  BY <1>3, <2>7 DEF Interleave
<1> QED  BY <1>1, <1>2, <1>3

LEMMA UsedCompatible ==
  ASSUME PrefixFree, NonEmpty, UsedOK
  PROVE  TypesCompatible
<1> SUFFICES ASSUME \A a, b \in used : a.how = b.how,
                    \A a, b \in used : a.how = "ZOrder" =>
                      /\ Len(a.bytes) = Len(b.bytes)
                      /\ \A d \in Dimension :
                             Cardinality({i \in DOMAIN a.bytes : a.bytes[i].dimension = d})
                           = Cardinality({i \in DOMAIN b.bytes : b.bytes[i].dimension = d}),
                    NEW a \in used, NEW b \in used
             PROVE  Alike(a.bytes, b.bytes)
  BY DEF TypesCompatible, Compatible, Alike
<1> DEFINE how == a.how
           u == a.bytes
           w == b.bytes
<1>1. how \in IndexType /\ b.how = how
  BY DEF UsedOK
<1>2. PICK k \in Key : u = Interleave(k, how)
  BY DEF UsedOK
<1>3. PICK l \in Key : w = Interleave(l, how)
  BY <1>1 DEF UsedOK
<1>4. CASE how \in {"PathValue", "ValuePath", "LabelWise"}
  <2>1. Alike(Interleave(k, how), Interleave(l, how))
    <3> HIDE DEF how
    <3> QED  BY <1>4, SameTypeAlike
  <2> QED  BY <1>2, <1>3, <2>1
<1>5. CASE how = "ZOrder"
  <2>1. Merges(u, k) /\ Merges(w, l) /\ Len(k.path) > 0 /\ Len(k.value) > 0
    <3>1. Merges(Interleave(k, how), k) /\ Len(k.path) > 0 /\ Len(k.value) > 0
      BY <1>1, InterleaveMerges
    <3>2. Merges(Interleave(l, how), l)
      BY <1>1, InterleaveMerges
    <3> QED  BY <1>2, <1>3, <3>1, <3>2
  <2>2. \A d \in Dimension : Taken(u, Len(u), d) = Taken(w, Len(w), d)
    <3>1. DOMAIN u = 1..Len(u) /\ DOMAIN w = 1..Len(w)
      <4>1. u \in Seq(TaggedByte) /\ w \in Seq(TaggedByte)
        BY <2>1, MergesFacts
      <4> QED  BY <4>1
    <3>2. \A d \in Dimension : Cardinality({i \in DOMAIN u : u[i].dimension = d})
                             = Cardinality({i \in DOMAIN w : w[i].dimension = d})
      BY <1>5
    <3> HIDE DEF u, w
    <3> QED  BY <3>1, <3>2 DEF Taken
  <2>3. /\ Taken(u, Len(u), "Path") = Len(k.path) /\ Taken(u, Len(u), "Value") = Len(k.value)
        /\ Taken(w, Len(w), "Path") = Len(l.path) /\ Taken(w, Len(w), "Value") = Len(l.value)
    BY <2>1 DEF Merges, MergeOf
  <2>4. Len(k.path) = Len(l.path) /\ Len(k.value) = Len(l.value)
    <3>1. "Path" \in Dimension /\ "Value" \in Dimension
      BY DEF Dimension
    <3> QED  BY <2>2, <2>3, <3>1
  <2>5. SameDims(ZOrder(k), ZOrder(l))
    BY <2>1, <2>4, ZOrderSame
  <2>6. SameDims(u, w)
    BY <1>2, <1>3, <1>5, <2>5 DEF Interleave
  <2> HIDE DEF u, w
  <2>7. Alike(u, w)
    BY <2>6 DEF SameDims, Alike
  <2> QED  BY <2>7 DEF u, w
<1> QED  BY <1>1, <1>4, <1>5 DEF IndexType

\* An index that is only bulk-loaded, or only inserted into, never mixes
\* dimensions: what two of its keys have consumed in common says which dimension
\* is next, whatever the interleaving, and with the z-order if all keys have the
\* same sizes (interleaver.cpp:27-117).
THEOREM KeysCompatible ==
  ASSUME PrefixFree, NonEmpty
  PROVE  StaticSpec => []TypesCompatible
<1>1. UsedOK => TypesCompatible
  BY UsedCompatible
<1> QED  BY <1>1, UsedInv, PTL DEF StaticSpec

-----------------------------------------------------------------------------
(* Where Descend stands with an interleaved key.                            *)

\* Count counts on from what has been taken.
LEMMA CountTaken ==
  ASSUME NEW u, ikey' = u, NEW pos \in Nat, NEW m \in Nat, NEW d
  PROVE  /\ Count(pos, m, d) \in Nat
         /\ Taken(u, pos + m, d) = Taken(u, pos, d) + Count(pos, m, d)
<1> DEFINE A == {j \in 1..pos : u[j].dimension = d}
           B == {j \in (pos + 1)..(pos + m) : u[j].dimension = d}
           C == {j \in 1..(pos + m) : u[j].dimension = d}
<1>1. IsFiniteSet(A) /\ IsFiniteSet(B)
  <2>1. IsFiniteSet(1..pos) /\ IsFiniteSet((pos + 1)..(pos + m))
    BY FS_Interval
  <2> QED  BY <2>1, FS_Subset
<1>2. A \cap B = {}
  OBVIOUS
<1>3. C = A \cup B
  <2>1. \A j : j \in 1..(pos + m) <=> j \in 1..pos \/ j \in (pos + 1)..(pos + m)
    OBVIOUS
  <2> QED  BY <2>1
<1> HIDE DEF A, B, C
<1>4. Cardinality(A) \in Nat /\ Cardinality(B) \in Nat /\ Cardinality({}) = 0
  BY <1>1, FS_CardinalityType, FS_EmptySet
<1>5. Cardinality(C) = Cardinality(A) + Cardinality(B)
  <2>1. Cardinality(A \cup B) = Cardinality(A) + Cardinality(B) - Cardinality(A \cap B)
    BY <1>1, FS_Union
  <2>2. Cardinality(A \cap B) = 0
    BY <1>2, FS_EmptySet
  <2>3. Cardinality(C) = Cardinality(A \cup B)
    BY <1>3
  <2> DEFINE y == Cardinality(A \cup B)
             z == Cardinality(A \cap B)
  <2>4. y = Cardinality(A) + Cardinality(B) - z /\ z = 0 /\ Cardinality(C) = y
    BY <2>1, <2>2, <2>3
  <2> HIDE DEF y, z
  <2> QED  BY <1>4, <2>4
<1>6. Cardinality(B) = Count(pos, m, d)
  BY DEF B, Count
<1> QED  BY <1>4, <1>5, <1>6 DEF Taken, A, C

\* Locator l stands with key k, in order u, at the end of what agrees with the
\* label of its node: the next byte of the order is not the next of the prefix.
Differs(x, u, l, i) ==
  IF u[i].dimension = "Path"
  THEN l.node_p_pos < x.sep => x.prefix[l.node_p_pos + 1] # u[i].byte
  ELSE l.node_v_pos < Len(x.prefix) => x.prefix[l.node_v_pos + 1] # u[i].byte

StandsAt(h, k, u, l, lab, p, v) ==
  LET x == h[l.node]
  IN  /\ l.node_p_pos \in 0..x.sep /\ l.node_v_pos \in x.sep..Len(x.prefix)
      /\ p = lab[l.node].p + l.node_p_pos /\ v = lab[l.node].v + (l.node_v_pos - x.sep)
      /\ l.ikey_pos = p + v
      /\ Passes(u, p, v)
      /\ Agree(k, lab[l.node].key, p, v)
      /\ p + v < Len(u) => Differs(x, u, l, p + v + 1)

Stands(h, k, u, l, lab) == \E p \in Nat, v \in Nat : StandsAt(h, k, u, l, lab, p, v)

\* The place in the prefix of node x behind a path and c value bytes of it.
MatchedTo(x, k, u, j, p, v, a, c) ==
  /\ a <= x.sep /\ c <= Len(x.prefix) - x.sep
  /\ Passes(u, p + a, v + c)
  /\ Agree(k, j, p + a, v + c)

StopsAt(x, u, a, c, i) ==
  IF u[i].dimension = "Path" THEN a < x.sep => x.prefix[a + 1] # u[i].byte
  ELSE x.sep + c < Len(x.prefix) => x.prefix[x.sep + c + 1] # u[i].byte

\* One more byte that fits.
LEMMA MatchedFits ==
  ASSUME NEW x \in NodeRecord, NEW k \in Key, NEW u, ikey' = u, Merges(u, k), NEW j \in Key,
         NEW p \in Nat, NEW v \in Nat, Spells(x, j, p, v), Passes(u, p, v),
         NEW m \in Nat, p + v + m < Len(u),
         MatchedTo(x, k, u, j, p, v, Count(p + v, m, "Path"), Count(p + v, m, "Value"))
  PROVE  /\ Fits(x, p + v, m + 1) =>
              MatchedTo(x, k, u, j, p, v, Count(p + v, m + 1, "Path"), Count(p + v, m + 1, "Value"))
         /\ ~Fits(x, p + v, m + 1) =>
              StopsAt(x, u, Count(p + v, m, "Path"), Count(p + v, m, "Value"), p + v + m + 1)
<1> DEFINE pos == p + v
           n == pos + m + 1
           d == u[n].dimension
           b == u[n].byte
           a == Count(pos, m, "Path")
           c == Count(pos, m, "Value")
           a2 == Count(pos, m + 1, "Path")
           c2 == Count(pos, m + 1, "Value")
           S == x.sep
           T == Len(x.prefix)
<1>1. u \in Seq(TaggedByte) /\ Len(u) \in Nat
  BY MergesFacts
<1>2. S \in Nat /\ T \in Nat /\ S <= T
  BY NodeFacts
<1>3. /\ Taken(u, pos, "Path") = p /\ Taken(u, pos, "Value") = v
  BY <1>1, PassesFacts
<1>4. pos \in Nat /\ m + 1 \in Nat /\ pos + (m + 1) = n
  OBVIOUS
<1>5. /\ a \in Nat /\ c \in Nat /\ a2 \in Nat /\ c2 \in Nat
      /\ Taken(u, pos + m, "Path") = p + a /\ Taken(u, pos + m, "Value") = v + c
      /\ Taken(u, n, "Path") = p + a2 /\ Taken(u, n, "Value") = v + c2
  <2>1. /\ a \in Nat /\ c \in Nat
        /\ Taken(u, pos + m, "Path") = p + a /\ Taken(u, pos + m, "Value") = v + c
    <3> HIDE DEF pos
    <3> QED  BY <1>3, <1>4, CountTaken
  <2>2. /\ a2 \in Nat /\ c2 \in Nat
        /\ Taken(u, pos + (m + 1), "Path") = p + a2 /\ Taken(u, pos + (m + 1), "Value") = v + c2
    <3> DEFINE m2 == m + 1
    <3>1. m2 \in Nat /\ m2 = m + 1 /\ pos \in Nat
      OBVIOUS
    <3> HIDE DEF pos, m2
    <3>2. /\ Count(pos, m2, "Path") \in Nat /\ Count(pos, m2, "Value") \in Nat
          /\ Taken(u, pos + m2, "Path") = p + Count(pos, m2, "Path")
          /\ Taken(u, pos + m2, "Value") = v + Count(pos, m2, "Value")
      <4>1. ASSUME NEW e
            PROVE  /\ Count(pos, m2, e) \in Nat
                   /\ Taken(u, pos + m2, e) = Taken(u, pos, e) + Count(pos, m2, e)
        BY <3>1, CountTaken
      <4> QED  BY <1>3, <4>1
    <3> QED  BY <3>1, <3>2
  <2> HIDE DEF a, c, a2, c2, n, pos
  <2> QED  BY <1>4, <2>1, <2>2
<1>6. /\ Taken(u, n, "Path") = Taken(u, pos + m, "Path") + (IF d = "Path" THEN 1 ELSE 0)
      /\ Taken(u, n, "Value") = Taken(u, pos + m, "Value") + (IF d = "Value" THEN 1 ELSE 0)
  <2> DEFINE i == pos + m
  <2>1. i \in Nat /\ n = i + 1 /\ d = u[i + 1].dimension
    OBVIOUS
  <2> HIDE DEF i, n, d
  <2>2. /\ Taken(u, i + 1, "Path") = Taken(u, i, "Path") + (IF d = "Path" THEN 1 ELSE 0)
        /\ Taken(u, i + 1, "Value") = Taken(u, i, "Value") + (IF d = "Value" THEN 1 ELSE 0)
    BY <2>1, TakenStep
  <2> QED  BY <2>1, <2>2 DEF i
<1>7. Passes(u, p + a, v + c) /\ Agree(k, j, p + a, v + c) /\ a <= S /\ c <= T - S
  BY DEF MatchedTo
<1>8. (p + a) + (v + c) = pos + m
  <2>1. Taken(u, (p + a) + (v + c), "Path") = p + a
    BY DEF MatchedTo, Passes
  <2>2. pos + m \in 0..Len(u)
    BY <1>1, <1>4
  <2>3. Taken(u, pos + m, "Path") + Taken(u, pos + m, "Value") = pos + m
    <3> HIDE DEF pos
    <3> QED  BY <1>1, <2>2, TakenSum
  <2> HIDE DEF a, c, pos
  <2> QED  BY <1>5, <2>3
<1> DEFINE P == p + a
           V == v + c
<1>9. P \in Nat /\ V \in Nat /\ P + V < Len(u) /\ P + V + 1 = n
  <2> HIDE DEF a, c
  <2> QED  BY <1>1, <1>5, <1>8
<1> HIDE DEF a, c, a2, c2, n, S, T, P, V, pos
<1>10. /\ d \in Dimension /\ HasByte(k, d, P, V) /\ b = ByteAt(k, d, P, V)
       /\ Passes(u, P + PathStep(d), V + ValueStep(d))
  <2>1. Passes(u, P, V)
    BY <1>7 DEF P, V
  <2>2. n = P + V + 1 /\ P + V + 1 <= Len(u)
    BY <1>1, <1>9
  <2>3. /\ d \in Dimension /\ HasByte(k, d, P, V) /\ b = ByteAt(k, d, P, V)
    BY <1>9, <2>1, <2>2, MergeNext
  <2>4. Passes(u, P + PathStep(d), V + ValueStep(d))
    BY <1>1, <1>9, <2>1, <2>2, PassesFacts
  <2> QED  BY <2>3, <2>4
<1>11. a2 = a + PathStep(d) /\ c2 = c + ValueStep(d)
  <2> HIDE DEF d
  <2>1. d = "Path" \/ d = "Value"
    BY <1>10 DEF Dimension
  <2> QED  BY <1>5, <1>6, <2>1 DEF PathStep, ValueStep
<1>12. Fits(x, pos, m + 1) <=> IF d = "Path" THEN a2 <= S /\ x.prefix[a2] = b
                               ELSE c2 <= T - S /\ x.prefix[S + c2] = b
  <2>1. ikey'[pos + (m + 1)] = u[n]
    BY <1>4
  <2> QED  BY <2>1 DEF Fits, a2, c2, S, T
<1>13. /\ p + S <= Len(j.path) /\ v + (T - S) <= Len(j.value)
       /\ Len(j.path) \in Nat /\ Len(j.value) \in Nat
       /\ \A i \in 1..S : x.prefix[i] = j.path[p + i]
       /\ \A i \in 1..(T - S) : x.prefix[S + i] = j.value[v + i]
  BY KeyFacts DEF Spells, S, T
<1>14. CASE d = "Path"
  <2>1. a2 = a + 1 /\ c2 = c
    BY <1>5, <1>11, <1>14 DEF PathStep, ValueStep
  <2>2. ASSUME Fits(x, pos, m + 1)
        PROVE  MatchedTo(x, k, u, j, p, v, a2, c2)
    <3>1. a2 <= S /\ x.prefix[a2] = b
      BY <1>12, <1>14, <2>2
    <3>2. a2 \in 1..S /\ p + a2 = P + 1
      BY <1>2, <1>5, <2>1, <3>1 DEF P
    <3>3. HasByte(j, d, P, V) /\ ByteAt(j, d, P, V) = b
      <4>1. P < Len(j.path)
        <5> DEFINE J == Len(j.path)
        <5>1. J \in Nat /\ p + S <= J
          BY <1>13
        <5> HIDE DEF J
        <5>2. P < J
          BY <1>2, <1>5, <2>1, <3>1, <5>1 DEF P
        <5> QED  BY <5>2 DEF J
      <4>2. j.path[P + 1] = b
        BY <1>13, <3>1, <3>2
      <4> QED  BY <1>14, <4>1, <4>2 DEF HasByte, ByteAt
    <3>4. Agree(k, j, P + PathStep(d), V + ValueStep(d))
      <4>1. Agree(k, j, P, V)
        BY <1>7 DEF P, V
      <4> HIDE DEF d, b
      <4> QED  BY <1>9, <1>10, <3>3, <4>1, AgreeStep
    <3>5. P + PathStep(d) = p + a2 /\ V + ValueStep(d) = v + c2
      BY <1>5, <1>14, <2>1 DEF P, V, PathStep, ValueStep
    <3>6. c2 <= T - S
      BY <1>7, <2>1
    <3> QED  BY <1>10, <3>1, <3>4, <3>5, <3>6 DEF MatchedTo, S, T
  <2>3. ASSUME ~Fits(x, pos, m + 1), a < S  PROVE x.prefix[a + 1] # b
    BY <1>2, <1>5, <1>12, <1>14, <2>1, <2>3
  <2>4. ~Fits(x, pos, m + 1) => StopsAt(x, u, a, c, n)
    BY <1>14, <2>3 DEF StopsAt, d, b, S
  <2> QED  BY <2>2, <2>4 DEF a, c, a2, c2, n, pos
<1>15. CASE d = "Value"
  <2>1. a2 = a /\ c2 = c + 1
    BY <1>5, <1>11, <1>15 DEF PathStep, ValueStep
  <2>2. ASSUME Fits(x, pos, m + 1)
        PROVE  MatchedTo(x, k, u, j, p, v, a2, c2)
    <3>1. c2 <= T - S /\ x.prefix[S + c2] = b
      BY <1>12, <1>15, <2>2
    <3>2. c2 \in 1..(T - S) /\ v + c2 = V + 1
      BY <1>2, <1>5, <2>1, <3>1 DEF V
    <3>3. HasByte(j, d, P, V) /\ ByteAt(j, d, P, V) = b
      <4>1. V < Len(j.value)
        <5> DEFINE J == Len(j.value)
        <5>1. J \in Nat /\ v + (T - S) <= J
          BY <1>13
        <5> HIDE DEF J
        <5>2. V < J
          BY <1>2, <1>5, <2>1, <3>1, <5>1 DEF V
        <5> QED  BY <5>2 DEF J
      <4>2. j.value[V + 1] = b
        BY <1>13, <3>1, <3>2
      <4> QED  BY <1>15, <4>1, <4>2 DEF HasByte, ByteAt
    <3>4. Agree(k, j, P + PathStep(d), V + ValueStep(d))
      <4>1. Agree(k, j, P, V)
        BY <1>7 DEF P, V
      <4> HIDE DEF d, b
      <4> QED  BY <1>9, <1>10, <3>3, <4>1, AgreeStep
    <3>5. P + PathStep(d) = p + a2 /\ V + ValueStep(d) = v + c2
      BY <1>5, <1>15, <2>1 DEF P, V, PathStep, ValueStep
    <3>6. a2 <= S
      BY <1>7, <2>1
    <3> QED  BY <1>10, <3>1, <3>4, <3>5, <3>6 DEF MatchedTo, S, T
  <2>3. ASSUME ~Fits(x, pos, m + 1), S + c < T  PROVE x.prefix[S + c + 1] # b
    <3>1. c2 <= T - S /\ S + c2 = S + c + 1
      BY <1>2, <1>5, <2>1, <2>3
    <3> QED  BY <1>12, <1>15, <2>3, <3>1
  <2>4. ~Fits(x, pos, m + 1) => StopsAt(x, u, a, c, n)
    BY <1>15, <2>3 DEF StopsAt, d, b, S, T
  <2> QED  BY <2>2, <2>4 DEF a, c, a2, c2, n, pos
<1> QED  BY <1>10, <1>14, <1>15 DEF Dimension

\* Matching the prefix of node n from the place of its label on.
LEMMA MatchStands ==
  ASSUME HeapOK(heap), NEW n \in DOMAIN heap, NEW lab, lab[n].key \in Key,
         NEW p, p = lab[n].p, p \in Nat, NEW v, v = lab[n].v, v \in Nat,
         Spells(heap[n], lab[n].key, p, v),
         NEW k \in Key, NEW u, ikey' = u, Merges(u, k), Passes(u, p, v),
         Agree(k, lab[n].key, p, v), NEW parent, NEW b,
         NEW l, l = MatchPrefix(n, parent, b, p + v)
  PROVE  Stands(heap, k, u, l, lab)
<1> DEFINE x == heap[n]
           j == lab[n].key
           pos == p + v
           L == Len(u)
           A(m) == Count(pos, m, "Path")
           C(m) == Count(pos, m, "Value")
           M == {m \in 0..(Len(ikey') - pos) : m = Len(ikey') - pos \/ ~Fits(x, pos, m + 1)}
           m0 == Least(M)
           S == {m \in Nat : m <= m0 => MatchedTo(x, k, u, j, p, v, A(m), C(m))}
<1>1. /\ u \in Seq(TaggedByte) /\ L \in Nat /\ pos \in Nat /\ pos <= L /\ Len(ikey') = L
      /\ x \in NodeRecord
  <2>1. u \in Seq(TaggedByte) /\ Len(u) \in Nat
    BY MergesFacts
  <2>2. pos \in Nat /\ pos <= L
    BY DEF Passes
  <2>3. x \in NodeRecord
    BY DEF HeapOK
  <2> QED  BY <2>1, <2>2, <2>3
<1>2. m0 \in M /\ \A m \in M : m0 <= m
  <2>1. M \in SUBSET Nat /\ M # {}
    <3>1. L - pos \in 0..(L - pos) /\ 0..(L - pos) \subseteq Nat
      BY <1>1
    <3>2. L - pos \in M
      BY <1>1, <3>1
    <3> QED  BY <1>1, <3>1, <3>2
  <2> HIDE DEF M
  <2> QED  BY <2>1, LeastIsLeast
<1>3. /\ m0 \in Nat /\ pos + m0 <= L
      /\ m0 # L - pos => ~Fits(x, pos, m0 + 1)
      /\ \A m \in Nat : m < m0 => Fits(x, pos, m + 1) /\ pos + m < L
  <2>1. m0 \in 0..(L - pos) /\ (m0 # L - pos => ~Fits(x, pos, m0 + 1))
    BY <1>1, <1>2
  <2>2. ASSUME NEW m \in Nat, m < m0  PROVE Fits(x, pos, m + 1) /\ pos + m < L
    <3>1. m \in 0..(L - pos) /\ m # L - pos /\ m \notin M
      <4> HIDE DEF M, m0, L, pos
      <4> QED  BY <1>1, <1>2, <2>1, <2>2
    <3>2. pos + m < L
      <4> HIDE DEF M, m0, L, pos
      <4> QED  BY <1>1, <2>1, <2>2
    <3> QED  BY <1>1, <3>1, <3>2
  <2> HIDE DEF M, m0, L, pos
  <2> QED  BY <1>1, <2>1, <2>2
<1>4. l = [node |-> n, parent |-> parent, parent_byte |-> b, ikey_pos |-> pos + m0,
           node_p_pos |-> A(m0), node_v_pos |-> x.sep + C(m0)]
  BY DEF MatchPrefix
<1> HIDE DEF M, m0, A, C, L
<1>5. 0 \in S
  <2>1. A(0) = 0 /\ C(0) = 0
    <3>1. \A i : i \notin (pos + 1)..(pos + 0)
      BY <1>1
    <3>2. \A d : {i \in (pos + 1)..(pos + 0) : ikey'[i].dimension = d} = {}
      BY <3>1
    <3>3. \A d : Count(pos, 0, d) = 0
      BY <3>2, FS_EmptySet DEF Count
    <3> QED  BY <3>3 DEF A, C
  <2>2. x.sep \in Nat /\ Len(x.prefix) - x.sep \in Nat
    BY <1>1, NodeFacts
  <2>3. p + 0 = p /\ v + 0 = v
    OBVIOUS
  <2>4. MatchedTo(x, k, u, j, p, v, 0, 0)
    BY <2>2, <2>3 DEF MatchedTo
  <2> QED  BY <2>1, <2>4
<1>6. ASSUME NEW m \in Nat, m \in S  PROVE m + 1 \in S
  <2> SUFFICES ASSUME m + 1 <= m0
               PROVE  MatchedTo(x, k, u, j, p, v, A(m + 1), C(m + 1))
    OBVIOUS
  <2>1. m < m0 /\ m <= m0
    BY <1>3
  <2>2. Fits(x, pos, m + 1) /\ pos + m < L
    BY <1>3, <2>1
  <2>3. MatchedTo(x, k, u, j, p, v, A(m), C(m))
    BY <1>6, <2>1
  <2>4. p + v + m < Len(u)
    BY <2>2 DEF L
  <2> HIDE DEF x, j
  <2>5. Spells(x, j, p, v) /\ x \in NodeRecord /\ j \in Key
    BY <1>1 DEF x, j
  <2> QED  BY <2>2, <2>3, <2>4, <2>5, MatchedFits DEF A, C
<1>7. MatchedTo(x, k, u, j, p, v, A(m0), C(m0))
  <2>1. Nat \subseteq S
    <3> HIDE DEF S
    <3> QED  BY <1>5, <1>6, Induction
  <2>2. m0 \in S
    BY <1>3, <2>1
  <2> QED  BY <1>3, <2>2
<1> HIDE DEF S
<1> DEFINE P == p + A(m0)
           V == v + C(m0)
<1>8. /\ A(m0) \in Nat /\ C(m0) \in Nat /\ Taken(u, pos + m0, "Path") = P
      /\ Taken(u, pos + m0, "Value") = V /\ P + V = pos + m0
  <2>1. /\ A(m0) \in Nat /\ C(m0) \in Nat
        /\ Taken(u, pos + m0, "Path") = Taken(u, pos, "Path") + A(m0)
        /\ Taken(u, pos + m0, "Value") = Taken(u, pos, "Value") + C(m0)
    <3> HIDE DEF pos
    <3>1. m0 \in Nat
      BY <1>3
    <3>2. ASSUME NEW e
          PROVE  /\ Count(pos, m0, e) \in Nat
                 /\ Taken(u, pos + m0, e) = Taken(u, pos, e) + Count(pos, m0, e)
      BY <1>1, <3>1, CountTaken
    <3> QED  BY <3>2 DEF A, C
  <2>2. Taken(u, pos, "Path") = p /\ Taken(u, pos, "Value") = v
    BY <1>1, PassesFacts
  <2>3. pos + m0 \in 0..Len(u)
    BY <1>1, <1>3 DEF L
  <2>4. Taken(u, pos + m0, "Path") + Taken(u, pos + m0, "Value") = pos + m0
    <3> HIDE DEF pos
    <3> QED  BY <1>1, <2>3, TakenSum
  <2> HIDE DEF pos
  <2> QED  BY <2>1, <2>2, <2>4
<1>9. l.node = n /\ l.parent = parent /\ l.parent_byte = b /\ l.ikey_pos = pos + m0
      /\ l.node_p_pos = A(m0) /\ l.node_v_pos = x.sep + C(m0)
  BY <1>4
<1>10. x.sep \in Nat /\ Len(x.prefix) \in Nat /\ x.sep <= Len(x.prefix)
  BY <1>1, NodeFacts
<1>11. A(m0) <= x.sep /\ C(m0) <= Len(x.prefix) - x.sep /\ Passes(u, P, V) /\ Agree(k, j, P, V)
  BY <1>7 DEF MatchedTo
<1>12. P + V < Len(u) => Differs(x, u, l, P + V + 1)
  <2> SUFFICES ASSUME P + V < Len(u) PROVE Differs(x, u, l, P + V + 1)
    OBVIOUS
  <2>1. pos + m0 < Len(u) /\ P + V + 1 = pos + m0 + 1
    <3> HIDE DEF P, V, pos
    <3> QED  BY <1>8
  <2>2. m0 # L - pos
    <3>1. L \in Nat /\ m0 \in Nat /\ pos + m0 < L
      BY <1>1, <1>3, <2>1 DEF L
    <3> HIDE DEF pos, L
    <3> QED  BY <1>1, <3>1
  <2>3. ~Fits(x, pos, m0 + 1)
    BY <1>3, <2>2
  <2>4. StopsAt(x, u, A(m0), C(m0), pos + m0 + 1)
    <3> HIDE DEF x, j
    <3>1. Spells(x, j, p, v) /\ x \in NodeRecord /\ j \in Key
      BY <1>1 DEF x, j
    <3>2. m0 \in Nat
      BY <1>3
    <3>3. MatchedTo(x, k, u, j, p, v, Count(p + v, m0, "Path"), Count(p + v, m0, "Value"))
      BY <1>7 DEF A, C
    <3>4. p + v + m0 < Len(u) /\ ~Fits(x, p + v, m0 + 1)
      BY <2>1, <2>3
    <3>5. StopsAt(x, u, Count(p + v, m0, "Path"), Count(p + v, m0, "Value"), p + v + m0 + 1)
      BY <3>1, <3>2, <3>3, <3>4, MatchedFits
    <3> QED  BY <3>5 DEF A, C
  <2>5. StopsAt(x, u, A(m0), C(m0), P + V + 1)
    <3> HIDE DEF P, V, pos
    <3> QED  BY <2>1, <2>4
  <2> HIDE DEF P, V, pos
  <2> QED  BY <1>9, <2>5 DEF Differs, StopsAt
<1>13. StandsAt(heap, k, u, l, lab, P, V)
  <2>1. l.node_p_pos \in 0..x.sep /\ l.node_v_pos \in x.sep..Len(x.prefix)
        /\ P = lab[n].p + l.node_p_pos /\ V = lab[n].v + (l.node_v_pos - x.sep)
    <3>1. l.node_v_pos - x.sep = C(m0) /\ x.sep + C(m0) \in x.sep..Len(x.prefix)
      <4> HIDE DEF x
      <4> QED  BY <1>8, <1>9, <1>10, <1>11
    <3>2. A(m0) \in 0..x.sep
      <4> HIDE DEF x
      <4> QED  BY <1>8, <1>10, <1>11
    <3> QED  BY <1>9, <3>1, <3>2
  <2>2. l.ikey_pos = P + V
    BY <1>8, <1>9
  <2> HIDE DEF P, V
  <2> QED  BY <1>9, <1>11, <1>12, <2>1, <2>2 DEF StandsAt
<1>14. P \in Nat /\ V \in Nat
  BY <1>8
<1> HIDE DEF P, V
<1> QED  BY <1>13, <1>14 DEF Stands

\* Matching as the Locator does it, at node n.
LEMMA MatchNode ==
  ASSUME HeapOK(heap), NEW lab, Labelled(heap, content, root, lab), NEW n \in DOMAIN heap,
         NEW k \in Key, Merges(ikey', k), Passes(ikey', lab[n].p, lab[n].v),
         Agree(k, lab[n].key, lab[n].p, lab[n].v), NEW parent, NEW b,
         NEW l, l = MatchPrefix(n, parent, b, lab[n].p + lab[n].v)
  PROVE  /\ l.node = n /\ l.parent = parent /\ l.parent_byte = b
         /\ Stands(heap, k, ikey', l, lab)
<1>1. /\ lab[n].key \in Key /\ lab[n].p \in Nat /\ lab[n].v \in Nat
      /\ Spells(heap[n], lab[n].key, lab[n].p, lab[n].v)
  BY LabelFacts DEF LabelOK
<1>2. Stands(heap, k, ikey', l, lab)
  BY <1>1, MatchStands
<1>3. l.node = n /\ l.parent = parent /\ l.parent_byte = b
  BY DEF MatchPrefix
<1> QED  BY <1>2, <1>3

\* A key that has come along with the key of a node, in the same order, goes on
\* with it.
LEMMA GoesAlong ==
  ASSUME PrefixFree, NEW k \in Key, NEW u, Merges(u, k), NEW j \in Key, NEW w, Merges(w, j),
         Alike(u, w), NEW p \in Nat, NEW v \in Nat, Passes(u, p, v), Agree(k, j, p, v),
         p + v < Len(w), NEW d, d = u[p + v + 1].dimension
  PROVE  /\ p + v < Len(u) /\ d \in Dimension /\ d = w[p + v + 1].dimension
         /\ HasByte(k, d, p, v) /\ ByteAt(k, d, p, v) = u[p + v + 1].byte
         /\ HasByte(j, d, p, v)
         /\ Passes(w, p, v)
         /\ Passes(u, p + PathStep(d), v + ValueStep(d))
<1>1. /\ u \in Seq(TaggedByte) /\ w \in Seq(TaggedByte) /\ Len(u) \in Nat /\ Len(w) \in Nat
      /\ Len(u) = Len(k.path) + Len(k.value) /\ Len(w) = Len(j.path) + Len(j.value)
      /\ Len(k.path) \in Nat /\ Len(k.value) \in Nat
  BY MergesFacts
<1>2. Passes(w, p, v)
  BY SameOrder
<1>3. p + v < Len(u)
  <2> SUFFICES ASSUME ~(p + v < Len(u))  PROVE FALSE
    OBVIOUS
  <2>1. p + v = Len(u)
    <3>1. p + v <= Len(u)
      BY DEF Passes
    <3> DEFINE L == Len(u)
    <3>2. L \in Nat /\ p + v <= L /\ ~(p + v < L)
      BY <1>1, <3>1
    <3> HIDE DEF L
    <3>3. p + v = L
      BY <3>2
    <3> QED  BY <3>3 DEF L
  <2>2. Taken(u, p + v, "Path") = p /\ Taken(u, p + v, "Value") = v
    BY <1>1, PassesFacts
  <2>3. Taken(u, Len(u), "Path") = Len(k.path) /\ Taken(u, Len(u), "Value") = Len(k.value)
    BY DEF Merges, MergeOf
  <2>4. p = Len(k.path) /\ v = Len(k.value)
    BY <2>1, <2>2, <2>3
  <2>5. k.path = j.path /\ k.value = j.value
    BY <2>4, AgreeToEnd
  <2>6. Len(u) = Len(w)
    BY <1>1, <2>5
  <2> QED  BY <1>1, <2>1, <2>6
<1>4. d \in Dimension /\ HasByte(k, d, p, v) /\ ByteAt(k, d, p, v) = u[p + v + 1].byte
  BY <1>3, MergeNext
<1>5. d = w[p + v + 1].dimension
  BY <1>3, SameOrder
<1>6. HasByte(j, d, p, v)
  BY <1>2, <1>5, MergeNext
<1>7. Passes(u, p + PathStep(d), v + ValueStep(d))
  <2>1. p + v + 1 <= Len(u)
    <3> DEFINE L == Len(u)
    <3>1. L \in Nat /\ p + v < L
      BY <1>1, <1>3
    <3> HIDE DEF L
    <3>2. p + v + 1 <= L
      BY <3>1
    <3> QED  BY <3>2 DEF L
  <2> QED  BY <1>1, <2>1, PassesFacts
<1> QED  BY <1>2, <1>3, <1>4, <1>5, <1>6, <1>7

-----------------------------------------------------------------------------
(* Every node comes in the order of an interleaved key that was inserted.   *)

\* Node x with label l lies in order w: what it has consumed comes first, then
\* its prefix, then the byte that selects the child.
Follows(x, l, w) ==
  LET p == l.p + x.sep
      v == l.v + (Len(x.prefix) - x.sep)
  IN  /\ Merges(w, l.key) /\ Passes(w, l.p, l.v) /\ Passes(w, p, v)
      /\ x.dim # "Leaf" => p + v < Len(w) /\ w[p + v + 1].dimension = x.dim

Ordered(h, lab, O) == \A n \in DOMAIN h : \E w \in O : Follows(h[n], lab[n], w)

Orders == {w.bytes : w \in used}

\* What is true where Descend stops in front of the end of a prefix.
LEMMA StopFacts ==
  ASSUME PrefixFree, NEW h, HeapOK(h), NEW ct, NEW rt, NEW lab, Labelled(h, ct, rt, lab),
         NEW k \in Key, NEW u, Merges(u, k), NEW l, l.node \in DOMAIN h,
         NEW w, Follows(h[l.node], lab[l.node], w), Alike(u, w),
         NEW p \in Nat, NEW v \in Nat, StandsAt(h, k, u, l, lab, p, v),
         l.node_p_pos < h[l.node].sep \/ l.node_v_pos < Len(h[l.node].prefix),
         NEW d, d = u[p + v + 1].dimension
  PROVE  /\ p + v < Len(u) /\ d \in Dimension
         /\ SplitAt(h[l.node], l.node_p_pos, l.node_v_pos, d)
         /\ HasByte(k, d, p, v) /\ ByteAt(k, d, p, v) = u[p + v + 1].byte
         /\ ByteAt(lab[l.node].key, d, p, v) = h[l.node].prefix[IF d = "Path" THEN l.node_p_pos + 1 ELSE l.node_v_pos + 1]
         /\ ByteAt(lab[l.node].key, d, p, v) # ByteAt(k, d, p, v)
         /\ ct[k] = <<>>
         /\ Passes(w, p, v) /\ Passes(w, p + PathStep(d), v + ValueStep(d))
         /\ p + v < Len(w) /\ w[p + v + 1].dimension = d
         /\ Passes(u, p + PathStep(d), v + ValueStep(d))
<1> DEFINE n == l.node
           x == h[n]
           j == lab[n].key
           np == l.node_p_pos
           nv == l.node_v_pos
           E == EndP(h, lab, n)
           F == EndV(h, lab, n)
           S == x.sep
           T == Len(x.prefix)
           p0 == lab[n].p
           v0 == lab[n].v
<1>1. /\ n \in DOMAIN h /\ x \in NodeRecord /\ j \in Key /\ p0 \in Nat /\ v0 \in Nat
      /\ E \in Nat /\ F \in Nat /\ S \in Nat /\ T \in Nat /\ S <= T
  <2>1. x \in NodeRecord
    BY DEF HeapOK
  <2> QED  BY <2>1, LabelFacts, NodeFacts
<1>2. Spells(x, j, p0, v0) /\ E = p0 + S /\ F = v0 + (T - S)
  BY <1>1, LabelFacts DEF LabelOK, EndP, EndV
<1>3. /\ np \in 0..S /\ nv \in S..T /\ p = p0 + np /\ v = v0 + (nv - S)
      /\ Passes(u, p, v) /\ Agree(k, j, p, v)
      /\ p + v < Len(u) => Differs(x, u, l, p + v + 1)
  BY DEF StandsAt
<1>4. Merges(w, j) /\ Passes(w, E, F)
  BY <1>2 DEF Follows
<1>5. w \in Seq(TaggedByte) /\ Len(w) \in Nat
  BY <1>1, <1>4, MergesFacts
<1>6. np < S \/ nv < T
  OBVIOUS
<1> HIDE DEF n, x, j, np, nv, E, F, S, T, p0, v0
<1>7. p <= E /\ v <= F /\ p + v < E + F /\ np \in Nat /\ nv \in Nat /\ p0 <= p /\ v0 <= v
  <2>1. np \in Nat /\ nv \in Nat /\ np <= S /\ S <= nv /\ nv <= T
    BY <1>1, <1>3
  <2>2. p = p0 + np /\ v = v0 + (nv - S)
    BY <1>3
  <2>3. p <= E /\ p0 <= p
    BY <1>1, <1>2, <2>1, <2>2
  <2>4. v <= F /\ v0 <= v
    BY <1>1, <1>2, <2>1, <2>2
  <2>5. p < E \/ v < F
    BY <1>1, <1>2, <1>6, <2>1, <2>2
  <2>6. p + v < E + F
    BY <1>1, <2>3, <2>4, <2>5
  <2> QED  BY <2>1, <2>3, <2>4, <2>6
<1>8. p + v < Len(w)
  <2>1. E + F <= Len(w)
    BY <1>4 DEF Passes
  <2> DEFINE L == Len(w)
  <2>2. L \in Nat /\ E + F <= L
    BY <1>5, <2>1
  <2> HIDE DEF L
  <2>3. p + v < L
    BY <1>1, <1>7, <2>2
  <2> QED  BY <2>3 DEF L
<1>9. /\ p + v < Len(u) /\ d \in Dimension /\ d = w[p + v + 1].dimension
      /\ HasByte(k, d, p, v) /\ ByteAt(k, d, p, v) = u[p + v + 1].byte
      /\ HasByte(j, d, p, v)
      /\ Passes(w, p, v)
      /\ Passes(u, p + PathStep(d), v + ValueStep(d))
  BY <1>1, <1>3, <1>4, <1>8, GoesAlong
<1>10. /\ Passes(w, p + PathStep(d), v + ValueStep(d))
       /\ p + PathStep(d) + (v + ValueStep(d)) = p + v + 1
  <2>1. p + v + 1 <= Len(w)
    <3> DEFINE L == Len(w)
    <3>1. L \in Nat /\ p + v < L
      BY <1>5, <1>8
    <3> HIDE DEF L
    <3>2. p + v + 1 <= L
      BY <3>1
    <3> QED  BY <3>2 DEF L
  <2> QED  BY <1>5, <1>9, <2>1, PassesFacts
<1>11. p + PathStep(d) <= E /\ v + ValueStep(d) <= F
  <2>1. PathStep(d) \in Nat /\ ValueStep(d) \in Nat
    BY DEF PathStep, ValueStep
  <2> DEFINE p2 == p + PathStep(d)
             v2 == v + ValueStep(d)
  <2>2. p2 \in Nat /\ v2 \in Nat /\ Passes(w, p2, v2) /\ p2 + v2 <= E + F
    BY <1>1, <1>7, <1>10, <2>1
  <2> HIDE DEF p2, v2
  <2>3. p2 <= E /\ v2 <= F
    BY <1>1, <1>4, <1>5, <2>2, PassesBounds
  <2> QED  BY <2>3 DEF p2, v2
<1>12. np + PathStep(d) <= S /\ nv + ValueStep(d) <= T
  <2>1. PathStep(d) \in Nat /\ ValueStep(d) \in Nat
    BY DEF PathStep, ValueStep
  <2> QED  BY <1>1, <1>2, <1>3, <1>7, <1>11, <2>1
<1>13. SplitAt(x, np, nv, d)
  BY <1>1, <1>3, <1>9, <1>12 DEF SplitAt, S, T
<1>14. /\ ByteAt(j, d, p, v) = x.prefix[IF d = "Path" THEN np + 1 ELSE nv + 1]
       /\ ByteAt(j, d, p, v) # u[p + v + 1].byte
  <2>1. /\ \A i \in 1..S : x.prefix[i] = j.path[p0 + i]
        /\ \A i \in 1..(T - S) : x.prefix[S + i] = j.value[v0 + i]
    BY <1>2 DEF Spells, S, T
  <2>2. Differs(x, u, l, p + v + 1)
    BY <1>3, <1>9
  <2>3. CASE d = "Path"
    <3>1. np + 1 \in 1..S /\ p0 + (np + 1) = p + 1 /\ np < S
      BY <1>1, <1>3, <1>7, <1>12, <2>3 DEF PathStep
    <3>2. x.prefix[np + 1] = j.path[p + 1]
      BY <2>1, <3>1
    <3>3. x.prefix[np + 1] # u[p + v + 1].byte
      BY <2>2, <2>3, <3>1 DEF Differs, np, S
    <3> QED  BY <2>3, <3>2, <3>3 DEF ByteAt
  <2>4. CASE d = "Value"
    <3>1. nv - S + 1 \in 1..(T - S) /\ v0 + (nv - S + 1) = v + 1 /\ nv < T /\ S + (nv - S + 1) = nv + 1
      BY <1>1, <1>3, <1>7, <1>12, <2>4 DEF ValueStep
    <3>2. x.prefix[nv + 1] = j.value[v + 1]
      BY <2>1, <3>1
    <3>3. x.prefix[nv + 1] # u[p + v + 1].byte
      BY <2>2, <2>4, <3>1 DEF Differs, nv, T
    <3> QED  BY <2>4, <3>2, <3>3 DEF ByteAt
  <2> QED  BY <1>9, <2>3, <2>4 DEF Dimension
<1>15. ct[k] = <<>>
  <2> SUFFICES ASSUME ct[k] # <<>>  PROVE FALSE
    OBVIOUS
  <2>1. Agree(k, j, p0, v0)
    BY <1>1, <1>3, <1>7, AgreeMono
  <2>2. Agree(k, j, E, F)
    BY <1>1, <2>1, StoredIsBelow DEF j, p0, v0, E, F
  <2>3. CASE d = "Path"
    <3>1. p + 1 \in 1..E
      BY <1>1, <1>7, <1>11, <2>3 DEF PathStep
    <3>2. k.path[p + 1] = j.path[p + 1]
      BY <2>2, <3>1 DEF Agree
    <3> QED  BY <1>9, <1>14, <2>3, <3>2 DEF ByteAt
  <2>4. CASE d = "Value"
    <3>1. v + 1 \in 1..F
      BY <1>1, <1>7, <1>11, <2>4 DEF ValueStep
    <3>2. k.value[v + 1] = j.value[v + 1]
      BY <2>2, <3>1 DEF Agree
    <3> QED  BY <1>9, <1>14, <2>4, <3>2 DEF ByteAt
  <2> QED  BY <1>9, <2>3, <2>4 DEF Dimension
<1>16. ByteAt(j, d, p, v) # ByteAt(k, d, p, v)
  BY <1>9, <1>14
<1> QED  BY <1>8, <1>9, <1>10, <1>13, <1>14, <1>15, <1>16 DEF n, x, j, np, nv

\* What is true where the whole prefix matches.
LEMMA PassFacts ==
  ASSUME PrefixFree, NEW h, HeapOK(h), NEW ct, NEW rt, NEW lab, Labelled(h, ct, rt, lab),
         NEW k \in Key, NEW u, Merges(u, k), NEW l, l.node \in DOMAIN h,
         NEW w, Follows(h[l.node], lab[l.node], w), Alike(u, w),
         NEW p \in Nat, NEW v \in Nat, StandsAt(h, k, u, l, lab, p, v),
         ~(l.node_p_pos < h[l.node].sep), ~(l.node_v_pos < Len(h[l.node].prefix)),
         NEW d, d = h[l.node].dim
  PROVE  /\ p = EndP(h, lab, l.node) /\ v = EndV(h, lab, l.node)
         /\ Agree(k, lab[l.node].key, p, v)
         /\ d = "Leaf" => k = lab[l.node].key
         /\ d # "Leaf" =>
              /\ p + v < Len(u) /\ u[p + v + 1].dimension = d /\ d \in Dimension
              /\ HasByte(k, d, p, v) /\ ByteAt(k, d, p, v) = u[p + v + 1].byte
              /\ Passes(u, p + PathStep(d), v + ValueStep(d))
<1> DEFINE n == l.node
           x == h[n]
           j == lab[n].key
           np == l.node_p_pos
           nv == l.node_v_pos
           E == EndP(h, lab, n)
           F == EndV(h, lab, n)
           S == x.sep
           T == Len(x.prefix)
           p0 == lab[n].p
           v0 == lab[n].v
<1>1. /\ n \in DOMAIN h /\ x \in NodeRecord /\ j \in Key /\ p0 \in Nat /\ v0 \in Nat
      /\ E \in Nat /\ F \in Nat /\ S \in Nat /\ T \in Nat /\ S <= T
  <2>1. x \in NodeRecord
    BY DEF HeapOK
  <2> QED  BY <2>1, LabelFacts, NodeFacts
<1>2. E = p0 + S /\ F = v0 + (T - S)
  BY DEF EndP, EndV
<1>3. /\ np \in 0..S /\ nv \in S..T /\ p = p0 + np /\ v = v0 + (nv - S)
      /\ Passes(u, p, v) /\ Agree(k, j, p, v)
  BY DEF StandsAt
<1>4. Merges(w, j) /\ (d # "Leaf" => E + F < Len(w) /\ w[E + F + 1].dimension = d)
  BY <1>2 DEF Follows
<1>5. ~(np < S) /\ ~(nv < T)
  OBVIOUS
<1>6. LabelOK(h, ct, lab, n)
  BY LabelFacts
<1>7. d = "Leaf" => E = Len(j.path) /\ F = Len(j.value)
  BY <1>6 DEF LabelOK, EndOK
<1> HIDE DEF n, x, j, np, nv, E, F, S, T, p0, v0
<1>8. p = E /\ v = F
  BY <1>1, <1>2, <1>3, <1>5
<1>9. d = "Leaf" => k = j
  <2> SUFFICES ASSUME d = "Leaf"  PROVE k = j
    OBVIOUS
  <2>1. Agree(j, k, p, v)
    BY <1>3, AgreeSym
  <2>2. p = Len(j.path) /\ v = Len(j.value)
    BY <1>7, <1>8
  <2>3. j.path = k.path /\ j.value = k.value
    BY <1>1, <2>1, <2>2, AgreeToEnd
  <2> QED  BY <1>1, <2>3, KeyFacts
<1>10. ASSUME d # "Leaf"
       PROVE  /\ p + v < Len(u) /\ u[p + v + 1].dimension = d /\ d \in Dimension
              /\ HasByte(k, d, p, v) /\ ByteAt(k, d, p, v) = u[p + v + 1].byte
              /\ Passes(u, p + PathStep(d), v + ValueStep(d))
  <2> DEFINE e == u[p + v + 1].dimension
  <2>1. p + v < Len(w) /\ w[p + v + 1].dimension = d
    BY <1>4, <1>8, <1>10
  <2>2. /\ p + v < Len(u) /\ e \in Dimension /\ e = w[p + v + 1].dimension
        /\ HasByte(k, e, p, v) /\ ByteAt(k, e, p, v) = u[p + v + 1].byte
        /\ Passes(u, p + PathStep(e), v + ValueStep(e))
    BY <1>1, <1>3, <1>4, <2>1, GoesAlong
  <2>3. e = d
    BY <2>1, <2>2
  <2> HIDE DEF e
  <2> QED  BY <2>2, <2>3 DEF e
<1> QED  BY <1>3, <1>8, <1>9, <1>10 DEF E, F, n, j

-----------------------------------------------------------------------------
(* The changes of the heap keep every node in the order of a key.           *)

LEMMA SameFollows ==
  ASSUME NEW x, NEW y, y.sep = x.sep, y.prefix = x.prefix, y.dim = x.dim, NEW l, NEW w,
         Follows(x, l, w)
  PROVE  Follows(y, l, w)
BY DEF Follows

LEMMA PutSame ==
  ASSUME NEW z \in NodeRecord, NEW b, NEW s
  PROVE  Put(z, b, s).sep = z.sep /\ Put(z, b, s).prefix = z.prefix /\ Put(z, b, s).dim = z.dim
<1> DEFINE y == Put(z, b, s)
<1>1. z = [dim |-> z.dim, prefix |-> z.prefix, sep |-> z.sep,
           children |-> z.children, layout |-> z.layout, refs |-> z.refs]
  BY NodeFacts
<1>2. y = [z EXCEPT !.children[b] = s]
  BY DEF Put
<1> HIDE DEF y
<1>3. y = [dim |-> z.dim, prefix |-> z.prefix, sep |-> z.sep,
           children |-> [z.children EXCEPT ![b] = s], layout |-> z.layout, refs |-> z.refs]
  BY <1>1, <1>2
<1>4. y.sep = z.sep /\ y.prefix = z.prefix /\ y.dim = z.dim
  BY <1>3
<1> QED  BY <1>4 DEF y

\* A leaf for key k behind the first p path and v value bytes of order u.
LEMMA LeafFollows ==
  ASSUME NEW k \in Key, NEW u, Merges(u, k), NEW p \in 0..Len(k.path), NEW v \in 0..Len(k.value),
         Passes(u, p, v), NEW r \in Ref, NEW x, x = NewLeaf(k, p, v, r),
         NEW l, l.key = k, l.p = p, l.v = v
  PROVE  Follows(x, l, u)
<1>1. /\ x.dim = "Leaf" /\ p + x.sep = Len(k.path) /\ v + (Len(x.prefix) - x.sep) = Len(k.value)
  BY NewLeafFacts
<1>2. Passes(u, Len(k.path), Len(k.value))
  BY MergesFacts
<1> QED  BY <1>1, <1>2 DEF Follows

LEMMA LinkedOrdered ==
  ASSUME NEW h, HeapOK(h), NEW n \in DOMAIN h, h[n].dim # "Leaf", NEW b \in Byte,
         NEW s \in Node, s \notin DOMAIN h, NEW k \in Key,
         NEW p \in 0..Len(k.path), NEW v \in 0..Len(k.value), NEW r \in Ref,
         NEW lab, DOMAIN lab = DOMAIN h, NEW O, Ordered(h, lab, O),
         NEW u \in O, Merges(u, k), Passes(u, p, v)
  PROVE  Ordered(Linked(h, n, b, s, NewLeaf(k, p, v, r)),
                 With(lab, s, [key |-> k, p |-> p, v |-> v]), O)
<1> DEFINE x == NewLeaf(k, p, v, r)
           l == [key |-> k, p |-> p, v |-> v]
           h2 == Linked(h, n, b, s, x)
           lab2 == With(lab, s, l)
<1>1. x \in NodeRecord
  BY NewLeafFacts
<1>2. IsLinked(h, h2, n, b, s, x)
  <2> HIDE DEF x
  <2> QED  BY <1>1, LinkedFacts
<1>3. /\ DOMAIN h2 = DOMAIN h \cup {s} /\ h2[s] = x
      /\ \A m \in DOMAIN h : /\ h2[m].dim = h[m].dim /\ h2[m].prefix = h[m].prefix
                             /\ h2[m].sep = h[m].sep
  BY <1>2 DEF IsLinked
<1>4. lab2[s] = l /\ \A m \in DOMAIN h : lab2[m] = lab[m]
  BY DEF With
<1>5. l.key = k /\ l.p = p /\ l.v = v
  OBVIOUS
<1>6. Follows(x, l, u)
  <2> HIDE DEF l
  <2> QED  BY <1>5, LeafFollows
<1> HIDE DEF x, l, h2, lab2
<1>7. Ordered(h2, lab2, O)
  <2> SUFFICES ASSUME NEW m \in DOMAIN h2  PROVE \E w \in O : Follows(h2[m], lab2[m], w)
    BY DEF Ordered
  <2>1. CASE m = s
    BY <1>3, <1>4, <1>6, <2>1
  <2>2. CASE m \in DOMAIN h
    <3>1. PICK w \in O : Follows(h[m], lab[m], w)
      BY <2>2 DEF Ordered
    <3>2. h2[m].dim = h[m].dim /\ h2[m].prefix = h[m].prefix /\ h2[m].sep = h[m].sep
      BY <1>3, <2>2
    <3>3. Follows(h2[m], lab[m], w)
      BY <3>1, <3>2, SameFollows
    <3> QED  BY <1>4, <2>2, <3>3
  <2> QED  BY <1>3, <2>1, <2>2
<1> QED  BY <1>7 DEF h2, lab2, x, l

LEMMA MovedOrdered ==
  ASSUME NEW h, HeapOK(h), NEW n \in DOMAIN h, NEW parent, NEW b, NEW g, g \notin DOMAIN h,
         NEW z, z.dim = h[n].dim, z.prefix = h[n].prefix, z.sep = h[n].sep,
         NEW lab, DOMAIN lab = DOMAIN h, NEW O, Ordered(h, lab, O)
  PROVE  Ordered(Move(h, n, g, parent, b, z), MoveLabel(lab, n, g), O)
<1> DEFINE h2 == Move(h, n, g, parent, b, z)
           lab2 == MoveLabel(lab, n, g)
<1> SUFFICES ASSUME NEW m \in DOMAIN h2  PROVE \E w \in O : Follows(h2[m], lab2[m], w)
  BY DEF Ordered
<1>1. /\ m \in (DOMAIN h \cup {g}) \ {n}
      /\ h2[m] = IF m = g THEN z ELSE IF m = parent THEN Put(h[m], b, g) ELSE h[m]
      /\ lab2[m] = IF m = g THEN lab[n] ELSE lab[m]
  BY DEF Move, MoveLabel
<1> HIDE DEF h2, lab2
<1>2. CASE m = g
  <2>1. PICK w \in O : Follows(h[n], lab[n], w)
    BY DEF Ordered
  <2>2. Follows(z, lab[n], w)
    BY <2>1, SameFollows
  <2> QED  BY <1>1, <1>2, <2>2
<1>3. CASE m # g
  <2>1. m \in DOMAIN h /\ h[m] \in NodeRecord
    BY <1>1, <1>3 DEF HeapOK
  <2>2. PICK w \in O : Follows(h[m], lab[m], w)
    BY <2>1 DEF Ordered
  <2>3. h2[m].dim = h[m].dim /\ h2[m].prefix = h[m].prefix /\ h2[m].sep = h[m].sep
    BY <1>1, <1>3, <2>1, PutSame
  <2>4. Follows(h2[m], lab[m], w)
    BY <2>2, <2>3, SameFollows
  <2> QED  BY <1>1, <1>3, <2>4
<1> QED  BY <1>2, <1>3

LEMMA SplitOrdered ==
  ASSUME NEW h, HeapOK(h), NEW ct, NEW rt, NEW lab, Labelled(h, ct, rt, lab),
         NEW n \in DOMAIN h, NEW parent, NEW b,
         NEW q \in Node, q \notin DOMAIN h, NEW np, NEW nv, NEW d, SplitAt(h[n], np, nv, d),
         NEW p, p = lab[n].p + np, NEW v, v = lab[n].v + (nv - h[n].sep),
         NEW e \in Byte, NEW O, Ordered(h, lab, O),
         NEW w \in O, Follows(h[n], lab[n], w), Passes(w, p, v),
         Passes(w, p + PathStep(d), v + ValueStep(d)), p + v < Len(w), w[p + v + 1].dimension = d
  PROVE  Ordered(Split(h, n, q, parent, b, UpperNode(h[n], np, nv, d, e, n), LowerNode(h[n], np, nv, d)),
                 SplitLabel(lab, n, q, [key |-> lab[n].key, p |-> p + PathStep(d), v |-> v + ValueStep(d)]),
                 O)
<1> DEFINE x == h[n]
           k == lab[n].key
           p2 == p + PathStep(d)
           v2 == v + ValueStep(d)
           u == UpperNode(h[n], np, nv, d, e, n)
           y == LowerNode(h[n], np, nv, d)
           l == [key |-> lab[n].key, p |-> p2, v |-> v2]
           h2 == Split(h, n, q, parent, b, u, y)
           lab2 == SplitLabel(lab, n, q, l)
<1>1. /\ k \in Key /\ lab[n].p \in Nat /\ lab[n].v \in Nat
      /\ Len(k.path) \in Nat /\ Len(k.value) \in Nat
      /\ Spells(x, k, lab[n].p, lab[n].v) /\ n \in Node /\ q # n
      /\ DOMAIN lab = DOMAIN h
  <2>1. k \in Key /\ lab[n].p \in Nat /\ lab[n].v \in Nat /\ LabelOK(h, ct, lab, n)
    BY LabelFacts
  <2>2. n \in Node /\ q # n
    BY DEF HeapOK
  <2>3. DOMAIN lab = DOMAIN h
    BY DEF Labelled
  <2> QED  BY <2>1, <2>2, <2>3, KeyFacts DEF LabelOK
<1>2. u.dim = d /\ u.sep = np /\ Len(u.prefix) - u.sep = nv - x.sep
  BY <1>1, UpperFacts
<1>3. /\ y.dim = x.dim /\ p2 + y.sep = lab[n].p + x.sep
      /\ v2 + (Len(y.prefix) - y.sep) = lab[n].v + (Len(x.prefix) - x.sep)
  BY <1>1, LowerFacts
<1>4. l.key = k /\ l.p = p2 /\ l.v = v2
  OBVIOUS
<1>5. /\ DOMAIN h2 = DOMAIN h \cup {q} /\ h2[q] = u /\ h2[n] = y
      /\ \A m \in DOMAIN h \ {n} : h2[m] = IF m = parent THEN Put(h[m], b, q) ELSE h[m]
      /\ lab2[q] = lab[n] /\ lab2[n] = l
      /\ \A m \in DOMAIN h \ {n} : lab2[m] = lab[m]
  BY <1>1 DEF Split, SplitLabel
<1>6. /\ Merges(w, k) /\ Passes(w, lab[n].p, lab[n].v)
      /\ Passes(w, lab[n].p + x.sep, lab[n].v + (Len(x.prefix) - x.sep))
      /\ x.dim # "Leaf" =>
           /\ lab[n].p + x.sep + (lab[n].v + (Len(x.prefix) - x.sep)) < Len(w)
           /\ w[lab[n].p + x.sep + (lab[n].v + (Len(x.prefix) - x.sep)) + 1].dimension = x.dim
  BY DEF Follows
<1> HIDE DEF u, y, h2, lab2, l, p2, v2
<1>7. Follows(u, lab[n], w)
  <2>1. lab[n].p + u.sep = p /\ lab[n].v + (Len(u.prefix) - u.sep) = v
    BY <1>2
  <2> QED  BY <1>2, <1>6, <2>1 DEF Follows
<1>8. Follows(y, l, w)
  <2>1. Passes(w, p2, v2)
    BY DEF p2, v2
  <2> HIDE DEF x, k
  <2> QED  BY <1>3, <1>4, <1>6, <2>1 DEF Follows
<1>9. Ordered(h2, lab2, O)
  <2> SUFFICES ASSUME NEW m \in DOMAIN h2  PROVE \E o \in O : Follows(h2[m], lab2[m], o)
    BY DEF Ordered
  <2>1. CASE m = q
    BY <1>5, <1>7, <2>1
  <2>2. CASE m = n
    BY <1>5, <1>8, <2>2
  <2>3. CASE m \in DOMAIN h \ {n}
    <3>1. h[m] \in NodeRecord
      BY <2>3 DEF HeapOK
    <3>2. PICK o \in O : Follows(h[m], lab[m], o)
      BY <2>3 DEF Ordered
    <3>3. h2[m].dim = h[m].dim /\ h2[m].prefix = h[m].prefix /\ h2[m].sep = h[m].sep
      BY <1>5, <2>3, <3>1, PutSame
    <3>4. Follows(h2[m], lab[m], o)
      BY <3>2, <3>3, SameFollows
    <3> QED  BY <1>5, <2>3, <3>4
  <2> QED  BY <1>5, <2>1, <2>2, <2>3
<1> QED  BY <1>9 DEF h2, lab2, u, y, l, p2, v2

-----------------------------------------------------------------------------
(* What the last step of an insertion leaves behind.                        *)

\* The new leaf has the bytes of the key behind the place in its order.
LEMMA LeafIs ==
  ASSUME NEW k \in Key, k.path = bkey.path, k.value = bkey.value, Merges(ikey, k),
         NEW p \in Nat, NEW v \in Nat, Passes(ikey, p, v), NEW pos, pos = p + v
  PROVE  /\ LeafFrom(pos) = NewLeaf(k, p, v, bkey.ref)
         /\ p \in 0..Len(k.path) /\ v \in 0..Len(k.value)
<1>1. /\ ikey \in Seq(TaggedByte) /\ Len(ikey) \in Nat
      /\ Len(k.path) \in Nat /\ Len(k.value) \in Nat
      /\ Len(ikey) = Len(k.path) + Len(k.value)
      /\ Passes(ikey, Len(k.path), Len(k.value))
  BY MergesFacts
<1>2. /\ k.path \in Seq(Byte) /\ k.value \in Seq(Byte)
  BY KeyFacts
<1>3. p + v <= Len(ikey)
  BY DEF Passes
<1>4. p <= Len(k.path) /\ v <= Len(k.value)
  <2> DEFINE K == Len(k.path)
             W == Len(k.value)
  <2>1. K \in Nat /\ W \in Nat /\ Passes(ikey, K, W) /\ p + v <= K + W
    BY <1>1, <1>3
  <2> HIDE DEF K, W
  <2>2. p <= K /\ v <= W
    BY <1>1, <2>1, PassesBounds
  <2> QED  BY <2>2 DEF K, W
<1>5. pos \in 0..Len(ikey)
  <2> DEFINE L == Len(ikey)
  <2>1. L \in Nat /\ p + v <= L
    BY <1>1, <1>3
  <2> HIDE DEF L
  <2>2. pos \in 0..L
    BY <2>1
  <2> QED  BY <2>2 DEF L
<1>6. Taken(ikey, pos, "Path") = p /\ Taken(ikey, pos, "Value") = v
  BY <1>1, PassesFacts
<1>7. Rest(pos, "Path") = From(k.path, p) /\ Rest(pos, "Value") = From(k.value, v)
  <2>1. "Path" \in Dimension /\ "Value" \in Dimension
    BY DEF Dimension
  <2>2. Rest(pos, "Path") = From(BytesOf(k, "Path"), Taken(ikey, pos, "Path"))
    BY <1>5, <2>1, RestIs
  <2>3. Rest(pos, "Value") = From(BytesOf(k, "Value"), Taken(ikey, pos, "Value"))
    BY <1>5, <2>1, RestIs
  <2> QED  BY <1>6, <2>2, <2>3 DEF BytesOf
<1>8. p \in 0..Len(k.path) /\ v \in 0..Len(k.value)
  BY <1>1, <1>4
<1>9. Len(From(k.path, p)) = Len(k.path) - p
  BY <1>2, <1>8, FromCopy
<1>10. LeafFrom(pos) = NewLeaf(k, p, v, bkey.ref)
  BY <1>7, <1>9 DEF LeafFrom, NewLeaf
<1> QED  BY <1>8, <1>10

\* The heap behind SplitNode.
LEMMA RelinkSplit ==
  ASSUME HeapOK(heap), NEW ct, NEW lab, Labelled(heap, ct, root, lab),
         NEW n \in DOMAIN heap, Hangs(heap, root, n, loc.parent, loc.parent_byte),
         NEW q, NEW s, q \notin DOMAIN heap, s \notin DOMAIN heap, s # q,
         NEW u, NEW y, NEW x, NEW b, NEW g0, DOMAIN g0 = DOMAIN heap \cup {q, s},
         g0 = [m \in DOMAIN heap \cup {q, s} |-> g0[m]],
         g0[q] = Put(u, b, s), g0[s] = x, g0[n] = y, \A m \in DOMAIN heap \ {n} : g0[m] = heap[m],
         Relink(g0, q)
  PROVE  /\ heap' = Linked(Split(heap, n, q, loc.parent, loc.parent_byte, u, y), q, b, s, x)
         /\ root' = IF loc.parent = nullptr THEN q ELSE root
<1> DEFINE par == loc.parent
           pb == loc.parent_byte
           h2 == Linked(Split(heap, n, q, par, pb, u, y), q, b, s, x)
           h3 == [g0 EXCEPT ![par] = Put(@, pb, q)]
<1>1. /\ par = nullptr => root' = q /\ heap' = g0
      /\ par # nullptr => root' = root /\ heap' = h3
  BY DEF Relink
<1>2. par # nullptr => par \in DOMAIN heap /\ par # n
  BY HangsFacts DEF Hangs
<1>3. nullptr \notin DOMAIN heap
  BY HeapAssumption DEF HeapOK
<1> HIDE DEF par, pb
<1>4. /\ h2 = [m \in DOMAIN heap \cup {q, s} |-> h2[m]]
      /\ h2[q] = Put(u, b, s) /\ h2[s] = x /\ h2[n] = y
      /\ \A m \in DOMAIN heap \ {n} : h2[m] = IF m = par THEN Put(heap[m], pb, q) ELSE heap[m]
  BY DEF Linked, Split
<1>5. CASE par = nullptr
  <2>1. \A m \in DOMAIN heap \cup {q, s} : g0[m] = h2[m]
    BY <1>3, <1>4, <1>5
  <2> HIDE DEF h2
  <2>2. g0 = h2
    BY <1>4, <2>1
  <2> QED  BY <1>1, <1>5, <2>2 DEF h2, par, pb
<1>6. CASE par # nullptr
  <2>1. /\ h3 = [m \in DOMAIN heap \cup {q, s} |-> h3[m]]
        /\ \A m \in DOMAIN g0 : h3[m] = IF m = par THEN Put(g0[m], pb, q) ELSE g0[m]
    OBVIOUS
  <2>2. par \in DOMAIN heap \ {n} /\ par # q /\ par # s
    BY <1>2, <1>6
  <2> HIDE DEF h2, h3
  <2>3. \A m \in DOMAIN heap \cup {q, s} : h3[m] = h2[m]
    BY <1>4, <2>1, <2>2
  <2>4. h3 = h2
    BY <1>4, <2>1, <2>3
  <2> QED  BY <1>1, <1>6, <2>4 DEF h2, par, pb
<1> QED  BY <1>5, <1>6

\* The heap behind a node that grows.
LEMMA RelinkMove ==
  ASSUME HeapOK(heap), NEW ct, NEW lab, Labelled(heap, ct, root, lab),
         NEW n \in DOMAIN heap, Hangs(heap, root, n, loc.parent, loc.parent_byte),
         NEW g, NEW s, g \notin DOMAIN heap, s \notin DOMAIN heap, s # g,
         NEW z, NEW x, NEW b, NEW g0, DOMAIN g0 = (DOMAIN heap \cup {s, g}) \ {n},
         g0 = [m \in (DOMAIN heap \cup {s, g}) \ {n} |-> g0[m]],
         g0[g] = Put(z, b, s), g0[s] = x, \A m \in DOMAIN heap \ {n} : g0[m] = heap[m],
         Relink(g0, g)
  PROVE  /\ heap' = Linked(Move(heap, n, g, loc.parent, loc.parent_byte, z), g, b, s, x)
         /\ root' = IF loc.parent = nullptr THEN g ELSE root
<1> DEFINE par == loc.parent
           pb == loc.parent_byte
           D == (DOMAIN heap \cup {s, g}) \ {n}
           h2 == Linked(Move(heap, n, g, par, pb, z), g, b, s, x)
           h3 == [g0 EXCEPT ![par] = Put(@, pb, g)]
<1>1. /\ par = nullptr => root' = g /\ heap' = g0
      /\ par # nullptr => root' = root /\ heap' = h3
  BY DEF Relink
<1>2. par # nullptr => par \in DOMAIN heap /\ par # n
  BY HangsFacts DEF Hangs
<1>3. nullptr \notin DOMAIN heap
  BY HeapAssumption DEF HeapOK
<1> HIDE DEF par, pb
<1>4. /\ h2 = [m \in D |-> h2[m]]
      /\ h2[g] = Put(z, b, s) /\ h2[s] = x
      /\ \A m \in DOMAIN heap \ {n} : h2[m] = IF m = par THEN Put(heap[m], pb, g) ELSE heap[m]
  <2>1. DOMAIN Move(heap, n, g, par, pb, z) \cup {s} = D
    BY DEF Move
  <2> QED  BY <2>1 DEF Linked, Move
<1>5. CASE par = nullptr
  <2>1. \A m \in D : g0[m] = h2[m]
    BY <1>3, <1>4, <1>5
  <2> HIDE DEF h2
  <2>2. g0 = h2
    BY <1>4, <2>1
  <2> QED  BY <1>1, <1>5, <2>2 DEF h2, par, pb
<1>6. CASE par # nullptr
  <2>1. /\ h3 = [m \in D |-> h3[m]]
        /\ \A m \in DOMAIN g0 : h3[m] = IF m = par THEN Put(g0[m], pb, g) ELSE g0[m]
    OBVIOUS
  <2>2. par \in DOMAIN heap \ {n} /\ par # g /\ par # s
    BY <1>2, <1>6
  <2> HIDE DEF h2, h3
  <2>3. \A m \in D : h3[m] = h2[m]
    BY <1>4, <2>1, <2>2
  <2>4. h3 = h2
    BY <1>4, <2>1, <2>3
  <2> QED  BY <1>1, <1>6, <2>4 DEF h2, par, pb
<1> QED  BY <1>5, <1>6

\* Both add one reference, that of the new leaf.
LEMMA SplitAdds ==
  ASSUME NEW h, HeapOK(h), NEW n \in DOMAIN h, NEW parent, NEW pb,
         parent # nullptr => parent \in DOMAIN h /\ h[parent].dim # "Leaf" /\ pb \in Byte,
         NEW q \in Node, q \notin DOMAIN h, NEW u \in NodeRecord, u.dim # "Leaf",
         NEW y \in NodeRecord, y.refs = h[n].refs, NEW b \in Byte,
         NEW s \in Node, s \notin DOMAIN h, s # q, NEW x \in NodeRecord, Len(x.refs) = 1
  PROVE  AddsLeaf(h, Linked(Split(h, n, q, parent, pb, u, y), q, b, s, x), s)
<1> DEFINE h1 == Split(h, n, q, parent, pb, u, y)
           h2 == Linked(h1, q, b, s, x)
<1>1. IsSplit(h, h1, n, q, parent, pb, u, y)
  BY SplitFacts
<1> HIDE DEF h1
<1>2. /\ HeapOK(h1) /\ q \in DOMAIN h1 /\ h1[q] = u /\ s \notin DOMAIN h1
      /\ DOMAIN h1 = DOMAIN h \cup {q} /\ h1[n] = y
      /\ \A m \in DOMAIN h \ {n} : h1[m].refs = h[m].refs
  BY <1>1 DEF IsSplit
<1>3. IsLinked(h1, h2, q, b, s, x)
  BY <1>2, LinkedFacts
<1> HIDE DEF h2
<1>4. /\ DOMAIN h2 = DOMAIN h1 \cup {s} /\ h2[s] = x
      /\ \A m \in DOMAIN h1 : h2[m].refs = h1[m].refs
  BY <1>3 DEF IsLinked
<1>5. Len(u.refs) = 0
  <2>1. u \in InnerNode
    BY NodeFacts
  <2>2. u.refs = <<>>
    BY <2>1 DEF InnerNode
  <2> QED  BY <2>2
<1>6. \A m \in DOMAIN h : m \in DOMAIN h2 /\ h2[m].refs = h[m].refs
  BY <1>2, <1>4
<1>7. AddsLeaf(h, h2, s)
  BY <1>2, <1>4, <1>5, <1>6 DEF AddsLeaf
<1> QED  BY <1>7 DEF h2, h1

LEMMA MoveAdds ==
  ASSUME NEW h, HeapOK(h), NEW n \in DOMAIN h, h[n].dim # "Leaf", NEW parent, NEW pb,
         NEW g \in Node, g \notin DOMAIN h, NEW z \in NodeRecord, z.refs = h[n].refs,
         NEW b, NEW s, s \notin DOMAIN h, s # g, NEW x, Len(x.refs) = 1
  PROVE  AddsLeaf(h, Linked(Move(h, n, g, parent, pb, z), g, b, s, x), s)
<1> DEFINE h2 == Linked(Move(h, n, g, parent, pb, z), g, b, s, x)
<1>1. \A m \in DOMAIN h : IsRecord(h[m])
  BY NodeFacts DEF HeapOK, IsRecord
<1>2. IsRecord(z)
  BY NodeFacts DEF IsRecord
<1>3. Len(h[n].refs) = 0
  <2>1. h[n] \in InnerNode
    BY NodeFacts DEF HeapOK
  <2>2. h[n].refs = <<>>
    BY <2>1 DEF InnerNode
  <2> QED  BY <2>2
<1>4. /\ DOMAIN h2 = (DOMAIN h \cup {s, g}) \ {n}
      /\ h2[s] = x /\ h2[g] = Put(z, b, s)
      /\ \A m \in DOMAIN h \ {n} : h2[m] = IF m = parent THEN Put(h[m], pb, g) ELSE h[m]
  BY DEF Linked, Move
<1> HIDE DEF h2
<1>5. h2[g].refs = z.refs
  BY <1>2, <1>4, PutRefs
<1>6. \A m \in DOMAIN h \ {n} : m \in DOMAIN h2 /\ h2[m].refs = h[m].refs
  BY <1>1, <1>4, PutRefs
<1>7. AddsLeaf(h, h2, s)
  BY <1>3, <1>4, <1>5, <1>6 DEF AddsLeaf
<1> QED  BY <1>7 DEF h2

LEMMA LinkAdds ==
  ASSUME NEW h, HeapOK(h), NEW n \in DOMAIN h, NEW b, NEW s, s \notin DOMAIN h,
         NEW x, Len(x.refs) = 1
  PROVE  AddsLeaf(h, Linked(h, n, b, s, x), s)
<1> DEFINE h2 == Linked(h, n, b, s, x)
<1>1. \A m \in DOMAIN h : IsRecord(h[m])
  BY NodeFacts DEF HeapOK, IsRecord
<1>2. /\ DOMAIN h2 = DOMAIN h \cup {s} /\ h2[s] = x
      /\ \A m \in DOMAIN h : h2[m] = IF m = n THEN Put(h[n], b, s) ELSE h[m]
  BY DEF Linked
<1> HIDE DEF h2
<1>3. \A m \in DOMAIN h : m \in DOMAIN h2 /\ h2[m].refs = h[m].refs
  BY <1>1, <1>2, PutRefs
<1>4. AddsLeaf(h, h2, s)
  BY <1>2, <1>3 DEF AddsLeaf
<1> QED  BY <1>4 DEF h2

-----------------------------------------------------------------------------
(* The invariant of the static insertions: as long as the dimensions are not *)
(* mixed, the trie is labelled, every node comes in the order of an inserted *)
(* key, and Descend stands where key and prefix first differ.               *)

\* An insertion inside Execute.
Inside ==
  /\ bkey \in [path : Paths, value : Values, ref : Ref]
  /\ ikey \in Orders /\ Merges(ikey, BKey)
  /\ loc.node \in DOMAIN heap
  /\ Hangs(heap, root, loc.node, loc.parent, loc.parent_byte)

Good(lab) ==
  /\ Labelled(heap, content, root, lab) /\ Ordered(heap, lab, Orders)
  /\ pc = "locate" => Stands(heap, BKey, ikey, loc, lab)

Sound ==
  /\ HeapOK(heap) /\ content \in [Key -> Seq(Ref)] /\ pc \in {"idle", "locate"}
  /\ CountInv
  /\ pc = "locate" => Inside
  /\ \E lab : Good(lab)

SInv == UsedOK /\ (Compatible(used) => Sound)

LEMMA AlikeUsed ==
  ASSUME Compatible(used), NEW a \in Orders, NEW b \in Orders
  PROVE  Alike(a, b)
<1>1. PICK x \in used : a = x.bytes
  BY DEF Orders
<1>2. PICK y \in used : b = y.bytes
  BY DEF Orders
<1>3. \A i \in 1..Len(x.bytes) :
        i <= Len(y.bytes) /\ SubSeq(x.bytes, 1, i - 1) = SubSeq(y.bytes, 1, i - 1)
        => x.bytes[i].dimension = y.bytes[i].dimension
  BY DEF Compatible
<1> QED  BY <1>1, <1>2, <1>3 DEF Alike

\* What every step of an insertion starts from.
LEMMA StandFacts ==
  ASSUME Compatible(used), Sound, pc = "locate", NEW lab, Good(lab)
  PROVE  /\ HeapOK(heap) /\ content \in [Key -> Seq(Ref)] /\ CountInv
         /\ Labelled(heap, content, root, lab) /\ Ordered(heap, lab, Orders)
         /\ loc.node \in DOMAIN heap /\ heap[loc.node] \in NodeRecord /\ N = heap[loc.node]
         /\ BKey \in Key /\ BKey.path = bkey.path /\ BKey.value = bkey.value /\ bkey.ref \in Ref
         /\ ikey \in Orders /\ Merges(ikey, BKey)
         /\ Hangs(heap, root, loc.node, loc.parent, loc.parent_byte)
         /\ \E w \in Orders : Follows(heap[loc.node], lab[loc.node], w) /\ Alike(ikey, w)
         /\ \E p \in Nat, v \in Nat : StandsAt(heap, BKey, ikey, loc, lab, p, v)
<1>1. Inside /\ HeapOK(heap) /\ content \in [Key -> Seq(Ref)] /\ CountInv
  BY DEF Sound
<1>2. /\ Labelled(heap, content, root, lab) /\ Ordered(heap, lab, Orders)
      /\ Stands(heap, BKey, ikey, loc, lab)
  BY DEF Good
<1>3. BKey \in Key /\ BKey.path = bkey.path /\ BKey.value = bkey.value /\ bkey.ref \in Ref
  BY <1>1 DEF Inside, BKey, Key
<1>4. loc.node \in DOMAIN heap /\ heap[loc.node] \in NodeRecord /\ N = heap[loc.node]
  BY <1>1 DEF Inside, HeapOK, N
<1>5. PICK w \in Orders : Follows(heap[loc.node], lab[loc.node], w)
  BY <1>2, <1>4 DEF Ordered
<1>6. ikey \in Orders /\ Alike(ikey, w)
  BY <1>1, AlikeUsed DEF Inside
<1> QED  BY <1>1, <1>2, <1>3, <1>4, <1>5, <1>6 DEF Inside, Stands

\* What an insertion that has ended leaves behind.
LEMMA DoneSound ==
  ASSUME Sound, Success, used' = used, HeapOK(heap'), BKey \in Key, bkey.ref \in Ref,
         OneMore(RefSlots(heap), RefSlots(heap')), NEW lab,
         Labelled(heap', [content EXCEPT ![BKey] = Append(@, bkey.ref)], root', lab),
         Ordered(heap', lab, Orders)
  PROVE  Sound'
<1>1. /\ content' = [content EXCEPT ![BKey] = Append(@, bkey.ref)]
      /\ nr_keys' = nr_keys + 1 /\ pc' = "idle"
  BY DEF Success, BKey
<1>2. content' \in [Key -> Seq(Ref)]
  <2>1. content \in [Key -> Seq(Ref)]
    BY DEF Sound
  <2>2. Append(content[BKey], bkey.ref) \in Seq(Ref)
    BY <2>1
  <2> QED  BY <1>1, <2>1, <2>2
<1>3. CountInv'
  BY <1>1 DEF OneMore, Sound, CountInv, CountExact
<1>4. Good(lab)'
  BY <1>1 DEF Good, Orders
<1> QED  BY <1>1, <1>2, <1>3, <1>4 DEF Sound

LEMMA InitSound == StaticInit => Sound
<1> SUFFICES ASSUME StaticInit PROVE Sound
  OBVIOUS
<1>1. /\ root = nullptr /\ heap = [n \in {} |-> nullptr] /\ pc = "idle"
      /\ content = [k \in Key |-> <<>>] /\ Init
  BY DEF StaticInit, Init
<1>2. DOMAIN heap = {} /\ HeapOK(heap) /\ content \in [Key -> Seq(Ref)]
  BY <1>1 DEF HeapOK
<1>3. CountInv
  BY <1>1, InitCount
<1> DEFINE lab == [n \in {} |-> nullptr]
<1>4. Labelled(heap, content, root, lab)
  BY <1>1, <1>2 DEF Labelled
<1>5. Ordered(heap, lab, Orders)
  BY <1>2 DEF Ordered
<1>6. Good(lab)
  BY <1>1, <1>4, <1>5 DEF Good
<1> QED  BY <1>1, <1>2, <1>3, <1>6 DEF Sound

\* More orders do no harm.
LEMMA OrderedGrows ==
  ASSUME NEW h, NEW lab, NEW O, Ordered(h, lab, O), NEW O2, O \subseteq O2
  PROVE  Ordered(h, lab, O2)
BY DEF Ordered

LEMMA FirstSound ==
  ASSUME NonEmpty, UsedOK, Sound, NEW k \in Key, NEW r \in Ref,
         NEW how \in {"PathValue", index_type}, StaticInsertFirst(k, r, how)
  PROVE  Sound'
<1> DEFINE u == Interleave(k, how)
<1>1. /\ root = nullptr /\ pc = "idle" /\ content \in [Key -> Seq(Ref)] /\ CountInv
      /\ InsertFirst(k, r) /\ used' = used \cup {[how |-> how, bytes |-> u]}
  BY DEF StaticInsertFirst, InsertFirst, Sound
<1>2. PICK lab : Labelled(heap, content, root, lab)
  BY DEF Sound, Good
<1>3. DOMAIN heap = {}
  BY <1>1, <1>2 DEF Labelled
<1>4. PICK n \in Malloc(DOMAIN heap) :
        /\ root' = n
        /\ heap' = [m \in DOMAIN heap \cup {n} |->
                      IF m = n THEN NewLeaf(k, 0, 0, r) ELSE heap[m]]
  BY <1>1 DEF InsertFirst
<1>5. n \in Node
  BY <1>3, HeapAssumption
<1> DEFINE lab2 == FirstLabel(n, k)
<1>6. content' = [content EXCEPT ![k] = Append(@, r)] /\ pc' = "idle" /\ nr_keys' = nr_keys + 1
  BY <1>1 DEF InsertFirst
<1>7. Labelled(heap', content', root', lab2) /\ HeapOK(heap')
  <2> DEFINE ct2 == [content EXCEPT ![k] = Append(@, r)]
  <2>1. Labelled(heap, content, nullptr, lab)
    BY <1>1, <1>2
  <2>2. Labelled(FirstLeaf(heap, n, k, r), ct2, n, lab2) /\ HeapOK(FirstLeaf(heap, n, k, r))
    BY <1>1, <1>3, <1>5, <2>1, FirstLeafOK
  <2>3. heap' = FirstLeaf(heap, n, k, r) /\ root' = n /\ content' = ct2
    BY <1>4, <1>6 DEF FirstLeaf
  <2> HIDE DEF ct2, lab2
  <2> QED  BY <2>2, <2>3
<1>8. Ordered(heap', lab2, Orders')
  <2>1. how \in IndexType
    BY DEF UsedOK, IndexType
  <2>2. Merges(u, k)
    BY <2>1, InterleaveMerges
  <2>3. u \in Orders'
    BY <1>1 DEF Orders
  <2>4. Passes(u, 0, 0)
    <3>1. u \in Seq(TaggedByte) /\ Len(u) \in Nat
      BY <2>2, MergesFacts
    <3>2. Taken(u, 0, "Path") = 0
      BY TakenStep
    <3>3. 0 + 0 = 0 /\ 0 <= Len(u)
      BY <3>1
    <3> HIDE DEF u
    <3> QED  BY <3>2, <3>3 DEF Passes
  <2>5. DOMAIN heap' = {n} /\ heap'[n] = NewLeaf(k, 0, 0, r)
    BY <1>3, <1>4
  <2>6. lab2[n].key = k /\ lab2[n].p = 0 /\ lab2[n].v = 0
    BY DEF FirstLabel
  <2>7. Follows(heap'[n], lab2[n], u)
    <3>1. 0 \in 0..Len(k.path) /\ 0 \in 0..Len(k.value)
      BY KeyFacts
    <3> HIDE DEF u, lab2
    <3> QED  BY <2>2, <2>4, <2>5, <2>6, <3>1, LeafFollows
  <2> HIDE DEF u, lab2
  <2> QED  BY <2>3, <2>5, <2>7 DEF Ordered
<1>9. CountInv'
  <2>1. n \notin DOMAIN heap
    BY <1>3
  <2>2. Len(NewLeaf(k, 0, 0, r).refs) = 1
    BY LeafRefs
  <2>3. AddsLeaf(heap, heap', n)
    BY <1>4, <2>1, <2>2 DEF AddsLeaf
  <2>4. OneMore(RefSlots(heap), RefSlots(heap'))
    BY <2>3, AddedLeaf
  <2> QED  BY <1>1, <1>6, <2>4 DEF OneMore, CountInv, CountExact
<1>10. content' \in [Key -> Seq(Ref)]
  <2>1. Append(content[k], r) \in Seq(Ref)
    BY <1>1
  <2> QED  BY <1>1, <1>6, <2>1
<1> HIDE DEF lab2
<1>11. Good(lab2)'
  BY <1>6, <1>7, <1>8 DEF Good
<1> QED  BY <1>6, <1>7, <1>9, <1>10, <1>11 DEF Sound

\* The Locator at its next node.
LEMMA NextStands ==
  ASSUME UNCHANGED <<root, heap, content>>, pc' = "locate", used \subseteq used',
         HeapOK(heap), content \in [Key -> Seq(Ref)], CountInv, UNCHANGED nr_keys,
         NEW lab, Labelled(heap, content, root, lab), Ordered(heap, lab, Orders),
         bkey' \in [path : Paths, value : Values, ref : Ref],
         NEW k \in Key, BKey' = k, ikey' \in Orders', Merges(ikey', k),
         NEW n \in DOMAIN heap, NEW parent, NEW b, Hangs(heap, root, n, parent, b),
         loc'.node = n, loc'.parent = parent, loc'.parent_byte = b,
         Stands(heap, k, ikey', loc', lab)
  PROVE  Sound'
<1>3. Stands(heap, BKey, ikey, loc, lab)'
  OBVIOUS
<1>4. Ordered(heap, lab, Orders')
  <2>1. Orders \subseteq Orders'
    BY DEF Orders
  <2> QED  BY <2>1, OrderedGrows
<1>5. Good(lab)'
  BY <1>3, <1>4 DEF Good
<1>6. Inside'
  <2>1. /\ loc'.node \in DOMAIN heap'
        /\ Hangs(heap', root', loc'.node, loc'.parent, loc'.parent_byte)
    OBVIOUS
  <2> QED  BY <2>1 DEF Inside
<1>7. CountInv'
  BY DEF CountInv, CountExact
<1>8. HeapOK(heap') /\ content' \in [Key -> Seq(Ref)]
  OBVIOUS
<1> QED  BY <1>5, <1>6, <1>7, <1>8 DEF Sound

LEMMA BeginSound ==
  ASSUME NonEmpty, UsedOK, Sound, NEW k \in Key, NEW r \in Ref,
         NEW how \in {"PathValue", index_type}, StaticBegin(k, r, how)
  PROVE  Sound'
<1>1. /\ pc = "idle" /\ root # nullptr /\ pc' = "locate"
      /\ bkey' = [path |-> k.path, value |-> k.value, ref |-> r]
      /\ ikey' = Interleave(k, how) /\ loc' = MatchPrefix(root, nullptr, 0, 0)
      /\ used' = used \cup {[how |-> how, bytes |-> ikey']}
      /\ UNCHANGED <<root, heap, nr_keys, content>>
  BY DEF StaticBegin
<1>2. HeapOK(heap) /\ content \in [Key -> Seq(Ref)] /\ CountInv
  BY DEF Sound
<1>3. PICK lab : Labelled(heap, content, root, lab) /\ Ordered(heap, lab, Orders)
  BY DEF Sound, Good
<1>4. root \in DOMAIN heap /\ lab[root].p = 0 /\ lab[root].v = 0 /\ lab[root].key \in Key
  <2>1. root \in DOMAIN heap /\ lab[root].p = 0 /\ lab[root].v = 0
    BY <1>1, <1>3 DEF Labelled
  <2> QED  BY <1>2, <1>3, <2>1, LabelFacts
<1>5. Agree(k, lab[root].key, 0, 0)
  BY <1>4, KeyFacts DEF Agree
<1>6. Merges(ikey', k)
  <2>1. how \in IndexType
    BY DEF UsedOK, IndexType
  <2> QED  BY <1>1, <2>1, InterleaveMerges
<1>7. Passes(ikey', 0, 0)
  <2>1. ikey' \in Seq(TaggedByte) /\ Len(ikey') \in Nat
    BY <1>6, MergesFacts
  <2>2. Taken(ikey', 0, "Path") = 0
    BY TakenStep
  <2>3. 0 + 0 = 0 /\ 0 <= Len(ikey')
    BY <2>1
  <2> QED  BY <2>2, <2>3 DEF Passes
<1>8. ikey' \in Orders' /\ used \subseteq used'
  <2> DEFINE w == [how |-> how, bytes |-> ikey']
  <2>1. w \in used' /\ w.bytes = ikey'
    BY <1>1
  <2> HIDE DEF w
  <2> QED  BY <1>1, <2>1 DEF Orders
<1>9. bkey' \in [path : Paths, value : Values, ref : Ref] /\ BKey' = k
  BY <1>1, KeyFacts DEF BKey, Key
<1>10. Hangs(heap, root, root, nullptr, 0)
  BY DEF Hangs
<1>11. loc' = MatchPrefix(root, nullptr, 0, lab[root].p + lab[root].v)
  <2>1. lab[root].p + lab[root].v = 0
    BY <1>4
  <2> QED  BY <1>1, <2>1
<1>12. Passes(ikey', lab[root].p, lab[root].v) /\ Agree(k, lab[root].key, lab[root].p, lab[root].v)
  BY <1>4, <1>5, <1>7
<1> DEFINE l == loc'
<1>13. /\ l.node = root /\ l.parent = nullptr /\ l.parent_byte = 0
       /\ Stands(heap, k, ikey', l, lab)
  <2> HIDE DEF l
  <2>1. l = MatchPrefix(root, nullptr, 0, lab[root].p + lab[root].v)
    BY <1>11 DEF l
  <2> QED  BY <1>2, <1>3, <1>4, <1>6, <1>12, <2>1, MatchNode
<1> QED  BY <1>1, <1>2, <1>3, <1>4, <1>6, <1>8, <1>9, <1>10, <1>13, NextStands

\* Where the prefix of an inner node ends: the key has a byte left, and it is of
\* the dimension of the node.
LEMMA InnerNext ==
  ASSUME PrefixFree, Compatible(used), Sound, pc = "locate", NEW lab, Good(lab),
         ~HasMismatch, N.dim # "Leaf",
         NEW P, P = EndP(heap, lab, loc.node), NEW V, V = EndV(heap, lab, loc.node),
         NEW d, d = N.dim
  PROVE  /\ HasNext /\ loc.ikey_pos = P + V /\ P \in Nat /\ V \in Nat
         /\ d \in Dimension /\ Agree(BKey, lab[loc.node].key, P, V)
         /\ HasByte(BKey, d, P, V) /\ Next_.byte = ByteAt(BKey, d, P, V) /\ Next_.byte \in Byte
         /\ Passes(ikey, P + PathStep(d), V + ValueStep(d))
         /\ P + PathStep(d) + (V + ValueStep(d)) = loc.ikey_pos + 1
<1>1. /\ HeapOK(heap) /\ Labelled(heap, content, root, lab)
      /\ loc.node \in DOMAIN heap /\ N = heap[loc.node] /\ BKey \in Key /\ Merges(ikey, BKey)
  BY StandFacts
<1>2. PICK w \in Orders : Follows(heap[loc.node], lab[loc.node], w) /\ Alike(ikey, w)
  BY StandFacts
<1>3. PICK p \in Nat, v \in Nat : StandsAt(heap, BKey, ikey, loc, lab, p, v)
  BY StandFacts
<1>4. /\ ~(loc.node_p_pos < heap[loc.node].sep) /\ ~(loc.node_v_pos < Len(heap[loc.node].prefix))
      /\ d = heap[loc.node].dim /\ d # "Leaf"
  BY <1>1 DEF HasMismatch, PathMismatch, ValueMismatch
<1>5. /\ p = P /\ v = V /\ Agree(BKey, lab[loc.node].key, p, v)
      /\ p + v < Len(ikey) /\ ikey[p + v + 1].dimension = d /\ d \in Dimension
      /\ HasByte(BKey, d, p, v) /\ ByteAt(BKey, d, p, v) = ikey[p + v + 1].byte
      /\ Passes(ikey, p + PathStep(d), v + ValueStep(d))
  BY <1>1, <1>2, <1>3, <1>4, PassFacts
<1>6. loc.ikey_pos = p + v
  BY <1>3 DEF StandsAt
<1>7. Next_.byte \in Byte
  <2>1. ikey \in Seq(TaggedByte) /\ Len(ikey) \in Nat
    BY <1>1, MergesFacts
  <2>2. p + v + 1 \in 1..Len(ikey)
    <3> DEFINE L == Len(ikey)
    <3>1. L \in Nat /\ p + v < L
      BY <1>5, <2>1
    <3> HIDE DEF L
    <3>2. p + v + 1 \in 1..L
      BY <3>1
    <3> QED  BY <3>2 DEF L
  <2>3. ikey[p + v + 1] \in TaggedByte
    BY <2>1, <2>2
  <2> QED  BY <1>6, <2>3 DEF Next_, TaggedByte
<1>8. HasNext /\ Next_.byte = ByteAt(BKey, d, p, v)
  BY <1>5, <1>6 DEF HasNext, Next_
<1>9. P + PathStep(d) + (V + ValueStep(d)) = P + V + 1
  BY <1>5 DEF PathStep, ValueStep
<1> QED  BY <1>5, <1>6, <1>7, <1>8, <1>9

LEMMA DescendSound ==
  ASSUME PrefixFree, Compatible(used), Sound, StaticDescend
  PROVE  Sound'
<1>1. /\ pc = "locate" /\ ~HasMismatch /\ N.dim # "Leaf" /\ StaticChild # nullptr
      /\ ikey' = ikey /\ loc' = MatchPrefix(StaticChild, loc.node, Next_.byte, loc.ikey_pos + 1)
      /\ UNCHANGED <<root, heap, nr_keys, pc, bkey, content, used>>
  BY DEF StaticDescend, StaticDescending, LeafMatched
<1>2. PICK lab : Good(lab)
  BY DEF Sound
<1>3. /\ HeapOK(heap) /\ content \in [Key -> Seq(Ref)] /\ CountInv
      /\ Labelled(heap, content, root, lab) /\ Ordered(heap, lab, Orders)
      /\ loc.node \in DOMAIN heap /\ N = heap[loc.node]
      /\ BKey \in Key /\ ikey \in Orders /\ Merges(ikey, BKey)
  BY <1>1, <1>2, StandFacts
<1> DEFINE n == loc.node
           d == N.dim
           b == Next_.byte
           c == StaticChild
           P == EndP(heap, lab, n)
           V == EndV(heap, lab, n)
<1>4. /\ loc.ikey_pos = P + V /\ P \in Nat /\ V \in Nat
      /\ d \in Dimension /\ Agree(BKey, lab[n].key, P, V)
      /\ HasByte(BKey, d, P, V) /\ b = ByteAt(BKey, d, P, V) /\ b \in Byte
      /\ Passes(ikey, P + PathStep(d), V + ValueStep(d))
      /\ P + PathStep(d) + (V + ValueStep(d)) = loc.ikey_pos + 1
  BY <1>1, <1>2, InnerNext
<1>5. c = heap[n].children[b] /\ c # nullptr /\ heap[n].dim = d
  BY <1>1, <1>3 DEF StaticChild
<1>6. /\ c \in DOMAIN heap
      /\ Agree(lab[n].key, lab[c].key, P, V)
      /\ lab[c].p = P + PathStep(d) /\ lab[c].v = V + ValueStep(d)
      /\ ByteAt(lab[c].key, d, P, V) = b /\ HasByte(lab[c].key, d, P, V)
  <2> HIDE DEF c, b, d
  <2> QED  BY <1>3, <1>4, <1>5, ChildFacts
<1>7. Agree(BKey, lab[c].key, P + PathStep(d), V + ValueStep(d))
  <2>1. Agree(BKey, lab[c].key, P, V)
    BY <1>4, <1>6, AgreeTrans
  <2>2. lab[c].key \in Key
    BY <1>3, <1>6, LabelFacts
  <2> HIDE DEF c, b, d, P, V
  <2> QED  BY <1>3, <1>4, <1>6, <2>1, <2>2, AgreeStep
<1>8. bkey' \in [path : Paths, value : Values, ref : Ref] /\ BKey' = BKey /\ ikey' \in Orders'
  <2>1. Inside
    BY <1>1 DEF Sound
  <2> QED  BY <1>1, <1>3, <2>1 DEF Inside, BKey, Orders
<1>9. Hangs(heap, root, c, n, b)
  <2>1. n # nullptr
    BY <1>3, HeapAssumption DEF HeapOK
  <2> QED  BY <1>3, <1>4, <1>5, <2>1 DEF Hangs
<1>10. loc' = MatchPrefix(c, n, b, lab[c].p + lab[c].v)
  BY <1>1, <1>4, <1>6
<1> HIDE DEF c, b, d, P, V, n
<1>11. Passes(ikey', lab[c].p, lab[c].v) /\ Agree(BKey, lab[c].key, lab[c].p, lab[c].v)
  BY <1>1, <1>4, <1>6, <1>7
<1>12. pc' = "locate" /\ used \subseteq used' /\ Merges(ikey', BKey)
  BY <1>1, <1>3
<1> DEFINE l == loc'
<1>13. /\ l.node = c /\ l.parent = n /\ l.parent_byte = b
       /\ Stands(heap, BKey, ikey', l, lab)
  <2> HIDE DEF l
  <2>1. l = MatchPrefix(c, n, b, lab[c].p + lab[c].v)
    BY <1>10 DEF l
  <2>2. HeapOK(heap) /\ Labelled(heap, content, root, lab) /\ c \in DOMAIN heap /\ BKey \in Key
    BY <1>3, <1>6
  <2>3. l.node = c /\ l.parent = n /\ l.parent_byte = b
    BY <2>1 DEF MatchPrefix
  <2>4. Stands(heap, BKey, ikey', l, lab)
    BY <1>11, <1>12, <2>1, <2>2, MatchNode, SMTT(30)
  <2> QED  BY <2>3, <2>4
<1> QED  BY <1>1, <1>3, <1>6, <1>8, <1>9, <1>12, <1>13, NextStands

LEMMA AddRefSound ==
  ASSUME PrefixFree, Compatible(used), Sound, StaticAddRef
  PROVE  Sound'
<1>1. /\ pc = "locate" /\ N.dim = "Leaf" /\ ~HasMismatch
      /\ heap' = [heap EXCEPT ![loc.node].refs = Append(@, bkey.ref)]
      /\ root' = root /\ Success /\ used' = used
  BY DEF StaticAddRef, LeafMatched
<1>2. PICK lab : Good(lab)
  BY DEF Sound
<1>3. /\ HeapOK(heap) /\ content \in [Key -> Seq(Ref)]
      /\ Labelled(heap, content, root, lab) /\ Ordered(heap, lab, Orders)
      /\ loc.node \in DOMAIN heap /\ N = heap[loc.node] /\ heap[loc.node] \in NodeRecord
      /\ BKey \in Key /\ Merges(ikey, BKey) /\ bkey.ref \in Ref
  BY <1>1, <1>2, StandFacts
<1>4. PICK w \in Orders : Follows(heap[loc.node], lab[loc.node], w) /\ Alike(ikey, w)
  BY <1>1, <1>2, StandFacts
<1>5. PICK p \in Nat, v \in Nat : StandsAt(heap, BKey, ikey, loc, lab, p, v)
  BY <1>1, <1>2, StandFacts
<1>6. /\ ~(loc.node_p_pos < heap[loc.node].sep) /\ ~(loc.node_v_pos < Len(heap[loc.node].prefix))
      /\ heap[loc.node].dim = "Leaf"
  BY <1>1, <1>3 DEF HasMismatch, PathMismatch, ValueMismatch
<1>7. lab[loc.node].key = BKey
  <2>1. /\ HeapOK(heap) /\ Labelled(heap, content, root, lab)
        /\ BKey \in Key /\ Merges(ikey, BKey) /\ loc.node \in DOMAIN heap
    BY <1>3
  <2>2. /\ Follows(heap[loc.node], lab[loc.node], w) /\ Alike(ikey, w)
        /\ StandsAt(heap, BKey, ikey, loc, lab, p, v)
    BY <1>4, <1>5
  <2> QED  BY <1>6, <2>1, <2>2, PassFacts, SMTT(30)
<1> DEFINE ct2 == [content EXCEPT ![BKey] = Append(@, bkey.ref)]
           n == loc.node
<1>8. Labelled(heap', ct2, root', lab) /\ HeapOK(heap')
  BY <1>1, <1>3, <1>6, <1>7, AddRefOK
<1>9. OneMore(RefSlots(heap), RefSlots(heap'))
  BY <1>1, <1>3, <1>6, AddedRef
<1>10. Ordered(heap', lab, Orders)
  <2> SUFFICES ASSUME NEW m \in DOMAIN heap'  PROVE \E o \in Orders : Follows(heap'[m], lab[m], o)
    BY DEF Ordered
  <2>1. m \in DOMAIN heap /\ heap[m] \in NodeRecord
    BY <1>1, <1>3 DEF HeapOK
  <2>2. PICK o \in Orders : Follows(heap[m], lab[m], o)
    BY <1>3, <2>1 DEF Ordered
  <2> DEFINE z == heap[m]
             y == [z EXCEPT !.refs = Append(@, bkey.ref)]
  <2>3. y.sep = z.sep /\ y.prefix = z.prefix /\ y.dim = z.dim
    <3>1. z = [dim |-> z.dim, prefix |-> z.prefix, sep |-> z.sep,
               children |-> z.children, layout |-> z.layout, refs |-> z.refs]
      BY <2>1, NodeFacts
    <3> HIDE DEF z
    <3> QED  BY <3>1
  <2>4. heap'[m] = y \/ heap'[m] = z
    BY <1>1, <2>1
  <2> HIDE DEF y, z
  <2>5. heap'[m].sep = z.sep /\ heap'[m].prefix = z.prefix /\ heap'[m].dim = z.dim
    BY <2>3, <2>4
  <2>6. Follows(heap'[m], lab[m], o)
    BY <2>2, <2>5, SameFollows DEF z
  <2> QED  BY <2>6
<1> HIDE DEF ct2
<1> QED  BY <1>1, <1>3, <1>8, <1>9, <1>10, DoneSound DEF ct2

\* Where key and prefix differ: the key has a byte left, the prefix has one of
\* its dimension, and the two are different.
LEMMA MismatchNext ==
  ASSUME PrefixFree, Compatible(used), Sound, pc = "locate", NEW lab, Good(lab), HasMismatch
  PROVE  HasNext /\ CanSplit
<1>1. /\ HeapOK(heap) /\ Labelled(heap, content, root, lab)
      /\ loc.node \in DOMAIN heap /\ N = heap[loc.node] /\ BKey \in Key /\ Merges(ikey, BKey)
      /\ N \in NodeRecord
  BY StandFacts
<1>2. PICK w \in Orders : Follows(heap[loc.node], lab[loc.node], w) /\ Alike(ikey, w)
  BY StandFacts
<1>3. PICK p \in Nat, v \in Nat : StandsAt(heap, BKey, ikey, loc, lab, p, v)
  BY StandFacts
<1>4. loc.node_p_pos < heap[loc.node].sep \/ loc.node_v_pos < Len(heap[loc.node].prefix)
  BY <1>1 DEF HasMismatch, PathMismatch, ValueMismatch
<1> DEFINE d == ikey[p + v + 1].dimension
<1>5. /\ p + v < Len(ikey) /\ d \in Dimension
      /\ SplitAt(heap[loc.node], loc.node_p_pos, loc.node_v_pos, d)
  <2>1. d = ikey[p + v + 1].dimension
    OBVIOUS
  <2> HIDE DEF d
  <2> QED  BY <1>1, <1>2, <1>3, <1>4, <2>1, StopFacts
<1>6. loc.ikey_pos = p + v
  BY <1>3 DEF StandsAt
<1>7. Next_.dimension = d /\ HasNext
  BY <1>5, <1>6 DEF Next_, HasNext
<1> HIDE DEF d
<1>8. /\ loc.node_p_pos \in Nat /\ loc.node_v_pos \in Nat /\ N.sep \in Nat /\ Len(N.prefix) \in Nat
      /\ loc.node_p_pos + PathStep(d) <= N.sep /\ loc.node_v_pos + ValueStep(d) <= Len(N.prefix)
  <2>1. N.sep \in Nat /\ Len(N.prefix) \in Nat
    BY <1>1, NodeFacts
  <2>2. /\ loc.node_p_pos \in 0..N.sep /\ loc.node_v_pos \in N.sep..Len(N.prefix)
        /\ loc.node_p_pos + PathStep(d) <= N.sep /\ loc.node_v_pos + ValueStep(d) <= Len(N.prefix)
    BY <1>1, <1>5 DEF SplitAt
  <2> QED  BY <2>1, <2>2
<1>9. CASE d = "Path"
  <2>1. PathMismatch
    BY <1>8, <1>9 DEF PathMismatch, PathStep
  <2> QED  BY <1>7, <1>9, <2>1 DEF CanSplit
<1>10. CASE d = "Value"
  <2>1. ValueMismatch
    BY <1>8, <1>10 DEF ValueMismatch, ValueStep
  <2> QED  BY <1>7, <1>10, <2>1 DEF CanSplit
<1> QED  BY <1>5, <1>9, <1>10 DEF Dimension

LEMMA SplitSound ==
  ASSUME PrefixFree, Compatible(used), Sound, SplitNode
  PROVE  Sound'
<1>1. pc = "locate" /\ HasMismatch /\ Success /\ used' = used
  BY DEF SplitNode
<1>2. PICK lab : Good(lab)
  BY DEF Sound
<1> DEFINE n == loc.node
           d == Next_.dimension
           np == loc.node_p_pos
           nv == loc.node_v_pos
           par == loc.parent
           pb == loc.parent_byte
           nb == NodeByte(d)
           sb == Next_.byte
           u == UpperNode(N, np, nv, d, nb, n)
           y == LowerNode(N, np, nv, d)
           x == LeafFrom(loc.ikey_pos + 1)
           g(q, s) == [m \in DOMAIN heap \cup {q, s} |->
                         CASE m = q -> Put(Put(NewNode4(d, ParentPrefix, np), nb, n), sb, s)
                           [] m = s -> LeafFrom(loc.ikey_pos + 1)
                           [] m = n -> Shortened(d)
                           [] OTHER -> heap[m]]
<1>3. /\ HeapOK(heap) /\ content \in [Key -> Seq(Ref)]
      /\ Labelled(heap, content, root, lab) /\ Ordered(heap, lab, Orders)
      /\ n \in DOMAIN heap /\ N = heap[n] /\ N \in NodeRecord
      /\ BKey \in Key /\ BKey.path = bkey.path /\ BKey.value = bkey.value /\ bkey.ref \in Ref
      /\ ikey \in Orders /\ Merges(ikey, BKey)
      /\ Hangs(heap, root, n, par, pb)
  BY <1>1, <1>2, StandFacts
<1>4. PICK w \in Orders : Follows(heap[n], lab[n], w) /\ Alike(ikey, w)
  BY <1>1, <1>2, StandFacts
<1>5. PICK P \in Nat, V \in Nat : StandsAt(heap, BKey, ikey, loc, lab, P, V)
  BY <1>1, <1>2, StandFacts
<1> DEFINE p2 == P + PathStep(d)
           v2 == V + ValueStep(d)
<1>6. /\ loc.ikey_pos = P + V
      /\ P = lab[n].p + np /\ V = lab[n].v + (nv - heap[n].sep)
      /\ Agree(BKey, lab[n].key, P, V)
  BY <1>5 DEF StandsAt
<1>7. /\ P + V < Len(ikey) /\ d \in Dimension /\ SplitAt(heap[n], np, nv, d)
      /\ HasByte(BKey, d, P, V) /\ ByteAt(BKey, d, P, V) = sb
      /\ nb = ByteAt(lab[n].key, d, P, V) /\ nb # sb
      /\ content[BKey] = <<>>
      /\ Passes(w, P, V) /\ Passes(w, p2, v2) /\ P + V < Len(w) /\ w[P + V + 1].dimension = d
      /\ Passes(ikey, p2, v2)
  <2>1. np < heap[n].sep \/ nv < Len(heap[n].prefix)
    BY <1>1, <1>3 DEF HasMismatch, PathMismatch, ValueMismatch
  <2>2. d = ikey[P + V + 1].dimension /\ sb = ikey[P + V + 1].byte
    BY <1>6 DEF Next_
  <2>3. nb = heap[n].prefix[IF d = "Path" THEN np + 1 ELSE nv + 1]
    BY <1>3 DEF NodeByte
  <2> HIDE DEF d, nb, sb
  <2>4. /\ P + V < Len(ikey) /\ d \in Dimension /\ SplitAt(heap[n], np, nv, d)
        /\ HasByte(BKey, d, P, V) /\ ByteAt(BKey, d, P, V) = ikey[P + V + 1].byte
        /\ ByteAt(lab[n].key, d, P, V) = heap[n].prefix[IF d = "Path" THEN np + 1 ELSE nv + 1]
        /\ ByteAt(lab[n].key, d, P, V) # ByteAt(BKey, d, P, V)
        /\ content[BKey] = <<>>
        /\ Passes(w, P, V) /\ Passes(w, p2, v2) /\ P + V < Len(w) /\ w[P + V + 1].dimension = d
        /\ Passes(ikey, p2, v2)
    BY <1>1, <1>3, <1>4, <1>5, <2>1, <2>2, StopFacts
  <2> QED  BY <2>2, <2>3, <2>4
<1>8. p2 \in Nat /\ v2 \in Nat /\ loc.ikey_pos + 1 = p2 + v2
  <2>1. d \in Dimension /\ loc.ikey_pos = P + V
    BY <1>6, <1>7
  <2> HIDE DEF d
  <2>2. (PathStep(d) = 1 /\ ValueStep(d) = 0) \/ (PathStep(d) = 0 /\ ValueStep(d) = 1)
    BY <2>1 DEF PathStep, ValueStep, Dimension
  <2> QED  BY <2>1, <2>2
<1>9. /\ x = NewLeaf(BKey, p2, v2, bkey.ref)
      /\ p2 \in 0..Len(BKey.path) /\ v2 \in 0..Len(BKey.value)
  <2> DEFINE pos == loc.ikey_pos + 1
  <2>1. pos = p2 + v2 /\ p2 \in Nat /\ v2 \in Nat /\ Passes(ikey, p2, v2)
    BY <1>7, <1>8
  <2> HIDE DEF pos, p2, v2
  <2>2. LeafFrom(pos) = NewLeaf(BKey, p2, v2, bkey.ref)
    BY <1>3, <2>1, LeafIs
  <2>3. p2 \in 0..Len(BKey.path) /\ v2 \in 0..Len(BKey.value)
    BY <1>3, <2>1, LeafIs
  <2> QED  BY <2>2, <2>3 DEF pos
<1>10. u = Put(NewNode4(d, ParentPrefix, np), nb, n) /\ y = Shortened(d)
  BY DEF UpperNode, LowerNode, ParentPrefix, Shortened
<1>11a. PICK q \in Malloc(DOMAIN heap) :
          \E s \in Malloc(DOMAIN heap \cup {q}) : Relink(g(q, s), q)
  BY DEF SplitNode
<1>11. PICK s \in Malloc(DOMAIN heap \cup {q}) : Relink(g(q, s), q)
  BY <1>11a
<1>12. /\ q \in Node /\ q \notin DOMAIN heap
       /\ s \in Node /\ s \notin DOMAIN heap /\ s # q
  BY <1>3, <1>11a, <1>11, HeapAssumption DEF HeapOK
<1> HIDE DEF n, d, np, nv, par, pb, nb, sb, x
<1> DEFINE g0 == g(q, s)
<1>13. /\ DOMAIN g0 = DOMAIN heap \cup {q, s}
       /\ g0 = [m \in DOMAIN heap \cup {q, s} |-> g0[m]]
       /\ g0[q] = Put(u, sb, s) /\ g0[s] = x /\ g0[n] = y
       /\ \A m \in DOMAIN heap \ {n} : g0[m] = heap[m]
       /\ Relink(g0, q)
  <2>1. x = LeafFrom(loc.ikey_pos + 1)
    BY DEF x
  <2> QED  BY <1>3, <1>10, <1>11, <1>12, <2>1
<1> DEFINE h1 == Split(heap, n, q, par, pb, u, y)
           h2 == Linked(h1, q, sb, s, x)
           rt1 == IF par = nullptr THEN q ELSE root
           l1 == [key |-> lab[n].key, p |-> p2, v |-> v2]
           lab1 == SplitLabel(lab, n, q, l1)
           lab2 == With(lab1, s, [key |-> BKey, p |-> p2, v |-> v2])
           ct2 == [content EXCEPT ![BKey] = Append(@, bkey.ref)]
<1>14. heap' = h2 /\ root' = rt1
  <2>1. Hangs(heap, root, n, loc.parent, loc.parent_byte)
    BY <1>3 DEF par, pb
  <2>3. HeapOK(heap) /\ Labelled(heap, content, root, lab) /\ n \in DOMAIN heap
    BY <1>3
  <2>4. q \notin DOMAIN heap /\ s \notin DOMAIN heap /\ s # q
    BY <1>12
  <2> HIDE DEF g0, g, u, y
  <2>5. /\ DOMAIN g0 = DOMAIN heap \cup {q, s}
        /\ g0 = [m \in DOMAIN heap \cup {q, s} |-> g0[m]]
        /\ g0[q] = Put(u, sb, s) /\ g0[s] = x /\ g0[n] = y
        /\ \A m \in DOMAIN heap \ {n} : g0[m] = heap[m]
        /\ Relink(g0, q)
    BY <1>13
  <2>2. /\ heap' = Linked(Split(heap, n, q, loc.parent, loc.parent_byte, u, y), q, sb, s, x)
        /\ root' = IF loc.parent = nullptr THEN q ELSE root
    BY <2>1, <2>3, <2>4, <2>5, RelinkSplit, SMTT(30)
  <2> QED  BY <2>2 DEF par, pb
<1>15. /\ Labelled(h1, content, rt1, lab1) /\ HeapOK(h1)
       /\ q \in DOMAIN h1 /\ lab1[q] = lab[n] /\ h1[q].dim = d /\ nb \in Byte
       /\ EndP(h1, lab1, q) = P /\ EndV(h1, lab1, q) = V
       /\ \A c \in Byte : h1[q].children[c] = IF c = nb THEN n ELSE nullptr
  <2>1. /\ HeapOK(heap) /\ Labelled(heap, content, root, lab)
        /\ n \in DOMAIN heap /\ Hangs(heap, root, n, par, pb)
        /\ q \in Node /\ q \notin DOMAIN heap /\ SplitAt(heap[n], np, nv, d) /\ N = heap[n]
    BY <1>3, <1>7, <1>12
  <2>2. /\ P = lab[n].p + np /\ V = lab[n].v + (nv - heap[n].sep)
        /\ nb = ByteAt(lab[n].key, d, P, V)
    BY <1>6, <1>7
  <2> QED  BY <2>1, <2>2, SplitOK, SMTT(30)
<1>16. DOMAIN h1 = DOMAIN heap \cup {q} /\ h1[q] = u /\ DOMAIN lab1 = DOMAIN h1
  <2>1. DOMAIN lab = DOMAIN heap
    BY <1>3 DEF Labelled
  <2> QED  BY <2>1 DEF Split, SplitLabel
<1>17. d # "Leaf"
  BY <1>7 DEF Dimension
<1>18. Labelled(h2, ct2, rt1, lab2) /\ HeapOK(h2) /\ sb \in Byte
  <2>1. sb \in Byte
    <3>1. P <= Len(BKey.path) /\ V <= Len(BKey.value)
      BY <1>6 DEF Agree
    <3> QED  BY <1>3, <1>7, ByteIsByte
  <2>2. h1[q].children[sb] = nullptr
    BY <1>7, <1>15, <2>1
  <2>3. Agree(BKey, lab1[q].key, P, V)
    BY <1>6, <1>15
  <2>4. s \notin DOMAIN h1
    BY <1>12, <1>16
  <2> DEFINE z == NewLeaf(BKey, p2, v2, bkey.ref)
  <2>5. x = z
    BY <1>9
  <2> HIDE DEF h1, rt1, lab1
  <2>6. /\ Labelled(Linked(h1, q, sb, s, z), ct2, rt1, lab2)
        /\ HeapOK(Linked(h1, q, sb, s, z))
    BY <1>3, <1>7, <1>12, <1>15, <1>17, <2>2, <2>3, <2>4, AddLeafOK
  <2> HIDE DEF z
  <2> QED  BY <2>1, <2>5, <2>6
<1>19. Ordered(h2, lab2, Orders)
  <2>1. Ordered(h1, lab1, Orders)
    <3> DEFINE a == PathStep(d)
               b == ValueStep(d)
    <3>1. HeapOK(heap) /\ Labelled(heap, content, root, lab) /\ n \in DOMAIN heap
          /\ Ordered(heap, lab, Orders) /\ N = heap[n]
      BY <1>3
    <3>2. q \in Node /\ q \notin DOMAIN heap /\ SplitAt(heap[n], np, nv, d) /\ nb \in Byte
      BY <1>7, <1>12, <1>15
    <3>3. P = lab[n].p + np /\ V = lab[n].v + (nv - heap[n].sep)
      BY <1>6
    <3>4. /\ w \in Orders /\ Follows(heap[n], lab[n], w) /\ Passes(w, P, V)
          /\ Passes(w, P + PathStep(d), V + ValueStep(d)) /\ P + V < Len(w)
          /\ w[P + V + 1].dimension = d
      BY <1>4, <1>7
    <3>5. Ordered(Split(heap, n, q, par, pb, UpperNode(heap[n], np, nv, d, nb, n), LowerNode(heap[n], np, nv, d)),
                 SplitLabel(lab, n, q, [key |-> lab[n].key, p |-> P + PathStep(d), v |-> V + ValueStep(d)]),
                 Orders)
      BY <3>1, <3>2, <3>3, <3>4, SplitOrdered, SMTT(30)
    <3> QED  BY <3>1, <3>5
  <2>2. s \notin DOMAIN h1
    BY <1>12, <1>16
  <2> DEFINE z == NewLeaf(BKey, p2, v2, bkey.ref)
  <2>3. x = z
    BY <1>9
  <2> HIDE DEF h1, lab1, p2, v2
  <2>4. Ordered(Linked(h1, q, sb, s, z), lab2, Orders)
    BY <1>3, <1>7, <1>9, <1>12, <1>15, <1>16, <1>17, <1>18, <2>1, <2>2, LinkedOrdered
  <2> HIDE DEF z
  <2> QED  BY <2>3, <2>4
<1>20. OneMore(RefSlots(heap), RefSlots(h2))
  <2>1. par # nullptr => par \in DOMAIN heap /\ heap[par].dim # "Leaf" /\ pb \in Byte
    <3> SUFFICES ASSUME par # nullptr
                 PROVE  par \in DOMAIN heap /\ heap[par].dim # "Leaf" /\ pb \in Byte
      OBVIOUS
    <3>1. par \in DOMAIN heap /\ pb \in Byte /\ heap[par].children[pb] = n
      BY <1>3 DEF Hangs
    <3>2. n # nullptr
      BY <1>3, HeapAssumption DEF HeapOK
    <3> QED  BY <1>3, <3>1, <3>2, ChildFacts
  <2>2. /\ lab[n].key \in Key /\ lab[n].p \in Nat /\ lab[n].v \in Nat
        /\ Spells(heap[n], lab[n].key, lab[n].p, lab[n].v)
        /\ Len(lab[n].key.path) \in Nat /\ Len(lab[n].key.value) \in Nat
        /\ n \in Node
    <3>1. lab[n].key \in Key
      BY <1>3, LabelFacts
    <3> QED  BY <1>3, <3>1, LabelFacts, KeyFacts DEF LabelOK, HeapOK
  <2>3. u \in NodeRecord /\ u.dim = d
    <3>1. SplitAt(N, np, nv, d) /\ Spells(N, lab[n].key, lab[n].p, lab[n].v)
      BY <1>3, <1>7, <2>2
    <3> QED  BY <1>15, <2>2, <3>1, UpperFacts
  <2>4. y \in NodeRecord /\ y.refs = heap[n].refs
    <3> DEFINE a == lab[n].p + np + PathStep(d)
               b == lab[n].v + (nv - N.sep) + ValueStep(d)
    <3>1. SplitAt(N, np, nv, d) /\ Spells(N, lab[n].key, lab[n].p, lab[n].v)
      BY <1>3, <1>7, <2>2
    <3>2. a = lab[n].p + np + PathStep(d) /\ b = lab[n].v + (nv - N.sep) + ValueStep(d)
      OBVIOUS
    <3> HIDE DEF a, b
    <3> QED  BY <1>3, <2>2, <3>1, <3>2, LowerFacts
  <2>5. x \in NodeRecord /\ Len(x.refs) = 1
    <3>1. NewLeaf(BKey, p2, v2, bkey.ref) \in NodeRecord
      BY <1>3, <1>9, NewLeafFacts
    <3> QED  BY <1>9, <3>1, LeafRefs
  <2> HIDE DEF u, y
  <2>6. AddsLeaf(heap, h2, s)
    BY <1>3, <1>12, <1>17, <1>18, <2>1, <2>3, <2>4, <2>5, SplitAdds
  <2> HIDE DEF h2
  <2> QED  BY <2>6, AddedLeaf
<1> HIDE DEF h2, rt1, lab2, ct2
<1> QED  BY <1>1, <1>3, <1>14, <1>18, <1>19, <1>20, DoneSound DEF ct2

\* A key for which an inner node has no child is not stored yet.
LEMMA MissingChild ==
  ASSUME NEW h, HeapOK(h), NEW ct, NEW rt, NEW lab, Labelled(h, ct, rt, lab),
         NEW n \in DOMAIN h, h[n].dim # "Leaf", NEW k \in Key, ct \in [Key -> Seq(Ref)],
         Agree(k, lab[n].key, EndP(h, lab, n), EndV(h, lab, n)),
         h[n].children[ByteAt(k, h[n].dim, EndP(h, lab, n), EndV(h, lab, n))] = nullptr
  PROVE  ct[k] = <<>>
<1> SUFFICES ASSUME ct[k] # <<>>  PROVE FALSE
  OBVIOUS
<1>1. /\ lab[n].key \in Key /\ lab[n].p \in Nat /\ lab[n].v \in Nat
      /\ EndP(h, lab, n) \in Nat /\ EndV(h, lab, n) \in Nat
      /\ lab[n].p <= EndP(h, lab, n) /\ lab[n].v <= EndV(h, lab, n)
  BY LabelFacts
<1>2. Agree(k, lab[n].key, lab[n].p, lab[n].v)
  BY <1>1, AgreeMono
<1> QED  BY <1>2, StoredIsBelow

LEMMA AddNewLeafSound ==
  ASSUME PrefixFree, Compatible(used), Sound, StaticAddNewLeaf
  PROVE  Sound'
<1>1. /\ pc = "locate" /\ ~HasMismatch /\ N.dim # "Leaf" /\ StaticChild = nullptr
      /\ Success /\ used' = used
  BY DEF StaticAddNewLeaf, StaticDescending, LeafMatched
<1>2. PICK lab : Good(lab)
  BY DEF Sound
<1> DEFINE n == loc.node
           d == N.dim
           par == loc.parent
           pb == loc.parent_byte
           b == Next_.byte
           P == EndP(heap, lab, n)
           V == EndV(heap, lab, n)
           p2 == P + PathStep(d)
           v2 == V + ValueStep(d)
           pos == loc.ikey_pos + 1
           x == NewLeaf(BKey, p2, v2, bkey.ref)
<1>3. /\ HeapOK(heap) /\ content \in [Key -> Seq(Ref)]
      /\ Labelled(heap, content, root, lab) /\ Ordered(heap, lab, Orders)
      /\ n \in DOMAIN heap /\ N = heap[n] /\ N \in NodeRecord
      /\ BKey \in Key /\ BKey.path = bkey.path /\ BKey.value = bkey.value /\ bkey.ref \in Ref
      /\ ikey \in Orders /\ Merges(ikey, BKey)
      /\ Hangs(heap, root, n, par, pb)
  BY <1>1, <1>2, StandFacts
<1>4. /\ P \in Nat /\ V \in Nat
      /\ d \in Dimension /\ Agree(BKey, lab[n].key, P, V)
      /\ HasByte(BKey, d, P, V) /\ b = ByteAt(BKey, d, P, V) /\ b \in Byte
      /\ Passes(ikey, p2, v2) /\ p2 + v2 = pos
  BY <1>1, <1>2, InnerNext
<1>5. heap[n].dim = d /\ d # "Leaf" /\ heap[n].children[b] = nullptr
  BY <1>1, <1>3 DEF StaticChild
<1>6. content[BKey] = <<>>
  <2> HIDE DEF b, d
  <2>1. /\ Agree(BKey, lab[n].key, EndP(heap, lab, n), EndV(heap, lab, n))
        /\ heap[n].children[ByteAt(BKey, heap[n].dim, EndP(heap, lab, n), EndV(heap, lab, n))] = nullptr
        /\ heap[n].dim # "Leaf"
    BY <1>4, <1>5
  <2> HIDE DEF n, P, V
  <2> QED  BY <1>3, <2>1, MissingChild
<1>7. LeafFrom(pos) = x /\ p2 \in 0..Len(BKey.path) /\ v2 \in 0..Len(BKey.value)
  <2>1. p2 \in Nat /\ v2 \in Nat
    <3> HIDE DEF d, P, V
    <3> QED  BY <1>4 DEF PathStep, ValueStep
  <2>2. pos = p2 + v2 /\ Passes(ikey, p2, v2)
    BY <1>4
  <2> HIDE DEF pos, p2, v2
  <2>3. LeafFrom(pos) = NewLeaf(BKey, p2, v2, bkey.ref)
    BY <1>3, <2>1, <2>2, LeafIs
  <2>4. p2 \in 0..Len(BKey.path) /\ v2 \in 0..Len(BKey.value)
    BY <1>3, <2>1, <2>2, LeafIs
  <2> QED  BY <2>3, <2>4
<1>8. Len(x.refs) = 1
  BY LeafRefs
<1> DEFINE e(s) == [m \in DOMAIN heap \cup {s} |->
                      CASE m = s -> LeafFrom(pos)
                        [] m = n -> Put(N, b, s)
                        [] OTHER -> heap[m]]
           f(s, g) == [m \in (DOMAIN heap \cup {s, g}) \ {n} |->
                         CASE m = s -> LeafFrom(pos)
                           [] m = g -> Put(Grow(N), b, s)
                           [] OTHER -> heap[m]]
<1>9. PICK s \in Malloc(DOMAIN heap) :
        IF IsFull(N)
        THEN \E g \in Malloc(DOMAIN heap \cup {s}) : Relink(f(s, g), g)
        ELSE heap' = e(s) /\ root' = root
  BY DEF StaticAddNewLeaf
<1>10. s \in Node /\ s \notin DOMAIN heap
  BY <1>3, <1>9, HeapAssumption DEF HeapOK
<1> DEFINE ct2 == [content EXCEPT ![BKey] = Append(@, bkey.ref)]
           l == [key |-> BKey, p |-> p2, v |-> v2]
<1>13. DOMAIN lab = DOMAIN heap
  BY <1>3 DEF Labelled
<1>11. CASE ~IsFull(N)
  <2> DEFINE h2 == Linked(heap, n, b, s, x)
             lab2 == With(lab, s, l)
  <2>1. Labelled(h2, ct2, root, lab2) /\ HeapOK(h2)
    <3> HIDE DEF n, d, P, V, b
    <3>1. /\ Agree(BKey, lab[n].key, EndP(heap, lab, n), EndV(heap, lab, n))
          /\ HasByte(BKey, heap[n].dim, EndP(heap, lab, n), EndV(heap, lab, n))
          /\ b = ByteAt(BKey, heap[n].dim, EndP(heap, lab, n), EndV(heap, lab, n))
          /\ p2 = EndP(heap, lab, n) + PathStep(heap[n].dim)
          /\ v2 = EndV(heap, lab, n) + ValueStep(heap[n].dim)
      BY <1>4, <1>5 DEF P, V
    <3> HIDE DEF p2, v2
    <3> QED  BY <1>3, <1>5, <1>6, <1>10, <3>1, AddLeafOK
  <2>2. heap' = h2 /\ root' = root
    <3>1. heap' = e(s) /\ root' = root
      BY <1>9, <1>11
    <3>2. e(s) = [m \in DOMAIN heap \cup {s} |->
                    IF m = s THEN x ELSE IF m = n THEN Put(heap[n], b, s) ELSE heap[m]]
      <4>1. LeafFrom(pos) = x /\ N = heap[n] /\ s # n
        BY <1>3, <1>7, <1>10
      <4> HIDE DEF n, b, x, d, pos
      <4> QED  BY <4>1
    <3> HIDE DEF e, n, b, x
    <3> QED  BY <3>1, <3>2 DEF Linked
  <2>3. Ordered(h2, lab2, Orders)
    <3> HIDE DEF n, d, P, V, b, p2, v2
    <3>1. HeapOK(heap) /\ n \in DOMAIN heap /\ heap[n].dim # "Leaf" /\ b \in Byte
      BY <1>3, <1>4, <1>5
    <3>2. BKey \in Key /\ bkey.ref \in Ref /\ Ordered(heap, lab, Orders)
          /\ ikey \in Orders /\ Merges(ikey, BKey) /\ Passes(ikey, p2, v2)
      BY <1>3, <1>4
    <3> QED  BY <1>7, <1>10, <1>13, <3>1, <3>2, LinkedOrdered, SMTT(30)
  <2>4. OneMore(RefSlots(heap), RefSlots(h2))
    <3> HIDE DEF n, b, x, h2
    <3>1. AddsLeaf(heap, h2, s)
      BY <1>3, <1>8, <1>10, LinkAdds DEF h2
    <3> QED  BY <3>1, AddedLeaf
  <2> HIDE DEF h2, lab2, ct2
  <2> QED  BY <1>1, <1>3, <2>1, <2>2, <2>3, <2>4, DoneSound DEF ct2
<1>12. CASE IsFull(N)
  <2>1. PICK g \in Malloc(DOMAIN heap \cup {s}) : Relink(f(s, g), g)
    BY <1>9, <1>12
  <2>2. g \in Node /\ g \notin DOMAIN heap /\ g # s
    BY <1>3, <1>10, <2>1, HeapAssumption DEF HeapOK
  <2> DEFINE z == Grow(N)
  <2>4. /\ z \in NodeRecord /\ z.dim = heap[n].dim /\ z.prefix = heap[n].prefix
        /\ z.sep = heap[n].sep /\ z.refs = heap[n].refs /\ z.children = heap[n].children
    <3>1. N \in InnerNode /\ N.sep <= Len(N.prefix)
      BY <1>1, <1>3, NodeFacts
    <3>2. b \in Byte
      BY <1>4
    <3> HIDE DEF b
    <3> QED  BY <1>3, <1>5, <1>12, <3>1, <3>2, GrowFacts
  <2>9. b \in Byte
    BY <1>4
  <2> DEFINE g0 == f(s, g)
  <2>10. /\ DOMAIN g0 = (DOMAIN heap \cup {s, g}) \ {n}
         /\ g0 = [m \in (DOMAIN heap \cup {s, g}) \ {n} |-> g0[m]]
         /\ g0[g] = Put(z, b, s) /\ g0[s] = x
         /\ \A m \in DOMAIN heap \ {n} : g0[m] = heap[m]
         /\ Relink(g0, g)
    <3> HIDE DEF pos, x, b, n
    <3> QED  BY <1>3, <1>7, <1>10, <2>1, <2>2
  <2> HIDE DEF n, d, P, V, b, z, g0, f, e, p2, v2
  <2> DEFINE h1 == Move(heap, n, g, par, pb, z)
             rt1 == IF par = nullptr THEN g ELSE root
             lab1 == MoveLabel(lab, n, g)
  <2>5. /\ Labelled(h1, content, rt1, lab1) /\ HeapOK(h1)
        /\ g \in DOMAIN h1 /\ lab1[g] = lab[n]
        /\ h1[g].dim = d /\ h1[g].children = heap[n].children
        /\ EndP(h1, lab1, g) = P /\ EndV(h1, lab1, g) = V
    BY <1>3, <1>5, <2>2, <2>4, MoveOK DEF P, V
  <2>6. DOMAIN h1 = (DOMAIN heap \cup {g}) \ {n} /\ DOMAIN lab1 = DOMAIN h1
    BY <1>13 DEF Move, MoveLabel
  <2> DEFINE h2 == Linked(h1, g, b, s, x)
             lab2 == With(lab1, s, l)
  <2>11. s \notin DOMAIN h1
    BY <1>10, <2>2, <2>6
  <2>7. Labelled(h2, ct2, rt1, lab2) /\ HeapOK(h2)
    <3>1. h1[g].children[b] = nullptr /\ Agree(BKey, lab1[g].key, P, V)
      BY <1>4, <1>5, <2>5
    <3>2. p2 = P + PathStep(d) /\ v2 = V + ValueStep(d)
      BY DEF p2, v2
    <3> HIDE DEF h1, rt1, lab1
    <3> QED  BY <1>3, <1>4, <1>5, <1>6, <1>10, <2>5, <2>11, <3>1, <3>2, AddLeafOK
  <2>8. heap' = h2 /\ root' = rt1
    <3>1. HeapOK(heap) /\ Labelled(heap, content, root, lab) /\ n \in DOMAIN heap
          /\ Hangs(heap, root, n, loc.parent, loc.parent_byte)
      BY <1>3
    <3> HIDE DEF x
    <3>2. /\ heap' = Linked(Move(heap, n, g, loc.parent, loc.parent_byte, z), g, b, s, x)
          /\ root' = IF loc.parent = nullptr THEN g ELSE root
      BY <1>10, <2>2, <2>10, <3>1, RelinkMove, SMTT(30)
    <3> QED  BY <3>2
  <2>12. Ordered(h2, lab2, Orders)
    <3>1. Ordered(h1, lab1, Orders)
      BY <1>3, <1>13, <2>2, <2>4, MovedOrdered
    <3>2. HeapOK(h1) /\ g \in DOMAIN h1 /\ h1[g].dim # "Leaf" /\ b \in Byte
      BY <1>5, <2>5, <2>9
    <3>3. BKey \in Key /\ bkey.ref \in Ref
          /\ ikey \in Orders /\ Merges(ikey, BKey) /\ Passes(ikey, p2, v2)
      BY <1>3, <1>4
    <3> HIDE DEF h1, lab1
    <3> QED  BY <1>7, <1>10, <2>6, <2>11, <3>1, <3>2, <3>3, LinkedOrdered, SMTT(30)
  <2>13. OneMore(RefSlots(heap), RefSlots(h2))
    <3> HIDE DEF x, h2
    <3>1. AddsLeaf(heap, h2, s)
      BY <1>3, <1>5, <1>8, <1>10, <2>2, <2>4, MoveAdds DEF h2
    <3> QED  BY <3>1, AddedLeaf
  <2> HIDE DEF h2, rt1, lab2, ct2
  <2> QED  BY <1>1, <1>3, <2>7, <2>8, <2>12, <2>13, DoneSound DEF ct2
<1> QED  BY <1>11, <1>12

\* The insertion never comes to a byte that is not there.
LEMMA NeverUndefined ==
  ASSUME PrefixFree, Compatible(used), Sound
  PROVE  ~Undefined
<1> SUFFICES ASSUME Undefined  PROVE FALSE
  OBVIOUS
<1>1. /\ pc = "locate" /\ ~LeafMatched /\ (~HasNext \/ (HasMismatch /\ ~CanSplit))
  BY DEF Undefined
<1>2. PICK lab : Good(lab)
  BY DEF Sound
<1>3. CASE HasMismatch
  BY <1>1, <1>2, <1>3, MismatchNext
<1>4. CASE ~HasMismatch
  <2>1. N.dim # "Leaf"
    BY <1>1, <1>4 DEF LeafMatched
  <2> DEFINE P == EndP(heap, lab, loc.node)
             V == EndV(heap, lab, loc.node)
             d == N.dim
  <2>2. P = EndP(heap, lab, loc.node) /\ V = EndV(heap, lab, loc.node) /\ d = N.dim
    OBVIOUS
  <2> HIDE DEF P, V, d
  <2>3. HasNext
    BY <1>1, <1>2, <1>4, <2>1, <2>2, InnerNext
  <2> QED  BY <1>1, <1>4, <2>3
<1> QED  BY <1>3, <1>4

LEMMA StutterSound ==
  ASSUME Sound, UNCHANGED <<vars, svars>>
  PROVE  Sound'
<1>1. /\ root' = root /\ heap' = heap /\ nr_keys' = nr_keys /\ pc' = pc /\ bkey' = bkey
      /\ loc' = loc /\ content' = content /\ ikey' = ikey /\ used' = used
  BY DEF vars, svars
<1>2. PICK lab : Good(lab)
  BY DEF Sound
<1>3. Good(lab)'
  BY <1>1, <1>2 DEF Good, Orders, BKey
<1>4. pc = "locate" => Inside'
  BY <1>1 DEF Sound, Inside, Orders, BKey
<1>5. CountInv'
  BY <1>1 DEF Sound, CountInv, CountExact
<1> QED  BY <1>1, <1>3, <1>4, <1>5 DEF Sound

LEMMA CompatibleLess ==
  ASSUME NEW S, NEW T, S \subseteq T, Compatible(T)
  PROVE  Compatible(S)
BY DEF Compatible

LEMMA SInvStep ==
  ASSUME PrefixFree, NonEmpty, SInv, [StaticNext]_<<vars, svars>>
  PROVE  SInv'
<1>1. UsedOK /\ UsedOK'
  BY UsedInv DEF SInv
<1> SUFFICES ASSUME Compatible(used')  PROVE Sound'
  BY <1>1 DEF SInv
<1>2. used \subseteq used'
  <2>1. ASSUME NEW k \in Key, NEW r \in Ref, NEW how \in {"PathValue", index_type},
               StaticInsertFirst(k, r, how) \/ StaticBegin(k, r, how)
        PROVE  used \subseteq used'
    BY <2>1 DEF StaticInsertFirst, StaticBegin
  <2>2. StaticSteps => used' = used
    BY DEF StaticSteps, StaticDescend, StaticAddRef, SplitNode, StaticAddNewLeaf, Undefined, svars
  <2>3. UNCHANGED <<vars, svars>> => used' = used
    BY DEF svars
  <2> QED  BY <2>1, <2>2, <2>3 DEF StaticNext
<1>3. Compatible(used) /\ Sound
  BY <1>2, CompatibleLess DEF SInv
<1>4. ASSUME NEW k \in Key, NEW r \in Ref, NEW how \in {"PathValue", index_type},
             StaticInsertFirst(k, r, how)
      PROVE  Sound'
  BY <1>1, <1>3, <1>4, FirstSound
<1>5. ASSUME NEW k \in Key, NEW r \in Ref, NEW how \in {"PathValue", index_type},
             StaticBegin(k, r, how)
      PROVE  Sound'
  BY <1>1, <1>3, <1>5, BeginSound
<1>6. CASE StaticDescend
  BY <1>3, <1>6, DescendSound
<1>7. CASE StaticAddRef
  BY <1>3, <1>7, AddRefSound
<1>8. CASE SplitNode
  BY <1>3, <1>8, SplitSound
<1>9. CASE StaticAddNewLeaf
  BY <1>3, <1>9, AddNewLeafSound
<1>10. ~Undefined
  BY <1>3, NeverUndefined
<1>11. CASE UNCHANGED <<vars, svars>>
  BY <1>3, <1>11, StutterSound
<1> QED  BY <1>4, <1>5, <1>6, <1>7, <1>8, <1>9, <1>10, <1>11 DEF StaticNext, StaticSteps

LEMMA SInvAlways ==
  ASSUME PrefixFree, NonEmpty
  PROVE  StaticSpec => []SInv
<1>1. StaticInit => SInv
  BY InitSound, UsedInv DEF SInv
<1>2. SInv /\ [StaticNext]_<<vars, svars>> => SInv'
  BY SInvStep
<1> QED  BY <1>1, <1>2, PTL DEF StaticSpec

\* As long as the keys inserted do not mix dimensions, no step reads a byte
\* behind the end of the key or cuts a prefix where it has no byte of the
\* dimension (insertion_static.cpp:48-68, 112-203): undefined behaviour needs a
\* bulk load and an insertion with different interleavings, or keys of
\* different sizes under the z-order.
THEOREM OnlyMixedIsUndefined ==
  ASSUME PrefixFree, NonEmpty
  PROVE  StaticSpec => []UndefinedOnlyMixed
<1>1. SInv => UndefinedOnlyMixed
  BY DEF SInv, Sound, UndefinedOnlyMixed
<1> QED  BY <1>1, SInvAlways, PTL

\* As long as the keys inserted do not mix dimensions, the static trie is
\* labelled like the dynamic one, a tree, and it counts its references: an
\* insertion that cuts and extends in the dimension the interleaved key
\* dictates leaves every stored key under its own leaf with all its references
\* (insertion_static.cpp:16-221).
THEOREM StaticCorrect ==
  ASSUME PrefixFree, NonEmpty
  PROVE  StaticSpec => []StaticRepresents
<1>1. SInv => StaticRepresents
  <2> SUFFICES ASSUME SInv, pc = "idle", Compatible(used)
               PROVE  /\ root # nullptr => Labelled(heap, content, root, WalkLabels)
                      /\ OneTree /\ CountExact
    BY DEF StaticRepresents
  <2>1. HeapOK(heap) /\ CountInv
    BY DEF SInv, Sound
  <2>2. PICK lab : Labelled(heap, content, root, lab)
    BY DEF SInv, Sound, Good
  <2>3. root # nullptr => Labelled(heap, content, root, WalkLabels)
    BY <2>1, <2>2, WalkRelabels, RelabelOK
  <2>4. OneTree
    BY <2>1, <2>2, LabelledTree
  <2>5. CountExact
    BY <2>1 DEF CountInv
  <2> QED  BY <2>3, <2>4, <2>5
<1> QED  BY <1>1, SInvAlways, PTL
=============================================================================
