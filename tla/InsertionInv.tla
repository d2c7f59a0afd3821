--------------------------- MODULE InsertionInv ---------------------------
(***************************************************************************)
(* Why the trie finds its keys.  Give every node a label: a key stored     *)
(* below it, and how many path and value bytes of that key are consumed on *)
(* the way from the root to the node.  The labels make local what is true  *)
(* of whole paths through the trie:                                        *)
(*   - the prefix of a node is a part of its key, right behind the consumed *)
(*     bytes, and a leaf spells out the rest of it;                         *)
(*   - the child under byte b has a key that goes on with b;                *)
(*   - of two nodes either one is below the other, or their keys differ in  *)
(*     bytes that both have consumed: no two branches overlap;              *)
(*   - every stored key is the label of a leaf, and every node but the root  *)
(*     is the child of another one.                                         *)
(* The last two make the descent of the Locator inevitable: a node whose   *)
(* consumed bytes agree with a stored key has the leaf of that key below    *)
(* it.  The labels are no part of the program: a state is good if some      *)
(* labelling exists.                                                        *)
(***************************************************************************)
EXTENDS Insertion

\* Keys a and b have p path bytes and v value bytes in common.
Agree(a, b, p, v) ==
  /\ p <= Len(a.path) /\ p <= Len(b.path) /\ v <= Len(a.value) /\ v <= Len(b.value)
  /\ \A i \in 1..p : a.path[i] = b.path[i]
  /\ \A i \in 1..v : a.value[i] = b.value[i]

Label == [key : Key, p : Nat, v : Nat]

\* In what follows h is a heap, ct the references of each key, rt the root.
\* The path and value bytes of the label's key up to the end of n's prefix.
EndP(h, lab, n) == lab[n].p + h[n].sep
EndV(h, lab, n) == lab[n].v + (Len(h[n].prefix) - h[n].sep)

\* The prefix of node record n is the part of key k behind p and v bytes.
Spells(n, k, p, v) ==
  /\ p + n.sep <= Len(k.path)
  /\ v + (Len(n.prefix) - n.sep) <= Len(k.value)
  /\ \A i \in 1..n.sep : n.prefix[i] = k.path[p + i]
  /\ \A i \in 1..(Len(n.prefix) - n.sep) : n.prefix[n.sep + i] = k.value[v + i]

EndOK(h, ct, lab, n) ==
  LET k == lab[n].key IN
  IF h[n].dim = "Leaf"
  THEN /\ EndP(h, lab, n) = Len(k.path) /\ EndV(h, lab, n) = Len(k.value)
       /\ h[n].refs = ct[k]
  ELSE HasByte(k, h[n].dim, EndP(h, lab, n), EndV(h, lab, n))

\* c, the child of n under byte b, consumes the prefix of n and b.
ChildOK(h, lab, n, b, c) ==
  LET d == h[n].dim
      p == EndP(h, lab, n)
      v == EndV(h, lab, n)
  IN  /\ Agree(lab[n].key, lab[c].key, p, v)
      /\ HasByte(lab[c].key, d, p, v) /\ ByteAt(lab[c].key, d, p, v) = b
      /\ lab[c].p = p + PathStep(d) /\ lab[c].v = v + ValueStep(d)

\* m lies below n, under the child that the byte of m's key selects.
Below(h, lab, n, m) ==
  LET d == h[n].dim
      p == EndP(h, lab, n)
      v == EndV(h, lab, n)
  IN  /\ d # "Leaf"
      /\ Agree(lab[n].key, lab[m].key, p, v)
      /\ p + PathStep(d) <= lab[m].p /\ v + ValueStep(d) <= lab[m].v
      /\ h[n].children[ByteAt(lab[m].key, d, p, v)] # nullptr

\* The keys differ in a byte that both nodes have consumed.
Differ(s, t, i, j) == \E x \in 1..i : x <= j /\ s[x] # t[x]

Conflict(l, m) == \/ Differ(l.key.path, m.key.path, l.p, m.p)
                  \/ Differ(l.key.value, m.key.value, l.v, m.v)

Apart(h, lab, n, m) ==
  Conflict(lab[n], lab[m]) \/ Below(h, lab, n, m) \/ Below(h, lab, m, n)

LabelOK(h, ct, lab, n) ==
  /\ lab[n].p <= Len(lab[n].key.path) /\ lab[n].v <= Len(lab[n].key.value)
  /\ ct[lab[n].key] # <<>>
  /\ Spells(h[n], lab[n].key, lab[n].p, lab[n].v)
  /\ EndOK(h, ct, lab, n)

Labelled(h, ct, rt, lab) ==
  /\ lab \in [DOMAIN h -> Label]
  /\ \A n \in DOMAIN h : LabelOK(h, ct, lab, n)
  /\ \A n \in DOMAIN h, b \in Byte :
       h[n].children[b] # nullptr =>
         /\ h[n].children[b] \in DOMAIN h
         /\ ChildOK(h, lab, n, b, h[n].children[b])
  /\ \A n, m \in DOMAIN h : n # m => Apart(h, lab, n, m)
  /\ \A k \in Key : ct[k] # <<>> =>
       \E n \in DOMAIN h : h[n].dim = "Leaf" /\ lab[n].key = k
  /\ \A n \in DOMAIN h : n # rt =>
       \E m \in DOMAIN h, b \in Byte : h[m].children[b] = n
  /\ rt = nullptr => DOMAIN h = {}
  /\ rt # nullptr => rt \in DOMAIN h /\ lab[rt].p = 0 /\ lab[rt].v = 0

\* Where the Locator l stands with key k: all it has consumed agrees with the
\* label of the node, and the matcher has stopped at the first difference.
Located(h, rt, k, l, lab) ==
  LET n == h[l.node]
      m == lab[l.node]
  IN  /\ l.node_p_pos <= n.sep
      /\ n.sep <= l.node_v_pos /\ l.node_v_pos <= Len(n.prefix)
      /\ l.bkey_p_pos = m.p + l.node_p_pos
      /\ l.bkey_v_pos = m.v + (l.node_v_pos - n.sep)
      /\ Agree(k, m.key, l.bkey_p_pos, l.bkey_v_pos)
      /\ l.node_p_pos < n.sep => \/ l.bkey_p_pos = Len(k.path)
                                 \/ k.path[l.bkey_p_pos + 1] # n.prefix[l.node_p_pos + 1]
      /\ l.node_v_pos < Len(n.prefix) =>
           \/ l.bkey_v_pos = Len(k.value)
           \/ k.value[l.bkey_v_pos + 1] # n.prefix[l.node_v_pos + 1]
      /\ IF l.parent = nullptr THEN l.node = rt
         ELSE h[l.parent].children[l.parent_byte] = l.node

Represented(lab) ==
  /\ Labelled(heap, content, root, lab)
  /\ pc = "locate" => Located(heap, root, BKey, loc, lab)

\* The trie represents the inserted keys.
Represents == \E lab \in [DOMAIN heap -> Label] : Represented(lab)

-----------------------------------------------------------------------------
(* Walking down the trie: what a lookup of a key reads, and what the labels *)
(* of a state can be read from.                                            *)

\* The step of the walk with key k from place s, a node and the path and value
\* bytes consumed on the way to it: to the child, if there is one.
Onward(k, s) ==
  LET n == heap[s.node]
      p == s.p + n.sep
      v == s.v + (Len(n.prefix) - n.sep)
      c == n.children[ByteAt(k, n.dim, p, v)]
  IN  IF n.dim # "Leaf" /\ Spells(n, k, s.p, s.v) /\ HasByte(k, n.dim, p, v) /\ c # nullptr
      THEN {[node |-> c, p |-> p + PathStep(n.dim), v |-> v + ValueStep(n.dim)]}
      ELSE {}

\* The places of the walk from the root; every step consumes a byte.
Walk(k) ==
  LET start == [node |-> root, p |-> 0, v |-> 0]
      at[i \in 0..(Len(k.path) + Len(k.value))] ==
        {start} \cup IF i = 0 THEN {} ELSE UNION {Onward(k, s) : s \in at[i - 1]}
  IN  at[Len(k.path) + Len(k.value)]

\* Key k ends at place s with the leaf.
EndsAt(k, s) ==
  LET n == heap[s.node] IN
  /\ n.dim = "Leaf" /\ Spells(n, k, s.p, s.v)
  /\ s.p + n.sep = Len(k.path) /\ s.v + (Len(n.prefix) - n.sep) = Len(k.value)

\* The references a walk through the trie finds.
Found(k) ==
  LET ends == {s \in Walk(k) : EndsAt(k, s)}
  IN  IF ends = {} THEN <<>> ELSE heap[(CHOOSE s \in ends : TRUE).node].refs

Stored == [k \in Key |-> IF root = nullptr THEN <<>> ELSE Found(k)]

index == INSTANCE IndexSpec WITH content <- Stored

\* What the trie stores, read back by a walk from the root, behaves like the
\* abstract index: an insertion appends its reference to its key and leaves
\* every other key as it is, whatever it splits, shortens or grows.
ImplementsIndex == index!Spec

\* The number of keys the index reports is the number of references in it.
RefSlots(h) == UNION {{n} \X (1..Len(h[n].refs)) : n \in DOMAIN h}

CountExact == nr_keys = Cardinality(RefSlots(heap))

\* The labels: for a node, a stored key whose walk comes along, and its place.
WalkLabels ==
  LET along == UNION {{[node |-> s.node, key |-> k, p |-> s.p, v |-> s.v] : s \in Walk(k)} :
                      k \in {k \in Key : content[k] # <<>>}}
      of == [n \in DOMAIN heap |-> CHOOSE l \in along : l.node = n]
  IN  [n \in DOMAIN heap |-> [key |-> of[n].key, p |-> of[n].p, v |-> of[n].v]]

\* The labelling exists in every state.
LabelsExist == LET lab == WalkLabels IN Represented(lab)
=============================================================================
