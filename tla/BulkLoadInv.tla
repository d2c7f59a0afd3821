---------------------------- MODULE BulkLoadInv ----------------------------
(***************************************************************************)
(* Why a bulk load ends with a trie like the one insertions make.  The      *)
(* labels of InsertionInv exist for the nodes that are there already.  A    *)
(* pending call has a label, too: the first key of its partition, and how  *)
(* many bytes of it the nodes above consume.  A call is then a subtrie that *)
(* is still missing: it stands apart from the other calls and from all     *)
(* nodes it does not lie below, and the link to it is still free.           *)
(***************************************************************************)
EXTENDS BulkLoad

\* In what follows ks is a deque and cs the pending calls for its partitions.
CallLabel(ks, c) ==
  LET k == KeyOf(ks, First(c.indexes))
  IN  [key |-> k, p |-> End(k.path, c.dp), v |-> End(k.value, c.dv)]

\* The link to the result of call c is free, and where a child of the label l
\* belongs.
Waits(h, rt, lab, c, l) ==
  IF c.parent = nullptr
  THEN rt = nullptr /\ l.p = 0 /\ l.v = 0
  ELSE LET d == h[c.parent].dim
           p == EndP(h, lab, c.parent)
           v == EndV(h, lab, c.parent)
       IN  /\ c.parent \in DOMAIN h /\ d # "Leaf" /\ c.byte \in Byte
           /\ h[c.parent].children[c.byte] = nullptr
           /\ Agree(lab[c.parent].key, l.key, p, v)
           /\ HasByte(l.key, d, p, v) /\ ByteAt(l.key, d, p, v) = c.byte
           /\ l.p = p + PathStep(d) /\ l.v = v + ValueStep(d)

\* The keys of a partition agree in all consumed bytes, and equal keys are in
\* the same partition.
IsPartition(ks, c, l) ==
  /\ c.indexes \subseteq DOMAIN ks /\ c.indexes # {}
  /\ l \in Label /\ l.p <= Len(l.key.path) /\ l.v <= Len(l.key.value)
  /\ \A i \in c.indexes : Agree(l.key, KeyOf(ks, i), l.p, l.v)
  /\ \A i \in c.indexes, j \in DOMAIN ks :
       KeyOf(ks, i) = KeyOf(ks, j) => j \in c.indexes

\* The result of call c with label l will lie below n.
Above(h, lab, n, c, l) ==
  LET d == h[n].dim
      p == EndP(h, lab, n)
      v == EndV(h, lab, n)
      b == ByteAt(l.key, d, p, v)
  IN  /\ d # "Leaf"
      /\ Agree(lab[n].key, l.key, p, v)
      /\ p + PathStep(d) <= l.p /\ v + ValueStep(d) <= l.v
      /\ h[n].children[b] # nullptr \/ (c.parent = n /\ c.byte = b)

NodesOK(h, ct, rt, lab) ==
  /\ lab \in [DOMAIN h -> Label]
  /\ \A n \in DOMAIN h : LabelOK(h, ct, lab, n)
  /\ \A n \in DOMAIN h, b \in Byte :
       h[n].children[b] # nullptr =>
         /\ h[n].children[b] \in DOMAIN h
         /\ ChildOK(h, lab, n, b, h[n].children[b])
  /\ \A n, m \in DOMAIN h : n # m => Apart(h, lab, n, m)
  /\ \A n \in DOMAIN h : n # rt =>
       \E m \in DOMAIN h, b \in Byte : h[m].children[b] = n
  /\ rt = nullptr => DOMAIN h = {}
  /\ rt # nullptr => rt \in DOMAIN h /\ lab[rt].p = 0 /\ lab[rt].v = 0

CallsOK(h, rt, lab, ks, cs) ==
  /\ \A c \in cs : IsPartition(ks, c, CallLabel(ks, c)) /\ Waits(h, rt, lab, c, CallLabel(ks, c))
  /\ \A c \in cs, n \in DOMAIN h :
       Conflict(lab[n], CallLabel(ks, c)) \/ Above(h, lab, n, c, CallLabel(ks, c))
  /\ \A c, e \in cs : c # e => Conflict(CallLabel(ks, c), CallLabel(ks, e))

\* Every stored key has its leaf or is in a pending call.
AllKept(h, ct, lab, ks, cs) ==
  \A k \in Key : ct[k] # <<>> =>
    \/ \E n \in DOMAIN h : h[n].dim = "Leaf" /\ lab[n].key = k
    \/ \E c \in cs : \E i \in c.indexes : KeyOf(ks, i) = k

\* While the trie is built.  Without pending calls this is Labelled.
Loading(h, ct, rt, lab, ks, cs) ==
  /\ NodesOK(h, ct, rt, lab) /\ CallsOK(h, rt, lab, ks, cs) /\ AllKept(h, ct, lab, ks, cs)

\* What the history says of the keys of the deque.
ContentOf(ks) == [k \in Key |-> RefsOf(ks, {i \in DOMAIN ks : KeyOf(ks, i) = k})]

\* While a load runs the partly built trie and the calls that are left together
\* represent the deque.
LoadRepresents ==
  todo # {} =>
    /\ content = ContentOf(keys)
    /\ \E lab \in [DOMAIN heap -> Label] : Loading(heap, content, root, lab, keys, todo)

\* The entries of an inner node that are in use or will be.
Slots(n) == {b \in Byte : \/ heap[n].children[b] # nullptr
                          \/ \E c \in todo : c.parent = n /\ c.byte = b}

\* No level is wasted, and no node is narrower than its children: as soon as a
\* node is made, its layout is the narrowest for the children it has and those
\* that are still missing.  Without pending calls this is FanOut.
RoomFor ==
  \A n \in DOMAIN heap : heap[n].dim # "Leaf" =>
    /\ Cardinality(Slots(n)) \in 2..Widths[heap[n].layout]
    /\ heap[n].layout > 1 => Cardinality(Slots(n)) > Widths[heap[n].layout - 1]

\* What was bulk-loaded is a trie that insertions can go on with: the labelling
\* exists after every load, whatever was inserted before and is inserted after,
\* and NrKeys counts the references of the trie that has replaced the old one.
\* It exists already while the trie is built, with the pending calls for the
\* branches that are missing.
LoadedRepresents ==
  IF todo = {} THEN LabelsExist /\ CountExact
  ELSE LET lab == WalkLabels IN Loading(heap, content, root, lab, keys, todo)
=============================================================================
