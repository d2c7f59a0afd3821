-------------------------- MODULE InsertionStatic --------------------------
(***************************************************************************)
(* Insertion into the statically interleaved trie (insertion_static.cpp).  *)
(* The nodes and the ways to cut them are those of module Insertion; what  *)
(* differs is that the interleaved key alone decides in which dimension a  *)
(* node is split or extended.  Cas::BulkLoad is a run of these insertions   *)
(* with the interleaving of the index, Cas::Insert one with PathValue.     *)
(***************************************************************************)
EXTENDS InsertionInv, Interleaver

VARIABLES index_type,  \* Cas::index_type_
          ikey,        \* the bytes of the interleaved key being inserted
          used         \* history: the interleaved keys inserted so far, and how

svars == <<index_type, ikey, used>>

StaticInit ==
  Init /\ index_type \in IndexType /\ ikey = <<>> /\ used = {}

-----------------------------------------------------------------------------
\* MatchPrefix from position pos of the key on: byte by byte in the order of
\* the key, as long as the byte is the next of its dimension in the prefix.
Count(pos, m, d) == Cardinality({i \in (pos + 1)..(pos + m) : ikey'[i].dimension = d})

Fits(node, pos, m) ==
  LET b == ikey'[pos + m] IN
  IF b.dimension = "Path"
  THEN /\ Count(pos, m, "Path") <= node.sep
       /\ node.prefix[Count(pos, m, "Path")] = b.byte
  ELSE /\ Count(pos, m, "Value") <= Len(node.prefix) - node.sep
       /\ node.prefix[node.sep + Count(pos, m, "Value")] = b.byte

MatchPrefix(n, parent, b, pos) ==
  LET node == heap[n]
      m == Least({m \in 0..(Len(ikey') - pos) :
                    m = Len(ikey') - pos \/ ~Fits(node, pos, m + 1)})
  IN  [node |-> n, parent |-> parent, parent_byte |-> b, ikey_pos |-> pos + m,
       node_p_pos |-> Count(pos, m, "Path"),
       node_v_pos |-> node.sep + Count(pos, m, "Value")]

\* KeyFullyMatched: the whole prefix of a leaf.
LeafMatched == N.dim = "Leaf" /\ ~HasMismatch

HasNext == loc.ikey_pos < Len(ikey)
Next_ == ikey[loc.ikey_pos + 1]

\* SplitNode cuts the prefix at the position of the key's dimension.
CanSplit == IF Next_.dimension = "Path" THEN PathMismatch ELSE ValueMismatch

\* The bytes of dimension d from position pos on.
Rest(pos, d) ==
  LET from[i \in 0..Len(ikey)] ==
        IF i <= pos THEN <<>>
        ELSE IF ikey[i].dimension = d THEN Append(from[i - 1], ikey[i].byte)
        ELSE from[i - 1]
  IN  from[Len(ikey)]

\* Defect: the leaf keeps the byte that selects it.
LeafFromLate(pos) ==
  [dim |-> "Leaf", prefix |-> Rest(pos - 1, "Path") \o Rest(pos - 1, "Value"),
   sep |-> Len(Rest(pos - 1, "Path")), children |-> NoChildren, layout |-> 0,
   refs |-> <<bkey.ref>>]

\* Node0(ikey, pos): the remaining bytes, those of the path first.
LeafFrom(pos) ==
  [dim |-> "Leaf", prefix |-> Rest(pos, "Path") \o Rest(pos, "Value"),
   sep |-> Len(Rest(pos, "Path")), children |-> NoChildren, layout |-> 0,
   refs |-> <<bkey.ref>>]

-----------------------------------------------------------------------------
StaticInsertFirst(k, r, how) ==
  /\ InsertFirst(k, r)
  /\ used' = used \cup {[how |-> how, bytes |-> Interleave(k, how)]}
  /\ UNCHANGED <<index_type, ikey>>

StaticBegin(k, r, how) ==
  /\ pc = "idle" /\ nr_keys < MaxKeys /\ root # nullptr
  /\ pc' = "locate"
  /\ bkey' = [path |-> k.path, value |-> k.value, ref |-> r]
  /\ ikey' = Interleave(k, how)
  /\ loc' = MatchPrefix(root, nullptr, 0, 0)
  /\ used' = used \cup {[how |-> how, bytes |-> ikey']}
  /\ UNCHANGED <<root, heap, nr_keys, content, index_type>>

StaticDescending == pc = "locate" /\ ~HasMismatch /\ ~LeafMatched /\ HasNext
StaticChild == N.children[Next_.byte]

\* Defect: the byte that selected the child is matched again.
DescendNoStep ==
  /\ StaticDescending /\ StaticChild # nullptr
  /\ ikey' = ikey
  /\ loc' = MatchPrefix(StaticChild, loc.node, Next_.byte, loc.ikey_pos)
  /\ UNCHANGED <<root, heap, nr_keys, pc, bkey, content, index_type, used>>

\* Defect: the loop does not go on to the child.
DescendNowhere ==
  StaticDescending /\ StaticChild # nullptr /\ UNCHANGED <<vars, svars>>

\* Descend: the child under the key's byte, of whatever dimension that is.
StaticDescend ==
  /\ StaticDescending /\ StaticChild # nullptr
  /\ ikey' = ikey
  /\ loc' = MatchPrefix(StaticChild, loc.node, Next_.byte, loc.ikey_pos + 1)
  /\ UNCHANGED <<root, heap, nr_keys, pc, bkey, content, index_type, used>>

StaticAddRef ==
  /\ pc = "locate" /\ LeafMatched
  /\ heap' = [heap EXCEPT ![loc.node].refs = Append(@, bkey.ref)]
  /\ root' = root /\ ikey' = <<>>
  /\ Success /\ UNCHANGED <<index_type, used>>

\* SplitNodeByPath, SplitNodeByValue
SplitNode ==
  /\ pc = "locate" /\ ~LeafMatched /\ HasMismatch /\ HasNext /\ CanSplit
  /\ LET d == Next_.dimension IN
     \E q \in Malloc(DOMAIN heap) : \E s \in Malloc(DOMAIN heap \cup {q}) :
       Relink([m \in DOMAIN heap \cup {q, s} |->
                 CASE m = q -> Put(Put(NewNode4(d, ParentPrefix, loc.node_p_pos),
                                       NodeByte(d), loc.node), Next_.byte, s)
                   [] m = s -> LeafFrom(loc.ikey_pos + 1)
                   [] m = loc.node -> Shortened(d)
                   [] OTHER -> heap[m]], q)
  /\ ikey' = <<>> /\ Success /\ UNCHANGED <<index_type, used>>

StaticAddNewLeaf ==
  /\ StaticDescending /\ StaticChild = nullptr
  /\ \E s \in Malloc(DOMAIN heap) :
     IF IsFull(N)
     THEN \E g \in Malloc(DOMAIN heap \cup {s}) :
            Relink([m \in (DOMAIN heap \cup {s, g}) \ {loc.node} |->
                      CASE m = s -> LeafFrom(loc.ikey_pos + 1)
                        [] m = g -> Put(Grow(N), Next_.byte, s)
                        [] OTHER -> heap[m]], g)
     ELSE /\ heap' = [m \in DOMAIN heap \cup {s} |->
                        CASE m = s -> LeafFrom(loc.ikey_pos + 1)
                          [] m = loc.node -> Put(N, Next_.byte, s)
                          [] OTHER -> heap[m]]
          /\ root' = root
  /\ ikey' = <<>> /\ Success /\ UNCHANGED <<index_type, used>>

\* A byte is read behind the end of the key, or the prefix is cut behind the
\* bytes of its dimension: undefined behaviour, where the model stops.
Undefined ==
  /\ pc = "locate" /\ ~LeafMatched
  /\ ~HasNext \/ (HasMismatch /\ ~CanSplit)
  /\ pc' = "undefined"
  /\ UNCHANGED <<root, heap, nr_keys, bkey, loc, content, svars>>

StaticSteps ==
  StaticDescend \/ StaticAddRef \/ SplitNode \/ StaticAddNewLeaf \/ Undefined

\* The interleavings Cas uses: Insert always that of PathValue.
StaticNext ==
  \/ \E k \in Key, r \in Ref, how \in {"PathValue", index_type} :
       StaticInsertFirst(k, r, how) \/ StaticBegin(k, r, how)
  \/ StaticSteps

StaticSpec ==
  /\ StaticInit /\ [][StaticNext]_<<vars, svars>>
  /\ WF_<<vars, svars>>(StaticSteps)

-----------------------------------------------------------------------------
\* Two interleaved keys that agree up to some position go on in the same
\* dimension: what has been consumed says which dimension is next.
Compatible(S) ==
  \A a, b \in S : \A i \in 1..Len(a.bytes) :
    i <= Len(b.bytes) /\ SubSeq(a.bytes, 1, i - 1) = SubSeq(b.bytes, 1, i - 1)
    => a.bytes[i].dimension = b.bytes[i].dimension

\* An index that is only loaded, or only inserted into, never mixes dimensions;
\* with the z-order only if all keys have the same sizes, as the surrogates
\* give them (approach "zo" of the benchmarks).
TypesCompatible ==
  /\ \A a, b \in used : a.how = b.how
  /\ \A a, b \in used : a.how = "ZOrder" =>
       /\ Len(a.bytes) = Len(b.bytes)
       /\ \A d \in Dimension : Cardinality({i \in DOMAIN a.bytes : a.bytes[i].dimension = d})
                             = Cardinality({i \in DOMAIN b.bytes : b.bytes[i].dimension = d})
  => Compatible(used)

\* As long as the dimensions are not mixed, no byte is read behind the end of
\* the key and no prefix is cut where it has no byte of the dimension.
UndefinedOnlyMixed == pc = "undefined" => ~Compatible(used)

\* As long as the dimensions are not mixed, the static trie is a trie like the
\* dynamic one: the labelling exists after every insertion, so queries, which
\* do not know the index type, find every key with all its references.
StaticRepresents ==
  pc = "idle" /\ Compatible(used) =>
    /\ root # nullptr => Labelled(heap, content, root, WalkLabels)
    /\ OneTree /\ CountExact
=============================================================================
