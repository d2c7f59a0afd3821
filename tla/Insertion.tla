----------------------------- MODULE Insertion -----------------------------
(***************************************************************************)
(* Insertion into the dynamically interleaved trie (insertion.cpp), with   *)
(* the descent of the Locator (locator.cpp) and the prefix matching of the *)
(* PrefixMatcher (prefix_matcher.cpp).  One insertion is a run of steps:   *)
(* Begin starts the Locator at the root, every iteration of its loop is a  *)
(* Locate, and a last one of AddRefToExistingLeaf, AtMismatch and          *)
(* AddNewLeaf finishes Execute.                                            *)
(***************************************************************************)
EXTENDS Trie

CONSTANTS MaxKeys   \* bound: insertions that succeed

VARIABLES root,     \* Cas::root_
          heap,     \* the allocated nodes
          nr_keys,  \* Cas::nr_keys_
          pc,       \* "idle", "locate" inside Execute, "aborted", "undefined"
          bkey,     \* the key being inserted, with its reference
          loc,      \* the members of Locator and its PrefixMatcher
          content   \* history: the references inserted under each key

vars == <<root, heap, nr_keys, pc, bkey, loc, content>>

NoKey == [path |-> <<>>, value |-> <<>>, ref |-> nullptr]
NoLoc == [node |-> nullptr, parent |-> nullptr, parent_byte |-> 0,
          bkey_p_pos |-> 0, bkey_v_pos |-> 0, node_p_pos |-> 0, node_v_pos |-> 0]

Init ==
  /\ root = nullptr
  /\ heap = [n \in {} |-> nullptr]
  /\ nr_keys = 0
  /\ pc = "idle"
  /\ bkey = NoKey
  /\ loc = NoLoc
  /\ content = [k \in Key |-> <<>>]

-----------------------------------------------------------------------------
(* PrefixMatcher                                                            *)

\* Match: the path bytes of the node's prefix, then the value bytes, from the
\* key positions p and v on.
Match(key, n, parent, b, p, v) ==
  LET node == heap[n]
      mp == MatchLength(key.path, p, node.prefix, 0, node.sep)
      mv == MatchLength(key.value, v, node.prefix, node.sep, Len(node.prefix))
  IN  [node |-> n, parent |-> parent, parent_byte |-> b,
       bkey_p_pos |-> p + mp, bkey_v_pos |-> v + mv,
       node_p_pos |-> mp, node_v_pos |-> node.sep + mv]

N == heap[loc.node]

PathMismatch  == loc.node_p_pos < N.sep
ValueMismatch == loc.node_v_pos < Len(N.prefix)
HasMismatch   == PathMismatch \/ ValueMismatch

KeyFullyMatched ==
  loc.bkey_p_pos >= Len(bkey.path) /\ loc.bkey_v_pos >= Len(bkey.value)

-----------------------------------------------------------------------------
(* Locator::Locate                                                          *)

\* The loop goes on, at an inner node.
Descending == pc = "locate" /\ ~KeyFullyMatched /\ ~HasMismatch /\ N.dim # "Leaf"

\* The byte of the key that selects the child, and the positions behind it.
NextByte  == ByteAt(bkey, N.dim, loc.bkey_p_pos, loc.bkey_v_pos)
NextPath  == loc.bkey_p_pos + PathStep(N.dim)
NextValue == loc.bkey_v_pos + ValueStep(N.dim)

LocateChild == N.children[NextByte]

\* The byte that is read without a check, by the loop or by Restructure, is one
\* of the key's.
InsideKey(d) == HasByte(bkey, d, loc.bkey_p_pos, loc.bkey_v_pos)

\* Defect: the loop does not advance to the child.
DescendStays ==
  Descending /\ InsideKey(N.dim) /\ LocateChild # nullptr /\ UNCHANGED vars

Descend ==
  /\ Descending
  /\ InsideKey(N.dim) /\ LocateChild # nullptr
  /\ loc' = Match(bkey, LocateChild, loc.node, NextByte, NextPath, NextValue)
  /\ UNCHANGED <<root, heap, nr_keys, pc, bkey, content>>

-----------------------------------------------------------------------------
(* Insertion::Execute                                                       *)

\* Defect: a new reference of a stored key is not counted.
SuccessNewKeys ==
  LET k == [path |-> bkey.path, value |-> bkey.value] IN
  /\ nr_keys' = IF content[k] = <<>> THEN nr_keys + 1 ELSE nr_keys
  /\ content' = [content EXCEPT ![k] = Append(@, bkey.ref)]
  /\ pc' = "idle" /\ bkey' = NoKey /\ loc' = NoLoc

\* Execute returns true; Cas::Insert counts the key.
Success ==
  /\ nr_keys' = nr_keys + 1
  /\ LET k == [path |-> bkey.path, value |-> bkey.value]
     IN  content' = [content EXCEPT ![k] = Append(@, bkey.ref)]
  /\ pc' = "idle" /\ bkey' = NoKey /\ loc' = NoLoc

\* Defect: the pointer of the parent is not replaced.
RelinkRootOnly(h, n) ==
  /\ root' = IF loc.parent = nullptr THEN n ELSE root
  /\ heap' = h

\* The link that led to loc.node, root_ or the entry of the parent, now leads
\* to n.
Relink(h, n) ==
  IF loc.parent = nullptr
  THEN root' = n /\ heap' = h
  ELSE root' = root /\ heap' = [h EXCEPT ![loc.parent] = Put(@, loc.parent_byte, n)]

\* The first key makes a leaf the root, within one call.
InsertFirst(k, r) ==
  /\ pc = "idle" /\ nr_keys < MaxKeys
  /\ root = nullptr
  /\ \E n \in Malloc(DOMAIN heap) :
       /\ root' = n
       /\ heap' = [m \in DOMAIN heap \cup {n} |->
                     IF m = n THEN NewLeaf(k, 0, 0, r) ELSE heap[m]]
  /\ nr_keys' = nr_keys + 1
  /\ content' = [content EXCEPT ![k] = Append(@, r)]
  /\ UNCHANGED <<pc, bkey, loc>>

Begin(k, r) ==
  /\ pc = "idle" /\ nr_keys < MaxKeys
  /\ root # nullptr
  /\ pc' = "locate"
  /\ bkey' = [path |-> k.path, value |-> k.value, ref |-> r]
  /\ loc' = Match(k, root, nullptr, 0, 0, 0)
  /\ UNCHANGED <<root, heap, nr_keys, content>>

\* AddRefToExistingLeaf, at a leaf
AddRef ==
  /\ N.dim = "Leaf"
  /\ heap' = [heap EXCEPT ![loc.node].refs = Append(@, bkey.ref)]
  /\ root' = root
  /\ Success

\* DetermineDimension: if both dimensions mismatch, the one the parent (for
\* the root: the node itself) does not have; a leaf as root is split by value,
\* the default of root_dimension_.
Opposite(d) == IF d = "Path" THEN "Value" ELSE "Path"

\* Defect: always alternate, whatever mismatches.
DimensionAlternates ==
  IF loc.parent # nullptr THEN Opposite(heap[loc.parent].dim)
  ELSE IF N.dim = "Leaf" THEN "Value" ELSE Opposite(N.dim)

DetermineDimension ==
  IF PathMismatch /\ ValueMismatch
  THEN IF loc.parent # nullptr THEN Opposite(heap[loc.parent].dim)
       ELSE IF N.dim = "Leaf" THEN "Value" ELSE Opposite(N.dim)
  ELSE IF PathMismatch THEN "Path" ELSE "Value"

\* Defect: the whole path part of the prefix goes to the new parent.
ParentPrefixWhole == SubSeq(N.prefix, 1, loc.node_v_pos)

\* The matched part of the prefix of loc.node goes to the new parent.
ParentPrefix ==
  SubSeq(N.prefix, 1, loc.node_p_pos) \o SubSeq(N.prefix, N.sep + 1, loc.node_v_pos)

\* Defect: the discriminative byte stays in the prefix.
ShortenedKeepsByte(d) ==
  LET p == SubSeq(N.prefix, loc.node_p_pos + 1, N.sep)
  IN  [N EXCEPT !.prefix = p \o From(N.prefix, loc.node_v_pos), !.sep = Len(p)]

\* Defect: the separator is not moved.
ShortenedKeepsSep(d) ==
  [N EXCEPT !.prefix = SubSeq(@, loc.node_p_pos + PathStep(d) + 1, N.sep)
                         \o From(@, loc.node_v_pos + ValueStep(d))]

\* loc.node keeps what follows the matched part and, in the dimension d of the
\* split, the discriminative byte.
Shortened(d) ==
  LET p == loc.node_p_pos + PathStep(d)
      v == loc.node_v_pos + ValueStep(d)
  IN  [N EXCEPT !.prefix = SubSeq(N.prefix, p + 1, N.sep) \o From(N.prefix, v),
                !.sep = Len(SubSeq(N.prefix, p + 1, N.sep))]

\* Defect: the discriminative byte stays in the leaf.
SiblingKeepsByte(d) ==
  NewLeaf(bkey, loc.bkey_p_pos, loc.bkey_v_pos, bkey.ref)

\* The new leaf, one byte behind the matched part of the key in dimension d.
NewSibling(d) ==
  NewLeaf(bkey, loc.bkey_p_pos + PathStep(d), loc.bkey_v_pos + ValueStep(d), bkey.ref)

NodeByte(d) == IF d = "Path" THEN N.prefix[loc.node_p_pos + 1]
                             ELSE N.prefix[loc.node_v_pos + 1]
SiblingByte(d) == ByteAt(bkey, d, loc.bkey_p_pos, loc.bkey_v_pos)

Restructure ==
  /\ InsideKey(DetermineDimension)
  /\ LET d == DetermineDimension IN
     \E q \in Malloc(DOMAIN heap) : \E s \in Malloc(DOMAIN heap \cup {q}) :
       Relink([m \in DOMAIN heap \cup {q, s} |->
                 CASE m = q -> Put(Put(NewNode4(d, ParentPrefix, loc.node_p_pos),
                                       NodeByte(d), loc.node), SiblingByte(d), s)
                   [] m = s -> NewSibling(d)
                   [] m = loc.node -> Shortened(d)
                   [] OTHER -> heap[m]], q)
  /\ Success

\* AddNewLeaf: a full node grows first; its wider copy takes its place and the
\* node is deleted.
AddNewLeaf ==
  /\ Descending /\ InsideKey(N.dim) /\ LocateChild = nullptr
  /\ \E s \in Malloc(DOMAIN heap) :
     LET leaf == NewSibling(N.dim) IN
     IF IsFull(N)
     THEN \E g \in Malloc(DOMAIN heap \cup {s}) :
            Relink([m \in (DOMAIN heap \cup {s, g}) \ {loc.node} |->
                      CASE m = s -> leaf
                        [] m = g -> Put(Grow(N), NextByte, s)
                        [] OTHER -> heap[m]], g)
     ELSE /\ heap' = [m \in DOMAIN heap \cup {s} |->
                        CASE m = s -> leaf
                          [] m = loc.node -> Put(N, NextByte, s)
                          [] OTHER -> heap[m]]
          /\ root' = root
  /\ Success

\* The key ends at an inner node: AddRefToExistingLeaf returns false.
Reject ==
  /\ N.dim # "Leaf"
  /\ pc' = "idle" /\ bkey' = NoKey /\ loc' = NoLoc
  /\ UNCHANGED <<root, heap, nr_keys, content>>

\* The key goes on behind a leaf: the Locator's assertion ends the program.
\* Both documented builds keep assertions (CMakeLists.txt), so the last return
\* of Execute is never reached.
Abort ==
  /\ N.dim = "Leaf"
  /\ pc' = "aborted" /\ bkey' = NoKey /\ loc' = NoLoc
  /\ UNCHANGED <<root, heap, nr_keys, content>>

\* The key is used up in dimension d, not in the other one, and the byte behind
\* the end is read: undefined behaviour, where the model stops.
ReadBehindKey(d) ==
  /\ ~InsideKey(d)
  /\ pc' = "undefined" /\ bkey' = NoKey /\ loc' = NoLoc
  /\ UNCHANGED <<root, heap, nr_keys, content>>

\* One iteration of the loop of Locate, as far as it stays in the loop.
Locate == /\ pc = "locate" /\ ~KeyFullyMatched /\ ~HasMismatch
          /\ Descend \/ Abort \/ (N.dim # "Leaf" /\ ReadBehindKey(N.dim))

\* The key and the prefix of loc.node part.
AtMismatch == /\ pc = "locate" /\ ~KeyFullyMatched /\ HasMismatch
              /\ Restructure \/ ReadBehindKey(DetermineDimension)

AddRefToExistingLeaf == pc = "locate" /\ KeyFullyMatched /\ (AddRef \/ Reject)

LocateSteps ==
  Locate \/ AddRefToExistingLeaf \/ AtMismatch \/ AddNewLeaf

Next ==
  \/ \E k \in Key, r \in Ref : InsertFirst(k, r) \/ Begin(k, r)
  \/ LocateSteps

Spec == Init /\ [][Next]_vars

\* The program is sequential: an insertion that has begun takes its next step.
FairSpec == Spec /\ WF_vars(LocateSteps)

-----------------------------------------------------------------------------
\* Type invariant.
Location ==
  [node : DOMAIN heap, parent : DOMAIN heap \cup {nullptr}, parent_byte : Byte,
   bkey_p_pos : Nat, bkey_v_pos : Nat, node_p_pos : Nat, node_v_pos : Nat]

TypeOK ==
  /\ DOMAIN heap \subseteq Node
  /\ \A n \in DOMAIN heap : heap[n] \in NodeRecord
  /\ root \in DOMAIN heap \cup {nullptr}
  /\ nr_keys \in Nat
  /\ content \in [Key -> Seq(Ref)]
  /\ \/ pc \in {"idle", "aborted", "undefined"} /\ bkey = NoKey /\ loc = NoLoc
     \/ /\ pc = "locate" /\ root # nullptr
        /\ bkey \in [path : Paths, value : Values, ref : Ref]
        /\ loc \in Location

BKey == [path |-> bkey.path, value |-> bkey.value]

\* Every read the Locator and Restructure make of the key and of a prefix is
\* inside the vector, the loop never stands at a leaf (locator.cpp:34 asserts
\* it), and the two children of a split get different bytes, which Node4::Put
\* does not check (node4.cpp:16).
ReadsInRange ==
  pc = "locate" =>
    /\ Descending => InsideKey(N.dim)
    /\ ~KeyFullyMatched /\ ~HasMismatch => N.dim # "Leaf"
    /\ ~KeyFullyMatched /\ HasMismatch =>
         LET d == DetermineDimension IN
         /\ IF d = "Path" THEN PathMismatch ELSE ValueMismatch
         /\ InsideKey(d)
         /\ NodeByte(d) # SiblingByte(d)

\* The lookup by the Locator is exact.  For a key that is in the index no step
\* of the descent meets a mismatch or a missing child, and it ends at the leaf
\* with all its references; a fully matched key is always in the index, so no
\* reference is ever added to the leaf of another key and no insertion of
\* prefix-free keys is rejected.
LookupExact ==
  pc = "locate" =>
    /\ content[BKey] # <<>> => /\ ~HasMismatch
                               /\ Descending => LocateChild # nullptr
    /\ KeyFullyMatched => /\ N.dim = "Leaf"
                          /\ N.refs = content[BKey]
                          /\ N.refs # <<>>

\* The nodes form one tree: every allocated node but the root is the child of
\* exactly one node under exactly one byte, nothing points to the root or to
\* freed memory, so nothing is leaked and the destructor frees everything once.
LinksTo(n) ==
  {l \in (DOMAIN heap) \X Byte : heap[l[1]].children[l[2]] = n}

OneTree ==
  /\ root # nullptr => LinksTo(root) = {}
  /\ \A m \in DOMAIN heap, b \in Byte :
       heap[m].children[b] \in DOMAIN heap \cup {nullptr}
  /\ \A n \in DOMAIN heap \ {root} : \E l \in LinksTo(n) : LinksTo(n) = {l}

\* No level is wasted: an inner node distinguishes at least two subtrees, and
\* it has just grown or its layout is the narrowest its children fit into.
FanOut ==
  \A n \in DOMAIN heap : heap[n].dim # "Leaf" =>
    /\ NrChildren(heap[n]) \in 2..Widths[heap[n].layout]
    /\ heap[n].layout > 1 => NrChildren(heap[n]) > Widths[heap[n].layout - 1]

\* An insertion that has begun ends.
ExecuteTerminates == pc = "locate" ~> pc # "locate"
=============================================================================
