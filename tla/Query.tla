------------------------------- MODULE Query -------------------------------
(***************************************************************************)
(* Queries (query.cpp) over the trie that Insertion builds, as Cas::Query  *)
(* runs them between two insertions.  A query asks for the keys whose path *)
(* matches a pattern and whose value lies in a range.  It walks the trie    *)
(* with a stack of States.  All branches share two buffers: a State only    *)
(* records how many of their bytes are its own.  One iteration of the loop *)
(* of Execute is Pop (PrepareBuffer), the steps of the PathMatcher, and one *)
(* of the actions that decide what becomes of the State.                    *)
(***************************************************************************)
EXTENDS Insertion, PathPattern

CONSTANTS Patterns,   \* encoded patterns that are asked for
          Bounds,     \* encoded values that are asked for
          ValueSize,  \* sizeof of the integer type, 0 for strings
          BufferSize  \* length of the buffers

\* The buffers have room for every key, a path has its only null byte at its
\* end, and the axes of a pattern are no bytes of a path.
ASSUME QueryAssumption ==
  /\ ValueSize \in Nat /\ BufferSize \in Nat /\ PathByte \subseteq Byte
  /\ \A p \in Paths : /\ p \in Seq(PathByte) /\ Len(p) \in 2..BufferSize
                      /\ \A i \in 1..Len(p) : p[i] = kNullByte <=> i = Len(p)
  /\ \A v \in Values : Len(v) <= BufferSize
  /\ Patterns \subseteq Seq(Letter \cup {kPathSep, Wildcard, Descendant})
  /\ Bounds \subseteq Seq(Byte)

\* What the caller of a query has to see to.  A "?" follows an axis, the bounds
\* are encoded like the values, and the values are those IsCompleteValue knows:
\* of one size, or with their only null byte at the end and another byte before.
Searchable ==
  /\ \A p \in Patterns : BehindAxis(p)
  /\ PrefixFreeSet(Values \cup Bounds)
  /\ \A v \in Values :
       IF ValueSize > 0 THEN Len(v) = ValueSize
       ELSE Len(v) > 1 /\ \A i \in 1..Len(v) : v[i] = kNullByte <=> i = Len(v)

\* No pattern ends where two paths part, unless with a "?", which has read the
\* byte behind it, or after a "^", with which all children are searched.
PatternsGoOn ==
  \A p \in Patterns, a, b \in Paths : \A n \in 0..BufferSize :
    /\ n < Len(a) /\ n < Len(b) /\ a[n + 1] # b[n + 1]
    /\ \A i \in 1..n : a[i] = b[i]
    /\ n \in Cuts(a, p)[Len(p)]
    => \/ \E i \in 1..Len(p) : p[i] = Descendant
       \/ Len(p) > 0 /\ p[Len(p)] = Wildcard

SearchKey == [path : Patterns, low : Bounds, high : Bounds]

VARIABLES qpc,      \* "idle", "pop", "match", "aborted"
          key,      \* Query::key_
          stack,    \* Query::stack_
          s,        \* the State popped from it
          pm_state, \* its member pm_state_, and
          match_pat,\* the result, of the call of the PathMatcher
          buf_pat, buf_val,
          emitted   \* history: the calls of the emitter, decoded

qvars == <<qpc, key, stack, s, pm_state, match_pat, buf_pat, buf_val, emitted>>

matcher == INSTANCE PathMatcher WITH
  path <- buf_pat, pattern <- key.path, len_path <- s.len_pat,
  s <- pm_state, match <- match_pat, FullPaths <- Paths

NoSearchKey == [path |-> <<>>, low |-> <<>>, high |-> <<>>]
Zeros == [i \in 1..BufferSize |-> 0]

\* A State on the stack; the matcher's state is one of its members.
QState(n, d, b, lp, lv, pm, vl, vh) ==
  [node |-> n, parent_dimension |-> d, parent_byte |-> b, len_pat |-> lp,
   len_val |-> lv, pm_state |-> pm, vl_pos |-> vl, vh_pos |-> vh]

NoState == QState(nullptr, "Path", 0, 0, 0, matcher!InitialState, 0, 0)

QueryInit ==
  /\ Init
  /\ qpc = "idle" /\ key = NoSearchKey /\ stack = <<>> /\ s = NoState
  /\ pm_state = matcher!InitialState /\ match_pat = "calling"
  /\ buf_pat = Zeros /\ buf_val = Zeros
  /\ emitted = [k \in Key |-> <<>>]

-----------------------------------------------------------------------------
\* The constructor and the start of Execute.
Start(k) ==
  /\ qpc = "idle" /\ pc = "idle" /\ root # nullptr
  /\ key' = k
  /\ stack' = <<QState(root, "Path", 0, 0, 0, matcher!InitialState, 0, 0)>>
  /\ qpc' = "pop"
  /\ UNCHANGED <<s, pm_state, match_pat, buf_pat, buf_val, emitted>>

\* Bytes src written to buffer b from position pos on.
Write(b, pos, src) ==
  [i \in DOMAIN b |-> IF i - pos \in DOMAIN src THEN src[i - pos] ELSE b[i]]

\* Defect: the value bytes of the prefix are taken for path bytes.
PathPartWhole(t) ==
  (IF t.node # root /\ t.parent_dimension = "Path" THEN <<t.parent_byte>> ELSE <<>>)
    \o heap[t.node].prefix

\* What PrepareBuffer puts into the buffers: the byte that led to the node,
\* and the node's prefix.
PathPart(t) ==
  (IF t.node # root /\ t.parent_dimension = "Path" THEN <<t.parent_byte>> ELSE <<>>)
    \o SubSeq(heap[t.node].prefix, 1, heap[t.node].sep)

ValuePart(t) ==
  (IF t.node # root /\ t.parent_dimension = "Value" THEN <<t.parent_byte>> ELSE <<>>)
    \o From(heap[t.node].prefix, heap[t.node].sep)

\* Defect: the oldest State is taken instead of the newest.
TopOldest == 1
Top == Len(stack)
Rest == [i \in 1..(Len(stack) - 1) |-> IF i < Top THEN stack[i] ELSE stack[i + 1]]

\* The next State leaves the stack; the call of the PathMatcher begins.
Pop ==
  /\ qpc = "pop" /\ stack # <<>>
  /\ LET t == stack[Top] IN
     /\ s' = [t EXCEPT !.len_pat = @ + Len(PathPart(t)),
                       !.len_val = @ + Len(ValuePart(t))]
     /\ buf_pat' = Write(buf_pat, t.len_pat, PathPart(t))
     /\ buf_val' = Write(buf_val, t.len_val, ValuePart(t))
     /\ pm_state' = t.pm_state
  /\ stack' = Rest
  /\ match_pat' = "calling" /\ qpc' = "match"
  /\ UNCHANGED <<key, emitted>>

MatchPathPrefix ==
  /\ qpc = "match"
  /\ matcher!Steps
  /\ UNCHANGED <<qpc, key, stack, s, buf_pat, buf_val, emitted>>

-----------------------------------------------------------------------------
(* MatchValuePrefix                                                         *)

\* How far the value agrees with a bound, of which pos bytes did before.
Advance(bound, pos) ==
  pos + MatchLength(bound, pos, buf_val, pos, s.len_val)
vl_pos == Advance(key.low, s.vl_pos)
vh_pos == Advance(key.high, s.vh_pos)

BelowLow ==
  vl_pos < Len(key.low) /\ vl_pos < s.len_val /\ buf_val[vl_pos + 1] < key.low[vl_pos + 1]

\* Defect: the value equal to the upper bound is cut off.
AboveHighOrEqual ==
  \/ vh_pos = Len(key.high)
  \/ vh_pos < s.len_val /\ buf_val[vh_pos + 1] > key.high[vh_pos + 1]
AboveHigh ==
  vh_pos < Len(key.high) /\ vh_pos < s.len_val /\ buf_val[vh_pos + 1] > key.high[vh_pos + 1]

\* Defect: integers are taken for strings.
IsNullTerminated == s.len_val > 1 /\ buf_val[s.len_val] = kNullByte

\* IsCompleteValue: integers have their size, strings end with a null byte,
\* which alone is no value.
IsCompleteValue ==
  IF ValueSize > 0 THEN s.len_val = ValueSize
  ELSE s.len_val > 1 /\ buf_val[s.len_val] = kNullByte

match_val ==
  IF BelowLow \/ AboveHigh THEN "MISMATCH"
  ELSE IF IsCompleteValue THEN "MATCH" ELSE "INCOMPLETE"

-----------------------------------------------------------------------------
Decided == qpc = "match" /\ match_pat # "calling"

BothMatch == match_pat = "MATCH" /\ match_val = "MATCH"
Mismatch  == match_pat = "MISMATCH" \/ match_val = "MISMATCH"
IsLeaf    == heap[s.node].dim = "Leaf"

\* KeyDecoder: a path and a string reach to the first null byte of the whole
\* buffer, an integer has its size.
UpToNull(b) == SubSeq(b, 1, Least({i \in DOMAIN b : b[i] = kNullByte}))
DecodedKey ==
  [path |-> UpToNull(buf_pat),
   value |-> IF ValueSize > 0 THEN SubSeq(buf_val, 1, ValueSize) ELSE UpToNull(buf_val)]

\* EmitMatch: all references of the leaf.
EmitMatch ==
  /\ Decided /\ BothMatch /\ IsLeaf
  /\ emitted' = [emitted EXCEPT ![DecodedKey] = @ \o heap[s.node].refs]
  /\ qpc' = "pop"
  /\ UNCHANGED <<key, stack, s, pm_state, match_pat, buf_pat, buf_val>>

\* Defect: the loop does not go on.
PruneStays == Decided /\ Mismatch /\ UNCHANGED qvars

Prune ==
  /\ Decided /\ Mismatch
  /\ qpc' = "pop"
  /\ UNCHANGED <<key, stack, s, pm_state, match_pat, buf_pat, buf_val, emitted>>

\* The children of the node under the bytes in S, in the order in which
\* ForEachChild visits them: from the highest byte to the lowest.
HighToLow(S) ==
  CHOOSE f \in [1..Cardinality(S) -> S] : \A i, j \in DOMAIN f : i < j => f[i] > f[j]

Child(b) == heap[s.node].children[b]

Push(S) ==
  LET bytes == HighToLow({b \in S : Child(b) # nullptr}) IN
  /\ stack' = stack \o [i \in DOMAIN bytes |->
       QState(Child(bytes[i]), heap[s.node].dim, bytes[i], s.len_pat, s.len_val,
              pm_state, vl_pos, vh_pos)]
  /\ qpc' = "pop"
  /\ UNCHANGED <<key, s, pm_state, match_pat, buf_pat, buf_val, emitted>>

\* The byte key_.path_[qpos_].  Behind the end of the pattern the code reads
\* foreign memory: any byte.
PatternBytes ==
  IF pm_state.qpos_ < Len(key.path) THEN {key.path[pm_state.qpos_ + 1]} ELSE Byte

Axes == {Wildcard, Descendant}

DescendPathNode ==
  /\ Decided /\ ~BothMatch /\ ~Mismatch /\ heap[s.node].dim = "Path"
  /\ \E b \in PatternBytes :
       IF pm_state.desc_qpos_ # matcher!NoDescendant \/ b \in Axes
       THEN Push(Byte) ELSE Push({b})

\* Children can be restricted to a bound only if all bytes before agree with it.
ScanLow  == IF vl_pos = s.len_val THEN key.low[vl_pos + 1] ELSE 0
ScanHigh == IF vh_pos = s.len_val THEN key.high[vh_pos + 1] ELSE MaxByte

DescendValueNode ==
  /\ Decided /\ ~BothMatch /\ ~Mismatch /\ heap[s.node].dim = "Value"
  /\ Push(ScanLow..ScanHigh)

\* The assertions of Execute: a match is a leaf, and only inner nodes are left
\* open (lines 53 and 57).
QueryAbort ==
  /\ Decided /\ ~Mismatch /\ BothMatch # IsLeaf
  /\ qpc' = "aborted"
  /\ UNCHANGED <<key, stack, s, pm_state, match_pat, buf_pat, buf_val, emitted>>

\* The stack is empty; the Query object goes out of scope.
Finish ==
  /\ qpc = "pop" /\ stack = <<>>
  /\ qpc' = "idle" /\ key' = NoSearchKey /\ stack' = <<>> /\ s' = NoState
  /\ pm_state' = matcher!InitialState /\ match_pat' = "calling"
  /\ buf_pat' = Zeros /\ buf_val' = Zeros
  /\ emitted' = [k \in Key |-> <<>>]

QuerySteps ==
  \/ Pop \/ MatchPathPrefix \/ EmitMatch \/ Prune
  \/ DescendPathNode \/ DescendValueNode \/ QueryAbort \/ Finish

QueryNext ==
  \/ /\ qpc = "idle" /\ Next /\ UNCHANGED qvars
  \/ /\ (QuerySteps \/ \E k \in SearchKey : Start(k))
     /\ UNCHANGED vars

QuerySpec == QueryInit /\ [][QueryNext]_<<vars, qvars>>

\* The program is sequential: a query that has begun runs on.
QueryFairSpec == QuerySpec /\ WF_<<vars, qvars>>(QuerySteps /\ UNCHANGED vars)

-----------------------------------------------------------------------------
Position == 0..BufferSize

PMState == [ppos_ : Position, qpos_ : 0..Len(key.path), desc_ppos_ : Position,
            desc_qpos_ : matcher!NoDescendant..(Len(key.path) - 1)]

StateOK(t) ==
  /\ t.node \in DOMAIN heap /\ t.parent_dimension \in Dimension /\ t.parent_byte \in Byte
  /\ t.len_pat \in Position /\ t.len_val \in Position
  /\ t.pm_state \in PMState
  /\ t.vl_pos \in 0..t.len_val /\ t.vh_pos \in 0..t.len_val

\* Type invariant: the buffers have room for every way through the trie, no
\* State refers to more of them than has been written, and none to a freed node.
QueryTypeOK ==
  /\ qpc \in {"idle", "pop", "match", "aborted"}
  /\ key \in SearchKey \cup {NoSearchKey}
  /\ \A i \in DOMAIN stack : StateOK(stack[i])
  /\ s = NoState \/ StateOK(s)
  /\ pm_state \in PMState
  /\ buf_pat \in [1..BufferSize -> Byte] /\ buf_val \in [1..BufferSize -> Byte]
  /\ emitted \in [Key -> Seq(Ref)]

\* Byte strings in lexicographic order.
LessOrEqual(a, b) ==
  \/ Len(a) <= Len(b) /\ SubSeq(b, 1, Len(a)) = a
  \/ \E i \in 1..Len(a) : /\ i <= Len(b) /\ a[i] < b[i]
                          /\ SubSeq(a, 1, i - 1) = SubSeq(b, 1, i - 1)

Qualifies(k) ==
  /\ Matches(k.path, key.path)
  /\ LessOrEqual(key.low, k.value) /\ LessOrEqual(k.value, key.high)

\* A query emits what it should: at its end every reference of every
\* qualifying key, under that key, once and in the order of insertion, and
\* nothing else.
QueryExact ==
  qpc = "pop" /\ stack = <<>> =>
    emitted = [k \in Key |-> IF Qualifies(k) THEN content[k] ELSE <<>>]

\* The bytes of the shared buffers that a State calls its own spell out the way
\* to its node: a part of every key stored below it.  Branches evaluated before
\* have not left anything there (query.cpp:103).
BufferHoldsWay ==
  \A i \in DOMAIN stack :
    LET t == stack[i] IN
    t.node # root =>
      \E k \in Key : /\ content[k] # <<>>
                     /\ t.len_pat <= Len(k.path) /\ t.len_val <= Len(k.value)
                     /\ SubSeq(buf_pat, 1, t.len_pat) = SubSeq(k.path, 1, t.len_pat)
                     /\ SubSeq(buf_val, 1, t.len_val) = SubSeq(k.value, 1, t.len_val)
                     /\ HasByte(k, t.parent_dimension, t.len_pat, t.len_val)
                     /\ ByteAt(k, t.parent_dimension, t.len_pat, t.len_val) = t.parent_byte

\* No assertion fails: a State is decided exactly at the leaves.
DecidedAtLeaves == qpc # "aborted"

\* "We are looking for exactly one child" (query.cpp:207): the pattern says
\* which, so it goes on behind what the matcher has consumed.
ChildByteInPattern ==
  /\ Decided /\ ~BothMatch /\ ~Mismatch /\ heap[s.node].dim = "Path"
  /\ pm_state.desc_qpos_ = matcher!NoDescendant
  => pm_state.qpos_ < Len(key.path)

\* Every query ends.
QueryEnds == qpc # "idle" ~> qpc \in {"idle", "aborted"}
=============================================================================
