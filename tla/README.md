# Verification of the RCAS index

TLA+ specifications of the Robust Content-and-Structure index (RCAS), the TLC
configurations that model-check them and theorems about them that TLAPS proves.
Paths of source files are relative to the repository; `src/cas`, `include/cas`
and so on are its directories.

## 1. The system

RCAS indexes (path, value, reference) triples. A triple is encoded as a
two-dimensional binary key, a byte string per dimension, and stored in a trie
whose nodes branch on a path byte or on a value byte. The program is sequential:
one caller, no threads, no files written, no messages. What is hard about it are
long sequences of legal calls on a pointer structure that every insertion cuts
up and relinks, positions into byte strings that are kept from one step to the
next, reads at computed positions without a bound check, and capacities.

| Component | State | Operations | Must be correct about |
|---|---|---|---|
| Adaptive nodes `node4/16/48/256` | byte and child arrays, `nr_children_` | `Put`, `LocateChild`, `Grow`, `ReplaceBytePointer`, `ForEachChild`, `IsFull` | one map from bytes to children, whatever the layout; never without room; range scans complete |
| Node header and leaf `node`, `node0` | dimension, prefix, separator, references | construction, `DeleteRef`, `CollectStats` | the leaf spells out the rest of its key |
| `Locator`, `PrefixMatcher`, `Insertion` | node, parent, parent byte, four positions | `Locate`, `Match`, `Execute`, `Restructure`, `AddNewLeaf`, `AddRefToExistingLeaf` | finds stored keys, splits in a mismatching dimension, loses and mixes up nothing, one tree |
| `PathMatcher` | four positions, kept between calls | `MatchPathIncremental` | decides `?` and `^` patterns whatever the chunks the path arrives in |
| `Query` | a stack of states, two shared buffers | `Execute` | emits exactly the matching references |
| `BulkLoad` | partitions of the keys | `Construct` | the trie that insertion promises |
| `Interleaver`, `InsertionStatic` | interleaved key | four interleavings, `Execute` | as `Insertion`, for the static index types |
| `KeyEncoder`, `KeyDecoder` | none | encode, decode | prefix-free, order-preserving, invertible |
| `Surrogate`, `SurrogatePathMatcher` | label counter and maps | `MapLabel`, `MapPath`, matching | distinct labels, fixed length |
| `Cas`, `SurrogateCas` | root, number of keys | `Insert`, `BulkLoad`, `Query` | the index as the user sees it |
| `CasXml` | data guide, B+ tree of values, highest pcr | `BulkLoad`, `Insert`, `Delete`, `Query` | an entry is found under the path it was inserted under; calls return |
| `CsvImporter` | highest reference | `Load`, `BulkLoad` | default references, partial loads |

Calls go down this list from right to left: `CsvImporter` and `CasXml` call
`Cas`; `Cas` encodes the key and runs `Insertion`, `InsertionStatic`, `BulkLoad`
or `Query` on its root; these use the nodes through the virtual interface of
`Node`; `Query` is called back by `ForEachChild` and calls back the caller's
emitter.

`PROJECT.json` lists the components with their status, and under `hazards` the
places where the code can go wrong in a way a unit test would hardly reach.

## 2. The modules

    Loops ─┬─ AdaptiveNode ── AdaptiveNodeProofs
           │       └ implements ChildMap
           ├─ Trie ── Insertion ─┬─ InsertionInv ─┬─ MCInsertion
           │                     │  └ implements IndexSpec
           │                     │                ├─ InsertionProofs
           │                     │                ├─ BulkLoad ─┬─ BulkLoadInv ─┬─ MCBulkLoad
           │                     │                │            │               └─ BulkLoadProofs
           │                     │                │            └─ SurrogateCas ── MCSurrogateCas
           │                     │                └─ InsertionStatic ─┬─ MCInsertionStatic
           │                     │                                    └─ BulkLoadProofs
           │                     └─ Query ── IntegerQuery ─┬─ MCQuery
           │                          │                    └─ QueryProofs
           │              INSTANCE    │
           ├─ PathMatcher ────────────┘
           │      ├─ MCPathMatcher
           │      └─ PathMatcherProofs
           ├─ LoopsProofs
           └─ KeyEncoding ─┐
                           ├─ FrontEndProofs
    CasXml ── CsvImporter ─┴─ MCImport

    PathPattern ─┬─ PathMatcher, Query
                 └─ PathPatternProofs ── PathMatcherProofs, QueryProofs
    Interleaver ── InsertionStatic
    Surrogate ── SurrogatePathMatcher ── SurrogateCas

`QueryProofs` and `BulkLoadProofs` also extend `InsertionProofs`, `IntegerQuery`
instantiates `KeyEncoding` and `FrontEndProofs` `Surrogate`. `LoopsProofs` is
below all modules with proofs.

**Loops** has the search loops ("advance while ...") as least elements of sets,
the tail of a byte string, and `MatchLength`, the loop of `MatchPath` and
`MatchValue`.

**ChildMap** is the abstract inner node: a map from bytes to children.
**AdaptiveNode** is one concrete inner node with its arrays; `Add` is the part of
`Insertion::AddNewLeaf` that concerns the extended node (grow if full, then
`Put`), `Replace` is `ReplaceBytePointer`, `ForEachChild` is the list of the
callbacks a scan makes. `ImplementsChildMap` is the refinement.

**Trie** has the keys and the records of the nodes. The heap maps addresses to
records. The children of a node are the map that `ChildMap` promises, which
`AdaptiveNode` shows all four layouts to deliver; the position of the layout in
the list of widths stays, because `IsFull` and `Grow` depend on it.

**Insertion** is `Cas::Insert` for the dynamic index: `Begin` starts the Locator
at the root, every iteration of its loop is a `Locate` (`loc` holds the members
of `Locator` and `PrefixMatcher`), and one of `AddRefToExistingLeaf`, `AtMismatch`
(`Restructure`) and `AddNewLeaf` finishes `Execute`; `InsertFirst` is the insertion into
an empty index. `Abort`, one outcome of `Locate`, is the Locator's assertion
(`locator.cpp:34`): both documented builds keep assertions, so a failing one ends
the program. `ReadBehindKey` is the case in which the Locator (`locator.cpp:24`) or
`Restructure` (`insertion.cpp:95`) reads a byte behind the end of the key: undefined
behaviour, at which the model stops. Both, and `Reject`, the negative answer of
`AddRefToExistingLeaf`, need keys that are prefixes of others; of the passing runs only
`surrogate_cas` inserts such keys. A grown node is allocated at a new address, its
parent is relinked and the old node leaves the heap, as in the code. `content` is a
history variable: the references that were inserted under each key.

**IndexSpec** is the abstract index: an insertion appends a reference to its key
and touches no other key. `InsertionInv` reads the trie back by walks from the root
(`Walk`, `Stored`) and states that what they find refines it (`ImplementsIndex`).

**PathPattern** has the special bytes and what a pattern means, stated without the
matcher: a path matches if it can be cut into segments, one for each byte of the
pattern, such that every byte `StandsFor` its segment (`Matches`).

**PathMatcher** is `MatchPathIncremental`, one action per iteration of its loop.
The caller shows the path piecewise: it raises `len_path` and calls again when
the answer was `INCOMPLETE` (`CallAgain`), and the positions `s` are what the
matcher keeps between the calls.

**Query** extends `Insertion`: queries run between insertions, over the very trie
these leave behind. `Pop` takes a `State` from the stack and writes its bytes to
the shared buffers (`PrepareBuffer`), the actions of `PathMatcher` run on the
buffer through an `INSTANCE`, and then the state is emitted, pruned or replaced
by states for its children (`EmitMatch`, `Prune`, `DescendPathNode`,
`DescendValueNode`). The matcher's positions are a variable of their own
(`pm_state`) while the state is being worked on. The buffers are never cleared
between branches, as in the code. A read of the pattern behind its end yields any
byte; `QueryAbort` is a failing assertion of `Execute`. `emitted` is a history
variable: the references handed to the emitter, under the key that `KeyDecoder`
would read from the buffers at that moment. `QueryAssumption` says what the encoder
delivers and that the buffers hold every key. `Searchable` and `PatternsGoOn` are what
a caller has to see to for the theorems: every `?` follows an axis, the bounds are
encoded like the values, none of which is the empty string, and no pattern ends where
two paths part. TLC evaluates both on the instances (`MCQuery`).
**IntegerQuery** is the same system for an index of integers: `IntegersAsked` says that
values and bounds are encoded integers of one width, `IntegerQueryExact` what a query
for a range of them emits.

**InsertionInv** has the inductive invariant `Represents`, **BulkLoadInv** the one of
a trie that is being bulk-loaded, `QueryProofs` the one of a query; see section 4.
The first two also state what a walk along the references of the trie reads
(`LabelsExist`, `LoadedRepresents`) and what `NrKeys` counts (`CountExact`). A walk is a
recursive function, so these properties are both checked and proved.

**BulkLoad** is `Cas` for the dynamic index with both ways to fill it. Every call
of the recursive `Construct` is a step that takes one partition of the keys from
`todo`, makes its node, links it and leaves the calls for the partitions below:
the source links a child when the call for it returns, but nothing looks at the
trie in between, and the calls share nothing, so the order is left open.
`StartLoad` overwrites `root_` and `nr_keys_` as the code does; the nodes of the
old trie are no longer in the heap but counted in `leaked`. `DiscriminativeByte` and
`Partition` index every string without a look at its length; where that leads behind
the end of one (`ReadsBehind`) the model stops as well (`ReadBehindString`).

**Interleaver** has the four interleavings as sequences of bytes that know their
dimension. **InsertionStatic** is `Cas::Insert` and `Cas::BulkLoad` for the static
index types: `MatchPrefix` and the leaf of an interleaved key are its own, the
way a prefix is cut is that of `Insertion`. A read behind the key, and a cut where
the dimension of the next byte does not mismatch, are undefined behaviour; the
model stops there (`Undefined`). `used` is a history variable.

**Surrogate** is the map from labels to numbers, with the cut of a number to
`BytesPerLabel` bytes, the padding of short paths and the missing cut of deep
ones. **SurrogatePathMatcher** is its matcher as a recursive operator: the module
is only used by runs. **SurrogateCas** is the facade over `BulkLoad`: encoding a
key or a pattern is a sequence of steps, one per label, because each may extend
the map; then the call goes down to the index. A query only changes the map; what
its matcher would answer is a property. `inserted` is a history variable: the
references inserted under the paths themselves.

**KeyEncoding** has the bytes of paths, patterns, strings and integers and the way
back. `MCQuery` makes its keys, patterns and bounds with it.

**CasXml** is the B+ tree of values and the data guide. The data guide is a `Cas`
of its own; here it is a map from paths to pcrs, asked with the path as a pattern,
and it may miss a path that ends at a branch, as `Query` does
(`query_branch_pattern`). **CsvImporter** fills it line by line; `Throw` is a value
or a reference that does not parse. `CasXml::BulkLoad` is the loop
`InsertNext`. `tlx::btree_multimap` is external: an entry goes somewhere among
those with the same value, `find` returns the first of them.

## 3. The runs

| Run | What it shows | Instance |
|---|---|---|
| `adaptive_node` | each layout is a well-formed map, counts its children, has room, and a range scan delivers exactly the children in the range in descending order | 6 bytes, widths 2, 3, 5, 6, two children |
| `insertion` | no read out of range, exact lookup, one tree, no wasted level, the count of keys, the inductive invariant, the refinement of `IndexSpec`, and termination | 12 keys, 4 insertions, widths 2 and 3 |
| `prefix_rejected` | expects a violation: the comment in `insertion.cpp:48` | 5 keys, some of them prefixes of others |
| `path_matcher` | every verdict is the meaning of the pattern, however the path is cut into calls; a complete path is decided; the one byte the query descends into is the only possible one; calls return | all paths and well-formed patterns of up to 4 bytes, two letters |
| `query` | a query for a range of integers emits exactly the references of the keys whose integers lie in it, the buffers hold the way to each state, assertions hold, queries end | 9 keys, integers of both signs, 3 insertions, 6 patterns, 2 bounds |
| `query_strings` | the references are exact for string values, of which one begins another | 9 string keys, 3 insertions, 3 patterns, 3 bounds |
| `bulk_load` | while a load runs every key is in one pending call or in its leaf, the labelling of section 4 exists, with the pending calls in place of the missing branches, and every node has the layout for its children; afterwards the count is right; loads end | 8 keys, deques of up to 3, one load and 3 keys at most |
| `static` | which ways to fill a static index keep the dimensions apart; as long as they do, no undefined behaviour, and the trie is labelled as a dynamic one; insertions end | 4 types, 9 keys, 3 insertions, each as by `Insert` or by `BulkLoad` |
| `surrogate_cas` | until the codes run out every path is found under its code with its references and decoded to itself; the matcher decides patterns over labels; with shared codes and deep paths there is one tree and its count is right as long as the program is defined, and a failed assertion or a read behind a key needs a deep path whose code goes on behind that of another stored one | 4 labels, codes of 2 bits, depth 2, 5 paths, 2 values, 4 deques, 10 patterns |
| `import` | after an import the index holds what it held and the lines that arrived, with the references the file implies; entries are found under their paths; which deletions return | 4 files, two imports in any order, deletions between and after |
| `query_empty_string` | expects a violation: the assertion in `query.cpp:57` | one insertion, two values |
| `query_branch_pattern` | expects a violation: the comment in `query.cpp:207` | the pattern `/1`, two insertions |

**Bounds.** The widths 2, 3, 5 and 6 of `adaptive_node` stand for 4, 16, 48 and
256: every layout is filled and left, the first and the last entry are distinct
from those in the middle, and the last layout has one slot per byte. In
`insertion`, four insertions suffice to split in either dimension at the root and
below it, to split where both dimensions mismatch, to fill a node and grow it at
the root and below it, and to insert a key twice; the paths share a first byte
and the values share a first or differ in it, so that a prefix can hold bytes of
both dimensions. Three insertions leave out the grown node below the root.
Addresses are enough for every node these insertions allocate. `new` returns the
lowest free address: the code never compares addresses, and a freed address is
used again, so a dangling pointer would be seen. The theorems leave the choice
open.

`path_matcher` takes every path of at most 4 bytes behind the first separator and
every well-formed pattern of at most 4 bytes; of two patterns that differ only in
the names of the letters one is taken. Two letters suffice to tell a label that
agrees at first from one that agrees to the end, and 4 bytes hold two axes of
either kind with something between them. Every way to cut a path into calls
occurs. Well-formed means what the documented pattern syntax yields: `?` is a whole
step and follows an axis.

In `query` the trie is built by the insertions themselves; three keys are enough
for two inner nodes in either order of dimension, so that the stack holds states
of different depth while the buffers are overwritten. The bounds hold a value
that occurs and one that lies between two, and include the empty range. Buffers
of 5 bytes hold the longest path. Bytes are decimal digits and an integer has two of
them (-50..49), so that the sign, the first and the second digit each decide
somewhere. Two situations are left out of the passing
runs because they are findings (below): patterns that end before a branch of the
trie, and the empty string value.

In `bulk_load` a node can have three children, so all branches of the choice of
the layout and both changes of the dimension occur, and a deque may hold a key
twice; loads go into an empty and into a filled index, and insertions follow. The
paths of `static` are `/1/2`, `/1/2/1` and `/2`: they differ in length and in the
number of labels, which is what makes z-order and mixed interleavings go wrong;
two values that share a byte suffice to split in both dimensions. Codes of two
bits make the fourth label collide with the padding. One of the paths of
`surrogate_cas` is too deep, and begins like another one. With two values and three
insertions it can be stored twice, so that a node holds its last label and branches by
value below, before the other path arrives; deques hold both paths, in either order. The four files of `import` have lines without
references, with given ones, with bad ones at the end and in the middle, and none
at all; two imports show what one leaves behind for the next.

**Fairness.** `FairSpec` of `Insertion` assumes that an insertion that has begun takes its next
step (weak fairness of the steps inside `Execute`). The program is sequential, so
nothing else can run in between. For the same reason `FairSpec` of `PathMatcher`
lets a call run on, `QueryFairSpec` a query, `CasFairSpec` a bulk load, `StaticSpec`
an insertion, `FacadeSpec` a call of the facade and `CsvSpec` an import or a
deletion. Nothing is assumed about callers:
an insertion, a call or a query need never begin.

**Stopping.** The runs of `MCInsertion` and `MCQuery` stop after `MaxKeys`
insertions (or at a failed assertion), that of `MCPathMatcher` at a verdict, that of
`MCBulkLoad` also after `MaxLoads` loads, that of `MCInsertionStatic` also at
undefined behaviour, that of `MCSurrogateCas` after `MaxCalls`, `MaxQueries` and
`MaxLoads` calls, at a failed assertion and at undefined behaviour, and that of `MCImport` after `MaxImports` imports, hence
`CHECK_DEADLOCK FALSE`. All these names are bounds of the models; the program has
none of them.

**What the runs say about behaviour a user might not expect.** None of it
contradicts a comment or a test, so none is a finding:

- `static`: `Cas::Insert` interleaves path before value for every static type. An
  index of another type that was bulk-loaded and is then extended key by key mixes
  two orders, and the mixture can end in undefined behaviour. The z-order keeps
  the dimensions apart only if all paths have one size and all values another.
- `bulk_load`: a second `BulkLoad` of a dynamic index replaces the first one,
  whose nodes are never deleted; static indexes accumulate.
- `surrogate_cas`: a `?` also matches the padding behind a short path, and a `^` at
  the end of a pattern takes at least one label or place of the padding. Queries
  use up numbers, too. The meaning of patterns in `Matches` says so.
- `surrogate_cas`: a path deeper than `max_depth` is encoded in full, and nothing keeps
  its code from going on behind that of another path. With depth 2, insert `/a/b/c`
  with two values and then `/a/b` with one of them: the last path mismatches in the
  root's prefix while it has no byte left, and `Restructure` takes the byte behind the
  end of `path_` for that of a child (`insertion.cpp:95`). At a node that branches by
  path the Locator does the same (`locator.cpp:24`). With one value instead, the
  reference goes to the leaf of `/a/b/c`; in the other order the assertion fails. A bulk
  load of both paths reads the shorter one behind its end (`bulk_load.cpp:124`) or, if
  that comes first in the deque, takes both for equal and forgets how the longer one
  goes on. Behind a read out of range nothing is claimed of the index; `TreeConsistent`
  says what must have been stored before it can happen. Without such paths the theorems
  of section 4 exclude it (`ReadsCorrect`, `ReadsInside`).
- `import`: `CasXml::Delete` erases the entries in front of the first one with
  another reference and then finds that one for ever (`DeleteAlone`). A path with
  `?` or `^` in it may get the pcr of another path; a path that the data guide
  misses gets a second pcr.

**Findings.**

- `prefix_rejected`: the comment above the last `return false` of
  `Insertion::Execute` says that this is the case in which the key is a prefix of
  an existing key. Such a key never gets there: `KeyFullyMatched` is tested before
  `HasMismatch`, and the reference is added to the leaf of the longer key. In the
  opposite case, an existing key that is a prefix of the new one, the Locator's
  assertion at `locator.cpp:34` ends the program before. The keys `Cas` encodes
  are prefix-free; `SurrogateCas` makes prefixes for paths deeper than its maximal
  depth.
- `query_empty_string`: a leaf whose value is the empty string is only the null
  byte, which `IsCompleteValue` does not take for a complete value. The leaf is
  treated as an inner node and the assertion at `query.cpp:57` fails.
- `query_branch_pattern`: the comment at `query.cpp:207` says that exactly one
  child is looked for. If the pattern is consumed and the node branches on a path
  byte, there is no such child: the byte is read behind the end of the pattern.

## 4. The theorems

All are proved for every value of the constants under the assumptions the modules
name: byte values and widths are as in `ByteAssumption` and `WidthAssumption`,
`Malloc` returns unused addresses (`HeapAssumption`).

**AdaptiveNodeProofs.** `TypeOK` and `CountOK` together are inductive. Each
operation of each layout is described by one lemma in terms of `LocateChild`
before and after it; from these follow `RoomCorrect` and the refinement
`ImplementsMap`. `ScanCorrect` is about `ForEachChild`: a loop that counts down is a
recursive function, described by least counterexamples (`DownToScans` in
`LoopsProofs`), and the keys of a sorted layout ascend, so stopping at the first key
below the range loses none.

**InsertionProofs.** The theorems assume `PrefixFree`: no path is a proper prefix
of another, no value of another. `LookupExact` is not inductive: that the Locator
ends at the right leaf depends on the whole trie. `Represents` says that the nodes
can be labelled, each with a key stored below it and the numbers of path and
value bytes consumed above it, such that

1. the prefix of a node is the part of its key behind the consumed bytes, and a
   leaf holds all the rest and the references of its key;
2. the child under byte `b` agrees with its parent up to the end of the parent's
   prefix and goes on with `b`;
3. of any two nodes, one is below the other or their keys differ in consumed
   bytes;
4. every stored key labels a leaf, and every node but the root is a child.

By 3 and 4 the leaf of a stored key must lie below any node whose consumed bytes
agree with the key, which makes the descent inevitable (`StoredIsBelow`). Every
insertion is put together from five changes of the heap, each of which keeps a
trie labelled (`FirstLeafOK`, `AddRefOK`, `AddLeafOK`, `SplitOK`, `MoveOK`):
`Restructure` is a split followed by a leaf under the new parent, growing a node
is a move followed by a leaf. From the invariant follow `TypeCorrect`,
`ReadsCorrect`, `LookupCorrect` and `TreeCorrect`. `FanOutCorrect` adds to it that
inner nodes have two children at least and no more than their layout holds: every
change is followed by the number of children it leaves a node with, and that the
Locator's byte is not among the children of the node is what makes `AddNewLeaf` add one.

Labels are chosen by the proof, walks are made by the trie. A walk with a key visits
a node exactly if the label of the node agrees with the key (`WalkVisits`), by
induction over its length; `Induction` in `LoopsProofs` is induction for a set of
numbers and `Recursion` what a recursive function satisfies, so neither needs an
operator as a parameter. Hence a walk with a stored key ends at its leaf and
every other one finds nothing (`StoredContent`), which makes the refinement
`IndexCorrect` a matter of the history variable, and the labels read from walks are
as good as those chosen (`LabelsCorrect`): `RelabelOK` exchanges the key of a label for
another one below the same node. `CountCorrect` follows the references through the
same five changes of the heap; exactly one of them adds one (`OneMore`).

**BulkLoadProofs.** A pending call of `Construct` gets a label, too: the first key of
its partition, and the bytes consumed above it. It is a subtrie that is still
missing: its link is free, it stands apart from every other call and from every node
it is not below, all keys of its partition agree in the consumed bytes, and every
key of the load has its leaf or is in a pending call. `ConstructInv` is the step: the discriminative
bytes end the common prefix (`PrefixFacts`), the partitions by the next byte differ
in it, and so the new calls hang below the new node as its children will. When
nothing is pending, this is the labelling of `InsertionProofs`, whose steps are then
taken over. The invariant also keeps the heap finite, which `StartLoad` counts. From
it follow that no call reads a string behind its end (`ReadsInside`, which also excludes
that step of `Construct`), `CasTypeCorrect`, `KeysCoveredCorrect` (no key is lost or built twice while
a load runs), `RoomCorrect` (each node is made with the layout for its children) and
`LoadedTrieCorrect`: between the calls a trie that was filled by loads and
insertions in any order has everything proved of insertions. `LoadedCorrect` is about
walks again, also through a trie that is not finished: a node that exists is reached
by the walks of its keys (`LoadingLabels`), and while calls are pending `nr_keys_` is
the number of the references in the leaves and of the keys in the calls
(`LoadCount`).

The second part of the module is about the static index types, which `Cas::BulkLoad`
fills with one insertion per key. It also assumes that no path and no value is empty
(`NonEmpty`; the encoders end both with a null byte, integers have at least one byte). All four
interleavings are orders of the bytes of a key (`InterleaveMerges`): each dimension in
its own order, so a position in an interleaved key is a pair of counters
(`Passes`). `KeysCompatible` says which orders go on alike: path before value and
value before path because keys are prefix-free, label by label because the end of a
label can be seen from the bytes read so far, the z-order if all keys have the same sizes.
`UndefinedOnlyMixed` and `StaticRepresents` need more than a labelled trie, since the key decides
which dimension is next and the node in which dimension it branches. `SInv` therefore keeps
that every node lies in the order of some inserted key (`Ordered`): what it has
consumed comes first in it, then its prefix, then a byte of the node's dimension. Two
compatible orders that have agreed so far go on with the same dimension
(`GoesAlong`), so a key that has come to the end of a prefix has a byte for the node
(`InnerNext`), and where key and prefix part the prefix can be cut in the dimension of
the key (`MismatchNext`): hence `OnlyMixedIsUndefined`. The changes of the heap are those of
`InsertionProofs`, which makes `StaticCorrect` a matter of `Ordered`
(`SplitOrdered`, `MovedOrdered`, `LinkedOrdered`). Once dimensions are mixed the invariant
claims nothing; section 3 says what may happen then.

**PathPatternProofs.** What the matcher does, for any path and pattern, as a relation
between its positions before and after a step (`Takes`), and what is known of it after
each step (`Knows`). Both the proofs on the matcher alone and those on the query take
the steps over from here. `Matches` is recursive; that its function exists and that
it describes the cuts of the path are shown by least counterexamples
(`CutsRecursive`, `CutsAreCuts`), so no induction theorem is needed. What is known
(`Standing`) is one cut `g` of what the matcher has read, such that every cut of the
whole path is nowhere ahead of `g`, and is `g` from the last descendant axis on if
it leaves this axis where `g` does. When no byte of the pattern fits (`Stuck`), no cut
leaves the axis there, so it may be widened (`NoWay`); at the null byte every cut
that is not ahead has come to its end, so going back would not help (`FinishStep`).
`TakesShown` says that a step depends on nothing but the bytes it was shown, which is
why one run of the matcher on a shared buffer speaks for all keys below a node.

**PathMatcherProofs.** `PositionsCorrect`: no position leaves the path or the
pattern; the path positions stop at the null byte even though the loop tests it
only at `ppos_`, and `desc_ppos_` is read without such a test. `DecidesCorrect`:
`INCOMPLETE` is never the answer to a complete path. The invariant adds to `TypeOK` that all
positions lie in what the caller has shown, and that an `INCOMPLETE` answer means
one of the two path positions has reached its end; neither passes the null byte,
because every action that moves one has read another byte there. `VerdictCorrect` and
`OneByteCorrect` say that a verdict is the meaning of the pattern, and that where the
query looks for one child no other can match: every action of the matcher is a step
of `Takes` (`StepsTake`). They assume that every `?` follows an axis (`BehindAxis`).

**QueryProofs.** The theorems assume `Searchable`. A `State` stands for the stored keys
below its node, those that agree with the label of the node in all bytes consumed
above it (`Covers`). The invariant (`QueryWalk`) says of every `State` on the stack that it
is about to consume the byte that led to its node, that the bytes of the buffers it
calls its own are those of the node's key, that its matcher `Knows` the same of every
key below, and that both bounds agree with the value as far as they were compared
(`Waiting`); for the `State` being evaluated the same holds behind the prefix of its
node (`Current`). Of two States on the stack the upper one has at least as many
bytes of its own, and the labels conflict (`Before`): so a `State` may write its bytes
without disturbing those below it, and no key is met twice. What has been emitted was
asked for, is complete and is below no State any more (`Sound`). From this follow
`QueryTypeCorrect`, `BufferCorrect` and `LeavesCorrect`; a match at an inner node or an
undecided leaf is impossible because a value is complete in the sense of
`IsCompleteValue` exactly when all its bytes are in the buffer (`CompleteValue`).

That nothing is missed is a second invariant (`Complete`): a stored key that
qualifies and is below no State has been emitted. `PruneStep` and
`DescendValueStep` keep it for every query, as the order of the bytes is that of the
values (`OutOfRange`). `DescendPathStep` needs that the one child it looks for is one
the pattern names, hence `QueryCorrect`: `QuerySpec` and `[]ChildByteInPattern` imply
`[]QueryExact`. The condition is not always true (`query_branch_pattern`), but
`ChildByteCorrect` proves it for patterns none of which ends where two paths part
(`PatternsGoOn`): inner nodes have two children at least (`FanOut`), whose keys part
behind what the matcher has read, and a matcher at the end of its pattern has cut just
that (`PatternEnds`). `QueryExactCorrect` puts both together.

**FrontEndProofs**, on what stands in front of the trie. `PathsPrefixFree`, `StringsPrefixFree` and
`IntegersPrefixFree` say of the encoded keys what `PrefixFree` and `Searchable` assume
of the keys of the trie: a path and a string end with their only null byte, integers
have one length. They assume that no path and no string holds a null character.
`StringOrder` and `IntegerOrder` say that the trie compares bytes as the user
compares values. The lemmas on integers are in `LoopsProofs` and about any base and
width: the digits up to a place are the number divided by the value of that place
(`DigitFacts`), so the first digits that differ decide (`DigitsOrder`), a number is
the sum of its digits (`DigitsSum`, by induction), and turning the highest bit adds
half of the modulus to every integer (`SignTurned`). `PathRoundTrip`, `StringRoundTrip`
and `IntegerRoundTrip` are the decoder.
`NumbersCorrect` and `NumbersKept` say of `Surrogate` that the labels have different
numbers, none of them 0, for ever, and `LabelDecoded` that the decoder gets every
label back whose number survives the cut. That numbers below `Base^BytesPerLabel` do
is induction over the digits and stays with the run.

`XmlQueryCorrect` and `ImportCorrect` are about imports into the XML index, for all
files (`FilesAssumption` says what a line is), paths and patterns. `XmlQueryExact` only
speaks of plain paths, the invariant `XmlInv` of all: a pcr stands for one path only,
because a new one is larger than all others (`Numbered`), and an entry whose path denotes
nothing else has one of the pcrs of its path, even if `ComputePcr` took it from several
because the data guide had missed the path before. `ImportExact` only says something when
no import runs. `CsvInv` says of one that runs that it stands behind the first `n` lines
of its file (`Reached`): these parse, what `getline` has not returned is the rest,
`highest_ref_` is the reference that the file implies for line `n`
(`ExpectedSteps`), and the index holds what it held before and the first `n` lines once
each; a `BulkLoad` that is still reading has them in its deque instead, and one that inserts
has the rest there. How often a key is in the tree is the cardinality of a set of
positions, and an insertion moves them up (`InsertedCount`).
`DeletionSpins` is the half of `DeleteAlone` that needs no fairness: no import runs
beside a deletion, and an iteration only erases the first entry, if it has the
reference that is deleted, so the entry of another reference stays (`SharedStays`).

**Only model-checked**, and why:

- Termination: `ExecuteTerminates`, `CallReturns`, `QueryEnds`, `LoadEnds` and the
  first half of `DeleteAlone` are liveness under fairness, which the prover does not do.
- The matcher of `SurrogateCas` (`MatcherExact`), a RECURSIVE operator, and with it the
  module that uses it (`TreeConsistent`, `SurrogateIndexExact`).
- What must be stored before keys that are not prefix-free lead to a failed assertion or
  to undefined behaviour (`TreeConsistent`).
- Keys that are not prefix-free, patterns that end before a branch, and the empty
  string: there the program does not do what it should (section 3).

## 5. Not modelled, and what is left

Not modelled of the modelled components: the destructor of `Cas` and
`DeleteNodes`, which end the life of the index; `CollectStats`, `Describe`, `Dump`
and the counting of `QueryStats`; `Node0::DeleteRef` and `ContainsRef`, which
nothing in the program calls; paths with empty labels (`//`) in a `SurrogateCas`;
static index types below `SurrogateCas` (the keys it makes are those the condition
of `TypesCompatible` on the z-order is about); 64-bit integers, whose encoding
differs in the number of bytes only.

Left out for good: printing (`Dump`, `Describe`), time measurement, the
experiments under `benchmarks` and `src/benchmark`, which only drive the index,
and `include/test/catch.hpp`, which is third-party code. The 16-bit width of
`separator_pos_` and of the lengths in `Query` is not modelled: it matters only
for prefixes of 65536 bytes and more.
