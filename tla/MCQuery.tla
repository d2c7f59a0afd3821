------------------------------ MODULE MCQuery ------------------------------
(***************************************************************************)
(* Query on small instances, whose keys are encoded from paths, patterns,  *)
(* integers and strings.  Bytes are decimal digits: 1 and 2 are letters, 3 *)
(* and 4 the masks of the axes, 5 the encoded separator; 6, 7 and 8 are the *)
(* characters "/", "?" and "^".  Integers have two bytes: -50..49.         *)
(***************************************************************************)
EXTENDS IntegerQuery

LowestFree(used) ==
  IF Node \subseteq used THEN {} ELSE {Least(Node \ used)}

MCWidths == <<2, 3, 10>>
MCWeight == <<10, 1>>

\* /1, /1/2 and /2/2
MCPaths == {encoder!EncodePath(p) : p \in {<<6, 1>>, <<6, 1, 6, 2>>, <<6, 2, 6, 2>>}}

\* ^  ^2  /?  /?/2  /1^  /1/2: none of them ends before a branch.
MCPatterns ==
  {encoder!EncodeQueryPath(q) :
     q \in {<<8>>, <<8, 2>>, <<6, 7>>, <<6, 7, 6, 2>>, <<6, 1, 8>>, <<6, 1, 6, 2>>}}

\* Integers of both signs, two of which share a byte; a bound that is a value
\* and one between two values.
MCIntegers == {-39, -38, 1}
MCBounds == {-38, 0}
Integers == Encoded(MCIntegers)
IntegerBounds == Encoded(MCBounds)

\* Strings, one of which is the beginning of another.
Strings == {encoder!EncodeString(t) : t \in {<<1>>, <<1, 2>>, <<2>>}}
StringBounds == {encoder!EncodeString(t) : t \in {<<1>>, <<1, 1>>, <<1, 2>>}}
StringPatterns == {encoder!EncodeQueryPath(q) : q \in {<<8>>, <<6, 1, 8>>, <<6, 7>>}}

\* The empty string.
WithEmptyString == {encoder!EncodeString(t) : t \in {<<>>, <<1>>}}

\* /1, which ends where /1 and /1/2 part.
BranchPatterns == {encoder!EncodeQueryPath(<<6, 1>>)}

\* The theorems on queries apply to the instances, but to that with the empty
\* string and, if it takes patterns that go on, to that with the pattern /1.
ASSUME SearchableInstances ==
  encoder!EncodeString(<<>>) \notin Values => Searchable
ASSUME PatternInstances == Patterns # BranchPatterns <=> PatternsGoOn
ASSUME IntegerInstances == ValueSize > 0 /\ PatternsGoOn => IntegersAsked
=============================================================================
