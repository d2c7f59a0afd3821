--------------------------- MODULE MCPathMatcher ---------------------------
(***************************************************************************)
(* PathMatcher on all short paths and patterns over two letters.           *)
(***************************************************************************)
EXTENDS PathMatcher, Loops

CONSTANTS MaxPath, MaxPattern  \* bytes behind the first separator; of a pattern

Strings(S, n) == UNION {[1..l -> S] : l \in 0..n}

MCFullPaths ==
  {<<kPathSep>> \o w \o <<kNullByte>> : w \in Strings(Letter \cup {kPathSep}, MaxPath)}

\* A pattern is a sequence of steps, each with an axis, "/" or "^": "?" and
\* labels follow an axis, "?" is a whole step, and only "^" may stand without
\* a label.
WellFormed(p) ==
  LET Axis == {kPathSep, Descendant} IN
  /\ p[1] \in Axis
  /\ \A i \in 2..Len(p) : p[i] = kPathSep => p[i - 1] \notin Axis
  /\ BehindAxis(p)
  /\ \A i \in 1..(Len(p) - 1) : p[i] = Wildcard => p[i + 1] \in Axis

\* Of patterns that differ in the names of the two letters one is enough.
FirstLetterIsLeast(p) ==
  \A i \in 1..Len(p) : p[i] \in Letter =>
    \E j \in 1..i : p[j] = Least(Letter)

MCPatterns ==
  {p \in Strings(Letter \cup {kPathSep, Wildcard, Descendant}, MaxPattern) :
     p # <<>> /\ WellFormed(p) /\ FirstLetterIsLeast(p)}
=============================================================================
