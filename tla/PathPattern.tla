---------------------------- MODULE PathPattern ----------------------------
(***************************************************************************)
(* Encoded paths, patterns, and which paths a pattern stands for.          *)
(*                                                                          *)
(* A pattern is a byte string, too: a Wildcard ("?") stands for one label, a *)
(* Descendant ("^") for any number of labels with the separators around     *)
(* them.  Positions count from 0 as in the source.                          *)
(***************************************************************************)
EXTENDS Integers, Sequences

CONSTANTS kNullByte, kPathSep, Wildcard, Descendant, \* special bytes
          Letter      \* the bytes labels are made of

PathByte == Letter \cup {kPathSep, kNullByte}

ASSUME SpecialAssumption ==
  /\ kNullByte # kPathSep
  /\ {Wildcard, Descendant} \cap PathByte = {}
  /\ Wildcard # Descendant
  /\ {kNullByte, kPathSep} \cap Letter = {}

\* What a pattern means.  Byte c of a pattern stands for the bytes i..j-1 of
\* the path w, whose null byte is at position e.
StandsFor(w, c, i, j) ==
  LET e == Len(w) - 1 IN
  CASE c = Wildcard ->
         /\ i > 0 /\ w[i] = kPathSep
         /\ \A k \in i..(j - 1) : w[k + 1] # kPathSep
         /\ w[j + 1] = kPathSep \/ (j = e /\ i < j)
    [] c = Descendant ->
         \/ i = e /\ j = e
         \/ i < j /\ w[i + 1] = kPathSep /\ (w[j] = kPathSep \/ j = e)
    [] OTHER -> i < e /\ j = i + 1 /\ w[i + 1] = c

\* Where what c stands for can end if it begins at one of the positions S.
EndsOf(w, c, S) ==
  {j \in 0..(Len(w) - 1) : \E i \in S : i <= j /\ StandsFor(w, c, i, j)}

\* Where what the first n bytes of the pattern stand for can end.
Cuts(w, p) ==
  LET Cut[n \in 0..Len(p)] == IF n = 0 THEN {0} ELSE EndsOf(w, p[n], Cut[n - 1])
  IN  Cut

\* A path matches if it can be cut into what the bytes of the pattern stand
\* for.
Matches(w, p) == Len(w) - 1 \in Cuts(w, p)[Len(p)]

\* A "?" follows an axis.  Elsewhere it stands for nothing, but the matcher lets
\* it match the rest of a label; the documented syntax has no such pattern.
BehindAxis(p) ==
  \A n \in 1..Len(p) : p[n] = Wildcard => n > 1 /\ p[n - 1] \in {kPathSep, Descendant}
=============================================================================
