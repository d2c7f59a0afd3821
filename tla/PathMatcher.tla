---------------------------- MODULE PathMatcher ----------------------------
(***************************************************************************)
(* PathMatcher::MatchPathIncremental (path_matcher.cpp): decides whether a *)
(* path matches a pattern while the path is still being read.  The caller  *)
(* shows the first len_path bytes; the answer INCOMPLETE asks for more, and *)
(* the next call goes on from the State s of the last one.  One action is   *)
(* one iteration of the loop.  Query takes the actions of this module over, *)
(* so they leave path, pattern and len_path to the caller.                  *)
(* Positions count from 0 as in the source.                                 *)
(***************************************************************************)
EXTENDS PathPattern, Loops

CONSTANTS FullPaths,  \* encoded paths: they end with the null byte
          Patterns    \* encoded patterns: they do not

\* A path starts with a separator and has its only null byte at the end.
ASSUME PathAssumption ==
  \A p \in FullPaths :
    /\ p \in Seq(PathByte) /\ Len(p) >= 2
    /\ p[1] = kPathSep
    /\ \A i \in 1..Len(p) : p[i] = kNullByte <=> i = Len(p)

ASSUME PatternAssumption ==
  Patterns \subseteq Seq(Letter \cup {kPathSep, Wildcard, Descendant})

VARIABLES path, pattern, len_path,
          s,          \* PathMatcher::State
          match       \* "calling" inside the call, afterwards its result

NoDescendant == -1

InitialState ==
  [ppos_ |-> 0, qpos_ |-> 0, desc_ppos_ |-> 0, desc_qpos_ |-> NoDescendant]

-----------------------------------------------------------------------------
PathAt(i) == path[i + 1]

\* The pattern goes on with byte c.
Expects(c) == s.qpos_ < Len(pattern) /\ pattern[s.qpos_ + 1] = c

CanRead == s.ppos_ < len_path /\ s.desc_ppos_ < len_path

Looping == match = "calling" /\ CanRead /\ PathAt(s.ppos_) # kNullByte

\* A pattern symbol matches an input symbol.
MatchSymbol ==
  /\ Looping /\ Expects(PathAt(s.ppos_))
  /\ s' = [s EXCEPT !.ppos_ = @ + 1, !.qpos_ = @ + 1]
  /\ match' = match

\* The child axis "?" takes symbols up to the next separator.
MatchWildcard ==
  /\ Looping /\ ~Expects(PathAt(s.ppos_)) /\ Expects(Wildcard)
  /\ s' = IF PathAt(s.ppos_) = kPathSep
          THEN [s EXCEPT !.qpos_ = @ + 1]
          ELSE [s EXCEPT !.ppos_ = @ + 1]
  /\ match' = match

AtDescendant == Expects(Descendant) /\ PathAt(s.ppos_) = kPathSep

\* Defect: the axis is not remembered.
EnterForgotten ==
  /\ Looping /\ AtDescendant
  /\ s' = [s EXCEPT !.ppos_ = @ + 1, !.qpos_ = @ + 1]
  /\ match' = match

\* Remember where the last descendant axis was found, and let it match only
\* this separator for now.
EnterDescendant ==
  /\ Looping /\ AtDescendant
  /\ s' = [ppos_ |-> s.ppos_ + 1, qpos_ |-> s.qpos_ + 1,
           desc_ppos_ |-> s.ppos_ + 1, desc_qpos_ |-> s.qpos_]
  /\ match' = match

NoSymbol == Looping /\ ~Expects(PathAt(s.ppos_)) /\ ~Expects(Wildcard) /\ ~AtDescendant

\* Defect: the rest of the pattern is tried again where it has just failed.
WidenNowhere ==
  [s EXCEPT !.ppos_ = s.desc_ppos_, !.qpos_ = s.desc_qpos_ + 1]

\* Defect: the rest of the pattern goes on where it has failed.
WidenKeepsPattern ==
  CASE PathAt(s.desc_ppos_) = kPathSep ->
         [s EXCEPT !.ppos_ = s.desc_ppos_ + 1, !.desc_ppos_ = @ + 1]
    [] PathAt(s.desc_ppos_) = kNullByte ->
         [s EXCEPT !.ppos_ = s.desc_ppos_, !.qpos_ = s.desc_qpos_ + 1]
    [] OTHER -> [s EXCEPT !.desc_ppos_ = @ + 1]

\* Defect: the pattern goes on one byte too far.
WidenSkips ==
  CASE PathAt(s.desc_ppos_) = kPathSep ->
         [s EXCEPT !.ppos_ = s.desc_ppos_ + 1, !.qpos_ = s.desc_qpos_ + 2,
                   !.desc_ppos_ = @ + 1]
    [] PathAt(s.desc_ppos_) = kNullByte ->
         [s EXCEPT !.ppos_ = s.desc_ppos_, !.qpos_ = s.desc_qpos_ + 2]
    [] OTHER -> [s EXCEPT !.desc_ppos_ = @ + 1]

\* Defect: the end of the path is not noticed.
WidenPastEnd ==
  IF PathAt(s.desc_ppos_) = kPathSep
  THEN [s EXCEPT !.ppos_ = s.desc_ppos_ + 1, !.qpos_ = s.desc_qpos_ + 1,
                 !.desc_ppos_ = @ + 1]
  ELSE [s EXCEPT !.desc_ppos_ = @ + 1]

\* The last descendant axis takes one symbol more; behind a separator or at
\* the end the rest of the pattern gets another try.
Widen ==
  CASE PathAt(s.desc_ppos_) = kPathSep ->
         [s EXCEPT !.ppos_ = s.desc_ppos_ + 1, !.qpos_ = s.desc_qpos_ + 1,
                   !.desc_ppos_ = @ + 1]
    [] PathAt(s.desc_ppos_) = kNullByte ->
         [s EXCEPT !.ppos_ = s.desc_ppos_, !.qpos_ = s.desc_qpos_ + 1]
    [] OTHER -> [s EXCEPT !.desc_ppos_ = @ + 1]

WidenDescendant ==
  /\ NoSymbol /\ s.desc_qpos_ # NoDescendant
  /\ s' = Widen
  /\ match' = match

Fail ==
  /\ NoSymbol /\ s.desc_qpos_ = NoDescendant
  /\ match' = "MISMATCH" /\ s' = s

NeedMore ==
  /\ match = "calling" /\ ~CanRead
  /\ match' = "INCOMPLETE" /\ s' = s

\* At the end of the path "?" matches the empty rest of a label, and every
\* "^" matches the empty path.
BehindWildcard ==
  IF Expects(Wildcard) /\ PathAt(s.ppos_ - 1) # kPathSep THEN s.qpos_ + 1 ELSE s.qpos_

EndTrailing(q) ==
  Least({e \in q..Len(pattern) : e = Len(pattern) \/ pattern[e + 1] # Descendant})

\* At the null byte of the path.
Finish ==
  /\ match = "calling" /\ CanRead /\ PathAt(s.ppos_) = kNullByte
  /\ s' = [s EXCEPT !.qpos_ = EndTrailing(BehindWildcard)]
  /\ match' = IF s'.qpos_ = Len(pattern) THEN "MATCH" ELSE "MISMATCH"

Steps == \/ MatchSymbol \/ MatchWildcard \/ EnterDescendant
         \/ WidenDescendant \/ Fail \/ NeedMore \/ Finish

-----------------------------------------------------------------------------
(* The matcher alone, with a caller that shows the path piece by piece.     *)

vars == <<path, pattern, len_path, s, match>>

Init ==
  /\ path \in FullPaths /\ pattern \in Patterns
  /\ len_path = 0
  /\ s = InitialState /\ match = "calling"

\* The caller has more bytes and calls again.
CallAgain ==
  /\ match = "INCOMPLETE"
  /\ len_path' \in (len_path + 1)..Len(path)
  /\ match' = "calling"
  /\ UNCHANGED <<path, pattern, s>>

Next == (Steps /\ UNCHANGED <<path, pattern, len_path>>) \/ CallAgain

Spec == Init /\ [][Next]_vars

\* The loop of a call runs on; whether the caller calls again is its affair.
FairSpec == Spec /\ WF_vars(Steps /\ UNCHANGED <<path, pattern, len_path>>)

-----------------------------------------------------------------------------
\* Positions in the path stop at its null byte, those in the pattern at its
\* end, and the last descendant axis is a byte of it.
State ==
  [ppos_ : 0..(Len(path) - 1), qpos_ : 0..Len(pattern),
   desc_ppos_ : 0..(Len(path) - 1), desc_qpos_ : NoDescendant..(Len(pattern) - 1)]

\* Type invariant.
TypeOK ==
  /\ path \in FullPaths /\ pattern \in Patterns /\ len_path \in 0..Len(path)
  /\ s \in State
  /\ match \in {"calling", "MATCH", "MISMATCH", "INCOMPLETE"}

\* A verdict is right, however the path was cut into calls: in particular a
\* MISMATCH that is given before the whole path is seen.
VerdictExact ==
  match \in {"MATCH", "MISMATCH"} => (match = "MATCH" <=> Matches(path, pattern))

\* A complete path always gets a verdict; the query asserts that only inner
\* nodes leave it open (query.cpp:57).
CompletePathDecided == match = "INCOMPLETE" => len_path < Len(path)

\* What the query's choice of children rests on (query.cpp:188-208): as long as
\* the matcher has met no descendant axis and expects no "?" or "^", the path
\* matches only if its next byte is the one the pattern goes on with; a path
\* longer than its pattern never matches.
OneByteCanFollow ==
  /\ match = "INCOMPLETE" /\ s.desc_qpos_ = NoDescendant
  /\ ~Expects(Wildcard) /\ ~Expects(Descendant)
  /\ Matches(path, pattern)
  => IF s.qpos_ < Len(pattern) THEN Expects(PathAt(len_path))
                               ELSE PathAt(len_path) = kNullByte

\* Every call returns, however often the descendant axis is widened.
CallReturns == match = "calling" ~> match # "calling"
=============================================================================
