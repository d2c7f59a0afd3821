------------------------ MODULE PathMatcherProofs ------------------------
(***************************************************************************)
(* For every alphabet, path and pattern and every way to cut the path into *)
(* calls: the positions of the path matcher stay inside the path and the   *)
(* pattern, and its verdicts are right.                                    *)
(*                                                                         *)
(* That the null byte is the last byte of a path stops every position      *)
(* there; a position moves only over bytes that are not null.  The verdict *)
(* is right because the matcher keeps track of one cut of what it has read  *)
(* of the path, and no cut of the whole path is ahead of this one.          *)
(***************************************************************************)
EXTENDS PathMatcher, PathPatternProofs, TLAPS

\* Neither position in the path is ahead of what the caller has shown.
Shown == s.ppos_ <= len_path /\ s.desc_ppos_ <= len_path

\* A call that wants more has used up what was shown.
Starved == match = "INCOMPLETE" => s.ppos_ >= len_path \/ s.desc_ppos_ >= len_path

Inv == TypeOK /\ Shown /\ Starved

-----------------------------------------------------------------------------
\* Where the null byte is.
LEMMA PathShape ==
  ASSUME path \in FullPaths
  PROVE  /\ Len(path) \in Nat /\ Len(path) >= 2
         /\ \A i \in 0..(Len(path) - 1) : PathAt(i) = kNullByte <=> i = Len(path) - 1
<1>1. path \in Seq(PathByte) /\ Len(path) >= 2 /\ Len(path) \in Nat
  BY PathAssumption
<1>2. \A i \in 1..Len(path) : path[i] = kNullByte <=> i = Len(path)
  BY PathAssumption
<1>3. ASSUME NEW i \in 0..(Len(path) - 1)
      PROVE  PathAt(i) = kNullByte <=> i = Len(path) - 1
  <2>1. i + 1 \in 1..Len(path)
    BY <1>1
  <2>2. path[i + 1] = kNullByte <=> i + 1 = Len(path)
    BY <1>2, <2>1
  <2>3. i + 1 = Len(path) <=> i = Len(path) - 1
    BY <1>1
  <2> QED
    BY <2>2, <2>3 DEF PathAt
<1> QED
  BY <1>1, <1>3

LEMMA PatternShape ==
  ASSUME pattern \in Patterns
  PROVE  Len(pattern) \in Nat
<1>1. pattern \in Seq(Letter \cup {kPathSep, Wildcard, Descendant})
  BY PatternAssumption
<1> QED
  BY <1>1

\* The loop over trailing descendant axes ends inside the pattern.
LEMMA TrailingInRange ==
  ASSUME Len(pattern) \in Nat, NEW q \in 0..Len(pattern)
  PROVE  EndTrailing(q) \in q..Len(pattern)
<1> DEFINE E == {e \in q..Len(pattern) : e = Len(pattern) \/ pattern[e + 1] # Descendant}
<1>1. E \in SUBSET Nat
  OBVIOUS
<1>2. Len(pattern) \in E
  OBVIOUS
<1>3. Least(E) \in E
  BY <1>1, <1>2, LeastIsLeast
<1>4. EndTrailing(q) = Least(E)
  BY DEF EndTrailing
<1> QED
  BY <1>3, <1>4

-----------------------------------------------------------------------------
LEMMA InitInv == Init => Inv
<1> SUFFICES ASSUME Init PROVE Inv
  OBVIOUS
<1>1. path \in FullPaths /\ pattern \in Patterns /\ len_path = 0 /\ match = "calling"
  BY DEF Init
<1>2. Len(path) \in Nat /\ Len(path) >= 2 /\ Len(pattern) \in Nat
  BY <1>1, PathShape, PatternShape
<1>3. s = [ppos_ |-> 0, qpos_ |-> 0, desc_ppos_ |-> 0, desc_qpos_ |-> -1]
  BY DEF Init, InitialState, NoDescendant
<1>4. s \in State
  BY <1>2, <1>3 DEF State, NoDescendant
<1> QED
  BY <1>1, <1>2, <1>3, <1>4 DEF Inv, TypeOK, Shown, Starved

\* What the actions have to show: the path stays, the State stays in range.
LEMMA StepKeeps ==
  ASSUME Inv, UNCHANGED <<path, pattern, len_path>>,
         s'.ppos_ <= len_path, s'.desc_ppos_ <= len_path,
         s' \in State, match' \in {"calling", "MATCH", "MISMATCH"}
  PROVE  Inv'
<1>1. State' = State
  BY DEF State, NoDescendant
<1> QED
  BY <1>1 DEF Inv, TypeOK, Shown, Starved

\* The members of the State.
LEMMA Positions ==
  ASSUME Inv
  PROVE  /\ s \in State
         /\ Len(path) \in Nat /\ Len(path) >= 2 /\ Len(pattern) \in Nat
         /\ len_path \in 0..Len(path)
         /\ s.ppos_ \in 0..(Len(path) - 1) /\ s.ppos_ <= len_path
         /\ s.desc_ppos_ \in 0..(Len(path) - 1) /\ s.desc_ppos_ <= len_path
         /\ s.qpos_ \in 0..Len(pattern)
         /\ s.desc_qpos_ \in (-1)..(Len(pattern) - 1)
         /\ s = [ppos_ |-> s.ppos_, qpos_ |-> s.qpos_,
                 desc_ppos_ |-> s.desc_ppos_, desc_qpos_ |-> s.desc_qpos_]
         /\ \A i \in 0..(Len(path) - 1) : PathAt(i) = kNullByte <=> i = Len(path) - 1
<1>1. path \in FullPaths /\ pattern \in Patterns /\ s \in State /\ len_path \in 0..Len(path)
  BY DEF Inv, TypeOK
<1>2. s.ppos_ <= len_path /\ s.desc_ppos_ <= len_path
  BY DEF Inv, Shown
<1>3. /\ s.ppos_ \in 0..(Len(path) - 1) /\ s.qpos_ \in 0..Len(pattern)
      /\ s.desc_ppos_ \in 0..(Len(path) - 1)
      /\ s.desc_qpos_ \in (-1)..(Len(pattern) - 1)
  BY <1>1 DEF State, NoDescendant
<1>4. s = [ppos_ |-> s.ppos_, qpos_ |-> s.qpos_,
           desc_ppos_ |-> s.desc_ppos_, desc_qpos_ |-> s.desc_qpos_]
  BY <1>1 DEF State
<1> QED
  BY <1>1, <1>2, <1>3, <1>4, PathShape, PatternShape

\* Where the loop is, a byte can be read and another one follows.
LEMMA LoopReads ==
  ASSUME Inv, Looping
  PROVE  /\ match = "calling"
         /\ s.ppos_ < len_path /\ s.desc_ppos_ < len_path
         /\ s.ppos_ + 1 \in 0..(Len(path) - 1)
<1>1. /\ match = "calling" /\ s.ppos_ < len_path /\ s.desc_ppos_ < len_path
      /\ PathAt(s.ppos_) # kNullByte
  BY DEF Looping, CanRead
<1>2. s.ppos_ # Len(path) - 1
  BY <1>1, Positions
<1> QED
  BY <1>1, <1>2, Positions

LEMMA MatchSymbolInv ==
  ASSUME Inv, MatchSymbol, UNCHANGED <<path, pattern, len_path>>
  PROVE  Inv'
<1>1. Looping /\ s.qpos_ < Len(pattern) /\ match' = match
      /\ s' = [s EXCEPT !.ppos_ = @ + 1, !.qpos_ = @ + 1]
  BY DEF MatchSymbol, Expects
<1>2. s' = [ppos_ |-> s.ppos_ + 1, qpos_ |-> s.qpos_ + 1,
            desc_ppos_ |-> s.desc_ppos_, desc_qpos_ |-> s.desc_qpos_]
  BY <1>1, Positions
<1>3. s' \in State /\ s'.ppos_ <= len_path /\ s'.desc_ppos_ <= len_path
  BY <1>1, <1>2, Positions, LoopReads DEF State, NoDescendant
<1>4. match' \in {"calling", "MATCH", "MISMATCH"}
  BY <1>1, LoopReads
<1> QED
  BY <1>3, <1>4, StepKeeps

LEMMA MatchWildcardInv ==
  ASSUME Inv, MatchWildcard, UNCHANGED <<path, pattern, len_path>>
  PROVE  Inv'
<1>1. Looping /\ s.qpos_ < Len(pattern) /\ match' = match
  BY DEF MatchWildcard, Expects
<1>2. \/ s' = [s EXCEPT !.qpos_ = @ + 1]
      \/ s' = [s EXCEPT !.ppos_ = @ + 1]
  BY DEF MatchWildcard
<1>3. \/ s' = [ppos_ |-> s.ppos_, qpos_ |-> s.qpos_ + 1,
               desc_ppos_ |-> s.desc_ppos_, desc_qpos_ |-> s.desc_qpos_]
      \/ s' = [ppos_ |-> s.ppos_ + 1, qpos_ |-> s.qpos_,
               desc_ppos_ |-> s.desc_ppos_, desc_qpos_ |-> s.desc_qpos_]
  BY <1>2, Positions
<1>4. s' \in State /\ s'.ppos_ <= len_path /\ s'.desc_ppos_ <= len_path
  BY <1>1, <1>3, Positions, LoopReads DEF State, NoDescendant
<1>5. match' \in {"calling", "MATCH", "MISMATCH"}
  BY <1>1, LoopReads
<1> QED
  BY <1>4, <1>5, StepKeeps

LEMMA EnterDescendantInv ==
  ASSUME Inv, EnterDescendant, UNCHANGED <<path, pattern, len_path>>
  PROVE  Inv'
<1>1. Looping /\ s.qpos_ < Len(pattern) /\ match' = match
      /\ s' = [ppos_ |-> s.ppos_ + 1, qpos_ |-> s.qpos_ + 1,
               desc_ppos_ |-> s.ppos_ + 1, desc_qpos_ |-> s.qpos_]
  BY DEF EnterDescendant, AtDescendant, Expects
<1>2. s' \in State /\ s'.ppos_ <= len_path /\ s'.desc_ppos_ <= len_path
  BY <1>1, Positions, LoopReads DEF State, NoDescendant
<1>3. match' \in {"calling", "MATCH", "MISMATCH"}
  BY <1>1, LoopReads
<1> QED
  BY <1>2, <1>3, StepKeeps

\* A descendant axis is widened over a byte that is not null, or stays.
LEMMA WidenDescendantInv ==
  ASSUME Inv, WidenDescendant, UNCHANGED <<path, pattern, len_path>>
  PROVE  Inv'
<1>1. Looping /\ s.desc_qpos_ # -1 /\ match' = match /\ s' = Widen
  BY DEF WidenDescendant, NoSymbol, NoDescendant
<1>2. match' \in {"calling", "MATCH", "MISMATCH"}
  BY <1>1, LoopReads
<1>3. s.desc_qpos_ + 1 \in 0..Len(pattern)
  BY <1>1, Positions
<1>4. CASE PathAt(s.desc_ppos_) = kPathSep
  <2>1. s' = [s EXCEPT !.ppos_ = s.desc_ppos_ + 1, !.qpos_ = s.desc_qpos_ + 1,
                       !.desc_ppos_ = @ + 1]
    BY <1>1, <1>4, SpecialAssumption DEF Widen
  <2>2. s' = [ppos_ |-> s.desc_ppos_ + 1, qpos_ |-> s.desc_qpos_ + 1,
              desc_ppos_ |-> s.desc_ppos_ + 1, desc_qpos_ |-> s.desc_qpos_]
    BY <2>1, Positions
  <2>3. s.desc_ppos_ # Len(path) - 1
    BY <1>4, Positions, SpecialAssumption
  <2>4. s' \in State /\ s'.ppos_ <= len_path /\ s'.desc_ppos_ <= len_path
    BY <1>1, <1>3, <2>2, <2>3, Positions, LoopReads DEF State, NoDescendant
  <2> QED
    BY <1>2, <2>4, StepKeeps
<1>5. CASE PathAt(s.desc_ppos_) = kNullByte
  <2>1. s' = [s EXCEPT !.ppos_ = s.desc_ppos_, !.qpos_ = s.desc_qpos_ + 1]
    BY <1>1, <1>5, SpecialAssumption DEF Widen
  <2>2. s' = [ppos_ |-> s.desc_ppos_, qpos_ |-> s.desc_qpos_ + 1,
              desc_ppos_ |-> s.desc_ppos_, desc_qpos_ |-> s.desc_qpos_]
    BY <2>1, Positions
  <2>3. s' \in State /\ s'.ppos_ <= len_path /\ s'.desc_ppos_ <= len_path
    BY <1>3, <2>2, Positions DEF State, NoDescendant
  <2> QED
    BY <1>2, <2>3, StepKeeps
<1>6. CASE PathAt(s.desc_ppos_) # kPathSep /\ PathAt(s.desc_ppos_) # kNullByte
  <2>1. s' = [s EXCEPT !.desc_ppos_ = @ + 1]
    BY <1>1, <1>6 DEF Widen
  <2>2. s' = [ppos_ |-> s.ppos_, qpos_ |-> s.qpos_,
              desc_ppos_ |-> s.desc_ppos_ + 1, desc_qpos_ |-> s.desc_qpos_]
    BY <2>1, Positions
  <2>3. s.desc_ppos_ # Len(path) - 1
    BY <1>6, Positions
  <2>4. s' \in State /\ s'.ppos_ <= len_path /\ s'.desc_ppos_ <= len_path
    BY <1>1, <2>2, <2>3, Positions, LoopReads DEF State, NoDescendant
  <2> QED
    BY <1>2, <2>4, StepKeeps
<1> QED
  BY <1>4, <1>5, <1>6

LEMMA FinishInv ==
  ASSUME Inv, Finish, UNCHANGED <<path, pattern, len_path>>
  PROVE  Inv'
<1> DEFINE q == BehindWildcard
           e == EndTrailing(q)
<1>1. s' = [s EXCEPT !.qpos_ = e] /\ match' \in {"MATCH", "MISMATCH"}
  BY DEF Finish
<1>2. q \in 0..Len(pattern)
  BY Positions DEF BehindWildcard, Expects
<1>3. e \in 0..Len(pattern)
  <2> HIDE DEF q
  <2>1. e \in q..Len(pattern)
    BY <1>2, Positions, TrailingInRange
  <2> QED
    BY <2>1, <1>2
<1> HIDE DEF q, e
<1>4. s' = [ppos_ |-> s.ppos_, qpos_ |-> e,
            desc_ppos_ |-> s.desc_ppos_, desc_qpos_ |-> s.desc_qpos_]
  BY <1>1, Positions
<1>5. s' \in State /\ s'.ppos_ <= len_path /\ s'.desc_ppos_ <= len_path
  BY <1>3, <1>4, Positions DEF State, NoDescendant
<1> QED
  BY <1>1, <1>5, StepKeeps

LEMMA NextInv == Inv /\ [Next]_vars => Inv'
<1> SUFFICES ASSUME Inv, [Next]_vars PROVE Inv'
  OBVIOUS
<1>1. CASE Steps /\ UNCHANGED <<path, pattern, len_path>>
  <2>1. CASE MatchSymbol
    BY <1>1, <2>1, MatchSymbolInv
  <2>2. CASE MatchWildcard
    BY <1>1, <2>2, MatchWildcardInv
  <2>3. CASE EnterDescendant
    BY <1>1, <2>3, EnterDescendantInv
  <2>4. CASE WidenDescendant
    BY <1>1, <2>4, WidenDescendantInv
  <2>5. CASE Fail
    <3>1. s' = s /\ match' \in {"calling", "MATCH", "MISMATCH"}
      BY <2>5 DEF Fail
    <3> QED
      BY <1>1, <3>1, Positions, StepKeeps
  <2>6. CASE NeedMore
    <3>1. s' = s /\ match' = "INCOMPLETE"
          /\ ~(s.ppos_ < len_path /\ s.desc_ppos_ < len_path)
      BY <2>6 DEF NeedMore, CanRead
    <3>2. State' = State
      BY <1>1 DEF State, NoDescendant
    <3>3. Starved'
      BY <1>1, <3>1, Positions DEF Starved
    <3> QED
      BY <1>1, <3>1, <3>2, <3>3 DEF Inv, TypeOK, Shown
  <2>7. CASE Finish
    BY <1>1, <2>7, FinishInv
  <2> QED
    BY <1>1, <2>1, <2>2, <2>3, <2>4, <2>5, <2>6, <2>7 DEF Steps
<1>2. CASE CallAgain
  <2>1. /\ len_path' \in (len_path + 1)..Len(path) /\ match' = "calling"
        /\ path' = path /\ pattern' = pattern /\ s' = s
    BY <1>2 DEF CallAgain
  <2>2. State' = State
    BY <2>1 DEF State, NoDescendant
  <2>3. len_path' \in 0..Len(path) /\ len_path <= len_path'
    BY <2>1, Positions
  <2>4. s.ppos_ <= len_path' /\ s.desc_ppos_ <= len_path'
    BY <2>3, Positions
  <2> QED
    BY <2>1, <2>2, <2>3, <2>4 DEF Inv, TypeOK, Shown, Starved
<1>3. CASE UNCHANGED vars
  <2>1. State' = State
    BY <1>3 DEF vars, State, NoDescendant
  <2> QED
    BY <1>3, <2>1 DEF vars, Inv, TypeOK, Shown, Starved
<1> QED
  BY <1>1, <1>2, <1>3 DEF Next

LEMMA InvCorrect == Spec => []Inv
<1> QED
  BY InitInv, NextInv, PTL DEF Spec

-----------------------------------------------------------------------------
\* The positions in the path never pass its null byte, those in the pattern
\* never its end (path_matcher.cpp:13-53, none of the reads is checked).
THEOREM PositionsCorrect == Spec => []TypeOK
<1>1. Inv => TypeOK
  BY DEF Inv
<1> QED
  BY <1>1, InvCorrect, PTL

\* A call with the complete path never returns INCOMPLETE, so a leaf is decided
\* (query.cpp:57 asserts it).
THEOREM DecidesCorrect == Spec => []CompletePathDecided
<1>1. Inv => CompletePathDecided
  <2> SUFFICES ASSUME Inv, match = "INCOMPLETE" PROVE len_path < Len(path)
    BY DEF CompletePathDecided
  <2>1. s.ppos_ >= len_path \/ s.desc_ppos_ >= len_path
    BY DEF Inv, Starved
  <2> QED
    BY <2>1, Positions
<1> QED
  BY <1>1, InvCorrect, PTL

-----------------------------------------------------------------------------
(* The matcher gives the right verdict.                                     *)

AxesFollowed == \A p \in Patterns : BehindAxis(p)

\* The matcher knows what Knows says, and its answer is still right when it is
\* not asked any more.
VerdictInv == Inv /\ Knows(path, pattern, len_path, s, match)

LEMMA Encoded ==
  ASSUME Inv, AxesFollowed
  PROVE  WordOK(path) /\ PatternOK(pattern) /\ len_path \in 0..Len(path)
<1>1. path \in FullPaths /\ pattern \in Patterns /\ len_path \in 0..Len(path)
  BY DEF Inv, TypeOK
<1>2. path \in Seq(PathByte) /\ Len(path) \in Nat /\ Len(path) >= 2
      /\ \A k \in 0..(Len(path) - 1) : path[k + 1] = kNullByte <=> k = Len(path) - 1
  BY <1>1, PathAssumption, PathShape DEF PathAt
<1>3. WordOK(path)
  BY <1>2 DEF WordOK
<1>4. pattern \in Seq(Letter \cup {kPathSep, Wildcard, Descendant}) /\ Len(pattern) \in Nat
  BY <1>1, PatternAssumption
<1>5. kNullByte \notin Letter \cup {kPathSep, Wildcard, Descendant}
  BY SpecialAssumption DEF PathByte
<1>6. \A n \in 1..Len(pattern) : pattern[n] # kNullByte
  BY <1>4, <1>5
<1>7. PatternOK(pattern)
  BY <1>1, <1>4, <1>6 DEF PatternOK, AxesFollowed
<1> QED BY <1>1, <1>3, <1>7

\* An iteration of the loop is a step of the relation Takes.
LEMMA StepsTake ==
  ASSUME Inv, Steps
  PROVE  match = "calling" /\ Takes(path, pattern, len_path, s, s', match')
<1> DEFINE w == path
           p == pattern
           i == s.ppos_
           q == s.qpos_
           x == s.desc_ppos_
           d == s.desc_qpos_
<1>1. match = "calling"
  BY DEF Steps, MatchSymbol, MatchWildcard, EnterDescendant, WidenDescendant, Fail, NeedMore,
         Finish, NoSymbol, Looping
<1>2. /\ i \in Int /\ q \in Int /\ x \in Int /\ d \in Int /\ Len(p) \in Nat
      /\ s = [ppos_ |-> i, qpos_ |-> q, desc_ppos_ |-> x, desc_qpos_ |-> d]
  BY Positions
<1>3. Looping => i < len_path /\ x < len_path /\ w[i + 1] # kNullByte
  BY DEF Looping, CanRead, PathAt
<1>4. NoSymbol => Rejects(w, p, i, q)
  BY DEF NoSymbol, Rejects, Expects, AtDescendant, PathAt
<1> HIDE DEF w, p, i, q, x, d
<1>5. ASSUME Looping, Accepts(w, p, i, q, x, d, s'), match' = match
      PROVE  Takes(path, pattern, len_path, s, s', match')
  BY <1>1, <1>3, <1>5 DEF Takes, w, p, i, q, x, d
<1>6. CASE MatchSymbol
  <2>1. Looping /\ q < Len(p) /\ p[q + 1] = w[i + 1] /\ match' = match
        /\ s' = [s EXCEPT !.ppos_ = @ + 1, !.qpos_ = @ + 1]
    BY <1>6 DEF MatchSymbol, Expects, PathAt, w, p, i, q
  <2>2. s' = At(i + 1, q + 1, x, d)
    BY <1>2, <2>1 DEF At
  <2>3. Accepts(w, p, i, q, x, d, s')
    BY <2>1, <2>2 DEF Accepts
  <2> QED BY <1>1, <1>5, <2>1, <2>3
<1>7. CASE MatchWildcard
  <2>1. Looping /\ q < Len(p) /\ p[q + 1] = Wildcard /\ match' = match
        /\ s' = IF w[i + 1] = kPathSep THEN [s EXCEPT !.qpos_ = @ + 1]
                                       ELSE [s EXCEPT !.ppos_ = @ + 1]
    BY <1>7 DEF MatchWildcard, Expects, PathAt, w, p, i, q
  <2>2. CASE w[i + 1] = kPathSep
    <3>1. s' = At(i, q + 1, x, d)
      BY <1>2, <2>1, <2>2 DEF At
    <3>2. Accepts(w, p, i, q, x, d, s')
      BY <2>1, <2>2, <3>1 DEF Accepts
    <3> QED BY <1>1, <1>5, <2>1, <3>2
  <2>3. CASE w[i + 1] # kPathSep
    <3>1. s' = At(i + 1, q, x, d)
      BY <1>2, <2>1, <2>3 DEF At
    <3>2. Accepts(w, p, i, q, x, d, s')
      BY <2>1, <2>3, <3>1 DEF Accepts
    <3> QED BY <1>1, <1>5, <2>1, <3>2
  <2> QED BY <2>2, <2>3
<1>8. CASE EnterDescendant
  <2>1. Looping /\ q < Len(p) /\ p[q + 1] = Descendant /\ w[i + 1] = kPathSep /\ match' = match
        /\ s' = [ppos_ |-> i + 1, qpos_ |-> q + 1, desc_ppos_ |-> i + 1, desc_qpos_ |-> q]
    BY <1>8 DEF EnterDescendant, AtDescendant, Expects, PathAt, w, p, i, q
  <2>2. s' = At(i + 1, q + 1, i + 1, q)
    BY <2>1 DEF At
  <2>3. Accepts(w, p, i, q, x, d, s')
    BY <2>1, <2>2 DEF Accepts
  <2> QED BY <1>1, <1>5, <2>1, <2>3
<1>9. CASE WidenDescendant
  <2>1. Looping /\ Rejects(w, p, i, q) /\ d # -1 /\ match' = match /\ s' = Widen
    BY <1>4, <1>9 DEF WidenDescendant, NoSymbol, NoDescendant, d
  <2>2. Widens(w, p, i, q, x, d, s')
    <3>1. CASE w[x + 1] = kPathSep
      <4>1. s' = [s EXCEPT !.ppos_ = x + 1, !.qpos_ = d + 1, !.desc_ppos_ = @ + 1]
        BY <2>1, <3>1, SpecialAssumption DEF Widen, PathAt, w, x, d
      <4>2. s' = At(x + 1, d + 1, x + 1, d)
        BY <1>2, <4>1 DEF At
      <4> QED BY <3>1, <4>2 DEF Widens
    <3>2. CASE w[x + 1] = kNullByte
      <4>1. s' = [s EXCEPT !.ppos_ = x, !.qpos_ = d + 1]
        BY <2>1, <3>2, SpecialAssumption DEF Widen, PathAt, w, x, d
      <4>2. s' = At(x, d + 1, x, d)
        BY <1>2, <4>1 DEF At
      <4> QED BY <3>2, <4>2 DEF Widens
    <3>3. CASE w[x + 1] # kPathSep /\ w[x + 1] # kNullByte
      <4>1. s' = [s EXCEPT !.desc_ppos_ = @ + 1]
        BY <2>1, <3>3 DEF Widen, PathAt, w, x, d
      <4>2. s' = At(i, q, x + 1, d)
        BY <1>2, <4>1 DEF At
      <4> QED BY <3>3, <4>2 DEF Widens
    <3> QED BY <3>1, <3>2, <3>3
  <2> QED BY <1>1, <1>3, <2>1, <2>2 DEF Takes, w, p, i, q, x, d
<1>10. CASE Fail
  <2>1. Looping /\ Rejects(w, p, i, q) /\ d = -1 /\ match' = "MISMATCH" /\ s' = s
    BY <1>4, <1>10 DEF Fail, NoSymbol, NoDescendant, d
  <2> QED BY <1>1, <1>3, <2>1 DEF Takes, w, p, i, q, x, d
<1>11. CASE NeedMore
  <2>1. ~ (i < len_path /\ x < len_path) /\ s' = s /\ match' = "INCOMPLETE"
    BY <1>11 DEF NeedMore, CanRead, i, x
  <2> QED BY <1>1, <2>1 DEF Takes, i, x
<1>12. CASE Finish
  <2> DEFINE b == BehindWildcard
             z == EndTrailing(b)
  <2>1. /\ i < len_path /\ x < len_path /\ w[i + 1] = kNullByte
        /\ s' = [s EXCEPT !.qpos_ = z]
        /\ match' = IF s'.qpos_ = Len(p) THEN "MATCH" ELSE "MISMATCH"
    BY <1>12 DEF Finish, CanRead, PathAt, w, p, i, x
  <2>2. s'.qpos_ = z
    BY <1>2, <2>1
  <2>3. b = IF q < Len(p) /\ p[q + 1] = Wildcard /\ w[i] # kPathSep THEN q + 1 ELSE q
    <3>1. (i - 1) + 1 = i
      BY <1>2
    <3> QED BY <3>1 DEF BehindWildcard, Expects, PathAt, w, p, i, q
  <2> HIDE DEF b
  <2>4. z = RestFrom(w, p, i, q)
    BY <2>3 DEF EndTrailing, RestFrom, TrailingEnd, p
  <2> HIDE DEF z
  <2>5. s' = At(i, z, x, d)
    BY <1>2, <2>1 DEF At
  <2> QED BY <1>1, <2>1, <2>2, <2>4, <2>5 DEF Takes, w, p, i, q, x, d
<1> QED
  BY <1>1, <1>6, <1>7, <1>8, <1>9, <1>10, <1>11, <1>12 DEF Steps

LEMMA VerdictInit == AxesFollowed /\ Init => VerdictInv
<1> SUFFICES ASSUME AxesFollowed, Init PROVE VerdictInv
  OBVIOUS
<1>1. Inv
  BY InitInv
<1>2. WordOK(path) /\ PatternOK(pattern)
  BY <1>1, Encoded
<1>3. match = "calling" /\ len_path = 0 /\ s = At(0, 0, 0, -1)
  BY DEF Init, InitialState, NoDescendant, At
<1> QED BY <1>1, <1>2, <1>3, KnowsAtFirst DEF VerdictInv

LEMMA VerdictNext == AxesFollowed /\ VerdictInv /\ [Next]_vars => VerdictInv'
<1> SUFFICES ASSUME AxesFollowed, VerdictInv, [Next]_vars PROVE VerdictInv'
  OBVIOUS
<1>1. Inv /\ Inv' /\ Knows(path, pattern, len_path, s, match)
  BY NextInv DEF VerdictInv
<1>2. WordOK(path) /\ PatternOK(pattern) /\ len_path \in 0..Len(path)
  BY <1>1, Encoded
<1>3. CASE Steps /\ UNCHANGED <<path, pattern, len_path>>
  <2>1. match = "calling" /\ Takes(path, pattern, len_path, s, s', match')
    BY <1>1, <1>3, StepsTake
  <2>2. Knows(path, pattern, len_path, s', match')
    BY <1>1, <1>2, <2>1, TakesKnows
  <2> QED BY <1>1, <1>3, <2>2 DEF VerdictInv
<1>4. CASE CallAgain
  <2>1. /\ match = "INCOMPLETE" /\ match' = "calling" /\ path' = path /\ pattern' = pattern
        /\ s' = s /\ len_path' \in (len_path + 1)..Len(path)
    BY <1>4 DEF CallAgain
  <2>2. Len(path) \in Nat /\ len_path' \in len_path..Len(path)
    BY <1>2, <2>1 DEF WordOK
  <2>3. Knows(path, pattern, len_path', s, "calling")
    BY <1>1, <1>2, <2>1, <2>2, ShownMore
  <2> QED BY <1>1, <2>1, <2>3 DEF VerdictInv
<1>5. CASE UNCHANGED vars
  BY <1>1, <1>5 DEF vars, VerdictInv
<1> QED BY <1>3, <1>4, <1>5 DEF Next

LEMMA VerdictInvCorrect ==
  ASSUME AxesFollowed
  PROVE  Spec => []VerdictInv
<1> QED BY VerdictInit, VerdictNext, PTL DEF Spec

\* Every verdict is the meaning of the pattern, whatever the path, the pattern
\* and the pieces in which the path arrives (path_matcher.cpp:6-86): although
\* the matcher goes back to the last descendant axis only, and gives up at the
\* end of the path without going back at all.
THEOREM VerdictCorrect ==
  ASSUME AxesFollowed
  PROVE  Spec => []VerdictExact
<1>1. VerdictInv => VerdictExact
  BY DEF VerdictInv, Knows, VerdictExact
<1> QED BY <1>1, VerdictInvCorrect, PTL

\* As long as no descendant axis has been met and none is next, a path that
\* matches can only go on with the byte of the pattern: the query may look for
\* this one child (query.cpp:188-208).
THEOREM OneByteCorrect ==
  ASSUME AxesFollowed
  PROVE  Spec => []OneByteCanFollow
<1>1. VerdictInv => OneByteCanFollow
  <2> SUFFICES ASSUME VerdictInv, match = "INCOMPLETE", s.desc_qpos_ = NoDescendant,
                      ~ Expects(Wildcard), ~ Expects(Descendant), Matches(path, pattern)
               PROVE  IF s.qpos_ < Len(pattern) THEN Expects(PathAt(len_path))
                                               ELSE PathAt(len_path) = kNullByte
    BY DEF OneByteCanFollow
  <2>1. WordOK(path) /\ PatternOK(pattern) /\ len_path \in 0..Len(path)
    BY Encoded DEF VerdictInv
  <2>2. Knows(path, pattern, len_path, s, "INCOMPLETE") /\ s.desc_qpos_ = -1
    BY DEF VerdictInv, NoDescendant
  <2>3. s.qpos_ < Len(pattern)
        => pattern[s.qpos_ + 1] # Wildcard /\ pattern[s.qpos_ + 1] # Descendant
    BY DEF Expects
  <2>4. IF s.qpos_ < Len(pattern) THEN path[len_path + 1] = pattern[s.qpos_ + 1]
                                  ELSE path[len_path + 1] = kNullByte
    BY <2>1, <2>2, <2>3, OneByteFollows
  <2> QED BY <2>4 DEF Expects, PathAt
<1> QED BY <1>1, VerdictInvCorrect, PTL
=============================================================================
