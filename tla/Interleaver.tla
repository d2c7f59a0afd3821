---------------------------- MODULE Interleaver ----------------------------
(***************************************************************************)
(* The four static interleavings of a two-dimensional key (interleaver.cpp): *)
(* sequences of bytes, each with the dimension it comes from.              *)
(***************************************************************************)
EXTENDS Integers, Sequences

CONSTANT kPathSep

Tagged(s, d) == [i \in DOMAIN s |-> [byte |-> s[i], dimension |-> d]]

PathValue(k) == Tagged(k.path, "Path") \o Tagged(k.value, "Value")
ValuePath(k) == Tagged(k.value, "Value") \o Tagged(k.path, "Path")

CeilDiv(a, b) == (a + b - 1) \div b
Bound(n, len) == IF n < len THEN n ELSE len

\* The bytes n+1..m of s, as far as s has them.
Slice(s, n, m) == SubSeq(s, Bound(n, Len(s)) + 1, Bound(m, Len(s)))

\* Runs of value and path bytes in turn; the longer string has longer runs.
ZOrder(k) ==
  LET p_run_len == CeilDiv(Len(k.path), Len(k.value))
      v_run_len == CeilDiv(Len(k.value), Len(k.path))
      Rounds[r \in 0..Bound(Len(k.path), Len(k.value))] ==
        IF r = 0 THEN <<>>
        ELSE Rounds[r - 1]
               \o Tagged(Slice(k.value, (r - 1) * v_run_len, r * v_run_len), "Value")
               \o Tagged(Slice(k.path, (r - 1) * p_run_len, r * p_run_len), "Path")
  IN  Rounds[Bound(Len(k.path), Len(k.value))]

\* Defect: the label is taken to reach to the last separator of the path.
LabelEndLast(path, p) ==
  LET seps == {e \in (p + 2)..Len(path) : path[e] = kPathSep}
  IN  IF p >= Len(path) \/ seps = {} THEN Len(path)
      ELSE CHOOSE e \in seps : \A f \in seps : f <= e

\* take_path_label: from position p to behind the next separator, which is not
\* the byte at p itself, or to the end.
LabelEnd(path, p) ==
  LET seps == {e \in (p + 2)..Len(path) : path[e] = kPathSep}
  IN  IF p >= Len(path) \/ seps = {} THEN Len(path)
      ELSE CHOOSE e \in seps : \A f \in seps : e <= f

\* A path label and a value byte in turn.
LabelWise(k) ==
  LET rounds == Len(k.path) + Len(k.value)
      Ends[r \in 0..rounds] == IF r = 0 THEN 0 ELSE LabelEnd(k.path, Ends[r - 1])
      Rounds[r \in 0..rounds] ==
        IF r = 0 THEN <<>>
        ELSE Rounds[r - 1] \o Tagged(SubSeq(k.path, Ends[r - 1] + 1, Ends[r]), "Path")
                           \o Tagged(Slice(k.value, r - 1, r), "Value")
  IN  Rounds[rounds]

IndexType == {"PathValue", "ValuePath", "LabelWise", "ZOrder"}

Interleave(k, type) ==
  CASE type = "PathValue" -> PathValue(k)
    [] type = "ValuePath" -> ValuePath(k)
    [] type = "LabelWise" -> LabelWise(k)
    [] type = "ZOrder"    -> ZOrder(k)
=============================================================================
