----------------------- MODULE SurrogatePathMatcher -----------------------
(***************************************************************************)
(* SurrogatePathMatcher::MatchPathIncremental.  A pattern is a sequence of *)
(* label bytes and axes, each with its mask; positions count from 0.       *)
(***************************************************************************)
EXTENDS Surrogate

NoDescendant == -1

StartState == [ppos |-> 0, qpos |-> 0, desc_ppos |-> 0, desc_qpos |-> NoDescendant]

\* Defect: the widened match begins at every byte, not only at a label.
WidenUnaligned(s) ==
  [s EXCEPT !.ppos = s.desc_ppos + 1, !.qpos = s.desc_qpos + 1, !.desc_ppos = @ + 1]

\* The last descendant axis takes one byte more; the match goes on behind it
\* where the next label begins.
Widen(s) ==
  IF (s.desc_ppos + 1) % BytesPerLabel = 0
  THEN [s EXCEPT !.ppos = s.desc_ppos + 1, !.qpos = s.desc_qpos + 1, !.desc_ppos = @ + 1]
  ELSE [s EXCEPT !.desc_ppos = @ + 1]

InLoop(s, len) == s.ppos < len /\ s.desc_ppos < len

\* One iteration; no state if it returns MISMATCH.
Iterate(path, skey, s) ==
  LET byte == path[s.ppos + 1]
      ended == s.qpos = Len(skey)
      mask == IF ended THEN "End" ELSE skey[s.qpos + 1].mask
  IN  CASE mask = "Label" /\ skey[s.qpos + 1].byte = byte ->
             {[s EXCEPT !.ppos = @ + 1, !.qpos = @ + 1]}
        [] mask = "Wildcard" ->
             {[s EXCEPT !.ppos = @ + 1,
                        !.qpos = IF (s.ppos + 1) % BytesPerLabel = 0 THEN @ + 1 ELSE @]}
        [] mask = "Descendant" /\ s.ppos % BytesPerLabel = 0 ->
             {[s EXCEPT !.desc_ppos = s.ppos, !.desc_qpos = s.qpos, !.qpos = @ + 1]}
        [] ended /\ byte = 0 -> {[s EXCEPT !.ppos = @ + 1]}
        [] OTHER -> IF s.desc_qpos # NoDescendant THEN {Widen(s)} ELSE {}

\* The verdict for the first len bytes of path and the state left behind.
RECURSIVE MatchPathIncremental(_, _, _, _)
MatchPathIncremental(path, skey, len, s) ==
  IF InLoop(s, len)
  THEN IF Iterate(path, skey, s) = {} THEN [verdict |-> "MISMATCH", state |-> s]
       ELSE MatchPathIncremental(path, skey, len, CHOOSE t \in Iterate(path, skey, s) : TRUE)
  ELSE [verdict |-> IF InLoop(s, NrBytes) THEN "INCOMPLETE"
                    ELSE IF s.qpos = Len(skey) THEN "MATCH" ELSE "MISMATCH",
        state |-> s]
=============================================================================
