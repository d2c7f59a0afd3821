---------------------------- MODULE SurrogateCas ----------------------------
(***************************************************************************)
(* SurrogateCas (surrogate_cas.cpp): an index whose paths are sequences of *)
(* labels.  The facade translates them byte by byte into keys of module    *)
(* BulkLoad and patterns of the SurrogatePathMatcher; every label that is  *)
(* translated is a step, because it may extend the map.                     *)
(***************************************************************************)
EXTENDS BulkLoad, SurrogatePathMatcher

CONSTANTS LabelPaths,   \* the paths of keys: sequences of labels
          Patterns,     \* the patterns of queries: sequences of labels and axes
          LabelDeques,  \* the deques of keys that are loaded
          MaxCalls,     \* bound: insertions that begin
          MaxQueries    \* bound: queries

Wildcard   == "?"
Descendant == "^"

VARIABLES job,        \* what the facade is encoding
          skey,       \* the encoded pattern of the last query, with the pattern
          nr_queries, nr_calls,
          inserted    \* history: the references inserted under each path and value

fvars == <<job, skey, nr_queries, nr_calls, inserted>>
allvars == <<vars, lvars, counter, map, fvars>>

LKey == [path : LabelPaths, value : Values]

NoJob == [op |-> "none", keys |-> <<>>, rest |-> <<>>, bytes |-> <<>>, done |-> <<>>]

FacadeInit ==
  /\ CasInit /\ SurrogateInit
  /\ job = NoJob /\ nr_queries = 0 /\ nr_calls = 0
  /\ skey = [pattern |-> <<>>, bytes |-> <<>>]
  /\ inserted = [k \in LKey |-> <<>>]

-----------------------------------------------------------------------------
Idle == pc = "idle" /\ todo = {} /\ job = NoJob

\* Insert and BulkLoad first encode the keys one after the other, Query the
\* labels of its pattern.
BeginInsert(k, r) ==
  /\ Idle /\ nr_keys < MaxKeys /\ nr_calls < MaxCalls
  /\ nr_calls' = nr_calls + 1
  /\ job' = [NoJob EXCEPT !.op = "Insert", !.rest = k.path,
                          !.keys = <<[path |-> k.path, value |-> k.value, ref |-> r]>>]
  /\ UNCHANGED <<vars, lvars, counter, map, skey, nr_queries, inserted>>

BeginBulkLoad(ks) ==
  /\ Idle /\ nr_loads < MaxLoads
  /\ job' = [NoJob EXCEPT !.op = "BulkLoad", !.rest = ks[1].path, !.keys = ks]
  /\ UNCHANGED <<vars, lvars, counter, map, skey, nr_queries, nr_calls, inserted>>

BeginQuery(pattern) ==
  /\ Idle /\ nr_queries < MaxQueries
  /\ nr_queries' = nr_queries + 1
  /\ job' = [NoJob EXCEPT !.op = "Query", !.rest = pattern]
  /\ skey' = [pattern |-> pattern, bytes |-> <<>>]
  /\ UNCHANGED <<vars, lvars, counter, map, nr_calls, inserted>>

\* An axis of a pattern is copied; a label is mapped, even if only a query
\* mentions it.
EncodeAxis ==
  /\ job.op = "Query" /\ job.rest # <<>> /\ Head(job.rest) \in {Wildcard, Descendant}
  /\ job' = [job EXCEPT !.rest = Tail(@)]
  /\ skey' = [skey EXCEPT !.bytes = Append(@, [mask |-> IF Head(job.rest) = Wildcard
                                                       THEN "Wildcard" ELSE "Descendant"])]
  /\ UNCHANGED <<vars, lvars, counter, map, nr_queries, nr_calls, inserted>>

EncodeLabel ==
  /\ job.op # "none" /\ job.rest # <<>> /\ Head(job.rest) \in LabelName
  /\ MapLabel(Head(job.rest))
  /\ LET code == Code(map'[Head(job.rest)]) IN
     IF job.op = "Query"
     THEN /\ job' = [job EXCEPT !.rest = Tail(@)]
          /\ skey' = [skey EXCEPT !.bytes =
               @ \o [i \in DOMAIN code |-> [mask |-> "Label", byte |-> code[i]]]]
     ELSE /\ job' = [job EXCEPT !.rest = Tail(@), !.bytes = @ \o code]
          /\ skey' = skey
  /\ UNCHANGED <<vars, lvars, nr_queries, nr_calls, inserted>>

Current == job.keys[Len(job.done) + 1]
Encoded == [Current EXCEPT !.path = Padded(job.bytes)]

\* The path is padded; the next key of a deque follows.
NextKey ==
  /\ job.op = "BulkLoad" /\ job.rest = <<>> /\ Len(job.done) + 1 < Len(job.keys)
  /\ job' = [job EXCEPT !.rest = job.keys[Len(job.done) + 2].path, !.bytes = <<>>,
                        !.done = Append(@, Encoded)]
  /\ UNCHANGED <<vars, lvars, counter, map, skey, nr_queries, nr_calls, inserted>>

CallInsert ==
  /\ job.op = "Insert" /\ job.rest = <<>>
  /\ LET k == KeyOf(<<Encoded>>, 1) IN
     InsertFirst(k, Encoded.ref) \/ Begin(k, Encoded.ref)
  /\ inserted' = [inserted EXCEPT ![KeyOf(job.keys, 1)] = Append(@, Current.ref)]
  /\ job' = NoJob
  /\ UNCHANGED <<lvars, counter, map, skey, nr_queries, nr_calls>>

CallBulkLoad ==
  /\ job.op = "BulkLoad" /\ job.rest = <<>> /\ Len(job.done) + 1 = Len(job.keys)
  /\ StartLoad(Append(job.done, Encoded))
  /\ inserted' = [l \in LKey |->
                    RefsOf(job.keys, {i \in DOMAIN job.keys : KeyOf(job.keys, i) = l})]
  /\ job' = NoJob
  /\ UNCHANGED <<counter, map, skey, nr_queries, nr_calls>>

\* The search itself changes nothing.
CallQuery ==
  /\ job.op = "Query" /\ job.rest = <<>>
  /\ job' = NoJob
  /\ UNCHANGED <<vars, lvars, counter, map, skey, nr_queries, nr_calls, inserted>>

Dispatch == CallInsert \/ CallBulkLoad \/ CallQuery
Encode == EncodeAxis \/ EncodeLabel \/ NextKey
IndexSteps == (LocateSteps /\ UNCHANGED lvars) \/ Construct

FacadeSteps ==
  \/ Encode
  \/ Dispatch
  \/ IndexSteps /\ UNCHANGED <<counter, map, fvars>>

FacadeNext ==
  \/ \E k \in LKey, r \in Ref : BeginInsert(k, r)
  \/ \E ks \in LabelDeques : BeginBulkLoad(ks)
  \/ \E pattern \in Patterns : BeginQuery(pattern)
  \/ FacadeSteps

\* The program is sequential: a call that has begun runs on.
FacadeSpec == /\ FacadeInit /\ [][FacadeNext]_allvars
              /\ WF_allvars(FacadeSteps)

-----------------------------------------------------------------------------
\* As long as the codes last, a label has a code of its own, which is not the
\* padding, for ever and whoever mentioned it first.
InRange == counter < Base^BytesPerLabel

Deep(path) == Len(path) > MaxDepth

\* Padding stands for labels behind the end of a path.
FilledUp(path) == path \o [i \in 1..(MaxDepth - Len(path)) |-> NoLabel]

\* What a pattern means: an axis "?" takes one label or one place of the
\* padding, "^" any number of them; at the end of the pattern it takes at least
\* one.  What is left of the path is padding.
Matches(pattern, path) ==
  LET P == FilledUp(path)
      M[q \in 0..Len(pattern), p \in 0..MaxDepth] ==
        IF q = Len(pattern) THEN \A i \in (p + 1)..MaxDepth : P[i] = NoLabel
        ELSE LET item == pattern[q + 1] IN
             IF item = Descendant
             THEN \E t \in p..MaxDepth : (q + 1 = Len(pattern) => t > p) /\ M[q + 1, t]
             ELSE p < MaxDepth /\ (item = Wildcard \/ item = P[p + 1]) /\ M[q + 1, p + 1]
  IN  M[0, 0]

PathCode(path) ==
  LET bytes[n \in 0..Len(path)] == IF n = 0 THEN <<>> ELSE bytes[n - 1] \o Code(map[path[n]])
  IN  Padded(bytes[Len(path)])

\* The code of path s is a proper prefix of that of path t.
GoesOn(s, t) ==
  LET c == PathCode(s)
      d == PathCode(t)
  IN  Len(c) < Len(d) /\ SubSeq(d, 1, Len(c)) = c

Known(path) == \A i \in DOMAIN path : path[i] \in DOMAIN map

\* After a query has been encoded, the matcher decides every path that is not
\* too deep as the labels of the path and the pattern require, in one call or
\* in two: it never excludes a path that matches, nor is it ever too late.
MatcherExact ==
  job = NoJob /\ InRange =>
    \A path \in {path \in LabelPaths : ~Deep(path) /\ Known(path)}, cut \in 0..NrBytes :
      LET code == PathCode(path)
          m == Matches(skey.pattern, path)
          first == MatchPathIncremental(code, skey.bytes, cut, StartState)
          second == MatchPathIncremental(code, skey.bytes, NrBytes, first.state)
      IN  CASE first.verdict = "INCOMPLETE" -> second.verdict = IF m THEN "MATCH" ELSE "MISMATCH"
            [] first.verdict = "MATCH"      -> m
            [] first.verdict = "MISMATCH"   -> ~m
=============================================================================
