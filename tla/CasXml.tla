------------------------------- MODULE CasXml -------------------------------
(***************************************************************************)
(* CasXml (casxml.cpp): a B+ tree of values whose entries carry a number,  *)
(* the pcr, that stands for the path, and a data guide, a Cas that maps     *)
(* paths to their pcrs.  The data guide is looked up with the path itself   *)
(* as the pattern of a query.  Paths and patterns are abstract here: what a *)
(* pattern denotes, and when the query of Cas reads behind its end, is the  *)
(* subject of the modules PathMatcher and Query.                            *)
(***************************************************************************)
EXTENDS Integers, Sequences

CONSTANTS PathName,   \* paths
          Pattern,    \* patterns of queries; every path is one, too
          Denotes,    \* the paths a pattern matches
          Extends,    \* the pairs of a path and a longer path that begins with it
          PlainEnd,   \* the patterns that end with a label and have no "^"
          XValues, XRefs   \* values and references of the keys

ASSUME XmlAssumption ==
  /\ PathName \subseteq Pattern
  /\ Denotes \in [Pattern -> SUBSET PathName]
  /\ Extends \subseteq PathName \X PathName /\ PlainEnd \subseteq Pattern

VARIABLES data_guide,  \* the pcrs of each path, in the order of the leaf
          btree,       \* the entries of each value, in the order of the tree
          max_pcr,
          doomed       \* the argument of the Delete that is running, if any

xvars == <<data_guide, btree, max_pcr, doomed>>

NoDelete == [value |-> 0, ref |-> 0]

XmlInit ==
  /\ data_guide = [p \in PathName |-> <<>>]
  /\ btree = [v \in XValues |-> <<>>]
  /\ max_pcr = 0
  /\ doomed = NoDelete

Elements(s) == {s[i] : i \in DOMAIN s}
Pcrs(path) == Elements(data_guide[path])

-----------------------------------------------------------------------------
\* Cas::Query on the data guide.  Where a matched path ends at a branch and the
\* pattern with it, the query reads one byte behind the pattern
\* (query.cpp:208): it finds the path or it does not.
Stored == {p \in PathName : data_guide[p] # <<>>}
AtBranch(p) == \E q \in Stored : <<p, q>> \in Extends

MayMiss(pattern) ==
  IF pattern \in PlainEnd THEN {p \in Denotes[pattern] \cap Stored : AtBranch(p)} ELSE {}

QueryDataGuide(pattern) ==
  {UNION {Pcrs(p) : p \in (Denotes[pattern] \cap Stored) \ missed} :
     missed \in SUBSET MayMiss(pattern)}

\* btree_multimap::insert2 (external): somewhere among the entries with the
\* same value.
InsertAt(s, i, e) == SubSeq(s, 1, i - 1) \o <<e>> \o SubSeq(s, i, Len(s))

Insert2(value, e) ==
  \E i \in 1..(Len(btree[value]) + 1) :
    btree' = [btree EXCEPT ![value] = InsertAt(@, i, e)]

\* The path is no part of the entry: the properties compare with it.
Entry(pcr, ref, path) == [pcr |-> pcr, ref |-> ref, path |-> path]

\* Defect: a new path gets the last number again.
InsertOldPcr(path, value, ref) ==
  \E found \in QueryDataGuide(path) :
    \/ /\ found # {}
       /\ \E pcr \in found : Insert2(value, Entry(pcr, ref, path))
       /\ UNCHANGED <<data_guide, max_pcr, doomed>>
    \/ /\ found = {}
       /\ max_pcr' = IF max_pcr = 0 THEN 1 ELSE max_pcr
       /\ data_guide' = [data_guide EXCEPT ![path] = Append(@, max_pcr')]
       /\ Insert2(value, Entry(max_pcr', ref, path))
       /\ doomed' = doomed

\* Insert and ComputePcr: the pcr is the last one the query emits, in whatever
\* order; if there is none the path gets a new one.
XInsert(path, value, ref) ==
  \E found \in QueryDataGuide(path) :
    \/ /\ found # {}
       /\ \E pcr \in found : Insert2(value, Entry(pcr, ref, path))
       /\ UNCHANGED <<data_guide, max_pcr, doomed>>
    \/ /\ found = {}
       /\ max_pcr' = max_pcr + 1
       /\ data_guide' = [data_guide EXCEPT ![path] = Append(@, max_pcr')]
       /\ Insert2(value, Entry(max_pcr', ref, path))
       /\ doomed' = doomed

BeginDelete(value, ref) ==
  /\ doomed = NoDelete
  /\ doomed' = [value |-> value, ref |-> ref]
  /\ UNCHANGED <<data_guide, btree, max_pcr>>

Equals == btree[doomed.value]

\* Defect: the entries with other references are erased.
DeleteOthers ==
  /\ doomed # NoDelete /\ Equals # <<>>
  /\ btree' = IF Head(Equals).ref # doomed.ref
              THEN [btree EXCEPT ![doomed.value] = Tail(@)] ELSE btree
  /\ UNCHANGED <<data_guide, max_pcr, doomed>>

\* One iteration of Delete: find returns the first entry with the value.  If it
\* has another reference nothing changes, and the next find returns it again.
DeleteFound ==
  /\ doomed # NoDelete /\ Equals # <<>>
  /\ btree' = IF Head(Equals).ref = doomed.ref
              THEN [btree EXCEPT ![doomed.value] = Tail(@)] ELSE btree
  /\ UNCHANGED <<data_guide, max_pcr, doomed>>

DeleteDone ==
  /\ doomed # NoDelete /\ Equals = <<>>
  /\ doomed' = NoDelete
  /\ UNCHANGED <<data_guide, btree, max_pcr>>

DeleteSteps == DeleteFound \/ DeleteDone

-----------------------------------------------------------------------------
AllEntries == UNION {Elements(btree[v]) : v \in XValues}

\* No path that holds the symbol of an axis was inserted: such a path denotes
\* others, and ComputePcr may give it the pcr of one of them.
OnlyPlainPaths ==
  /\ \A e \in AllEntries : Denotes[e.path] = {e.path}
  /\ \A p \in Stored : Denotes[p] = {p}

\* A query finds the entries by the pcrs of the paths that match.  With plain
\* paths no entry is ever found under a path it was not inserted under, even if
\* a path has got several pcrs because the data guide missed it; and none is
\* lost unless the data guide misses its path now.
XmlQueryExact ==
  OnlyPlainPaths =>
    \A pattern \in Pattern : \A pcrs \in QueryDataGuide(pattern) : \A e \in AllEntries :
      /\ e.pcr \in pcrs => /\ e.path \in Denotes[pattern]
                           /\ \A p \in Stored : e.pcr \in Pcrs(p) => p = e.path
      /\ e.path \in Denotes[pattern] \ MayMiss(pattern) => e.pcr \in pcrs

Deleting == doomed # NoDelete
DeleteOf(v, r) == Deleting /\ doomed = [value |-> v, ref |-> r]
Shared(v, r) == \E e \in Elements(btree[v]) : e.ref # r

\* A deletion that meets a value of another reference too never returns.
DeleteSpins ==
  \A v \in XValues, r \in XRefs : [](DeleteOf(v, r) /\ Shared(v, r) => []DeleteOf(v, r))

\* Delete returns if no other reference shares the value, and never if one does:
\* it erases the entries in front of the first of these and spins there.
DeleteAlone ==
  /\ \A v \in XValues, r \in XRefs : (DeleteOf(v, r) /\ ~Shared(v, r)) ~> ~Deleting
  /\ DeleteSpins
=============================================================================
