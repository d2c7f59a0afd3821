---------------------------- MODULE CsvImporter ----------------------------
(***************************************************************************)
(* CsvImporter (csv_importer.cpp) filling a CasXml.  A file is a sequence  *)
(* of lines; a line is a path, a value and a reference, each of which may  *)
(* fail to parse, and the reference may be missing.  A step is a line.     *)
(***************************************************************************)
EXTENDS CasXml, FiniteSets

CONSTANTS Files,
          NoRef,        \* the reference of a line without one
          Unparsable,   \* a value or a reference that throws
          MaxImports    \* bound: imports

ASSUME FilesAssumption ==
  \A file \in Files :
    file \in Seq([path : PathName, value : XValues \cup {Unparsable},
                 ref : Nat \cup {NoRef, Unparsable}])

VARIABLES op,           \* "none", "Load", "BulkLoad" reading, "inserting"
          lines,        \* the lines that getline has not returned yet
          keys,         \* the deque of BulkLoad
          highest_ref,  \* highest_ref_
          nr_imports,
          last          \* history: the last import and what was there before it

cvars == <<op, lines, keys, highest_ref, nr_imports, last>>

NoImport == [op |-> "none", file |-> <<>>, before |-> {}, failed |-> FALSE]

\* How often each key is in the tree.
Count(path, value, ref) ==
  Cardinality({i \in DOMAIN btree[value] : /\ btree[value][i].path = path
                                           /\ btree[value][i].ref = ref})
Contents == [k \in PathName \X XValues \X XRefs |-> Count(k[1], k[2], k[3])]

CsvInit ==
  /\ XmlInit
  /\ op = "none" /\ lines = <<>> /\ keys = <<>> /\ highest_ref = 0
  /\ nr_imports = 0 /\ last = NoImport

-----------------------------------------------------------------------------
Free == op = "none" /\ doomed = NoDelete

\* Load and BulkLoad begin to read a file that can be opened.
Open(how, file) ==
  /\ Free /\ nr_imports < MaxImports
  /\ nr_imports' = nr_imports + 1
  /\ op' = how /\ lines' = file /\ keys' = <<>> /\ highest_ref' = 0
  /\ last' = [op |-> how, file |-> file, before |-> Contents, failed |-> FALSE]
  /\ UNCHANGED xvars

Parses(line) == line.value # Unparsable /\ line.ref # Unparsable

\* Defect: a line without a reference is given the last one again.
RefOfLast(line) == IF line.ref = NoRef THEN highest_ref ELSE line.ref

\* ProcessLine: a line without a reference gets the one behind that of the
\* line before it.
RefOf(line) == IF line.ref = NoRef THEN highest_ref + 1 ELSE line.ref

LoadLine ==
  /\ op = "Load" /\ lines # <<>> /\ Parses(Head(lines))
  /\ highest_ref' = RefOf(Head(lines))
  /\ XInsert(Head(lines).path, Head(lines).value, highest_ref')
  /\ lines' = Tail(lines)
  /\ UNCHANGED <<op, keys, nr_imports, last>>

ReadLine ==
  /\ op = "BulkLoad" /\ lines # <<>> /\ Parses(Head(lines))
  /\ highest_ref' = RefOf(Head(lines))
  /\ keys' = Append(keys, [Head(lines) EXCEPT !.ref = highest_ref'])
  /\ lines' = Tail(lines)
  /\ UNCHANGED <<xvars, op, nr_imports, last>>

\* ParseValue or stoull throws: what was inserted before stays, what was only
\* read is gone.
Throw ==
  /\ op \in {"Load", "BulkLoad"} /\ lines # <<>> /\ ~Parses(Head(lines))
  /\ op' = "none" /\ lines' = <<>> /\ keys' = <<>>
  /\ last' = [last EXCEPT !.failed = TRUE]
  /\ UNCHANGED <<xvars, highest_ref, nr_imports>>

\* The file ends: Load returns, BulkLoad passes the deque on to CasXml.
EndOfFile ==
  /\ op \in {"Load", "BulkLoad"} /\ lines = <<>>
  /\ op' = IF op = "Load" THEN "none" ELSE "inserting"
  /\ UNCHANGED <<xvars, lines, keys, highest_ref, nr_imports, last>>

\* CasXml::BulkLoad inserts key by key.
InsertNext ==
  /\ op = "inserting" /\ keys # <<>>
  /\ XInsert(Head(keys).path, Head(keys).value, Head(keys).ref)
  /\ keys' = Tail(keys)
  /\ UNCHANGED <<op, lines, highest_ref, nr_imports, last>>

BulkDone ==
  /\ op = "inserting" /\ keys = <<>>
  /\ op' = "none"
  /\ UNCHANGED <<xvars, lines, keys, highest_ref, nr_imports, last>>

\* A deletion between two imports.
Delete(value, ref) ==
  /\ Free /\ nr_imports > 0
  /\ BeginDelete(value, ref)
  /\ last' = NoImport
  /\ UNCHANGED <<op, lines, keys, highest_ref, nr_imports>>

ImportSteps == LoadLine \/ ReadLine \/ Throw \/ EndOfFile \/ InsertNext \/ BulkDone
CsvSteps == ImportSteps \/ (DeleteSteps /\ UNCHANGED cvars)

CsvNext ==
  \/ \E how \in {"Load", "BulkLoad"}, file \in Files : Open(how, file)
  \/ \E v \in XValues, r \in XRefs : Delete(v, r)
  \/ CsvSteps

\* The program is sequential: a call that has begun runs on.
CsvSpec == CsvInit /\ [][CsvNext]_<<xvars, cvars>> /\ WF_<<xvars, cvars>>(CsvSteps)

-----------------------------------------------------------------------------
\* The reference of line i, from the lines before it alone: it counts on from
\* the last one that is given.
ExpectedRef(file, i) ==
  LET given == {j \in 1..i : file[j].ref # NoRef}
      j == CHOOSE j \in given : \A k \in given : k <= j
  IN  IF given = {} THEN i ELSE file[j].ref + (i - j)

\* The lines among S that are the key k.
LinesOf(file, S, k) ==
  {i \in S : k = <<file[i].path, file[i].value, ExpectedRef(file, i)>>}

\* The lines that an import inserts: all; up to the first bad one; none.
Arrived(how, file) ==
  LET bad == {i \in DOMAIN file : ~Parses(file[i])}
  IN  IF how = "BulkLoad" /\ bad # {} THEN {}
      ELSE {i \in DOMAIN file : \A j \in bad : i < j}

\* After an import the index holds what it held before and the lines that
\* arrived, each once, with references that depend on the file alone, whatever
\* was imported, thrown or deleted before.  An import fails if and only if some
\* line does not parse.
ImportExact ==
  op = "none" /\ last.op # "none" =>
    /\ last.failed = \E i \in DOMAIN last.file : ~Parses(last.file[i])
    /\ Contents = [k \in DOMAIN last.before |->
         last.before[k] + Cardinality(LinesOf(last.file, Arrived(last.op, last.file), k))]
=============================================================================
