------------------------------ MODULE MCImport ------------------------------
(***************************************************************************)
(* Imports into CasXml on a small instance: a path, one that begins with   *)
(* it, and one that holds the symbol of an axis.                           *)
(***************************************************************************)
EXTENDS CsvImporter

MCPathName == {"/a", "/a/b", "/?"}
MCPattern == MCPathName \cup {"/a^"}
MCDenotes ==
  [p \in MCPattern |-> CASE p = "/?"  -> {"/a", "/?"}
                         [] p = "/a^" -> {"/a", "/a/b"}
                         [] OTHER     -> {p}]
MCExtends == {<<"/a", "/a/b">>}
MCPlainEnd == {"/a", "/a/b"}

Line(path, value, ref) == [path |-> path, value |-> value, ref |-> ref]

\* Without references; with given ones and a bad one at the end; with a bad
\* value in the middle; and no line at all.
MCFiles ==
  {<<Line("/a/b", 1, NoRef), Line("/a", 1, NoRef), Line("/a", 2, NoRef)>>,
   <<Line("/a", 1, 3), Line("/?", 2, NoRef), Line("/a", 1, Unparsable)>>,
   <<Line("/a", 2, 1), Line("/a/b", Unparsable, NoRef), Line("/a", 2, NoRef)>>,
   <<>>}
=============================================================================
