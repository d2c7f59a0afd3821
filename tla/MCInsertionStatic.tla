------------------------- MODULE MCInsertionStatic -------------------------
(***************************************************************************)
(* Static indexes of all types on a small instance; 3 is the separator.    *)
(***************************************************************************)
EXTENDS InsertionStatic, MCInsertion

StaticWidths == <<2, 4>>

\* /1/2, /1/2/1 and /2
StaticPaths == {<<3, 1, 3, 2, 0>>, <<3, 1, 3, 2, 3, 1, 0>>, <<3, 2, 0>>}
=============================================================================
