--------------------------- MODULE MCSurrogateCas ---------------------------
(***************************************************************************)
(* SurrogateCas on a small instance: codes of two bits, so that the fourth *)
(* label gets the code of the padding, and keys of two values.             *)
(***************************************************************************)
EXTENDS SurrogateCas, MCInsertion

MCLabelPaths ==
  {<<"a">>, <<"a", "b">>, <<"b", "c">>, <<"c", "d">>, <<"a", "b", "c">>}

MCPatterns ==
  {<<>>, <<"a">>, <<"d", "b">>, <<"a", "?">>, <<"?", "b">>, <<"a", "^">>, <<"^", "b">>,
   <<"^", "c", "?">>, <<"a", "^", "b">>, <<"^", "b", "^">>}

Entry(path, value) == [path |-> path, value |-> value, ref |-> "r"]
MCLabelDeques ==
  {<<Entry(<<"a", "b">>, <<0>>), Entry(<<"a">>, <<1>>), Entry(<<"a", "b">>, <<0>>)>>,
   <<Entry(<<"c", "d">>, <<0>>), Entry(<<"b", "c">>, <<1>>)>>,
   <<Entry(<<"a", "b", "c">>, <<0>>), Entry(<<"a", "b">>, <<1>>)>>,
   <<Entry(<<"a", "b">>, <<0>>), Entry(<<"a", "b", "c">>, <<1>>)>>}

\* All codes of two bits, in paths of two and of three labels.
CodePaths == UNION {[1..n -> 0..1] : n \in {4, 6}}
OneWidth == <<2>>
TwoBits == {<<0>>, <<1>>}

\* Until the codes run out, and if no path was too deep, the trie is the index
\* of the paths themselves: every path is found under its code, with exactly
\* the references that were inserted under it, and decoded to itself.
SurrogateIndexExact ==
  Idle /\ InRange /\ (\A k \in LKey : Deep(k.path) => inserted[k] = <<>>) =>
    \A k \in LKey :
      IF Known(k.path) /\ ~Deep(k.path)
      THEN /\ Stored[[k EXCEPT !.path = PathCode(k.path)]] = inserted[k]
           /\ DecodePath(PathCode(k.path)) = k.path
      ELSE inserted[k] = <<>>

\* Codes may be shared and paths too deep.  The trie stays one tree and its keys
\* are counted right as long as the program runs.  It reads behind the end of a
\* key, or fails at the Locator's assertion, only if a path that is too deep was
\* inserted whose code goes on behind that of another one.
Stopped == pc \in {"aborted", "undefined"}

TreeConsistent ==
  /\ todo = {} => OneTree /\ CountExact
  /\ Stopped => \E k, l \in LKey : /\ inserted[k] # <<>> /\ inserted[l] # <<>>
                                   /\ Deep(l.path) /\ GoesOn(k.path, l.path)
=============================================================================
