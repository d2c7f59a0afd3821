------------------------------- MODULE Loops -------------------------------
(***************************************************************************)
(* The search loops of the source, "while (pos < end && ~Found(pos)) ++pos" *)
(* from 0, stop at the least position of a set that contains end; its scans *)
(* count down.  And what byte strings need to be for the trie to tell them  *)
(* apart, and the bytes of integers.                                        *)
(***************************************************************************)
EXTENDS Integers, Sequences

Least(S) == CHOOSE i \in S : \A j \in S : i <= j

\* The values in hits that "for (i = from; i >= to; --i)" meets, in its order.
DownTo(from, to, hits) ==
  LET met[k \in 0..(from - to + 1)] ==
        IF k = 0 THEN <<>>
        ELSE LET i == from - k + 1 IN
             IF i \in hits THEN Append(met[k - 1], i) ELSE met[k - 1]
  IN  met[from - to + 1]

\* The bytes of s from position i (counted from 0) to the end.
From(s, i) == SubSeq(s, i + 1, Len(s))

\* How many bytes of the key bytes s, read from position i, agree with the
\* prefix bytes t at positions j..e-1 before the loop stops.
MatchLength(s, i, t, j, e) ==
  Least({m \in 0..(e - j) : \/ m = e - j
                            \/ i + m >= Len(s)
                            \/ s[i + m + 1] # t[j + m + 1]})

\* No string is a proper prefix of another one: the encoder ends paths and
\* strings with a zero byte and integers have a fixed width (key_encoder.cpp).
PrefixFreeSet(S) ==
  \A s, t \in S : /\ Len(s) <= Len(t)
                  /\ \A i \in 1..Len(s) : s[i] = t[i]
                  => s = t

\* W are the place values of the bytes of an integer, highest first, and B is the
\* number of different bytes.  Bytes have bits, so it is even.
PlaceValues(W, B) ==
  /\ B \in Nat /\ B > 1 /\ B % 2 = 0
  /\ Len(W) \in Nat /\ Len(W) > 0 /\ \A i \in 1..Len(W) : W[i] \in Nat /\ W[i] > 0
  /\ W[Len(W)] = 1
  /\ \A i \in 2..Len(W) : W[i - 1] = B * W[i]
=============================================================================
