---------------------------- MODULE IntegerQuery ----------------------------
(***************************************************************************)
(* Queries as the user of Cas<vint32_t> sees them: the values of the keys  *)
(* and the bounds are integers, which KeyEncoding makes bytes of.          *)
(***************************************************************************)
EXTENDS Query

CONSTANTS Weight, Slash, QuestionMark, Caret,   \* of module KeyEncoding
          SourceIntegers,   \* the integers that Values encodes
          SourceBounds      \* the integers that are asked for

encoder == INSTANCE KeyEncoding WITH Base <- MaxByte + 1

Encoded(S) == {encoder!EncodeInt(n) : n \in S}

\* An instance with integers: they have ValueSize bytes and fit in them, values
\* and bounds are encoded alike, and no pattern ends where two paths part.
IntegersAsked ==
  /\ PlaceValues(Weight, MaxByte + 1) /\ ValueSize = Len(Weight)
  /\ SourceIntegers \cup SourceBounds \subseteq (0 - encoder!kMsbMask)..(encoder!kMsbMask - 1)
  /\ Values = Encoded(SourceIntegers) /\ Bounds = Encoded(SourceBounds)
  /\ \A p \in Patterns : BehindAxis(p)
  /\ PatternsGoOn

\* At the end of a query for the integers low..high it has emitted exactly the
\* references of the keys on matching paths whose value, before it was encoded,
\* is one of these integers: whatever the signs, the order of the bytes and the
\* cuts that the query makes by them agree with the order of the integers.
IntegerQueryExact ==
  qpc = "pop" /\ stack = <<>> =>
    \A path \in Paths, n \in SourceIntegers :
      LET k == [path |-> path, value |-> encoder!EncodeInt(n)]
          asked == \E low, high \in SourceBounds :
                     /\ key.low = encoder!EncodeInt(low) /\ low <= n
                     /\ key.high = encoder!EncodeInt(high) /\ n <= high
      IN  /\ emitted[k] = IF asked /\ Matches(path, key.path) THEN content[k] ELSE <<>>
          /\ encoder!DecodeInt(k.value) = n
=============================================================================
