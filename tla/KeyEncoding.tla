---------------------------- MODULE KeyEncoding ----------------------------
(***************************************************************************)
(* The bytes of paths, patterns and values (key_encoder.cpp) and the way   *)
(* back (key_decoder.cpp).  Strings are sequences of characters, which are *)
(* numbers, too.                                                           *)
(***************************************************************************)
EXTENDS Integers, Sequences, Loops

CONSTANTS Base,        \* number of different bytes (256)
          Weight,      \* place values of the bytes of an integer, highest first
          kNullByte, kPathSep, Wildcard, Descendant,   \* of key_encoding.hpp
          Slash, QuestionMark, Caret                   \* the characters / ? ^

\* EncodePath: the null byte is appended, then the separators are replaced.
EncodePath(path) ==
  LET s == Append(path, kNullByte)
  IN  [i \in 1..(Len(path) + 1) |-> IF s[i] = Slash THEN kPathSep ELSE s[i]]

EncodeQueryPath(path) ==
  [i \in 1..Len(path) |-> CASE path[i] = QuestionMark -> Wildcard
                            [] path[i] = Caret        -> Descendant
                            [] path[i] = Slash        -> kPathSep
                            [] OTHER                  -> path[i]]

\* EncodeValue of a string.
EncodeString(value) == Append(value, kNullByte)

Modulus == Weight[1] * Base
kMsbMask == Modulus \div 2

\* Exclusive or with the mask turns the highest bit.
Complement(u) == (u + kMsbMask) % Modulus

BigEndian(u) == [i \in 1..Len(Weight) |-> (u \div Weight[i]) % Base]

\* Defect: the highest bit is not turned.
EncodeUnsigned(value) == BigEndian(value % Modulus)

\* EncodeValue of an integer of Len(Weight) bytes.
EncodeInt(value) == BigEndian(Complement(value % Modulus))

\* The position of the null byte.
NullAt(buffer) == Least({i \in 1..Len(buffer) : buffer[i] = kNullByte})

DecodePath(buffer) ==
  [i \in 1..(NullAt(buffer) - 1) |-> IF buffer[i] = kPathSep THEN Slash ELSE buffer[i]]

DecodeString(buffer) == SubSeq(buffer, 1, NullAt(buffer) - 1)

\* The integer that Complement makes of the bytes, read as a signed one.
Signed(u) == IF u < kMsbMask THEN u ELSE u - Modulus

Unsigned(buffer) ==
  LET sum[i \in 0..Len(Weight)] == IF i = 0 THEN 0 ELSE sum[i - 1] + buffer[i] * Weight[i]
  IN  sum[Len(Weight)]

DecodeInt(buffer) == Signed(Complement(Unsigned(buffer)))
=============================================================================
