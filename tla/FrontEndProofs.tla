--------------------------- MODULE FrontEndProofs ---------------------------
(***************************************************************************)
(* What stands in front of the trie.                                       *)
(*                                                                         *)
(* Keys: encoded paths and values are prefix-free, are ordered as what     *)
(* they encode, and can be decoded.  The first is the assumption           *)
(* PrefixFree of module InsertionProofs.                                   *)
(*                                                                         *)
(* Surrogates: the numbers of labels, as long as their counter itself does *)
(* not overflow.                                                           *)
(*                                                                         *)
(* The XML index and its imports: a number stands for one path only, and   *)
(* an import stands behind the first lines of its file.                    *)
(***************************************************************************)
EXTENDS KeyEncoding, CsvImporter, LoopsProofs, FiniteSetTheorems

CONSTANTS LabelName, NoLabel, MaxDepth, BytesPerLabel   \* of module Surrogate

VARIABLES counter, map

surrogate == INSTANCE Surrogate

\* Bytes are numbers below Base; the null byte is none of the characters.
EncodingOK ==
  /\ Base \in Nat /\ Base > 1
  /\ kNullByte = 0 /\ kPathSep \in 1..(Base - 1) /\ Slash \in 1..(Base - 1)

Char == 1..(Base - 1)

\* A string of bytes that ends with its only null byte.
Terminated(s) ==
  /\ s \in Seq(0..(Base - 1)) /\ Len(s) > 0 /\ s[Len(s)] = kNullByte
  /\ \A i \in 1..(Len(s) - 1) : s[i] # kNullByte

LEMMA TerminatedPrefixFree ==
  ASSUME EncodingOK, NEW S, \A s \in S : Terminated(s)
  PROVE  PrefixFreeSet(S)
<1> SUFFICES ASSUME NEW s \in S, NEW t \in S, Len(s) <= Len(t),
                    \A i \in 1..Len(s) : s[i] = t[i]
             PROVE  s = t
  BY DEF PrefixFreeSet
<1>1. /\ Terminated(s) /\ Terminated(t) /\ s \in Seq(0..(Base - 1)) /\ t \in Seq(0..(Base - 1))
      /\ Len(s) \in Nat /\ Len(t) \in Nat /\ Len(s) > 0
  BY DEF Terminated
<1>2. Len(s) = Len(t)
  <2>1. SUFFICES ASSUME Len(s) < Len(t)  PROVE FALSE
    BY <1>1
  <2>2. Len(s) \in 1..(Len(t) - 1) /\ Len(s) \in 1..Len(s)
    BY <1>1, <2>1
  <2>3. t[Len(s)] # kNullByte /\ s[Len(s)] = kNullByte /\ s[Len(s)] = t[Len(s)]
    BY <1>1, <2>2 DEF Terminated
  <2> QED  BY <2>3
<1> QED  BY <1>1, <1>2, SeqEqual

LEMMA NullIsLast ==
  ASSUME EncodingOK, NEW s, Terminated(s)
  PROVE  NullAt(s) = Len(s)
<1> DEFINE M == {i \in 1..Len(s) : s[i] = kNullByte}
<1>1. /\ s \in Seq(0..(Base - 1)) /\ Len(s) \in Nat /\ Len(s) > 0 /\ s[Len(s)] = kNullByte
      /\ \A i \in 1..(Len(s) - 1) : s[i] # kNullByte
  BY DEF Terminated
<1>2. M \in SUBSET Nat /\ Len(s) \in M
  BY <1>1
<1>3. \A i \in M : i = Len(s)
  BY <1>1
<1>4. NullAt(s) = Least(M)
  BY DEF NullAt
<1> HIDE DEF M
<1> QED  BY <1>2, <1>3, <1>4, LeastIsLeast

LEMMA PathTerminated ==
  ASSUME EncodingOK, NEW path \in Seq(Char)
  PROVE  /\ Terminated(EncodePath(path)) /\ Len(EncodePath(path)) = Len(path) + 1
         /\ \A i \in 1..Len(path) :
              EncodePath(path)[i] = IF path[i] = Slash THEN kPathSep ELSE path[i]
<1> DEFINE s == Append(path, kNullByte)
           e == EncodePath(path)
<1>1. /\ Len(path) \in Nat /\ Len(s) = Len(path) + 1 /\ s[Len(path) + 1] = kNullByte
      /\ \A i \in 1..Len(path) : s[i] = path[i] /\ path[i] \in Char
  OBVIOUS
<1>2. e = [i \in 1..(Len(path) + 1) |-> IF s[i] = Slash THEN kPathSep ELSE s[i]]
  BY DEF EncodePath
<1>3. \A i \in 1..Len(path) : /\ e[i] = IF path[i] = Slash THEN kPathSep ELSE path[i]
                              /\ e[i] \in Char
  <2> TAKE i \in 1..Len(path)
  <2>1. i \in 1..(Len(path) + 1) /\ s[i] = path[i] /\ path[i] \in Char
    BY <1>1
  <2>2. e[i] = IF path[i] = Slash THEN kPathSep ELSE path[i]
    BY <1>2, <2>1
  <2> QED  BY <2>1, <2>2 DEF EncodingOK, Char
<1>4. e[Len(path) + 1] = kNullByte
  <2>1. Len(path) + 1 \in 1..(Len(path) + 1) /\ kNullByte # Slash
    BY <1>1 DEF EncodingOK
  <2> QED  BY <1>1, <1>2, <2>1
<1>5. \A i \in 1..(Len(path) + 1) : e[i] \in 0..(Base - 1)
  <2>1. \A c \in Char \cup {kNullByte} : c \in 0..(Base - 1)
    BY DEF Char, EncodingOK
  <2> HIDE DEF e, s
  <2> QED  BY <1>1, <1>3, <1>4, <2>1
<1> HIDE DEF e, s
<1>6. e \in Seq(0..(Base - 1)) /\ Len(e) = Len(path) + 1
  BY <1>1, <1>2, <1>5
<1>7. Terminated(e)
  BY <1>1, <1>3, <1>4, <1>6 DEF Terminated, Char, EncodingOK
<1> QED  BY <1>3, <1>6, <1>7 DEF e

LEMMA StringTerminated ==
  ASSUME EncodingOK, NEW value \in Seq(Char)
  PROVE  /\ Terminated(EncodeString(value)) /\ Len(EncodeString(value)) = Len(value) + 1
         /\ \A i \in 1..Len(value) : EncodeString(value)[i] = value[i] /\ value[i] \in Char
<1> DEFINE e == EncodeString(value)
<1>0. Len(value) \in Nat /\ \A i \in 1..Len(value) : value[i] \in Char
  OBVIOUS
<1>1. /\ Len(value) \in Nat /\ Len(e) = Len(value) + 1 /\ e[Len(value) + 1] = kNullByte
      /\ \A i \in 1..Len(value) : e[i] = value[i] /\ value[i] \in Char
      /\ e \in Seq(Char \cup {kNullByte})
  <2>1. e \in Seq(Char \cup {kNullByte})
    BY DEF EncodeString
  <2> QED  BY <1>0, <2>1 DEF EncodeString
<1>2. \A i \in 1..(Len(value) + 1) : e[i] \in 0..(Base - 1)
  BY <1>1 DEF Char, EncodingOK
<1> HIDE DEF e
<1>3. e \in Seq(0..(Base - 1))
  <2>1. Len(e) \in Nat /\ e = [i \in 1..Len(e) |-> e[i]]
    BY <1>1
  <2>2. \A i \in 1..Len(e) : e[i] \in 0..(Base - 1)
    BY <1>1, <1>2
  <2>3. [i \in 1..Len(e) |-> e[i]] \in Seq(0..(Base - 1))
    BY <2>1, <2>2
  <2> QED  BY <2>1, <2>3
<1>4. Terminated(e)
  <2>1. /\ Len(e) = Len(value) + 1 /\ Len(value) \in Nat
        /\ Len(e) > 0 /\ Len(e) - 1 = Len(value) /\ e[Len(e)] = kNullByte
    BY <1>1
  <2>2. \A i \in 1..Len(value) : e[i] # kNullByte
    BY <1>1 DEF Char, EncodingOK
  <2> QED  BY <1>3, <2>1, <2>2 DEF Terminated
<1> QED  BY <1>1, <1>4 DEF e

\* However paths are chosen, as long as they hold no null character, no encoded
\* path begins another one.
THEOREM PathsPrefixFree ==
  ASSUME EncodingOK, NEW S \in SUBSET Seq(Char)
  PROVE  PrefixFreeSet({EncodePath(path) : path \in S})
BY PathTerminated, TerminatedPrefixFree

\* The same for the values that are strings, the empty one included.
THEOREM StringsPrefixFree ==
  ASSUME EncodingOK, NEW S \in SUBSET Seq(Char)
  PROVE  PrefixFreeSet({EncodeString(value) : value \in S})
BY StringTerminated, TerminatedPrefixFree

\* KeyDecoder returns the path that was encoded, unless it holds the byte of the
\* encoded separator.
THEOREM PathRoundTrip ==
  ASSUME EncodingOK, NEW path \in Seq(Char), \A i \in 1..Len(path) : path[i] # kPathSep
  PROVE  DecodePath(EncodePath(path)) = path
<1> DEFINE e == EncodePath(path)
           d == DecodePath(e)
<1>1. /\ Terminated(e) /\ Len(e) = Len(path) + 1 /\ Len(path) \in Nat
      /\ \A i \in 1..Len(path) : e[i] = IF path[i] = Slash THEN kPathSep ELSE path[i]
  BY PathTerminated
<1>2. NullAt(e) - 1 = Len(path)
  BY <1>1, NullIsLast
<1>3. d = [i \in 1..Len(path) |-> IF e[i] = kPathSep THEN Slash ELSE e[i]]
  BY <1>2 DEF DecodePath
<1>4. \A i \in 1..Len(path) : d[i] = path[i] /\ path[i] \in Char
  BY <1>1, <1>3
<1> HIDE DEF d, e
<1>5. d \in Seq(Char) /\ Len(d) = Len(path)
  BY <1>1, <1>3, <1>4
<1>6. d = path
  BY <1>4, <1>5, SeqEqual
<1> QED  BY <1>6 DEF d, e

\* KeyDecoder returns the string that was encoded.
THEOREM StringRoundTrip ==
  ASSUME EncodingOK, NEW value \in Seq(Char)
  PROVE  DecodeString(EncodeString(value)) = value
<1> DEFINE e == EncodeString(value)
<1>1. /\ Terminated(e) /\ Len(e) = Len(value) + 1 /\ Len(value) \in Nat
      /\ \A i \in 1..Len(value) : e[i] = value[i]
      /\ e \in Seq(0..(Base - 1))
  BY StringTerminated DEF Terminated
<1>2. DecodeString(e) = SubSeq(e, 1, Len(value))
  BY <1>1, NullIsLast DEF DecodeString
<1> HIDE DEF e
<1>3. Len(value) \in Nat /\ \A x \in 1..Len(value) : e[x] \in 0..(Base - 1)
  <2> DEFINE B == 0..(Base - 1)
  <2>1. e \in Seq(B)
    BY <1>1
  <2> HIDE DEF B
  <2>2. \A x \in 1..Len(e) : e[x] \in B
    BY <2>1
  <2>3. \A x \in 1..Len(value) : x \in 1..Len(e)
    BY <1>1
  <2>4. \A x \in 1..Len(value) : e[x] \in B
    BY <2>2, <2>3
  <2> QED  BY <1>1, <2>4 DEF B
<1>4. /\ SubSeq(e, 1, Len(value)) \in Seq(0..(Base - 1)) /\ Len(SubSeq(e, 1, Len(value))) = Len(value)
      /\ \A x \in 1..Len(value) : SubSeq(e, 1, Len(value))[x] = e[x]
  <2>1. SubSeq(e, 1, Len(value)) = [x \in 1..Len(value) |-> e[x]]
    BY <1>1
  <2> QED  BY <1>3, <2>1
<1>5. SubSeq(e, 1, Len(value)) = value
  BY <1>1, <1>4, SeqEqual
<1> QED  BY <1>2, <1>5 DEF e

-----------------------------------------------------------------------------
\* The order of strings.
LessString(s, t) ==
  \/ LessBytes(s, t)
  \/ Len(s) < Len(t) /\ \A i \in 1..Len(s) : s[i] = t[i]

\* Strings are ordered as their encodings, so a range of strings is a range of
\* the trie: the null byte makes a string less than its continuations.
THEOREM StringOrder ==
  ASSUME EncodingOK, NEW s \in Seq(Char), NEW t \in Seq(Char)
  PROVE  LessString(s, t) <=> LessBytes(EncodeString(s), EncodeString(t))
<1> DEFINE es == EncodeString(s)
           et == EncodeString(t)
<1>1. /\ Len(s) \in Nat /\ Len(t) \in Nat /\ Len(es) = Len(s) + 1 /\ Len(et) = Len(t) + 1
      /\ \A i \in 1..Len(s) : es[i] = s[i] /\ s[i] \in Char
      /\ \A i \in 1..Len(t) : et[i] = t[i] /\ t[i] \in Char
      /\ es[Len(s) + 1] = 0 /\ et[Len(t) + 1] = 0
  <2>1. /\ Terminated(es) /\ Len(es) = Len(s) + 1 /\ Len(s) \in Nat
        /\ \A i \in 1..Len(s) : es[i] = s[i] /\ s[i] \in Char
    BY StringTerminated
  <2>2. /\ Terminated(et) /\ Len(et) = Len(t) + 1 /\ Len(t) \in Nat
        /\ \A i \in 1..Len(t) : et[i] = t[i] /\ t[i] \in Char
    BY StringTerminated
  <2>3. es[Len(es)] = 0 /\ et[Len(et)] = 0
    BY <2>1, <2>2 DEF Terminated, EncodingOK
  <2> HIDE DEF es, et
  <2> QED  BY <2>1, <2>2, <2>3
<1>2. \A c \in Char : c \in Nat /\ 0 < c
  BY DEF Char, EncodingOK
<1> HIDE DEF es, et
<1>3. ASSUME NEW i \in 1..Len(s), LessAt(s, t, i)  PROVE LessBytes(es, et)
  <2>1. i \in 1..Len(es) /\ LessAt(es, et, i)
    BY <1>1, <1>3 DEF LessAt
  <2> QED  BY <2>1 DEF LessBytes
<1>4. ASSUME Len(s) < Len(t), \A i \in 1..Len(s) : s[i] = t[i]  PROVE LessBytes(es, et)
  <2>1. /\ Len(s) + 1 \in 1..Len(es) /\ Len(s) + 1 \in 1..Len(et) /\ Len(s) + 1 \in 1..Len(t)
        /\ (Len(s) + 1) - 1 = Len(s)
    BY <1>1, <1>4
  <2>2. es[Len(s) + 1] < et[Len(s) + 1]
    BY <1>1, <1>2, <2>1
  <2>3. \A j \in 1..Len(s) : es[j] = et[j]
    BY <1>1, <1>4
  <2>4. LessAt(es, et, Len(s) + 1)
    BY <2>1, <2>2, <2>3 DEF LessAt
  <2> QED  BY <2>1, <2>4 DEF LessBytes
<1>5. ASSUME NEW i \in 1..Len(es), LessAt(es, et, i)  PROVE LessString(s, t)
  <2>1. /\ i \in Nat /\ i \in 1..(Len(s) + 1) /\ i \in 1..(Len(t) + 1) /\ es[i] < et[i]
        /\ \A j \in 1..(i - 1) : es[j] = et[j]
    BY <1>1, <1>5 DEF LessAt
  <2>2. i # Len(t) + 1
    <3>1. SUFFICES ASSUME i = Len(t) + 1  PROVE FALSE
      OBVIOUS
    <3>2. es[i] < 0
      BY <1>1, <2>1, <3>1
    <3>3. CASE i = Len(s) + 1
      BY <1>1, <3>2, <3>3
    <3>4. CASE i # Len(s) + 1
      <4>1. i \in 1..Len(s)
        BY <1>1, <2>1, <3>4
      <4>2. es[i] \in Nat /\ 0 < es[i]
        BY <1>1, <1>2, <4>1
      <4> QED  BY <3>2, <4>2
    <3> QED  BY <3>3, <3>4
  <2>3. i \in 1..Len(t)
    BY <1>1, <2>1, <2>2
  <2>4. \A j \in 1..(i - 1) : s[j] = t[j]
    BY <1>1, <2>1
  <2>5. CASE i = Len(s) + 1
    BY <1>1, <2>3, <2>4, <2>5 DEF LessString
  <2>6. CASE i # Len(s) + 1
    <3>1. i \in 1..Len(s) /\ s[i] < t[i]
      BY <1>1, <2>1, <2>3, <2>6
    <3>2. LessAt(s, t, i)
      BY <2>3, <2>4, <3>1 DEF LessAt
    <3> QED  BY <3>1, <3>2 DEF LessString, LessBytes
  <2> QED  BY <2>5, <2>6
<1>6. LessString(s, t) => LessBytes(es, et)
  BY <1>3, <1>4 DEF LessString, LessBytes
<1>7. LessBytes(es, et) => LessString(s, t)
  BY <1>5 DEF LessBytes
<1> QED  BY <1>6, <1>7 DEF es, et
-----------------------------------------------------------------------------
\* Encoded integers have one length, so none begins another one, whatever
\* their width.
THEOREM IntegersPrefixFree ==
  ASSUME EncodingOK, Len(Weight) \in Nat, NEW S \in SUBSET Int
  PROVE  PrefixFreeSet({EncodeInt(n) : n \in S})
<1> SUFFICES ASSUME NEW m \in S, NEW n \in S, \A i \in 1..Len(EncodeInt(m)) : EncodeInt(m)[i] = EncodeInt(n)[i]
             PROVE  EncodeInt(m) = EncodeInt(n)
  BY DEF PrefixFreeSet
<1>1. \A u : /\ BigEndian(u) = [i \in 1..Len(Weight) |-> BigEndian(u)[i]]
             /\ Len(BigEndian(u)) = Len(Weight)
  BY DEF BigEndian
<1> QED  BY <1>1 DEF EncodeInt

\* The integers of Len(Weight) bytes.
Integer == SignedNumbers(Weight, Base)

LEMMA EncodedDigits ==
  ASSUME PlaceValues(Weight, Base), NEW n \in Integer
  PROVE  /\ EncodeInt(n) = Digits(Weight, Base, TurnSign(Weight, Base, n))
         /\ TurnSign(Weight, Base, n) \in Nat /\ TurnSign(Weight, Base, n) < Weight[1] * Base
<1>1. EncodeInt(n) = Digits(Weight, Base, TurnSign(Weight, Base, n))
  BY DEF EncodeInt, BigEndian, Complement, kMsbMask, Modulus, Digits, TurnSign, Half
<1> QED  BY <1>1, TurnedFacts DEF Integer

\* Integers of any width, negative ones included, are ordered as the bytes that
\* the trie and the bounds of a query compare.
THEOREM IntegerOrder ==
  ASSUME PlaceValues(Weight, Base), NEW m \in Integer, NEW n \in Integer
  PROVE  m < n <=> LessBytes(EncodeInt(m), EncodeInt(n))
BY EncodedDigits, SignedOrder DEF Integer

\* KeyDecoder returns the integer that was encoded.
THEOREM IntegerRoundTrip ==
  ASSUME PlaceValues(Weight, Base), NEW n \in Integer
  PROVE  DecodeInt(EncodeInt(n)) = n
<1> DEFINE u == TurnSign(Weight, Base, n)
<1>1. EncodeInt(n) = Digits(Weight, Base, u) /\ u \in Nat /\ u < Weight[1] * Base
  BY EncodedDigits
<1> HIDE DEF u
<1>2. Unsigned(EncodeInt(n)) = u
  BY <1>1, DigitsSum DEF Unsigned
<1>3. LET c == (u + Half(Weight, Base)) % (Weight[1] * Base)
      IN  n = IF c < Half(Weight, Base) THEN c ELSE c - Weight[1] * Base
  BY TurnedTwice DEF Integer, u
<1> QED  BY <1>2, <1>3 DEF DecodeInt, Signed, Complement, kMsbMask, Modulus, Half

-----------------------------------------------------------------------------
(* Surrogates                                                               *)

\* map_ and map_inv_ are inverse to each other: the numbers of the labels are
\* different, and none is 0, which pads short paths, or behind the counter.
NumbersOK ==
  /\ counter \in Nat
  /\ \A l \in DOMAIN map : map[l] \in 1..counter
  /\ \A l, k \in DOMAIN map : map[l] = map[k] => l = k

\* A label keeps its number: what MapLabel returned for the keys of the index is
\* what it returns for the patterns of later queries.
Kept == \A l \in DOMAIN map : l \in DOMAIN map' /\ map'[l] = map[l]

LEMMA MapLabelSteps ==
  ASSUME NumbersOK, NEW label, surrogate!MapLabel(label)
  PROVE  NumbersOK' /\ Kept
<1>1. CASE label \in DOMAIN map
  BY <1>1 DEF surrogate!MapLabel, NumbersOK, Kept
<1>2. CASE label \notin DOMAIN map
  <2>1. /\ counter' = counter + 1 /\ DOMAIN map' = DOMAIN map \cup {label}
        /\ map'[label] = counter + 1
        /\ \A l \in DOMAIN map : map'[l] = map[l] /\ l # label
    BY <1>2 DEF surrogate!MapLabel
  <2>2. /\ counter \in Nat
        /\ \A l \in DOMAIN map : map[l] \in 1..counter /\ map[l] # counter + 1
        /\ \A l, k \in DOMAIN map : map[l] = map[k] => l = k
    BY DEF NumbersOK
  <2>3. \A l \in DOMAIN map' : map'[l] \in 1..counter'
    BY <2>1, <2>2
  <2>4. ASSUME NEW l \in DOMAIN map', NEW k \in DOMAIN map', map'[l] = map'[k]
        PROVE  l = k
    <3>1. CASE l = label
      BY <2>1, <2>2, <2>4, <3>1
    <3>2. CASE k = label
      BY <2>1, <2>2, <2>4, <3>2
    <3>3. CASE l # label /\ k # label
      BY <2>1, <2>2, <2>4, <3>3
    <3> QED  BY <3>1, <3>2, <3>3
  <2>5. NumbersOK'
    BY <2>1, <2>2, <2>3, <2>4 DEF NumbersOK
  <2> QED  BY <2>1, <2>5 DEF Kept
<1> QED  BY <1>1, <1>2

\* In every state the numbers are as NumbersOK says.
THEOREM NumbersCorrect == surrogate!SurrogateSpec => []NumbersOK
<1>1. surrogate!SurrogateInit => NumbersOK
  BY DEF surrogate!SurrogateInit, NumbersOK
<1>2. NumbersOK /\ [surrogate!SurrogateNext]_<<counter, map>> => NumbersOK'
  <2> SUFFICES ASSUME NumbersOK, [surrogate!SurrogateNext]_<<counter, map>>  PROVE NumbersOK'
    OBVIOUS
  <2>1. CASE surrogate!SurrogateNext
    BY <2>1, MapLabelSteps DEF surrogate!SurrogateNext
  <2>2. CASE UNCHANGED <<counter, map>>
    BY <2>2 DEF NumbersOK
  <2> QED  BY <2>1, <2>2
<1> QED  BY <1>1, <1>2, PTL DEF surrogate!SurrogateSpec

\* No step takes a label its number.
THEOREM NumbersKept == surrogate!SurrogateSpec => [][Kept]_<<counter, map>>
<1>1. NumbersOK /\ [surrogate!SurrogateNext]_<<counter, map>> => [Kept]_<<counter, map>>
  BY MapLabelSteps DEF surrogate!SurrogateNext
<1> QED  BY <1>1, NumbersCorrect, PTL DEF surrogate!SurrogateSpec

\* The decoder gets back every label whose number survives the cut to
\* BytesPerLabel bytes, and takes padding for no label.
THEOREM LabelDecoded ==
  ASSUME NumbersOK
  PROVE  \A bytes :
           /\ \A l \in DOMAIN map : surrogate!Number(bytes) = map[l] => surrogate!MapLabelInv(bytes) = l
           /\ surrogate!Number(bytes) = 0 => surrogate!MapLabelInv(bytes) = NoLabel
BY DEF NumbersOK, surrogate!MapLabelInv

-----------------------------------------------------------------------------
(* The XML index                                                            *)

XEntry == [pcr : Nat, ref : Nat, path : PathName]

LEMMA Inserted ==
  ASSUME NEW T, NEW t \in Seq(T), NEW i \in 1..(Len(t) + 1), NEW e \in T
  PROVE  /\ InsertAt(t, i, e) \in Seq(T) /\ Len(InsertAt(t, i, e)) = Len(t) + 1
         /\ \A j \in 1..(Len(t) + 1) :
              InsertAt(t, i, e)[j] = IF j < i THEN t[j] ELSE IF j = i THEN e ELSE t[j - 1]
<1> DEFINE a == SubSeq(t, 1, i - 1)
           b == From(t, i - 1)
           n == Len(t)
           ae == a \o <<e>>
           r == ae \o b
<1>1. n \in Nat /\ i \in Nat /\ 0 < i /\ i <= n + 1 /\ \A x \in 1..n : t[x] \in T
  OBVIOUS
<1>2. /\ b \in Seq(T) /\ Len(b) = n - (i - 1)
      /\ \A x \in 1..(n - (i - 1)) : b[x] = t[(i - 1) + x]
  <2>1. i - 1 \in 0..n
    BY <1>1
  <2> QED  BY <2>1, FromCopy
<1>3. InsertAt(t, i, e) = r
  <2>1. From(t, i - 1) = SubSeq(t, i, n)
    BY <1>1 DEF From
  <2> QED  BY <2>1 DEF InsertAt
<1>4. a \in Seq(T) /\ Len(a) = i - 1 /\ \A x \in 1..(i - 1) : a[x] = t[x]
  <2>1. a = [x \in 1..(i - 1) |-> t[x]]
    BY <1>1
  <2>2. \A x \in 1..(i - 1) : t[x] \in T
    BY <1>1
  <2>3. i - 1 \in Nat
    BY <1>1
  <2> HIDE DEF a
  <2> QED  BY <2>1, <2>2, <2>3
<1>5. /\ ae \in Seq(T) /\ Len(ae) = i /\ \A x \in 1..(i - 1) : ae[x] = t[x]
      /\ ae[i] = e
  <2>1. <<e>> \in Seq(T) /\ Len(<<e>>) = 1 /\ <<e>>[1] = e /\ 1 \in 1..1
    OBVIOUS
  <2> DEFINE u == <<e>>
  <2>2. u \in Seq(T) /\ Len(u) = 1 /\ u[1] = e
    BY <2>1
  <2> HIDE DEF a, u
  <2>3. /\ a \o u \in Seq(T) /\ Len(a \o u) = (i - 1) + 1
        /\ \A x \in 1..(i - 1) : (a \o u)[x] = a[x]
        /\ (a \o u)[(i - 1) + 1] = u[1]
    <3>1. /\ a \o u \in Seq(T) /\ Len(a \o u) = Len(a) + Len(u)
          /\ \A x \in 1..Len(a) : (a \o u)[x] = a[x]
          /\ \A x \in 1..Len(u) : (a \o u)[Len(a) + x] = u[x]
      <4>1. a \in Seq(T) /\ u \in Seq(T)
        BY <1>4, <2>2
      <4> QED  BY <4>1, Concatenation
    <3>2. 1 \in 1..1
      OBVIOUS
    <3> QED  BY <1>4, <2>2, <3>1, <3>2
  <2>4. (i - 1) + 1 = i
    BY <1>1
  <2>5. ae = a \o u
    BY DEF u
  <2> HIDE DEF ae
  <2> QED  BY <1>4, <2>2, <2>3, <2>4, <2>5
<1> HIDE DEF a, b, ae, n
<1>6. /\ r \in Seq(T) /\ Len(r) = i + (n - (i - 1))
      /\ \A x \in 1..i : r[x] = ae[x]
      /\ \A x \in 1..(n - (i - 1)) : r[i + x] = b[x]
  <2>1. /\ r \in Seq(T) /\ Len(r) = Len(ae) + Len(b)
        /\ \A x \in 1..Len(ae) : r[x] = ae[x]
        /\ \A x \in 1..Len(b) : r[Len(ae) + x] = b[x]
    <3>1. ae \in Seq(T) /\ b \in Seq(T)
      BY <1>2, <1>5
    <3> QED  BY <3>1, Concatenation
  <2> HIDE DEF r
  <2> QED  BY <1>2, <1>5, <2>1
<1> HIDE DEF r
<1>7. \A j \in 1..(n + 1) :
        r[j] = IF j < i THEN t[j] ELSE IF j = i THEN e ELSE t[j - 1]
  <2> TAKE j \in 1..(n + 1)
  <2>1. CASE j < i
    <3>1. j \in 1..i /\ j \in 1..(i - 1)
      BY <1>1, <2>1
    <3> QED  BY <1>5, <1>6, <2>1, <3>1
  <2>2. CASE j = i
    <3>1. i \in 1..i
      BY <1>1
    <3> QED  BY <1>5, <1>6, <2>2, <3>1
  <2>3. CASE j > i
    <3> DEFINE x == j - i
    <3>1. x \in 1..(n - (i - 1)) /\ i + x = j /\ (i - 1) + x = j - 1 /\ ~(j < i) /\ j # i
      BY <1>1, <2>3
    <3> HIDE DEF x
    <3>2. r[i + x] = b[x] /\ b[x] = t[(i - 1) + x]
      BY <1>2, <1>6, <3>1
    <3> QED  BY <3>1, <3>2
  <2> QED  BY <1>1, <2>1, <2>2, <2>3
<1>8. Len(r) = n + 1
  BY <1>1, <1>6
<1> QED  BY <1>3, <1>6, <1>7, <1>8 DEF n

\* An insertion adds one to the number of the entries it is among.
LEMMA InsertedCount ==
  ASSUME NEW T, NEW t \in Seq(T), NEW i \in 1..(Len(t) + 1), NEW e \in T, NEW H
  PROVE  LET r == InsertAt(t, i, e)
             A == {j \in 1..Len(t) : t[j] \in H}
             C == {j \in 1..Len(r) : r[j] \in H}
         IN  /\ Cardinality(A) \in Nat /\ Cardinality(C) \in Nat
             /\ Cardinality(C) = Cardinality(A) + IF e \in H THEN 1 ELSE 0
<1> DEFINE r == InsertAt(t, i, e)
           A == {j \in 1..Len(t) : t[j] \in H}
           C == {j \in 1..Len(r) : r[j] \in H}
           f == [j \in A |-> IF j < i THEN j ELSE j + 1]
           D == {IF j < i THEN j ELSE j + 1 : j \in A}
<1>1. /\ Len(r) = Len(t) + 1 /\ Len(t) \in Nat /\ i \in Nat /\ 0 < i /\ i <= Len(t) + 1
      /\ \A j \in 1..(Len(t) + 1) :
           r[j] = IF j < i THEN t[j] ELSE IF j = i THEN e ELSE t[j - 1]
  BY Inserted
<1>2. IsFiniteSet(A)
  <2>1. IsFiniteSet(1..Len(t))
    BY <1>1, FS_Interval
  <2> QED  BY <2>1, FS_Subset
<1>3. f \in Bijection(A, D)
  <2>1. f \in [A -> D]
    OBVIOUS
  <2>2. \A a, b \in A : f[a] = f[b] => a = b
    <3>1. \A a \in A : a \in Int
      OBVIOUS
    <3> HIDE DEF A
    <3> QED  BY <1>1, <3>1
  <2>3. \A d \in D : \E a \in A : f[a] = d
    OBVIOUS
  <2> HIDE DEF f, A, D
  <2> QED  BY <2>1, <2>2, <2>3 DEF Bijection, Injection, Surjection, IsInjective
<1>4. IsFiniteSet(D) /\ Cardinality(D) = Cardinality(A)
  <2>1. ExistsBijection(A, D)
    BY <1>3 DEF ExistsBijection
  <2> HIDE DEF A, D
  <2> QED  BY <1>2, <2>1, FS_Bijection
<1>5. i \notin D
  <2>1. \A a \in A : a \in Int
    OBVIOUS
  <2> HIDE DEF A
  <2> QED  BY <1>1, <2>1
<1>6. C = IF e \in H THEN D \cup {i} ELSE D
  <2> HIDE DEF r
  <2>1. ASSUME NEW j \in C  PROVE j \in D \/ (j = i /\ e \in H)
    <3>1. j \in 1..(Len(t) + 1) /\ j \in Int /\ r[j] \in H
      BY <1>1, <2>1
    <3>2. CASE j < i
      <4>1. j \in 1..Len(t) /\ t[j] \in H
        BY <1>1, <3>1, <3>2
      <4>2. j \in A
        BY <4>1
      <4> HIDE DEF A
      <4> QED  BY <3>2, <4>2
    <3>3. CASE j = i
      BY <1>1, <3>1, <3>3
    <3>4. CASE j > i
      <4>1. j - 1 \in 1..Len(t) /\ t[j - 1] \in H /\ ~(j - 1 < i) /\ (j - 1) + 1 = j
        BY <1>1, <3>1, <3>4
      <4>2. j - 1 \in A
        BY <4>1
      <4> HIDE DEF A
      <4> QED  BY <4>1, <4>2
    <3> QED  BY <1>1, <3>1, <3>2, <3>3, <3>4
  <2>2. ASSUME NEW j \in A  PROVE (IF j < i THEN j ELSE j + 1) \in C
    <3>1. j \in 1..Len(t) /\ j \in Int /\ t[j] \in H
      BY <1>1, <2>2
    <3>2. CASE j < i
      <4>1. j \in 1..(Len(t) + 1) /\ r[j] = t[j]
        BY <1>1, <3>1, <3>2
      <4> QED  BY <1>1, <3>1, <3>2, <4>1
    <3>3. CASE ~(j < i)
      <4>1. j + 1 \in 1..(Len(t) + 1) /\ ~(j + 1 < i) /\ j + 1 # i /\ (j + 1) - 1 = j
        BY <1>1, <3>1, <3>3
      <4>2. r[j + 1] = t[j]
        BY <1>1, <4>1
      <4> QED  BY <1>1, <3>1, <3>3, <4>1, <4>2
    <3> QED  BY <3>2, <3>3
  <2>3. e \in H => i \in C
    <3>1. i \in 1..(Len(t) + 1) /\ r[i] = e
      BY <1>1
    <3> QED  BY <1>1, <3>1
  <2>4. i \in C => e \in H
    <3>1. i \in 1..(Len(t) + 1) /\ r[i] = e
      BY <1>1
    <3> QED  BY <3>1
  <2>5. D \subseteq C
    <3> HIDE DEF A, C
    <3> QED  BY <2>2
  <2> HIDE DEF A, C, D
  <2> QED  BY <2>1, <2>3, <2>4, <2>5
<1> HIDE DEF A, C, D, r
<1>7. Cardinality(D \cup {i}) = Cardinality(D) + 1 /\ Cardinality(D) \in Nat
  BY <1>4, <1>5, FS_AddElement, FS_CardinalityType
<1>8. /\ Cardinality(A) \in Nat /\ Cardinality(C) \in Nat
      /\ Cardinality(C) = Cardinality(A) + IF e \in H THEN 1 ELSE 0
  <2>1. CASE e \in H
    BY <1>4, <1>6, <1>7, <2>1
  <2>2. CASE e \notin H
    BY <1>4, <1>6, <1>7, <2>2
  <2> QED  BY <2>1, <2>2
<1> QED  BY <1>8 DEF A, C, r

\* A number stands for one path only, whatever that path denotes; an entry of a
\* plain path has one of the numbers of its path.
XmlInv ==
  /\ max_pcr \in Nat
  /\ data_guide \in [PathName -> Seq(1..max_pcr)]
  /\ btree \in [XValues -> Seq(XEntry)]
  /\ \A p, q \in PathName : p # q => Pcrs(p) \cap Pcrs(q) = {}
  /\ \A e \in AllEntries : Denotes[e.path] = {e.path} => e.pcr \in Pcrs(e.path)

\* What an insertion does to the tree of values.
Enters(value, e) ==
  \E i \in 1..(Len(btree[value]) + 1) :
    btree' = [btree EXCEPT ![value] = InsertAt(btree[value], i, e)]

LEMMA EnteredElements ==
  ASSUME btree \in [XValues -> Seq(XEntry)], NEW value \in XValues, NEW e \in XEntry,
         Enters(value, e)
  PROVE  /\ btree' \in [XValues -> Seq(XEntry)]
         /\ \A x \in AllEntries' : x \in AllEntries \/ x = e
<1>1. PICK i \in 1..(Len(btree[value]) + 1) :
        btree' = [btree EXCEPT ![value] = InsertAt(btree[value], i, e)]
  BY DEF Enters
<1> DEFINE t == btree[value]
           r == InsertAt(t, i, e)
<1>2. t \in Seq(XEntry) /\ Len(t) \in Nat
  OBVIOUS
<1>3. /\ r \in Seq(XEntry) /\ Len(r) = Len(t) + 1
      /\ \A j \in 1..(Len(t) + 1) :
           r[j] = IF j < i THEN t[j] ELSE IF j = i THEN e ELSE t[j - 1]
  <2> HIDE DEF t
  <2> DEFINE T == XEntry
  <2>1. t \in Seq(T) /\ e \in T
    BY <1>2
  <2>2. i \in 1..(Len(t) + 1)
    BY <1>1 DEF t
  <2> HIDE DEF T, r
  <2>3. InsertAt(t, i, e) \in Seq(T)
    BY <2>1, <2>2, Inserted
  <2>4. Len(InsertAt(t, i, e)) = Len(t) + 1
    BY <2>1, <2>2, Inserted
  <2>5. \A j \in 1..(Len(t) + 1) :
          InsertAt(t, i, e)[j] = IF j < i THEN t[j] ELSE IF j = i THEN e ELSE t[j - 1]
    BY <2>1, <2>2, Inserted
  <2> QED  BY <2>3, <2>4, <2>5 DEF T, r
<1>4. btree' = [btree EXCEPT ![value] = r]
  BY <1>1
<1> HIDE DEF r
<1>5. btree' \in [XValues -> Seq(XEntry)]
  BY <1>3, <1>4
<1>6. \A j \in 1..Len(r) : r[j] = e \/ \E k \in 1..Len(t) : r[j] = t[k]
  <2> TAKE j \in 1..Len(r)
  <2>1. j \in 1..(Len(t) + 1)
    BY <1>3
  <2>2. i \in 1..(Len(t) + 1)
    BY <1>1
  <2> HIDE DEF t
  <2>3. CASE j < i
    <3>1. j \in 1..Len(t) /\ r[j] = t[j]
      BY <1>2, <1>3, <2>1, <2>2, <2>3
    <3> QED  BY <3>1
  <2>4. CASE j = i
    <3>1. r[j] = e
      BY <1>2, <1>3, <2>1, <2>2, <2>4
    <3> QED  BY <3>1
  <2>5. CASE j > i
    <3>1. j - 1 \in 1..Len(t) /\ r[j] = t[j - 1]
      BY <1>2, <1>3, <2>1, <2>2, <2>5
    <3> QED  BY <3>1
  <2> QED  BY <1>2, <2>1, <2>2, <2>3, <2>4, <2>5
<1>7. ASSUME NEW x \in AllEntries'  PROVE x \in AllEntries \/ x = e
  <2>1. PICK v \in XValues : x \in Elements(btree'[v])
    BY <1>7 DEF AllEntries, Elements
  <2>2. CASE v = value
    <3>1. btree'[v] = r /\ DOMAIN r = 1..Len(r) /\ DOMAIN t = 1..Len(t)
      BY <1>2, <1>3, <1>4, <2>2
    <3>2. PICK j \in 1..Len(r) : x = r[j]
      BY <2>1, <3>1 DEF Elements
    <3>3. x = e \/ \E k \in DOMAIN t : x = t[k]
      BY <1>6, <3>1, <3>2
    <3>4. x = e \/ x \in Elements(btree[value])
      BY <3>3 DEF Elements
    <3> QED  BY <3>4 DEF AllEntries
  <2>3. CASE v # value
    <3>1. btree'[v] = btree[v]
      BY <1>4, <2>3
    <3> QED  BY <2>1, <3>1 DEF AllEntries
  <2> QED  BY <2>2, <2>3
<1> QED  BY <1>5, <1>7

\* The numbers of a path after it has got a new one.
LEMMA Numbered ==
  ASSUME XmlInv, NEW path \in PathName, max_pcr' = max_pcr + 1,
         data_guide' = [data_guide EXCEPT ![path] = Append(data_guide[path], max_pcr')]
  PROVE  /\ max_pcr' \in Nat /\ data_guide' \in [PathName -> Seq(1..max_pcr')]
         /\ Pcrs(path)' = Pcrs(path) \cup {max_pcr'}
         /\ \A p \in PathName : p # path => Pcrs(p)' = Pcrs(p)
         /\ \A p \in PathName : max_pcr' \notin Pcrs(p)
<1>1. /\ max_pcr \in Nat /\ data_guide \in [PathName -> Seq(1..max_pcr)]
      /\ max_pcr' \in Nat
  BY DEF XmlInv
<1>2. \A p \in PathName : data_guide[p] \in Seq(1..max_pcr')
  <2> TAKE p \in PathName
  <2> DEFINE t == data_guide[p]
  <2>1. t \in Seq(1..max_pcr)
    BY <1>1
  <2> HIDE DEF t
  <2>2. Len(t) \in Nat /\ t = [i \in 1..Len(t) |-> t[i]] /\ \A i \in 1..Len(t) : t[i] \in 1..max_pcr'
    BY <1>1, <2>1
  <2>3. [i \in 1..Len(t) |-> t[i]] \in Seq(1..max_pcr')
    BY <2>2
  <2>4. t \in Seq(1..max_pcr')
    BY <2>2, <2>3
  <2> QED  BY <2>4 DEF t
<1> DEFINE t == data_guide[path]
           r == Append(t, max_pcr')
<1>3. /\ t \in Seq(1..max_pcr') /\ Len(t) \in Nat /\ DOMAIN t = 1..Len(t)
      /\ max_pcr' \in 1..max_pcr'
  BY <1>1, <1>2
<1>4. /\ r \in Seq(1..max_pcr') /\ DOMAIN r = 1..(Len(t) + 1)
      /\ \A i \in 1..Len(t) : r[i] = t[i]
      /\ r[Len(t) + 1] = max_pcr'
  <2> HIDE DEF t
  <2> DEFINE c == max_pcr'
             u == Append(t, c)
  <2>1. t \in Seq(1..c) /\ c \in 1..c
    BY <1>3
  <2> HIDE DEF c
  <2>2. /\ u \in Seq(1..c) /\ DOMAIN u = 1..(Len(t) + 1)
        /\ \A i \in 1..Len(t) : u[i] = t[i]
        /\ u[Len(t) + 1] = c
    BY <2>1
  <2> QED  BY <2>2 DEF c
<1> HIDE DEF r
<1>5. data_guide' = [data_guide EXCEPT ![path] = r]
  BY DEF r
<1>6. data_guide' \in [PathName -> Seq(1..max_pcr')]
  BY <1>1, <1>2, <1>4, <1>5
<1>7. Pcrs(path)' = Pcrs(path) \cup {max_pcr'}
  <2>1. data_guide'[path] = r
    BY <1>1, <1>5
  <2>2. {r[i] : i \in 1..(Len(t) + 1)} = {t[i] : i \in 1..Len(t)} \cup {max_pcr'}
    <3>1. \A i \in 1..(Len(t) + 1) : i \in 1..Len(t) \/ i = Len(t) + 1
      BY <1>3
    <3>2. \A i \in 1..Len(t) : i \in 1..(Len(t) + 1)
      BY <1>3
    <3>3. Len(t) + 1 \in 1..(Len(t) + 1)
      BY <1>3
    <3> HIDE DEF t
    <3> QED  BY <1>4, <3>1, <3>2, <3>3
  <2> QED  BY <1>3, <1>4, <2>1, <2>2 DEF Pcrs, Elements
<1>8. \A p \in PathName : p # path => Pcrs(p)' = Pcrs(p)
  BY <1>1, <1>5 DEF Pcrs, Elements
<1>9. ASSUME NEW p \in PathName  PROVE max_pcr' \notin Pcrs(p)
  <2>1. \A i \in DOMAIN data_guide[p] : data_guide[p][i] \in 1..max_pcr
    <3> DEFINE u == data_guide[p]
    <3>1. u \in Seq(1..max_pcr)
      BY <1>1
    <3> HIDE DEF u
    <3>2. \A i \in DOMAIN u : u[i] \in 1..max_pcr
      <4> DEFINE R == 1..max_pcr
      <4>1. u \in Seq(R)
        BY <3>1
      <4> HIDE DEF R
      <4>2. \A i \in DOMAIN u : u[i] \in R
        BY <4>1
      <4> QED  BY <4>2 DEF R
    <3> QED  BY <3>2 DEF u
  <2>2. max_pcr' \notin 1..max_pcr
    BY <1>1
  <2> QED  BY <2>1, <2>2 DEF Pcrs, Elements
<1> QED  BY <1>1, <1>6, <1>7, <1>8, <1>9

\* Insert with ComputePcr (casxml.cpp:25-61).
LEMMA XInsertInv ==
  ASSUME XmlInv, NEW path \in PathName, NEW value \in XValues, NEW ref \in Nat,
         XInsert(path, value, ref)
  PROVE  /\ XmlInv' /\ doomed' = doomed
         /\ \E pcr \in Nat : Enters(value, Entry(pcr, ref, path))
<1>0. /\ max_pcr \in Nat /\ data_guide \in [PathName -> Seq(1..max_pcr)]
      /\ btree \in [XValues -> Seq(XEntry)]
      /\ \A p, q \in PathName : p # q => Pcrs(p) \cap Pcrs(q) = {}
      /\ \A e \in AllEntries : Denotes[e.path] = {e.path} => e.pcr \in Pcrs(e.path)
  BY DEF XmlInv
<1>1. PICK found \in QueryDataGuide(path) :
    \/ /\ found # {}
       /\ \E pcr \in found : Insert2(value, Entry(pcr, ref, path))
       /\ UNCHANGED <<data_guide, max_pcr, doomed>>
    \/ /\ found = {}
       /\ max_pcr' = max_pcr + 1
       /\ data_guide' = [data_guide EXCEPT ![path] = Append(@, max_pcr')]
       /\ Insert2(value, Entry(max_pcr', ref, path))
       /\ doomed' = doomed
  BY DEF XInsert
<1>2. \A pcr : Insert2(value, Entry(pcr, ref, path)) => Enters(value, Entry(pcr, ref, path))
  BY DEF Insert2, Enters
<1>3. \A pcr \in Nat : /\ Entry(pcr, ref, path) \in XEntry
                       /\ Entry(pcr, ref, path).path = path
                       /\ Entry(pcr, ref, path).pcr = pcr
  BY DEF Entry, XEntry
<1>4. CASE found # {}
  <2>1. PICK pcr \in found : Insert2(value, Entry(pcr, ref, path))
    BY <1>1, <1>4
  <2>2. UNCHANGED <<data_guide, max_pcr, doomed>>
    BY <1>1, <1>4
  <2>3. PICK p \in Denotes[path] \cap Stored : pcr \in Pcrs(p)
    BY <1>1, <2>1 DEF QueryDataGuide
  <2>4. pcr \in Nat
    <3> DEFINE u == data_guide[p]
    <3>1. u \in Seq(1..max_pcr) /\ p \in PathName
      BY <1>0, <2>3 DEF Stored
    <3>2. \E i \in DOMAIN u : pcr = u[i]
      BY <2>3 DEF Pcrs, Elements
    <3> HIDE DEF u
    <3> QED  BY <1>0, <3>1, <3>2
  <2> DEFINE e == Entry(pcr, ref, path)
  <2>5. e \in XEntry /\ e.path = path /\ e.pcr = pcr /\ Enters(value, e)
    BY <1>2, <1>3, <2>1, <2>4
  <2> HIDE DEF e
  <2>6. /\ btree' \in [XValues -> Seq(XEntry)]
        /\ \A x \in AllEntries' : x \in AllEntries \/ x = e
    BY <1>0, <2>5, EnteredElements
  <2>7. \A q : Pcrs(q)' = Pcrs(q)
    BY <2>2 DEF Pcrs
  <2>8. Denotes[path] = {path} => pcr \in Pcrs(path)
    BY <2>3
  <2>9. XmlInv'
    BY <1>0, <2>2, <2>5, <2>6, <2>7, <2>8 DEF XmlInv
  <2> QED  BY <2>2, <2>4, <2>5, <2>9 DEF e
<1>5. CASE found = {}
  <2>1. /\ max_pcr' = max_pcr + 1
        /\ data_guide' = [data_guide EXCEPT ![path] = Append(data_guide[path], max_pcr')]
        /\ Insert2(value, Entry(max_pcr', ref, path))
        /\ doomed' = doomed
    BY <1>1, <1>5
  <2>2. /\ max_pcr' \in Nat /\ data_guide' \in [PathName -> Seq(1..max_pcr')]
        /\ Pcrs(path)' = Pcrs(path) \cup {max_pcr'}
        /\ \A p \in PathName : p # path => Pcrs(p)' = Pcrs(p)
        /\ \A p \in PathName : max_pcr' \notin Pcrs(p)
    BY <2>1, Numbered
  <2> DEFINE e == Entry(max_pcr', ref, path)
  <2>3. e \in XEntry /\ e.path = path /\ e.pcr = max_pcr' /\ Enters(value, e)
    BY <1>2, <1>3, <2>1, <2>2
  <2> HIDE DEF e
  <2>4. /\ btree' \in [XValues -> Seq(XEntry)]
        /\ \A x \in AllEntries' : x \in AllEntries \/ x = e
    BY <1>0, <2>3, EnteredElements
  <2>5. ASSUME NEW p \in PathName, NEW q \in PathName, p # q
        PROVE  Pcrs(p)' \cap Pcrs(q)' = {}
    <3>1. Pcrs(p) \cap Pcrs(q) = {} /\ max_pcr' \notin Pcrs(p) /\ max_pcr' \notin Pcrs(q)
      BY <1>0, <2>2, <2>5
    <3>2. CASE p = path
      BY <2>2, <2>5, <3>1, <3>2
    <3>3. CASE q = path
      BY <2>2, <2>5, <3>1, <3>3
    <3>4. CASE p # path /\ q # path
      BY <2>2, <3>1, <3>4
    <3> QED  BY <3>2, <3>3, <3>4
  <2>6. \A p \in PathName : \A c \in Pcrs(p) : c \in Pcrs(p)'
    BY <2>2
  <2>7. ASSUME NEW x \in AllEntries', Denotes[x.path] = {x.path}  PROVE x.pcr \in Pcrs(x.path)'
    <3>1. CASE x = e
      BY <2>2, <2>3, <3>1
    <3>2. CASE x \in AllEntries
      <4>1. x.pcr \in Pcrs(x.path)
        BY <1>0, <2>7, <3>2
      <4>2. x.path \in PathName
        <5>1. PICK v \in XValues : \E i \in DOMAIN btree[v] : x = btree[v][i]
          BY <3>2 DEF AllEntries, Elements
        <5> DEFINE u == btree[v]
        <5>2. u \in Seq(XEntry) /\ \E i \in DOMAIN u : x = u[i]
          BY <1>0, <5>1
        <5> HIDE DEF u
        <5>3. x \in XEntry
          BY <5>2
        <5> QED  BY <5>3 DEF XEntry
      <4> QED  BY <2>6, <4>1, <4>2
    <3> QED  BY <2>4, <3>1, <3>2
  <2>8. XmlInv'
    BY <2>2, <2>4, <2>5, <2>7 DEF XmlInv
  <2> QED  BY <2>1, <2>2, <2>3, <2>8 DEF e
<1> QED  BY <1>4, <1>5

\* Delete only takes entries away.
LEMMA DeleteInv ==
  ASSUME XmlInv, doomed.value \in XValues, DeleteSteps
  PROVE  XmlInv'
<1>0. /\ max_pcr \in Nat /\ data_guide \in [PathName -> Seq(1..max_pcr)]
      /\ btree \in [XValues -> Seq(XEntry)]
      /\ \A p, q \in PathName : p # q => Pcrs(p) \cap Pcrs(q) = {}
      /\ \A e \in AllEntries : Denotes[e.path] = {e.path} => e.pcr \in Pcrs(e.path)
  BY DEF XmlInv
<1>1. UNCHANGED <<data_guide, max_pcr>>
  BY DEF DeleteSteps, DeleteFound, DeleteDone
<1>2. \A q : Pcrs(q)' = Pcrs(q)
  BY <1>1 DEF Pcrs
<1> DEFINE v == doomed.value
           t == btree[v]
<1>3. CASE btree' = btree
  <2>1. AllEntries' = AllEntries
    BY <1>3 DEF AllEntries
  <2> QED  BY <1>0, <1>1, <1>2, <1>3, <2>1 DEF XmlInv
<1>4. CASE btree' = [btree EXCEPT ![v] = Tail(t)] /\ t # <<>>
  <2>1. t \in Seq(XEntry)
    BY <1>0
  <2> DEFINE r == Tail(t)
  <2>2. /\ r \in Seq(XEntry) /\ \A j \in DOMAIN r : j + 1 \in DOMAIN t /\ r[j] = t[j + 1]
    <3> HIDE DEF t
    <3> QED  BY <1>4, <2>1
  <2> HIDE DEF r
  <2>3. btree' = [btree EXCEPT ![v] = r]
    BY <1>4 DEF r
  <2>4. btree' \in [XValues -> Seq(XEntry)]
    BY <1>0, <2>2, <2>3
  <2>5. ASSUME NEW x \in AllEntries'  PROVE x \in AllEntries
    <3>1. PICK w \in XValues : x \in Elements(btree'[w])
      BY <2>5 DEF AllEntries, Elements
    <3>2. CASE w = v
      <4>1. btree'[w] = r
        BY <1>0, <2>3, <3>2
      <4>2. PICK j \in DOMAIN r : x = r[j]
        BY <3>1, <4>1 DEF Elements
      <4>3. x \in Elements(t)
        BY <2>2, <4>2 DEF Elements
      <4> QED  BY <4>3 DEF AllEntries
    <3>3. CASE w # v
      <4>1. btree'[w] = btree[w]
        BY <1>0, <2>3, <3>3
      <4> QED  BY <3>1, <4>1 DEF AllEntries
    <3> QED  BY <3>2, <3>3
  <2> QED  BY <1>0, <1>1, <1>2, <2>4, <2>5 DEF XmlInv
<1>5. btree' = btree \/ (btree' = [btree EXCEPT ![v] = Tail(t)] /\ t # <<>>)
  BY DEF DeleteSteps, DeleteFound, DeleteDone, Equals
<1> QED  BY <1>3, <1>4, <1>5

\* With plain paths no entry is found under a path it was not inserted under,
\* and none is lost that the data guide does not miss.
LEMMA XmlInvExact ==
  ASSUME XmlInv
  PROVE  XmlQueryExact
<1> SUFFICES ASSUME OnlyPlainPaths, NEW pattern \in Pattern, NEW pcrs \in QueryDataGuide(pattern),
                    NEW e \in AllEntries
             PROVE  /\ e.pcr \in pcrs => /\ e.path \in Denotes[pattern]
                                         /\ \A p \in Stored : e.pcr \in Pcrs(p) => p = e.path
                    /\ e.path \in Denotes[pattern] \ MayMiss(pattern) => e.pcr \in pcrs
  BY DEF XmlQueryExact
<1>1. /\ btree \in [XValues -> Seq(XEntry)]
      /\ \A p, q \in PathName : p # q => Pcrs(p) \cap Pcrs(q) = {}
      /\ e.pcr \in Pcrs(e.path)
  BY DEF XmlInv, OnlyPlainPaths
<1>2. e.path \in PathName
  <2>1. PICK v \in XValues : \E i \in DOMAIN btree[v] : e = btree[v][i]
    BY DEF AllEntries, Elements
  <2> DEFINE u == btree[v]
  <2>2. u \in Seq(XEntry) /\ \E i \in DOMAIN u : e = u[i]
    BY <1>1, <2>1
  <2> HIDE DEF u
  <2>3. e \in XEntry
    BY <2>2
  <2> QED  BY <2>3 DEF XEntry
<1>3. PICK missed \in SUBSET MayMiss(pattern) :
        pcrs = UNION {Pcrs(p) : p \in (Denotes[pattern] \cap Stored) \ missed}
  BY DEF QueryDataGuide
<1>4. \A p \in PathName : e.pcr \in Pcrs(p) => p = e.path
  BY <1>1, <1>2
<1>5. e.path \in Stored
  <2>1. data_guide[e.path] # <<>>
    <3>1. \E i \in DOMAIN data_guide[e.path] : TRUE
      BY <1>1 DEF Pcrs, Elements
    <3> QED  BY <3>1
  <2> QED  BY <1>2, <2>1 DEF Stored
<1>6. e.pcr \in pcrs => e.path \in Denotes[pattern]
  BY <1>3, <1>4 DEF Stored
<1>7. e.path \in Denotes[pattern] \ MayMiss(pattern) => e.pcr \in pcrs
  BY <1>1, <1>3, <1>5
<1> QED  BY <1>4, <1>6, <1>7 DEF Stored

-----------------------------------------------------------------------------
(* Imports                                                                  *)

XLine == [path : PathName, value : XValues \cup {Unparsable}, ref : Nat \cup {NoRef, Unparsable}]
XKey == PathName \X XValues \X XRefs

\* The first n lines of the file f parse.
Parsed(f, n) == \A i \in 1..n : Parses(f[i])

\* s is the file f without its first n lines.
Behind(s, f, n) ==
  /\ s \in Seq(XLine) /\ Len(s) = Len(f) - n
  /\ \A i \in 1..(Len(f) - n) : s[i] = f[n + i]

\* Line i with its reference, and the deque s of the lines behind a up to b.
Resolved(f, i) == [f[i] EXCEPT !.ref = ExpectedRef(f, i)]
KeysAre(s, f, a, b) ==
  /\ s \in Seq([path : PathName, value : XValues, ref : Nat]) /\ Len(s) = b - a
  /\ \A i \in 1..(b - a) : s[i] = Resolved(f, a + i)

\* The contents ct are what was there before and the first n lines of f.
Holds(ct, before, f, n) ==
  ct = [k \in XKey |-> before[k] + Cardinality(LinesOf(f, 1..n, k))]

LEMMA ParsedLine ==
  ASSUME NEW f \in Seq(XLine), NEW n \in Nat, Parsed(f, n), n <= Len(f), NEW i \in 1..n
  PROVE  /\ f[i] \in XLine /\ f[i].path \in PathName /\ f[i].value \in XValues
         /\ f[i].ref # NoRef => f[i].ref \in Nat
<1>1. f[i] \in XLine /\ Parses(f[i])
  BY DEF Parsed
<1> DEFINE l == f[i]
<1>2. l \in XLine /\ Parses(l)
  BY <1>1
<1> HIDE DEF l
<1>3. l.path \in PathName /\ l.value \in XValues /\ (l.ref # NoRef => l.ref \in Nat)
  BY <1>2 DEF XLine, Parses
<1> QED  BY <1>2, <1>3 DEF l

\* Every non-empty set of lines has a last one.
LEMMA LastLine ==
  ASSUME NEW n \in Nat, NEW S \in SUBSET (1..n), S # {}
  PROVE  \E j \in S : \A k \in S : k <= j
<1> DEFINE D == {n - j : j \in S}
<1>1. D \in SUBSET Nat /\ D # {}
  <2>1. \A j \in S : n - j \in Nat
    OBVIOUS
  <2> QED  BY <2>1
<1>2. \A j \in S : n - j \in D
  OBVIOUS
<1>3. \A d \in D : \E j \in S : d = n - j
  OBVIOUS
<1> HIDE DEF D
<1>4. Least(D) \in D /\ \A d \in D : Least(D) <= d
  BY <1>1, LeastIsLeast
<1>5. PICK j \in S : Least(D) = n - j
  BY <1>3, <1>4
<1>6. \A k \in S : k <= j
  <2> TAKE k \in S
  <2>1. n - j <= n - k /\ k \in Int /\ j \in Int
    BY <1>2, <1>4, <1>5
  <2> QED  BY <2>1
<1> QED  BY <1>6

\* The reference of a line without one is that of the line before it and one.
LEMMA ExpectedSteps ==
  ASSUME NEW f \in Seq(XLine), NEW n \in Nat, n <= Len(f), Parsed(f, n)
  PROVE  /\ ExpectedRef(f, n) \in Nat
         /\ n = 0 => ExpectedRef(f, n) = 0
         /\ n > 0 => ExpectedRef(f, n) = IF f[n].ref = NoRef THEN ExpectedRef(f, n - 1) + 1 ELSE f[n].ref
<1> DEFINE G(m) == {j \in 1..m : f[j].ref # NoRef}
           C(m) == CHOOSE j \in G(m) : \A k \in G(m) : k <= j
<1>1. \A m : ExpectedRef(f, m) = IF G(m) = {} THEN m ELSE f[C(m)].ref + (m - C(m))
  BY DEF ExpectedRef
<1>2. ASSUME NEW m \in Nat, m <= n, G(m) # {}
      PROVE  C(m) \in G(m) /\ (\A k \in G(m) : k <= C(m)) /\ C(m) \in 1..m
  <2>1. \E j \in G(m) : \A k \in G(m) : k <= j
    <3> DEFINE S == G(m)
    <3>1. S \in SUBSET (1..m) /\ S # {}
      BY <1>2
    <3> HIDE DEF S
    <3>2. \E j \in S : \A k \in S : k <= j
      BY <3>1, LastLine
    <3> QED  BY <3>2 DEF S
  <2> QED  BY <2>1
<1>3. \A j \in 1..n : f[j].ref # NoRef => f[j].ref \in Nat
  BY ParsedLine
<1>4. ASSUME NEW m \in Nat, m <= n  PROVE ExpectedRef(f, m) \in Nat
  <2>1. CASE G(m) = {}
    BY <1>1, <2>1
  <2>2. CASE G(m) # {}
    <3>1. C(m) \in 1..m /\ f[C(m)].ref # NoRef
      BY <1>2, <1>4, <2>2
    <3> DEFINE c == C(m)
    <3>2. ExpectedRef(f, m) = f[c].ref + (m - c)
      BY <1>1, <2>2
    <3>3. c \in 1..m /\ f[c].ref # NoRef
      BY <3>1
    <3> HIDE DEF c
    <3>4. c \in 1..m /\ c \in 1..n /\ f[c].ref # NoRef /\ ExpectedRef(f, m) = f[c].ref + (m - c)
      BY <1>4, <3>2, <3>3
    <3>5. f[c].ref \in Nat /\ m - c \in Nat
      BY <1>3, <3>4
    <3> QED  BY <3>4, <3>5
  <2> QED  BY <2>1, <2>2
<1>5. n = 0 => ExpectedRef(f, n) = 0
  <2>1. n = 0 => G(n) = {}
    OBVIOUS
  <2> QED  BY <1>1, <2>1
<1>6. ASSUME n > 0, f[n].ref # NoRef  PROVE ExpectedRef(f, n) = f[n].ref
  <2>1. n \in G(n) /\ G(n) # {}
    BY <1>6
  <2>2. C(n) = n
    <3>1. C(n) \in 1..n /\ n <= C(n)
      BY <1>2, <2>1
    <3> DEFINE c == C(n)
    <3>2. c \in 1..n /\ n <= c
      BY <3>1
    <3> HIDE DEF c
    <3>3. c = n
      BY <3>2
    <3> QED  BY <3>3 DEF c
  <2>3. ExpectedRef(f, n) = f[n].ref + (n - n)
    BY <1>1, <2>1, <2>2
  <2>4. f[n].ref \in Nat /\ n - n = 0
    BY <1>3, <1>6
  <2> HIDE DEF C, G
  <2> QED  BY <2>3, <2>4
<1>7. ASSUME n > 0, f[n].ref = NoRef  PROVE ExpectedRef(f, n) = ExpectedRef(f, n - 1) + 1
  <2>1. G(n) = G(n - 1)
    <3>1. \A j \in 1..n : j = n \/ j \in 1..(n - 1)
      OBVIOUS
    <3>2. \A j \in 1..(n - 1) : j \in 1..n
      OBVIOUS
    <3> QED  BY <1>7, <3>1, <3>2
  <2>2. C(n) = C(n - 1)
    BY <2>1
  <2>3. CASE G(n) = {}
    BY <1>1, <1>7, <2>1, <2>3
  <2>4. CASE G(n) # {}
    <3>1. C(n) \in 1..n /\ f[C(n)].ref # NoRef
      BY <1>2, <2>4
    <3> DEFINE c == C(n)
    <3>2. /\ c \in 1..n /\ f[c].ref # NoRef
          /\ ExpectedRef(f, n) = f[c].ref + (n - c)
          /\ ExpectedRef(f, n - 1) = f[c].ref + ((n - 1) - c)
      BY <1>1, <2>1, <2>2, <2>4, <3>1
    <3> HIDE DEF c
    <3>3. f[c].ref \in Nat /\ c \in Int
      BY <1>3, <3>2
    <3> QED  BY <3>2, <3>3
  <2> QED  BY <2>3, <2>4
<1> HIDE DEF C, G
<1> QED  BY <1>4, <1>5, <1>6, <1>7

\* One line more.
LEMMA OneLineMore ==
  ASSUME NEW f \in Seq(XLine), NEW n \in Nat, n < Len(f), NEW k
  PROVE  LET key == <<f[n + 1].path, f[n + 1].value, ExpectedRef(f, n + 1)>>
         IN  /\ Cardinality(LinesOf(f, 1..n, k)) \in Nat
             /\ Cardinality(LinesOf(f, 1..(n + 1), k)) =
                  Cardinality(LinesOf(f, 1..n, k)) + IF k = key THEN 1 ELSE 0
<1> DEFINE key == <<f[n + 1].path, f[n + 1].value, ExpectedRef(f, n + 1)>>
           A == LinesOf(f, 1..n, k)
           C == LinesOf(f, 1..(n + 1), k)
<1>1. IsFiniteSet(A)
  <2>1. IsFiniteSet(1..n) /\ A \subseteq 1..n
    BY FS_Interval DEF LinesOf
  <2> QED  BY <2>1, FS_Subset
<1>2. n + 1 \notin A
  BY DEF LinesOf
<1>3. C = IF k = key THEN A \cup {n + 1} ELSE A
  <2>1. \A i : i \in 1..(n + 1) <=> i \in 1..n \/ i = n + 1
    OBVIOUS
  <2> QED  BY <2>1 DEF LinesOf
<1> HIDE DEF A, C, key
<1>4. /\ Cardinality(A) \in Nat /\ Cardinality(C) = Cardinality(A) + IF k = key THEN 1 ELSE 0
  <2>1. Cardinality(A) \in Nat /\ Cardinality(A \cup {n + 1}) = Cardinality(A) + 1
    BY <1>1, <1>2, FS_AddElement, FS_CardinalityType
  <2>2. CASE k = key
    BY <1>3, <2>1, <2>2
  <2>3. CASE k # key
    BY <1>3, <2>1, <2>3
  <2> QED  BY <2>1, <2>2, <2>3
<1> QED  BY <1>4 DEF A, C, key

LEMMA NoLines ==
  ASSUME NEW f, NEW k
  PROVE  Cardinality(LinesOf(f, {}, k)) = 0
<1>1. LinesOf(f, {}, k) = {}
  BY DEF LinesOf
<1> QED  BY <1>1, FS_EmptySet

\* The lines that arrive.
LEMMA ArrivedLines ==
  ASSUME NEW f \in Seq(XLine), NEW n \in Nat, n <= Len(f), Parsed(f, n)
  PROVE  /\ n = Len(f) => /\ ~ \E i \in DOMAIN f : ~Parses(f[i])
                          /\ \A how : Arrived(how, f) = 1..n
         /\ n < Len(f) /\ ~Parses(f[n + 1]) =>
              /\ \E i \in DOMAIN f : ~Parses(f[i])
              /\ Arrived("Load", f) = 1..n /\ Arrived("BulkLoad", f) = {}
<1> DEFINE bad == {i \in DOMAIN f : ~Parses(f[i])}
<1>1. DOMAIN f = 1..Len(f) /\ Len(f) \in Nat /\ \A i \in 1..n : Parses(f[i])
  BY DEF Parsed
<1>2. ASSUME n = Len(f)
      PROVE  (~ \E i \in DOMAIN f : ~Parses(f[i])) /\ \A how : Arrived(how, f) = 1..n
  <2>1. bad = {} /\ ~ \E i \in DOMAIN f : ~Parses(f[i])
    BY <1>1, <1>2
  <2>2. \A how : Arrived(how, f) = DOMAIN f
    BY <2>1 DEF Arrived
  <2> QED  BY <1>1, <1>2, <2>1, <2>2
<1>3. ASSUME n < Len(f), ~Parses(f[n + 1])
      PROVE  /\ \E i \in DOMAIN f : ~Parses(f[i])
             /\ Arrived("Load", f) = 1..n /\ Arrived("BulkLoad", f) = {}
  <2>1. n + 1 \in bad
    BY <1>1, <1>3
  <2>2. \A i \in bad : i \in Int /\ n < i
    BY <1>1
  <2>3. Arrived("BulkLoad", f) = {}
    BY <2>1 DEF Arrived
  <2>4. Arrived("Load", f) = {i \in DOMAIN f : \A j \in bad : i < j}
    BY DEF Arrived
  <2> HIDE DEF bad
  <2>5. {i \in DOMAIN f : \A j \in bad : i < j} = 1..n
    BY <1>1, <1>3, <2>1, <2>2
  <2>6. \E i \in DOMAIN f : ~Parses(f[i])
    BY <2>1 DEF bad
  <2> QED  BY <1>3, <2>3, <2>4, <2>5, <2>6
<1> HIDE DEF bad
<1> QED  BY <1>2, <1>3

\* What an insertion does to the numbers of the keys.
LEMMA EnteredContents ==
  ASSUME btree \in [XValues -> Seq(XEntry)], NEW path \in PathName, NEW value \in XValues,
         NEW ref \in Nat, NEW pcr \in Nat, Enters(value, Entry(pcr, ref, path))
  PROVE  \A k \in XKey : /\ Contents[k] \in Nat
                         /\ Contents'[k] = Contents[k] + IF k = <<path, value, ref>> THEN 1 ELSE 0
<1> DEFINE e == Entry(pcr, ref, path)
<1>1. e \in XEntry /\ e.path = path /\ e.ref = ref
  BY DEF Entry, XEntry
<1>2. PICK i \in 1..(Len(btree[value]) + 1) :
        btree' = [btree EXCEPT ![value] = InsertAt(btree[value], i, e)]
  BY DEF Enters
<1> HIDE DEF e
<1> SUFFICES ASSUME NEW p \in PathName, NEW v \in XValues, NEW r \in XRefs
             PROVE  LET k == <<p, v, r>>
                    IN  /\ Contents[k] \in Nat
                        /\ Contents'[k] = Contents[k] + IF k = <<path, value, ref>> THEN 1 ELSE 0
  BY DEF XKey
<1> DEFINE k == <<p, v, r>>
           H == {x \in XEntry : x.path = p /\ x.ref = r}
           Of(t) == {j \in 1..Len(t) : t[j] \in H}
<1>3. k \in PathName \X XValues \X XRefs /\ k[1] = p /\ k[2] = v /\ k[3] = r
  OBVIOUS
<1>4. Contents[k] = Count(p, v, r) /\ Contents'[k] = Count(p, v, r)'
  BY <1>3 DEF Contents
<1>5. \A t \in Seq(XEntry) :
        {j \in DOMAIN t : t[j].path = p /\ t[j].ref = r} = Of(t)
  OBVIOUS
<1>6. btree[v] \in Seq(XEntry) /\ btree'[v] \in Seq(XEntry)
  BY <1>1, EnteredElements DEF e
<1>7. Count(p, v, r) = Cardinality(Of(btree[v])) /\ Count(p, v, r)' = Cardinality(Of(btree'[v]))
  <2>1. /\ Count(p, v, r) = Cardinality({j \in DOMAIN btree[v] : btree[v][j].path = p /\ btree[v][j].ref = r})
        /\ Count(p, v, r)' = Cardinality({j \in DOMAIN btree'[v] : btree'[v][j].path = p /\ btree'[v][j].ref = r})
    BY DEF Count
  <2> HIDE DEF Of
  <2> QED  BY <1>5, <1>6, <2>1
<1>8. Cardinality(Of(btree[v])) \in Nat
  <2> DEFINE t == btree[v]
  <2>1. Len(t) \in Nat
    BY <1>6
  <2>2. IsFiniteSet(1..Len(t)) /\ Of(t) \subseteq 1..Len(t)
    BY <2>1, FS_Interval
  <2> HIDE DEF Of, t
  <2>3. IsFiniteSet(Of(t))
    BY <2>2, FS_Subset
  <2> QED  BY <2>3, FS_CardinalityType DEF t
<1>9. CASE v = value
  <2> DEFINE t == btree[value]
  <2>1. t \in Seq(XEntry) /\ btree'[v] = InsertAt(t, i, e) /\ btree[v] = t /\ i \in 1..(Len(t) + 1)
    BY <1>2, <1>9
  <2> HIDE DEF t, H
  <2>2. Cardinality(Of(InsertAt(t, i, e))) = Cardinality(Of(t)) + IF e \in H THEN 1 ELSE 0
    BY <1>1, <2>1, InsertedCount
  <2>3. e \in H <=> k = <<path, value, ref>>
    BY <1>1, <1>9 DEF H
  <2> HIDE DEF Of, k
  <2>4. Contents'[k] = Contents[k] + IF k = <<path, value, ref>> THEN 1 ELSE 0
    BY <1>4, <1>7, <2>1, <2>2, <2>3
  <2>5. Contents[k] \in Nat
    BY <1>4, <1>7, <1>8
  <2> QED  BY <2>4, <2>5 DEF k
<1>10. CASE v # value
  <2>1. btree'[v] = btree[v] /\ k # <<path, value, ref>>
    BY <1>2, <1>10
  <2> HIDE DEF Of, k
  <2>2. Contents'[k] = Contents[k] + 0 /\ Contents[k] \in Nat
    BY <1>4, <1>7, <1>8, <2>1
  <2> QED  BY <2>1, <2>2 DEF k
<1> QED  BY <1>9, <1>10

\* Where an import stands behind n lines of its file: a Load has inserted them, a
\* BulkLoad has them in its deque and inserts them when all are there.
Reached(n) ==
  IF op = "inserting"
  THEN /\ Parsed(last.file, Len(last.file))
       /\ Holds(Contents, last.before, last.file, n)
       /\ KeysAre(keys, last.file, n, Len(last.file))
  ELSE /\ Parsed(last.file, n) /\ Behind(lines, last.file, n)
       /\ highest_ref = ExpectedRef(last.file, n)
       /\ IF op = "Load" THEN Holds(Contents, last.before, last.file, n)
          ELSE Holds(Contents, last.before, last.file, 0) /\ KeysAre(keys, last.file, 0, n)

Importing ==
  /\ op \in {"Load", "BulkLoad", "inserting"} /\ doomed = NoDelete
  /\ last \in [op : {IF op = "Load" THEN "Load" ELSE "BulkLoad"}, file : Seq(XLine),
               before : [XKey -> Nat], failed : {FALSE}]
  /\ \E n \in 0..Len(last.file) : Reached(n)

\* Between two imports.
Resting ==
  /\ op = "none" /\ ImportExact
  /\ doomed # NoDelete => doomed.value \in XValues /\ last.op = "none"

CsvInv == XmlInv /\ (Importing \/ Resting)

LEMMA ContentsOK ==
  ASSUME btree \in [XValues -> Seq(XEntry)]
  PROVE  Contents \in [XKey -> Nat]
<1>1. Contents = [k \in XKey |-> Count(k[1], k[2], k[3])]
  BY DEF Contents, XKey
<1>2. ASSUME NEW k \in XKey  PROVE Count(k[1], k[2], k[3]) \in Nat
  <2> DEFINE t == btree[k[2]]
             A == {i \in DOMAIN t : t[i].path = k[1] /\ t[i].ref = k[3]}
  <2>1. t \in Seq(XEntry) /\ Count(k[1], k[2], k[3]) = Cardinality(A)
    BY DEF XKey, Count
  <2> HIDE DEF t
  <2>2. IsFiniteSet(1..Len(t)) /\ A \subseteq 1..Len(t)
    <3>1. Len(t) \in Nat /\ DOMAIN t = 1..Len(t)
      BY <2>1
    <3> QED  BY <3>1, FS_Interval
  <2> HIDE DEF A
  <2>3. IsFiniteSet(A)
    BY <2>2, FS_Subset
  <2> QED  BY <2>1, <2>3, FS_CardinalityType
<1> HIDE DEF Contents
<1> QED  BY <1>1, <1>2

LEMMA SameContents ==
  ASSUME UNCHANGED btree
  PROVE  Contents' = Contents
BY DEF Contents, Count

\* Inserting the next line.
LEMMA NextLine ==
  ASSUME XmlInv, NEW f \in Seq(XLine), NEW n \in Nat, n < Len(f), Parsed(f, n + 1),
         NEW before \in [XKey -> Nat], Holds(Contents, before, f, n),
         XInsert(f[n + 1].path, f[n + 1].value, ExpectedRef(f, n + 1))
  PROVE  XmlInv' /\ doomed' = doomed /\ Holds(Contents', before, f, n + 1)
<1> DEFINE path == f[n + 1].path
           value == f[n + 1].value
           ref == ExpectedRef(f, n + 1)
<1>1. path \in PathName /\ value \in XValues /\ ref \in Nat
  <2>1. n + 1 \in Nat /\ n + 1 <= Len(f) /\ n + 1 \in 1..(n + 1)
    OBVIOUS
  <2> QED  BY <2>1, ParsedLine, ExpectedSteps
<1>2. btree \in [XValues -> Seq(XEntry)]
  BY DEF XmlInv
<1>3. XInsert(path, value, ref)
  OBVIOUS
<1>4. \A k : /\ Cardinality(LinesOf(f, 1..n, k)) \in Nat
             /\ Cardinality(LinesOf(f, 1..(n + 1), k)) =
                  Cardinality(LinesOf(f, 1..n, k)) + IF k = <<path, value, ref>> THEN 1 ELSE 0
  BY OneLineMore
<1> HIDE DEF path, value, ref
<1>5. XmlInv' /\ doomed' = doomed
  BY <1>1, <1>3, XInsertInv
<1>6. PICK pcr \in Nat : Enters(value, Entry(pcr, ref, path))
  BY <1>1, <1>3, XInsertInv
<1>7. \A k \in XKey : /\ Contents[k] \in Nat
                      /\ Contents'[k] = Contents[k] + IF k = <<path, value, ref>> THEN 1 ELSE 0
  BY <1>1, <1>2, <1>6, EnteredContents
<1>8. Contents' = [k \in XKey |-> Contents'[k]]
  BY DEF Contents, XKey
<1>9. \A k \in XKey : Contents[k] = before[k] + Cardinality(LinesOf(f, 1..n, k))
  BY DEF Holds
<1> HIDE DEF Contents
<1>10. \A k \in XKey : Contents'[k] = before[k] + Cardinality(LinesOf(f, 1..(n + 1), k))
  <2> TAKE k \in XKey
  <2> DEFINE a == Cardinality(LinesOf(f, 1..n, k))
             c == Cardinality(LinesOf(f, 1..(n + 1), k))
             x == IF k = <<path, value, ref>> THEN 1 ELSE 0
  <2>1. /\ a \in Nat /\ c = a + x /\ x \in Nat /\ before[k] \in Nat
        /\ Contents[k] = before[k] + a /\ Contents'[k] = Contents[k] + x
    BY <1>4, <1>7, <1>9
  <2> HIDE DEF a, c, x
  <2>2. Contents'[k] = before[k] + c
    BY <2>1
  <2> QED  BY <2>2 DEF c
<1>11. Holds(Contents', before, f, n + 1)
  BY <1>8, <1>10 DEF Holds
<1> QED  BY <1>5, <1>11

\* The line that is read next.
LEMMA HeadLine ==
  ASSUME NEW f \in Seq(XLine), NEW n \in 0..Len(f), Parsed(f, n), Behind(lines, f, n),
         lines # <<>>
  PROVE  /\ n \in Nat /\ n < Len(f) /\ n + 1 \in 0..Len(f) /\ Head(lines) = f[n + 1]
         /\ Behind(Tail(lines), f, n + 1)
         /\ Parses(Head(lines)) /\ highest_ref = ExpectedRef(f, n) =>
              /\ Parsed(f, n + 1)
              /\ RefOf(Head(lines)) = ExpectedRef(f, n + 1)
<1>1. /\ lines \in Seq(XLine) /\ Len(lines) = Len(f) - n /\ Len(f) \in Nat /\ n \in Nat
      /\ \A i \in 1..(Len(f) - n) : lines[i] = f[n + i]
  BY DEF Behind
<1>2. Len(lines) \in Nat /\ Len(lines) > 0 /\ Head(lines) = lines[1]
  BY <1>1
<1>3. n < Len(f) /\ n + 1 \in 0..Len(f) /\ 1 \in 1..(Len(f) - n) /\ Head(lines) = f[n + 1]
  <2>1. 1 \in 1..(Len(f) - n) /\ n < Len(f)
    BY <1>1, <1>2
  <2> QED  BY <1>1, <1>2, <2>1
<1> DEFINE r == Tail(lines)
<1>4. r \in Seq(XLine) /\ Len(r) = Len(lines) - 1 /\ \A i \in 1..(Len(lines) - 1) : r[i] = lines[i + 1]
  BY <1>1, <1>2
<1> HIDE DEF r
<1>5. Behind(r, f, n + 1)
  <2>1. \A i \in 1..(Len(f) - (n + 1)) : r[i] = f[(n + 1) + i]
    <3> TAKE i \in 1..(Len(f) - (n + 1))
    <3>1. i \in 1..(Len(lines) - 1) /\ i + 1 \in 1..(Len(f) - n) /\ n + (i + 1) = (n + 1) + i
      BY <1>1, <1>3
    <3>2. r[i] = lines[i + 1] /\ lines[i + 1] = f[n + (i + 1)]
      BY <1>1, <1>4, <3>1
    <3> QED  BY <3>1, <3>2
  <2>2. Len(r) = Len(f) - (n + 1)
    BY <1>1, <1>4
  <2> QED  BY <1>4, <2>1, <2>2 DEF Behind
<1>6. ASSUME Parses(Head(lines)), highest_ref = ExpectedRef(f, n)
      PROVE  Parsed(f, n + 1) /\ RefOf(Head(lines)) = ExpectedRef(f, n + 1)
  <2>1. Parsed(f, n + 1)
    <3>1. \A i \in 1..(n + 1) : i \in 1..n \/ i = n + 1
      BY <1>1
    <3> QED  BY <1>3, <1>6, <3>1 DEF Parsed
  <2>2. ExpectedRef(f, n + 1) = IF f[n + 1].ref = NoRef THEN ExpectedRef(f, n) + 1 ELSE f[n + 1].ref
    <3>1. n + 1 \in Nat /\ n + 1 <= Len(f) /\ n + 1 > 0 /\ (n + 1) - 1 = n
      BY <1>1, <1>3
    <3> DEFINE m == n + 1
    <3>2. m \in Nat /\ m <= Len(f) /\ m > 0 /\ m - 1 = n /\ Parsed(f, m)
      BY <2>1, <3>1
    <3> HIDE DEF m
    <3>3. ExpectedRef(f, m) = IF f[m].ref = NoRef THEN ExpectedRef(f, m - 1) + 1 ELSE f[m].ref
      BY <3>2, ExpectedSteps
    <3> QED  BY <3>2, <3>3 DEF m
  <2> QED  BY <1>3, <1>6, <2>1, <2>2 DEF RefOf
<1> QED  BY <1>1, <1>3, <1>5, <1>6 DEF r

\* At the end of an import, and when it throws.
LEMMA ImportEnds ==
  ASSUME NEW f \in Seq(XLine), Parsed(f, Len(f)), NEW how, NEW before \in [XKey -> Nat],
         Holds(Contents, before, f, Len(f))
  PROVE  /\ ~ \E i \in DOMAIN f : ~Parses(f[i])
         /\ Contents = [k \in DOMAIN before |->
              before[k] + Cardinality(LinesOf(f, Arrived(how, f), k))]
<1>1. Len(f) \in Nat /\ DOMAIN before = XKey
  OBVIOUS
<1>2. (~ \E i \in DOMAIN f : ~Parses(f[i])) /\ Arrived(how, f) = 1..Len(f)
  BY <1>1, ArrivedLines
<1> QED  BY <1>1, <1>2 DEF Holds

LEMMA ImportThrows ==
  ASSUME NEW f \in Seq(XLine), NEW n \in Nat, n < Len(f), Parsed(f, n), ~Parses(f[n + 1]),
         NEW how \in {"Load", "BulkLoad"}, NEW before \in [XKey -> Nat],
         Holds(Contents, before, f, IF how = "Load" THEN n ELSE 0)
  PROVE  /\ \E i \in DOMAIN f : ~Parses(f[i])
         /\ Contents = [k \in DOMAIN before |->
              before[k] + Cardinality(LinesOf(f, Arrived(how, f), k))]
<1>1. DOMAIN before = XKey /\ 1..0 = {} /\ n <= Len(f)
  OBVIOUS
<1>2. /\ \E i \in DOMAIN f : ~Parses(f[i])
      /\ Arrived("Load", f) = 1..n /\ Arrived("BulkLoad", f) = {}
  BY <1>1, ArrivedLines
<1> QED  BY <1>1, <1>2 DEF Holds

(* One step of an import.                                                   *)

LEMMA OpenStep ==
  ASSUME CsvInv, NEW how \in {"Load", "BulkLoad"}, NEW f \in Files, Open(how, f)
  PROVE  CsvInv'
<1>1. /\ doomed = NoDelete /\ op' = how /\ lines' = f /\ keys' = <<>> /\ highest_ref' = 0
      /\ last' = [op |-> how, file |-> f, before |-> Contents, failed |-> FALSE]
      /\ UNCHANGED <<data_guide, btree, max_pcr, doomed>>
  BY DEF Open, Free, xvars
<1>2. XmlInv'
  BY <1>1 DEF CsvInv, XmlInv, Pcrs, AllEntries
<1>3. f \in Seq(XLine) /\ Len(f) \in Nat
  <2>1. f \in Seq(XLine)
    BY FilesAssumption DEF XLine
  <2> QED  BY <2>1
<1>4. Contents \in [XKey -> Nat] /\ Contents' = Contents
  BY <1>1, ContentsOK, SameContents DEF CsvInv, XmlInv
<1> DEFINE c == Contents
<1>5. Holds(c, c, f, 0)
  <2>1. 1..0 = {}
    OBVIOUS
  <2>2. \A k \in XKey : c[k] = c[k] + Cardinality(LinesOf(f, 1..0, k))
    <3>1. \A k \in XKey : c[k] \in Nat /\ Cardinality(LinesOf(f, 1..0, k)) = 0
      BY <1>4, <2>1, NoLines
    <3> QED  BY <3>1
  <2> HIDE DEF c
  <2>3. c = [k \in XKey |-> c[k]]
    BY <1>4 DEF c
  <2> QED  BY <2>2, <2>3 DEF Holds
<1> HIDE DEF c
<1>6. Parsed(f, 0) /\ Behind(f, f, 0) /\ ExpectedRef(f, 0) = 0
  <2>1. Parsed(f, 0)
    BY DEF Parsed
  <2>2. Behind(f, f, 0)
    BY <1>3 DEF Behind
  <2> QED  BY <1>3, <2>1, <2>2, ExpectedSteps
<1>7. KeysAre(<<>>, f, 0, 0)
  BY DEF KeysAre
<1>8. last'.file = f /\ last'.before = c
  BY <1>1 DEF c
<1>9. Reached(0)'
  <2>1. op' # "inserting"
    BY <1>1
  <2>2. Holds(Contents', last'.before, last'.file, 0)
    BY <1>4, <1>5, <1>8 DEF c
  <2>3. /\ Parsed(last'.file, 0) /\ Behind(lines', last'.file, 0)
        /\ highest_ref' = ExpectedRef(last'.file, 0) /\ KeysAre(keys', last'.file, 0, 0)
    BY <1>1, <1>6, <1>7, <1>8
  <2> HIDE DEF c
  <2> QED  BY <2>1, <2>2, <2>3 DEF Reached
<1>10. Importing'
  <2>1. 0 \in 0..Len(f)
    BY <1>3
  <2> QED  BY <1>1, <1>3, <1>4, <1>9, <2>1 DEF Importing
<1> QED  BY <1>2, <1>10 DEF CsvInv

\* What the invariant says of an import that runs.
LEMMA Running ==
  ASSUME CsvInv, op # "none"
  PROVE  /\ XmlInv /\ doomed = NoDelete
         /\ last = [op |-> last.op, file |-> last.file, before |-> last.before, failed |-> FALSE]
         /\ last.op = IF op = "Load" THEN "Load" ELSE "BulkLoad"
         /\ last.file \in Seq(XLine) /\ Len(last.file) \in Nat
         /\ last.before \in [XKey -> Nat]
         /\ \E n \in 0..Len(last.file) : Reached(n)
<1>1. XmlInv /\ Importing
  BY DEF CsvInv, Resting
<1>2. last \in [op : {IF op = "Load" THEN "Load" ELSE "BulkLoad"}, file : Seq(XLine),
                before : [XKey -> Nat], failed : {FALSE}]
  BY <1>1 DEF Importing
<1>3. /\ last = [op |-> last.op, file |-> last.file, before |-> last.before, failed |-> FALSE]
      /\ last.op = IF op = "Load" THEN "Load" ELSE "BulkLoad"
      /\ last.file \in Seq(XLine) /\ last.before \in [XKey -> Nat]
  BY <1>2
<1>4. Len(last.file) \in Nat
  BY <1>3
<1> QED  BY <1>1, <1>3, <1>4 DEF Importing

\* The other direction, after a step.
LEMMA StillRunning ==
  ASSUME XmlInv', CsvInv, doomed' = doomed, last' = last, op # "none",
         op' \in {"Load", "BulkLoad", "inserting"}, (op' = "Load") <=> (op = "Load"),
         NEW n \in 0..Len(last.file), Reached(n)'
  PROVE  CsvInv'
<1>1. Importing
  BY DEF CsvInv, Resting
<1>2. Importing'
  BY <1>1 DEF Importing
<1> QED  BY <1>2 DEF CsvInv

LEMMA LoadLineStep ==
  ASSUME CsvInv, LoadLine
  PROVE  CsvInv'
<1>1. /\ op = "Load" /\ lines # <<>> /\ Parses(Head(lines))
      /\ highest_ref' = RefOf(Head(lines))
      /\ XInsert(Head(lines).path, Head(lines).value, highest_ref')
      /\ lines' = Tail(lines) /\ op' = op /\ last' = last
  BY DEF LoadLine
<1> DEFINE f == last.file
           before == last.before
<1>2. XmlInv /\ f \in Seq(XLine) /\ before \in [XKey -> Nat] /\ \E n \in 0..Len(f) : Reached(n)
  BY <1>1, Running
<1>3. PICK n \in 0..Len(f) : Reached(n)
  BY <1>2
<1>4. /\ Parsed(f, n) /\ Behind(lines, f, n) /\ highest_ref = ExpectedRef(f, n)
      /\ Holds(Contents, before, f, n)
  BY <1>1, <1>3 DEF Reached
<1> HIDE DEF f, before
<1>5. /\ n \in Nat /\ n < Len(f) /\ n + 1 \in 0..Len(f) /\ Head(lines) = f[n + 1]
      /\ Behind(Tail(lines), f, n + 1)
      /\ Parsed(f, n + 1) /\ RefOf(Head(lines)) = ExpectedRef(f, n + 1)
  BY <1>1, <1>2, <1>4, HeadLine
<1>6. XmlInv' /\ doomed' = doomed /\ Holds(Contents', before, f, n + 1)
  <2>1. XInsert(f[n + 1].path, f[n + 1].value, ExpectedRef(f, n + 1))
    BY <1>1, <1>5
  <2> QED  BY <1>2, <1>4, <1>5, <2>1, NextLine
<1>7. Reached(n + 1)'
  BY <1>1, <1>5, <1>6 DEF Reached, f, before
<1> QED  BY <1>1, <1>5, <1>6, <1>7, StillRunning DEF f

LEMMA ReadLineStep ==
  ASSUME CsvInv, ReadLine
  PROVE  CsvInv'
<1>1. /\ op = "BulkLoad" /\ lines # <<>> /\ Parses(Head(lines))
      /\ highest_ref' = RefOf(Head(lines))
      /\ keys' = Append(keys, [Head(lines) EXCEPT !.ref = highest_ref'])
      /\ lines' = Tail(lines) /\ op' = op /\ last' = last
      /\ UNCHANGED <<data_guide, btree, max_pcr, doomed>>
  BY DEF ReadLine, xvars
<1> DEFINE f == last.file
           before == last.before
<1>2. XmlInv /\ f \in Seq(XLine) /\ before \in [XKey -> Nat] /\ \E n \in 0..Len(f) : Reached(n)
  BY <1>1, Running
<1>3. PICK n \in 0..Len(f) : Reached(n)
  BY <1>2
<1>4. /\ Parsed(f, n) /\ Behind(lines, f, n) /\ highest_ref = ExpectedRef(f, n)
      /\ Holds(Contents, before, f, 0) /\ KeysAre(keys, f, 0, n)
  BY <1>1, <1>3 DEF Reached
<1> HIDE DEF f, before
<1>5. /\ n \in Nat /\ n < Len(f) /\ n + 1 \in 0..Len(f) /\ Head(lines) = f[n + 1]
      /\ Behind(Tail(lines), f, n + 1)
      /\ Parsed(f, n + 1) /\ RefOf(Head(lines)) = ExpectedRef(f, n + 1)
  BY <1>1, <1>2, <1>4, HeadLine
<1>6. XmlInv'
  BY <1>1, <1>2 DEF XmlInv, Pcrs, AllEntries
<1>7. Contents' = Contents
  BY <1>1, SameContents
<1> DEFINE key == Resolved(f, n + 1)
           D == [path : PathName, value : XValues, ref : Nat]
<1>8. key \in D
  <2>1. n + 1 \in 1..(n + 1) /\ n + 1 \in Nat /\ n + 1 <= Len(f)
    BY <1>5
  <2>2. f[n + 1] \in XLine /\ f[n + 1].path \in PathName /\ f[n + 1].value \in XValues
    BY <1>2, <1>5, <2>1, ParsedLine
  <2>3. ExpectedRef(f, n + 1) \in Nat
    BY <1>2, <1>5, <2>1, ExpectedSteps
  <2> DEFINE l == f[n + 1]
             e == ExpectedRef(f, n + 1)
  <2>4. key = [l EXCEPT !.ref = e] /\ l \in XLine /\ l.path \in PathName /\ l.value \in XValues /\ e \in Nat
    BY <2>2, <2>3 DEF Resolved
  <2> HIDE DEF l, e
  <2> QED  BY <2>4 DEF XLine
<1>9. KeysAre(Append(keys, key), f, 0, n + 1)
  <2>1. /\ keys \in Seq(D) /\ Len(keys) = n - 0
        /\ \A i \in 1..(n - 0) : keys[i] = Resolved(f, 0 + i)
    BY <1>4 DEF KeysAre
  <2>2. Len(keys) = n /\ \A i \in 1..n : keys[i] = Resolved(f, i)
    BY <1>5, <2>1
  <2> HIDE DEF key, D
  <2>3. /\ Append(keys, key) \in Seq(D) /\ Len(Append(keys, key)) = n + 1
        /\ \A i \in 1..n : Append(keys, key)[i] = keys[i]
        /\ Append(keys, key)[n + 1] = key
    BY <1>5, <1>8, <2>1, <2>2
  <2>4. \A i \in 1..(n + 1) : Append(keys, key)[i] = Resolved(f, i)
    <3> TAKE i \in 1..(n + 1)
    <3>1. i \in 1..n \/ i = n + 1
      BY <1>5
    <3> QED  BY <2>2, <2>3, <3>1 DEF key
  <2>5. (n + 1) - 0 = n + 1 /\ \A i \in 1..(n + 1) : 0 + i = i
    BY <1>5
  <2> QED  BY <2>3, <2>4, <2>5 DEF KeysAre, D
<1>10. keys' = Append(keys, key)
  BY <1>1, <1>5 DEF Resolved
<1> HIDE DEF key
<1>11. Reached(n + 1)'
  BY <1>1, <1>4, <1>5, <1>7, <1>9, <1>10
     DEF Reached, f, before
<1> QED  BY <1>1, <1>5, <1>6, <1>11, StillRunning DEF f

LEMMA ThrowStep ==
  ASSUME CsvInv, Throw
  PROVE  CsvInv'
<1>1. /\ op \in {"Load", "BulkLoad"} /\ lines # <<>> /\ ~Parses(Head(lines))
      /\ op' = "none" /\ last' = [last EXCEPT !.failed = TRUE]
      /\ UNCHANGED <<data_guide, btree, max_pcr, doomed>>
  BY DEF Throw, xvars
<1> DEFINE f == last.file
           before == last.before
<1>2. /\ XmlInv /\ doomed = NoDelete /\ f \in Seq(XLine) /\ before \in [XKey -> Nat]
      /\ last.op = op
      /\ last = [op |-> last.op, file |-> f, before |-> before, failed |-> FALSE]
      /\ \E n \in 0..Len(f) : Reached(n)
  BY <1>1, Running
<1>3. PICK n \in 0..Len(f) : Reached(n)
  BY <1>2
<1>4. /\ Parsed(f, n) /\ Behind(lines, f, n)
      /\ op = "Load" => Holds(Contents, before, f, n)
      /\ op = "BulkLoad" => Holds(Contents, before, f, 0)
  BY <1>1, <1>3 DEF Reached
<1> HIDE DEF f, before
<1>5. n \in Nat /\ n < Len(f) /\ Head(lines) = f[n + 1]
  BY <1>1, <1>2, <1>4, HeadLine
<1>6. /\ \E i \in DOMAIN f : ~Parses(f[i])
      /\ Contents = [k \in DOMAIN before |->
           before[k] + Cardinality(LinesOf(f, Arrived(op, f), k))]
  <2>1. ~Parses(f[n + 1]) /\ Holds(Contents, before, f, IF op = "Load" THEN n ELSE 0)
    BY <1>1, <1>4, <1>5
  <2> QED  BY <1>1, <1>2, <1>4, <1>5, <2>1, ImportThrows
<1>7. last'.failed = TRUE /\ last'.file = f /\ last'.before = before /\ last'.op = op
  BY <1>1, <1>2
<1>8. Contents' = Contents
  BY <1>1, SameContents
<1>9. ImportExact'
  BY <1>6, <1>7, <1>8 DEF ImportExact
<1>10. XmlInv'
  BY <1>1, <1>2 DEF XmlInv, Pcrs, AllEntries
<1> QED  BY <1>1, <1>2, <1>9, <1>10 DEF CsvInv, Resting

LEMMA EndOfFileStep ==
  ASSUME CsvInv, EndOfFile
  PROVE  CsvInv'
<1>1. /\ op \in {"Load", "BulkLoad"} /\ lines = <<>>
      /\ op' = IF op = "Load" THEN "none" ELSE "inserting"
      /\ UNCHANGED <<data_guide, btree, max_pcr, doomed, lines, keys, highest_ref, last>>
  BY DEF EndOfFile, xvars
<1> DEFINE f == last.file
           before == last.before
<1>2. /\ XmlInv /\ doomed = NoDelete /\ f \in Seq(XLine) /\ Len(f) \in Nat
      /\ before \in [XKey -> Nat] /\ last.op = op /\ last.failed = FALSE
      /\ \E n \in 0..Len(f) : Reached(n)
  BY <1>1, Running
<1>3. PICK n \in 0..Len(f) : Reached(n)
  BY <1>2
<1>4. /\ Parsed(f, n) /\ Behind(lines, f, n)
      /\ op = "Load" => Holds(Contents, before, f, n)
      /\ op = "BulkLoad" => Holds(Contents, before, f, 0) /\ KeysAre(keys, f, 0, n)
  BY <1>1, <1>3 DEF Reached
<1> HIDE DEF f, before
<1>5. n = Len(f)
  <2>1. Len(lines) = Len(f) - n /\ Len(lines) = 0
    BY <1>1, <1>4 DEF Behind
  <2> QED  BY <1>2, <2>1
<1>6. XmlInv' /\ Contents' = Contents
  <2>1. Contents' = Contents
    BY <1>1, SameContents
  <2> QED  BY <1>1, <1>2, <2>1 DEF XmlInv, Pcrs, AllEntries
<1>7. CASE op = "Load"
  <2>1. Parsed(f, Len(f)) /\ Holds(Contents, before, f, Len(f))
    BY <1>4, <1>5, <1>7
  <2>2. /\ ~ \E i \in DOMAIN f : ~Parses(f[i])
        /\ Contents = [k \in DOMAIN before |->
             before[k] + Cardinality(LinesOf(f, Arrived(op, f), k))]
    BY <1>2, <2>1, ImportEnds
  <2>3. ImportExact'
    BY <1>1, <1>2, <1>6, <2>2 DEF ImportExact, f, before
  <2> QED  BY <1>1, <1>2, <1>6, <1>7, <2>3 DEF CsvInv, Resting
<1>8. CASE op = "BulkLoad"
  <2>1. Reached(0)'
    <3>1. Parsed(f, Len(f)) /\ Holds(Contents, before, f, 0) /\ KeysAre(keys, f, 0, Len(f))
      BY <1>4, <1>5, <1>8
    <3> QED  BY <1>1, <1>6, <1>8, <3>1
             DEF Reached, f, before
  <2>2. 0 \in 0..Len(last.file)
    BY <1>2 DEF f
  <2> QED  BY <1>1, <1>6, <1>8, <2>1, <2>2, StillRunning
<1> QED  BY <1>1, <1>7, <1>8

LEMMA InsertNextStep ==
  ASSUME CsvInv, InsertNext
  PROVE  CsvInv'
<1>1. /\ op = "inserting" /\ keys # <<>>
      /\ XInsert(Head(keys).path, Head(keys).value, Head(keys).ref)
      /\ keys' = Tail(keys) /\ op' = op /\ last' = last
  BY DEF InsertNext
<1> DEFINE f == last.file
           before == last.before
           D == [path : PathName, value : XValues, ref : Nat]
<1>2. /\ XmlInv /\ f \in Seq(XLine) /\ Len(f) \in Nat /\ before \in [XKey -> Nat]
      /\ \E n \in 0..Len(f) : Reached(n)
  BY <1>1, Running
<1>3. PICK n \in 0..Len(f) : Reached(n)
  BY <1>2
<1>4. /\ Parsed(f, Len(f)) /\ Holds(Contents, before, f, n) /\ KeysAre(keys, f, n, Len(f))
  BY <1>1, <1>3 DEF Reached
<1> HIDE DEF f, before
<1>5. /\ keys \in Seq(D) /\ Len(keys) = Len(f) - n
      /\ \A i \in 1..(Len(f) - n) : keys[i] = Resolved(f, n + i)
  BY <1>4 DEF KeysAre
<1> HIDE DEF D
<1>6. /\ Len(keys) \in Nat /\ Len(keys) > 0 /\ Head(keys) = keys[1]
      /\ n \in Nat /\ n < Len(f) /\ n + 1 \in 0..Len(f) /\ n + 1 \in 1..Len(f)
  <2>1. Len(keys) \in Nat /\ Len(keys) > 0 /\ Head(keys) = keys[1]
    BY <1>1, <1>5
  <2> QED  BY <1>2, <1>5, <2>1
<1>7. Head(keys) = Resolved(f, n + 1)
  <2>1. 1 \in 1..(Len(f) - n)
    BY <1>2, <1>6
  <2> QED  BY <1>5, <1>6, <2>1
<1>8. /\ Head(keys).path = f[n + 1].path /\ Head(keys).value = f[n + 1].value
      /\ Head(keys).ref = ExpectedRef(f, n + 1)
  <2> DEFINE l == f[n + 1]
             e == ExpectedRef(f, n + 1)
  <2>1. l \in XLine /\ Head(keys) = [l EXCEPT !.ref = e]
    BY <1>2, <1>6, <1>7 DEF Resolved
  <2> HIDE DEF l, e
  <2>2. Head(keys).path = l.path /\ Head(keys).value = l.value /\ Head(keys).ref = e
    BY <2>1 DEF XLine
  <2> QED  BY <2>2 DEF l, e
<1>9. Parsed(f, n + 1)
  <2>1. \A i \in 1..(n + 1) : i \in 1..Len(f)
    BY <1>2, <1>6
  <2> QED  BY <1>4, <2>1 DEF Parsed
<1>10. XmlInv' /\ doomed' = doomed /\ Holds(Contents', before, f, n + 1)
  <2>1. XInsert(f[n + 1].path, f[n + 1].value, ExpectedRef(f, n + 1))
    BY <1>1, <1>8
  <2> QED  BY <1>2, <1>4, <1>6, <1>9, <2>1, NextLine
<1>11. KeysAre(Tail(keys), f, n + 1, Len(f))
  <2> DEFINE r == Tail(keys)
  <2>1. r \in Seq(D) /\ Len(r) = Len(keys) - 1 /\ \A i \in 1..(Len(keys) - 1) : r[i] = keys[i + 1]
    BY <1>5, <1>6
  <2> HIDE DEF r
  <2>2. \A i \in 1..(Len(f) - (n + 1)) : r[i] = Resolved(f, (n + 1) + i)
    <3> TAKE i \in 1..(Len(f) - (n + 1))
    <3>1. i \in 1..(Len(keys) - 1) /\ i + 1 \in 1..(Len(f) - n) /\ n + (i + 1) = (n + 1) + i
      BY <1>2, <1>5, <1>6
    <3>2. r[i] = keys[i + 1] /\ keys[i + 1] = Resolved(f, n + (i + 1))
      BY <1>5, <2>1, <3>1
    <3> QED  BY <3>1, <3>2
  <2>3. Len(r) = Len(f) - (n + 1)
    BY <1>2, <1>5, <1>6, <2>1
  <2> QED  BY <2>1, <2>2, <2>3 DEF KeysAre, D, r
<1>12. Reached(n + 1)'
  BY <1>1, <1>4, <1>10, <1>11
     DEF Reached, f, before
<1> QED  BY <1>1, <1>6, <1>10, <1>12, StillRunning DEF f

LEMMA BulkDoneStep ==
  ASSUME CsvInv, BulkDone
  PROVE  CsvInv'
<1>1. /\ op = "inserting" /\ keys = <<>> /\ op' = "none"
      /\ UNCHANGED <<data_guide, btree, max_pcr, doomed, last>>
  BY DEF BulkDone, xvars
<1> DEFINE f == last.file
           before == last.before
<1>2. /\ XmlInv /\ doomed = NoDelete /\ f \in Seq(XLine) /\ Len(f) \in Nat
      /\ before \in [XKey -> Nat] /\ last.op = "BulkLoad" /\ last.failed = FALSE
      /\ \E n \in 0..Len(f) : Reached(n)
  BY <1>1, Running
<1>3. PICK n \in 0..Len(f) : Reached(n)
  BY <1>2
<1>4. /\ Parsed(f, Len(f)) /\ Holds(Contents, before, f, n) /\ KeysAre(keys, f, n, Len(f))
  BY <1>1, <1>3 DEF Reached
<1> HIDE DEF f, before
<1>5. n = Len(f)
  <2>1. Len(keys) = Len(f) - n /\ Len(keys) = 0
    BY <1>1, <1>4 DEF KeysAre
  <2> QED  BY <1>2, <2>1
<1>6. XmlInv' /\ Contents' = Contents
  <2>1. Contents' = Contents
    BY <1>1, SameContents
  <2> QED  BY <1>1, <1>2, <2>1 DEF XmlInv, Pcrs, AllEntries
<1>7. /\ ~ \E i \in DOMAIN f : ~Parses(f[i])
      /\ Contents = [k \in DOMAIN before |->
           before[k] + Cardinality(LinesOf(f, Arrived("BulkLoad", f), k))]
  BY <1>2, <1>4, <1>5, ImportEnds
<1>8. ImportExact'
  BY <1>1, <1>2, <1>6, <1>7 DEF ImportExact, f, before
<1> QED  BY <1>1, <1>2, <1>6, <1>8 DEF CsvInv, Resting

LEMMA DeleteStep ==
  ASSUME CsvInv, NEW v \in XValues, NEW r \in XRefs, Delete(v, r)
  PROVE  CsvInv'
<1>1. /\ op' = "none" /\ last'.op = "none" /\ doomed' = [value |-> v, ref |-> r]
      /\ UNCHANGED <<data_guide, btree, max_pcr>>
  BY DEF Delete, Free, BeginDelete, NoImport
<1>2. XmlInv'
  BY <1>1 DEF CsvInv, XmlInv, Pcrs, AllEntries
<1> QED  BY <1>1, <1>2 DEF CsvInv, Resting, ImportExact

\* Nothing is deleted while an import runs.
LEMMA DeleteStepsStep ==
  ASSUME CsvInv, DeleteSteps, UNCHANGED cvars
  PROVE  CsvInv'
<1>1. doomed # NoDelete /\ UNCHANGED <<op, last>> /\ (doomed' = doomed \/ doomed' = NoDelete)
  BY DEF DeleteSteps, DeleteFound, DeleteDone, cvars
<1>2. op = "none" /\ last.op = "none" /\ doomed.value \in XValues /\ XmlInv
  BY <1>1 DEF CsvInv, Importing, Resting
<1>3. XmlInv'
  BY <1>2, DeleteInv
<1> QED  BY <1>1, <1>2, <1>3 DEF CsvInv, Resting, ImportExact

LEMMA CsvInitInv ==
  ASSUME CsvInit
  PROVE  CsvInv
<1>1. XmlInv
  <2>1. /\ data_guide = [p \in PathName |-> <<>>] /\ btree = [v \in XValues |-> <<>>]
        /\ max_pcr = 0
    BY DEF CsvInit, XmlInit
  <2>2. data_guide \in [PathName -> Seq(1..max_pcr)] /\ btree \in [XValues -> Seq(XEntry)]
    <3>1. <<>> \in Seq(1..max_pcr) /\ <<>> \in Seq(XEntry)
      OBVIOUS
    <3> QED  BY <2>1, <3>1
  <2>3. \A p \in PathName : Pcrs(p) = {}
    <3>1. \A p \in PathName : data_guide[p] = <<>>
      BY <2>1
    <3>2. Elements(<<>>) = {}
      BY DEF Elements
    <3> QED  BY <3>1, <3>2 DEF Pcrs
  <2>4. AllEntries = {}
    BY <2>1 DEF AllEntries, Elements
  <2> QED  BY <2>1, <2>2, <2>3, <2>4 DEF XmlInv
<1> QED  BY <1>1 DEF CsvInit, XmlInit, CsvInv, Resting, ImportExact, NoImport

LEMMA CsvStep ==
  ASSUME CsvInv, [CsvNext]_<<xvars, cvars>>
  PROVE  CsvInv'
<1>1. ASSUME NEW how \in {"Load", "BulkLoad"}, NEW file \in Files, Open(how, file)
      PROVE  CsvInv'
  BY <1>1, OpenStep
<1>2. ASSUME NEW v \in XValues, NEW r \in XRefs, Delete(v, r)
      PROVE  CsvInv'
  BY <1>2, DeleteStep
<1>3. CASE ImportSteps
  BY <1>3, LoadLineStep, ReadLineStep, ThrowStep, EndOfFileStep, InsertNextStep, BulkDoneStep
     DEF ImportSteps
<1>4. CASE DeleteSteps /\ UNCHANGED cvars
  BY <1>4, DeleteStepsStep
<1>5. CASE UNCHANGED <<xvars, cvars>>
  <2>1. UNCHANGED <<data_guide, btree, max_pcr, doomed, op, lines, keys, highest_ref, last>>
    BY <1>5 DEF xvars, cvars
  <2>2. Contents' = Contents
    BY <2>1, SameContents
  <2>3. XmlInv'
    BY <2>1 DEF CsvInv, XmlInv, Pcrs, AllEntries
  <2>4. CASE Importing
    <3>1. \A n : Reached(n)' = Reached(n)
      BY <2>1, <2>2 DEF Reached
    <3> QED  BY <2>1, <2>3, <2>4, <3>1 DEF CsvInv, Importing
  <2>5. CASE Resting
    BY <2>1, <2>2, <2>3, <2>5 DEF CsvInv, Resting, ImportExact
  <2> QED  BY <2>4, <2>5 DEF CsvInv
<1> QED  BY <1>1, <1>2, <1>3, <1>4, <1>5 DEF CsvNext, CsvSteps

\* No query of the XML index finds an entry under a path it was not inserted
\* under, whatever paths the data guide has missed and numbered twice
\* (casxml.cpp:25-61, :64-106), as long as the paths are plain.
THEOREM XmlQueryCorrect == CsvSpec => []XmlQueryExact
<1>1. CsvInit => CsvInv
  BY CsvInitInv
<1>2. CsvInv /\ [CsvNext]_<<xvars, cvars>> => CsvInv'
  BY CsvStep
<1>3. CsvInv => XmlQueryExact
  BY XmlInvExact DEF CsvInv
<1> QED  BY <1>1, <1>2, <1>3, PTL DEF CsvSpec

\* Whatever was imported, thrown or deleted before: after Load or BulkLoad
\* (csv_importer.cpp:13-75) the index holds what it held before and each line
\* that arrived once, with the reference that the file alone gives it.
THEOREM ImportCorrect == CsvSpec => []ImportExact
<1>1. CsvInit => CsvInv
  BY CsvInitInv
<1>2. CsvInv /\ [CsvNext]_<<xvars, cvars>> => CsvInv'
  BY CsvStep
<1>3. CsvInv => ImportExact
  BY DEF CsvInv, Importing, Resting, ImportExact
<1> QED  BY <1>1, <1>2, <1>3, PTL DEF CsvSpec

\* The iterations of Delete leave an entry of another reference where it is.
LEMMA SharedStays ==
  ASSUME CsvInv, [CsvNext]_<<xvars, cvars>>,
         NEW v \in XValues, NEW r, DeleteOf(v, r), Shared(v, r)
  PROVE  DeleteOf(v, r)' /\ Shared(v, r)'
<1>1. op = "none" /\ doomed # NoDelete /\ doomed.value = v /\ doomed.ref = r
  BY DEF CsvInv, Importing, Resting, DeleteOf, Deleting
<1>2. btree[v] \in Seq(XEntry)
  BY DEF CsvInv, XmlInv
<1>3. PICK i \in 1..Len(btree[v]) : btree[v][i].ref # r
  BY <1>2 DEF Shared, Elements
<1>4. ~ImportSteps
  BY <1>1 DEF ImportSteps, LoadLine, ReadLine, Throw, EndOfFile, InsertNext, BulkDone
<1>5. ~Free
  BY <1>1 DEF Free
<1>6. CASE DeleteFound
  <2>1. doomed' = doomed /\ Len(btree[v]) \in Nat /\ Len(btree[v]) > 0
        /\ btree' = IF Head(btree[v]).ref = r
                    THEN [btree EXCEPT ![v] = Tail(@)] ELSE btree
    BY <1>1, <1>2, <1>3, <1>6 DEF DeleteFound, Equals
  <2>2. CASE Head(btree[v]).ref # r
    BY <2>1, <2>2 DEF DeleteOf, Deleting, Shared
  <2>3. CASE Head(btree[v]).ref = r
    <3>1. btree'[v] = Tail(btree[v])
      <4>1. v \in DOMAIN btree
        BY DEF CsvInv, XmlInv
      <4> QED  BY <2>1, <2>3, <4>1
    <3>2. i # 1
      BY <1>2, <1>3, <2>1, <2>3
    <3>3. i - 1 \in DOMAIN Tail(btree[v]) /\ Tail(btree[v])[i - 1] = btree[v][i]
      BY <1>2, <1>3, <2>1, <3>2
    <3>4. btree[v][i] \in Elements(Tail(btree[v]))
      BY <3>3 DEF Elements
    <3>5. Shared(v, r)'
      BY <1>3, <3>1, <3>4 DEF Shared
    <3> QED  BY <2>1, <3>5 DEF DeleteOf, Deleting
  <2> QED  BY <2>2, <2>3
<1>7. CASE UNCHANGED <<xvars, cvars>>
  BY <1>7 DEF xvars, DeleteOf, Deleting, Shared
<1>8. ~DeleteDone
  <2>1. btree[v] # <<>>
    BY <1>2, <1>3
  <2> QED  BY <1>1, <2>1 DEF DeleteDone, Equals
<1> QED  BY <1>4, <1>5, <1>6, <1>7, <1>8 DEF CsvNext, CsvSteps, DeleteSteps, Open, Delete

\* Delete finds an entry by its value alone (casxml.cpp:64-76): once it runs
\* for a value that another reference has, too, it runs for ever.
THEOREM DeletionSpins == CsvSpec => DeleteSpins
<1>1. SUFFICES ASSUME NEW v \in XValues, NEW r \in XRefs
               PROVE  CsvSpec => [](DeleteOf(v, r) /\ Shared(v, r) => []DeleteOf(v, r))
  BY DEF DeleteSpins
<1>2. CsvInit => CsvInv
  BY CsvInitInv
<1>3. CsvInv /\ [CsvNext]_<<xvars, cvars>> => CsvInv'
  BY CsvStep
<1>4. CsvInv /\ [CsvNext]_<<xvars, cvars>> /\ DeleteOf(v, r) /\ Shared(v, r)
      => DeleteOf(v, r)' /\ Shared(v, r)'
  BY SharedStays
<1> QED  BY <1>2, <1>3, <1>4, PTL DEF CsvSpec
=============================================================================
