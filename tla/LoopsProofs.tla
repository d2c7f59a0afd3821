---------------------------- MODULE LoopsProofs ----------------------------
(***************************************************************************)
(* What the search loops, the scans and the byte-range helpers of Loops    *)
(* compute; induction and recursion for sets; numbers and their digits.    *)
(***************************************************************************)
EXTENDS Loops, WellFoundedInduction, SequenceTheorems, TLAPS

\* Every non-empty set of naturals has a least element, so the loops that
\* search for a position stop at a well-defined one.
LEMMA LeastIsLeast ==
  ASSUME NEW S \in SUBSET Nat, S # {}
  PROVE  Least(S) \in S /\ \A j \in S : Least(S) <= j
<1>1. \E x \in S : \A y \in S : ~ (<<y, x>> \in OpToRel(<, Nat))
  BY WFMin, NatLessThanWellFounded
<1>2. PICK x \in S : \A y \in S : ~ (<<y, x>> \in OpToRel(<, Nat))
  BY <1>1
<1>3. ASSUME NEW y \in S, y < x  PROVE FALSE
  <2>1. <<y, x>> \in OpToRel(<, Nat)
    BY <1>3 DEF OpToRel
  <2> QED
    BY <1>2, <2>1
<1>4. x \in S /\ \A y \in S : x <= y
  BY <1>3
<1> QED
  BY <1>4 DEF Least


\* SubSeq and From are the usual copies of byte ranges.
LEMMA RangeCopy ==
  ASSUME NEW S, NEW s \in Seq(S), NEW i \in 0..Len(s), NEW j \in i..Len(s)
  PROVE  /\ SubSeq(s, i + 1, j) \in Seq(S) /\ Len(SubSeq(s, i + 1, j)) = j - i
         /\ \A x \in 1..(j - i) : SubSeq(s, i + 1, j)[x] = s[i + x]
<1>1. Len(s) \in Nat /\ i \in Nat /\ j \in Nat
  OBVIOUS
<1>2. SubSeq(s, i + 1, j) = [x \in 1..(j - i) |-> s[i + x]]
  BY <1>1
<1>3. \A x \in 1..(j - i) : s[i + x] \in S
  BY <1>1
<1> QED  BY <1>1, <1>2, <1>3

LEMMA FromCopy ==
  ASSUME NEW S, NEW s \in Seq(S), NEW i \in 0..Len(s)
  PROVE  /\ From(s, i) \in Seq(S) /\ Len(From(s, i)) = Len(s) - i
         /\ \A x \in 1..(Len(s) - i) : From(s, i)[x] = s[i + x]
BY RangeCopy DEF From

\* Two ranges one behind the other.
LEMMA Concatenation ==
  ASSUME NEW S, NEW s \in Seq(S), NEW t \in Seq(S)
  PROVE  /\ s \o t \in Seq(S) /\ Len(s \o t) = Len(s) + Len(t)
         /\ \A x \in 1..Len(s) : (s \o t)[x] = s[x]
         /\ \A x \in 1..Len(t) : (s \o t)[Len(s) + x] = t[x]
<1>1. Len(s) \in Nat /\ Len(t) \in Nat
  OBVIOUS
<1>2. /\ s \o t \in Seq(S) /\ Len(s \o t) = Len(s) + Len(t)
      /\ \A i \in 1..(Len(s) + Len(t)) :
           (s \o t)[i] = IF i <= Len(s) THEN s[i] ELSE t[i - Len(s)]
  BY ConcatProperties
<1>3. \A x \in 1..Len(s) : (s \o t)[x] = s[x]
  BY <1>1, <1>2
<1>4. \A x \in 1..Len(t) : (s \o t)[Len(s) + x] = t[x]
  BY <1>1, <1>2
<1> QED  BY <1>2, <1>3, <1>4

\* The matching loop stops at the first difference or at the end of the range
\* or of the key.
Stops(s, i, t, j, e, m) ==
  /\ m \in 0..(e - j) /\ i + m <= Len(s)
  /\ \A x \in 1..m : s[i + x] = t[j + x]
  /\ m < e - j => i + m = Len(s) \/ s[i + m + 1] # t[j + m + 1]

LEMMA MatchStops ==
  ASSUME NEW S, NEW s \in Seq(S), NEW t \in Seq(S), NEW i \in 0..Len(s),
         NEW e \in 0..Len(t), NEW j \in 0..e
  PROVE  Stops(s, i, t, j, e, MatchLength(s, i, t, j, e))
<1> DEFINE M == {m \in 0..(e - j) : m = e - j \/ i + m >= Len(s) \/ s[i + m + 1] # t[j + m + 1]}
           m == MatchLength(s, i, t, j, e)
<1>1. Len(s) \in Nat /\ Len(t) \in Nat /\ i \in Nat /\ e \in Nat /\ j \in Nat /\ e - j \in Nat
  OBVIOUS
<1>2. M \subseteq Nat /\ e - j \in M
  BY <1>1
<1>3. m = Least(M)
  BY DEF MatchLength
<1>4. m \in M /\ \A x \in M : m <= x
  <2> HIDE DEF M, m
  <2> QED  BY <1>2, <1>3, LeastIsLeast
<1>5. /\ m \in 0..(e - j)
      /\ m = e - j \/ i + m >= Len(s) \/ s[i + m + 1] # t[j + m + 1]
      /\ \A x \in 0..(e - j) : x = e - j \/ i + x >= Len(s) \/ s[i + x + 1] # t[j + x + 1]
                                => m <= x
  BY <1>4
<1> HIDE DEF m, M
<1>6. i + m <= Len(s)
  <2>1. CASE m = 0
    BY <1>1, <2>1
  <2>2. CASE m > 0
    <3>1. m - 1 \in 0..(e - j) /\ ~ (m <= m - 1)
      BY <1>1, <1>5, <2>2
    <3>2. ~ (i + (m - 1) >= Len(s))
      BY <1>5, <3>1
    <3> QED  BY <1>1, <1>5, <3>2
  <2> QED  BY <1>1, <1>5, <2>1, <2>2
<1>7. \A x \in 1..m : s[i + x] = t[j + x]
  <2> TAKE x \in 1..m
  <2>1. x - 1 \in 0..(e - j) /\ ~ (m <= x - 1) /\ i + (x - 1) + 1 = i + x /\ j + (x - 1) + 1 = j + x
    BY <1>1, <1>5
  <2> QED  BY <1>5, <2>1
<1>8. Stops(s, i, t, j, e, m)
  BY <1>1, <1>5, <1>6, <1>7 DEF Stops
<1> QED  BY <1>8 DEF m

-----------------------------------------------------------------------------
(* Scans that count down.                                                  *)

\* What a scan has met after k steps: the hits among the last k values, in
\* descending order.
Scanned(s, from, k, hits) ==
  /\ s \in Seq(Int)
  /\ \A x \in 1..Len(s) : s[x] \in hits /\ s[x] \in (from - k + 1)..from
  /\ \A i \in (from - k + 1)..from : i \in hits => \E x \in 1..Len(s) : s[x] = i
  /\ \A x, y \in 1..Len(s) : x < y => s[x] > s[y]

LEMMA ScanStarts ==
  ASSUME NEW from \in Int, NEW hits
  PROVE  Scanned(<<>>, from, 0, hits)
<1>1. (from - 0 + 1)..from = {}
  OBVIOUS
<1>2. 1..Len(<<>>) = {} /\ <<>> \in Seq(Int)
  OBVIOUS
<1> QED  BY <1>1, <1>2 DEF Scanned

LEMMA ScanMeets ==
  ASSUME NEW from \in Int, NEW hits, NEW k \in Nat, NEW s, Scanned(s, from, k, hits),
         NEW i \in Int, i = from - (k + 1) + 1
  PROVE  /\ i \in hits => Scanned(Append(s, i), from, k + 1, hits)
         /\ i \notin hits => Scanned(s, from, k + 1, hits)
<1>1. /\ s \in Seq(Int) /\ Len(s) \in Nat /\ \A x \in 1..Len(s) : s[x] \in Int
  BY DEF Scanned
<1>2. \A j \in (i..from) : j = i \/ j \in (from - k + 1)..from
  OBVIOUS
<1>3. ASSUME i \in hits
      PROVE  Scanned(Append(s, i), from, k + 1, hits)
  <2> DEFINE t == Append(s, i)
  <2>1. /\ t \in Seq(Int) /\ Len(t) = Len(s) + 1 /\ t[Len(s) + 1] = i
        /\ \A x \in 1..Len(s) : t[x] = s[x]
    BY <1>1
  <2> HIDE DEF t
  <2>2. \A x \in 1..Len(t) : x = Len(s) + 1 \/ x \in 1..Len(s)
    BY <1>1, <2>1
  <2>3. \A x \in 1..Len(t) : t[x] \in hits /\ t[x] \in i..from
    <3>1. i \in i..from /\ \A x \in 1..Len(s) : s[x] \in hits /\ s[x] \in i..from
      BY <1>1 DEF Scanned
    <3> QED  BY <1>3, <2>1, <2>2, <3>1
  <2>4. \A j \in i..from : j \in hits => \E x \in 1..Len(t) : t[x] = j
    <3> SUFFICES ASSUME NEW j \in i..from, j \in hits PROVE \E x \in 1..Len(t) : t[x] = j
      OBVIOUS
    <3>1. CASE j = i
      <4>1. Len(s) + 1 \in 1..Len(t)
        BY <1>1, <2>1
      <4> QED  BY <3>1, <2>1, <4>1
    <3>2. CASE j # i
      <4>1. PICK x \in 1..Len(s) : s[x] = j
        BY <1>2, <3>2 DEF Scanned
      <4>2. x \in 1..Len(t)
        BY <1>1, <2>1
      <4> QED  BY <2>1, <4>1, <4>2
    <3> QED  BY <3>1, <3>2
  <2>5. \A x, y \in 1..Len(t) : x < y => t[x] > t[y]
    <3> SUFFICES ASSUME NEW x \in 1..Len(t), NEW y \in 1..Len(t), x < y PROVE t[x] > t[y]
      OBVIOUS
    <3>1. x \in 1..Len(s)
      BY <1>1, <2>1
    <3>2. t[x] = s[x] /\ s[x] \in (from - k + 1)..from
      BY <2>1, <3>1 DEF Scanned
    <3>3. CASE y = Len(s) + 1
      BY <2>1, <3>2, <3>3
    <3>4. CASE y \in 1..Len(s)
      BY <2>1, <3>1, <3>4 DEF Scanned
    <3> QED  BY <2>2, <3>3, <3>4
  <2> QED  BY <2>1, <2>3, <2>4, <2>5 DEF Scanned, t
<1>4. ASSUME i \notin hits
      PROVE  Scanned(s, from, k + 1, hits)
  <2>1. \A x \in 1..Len(s) : s[x] \in hits /\ s[x] \in i..from
    BY <1>1 DEF Scanned
  <2>2. \A j \in i..from : j \in hits => \E x \in 1..Len(s) : s[x] = j
    BY <1>2, <1>4 DEF Scanned
  <2> QED  BY <1>1, <2>1, <2>2 DEF Scanned
<1> QED  BY <1>3, <1>4

\* met[k] is what a scan has met after k steps.
IsScan(met, from, to, hits) ==
  \A k \in 0..(from - to + 1) :
    met[k] = IF k = 0 THEN <<>>
             ELSE IF from - k + 1 \in hits
                  THEN Append(met[k - 1], from - k + 1) ELSE met[k - 1]

\* DownTo is the function its definition describes: such a function exists for
\* every number of steps.
LEMMA DownToRecursive ==
  ASSUME NEW from \in Int, NEW to \in Int, to <= from + 1, NEW hits
  PROVE  \E met : /\ DownTo(from, to, hits) = met[from - to + 1]
                  /\ IsScan(met, from, to, hits)
<1> DEFINE N == from - to + 1
           Step(g, k) == IF k = 0 THEN <<>>
                         ELSE LET i == from - k + 1 IN
                              IF i \in hits THEN Append(g[k - 1], i) ELSE g[k - 1]
           F(g, m) == g = [k \in 0..m |-> Step(g, k)]
           T == {m \in 0..N : ~ \E g : F(g, m)}
<1>1. N \in Nat
  OBVIOUS
<1>2. T = {}
  <2> SUFFICES ASSUME T # {} PROVE FALSE
    OBVIOUS
  <2>1. T \in SUBSET Nat
    BY <1>1
  <2> DEFINE m == Least(T)
  <2>2. m \in T /\ \A j \in T : m <= j
    <3> HIDE DEF T
    <3> QED  BY <2>1, LeastIsLeast
  <2>3. m \in 0..N /\ ~ \E g : F(g, m)
    BY <2>2
  <2> HIDE DEF m
  <2>4. CASE m = 0
    <3>1. F([k \in 0..0 |-> <<>>], m)
      BY <2>4
    <3> QED  BY <2>3, <3>1
  <2>5. CASE m # 0
    <3>1. m - 1 \in 0..N /\ ~ (m <= m - 1)
      BY <1>1, <2>3, <2>5
    <3>2. m - 1 \notin T
      <4> HIDE DEF T
      <4> QED  BY <2>2, <3>1
    <3>3. PICK g : F(g, m - 1)
      BY <3>1, <3>2
    <3> DEFINE h == [k \in 0..m |-> IF k = m THEN Step(g, m) ELSE g[k]]
    <3>4. \A k \in 0..m : h[k] = Step(h, k)
      <4> TAKE k \in 0..m
      <4>1. CASE k = m
        <5>1. h[m - 1] = g[m - 1]
          BY <2>3, <2>5
        <5>2. h[m] = Step(g, m)
          BY <2>3
        <5> QED  BY <2>5, <4>1, <5>1, <5>2
      <4>2. CASE k # m
        <5>1. k \in 0..(m - 1)
          BY <2>3, <4>2
        <5>2. h[k] = g[k] /\ g[k] = Step(g, k)
          <6>1. g = [x \in 0..(m - 1) |-> Step(g, x)]
            BY <3>3
          <6> HIDE DEF Step
          <6> QED  BY <4>2, <5>1, <6>1
        <5>3. k # 0 => h[k - 1] = g[k - 1]
          BY <2>3, <5>1
        <5> QED  BY <5>2, <5>3
      <4> QED  BY <4>1, <4>2
    <3>5. F(h, m)
      BY <3>4
    <3> QED  BY <2>3, <3>5
  <2> QED  BY <2>4, <2>5
<1>3. \E g : F(g, N)
  <2>1. N \in 0..N
    BY <1>1
  <2> HIDE DEF F, N
  <2> QED  BY <1>2, <2>1
<1> DEFINE met == CHOOSE x : F(x, N)
<1>4. F(met, N)
  <2> HIDE DEF F
  <2> QED  BY <1>3
<1>5. DownTo(from, to, hits) = met[N]
  BY DEF DownTo
<1> HIDE DEF met
<1>6. \A k \in 0..N : met[k] = Step(met, k)
  <2> HIDE DEF Step, N
  <2> QED  BY <1>4
<1>7. IsScan(met, from, to, hits)
  BY <1>6 DEF IsScan
<1> QED  BY <1>5, <1>7

\* A scan meets every hit of its range once, from the largest to the smallest.
LEMMA DownToScans ==
  ASSUME NEW from \in Int, NEW to \in Int, to <= from + 1, NEW hits
  PROVE  Scanned(DownTo(from, to, hits), from, from - to + 1, hits)
<1>1. PICK met : /\ DownTo(from, to, hits) = met[from - to + 1]
                 /\ IsScan(met, from, to, hits)
  BY DownToRecursive
<1> DEFINE N == from - to + 1
           T == {m \in 0..N : ~ Scanned(met[m], from, m, hits)}
<1>2. T = {}
  <2> SUFFICES ASSUME T # {} PROVE FALSE
    OBVIOUS
  <2>1. T \in SUBSET Nat
    OBVIOUS
  <2> DEFINE m == Least(T)
  <2>2. m \in T /\ \A j \in T : m <= j
    <3> HIDE DEF T
    <3> QED  BY <2>1, LeastIsLeast
  <2>3. m \in 0..N /\ ~ Scanned(met[m], from, m, hits)
    BY <2>2
  <2> HIDE DEF m
  <2>4. CASE m = 0
    BY <1>1, <2>3, <2>4, ScanStarts DEF IsScan
  <2>5. CASE m # 0
    <3> DEFINE k == m - 1
               i == from - m + 1
    <3>1. k \in 0..N /\ ~ (m <= k) /\ k \in Nat /\ k + 1 = m
      BY <2>3, <2>5
    <3>2. Scanned(met[k], from, k, hits)
      <4>1. k \notin T
        <5> HIDE DEF T, k
        <5> QED  BY <2>2, <3>1
      <4> QED  BY <3>1, <4>1
    <3>3. met[m] = IF i \in hits THEN Append(met[k], i) ELSE met[k]
      BY <1>1, <2>3, <2>5 DEF IsScan
    <3>4. i \in Int /\ i = from - (k + 1) + 1
      BY <2>3
    <3> HIDE DEF k, i
    <3> QED  BY <2>3, <3>1, <3>2, <3>3, <3>4, ScanMeets
  <2> QED  BY <2>4, <2>5
<1>3. N \in 0..N
  OBVIOUS
<1> QED  BY <1>1, <1>2, <1>3

-----------------------------------------------------------------------------
(* Induction and definitions by recursion.                                 *)

\* Induction over the naturals, for a set instead of a predicate.
LEMMA Induction ==
  ASSUME NEW S, 0 \in S, \A n \in Nat : n \in S => n + 1 \in S
  PROVE  Nat \subseteq S
<1> DEFINE T == Nat \ S
<1>1. SUFFICES ASSUME T # {} PROVE FALSE
  OBVIOUS
<1>2. Least(T) \in T /\ \A j \in T : Least(T) <= j
  <2>1. T \in SUBSET Nat
    OBVIOUS
  <2> HIDE DEF T
  <2> QED  BY <1>1, <2>1, LeastIsLeast
<1> DEFINE m == Least(T)
<1>3. m \in T /\ \A j \in T : m <= j
  BY <1>2
<1> HIDE DEF m
<1>4. m \in Nat /\ m # 0 /\ m - 1 \in Nat /\ (m - 1) + 1 = m /\ ~ (m <= m - 1)
  BY <1>3
<1>5. m - 1 \in S
  BY <1>3, <1>4
<1> QED  BY <1>3, <1>4, <1>5

\* A function that is defined step by step exists.
StaysIn(next, n, T) == \A i \in 1..n, x \in T : next[<<i, x>>] \in T

LEMMA Recursion ==
  ASSUME NEW n \in Nat, NEW T, NEW a \in T, NEW next, StaysIn(next, n, T)
  PROVE  \E f \in [0..n -> T] : f[0] = a /\ \A i \in 1..n : f[i] = next[<<i, f[i - 1]>>]
<1> DEFINE F(f, m) == f \in [0..m -> T] /\ f[0] = a /\ \A i \in 1..m : f[i] = next[<<i, f[i - 1]>>]
           S == {m \in Nat : m <= n => \E f : F(f, m)}
<1>1. 0 \in S
  <2>1. F([i \in 0..0 |-> a], 0)
    OBVIOUS
  <2> QED  BY <2>1
<1>2. ASSUME NEW m \in Nat, m \in S PROVE m + 1 \in S
  <2> SUFFICES ASSUME m + 1 <= n PROVE \E f : F(f, m + 1)
    OBVIOUS
  <2>1. PICK f : F(f, m)
    BY <1>2
  <2> DEFINE g == [i \in 0..(m + 1) |-> IF i = m + 1 THEN next[<<m + 1, f[m]>>] ELSE f[i]]
  <2>2. f[m] \in T /\ m + 1 \in 1..n
    BY <2>1
  <2>3. next[<<m + 1, f[m]>>] \in T
    BY <2>2 DEF StaysIn
  <2>4. \A i \in 0..m : g[i] = f[i] /\ f[i] \in T
    BY <2>1
  <2>5. g[m + 1] = next[<<m + 1, f[m]>>]
    OBVIOUS
  <2>6. g \in [0..(m + 1) -> T]
    <3>1. \A i \in 0..(m + 1) : i = m + 1 \/ i \in 0..m
      OBVIOUS
    <3>2. \A i \in 0..(m + 1) : g[i] \in T
      <4> HIDE DEF g
      <4> QED  BY <2>3, <2>4, <2>5, <3>1
    <3>3. g = [i \in 0..(m + 1) |-> g[i]]
      OBVIOUS
    <3> HIDE DEF g
    <3> QED  BY <3>2, <3>3
  <2>7. g[0] = a
    BY <2>1, <2>4
  <2>8. \A i \in 1..(m + 1) : g[i] = next[<<i, g[i - 1]>>]
    <3> TAKE i \in 1..(m + 1)
    <3>1. CASE i = m + 1
      <4>1. i - 1 = m /\ m \in 0..m
        BY <3>1
      <4> QED  BY <2>4, <2>5, <3>1, <4>1
    <3>2. CASE i # m + 1
      <4>1. i \in 1..m /\ i \in 0..m /\ i - 1 \in 0..m
        BY <3>2
      <4> QED  BY <2>1, <2>4, <4>1
    <3> QED  BY <3>1, <3>2
  <2> HIDE DEF g
  <2> QED  BY <2>6, <2>7, <2>8
<1>3. n \in S
  <2> HIDE DEF S
  <2> QED  BY <1>1, <1>2, Induction
<1> QED  BY <1>3

-----------------------------------------------------------------------------
(* Numbers and their digits.                                               *)

\* s is less than t at position i, the first in which they differ.
LessAt(s, t, i) ==
  /\ i \in 1..Len(s) /\ i \in 1..Len(t)
  /\ \A j \in 1..(i - 1) : s[j] = t[j]
  /\ s[i] < t[i]

\* The order in which the trie keeps bytes.
LessBytes(s, t) == \E i \in 1..Len(s) : LessAt(s, t, i)

LEMMA DivMod ==
  ASSUME NEW a \in Int, NEW b \in Nat, b > 0
  PROVE  /\ a \div b \in Int /\ a % b \in 0..(b - 1)
         /\ a = b * (a \div b) + (a % b)
BY SMT

LEMMA DivUnique ==
  ASSUME NEW a \in Int, NEW b \in Nat, b > 0, NEW q \in Int, NEW r \in 0..(b - 1), a = b * q + r
  PROVE  a \div b = q /\ a % b = r
<1> DEFINE d == a \div b
           m == a % b
<1>1. d \in Int /\ m \in 0..(b - 1) /\ a = b * d + m
  BY DivMod
<1> HIDE DEF d, m
<1>2. b * (d - q) = r - m
  BY <1>1
<1>3. CASE d > q
  <2>1. d - q \in Nat /\ d - q >= 1
    BY <1>1, <1>3
  <2>2. b * (d - q) >= b
    BY <2>1
  <2> QED  BY <1>1, <1>2, <2>2
<1>4. CASE d < q
  <2>1. q - d \in Nat /\ q - d >= 1
    BY <1>1, <1>4
  <2>2. b * (q - d) >= b
    BY <2>1
  <2>3. b * (q - d) = m - r
    BY <1>1
  <2> QED  BY <1>1, <2>2, <2>3
<1>5. CASE d = q
  BY <1>1, <1>5 DEF d, m
<1> QED  BY <1>1, <1>3, <1>4, <1>5

LEMMA DivDiv ==
  ASSUME NEW a \in Int, NEW b \in Nat, b > 0, NEW c \in Nat, c > 0
  PROVE  a \div (c * b) = (a \div b) \div c
<1> DEFINE d == a \div b
           m == a % b
           e == d \div c
           k == d % c
<1>1. d \in Int /\ m \in 0..(b - 1) /\ a = b * d + m
  BY DivMod
<1>2. e \in Int /\ k \in 0..(c - 1) /\ d = c * e + k
  <2> HIDE DEF d
  <2> QED  BY <1>1, DivMod
<1> HIDE DEF d, m, e, k
<1>3. a = (c * b) * e + (b * k + m)
  <2>1. b * d = b * (c * e) + b * k
    BY <1>1, <1>2
  <2>2. b * (c * e) = (c * b) * e
    BY <1>1, <1>2
  <2> QED  BY <1>1, <1>2, <2>1, <2>2
<1>4. b * k + m \in 0..((c * b) - 1)
  <2>1. b * k \in Nat
    BY <1>2
  <2>2. c - 1 - k \in Nat /\ b * (c - 1 - k) \in Nat
    BY <1>2
  <2>3. b * (c - 1 - k) = c * b - b - b * k
    BY <1>2
  <2>4. c * b \in Nat
    OBVIOUS
  <2> QED  BY <1>1, <2>1, <2>2, <2>3, <2>4
<1>5. c * b \in Nat /\ c * b > 0
  OBVIOUS
<1>6. a \div (c * b) = e
  BY <1>2, <1>3, <1>4, <1>5, DivUnique
<1> QED  BY <1>6 DEF e, d

LEMMA DivMonotone ==
  ASSUME NEW a \in Int, NEW c \in Int, NEW b \in Nat, b > 0, a \div b < c \div b
  PROVE  a < c
<1> DEFINE d == a \div b
           m == a % b
           e == c \div b
           k == c % b
<1>1. d \in Int /\ m \in 0..(b - 1) /\ a = b * d + m
  BY DivMod
<1>2. e \in Int /\ k \in 0..(b - 1) /\ c = b * e + k
  BY DivMod
<1>3. d < e
  OBVIOUS
<1> HIDE DEF d, m, e, k
<1>4. e - d \in Nat /\ e - d >= 1
  BY <1>1, <1>2, <1>3
<1>5. b * (e - d) >= b
  BY <1>4
<1>6. b * (e - d) = b * e - b * d
  BY <1>1, <1>2
<1>7. b * e \in Int /\ b * d \in Int
  BY <1>1, <1>2
<1> QED  BY <1>1, <1>2, <1>5, <1>6, <1>7

\* The digits of a number.
Digits(W, B, u) == [i \in 1..Len(W) |-> (u \div W[i]) % B]

\* The digits up to i are the number without the places behind i.
LEMMA DigitFacts ==
  ASSUME NEW W, NEW B, PlaceValues(W, B), NEW u \in Nat, u < W[1] * B
  PROVE  /\ Len(Digits(W, B, u)) = Len(W)
         /\ \A i \in 1..Len(W) : /\ u \div W[i] \in Int
                                 /\ Digits(W, B, u)[i] \in 0..(B - 1)
         /\ Digits(W, B, u)[1] = u \div W[1]
         /\ \A i \in 2..Len(W) : u \div W[i] = B * (u \div W[i - 1]) + Digits(W, B, u)[i]
         /\ u \div W[Len(W)] = u
<1> DEFINE d == Digits(W, B, u)
<1>1. /\ B \in Nat /\ B > 1 /\ Len(W) \in Nat /\ Len(W) > 0
      /\ \A i \in 1..Len(W) : W[i] \in Nat /\ W[i] > 0
      /\ W[Len(W)] = 1 /\ \A i \in 2..Len(W) : W[i - 1] = B * W[i]
  BY DEF PlaceValues
<1>2. Len(d) = Len(W) /\ \A i \in 1..Len(W) : d[i] = (u \div W[i]) % B
  BY <1>1 DEF Digits
<1> HIDE DEF d
<1>3. ASSUME NEW i \in 1..Len(W)
      PROVE  u \div W[i] \in Int /\ d[i] \in 0..(B - 1)
  <2>1. W[i] \in Nat /\ W[i] > 0 /\ u \in Int
    BY <1>1
  <2>2. u \div W[i] \in Int
    BY <2>1, DivMod
  <2>3. (u \div W[i]) % B \in 0..(B - 1)
    BY <1>1, <2>2, DivMod
  <2> QED  BY <1>2, <2>2, <2>3
<1>4. ASSUME NEW i \in 2..Len(W)
      PROVE  u \div W[i] = B * (u \div W[i - 1]) + d[i]
  <2>1. i \in 1..Len(W) /\ W[i] \in Nat /\ W[i] > 0 /\ W[i - 1] = B * W[i] /\ u \in Int
    BY <1>1
  <2> DEFINE x == u \div W[i]
             w == W[i]
  <2>2. u \div (B * w) = (u \div w) \div B
    <3>1. w \in Nat /\ w > 0 /\ B \in Nat /\ B > 0 /\ u \in Int
      BY <1>1, <2>1
    <3> HIDE DEF w
    <3> QED  BY <1>1, <3>1, DivDiv
  <2>3. x \in Int /\ d[i] = x % B /\ u \div W[i - 1] = x \div B
    BY <1>2, <1>3, <2>1, <2>2
  <2>4. x = B * (x \div B) + (x % B)
    <3> HIDE DEF x
    <3> QED  BY <1>1, <2>3, DivMod
  <2> QED  BY <2>3, <2>4
<1>5. d[1] = u \div W[1]
  <2>1. 1 \in 1..Len(W) /\ W[1] \in Nat /\ W[1] > 0 /\ u \in Int
    BY <1>1
  <2> DEFINE q == u \div W[1]
             r == u % W[1]
  <2>2. q \in Int /\ r \in 0..(W[1] - 1) /\ u = W[1] * q + r /\ d[1] = q % B
    BY <1>2, <2>1, DivMod
  <2> HIDE DEF q, r
  <2>3. q >= 0
    <3>1. SUFFICES ASSUME q < 0  PROVE FALSE
      BY <2>2
    <3>2. 0 - q \in Nat /\ 0 - q >= 1
      BY <2>2, <3>1
    <3>3. W[1] * (0 - q) >= W[1] /\ W[1] * (0 - q) = 0 - W[1] * q
      BY <2>1, <2>2, <3>2
    <3>4. W[1] * q \in Int
      BY <2>1, <2>2
    <3> QED  BY <2>1, <2>2, <3>3, <3>4
  <2>4. q < B
    <3>1. SUFFICES ASSUME q >= B  PROVE FALSE
      BY <1>1, <2>2
    <3>2. q - B \in Nat
      BY <1>1, <2>2, <3>1
    <3>3. W[1] * (q - B) >= 0
      BY <2>1, <3>2
    <3>5. W[1] * (q - B) = W[1] * q - W[1] * B
      <4> DEFINE w == W[1]
      <4>1. w \in Int /\ q \in Int /\ B \in Int
        BY <1>1, <2>1, <2>2
      <4> HIDE DEF w
      <4>2. w * (q - B) = w * q - w * B
        BY <4>1
      <4> QED  BY <4>2 DEF w
    <3>4. W[1] * q \in Int /\ W[1] * B \in Int
      BY <1>1, <2>1, <2>2
    <3> QED  BY <2>1, <2>2, <3>3, <3>4, <3>5
  <2>5. q \in 0..(B - 1) /\ q \in Int /\ 0 \in Int /\ B > 0 /\ q = B * 0 + q
    BY <1>1, <2>2, <2>3, <2>4
  <2>6. q % B = q
    <3>1. \A c \in Int : q = B * c + q => q % B = q
      BY <1>1, <2>5, DivUnique
    <3> QED  BY <2>5, <3>1
  <2> QED  BY <2>2, <2>6 DEF q
<1>6. u \div W[Len(W)] = u
  <2>1. 1 \in Nat /\ 1 > 0 /\ 0 \in 0..(1 - 1) /\ u = 1 * u + 0 /\ u \in Int
    OBVIOUS
  <2>2. u \div 1 = u
    BY <2>1, DivUnique
  <2> QED  BY <1>1, <2>2
<1> QED  BY <1>2, <1>3, <1>4, <1>5, <1>6 DEF d

\* The first digits that differ are those of the greater number and the lesser one.
LEMMA DigitsDiffer ==
  ASSUME NEW W, NEW B, PlaceValues(W, B), NEW u \in Nat, u < W[1] * B,
         NEW v \in Nat, v < W[1] * B, u # v
  PROVE  \/ u < v /\ LessBytes(Digits(W, B, u), Digits(W, B, v))
         \/ v < u /\ LessBytes(Digits(W, B, v), Digits(W, B, u))
<1> DEFINE d == Digits(W, B, u)
           e == Digits(W, B, v)
           D == {i \in 1..Len(W) : u \div W[i] # v \div W[i]}
           i == Least(D)
<1>1. /\ B \in Nat /\ B > 1 /\ Len(W) \in Nat /\ Len(W) > 0
      /\ \A j \in 1..Len(W) : W[j] \in Nat /\ W[j] > 0
  BY DEF PlaceValues
<1>2. /\ Len(d) = Len(W)
      /\ \A j \in 1..Len(W) : u \div W[j] \in Int /\ d[j] \in 0..(B - 1)
      /\ d[1] = u \div W[1]
      /\ \A j \in 2..Len(W) : u \div W[j] = B * (u \div W[j - 1]) + d[j]
      /\ u \div W[Len(W)] = u
  BY DigitFacts
<1>3. /\ Len(e) = Len(W)
      /\ \A j \in 1..Len(W) : v \div W[j] \in Int /\ e[j] \in 0..(B - 1)
      /\ e[1] = v \div W[1]
      /\ \A j \in 2..Len(W) : v \div W[j] = B * (v \div W[j - 1]) + e[j]
      /\ v \div W[Len(W)] = v
  BY DigitFacts
<1>4. \A j \in 1..Len(W) : d[j] = (u \div W[j]) % B /\ e[j] = (v \div W[j]) % B
  BY DEF Digits
<1> HIDE DEF d, e
<1>5. i \in D /\ \A j \in D : i <= j
  <2>1. Len(W) \in 1..Len(W) /\ u \div W[Len(W)] # v \div W[Len(W)]
    BY <1>1, <1>2, <1>3
  <2>3. D \in SUBSET Nat /\ Len(W) \in D
    BY <1>1, <2>1
  <2> HIDE DEF D
  <2> QED  BY <2>3, LeastIsLeast
<1> HIDE DEF i
<1>6. i \in 1..Len(W) /\ i \in Nat /\ u \div W[i] # v \div W[i]
  BY <1>1, <1>5
<1>7. \A j \in 1..(i - 1) : j \in 1..Len(W) /\ u \div W[j] = v \div W[j]
  <2> TAKE j \in 1..(i - 1)
  <2>1. j \in 1..Len(W) /\ ~ (i <= j)
    BY <1>1, <1>6
  <2>2. j \notin D
    BY <1>5, <2>1
  <2> QED  BY <2>1, <2>2
<1> HIDE DEF D
<1>8. \A j \in 1..(i - 1) : d[j] = e[j]
  BY <1>4, <1>7
<1>9. \/ u \div W[i] < v \div W[i] /\ d[i] < e[i]
      \/ v \div W[i] < u \div W[i] /\ e[i] < d[i]
  <2>1. /\ u \div W[i] \in Int /\ v \div W[i] \in Int
        /\ d[i] \in 0..(B - 1) /\ e[i] \in 0..(B - 1)
    BY <1>2, <1>3, <1>6
  <2>2. CASE i = 1
    BY <1>2, <1>3, <1>6, <2>1, <2>2
  <2>3. CASE i # 1
    <3>1. i \in 2..Len(W) /\ i - 1 \in 1..(i - 1) /\ i - 1 \in 1..Len(W)
      BY <1>1, <1>6, <2>3
    <3>2. /\ u \div W[i] = B * (u \div W[i - 1]) + d[i]
          /\ v \div W[i] = B * (v \div W[i - 1]) + e[i]
          /\ u \div W[i - 1] = v \div W[i - 1] /\ u \div W[i - 1] \in Int
      BY <1>2, <1>3, <1>7, <3>1
    <3> DEFINE c == B * (u \div W[i - 1])
    <3>3. c \in Int /\ u \div W[i] = c + d[i] /\ v \div W[i] = c + e[i]
      BY <1>1, <3>2
    <3> HIDE DEF c
    <3> QED  BY <1>6, <2>1, <3>3
  <2> QED  BY <2>2, <2>3
<1>10. W[i] \in Nat /\ W[i] > 0 /\ u \in Int /\ v \in Int
  BY <1>1, <1>6
<1>11. CASE u \div W[i] < v \div W[i] /\ d[i] < e[i]
  <2>1. u < v
    BY <1>10, <1>11, DivMonotone
  <2>2. LessAt(d, e, i)
    BY <1>2, <1>3, <1>6, <1>8, <1>11 DEF LessAt
  <2>3. LessBytes(d, e)
    BY <1>2, <1>6, <2>2 DEF LessBytes
  <2> QED  BY <2>1, <2>3 DEF d, e
<1>12. CASE v \div W[i] < u \div W[i] /\ e[i] < d[i]
  <2>1. v < u
    BY <1>10, <1>12, DivMonotone
  <2>2. LessAt(e, d, i)
    BY <1>2, <1>3, <1>6, <1>8, <1>12 DEF LessAt
  <2>3. LessBytes(e, d)
    BY <1>3, <1>6, <2>2 DEF LessBytes
  <2> QED  BY <2>1, <2>3 DEF d, e
<1> QED  BY <1>9, <1>11, <1>12

\* Of two strings of numbers not both are less than the other, nor is one less
\* than itself.
LEMMA LessBytesStrict ==
  ASSUME NEW s, NEW t, Len(s) \in Nat, Len(t) \in Nat,
         \A i \in 1..Len(s) : s[i] \in Int, \A i \in 1..Len(t) : t[i] \in Int,
         LessBytes(s, t)
  PROVE  ~LessBytes(t, s) /\ s # t
<1>1. PICK i \in 1..Len(s) : LessAt(s, t, i)
  BY DEF LessBytes
<1>2. /\ i \in Nat /\ i \in 1..Len(s) /\ i \in 1..Len(t) /\ s[i] < t[i]
      /\ \A j \in 1..(i - 1) : s[j] = t[j]
  BY <1>1 DEF LessAt
<1>3. s[i] \in Int /\ t[i] \in Int /\ s[i] # t[i] /\ ~(t[i] < s[i])
  BY <1>2
<1>4. ASSUME NEW k \in 1..Len(t), LessAt(t, s, k)  PROVE FALSE
  <2>1. /\ k \in Nat /\ k \in 1..Len(s) /\ k \in 1..Len(t) /\ t[k] < s[k]
        /\ \A j \in 1..(k - 1) : t[j] = s[j]
    BY <1>4 DEF LessAt
  <2>2. s[k] \in Int /\ t[k] \in Int /\ s[k] # t[k]
    BY <2>1
  <2>3. CASE k < i
    BY <1>2, <2>1, <2>2, <2>3
  <2>4. CASE i < k
    BY <1>2, <1>3, <2>1, <2>4
  <2>5. CASE i = k
    BY <1>3, <2>1, <2>5
  <2> QED  BY <1>2, <2>1, <2>3, <2>4, <2>5
<1> QED  BY <1>3, <1>4 DEF LessBytes

\* Numbers are ordered as their digits.
LEMMA DigitsOrder ==
  ASSUME NEW W, NEW B, PlaceValues(W, B), NEW u \in Nat, u < W[1] * B,
         NEW v \in Nat, v < W[1] * B
  PROVE  /\ u < v <=> LessBytes(Digits(W, B, u), Digits(W, B, v))
         /\ u = v <=> Digits(W, B, u) = Digits(W, B, v)
<1> DEFINE d == Digits(W, B, u)
           e == Digits(W, B, v)
<1>1. /\ Len(d) = Len(W) /\ Len(e) = Len(W) /\ Len(W) \in Nat /\ B \in Nat
      /\ \A j \in 1..Len(W) : d[j] \in 0..(B - 1) /\ e[j] \in 0..(B - 1)
  BY DigitFacts DEF PlaceValues
<1>2. /\ LessBytes(d, e) => ~LessBytes(e, d) /\ d # e
      /\ LessBytes(e, d) => ~LessBytes(d, e) /\ d # e
  <2> HIDE DEF d, e
  <2>1. /\ \A j \in 1..Len(d) : d[j] \in Int
        /\ \A j \in 1..Len(e) : e[j] \in Int
    BY <1>1
  <2> QED  BY <1>1, <2>1, LessBytesStrict
<1>3. CASE u = v
  BY <1>2, <1>3
<1>4. CASE u # v
  <2>1. \/ u < v /\ LessBytes(d, e)
        \/ v < u /\ LessBytes(e, d)
    BY <1>4, DigitsDiffer
  <2> HIDE DEF d, e
  <2> QED  BY <1>2, <1>4, <2>1 DEF d, e
<1> QED  BY <1>3, <1>4

\* A number is the sum of its digits.
LEMMA DigitsSum ==
  ASSUME NEW W, NEW B, PlaceValues(W, B), NEW u \in Nat, u < W[1] * B
  PROVE  LET sum[i \in 0..Len(W)] ==
               IF i = 0 THEN 0 ELSE sum[i - 1] + Digits(W, B, u)[i] * W[i]
         IN  sum[Len(W)] = u
<1> DEFINE d == Digits(W, B, u)
           n == Len(W)
           q(i) == IF i = 0 THEN 0 ELSE (u \div W[i]) * W[i]
           f == [i \in 0..n |-> q(i)]
           Body(g) == [i \in 0..n |-> IF i = 0 THEN 0 ELSE g[i - 1] + d[i] * W[i]]
           sum[i \in 0..n] == IF i = 0 THEN 0 ELSE sum[i - 1] + d[i] * W[i]
<1>1. /\ B \in Nat /\ B > 1 /\ n \in Nat /\ n > 0
      /\ \A j \in 1..n : W[j] \in Nat /\ W[j] > 0
      /\ \A j \in 2..n : W[j - 1] = B * W[j]
      /\ W[n] = 1
  BY DEF PlaceValues
<1>2. /\ \A j \in 1..n : u \div W[j] \in Int /\ d[j] \in 0..(B - 1)
      /\ d[1] = u \div W[1]
      /\ \A j \in 2..n : u \div W[j] = B * (u \div W[j - 1]) + d[j]
      /\ u \div W[n] = u
  BY DigitFacts
<1> HIDE DEF d, n
<1>3. \A i \in 1..n : q(i) = q(i - 1) + d[i] * W[i]
  <2> TAKE i \in 1..n
  <2>1. /\ W[i] \in Nat /\ u \div W[i] \in Int /\ d[i] \in Int /\ B \in Nat
        /\ q(i) = (u \div W[i]) * W[i] /\ i \in Nat /\ i # 0
    BY <1>1, <1>2
  <2>2. CASE i = 1
    BY <1>2, <2>1, <2>2
  <2>3. CASE i # 1
    <3>1. i \in 2..n /\ i - 1 \in 1..n /\ i - 1 # 0
      BY <1>1, <2>3
    <3>2. /\ u \div W[i] = B * (u \div W[i - 1]) + d[i] /\ u \div W[i - 1] \in Int
          /\ W[i - 1] = B * W[i] /\ q(i - 1) = (u \div W[i - 1]) * W[i - 1]
      BY <1>1, <1>2, <3>1
    <3> DEFINE x == u \div W[i - 1]
               y == u \div W[i]
    <3>3. y = B * x + d[i] /\ x \in Int /\ q(i - 1) = x * (B * W[i]) /\ q(i) = y * W[i]
      BY <2>1, <3>2
    <3> HIDE DEF x, y, q
    <3>4. y * W[i] = x * (B * W[i]) + d[i] * W[i]
      BY <2>1, <3>3
    <3> QED  BY <3>3, <3>4
  <2> QED  BY <2>2, <2>3
<1>4. q(0) = 0 /\ q(n) = u
  <2>1. n \in 1..n /\ n # 0
    BY <1>1
  <2> QED  BY <1>1, <1>2, <2>1
<1> HIDE DEF q
<1>5. sum = Body(sum)
  <2>1. \E g : g = Body(g)
    <3>1. \A i \in 0..n : i = 0 \/ (i \in 1..n /\ i - 1 \in 0..n)
      BY <1>1
    <3>2. \A i \in 0..n : f[i] = q(i)
      OBVIOUS
    <3>3. ASSUME NEW i \in 0..n
          PROVE  q(i) = IF i = 0 THEN 0 ELSE f[i - 1] + d[i] * W[i]
      <4>1. CASE i = 0
        BY <1>4, <4>1
      <4>2. CASE i # 0
        <5>1. i \in 1..n /\ i - 1 \in 0..n
          BY <3>1, <4>2
        <5>2. f[i - 1] = q(i - 1) /\ q(i) = q(i - 1) + d[i] * W[i]
          BY <1>3, <3>2, <5>1
        <5> QED  BY <4>2, <5>2
      <4> QED  BY <4>1, <4>2
    <3>4. f = Body(f)
      BY <3>3
    <3> QED  BY <3>4
  <2> QED  BY <2>1
<1> HIDE DEF sum
<1> DEFINE S == {m \in Nat : m <= n => sum[m] = q(m)}
<1>6. 0 \in S
  BY <1>1, <1>4, <1>5
<1>7. ASSUME NEW m \in Nat, m \in S  PROVE m + 1 \in S
  <2>1. SUFFICES ASSUME m + 1 <= n  PROVE sum[m + 1] = q(m + 1)
    OBVIOUS
  <2>2. m + 1 \in 0..n /\ m + 1 \in 1..n /\ m + 1 # 0 /\ (m + 1) - 1 = m /\ m <= n
    BY <1>1, <2>1
  <2>3. sum[m] = q(m)
    BY <1>7, <2>2
  <2>4. sum[m + 1] = sum[m] + d[m + 1] * W[m + 1]
    BY <1>5, <2>2
  <2>5. q(m + 1) = q(m) + d[m + 1] * W[m + 1]
    BY <1>3, <2>2
  <2> QED  BY <2>3, <2>4, <2>5
<1>8. n \in S
  <2> HIDE DEF S
  <2> QED  BY <1>1, <1>6, <1>7, Induction
<1>9. sum[n] = u
  BY <1>1, <1>4, <1>8
<1> QED  BY <1>9 DEF sum, d, n

\* Half of the numbers stand for negative ones: turning the highest bit adds
\* half of the modulus, and turning it again takes it away.
LEMMA SignTurned ==
  ASSUME NEW M, NEW H \in Nat, H > 0, M = 2 * H, NEW n \in (0 - H)..(H - 1)
  PROVE  /\ ((n % M) + H) % M = n + H
         /\ ((n + H) + H) % M = IF n >= 0 THEN n ELSE n + M
<1>1. M \in Nat /\ M > 0 /\ n \in Int /\ 0 - H <= n /\ n < H
  OBVIOUS
<1>2. CASE n >= 0
  <2>1. /\ n = M * 0 + n /\ n \in 0..(M - 1) /\ n + H = M * 0 + (n + H) /\ n + H \in 0..(M - 1)
        /\ (n + H) + H = M * 1 + n
    BY <1>1, <1>2
  <2>2. n % M = n
    <3>1. \A c \in Int : n = M * c + n => n % M = n
      BY <1>1, <2>1, DivUnique
    <3> QED  BY <2>1, <3>1
  <2>3. (n + H) % M = n + H
    <3>1. \A c \in Int : n + H = M * c + (n + H) => (n + H) % M = n + H
      BY <1>1, <2>1, DivUnique
    <3> QED  BY <2>1, <3>1
  <2>4. ((n + H) + H) % M = n
    <3>1. \A c \in Int : (n + H) + H = M * c + n => ((n + H) + H) % M = n
      BY <1>1, <2>1, DivUnique
    <3> QED  BY <2>1, <3>1
  <2> QED  BY <1>2, <2>2, <2>3, <2>4
<1>3. CASE n < 0
  <2>1. /\ n = M * (0 - 1) + (n + M) /\ n + M \in 0..(M - 1)
        /\ (n + M) + H = M * 1 + (n + H) /\ n + H \in 0..(M - 1)
        /\ (n + H) + H = M * 0 + (n + M)
    BY <1>1, <1>3
  <2>2. n % M = n + M
    <3>1. \A c \in Int : n = M * c + (n + M) => n % M = n + M
      BY <1>1, <2>1, DivUnique
    <3> QED  BY <2>1, <3>1
  <2>3. ((n + M) + H) % M = n + H
    <3>1. \A c \in Int : (n + M) + H = M * c + (n + H) => ((n + M) + H) % M = n + H
      BY <1>1, <2>1, DivUnique
    <3> QED  BY <2>1, <3>1
  <2>4. ((n + H) + H) % M = n + M
    <3>1. \A c \in Int : (n + H) + H = M * c + (n + M) => ((n + H) + H) % M = n + M
      BY <1>1, <2>1, DivUnique
    <3> QED  BY <2>1, <3>1
  <2> QED  BY <1>1, <1>3, <2>2, <2>3, <2>4
<1> QED  BY <1>1, <1>2, <1>3

\* The highest bit, the numbers with a sign, and the numbers that stand for them.
Half(W, B) == (W[1] * B) \div 2
SignedNumbers(W, B) == (0 - Half(W, B))..(Half(W, B) - 1)
TurnSign(W, B, n) == ((n % (W[1] * B)) + Half(W, B)) % (W[1] * B)

LEMMA HalfFacts ==
  ASSUME NEW W, NEW B, PlaceValues(W, B)
  PROVE  Half(W, B) \in Nat /\ Half(W, B) > 0 /\ W[1] * B = 2 * Half(W, B)
<1> DEFINE w == W[1]
           h == B \div 2
<1>1. /\ B \in Nat /\ B > 1 /\ w \in Nat /\ w > 0 /\ B = 2 * h /\ h \in Nat /\ h > 0
  BY DEF PlaceValues
<1>2. Half(W, B) = (w * B) \div 2
  BY DEF Half
<1> HIDE DEF w, h
<1>3. w * B = 2 * (w * h) /\ w * h \in Nat /\ w * h > 0
  BY <1>1
<1> DEFINE x == w * h
<1>4. Half(W, B) = (2 * x) \div 2 /\ x \in Nat /\ x > 0 /\ w * B = 2 * x
  BY <1>2, <1>3
<1> HIDE DEF x
<1>5. Half(W, B) = x
  BY <1>4
<1> QED  BY <1>4, <1>5 DEF w

LEMMA TurnedFacts ==
  ASSUME NEW W, NEW B, PlaceValues(W, B), NEW n \in SignedNumbers(W, B)
  PROVE  /\ TurnSign(W, B, n) = n + Half(W, B) /\ n \in Int
         /\ TurnSign(W, B, n) \in Nat /\ TurnSign(W, B, n) < W[1] * B
<1> DEFINE H == Half(W, B)
           M == W[1] * B
<1>1. H \in Nat /\ H > 0 /\ M = 2 * H
  BY HalfFacts
<1>2. n \in (0 - H)..(H - 1) /\ TurnSign(W, B, n) = ((n % M) + H) % M
  BY DEF SignedNumbers, TurnSign
<1> HIDE DEF H, M
<1>3. TurnSign(W, B, n) = n + H
  BY <1>1, <1>2, SignTurned
<1>4. n \in Int /\ n + H \in Nat /\ n + H < M
  BY <1>1, <1>2
<1> QED  BY <1>3, <1>4 DEF H, M

\* Signed numbers are ordered as the digits of the numbers that stand for them.
LEMMA SignedOrder ==
  ASSUME NEW W, NEW B, PlaceValues(W, B), NEW m \in SignedNumbers(W, B), NEW n \in SignedNumbers(W, B)
  PROVE  /\ m < n <=> LessBytes(Digits(W, B, TurnSign(W, B, m)), Digits(W, B, TurnSign(W, B, n)))
         /\ m = n <=> Digits(W, B, TurnSign(W, B, m)) = Digits(W, B, TurnSign(W, B, n))
<1> DEFINE u == TurnSign(W, B, m)
           v == TurnSign(W, B, n)
<1>1. /\ u \in Nat /\ u < W[1] * B /\ v \in Nat /\ v < W[1] * B
      /\ u = m + Half(W, B) /\ v = n + Half(W, B)
      /\ m \in Int /\ n \in Int /\ Half(W, B) \in Nat
  BY TurnedFacts, HalfFacts
<1> HIDE DEF u, v
<1>2. /\ u < v <=> LessBytes(Digits(W, B, u), Digits(W, B, v))
      /\ u = v <=> Digits(W, B, u) = Digits(W, B, v)
  BY <1>1, DigitsOrder
<1>3. (u < v <=> m < n) /\ (u = v <=> m = n)
  BY <1>1
<1> QED  BY <1>2, <1>3 DEF u, v

\* Turning the sign twice.
LEMMA TurnedTwice ==
  ASSUME NEW W, NEW B, PlaceValues(W, B), NEW n \in SignedNumbers(W, B)
  PROVE  LET c == (TurnSign(W, B, n) + Half(W, B)) % (W[1] * B)
         IN  n = IF c < Half(W, B) THEN c ELSE c - W[1] * B
<1> DEFINE H == Half(W, B)
           M == W[1] * B
           c == (TurnSign(W, B, n) + H) % M
<1>1. H \in Nat /\ H > 0 /\ M = 2 * H /\ TurnSign(W, B, n) = n + H
  BY HalfFacts, TurnedFacts
<1>2. n \in (0 - H)..(H - 1)
  BY DEF SignedNumbers
<1> HIDE DEF H, M
<1>3. c = IF n >= 0 THEN n ELSE n + M
  <2>1. ((n + H) + H) % M = IF n >= 0 THEN n ELSE n + M
    BY <1>1, <1>2, SignTurned
  <2> QED  BY <1>1, <2>1
<1> HIDE DEF c
<1>4. n = IF c < H THEN c ELSE c - M
  BY <1>1, <1>2, <1>3
<1> QED  BY <1>4 DEF c, H, M
=============================================================================
