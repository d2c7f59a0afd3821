------------------------- MODULE PathPatternProofs -------------------------
(***************************************************************************)
(* Why the path matcher may forget all but the last descendant axis.       *)
(*                                                                         *)
(* A path matches a pattern if some function cuts it.  The matcher keeps    *)
(* track of one cut g of what it has read of the path, and no cut of the    *)
(* whole path is anywhere ahead of g.  Here each of its steps is shown to   *)
(* keep this up for any path and pattern: the modules on the matcher alone  *)
(* and on the query take the steps over.                                    *)
(***************************************************************************)
EXTENDS PathPattern, LoopsProofs

-----------------------------------------------------------------------------
(* What a pattern means, without the recursion over its bytes: a path w     *)
(* matches p if some function cuts it.                                      *)

\* f[n] is where what the n-th byte of p stands for ends.
Cut(w, p, n, f) ==
  /\ f \in [0..n -> 0..(Len(w) - 1)] /\ f[0] = 0
  /\ \A m \in 1..n : f[m - 1] <= f[m] /\ StandsFor(w, p[m], f[m - 1], f[m])

Whole(w, p, f) == Cut(w, p, Len(p), f) /\ f[Len(p)] = Len(w) - 1

\* The first n pieces of g, and one more that ends at j.
Ext(g, n, j) == [m \in 0..(n + 1) |-> IF m = n + 1 THEN j ELSE g[m]]

\* Words and patterns as the encoder makes them.
WordOK(w) ==
  /\ Len(w) \in Nat /\ Len(w) >= 2
  /\ \A k \in 0..(Len(w) - 1) : /\ w[k + 1] \in PathByte
                                /\ w[k + 1] = kNullByte <=> k = Len(w) - 1

PatternOK(p) ==
  Len(p) \in Nat /\ BehindAxis(p) /\ \A n \in 1..Len(p) : p[n] # kNullByte

\* Cuts is the function its definition describes: such a function exists for
\* every length of the pattern.
LEMMA CutsRecursive ==
  ASSUME NEW w, NEW p, Len(p) \in Nat
  PROVE  Cuts(w, p) = [n \in 0..Len(p) |-> IF n = 0 THEN {0}
                                           ELSE EndsOf(w, p[n], Cuts(w, p)[n - 1])]
<1> DEFINE F(g, m) == g = [n \in 0..m |-> IF n = 0 THEN {0} ELSE EndsOf(w, p[n], g[n - 1])]
           T == {m \in 0..Len(p) : ~ \E g : F(g, m)}
<1>1. T = {}
  <2> SUFFICES ASSUME T # {} PROVE FALSE
    OBVIOUS
  <2>1. T \in SUBSET Nat
    OBVIOUS
  <2> DEFINE m == Least(T)
  <2>2. m \in T /\ \A j \in T : m <= j
    <3> HIDE DEF T
    <3> QED BY <2>1, LeastIsLeast
  <2>3. m \in 0..Len(p) /\ ~ \E g : F(g, m)
    BY <2>2
  <2> HIDE DEF m
  <2>4. CASE m = 0
    <3>1. F([n \in 0..0 |-> {0}], m)
      BY <2>4
    <3> QED BY <2>3, <3>1
  <2>5. CASE m # 0
    <3>1. m - 1 \in 0..Len(p) /\ ~ (m <= m - 1)
      BY <2>3, <2>5
    <3>2. m - 1 \notin T
      <4> HIDE DEF T
      <4> QED BY <2>2, <3>1
    <3>3. PICK g : F(g, m - 1)
      BY <3>1, <3>2
    <3> DEFINE h == [n \in 0..m |-> IF n = m THEN EndsOf(w, p[m], g[m - 1]) ELSE g[n]]
    <3>4. \A n \in 0..m : h[n] = IF n = 0 THEN {0} ELSE EndsOf(w, p[n], h[n - 1])
      <4> TAKE n \in 0..m
      <4>1. CASE n = m
        <5>1. m - 1 \in 0..m /\ m \in 0..m /\ m - 1 # m
          BY <2>3, <2>5
        <5>2. h[m - 1] = g[m - 1]
          BY <5>1
        <5>3. h[m] = EndsOf(w, p[m], g[m - 1])
          BY <5>1
        <5> QED BY <4>1, <5>2, <5>3, <2>5
      <4>2. CASE n # m
        <5>1. n \in 0..(m - 1)
          BY <2>3, <4>2
        <5>2. h[n] = g[n] /\ g[n] = IF n = 0 THEN {0} ELSE EndsOf(w, p[n], g[n - 1])
          BY <3>3, <4>2, <5>1
        <5>3. n # 0 => h[n - 1] = g[n - 1]
          <6>1. n # 0 => n - 1 \in 0..m /\ n - 1 # m
            BY <2>3, <5>1
          <6> QED BY <6>1
        <5> QED BY <5>2, <5>3
      <4> QED BY <4>1, <4>2
    <3>5. F(h, m)
      BY <3>4
    <3> QED BY <2>3, <3>5
  <2> QED BY <2>4, <2>5
<1>2. Len(p) \in 0..Len(p)
  OBVIOUS
<1>3. \E g : F(g, Len(p))
  BY <1>1, <1>2
<1>4. Cuts(w, p) = CHOOSE g : F(g, Len(p))
  BY DEF Cuts
<1>5. F(Cuts(w, p), Len(p))
  <2> HIDE DEF F
  <2> QED BY <1>3, <1>4
<1> QED BY <1>5

\* A cut can be shortened to n pieces and goes on with one that fits.
LEMMA CutExt ==
  ASSUME NEW w, NEW p, NEW g, NEW q \in Nat, NEW n \in 0..q, NEW j \in 0..(Len(w) - 1),
         Cut(w, p, q, g), g[n] <= j, StandsFor(w, p[n + 1], g[n], j)
  PROVE  /\ Cut(w, p, n + 1, Ext(g, n, j))
         /\ Ext(g, n, j)[n + 1] = j
         /\ \A m \in 0..n : Ext(g, n, j)[m] = g[m]
<1> DEFINE h == Ext(g, n, j)
<1>1. /\ g \in [0..q -> 0..(Len(w) - 1)] /\ g[0] = 0
      /\ \A m \in 1..q : g[m - 1] <= g[m] /\ StandsFor(w, p[m], g[m - 1], g[m])
  BY DEF Cut
<1>2. h[n + 1] = j
  BY DEF Ext
<1>3. \A m \in 0..n : h[m] = g[m]
  BY DEF Ext
<1>4. h \in [0..(n + 1) -> 0..(Len(w) - 1)]
  <2>1. \A m \in 0..(n + 1) : (IF m = n + 1 THEN j ELSE g[m]) \in 0..(Len(w) - 1)
    BY <1>1
  <2> QED BY <2>1 DEF Ext
<1>5. \A m \in 1..(n + 1) : h[m - 1] <= h[m] /\ StandsFor(w, p[m], h[m - 1], h[m])
  <2> TAKE m \in 1..(n + 1)
  <2>1. m - 1 \in 0..n /\ h[m - 1] = g[m - 1]
    <3>1. m - 1 \in 0..n
      OBVIOUS
    <3> HIDE DEF h
    <3> QED BY <1>3, <3>1
  <2> HIDE DEF h
  <2>2. CASE m = n + 1
    <3>1. m - 1 = n
      BY <2>2
    <3> QED BY <1>2, <2>1, <2>2, <3>1
  <2>3. CASE m # n + 1
    <3>1. m \in 1..q /\ m \in 0..n
      BY <2>3
    <3> QED BY <1>1, <1>3, <2>1, <3>1
  <2> QED BY <2>2, <2>3
<1> HIDE DEF h
<1>6. Cut(w, p, n + 1, h)
  <2>1. h[0] = 0
    BY <1>1, <1>3
  <2> QED BY <1>4, <1>5, <2>1 DEF Cut
<1> QED BY <1>2, <1>3, <1>6 DEF h

\* Induction over the bytes of the pattern: the positions in Cuts are the ends
\* of cuts.
LEMMA CutsAreCuts ==
  ASSUME NEW w, NEW p, Len(p) \in Nat, Len(w) \in Nat, Len(w) >= 2, NEW n \in 0..Len(p)
  PROVE  \A j : j \in Cuts(w, p)[n] <=> \E f : Cut(w, p, n, f) /\ f[n] = j
<1> DEFINE A(m) == \A j : j \in Cuts(w, p)[m] <=> \E f : Cut(w, p, m, f) /\ f[m] = j
           T == {m \in 0..Len(p) : ~ A(m)}
<1>1. ASSUME NEW m \in 0..Len(p), m # 0 => A(m - 1)  PROVE A(m)
  <2> SUFFICES ASSUME NEW j PROVE j \in Cuts(w, p)[m] <=> \E f : Cut(w, p, m, f) /\ f[m] = j
    OBVIOUS
  <2>1. Cuts(w, p)[m] = IF m = 0 THEN {0} ELSE EndsOf(w, p[m], Cuts(w, p)[m - 1])
    <3> DEFINE C == Cuts(w, p)
    <3>1. C = [n0 \in 0..Len(p) |-> IF n0 = 0 THEN {0} ELSE EndsOf(w, p[n0], C[n0 - 1])]
      BY CutsRecursive
    <3> HIDE DEF C
    <3>2. C[m] = IF m = 0 THEN {0} ELSE EndsOf(w, p[m], C[m - 1])
      BY <3>1
    <3> QED BY <3>2 DEF C
  <2>2. CASE m = 0
    <3>1. ASSUME j = 0 PROVE \E f : Cut(w, p, m, f) /\ f[m] = j
      <4> DEFINE f == [i \in 0..0 |-> 0]
      <4>1. f \in [0..0 -> 0..(Len(w) - 1)] /\ f[0] = 0
        OBVIOUS
      <4>2. Cut(w, p, 0, f)
        BY <4>1 DEF Cut
      <4> QED BY <2>2, <3>1, <4>1, <4>2
    <3>2. ASSUME NEW f, Cut(w, p, m, f), f[m] = j PROVE j = 0
      BY <2>2, <3>2 DEF Cut
    <3> QED BY <2>1, <2>2, <3>1, <3>2
  <2>3. CASE m # 0
    <3>1. m - 1 \in Nat /\ m - 1 \in 0..Len(p) /\ (m - 1) + 1 = m /\ A(m - 1)
      BY <1>1, <2>3
    <3>2. j \in Cuts(w, p)[m] <=>
            /\ j \in 0..(Len(w) - 1)
            /\ \E i \in Cuts(w, p)[m - 1] : i <= j /\ StandsFor(w, p[m], i, j)
      BY <2>1, <2>3 DEF EndsOf
    <3>3. ASSUME j \in Cuts(w, p)[m] PROVE \E f : Cut(w, p, m, f) /\ f[m] = j
      <4>1. PICK i \in Cuts(w, p)[m - 1] : i <= j /\ StandsFor(w, p[m], i, j)
        BY <3>2, <3>3
      <4>2. PICK f : Cut(w, p, m - 1, f) /\ f[m - 1] = i
        BY <3>1, <4>1
      <4>3. m - 1 \in 0..(m - 1)
        BY <3>1
      <4> DEFINE k == m - 1
      <4> HIDE DEF k
      <4>4. k \in Nat /\ k \in 0..k /\ k + 1 = m /\ Cut(w, p, k, f) /\ f[k] = i
        BY <3>1, <4>2, <4>3 DEF k
      <4>5. Cut(w, p, k + 1, Ext(f, k, j)) /\ Ext(f, k, j)[k + 1] = j
        BY <3>2, <3>3, <4>1, <4>4, CutExt
      <4> QED BY <4>4, <4>5
    <3>4. ASSUME NEW f, Cut(w, p, m, f), f[m] = j PROVE j \in Cuts(w, p)[m]
      <4>1. /\ f \in [0..m -> 0..(Len(w) - 1)] /\ f[0] = 0
            /\ \A i \in 1..m : f[i - 1] <= f[i] /\ StandsFor(w, p[i], f[i - 1], f[i])
        BY <3>4 DEF Cut
      <4> DEFINE h == [i \in 0..(m - 1) |-> f[i]]
      <4>2. Cut(w, p, m - 1, h) /\ h[m - 1] = f[m - 1]
        <5>1. h \in [0..(m - 1) -> 0..(Len(w) - 1)] /\ h[0] = 0 /\ h[m - 1] = f[m - 1]
          BY <3>1, <4>1
        <5>2. \A i \in 1..(m - 1) : h[i - 1] <= h[i] /\ StandsFor(w, p[i], h[i - 1], h[i])
          <6> TAKE i \in 1..(m - 1)
          <6>1. i \in 1..m /\ i \in 0..(m - 1) /\ i - 1 \in 0..(m - 1)
            BY <3>1
          <6>2. h[i] = f[i] /\ h[i - 1] = f[i - 1]
            BY <6>1
          <6> QED BY <4>1, <6>1, <6>2
        <5> QED BY <5>1, <5>2 DEF Cut
      <4>3. f[m - 1] \in Cuts(w, p)[m - 1]
        BY <3>1, <4>2
      <4>4. m \in 1..m /\ m \in 0..m
        BY <2>3
      <4> QED BY <3>2, <3>4, <4>1, <4>3, <4>4
    <3> QED BY <3>3, <3>4
  <2> QED BY <2>2, <2>3
<1>2. T = {}
  <2> SUFFICES ASSUME T # {} PROVE FALSE
    OBVIOUS
  <2>1. T \in SUBSET Nat
    OBVIOUS
  <2> DEFINE m == Least(T)
  <2>2. m \in T /\ \A j \in T : m <= j
    <3> HIDE DEF T
    <3> QED BY <2>1, LeastIsLeast
  <2>3. m \in 0..Len(p) /\ ~ A(m)
    BY <2>2
  <2> HIDE DEF m
  <2>4. ASSUME m # 0 PROVE A(m - 1)
    <3>1. m - 1 \in 0..Len(p) /\ ~ (m <= m - 1)
      BY <2>3, <2>4
    <3>2. m - 1 \notin T
      <4> HIDE DEF T
      <4> QED BY <2>2, <3>1
    <3> QED BY <3>1, <3>2
  <2> HIDE DEF A
  <2> QED BY <1>1, <2>3, <2>4
<1> QED BY <1>2

LEMMA MatchesCut ==
  ASSUME NEW w, NEW p, WordOK(w), PatternOK(p)
  PROVE  Matches(w, p) <=> \E f : Whole(w, p, f)
<1>1. Len(p) \in Nat /\ Len(w) \in Nat /\ Len(w) >= 2 /\ Len(p) \in 0..Len(p)
  BY DEF WordOK, PatternOK
<1>2. \A j : j \in Cuts(w, p)[Len(p)] <=> \E f : Cut(w, p, Len(p), f) /\ f[Len(p)] = j
  BY <1>1, CutsAreCuts
<1> QED BY <1>2 DEF Matches, Whole

\* The three cases of what a byte stands for.
LEMMA WildcardStands ==
  ASSUME NEW w, NEW i, NEW j
  PROVE  StandsFor(w, Wildcard, i, j) <=>
           /\ i > 0 /\ w[i] = kPathSep
           /\ \A k \in i..(j - 1) : w[k + 1] # kPathSep
           /\ w[j + 1] = kPathSep \/ (j = Len(w) - 1 /\ i < j)
BY SpecialAssumption DEF StandsFor

LEMMA DescendantStands ==
  ASSUME NEW w, NEW i, NEW j
  PROVE  StandsFor(w, Descendant, i, j) <=>
           \/ i = Len(w) - 1 /\ j = Len(w) - 1
           \/ i < j /\ w[i + 1] = kPathSep /\ (w[j] = kPathSep \/ j = Len(w) - 1)
BY SpecialAssumption DEF StandsFor

LEMMA ByteStands ==
  ASSUME NEW w, NEW c, NEW i, NEW j, c # Wildcard, c # Descendant
  PROVE  StandsFor(w, c, i, j) <=> i < Len(w) - 1 /\ j = i + 1 /\ w[i + 1] = c
BY DEF StandsFor

\* No cut leaves the end of the path.
LEMMA CutStaysAtEnd ==
  ASSUME NEW w, NEW p, NEW f, NEW q \in Nat, NEW a \in 0..q, WordOK(w),
         Cut(w, p, q, f), f[a] = Len(w) - 1
  PROVE  \A n \in a..q : f[n] = Len(w) - 1
<1>1. Len(w) \in Nat /\ Len(w) >= 2
  BY DEF WordOK
<1>2. /\ f \in [0..q -> 0..(Len(w) - 1)]
      /\ \A m \in 1..q : f[m - 1] <= f[m]
  BY DEF Cut
<1> DEFINE T == {n \in a..q : f[n] # Len(w) - 1}
<1> SUFFICES ASSUME T # {} PROVE FALSE
  OBVIOUS
<1>3. T \in SUBSET Nat
  OBVIOUS
<1> DEFINE m == Least(T)
<1>4. m \in T /\ \A j \in T : m <= j
  <2> HIDE DEF T
  <2> QED BY <1>3, LeastIsLeast
<1>5. m \in a..q /\ f[m] # Len(w) - 1
  BY <1>4
<1> HIDE DEF m
<1>6. m # a
  BY <1>5
<1>7. m - 1 \in a..q /\ m \in 1..q /\ ~ (m <= m - 1) /\ m \in 0..q
  BY <1>5, <1>6
<1>8. m - 1 \notin T
  <2> HIDE DEF T
  <2> QED BY <1>4, <1>7
<1>9. f[m - 1] = Len(w) - 1
  BY <1>7, <1>8
<1>10. f[m] \in 0..(Len(w) - 1) /\ f[m - 1] <= f[m]
  BY <1>2, <1>7
<1> QED BY <1>1, <1>5, <1>9, <1>10

-----------------------------------------------------------------------------
(* What the matcher has found out when it stands at byte i of the path and  *)
(* byte q of the pattern, with the last descendant axis at byte d of the    *)
(* pattern, tried up to byte x of the path: one cut g of what it has read,  *)
(* and no cut of the whole path is anywhere ahead of g.                     *)

NoSep(w, i, j) == \A k \in i..(j - 1) : w[k + 1] # kPathSep

Places(w, p, i, q, x, d) ==
  /\ i \in 0..(Len(w) - 1) /\ q \in 0..Len(p)
  /\ x \in 0..(Len(w) - 1) /\ d \in (-1)..(Len(p) - 1)

\* The position in the path: a "?" may have taken a part of a label.
Here(w, p, i, q, g) ==
  IF q < Len(p) /\ p[q + 1] = Wildcard
  THEN g[q] > 0 /\ w[g[q]] = kPathSep /\ g[q] <= i /\ NoSep(w, g[q], i)
  ELSE g[q] = i

\* The last descendant axis: it ends at g[d + 1] now, and no later than at x
\* without another separator.
Axis(w, p, q, x, d, g) ==
  /\ d = -1 => x = 0 /\ \A n \in 1..q : p[n] # Descendant
  /\ d # -1 =>
       /\ d < q /\ p[d + 1] = Descendant
       /\ g[d] < g[d + 1] /\ w[g[d] + 1] = kPathSep
       /\ g[d + 1] <= x /\ NoSep(w, g[d + 1], x)

\* f is nowhere ahead of g, and is g behind the axis if both leave it together.
Follows(f, q, d, g) ==
  /\ \A n \in 0..q : g[n] <= f[n]
  /\ f[d + 1] = g[d + 1] => \A n \in (d + 1)..q : f[n] = g[n]

Standing(w, p, i, q, x, d, g) ==
  /\ Places(w, p, i, q, x, d)
  /\ Cut(w, p, q, g)
  /\ Here(w, p, i, q, g)
  /\ Axis(w, p, q, x, d, g)
  /\ \A f : Whole(w, p, f) => Follows(f, q, d, g)

LEMMA StandingFacts ==
  ASSUME NEW w, NEW p, NEW i, NEW q, NEW x, NEW d, NEW g,
         WordOK(w), PatternOK(p), Standing(w, p, i, q, x, d, g)
  PROVE  /\ Len(w) \in Nat /\ Len(w) >= 2 /\ Len(p) \in Nat
         /\ i \in 0..(Len(w) - 1) /\ q \in 0..Len(p) /\ x \in 0..(Len(w) - 1)
         /\ d \in (-1)..(Len(p) - 1) /\ d < q
         /\ g[q] \in 0..(Len(w) - 1) /\ g[q] <= i
         /\ g[d + 1] \in 0..(Len(w) - 1)
         /\ Cut(w, p, q, g)
<1>1. Len(w) \in Nat /\ Len(w) >= 2 /\ Len(p) \in Nat /\ Places(w, p, i, q, x, d)
      /\ Cut(w, p, q, g) /\ Here(w, p, i, q, g) /\ Axis(w, p, q, x, d, g)
  BY DEF WordOK, PatternOK, Standing
<1>2. /\ i \in 0..(Len(w) - 1) /\ q \in 0..Len(p) /\ x \in 0..(Len(w) - 1)
      /\ d \in (-1)..(Len(p) - 1)
  BY <1>1 DEF Places
<1>3. d < q
  BY <1>1, <1>2 DEF Axis
<1>4. g \in [0..q -> 0..(Len(w) - 1)]
  BY <1>1 DEF Cut
<1>5. q \in 0..q /\ d + 1 \in 0..q
  BY <1>2, <1>3
<1>6. g[q] \in 0..(Len(w) - 1) /\ g[d + 1] \in 0..(Len(w) - 1)
  BY <1>4, <1>5
<1>7. g[q] <= i
  BY <1>1, <1>2, <1>6 DEF Here
<1> QED BY <1>1, <1>2, <1>3, <1>6, <1>7

\* What a cut of the whole path does behind byte q of the pattern.
LEMMA WholeFacts ==
  ASSUME NEW w, NEW p, NEW i, NEW q, NEW x, NEW d, NEW g, NEW f,
         WordOK(w), PatternOK(p), Standing(w, p, i, q, x, d, g), Whole(w, p, f)
  PROVE  /\ Follows(f, q, d, g)
         /\ f \in [0..Len(p) -> 0..(Len(w) - 1)]
         /\ f[Len(p)] = Len(w) - 1
         /\ f[q] \in 0..(Len(w) - 1) /\ g[q] <= f[q]
         /\ q < Len(p) => /\ f[q + 1] \in 0..(Len(w) - 1) /\ f[q] <= f[q + 1]
                          /\ StandsFor(w, p[q + 1], f[q], f[q + 1])
<1>1. q \in 0..Len(p) /\ Len(p) \in Nat
  BY StandingFacts
<1>2. /\ f \in [0..Len(p) -> 0..(Len(w) - 1)] /\ f[Len(p)] = Len(w) - 1
      /\ \A m \in 1..Len(p) : f[m - 1] <= f[m] /\ StandsFor(w, p[m], f[m - 1], f[m])
  BY DEF Whole, Cut
<1>3. Follows(f, q, d, g)
  BY DEF Standing
<1>4. g[q] <= f[q] /\ f[q] \in 0..(Len(w) - 1)
  BY <1>1, <1>2, <1>3 DEF Follows
<1>5. ASSUME q < Len(p)
      PROVE  /\ f[q + 1] \in 0..(Len(w) - 1) /\ f[q] <= f[q + 1]
             /\ StandsFor(w, p[q + 1], f[q], f[q + 1])
  <2>1. q + 1 \in 1..Len(p) /\ q + 1 \in 0..Len(p) /\ (q + 1) - 1 = q
    BY <1>1, <1>5
  <2>2. f[q + 1] \in 0..(Len(w) - 1)
    BY <1>2, <2>1
  <2>3. f[(q + 1) - 1] <= f[q + 1] /\ StandsFor(w, p[q + 1], f[(q + 1) - 1], f[q + 1])
    BY <1>2, <2>1
  <2> QED BY <2>1, <2>2, <2>3
<1> QED BY <1>2, <1>3, <1>4, <1>5

\* g goes on with a piece that ends at j, as every cut that has followed it does.
LEMMA FollowsFurther ==
  ASSUME NEW f, NEW g, NEW q \in Nat, NEW d \in Int, -1 <= d, d < q, NEW j,
         Follows(f, q, d, g), j <= f[q + 1], f[q] = g[q] => f[q + 1] = j,
         Ext(g, q, j)[q + 1] = j, \A m \in 0..q : Ext(g, q, j)[m] = g[m]
  PROVE  Follows(f, q + 1, d, Ext(g, q, j))
<1> DEFINE h == Ext(g, q, j)
<1> HIDE DEF h
<1>1. h[q + 1] = j /\ \A m \in 0..q : h[m] = g[m]
  BY DEF h
<1>2. /\ \A n \in 0..q : g[n] <= f[n]
      /\ f[d + 1] = g[d + 1] => \A n \in (d + 1)..q : f[n] = g[n]
  BY DEF Follows
<1>3. \A n \in 0..(q + 1) : h[n] <= f[n]
  <2> TAKE n \in 0..(q + 1)
  <2>1. CASE n = q + 1
    BY <1>1, <2>1
  <2>2. CASE n # q + 1
    <3>1. n \in 0..q
      BY <2>2
    <3> QED BY <1>1, <1>2, <3>1
  <2> QED BY <2>1, <2>2
<1>4. ASSUME f[d + 1] = h[d + 1] PROVE \A n \in (d + 1)..(q + 1) : f[n] = h[n]
  <2>1. d + 1 \in 0..q /\ q \in (d + 1)..q
    OBVIOUS
  <2>2. \A n \in (d + 1)..q : f[n] = g[n]
    BY <1>1, <1>2, <1>4, <2>1
  <2>3. f[q + 1] = j
    BY <2>1, <2>2
  <2> TAKE n \in (d + 1)..(q + 1)
  <2>4. CASE n = q + 1
    BY <1>1, <2>3, <2>4
  <2>5. CASE n # q + 1
    <3>1. n \in (d + 1)..q /\ n \in 0..q
      BY <2>5
    <3> QED BY <1>1, <2>2, <3>1
  <2> QED BY <2>4, <2>5
<1>5. Follows(f, q + 1, d, h)
  BY <1>3, <1>4 DEF Follows
<1> QED BY <1>5 DEF h

\* Behind an axis there is nothing yet to follow.
LEMMA FollowsAgain ==
  ASSUME NEW f, NEW g, NEW d \in Nat, NEW j, \A n \in 0..d : g[n] <= f[n], j <= f[d + 1],
         Ext(g, d, j)[d + 1] = j, \A m \in 0..d : Ext(g, d, j)[m] = g[m]
  PROVE  Follows(f, d + 1, d, Ext(g, d, j))
<1> DEFINE h == Ext(g, d, j)
<1> HIDE DEF h
<1>1. h[d + 1] = j /\ \A m \in 0..d : h[m] = g[m]
  BY DEF h
<1>2. \A n \in 0..(d + 1) : h[n] <= f[n]
  <2> TAKE n \in 0..(d + 1)
  <2>1. CASE n = d + 1
    BY <1>1, <2>1
  <2>2. CASE n # d + 1
    <3>1. n \in 0..d
      BY <2>2
    <3> QED BY <1>1, <3>1
  <2> QED BY <2>1, <2>2
<1>3. \A n \in (d + 1)..(d + 1) : n = d + 1
  OBVIOUS
<1>4. Follows(f, d + 1, d, h)
  BY <1>2, <1>3 DEF Follows
<1> QED BY <1>4 DEF h

\* A "?" begins behind a separator.
LEMMA WildcardBegins ==
  ASSUME NEW w, NEW p, NEW i, NEW q, NEW x, NEW d, NEW g,
         WordOK(w), PatternOK(p), Standing(w, p, i, q, x, d, g),
         q < Len(p), p[q + 1] = Wildcard
  PROVE  g[q] > 0 /\ w[g[q]] = kPathSep /\ g[q] <= i /\ NoSep(w, g[q], i)
BY DEF Standing, Here

\* Axis does not see the pieces behind it.
LEMMA AxisKept ==
  ASSUME NEW w, NEW p, NEW q \in Nat, NEW x, NEW d \in Int, -1 <= d, d < q, NEW g, NEW j,
         Axis(w, p, q, x, d, g), d = -1 => p[q + 1] # Descendant,
         \A m \in 0..q : Ext(g, q, j)[m] = g[m]
  PROVE  Axis(w, p, q + 1, x, d, Ext(g, q, j))
<1> DEFINE h == Ext(g, q, j)
<1> HIDE DEF h
<1>1. \A m \in 0..q : h[m] = g[m]
  BY DEF h
<1>2. d # -1 => d \in 0..q /\ d + 1 \in 0..q /\ d < q + 1
  OBVIOUS
<1>3. \A n \in 1..(q + 1) : n \in 1..q \/ n = q + 1
  OBVIOUS
<1>4. Axis(w, p, q + 1, x, d, h)
  BY <1>1, <1>2, <1>3 DEF Axis
<1> QED BY <1>4 DEF h

-----------------------------------------------------------------------------
(* The steps of the matcher.                                                *)

\* The next piece ends at j: everything but the new place follows.
LEMMA PieceStep ==
  ASSUME NEW w, NEW p, NEW i, NEW q, NEW x, NEW d, NEW g, NEW j \in 0..(Len(w) - 1),
         WordOK(w), PatternOK(p), Standing(w, p, i, q, x, d, g), q < Len(p),
         g[q] <= j, StandsFor(w, p[q + 1], g[q], j), d = -1 => p[q + 1] # Descendant,
         \A f : Whole(w, p, f) => j <= f[q + 1] /\ (f[q] = g[q] => f[q + 1] = j),
         Here(w, p, j, q + 1, Ext(g, q, j))
  PROVE  Standing(w, p, j, q + 1, x, d, Ext(g, q, j))
<1> DEFINE h == Ext(g, q, j)
<1>1. /\ Len(w) \in Nat /\ Len(p) \in Nat /\ q \in 0..Len(p) /\ q \in Nat /\ q \in 0..q
      /\ d \in Int /\ -1 <= d /\ d < q /\ Cut(w, p, q, g)
  BY StandingFacts
<1>2. Cut(w, p, q + 1, h) /\ h[q + 1] = j /\ \A m \in 0..q : h[m] = g[m]
  BY <1>1, CutExt
<1>3. Places(w, p, i, q, x, d) /\ Axis(w, p, q, x, d, g)
  BY DEF Standing
<1>4. Places(w, p, j, q + 1, x, d)
  BY <1>1, <1>3 DEF Places
<1>5. Axis(w, p, q + 1, x, d, h)
  BY <1>1, <1>2, <1>3, AxisKept
<1>6. ASSUME NEW f, Whole(w, p, f) PROVE Follows(f, q + 1, d, h)
  <2>1. Follows(f, q, d, g) /\ j <= f[q + 1] /\ (f[q] = g[q] => f[q + 1] = j)
    BY <1>6, WholeFacts
  <2> QED BY <1>1, <1>2, <2>1, FollowsFurther
<1> HIDE DEF h
<1>7. Here(w, p, j, q + 1, h)
  BY DEF h
<1>8. Standing(w, p, j, q + 1, x, d, h)
  BY <1>2, <1>4, <1>5, <1>6, <1>7 DEF Standing
<1> QED BY <1>8 DEF h

\* MatchSymbol.
LEMMA SymbolStep ==
  ASSUME NEW w, NEW p, NEW i, NEW q, NEW x, NEW d, NEW g,
         WordOK(w), PatternOK(p), Standing(w, p, i, q, x, d, g),
         i < Len(w) - 1, q < Len(p), p[q + 1] = w[i + 1]
  PROVE  Standing(w, p, i + 1, q + 1, x, d, Ext(g, q, i + 1))
<1>1. /\ Len(w) \in Nat /\ Len(p) \in Nat /\ i \in 0..(Len(w) - 1) /\ q \in 0..Len(p)
      /\ g[q] \in 0..(Len(w) - 1) /\ Cut(w, p, q, g)
  BY StandingFacts
<1>2. p[q + 1] \in PathByte /\ p[q + 1] # Wildcard /\ p[q + 1] # Descendant
  <2>1. w[i + 1] \in PathByte
    BY <1>1 DEF WordOK
  <2> QED BY <2>1, SpecialAssumption
<1>3. g[q] = i
  BY <1>2 DEF Standing, Here
<1>4. i + 1 \in 0..(Len(w) - 1) /\ i <= i + 1
  BY <1>1
<1>5. StandsFor(w, p[q + 1], i, i + 1)
  BY <1>1, <1>2, ByteStands
<1>6. ASSUME NEW f, Whole(w, p, f)
      PROVE  i + 1 <= f[q + 1] /\ (f[q] = g[q] => f[q + 1] = i + 1)
  <2>1. g[q] <= f[q] /\ StandsFor(w, p[q + 1], f[q], f[q + 1]) /\ f[q] \in 0..(Len(w) - 1)
    BY <1>6, WholeFacts
  <2>2. f[q + 1] = f[q] + 1
    BY <1>2, <2>1, ByteStands
  <2> QED BY <1>1, <1>3, <2>1, <2>2
<1> DEFINE h == Ext(g, q, i + 1)
<1>7. h[q + 1] = i + 1
  BY <1>1 DEF Ext
<1> HIDE DEF h
<1>8. Here(w, p, i + 1, q + 1, h)
  <2>1. ASSUME q + 1 < Len(p), p[(q + 1) + 1] = Wildcard
        PROVE  w[i + 1] = kPathSep
    <3>1. (q + 1) + 1 \in 1..Len(p) /\ ((q + 1) + 1) - 1 = q + 1
      BY <1>1, <2>1
    <3>2. p[q + 1] \in {kPathSep, Descendant}
      BY <2>1, <3>1 DEF PatternOK, BehindAxis
    <3> QED BY <1>2, <3>2
  <2>2. NoSep(w, i + 1, i + 1) /\ i + 1 > 0 /\ i + 1 <= i + 1
    BY <1>1 DEF NoSep
  <2> QED BY <1>7, <2>1, <2>2 DEF Here
<1> QED BY <1>1, <1>2, <1>3, <1>4, <1>5, <1>6, <1>8, PieceStep DEF h

\* MatchWildcard at a separator: the label is over.
LEMMA WildcardEndStep ==
  ASSUME NEW w, NEW p, NEW i, NEW q, NEW x, NEW d, NEW g,
         WordOK(w), PatternOK(p), Standing(w, p, i, q, x, d, g),
         q < Len(p), p[q + 1] = Wildcard, w[i + 1] = kPathSep
  PROVE  Standing(w, p, i, q + 1, x, d, Ext(g, q, i))
<1>1. /\ Len(w) \in Nat /\ Len(p) \in Nat /\ i \in 0..(Len(w) - 1) /\ q \in 0..Len(p)
      /\ g[q] \in 0..(Len(w) - 1) /\ Cut(w, p, q, g)
  BY StandingFacts
<1>2. g[q] > 0 /\ w[g[q]] = kPathSep /\ g[q] <= i /\ NoSep(w, g[q], i)
  BY WildcardBegins
<1>3. StandsFor(w, p[q + 1], g[q], i)
  BY <1>2, WildcardStands DEF NoSep
<1>4. ASSUME NEW f, Whole(w, p, f)
      PROVE  i <= f[q + 1] /\ (f[q] = g[q] => f[q + 1] = i)
  <2>1. /\ g[q] <= f[q] /\ StandsFor(w, p[q + 1], f[q], f[q + 1])
        /\ f[q] \in 0..(Len(w) - 1) /\ f[q + 1] \in 0..(Len(w) - 1) /\ f[q] <= f[q + 1]
    BY <1>4, WholeFacts
  <2>2. /\ \A k \in f[q]..(f[q + 1] - 1) : w[k + 1] # kPathSep
        /\ w[f[q + 1] + 1] = kPathSep \/ f[q + 1] = Len(w) - 1
    BY <2>1, WildcardStands
  <2>3. ~ (f[q + 1] < i)
    <3>1. SUFFICES ASSUME f[q + 1] < i PROVE FALSE
      OBVIOUS
    <3>2. f[q + 1] \in g[q]..(i - 1)
      BY <1>1, <2>1, <3>1
    <3>3. w[f[q + 1] + 1] # kPathSep
      BY <1>2, <3>2 DEF NoSep
    <3> QED BY <1>1, <2>2, <3>1, <3>3
  <2>4. ASSUME f[q] = g[q] PROVE ~ (i < f[q + 1])
    <3>1. SUFFICES ASSUME i < f[q + 1] PROVE FALSE
      OBVIOUS
    <3>2. i \in f[q]..(f[q + 1] - 1)
      BY <1>1, <1>2, <2>1, <2>4, <3>1
    <3> QED BY <2>2, <3>2
  <2> QED BY <1>1, <2>1, <2>3, <2>4
<1> DEFINE h == Ext(g, q, i)
<1>5. h[q + 1] = i
  BY <1>1 DEF Ext
<1> HIDE DEF h
<1>6. Here(w, p, i, q + 1, h)
  <2>1. ASSUME q + 1 < Len(p), p[(q + 1) + 1] = Wildcard
        PROVE  FALSE
    <3>1. (q + 1) + 1 \in 1..Len(p) /\ ((q + 1) + 1) - 1 = q + 1
      BY <1>1, <2>1
    <3>2. p[q + 1] \in {kPathSep, Descendant}
      BY <2>1, <3>1 DEF PatternOK, BehindAxis
    <3> QED BY <3>2, SpecialAssumption DEF PathByte
  <2> QED BY <1>5, <2>1 DEF Here
<1>7. p[q + 1] # Descendant
  BY SpecialAssumption
<1> QED BY <1>1, <1>2, <1>3, <1>4, <1>6, <1>7, PieceStep DEF h

\* MatchWildcard inside a label.
LEMMA WildcardByteStep ==
  ASSUME NEW w, NEW p, NEW i, NEW q, NEW x, NEW d, NEW g,
         WordOK(w), PatternOK(p), Standing(w, p, i, q, x, d, g),
         i < Len(w) - 1, q < Len(p), p[q + 1] = Wildcard, w[i + 1] # kPathSep
  PROVE  Standing(w, p, i + 1, q, x, d, g)
<1>1. /\ Len(w) \in Nat /\ Len(p) \in Nat /\ i \in 0..(Len(w) - 1) /\ q \in 0..Len(p)
      /\ g[q] \in 0..(Len(w) - 1)
  BY StandingFacts
<1>2. g[q] > 0 /\ w[g[q]] = kPathSep /\ g[q] <= i /\ NoSep(w, g[q], i)
  BY WildcardBegins
<1>3. NoSep(w, g[q], i + 1) /\ g[q] <= i + 1
  <2>1. \A k \in g[q]..((i + 1) - 1) : k \in g[q]..(i - 1) \/ k = i
    BY <1>1
  <2> QED BY <1>1, <1>2, <2>1 DEF NoSep
<1>4. Here(w, p, i + 1, q, g)
  BY <1>2, <1>3 DEF Here
<1>5. Places(w, p, i, q, x, d)
  BY DEF Standing
<1>6. Places(w, p, i + 1, q, x, d)
  BY <1>1, <1>5 DEF Places
<1> QED BY <1>4, <1>6 DEF Standing

\* A new piece of the last descendant axis, or of one that is found now.
LEMMA AxisStep ==
  ASSUME NEW w, NEW p, NEW i, NEW q, NEW x, NEW d, NEW g, NEW n \in 0..q, NEW j \in 0..(Len(w) - 1),
         WordOK(w), PatternOK(p), Standing(w, p, i, q, x, d, g), n < Len(p),
         p[n + 1] = Descendant, g[n] < j, w[g[n] + 1] = kPathSep,
         w[j] = kPathSep \/ j = Len(w) - 1,
         \A f : Whole(w, p, f) => j <= f[n + 1],
         (n + 1 < Len(p) /\ p[n + 2] = Wildcard) => w[j] = kPathSep
  PROVE  Standing(w, p, j, n + 1, j, n, Ext(g, n, j))
<1> DEFINE h == Ext(g, n, j)
<1>1. /\ Len(w) \in Nat /\ Len(p) \in Nat /\ q \in 0..Len(p) /\ q \in Nat /\ n \in Nat
      /\ Cut(w, p, q, g)
  BY StandingFacts
<1>2. g[n] <= j /\ g[n] \in 0..(Len(w) - 1)
  <2>1. g \in [0..q -> 0..(Len(w) - 1)]
    BY <1>1 DEF Cut
  <2> QED BY <1>1, <2>1
<1>3. StandsFor(w, p[n + 1], g[n], j)
  BY <1>1, DescendantStands
<1>4. Cut(w, p, n + 1, h) /\ h[n + 1] = j /\ \A m \in 0..n : h[m] = g[m]
  BY <1>1, <1>2, <1>3, CutExt
<1>5. ASSUME NEW f, Whole(w, p, f) PROVE Follows(f, n + 1, n, h)
  <2>1. \A m \in 0..q : g[m] <= f[m]
    BY <1>5, WholeFacts DEF Follows
  <2>2. \A m \in 0..n : g[m] <= f[m]
    BY <1>1, <2>1
  <2> QED BY <1>1, <1>4, <1>5, <2>2, FollowsAgain
<1> HIDE DEF h
<1>6. Places(w, p, j, n + 1, j, n)
  BY <1>1 DEF Places
<1>7. NoSep(w, j, j) /\ j > 0 /\ j <= j
  BY <1>1, <1>2 DEF NoSep
<1>8. Here(w, p, j, n + 1, h)
  <2>1. (n + 1) + 1 = n + 2
    BY <1>1
  <2> QED BY <1>4, <1>7, <2>1 DEF Here
<1>9. Axis(w, p, n + 1, j, n, h)
  <2>1. n # -1 /\ n < n + 1 /\ n \in 0..n
    BY <1>1
  <2> QED BY <1>4, <1>7, <2>1 DEF Axis
<1>10. Standing(w, p, j, n + 1, j, n, h)
  BY <1>4, <1>5, <1>6, <1>8, <1>9 DEF Standing
<1> QED BY <1>10 DEF h

\* EnterDescendant.
LEMMA EnterStep ==
  ASSUME NEW w, NEW p, NEW i, NEW q, NEW x, NEW d, NEW g,
         WordOK(w), PatternOK(p), Standing(w, p, i, q, x, d, g),
         i < Len(w) - 1, q < Len(p), p[q + 1] = Descendant, w[i + 1] = kPathSep
  PROVE  Standing(w, p, i + 1, q + 1, i + 1, q, Ext(g, q, i + 1))
<1>1. /\ Len(w) \in Nat /\ Len(p) \in Nat /\ i \in 0..(Len(w) - 1) /\ q \in 0..Len(p)
      /\ q \in 0..q
  BY StandingFacts
<1>2. g[q] = i
  BY SpecialAssumption DEF Standing, Here
<1>3. i + 1 \in 0..(Len(w) - 1) /\ g[q] < i + 1
  BY <1>1, <1>2
<1>4. ASSUME NEW f, Whole(w, p, f) PROVE i + 1 <= f[q + 1]
  <2>1. /\ g[q] <= f[q] /\ StandsFor(w, p[q + 1], f[q], f[q + 1])
        /\ f[q] \in 0..(Len(w) - 1) /\ f[q + 1] \in 0..(Len(w) - 1)
    BY <1>4, WholeFacts
  <2>2. \/ f[q] = Len(w) - 1 /\ f[q + 1] = Len(w) - 1
        \/ f[q] < f[q + 1]
    BY <2>1, DescendantStands
  <2> QED BY <1>1, <1>2, <2>1, <2>2
<1> QED BY <1>1, <1>2, <1>3, <1>4, AxisStep

-----------------------------------------------------------------------------
\* No byte of the pattern takes the next byte of the path.
Stuck(w, p, i, q) ==
  /\ i < Len(w) - 1
  /\ q < Len(p) => /\ p[q + 1] # w[i + 1] /\ p[q + 1] # Wildcard
                   /\ ~ (p[q + 1] = Descendant /\ w[i + 1] = kPathSep)

\* Then no cut leaves the last descendant axis where g does.
LEMMA NoWay ==
  ASSUME NEW w, NEW p, NEW i, NEW q, NEW x, NEW d, NEW g, NEW f,
         WordOK(w), PatternOK(p), Standing(w, p, i, q, x, d, g), Stuck(w, p, i, q),
         Whole(w, p, f)
  PROVE  f[d + 1] # g[d + 1] /\ g[d + 1] <= f[d + 1]
<1>1. /\ Len(w) \in Nat /\ Len(p) \in Nat /\ i \in 0..(Len(w) - 1) /\ q \in 0..Len(p)
      /\ d \in (-1)..(Len(p) - 1) /\ d < q /\ q \in (d + 1)..q /\ d + 1 \in 0..q
  BY StandingFacts
<1>2. /\ Follows(f, q, d, g) /\ f[Len(p)] = Len(w) - 1
      /\ q < Len(p) => StandsFor(w, p[q + 1], f[q], f[q + 1])
  BY WholeFacts
<1>3. g[d + 1] <= f[d + 1]
  BY <1>1, <1>2 DEF Follows
<1>4. SUFFICES ASSUME f[d + 1] = g[d + 1] PROVE FALSE
  BY <1>3
<1>5. f[q] = g[q]
  BY <1>1, <1>2, <1>4 DEF Follows
<1>6. g[q] = i
  BY DEF Standing, Here, Stuck
<1>7. CASE q = Len(p)
  BY <1>1, <1>2, <1>5, <1>6, <1>7 DEF Stuck
<1>8. CASE q < Len(p)
  <2>1. StandsFor(w, p[q + 1], i, f[q + 1]) /\ i < Len(w) - 1
    BY <1>2, <1>5, <1>6, <1>8 DEF Stuck
  <2>2. CASE p[q + 1] = Descendant
    <3>1. w[i + 1] = kPathSep
      BY <2>1, <2>2, <1>1, DescendantStands
    <3> QED BY <1>8, <2>2, <3>1 DEF Stuck
  <2>3. CASE p[q + 1] # Descendant
    <3>1. p[q + 1] # Wildcard
      BY <1>8 DEF Stuck
    <3>2. w[i + 1] = p[q + 1]
      BY <2>1, <2>3, <3>1, ByteStands
    <3> QED BY <1>8, <3>2 DEF Stuck
  <2> QED BY <2>2, <2>3
<1> QED BY <1>1, <1>7, <1>8

\* Where the descendant axis of a cut can end.
LEMMA AxisEnds ==
  ASSUME NEW w, NEW p, NEW i, NEW q, NEW x, NEW d, NEW g, NEW f,
         WordOK(w), PatternOK(p), Standing(w, p, i, q, x, d, g), Stuck(w, p, i, q),
         d # -1, Whole(w, p, f)
  PROVE  /\ f[d + 1] \in 0..(Len(w) - 1)
         /\ f[d + 1] = Len(w) - 1 \/ x < f[d + 1]
<1>1. /\ Len(w) \in Nat /\ Len(w) >= 2 /\ Len(p) \in Nat /\ x \in 0..(Len(w) - 1)
      /\ d \in (-1)..(Len(p) - 1) /\ d # -1 /\ g[d + 1] \in 0..(Len(w) - 1)
  BY StandingFacts
<1>2. p[d + 1] = Descendant /\ g[d + 1] <= x /\ NoSep(w, g[d + 1], x)
  BY DEF Standing, Axis
<1>3. g[d + 1] < f[d + 1] /\ f[d + 1] \in 0..(Len(w) - 1)
  <2>1. f \in [0..Len(p) -> 0..(Len(w) - 1)]
    BY WholeFacts
  <2>2. f[d + 1] \in 0..(Len(w) - 1)
    BY <1>1, <2>1
  <2>3. f[d + 1] # g[d + 1] /\ g[d + 1] <= f[d + 1]
    BY NoWay
  <2> QED BY <1>1, <2>2, <2>3
<1>4. f[d + 1] = Len(w) - 1 \/ w[f[d + 1]] = kPathSep
  <2>1. d + 1 \in 1..Len(p) /\ (d + 1) - 1 = d
    BY <1>1
  <2>2. \A m \in 1..Len(p) : StandsFor(w, p[m], f[m - 1], f[m])
    BY DEF Whole, Cut
  <2>3. StandsFor(w, p[d + 1], f[(d + 1) - 1], f[d + 1])
    BY <2>1, <2>2
  <2>4. StandsFor(w, Descendant, f[d], f[d + 1])
    BY <1>2, <2>1, <2>3
  <2> QED BY <2>4, DescendantStands
<1>5. ASSUME f[d + 1] <= x PROVE w[f[d + 1]] # kPathSep
  <2>1. f[d + 1] - 1 \in g[d + 1]..(x - 1) /\ (f[d + 1] - 1) + 1 = f[d + 1]
    BY <1>1, <1>3, <1>5
  <2>2. w[(f[d + 1] - 1) + 1] # kPathSep
    BY <1>2, <2>1 DEF NoSep
  <2> QED BY <2>1, <2>2
<1> QED BY <1>1, <1>3, <1>4, <1>5

\* The axis as AxisStep needs it.
LEMMA AxisFacts ==
  ASSUME NEW w, NEW p, NEW i, NEW q, NEW x, NEW d, NEW g,
         WordOK(w), PatternOK(p), Standing(w, p, i, q, x, d, g), d # -1
  PROVE  /\ d \in 0..q /\ d < Len(p) /\ d < q /\ q <= Len(p) /\ q \in Nat
         /\ x \in 0..(Len(w) - 1) /\ Len(w) \in Nat /\ Len(w) >= 2
         /\ p[d + 1] = Descendant /\ g[d] < g[d + 1] /\ w[g[d] + 1] = kPathSep
         /\ g[d] \in 0..(Len(w) - 1) /\ g[d + 1] \in 0..(Len(w) - 1)
         /\ g[d + 1] <= x /\ NoSep(w, g[d + 1], x)
<1>1. /\ Len(w) \in Nat /\ Len(w) >= 2 /\ Len(p) \in Nat /\ q \in 0..Len(p)
      /\ d \in (-1)..(Len(p) - 1) /\ d # -1 /\ d < q /\ x \in 0..(Len(w) - 1)
      /\ g[d + 1] \in 0..(Len(w) - 1) /\ Cut(w, p, q, g)
  BY StandingFacts
<1>2. Axis(w, p, q, x, d, g)
  BY DEF Standing
<1>3. g \in [0..q -> 0..(Len(w) - 1)] /\ d \in 0..q
  BY <1>1 DEF Cut
<1>4. g[d] \in 0..(Len(w) - 1)
  BY <1>3
<1> QED BY <1>1, <1>2, <1>3, <1>4 DEF Axis

\* WidenDescendant at a separator.
LEMMA WidenSepStep ==
  ASSUME NEW w, NEW p, NEW i, NEW q, NEW x, NEW d, NEW g,
         WordOK(w), PatternOK(p), Standing(w, p, i, q, x, d, g), Stuck(w, p, i, q),
         d # -1, w[x + 1] = kPathSep
  PROVE  Standing(w, p, x + 1, d + 1, x + 1, d, Ext(g, d, x + 1))
<1>1. /\ d \in 0..q /\ d < Len(p) /\ p[d + 1] = Descendant /\ w[g[d] + 1] = kPathSep
      /\ x \in 0..(Len(w) - 1) /\ Len(w) \in Nat /\ g[d] < g[d + 1] /\ g[d + 1] <= x
      /\ g[d] \in 0..(Len(w) - 1) /\ g[d + 1] \in 0..(Len(w) - 1)
  BY AxisFacts
<1>2. x # Len(w) - 1
  <2>1. w[x + 1] = kNullByte <=> x = Len(w) - 1
    BY <1>1 DEF WordOK
  <2> QED BY <2>1, SpecialAssumption
<1>3. x + 1 \in 0..(Len(w) - 1) /\ g[d] < x + 1
  BY <1>1, <1>2
<1>4. ASSUME NEW f, Whole(w, p, f) PROVE x + 1 <= f[d + 1]
  <2>1. f[d + 1] \in 0..(Len(w) - 1) /\ (f[d + 1] = Len(w) - 1 \/ x < f[d + 1])
    BY <1>4, AxisEnds
  <2> QED BY <1>1, <1>3, <2>1
<1> QED BY <1>1, <1>3, <1>4, AxisStep

\* WidenDescendant at the null byte.
LEMMA WidenNullStep ==
  ASSUME NEW w, NEW p, NEW i, NEW q, NEW x, NEW d, NEW g,
         WordOK(w), PatternOK(p), Standing(w, p, i, q, x, d, g), Stuck(w, p, i, q),
         d # -1, w[x + 1] = kNullByte
  PROVE  Standing(w, p, x, d + 1, x, d, Ext(g, d, x))
<1>1. /\ d \in 0..q /\ d < Len(p) /\ p[d + 1] = Descendant /\ w[g[d] + 1] = kPathSep
      /\ x \in 0..(Len(w) - 1) /\ Len(w) \in Nat /\ Len(w) >= 2 /\ g[d] < g[d + 1] /\ g[d + 1] <= x
      /\ g[d] \in 0..(Len(w) - 1) /\ g[d + 1] \in 0..(Len(w) - 1)
      /\ d < q /\ q <= Len(p) /\ q \in Nat /\ NoSep(w, g[d + 1], x)
  BY AxisFacts
<1>2. x = Len(w) - 1
  BY <1>1 DEF WordOK
<1>3. g[d] < x
  BY <1>1
<1>4. ASSUME NEW f, Whole(w, p, f) PROVE x <= f[d + 1]
  <2>1. f[d + 1] \in 0..(Len(w) - 1) /\ (f[d + 1] = Len(w) - 1 \/ x < f[d + 1])
    BY <1>4, AxisEnds
  <2> QED BY <1>1, <1>2, <2>1
<1>5. ASSUME d + 1 < Len(p), p[d + 2] = Wildcard PROVE FALSE
  <2>1. d + 1 # q
    <3>1. (d + 1) + 1 = d + 2
      BY <1>1
    <3> QED BY <1>5, <3>1 DEF Stuck
  <2>2. d + 2 \in 1..q /\ (d + 2) - 1 = d + 1 /\ d + 2 \in 0..q
    BY <1>1, <2>1
  <2>3. Cut(w, p, q, g) /\ g[q] <= i /\ i \in 0..(Len(w) - 1) /\ g[q] \in 0..(Len(w) - 1)
    BY StandingFacts
  <2>4. g \in [0..q -> 0..(Len(w) - 1)]
        /\ g[(d + 2) - 1] <= g[d + 2] /\ StandsFor(w, p[d + 2], g[(d + 2) - 1], g[d + 2])
    BY <2>2, <2>3 DEF Cut
  <2>5. g[d + 2] \in 0..(Len(w) - 1)
    BY <2>2, <2>4
  <2>6. g[d + 1] <= g[d + 2] /\ StandsFor(w, Wildcard, g[d + 1], g[d + 2])
    BY <1>5, <2>2, <2>4
  <2>7. w[g[d + 2] + 1] = kPathSep \/ g[d + 2] = Len(w) - 1
    BY <2>6, WildcardStands
  <2>8. g[d + 2] # Len(w) - 1
    <3>1. SUFFICES ASSUME g[d + 2] = Len(w) - 1 PROVE FALSE
      OBVIOUS
    <3>2. q \in (d + 2)..q
      BY <1>1, <2>1
    <3> DEFINE a == d + 2
    <3>3. a \in 0..q /\ q \in a..q /\ g[a] = Len(w) - 1
      BY <2>2, <3>1, <3>2
    <3> HIDE DEF a
    <3>4. g[q] = Len(w) - 1
      BY <1>1, <2>3, <3>3, CutStaysAtEnd
    <3> QED BY <1>1, <2>3, <3>4 DEF Stuck
  <2>9. g[d + 2] \in g[d + 1]..(x - 1)
    BY <1>1, <1>2, <2>5, <2>6, <2>8
  <2>10. w[g[d + 2] + 1] # kPathSep
    BY <1>1, <2>9 DEF NoSep
  <2> QED BY <2>7, <2>8, <2>10
<1> QED BY <1>1, <1>2, <1>3, <1>4, <1>5, AxisStep

\* WidenDescendant inside a label.
LEMMA WidenByteStep ==
  ASSUME NEW w, NEW p, NEW i, NEW q, NEW x, NEW d, NEW g,
         WordOK(w), PatternOK(p), Standing(w, p, i, q, x, d, g),
         d # -1, w[x + 1] # kPathSep, w[x + 1] # kNullByte
  PROVE  Standing(w, p, i, q, x + 1, d, g)
<1>1. /\ x \in 0..(Len(w) - 1) /\ Len(w) \in Nat /\ g[d + 1] \in 0..(Len(w) - 1)
      /\ g[d + 1] <= x /\ NoSep(w, g[d + 1], x)
  BY AxisFacts
<1>2. x # Len(w) - 1
  BY <1>1 DEF WordOK
<1>3. NoSep(w, g[d + 1], x + 1) /\ g[d + 1] <= x + 1
  <2>1. \A k \in g[d + 1]..((x + 1) - 1) : k \in g[d + 1]..(x - 1) \/ k = x
    BY <1>1
  <2> QED BY <1>1, <2>1 DEF NoSep
<1>4. Axis(w, p, q, x, d, g) /\ Places(w, p, i, q, x, d)
  BY DEF Standing
<1>5. Axis(w, p, q, x + 1, d, g)
  BY <1>3, <1>4 DEF Axis
<1>6. Places(w, p, i, q, x + 1, d)
  BY <1>1, <1>2, <1>4 DEF Places
<1> QED BY <1>5, <1>6 DEF Standing

\* Fail: without a descendant axis nothing else can be tried.
LEMMA FailStep ==
  ASSUME NEW w, NEW p, NEW i, NEW q, NEW x, NEW d, NEW g, d = -1,
         WordOK(w), PatternOK(p), Standing(w, p, i, q, x, d, g), Stuck(w, p, i, q)
  PROVE  ~ Matches(w, p)
<1>1. SUFFICES ASSUME NEW f, Whole(w, p, f) PROVE FALSE
  BY MatchesCut
<1>2. d + 1 = 0
  OBVIOUS
<1>3. f[d + 1] # g[d + 1]
  BY <1>1, NoWay
<1>4. Cut(w, p, q, g) /\ Cut(w, p, Len(p), f)
  BY <1>1 DEF Standing, Whole
<1>5. f[0] = 0 /\ g[0] = 0
  BY <1>4 DEF Cut
<1> QED BY <1>2, <1>3, <1>5

\* Finish: with the path at its end, the rest of the pattern must be axes.
LEMMA FinishStep ==
  ASSUME NEW w, NEW p, NEW i, NEW q, NEW x, NEW d, NEW g, NEW b,
         WordOK(w), PatternOK(p), Standing(w, p, i, q, x, d, g), i = Len(w) - 1,
         b = IF q < Len(p) /\ p[q + 1] = Wildcard /\ w[i] # kPathSep THEN q + 1 ELSE q
  PROVE  Matches(w, p) <=> \A n \in (b + 1)..Len(p) : p[n] = Descendant
<1> DEFINE e == Len(w) - 1
<1>1. /\ Len(w) \in Nat /\ Len(w) >= 2 /\ Len(p) \in Nat /\ q \in 0..Len(p)
      /\ g[q] \in 0..e /\ g[q] <= i /\ e \in Nat /\ e >= 1 /\ i = e /\ Cut(w, p, q, g)
  BY StandingFacts
<1>2. b \in q..Len(p) /\ b \in 0..Len(p)
  BY <1>1
<1>3. w[e + 1] # kPathSep
  <2>1. e \in 0..(Len(w) - 1)
    BY <1>1
  <2>2. w[e + 1] = kNullByte
    BY <2>1 DEF WordOK
  <2> QED BY <2>2, SpecialAssumption
<1>4. q < Len(p) /\ p[q + 1] = Wildcard =>
        g[q] > 0 /\ w[g[q]] = kPathSep /\ \A k \in g[q]..(e - 1) : w[k + 1] # kPathSep
  <2>1. SUFFICES ASSUME q < Len(p), p[q + 1] = Wildcard
        PROVE  g[q] > 0 /\ w[g[q]] = kPathSep /\ \A k \in g[q]..(e - 1) : w[k + 1] # kPathSep
    OBVIOUS
  <2>2. g[q] > 0 /\ w[g[q]] = kPathSep /\ NoSep(w, g[q], i)
    BY <2>1, WildcardBegins
  <2> QED BY <2>2 DEF NoSep
<1>5. ~ (q < Len(p) /\ p[q + 1] = Wildcard) => g[q] = e
  BY <1>1 DEF Standing, Here
<1> HIDE DEF e
<1>6. ASSUME \A n \in (b + 1)..Len(p) : p[n] = Descendant
      PROVE  \E f : Whole(w, p, f)
  <2>1. /\ g \in [0..q -> 0..e] /\ g[0] = 0
        /\ \A m \in 1..q : g[m - 1] <= g[m] /\ StandsFor(w, p[m], g[m - 1], g[m])
    BY <1>1 DEF Cut, e
  <2> DEFINE h == [n \in 0..Len(p) |-> IF n <= q THEN g[n] ELSE e]
  <2>2. \A n \in 0..q : h[n] = g[n]
    BY <1>1
  <2>3. \A n \in (q + 1)..Len(p) : h[n] = e
    BY <1>1
  <2>4. h \in [0..Len(p) -> 0..e]
    <3>1. \A n \in 0..Len(p) : (IF n <= q THEN g[n] ELSE e) \in 0..e
      BY <1>1, <2>1
    <3> QED BY <3>1
  <2> HIDE DEF h
  <2>5. h[Len(p)] = e
    <3>1. CASE q = Len(p)
      BY <1>1, <1>5, <2>2, <3>1
    <3>2. CASE q # Len(p)
      <4>1. Len(p) \in (q + 1)..Len(p)
        BY <1>1, <3>2
      <4> QED BY <2>3, <4>1
    <3> QED BY <3>1, <3>2
  <2>6. \A m \in 1..Len(p) : h[m - 1] <= h[m] /\ StandsFor(w, p[m], h[m - 1], h[m])
    <3> TAKE m \in 1..Len(p)
    <3>1. CASE m <= q
      <4>1. m \in 1..q /\ m \in 0..q /\ m - 1 \in 0..q
        BY <1>1, <3>1
      <4> QED BY <2>1, <2>2, <4>1
    <3>2. CASE m = q + 1
      <4>1. q < Len(p) /\ q \in 0..q /\ q + 1 \in (q + 1)..Len(p) /\ m - 1 = q
        BY <1>1, <3>2
      <4>2. h[m - 1] = g[q] /\ h[m] = e /\ g[q] <= e
        BY <1>1, <2>2, <2>3, <3>2, <4>1
      <4>3. CASE p[q + 1] = Wildcard /\ w[i] # kPathSep
        <5>1. g[q] < e
          BY <1>1, <1>4, <4>1, <4>3
        <5>2. StandsFor(w, Wildcard, g[q], e)
          BY <1>4, <4>1, <4>3, <5>1, WildcardStands DEF e
        <5> QED BY <3>2, <4>2, <4>3, <5>2
      <4>4. CASE ~ (p[q + 1] = Wildcard /\ w[i] # kPathSep)
        <5>1. b = q
          BY <4>1, <4>4
        <5>2. p[q + 1] = Descendant
          BY <1>6, <4>1, <5>1
        <5>3. g[q] = e
          BY <1>5, <5>2, SpecialAssumption
        <5>4. StandsFor(w, Descendant, e, e)
          BY DescendantStands DEF e
        <5> QED BY <3>2, <4>2, <5>2, <5>3, <5>4
      <4> QED BY <4>3, <4>4
    <3>3. CASE m > q + 1
      <4>1. m \in (q + 1)..Len(p) /\ m - 1 \in (q + 1)..Len(p) /\ m \in (b + 1)..Len(p)
        BY <1>1, <1>2, <3>3
      <4>2. h[m - 1] = e /\ h[m] = e /\ p[m] = Descendant
        BY <1>6, <2>3, <4>1
      <4>3. StandsFor(w, Descendant, e, e)
        BY DescendantStands DEF e
      <4> QED BY <1>1, <4>2, <4>3
    <3> QED BY <1>1, <3>1, <3>2, <3>3
  <2>7. h[0] = 0
    BY <1>1, <2>1, <2>2
  <2>8. Whole(w, p, h)
    BY <2>4, <2>5, <2>6, <2>7 DEF Whole, Cut, e
  <2> QED BY <2>8
<1>7. ASSUME NEW f, Whole(w, p, f), NEW n \in (b + 1)..Len(p)
      PROVE  p[n] = Descendant
  <2>1. /\ f \in [0..Len(p) -> 0..e] /\ f[q] \in 0..e /\ g[q] <= f[q]
        /\ q < Len(p) => /\ f[q + 1] \in 0..e /\ f[q] <= f[q + 1]
                         /\ StandsFor(w, p[q + 1], f[q], f[q + 1])
    BY <1>7, WholeFacts DEF e
  <2>2. q < Len(p)
    BY <1>1, <1>2
  <2>3. f[b] = e
    <3>1. CASE p[q + 1] = Wildcard /\ w[i] # kPathSep
      <4>1. b = q + 1
        BY <2>2, <3>1
      <4>2. w[f[q + 1] + 1] = kPathSep \/ f[q + 1] = e
        BY <2>1, <2>2, <3>1, WildcardStands DEF e
      <4>3. f[q + 1] # e => f[q + 1] \in g[q]..(e - 1)
        BY <1>1, <2>1, <2>2
      <4> QED BY <1>4, <2>2, <3>1, <4>1, <4>2, <4>3
    <3>2. CASE p[q + 1] = Wildcard /\ w[i] = kPathSep
      <4>1. g[q] = e
        <5>1. (e - 1) + 1 = e /\ (g[q] # e => e - 1 \in g[q]..(e - 1))
          BY <1>1
        <5> QED BY <1>1, <1>4, <2>2, <3>2, <5>1
      <4>2. f[q] = e /\ f[q + 1] = e
        BY <1>1, <2>1, <2>2, <4>1
      <4>3. w[e + 1] = kPathSep \/ (f[q + 1] = e /\ e < e)
        BY <2>1, <2>2, <3>2, <4>2, WildcardStands DEF e
      <4> QED BY <1>1, <1>3, <4>3
    <3>3. CASE p[q + 1] # Wildcard
      BY <1>1, <1>5, <2>1, <3>3
    <3> QED BY <3>1, <3>2, <3>3
  <2>4. Cut(w, p, Len(p), f)
    BY <1>7 DEF Whole
  <2>5. \A m \in b..Len(p) : f[m] = e
    BY <1>1, <1>2, <2>3, <2>4, CutStaysAtEnd DEF e
  <2>6. n \in 1..Len(p) /\ n \in b..Len(p) /\ n - 1 \in b..Len(p)
    BY <1>1, <1>2
  <2>7. StandsFor(w, p[n], f[n - 1], f[n])
    BY <2>4, <2>6 DEF Cut
  <2>8. StandsFor(w, p[n], e, e)
    BY <2>5, <2>6, <2>7
  <2>9. p[n] # Wildcard
    <3>1. SUFFICES ASSUME p[n] = Wildcard PROVE FALSE
      OBVIOUS
    <3>2. w[e + 1] = kPathSep \/ e < e
      BY <2>8, <3>1, WildcardStands
    <3> QED BY <1>1, <1>3, <3>2
  <2>10. p[n] = Descendant \/ p[n] = Wildcard
    <3>1. SUFFICES ASSUME p[n] # Descendant, p[n] # Wildcard PROVE FALSE
      OBVIOUS
    <3>2. e < Len(w) - 1
      BY <2>8, <3>1, ByteStands
    <3> QED BY <1>1, <3>2 DEF e
  <2> QED BY <2>9, <2>10
<1> QED BY <1>6, <1>7, MatchesCut

\* Where the loop over trailing axes ends that starts at byte q.
TrailingEnd(p, q) ==
  Least({e \in q..Len(p) : e = Len(p) \/ p[e + 1] # Descendant})

LEMMA TrailingEnds ==
  ASSUME NEW p, Len(p) \in Nat, NEW q \in 0..Len(p)
  PROVE  /\ TrailingEnd(p, q) \in q..Len(p)
         /\ TrailingEnd(p, q) = Len(p) <=> \A n \in (q + 1)..Len(p) : p[n] = Descendant
<1> DEFINE E == {e \in q..Len(p) : e = Len(p) \/ p[e + 1] # Descendant}
           z == TrailingEnd(p, q)
<1>1. E \in SUBSET Nat /\ Len(p) \in E
  OBVIOUS
<1>2. z = Least(E)
  BY DEF TrailingEnd
<1>3. z \in E /\ \A e \in E : z <= e
  <2> HIDE DEF E, z
  <2> QED BY <1>1, <1>2, LeastIsLeast
<1>4. /\ z \in q..Len(p) /\ (z = Len(p) \/ p[z + 1] # Descendant)
      /\ \A e \in q..Len(p) : p[e + 1] # Descendant => z <= e
  BY <1>3
<1> HIDE DEF z, E
<1>5. ASSUME z = Len(p), NEW n \in (q + 1)..Len(p) PROVE p[n] = Descendant
  <2>1. n - 1 \in q..Len(p) /\ (n - 1) + 1 = n /\ ~ (Len(p) <= n - 1)
    OBVIOUS
  <2>2. p[(n - 1) + 1] # Descendant => z <= n - 1
    BY <1>4, <2>1
  <2> QED BY <1>5, <2>1, <2>2
<1>6. ASSUME \A n \in (q + 1)..Len(p) : p[n] = Descendant PROVE z = Len(p)
  <2>1. z # Len(p) => z + 1 \in (q + 1)..Len(p)
    BY <1>4
  <2> QED BY <1>4, <1>6, <2>1
<1> QED BY <1>4, <1>5, <1>6 DEF z

-----------------------------------------------------------------------------
(* A step of the matcher as a relation between its positions before and     *)
(* after it.                                                                *)

At(i, q, x, d) == [ppos_ |-> i, qpos_ |-> q, desc_ppos_ |-> x, desc_qpos_ |-> d]

\* A byte of the pattern takes the next byte of the path, or its end.
Accepts(w, p, i, q, x, d, next) ==
  /\ q < Len(p)
  /\ \/ p[q + 1] = w[i + 1] /\ next = At(i + 1, q + 1, x, d)
     \/ p[q + 1] = Wildcard /\ w[i + 1] = kPathSep /\ next = At(i, q + 1, x, d)
     \/ p[q + 1] = Wildcard /\ w[i + 1] # kPathSep /\ next = At(i + 1, q, x, d)
     \/ p[q + 1] = Descendant /\ w[i + 1] = kPathSep /\ next = At(i + 1, q + 1, i + 1, q)

Rejects(w, p, i, q) ==
  q < Len(p) => /\ p[q + 1] # w[i + 1] /\ p[q + 1] # Wildcard
                /\ ~ (p[q + 1] = Descendant /\ w[i + 1] = kPathSep)

Widens(w, p, i, q, x, d, next) ==
  \/ w[x + 1] = kPathSep /\ next = At(x + 1, d + 1, x + 1, d)
  \/ w[x + 1] = kNullByte /\ next = At(x, d + 1, x, d)
  \/ w[x + 1] # kPathSep /\ w[x + 1] # kNullByte /\ next = At(i, q, x + 1, d)

\* The end of the pattern at the end of the path.
RestFrom(w, p, i, q) ==
  TrailingEnd(p, IF q < Len(p) /\ p[q + 1] = Wildcard /\ w[i] # kPathSep THEN q + 1 ELSE q)

\* From st to next with answer m, when len bytes of path w are shown.
Takes(w, p, len, st, next, m) ==
  LET i == st.ppos_
      q == st.qpos_
      x == st.desc_ppos_
      d == st.desc_qpos_
  IN  \/ ~ (i < len /\ x < len) /\ next = st /\ m = "INCOMPLETE"
      \/ /\ i < len /\ x < len /\ w[i + 1] = kNullByte
         /\ next = At(i, RestFrom(w, p, i, q), x, d)
         /\ m = IF RestFrom(w, p, i, q) = Len(p) THEN "MATCH" ELSE "MISMATCH"
      \/ /\ i < len /\ x < len /\ w[i + 1] # kNullByte
         /\ \/ Accepts(w, p, i, q, x, d, next) /\ m = "calling"
            \/ Rejects(w, p, i, q) /\ d # -1 /\ Widens(w, p, i, q, x, d, next) /\ m = "calling"
            \/ Rejects(w, p, i, q) /\ d = -1 /\ next = st /\ m = "MISMATCH"

\* What is known of the matcher st with answer m that was shown len bytes of w.
Knows(w, p, len, st, m) ==
  /\ st = At(st.ppos_, st.qpos_, st.desc_ppos_, st.desc_qpos_)
  /\ Places(w, p, st.ppos_, st.qpos_, st.desc_ppos_, st.desc_qpos_)
  /\ st.ppos_ <= len /\ st.desc_ppos_ <= len
  /\ m \in {"calling", "INCOMPLETE", "MATCH", "MISMATCH"}
  /\ m \in {"calling", "INCOMPLETE"} =>
       /\ \E g : Standing(w, p, st.ppos_, st.qpos_, st.desc_ppos_, st.desc_qpos_, g)
       /\ st.qpos_ > 0 /\ p[st.qpos_] = Wildcard => st.ppos_ < len
  /\ m = "INCOMPLETE" => st.ppos_ >= len \/ st.desc_ppos_ >= len
  /\ m = "MATCH" => /\ Matches(w, p) /\ len >= Len(w)
                    /\ st.ppos_ = Len(w) - 1 /\ st.qpos_ = Len(p)
  /\ m = "MISMATCH" => ~ Matches(w, p)

\* The matcher stands at a new place.
LEMMA KnowsMore ==
  ASSUME NEW w, NEW p, NEW len, NEW st, NEW i, NEW q, NEW x, NEW d, NEW g,
         st = At(i, q, x, d), Standing(w, p, i, q, x, d, g), i <= len, x <= len,
         q > 0 /\ p[q] = Wildcard => i < len
  PROVE  Knows(w, p, len, st, "calling")
<1>1. st.ppos_ = i /\ st.qpos_ = q /\ st.desc_ppos_ = x /\ st.desc_qpos_ = d
  BY DEF At
<1>2. Places(w, p, i, q, x, d)
  BY DEF Standing
<1> QED BY <1>1, <1>2 DEF Knows

\* Its last byte of the path is behind no position where it reads another one.
LEMMA ReadsInside ==
  ASSUME NEW w, WordOK(w), NEW i \in 0..(Len(w) - 1), w[i + 1] # kNullByte
  PROVE  i < Len(w) - 1
<1>1. Len(w) \in Nat /\ (w[i + 1] = kNullByte <=> i = Len(w) - 1)
  BY DEF WordOK
<1> QED BY <1>1

LEMMA TakesKnows ==
  ASSUME NEW w, NEW p, NEW len, NEW st, NEW next, NEW m,
         WordOK(w), PatternOK(p), len \in 0..Len(w),
         Knows(w, p, len, st, "calling"), Takes(w, p, len, st, next, m)
  PROVE  Knows(w, p, len, next, m)
<1> DEFINE i == st.ppos_
           q == st.qpos_
           x == st.desc_ppos_
           d == st.desc_qpos_
<1>1. PICK g : Standing(w, p, i, q, x, d, g)
  BY DEF Knows
<1>2. /\ st = At(i, q, x, d) /\ Places(w, p, i, q, x, d) /\ i <= len /\ x <= len
  BY DEF Knows
<1>3. /\ i \in 0..(Len(w) - 1) /\ q \in 0..Len(p) /\ x \in 0..(Len(w) - 1)
      /\ d \in (-1)..(Len(p) - 1) /\ Len(p) \in Nat /\ Len(w) \in Nat
  BY <1>2 DEF Places, PatternOK, WordOK
<1>4. Takes(w, p, len, At(i, q, x, d), next, m)
  BY <1>2
<1> HIDE DEF i, q, x, d
<1>5. \/ ~ (i < len /\ x < len) /\ next = st /\ m = "INCOMPLETE"
      \/ /\ i < len /\ x < len /\ w[i + 1] = kNullByte
         /\ next = At(i, RestFrom(w, p, i, q), x, d)
         /\ m = IF RestFrom(w, p, i, q) = Len(p) THEN "MATCH" ELSE "MISMATCH"
      \/ /\ i < len /\ x < len /\ w[i + 1] # kNullByte
         /\ \/ Accepts(w, p, i, q, x, d, next) /\ m = "calling"
            \/ Rejects(w, p, i, q) /\ d # -1 /\ Widens(w, p, i, q, x, d, next) /\ m = "calling"
            \/ Rejects(w, p, i, q) /\ d = -1 /\ next = st /\ m = "MISMATCH"
  BY DEF Takes, i, q, x, d
<1>6. CASE ~ (i < len /\ x < len) /\ next = st /\ m = "INCOMPLETE"
  <2>1. i >= len \/ x >= len
    BY <1>3, <1>6
  <2> QED BY <1>6, <2>1 DEF Knows, i, x
<1>7. CASE /\ i < len /\ x < len /\ w[i + 1] = kNullByte
           /\ next = At(i, RestFrom(w, p, i, q), x, d)
           /\ m = IF RestFrom(w, p, i, q) = Len(p) THEN "MATCH" ELSE "MISMATCH"
  <2> DEFINE b == IF q < Len(p) /\ p[q + 1] = Wildcard /\ w[i] # kPathSep THEN q + 1 ELSE q
             z == TrailingEnd(p, b)
  <2>1. RestFrom(w, p, i, q) = z
    BY DEF RestFrom
  <2>2. b \in 0..Len(p)
    BY <1>3
  <2>3. i = Len(w) - 1
    BY <1>3, <1>7 DEF WordOK
  <2>4. Matches(w, p) <=> \A n \in (b + 1)..Len(p) : p[n] = Descendant
    BY <1>1, <2>3, FinishStep
  <2> HIDE DEF b
  <2>5. z \in b..Len(p) /\ (z = Len(p) <=> \A n \in (b + 1)..Len(p) : p[n] = Descendant)
    BY <1>3, <2>2, TrailingEnds
  <2> HIDE DEF z
  <2>6. next.ppos_ = i /\ next.qpos_ = z /\ next.desc_ppos_ = x /\ next.desc_qpos_ = d
        /\ next = At(i, z, x, d)
    BY <1>7, <2>1 DEF At
  <2>7. Places(w, p, i, z, x, d)
    BY <1>2, <1>3, <2>2, <2>5 DEF Places
  <2>8. m = IF z = Len(p) THEN "MATCH" ELSE "MISMATCH"
    BY <1>7, <2>1
  <2>9. len >= Len(w)
    BY <1>3, <1>7, <2>3
  <2>10. CASE z = Len(p)
    <3>1. m = "MATCH" /\ Matches(w, p)
      BY <2>4, <2>5, <2>8, <2>10
    <3> QED BY <1>2, <2>3, <2>6, <2>7, <2>9, <2>10, <3>1 DEF Knows
  <2>11. CASE z # Len(p)
    <3>1. m = "MISMATCH" /\ ~ Matches(w, p)
      BY <2>4, <2>5, <2>8, <2>11
    <3> QED BY <1>2, <2>6, <2>7, <3>1 DEF Knows
  <2> QED BY <2>10, <2>11
<1>8. CASE i < len /\ x < len /\ w[i + 1] # kNullByte /\ m = "calling"
           /\ Accepts(w, p, i, q, x, d, next)
  <2>1. i < Len(w) - 1 /\ q < Len(p) /\ i + 1 <= len /\ i <= len /\ x <= len
    BY <1>3, <1>8, ReadsInside DEF Accepts
  <2>2. CASE p[q + 1] = w[i + 1] /\ next = At(i + 1, q + 1, x, d)
    <3>1. Standing(w, p, i + 1, q + 1, x, d, Ext(g, q, i + 1))
      BY <1>1, <2>1, <2>2, SymbolStep
    <3>2. p[q + 1] # Wildcard
      BY <1>3, <2>2, SpecialAssumption DEF WordOK
    <3> QED BY <1>8, <2>1, <2>2, <3>1, <3>2, KnowsMore
  <2>3. CASE p[q + 1] = Wildcard /\ w[i + 1] = kPathSep /\ next = At(i, q + 1, x, d)
    <3>1. Standing(w, p, i, q + 1, x, d, Ext(g, q, i))
      BY <1>1, <2>1, <2>3, WildcardEndStep
    <3> QED BY <1>8, <2>1, <2>3, <3>1, KnowsMore
  <2>4. CASE p[q + 1] = Wildcard /\ w[i + 1] # kPathSep /\ next = At(i + 1, q, x, d)
    <3>1. Standing(w, p, i + 1, q, x, d, g)
      BY <1>1, <2>1, <2>4, WildcardByteStep
    <3>2. q > 0 => p[q] # Wildcard
      <4>1. q + 1 \in 1..Len(p) /\ (q + 1) - 1 = q
        BY <1>3, <2>1
      <4>2. p[q] \in {kPathSep, Descendant}
        BY <2>4, <4>1 DEF PatternOK, BehindAxis
      <4> QED BY <4>2, SpecialAssumption DEF PathByte
    <3> QED BY <1>8, <2>1, <2>4, <3>1, <3>2, KnowsMore
  <2>5. CASE p[q + 1] = Descendant /\ w[i + 1] = kPathSep /\ next = At(i + 1, q + 1, i + 1, q)
    <3>1. Standing(w, p, i + 1, q + 1, i + 1, q, Ext(g, q, i + 1))
      BY <1>1, <2>1, <2>5, EnterStep
    <3> QED BY <1>8, <2>1, <2>5, <3>1, KnowsMore, SpecialAssumption
  <2> QED BY <1>8, <2>2, <2>3, <2>4, <2>5 DEF Accepts
<1>9. CASE i < len /\ x < len /\ w[i + 1] # kNullByte /\ m = "calling"
           /\ Rejects(w, p, i, q) /\ d # -1 /\ Widens(w, p, i, q, x, d, next)
  <2>1. Stuck(w, p, i, q) /\ x + 1 <= len /\ i <= len /\ x <= len
    BY <1>3, <1>9, ReadsInside DEF Rejects, Stuck
  <2>2. p[d + 1] # Wildcard
    BY <1>1, <1>9, SpecialAssumption DEF Standing, Axis
  <2>3. CASE w[x + 1] = kPathSep /\ next = At(x + 1, d + 1, x + 1, d)
    <3>1. Standing(w, p, x + 1, d + 1, x + 1, d, Ext(g, d, x + 1))
      BY <1>1, <1>9, <2>1, <2>3, WidenSepStep
    <3> QED BY <1>9, <2>1, <2>2, <2>3, <3>1, KnowsMore
  <2>4. CASE w[x + 1] = kNullByte /\ next = At(x, d + 1, x, d)
    <3>1. Standing(w, p, x, d + 1, x, d, Ext(g, d, x))
      BY <1>1, <1>9, <2>1, <2>4, WidenNullStep
    <3> QED BY <1>9, <2>1, <2>2, <2>4, <3>1, KnowsMore
  <2>5. CASE w[x + 1] # kPathSep /\ w[x + 1] # kNullByte /\ next = At(i, q, x + 1, d)
    <3>1. Standing(w, p, i, q, x + 1, d, g)
      BY <1>1, <1>9, <2>1, <2>5, WidenByteStep
    <3> QED BY <1>9, <2>1, <2>5, <3>1, KnowsMore
  <2> QED BY <1>9, <2>3, <2>4, <2>5 DEF Widens
<1>10. CASE i < len /\ x < len /\ w[i + 1] # kNullByte /\ m = "MISMATCH"
            /\ Rejects(w, p, i, q) /\ d = -1 /\ next = st
  <2>1. Stuck(w, p, i, q)
    BY <1>3, <1>10, ReadsInside DEF Rejects, Stuck
  <2>2. ~ Matches(w, p)
    BY <1>1, <1>10, <2>1, FailStep
  <2> QED BY <1>10, <2>2 DEF Knows
<1> QED BY <1>5, <1>6, <1>7, <1>8, <1>9, <1>10

\* More of the path is shown.
LEMMA ShownMore ==
  ASSUME NEW w, NEW p, NEW len, NEW st, NEW more, Len(w) \in Nat,
         len \in 0..Len(w), more \in len..Len(w), Knows(w, p, len, st, "INCOMPLETE")
  PROVE  Knows(w, p, more, st, "calling")
<1>1. Places(w, p, st.ppos_, st.qpos_, st.desc_ppos_, st.desc_qpos_)
  BY DEF Knows
<1>2. st.ppos_ \in Int /\ st.desc_ppos_ \in Int
  BY <1>1 DEF Places
<1>3. /\ st.ppos_ <= more /\ st.desc_ppos_ <= more
      /\ st.ppos_ < len => st.ppos_ < more
  BY <1>2 DEF Knows
<1> QED BY <1>3 DEF Knows

\* The matcher begins.
LEMMA KnowsAtFirst ==
  ASSUME NEW w, NEW p, WordOK(w), PatternOK(p)
  PROVE  /\ Knows(w, p, 0, At(0, 0, 0, -1), "calling")
         /\ Knows(w, p, 0, At(0, 0, 0, -1), "INCOMPLETE")
<1> DEFINE g == [n \in 0..0 |-> 0]
<1>1. g[0] = 0 /\ g \in [0..0 -> 0..(Len(w) - 1)] /\ Len(w) >= 2 /\ Len(p) \in Nat
      /\ Len(w) \in Nat
  BY DEF WordOK, PatternOK
<1> HIDE DEF g
<1>2. Cut(w, p, 0, g)
  BY <1>1 DEF Cut
<1>3. Places(w, p, 0, 0, 0, -1)
  BY <1>1 DEF Places
<1>4. Here(w, p, 0, 0, g)
  <2>1. ASSUME 0 < Len(p), p[0 + 1] = Wildcard PROVE FALSE
    <3>1. 0 + 1 \in 1..Len(p) /\ ~ (0 + 1 > 1)
      BY <1>1, <2>1
    <3> QED BY <2>1, <3>1 DEF PatternOK, BehindAxis
  <2> QED BY <1>1, <2>1 DEF Here
<1>5. Axis(w, p, 0, 0, -1, g)
  <2>1. \A n \in 1..0 : FALSE
    OBVIOUS
  <2> QED BY <2>1 DEF Axis
<1>6. ASSUME NEW f, Whole(w, p, f) PROVE Follows(f, 0, -1, g)
  <2>1. f[0] = 0
    BY <1>6 DEF Whole, Cut
  <2>2. (\A n \in 0..0 : n = 0) /\ -1 + 1 = 0
    OBVIOUS
  <2> QED BY <1>1, <2>1, <2>2 DEF Follows
<1>7. Standing(w, p, 0, 0, 0, -1, g)
  BY <1>2, <1>3, <1>4, <1>5, <1>6 DEF Standing
<1>8. Knows(w, p, 0, At(0, 0, 0, -1), "calling")
  BY <1>7, KnowsMore
<1> QED BY <1>8 DEF Knows, At

\* Asked again after a match, the matcher matches again and stays.
LEMMA TakesDone ==
  ASSUME NEW w, NEW p, NEW len, NEW st, NEW next, NEW m,
         WordOK(w), PatternOK(p), len \in 0..Len(w),
         Knows(w, p, len, st, "MATCH"), Takes(w, p, len, st, next, m)
  PROVE  m = "MATCH" /\ next = st
<1> DEFINE i == st.ppos_
           q == st.qpos_
           x == st.desc_ppos_
           d == st.desc_qpos_
<1>1. /\ st = At(i, q, x, d) /\ i = Len(w) - 1 /\ q = Len(p) /\ len >= Len(w)
      /\ x \in 0..(Len(w) - 1) /\ Len(w) \in Nat /\ Len(w) >= 2 /\ Len(p) \in Nat
  BY DEF Knows, Places, WordOK, PatternOK
<1>2. w[i + 1] = kNullByte /\ i < len /\ x < len
  BY <1>1 DEF WordOK
<1>3. /\ next = At(i, RestFrom(w, p, i, q), x, d)
      /\ m = IF RestFrom(w, p, i, q) = Len(p) THEN "MATCH" ELSE "MISMATCH"
  <2> HIDE DEF i, q, x, d
  <2> QED BY <1>2 DEF Takes, i, q, x, d
<1>4. RestFrom(w, p, i, q) = Len(p)
  <2> DEFINE z == TrailingEnd(p, Len(p))
  <2>1. RestFrom(w, p, i, q) = z
    BY <1>1 DEF RestFrom
  <2>2. Len(p) \in 0..Len(p)
    BY <1>1
  <2>3. z \in Len(p)..Len(p)
    BY <1>1, <2>2, TrailingEnds
  <2> QED BY <1>1, <2>1, <2>3
<1> QED BY <1>1, <1>3, <1>4

\* A step reads nothing but the bytes it is shown.
LEMMA TakesShown ==
  ASSUME NEW w, NEW u, NEW p, NEW len, NEW st, NEW next, NEW m,
         WordOK(w), len \in 0..Len(w), \A k \in 1..len : u[k] = w[k],
         Places(w, p, st.ppos_, st.qpos_, st.desc_ppos_, st.desc_qpos_),
         Takes(u, p, len, st, next, m)
  PROVE  Takes(w, p, len, st, next, m)
<1> DEFINE i == st.ppos_
           q == st.qpos_
           x == st.desc_ppos_
           d == st.desc_qpos_
<1>1. i \in 0..(Len(w) - 1) /\ x \in 0..(Len(w) - 1) /\ Len(w) \in Nat /\ Len(w) >= 2
  BY DEF Places, WordOK
<1> HIDE DEF i, q, x, d
<1>2. CASE ~ (i < len /\ x < len)
  BY <1>2 DEF Takes, i, x
<1>3. CASE i < len /\ x < len
  <2>1. u[i + 1] = w[i + 1] /\ u[x + 1] = w[x + 1]
    BY <1>1, <1>3
  <2>2. CASE w[i + 1] = kNullByte
    <3>1. i = Len(w) - 1
      BY <1>1, <2>2 DEF WordOK
    <3>2. u[i] = w[i]
      BY <1>1, <1>3, <3>1
    <3>3. RestFrom(u, p, i, q) = RestFrom(w, p, i, q)
      BY <3>2 DEF RestFrom
    <3>4. /\ next = At(i, RestFrom(u, p, i, q), x, d)
          /\ m = IF RestFrom(u, p, i, q) = Len(p) THEN "MATCH" ELSE "MISMATCH"
      BY <1>3, <2>1, <2>2 DEF Takes, i, q, x, d
    <3> QED BY <1>3, <2>2, <3>3, <3>4 DEF Takes, i, q, x, d
  <2>3. CASE w[i + 1] # kNullByte
    <3>1. /\ Accepts(u, p, i, q, x, d, next) <=> Accepts(w, p, i, q, x, d, next)
          /\ Rejects(u, p, i, q) <=> Rejects(w, p, i, q)
          /\ Widens(u, p, i, q, x, d, next) <=> Widens(w, p, i, q, x, d, next)
      BY <2>1 DEF Accepts, Rejects, Widens
    <3>2. \/ Accepts(u, p, i, q, x, d, next) /\ m = "calling"
          \/ Rejects(u, p, i, q) /\ d # -1 /\ Widens(u, p, i, q, x, d, next) /\ m = "calling"
          \/ Rejects(u, p, i, q) /\ d = -1 /\ next = st /\ m = "MISMATCH"
      BY <1>3, <2>1, <2>3 DEF Takes, i, q, x, d
    <3> QED BY <1>3, <2>3, <3>1, <3>2 DEF Takes, i, q, x, d
  <2> QED BY <2>2, <2>3
<1> QED BY <1>2, <1>3

\* Where only the pattern's next byte can follow.
LEMMA OneByteFollows ==
  ASSUME NEW w, NEW p, NEW len, NEW st, WordOK(w), PatternOK(p), len \in 0..Len(w),
         Knows(w, p, len, st, "INCOMPLETE"), st.desc_qpos_ = -1, Matches(w, p),
         st.qpos_ < Len(p) => p[st.qpos_ + 1] # Wildcard /\ p[st.qpos_ + 1] # Descendant
  PROVE  /\ len < Len(w)
         /\ IF st.qpos_ < Len(p) THEN w[len + 1] = p[st.qpos_ + 1] ELSE w[len + 1] = kNullByte
<1> DEFINE i == st.ppos_
           q == st.qpos_
           x == st.desc_ppos_
           d == st.desc_qpos_
<1>1. PICK g : Standing(w, p, i, q, x, d, g)
  BY DEF Knows
<1>2. i >= len \/ x >= len
  BY DEF Knows
<1>3. i <= len /\ d = -1
  BY DEF Knows
<1>4. /\ Len(w) \in Nat /\ Len(w) >= 2 /\ Len(p) \in Nat
      /\ i \in 0..(Len(w) - 1) /\ q \in 0..Len(p) /\ x \in 0..(Len(w) - 1) /\ d < q
  BY <1>1, StandingFacts
<1>5. PICK f : Whole(w, p, f)
  BY MatchesCut
<1> HIDE DEF i, q, x, d
<1>6. x = 0
  BY <1>1, <1>3 DEF Standing, Axis
<1>7. i = len
  BY <1>2, <1>3, <1>4, <1>6
<1>8. g[q] = i
  BY <1>1 DEF Standing, Here, q
<1>9. /\ Follows(f, q, d, g) /\ f[Len(p)] = Len(w) - 1
      /\ q < Len(p) => StandsFor(w, p[q + 1], f[q], f[q + 1])
  BY <1>1, <1>5, WholeFacts
<1>10. f[q] = i
  <2>1. d + 1 = 0 /\ q \in 0..q
    BY <1>3, <1>4
  <2>2. f[0] = 0 /\ g[0] = 0
    BY <1>1, <1>5 DEF Standing, Whole, Cut
  <2> QED BY <1>8, <1>9, <2>1, <2>2 DEF Follows
<1>11. len < Len(w)
  BY <1>4, <1>7
<1>12. CASE q < Len(p)
  <2>1. p[q + 1] # Wildcard /\ p[q + 1] # Descendant
    BY <1>12 DEF q
  <2>2. w[i + 1] = p[q + 1]
    BY <1>9, <1>10, <1>12, <2>1, ByteStands
  <2> QED BY <1>7, <1>11, <1>12, <2>2 DEF q
<1>13. CASE q = Len(p)
  <2>1. i = Len(w) - 1
    BY <1>9, <1>10, <1>13
  <2>2. w[i + 1] = kNullByte
    BY <1>4, <2>1 DEF WordOK
  <2> QED BY <1>4, <1>7, <1>11, <1>13, <2>2 DEF q
<1> QED BY <1>4, <1>12, <1>13
=============================================================================
