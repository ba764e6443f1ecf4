---------------------------- MODULE PortfolioProofs ----------------------------
(***************************************************************************)
(* For any markets, quotes and fills the exchange makes, any number of      *)
(* processes that sync at once and any failure of theirs: what a market     *)
(* that is over is said to have earned is the cash it brought, and a sync   *)
(* that nothing overlaps leaves the tables as the exchange has it.          *)
(*                                                                         *)
(* First what it means to fold a sequence or a finite set, by induction;   *)
(* then FIFO as such a fold, and how one trade more changes it; then the    *)
(* account; then the tables, one lemma for each step of a sync.             *)
(***************************************************************************)
EXTENDS PortfolioSync, SequenceTheorems, FiniteSetTheorems, WellFoundedInduction, TLAPS

(* The library's induction theorems take an operator; these take a set.     *)
LEMMA LeastNatural == ASSUME NEW S \in SUBSET Nat, S # {} PROVE \E n \in S : \A m \in S : n <= m
<1> DEFINE R == OpToRel(<, Nat)
<1>1. IsWellFoundedOn(R, Nat)
  BY NatLessThanWellFounded
<1>2. \A x, y \in Nat : x < y => <<x, y>> \in R
  BY DEF OpToRel
<1> HIDE DEF R
<1>3. PICK x \in S : \A y \in S : ~(<<y, x>> \in R)
  BY <1>1, WFMin
<1>4. \A m \in S : ~(m < x)
  BY <1>2, <1>3
<1>5. \A m \in S : x <= m
  BY <1>4
<1>6. QED
  BY <1>5

LEMMA NaturalInduction == ASSUME NEW S \in SUBSET Nat, 0 \in S, \A n \in S : n + 1 \in S PROVE S = Nat
<1> SUFFICES ASSUME Nat \ S # {} PROVE FALSE
  OBVIOUS
<1>1. PICK n \in Nat \ S : \A m \in Nat \ S : n <= m
  BY LeastNatural
<1>2. n # 0 /\ n - 1 \in Nat /\ n - 1 < n
  OBVIOUS
<1>3. n - 1 \in S
  BY <1>1, <1>2
<1>4. (n - 1) + 1 = n
  OBVIOUS
<1>5. QED
  BY <1>3, <1>4, <1>1

(* g computes a fold over the subsets of S: c chooses the element a set      *)
(* loses, F adds what it is worth.  On a finite set there is such a g.       *)
Solves(g, S, base, F, c) ==
    g = [s \in SUBSET S |-> IF s = {} THEN base ELSE F[<<c[s], g[s \ {c[s]}]>>]]

LEMMA FoldExists ==
    ASSUME NEW S, IsFiniteSet(S), NEW T, NEW base \in T, NEW F \in [S \X T -> T],
           NEW c, \A s \in SUBSET S : s # {} => c[s] \in s
    PROVE  \E g \in [SUBSET S -> T] : Solves(g, S, base, F, c)
<1> DEFINE Sub(n) == {s \in SUBSET S : Cardinality(s) <= n}
           Eq(g, n) == g = [s \in Sub(n) |-> IF s = {} THEN base ELSE F[<<c[s], g[s \ {c[s]}]>>]]
           N == {n \in Nat : \E g \in [Sub(n) -> T] : Eq(g, n)}
<1>1. \A s \in SUBSET S : IsFiniteSet(s) /\ Cardinality(s) \in Nat
  BY FS_Subset, FS_CardinalityType
<1>2. 0 \in N
  <2>1. \A s \in Sub(0) : s = {}
    <3> SUFFICES ASSUME NEW s \in SUBSET S, Cardinality(s) <= 0 PROVE s = {}
      OBVIOUS
    <3>1. QED
      BY <1>1, FS_EmptySet
  <2> DEFINE g == [s \in Sub(0) |-> base]
  <2>2. g \in [Sub(0) -> T] /\ Eq(g, 0)
    BY <2>1
  <2>3. QED
    BY <2>2
<1>3. ASSUME NEW n \in N PROVE n + 1 \in N
  <2>1. PICK g \in [Sub(n) -> T] : Eq(g, n)
    OBVIOUS
  <2> DEFINE h == [s \in Sub(n + 1) |-> IF s = {} THEN base ELSE F[<<c[s], g[s \ {c[s]}]>>]]
  <2>2. \A s \in Sub(n + 1) : s # {} => c[s] \in s /\ c[s] \in S /\ s \ {c[s]} \in Sub(n)
    <3> SUFFICES ASSUME NEW s \in SUBSET S, Cardinality(s) <= n + 1, s # {}
                 PROVE  c[s] \in s /\ s \ {c[s]} \in SUBSET S /\ Cardinality(s \ {c[s]}) <= n
      OBVIOUS
    <3>1. c[s] \in s
      OBVIOUS
    <3>2. Cardinality(s \ {c[s]}) = Cardinality(s) - 1
      BY <3>1, <1>1, FS_RemoveElement
    <3>3. QED
      BY <3>1, <3>2, <1>1
  <2>3. \A s \in Sub(n) : s \in Sub(n + 1)
    BY <1>1
  <2>4. h \in [Sub(n + 1) -> T]
    BY <2>2
  <2>5. \A s \in Sub(n) : h[s] = g[s]
    BY <2>1, <2>3
  <2>6. Eq(h, n + 1)
    <3> SUFFICES ASSUME NEW s \in Sub(n + 1), s # {}
                 PROVE  h[s] = F[<<c[s], h[s \ {c[s]}]>>]
      BY <2>4
    <3> HIDE DEF Sub
    <3>1. QED
      BY <2>2, <2>5
  <2>7. n + 1 \in Nat
    OBVIOUS
  <2> HIDE DEF h, Sub, Eq
  <2>8. \E x \in [Sub(n + 1) -> T] : Eq(x, n + 1)
    BY <2>4, <2>6
  <2>9. QED
    BY <2>7, <2>8
<1>4. N \in SUBSET Nat
  OBVIOUS
<1> HIDE DEF N
<1>5. N = Nat
  BY <1>2, <1>3, <1>4, NaturalInduction
<1>6. PICK g \in [Sub(Cardinality(S)) -> T] : Eq(g, Cardinality(S))
  BY <1>1, <1>5 DEF N
<1>7. Sub(Cardinality(S)) = SUBSET S
  BY <1>1, FS_Subset
<1> HIDE DEF Sub
<1>8. QED
  BY <1>6, <1>7, ZenonT(60) DEF Solves

LEMMA SequenceInduction ==
    ASSUME NEW S, NEW Good \in SUBSET Seq(S), <<>> \in Good,
           \A s \in Good : \A e \in S : Append(s, e) \in Good
    PROVE  \A s \in Seq(S) : s \in Good
<1> DEFINE N == {n \in Nat : \A s \in Seq(S) : Len(s) = n => s \in Good}
<1>1. 0 \in N
  <2> SUFFICES ASSUME NEW s \in Seq(S), Len(s) = 0 PROVE s \in Good
    OBVIOUS
  <2>1. s = <<>>
    BY EmptySeq
  <2>2. QED
    BY <2>1
<1>2. ASSUME NEW n \in N PROVE n + 1 \in N
  <2> SUFFICES ASSUME NEW s \in Seq(S), Len(s) = n + 1 PROVE s \in Good
    OBVIOUS
  <2>1. n \in Nat
    OBVIOUS
  <2> DEFINE front == [i \in 1..n |-> s[i]]
  <2>2. s[n + 1] \in S /\ front \in Seq(S) /\ Len(front) = n /\ Append(front, s[n + 1]) = s
    BY <2>1
  <2>3. front \in Good
    BY <2>2
  <2>4. QED
    BY <2>2, <2>3
<1>3. N \in SUBSET Nat
  OBVIOUS
<1> HIDE DEF N
<1>4. N = Nat
  BY <1>1, <1>2, <1>3, NaturalInduction
<1>5. \A s \in Seq(S) : Len(s) \in Nat
  OBVIOUS
<1>6. QED
  BY <1>4, <1>5 DEF N

-----------------------------------------------------------------------------
(* Folding a sequence from the left, with the operator as a function: the   *)
(* value after each element.                                                *)
Reducers(S, T) == [T \X S -> T]

History(h, op, base, seq, T) ==
    /\ h \in [0..Len(seq) -> T] /\ h[0] = base
    /\ \A i \in 1..Len(seq) : h[i] = op[<<h[i - 1], seq[i]>>]

Folded(op, base, seq, T) == (CHOOSE h : History(h, op, base, seq, T))[Len(seq)]

LEMMA HistoryExists ==
    ASSUME NEW S, NEW T, NEW op \in Reducers(S, T), NEW base \in T
    PROVE  \A seq \in Seq(S) : \E h : History(h, op, base, seq, T)
<1> DEFINE Good == {s \in Seq(S) : \E h : History(h, op, base, s, T)}
<1>1. <<>> \in Good
  <2>1. History([i \in 0..0 |-> base], op, base, <<>>, T)
    BY DEF History
  <2>2. QED
    BY <2>1
<1>2. ASSUME NEW s \in Good, NEW e \in S
      PROVE  Append(s, e) \in Good
  <2>1. PICK h : History(h, op, base, s, T)
    OBVIOUS
  <2>2. s \in Seq(S) /\ Len(s) \in Nat
    OBVIOUS
  <2> DEFINE n == Len(s)
             g == [i \in 0..(n + 1) |-> IF i = n + 1 THEN op[<<h[n], e>>] ELSE h[i]]
  <2>3. Append(s, e) \in Seq(S) /\ Len(Append(s, e)) = n + 1
        /\ \A i \in 1..n : Append(s, e)[i] = s[i]
        /\ Append(s, e)[n + 1] = e
    BY <2>2
  <2>4. h[n] \in T
    BY <2>1, <2>2 DEF History
  <2>5. g \in [0..(n + 1) -> T]
    BY <2>1, <2>2, <2>4 DEF History, Reducers
  <2>6. g[0] = base
    BY <2>1, <2>2 DEF History
  <2>7. ASSUME NEW i \in 1..(n + 1)
        PROVE  g[i] = op[<<g[i - 1], Append(s, e)[i]>>]
    <3>1. CASE i = n + 1
      <4>1. i - 1 = n /\ n \in 0..(n + 1) /\ n # n + 1 /\ n + 1 \in 0..(n + 1)
        BY <2>2, <3>1
      <4>2. g[n + 1] = op[<<h[n], e>>] /\ g[n] = h[n]
        BY <4>1
      <4>3. g[i] = op[<<h[n], e>>] /\ g[i - 1] = h[n] /\ Append(s, e)[i] = e
        <5>1. Append(s, e)[n + 1] = e
          BY <2>3
        <5> HIDE DEF g, n, Good
        <5>2. QED
          BY <3>1, <4>1, <4>2, <5>1, Zenon
      <4> HIDE DEF g, n, Good
      <4>4. QED
        BY <4>3, Zenon
    <3>2. CASE i # n + 1
      <4>1. i \in 1..n /\ i - 1 \in 0..n /\ i - 1 # n + 1
        BY <2>2, <3>2
      <4>2. g[i] = h[i] /\ g[i - 1] = h[i - 1]
        BY <2>2, <4>1
      <4>3. h[i] = op[<<h[i - 1], s[i]>>]
        BY <2>1, <4>1 DEF History
      <4>4. QED
        BY <2>3, <4>1, <4>2, <4>3
    <3>3. QED
      BY <3>1, <3>2
  <2> HIDE DEF g
  <2>8. History(g, op, base, Append(s, e), T)
    BY <2>3, <2>5, <2>6, <2>7 DEF History
  <2>9. QED
    BY <2>3, <2>8
<1>3. Good \in SUBSET Seq(S)
  OBVIOUS
<1> HIDE DEF Good
<1>4. \A seq \in Seq(S) : seq \in Good
  BY <1>1, <1>2, <1>3, SequenceInduction
<1>5. QED
  BY <1>4 DEF Good

(* Two histories agree as far as their elements and operators do.           *)
Alike(f, s, g, u, T) == \A i \in 1..Len(s), v \in T : f[<<v, s[i]>>] = g[<<v, u[i]>>]

LEMMA HistoriesAgree ==
    ASSUME NEW T, NEW base, NEW f, NEW g, NEW s, NEW u, Len(s) \in Nat, Len(u) \in Nat,
           NEW h, NEW k, History(h, f, base, s, T), History(k, g, base, u, T),
           Len(s) <= Len(u),
           Alike(f, s, g, u, T)
    PROVE  \A i \in 0..Len(s) : h[i] = k[i]
<1> DEFINE N == {i \in Nat : i <= Len(s) => h[i] = k[i]}
<1>1. 0 \in N
  BY DEF History
<1>2. ASSUME NEW i \in N
      PROVE  i + 1 \in N
  <2> SUFFICES ASSUME i + 1 <= Len(s)
               PROVE  h[i + 1] = k[i + 1]
    OBVIOUS
  <2>1. i + 1 \in 1..Len(s) /\ i + 1 \in 1..Len(u) /\ (i + 1) - 1 = i /\ i \in 0..Len(s)
    OBVIOUS
  <2>2. h[i] = k[i] /\ h[i] \in T
    BY <2>1 DEF History
  <2>3. h[i + 1] = f[<<h[i], s[i + 1]>>] /\ k[i + 1] = g[<<k[i], u[i + 1]>>]
    BY <2>1 DEF History
  <2>4. QED
    BY <2>1, <2>2, <2>3 DEF Alike
<1>3. N \in SUBSET Nat
  OBVIOUS
<1> HIDE DEF N
<1>4. N = Nat
  BY <1>1, <1>2, <1>3, NaturalInduction
<1>5. QED
  BY <1>4 DEF N

LEMMA FoldedIs ==
    ASSUME NEW S, NEW T, NEW op \in Reducers(S, T), NEW base \in T, NEW seq \in Seq(S)
    PROVE  /\ Folded(op, base, seq, T) \in T
           /\ \A h : History(h, op, base, seq, T) => Folded(op, base, seq, T) = h[Len(seq)]
<1>1. PICK h : History(h, op, base, seq, T)
  BY HistoryExists
<1> DEFINE k == CHOOSE g : History(g, op, base, seq, T)
<1>2. History(k, op, base, seq, T)
  BY <1>1
<1>3. Len(seq) \in Nat
  OBVIOUS
<1>4. Folded(op, base, seq, T) = k[Len(seq)]
  BY DEF Folded
<1> HIDE DEF k
<1>5. ASSUME NEW g, History(g, op, base, seq, T)
      PROVE  k[Len(seq)] = g[Len(seq)]
  <2>1. Len(seq) <= Len(seq) /\ Alike(op, seq, op, seq, T)
    BY <1>3 DEF Alike
  <2>2. \A i \in 0..Len(seq) : k[i] = g[i]
    BY <1>2, <1>3, <1>5, <2>1, HistoriesAgree
  <2>3. QED
    BY <1>3, <2>2
<1>6. k[Len(seq)] \in T
  BY <1>2, <1>3 DEF History
<1>7. QED
  BY <1>4, <1>5, <1>6

LEMMA FoldedEmpty ==
    ASSUME NEW S, NEW T, NEW op \in Reducers(S, T), NEW base \in T
    PROVE  Folded(op, base, <<>>, T) = base
<1>1. <<>> \in Seq(S) /\ Len(<<>>) = 0
  OBVIOUS
<1>2. PICK h : History(h, op, base, <<>>, T)
  BY <1>1, HistoryExists
<1>3. QED
  BY <1>1, <1>2, FoldedIs DEF History

LEMMA FoldedAppend ==
    ASSUME NEW S, NEW T, NEW op \in Reducers(S, T), NEW base \in T, NEW seq \in Seq(S), NEW e \in S
    PROVE  Folded(op, base, Append(seq, e), T) = op[<<Folded(op, base, seq, T), e>>]
<1> DEFINE n == Len(seq)
           u == Append(seq, e)
<1>1. /\ u \in Seq(S) /\ n \in Nat /\ Len(u) = n + 1
      /\ \A i \in 1..n : u[i] = seq[i]
      /\ u[n + 1] = e
  OBVIOUS
<1> HIDE DEF u
<1>2. PICK h : History(h, op, base, seq, T)
  BY HistoryExists
<1>3. PICK k : History(k, op, base, u, T)
  BY <1>1, HistoryExists
<1>4. h[n] = k[n]
  <2>1. \A i \in 0..n : h[i] = k[i]
    <3>1. Len(seq) \in Nat /\ Len(u) \in Nat /\ Len(seq) <= Len(u)
      BY <1>1
    <3>2. Alike(op, seq, op, u, T)
      BY <1>1 DEF Alike
    <3>3. QED
      BY <1>2, <1>3, <3>1, <3>2, HistoriesAgree
  <2>2. QED
    BY <1>1, <2>1
<1>5. k[n + 1] = op[<<k[n], e>>]
  <2>1. n + 1 \in 1..(n + 1) /\ (n + 1) - 1 = n
    BY <1>1
  <2>2. QED
    BY <1>1, <1>3, <2>1 DEF History
<1>6. Folded(op, base, u, T) = k[n + 1] /\ Folded(op, base, seq, T) = h[n]
  <2>1. Folded(op, base, u, T) = k[Len(u)]
    BY <1>1, <1>3, FoldedIs
  <2>2. Folded(op, base, seq, T) = h[Len(seq)]
    BY <1>2, FoldedIs
  <2>3. QED
    BY <1>1, <2>1, <2>2
<1>7. QED
  BY <1>4, <1>5, <1>6 DEF u

(* The same fold when the operators agree on the elements.                  *)
LEMMA FoldedSame ==
    ASSUME NEW S, NEW R, NEW T, NEW f \in Reducers(S, T), NEW g \in Reducers(R, T), NEW base \in T,
           NEW seq \in Seq(S), seq \in Seq(R),
           Alike(f, seq, g, seq, T)
    PROVE  Folded(f, base, seq, T) = Folded(g, base, seq, T)
<1>1. PICK h : History(h, f, base, seq, T)
  BY HistoryExists
<1>2. PICK k : History(k, g, base, seq, T)
  BY HistoryExists
<1>3. Len(seq) \in Nat
  OBVIOUS
<1>4. h[Len(seq)] = k[Len(seq)]
  <2>1. Len(seq) <= Len(seq) /\ Alike(f, seq, g, seq, T)
    BY <1>3
  <2>2. \A i \in 0..Len(seq) : h[i] = k[i]
    BY <1>1, <1>2, <1>3, <2>1, HistoriesAgree
  <2>3. QED
    BY <1>3, <2>2
<1>5. Folded(f, base, seq, T) = h[Len(seq)]
  BY <1>1, FoldedIs
<1>6. Folded(g, base, seq, T) = k[Len(seq)]
  BY <1>2, FoldedIs
<1>7. QED
  BY <1>4, <1>5, <1>6

-----------------------------------------------------------------------------
(* FoldLeft folds over the subsets of the indices, the largest one last.    *)
LEMMA MaxIsLargest ==
    ASSUME NEW n \in Nat, NEW s \in SUBSET (1..n), s # {}
    PROVE  Max(s) \in s /\ \A y \in s : y <= Max(s)
<1> DEFINE N == {n - y : y \in s}
<1>1. N \in SUBSET Nat /\ N # {}
  <2>1. \A y \in s : n - y \in Nat
    OBVIOUS
  <2>2. QED
    BY <2>1
<1>2. PICK m \in N : \A k \in N : m <= k
  BY <1>1, LeastNatural
<1>3. PICK x \in s : m = n - x
  OBVIOUS
<1>4. \A y \in s : x >= y
  <2> SUFFICES ASSUME NEW y \in s PROVE x >= y
    OBVIOUS
  <2>1. n - y \in N /\ x \in Int /\ y \in Int
    OBVIOUS
  <2>2. n - x <= n - y
    BY <1>2, <1>3, <2>1
  <2>3. QED
    BY <2>1, <2>2
<1>5. \E z \in s : \A y \in s : z >= y
  BY <1>4
<1>6. Max(s) \in s /\ \A y \in s : Max(s) >= y
  BY <1>5 DEF Max
<1>7. \A y \in s : y \in Int
  OBVIOUS
<1>8. QED
  BY <1>6, <1>7

FoldStep(op, base, seq, g, s) == IF s = {} THEN base ELSE op[<<g[s \ {Max(s)}], seq[Max(s)]>>]

Iterates(g, op, base, seq, T) ==
    /\ g \in [SUBSET (1..Len(seq)) -> T]
    /\ g = [s \in SUBSET (1..Len(seq)) |-> FoldStep(op, base, seq, g, s)]

LEMMA IterExists ==
    ASSUME NEW S, NEW T, NEW op \in Reducers(S, T), NEW base \in T, NEW seq \in Seq(S)
    PROVE  \E g : Iterates(g, op, base, seq, T)
<1> DEFINE D == 1..Len(seq)
           F == [p \in D \X T |-> op[<<p[2], seq[p[1]]>>]]
           c == [s \in SUBSET D |-> Max(s)]
<1>1. Len(seq) \in Nat /\ IsFiniteSet(D)
  BY FS_Interval
<1>2. \A s \in SUBSET D : s # {} => c[s] \in s /\ c[s] = Max(s)
  BY <1>1, MaxIsLargest
<1>3. F \in [D \X T -> T] /\ \A i \in D, v \in T : F[<<i, v>>] = op[<<v, seq[i]>>]
  <2>1. \A i \in D : seq[i] \in S
    OBVIOUS
  <2>2. QED
    BY <2>1 DEF Reducers
<1> HIDE DEF F, c, D
<1>4. PICK g \in [SUBSET D -> T] : Solves(g, D, base, F, c)
  BY <1>1, <1>2, <1>3, FoldExists
<1>5. g = [s \in SUBSET D |-> FoldStep(op, base, seq, g, s)]
  <2> SUFFICES ASSUME NEW s \in SUBSET D PROVE g[s] = FoldStep(op, base, seq, g, s)
    OBVIOUS
  <2>1. CASE s = {}
    BY <1>4, <2>1 DEF Solves, FoldStep
  <2>2. CASE s # {}
    <3>1. c[s] \in D /\ s \ {c[s]} \in SUBSET D /\ c[s] = Max(s)
      BY <1>2, <2>2
    <3>2. g[s] = F[<<c[s], g[s \ {c[s]}]>>]
      BY <1>4, <2>2 DEF Solves
    <3>3. g[s] = op[<<g[s \ {Max(s)}], seq[Max(s)]>>]
      BY <1>3, <3>1, <3>2
    <3>4. QED
      BY <2>2, <3>3 DEF FoldStep
  <2>3. QED
    BY <2>1, <2>2
<1>6. QED
  BY <1>4, <1>5 DEF D, Iterates

(* Whatever satisfies the equation of the fold is the fold.                 *)
Computes(g, op, base, seq, T) ==
    /\ g[{}] = base
    /\ \A s \in SUBSET (1..Len(seq)), v \in T :
          s # {} /\ g[s \ {Max(s)}] = v => g[s] = op[<<v, seq[Max(s)]>>]

LEMMA IterIsFolded ==
    ASSUME NEW S, NEW T, NEW op \in Reducers(S, T), NEW base \in T, NEW seq \in Seq(S),
           NEW g, Computes(g, op, base, seq, T)
    PROVE  g[1..Len(seq)] = Folded(op, base, seq, T)
<1> DEFINE n == Len(seq)
           h == [i \in 0..n |-> g[1..i]]
           N == {i \in Nat : i <= n => g[1..i] \in T}
<1>1. n \in Nat
  OBVIOUS
<1>2. \A i \in 1..n : /\ 1..i \in SUBSET (1..n) /\ 1..i # {} /\ Max(1..i) = i
                      /\ (1..i) \ {i} = 1..(i - 1)
  <2> SUFFICES ASSUME NEW i \in 1..n
               PROVE  1..i \in SUBSET (1..n) /\ 1..i # {} /\ Max(1..i) = i
                      /\ (1..i) \ {i} = 1..(i - 1)
    OBVIOUS
  <2>1. 1..i \in SUBSET (1..n) /\ 1..i # {} /\ i \in 1..i /\ (1..i) \ {i} = 1..(i - 1)
    <3>1. i \in Nat /\ 1 <= i /\ i <= n
      BY <1>1
    <3>2. 1..i \subseteq 1..n /\ i \in 1..i
      BY <1>1, <3>1
    <3>3. ASSUME NEW j
          PROVE  j \in (1..i) \ {i} <=> j \in 1..(i - 1)
      BY <1>1, <3>1
    <3>4. QED
      BY <3>2, <3>3
  <2>2. Max(1..i) \in 1..i /\ i <= Max(1..i)
    BY <1>1, <2>1, MaxIsLargest
  <2>3. QED
    BY <2>1, <2>2
<1>3. \A i \in 1..n, v \in T : g[1..(i - 1)] = v => g[1..i] = op[<<v, seq[i]>>]
  <2> SUFFICES ASSUME NEW i \in 1..n, NEW v \in T, g[1..(i - 1)] = v
               PROVE  g[1..i] = op[<<v, seq[i]>>]
    OBVIOUS
  <2> DEFINE s == 1..i
  <2>1. s \in SUBSET (1..n) /\ s # {} /\ Max(s) = i /\ g[s \ {Max(s)}] = v
    BY <1>2
  <2> HIDE DEF s
  <2>2. g[s] = op[<<v, seq[Max(s)]>>]
    BY <2>1 DEF Computes
  <2>3. QED
    BY <2>1, <2>2 DEF s
<1>4. g[1..0] = base
  <2>1. 1..0 = {}
    OBVIOUS
  <2>2. QED
    BY <2>1 DEF Computes
<1>5. N = Nat
  <2>1. 0 \in N
    BY <1>4
  <2>2. ASSUME NEW i \in N
        PROVE  i + 1 \in N
    <3> SUFFICES ASSUME i + 1 <= n PROVE g[1..(i + 1)] \in T
      OBVIOUS
    <3>1. i + 1 \in 1..n /\ (i + 1) - 1 = i /\ g[1..i] \in T
      BY <1>1
    <3>2. g[1..(i + 1)] = op[<<g[1..i], seq[i + 1]>>] /\ seq[i + 1] \in S
      BY <1>3, <3>1
    <3>3. QED
      BY <3>1, <3>2 DEF Reducers
  <2>3. N \in SUBSET Nat
    OBVIOUS
  <2> HIDE DEF N
  <2>4. QED
    BY <2>1, <2>2, <2>3, NaturalInduction
<1>6. History(h, op, base, seq, T)
  <2>1. h \in [0..n -> T]
    BY <1>1, <1>5
  <2>2. h[0] = base
    BY <1>1, <1>4
  <2>3. ASSUME NEW i \in 1..n PROVE h[i] = op[<<h[i - 1], seq[i]>>]
    <3>1. i \in 0..n /\ i - 1 \in 0..n
      BY <1>1
    <3>2. h[i] = g[1..i] /\ h[i - 1] = g[1..(i - 1)] /\ h[i - 1] \in T
      BY <2>1, <3>1
    <3>3. QED
      BY <1>3, <3>2
  <2> HIDE DEF h
  <2>4. QED
    BY <2>1, <2>2, <2>3 DEF History
<1>7. h[n] = g[1..n]
  BY <1>1
<1> HIDE DEF h
<1>8. Folded(op, base, seq, T) = h[Len(seq)]
  BY <1>6, FoldedIs
<1>9. QED
  BY <1>7, <1>8

-----------------------------------------------------------------------------
(* A fill, with any positive number of contracts.                            *)
Trade == [ticker : Tickers, side : {"yes", "no"}, action : {"buy", "sell"}, qty : Nat \ {0},
          price : 1..99]

-----------------------------------------------------------------------------
(* SumOf adds the lots up.                                                  *)
SumApply(a, e) == a + e

SumOp == [x \in Int \X Int |-> SumApply(x[1], x[2])]

SumOfStep(lots, g, s) ==
    IF s = {} THEN 0 ELSE SumApply(g[s \ {Max(s)}], lots[Max(s)])

SumOfIter(lots) == CHOOSE g : g = [s \in SUBSET (DOMAIN lots) |-> SumOfStep(lots, g, s)]

LEMMA SumOfFolds ==
    ASSUME NEW lots \in Seq(Int)
    PROVE  SumOf(lots) = Folded(SumOp, 0, lots, Int)
<1> DEFINE q == lots
           n == Len(q)
           D == SUBSET (1..n)
           op == SumOp
<1>1. q \in Seq(Int) /\ n \in Nat /\ DOMAIN q = 1..n
  OBVIOUS
<1>2. SumOf(lots) = SumOfIter(lots)[DOMAIN lots]
  BY DEF SumOf, FoldLeft, MapThenFoldSet, SumOfIter, SumOfStep, SumApply
<1> DEFINE j == SumOfIter(lots)
<1>3. /\ op \in Reducers(Int, Int) /\ 0 \in Int
      /\ \A a \in Int, e \in Int : op[<<a, e>>] = SumApply(a, e)
  BY DEF SumOp, SumApply, Reducers
<1>4. j[1..n] = SumOf(lots)
  BY <1>1, <1>2
<1> HIDE DEF q, op
<1>5. PICK g : Iterates(g, op, 0, q, Int)
  BY <1>1, <1>3, IterExists
<1>6. g \in [D -> Int] /\ g = [s \in D |-> FoldStep(op, 0, q, g, s)]
  BY <1>5 DEF Iterates
<1>7. ASSUME NEW s \in D, s # {}
      PROVE  s \ {Max(s)} \in D /\ q[Max(s)] \in Int
  <2>1. Max(s) \in s
    BY <1>1, <1>7, MaxIsLargest
  <2>2. Max(s) \in 1..n /\ s \ {Max(s)} \in D
    BY <2>1
  <2>3. \A i \in 1..n : q[i] \in Int
    BY <1>1
  <2>4. QED
    BY <2>2, <2>3
<1>8. ASSUME NEW s \in D, NEW h, NEW v \in Int, s # {}, h[s \ {Max(s)}] = v
      PROVE  SumApply(h[s \ {Max(s)}], q[Max(s)]) = op[<<v, q[Max(s)]>>]
  <2>1. q[Max(s)] \in Int
    BY <1>7, <1>8
  <2>2. op[<<v, q[Max(s)]>>] = SumApply(v, q[Max(s)])
    BY <1>3, <2>1
  <2>3. QED
    BY <1>8, <2>2
<1>9. ASSUME NEW s \in D
      PROVE  g[s] = SumOfStep(lots, g, s)
  <2>1. g[s] = FoldStep(op, 0, q, g, s)
    BY <1>6
  <2>2. CASE s = {}
    BY <2>1, <2>2 DEF FoldStep, SumOfStep
  <2>3. CASE s # {}
    <3>1. s \ {Max(s)} \in D
      BY <1>7, <2>3
    <3>2. g[s \ {Max(s)}] \in Int
      <4> HIDE DEF D
      <4>1. QED
        BY <1>6, <3>1
    <3>3. g[s] = op[<<g[s \ {Max(s)}], q[Max(s)]>>]
      BY <2>1, <2>3 DEF FoldStep
    <3>4. g[s] = SumApply(g[s \ {Max(s)}], q[Max(s)])
      BY <1>8, <2>3, <3>2, <3>3
    <3>5. QED
      BY <2>3, <3>4 DEF SumOfStep, q
  <2>4. QED
    BY <2>2, <2>3
<1>10. g = [s \in D |-> SumOfStep(lots, g, s)]
  BY <1>6, <1>9
<1>11. j = [s \in D |-> SumOfStep(lots, j, s)]
  BY <1>1, <1>10 DEF SumOfIter, q
<1> HIDE DEF j
<1>12. j[{}] = 0
  BY <1>11 DEF SumOfStep
<1>13. ASSUME NEW s \in D, NEW v \in Int, s # {}, j[s \ {Max(s)}] = v
       PROVE  j[s] = op[<<v, q[Max(s)]>>]
  <2>1. j[s] = SumApply(j[s \ {Max(s)}], q[Max(s)])
    BY <1>11, <1>13 DEF SumOfStep, q
  <2>2. QED
    BY <1>8, <1>13, <2>1
<1>14. Computes(j, op, 0, q, Int)
  BY <1>12, <1>13 DEF Computes
<1>15. j[1..n] = Folded(op, 0, q, Int)
  BY <1>1, <1>3, <1>14, IterIsFolded, ZenonT(60)
<1>16. QED
  BY <1>4, <1>15 DEF op, q

-----------------------------------------------------------------------------
(* LiteralLots takes the trades one after the other.                        *)
LiteralApply(side, lots, t) ==
    IF t.side # side THEN lots
    ELSE IF t.action = "buy" THEN lots \o [i \in 1..t.qty |-> t.price]
    ELSE DropOldest(lots, t.qty)

LiteralOp(side) == [x \in Seq(Nat) \X Trade |-> LiteralApply(side, x[1], x[2])]

LEMMA ConstantLots ==
    ASSUME NEW n \in Nat, NEW p \in Nat
    PROVE  [i \in 1..n |-> p] \in Seq(Nat) /\ Len([i \in 1..n |-> p]) = n
  OBVIOUS

LEMMA SubLots ==
    ASSUME NEW S, NEW lots \in Seq(S), NEW m \in Nat, NEW n \in Nat, n <= Len(lots)
    PROVE  /\ SubSeq(lots, m + 1, n) \in Seq(S)
           /\ Len(SubSeq(lots, m + 1, n)) = IF m <= n THEN n - m ELSE 0
  OBVIOUS

LEMMA TradeFields ==
    ASSUME NEW t \in Trade
    PROVE  /\ t.qty \in Nat /\ t.qty > 0 /\ t.price \in Nat /\ 100 - t.price \in Nat
           /\ t.action \in {"buy", "sell"} /\ t.side \in {"yes", "no"} /\ t.ticker \in Tickers
<1>1. /\ t.qty \in Nat \ {0} /\ t.price \in 1..99 /\ t.action \in {"buy", "sell"}
      /\ t.side \in {"yes", "no"} /\ t.ticker \in Tickers
  BY DEF Trade
<1>2. PICK n \in Nat \ {0} : t.qty = n
  BY <1>1
<1>3. PICK p \in 1..99 : t.price = p
  BY <1>1
<1>4. n \in Nat /\ n > 0 /\ p \in Nat /\ 100 - p \in Nat
  OBVIOUS
<1>5. QED
  BY <1>1, <1>2, <1>3, <1>4

LEMMA LiteralApplied ==
    ASSUME NEW side, NEW lots \in Seq(Nat), NEW t \in Trade
    PROVE  LiteralApply(side, lots, t) \in Seq(Nat)
<1>1. t.qty \in Nat /\ t.price \in Nat /\ Len(lots) \in Nat
  BY TradeFields
<1>2. [i \in 1..t.qty |-> t.price] \in Seq(Nat)
  BY <1>1, ConstantLots
<1>3. SubSeq(lots, t.qty + 1, Len(lots)) \in Seq(Nat)
  BY <1>1, SubLots
<1> DEFINE c == [i \in 1..t.qty |-> t.price]
<1> HIDE DEF c
<1>4. lots \o c \in Seq(Nat)
  BY <1>2 DEF c
<1>5. QED
  BY <1>3, <1>4 DEF LiteralApply, DropOldest, c

LiteralStep(side, list, g, s) ==
    IF s = {} THEN <<>> ELSE LiteralApply(side, g[s \ {Max(s)}], list[Max(s)])

LiteralIter(side, list) == CHOOSE g : g = [s \in SUBSET (DOMAIN list) |-> LiteralStep(side, list, g, s)]

LEMMA LiteralLotsFolds ==
    ASSUME NEW side, NEW list \in Seq(Trade)
    PROVE  LiteralLots(list, side) = Folded(LiteralOp(side), <<>>, list, Seq(Nat))
<1> DEFINE q == list
           n == Len(q)
           D == SUBSET (1..n)
           op == LiteralOp(side)
<1>1. q \in Seq(Trade) /\ n \in Nat /\ DOMAIN q = 1..n
  OBVIOUS
<1>2. LiteralLots(list, side) = LiteralIter(side, list)[DOMAIN list]
  BY DEF LiteralLots, FoldLeft, MapThenFoldSet, LiteralIter, LiteralStep, LiteralApply
<1> DEFINE j == LiteralIter(side, list)
<1>3. /\ op \in Reducers(Trade, Seq(Nat)) /\ <<>> \in Seq(Nat)
      /\ \A a \in Seq(Nat), e \in Trade : op[<<a, e>>] = LiteralApply(side, a, e)
  BY LiteralApplied DEF LiteralOp, Reducers
<1>4. j[1..n] = LiteralLots(list, side)
  BY <1>1, <1>2
<1> HIDE DEF q, op
<1>5. PICK g : Iterates(g, op, <<>>, q, Seq(Nat))
  BY <1>1, <1>3, IterExists
<1>6. g \in [D -> Seq(Nat)] /\ g = [s \in D |-> FoldStep(op, <<>>, q, g, s)]
  BY <1>5 DEF Iterates
<1>7. ASSUME NEW s \in D, s # {}
      PROVE  s \ {Max(s)} \in D /\ q[Max(s)] \in Trade
  <2>1. Max(s) \in s
    BY <1>1, <1>7, MaxIsLargest
  <2>2. Max(s) \in 1..n /\ s \ {Max(s)} \in D
    BY <2>1
  <2>3. \A i \in 1..n : q[i] \in Trade
    BY <1>1
  <2>4. QED
    BY <2>2, <2>3
<1>8. ASSUME NEW s \in D, NEW h, NEW v \in Seq(Nat), s # {}, h[s \ {Max(s)}] = v
      PROVE  LiteralApply(side, h[s \ {Max(s)}], q[Max(s)]) = op[<<v, q[Max(s)]>>]
  <2>1. q[Max(s)] \in Trade
    BY <1>7, <1>8
  <2>2. op[<<v, q[Max(s)]>>] = LiteralApply(side, v, q[Max(s)])
    BY <1>3, <2>1
  <2>3. QED
    BY <1>8, <2>2
<1>9. ASSUME NEW s \in D
      PROVE  g[s] = LiteralStep(side, list, g, s)
  <2>1. g[s] = FoldStep(op, <<>>, q, g, s)
    BY <1>6
  <2>2. CASE s = {}
    BY <2>1, <2>2 DEF FoldStep, LiteralStep
  <2>3. CASE s # {}
    <3>1. s \ {Max(s)} \in D
      BY <1>7, <2>3
    <3>2. g[s \ {Max(s)}] \in Seq(Nat)
      <4> HIDE DEF D
      <4>1. QED
        BY <1>6, <3>1
    <3>3. g[s] = op[<<g[s \ {Max(s)}], q[Max(s)]>>]
      BY <2>1, <2>3 DEF FoldStep
    <3>4. g[s] = LiteralApply(side, g[s \ {Max(s)}], q[Max(s)])
      BY <1>8, <2>3, <3>2, <3>3
    <3>5. QED
      BY <2>3, <3>4 DEF LiteralStep, q
  <2>4. QED
    BY <2>2, <2>3
<1>10. g = [s \in D |-> LiteralStep(side, list, g, s)]
  BY <1>6, <1>9
<1>11. j = [s \in D |-> LiteralStep(side, list, j, s)]
  BY <1>1, <1>10 DEF LiteralIter, q
<1> HIDE DEF j
<1>12. j[{}] = <<>>
  BY <1>11 DEF LiteralStep
<1>13. ASSUME NEW s \in D, NEW v \in Seq(Nat), s # {}, j[s \ {Max(s)}] = v
       PROVE  j[s] = op[<<v, q[Max(s)]>>]
  <2>1. j[s] = LiteralApply(side, j[s \ {Max(s)}], q[Max(s)])
    BY <1>11, <1>13 DEF LiteralStep, q
  <2>2. QED
    BY <1>8, <1>13, <2>1
<1>14. Computes(j, op, <<>>, q, Seq(Nat))
  BY <1>12, <1>13 DEF Computes
<1>15. j[1..n] = Folded(op, <<>>, q, Seq(Nat))
  BY <1>1, <1>3, <1>14, IterIsFolded, ZenonT(60)
<1>16. QED
  BY <1>4, <1>15 DEF op, q

-----------------------------------------------------------------------------
(* Sums of lots: of none, of one more, and of two lists.                    *)
LEMMA SumOfType ==
    ASSUME NEW lots \in Seq(Int)
    PROVE  SumOf(lots) \in Int
<1>1. SumOp \in Reducers(Int, Int) /\ 0 \in Int
  BY DEF SumOp, SumApply, Reducers
<1>2. QED
  BY <1>1, SumOfFolds, FoldedIs, SMTT(40)

LEMMA SumOfNone == SumOf(<<>>) = 0
<1>1. SumOp \in Reducers(Int, Int) /\ 0 \in Int /\ <<>> \in Seq(Int)
  BY DEF SumOp, SumApply, Reducers
<1>2. QED
  BY <1>1, SumOfFolds, FoldedEmpty

LEMMA SumOfAppend ==
    ASSUME NEW lots \in Seq(Int), NEW e \in Int
    PROVE  SumOf(Append(lots, e)) = SumOf(lots) + e
<1>1. SumOp \in Reducers(Int, Int) /\ 0 \in Int /\ Append(lots, e) \in Seq(Int)
  BY DEF SumOp, SumApply, Reducers
<1>2. SumOf(Append(lots, e)) = SumOp[<<SumOf(lots), e>>]
  <2>1. Folded(SumOp, 0, Append(lots, e), Int) = SumOp[<<Folded(SumOp, 0, lots, Int), e>>]
    BY <1>1, FoldedAppend
  <2>2. SumOf(lots) = Folded(SumOp, 0, lots, Int)
    BY SumOfFolds
  <2>3. SumOf(Append(lots, e)) = Folded(SumOp, 0, Append(lots, e), Int)
    BY <1>1, SumOfFolds
  <2>4. QED
    BY <2>1, <2>2, <2>3
<1>3. SumOf(lots) \in Int
  BY SumOfType
<1> DEFINE a == SumOf(lots)
<1> HIDE DEF a
<1>4. SumOp[<<a, e>>] = a + e
  BY <1>3 DEF SumOp, SumApply, a
<1>5. QED
  BY <1>2, <1>4 DEF a

LEMMA SumOfConcat ==
    ASSUME NEW s \in Seq(Int), NEW u \in Seq(Int)
    PROVE  SumOf(s \o u) = SumOf(s) + SumOf(u)
<1> DEFINE Good == {v \in Seq(Int) : SumOf(s \o v) = SumOf(s) + SumOf(v)}
<1>1. <<>> \in Good
  <2>1. s \o <<>> = s /\ <<>> \in Seq(Int)
    OBVIOUS
  <2>2. SumOf(s) \in Int
    BY SumOfType
  <2>3. QED
    BY <2>1, <2>2, SumOfNone
<1>2. ASSUME NEW v \in Good, NEW e \in Int
      PROVE  Append(v, e) \in Good
  <2>1. v \in Seq(Int) /\ SumOf(s \o v) = SumOf(s) + SumOf(v)
    OBVIOUS
  <2>2. s \o Append(v, e) = Append(s \o v, e) /\ s \o v \in Seq(Int) /\ Append(v, e) \in Seq(Int)
    BY <2>1
  <2>3. SumOf(s \o Append(v, e)) = SumOf(s \o v) + e
    BY <2>2, SumOfAppend
  <2>4. SumOf(Append(v, e)) = SumOf(v) + e
    BY <2>1, SumOfAppend
  <2>5. SumOf(s) \in Int /\ SumOf(v) \in Int
    BY <2>1, SumOfType
  <2>6. SumOf(s \o Append(v, e)) = SumOf(s) + SumOf(Append(v, e))
    BY <2>1, <2>3, <2>4, <2>5
  <2>7. QED
    BY <2>2, <2>6
<1>3. Good \in SUBSET Seq(Int)
  OBVIOUS
<1> HIDE DEF Good
<1>4. \A v \in Seq(Int) : v \in Good
  BY <1>1, <1>2, <1>3, SequenceInduction
<1>5. QED
  BY <1>4 DEF Good

LEMMA SumOfNat ==
    ASSUME NEW lots \in Seq(Nat)
    PROVE  SumOf(lots) \in Nat
<1> DEFINE Good == {v \in Seq(Nat) : SumOf(v) \in Nat}
<1>1. <<>> \in Good
  BY SumOfNone
<1>2. ASSUME NEW v \in Good, NEW e \in Nat
      PROVE  Append(v, e) \in Good
  <2>1. v \in Seq(Int) /\ e \in Int /\ Append(v, e) \in Seq(Nat) /\ SumOf(v) \in Nat
    OBVIOUS
  <2>2. SumOf(Append(v, e)) = SumOf(v) + e
    BY <2>1, SumOfAppend
  <2>3. QED
    BY <2>1, <2>2
<1>3. Good \in SUBSET Seq(Nat)
  OBVIOUS
<1> HIDE DEF Good
<1>4. \A v \in Seq(Nat) : v \in Good
  BY <1>1, <1>2, <1>3, SequenceInduction
<1>5. QED
  BY <1>4 DEF Good

LEMMA SumOfConstant ==
    ASSUME NEW n \in Nat, NEW p \in Nat
    PROVE  SumOf([i \in 1..n |-> p]) = p * n
<1> DEFINE c(m) == [i \in 1..m |-> p]
           N == {m \in Nat : SumOf(c(m)) = p * m}
<1>1. 0 \in N
  <2>1. c(0) = <<>>
    OBVIOUS
  <2>2. QED
    BY <2>1, SumOfNone
<1>2. ASSUME NEW m \in N
      PROVE  m + 1 \in N
  <2>1. m \in Nat /\ SumOf(c(m)) = p * m
    OBVIOUS
  <2>2. c(m) \in Seq(Int) /\ c(m + 1) = Append(c(m), p)
    BY <2>1
  <2> HIDE DEF c
  <2>3. SumOf(c(m + 1)) = SumOf(c(m)) + p
    <3>1. p \in Int
      OBVIOUS
    <3>2. SumOf(Append(c(m), p)) = SumOf(c(m)) + p
      BY <2>2, <3>1, SumOfAppend
    <3>3. QED
      BY <2>2, <3>2
  <2>4. p * (m + 1) = p * m + p /\ m + 1 \in Nat
    BY <2>1
  <2>5. QED
    BY <2>1, <2>3, <2>4
<1>3. N \in SUBSET Nat
  OBVIOUS
<1> HIDE DEF N
<1>4. N = Nat
  BY <1>1, <1>2, <1>3, NaturalInduction
<1>5. QED
  BY <1>4 DEF N

(* A list of lots is its oldest n and the rest.                             *)
LEMMA SumOfSplit ==
    ASSUME NEW lots \in Seq(Nat), NEW n \in Nat, n <= Len(lots)
    PROVE  /\ SumOf(SubSeq(lots, 1, n)) \in Nat
           /\ SumOf(SubSeq(lots, n + 1, Len(lots))) \in Nat
           /\ SumOf(lots) = SumOf(SubSeq(lots, 1, n)) + SumOf(SubSeq(lots, n + 1, Len(lots)))
<1> DEFINE s == SubSeq(lots, 1, n)
           u == SubSeq(lots, n + 1, Len(lots))
<1>1. s \in Seq(Nat) /\ u \in Seq(Nat) /\ s \in Seq(Int) /\ u \in Seq(Int)
  OBVIOUS
<1>2. s \o u = lots
  <2>1. Len(lots) \in Nat /\ 1 \in 1..(Len(lots) + 1) /\ n \in (1 - 1)..Len(lots) /\ Len(lots) \in n..Len(lots)
    OBVIOUS
  <2>2. s \o u = SubSeq(lots, 1, Len(lots))
    BY <2>1, ConcatAdjacentSubSeq
  <2>3. QED
    BY <2>2, SubSeqFull
<1> HIDE DEF s, u
<1>3. SumOf(s \o u) = SumOf(s) + SumOf(u)
  BY <1>1, SumOfConcat
<1>4. SumOf(s) \in Nat /\ SumOf(u) \in Nat
  BY <1>1, SumOfNat
<1>5. QED
  BY <1>2, <1>3, <1>4 DEF s, u

(* round() of a quotient of naturals is one, and so is a cost basis.        *)
LEMMA RoundDivNat ==
    ASSUME NEW n \in Nat, NEW d \in Nat \ {0}
    PROVE  RoundDiv(n, d) \in Nat
<1>1. n \div d \in Nat
  OBVIOUS
<1>2. (n \div d) + 1 \in Nat
  BY <1>1
<1>3. QED
  BY <1>1, <1>2 DEF RoundDiv

LEMMA LiteralLotsType ==
    ASSUME NEW side, NEW list \in Seq(Trade)
    PROVE  LiteralLots(list, side) \in Seq(Nat)
<1>1. LiteralOp(side) \in Reducers(Trade, Seq(Nat)) /\ <<>> \in Seq(Nat)
  BY LiteralApplied DEF LiteralOp, Reducers
<1>2. QED
  <2> DEFINE T == Seq(Nat)
             op == LiteralOp(side)
  <2>1. op \in Reducers(Trade, T) /\ <<>> \in T
    BY <1>1
  <2>2. LiteralLots(list, side) = Folded(op, <<>>, list, T)
    BY LiteralLotsFolds
  <2> HIDE DEF T, op
  <2>3. LiteralLots(list, side) \in T
    BY <2>1, <2>2, FoldedIs
  <2>4. QED
    BY <2>3 DEF T

LEMMA CostBasisNat ==
    ASSUME NEW side, NEW list \in Seq(Trade)
    PROVE  CostBasis(list, side) \in Nat
<1> DEFINE lots == LiteralLots(list, side)
<1>1. lots \in Seq(Nat)
  BY LiteralLotsType
<1> HIDE DEF lots
<1>2. SumOf(lots) \in Nat
  BY <1>1, SumOfNat
<1>3. lots # <<>> => Len(lots) \in Nat \ {0}
  BY <1>1
<1>4. lots # <<>> => RoundDiv(SumOf(lots), Len(lots)) \in Nat
  BY <1>2, <1>3, RoundDivNat
<1>5. Average(lots) \in Nat
  BY <1>4 DEF Average
<1>6. QED
  BY <1>5 DEF CostBasis, lots


-----------------------------------------------------------------------------
(* Fifo: lots and profit after one more trade.                              *)
Account == [lots : Seq(Nat), pnl : Int]

FifoApply(side, acc, raw) ==
    LET t == Normalized(raw)
        matched == SubSeq(acc.lots, 1, IF t.qty < Len(acc.lots) THEN t.qty ELSE Len(acc.lots))
    IN  IF t.side # side THEN acc
        ELSE IF t.action = "buy"
             THEN [acc EXCEPT !.lots = acc.lots \o [i \in 1..t.qty |-> t.price]]
             ELSE [lots |-> DropOldest(acc.lots, t.qty),
                   pnl  |-> acc.pnl + t.price * Len(matched) - SumOf(matched)]

NoLots == [lots |-> <<>>, pnl |-> 0]

FifoOp(side) == [x \in Account \X Trade |-> FifoApply(side, x[1], x[2])]

LEMMA NormalizedTrade ==
    ASSUME NEW raw \in Trade
    PROVE  /\ Normalized(raw) \in Trade
           /\ Normalized(raw).qty = raw.qty /\ Normalized(raw).action = raw.action
           /\ raw.action = "buy" =>
                 Normalized(raw).side = raw.side /\ Normalized(raw).price = raw.price
           /\ raw.action = "sell" =>
                 Normalized(raw).side = Opposite(raw.side) /\ Normalized(raw).price = 100 - raw.price
<1>1. CASE raw.action = "buy"
  BY <1>1 DEF Normalized
<1>2. CASE raw.action # "buy"
  <2> DEFINE s == Opposite(raw.side)
             p == 100 - raw.price
             u == [raw EXCEPT !.side = s, !.price = p]
  <2>1. s \in {"yes", "no"}
    BY DEF Opposite
  <2>2. p \in 1..99
    <3>1. PICK n \in 1..99 : raw.price = n
      BY DEF Trade
    <3>2. 100 - n \in 1..99
      OBVIOUS
    <3>3. QED
      BY <3>1, <3>2
  <2> HIDE DEF s, p
  <2>3. u \in Trade
    BY <2>1, <2>2 DEF Trade
  <2>4. u.qty = raw.qty /\ u.action = raw.action /\ u.side = s /\ u.price = p
    BY DEF Trade
  <2>5. Normalized(raw) = u
    BY <1>2 DEF Normalized, s, p
  <2>6. QED
    BY <1>2, <2>3, <2>4, <2>5 DEF s, p
<1>3. QED
  BY <1>1, <1>2

LEMMA FifoOther ==
    ASSUME NEW side, NEW acc, NEW raw \in Trade, Normalized(raw).side # side
    PROVE  FifoApply(side, acc, raw) = acc
  BY DEF FifoApply

LEMMA FifoBuy ==
    ASSUME NEW side, NEW acc \in Account, NEW raw \in Trade,
           raw.action = "buy", raw.side = side
    PROVE  /\ FifoApply(side, acc, raw) \in Account
           /\ FifoApply(side, acc, raw).pnl = acc.pnl
           /\ Len(FifoApply(side, acc, raw).lots) = Len(acc.lots) + raw.qty
           /\ SumOf(FifoApply(side, acc, raw).lots) = SumOf(acc.lots) + raw.price * raw.qty
<1> DEFINE c == [i \in 1..raw.qty |-> raw.price]
           new == [acc EXCEPT !.lots = acc.lots \o c]
<1>1. FifoApply(side, acc, raw) = new
  <2>1. Normalized(raw) = raw
    BY DEF Normalized
  <2>2. QED
    BY <2>1 DEF FifoApply
<1>2. raw.qty \in Nat /\ raw.price \in Nat
  BY TradeFields
<1>3. c \in Seq(Nat) /\ Len(c) = raw.qty /\ SumOf(c) = raw.price * raw.qty
  BY <1>2, ConstantLots, SumOfConstant
<1> HIDE DEF c
<1>4. acc.lots \in Seq(Nat) /\ acc.pnl \in Int
  BY DEF Account
<1>5. acc.lots \o c \in Seq(Nat) /\ Len(acc.lots \o c) = Len(acc.lots) + raw.qty
  <2> DEFINE old == acc.lots
  <2>1. old \in Seq(Nat)
    BY <1>4
  <2> HIDE DEF old
  <2>2. old \o c \in Seq(Nat) /\ Len(old \o c) = Len(old) + Len(c)
    BY <1>3, <2>1, SMTT(40)
  <2>3. QED
    BY <1>3, <2>2 DEF old
<1>6. SumOf(acc.lots \o c) = SumOf(acc.lots) + SumOf(c)
  <2>1. acc.lots \in Seq(Int) /\ c \in Seq(Int)
    BY <1>3, <1>4
  <2>2. QED
    BY <2>1, SumOfConcat
<1> DEFINE both == acc.lots \o c
<1> HIDE DEF both
<1>7. [acc EXCEPT !.lots = both] \in Account /\ [acc EXCEPT !.lots = both].pnl = acc.pnl
      /\ [acc EXCEPT !.lots = both].lots = both
  BY <1>5 DEF Account, both
<1>8. QED
  BY <1>1, <1>3, <1>5, <1>6, <1>7 DEF both

LEMMA FifoSell ==
    ASSUME NEW side, NEW acc \in Account, NEW raw \in Trade,
           raw.action = "sell", Opposite(raw.side) = side
    PROVE  /\ FifoApply(side, acc, raw) \in Account
           /\ raw.qty <= Len(acc.lots) =>
                 /\ Len(FifoApply(side, acc, raw).lots) = Len(acc.lots) - raw.qty
                 /\ FifoApply(side, acc, raw).pnl - SumOf(FifoApply(side, acc, raw).lots)
                       = acc.pnl - SumOf(acc.lots) + (100 - raw.price) * raw.qty
<1> DEFINE t == Normalized(raw)
           old == acc.lots
           m == IF t.qty < Len(old) THEN t.qty ELSE Len(old)
           matched == SubSeq(old, 1, m)
           left == SubSeq(old, t.qty + 1, Len(old))
           pnl == acc.pnl + t.price * Len(matched) - SumOf(matched)
<1>1. t.side = side /\ t.action # "buy" /\ t.qty = raw.qty /\ t.price = 100 - raw.price
  BY NormalizedTrade
<1>2. FifoApply(side, acc, raw) = [lots |-> left, pnl |-> pnl]
  BY <1>1 DEF FifoApply, DropOldest
<1>3. raw.qty \in Nat /\ 100 - raw.price \in Nat
  BY TradeFields
<1>4. old \in Seq(Nat) /\ acc.pnl \in Int /\ Len(old) \in Nat
  BY DEF Account
<1>5. t.qty \in Nat /\ t.price \in Nat
  BY <1>1, <1>3
<1> HIDE DEF t, old
<1>6. m \in Nat /\ m <= Len(old)
  BY <1>4, <1>5
<1> HIDE DEF m
<1>7. left \in Seq(Nat)
  BY <1>4, <1>5, SubLots
<1>8. matched \in Seq(Nat) /\ Len(matched) = m
  BY <1>4, <1>6
<1>9. SumOf(matched) \in Nat
  BY <1>8, SumOfNat
<1>10. pnl \in Int
  <2> HIDE DEF matched
  <2>1. t.price * Len(matched) \in Int
    BY <1>5, <1>6, <1>8
  <2>2. QED
    BY <1>4, <1>9, <2>1
<1>11. [lots |-> left, pnl |-> pnl] \in Account
  <2> HIDE DEF left, pnl
  <2>1. QED
    BY <1>7, <1>10 DEF Account
<1>12. ASSUME raw.qty <= Len(old)
       PROVE  /\ Len(left) = Len(old) - raw.qty
              /\ pnl - SumOf(left) = acc.pnl - SumOf(old) + (100 - raw.price) * raw.qty
  <2>1. m = t.qty
    BY <1>1, <1>4, <1>5, <1>12 DEF m
  <2>2. SumOf(old) = SumOf(matched) + SumOf(left) /\ SumOf(left) \in Nat
    <3>1. t.qty <= Len(old)
      BY <1>1, <1>12
    <3>2. /\ SumOf(SubSeq(old, t.qty + 1, Len(old))) \in Nat
          /\ SumOf(old) = SumOf(SubSeq(old, 1, t.qty)) + SumOf(SubSeq(old, t.qty + 1, Len(old)))
      BY <1>4, <1>5, <3>1, SumOfSplit
    <3>3. QED
      BY <2>1, <3>2
  <2>3. Len(left) = Len(old) - raw.qty
    BY <1>1, <1>3, <1>4, <1>12
  <2>4. t.price * Len(matched) = (100 - raw.price) * raw.qty
    BY <1>1, <1>8, <2>1
  <2>5. (100 - raw.price) * raw.qty \in Int
    BY <1>3
  <2> DEFINE x == (100 - raw.price) * raw.qty
             y == SumOf(matched)
             z == SumOf(left)
             o == SumOf(old)
  <2> HIDE DEF x, y, z, o
  <2>6. pnl = acc.pnl + x - y
    BY <2>4 DEF x, y
  <2>7. o = y + z /\ x \in Int /\ y \in Int /\ z \in Int
    BY <1>9, <2>2, <2>5 DEF x, y, z, o
  <2>8. pnl - z = acc.pnl - o + x
    <3> HIDE DEF pnl
    <3>1. QED
      BY <1>4, <2>6, <2>7
  <2>9. QED
    BY <2>3, <2>8 DEF x, z, o
<1> HIDE DEF left, pnl
<1>13. [lots |-> left, pnl |-> pnl].lots = left /\ [lots |-> left, pnl |-> pnl].pnl = pnl
  OBVIOUS
<1>14. QED
  BY <1>2, <1>11, <1>12, <1>13 DEF old

LEMMA FifoApplied ==
    ASSUME NEW side, NEW acc \in Account, NEW raw \in Trade
    PROVE  FifoApply(side, acc, raw) \in Account
<1>1. CASE Normalized(raw).side # side
  BY <1>1, FifoOther
<1>2. CASE raw.action = "buy" /\ raw.side = side
  BY <1>2, FifoBuy
<1>3. CASE raw.action = "sell" /\ Opposite(raw.side) = side
  BY <1>3, FifoSell
<1>4. QED
  BY <1>1, <1>2, <1>3, NormalizedTrade, TradeFields

FifoStep(side, list, g, s) ==
    IF s = {} THEN NoLots ELSE FifoApply(side, g[s \ {Max(s)}], list[Max(s)])

FifoIter(side, list) == CHOOSE g : g = [s \in SUBSET (DOMAIN list) |-> FifoStep(side, list, g, s)]

LEMMA FifoFolds ==
    ASSUME NEW side, NEW list \in Seq(Trade)
    PROVE  Fifo(list, side) = Folded(FifoOp(side), NoLots, list, Account)
<1> DEFINE q == list
           n == Len(q)
           D == SUBSET (1..n)
           op == FifoOp(side)
<1>1. q \in Seq(Trade) /\ n \in Nat /\ DOMAIN q = 1..n
  OBVIOUS
<1>2. Fifo(list, side) = FifoIter(side, list)[DOMAIN list]
  BY DEF Fifo, NoLots, FoldLeft, MapThenFoldSet, FifoIter, FifoStep, FifoApply
<1> DEFINE j == FifoIter(side, list)
<1>3. /\ op \in Reducers(Trade, Account) /\ NoLots \in Account
      /\ \A a \in Account, e \in Trade : op[<<a, e>>] = FifoApply(side, a, e)
  <2>1. NoLots \in Account
    BY DEF NoLots, Account
  <2>2. QED
    BY <2>1, FifoApplied DEF FifoOp, Reducers
<1>4. j[1..n] = Fifo(list, side)
  BY <1>1, <1>2
<1> HIDE DEF q, op
<1>5. PICK g : Iterates(g, op, NoLots, q, Account)
  BY <1>1, <1>3, IterExists
<1>6. g \in [D -> Account] /\ g = [s \in D |-> FoldStep(op, NoLots, q, g, s)]
  BY <1>5 DEF Iterates
<1>7. ASSUME NEW s \in D, s # {}
      PROVE  s \ {Max(s)} \in D /\ q[Max(s)] \in Trade
  <2>1. Max(s) \in s
    BY <1>1, <1>7, MaxIsLargest
  <2>2. Max(s) \in 1..n /\ s \ {Max(s)} \in D
    BY <2>1
  <2>3. \A i \in 1..n : q[i] \in Trade
    BY <1>1
  <2>4. QED
    BY <2>2, <2>3
<1>8. ASSUME NEW s \in D, NEW h, NEW v \in Account, s # {}, h[s \ {Max(s)}] = v
      PROVE  FifoApply(side, h[s \ {Max(s)}], q[Max(s)]) = op[<<v, q[Max(s)]>>]
  <2>1. q[Max(s)] \in Trade
    BY <1>7, <1>8
  <2>2. op[<<v, q[Max(s)]>>] = FifoApply(side, v, q[Max(s)])
    BY <1>3, <2>1
  <2>3. QED
    BY <1>8, <2>2
<1>9. ASSUME NEW s \in D
      PROVE  g[s] = FifoStep(side, list, g, s)
  <2>1. g[s] = FoldStep(op, NoLots, q, g, s)
    BY <1>6
  <2>2. CASE s = {}
    BY <2>1, <2>2 DEF FoldStep, FifoStep
  <2>3. CASE s # {}
    <3>1. s \ {Max(s)} \in D
      BY <1>7, <2>3
    <3>2. g[s \ {Max(s)}] \in Account
      <4> HIDE DEF D
      <4>1. QED
        BY <1>6, <3>1
    <3>3. g[s] = op[<<g[s \ {Max(s)}], q[Max(s)]>>]
      BY <2>1, <2>3 DEF FoldStep
    <3>4. g[s] = FifoApply(side, g[s \ {Max(s)}], q[Max(s)])
      BY <1>8, <2>3, <3>2, <3>3
    <3>5. QED
      BY <2>3, <3>4 DEF FifoStep, q
  <2>4. QED
    BY <2>2, <2>3
<1>10. g = [s \in D |-> FifoStep(side, list, g, s)]
  BY <1>6, <1>9
<1>11. j = [s \in D |-> FifoStep(side, list, j, s)]
  BY <1>1, <1>10 DEF FifoIter, q
<1> HIDE DEF j
<1>12. j[{}] = NoLots
  BY <1>11 DEF FifoStep
<1>13. ASSUME NEW s \in D, NEW v \in Account, s # {}, j[s \ {Max(s)}] = v
       PROVE  j[s] = op[<<v, q[Max(s)]>>]
  <2>1. j[s] = FifoApply(side, j[s \ {Max(s)}], q[Max(s)])
    BY <1>11, <1>13 DEF FifoStep, q
  <2>2. QED
    BY <1>8, <1>13, <2>1
<1>14. Computes(j, op, NoLots, q, Account)
  BY <1>12, <1>13 DEF Computes
<1>15. j[1..n] = Folded(op, NoLots, q, Account)
  BY <1>1, <1>3, <1>14, IterIsFolded
<1>16. QED
  BY <1>4, <1>15 DEF op, q

LEMMA FifoFacts ==
    ASSUME NEW side, NEW list \in Seq(Trade), NEW raw \in Trade
    PROVE  /\ Fifo(list, side) \in Account
           /\ Fifo(Append(list, raw), side) = FifoApply(side, Fifo(list, side), raw)
<1> DEFINE op == FifoOp(side)
           longer == Append(list, raw)
<1>1. op \in Reducers(Trade, Account) /\ NoLots \in Account
      /\ \A a \in Account, e \in Trade : op[<<a, e>>] = FifoApply(side, a, e)
  <2>1. NoLots \in Account
    BY DEF NoLots, Account
  <2>2. QED
    BY <2>1, FifoApplied DEF FifoOp, Reducers
<1>2. longer \in Seq(Trade)
  OBVIOUS
<1>3. \A u \in Seq(Trade) : Fifo(u, side) = Folded(op, NoLots, u, Account)
  BY FifoFolds
<1> HIDE DEF op, longer
<1>4. Fifo(list, side) \in Account
  BY <1>1, <1>3, FoldedIs
<1>5. Folded(op, NoLots, longer, Account) = op[<<Folded(op, NoLots, list, Account), raw>>]
  BY <1>1, FoldedAppend DEF longer
<1>6. Fifo(longer, side) = op[<<Fifo(list, side), raw>>]
  BY <1>2, <1>3, <1>5
<1>7. Fifo(longer, side) = FifoApply(side, Fifo(list, side), raw)
  BY <1>1, <1>4, <1>6
<1>8. QED
  BY <1>4, <1>7 DEF longer

LEMMA FifoNone ==
    ASSUME NEW side
    PROVE  Fifo(<<>>, side) = NoLots
<1> DEFINE op == FifoOp(side)
<1>1. op \in Reducers(Trade, Account) /\ NoLots \in Account
  <2>1. NoLots \in Account
    BY DEF NoLots, Account
  <2>2. QED
    BY <2>1, FifoApplied DEF FifoOp, Reducers
<1>2. <<>> \in Seq(Trade)
  OBVIOUS
<1>3. Fifo(<<>>, side) = Folded(op, NoLots, <<>>, Account)
  BY <1>2, FifoFolds
<1> HIDE DEF op
<1>4. QED
  BY <1>1, <1>3, FoldedEmpty

LEMMA FifoType ==
    ASSUME NEW side, NEW list \in Seq(Trade)
    PROVE  Fifo(list, side) \in Account
<1> DEFINE op == FifoOp(side)
<1>1. op \in Reducers(Trade, Account) /\ NoLots \in Account
  <2>1. NoLots \in Account
    BY DEF NoLots, Account
  <2>2. QED
    BY <2>1, FifoApplied DEF FifoOp, Reducers
<1>2. Fifo(list, side) = Folded(op, NoLots, list, Account)
  BY FifoFolds
<1> HIDE DEF op
<1>3. QED
  BY <1>1, <1>2, FoldedIs


-----------------------------------------------------------------------------
(* The trades of a ticker among the fills f.                                *)
TradesApply(f, t, ids, list, i) ==
    IF f[i].ticker = t /\ i \in ids THEN Append(list, f[i]) ELSE list

Indices(f) == [i \in DOMAIN f |-> i]

TradeLists == Seq(Trade)

TradesOp(f, t, ids) == [x \in TradeLists \X (DOMAIN f) |-> TradesApply(f, t, ids, x[1], x[2])]

LEMMA TradesApplied ==
    ASSUME NEW f \in Seq(Trade), NEW t, NEW ids
    PROVE  /\ TradesOp(f, t, ids) \in Reducers(DOMAIN f, TradeLists)
           /\ <<>> \in TradeLists
           /\ \A a \in TradeLists, e \in DOMAIN f :
                 TradesOp(f, t, ids)[<<a, e>>] = TradesApply(f, t, ids, a, e)
<1>1. ASSUME NEW a \in TradeLists, NEW e \in DOMAIN f
      PROVE  TradesApply(f, t, ids, a, e) \in TradeLists
  <2>1. f[e] \in Trade
    OBVIOUS
  <2> DEFINE x == f[e]
  <2> HIDE DEF x
  <2>2. Append(a, x) \in TradeLists
    BY <2>1 DEF TradeLists, x
  <2>3. QED
    BY <2>2 DEF TradesApply, x
<1>2. <<>> \in TradeLists
  BY DEF TradeLists
<1>3. \A a \in TradeLists, e \in DOMAIN f :
         TradesOp(f, t, ids)[<<a, e>>] = TradesApply(f, t, ids, a, e)
  BY DEF TradesOp
<1>4. TradesOp(f, t, ids) \in [TradeLists \X (DOMAIN f) -> TradeLists]
  BY <1>1 DEF TradesOp
<1>5. QED
  BY <1>2, <1>3, <1>4 DEF Reducers

TradesStep(t, ids, g, s) ==
    IF s = {} THEN <<>> ELSE TradesApply(fills, t, ids, g[s \ {Max(s)}], Indices(fills)[Max(s)])

TradesIter(t, ids) == CHOOSE g : g = [s \in SUBSET (DOMAIN Indices(fills)) |-> TradesStep(t, ids, g, s)]

LEMMA TradesFolds ==
    ASSUME fills \in Seq(Trade), NEW t, NEW ids
    PROVE  TradesOf(t, ids) = Folded(TradesOp(fills, t, ids), <<>>, Indices(fills), TradeLists)
<1> DEFINE q == Indices(fills)
           n == Len(q)
           D == SUBSET (1..n)
           op == TradesOp(fills, t, ids)
<1>1. q \in Seq((DOMAIN fills)) /\ n \in Nat /\ DOMAIN q = 1..n
  BY DEF Indices
<1>2. TradesOf(t, ids) = TradesIter(t, ids)[DOMAIN Indices(fills)]
  BY DEF TradesOf, FoldLeftDomain, Indices, FoldLeft, MapThenFoldSet, TradesIter, TradesStep, TradesApply
<1> DEFINE j == TradesIter(t, ids)
<1>3. /\ op \in Reducers((DOMAIN fills), TradeLists) /\ <<>> \in TradeLists
      /\ \A a \in TradeLists, e \in (DOMAIN fills) : op[<<a, e>>] = TradesApply(fills, t, ids, a, e)
  BY TradesApplied
<1>4. j[1..n] = TradesOf(t, ids)
  BY <1>1, <1>2
<1> HIDE DEF q, op
<1>5. PICK g : Iterates(g, op, <<>>, q, TradeLists)
  BY <1>1, <1>3, IterExists
<1>6. g \in [D -> TradeLists] /\ g = [s \in D |-> FoldStep(op, <<>>, q, g, s)]
  BY <1>5 DEF Iterates
<1>7. ASSUME NEW s \in D, s # {}
      PROVE  s \ {Max(s)} \in D /\ q[Max(s)] \in (DOMAIN fills)
  <2>1. Max(s) \in s
    BY <1>1, <1>7, MaxIsLargest
  <2>2. Max(s) \in 1..n /\ s \ {Max(s)} \in D
    BY <2>1
  <2>3. \A i \in 1..n : q[i] \in (DOMAIN fills)
    BY <1>1
  <2>4. QED
    BY <2>2, <2>3
<1>8. ASSUME NEW s \in D, NEW h, NEW v \in TradeLists, s # {}, h[s \ {Max(s)}] = v
      PROVE  TradesApply(fills, t, ids, h[s \ {Max(s)}], q[Max(s)]) = op[<<v, q[Max(s)]>>]
  <2>1. q[Max(s)] \in (DOMAIN fills)
    BY <1>7, <1>8
  <2>2. op[<<v, q[Max(s)]>>] = TradesApply(fills, t, ids, v, q[Max(s)])
    BY <1>3, <2>1
  <2>3. QED
    BY <1>8, <2>2
<1>9. ASSUME NEW s \in D
      PROVE  g[s] = TradesStep(t, ids, g, s)
  <2>1. g[s] = FoldStep(op, <<>>, q, g, s)
    BY <1>6
  <2>2. CASE s = {}
    BY <2>1, <2>2 DEF FoldStep, TradesStep
  <2>3. CASE s # {}
    <3>1. s \ {Max(s)} \in D
      BY <1>7, <2>3
    <3>2. g[s \ {Max(s)}] \in TradeLists
      <4> HIDE DEF D
      <4>1. QED
        BY <1>6, <3>1
    <3>3. g[s] = op[<<g[s \ {Max(s)}], q[Max(s)]>>]
      BY <2>1, <2>3 DEF FoldStep
    <3>4. g[s] = TradesApply(fills, t, ids, g[s \ {Max(s)}], q[Max(s)])
      BY <1>8, <2>3, <3>2, <3>3
    <3>5. QED
      BY <2>3, <3>4 DEF TradesStep, q
  <2>4. QED
    BY <2>2, <2>3
<1>10. g = [s \in D |-> TradesStep(t, ids, g, s)]
  BY <1>6, <1>9
<1>11. j = [s \in D |-> TradesStep(t, ids, j, s)]
  BY <1>1, <1>10 DEF TradesIter, q
<1> HIDE DEF j
<1>12. j[{}] = <<>>
  BY <1>11 DEF TradesStep
<1>13. ASSUME NEW s \in D, NEW v \in TradeLists, s # {}, j[s \ {Max(s)}] = v
       PROVE  j[s] = op[<<v, q[Max(s)]>>]
  <2>1. j[s] = TradesApply(fills, t, ids, j[s \ {Max(s)}], q[Max(s)])
    BY <1>11, <1>13 DEF TradesStep, q
  <2>2. QED
    BY <1>8, <1>13, <2>1
<1>14. Computes(j, op, <<>>, q, TradeLists)
  BY <1>12, <1>13 DEF Computes
<1>15. j[1..n] = Folded(op, <<>>, q, TradeLists)
  BY <1>1, <1>3, <1>14, IterIsFolded
<1>16. QED
  BY <1>4, <1>15 DEF op, q

LEMMA TradesFold ==
    fills \in Seq(Trade) =>
        \A t, ids : TradesOf(t, ids) = Folded(TradesOp(fills, t, ids), <<>>, Indices(fills), TradeLists)
  BY TradesFolds

LEMMA TradesFoldNext ==
    (fills \in Seq(Trade))' =>
        (\A t, ids : TradesOf(t, ids)
                       = Folded(TradesOp(fills, t, ids), <<>>, Indices(fills), TradeLists))'
  BY TradesFold, PTL

LEMMA TradesOfType ==
    fills \in Seq(Trade) => \A t, ids : TradesOf(t, ids) \in Seq(Trade)
<1> SUFFICES ASSUME fills \in Seq(Trade), NEW t, NEW ids
             PROVE  TradesOf(t, ids) \in TradeLists
  BY DEF TradeLists
<1>1. Indices(fills) \in Seq(DOMAIN fills)
  BY DEF Indices
<1>2. TradesOp(fills, t, ids) \in Reducers(DOMAIN fills, TradeLists) /\ <<>> \in TradeLists
  BY TradesApplied
<1>3. Folded(TradesOp(fills, t, ids), <<>>, Indices(fills), TradeLists) \in TradeLists
  BY <1>1, <1>2, FoldedIs
<1>4. QED
  BY <1>3, TradesFold

(* What is stored matters only for the fills of the ticker.                 *)
LEMMA TradesOfSame ==
    ASSUME fills \in Seq(Trade), NEW t, NEW ids, NEW others,
           \A i \in 1..Len(fills) : fills[i].ticker = t => (i \in ids <=> i \in others)
    PROVE  TradesOf(t, ids) = TradesOf(t, others)
<1> DEFINE u == TradesOp(fills, t, ids)
           v == TradesOp(fills, t, others)
           q == Indices(fills)
           D == DOMAIN fills
<1>1. q \in Seq(D) /\ Len(q) = Len(fills) /\ D = 1..Len(fills) /\ Len(fills) \in Nat
      /\ \A i \in 1..Len(fills) : q[i] = i
  BY DEF Indices
<1>2. /\ u \in Reducers(D, TradeLists) /\ v \in Reducers(D, TradeLists) /\ <<>> \in TradeLists
      /\ \A a \in TradeLists, e \in D : u[<<a, e>>] = TradesApply(fills, t, ids, a, e)
      /\ \A a \in TradeLists, e \in D : v[<<a, e>>] = TradesApply(fills, t, others, a, e)
  BY TradesApplied
<1>3. \A e \in D : \A a : TradesApply(fills, t, ids, a, e) = TradesApply(fills, t, others, a, e)
  BY <1>1 DEF TradesApply
<1>4. TradesOf(t, ids) = Folded(u, <<>>, q, TradeLists)
      /\ TradesOf(t, others) = Folded(v, <<>>, q, TradeLists)
  BY TradesFold
<1> HIDE DEF u, v, q, D
<1>5. Alike(u, q, v, q, TradeLists)
  <2> SUFFICES ASSUME NEW i \in 1..Len(q), NEW a \in TradeLists
               PROVE  u[<<a, q[i]>>] = v[<<a, q[i]>>]
    BY DEF Alike
  <2>1. q[i] \in D
    BY <1>1
  <2>2. QED
    BY <1>2, <1>3, <2>1
<1>6. QED
  BY <1>1, <1>2, <1>4, <1>5, FoldedSame

LEMMA TradesOfNone ==
    fills = <<>> => \A t, ids : TradesOf(t, ids) = <<>>
<1> SUFFICES ASSUME fills = <<>>, NEW t, NEW ids
             PROVE  TradesOf(t, ids) = <<>>
  OBVIOUS
<1>1. fills \in Seq(Trade) /\ Indices(fills) = <<>>
  BY DEF Indices
<1>2. TradesOp(fills, t, ids) \in Reducers(DOMAIN fills, TradeLists) /\ <<>> \in TradeLists
  BY <1>1, TradesApplied
<1>3. Folded(TradesOp(fills, t, ids), <<>>, <<>>, TradeLists) = <<>>
  BY <1>2, FoldedEmpty
<1>4. QED
  BY <1>1, <1>3, TradesFold

(* One more fill is one more trade of its ticker.                           *)
LEMMA TradesOfNext ==
    ASSUME fills \in Seq(Trade), NEW x \in Trade, fills' = Append(fills, x),
           NEW t, NEW ids, Len(fills) + 1 \in ids
    PROVE  TradesOf(t, ids)' = IF x.ticker = t THEN Append(TradesOf(t, ids), x) ELSE TradesOf(t, ids)
<1> DEFINE f == Append(fills, x)
           n == Len(fills)
           u == TradesOp(fills, t, ids)
           v == TradesOp(f, t, ids)
           q == Indices(fills)
           D == DOMAIN fills
           E == DOMAIN f
<1>1. f \in Seq(Trade) /\ n \in Nat /\ f[n + 1] = x /\ D = 1..n /\ E = 1..(n + 1)
      /\ \A i \in D : f[i] = fills[i]
  OBVIOUS
<1>2. q \in Seq(D) /\ q \in Seq(E) /\ Len(q) = n /\ \A i \in 1..n : q[i] = i
  BY <1>1 DEF Indices
<1>3. Indices(f) = Append(q, n + 1)
  BY <1>1 DEF Indices
<1>4. /\ u \in Reducers(D, TradeLists) /\ <<>> \in TradeLists
      /\ \A a \in TradeLists, e \in D : u[<<a, e>>] = TradesApply(fills, t, ids, a, e)
  BY TradesApplied
<1>5. /\ v \in Reducers(E, TradeLists)
      /\ \A a \in TradeLists, e \in E : v[<<a, e>>] = TradesApply(f, t, ids, a, e)
  BY <1>1, TradesApplied
<1>6. TradesOf(t, ids) = Folded(u, <<>>, q, TradeLists)
  BY TradesFold
<1>7. TradesOf(t, ids)' = Folded(v, <<>>, Append(q, n + 1), TradeLists)
  <2>1. (fills \in Seq(Trade))'
    BY <1>1
  <2>2. TradesOf(t, ids)' = Folded(TradesOp(fills', t, ids), <<>>, Indices(fills'), TradeLists)
    BY <2>1, TradesFoldNext
  <2>3. QED
    BY <1>3, <2>2
<1>8. \A a : \A e \in D : TradesApply(f, t, ids, a, e) = TradesApply(fills, t, ids, a, e)
  <2> HIDE DEF f
  <2>1. QED
    BY <1>1 DEF TradesApply
<1>9. \A a : TradesApply(f, t, ids, a, n + 1) = (IF x.ticker = t THEN Append(a, x) ELSE a)
  <2> HIDE DEF f
  <2>1. QED
    BY <1>1 DEF TradesApply
<1>10. TradesOf(t, ids) \in TradeLists
  BY TradesOfType DEF TradeLists
<1>11. n + 1 \in E /\ \A i \in D : i \in E
  BY <1>1
<1> HIDE DEF u, v, q, D, E, f
<1>12. Alike(u, q, v, q, TradeLists)
  <2> SUFFICES ASSUME NEW i \in 1..Len(q), NEW a \in TradeLists
               PROVE  u[<<a, q[i]>>] = v[<<a, q[i]>>]
    BY DEF Alike
  <2>1. q[i] \in D /\ q[i] \in E
    BY <1>2, <1>11
  <2>2. QED
    BY <1>4, <1>5, <1>8, <2>1
<1>13. Folded(v, <<>>, q, TradeLists) = Folded(u, <<>>, q, TradeLists)
  BY <1>2, <1>4, <1>5, <1>12, FoldedSame
<1>14. Folded(v, <<>>, Append(q, n + 1), TradeLists) = v[<<Folded(v, <<>>, q, TradeLists), n + 1>>]
  BY <1>2, <1>4, <1>5, <1>11, FoldedAppend
<1>15. TradesOf(t, ids)' = v[<<TradesOf(t, ids), n + 1>>]
  BY <1>6, <1>7, <1>13, <1>14
<1> DEFINE old == TradesOf(t, ids)
<1>16. old \in TradeLists
  BY <1>10
<1> HIDE DEF old
<1>17. TradesApply(f, t, ids, old, n + 1) = IF x.ticker = t THEN Append(old, x) ELSE old
  BY <1>9
<1>18. v[<<old, n + 1>>] = TradesApply(f, t, ids, old, n + 1)
  BY <1>5, <1>11, <1>16
<1>19. QED
  BY <1>15, <1>17, <1>18 DEF old

-----------------------------------------------------------------------------
(* What was traded in a market, by side: every fill, stored or not.         *)
Book(t, side) == Fifo(TradesOf(t, Nat), side)

(* While the market is open one side at most holds lots, as many as the     *)
(* position, and the cash is the profit less what the lots cost.            *)
OpenBooks(h, o, held, paid) ==
    /\ h.lots = <<>> \/ o.lots = <<>>
    /\ held = Len(h.lots) - Len(o.lots)
    /\ paid = (h.pnl - SumOf(h.lots)) + (o.pnl - SumOf(o.lots))

Proceeds(book, r, side) ==
    book.pnl + (SettlementPrice(r, ScalarValue, side) * Len(book.lots) - SumOf(book.lots))

(* The books of a market explain its cash: open, the cash is what was closed *)
(* less what the lots still held cost; settled, what settling them brings.   *)
BooksBalance(t) ==
    IF result[t] = "open" THEN OpenBooks(Book(t, "yes"), Book(t, "no"), position[t], cash[t])
    ELSE /\ position[t] = 0
         /\ result[t] # "void" =>
               cash[t] = Proceeds(Book(t, "yes"), result[t], "yes")
                         + Proceeds(Book(t, "no"), result[t], "no")

ExchangeTyped ==
    /\ fills \in Seq(Trade)
    /\ position \in [Tickers -> Int] /\ cash \in [Tickers -> Int]
    /\ result \in [Tickers -> Results]

(* The inductive invariant of the profit.                                    *)
LedgerInv == ExchangeTyped /\ \A t \in Tickers : BooksBalance(t)

LEMMA BookType ==
    fills \in Seq(Trade) => \A t, side : Book(t, side) \in Account
<1> SUFFICES ASSUME fills \in Seq(Trade), NEW t, NEW side
             PROVE  Book(t, side) \in Account
  OBVIOUS
<1>1. TradesOf(t, Nat) \in Seq(Trade)
  BY TradesOfType
<1>2. QED
  BY <1>1, FifoType DEF Book

LEMMA OpenBuy ==
    ASSUME NEW h \in Account, NEW o \in Account, NEW held \in Int, NEW paid \in Int,
           OpenBooks(h, o, held, paid), NEW raw \in Trade,
           raw.action = "buy", held >= 0,
           NEW k \in Account, k.pnl = h.pnl, Len(k.lots) = Len(h.lots) + raw.qty,
           SumOf(k.lots) = SumOf(h.lots) + raw.price * raw.qty
    PROVE  OpenBooks(k, o, held + raw.qty, paid - raw.price * raw.qty)
<1>1. /\ h.lots \in Seq(Nat) /\ o.lots \in Seq(Nat) /\ k.lots \in Seq(Nat)
      /\ h.pnl \in Int /\ o.pnl \in Int /\ k.pnl \in Int
  BY DEF Account
<1>2. SumOf(h.lots) \in Nat /\ SumOf(o.lots) \in Nat /\ SumOf(k.lots) \in Nat
  BY <1>1, SumOfNat
<1>3. raw.qty \in Nat /\ raw.price * raw.qty \in Nat
  BY TradeFields
<1>4. Len(h.lots) \in Nat /\ Len(o.lots) \in Nat /\ Len(k.lots) \in Nat
  BY <1>1
<1>5. o.lots = <<>>
  <2>1. h.lots = <<>> => Len(h.lots) = 0
    OBVIOUS
  <2>2. Len(o.lots) = 0 => o.lots = <<>>
    BY <1>1
  <2>3. QED
    BY <1>4, <2>1, <2>2 DEF OpenBooks
<1>6. held + raw.qty = Len(k.lots) - Len(o.lots)
  <2>1. held = Len(h.lots) - Len(o.lots)
    BY DEF OpenBooks
  <2> DEFINE lh == Len(h.lots)
             lo == Len(o.lots)
             lk == Len(k.lots)
             n == raw.qty
  <2>2. held = lh - lo /\ lk = lh + n /\ lh \in Nat /\ lo \in Nat /\ n \in Nat
    BY <1>3, <1>4, <2>1
  <2> HIDE DEF lh, lo, lk, n
  <2>3. held + n = lk - lo
    BY <2>2
  <2>4. QED
    BY <2>3 DEF lo, lk, n
<1> DEFINE x == raw.price * raw.qty
           a == SumOf(h.lots)
           b == SumOf(o.lots)
           c == SumOf(k.lots)
<1> HIDE DEF x, a, b, c
<1>7. paid = (h.pnl - a) + (o.pnl - b) /\ c = a + x /\ x \in Int /\ a \in Int /\ b \in Int
  BY <1>2, <1>3 DEF OpenBooks, x, a, b, c
<1>8. paid - x = (k.pnl - c) + (o.pnl - b)
  BY <1>1, <1>7, SMTT(40)
<1>9. QED
  BY <1>5, <1>6, <1>8 DEF OpenBooks, x, b, c

LEMMA OpenSell ==
    ASSUME NEW h \in Account, NEW o \in Account, NEW held \in Int, NEW paid \in Int,
           OpenBooks(h, o, held, paid), NEW raw \in Trade, held >= raw.qty,
           NEW k \in Account,
           raw.qty <= Len(h.lots) =>
              /\ Len(k.lots) = Len(h.lots) - raw.qty
              /\ k.pnl - SumOf(k.lots) = h.pnl - SumOf(h.lots) + (100 - raw.price) * raw.qty
    PROVE  OpenBooks(k, o, held - raw.qty, paid + (100 - raw.price) * raw.qty)
<1>1. /\ h.lots \in Seq(Nat) /\ o.lots \in Seq(Nat) /\ k.lots \in Seq(Nat)
      /\ h.pnl \in Int /\ o.pnl \in Int /\ k.pnl \in Int
  BY DEF Account
<1>2. SumOf(h.lots) \in Nat /\ SumOf(o.lots) \in Nat /\ SumOf(k.lots) \in Nat
  BY <1>1, SumOfNat
<1>3. raw.qty \in Nat /\ raw.qty > 0 /\ (100 - raw.price) * raw.qty \in Int
  BY TradeFields
<1>4. Len(h.lots) \in Nat /\ Len(o.lots) \in Nat /\ Len(k.lots) \in Nat
  BY <1>1
<1>5. o.lots = <<>> /\ raw.qty <= Len(h.lots)
  <2>1. h.lots = <<>> => Len(h.lots) = 0
    OBVIOUS
  <2>2. Len(o.lots) = 0 => o.lots = <<>>
    BY <1>1
  <2>3. held = Len(h.lots) - Len(o.lots) /\ (h.lots = <<>> \/ o.lots = <<>>)
    BY DEF OpenBooks
  <2> DEFINE lh == Len(h.lots)
             lo == Len(o.lots)
             n == raw.qty
  <2>4. /\ held = lh - lo /\ held >= n /\ n > 0 /\ lh \in Nat /\ lo \in Nat /\ n \in Nat
        /\ lh = 0 \/ lo = 0
    BY <1>3, <1>4, <2>1, <2>3
  <2> HIDE DEF lh, lo, n
  <2>5. lo = 0 /\ n <= lh
    BY <2>4
  <2>6. QED
    BY <2>2, <2>5 DEF lh, lo, n
<1>6. held - raw.qty = Len(k.lots) - Len(o.lots)
  <2>1. held = Len(h.lots) - Len(o.lots)
    BY DEF OpenBooks
  <2> DEFINE lh == Len(h.lots)
             lo == Len(o.lots)
             lk == Len(k.lots)
             n == raw.qty
  <2>2. held = lh - lo /\ lk = lh - n /\ lh \in Nat /\ lo \in Nat /\ n \in Nat
    BY <1>3, <1>4, <1>5, <2>1
  <2> HIDE DEF lh, lo, lk, n
  <2>3. held - n = lk - lo
    BY <2>2
  <2>4. QED
    BY <2>3 DEF lo, lk, n
<1> DEFINE x == (100 - raw.price) * raw.qty
           a == SumOf(h.lots)
           b == SumOf(o.lots)
           c == SumOf(k.lots)
<1> HIDE DEF x, a, b, c
<1>7. /\ paid = (h.pnl - a) + (o.pnl - b) /\ k.pnl - c = h.pnl - a + x
      /\ x \in Int /\ a \in Int /\ b \in Int /\ c \in Int
  BY <1>2, <1>3, <1>5 DEF OpenBooks, x, a, b, c
<1>8. paid + x = (k.pnl - c) + (o.pnl - b)
  BY <1>1, <1>7, SMTT(40)
<1>9. QED
  BY <1>5, <1>6, <1>8 DEF OpenBooks, x, b, c

(* The sides of a ledger may be named the other way round.                  *)
LEMMA OtherWay ==
    ASSUME NEW h \in Account, NEW o \in Account, NEW held \in Int, NEW paid \in Int
    PROVE  OpenBooks(h, o, held, paid) <=> OpenBooks(o, h, -held, paid)
<1>1. h.lots \in Seq(Nat) /\ o.lots \in Seq(Nat) /\ h.pnl \in Int /\ o.pnl \in Int
  BY DEF Account
<1>2. SumOf(h.lots) \in Nat /\ SumOf(o.lots) \in Nat /\ Len(h.lots) \in Nat /\ Len(o.lots) \in Nat
  BY <1>1, SumOfNat
<1> DEFINE a == SumOf(h.lots)
           b == SumOf(o.lots)
<1> HIDE DEF a, b
<1>3. (h.pnl - a) + (o.pnl - b) = (o.pnl - b) + (h.pnl - a)
  BY <1>1, <1>2 DEF a, b
<1>4. held = Len(h.lots) - Len(o.lots) <=> -held = Len(o.lots) - Len(h.lots)
  <2> DEFINE lh == Len(h.lots)
             lo == Len(o.lots)
  <2>1. lh \in Int /\ lo \in Int
    BY <1>2
  <2> HIDE DEF lh, lo
  <2>2. held = lh - lo <=> -held = lo - lh
    BY <2>1
  <2>3. QED
    BY <2>2 DEF lh, lo
<1>5. QED
  BY <1>3, <1>4 DEF OpenBooks, a, b

-----------------------------------------------------------------------------
(* What a fill does to the books of its market ...                          *)
LEMMA FillKeepsBooks ==
    ASSUME PortfolioAssumption, LedgerInv, NEW f \in FillKinds, Fill(f)
    PROVE  BooksBalance(f.ticker)'
<1> DEFINE t == f.ticker
           list == TradesOf(t, Nat)
           y == Book(t, "yes")
           n == Book(t, "no")
<1>1. f \in Trade
  BY DEF PortfolioAssumption, Trade
<1>2. t \in Tickers /\ f.side \in {"yes", "no"} /\ f.action \in {"buy", "sell"} /\ f.qty \in Nat
  BY <1>1, TradeFields
<1>3. fills \in Seq(Trade) /\ fills' = Append(fills, f) /\ Len(fills) + 1 \in Nat
  BY DEF LedgerInv, ExchangeTyped, Fill
<1>4. TradesOf(t, Nat)' = Append(list, f)
  BY <1>1, <1>3, TradesOfNext
<1>5. list \in Seq(Trade)
  BY <1>3, TradesOfType
<1>6. y \in Account /\ n \in Account
  BY <1>3, BookType
<1>7. \A side : Book(t, side)' = FifoApply(side, Book(t, side), f)
  <2> SUFFICES ASSUME NEW side PROVE Book(t, side)' = FifoApply(side, Book(t, side), f)
    OBVIOUS
  <2>1. Fifo(Append(list, f), side) = FifoApply(side, Fifo(list, side), f)
    BY <1>1, <1>5, FifoFacts
  <2>2. QED
    BY <1>4, <2>1 DEF Book
<1>8. position[t] \in Int /\ cash[t] \in Int
  BY <1>2 DEF LedgerInv, ExchangeTyped
<1>9. OpenBooks(y, n, position[t], cash[t]) /\ result'[t] = "open"
  BY <1>2 DEF LedgerInv, BooksBalance, Fill
<1>10. OpenBooks(n, y, -position[t], cash[t])
  BY <1>6, <1>8, <1>9, OtherWay
<1> DEFINE y2 == FifoApply("yes", y, f)
           n2 == FifoApply("no", n, f)
           m == f.price * f.qty
           w == (100 - f.price) * f.qty
<1> SUFFICES OpenBooks(y2, n2, position'[t], cash'[t])
  BY <1>7, <1>9 DEF BooksBalance
<1> HIDE DEF t, list, y, n
<1>11. m \in Int /\ w \in Int
  BY <1>1, TradeFields
<1>12. /\ position'[t] = position[t] + (IF Normalized(f).side = "yes" THEN 1 ELSE -1)
                                         * (IF f.action = "buy" THEN f.qty ELSE -f.qty)
       /\ cash'[t] = cash[t] + (IF f.action = "buy" THEN -f.price ELSE 100 - f.price) * f.qty
       /\ LET p == (IF Normalized(f).side = "yes" THEN 1 ELSE -1) * position[t]
          IN  IF f.action = "buy" THEN p >= 0 ELSE p >= f.qty
  BY <1>2 DEF Fill, LedgerInv, ExchangeTyped, t
<1>13. f.qty \in Nat /\ f.price \in Nat /\ 100 - f.price \in Nat
  BY <1>1, TradeFields
<1>14. \A p, q \in Nat : (-p) * q = -(p * q)
  OBVIOUS
<1>15. \A p \in Int : 1 * p = p /\ (-1) * p = -p /\ -(-p) = p
  OBVIOUS
<1>16. CASE f.action = "buy"
  <2>1. Normalized(f).side = f.side
    BY <1>16 DEF Normalized
  <2>2. cash'[t] = cash[t] - m
    BY <1>8, <1>12, <1>13, <1>14, <1>16
  <2>3. CASE f.side = "yes"
    <3>1. position'[t] = position[t] + f.qty /\ position[t] >= 0
      BY <1>8, <1>12, <1>13, <1>15, <1>16, <2>1, <2>3
    <3>2. /\ y2 \in Account /\ y2.pnl = y.pnl /\ Len(y2.lots) = Len(y.lots) + f.qty
          /\ SumOf(y2.lots) = SumOf(y.lots) + f.price * f.qty
      BY <1>1, <1>6, <1>16, <2>3, FifoBuy
    <3>3. n2 = n
      BY <1>1, <2>1, <2>3, FifoOther
    <3> HIDE DEF y2, n2
    <3>4. OpenBooks(y2, n, position[t] + f.qty, cash[t] - f.price * f.qty)
      BY <1>1, <1>6, <1>8, <1>9, <1>16, <3>1, <3>2, OpenBuy
    <3>5. QED
      BY <2>2, <3>1, <3>3, <3>4
  <2>4. CASE f.side = "no"
    <3>1. position'[t] = position[t] - f.qty /\ -position[t] >= 0 /\ -position[t] \in Int
      BY <1>8, <1>12, <1>13, <1>15, <1>16, <2>1, <2>4
    <3>2. /\ n2 \in Account /\ n2.pnl = n.pnl /\ Len(n2.lots) = Len(n.lots) + f.qty
          /\ SumOf(n2.lots) = SumOf(n.lots) + f.price * f.qty
      BY <1>1, <1>6, <1>16, <2>4, FifoBuy
    <3>3. y2 = y
      BY <1>1, <2>1, <2>4, FifoOther
    <3> HIDE DEF y2, n2
    <3>4. OpenBooks(n2, y, -position[t] + f.qty, cash[t] - f.price * f.qty)
      BY <1>1, <1>6, <1>8, <1>10, <1>16, <3>1, <3>2, OpenBuy
    <3>5. -position[t] + f.qty = -position'[t] /\ position'[t] \in Int /\ cash'[t] \in Int
      BY <1>8, <1>11, <1>13, <2>2, <3>1
    <3>6. OpenBooks(n2, y, -position'[t], cash'[t])
      BY <2>2, <3>4, <3>5
    <3>7. OpenBooks(y, n2, position'[t], cash'[t])
      BY <1>6, <3>2, <3>5, <3>6, OtherWay
    <3>8. QED
      BY <3>3, <3>7
  <2>5. QED
    BY <1>2, <2>3, <2>4
<1>17. CASE f.action = "sell"
  <2>1. Normalized(f).side = Opposite(f.side)
    BY <1>1, <1>17, NormalizedTrade
  <2>2. cash'[t] = cash[t] + w
    BY <1>12, <1>17
  <2>3. CASE f.side = "no"
    <3>1. Opposite(f.side) = "yes"
      BY <2>3 DEF Opposite
    <3>2. position'[t] = position[t] - f.qty /\ position[t] >= f.qty
      BY <1>8, <1>12, <1>13, <1>15, <1>17, <2>1, <3>1
    <3>3. /\ y2 \in Account
          /\ f.qty <= Len(y.lots) =>
                /\ Len(y2.lots) = Len(y.lots) - f.qty
                /\ y2.pnl - SumOf(y2.lots) = y.pnl - SumOf(y.lots) + (100 - f.price) * f.qty
      BY <1>1, <1>6, <1>17, <3>1, FifoSell
    <3>4. n2 = n
      BY <1>1, <2>1, <3>1, FifoOther
    <3> HIDE DEF y2, n2
    <3>5. OpenBooks(y2, n, position[t] - f.qty, cash[t] + (100 - f.price) * f.qty)
      BY <1>1, <1>6, <1>8, <1>9, <3>2, <3>3, OpenSell
    <3>6. QED
      BY <2>2, <3>2, <3>4, <3>5
  <2>4. CASE f.side = "yes"
    <3>1. Opposite(f.side) = "no"
      BY <2>4 DEF Opposite
    <3>2. position'[t] = position[t] + f.qty /\ -position[t] >= f.qty /\ -position[t] \in Int
      BY <1>8, <1>12, <1>13, <1>15, <1>17, <2>1, <3>1
    <3>3. /\ n2 \in Account
          /\ f.qty <= Len(n.lots) =>
                /\ Len(n2.lots) = Len(n.lots) - f.qty
                /\ n2.pnl - SumOf(n2.lots) = n.pnl - SumOf(n.lots) + (100 - f.price) * f.qty
      BY <1>1, <1>6, <1>17, <3>1, FifoSell
    <3>4. y2 = y
      BY <1>1, <2>1, <3>1, FifoOther
    <3> HIDE DEF y2, n2
    <3>5. OpenBooks(n2, y, -position[t] - f.qty, cash[t] + (100 - f.price) * f.qty)
      BY <1>1, <1>6, <1>8, <1>10, <3>2, <3>3, OpenSell
    <3>6. -position[t] - f.qty = -position'[t] /\ position'[t] \in Int /\ cash'[t] \in Int
      BY <1>8, <1>11, <1>13, <2>2, <3>2
    <3>7. OpenBooks(n2, y, -position'[t], cash'[t])
      BY <2>2, <3>5, <3>6
    <3>8. OpenBooks(y, n2, position'[t], cash'[t])
      BY <1>6, <3>3, <3>6, <3>7, OtherWay
    <3>9. QED
      BY <3>4, <3>8
  <2>5. QED
    BY <1>2, <2>3, <2>4
<1>18. QED
  BY <1>2, <1>16, <1>17

(* ... and to those of the others, and what everything else leaves alone.   *)
LEMMA FillLeavesOthers ==
    ASSUME PortfolioAssumption, LedgerInv, NEW f \in FillKinds, Fill(f),
           NEW t \in Tickers, t # f.ticker
    PROVE  BooksBalance(t)'
<1>1. f \in Trade
  BY DEF PortfolioAssumption, Trade
<1>2. fills \in Seq(Trade) /\ fills' = Append(fills, f) /\ Len(fills) + 1 \in Nat
  BY DEF LedgerInv, ExchangeTyped, Fill
<1>3. TradesOf(t, Nat)' = TradesOf(t, Nat)
  BY <1>1, <1>2, TradesOfNext
<1>4. position'[t] = position[t] /\ cash'[t] = cash[t] /\ result'[t] = result[t]
  BY DEF Fill, LedgerInv, ExchangeTyped
<1>5. \A side : Book(t, side)' = Book(t, side)
  BY <1>3 DEF Book
<1>6. BooksBalance(t)
  BY DEF LedgerInv
<1>7. QED
  BY <1>4, <1>5, <1>6 DEF BooksBalance

LEMMA SameFills ==
    ASSUME fills \in Seq(Trade), fills' = fills
    PROVE  \A t, side : Book(t, side)' = Book(t, side)
<1>1. \A t, ids : TradesOf(t, ids)' = TradesOf(t, ids)
  <2>1. (fills \in Seq(Trade))'
    OBVIOUS
  <2>2. \A t, ids : TradesOf(t, ids)'
                       = Folded(TradesOp(fills', t, ids), <<>>, Indices(fills'), TradeLists)
    BY <2>1, TradesFoldNext
  <2>3. QED
    BY <2>2, TradesFold
<1>2. QED
  BY <1>1 DEF Book

LEMMA SettleKeepsBooks ==
    ASSUME PortfolioAssumption, LedgerInv, NEW u \in Tickers, NEW r \in Results \ {"open"},
           Settle(u, r), NEW t \in Tickers
    PROVE  BooksBalance(t)'
<1>1. fills' = fills /\ fills \in Seq(Trade)
  BY DEF Settle, LedgerInv, ExchangeTyped
<1>2. \A side : Book(t, side)' = Book(t, side)
  BY <1>1, SameFills
<1>3. BooksBalance(t)
  BY DEF LedgerInv
<1>4. CASE t # u
  <2>1. position'[t] = position[t] /\ cash'[t] = cash[t] /\ result'[t] = result[t]
    BY <1>4 DEF Settle, LedgerInv, ExchangeTyped
  <2>2. QED
    BY <1>2, <1>3, <2>1 DEF BooksBalance
<1>5. CASE t = u
  <2> DEFINE y == Book(t, "yes")
             n == Book(t, "no")
             p == position[t]
             side == SideOf(p)
             price == SettlementPrice(r, ScalarValue, side)
  <2>1. /\ position'[t] = 0 /\ result'[t] = r /\ result[t] = "open" /\ p # 0 /\ p \in Int
        /\ cash[t] \in Int /\ r # "open"
        /\ r # "void" => cash'[t] = cash[t] + Size(p) * price
    BY <1>5 DEF Settle, LedgerInv, ExchangeTyped
  <2>2. OpenBooks(y, n, p, cash[t])
    BY <1>3, <2>1 DEF BooksBalance
  <2>3. y \in Account /\ n \in Account
    BY <1>1, BookType
  <2>4. \A s \in {"yes", "no"} : SettlementPrice(r, ScalarValue, s) \in Int
    <3>1. ScalarValue \in Int /\ 100 - ScalarValue \in Int
      BY DEF PortfolioAssumption
    <3>2. QED
      BY <3>1 DEF SettlementPrice
  <2> DEFINE ya == SettlementPrice(r, ScalarValue, "yes")
             na == SettlementPrice(r, ScalarValue, "no")
             goal == cash'[t] = (y.pnl + (ya * Len(y.lots) - SumOf(y.lots)))
                                + (n.pnl + (na * Len(n.lots) - SumOf(n.lots)))
  <2> SUFFICES ASSUME r # "void" PROVE goal
    BY <1>2, <2>1 DEF BooksBalance, Proceeds
  <2> HIDE DEF y, n
  <2>5. /\ y.lots \in Seq(Nat) /\ n.lots \in Seq(Nat) /\ y.pnl \in Int /\ n.pnl \in Int
    BY <2>3 DEF Account
  <2>6. SumOf(y.lots) \in Nat /\ SumOf(n.lots) \in Nat /\ Len(y.lots) \in Nat /\ Len(n.lots) \in Nat
    BY <2>5, SumOfNat
  <2>7. ya \in Int /\ na \in Int
    BY <2>4
  <2>8. /\ cash[t] = (y.pnl - SumOf(y.lots)) + (n.pnl - SumOf(n.lots))
        /\ p = Len(y.lots) - Len(n.lots)
        /\ y.lots = <<>> \/ n.lots = <<>>
    BY <2>2 DEF OpenBooks
  <2>9. Size(p) * price = ya * Len(y.lots) + na * Len(n.lots)
    <3> DEFINE ly == Len(y.lots)
               ln == Len(n.lots)
    <3>1. /\ ly \in Nat /\ ln \in Nat /\ p = ly - ln /\ (ly = 0 \/ ln = 0)
      <4>1. (y.lots = <<>> => ly = 0) /\ (n.lots = <<>> => ln = 0)
        OBVIOUS
      <4>2. QED
        BY <2>6, <2>8, <4>1
    <3> HIDE DEF ly, ln
    <3>2. \A a, b \in Int : a * 0 = 0 /\ a * b = b * a /\ a + 0 = a /\ 0 + a = a
      OBVIOUS
    <3>3. CASE p > 0
      <4>1. ln = 0 /\ ly = p
        BY <3>1, <3>3
      <4>2. Size(p) = p /\ side = "yes"
        BY <3>3 DEF Size, SideOf
      <4>3. Size(p) * price = ya * ly
        BY <2>1, <2>7, <3>2, <4>1, <4>2
      <4>4. ya * ly \in Int /\ na * ln = 0
        BY <2>7, <3>1, <3>2, <4>1
      <4>5. QED
        BY <3>2, <4>3, <4>4 DEF ly, ln
    <3>4. CASE ~(p > 0)
      <4>1. ly = 0 /\ ln = -p
        BY <2>1, <3>1, <3>4
      <4>2. Size(p) = -p /\ side = "no"
        BY <3>4 DEF Size, SideOf
      <4>3. Size(p) * price = na * ln
        BY <2>1, <2>7, <3>2, <4>1, <4>2
      <4>4. na * ln \in Int /\ ya * ly = 0
        BY <2>7, <3>1, <3>2, <4>1
      <4>5. QED
        BY <3>2, <4>3, <4>4 DEF ly, ln
    <3>5. QED
      BY <3>3, <3>4
  <2> DEFINE a == ya * Len(y.lots)
             b == na * Len(n.lots)
             c == SumOf(y.lots)
             d == SumOf(n.lots)
             e == Size(p) * price
  <2>10. a \in Int /\ b \in Int /\ c \in Int /\ d \in Int
    BY <2>6, <2>7, SMTT(40)
  <2>11. cash'[t] = cash[t] + e /\ e = a + b /\ cash[t] = (y.pnl - c) + (n.pnl - d)
    BY <2>1, <2>8, <2>9
  <2> HIDE DEF a, b, c, d, e
  <2>12. cash'[t] = (y.pnl + (a - c)) + (n.pnl + (b - d))
    BY <2>5, <2>10, <2>11
  <2>13. QED
    BY <2>12 DEF a, b, c, d
<1>6. QED
  BY <1>4, <1>5

LEMMA TypedNext ==
    ASSUME PortfolioAssumption, ExchangeTyped,
           \/ \E f \in FillKinds : Fill(f)
           \/ \E t \in Tickers, r \in Results \ {"open"} : Settle(t, r)
           \/ UNCHANGED exchange
    PROVE  ExchangeTyped'
<1>1. CASE UNCHANGED exchange
  BY <1>1 DEF ExchangeTyped, exchange
<1>2. ASSUME NEW f \in FillKinds, Fill(f)
      PROVE  ExchangeTyped'
  <2>1. f \in Trade
    BY DEF PortfolioAssumption, Trade
  <2>2. fills' \in Seq(Trade)
    BY <1>2, <2>1 DEF Fill, ExchangeTyped
  <2>3. f.qty \in Nat /\ f.price \in Nat /\ f.ticker \in Tickers
    BY <2>1, TradeFields
  <2> DEFINE s == IF Normalized(f).side = "yes" THEN 1 ELSE -1
             q == IF f.action = "buy" THEN f.qty ELSE -f.qty
             v == IF f.action = "buy" THEN -f.price ELSE 100 - f.price
             m == s * q
             w == v * f.qty
  <2>4. m \in Int /\ w \in Int
    <3>1. s \in Int /\ q \in Int /\ v \in Int /\ f.qty \in Int
      BY <2>3
    <3> HIDE DEF s, q, v
    <3>2. QED
      BY <3>1
  <2>5. position' = [position EXCEPT ![f.ticker] = @ + m] /\ cash' = [cash EXCEPT ![f.ticker] = @ + w]
    BY <1>2 DEF Fill
  <2> HIDE DEF m, w
  <2>6. position' \in [Tickers -> Int] /\ cash' \in [Tickers -> Int]
    BY <2>3, <2>4, <2>5 DEF ExchangeTyped
  <2>7. result' = result
    BY <1>2 DEF Fill
  <2>8. QED
    BY <2>2, <2>6, <2>7 DEF ExchangeTyped
<1>3. ASSUME NEW t \in Tickers, NEW r \in Results \ {"open"}, Settle(t, r)
      PROVE  ExchangeTyped'
  <2> DEFINE w == IF r = "void" THEN 0
                  ELSE Size(position[t]) * SettlementPrice(r, ScalarValue, SideOf(position[t]))
  <2>1. w \in Int
    <3>1. Size(position[t]) \in Int
      BY DEF Size, ExchangeTyped
    <3>2. SettlementPrice(r, ScalarValue, SideOf(position[t])) \in Int
      <4>1. ScalarValue \in Int /\ 100 - ScalarValue \in Int
        BY DEF PortfolioAssumption
      <4>2. QED
        BY <4>1 DEF SettlementPrice
    <3>3. QED
      BY <3>1, <3>2
  <2>2. /\ cash' = [cash EXCEPT ![t] = @ + w] /\ position' = [position EXCEPT ![t] = 0]
        /\ result' = [result EXCEPT ![t] = r] /\ fills' = fills
    BY <1>3 DEF Settle
  <2> HIDE DEF w
  <2>3. QED
    BY <2>1, <2>2 DEF ExchangeTyped
<1>4. QED
  BY <1>1, <1>2, <1>3

LEMMA LedgerStep ==
    ASSUME PortfolioAssumption, LedgerInv,
           \/ \E f \in FillKinds : Fill(f)
           \/ \E t \in Tickers, r \in Results \ {"open"} : Settle(t, r)
           \/ UNCHANGED exchange
    PROVE  LedgerInv'
<1>1. ExchangeTyped'
  BY TypedNext DEF LedgerInv
<1> SUFFICES ASSUME NEW t \in Tickers PROVE BooksBalance(t)'
  BY <1>1 DEF LedgerInv
<1>2. CASE UNCHANGED exchange
  <2>1. \A side : Book(t, side)' = Book(t, side)
    BY <1>2, SameFills DEF exchange, LedgerInv, ExchangeTyped
  <2>2. BooksBalance(t)
    BY DEF LedgerInv
  <2>3. QED
    BY <1>2, <2>1, <2>2 DEF BooksBalance, exchange
<1>3. ASSUME NEW f \in FillKinds, Fill(f)
      PROVE  BooksBalance(t)'
  BY <1>3, FillKeepsBooks, FillLeavesOthers
<1>4. ASSUME NEW u \in Tickers, NEW r \in Results \ {"open"}, Settle(u, r)
      PROVE  BooksBalance(t)'
  BY <1>4, SettleKeepsBooks
<1>5. QED
  BY <1>2, <1>3, <1>4

LEMMA LedgerInit ==
    ASSUME PortfolioAssumption, SyncInit
    PROVE  LedgerInv
<1>1. fills = <<>> /\ ExchangeTyped
  BY DEF SyncInit, ExchangeTyped, Results
<1> SUFFICES ASSUME NEW t \in Tickers PROVE BooksBalance(t)
  BY <1>1 DEF LedgerInv
<1>2. TradesOf(t, Nat) = <<>>
  BY <1>1, TradesOfNone
<1>3. \A side : Book(t, side) = NoLots
  <2> SUFFICES ASSUME NEW side PROVE Fifo(<<>>, side) = NoLots
    BY <1>2 DEF Book
  <2>1. QED
    BY FifoNone
<1>4. result[t] = "open" /\ position[t] = 0 /\ cash[t] = 0
  BY DEF SyncInit
<1>5. OpenBooks(NoLots, NoLots, 0, 0)
  BY SumOfNone DEF OpenBooks, NoLots
<1>6. QED
  BY <1>3, <1>4, <1>5 DEF BooksBalance

(* The steps of a sync leave the exchange alone.                            *)
LEMMA ExchangeMoves ==
    ASSUME [SyncNext]_syncVars
    PROVE  \/ \E f \in FillKinds : Fill(f)
           \/ \E t \in Tickers, r \in Results \ {"open"} : Settle(t, r)
           \/ UNCHANGED exchange
<1>1. CASE UNCHANGED syncVars
  BY <1>1 DEF syncVars
<1>2. ASSUME NEW p \in Procs, SyncStep(p)
      PROVE  UNCHANGED exchange
  BY <1>2 DEF SyncStep, FetchFills, ReadTrades, InsertTrades, FetchSettlements, ReadSettlements,
        InsertSettlements, FetchPositions, ReadRows, WriteRows, ReadOpen, WriteMarks, Go, GiveUp,
        Finish
<1>3. ASSUME NEW p \in Procs, BeginSync(p) \/ Abort(p)
      PROVE  UNCHANGED exchange
  BY <1>3 DEF BeginSync, Abort, GiveUp, Go
<1>4. QED
  BY <1>1, <1>2, <1>3 DEF SyncNext

LEMMA LedgerInvAlways == SyncSpec => []LedgerInv
<1>1. SyncInit => LedgerInv
  BY LedgerInit, PortfolioAssumption
<1>2. LedgerInv /\ [SyncNext]_syncVars => LedgerInv'
  BY LedgerStep, ExchangeMoves, PortfolioAssumption
<1>3. QED
  BY <1>1, <1>2, PTL DEF SyncSpec

LEMMA LedgerGivesProfit == LedgerInv => ProfitIsCash
<1> SUFFICES ASSUME LedgerInv, NEW t \in Tickers,
                    position[t] = 0,
                    \A i \in 1..Len(fills) : fills[i].ticker = t => i \in trades,
                    result[t] # "open" => t \in settlements,
                    result[t] # "void"
             PROVE  Realized(TradesOf(t, trades), t \in settlements, result[t], ScalarValue) = cash[t]
  BY DEF ProfitIsCash
<1>1. fills \in Seq(Trade) /\ result[t] \in Results /\ BooksBalance(t)
  BY DEF LedgerInv, ExchangeTyped
<1>2. TradesOf(t, trades) = TradesOf(t, Nat)
  <2>1. \A i \in 1..Len(fills) : fills[i].ticker = t => (i \in trades <=> i \in Nat)
    BY <1>1
  <2>2. QED
    BY <1>1, <2>1, TradesOfSame
<1> DEFINE y == Book(t, "yes")
           n == Book(t, "no")
<1>3. y \in Account /\ n \in Account
  BY <1>1, BookType
<1>4. y = Fifo(TradesOf(t, trades), "yes") /\ n = Fifo(TradesOf(t, trades), "no")
  BY <1>2 DEF Book
<1>5. /\ y.lots \in Seq(Nat) /\ n.lots \in Seq(Nat) /\ y.pnl \in Int /\ n.pnl \in Int
  BY <1>3 DEF Account
<1>6. CASE result[t] = "open"
  <2>1. OpenBooks(y, n, 0, cash[t])
    BY <1>1, <1>6 DEF BooksBalance
  <2>2. Realized(TradesOf(t, trades), t \in settlements, result[t], ScalarValue)
          = (y.pnl + 0) + (n.pnl + 0)
    BY <1>4, <1>6 DEF Realized
  <2> HIDE DEF y, n
  <2>3. y.lots = <<>> /\ n.lots = <<>>
    <3>1. Len(y.lots) = 0 => y.lots = <<>>
      BY <1>5
    <3>2. Len(n.lots) = 0 => n.lots = <<>>
      BY <1>5
    <3>3. Len(y.lots) = Len(n.lots)
      BY <1>5, <2>1 DEF OpenBooks
    <3>4. Len(y.lots) = 0 \/ Len(n.lots) = 0
      BY <2>1 DEF OpenBooks
    <3>5. QED
      BY <3>1, <3>2, <3>3, <3>4
  <2>4. cash[t] = (y.pnl - 0) + (n.pnl - 0)
    BY <2>1, <2>3, SumOfNone DEF OpenBooks
  <2>5. QED
    BY <1>5, <2>2, <2>4
<1>7. CASE result[t] # "open"
  <2>1. t \in settlements /\ result[t] \in {"yes", "no", "scalar"}
    BY <1>1, <1>7 DEF Results
  <2>2. cash[t] = Proceeds(y, result[t], "yes") + Proceeds(n, result[t], "no")
    BY <1>1, <1>7 DEF BooksBalance
  <2>3. Realized(TradesOf(t, trades), t \in settlements, result[t], ScalarValue)
          = Proceeds(y, result[t], "yes") + Proceeds(n, result[t], "no")
    BY <1>4, <2>1 DEF Realized, Proceeds
  <2>4. QED
    BY <2>2, <2>3
<1>8. QED
  BY <1>6, <1>7

(* The profit of a market out of which the account is, by trades or by its  *)
(* settlement, is the cash it brought (_fifo.py, pnl.py, _settlements.py).  *)
THEOREM ProfitMatchesCash == SyncSpec => []ProfitIsCash
  BY LedgerInvAlways, LedgerGivesProfit, PTL

-----------------------------------------------------------------------------
Stages == {"idle", "fills", "trades", "insert", "settlements", "keys", "settle", "positions",
           "rows", "write", "marks", "quotes"}

Things == Nat \cup Tickers

Runs == [pc : Stages, oldest : Nat, got : SUBSET Things, twice : SUBSET Things,
         known : SUBSET Things, pos : [Tickers -> Int], read : Seq(Rows), ids : SUBSET Nat,
         lone : BOOLEAN]

(* What is found, known and read at each stage of a run.                    *)
Staged(p) ==
    LET r == run[p] IN
    /\ r.twice \subseteq r.got /\ r.ids \subseteq 1..Len(r.read)
    /\ r.pc = "fills" => r.oldest <= Len(fills)
    /\ r.pc \in {"fills", "trades", "insert"} => r.got \subseteq 1..Len(fills)
    /\ r.pc \in {"keys", "settle"} => r.got \subseteq Settled
    /\ r.pc \notin {"fills", "trades", "insert"} => r.twice = {}
    /\ r.pc = "settlements" => r.got = {}
    /\ r.pc = "write" => r.ids = {i \in 1..Len(r.read) : ~r.read[i].closed}
    /\ r.pc = "quotes" => r.ids = {i \in 1..Len(r.read) : r.read[i].qty > 0 /\ ~r.read[i].closed}

Filled == {"settlements", "keys", "settle", "positions", "rows", "write", "marks", "quotes"}
Paid   == {"positions", "rows", "write", "marks", "quotes"}

Stored(t) == TradesOf(t, trades)

(* The open row of a market is what the exchange and the trades say.        *)
RowRight(t) ==
    IF position[t] = 0 THEN OpenRows(t) = {}
    ELSE \E i \in 1..Len(rows) :
            /\ OpenRows(t) = {i}
            /\ rows[i].qty = Size(position[t])
            /\ rows[i].side = SideOf(position[t])
            /\ rows[i].avg = CostBasis(Stored(t), SideOf(position[t]))

(* The table shows the positions of the exchange, each in one open row.      *)
RowsRight == \A t \in Tickers : RowRight(t)

OneRowEach == \A t \in Tickers : \A i, j \in OpenRows(t) : i = j

(* A run that nothing overlaps: what it has done is right.                  *)
LoneRight(p) ==
    LET r == run[p] IN
    /\ r.pc = "fills" => \/ r.oldest = 0 /\ r.got = {}
                         \/ r.oldest \in 2..Len(fills) /\ r.got = r.oldest..Len(fills)
    /\ r.pc \in {"trades", "insert"} => r.got = 1..Len(fills)
    /\ r.pc = "insert" => r.known = trades
    /\ r.pc \in Filled => trades = 1..Len(fills)
    /\ r.pc \in {"keys", "settle"} => r.got = Settled
    /\ r.pc = "settle" => r.known = settlements
    /\ r.pc \in Paid => settlements = Settled
    /\ r.pc \in {"rows", "write"} => r.pos = position
    /\ r.pc \in {"write", "quotes"} => r.read = rows
    /\ r.pc \notin {"marks", "quotes"} => OneRowEach
    /\ r.pc \in {"marks", "quotes"} => RowsRight

Shown(row) ==
    row.avg > 0 => row.mark \in Quotes /\ row.unrealized = (row.mark - row.avg) * row.qty

SameKeys(list, other) ==
    /\ Len(list) = Len(other)
    /\ \A i \in 1..Len(list) :
          /\ list[i].ticker = other[i].ticker /\ list[i].side = other[i].side
          /\ list[i].qty = other[i].qty /\ list[i].avg = other[i].avg
          /\ list[i].closed = other[i].closed

(* A run of a database that already is right has read the same.             *)
InStep(p) ==
    LET r == run[p] IN
    /\ r.pc = "insert" => r.known = 1..Len(fills)
    /\ r.pc = "settle" => r.known = Settled
    /\ r.pc \in {"rows", "write"} => r.pos = position
    /\ r.pc \in {"write", "quotes"} => SameKeys(r.read, rows)
    /\ r.pc = "quotes" => \A i \in r.ids : r.read[i].ticker \in fresh => Shown(r.read[i])

(* What a lone sync established and nothing that follows may undo.           *)
Kept ==
    /\ trades = 1..Len(fills) /\ settlements = Settled
    /\ RowsRight
    /\ \A t \in fresh : \A i \in OpenRows(t) : Shown(rows[i])

(* Who will insert a row for t, and the rows there are.                     *)
Inserting(t) == {p \in Procs : run[p].pc = "write" /\ Existing(run[p], t) = 0}

HeldRows(t) == {i \in OpenRows(t) : rows[i].qty > 0}

(* A market's rows that hold something, and those about to be inserted, are  *)
(* no more than the processes; a row without contracts stands alone.         *)
RowsFew ==
    /\ \A t \in Tickers : Cardinality(HeldRows(t)) + Cardinality(Inserting(t)) <= Cardinality(Procs)
    /\ \A i \in 1..Len(rows) : ~rows[i].closed /\ rows[i].qty = 0 =>
          /\ Len(rows) = 1
          /\ \A p \in Procs : run[p].pc = "write" =>
                Len(run[p].read) = 1 /\ run[p].read[1].qty = 0 /\ ~run[p].read[1].closed

TablesTyped ==
    /\ fills \in Seq(FillKinds)
    /\ position \in [Tickers -> Int] /\ cash \in [Tickers -> Int]
    /\ result \in [Tickers -> Results]
    /\ trades \subseteq 1..Len(fills)
    /\ settlements \subseteq Settled
    /\ rows \in Seq(Rows)
    /\ syncs \in 0..MaxSyncs
    /\ synced \in BOOLEAN /\ fresh \subseteq Tickers
    /\ run \in [Procs -> Runs]

(* The inductive invariant of the tables.                                    *)
SyncInv ==
    /\ TablesTyped
    /\ \A p \in Procs : Staged(p)
    /\ \A p \in Procs : run[p].lone => LoneRight(p) /\ run[p].pc # "idle"
                                       /\ \A q \in Procs \ {p} : run[q].pc = "idle"
    /\ synced => Kept /\ \A p \in Procs : InStep(p)
    /\ ~synced => fresh = {}
    /\ RowsFew

-----------------------------------------------------------------------------
Columns == {"ticker", "side", "qty", "avg", "mark", "unrealized", "closed"}

(* An UPDATE sets the columns whose new value is not the one read.          *)
LEMMA PutColumns ==
    ASSUME NEW old \in Rows, NEW read \in Rows, NEW new \in Rows
    PROVE  /\ Put(old, read, new) \in Rows
           /\ \A c \in Columns : Put(old, read, new)[c] = IF new[c] = read[c] THEN old[c] ELSE new[c]
<1>1. DOMAIN old = Columns
  BY DEF Rows, Columns
<1>2. Put(old, read, new) = [c \in Columns |-> IF new[c] = read[c] THEN old[c] ELSE new[c]]
  BY <1>1 DEF Put
<1>3. \A c \in Columns : Put(old, read, new)[c] = IF new[c] = read[c] THEN old[c] ELSE new[c]
  BY <1>2
<1> DEFINE x == [c \in Columns |-> IF new[c] = read[c] THEN old[c] ELSE new[c]]
           y == [ticker |-> x["ticker"], side |-> x["side"], qty |-> x["qty"], avg |-> x["avg"],
                 mark |-> x["mark"], unrealized |-> x["unrealized"], closed |-> x["closed"]]
<1>4. y \in Rows
  BY DEF Rows, Columns
<1>5. x = y
  BY DEF Columns
<1>6. QED
  BY <1>2, <1>3, <1>4, <1>5

LEMMA SetMaxIs ==
    ASSUME NEW n \in Nat, NEW s \in SUBSET (1..n), s # {}
    PROVE  SetMax(s) \in s /\ SetMax(s) # 0
<1> DEFINE N == {n - y : y \in s}
<1>1. N \in SUBSET Nat /\ N # {}
  <2>1. \A y \in s : n - y \in Nat
    OBVIOUS
  <2>2. QED
    BY <2>1
<1>2. PICK m \in N : \A k \in N : m <= k
  BY <1>1, LeastNatural
<1>3. PICK x \in s : m = n - x
  OBVIOUS
<1>4. \A y \in s : y <= x
  <2> SUFFICES ASSUME NEW y \in s PROVE y <= x
    OBVIOUS
  <2>1. n - y \in N /\ x \in Int /\ y \in Int
    OBVIOUS
  <2>2. n - x <= n - y
    BY <1>2, <1>3, <2>1
  <2>3. QED
    BY <2>1, <2>2
<1>5. SetMax(s) \in s
  BY <1>4 DEF SetMax
<1>6. QED
  BY <1>5

LEMMA ExistingIs ==
    ASSUME NEW r \in Runs, r.ids \subseteq 1..Len(r.read), NEW t
    PROVE  /\ Existing(r, t) = 0 <=> ~\E i \in r.ids : r.read[i].ticker = t /\ r.read[i].qty > 0
           /\ Existing(r, t) # 0 =>
                 /\ Existing(r, t) \in r.ids
                 /\ r.read[Existing(r, t)].ticker = t /\ r.read[Existing(r, t)].qty > 0
<1> DEFINE s == {i \in r.ids : r.read[i].ticker = t /\ r.read[i].qty > 0}
<1>1. r.read \in Seq(Rows)
  BY DEF Runs
<1>2. Len(r.read) \in Nat /\ s \in SUBSET (1..Len(r.read))
  BY <1>1
<1>3. s # {} => SetMax(s) \in s /\ SetMax(s) # 0
  BY <1>2, SetMaxIs
<1>4. Existing(r, t) = IF s = {} THEN 0 ELSE SetMax(s)
  BY DEF Existing
<1>5. QED
  BY <1>3, <1>4

LEMMA SetToSeqIs ==
    ASSUME NEW S, IsFiniteSet(S)
    PROVE  /\ SetToSeq(S) \in Seq(S) /\ Len(SetToSeq(S)) = Cardinality(S)
           /\ \A i, j \in 1..Cardinality(S) : SetToSeq(S)[i] = SetToSeq(S)[j] => i = j
           /\ \A x \in S : \E i \in 1..Cardinality(S) : SetToSeq(S)[i] = x
<1> DEFINE n == Cardinality(S)
<1>1. n \in Nat /\ ExistsBijection(1..n, S)
  BY FS_CardinalityType
<1>2. PICK g \in [1..n -> S] : IsInjective(g)
  <2>1. PICK g \in Bijection(1..n, S) : TRUE
    BY <1>1 DEF ExistsBijection
  <2>2. g \in [1..n -> S] /\ IsInjective(g)
    BY <2>1 DEF Bijection, Injection, IsInjective
  <2>3. QED
    BY <2>2
<1> DEFINE f == CHOOSE h \in [1..n -> S] : IsInjective(h)
<1>3. f \in [1..n -> S] /\ IsInjective(f)
  BY <1>2
<1>4. f = SetToSeq(S)
  BY DEF SetToSeq
<1> HIDE DEF f
<1>5. f \in Seq(S) /\ Len(f) = n
  BY <1>1, <1>3
<1>6. \A i, j \in 1..n : f[i] = f[j] => i = j
  BY <1>3 DEF IsInjective
<1>7. f \in Injection(1..n, S)
  BY <1>3, <1>6 DEF Injection, IsInjective
<1>8. IsFiniteSet(1..n) /\ Cardinality(1..n) = n
  BY <1>1, FS_Interval
<1>9. f \in Surjection(1..n, S)
  BY <1>7, <1>8, FS_Injection
<1>10. \A x \in S : \E i \in 1..n : f[i] = x
  BY <1>9 DEF Surjection
<1>11. QED
  BY <1>4, <1>5, <1>6, <1>10

LEMMA FillsAreTrades ==
    ASSUME PortfolioAssumption, fills \in Seq(FillKinds)
    PROVE  fills \in Seq(Trade)
<1>1. FillKinds \subseteq Trade
  BY DEF PortfolioAssumption, Trade
<1>2. QED
  BY <1>1

Basis(t, side) == CostBasis(Stored(t), side)

LEMMA BasisNat ==
    ASSUME PortfolioAssumption, fills \in Seq(FillKinds)
    PROVE  \A t, side : Basis(t, side) \in Nat
<1> SUFFICES ASSUME NEW t, NEW side PROVE Basis(t, side) \in Nat
  OBVIOUS
<1>1. TradesOf(t, trades) \in Seq(Trade)
  BY FillsAreTrades, TradesOfType
<1>2. QED
  BY <1>1, CostBasisNat DEF Basis, Stored

(* What sync_positions makes of a row: it is left, closed, or updated.      *)
ClosedOf(r, i) ==
    i \in r.ids /\ (r.read[i].qty = 0
                    \/ (i = Existing(r, r.read[i].ticker) /\ r.pos[r.read[i].ticker] = 0))

UpdatedOf(r, i) ==
    /\ i \in r.ids /\ r.read[i].qty # 0 /\ i = Existing(r, r.read[i].ticker)
    /\ r.pos[r.read[i].ticker] # 0

LEMMA RevisedIs ==
    ASSUME PortfolioAssumption, fills \in Seq(FillKinds), NEW r \in Runs, NEW i \in 1..Len(r.read)
    PROVE  LET row == r.read[i]
               new == Revised(r, i)
               n   == r.pos[row.ticker]
           IN  /\ row \in Rows /\ new \in Rows /\ n \in Int
               /\ new.ticker = row.ticker /\ new.mark = row.mark /\ new.unrealized = row.unrealized
               /\ ClosedOf(r, i) => new.closed = TRUE /\ new.qty = 0 /\ new.side = row.side /\ new.avg = row.avg
               /\ UpdatedOf(r, i) => /\ new.closed = row.closed /\ new.qty = Size(n) /\ new.side = SideOf(n)
                                     /\ new.avg = Basis(row.ticker, SideOf(n))
               /\ ~ClosedOf(r, i) /\ ~UpdatedOf(r, i) => new = row
<1> DEFINE row == r.read[i]
           n == r.pos[row.ticker]
           b == Basis(row.ticker, SideOf(n))
           up == [row EXCEPT !.qty = Size(n), !.side = SideOf(n), !.avg = b]
<1>1. r.read \in Seq(Rows) /\ r.pos \in [Tickers -> Int]
  BY DEF Runs
<1>2. row \in Rows
  BY <1>1
<1> HIDE DEF row
<1>3. row.ticker \in Tickers /\ row.qty \in Nat
  BY <1>2 DEF Rows
<1>4. n \in Int
  BY <1>1, <1>3
<1>5. b \in Nat
  BY BasisNat
<1>6. Size(n) \in Nat /\ SideOf(n) \in {"yes", "no"}
  BY <1>4 DEF Size, SideOf
<1> HIDE DEF n, b
<1>7. /\ up \in Rows /\ up.ticker = row.ticker /\ up.mark = row.mark /\ up.unrealized = row.unrealized
      /\ up.closed = row.closed /\ up.qty = Size(n) /\ up.side = SideOf(n) /\ up.avg = b
  BY <1>2, <1>5, <1>6 DEF Rows
<1>8. LET c == Closed(row)
      IN  /\ c \in Rows /\ c.ticker = row.ticker /\ c.mark = row.mark /\ c.unrealized = row.unrealized
          /\ c.closed = TRUE /\ c.qty = 0 /\ c.side = row.side /\ c.avg = row.avg
  BY <1>2 DEF Rows, Closed
<1>9. Revised(r, i) = IF i \notin r.ids THEN row
                      ELSE IF row.qty <= 0 THEN Closed(row)
                      ELSE IF i # Existing(r, row.ticker) THEN row
                      ELSE IF n = 0 THEN Closed(row)
                      ELSE up
  BY DEF Revised, row, n, b, Basis, Stored
<1> HIDE DEF up
<1>10. row.qty <= 0 <=> row.qty = 0
  BY <1>3
<1>11. ClosedOf(r, i) => Revised(r, i) = Closed(row)
  BY <1>9, <1>10 DEF ClosedOf, row, n
<1>12. UpdatedOf(r, i) => Revised(r, i) = up
  BY <1>9, <1>10 DEF UpdatedOf, row, n
<1>13. ~ClosedOf(r, i) /\ ~UpdatedOf(r, i) => Revised(r, i) = row
  BY <1>9, <1>10 DEF ClosedOf, UpdatedOf, row, n
<1>14. Revised(r, i) \in {row, Closed(row), up}
  BY <1>9
<1>15. QED
  BY <1>2, <1>4, <1>7, <1>8, <1>11, <1>12, <1>13, <1>14 DEF row, n, b

-----------------------------------------------------------------------------
Missing(r) == {t \in Tickers : r.pos[t] # 0 /\ Existing(r, t) = 0}

Inserted(r, t) == Row(t, SideOf(r.pos[t]), Size(r.pos[t]), Basis(t, SideOf(r.pos[t])))

LEMMA InsertedIs ==
    ASSUME PortfolioAssumption, fills \in Seq(FillKinds), NEW r \in Runs, NEW t \in Missing(r)
    PROVE  LET row == Inserted(r, t)
           IN  /\ row \in Rows /\ row.ticker = t /\ row.qty = Size(r.pos[t]) /\ row.qty # 0
               /\ row.side = SideOf(r.pos[t]) /\ row.avg = Basis(t, SideOf(r.pos[t]))
               /\ row.closed = FALSE
<1> DEFINE n == r.pos[t]
           b == Basis(t, SideOf(n))
<1>1. r.pos \in [Tickers -> Int] /\ t \in Tickers /\ n # 0
  BY DEF Runs, Missing
<1>2. n \in Int
  BY <1>1
<1>3. b \in Nat
  BY BasisNat
<1> HIDE DEF n, b
<1>4. Size(n) \in Nat /\ Size(n) # 0 /\ SideOf(n) \in {"yes", "no"}
  BY <1>1, <1>2 DEF Size, SideOf
<1>5. LET row == Row(t, SideOf(n), Size(n), b)
      IN  /\ row \in Rows /\ row.ticker = t /\ row.qty = Size(n) /\ row.side = SideOf(n)
          /\ row.avg = b /\ row.closed = FALSE
  BY <1>1, <1>3, <1>4 DEF Row, Rows
<1>6. Inserted(r, t) = Row(t, SideOf(n), Size(n), b)
  BY DEF Inserted, n, b
<1>7. QED
  BY <1>4, <1>5, <1>6 DEF n, b

(* The table after sync_positions has written.                              *)
Updated(r, i) == IF i <= Len(r.read) THEN Put(rows[i], r.read[i], Revised(r, i)) ELSE rows[i]

Written(r, list) ==
    LET n == Len(rows)
        c == Cardinality(Missing(r))
    IN  /\ list \in Seq(Rows) /\ n \in Nat /\ c \in Nat /\ Len(list) = n + c
        /\ \A i \in 1..n : list[i] = Updated(r, i)
        /\ \A i \in (n + 1)..(n + c) : \E t \in Missing(r) : list[i] = Inserted(r, t)
        /\ \A t \in Missing(r) : \E i \in (n + 1)..(n + c) : list[i].ticker = t
        /\ \A i, j \in (n + 1)..(n + c) : list[i].ticker = list[j].ticker => i = j

LEMMA UpdatedTyped ==
    ASSUME PortfolioAssumption, TablesTyped, NEW r \in Runs, NEW i \in 1..Len(rows)
    PROVE  Updated(r, i) \in Rows
<1>1. rows[i] \in Rows
  BY DEF TablesTyped
<1>2. CASE i <= Len(r.read)
  <2>1. i \in 1..Len(r.read)
    <3>1. r.read \in Seq(Rows)
      BY DEF Runs
    <3>2. QED
      BY <1>2, <3>1
  <2>2. r.read[i] \in Rows /\ Revised(r, i) \in Rows
    BY <2>1, RevisedIs DEF TablesTyped
  <2>3. QED
    BY <1>1, <1>2, <2>2, PutColumns DEF Updated
<1>3. CASE ~(i <= Len(r.read))
  BY <1>1, <1>3 DEF Updated
<1>4. QED
  BY <1>2, <1>3

LEMMA RowsWritten ==
    ASSUME PortfolioAssumption, TablesTyped, NEW p \in Procs, WriteRows(p)
    PROVE  Written(run[p], rows')
<1> DEFINE r == run[p]
           S == Missing(r)
           n == Len(rows)
           c == Cardinality(S)
           new == SetToSeq(S)
           kept == [i \in 1..n |-> Updated(r, i)]
           more == [k \in 1..Len(new) |-> Inserted(r, new[k])]
<1>1. r \in Runs /\ rows \in Seq(Rows) /\ n \in Nat
  BY DEF TablesTyped
<1>2. rows' = kept \o more
  <2>1. {t \in {u \in Tickers : r.pos[u] # 0} : Existing(r, t) = 0} = S
    BY DEF Missing
  <2>2. QED
    BY <2>1 DEF WriteRows, Updated, Inserted, Basis, Stored
<1>3. IsFiniteSet(S) /\ c \in Nat
  BY FS_Subset, FS_CardinalityType DEF PortfolioAssumption, Missing
<1>4. /\ new \in Seq(S) /\ Len(new) = c
      /\ \A i, j \in 1..c : new[i] = new[j] => i = j
      /\ \A t \in S : \E i \in 1..c : new[i] = t
  BY <1>3, SetToSeqIs
<1> HIDE DEF r, S, c, new
<1>5. \A k \in 1..c : new[k] \in S
  BY <1>3, <1>4
<1>6. \A t \in S : Inserted(r, t) \in Rows /\ Inserted(r, t).ticker = t
  BY <1>1, InsertedIs DEF TablesTyped, S
<1>7. kept \in Seq(Rows) /\ Len(kept) = n /\ \A i \in 1..n : kept[i] = Updated(r, i)
  <2>1. \A i \in 1..n : Updated(r, i) \in Rows
    BY <1>1, UpdatedTyped
  <2>2. QED
    BY <1>1, <2>1
<1>8. more \in Seq(Rows) /\ Len(more) = c /\ \A k \in 1..c : more[k] = Inserted(r, new[k])
  <2>1. \A k \in 1..c : Inserted(r, new[k]) \in Rows
    BY <1>5, <1>6
  <2>2. QED
    BY <1>3, <1>4, <2>1
<1> HIDE DEF kept, more, n
<1>9. /\ rows' \in Seq(Rows) /\ Len(rows') = n + c
      /\ \A i \in 1..n : rows'[i] = kept[i]
      /\ \A k \in 1..c : rows'[n + k] = more[k]
  BY <1>1, <1>2, <1>3, <1>7, <1>8, SMTT(40)
<1>10. \A i \in (n + 1)..(n + c) : i - n \in 1..c /\ rows'[i] = Inserted(r, new[i - n])
                                    /\ rows'[i].ticker = new[i - n]
  <2> SUFFICES ASSUME NEW i \in (n + 1)..(n + c)
               PROVE  i - n \in 1..c /\ rows'[i] = Inserted(r, new[i - n])
                      /\ rows'[i].ticker = new[i - n]
    OBVIOUS
  <2>1. i - n \in 1..c /\ n + (i - n) = i
    BY <1>1, <1>3
  <2>2. rows'[n + (i - n)] = Inserted(r, new[i - n])
    BY <1>8, <1>9, <2>1
  <2>3. new[i - n] \in S
    BY <1>5, <2>1
  <2>4. QED
    BY <1>6, <2>1, <2>2, <2>3
<1>11. \A i \in (n + 1)..(n + c) : \E t \in S : rows'[i] = Inserted(r, t)
  BY <1>5, <1>10
<1>12. ASSUME NEW t \in S
       PROVE  \E i \in (n + 1)..(n + c) : rows'[i].ticker = t
  <2>1. PICK k \in 1..c : new[k] = t
    BY <1>4
  <2>2. n + k \in (n + 1)..(n + c) /\ (n + k) - n = k
    BY <1>1, <1>3
  <2>3. rows'[n + k].ticker = new[k]
    BY <1>10, <2>2
  <2>4. QED
    BY <2>1, <2>2, <2>3
<1>13. ASSUME NEW i \in (n + 1)..(n + c), NEW j \in (n + 1)..(n + c),
              rows'[i].ticker = rows'[j].ticker
       PROVE  i = j
  <2>1. i - n \in 1..c /\ j - n \in 1..c /\ new[i - n] = new[j - n]
    BY <1>10, <1>13
  <2>2. i - n = j - n
    BY <1>4, <2>1
  <2>3. QED
    BY <1>1, <1>3, <2>2
<1>14. QED
  BY <1>1, <1>3, <1>7, <1>9, <1>11, <1>12, <1>13 DEF Written, n, c, S, r

-----------------------------------------------------------------------------
LEMMA StoredFold ==
    fills \in Seq(Trade) =>
        \A t : Stored(t) = Folded(TradesOp(fills, t, trades), <<>>, Indices(fills), TradeLists)
  BY TradesFold DEF Stored

LEMMA StoredFoldNext ==
    (fills \in Seq(Trade))' =>
        (\A t : Stored(t) = Folded(TradesOp(fills, t, trades), <<>>, Indices(fills), TradeLists))'
  BY StoredFold, PTL

LEMMA StoredSame ==
    ASSUME fills \in Seq(Trade), fills' = fills, trades' = trades
    PROVE  \A t : Stored(t)' = Stored(t)
<1>1. (fills \in Seq(Trade))'
  OBVIOUS
<1>2. \A t : Stored(t)' = Folded(TradesOp(fills', t, trades'), <<>>, Indices(fills'), TradeLists)
  BY <1>1, StoredFoldNext
<1>3. QED
  BY <1>2, StoredFold

(* Rows are the same when their columns are.                                *)
LEMMA RowsEqual ==
    ASSUME NEW x \in Rows, NEW y \in Rows, \A c \in Columns : x[c] = y[c]
    PROVE  x = y
<1>1. /\ x = [ticker |-> x.ticker, side |-> x.side, qty |-> x.qty, avg |-> x.avg, mark |-> x.mark,
              unrealized |-> x.unrealized, closed |-> x.closed]
      /\ y = [ticker |-> y.ticker, side |-> y.side, qty |-> y.qty, avg |-> y.avg, mark |-> y.mark,
              unrealized |-> y.unrealized, closed |-> y.closed]
  BY DEF Rows
<1>2. /\ x.ticker = y.ticker /\ x.side = y.side /\ x.qty = y.qty /\ x.avg = y.avg
      /\ x.mark = y.mark /\ x.unrealized = y.unrealized /\ x.closed = y.closed
  BY DEF Columns
<1>3. QED
  BY <1>1, <1>2

LEMMA UpdatedFacts ==
    ASSUME PortfolioAssumption, TablesTyped, NEW p \in Procs, Staged(p), run[p].pc = "write",
           NEW i \in 1..Len(rows)
    PROVE  LET r   == run[p]
               old == rows[i]
               new == Updated(r, i)
           IN  /\ new \in Rows /\ old \in Rows /\ new.ticker = old.ticker
               /\ old.closed => new.closed
               /\ ~new.closed => new.qty = old.qty \/ new.qty # 0
               /\ i <= Len(r.read) /\ ~r.read[i].closed /\ r.read[i].qty = 0 => new.closed
<1> DEFINE r == run[p]
           old == rows[i]
           read == r.read[i]
           rev == Revised(r, i)
           new == Updated(r, i)
           n == r.pos[read.ticker]
<1>1. r \in Runs /\ old \in Rows /\ r.read \in Seq(Rows) /\ Len(r.read) \in Nat
  <2>1. r \in Runs
    BY DEF TablesTyped
  <2>2. rows[i] \in Rows
    BY DEF TablesTyped
  <2>3. r.read \in Seq(Rows)
    BY <2>1 DEF Runs
  <2> HIDE DEF r
  <2>4. QED
    BY <2>1, <2>2, <2>3
<1>2. r.ids = {j \in 1..Len(r.read) : ~r.read[j].closed}
  BY DEF Staged
<1>3. new \in Rows
  BY <1>1, UpdatedTyped
<1>4. CASE i \in 1..Len(r.read)
  <2>1. /\ read \in Rows /\ rev \in Rows /\ n \in Int
        /\ rev.ticker = read.ticker
        /\ ClosedOf(r, i) => rev.closed = TRUE /\ rev.qty = 0
        /\ UpdatedOf(r, i) => rev.closed = read.closed /\ rev.qty = Size(n)
        /\ ~ClosedOf(r, i) /\ ~UpdatedOf(r, i) => rev = read
    BY <1>1, <1>4, RevisedIs, ZenonT(60) DEF TablesTyped
  <2>2. new = Put(old, read, rev)
    BY <1>4 DEF Updated
  <2>3. \A c \in Columns : new[c] = IF rev[c] = read[c] THEN old[c] ELSE rev[c]
    BY <1>1, <2>1, <2>2, PutColumns
  <2>4. UpdatedOf(r, i) => n # 0
    BY DEF UpdatedOf
  <2>5. i \in r.ids <=> ~read.closed
    BY <1>2, <1>4
  <2>6. ClosedOf(r, i) => ~read.closed
    BY <2>5 DEF ClosedOf
  <2>7. ~read.closed /\ read.qty = 0 => ClosedOf(r, i)
    BY <2>5 DEF ClosedOf
  <2> HIDE DEF n, new, read, rev, old
  <2>8. n # 0 => Size(n) # 0
    BY <2>1 DEF Size
  <2>9. /\ new.ticker = IF rev.ticker = read.ticker THEN old.ticker ELSE rev.ticker
        /\ new.qty = IF rev.qty = read.qty THEN old.qty ELSE rev.qty
        /\ new.closed = IF rev.closed = read.closed THEN old.closed ELSE rev.closed
    BY <2>3 DEF Columns
  <2>10. ClosedOf(r, i) => new.closed
    BY <2>1, <2>6, <2>9
  <2>11. read.closed \in BOOLEAN /\ rev.closed \in BOOLEAN /\ old.closed \in BOOLEAN
    BY <1>1, <2>1 DEF Rows
  <2>12. old.closed => new.closed
    BY <2>1, <2>9, <2>10, <2>11
  <2>13. ~new.closed => new.qty = old.qty \/ new.qty # 0
    <3>1. CASE ClosedOf(r, i)
      BY <3>1, <2>10
    <3>2. CASE UpdatedOf(r, i) /\ ~ClosedOf(r, i)
      BY <3>2, <2>1, <2>4, <2>8, <2>9
    <3>3. CASE ~UpdatedOf(r, i) /\ ~ClosedOf(r, i)
      BY <3>3, <2>1, <2>9
    <3>4. QED
      BY <3>1, <3>2, <3>3
  <2>14. new.ticker = old.ticker
    BY <2>1, <2>9
  <2>15. QED
    BY <1>1, <1>3, <2>7, <2>10, <2>12, <2>13, <2>14 DEF new, old, read
<1>5. CASE i \notin 1..Len(r.read)
  <2>1. ~(i <= Len(r.read))
    BY <1>1, <1>5
  <2>2. new = old
    BY <2>1 DEF Updated
  <2>3. QED
    BY <1>1, <2>1, <2>2
<1>6. QED
  BY <1>4, <1>5

-----------------------------------------------------------------------------
(* How many open rows a market has.                                         *)
LEMMA FewFinite ==
    ASSUME PortfolioAssumption, TablesTyped, NEW t
    PROVE  /\ IsFiniteSet(HeldRows(t)) /\ Cardinality(HeldRows(t)) \in Nat
           /\ IsFiniteSet(Inserting(t)) /\ Cardinality(Inserting(t)) \in Nat
           /\ Cardinality(Inserting(t)) <= Cardinality(Procs)
           /\ Cardinality(Procs) \in Nat
<1>1. Len(rows) \in Nat
  BY DEF TablesTyped
<1>2. IsFiniteSet(1..Len(rows))
  BY <1>1, FS_Interval
<1>3. HeldRows(t) \in SUBSET (1..Len(rows))
  BY DEF HeldRows, OpenRows
<1>4. Inserting(t) \in SUBSET Procs /\ IsFiniteSet(Procs)
  BY DEF Inserting, PortfolioAssumption
<1>5. QED
  BY <1>2, <1>3, <1>4, FS_Subset, FS_CardinalityType

LEMMA FewFiniteNext ==
    ASSUME PortfolioAssumption, TablesTyped', NEW t
    PROVE  /\ IsFiniteSet(HeldRows(t)') /\ Cardinality(HeldRows(t)') \in Nat
           /\ IsFiniteSet(Inserting(t)') /\ Cardinality(Inserting(t)') \in Nat
           /\ Cardinality(Inserting(t)') <= Cardinality(Procs)
<1>1. Len(rows') \in Nat
  BY DEF TablesTyped
<1>2. IsFiniteSet(1..Len(rows'))
  BY <1>1, FS_Interval
<1>3. HeldRows(t)' \in SUBSET (1..Len(rows'))
  BY DEF HeldRows, OpenRows
<1>4. Inserting(t)' \in SUBSET Procs /\ IsFiniteSet(Procs)
  BY DEF Inserting, PortfolioAssumption
<1>5. QED
  BY <1>2, <1>3, <1>4, FS_Subset, FS_CardinalityType

LEMMA FewKept ==
    ASSUME PortfolioAssumption, TablesTyped, RowsFew, SameKeys(rows, rows'),
           \A q \in Procs : run'[q].pc = "write" =>
               run[q].pc = "write" /\ run'[q].read = run[q].read /\ run'[q].ids = run[q].ids
    PROVE  RowsFew'
<1>1. /\ Len(rows') = Len(rows)
      /\ \A i \in 1..Len(rows) : /\ rows'[i].ticker = rows[i].ticker
                                 /\ rows'[i].qty = rows[i].qty
                                 /\ rows'[i].closed = rows[i].closed
  BY DEF SameKeys
<1>2. ASSUME NEW t \in Tickers
      PROVE  (Cardinality(HeldRows(t)) + Cardinality(Inserting(t)) <= Cardinality(Procs))'
  <2>1. HeldRows(t)' = HeldRows(t)
    BY <1>1 DEF HeldRows, OpenRows
  <2>2. Inserting(t)' \subseteq Inserting(t)
    BY DEF Inserting, Existing
  <2>3. Cardinality(Inserting(t)') \in Nat /\ Cardinality(Inserting(t)') <= Cardinality(Inserting(t))
    BY <2>2, FewFinite, FS_Subset, FS_CardinalityType
  <2>4. Cardinality(HeldRows(t)) + Cardinality(Inserting(t)) <= Cardinality(Procs)
    BY DEF RowsFew
  <2> DEFINE a == Cardinality(HeldRows(t))
             b == Cardinality(Inserting(t))
             c == Cardinality(Procs)
             d == Cardinality(Inserting(t)')
  <2>5. a \in Nat /\ b \in Nat /\ c \in Nat
    BY FewFinite
  <2>6. d \in Nat /\ d <= b /\ a + b <= c
    BY <2>3, <2>4
  <2> HIDE DEF a, b, c, d
  <2>7. a + d <= c
    BY <2>5, <2>6
  <2>8. QED
    BY <2>1, <2>7 DEF a, c, d
<1>3. ASSUME NEW i \in 1..Len(rows'), ~rows'[i].closed, rows'[i].qty = 0
      PROVE  /\ Len(rows') = 1
             /\ \A q \in Procs : run'[q].pc = "write" =>
                   Len(run'[q].read) = 1 /\ run'[q].read[1].qty = 0 /\ ~run'[q].read[1].closed
  <2>1. i \in 1..Len(rows) /\ ~rows[i].closed /\ rows[i].qty = 0
    BY <1>1, <1>3
  <2>2. QED
    BY <1>1, <2>1 DEF RowsFew
<1>4. QED
  BY <1>2, <1>3 DEF RowsFew

LEMMA FewRead ==
    ASSUME PortfolioAssumption, TablesTyped, RowsFew, NEW p \in Procs, ReadRows(p)
    PROVE  RowsFew'
<1>1. /\ rows' = rows /\ run' = [run EXCEPT ![p] = run'[p]] /\ run \in [Procs -> Runs]
      /\ run'[p].read = rows /\ run'[p].ids = {i \in 1..Len(rows) : ~rows[i].closed}
  BY DEF ReadRows, Go, tables, TablesTyped, Runs
<1>2. \A q \in Procs \ {p} : run'[q] = run[q]
  BY <1>1
<1>3. ASSUME NEW t \in Tickers
      PROVE  (Cardinality(HeldRows(t)) + Cardinality(Inserting(t)) <= Cardinality(Procs))'
  <2>1. HeldRows(t)' = HeldRows(t)
    BY <1>1 DEF HeldRows, OpenRows
  <2> DEFINE a == Cardinality(HeldRows(t))
             b == Cardinality(Inserting(t))
             c == Cardinality(Procs)
             d == Cardinality(Inserting(t)')
  <2>2. a \in Nat /\ b \in Nat /\ c \in Nat /\ a + b <= c
    BY FewFinite DEF RowsFew
  <2>3. Inserting(t)' \in SUBSET Procs /\ IsFiniteSet(Procs)
    BY DEF Inserting, PortfolioAssumption
  <2>4. d \in Nat /\ d <= c
    BY <2>3, FS_Subset, FS_CardinalityType
  <2>5. CASE p \in Inserting(t)'
    <3>1. Existing(run'[p], t) = 0
      BY <2>5 DEF Inserting
    <3>2. {i \in run'[p].ids : run'[p].read[i].ticker = t /\ run'[p].read[i].qty > 0} = HeldRows(t)
      BY <1>1 DEF HeldRows, OpenRows
    <3>3. HeldRows(t) \in SUBSET (1..Len(rows)) /\ Len(rows) \in Nat
      BY DEF HeldRows, OpenRows, TablesTyped
    <3>4. HeldRows(t) = {}
      BY <3>1, <3>2, <3>3, SetMaxIs DEF Existing
    <3>5. a = 0
      BY <3>4, FS_EmptySet
    <3> HIDE DEF a, b, c, d
    <3>6. a + d <= c
      BY <3>5, <2>2, <2>4
    <3>7. QED
      BY <2>1, <3>6 DEF a, c, d
  <2>6. CASE p \notin Inserting(t)'
    <3>1. Inserting(t)' \subseteq Inserting(t)
      BY <1>2, <2>6 DEF Inserting
    <3>2. d <= b
      BY <3>1, FewFinite, FS_Subset
    <3> HIDE DEF a, b, c, d
    <3>3. a + d <= c
      BY <3>2, <2>2, <2>4
    <3>4. QED
      BY <2>1, <3>3 DEF a, c, d
  <2>7. QED
    BY <2>5, <2>6
<1>4. ASSUME NEW i \in 1..Len(rows'), ~rows'[i].closed, rows'[i].qty = 0
      PROVE  /\ Len(rows') = 1
             /\ \A q \in Procs : run'[q].pc = "write" =>
                   Len(run'[q].read) = 1 /\ run'[q].read[1].qty = 0 /\ ~run'[q].read[1].closed
  <2>1. i \in 1..Len(rows) /\ ~rows[i].closed /\ rows[i].qty = 0
    BY <1>1, <1>4
  <2>2. Len(rows) = 1 /\ i = 1
    BY <2>1 DEF RowsFew
  <2>3. \A q \in Procs \ {p} : run'[q].pc = "write" =>
            Len(run'[q].read) = 1 /\ run'[q].read[1].qty = 0 /\ ~run'[q].read[1].closed
    BY <1>2, <2>1 DEF RowsFew
  <2>4. QED
    BY <1>1, <2>1, <2>2, <2>3
<1>5. QED
  BY <1>3, <1>4 DEF RowsFew

LEMMA FewWritten ==
    ASSUME PortfolioAssumption, TablesTyped, RowsFew, NEW p \in Procs, Staged(p), WriteRows(p),
           TablesTyped', run'[p].pc # "write", \A q \in Procs \ {p} : run'[q] = run[q]
    PROVE  RowsFew'
<1> DEFINE r == run[p]
           n == Len(rows)
           m == Cardinality(Missing(r))
<1>1. /\ rows' \in Seq(Rows) /\ n \in Nat /\ m \in Nat /\ Len(rows') = n + m
      /\ \A i \in 1..n : rows'[i] = Updated(r, i)
      /\ \A i \in (n + 1)..(n + m) : \E t \in Missing(r) : rows'[i] = Inserted(r, t)
      /\ \A i, j \in (n + 1)..(n + m) : rows'[i].ticker = rows'[j].ticker => i = j
  BY RowsWritten DEF Written
<1>2. r \in Runs /\ r.pc = "write"
  BY DEF TablesTyped, WriteRows
<1>3. \A t \in Missing(r) : Inserted(r, t).ticker = t /\ Inserted(r, t).qty # 0
  BY <1>2, InsertedIs, ZenonT(60) DEF TablesTyped
<1>4. \A i \in 1..n :
         /\ rows'[i].ticker = rows[i].ticker
         /\ rows[i].closed => rows'[i].closed
         /\ ~rows'[i].closed => rows'[i].qty = rows[i].qty \/ rows'[i].qty # 0
         /\ i <= Len(r.read) /\ ~r.read[i].closed /\ r.read[i].qty = 0 => rows'[i].closed
  BY <1>1, <1>2, UpdatedFacts
<1>5. \A i \in 1..n : rows[i].qty \in Nat
  <2>1. \A i \in 1..n : rows[i] \in Rows
    BY DEF TablesTyped
  <2>2. \A row \in Rows : row.qty \in Nat
    BY DEF Rows
  <2>3. QED
    BY <2>1, <2>2
<1>6. ASSUME NEW i \in 1..n, ~rows'[i].closed
      PROVE  ~rows[i].closed /\ rows[i].qty # 0 /\ rows'[i].qty # 0
  <2>1. ~rows[i].closed
    BY <1>4, <1>6
  <2>2. rows[i].qty # 0
    <3> SUFFICES ASSUME rows[i].qty = 0 PROVE FALSE
      OBVIOUS
    <3>1. /\ n = 1 /\ Len(r.read) = 1 /\ r.read[1].qty = 0 /\ ~r.read[1].closed
      BY <1>2, <2>1 DEF RowsFew
    <3>2. i = 1
      BY <3>1
    <3>3. QED
      BY <1>4, <1>6, <3>1, <3>2
  <2>3. rows'[i].qty # 0
    BY <1>4, <1>6, <2>2
  <2>4. QED
    BY <2>1, <2>2, <2>3
<1>7. ASSUME NEW t \in Tickers
      PROVE  (Cardinality(HeldRows(t)) + Cardinality(Inserting(t)) <= Cardinality(Procs))'
  <2> DEFINE a == Cardinality(HeldRows(t))
             b == Cardinality(Inserting(t))
             c == Cardinality(Procs)
             d == Cardinality(HeldRows(t)')
             e == Cardinality(Inserting(t)')
  <2>1. a \in Nat /\ b \in Nat /\ c \in Nat /\ a + b <= c
    BY FewFinite DEF RowsFew
  <2>2. d \in Nat /\ e \in Nat
    BY FewFiniteNext
  <2>3. HeldRows(t)' \cap (1..n) \subseteq HeldRows(t)
    <3> SUFFICES ASSUME NEW i \in HeldRows(t)', i \in 1..n PROVE i \in HeldRows(t)
      OBVIOUS
    <3>1. rows'[i].ticker = t /\ ~rows'[i].closed
      BY DEF HeldRows, OpenRows
    <3>2. rows[i].ticker = t /\ ~rows[i].closed /\ rows[i].qty > 0
      BY <1>4, <1>5, <1>6, <3>1
    <3>3. QED
      BY <3>2 DEF HeldRows, OpenRows
  <2>4. HeldRows(t)' \subseteq 1..(n + m)
    BY <1>1 DEF HeldRows, OpenRows
  <2>5. \A i \in HeldRows(t)' : i \notin 1..n => i \in (n + 1)..(n + m) /\ rows'[i].ticker = t
    BY <1>1, <2>4 DEF HeldRows, OpenRows
  <2>6. Inserting(t)' \subseteq Inserting(t) \ {p}
    BY DEF Inserting
  <2>7. IsFiniteSet(HeldRows(t)) /\ IsFiniteSet(Inserting(t))
    BY FewFinite
  <2>8. CASE t \in Missing(r)
    <3>1. p \in Inserting(t)
      BY <1>2, <2>8 DEF Inserting, Missing
    <3>2. e <= b - 1
      <4>1. IsFiniteSet(Inserting(t) \ {p}) /\ Cardinality(Inserting(t) \ {p}) = b - 1
        BY <2>7, <3>1, FS_RemoveElement
      <4>2. e <= Cardinality(Inserting(t) \ {p})
        BY <2>6, <4>1, FS_Subset
      <4>3. QED
        BY <4>1, <4>2
    <3>3. PICK x : HeldRows(t)' \subseteq HeldRows(t) \cup {x}
      <4>1. CASE \E x \in HeldRows(t)' : x \notin 1..n
        <5>1. PICK x \in HeldRows(t)' : x \notin 1..n
          BY <4>1
        <5>2. \A i \in HeldRows(t)' : i \notin 1..n => i = x
          BY <1>1, <2>5, <5>1
        <5>3. QED
          BY <2>3, <5>2
      <4>2. QED
        BY <2>3, <4>1
    <3>4. IsFiniteSet(HeldRows(t) \cup {x}) /\ Cardinality(HeldRows(t) \cup {x}) <= a + 1
      <4>1. /\ IsFiniteSet(HeldRows(t) \cup {x})
            /\ Cardinality(HeldRows(t) \cup {x}) = (IF x \in HeldRows(t) THEN a ELSE a + 1)
        BY <2>7, FS_AddElement
      <4> HIDE DEF a
      <4>2. a <= a + 1 /\ a + 1 <= a + 1
        BY <2>1
      <4>3. QED
        BY <4>1, <4>2
    <3>5. d <= Cardinality(HeldRows(t) \cup {x}) /\ Cardinality(HeldRows(t) \cup {x}) \in Nat
      BY <3>3, <3>4, FS_Subset, FS_CardinalityType
    <3> HIDE DEF a, b, c, d, e
    <3>6. d + e <= c
      BY <2>1, <2>2, <3>2, <3>4, <3>5
    <3>7. QED
      BY <3>6 DEF c, d, e
  <2>9. CASE t \notin Missing(r)
    <3>1. \A i \in (n + 1)..(n + m) : rows'[i].ticker # t
      BY <1>1, <1>3, <2>9
    <3>2. HeldRows(t)' \subseteq HeldRows(t)
      BY <2>3, <2>5, <3>1
    <3>3. d <= a
      BY <2>7, <3>2, FS_Subset
    <3>4. Inserting(t)' \subseteq Inserting(t)
      BY <2>6
    <3>5. e <= b
      BY <2>7, <3>4, FS_Subset
    <3> HIDE DEF a, b, c, d, e
    <3>6. d + e <= c
      BY <2>1, <2>2, <3>3, <3>5
    <3>7. QED
      BY <3>6 DEF c, d, e
  <2>10. QED
    BY <2>8, <2>9
<1>8. ASSUME NEW i \in 1..Len(rows'), ~rows'[i].closed
      PROVE  rows'[i].qty # 0
  <2>1. CASE i \in 1..n
    BY <1>6, <1>8, <2>1
  <2>2. CASE i \notin 1..n
    <3>1. i \in (n + 1)..(n + m)
      BY <1>1, <2>2
    <3>2. QED
      BY <1>1, <1>3, <3>1
  <2>3. QED
    BY <2>1, <2>2
<1>9. QED
  BY <1>7, <1>8 DEF RowsFew

-----------------------------------------------------------------------------
(* A step of one run leaves the others what they are.                       *)
LEMMA StepKeeps ==
    ASSUME PortfolioAssumption, SyncInv, NEW p \in Procs, run[p].pc # "idle",
           \A q \in Procs \ {p} : run'[q] = run[q], UNCHANGED exchange,
           TablesTyped', Staged(p)',
           run'[p].lone => run[p].lone /\ run'[p].pc # "idle" /\ LoneRight(p)',
           synced' => Kept' /\ InStep(p)',
           synced' => run[p].lone \/ (synced /\ fresh' = fresh /\ SameKeys(rows, rows')),
           ~synced' => fresh' = {}, RowsFew'
    PROVE  SyncInv'
<1>1. ASSUME NEW q \in Procs \ {p}
      PROVE  Staged(q)'
  <2>1. Staged(q)
    BY DEF SyncInv
  <2>2. QED
    BY <2>1 DEF Staged, Settled, exchange
<1>2. \A q \in Procs : Staged(q)'
  BY <1>1
<1>3. ASSUME NEW q \in Procs \ {p}
      PROVE  ~run'[q].lone
  BY DEF SyncInv
<1>4. \A q \in Procs : (run[q].lone => LoneRight(q) /\ run[q].pc # "idle"
                                       /\ \A o \in Procs \ {q} : run[o].pc = "idle")'
  <2>1. ASSUME run'[p].lone
        PROVE  \A o \in Procs \ {p} : run'[o].pc = "idle"
    BY <2>1 DEF SyncInv
  <2>2. QED
    BY <1>3, <2>1
<1>5. ASSUME synced', NEW q \in Procs \ {p}
      PROVE  InStep(q)'
  <2>1. CASE run[p].lone
    <3>1. run'[q].pc = "idle"
      BY <2>1 DEF SyncInv
    <3>2. QED
      BY <3>1 DEF InStep
  <2>2. CASE ~run[p].lone
    <3>1. InStep(q) /\ run'[q] = run[q] /\ fresh' = fresh /\ SameKeys(rows, rows')
      BY <1>5, <2>2 DEF SyncInv
    <3>2. SameKeys(run[q].read, rows) => SameKeys(run[q].read, rows')
      BY <3>1 DEF SameKeys
    <3>3. fills' = fills /\ Settled' = Settled /\ position' = position
      BY DEF Settled, exchange
    <3>4. QED
      BY <3>1, <3>2, <3>3 DEF InStep
  <2>3. QED
    BY <2>1, <2>2
<1>6. synced' => \A q \in Procs : InStep(q)'
  BY <1>5
<1>7. QED
  BY <1>2, <1>4, <1>6 DEF SyncInv

LEMMA SameKeysItself == \A list : SameKeys(list, list)
  BY DEF SameKeys

(* The rows are as right, and show as much, as those with the same keys.    *)
LEMMA RightKept ==
    ASSUME PortfolioAssumption, TablesTyped, UNCHANGED exchange, trades' = trades,
           SameKeys(rows, rows'), NEW t
    PROVE  OpenRows(t)' = OpenRows(t) /\ (RowRight(t) => RowRight(t)')
<1>1. fills' = fills /\ position' = position /\ fills \in Seq(Trade)
  BY FillsAreTrades DEF exchange, TablesTyped
<1>2. Stored(t)' = Stored(t)
  BY <1>1, StoredSame
<1>3. OpenRows(t)' = OpenRows(t)
  BY DEF SameKeys, OpenRows
<1>4. ASSUME RowRight(t) PROVE RowRight(t)'
  <2>1. CASE position[t] = 0
    BY <1>1, <1>3, <1>4, <2>1 DEF RowRight
  <2>2. CASE position[t] # 0
    <3>1. PICK i \in 1..Len(rows) :
              /\ OpenRows(t) = {i} /\ rows[i].qty = Size(position[t])
              /\ rows[i].side = SideOf(position[t])
              /\ rows[i].avg = CostBasis(Stored(t), SideOf(position[t]))
      BY <1>4, <2>2 DEF RowRight
    <3>2. /\ i \in 1..Len(rows') /\ rows'[i].qty = rows[i].qty /\ rows'[i].side = rows[i].side
          /\ rows'[i].avg = rows[i].avg
      BY DEF SameKeys
    <3>3. QED
      BY <1>1, <1>2, <1>3, <2>2, <3>1, <3>2 DEF RowRight
  <2>3. QED
    BY <2>1, <2>2
<1>5. QED
  BY <1>3, <1>4

LEMMA KeptSame ==
    ASSUME PortfolioAssumption, TablesTyped, UNCHANGED exchange, UNCHANGED tables,
           UNCHANGED <<fresh>>
    PROVE  /\ Kept => Kept'
           /\ RowsRight => RowsRight'
           /\ OneRowEach => OneRowEach'
<1>1. rows' = rows /\ trades' = trades /\ settlements' = settlements /\ fills' = fills
      /\ SameKeys(rows, rows')
  BY SameKeysItself DEF tables, exchange
<1>2. \A t : OpenRows(t)' = OpenRows(t) /\ (RowRight(t) => RowRight(t)')
  BY <1>1, RightKept
<1>3. Settled' = Settled
  BY DEF Settled, exchange
<1>4. RowsRight => RowsRight'
  BY <1>2 DEF RowsRight
<1>5. OneRowEach => OneRowEach'
  BY <1>2 DEF OneRowEach
<1>6. ASSUME Kept PROVE Kept'
  <2>1. \A t \in fresh' : \A i \in OpenRows(t)' : Shown(rows'[i])
    BY <1>1, <1>2, <1>6 DEF Kept
  <2>2. QED
    BY <1>1, <1>3, <1>4, <1>6, <2>1 DEF Kept
<1>7. QED
  BY <1>4, <1>5, <1>6

LEMMA NoRunTyped == NoRun \in Runs
<1>1. <<>> \in Seq(Rows)
  OBVIOUS
<1>2. QED
  BY <1>1 DEF NoRun, Runs, Stages

(* A step that only reads.                                                  *)
LEMMA QuietStep ==
    ASSUME PortfolioAssumption, SyncInv, NEW p \in Procs, run[p].pc # "idle",
           NEW r \in Runs, Go(p, r), UNCHANGED <<tables, synced, fresh>>,
           r.lone => run[p].lone /\ r.pc # "idle",
           Staged(p)', r.lone => LoneRight(p)', synced => InStep(p)',
           r.pc = "write" => RowsFew'
    PROVE  SyncInv'
<1>1. run \in [Procs -> Runs] /\ TablesTyped /\ RowsFew
  BY DEF SyncInv, TablesTyped
<1>2. /\ run' = [run EXCEPT ![p] = r] /\ UNCHANGED exchange /\ syncs' = syncs
      /\ rows' = rows /\ trades' = trades /\ settlements' = settlements
      /\ synced' = synced /\ fresh' = fresh
  BY DEF Go, tables
<1>3. run'[p] = r /\ \A q \in Procs \ {p} : run'[q] = run[q]
  BY <1>1, <1>2
<1>4. TablesTyped'
  BY <1>1, <1>2 DEF TablesTyped, exchange, Settled
<1>5. RowsFew'
  <2>1. CASE r.pc = "write"
    BY <2>1
  <2>2. CASE r.pc # "write"
    <3>1. \A q \in Procs : run'[q].pc = "write" =>
              run[q].pc = "write" /\ run'[q].read = run[q].read /\ run'[q].ids = run[q].ids
      BY <1>3, <2>2
    <3>2. SameKeys(rows, rows')
      BY <1>2, SameKeysItself
    <3>3. QED
      BY <1>1, <3>1, <3>2, FewKept
  <2>3. QED
    BY <2>1, <2>2
<1>6. Kept => Kept'
  BY <1>1, <1>2, KeptSame
<1>7. SameKeys(rows, rows')
  BY <1>2, SameKeysItself
<1>8. synced => Kept
  BY DEF SyncInv
<1>9. ~synced => fresh = {}
  BY DEF SyncInv
<1>10. QED
  BY <1>2, <1>3, <1>4, <1>5, <1>6, <1>7, <1>8, <1>9, StepKeeps

LEMMA IdleStaged ==
    ASSUME NEW p \in Procs, run'[p] = NoRun
    PROVE  Staged(p)' /\ InStep(p)' /\ ~run'[p].lone /\ run'[p].pc = "idle"
<1>1. /\ NoRun.pc = "idle" /\ NoRun.got = {} /\ NoRun.twice = {} /\ NoRun.ids = {}
      /\ NoRun.lone = FALSE
  BY DEF NoRun
<1>2. QED
  BY <1>1 DEF Staged, InStep

LEMMA StopKeeps ==
    ASSUME PortfolioAssumption, SyncInv, NEW p \in Procs, run[p].pc # "idle",
           Go(p, NoRun), UNCHANGED <<tables, synced, fresh>>
    PROVE  SyncInv'
<1>1. run'[p] = NoRun
  BY DEF Go, SyncInv, TablesTyped
<1>2. NoRun.lone = FALSE /\ NoRun.pc = "idle"
  BY DEF NoRun
<1>3. Staged(p)' /\ InStep(p)'
  BY <1>1, IdleStaged
<1>4. QED
  BY <1>2, <1>3, NoRunTyped, QuietStep

(* The run ends with the tables it found.                                   *)
LEMMA FinishKeeps ==
    ASSUME PortfolioAssumption, SyncInv, NEW p \in Procs, run[p].pc = "marks",
           Finish(p, {}), UNCHANGED tables
    PROVE  SyncInv'
<1>1. run \in [Procs -> Runs] /\ TablesTyped /\ RowsFew
  BY DEF SyncInv, TablesTyped
<1>2. /\ run' = [run EXCEPT ![p] = NoRun] /\ UNCHANGED exchange /\ syncs' = syncs
      /\ rows' = rows /\ trades' = trades /\ settlements' = settlements
      /\ synced' = (synced \/ run[p].lone)
      /\ fresh' = (IF ~synced' THEN {} ELSE IF run[p].lone THEN fresh \cup {} ELSE fresh)
  BY DEF Go, tables, Finish
<1>3. run'[p] = NoRun /\ \A q \in Procs \ {p} : run'[q] = run[q]
  BY <1>1, <1>2
<1>4. ~synced => fresh = {}
  BY DEF SyncInv
<1>5. fresh' = fresh
  BY <1>2, <1>4
<1>6. run[p].lone \in BOOLEAN
  BY <1>1 DEF Runs
<1>7. TablesTyped'
  BY <1>1, <1>2, <1>5, <1>6, NoRunTyped DEF TablesTyped, exchange, Settled
<1>8. SameKeys(rows, rows')
  BY <1>2, SameKeysItself
<1>9. Staged(p)' /\ InStep(p)' /\ ~run'[p].lone /\ run'[p].pc = "idle"
  BY <1>3, IdleStaged
<1>10. RowsFew'
  <2>1. \A q \in Procs : run'[q].pc = "write" =>
            run[q].pc = "write" /\ run'[q].read = run[q].read /\ run'[q].ids = run[q].ids
    BY <1>3, <1>9
  <2>2. QED
    BY <1>1, <1>8, <2>1, FewKept
<1>11. (Kept => Kept') /\ (RowsRight => RowsRight')
  BY <1>1, <1>2, <1>5, KeptSame
<1>12. synced' => Kept'
  <2>1. CASE synced
    BY <1>11, <2>1 DEF SyncInv
  <2>2. CASE ~synced /\ run[p].lone
    <3>1. LoneRight(p)
      BY <2>2 DEF SyncInv
    <3>2. trades = 1..Len(fills) /\ settlements = Settled /\ RowsRight
      BY <3>1 DEF LoneRight, Filled, Paid
    <3>3. Settled' = Settled /\ fills' = fills
      BY <1>2 DEF Settled, exchange
    <3>4. fresh' = {}
      BY <1>4, <1>5, <2>2
    <3>5. QED
      BY <1>2, <1>11, <3>2, <3>3, <3>4 DEF Kept
  <2>3. QED
    BY <1>2, <2>1, <2>2
<1>13. synced' => run[p].lone \/ (synced /\ fresh' = fresh /\ SameKeys(rows, rows'))
  BY <1>2, <1>5, <1>8
<1>14. ~synced' => fresh' = {}
  BY <1>2
<1>15. QED
  BY <1>2, <1>3, <1>7, <1>9, <1>10, <1>12, <1>13, <1>14, StepKeeps

-----------------------------------------------------------------------------
(* One page of fills: those up to first, and what is left to ask.           *)
LEMMA PageIs ==
    ASSUME PortfolioAssumption, NEW first \in Nat
    PROVE  LET page == {i \in 1..first : i > first - PageSize}
               low  == first - Cardinality(page) + 1
           IN  /\ page \subseteq 1..first
               /\ page = {} <=> first = 0
               /\ page # {} => low \in 1..first /\ page = low..first
<1> DEFINE page == {i \in 1..first : i > first - PageSize}
           m == IF first > PageSize THEN first - PageSize + 1 ELSE 1
<1>1. PageSize \in Nat \ {0}
  BY DEF PortfolioAssumption
<1>2. m \in Nat /\ m >= 1 /\ (first # 0 => m <= first)
  BY <1>1
<1>3. page = m..first
  BY <1>1
<1>4. first = 0 => page = {}
  OBVIOUS
<1>5. first # 0 => first \in page
  BY <1>1
<1>6. first # 0 => Cardinality(page) = first - m + 1
  <2>1. first # 0 => Cardinality(m..first) = first - m + 1
    <3> HIDE DEF m
    <3>1. Cardinality(m..first) = (IF m > first THEN 0 ELSE first - m + 1)
      BY <1>2, FS_Interval
    <3>2. QED
      BY <1>2, <3>1
  <2>2. QED
    BY <1>3, <2>1
<1> HIDE DEF m, page
<1>7. first # 0 => first - Cardinality(page) + 1 = m
  BY <1>2, <1>6
<1>8. page \subseteq 1..first
  BY DEF page
<1> DEFINE low == first - Cardinality(page) + 1
<1>9. first # 0 => low = m
  BY <1>7
<1> HIDE DEF low
<1>10. page # {} => low \in 1..first /\ page = low..first
  BY <1>2, <1>3, <1>4, <1>9
<1>11. QED
  BY <1>4, <1>5, <1>8, <1>10 DEF page, low

LEMMA FetchFillsKeeps ==
    ASSUME PortfolioAssumption, SyncInv, NEW p \in Procs, FetchFills(p)
    PROVE  SyncInv'
<1> DEFINE r == run[p]
           N == Len(fills)
<1>1. r \in Runs /\ r.pc = "fills" /\ N \in Nat
  BY DEF SyncInv, TablesTyped, FetchFills
<1>2. PICK first \in (IF r.oldest = 0 THEN {N} ELSE {r.oldest - 1, r.oldest}) :
         LET page == {i \in 1..first : i > first - PageSize}
         IN  Go(p, [r EXCEPT !.got = @ \cup page,
                             !.twice = @ \cup (r.got \cap page),
                             !.oldest = IF page = {} THEN 0 ELSE first - Cardinality(page) + 1,
                             !.pc = IF page = {} \/ 1 \in page THEN "trades" ELSE "fills"])
  BY DEF FetchFills
<1> DEFINE page == {i \in 1..first : i > first - PageSize}
           low == first - Cardinality(page) + 1
           new == [r EXCEPT !.got = @ \cup page,
                            !.twice = @ \cup (r.got \cap page),
                            !.oldest = IF page = {} THEN 0 ELSE low,
                            !.pc = IF page = {} \/ 1 \in page THEN "trades" ELSE "fills"]
<1>3. Go(p, new)
  BY <1>2
<1>4. r.oldest \in Nat
  BY <1>1 DEF Runs
<1>5. first \in Nat
  BY <1>1, <1>2, <1>4
<1>6. /\ page \subseteq 1..first /\ (page = {} <=> first = 0)
      /\ page # {} => low \in 1..first /\ page = low..first
  BY <1>5, PageIs
<1> HIDE DEF page, low
<1>7. page \subseteq Things
  BY <1>5, <1>6 DEF Things
<1> HIDE DEF r
<1>8. /\ new \in Runs /\ new.lone = r.lone /\ new.read = r.read /\ new.ids = r.ids
      /\ new.got = r.got \cup page /\ new.twice = r.twice \cup (r.got \cap page)
      /\ new.oldest = (IF page = {} THEN 0 ELSE low)
      /\ new.pc = (IF page = {} \/ 1 \in page THEN "trades" ELSE "fills")
  <2> DEFINE a == r.got \cup page
             b == r.twice \cup (r.got \cap page)
             c == IF page = {} THEN 0 ELSE low
             d == IF page = {} \/ 1 \in page THEN "trades" ELSE "fills"
  <2>1. a \in SUBSET Things /\ b \in SUBSET Things /\ c \in Nat /\ d \in Stages
    BY <1>1, <1>5, <1>6, <1>7 DEF Runs, Stages, r
  <2>2. new = [r EXCEPT !.got = a, !.twice = b, !.oldest = c, !.pc = d]
    OBVIOUS
  <2> HIDE DEF a, b, c, d, new
  <2>3. /\ new \in Runs /\ new.lone = r.lone /\ new.read = r.read /\ new.ids = r.ids
        /\ new.got = a /\ new.twice = b /\ new.oldest = c /\ new.pc = d
    BY <1>1, <2>1, <2>2 DEF Runs, r
  <2>4. QED
    BY <2>3 DEF a, b, c, d
<1>9. Staged(p) /\ run' = [run EXCEPT ![p] = new] /\ UNCHANGED exchange
  BY <1>3 DEF SyncInv, Go
<1>10. run'[p] = new /\ Len(fills') = N
  BY <1>9 DEF SyncInv, TablesTyped, exchange
<1> HIDE DEF new
<1>11. r.got \subseteq 1..N /\ r.twice \subseteq r.got /\ r.ids \subseteq 1..Len(r.read)
  BY <1>1, <1>9 DEF Staged, r
<1>12. first <= N /\ (page # {} => low <= N)
  BY <1>1, <1>2, <1>4, <1>5, <1>6, <1>9 DEF Staged, r
<1>13. page \subseteq 1..N
  BY <1>12, <1>1, <1>5, <1>6
<1>14. Staged(p)'
  BY <1>1, <1>8, <1>10, <1>11, <1>12, <1>13 DEF Staged
<1>15. ASSUME r.lone PROVE LoneRight(p)'
  <2>1. LoneRight(p)
    BY <1>15 DEF SyncInv, r
  <2>2. /\ (r.oldest = 0 /\ r.got = {}) \/ (r.oldest \in 2..N /\ r.got = r.oldest..N)
        /\ OneRowEach
    BY <1>1, <2>1 DEF LoneRight, r
  <2>3. /\ rows' = rows
    BY DEF FetchFills, tables
  <2>4. OneRowEach'
    BY <2>2, <2>3 DEF OneRowEach, OpenRows
  <2>5. page = {} => new.got = 1..N
    <3>1. page = {} => N = 0 /\ r.got = {}
      BY <1>1, <1>2, <1>6, <2>2 DEF r
    <3>2. QED
      BY <1>8, <3>1
  <2>6. page # {} => new.got = low..N /\ low \in 1..N
    <3>1. CASE r.oldest = 0
      BY <1>1, <1>2, <1>6, <1>8, <2>2, <3>1, SMTT(40) DEF r
    <3>2. CASE r.oldest # 0
      <4>1. r.oldest \in 2..N /\ r.got = r.oldest..N /\ first \in {r.oldest - 1, r.oldest}
        BY <1>2, <2>2, <3>2 DEF r
      <4>2. ASSUME page # {} PROVE r.got \cup page = low..N /\ low \in 1..N
        BY <1>1, <1>6, <4>1, <4>2
      <4>3. QED
        BY <1>8, <4>2
    <3>3. QED
      BY <3>1, <3>2
  <2>7. page # {} => (1 \in page <=> low = 1)
    BY <1>5, <1>6
  <2>8. new.pc = "trades" => new.got = 1..N
    BY <1>8, <2>5, <2>6, <2>7
  <2>9. new.pc = "fills" => new.oldest \in 2..N /\ new.got = new.oldest..N
    BY <1>1, <1>8, <2>6, <2>7
  <2>10. new.pc \in {"trades", "fills"}
    BY <1>8
  <2>11. QED
    BY <1>10, <2>4, <2>8, <2>9, <2>10 DEF LoneRight, Filled, Paid
<1>16. InStep(p)'
  BY <1>8, <1>10 DEF InStep
<1>17. r.pc # "idle" /\ new.pc # "idle" /\ new.pc # "write"
  BY <1>1, <1>8
<1>18. UNCHANGED <<tables, synced, fresh>>
  BY DEF FetchFills
<1>19. QED
  BY <1>3, <1>8, <1>14, <1>15, <1>16, <1>17, <1>18, QuietStep DEF r, new
LEMMA ReadTradesKeeps ==
    ASSUME PortfolioAssumption, SyncInv, NEW p \in Procs, ReadTrades(p)
    PROVE  SyncInv'
<1> DEFINE r == run[p]
           new == [r EXCEPT !.known = trades, !.pc = "insert"]
<1>1. r \in Runs /\ r.pc = "trades" /\ TablesTyped /\ run \in [Procs -> Runs]
  BY DEF SyncInv, TablesTyped, ReadTrades
<1>2. Go(p, new) /\ UNCHANGED <<tables, synced, fresh>>
  BY DEF ReadTrades
<1>3. trades \in SUBSET Things
  BY <1>1 DEF TablesTyped, Things
<1> HIDE DEF r
<1>4. /\ new \in Runs /\ new.lone = r.lone /\ new.read = r.read /\ new.ids = r.ids
      /\ new.got = r.got /\ new.twice = r.twice /\ new.known = trades /\ new.pc = "insert"
  BY <1>1, <1>3 DEF Runs, Stages
<1> HIDE DEF new
<1>5. /\ run'[p] = new /\ fills' = fills /\ trades' = trades /\ UNCHANGED exchange
  BY <1>1, <1>2 DEF Go, tables, exchange
<1>6. Staged(p)'
  <2>1. Staged(p)
    BY DEF SyncInv
  <2>2. QED
    BY <1>1, <1>4, <1>5, <2>1 DEF Staged, r
<1>7. ASSUME r.lone PROVE LoneRight(p)'
  <2>1. LoneRight(p)
    BY <1>7 DEF SyncInv, r
  <2>2. r.got = 1..Len(fills) /\ OneRowEach
    BY <1>1, <2>1 DEF LoneRight, r
  <2>3. OneRowEach'
    BY <1>1, <1>2, <1>5, <2>2, KeptSame
  <2>4. QED
    BY <1>4, <1>5, <2>2, <2>3 DEF LoneRight, Filled, Paid
<1>8. ASSUME synced PROVE InStep(p)'
  <2>1. trades = 1..Len(fills)
    BY <1>8 DEF SyncInv, Kept
  <2>2. QED
    BY <1>4, <1>5, <2>1 DEF InStep
<1>9. r.pc # "idle" /\ new.pc # "idle" /\ new.pc # "write"
  BY <1>1, <1>4
<1>10. QED
  BY <1>2, <1>4, <1>6, <1>7, <1>8, <1>9, QuietStep DEF r, new

LEMMA FetchSettlementsKeeps ==
    ASSUME PortfolioAssumption, SyncInv, NEW p \in Procs, FetchSettlements(p)
    PROVE  SyncInv'
<1> DEFINE r == run[p]
           new == [r EXCEPT !.got = Settled, !.pc = "keys"]
<1>1. r \in Runs /\ r.pc = "settlements" /\ TablesTyped /\ run \in [Procs -> Runs]
  BY DEF SyncInv, TablesTyped, FetchSettlements
<1>2. Go(p, new) /\ UNCHANGED <<tables, synced, fresh>>
  BY DEF FetchSettlements
<1>3. Settled \in SUBSET Things
  BY DEF Settled, Things
<1> HIDE DEF r
<1>4. /\ new \in Runs /\ new.lone = r.lone /\ new.read = r.read /\ new.ids = r.ids
      /\ new.got = Settled /\ new.twice = r.twice /\ new.pc = "keys"
  BY <1>1, <1>3 DEF Runs, Stages
<1> HIDE DEF new
<1>5. /\ run'[p] = new /\ fills' = fills /\ trades' = trades /\ UNCHANGED exchange
      /\ Settled' = Settled
  BY <1>1, <1>2 DEF Go, tables, exchange, Settled
<1>6. Staged(p)'
  <2>1. Staged(p)
    BY DEF SyncInv
  <2>2. r.twice = {} /\ r.ids \subseteq 1..Len(r.read)
    BY <1>1, <2>1 DEF Staged, r
  <2>3. QED
    BY <1>4, <1>5, <2>2 DEF Staged
<1>7. ASSUME r.lone PROVE LoneRight(p)'
  <2>1. LoneRight(p)
    BY <1>7 DEF SyncInv, r
  <2>2. trades = 1..Len(fills) /\ OneRowEach
    BY <1>1, <2>1 DEF LoneRight, r, Filled
  <2>3. OneRowEach'
    BY <1>1, <1>2, <1>5, <2>2, KeptSame
  <2>4. QED
    BY <1>4, <1>5, <2>2, <2>3 DEF LoneRight, Filled, Paid
<1>8. InStep(p)'
  BY <1>4, <1>5 DEF InStep
<1>9. r.pc # "idle" /\ new.pc # "idle" /\ new.pc # "write"
  BY <1>1, <1>4
<1>10. QED
  BY <1>2, <1>4, <1>6, <1>7, <1>8, <1>9, QuietStep DEF r, new

LEMMA ReadSettlementsKeeps ==
    ASSUME PortfolioAssumption, SyncInv, NEW p \in Procs, ReadSettlements(p)
    PROVE  SyncInv'
<1> DEFINE r == run[p]
           new == [r EXCEPT !.known = settlements, !.pc = "settle"]
<1>1. r \in Runs /\ r.pc = "keys" /\ TablesTyped /\ run \in [Procs -> Runs]
  BY DEF SyncInv, TablesTyped, ReadSettlements
<1>2. Go(p, new) /\ UNCHANGED <<tables, synced, fresh>>
  BY DEF ReadSettlements
<1>3. settlements \in SUBSET Things
  BY <1>1 DEF TablesTyped, Settled, Things
<1> HIDE DEF r
<1>4. /\ new \in Runs /\ new.lone = r.lone /\ new.read = r.read /\ new.ids = r.ids
      /\ new.got = r.got /\ new.twice = r.twice /\ new.known = settlements /\ new.pc = "settle"
  BY <1>1, <1>3 DEF Runs, Stages
<1> HIDE DEF new
<1>5. /\ run'[p] = new /\ fills' = fills /\ trades' = trades /\ settlements' = settlements
      /\ UNCHANGED exchange /\ Settled' = Settled
  BY <1>1, <1>2 DEF Go, tables, exchange, Settled
<1>6. Staged(p)'
  <2>1. Staged(p)
    BY DEF SyncInv
  <2>2. r.twice = {} /\ r.ids \subseteq 1..Len(r.read) /\ r.got \subseteq Settled
    BY <1>1, <2>1 DEF Staged, r
  <2>3. QED
    BY <1>4, <1>5, <2>2 DEF Staged
<1>7. ASSUME r.lone PROVE LoneRight(p)'
  <2>1. LoneRight(p)
    BY <1>7 DEF SyncInv, r
  <2>2. trades = 1..Len(fills) /\ r.got = Settled /\ OneRowEach
    BY <1>1, <2>1 DEF LoneRight, r, Filled
  <2>3. OneRowEach'
    BY <1>1, <1>2, <1>5, <2>2, KeptSame
  <2>4. QED
    BY <1>4, <1>5, <2>2, <2>3 DEF LoneRight, Filled, Paid
<1>8. ASSUME synced PROVE InStep(p)'
  <2>1. settlements = Settled
    BY <1>8 DEF SyncInv, Kept
  <2>2. QED
    BY <1>4, <1>5, <2>1 DEF InStep
<1>9. r.pc # "idle" /\ new.pc # "idle" /\ new.pc # "write"
  BY <1>1, <1>4
<1>10. QED
  BY <1>2, <1>4, <1>6, <1>7, <1>8, <1>9, QuietStep DEF r, new

LEMMA FetchPositionsKeeps ==
    ASSUME PortfolioAssumption, SyncInv, NEW p \in Procs, FetchPositions(p)
    PROVE  SyncInv'
<1> DEFINE r == run[p]
           new == [r EXCEPT !.pos = position, !.pc = "rows"]
<1>1. r \in Runs /\ r.pc = "positions" /\ TablesTyped /\ run \in [Procs -> Runs]
  BY DEF SyncInv, TablesTyped, FetchPositions
<1>2. Go(p, new) /\ UNCHANGED <<tables, synced, fresh>>
  BY DEF FetchPositions
<1>3. position \in [Tickers -> Int]
  BY <1>1 DEF TablesTyped
<1> HIDE DEF r
<1>4. /\ new \in Runs /\ new.lone = r.lone /\ new.read = r.read /\ new.ids = r.ids
      /\ new.got = r.got /\ new.twice = r.twice /\ new.pos = position /\ new.pc = "rows"
  BY <1>1, <1>3 DEF Runs, Stages
<1> HIDE DEF new
<1>5. /\ run'[p] = new /\ fills' = fills /\ trades' = trades /\ settlements' = settlements
      /\ UNCHANGED exchange /\ Settled' = Settled /\ position' = position
  BY <1>1, <1>2 DEF Go, tables, exchange, Settled
<1>6. Staged(p)'
  <2>1. Staged(p)
    BY DEF SyncInv
  <2>2. r.twice = {} /\ r.ids \subseteq 1..Len(r.read)
    BY <1>1, <2>1 DEF Staged, r
  <2>3. QED
    BY <1>4, <1>5, <2>2 DEF Staged
<1>7. ASSUME r.lone PROVE LoneRight(p)'
  <2>1. LoneRight(p)
    BY <1>7 DEF SyncInv, r
  <2>2. trades = 1..Len(fills) /\ settlements = Settled /\ OneRowEach
    BY <1>1, <2>1 DEF LoneRight, r, Filled, Paid
  <2>3. OneRowEach'
    BY <1>1, <1>2, <1>5, <2>2, KeptSame
  <2>4. QED
    BY <1>4, <1>5, <2>2, <2>3 DEF LoneRight, Filled, Paid
<1>8. InStep(p)'
  BY <1>4, <1>5 DEF InStep
<1>9. r.pc # "idle" /\ new.pc # "idle" /\ new.pc # "write"
  BY <1>1, <1>4
<1>10. QED
  BY <1>2, <1>4, <1>6, <1>7, <1>8, <1>9, QuietStep DEF r, new

LEMMA ReadRowsKeeps ==
    ASSUME PortfolioAssumption, SyncInv, NEW p \in Procs, ReadRows(p)
    PROVE  SyncInv'
<1> DEFINE r == run[p]
           open == {i \in 1..Len(rows) : ~rows[i].closed}
           new == [r EXCEPT !.read = rows, !.pc = "write", !.ids = open]
<1>1. r \in Runs /\ r.pc = "rows" /\ TablesTyped /\ run \in [Procs -> Runs] /\ RowsFew
  BY DEF SyncInv, TablesTyped, ReadRows
<1>2. Go(p, new) /\ UNCHANGED <<tables, synced, fresh>>
  BY DEF ReadRows
<1>3. rows \in Seq(Rows) /\ open \in SUBSET Nat
  BY <1>1 DEF TablesTyped
<1> HIDE DEF r
<1>4. /\ new \in Runs /\ new.lone = r.lone /\ new.read = rows /\ new.ids = open
      /\ new.got = r.got /\ new.twice = r.twice /\ new.pos = r.pos /\ new.pc = "write"
  BY <1>1, <1>3 DEF Runs, Stages
<1> HIDE DEF new
<1>5. /\ run'[p] = new /\ fills' = fills /\ trades' = trades /\ settlements' = settlements
      /\ UNCHANGED exchange /\ Settled' = Settled /\ position' = position /\ rows' = rows
  BY <1>1, <1>2 DEF Go, tables, exchange, Settled
<1>6. Staged(p)'
  <2>1. Staged(p)
    BY DEF SyncInv
  <2>2. r.twice = {}
    BY <1>1, <2>1 DEF Staged, r
  <2>3. QED
    BY <1>4, <1>5, <2>2 DEF Staged
<1>7. ASSUME r.lone PROVE LoneRight(p)'
  <2>1. LoneRight(p)
    BY <1>7 DEF SyncInv, r
  <2>2. trades = 1..Len(fills) /\ settlements = Settled /\ OneRowEach /\ r.pos = position
    BY <1>1, <2>1 DEF LoneRight, r, Filled, Paid
  <2>3. OneRowEach'
    BY <1>1, <1>2, <1>5, <2>2, KeptSame
  <2>4. QED
    BY <1>4, <1>5, <2>2, <2>3 DEF LoneRight, Filled, Paid
<1>8. ASSUME synced PROVE InStep(p)'
  <2>1. InStep(p)
    BY <1>8 DEF SyncInv
  <2>2. r.pos = position
    BY <1>1, <2>1 DEF InStep, r
  <2>3. SameKeys(rows, rows)
    BY SameKeysItself
  <2>4. QED
    BY <1>4, <1>5, <2>2, <2>3 DEF InStep
<1>9. r.pc # "idle" /\ new.pc # "idle"
  BY <1>1, <1>4
<1>10. RowsFew'
  BY <1>1, FewRead
<1>11. QED
  BY <1>2, <1>4, <1>6, <1>7, <1>8, <1>9, <1>10, QuietStep DEF r, new

LEMMA ReadOpenKeeps ==
    ASSUME PortfolioAssumption, SyncInv, NEW p \in Procs, ReadOpen(p)
    PROVE  SyncInv'
<1> DEFINE r == run[p]
           open == {i \in 1..Len(rows) : rows[i].qty > 0 /\ ~rows[i].closed}
           new == [r EXCEPT !.pc = "quotes", !.read = rows, !.ids = open]
<1>1. r \in Runs /\ r.pc = "marks" /\ TablesTyped /\ run \in [Procs -> Runs]
  BY DEF SyncInv, TablesTyped, ReadOpen
<1>2. CASE open = {}
  <2>1. Finish(p, {}) /\ UNCHANGED tables
    BY <1>2 DEF ReadOpen
  <2>2. QED
    BY <1>1, <2>1, FinishKeeps
<1>3. CASE open # {}
  <2>1. Go(p, new) /\ UNCHANGED <<tables, synced, fresh>>
    BY <1>3 DEF ReadOpen
  <2>2. rows \in Seq(Rows) /\ open \in SUBSET Nat
    BY <1>1 DEF TablesTyped
  <2> HIDE DEF r
  <2>3. /\ new \in Runs /\ new.lone = r.lone /\ new.read = rows /\ new.ids = open
        /\ new.got = r.got /\ new.twice = r.twice /\ new.pos = r.pos /\ new.pc = "quotes"
    BY <1>1, <2>2 DEF Runs, Stages
  <2> HIDE DEF new
  <2>4. /\ run'[p] = new /\ fills' = fills /\ trades' = trades /\ settlements' = settlements
        /\ UNCHANGED exchange /\ Settled' = Settled /\ position' = position /\ rows' = rows
        /\ fresh' = fresh
    BY <1>1, <2>1 DEF Go, tables, exchange, Settled
  <2>5. Staged(p)'
    <3>1. Staged(p)
      BY DEF SyncInv
    <3>2. r.twice = {}
      BY <1>1, <3>1 DEF Staged, r
    <3>3. QED
      BY <2>3, <2>4, <3>2 DEF Staged
  <2>6. ASSUME r.lone PROVE LoneRight(p)'
    <3>1. LoneRight(p)
      BY <2>6 DEF SyncInv, r
    <3>2. trades = 1..Len(fills) /\ settlements = Settled /\ RowsRight
      BY <1>1, <3>1 DEF LoneRight, r, Filled, Paid
    <3>3. RowsRight'
      BY <1>1, <2>1, <2>4, <3>2, KeptSame
    <3>4. QED
      BY <2>3, <2>4, <3>2, <3>3 DEF LoneRight, Filled, Paid
  <2>7. ASSUME synced PROVE InStep(p)'
    <3>1. \A t \in fresh : \A i \in OpenRows(t) : Shown(rows[i])
      BY <2>7 DEF SyncInv, Kept
    <3>2. SameKeys(rows, rows)
      BY SameKeysItself
    <3>3. \A i \in open : rows[i].ticker \in fresh => Shown(rows[i])
      BY <3>1 DEF OpenRows
    <3>4. QED
      BY <2>3, <2>4, <3>2, <3>3 DEF InStep
  <2>8. r.pc # "idle" /\ new.pc # "idle" /\ new.pc # "write"
    BY <1>1, <2>3
  <2>9. QED
    BY <2>1, <2>3, <2>5, <2>6, <2>7, <2>8, QuietStep DEF r, new
<1>4. QED
  BY <1>2, <1>3

LEMMA AbortKeeps ==
    ASSUME PortfolioAssumption, SyncInv, NEW p \in Procs, Abort(p)
    PROVE  SyncInv'
  BY StopKeeps DEF Abort, GiveUp

-----------------------------------------------------------------------------
LEMMA InsertTradesKeeps ==
    ASSUME PortfolioAssumption, SyncInv, NEW p \in Procs, InsertTrades(p)
    PROVE  SyncInv'
<1> DEFINE r == run[p]
           add == r.got \ r.known
           new == [r EXCEPT !.pc = "settlements", !.got = {}, !.twice = {}, !.known = {}, !.oldest = 0]
           N == Len(fills)
<1>1. /\ r \in Runs /\ r.pc = "insert" /\ TablesTyped /\ run \in [Procs -> Runs] /\ RowsFew
      /\ N \in Nat /\ trades \subseteq 1..N /\ Staged(p)
  <2>1. TablesTyped /\ RowsFew /\ Staged(p)
    BY DEF SyncInv
  <2>2. r \in Runs /\ run \in [Procs -> Runs]
    BY <2>1 DEF TablesTyped
  <2>3. N \in Nat /\ trades \subseteq 1..N
    BY <2>1 DEF TablesTyped
  <2>4. QED
    BY <2>1, <2>2, <2>3 DEF InsertTrades
<1>2. CASE ~(add \cap (r.twice \cup trades) = {})
  <2>1. Go(p, NoRun) /\ UNCHANGED <<tables, synced, fresh>>
    BY <1>2 DEF InsertTrades, GiveUp
  <2>2. QED
    BY <1>1, <2>1, StopKeeps
<1>3. CASE add \cap (r.twice \cup trades) = {}
  <2>1. /\ trades' = trades \cup add /\ Go(p, new)
        /\ UNCHANGED <<settlements, rows, synced, fresh>>
    BY <1>3 DEF InsertTrades
  <2>2. r.got \subseteq 1..N /\ r.ids \subseteq 1..Len(r.read)
    BY <1>1 DEF Staged, r
  <2> HIDE DEF r
  <2>3. /\ new \in Runs /\ new.lone = r.lone /\ new.read = r.read /\ new.ids = r.ids
        /\ new.got = {} /\ new.twice = {} /\ new.known = {} /\ new.pc = "settlements"
    BY <1>1 DEF Runs, Stages
  <2> HIDE DEF new
  <2>4. /\ run' = [run EXCEPT ![p] = new] /\ UNCHANGED exchange /\ fills' = fills
        /\ Settled' = Settled /\ position' = position /\ syncs' = syncs
    BY <2>1 DEF Go, exchange, Settled
  <2>5. run'[p] = new /\ \A q \in Procs \ {p} : run'[q] = run[q]
    BY <1>1, <2>4
  <2>6. trades' \subseteq 1..N
    BY <1>1, <2>1, <2>2
  <2>7. TablesTyped'
    BY <1>1, <2>1, <2>3, <2>4, <2>6 DEF TablesTyped, exchange
  <2>8. Staged(p)'
    BY <2>2, <2>3, <2>5 DEF Staged
  <2>9. SameKeys(rows, rows')
    BY <2>1, SameKeysItself
  <2>10. ASSUME r.lone PROVE LoneRight(p)'
    <3>1. LoneRight(p)
      BY <2>10 DEF SyncInv, r
    <3>2. r.got = 1..N /\ r.known = trades /\ OneRowEach
      BY <1>1, <3>1 DEF LoneRight, r
    <3>3. trades' = 1..N
      BY <1>1, <2>1, <3>2
    <3>4. OneRowEach'
      BY <2>1, <3>2 DEF OneRowEach, OpenRows
    <3>5. QED
      BY <2>3, <2>4, <2>5, <3>3, <3>4 DEF LoneRight, Filled, Paid
  <2>11. ASSUME synced PROVE Kept'
    <3>1. Kept /\ InStep(p)
      BY <2>11 DEF SyncInv
    <3>2. trades = 1..N /\ r.known = 1..N
      BY <1>1, <3>1 DEF Kept, InStep, r
    <3>3. trades' = trades
      BY <2>1, <2>2, <3>2
    <3>4. UNCHANGED tables /\ UNCHANGED <<fresh>>
      BY <2>1, <3>3 DEF tables
    <3>5. QED
      BY <1>1, <2>4, <3>1, <3>4, KeptSame
  <2>12. InStep(p)'
    BY <2>3, <2>5 DEF InStep
  <2>13. RowsFew'
    <3>1. \A q \in Procs : run'[q].pc = "write" =>
              run[q].pc = "write" /\ run'[q].read = run[q].read /\ run'[q].ids = run[q].ids
      BY <2>3, <2>5
    <3>2. QED
      BY <1>1, <2>9, <3>1, FewKept
  <2>14. ~synced => fresh = {}
    BY DEF SyncInv
  <2>15. /\ run[p].pc # "idle"
         /\ run'[p].lone => run[p].lone /\ run'[p].pc # "idle" /\ LoneRight(p)'
    BY <1>1, <2>3, <2>5, <2>10 DEF r
  <2>16. QED
    BY <2>1, <2>4, <2>5, <2>7, <2>8, <2>9, <2>11, <2>12, <2>13, <2>14, <2>15, StepKeeps
<1>4. QED
  BY <1>2, <1>3

LEMMA InsertSettlementsKeeps ==
    ASSUME PortfolioAssumption, SyncInv, NEW p \in Procs, InsertSettlements(p)
    PROVE  SyncInv'
<1> DEFINE r == run[p]
           add == r.got \ r.known
           new == [r EXCEPT !.pc = "positions", !.got = {}, !.known = {}]
           N == Len(fills)
<1>1. /\ r \in Runs /\ r.pc = "settle" /\ TablesTyped /\ run \in [Procs -> Runs] /\ RowsFew
      /\ settlements \subseteq Settled /\ Staged(p)
  BY DEF SyncInv, TablesTyped, InsertSettlements
<1>2. CASE ~(add \cap settlements = {})
  <2>1. Go(p, NoRun) /\ UNCHANGED <<tables, synced, fresh>>
    BY <1>2 DEF InsertSettlements, GiveUp
  <2>2. QED
    BY <1>1, <2>1, StopKeeps
<1>3. CASE add \cap settlements = {}
  <2>1. /\ settlements' = settlements \cup add /\ Go(p, new)
        /\ UNCHANGED <<trades, rows, synced, fresh>>
    BY <1>3 DEF InsertSettlements
  <2>2. r.got \subseteq Settled /\ r.ids \subseteq 1..Len(r.read) /\ r.twice = {}
    BY <1>1 DEF Staged, r
  <2> HIDE DEF r
  <2>3. /\ new \in Runs /\ new.lone = r.lone /\ new.read = r.read /\ new.ids = r.ids
        /\ new.got = {} /\ new.twice = r.twice /\ new.known = {} /\ new.pc = "positions"
    BY <1>1 DEF Runs, Stages
  <2> HIDE DEF new
  <2>4. /\ run' = [run EXCEPT ![p] = new] /\ UNCHANGED exchange /\ fills' = fills
        /\ Settled' = Settled /\ position' = position /\ syncs' = syncs
    BY <2>1 DEF Go, exchange, Settled
  <2>5. run'[p] = new /\ \A q \in Procs \ {p} : run'[q] = run[q]
    BY <1>1, <2>4
  <2>6. settlements' \subseteq Settled'
    BY <1>1, <2>1, <2>2, <2>4
  <2>7. TablesTyped'
    BY <1>1, <2>1, <2>3, <2>4, <2>6 DEF TablesTyped, exchange
  <2>8. Staged(p)'
    BY <2>2, <2>3, <2>5 DEF Staged
  <2>9. SameKeys(rows, rows')
    BY <2>1, SameKeysItself
  <2>10. ASSUME r.lone PROVE LoneRight(p)'
    <3>1. LoneRight(p)
      BY <2>10 DEF SyncInv, r
    <3>2. r.got = Settled /\ r.known = settlements /\ OneRowEach /\ trades = 1..N
      BY <1>1, <3>1 DEF LoneRight, r, Filled
    <3>3. settlements' = Settled
      BY <1>1, <2>1, <3>2
    <3>4. OneRowEach'
      BY <2>1, <3>2 DEF OneRowEach, OpenRows
    <3>5. QED
      BY <2>1, <2>3, <2>4, <2>5, <3>2, <3>3, <3>4 DEF LoneRight, Filled, Paid
  <2>11. ASSUME synced PROVE Kept'
    <3>1. Kept /\ InStep(p)
      BY <2>11 DEF SyncInv
    <3>2. settlements = Settled /\ r.known = Settled
      BY <1>1, <3>1 DEF Kept, InStep, r
    <3>3. settlements' = settlements
      BY <2>1, <2>2, <3>2
    <3>4. UNCHANGED tables /\ UNCHANGED <<fresh>>
      BY <2>1, <3>3 DEF tables
    <3>5. QED
      BY <1>1, <2>4, <3>1, <3>4, KeptSame
  <2>12. InStep(p)'
    BY <2>3, <2>5 DEF InStep
  <2>13. RowsFew'
    <3>1. \A q \in Procs : run'[q].pc = "write" =>
              run[q].pc = "write" /\ run'[q].read = run[q].read /\ run'[q].ids = run[q].ids
      BY <2>3, <2>5
    <3>2. QED
      BY <1>1, <2>9, <3>1, FewKept
  <2>14. ~synced => fresh = {}
    BY DEF SyncInv
  <2>15. /\ run[p].pc # "idle"
         /\ run'[p].lone => run[p].lone /\ run'[p].pc # "idle" /\ LoneRight(p)'
    BY <1>1, <2>3, <2>5, <2>10 DEF r
  <2>16. QED
    BY <2>1, <2>4, <2>5, <2>7, <2>8, <2>9, <2>11, <2>12, <2>13, <2>14, <2>15, StepKeeps
<1>4. QED
  BY <1>2, <1>3

-----------------------------------------------------------------------------
(* The runs are the same but for being alone.                               *)
LEMMA OverlappedRuns ==
    ASSUME PortfolioAssumption, TablesTyped, RowsFew, \A p \in Procs : Staged(p),
           Len(fills) <= Len(fills'), Settled \subseteq Settled', Len(fills') \in Nat,
           NEW q \in Procs, run'[q] = [run[q] EXCEPT !.lone = FALSE]
    PROVE  /\ Staged(q)' /\ run'[q] \in Runs /\ ~run'[q].lone
           /\ run'[q].pc = run[q].pc /\ run'[q].known = run[q].known /\ run'[q].pos = run[q].pos
           /\ run'[q].read = run[q].read /\ run'[q].ids = run[q].ids
<1> DEFINE r == run[q]
           new == [r EXCEPT !.lone = FALSE]
<1>1. r \in Runs /\ Len(fills) \in Nat
  BY DEF TablesTyped
<1>2. Staged(q)
  OBVIOUS
<1>3. run'[q] = new
  OBVIOUS
<1> HIDE DEF r
<1>4. /\ new \in Runs /\ new.lone = FALSE /\ new.pc = r.pc /\ new.known = r.known
      /\ new.pos = r.pos /\ new.read = r.read /\ new.ids = r.ids /\ new.got = r.got
      /\ new.twice = r.twice /\ new.oldest = r.oldest
  BY <1>1 DEF Runs
<1> HIDE DEF new
<1>5. /\ r.oldest \in Nat /\ r.oldest <= Len(fills) => r.oldest <= Len(fills')
      /\ r.got \subseteq 1..Len(fills) => r.got \subseteq 1..Len(fills')
      /\ r.got \subseteq Settled => r.got \subseteq Settled'
  BY <1>1 DEF Runs
<1>6. r.oldest \in Nat
  BY <1>1 DEF Runs
<1>7. Staged(q)'
  BY <1>2, <1>3, <1>4, <1>5, <1>6 DEF Staged, r
<1>8. QED
  BY <1>3, <1>4, <1>7 DEF r

LEMMA MovedKeeps ==
    ASSUME PortfolioAssumption, SyncInv,
           (\E f \in FillKinds : Fill(f)) \/ (\E t \in Tickers, r \in Results \ {"open"} : Settle(t, r))
    PROVE  SyncInv'
<1>1. /\ run \in [Procs -> Runs] /\ TablesTyped /\ RowsFew /\ \A p \in Procs : Staged(p)
  BY DEF SyncInv, TablesTyped
<1>2. Moved
  BY DEF Fill, Settle
<1>3. /\ run' = [p \in Procs |-> [run[p] EXCEPT !.lone = FALSE]] /\ synced' = FALSE /\ fresh' = {}
      /\ rows' = rows /\ trades' = trades /\ settlements' = settlements /\ syncs' = syncs
  BY <1>2 DEF Moved, tables
<1>4. ExchangeTyped'
  <2>1. ExchangeTyped
    BY <1>1, FillsAreTrades DEF ExchangeTyped, TablesTyped
  <2>2. QED
    BY <2>1, TypedNext
<1>5. fills' \in Seq(FillKinds) /\ Len(fills) <= Len(fills') /\ Settled \subseteq Settled'
  <2>1. CASE \E f \in FillKinds : Fill(f)
    <3>1. PICK f \in FillKinds : fills' = Append(fills, f) /\ result' = result
      BY <2>1 DEF Fill
    <3>2. fills \in Seq(FillKinds)
      BY <1>1 DEF TablesTyped
    <3>3. QED
      BY <3>1, <3>2 DEF Settled
  <2>2. CASE \E t \in Tickers, r \in Results \ {"open"} : Settle(t, r)
    <3>1. PICK t \in Tickers, r \in Results \ {"open"} :
              fills' = fills /\ result' = [result EXCEPT ![t] = r]
      BY <2>2 DEF Settle
    <3>2. fills \in Seq(FillKinds) /\ result \in [Tickers -> Results]
      BY <1>1 DEF TablesTyped
    <3>3. Settled \subseteq Settled'
      BY <3>1, <3>2 DEF Settled
    <3>4. QED
      BY <3>1, <3>2, <3>3
  <2>3. QED
    BY <2>1, <2>2
<1>6. Len(fills') \in Nat /\ Len(fills) \in Nat
  BY <1>1, <1>5 DEF TablesTyped
<1>7. \A q \in Procs : run'[q] = [run[q] EXCEPT !.lone = FALSE]
  BY <1>3
<1>8. \A q \in Procs : /\ Staged(q)' /\ run'[q] \in Runs /\ ~run'[q].lone
                       /\ run'[q].pc = run[q].pc /\ run'[q].read = run[q].read
                       /\ run'[q].ids = run[q].ids
  BY <1>1, <1>5, <1>6, <1>7, OverlappedRuns
<1>9. TablesTyped'
  <2>1. trades' \subseteq 1..Len(fills')
    BY <1>1, <1>3, <1>5, <1>6 DEF TablesTyped
  <2>2. settlements' \subseteq Settled'
    BY <1>1, <1>3, <1>5 DEF TablesTyped
  <2>3. run' \in [Procs -> Runs]
    BY <1>3, <1>8
  <2>4. rows' \in Seq(Rows) /\ syncs' \in 0..MaxSyncs
    BY <1>1, <1>3 DEF TablesTyped
  <2>5. QED
    BY <1>3, <1>4, <1>5, <2>1, <2>2, <2>3, <2>4 DEF TablesTyped, ExchangeTyped
<1>10. RowsFew'
  <2>1. SameKeys(rows, rows')
    BY <1>3, SameKeysItself
  <2>2. QED
    BY <1>1, <1>8, <2>1, FewKept
<1>11. QED
  BY <1>3, <1>8, <1>9, <1>10 DEF SyncInv

LEMMA OneRowFromCount ==
    ASSUME TablesTyped, ~Duplicates
    PROVE  OneRowEach
<1> SUFFICES ASSUME NEW t \in Tickers, NEW i \in OpenRows(t), NEW j \in OpenRows(t), i # j
             PROVE  FALSE
  BY DEF OneRowEach
<1>1. Len(rows) \in Nat
  BY DEF TablesTyped
<1>2. OpenRows(t) \in SUBSET (1..Len(rows)) /\ IsFiniteSet(1..Len(rows))
  BY <1>1, FS_Interval DEF OpenRows
<1>3. IsFiniteSet(OpenRows(t)) /\ Cardinality(OpenRows(t)) \in Nat
  BY <1>2, FS_Subset, FS_CardinalityType
<1>4. IsFiniteSet({i, j}) /\ Cardinality({i, j}) = 2
  <2>1. IsFiniteSet({i}) /\ Cardinality({i}) = 1
    BY FS_Singleton
  <2>2. IsFiniteSet({i} \cup {j}) /\ Cardinality({i} \cup {j}) = (IF j \in {i} THEN 1 ELSE 1 + 1)
    BY <2>1, FS_AddElement
  <2>3. {i} \cup {j} = {i, j}
    OBVIOUS
  <2>4. j \notin {i}
    OBVIOUS
  <2>5. QED
    BY <2>2, <2>3, <2>4
<1>5. Cardinality({i, j}) <= Cardinality(OpenRows(t))
  <2>1. {i, j} \in SUBSET OpenRows(t)
    OBVIOUS
  <2>2. QED
    BY <1>3, <2>1, FS_Subset
<1>6. QED
  BY <1>3, <1>4, <1>5 DEF Duplicates

LEMMA BeginKeeps ==
    ASSUME PortfolioAssumption, SyncInv, NEW p \in Procs, BeginSync(p)
    PROVE  SyncInv'
<1> DEFINE alone == ~Duplicates /\ \A o \in Procs : run[o].pc = "idle"
           new == [NoRun EXCEPT !.pc = "fills", !.lone = alone]
<1>1. /\ run \in [Procs -> Runs] /\ TablesTyped /\ RowsFew /\ \A q \in Procs : Staged(q)
      /\ run[p].pc = "idle" /\ UNCHANGED <<exchange, tables, synced, fresh>> /\ syncs' \in 0..MaxSyncs
  <2>1. syncs \in 0..MaxSyncs /\ syncs < MaxSyncs /\ syncs' = syncs + 1 /\ MaxSyncs \in Nat
    BY DEF SyncInv, TablesTyped, BeginSync, PortfolioAssumption
  <2>2. syncs' \in 0..MaxSyncs
    BY <2>1
  <2>3. UNCHANGED <<exchange, tables, synced, fresh>> /\ run[p].pc = "idle"
    BY DEF BeginSync
  <2>4. TablesTyped /\ RowsFew /\ \A q \in Procs : Staged(q)
    BY DEF SyncInv
  <2>5. run \in [Procs -> Runs]
    BY <2>4 DEF TablesTyped
  <2>6. QED
    BY <2>2, <2>3, <2>4, <2>5
<1>2. run' = [q \in Procs |-> IF q = p THEN new ELSE [run[q] EXCEPT !.lone = FALSE]]
  BY DEF BeginSync
<1>3. alone \in BOOLEAN
  OBVIOUS
<1> HIDE DEF alone
<1>4. /\ new \in Runs /\ new.lone = alone /\ new.pc = "fills" /\ new.oldest = 0 /\ new.got = {}
      /\ new.twice = {} /\ new.ids = {}
  <2>1. new = [NoRun EXCEPT !.pc = "fills", !.lone = alone]
    OBVIOUS
  <2>2. /\ NoRun.oldest = 0 /\ NoRun.got = {} /\ NoRun.twice = {} /\ NoRun.ids = {}
    BY DEF NoRun
  <2> HIDE DEF new
  <2>3. QED
    BY <1>3, <2>1, <2>2, NoRunTyped, ZenonT(60) DEF Runs, Stages
<1> HIDE DEF new
<1>5. run'[p] = new /\ \A q \in Procs \ {p} : run'[q] = [run[q] EXCEPT !.lone = FALSE]
  BY <1>2
<1>6. /\ fills' = fills /\ Settled' = Settled /\ Len(fills) \in Nat /\ rows' = rows
      /\ trades' = trades /\ settlements' = settlements /\ synced' = synced /\ fresh' = fresh
      /\ position' = position
  BY <1>1 DEF exchange, tables, Settled, TablesTyped
<1>7. Len(fills) <= Len(fills') /\ Settled \subseteq Settled' /\ Len(fills') \in Nat
  BY <1>6
<1>8. \A q \in Procs \ {p} :
          /\ Staged(q)' /\ run'[q] \in Runs /\ ~run'[q].lone
          /\ run'[q].pc = run[q].pc /\ run'[q].known = run[q].known /\ run'[q].pos = run[q].pos
          /\ run'[q].read = run[q].read /\ run'[q].ids = run[q].ids
  BY <1>1, <1>5, <1>7, OverlappedRuns
<1>9. Staged(p)'
  BY <1>4, <1>5, <1>6 DEF Staged
<1>10. TablesTyped'
  <2>1. run' \in [Procs -> Runs]
    BY <1>2, <1>4, <1>5, <1>8
  <2>2. QED
    BY <1>1, <1>6, <2>1 DEF TablesTyped, exchange
<1>11. ASSUME alone PROVE LoneRight(p)' /\ \A q \in Procs \ {p} : run'[q].pc = "idle"
  <2>1. OneRowEach
    BY <1>1, <1>11, OneRowFromCount DEF alone
  <2>2. OneRowEach'
    BY <1>6, <2>1 DEF OneRowEach, OpenRows
  <2>3. \A q \in Procs \ {p} : run'[q].pc = "idle"
    BY <1>8, <1>11 DEF alone
  <2>4. QED
    BY <1>4, <1>5, <2>2, <2>3 DEF LoneRight, Filled, Paid
<1>12. \A q \in Procs : (run[q].lone => LoneRight(q) /\ run[q].pc # "idle"
                                       /\ \A o \in Procs \ {q} : run[o].pc = "idle")'
  BY <1>4, <1>5, <1>8, <1>11
<1>13. RowsFew'
  <2>1. SameKeys(rows, rows')
    BY <1>6, SameKeysItself
  <2>2. \A q \in Procs : run'[q].pc = "write" =>
            run[q].pc = "write" /\ run'[q].read = run[q].read /\ run'[q].ids = run[q].ids
    BY <1>4, <1>5, <1>8
  <2>3. QED
    BY <1>1, <2>1, <2>2, FewKept
<1>14. ASSUME synced PROVE Kept' /\ \A q \in Procs : InStep(q)'
  <2>1. Kept /\ \A q \in Procs : InStep(q)
    BY <1>14 DEF SyncInv
  <2>2. Kept'
    BY <1>1, <2>1, KeptSame
  <2>3. ASSUME NEW q \in Procs \ {p} PROVE InStep(q)'
    <3>1. InStep(q)
      BY <2>1
    <3>2. QED
      BY <1>6, <1>8, <3>1 DEF InStep
  <2>4. InStep(p)'
    BY <1>4, <1>5 DEF InStep
  <2>5. QED
    BY <2>2, <2>3, <2>4
<1>15. ~synced => fresh = {}
  BY DEF SyncInv
<1>16. QED
  BY <1>6, <1>8, <1>9, <1>10, <1>12, <1>13, <1>14, <1>15 DEF SyncInv

-----------------------------------------------------------------------------
LEMMA SizeIs == \A n \in Int : Size(n) \in Nat /\ (n # 0 => Size(n) > 0 /\ Size(n) # 0)
  BY DEF Size

(* A run in step with right tables finds nothing to write.                  *)
LEMMA WriteInStep ==
    ASSUME PortfolioAssumption, SyncInv, NEW p \in Procs, WriteRows(p), synced
    PROVE  rows' = rows
<1> DEFINE r == run[p]
<1>1. TablesTyped /\ Staged(p) /\ Kept /\ InStep(p) /\ r.pc = "write"
  BY DEF SyncInv, WriteRows
<1>2. r \in Runs /\ rows \in Seq(Rows) /\ Len(rows) \in Nat /\ position \in [Tickers -> Int]
  BY <1>1 DEF TablesTyped
<1>3. r.ids = {i \in 1..Len(r.read) : ~r.read[i].closed} /\ r.ids \subseteq 1..Len(r.read)
  BY <1>1 DEF Staged
<1>4. r.pos = position /\ SameKeys(r.read, rows)
  BY <1>1 DEF InStep
<1>5. /\ Len(r.read) = Len(rows)
      /\ \A i \in 1..Len(rows) :
          /\ r.read[i].ticker = rows[i].ticker /\ r.read[i].side = rows[i].side
          /\ r.read[i].qty = rows[i].qty /\ r.read[i].avg = rows[i].avg
          /\ r.read[i].closed = rows[i].closed
  BY <1>4 DEF SameKeys
<1>6. \A i \in 1..Len(rows) : rows[i] \in Rows /\ rows[i].ticker \in Tickers
  <2>1. \A i \in 1..Len(rows) : rows[i] \in Rows
    BY <1>2
  <2>2. \A x \in Rows : x.ticker \in Tickers
    BY DEF Rows
  <2>3. QED
    BY <2>1, <2>2
<1>7. \A t \in Tickers : RowRight(t)
  BY <1>1 DEF Kept, RowsRight
<1> HIDE DEF r
<1>8. ASSUME NEW i \in r.ids
      PROVE  LET t == r.read[i].ticker
             IN  /\ t \in Tickers /\ position[t] \in Int /\ position[t] # 0
                 /\ OpenRows(t) = {i}
                 /\ r.read[i].qty = Size(position[t])
                 /\ r.read[i].side = SideOf(position[t])
                 /\ r.read[i].avg = Basis(t, SideOf(position[t]))
                 /\ Existing(r, t) = i
  <2> DEFINE t == r.read[i].ticker
  <2>1. i \in 1..Len(rows) /\ t = rows[i].ticker /\ t \in Tickers /\ ~rows[i].closed
    BY <1>3, <1>5, <1>6
  <2> HIDE DEF t
  <2>2. i \in OpenRows(t) /\ RowRight(t) /\ position[t] \in Int
    BY <1>2, <1>7, <2>1 DEF OpenRows
  <2>3. /\ position[t] # 0 /\ OpenRows(t) = {i} /\ rows[i].qty = Size(position[t])
        /\ rows[i].side = SideOf(position[t])
        /\ rows[i].avg = Basis(t, SideOf(position[t]))
    BY <2>2 DEF RowRight, Basis
  <2>4. r.read[i].qty > 0
    BY <1>5, <2>1, <2>2, <2>3, SizeIs
  <2>5. Existing(r, t) # 0 /\ Existing(r, t) \in r.ids /\ r.read[Existing(r, t)].ticker = t
    BY <1>2, <1>3, <2>4, ExistingIs DEF t
  <2>6. Existing(r, t) \in OpenRows(t)
    BY <1>3, <1>5, <2>5 DEF OpenRows
  <2>7. QED
    BY <1>5, <2>1, <2>2, <2>3, <2>6 DEF t
<1>9. ASSUME NEW i \in 1..Len(rows)
      PROVE  Updated(r, i) = rows[i]
  <2> DEFINE read == r.read[i]
             rev == Revised(r, i)
             n == r.pos[read.ticker]
             old == rows[i]
  <2>1. /\ read \in Rows /\ rev \in Rows /\ n \in Int
        /\ rev.ticker = read.ticker /\ rev.mark = read.mark /\ rev.unrealized = read.unrealized
        /\ UpdatedOf(r, i) => /\ rev.closed = read.closed /\ rev.qty = Size(n) /\ rev.side = SideOf(n)
                              /\ rev.avg = Basis(read.ticker, SideOf(n))
        /\ ~ClosedOf(r, i) /\ ~UpdatedOf(r, i) => rev = read
    <3>1. fills \in Seq(FillKinds) /\ i \in 1..Len(r.read)
      BY <1>1, <1>5 DEF TablesTyped
    <3>2. QED
      BY <1>2, <3>1, RevisedIs, ZenonT(60)
  <2>2. CASE i \in r.ids
    <3>1. UpdatedOf(r, i)
      <4>1. read.qty # 0
        <5>1. position[read.ticker] \in Int /\ position[read.ticker] # 0
              /\ read.qty = Size(position[read.ticker])
          BY <1>8, <2>2
        <5>2. QED
          BY <5>1, SizeIs
      <4>2. QED
        BY <1>4, <1>8, <2>2, <4>1 DEF UpdatedOf
    <3>2. /\ read.qty = Size(n) /\ read.side = SideOf(n) /\ read.avg = Basis(read.ticker, SideOf(n))
      BY <1>4, <1>8, <2>2
    <3> HIDE DEF read, rev, n
    <3>3. \A c \in Columns : rev[c] = read[c]
      BY <2>1, <3>1, <3>2 DEF Columns
    <3>4. \A c \in Columns : Put(old, read, rev)[c] = old[c]
      BY <1>6, <2>1, <3>3, PutColumns
    <3>5. Put(old, read, rev) = old
      BY <1>6, <2>1, <3>4, PutColumns, RowsEqual
    <3>6. QED
      BY <1>5, <3>5 DEF Updated, read, rev
  <2>3. CASE i \notin r.ids
    <3>1. rev = read
      BY <2>1, <2>3 DEF ClosedOf, UpdatedOf
    <3> HIDE DEF read, rev, n
    <3>2. \A c \in Columns : Put(old, read, rev)[c] = old[c]
      BY <1>6, <2>1, <3>1, PutColumns
    <3>3. Put(old, read, rev) = old
      BY <1>6, <2>1, <3>2, PutColumns, RowsEqual
    <3>4. QED
      BY <1>5, <3>3 DEF Updated, read, rev
  <2>4. QED
    BY <2>2, <2>3
<1>10. Missing(r) = {}
  <2> SUFFICES ASSUME NEW t \in Missing(r) PROVE FALSE
    OBVIOUS
  <2>1. t \in Tickers /\ position[t] # 0 /\ position[t] \in Int /\ Existing(r, t) = 0
    BY <1>2, <1>4 DEF Missing
  <2>2. PICK i \in 1..Len(rows) : OpenRows(t) = {i} /\ rows[i].qty = Size(position[t])
    BY <1>7, <2>1 DEF RowRight
  <2>3. ~rows[i].closed /\ rows[i].ticker = t
    BY <2>2 DEF OpenRows
  <2>4. i \in r.ids /\ r.read[i].ticker = t /\ r.read[i].qty > 0
    <3>1. i \in 1..Len(r.read) /\ ~r.read[i].closed /\ r.read[i].ticker = t
          /\ r.read[i].qty = Size(position[t])
      BY <1>5, <2>2, <2>3
    <3>2. QED
      BY <1>3, <2>1, <3>1, SizeIs
  <2>5. QED
    BY <1>2, <1>3, <2>1, <2>4, ExistingIs
<1>11. Written(r, rows')
  BY <1>1, RowsWritten DEF r
<1>12. Cardinality(Missing(r)) = 0
  BY <1>10, FS_EmptySet
<1>13. /\ rows' \in Seq(Rows) /\ Len(rows') = Len(rows) + 0
       /\ \A i \in 1..Len(rows) : rows'[i] = Updated(r, i)
  BY <1>11, <1>12 DEF Written
<1>14. Len(rows') = Len(rows) /\ \A i \in 1..Len(rows) : rows'[i] = rows[i]
  BY <1>2, <1>9, <1>13
<1>15. QED
  BY <1>2, <1>13, <1>14

(* A run that nothing overlaps makes the open rows right.                   *)
LEMMA WriteRepairs ==
    ASSUME PortfolioAssumption, SyncInv, NEW p \in Procs, WriteRows(p), run[p].lone
    PROVE  RowsRight'
<1> DEFINE r == run[p]
           n == Len(rows)
           m == Cardinality(Missing(r))
<1>1. TablesTyped /\ Staged(p) /\ LoneRight(p) /\ r.pc = "write"
  BY DEF SyncInv, WriteRows
<1>2. r \in Runs /\ rows \in Seq(Rows) /\ n \in Nat /\ position \in [Tickers -> Int]
  BY <1>1 DEF TablesTyped
<1>3. r.ids = {i \in 1..Len(r.read) : ~r.read[i].closed} /\ r.ids \subseteq 1..Len(r.read)
  BY <1>1 DEF Staged
<1>4. r.pos = position /\ r.read = rows /\ OneRowEach
  BY <1>1 DEF LoneRight
<1>5. \A i \in 1..n : rows[i] \in Rows /\ rows[i].ticker \in Tickers /\ rows[i].qty \in Nat
  <2>1. \A i \in 1..n : rows[i] \in Rows
    BY <1>2
  <2>2. \A x \in Rows : x.ticker \in Tickers /\ x.qty \in Nat
    BY DEF Rows
  <2>3. QED
    BY <2>1, <2>2
<1>6. fills' = fills /\ trades' = trades /\ position' = position /\ fills \in Seq(FillKinds)
  BY <1>1 DEF WriteRows, Finish, Go, exchange, TablesTyped
<1>7. \A t : Stored(t)' = Stored(t)
  BY <1>6, FillsAreTrades, StoredSame
<1> HIDE DEF r
<1>8. Written(r, rows')
  BY <1>1, RowsWritten DEF r
<1>9. /\ rows' \in Seq(Rows) /\ m \in Nat /\ Len(rows') = n + m
      /\ \A i \in 1..n : rows'[i] = Updated(r, i)
      /\ \A i \in (n + 1)..(n + m) : \E t \in Missing(r) : rows'[i] = Inserted(r, t)
      /\ \A t \in Missing(r) : \E i \in (n + 1)..(n + m) : rows'[i].ticker = t
      /\ \A i, j \in (n + 1)..(n + m) : rows'[i].ticker = rows'[j].ticker => i = j
  BY <1>8 DEF Written
<1>10. ASSUME NEW i \in 1..n
       PROVE  LET v == position[rows[i].ticker]
                  row == rows'[i]
              IN  /\ row.ticker = rows[i].ticker
                  /\ ClosedOf(r, i) => row.closed = TRUE
                  /\ UpdatedOf(r, i) => /\ row.closed = rows[i].closed /\ row.qty = Size(v)
                                        /\ row.side = SideOf(v)
                                        /\ row.avg = Basis(rows[i].ticker, SideOf(v))
                  /\ ~ClosedOf(r, i) /\ ~UpdatedOf(r, i) => row = rows[i]
  <2> DEFINE old == rows[i]
             rev == Revised(r, i)
             v == position[old.ticker]
  <2>1. /\ old \in Rows /\ rev \in Rows /\ rev.ticker = old.ticker
        /\ ClosedOf(r, i) => rev.closed = TRUE
        /\ UpdatedOf(r, i) => /\ rev.closed = old.closed /\ rev.qty = Size(v) /\ rev.side = SideOf(v)
                              /\ rev.avg = Basis(old.ticker, SideOf(v))
        /\ ~ClosedOf(r, i) /\ ~UpdatedOf(r, i) => rev = old
    BY <1>2, <1>4, <1>6, RevisedIs, ZenonT(60)
  <2>2. rows'[i] = Put(old, old, rev)
    BY <1>2, <1>4, <1>9 DEF Updated
  <2> HIDE DEF old, rev
  <2>3. \A c \in Columns : Put(old, old, rev)[c] = rev[c]
    BY <2>1, PutColumns
  <2>4. Put(old, old, rev) = rev
    BY <2>1, <2>3, PutColumns, RowsEqual
  <2>5. QED
    BY <2>1, <2>2, <2>4 DEF old
<1>11. ASSUME NEW i \in (n + 1)..(n + m)
       PROVE  LET t == rows'[i].ticker
                  v == position[t]
                  row == rows'[i]
              IN  /\ t \in Missing(r) /\ row.qty = Size(v) /\ row.side = SideOf(v)
                  /\ row.avg = Basis(t, SideOf(v)) /\ row.closed = FALSE
  <2>1. PICK t \in Missing(r) : rows'[i] = Inserted(r, t)
    BY <1>9
  <2> DEFINE row == Inserted(r, t)
  <2>2. /\ row.ticker = t /\ row.qty = Size(r.pos[t]) /\ row.side = SideOf(r.pos[t])
        /\ row.avg = Basis(t, SideOf(r.pos[t])) /\ row.closed = FALSE
    BY <1>2, <1>6, InsertedIs, ZenonT(60)
  <2>3. QED
    BY <1>4, <2>1, <2>2
<1>12. ASSUME NEW t \in Tickers, NEW i \in OpenRows(t)
       PROVE  /\ i \in r.ids /\ r.read[i].ticker = t /\ i \in 1..n
              /\ rows[i].qty # 0 => Existing(r, t) = i
  <2>1. i \in 1..n /\ ~rows[i].closed /\ rows[i].ticker = t
    BY DEF OpenRows
  <2>2. i \in r.ids
    BY <1>3, <1>4, <2>1
  <2>3. ASSUME rows[i].qty # 0 PROVE Existing(r, t) = i
    <3>1. r.read[i].qty > 0
      BY <1>4, <1>5, <2>1, <2>3
    <3>2. Existing(r, t) # 0 /\ Existing(r, t) \in r.ids /\ r.read[Existing(r, t)].ticker = t
      BY <1>2, <1>3, <1>4, <2>1, <2>2, <3>1, ExistingIs
    <3>3. Existing(r, t) \in OpenRows(t)
      BY <1>3, <1>4, <3>2 DEF OpenRows
    <3>4. QED
      BY <1>4, <3>3 DEF OneRowEach
  <2>4. QED
    BY <1>4, <2>1, <2>2, <2>3
<1>13. \A t, i : i \in OpenRows(t)' <=> i \in 1..(n + m) /\ rows'[i].ticker = t /\ ~rows'[i].closed
  BY <1>9 DEF OpenRows
<1>14. \A i \in 1..(n + m) : i \in 1..n \/ i \in (n + 1)..(n + m)
  BY <1>2, <1>9
<1>15. ASSUME NEW t \in Tickers, NEW i \in OpenRows(t)', i \in 1..n
       PROVE  /\ i \in OpenRows(t) /\ position[t] # 0 /\ Existing(r, t) = i
              /\ rows'[i].qty = Size(position[t]) /\ rows'[i].side = SideOf(position[t])
              /\ rows'[i].avg = Basis(t, SideOf(position[t]))
  <2>1. rows'[i].ticker = t /\ ~rows'[i].closed /\ rows[i].ticker = t
    BY <1>10, <1>13, <1>15, ZenonT(60)
  <2>2. ~rows[i].closed
    <3>1. CASE UpdatedOf(r, i)
      BY <1>10, <1>15, <2>1, <3>1
    <3>2. CASE ~UpdatedOf(r, i)
      BY <1>10, <1>15, <2>1, <3>2
    <3>3. QED
      BY <3>1, <3>2
  <2>3. i \in OpenRows(t)
    BY <1>15, <2>1, <2>2 DEF OpenRows
  <2>4. ~ClosedOf(r, i)
    BY <1>10, <1>15, <2>1
  <2>5. rows[i].qty # 0 /\ Existing(r, t) = i /\ i \in r.ids /\ r.read[i].ticker = t
    BY <1>4, <1>12, <2>3, <2>4 DEF ClosedOf
  <2>6. position[t] # 0
    BY <1>4, <2>4, <2>5 DEF ClosedOf
  <2>7. UpdatedOf(r, i)
    BY <1>4, <2>5, <2>6 DEF UpdatedOf
  <2>8. QED
    BY <1>10, <1>15, <2>1, <2>3, <2>5, <2>6, <2>7
<1>16. ASSUME NEW t \in Tickers PROVE RowRight(t)'
  <2>1. CASE position[t] = 0
    <3>1. ASSUME NEW i \in OpenRows(t)' PROVE FALSE
      <4>1. i \notin 1..n
        BY <1>15, <2>1, <3>1
      <4>2. i \in (n + 1)..(n + m) /\ rows'[i].ticker = t
        BY <1>13, <1>14, <3>1, <4>1
      <4>3. QED
        BY <1>4, <1>11, <2>1, <4>2 DEF Missing
    <3>2. OpenRows(t)' = {}
      BY <3>1
    <3>3. QED
      BY <1>6, <2>1, <3>2 DEF RowRight
  <2>2. CASE position[t] # 0 /\ t \in Missing(r)
    <3>1. PICK i \in (n + 1)..(n + m) : rows'[i].ticker = t
      BY <1>9, <2>2
    <3>2. /\ rows'[i].qty = Size(position[t]) /\ rows'[i].side = SideOf(position[t])
          /\ rows'[i].avg = Basis(t, SideOf(position[t])) /\ rows'[i].closed = FALSE
      BY <1>11, <3>1
    <3>3. i \in 1..(n + m)
      BY <1>2, <1>9
    <3>4. i \in OpenRows(t)'
      BY <1>13, <3>1, <3>2, <3>3
    <3>5. ASSUME NEW j \in OpenRows(t)' PROVE j = i
      <4>1. j \notin 1..n
        <5> SUFFICES ASSUME j \in 1..n PROVE FALSE
          OBVIOUS
        <5>1. Existing(r, t) = j
          BY <1>15, <3>5
        <5>2. j # 0
          BY <1>2
        <5>3. QED
          BY <2>2, <5>1, <5>2 DEF Missing
      <4>2. j \in (n + 1)..(n + m) /\ rows'[j].ticker = t
        BY <1>13, <1>14, <3>5, <4>1
      <4>3. QED
        BY <1>9, <3>1, <4>2, SMTT(40)
    <3>6. OpenRows(t)' = {i}
      BY <3>4, <3>5
    <3>7. QED
      BY <1>6, <1>7, <1>9, <2>2, <3>2, <3>3, <3>6 DEF RowRight, Basis
  <2>3. CASE position[t] # 0 /\ t \notin Missing(r)
    <3> DEFINE i == Existing(r, t)
    <3>1. i # 0
      BY <1>4, <2>3 DEF Missing
    <3>2. i \in r.ids /\ r.read[i].ticker = t /\ r.read[i].qty > 0
      BY <1>2, <1>3, <3>1, ExistingIs
    <3> HIDE DEF i
    <3>3. i \in 1..n /\ rows[i].ticker = t /\ rows[i].qty # 0 /\ ~rows[i].closed
      BY <1>3, <1>4, <3>2
    <3>4. UpdatedOf(r, i)
      BY <1>4, <2>3, <3>2, <3>3 DEF UpdatedOf, i
    <3>5. /\ rows'[i].ticker = t /\ rows'[i].closed = rows[i].closed
          /\ rows'[i].qty = Size(position[t]) /\ rows'[i].side = SideOf(position[t])
          /\ rows'[i].avg = Basis(t, SideOf(position[t]))
      BY <1>10, <3>3, <3>4
    <3>6. i \in 1..(n + m)
      BY <1>2, <1>9, <3>3
    <3>7. i \in OpenRows(t)'
      BY <1>13, <3>3, <3>5, <3>6
    <3>8. ASSUME NEW j \in OpenRows(t)' PROVE j = i
      <4>1. j \in 1..n
        <5> SUFFICES ASSUME j \notin 1..n PROVE FALSE
          OBVIOUS
        <5>1. j \in (n + 1)..(n + m) /\ rows'[j].ticker = t
          BY <1>13, <1>14, <3>8
        <5>2. QED
          BY <1>11, <2>3, <5>1
      <4>2. QED
        BY <1>15, <3>8, <4>1 DEF i
    <3>9. OpenRows(t)' = {i}
      BY <3>7, <3>8
    <3>10. QED
      BY <1>6, <1>7, <1>9, <2>3, <3>5, <3>6, <3>9 DEF RowRight, Basis
  <2>4. QED
    BY <2>1, <2>2, <2>3
<1>17. QED
  BY <1>16 DEF RowsRight

LEMMA WriteRowsKeeps ==
    ASSUME PortfolioAssumption, SyncInv, NEW p \in Procs, WriteRows(p)
    PROVE  SyncInv'
<1> DEFINE r == run[p]
           next == [r EXCEPT !.pc = "marks", !.read = <<>>, !.ids = {}, !.pos = [t \in Tickers |-> 0]]
<1>1. TablesTyped /\ RowsFew /\ Staged(p) /\ r.pc = "write"
  BY DEF SyncInv, WriteRows
<1>2. r \in Runs /\ run \in [Procs -> Runs] /\ r.lone \in BOOLEAN
  BY <1>1 DEF TablesTyped, Runs
<1>3. /\ rows' \in Seq(Rows) /\ trades' = trades /\ settlements' = settlements
      /\ \/ Finish(p, {})
         \/ Go(p, next) /\ UNCHANGED <<synced, fresh>>
  <2>1. rows' \in Seq(Rows)
    BY <1>1, RowsWritten DEF Written
  <2>2. QED
    BY <2>1 DEF WriteRows
<1>4. UNCHANGED exchange /\ syncs' = syncs /\ Settled' = Settled /\ fills' = fills
  BY <1>3 DEF Finish, Go, exchange, Settled
<1>5. ~synced => fresh = {}
  BY DEF SyncInv
<1>6. /\ synced' => synced \/ r.lone
      /\ fresh' = fresh /\ synced' \in BOOLEAN
      /\ ~synced' => ~synced
  <2>1. CASE Finish(p, {})
    BY <1>1, <1>2, <1>5, <2>1 DEF Finish, TablesTyped
  <2>2. CASE UNCHANGED <<synced, fresh>>
    BY <1>1, <2>2 DEF TablesTyped
  <2>3. QED
    BY <1>3, <2>1, <2>2
<1>7. /\ next \in Runs /\ next.lone = r.lone /\ next.pc = "marks" /\ next.read = <<>>
      /\ next.ids = {} /\ next.got = r.got /\ next.twice = r.twice
  <2>1. <<>> \in Seq(Rows) /\ [t \in Tickers |-> 0] \in [Tickers -> Int] /\ {} \in SUBSET Nat
    OBVIOUS
  <2> HIDE DEF r
  <2>2. QED
    BY <1>2, <2>1 DEF Runs, Stages
<1> HIDE DEF next
<1>8. /\ \A q \in Procs \ {p} : run'[q] = run[q]
      /\ run'[p] = NoRun \/ run'[p] = next
      /\ run' \in [Procs -> Runs]
  BY <1>2, <1>3, <1>7, NoRunTyped DEF Finish, Go
<1>9. TablesTyped'
  BY <1>1, <1>3, <1>4, <1>6, <1>8 DEF TablesTyped, exchange
<1>10. r.twice = {}
  BY <1>1 DEF Staged
<1>11. /\ Staged(p)' /\ InStep(p)' /\ run'[p].pc \in {"idle", "marks"}
       /\ run'[p].lone => r.lone /\ run'[p].pc = "marks"
  <2>1. CASE run'[p] = NoRun
    BY <2>1, IdleStaged
  <2>2. CASE run'[p] = next
    BY <1>7, <1>10, <2>2 DEF Staged, InStep
  <2>3. QED
    BY <1>8, <2>1, <2>2
<1>12. RowsFew'
  BY <1>1, <1>8, <1>9, <1>11, FewWritten
<1>13. ASSUME synced PROVE Kept' /\ SameKeys(rows, rows')
  <2>1. rows' = rows
    BY <1>13, WriteInStep
  <2>2. UNCHANGED tables /\ UNCHANGED <<fresh>>
    BY <1>3, <1>6, <2>1 DEF tables
  <2>3. Kept
    BY <1>13 DEF SyncInv
  <2>4. QED
    BY <1>1, <1>4, <2>1, <2>2, <2>3, KeptSame, SameKeysItself
<1>14. ASSUME r.lone
       PROVE  RowsRight' /\ trades' = 1..Len(fills') /\ settlements' = Settled'
  <2>1. LoneRight(p)
    BY <1>14 DEF SyncInv
  <2>2. trades = 1..Len(fills) /\ settlements = Settled
    BY <1>1, <2>1 DEF LoneRight, Filled, Paid
  <2>3. RowsRight'
    BY <1>14, WriteRepairs
  <2>4. QED
    BY <1>3, <1>4, <2>2, <2>3
<1>15. ASSUME synced' PROVE Kept'
  <2>1. CASE synced
    BY <1>13, <2>1
  <2>2. CASE ~synced
    <3>1. r.lone /\ fresh' = {}
      BY <1>5, <1>6, <1>15, <2>2
    <3>2. QED
      BY <1>14, <3>1 DEF Kept
  <2>3. QED
    BY <2>1, <2>2
<1>16. run'[p].lone => run[p].lone /\ run'[p].pc # "idle" /\ LoneRight(p)'
  <2> SUFFICES ASSUME run'[p].lone PROVE run[p].lone /\ run'[p].pc # "idle" /\ LoneRight(p)'
    OBVIOUS
  <2>1. r.lone /\ run'[p].pc = "marks"
    BY <1>11
  <2>2. QED
    BY <1>14, <2>1 DEF LoneRight, Filled, Paid
<1>17. synced' => run[p].lone \/ (synced /\ fresh' = fresh /\ SameKeys(rows, rows'))
  BY <1>6, <1>13
<1>18. ~synced' => fresh' = {}
  BY <1>5, <1>6
<1>19. QED
  BY <1>1, <1>4, <1>8, <1>9, <1>11, <1>12, <1>15, <1>16, <1>17, <1>18, StepKeeps

-----------------------------------------------------------------------------
LEMMA MarkedIs ==
    ASSUME PortfolioAssumption, NEW row \in Rows, NEW quote \in Quotes
    PROVE  LET new == Marked(row, quote)
           IN  /\ new \in Rows /\ new.ticker = row.ticker /\ new.side = row.side /\ new.qty = row.qty
               /\ new.avg = row.avg /\ new.closed = row.closed /\ new.mark = quote
               /\ row.avg > 0 => new.unrealized = (quote - row.avg) * row.qty
<1>1. row.avg \in Nat /\ row.qty \in Nat /\ quote \in Int
  BY DEF Rows, PortfolioAssumption
<1> DEFINE x == (quote - row.avg) * row.qty
           u == IF row.avg > 0 THEN x ELSE NoQuote
           new == [row EXCEPT !.mark = quote, !.unrealized = u]
<1>2. u \in Int \cup {NoQuote} /\ (row.avg > 0 => u = x)
  <2>1. \A a \in Int, b \in Nat, c \in Nat : (a - b) * c \in Int
    OBVIOUS
  <2>2. QED
    BY <1>1, <2>1
<1>3. Marked(row, quote) = new
  BY DEF Marked
<1> HIDE DEF u, x
<1>4. /\ new \in Rows /\ new.ticker = row.ticker /\ new.side = row.side /\ new.qty = row.qty
      /\ new.avg = row.avg /\ new.closed = row.closed /\ new.mark = quote /\ new.unrealized = u
  BY <1>2 DEF Rows
<1>5. QED
  BY <1>2, <1>3, <1>4 DEF x

(* A row that shows the profit of its mark still does when the next one is  *)
(* written: both columns change, or neither.                                *)
LEMMA ShownKept ==
    ASSUME PortfolioAssumption, NEW old \in Rows, NEW read \in Rows, NEW quote \in Quotes,
           read.avg = old.avg, read.qty = old.qty, read.qty > 0, Shown(old), Shown(read)
    PROVE  Shown(Put(old, read, Marked(read, quote)))
<1> DEFINE new == Marked(read, quote)
           put == Put(old, read, new)
<1>1. /\ new \in Rows /\ new.qty = read.qty /\ new.avg = read.avg /\ new.mark = quote
      /\ read.avg > 0 => new.unrealized = (quote - read.avg) * read.qty
  BY MarkedIs
<1> HIDE DEF new
<1>2. \A c \in Columns : put[c] = IF new[c] = read[c] THEN old[c] ELSE new[c]
  BY <1>1, PutColumns
<1> HIDE DEF put
<1>3. /\ put.avg = old.avg /\ put.qty = old.qty
      /\ put.mark = (IF quote = read.mark THEN old.mark ELSE quote)
      /\ put.unrealized = (IF new.unrealized = read.unrealized THEN old.unrealized ELSE new.unrealized)
  BY <1>1, <1>2 DEF Columns
<1> SUFFICES ASSUME old.avg > 0
             PROVE  put.mark \in Quotes /\ put.unrealized = (put.mark - put.avg) * put.qty
  BY <1>3 DEF Shown, new, put
<1>4. /\ old.mark \in Quotes /\ old.unrealized = (old.mark - old.avg) * old.qty
      /\ read.mark \in Quotes /\ read.unrealized = (read.mark - old.avg) * old.qty
      /\ new.unrealized = (quote - old.avg) * old.qty
  BY <1>1 DEF Shown
<1>5. CASE quote = read.mark
  <2>1. new.unrealized = read.unrealized
    BY <1>4, <1>5
  <2>2. QED
    BY <1>3, <1>4, <1>5, <2>1
<1>6. CASE quote # read.mark
  <2>1. quote \in Int /\ read.mark \in Int /\ old.avg \in Int /\ old.qty \in Nat /\ old.qty > 0
    <3>1. Quotes \subseteq Int
      BY DEF PortfolioAssumption
    <3>2. old.avg \in Nat /\ old.qty \in Nat
      BY DEF Rows
    <3>3. read.mark \in Quotes
      BY <1>4
    <3>4. quote \in Int /\ read.mark \in Int
      BY <3>1, <3>3
    <3>5. QED
      BY <3>2, <3>4
  <2>2. \A a, b, c \in Int, k \in Nat : k > 0 /\ (a - c) * k = (b - c) * k => a = b
    <3> SUFFICES ASSUME NEW a \in Int, NEW b \in Int, NEW c \in Int, NEW k \in Nat, k > 0,
                        (a - c) * k = (b - c) * k
                 PROVE  a = b
      OBVIOUS
    <3>1. (a - b) * k = 0
      <4>1. (a - c) * k - (b - c) * k = (a - b) * k
        OBVIOUS
      <4>2. (a - c) * k \in Int
        OBVIOUS
      <4>3. QED
        BY <4>1, <4>2
    <3>2. QED
      BY <3>1
  <2>3. new.unrealized # read.unrealized
    <3> DEFINE a == quote
               b == read.mark
               c == old.avg
               k == old.qty
    <3>1. a \in Int /\ b \in Int /\ c \in Int /\ k \in Nat /\ k > 0 /\ a # b
      BY <1>6, <2>1
    <3>2. new.unrealized = (a - c) * k /\ read.unrealized = (b - c) * k
      BY <1>4
    <3> HIDE DEF a, b, c, k
    <3>3. (a - c) * k # (b - c) * k
      BY <2>2, <3>1
    <3>4. QED
      BY <3>2, <3>3
  <2>4. QED
    BY <1>3, <1>4, <1>6, <2>3
<1>7. QED
  BY <1>5, <1>6

LEMMA WriteMarksKeeps ==
    ASSUME PortfolioAssumption, SyncInv, NEW p \in Procs, WriteMarks(p)
    PROVE  SyncInv'
<1> DEFINE r == run[p]
           n == Len(rows)
           asked == {r.read[i].ticker : i \in r.ids}
<1>1. TablesTyped /\ RowsFew /\ Staged(p) /\ r.pc = "quotes"
  BY DEF SyncInv, WriteMarks
<1>2. /\ r \in Runs /\ run \in [Procs -> Runs] /\ r.lone \in BOOLEAN /\ rows \in Seq(Rows) /\ n \in Nat
      /\ r.read \in Seq(Rows)
  <2>1. r \in Runs /\ run \in [Procs -> Runs] /\ rows \in Seq(Rows)
    BY <1>1 DEF TablesTyped
  <2>2. QED
    BY <2>1 DEF Runs
<1>3. \A i \in r.ids : /\ i \in 1..Len(r.read) /\ r.read[i].qty > 0 /\ ~r.read[i].closed
                       /\ r.read[i] \in Rows
  BY <1>1, <1>2 DEF Staged
<1>4. PICK quote \in [asked -> Quotes \cup {NoQuote}] :
         LET ids == {i \in r.ids : quote[r.read[i].ticker] # NoQuote}
         IN  /\ rows' = [i \in 1..Len(rows) |->
                    IF i \in ids
                    THEN Put(rows[i], r.read[i], Marked(r.read[i], quote[r.read[i].ticker]))
                    ELSE rows[i]]
             /\ Finish(p, {r.read[i].ticker : i \in ids})
  BY DEF WriteMarks
<1> DEFINE ids == {i \in r.ids : quote[r.read[i].ticker] # NoQuote}
           q(i) == quote[r.read[i].ticker]
           marked == {r.read[i].ticker : i \in ids}
<1>5. /\ rows' = [i \in 1..n |-> IF i \in ids THEN Put(rows[i], r.read[i], Marked(r.read[i], q(i)))
                                 ELSE rows[i]]
      /\ Finish(p, marked)
  BY <1>4
<1>6. \A i \in ids : q(i) \in Quotes /\ i \in r.ids /\ r.read[i].ticker \in marked
  <2> SUFFICES ASSUME NEW i \in ids PROVE q(i) \in Quotes /\ i \in r.ids /\ r.read[i].ticker \in marked
    OBVIOUS
  <2>1. r.read[i].ticker \in asked
    OBVIOUS
  <2>2. q(i) \in Quotes \cup {NoQuote}
    BY <2>1
  <2>3. QED
    BY <2>2
<1>7. \A t \in marked : \E i \in ids : t = r.read[i].ticker
  OBVIOUS
<1>8. trades' = trades /\ settlements' = settlements
  BY DEF WriteMarks
<1>9. ids \subseteq r.ids
  OBVIOUS
<1> HIDE DEF r, ids, q, marked
<1>10. /\ run' = [run EXCEPT ![p] = NoRun] /\ UNCHANGED exchange /\ syncs' = syncs
       /\ synced' = (synced \/ r.lone)
       /\ fresh' = (IF ~synced' THEN {} ELSE IF r.lone THEN fresh \cup marked ELSE fresh)
       /\ Settled' = Settled /\ fills' = fills
  BY <1>5 DEF Finish, Go, exchange, Settled, r
<1>11. \A i \in 1..n : rows[i] \in Rows
  BY <1>2
<1>12. ASSUME NEW i \in 1..n, i \in ids
       PROVE  LET read == r.read[i]
                  new  == Marked(read, q(i))
                  put  == Put(rows[i], read, new)
              IN  /\ put \in Rows /\ put.ticker = rows[i].ticker /\ put.side = rows[i].side
                  /\ put.qty = rows[i].qty /\ put.avg = rows[i].avg /\ put.closed = rows[i].closed
  <2> DEFINE read == r.read[i]
             new == Marked(read, q(i))
             put == Put(rows[i], read, new)
  <2>1. read \in Rows /\ q(i) \in Quotes
    BY <1>3, <1>6, <1>12
  <2>2. /\ new \in Rows /\ new.ticker = read.ticker /\ new.side = read.side /\ new.qty = read.qty
        /\ new.avg = read.avg /\ new.closed = read.closed
    BY <2>1, MarkedIs
  <2> HIDE DEF read, new
  <2>3. put \in Rows /\ \A c \in Columns : put[c] = IF new[c] = read[c] THEN rows[i][c] ELSE new[c]
    BY <1>11, <2>1, <2>2, PutColumns DEF read
  <2> HIDE DEF put
  <2>4. /\ put.ticker = rows[i].ticker /\ put.side = rows[i].side
        /\ put.qty = rows[i].qty /\ put.avg = rows[i].avg /\ put.closed = rows[i].closed
    BY <2>2, <2>3 DEF Columns
  <2>5. QED
    BY <2>3, <2>4 DEF put, new, read
<1>13. \A i \in 1..n : rows'[i] \in Rows
  BY <1>5, <1>11, <1>12
<1>14. rows' \in Seq(Rows) /\ Len(rows') = n
  BY <1>2, <1>5, <1>13
<1>15. SameKeys(rows, rows')
  BY <1>2, <1>5, <1>12, <1>14 DEF SameKeys
<1>16. run'[p] = NoRun /\ (\A k \in Procs \ {p} : run'[k] = run[k]) /\ run' \in [Procs -> Runs]
  BY <1>2, <1>10, NoRunTyped
<1>17. marked \subseteq Tickers
  <2>1. \A x \in Rows : x.ticker \in Tickers
    BY DEF Rows
  <2>2. QED
    BY <1>3, <1>7, <1>9, <2>1
<1>18. TablesTyped'
  <2>1. fresh' \subseteq Tickers /\ synced' \in BOOLEAN
    BY <1>1, <1>2, <1>10, <1>17 DEF TablesTyped, r
  <2>2. QED
    BY <1>1, <1>8, <1>10, <1>14, <1>16, <2>1 DEF TablesTyped, exchange
<1>19. Staged(p)' /\ InStep(p)' /\ ~run'[p].lone /\ run'[p].pc = "idle"
  BY <1>16, IdleStaged
<1>20. RowsFew'
  <2>1. \A k \in Procs : run'[k].pc = "write" =>
            run[k].pc = "write" /\ run'[k].read = run[k].read /\ run'[k].ids = run[k].ids
    BY <1>16, <1>19
  <2>2. QED
    BY <1>1, <1>15, <2>1, FewKept
<1>21. \A t : OpenRows(t)' = OpenRows(t) /\ (RowRight(t) => RowRight(t)')
  BY <1>1, <1>8, <1>10, <1>15, RightKept
<1>22. ~synced => fresh = {}
  BY DEF SyncInv
<1>23. synced => Kept /\ InStep(p)
  BY DEF SyncInv
<1>24. r.lone => LoneRight(p)
  BY DEF SyncInv, r
<1>25. r.lone => RowsRight /\ r.read = rows /\ trades = 1..Len(fills) /\ settlements = Settled
  BY <1>1, <1>24 DEF LoneRight, Filled, Paid, r
<1>26. ASSUME synced' PROVE RowsRight /\ trades = 1..Len(fills) /\ settlements = Settled
  BY <1>10, <1>23, <1>25, <1>26 DEF Kept
<1>27. ASSUME synced', NEW t \in fresh', NEW i \in OpenRows(t)'
       PROVE  Shown(rows'[i])
  <2>1. i \in OpenRows(t) /\ i \in 1..n /\ rows[i].ticker = t /\ t \in Tickers
    BY <1>18, <1>21, <1>27, ZenonT(60) DEF OpenRows, TablesTyped
  <2>2. t \in fresh => synced /\ Shown(rows[i])
    BY <1>22, <1>23, <2>1 DEF Kept
  <2>3. CASE r.lone /\ i \in ids
    <3>1. r.read[i] = rows[i] /\ rows[i] \in Rows /\ q(i) \in Quotes
      BY <1>6, <1>11, <1>25, <2>1, <2>3
    <3> DEFINE x == rows[i]
               new == Marked(x, q(i))
               put == Put(x, x, new)
    <3>2. /\ new \in Rows /\ new.avg = x.avg /\ new.qty = x.qty /\ new.mark = q(i)
          /\ x.avg > 0 => new.unrealized = (q(i) - x.avg) * x.qty
      BY <3>1, MarkedIs
    <3>3. rows'[i] = put
      BY <1>5, <2>1, <2>3, <3>1
    <3> HIDE DEF x, new
    <3>4. put \in Rows /\ \A c \in Columns : put[c] = IF new[c] = x[c] THEN x[c] ELSE new[c]
      BY <3>1, <3>2, PutColumns DEF x
    <3>5. put = new
      <4>1. \A c \in Columns : put[c] = new[c]
        BY <3>4
      <4>2. QED
        BY <3>2, <3>4, <4>1, RowsEqual
    <3>6. QED
      BY <3>1, <3>2, <3>3, <3>5 DEF Shown
  <2>4. CASE r.lone /\ i \notin ids
    <3>1. rows'[i] = rows[i]
      BY <1>5, <2>1, <2>4
    <3>2. t \notin marked
      <4> SUFFICES ASSUME t \in marked PROVE FALSE
        OBVIOUS
      <4>1. PICK j \in ids : t = r.read[j].ticker
        BY <1>7
      <4>2. j \in OpenRows(t)
        BY <1>3, <1>9, <1>25, <2>4, <4>1 DEF OpenRows
      <4>3. RowRight(t)
        BY <1>25, <2>1, <2>4 DEF RowsRight
      <4>4. i = j
        BY <2>1, <4>2, <4>3 DEF RowRight
      <4>5. QED
        BY <2>4, <4>4
    <3>3. t \in fresh
      BY <1>10, <1>27, <2>4, <3>2
    <3>4. QED
      BY <2>2, <3>1, <3>3
  <2>5. CASE ~r.lone
    <3>1. synced /\ t \in fresh /\ Shown(rows[i])
      BY <1>10, <1>27, <2>2, <2>5
    <3>2. CASE i \in ids
      <4>1. InStep(p)
        BY <1>23, <3>1
      <4>2. SameKeys(r.read, rows) /\ (r.read[i].ticker \in fresh => Shown(r.read[i]))
        BY <1>1, <1>9, <3>2, <4>1 DEF InStep, r
      <4>3. /\ r.read[i].ticker = rows[i].ticker /\ r.read[i].qty = rows[i].qty
            /\ r.read[i].avg = rows[i].avg
        BY <2>1, <4>2 DEF SameKeys
      <4>4. Shown(r.read[i]) /\ r.read[i] \in Rows /\ r.read[i].qty > 0 /\ q(i) \in Quotes
        BY <1>3, <1>6, <2>1, <3>1, <3>2, <4>2, <4>3
      <4>5. rows'[i] = Put(rows[i], r.read[i], Marked(r.read[i], q(i)))
        BY <1>5, <2>1, <3>2
      <4>6. QED
        <5> DEFINE old == rows[i]
                   read == r.read[i]
        <5>1. /\ old \in Rows /\ read \in Rows /\ read.avg = old.avg /\ read.qty = old.qty
              /\ read.qty > 0 /\ Shown(old) /\ Shown(read)
          BY <1>11, <2>1, <3>1, <4>3, <4>4
        <5> HIDE DEF old, read
        <5>2. q(i) \in Quotes
          BY <4>4
        <5>3. Shown(Put(old, read, Marked(read, q(i))))
          BY <5>1, <5>2, ShownKept
        <5>4. QED
          BY <4>5, <5>3 DEF old, read
    <3>3. CASE i \notin ids
      <4>1. rows'[i] = rows[i]
        BY <1>5, <2>1, <3>3
      <4>2. QED
        BY <3>1, <4>1
    <3>4. QED
      BY <3>2, <3>3
  <2>6. QED
    BY <2>3, <2>4, <2>5
<1>28. ASSUME synced' PROVE Kept'
  <2>1. RowsRight /\ trades = 1..Len(fills) /\ settlements = Settled
    BY <1>26, <1>28
  <2>2. RowsRight'
    BY <1>21, <2>1 DEF RowsRight
  <2>3. \A t \in fresh' : \A i \in OpenRows(t)' : Shown(rows'[i])
    BY <1>27, <1>28
  <2>4. QED
    BY <1>8, <1>10, <2>1, <2>2, <2>3 DEF Kept
<1>29. synced' => run[p].lone \/ (synced /\ fresh' = fresh /\ SameKeys(rows, rows'))
  BY <1>10, <1>15 DEF r
<1>30. ~synced' => fresh' = {}
  BY <1>10
<1>31. run[p].pc # "idle"
  BY <1>1 DEF r
<1>32. QED
  BY <1>10, <1>16, <1>18, <1>19, <1>20, <1>28, <1>29, <1>30, <1>31, StepKeeps

-----------------------------------------------------------------------------
LEMMA SyncStart ==
    ASSUME PortfolioAssumption, SyncInit
    PROVE  SyncInv
<1>1. /\ fills = <<>> /\ position = [t \in Tickers |-> 0] /\ result = [t \in Tickers |-> "open"]
      /\ cash = [t \in Tickers |-> 0] /\ trades = {} /\ settlements = {}
      /\ run = [p \in Procs |-> NoRun] /\ syncs = 0 /\ synced = FALSE /\ fresh = {}
  BY DEF SyncInit
<1>2. rows = <<>> \/ \E t \in Tickers : rows = <<Row(t, "yes", 0, 0)>>
  BY DEF SyncInit
<1>3. \A t \in Tickers : /\ Row(t, "yes", 0, 0) \in Rows /\ Row(t, "yes", 0, 0).qty = 0
                         /\ ~Row(t, "yes", 0, 0).closed
  BY DEF Row, Rows
<1>4. rows \in Seq(Rows) /\ Len(rows) \in {0, 1} /\ \A i \in 1..Len(rows) : i = 1 /\ rows[i].qty = 0
  <2>1. CASE rows = <<>>
    BY <2>1
  <2>2. ASSUME NEW t \in Tickers, rows = <<Row(t, "yes", 0, 0)>>
        PROVE  rows \in Seq(Rows) /\ Len(rows) = 1 /\ \A i \in 1..Len(rows) : i = 1 /\ rows[i].qty = 0
    <3> DEFINE x == Row(t, "yes", 0, 0)
    <3>1. x \in Rows /\ x.qty = 0
      BY <1>3
    <3> HIDE DEF x
    <3>2. rows = <<x>>
      BY <2>2 DEF x
    <3>3. QED
      BY <3>1, <3>2
  <2>3. QED
    BY <1>2, <2>1, <2>2
<1>5. NoRun \in Runs /\ NoRun.pc = "idle" /\ NoRun.lone = FALSE /\ NoRun.got = {} /\ NoRun.twice = {}
      /\ NoRun.ids = {}
  BY NoRunTyped DEF NoRun
<1>6. \A p \in Procs : run[p] = NoRun
  BY <1>1
<1>7. TablesTyped
  <2>1. run \in [Procs -> Runs]
    BY <1>1, <1>5
  <2>2. MaxSyncs \in Nat
    BY DEF PortfolioAssumption
  <2>3. fills \in Seq(FillKinds) /\ trades \subseteq 1..Len(fills) /\ syncs \in 0..MaxSyncs
    BY <1>1, <2>2
  <2>4. QED
    <3>1. position \in [Tickers -> Int] /\ cash \in [Tickers -> Int] /\ result \in [Tickers -> Results]
      BY <1>1 DEF Results
    <3>2. settlements \subseteq Settled /\ synced \in BOOLEAN /\ fresh \subseteq Tickers
      BY <1>1
    <3>3. QED
      BY <1>4, <2>1, <2>3, <3>1, <3>2 DEF TablesTyped
<1>8. \A p \in Procs : Staged(p)
  BY <1>5, <1>6 DEF Staged
<1>9. RowsFew
  <2>1. ASSUME NEW t \in Tickers
        PROVE  Cardinality(HeldRows(t)) + Cardinality(Inserting(t)) <= Cardinality(Procs)
    <3>1. HeldRows(t) = {} /\ Inserting(t) = {}
      BY <1>4, <1>5, <1>6 DEF HeldRows, OpenRows, Inserting
    <3>2. Cardinality(HeldRows(t)) = 0 /\ Cardinality(Inserting(t)) = 0
      BY <3>1, FS_EmptySet
    <3>3. Cardinality(Procs) \in Nat
      BY FS_CardinalityType DEF PortfolioAssumption
    <3>4. QED
      BY <3>2, <3>3
  <2>2. \A i \in 1..Len(rows) : Len(rows) = 1
    BY <1>4
  <2>3. \A p \in Procs : run[p].pc # "write"
    BY <1>5, <1>6
  <2>4. QED
    BY <2>1, <2>2, <2>3 DEF RowsFew
<1>10. QED
  BY <1>1, <1>5, <1>6, <1>7, <1>8, <1>9 DEF SyncInv

LEMMA SyncStepKeeps ==
    ASSUME PortfolioAssumption, SyncInv, [SyncNext]_syncVars
    PROVE  SyncInv'
<1>1. CASE UNCHANGED syncVars
  <2>1. /\ UNCHANGED <<fills, position, result, cash, trades, settlements, rows, run, syncs, synced, fresh>>
    BY <1>1 DEF syncVars, exchange, tables
  <2>2. TablesTyped /\ RowsFew
    BY DEF SyncInv
  <2>3. TablesTyped' /\ Settled' = Settled
    BY <2>1, <2>2 DEF TablesTyped, Settled
  <2>4. \A q \in Procs : (Staged(q) => Staged(q)') /\ (InStep(q) => InStep(q)')
    BY <2>1, <2>3 DEF Staged, InStep
  <2>5. UNCHANGED exchange /\ UNCHANGED tables /\ UNCHANGED <<fresh>>
    BY <2>1 DEF exchange, tables
  <2>6. (Kept => Kept') /\ (RowsRight => RowsRight') /\ (OneRowEach => OneRowEach')
    BY <2>2, <2>5, KeptSame
  <2>7. \A q \in Procs : LoneRight(q) => LoneRight(q)'
    BY <2>1, <2>3, <2>6 DEF LoneRight
  <2>8. RowsFew'
    BY <2>1, <2>2, SameKeysItself, FewKept
  <2>9. QED
    BY <2>1, <2>3, <2>4, <2>6, <2>7, <2>8 DEF SyncInv
<1>2. ASSUME NEW p \in Procs, SyncStep(p) PROVE SyncInv'
  BY <1>2, FetchFillsKeeps, ReadTradesKeeps, InsertTradesKeeps, FetchSettlementsKeeps,
     ReadSettlementsKeeps, InsertSettlementsKeeps, FetchPositionsKeeps, ReadRowsKeeps,
     WriteRowsKeeps, ReadOpenKeeps, WriteMarksKeeps DEF SyncStep
<1>3. ASSUME NEW p \in Procs, BeginSync(p) \/ Abort(p) PROVE SyncInv'
  BY <1>3, BeginKeeps, AbortKeeps
<1>4. QED
  BY <1>1, <1>2, <1>3, MovedKeeps DEF SyncNext

LEMMA SyncInvFollows ==
    ASSUME PortfolioAssumption, SyncInv
    PROVE  TablesFollow
<1>1. TablesTyped /\ RowsFew /\ \A p \in Procs : Staged(p)
  BY DEF SyncInv
<1>2. SyncTypeOK
  BY <1>1 DEF SyncTypeOK, TablesTyped, Staged, Settled
<1>3. ASSUME synced, NEW t \in Tickers
      PROVE  IF position[t] = 0 THEN OpenRows(t) = {}
             ELSE \E i \in 1..Len(rows) :
                      /\ OpenRows(t) = {i}
                      /\ rows[i].qty = Size(position[t])
                      /\ rows[i].side = SideOf(position[t])
                      /\ rows[i].avg = CostBasis(TradesOf(t, trades), rows[i].side)
                      /\ t \in fresh /\ rows[i].avg > 0 =>
                            rows[i].unrealized = (rows[i].mark - rows[i].avg) * rows[i].qty
  <2>1. Kept
    BY <1>3 DEF SyncInv
  <2>2. RowRight(t) /\ (t \in fresh => \A i \in OpenRows(t) : Shown(rows[i]))
    BY <2>1 DEF Kept, RowsRight
  <2>3. CASE position[t] = 0
    BY <2>2, <2>3 DEF RowRight
  <2>4. CASE position[t] # 0
    <3>1. PICK i \in 1..Len(rows) :
              /\ OpenRows(t) = {i} /\ rows[i].qty = Size(position[t])
              /\ rows[i].side = SideOf(position[t])
              /\ rows[i].avg = CostBasis(TradesOf(t, trades), SideOf(position[t]))
      BY <2>2, <2>4 DEF RowRight, Stored
    <3>2. t \in fresh /\ rows[i].avg > 0 =>
              rows[i].unrealized = (rows[i].mark - rows[i].avg) * rows[i].qty
      BY <2>2, <3>1 DEF Shown
    <3>3. QED
      BY <2>4, <3>1, <3>2
  <2>5. QED
    BY <2>3, <2>4
<1>4. SyncConverges
  <2>1. synced => trades = 1..Len(fills) /\ settlements = Settled
    BY DEF SyncInv, Kept
  <2>2. QED
    BY <1>3, <2>1 DEF SyncConverges
<1>5. OpenRowsBounded
  <2> SUFFICES ASSUME NEW t \in Tickers PROVE Cardinality(OpenRows(t)) <= Cardinality(Procs)
    BY DEF OpenRowsBounded
  <2>1. /\ Cardinality(HeldRows(t)) \in Nat /\ Cardinality(Inserting(t)) \in Nat
        /\ Cardinality(Procs) \in Nat
    BY <1>1, FewFinite
  <2>2. \A i \in 1..Len(rows) : rows[i].qty \in Nat
    <3>1. \A i \in 1..Len(rows) : rows[i] \in Rows
      BY <1>1 DEF TablesTyped
    <3>2. \A x \in Rows : x.qty \in Nat
      BY DEF Rows
    <3>3. QED
      BY <3>1, <3>2
  <2>3. CASE \E i \in 1..Len(rows) : ~rows[i].closed /\ rows[i].qty = 0
    <3>1. Len(rows) = 1
      BY <1>1, <2>3 DEF RowsFew
    <3>2. OpenRows(t) \in SUBSET {1}
      BY <3>1 DEF OpenRows
    <3>3. IsFiniteSet({1}) /\ Cardinality({1}) = 1
      BY FS_Singleton
    <3>4. Cardinality(OpenRows(t)) <= 1
      BY <3>2, <3>3, FS_Subset
    <3>5. Cardinality(Procs) # 0
      BY FS_EmptySet DEF PortfolioAssumption
    <3>6. IsFiniteSet(OpenRows(t)) /\ Cardinality(OpenRows(t)) \in Nat
      BY <3>2, <3>3, FS_Subset, FS_CardinalityType
    <3>7. QED
      BY <2>1, <3>4, <3>5, <3>6
  <2>4. CASE \A i \in 1..Len(rows) : ~rows[i].closed => rows[i].qty # 0
    <3>1. OpenRows(t) = HeldRows(t)
      BY <2>2, <2>4 DEF OpenRows, HeldRows
    <3>2. Cardinality(HeldRows(t)) + Cardinality(Inserting(t)) <= Cardinality(Procs)
      BY <1>1 DEF RowsFew
    <3>3. QED
      BY <2>1, <3>1, <3>2
  <2>5. QED
    BY <2>3, <2>4
<1>6. QED
  BY <1>2, <1>4, <1>5 DEF TablesFollow

(* Whatever overlaps: no market has more open rows than there are           *)
(* processes; and from the end of a sync that nothing overlapped until the  *)
(* exchange moves, every trade and settlement is stored once and each       *)
(* market has the one open row its position calls for, with the right cost  *)
(* and, once marked, the profit of its mark (syncer.py, _sync_positions.py).*)
THEOREM TablesFollowAlways == SyncSpec => []TablesFollow
<1>1. SyncInit => SyncInv
  BY SyncStart, PortfolioAssumption
<1>2. SyncInv /\ [SyncNext]_syncVars => SyncInv'
  BY SyncStepKeeps, PortfolioAssumption
<1>3. SyncInv => TablesFollow
  BY SyncInvFollows, PortfolioAssumption
<1>4. QED
  BY <1>1, <1>2, <1>3, PTL DEF SyncSpec
=============================================================================
