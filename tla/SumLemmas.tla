------------------------------ MODULE SumLemmas ------------------------------
(***************************************************************************)
(* Facts about the sums of module Sums: they are natural (integer) numbers,*)
(* they add up pointwise, and the sum of a function that is zero but at one*)
(* point is its value there.  And: a set of natural numbers has a least    *)
(* element.                                                                *)
(***************************************************************************)
EXTENDS Sums, Functions, FiniteSetTheorems, WellFoundedInduction, TLAPS

\* There are finitely many unit tokens.
LEMMA TokensFinite ==
    ASSUME NEW S, IsFiniteSet(S), NEW f \in [S -> Int]
    PROVE  IsFiniteSet(Tokens(f, S))
<1> DEFINE Column(x) == {x} \X (1 .. f[x])
           Columns == {Column(x) : x \in S}
           g == [x \in S |-> Column(x)]
<1>1. IsFiniteSet(Columns)
  <2>1. g \in Surjection(S, Columns)
    BY Zenon DEF Surjection
  <2>2. QED
    BY <2>1, FS_Surjection
<1>2. ASSUME NEW T \in Columns PROVE IsFiniteSet(T)
  <2>1. PICK x \in S : T = Column(x)
    OBVIOUS
  <2>2. IsFiniteSet({x})
    BY FS_Singleton
  <2>3. IsFiniteSet(1 .. f[x])
    <3>1. f[x] \in Int
      OBVIOUS
    <3>2. QED
      BY <3>1, FS_Interval
  <2>4. IsFiniteSet({x} \X (1 .. f[x]))
    BY <2>2, <2>3, FS_Product
  <2>5. QED
    BY <2>1, <2>4
<1>3. IsFiniteSet(UNION Columns)
  BY <1>1, <1>2, FS_UNION
<1>4. QED
  BY <1>3 DEF Tokens

\* A sum is a natural number.
LEMMA NatSumType ==
    ASSUME NEW S, IsFiniteSet(S), NEW f \in [S -> Int]
    PROVE  NatSum(f, S) \in Nat
BY TokensFinite, FS_CardinalityType DEF NatSum

\* The sum over a subset is not larger.
LEMMA NatSumSubset ==
    ASSUME NEW S, IsFiniteSet(S), NEW T \in SUBSET S, NEW f \in [S -> Int],
           NEW g \in [T -> Int], \A x \in T : g[x] = f[x]
    PROVE  NatSum(g, T) <= NatSum(f, S)
<1>1. Tokens(g, T) \subseteq Tokens(f, S)
  BY DEF Tokens
<1>2. QED
  BY <1>1, TokensFinite, FS_Subset DEF NatSum

\* Sums add up pointwise: the tokens of f + g are those of f, and for each x
\* those of g shifted by f[x].
LEMMA NatSumAdd ==
    ASSUME NEW S, IsFiniteSet(S), NEW f \in [S -> Nat], NEW g \in [S -> Nat],
           NEW h \in [S -> Nat], \A x \in S : h[x] = f[x] + g[x]
    PROVE  NatSum(h, S) = NatSum(f, S) + NatSum(g, S)
<1> DEFINE F == Tokens(f, S)
           G == Tokens(g, S)
           H == Tokens(h, S)
           shift == [t \in G |-> <<t[1], f[t[1]] + t[2]>>]
           R == {t \in H : t[2] > f[t[1]]}
<1>0. ASSUME NEW k \in [S -> Nat], NEW t
      PROVE  t \in Tokens(k, S)
               <=> t = <<t[1], t[2]>> /\ t[1] \in S /\ t[2] \in 1 .. k[t[1]]
  BY DEF Tokens
<1>1. IsFiniteSet(F) /\ IsFiniteSet(G) /\ IsFiniteSet(H)
  <2>1. f \in [S -> Int] /\ g \in [S -> Int] /\ h \in [S -> Int]
    OBVIOUS
  <2>2. QED
    BY <2>1, TokensFinite
<1>2. H = F \cup R /\ F \cap R = {}
  BY <1>0 DEF F, R, H
<1>3. shift \in Bijection(G, R)
  <2>1. ASSUME NEW t \in G PROVE shift[t] \in R
    <3>1. t[1] \in S /\ t[2] \in 1 .. g[t[1]]
      BY <1>0
    <3>2. QED
      BY <1>0, <3>1
  <2>2. ASSUME NEW t \in G, NEW u \in G, shift[t] = shift[u] PROVE t = u
    <3>1. t = <<t[1], t[2]>> /\ t[1] \in S /\ t[2] \in Int
      BY <1>0
    <3>2. u = <<u[1], u[2]>> /\ u[1] \in S /\ u[2] \in Int
      BY <1>0
    <3>3. t[1] = u[1] /\ f[t[1]] + t[2] = f[u[1]] + u[2]
      BY <2>2
    <3>4. f[t[1]] \in Nat
      BY <3>1
    <3>5. t[2] = u[2]
      <4>1. ASSUME NEW a \in Nat, NEW b \in Int, NEW c \in Int, a + b = a + c
            PROVE  b = c
        BY <4>1
      <4>2. f[t[1]] + t[2] = f[t[1]] + u[2]
        BY <3>3, Zenon
      <4>3. QED
        BY <3>1, <3>2, <3>4, <4>1, <4>2
    <3>6. QED
      BY <3>1, <3>2, <3>3, <3>5, Zenon
  <2>3. ASSUME NEW r \in R PROVE \E t \in G : shift[t] = r
    <3>1. r = <<r[1], r[2]>> /\ r[1] \in S /\ r[2] \in 1 .. h[r[1]] /\ r[2] > f[r[1]]
      BY <1>0
    <3>2. <<r[1], r[2] - f[r[1]]>> \in G
      BY <1>0, <3>1
    <3>3. shift[<<r[1], r[2] - f[r[1]]>>] = r
      BY <3>1, <3>2
    <3>4. QED
      BY <3>2, <3>3
  <2>4. QED
    BY <2>1, <2>2, <2>3 DEF Bijection, Injection, Surjection, IsInjective
<1>4. IsFiniteSet(R) /\ Cardinality(R) = Cardinality(G)
  BY <1>1, <1>3, FS_Bijection DEF ExistsBijection
<1>5. Cardinality(H) = Cardinality(F) + Cardinality(R) - Cardinality({})
  BY <1>1, <1>2, <1>4, FS_Union
<1>6. Cardinality({}) = 0 /\ Cardinality(F) \in Nat /\ Cardinality(G) \in Nat
  BY <1>1, FS_EmptySet, FS_CardinalityType
<1>7. QED
  BY <1>4, <1>5, <1>6 DEF NatSum

\* The sum of a function that is zero everywhere is zero.
LEMMA NatSumZero ==
    ASSUME NEW S, IsFiniteSet(S), NEW f \in [S -> Int], \A x \in S : f[x] = 0
    PROVE  NatSum(f, S) = 0
<1>1. Tokens(f, S) = {}
  BY DEF Tokens
<1>2. QED
  BY <1>1, FS_EmptySet DEF NatSum

\* The sum of a function that is zero but at one point is its value there.
LEMMA NatSumSingle ==
    ASSUME NEW S, IsFiniteSet(S), NEW f \in [S -> Nat], NEW s \in S,
           \A x \in S : x # s => f[x] = 0
    PROVE  NatSum(f, S) = f[s]
<1> DEFINE T == {s} \X (1 .. f[s])
<1>1. Tokens(f, S) = T
  <2>1. \A x \in S : x # s => 1 .. f[x] = {}
    OBVIOUS
  <2>2. QED
    BY <2>1 DEF Tokens
<1>2. IsFiniteSet({s}) /\ Cardinality({s}) = 1
  BY FS_Singleton
<1>3. IsFiniteSet(1 .. f[s]) /\ Cardinality(1 .. f[s]) = f[s]
  <2>1. f[s] \in Nat /\ 1 \in Int /\ f[s] \in Int
    OBVIOUS
  <2>2. IsFiniteSet(1 .. f[s])
        /\ Cardinality(1 .. f[s]) = IF 1 > f[s] THEN 0 ELSE f[s] - 1 + 1
    BY <2>1, FS_Interval
  <2>3. QED
    BY <2>1, <2>2
<1>4. Cardinality(T) = f[s]
  <2>1. Cardinality(T) = Cardinality({s}) * Cardinality(1 .. f[s])
    BY <1>2, <1>3, FS_Product
  <2>2. f[s] \in Nat
    OBVIOUS
  <2>3. QED
    BY <1>2, <1>3, <2>1, <2>2
<1>5. QED
  BY <1>1, <1>4 DEF NatSum

\* One more element adds its value to the sum.
LEMMA NatSumInsert ==
    ASSUME NEW S, IsFiniteSet(S), NEW s, s \notin S, NEW f \in [S -> Nat],
           NEW g \in [S \cup {s} -> Nat], \A x \in S : g[x] = f[x]
    PROVE  NatSum(g, S \cup {s}) = NatSum(f, S) + g[s]
<1> DEFINE T == S \cup {s}
           k == [x \in T |-> IF x = s THEN 0 ELSE g[x]]
           m == [x \in T |-> IF x = s THEN g[s] ELSE 0]
<1>1. IsFiniteSet(T)
  BY FS_AddElement
<1>2. k \in [T -> Nat] /\ m \in [T -> Nat] /\ \A x \in T : g[x] = k[x] + m[x]
  OBVIOUS
<1>3. NatSum(g, T) = NatSum(k, T) + NatSum(m, T)
  BY <1>1, <1>2, NatSumAdd
<1>4. NatSum(m, T) = g[s]
  <2>1. s \in T /\ m[s] = g[s] /\ \A x \in T : x # s => m[x] = 0
    OBVIOUS
  <2>2. QED
    BY <1>1, <1>2, <2>1, NatSumSingle
<1>5. NatSum(k, T) = NatSum(f, S)
  <2>1. Tokens(k, T) = Tokens(f, S)
    <3>1. (\A x \in S : k[x] = f[x]) /\ 1 .. k[s] = {} /\ k[s] = 0
      OBVIOUS
    <3> HIDE DEF k
    <3>2. {s} \X (1 .. k[s]) = {}
      BY <3>1
    <3>3. QED
      BY <3>1, <3>2 DEF Tokens
  <2>2. QED
    BY <2>1 DEF NatSum
<1>6. QED
  BY <1>3, <1>4, <1>5

\* An element of a sum is not more than the sum.
LEMMA NatSumElement ==
    ASSUME NEW S, IsFiniteSet(S), NEW f \in [S -> Nat], NEW s \in S
    PROVE  f[s] <= NatSum(f, S)
<1> DEFINE g == [x \in {s} |-> f[s]]
<1>1. IsFiniteSet({s}) /\ g \in [{s} -> Nat] /\ g \in [{s} -> Int]
  BY FS_Singleton
<1>2. NatSum(g, {s}) = g[s]
  BY <1>1, NatSumSingle
<1>3. NatSum(g, {s}) <= NatSum(f, S)
  <2>1. {s} \in SUBSET S /\ \A x \in {s} : g[x] = f[x]
    OBVIOUS
  <2>2. f \in [S -> Int]
    OBVIOUS
  <2>3. QED
    BY <1>1, <2>1, <2>2, NatSumSubset
<1>4. QED
  BY <1>2, <1>3

\* The sum over two sets that have nothing in common.
LEMMA NatSumDisjoint ==
    ASSUME NEW S, IsFiniteSet(S), NEW T, IsFiniteSet(T), S \cap T = {},
           NEW f \in [S -> Int], NEW g \in [T -> Int], NEW h \in [S \cup T -> Int],
           \A x \in S : h[x] = f[x], \A x \in T : h[x] = g[x]
    PROVE  NatSum(h, S \cup T) = NatSum(f, S) + NatSum(g, T)
<1> DEFINE F == Tokens(f, S)
           G == Tokens(g, T)
<1>1. IsFiniteSet(F) /\ IsFiniteSet(G)
  BY TokensFinite
<1>2. Tokens(h, S \cup T) = F \cup G
  BY DEF Tokens
<1>3. F \cap G = {}
  BY DEF Tokens
<1> HIDE DEF F, G
<1>4. Cardinality(F \cup G) = Cardinality(F) + Cardinality(G) - Cardinality({})
  BY <1>1, <1>3, FS_Union
<1>5. Cardinality(F) \in Nat /\ Cardinality(G) \in Nat /\ Cardinality({}) = 0
  BY <1>1, FS_CardinalityType, FS_EmptySet
<1>6. NatSum(h, S \cup T) = Cardinality(F \cup G)
  BY <1>2 DEF NatSum
<1>7. NatSum(f, S) = Cardinality(F) /\ NatSum(g, T) = Cardinality(G)
  BY DEF NatSum, F, G
<1>8. QED
  BY <1>4, <1>5, <1>6, <1>7

\* What is matched, one to one, with more adds up to less.
LEMMA NatSumInjection ==
    ASSUME NEW S, NEW T, IsFiniteSet(T), NEW f \in [S -> Int], NEW g \in [T -> Int],
           NEW m \in [S -> T], \A x, y \in S : m[x] = m[y] => x = y,
           \A x \in S : f[x] <= g[m[x]]
    PROVE  NatSum(f, S) <= NatSum(g, T)
<1> DEFINE F == Tokens(f, S)
           G == Tokens(g, T)
           move == [t \in F |-> <<m[t[1]], t[2]>>]
<1>1. \A t \in F : t = <<t[1], t[2]>> /\ t[1] \in S /\ t[2] \in 1 .. f[t[1]]
  BY DEF Tokens
<1>2. \A x \in T : \A i \in 1 .. g[x] : <<x, i>> \in G
  BY DEF Tokens
<1>3. IsFiniteSet(G)
  BY TokensFinite
<1> HIDE DEF F, G
<1>4. move \in [F -> G]
  <2>1. ASSUME NEW t \in F PROVE <<m[t[1]], t[2]>> \in G
    <3>1. m[t[1]] \in T /\ f[t[1]] <= g[m[t[1]]] /\ t[1] \in S /\ t[2] \in 1 .. f[t[1]]
      BY <1>1
    <3>2. f[t[1]] \in Int /\ g[m[t[1]]] \in Int
      BY <3>1
    <3>3. t[2] \in 1 .. g[m[t[1]]]
      BY <3>1, <3>2
    <3>4. QED
      BY <1>2, <3>1, <3>3
  <2>2. QED
    BY <2>1
<1>5. ASSUME NEW t \in F, NEW u \in F, move[t] = move[u] PROVE t = u
  BY <1>1, <1>5
<1>6. move \in Injection(F, G)
  BY <1>4, <1>5 DEF Injection, IsInjective
<1>7. QED
  BY <1>3, <1>6, FS_Injection DEF NatSum, F, G

\* Fewer than S are those that a function makes of S.
LEMMA ImageCount ==
    ASSUME NEW S, IsFiniteSet(S), NEW f, DOMAIN f = S, NEW T, \A y \in T : \E x \in S : y = f[x]
    PROVE  IsFiniteSet(T) /\ Cardinality(T) <= Cardinality(S)
<1> DEFINE R == {f[x] : x \in S}
           g == [x \in S |-> f[x]]
<1>1. g \in Surjection(S, R)
  BY DEF Surjection
<1>2. IsFiniteSet(R) /\ Cardinality(R) <= Cardinality(S)
  BY <1>1, FS_Surjection
<1>3. T \in SUBSET R
  OBVIOUS
<1>4. IsFiniteSet(T) /\ Cardinality(T) <= Cardinality(R)
  BY <1>2, <1>3, FS_Subset
<1> QED
  BY <1>2, <1>4, FS_CardinalityType
-----------------------------------------------------------------------------
\* A sum of integers is an integer.
LEMMA IntSumType ==
    ASSUME NEW S, IsFiniteSet(S), NEW f \in [S -> Int]
    PROVE  IntSum(f, S) \in Int
<1> DEFINE p == [x \in S |-> Pos(f[x])]
           n == [x \in S |-> Neg(f[x])]
<1>1. p \in [S -> Int] /\ n \in [S -> Int]
  BY DEF Pos, Neg
<1>2. NatSum(p, S) \in Nat /\ NatSum(n, S) \in Nat
  BY <1>1, NatSumType
<1>3. QED
  BY <1>2 DEF IntSum

\* Integer sums add up pointwise: Pos(f + g) + Neg(f) + Neg(g) and
\* Neg(f + g) + Pos(f) + Pos(g) are equal at every point.
LEMMA IntSumAdd ==
    ASSUME NEW S, IsFiniteSet(S), NEW f \in [S -> Int], NEW g \in [S -> Int],
           NEW h \in [S -> Int], \A x \in S : h[x] = f[x] + g[x]
    PROVE  IntSum(h, S) = IntSum(f, S) + IntSum(g, S)
<1> DEFINE pf == [x \in S |-> Pos(f[x])]
           pg == [x \in S |-> Pos(g[x])]
           ph == [x \in S |-> Pos(h[x])]
           nf == [x \in S |-> Neg(f[x])]
           ng == [x \in S |-> Neg(g[x])]
           nh == [x \in S |-> Neg(h[x])]
           p == [x \in S |-> Pos(f[x]) + Pos(g[x])]
           n == [x \in S |-> Neg(f[x]) + Neg(g[x])]
           all == [x \in S |-> Pos(h[x]) + (Neg(f[x]) + Neg(g[x]))]
<1>1. /\ pf \in [S -> Nat] /\ pg \in [S -> Nat] /\ ph \in [S -> Nat]
      /\ nf \in [S -> Nat] /\ ng \in [S -> Nat] /\ nh \in [S -> Nat]
      /\ p \in [S -> Nat] /\ n \in [S -> Nat] /\ all \in [S -> Nat]
  BY DEF Pos, Neg
<1>2. NatSum(p, S) = NatSum(pf, S) + NatSum(pg, S)
  <2>1. \A x \in S : p[x] = pf[x] + pg[x]
    OBVIOUS
  <2>2. QED
    BY <1>1, <2>1, NatSumAdd
<1>3. NatSum(n, S) = NatSum(nf, S) + NatSum(ng, S)
  <2>1. \A x \in S : n[x] = nf[x] + ng[x]
    OBVIOUS
  <2>2. QED
    BY <1>1, <2>1, NatSumAdd
<1>4. NatSum(all, S) = NatSum(ph, S) + NatSum(n, S)
  <2>1. \A x \in S : all[x] = ph[x] + n[x]
    OBVIOUS
  <2>2. QED
    BY <1>1, <2>1, NatSumAdd
<1>5. NatSum(all, S) = NatSum(nh, S) + NatSum(p, S)
  <2>1. \A x \in S : all[x] = nh[x] + p[x]
    BY DEF Pos, Neg
  <2>2. QED
    BY <1>1, <2>1, NatSumAdd
<1>6. /\ NatSum(pf, S) \in Nat /\ NatSum(pg, S) \in Nat /\ NatSum(ph, S) \in Nat
      /\ NatSum(nf, S) \in Nat /\ NatSum(ng, S) \in Nat /\ NatSum(nh, S) \in Nat
  <2>1. \A k \in [S -> Nat] : k \in [S -> Int]
    OBVIOUS
  <2>2. QED
    BY <1>1, <2>1, NatSumType
<1>7. IntSum(f, S) = NatSum(pf, S) - NatSum(nf, S)
  BY DEF IntSum
<1>8. IntSum(g, S) = NatSum(pg, S) - NatSum(ng, S)
  BY DEF IntSum
<1>9. IntSum(h, S) = NatSum(ph, S) - NatSum(nh, S)
  BY DEF IntSum
<1> HIDE DEF pf, pg, ph, nf, ng, nh, p, n, all
<1>10. QED
  BY <1>2, <1>3, <1>4, <1>5, <1>6, <1>7, <1>8, <1>9

\* The sum of an integer function that is zero but at one point.
LEMMA IntSumSingle ==
    ASSUME NEW S, IsFiniteSet(S), NEW f \in [S -> Int], NEW s \in S,
           \A x \in S : x # s => f[x] = 0
    PROVE  IntSum(f, S) = f[s]
<1> DEFINE p == [x \in S |-> Pos(f[x])]
           n == [x \in S |-> Neg(f[x])]
<1>1. p \in [S -> Nat] /\ n \in [S -> Nat]
  BY DEF Pos, Neg
<1>2. \A x \in S : x # s => p[x] = 0 /\ n[x] = 0
  BY DEF Pos, Neg
<1>3. NatSum(p, S) = p[s] /\ NatSum(n, S) = n[s]
  BY <1>1, <1>2, NatSumSingle
<1>4. p[s] - n[s] = f[s]
  BY DEF Pos, Neg
<1>5. IntSum(f, S) = NatSum(p, S) - NatSum(n, S)
  BY DEF IntSum
<1>6. QED
  BY <1>3, <1>4, <1>5

\* The sum of an integer function that is zero.
LEMMA IntSumZero ==
    ASSUME NEW S, IsFiniteSet(S), NEW f \in [S -> Int], \A x \in S : f[x] = 0
    PROVE  IntSum(f, S) = 0
<1> DEFINE p == [x \in S |-> Pos(f[x])]
           n == [x \in S |-> Neg(f[x])]
<1>1. p \in [S -> Int] /\ n \in [S -> Int] /\ \A x \in S : p[x] = 0 /\ n[x] = 0
  BY DEF Pos, Neg
<1>2. NatSum(p, S) = 0 /\ NatSum(n, S) = 0
  BY <1>1, NatSumZero
<1>3. QED
  BY <1>2 DEF IntSum
-----------------------------------------------------------------------------
\* A set of natural numbers has a least element: the initial segments of its
\* elements are finite sets, on which strict inclusion is well founded.
LEMMA NatLeast ==
    ASSUME NEW T, T \subseteq Nat, T # {}
    PROVE  \E x \in T : \A y \in T : x <= y
<1> DEFINE Segments == {0 .. n : n \in T}
<1>1. Segments \subseteq FiniteSubsetsOf(Nat)
  <2>1. ASSUME NEW n \in T PROVE IsFiniteSet(0 .. n) /\ 0 .. n \subseteq Nat
    <3>1. n \in Nat /\ 0 \in Int /\ n \in Int
      OBVIOUS
    <3>2. QED
      BY <3>1, FS_Interval
  <2>2. QED
    BY <2>1 DEF FiniteSubsetsOf
<1>2. Segments # {}
  OBVIOUS
<1>3. \E I \in Segments : \A J \in Segments :
          ~ (<<J, I>> \in StrictSubsetOrdering(Nat))
  BY <1>1, <1>2, FS_StrictSubsetOrderingWellFounded, WFMin
<1>4. PICK x \in T : \A J \in Segments : <<J, 0 .. x>> \notin StrictSubsetOrdering(Nat)
  BY <1>3
<1>5. ASSUME NEW y \in T, y < x PROVE FALSE
  <2>1. 0 .. y \subseteq Nat /\ 0 .. x \subseteq Nat /\ 0 .. y \subseteq 0 .. x
    BY <1>5
  <2>2. x \in 0 .. x /\ x \notin 0 .. y
    BY <1>5
  <2>3. <<0 .. y, 0 .. x>> \in StrictSubsetOrdering(Nat)
    BY <2>1, <2>2 DEF StrictSubsetOrdering
  <2>4. QED
    BY <1>4, <2>3
<1>6. QED
  BY <1>5

\* A function to the natural numbers has a maximum on a finite set.
LEMMA FiniteMaximum ==
    ASSUME NEW S, IsFiniteSet(S), S # {}, NEW f \in [S -> Nat]
    PROVE  \E x \in S : \A y \in S : f[y] <= f[x]
<1> DEFINE M == NatSum(f, S)
           T == {M - f[x] : x \in S}
<1>1. M \in Nat /\ \A x \in S : f[x] <= M
  BY NatSumType, NatSumElement
<1> HIDE DEF M
<1>2. T \subseteq Nat /\ T # {}
  BY <1>1
<1>3. PICK t \in T : \A u \in T : t <= u
  BY <1>2, NatLeast
<1>4. PICK x \in S : t = M - f[x]
  BY <1>3
<1>5. ASSUME NEW y \in S PROVE f[y] <= f[x]
  <2>1. M - f[x] <= M - f[y]
    BY <1>3, <1>4
  <2> QED
    BY <1>1, <2>1
<1> QED
  BY <1>5
=============================================================================
