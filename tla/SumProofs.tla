----------------------------- MODULE SumProofs -----------------------------
(***************************************************************************)
(* Facts about SumFunction on finite sets: balances, totals and the counts *)
(* of several runs are such sums.  SumFunction is a fold, that is a        *)
(* recursive function on the subsets of its domain, so its facts are       *)
(* proved by induction: a claim that fails for a subset fails for a least  *)
(* one (WFMin, on the strict inclusion of finite sets).                    *)
(***************************************************************************)
EXTENDS Integers, Functions, FiniteSetTheorems, TLAPS

-----------------------------------------------------------------------------
\* The recursion of SumFunction: it takes the elements of a set one by one.
First(s) == CHOOSE x \in s : TRUE
Adds(f, g, S) ==
    g = [s \in SUBSET S |-> IF s = {} THEN 0 ELSE f[First(s)] + g[s \ {First(s)}]]

LEMMA FirstIsIn == ASSUME NEW s, s # {} PROVE First(s) \in s
  BY DEF First

\* What fails for some subset fails for a least one.
LEMMA LeastSubset ==
  ASSUME NEW S, IsFiniteSet(S), NEW T, T \subseteq SUBSET S, T # {}
  PROVE  \E s \in T : \A r \in T : ~(r \subseteq s /\ r # s)
<1> DEFINE R == StrictSubsetOrdering(S)
<1>1. IsWellFoundedOn(R, SUBSET S)
  BY FS_FiniteSubsetsOfFinite, FS_StrictSubsetOrderingWellFounded
<1> HIDE DEF R
<1>2. PICK s \in T : \A r \in T : ~(<<r, s>> \in R)
  BY <1>1, WFMin
<1>3. \A r \in T : r \subseteq s /\ r # s => <<r, s>> \in R
  BY DEF StrictSubsetOrdering, R
<1>4. \A r \in T : ~(r \subseteq s /\ r # s)
  BY <1>2, <1>3
<1>5. QED
  BY <1>4

\* Two such recursions agree wherever both are defined.
LEMMA AddsUnique ==
  ASSUME NEW S, IsFiniteSet(S), NEW f, NEW T, NEW U, NEW g, NEW h, Adds(f, g, T), Adds(f, h, U),
         T \subseteq S, U \subseteq S
  PROVE  \A s \in SUBSET (T \cap U) : g[s] = h[s]
<1> DEFINE Bad == {s \in SUBSET (T \cap U) : g[s] # h[s]}
<1> SUFFICES ASSUME Bad # {} PROVE FALSE
  OBVIOUS
<1>1. PICK s \in Bad : \A r \in Bad : ~(r \subseteq s /\ r # s)
  <2>1. Bad \subseteq SUBSET S
    OBVIOUS
  <2> HIDE DEF Bad
  <2>2. QED
    BY <2>1, LeastSubset
<1>2. s \in SUBSET T /\ s \in SUBSET U
  OBVIOUS
<1>3. CASE s = {}
  <2>1. g[s] = 0 /\ h[s] = 0
    BY <1>2, <1>3 DEF Adds
  <2>2. QED
    BY <2>1
<1>4. CASE s # {}
  <2> DEFINE r == s \ {First(s)}
  <2>1. First(s) \in s
    BY <1>4, FirstIsIn
  <2>2. r \in SUBSET (T \cap U) /\ r \subseteq s /\ r # s
    BY <2>1
  <2>3. g[r] = h[r]
    BY <1>1, <2>2
  <2>4. g[s] = f[First(s)] + g[r] /\ h[s] = f[First(s)] + h[r]
    BY <1>2, <1>4 DEF Adds
  <2>5. QED
    BY <2>3, <2>4
<1>5. QED
  BY <1>3, <1>4

\* There is such a recursion for every finite set.
LEMMA AddsExists ==
  ASSUME NEW S, IsFiniteSet(S), NEW f \in [S -> Int]
  PROVE  \E g \in [SUBSET S -> Int] : Adds(f, g, S)
<1> DEFINE Good(T) == \E g \in [SUBSET T -> Int] : Adds(f, g, T)
           Bad == {T \in SUBSET S : ~Good(T)}
<1> SUFFICES ASSUME Bad # {} PROVE FALSE
  OBVIOUS
<1>1. PICK T \in Bad : \A U \in Bad : ~(U \subseteq T /\ U # T)
  <2>1. Bad \subseteq SUBSET S
    OBVIOUS
  <2> HIDE DEF Bad
  <2>2. QED
    BY <2>1, LeastSubset
<1>2. \A U \in SUBSET T : U # T => \E g \in [SUBSET U -> Int] : Adds(f, g, U)
  BY <1>1
<1> DEFINE w(U) == CHOOSE g \in [SUBSET U -> Int] : Adds(f, g, U)
<1>3. \A U \in SUBSET T : U # T => w(U) \in [SUBSET U -> Int] /\ Adds(f, w(U), U)
  BY <1>2
<1> HIDE DEF w
<1> DEFINE x == First(T)
           G == [s \in SUBSET T |-> IF s = T THEN IF T = {} THEN 0 ELSE f[x] + w(T \ {x})[T \ {x}]
                                    ELSE w(s)[s]]
<1>4. T = {} \/ (x \in T /\ T \ {x} \in SUBSET T /\ T \ {x} # T)
  BY FirstIsIn
<1>5. G \in [SUBSET T -> Int]
  <2>1. \A s \in SUBSET T : s # T => w(s)[s] \in Int
    BY <1>3
  <2>2. T # {} => f[x] \in Int /\ w(T \ {x})[T \ {x}] \in Int
    BY <1>4, <2>1
  <2>3. QED
    BY <2>1, <2>2
<1>6. ASSUME NEW s \in SUBSET T
      PROVE  G[s] = IF s = {} THEN 0 ELSE f[First(s)] + G[s \ {First(s)}]
  <2>1. CASE s = T
    BY <1>4, <2>1
  <2>2. CASE s # T /\ s = {}
    <3>1. w(s)[s] = 0
      BY <1>3, <2>2 DEF Adds
    <3>2. QED
      BY <2>2, <3>1
  <2>3. CASE s # T /\ s # {}
    <3> DEFINE r == s \ {First(s)}
    <3>1. First(s) \in s /\ r \in SUBSET s /\ r \in SUBSET T /\ r # T
      BY <2>3, FirstIsIn
    <3>2. w(s)[s] = f[First(s)] + w(s)[r]
      BY <1>3, <2>3 DEF Adds
    <3>3. w(s)[r] = w(r)[r]
      <4>1. Adds(f, w(s), s) /\ Adds(f, w(r), r)
        BY <1>3, <2>3, <3>1
      <4>2. s \subseteq S /\ r \subseteq S /\ r \in SUBSET (s \cap r)
        BY <3>1
      <4> HIDE DEF r
      <4>3. QED
        BY <4>1, <4>2, AddsUnique
    <3>4. G[s] = w(s)[s] /\ G[r] = w(r)[r]
      BY <2>3, <3>1
    <3> HIDE DEF G
    <3>5. QED
      BY <2>3, <3>2, <3>3, <3>4
  <2>4. QED
    BY <2>1, <2>2, <2>3
<1>7. Adds(f, G, T)
  <2>1. G = [s \in SUBSET T |-> G[s]]
    BY <1>5
  <2> HIDE DEF G
  <2>2. QED
    BY <1>6, <2>1 DEF Adds
<1>8. QED
  BY <1>1, <1>5, <1>7

\* SumFunction is what the recursion gives for the whole domain.
LEMMA SumIsAdds ==
  ASSUME NEW S, IsFiniteSet(S), NEW f \in [S -> Int]
  PROVE  \E g \in [SUBSET S -> Int] : Adds(f, g, S) /\ SumFunction(f) = g[S]
<1> DEFINE h == CHOOSE g : Adds(f, g, S)
<1>1. SumFunction(f) = h[S]
  <2>1. DOMAIN f = S
    OBVIOUS
  <2>2. QED
    BY <2>1 DEF SumFunction, SumFunctionOnSet, FoldFunctionOnSet, MapThenFoldSet, Adds, First
<1>2. PICK g \in [SUBSET S -> Int] : Adds(f, g, S)
  BY AddsExists
<1>3. Adds(f, h, S)
  BY <1>2
<1> HIDE DEF h
<1>4. S \in SUBSET (S \cap S)
  OBVIOUS
<1>5. h[S] = g[S]
  BY <1>2, <1>3, <1>4, AddsUnique
<1>6. QED
  BY <1>1, <1>2, <1>5

\* The sum of integers is one.
THEOREM SumType ==
  ASSUME NEW S, IsFiniteSet(S), NEW f \in [S -> Int]
  PROVE  SumFunction(f) \in Int
<1>1. PICK g \in [SUBSET S -> Int] : Adds(f, g, S) /\ SumFunction(f) = g[S]
  BY SumIsAdds
<1>2. QED
  BY <1>1

\* Changing one term changes the sum by as much.
THEOREM SumChange ==
  ASSUME NEW S, IsFiniteSet(S), NEW f \in [S -> Int], NEW h \in [S -> Int], NEW k \in S,
         \A x \in S : x # k => h[x] = f[x]
  PROVE  SumFunction(h) = SumFunction(f) + (h[k] - f[k])
<1>1. PICK F \in [SUBSET S -> Int] : Adds(f, F, S) /\ SumFunction(f) = F[S]
  BY SumIsAdds
<1>2. PICK H \in [SUBSET S -> Int] : Adds(h, H, S) /\ SumFunction(h) = H[S]
  BY SumIsAdds
<1> DEFINE Right(s) == H[s] = F[s] + IF k \in s THEN h[k] - f[k] ELSE 0
           Bad == {s \in SUBSET S : ~Right(s)}
<1>3. ASSUME Bad # {} PROVE FALSE
  <2>1. PICK s \in Bad : \A r \in Bad : ~(r \subseteq s /\ r # s)
    <3>1. Bad \subseteq SUBSET S
      OBVIOUS
    <3> HIDE DEF Bad
    <3>2. QED
      BY <1>3, <3>1, LeastSubset
  <2>2. CASE s = {}
    <3>1. H[s] = 0 /\ F[s] = 0 /\ k \notin s
      BY <1>1, <1>2, <2>2 DEF Adds
    <3>2. QED
      BY <2>1, <3>1
  <2>3. CASE s # {}
    <3> DEFINE x == First(s)
               r == s \ {x}
    <3>1. x \in s /\ x \in S /\ r \in SUBSET S /\ r \subseteq s /\ r # s
      BY <2>3, FirstIsIn
    <3>2. Right(r)
      BY <2>1, <3>1
    <3>3. F[s] = f[x] + F[r] /\ H[s] = h[x] + H[r]
      BY <1>1, <1>2, <2>3 DEF Adds
    <3>4. F[r] \in Int /\ f[x] \in Int /\ h[x] \in Int /\ H[r] \in Int /\ f[k] \in Int /\ h[k] \in Int
      BY <3>1
    <3>5. (k \in r <=> k \in s /\ k # x) /\ (x # k => h[x] = f[x])
      BY <3>1
    <3> HIDE DEF r, x
    <3>6. Right(s)
      BY <3>1, <3>2, <3>3, <3>4, <3>5
    <3>7. QED
      BY <2>1, <3>6
  <2>4. QED
    BY <2>2, <2>3
<1>4. S \in SUBSET S
  OBVIOUS
<1>5. QED
  BY <1>1, <1>2, <1>3, <1>4

\* Terms that are all nought sum to nought.
THEOREM SumOfNoughts ==
  ASSUME NEW S, IsFiniteSet(S)
  PROVE  SumFunction([x \in S |-> 0]) = 0
<1> DEFINE f == [x \in S |-> 0]
<1>1. PICK F \in [SUBSET S -> Int] : Adds(f, F, S) /\ SumFunction(f) = F[S]
  <2>1. f \in [S -> Int]
    OBVIOUS
  <2> HIDE DEF f
  <2>2. QED
    BY <2>1, SumIsAdds
<1> DEFINE Bad == {s \in SUBSET S : F[s] # 0}
<1>2. ASSUME Bad # {} PROVE FALSE
  <2>1. PICK s \in Bad : \A r \in Bad : ~(r \subseteq s /\ r # s)
    <3>1. Bad \subseteq SUBSET S
      OBVIOUS
    <3> HIDE DEF Bad
    <3>2. QED
      BY <1>2, <3>1, LeastSubset
  <2>2. CASE s = {}
    BY <1>1, <2>1, <2>2 DEF Adds
  <2>3. CASE s # {}
    <3> DEFINE x == First(s)
               r == s \ {x}
    <3>1. x \in s /\ x \in S /\ r \in SUBSET S /\ r \subseteq s /\ r # s
      BY <2>3, FirstIsIn
    <3>2. F[r] = 0
      BY <2>1, <3>1
    <3>3. F[s] = f[x] + F[r]
      BY <1>1, <2>3 DEF Adds
    <3>4. QED
      BY <2>1, <3>1, <3>2, <3>3
  <2>4. QED
    BY <2>2, <2>3
<1>3. QED
  BY <1>1, <1>2

\* Terms that are natural numbers sum to one that is no less than any of them.
THEOREM SumCovers ==
  ASSUME NEW S, IsFiniteSet(S), NEW f \in [S -> Nat]
  PROVE  SumFunction(f) \in Nat /\ \A k \in S : f[k] <= SumFunction(f)
<1>1. ASSUME NEW g \in [S -> Nat] PROVE SumFunction(g) \in Nat
  <2>1. PICK G \in [SUBSET S -> Int] : Adds(g, G, S) /\ SumFunction(g) = G[S]
    <3>1. g \in [S -> Int]
      BY <1>1
    <3>2. QED
      BY <3>1, SumIsAdds
  <2> DEFINE Bad == {s \in SUBSET S : ~(G[s] >= 0)}
  <2>2. ASSUME Bad # {} PROVE FALSE
    <3>1. PICK s \in Bad : \A r \in Bad : ~(r \subseteq s /\ r # s)
      <4>1. Bad \subseteq SUBSET S
        OBVIOUS
      <4> HIDE DEF Bad
      <4>2. QED
        BY <2>2, <4>1, LeastSubset
    <3>2. CASE s = {}
      BY <2>1, <3>1, <3>2 DEF Adds
    <3>3. CASE s # {}
      <4> DEFINE x == First(s)
                 r == s \ {x}
      <4>1. x \in s /\ x \in S /\ r \in SUBSET S /\ r \subseteq s /\ r # s
        BY <3>3, FirstIsIn
      <4>2. G[r] \in Int /\ G[r] >= 0
        BY <3>1, <4>1
      <4>3. G[s] = g[x] + G[r] /\ g[x] \in Nat
        BY <2>1, <3>3, <4>1 DEF Adds
      <4> HIDE DEF r, x
      <4>4. G[s] >= 0
        BY <4>2, <4>3
      <4>5. QED
        BY <3>1, <4>4
    <3>4. QED
      BY <3>2, <3>3
  <2>3. S \in SUBSET S
    OBVIOUS
  <2>4. QED
    BY <2>1, <2>2, <2>3
<1>2. ASSUME NEW k \in S PROVE f[k] <= SumFunction(f)
  <2> DEFINE h == [f EXCEPT ![k] = 0]
  <2>1. h \in [S -> Nat] /\ h[k] = 0 /\ \A x \in S : x # k => h[x] = f[x]
    OBVIOUS
  <2>2. f \in [S -> Int] /\ h \in [S -> Int]
    BY <2>1
  <2> HIDE DEF h
  <2>3. SumFunction(h) = SumFunction(f) + (h[k] - f[k])
    BY <2>1, <2>2, SumChange
  <2>4. SumFunction(h) \in Nat /\ SumFunction(f) \in Nat /\ f[k] \in Nat
    BY <1>1, <2>1
  <2>5. QED
    BY <2>1, <2>3, <2>4
<1>3. QED
  BY <1>1, <1>2
=============================================================================
