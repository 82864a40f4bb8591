----------------------------- MODULE FiniteLemmas -----------------------------
(***************************************************************************)
(* Least members, loops, what SumFunction of the community modules         *)
(* computes over a finite set of integers (the sum, whichever order its    *)
(* CHOOSE picks the elements in), and division.                            *)
(*                                                                         *)
(* Induction is by a minimal counterexample: the order of the naturals and *)
(* the strict subset ordering of a finite set are well founded.            *)
(***************************************************************************)
EXTENDS Integers, FiniteSets, Folds, Functions, FiniteSetTheorems, WellFoundedInduction, TLAPS

-----------------------------------------------------------------------------
(* Minimal members: of a set of naturals, and of one of finite sets.        *)

\* A nonempty set of naturals has a least element.
LEMMA LeastNatural ==
  ASSUME NEW T, T \subseteq Nat, T # {}
  PROVE  \E m \in T : \A k \in T : ~(k < m)
<1>1. PICK m \in T : \A k \in T : ~(<<k, m>> \in OpToRel(<, Nat))
  BY NatLessThanWellFounded, WFMin
<1>2. QED
  BY <1>1 DEF OpToRel

\* A nonempty set of subsets of a finite set has a minimal member.
LEMMA MinimalSubset ==
  ASSUME NEW S, IsFiniteSet(S), NEW B, B \subseteq SUBSET S, B # {}
  PROVE  \E T \in B : \A U \in SUBSET T : U # T => U \notin B
<1>1. IsWellFoundedOn(StrictSubsetOrdering(S), FiniteSubsetsOf(S))
  BY FS_StrictSubsetOrderingWellFounded
<1>2. FiniteSubsetsOf(S) = SUBSET S
  BY FS_FiniteSubsetsOfFinite
<1>3. PICK T \in B : \A U \in B : ~(<<U, T>> \in StrictSubsetOrdering(S))
  BY <1>1, <1>2, WFMin
<1>4. QED
  BY <1>3 DEF StrictSubsetOrdering

ImageOf(m, S) == {m[x] : x \in S}

\* The image of a finite set is finite, and as large if no two elements map together.
LEMMA FiniteImage ==
  ASSUME NEW S, IsFiniteSet(S), NEW m
  PROVE  /\ IsFiniteSet(ImageOf(m, S))
         /\ (\A x, y \in S : m[x] = m[y] => x = y) => Cardinality(ImageOf(m, S)) = Cardinality(S)
<1> DEFINE f  == [x \in S |-> m[x]]
<1>1. f \in Surjection(S, ImageOf(m, S))
  BY DEF Surjection, ImageOf
<1>2. (\A x, y \in S : m[x] = m[y] => x = y) => f \in Injection(S, ImageOf(m, S))
  BY DEF Injection, IsInjective, ImageOf
<1> HIDE DEF f
<1>3. IsFiniteSet(ImageOf(m, S)) /\ (Cardinality(ImageOf(m, S)) = Cardinality(S) <=> f \in Injection(S, ImageOf(m, S)))
  BY <1>1, FS_Surjection
<1>4. QED
  BY <1>2, <1>3

-----------------------------------------------------------------------------
(* Induction and recursion up to a natural number.  A set of numbers stands  *)
(* for the predicate and a function for the step.                            *)

LEMMA NatUpTo ==
  ASSUME NEW n \in Nat, NEW P, 0 \in P, \A k \in 1 .. n : k - 1 \in P => k \in P
  PROVE  \A k \in 0 .. n : k \in P
<1> DEFINE T == {k \in 0 .. n : k \notin P}
<1> SUFFICES ASSUME T # {} PROVE FALSE
  OBVIOUS
<1>1. T \subseteq Nat
  OBVIOUS
<1>2. PICK m \in T : \A k \in T : ~(k < m)
  <2> HIDE DEF T
  <2> QED
    BY <1>1, LeastNatural
<1>3. m \in 0 .. n /\ m \notin P /\ m # 0
  OBVIOUS
<1>4. m - 1 \in 0 .. n /\ m \in 1 .. n /\ m - 1 \in P
  BY <1>2, <1>3
<1>5. QED
  BY <1>3, <1>4

-----------------------------------------------------------------------------
(* Loops and recursive functions.                                           *)

\* f is where the steps lead to from the start, up to the n-th.
Follows(f, n, start, step) ==
  /\ f = [t \in 0 .. n |-> f[t]] /\ f[0] = start
  /\ \A t \in 1 .. n : f[t] = step[<<f[t - 1], t>>]

\* The steps lead from each set to the next.
Leads(I, n, step) == \A t \in 1 .. n : \A r \in I[t - 1] : step[<<r, t>>] \in I[t]

\* The loop stays in the sets.
LEMMA LoopKeeps ==
  ASSUME NEW n \in Nat, NEW I, NEW start \in I[0], NEW step, Leads(I, n, step),
         NEW f, Follows(f, n, start, step)
  PROVE  \A t \in 0 .. n : f[t] \in I[t]
<1> DEFINE P == {t \in 0 .. n : f[t] \in I[t]}
<1>1. 0 \in P
  BY DEF Follows
<1>2. ASSUME NEW t \in 1 .. n, t - 1 \in P PROVE t \in P
  <2>1. f[t] = step[<<f[t - 1], t>>]
    BY DEF Follows
  <2>2. f[t - 1] \in I[t - 1]
    BY <1>2
  <2>3. QED
    BY <2>1, <2>2 DEF Leads
<1>3. \A t \in 0 .. n : t \in P
  <2> HIDE DEF P
  <2> QED
    BY <1>1, <1>2, NatUpTo
<1>4. QED
  BY <1>3

\* There is a function of the number of turns.
LEMMA LoopExists ==
  ASSUME NEW n \in Nat, NEW start, NEW step
  PROVE  \E f : Follows(f, n, start, step)
<1> DEFINE P == {m \in 0 .. n : \E f : Follows(f, m, start, step)}
<1>1. 0 \in P
  <2> DEFINE z == [k \in 0 .. 0 |-> start]
  <2>1. z = [t \in 0 .. 0 |-> z[t]] /\ z[0] = start /\ 1 .. 0 = {}
    OBVIOUS
  <2> HIDE DEF z
  <2>2. Follows(z, 0, start, step)
    BY <2>1 DEF Follows
  <2>3. QED
    BY <2>2
<1>2. ASSUME NEW m \in 1 .. n, m - 1 \in P PROVE m \in P
  <2>1. PICK f : Follows(f, m - 1, start, step)
    BY <1>2
  <2> DEFINE g == [k \in 0 .. m |-> IF k = m THEN step[<<f[m - 1], m>>] ELSE f[k]]
  <2>4. g = [t \in 0 .. m |-> g[t]] /\ g[0] = start
    BY <2>1 DEF Follows
  <2>5. ASSUME NEW k \in 1 .. m PROVE g[k] = step[<<g[k - 1], k>>]
    <3>1. k - 1 \in 0 .. m /\ k - 1 # m
      OBVIOUS
    <3>2. g[k - 1] = f[k - 1]
      BY <3>1
    <3>3. CASE k = m
      <4>1. g[m] = step[<<f[m - 1], m>>]
        OBVIOUS
      <4> HIDE DEF g
      <4>2. QED
        BY <3>2, <3>3, <4>1
    <3>4. CASE k # m
      <4>1. k \in 1 .. m - 1
        BY <3>4
      <4>2. f[k] = step[<<f[k - 1], k>>]
        BY <2>1, <4>1 DEF Follows
      <4>3. g[k] = f[k]
        BY <3>4
      <4>4. QED
        BY <3>2, <4>2, <4>3
    <3>5. QED
      BY <3>3, <3>4
  <2> HIDE DEF g
  <2>6. Follows(g, m, start, step)
    BY <2>4, <2>5 DEF Follows
  <2>7. QED
    BY <2>6
<1>3. n \in P
  <2>1. 0 \in P /\ \A k \in 1 .. n : k - 1 \in P => k \in P
    BY <1>1, <1>2
  <2> HIDE DEF P
  <2>2. QED
    BY <2>1, NatUpTo
<1>4. QED
  BY <1>3

\* A loop within one set.
Recursion(f, n, S, start, step) ==
  /\ f \in [0 .. n -> S] /\ f[0] = start
  /\ \A k \in 1 .. n : f[k] = step[<<f[k - 1], k>>]

LEMMA RecursionExists ==
  ASSUME NEW n \in Nat, NEW S, NEW start \in S, NEW step \in [S \X (1 .. n) -> S]
  PROVE  \E f : Recursion(f, n, S, start, step)
<1> DEFINE I == [t \in 0 .. n |-> S]
<1>1. \A t \in 0 .. n : I[t] = S
  OBVIOUS
<1> HIDE DEF I
<1>2. PICK f : Follows(f, n, start, step)
  BY LoopExists
<1>3. Leads(I, n, step)
  <2>1. ASSUME NEW t \in 1 .. n, NEW r \in I[t - 1] PROVE step[<<r, t>>] \in I[t]
    <3>1. t - 1 \in 0 .. n /\ t \in 0 .. n
      OBVIOUS
    <3>2. <<r, t>> \in S \X (1 .. n)
      BY <1>1, <3>1
    <3>3. QED
      BY <1>1, <3>1, <3>2
  <2>2. QED
    BY <2>1 DEF Leads
<1>4. start \in I[0]
  BY <1>1
<1>5. \A t \in 0 .. n : f[t] \in I[t]
  BY <1>2, <1>3, <1>4, LoopKeeps
<1>6. f \in [0 .. n -> S]
  BY <1>1, <1>2, <1>5 DEF Follows
<1>7. QED
  BY <1>2, <1>6 DEF Recursion, Follows

\* A set of numbers without gaps from one on is as large as its greatest.
LEMMA InitialSegment ==
  ASSUME NEW n \in Nat, NEW P \in SUBSET (1 .. n), \A i \in 1 .. n, j \in P : i <= j => i \in P
  PROVE  Cardinality(P) \in 0 .. n /\ P = 1 .. Cardinality(P)
<1> DEFINE T == {k \in 1 .. n : k \notin P}
<1>1. \E k \in 0 .. n : P = 1 .. k
  <2>1. CASE T = {}
    <3>1. P = 1 .. n
      BY <2>1
    <3>2. QED
      BY <3>1
  <2>2. CASE T # {}
    <3>1. T \subseteq Nat
      OBVIOUS
    <3>2. PICK m \in T : \A i \in T : ~(i < m)
      <4> HIDE DEF T
      <4> QED
        BY <2>2, <3>1, LeastNatural
    <3>3. m \in 1 .. n /\ \A i \in P : i < m
      <4>1. m \in 1 .. n /\ m \notin P
        BY <3>2
      <4>2. \A i \in P : ~(m <= i)
        BY <4>1
      <4>3. QED
        BY <4>1, <4>2
    <3>4. \A i \in 1 .. n : i < m => i \in P
      BY <3>2
    <3>5. m - 1 \in 0 .. n /\ \A i \in 1 .. n : i \in 1 .. m - 1 <=> i < m
      BY <3>3
    <3>6. P = 1 .. m - 1
      <4>1. \A i \in P : i \in 1 .. n
        OBVIOUS
      <4>2. \A i \in 1 .. n : i \in P <=> i \in 1 .. m - 1
        BY <3>3, <3>4, <3>5
      <4>3. \A i \in 1 .. m - 1 : i \in 1 .. n
        BY <3>5
      <4>4. QED
        BY <4>1, <4>2, <4>3
    <3>7. QED
      BY <3>5, <3>6
  <2>3. QED
    BY <2>1, <2>2
<1>2. PICK k \in 0 .. n : P = 1 .. k
  BY <1>1
<1>3. Cardinality(1 .. k) = k
  BY <1>2, FS_Interval
<1>4. QED
  BY <1>2, <1>3

-----------------------------------------------------------------------------
(* The recursion behind a sum.                                              *)

Some(S) == CHOOSE x \in S : TRUE

\* g is the sum of F over every subset of S.
Sums(g, F, S) ==
  g = [s \in SUBSET S |-> IF s = {} THEN 0 ELSE F[Some(s)] + g[s \ {Some(s)}]]

Sum(F, S) == SumFunctionOnSet(F, S)

LEMMA SumIsSums ==
  ASSUME NEW F, NEW S
  PROVE  Sum(F, S) = (CHOOSE g : Sums(g, F, S))[S]
BY DEF Sum, SumFunctionOnSet, FoldFunctionOnSet, MapThenFoldSet, Sums, Some

LEMMA SomeOf == ASSUME NEW S, S # {} PROVE Some(S) \in S
BY DEF Some

\* Two such functions agree wherever both are defined.
LEMMA SumsAgree ==
  ASSUME NEW F, NEW S, NEW R, NEW g, NEW h, Sums(g, F, S), Sums(h, F, R),
         NEW u, u \subseteq S, u \subseteq R, IsFiniteSet(u)
  PROVE  g[u] = h[u]
<1> DEFINE B == {s \in SUBSET u : g[s] # h[s]}
<1> SUFFICES ASSUME B # {} PROVE FALSE
  OBVIOUS
<1>0. B \subseteq SUBSET u
  OBVIOUS
<1>1. PICK T \in B : \A U \in SUBSET T : U # T => U \notin B
  <2> HIDE DEF B
  <2>1. QED
    BY <1>0, MinimalSubset
<1>2. T \in SUBSET S /\ T \in SUBSET R /\ g[T] # h[T]
  OBVIOUS
<1>3. T # {}
  BY <1>2 DEF Sums
<1>4. g[T \ {Some(T)}] = h[T \ {Some(T)}]
  BY <1>1, <1>3, SomeOf
<1>5. QED
  BY <1>2, <1>3, <1>4 DEF Sums

\* And there is one over every finite set, of integers if F is.
LEMMA SumsExist ==
  ASSUME NEW F, NEW S, IsFiniteSet(S), \A x \in S : F[x] \in Int
  PROVE  \E g : Sums(g, F, S) /\ g \in [SUBSET S -> Int]
<1> DEFINE Has(T) == \E g : Sums(g, F, T) /\ g \in [SUBSET T -> Int]
           B      == {T \in SUBSET S : ~Has(T)}
<1> SUFFICES ASSUME B # {} PROVE FALSE
  OBVIOUS
<1>0. B \subseteq SUBSET S
  OBVIOUS
<1>1. PICK T \in B : \A U \in SUBSET T : U # T => U \notin B
  <2> HIDE DEF B
  <2>1. QED
    BY <1>0, MinimalSubset
<1>2. \A U \in SUBSET T : U # T => Has(U)
  BY <1>1
<1> DEFINE G(U) == CHOOSE g : Sums(g, F, U) /\ g \in [SUBSET U -> Int]
           rest(s) == s \ {Some(s)}
           g == [s \in SUBSET T |-> IF s = {} THEN 0 ELSE F[Some(s)] + G(rest(s))[rest(s)]]
<1>3. \A U \in SUBSET T : U # T => Sums(G(U), F, U) /\ G(U) \in [SUBSET U -> Int]
  BY <1>2
<1> HIDE DEF G
<1>4. ASSUME NEW s \in SUBSET T, s # {}
      PROVE  /\ rest(s) \in SUBSET T /\ rest(s) # T /\ rest(s) \subseteq s /\ Some(s) \in T
             /\ F[Some(s)] \in Int /\ G(rest(s))[rest(s)] \in Int
  <2>1. Some(s) \in s
    BY <1>4, SomeOf
  <2>2. rest(s) \in SUBSET T /\ rest(s) # T /\ Some(s) \in S
    BY <2>1
  <2>3. G(rest(s)) \in [SUBSET rest(s) -> Int]
    BY <1>3, <2>2
  <2>4. QED
    BY <2>1, <2>2, <2>3
<1>5. g \in [SUBSET T -> Int]
  BY <1>4
<1>6. ASSUME NEW U \in SUBSET T, U # T PROVE g[U] = G(U)[U]
  <2>1. Sums(G(U), F, U)
    BY <1>3, <1>6
  <2>2. CASE U = {}
    BY <2>1, <2>2 DEF Sums
  <2>3. CASE U # {}
    <3>1. G(U)[U] = F[Some(U)] + G(U)[rest(U)]
      BY <2>1, <2>3 DEF Sums
    <3>2. rest(U) \in SUBSET T /\ rest(U) # T /\ rest(U) \subseteq U
      BY <1>4, <2>3
    <3>3. Sums(G(rest(U)), F, rest(U)) /\ IsFiniteSet(rest(U))
      BY <1>3, <3>2, FS_Subset
    <3>4. G(U)[rest(U)] = G(rest(U))[rest(U)]
      <4> HIDE DEF rest
      <4>1. QED
        BY <2>1, <3>2, <3>3, SumsAgree
    <3>5. QED
      BY <2>3, <3>1, <3>4
  <2>4. QED
    BY <2>2, <2>3
<1>7. \A s \in SUBSET T : s # {} => g[rest(s)] = G(rest(s))[rest(s)]
  BY <1>4, <1>6
<1>8. Sums(g, F, T)
  BY <1>7 DEF Sums
<1>9. QED
  BY <1>5, <1>8

-----------------------------------------------------------------------------
(* What a sum is.                                                           *)

Summable(F, S) == IsFiniteSet(S) /\ \A x \in S : F[x] \in Int

LEMMA SubsetSummable ==
  ASSUME NEW F, NEW S, Summable(F, S), NEW T \in SUBSET S
  PROVE  Summable(F, T)
BY FS_Subset DEF Summable

LEMMA SumOfSubset ==
  ASSUME NEW F, NEW S, Summable(F, S), NEW g, Sums(g, F, S), NEW T \in SUBSET S
  PROVE  Sum(F, T) = g[T]
<1>1. Summable(F, T)
  BY SubsetSummable
<1>2. Sums(CHOOSE h : Sums(h, F, T), F, T)
  BY <1>1, SumsExist DEF Summable
<1>3. QED
  BY <1>1, <1>2, SumsAgree, SumIsSums DEF Summable

\* A sum of integers is an integer, and of nothing zero.
LEMMA SumInt ==
  ASSUME NEW F, NEW S, Summable(F, S)
  PROVE  Sum(F, S) \in Int
<1>1. PICK g : Sums(g, F, S) /\ g \in [SUBSET S -> Int]
  BY SumsExist DEF Summable
<1>2. QED
  BY <1>1, SumOfSubset

LEMMA SumEmpty == ASSUME NEW F PROVE Sum(F, {}) = 0
<1>1. Summable(F, {})
  BY FS_EmptySet DEF Summable
<1>2. PICK g : Sums(g, F, {})
  BY <1>1, SumsExist DEF Summable
<1>3. Sum(F, {}) = g[{}]
  BY <1>1, <1>2, SumOfSubset
<1>4. g[{}] = 0
  BY <1>2 DEF Sums
<1>5. QED
  BY <1>3, <1>4

\* The element CHOOSE picks can be taken out.
LEMMA SumStep ==
  ASSUME NEW F, NEW S, Summable(F, S), S # {}
  PROVE  Sum(F, S) = F[Some(S)] + Sum(F, S \ {Some(S)})
<1>1. PICK g : Sums(g, F, S)
  BY SumsExist DEF Summable
<1>2. Sum(F, S) = g[S] /\ Sum(F, S \ {Some(S)}) = g[S \ {Some(S)}]
  BY <1>1, SumOfSubset
<1>3. QED
  BY <1>1, <1>2 DEF Sums

\* And so can any other: the order does not matter.
LEMMA SumRemove ==
  ASSUME NEW F, NEW S, Summable(F, S), NEW a \in S
  PROVE  Sum(F, S) = F[a] + Sum(F, S \ {a})
<1> DEFINE B == {T \in SUBSET S : \E x \in T : Sum(F, T) # F[x] + Sum(F, T \ {x})}
<1> SUFFICES ASSUME B # {} PROVE FALSE
  OBVIOUS
<1>0. B \subseteq SUBSET S /\ IsFiniteSet(S)
  BY DEF Summable
<1>1. PICK T \in B : \A U \in SUBSET T : U # T => U \notin B
  <2> HIDE DEF B
  <2>1. QED
    BY <1>0, MinimalSubset
<1>2. PICK x \in T : Sum(F, T) # F[x] + Sum(F, T \ {x})
  OBVIOUS
<1>3. \A U \in SUBSET T : U # T => \A y \in U : Sum(F, U) = F[y] + Sum(F, U \ {y})
  BY <1>0, <1>1
<1> DEFINE z == Some(T)
<1>4. Summable(F, T) /\ z \in T
  BY <1>0, SubsetSummable, SomeOf
<1>5. Sum(F, T) = F[z] + Sum(F, T \ {z})
  BY <1>4, SumStep
<1> HIDE DEF z, B
<1>6. z # x
  BY <1>2, <1>5
<1>7. Sum(F, T \ {z}) = F[x] + Sum(F, (T \ {z}) \ {x})
  BY <1>3, <1>4, <1>6
<1>8. Sum(F, T \ {x}) = F[z] + Sum(F, (T \ {x}) \ {z})
  BY <1>2, <1>3, <1>4, <1>6
<1>9. (T \ {z}) \ {x} = (T \ {x}) \ {z}
  OBVIOUS
<1>10. Summable(F, (T \ {x}) \ {z})
  BY <1>4, SubsetSummable
<1>11. F[x] \in Int /\ F[z] \in Int /\ Sum(F, (T \ {x}) \ {z}) \in Int
  BY <1>2, <1>4, <1>10, SumInt DEF Summable
<1>12. Sum(F, T) = F[z] + (F[x] + Sum(F, (T \ {x}) \ {z}))
  BY <1>5, <1>7, <1>9
<1>13. QED
  BY <1>2, <1>8, <1>11, <1>12

\* The sum depends on the values at the elements alone.
LEMMA SumSame ==
  ASSUME NEW F, NEW G, NEW S, Summable(F, S), \A x \in S : G[x] = F[x]
  PROVE  Sum(G, S) = Sum(F, S)
<1> DEFINE B == {T \in SUBSET S : Sum(G, T) # Sum(F, T)}
<1> SUFFICES ASSUME B # {} PROVE FALSE
  OBVIOUS
<1>0. B \subseteq SUBSET S /\ IsFiniteSet(S) /\ Summable(G, S)
  BY DEF Summable
<1>1. PICK T \in B : \A U \in SUBSET T : U # T => U \notin B
  <2> HIDE DEF B
  <2>1. QED
    BY <1>0, MinimalSubset
<1>2. T \in SUBSET S /\ Sum(G, T) # Sum(F, T)
  OBVIOUS
<1>3. \A U \in SUBSET T : U # T => Sum(G, U) = Sum(F, U)
  BY <1>0, <1>1
<1> HIDE DEF B
<1>4. Summable(F, T) /\ Summable(G, T)
  BY <1>0, <1>2, SubsetSummable
<1>5. PICK x \in T : TRUE
  BY <1>2, SumEmpty
<1>6. Sum(F, T) = F[x] + Sum(F, T \ {x}) /\ Sum(G, T) = G[x] + Sum(G, T \ {x})
  BY <1>4, SumRemove
<1>7. QED
  BY <1>2, <1>3, <1>6

\* Sums add up, element by element.
LEMMA SumPlus ==
  ASSUME NEW F, NEW G, NEW H, NEW S, Summable(F, S), Summable(G, S), \A x \in S : H[x] = F[x] + G[x]
  PROVE  Sum(H, S) = Sum(F, S) + Sum(G, S)
<1> DEFINE B == {T \in SUBSET S : Sum(H, T) # Sum(F, T) + Sum(G, T)}
<1> SUFFICES ASSUME B # {} PROVE FALSE
  OBVIOUS
<1>0. B \subseteq SUBSET S /\ IsFiniteSet(S) /\ Summable(H, S)
  BY DEF Summable
<1>1. PICK T \in B : \A U \in SUBSET T : U # T => U \notin B
  <2> HIDE DEF B
  <2>1. QED
    BY <1>0, MinimalSubset
<1>2. T \in SUBSET S /\ Sum(H, T) # Sum(F, T) + Sum(G, T)
  OBVIOUS
<1>3. \A U \in SUBSET T : U # T => Sum(H, U) = Sum(F, U) + Sum(G, U)
  BY <1>0, <1>1
<1> HIDE DEF B
<1>4. Summable(F, T) /\ Summable(G, T) /\ Summable(H, T)
  BY <1>0, <1>2, SubsetSummable
<1>5. PICK x \in T : TRUE
  BY <1>2, SumEmpty
<1>6. /\ Sum(F, T) = F[x] + Sum(F, T \ {x}) /\ Sum(G, T) = G[x] + Sum(G, T \ {x})
      /\ Sum(H, T) = H[x] + Sum(H, T \ {x})
  BY <1>4, SumRemove
<1>7. Summable(F, T \ {x}) /\ Summable(G, T \ {x})
  BY <1>4, SubsetSummable
<1>8. Sum(F, T \ {x}) \in Int /\ Sum(G, T \ {x}) \in Int /\ F[x] \in Int /\ G[x] \in Int
  BY <1>4, <1>7, SumInt DEF Summable
<1>9. QED
  BY <1>2, <1>3, <1>5, <1>6, <1>8

\* Equal terms are counted.
LEMMA SumConstant ==
  ASSUME NEW F, NEW S, IsFiniteSet(S), NEW c \in Int, \A x \in S : F[x] = c
  PROVE  Sum(F, S) = c * Cardinality(S)
<1> DEFINE B == {T \in SUBSET S : Sum(F, T) # c * Cardinality(T)}
<1> SUFFICES ASSUME B # {} PROVE FALSE
  OBVIOUS
<1>0. B \subseteq SUBSET S /\ Summable(F, S)
  BY DEF Summable
<1>1. PICK T \in B : \A U \in SUBSET T : U # T => U \notin B
  <2> HIDE DEF B
  <2>1. QED
    BY <1>0, MinimalSubset
<1>2. T \in SUBSET S /\ Sum(F, T) # c * Cardinality(T)
  OBVIOUS
<1>3. \A U \in SUBSET T : U # T => Sum(F, U) = c * Cardinality(U)
  BY <1>0, <1>1
<1> HIDE DEF B
<1>4. Summable(F, T) /\ IsFiniteSet(T)
  BY <1>0, <1>2, SubsetSummable DEF Summable
<1>5. PICK x \in T : TRUE
  BY <1>2, SumEmpty, FS_EmptySet
<1>6. Sum(F, T) = c + Sum(F, T \ {x}) /\ Sum(F, T \ {x}) = c * Cardinality(T \ {x})
  BY <1>2, <1>3, <1>4, SumRemove
<1>7. Cardinality(T \ {x}) = Cardinality(T) - 1 /\ Cardinality(T) \in Nat
  BY <1>4, FS_RemoveElement, FS_CardinalityType
<1>8. c * (Cardinality(T) - 1) = c * Cardinality(T) - c /\ c * Cardinality(T) \in Int
  BY <1>7
<1>9. QED
  BY <1>2, <1>6, <1>7, <1>8

\* Sums over disjoint sets.
LEMMA SumUnion ==
  ASSUME NEW F, NEW S, NEW R, Summable(F, S), Summable(F, R), S \cap R = {}
  PROVE  Sum(F, S \cup R) = Sum(F, S) + Sum(F, R)
<1> DEFINE B == {T \in SUBSET R : Sum(F, S \cup T) # Sum(F, S) + Sum(F, T)}
<1> SUFFICES ASSUME B # {} PROVE FALSE
  OBVIOUS
<1>0. B \subseteq SUBSET R /\ IsFiniteSet(R) /\ Summable(F, S \cup R)
  BY FS_Union DEF Summable
<1>1. PICK T \in B : \A U \in SUBSET T : U # T => U \notin B
  <2> HIDE DEF B
  <2>1. QED
    BY <1>0, MinimalSubset
<1>2. T \in SUBSET R /\ Sum(F, S \cup T) # Sum(F, S) + Sum(F, T)
  OBVIOUS
<1>3. \A U \in SUBSET T : U # T => Sum(F, S \cup U) = Sum(F, S) + Sum(F, U)
  BY <1>0, <1>1
<1> HIDE DEF B
<1>4. Summable(F, T) /\ Summable(F, S \cup T)
  BY <1>0, <1>2, SubsetSummable
<1>5. Sum(F, S) \in Int
  BY SumInt
<1>6. PICK x \in T : TRUE
  <2>1. CASE T = {}
    <3>1. S \cup T = S
      BY <2>1
    <3>2. QED
      BY <1>2, <1>5, <2>1, <3>1, SumEmpty
  <2>2. QED
    BY <2>1
<1>7. Sum(F, T) = F[x] + Sum(F, T \ {x}) /\ Sum(F, S \cup T) = F[x] + Sum(F, (S \cup T) \ {x})
  BY <1>4, SumRemove
<1>8. (S \cup T) \ {x} = S \cup (T \ {x})
  BY <1>2
<1>9. Summable(F, T \ {x})
  BY <1>4, SubsetSummable
<1>10. Sum(F, T \ {x}) \in Int /\ F[x] \in Int
  BY <1>4, <1>9, SumInt DEF Summable
<1>11. QED
  BY <1>2, <1>3, <1>5, <1>7, <1>8, <1>10

\* A sum over an image, of what maps there, when no two elements map together.
LEMMA SumImage ==
  ASSUME NEW F, NEW S, NEW m, NEW G, IsFiniteSet(S), \A x \in S : F[m[x]] \in Int /\ G[x] = F[m[x]],
         \A x, y \in S : m[x] = m[y] => x = y
  PROVE  Sum(F, ImageOf(m, S)) = Sum(G, S)
<1> DEFINE B == {T \in SUBSET S : Sum(F, ImageOf(m, T)) # Sum(G, T)}
<1> SUFFICES ASSUME B # {} PROVE FALSE
  OBVIOUS
<1>0. B \subseteq SUBSET S /\ Summable(G, S)
  BY DEF Summable
<1>1. PICK T \in B : \A U \in SUBSET T : U # T => U \notin B
  <2> HIDE DEF B
  <2>1. QED
    BY <1>0, MinimalSubset
<1>2. T \in SUBSET S /\ Sum(F, ImageOf(m, T)) # Sum(G, T)
  OBVIOUS
<1>3. \A U \in SUBSET T : U # T => Sum(F, ImageOf(m, U)) = Sum(G, U)
  BY <1>0, <1>1
<1> HIDE DEF B
<1>4. Summable(G, T) /\ IsFiniteSet(T)
  BY <1>0, <1>2, SubsetSummable DEF Summable
<1>5. Summable(F, ImageOf(m, T))
  <2>1. IsFiniteSet(ImageOf(m, T))
    BY <1>4, FiniteImage
  <2>2. QED
    BY <1>2, <2>1 DEF Summable, ImageOf
<1>6. PICK x \in T : TRUE
  <2>1. CASE T = {}
    <3>1. ImageOf(m, T) = {}
      BY <2>1 DEF ImageOf
    <3>2. QED
      BY <1>2, <2>1, <3>1, SumEmpty
  <2>2. QED
    BY <2>1
<1>7. Sum(G, T) = G[x] + Sum(G, T \ {x}) /\ Sum(F, ImageOf(m, T)) = F[m[x]] + Sum(F, ImageOf(m, T) \ {m[x]})
  <2>1. m[x] \in ImageOf(m, T)
    BY DEF ImageOf
  <2>2. QED
    BY <1>4, <1>5, <2>1, SumRemove
<1>8. ImageOf(m, T) \ {m[x]} = ImageOf(m, T \ {x})
  BY <1>2 DEF ImageOf
<1>9. G[x] = F[m[x]] /\ Sum(F, ImageOf(m, T \ {x})) = Sum(G, T \ {x})
  BY <1>2, <1>3
<1>10. QED
  BY <1>2, <1>7, <1>8, <1>9

\* Counting: one for each member of the part, nothing for the rest.
LEMMA SumIndicator ==
  ASSUME NEW S, IsFiniteSet(S), NEW T \in SUBSET S, NEW F,
         \A x \in T : F[x] = 1, \A x \in S \ T : F[x] = 0
  PROVE  Sum(F, S) = Cardinality(T)
<1>1. IsFiniteSet(T) /\ IsFiniteSet(S \ T)
  BY FS_Subset
<1>2. Sum(F, T) = 1 * Cardinality(T) /\ Sum(F, S \ T) = 0 * Cardinality(S \ T)
  BY <1>1, SumConstant
<1>3. Cardinality(T) \in Nat /\ Cardinality(S \ T) \in Nat
  BY <1>1, FS_CardinalityType
<1>4. Summable(F, T) /\ Summable(F, S \ T)
  BY <1>1 DEF Summable
<1>5. T \cap (S \ T) = {} /\ T \cup (S \ T) = S
  OBVIOUS
<1>6. Sum(F, S) = Sum(F, T) + Sum(F, S \ T)
  BY <1>4, <1>5, SumUnion
<1>7. QED
  BY <1>2, <1>3, <1>6

-----------------------------------------------------------------------------
(* Division.                                                                *)

\* Quotient and remainder.
LEMMA DivMod ==
  ASSUME NEW a \in Int, NEW b \in Nat \ {0}
  PROVE  /\ a \div b \in Int /\ a % b \in 0 .. b - 1 /\ a % b \in Nat
         /\ a = b * (a \div b) + (a % b)
OBVIOUS

\* They are the only ones.
LEMMA DivModIs ==
  ASSUME NEW a \in Int, NEW b \in Nat \ {0}, NEW q \in Int, NEW r \in 0 .. b - 1, a = b * q + r
  PROVE  a \div b = q /\ a % b = r
OBVIOUS

\* A multiple of the divisor changes nothing.
LEMMA ModPlus ==
  ASSUME NEW a \in Int, NEW b \in Nat \ {0}, NEW c \in Int
  PROVE  (a + b * c) % b = a % b
<1>1. a + b * c = b * ((a \div b) + c) + (a % b)
  BY DivMod
<1>2. QED
  <2> DEFINE q == (a \div b) + c
             r == a % b
  <2>1. q \in Int /\ r \in 0 .. b - 1 /\ a + b * c \in Int /\ a + b * c = b * q + r
    BY <1>1, DivMod
  <2> HIDE DEF q, r
  <2>2. (a + b * c) % b = r
    BY <2>1, DivModIs
  <2>3. QED
    BY <2>2 DEF r

\* What is left by a product: what one factor leaves, and of its quotient the other.
LEMMA ModProduct ==
  ASSUME NEW u \in Int, NEW a \in Nat \ {0}, NEW b \in Nat \ {0}
  PROVE  u % (a * b) = (u % a) + a * ((u \div a) % b)
<1> DEFINE r == u % a
           q == u \div a
           s == q % b
           t == q \div b
<1>1. r \in 0 .. a - 1 /\ q \in Int /\ u = a * q + r
  BY DivMod
<1>2. s \in 0 .. b - 1 /\ t \in Int /\ q = b * t + s
  BY <1>1, DivMod
<1> HIDE DEF r, q, s, t
<1>3. u = (a * b) * t + (a * s + r)
  BY <1>1, <1>2
<1>4. a * b \in Nat \ {0} /\ a * s + r \in 0 .. (a * b) - 1
  <2>1. s + 1 <= b /\ s \in Nat
    BY <1>2
  <2>2. \A x \in Nat, y \in Nat, z \in Nat : x <= y => z * x <= z * y
    OBVIOUS
  <2>3. a * (s + 1) <= a * b
    BY <2>1, <2>2
  <2>4. a * (s + 1) = a * s + a
    BY <2>1
  <2>5. a * s \in Nat /\ a * b \in Nat /\ a * b # 0
    BY <2>1
  <2>6. QED
    BY <1>1, <2>3, <2>4, <2>5
<1>5. u % (a * b) = a * s + r
  BY <1>2, <1>3, <1>4, DivModIs
<1>6. QED
  BY <1>1, <1>2, <1>5 DEF r, q, s

\* One digit more, in front of a number below a.
LEMMA DigitBelow ==
  ASSUME NEW a \in Nat \ {0}, NEW p \in Nat \ {0}, NEW x \in 0 .. a - 1, NEW d \in 0 .. p - 1
  PROVE  x + d * a \in 0 .. (a * p) - 1
<1>1. d + 1 <= p /\ d \in Nat
  OBVIOUS
<1>2. \A u \in Nat, v \in Nat, z \in Nat : u <= v => z * u <= z * v
  OBVIOUS
<1>3. a * (d + 1) <= a * p
  BY <1>1, <1>2
<1>4. a * (d + 1) = d * a + a
  BY <1>1
<1>5. d * a \in Nat /\ a * p \in Nat
  BY <1>1
<1>6. QED
  BY <1>3, <1>4, <1>5

\* A number below the divisor, and the divisor more.
LEMMA ModBelow ==
  ASSUME NEW h \in Nat \ {0}, NEW x \in 0 .. h - 1
  PROVE  x % h = x /\ (h + x) % h = x
<1>1. x = h * 0 + x /\ h + x = h * 1 + x /\ x \in Int /\ h + x \in Int
  OBVIOUS
<1>2. x % h = x
  BY <1>1, DivModIs
<1>3. (h + x) % h = x
  BY <1>1, DivModIs
<1>4. QED
  BY <1>2, <1>3
=============================================================================
