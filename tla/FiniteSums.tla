----------------------------- MODULE FiniteSums ------------------------------
(***************************************************************************)
(* Sums over a finite set, as the accounts of the ledger, of the payouts   *)
(* and of the token contract are made of them: what one element more or    *)
(* one element changed does to SumFunctionOnSet of the module Functions.   *)
(* The equation of the recursive function that it is comes first; the rest *)
(* follows by induction over the subsets of a finite set, which is taken   *)
(* as the fact that every set of them has a smallest member.               *)
(***************************************************************************)
EXTENDS Integers, Functions, FiniteSets, FiniteSetTheorems, WellFoundedInduction, TLAPS

\* A set of subsets of a finite set that has a subset whenever it has all that are
\* strictly smaller has them all.
LEMMA SubsetInduction ==
  ASSUME NEW S, IsFiniteSet(S), NEW P,
         \A T \in SUBSET S : (\A U \in SUBSET T : U # T => U \in P) => T \in P
  PROVE  SUBSET S \subseteq P
<1> DEFINE Bad == (SUBSET S) \ P
<1> SUFFICES ASSUME Bad # {} PROVE FALSE
  OBVIOUS
<1>1. IsWellFoundedOn(StrictSubsetOrdering(S), SUBSET S)
  <2>1. FiniteSubsetsOf(S) = SUBSET S
    BY FS_FiniteSubsetsOfFinite
  <2>2. IsWellFoundedOn(StrictSubsetOrdering(S), FiniteSubsetsOf(S))
    BY FS_StrictSubsetOrderingWellFounded
  <2>3. QED
    BY <2>1, <2>2
<1>2. Bad \subseteq SUBSET S
  OBVIOUS
<1> HIDE DEF Bad
<1>3. PICK T \in Bad : \A U \in Bad : <<U, T>> \notin StrictSubsetOrdering(S)
  BY <1>1, <1>2, WFMin
<1>4. \A U \in SUBSET T : U # T => U \in P
  BY <1>3 DEF StrictSubsetOrdering, Bad
<1>5. QED
  BY <1>3, <1>4 DEF Bad

\* The same with one element more each time.
LEMMA AddInduction ==
  ASSUME NEW S, IsFiniteSet(S), NEW P, {} \in P,
         \A T \in SUBSET S : \A x \in S \ T : T \in P => T \cup {x} \in P
  PROVE  SUBSET S \subseteq P
<1>1. ASSUME NEW T \in SUBSET S, \A U \in SUBSET T : U # T => U \in P
      PROVE  T \in P
  <2>1. CASE T = {}
    BY <2>1
  <2>2. CASE T # {}
    <3>1. PICK x \in T : TRUE
      BY <2>2
    <3>2. T \ {x} \in P /\ T \ {x} \in SUBSET S /\ x \in S \ (T \ {x})
      BY <1>1, <3>1
    <3>3. (T \ {x}) \cup {x} = T
      BY <3>1
    <3>4. QED
      BY <3>2, <3>3
  <2>3. QED
    BY <2>1, <2>2
<1>2. QED
  BY <1>1, SubsetInduction

-----------------------------------------------------------------------------
Some(s) == CHOOSE x \in s : TRUE

\* g sums f over each subset of S.
Sums(g, f, S) ==
  g = [s \in SUBSET S |-> IF s = {} THEN 0 ELSE f[Some(s)] + g[s \ {Some(s)}]]

LEMMA SomeIn == \A s : s # {} => Some(s) \in s
BY DEF Some

LEMMA SumsAgree ==
  ASSUME NEW S, IsFiniteSet(S), NEW T \in SUBSET S, NEW f, NEW g, NEW h,
         Sums(g, f, S), Sums(h, f, T)
  PROVE  \A U \in SUBSET T : g[U] = h[U]
<1> DEFINE P == {U \in SUBSET T : g[U] = h[U]}
<1>1. IsFiniteSet(T)
  BY FS_Subset
<1>2. ASSUME NEW U \in SUBSET T, \A V \in SUBSET U : V # U => V \in P
      PROVE  g[U] = h[U]
  <2>1. g[U] = (IF U = {} THEN 0 ELSE f[Some(U)] + g[U \ {Some(U)}])
    BY DEF Sums
  <2>2. h[U] = (IF U = {} THEN 0 ELSE f[Some(U)] + h[U \ {Some(U)}])
    BY DEF Sums
  <2>3. CASE U = {}
    BY <2>1, <2>2, <2>3
  <2>4. CASE U # {}
    <3>1. U \ {Some(U)} \in SUBSET U /\ U \ {Some(U)} # U
      BY <2>4, SomeIn
    <3>2. g[U \ {Some(U)}] = h[U \ {Some(U)}]
      BY <1>2, <3>1
    <3>3. QED
      BY <2>1, <2>2, <2>4, <3>2
  <2>5. QED
    BY <2>3, <2>4
<1>3. \A U \in SUBSET T : (\A V \in SUBSET U : V # U => V \in P) => U \in P
  BY <1>2
<1> HIDE DEF P
<1>4. SUBSET T \subseteq P
  BY <1>1, <1>3, SubsetInduction
<1>5. QED
  BY <1>4 DEF P

LEMMA SumsExist ==
  ASSUME NEW S, IsFiniteSet(S), NEW f
  PROVE  \E g : Sums(g, f, S)
<1> DEFINE P == {T \in SUBSET S : \E g : Sums(g, f, T)}
           G(T) == CHOOSE g : Sums(g, f, T)
<1>1. ASSUME NEW T \in SUBSET S, \A U \in SUBSET T : U # T => U \in P
      PROVE  \E g : Sums(g, f, T)
  <2> DEFINE x == Some(T)
             v == IF T = {} THEN 0 ELSE f[x] + G(T \ {x})[T \ {x}]
             g == [s \in SUBSET T |-> IF s = T THEN v ELSE G(s)[s]]
  <2>1. \A U \in SUBSET T : U # T => Sums(G(U), f, U)
    BY <1>1
  <2>2. ASSUME NEW s \in SUBSET T
        PROVE  g[s] = IF s = {} THEN 0 ELSE f[Some(s)] + g[s \ {Some(s)}]
    <3>1. CASE s = {} /\ T = {}
      BY <3>1
    <3>2. CASE s = {} /\ T # {}
      <4>1. Sums(G(s), f, s)
        BY <2>1, <3>2
      <4>2. G(s)[s] = 0
        BY <4>1, <3>2 DEF Sums
      <4>3. QED
        BY <3>2, <4>2
    <3>3. CASE s # {} /\ s = T
      <4>1. x \in T
        BY <3>3, SomeIn
      <4>2. T \ {x} # T /\ T \ {x} \in SUBSET T
        BY <4>1
      <4>3. g[T \ {x}] = G(T \ {x})[T \ {x}]
        BY <4>2
      <4>4. g[s] = f[x] + G(T \ {x})[T \ {x}]
        BY <3>3
      <4>5. QED
        BY <3>3, <4>3, <4>4
    <3>4. CASE s # {} /\ s # T
      <4> DEFINE u == s \ {Some(s)}
      <4>1. Some(s) \in s
        BY <3>4, SomeIn
      <4>2. u \in SUBSET s /\ u # T /\ u \in SUBSET T
        BY <4>1
      <4>3. Sums(G(s), f, s) /\ Sums(G(u), f, u)
        BY <2>1, <3>4, <4>2
      <4>4. G(s)[s] = f[Some(s)] + G(s)[u]
        <5> HIDE DEF G
        <5>1. QED
          BY <4>3, <3>4 DEF Sums
      <4>5. IsFiniteSet(s)
        BY FS_Subset
      <4>6. G(s)[u] = G(u)[u]
        <5> HIDE DEF G, u
        <5>1. QED
          BY <4>2, <4>3, <4>5, SumsAgree
      <4>7. g[s] = G(s)[s] /\ g[u] = G(u)[u]
        BY <3>4, <4>2
      <4>8. QED
        BY <3>4, <4>4, <4>6, <4>7
    <3>5. QED
      BY <3>1, <3>2, <3>3, <3>4
  <2>3. g = [s \in SUBSET T |-> IF s = {} THEN 0 ELSE f[Some(s)] + g[s \ {Some(s)}]]
    <3>1. g = [s \in SUBSET T |-> g[s]]
      OBVIOUS
    <3> HIDE DEF g
    <3>2. QED
      BY <2>2, <3>1
  <2>4. Sums(g, f, T)
    BY <2>3 DEF Sums
  <2>5. QED
    BY <2>4
<1>2. \A T \in SUBSET S : (\A U \in SUBSET T : U # T => U \in P) => T \in P
  BY <1>1
<1> HIDE DEF P
<1>3. SUBSET S \subseteq P
  BY <1>2, SubsetInduction
<1>4. QED
  BY <1>3 DEF P

LEMMA SumIsSums ==
  ASSUME NEW S, NEW f, IsFiniteSet(S)
  PROVE  \E g : Sums(g, f, S) /\ SumFunctionOnSet(f, S) = g[S]
<1> DEFINE g == CHOOSE g : Sums(g, f, S)
<1>1. SumFunctionOnSet(f, S) = g[S]
  BY DEF SumFunctionOnSet, FoldFunctionOnSet, MapThenFoldSet, Sums, Some
<1>2. Sums(g, f, S)
  BY SumsExist
<1>3. QED
  BY <1>1, <1>2

-----------------------------------------------------------------------------
\* The equation of a sum.
LEMMA SumEmpty == \A f : SumFunctionOnSet(f, {}) = 0
<1> TAKE f
<1>1. IsFiniteSet({})
  BY FS_EmptySet
<1>2. PICK g : Sums(g, f, {}) /\ SumFunctionOnSet(f, {}) = g[{}]
  BY <1>1, SumIsSums
<1>3. QED
  BY <1>2 DEF Sums

LEMMA SumSome ==
  ASSUME NEW S, NEW f, IsFiniteSet(S), S # {}
  PROVE  SumFunctionOnSet(f, S) = f[Some(S)] + SumFunctionOnSet(f, S \ {Some(S)})
<1> DEFINE T == S \ {Some(S)}
<1>1. IsFiniteSet(T) /\ T \in SUBSET S
  BY FS_Subset
<1>2. PICK g : Sums(g, f, S) /\ SumFunctionOnSet(f, S) = g[S]
  BY SumIsSums
<1>3. PICK h : Sums(h, f, T) /\ SumFunctionOnSet(f, T) = h[T]
  <2> HIDE DEF T
  <2>1. QED
    BY <1>1, SumIsSums
<1>4. g[T] = h[T]
  <2> HIDE DEF T
  <2>1. QED
    BY <1>1, <1>2, <1>3, SumsAgree
<1>5. g[S] = f[Some(S)] + g[T]
  BY <1>2 DEF Sums
<1>6. QED
  BY <1>2, <1>3, <1>4, <1>5

LEMMA SumInt ==
  ASSUME NEW S, IsFiniteSet(S), NEW f, \A x \in S : f[x] \in Int
  PROVE  SumFunctionOnSet(f, S) \in Int
<1> DEFINE P == {T \in SUBSET S : SumFunctionOnSet(f, T) \in Int}
<1>1. ASSUME NEW T \in SUBSET S, \A U \in SUBSET T : U # T => U \in P
      PROVE  T \in P
  <2>1. CASE T = {}
    BY <2>1, SumEmpty
  <2>2. CASE T # {}
    <3>1. Some(T) \in T /\ IsFiniteSet(T)
      BY <2>2, SomeIn, FS_Subset
    <3>2. T \ {Some(T)} \in P
      BY <1>1, <3>1
    <3>3. SumFunctionOnSet(f, T) = f[Some(T)] + SumFunctionOnSet(f, T \ {Some(T)})
      BY <2>2, <3>1, SumSome
    <3>4. f[Some(T)] \in Int
      BY <3>1
    <3>5. QED
      BY <3>2, <3>3, <3>4
  <2>3. QED
    BY <2>1, <2>2
<1> HIDE DEF P
<1>2. SUBSET S \subseteq P
  BY <1>1, SubsetInduction
<1>3. QED
  BY <1>2 DEF P

\* A sum is what any one element adds to the sum of the others.
LEMMA SumRemove ==
  ASSUME NEW S, IsFiniteSet(S), NEW f, \A x \in S : f[x] \in Int
  PROVE  \A x \in S : SumFunctionOnSet(f, S) = f[x] + SumFunctionOnSet(f, S \ {x})
<1> DEFINE Sum(T) == SumFunctionOnSet(f, T)
           Holds(T) == \A x \in T : Sum(T) = f[x] + Sum(T \ {x})
           P == {T \in SUBSET S : Holds(T)}
<1>1. \A T \in SUBSET S : IsFiniteSet(T) /\ Sum(T) \in Int
  BY FS_Subset, SumInt
<1>2. ASSUME NEW T \in SUBSET S, \A U \in SUBSET T : U # T => U \in P, NEW x \in T
      PROVE  Sum(T) = f[x] + Sum(T \ {x})
  <2> DEFINE p == Some(T)
  <2>1. p \in T
    BY SomeIn
  <2>2. Sum(T) = f[p] + Sum(T \ {p})
    BY <1>1, SumSome
  <2>3. CASE x = p
    BY <2>2, <2>3
  <2>4. CASE x # p
    <3>1. Sum(T \ {p}) = f[x] + Sum((T \ {p}) \ {x})
      <4>1. T \ {p} \in P /\ x \in T \ {p}
        BY <1>2, <2>1, <2>4
      <4>2. QED
        BY <4>1
    <3>2. Sum(T \ {x}) = f[p] + Sum((T \ {x}) \ {p})
      <4>1. T \ {x} \in P /\ p \in T \ {x}
        BY <1>2, <2>1, <2>4
      <4>2. QED
        BY <4>1
    <3>3. Sum((T \ {p}) \ {x}) = Sum((T \ {x}) \ {p})
      <4>1. (T \ {p}) \ {x} = (T \ {x}) \ {p}
        OBVIOUS
      <4>2. QED
        BY <4>1
    <3>4. f[p] \in Int /\ f[x] \in Int /\ Sum((T \ {x}) \ {p}) \in Int
      BY <1>1, <2>1
    <3> HIDE DEF Sum, p
    <3>5. QED
      BY <2>2, <3>1, <3>2, <3>3, <3>4
  <2>5. QED
    BY <2>3, <2>4
<1>3. \A T \in SUBSET S : (\A U \in SUBSET T : U # T => U \in P) => T \in P
  BY <1>2
<1> HIDE DEF P
<1>4. SUBSET S \subseteq P
  BY <1>3, SubsetInduction
<1>5. QED
  BY <1>4 DEF P

LEMMA SumAdd ==
  ASSUME NEW S, IsFiniteSet(S), NEW f, \A x \in S : f[x] \in Int,
         NEW a, a \notin S, f[a] \in Int
  PROVE  SumFunctionOnSet(f, S \cup {a}) = f[a] + SumFunctionOnSet(f, S)
<1> DEFINE T == S \cup {a}
<1>1. IsFiniteSet(T)
  BY FS_AddElement
<1>2. a \in T /\ T \ {a} = S /\ \A x \in T : f[x] \in Int
  OBVIOUS
<1> HIDE DEF T
<1>3. SumFunctionOnSet(f, T) = f[a] + SumFunctionOnSet(f, T \ {a})
  BY <1>1, <1>2, SumRemove
<1>4. QED
  BY <1>2, <1>3 DEF T

\* Sums of pointwise related functions: what holds of the summands holds of the sum.
LEMMA SumSame ==
  ASSUME NEW S, IsFiniteSet(S), NEW f, NEW g, \A x \in S : f[x] \in Int /\ g[x] = f[x]
  PROVE  SumFunctionOnSet(g, S) = SumFunctionOnSet(f, S)
<1> DEFINE P == {T \in SUBSET S : SumFunctionOnSet(g, T) = SumFunctionOnSet(f, T)}
<1>1. {} \in P
  BY SumEmpty
<1>2. ASSUME NEW T \in SUBSET S, NEW a \in S \ T, T \in P
      PROVE  T \cup {a} \in P
  <2>1. IsFiniteSet(T)
    BY FS_Subset
  <2>2. SumFunctionOnSet(f, T \cup {a}) = f[a] + SumFunctionOnSet(f, T)
    BY <2>1, SumAdd
  <2>3. SumFunctionOnSet(g, T \cup {a}) = g[a] + SumFunctionOnSet(g, T)
    BY <2>1, SumAdd
  <2>4. QED
    BY <1>2, <2>2, <2>3
<1> HIDE DEF P
<1>3. SUBSET S \subseteq P
  BY <1>1, <1>2, AddInduction
<1>4. QED
  BY <1>3 DEF P

LEMMA SumLe ==
  ASSUME NEW S, IsFiniteSet(S), NEW f, NEW g,
         \A x \in S : f[x] \in Int /\ g[x] \in Int /\ f[x] <= g[x]
  PROVE  SumFunctionOnSet(f, S) <= SumFunctionOnSet(g, S)
<1> DEFINE P == {T \in SUBSET S : SumFunctionOnSet(f, T) <= SumFunctionOnSet(g, T)}
<1>1. {} \in P
  BY SumEmpty
<1>2. ASSUME NEW T \in SUBSET S, NEW a \in S \ T, T \in P
      PROVE  T \cup {a} \in P
  <2>1. IsFiniteSet(T)
    BY FS_Subset
  <2>2. SumFunctionOnSet(f, T \cup {a}) = f[a] + SumFunctionOnSet(f, T)
    BY <2>1, SumAdd
  <2>3. SumFunctionOnSet(g, T \cup {a}) = g[a] + SumFunctionOnSet(g, T)
    BY <2>1, SumAdd
  <2>4. SumFunctionOnSet(f, T) \in Int /\ SumFunctionOnSet(g, T) \in Int
    BY <2>1, SumInt
  <2>5. SumFunctionOnSet(f, T) <= SumFunctionOnSet(g, T) /\ f[a] <= g[a]
    BY <1>2
  <2>6. f[a] \in Int /\ g[a] \in Int
    OBVIOUS
  <2>7. SumFunctionOnSet(f, T \cup {a}) <= SumFunctionOnSet(g, T \cup {a})
    BY <2>2, <2>3, <2>4, <2>5, <2>6
  <2>8. QED
    BY <2>7
<1> HIDE DEF P
<1>3. SUBSET S \subseteq P
  BY <1>1, <1>2, AddInduction
<1>4. QED
  BY <1>3 DEF P

\* One summand changes.
LEMMA SumChange ==
  ASSUME NEW S, IsFiniteSet(S), NEW f, NEW g, NEW a \in S,
         \A x \in S : f[x] \in Int, \A x \in S \ {a} : g[x] = f[x], g[a] \in Int
  PROVE  SumFunctionOnSet(g, S) = SumFunctionOnSet(f, S) - f[a] + g[a]
<1> DEFINE T == S \ {a}
<1>1. IsFiniteSet(T)
  BY FS_Subset
<1>2. SumFunctionOnSet(f, S) = f[a] + SumFunctionOnSet(f, T)
  BY SumRemove
<1>3. SumFunctionOnSet(g, S) = g[a] + SumFunctionOnSet(g, T)
  <2>1. \A x \in S : g[x] \in Int
    OBVIOUS
  <2>2. QED
    BY <2>1, SumRemove
<1>4. \A x \in T : f[x] \in Int /\ g[x] = f[x]
  OBVIOUS
<1> HIDE DEF T
<1>5. SumFunctionOnSet(g, T) = SumFunctionOnSet(f, T)
  BY <1>1, <1>4, SumSame
<1>6. SumFunctionOnSet(f, T) \in Int
  BY <1>1, <1>4, SumInt
<1>7. f[a] \in Int
  OBVIOUS
<1>8. QED
  BY <1>2, <1>3, <1>5, <1>6, <1>7

\* Nothing is summed.
LEMMA SumZero ==
  ASSUME NEW S, IsFiniteSet(S), NEW f, \A x \in S : f[x] = 0
  PROVE  SumFunctionOnSet(f, S) = 0
<1> DEFINE P == {T \in SUBSET S : SumFunctionOnSet(f, T) = 0}
<1>1. {} \in P
  BY SumEmpty
<1>2. ASSUME NEW T \in SUBSET S, NEW a \in S \ T, T \in P
      PROVE  T \cup {a} \in P
  <2>1. IsFiniteSet(T)
    BY FS_Subset
  <2>2. SumFunctionOnSet(f, T \cup {a}) = f[a] + SumFunctionOnSet(f, T)
    BY <2>1, SumAdd
  <2>3. QED
    BY <1>2, <2>2
<1> HIDE DEF P
<1>3. SUBSET S \subseteq P
  BY <1>1, <1>2, AddInduction
<1>4. QED
  BY <1>3 DEF P

LEMMA SumNat ==
  ASSUME NEW S, IsFiniteSet(S), NEW f, \A x \in S : f[x] \in Nat
  PROVE  SumFunctionOnSet(f, S) \in Nat
<1> DEFINE zero == [x \in S |-> 0]
<1>1. \A x \in S : zero[x] \in Int /\ f[x] \in Int /\ zero[x] <= f[x]
  OBVIOUS
<1>2. \A x \in S : zero[x] = 0
  OBVIOUS
<1> HIDE DEF zero
<1>3. SumFunctionOnSet(zero, S) = 0
  BY <1>2, SumZero
<1>4. SumFunctionOnSet(zero, S) <= SumFunctionOnSet(f, S)
  BY <1>1, SumLe
<1>5. SumFunctionOnSet(f, S) \in Int
  BY SumInt
<1>6. QED
  BY <1>3, <1>4, <1>5

\* The part of a set adds no more than the whole, where nothing is negative.
LEMMA SumPart ==
  ASSUME NEW S, IsFiniteSet(S), NEW T \in SUBSET S, NEW f, \A x \in S : f[x] \in Nat
  PROVE  SumFunctionOnSet(f, T) <= SumFunctionOnSet(f, S)
<1> DEFINE W == S \ T
           P == {U \in SUBSET W : SumFunctionOnSet(f, T) <= SumFunctionOnSet(f, T \cup U)}
<1>1. IsFiniteSet(T) /\ IsFiniteSet(W)
  BY FS_Subset, FS_Difference
<1>2. SumFunctionOnSet(f, T) \in Int
  BY <1>1, SumInt
<1>3. {} \in P
  <2>1. T \cup {} = T
    OBVIOUS
  <2>2. QED
    BY <1>2, <2>1
<1>4. ASSUME NEW U \in SUBSET W, NEW a \in W \ U, U \in P
      PROVE  U \cup {a} \in P
  <2> DEFINE V == T \cup U
  <2>1. IsFiniteSet(V) /\ a \notin V /\ \A x \in V : f[x] \in Int
    BY FS_Subset
  <2>2. V \cup {a} = T \cup (U \cup {a})
    OBVIOUS
  <2>3. SumFunctionOnSet(f, T) <= SumFunctionOnSet(f, V)
    BY <1>4
  <2>4. f[a] \in Nat
    OBVIOUS
  <2> HIDE DEF V
  <2>5. SumFunctionOnSet(f, V \cup {a}) = f[a] + SumFunctionOnSet(f, V)
    BY <2>1, <2>4, SumAdd
  <2>6. SumFunctionOnSet(f, V) \in Int
    BY <2>1, SumInt
  <2>7. SumFunctionOnSet(f, T) <= SumFunctionOnSet(f, V \cup {a})
    BY <1>2, <2>3, <2>4, <2>5, <2>6
  <2>8. QED
    BY <2>2, <2>7
<1> HIDE DEF P, W
<1>5. SUBSET W \subseteq P
  BY <1>1, <1>3, <1>4, AddInduction
<1>6. T \cup W = S
  BY DEF W
<1>7. QED
  BY <1>5, <1>6 DEF P

\* A sum over a part is the sum over all, with nothing for the rest.
LEMMA SumWithin ==
  ASSUME NEW S, IsFiniteSet(S), NEW T \in SUBSET S, NEW f, \A x \in S : f[x] \in Int
  PROVE  SumFunctionOnSet(f, T) = SumFunctionOnSet([x \in S |-> IF x \in T THEN f[x] ELSE 0], S)
<1> DEFINE g == [x \in S |-> IF x \in T THEN f[x] ELSE 0]
           W == S \ T
           P == {U \in SUBSET W : SumFunctionOnSet(g, T \cup U) = SumFunctionOnSet(f, T)}
<1>1. IsFiniteSet(T) /\ IsFiniteSet(W)
  BY FS_Subset, FS_Difference
<1>2. (\A x \in T : g[x] = f[x]) /\ (\A x \in W : g[x] = 0) /\ (\A x \in S : g[x] \in Int)
  OBVIOUS
<1> HIDE DEF g
<1>3. {} \in P
  <2>1. T \cup {} = T
    OBVIOUS
  <2>2. \A x \in T : f[x] \in Int /\ g[x] = f[x]
    BY <1>2
  <2>3. SumFunctionOnSet(g, T) = SumFunctionOnSet(f, T)
    BY <1>1, <2>2, SumSame
  <2> QED
    BY <2>1, <2>3
<1>4. ASSUME NEW U \in SUBSET W, NEW a \in W \ U, U \in P
      PROVE  U \cup {a} \in P
  <2> DEFINE V == T \cup U
  <2>1. IsFiniteSet(V) /\ a \notin V /\ \A x \in V : g[x] \in Int
    BY <1>2, FS_Subset
  <2>2. V \cup {a} = T \cup (U \cup {a})
    OBVIOUS
  <2>3. g[a] = 0
    BY <1>2
  <2>4. SumFunctionOnSet(g, V) = SumFunctionOnSet(f, T) /\ SumFunctionOnSet(g, V) \in Int
    BY <1>4, <2>1, SumInt
  <2> HIDE DEF V
  <2>5. SumFunctionOnSet(g, V \cup {a}) = g[a] + SumFunctionOnSet(g, V)
    BY <2>1, <2>3, SumAdd
  <2>6. SumFunctionOnSet(g, V \cup {a}) = SumFunctionOnSet(f, T)
    BY <2>3, <2>4, <2>5
  <2> QED
    BY <2>2, <2>6
<1> HIDE DEF P, W
<1>5. SUBSET W \subseteq P
  BY <1>1, <1>3, <1>4, AddInduction
<1>6. SumFunctionOnSet(g, T \cup W) = SumFunctionOnSet(f, T)
  BY <1>5 DEF P
<1>7. T \cup W = S
  BY DEF W
<1> QED
  BY <1>6, <1>7 DEF g

\* A sum of ones or more is at least their number.
LEMMA SumCard ==
  ASSUME NEW S, IsFiniteSet(S), NEW f, \A x \in S : f[x] \in Nat \ {0}
  PROVE  Cardinality(S) <= SumFunctionOnSet(f, S)
<1> DEFINE P == {T \in SUBSET S : Cardinality(T) <= SumFunctionOnSet(f, T)}
<1>1. {} \in P
  <2>1. Cardinality({}) = 0 /\ SumFunctionOnSet(f, {}) = 0
    BY FS_EmptySet, SumEmpty
  <2> QED
    BY <2>1
<1>2. ASSUME NEW T \in SUBSET S, NEW a \in S \ T, T \in P
      PROVE  T \cup {a} \in P
  <2>1. IsFiniteSet(T) /\ (\A x \in T : f[x] \in Int) /\ f[a] \in Int /\ f[a] >= 1
    BY FS_Subset
  <2>2. SumFunctionOnSet(f, T \cup {a}) = f[a] + SumFunctionOnSet(f, T) /\ SumFunctionOnSet(f, T) \in Int
    BY <2>1, SumAdd, SumInt
  <2>3. Cardinality(T \cup {a}) = Cardinality(T) + 1 /\ Cardinality(T) \in Nat
    BY <2>1, FS_AddElement, FS_CardinalityType
  <2>4. Cardinality(T) <= SumFunctionOnSet(f, T)
    BY <1>2
  <2> QED
    BY <2>1, <2>2, <2>3, <2>4
<1> HIDE DEF P
<1>3. SUBSET S \subseteq P
  BY <1>1, <1>2, AddInduction
<1> QED
  BY <1>3 DEF P
=============================================================================
