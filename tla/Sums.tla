-------------------------------- MODULE Sums --------------------------------
(***************************************************************************)
(* Lemmas about sums over finite sets, as SumFunctionOnSet computes them.  *)
(* The balances of Usage.tla and the reports of Ledger.tla are such sums.  *)
(*                                                                         *)
(* Induction is by a set instead of a predicate: the sets for which a fact *)
(* holds are collected in Good, and FiniteInduction says when that is all. *)
(***************************************************************************)
EXTENDS Integers, Functions, FiniteSetTheorems, WellFoundedInduction, TLAPS

-----------------------------------------------------------------------------
(* Induction over finite sets *)

\* What holds of a set whenever it holds of the smaller ones holds of every finite set.
LEMMA SubsetInduction ==
    ASSUME NEW S, IsFiniteSet(S), NEW Good,
           \A T \in SUBSET S : (\A U \in SUBSET T : U # T => U \in Good) => T \in Good
    PROVE  SUBSET S \subseteq Good
  <1> DEFINE Bad == (SUBSET S) \ Good
  <1>1. IsWellFoundedOn(StrictSubsetOrdering(S), SUBSET S)
    BY FS_StrictSubsetOrderingWellFounded, FS_FiniteSubsetsOfFinite
  <1>2. CASE Bad = {}
    BY <1>2
  <1>3. CASE Bad # {}
    <2>1. Bad \subseteq SUBSET S
      OBVIOUS
    <2>2. \E T \in Bad : \A U \in Bad : <<U, T>> \notin StrictSubsetOrdering(S)
      <3> HIDE DEF Bad
      <3> QED  BY <1>1, <1>3, <2>1, WFMin
    <2>3. PICK T \in Bad : \A U \in Bad : <<U, T>> \notin StrictSubsetOrdering(S)
      BY <2>2
    <2>4. ASSUME NEW U \in SUBSET T, U # T
          PROVE  U \in Good
      <3>1. <<U, T>> \in StrictSubsetOrdering(S)
        BY <2>4 DEF StrictSubsetOrdering
      <3> QED  BY <2>3, <3>1
    <2> QED  BY <2>4
  <1> QED  BY <1>2, <1>3

\* What holds of the empty set and survives one more element does so too.
LEMMA FiniteInduction ==
    ASSUME NEW S, IsFiniteSet(S), NEW Good,
           {} \in Good,
           \A T \in SUBSET S : \A x \in S \ T : T \in Good => T \cup {x} \in Good
    PROVE  S \in Good
  <1>1. ASSUME NEW T \in SUBSET S, \A U \in SUBSET T : U # T => U \in Good
        PROVE  T \in Good
    <2>1. CASE T = {}
      BY <2>1
    <2>2. CASE T # {}
      <3>1. PICK x \in T : TRUE
        BY <2>2
      <3>2. (T \ {x}) \cup {x} = T /\ x \in S \ (T \ {x}) /\ T \ {x} \in SUBSET S
        OBVIOUS
      <3>3. T \ {x} \in Good
        BY <1>1
      <3> QED  BY <3>2, <3>3
    <2> QED  BY <2>1, <2>2
  <1> QED  BY <1>1, SubsetInduction

-----------------------------------------------------------------------------
(* A sum is defined, whatever order the elements are taken in *)

Numbers(f, S) == \A x \in S : f[x] \in Int

\* What the sum of f does on the subsets of S.
IsSum(g, f, S) ==
    /\ g \in [SUBSET S -> Int]
    /\ g[{}] = 0
    /\ \A T \in SUBSET S : \A x \in T : g[T] = f[x] + g[T \ {x}]

\* There is such a function for every finite set.
LEMMA SumExists ==
    ASSUME NEW S, IsFiniteSet(S), NEW f, Numbers(f, S)
    PROVE  \E g : IsSum(g, f, S)
  <1> DEFINE Good == {T \in SUBSET S : \E g : IsSum(g, f, T)}
  <1>1. {} \in Good
    <2>1. IsSum([T \in SUBSET {} |-> 0], f, {})
      BY DEF IsSum
    <2> QED  BY <2>1
  <1>2. ASSUME NEW T \in SUBSET S, NEW x \in S \ T, T \in Good
        PROVE  T \cup {x} \in Good
    <2> DEFINE U == T \cup {x}
    <2>1. PICK g : IsSum(g, f, T)
      BY <1>2
    <2> DEFINE h == [V \in SUBSET U |-> IF x \in V THEN f[x] + g[V \ {x}] ELSE g[V]]
    <2>2. f[x] \in Int /\ \A y \in T : f[y] \in Int
      BY DEF Numbers
    <2>3. ASSUME NEW V \in SUBSET U
          PROVE  /\ V \ {x} \in SUBSET T
                 /\ x \notin V => V \in SUBSET T
                 /\ h[V] \in Int
      <3>1. V \ {x} \in SUBSET T /\ (x \notin V => V \in SUBSET T)
        OBVIOUS
      <3> QED  BY <2>1, <2>2, <3>1 DEF IsSum
    <2>4. h \in [SUBSET U -> Int] /\ h[{}] = 0
      BY <2>1, <2>3 DEF IsSum
    <2>5. ASSUME NEW V \in SUBSET U, NEW y \in V
          PROVE  h[V] = f[y] + h[V \ {y}]
      <3>1. CASE y = x
        <4>1. h[V] = f[x] + g[V \ {x}] /\ h[V \ {y}] = g[V \ {x}]
          BY <3>1
        <4> QED  BY <3>1, <4>1
      <3>2. CASE y # x /\ x \in V
        <4> DEFINE W == V \ {x}
        <4>1. y \in W /\ W \in SUBSET T /\ (V \ {y}) \ {x} = W \ {y}
          BY <3>2, <2>3
        <4>2. h[V] = f[x] + g[W] /\ h[V \ {y}] = f[x] + g[W \ {y}]
          BY <3>2, <4>1
        <4>3. g[W] = f[y] + g[W \ {y}] /\ g[W] \in Int /\ g[W \ {y}] \in Int
          BY <2>1, <4>1 DEF IsSum
        <4>4. f[y] \in Int
          BY <4>1, <2>2
        <4> HIDE DEF h, W
        <4> QED  BY <4>2, <4>3, <4>4, <2>2
      <3>3. CASE x \notin V
        <4>1. V \in SUBSET T /\ y \in V
          BY <3>3
        <4>2. h[V] = g[V] /\ h[V \ {y}] = g[V \ {y}]
          BY <3>3
        <4> QED  BY <2>1, <4>1, <4>2 DEF IsSum
      <3> QED  BY <3>1, <3>2, <3>3
    <2>6. IsSum(h, f, U)
      <3> HIDE DEF h, U
      <3> QED  BY <2>4, <2>5 DEF IsSum
    <2>7. U \in SUBSET S
      OBVIOUS
    <2> QED  BY <2>6, <2>7
  <1>3. S \in Good
    <2> HIDE DEF Good
    <2> QED  BY <1>1, <1>2, FiniteInduction
  <1> QED  BY <1>3

\* One element of a set, as the fold chooses it.
Some(T) == CHOOSE x \in T : TRUE

Fold(f, S) ==
    CHOOSE g : g = [T \in SUBSET S |->
        IF T = {} THEN 0 ELSE f[Some(T)] + g[T \ {Some(T)}]]

\* The sum of the community module is the last value of a recursive function on subsets.
LEMMA SumUnfolds ==
    ASSUME NEW S, NEW f
    PROVE  SumFunctionOnSet(f, S) = Fold(f, S)[S]
  BY DEF SumFunctionOnSet, FoldFunctionOnSet, MapThenFoldSet, Fold, Some

\* The fold is that function, so that the order in which it goes does not matter.
LEMMA FoldIsSum ==
    ASSUME NEW S, IsFiniteSet(S), NEW f, NEW g, IsSum(g, f, S), NEW T \in SUBSET S
    PROVE  SumFunctionOnSet(f, T) = g[T]
  <1> DEFINE Goes(h) == h = [U \in SUBSET T |->
        IF U = {} THEN 0 ELSE f[Some(U)] + h[U \ {Some(U)}]]
  <1> DEFINE restricted == [U \in SUBSET T |-> g[U]]
  <1>1. ASSUME NEW U \in SUBSET T, U # {}
        PROVE  Some(U) \in U
    BY <1>1 DEF Some
  <1>2. ASSUME NEW U \in SUBSET T
        PROVE  restricted[U] =
                IF U = {} THEN 0 ELSE f[Some(U)] + restricted[U \ {Some(U)}]
    <2>1. U \in SUBSET S /\ U \ {Some(U)} \in SUBSET T
      OBVIOUS
    <2>2. U # {} => g[U] = f[Some(U)] + g[U \ {Some(U)}]
      BY <1>1, <2>1 DEF IsSum
    <2> QED  BY <2>1, <2>2 DEF IsSum
  <1>3. Goes(restricted)
    <2> HIDE DEF restricted
    <2>1. restricted = [U \in SUBSET T |-> restricted[U]]
      BY DEF restricted
    <2> QED  BY <1>2, <2>1
  <1> DEFINE h == Fold(f, T)
  <1>4. Goes(h)
    BY <1>3 DEF Fold
  <1> HIDE DEF h
  <1> DEFINE Good == {U \in SUBSET T : h[U] = g[U]}
  <1>5. ASSUME NEW U \in SUBSET T, \A V \in SUBSET U : V # U => V \in Good
        PROVE  U \in Good
    <2>1. CASE U = {}
      BY <1>4, <2>1 DEF IsSum
    <2>2. CASE U # {}
      <3>1. Some(U) \in U
        BY <1>1, <2>2
      <3>2. h[U] = f[Some(U)] + h[U \ {Some(U)}]
        BY <1>4, <2>2
      <3>3. g[U] = f[Some(U)] + g[U \ {Some(U)}]
        BY <3>1 DEF IsSum
      <3>4. h[U \ {Some(U)}] = g[U \ {Some(U)}]
        BY <1>5, <3>1
      <3> QED  BY <3>2, <3>3, <3>4
    <2> QED  BY <2>1, <2>2
  <1>6. IsFiniteSet(T)
    BY FS_Subset
  <1>7. SUBSET T \subseteq Good
    <2> HIDE DEF Good
    <2> QED  BY <1>5, <1>6, SubsetInduction
  <1>8. SumFunctionOnSet(f, T) = h[T]
    BY SumUnfolds DEF h
  <1> QED  BY <1>7, <1>8

-----------------------------------------------------------------------------
(* What the proofs use of sums *)

\* A sum is a number; nothing adds up to 0, and each element counts once.
LEMMA SumRules ==
    ASSUME NEW S, IsFiniteSet(S), NEW f, Numbers(f, S)
    PROVE  /\ SumFunctionOnSet(f, S) \in Int
           /\ SumFunctionOnSet(f, {}) = 0
           /\ \A x \in S :
                /\ SumFunctionOnSet(f, S \ {x}) \in Int
                /\ SumFunctionOnSet(f, S) = f[x] + SumFunctionOnSet(f, S \ {x})
  <1>1. PICK g : IsSum(g, f, S)
    BY SumExists
  <1>2. \A T \in SUBSET S : SumFunctionOnSet(f, T) = g[T]
    BY <1>1, FoldIsSum
  <1>3. {} \in SUBSET S /\ S \in SUBSET S /\ \A x \in S : S \ {x} \in SUBSET S
    OBVIOUS
  <1> QED  BY <1>1, <1>2, <1>3 DEF IsSum

\* One more element.
LEMMA SumMore ==
    ASSUME NEW S, IsFiniteSet(S), NEW x, x \notin S, NEW f, Numbers(f, S), f[x] \in Int
    PROVE  /\ IsFiniteSet(S \cup {x})
           /\ Numbers(f, S \cup {x})
           /\ SumFunctionOnSet(f, S \cup {x}) = SumFunctionOnSet(f, S) + f[x]
  <1>1. IsFiniteSet(S \cup {x})
    BY FS_AddElement
  <1>2. Numbers(f, S \cup {x})
    BY DEF Numbers
  <1>3. (S \cup {x}) \ {x} = S
    OBVIOUS
  <1>4. SumFunctionOnSet(f, S \cup {x}) = f[x] + SumFunctionOnSet(f, S)
    BY <1>1, <1>2, <1>3, SumRules
  <1> QED  BY <1>1, <1>2, <1>4, SumRules

\* Only the values on the set matter.
LEMMA SumSame ==
    ASSUME NEW S, IsFiniteSet(S), NEW f, NEW g, Numbers(f, S), \A x \in S : f[x] = g[x]
    PROVE  SumFunctionOnSet(f, S) = SumFunctionOnSet(g, S)
  <1> DEFINE Good == {T \in SUBSET S : SumFunctionOnSet(f, T) = SumFunctionOnSet(g, T)}
  <1>1. {} \in Good
    BY FS_EmptySet, SumRules DEF Numbers
  <1>2. ASSUME NEW T \in SUBSET S, NEW x \in S \ T, T \in Good
        PROVE  T \cup {x} \in Good
    <2>1. IsFiniteSet(T)
      BY FS_Subset
    <2>2. /\ Numbers(f, T) /\ Numbers(g, T)
          /\ f[x] \in Int /\ g[x] = f[x] /\ x \notin T
      BY DEF Numbers
    <2>3. SumFunctionOnSet(f, T \cup {x}) = SumFunctionOnSet(f, T) + f[x]
      BY <2>1, <2>2, SumMore
    <2>4. SumFunctionOnSet(g, T \cup {x}) = SumFunctionOnSet(g, T) + g[x]
      BY <2>1, <2>2, SumMore
    <2> QED  BY <1>2, <2>2, <2>3, <2>4
  <1>3. S \in Good
    <2> HIDE DEF Good
    <2> QED  BY <1>1, <1>2, FiniteInduction
  <1> QED  BY <1>3

\* When one value changes, the sum changes by as much.
LEMMA SumChanges ==
    ASSUME NEW S, IsFiniteSet(S), NEW f, NEW g, Numbers(f, S), NEW x \in S, g[x] \in Int,
           \A y \in S \ {x} : g[y] = f[y]
    PROVE  SumFunctionOnSet(g, S) = SumFunctionOnSet(f, S) + g[x] - f[x]
  <1>1. Numbers(g, S) /\ Numbers(f, S \ {x}) /\ f[x] \in Int
    BY DEF Numbers
  <1>2. IsFiniteSet(S \ {x})
    BY FS_RemoveElement
  <1>3. SumFunctionOnSet(f, S \ {x}) = SumFunctionOnSet(g, S \ {x})
    BY <1>1, <1>2, SumSame
  <1>4. /\ SumFunctionOnSet(f, S) = f[x] + SumFunctionOnSet(f, S \ {x})
        /\ SumFunctionOnSet(f, S \ {x}) \in Int
    BY <1>1, SumRules
  <1>5. SumFunctionOnSet(g, S) = g[x] + SumFunctionOnSet(g, S \ {x})
    BY <1>1, SumRules
  <1> QED  BY <1>1, <1>3, <1>4, <1>5

\* The sum of a function of integers over part of its domain.
LEMMA SumType ==
    ASSUME NEW S, IsFiniteSet(S), NEW f \in [S -> Int], NEW T \in SUBSET S
    PROVE  IsFiniteSet(T) /\ Numbers(f, T) /\ SumFunctionOnSet(f, T) \in Int
  <1>1. IsFiniteSet(T) /\ Numbers(f, T)
    BY FS_Subset DEF Numbers
  <1> QED  BY <1>1, SumRules

\* The same, of one place of a function and of any part of its domain.
LEMMA SumAdjusts ==
    ASSUME NEW S, IsFiniteSet(S), NEW f \in [S -> Int], NEW T \in SUBSET S,
           NEW x \in S, NEW delta \in Int, NEW g,
           g[x] = f[x] + delta, \A y \in S \ {x} : g[y] = f[y]
    PROVE  /\ x \in T => SumFunctionOnSet(g, T) = SumFunctionOnSet(f, T) + delta
           /\ x \notin T => SumFunctionOnSet(g, T) = SumFunctionOnSet(f, T)
  <1>1. IsFiniteSet(T) /\ Numbers(f, T) /\ SumFunctionOnSet(f, T) \in Int
    BY SumType
  <1>3. g[x] = f[x] + delta /\ f[x] \in Int /\ \A y \in S \ {x} : g[y] = f[y]
    OBVIOUS
  <1>4. ASSUME x \in T
        PROVE  SumFunctionOnSet(g, T) = SumFunctionOnSet(f, T) + delta
    <2>1. g[x] \in Int /\ \A y \in T \ {x} : g[y] = f[y]
      BY <1>3
    <2>2. SumFunctionOnSet(g, T) = SumFunctionOnSet(f, T) + g[x] - f[x]
      BY <1>1, <1>4, <2>1, SumChanges
    <2> QED  BY <1>1, <1>3, <2>2
  <1>5. ASSUME x \notin T
        PROVE  SumFunctionOnSet(g, T) = SumFunctionOnSet(f, T)
    <2>1. \A y \in T : f[y] = g[y]
      BY <1>3, <1>5
    <2> QED  BY <1>1, <2>1, SumSame
  <1> QED  BY <1>4, <1>5

\* Zeros add up to 0.
LEMMA SumOfZeros ==
    ASSUME NEW S, IsFiniteSet(S), NEW f, \A x \in S : f[x] = 0
    PROVE  SumFunctionOnSet(f, S) = 0
  <1> DEFINE Good == {T \in SUBSET S : SumFunctionOnSet(f, T) = 0}
  <1>1. {} \in Good
    BY FS_EmptySet, SumRules DEF Numbers
  <1>2. ASSUME NEW T \in SUBSET S, NEW x \in S \ T, T \in Good
        PROVE  T \cup {x} \in Good
    <2>1. IsFiniteSet(T) /\ Numbers(f, T) /\ f[x] \in Int /\ x \notin T /\ f[x] = 0
      BY FS_Subset DEF Numbers
    <2>2. SumFunctionOnSet(f, T \cup {x}) = SumFunctionOnSet(f, T) + f[x]
      BY <2>1, SumMore
    <2> QED  BY <1>2, <2>1, <2>2
  <1>3. S \in Good
    <2> HIDE DEF Good
    <2> QED  BY <1>1, <1>2, FiniteInduction
  <1> QED  BY <1>3

\* One element adds up to its value.
LEMMA SumOfOne ==
    ASSUME NEW x, NEW f, f[x] \in Int
    PROVE  SumFunctionOnSet(f, {x}) = f[x]
  <1>1. IsFiniteSet({x}) /\ Numbers(f, {x})
    BY FS_Singleton DEF Numbers
  <1>2. {x} \ {x} = {} /\ x \in {x}
    OBVIOUS
  <1>3. SumFunctionOnSet(f, {x}) = f[x] + SumFunctionOnSet(f, {x} \ {x})
    BY <1>1, <1>2, SumRules
  <1>4. SumFunctionOnSet(f, {}) = 0
    BY <1>1, SumRules
  <1> QED  BY <1>2, <1>3, <1>4

-----------------------------------------------------------------------------
(* Parts, columns, counts and groups *)

\* A sum over a set is that over a part and that over the rest.
LEMMA SumSplits ==
    ASSUME NEW S, IsFiniteSet(S), NEW f, Numbers(f, S), NEW P \in SUBSET S
    PROVE  /\ SumFunctionOnSet(f, P) \in Int /\ SumFunctionOnSet(f, S \ P) \in Int
           /\ SumFunctionOnSet(f, S) = SumFunctionOnSet(f, P) + SumFunctionOnSet(f, S \ P)
  <1> DEFINE Good == {T \in SUBSET P : SumFunctionOnSet(f, S) =
                        SumFunctionOnSet(f, T) + SumFunctionOnSet(f, S \ T)}
  <1>1. ASSUME NEW T \in SUBSET S
        PROVE  IsFiniteSet(T) /\ Numbers(f, T) /\ SumFunctionOnSet(f, T) \in Int
    <2>1. IsFiniteSet(T) /\ Numbers(f, T)
      BY FS_Subset DEF Numbers
    <2> QED  BY <2>1, SumRules
  <1>2. {} \in Good
    <2>1. S \ {} = S /\ SumFunctionOnSet(f, {}) = 0 /\ SumFunctionOnSet(f, S) \in Int
      BY SumRules
    <2> QED  BY <2>1
  <1>3. ASSUME NEW T \in SUBSET P, NEW x \in P \ T, T \in Good
        PROVE  T \cup {x} \in Good
    <2> DEFINE rest == S \ (T \cup {x})
    <2>1. S \ T \in SUBSET S /\ rest \in SUBSET S /\ x \notin T /\ x \notin rest /\ rest \cup {x} = S \ T
      OBVIOUS
    <2>2. f[x] \in Int /\ T \in SUBSET S
      BY DEF Numbers
    <2> HIDE DEF rest
    <2>3. SumFunctionOnSet(f, T \cup {x}) = SumFunctionOnSet(f, T) + f[x]
      BY <1>1, <2>1, <2>2, SumMore
    <2>4. SumFunctionOnSet(f, rest \cup {x}) = SumFunctionOnSet(f, rest) + f[x]
      BY <1>1, <2>1, <2>2, SumMore
    <2>5. SumFunctionOnSet(f, S) = SumFunctionOnSet(f, T) + SumFunctionOnSet(f, S \ T)
      BY <1>3
    <2>6. /\ SumFunctionOnSet(f, T) \in Int /\ SumFunctionOnSet(f, rest) \in Int
      BY <1>1, <2>1, <2>2
    <2>a. SumFunctionOnSet(f, S \ T) = SumFunctionOnSet(f, rest) + f[x]
      BY <2>1, <2>4
    <2>7. SumFunctionOnSet(f, S) = SumFunctionOnSet(f, T \cup {x}) + SumFunctionOnSet(f, rest)
      BY <2>2, <2>3, <2>5, <2>6, <2>a
    <2>8. T \cup {x} \in SUBSET P
      OBVIOUS
    <2> QED  BY <2>7, <2>8 DEF rest
  <1>4. IsFiniteSet(P) /\ P \in Good
    <2> HIDE DEF Good
    <2>1. IsFiniteSet(P)
      BY FS_Subset
    <2> QED  BY <1>2, <1>3, <2>1, FiniteInduction
  <1>5. P \in SUBSET S /\ S \ P \in SUBSET S
    OBVIOUS
  <1> QED  BY <1>1, <1>4, <1>5

\* What adds nothing can be left out.
LEMMA SumRestricts ==
    ASSUME NEW S, IsFiniteSet(S), NEW f, Numbers(f, S), NEW P \in SUBSET S,
           \A x \in S \ P : f[x] = 0
    PROVE  SumFunctionOnSet(f, S) = SumFunctionOnSet(f, P)
  <1>1. IsFiniteSet(S \ P)
    BY FS_Subset
  <1>2. SumFunctionOnSet(f, S \ P) = 0
    BY <1>1, SumOfZeros
  <1> QED  BY <1>2, SumSplits

\* The sum of a sum of functions.
LEMMA SumAdds ==
    ASSUME NEW S, IsFiniteSet(S), NEW f, NEW g, NEW h, Numbers(f, S), Numbers(g, S),
           \A x \in S : h[x] = f[x] + g[x]
    PROVE  SumFunctionOnSet(h, S) = SumFunctionOnSet(f, S) + SumFunctionOnSet(g, S)
  <1> DEFINE Good == {T \in SUBSET S : SumFunctionOnSet(h, T) =
                        SumFunctionOnSet(f, T) + SumFunctionOnSet(g, T)}
  <1>1. Numbers(h, S)
    BY DEF Numbers
  <1>2. ASSUME NEW T \in SUBSET S
        PROVE  /\ IsFiniteSet(T) /\ Numbers(f, T) /\ Numbers(g, T) /\ Numbers(h, T)
               /\ SumFunctionOnSet(f, T) \in Int /\ SumFunctionOnSet(g, T) \in Int
    <2>1. IsFiniteSet(T) /\ Numbers(f, T) /\ Numbers(g, T) /\ Numbers(h, T)
      BY <1>1, FS_Subset DEF Numbers
    <2> QED  BY <2>1, SumRules
  <1>3. {} \in Good
    <2>1. /\ SumFunctionOnSet(f, {}) = 0 /\ SumFunctionOnSet(g, {}) = 0
          /\ SumFunctionOnSet(h, {}) = 0
      BY <1>1, SumRules
    <2> QED  BY <2>1
  <1>4. ASSUME NEW T \in SUBSET S, NEW x \in S \ T, T \in Good
        PROVE  T \cup {x} \in Good
    <2>1. f[x] \in Int /\ g[x] \in Int /\ h[x] = f[x] + g[x] /\ h[x] \in Int /\ x \notin T
      BY <1>1 DEF Numbers
    <2>2. /\ SumFunctionOnSet(f, T \cup {x}) = SumFunctionOnSet(f, T) + f[x]
          /\ SumFunctionOnSet(g, T \cup {x}) = SumFunctionOnSet(g, T) + g[x]
      BY <1>2, <2>1, SumMore
    <2>3. SumFunctionOnSet(h, T \cup {x}) = SumFunctionOnSet(h, T) + h[x]
      BY <1>2, <2>1, SumMore
    <2>4. SumFunctionOnSet(h, T) = SumFunctionOnSet(f, T) + SumFunctionOnSet(g, T)
      BY <1>4
    <2>5. SumFunctionOnSet(h, T \cup {x}) =
            SumFunctionOnSet(f, T \cup {x}) + SumFunctionOnSet(g, T \cup {x})
      BY <1>2, <2>1, <2>2, <2>3, <2>4
    <2> QED  BY <2>5
  <1>5. S \in Good
    <2> HIDE DEF Good
    <2> QED  BY <1>3, <1>4, FiniteInduction
  <1> QED  BY <1>5

\* The rows of a table add up to what its columns add up to.
LEMMA SumSwaps ==
    ASSUME NEW S, IsFiniteSet(S), NEW T, IsFiniteSet(T), NEW m \in [S -> [T -> Int]]
    PROVE  SumFunctionOnSet([x \in S |-> SumFunctionOnSet(m[x], T)], S) =
           SumFunctionOnSet([y \in T |-> SumFunctionOnSet([x \in S |-> m[x][y]], S)], T)
  <1> DEFINE row == [x \in S |-> SumFunctionOnSet(m[x], T)]
             entry(y) == [x \in S |-> m[x][y]]
             column(U) == [y \in T |-> SumFunctionOnSet(entry(y), U)]
             Good == {U \in SUBSET S : SumFunctionOnSet(row, U) = SumFunctionOnSet(column(U), T)}
  <1>1. ASSUME NEW x \in S
        PROVE  /\ m[x] \in [T -> Int] /\ Numbers(m[x], T) /\ row[x] \in Int
               /\ row[x] = SumFunctionOnSet(m[x], T)
    <2>1. m[x] \in [T -> Int] /\ Numbers(m[x], T)
      BY DEF Numbers
    <2> QED  BY <2>1, SumRules
  <1>2. ASSUME NEW y \in T
        PROVE  entry(y) \in [S -> Int] /\ \A x \in S : entry(y)[x] = m[x][y]
    OBVIOUS
  <1>3. ASSUME NEW U \in SUBSET S
        PROVE  /\ IsFiniteSet(U) /\ Numbers(row, U) /\ SumFunctionOnSet(row, U) \in Int
               /\ \A y \in T : Numbers(entry(y), U) /\ SumFunctionOnSet(entry(y), U) \in Int
               /\ Numbers(column(U), T) /\ SumFunctionOnSet(column(U), T) \in Int
    <2> HIDE DEF row, entry
    <2>1. IsFiniteSet(U) /\ Numbers(row, U) /\ \A y \in T : Numbers(entry(y), U)
      BY <1>1, <1>2, FS_Subset DEF Numbers
    <2>2. SumFunctionOnSet(row, U) \in Int /\ \A y \in T : SumFunctionOnSet(entry(y), U) \in Int
      BY <2>1, SumRules
    <2>3. Numbers(column(U), T)
      BY <2>2 DEF Numbers
    <2>4. SumFunctionOnSet(column(U), T) \in Int
      BY <2>3, SumRules
    <2> QED  BY <2>1, <2>2, <2>3, <2>4
  <1>4. {} \in Good
    <2> HIDE DEF row, entry
    <2>1. SumFunctionOnSet(row, {}) = 0 /\ \A y \in T : SumFunctionOnSet(entry(y), {}) = 0
      <3>1. {} \in SUBSET S
        OBVIOUS
      <3> QED  BY <1>3, <3>1, SumRules
    <2>2. \A y \in T : column({})[y] = 0
      BY <2>1
    <2>3. SumFunctionOnSet(column({}), T) = 0
      <3> HIDE DEF column
      <3> QED  BY <2>2, SumOfZeros
    <2> QED  BY <2>1, <2>3
  <1>5. ASSUME NEW U \in SUBSET S, NEW x \in S \ U, U \in Good
        PROVE  U \cup {x} \in Good
    <2> HIDE DEF row, entry
    <2>1. SumFunctionOnSet(row, U \cup {x}) = SumFunctionOnSet(row, U) + row[x]
      BY <1>1, <1>3, SumMore
    <2>2. ASSUME NEW y \in T
          PROVE  SumFunctionOnSet(entry(y), U \cup {x}) = SumFunctionOnSet(entry(y), U) + m[x][y]
      <3>1. entry(y)[x] = m[x][y] /\ entry(y)[x] \in Int
        BY <1>1, <1>2
      <3> QED  BY <1>3, <3>1, SumMore
    <2>3. \A y \in T : column(U \cup {x})[y] = column(U)[y] + m[x][y]
      BY <2>2
    <2>4. SumFunctionOnSet(column(U \cup {x}), T) = SumFunctionOnSet(column(U), T) + SumFunctionOnSet(m[x], T)
      <3> DEFINE old == column(U)
                 new == column(U \cup {x})
                 more == m[x]
      <3>1. Numbers(old, T) /\ Numbers(more, T) /\ \A y \in T : new[y] = old[y] + more[y]
        BY <1>1, <1>3, <2>3
      <3> HIDE DEF old, new, more
      <3>2. SumFunctionOnSet(new, T) = SumFunctionOnSet(old, T) + SumFunctionOnSet(more, T)
        BY <3>1, SumAdds
      <3> QED  BY <3>2 DEF old, new, more
    <2>5. U \cup {x} \in SUBSET S
      OBVIOUS
    <2>6. SumFunctionOnSet(row, U) = SumFunctionOnSet(column(U), T)
      BY <1>5
    <2>7. SumFunctionOnSet(row, U \cup {x}) = SumFunctionOnSet(column(U \cup {x}), T)
      BY <1>1, <2>1, <2>4, <2>6
    <2> QED  BY <2>5, <2>7
  <1>6. S \in Good
    <2> HIDE DEF Good
    <2> QED  BY <1>4, <1>5, FiniteInduction
  <1> QED  BY <1>6

\* A set has as many elements as it counts.
LEMMA SumCounts ==
    ASSUME NEW S, IsFiniteSet(S), NEW T \in SUBSET S, NEW f,
           \A x \in S : f[x] = IF x \in T THEN 1 ELSE 0
    PROVE  Cardinality(T) = SumFunctionOnSet(f, S)
  <1> DEFINE Good == {U \in SUBSET T : Cardinality(U) = SumFunctionOnSet(f, U)}
  <1>1. Numbers(f, S)
    BY DEF Numbers
  <1>2. {} \in Good
    BY <1>1, FS_EmptySet, SumRules
  <1>3. ASSUME NEW U \in SUBSET T, NEW x \in T \ U, U \in Good
        PROVE  U \cup {x} \in Good
    <2>1. IsFiniteSet(U) /\ Numbers(f, U) /\ f[x] = 1 /\ f[x] \in Int /\ x \notin U
      BY FS_Subset DEF Numbers
    <2>2. Cardinality(U \cup {x}) = Cardinality(U) + 1
      BY <2>1, FS_AddElement
    <2>3. SumFunctionOnSet(f, U \cup {x}) = SumFunctionOnSet(f, U) + f[x]
      BY <2>1, SumMore
    <2>4. Cardinality(U) = SumFunctionOnSet(f, U)
      BY <1>3
    <2>5. Cardinality(U \cup {x}) = SumFunctionOnSet(f, U \cup {x})
      BY <2>1, <2>2, <2>3, <2>4
    <2> QED  BY <2>5
  <1>4. T \in Good
    <2> HIDE DEF Good
    <2>1. IsFiniteSet(T)
      BY FS_Subset
    <2> QED  BY <1>2, <1>3, <2>1, FiniteInduction
  <1>5. SumFunctionOnSet(f, S) = SumFunctionOnSet(f, T)
    BY <1>1, SumRestricts
  <1> QED  BY <1>4, <1>5

\* What is added up by owner is added up.
LEMMA SumGroups ==
    ASSUME NEW S, IsFiniteSet(S), NEW U, IsFiniteSet(U), NEW f, Numbers(f, S),
           NEW owner, \A x \in S : owner[x] \in U
    PROVE  SumFunctionOnSet(f, S) =
           SumFunctionOnSet([u \in U |-> SumFunctionOnSet(f, {x \in S : owner[x] = u})], U)
  <1> DEFINE own(T, u) == {x \in T : owner[x] = u}
             sums(T) == [u \in U |-> SumFunctionOnSet(f, own(T, u))]
             Good == {T \in SUBSET S : SumFunctionOnSet(f, T) = SumFunctionOnSet(sums(T), U)}
  <1>1. ASSUME NEW T \in SUBSET S
        PROVE  IsFiniteSet(T) /\ Numbers(f, T) /\ SumFunctionOnSet(f, T) \in Int
    <2>1. IsFiniteSet(T) /\ Numbers(f, T)
      BY FS_Subset DEF Numbers
    <2> QED  BY <2>1, SumRules
  <1>2. ASSUME NEW T \in SUBSET S
        PROVE  sums(T) \in [U -> Int] /\ Numbers(sums(T), U)
    <2>1. \A u \in U : own(T, u) \in SUBSET S
      OBVIOUS
    <2>2. \A u \in U : SumFunctionOnSet(f, own(T, u)) \in Int
      <3> HIDE DEF own
      <3> QED  BY <1>1, <2>1
    <2> QED  BY <2>2 DEF Numbers
  <1>3. {} \in Good
    <2>1. \A u \in U : own({}, u) = {}
      OBVIOUS
    <2>2. SumFunctionOnSet(f, {}) = 0
      BY SumRules
    <2>3. \A u \in U : sums({})[u] = 0
      BY <2>1, <2>2
    <2>4. SumFunctionOnSet(sums({}), U) = 0
      <3> HIDE DEF sums
      <3> QED  BY <2>3, SumOfZeros
    <2> QED  BY <2>2, <2>4
  <1>4. ASSUME NEW T \in SUBSET S, NEW x \in S \ T, T \in Good
        PROVE  T \cup {x} \in Good
    <2> DEFINE T2 == T \cup {x}
    <2>1. /\ T2 \in SUBSET S /\ owner[x] \in U /\ f[x] \in Int /\ x \notin T
          /\ own(T2, owner[x]) = own(T, owner[x]) \cup {x} /\ own(T, owner[x]) \in SUBSET S
          /\ x \notin own(T, owner[x])
          /\ \A u \in U \ {owner[x]} : own(T2, u) = own(T, u)
      BY DEF Numbers
    <2>2. SumFunctionOnSet(f, T2) = SumFunctionOnSet(f, T) + f[x]
      BY <1>1, <2>1, SumMore
    <2>3. SumFunctionOnSet(f, own(T, owner[x]) \cup {x}) = SumFunctionOnSet(f, own(T, owner[x])) + f[x]
      <3> HIDE DEF own
      <3> QED  BY <1>1, <2>1, SumMore
    <2>4. /\ sums(T2)[owner[x]] = sums(T)[owner[x]] + f[x]
          /\ \A u \in U \ {owner[x]} : sums(T2)[u] = sums(T)[u]
      <3> HIDE DEF own, T2
      <3> QED  BY <2>1, <2>3
    <2>5. SumFunctionOnSet(sums(T2), U) = SumFunctionOnSet(sums(T), U) + f[x]
      <3> DEFINE old == sums(T)
                 new == sums(T2)
                 o == owner[x]
      <3>1. U \in SUBSET U /\ old \in [U -> Int]
        BY <1>2
      <3>2. new[o] = old[o] + f[x] /\ \A u \in U \ {o} : new[u] = old[u]
        BY <2>4
      <3>3. o \in U /\ f[x] \in Int
        BY <2>1
      <3> HIDE DEF old, new, o
      <3>4. SumFunctionOnSet(new, U) = SumFunctionOnSet(old, U) + f[x]
        BY <3>1, <3>2, <3>3, SumAdjusts
      <3> QED  BY <3>4 DEF old, new
    <2>6. SumFunctionOnSet(f, T) = SumFunctionOnSet(sums(T), U)
      BY <1>4
    <2>7. SumFunctionOnSet(f, T2) = SumFunctionOnSet(sums(T2), U)
      BY <2>2, <2>5, <2>6
    <2> QED  BY <2>1, <2>7
  <1>5. S \in Good
    <2> HIDE DEF Good
    <2> QED  BY <1>3, <1>4, FiniteInduction
  <1> QED  BY <1>5

\* Natural numbers add up to one that none of them exceeds.
LEMMA SumOfNaturals ==
    ASSUME NEW S, IsFiniteSet(S), NEW f, \A x \in S : f[x] \in Nat
    PROVE  /\ Numbers(f, S)
           /\ SumFunctionOnSet(f, S) \in Nat
           /\ \A x \in S : f[x] <= SumFunctionOnSet(f, S)
  <1> DEFINE Good == {T \in SUBSET S : SumFunctionOnSet(f, T) \in Nat}
  <1>1. Numbers(f, S)
    BY DEF Numbers
  <1>2. {} \in Good
    BY <1>1, SumRules
  <1>3. ASSUME NEW T \in SUBSET S, NEW x \in S \ T, T \in Good
        PROVE  T \cup {x} \in Good
    <2>1. IsFiniteSet(T) /\ Numbers(f, T) /\ f[x] \in Int /\ x \notin T /\ f[x] \in Nat
      BY <1>1, FS_Subset DEF Numbers
    <2>2. SumFunctionOnSet(f, T \cup {x}) = SumFunctionOnSet(f, T) + f[x]
      BY <2>1, SumMore
    <2> QED  BY <1>3, <2>1, <2>2
  <1>4. \A T \in SUBSET S : T \in Good
    <2> SUFFICES ASSUME NEW T \in SUBSET S PROVE T \in Good
      OBVIOUS
    <2>1. IsFiniteSet(T)
      BY FS_Subset
    <2>2. \A U \in SUBSET T : \A x \in T \ U : U \in Good => U \cup {x} \in Good
      <3> HIDE DEF Good
      <3> QED  BY <1>3
    <2> HIDE DEF Good
    <2> QED  BY <1>2, <2>1, <2>2, FiniteInduction
  <1>5. ASSUME NEW x \in S
        PROVE  f[x] <= SumFunctionOnSet(f, S)
    <2>1. S \ {x} \in SUBSET S
      OBVIOUS
    <2>2. SumFunctionOnSet(f, S \ {x}) \in Nat
      BY <1>4, <2>1
    <2>3. SumFunctionOnSet(f, S) = f[x] + SumFunctionOnSet(f, S \ {x}) /\ f[x] \in Nat
      BY <1>1, SumRules
    <2> QED  BY <2>2, <2>3
  <1>6. S \in SUBSET S
    OBVIOUS
  <1> QED  BY <1>1, <1>4, <1>5, <1>6

\* A finite set of integers that is not empty has a greatest element.
LEMMA MaxExists ==
    ASSUME NEW S, IsFiniteSet(S), S # {}, S \subseteq Int
    PROVE  \E x \in S : \A y \in S : x >= y
  <1> DEFINE Good == {T \in SUBSET S : T = {} \/ \E x \in T : \A y \in T : x >= y}
  <1>1. {} \in Good
    OBVIOUS
  <1>2. ASSUME NEW T \in SUBSET S, NEW x \in S \ T, T \in Good
        PROVE  T \cup {x} \in Good
    <2>1. CASE T = {}
      BY <2>1
    <2>2. CASE T # {}
      <3>1. PICK m \in T : \A y \in T : m >= y
        BY <1>2, <2>2
      <3>2. m \in Int /\ x \in Int /\ T \subseteq Int
        OBVIOUS
      <3>3. CASE m >= x
        BY <3>1, <3>3
      <3>4. CASE ~(m >= x)
        <4>1. x >= x /\ \A y \in T : x >= y
          BY <3>1, <3>2, <3>4
        <4> QED  BY <4>1
      <3> QED  BY <3>3, <3>4
    <2> QED  BY <2>1, <2>2
  <1>3. S \in Good
    <2> HIDE DEF Good
    <2> QED  BY <1>1, <1>2, FiniteInduction
  <1> QED  BY <1>3

\* A sum of numbers that are each no larger is no larger.
LEMMA SumBelow ==
    ASSUME NEW S, IsFiniteSet(S), NEW f, NEW g, \A x \in S : g[x] \in Int,
           \A x \in S : f[x] \in Int /\ f[x] <= g[x]
    PROVE  SumFunctionOnSet(f, S) <= SumFunctionOnSet(g, S)
  <1> DEFINE rest == [x \in S |-> g[x] - f[x]]
  <1>1. \A x \in S : rest[x] \in Nat /\ g[x] = f[x] + rest[x]
    OBVIOUS
  <1> HIDE DEF rest
  <1>2. Numbers(f, S) /\ Numbers(rest, S)
    BY <1>1 DEF Numbers
  <1>3. SumFunctionOnSet(f, S) \in Int
    BY <1>2, SumRules
  <1>4. SumFunctionOnSet(rest, S) \in Nat
    BY <1>1, SumOfNaturals
  <1>5. SumFunctionOnSet(g, S) = SumFunctionOnSet(f, S) + SumFunctionOnSet(rest, S)
    BY <1>1, <1>2, SumAdds
  <1>6. QED
    BY <1>3, <1>4, <1>5

=============================================================================
