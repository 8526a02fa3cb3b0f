----------------------------- MODULE SumLemmas -----------------------------
(***************************************************************************)
(* Sums over finite sets, SumFunctionOnSet of the community modules: what  *)
(* the proofs about orders, receipts and corrections need of them.  The    *)
(* inductions are over a set of sets, by the well-foundedness of strict    *)
(* inclusion, as no induction principle with an operator as its parameter  *)
(* can be instantiated here.                                               *)
(***************************************************************************)
EXTENDS FiniteSetTheorems, TLAPS

-----------------------------------------------------------------------------
(* Induction over the subsets of a finite set.                             *)

\* If every subset of U is good whose strict subsets are, U is.
LEMMA StrictSubsetInduction ==
  ASSUME NEW U, IsFiniteSet(U), NEW Good,
         \A T \in SUBSET U : (\A W \in SUBSET T : W # T => W \in Good) => T \in Good
  PROVE  U \in Good
<1> DEFINE Bad == {T \in SUBSET U : T \notin Good}
<1> SUFFICES ASSUME Bad # {} PROVE FALSE
  OBVIOUS
<1>1. IsWellFoundedOn(StrictSubsetOrdering(U), SUBSET U)
  <2>1. IsWellFoundedOn(StrictSubsetOrdering(U), FiniteSubsetsOf(U))
    BY FS_StrictSubsetOrderingWellFounded
  <2>2. FiniteSubsetsOf(U) = SUBSET U
    BY FS_FiniteSubsetsOfFinite
  <2> QED BY <2>1, <2>2
<1>2. PICK T \in Bad : \A W \in Bad : ~(<<W, T>> \in StrictSubsetOrdering(U))
  <2>1. Bad \subseteq SUBSET U
    OBVIOUS
  <2> HIDE DEF Bad
  <2> QED BY <1>1, <2>1, WFMin
<1>3. \A W \in SUBSET T : W # T => W \in Good
  <2> SUFFICES ASSUME NEW W \in SUBSET T, W # T, W \notin Good PROVE FALSE
    OBVIOUS
  <2>1. W \in Bad /\ <<W, T>> \in StrictSubsetOrdering(U)
    BY DEF StrictSubsetOrdering
  <2> QED BY <1>2, <2>1
<1> QED BY <1>3

\* If the empty set is good and no element makes a good set bad, U is good.
LEMMA AddElementInduction ==
  ASSUME NEW U, IsFiniteSet(U), NEW Good, {} \in Good,
         \A T \in SUBSET U : \A x \in U \ T : T \in Good => T \cup {x} \in Good
  PROVE  U \in Good
<1>1. ASSUME NEW T \in SUBSET U, \A W \in SUBSET T : W # T => W \in Good
      PROVE  T \in Good
  <2>1. CASE T = {}
    BY <2>1
  <2>2. CASE T # {}
    <3>1. PICK x \in T : TRUE
      BY <2>2
    <3>2. T \ {x} \in Good
      BY <1>1
    <3>3. (T \ {x}) \cup {x} \in Good
      BY <3>2
    <3>4. (T \ {x}) \cup {x} = T
      OBVIOUS
    <3> QED BY <3>3, <3>4
  <2> QED BY <2>1, <2>2
<1> QED BY <1>1, StrictSubsetInduction

-----------------------------------------------------------------------------
(* The recursive function behind a sum: it exists and is unique.           *)

Pick(s) == CHOOSE x \in s : TRUE

IsSum(g, f, U) ==
  g = [s \in SUBSET U |-> IF s = {} THEN 0 ELSE f[Pick(s)] + g[s \ {Pick(s)}]]

LEMMA PickIn == ASSUME NEW s, s # {} PROVE Pick(s) \in s
  BY DEF Pick

LEMMA SumAgree ==
  ASSUME NEW f, NEW U, NEW V, NEW g, NEW h, IsSum(g, f, U), IsSum(h, f, V),
         NEW W, IsFiniteSet(W), W \subseteq U, W \subseteq V
  PROVE  g[W] = h[W]
<1> DEFINE Good == {T \in SUBSET W : g[T] = h[T]}
<1>1. ASSUME NEW T \in SUBSET W, \A X \in SUBSET T : X # T => X \in Good
      PROVE  T \in Good
  <2>1. g[T] = IF T = {} THEN 0 ELSE f[Pick(T)] + g[T \ {Pick(T)}]
    BY DEF IsSum
  <2>2. h[T] = IF T = {} THEN 0 ELSE f[Pick(T)] + h[T \ {Pick(T)}]
    BY DEF IsSum
  <2>3. T # {} => T \ {Pick(T)} \in Good
    BY <1>1, PickIn
  <2> QED BY <2>1, <2>2, <2>3
<1>2. W \in Good
  <2>1. \A T \in SUBSET W : (\A X \in SUBSET T : X # T => X \in Good) => T \in Good
    BY <1>1
  <2> HIDE DEF Good
  <2> QED BY <2>1, StrictSubsetInduction
<1> QED BY <1>2

LEMMA SumExists ==
  ASSUME NEW f, NEW U, IsFiniteSet(U)
  PROVE  \E g : IsSum(g, f, U)
<1> DEFINE Good == {T \in SUBSET U : \E g : IsSum(g, f, T)}
           G(T) == CHOOSE g : IsSum(g, f, T)
<1>1. ASSUME NEW T \in SUBSET U, \A X \in SUBSET T : X # T => X \in Good
      PROVE  T \in Good
  <2> DEFINE Less(s) == s \ {Pick(s)}
             h == [s \in SUBSET T |-> IF s = {} THEN 0 ELSE f[Pick(s)] + G(Less(s))[Less(s)]]
  <2>1. ASSUME NEW s \in SUBSET T, s # {}
        PROVE  G(Less(s))[Less(s)] = h[Less(s)]
    <3>1. Less(s) \in Good /\ Less(s) \in SUBSET T
      BY <1>1, <2>1, PickIn
    <3>2. IsSum(G(Less(s)), f, Less(s))
      BY <3>1
    <3>3. CASE Less(s) = {}
      BY <3>1, <3>2, <3>3 DEF IsSum
    <3>4. CASE Less(s) # {}
      <4> DEFINE t == Less(s)
      <4>1. G(t)[t] = f[Pick(t)] + G(t)[Less(t)]
        BY <3>2, <3>4 DEF IsSum
      <4>2. Less(t) \in Good
        BY <1>1, <3>1, <3>4, PickIn
      <4>3. IsSum(G(Less(t)), f, Less(t))
        BY <4>2
      <4>4. IsFiniteSet(Less(t)) /\ Less(t) \subseteq t
        BY <3>1, FS_Subset
      <4>5. G(t)[Less(t)] = G(Less(t))[Less(t)]
        BY <3>2, <4>3, <4>4, SumAgree
      <4> QED BY <3>1, <3>4, <4>1, <4>5
    <3> QED BY <3>3, <3>4
  <2>2. \A s \in SUBSET T : h[s] = IF s = {} THEN 0 ELSE f[Pick(s)] + h[Less(s)]
    <3> TAKE s \in SUBSET T
    <3>1. h[s] = IF s = {} THEN 0 ELSE f[Pick(s)] + G(Less(s))[Less(s)]
      OBVIOUS
    <3>2. s # {} => G(Less(s))[Less(s)] = h[Less(s)]
      BY <2>1
    <3> HIDE DEF h, G, Less
    <3> QED BY <3>1, <3>2
  <2>3. IsSum(h, f, T)
    <3>1. h = [s \in SUBSET T |-> h[s]]
      OBVIOUS
    <3> HIDE DEF h
    <3>2. h = [s \in SUBSET T |-> IF s = {} THEN 0 ELSE f[Pick(s)] + h[Less(s)]]
      BY <2>2, <3>1
    <3> QED BY <3>2 DEF IsSum
  <2> QED BY <2>3
<1>2. U \in Good
  <2>1. \A T \in SUBSET U : (\A X \in SUBSET T : X # T => X \in Good) => T \in Good
    BY <1>1
  <2> HIDE DEF Good
  <2> QED BY <2>1, StrictSubsetInduction
<1> QED BY <1>2

LEMMA SumIs ==
  ASSUME NEW f, NEW U, IsFiniteSet(U)
  PROVE  \E g : IsSum(g, f, U) /\ SumFunctionOnSet(f, U) = g[U]
<1> DEFINE it == CHOOSE g : IsSum(g, f, U)
<1>1. IsSum(it, f, U)
  BY SumExists
<1>2. SumFunctionOnSet(f, U) = it[U]
  BY DEF IsSum, Pick, SumFunctionOnSet, FoldFunctionOnSet, MapThenFoldSet
<1> QED BY <1>1, <1>2

LEMMA SumUnfold ==
  ASSUME NEW f, NEW U, IsFiniteSet(U), U # {}
  PROVE  SumFunctionOnSet(f, U) = f[Pick(U)] + SumFunctionOnSet(f, U \ {Pick(U)})
<1> DEFINE V == U \ {Pick(U)}
<1>1. IsFiniteSet(V) /\ V \subseteq U
  BY FS_Subset
<1>2. PICK g : IsSum(g, f, U) /\ SumFunctionOnSet(f, U) = g[U]
  BY SumIs
<1>3. PICK h : IsSum(h, f, V) /\ SumFunctionOnSet(f, V) = h[V]
  BY <1>1, SumIs
<1>4. g[V] = h[V]
  BY <1>1, <1>2, <1>3, SumAgree
<1>5. g[U] = f[Pick(U)] + g[V]
  BY <1>2 DEF IsSum
<1> QED BY <1>2, <1>3, <1>4, <1>5

-----------------------------------------------------------------------------
(* Laws                                                                    *)

LEMMA SumEmpty == ASSUME NEW f PROVE SumFunctionOnSet(f, {}) = 0
<1>1. PICK g : IsSum(g, f, {}) /\ SumFunctionOnSet(f, {}) = g[{}]
  BY FS_EmptySet, SumIs
<1> QED BY <1>1 DEF IsSum

LEMMA SumType ==
  ASSUME NEW f, NEW S, IsFiniteSet(S), \A x \in S : f[x] \in Int
  PROVE  SumFunctionOnSet(f, S) \in Int
<1> DEFINE Good == {T \in SUBSET S : SumFunctionOnSet(f, T) \in Int}
<1>1. ASSUME NEW T \in SUBSET S, \A W \in SUBSET T : W # T => W \in Good
      PROVE  T \in Good
  <2>1. CASE T = {}
    BY <2>1, SumEmpty
  <2>2. CASE T # {}
    <3>1. IsFiniteSet(T)
      BY FS_Subset
    <3>2. SumFunctionOnSet(f, T) = f[Pick(T)] + SumFunctionOnSet(f, T \ {Pick(T)})
      BY <2>2, <3>1, SumUnfold
    <3>3. Pick(T) \in T /\ T \ {Pick(T)} \in Good
      BY <1>1, <2>2, PickIn
    <3> QED BY <3>2, <3>3
  <2> QED BY <2>1, <2>2
<1>2. S \in Good
  <2>1. \A T \in SUBSET S : (\A X \in SUBSET T : X # T => X \in Good) => T \in Good
    BY <1>1
  <2> HIDE DEF Good
  <2> QED BY <2>1, StrictSubsetInduction
<1> QED BY <1>2

\* The order in which elements are picked does not matter.
LEMMA SumRemove ==
  ASSUME NEW f, NEW S, IsFiniteSet(S), \A x \in S : f[x] \in Int, NEW x \in S
  PROVE  SumFunctionOnSet(f, S) = f[x] + SumFunctionOnSet(f, S \ {x})
<1> DEFINE Sum(T) == SumFunctionOnSet(f, T)
           Good == {T \in SUBSET S : \A y \in T : Sum(T) = f[y] + Sum(T \ {y})}
<1>1. ASSUME NEW T \in SUBSET S, \A W \in SUBSET T : W # T => W \in Good
      PROVE  T \in Good
  <2> SUFFICES ASSUME NEW y \in T PROVE Sum(T) = f[y] + Sum(T \ {y})
    OBVIOUS
  <2> DEFINE p == Pick(T)
             V == T \ {p}
             W == T \ {y}
  <2>1. IsFiniteSet(T) /\ p \in T
    BY FS_Subset, PickIn
  <2>2. Sum(T) = f[p] + Sum(V)
    BY <2>1, SumUnfold
  <2>3. CASE y = p
    BY <2>2, <2>3
  <2>4. CASE y # p
    <3>1. V \in Good /\ W \in Good /\ y \in V /\ p \in W
      BY <1>1, <2>1, <2>4
    <3>2. Sum(V) = f[y] + Sum(V \ {y})
      BY <3>1
    <3>3. Sum(W) = f[p] + Sum(W \ {p})
      BY <3>1
    <3>4. V \ {y} = W \ {p}
      OBVIOUS
    <3>5. Sum(V \ {y}) \in Int
      BY <2>1, FS_Subset, SumType
    <3>6. f[p] \in Int /\ f[y] \in Int
      BY <2>1
    <3> HIDE DEF Sum, p
    <3>7. Sum(V \ {y}) = Sum(W \ {p})
      BY <3>4
    <3> QED BY <2>2, <3>2, <3>3, <3>5, <3>6, <3>7
  <2> QED BY <2>3, <2>4
<1>2. S \in Good
  <2>1. \A T \in SUBSET S : (\A X \in SUBSET T : X # T => X \in Good) => T \in Good
    BY <1>1
  <2> HIDE DEF Good
  <2> QED BY <2>1, StrictSubsetInduction
<1> QED BY <1>2

LEMMA SumAdd ==
  ASSUME NEW f, NEW S, IsFiniteSet(S), NEW x, x \notin S,
         \A y \in S \cup {x} : f[y] \in Int
  PROVE  SumFunctionOnSet(f, S \cup {x}) = f[x] + SumFunctionOnSet(f, S)
<1>1. IsFiniteSet(S \cup {x}) /\ (S \cup {x}) \ {x} = S
  BY FS_AddElement
<1> QED BY <1>1, SumRemove

\* A sum depends on the values at its elements only.
LEMMA SumSame ==
  ASSUME NEW f, NEW g, NEW S, IsFiniteSet(S), \A x \in S : f[x] = g[x]
  PROVE  SumFunctionOnSet(f, S) = SumFunctionOnSet(g, S)
<1> DEFINE Good == {T \in SUBSET S : SumFunctionOnSet(f, T) = SumFunctionOnSet(g, T)}
<1>1. ASSUME NEW T \in SUBSET S, \A W \in SUBSET T : W # T => W \in Good
      PROVE  T \in Good
  <2>1. CASE T = {}
    BY <2>1, SumEmpty
  <2>2. CASE T # {}
    <3>1. IsFiniteSet(T) /\ Pick(T) \in T
      BY <2>2, FS_Subset, PickIn
    <3>2. SumFunctionOnSet(f, T) = f[Pick(T)] + SumFunctionOnSet(f, T \ {Pick(T)})
      BY <2>2, <3>1, SumUnfold
    <3>3. SumFunctionOnSet(g, T) = g[Pick(T)] + SumFunctionOnSet(g, T \ {Pick(T)})
      BY <2>2, <3>1, SumUnfold
    <3>4. T \ {Pick(T)} \in Good
      BY <1>1, <3>1
    <3> QED BY <3>1, <3>2, <3>3, <3>4
  <2> QED BY <2>1, <2>2
<1>2. S \in Good
  <2>1. \A T \in SUBSET S : (\A X \in SUBSET T : X # T => X \in Good) => T \in Good
    BY <1>1
  <2> HIDE DEF Good
  <2> QED BY <2>1, StrictSubsetInduction
<1> QED BY <1>2

\* One value changes.
LEMMA SumChange ==
  ASSUME NEW f, NEW g, NEW S, IsFiniteSet(S), NEW x \in S,
         \A y \in S : f[y] \in Int /\ g[y] \in Int,
         \A y \in S \ {x} : f[y] = g[y]
  PROVE  SumFunctionOnSet(g, S) = SumFunctionOnSet(f, S) - f[x] + g[x]
<1> DEFINE V == S \ {x}
<1>1. IsFiniteSet(V)
  BY FS_Subset
<1>2. SumFunctionOnSet(f, S) = f[x] + SumFunctionOnSet(f, V)
  BY SumRemove
<1>3. SumFunctionOnSet(g, S) = g[x] + SumFunctionOnSet(g, V)
  BY SumRemove
<1>4. SumFunctionOnSet(f, V) = SumFunctionOnSet(g, V)
  BY <1>1, SumSame
<1>5. SumFunctionOnSet(f, V) \in Int
  BY <1>1, SumType
<1> QED BY <1>2, <1>3, <1>4, <1>5

\* The sum of a function that is nowhere greater is not greater.
LEMMA SumMonotone ==
  ASSUME NEW f, NEW g, NEW S, IsFiniteSet(S),
         \A x \in S : f[x] \in Int /\ g[x] \in Int /\ f[x] <= g[x]
  PROVE  SumFunctionOnSet(f, S) <= SumFunctionOnSet(g, S)
<1> DEFINE Good == {T \in SUBSET S : SumFunctionOnSet(f, T) <= SumFunctionOnSet(g, T)}
<1>1. {} \in Good
  BY SumEmpty
<1>2. ASSUME NEW T \in SUBSET S, NEW x \in S \ T, T \in Good
      PROVE  T \cup {x} \in Good
  <2>1. IsFiniteSet(T)
    BY FS_Subset
  <2>2. SumFunctionOnSet(f, T) \in Int /\ SumFunctionOnSet(g, T) \in Int
    BY <2>1, SumType
  <2>3. SumFunctionOnSet(f, T \cup {x}) = f[x] + SumFunctionOnSet(f, T)
    BY <2>1, SumAdd
  <2>4. SumFunctionOnSet(g, T \cup {x}) = g[x] + SumFunctionOnSet(g, T)
    BY <2>1, SumAdd
  <2> QED BY <1>2, <2>2, <2>3, <2>4
<1>3. S \in Good
  BY <1>1, <1>2, AddElementInduction
<1> QED BY <1>3

LEMMA SumZero ==
  ASSUME NEW f, NEW S, IsFiniteSet(S), \A x \in S : f[x] = 0
  PROVE  SumFunctionOnSet(f, S) = 0
<1> DEFINE Good == {T \in SUBSET S : SumFunctionOnSet(f, T) = 0}
<1>1. {} \in Good
  BY SumEmpty
<1>2. ASSUME NEW T \in SUBSET S, NEW x \in S \ T, T \in Good
      PROVE  T \cup {x} \in Good
  <2>1. IsFiniteSet(T)
    BY FS_Subset
  <2>2. SumFunctionOnSet(f, T \cup {x}) = f[x] + SumFunctionOnSet(f, T)
    BY <2>1, SumAdd
  <2> QED BY <1>2, <2>2
<1>3. S \in Good
  BY <1>1, <1>2, AddElementInduction
<1> QED BY <1>3

LEMMA SumNat ==
  ASSUME NEW f, NEW S, IsFiniteSet(S), \A x \in S : f[x] \in Nat
  PROVE  SumFunctionOnSet(f, S) \in Nat
<1> DEFINE Good == {T \in SUBSET S : SumFunctionOnSet(f, T) \in Nat}
<1>1. {} \in Good
  BY SumEmpty
<1>2. ASSUME NEW T \in SUBSET S, NEW x \in S \ T, T \in Good
      PROVE  T \cup {x} \in Good
  <2>1. IsFiniteSet(T)
    BY FS_Subset
  <2>2. SumFunctionOnSet(f, T \cup {x}) = f[x] + SumFunctionOnSet(f, T)
    BY <2>1, SumAdd
  <2> QED BY <1>2, <2>2
<1>3. S \in Good
  BY <1>1, <1>2, AddElementInduction
<1> QED BY <1>3

-----------------------------------------------------------------------------
\* A set of integers that is finite and not empty has a least member.
LEMMA LeastMember ==
  ASSUME NEW U, IsFiniteSet(U), U \subseteq Int, U # {}
  PROVE  \E m \in U : \A x \in U : m <= x
<1> DEFINE Good == {T \in SUBSET U : T = {} \/ \E m \in T : \A x \in T : m <= x}
<1>1. {} \in Good
  OBVIOUS
<1>2. ASSUME NEW T \in SUBSET U, NEW y \in U \ T, T \in Good
      PROVE  T \cup {y} \in Good
  <2>1. CASE T = {}
    <3>1. \A x \in T \cup {y} : y <= x
      BY <2>1
    <3> QED BY <3>1
  <2>2. CASE T # {}
    <3>1. PICK m \in T : \A x \in T : m <= x
      BY <1>2, <2>2
    <3>2. CASE m <= y
      BY <3>1, <3>2
    <3>3. CASE ~(m <= y)
      <4>1. \A x \in T \cup {y} : y <= x
        BY <3>1, <3>3
      <4> QED BY <4>1
    <3> QED BY <3>2, <3>3
  <2> QED BY <2>1, <2>2
<1> HIDE DEF Good
<1>3. U \in Good
  BY <1>1, <1>2, AddElementInduction
<1> QED BY <1>3 DEF Good
=============================================================================
