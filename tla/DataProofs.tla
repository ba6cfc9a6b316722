----------------------------- MODULE DataProofs -----------------------------
(***************************************************************************)
(* Facts about data that the other proofs cite: how a count changes, when  *)
(* one element of a set does; induction, as the least counterexample; and  *)
(* what the folds of the community modules compute, sums above all.        *)
(***************************************************************************)
EXTENDS FiniteSetTheorems, FiniteSetsExt, TLAPS

Count(condition) == IF condition THEN 1 ELSE 0

\* Two sets that differ in one element at most.
LEMMA ChangeAtOne ==
  ASSUME NEW S, NEW T, IsFiniteSet(S), IsFiniteSet(T), NEW x,
         \A y : y # x => (y \in S <=> y \in T)
  PROVE  /\ Cardinality(S) \in Nat
         /\ Cardinality(T) \in Nat
         /\ Cardinality(T) + Count(x \in S) = Cardinality(S) + Count(x \in T)
<1>1. Cardinality(S) \in Nat /\ Cardinality(T) \in Nat
  BY FS_CardinalityType
<1>2. CASE x \in S <=> x \in T
  <2>1. S = T
    BY <1>2
  <2> QED
    BY <1>1, <2>1
<1>3. CASE x \in S /\ x \notin T
  <2>1. S = T \union {x}
    BY <1>3
  <2>2. Cardinality(S) = Cardinality(T) + 1
    BY <1>3, <2>1, FS_AddElement
  <2> QED
    BY <1>1, <1>3, <2>2 DEF Count
<1>4. CASE x \notin S /\ x \in T
  <2>1. T = S \union {x}
    BY <1>4
  <2>2. Cardinality(T) = Cardinality(S) + 1
    BY <1>4, <2>1, FS_AddElement
  <2> QED
    BY <1>1, <1>4, <2>2 DEF Count
<1> QED
  BY <1>2, <1>3, <1>4

\* A set of positions, when the first position goes and the others move up.
LEMMA ShiftDown ==
  ASSUME NEW S \in SUBSET (Nat \ {0}), NEW T \in SUBSET (Nat \ {0}), IsFiniteSet(S),
         \A i \in Nat \ {0} : i \in T <=> i + 1 \in S
  PROVE  /\ IsFiniteSet(T)
         /\ Cardinality(T) + Count(1 \in S) = Cardinality(S)
<1> DEFINE up == [i \in S \ {1} |-> i - 1]
<1>1. IsFiniteSet(S \ {1}) /\ Cardinality(S \ {1}) + Count(1 \in S) = Cardinality(S)
  <2>1. IsFiniteSet(S \ {1})
    BY FS_Subset
  <2>2. Cardinality(S) + Count(1 \in S \ {1}) = Cardinality(S \ {1}) + Count(1 \in S)
    BY <2>1, ChangeAtOne
  <2> QED
    BY <2>1, <2>2, FS_CardinalityType DEF Count
<1>2. up \in Bijection(S \ {1}, T)
  <2>1. \A i \in S \ {1} : i - 1 \in T
    <3> TAKE i \in S \ {1}
    <3>1. i - 1 \in Nat \ {0} /\ (i - 1) + 1 = i
      OBVIOUS
    <3> QED
      BY <3>1
  <2>2. up \in [S \ {1} -> T]
    BY <2>1
  <2>3. \A a, b \in S \ {1} : up[a] = up[b] => a = b
    OBVIOUS
  <2>4. \A t \in T : \E s \in S \ {1} : up[s] = t
    <3> TAKE t \in T
    <3>1. t + 1 \in S \ {1} /\ (t + 1) - 1 = t
      OBVIOUS
    <3> QED
      BY <3>1
  <2> QED
    BY <2>2, <2>3, <2>4 DEF Bijection, Injection, IsInjective, Surjection
<1> QED
  BY <1>1, <1>2, FS_Bijection DEF ExistsBijection

-----------------------------------------------------------------------------
(* Induction over finite sets and over numbers *)

\* Of the subsets of a finite set, some that have a property are minimal.
LEMMA MinimalSubset ==
  ASSUME NEW S, IsFiniteSet(S), NEW family \in SUBSET (SUBSET S), family # {}
  PROVE  \E T \in family : \A U \in family : U \subseteq T => U = T
<1>1. IsWellFoundedOn(StrictSubsetOrdering(S), FiniteSubsetsOf(S))
  BY FS_StrictSubsetOrderingWellFounded
<1>2. family \subseteq FiniteSubsetsOf(S)
  BY FS_FiniteSubsetsOfFinite
<1>3. PICK T \in family : \A U \in family : ~ (<<U, T>> \in StrictSubsetOrdering(S))
  BY <1>1, <1>2, WFMin
<1> QED
  BY <1>3 DEF StrictSubsetOrdering

LEMMA LeastNumber ==
  ASSUME NEW S \in SUBSET Nat, S # {}
  PROVE  \E n \in S : \A m \in S : n <= m
<1>1. IsWellFoundedOn(OpToRel(<, Nat), Nat)
  BY NatLessThanWellFounded
<1>2. PICK n \in S : \A m \in S : ~ (<<m, n>> \in OpToRel(<, Nat))
  BY <1>1, WFMin
<1>3. \A m \in S : ~ (m < n)
  BY <1>2 DEF OpToRel
<1> QED
  BY <1>3

LEMMA UpTo ==
  ASSUME NEW N \in Nat, NEW S, 0 \in S, \A n \in S : n \in 0 .. N - 1 => n + 1 \in S
  PROVE  \A n \in 0 .. N : n \in S
<1>1. SUFFICES ASSUME NEW k \in 0 .. N, k \notin S PROVE FALSE
  OBVIOUS
<1>2. PICK n \in 0 .. N \ S : \A m \in 0 .. N \ S : n <= m
  <2>1. 0 .. N \ S \in SUBSET Nat /\ 0 .. N \ S # {}
    BY <1>1
  <2> QED
    BY <2>1, LeastNumber
<1>3. n # 0
  BY <1>2
<1>4. n - 1 \in 0 .. N - 1 /\ (n - 1) + 1 = n /\ n - 1 \in S
  BY <1>2, <1>3
<1> QED
  BY <1>2, <1>4

-----------------------------------------------------------------------------
(* Folds: the community modules define them by recursion over the subsets  *)
(* of a set.  An element is picked and added to what the others fold to.   *)

Folds(fold, S, base, add, pick) ==
  fold = [s \in SUBSET S |->
            IF s = {} THEN base ELSE add[pick[s]][fold[s \ {pick[s]}]]]

LEMMA FoldsAgree ==
  ASSUME NEW S, IsFiniteSet(S), NEW base, NEW add, NEW pick,
         \A s \in SUBSET S : s # {} => pick[s] \in s,
         NEW T \in SUBSET S, NEW f, Folds(f, S, base, add, pick),
         NEW g, Folds(g, T, base, add, pick)
  PROVE  \A s \in SUBSET T : f[s] = g[s]
<1> DEFINE differ == {s \in SUBSET T : f[s] # g[s]}
<1>1. SUFFICES ASSUME differ # {} PROVE FALSE
  OBVIOUS
<1>2. IsFiniteSet(T)
  BY FS_Subset
<1>3. PICK s \in differ : \A u \in differ : u \subseteq s => u = s
  <2>1. differ \in SUBSET (SUBSET T)
    OBVIOUS
  <2> HIDE DEF differ
  <2> QED
    BY <1>1, <1>2, <2>1, MinimalSubset
<1>4. s # {}
  BY <1>3 DEF Folds
<1>5. pick[s] \in s /\ s \ {pick[s]} \in SUBSET T
  BY <1>3, <1>4
<1>6. f[s \ {pick[s]}] = g[s \ {pick[s]}]
  BY <1>3, <1>5
<1>7. f[s] = add[pick[s]][f[s \ {pick[s]}]] /\ g[s] = add[pick[s]][g[s \ {pick[s]}]]
  BY <1>3, <1>4 DEF Folds
<1> QED
  BY <1>3, <1>6, <1>7

LEMMA FoldExists ==
  ASSUME NEW S, IsFiniteSet(S), NEW base, NEW add, NEW pick,
         \A s \in SUBSET S : s # {} => pick[s] \in s
  PROVE  \E fold : Folds(fold, S, base, add, pick)
<1> DEFINE none == {T \in SUBSET S : ~ \E f : Folds(f, T, base, add, pick)}
<1>1. SUFFICES ASSUME none # {} PROVE FALSE
  OBVIOUS
<1>2. PICK T \in none : \A U \in none : U \subseteq T => U = T
  <2>1. none \in SUBSET (SUBSET S)
    OBVIOUS
  <2> HIDE DEF none
  <2> QED
    BY <1>1, <2>1, MinimalSubset
<1> DEFINE FoldOf(U) == CHOOSE f : Folds(f, U, base, add, pick)
           rest(s) == s \ {pick[s]}
           whole == [s \in SUBSET T |->
                       IF s = {} THEN base ELSE add[pick[s]][FoldOf(rest(s))[rest(s)]]]
<1>3. \A U \in SUBSET T : U # T => Folds(FoldOf(U), U, base, add, pick)
  BY <1>2
<1>4. ASSUME NEW U \in SUBSET T, U # T PROVE whole[U] = FoldOf(U)[U]
  <2>1. Folds(FoldOf(U), U, base, add, pick)
    BY <1>3, <1>4
  <2>2. CASE U = {}
    BY <2>1, <2>2 DEF Folds
  <2>3. CASE U # {}
    <3>1. pick[U] \in U /\ rest(U) \in SUBSET U /\ rest(U) # T
      BY <1>2, <1>4, <2>3
    <3>2. Folds(FoldOf(rest(U)), rest(U), base, add, pick)
      BY <1>3, <1>4, <3>1
    <3>3. FoldOf(U)[rest(U)] = FoldOf(rest(U))[rest(U)]
      <4>1. IsFiniteSet(U) /\ \A s \in SUBSET U : s # {} => pick[s] \in s
        BY <1>2, <1>4, FS_Subset
      <4> HIDE DEF FoldOf
      <4> QED
        BY <2>1, <3>1, <3>2, <4>1, FoldsAgree
    <3>4. FoldOf(U)[U] = add[pick[U]][FoldOf(U)[rest(U)]]
      <4> HIDE DEF FoldOf
      <4> QED
        BY <2>1, <2>3 DEF Folds
    <3>5. whole[U] = add[pick[U]][FoldOf(rest(U))[rest(U)]]
      <4> HIDE DEF FoldOf
      <4> QED
        BY <1>4, <2>3
    <3> HIDE DEF FoldOf, whole, rest
    <3> QED
      BY <3>3, <3>4, <3>5
  <2> QED
    BY <2>2, <2>3
<1>5. \A s \in SUBSET T : s # {} => whole[rest(s)] = FoldOf(rest(s))[rest(s)]
  <2> TAKE s \in SUBSET T
  <2> HAVE s # {}
  <2>1. pick[s] \in s /\ rest(s) \in SUBSET T /\ rest(s) # T
    BY <1>2
  <2> HIDE DEF whole, FoldOf, rest
  <2> QED
    BY <1>4, <2>1
<1>6. Folds(whole, T, base, add, pick)
  <2>1. whole = [s \in SUBSET T |-> IF s = {} THEN base ELSE add[pick[s]][whole[rest(s)]]]
    <3> HIDE DEF FoldOf
    <3> QED
      BY <1>5
  <2> QED
    BY <2>1 DEF Folds
<1> QED
  BY <1>2, <1>6

-----------------------------------------------------------------------------
(* Sums *)

\* What SumFunctionOnSet is: a function on the subsets of S, defined by recursion.
Sums(sum, fun, S) ==
  sum = [s \in SUBSET S |-> IF s = {} THEN 0
                            ELSE fun[CHOOSE x \in s : TRUE] + sum[s \ {CHOOSE x \in s : TRUE}]]

LEMMA SumsAreTyped ==
  ASSUME NEW S, IsFiniteSet(S), NEW fun, \A x \in S : fun[x] \in Int,
         NEW sum, Sums(sum, fun, S)
  PROVE  sum \in [SUBSET S -> Int]
<1> DEFINE bad == {s \in SUBSET S : sum[s] \notin Int}
<1>1. SUFFICES ASSUME bad # {} PROVE FALSE
  BY DEF Sums
<1>2. PICK s \in bad : \A u \in bad : u \subseteq s => u = s
  <2>1. bad \in SUBSET (SUBSET S)
    OBVIOUS
  <2> HIDE DEF bad
  <2> QED
    BY <1>1, <2>1, MinimalSubset
<1> DEFINE x == CHOOSE y \in s : TRUE
<1>3. s # {}
  BY <1>2 DEF Sums
<1>4. x \in s /\ s \ {x} \in SUBSET S /\ s \ {x} # s
  BY <1>2, <1>3
<1>5. sum[s \ {x}] \in Int /\ fun[x] \in Int
  <2> HIDE DEF x
  <2> QED
    BY <1>2, <1>4
<1>6. sum[s] = fun[x] + sum[s \ {x}]
  BY <1>2, <1>3 DEF Sums
<1> HIDE DEF x
<1> QED
  BY <1>2, <1>5, <1>6

LEMMA SumsExist ==
  ASSUME NEW S, IsFiniteSet(S), NEW fun, \A x \in S : fun[x] \in Int
  PROVE  \E sum : Sums(sum, fun, S)
<1> DEFINE pick == [s \in SUBSET S |-> CHOOSE x \in s : TRUE]
           add == [x \in S |-> [n \in Int |-> fun[x] + n]]
<1>1. \A s \in SUBSET S : s # {} => pick[s] \in s
  OBVIOUS
<1>2. PICK fold : Folds(fold, S, 0, add, pick)
  <2> HIDE DEF pick, add
  <2> QED
    BY <1>1, FoldExists
<1>3. \A s \in SUBSET S : fold[s] \in Int
  <2> DEFINE bad == {s \in SUBSET S : fold[s] \notin Int}
  <2>1. SUFFICES ASSUME bad # {} PROVE FALSE
    OBVIOUS
  <2>2. PICK s \in bad : \A u \in bad : u \subseteq s => u = s
    <3>1. bad \in SUBSET (SUBSET S)
      OBVIOUS
    <3> HIDE DEF bad
    <3> QED
      BY <2>1, <3>1, MinimalSubset
  <2>3. s # {}
    BY <1>2, <2>2 DEF Folds
  <2>4. fold[s] = add[pick[s]][fold[s \ {pick[s]}]]
    <3> HIDE DEF add, pick
    <3> QED
      BY <1>2, <2>2, <2>3 DEF Folds
  <2>5. pick[s] \in s /\ s \ {pick[s]} \in SUBSET S /\ s \ {pick[s]} # s
    BY <1>1, <2>2, <2>3
  <2>6. fold[s \ {pick[s]}] \in Int /\ fun[pick[s]] \in Int
    <3> HIDE DEF pick
    <3> QED
      BY <2>2, <2>5
  <2>7. pick[s] \in S
    BY <2>2, <2>5
  <2>8. add[pick[s]][fold[s \ {pick[s]}]] = fun[pick[s]] + fold[s \ {pick[s]}]
    <3> HIDE DEF pick
    <3> QED
      BY <2>6, <2>7
  <2> HIDE DEF pick, add
  <2> QED
    BY <2>2, <2>4, <2>6, <2>8
<1>4. \A s \in SUBSET S : s # {} => add[pick[s]][fold[s \ {pick[s]}]] = fun[pick[s]] + fold[s \ {pick[s]}]
  <2> HIDE DEF pick
  <2> QED
    BY <1>1, <1>3
<1>5. fold = [s \in SUBSET S |-> IF s = {} THEN 0 ELSE fun[pick[s]] + fold[s \ {pick[s]}]]
  <2> HIDE DEF pick, add
  <2> QED
    BY <1>2, <1>4 DEF Folds
<1>6. Sums(fold, fun, S)
  BY <1>5 DEF Sums
<1> QED
  BY <1>6

LEMMA SumsAgree ==
  ASSUME NEW S, IsFiniteSet(S), NEW fun, NEW T \in SUBSET S,
         NEW f, Sums(f, fun, S), NEW g, Sums(g, fun, T)
  PROVE  \A s \in SUBSET T : f[s] = g[s]
<1> DEFINE differ == {s \in SUBSET T : f[s] # g[s]}
<1>1. SUFFICES ASSUME differ # {} PROVE FALSE
  OBVIOUS
<1>2. PICK s \in differ : \A u \in differ : u \subseteq s => u = s
  <2>1. differ \in SUBSET (SUBSET T) /\ IsFiniteSet(T)
    BY FS_Subset
  <2> HIDE DEF differ
  <2> QED
    BY <1>1, <2>1, MinimalSubset
<1> DEFINE x == CHOOSE y \in s : TRUE
<1>3. s # {}
  BY <1>2 DEF Sums
<1>4. x \in s /\ s \ {x} \in SUBSET T /\ s \ {x} # s
  BY <1>2, <1>3
<1>5. f[s \ {x}] = g[s \ {x}]
  <2> HIDE DEF x
  <2> QED
    BY <1>2, <1>4
<1>6. f[s] = fun[x] + f[s \ {x}] /\ g[s] = fun[x] + g[s \ {x}]
  BY <1>2, <1>3 DEF Sums
<1> HIDE DEF x
<1> QED
  BY <1>2, <1>5, <1>6

\* The sum over any subset is that of one and the same recursive function.
LEMMA SumIsOfSums ==
  ASSUME NEW S, IsFiniteSet(S), NEW fun, \A x \in S : fun[x] \in Int,
         NEW sum, Sums(sum, fun, S), NEW T \in SUBSET S
  PROVE  SumFunctionOnSet(fun, T) = sum[T]
<1> DEFINE own == CHOOSE g : Sums(g, fun, T)
<1>1. SumFunctionOnSet(fun, T) = own[T]
  BY DEF SumFunctionOnSet, FoldFunctionOnSet, MapThenFoldSet, Sums
<1>2. Sums(own, fun, T)
  BY FS_Subset, SumsExist
<1> HIDE DEF own
<1> QED
  BY <1>1, <1>2, SumsAgree

LEMMA SumOfNone ==
  ASSUME NEW fun
  PROVE  SumFunctionOnSet(fun, {}) = 0
<1>1. PICK sum : Sums(sum, fun, {})
  BY FS_EmptySet, SumsExist
<1>2. SumFunctionOnSet(fun, {}) = sum[{}]
  BY <1>1, FS_EmptySet, SumIsOfSums
<1> QED
  BY <1>1, <1>2 DEF Sums

\* Any element may be added last.
LEMMA SumTakesOut ==
  ASSUME NEW S, IsFiniteSet(S), NEW fun, \A y \in S : fun[y] \in Int, NEW x \in S
  PROVE  /\ SumFunctionOnSet(fun, S) \in Int
         /\ SumFunctionOnSet(fun, S \ {x}) \in Int
         /\ SumFunctionOnSet(fun, S) = fun[x] + SumFunctionOnSet(fun, S \ {x})
<1>1. PICK sum : Sums(sum, fun, S)
  BY SumsExist
<1>2. sum \in [SUBSET S -> Int]
  BY <1>1, SumsAreTyped
<1>3. \A T \in SUBSET S : SumFunctionOnSet(fun, T) = sum[T]
  BY <1>1, SumIsOfSums
<1> DEFINE bad == {T \in SUBSET S : \E y \in T : sum[T] # fun[y] + sum[T \ {y}]}
<1>4. ASSUME bad # {} PROVE FALSE
  <2>1. PICK T \in bad : \A U \in bad : U \subseteq T => U = T
    <3>1. bad \in SUBSET (SUBSET S)
      OBVIOUS
    <3> HIDE DEF bad
    <3> QED
      BY <1>4, <3>1, MinimalSubset
  <2>2. PICK y \in T : sum[T] # fun[y] + sum[T \ {y}]
    BY <2>1
  <2> DEFINE z == CHOOSE a \in T : TRUE
  <2>3. z \in T /\ sum[T] = fun[z] + sum[T \ {z}]
    BY <1>1, <2>1, <2>2 DEF Sums
  <2> HIDE DEF z
  <2>4. z # y
    BY <2>2, <2>3
  <2>5. sum[T \ {z}] = fun[y] + sum[(T \ {z}) \ {y}]
    <3>1. T \ {z} \in SUBSET S /\ y \in T \ {z} /\ T \ {z} # T
      BY <2>1, <2>3, <2>4
    <3> QED
      BY <2>1, <3>1
  <2>6. sum[T \ {y}] = fun[z] + sum[(T \ {y}) \ {z}]
    <3>1. T \ {y} \in SUBSET S /\ z \in T \ {y} /\ T \ {y} # T
      BY <2>1, <2>3, <2>4
    <3> QED
      BY <2>1, <3>1
  <2> DEFINE rest == (T \ {z}) \ {y}
  <2>7. (T \ {y}) \ {z} = rest
    OBVIOUS
  <2>8. sum[rest] \in Int /\ fun[y] \in Int /\ fun[z] \in Int
    <3>1. rest \in SUBSET S
      BY <2>1
    <3> QED
      BY <1>2, <2>1, <2>3, <3>1
  <2>9. sum[T] = fun[z] + (fun[y] + sum[rest]) /\ sum[T \ {y}] = fun[z] + sum[rest]
    BY <2>3, <2>5, <2>6, <2>7
  <2> HIDE DEF rest
  <2> QED
    BY <2>2, <2>8, <2>9
<1>5. sum[S] = fun[x] + sum[S \ {x}]
  BY <1>4
<1>6. S \in SUBSET S /\ S \ {x} \in SUBSET S
  OBVIOUS
<1> HIDE DEF bad
<1> QED
  BY <1>2, <1>3, <1>5, <1>6

\* The sum depends on the values of its own elements only.
LEMMA SumOfSame ==
  ASSUME NEW S, IsFiniteSet(S), NEW f, NEW g, \A x \in S : f[x] \in Int /\ g[x] = f[x]
  PROVE  SumFunctionOnSet(f, S) = SumFunctionOnSet(g, S)
<1>1. PICK sum : Sums(sum, f, S)
  BY SumsExist
<1>2. Sums(sum, g, S)
  <2>1. \A s \in SUBSET S : s # {} => f[CHOOSE x \in s : TRUE] = g[CHOOSE x \in s : TRUE]
    OBVIOUS
  <2> QED
    BY <1>1, <2>1 DEF Sums
<1>3. \A x \in S : g[x] \in Int
  OBVIOUS
<1> QED
  BY <1>1, <1>2, <1>3, SumIsOfSums

\* A sum of numbers that are not negative is not negative; one of zeros is zero.
LEMMA SumOfNats ==
  ASSUME NEW S, IsFiniteSet(S), NEW fun, \A x \in S : fun[x] \in Nat
  PROVE  /\ SumFunctionOnSet(fun, S) \in Nat
         /\ (\A x \in S : fun[x] = 0) => SumFunctionOnSet(fun, S) = 0
<1> DEFINE Zero(T) == \A x \in T : fun[x] = 0
           good(T) == /\ SumFunctionOnSet(fun, T) \in Nat
                      /\ Zero(T) => SumFunctionOnSet(fun, T) = 0
           bad == {T \in SUBSET S : ~good(T)}
<1>1. SUFFICES ASSUME bad # {} PROVE FALSE
  OBVIOUS
<1>2. PICK T \in bad : \A U \in bad : U \subseteq T => U = T
  <2>1. bad \in SUBSET (SUBSET S)
    OBVIOUS
  <2> HIDE DEF bad
  <2> QED
    BY <1>1, <2>1, MinimalSubset
<1>3. T # {}
  <2>1. good({})
    BY SumOfNone
  <2> HIDE DEF good
  <2> QED
    BY <1>2, <2>1
<1>4. PICK x \in T : TRUE
  BY <1>3
<1>5. good(T \ {x}) /\ (Zero(T) => Zero(T \ {x}))
  <2>1. T \ {x} \in SUBSET S /\ T \ {x} # T
    BY <1>2, <1>4
  <2> QED
    BY <1>2, <2>1
<1>6. SumFunctionOnSet(fun, T) = fun[x] + SumFunctionOnSet(fun, T \ {x})
  <2>1. IsFiniteSet(T) /\ \A y \in T : fun[y] \in Int
    BY <1>2, FS_Subset
  <2> QED
    BY <2>1, <1>4, SumTakesOut
<1>7. fun[x] \in Nat
  BY <1>2, <1>4
<1> QED
  BY <1>2, <1>4, <1>5, <1>6, <1>7

LEMMA SumPutsIn ==
  ASSUME NEW S, IsFiniteSet(S), NEW x, x \notin S, NEW fun, \A y \in S \union {x} : fun[y] \in Int
  PROVE  /\ SumFunctionOnSet(fun, S) \in Int
         /\ SumFunctionOnSet(fun, S \union {x}) = fun[x] + SumFunctionOnSet(fun, S)
<1>1. IsFiniteSet(S \union {x}) /\ (S \union {x}) \ {x} = S
  BY FS_AddElement
<1> QED
  BY <1>1, SumTakesOut

\* Two summands that differ at one place at most.
LEMMA SumChangesAtOne ==
  ASSUME NEW S, IsFiniteSet(S), NEW x \in S, NEW f, NEW g,
         \A y \in S : f[y] \in Int /\ g[y] \in Int /\ (y # x => g[y] = f[y])
  PROVE  /\ SumFunctionOnSet(f, S) \in Int
         /\ SumFunctionOnSet(g, S) = SumFunctionOnSet(f, S) - f[x] + g[x]
<1>1. /\ SumFunctionOnSet(f, S) \in Int
      /\ SumFunctionOnSet(f, S \ {x}) \in Int
      /\ SumFunctionOnSet(f, S) = f[x] + SumFunctionOnSet(f, S \ {x})
  BY SumTakesOut
<1>2. SumFunctionOnSet(g, S) = g[x] + SumFunctionOnSet(g, S \ {x})
  BY SumTakesOut
<1>3. SumFunctionOnSet(f, S \ {x}) = SumFunctionOnSet(g, S \ {x})
  <2>1. IsFiniteSet(S \ {x}) /\ \A y \in S \ {x} : f[y] \in Int /\ g[y] = f[y]
    BY FS_Subset
  <2> QED
    BY <2>1, SumOfSame
<1> QED
  BY <1>1, <1>2, <1>3

LEMMA SumOfInterval ==
  ASSUME NEW a \in Int, NEW b \in Int, a <= b, NEW fun, \A y \in a .. b : fun[y] \in Int
  PROVE  /\ SumFunctionOnSet(fun, a .. b) \in Int
         /\ SumFunctionOnSet(fun, a .. b - 1) \in Int
         /\ SumFunctionOnSet(fun, a + 1 .. b) \in Int
         /\ SumFunctionOnSet(fun, a .. b) = fun[b] + SumFunctionOnSet(fun, a .. b - 1)
         /\ SumFunctionOnSet(fun, a .. b) = fun[a] + SumFunctionOnSet(fun, a + 1 .. b)
<1> DEFINE S == a .. b
<1>1. IsFiniteSet(S) /\ a \in S /\ b \in S /\ \A y \in S : fun[y] \in Int
  BY FS_Interval
<1>2. S \ {b} = a .. b - 1 /\ S \ {a} = a + 1 .. b
  OBVIOUS
<1> HIDE DEF S
<1>3. \A x \in S : /\ SumFunctionOnSet(fun, S) \in Int
                   /\ SumFunctionOnSet(fun, S \ {x}) \in Int
                   /\ SumFunctionOnSet(fun, S) = fun[x] + SumFunctionOnSet(fun, S \ {x})
  BY <1>1, SumTakesOut
<1> QED
  BY <1>1, <1>2, <1>3 DEF S

LEMMA SumOfZeros ==
  ASSUME NEW a \in Int, NEW b \in Int, NEW fun, \A y \in a .. b : fun[y] = 0
  PROVE  SumFunctionOnSet(fun, a .. b) = 0
<1>1. IsFiniteSet(a .. b) /\ \A y \in a .. b : fun[y] \in Nat
  BY FS_Interval
<1> QED
  BY <1>1, SumOfNats

LEMMA GreatestNumber ==
  ASSUME NEW N \in Nat, NEW S \in SUBSET (1 .. N), S # {}
  PROVE  \E n \in S : \A m \in S : n >= m
<1> DEFINE below == {k \in 0 .. N : N - k \in S}
<1>1. below \in SUBSET Nat /\ below # {}
  <2>1. PICK n \in S : TRUE
    OBVIOUS
  <2>2. N - n \in 0 .. N /\ N - (N - n) = n
    BY <2>1
  <2>3. N - n \in below
    BY <2>1, <2>2
  <2>4. \A k \in below : k \in Nat
    OBVIOUS
  <2> HIDE DEF below
  <2> QED
    BY <2>3, <2>4
<1>2. PICK k \in below : \A l \in below : k <= l
  <2> HIDE DEF below
  <2> QED
    BY <1>1, LeastNumber
<1>3. ASSUME NEW m \in S PROVE N - k >= m
  <2>1. N - m \in below
    OBVIOUS
  <2> QED
    BY <1>2, <2>1
<1> QED
  BY <1>2, <1>3

LEMMA Distributes ==
  \A a, b, c \in Nat : a * b \in Nat /\ a * (b + c) = a * b + a * c
OBVIOUS
=============================================================================
