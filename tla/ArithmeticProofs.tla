--------------------------- MODULE ArithmeticProofs ---------------------------
(***************************************************************************)
(* What the proofs about several components share.                         *)
(*                                                                         *)
(* Sums over finite sets, for any set and any values.  SumFunctionOnSet    *)
(* folds a set in an order that is not known: it takes away one chosen     *)
(* element after another.  Here it is shown that this recursion is well    *)
(* defined, and that its order does not matter.  Both are inductions.  An  *)
(* induction is done on a set of counterexamples, of which a least one     *)
(* would exist (FiniteSetTheorems: strict inclusion among finite sets is   *)
(* well founded).                                                          *)
(*                                                                         *)
(* Then what integer products and quotients keep, and what the operations  *)
(* of a rate limit do to its buffer, for all limits.                       *)
(***************************************************************************)
EXTENDS RateLimits, FiniteSets, Functions, FiniteSetTheorems, WellFoundedInduction, TLAPS

(* The element that a fold takes next. *)
First(S) == CHOOSE x \in S : TRUE
Rest(S) == S \ {First(S)}

(* The recursion of a sum over the subsets of S. *)
IsSum(g, f, S) ==
  g = [s \in SUBSET S |-> IF s = {} THEN 0 ELSE f[First(s)] + g[Rest(s)]]

----------------------------------------------------------------------------
(* Induction. *)

(* Among subsets of a finite set, there is a smallest one. *)
LEMMA SmallestSet ==
  ASSUME NEW S, IsFiniteSet(S), NEW G \in SUBSET (SUBSET S), G # {}
  PROVE  \E U \in G : \A V \in G : V \subseteq U => V = U
<1>1. IsWellFoundedOn(StrictSubsetOrdering(S), FiniteSubsetsOf(S))
  BY FS_StrictSubsetOrderingWellFounded
<1>2. G \subseteq FiniteSubsetsOf(S)
  BY FS_Subset DEF FiniteSubsetsOf
<1>3. PICK U \in G : \A V \in G : <<V, U>> \notin StrictSubsetOrdering(S)
  BY <1>1, <1>2, WFMin
<1>4. ASSUME NEW V \in G, V \subseteq U PROVE V = U
  <2>1. V \in SUBSET S /\ U \in SUBSET S
    OBVIOUS
  <2> QED
    BY <1>3, <1>4, <2>1 DEF StrictSubsetOrdering
<1> QED
  BY <1>4

(* Some natural numbers have a least one. *)
LEMMA LeastNatural ==
  ASSUME NEW G, G \subseteq Nat, G # {}
  PROVE  \E least \in G : \A n \in G : least <= n
<1>1. PICK k : k \in G /\ \A l \in G : ~ (<<l, k>> \in OpToRel(<, Nat))
  BY NatLessThanWellFounded, WFMin
<1>2. ASSUME NEW l \in G PROVE k <= l
  <2>1. k \in Nat /\ l \in Nat
    BY <1>1
  <2>2. ~ (l < k)
    BY <1>1, <2>1 DEF OpToRel
  <2> QED
    BY <2>1, <2>2
<1> QED
  BY <1>1, <1>2

(* And some positions of a sequence have a last one. *)
LEMMA LastExists ==
  ASSUME NEW n \in Nat, NEW S \in SUBSET (1 .. n), S # {}
  PROVE  \E i \in S : \A j \in S : j <= i
<1> DEFINE T == {n - i : i \in S}
<1>1. \A i \in S : i \in Nat /\ n - i \in Nat
  OBVIOUS
<1>2. PICK k \in T : \A l \in T : k <= l
  <2>1. T \subseteq Nat /\ T # {}
    BY <1>1
  <2> HIDE DEF T
  <2> QED
    BY <2>1, LeastNatural
<1>3. PICK i \in S : k = n - i
  OBVIOUS
<1>4. ASSUME NEW j \in S PROVE j <= i
  <2>1. n - i <= n - j
    BY <1>2, <1>3
  <2> QED
    BY <1>1, <2>1
<1> QED
  BY <1>4

(* What the empty set is in and one more element keeps, every subset is in. *)
LEMMA SetInduction ==
  ASSUME NEW S, IsFiniteSet(S), NEW F \in SUBSET (SUBSET S),
         {} \in F, \A T \in F : \A x \in S : T \cup {x} \in F
  PROVE  S \in F
<1> DEFINE G == (SUBSET S) \ F
<1>1. SUFFICES ASSUME G # {} PROVE FALSE
  OBVIOUS
<1>2. PICK U \in G : \A V \in G : V \subseteq U => V = U
  <2>1. G \in SUBSET (SUBSET S)
    OBVIOUS
  <2> HIDE DEF G
  <2> QED
    BY <1>1, <2>1, SmallestSet
<1>3. PICK x \in U : TRUE
  OBVIOUS
<1>4. U \ {x} \in F
  BY <1>2, <1>3
<1>5. (U \ {x}) \cup {x} = U
  BY <1>3
<1> QED
  BY <1>3, <1>4, <1>5

----------------------------------------------------------------------------
(* The recursion. *)

LEMMA SumUnfolds ==
  ASSUME NEW f, NEW S
  PROVE  SumFunctionOnSet(f, S) = (CHOOSE g : IsSum(g, f, S))[S]
BY DEF SumFunctionOnSet, FoldFunctionOnSet, MapThenFoldSet, IsSum, First, Rest

LEMMA RestIsSmaller ==
  ASSUME NEW S, S # {}
  PROVE  /\ First(S) \in S /\ Rest(S) \in SUBSET S /\ Rest(S) # S
         /\ S = Rest(S) \cup {First(S)}
BY DEF First, Rest

(* Two solutions agree where both are defined. *)
LEMMA SumIsUnique ==
  ASSUME NEW f, NEW S, IsFiniteSet(S), NEW T \in SUBSET S,
         NEW g, NEW h, IsSum(g, f, S), IsSum(h, f, T)
  PROVE  g[T] = h[T]
<1> DEFINE G == {s \in SUBSET T : g[s] # h[s]}
<1>1. SUFFICES ASSUME G # {} PROVE FALSE
  OBVIOUS
<1>2. PICK U \in G : \A V \in G : V \subseteq U => V = U
  <2>1. IsFiniteSet(T) /\ G \in SUBSET (SUBSET T)
    BY FS_Subset
  <2> HIDE DEF G
  <2> QED
    BY <1>1, <2>1, SmallestSet
<1>3. /\ g[U] = IF U = {} THEN 0 ELSE f[First(U)] + g[Rest(U)]
      /\ h[U] = IF U = {} THEN 0 ELSE f[First(U)] + h[Rest(U)]
  <2>1. U \in SUBSET S /\ U \in SUBSET T
    OBVIOUS
  <2> QED
    BY <2>1 DEF IsSum
<1>4. U # {}
  BY <1>3
<1>5. g[Rest(U)] = h[Rest(U)]
  <2>1. Rest(U) \in SUBSET T /\ Rest(U) \subseteq U /\ Rest(U) # U
    BY <1>4, RestIsSmaller
  <2> QED
    BY <1>2, <2>1
<1> QED
  BY <1>3, <1>5

LEMMA SumExists ==
  ASSUME NEW f, NEW S, IsFiniteSet(S)
  PROVE  \E g : IsSum(g, f, S)
<1> DEFINE G == {s \in SUBSET S : ~ \E g : IsSum(g, f, s)}
<1>1. SUFFICES ASSUME G # {} PROVE FALSE
  OBVIOUS
<1>2. PICK U \in G : \A V \in G : V \subseteq U => V = U
  <2>1. G \in SUBSET (SUBSET S)
    OBVIOUS
  <2> HIDE DEF G
  <2> QED
    BY <1>1, <2>1, SmallestSet
<1> DEFINE solution(V) == CHOOSE g : IsSum(g, f, V)
           sum(V) == solution(V)[V]
           new == [s \in SUBSET U |-> IF s = {} THEN 0 ELSE f[First(s)] + sum(Rest(s))]
<1>3. ASSUME NEW V \in SUBSET U, V # U
      PROVE  IsSum(solution(V), f, V) /\ IsFiniteSet(V)
  <2>1. V \in SUBSET S /\ V \notin G
    BY <1>2, <1>3
  <2>2. \E g : IsSum(g, f, V)
    BY <2>1
  <2> QED
    BY <2>1, <2>2, FS_Subset
<1>4. ASSUME NEW V \in SUBSET U, V # U
      PROVE  sum(V) = new[V]
  <2>1. IsSum(solution(V), f, V) /\ IsFiniteSet(V)
    BY <1>3, <1>4
  <2>2. sum(V) = IF V = {} THEN 0 ELSE f[First(V)] + solution(V)[Rest(V)]
    BY <2>1 DEF IsSum
  <2>3. CASE V = {}
    BY <2>2, <2>3
  <2>4. CASE V # {}
    <3>1. Rest(V) \in SUBSET V /\ Rest(V) \in SUBSET U /\ Rest(V) # U
      BY <1>4, <2>4, RestIsSmaller
    <3>2. IsSum(solution(Rest(V)), f, Rest(V))
      BY <1>3, <3>1
    <3>3. solution(V)[Rest(V)] = sum(Rest(V))
      BY <2>1, <3>1, <3>2, SumIsUnique
    <3> QED
      BY <2>2, <2>4, <3>3
  <2> QED
    BY <2>3, <2>4
<1>5. IsSum(new, f, U)
  <2>1. ASSUME NEW s \in SUBSET U, s # {}
        PROVE  sum(Rest(s)) = new[Rest(s)]
    <3>1. Rest(s) \in SUBSET U /\ Rest(s) # U
      BY <2>1, RestIsSmaller
    <3> QED
      BY <1>4, <3>1
  <2> HIDE DEF sum, solution
  <2> QED
    BY <2>1 DEF IsSum
<1> QED
  BY <1>5

(* The sum over a finite set is what the fold takes first and the sum of the rest. *)
LEMMA SumRecursion ==
  ASSUME NEW f, NEW S, IsFiniteSet(S)
  PROVE  SumFunctionOnSet(f, S) =
           IF S = {} THEN 0 ELSE f[First(S)] + SumFunctionOnSet(f, Rest(S))
<1> DEFINE g == CHOOSE h : IsSum(h, f, S)
<1>1. IsSum(g, f, S)
  BY SumExists
<1>2. SumFunctionOnSet(f, S) = g[S]
  BY SumUnfolds
<1>3. g[S] = IF S = {} THEN 0 ELSE f[First(S)] + g[Rest(S)]
  BY <1>1 DEF IsSum
<1>4. CASE S # {}
  <2> DEFINE h == CHOOSE k : IsSum(k, f, Rest(S))
  <2>1. Rest(S) \in SUBSET S /\ IsFiniteSet(Rest(S))
    BY <1>4, RestIsSmaller, FS_Subset
  <2>2. IsSum(h, f, Rest(S))
    BY <2>1, SumExists
  <2>3. SumFunctionOnSet(f, Rest(S)) = h[Rest(S)]
    BY SumUnfolds
  <2>4. g[Rest(S)] = h[Rest(S)]
    BY <1>1, <2>1, <2>2, SumIsUnique
  <2> QED
    BY <1>2, <1>3, <1>4, <2>3, <2>4
<1> QED
  BY <1>2, <1>3, <1>4

LEMMA SumOfNone ==
  ASSUME NEW f
  PROVE  SumFunctionOnSet(f, {}) = 0
BY SumRecursion, FS_EmptySet

LEMMA SumIsInt ==
  ASSUME NEW f, NEW S, IsFiniteSet(S), \A x \in S : f[x] \in Int
  PROVE  SumFunctionOnSet(f, S) \in Int
<1> DEFINE G == {s \in SUBSET S : SumFunctionOnSet(f, s) \notin Int}
<1>1. SUFFICES ASSUME G # {} PROVE FALSE
  OBVIOUS
<1>2. PICK U \in G : \A V \in G : V \subseteq U => V = U
  <2>1. G \in SUBSET (SUBSET S)
    OBVIOUS
  <2> HIDE DEF G
  <2> QED
    BY <1>1, <2>1, SmallestSet
<1>3. IsFiniteSet(U)
  BY FS_Subset
<1>4. U # {}
  BY SumOfNone
<1>5. First(U) \in S /\ SumFunctionOnSet(f, Rest(U)) \in Int
  BY <1>2, <1>4, RestIsSmaller
<1>6. SumFunctionOnSet(f, U) = f[First(U)] + SumFunctionOnSet(f, Rest(U))
  BY <1>3, <1>4, SumRecursion
<1> QED
  BY <1>5, <1>6

(* It does not matter which element is taken first. *)
LEMMA SumTakes ==
  ASSUME NEW f, NEW S, IsFiniteSet(S), \A x \in S : f[x] \in Int, NEW y \in S
  PROVE  SumFunctionOnSet(f, S) = f[y] + SumFunctionOnSet(f, S \ {y})
<1> DEFINE G == {s \in SUBSET S : \E x \in s :
                   SumFunctionOnSet(f, s) # f[x] + SumFunctionOnSet(f, s \ {x})}
<1>1. SUFFICES ASSUME G # {} PROVE FALSE
  OBVIOUS
<1>2. PICK U \in G : \A V \in G : V \subseteq U => V = U
  <2>1. G \in SUBSET (SUBSET S)
    OBVIOUS
  <2> HIDE DEF G
  <2> QED
    BY <1>1, <2>1, SmallestSet
<1>3. PICK x \in U : SumFunctionOnSet(f, U) # f[x] + SumFunctionOnSet(f, U \ {x})
  OBVIOUS
<1> DEFINE c == First(U)
           both == (U \ {c}) \ {x}
<1>4. /\ c \in U /\ U \subseteq S /\ Rest(U) = U \ {c}
      /\ IsFiniteSet(U) /\ IsFiniteSet(U \ {c}) /\ IsFiniteSet(U \ {x}) /\ IsFiniteSet(both)
  BY FS_Subset, RestIsSmaller DEF Rest
<1>5. SumFunctionOnSet(f, U) = f[c] + SumFunctionOnSet(f, U \ {c})
  BY <1>4, SumRecursion
<1>6. x # c
  BY <1>3, <1>5
<1>7. SumFunctionOnSet(f, U \ {c}) = f[x] + SumFunctionOnSet(f, both)
  <2>1. U \ {c} \notin G /\ U \ {c} \in SUBSET S /\ x \in U \ {c}
    BY <1>2, <1>4, <1>6
  <2> QED
    BY <2>1
<1>8. SumFunctionOnSet(f, U \ {x}) = f[c] + SumFunctionOnSet(f, both)
  <2>1. U \ {x} \notin G /\ U \ {x} \in SUBSET S /\ c \in U \ {x}
    BY <1>2, <1>4, <1>6
  <2>2. (U \ {x}) \ {c} = both
    OBVIOUS
  <2>3. \A z \in U \ {x} : SumFunctionOnSet(f, U \ {x})
                              = f[z] + SumFunctionOnSet(f, (U \ {x}) \ {z})
    BY <2>1
  <2> QED
    BY <2>1, <2>2, <2>3
<1>9. f[x] \in Int /\ f[c] \in Int /\ SumFunctionOnSet(f, both) \in Int
  BY <1>4, SumIsInt
<1> QED
  BY <1>3, <1>5, <1>7, <1>8, <1>9

LEMMA SumAdds ==
  ASSUME NEW f, NEW S, IsFiniteSet(S), NEW y, y \notin S, \A x \in S \cup {y} : f[x] \in Int
  PROVE  SumFunctionOnSet(f, S \cup {y}) = f[y] + SumFunctionOnSet(f, S)
<1>1. IsFiniteSet(S \cup {y}) /\ (S \cup {y}) \ {y} = S
  BY FS_AddElement
<1> QED
  BY <1>1, SumTakes

----------------------------------------------------------------------------
(* What sums have in common with what is summed. *)

(* An induction on the set that is summed over. *)
LEMMA SumAgrees ==
  ASSUME NEW f, NEW g, NEW S, IsFiniteSet(S), \A x \in S : f[x] = g[x]
  PROVE  SumFunctionOnSet(f, S) = SumFunctionOnSet(g, S)
<1> DEFINE G == {s \in SUBSET S : SumFunctionOnSet(f, s) # SumFunctionOnSet(g, s)}
<1>1. SUFFICES ASSUME G # {} PROVE FALSE
  OBVIOUS
<1>2. PICK U \in G : \A V \in G : V \subseteq U => V = U
  <2>1. G \in SUBSET (SUBSET S)
    OBVIOUS
  <2> HIDE DEF G
  <2> QED
    BY <1>1, <2>1, SmallestSet
<1>3. IsFiniteSet(U)
  BY FS_Subset
<1>4. U # {}
  BY SumOfNone
<1>5. First(U) \in S /\ SumFunctionOnSet(f, Rest(U)) = SumFunctionOnSet(g, Rest(U))
  BY <1>2, <1>4, RestIsSmaller
<1>6. /\ SumFunctionOnSet(f, U) = f[First(U)] + SumFunctionOnSet(f, Rest(U))
      /\ SumFunctionOnSet(g, U) = g[First(U)] + SumFunctionOnSet(g, Rest(U))
  BY <1>3, <1>4, SumRecursion
<1> QED
  BY <1>5, <1>6

LEMMA SumKeepsOrder ==
  ASSUME NEW f, NEW g, NEW S, IsFiniteSet(S),
         \A x \in S : f[x] \in Int /\ g[x] \in Int /\ f[x] <= g[x]
  PROVE  SumFunctionOnSet(f, S) <= SumFunctionOnSet(g, S)
<1> DEFINE G == {s \in SUBSET S : ~ (SumFunctionOnSet(f, s) <= SumFunctionOnSet(g, s))}
<1>1. SUFFICES ASSUME G # {} PROVE FALSE
  OBVIOUS
<1>2. PICK U \in G : \A V \in G : V \subseteq U => V = U
  <2>1. G \in SUBSET (SUBSET S)
    OBVIOUS
  <2> HIDE DEF G
  <2> QED
    BY <1>1, <2>1, SmallestSet
<1>3. IsFiniteSet(U)
  BY FS_Subset
<1>4. U # {}
  BY SumOfNone
<1>5. /\ First(U) \in S /\ IsFiniteSet(Rest(U)) /\ Rest(U) \in SUBSET S
      /\ SumFunctionOnSet(f, Rest(U)) <= SumFunctionOnSet(g, Rest(U))
  BY <1>2, <1>4, RestIsSmaller, FS_Subset
<1>6. /\ SumFunctionOnSet(f, U) = f[First(U)] + SumFunctionOnSet(f, Rest(U))
      /\ SumFunctionOnSet(g, U) = g[First(U)] + SumFunctionOnSet(g, Rest(U))
  BY <1>3, <1>4, SumRecursion
<1>7. /\ SumFunctionOnSet(f, Rest(U)) \in Int /\ SumFunctionOnSet(g, Rest(U)) \in Int
      /\ f[First(U)] \in Int /\ g[First(U)] \in Int /\ f[First(U)] <= g[First(U)]
  BY <1>5, SumIsInt
<1>8. SumFunctionOnSet(f, U) <= SumFunctionOnSet(g, U)
  BY <1>5, <1>6, <1>7
<1> QED
  BY <1>8

LEMMA TwiceItself ==
  ASSUME NEW t \in Int, t = t + t
  PROVE  t = 0
OBVIOUS

LEMMA SumOfPairs ==
  ASSUME NEW f, NEW g, NEW h, NEW S, IsFiniteSet(S),
         \A x \in S : f[x] \in Int /\ g[x] \in Int /\ h[x] = f[x] + g[x]
  PROVE  SumFunctionOnSet(h, S) = SumFunctionOnSet(f, S) + SumFunctionOnSet(g, S)
<1> DEFINE G == {s \in SUBSET S :
                   SumFunctionOnSet(h, s) # SumFunctionOnSet(f, s) + SumFunctionOnSet(g, s)}
<1>1. SUFFICES ASSUME G # {} PROVE FALSE
  OBVIOUS
<1>2. PICK U \in G : \A V \in G : V \subseteq U => V = U
  <2>1. G \in SUBSET (SUBSET S)
    OBVIOUS
  <2> HIDE DEF G
  <2> QED
    BY <1>1, <2>1, SmallestSet
<1>3. IsFiniteSet(U)
  BY FS_Subset
<1>4. U # {}
  <2>1. /\ SumFunctionOnSet(f, {}) = 0 /\ SumFunctionOnSet(g, {}) = 0
        /\ SumFunctionOnSet(h, {}) = 0 /\ 0 = 0 + 0
    BY SumOfNone
  <2> QED
    BY <2>1
<1>5. /\ First(U) \in S /\ IsFiniteSet(Rest(U)) /\ Rest(U) \in SUBSET S
      /\ SumFunctionOnSet(h, Rest(U))
           = SumFunctionOnSet(f, Rest(U)) + SumFunctionOnSet(g, Rest(U))
  BY <1>2, <1>4, RestIsSmaller, FS_Subset
<1>6. /\ SumFunctionOnSet(f, U) = f[First(U)] + SumFunctionOnSet(f, Rest(U))
      /\ SumFunctionOnSet(g, U) = g[First(U)] + SumFunctionOnSet(g, Rest(U))
      /\ SumFunctionOnSet(h, U) = h[First(U)] + SumFunctionOnSet(h, Rest(U))
  BY <1>3, <1>4, SumRecursion
<1>7. /\ SumFunctionOnSet(f, Rest(U)) \in Int /\ SumFunctionOnSet(g, Rest(U)) \in Int
      /\ f[First(U)] \in Int /\ g[First(U)] \in Int
      /\ h[First(U)] = f[First(U)] + g[First(U)]
  BY <1>5, SumIsInt
<1>8. SumFunctionOnSet(h, U) = SumFunctionOnSet(f, U) + SumFunctionOnSet(g, U)
  BY <1>5, <1>6, <1>7
<1> QED
  BY <1>8

LEMMA SumIsNat ==
  ASSUME NEW f, NEW S, IsFiniteSet(S), \A x \in S : f[x] \in Nat
  PROVE  SumFunctionOnSet(f, S) \in Nat
<1> DEFINE zero == [x \in S |-> 0]
<1>1. SumFunctionOnSet(zero, S) + SumFunctionOnSet(zero, S) = SumFunctionOnSet(zero, S)
  <2>1. \A x \in S : zero[x] \in Int /\ zero[x] = zero[x] + zero[x]
    OBVIOUS
  <2> HIDE DEF zero
  <2> QED
    BY <2>1, SumOfPairs
<1>2. SumFunctionOnSet(zero, S) <= SumFunctionOnSet(f, S)
  <2>1. \A x \in S : zero[x] \in Int /\ f[x] \in Int /\ zero[x] <= f[x]
    OBVIOUS
  <2> HIDE DEF zero
  <2> QED
    BY <2>1, SumKeepsOrder
<1>3. SumFunctionOnSet(zero, S) \in Int /\ SumFunctionOnSet(f, S) \in Int
  <2>1. \A x \in S : zero[x] \in Int /\ f[x] \in Int
    OBVIOUS
  <2> HIDE DEF zero
  <2> QED
    BY <2>1, SumIsInt
<1> HIDE DEF zero
<1> QED
  BY <1>1, <1>2, <1>3

LEMMA SumOfUnion ==
  ASSUME NEW f, NEW S, IsFiniteSet(S), NEW T, IsFiniteSet(T), S \cap T = {},
         \A x \in S \cup T : f[x] \in Int
  PROVE  SumFunctionOnSet(f, S \cup T) = SumFunctionOnSet(f, S) + SumFunctionOnSet(f, T)
<1> DEFINE F == {U \in SUBSET T : SumFunctionOnSet(f, S \cup U)
                   = SumFunctionOnSet(f, S) + SumFunctionOnSet(f, U)}
<1>1. {} \in F
  <2>1. SumFunctionOnSet(f, S) \in Int /\ SumFunctionOnSet(f, {}) = 0 /\ S \cup {} = S
    BY SumIsInt, SumOfNone
  <2> QED
    BY <2>1
<1>2. ASSUME NEW U \in F, NEW y \in T
      PROVE  U \cup {y} \in F
  <2>1. CASE y \in U
    <3>1. U \cup {y} = U
      BY <2>1
    <3> QED
      BY <3>1
  <2>2. CASE y \notin U
    <3>1. /\ IsFiniteSet(U) /\ IsFiniteSet(S \cup U) /\ y \notin S \cup U
          /\ (S \cup U) \cup {y} = S \cup (U \cup {y})
      BY <2>2, FS_Subset, FS_Union
    <3>2. SumFunctionOnSet(f, S \cup (U \cup {y})) = f[y] + SumFunctionOnSet(f, S \cup U)
      <4>1. \A x \in (S \cup U) \cup {y} : f[x] \in Int
        OBVIOUS
      <4> HIDE DEF F
      <4> QED
        BY <3>1, <4>1, SumAdds
    <3>3. SumFunctionOnSet(f, U \cup {y}) = f[y] + SumFunctionOnSet(f, U)
      BY <2>2, <3>1, SumAdds
    <3>4. f[y] \in Int /\ SumFunctionOnSet(f, S) \in Int /\ SumFunctionOnSet(f, U) \in Int
      BY <3>1, SumIsInt
    <3> QED
      BY <3>2, <3>3, <3>4
  <2> QED
    BY <2>1, <2>2
<1>3. F \in SUBSET (SUBSET T)
  OBVIOUS
<1>4. T \in F
  <2> HIDE DEF F
  <2> QED
    BY <1>1, <1>2, <1>3, SetInduction
<1> QED
  BY <1>4

(* A part is no more than the whole. *)
LEMMA SumOfPart ==
  ASSUME NEW f, NEW S, IsFiniteSet(S), NEW T \in SUBSET S, \A x \in S : f[x] \in Nat
  PROVE  SumFunctionOnSet(f, T) <= SumFunctionOnSet(f, S)
<1>1. /\ IsFiniteSet(T) /\ IsFiniteSet(S \ T) /\ T \cap (S \ T) = {} /\ T \cup (S \ T) = S
  BY FS_Subset
<1>2. SumFunctionOnSet(f, S) = SumFunctionOnSet(f, T) + SumFunctionOnSet(f, S \ T)
  <2>1. \A x \in T \cup (S \ T) : f[x] \in Int
    OBVIOUS
  <2> QED
    BY <1>1, <2>1, SumOfUnion
<1>3. SumFunctionOnSet(f, T) \in Nat /\ SumFunctionOnSet(f, S \ T) \in Nat
  BY <1>1, SumIsNat
<1> QED
  BY <1>2, <1>3

(* One value changes, and the sum by as much. *)
LEMMA SumChanges ==
  ASSUME NEW f, NEW g, NEW S, IsFiniteSet(S), NEW y \in S,
         \A x \in S : f[x] \in Int /\ g[x] \in Int /\ (x # y => g[x] = f[x])
  PROVE  SumFunctionOnSet(g, S) = SumFunctionOnSet(f, S) - f[y] + g[y]
<1>1. IsFiniteSet(S \ {y})
  BY FS_RemoveElement
<1>2. SumFunctionOnSet(f, S) = f[y] + SumFunctionOnSet(f, S \ {y})
  BY SumTakes
<1>3. SumFunctionOnSet(g, S) = g[y] + SumFunctionOnSet(g, S \ {y})
  BY SumTakes
<1>4. SumFunctionOnSet(f, S \ {y}) = SumFunctionOnSet(g, S \ {y})
  <2>1. \A x \in S \ {y} : f[x] = g[x]
    OBVIOUS
  <2> QED
    BY <1>1, <2>1, SumAgrees
<1>5. SumFunctionOnSet(f, S \ {y}) \in Int
  BY <1>1, SumIsInt
<1> QED
  BY <1>2, <1>3, <1>4, <1>5

(* What is divided among some is, summed up, what all of them were given. *)
LEMMA SumOfShares ==
  ASSUME NEW f, NEW S, IsFiniteSet(S), NEW owner, NEW D, IsFiniteSet(D),
         \A x \in S : f[x] \in Int, NEW share,
         \A d \in D : share[d] = SumFunctionOnSet(f, {x \in S : owner[x] = d})
  PROVE  SumFunctionOnSet(share, D) = SumFunctionOnSet(f, {x \in S : owner[x] \in D})
<1> DEFINE of(d) == {x \in S : owner[x] = d}
           all(U) == {x \in S : owner[x] \in U}
           F == {U \in SUBSET D : SumFunctionOnSet(share, U) = SumFunctionOnSet(f, all(U))}
<1>1. {} \in F
  <2>1. all({}) = {}
    OBVIOUS
  <2> QED
    BY <2>1, SumOfNone
<1>2. ASSUME NEW U \in F, NEW y \in D
      PROVE  U \cup {y} \in F
  <2>1. CASE y \in U
    <3>1. U \cup {y} = U
      BY <2>1
    <3> QED
      BY <3>1
  <2>2. CASE y \notin U
    <3>1. /\ IsFiniteSet(U) /\ IsFiniteSet(of(y)) /\ IsFiniteSet(all(U))
          /\ all(U) \cap of(y) = {} /\ all(U \cup {y}) = all(U) \cup of(y)
      <4>1. of(y) \in SUBSET S /\ all(U) \in SUBSET S /\ U \in SUBSET D
        OBVIOUS
      <4> QED
        BY <2>2, <4>1, FS_Subset
    <3>2. \A x \in all(U) \cup of(y) : f[x] \in Int
      OBVIOUS
    <3>3. SumFunctionOnSet(f, all(U \cup {y}))
            = SumFunctionOnSet(f, all(U)) + SumFunctionOnSet(f, of(y))
      <4> HIDE DEF F, all, of
      <4>1. SumFunctionOnSet(f, all(U) \cup of(y))
              = SumFunctionOnSet(f, all(U)) + SumFunctionOnSet(f, of(y))
        BY <3>1, <3>2, SumOfUnion
      <4> QED
        BY <3>1, <4>1
    <3>4. \A d \in U \cup {y} : share[d] \in Int
      <4>1. ASSUME NEW d \in D PROVE SumFunctionOnSet(f, of(d)) \in Int
        <5>1. of(d) \in SUBSET S /\ \A x \in of(d) : f[x] \in Int
          OBVIOUS
        <5> HIDE DEF of
        <5>2. IsFiniteSet(of(d))
          BY <5>1, FS_Subset
        <5> QED
          BY <5>1, <5>2, SumIsInt
      <4>2. \A d \in U \cup {y} : d \in D
        OBVIOUS
      <4> QED
        BY <4>1, <4>2
    <3>5. SumFunctionOnSet(share, U \cup {y}) = share[y] + SumFunctionOnSet(share, U)
      BY <2>2, <3>1, <3>4, SumAdds
    <3>6. SumFunctionOnSet(share, U) \in Int /\ share[y] \in Int
      BY <3>1, <3>4, SumIsInt
    <3>7. /\ share[y] = SumFunctionOnSet(f, of(y))
          /\ SumFunctionOnSet(share, U) = SumFunctionOnSet(f, all(U))
      OBVIOUS
    <3>8. SumFunctionOnSet(share, U \cup {y}) = SumFunctionOnSet(f, all(U \cup {y}))
      <4> HIDE DEF all, of, F
      <4> QED
        BY <3>3, <3>5, <3>6, <3>7
    <3> QED
      BY <3>8
  <2> QED
    BY <2>1, <2>2
<1>3. F \in SUBSET (SUBSET D)
  OBVIOUS
<1>4. D \in F
  <2> HIDE DEF F
  <2> QED
    BY <1>1, <1>2, <1>3, SetInduction
<1> QED
  BY <1>4

----------------------------------------------------------------------------
(* Products. *)

(* A product of numbers is one, and keeps their order. *)
LEMMA ProductType ==
  ASSUME NEW m \in Nat, NEW n \in Nat
  PROVE  m * n \in Nat
OBVIOUS

(* Dividing and multiplying again gives no more. *)
LEMMA DivBounds ==
  ASSUME NEW a \in Nat, NEW b \in Nat \ {0}
  PROVE  a \div b \in Nat /\ (a \div b) * b <= a
BY Z3

(* Multiplying by a number keeps the order, and dividing by one again does. *)
LEMMA ProductMonotonic ==
  ASSUME NEW a \in Nat, NEW b \in Nat, NEW c \in Nat, a <= b
  PROVE  a * c <= b * c
BY Z3

LEMMA ProductCancels ==
  ASSUME NEW a \in Nat, NEW b \in Nat, NEW c \in Nat \ {0}, a * c <= b * c
  PROVE  a <= b
BY Z3

LEMMA Distributes ==
  ASSUME NEW a \in Int, NEW b \in Int, NEW c \in Int
  PROVE  (a + b) * c = a * c + b * c /\ (a - b) * c = a * c - b * c /\ a * b = b * a
BY Z3

(* The same on the left. *)
LEMMA DistributesLeft ==
  ASSUME NEW a \in Int, NEW b \in Int, NEW c \in Int
  PROVE  c * (a + b) = c * a + c * b /\ c * (a - b) = c * a - c * b
<1>1. (a + b) * c = a * c + b * c /\ (a - b) * c = a * c - b * c
  BY Distributes
<1>2. a * c = c * a /\ b * c = c * b
  BY Distributes
<1>3. a + b \in Int /\ a - b \in Int
  OBVIOUS
<1>4. (a + b) * c = c * (a + b) /\ (a - b) * c = c * (a - b)
  BY <1>3, Distributes
<1> QED
  BY <1>1, <1>2, <1>4

(* Three factors are grouped either way. *)
LEMMA Associates ==
  ASSUME NEW a \in Int, NEW b \in Int, NEW c \in Int
  PROVE  (a * b) * c = a * (b * c)
BY Z3

LEMMA IntProduct ==
  ASSUME NEW m \in Int, NEW n \in Int
  PROVE  m * n \in Int
OBVIOUS

(* A quotient that rounds down is less than one below the exact one, *)
LEMMA DivRemains ==
  ASSUME NEW a \in Nat, NEW c \in Nat \ {0}
  PROVE  a \div c \in Nat /\ c * (a \div c) <= a /\ a < c * (a \div c) + c
BY Z3

(* keeps the order, *)
LEMMA DivMonotonic ==
  ASSUME NEW a \in Nat, NEW b \in Nat, a <= b, NEW c \in Nat \ {0}
  PROVE  a \div c <= b \div c
BY Z3

(* and is at most one more than those of two parts. *)
LEMMA PartsLoseOne ==
  ASSUME NEW a \in Nat, NEW b \in Nat, NEW c \in Nat \ {0}
  PROVE  (a + b) \div c <= (a \div c) + (b \div c) + 1
BY Z3

(* A common factor of what is summed is one of the sum. *)
LEMMA SumScales ==
  ASSUME NEW k \in Int, NEW f, NEW g, NEW S, IsFiniteSet(S),
         \A x \in S : f[x] \in Int /\ g[x] \in Int /\ g[x] = k * f[x]
  PROVE  SumFunctionOnSet(g, S) = k * SumFunctionOnSet(f, S)
<1> DEFINE G == {s \in SUBSET S : SumFunctionOnSet(g, s) # k * SumFunctionOnSet(f, s)}
<1>1. SUFFICES ASSUME G # {} PROVE FALSE
  OBVIOUS
<1>2. PICK U \in G : \A V \in G : V \subseteq U => V = U
  <2>1. G \in SUBSET (SUBSET S)
    OBVIOUS
  <2> HIDE DEF G
  <2> QED
    BY <1>1, <2>1, SmallestSet
<1>3. IsFiniteSet(U)
  BY FS_Subset
<1>4. U # {}
  <2>1. SumFunctionOnSet(f, {}) = 0 /\ SumFunctionOnSet(g, {}) = 0 /\ k * 0 = 0
    BY SumOfNone
  <2> QED
    BY <2>1
<1>5. /\ First(U) \in S /\ IsFiniteSet(Rest(U)) /\ Rest(U) \in SUBSET S
      /\ SumFunctionOnSet(g, Rest(U)) = k * SumFunctionOnSet(f, Rest(U))
  BY <1>2, <1>4, RestIsSmaller, FS_Subset
<1>6. /\ SumFunctionOnSet(f, U) = f[First(U)] + SumFunctionOnSet(f, Rest(U))
      /\ SumFunctionOnSet(g, U) = g[First(U)] + SumFunctionOnSet(g, Rest(U))
  BY <1>3, <1>4, SumRecursion
<1>7. PICK first \in Int, rest \in Int :
        first = f[First(U)] /\ rest = SumFunctionOnSet(f, Rest(U))
  BY <1>5, SumIsInt
<1>8. k * (first + rest) = k * first + k * rest
  <2>1. /\ (first + rest) * k = first * k + rest * k
        /\ first * k = k * first /\ rest * k = k * rest
    BY Distributes
  <2>2. (first + rest) * k = k * (first + rest)
    BY Distributes
  <2> QED
    BY <2>1, <2>2
<1>9. SumFunctionOnSet(g, U) = k * first + k * rest
  BY <1>5, <1>6, <1>7
<1>10. SumFunctionOnSet(f, U) = first + rest
  BY <1>6, <1>7
<1>11. SumFunctionOnSet(g, U) = k * SumFunctionOnSet(f, U)
  BY <1>8, <1>9, <1>10
<1> QED
  BY <1>11

----------------------------------------------------------------------------
(* Rate limits. *)

(* What has accrued since the last use is a number. *)
LEMMA AccruedType ==
  ASSUME NEW b \in Limit, NEW t \in Nat, t >= b.last
  PROVE  b.rate * (t - b.last) \in Nat
<1>1. b.rate \in Nat /\ t - b.last \in Nat
  BY DEF Limit
<1>2. \A m, n \in Nat : m * n \in Nat
  OBVIOUS
<1> QED
  BY <1>1, <1>2

(* RateLimited.sol:65-68.  The buffer never exceeds the cap. *)
LEMMA BufferType ==
  ASSUME NEW b \in Limit, NEW t \in Nat, t >= b.last
  PROVE  Buffer(b, t) \in Nat /\ Buffer(b, t) <= b.cap
<1> DEFINE accrued == b.rate * (t - b.last)
<1>1. accrued \in Nat
  BY AccruedType
<1>2. b.stored \in Nat /\ b.cap \in Nat
  BY DEF Limit
<1> HIDE DEF accrued
<1>3. Lesser(b.stored + accrued, b.cap) \in Nat /\ Lesser(b.stored + accrued, b.cap) <= b.cap
  BY <1>1, <1>2 DEF Lesser
<1> QED
  BY <1>3 DEF Buffer, accrued

(* RateLimited.sol:63-68.  A second adds no more than the rate. *)
LEMMA BufferTick ==
  ASSUME NEW b \in Limit, NEW t \in Nat, t >= b.last
  PROVE  Buffer(b, t + 1) <= Buffer(b, t) + b.rate
<1> DEFINE accrued == b.rate * (t - b.last)
<1>1. accrued \in Nat
  BY AccruedType
<1>2. b.stored \in Nat /\ b.cap \in Nat /\ b.rate \in Nat /\ b.last \in Nat
  BY DEF Limit
<1>3. b.rate * ((t + 1) - b.last) = accrued + b.rate
  <2>1. \A r, m, n \in Int : r * ((m + 1) - n) = r * (m - n) + r
    BY Z3
  <2>2. b.rate \in Int /\ t \in Int /\ b.last \in Int
    BY <1>2
  <2>3. b.rate * ((t + 1) - b.last) = b.rate * (t - b.last) + b.rate
    BY <2>1, <2>2, Zenon
  <2> QED
    BY <2>3
<1> HIDE DEF accrued
<1>4. Lesser(b.stored + (accrued + b.rate), b.cap) <= Lesser(b.stored + accrued, b.cap) + b.rate
  BY <1>1, <1>2 DEF Lesser
<1> QED
  BY <1>3, <1>4 DEF Buffer, accrued

(* A limit that was used this second holds what it stores, up to its cap. *)
LEMMA BufferNow ==
  ASSUME NEW b \in Limit, NEW t \in Nat, b.last = t
  PROVE  Buffer(b, t) = Lesser(b.stored, b.cap)
<1>1. b.rate \in Nat /\ b.stored \in Nat /\ t - b.last = 0
  BY DEF Limit
<1>2. b.rate * (t - b.last) = 0
  BY <1>1
<1> QED
  BY <1>1, <1>2 DEF Buffer

(* RateLimited.sol:135-138. *)
LEMMA UpdatedType ==
  ASSUME NEW b \in Limit, NEW t \in Nat, t >= b.last
  PROVE  /\ Updated(b, t) \in Limit
         /\ Updated(b, t) = [stored |-> Buffer(b, t), cap |-> b.cap, rate |-> b.rate, last |-> t]
BY BufferType DEF Updated, Limit

(* RateLimited.sol:122-129.  A new cap never raises the buffer. *)
LEMMA SetCapType ==
  ASSUME NEW b \in Limit, NEW t \in Nat, t >= b.last, NEW c \in Nat
  PROVE  /\ SetCap(b, t, c) \in Limit
         /\ SetCap(b, t, c).last = t /\ SetCap(b, t, c).rate = b.rate
         /\ Buffer(SetCap(b, t, c), t) <= Buffer(b, t)
<1> DEFINE new == SetCap(b, t, c)
<1>1. new = [stored |-> Buffer(b, t), cap |-> c, rate |-> b.rate, last |-> t]
  BY UpdatedType DEF SetCap
<1>2. Buffer(b, t) \in Nat
  BY BufferType
<1>3. new \in Limit
  BY <1>1, <1>2 DEF Limit
<1>4. Buffer(new, t) = Lesser(new.stored, new.cap)
  BY <1>1, <1>3, BufferNow
<1> QED
  BY <1>1, <1>2, <1>3, <1>4 DEF Lesser

(* RateLimited.sol:51-56.  A new rate leaves the buffer as it is. *)
LEMMA SetRateType ==
  ASSUME NEW b \in Limit, NEW t \in Nat, t >= b.last, NEW r \in Nat
  PROVE  /\ SetRate(b, t, r) \in Limit
         /\ SetRate(b, t, r).last = t /\ SetRate(b, t, r).rate = r
         /\ Buffer(SetRate(b, t, r), t) = Buffer(b, t)
<1> DEFINE new == SetRate(b, t, r)
<1>1. new = [stored |-> Buffer(b, t), cap |-> b.cap, rate |-> r, last |-> t]
  BY UpdatedType DEF SetRate
<1>2. Buffer(b, t) \in Nat /\ Buffer(b, t) <= b.cap
  BY BufferType
<1>3. new \in Limit
  BY <1>1, <1>2 DEF Limit
<1>4. Buffer(new, t) = Lesser(new.stored, new.cap)
  BY <1>1, <1>3, BufferNow
<1> QED
  BY <1>1, <1>2, <1>3, <1>4 DEF Lesser

(* RateLimited.sol:77-95.  A use takes exactly its amount from the buffer. *)
LEMMA DepleteType ==
  ASSUME NEW b \in Limit, NEW t \in Nat, t >= b.last, NEW n \in Nat, CanDeplete(b, t, n)
  PROVE  /\ Deplete(b, t, n) \in Limit
         /\ Deplete(b, t, n).last = t
         /\ Deplete(b, t, n).rate = b.rate /\ Deplete(b, t, n).cap = b.cap
         /\ Buffer(Deplete(b, t, n), t) = Buffer(b, t) - n
<1> DEFINE new == Deplete(b, t, n)
<1>1. new = [stored |-> Buffer(b, t) - n, cap |-> b.cap, rate |-> b.rate, last |-> t]
  BY UpdatedType DEF Deplete
<1>2. Buffer(b, t) \in Nat /\ Buffer(b, t) <= b.cap /\ n <= Buffer(b, t)
  BY BufferType DEF CanDeplete
<1>3. new \in Limit
  BY <1>1, <1>2 DEF Limit
<1>4. Buffer(new, t) = Lesser(new.stored, new.cap)
  BY <1>1, <1>3, BufferNow
<1>5. new.stored = Buffer(b, t) - n /\ new.cap = b.cap
  BY <1>1
<1>6. b.cap \in Nat /\ Buffer(b, t) - n <= b.cap
  BY <1>2 DEF Limit
<1>7. Buffer(new, t) = Buffer(b, t) - n
  BY <1>2, <1>4, <1>5, <1>6 DEF Lesser
<1> QED
  BY <1>1, <1>3, <1>7

(* RateLimited.sol:63-68.  What is computed when it is asked for is what would *)
(* have come in second after second.                                          *)
LEMMA BufferRefill ==
  ASSUME NEW b \in Limit, NEW t \in Nat, t >= b.last
  PROVE  Buffer(b, t + 1) = Lesser(Buffer(b, t) + b.rate, b.cap)
<1> DEFINE accrued == b.rate * (t - b.last)
<1>1. accrued \in Nat
  BY AccruedType
<1>2. b.stored \in Nat /\ b.cap \in Nat /\ b.rate \in Nat /\ b.last \in Nat
  BY DEF Limit
<1>3. b.rate * ((t + 1) - b.last) = accrued + b.rate
  <2>1. \A r, m, n \in Int : r * ((m + 1) - n) = r * (m - n) + r
    BY Z3
  <2>2. b.rate \in Int /\ t \in Int /\ b.last \in Int
    BY <1>2
  <2>3. b.rate * ((t + 1) - b.last) = b.rate * (t - b.last) + b.rate
    BY <2>1, <2>2, Zenon
  <2> QED
    BY <2>3
<1> HIDE DEF accrued
<1>4. Lesser(b.stored + (accrued + b.rate), b.cap)
        = Lesser(Lesser(b.stored + accrued, b.cap) + b.rate, b.cap)
  BY <1>1, <1>2 DEF Lesser
<1> QED
  BY <1>3, <1>4 DEF Buffer, accrued

(* RateLimited.sol:122-129.  A new cap cuts off what exceeds it. *)
LEMMA SetCapCuts ==
  ASSUME NEW b \in Limit, NEW t \in Nat, t >= b.last, NEW c \in Nat
  PROVE  SetCap(b, t, c).cap = c /\ Buffer(SetCap(b, t, c), t) = Lesser(Buffer(b, t), c)
<1> DEFINE new == SetCap(b, t, c)
<1>1. new = [stored |-> Buffer(b, t), cap |-> c, rate |-> b.rate, last |-> t]
  BY UpdatedType DEF SetCap
<1>2. new \in Limit
  BY SetCapType
<1>3. Buffer(new, t) = Lesser(new.stored, new.cap)
  BY <1>1, <1>2, BufferNow
<1> QED
  BY <1>1, <1>3

(* RateLimited.sol:51-56. *)
LEMMA SetRateCap ==
  ASSUME NEW b \in Limit, NEW t \in Nat, t >= b.last, NEW r \in Nat
  PROVE  SetRate(b, t, r).cap = b.cap
BY UpdatedType DEF SetRate
=============================================================================
