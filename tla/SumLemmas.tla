------------------------------ MODULE SumLemmas ------------------------------
(***************************************************************************)
(* Facts about SumFunction, the sum of a function's values over its finite  *)
(* domain, in which the counters of the models are stated: what a change    *)
(* at one place does to it, that the order of its elements does not         *)
(* matter, and how it grows with the domain.  SumFunction is defined by     *)
(* recursion over the subsets of the domain.  The library's induction       *)
(* theorems have an operator parameter; the proofs here take a smallest     *)
(* counterexample instead, which WFMin yields for sets, as it yields the    *)
(* largest and the smallest of a finite set of numbers.                     *)
(***************************************************************************)
EXTENDS Integers, FiniteSets, Functions, FiniteSetTheorems,
        WellFoundedInduction, TLAPS

\* The element that the fold takes next from the set U.
Taken(U) == CHOOSE x \in U : TRUE

Beyond(U) == U \ {Taken(U)}

\* One step of the recursion, and what it is to be a sum over subsets of S.
SumStep(s, f, U) == IF U = {} THEN 0 ELSE f[Taken(U)] + s[Beyond(U)]

IsSumOf(s, f, S) == s = [U \in SUBSET S |-> SumStep(s, f, U)]

Partial(f) == CHOOSE s : IsSumOf(s, f, DOMAIN f)

-----------------------------------------------------------------------------
\* The element taken out of a set is one of it.
LEMMA TakenIn ==
    ASSUME NEW U, U # {}
    PROVE  Taken(U) \in U
  BY DEF Taken

\* Any family of subsets of a finite set has a smallest member.
LEMMA SmallestSet ==
    ASSUME NEW S, IsFiniteSet(S), NEW T, T \subseteq SUBSET S, T # {}
    PROVE  \E U \in T : \A V \in T : V \subseteq U => V = U
<1>1. T \subseteq FiniteSubsetsOf(S)
  BY FS_Subset DEF FiniteSubsetsOf
<1>2. PICK U \in T : \A V \in T : ~ (<<V, U>> \in StrictSubsetOrdering(S))
  BY <1>1, FS_StrictSubsetOrderingWellFounded, WFMin
<1>3. \A V \in T : V \subseteq U => V = U
  BY <1>2 DEF StrictSubsetOrdering
<1> QED
  BY <1>3

\* SumFunction unfolds to the recursion.
LEMMA SumIsPartial ==
    ASSUME NEW f
    PROVE  SumFunction(f) = Partial(f)[DOMAIN f]
  BY DEF SumFunction, SumFunctionOnSet, FoldFunctionOnSet, MapThenFoldSet,
         Partial, IsSumOf, SumStep, Beyond, Taken

\* What a sum is at a set.
LEMMA SumAt ==
    ASSUME NEW s, NEW f, NEW S, IsSumOf(s, f, S), NEW U, U \subseteq S
    PROVE  /\ U = {} => s[U] = 0
           /\ U # {} => s[U] = f[Taken(U)] + s[Beyond(U)]
  BY DEF IsSumOf, SumStep

\* Two sums of the same function agree where both are defined.
LEMMA SumsAgree ==
    ASSUME NEW f, NEW s, NEW A, IsFiniteSet(A), IsSumOf(s, f, A),
           NEW t, NEW B, IsSumOf(t, f, B),
           NEW V, V \subseteq A, V \subseteq B
    PROVE  s[V] = t[V]
<1> DEFINE T == {U \in SUBSET A : U \subseteq B /\ s[U] # t[U]}
<1>1. SUFFICES ASSUME T # {} PROVE FALSE
  OBVIOUS
<1>2. PICK U \in T : \A W \in T : W \subseteq U => W = U
  <2> HIDE DEF T
  <2>1. T \subseteq SUBSET A
    BY DEF T
  <2> QED
    BY <1>1, <2>1, SmallestSet
<1>3. U # {}
  BY SumAt
<1>4. Taken(U) \in U
  BY <1>3, TakenIn
<1>5. Beyond(U) \subseteq U /\ Beyond(U) # U
  BY <1>4 DEF Beyond
<1>6. s[Beyond(U)] = t[Beyond(U)]
  BY <1>2, <1>5
<1>7. s[U] = f[Taken(U)] + s[Beyond(U)] /\ t[U] = f[Taken(U)] + t[Beyond(U)]
  BY <1>3, SumAt
<1> QED
  BY <1>6, <1>7

\* The recursion has a solution.
LEMMA SumExists ==
    ASSUME NEW f, NEW S, IsFiniteSet(S)
    PROVE  \E s : IsSumOf(s, f, S)
<1> DEFINE T == {U \in SUBSET S : ~ \E s : IsSumOf(s, f, U)}
<1>1. SUFFICES ASSUME T # {} PROVE FALSE
  OBVIOUS
<1>2. PICK U \in T : \A W \in T : W \subseteq U => W = U
  <2> HIDE DEF T
  <2>1. T \subseteq SUBSET S
    BY DEF T
  <2> QED
    BY <1>1, <2>1, SmallestSet
<1> DEFINE g == [x \in U |-> CHOOSE s : IsSumOf(s, f, U \ {x})]
           h == [V \in SUBSET U |-> IF V = {} THEN 0
                                    ELSE f[Taken(V)] + g[Taken(V)][Beyond(V)]]
<1>3. ASSUME NEW x \in U
      PROVE  IsSumOf(g[x], f, U \ {x})
  BY <1>2
<1>4. ASSUME NEW V \in SUBSET U, V # {}
      PROVE  g[Taken(V)][Beyond(V)] = h[Beyond(V)]
  <2>1. Taken(V) \in U /\ Beyond(V) \subseteq U \ {Taken(V)}
    BY <1>4, TakenIn DEF Beyond
  <2> DEFINE W == Beyond(V)
  <2>2. IsSumOf(g[Taken(V)], f, U \ {Taken(V)})
    BY <2>1, <1>3
  <2>3. CASE W = {}
    <3>1. g[Taken(V)][W] = 0
      BY <2>1, <2>2, <2>3, SumAt
    <3> QED
      BY <3>1, <2>3
  <2>4. CASE W # {}
    <3>1. Taken(W) \in W /\ Beyond(W) \subseteq W
      BY <2>4, TakenIn DEF Beyond
    <3>2. Taken(W) \in U /\ Beyond(W) \subseteq U \ {Taken(W)}
      BY <2>1, <3>1 DEF Beyond
    <3>3. IsSumOf(g[Taken(W)], f, U \ {Taken(W)})
      BY <3>2, <1>3
    <3>4. Beyond(W) \subseteq U \ {Taken(V)}
      BY <2>1, <3>1
    <3>5. IsFiniteSet(U \ {Taken(V)})
      BY FS_Subset
    <3>6. g[Taken(V)][Beyond(W)] = g[Taken(W)][Beyond(W)]
      <4> HIDE DEF g, W
      <4> QED
        BY <2>2, <3>2, <3>3, <3>4, <3>5, SumsAgree
    <3>7. g[Taken(V)][W] = f[Taken(W)] + g[Taken(V)][Beyond(W)]
      <4> HIDE DEF g
      <4> QED
        BY <2>1, <2>2, <2>4, SumAt
    <3>8. h[W] = f[Taken(W)] + g[Taken(W)][Beyond(W)]
      <4> HIDE DEF g
      <4> QED
        BY <2>1, <2>4
    <3> QED
      BY <3>6, <3>7, <3>8
  <2> QED
    BY <2>3, <2>4
<1>5. IsSumOf(h, f, U)
  <2> HIDE DEF g
  <2>1. \A V \in SUBSET U : h[V] = SumStep(h, f, V)
    <3> SUFFICES ASSUME NEW V \in SUBSET U
                 PROVE  h[V] = SumStep(h, f, V)
      OBVIOUS
    <3>1. CASE V = {}
      BY <3>1 DEF SumStep
    <3>2. CASE V # {}
      BY <3>2, <1>4 DEF SumStep
    <3> QED
      BY <3>1, <3>2
  <2>2. h = [V \in SUBSET U |-> h[V]]
    OBVIOUS
  <2>3. [V \in SUBSET U |-> h[V]] = [V \in SUBSET U |-> SumStep(h, f, V)]
    <3> HIDE DEF h
    <3> QED
      BY <2>1
  <2> QED
    <3> HIDE DEF h
    <3> QED
      BY <2>2, <2>3 DEF IsSumOf
<1> QED
  BY <1>5

\* Partial is a function that sums f over the subsets of its domain.
LEMMA PartialIsSum ==
    ASSUME NEW f, IsFiniteSet(DOMAIN f)
    PROVE  IsSumOf(Partial(f), f, DOMAIN f)
  BY SumExists DEF Partial

\* The sum of a function over a subset of its domain, by the same recursion.
LEMMA PartialAt ==
    ASSUME NEW f, IsFiniteSet(DOMAIN f), NEW U, U \subseteq DOMAIN f
    PROVE  /\ U = {} => Partial(f)[U] = 0
           /\ U # {} => Partial(f)[U] = f[Taken(U)] + Partial(f)[Beyond(U)]
  BY PartialIsSum, SumAt

-----------------------------------------------------------------------------
\* A sum of integers is one.
LEMMA SumIsInt ==
    ASSUME NEW S, IsFiniteSet(S), NEW f \in [S -> Int]
    PROVE  SumFunction(f) \in Int
<1> DEFINE T == {U \in SUBSET S : Partial(f)[U] \notin Int}
<1>1. SUFFICES ASSUME T # {} PROVE FALSE
  BY SumIsPartial
<1>2. PICK U \in T : \A W \in T : W \subseteq U => W = U
  <2> HIDE DEF T
  <2>1. T \subseteq SUBSET S
    BY DEF T
  <2> QED
    BY <1>1, <2>1, SmallestSet
<1>3. U # {}
  <2>1. U = {} => Partial(f)[U] = 0
    BY PartialAt
  <2> QED
    BY <2>1
<1>4. Taken(U) \in U /\ Beyond(U) \subseteq U /\ Beyond(U) # U
  BY <1>3, TakenIn DEF Beyond
<1>5. Partial(f)[Beyond(U)] \in Int
  BY <1>2, <1>4
<1>6. Partial(f)[U] = f[Taken(U)] + Partial(f)[Beyond(U)]
  BY <1>3, PartialAt
<1>7. f[Taken(U)] \in Int
  BY <1>4
<1> QED
  BY <1>5, <1>6, <1>7

\* A sum of natural numbers is one.
LEMMA SumIsNat ==
    ASSUME NEW S, IsFiniteSet(S), NEW f \in [S -> Nat]
    PROVE  SumFunction(f) \in Nat
<1> DEFINE T == {U \in SUBSET S : Partial(f)[U] \notin Nat}
<1>1. SUFFICES ASSUME T # {} PROVE FALSE
  BY SumIsPartial
<1>2. PICK U \in T : \A W \in T : W \subseteq U => W = U
  <2> HIDE DEF T
  <2>1. T \subseteq SUBSET S
    BY DEF T
  <2> QED
    BY <1>1, <2>1, SmallestSet
<1>3. U # {}
  <2>1. U = {} => Partial(f)[U] = 0
    BY PartialAt
  <2> QED
    BY <2>1
<1>4. Taken(U) \in U /\ Beyond(U) \subseteq U /\ Beyond(U) # U
  BY <1>3, TakenIn DEF Beyond
<1>5. Partial(f)[Beyond(U)] \in Nat
  BY <1>2, <1>4
<1>6. Partial(f)[U] = f[Taken(U)] + Partial(f)[Beyond(U)]
  BY <1>3, PartialAt
<1>7. f[Taken(U)] \in Nat
  BY <1>4
<1> QED
  BY <1>5, <1>6, <1>7

\* A sum changes by what the function changes at the one place where it does.
LEMMA SumUpdate ==
    ASSUME NEW S, IsFiniteSet(S), NEW f \in [S -> Int], NEW g \in [S -> Int],
           NEW x \in S, \A y \in S \ {x} : g[y] = f[y]
    PROVE  SumFunction(g) = SumFunction(f) + g[x] - f[x]
<1> DEFINE Shift(U) == IF x \in U THEN g[x] - f[x] ELSE 0
           T == {U \in SUBSET S : ~ /\ Partial(f)[U] \in Int
                                    /\ Partial(g)[U] = Partial(f)[U] + Shift(U)}
<1>1. SUFFICES ASSUME T # {} PROVE FALSE
  <2>1. Partial(f)[S] \in Int /\ Partial(g)[S] = Partial(f)[S] + (g[x] - f[x])
    BY <1>1
  <2>2. f[x] \in Int /\ g[x] \in Int
    OBVIOUS
  <2>3. SumFunction(f) = Partial(f)[S] /\ SumFunction(g) = Partial(g)[S]
    BY SumIsPartial
  <2> QED
    BY <2>1, <2>2, <2>3
<1>2. PICK U \in T : \A W \in T : W \subseteq U => W = U
  <2> HIDE DEF T
  <2>1. T \subseteq SUBSET S
    BY DEF T
  <2> QED
    BY <1>1, <2>1, SmallestSet
<1>3. U # {}
  BY PartialAt
<1>4. Taken(U) \in U /\ Beyond(U) = U \ {Taken(U)}
  BY <1>3, TakenIn DEF Beyond
<1>5. Partial(f)[Beyond(U)] \in Int /\ Partial(g)[Beyond(U)] = Partial(f)[Beyond(U)] + Shift(Beyond(U))
  BY <1>2, <1>4
<1>6. /\ Partial(f)[U] = f[Taken(U)] + Partial(f)[Beyond(U)]
      /\ Partial(g)[U] = g[Taken(U)] + Partial(g)[Beyond(U)]
  BY <1>3, PartialAt
<1>7. f[Taken(U)] \in Int /\ g[Taken(U)] \in Int /\ f[x] \in Int /\ g[x] \in Int
  BY <1>4
<1>8. CASE Taken(U) = x
  BY <1>4, <1>5, <1>6, <1>7, <1>8
<1>9. CASE Taken(U) # x
  <2>1. g[Taken(U)] = f[Taken(U)]
    BY <1>4, <1>9
  <2>2. x \in U <=> x \in Beyond(U)
    BY <1>4, <1>9
  <2>3. Shift(U) = Shift(Beyond(U)) /\ Shift(U) \in Int
    BY <1>7, <2>2
  <2> QED
    BY <1>5, <1>6, <1>7, <2>1, <2>3
<1> QED
  BY <1>8, <1>9

\* Nothing adds up to nothing.
LEMMA SumOfZero ==
    ASSUME NEW S, IsFiniteSet(S), NEW f \in [S -> Int], \A x \in S : f[x] = 0
    PROVE  SumFunction(f) = 0
<1> DEFINE T == {U \in SUBSET S : Partial(f)[U] # 0}
<1>1. SUFFICES ASSUME T # {} PROVE FALSE
  BY SumIsPartial
<1>2. PICK U \in T : \A W \in T : W \subseteq U => W = U
  <2> HIDE DEF T
  <2>1. T \subseteq SUBSET S
    BY DEF T
  <2> QED
    BY <1>1, <2>1, SmallestSet
<1>3. U # {}
  BY PartialAt
<1>4. Taken(U) \in U /\ Beyond(U) \subseteq U /\ Beyond(U) # U
  BY <1>3, TakenIn DEF Beyond
<1>5. Partial(f)[Beyond(U)] = 0
  BY <1>2, <1>4
<1> QED
  BY <1>3, <1>4, <1>5, PartialAt

\* No summand exceeds the sum.
LEMMA SumAtLeast ==
    ASSUME NEW S, IsFiniteSet(S), NEW f \in [S -> Nat], NEW x \in S
    PROVE  f[x] <= SumFunction(f)
<1> DEFINE g == [f EXCEPT ![x] = 0]
<1>1. g \in [S -> Nat] /\ g[x] = 0 /\ \A y \in S \ {x} : f[y] = g[y]
  OBVIOUS
<1>2. f \in [S -> Int] /\ g \in [S -> Int]
  BY <1>1
<1> HIDE DEF g
<1>3. SumFunction(f) = SumFunction(g) + f[x] - g[x]
  BY <1>1, <1>2, SumUpdate
<1>4. SumFunction(g) \in Nat /\ f[x] \in Nat
  BY <1>1, SumIsNat
<1> QED
  BY <1>1, <1>3, <1>4

-----------------------------------------------------------------------------
\* The order of summation does not matter: any element may be taken first.
LEMMA SumAnyOrder ==
    ASSUME NEW S, IsFiniteSet(S), NEW f \in [S -> Int], NEW V \in SUBSET S, NEW v \in V
    PROVE  /\ Partial(f)[V] \in Int
           /\ Partial(f)[V \ {v}] \in Int
           /\ Partial(f)[V] = f[v] + Partial(f)[V \ {v}]
<1> DEFINE T == {U \in SUBSET S : ~ /\ Partial(f)[U] \in Int
                                    /\ \A x \in U : Partial(f)[U] = f[x] + Partial(f)[U \ {x}]}
<1>1. ASSUME T # {} PROVE FALSE
  <2>1. PICK U \in T : \A W \in T : W \subseteq U => W = U
    <3>1. T \subseteq SUBSET S
      OBVIOUS
    <3> HIDE DEF T
    <3> QED
      BY <1>1, <3>1, SmallestSet
  <2>2. U \subseteq S
    OBVIOUS
  <2>3. ASSUME NEW x \in U
        PROVE  /\ Partial(f)[U \ {x}] \in Int
               /\ \A y \in U \ {x} : Partial(f)[U \ {x}] = f[y] + Partial(f)[(U \ {x}) \ {y}]
    <3>1. U \ {x} \subseteq U /\ U \ {x} # U /\ U \ {x} \in SUBSET S
      BY <2>2
    <3> QED
      BY <2>1, <3>1
  <2>4. U # {}
    <3>1. U = {} => Partial(f)[U] = 0
      BY <2>2, PartialAt
    <3> QED
      BY <3>1
  <2>5. PICK t : t = Taken(U)
    OBVIOUS
  <2>6. t \in U /\ Partial(f)[U] = f[t] + Partial(f)[U \ {t}]
    BY <2>2, <2>4, <2>5, TakenIn, PartialAt DEF Beyond
  <2>7. Partial(f)[U] \in Int
    <3>1. f[t] \in Int /\ Partial(f)[U \ {t}] \in Int
      BY <2>2, <2>3, <2>6
    <3> QED
      BY <2>6, <3>1
  <2>8. ASSUME NEW x \in U PROVE Partial(f)[U] = f[x] + Partial(f)[U \ {x}]
    <3>1. CASE x = t
      BY <2>6, <3>1
    <3>2. CASE x # t
      <4>1. Partial(f)[U \ {t}] = f[x] + Partial(f)[(U \ {t}) \ {x}]
        BY <2>3, <2>6, <3>2
      <4>2. Partial(f)[U \ {x}] = f[t] + Partial(f)[(U \ {x}) \ {t}]
        BY <2>3, <2>6, <3>2
      <4>3. (U \ {t}) \ {x} = (U \ {x}) \ {t}
        OBVIOUS
      <4>4. PICK a, b, c : a = Partial(f)[U \ {t}] /\ b = Partial(f)[U \ {x}] /\ c = Partial(f)[(U \ {x}) \ {t}]
        OBVIOUS
      <4>5. a \in Int /\ b \in Int
        BY <2>3, <2>6, <4>4
      <4>6. c \in Int
        <5>1. (U \ {x}) \ {t} \in SUBSET S /\ (U \ {x}) \ {t} \subseteq U /\ (U \ {x}) \ {t} # U
          BY <2>2
        <5> QED
          BY <2>1, <4>4, <5>1
      <4>7. f[x] \in Int /\ f[t] \in Int
        BY <2>2, <2>6
      <4>8. a = f[x] + c /\ b = f[t] + c /\ Partial(f)[U] = f[t] + a
        BY <2>6, <4>1, <4>2, <4>3, <4>4
      <4>9. Partial(f)[U] = f[x] + b
        BY ONLY <4>5, <4>6, <4>7, <4>8
      <4> QED
        BY <4>4, <4>9
    <3> QED
      BY <3>1, <3>2
  <2> QED
    BY <2>7, <2>8
<1>2. \A U \in SUBSET S : /\ Partial(f)[U] \in Int
                          /\ \A x \in U : Partial(f)[U] = f[x] + Partial(f)[U \ {x}]
  BY <1>1
<1>3. V \ {v} \in SUBSET S
  OBVIOUS
<1> QED
  BY <1>2, <1>3

\* Functions that agree on a set have the same sum over it.
LEMMA SumsOfEquals ==
    ASSUME NEW S, IsFiniteSet(S), NEW R, IsFiniteSet(R), S \subseteq R,
           NEW f \in [S -> Int], NEW g \in [R -> Int], \A x \in S : g[x] = f[x]
    PROVE  Partial(g)[S] = SumFunction(f)
<1> DEFINE T == {U \in SUBSET S : Partial(g)[U] # Partial(f)[U]}
<1>1. SUFFICES ASSUME T # {} PROVE FALSE
  BY SumIsPartial
<1>2. PICK U \in T : \A W \in T : W \subseteq U => W = U
  <2>1. T \subseteq SUBSET S
    OBVIOUS
  <2> HIDE DEF T
  <2> QED
    BY <1>1, <2>1, SmallestSet
<1>3. U \subseteq S /\ U \subseteq R
  OBVIOUS
<1>4. U # {}
  BY <1>3, PartialAt
<1>5. PICK t : t = Taken(U)
  OBVIOUS
<1>6. /\ t \in U
      /\ Partial(f)[U] = f[t] + Partial(f)[U \ {t}]
      /\ Partial(g)[U] = g[t] + Partial(g)[U \ {t}]
  BY <1>3, <1>4, <1>5, TakenIn, PartialAt DEF Beyond
<1>7. Partial(g)[U \ {t}] = Partial(f)[U \ {t}]
  BY <1>2, <1>3, <1>6
<1> QED
  BY <1>3, <1>6, <1>7

\* A sum grows by what the function is at a new place.
LEMMA SumGrows ==
    ASSUME NEW S, IsFiniteSet(S), NEW x, x \notin S,
           NEW f \in [S -> Int], NEW g \in [S \cup {x} -> Int], \A y \in S : g[y] = f[y]
    PROVE  SumFunction(g) = SumFunction(f) + g[x]
<1> DEFINE R == S \cup {x}
<1>1. IsFiniteSet(R) /\ S \subseteq R /\ x \in R /\ R \ {x} = S /\ g \in [R -> Int]
  BY FS_AddElement
<1>2. Partial(g)[S] = SumFunction(f)
  <2> HIDE DEF R
  <2> QED
    BY <1>1, SumsOfEquals
<1>3. Partial(g)[R] = g[x] + Partial(g)[S] /\ Partial(g)[S] \in Int
  <2> HIDE DEF R
  <2>1. R \in SUBSET R
    OBVIOUS
  <2> QED
    BY <1>1, <2>1, SumAnyOrder
<1>4. SumFunction(g) = Partial(g)[R]
  BY SumIsPartial
<1>5. g[x] \in Int
  OBVIOUS
<1> QED
  BY <1>2, <1>3, <1>4, <1>5

\* A sum does not depend on what the places are called.
LEMMA SumMoved ==
    ASSUME NEW S, IsFiniteSet(S), NEW R, IsFiniteSet(R),
           NEW f \in [S -> Int], NEW g \in [R -> Int], NEW b \in [S -> R],
           \A x, y \in S : b[x] = b[y] => x = y,
           \A z \in R : \E x \in S : b[x] = z,
           \A x \in S : g[b[x]] = f[x]
    PROVE  SumFunction(g) = SumFunction(f)
<1> DEFINE Image(U) == {b[x] : x \in U}
           T == {U \in SUBSET S : Partial(g)[Image(U)] # Partial(f)[U]}
<1>1. SUFFICES ASSUME T # {} PROVE FALSE
  <2>1. Image(S) = R
    OBVIOUS
  <2>2. SumFunction(g) = Partial(g)[R] /\ SumFunction(f) = Partial(f)[S]
    BY SumIsPartial
  <2>3. T = {} => Partial(g)[Image(S)] = Partial(f)[S]
    OBVIOUS
  <2> HIDE DEF Image, T
  <2> QED
    BY <2>1, <2>2, <2>3
<1>2. PICK U \in T : \A W \in T : W \subseteq U => W = U
  <2>1. T \subseteq SUBSET S
    OBVIOUS
  <2> HIDE DEF T
  <2> QED
    BY <1>1, <2>1, SmallestSet
<1>3. U \subseteq S /\ Image(U) \subseteq R
  OBVIOUS
<1>4. U # {}
  <2>1. U = {} => Image(U) = {}
    OBVIOUS
  <2>2. Partial(g)[{}] = 0 /\ Partial(f)[{}] = 0
    <3>1. DOMAIN f = S /\ DOMAIN g = R /\ {} \in SUBSET S /\ {} \in SUBSET R
      OBVIOUS
    <3>2. IsFiniteSet(DOMAIN f) /\ IsFiniteSet(DOMAIN g)
      BY <3>1
    <3>3. {} \subseteq DOMAIN f /\ {} \subseteq DOMAIN g
      OBVIOUS
    <3>4. Partial(f)[{}] = 0
      BY ONLY <3>2, <3>3, PartialAt
    <3>5. Partial(g)[{}] = 0
      BY ONLY <3>2, <3>3, PartialAt
    <3> QED
      BY <3>4, <3>5
  <2>3. Partial(g)[Image(U)] # Partial(f)[U]
    OBVIOUS
  <2> HIDE DEF Image, T
  <2> QED
    BY <2>1, <2>2, <2>3
<1>5. PICK t : t \in U
  BY <1>4
<1>6. Partial(f)[U] = f[t] + Partial(f)[U \ {t}]
  BY <1>3, <1>5, SumAnyOrder
<1>7. b[t] \in Image(U) /\ Image(U) \in SUBSET R
  BY <1>3, <1>5
<1>8. Partial(g)[Image(U)] = g[b[t]] + Partial(g)[Image(U) \ {b[t]}]
  <2> HIDE DEF Image
  <2> QED
    BY <1>7, SumAnyOrder
<1>9. Image(U) \ {b[t]} = Image(U \ {t})
  BY <1>3, <1>5
<1>10. Partial(g)[Image(U \ {t})] = Partial(f)[U \ {t}]
  <2>1. PICK W : W = U \ {t}
    OBVIOUS
  <2>2. W \in SUBSET S /\ W \subseteq U /\ W # U
    BY <1>3, <1>5, <2>1
  <2>3. W \notin T
    BY <1>2, <2>2
  <2>4. Partial(g)[Image(W)] = Partial(f)[W]
    BY <2>2, <2>3
  <2> QED
    BY <2>1, <2>4
<1>11. g[b[t]] = f[t]
  BY <1>3, <1>5
<1>12. Partial(g)[Image(U)] # Partial(f)[U]
  OBVIOUS
<1> HIDE DEF Image, T
<1> QED
  BY <1>6, <1>8, <1>9, <1>10, <1>11, <1>12

\* The sum of a sequence with one more at its end, and with one more in front.
LEMMA SumAtEnd ==
    ASSUME NEW n \in Nat, NEW f, f \in [1 .. n -> Int], NEW g, g \in [1 .. n + 1 -> Int],
           \A i \in 1 .. n : g[i] = f[i]
    PROVE  SumFunction(g) = SumFunction(f) + g[n + 1]
<1>1. PICK D, x : D = 1 .. n /\ x = n + 1
  OBVIOUS
<1>2. 1 .. n + 1 = D \cup {x} /\ x \notin D
  BY <1>1
<1>3. IsFiniteSet(D)
  BY <1>1, FS_Interval
<1>4. x \notin D /\ f \in [D -> Int] /\ g \in [D \cup {x} -> Int] /\ \A y \in D : g[y] = f[y]
  BY <1>1, <1>2
<1>5. SumFunction(g) = SumFunction(f) + g[x]
  BY ONLY <1>3, <1>4, SumGrows
<1> QED
  BY <1>1, <1>5

LEMMA SumAtFront ==
    ASSUME NEW n \in Nat, NEW f, f \in [1 .. n -> Int], NEW h, h \in [1 .. n + 1 -> Int],
           \A i \in 1 .. n : h[i + 1] = f[i]
    PROVE  SumFunction(h) = h[1] + SumFunction(f)
<1>1. PICK D, R, x : D = 1 .. n /\ R = 2 .. n + 1 /\ x = 1
  OBVIOUS
<1>2. 1 .. n + 1 = R \cup {x} /\ x \notin R
  BY <1>1
<1>3. IsFiniteSet(D) /\ IsFiniteSet(R)
  <2>1. 1 \in Int /\ 2 \in Int /\ n \in Int /\ n + 1 \in Int
    OBVIOUS
  <2> QED
    BY ONLY <1>1, <2>1, FS_Interval
<1>4. PICK g : g = [i \in R |-> h[i]]
  OBVIOUS
<1>5. x \notin R /\ g \in [R -> Int] /\ h \in [R \cup {x} -> Int] /\ \A y \in R : h[y] = g[y]
  BY <1>2, <1>4
<1>6. SumFunction(h) = SumFunction(g) + h[x]
  BY ONLY <1>3, <1>5, SumGrows
<1>7. PICK b : b = [i \in D |-> i + 1]
  OBVIOUS
<1>8. b \in [D -> R] /\ \A y, z \in D : b[y] = b[z] => y = z
  BY <1>1, <1>7
<1>9. ASSUME NEW z \in R PROVE \E y \in D : b[y] = z
  <2>1. z - 1 \in D /\ (z - 1) + 1 = z
    BY <1>1
  <2> QED
    BY <1>7, <2>1
<1>10. ASSUME NEW y \in D PROVE g[b[y]] = f[y]
  <2>1. b[y] = y + 1 /\ y + 1 \in R /\ h[y + 1] = f[y]
    BY <1>1, <1>7
  <2> QED
    BY <1>4, <2>1
<1>11. f \in [D -> Int]
  BY <1>1
<1>12. SumFunction(g) = SumFunction(f)
  BY ONLY <1>3, <1>5, <1>8, <1>9, <1>10, <1>11, SumMoved
<1>13. SumFunction(g) \in Int /\ h[1] \in Int
  <2>1. SumFunction(g) \in Int
    BY ONLY <1>3, <1>5, SumIsInt
  <2>2. 1 \in 1 .. n + 1
    OBVIOUS
  <2> QED
    BY <2>1, <2>2
<1> QED
  BY <1>1, <1>6, <1>12, <1>13

-----------------------------------------------------------------------------
\* A finite set of integers has a least and a greatest element.
LEMMA Extremes ==
    ASSUME NEW S, IsFiniteSet(S)
    PROVE  S \subseteq Int /\ S # {} => /\ \E x \in S : \A y \in S : x <= y
                                       /\ \E x \in S : \A y \in S : x >= y
<1>1. ASSUME S \subseteq Int, S # {}, ~ \E x \in S : \A y \in S : x <= y
      PROVE  FALSE
  <2> DEFINE T == {U \in SUBSET S : U # {} /\ ~ \E x \in U : \A y \in U : x <= y}
  <2>1. T \subseteq SUBSET S /\ T # {}
    BY <1>1
  <2>2. PICK U \in T : \A V \in T : V \subseteq U => V = U
    <3> HIDE DEF T
    <3> QED
      BY <2>1, SmallestSet
  <2>3. U \subseteq S /\ U # {} /\ ~ \E x \in U : \A y \in U : x <= y
    OBVIOUS
  <2>4. PICK z \in U : TRUE
    BY <2>3
  <2>5. U \ {z} \notin T
    BY <2>2, <2>4
  <2>6. U \ {z} = {} \/ \E x \in U \ {z} : \A y \in U \ {z} : x <= y
    BY <2>5, <2>3
  <2>7. \A y \in U : y \in Int
    BY <1>1, <2>3
  <2>8. CASE U \ {z} = {}
    BY <2>8, <2>3, <2>4, <2>7
  <2>9. CASE \E x \in U \ {z} : \A y \in U \ {z} : x <= y
    <3>1. PICK x \in U \ {z} : \A y \in U \ {z} : x <= y
      BY <2>9
    <3>2. CASE x <= z
      BY <3>1, <3>2, <2>3, <2>7
    <3>3. CASE z <= x
      BY <3>1, <3>3, <2>3, <2>4, <2>7
    <3> QED
      BY <3>1, <3>2, <3>3, <2>4, <2>7
  <2> QED
    BY <2>6, <2>8, <2>9
<1>2. ASSUME S \subseteq Int, S # {}, ~ \E x \in S : \A y \in S : x >= y
      PROVE  FALSE
  <2> DEFINE T == {U \in SUBSET S : U # {} /\ ~ \E x \in U : \A y \in U : x >= y}
  <2>1. T \subseteq SUBSET S /\ T # {}
    BY <1>2
  <2>2. PICK U \in T : \A V \in T : V \subseteq U => V = U
    <3> HIDE DEF T
    <3> QED
      BY <2>1, SmallestSet
  <2>3. U \subseteq S /\ U # {} /\ ~ \E x \in U : \A y \in U : x >= y
    OBVIOUS
  <2>4. PICK z \in U : TRUE
    BY <2>3
  <2>5. U \ {z} \notin T
    BY <2>2, <2>4
  <2>6. U \ {z} = {} \/ \E x \in U \ {z} : \A y \in U \ {z} : x >= y
    BY <2>5, <2>3
  <2>7. \A y \in U : y \in Int
    BY <1>2, <2>3
  <2>8. CASE U \ {z} = {}
    BY <2>8, <2>3, <2>4, <2>7
  <2>9. CASE \E x \in U \ {z} : \A y \in U \ {z} : x >= y
    <3>1. PICK x \in U \ {z} : \A y \in U \ {z} : x >= y
      BY <2>9
    <3>2. CASE x >= z
      BY <3>1, <3>2, <2>3, <2>7
    <3>3. CASE z >= x
      BY <3>1, <3>3, <2>3, <2>4, <2>7
    <3> QED
      BY <3>1, <3>2, <3>3, <2>4, <2>7
  <2> QED
    BY <2>6, <2>8, <2>9
<1> QED
  BY <1>1, <1>2

\* A set of natural numbers has a least one.
LEMMA Least ==
    ASSUME NEW T, T \subseteq Nat, T # {}
    PROVE  \E m \in T : \A k \in T : m <= k
<1>1. PICK N \in T : TRUE
  OBVIOUS
<1> DEFINE L == {1 .. m : m \in {k \in T : k <= N}}
<1>2. IsFiniteSet(1 .. N)
  BY <1>1, FS_Interval
<1>3. L \subseteq SUBSET (1 .. N) /\ L # {}
  BY <1>1
<1>4. PICK U \in L : \A V \in L : V \subseteq U => V = U
  <2> DEFINE S == 1 .. N
  <2>1. IsFiniteSet(S) /\ L \subseteq SUBSET S /\ L # {}
    BY <1>2, <1>3
  <2> HIDE DEF L, S
  <2> QED
    BY <2>1, SmallestSet
<1>5. PICK m \in T : m <= N /\ U = 1 .. m
  BY <1>4
<1>6. ASSUME NEW k \in T, k < m
      PROVE  FALSE
  <2>1. 1 .. k \in L /\ 1 .. k \subseteq U
    BY <1>1, <1>5, <1>6
  <2>2. 1 .. k = 1 .. m
    BY <1>4, <1>5, <2>1
  <2>3. m \in 1 .. m /\ m \notin 1 .. k
    BY <1>5, <1>6
  <2> QED
    BY <2>2, <2>3
<1> QED
  BY <1>6
=============================================================================
