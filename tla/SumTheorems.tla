---------------------------- MODULE SumTheorems ----------------------------
(***************************************************************************)
(* What SumFunctionOnSet computes: the sum of f[x] over a finite set of x. *)
(* The other modules total amounts with it (entries of a request, rows of  *)
(* a history, journals of a reservation); decimal.Decimal addition is      *)
(* exact, so these are sums of integers.                                   *)
(*                                                                         *)
(* The community modules define the sum by a recursive function on subsets *)
(* that takes elements in the order CHOOSE gives them.  Every proof by     *)
(* induction below has the same form: among the subsets of a finite set    *)
(* for which the claim fails there would be a least one (LeastSubset).     *)
(***************************************************************************)
EXTENDS Integers, FiniteSets, Functions, FiniteSetTheorems, TLAPS

\* The element the recursion takes first.
First(s) == CHOOSE x \in s : TRUE

\* One step of the recursion, with g for the sums of smaller sets.
SumStep(f, g, s) == IF s = {} THEN 0 ELSE f[First(s)] + g[s \ {First(s)}]

\* g holds the sums of f over the subsets of S.
HoldsSums(g, f, S) == g = [s \in SUBSET S |-> SumStep(f, g, s)]

SumsOf(f, S) == CHOOSE g : HoldsSums(g, f, S)

\* p puts each element of S in a group of I, and g holds the sum of each group.
GroupedBy(p, f, S, g, I) ==
    /\ \A x \in S : p[x] \in I
    /\ \A i \in I : g[i] = SumFunctionOnSet(f, {x \in S : p[x] = i})

-----------------------------------------------------------------------------

\* A non-empty set of subsets of a finite set has a least member: induction
\* over the entries, rows or journals that are summed.
LEMMA LeastSubset ==
    ASSUME NEW S, IsFiniteSet(S), NEW T, T \subseteq SUBSET S, T # {}
    PROVE  \E X \in T : \A Y \in T : Y \subseteq X => Y = X
<1> DEFINE R == StrictSubsetOrdering(S)
<1>1. IsWellFoundedOn(R, SUBSET S)
  BY FS_StrictSubsetOrderingWellFounded, FS_FiniteSubsetsOfFinite
<1>2. \A X, Y \in T : Y \subseteq X /\ Y # X => <<Y, X>> \in R
  BY DEF StrictSubsetOrdering
<1> HIDE DEF R
<1>3. PICK X \in T : \A Y \in T : ~ (<<Y, X>> \in R)
  BY <1>1, WFMin
<1> QED BY <1>2, <1>3

\* The operator of the community modules, by its recursion.
LEMMA SumIsLast ==
    ASSUME NEW f, NEW S
    PROVE  SumFunctionOnSet(f, S) = SumsOf(f, S)[S]
BY DEF SumFunctionOnSet, FoldFunctionOnSet, MapThenFoldSet, SumsOf, HoldsSums, SumStep, First

\* The recursion takes an element of the set.
LEMMA FirstIn ==
    ASSUME NEW s, s # {}
    PROVE  First(s) \in s
BY DEF First

\* The sums over common subsets do not depend on the set they are part of.
LEMMA SumsAgree ==
    ASSUME NEW f, NEW S, IsFiniteSet(S), NEW T \in SUBSET S,
           NEW g, HoldsSums(g, f, S), NEW h, HoldsSums(h, f, T)
    PROVE  \A s \in SUBSET T : g[s] = h[s]
<1> DEFINE Bad == {s \in SUBSET T : g[s] # h[s]}
<1> SUFFICES ASSUME Bad # {} PROVE FALSE
  OBVIOUS
<1>1. PICK s \in Bad : \A t \in Bad : t \subseteq s => t = s
  <2>1. Bad \subseteq SUBSET S
    OBVIOUS
  <2> HIDE DEF Bad
  <2> QED BY <2>1, LeastSubset
<1>2. g[s] = SumStep(f, g, s) /\ h[s] = SumStep(f, h, s)
  BY <1>1 DEF HoldsSums
<1>3. s # {}
  BY <1>1, <1>2 DEF SumStep
<1>4. First(s) \in s
  BY <1>3, FirstIn
<1>5. s \ {First(s)} \in SUBSET T /\ s \ {First(s)} # s
  BY <1>1, <1>4
<1>6. g[s \ {First(s)}] = h[s \ {First(s)}]
  BY <1>1, <1>5
<1> QED BY <1>1, <1>2, <1>6 DEF SumStep

\* The recursion defines a function: the sums over the subsets of a finite
\* set exist.
LEMMA SumsExist ==
    ASSUME NEW f, NEW S, IsFiniteSet(S)
    PROVE  HoldsSums(SumsOf(f, S), f, S)
<1> DEFINE Bad == {X \in SUBSET S : ~ \E g : HoldsSums(g, f, X)}
<1>1. Bad = {}
  <2> SUFFICES ASSUME Bad # {} PROVE FALSE
    OBVIOUS
  <2>1. PICK X \in Bad : \A Y \in Bad : Y \subseteq X => Y = X
    <3>1. Bad \subseteq SUBSET S
      OBVIOUS
    <3> HIDE DEF Bad
    <3> QED BY <3>1, LeastSubset
  <2>2. X \in SUBSET S /\ ~ \E g : HoldsSums(g, f, X)
    BY <2>1
  <2>3. \A Y \in SUBSET X : Y # X => HoldsSums(SumsOf(f, Y), f, Y)
    <3> SUFFICES ASSUME NEW Y \in SUBSET X, Y # X PROVE HoldsSums(SumsOf(f, Y), f, Y)
      OBVIOUS
    <3>1. \E g : HoldsSums(g, f, Y)
      BY <2>1, <2>2
    <3> QED BY <3>1 DEF SumsOf
  <2>4. \A Y \in SUBSET X : IsFiniteSet(Y)
    BY <2>2, FS_Subset
  <2> DEFINE L(s) == SumsOf(f, s)[s]
             G == [s \in SUBSET X |-> IF s = {} THEN 0
                                      ELSE f[First(s)] + L(s \ {First(s)})]
  <2>5. ASSUME NEW s \in SUBSET X, s # X PROVE L(s) = G[s]
    <3>1. HoldsSums(SumsOf(f, s), f, s)
      BY <2>3, <2>5
    <3>2. L(s) = SumStep(f, SumsOf(f, s), s)
      BY <3>1 DEF HoldsSums
    <3>3. CASE s = {}
      BY <3>2, <3>3 DEF SumStep
    <3>4. CASE s # {}
      <4> DEFINE t == s \ {First(s)}
      <4>1. First(s) \in s
        BY <3>4, FirstIn
      <4>2. t \in SUBSET s /\ t \in SUBSET X /\ t # X
        BY <4>1
      <4>3. HoldsSums(SumsOf(f, t), f, t) /\ IsFiniteSet(s)
        BY <2>3, <2>4, <4>2
      <4>4. SumsOf(f, s)[t] = SumsOf(f, t)[t]
        <5> HIDE DEF t
        <5> QED BY <3>1, <4>2, <4>3, SumsAgree
      <4> QED BY <3>2, <3>4, <4>4 DEF SumStep
    <3> QED BY <3>3, <3>4
  <2>6. HoldsSums(G, f, X)
    <3> SUFFICES ASSUME NEW s \in SUBSET X PROVE G[s] = SumStep(f, G, s)
      BY DEF HoldsSums
    <3>1. CASE s = {}
      BY <3>1 DEF SumStep
    <3>2. CASE s # {}
      <4>1. First(s) \in s
        BY <3>2, FirstIn
      <4>2. s \ {First(s)} \in SUBSET X /\ s \ {First(s)} # X
        BY <4>1
      <4>3. L(s \ {First(s)}) = G[s \ {First(s)}]
        BY <2>5, <4>2
      <4> QED BY <3>2, <4>3 DEF SumStep
    <3> QED BY <3>1, <3>2
  <2> QED BY <2>2, <2>6
<1>2. \E g : HoldsSums(g, f, S)
  BY <1>1
<1> QED BY <1>2 DEF SumsOf

-----------------------------------------------------------------------------
(* The rules of summation.                                                 *)

\* The sum over nothing: a row with no entries shows zero.
LEMMA SumEmpty == \A f : SumFunctionOnSet(f, {}) = 0
<1> SUFFICES ASSUME NEW f PROVE SumFunctionOnSet(f, {}) = 0
  OBVIOUS
<1>1. HoldsSums(SumsOf(f, {}), f, {})
  BY SumsExist, FS_EmptySet
<1> QED BY <1>1, SumIsLast DEF HoldsSums, SumStep

\* The defining equation of the sum.
LEMMA SumUnfold ==
    ASSUME NEW f, NEW S, IsFiniteSet(S), S # {}
    PROVE  SumFunctionOnSet(f, S) = f[First(S)] + SumFunctionOnSet(f, S \ {First(S)})
<1> DEFINE T == S \ {First(S)}
<1>1. T \in SUBSET S /\ IsFiniteSet(T)
  BY FS_Subset
<1>2. HoldsSums(SumsOf(f, S), f, S) /\ HoldsSums(SumsOf(f, T), f, T)
  BY <1>1, SumsExist
<1>3. SumsOf(f, S)[S] = f[First(S)] + SumsOf(f, S)[T]
  BY <1>2 DEF HoldsSums, SumStep
<1>4. SumsOf(f, S)[T] = SumsOf(f, T)[T]
  <2> HIDE DEF T
  <2> QED BY <1>1, <1>2, SumsAgree
<1> QED BY <1>3, <1>4, SumIsLast

\* A sum of integers is an integer.
LEMMA SumInt ==
    ASSUME NEW S, IsFiniteSet(S), NEW f, \A x \in S : f[x] \in Int
    PROVE  SumFunctionOnSet(f, S) \in Int
<1> DEFINE Bad == {X \in SUBSET S : SumFunctionOnSet(f, X) \notin Int}
<1> SUFFICES ASSUME Bad # {} PROVE FALSE
  OBVIOUS
<1>1. PICK X \in Bad : \A Y \in Bad : Y \subseteq X => Y = X
  <2>1. Bad \subseteq SUBSET S
    OBVIOUS
  <2> HIDE DEF Bad
  <2> QED BY <2>1, LeastSubset
<1>2. X # {} /\ IsFiniteSet(X)
  <2>1. X \in SUBSET S /\ IsFiniteSet(X)
    BY <1>1, FS_Subset
  <2>2. SumFunctionOnSet(f, {}) \in Int
    BY SumEmpty
  <2> QED BY <1>1, <2>1, <2>2
<1>3. First(X) \in X
  BY <1>2, FirstIn
<1>4. SumFunctionOnSet(f, X \ {First(X)}) \in Int
  BY <1>1, <1>3
<1>5. f[First(X)] \in Int
  BY <1>1, <1>3
<1> QED BY <1>1, <1>2, <1>4, <1>5, SumUnfold

\* A sum of amounts that are not negative is not negative.
LEMMA SumNat ==
    ASSUME NEW S, IsFiniteSet(S), NEW f, \A x \in S : f[x] \in Nat
    PROVE  SumFunctionOnSet(f, S) \in Nat
<1> DEFINE Bad == {X \in SUBSET S : SumFunctionOnSet(f, X) \notin Nat}
<1> SUFFICES ASSUME Bad # {} PROVE FALSE
  OBVIOUS
<1>1. PICK X \in Bad : \A Y \in Bad : Y \subseteq X => Y = X
  <2>1. Bad \subseteq SUBSET S
    OBVIOUS
  <2> HIDE DEF Bad
  <2> QED BY <2>1, LeastSubset
<1>2. X # {} /\ IsFiniteSet(X)
  <2>1. X \in SUBSET S /\ IsFiniteSet(X)
    BY <1>1, FS_Subset
  <2>2. SumFunctionOnSet(f, {}) \in Nat
    BY SumEmpty
  <2> QED BY <1>1, <2>1, <2>2
<1>3. First(X) \in X
  BY <1>2, FirstIn
<1>4. SumFunctionOnSet(f, X \ {First(X)}) \in Nat
  BY <1>1, <1>3
<1>5. f[First(X)] \in Nat
  BY <1>1, <1>3
<1> QED BY <1>1, <1>2, <1>4, <1>5, SumUnfold

\* The order of summation does not matter: any element may be taken first.
LEMMA SumRemove ==
    ASSUME NEW S, IsFiniteSet(S), NEW f, \A x \in S : f[x] \in Int, NEW e \in S
    PROVE  SumFunctionOnSet(f, S) = f[e] + SumFunctionOnSet(f, S \ {e})
<1> DEFINE Bad == {X \in SUBSET S : \E y \in X :
                      SumFunctionOnSet(f, X) # f[y] + SumFunctionOnSet(f, X \ {y})}
<1> SUFFICES ASSUME Bad # {} PROVE FALSE
  OBVIOUS
<1>1. PICK X \in Bad : \A Y \in Bad : Y \subseteq X => Y = X
  <2>1. Bad \subseteq SUBSET S
    OBVIOUS
  <2> HIDE DEF Bad
  <2> QED BY <2>1, LeastSubset
<1>2. PICK y \in X : SumFunctionOnSet(f, X) # f[y] + SumFunctionOnSet(f, X \ {y})
  BY <1>1
<1> DEFINE c == First(X)
           A == X \ {c}
           B == X \ {y}
           C == A \ {y}
<1>3. X # {} /\ IsFiniteSet(X) /\ X \subseteq S
  BY <1>1, <1>2, FS_Subset
<1>4. c \in X
  BY <1>3, FirstIn
<1>5. SumFunctionOnSet(f, X) = f[c] + SumFunctionOnSet(f, A)
  BY <1>3, SumUnfold
<1>6. c # y
  BY <1>2, <1>5
<1>7. A \subseteq X /\ A # X /\ B \subseteq X /\ B # X /\ y \in A /\ c \in B
  BY <1>2, <1>4, <1>6
<1>8. SumFunctionOnSet(f, A) = f[y] + SumFunctionOnSet(f, C)
  BY <1>1, <1>3, <1>7
<1>9. SumFunctionOnSet(f, B) = f[c] + SumFunctionOnSet(f, C)
  <2>1. B \ {c} = C
    OBVIOUS
  <2>2. SumFunctionOnSet(f, B) = f[c] + SumFunctionOnSet(f, B \ {c})
    BY <1>1, <1>3, <1>7
  <2> QED BY <2>1, <2>2
<1>10. SumFunctionOnSet(f, C) \in Int
  <2>1. IsFiniteSet(C) /\ \A x \in C : f[x] \in Int
    BY <1>3, FS_Subset
  <2> HIDE DEF C
  <2> QED BY <2>1, SumInt
<1>11. f[c] \in Int /\ f[y] \in Int
  BY <1>2, <1>3, <1>4
<1> HIDE DEF A, B, C, c
<1>12. SumFunctionOnSet(f, X) = f[y] + SumFunctionOnSet(f, B)
  BY <1>5, <1>8, <1>9, <1>10, <1>11
<1> QED BY <1>2, <1>12 DEF B

\* A new entry, row or journal adds its amount.
LEMMA SumAdd ==
    ASSUME NEW S, IsFiniteSet(S), NEW f, NEW e, e \notin S,
           \A x \in S \cup {e} : f[x] \in Int
    PROVE  SumFunctionOnSet(f, S \cup {e}) = SumFunctionOnSet(f, S) + f[e]
<1> DEFINE U == S \cup {e}
<1>1. IsFiniteSet(U) /\ e \in U /\ U \ {e} = S /\ \A x \in U : f[x] \in Int
  BY FS_AddElement
<1>2. SumFunctionOnSet(f, S) \in Int /\ f[e] \in Int
  BY SumInt
<1> HIDE DEF U
<1>3. SumFunctionOnSet(f, U) = f[e] + SumFunctionOnSet(f, U \ {e})
  BY <1>1, SumRemove
<1>4. SumFunctionOnSet(f, U \ {e}) = SumFunctionOnSet(f, S)
  BY <1>1, Zenon
<1>5. SumFunctionOnSet(f, U) = SumFunctionOnSet(f, S) + f[e]
  BY <1>2, <1>3, <1>4
<1> QED BY <1>5 DEF U

\* Equal amounts have equal sums.
LEMMA SumSame ==
    ASSUME NEW S, IsFiniteSet(S), NEW f, NEW g, \A x \in S : f[x] = g[x]
    PROVE  SumFunctionOnSet(f, S) = SumFunctionOnSet(g, S)
<1> DEFINE Bad == {X \in SUBSET S : SumFunctionOnSet(f, X) # SumFunctionOnSet(g, X)}
<1> SUFFICES ASSUME Bad # {} PROVE FALSE
  OBVIOUS
<1>1. PICK X \in Bad : \A Y \in Bad : Y \subseteq X => Y = X
  <2>1. Bad \subseteq SUBSET S
    OBVIOUS
  <2> HIDE DEF Bad
  <2> QED BY <2>1, LeastSubset
<1>2. X # {} /\ IsFiniteSet(X)
  <2>1. X \in SUBSET S /\ IsFiniteSet(X)
    BY <1>1, FS_Subset
  <2>2. SumFunctionOnSet(f, {}) = SumFunctionOnSet(g, {})
    BY SumEmpty
  <2> QED BY <1>1, <2>1, <2>2
<1>3. First(X) \in X
  BY <1>2, FirstIn
<1>4. SumFunctionOnSet(f, X \ {First(X)}) = SumFunctionOnSet(g, X \ {First(X)})
  BY <1>1, <1>3
<1>5. f[First(X)] = g[First(X)]
  BY <1>1, <1>3
<1>6. /\ SumFunctionOnSet(f, X) = f[First(X)] + SumFunctionOnSet(f, X \ {First(X)})
      /\ SumFunctionOnSet(g, X) = g[First(X)] + SumFunctionOnSet(g, X \ {First(X)})
  BY <1>2, SumUnfold
<1> QED BY <1>1, <1>4, <1>5, <1>6

\* One term of the sum changes: an account is debited, a row is used up.
LEMMA SumChange ==
    ASSUME NEW S, IsFiniteSet(S), NEW f, NEW g, NEW e \in S,
           \A x \in S : f[x] \in Int /\ g[x] \in Int,
           \A x \in S \ {e} : f[x] = g[x]
    PROVE  SumFunctionOnSet(g, S) = SumFunctionOnSet(f, S) - f[e] + g[e]
<1>1. IsFiniteSet(S \ {e})
  BY FS_Subset
<1>2. SumFunctionOnSet(f, S \ {e}) = SumFunctionOnSet(g, S \ {e})
  BY <1>1, SumSame
<1>3. /\ SumFunctionOnSet(f, S) = f[e] + SumFunctionOnSet(f, S \ {e})
      /\ SumFunctionOnSet(g, S) = g[e] + SumFunctionOnSet(g, S \ {e})
  BY SumRemove
<1>4. SumFunctionOnSet(f, S \ {e}) \in Int /\ f[e] \in Int /\ g[e] \in Int
  BY <1>1, SumInt
<1> QED BY <1>2, <1>3, <1>4

\* The set gains an element and every other term stays: a journal is posted.
LEMMA SumGrows ==
    ASSUME NEW S, IsFiniteSet(S), NEW f, NEW g, NEW e, e \notin S,
           \A x \in S : f[x] \in Int /\ f[x] = g[x], g[e] \in Int
    PROVE  SumFunctionOnSet(g, S \cup {e}) = SumFunctionOnSet(f, S) + g[e]
<1>1. SumFunctionOnSet(f, S) = SumFunctionOnSet(g, S)
  BY SumSame
<1>2. \A x \in S \cup {e} : g[x] \in Int
  OBVIOUS
<1>3. SumFunctionOnSet(g, S \cup {e}) = SumFunctionOnSet(g, S) + g[e]
  BY <1>2, SumAdd
<1> QED BY <1>1, <1>3

\* Sums add up element by element.
LEMMA SumPlus ==
    ASSUME NEW S, IsFiniteSet(S), NEW f, NEW g, NEW h,
           \A x \in S : f[x] \in Int /\ g[x] \in Int /\ h[x] = f[x] + g[x]
    PROVE  SumFunctionOnSet(h, S) = SumFunctionOnSet(f, S) + SumFunctionOnSet(g, S)
<1> DEFINE Bad == {X \in SUBSET S : SumFunctionOnSet(h, X)
                                      # SumFunctionOnSet(f, X) + SumFunctionOnSet(g, X)}
<1> SUFFICES ASSUME Bad # {} PROVE FALSE
  OBVIOUS
<1>1. PICK X \in Bad : \A Y \in Bad : Y \subseteq X => Y = X
  <2>1. Bad \subseteq SUBSET S
    OBVIOUS
  <2> HIDE DEF Bad
  <2> QED BY <2>1, LeastSubset
<1>2. X # {} /\ IsFiniteSet(X)
  <2>1. X \in SUBSET S /\ IsFiniteSet(X)
    BY <1>1, FS_Subset
  <2>2. SumFunctionOnSet(h, {}) = SumFunctionOnSet(f, {}) + SumFunctionOnSet(g, {})
    BY SumEmpty
  <2> QED BY <1>1, <2>1, <2>2
<1> DEFINE c == First(X)
           T == X \ {c}
<1>3. c \in X /\ IsFiniteSet(T) /\ T \subseteq S
  BY <1>1, <1>2, FirstIn, FS_Subset
<1>4. SumFunctionOnSet(h, T) = SumFunctionOnSet(f, T) + SumFunctionOnSet(g, T)
  BY <1>1, <1>3
<1>5. f[c] \in Int /\ g[c] \in Int /\ h[c] = f[c] + g[c]
  BY <1>1, <1>3
<1>6. /\ SumFunctionOnSet(f, X) = f[c] + SumFunctionOnSet(f, T)
      /\ SumFunctionOnSet(g, X) = g[c] + SumFunctionOnSet(g, T)
      /\ SumFunctionOnSet(h, X) = h[c] + SumFunctionOnSet(h, T)
  BY <1>2, SumUnfold
<1> HIDE DEF c, T
<1>7. SumFunctionOnSet(f, T) \in Int /\ SumFunctionOnSet(g, T) \in Int
  BY <1>3, SumInt
<1>8. SumFunctionOnSet(h, X) = SumFunctionOnSet(f, X) + SumFunctionOnSet(g, X)
  BY <1>4, <1>5, <1>6, <1>7
<1> QED BY <1>1, <1>8

\* The sum over two disjoint sets.
LEMMA SumUnion ==
    ASSUME NEW S, IsFiniteSet(S), NEW T, IsFiniteSet(T), S \cap T = {}, NEW f,
           \A x \in S \cup T : f[x] \in Int
    PROVE  SumFunctionOnSet(f, S \cup T) = SumFunctionOnSet(f, S) + SumFunctionOnSet(f, T)
<1> DEFINE Bad == {X \in SUBSET T : SumFunctionOnSet(f, S \cup X)
                                      # SumFunctionOnSet(f, S) + SumFunctionOnSet(f, X)}
<1> SUFFICES ASSUME Bad # {} PROVE FALSE
  OBVIOUS
<1>1. PICK X \in Bad : \A Y \in Bad : Y \subseteq X => Y = X
  <2>1. Bad \subseteq SUBSET T
    OBVIOUS
  <2> HIDE DEF Bad
  <2> QED BY <2>1, LeastSubset
<1>s. SumFunctionOnSet(f, S) \in Int
  BY SumInt
<1>2. X \in SUBSET T /\ IsFiniteSet(X) /\ X # {}
  <2>1. X \in SUBSET T /\ IsFiniteSet(X)
    BY <1>1, FS_Subset
  <2>2. SumFunctionOnSet(f, S \cup {}) = SumFunctionOnSet(f, S)
    <3>1. S \cup {} = S
      OBVIOUS
    <3> QED BY <3>1, Zenon
  <2>3. SumFunctionOnSet(f, S \cup {}) = SumFunctionOnSet(f, S) + SumFunctionOnSet(f, {})
    BY <1>s, <2>2, SumEmpty
  <2> QED BY <1>1, <2>1, <2>3
<1> DEFINE c == First(X)
           Y == X \ {c}
<1>3. c \in X
  BY <1>2, FirstIn
<1>4. SumFunctionOnSet(f, S \cup Y) = SumFunctionOnSet(f, S) + SumFunctionOnSet(f, Y)
  BY <1>1, <1>2, <1>3
<1>5. SumFunctionOnSet(f, X) = f[c] + SumFunctionOnSet(f, Y)
  BY <1>2, SumUnfold
<1>6. /\ IsFiniteSet(Y) /\ IsFiniteSet(S \cup Y)
      /\ \A x \in Y : f[x] \in Int
  BY <1>2, FS_Subset, FS_Union
<1>7. SumFunctionOnSet(f, Y) \in Int
  <2> HIDE DEF Y
  <2> QED BY <1>6, SumInt
<1>8. (S \cup Y) \cup {c} = S \cup X /\ c \notin S \cup Y /\ f[c] \in Int
      /\ \A x \in (S \cup Y) \cup {c} : f[x] \in Int
  BY <1>2, <1>3
<1> HIDE DEF c, Y
<1>9. SumFunctionOnSet(f, (S \cup Y) \cup {c}) = SumFunctionOnSet(f, S \cup Y) + f[c]
  BY <1>6, <1>8, SumAdd
<1>10. SumFunctionOnSet(f, (S \cup Y) \cup {c}) = SumFunctionOnSet(f, S \cup X)
  BY <1>8, Zenon
<1>11. SumFunctionOnSet(f, S \cup X) = SumFunctionOnSet(f, S) + SumFunctionOnSet(f, X)
  BY <1>s, <1>4, <1>5, <1>7, <1>8, <1>9, <1>10
<1> QED BY <1>1, <1>11

\* Amounts that are all zero add nothing.
LEMMA SumZero ==
    ASSUME NEW S, IsFiniteSet(S), NEW f, \A x \in S : f[x] = 0
    PROVE  SumFunctionOnSet(f, S) = 0
<1> DEFINE g == [x \in S |-> 0]
<1>1. /\ \A x \in S : f[x] \in Int /\ g[x] \in Int /\ f[x] = f[x] + g[x]
      /\ \A x \in S : f[x] = g[x] /\ g[x] \in Int
  OBVIOUS
<1> HIDE DEF g
<1>2. SumFunctionOnSet(f, S) = SumFunctionOnSet(f, S) + SumFunctionOnSet(g, S)
  BY <1>1, SumPlus
<1>3. SumFunctionOnSet(f, S) = SumFunctionOnSet(g, S)
  BY <1>1, SumSame
<1>4. SumFunctionOnSet(f, S) \in Int /\ SumFunctionOnSet(g, S) \in Int
  BY <1>1, SumInt
<1>5. SumFunctionOnSet(g, S) = 0
  BY <1>2, <1>4
<1> QED BY <1>3, <1>5

\* Grouping: the sum over a set is the sum, over the groups, of the sums of
\* each group (entries by account, or by the step they belong to).
LEMMA SumGroups ==
    ASSUME NEW S, IsFiniteSet(S), NEW f, \A x \in S : f[x] \in Int,
           NEW I, IsFiniteSet(I), NEW p, NEW g, GroupedBy(p, f, S, g, I)
    PROVE  SumFunctionOnSet(f, S) = SumFunctionOnSet(g, I)
<1> USE DEF GroupedBy
<1> DEFINE In(J) == {x \in S : p[x] \in J}
           Bad == {J \in SUBSET I : SumFunctionOnSet(f, In(J)) # SumFunctionOnSet(g, J)}
<1>1. Bad = {}
  <2> SUFFICES ASSUME Bad # {} PROVE FALSE
    OBVIOUS
  <2>1. PICK J \in Bad : \A K \in Bad : K \subseteq J => K = J
    <3>1. Bad \subseteq SUBSET I
      OBVIOUS
    <3> HIDE DEF Bad
    <3> QED BY <3>1, LeastSubset
  <2>2. J \in SUBSET I /\ IsFiniteSet(J) /\ J # {}
    <3>1. J \in SUBSET I /\ IsFiniteSet(J)
      BY <2>1, FS_Subset
    <3>2. In({}) = {}
      OBVIOUS
    <3>3. SumFunctionOnSet(f, In({})) = SumFunctionOnSet(g, {})
      <4>1. SumFunctionOnSet(f, {}) = SumFunctionOnSet(g, {})
        BY SumEmpty
      <4> HIDE DEF In
      <4> QED BY <3>2, <4>1, Zenon
    <3> QED BY <2>1, <3>1, <3>3
  <2> DEFINE c == First(J)
             K == J \ {c}
             Group == {x \in S : p[x] = c}
  <2>3. c \in J /\ c \in I
    BY <2>2, FirstIn
  <2>4. SumFunctionOnSet(f, In(K)) = SumFunctionOnSet(g, K)
    BY <2>1, <2>2, <2>3
  <2>5. SumFunctionOnSet(g, J) = g[c] + SumFunctionOnSet(g, K)
    BY <2>2, SumUnfold
  <2>6. g[c] = SumFunctionOnSet(f, Group)
    BY <2>3
  <2>7. /\ In(K) \cup Group = In(J) /\ In(K) \cap Group = {}
        /\ IsFiniteSet(In(K)) /\ IsFiniteSet(Group)
        /\ \A x \in In(K) \cup Group : f[x] \in Int
    BY <2>3, FS_Subset
  <2> HIDE DEF In, c, K, Group
  <2>8. SumFunctionOnSet(f, In(K) \cup Group)
          = SumFunctionOnSet(f, In(K)) + SumFunctionOnSet(f, Group)
    BY <2>7, SumUnion
  <2>9. SumFunctionOnSet(f, In(K) \cup Group) = SumFunctionOnSet(f, In(J))
    BY <2>7, Zenon
  <2>10. SumFunctionOnSet(f, In(K)) \in Int /\ SumFunctionOnSet(f, Group) \in Int
    BY <2>7, SumInt
  <2>11. SumFunctionOnSet(f, In(J)) = SumFunctionOnSet(g, J)
    BY <2>4, <2>5, <2>6, <2>8, <2>9, <2>10
  <2> QED BY <2>1, <2>11
<1>2. SumFunctionOnSet(f, In(I)) = SumFunctionOnSet(g, I)
  BY <1>1
<1>3. In(I) = S
  OBVIOUS
<1> HIDE DEF In
<1> QED BY <1>2, <1>3, Zenon

\* Renaming: the sum over the images of an injection.
LEMMA SumRename ==
    ASSUME NEW S, IsFiniteSet(S), NEW f, NEW g, NEW p,
           \A x, y \in S : p[x] = p[y] => x = y,
           \A x \in S : g[p[x]] = f[x] /\ f[x] \in Int
    PROVE  SumFunctionOnSet(g, {p[x] : x \in S}) = SumFunctionOnSet(f, S)
<1> DEFINE Im(X) == {p[x] : x \in X}
           Bad == {X \in SUBSET S : \/ SumFunctionOnSet(g, Im(X)) # SumFunctionOnSet(f, X)
                                    \/ ~ IsFiniteSet(Im(X))}
<1> SUFFICES ASSUME Bad # {} PROVE FALSE
  OBVIOUS
<1>1. PICK X \in Bad : \A Y \in Bad : Y \subseteq X => Y = X
  <2>1. Bad \subseteq SUBSET S
    OBVIOUS
  <2> HIDE DEF Bad
  <2> QED BY <2>1, LeastSubset
<1>2. X \in SUBSET S /\ IsFiniteSet(X) /\ X # {}
  <2>1. X \in SUBSET S /\ IsFiniteSet(X)
    BY <1>1, FS_Subset
  <2>2. Im({}) = {}
    OBVIOUS
  <2>3. SumFunctionOnSet(g, Im({})) = SumFunctionOnSet(f, {}) /\ IsFiniteSet(Im({}))
    <3>1. SumFunctionOnSet(g, {}) = SumFunctionOnSet(f, {}) /\ IsFiniteSet({})
      BY SumEmpty, FS_EmptySet
    <3> HIDE DEF Im
    <3> QED BY <2>2, <3>1, Zenon
  <2> QED BY <1>1, <2>1, <2>3
<1> DEFINE c == First(X)
           Y == X \ {c}
<1>3. c \in X /\ c \in S /\ Y \in SUBSET S
  BY <1>2, FirstIn
<1>4. SumFunctionOnSet(g, Im(Y)) = SumFunctionOnSet(f, Y) /\ IsFiniteSet(Im(Y))
  BY <1>1, <1>2, <1>3
<1>5. SumFunctionOnSet(f, X) = f[c] + SumFunctionOnSet(f, Y)
  BY <1>2, SumUnfold
<1>6. /\ Im(Y) \cup {p[c]} = Im(X)
      /\ p[c] \notin Im(Y)
      /\ \A y \in Im(Y) \cup {p[c]} : g[y] \in Int
      /\ g[p[c]] = f[c] /\ f[c] \in Int
      /\ IsFiniteSet(Y) /\ \A x \in Y : f[x] \in Int
  <2>1. Im(Y) \cup {p[c]} = Im(X)
    BY <1>3
  <2>2. p[c] \notin Im(Y)
    BY <1>2, <1>3
  <2>3. \A y \in Im(Y) \cup {p[c]} : g[y] \in Int
    BY <1>3
  <2>4. IsFiniteSet(Y)
    BY <1>2, FS_Subset
  <2> QED BY <1>3, <2>1, <2>2, <2>3, <2>4
<1> HIDE DEF c, Y, Im
<1>7. SumFunctionOnSet(g, Im(Y) \cup {p[c]}) = SumFunctionOnSet(g, Im(Y)) + g[p[c]]
  <2> DEFINE J == Im(Y)
             q == p[c]
  <2>1. IsFiniteSet(J) /\ q \notin J /\ \A y \in J \cup {q} : g[y] \in Int
    BY <1>4, <1>6
  <2> HIDE DEF J, q
  <2>2. SumFunctionOnSet(g, J \cup {q}) = SumFunctionOnSet(g, J) + g[q]
    BY <2>1, SumAdd
  <2> QED BY <2>2 DEF J, q
<1>8. SumFunctionOnSet(g, Im(Y) \cup {p[c]}) = SumFunctionOnSet(g, Im(X))
  BY <1>6, Zenon
<1>9. SumFunctionOnSet(f, Y) \in Int
  BY <1>6, SumInt
<1>10. SumFunctionOnSet(g, Im(X)) = SumFunctionOnSet(f, X)
  BY <1>4, <1>5, <1>6, <1>7, <1>8, <1>9
<1>11. IsFiniteSet(Im(X))
  <2>1. IsFiniteSet(Im(Y) \cup {p[c]})
    BY <1>4, FS_AddElement
  <2> QED BY <1>6, <2>1, Zenon
<1> QED BY <1>1, <1>10, <1>11
=============================================================================
