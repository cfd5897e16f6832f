-------------------------- MODULE RationalsProofs --------------------------
(***************************************************************************)
(* What the evaluation's proofs need to know of finite sums and of the     *)
(* fractions of Rationals.  The sums and the greatest common divisor are   *)
(* recursive functions; induction over finite sets comes from the minimal  *)
(* elements of the strict subset ordering.                                 *)
(***************************************************************************)
EXTENDS Rationals, FiniteSetTheorems, TLAPS

-----------------------------------------------------------------------------
(* Induction.                                                              *)

\* A non-empty set of subsets of a finite set has a minimal member.
LEMMA MinimalSubset ==
    ASSUME NEW S, IsFiniteSet(S), NEW B \in SUBSET SUBSET S, B # {}
    PROVE  \E T \in B : \A U \in B : U \subseteq T => U = T
<1>1. PICK R : R = StrictSubsetOrdering(S)
  OBVIOUS
<1>2. IsWellFoundedOn(R, SUBSET S)
  BY <1>1, FS_StrictSubsetOrderingWellFounded, FS_FiniteSubsetsOfFinite
<1>3. PICK T \in B : \A U \in B : ~(<<U, T>> \in R)
  <2>1. \A A : A \subseteq SUBSET S /\ A # {} => \E x \in A : \A y \in A : ~(<<y, x>> \in R)
    BY <1>2, WFMin
  <2> QED  BY <2>1
<1>4. \A U \in B : U \subseteq T /\ U # T => <<U, T>> \in R
  BY <1>1 DEF StrictSubsetOrdering
<1>5. \A U \in B : U \subseteq T => U = T
  BY <1>3, <1>4
<1> QED
  BY <1>5

\* What holds of n when it holds of all smaller numbers holds of all numbers.
LEMMA StrongInduction ==
    ASSUME NEW F, \A n \in Nat : (\A m \in Nat : m < n => m \in F) => n \in F
    PROVE  Nat \subseteq F
<1>1. SUFFICES ASSUME NEW n \in Nat, n \notin F PROVE FALSE
  OBVIOUS
<1>2. PICK B : B = {T \in SUBSET (0 .. n) : \E k \in 0 .. n : k \notin F /\ T = 0 .. k}
  OBVIOUS
<1>3. IsFiniteSet(0 .. n) /\ B \in SUBSET SUBSET (0 .. n)
  BY <1>2, FS_Interval
<1>4. 0 .. n \in B
  BY <1>1, <1>2
<1>5. PICK T \in B : \A U \in B : U \subseteq T => U = T
  <2>1. PICK N : N = 0 .. n
    OBVIOUS
  <2>2. IsFiniteSet(N) /\ B \in SUBSET SUBSET N /\ B # {}
    BY <1>3, <1>4, <2>1
  <2>3. \E T \in B : \A U \in B : U \subseteq T => U = T
    BY <2>2, MinimalSubset
  <2> QED  BY <2>3
<1>6. PICK k \in 0 .. n : k \notin F /\ T = 0 .. k
  BY <1>2
<1>7. PICK m \in Nat : m < k /\ m \notin F
  BY <1>6
<1>8. 0 .. m \in B
  BY <1>2, <1>7
<1>9. 0 .. m \subseteq T /\ k \in T /\ k \notin 0 .. m
  BY <1>6, <1>7
<1> QED
  BY <1>5, <1>8, <1>9

\* What holds of the empty set, and of a set with one element more, holds of a finite set.
LEMMA FiniteInduction ==
    ASSUME NEW S, IsFiniteSet(S), NEW F, {} \in F,
           \A T \in SUBSET S : \A x \in S \ T : T \in F => T \union {x} \in F
    PROVE  S \in F
<1>1. SUFFICES ASSUME S \notin F PROVE FALSE
  OBVIOUS
<1>2. PICK B : B = {T \in SUBSET S : T \notin F}
  OBVIOUS
<1>3. PICK T \in B : \A U \in B : U \subseteq T => U = T
  BY <1>1, <1>2, MinimalSubset
<1>4. PICK x \in T : TRUE
  BY <1>2
<1>5. T \ {x} \in SUBSET S /\ x \in S \ (T \ {x}) /\ (T \ {x}) \union {x} = T
  BY <1>2
<1>6. T \ {x} \notin B
  BY <1>3, <1>4
<1> QED
  BY <1>2, <1>5, <1>6

\* pick: a non-empty subset of S -> the element with which the recursion begins.
Picks(pick, S) == \A T \in SUBSET S : T # {} => pick[T] \in T

Recursion(g, S, base, step, pick) == \A T \in SUBSET S :
    g[T] = IF T = {} THEN base ELSE step[<<pick[T], g[T \ {pick[T]}]>>]

\* A function on the subsets of a finite set may be defined by what it is for
\* the set without an element.
LEMMA FiniteRecursion ==
    ASSUME NEW S, IsFiniteSet(S), NEW V, NEW base \in V, NEW step \in [S \X V -> V],
           NEW pick, Picks(pick, S)
    PROVE  \E g \in [SUBSET S -> V] : Recursion(g, S, base, step, pick)
<1> USE DEF Picks
<1> DEFINE
      Rec(h, U) == h[U] = IF U = {} THEN base ELSE step[<<pick[U], h[U \ {pick[U]}]>>]
      Good(h, T) == h \in [SUBSET T -> V] /\ \A U \in SUBSET T : Rec(h, U)
      value == [T \in SUBSET S |-> CHOOSE v : \E h : Good(h, T) /\ v = h[T]]
<1>1. ASSUME NEW T \in SUBSET S, NEW h, NEW k, Good(h, T), Good(k, T)
      PROVE  h[T] = k[T]
  <2>1. SUFFICES ASSUME h[T] # k[T] PROVE FALSE
    OBVIOUS
  <2>2. PICK B : B = {U \in SUBSET T : h[U] # k[U]}
    OBVIOUS
  <2>3. B \in SUBSET SUBSET T /\ T \in B /\ IsFiniteSet(T)
    BY <2>1, <2>2, FS_Subset
  <2>4. PICK U \in B : \A W \in B : W \subseteq U => W = U
    BY <2>3, MinimalSubset
  <2>5. U # {}
    BY <1>1, <2>2, <2>4
  <2>6. pick[U] \in U
    BY <2>2, <2>5
  <2>7. U \ {pick[U]} \notin B
    BY <2>4, <2>6
  <2>8. h[U \ {pick[U]}] = k[U \ {pick[U]}]
    BY <2>2, <2>7
  <2>9. Rec(h, U) /\ Rec(k, U)
    BY <1>1, <2>2
  <2> HIDE DEF Good
  <2> QED  BY <2>2, <2>5, <2>8, <2>9
<1>2. ASSUME NEW T \in SUBSET S, NEW h, Good(h, T), NEW U \in SUBSET T
      PROVE  Good([W \in SUBSET U |-> h[W]], U)
  <2>1. PICK k : k = [W \in SUBSET U |-> h[W]]
    OBVIOUS
  <2>2. k \in [SUBSET U -> V]
    BY <1>2, <2>1
  <2>3. ASSUME NEW W \in SUBSET U PROVE Rec(k, W)
    <3>1. W \in SUBSET T /\ W \ {pick[W]} \in SUBSET U
      OBVIOUS
    <3>2. k[W] = h[W] /\ k[W \ {pick[W]}] = h[W \ {pick[W]}]
      BY <2>1, <3>1
    <3>3. Rec(h, W)
      BY <1>2, <3>1
    <3> QED  BY <3>2, <3>3
  <2> QED  BY <2>1, <2>2, <2>3
<1>3. ASSUME NEW T \in SUBSET S, NEW h, Good(h, T) PROVE value[T] = h[T]
  <2>1. value[T] = CHOOSE v : \E k : Good(k, T) /\ v = k[T]
    BY DEF value
  <2> HIDE DEF Good, value
  <2>2. \E v : \E k : Good(k, T) /\ v = k[T]
    BY <1>3
  <2>3. \E k : Good(k, T) /\ value[T] = k[T]
    BY <2>1, <2>2
  <2> QED  BY <1>1, <1>3, <2>3
<1>4. ASSUME NEW T \in SUBSET S, NEW h, Good(h, T) PROVE Rec(value, T) /\ value[T] \in V
  <2>1. value[T] = h[T]
    BY <1>3, <1>4
  <2>2. Rec(h, T) /\ h[T] \in V
    BY <1>4
  <2>3. CASE T = {}
    BY <2>1, <2>2, <2>3 DEF Rec
  <2>4. CASE T # {}
    <3>1. PICK U : U = T \ {pick[T]}
      OBVIOUS
    <3>2. PICK k : k = [W \in SUBSET U |-> h[W]]
      OBVIOUS
    <3>3. Good(k, U) /\ k[U] = h[U] /\ U \in SUBSET S
      <4>1. U \in SUBSET T
        BY <3>1
      <4> HIDE DEF Good
      <4> QED  BY <1>2, <1>4, <3>2, <4>1
    <3>4. value[U] = h[U]
      <4> HIDE DEF Good, value
      <4> QED  BY <1>3, <3>3
    <3> HIDE DEF Good, value
    <3> QED  BY <2>1, <2>2, <2>4, <3>1, <3>4
  <2> QED  BY <2>3, <2>4, <2>1, <2>2
<1>5. \A T \in SUBSET S : \E h : Good(h, T)
  <2>1. SUFFICES ASSUME NEW B, B = {T \in SUBSET S : ~\E h : Good(h, T)}, B # {} PROVE FALSE
    <3> HIDE DEF Good
    <3> QED  OBVIOUS
  <2>2. B \in SUBSET SUBSET S
    <3> HIDE DEF Good
    <3> QED  BY <2>1
  <2>3. PICK T \in B : \A U \in B : U \subseteq T => U = T
    <3> HIDE DEF Good
    <3>1. B # {}
      BY <2>1
    <3> QED  BY <2>2, <3>1, MinimalSubset
  <2>4. T \in SUBSET S
    BY <2>2
  <2>5. \A U \in SUBSET T : U # T => Rec(value, U) /\ value[U] \in V
    <3>1. SUFFICES ASSUME NEW U \in SUBSET T, U # T PROVE Rec(value, U) /\ value[U] \in V
      <4> HIDE DEF value, Rec
      <4> QED  OBVIOUS
    <3> HIDE DEF Good, value, Rec
    <3>2. U \in SUBSET S /\ U \notin B
      BY <2>3, <2>4, <3>1
    <3>3. PICK h : Good(h, U)
      BY <2>1, <3>2
    <3> QED  BY <1>4, <3>2, <3>3
  <2>6. PICK h : h = [U \in SUBSET T |-> IF U # T THEN value[U] ELSE
                        IF T = {} THEN base ELSE step[<<pick[T], value[T \ {pick[T]}]>>]]
    OBVIOUS
  <2>7. T # {} => pick[T] \in T /\ T \ {pick[T]} \in SUBSET T /\ T \ {pick[T]} # T /\ pick[T] \in S
    BY <2>4
  <2>8. T # {} => value[T \ {pick[T]}] \in V
    <3> HIDE DEF value
    <3> QED  BY <2>5, <2>7
  <2> HIDE DEF value
  <2>9. h[T] \in V
    BY <2>6, <2>7, <2>8
  <2>10. h \in [SUBSET T -> V]
    BY <2>5, <2>6, <2>9
  <2>11. ASSUME NEW U \in SUBSET T PROVE Rec(h, U)
    <3>1. CASE U = T
      BY <2>6, <2>7, <3>1
    <3>2. CASE U # T
      <4>1. U # {} => pick[U] \in U
        BY <2>4
      <4>2. U \ {pick[U]} \in SUBSET T /\ (U # {} => U \ {pick[U]} # T)
        BY <3>2
      <4>3. U # {} => h[U \ {pick[U]}] = value[U \ {pick[U]}]
        BY <2>6, <4>2
      <4>4. h[U] = value[U]
        BY <2>6, <3>2
      <4> QED  BY <2>5, <3>2, <4>3, <4>4
    <3> QED  BY <3>1, <3>2
  <2>12. Good(h, T)
    BY <2>10, <2>11
  <2> HIDE DEF Good
  <2> QED  BY <2>1, <2>3, <2>12
<1>6. \A T \in SUBSET S : Rec(value, T) /\ value[T] \in V
  <2> HIDE DEF Good, value, Rec
  <2> QED  BY <1>4, <1>5
<1>7. value \in [SUBSET S -> V]
  BY <1>6
<1> HIDE DEF value
<1> QED
  BY <1>6, <1>7 DEF Recursion

-----------------------------------------------------------------------------
(* Sums of integers.                                                       *)

First(T) == CHOOSE x \in T : TRUE

IntegersOn(f, S) == \A x \in S : f[x] \in Int

\* The recursion of SumFunctionOnSet.
SumsUp(g, f, S) == \A T \in SUBSET S : g[T] = IF T = {} THEN 0 ELSE f[First(T)] + g[T \ {First(T)}]

\* The sum over a finite set is the value that a function on its subsets has there,
\* which adds one element at a time.
LEMMA SumRecursion ==
    ASSUME NEW S, IsFiniteSet(S), NEW f, IntegersOn(f, S)
    PROVE  \E g \in [SUBSET S -> Int] : SumFunctionOnSet(f, S) = g[S] /\ SumsUp(g, f, S)
<1>1. PICK pick : pick = [T \in (SUBSET S) \ {{}} |-> First(T)]
  OBVIOUS
<1>2. PICK step : step = [p \in S \X Int |-> f[p[1]] + p[2]]
  OBVIOUS
<1>3. \A T \in SUBSET S : T # {} => pick[T] \in T /\ pick[T] = First(T)
  BY <1>1 DEF First
<1>4. step \in [S \X Int -> Int]
  BY <1>2 DEF IntegersOn
<1>5. PICK g \in [SUBSET S -> Int] : Recursion(g, S, 0, step, pick)
  <2>1. Picks(pick, S)
    BY <1>3 DEF Picks
  <2>2. 0 \in Int
    OBVIOUS
  <2> QED  BY <1>4, <2>1, <2>2, FiniteRecursion, Zenon
<1>6. ASSUME NEW T \in SUBSET S
      PROVE  g[T] = IF T = {} THEN 0 ELSE f[First(T)] + g[T \ {First(T)}]
  <2>1. T # {} => pick[T] = First(T)
    BY <1>3
  <2>2. T # {} => pick[T] \in S /\ g[T \ {pick[T]}] \in Int
    BY <1>3
  <2>3. T # {} => step[<<pick[T], g[T \ {pick[T]}]>>] = f[pick[T]] + g[T \ {pick[T]}]
    BY <1>2, <2>2
  <2> QED  BY <1>5, <2>1, <2>3 DEF Recursion
<1> DEFINE Iter(h) == h = [T \in SUBSET S |-> IF T = {} THEN 0 ELSE f[First(T)] + h[T \ {First(T)}]]
<1>7. Iter(g)
  BY <1>6
<1>8. PICK it : it = CHOOSE h : Iter(h)
  OBVIOUS
<1>9. Iter(it)
  <2> HIDE DEF Iter
  <2> QED  BY <1>7, <1>8
<1>10. SumFunctionOnSet(f, S) = it[S]
  BY <1>8 DEF First, SumFunctionOnSet, FoldFunctionOnSet, MapThenFoldSet
<1>11. it[S] = g[S]
  <2>1. PICK B : B = {T \in SUBSET S : it[T] # g[T]}
    OBVIOUS
  <2> SUFFICES ASSUME B # {} PROVE FALSE
    BY <2>1
  <2>2. PICK T \in B : \A U \in B : U \subseteq T => U = T
    BY <2>1, MinimalSubset
  <2>3. it[T] = IF T = {} THEN 0 ELSE f[First(T)] + it[T \ {First(T)}]
    BY <1>9, <2>1
  <2>4. T # {} => First(T) \in T
    BY DEF First
  <2>5. T # {} => T \ {First(T)} \notin B
    BY <2>2, <2>4
  <2> QED  BY <1>6, <2>1, <2>3, <2>5
<1>12. SumsUp(g, f, S)
  BY <1>6 DEF SumsUp
<1> QED
  BY <1>10, <1>11, <1>12

\* The sum is the same whichever element is taken first.
LEMMA SumAnyOrder ==
    ASSUME NEW S, IsFiniteSet(S), NEW f, IntegersOn(f, S), NEW g \in [SUBSET S -> Int], SumsUp(g, f, S)
    PROVE  \A T \in SUBSET S : \A x \in T : g[T] = f[x] + g[T \ {x}]
<1>1. PICK B : B = {T \in SUBSET S : \E x \in T : g[T] # f[x] + g[T \ {x}]}
  OBVIOUS
<1> SUFFICES ASSUME B # {} PROVE FALSE
  BY <1>1
<1>2. PICK T \in B : \A U \in B : U \subseteq T => U = T
  <2>1. B \in SUBSET SUBSET S
    BY <1>1
  <2> QED  BY <2>1, MinimalSubset
<1>3. PICK x \in T : g[T] # f[x] + g[T \ {x}]
  BY <1>1
<1>4. PICK c : c = First(T)
  OBVIOUS
<1>5. c \in T /\ T \in SUBSET S
  BY <1>1, <1>3, <1>4 DEF First
<1>6. g[T] = f[c] + g[T \ {c}]
  BY <1>4, <1>5 DEF SumsUp
<1>7. c # x
  BY <1>3, <1>6
<1>8. T \ {c} \notin B /\ T \ {x} \notin B
  BY <1>2, <1>3, <1>5
<1>9. g[T \ {c}] = f[x] + g[(T \ {c}) \ {x}]
  BY <1>1, <1>5, <1>7, <1>8
<1>10. g[T \ {x}] = f[c] + g[(T \ {x}) \ {c}]
  BY <1>1, <1>5, <1>7, <1>8
<1>11. (T \ {c}) \ {x} = (T \ {x}) \ {c} /\ (T \ {c}) \ {x} \in SUBSET S
  BY <1>5
<1>12. PICK G : G = g[(T \ {c}) \ {x}]
  OBVIOUS
<1>13. f[x] \in Int /\ f[c] \in Int /\ G \in Int
  BY <1>5, <1>11, <1>12 DEF IntegersOn
<1>14. g[T] = f[c] + (f[x] + G) /\ g[T \ {x}] = f[c] + G
  BY <1>6, <1>9, <1>10, <1>11, <1>12
<1> QED
  BY <1>3, <1>13, <1>14

\* The empty sum is 0.
LEMMA SumEmpty ==
    ASSUME NEW f
    PROVE  SumFunctionOnSet(f, {}) = 0
BY SumRecursion, FS_EmptySet DEF SumsUp, IntegersOn

\* A sum of integers is an integer.
LEMMA SumType ==
    ASSUME NEW S, IsFiniteSet(S), NEW f, IntegersOn(f, S)
    PROVE  SumFunctionOnSet(f, S) \in Int
<1>1. PICK g \in [SUBSET S -> Int] : SumFunctionOnSet(f, S) = g[S] /\ SumsUp(g, f, S)
  BY SumRecursion
<1> QED
  BY <1>1

\* Of a function only its values on the set count.
LEMMA SumSame ==
    ASSUME NEW S, IsFiniteSet(S), NEW f, IntegersOn(f, S), NEW h, \A s \in S : h[s] = f[s]
    PROVE  SumFunctionOnSet(h, S) = SumFunctionOnSet(f, S)
<1>1. IntegersOn(h, S)
  BY DEF IntegersOn
<1>2. PICK g \in [SUBSET S -> Int] : SumFunctionOnSet(f, S) = g[S] /\ SumsUp(g, f, S)
  BY SumRecursion
<1>3. PICK k \in [SUBSET S -> Int] : SumFunctionOnSet(h, S) = k[S] /\ SumsUp(k, h, S)
  BY <1>1, SumRecursion
<1>4. PICK B : B = {T \in SUBSET S : g[T] # k[T]}
  OBVIOUS
<1> SUFFICES ASSUME B # {} PROVE FALSE
  BY <1>2, <1>3, <1>4
<1>5. PICK T \in B : \A U \in B : U \subseteq T => U = T
  <2>1. B \in SUBSET SUBSET S
    BY <1>4
  <2> QED  BY <2>1, MinimalSubset
<1>6. T \in SUBSET S /\ g[T] # k[T]
  BY <1>4
<1>7. T # {}
  BY <1>2, <1>3, <1>6 DEF SumsUp
<1>8. PICK c : c = First(T)
  OBVIOUS
<1>9. c \in T
  BY <1>7, <1>8 DEF First
<1>10. T \ {c} \notin B
  BY <1>5, <1>9
<1>11. g[T \ {c}] = k[T \ {c}]
  BY <1>4, <1>9, <1>10
<1>12. g[T] = f[c] + g[T \ {c}] /\ k[T] = h[c] + k[T \ {c}]
  BY <1>2, <1>3, <1>6, <1>7, <1>8 DEF SumsUp
<1> QED
  BY <1>6, <1>9, <1>11, <1>12

\* One element more.
LEMMA SumAdd ==
    ASSUME NEW S, IsFiniteSet(S), NEW x, x \notin S, NEW f, IntegersOn(f, S \union {x})
    PROVE  SumFunctionOnSet(f, S \union {x}) = f[x] + SumFunctionOnSet(f, S)
<1>1. PICK X : X = S \union {x}
  OBVIOUS
<1>2. IsFiniteSet(X) /\ IntegersOn(f, X) /\ IntegersOn(f, S)
  BY <1>1, FS_AddElement DEF IntegersOn
<1>3. PICK g \in [SUBSET X -> Int] : SumFunctionOnSet(f, X) = g[X] /\ SumsUp(g, f, X)
  BY <1>2, SumRecursion
<1>4. PICK k \in [SUBSET S -> Int] : SumFunctionOnSet(f, S) = k[S] /\ SumsUp(k, f, S)
  BY <1>2, SumRecursion
<1>5. \A T \in SUBSET X : \A y \in T : g[T] = f[y] + g[T \ {y}]
  <2>1. IsFiniteSet(X) /\ IntegersOn(f, X) /\ SumsUp(g, f, X) /\ g \in [SUBSET X -> Int]
    BY <1>2, <1>3
  <2>2. SUFFICES ASSUME NEW T \in SUBSET X, NEW y \in T PROVE g[T] = f[y] + g[T \ {y}]
    OBVIOUS
  <2> QED  BY <2>1, SumAnyOrder
<1>6. g[X] = f[x] + g[S]
  <2>1. X \ {x} = S /\ x \in X /\ X \in SUBSET X
    BY <1>1
  <2> QED  BY <1>5, <2>1
<1>7. g[S] = k[S]
  <2>1. PICK B : B = {T \in SUBSET S : g[T] # k[T]}
    OBVIOUS
  <2> SUFFICES ASSUME B # {} PROVE FALSE
    BY <2>1
  <2>2. PICK T \in B : \A U \in B : U \subseteq T => U = T
    <3>1. B \in SUBSET SUBSET S
      BY <2>1
    <3> QED  BY <3>1, MinimalSubset
  <2>3. PICK c : c = First(T)
    OBVIOUS
  <2>4. T \in SUBSET S /\ T \in SUBSET X /\ g[T] # k[T]
    BY <1>1, <2>1
  <2>5. T # {}
    BY <1>3, <1>4, <2>4 DEF SumsUp
  <2>6. c \in T
    BY <2>3, <2>5 DEF First
  <2>7. T \ {c} \notin B
    BY <2>2, <2>6
  <2>8. g[T \ {c}] = k[T \ {c}]
    BY <2>1, <2>7
  <2>9. g[T] = f[c] + g[T \ {c}] /\ k[T] = f[c] + k[T \ {c}]
    BY <1>3, <1>4, <2>3, <2>4, <2>5 DEF SumsUp
  <2> QED  BY <2>4, <2>8, <2>9
<1> QED
  BY <1>1, <1>3, <1>4, <1>6, <1>7

\* The sums over the subsets of a set, one element more.
Grows(f, S) ==
    \A T \in SUBSET S : \A x \in S \ T :
        /\ SumFunctionOnSet(f, T) \in Int
        /\ f[x] \in Int
        /\ SumFunctionOnSet(f, T \union {x}) = f[x] + SumFunctionOnSet(f, T)

\* Adding an element to a set adds its value to the sum.
LEMMA SumGrows ==
    ASSUME NEW S, IsFiniteSet(S), NEW f, IntegersOn(f, S)
    PROVE  Grows(f, S)
<1> USE DEF Grows
<1> TAKE T \in SUBSET S
<1> TAKE x \in S \ T
<1>1. IsFiniteSet(T) /\ IntegersOn(f, T) /\ IntegersOn(f, T \union {x}) /\ x \notin T
  BY FS_Subset DEF IntegersOn
<1>2. SumFunctionOnSet(f, T) \in Int
  BY <1>1, SumType
<1>3. SumFunctionOnSet(f, T \union {x}) = f[x] + SumFunctionOnSet(f, T)
  BY <1>1, SumAdd
<1> QED
  BY <1>2, <1>3 DEF IntegersOn

\* A sum of equal summands is a product.
LEMMA SumOfConstant ==
    ASSUME NEW S, IsFiniteSet(S), NEW c \in Int, NEW f, \A s \in S : f[s] = c
    PROVE  SumFunctionOnSet(f, S) = c * Cardinality(S)
<1>1. IntegersOn(f, S)
  BY DEF IntegersOn
<1>2. PICK F : F = {T \in SUBSET S : SumFunctionOnSet(f, T) = c * Cardinality(T)}
  OBVIOUS
<1>3. {} \in F
  BY <1>2, SumEmpty, FS_EmptySet
<1>4. ASSUME NEW T \in SUBSET S, NEW x \in S \ T, T \in F PROVE T \union {x} \in F
  <2>1. SumFunctionOnSet(f, T \union {x}) = f[x] + SumFunctionOnSet(f, T)
    BY <1>1, SumGrows DEF Grows
  <2>2. Cardinality(T \union {x}) = Cardinality(T) + 1 /\ Cardinality(T) \in Nat
    BY FS_Subset, FS_AddElement, FS_CardinalityType
  <2>3. SumFunctionOnSet(f, T) = c * Cardinality(T)
    BY <1>2, <1>4
  <2>4. c + c * Cardinality(T) = c * (Cardinality(T) + 1)
    BY <2>2
  <2> QED  BY <1>2, <2>1, <2>2, <2>3, <2>4
<1>5. S \in F
  BY <1>3, <1>4, FiniteInduction
<1> QED
  BY <1>2, <1>5

\* A factor of all summands is a factor of the sum.
LEMMA SumTimes ==
    ASSUME NEW S, IsFiniteSet(S), NEW f, IntegersOn(f, S), NEW c \in Int,
           NEW h, \A s \in S : h[s] = f[s] * c
    PROVE  SumFunctionOnSet(h, S) = SumFunctionOnSet(f, S) * c
<1>1. IntegersOn(h, S)
  BY DEF IntegersOn
<1>2. PICK F : F = {T \in SUBSET S : SumFunctionOnSet(h, T) = SumFunctionOnSet(f, T) * c}
  OBVIOUS
<1>3. {} \in F
  <2>1. SumFunctionOnSet(h, {}) = 0 /\ SumFunctionOnSet(f, {}) = 0
    BY SumEmpty
  <2> QED  BY <1>2, <2>1
<1>4. ASSUME NEW T \in SUBSET S, NEW x \in S \ T, T \in F PROVE T \union {x} \in F
  <2>1. PICK a : a = SumFunctionOnSet(f, T)
    OBVIOUS
  <2>2. a \in Int /\ f[x] \in Int /\ SumFunctionOnSet(f, T \union {x}) = f[x] + a
    <3>1. Grows(f, S)
      BY SumGrows
    <3> QED  BY <2>1, <3>1 DEF Grows
  <2>3. SumFunctionOnSet(h, T \union {x}) = h[x] + SumFunctionOnSet(h, T)
    BY <1>1, SumGrows DEF Grows
  <2>4. SumFunctionOnSet(h, T) = a * c /\ h[x] = f[x] * c
    BY <1>2, <1>4, <2>1
  <2>5. f[x] * c + a * c = (f[x] + a) * c
    BY <2>2
  <2> QED  BY <1>2, <2>2, <2>3, <2>4, <2>5
<1>5. S \in F
  BY <1>3, <1>4, FiniteInduction
<1> QED
  BY <1>2, <1>5

\* A sum of natural numbers is no less than each of them.
LEMMA SumAtLeast ==
    ASSUME NEW S, IsFiniteSet(S), NEW f, \A s \in S : f[s] \in Nat
    PROVE  SumFunctionOnSet(f, S) \in Nat /\ \A x \in S : SumFunctionOnSet(f, S) >= f[x]
<1>1. IntegersOn(f, S)
  BY DEF IntegersOn
<1>2. PICK F : F = {T \in SUBSET S : SumFunctionOnSet(f, T) \in Nat}
  OBVIOUS
<1>3. {} \in F
  BY <1>2, SumEmpty
<1>4. ASSUME NEW T \in SUBSET S, NEW x \in S \ T, T \in F PROVE T \union {x} \in F
  <2>1. SumFunctionOnSet(f, T \union {x}) = f[x] + SumFunctionOnSet(f, T)
    BY <1>1, SumGrows DEF Grows
  <2>2. SumFunctionOnSet(f, T) \in Nat /\ f[x] \in Nat
    BY <1>2, <1>4
  <2> QED  BY <1>2, <2>1, <2>2
<1>5. \A U \in SUBSET S : SumFunctionOnSet(f, U) \in Nat
  <2>1. SUFFICES ASSUME NEW U \in SUBSET S PROVE U \in F
    BY <1>2
  <2>2. IsFiniteSet(U)
    BY FS_Subset
  <2>3. \A T \in SUBSET U : \A x \in U \ T : T \in F => T \union {x} \in F
    BY <1>4
  <2> QED  BY <1>3, <2>2, <2>3, FiniteInduction
<1>6. ASSUME NEW x \in S PROVE SumFunctionOnSet(f, S) >= f[x]
  <2>1. PICK T : T = S \ {x}
    OBVIOUS
  <2>2. T \in SUBSET S /\ x \in S \ T /\ S = T \union {x}
    BY <2>1
  <2>3. SumFunctionOnSet(f, T \union {x}) = f[x] + SumFunctionOnSet(f, T)
    BY <1>1, <2>2, SumGrows DEF Grows
  <2>4. SumFunctionOnSet(f, T) \in Nat /\ f[x] \in Nat
    BY <1>5, <2>2
  <2> QED  BY <2>2, <2>3, <2>4
<1> QED
  BY <1>5, <1>6

\* The sum over two sets that have nothing in common.
LEMMA SumUnion ==
    ASSUME NEW S, IsFiniteSet(S), NEW f, IntegersOn(f, S),
           NEW A \in SUBSET S, NEW B \in SUBSET S, A \intersect B = {}
    PROVE  SumFunctionOnSet(f, A \union B) = SumFunctionOnSet(f, A) + SumFunctionOnSet(f, B)
<1>1. PICK F : F = {T \in SUBSET B :
                        SumFunctionOnSet(f, A \union T) = SumFunctionOnSet(f, A) + SumFunctionOnSet(f, T)}
  OBVIOUS
<1>2. SumFunctionOnSet(f, A) \in Int
  BY FS_Subset, SumType DEF IntegersOn
<1>7. Grows(f, S)
  BY SumGrows
<1>3. {} \in F
  <2>1. A \union {} = A
    OBVIOUS
  <2> QED  BY <1>1, <1>2, <2>1, SumEmpty
<1>4. ASSUME NEW T \in SUBSET B, NEW x \in B \ T, T \in F PROVE T \union {x} \in F
  <2>1. T \in SUBSET S /\ x \in S \ T
    OBVIOUS
  <2>2. A \union T \in SUBSET S /\ x \in S \ (A \union T)
    OBVIOUS
  <2>3. /\ SumFunctionOnSet(f, T) \in Int
        /\ f[x] \in Int
        /\ SumFunctionOnSet(f, T \union {x}) = f[x] + SumFunctionOnSet(f, T)
    BY <1>7, <2>1 DEF Grows
  <2>4. SumFunctionOnSet(f, (A \union T) \union {x}) = f[x] + SumFunctionOnSet(f, A \union T)
    BY <1>7, <2>2 DEF Grows
  <2>5. (A \union T) \union {x} = A \union (T \union {x})
    OBVIOUS
  <2>6. SumFunctionOnSet(f, A \union T) = SumFunctionOnSet(f, A) + SumFunctionOnSet(f, T)
    BY <1>1, <1>4
  <2>7. T \union {x} \in SUBSET B
    OBVIOUS
  <2>8. PICK a, t : a = SumFunctionOnSet(f, A) /\ t = SumFunctionOnSet(f, T)
    OBVIOUS
  <2>9. SumFunctionOnSet(f, A \union (T \union {x})) = f[x] + (a + t)
    BY <2>4, <2>5, <2>6, <2>8
  <2>10. SumFunctionOnSet(f, T \union {x}) = f[x] + t
    BY <2>3, <2>8
  <2>11. f[x] + (a + t) = a + (f[x] + t)
    BY <1>2, <2>3, <2>8
  <2>12. SumFunctionOnSet(f, A \union (T \union {x})) = SumFunctionOnSet(f, A) + SumFunctionOnSet(f, T \union {x})
    BY <2>8, <2>9, <2>10, <2>11
  <2> QED  BY <1>1, <2>7, <2>12
<1>5. IsFiniteSet(B)
  BY FS_Subset
<1>6. B \in F
  BY <1>3, <1>4, <1>5, FiniteInduction
<1> QED
  BY <1>1, <1>6

\* The elements of S with one key.
PartOf(S, key, i) == {s \in S : key[s] = i}

\* A sum is the sum of the sums over its parts.
LEMMA SumOfParts ==
    ASSUME NEW S, IsFiniteSet(S), NEW f, IntegersOn(f, S),
           NEW I, IsFiniteSet(I), NEW key, \A s \in S : key[s] \in I,
           NEW h, \A i \in I : h[i] = SumFunctionOnSet(f, PartOf(S, key, i))
    PROVE  SumFunctionOnSet(h, I) = SumFunctionOnSet(f, S)
<1>1. PICK part : part = [J \in SUBSET I |-> {s \in S : key[s] \in J}]
  OBVIOUS
<1>2. PICK F : F = {J \in SUBSET I : SumFunctionOnSet(h, J) = SumFunctionOnSet(f, part[J])}
  OBVIOUS
<1>3. \A U \in SUBSET S : SumFunctionOnSet(f, U) \in Int
  BY FS_Subset, SumType DEF IntegersOn
<1>4. \A i \in I : PartOf(S, key, i) \in SUBSET S
  BY DEF PartOf
<1>5. IntegersOn(h, I)
  BY <1>3, <1>4 DEF IntegersOn
<1>6. {} \in F
  <2>1. part[{}] = {}
    BY <1>1
  <2> QED  BY <1>2, <2>1, SumEmpty
<1>7. ASSUME NEW J \in SUBSET I, NEW i \in I \ J, J \in F PROVE J \union {i} \in F
  <2>1. SumFunctionOnSet(h, J \union {i}) = h[i] + SumFunctionOnSet(h, J)
    BY <1>5, SumGrows DEF Grows
  <2>2. PICK P : P = PartOf(S, key, i)
    OBVIOUS
  <2>3. part[J \union {i}] = part[J] \union P /\ part[J] \intersect P = {}
    BY <1>1, <2>2 DEF PartOf
  <2>4. part[J] \in SUBSET S /\ P \in SUBSET S
    BY <1>1, <2>2 DEF PartOf
  <2>5. SumFunctionOnSet(f, part[J] \union P) = SumFunctionOnSet(f, part[J]) + SumFunctionOnSet(f, P)
    BY <2>3, <2>4, SumUnion
  <2>6. h[i] = SumFunctionOnSet(f, P) /\ SumFunctionOnSet(h, J) = SumFunctionOnSet(f, part[J])
    BY <1>2, <1>7, <2>2
  <2>7. SumFunctionOnSet(f, P) \in Int /\ SumFunctionOnSet(f, part[J]) \in Int
    BY <1>3, <2>4
  <2>8. SumFunctionOnSet(h, J \union {i}) = SumFunctionOnSet(f, part[J \union {i}])
    BY <2>1, <2>3, <2>5, <2>6, <2>7
  <2> QED  BY <1>2, <2>8
<1>8. I \in F
  BY <1>6, <1>7, FiniteInduction
<1>9. part[I] = S
  BY <1>1
<1> QED
  BY <1>2, <1>8, <1>9

\* A sum over the images of elements.
LEMMA SumOfImages ==
    ASSUME NEW S, IsFiniteSet(S), NEW f, IntegersOn(f, S),
           NEW b, NEW T, \A s \in S : b[s] \in T, \A t \in T : \E s \in S : b[s] = t,
           \A r, s \in S : b[r] = b[s] => r = s,
           NEW h, \A s \in S : h[b[s]] = f[s]
    PROVE  SumFunctionOnSet(h, T) = SumFunctionOnSet(f, S)
<1>1. PICK image : image = [U \in SUBSET S |-> {b[s] : s \in U}]
  OBVIOUS
<1>2. PICK F : F = {U \in SUBSET S : IsFiniteSet(image[U]) /\ SumFunctionOnSet(h, image[U]) = SumFunctionOnSet(f, U)}
  OBVIOUS
<1>3. {} \in F
  <2>1. image[{}] = {}
    BY <1>1
  <2> QED  BY <1>2, <2>1, SumEmpty, FS_EmptySet
<1>4. ASSUME NEW U \in SUBSET S, NEW x \in S \ U, U \in F PROVE U \union {x} \in F
  <2>1. image[U \union {x}] = image[U] \union {b[x]} /\ b[x] \notin image[U]
    BY <1>1
  <2>2. IsFiniteSet(image[U]) /\ SumFunctionOnSet(h, image[U]) = SumFunctionOnSet(f, U)
    BY <1>2, <1>4
  <2>3. IntegersOn(h, image[U] \union {b[x]})
    BY <1>1 DEF IntegersOn
  <2>4. SumFunctionOnSet(h, image[U] \union {b[x]}) = h[b[x]] + SumFunctionOnSet(h, image[U])
    BY <2>1, <2>2, <2>3, SumAdd
  <2>5. SumFunctionOnSet(f, U \union {x}) = f[x] + SumFunctionOnSet(f, U)
    BY SumGrows DEF Grows
  <2>6. IsFiniteSet(image[U \union {x}])
    BY <2>1, <2>2, FS_AddElement
  <2>7. SumFunctionOnSet(h, image[U \union {x}]) = SumFunctionOnSet(f, U \union {x})
    BY <2>1, <2>2, <2>4, <2>5
  <2> QED  BY <1>2, <2>6, <2>7
<1>5. S \in F
  BY <1>3, <1>4, FiniteInduction
<1>6. image[S] = T
  BY <1>1
<1> QED
  BY <1>2, <1>5, <1>6

-----------------------------------------------------------------------------
(* The greatest common divisor.                                            *)

\* What % and \div leave of a number.
LEMMA RemainderFacts ==
    ASSUME NEW a \in Nat, NEW b \in Nat \ {0}
    PROVE  a % b \in Nat /\ a % b < b /\ a \div b \in Nat /\ a = b * (a \div b) + (a % b)
<1>1. a % b \in 0 .. b - 1
  OBVIOUS
<1>2. a = b * (a \div b) + (a % b)
  OBVIOUS
<1>3. a \div b \in Int
  OBVIOUS
<1>4. a \div b >= 0
  <2>1. PICK q \in Int, r \in 0 .. b - 1 : q = a \div b /\ r = a % b /\ a = b * q + r
    BY <1>1, <1>2, <1>3
  <2>2. SUFFICES ASSUME q < 0 PROVE FALSE
    BY <1>3, <2>1
  <2>3. b * q <= -b
    BY <2>2
  <2> QED  BY <2>1, <2>3
<1> QED
  BY <1>1, <1>2, <1>3, <1>4

\* Multiples of natural numbers are natural numbers.
LEMMA ProductFacts ==
    ASSUME NEW k \in Nat \ {0}, NEW a \in Nat, NEW b \in Nat \ {0}
    PROVE  k * a \in Nat /\ k * b \in Nat \ {0}
OBVIOUS

\* A multiple divides without remainder.
LEMMA ExactDivision ==
    ASSUME NEW g \in Nat \ {0}, NEW x \in Int
    PROVE  (g * x) \div g = x
OBVIOUS

\* The remainder of multiples is the multiple of the remainder.
LEMMA ScaledRemainder ==
    ASSUME NEW a \in Nat, NEW b \in Nat \ {0}, NEW k \in Nat \ {0}
    PROVE  (k * a) % (k * b) = k * (a % b)
<1>1. PICK q \in Nat, r \in Nat : q = a \div b /\ r = a % b /\ r < b /\ a = b * q + r
  BY RemainderFacts
<1>2. k * a = (k * b) * q + k * r
  <2>1. k * (b * q + r) = (k * b) * q + k * r
    OBVIOUS
  <2> QED  BY <1>1, <2>1
<1>3. k * r \in Nat /\ k * r < k * b /\ k * b \in Nat \ {0}
  BY <1>1
<1>4. PICK m \in Nat \ {0}, s \in Nat : m = k * b /\ s = k * r
  BY <1>3
<1>5. m * q + s \in Nat /\ s < m
  BY <1>3, <1>4
<1>6. (m * q + s) % m = s
  BY <1>5
<1> QED
  BY <1>1, <1>2, <1>4, <1>6

\* The step of the algorithm.
GcdStep(g, a, b) == g[<<a, b>>] = IF b = 0 THEN a ELSE g[<<b, a % b>>]

\* gcd up to a second argument n.
GcdUpTo(g, n) ==
    \A a \in Nat, b \in 0 .. n : g[<<a, b>>] \in Nat /\ GcdStep(g, a, b)

\* Two functions that follow Euclid's recursion agree wherever both are defined.
LEMMA GcdUpToAgree ==
    ASSUME NEW n \in Nat, NEW m \in Nat, NEW g, NEW h, GcdUpTo(g, n), GcdUpTo(h, m)
    PROVE  \A b \in Nat : b <= n /\ b <= m => \A a \in Nat : g[<<a, b>>] = h[<<a, b>>]
<1>1. PICK F : F = {b \in Nat : b <= n /\ b <= m => \A a \in Nat : g[<<a, b>>] = h[<<a, b>>]}
  OBVIOUS
<1>2. ASSUME NEW b \in Nat, \A c \in Nat : c < b => c \in F PROVE b \in F
  <2>1. SUFFICES ASSUME b <= n, b <= m, NEW a \in Nat PROVE g[<<a, b>>] = h[<<a, b>>]
    BY <1>1
  <2>2. b \in 0 .. n /\ b \in 0 .. m
    BY <2>1
  <2>3. GcdStep(g, a, b) /\ GcdStep(h, a, b)
    BY <2>2 DEF GcdUpTo
  <2>4. CASE b = 0
    BY <2>3, <2>4 DEF GcdStep
  <2>5. CASE b # 0
    <3>1. PICK c \in Nat : c = a % b /\ c < b
      BY <2>5, RemainderFacts
    <3>2. g[<<b, c>>] = h[<<b, c>>]
      BY <1>1, <1>2, <2>1, <3>1
    <3> QED  BY <2>3, <2>5, <3>1, <3>2 DEF GcdStep
  <2> QED  BY <2>4, <2>5
<1>3. Nat \subseteq F
  BY <1>2, StrongInduction
<1> QED
  BY <1>1, <1>3

\* For every bound there is a function that follows Euclid's recursion up to it.
LEMMA GcdUpToExists ==
    \A n \in Nat : \E g : GcdUpTo(g, n)
<1>1. PICK F : F = {n \in Nat : \E g : GcdUpTo(g, n)}
  OBVIOUS
<1>2. ASSUME NEW n \in Nat, \A m \in Nat : m < n => m \in F PROVE n \in F
  <2>1. CASE n = 0
    <3>1. PICK g : g = [p \in Nat \X Nat |-> p[1]]
      OBVIOUS
    <3>2. \A a \in Nat : g[<<a, 0>>] = a
      BY <3>1
    <3>3. GcdUpTo(g, 0)
      BY <3>2 DEF GcdUpTo, GcdStep
    <3> QED  BY <1>1, <2>1, <3>3
  <2>2. CASE n # 0
    <3>1. PICK h : GcdUpTo(h, n - 1)
      <4>1. n - 1 \in Nat /\ n - 1 < n
        BY <2>2
      <4> QED  BY <1>1, <1>2, <4>1
    <3>2. PICK g : g = [p \in Nat \X Nat |-> IF p[2] < n THEN h[p] ELSE h[<<n, p[1] % n>>]]
      OBVIOUS
    <3>3. \A a \in Nat, b \in Nat : b < n => g[<<a, b>>] = h[<<a, b>>]
      BY <3>2
    <3>4. \A a \in Nat : g[<<a, n>>] = h[<<n, a % n>>]
      BY <3>2
    <3>5. ASSUME NEW a \in Nat, NEW b \in 0 .. n PROVE g[<<a, b>>] \in Nat /\ GcdStep(g, a, b)
      <4>1. CASE b = n
        <5>1. PICK c \in Nat : c = a % n /\ c < n
          BY <2>2, RemainderFacts
        <5>2. g[<<a, n>>] = h[<<n, c>>] /\ g[<<n, c>>] = h[<<n, c>>]
          BY <3>3, <3>4, <5>1
        <5>3. h[<<n, c>>] \in Nat
          <6>1. c \in 0 .. (n - 1)
            BY <5>1
          <6> QED  BY <3>1, <6>1 DEF GcdUpTo
        <5> QED  BY <2>2, <4>1, <5>1, <5>2, <5>3 DEF GcdStep
      <4>2. CASE b # n
        <5>1. b \in 0 .. (n - 1) /\ b \in Nat /\ b < n
          BY <4>2
        <5>2. h[<<a, b>>] \in Nat /\ GcdStep(h, a, b)
          BY <3>1, <5>1 DEF GcdUpTo
        <5>3. g[<<a, b>>] = h[<<a, b>>]
          BY <3>3, <5>1
        <5>4. CASE b = 0
          BY <5>2, <5>3, <5>4 DEF GcdStep
        <5>5. CASE b # 0
          <6>1. PICK c \in Nat : c = a % b /\ c < b
            BY <5>1, <5>5, RemainderFacts
          <6>2. g[<<b, c>>] = h[<<b, c>>]
            BY <3>3, <5>1, <6>1
          <6> QED  BY <5>2, <5>3, <5>5, <6>1, <6>2 DEF GcdStep
        <5> QED  BY <5>4, <5>5
      <4> QED  BY <4>1, <4>2
    <3>6. GcdUpTo(g, n)
      BY <3>5 DEF GcdUpTo
    <3> QED  BY <1>1, <3>6
  <2> QED  BY <2>1, <2>2
<1>3. Nat \subseteq F
  BY <1>2, StrongInduction
<1> QED
  BY <1>1, <1>3

\* gcd is the function that its definition describes.
LEMMA GcdRecursion ==
    \A a \in Nat, b \in Nat : gcd[<<a, b>>] \in Nat /\ GcdStep(gcd, a, b)
<1> DEFINE Step(g, p) == IF p[2] = 0 THEN p[1] ELSE g[<<p[2], p[1] % p[2]>>]
           Is(g) == g = [p \in Nat \X Nat |-> Step(g, p)]
<1>1. PICK upTo : \A n \in Nat : GcdUpTo(upTo[n], n)
  <2>1. PICK u : u = [n \in Nat |-> CHOOSE g : GcdUpTo(g, n)]
    OBVIOUS
  <2>2. \A n \in Nat : GcdUpTo(u[n], n)
    BY <2>1, GcdUpToExists
  <2> QED  BY <2>2
<1>2. PICK g : g = [p \in Nat \X Nat |-> upTo[p[2]][p]]
  OBVIOUS
<1>3. ASSUME NEW a \in Nat, NEW b \in Nat PROVE g[<<a, b>>] \in Nat /\ GcdStep(g, a, b)
  <2>1. g[<<a, b>>] = upTo[b][<<a, b>>]
    BY <1>2
  <2>2. upTo[b][<<a, b>>] \in Nat /\ GcdStep(upTo[b], a, b)
    <3>1. GcdUpTo(upTo[b], b) /\ b \in 0 .. b
      BY <1>1
    <3> QED  BY <3>1 DEF GcdUpTo
  <2>3. CASE b = 0
    BY <2>1, <2>2, <2>3 DEF GcdStep
  <2>4. CASE b # 0
    <3>1. PICK c \in Nat : c = a % b /\ c < b
      BY <2>4, RemainderFacts
    <3>2. g[<<b, c>>] = upTo[c][<<b, c>>]
      BY <1>2
    <3>3. upTo[c][<<b, c>>] = upTo[b][<<b, c>>]
      <4>1. GcdUpTo(upTo[c], c) /\ GcdUpTo(upTo[b], b) /\ c <= c /\ c <= b
        BY <1>1, <3>1
      <4> QED  BY <4>1, GcdUpToAgree
    <3> QED  BY <2>1, <2>2, <2>4, <3>1, <3>2, <3>3 DEF GcdStep
  <2> QED  BY <2>3, <2>4
<1>4. Is(g)
  <2>1. ASSUME NEW p \in Nat \X Nat PROVE g[p] = Step(g, p)
    <3>1. p = <<p[1], p[2]>> /\ p[1] \in Nat /\ p[2] \in Nat
      OBVIOUS
    <3>2. GcdStep(g, p[1], p[2])
      BY <1>3, <3>1
    <3> QED  BY <3>1, <3>2 DEF GcdStep
  <2>2. g = [p \in Nat \X Nat |-> g[p]]
    BY <1>2
  <2> QED  BY <2>1, <2>2
<1>5. gcd = CHOOSE h : Is(h)
  BY DEF gcd
<1>6. Is(gcd)
  <2> HIDE DEF Is
  <2> QED  BY <1>4, <1>5
<1>7. PICK e : e = gcd
  OBVIOUS
<1>8. \A a \in Nat, b \in Nat : GcdStep(e, a, b)
  <2>1. SUFFICES ASSUME NEW a \in Nat, NEW b \in Nat PROVE GcdStep(e, a, b)
    OBVIOUS
  <2>2. e = [p \in Nat \X Nat |-> Step(e, p)]
    BY <1>6, <1>7
  <2>3. e[<<a, b>>] = Step(e, <<a, b>>)
    <3>1. <<a, b>> \in Nat \X Nat
      OBVIOUS
    <3> HIDE DEF Step
    <3> QED  BY <2>2, <3>1
  <2> QED  BY <2>3 DEF GcdStep
<1>9. PICK F : F = {b \in Nat : \A a \in Nat : e[<<a, b>>] \in Nat}
  OBVIOUS
<1>10. ASSUME NEW b \in Nat, \A c \in Nat : c < b => c \in F PROVE b \in F
  <2>1. SUFFICES ASSUME NEW a \in Nat PROVE e[<<a, b>>] \in Nat
    BY <1>9
  <2>2. GcdStep(e, a, b)
    BY <1>8
  <2>3. CASE b = 0
    BY <2>2, <2>3 DEF GcdStep
  <2>4. CASE b # 0
    <3>1. PICK c \in Nat : c = a % b /\ c < b
      BY <2>4, RemainderFacts
    <3>2. e[<<b, c>>] \in Nat
      BY <1>9, <1>10, <3>1
    <3> QED  BY <2>2, <2>4, <3>1, <3>2 DEF GcdStep
  <2> QED  BY <2>3, <2>4
<1>11. Nat \subseteq F
  BY <1>10, StrongInduction
<1> QED
  BY <1>7, <1>8, <1>9, <1>11

\* It divides both numbers.
LEMMA GcdDivides ==
    ASSUME NEW a \in Nat, NEW b \in Nat, a # 0 \/ b # 0
    PROVE  /\ gcd[<<a, b>>] \in Nat \ {0}
           /\ \E x \in Nat, y \in Nat : a = gcd[<<a, b>>] * x /\ b = gcd[<<a, b>>] * y
<1> DEFINE Divides(g, c, d) == g \in Nat \ {0} /\ \E x \in Nat, y \in Nat : c = g * x /\ d = g * y
<1>1. PICK F : F = {d \in Nat : \A c \in Nat : c # 0 \/ d # 0 => Divides(gcd[<<c, d>>], c, d)}
  OBVIOUS
<1>2. ASSUME NEW d \in Nat, \A e \in Nat : e < d => e \in F PROVE d \in F
  <2>1. SUFFICES ASSUME NEW c \in Nat, c # 0 \/ d # 0 PROVE Divides(gcd[<<c, d>>], c, d)
    BY <1>1
  <2>2. GcdStep(gcd, c, d)
    BY GcdRecursion
  <2>3. CASE d = 0
    <3>1. gcd[<<c, d>>] = c
      BY <2>2, <2>3 DEF GcdStep
    <3>2. c = c * 1 /\ d = c * 0
      BY <2>3
    <3> QED  BY <2>1, <2>3, <3>1, <3>2
  <2>4. CASE d # 0
    <3>1. PICK q \in Nat, r \in Nat : r = c % d /\ r < d /\ c = d * q + r
      BY <2>4, RemainderFacts
    <3>2. gcd[<<c, d>>] = gcd[<<d, r>>]
      BY <2>2, <2>4, <3>1 DEF GcdStep
    <3>3. Divides(gcd[<<d, r>>], d, r)
      BY <1>1, <1>2, <2>4, <3>1
    <3>4. PICK g \in Nat \ {0}, x \in Nat, y \in Nat : g = gcd[<<d, r>>] /\ d = g * x /\ r = g * y
      BY <3>3
    <3>5. c = g * (x * q + y) /\ x * q + y \in Nat
      <4>1. (g * x) * q + g * y = g * (x * q + y) /\ x * q + y \in Nat
        OBVIOUS
      <4> QED  BY <3>1, <3>4, <4>1
    <3> QED  BY <3>2, <3>4, <3>5
  <2> QED  BY <2>3, <2>4
<1>3. Nat \subseteq F
  BY <1>2, StrongInduction
<1> QED
  BY <1>1, <1>3

\* A common factor comes out of the greatest common divisor.
LEMMA GcdScales ==
    ASSUME NEW a \in Nat, NEW b \in Nat, NEW k \in Nat \ {0}
    PROVE  gcd[<<k * a, k * b>>] = k * gcd[<<a, b>>]
<1>1. PICK F : F = {d \in Nat : \A c \in Nat : gcd[<<k * c, k * d>>] = k * gcd[<<c, d>>]}
  OBVIOUS
<1>2. ASSUME NEW d \in Nat, \A e \in Nat : e < d => e \in F PROVE d \in F
  <2>1. SUFFICES ASSUME NEW c \in Nat PROVE gcd[<<k * c, k * d>>] = k * gcd[<<c, d>>]
    BY <1>1
  <2>2. PICK kc \in Nat, kd \in Nat : kc = k * c /\ kd = k * d
    OBVIOUS
  <2>3. GcdStep(gcd, c, d) /\ GcdStep(gcd, kc, kd)
    BY GcdRecursion
  <2>4. CASE d = 0
    <3>1. kd = 0
      BY <2>2, <2>4
    <3> QED  BY <2>2, <2>3, <2>4, <3>1 DEF GcdStep
  <2>5. CASE d # 0
    <3>1. kd # 0
      BY <2>2, <2>5
    <3>2. PICK r \in Nat : r = c % d /\ r < d
      BY <2>5, RemainderFacts
    <3>3. kc % kd = k * r
      BY <2>2, <2>5, <3>2, ScaledRemainder
    <3>4. gcd[<<kd, k * r>>] = k * gcd[<<d, r>>]
      BY <1>1, <1>2, <2>2, <3>2
    <3> QED  BY <2>2, <2>3, <2>5, <3>1, <3>2, <3>3, <3>4 DEF GcdStep
  <2> QED  BY <2>4, <2>5
<1>3. Nat \subseteq F
  BY <1>2, StrongInduction
<1> QED
  BY <1>1, <1>3

-----------------------------------------------------------------------------
(* Fractions.                                                              *)

\* The absolute value.
LEMMA AbsFacts ==
    ASSUME NEW n \in Int
    PROVE  Abs(n) \in Nat /\ (n = Abs(n) \/ n = -Abs(n)) /\ (n >= 0 => Abs(n) = n)
BY DEF Abs

\* The fraction is what is left when both numbers are divided.
LEMMA RatioForm ==
    ASSUME NEW n \in Int, NEW d \in Nat \ {0}
    PROVE  \E g \in Nat \ {0}, x \in Int, y \in Nat \ {0} :
              n = g * x /\ d = g * y /\ Ratio(n, d) = <<x, y>> /\ g = gcd[<<Abs(n), d>>]
<1>1. PICK m \in Nat : m = Abs(n) /\ (n = m \/ n = -m)
  BY AbsFacts
<1>2. PICK g \in Nat \ {0}, u \in Nat, y \in Nat : g = gcd[<<m, d>>] /\ m = g * u /\ d = g * y
  <2>1. PICK e \in Nat : e = d /\ e # 0
    OBVIOUS
  <2>2. gcd[<<m, e>>] \in Nat \ {0} /\ \E u \in Nat, y \in Nat : m = gcd[<<m, e>>] * u /\ e = gcd[<<m, e>>] * y
    BY <2>1, GcdDivides
  <2> QED  BY <2>1, <2>2
<1>3. PICK x \in Int : n = g * x
  <2>1. CASE n = m
    <3>1. PICK w \in Int : w = u
      OBVIOUS
    <3>2. n = g * w
      BY <1>2, <2>1, <3>1
    <3> QED  BY <3>2
  <2>2. CASE n = -m
    <3>1. PICK w \in Int : w = -u
      OBVIOUS
    <3>2. -(g * u) = g * w
      BY <3>1
    <3>3. n = g * w
      BY <1>2, <2>2, <3>2
    <3> QED  BY <3>3
  <2> QED  BY <1>1, <2>1, <2>2
<1>4. y # 0
  BY <1>2
<1>5. n \div g = x /\ d \div g = y
  <2>1. (g * x) \div g = x
    BY ExactDivision
  <2>2. (g * y) \div g = y
    BY ExactDivision
  <2> QED  BY <1>2, <1>3, <2>1, <2>2
<1>6. Abs(d) = d /\ ~(d < 0)
  BY DEF Abs
<1>7. Ratio(n, d) = <<1 * (n \div g), d \div g>>
  BY <1>1, <1>2, <1>6 DEF Ratio
<1>8. Ratio(n, d) = <<x, y>>
  BY <1>5, <1>7
<1> QED
  BY <1>1, <1>2, <1>3, <1>4, <1>8

\* x / y is n / d in lowest terms.
Reduces(n, d) ==
    \E g \in Nat \ {0}, x \in Int, y \in Nat \ {0} : n = g * x /\ d = g * y /\ Ratio(n, d) = <<x, y>>

\* Ratio reduces: numerator and denominator are multiples of its two components.
LEMMA RatioParts ==
    \A n \in Int, d \in Nat \ {0} : Reduces(n, d)
<1>1. SUFFICES ASSUME NEW n \in Int, NEW d \in Nat \ {0} PROVE Reduces(n, d)
  OBVIOUS
<1>2. PICK g \in Nat \ {0}, x \in Int, y \in Nat \ {0} :
          n = g * x /\ d = g * y /\ Ratio(n, d) = <<x, y>> /\ g = gcd[<<Abs(n), d>>]
  BY RatioForm
<1> QED
  BY <1>2 DEF Reduces

\* A fraction may be expanded: Ratio is the same.
LEMMA RatioScales ==
    ASSUME NEW n \in Int, NEW d \in Nat \ {0}, NEW k \in Nat \ {0}
    PROVE  Ratio(k * n, k * d) = Ratio(n, d)
<1>1. PICK g \in Nat \ {0}, x \in Int, y \in Nat \ {0} :
          n = g * x /\ d = g * y /\ Ratio(n, d) = <<x, y>> /\ g = gcd[<<Abs(n), d>>]
  BY RatioForm
<1>2. PICK kn \in Int, kd \in Nat \ {0} : kn = k * n /\ kd = k * d
  OBVIOUS
<1>3. PICK h \in Nat \ {0}, u \in Int, v \in Nat \ {0} :
          kn = h * u /\ kd = h * v /\ Ratio(kn, kd) = <<u, v>> /\ h = gcd[<<Abs(kn), kd>>]
  BY RatioForm
<1>4. Abs(kn) = k * Abs(n)
  <2>1. CASE n >= 0
    <3>1. k * n >= 0
      BY <2>1
    <3> QED  BY <1>2, <2>1, <3>1 DEF Abs
  <2>2. CASE n < 0
    <3>1. k * n < 0 /\ -(k * n) = k * (-n)
      BY <2>2
    <3> QED  BY <1>2, <2>2, <3>1 DEF Abs
  <2> QED  BY <2>1, <2>2
<1>5. h = k * g
  <2>1. PICK m \in Nat, e \in Nat : m = Abs(n) /\ e = d
    BY AbsFacts
  <2>2. gcd[<<k * m, k * e>>] = k * gcd[<<m, e>>]
    BY GcdScales
  <2> QED  BY <1>1, <1>2, <1>3, <1>4, <2>1, <2>2
<1>6. h * x = h * u /\ h * y = h * v
  <2>1. (k * g) * x = k * (g * x) /\ (k * g) * y = k * (g * y)
    OBVIOUS
  <2> QED  BY <1>1, <1>2, <1>3, <1>5, <2>1
<1>7. x = u /\ y = v
  BY <1>6
<1> QED
  BY <1>1, <1>2, <1>3, <1>7

\* Two ways to write the same fraction.
LEMMA RatioEqual ==
    ASSUME NEW a \in Int, NEW b \in Nat \ {0}, NEW c \in Int, NEW d \in Nat \ {0}, a * d = c * b
    PROVE  Ratio(a, b) = Ratio(c, d)
<1>1. Ratio(d * a, d * b) = Ratio(a, b) /\ Ratio(b * c, b * d) = Ratio(c, d)
  BY RatioScales
<1>2. d * a = b * c /\ d * b = b * d
  OBVIOUS
<1> QED
  BY <1>1, <1>2

\* A whole number is the fraction over 1.
LEMMA WholeIsRatio ==
    ASSUME NEW n \in Int
    PROVE  Whole(n) = Ratio(n, 1)
<1>1. PICK g \in Nat \ {0}, x \in Int, y \in Nat \ {0} : n = g * x /\ 1 = g * y /\ Ratio(n, 1) = <<x, y>>
  <2>1. PICK d \in Nat \ {0} : d = 1
    OBVIOUS
  <2>2. \E g \in Nat \ {0}, x \in Int, y \in Nat \ {0} :
            n = g * x /\ d = g * y /\ Ratio(n, d) = <<x, y>> /\ g = gcd[<<Abs(n), d>>]
    BY RatioForm
  <2> QED  BY <2>1, <2>2
<1>2. g = 1 /\ y = 1
  BY <1>1
<1> QED
  BY <1>1, <1>2 DEF Whole

\* The product of fractions, whether or not they are reduced.
LEMMA PairTimes ==
    ASSUME NEW a \in Int, NEW b \in Nat \ {0}, NEW c \in Int, NEW d \in Nat \ {0}
    PROVE  Times(<<a, b>>, <<c, d>>) = Ratio(a * c, b * d)
<1>1. PICK g \in Nat \ {0}, p \in Int, q \in Nat \ {0} : a = g * p /\ d = g * q /\ Ratio(a, d) = <<p, q>>
  BY RatioParts, ZenonT(60) DEF Reduces
<1>2. PICK h \in Nat \ {0}, r \in Int, s \in Nat \ {0} : c = h * r /\ b = h * s /\ Ratio(c, b) = <<r, s>>
  <2>1. Reduces(c, b)
    BY RatioParts
  <2> QED  BY ONLY <2>1 DEF Reduces
<1>3. Times(<<a, b>>, <<c, d>>) = Ratio(p * r, q * s)
  BY <1>1, <1>2 DEF Times
<1>4. PICK k \in Nat \ {0}, n \in Int, m \in Nat \ {0} : k = g * h /\ n = p * r /\ m = q * s
  OBVIOUS
<1>5. a * c = k * n /\ b * d = k * m
  <2>1. (g * p) * (h * r) = (g * h) * (p * r) /\ (h * s) * (g * q) = (g * h) * (q * s)
    OBVIOUS
  <2> QED  BY <1>1, <1>2, <1>4, <2>1
<1>6. Ratio(k * n, k * m) = Ratio(n, m)
  BY RatioScales
<1> QED
  BY <1>3, <1>4, <1>5, <1>6

\* The sum of fractions, whether or not they are reduced.
LEMMA PairPlus ==
    ASSUME NEW a \in Int, NEW b \in Nat \ {0}, NEW c \in Int, NEW d \in Nat \ {0}
    PROVE  Plus(<<a, b>>, <<c, d>>) = Ratio(a * d + c * b, b * d)
<1>1. PICK g \in Nat \ {0}, u \in Nat, v \in Nat : g = gcd[<<b, d>>] /\ b = g * u /\ d = g * v
  <2>1. PICK i \in Nat, j \in Nat : i = b /\ j = d /\ i # 0
    OBVIOUS
  <2>2. gcd[<<i, j>>] \in Nat \ {0} /\ \E u \in Nat, v \in Nat : i = gcd[<<i, j>>] * u /\ j = gcd[<<i, j>>] * v
    BY <2>1, GcdDivides
  <2> QED  BY <2>1, <2>2
<1>2. u # 0 /\ v # 0
  BY <1>1
<1>3. b \div g = u /\ d \div g = v
  <2>1. (g * u) \div g = u
    BY ExactDivision
  <2>2. (g * v) \div g = v
    BY ExactDivision
  <2> QED  BY <1>1, <2>1, <2>2
<1>4. Plus(<<a, b>>, <<c, d>>) = Ratio(a * v + c * u, u * d)
  BY <1>1, <1>3 DEF Plus
<1>5. PICK n \in Int, m \in Nat \ {0} : n = a * v + c * u /\ m = u * d
  BY <1>2
<1>6. a * d + c * b = g * n /\ b * d = g * m
  <2>1. a * (g * v) + c * (g * u) = g * (a * v + c * u) /\ (g * u) * d = g * (u * d)
    OBVIOUS
  <2> QED  BY <1>1, <1>5, <2>1
<1>7. Ratio(g * n, g * m) = Ratio(n, m)
  BY RatioScales
<1> QED
  BY <1>4, <1>5, <1>6, <1>7

\* The sum of whole numbers.
LEMMA WholePlus ==
    ASSUME NEW a \in Int, NEW b \in Int
    PROVE  Plus(Whole(a), Whole(b)) = Whole(a + b)
<1>1. PICK d \in Nat \ {0} : d = 1
  OBVIOUS
<1>2. Plus(<<a, d>>, <<b, d>>) = Ratio(a * d + b * d, d * d)
  BY PairPlus
<1>3. a * d + b * d = a + b /\ d * d = 1
  BY <1>1
<1> QED
  BY <1>1, <1>2, <1>3, WholeIsRatio DEF Whole

\* A number times a fraction whose denominator divides the number.
LEMMA RatioTimesWhole ==
    ASSUME NEW a \in Int, NEW b \in Nat \ {0}, NEW c \in Int
    PROVE  Times(Ratio(a, b), Whole(b * c)) = Whole(a * c)
<1>1. PICK g \in Nat \ {0}, x \in Int, y \in Nat \ {0} : a = g * x /\ b = g * y /\ Ratio(a, b) = <<x, y>>
  BY RatioParts DEF Reduces
<1>2. PICK n \in Int, d \in Nat \ {0} : n = b * c /\ d = 1
  OBVIOUS
<1>3. Times(<<x, y>>, <<n, d>>) = Ratio(x * n, y * d)
  BY PairTimes
<1>4. PICK m \in Int : m = a * c
  OBVIOUS
<1>5. x * n = y * m /\ y * d = y * 1
  <2>1. x * ((g * y) * c) = y * ((g * x) * c)
    OBVIOUS
  <2> QED  BY <1>1, <1>2, <1>4, <2>1
<1>6. Ratio(y * m, y * d) = Ratio(m, d)
  BY RatioScales
<1> QED
  BY <1>1, <1>2, <1>3, <1>4, <1>5, <1>6, WholeIsRatio DEF Whole

\* The quotient of whole numbers.
LEMMA WholeOver ==
    ASSUME NEW a \in Int, NEW b \in Nat \ {0}
    PROVE  Over(Whole(a), Whole(b)) = Ratio(a, b)
<1>1. PICK d \in Nat \ {0} : d = 1
  OBVIOUS
<1>2. Times(<<a, d>>, <<d, b>>) = Ratio(a * d, d * b)
  BY PairTimes
<1>3. a * d = a /\ d * b = b /\ d * 1 = d
  BY <1>1
<1>4. Over(<<a, d>>, <<b, d>>) = Times(<<a, d>>, <<d * 1, b>>)
  BY AbsFacts DEF Over
<1> QED
  BY <1>1, <1>2, <1>3, <1>4 DEF Whole

-----------------------------------------------------------------------------
(* Sums of fractions.                                                      *)

\* The recursion of Total.
TotalsUp(g, f, S) == \A T \in SUBSET S : g[T] = IF T = {} THEN Zero ELSE Plus(f[First(T)], g[T \ {First(T)}])

\* Adding the values of f does not lead out of V.
ClosedUnder(V, f, S) == Zero \in V /\ \A x \in S, v \in V : Plus(f[x], v) \in V

\* Total is the value that a function on the subsets has on the whole set, which
\* adds one fraction at a time.
LEMMA TotalRecursion ==
    ASSUME NEW S, IsFiniteSet(S), NEW f, DOMAIN f = S, NEW V, ClosedUnder(V, f, S)
    PROVE  \E g \in [SUBSET S -> V] : Total(f) = g[S] /\ TotalsUp(g, f, S)
<1>1. PICK pick : pick = [T \in (SUBSET S) \ {{}} |-> First(T)]
  OBVIOUS
<1>2. PICK step : step = [p \in S \X V |-> Plus(f[p[1]], p[2])]
  OBVIOUS
<1>3. \A T \in SUBSET S : T # {} => pick[T] \in T /\ pick[T] = First(T)
  BY <1>1 DEF First
<1>4. step \in [S \X V -> V]
  BY <1>2 DEF ClosedUnder
<1>5. PICK g \in [SUBSET S -> V] : Recursion(g, S, Zero, step, pick)
  <2>1. Picks(pick, S)
    BY <1>3 DEF Picks
  <2>2. Zero \in V
    BY DEF ClosedUnder
  <2> QED  BY <1>4, <2>1, <2>2, FiniteRecursion, Zenon
<1>6. ASSUME NEW T \in SUBSET S
      PROVE  g[T] = IF T = {} THEN Zero ELSE Plus(f[First(T)], g[T \ {First(T)}])
  <2>1. T # {} => pick[T] = First(T)
    BY <1>3
  <2>2. T # {} => pick[T] \in S /\ g[T \ {pick[T]}] \in V
    BY <1>3
  <2>3. T # {} => step[<<pick[T], g[T \ {pick[T]}]>>] = Plus(f[pick[T]], g[T \ {pick[T]}])
    BY <1>2, <2>2
  <2> QED  BY <1>5, <2>1, <2>3 DEF Recursion
<1> DEFINE Iter(h) == h = [T \in SUBSET S |-> IF T = {} THEN Zero ELSE Plus(f[First(T)], h[T \ {First(T)}])]
<1>7. Iter(g)
  BY <1>6
<1>8. PICK it : it = CHOOSE h : Iter(h)
  OBVIOUS
<1>9. Iter(it)
  <2> HIDE DEF Iter
  <2> QED  BY <1>7, <1>8
<1>10. Total(f) = it[S]
  BY <1>8 DEF First, Total
<1>11. it[S] = g[S]
  <2>1. PICK B : B = {T \in SUBSET S : it[T] # g[T]}
    OBVIOUS
  <2> SUFFICES ASSUME B # {} PROVE FALSE
    BY <2>1
  <2>2. PICK T \in B : \A U \in B : U \subseteq T => U = T
    <3>1. B \in SUBSET SUBSET S
      BY <2>1
    <3> QED  BY <3>1, MinimalSubset
  <2>3. it[T] = IF T = {} THEN Zero ELSE Plus(f[First(T)], it[T \ {First(T)}])
    BY <1>9, <2>1
  <2>4. T # {} => First(T) \in T
    BY DEF First
  <2>5. T # {} => T \ {First(T)} \notin B
    BY <2>2, <2>4
  <2> QED  BY <1>6, <2>1, <2>3, <2>5
<1>12. TotalsUp(g, f, S)
  BY <1>6 DEF TotalsUp
<1> QED
  BY <1>10, <1>11, <1>12

\* Of whole numbers it is the sum.
LEMMA TotalOfWhole ==
    ASSUME NEW S, IsFiniteSet(S), NEW f, DOMAIN f = S,
           NEW n, IntegersOn(n, S), \A x \in S : f[x] = Whole(n[x])
    PROVE  Total(f) = Whole(SumFunctionOnSet(n, S))
<1>1. PICK V : V = {Whole(i) : i \in Int}
  OBVIOUS
<1>2. ClosedUnder(V, f, S)
  <2>1. Zero \in V
    BY <1>1 DEF Zero
  <2>2. ASSUME NEW x \in S, NEW v \in V PROVE Plus(f[x], v) \in V
    <3>1. PICK i \in Int, j \in Int : f[x] = Whole(i) /\ v = Whole(j)
      BY <1>1 DEF IntegersOn
    <3>2. Plus(f[x], v) = Whole(i + j)
      BY <3>1, WholePlus
    <3> QED  BY <1>1, <3>2
  <2> QED  BY <2>1, <2>2 DEF ClosedUnder
<1>3. PICK g \in [SUBSET S -> V] : Total(f) = g[S] /\ TotalsUp(g, f, S)
  BY <1>2, TotalRecursion
<1>4. PICK B : B = {T \in SUBSET S : g[T] # Whole(SumFunctionOnSet(n, T))}
  OBVIOUS
<1> SUFFICES ASSUME B # {} PROVE FALSE
  BY <1>3, <1>4
<1>5. PICK T \in B : \A U \in B : U \subseteq T => U = T
  <2>1. B \in SUBSET SUBSET S
    BY <1>4
  <2> QED  BY <2>1, MinimalSubset
<1>6. T \in SUBSET S /\ g[T] # Whole(SumFunctionOnSet(n, T))
  BY <1>4
<1>7. T # {}
  <2>1. SumFunctionOnSet(n, {}) = 0
    BY SumEmpty
  <2> QED  BY <1>3, <1>6, <2>1 DEF TotalsUp, Zero
<1>8. PICK c : c = First(T) /\ c \in T
  BY <1>7 DEF First
<1>15. PICK U : U = T \ {c}
  OBVIOUS
<1>9. U \in SUBSET S /\ U = T \ {c} /\ c \in S \ U /\ T = U \union {c}
  BY <1>6, <1>8, <1>15
<1>10. U \notin B
  BY <1>5, <1>8, <1>9
<1>11. g[U] = Whole(SumFunctionOnSet(n, U))
  BY <1>4, <1>9, <1>10
<1>12. /\ SumFunctionOnSet(n, U) \in Int
       /\ n[c] \in Int
       /\ SumFunctionOnSet(n, U \union {c}) = n[c] + SumFunctionOnSet(n, U)
  <2>1. Grows(n, S)
    BY SumGrows
  <2> QED  BY <1>9, <2>1 DEF Grows
<1>13. g[T] = Plus(f[c], g[U])
  BY <1>3, <1>6, <1>7, <1>8, <1>9 DEF TotalsUp
<1>14. Plus(Whole(n[c]), Whole(SumFunctionOnSet(n, U))) = Whole(n[c] + SumFunctionOnSet(n, U))
  BY <1>12, WholePlus
<1> QED
  BY <1>6, <1>8, <1>9, <1>11, <1>12, <1>13, <1>14

\* The mean of parts, weighted with their sizes, is the mean of the whole:
\* part i has the sum s[i] over n[i] elements.
THEOREM WeightedMeanPools ==
    ASSUME NEW S, IsFiniteSet(S), S # {}, NEW s, IntegersOn(s, S), NEW n, \A i \in S : n[i] \in Nat \ {0},
           NEW c \in Nat \ {0}, NEW f, DOMAIN f = S, \A i \in S : f[i] = Ratio(s[i], n[i]),
           NEW w, DOMAIN w = S, \A i \in S : w[i] = Whole(n[i] * c)
    PROVE  WeightedMean(f, w) = Ratio(SumFunctionOnSet(s, S), SumFunctionOnSet(n, S))
<1>1. PICK t : t = [i \in S |-> Times(f[i], w[i])]
  OBVIOUS
<1>2. PICK sc, nc : sc = [i \in S |-> s[i] * c] /\ nc = [i \in S |-> n[i] * c]
  OBVIOUS
<1>3. IntegersOn(n, S) /\ IntegersOn(sc, S) /\ IntegersOn(nc, S)
  BY <1>2 DEF IntegersOn
<1>4. \A i \in S : t[i] = Whole(sc[i])
  <2>1. SUFFICES ASSUME NEW i \in S PROVE t[i] = Whole(sc[i])
    OBVIOUS
  <2>2. PICK a \in Int, b \in Nat \ {0} : a = s[i] /\ b = n[i]
    BY DEF IntegersOn
  <2>3. Times(Ratio(a, b), Whole(b * c)) = Whole(a * c)
    <3>1. \A i1 \in Int, i2 \in Nat \ {0}, i3 \in Int : Times(Ratio(i1, i2), Whole(i2 * i3)) = Whole(i1 * i3)
      BY RatioTimesWhole
    <3>2. c \in Int
      OBVIOUS
    <3> QED  BY <3>1, <3>2
  <2>4. t[i] = Times(Ratio(a, b), Whole(b * c))
    BY <1>1, <2>2
  <2>5. sc[i] = a * c
    BY <1>2, <2>2
  <2> QED  BY <2>3, <2>4, <2>5
<1>5. \A i \in S : w[i] = Whole(nc[i])
  BY <1>2
<1>6. Total(t) = Whole(SumFunctionOnSet(sc, S))
  <2>1. DOMAIN t = S
    BY <1>1
  <2> QED  BY <1>3, <1>4, <2>1, TotalOfWhole
<1>7. Total(w) = Whole(SumFunctionOnSet(nc, S))
  BY <1>3, <1>5, TotalOfWhole
<1>8. PICK x \in Int, y \in Nat \ {0} : x = SumFunctionOnSet(s, S) /\ y = SumFunctionOnSet(n, S)
  <2>1. SumFunctionOnSet(s, S) \in Int
    BY SumType
  <2>2. SumFunctionOnSet(n, S) \in Nat /\ \A i \in S : SumFunctionOnSet(n, S) >= n[i]
    BY SumAtLeast
  <2>3. SumFunctionOnSet(n, S) # 0
    BY <2>2
  <2> QED  BY <2>1, <2>2, <2>3
<1>9. SumFunctionOnSet(sc, S) = x * c
  <2>1. \A i \in S : sc[i] = s[i] * c
    BY <1>2
  <2> QED  BY <1>8, <2>1, SumTimes
<1>10. SumFunctionOnSet(nc, S) = y * c
  <2>1. \A i \in S : nc[i] = n[i] * c
    BY <1>2
  <2> QED  BY <1>3, <1>8, <2>1, SumTimes
<1>11. Over(Whole(x * c), Whole(y * c)) = Ratio(x * c, y * c)
  <2>1. x * c \in Int /\ y * c \in Nat \ {0}
    OBVIOUS
  <2> QED  BY <2>1, WholeOver
<1>12. Ratio(x * c, y * c) = Ratio(x, y)
  <2>1. Ratio(c * x, c * y) = Ratio(x, y)
    BY RatioScales
  <2>2. c * x = x * c /\ c * y = y * c
    OBVIOUS
  <2> QED  BY <2>1, <2>2
<1>13. WeightedMean(f, w) = Over(Total(t), Total(w))
  BY <1>1 DEF WeightedMean
<1> QED
  BY <1>6, <1>7, <1>8, <1>9, <1>10, <1>11, <1>12, <1>13

-----------------------------------------------------------------------------
(* Sets of pairs.                                                          *)

\* b runs through T, meeting nothing twice.
Enumerates(b, S, T) ==
    /\ \A s \in S : b[s] \in T
    /\ \A t \in T : \E s \in S : b[s] = t
    /\ \A r, s \in S : b[r] = b[s] => r = s

\* What a finite set enumerates is finite, and as large.
LEMMA SameSize ==
    ASSUME NEW S, IsFiniteSet(S), NEW b, NEW T, Enumerates(b, S, T)
    PROVE  IsFiniteSet(T) /\ Cardinality(T) = Cardinality(S)
<1>1. PICK f : f = [s \in S |-> b[s]]
  OBVIOUS
<1>2. f \in Bijection(S, T)
  <2>1. f \in [S -> T] /\ \A t \in T : \E s \in S : f[s] = t
    BY <1>1 DEF Enumerates
  <2>2. \A r, s \in S : f[r] = f[s] => r = s
    BY <1>1 DEF Enumerates
  <2> QED  BY <2>1, <2>2 DEF Bijection, Injection, Surjection, IsInjective
<1>3. ExistsBijection(S, T)
  BY <1>2 DEF ExistsBijection
<1> QED
  BY <1>3, FS_Bijection

\* The images of the elements of a finite set are finitely many.
LEMMA FiniteImage ==
    ASSUME NEW S, IsFiniteSet(S), NEW b, NEW T, \A s \in S : b[s] \in T, \A t \in T : \E s \in S : b[s] = t
    PROVE  IsFiniteSet(T)
<1>1. PICK f : f = [s \in S |-> b[s]]
  OBVIOUS
<1>2. f \in Surjection(S, T)
  <2>1. f \in [S -> T] /\ \A t \in T : \E s \in S : f[s] = t
    BY <1>1
  <2> QED  BY <2>1 DEF Surjection
<1> QED
  BY <1>2, FS_Surjection

\* The members of all N[i], each with its i.
PairsOf(I, N) == UNION {{<<i, l>> : l \in N[i]} : i \in I}

\* They are finitely many.
LEMMA PairsFinite ==
    ASSUME NEW I, IsFiniteSet(I), NEW N, \A i \in I : IsFiniteSet(N[i])
    PROVE  IsFiniteSet(PairsOf(I, N))
<1>1. PICK row : row = [i \in I |-> {<<i, l>> : l \in N[i]}]
  OBVIOUS
<1>2. PICK T : T = {row[i] : i \in I}
  OBVIOUS
<1>3. IsFiniteSet(T)
  <2>1. (\A i \in I : row[i] \in T) /\ \A t \in T : \E i \in I : row[i] = t
    BY <1>2
  <2> QED  BY <2>1, FiniteImage
<1>4. \A t \in T : IsFiniteSet(t)
  <2>1. SUFFICES ASSUME NEW i \in I PROVE IsFiniteSet(row[i])
    BY <1>2
  <2>2. PICK M : M = N[i] /\ IsFiniteSet(M)
    OBVIOUS
  <2>3. PICK b : b = [l \in M |-> <<i, l>>]
    OBVIOUS
  <2>4. row[i] = {<<i, l>> : l \in M}
    BY <1>1, <2>2
  <2>5. (\A l \in M : b[l] \in row[i]) /\ \A t \in row[i] : \E l \in M : b[l] = t
    BY <2>3, <2>4
  <2> QED  BY <2>2, <2>5, FiniteImage
<1>5. PairsOf(I, N) = UNION T
  BY <1>1, <1>2 DEF PairsOf
<1> QED
  BY <1>3, <1>4, <1>5, FS_UNION

\* Their sum is the sum of the sums for each i.
LEMMA SumOfPairs ==
    ASSUME NEW I, IsFiniteSet(I), NEW N, \A i \in I : IsFiniteSet(N[i]),
           NEW f, IntegersOn(f, PairsOf(I, N)),
           NEW g, \A i \in I : \A l \in N[i] : g[i][l] = f[<<i, l>>],
           NEW h, \A i \in I : h[i] = SumFunctionOnSet(g[i], N[i])
    PROVE  SumFunctionOnSet(h, I) = SumFunctionOnSet(f, PairsOf(I, N))
<1>1. PICK P : P = PairsOf(I, N)
  OBVIOUS
<1>2. IsFiniteSet(P) /\ IntegersOn(f, P)
  BY <1>1, PairsFinite
<1>3. PICK key : key = [p \in P |-> p[1]]
  OBVIOUS
<1>4. \A p \in P : key[p] \in I
  BY <1>1, <1>3 DEF PairsOf
<1>5. ASSUME NEW i \in I PROVE h[i] = SumFunctionOnSet(f, PartOf(P, key, i))
  <2>0. PICK T : T = PartOf(P, key, i)
    OBVIOUS
  <2>1. T = {p \in P : key[p] = i}
    BY <2>0 DEF PartOf
  <2>2. PICK M : M = N[i] /\ IsFiniteSet(M)
    OBVIOUS
  <2>3. PICK b : b = [l \in M |-> <<i, l>>]
    OBVIOUS
  <2>4. \A l \in M : <<i, l>> \in P
    BY <1>1, <2>2 DEF PairsOf
  <2>5. \A l \in M : b[l] \in T
    BY <1>3, <2>1, <2>3, <2>4
  <2>6. \A t \in T : \E l \in M : b[l] = t
    <3>1. SUFFICES ASSUME NEW t \in T PROVE \E l \in M : b[l] = t
      OBVIOUS
    <3>2. PICK j \in I : \E l \in N[j] : t = <<j, l>>
      BY <1>1, <2>1 DEF PairsOf
    <3>4. PICK l \in N[j] : t = <<j, l>>
      BY <3>2
    <3>3. j = i
      BY <1>3, <2>1, <3>4
    <3> QED  BY <2>2, <2>3, <3>4, <3>3
  <2>7. \A k, l \in M : b[k] = b[l] => k = l
    BY <2>3
  <2>8. PICK e : e = g[i]
    OBVIOUS
  <2>9. IntegersOn(e, M)
    BY <1>1, <2>2, <2>4, <2>8 DEF IntegersOn
  <2>10. \A l \in M : f[b[l]] = e[l]
    BY <2>2, <2>3, <2>8
  <2>11. SumFunctionOnSet(f, T) = SumFunctionOnSet(e, M)
    BY <2>2, <2>5, <2>6, <2>7, <2>9, <2>10, SumOfImages, SMTT(30)
  <2> QED  BY <2>0, <2>2, <2>8, <2>11
<1>6. SumFunctionOnSet(h, I) = SumFunctionOnSet(f, P)
  BY <1>2, <1>4, <1>5, SumOfParts
<1> QED
  BY <1>1, <1>6

\* And their number the sum of the numbers.
LEMMA NumberOfPairs ==
    ASSUME NEW I, IsFiniteSet(I), NEW N, \A i \in I : IsFiniteSet(N[i]),
           NEW h, \A i \in I : h[i] = Cardinality(N[i])
    PROVE  SumFunctionOnSet(h, I) = Cardinality(PairsOf(I, N))
<1>1. PICK P : P = PairsOf(I, N)
  OBVIOUS
<1>2. IsFiniteSet(P)
  BY <1>1, PairsFinite
<1>3. PICK c \in Int : c = 1
  OBVIOUS
<1>4. PICK f : f = [p \in P |-> c]
  OBVIOUS
<1>5. PICK g : g = [i \in I |-> [l \in N[i] |-> c]]
  OBVIOUS
<1>6. SumFunctionOnSet(f, P) = c * Cardinality(P)
  BY <1>2, <1>4, SumOfConstant
<1>7. \A i \in I : h[i] = SumFunctionOnSet(g[i], N[i])
  <2>1. SUFFICES ASSUME NEW i \in I PROVE h[i] = SumFunctionOnSet(g[i], N[i])
    OBVIOUS
  <2>2. PICK M, e : M = N[i] /\ IsFiniteSet(M) /\ e = g[i]
    OBVIOUS
  <2>3. \A l \in M : e[l] = c
    BY <1>5, <2>2
  <2>4. SumFunctionOnSet(e, M) = c * Cardinality(M)
    BY <2>2, <2>3, SumOfConstant
  <2>5. Cardinality(M) \in Nat
    BY <2>2, FS_CardinalityType
  <2> QED  BY <1>3, <2>2, <2>4, <2>5
<1>8. \A i \in I : \A l \in N[i] : g[i][l] = f[<<i, l>>]
  BY <1>1, <1>4, <1>5 DEF PairsOf
<1>9. SumFunctionOnSet(h, I) = SumFunctionOnSet(f, PairsOf(I, N))
  <2>1. IntegersOn(f, PairsOf(I, N))
    BY <1>1, <1>4 DEF IntegersOn
  <2> QED  BY <1>7, <1>8, <2>1, SumOfPairs
<1>10. Cardinality(P) \in Nat
  BY <1>2, FS_CardinalityType
<1> QED
  BY <1>1, <1>3, <1>6, <1>9, <1>10

\* Counted in parts, every element is counted once.
LEMMA CountedParts ==
    ASSUME NEW S, IsFiniteSet(S), NEW I, IsFiniteSet(I), NEW key, \A s \in S : key[s] \in I, NEW c \in Int,
           NEW h, \A i \in I : h[i] = Cardinality(PartOf(S, key, i)) * c
    PROVE  SumFunctionOnSet(h, I) = Cardinality(S) * c /\ IntegersOn(h, I)
<1>1. PICK f : f = [s \in S |-> c]
  OBVIOUS
<1>2. IntegersOn(f, S)
  BY <1>1 DEF IntegersOn
<1>3. ASSUME NEW i \in I
      PROVE  h[i] = SumFunctionOnSet(f, PartOf(S, key, i)) /\ h[i] \in Int
  <2>1. PICK T : T = PartOf(S, key, i)
    OBVIOUS
  <2>2. IsFiniteSet(T) /\ \A s \in T : f[s] = c
    BY <1>1, <2>1, FS_Subset DEF PartOf
  <2>3. SumFunctionOnSet(f, T) = c * Cardinality(T)
    BY <2>2, SumOfConstant
  <2>4. PICK size \in Nat : size = Cardinality(T)
    BY <2>2, FS_CardinalityType
  <2>5. c * size = size * c /\ size * c \in Int
    OBVIOUS
  <2> QED  BY <2>1, <2>3, <2>4, <2>5
<1>4. ASSUME NEW i \in I PROVE h[i] = SumFunctionOnSet(f, PartOf(S, key, i))
  BY <1>3
<1>5. SumFunctionOnSet(h, I) = SumFunctionOnSet(f, S)
  BY <1>2, <1>4, SumOfParts
<1>6. SumFunctionOnSet(f, S) = c * Cardinality(S)
  BY <1>1, SumOfConstant
<1>7. PICK size \in Nat : size = Cardinality(S)
  BY FS_CardinalityType
<1>8. c * size = size * c
  OBVIOUS
<1>9. IntegersOn(h, I)
  BY <1>3 DEF IntegersOn
<1> QED
  BY <1>5, <1>6, <1>7, <1>8, <1>9


\* What a whole number is divided by takes it back.
LEMMA WholeTimesOver ==
    ASSUME NEW a \in Int, NEW b \in Nat \ {0}
    PROVE  Times(Whole(b), Over(Whole(a), Whole(b))) = Whole(a)
<1>1. PICK x \in Int, y \in Nat \ {0} : Ratio(a, b) = <<x, y>>
  <2>1. Reduces(a, b)
    BY RatioParts
  <2> QED  BY ONLY <2>1 DEF Reduces
<1>2. PICK d \in Nat \ {0}, c \in Int : d = 1 /\ c = 1
  OBVIOUS
<1>3. Times(<<b, d>>, <<x, y>>) = Ratio(b * x, d * y)
  BY PairTimes
<1>4. Times(<<x, y>>, <<b, d>>) = Ratio(x * b, y * d)
  BY PairTimes
<1>5. b * x = x * b /\ d * y = y * d /\ b * c = b /\ a * c = a
  BY <1>2
<1>6. Times(Ratio(a, b), Whole(b * c)) = Whole(a * c)
  BY RatioTimesWhole
<1> QED
  BY <1>1, <1>2, <1>3, <1>4, <1>5, <1>6, WholeOver DEF Whole

\* A sum over what a set enumerates.
LEMMA SumOfEnumerated ==
    ASSUME NEW S, IsFiniteSet(S), NEW f, IntegersOn(f, S), NEW b, NEW T, Enumerates(b, S, T),
           NEW h, \A s \in S : h[b[s]] = f[s]
    PROVE  SumFunctionOnSet(h, T) = SumFunctionOnSet(f, S)
<1>1. /\ \A s \in S : b[s] \in T
      /\ \A t \in T : \E s \in S : b[s] = t
      /\ \A r, s \in S : b[r] = b[s] => r = s
  BY DEF Enumerates
<1> QED
  BY <1>1, SumOfImages


-----------------------------------------------------------------------------
(* Sums and means of any fractions: over a common denominator.             *)

IsRatio(x) == \E n \in Int, d \in Nat \ {0} : x = Ratio(n, d)

\* Fractions with one denominator are added by their numerators.
LEMMA RatioPlusRatio ==
    ASSUME NEW a \in Int, NEW b \in Int, NEW d \in Nat \ {0}
    PROVE  Plus(Ratio(a, d), Ratio(b, d)) = Ratio(a + b, d)
<1>1. PICK g \in Nat \ {0}, p \in Int, q \in Nat \ {0} : a = g * p /\ d = g * q /\ Ratio(a, d) = <<p, q>>
  BY RatioParts DEF Reduces
<1>2. PICK h \in Nat \ {0}, r \in Int, s \in Nat \ {0} : b = h * r /\ d = h * s /\ Ratio(b, d) = <<r, s>>
  <2>1. Reduces(b, d)
    BY RatioParts
  <2> QED  BY ONLY <2>1 DEF Reduces
<1>3. PICK n \in Int, m \in Nat \ {0} : n = p * s + r * q /\ m = q * s
  <2>1. p * s + r * q \in Int /\ q * s \in Nat \ {0}
    BY ProductFacts
  <2> QED  BY <2>1
<1>4. Plus(Ratio(a, d), Ratio(b, d)) = Ratio(n, m)
  BY <1>1, <1>2, <1>3, PairPlus
<1>5. n * d = (a + b) * m
  <2>1. (p * s) * d = a * m
    <3>1. (p * s) * (g * q) = (g * p) * (q * s)
      OBVIOUS
    <3> QED  BY <1>1, <1>3, <3>1
  <2>2. (r * q) * d = b * m
    <3>1. (r * q) * (h * s) = (h * r) * (q * s)
      OBVIOUS
    <3> QED  BY <1>2, <1>3, <3>1
  <2>3. (p * s + r * q) * d = (p * s) * d + (r * q) * d
    OBVIOUS
  <2>4. (a + b) * m = a * m + b * m
    OBVIOUS
  <2> QED  BY <1>3, <2>1, <2>2, <2>3, <2>4
<1> QED
  BY <1>3, <1>4, <1>5, RatioEqual

\* A fraction is taken from a whole number.
LEMMA WholeMinusRatio ==
    ASSUME NEW c \in Int, NEW a \in Int, NEW d \in Nat \ {0}
    PROVE  Minus(Whole(c), Ratio(a, d)) = Ratio(c * d - a, d)
<1>1. PICK g \in Nat \ {0}, p \in Int, q \in Nat \ {0} : a = g * p /\ d = g * q /\ Ratio(a, d) = <<p, q>>
  BY RatioParts DEF Reduces
<1>2. PICK e \in Nat \ {0}, m \in Int : e = 1 /\ m = -p
  OBVIOUS
<1>3. Plus(<<c, e>>, <<m, q>>) = Ratio(c * q + m * e, e * q)
  BY PairPlus
<1>4. c * q + m * e = c * q - p /\ e * q = q
  BY <1>2
<1>5. Minus(Whole(c), Ratio(a, d)) = Ratio(c * q - p, q)
  BY <1>1, <1>2, <1>3, <1>4 DEF Minus, Whole
<1>6. (c * q - p) * d = (c * d - a) * q
  <2>1. (c * q - p) * (g * q) = (c * (g * q) - g * p) * q
    OBVIOUS
  <2> QED  BY <1>1, <2>1
<1>7. PICK n \in Int, o \in Int : n = c * q - p /\ o = c * d - a
  OBVIOUS
<1>8. n * d = o * q
  BY <1>6, <1>7
<1> QED
  BY <1>5, <1>7, <1>8, RatioEqual

\* A fraction is divided by a whole number.
LEMMA RatioOverWhole ==
    ASSUME NEW a \in Int, NEW d \in Nat \ {0}, NEW k \in Nat \ {0}
    PROVE  Over(Ratio(a, d), Whole(k)) = Ratio(a, d * k)
<1>1. PICK g \in Nat \ {0}, p \in Int, q \in Nat \ {0} : a = g * p /\ d = g * q /\ Ratio(a, d) = <<p, q>>
  BY RatioParts DEF Reduces
<1>2. PICK e \in Int : e = 1
  OBVIOUS
<1>3. Over(<<p, q>>, Whole(k)) = Times(<<p, q>>, <<e, k>>)
  <2>1. k # 0 /\ ~(k < 0) /\ Abs(k) = k
    BY DEF Abs
  <2> QED  BY <1>2, <2>1 DEF Over, Whole
<1>4. Times(<<p, q>>, <<e, k>>) = Ratio(p * e, q * k)
  BY PairTimes
<1>5. p * e = p
  BY <1>2
<1>6. PICK m \in Nat \ {0}, o \in Nat \ {0} : m = q * k /\ o = d * k
  BY ProductFacts
<1>7. p * o = a * m
  <2>1. p * ((g * q) * k) = (g * p) * (q * k)
    OBVIOUS
  <2> QED  BY <1>1, <1>6, <2>1
<1> QED
  BY <1>1, <1>3, <1>4, <1>5, <1>6, <1>7, RatioEqual

\* A fraction is known.
LEMMA RatioIsFraction ==
    ASSUME NEW a \in Int, NEW d \in Nat \ {0}
    PROVE  IsFraction(Ratio(a, d))
<1>1. PICK x \in Int, y \in Nat \ {0} : Ratio(a, d) = <<x, y>>
  <2>1. Reduces(a, d)
    BY RatioParts
  <2> QED  BY ONLY <2>1 DEF Reduces
<1> QED
  BY <1>1 DEF IsFraction

\* f is a over the denominator d.
OverOne(f, S, a, d) == IntegersOn(a, S) /\ \A x \in S : f[x] = Ratio(a[x], d)

\* Finitely many fractions have a common denominator.
LEMMA CommonDenominator ==
    ASSUME NEW S, IsFiniteSet(S), NEW f, \A x \in S : IsRatio(f[x])
    PROVE  \E d \in Nat \ {0} : \E a : OverOne(f, S, a, d)
<1>1. PICK F : F = {T \in SUBSET S : \E d \in Nat \ {0} : \A x \in T : \E n \in Int : f[x] = Ratio(n, d)}
  OBVIOUS
<1>2. {} \in F
  <2>1. 1 \in Nat \ {0}
    OBVIOUS
  <2> QED  BY <1>1, <2>1
<1>3. ASSUME NEW T \in SUBSET S, NEW y \in S \ T, T \in F PROVE T \union {y} \in F
  <2>1. PICK d \in Nat \ {0} : \A x \in T : \E n \in Int : f[x] = Ratio(n, d)
    BY <1>1, <1>3
  <2>2. PICK m \in Int, e \in Nat \ {0} : f[y] = Ratio(m, e)
    BY DEF IsRatio
  <2>3. PICK c \in Nat \ {0} : c = d * e /\ c = e * d
    BY ProductFacts
  <2>4. ASSUME NEW x \in T PROVE \E n \in Int : f[x] = Ratio(n, c)
    <3>1. PICK n \in Int : f[x] = Ratio(n, d)
      BY <2>1
    <3>2. Ratio(e * n, e * d) = Ratio(n, d) /\ e * n \in Int
      BY RatioScales
    <3> QED  BY <2>3, <3>1, <3>2
  <2>5. \E n \in Int : f[y] = Ratio(n, c)
    <3>1. Ratio(d * m, d * e) = Ratio(m, e)
      BY RatioScales
    <3>2. PICK n \in Int : n = d * m
      OBVIOUS
    <3> QED  BY <2>2, <2>3, <3>1, <3>2
  <2> QED  BY <1>1, <2>4, <2>5
<1>4. S \in F
  BY <1>2, <1>3, FiniteInduction
<1>5. PICK d \in Nat \ {0} : \A x \in S : \E n \in Int : f[x] = Ratio(n, d)
  BY <1>1, <1>4
<1>6. PICK a : a = [x \in S |-> CHOOSE n \in Int : f[x] = Ratio(n, d)]
  OBVIOUS
<1>7. \A x \in S : a[x] \in Int /\ f[x] = Ratio(a[x], d)
  BY <1>5, <1>6
<1> QED
  BY <1>7 DEF OverOne, IntegersOn

\* The total of fractions with one denominator is the sum of their numerators over it.
LEMMA TotalOfRatios ==
    ASSUME NEW S, IsFiniteSet(S), NEW f, DOMAIN f = S, NEW n, NEW d \in Nat \ {0}, OverOne(f, S, n, d)
    PROVE  Total(f) = Ratio(SumFunctionOnSet(n, S), d)
<1>1. PICK V : V = {Ratio(i, d) : i \in Int}
  OBVIOUS
<1>20. IntegersOn(n, S) /\ \A x \in S : f[x] = Ratio(n[x], d)
  BY DEF OverOne
<1>21. Zero = Ratio(0, d)
  <2>1. PICK z \in Int, o \in Nat \ {0} : z = 0 /\ o = 1
    OBVIOUS
  <2>2. Whole(z) = Ratio(z, o)
    BY <2>1, WholeIsRatio
  <2>3. z * d = z * o
    BY <2>1
  <2> QED  BY <2>1, <2>2, <2>3, RatioEqual DEF Zero
<1>2. ClosedUnder(V, f, S)
  <2>1. Zero \in V
    BY <1>1, <1>21
  <2>2. ASSUME NEW x \in S, NEW v \in V PROVE Plus(f[x], v) \in V
    <3>1. PICK i \in Int, j \in Int : f[x] = Ratio(i, d) /\ v = Ratio(j, d)
      BY <1>1, <1>20 DEF IntegersOn
    <3>2. Plus(f[x], v) = Ratio(i + j, d)
      BY <3>1, RatioPlusRatio
    <3> QED  BY <1>1, <3>2
  <2> QED  BY <2>1, <2>2 DEF ClosedUnder
<1>3. PICK g \in [SUBSET S -> V] : Total(f) = g[S] /\ TotalsUp(g, f, S)
  BY <1>2, TotalRecursion
<1>4. PICK B : B = {T \in SUBSET S : g[T] # Ratio(SumFunctionOnSet(n, T), d)}
  OBVIOUS
<1> SUFFICES ASSUME B # {} PROVE FALSE
  BY <1>3, <1>4
<1>5. PICK T \in B : \A U \in B : U \subseteq T => U = T
  <2>1. B \in SUBSET SUBSET S
    BY <1>4
  <2> QED  BY <2>1, MinimalSubset
<1>6. T \in SUBSET S /\ g[T] # Ratio(SumFunctionOnSet(n, T), d)
  BY <1>4
<1>7. T # {}
  <2>1. SumFunctionOnSet(n, {}) = 0
    BY SumEmpty
  <2> QED  BY <1>3, <1>6, <1>21, <2>1 DEF TotalsUp
<1>8. PICK c : c = First(T) /\ c \in T
  BY <1>7 DEF First
<1>15. PICK U : U = T \ {c}
  OBVIOUS
<1>9. U \in SUBSET S /\ U = T \ {c} /\ c \in S \ U /\ T = U \union {c}
  BY <1>6, <1>8, <1>15
<1>10. U \notin B
  BY <1>5, <1>8, <1>9
<1>11. g[U] = Ratio(SumFunctionOnSet(n, U), d)
  BY <1>4, <1>9, <1>10
<1>12. SumFunctionOnSet(n, U) \in Int /\ SumFunctionOnSet(n, T) = n[c] + SumFunctionOnSet(n, U)
  <2>1. IsFiniteSet(U) /\ IntegersOn(n, U) /\ IntegersOn(n, U \union {c}) /\ c \notin U
    BY <1>9, <1>20, FS_Subset DEF IntegersOn
  <2> QED  BY <1>9, <2>1, SumType, SumAdd
<1>13. g[T] = Plus(f[c], g[U])
  BY <1>3, <1>6, <1>7, <1>8, <1>9 DEF TotalsUp
<1>14. f[c] = Ratio(n[c], d) /\ n[c] \in Int
  BY <1>9, <1>20 DEF IntegersOn
<1> QED
  BY <1>6, <1>11, <1>12, <1>13, <1>14, RatioPlusRatio

\* The mean of fractions with one denominator.
LEMMA MeanOfRatios ==
    ASSUME NEW S, IsFiniteSet(S), S # {}, NEW f, DOMAIN f = S, NEW n, NEW d \in Nat \ {0}, OverOne(f, S, n, d)
    PROVE  /\ Cardinality(S) \in Nat \ {0}
           /\ Mean(f) = Ratio(SumFunctionOnSet(n, S), d * Cardinality(S))
<1>1. \A x \in S : IsFraction(f[x])
  BY RatioIsFraction DEF OverOne, IntegersOn
<1>2. PICK g : g = Known(f)
  OBVIOUS
<1>3. DOMAIN g = S /\ \A x \in S : g[x] = f[x]
  BY <1>1, <1>2 DEF Known
<1>4. OverOne(g, S, n, d)
  BY <1>3 DEF OverOne
<1>5. Total(g) = Ratio(SumFunctionOnSet(n, S), d)
  BY <1>3, <1>4, TotalOfRatios
<1>6. PICK k \in Nat \ {0} : k = Cardinality(S)
  BY FS_CardinalityType, FS_EmptySet
<1>7. SumFunctionOnSet(n, S) \in Int
  BY SumType DEF OverOne
<1>8. Over(Ratio(SumFunctionOnSet(n, S), d), Whole(k)) = Ratio(SumFunctionOnSet(n, S), d * k)
  BY <1>7, RatioOverWhole
<1> QED
  BY <1>2, <1>3, <1>5, <1>6, <1>8 DEF Mean

\* The sums of the lines of a.
LineSums(line, a, I, J) ==
    /\ IntegersOn(line, I)
    /\ \A i \in I : line[i] = SumFunctionOnSet([j \in J |-> a[<<i, j>>]], J)
    /\ SumFunctionOnSet(line, I) = SumFunctionOnSet(a, I \X J)

\* The sum over pairs is taken line by line.
LEMMA SumOfLines ==
    ASSUME NEW I, IsFiniteSet(I), NEW J, IsFiniteSet(J), NEW a, IntegersOn(a, I \X J)
    PROVE  \E line : LineSums(line, a, I, J)
<1>1. PICK N : N = [i \in I |-> J]
  OBVIOUS
<1>2. PairsOf(I, N) = I \X J
  BY <1>1 DEF PairsOf
<1>3. PICK g : g = [i \in I |-> [j \in J |-> a[<<i, j>>]]]
  OBVIOUS
<1>4. PICK line : line = [i \in I |-> SumFunctionOnSet(g[i], J)]
  OBVIOUS
<1>5. \A i \in I : IsFiniteSet(N[i]) /\ (\A j \in N[i] : g[i][j] = a[<<i, j>>]) /\ line[i] = SumFunctionOnSet(g[i], N[i])
  BY <1>1, <1>3, <1>4
<1>6. SumFunctionOnSet(line, I) = SumFunctionOnSet(a, PairsOf(I, N))
  <2>1. IntegersOn(a, PairsOf(I, N))
    BY <1>2
  <2> QED  BY <1>5, <2>1, SumOfPairs
<1>7. ASSUME NEW i \in I PROVE line[i] \in Int /\ line[i] = SumFunctionOnSet([j \in J |-> a[<<i, j>>]], J)
  <2>1. g[i] = [j \in J |-> a[<<i, j>>]]
    BY <1>3
  <2>2. IntegersOn(g[i], J)
    BY <2>1 DEF IntegersOn
  <2>3. SumFunctionOnSet(g[i], J) \in Int
    BY <2>2, SumType
  <2> QED  BY <1>4, <2>1, <2>3
<1> QED
  BY <1>2, <1>6, <1>7 DEF IntegersOn, LineSums

\* The size of a product.
LEMMA SizeOfProduct ==
    ASSUME NEW I, IsFiniteSet(I), NEW J, IsFiniteSet(J)
    PROVE  IsFiniteSet(I \X J) /\ Cardinality(I \X J) = Cardinality(J) * Cardinality(I)
<1>1. PICK N : N = [i \in I |-> J]
  OBVIOUS
<1>2. PairsOf(I, N) = I \X J
  BY <1>1 DEF PairsOf
<1>3. PICK h : h = [i \in I |-> Cardinality(J)]
  OBVIOUS
<1>4. \A i \in I : IsFiniteSet(N[i]) /\ h[i] = Cardinality(N[i])
  BY <1>1, <1>3
<1>5. SumFunctionOnSet(h, I) = Cardinality(PairsOf(I, N)) /\ IsFiniteSet(PairsOf(I, N))
  BY <1>4, NumberOfPairs, PairsFinite
<1>6. SumFunctionOnSet(h, I) = Cardinality(J) * Cardinality(I)
  <2>1. PICK c \in Int : c = Cardinality(J)
    BY FS_CardinalityType
  <2>2. \A i \in I : h[i] = c
    BY <1>3, <2>1
  <2> QED  BY <2>1, <2>2, SumOfConstant
<1> QED
  BY <1>2, <1>5, <1>6

\* The values of f, line by line, and the mean of each line.
MeansOfLines(means, lines, f, I, J) ==
    /\ DOMAIN f = I \X J /\ DOMAIN lines = I /\ DOMAIN means = I
    /\ \A x \in I \X J : IsRatio(f[x])
    /\ \A i \in I : DOMAIN lines[i] = J /\ \A j \in J : lines[i][j] = f[<<i, j>>]
    /\ \A i \in I : means[i] = Mean(lines[i])

\* They are fractions, and have a total and a mean that f has.
TogetherAs(means, f, I, J) ==
    /\ \A i \in I : IsRatio(means[i])
    /\ Total(means) = Over(Total(f), Whole(Cardinality(J)))
    /\ I # {} => Mean(means) = Mean(f)

\* Totals of means, over as many values each, are the mean of totals.
LEMMA TotalOfMeans ==
    ASSUME NEW I, IsFiniteSet(I), NEW J, IsFiniteSet(J), J # {}, NEW f, NEW lines, NEW means,
           MeansOfLines(means, lines, f, I, J)
    PROVE  TogetherAs(means, f, I, J)
<1>15. /\ DOMAIN f = I \X J /\ DOMAIN lines = I /\ DOMAIN means = I
       /\ \A x \in I \X J : IsRatio(f[x])
       /\ \A i \in I : DOMAIN lines[i] = J /\ \A j \in J : lines[i][j] = f[<<i, j>>]
       /\ \A i \in I : means[i] = Mean(lines[i])
  BY DEF MeansOfLines
<1>1. IsFiniteSet(I \X J) /\ Cardinality(I \X J) = Cardinality(J) * Cardinality(I)
  BY SizeOfProduct
<1>16. PICK d \in Nat \ {0} : \E a : OverOne(f, I \X J, a, d)
  BY <1>1, <1>15, CommonDenominator
<1>2. PICK a : OverOne(f, I \X J, a, d)
  BY <1>16
<1>3. IntegersOn(a, I \X J) /\ \A x \in I \X J : f[x] = Ratio(a[x], d)
  BY <1>2 DEF OverOne
<1>14. PICK sum : LineSums(sum, a, I, J)
  BY <1>3, SumOfLines
<1>4. /\ IntegersOn(sum, I)
      /\ \A i \in I : sum[i] = SumFunctionOnSet([j \in J |-> a[<<i, j>>]], J)
      /\ SumFunctionOnSet(sum, I) = SumFunctionOnSet(a, I \X J)
  BY <1>14 DEF LineSums
<1>5. PICK k \in Nat \ {0} : k = Cardinality(J)
  BY FS_CardinalityType, FS_EmptySet
<1>6. PICK e \in Nat \ {0} : e = d * k
  BY ProductFacts
<1>7. ASSUME NEW i \in I PROVE means[i] = Ratio(sum[i], e) /\ sum[i] \in Int
  <2>1. PICK l, b : l = lines[i] /\ b = [j \in J |-> a[<<i, j>>]]
    OBVIOUS
  <2>2. DOMAIN l = J /\ OverOne(l, J, b, d)
    BY <1>3, <1>15, <2>1 DEF OverOne, IntegersOn
  <2>3. Mean(l) = Ratio(SumFunctionOnSet(b, J), d * Cardinality(J))
    BY <2>2, MeanOfRatios
  <2> QED  BY <1>4, <1>5, <1>6, <1>15, <2>1, <2>3 DEF IntegersOn
<1>8. OverOne(means, I, sum, e)
  BY <1>4, <1>7 DEF OverOne
<1>9. Total(means) = Ratio(SumFunctionOnSet(a, I \X J), e)
  BY <1>4, <1>8, <1>15, TotalOfRatios
<1>10. SumFunctionOnSet(a, I \X J) \in Int
  BY <1>1, <1>3, SumType
<1>11. Total(f) = Ratio(SumFunctionOnSet(a, I \X J), d)
  BY <1>1, <1>2, <1>15, TotalOfRatios
<1>12. Over(Total(f), Whole(k)) = Ratio(SumFunctionOnSet(a, I \X J), e)
  BY <1>6, <1>10, <1>11, RatioOverWhole
<1>13. ASSUME I # {} PROVE Mean(means) = Mean(f)
  <2>1. Mean(means) = Ratio(SumFunctionOnSet(a, I \X J), e * Cardinality(I)) /\ Cardinality(I) \in Nat
    BY <1>4, <1>8, <1>13, <1>15, MeanOfRatios
  <2>2. I \X J # {}
    <3>1. PICK i \in I, j \in J : TRUE
      BY <1>13
    <3>2. <<i, j>> \in I \X J
      OBVIOUS
    <3> QED  BY <3>2
  <2>3. Mean(f) = Ratio(SumFunctionOnSet(a, I \X J), d * Cardinality(I \X J))
    BY <1>1, <1>2, <1>15, <2>2, MeanOfRatios
  <2>4. d * (k * Cardinality(I)) = (d * k) * Cardinality(I)
    BY <2>1
  <2> QED  BY <1>1, <1>5, <1>6, <2>1, <2>3, <2>4
<1> QED
  BY <1>5, <1>6, <1>7, <1>9, <1>12, <1>13 DEF IsRatio, TogetherAs

\* The mean of what is left of a number is what the mean leaves of it.
LEMMA MeanOfRests ==
    ASSUME NEW S, IsFiniteSet(S), S # {}, NEW f, DOMAIN f = S, \A x \in S : IsRatio(f[x]),
           NEW c \in Int, NEW h, DOMAIN h = S, \A x \in S : h[x] = Minus(Whole(c), f[x])
    PROVE  (\A x \in S : IsRatio(h[x])) /\ Mean(h) = Minus(Whole(c), Mean(f))
<1>0. PICK d \in Nat \ {0} : \E a : OverOne(f, S, a, d)
  BY CommonDenominator
<1>1. PICK a : OverOne(f, S, a, d)
  BY <1>0
<1>2. IntegersOn(a, S) /\ \A x \in S : f[x] = Ratio(a[x], d)
  BY <1>1 DEF OverOne
<1>3. PICK r : r = [x \in S |-> c * d - a[x]]
  OBVIOUS
<1>4. ASSUME NEW x \in S PROVE h[x] = Ratio(r[x], d) /\ r[x] \in Int
  <2>1. a[x] \in Int
    BY <1>2 DEF IntegersOn
  <2>2. Minus(Whole(c), Ratio(a[x], d)) = Ratio(c * d - a[x], d)
    BY <2>1, WholeMinusRatio
  <2> QED  BY <1>2, <1>3, <2>1, <2>2
<1>5. OverOne(h, S, r, d)
  BY <1>4 DEF OverOne, IntegersOn
<1>6. PICK k \in Nat \ {0} : k = Cardinality(S)
  BY FS_CardinalityType, FS_EmptySet
<1>7. Mean(h) = Ratio(SumFunctionOnSet(r, S), d * k) /\ Mean(f) = Ratio(SumFunctionOnSet(a, S), d * k)
  BY <1>1, <1>5, <1>6, MeanOfRatios
<1>8. PICK e \in Nat \ {0}, s \in Int : e = d * k /\ s = SumFunctionOnSet(a, S)
  BY <1>2, SumType, ProductFacts
<1>9. SumFunctionOnSet(r, S) = c * e - s
  <2>1. PICK m \in Int : m = c * d
    OBVIOUS
  <2>2. PICK F : F = {T \in SUBSET S : SumFunctionOnSet(r, T) = m * Cardinality(T) - SumFunctionOnSet(a, T)}
    OBVIOUS
  <2>3. {} \in F
    BY <2>1, <2>2, SumEmpty, FS_EmptySet
  <2>4. ASSUME NEW T \in SUBSET S, NEW x \in S \ T, T \in F PROVE T \union {x} \in F
    <3>1. IsFiniteSet(T) /\ IntegersOn(r, T \union {x}) /\ IntegersOn(a, T \union {x}) /\ IntegersOn(a, T)
      BY <1>2, <1>4, FS_Subset DEF IntegersOn
    <3>2. SumFunctionOnSet(r, T \union {x}) = r[x] + SumFunctionOnSet(r, T)
      BY <3>1, SumAdd
    <3>3. SumFunctionOnSet(a, T \union {x}) = a[x] + SumFunctionOnSet(a, T)
      BY <3>1, SumAdd
    <3>4. Cardinality(T \union {x}) = Cardinality(T) + 1 /\ Cardinality(T) \in Nat
      BY <3>1, FS_AddElement, FS_CardinalityType
    <3>5. SumFunctionOnSet(a, T) \in Int /\ a[x] \in Int
      BY <1>2, <3>1, SumType DEF IntegersOn
    <3>6. r[x] = m - a[x]
      BY <1>3, <2>1
    <3>7. m * (Cardinality(T) + 1) = m * Cardinality(T) + m /\ m * Cardinality(T) \in Int
      BY <3>4
    <3> QED  BY <2>2, <2>4, <3>2, <3>3, <3>4, <3>5, <3>6, <3>7
  <2>5. S \in F
    BY <2>3, <2>4, FiniteInduction
  <2>6. (c * d) * k = c * (d * k)
    OBVIOUS
  <2> QED  BY <1>6, <1>8, <2>1, <2>2, <2>5, <2>6
<1>10. Minus(Whole(c), Ratio(s, e)) = Ratio(c * e - s, e)
  BY WholeMinusRatio
<1> QED
  BY <1>4, <1>7, <1>8, <1>9, <1>10 DEF IsRatio

\* The mean of whole numbers is a fraction.
LEMMA MeanOfWholes ==
    ASSUME NEW S, IsFiniteSet(S), S # {}, NEW f, DOMAIN f = S, NEW n, IntegersOn(n, S),
           \A x \in S : f[x] = Whole(n[x])
    PROVE  IsRatio(Mean(f))
<1>1. PICK o \in Nat \ {0} : o = 1
  OBVIOUS
<1>2. OverOne(f, S, n, o)
  BY <1>1, WholeIsRatio DEF OverOne, IntegersOn
<1>3. Cardinality(S) \in Nat \ {0} /\ Mean(f) = Ratio(SumFunctionOnSet(n, S), o * Cardinality(S))
  BY <1>2, MeanOfRatios
<1>4. SumFunctionOnSet(n, S) \in Int
  BY SumType
<1> QED
  BY <1>1, <1>3, <1>4, ProductFacts DEF IsRatio
=============================================================================
