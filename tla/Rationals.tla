----------------------------- MODULE Rationals -----------------------------
(***************************************************************************)
(* Exact arithmetic on fractions, in the place of the floating-point       *)
(* numbers of numpy and pandas: <<n, d>> with d > 0 and no common divisor. *)
(* Undefined is their NaN (and infinity): it spreads, and a mean passes    *)
(* over it.                                                                *)
(***************************************************************************)
EXTENDS Integers, Sequences, FiniteSets, Functions

\* The columns of both rows, those of f first.
f ++ g == [x \in DOMAIN f \union DOMAIN g |-> IF x \in DOMAIN f THEN f[x] ELSE g[x]]

\* f itself: TLC computes its values when it is built, not at every use.
Tabulated(f) == CHOOSE g \in {f} : g = g

Abs(n) == IF n < 0 THEN -n ELSE n

gcd[p \in Nat \X Nat] == IF p[2] = 0 THEN p[1] ELSE gcd[<<p[2], p[1] % p[2]>>]

Undefined == <<0, 0>>

Ratio(n, d) ==
    IF d = 0 THEN Undefined
    ELSE LET g == gcd[<<Abs(n), Abs(d)>>]
             sign == IF d < 0 THEN -1 ELSE 1
         IN <<sign * (n \div g), Abs(d) \div g>>

Whole(n) == <<n, 1>>
Zero == Whole(0)
One == Whole(1)

IsFraction(x) == x[2] > 0

Plus(x, y) == LET g == IF x[2] = 0 \/ y[2] = 0 THEN 1 ELSE gcd[<<x[2], y[2]>>]
              IN Ratio(x[1] * (y[2] \div g) + y[1] * (x[2] \div g), (x[2] \div g) * y[2])
Minus(x, y) == Plus(x, <<-y[1], y[2]>>)
Times(x, y) == LET a == Ratio(x[1], y[2])
                   b == Ratio(y[1], x[2])
               IN Ratio(a[1] * b[1], a[2] * b[2])
Over(x, y) == IF y[1] = 0 THEN Undefined ELSE Times(x, <<y[2] * (IF y[1] < 0 THEN -1 ELSE 1), Abs(y[1])>>)

Less(x, y) == IsFraction(x) /\ IsFraction(y) /\ x[1] * y[2] < y[1] * x[2]
AtMost(x, y) == IsFraction(x) /\ IsFraction(y) /\ x[1] * y[2] <= y[1] * x[2]

\* f: function to fractions.
Total(f) ==
    LET sum[S \in SUBSET DOMAIN f] ==
            IF S = {} THEN Zero ELSE LET e == CHOOSE x \in S : TRUE IN Plus(f[e], sum[S \ {e}])
    IN sum[DOMAIN f]

Known(f) == [e \in {x \in DOMAIN f : IsFraction(f[x])} |-> f[e]]

Mean(f) == Over(Total(Known(f)), Whole(Cardinality(DOMAIN Known(f))))

WeightedMean(f, weight) == Over(Total([e \in DOMAIN f |-> Times(f[e], weight[e])]), Total(weight))

\* The square of the standard deviation of a sample.
Variance(f) ==
    LET known == Known(f)
        mean == Mean(f)
    IN Over(Total([e \in DOMAIN known |-> Times(Minus(known[e], mean), Minus(known[e], mean))]),
            Whole(Cardinality(DOMAIN known) - 1))
=============================================================================
