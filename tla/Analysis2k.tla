----------------------------- MODULE Analysis2k -----------------------------
(***************************************************************************)
(* 2k_analysis.ipynb of experiment 6: a 2^3 design with reps repetitions,  *)
(* its effects and the variation they explain.  The notebook draws the     *)
(* residuals twice: as the distance of an observation from the mean of its *)
(* configuration, matched by key, and from the prediction of the model,    *)
(* matched by row.                                                         *)
(*                                                                         *)
(* The files hold the mean response time of every configuration and        *)
(* repetition, <<mw, mc, workers, rep>> -> a power of two: the logarithm   *)
(* is taken to the base 2, of which that of the code is a multiple.        *)
(***************************************************************************)
EXTENDS Kernel, Rationals, SequencesExt

K2 == "2k_analysis"

\* The exact logarithm of a power of two; of another number it is left open.
log(y) ==
    LET exponents == {k \in 0..10 : y = Whole(2 ^ k)}
    IN IF exponents = {} THEN Undefined ELSE Whole(CHOOSE k \in exponents : TRUE)

setup_2k ==
    \/ Import(K2, 1, {"gmts", "cut", "os", "pd", "np", "stats", "plt"}, TRUE)
    \/ Assign(K2, 2, LAMBDA g : [exp6_dir |-> "exp6"])

(* MUTANT: the loop over the servers is the outermost. *)
gather_servers_first(files, mw_settings, mc_settings, worker_settings, reps) ==
    LET ws == Len(worker_settings)
        mws == Len(mw_settings)
    IN [row \in 1..(mws * Len(mc_settings) * ws * reps) |->
          LET key == <<mw_settings[(((row - 1) \div (ws * reps)) % mws) + 1],
                       mc_settings[((row - 1) \div (mws * ws * reps)) + 1],
                       worker_settings[(((row - 1) \div reps) % ws) + 1]>>
              rep == ((row - 1) % reps) + 1
          IN [key |-> key, rep |-> rep, resp |-> Whole(files[Append(key, rep)])]]

\* The rows in the order of the nested loops, the last of which counts the repetitions.
gather_all_rawdata(files, mw_settings, mc_settings, worker_settings, reps) ==
    LET ws == Len(worker_settings)
        mcs == Len(mc_settings)
    IN [row \in 1..(Len(mw_settings) * mcs * ws * reps) |->
          LET key == <<mw_settings[((row - 1) \div (mcs * ws * reps)) + 1],
                       mc_settings[(((row - 1) \div (ws * reps)) % mcs) + 1],
                       worker_settings[(((row - 1) \div reps) % ws) + 1]>>
              rep == ((row - 1) % reps) + 1
          IN [key |-> key, rep |-> rep, resp |-> Whole(files[Append(key, rep)])]]

gather_2k == Cell(K2, 3, {"exp6_dir"}, {},
    LAMBDA g : [mw_settings |-> <<1, 2>>, mc_settings |-> <<2, 3>>, worker_settings |-> <<8, 32>>,
                reps |-> 3, should_logtransform |-> TRUE], {"gmts", "cut", "pd"}, {},
    LAMBDA g : [raw |-> gather_all_rawdata(logs, g.mw_settings, g.mc_settings, g.worker_settings, g.reps)],
    Nothing)

\* The column is replaced: a second evaluation takes the logarithm of the logarithm.
logtransform == Compute(K2, 4, {"raw", "should_logtransform"}, {"np"}, LAMBDA g :
    [raw |-> IF g.should_logtransform
             THEN [row \in DOMAIN g.raw |-> [g.raw[row] EXCEPT !.resp = log(@)]]
             ELSE g.raw])

Precedes(s, t) == \E i \in 1..3 : s[i] < t[i] /\ \A j \in 1..(i - 1) : s[j] = t[j]

\* groupby sorts its keys.
averages_of(raw) ==
    LET all == {raw[row].key : row \in DOMAIN raw}
        keys == [n \in 1..Cardinality(all) |->
                    CHOOSE key \in all : Cardinality({k \in all : Precedes(k, key)}) = n - 1]
    IN [n \in DOMAIN keys |->
            [key |-> keys[n], y_mean |->
                Mean([row \in {r \in DOMAIN raw : raw[r].key = keys[n]} |-> raw[row].resp])]]

average_2k == Compute(K2, 5, {"raw"}, {}, LAMBDA g : [averages |-> averages_of(g.raw)])

effects_names == <<"I", "MW", "MC", "WT", "MWMC", "MWWT", "MCWT", "MWMCWT">>

Sign(setting, low) == IF setting = low THEN -1 ELSE 1

\* A row of the sign table, its columns in the order of effects_names.
SignsOf(key) ==
    LET MW == Sign(key[1], 1)
        MC == Sign(key[2], 2)
        WT == Sign(key[3], 8)
    IN <<1, MW, MC, WT, MW * MC, MW * WT, MC * WT, MW * MC * WT>>

sign_table == Compute(K2, 6, {"averages"}, {"pd"}, LAMBDA g :
    [analysis_table |-> [n \in DOMAIN g.averages |-> SignsOf(g.averages[n].key)]])

Times_dot(signs, column) ==
    Total([j \in DOMAIN signs |-> Times(Whole(signs[j]), column[j])])

\* numpy.linalg.solve, for a matrix of signs with orthogonal columns.
solve(a, b) ==
    [j \in DOMAIN a |-> Over(Total([i \in DOMAIN a |-> Times(Whole(a[i][j]), b[i])]), Whole(Len(a)))]

solve_2k == Compute(K2, 7, {"analysis_table", "averages"}, {"np", "pd"}, LAMBDA g :
    [solution |-> solve(g.analysis_table, [n \in DOMAIN g.averages |-> g.averages[n].y_mean])])

Square(x) == Times(x, x)
SumOfSquares(f) == Total([i \in DOMAIN f |-> Square(f[i])])

\* 2**3*3: three repetitions, whatever reps is.
observations == Whole(8 * 3)

variation == Cell(K2, 8, {"raw", "solution"}, {}, Nothing, {"np", "pd"}, {},
    LAMBDA g : LET SSY == SumOfSquares([row \in DOMAIN g.raw |-> g.raw[row].resp])
               IN [SSE |-> Minus(SSY, Times(observations, SumOfSquares(g.solution)))],
    LAMBDA g : LET SSY == SumOfSquares([row \in DOMAIN g.raw |-> g.raw[row].resp])
                   SS_effects == [i \in DOMAIN g.solution |-> Times(observations, Square(g.solution[i]))]
               IN Entry(<<"exp6", "variation", "fiftyFifty">>,
                    [SST |-> Minus(SSY, SS_effects[1]),
                     SS_with_error |-> Append(Tail(SS_effects),
                        Minus(SSY, Times(observations, SumOfSquares(g.solution))))]))

\* The square of the half width of the intervals, in units of the t-value.
confidence == Draw(K2, 9, {"SSE", "solution", "reps"}, {"np", "stats", "pd"}, LAMBDA g :
    Entry(<<"exp6", "confidence", "fiftyFifty">>,
        [effects |-> g.solution,
         half_width_squared |-> Over(Over(g.SSE, Whole(8 * (g.reps - 1))), observations)]))

\* The errors are matched by key; the n-th prediction is repeated for the reps rows at n.
residuals_2k == Draw(K2, 10, {"raw", "averages", "analysis_table", "solution", "reps"},
    {"plt", "pd", "stats", "np", "os"}, LAMBDA g :
    LET mean_of(key) == g.averages[CHOOSE n \in DOMAIN g.averages : g.averages[n].key = key].y_mean
        predicted(row) == Times_dot(g.analysis_table[((row - 1) \div g.reps) + 1], g.solution)
    IN Entry(<<"exp6", "modelassumptions", "fiftyFifty">>,
        [errors |-> [row \in DOMAIN g.raw |-> Minus(g.raw[row].resp, mean_of(g.raw[row].key))],
         residuals |-> [row \in DOMAIN g.raw |-> Minus(g.raw[row].resp, predicted(row))],
         observed |-> [row \in DOMAIN g.raw |-> g.raw[row].resp]]))
=============================================================================
