------------------------- MODULE ResponseHistogram -------------------------
(***************************************************************************)
(* The distribution of response times over several memtier logs            *)
(* (histogram.ipynb; MM1.ipynb and MMm.ipynb hold copies).                 *)
(*                                                                         *)
(* The histogram of a log is a sequence of pairs <<response time, percent  *)
(* of the requests that took at most so long>>.  All response times are    *)
(* multiples of one unit: the steps of several histograms meet exactly.    *)
(***************************************************************************)
EXTENDS Rationals, FiniteSetsExt

CONSTANT granularity

ASSUME GranularityAssumption == granularity \in Nat \ {0}

\* np.interp between the first and the last response time.
interp(hist, x) ==
    LET i == Max({n \in DOMAIN hist : hist[n][1] <= x})
    IN IF i = Len(hist) THEN Whole(hist[i][2])
       ELSE Plus(Whole(hist[i][2]), Ratio((hist[i + 1][2] - hist[i][2]) * (x - hist[i][1]),
                                          hist[i + 1][1] - hist[i][1]))

\* The steps end before the last response time (np.arange excludes stop).
interpolate_histogram(hist) ==
    LET start == hist[1][1]
        stop == hist[Len(hist)][1]
    IN Tabulated([k \in 1..((stop - start + granularity - 1) \div granularity) |->
            LET step == start + (k - 1) * granularity
            IN [responsetime |-> step, percentile |-> interp(hist, step)]])

(* MUTANT: the rows keep the response time that is not shifted. *)
calculate_numrequests_unshifted(interpolated, xput) ==
    [i \in 1..(Len(interpolated) - 1) |->
        [responsetime |-> interpolated[i].responsetime,
         requests |-> Times(Minus(interpolated[i + 1].percentile, interpolated[i].percentile),
                            Ratio(xput, 100))]]

\* The requests between two steps, at the upper one.
calculate_numrequests(interpolated, xput) ==
    [i \in 1..(Len(interpolated) - 1) |->
        [responsetime |-> interpolated[i + 1].responsetime,
         requests |-> Times(Minus(interpolated[i + 1].percentile, interpolated[i].percentile),
                            Ratio(xput, 100))]]

\* response time -> requests.
combine_multiple_histograms(histogram_arrays, throughputs) ==
    LET with_numrequests == Tabulated([f \in DOMAIN histogram_arrays |->
            Tabulated(calculate_numrequests(interpolate_histogram(histogram_arrays[f]), throughputs[f]))])
        rows == UNION {{<<f, i>> : i \in DOMAIN with_numrequests[f]} : f \in DOMAIN histogram_arrays}
        row(r) == with_numrequests[r[1]][r[2]]
    IN Tabulated([t \in {row(r).responsetime : r \in rows} |->
            Total([r \in {s \in rows : row(s).responsetime = t} |-> row(r).requests])])

\* The first response time at which the requests so far are the share q of all.
wquantile(x, q) ==
    LET p == Times(q, Total(x))
        pop(t) == Total([u \in {s \in DOMAIN x : s <= t} |-> x[u]])
    IN Min({t \in DOMAIN x : AtMost(p, pop(t))})

extract_percentiles(data, percentiles) ==
    [n \in DOMAIN percentiles |-> [percentile |-> percentiles[n],
                                   responsetime |-> wquantile(data, percentiles[n])]]
=============================================================================
