------------------------- MODULE HistogramNotebook -------------------------
(***************************************************************************)
(* histogram.ipynb of experiment 5.  What a histogram computes is the      *)
(* subject of ResponseHistogram; here it is what it was taken from: the    *)
(* directory, the sharding, the number of keys, the repetitions, and the   *)
(* clients' log files or the middlewares.  A panel of a figure has a title *)
(* and shows some of them, one over the other.                             *)
(***************************************************************************)
EXTENDS GraphNotebooks

HN == "histogram"

Keys == <<1, 3, 6, 9>>

Histogram(source, sharding, keys, clients) ==
    [source |-> source, sharding |-> sharding, keys |-> keys, reps |-> 1..3, of |-> "memtier",
     logs |-> Range(clients)]

ofMiddlewares(source, sharding, keys, reps, middlewares) ==
    [source |-> source, sharding |-> sharding, keys |-> keys, reps |-> reps, of |-> "middleware",
     logs |-> Range(middlewares)]

\* A title names what is shown: the field of, the sharding, the keys and the logs.
Panel(of, sharding, keys, the_logs, shows) ==
    [title |-> [of |-> of, sharding |-> sharding, keys |-> keys, logs |-> the_logs], shows |-> shows]

Panels(kind, panels) == Saved("exp5", kind, "all", [panels |-> panels])

bothMiddlewares == <<4, 5>>

\* Imports and functions.
histogram_functions_5 ==
    \/ Import(HN, 1, {"os", "np", "pd", "plt", "dirfuncs", "gmws", "cut", "cycler"}, TRUE)
    \/ Import(HN, 2, {"extract_GET_histogram", "extract_GET_throughput", "combine_multiple_histograms"}, TRUE)

sharded_histograms == Compute(HN, 3, {}, {"os", "np", "combine_multiple_histograms"}, LAMBDA g :
    [exp5_1_dir |-> "exp5_1",
     hist_data_sharded |-> [i \in 1..4 |-> Histogram("exp5_1", "sharded", Keys[i], clients_3_twice)]])

nonsharded_histograms == Compute(HN, 4, {}, {"os", "np", "combine_multiple_histograms"}, LAMBDA g :
    [exp5_2_dir |-> "exp5_2",
     hist_data_nonsharded |-> [i \in 1..4 |-> Histogram("exp5_2", "nonsharded", Keys[i], clients_3_twice)]])

total_histograms == Draw(HN, 5, {"hist_data_sharded", "hist_data_nonsharded"}, {"plt"}, LAMBDA g :
    Panels("total", [p \in (1..4) \X (1..2) |->
        LET data == IF p[2] = 1 THEN g.hist_data_sharded ELSE g.hist_data_nonsharded
        IN Panel("memtier", IF p[2] = 1 THEN "sharded" ELSE "nonsharded", Keys[p[1]],
                 Range(clients_3_twice), {data[p[1]]})]))

\* The rows of a table of percentiles, for each number of keys.
percentile_tables ==
    \/ Cell(HN, 6, {}, {"wquantile", "percentiles_of"}, LAMBDA g : [multigets |-> Keys], {}, {},
            Nothing, Nothing)
    \/ Compute(HN, 7, {"hist_data_sharded", "hist_data_nonsharded", "multigets"}, {"percentiles_of"},
               LAMBDA g :
        LET table(hist_data) == [i \in 1..4 |-> [multigets |-> g.multigets[i], data |-> hist_data[i]]]
        IN [sharded_plot_percentiles |-> table(g.hist_data_sharded),
            nonsharded_plot_percentiles |-> table(g.hist_data_nonsharded)])

\* The bars of a percentile, with the labels given.
plot_percentiles == Draw(HN, 8, {"sharded_plot_percentiles", "nonsharded_plot_percentiles"},
    {"plt", "cycler", "np"}, LAMBDA g :
    Panels("responsetime_percentiles", [p \in (1..4) \X (1..2) |->
        LET rows == IF p[2] = 1 THEN g.sharded_plot_percentiles ELSE g.nonsharded_plot_percentiles
        IN Panel("memtier", IF p[2] = 1 THEN "sharded" ELSE "nonsharded", <<1, 3, 6, 9>>[p[1]],
                 Range(clients_3_twice), {rows[p[1]].data})]))

gather_requests_5 == Import(HN, 9, {"gather_requests"}, TRUE)

\* Of 6 keys.  The directory of the rerun is assigned, but the first run is read.
gather_5_3 == Compute(HN, 10, {"exp5_1_dir", "exp5_2_dir"},
    {"os", "np", "combine_multiple_histograms", "gather_requests"}, LAMBDA g :
    [hist_data_sharded_rerun |-> <<Histogram(g.exp5_1_dir, "sharded", 6, clients_3_twice)>>,
     exp_dir_shard |-> <<g.exp5_1_dir, "sharded", 6>>,
     exp_dir_nonshard |-> <<g.exp5_2_dir, "nonsharded", 6>>,
     sharded_reqs_mw |-> ofMiddlewares(g.exp5_1_dir, "sharded", 6, 1..3, bothMiddlewares),
     nonsharded_reqs_mw |-> ofMiddlewares(g.exp5_2_dir, "nonsharded", 6, 1..3, bothMiddlewares)])

nonsharded_reqs_mt(g) == g.hist_data_nonsharded[3]

panels_5_3(g) ==
    Entry(<<1, 1>>, Panel("memtier", "sharded", 6, Range(clients_3_twice), {g.hist_data_sharded_rerun[1]})) ++
    Entry(<<1, 2>>, Panel("memtier", "nonsharded", 6, Range(clients_3_twice), {nonsharded_reqs_mt(g)})) ++
    Entry(<<2, 1>>, Panel("middleware", "sharded", 6, Range(bothMiddlewares), {g.sharded_reqs_mw})) ++
    Entry(<<2, 2>>, Panel("middleware", "nonsharded", 6, Range(bothMiddlewares), {g.nonsharded_reqs_mw}))

plot_5_3 == Draw(HN, 11, {"hist_data_sharded_rerun", "hist_data_nonsharded", "hist_data_sharded",
                          "sharded_reqs_mw", "nonsharded_reqs_mw"}, {"plt"}, LAMBDA g :
    Panels("5_3_histogram", panels_5_3(g)))

ofDirectory(dir, reps, middlewares) == ofMiddlewares(dir[1], dir[2], dir[3], reps, middlewares)

\* The histograms of the clients of one middleware are gathered too; their plots are commented out.
gather_single_middlewares == Compute(HN, 12, {"exp_dir_shard", "exp_dir_nonshard", "exp5_1_dir", "exp5_2_dir"},
    {"gather_requests", "os", "np", "combine_multiple_histograms"}, LAMBDA g :
    [sharded_mw1 |-> ofDirectory(g.exp_dir_shard, 1..3, <<4>>),
     sharded_mw2 |-> ofDirectory(g.exp_dir_shard, 1..3, <<5>>),
     nonsharded_mw1 |-> ofDirectory(g.exp_dir_nonshard, 1..3, <<4>>),
     nonsharded_mw2 |-> ofDirectory(g.exp_dir_nonshard, 1..3, <<5>>)])

plot_single_middlewares ==
    Draw(HN, 13, {"sharded_mw1", "sharded_mw2", "nonsharded_mw1", "nonsharded_mw2", "hist_data_sharded"},
         {"plt"}, LAMBDA g :
    Panels("5_3_histogram_singlemiddlewares",
        Entry(<<1, 1>>, Panel("middleware", "sharded", 6, Range(bothMiddlewares), {g.sharded_mw1, g.sharded_mw2})) ++
        Entry(<<1, 2>>, Panel("middleware", "nonsharded", 6, Range(bothMiddlewares),
                          {g.nonsharded_mw1, g.nonsharded_mw2}))))

\* The table is transposed before it is passed to the function that transposes it: the shapes do
\* not fit, and the cell ends before its figure.
single_client == Import(HN, 14, {}, FALSE)

\* The requests of both middlewares and of each, for several directories.
gather_all_middlewares(source, keys, reps) ==
    LET each(middlewares) == [i \in DOMAIN keys |-> ofMiddlewares(source, "sharded", keys[i], reps, middlewares)]
    IN [reqs_combined |-> each(bothMiddlewares), reqs_mw1 |-> each(<<4>>), reqs_mw2 |-> each(<<5>>)]

gather_sharded == Compute(HN, 15, {"exp5_1_dir"}, {"gather_requests", "os"}, LAMBDA g :
    gather_all_middlewares(g.exp5_1_dir, Keys, 1..3))

\* One column for both middlewares and for each, one row for each number of keys.
RowsOfMiddlewares(g, rows, keys) ==
    [p \in (1..rows) \X (1..3) |->
        LET reqs == <<g.reqs_combined, g.reqs_mw1, g.reqs_mw2>>[p[2]]
        IN Panel("middleware", "sharded", keys[p[1]], <<{4, 5}, {4}, {5}>>[p[2]], {reqs[p[1]]})]

plot_memcachedRTT == Draw(HN, 16, {"reqs_combined", "reqs_mw1", "reqs_mw2"}, {"plt"}, LAMBDA g :
    Panels("memcachedRTT_histograms", RowsOfMiddlewares(g, 4, Keys)))

\* Repetition by repetition; the names keep the last one.
panels_of_repetitions(g) ==
    LET ofRep(rep) == gather_all_middlewares(g.exp5_1_dir, Keys, {rep})
    IN Entry(<<1, 1>>, Panel("middleware", "sharded", 6, {4, 5}, {ofRep(rep).reqs_combined[3] : rep \in 1..3})) ++
       Entry(<<1, 2>>, Panel("middleware", "sharded", 6, {4}, {ofRep(rep).reqs_mw1[3] : rep \in 1..3})) ++
       Entry(<<1, 3>>, Panel("middleware", "sharded", 6, {5}, {ofRep(rep).reqs_mw2[3] : rep \in 1..3}))

plot_repetitions == Cell(HN, 17, {"exp5_1_dir"}, {}, Nothing, {"gather_requests", "os", "plt"}, {},
    LAMBDA g : gather_all_middlewares(g.exp5_1_dir, Keys, {3}), LAMBDA g :
    Panels("sharded_6multiget_mw_histogram", panels_of_repetitions(g)))

plot_rerun == Cell(HN, 18, {}, {},
    LAMBDA g : gather_all_middlewares("exp5_1_rerun", <<6, 9>>, 1..3) ++ [multigets |-> <<6, 9>>],
    {"gather_requests", "os", "plt"}, {}, Nothing, LAMBDA g :
    Panels("memcachedRTT_histograms_rerun", RowsOfMiddlewares(g, 2, <<6, 9>>)))

gather_single_clients == Compute(HN, 19, {}, {"os", "np", "combine_multiple_histograms"}, LAMBDA g :
    [exp5_1_dir |-> "exp5_1",
     client_hist |-> [n \in 1..6 |->
        Histogram("exp5_1", "sharded", 6, <<<<<<1, 0>>, <<2, 0>>, <<3, 0>>, <<1, 1>>, <<2, 1>>, <<3, 1>>>>[n]>>)]])

plot_single_clients == Draw(HN, 20, {"client_hist"}, {"plt"}, LAMBDA g :
    Panels("5_3_histogram_sharded_singleclients",
        Entry(<<1, 1>>, Panel("memtier", "sharded", 6, (1..3) \X {0}, {g.client_hist[n] : n \in 1..3})) ++
        Entry(<<1, 2>>, Panel("memtier", "sharded", 6, (1..3) \X {1}, {g.client_hist[n] : n \in 4..6}))))
=============================================================================
