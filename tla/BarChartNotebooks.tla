------------------------- MODULE BarChartNotebooks -------------------------
(***************************************************************************)
(* The two notebooks responsetime_stacked_barchart.ipynb, of experiments 3 *)
(* and 5.  One cell gathers the data of a chart, the next one draws it     *)
(* with whatever the names then stand for.                                 *)
(*                                                                         *)
(* A row of the data stands for the number of clients, or of keys, that it *)
(* was measured with; a frame also knows the numbers it is sorted by.      *)
(***************************************************************************)
EXTENDS GraphNotebooks

vc_configs == <<1, 8, 16, 32, 64, 96, 128, 160>>

\* The rows of one number of workers; the charts of all numbers of workers are alike.
gather_responsetimes(g) ==
    [source |-> g.inputdir, workload |-> g.workload, middlewares |-> g.middlewares,
     clients |-> g.client_logfiles,
     rows |-> [i \in DOMAIN g.vc_configs |->
                [num_clients |-> g.vc_configs[i] * g.num_threads,
                 shows |-> g.vc_configs[i] * AllThreads(Launched[g.inputdir])]]]

stacked_bars(data, xtick_labels, print_first_n_bars) ==
    LET sorted == SortSeq(data.rows, LAMBDA r, s : r.num_clients < s.num_clients)
    IN Traced(data.source, data.workload, {}, data.middlewares, data.clients)
       ++ [bars |-> [n \in 1..print_first_n_bars |->
                        [label |-> xtick_labels[n], shows |-> sorted[n].shows]]]

\* The cells of experiment 3.  A chart is gathered from the names its cell has just assigned.
Chart(inputdir, workload, middlewares, clients, num_threads) ==
    [inputdir |-> inputdir, workload |-> workload, middlewares |-> middlewares,
     client_logfiles |-> clients, vc_configs |-> vc_configs, num_threads |-> num_threads]

Gather(n, chart) ==
    Cell("barchart_3", n, {}, {"resptime", "plt"}, LAMBDA g : chart, {}, {},
         LAMBDA g : [all_worker_data |-> gather_responsetimes(g)], Nothing)

Chart3Names == {"all_worker_data", "vc_configs", "num_threads", "workload"}

StackedChart(g, label, print_first_n_bars) ==
    Saved(label, "responseTimeBreakDown", g.workload,
          stacked_bars(g.all_worker_data, [i \in DOMAIN g.vc_configs |-> g.vc_configs[i] * g.num_threads],
                       print_first_n_bars))

gather_3_1 == Gather(1, Chart("exp3_1", "readOnly", <<4>>, client_1, 2))

plot_3_1 == Cell("barchart_3", 2, {}, {}, Nothing, {"plt", "resptime"}, Chart3Names, Nothing,
                 LAMBDA g : StackedChart(g, "exp3_1", 4))

\* The other workload of the same directory, gathered and drawn in one cell.
gather_and_plot_3_1 ==
    Cell("barchart_3", 3, {}, {}, LAMBDA g : [workload |-> "writeOnly"], {"plt", "resptime"},
         {"inputdir", "middlewares", "client_logfiles", "vc_configs", "num_threads"},
         LAMBDA g : [all_worker_data |-> gather_responsetimes(g)],
         LAMBDA g : StackedChart([all_worker_data |-> gather_responsetimes(g)] ++ g, "exp3_1", 5))

\* Gathered with four threads, which only orders the rows, and labelled with two.
gather_3_2 == Gather(4, Chart("exp3_2", "writeOnly", <<4, 5>>, client_1_twice, 4))

plot_3_2 == Cell("barchart_3", 5, {}, {}, LAMBDA g : [num_threads |-> 2], {"plt", "resptime"},
                 Chart3Names, Nothing, LAMBDA g : StackedChart(g, "exp3_2", 5))

gather_3_2_rerun == Gather(6, Chart("exp3_2_rerun", "writeOnly", <<4, 5>>, clients_2_twice, 4))

plot_3_2_rerun == Cell("barchart_3", 7, {}, {}, Nothing, {"plt", "resptime"}, Chart3Names, Nothing,
                       LAMBDA g : StackedChart(g, "exp3_2_2", 8))

-----------------------------------------------------------------------------
(* Experiment 5: one frame for the sharded and one for the other runs.     *)

sharded_configs == <<<<"sharded", "exp5_1">>, <<"nonsharded", "exp5_2">>>>

gather_multigets(g, middlewares) ==
    [idx \in DOMAIN g.sharded_configs |->
        [source |-> g.sharded_configs[idx][2], workload |-> g.sharded_configs[idx][1],
         middlewares |-> middlewares, clients |-> clients_3_twice,
         rows |-> [i \in DOMAIN g.multigets |-> [num_clients |-> g.multigets[i],
                                                 shows |-> g.multigets[i]]]]]

GatherMultigets(n, multigets, results(_)) ==
    Cell("barchart_5", n, {}, {"resptime", "plt"},
         LAMBDA g : [sharded_configs |-> sharded_configs, multigets |-> multigets], {}, {},
         results, Nothing)

gather_5 == GatherMultigets(1, <<1, 3, 6, 9>>, LAMBDA g :
    [all_multiget_data |-> gather_multigets(g, <<4, 5>>)])

plot_5 == Draw("barchart_5", 2, {"sharded_configs", "all_multiget_data", "multigets"},
    {"plt", "resptime"}, LAMBDA g :
    [figure \in {<<"exp5", "responseTimeBreakDown_multigets", g.sharded_configs[idx][1]>> :
                    idx \in DOMAIN g.sharded_configs} |->
        LET idx == CHOOSE i \in DOMAIN g.sharded_configs : g.sharded_configs[i][1] = figure[3]
        IN stacked_bars(g.all_multiget_data[idx], g.multigets, 4)])

gather_5_single_middlewares == GatherMultigets(3, <<6>>, LAMBDA g :
    [mw1_sharded_data |-> gather_multigets(g, <<4>>), mw2_sharded_data |-> gather_multigets(g, <<5>>)])

\* What is printed: the frames a difference is taken of, of the sharded runs and of the others.
print_5_single_middlewares ==
    Draw("barchart_5", 4, {"mw1_sharded_data", "mw2_sharded_data"}, {}, LAMBDA g :
         [figure \in {"exp5"} \X {"mw1_faster"} \X {"sharded", "nonsharded"} |->
            LET idx == IF figure[3] = "sharded" THEN 1 ELSE 2
            IN [minuend |-> g.mw2_sharded_data[idx], subtrahend |-> g.mw1_sharded_data[idx]]])

(* MUTANT: the data are bound to the name of the first cell. *)
gather_5_combined_first_name == GatherMultigets(5, <<6>>, LAMBDA g :
    [all_multiget_data |-> gather_multigets(g, <<4, 5>>)])

gather_5_combined == GatherMultigets(5, <<6>>, LAMBDA g :
    [combined_middleware_data |-> gather_multigets(g, <<4, 5>>)])

print_5_combined == Draw("barchart_5", 6, {"combined_middleware_data"}, {}, LAMBDA g :
    [figure \in {"exp5"} \X {"pre_and_post"} \X {"sharded", "nonsharded"} |->
        LET data == g.combined_middleware_data[IF figure[3] = "sharded" THEN 1 ELSE 2]
        IN Traced(data.source, data.workload, {6}, data.middlewares, data.clients)])
=============================================================================
