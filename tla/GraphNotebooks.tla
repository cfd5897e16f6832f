--------------------------- MODULE GraphNotebooks ---------------------------
(***************************************************************************)
(* The notebooks that draw the figures of experiments 3, 4 and 5, cell by  *)
(* cell.  What a plotting function computes is the subject of Experiments, *)
(* ResponseTimes and OtherExperiments; here a figure is what it was drawn  *)
(* from: the experiment, the workload, the settings (numbers of virtual    *)
(* clients or of keys), the middlewares and the clients' log files, and    *)
(* the number of threads its horizontal axis is multiplied with.           *)
(*                                                                         *)
(* A figure is named by the label in its path, its kind and its workload.  *)
(***************************************************************************)
EXTENDS Kernel, Setups, SequencesExt

client_1 == <<<<1>>>>
client_1_twice == <<<<1, 0>>, <<1, 1>>>>
clients_2_twice == client_1_twice \o <<<<2, 0>>, <<2, 1>>>>

clients_3_twice == clients_2_twice \o <<<<3, 0>>, <<3, 1>>>>

Traced(source, workload, settings, middlewares, clients) ==
    [source |-> source, workload |-> workload, settings |-> settings, middlewares |-> middlewares,
     clients |-> clients]

Shown(source, workload, settings, middlewares, clients, num_threads) ==
    Traced(source, workload, settings, middlewares, clients) ++ [num_threads |-> num_threads]

Saved(label, kind, workload, shown) == Entry(<<label, kind, workload>>, shown)

\* Every directory of the workload is read: all settings that were launched.
workload_graphs(kinds, source, label, workload, middlewares, clients, num_threads) ==
    [figure \in {label} \X kinds \X {workload} |->
        Shown(source, workload, Launched[source].settings, middlewares, clients, num_threads)]

create_workload_graphs(source, label, workload, middlewares, clients, num_threads) ==
    workload_graphs({"mw_throughput", "mw_responsetime", "mt_throughput", "mt_responsetime", "queueLength"},
                    source, label, workload, middlewares, clients, num_threads)

create_workload_graphs_4(source, label, workload, middlewares, clients, num_threads) ==
    workload_graphs({"mw_throughput", "mw_responsetime", "mt_throughput", "mt_responsetime", "queueLength",
                     "memcachedRTT"}, source, label, workload, middlewares, clients, num_threads)

DrawingModules == {"xput_vs_vc", "xput_vs_time", "resptime", "queuelen"}
TableModules == DrawingModules \cup {"summ", "plt", "os"}

-----------------------------------------------------------------------------
(* 3_1/graphs.ipynb                                                        *)

graphs_3_1_setup ==
    \/ Import("graphs_3_1", 1, TableModules, TRUE)
    \/ Assign("graphs_3_1", 2, LAMBDA g : [exp3_1_inputdir |-> "exp3_1"])

graphs_3_1_workloads == Draw("graphs_3_1", 3, {"exp3_1_inputdir"}, {"xput_vs_vc"}, LAMBDA g :
    create_workload_graphs(g.exp3_1_inputdir, "exp3_1", "writeOnly", <<4>>, client_1, 2) ++
    create_workload_graphs(g.exp3_1_inputdir, "exp3_1", "readOnly", <<4>>, client_1, 2))

\* The response time of the best configuration is assigned to resptime, the name of a module.
graphs_3_1_summary == Cell("graphs_3_1", 4, {"exp3_1_inputdir"}, {}, Nothing, {"summ"}, {},
    LAMBDA g : [resptime |-> "milliseconds"], LAMBDA g :
    Saved("exp3_1", "summary", "writeOnly",
          Shown(g.exp3_1_inputdir, "writeOnly", {1, 8, 16, 32}, <<4>>, client_1, 2)))

graphs_3_1_break_down_readOnly == Draw("graphs_3_1", 5, {"exp3_1_inputdir"}, {"plt", "resptime", "os"},
    LAMBDA g : Saved("exp3_1", "3_1_responseTimeBreakDown", "readOnly",
                     Shown(g.exp3_1_inputdir, "readOnly", {16}, <<4>>, client_1, 2)))

graphs_3_1_queueLength == Draw("graphs_3_1", 6, {"exp3_1_inputdir"}, {"plt", "queuelen", "os"},
    LAMBDA g : Saved("exp3_1", "averageQueueLength", "readOnly",
                     Shown(g.exp3_1_inputdir, "readOnly", {8, 16, 32, 64}, <<4>>, client_1, 2)))

graphs_3_1_break_down_writeOnly == Draw("graphs_3_1", 7, {"exp3_1_inputdir"}, {"plt", "resptime", "os"},
    LAMBDA g : Saved("exp3_1", "3_1_responseTimeBreakDown", "writeOnly",
                     Shown(g.exp3_1_inputdir, "writeOnly", {32, 64}, <<4>>, client_1, 2)))

-----------------------------------------------------------------------------
(* graphs_3_2.ipynb.  There is no max_xput_finder: the import stops there. *)

graphs_3_2_setup ==
    \/ Import("graphs_3_2", 1, DrawingModules, FALSE)
    \/ Assign("graphs_3_2", 2, LAMBDA g : [exp3_2_inputdir |-> "exp3_2"])

graphs_3_2_workloads == Draw("graphs_3_2", 3, {"exp3_2_inputdir"}, {"xput_vs_vc"}, LAMBDA g :
    create_workload_graphs(g.exp3_2_inputdir, "exp3_2", "writeOnly", <<4, 5>>, client_1_twice, 2) ++
    create_workload_graphs(g.exp3_2_inputdir, "exp3_2", "readOnly", <<4, 5>>, client_1_twice, 2))

graphs_3_2_summary == Compute("graphs_3_2", 4, {"exp3_2_inputdir"}, {"max_xput_finder"}, Nothing)

graphs_3_2_break_down_writeOnly == Draw("graphs_3_2", 5, {"exp3_2_inputdir"}, {"plt", "resptime", "os"},
    LAMBDA g : Saved("exp3_2", "3_1_responseTimeBreakDown", "writeOnly",
                     Shown(g.exp3_2_inputdir, "writeOnly", {16}, <<4, 5>>, client_1_twice, 2)))

graphs_3_2_break_down_readOnly == Draw("graphs_3_2", 6, {"exp3_2_inputdir"}, {"plt", "resptime", "os"},
    LAMBDA g : Saved("exp3_2", "3_2_1_responseTimeBreakDown", "readOnly",
                     Shown(g.exp3_2_inputdir, "readOnly", {32}, <<4, 5>>, client_1_twice, 2)))

graphs_3_2_queueLength == Draw("graphs_3_2", 7, {"exp3_2_inputdir"}, {"plt", "queuelen", "os"},
    LAMBDA g : Saved("exp3_2", "averageQueueLength", "readOnly",
                     Shown(g.exp3_2_inputdir, "readOnly", {8, 16, 32, 64}, <<4, 5>>, client_1_twice, 2)))

graphs_3_2_trace == Draw("graphs_3_2", 8, {"exp3_2_inputdir"}, {"plt", "xput_vs_time", "os"},
    LAMBDA g : Saved("exp3_2", "experiment_trace", "writeOnly",
                     Traced(g.exp3_2_inputdir, "writeOnly", {32}, <<4, 5>>, client_1_twice)))
-----------------------------------------------------------------------------
(* graph_3_2_rerun.ipynb                                                   *)

graph_3_2_rerun_setup ==
    \/ Import("graph_3_2_rerun", 1, TableModules, TRUE)
    \/ Assign("graph_3_2_rerun", 2, LAMBDA g : [exp3_2_rerun |-> "exp3_2_rerun"])

graph_3_2_rerun_workloads == Draw("graph_3_2_rerun", 3, {"exp3_2_rerun"}, {"xput_vs_vc"}, LAMBDA g :
    create_workload_graphs(g.exp3_2_rerun, "exp3_2_2", "writeOnly", <<4, 5>>, clients_2_twice, 4) ++
    create_workload_graphs(g.exp3_2_rerun, "exp3_2_2", "readOnly", <<4, 5>>, clients_2_twice, 4))

graph_3_2_rerun_summary == Cell("graph_3_2_rerun", 4, {"exp3_2_rerun"}, {}, Nothing, {"summ"}, {},
    LAMBDA g : [resptime |-> "milliseconds"], LAMBDA g :
    Saved("exp3_2_2", "summary", "writeOnly",
          Shown(g.exp3_2_rerun, "writeOnly", {1, 8, 16, 32, 64, 96}, <<4, 5>>, clients_2_twice, 4)))

graph_3_2_rerun_break_down_readOnly ==
    Draw("graph_3_2_rerun", 5, {"exp3_2_rerun"}, {"plt", "resptime", "os"},
         LAMBDA g : Saved("exp3_2_2", "responseTimeBreakDown", "readOnly",
                          Shown(g.exp3_2_rerun, "readOnly", {16}, <<4, 5>>, clients_2_twice, 4)))

(* MUTANT: the path of the cell before it. *)
graph_3_2_rerun_break_down_same_path ==
    Draw("graph_3_2_rerun", 6, {"exp3_2_rerun"}, {"plt", "resptime", "os"},
         LAMBDA g : Saved("exp3_2_2", "responseTimeBreakDown", "readOnly",
                          Shown(g.exp3_2_rerun, "writeOnly", {96}, <<4, 5>>, clients_2_twice, 4)))

graph_3_2_rerun_break_down_writeOnly ==
    Draw("graph_3_2_rerun", 6, {"exp3_2_rerun"}, {"plt", "resptime", "os"},
         LAMBDA g : Saved("exp3_2_2", "responseTimeBreakDown", "writeOnly",
                          Shown(g.exp3_2_rerun, "writeOnly", {96}, <<4, 5>>, clients_2_twice, 4)))

graph_3_2_rerun_queueLength ==
    Draw("graph_3_2_rerun", 7, {"exp3_2_rerun"}, {"plt", "queuelen", "os"},
         LAMBDA g : Saved("exp3_2_2", "averageQueueLength", "readOnly",
                          Shown(g.exp3_2_rerun, "readOnly", {1, 8, 16, 32}, <<4, 5>>, clients_2_twice, 4)))

\* exp3_2_inputdir is a name of graphs_3_2.ipynb.
graph_3_2_rerun_trace ==
    Draw("graph_3_2_rerun", 8, {"exp3_2_inputdir"}, {"plt", "xput_vs_time", "os"},
         LAMBDA g : Saved("exp3_2", "experiment_trace", "writeOnly",
                          Traced(g.exp3_2_inputdir, "writeOnly", {32}, <<4, 5>>, client_1_twice)))

-----------------------------------------------------------------------------
(* graphs_4.ipynb.  The last three cells are those of the other notebooks. *)

graphs_4_setup ==
    \/ Import("graphs_4", 1, TableModules, TRUE)
    \/ Assign("graphs_4", 2, LAMBDA g : [exp4_dir |-> "exp4"])

graphs_4_workload == Draw("graphs_4", 3, {"exp4_dir"}, {"xput_vs_vc"}, LAMBDA g :
    create_workload_graphs_4(g.exp4_dir, "exp4", "writeOnly", <<4, 5>>, clients_3_twice, 6))

graphs_4_summary == Draw("graphs_4", 4, {"exp4_dir"}, {"summ"}, LAMBDA g :
    Saved("exp4", "summary", "writeOnly",
          Shown(g.exp4_dir, "writeOnly", {1, 4, 8, 12, 16, 20, 24, 32}, <<4, 5>>, clients_3_twice, 6)))

graphs_4_break_down == Draw("graphs_4", 5, {"exp4_dir"}, {"plt", "resptime", "os"}, LAMBDA g :
    Saved("exp4", "responseTimeBreakDown", "writeOnly",
          Shown(g.exp4_dir, "writeOnly", {8}, <<4, 5>>, clients_3_twice, 6)))

graphs_4_rerun_break_down == Draw("graphs_4", 6, {"exp3_2_rerun"}, {"plt", "resptime", "os"}, LAMBDA g :
    Saved("exp3_2_2", "responseTimeBreakDown", "writeOnly",
          Shown(g.exp3_2_rerun, "writeOnly", {96}, <<4, 5>>, clients_2_twice, 4)))

graphs_4_rerun_queueLength == Draw("graphs_4", 7, {"exp3_2_rerun"}, {"plt", "queuelen", "os"}, LAMBDA g :
    Saved("exp3_2_2", "averageQueueLength", "writeOnly",
          Shown("exp3_2_rerun", "writeOnly", {8, 16, 32, 64}, <<4, 5>>, clients_2_twice, 4)))

graphs_4_trace == Draw("graphs_4", 8, {"exp3_2_inputdir"}, {"plt", "xput_vs_time", "os"}, LAMBDA g :
    Saved("exp3_2", "experiment_trace", "writeOnly",
          Traced(g.exp3_2_inputdir, "writeOnly", {32}, <<4, 5>>, client_1_twice)))

-----------------------------------------------------------------------------
(* graphs_5.ipynb.  The directories are gathered in the order logs in      *)
(* which the file system lists them; a frame is a sequence of numbers of   *)
(* keys, those of its rows.                                                *)

(* MUTANT: the frames stay as they were gathered. *)
unsorted_values(rows) == rows

sort_values(rows) == SortSeq(rows, <)

graphs_5_setup ==
    \/ Import("graphs_5", 1, (TableModules \ {"xput_vs_vc"}) \cup {"xput_vs_multi", "np"}, TRUE)
    \/ Assign("graphs_5", 2, LAMBDA g : [exp5_1_dir |-> "exp5_1", exp5_2_dir |-> "exp5_2"])

graphs_5_gather == Compute("graphs_5", 3, {"exp5_1_dir", "exp5_2_dir"}, {"xput_vs_multi"}, LAMBDA g :
    [shard |-> [source |-> g.exp5_1_dir, rows |-> sort_values(logs)],
     nonshard |-> [source |-> g.exp5_2_dir, rows |-> sort_values(logs)]])

\* Two bars at each tick; the labels of the ticks are given.
PairsOfBars(g, sharding) ==
    LET frame == IF sharding = "sharded" THEN g.shard ELSE g.nonshard
    IN Traced(frame.source, sharding, Range(frame.rows), <<4, 5>>, clients_3_twice)
       ++ [bars |-> [i \in 1..4 |-> [label |-> <<1, 3, 6, 9>>[i], shows |-> frame.rows[i]]]]

Compared(kind, g) == Saved("exp5", kind, "sharded", PairsOfBars(g, "sharded"))
                     ++ Saved("exp5", kind, "nonsharded", PairsOfBars(g, "nonsharded"))

graphs_5_responseTime == Draw("graphs_5", 4, {"shard", "nonshard"}, {"np", "plt", "os"},
    LAMBDA g : Compared("responseTime_multigets", g))
graphs_5_throughput == Draw("graphs_5", 5, {"shard", "nonshard"}, {"np", "plt", "os"},
    LAMBDA g : Compared("throughput_multigets", g))
\* The column it adds to both frames is read by this cell only.
graphs_5_key_throughput == Draw("graphs_5", 6, {"shard", "nonshard"}, {"np", "plt", "os"},
    LAMBDA g : Compared("key_throughput_multigets", g))

graphs_5_break_down == Draw("graphs_5", 7, {"exp5_1_dir"}, {"plt", "resptime", "os"}, LAMBDA g :
    Saved("exp5", "responseTimeBreakDown", "sharded",
          Traced(g.exp5_1_dir, "sharded", {1, 3, 6, 9}, <<4, 5>>, clients_3_twice)))
=============================================================================
