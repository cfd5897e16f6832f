--------------------------- MODULE DstatNotebooks ---------------------------
(***************************************************************************)
(* client_dstat_logs.ipynb and server_dstat_logs.ipynb of experiments 2 to *)
(* 5.  The files of these notebooks are a record                           *)
(*   clients: client -> repetition -> samples,    servers: server ->       *)
(*   samples,                                                              *)
(* the same for every configuration: a table has one row for each of its   *)
(* settings, and a figure shows the metric y of every row.  Their paths do *)
(* not name the workload.                                                  *)
(***************************************************************************)
EXTENDS GraphNotebooks, DstatLogs

CONSTANTS TruncateTen, TruncateFive    \* truncate_sec: 10 and 5

ASSUME TruncateAssumption == TruncateTen \in Nat /\ TruncateFive \in Nat

client_table(files, source, workload, settings, clients, truncate_sec, num_threads) ==
    [source |-> source, workload |-> workload, settings |-> settings, dstat_clients |-> clients,
     truncate_sec |-> truncate_sec, num_threads |-> num_threads,
     row |-> aggregate_dstat_all_clients(files.clients, clients, truncate_sec)]

server_table(files, source, workload, settings, servers, truncate_sec, num_threads) ==
    [source |-> source, workload |-> workload, settings |-> settings, dstat_servers |-> servers,
     truncate_sec |-> truncate_sec, num_threads |-> num_threads,
     row |-> aggregate_dstat_all_servers(files.clients[1], files.servers, servers, truncate_sec)]

Drawn(label, kind, table, y) ==
    Saved(label, kind, "all",
          [name \in DOMAIN table \ {"row"} |-> table[name]] ++ [y |-> y, drawn |-> table.row[y]])

\* A loop over the configurations and the figure of its table, in one cell.
DrawTable(nb, n, label, kind, table(_), y) ==
    Draw(nb, n, {}, {"pd", "plt"}, LAMBDA g : Drawn(label, kind, table(logs), y))

vcs_2 == {1, 4, 8, 16, 32, 64, 128, 256}
vcs_3 == {1, 8, 16, 32, 64, 96, 128, 160}
vcs_4 == {1, 4, 8, 12, 16, 20, 24, 32, 48, 64}
multigets_5 == {1, 3, 6, 9}

DstatBooks == {"client_dstat_2", "client_dstat_3", "client_dstat_4", "client_dstat_5",
               "server_dstat_2", "server_dstat_3", "server_dstat_4", "server_dstat_5"}

\* The cells with the imports and the functions above.
dstat_imports(nb) == Import(nb, 1, {"os", "pd", "datetime", "plt", "cycler"}, TRUE)

-----------------------------------------------------------------------------
(* 2_baseline                                                              *)

client_loop_2_1 == Compute("client_dstat_2", 2, {}, {"pd"}, LAMBDA g :
    [nice_table |-> client_table(logs, "exp2_1", "both", vcs_2, <<1, 2, 3>>, 0, 6)])
client_send_2_1 == Draw("client_dstat_2", 3, {"nice_table"}, {"plt"}, LAMBDA g :
    Drawn("exp2_1", "shown_Send", g.nice_table, "send"))
client_loop_2_2 == Compute("client_dstat_2", 4, {}, {"pd"}, LAMBDA g :
    [nice_table |-> client_table(logs, "exp2_2", "both", vcs_2, <<1>>, 0, 2)])
client_send_2_2 == Draw("client_dstat_2", 5, {"nice_table"}, {"plt"}, LAMBDA g :
    Drawn("exp2_2", "shown_Send", g.nice_table, "send"))

server_loop_2_1 == Compute("server_dstat_2", 2, {}, {"pd"}, LAMBDA g :
    [nice_table |-> server_table(logs, "exp2_1", "both", vcs_2, <<6>>, 0, 6)])
server_send_2_1 == Draw("server_dstat_2", 3, {"nice_table"}, {"plt"}, LAMBDA g :
    Drawn("exp2_1", "memcached_Send", g.nice_table, "send"))
server_load_2_1 == Draw("server_dstat_2", 4, {"nice_table"}, {"plt"}, LAMBDA g :
    Drawn("exp2_1", "memcached_Load", g.nice_table, "load"))
server_loop_2_2 == Compute("server_dstat_2", 5, {}, {"pd"}, LAMBDA g :
    [nice_table |-> server_table(logs, "exp2_2", "both", vcs_2, <<6, 7>>, 0, 2)])
\* The load, under the title of the network activity.
server_load_2_2 == Draw("server_dstat_2", 6, {"nice_table"}, {"plt"}, LAMBDA g :
    Drawn("exp2_2", "shown_Send", g.nice_table, "load"))

-----------------------------------------------------------------------------
(* 3_middleware_baseline.  Both clients' figures have the same path.       *)

client_dstat_3_1 == DrawTable("client_dstat_3", 2, "exp3_1", "memtier_Send", LAMBDA files :
    client_table(files, "exp3_1", "writeOnly", vcs_3, <<1>>, TruncateTen, 2), "send")
client_dstat_3_2 == DrawTable("client_dstat_3", 3, "exp3_1", "memtier_Send", LAMBDA files :
    client_table(files, "exp3_2", "readOnly", vcs_3, <<1>>, TruncateTen, 2), "send")

server_dstat_3_1 == DrawTable("server_dstat_3", 2, "exp3_1", "shown_recv", LAMBDA files :
    server_table(files, "exp3_1", "writeOnly", vcs_3, <<6>>, TruncateTen, 2), "recv")
server_dstat_3_2 == DrawTable("server_dstat_3", 3, "exp3_2", "shown_send", LAMBDA files :
    server_table(files, "exp3_2", "readOnly", vcs_3, <<6>>, TruncateTen, 2), "send")
server_dstat_3_2_rerun == DrawTable("server_dstat_3", 4, "exp3_2_2", "shown_send", LAMBDA files :
    server_table(files, "exp3_2_rerun", "readOnly", vcs_3, <<6>>, TruncateTen, 4), "send")

-----------------------------------------------------------------------------
(* 4_write_throughput.  The clients' axis is multiplied with two of the    *)
(* six threads; server 7 counts twice and server 8 is missing.             *)

client_dstat_4 == DrawTable("client_dstat_4", 2, "exp4", "memtier_Send", LAMBDA files :
    client_table(files, "exp4", "writeOnly", vcs_4, <<1, 2, 3>>, TruncateTen, 2), "load")
server_dstat_4 == DrawTable("server_dstat_4", 2, "exp4", "shown_load", LAMBDA files :
    server_table(files, "exp4", "writeOnly", vcs_4, <<6, 7, 7>>, TruncateTen, 6), "load")

-----------------------------------------------------------------------------
(* 5_multigets.  The axis has the numbers of keys.                         *)

client_dstat_5 == DrawTable("client_dstat_5", 2, "exp5", "memtier_Send", LAMBDA files :
    client_table(files, "exp5_2", "nonsharded", multigets_5, <<1, 2, 3>>, TruncateTen, 2), "send")

server_loop_5 == Compute("server_dstat_5", 2, {}, {"pd"}, LAMBDA g :
    [agg_table |-> server_table(logs, "exp5_2", "nonsharded", multigets_5, <<6, 7>>, TruncateFive, 0)])
server_show_5 == Draw("server_dstat_5", 3, {"agg_table"}, {}, LAMBDA g :
    Saved("exp5", "printed", "all", g.agg_table))
server_load_5 == Draw("server_dstat_5", 4, {"agg_table"}, {"plt"}, LAMBDA g :
    Drawn("exp5", "shown_load", g.agg_table, "load"))
=============================================================================
