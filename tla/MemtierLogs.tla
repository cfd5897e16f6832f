---------------------------- MODULE MemtierLogs ----------------------------
(***************************************************************************)
(* gather_memtier_statistics.py: from the logs of the clients to averages. *)
(*                                                                         *)
(* A client log is a sequence of lines: the second they were printed in,   *)
(* the operations of this second, and their mean response time.            *)
(***************************************************************************)
EXTENDS RequestLogs

(* MUTANT: the file of an earlier extraction is not truncated. *)
append_client_logs(log, extracted) == extracted \o log

\* The file beside the log: opened with "w", then the script appends to it.
extract_client_logs(log, extracted) ==
    LET truncated == << >> IN truncated \o log

\* Rows of several files, each with the file and the line it comes from.
Concatenated(files) ==
    UNION {{files[f][i] ++ [file |-> f, line |-> i] : i \in DOMAIN files[f]} : f \in DOMAIN files}

SecondsOf(rows) == {r.timestep : r \in rows}
At(rows, second) == {r \in rows : r.timestep = second}

\* One row per second, numbered from 0 (reset_index).
aggregate_over_clients(files) ==
    LET rows == Concatenated(files)
        aggregated(second) ==
            LET throughput == Total([r \in At(rows, second) |-> Whole(r.throughput)])
                product == Total([r \in At(rows, second) |-> Whole(r.throughput * r.responsetime)])
            IN [timestep |-> second, throughput |-> throughput,
                responsetime |-> Over(product, throughput),
                index |-> Cardinality({s \in SecondsOf(rows) : s < second})]
    IN {aggregated(second) : second \in SecondsOf(rows)}

cut_clients(rows, warmup, cooldown) ==
    cut_away_warmup_cooldown(rows, "index", warmup, cooldown)

\* The frames of the repetitions are grouped by their column timestep.
aggregate_client_reps(rep_aggregates) ==
    LET reps(second) == {i \in DOMAIN rep_aggregates : second \in SecondsOf(rep_aggregates[i])}
        at(i, second) == CHOOSE r \in rep_aggregates[i] : r.timestep = second
    IN Tabulated([second \in UNION {SecondsOf(rep_aggregates[i]) : i \in DOMAIN rep_aggregates} |->
            [throughput |-> Mean([i \in reps(second) |-> at(i, second).throughput]),
             responsetime |-> Mean([i \in reps(second) |-> at(i, second).responsetime])]])

aggregate_client_timesteps(timestep_wise_averages) ==
    aggregate_over_timesteps(timestep_wise_averages)

\* The clock times of a ping log begin at the first of them.
extract_ping_logs(log) ==
    LET start == Min({log[i].clockTime : i \in DOMAIN log})
    IN [i \in DOMAIN log |-> [log[i] EXCEPT !.clockTime = @ - start]]
=============================================================================
