------------------------------ MODULE Baseline ------------------------------
(***************************************************************************)
(* The evaluation of experiment 2, clients and servers without middleware. *)
(* Its clients' logs are joined second by second, where                    *)
(* gather_memtier_statistics.py sums them.                                 *)
(*                                                                         *)
(* inputdir: name of a configuration [workload, vc] -> its repetitions,    *)
(* each a record with the clients' files, [clients: log file -> lines].    *)
(***************************************************************************)
EXTENDS MemtierLogs

\* The rows of several files that inner merges on the timestep bring together.
Merged(files) ==
    {rows \in [DOMAIN files -> UNION {Range(files[f]) : f \in DOMAIN files}] :
        /\ \A f \in DOMAIN files : rows[f] \in Range(files[f])
        /\ \A f, g \in DOMAIN files : rows[f].timestep = rows[g].timestep}

Joined(files, num_files) ==
    {[timestep |-> rows[1].timestep,
      sum_throughput |-> Total([f \in DOMAIN rows |-> Whole(rows[f].throughput)]),
      avg_responsetime |-> Over(Total([f \in DOMAIN rows |-> Whole(rows[f].responsetime)]),
                                Whole(num_files))] : rows \in Merged(files)}

(* MUTANT: the seconds of the bounds are kept. *)
WithinInclusive(rows, warmup, cooldown) ==
    {r \in rows : warmup <= r.timestep /\ r.timestep <= cooldown}

\* The seconds of the two bounds are cut away as well.
Within(rows, warmup, cooldown) ==
    {r \in rows : warmup < r.timestep /\ r.timestep < cooldown}

\* The rows of the files <workload>_aggregated.csv and <workload>_concatenated.csv.
Gathered(inputdir, workload, client_logs, num_files, warmup, cooldown) ==
    LET matching_directories == {name \in DOMAIN inputdir : name.workload = workload}
        reps == {<<name, rep>> : name \in matching_directories,
                                 rep \in UNION {DOMAIN inputdir[name] : name \in matching_directories}}
        files(r) == [i \in DOMAIN client_logs |-> inputdir[r[1]][r[2]].clients[client_logs[i]]]
        labelled(rows, r) == {row ++ [vc_per_thread |-> r[1].vc, rep |-> r[2]] :
                                row \in Within(rows, warmup, cooldown)}
    IN [aggregated |-> UNION {labelled(Joined(files(r), num_files), r) : r \in reps},
        concatenated |-> UNION {labelled(Concatenated(files(r)), r) : r \in reps}]

gather_statistics_2_1(inputdir, workload, warmup, cooldown) ==
    Gathered(inputdir, workload, <<"client_01.log", "client_02.log", "client_03.log">>, 3, warmup, cooldown)

gather_statistics_2_2(inputdir, workload, warmup, cooldown) ==
    Gathered(inputdir, workload, <<"client_01_0.log", "client_01_1.log">>, 2, warmup, cooldown)

\* One row for each repetition and number of clients.
MeansPerRep(rows, workload, clients_per_vc) ==
    {LET group == {r \in rows : r.rep = row.rep /\ r.vc_per_thread = row.vc_per_thread}
     IN [rep |-> row.rep, num_clients |-> row.vc_per_thread * clients_per_vc, workload |-> workload,
         sum_throughput |-> Mean([r \in group |-> r.sum_throughput]),
         avg_responsetime |-> Mean([r \in group |-> r.avg_responsetime])] : row \in rows}

Workloads == {"writeOnly", "readOnly"}

\* Two threads in each of three clients.
gather_averages_2_1(inputdir, warmup, cooldown) ==
    UNION {MeansPerRep(gather_statistics_2_1(inputdir, workload, warmup, cooldown).aggregated, workload, 2 * 3) :
            workload \in Workloads}

\* Two threads in one client.
gather_averages_2_2(inputdir, warmup, cooldown) ==
    UNION {MeansPerRep(gather_statistics_2_2(inputdir, workload, warmup, cooldown).aggregated, workload, 2 * 1) :
            workload \in Workloads}

-----------------------------------------------------------------------------
(* The notebooks graphs_2_1 and graphs_2_2.                                *)

\* Mean and deviation over the repetitions.
OverReps(all_reps) ==
    {LET group == {r \in all_reps : r.num_clients = row.num_clients /\ r.workload = row.workload}
         average(column) == [mean |-> Mean([r \in group |-> r[column]]),
                             std |-> Variance([r \in group |-> r[column]])]
     IN [num_clients |-> row.num_clients, workload |-> row.workload,
         sum_throughput |-> average("sum_throughput"),
         avg_responsetime |-> average("avg_responsetime")] : row \in all_reps}

averages_2_1(all_reps) == OverReps(all_reps)
averages_2_2(all_reps) == OverReps(all_reps)

interact_responsetime_mean(avg) == Over(Whole(avg.num_clients), avg.sum_throughput.mean)
interact_throughput_mean(avg) == Over(Whole(avg.num_clients), avg.avg_responsetime.mean)

\* For each workload the points, with error bars of two standard deviations,
\* and the line of the interactive law.
GraphOf(avg, column, law) ==
    [workload \in {row.workload : row \in avg} |->
        {[num_clients |-> row.num_clients, mean |-> row[column].mean,
          yerr |-> Times(Whole(4), row[column].std), law |-> law[row]] :
            row \in {r \in avg : r.workload = workload}}]

ThroughputLaw(avg) == [row \in avg |-> interact_throughput_mean(row)]
ResponsetimeLaw(avg) == [row \in avg |-> interact_responsetime_mean(row)]

ThroughputGraph_2_1(avg) == GraphOf(avg, "sum_throughput", ThroughputLaw(avg))
ResponsetimeGraph_2_1(avg) == GraphOf(avg, "avg_responsetime", ResponsetimeLaw(avg))
ThroughputGraph_2_2(avg) == GraphOf(avg, "sum_throughput", ThroughputLaw(avg))
ResponsetimeGraph_2_2(avg) == GraphOf(avg, "avg_responsetime", ResponsetimeLaw(avg))
=============================================================================
