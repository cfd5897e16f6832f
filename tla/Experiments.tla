---------------------------- MODULE Experiments ----------------------------
(***************************************************************************)
(* The evaluation of experiment 3: which directories are read, how their   *)
(* logs become the numbers of the figures, and which numbers a figure      *)
(* shows.  Colours, axes and titles are left out.                          *)
(*                                                                         *)
(* inputdir: name of a configuration -> its repetitions.                   *)
(* A name is a record [workload, vc, workers].  A repetition is a record:  *)
(*   middlewares: middleware -> the sequence of its timestamped            *)
(*                subdirectories, each a log (thread -> lines)             *)
(*   clients:     log file -> lines                                        *)
(*   pings:       log file -> lines                                        *)
(***************************************************************************)
EXTENDS MemtierLogs

\* exit(2), and the -1 that no repetition has been counted.
Exit == -1

-----------------------------------------------------------------------------
(* directory_functions.py                                                  *)

find_workload_dirs(inputdir, workload) == {name \in DOMAIN inputdir : name.workload = workload}

\* The regular expression \d* matches every name: all entries are counted.
find_num_repetitions(inputdir, name) == Cardinality(DOMAIN inputdir[name])

get_and_validate_num_repetition(inputdir, names) ==
    LET counts == {find_num_repetitions(inputdir, name) : name \in names}
    IN IF Cardinality(counts) = 1 THEN CHOOSE n \in counts : TRUE ELSE Exit

find_num_vc(name) == name.vc

find_num_workers(name) == name.workers

find_worker_configurations(names) == {find_num_workers(name) : name \in names}

(* MUTANT: all directories match. *)
find_all_dirs(names, worker_config) == names

\* The name contains worker_config "workers": its number of workers ends in those digits.
find_matching_worker_config_dirs(names, worker_config) ==
    LET digits == CHOOSE p \in {10, 100, 1000} : p > worker_config /\ p <= 10 * worker_config
    IN {name \in names : name.workers % digits = worker_config}

get_only_subdir(subdirs) == IF Len(subdirs) = 1 THEN subdirs[1] ELSE Exit

\* No sys.exit while the middleware logs of this repetition are looked up.
HasOnlySubdirs(run, middlewares) == \A mw \in Range(middlewares) : Len(run.middlewares[mw]) = 1

-----------------------------------------------------------------------------
(* One repetition.                                                         *)

Requests(run, middlewares) ==
    Tabulated([i \in DOMAIN middlewares |->
        concatenate_requestlogs(get_only_subdir(run.middlewares[middlewares[i]]), i)])

Extracted(run, middlewares) ==
    LET requests == Requests(run, middlewares) IN [i \in DOMAIN requests |-> extract_metrics(requests[i])]

Files(run, client_logfiles) == [i \in DOMAIN client_logfiles |-> run.clients[client_logfiles[i]]]

\* metrics: what extract_metrics has made of the requests of each middleware.
MiddlewareMetrics(metrics, warmup, cooldown) ==
    aggregate_over_middlewares(Tabulated(
        [i \in DOMAIN metrics |-> aggregate_over_windows(cut_requests(metrics[i], warmup, cooldown))]))

ClientMetrics(run, client_logfiles, warmup, cooldown) ==
    cut_clients(aggregate_over_clients(Files(run, client_logfiles)), warmup, cooldown)

\* Means and deviations of the middlewares and of the clients side by side.
SideBySide(mw_averages, mt_averages) ==
    [mean |-> mw_averages.mean ++ mt_averages.mean, std |-> mw_averages.std ++ mt_averages.std]

Averages(mw_metrics_per_rep, mt_metrics_per_rep) ==
    SideBySide(aggregate_over_timesteps(aggregate_over_reps(Tabulated(mw_metrics_per_rep))),
               aggregate_client_timesteps(aggregate_client_reps(Tabulated(mt_metrics_per_rep))))

-----------------------------------------------------------------------------
(* graph_xputresp_vs_vc.py                                                 *)

get_worker_data(inputdir, matching_dirs, num_repetitions, middlewares, client_logfiles, warmup, cooldown, num_threads) ==
    {LET run(rep) == inputdir[name][rep]
         reps == 1..num_repetitions
     IN [vc_per_thread |-> find_num_vc(name), num_clients |-> find_num_vc(name) * num_threads]
        ++ Averages([rep \in reps |-> MiddlewareMetrics(Extracted(run(rep), middlewares), warmup, cooldown)],
                    [rep \in reps |-> ClientMetrics(run(rep), client_logfiles, warmup, cooldown)]) :
        name \in matching_dirs}

\* The interactive law, without the factor from milliseconds to seconds.
interact_resptime(avg) == Over(Whole(avg.num_clients), avg.mean.throughput)
interact_throughput(avg) == Over(Whole(avg.num_clients), avg.mean.responsetime)

\* Of the rows of a configuration only those of the means are drawn by the law.
WithInteractiveLaw(avg, workers) ==
    avg ++ [workers |-> workers, interact_resptime |-> interact_resptime(avg),
            interact_throughput |-> interact_throughput(avg)]

\* One line per number of workers: the points and their error bars.
ErrorBars(avg, column) ==
    [workers \in {row.workers : row \in avg} |->
        {<<row.num_clients, row.mean[column], row.std[column]>> :
            row \in {r \in avg : r.workers = workers}}]

Line(avg, column) ==
    [workers \in {row.workers : row \in avg} |->
        {<<row.num_clients, row[column]>> : row \in {r \in avg : r.workers = workers}}]

plot_mw_xput_respTime_all_workers(avg) ==
    [throughput |-> ErrorBars(avg, "throughput_mw"),
     responsetime |-> ErrorBars(avg, "responseTime_ms")]

plot_mt_xput_respTime_all_workers_wInteract(avg) ==
    [throughput |-> ErrorBars(avg, "throughput"),
     throughput_i |-> Line(avg, "interact_throughput"),
     responsetime |-> ErrorBars(avg, "responsetime"),
     responsetime_i |-> Line(avg, "interact_resptime")]

plot_mw_queueLength_all_workers(avg) == ErrorBars(avg, "queueLength")

\* worker_data: number of workers -> the rows of the configurations with it.
AllWorkerAverages(worker_data) ==
    UNION {{WithInteractiveLaw(avg, workers) : avg \in worker_data[workers]} : workers \in DOMAIN worker_data}

loop_function(inputdir, all_directories, num_repetitions, middlewares, client_logfiles, warmup, cooldown, num_threads) ==
    LET avg == AllWorkerAverages([workers \in find_worker_configurations(all_directories) |->
            get_worker_data(inputdir, find_matching_worker_config_dirs(all_directories, workers),
                num_repetitions, middlewares, client_logfiles, warmup, cooldown, num_threads)])
    IN [mw |-> plot_mw_xput_respTime_all_workers(avg),
        mt |-> plot_mt_xput_respTime_all_workers_wInteract(avg),
        queueLength |-> plot_mw_queueLength_all_workers(avg)]

\* The graphs, or << >> after exit(2).
create_workload_graphs(inputdir, workload, middlewares, client_logfiles, warmup, cooldown, num_threads) ==
    LET matching_directories == find_workload_dirs(inputdir, workload)
        num_repetitions == get_and_validate_num_repetition(inputdir, matching_directories)
    IN IF \/ num_repetitions = Exit
          \/ \E name \in matching_directories, rep \in 1..num_repetitions :
                ~HasOnlySubdirs(inputdir[name][rep], middlewares)
       THEN << >>
       ELSE <<loop_function(inputdir, matching_directories, num_repetitions, middlewares,
                client_logfiles, warmup, cooldown, num_threads)>>
=============================================================================
