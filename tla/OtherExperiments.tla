-------------------------- MODULE OtherExperiments --------------------------
(***************************************************************************)
(* Experiments 3.1, 4 and 5: their own variants of the scripts of          *)
(* experiment 3.                                                           *)
(***************************************************************************)
EXTENDS ResponseTimes

-----------------------------------------------------------------------------
(* Experiment 3.1: requests without the time of their first read.          *)

get_worker_data_3_1(inputdir, matching_dirs, num_repetitions, middlewares, client_logfiles, warmup, cooldown, num_threads) ==
    {LET run(rep) == inputdir[name][rep]
         reps == 1..num_repetitions
         metrics(requests) == [i \in DOMAIN requests |-> extract_metrics_3_1(requests[i])]
     IN [vc_per_thread |-> find_num_vc(name), num_clients |-> find_num_vc(name) * num_threads]
        ++ Averages([rep \in reps |->
                        MiddlewareMetrics(metrics(Requests(run(rep), middlewares)), warmup, cooldown)],
                    [rep \in reps |-> ClientMetrics(run(rep), client_logfiles, warmup, cooldown)]) :
        name \in matching_dirs}

loop_function_3_1(inputdir, all_directories, num_repetitions, middlewares, client_logfiles, warmup, cooldown, num_threads) ==
    LET avg == AllWorkerAverages([workers \in find_worker_configurations(all_directories) |->
            get_worker_data_3_1(inputdir, find_matching_worker_config_dirs(all_directories, workers),
                num_repetitions, middlewares, client_logfiles, warmup, cooldown, num_threads)])
    IN [mw |-> plot_mw_xput_respTime_all_workers(avg),
        mt |-> plot_mt_xput_respTime_all_workers_wInteract(avg)]

-----------------------------------------------------------------------------
(* Experiment 4: the last second of each middleware is left out.           *)

WithoutLast(windows) ==
    Restrict(windows, {s \in DOMAIN windows : \E later \in DOMAIN windows : s < later})

MiddlewareMetrics_4(requests, warmup, cooldown) ==
    aggregate_over_middlewares(Tabulated(
        [i \in DOMAIN requests |->
            WithoutLast(aggregate_over_windows(cut_requests(extract_metrics(requests[i]), warmup, cooldown)))]))

get_worker_data_4(inputdir, matching_dirs, num_repetitions, middlewares, client_logfiles, warmup, cooldown, num_threads) ==
    {LET run(rep) == inputdir[name][rep]
         reps == 1..num_repetitions
     IN [vc_per_thread |-> find_num_vc(name), num_clients |-> find_num_vc(name) * num_threads]
        ++ Averages([rep \in reps |-> MiddlewareMetrics_4(Requests(run(rep), middlewares), warmup, cooldown)],
                    [rep \in reps |-> ClientMetrics(run(rep), client_logfiles, warmup, cooldown)]) :
        name \in matching_dirs}

plot_mw_memcachedRTT_all_workers(avg) == ErrorBars(avg, "memcachedRTT_ms")

loop_function_4(inputdir, all_directories, num_repetitions, middlewares, client_logfiles, warmup, cooldown, num_threads) ==
    LET avg == AllWorkerAverages([workers \in find_worker_configurations(all_directories) |->
            get_worker_data_4(inputdir, find_matching_worker_config_dirs(all_directories, workers),
                num_repetitions, middlewares, client_logfiles, warmup, cooldown, num_threads)])
    IN [mw |-> plot_mw_xput_respTime_all_workers(avg),
        mt |-> plot_mt_xput_respTime_all_workers_wInteract(avg),
        queueLength |-> plot_mw_queueLength_all_workers(avg),
        memcachedRTT |-> plot_mw_memcachedRTT_all_workers(avg)]

\* The summary's throughput that follows from the response time, per second.
derived_throughput(avg, num_clients, thinktime_ms, per_second) ==
    Times(Over(Whole(num_clients), Plus(avg.responseTime_ms, Whole(thinktime_ms))), Whole(per_second))

extract_summary_from_config_4(inputdir, workload, worker, vc, reps, xput_client, thinktime_ms, num_threads, middlewares, warmup, cooldown, per_second) ==
    LET run(rep) == inputdir[Name(workload, vc, worker)][rep]
        avg == aggregate_over_timesteps(aggregate_over_reps(
                    [rep \in 1..reps |-> MiddlewareMetrics(Extracted(run(rep), middlewares), warmup, cooldown)])).mean
    IN [throughput_mw |-> avg.throughput_mw,
        throughput_derived |-> derived_throughput(avg, vc * num_threads, thinktime_ms, per_second),
        throughput |-> xput_client, queueTime_ms |-> avg.queueTime_ms,
        queueLength |-> avg.queueLength, memcachedRTT_ms |-> avg.memcachedRTT_ms]

-----------------------------------------------------------------------------
(* Experiment 5: a name of a configuration is a record [sharded, multigets]*)
(* and the SETs are left out.                                              *)

MultigetName(sharded, multigets) == [sharded |-> sharded, multigets |-> multigets]

find_num_multigets(name) == name.multigets

\* requestType contains "GET".
Gets(requests) == {r \in requests : r.requestType # "SET"}

GetMetrics(requests) == [i \in DOMAIN requests |-> extract_metrics(Gets(requests[i]))]

get_data(inputdir, matching_dirs, num_repetitions, middlewares, client_logfiles, warmup, cooldown) ==
    {LET run(rep) == inputdir[name][rep]
         reps == 1..num_repetitions
     IN [multigetSize |-> find_num_multigets(name)]
        ++ Averages([rep \in reps |->
                        MiddlewareMetrics(GetMetrics(Requests(run(rep), middlewares)), warmup, cooldown)],
                    [rep \in reps |-> ClientMetrics(run(rep), client_logfiles, warmup, cooldown)]) :
        name \in matching_dirs}

gather_data(inputdir, sharded, middlewares, client_logfiles, warmup, cooldown) ==
    LET matching_directories == {name \in DOMAIN inputdir : name.sharded = sharded}
        num_repetitions == get_and_validate_num_repetition(inputdir, matching_directories)
    IN IF num_repetitions = Exit THEN {}
       ELSE get_data(inputdir, matching_directories, num_repetitions, middlewares, client_logfiles, warmup, cooldown)

\* One throughput and one response time for each size.
plot_multigets(avg) ==
    [throughput |-> {<<row.multigetSize, row.mean.throughput, row.std.throughput>> : row \in avg},
     responsetime |-> {<<row.multigetSize, row.mean.responsetime, row.std.responsetime>> : row \in avg}]

graph_responsetime_withPing_5(inputdir, multigets, sharded, middlewares, ping_logfile, client_logfiles, reps) ==
    graph_responsetime_withPing(inputdir, MultigetName(sharded, multigets), middlewares,
                                ping_logfile, client_logfiles, reps)

graph_responsetime_5(inputdir, multigets, sharded, middlewares, client_logfiles, reps) ==
    graph_responsetime(inputdir, MultigetName(sharded, multigets), middlewares, client_logfiles, reps)

get_responsetime_data_5(inputdir, sharded, multigets, middlewares, client_logfiles, reps) ==
    {LET runs == inputdir[MultigetName(sharded, multiget)]
     IN [multigets |-> multiget]
        ++ RepAverages(MetricsOf(runs, middlewares), runs, client_logfiles, reps).mean : multiget \in multigets}

get_responsetime_data_old_5(inputdir, sharded, multigets, middlewares, client_logfiles, reps) ==
    {LET runs == inputdir[MultigetName(sharded, multiget)]
     IN [multigets |-> multiget]
        ++ RepAverages(MetricsOf_old(runs, middlewares), runs, client_logfiles, reps).mean : multiget \in multigets}

plot_stacked_barchart_5(data, xtick_labels, print_first_n_bars) ==
    LET bars == SubSeq(StackedBars(data, "multigets"), 1, print_first_n_bars)
    IN [n \in DOMAIN bars |-> [bars[n] EXCEPT !.label = xtick_labels[n]]]
=============================================================================
