--------------------------- MODULE ResponseTimes ---------------------------
(***************************************************************************)
(* The response-time, queue-length and over-time charts of experiment 3    *)
(* (graph_responsetime.py, graph_queuelength.py, graph_xput_vs_time.py)    *)
(* and its summary table (summary_table.py).                               *)
(*                                                                         *)
(* The charts cut the first Warmup and the last seconds after Cooldown     *)
(* away, 10 and 72 in the code.                                            *)
(***************************************************************************)
EXTENDS Experiments, SequencesExt

CONSTANTS Warmup, Cooldown

ASSUME ChartAssumption == Warmup \in Nat /\ Cooldown \in Nat /\ Warmup <= Cooldown

Name(workload, vc, worker) == [workload |-> workload, vc |-> vc, workers |-> worker]

LastOf(reps) == Max(reps)

\* metrics: repetition -> the metrics of its middlewares; runs: repetition -> its logs.
RepAverages(metrics, runs, client_logfiles, reps) ==
    Averages([rep \in reps |-> MiddlewareMetrics(metrics[rep], Warmup, Cooldown)],
             [rep \in reps |-> ClientMetrics(runs[rep], client_logfiles, Warmup, Cooldown)])

MetricsOf(runs, middlewares) == [rep \in DOMAIN runs |-> Extracted(runs[rep], middlewares)]

MetricsOf_old(runs, middlewares) ==
    [rep \in DOMAIN runs |-> LET requests == Requests(runs[rep], middlewares)
                             IN [i \in DOMAIN requests |-> extract_metrics_old(requests[i])]]

MiddlewareAverages(inputdir, name, middlewares, reps) ==
    aggregate_over_timesteps(aggregate_over_reps(Tabulated(
        [rep \in reps |-> MiddlewareMetrics(Extracted(inputdir[name][rep], middlewares), Warmup, Cooldown)])))

\* The bars of a chart, from top to bottom.
Bars(metrics, columns) ==
    [i \in DOMAIN columns |-> <<columns[i], metrics.mean[columns[i]], metrics.std[columns[i]]>>]

\* ping_averages is assigned anew in every repetition: that of the last one is drawn.
graph_responsetime_withPing(inputdir, name, middlewares, ping_logfile, client_logfiles, reps) ==
    LET log == extract_ping_logs(inputdir[name][LastOf(reps)].pings[ping_logfile])
        rtt == [i \in DOMAIN log |-> Whole(log[i].rtt)]
        ping_averages == [mean |-> [rtt |-> Mean(rtt)],
                          std |-> [rtt |-> Variance(rtt)]]
    IN Bars(SideBySide(RepAverages(MetricsOf(inputdir[name], middlewares), inputdir[name], client_logfiles, reps),
                       ping_averages),
            <<"netthreadServiceTime_ms", "queueTime_ms", "memcachedRTT_ms", "workerServiceTime_ms",
              "responseTime_ms", "rtt", "responsetime">>)

graph_responsetime(inputdir, name, middlewares, client_logfiles, reps) ==
    Bars(RepAverages(MetricsOf(inputdir[name], middlewares), inputdir[name], client_logfiles, reps),
         <<"netthreadServiceTime_ms", "queueTime_ms", "memcachedRTT_ms", "workerServiceTime_ms",
           "responseTime_ms", "responsetime">>)

\* Only the means are returned.
get_responsetime_data(inputdir, workload, worker, vc_settings, num_threads, middlewares, client_logfiles, reps) ==
    {LET runs == inputdir[Name(workload, vc, worker)]
     IN [num_clients |-> vc * num_threads]
        ++ RepAverages(MetricsOf(runs, middlewares), runs, client_logfiles, reps).mean : vc \in vc_settings}

get_responsetime_data_old(inputdir, workload, worker, vc_settings, num_threads, middlewares, client_logfiles, reps) ==
    {LET runs == inputdir[Name(workload, vc, worker)]
     IN [num_clients |-> vc * num_threads]
        ++ RepAverages(MetricsOf_old(runs, middlewares), runs, client_logfiles, reps).mean : vc \in vc_settings}

\* The parts of a bar, each drawn on top of those before it.
Parts == <<"netthreadServiceTime_ms", "queueTime_ms", "workerPreProcessingTime_ms",
           "memcachedRTT_ms", "workerPostProcessingTime_ms">>

BottomOf(row, part) == MapThenFoldSet(Plus, Zero, LAMBDA i : row[Parts[i]],
                                      LAMBDA T : CHOOSE i \in T : TRUE, 1..(part - 1))

StackedBars(data, column) ==
    LET sorted == SetToSortSeq(data, LAMBDA r, s : r[column] < s[column])
    IN [n \in DOMAIN sorted |->
            [label |-> sorted[n][column], behind |-> sorted[n].responsetime,
             bottom |-> [part \in DOMAIN Parts |-> BottomOf(sorted[n], part)],
             height |-> [part \in DOMAIN Parts |-> sorted[n][Parts[part]]]]]

\* The labels are given from outside: the n-th belongs to the n-th smallest number of clients.
plot_stacked_barchart(data, xtick_labels, print_first_n_bars) ==
    LET bars == SubSeq(StackedBars(data, "num_clients"), 1, print_first_n_bars)
    IN [n \in DOMAIN bars |-> [bars[n] EXCEPT !.label = xtick_labels[n]]]

\* The bars are labelled 8, 16, 32, 64 in the order of worker_configs.
graph_queuelength(inputdir, workload, vc, worker_configs, middlewares, reps) ==
    LET averages(i) == MiddlewareAverages(inputdir, Name(workload, vc, worker_configs[i]),
                                          middlewares, reps)
    IN [i \in DOMAIN worker_configs |->
            [label |-> <<8, 16, 32, 64>>[i], mean |-> averages(i).mean.queueLength,
             std |-> averages(i).std.queueLength]]

\* The repetitions' values of a metric, averaged second by second.
OverTime(windows, metric_to_plot) ==
    [second \in Seconds(windows) |->
        Mean([rep \in With(windows, second) |-> windows[rep][second][metric_to_plot]])]

\* One data frame for all middlewares: their common first request is the origin.
plot_mw_metric_over_time(inputdir, name, metric_to_plot, reps, middlewares) ==
    OverTime([rep \in reps |->
                LET requests == Requests(inputdir[name][rep], middlewares)
                IN aggregate_over_windows(extract_metrics(UNION Range(requests)))],
             metric_to_plot)

\* The rows of the clients are numbered: the number is drawn as the time.
plot_mt_metric_over_time(inputdir, name, metric_to_plot, reps, client_logfiles) ==
    OverTime([rep \in reps |->
                LET rows == aggregate_over_clients(Files(inputdir[name][rep], client_logfiles))
                IN [index \in {r.index : r \in rows} |-> CHOOSE r \in rows : r.index = index]],
             metric_to_plot)

-----------------------------------------------------------------------------
(* summary_table.py                                                        *)

\* idxmax: the first of the configurations with the highest throughput.
find_max_throughput(inputdir, workload, worker, vc_configs, reps, client_logfiles, warmup, cooldown) ==
    LET averages(vc) ==
            aggregate_client_timesteps(aggregate_client_reps(
                [rep \in 1..reps |-> ClientMetrics(inputdir[Name(workload, vc, worker)][rep],
                    client_logfiles, warmup, cooldown)])).mean
        configuration == [i \in DOMAIN vc_configs |-> averages(vc_configs[i])]
        first == CHOOSE i \in DOMAIN vc_configs : \A j \in DOMAIN vc_configs :
                    /\ AtMost(configuration[j].throughput, configuration[i].throughput)
                    /\ j < i => Less(configuration[j].throughput, configuration[i].throughput)
    IN [vc |-> vc_configs[first]] ++ configuration[first]

\* All pings of a repetition count alike, and so do the repetitions.
average_pings(run, ping_logfiles) ==
    LET logs == [i \in DOMAIN ping_logfiles |-> extract_ping_logs(run.pings[ping_logfiles[i]])]
        all == UNION {{<<i, j>> : j \in DOMAIN logs[i]} : i \in DOMAIN logs}
    IN Mean([p \in all |-> Whole(logs[p[1]][p[2]].rtt)])

average_pings_over_reps(inputdir, name, reps, ping_logfiles) ==
    Over(Total([rep \in 1..reps |-> average_pings(inputdir[name][rep], ping_logfiles)]), Whole(reps))

\* The row of a client log that starts with "Totals".
extract_total_numbers(totals) ==
    [total_opsec |-> totals.ops, hits_persec |-> totals.hits, misses_persec |-> totals.misses]

calculate_miss_rate(rows) ==
    Ratio(MapThenSumSet(LAMBDA i : rows[i].misses_persec, DOMAIN rows),
          MapThenSumSet(LAMBDA i : rows[i].total_opsec, DOMAIN rows))

\* The totals of the clients are read in the folder the loop over the repetitions ended with.
extract_summary_from_config(inputdir, workload, worker, vc, reps, xput_client, resptime_client, num_threads, middlewares, client_logfiles, warmup, cooldown) ==
    LET run(rep) == inputdir[Name(workload, vc, worker)][rep]
        avg == aggregate_over_timesteps(aggregate_over_reps(
                    [rep \in 1..reps |-> MiddlewareMetrics(Extracted(run(rep), middlewares), warmup, cooldown)])).mean
        totals == [i \in DOMAIN client_logfiles |->
                    extract_total_numbers(run(reps).totals[client_logfiles[i]])]
    IN [throughput_mw |-> avg.throughput_mw, responseTime_ms |-> avg.responseTime_ms,
        queueTime_ms |-> avg.queueTime_ms,
        missrate_mw |-> Minus(avg.numKeysRequested, avg.numHits),
        throughput |-> xput_client, responsetime |-> resptime_client,
        missrate |-> calculate_miss_rate(totals), num_clients |-> vc * num_threads]
=============================================================================
