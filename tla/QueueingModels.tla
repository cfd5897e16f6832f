--------------------------- MODULE QueueingModels ---------------------------
(***************************************************************************)
(* The notebooks of the queueing models: MM1.ipynb and MMm.ipynb of one    *)
(* configuration of experiment 4, NetworkOfQueues.ipynb of one of the      *)
(* rerun of experiment 3.2.  Numbers printed below each other are figures  *)
(* here.  What needs an exponential or a logarithm is left out.            *)
(*                                                                         *)
(* The files are repetition -> a record                                    *)
(*   middlewares: middleware -> log,        clients: log file -> lines     *)
(*   histograms: log file -> [hist, xput],  pings: log file -> lines       *)
(***************************************************************************)
EXTENDS Kernel, MemtierLogs, ResponseHistogram

CONSTANTS num_workers,              \* 8
          servicerate_mu,           \* 8215, in MM1.ipynb
          WarmupEnd, CooldownStart  \* 10 and 72 seconds

reps_range == 1..3
queueing_middlewares == <<"middleware_04", "middleware_05">>
mtLogs == <<"client_01_0.log", "client_01_1.log", "client_02_0.log", "client_02_1.log",
            "client_03_0.log", "client_03_1.log">>

queueing_imports == {"os", "np", "pd", "plt", "dirfuncs", "gmws", "gmts", "cut"}
histogram_functions == {"extract_GET_histogram", "extract_GET_throughput",
                        "combine_multiple_histograms", "extract_percentiles"}

gather_requests(files, reps, middlewares) ==
    UNION {cut_requests(extract_metrics_7(concatenate_requestlogs(files[rep].middlewares[mw], <<rep, mw>>)),
                        WarmupEnd, CooldownStart) : rep \in reps, mw \in Range(middlewares)}

\* The mean of a column of a frame of requests.
MeanOf(reqs, column) == Mean([r \in reqs |-> Whole(r[column])])

\* Histograms of all clients in all repetitions.
gather_histograms(files, client_logfiles) ==
    LET n == Len(client_logfiles)
        histograms == [i \in 1..(Cardinality(reps_range) * n) |->
            files[((i - 1) \div n) + 1].histograms[client_logfiles[((i - 1) % n) + 1]]]
    IN combine_multiple_histograms([i \in DOMAIN histograms |-> histograms[i].hist],
                                   [i \in DOMAIN histograms |-> histograms[i].xput])

mw_averages_of(files, middlewares) ==
    aggregate_over_timesteps(aggregate_over_reps(Tabulated([rep \in reps_range |->
        aggregate_over_middlewares(Tabulated([i \in DOMAIN middlewares |->
            aggregate_over_windows(gather_requests(files, {rep}, <<middlewares[i]>>))]))])))

mt_averages_of(files, client_logfiles) ==
    aggregate_client_timesteps(aggregate_client_reps(Tabulated([rep \in reps_range |->
        cut_clients(aggregate_over_clients([f \in DOMAIN client_logfiles |->
                        files[rep].clients[client_logfiles[f]]]), WarmupEnd, CooldownStart)])))

-----------------------------------------------------------------------------
(* The cells that MM1.ipynb and MMm.ipynb have in common.                  *)

\* Imports and function definitions: cells 1 to 3.
queueing_functions(nb, modules) ==
    \/ Import(nb, 1, modules, TRUE)
    \/ Import(nb, 2, {"gather_requests"}, TRUE)
    \/ Import(nb, 3, histogram_functions, TRUE)

queueing_gather(nb) == Compute(nb, 4, {}, histogram_functions \cup {"gather_requests", "os", "np"},
    LAMBDA g : [reqs |-> gather_requests(logs, reps_range, queueing_middlewares),
                hist_data |-> gather_histograms(logs, mtLogs)])

queueing_averages(nb) == Compute(nb, 5, {"reqs"}, {"gmws", "gmts", "cut", "dirfuncs"},
    LAMBDA g : [avg |-> mw_averages_of(logs, queueing_middlewares).mean,
                mt_averages |-> mt_averages_of(logs, mtLogs)])

-----------------------------------------------------------------------------
(* MM1.ipynb                                                               *)

MM1_functions == queueing_functions("MM1", queueing_imports)
MM1_gather == queueing_gather("MM1")
MM1_averages == queueing_averages("MM1")

mm1_model(arrivalrate_lambda) ==
    LET mu == Whole(servicerate_mu)
        rho == Over(arrivalrate_lambda, mu)
        idle == Minus(One, rho)
    IN [arrivalrate_lambda |-> arrivalrate_lambda,
        trafficIntensity |-> rho,
        servicetime |-> Over(Whole(1000), mu),
        mean_number_jobs_in_system |-> Over(rho, idle),
        mean_number_jobs_in_queue |-> Over(Times(rho, rho), idle),
        mean_response_time_r |-> Over(Times(Whole(1000), Over(One, mu)), idle),
        mean_waiting_time_w |-> Over(Times(Times(Whole(1000), rho), Over(One, mu)), idle)]

MM1_formulas ==
    \/ Draw("MM1", 6, {"mt_averages"}, {}, LAMBDA g :
            Entry(<<"exp4", "mt_averages", "MM1">>, g.mt_averages))
    \/ Compute("MM1", 7, {"mt_averages"}, {"np"}, LAMBDA g :
            [predicted |-> mm1_model(g.mt_averages.mean.throughput)])

tenths == [n \in 1..9 |-> Ratio(n, 10)]

MM1_comparison == Draw("MM1", 8, {"predicted", "mt_averages", "reqs", "avg", "hist_data"},
    {"plt", "extract_percentiles"}, LAMBDA g :
    Entry(<<"exp4", "predicted", "MM1">>, g.predicted) ++
    Entry(<<"exp4", "percentiles", "MM1">>, [table |-> extract_percentiles(g.hist_data, tenths)]) ++
    Entry(<<"exp4", "actual", "MM1">>,
        [jobs_in_system |-> Plus(Times(Whole(2 * num_workers), g.predicted.trafficIntensity),
                                 g.avg.queueLength),
         interarrivalTime |-> MeanOf(g.reqs, "interarrivalTime_ms"),
         workerServiceTime |-> Plus(MeanOf(g.reqs, "memcachedRTT_ms"),
                                    Plus(MeanOf(g.reqs, "workerPreProcessingTime_ms"),
                                         MeanOf(g.reqs, "workerPostProcessingTime_ms")))]))

-----------------------------------------------------------------------------
(* MMm.ipynb                                                               *)

MMm_functions == queueing_functions("MMm", queueing_imports \cup {"math"})
MMm_gather == queueing_gather("MMm")
MMm_averages == queueing_averages("MMm")

\* x ** n / n!
term[x \in Int \X Nat, n \in Nat] ==
    IF n = 0 THEN One ELSE Times(term[x, n - 1], Over(x, Whole(n)))

(* MUTANT: the sum leaves out the last term. *)
calculate_prob_without_last(rho, m) ==
    LET a == Times(Whole(m), rho)
        full == Over(term[a, m], Minus(One, rho))
    IN Over(One, Plus(Plus(One, full), Total([n \in 1..(m - 2) |-> term[a, n]])))

calculate_prob_zero_jobs(rho, m) ==
    LET a == Times(Whole(m), rho)
        full == Over(term[a, m], Minus(One, rho))
    IN Over(One, Plus(Plus(One, full), Total([n \in 1..(m - 1) |-> term[a, n]])))

waiting_time(servicetime_ms, p_queue, m, idle) == Times(servicetime_ms, Over(p_queue, Times(Whole(m), idle)))

mmm_model(arrivalrate_lambda, servicetime_ms) ==
    LET m == num_workers * 2
        rho == Over(Times(arrivalrate_lambda, servicetime_ms), Whole(1000 * m))
        idle == Minus(One, rho)
        p_queue == Times(Over(term[Times(Whole(m), rho), m], idle), calculate_prob_zero_jobs(rho, m))
        queue == Over(Times(rho, p_queue), idle)
    IN [arrivalrate_lambda |-> arrivalrate_lambda,
        trafficIntensity |-> rho,
        servicetime |-> servicetime_ms,
        probability_of_queueing |-> p_queue,
        mean_number_jobs_in_system |-> Plus(Times(Whole(m), rho), queue),
        mean_number_jobs_in_queue |-> queue,
        mean_response_time_r |-> Times(servicetime_ms, Plus(One, Over(p_queue, Times(Whole(m), idle)))),
        mean_waiting_time_w |-> waiting_time(servicetime_ms, p_queue, m, idle)]

MMm_formulas == Compute("MMm", 6, {"mt_averages", "reqs"}, {"math"}, LAMBDA g :
    [predicted |-> mmm_model(g.mt_averages.mean.throughput,
        Mean([r \in g.reqs |-> Whole(r.workerPreProcessingTime_ms + r.memcachedRTT_ms
                              + r.workerPostProcessingTime_ms)]))])

MMm_comparison == Draw("MMm", 7, {"predicted", "mt_averages", "reqs", "avg"}, {}, LAMBDA g :
    Entry(<<"exp4", "predicted", "MMm">>, g.predicted) ++
    Entry(<<"exp4", "actual", "MMm">>,
        [jobs_in_system |-> Plus(Times(Whole(2 * num_workers), g.predicted.trafficIntensity),
                                 g.avg.queueLength)]))

-----------------------------------------------------------------------------
(* NetworkOfQueues.ipynb                                                   *)

NoQ == "NetworkOfQueues"

NetworkOfQueues_setup ==
    \/ Import(NoQ, 1, queueing_imports \cup {"math"}, TRUE)
    \/ Import(NoQ, 2, {"gather_requests"}, TRUE)

NetworkOfQueues_gather == Compute(NoQ, 3, {}, {"gather_requests", "os"}, LAMBDA g :
    [reqs_mw1 |-> gather_requests(logs, reps_range, <<"middleware_04">>),
     reqs_mw2 |-> gather_requests(logs, reps_range, <<"middleware_05">>)])

\* The mean over all lines of the ping logs of a client.
avg_rtt(files, ping_log_filenames) ==
    LET rows == UNION {{<<rep, f, i>> : i \in DOMAIN files[rep].pings[f]} :
                          rep \in reps_range, f \in ping_log_filenames}
    IN Mean([r \in rows |-> Whole(extract_ping_logs(files[r[1]].pings[r[2]])[r[3]].rtt)])

NetworkOfQueues_pings == Compute(NoQ, 4, {}, {"os", "gmts", "pd"}, LAMBDA g :
    [avg_rtt_c1 |-> avg_rtt(logs, {"client_ping_01_0.log", "client_ping_01_1.log"}),
     avg_rtt_c2 |-> avg_rtt(logs, {"client_ping_02_0.log", "client_ping_02_1.log"})])

NetworkOfQueues_averages == Compute(NoQ, 5, {}, {"gmws", "gmts", "cut", "dirfuncs"}, LAMBDA g :
    [avg |-> mw_averages_of(logs, queueing_middlewares).mean,
     mt_averages |-> mt_averages_of(logs, SubSeq(mtLogs, 1, 4))])

\* Logged requests per second of the time they span, for one of three repetitions.
throughput_of(reqs) ==
    LET index == {r.timestep : r \in reqs}
    IN Ratio(Cardinality(reqs) * TicksPerSecond * log_interval, (Max(index) - Min(index)) * 3)

utilization(xput, reqs, column) ==
    Over(Times(Over(xput, Whole(1000)), MeanOf(reqs, column)), Whole(num_workers))

outputs(xput, reqs) ==
    [xput |-> xput,
     queueLength |-> MeanOf(reqs, "queueLength"),
     netThread |-> utilization(xput, reqs, "netthreadServiceTime_ms"),
     workers |-> utilization(xput, reqs, "workerServiceTime_ms"),
     memcached |-> utilization(xput, reqs, "memcachedRTT_ms")]

outputs_of(g) ==
    [middleware_04 |-> outputs(throughput_of(g.reqs_mw1), g.reqs_mw1),
     middleware_05 |-> outputs(throughput_of(g.reqs_mw2), g.reqs_mw2)]

NetworkOfQueues_outputs ==
    Draw(NoQ, 6, {"reqs_mw1", "reqs_mw2", "avg_rtt_c1", "avg_rtt_c2", "mt_averages"}, {}, LAMBDA g :
         Entry(<<"exp3_2_2", "measured", NoQ>>, outputs_of(g)) ++
         Entry(<<"exp3_2_2", "service_times", NoQ>>,
            [input |-> <<Over(g.avg_rtt_c1, Whole(2)), Over(g.avg_rtt_c2, Whole(2)),
              MeanOf(g.reqs_mw1, "netthreadServiceTime_ms"), MeanOf(g.reqs_mw2, "netthreadServiceTime_ms"),
              MeanOf(g.reqs_mw1, "workerServiceTime_ms"), MeanOf(g.reqs_mw2, "workerServiceTime_ms"),
              Over(g.avg_rtt_c1, Whole(2)), Over(g.avg_rtt_c2, Whole(2))>>]))
=============================================================================
