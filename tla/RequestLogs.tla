---------------------------- MODULE RequestLogs ----------------------------
(***************************************************************************)
(* gather_middleware_statistics.py: from the request logs of a middleware  *)
(* to averages per second, per repetition and per configuration.           *)
(*                                                                         *)
(* A data frame of requests is a set of rows; a row keeps the thread and   *)
(* the line it was read from, so that equal requests stay apart.  A data   *)
(* frame that is grouped by seconds is a function from the seconds to      *)
(* rows.  A row is a record: its fields are the columns.                   *)
(*                                                                         *)
(* The clock is read in ticks, the other times in a unit of their own; the *)
(* factors between nano-, micro- and milliseconds are left out, and so are *)
(* the sizes of requests and responses, which no figure shows.             *)
(***************************************************************************)
EXTENDS Rationals, FiniteSetsExt

CONSTANTS
    TicksPerSecond,     \* of the wall clock
    log_interval        \* a request is logged with probability 1 / log_interval

ASSUME RequestLogsAssumption == TicksPerSecond \in Nat \ {0} /\ log_interval \in Nat \ {0}

\* log: thread -> the lines of its file.
concatenate_requestlogs(log, middleware) ==
    UNION {{log[thread][i] ++ [thread |-> thread, line |-> i, middleware |-> middleware] :
                i \in DOMAIN log[thread]} : thread \in DOMAIN log}

Origin(requests) == Min({r.initializeClockTime : r \in requests})

Kept(r, origin) ==
    [thread |-> r.thread, line |-> r.line, middleware |-> r.middleware,
     requestType |-> r.requestType, initializeClockTime |-> r.initializeClockTime,
     queueLength |-> r.queueLength, numHits |-> r.numHits, numKeysRequested |-> r.numKeysRequested,
     timestep |-> r.initializeClockTime - origin]

\* What all variants of extract_metrics compute in the same way.
WorkerTimes(r) ==
    [queueTime_ms |-> r.dequeueTime - r.enqueueTime,
     workerServiceTime_ms |-> r.completedTime - r.dequeueTime,
     memcachedRTT_ms |-> r.afterReceiveTime - r.beforeSendTime]

ProcessingTimes(r) ==
    [workerPreProcessingTime_ms |-> r.beforeSendTime - r.dequeueTime,
     workerPostProcessingTime_ms |-> r.beforeSendTime - r.dequeueTime]

TimesSince(r, start) ==
    [netthreadServiceTime_ms |-> r.enqueueTime - start,
     responseTime_ms |-> r.completedTime - start]

extract_metrics(requests) ==
    LET origin == Origin(requests) IN
    {Kept(r, origin) ++ WorkerTimes(r) ++ ProcessingTimes(r) ++ TimesSince(r, r.firstReadTime)
        ++ [readTime_ms |-> r.arrivalTime - r.firstReadTime] : r \in requests}

extract_metrics_old(requests) ==
    LET origin == Origin(requests) IN
    {Kept(r, origin) ++ WorkerTimes(r) ++ ProcessingTimes(r) ++ TimesSince(r, r.arrivalTime) :
        r \in requests}

\* The copy of experiment 3.1.
extract_metrics_3_1(requests) ==
    LET origin == Origin(requests) IN
    {Kept(r, origin) ++ WorkerTimes(r) ++ TimesSince(r, r.arrivalTime) : r \in requests}

\* The copy of the queueing models.
extract_metrics_7(requests) ==
    LET origin == Origin(requests) IN
    {Kept(r, origin) ++ WorkerTimes(r) ++ ProcessingTimes(r) ++ TimesSince(r, r.firstReadTime)
        ++ [readTime_ms |-> r.arrivalTime - r.firstReadTime,
            interarrivalTime_ms |-> r.arrivalTime - r.previousArrivalTime] : r \in requests}

\* Both bounds are included.
cut_away_warmup_cooldown(rows, index, warmup, cooldown) ==
    {r \in rows : warmup <= r[index] /\ r[index] <= cooldown}

\* The index of the data frames of requests is their time, here in ticks.
cut_requests(metrics, warmup, cooldown) ==
    cut_away_warmup_cooldown(metrics, "timestep", warmup * TicksPerSecond, cooldown * TicksPerSecond)

Second(r) == r.timestep \div TicksPerSecond

Labels == {"thread", "line", "middleware", "requestType", "timestep"}

\* The columns that have a mean.
Columns(metrics) == (UNION {DOMAIN r : r \in metrics}) \ Labels

aggregate_over_windows(metrics) ==
    LET columns == Columns(metrics) IN
    Tabulated([second \in {Second(r) : r \in metrics} |->
        LET window == {r \in metrics : Second(r) = second} IN
        [column \in columns |-> Ratio(SumFunction([r \in window |-> r[column]]), Cardinality(window))]
            ++ [throughput_mw |-> Whole(Cardinality(window) * log_interval)]])

Seconds(frames) == UNION {DOMAIN frames[i] : i \in DOMAIN frames}
With(frames, second) == {i \in DOMAIN frames : second \in DOMAIN frames[i]}
ColumnsOf(frames) == UNION {UNION {DOMAIN frames[i][s] : s \in DOMAIN frames[i]} : i \in DOMAIN frames}

(* MUTANT: all middlewares weigh the same. *)
aggregate_over_equal_middlewares(metrics_list) ==
    LET columns == ColumnsOf(metrics_list) IN
    Tabulated([second \in Seconds(metrics_list) |->
        LET mws == With(metrics_list, second)
            throughput == [i \in mws |-> metrics_list[i][second].throughput_mw]
        IN Tabulated([column \in columns |->
                IF column = "throughput_mw" THEN Total(throughput)
                ELSE Mean([i \in mws |-> metrics_list[i][second][column]])])])

aggregate_over_middlewares(metrics_list) ==
    LET columns == ColumnsOf(metrics_list) IN
    Tabulated([second \in Seconds(metrics_list) |->
        LET mws == With(metrics_list, second)
            throughput == [i \in mws |-> metrics_list[i][second].throughput_mw]
        IN Tabulated([column \in columns |->
                IF column = "throughput_mw" THEN Total(throughput)
                ELSE WeightedMean([i \in mws |-> metrics_list[i][second][column]], throughput)])])

aggregate_over_reps(rep_aggregates) ==
    LET columns == ColumnsOf(rep_aggregates) IN
    Tabulated([second \in Seconds(rep_aggregates) |->
        Tabulated([column \in columns |->
            Mean([i \in With(rep_aggregates, second) |-> rep_aggregates[i][second][column]])])])

\* "std" is the square of what pandas returns.
aggregate_over_timesteps(timestep_wise_averages) ==
    LET columns == ColumnsOf(<<timestep_wise_averages>>)
        seconds == DOMAIN timestep_wise_averages
    IN [mean |-> Tabulated([column \in columns |->
                    Mean([s \in seconds |-> timestep_wise_averages[s][column]])]),
        std |-> Tabulated([column \in columns |->
                    Variance([s \in seconds |-> timestep_wise_averages[s][column]])])]
=============================================================================
