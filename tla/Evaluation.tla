----------------------------- MODULE Evaluation -----------------------------
(***************************************************************************)
(* From the runs of an experiment to its figures: middlewares append to    *)
(* their request logs and clients to theirs, one repetition after another; *)
(* then the scripts of experiments 2 to 5 evaluate the logs, as often as   *)
(* somebody starts them.  What they extract stays in files of its own.     *)
(***************************************************************************)
EXTENDS OtherExperiments, Baseline

CONSTANTS
    Plans,              \* the sequences of <<name, rep>> that an experiment may run
    Middlewares,        \* in the order in which the scripts list them
    ClientLogs,         \* as well
    Timings,            \* the times of a request, relative to its first byte
    Clocks,             \* ticks since the start of the middleware at which requests begin
    Measurements,       \* [throughput, responsetime]: what a client prints in a second
    MaxLines,           \* bound on the lines, beside those every log begins with
    Threads             \* client threads of an experiment

\* The classes of requests (Request.getRequestType).
RequestTypes == {"SET", "GET", "ShardedGET", "NonshardedGET"}

\* Something is logged, by middlewares and clients that are told apart.
ASSUME EvaluationAssumption ==
    /\ Middlewares \in Seq(Range(Middlewares))
    /\ ClientLogs \in Seq(Range(ClientLogs)) /\ IsInjective(ClientLogs)
    /\ Timings \subseteq [requestType : RequestTypes, firstReadTime : Int, arrivalTime : Int,
                          previousArrivalTime : Int, enqueueTime : Int, dequeueTime : Int,
                          beforeSendTime : Int, afterReceiveTime : Int, completedTime : Int,
                          queueLength : Int]
    /\ \E t \in Timings : t.requestType = "GET"
    /\ Clocks \subseteq Nat
    /\ Measurements \subseteq [throughput : Nat, responsetime : Nat] /\ Measurements # {}
    /\ MaxLines \in Nat

VARIABLES
    plan,               \* what is run
    current,            \* the position in plan that is running, Len(plan) + 1: all done
    inputdir,           \* the logs
    lines,              \* lines written, up to MaxLines
    extracted,          \* <<name, rep, client log>> -> the file extract_client_logs has written
    figures             \* what the scripts have drawn

vars == <<plan, current, inputdir, lines, extracted, figures>>

NotYet == [experiment_3 |-> << >>]

Workload == "writeOnly"

\* A request in the file of the one logging thread of a middleware (Request.writeLog).
Row(clock, timing) == [initializeClockTime |-> clock, numHits |-> 1, numKeysRequested |-> 1] ++ timing

FirstTiming == CHOOSE t \in Timings : t.requestType = "GET"
FirstMeasurement == CHOOSE m \in Measurements : TRUE
Pings == {"client_ping_01.log"}

\* The middlewares do not start at the same time.
StartOf(mw) == IF mw = Middlewares[1] THEN 0 ELSE 1

\* Each log begins before the warm-up ends and goes on after it.
BlankRun ==
    [middlewares |-> [mw \in Range(Middlewares) |->
        <<[thread |-> [i \in 1..(Cooldown + 1) |->
                            Row(StartOf(mw) + (i - 1) * TicksPerSecond, FirstTiming)]]>>],
     clients |-> [log \in Range(ClientLogs) |->
        [i \in 1..(Warmup + 1) |-> [timestep |-> i - 1] ++ FirstMeasurement]],
     pings |-> [log \in Pings |-> <<[clockTime |-> 7, rtt |-> 1], [clockTime |-> 8, rtt |-> 2]>>],
     totals |-> [log \in Range(ClientLogs) |-> [ops |-> 4, hits |-> 3, misses |-> 1]]]

NamesOf(p) == {p[i][1] : i \in DOMAIN p}
RepsOf(p, name) == {p[i][2] : i \in {j \in DOMAIN p : p[j][1] = name}}

Logs(p) == {<<r[1], r[2], log>> : r \in Range(p), log \in Range(ClientLogs)}

Init ==
    /\ plan \in Plans
    /\ current = 1
    /\ inputdir = [name \in NamesOf(plan) |-> [rep \in RepsOf(plan, name) |-> BlankRun]]
    /\ lines = 0
    /\ extracted = [log \in Logs(plan) |-> << >>]
    /\ figures = NotYet

IsRunning == current <= Len(plan)

Name_ == plan[current][1]
Rep_ == plan[current][2]

\* A sampled request is done: it is logged now, whenever it has begun.
LogRequest(mw, timing, clock) ==
    /\ IsRunning
    /\ lines < MaxLines
    /\ inputdir' = [inputdir EXCEPT ![Name_][Rep_].middlewares[mw][1].thread =
                        Append(@, Row(StartOf(mw) + clock, timing))]
    /\ lines' = lines + 1
    /\ UNCHANGED <<plan, current, extracted, figures>>

\* A client prints its next second.
LogSecond(client, measurement) ==
    /\ IsRunning
    /\ lines < MaxLines
    /\ inputdir' = [inputdir EXCEPT ![Name_][Rep_].clients[client] =
                        Append(@, [timestep |-> Len(@)] ++ measurement)]
    /\ lines' = lines + 1
    /\ UNCHANGED <<plan, current, extracted, figures>>

\* The experiment goes on with its next repetition, or it ends.
NextRun ==
    /\ IsRunning
    /\ current' = current + 1
    /\ UNCHANGED <<plan, inputdir, lines, extracted, figures>>

-----------------------------------------------------------------------------
(* The scripts.                                                            *)

ExtractAll ==
    [log \in Logs(plan) |->
        extract_client_logs(inputdir[log[1]][log[2]].clients[log[3]], extracted[log])]

\* The scripts read the extracted files in the place of the logs.
Readable(files) ==
    [name \in DOMAIN inputdir |-> [rep \in DOMAIN inputdir[name] |->
        [inputdir[name][rep] EXCEPT !.clients = [log \in DOMAIN @ |-> files[<<name, rep, log>>]]]]]

\* The same runs under the names of experiment 5.
AsMultigets(dir) ==
    [name \in {MultigetName("sharded", n.vc) : n \in DOMAIN dir} |->
        dir[CHOOSE n \in DOMAIN dir : n.vc = name.multigets]]

\* The names of experiment 2 have no number of workers.
AsBaseline(dir) == Restrict(dir, {name \in DOMAIN dir : name.workers = Min({n.workers : n \in DOMAIN dir})})

Figures(dir) ==
    LET names == find_workload_dirs(dir, Workload)
        reps == get_and_validate_num_repetition(dir, names)
        dir_5 == AsMultigets(dir)
    IN [experiment_3 |-> create_workload_graphs(dir, Workload, Middlewares, ClientLogs, Warmup, Cooldown, Threads),
        experiment_31 |-> loop_function_3_1(dir, names, reps, Middlewares, ClientLogs, Warmup, Cooldown, Threads),
        experiment_4 |-> loop_function_4(dir, names, reps, Middlewares, ClientLogs, Warmup, Cooldown, Threads),
        experiment_5 |-> plot_multigets(gather_data(dir_5, "sharded", Middlewares, ClientLogs, Warmup, Cooldown)),
        experiment_2 |-> LET avg == averages_2_2(gather_averages_2_2(AsBaseline(dir), 0, Cooldown + 2))
                         IN [throughput |-> ThroughputGraph_2_2(avg), responsetime |-> ResponsetimeGraph_2_2(avg)]]

Evaluate ==
    /\ ~IsRunning
    /\ extracted' = ExtractAll
    /\ figures' = Figures(Readable(extracted'))
    /\ UNCHANGED <<plan, current, inputdir, lines>>

Next ==
    \/ \E mw \in Range(Middlewares), timing \in Timings, clock \in Clocks : LogRequest(mw, timing, clock)
    \/ \E client \in Range(ClientLogs), measurement \in Measurements : LogSecond(client, measurement)
    \/ NextRun
    \/ Evaluate

Spec == Init /\ [][Next]_vars

-----------------------------------------------------------------------------
(* What the logs say themselves.                                           *)

Evaluated == figures # NotYet
Runs == {inputdir[r[1]][r[2]] : r \in Range(plan)}

LoggedRows(run, i) == Range(run.middlewares[Middlewares[i]][1].thread)
TimestepOf(i, row) == row.initializeClockTime - StartOf(Middlewares[i])
InWindow(i, row) == TimestepOf(i, row) \in (Warmup * TicksPerSecond)..(Cooldown * TicksPerSecond)

\* The places of the rows: equal rows stay apart.
Places(run) ==
    UNION {{<<i, n>> : n \in DOMAIN run.middlewares[Middlewares[i]][1].thread} : i \in DOMAIN Middlewares}
RowAt(run, place) == run.middlewares[Middlewares[place[1]]][1].thread[place[2]]

SecondAt(run, place) == TimestepOf(place[1], RowAt(run, place)) \div TicksPerSecond
KeptPlaces(run) == {place \in Places(run) : InWindow(place[1], RowAt(run, place))}
KeptIn(run, second) == {place \in KeptPlaces(run) : SecondAt(run, place) = second}

RepMetrics(run) == MiddlewareMetrics(Extracted(run, Middlewares), Warmup, Cooldown)

\* Weighting the middlewares by their throughput makes the averages of a
\* second the averages over all requests of that second, whichever
\* middleware has served them (gather_middleware_statistics.py:71).
PooledMeans ==
    Evaluated => \A run \in Runs : \A second \in DOMAIN RepMetrics(run) :
        LET metrics == RepMetrics(run)[second]
            kept == KeptIn(run, second)
            pooled(values) == Ratio(SumFunction(values), Cardinality(kept))
        IN /\ metrics.responseTime_ms =
                pooled([p \in kept |-> RowAt(run, p).completedTime - RowAt(run, p).firstReadTime])
           /\ metrics.queueTime_ms =
                pooled([p \in kept |-> RowAt(run, p).dequeueTime - RowAt(run, p).enqueueTime])
           /\ metrics.queueLength = pooled([p \in kept |-> RowAt(run, p).queueLength])

\* Every request between warm-up and cool-down counts in one second, for all
\* that are not logged; in experiment 5 the GETs only.
EachRequestCountsOnce ==
    Evaluated => \A run \in Runs :
        LET metrics == RepMetrics(run)
            gets == MiddlewareMetrics(GetMetrics(Requests(run, Middlewares)), Warmup, Cooldown)
            isGet(place) == RowAt(run, place).requestType \in RequestTypes \ {"SET"}
            counted(m) == Total([second \in DOMAIN m |-> m[second].throughput_mw])
        IN /\ counted(metrics) = Whole(Cardinality(KeptPlaces(run)) * log_interval)
           /\ counted(gets) = Whole(Cardinality({p \in KeptPlaces(run) : isGet(p)}) * log_interval)

\* The cut leaves of the last second what lies on its first instant.
\* Experiment 4 averages over whole seconds only.
WholeSecondsOnly ==
    Evaluated => \A run \in Runs : \A i \in DOMAIN Middlewares :
        LET metrics == MiddlewareMetrics_4(<<Requests(run, Middlewares)[i]>>, Warmup, Cooldown)
            logged(second) == Cardinality({n \in DOMAIN run.middlewares[Middlewares[i]][1].thread :
                                SecondAt(run, <<i, n>>) = second})
        IN \A second \in DOMAIN metrics :
                metrics[second].throughput_mw = Whole(logged(second) * log_interval)

\* The rows of the clients are cut by their number.  No second of the
\* warm-up or of the cool-down is among them, and the response time of a
\* second is that of its operations.
ClientSecondsCut ==
    Evaluated => \A run \in Runs :
        LET rows == ClientMetrics(run, ClientLogs, Warmup, Cooldown)
            at(p) == run.clients[p[1]][p[2]]
            printed(second) == {p \in Range(ClientLogs) \X (1..(Warmup + 1 + MaxLines)) :
                                    p[2] \in DOMAIN run.clients[p[1]] /\ at(p).timestep = second}
        IN \A r \in rows :
            /\ r.timestep \in Warmup..Cooldown
            /\ r.throughput = Whole(SumFunction([p \in printed(r.timestep) |-> at(p).throughput]))
            /\ r.throughput # Zero => Times(r.throughput, r.responsetime) =
                    Whole(SumFunction([p \in printed(r.timestep) |-> at(p).throughput * at(p).responsetime]))

\* From the logs to the averages of a repetition (gather_middleware_statistics.py,
\* gather_memtier_statistics.py and their copies): every request and every
\* second between warm-up and cool-down counts once, with its weight.
AveragesAreRight ==
    /\ PooledMeans
    /\ EachRequestCountsOnce
    /\ WholeSecondsOnly
    /\ ClientSecondsCut

\* Through all averages, the parts of the response time remain its parts,
\* and the charts with and without the pings show the same.  (The pings are
\* the same in every repetition here, so that the last one's are all.)
BreakDownAddsUp ==
    Evaluated => \A name \in DOMAIN inputdir :
        LET bars == graph_responsetime(inputdir, name, Middlewares, ClientLogs, DOMAIN inputdir[name])
            with_ping == graph_responsetime_withPing(inputdir, name, Middlewares, "client_ping_01.log",
                                                     ClientLogs, DOMAIN inputdir[name])
            old == get_responsetime_data_old(inputdir, name.workload, name.workers, {name.vc}, Threads,
                                             Middlewares, ClientLogs, DOMAIN inputdir[name])
        IN /\ Plus(Plus(bars[1][2], bars[2][2]), bars[4][2]) = bars[5][2]
           /\ \A row \in old : Plus(Plus(row.netthreadServiceTime_ms, row.queueTime_ms),
                                    row.workerServiceTime_ms) = row.responseTime_ms
           /\ [i \in 1..6 |-> with_ping[IF i = 6 THEN 7 ELSE i]] = bars
           /\ with_ping[6][2] = average_pings_over_reps(inputdir, name, Cardinality(DOMAIN inputdir[name]),
                                                        <<"client_ping_01.log">>)

\* A point of a figure is computed from the directory of its own
\* configuration, although directories are found by parts of their names.
OwnDirectoriesOnly ==
    Evaluated /\ figures.experiment_3 # << >> =>
        LET graphs == figures.experiment_3[1]
            own(name) == get_worker_data(inputdir, {name}, Cardinality(DOMAIN inputdir[name]), Middlewares,
                                         ClientLogs, Warmup, Cooldown, Threads)
        IN \A workers \in DOMAIN graphs.mw.throughput :
            graphs.mw.throughput[workers] =
                UNION {{<<name.vc * Threads, row.mean.throughput_mw, row.std.throughput_mw>> : row \in own(name)} :
                        name \in {n \in DOMAIN inputdir : n.workers = workers}}

\* The trace of an experiment puts both middlewares on one clock.
TraceOnOneClock ==
    Evaluated => \A name \in DOMAIN inputdir : \A rep \in DOMAIN inputdir[name] :
        LET run == inputdir[name][rep]
            all == Places(run)
            first == Min({RowAt(run, p).initializeClockTime : p \in all})
            trace == plot_mw_metric_over_time(inputdir, name, "throughput_mw", {rep}, Middlewares)
            clients == plot_mt_metric_over_time(inputdir, name, "throughput", {rep}, ClientLogs)
        IN /\ \A second \in DOMAIN trace :
                trace[second] = Whole(log_interval * Cardinality({p \in all :
                    (RowAt(run, p).initializeClockTime - first) \div TicksPerSecond = second}))
           /\ \A r \in aggregate_over_clients(Files(run, ClientLogs)) : clients[r.timestep] = r.throughput

\* The labels under the bars are given apart from the data: the bar over a
\* number of clients is that of this number, and the queue length over a
\* number of workers that of this number.
LabelsMatchBars ==
    Evaluated => \A workers \in {name.workers : name \in DOMAIN inputdir} :
        LET vcs == {name.vc : name \in {n \in DOMAIN inputdir : n.workers = workers}}
            sorted == SetToSortSeq(vcs, <)
            reps == DOMAIN inputdir[Name(Workload, sorted[1], workers)]
            data == get_responsetime_data(inputdir, Workload, workers, vcs, Threads, Middlewares, ClientLogs, reps)
            bars == plot_stacked_barchart(data, [i \in DOMAIN sorted |-> sorted[i] * Threads], Len(sorted))
            configs == SetToSortSeq({name.workers : name \in {n \in DOMAIN inputdir : n.vc = sorted[1]}}, <)
            queues == graph_queuelength(inputdir, Workload, sorted[1], configs, Middlewares, reps)
        IN /\ \A i \in DOMAIN queues : queues[i].label = workers =>
                \E row \in data : row.num_clients = sorted[1] * Threads /\ row.queueLength = queues[i].mean
           /\ \A n \in DOMAIN bars : \E row \in data :
                /\ row.num_clients = bars[n].label
                /\ bars[n].behind = row.responsetime
                /\ bars[n].bottom[5] = Plus(Plus(row.netthreadServiceTime_ms, row.queueTime_ms),
                                            Plus(row.workerPreProcessingTime_ms, row.memcachedRTT_ms))

\* The summary takes the configuration of the highest point in the figure.
SummaryAgreesWithFigure ==
    Evaluated /\ figures.experiment_3 # << >> =>
        \A workers \in DOMAIN figures.experiment_3[1].mt.throughput :
            LET points == figures.experiment_3[1].mt.throughput[workers]
                vcs == SetToSeq({name.vc : name \in {n \in DOMAIN inputdir : n.workers = workers}})
                reps == Cardinality(DOMAIN inputdir[Name(Workload, vcs[1], workers)])
                bestOf(configs) == find_max_throughput(inputdir, Workload, workers, configs, reps,
                                                       ClientLogs, Warmup, Cooldown)
                summaryOf(best) == extract_summary_from_config(inputdir, Workload, workers, best.vc, reps,
                                        best.throughput, best.responsetime, Threads, Middlewares,
                                        ClientLogs, Warmup, Cooldown)
                summaryOf_4(best) == extract_summary_from_config_4(inputdir, Workload, workers, best.vc, reps,
                                        best.throughput, 0, Threads, Middlewares, Warmup, Cooldown, 1)
            IN \E best \in {bestOf(vcs)} : \E summary \in {summaryOf(best)} :
                /\ \E p \in points : p[1] = summary.num_clients /\ p[2] = summary.throughput
                /\ \A p \in points : AtMost(p[2], summary.throughput)
                /\ \E p \in figures.experiment_3[1].mw.responsetime[workers] :
                    p[1] = summary.num_clients /\ p[2] = summary.responseTime_ms
                /\ \E p \in figures.experiment_3[1].queueLength[workers] :
                    p[1] = best.vc * Threads /\ p[2] = summaryOf_4(best).queueLength

\* What different scripts and figures say of one experiment is the same: the
\* break-down and the averages, the trace and the logs, the bars and their
\* labels, the summary and the figure (graph_responsetime.py,
\* graph_xput_vs_time.py, summary_table.py, directory_functions.py).
FiguresAgree ==
    /\ BreakDownAddsUp
    /\ OwnDirectoriesOnly
    /\ TraceOnOneClock
    /\ LabelsMatchBars
    /\ SummaryAgreesWithFigure

\* Experiment 2 keeps the seconds that all clients have printed; over these
\* its throughput is the sum of the clients' and its response time the plain
\* mean of theirs.
JoinKeepsCommonSeconds ==
    Evaluated => \A r \in Range(plan) :
        LET rows == gather_statistics_2_2([name \in {r[1]} |-> [rep \in {r[2]} |-> inputdir[name][rep]]],
                                          Workload, 0, Cooldown + 2).aggregated
            clients == inputdir[r[1]][r[2]].clients
            common == {second \in 1..(Cooldown + 1) : \A log \in Range(ClientLogs) :
                        \E i \in DOMAIN clients[log] : clients[log][i].timestep = second}
        IN /\ {row.timestep : row \in rows} = common
           /\ \A row \in rows : \E both \in aggregate_over_clients(Files(inputdir[r[1]][r[2]], ClientLogs)) :
                both.timestep = row.timestep /\ both.throughput = row.sum_throughput

\* Its figure shows the mean of the repetitions, and of their seconds.
BaselineIsMeanOfMeans ==
    Evaluated => \A point \in figures.experiment_2.throughput[Workload] :
        LET vc == point.num_clients \div 2
            runs == {r \in Range(plan) : r[1].vc = vc /\ r[1] \in DOMAIN AsBaseline(inputdir)}
            reps == {r[2] : r \in runs}
            sums(rep) == {p \in runs \X (2..(Cooldown + 2)) : p[1][2] = rep /\
                            \A log \in Range(ClientLogs) : p[2] \in DOMAIN inputdir[p[1][1]][rep].clients[log]}
            sum(p) == Total([log \in Range(ClientLogs) |->
                                Whole(inputdir[p[1][1]][p[1][2]].clients[log][p[2]].throughput)])
        IN point.mean = Mean([rep \in reps |-> Mean([p \in sums(rep) |-> sum(p)])])

\* Experiment 2 joins its clients by the second and averages three times
\* (gather_statistics_2_2.py, gather_averages_2_2.py, graphs_2_2.ipynb).
BaselineAgrees ==
    /\ JoinKeepsCommonSeconds
    /\ BaselineIsMeanOfMeans

\* However often the scripts are started, the figures stay what they are:
\* the files of an earlier extraction are written anew.
RerunsAgree == [][figures = NotYet]_figures
=============================================================================
