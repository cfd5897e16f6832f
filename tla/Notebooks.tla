----------------------------- MODULE Notebooks -----------------------------
(***************************************************************************)
(* The notebooks of the evaluation: one of them is opened and evaluated    *)
(* cell by cell.  A figure is read with what its path says it shows, and   *)
(* compared with what the scripts have launched, or with a definition of   *)
(* the number it shows.                                                    *)
(***************************************************************************)
EXTENDS BarChartNotebooks, DstatNotebooks, Analysis2k, QueueingModels, HistogramNotebook

Init == Closed

OpenNotebook == notebook = "none" /\ \E nb \in Notebooks : Open(nb)

graphs_3_1 == \/ graphs_3_1_setup \/ graphs_3_1_workloads \/ graphs_3_1_summary
              \/ graphs_3_1_break_down_readOnly \/ graphs_3_1_queueLength
              \/ graphs_3_1_break_down_writeOnly

graphs_3_2 == \/ graphs_3_2_setup \/ graphs_3_2_workloads \/ graphs_3_2_summary
              \/ graphs_3_2_break_down_writeOnly \/ graphs_3_2_break_down_readOnly
              \/ graphs_3_2_queueLength \/ graphs_3_2_trace

graph_3_2_rerun == \/ graph_3_2_rerun_setup \/ graph_3_2_rerun_workloads \/ graph_3_2_rerun_summary
                   \/ graph_3_2_rerun_break_down_readOnly \/ graph_3_2_rerun_break_down_writeOnly
                   \/ graph_3_2_rerun_queueLength \/ graph_3_2_rerun_trace

graphs_4 == \/ graphs_4_setup \/ graphs_4_workload \/ graphs_4_summary \/ graphs_4_break_down
            \/ graphs_4_rerun_break_down \/ graphs_4_rerun_queueLength \/ graphs_4_trace

graphs_5 == \/ graphs_5_setup \/ graphs_5_gather \/ graphs_5_responseTime \/ graphs_5_throughput
            \/ graphs_5_key_throughput \/ graphs_5_break_down

barchart_3 == \/ gather_3_1 \/ plot_3_1 \/ gather_and_plot_3_1 \/ gather_3_2 \/ plot_3_2
              \/ gather_3_2_rerun \/ plot_3_2_rerun

barchart_5 == \/ gather_5 \/ plot_5 \/ gather_5_single_middlewares \/ print_5_single_middlewares
              \/ gather_5_combined \/ print_5_combined

dstat == \/ \E nb \in DstatBooks : dstat_imports(nb)
         \/ client_loop_2_1 \/ client_send_2_1 \/ client_loop_2_2 \/ client_send_2_2
         \/ server_loop_2_1 \/ server_send_2_1 \/ server_load_2_1 \/ server_loop_2_2 \/ server_load_2_2
         \/ client_dstat_3_1 \/ client_dstat_3_2
         \/ server_dstat_3_1 \/ server_dstat_3_2 \/ server_dstat_3_2_rerun
         \/ client_dstat_4 \/ server_dstat_4
         \/ client_dstat_5 \/ server_loop_5 \/ server_show_5 \/ server_load_5

analysis_2k == \/ setup_2k \/ gather_2k \/ logtransform \/ average_2k \/ sign_table \/ solve_2k
               \/ variation \/ confidence \/ residuals_2k

MM1 == MM1_functions \/ MM1_gather \/ MM1_averages \/ MM1_formulas \/ MM1_comparison
MMm == MMm_functions \/ MMm_gather \/ MMm_averages \/ MMm_formulas \/ MMm_comparison
NetworkOfQueues == \/ NetworkOfQueues_setup \/ NetworkOfQueues_gather \/ NetworkOfQueues_pings
                   \/ NetworkOfQueues_averages \/ NetworkOfQueues_outputs

histogram == \/ histogram_functions_5 \/ sharded_histograms \/ nonsharded_histograms \/ total_histograms
             \/ percentile_tables \/ plot_percentiles \/ gather_requests_5 \/ gather_5_3 \/ plot_5_3
             \/ gather_single_middlewares \/ plot_single_middlewares \/ single_client \/ gather_sharded
             \/ plot_memcachedRTT \/ plot_repetitions \/ plot_rerun \/ gather_single_clients
             \/ plot_single_clients

Next == \/ OpenNotebook
        \/ graphs_3_1 \/ graphs_3_2 \/ graph_3_2_rerun \/ graphs_4 \/ graphs_5
        \/ barchart_3 \/ barchart_5 \/ dstat \/ analysis_2k
        \/ MM1 \/ MMm \/ NetworkOfQueues \/ histogram

Spec == Init /\ [][Next]_kernel

-----------------------------------------------------------------------------

\* The figures that show a table or a chart of one experiment.
Charts == {f \in DOMAIN figures : "source" \in DOMAIN figures[f]}
WithField(field) == {f \in Charts : field \in DOMAIN figures[f]}
SetupOf(f) == Launched[figures[f].source]

\* memtier_Send.png of experiment 3.1 is drawn a second time with the figures of experiment 3.2.
Overwritten == <<"exp3_1", "memtier_Send", "all">>

\* A figure shows the experiment its path names, and only configurations of it that were launched
\* (graphs_*.ipynb, *_dstat_logs.ipynb, responsetime_stacked_barchart.ipynb).
FigureShowsItsExperiment ==
    \A f \in Charts \ {Overwritten} :
        /\ f[1] = LabelOf[figures[f].source]
        /\ f[3] \in {"all", figures[f].workload}
        /\ figures[f].workload \in SetupOf(f).workloads \cup {"both"}
        /\ "settings" \in DOMAIN figures[f] => figures[f].settings \subseteq SetupOf(f).settings

\* The horizontal axis has the number of clients: virtual clients times all the threads of all
\* instances the script has launched.  The clients of experiment 4 are shown with 2 of 6 threads.
ClientsOnTheAxis ==
    \A f \in WithField("num_threads") \ {<<"exp4", "memtier_Send", "all">>} :
        figures[f].workload \in {"writeOnly", "readOnly", "both"} =>
            figures[f].num_threads = AllThreads(SetupOf(f))

\* A bar stands over the number of clients or keys it was measured with, in whatever order the
\* directories are listed (graphs_5.ipynb, responsetime_stacked_barchart.ipynb).
BarsUnderTheirLabels ==
    \A f \in WithField("bars") : \A i \in DOMAIN figures[f].bars :
        figures[f].bars[i].label = figures[f].bars[i].shows

Once(list, set) == Range(list) = set /\ Len(list) = Cardinality(set)

\* Server 7 counts twice in experiment 4, and experiment 5 leaves server 8 out.
ServersAmiss == {<<"exp4", "shown_load", "all">>, <<"exp5", "shown_load", "all">>, <<"exp5", "printed", "all">>}

\* A figure counts the log of every machine that was launched, each once.
EveryMachineOnce ==
    /\ \A f \in WithField("middlewares") : f[2] # "mw1_faster" =>
            /\ Once(figures[f].middlewares, SetupOf(f).middlewares)
            /\ Once(figures[f].clients, ClientLogs(SetupOf(f)))
    /\ \A f \in WithField("dstat_clients") : Once(figures[f].dstat_clients, SetupOf(f).clients)
    /\ \A f \in WithField("dstat_servers") \ ServersAmiss :
            Once(figures[f].dstat_servers, SetupOf(f).servers)

\* A panel shows what its title, its row and its column say, and all that is in the panels of one
\* title, the clients of a middleware as well as the middleware (histogram.ipynb).
PanelsMatchTitles ==
    \A f \in DOMAIN figures : "panels" \in DOMAIN figures[f] =>
        \A p \in DOMAIN figures[f].panels :
            LET panel == figures[f].panels[p] IN
            /\ \A data \in panel.shows :
                    data.of = panel.title.of /\ data.sharding = panel.title.sharding
                    /\ data.keys = panel.title.keys
            /\ UNION {data.logs : data \in panel.shows} = panel.title.logs
            /\ UNION {data.reps : data \in panel.shows} = 1..3

\* What is seen in a figure is what its path, its axis, its labels and its titles say.
FiguresShowWhatTheySay ==
    /\ FigureShowsItsExperiment
    /\ ClientsOnTheAxis
    /\ BarsUnderTheirLabels
    /\ EveryMachineOnce
    /\ PanelsMatchTitles

\* Notebooks that are not left with a name of another notebook, or with a module that is not there.
Complete == Notebooks \ {"graphs_3_1", "graphs_3_2", "graph_3_2_rerun", "graphs_4", "histogram"}

\* Evaluated from the top, such a notebook never fails: no cell needs what a later one assigns.
\* And in none is a name a value and a module at once: Python rebinds it, and the cells that use
\* the module fail from then on (graph_3_2_rerun.ipynb, "resptime").
RunsThrough ==
    /\ notebook \in Complete => position >= 0
    /\ DOMAIN globals \cap imported = {}

-----------------------------------------------------------------------------
(* dstat                                                                   *)

Clock(time) == strptime(time)
Span(csv_file) == {Clock(s.time) : s \in csv_file}
InOneMonth(csv_file) == Cardinality({s.time[2] : s \in csv_file}) = 1

\* The samples of a machine that were taken inside a truncated repetition.
Within(csv_file, rep_file, truncate_sec) ==
    {s \in csv_file : /\ Min(Span(rep_file)) + truncate_sec <= Clock(s.time)
                      /\ Clock(s.time) <= Max(Span(rep_file)) - truncate_sec}

IsSample(s) ==
    /\ s.time \in (0..(DaysPerMonth - 1)) \X Nat \X (0..(SecondsPerDay - 1))
    /\ {s.idl, s.recv, s.send} \subseteq Int

\* dstat has taken samples on a machine inside the repetition, and at no time far from it.
Sampled(csv_file, rep_file) ==
    /\ IsFiniteSet(csv_file) /\ \A s \in csv_file : IsSample(s)
    /\ \A s \in csv_file, r \in rep_file :
            Abs(Clock(s.time) - Clock(r.time)) < (DaysPerMonth - 1) * SecondsPerDay
    /\ \A truncate_sec \in {0, TruncateTen, TruncateFive} : Within(csv_file, rep_file, truncate_sec) # {}

\* All clients have the same repetitions, and the servers are sampled in each.
WellSampled(files) ==
    LET reps == DOMAIN files.clients[1]
    IN /\ IsFiniteSet(reps) /\ reps # {}
       /\ \A c \in 1..3 : /\ DOMAIN files.clients[c] = reps
                          /\ \A rep \in reps : Sampled(files.clients[c][rep], files.clients[c][rep])
       /\ \A s \in {6, 7}, rep \in reps : Sampled(files.servers[s], files.clients[1][rep])

ASSUME DstatAssumption == \A nb \in DstatBooks : \A files \in Inputs(nb) : WellSampled(files)

\* The number that a figure draws is computed from the samples inside the repetitions.
InsideTheRun(figure) ==
    LET ofClients == "dstat_clients" \in DOMAIN figure
        machines == IF ofClients THEN figure.dstat_clients ELSE figure.dstat_servers
        repFile(m, rep) == IF ofClients THEN logs.clients[machines[m]][rep] ELSE logs.clients[1][rep]
        file(m, rep) == IF ofClients THEN repFile(m, rep) ELSE logs.servers[machines[m]]
        reps == DOMAIN logs.clients[1]
        column == IF figure.y = "load" THEN "idl" ELSE figure.y
        all == (DOMAIN machines) \X reps
        samples(x) == Within(file(x[1], x[2]), repFile(x[1], x[2]), figure.truncate_sec)
        means == [x \in all |-> Mean([s \in samples(x) |-> Whole(s[column])])]
    IN (\A x \in all : InOneMonth(repFile(x[1], x[2]))) =>
            figure.drawn = IF figure.y = "load" THEN Minus(Whole(100), Mean(means))
                           ELSE Over(Total(means), Whole(Cardinality(reps)))

\* What a figure of dstat shows is computed from the samples inside the repetitions, and from no
\* others, over midnight too.  Texts of the form '%d-%m' mislead at the end of a month.
DstatInsideTheRun ==
    notebook \in DstatBooks => \A f \in WithField("drawn") : InsideTheRun(figures[f])

-----------------------------------------------------------------------------
(* 2k_analysis.ipynb                                                       *)

Analysed(kind) == <<"exp6", kind, "fiftyFifty">>

\* Two computations of one table: the errors, matched with their configuration by its settings,
\* are the residuals, matched with the predictions by counting rows.
ErrorsAreResiduals ==
    Analysed("modelassumptions") \in DOMAIN figures =>
        figures[Analysed("modelassumptions")].errors = figures[Analysed("modelassumptions")].residuals

\* The variation explained by the effects and the rest add up to that of the observations around
\* their mean, and the rest is that of the residuals.
VariationAddsUp ==
    LET shown == figures[Analysed("variation")]
        assumptions == figures[Analysed("modelassumptions")]
        y == assumptions.observed
        mean == Mean([row \in DOMAIN y |-> y[row]])
    IN {Analysed("variation"), Analysed("modelassumptions")} \subseteq DOMAIN figures =>
        /\ shown.SST = Total([row \in DOMAIN y |-> Square(Minus(y[row], mean))])
        /\ shown.SST = Total([i \in DOMAIN shown.SS_with_error |-> shown.SS_with_error[i]])
        /\ Last(shown.SS_with_error) = SumOfSquares(assumptions.residuals)

\* Both tests of the table hold: its errors are its residuals, and its squares add up.
AnalysisAddsUp == ErrorsAreResiduals /\ VariationAddsUp

-----------------------------------------------------------------------------
(* Queueing models                                                         *)

Predicted(nb) == <<"exp4", "predicted", nb>>

\* The law that ties the predicted numbers of jobs to the predicted times, in the system and in
\* the queue, and the service between the two (MM1.ipynb, MMm.ipynb).
LittlesLaw ==
    \A nb \in {"MM1", "MMm"} : Predicted(nb) \in DOMAIN figures =>
        LET p == figures[Predicted(nb)]
            arrivals(time) == Over(Times(p.arrivalrate_lambda, time), Whole(1000))
        IN /\ p.mean_number_jobs_in_system = arrivals(p.mean_response_time_r)
           /\ p.mean_number_jobs_in_queue = arrivals(p.mean_waiting_time_w)
           /\ p.mean_response_time_r = Plus(p.mean_waiting_time_w, p.servicetime)

\* The probability of queueing is that of the birth-death chain of m servers, whose states are
\* each reached from the one below: all states from m jobs on, of all states.
ErlangC ==
    Predicted("MMm") \in DOMAIN figures =>
        LET p == figures[Predicted("MMm")]
            m == 2 * num_workers
            weight[n \in 0..m] ==
                IF n = 0 THEN One
                ELSE Times(weight[n - 1], Over(Times(Whole(m), p.trafficIntensity), Whole(n)))
            waiting == Over(weight[m], Minus(One, p.trafficIntensity))
            free == Total([n \in 0..(m - 1) |-> weight[n]])
        IN p.probability_of_queueing = Over(waiting, Plus(waiting, free))

\* The utilisation of a middleware is the time its own logged requests have kept a worker busy, in
\* the time they span, scaled to all requests, for each of its workers and repetitions.
UtilizationIsBusyTime ==
    <<"exp3_2_2", "measured", NoQ>> \in DOMAIN figures =>
        \A mw \in Range(queueing_middlewares) :
            LET reqs == gather_requests(logs, reps_range, <<mw>>)
                times == {r.timestep : r \in reqs}
                handled(rep) == {r \in concatenate_requestlogs(logs[rep].middlewares[mw], <<rep, mw>>) :
                                    \E q \in reqs : q.middleware = <<rep, mw>> /\ q.thread = r.thread
                                                    /\ q.line = r.line}
                busy == Total([r \in UNION {handled(rep) : rep \in reps_range} |->
                                    Whole(r.completedTime - r.dequeueTime)])
                seconds == Ratio(Max(times) - Min(times), TicksPerSecond)
            IN figures[<<"exp3_2_2", "measured", NoQ>>][mw].workers =
                    Over(Times(busy, Whole(log_interval)), Times(seconds, Whole(3 * 1000 * num_workers)))

\* What the models predict and what is compared with it obey the laws of queueing.
QueueingLaws ==
    /\ LittlesLaw
    /\ ErlangC
    /\ UtilizationIsBusyTime

\* The requests of all logs that took at most t, by their histograms up to their last step.
AtMostSo(t) ==
    LET share(hist) ==
            LET steps == interpolate_histogram(hist)
                upTo == {i \in DOMAIN steps : steps[i].responsetime <= t}
            IN IF upTo = {} THEN Zero ELSE Minus(interp(hist, steps[Max(upTo)].responsetime), Whole(hist[1][2]))
        histogramOf(x) == logs[x[1]].histograms[x[2]]
    IN Total([x \in reps_range \X Range(mtLogs) |->
                Times(share(histogramOf(x).hist), Ratio(histogramOf(x).xput, 100))])

\* A percentile over several logs is the first step at which their requests, each weighted with
\* its throughput, have reached the share (wquantile).
PercentilesReached ==
    <<"exp4", "percentiles", "MM1">> \in DOMAIN figures =>
        LET table == figures[<<"exp4", "percentiles", "MM1">>].table
            last == Max({h[Len(h)][1] : h \in {logs[rep].histograms[f].hist :
                            rep \in reps_range, f \in Range(mtLogs)}})
            first == Min({h[1][1] : h \in {logs[rep].histograms[f].hist :
                            rep \in reps_range, f \in Range(mtLogs)}})
        IN \A n \in DOMAIN table :
            LET wanted == Times(table[n].percentile, AtMostSo(last)) IN
            /\ AtMost(wanted, AtMostSo(table[n].responsetime))
            /\ \A t \in first..(table[n].responsetime - 1) : AtMostSo(t) # Zero => Less(AtMostSo(t), wanted)

-----------------------------------------------------------------------------

\* A figure that has been saved stays what it is while its notebook is open, in whatever order
\* the cells are evaluated: two cells that share a path show the same.
FiguresAreStable ==
    [][notebook' = notebook =>
            \A f \in DOMAIN figures \ {Overwritten} : f \in DOMAIN figures' /\ figures'[f] = figures[f]]_kernel
=============================================================================
