--------------------------- MODULE NotebooksProofs ---------------------------
(***************************************************************************)
(* What is proved about the notebooks, for all files they may read.        *)
(***************************************************************************)
EXTENDS Notebooks, RationalsProofs

-----------------------------------------------------------------------------
(* The names that cells need and bind.                                     *)

\* What cell n does with names, of which it assigns A first and R at its end.
Binds(nb, n, reads, imports, A, uses, needs, R) ==
    LET begins == reads \subseteq DOMAIN globals
        bound == DOMAIN globals \cup (IF begins THEN A ELSE {})
        modules == IF begins THEN (imported \cup imports) \ A ELSE imported
        completes == begins /\ uses \subseteq modules /\ needs \subseteq bound
    IN /\ Turn(nb, n)
       /\ DOMAIN globals' = (bound \cup (IF completes THEN R ELSE {})) \ (IF begins THEN imports ELSE {})
       /\ imported' = IF completes THEN modules \ R ELSE modules
       /\ Advance(n, completes)
       /\ notebook' = notebook

\* A name is bound to a value or to a module, never to both.
Distinct == DOMAIN globals \cap imported = {}

\* From the p-th cell on.
Ready(p, modules, names) ==
    position >= p => modules \subseteq imported /\ names \subseteq DOMAIN globals

Graphs5Modules == (TableModules \ {"xput_vs_vc"}) \cup {"xput_vs_multi", "np"}
DstatModules == {"os", "pd", "datetime", "plt", "cycler"}
Analysis2kModules == {"gmts", "cut", "os", "pd", "np", "stats", "plt"}
ChartNames == {"inputdir", "workload", "middlewares", "client_logfiles", "vc_configs", "num_threads"}
SettingNames == {"mw_settings", "mc_settings", "worker_settings", "reps", "should_logtransform"}

Graphs5Ready ==
    /\ Ready(2, Graphs5Modules, {})
    /\ Ready(3, {}, {"exp5_1_dir", "exp5_2_dir"})
    /\ Ready(4, {}, {"shard", "nonshard"})

BarChart3Ready == Ready(2, {"resptime", "plt"}, ChartNames \cup {"all_worker_data"})

BarChart5Ready ==
    /\ Ready(2, {"resptime", "plt"}, {"sharded_configs", "multigets", "all_multiget_data"})
    /\ Ready(4, {}, {"mw1_sharded_data", "mw2_sharded_data"})
    /\ Ready(6, {}, {"combined_middleware_data"})

Analysis2kReady ==
    /\ Ready(2, Analysis2kModules, {})
    /\ Ready(3, {}, {"exp6_dir"})
    /\ Ready(4, {}, SettingNames \cup {"raw"})
    /\ Ready(6, {}, {"averages"})
    /\ Ready(7, {}, {"analysis_table"})
    /\ Ready(8, {}, {"solution"})
    /\ Ready(9, {}, {"SSE"})

ModelReady ==
    /\ Ready(2, queueing_imports, {})
    /\ Ready(3, {"gather_requests"}, {})
    /\ Ready(4, histogram_functions, {})
    /\ Ready(5, {}, {"reqs", "hist_data"})
    /\ Ready(6, {}, {"avg", "mt_averages"})

MM1Ready == ModelReady /\ Ready(8, {}, {"predicted"})

MMmReady == ModelReady /\ Ready(2, {"math"}, {}) /\ Ready(7, {}, {"predicted"})

NetworkReady ==
    /\ Ready(2, queueing_imports \cup {"math"}, {})
    /\ Ready(3, {"gather_requests"}, {})
    /\ Ready(4, {}, {"reqs_mw1", "reqs_mw2"})
    /\ Ready(5, {}, {"avg_rtt_c1", "avg_rtt_c2"})
    /\ Ready(6, {}, {"avg", "mt_averages"})

Incomplete == {"graphs_3_1", "graphs_3_2", "graph_3_2_rerun", "graphs_4", "histogram"}

\* The cells before the next one have not failed, and have bound what the next ones need.
InOrder ==
    /\ position \in Int
    /\ notebook \notin Incomplete => position >= 0
    /\ notebook = "graphs_5" => Graphs5Ready
    /\ notebook = "barchart_3" => BarChart3Ready
    /\ notebook = "barchart_5" => BarChart5Ready
    /\ notebook \in DstatBooks => Ready(2, DstatModules, {})
    /\ notebook \in {"client_dstat_2", "server_dstat_2"} => Ready(3, {}, {"nice_table"})
    /\ notebook = "server_dstat_5" => Ready(3, {}, {"agg_table"})
    /\ notebook = K2 => Analysis2kReady
    /\ notebook = "MM1" => MM1Ready
    /\ notebook = "MMm" => MMmReady
    /\ notebook = NoQ => NetworkReady

\* A cell leaves each name bound to a value or to a module: of what it binds, the later binding holds.
LEMMA BindsDistinct ==
    ASSUME Distinct, NEW nb, NEW n, NEW reads, NEW imports, NEW A, NEW uses, NEW needs, NEW R,
           Binds(nb, n, reads, imports, A, uses, needs, R)
    PROVE  Distinct'
BY DEF Distinct, Binds

\* The names that cell n needs, if it is the next one.
Met(n, reads, imports, A, uses, needs) ==
    position = n => /\ reads \subseteq DOMAIN globals
                    /\ uses \subseteq (imported \cup imports) \ A
                    /\ needs \subseteq DOMAIN globals \cup A

\* A cell that has completed, or has been evaluated out of order.
Forward(nb, n, imports, A, R) ==
    /\ notebook' = notebook /\ notebook = nb
    /\ position' \in Int /\ position' >= 0
    /\ position' # 0 => /\ position = n /\ position' = n + 1
                        /\ imported' = ((imported \cup imports) \ A) \ R
                        /\ DOMAIN globals' = (DOMAIN globals \cup A \cup R) \ imports

\* Where the names that a cell needs are bound, it completes.
LEMMA BindsForward ==
    ASSUME InOrder, NEW nb, nb \notin Incomplete,
           NEW n \in Nat \ {0}, NEW reads, NEW imports, NEW A, NEW uses, NEW needs, NEW R,
           Binds(nb, n, reads, imports, A, uses, needs, R), Met(n, reads, imports, A, uses, needs)
    PROVE  Forward(nb, n, imports, A, R)
<1>1. notebook = nb /\ position \in Int /\ position >= 0
  BY DEF Binds, Turn, InOrder
<1> QED
  BY <1>1 DEF Binds, Turn, Advance, IsNext, Met, Forward

\* A cell of one notebook has left it in order.
Continues(nb) == InOrder' /\ Distinct' /\ notebook = nb /\ notebook' = notebook

\* graphs_5.ipynb binds what its later cells need.
LEMMA Graphs5InOrder ==
    ASSUME InOrder, Distinct, graphs_5
    PROVE  Continues("graphs_5")
<1>1. ASSUME graphs_5_setup PROVE Continues("graphs_5")
  <2>1. \/ Binds("graphs_5", 1, {}, Graphs5Modules, {}, {}, {}, {})
        \/ Binds("graphs_5", 2, {}, {}, {"exp5_1_dir", "exp5_2_dir"}, {}, {}, {})
    BY <1>1 DEF graphs_5_setup, Graphs5Modules, Import, Assign, Binds, Cell, Nothing, Empty, Entry,
            ++
  <2>2. CASE Binds("graphs_5", 1, {}, Graphs5Modules, {}, {}, {}, {})
    <3>2. Met(1, {}, Graphs5Modules, {}, {}, {})
      BY <2>2 DEF Met, Binds, Turn, InOrder, Graphs5Ready, Graphs5Modules, TableModules,
              DrawingModules, Ready
    <3>3. Forward("graphs_5", 1, Graphs5Modules, {}, {})
      BY <2>2, <3>2, BindsForward DEF Incomplete, K2, NoQ
    <3> QED  BY <2>2, <3>3, BindsDistinct DEF Continues, Forward, InOrder, K2, NoQ, DstatBooks, Graphs5Ready,
            Graphs5Modules, TableModules, DrawingModules, Ready
  <2>3. CASE Binds("graphs_5", 2, {}, {}, {"exp5_1_dir", "exp5_2_dir"}, {}, {}, {})
    <3>2. Met(2, {}, {}, {"exp5_1_dir", "exp5_2_dir"}, {}, {})
      BY <2>3 DEF Met, Binds, Turn, InOrder, Graphs5Ready, Graphs5Modules, TableModules,
              DrawingModules, Ready
    <3>3. Forward("graphs_5", 2, {}, {"exp5_1_dir", "exp5_2_dir"}, {})
      BY <2>3, <3>2, BindsForward DEF Incomplete, K2, NoQ
    <3> QED  BY <2>3, <3>3, BindsDistinct DEF Continues, Forward, InOrder, K2, NoQ, DstatBooks, Graphs5Ready,
            Graphs5Modules, TableModules, DrawingModules, Ready
  <2> QED  BY <2>1, <2>2, <2>3
<1>2. ASSUME graphs_5_gather PROVE Continues("graphs_5")
  <2>1. Binds("graphs_5", 3, {"exp5_1_dir", "exp5_2_dir"}, {}, {}, {"xput_vs_multi"}, {}, {"shard",
          "nonshard"})
    BY <1>2 DEF graphs_5_gather, Compute, Binds, Cell, Nothing, Empty, Entry, ++
  <2>2. Met(3, {"exp5_1_dir", "exp5_2_dir"}, {}, {}, {"xput_vs_multi"}, {})
    BY <2>1 DEF Met, Binds, Turn, InOrder, Graphs5Ready, Graphs5Modules, TableModules,
            DrawingModules, Ready
  <2>3. Forward("graphs_5", 3, {}, {}, {"shard", "nonshard"})
    BY <2>1, <2>2, BindsForward DEF Incomplete, K2, NoQ
  <2> QED  BY <2>1, <2>3, BindsDistinct DEF Continues, Forward, InOrder, K2, NoQ, DstatBooks, Graphs5Ready,
          Graphs5Modules, TableModules, DrawingModules, Ready
<1>3. ASSUME graphs_5_responseTime PROVE Continues("graphs_5")
  <2>1. Binds("graphs_5", 4, {"shard", "nonshard"}, {}, {}, {"np", "plt", "os"}, {}, {})
    BY <1>3 DEF graphs_5_responseTime, Draw, Binds, Cell, Nothing, Empty, Entry, ++
  <2>2. Met(4, {"shard", "nonshard"}, {}, {}, {"np", "plt", "os"}, {})
    BY <2>1 DEF Met, Binds, Turn, InOrder, Graphs5Ready, Graphs5Modules, TableModules,
            DrawingModules, Ready
  <2>3. Forward("graphs_5", 4, {}, {}, {})
    BY <2>1, <2>2, BindsForward DEF Incomplete, K2, NoQ
  <2> QED  BY <2>1, <2>3, BindsDistinct DEF Continues, Forward, InOrder, K2, NoQ, DstatBooks, Graphs5Ready,
          Graphs5Modules, TableModules, DrawingModules, Ready
<1>4. ASSUME graphs_5_throughput PROVE Continues("graphs_5")
  <2>1. Binds("graphs_5", 5, {"shard", "nonshard"}, {}, {}, {"np", "plt", "os"}, {}, {})
    BY <1>4 DEF graphs_5_throughput, Draw, Binds, Cell, Nothing, Empty, Entry, ++
  <2>2. Met(5, {"shard", "nonshard"}, {}, {}, {"np", "plt", "os"}, {})
    BY <2>1 DEF Met, Binds, Turn, InOrder, Graphs5Ready, Graphs5Modules, TableModules,
            DrawingModules, Ready
  <2>3. Forward("graphs_5", 5, {}, {}, {})
    BY <2>1, <2>2, BindsForward DEF Incomplete, K2, NoQ
  <2> QED  BY <2>1, <2>3, BindsDistinct DEF Continues, Forward, InOrder, K2, NoQ, DstatBooks, Graphs5Ready,
          Graphs5Modules, TableModules, DrawingModules, Ready
<1>5. ASSUME graphs_5_key_throughput PROVE Continues("graphs_5")
  <2>1. Binds("graphs_5", 6, {"shard", "nonshard"}, {}, {}, {"np", "plt", "os"}, {}, {})
    BY <1>5 DEF graphs_5_key_throughput, Draw, Binds, Cell, Nothing, Empty, Entry, ++
  <2>2. Met(6, {"shard", "nonshard"}, {}, {}, {"np", "plt", "os"}, {})
    BY <2>1 DEF Met, Binds, Turn, InOrder, Graphs5Ready, Graphs5Modules, TableModules,
            DrawingModules, Ready
  <2>3. Forward("graphs_5", 6, {}, {}, {})
    BY <2>1, <2>2, BindsForward DEF Incomplete, K2, NoQ
  <2> QED  BY <2>1, <2>3, BindsDistinct DEF Continues, Forward, InOrder, K2, NoQ, DstatBooks, Graphs5Ready,
          Graphs5Modules, TableModules, DrawingModules, Ready
<1>6. ASSUME graphs_5_break_down PROVE Continues("graphs_5")
  <2>1. Binds("graphs_5", 7, {"exp5_1_dir"}, {}, {}, {"plt", "resptime", "os"}, {}, {})
    BY <1>6 DEF graphs_5_break_down, Draw, Binds, Cell, Nothing, Empty, Entry, ++
  <2>2. Met(7, {"exp5_1_dir"}, {}, {}, {"plt", "resptime", "os"}, {})
    BY <2>1 DEF Met, Binds, Turn, InOrder, Graphs5Ready, Graphs5Modules, TableModules,
            DrawingModules, Ready
  <2>3. Forward("graphs_5", 7, {}, {}, {})
    BY <2>1, <2>2, BindsForward DEF Incomplete, K2, NoQ
  <2> QED  BY <2>1, <2>3, BindsDistinct DEF Continues, Forward, InOrder, K2, NoQ, DstatBooks, Graphs5Ready,
          Graphs5Modules, TableModules, DrawingModules, Ready
<1> QED
  BY <1>1, <1>2, <1>3, <1>4, <1>5, <1>6 DEF graphs_5

\* responsetime_stacked_barchart.ipynb of experiment 3 binds what its later cells need.
LEMMA BarChart3InOrder ==
    ASSUME InOrder, Distinct, barchart_3
    PROVE  Continues("barchart_3")
<1>1. ASSUME gather_3_1 PROVE Continues("barchart_3")
  <2>1. Binds("barchart_3", 1, {}, {"resptime", "plt"}, ChartNames, {}, {}, {"all_worker_data"})
    BY <1>1 DEF gather_3_1, Gather, Chart, ChartNames, Binds, Cell, Nothing, Empty, Entry, ++
  <2>2. Met(1, {}, {"resptime", "plt"}, ChartNames, {}, {})
    BY <2>1 DEF Met, Binds, Turn, InOrder, BarChart3Ready, ChartNames, Chart3Names, Ready
  <2>3. Forward("barchart_3", 1, {"resptime", "plt"}, ChartNames, {"all_worker_data"})
    BY <2>1, <2>2, BindsForward DEF Incomplete, K2, NoQ
  <2> QED  BY <2>1, <2>3, BindsDistinct DEF Continues, Forward, InOrder, K2, NoQ, DstatBooks, BarChart3Ready,
          ChartNames, Chart3Names, Ready
<1>2. ASSUME plot_3_1 PROVE Continues("barchart_3")
  <2>1. Binds("barchart_3", 2, {}, {}, {}, {"resptime", "plt"}, Chart3Names, {})
    BY <1>2 DEF plot_3_1, Binds, Cell, Nothing, Empty, Entry, ++
  <2>2. Met(2, {}, {}, {}, {"resptime", "plt"}, Chart3Names)
    BY <2>1 DEF Met, Binds, Turn, InOrder, BarChart3Ready, ChartNames, Chart3Names, Ready
  <2>3. Forward("barchart_3", 2, {}, {}, {})
    BY <2>1, <2>2, BindsForward DEF Incomplete, K2, NoQ
  <2> QED  BY <2>1, <2>3, BindsDistinct DEF Continues, Forward, InOrder, K2, NoQ, DstatBooks, BarChart3Ready,
          ChartNames, Chart3Names, Ready
<1>3. ASSUME gather_and_plot_3_1 PROVE Continues("barchart_3")
  <2>1. Binds("barchart_3", 3, {}, {}, {"workload"}, {"resptime", "plt"}, {"inputdir",
          "middlewares", "client_logfiles", "vc_configs", "num_threads"}, {"all_worker_data"})
    BY <1>3 DEF gather_and_plot_3_1, Binds, Cell, Nothing, Empty, Entry, ++
  <2>2. Met(3, {}, {}, {"workload"}, {"resptime", "plt"}, {"inputdir", "middlewares",
          "client_logfiles", "vc_configs", "num_threads"})
    BY <2>1 DEF Met, Binds, Turn, InOrder, BarChart3Ready, ChartNames, Chart3Names, Ready
  <2>3. Forward("barchart_3", 3, {}, {"workload"}, {"all_worker_data"})
    BY <2>1, <2>2, BindsForward DEF Incomplete, K2, NoQ
  <2> QED  BY <2>1, <2>3, BindsDistinct DEF Continues, Forward, InOrder, K2, NoQ, DstatBooks, BarChart3Ready,
          ChartNames, Chart3Names, Ready
<1>4. ASSUME gather_3_2 PROVE Continues("barchart_3")
  <2>1. Binds("barchart_3", 4, {}, {"resptime", "plt"}, ChartNames, {}, {}, {"all_worker_data"})
    BY <1>4 DEF gather_3_2, Gather, Chart, ChartNames, Binds, Cell, Nothing, Empty, Entry, ++
  <2>2. Met(4, {}, {"resptime", "plt"}, ChartNames, {}, {})
    BY <2>1 DEF Met, Binds, Turn, InOrder, BarChart3Ready, ChartNames, Chart3Names, Ready
  <2>3. Forward("barchart_3", 4, {"resptime", "plt"}, ChartNames, {"all_worker_data"})
    BY <2>1, <2>2, BindsForward DEF Incomplete, K2, NoQ
  <2> QED  BY <2>1, <2>3, BindsDistinct DEF Continues, Forward, InOrder, K2, NoQ, DstatBooks, BarChart3Ready,
          ChartNames, Chart3Names, Ready
<1>5. ASSUME plot_3_2 PROVE Continues("barchart_3")
  <2>1. Binds("barchart_3", 5, {}, {}, {"num_threads"}, {"resptime", "plt"}, Chart3Names, {})
    BY <1>5 DEF plot_3_2, Binds, Cell, Nothing, Empty, Entry, ++
  <2>2. Met(5, {}, {}, {"num_threads"}, {"resptime", "plt"}, Chart3Names)
    BY <2>1 DEF Met, Binds, Turn, InOrder, BarChart3Ready, ChartNames, Chart3Names, Ready
  <2>3. Forward("barchart_3", 5, {}, {"num_threads"}, {})
    BY <2>1, <2>2, BindsForward DEF Incomplete, K2, NoQ
  <2> QED  BY <2>1, <2>3, BindsDistinct DEF Continues, Forward, InOrder, K2, NoQ, DstatBooks, BarChart3Ready,
          ChartNames, Chart3Names, Ready
<1>6. ASSUME gather_3_2_rerun PROVE Continues("barchart_3")
  <2>1. Binds("barchart_3", 6, {}, {"resptime", "plt"}, ChartNames, {}, {}, {"all_worker_data"})
    BY <1>6 DEF gather_3_2_rerun, Gather, Chart, ChartNames, Binds, Cell, Nothing, Empty, Entry, ++
  <2>2. Met(6, {}, {"resptime", "plt"}, ChartNames, {}, {})
    BY <2>1 DEF Met, Binds, Turn, InOrder, BarChart3Ready, ChartNames, Chart3Names, Ready
  <2>3. Forward("barchart_3", 6, {"resptime", "plt"}, ChartNames, {"all_worker_data"})
    BY <2>1, <2>2, BindsForward DEF Incomplete, K2, NoQ
  <2> QED  BY <2>1, <2>3, BindsDistinct DEF Continues, Forward, InOrder, K2, NoQ, DstatBooks, BarChart3Ready,
          ChartNames, Chart3Names, Ready
<1>7. ASSUME plot_3_2_rerun PROVE Continues("barchart_3")
  <2>1. Binds("barchart_3", 7, {}, {}, {}, {"resptime", "plt"}, Chart3Names, {})
    BY <1>7 DEF plot_3_2_rerun, Binds, Cell, Nothing, Empty, Entry, ++
  <2>2. Met(7, {}, {}, {}, {"resptime", "plt"}, Chart3Names)
    BY <2>1 DEF Met, Binds, Turn, InOrder, BarChart3Ready, ChartNames, Chart3Names, Ready
  <2>3. Forward("barchart_3", 7, {}, {}, {})
    BY <2>1, <2>2, BindsForward DEF Incomplete, K2, NoQ
  <2> QED  BY <2>1, <2>3, BindsDistinct DEF Continues, Forward, InOrder, K2, NoQ, DstatBooks, BarChart3Ready,
          ChartNames, Chart3Names, Ready
<1> QED
  BY <1>1, <1>2, <1>3, <1>4, <1>5, <1>6, <1>7 DEF barchart_3

\* responsetime_stacked_barchart.ipynb of experiment 5 binds what its later cells need.
LEMMA BarChart5InOrder ==
    ASSUME InOrder, Distinct, barchart_5
    PROVE  Continues("barchart_5")
<1>1. ASSUME gather_5 PROVE Continues("barchart_5")
  <2>1. Binds("barchart_5", 1, {}, {"resptime", "plt"}, {"sharded_configs", "multigets"}, {}, {},
          {"all_multiget_data"})
    BY <1>1 DEF gather_5, GatherMultigets, Binds, Cell, Nothing, Empty, Entry, ++
  <2>2. Met(1, {}, {"resptime", "plt"}, {"sharded_configs", "multigets"}, {}, {})
    BY <2>1 DEF Met, Binds, Turn, InOrder, BarChart5Ready, Ready
  <2>3. Forward("barchart_5", 1, {"resptime", "plt"}, {"sharded_configs", "multigets"},
          {"all_multiget_data"})
    BY <2>1, <2>2, BindsForward DEF Incomplete, K2, NoQ
  <2> QED  BY <2>1, <2>3, BindsDistinct DEF Continues, Forward, InOrder, K2, NoQ, DstatBooks, BarChart5Ready,
          Ready
<1>2. ASSUME plot_5 PROVE Continues("barchart_5")
  <2>1. Binds("barchart_5", 2, {"sharded_configs", "all_multiget_data", "multigets"}, {}, {},
          {"plt", "resptime"}, {}, {})
    BY <1>2 DEF plot_5, Draw, Binds, Cell, Nothing, Empty, Entry, ++
  <2>2. Met(2, {"sharded_configs", "all_multiget_data", "multigets"}, {}, {}, {"plt", "resptime"},
          {})
    BY <2>1 DEF Met, Binds, Turn, InOrder, BarChart5Ready, Ready
  <2>3. Forward("barchart_5", 2, {}, {}, {})
    BY <2>1, <2>2, BindsForward DEF Incomplete, K2, NoQ
  <2> QED  BY <2>1, <2>3, BindsDistinct DEF Continues, Forward, InOrder, K2, NoQ, DstatBooks, BarChart5Ready,
          Ready
<1>3. ASSUME gather_5_single_middlewares PROVE Continues("barchart_5")
  <2>1. Binds("barchart_5", 3, {}, {"resptime", "plt"}, {"sharded_configs", "multigets"}, {}, {},
          {"mw1_sharded_data", "mw2_sharded_data"})
    BY <1>3 DEF gather_5_single_middlewares, GatherMultigets, Binds, Cell, Nothing, Empty, Entry, ++
  <2>2. Met(3, {}, {"resptime", "plt"}, {"sharded_configs", "multigets"}, {}, {})
    BY <2>1 DEF Met, Binds, Turn, InOrder, BarChart5Ready, Ready
  <2>3. Forward("barchart_5", 3, {"resptime", "plt"}, {"sharded_configs", "multigets"},
          {"mw1_sharded_data", "mw2_sharded_data"})
    BY <2>1, <2>2, BindsForward DEF Incomplete, K2, NoQ
  <2> QED  BY <2>1, <2>3, BindsDistinct DEF Continues, Forward, InOrder, K2, NoQ, DstatBooks, BarChart5Ready,
          Ready
<1>4. ASSUME print_5_single_middlewares PROVE Continues("barchart_5")
  <2>1. Binds("barchart_5", 4, {"mw1_sharded_data", "mw2_sharded_data"}, {}, {}, {}, {}, {})
    BY <1>4 DEF print_5_single_middlewares, Draw, Binds, Cell, Nothing, Empty, Entry, ++
  <2>2. Met(4, {"mw1_sharded_data", "mw2_sharded_data"}, {}, {}, {}, {})
    BY <2>1 DEF Met, Binds, Turn, InOrder, BarChart5Ready, Ready
  <2>3. Forward("barchart_5", 4, {}, {}, {})
    BY <2>1, <2>2, BindsForward DEF Incomplete, K2, NoQ
  <2> QED  BY <2>1, <2>3, BindsDistinct DEF Continues, Forward, InOrder, K2, NoQ, DstatBooks, BarChart5Ready,
          Ready
<1>5. ASSUME gather_5_combined PROVE Continues("barchart_5")
  <2>1. Binds("barchart_5", 5, {}, {"resptime", "plt"}, {"sharded_configs", "multigets"}, {}, {},
          {"combined_middleware_data"})
    BY <1>5 DEF gather_5_combined, GatherMultigets, Binds, Cell, Nothing, Empty, Entry, ++
  <2>2. Met(5, {}, {"resptime", "plt"}, {"sharded_configs", "multigets"}, {}, {})
    BY <2>1 DEF Met, Binds, Turn, InOrder, BarChart5Ready, Ready
  <2>3. Forward("barchart_5", 5, {"resptime", "plt"}, {"sharded_configs", "multigets"},
          {"combined_middleware_data"})
    BY <2>1, <2>2, BindsForward DEF Incomplete, K2, NoQ
  <2> QED  BY <2>1, <2>3, BindsDistinct DEF Continues, Forward, InOrder, K2, NoQ, DstatBooks, BarChart5Ready,
          Ready
<1>6. ASSUME print_5_combined PROVE Continues("barchart_5")
  <2>1. Binds("barchart_5", 6, {"combined_middleware_data"}, {}, {}, {}, {}, {})
    BY <1>6 DEF print_5_combined, Draw, Binds, Cell, Nothing, Empty, Entry, ++
  <2>2. Met(6, {"combined_middleware_data"}, {}, {}, {}, {})
    BY <2>1 DEF Met, Binds, Turn, InOrder, BarChart5Ready, Ready
  <2>3. Forward("barchart_5", 6, {}, {}, {})
    BY <2>1, <2>2, BindsForward DEF Incomplete, K2, NoQ
  <2> QED  BY <2>1, <2>3, BindsDistinct DEF Continues, Forward, InOrder, K2, NoQ, DstatBooks, BarChart5Ready,
          Ready
<1> QED
  BY <1>1, <1>2, <1>3, <1>4, <1>5, <1>6 DEF barchart_5

\* The notebooks of dstat, of which only some build a table, bind what their later cells need.
LEMMA DstatInOrder ==
    ASSUME InOrder, Distinct, dstat
    PROVE  InOrder' /\ Distinct'
<1>0. ASSUME NEW nb \in DstatBooks, dstat_imports(nb) PROVE InOrder' /\ Distinct'
  <2>1. Binds(nb, 1, {}, DstatModules, {}, {}, {}, {})
    BY <1>0 DEF dstat_imports, DstatModules, Import, Binds
  <2>2. Met(1, {}, DstatModules, {}, {}, {})
    BY DEF Met
  <2>3. Forward(nb, 1, DstatModules, {}, {})
    BY <1>0, <2>1, <2>2, BindsForward DEF Incomplete, DstatBooks
  <2> QED  BY <1>0, <2>1, <2>3, BindsDistinct DEF Forward, InOrder, K2, NoQ, DstatBooks, DstatModules, Ready
<1>1. ASSUME client_loop_2_1 PROVE InOrder' /\ Distinct'
  <2>1. Binds("client_dstat_2", 2, {}, {}, {}, {"pd"}, {}, {"nice_table"})
    BY <1>1 DEF client_loop_2_1, Compute, Binds, Cell, Nothing, Empty, Entry, ++
  <2>2. Met(2, {}, {}, {}, {"pd"}, {})
    BY <2>1 DEF Met, Binds, Turn, InOrder, DstatBooks, DstatModules, Ready
  <2>3. Forward("client_dstat_2", 2, {}, {}, {"nice_table"})
    BY <2>1, <2>2, BindsForward DEF Incomplete, K2, NoQ
  <2> QED  BY <2>1, <2>3, BindsDistinct DEF Forward, InOrder, K2, NoQ, DstatBooks, DstatBooks,
          DstatModules, Ready
<1>2. ASSUME client_send_2_1 PROVE InOrder' /\ Distinct'
  <2>1. Binds("client_dstat_2", 3, {"nice_table"}, {}, {}, {"plt"}, {}, {})
    BY <1>2 DEF client_send_2_1, Draw, Binds, Cell, Nothing, Empty, Entry, ++
  <2>2. Met(3, {"nice_table"}, {}, {}, {"plt"}, {})
    BY <2>1 DEF Met, Binds, Turn, InOrder, DstatBooks, DstatModules, Ready
  <2>3. Forward("client_dstat_2", 3, {}, {}, {})
    BY <2>1, <2>2, BindsForward DEF Incomplete, K2, NoQ
  <2> QED  BY <2>1, <2>3, BindsDistinct DEF Forward, InOrder, K2, NoQ, DstatBooks, DstatBooks,
          DstatModules, Ready
<1>3. ASSUME client_loop_2_2 PROVE InOrder' /\ Distinct'
  <2>1. Binds("client_dstat_2", 4, {}, {}, {}, {"pd"}, {}, {"nice_table"})
    BY <1>3 DEF client_loop_2_2, Compute, Binds, Cell, Nothing, Empty, Entry, ++
  <2>2. Met(4, {}, {}, {}, {"pd"}, {})
    BY <2>1 DEF Met, Binds, Turn, InOrder, DstatBooks, DstatModules, Ready
  <2>3. Forward("client_dstat_2", 4, {}, {}, {"nice_table"})
    BY <2>1, <2>2, BindsForward DEF Incomplete, K2, NoQ
  <2> QED  BY <2>1, <2>3, BindsDistinct DEF Forward, InOrder, K2, NoQ, DstatBooks, DstatBooks,
          DstatModules, Ready
<1>4. ASSUME client_send_2_2 PROVE InOrder' /\ Distinct'
  <2>1. Binds("client_dstat_2", 5, {"nice_table"}, {}, {}, {"plt"}, {}, {})
    BY <1>4 DEF client_send_2_2, Draw, Binds, Cell, Nothing, Empty, Entry, ++
  <2>2. Met(5, {"nice_table"}, {}, {}, {"plt"}, {})
    BY <2>1 DEF Met, Binds, Turn, InOrder, DstatBooks, DstatModules, Ready
  <2>3. Forward("client_dstat_2", 5, {}, {}, {})
    BY <2>1, <2>2, BindsForward DEF Incomplete, K2, NoQ
  <2> QED  BY <2>1, <2>3, BindsDistinct DEF Forward, InOrder, K2, NoQ, DstatBooks, DstatBooks,
          DstatModules, Ready
<1>5. ASSUME server_loop_2_1 PROVE InOrder' /\ Distinct'
  <2>1. Binds("server_dstat_2", 2, {}, {}, {}, {"pd"}, {}, {"nice_table"})
    BY <1>5 DEF server_loop_2_1, Compute, Binds, Cell, Nothing, Empty, Entry, ++
  <2>2. Met(2, {}, {}, {}, {"pd"}, {})
    BY <2>1 DEF Met, Binds, Turn, InOrder, DstatBooks, DstatModules, Ready
  <2>3. Forward("server_dstat_2", 2, {}, {}, {"nice_table"})
    BY <2>1, <2>2, BindsForward DEF Incomplete, K2, NoQ
  <2> QED  BY <2>1, <2>3, BindsDistinct DEF Forward, InOrder, K2, NoQ, DstatBooks, DstatBooks,
          DstatModules, Ready
<1>6. ASSUME server_send_2_1 PROVE InOrder' /\ Distinct'
  <2>1. Binds("server_dstat_2", 3, {"nice_table"}, {}, {}, {"plt"}, {}, {})
    BY <1>6 DEF server_send_2_1, Draw, Binds, Cell, Nothing, Empty, Entry, ++
  <2>2. Met(3, {"nice_table"}, {}, {}, {"plt"}, {})
    BY <2>1 DEF Met, Binds, Turn, InOrder, DstatBooks, DstatModules, Ready
  <2>3. Forward("server_dstat_2", 3, {}, {}, {})
    BY <2>1, <2>2, BindsForward DEF Incomplete, K2, NoQ
  <2> QED  BY <2>1, <2>3, BindsDistinct DEF Forward, InOrder, K2, NoQ, DstatBooks, DstatBooks,
          DstatModules, Ready
<1>7. ASSUME server_load_2_1 PROVE InOrder' /\ Distinct'
  <2>1. Binds("server_dstat_2", 4, {"nice_table"}, {}, {}, {"plt"}, {}, {})
    BY <1>7 DEF server_load_2_1, Draw, Binds, Cell, Nothing, Empty, Entry, ++
  <2>2. Met(4, {"nice_table"}, {}, {}, {"plt"}, {})
    BY <2>1 DEF Met, Binds, Turn, InOrder, DstatBooks, DstatModules, Ready
  <2>3. Forward("server_dstat_2", 4, {}, {}, {})
    BY <2>1, <2>2, BindsForward DEF Incomplete, K2, NoQ
  <2> QED  BY <2>1, <2>3, BindsDistinct DEF Forward, InOrder, K2, NoQ, DstatBooks, DstatBooks,
          DstatModules, Ready
<1>8. ASSUME server_loop_2_2 PROVE InOrder' /\ Distinct'
  <2>1. Binds("server_dstat_2", 5, {}, {}, {}, {"pd"}, {}, {"nice_table"})
    BY <1>8 DEF server_loop_2_2, Compute, Binds, Cell, Nothing, Empty, Entry, ++
  <2>2. Met(5, {}, {}, {}, {"pd"}, {})
    BY <2>1 DEF Met, Binds, Turn, InOrder, DstatBooks, DstatModules, Ready
  <2>3. Forward("server_dstat_2", 5, {}, {}, {"nice_table"})
    BY <2>1, <2>2, BindsForward DEF Incomplete, K2, NoQ
  <2> QED  BY <2>1, <2>3, BindsDistinct DEF Forward, InOrder, K2, NoQ, DstatBooks, DstatBooks,
          DstatModules, Ready
<1>9. ASSUME server_load_2_2 PROVE InOrder' /\ Distinct'
  <2>1. Binds("server_dstat_2", 6, {"nice_table"}, {}, {}, {"plt"}, {}, {})
    BY <1>9 DEF server_load_2_2, Draw, Binds, Cell, Nothing, Empty, Entry, ++
  <2>2. Met(6, {"nice_table"}, {}, {}, {"plt"}, {})
    BY <2>1 DEF Met, Binds, Turn, InOrder, DstatBooks, DstatModules, Ready
  <2>3. Forward("server_dstat_2", 6, {}, {}, {})
    BY <2>1, <2>2, BindsForward DEF Incomplete, K2, NoQ
  <2> QED  BY <2>1, <2>3, BindsDistinct DEF Forward, InOrder, K2, NoQ, DstatBooks, DstatBooks,
          DstatModules, Ready
<1>10. ASSUME client_dstat_3_1 PROVE InOrder' /\ Distinct'
  <2>1. Binds("client_dstat_3", 2, {}, {}, {}, {"pd", "plt"}, {}, {})
    BY <1>10 DEF client_dstat_3_1, Draw, DrawTable, Binds, Cell, Nothing, Empty, Entry, ++
  <2>2. Met(2, {}, {}, {}, {"pd", "plt"}, {})
    BY <2>1 DEF Met, Binds, Turn, InOrder, DstatBooks, DstatModules, Ready
  <2>3. Forward("client_dstat_3", 2, {}, {}, {})
    BY <2>1, <2>2, BindsForward DEF Incomplete, K2, NoQ
  <2> QED  BY <2>1, <2>3, BindsDistinct DEF Forward, InOrder, K2, NoQ, DstatBooks, DstatBooks,
          DstatModules, Ready
<1>11. ASSUME client_dstat_3_2 PROVE InOrder' /\ Distinct'
  <2>1. Binds("client_dstat_3", 3, {}, {}, {}, {"pd", "plt"}, {}, {})
    BY <1>11 DEF client_dstat_3_2, Draw, DrawTable, Binds, Cell, Nothing, Empty, Entry, ++
  <2>2. Met(3, {}, {}, {}, {"pd", "plt"}, {})
    BY <2>1 DEF Met, Binds, Turn, InOrder, DstatBooks, DstatModules, Ready
  <2>3. Forward("client_dstat_3", 3, {}, {}, {})
    BY <2>1, <2>2, BindsForward DEF Incomplete, K2, NoQ
  <2> QED  BY <2>1, <2>3, BindsDistinct DEF Forward, InOrder, K2, NoQ, DstatBooks, DstatBooks,
          DstatModules, Ready
<1>12. ASSUME server_dstat_3_1 PROVE InOrder' /\ Distinct'
  <2>1. Binds("server_dstat_3", 2, {}, {}, {}, {"pd", "plt"}, {}, {})
    BY <1>12 DEF server_dstat_3_1, Draw, DrawTable, Binds, Cell, Nothing, Empty, Entry, ++
  <2>2. Met(2, {}, {}, {}, {"pd", "plt"}, {})
    BY <2>1 DEF Met, Binds, Turn, InOrder, DstatBooks, DstatModules, Ready
  <2>3. Forward("server_dstat_3", 2, {}, {}, {})
    BY <2>1, <2>2, BindsForward DEF Incomplete, K2, NoQ
  <2> QED  BY <2>1, <2>3, BindsDistinct DEF Forward, InOrder, K2, NoQ, DstatBooks, DstatBooks,
          DstatModules, Ready
<1>13. ASSUME server_dstat_3_2 PROVE InOrder' /\ Distinct'
  <2>1. Binds("server_dstat_3", 3, {}, {}, {}, {"pd", "plt"}, {}, {})
    BY <1>13 DEF server_dstat_3_2, Draw, DrawTable, Binds, Cell, Nothing, Empty, Entry, ++
  <2>2. Met(3, {}, {}, {}, {"pd", "plt"}, {})
    BY <2>1 DEF Met, Binds, Turn, InOrder, DstatBooks, DstatModules, Ready
  <2>3. Forward("server_dstat_3", 3, {}, {}, {})
    BY <2>1, <2>2, BindsForward DEF Incomplete, K2, NoQ
  <2> QED  BY <2>1, <2>3, BindsDistinct DEF Forward, InOrder, K2, NoQ, DstatBooks, DstatBooks,
          DstatModules, Ready
<1>14. ASSUME server_dstat_3_2_rerun PROVE InOrder' /\ Distinct'
  <2>1. Binds("server_dstat_3", 4, {}, {}, {}, {"pd", "plt"}, {}, {})
    BY <1>14 DEF server_dstat_3_2_rerun, Draw, DrawTable, Binds, Cell, Nothing, Empty, Entry, ++
  <2>2. Met(4, {}, {}, {}, {"pd", "plt"}, {})
    BY <2>1 DEF Met, Binds, Turn, InOrder, DstatBooks, DstatModules, Ready
  <2>3. Forward("server_dstat_3", 4, {}, {}, {})
    BY <2>1, <2>2, BindsForward DEF Incomplete, K2, NoQ
  <2> QED  BY <2>1, <2>3, BindsDistinct DEF Forward, InOrder, K2, NoQ, DstatBooks, DstatBooks,
          DstatModules, Ready
<1>15. ASSUME client_dstat_4 PROVE InOrder' /\ Distinct'
  <2>1. Binds("client_dstat_4", 2, {}, {}, {}, {"pd", "plt"}, {}, {})
    BY <1>15 DEF client_dstat_4, Draw, DrawTable, Binds, Cell, Nothing, Empty, Entry, ++
  <2>2. Met(2, {}, {}, {}, {"pd", "plt"}, {})
    BY <2>1 DEF Met, Binds, Turn, InOrder, DstatBooks, DstatModules, Ready
  <2>3. Forward("client_dstat_4", 2, {}, {}, {})
    BY <2>1, <2>2, BindsForward DEF Incomplete, K2, NoQ
  <2> QED  BY <2>1, <2>3, BindsDistinct DEF Forward, InOrder, K2, NoQ, DstatBooks, DstatBooks,
          DstatModules, Ready
<1>16. ASSUME server_dstat_4 PROVE InOrder' /\ Distinct'
  <2>1. Binds("server_dstat_4", 2, {}, {}, {}, {"pd", "plt"}, {}, {})
    BY <1>16 DEF server_dstat_4, Draw, DrawTable, Binds, Cell, Nothing, Empty, Entry, ++
  <2>2. Met(2, {}, {}, {}, {"pd", "plt"}, {})
    BY <2>1 DEF Met, Binds, Turn, InOrder, DstatBooks, DstatModules, Ready
  <2>3. Forward("server_dstat_4", 2, {}, {}, {})
    BY <2>1, <2>2, BindsForward DEF Incomplete, K2, NoQ
  <2> QED  BY <2>1, <2>3, BindsDistinct DEF Forward, InOrder, K2, NoQ, DstatBooks, DstatBooks,
          DstatModules, Ready
<1>17. ASSUME client_dstat_5 PROVE InOrder' /\ Distinct'
  <2>1. Binds("client_dstat_5", 2, {}, {}, {}, {"pd", "plt"}, {}, {})
    BY <1>17 DEF client_dstat_5, Draw, DrawTable, Binds, Cell, Nothing, Empty, Entry, ++
  <2>2. Met(2, {}, {}, {}, {"pd", "plt"}, {})
    BY <2>1 DEF Met, Binds, Turn, InOrder, DstatBooks, DstatModules, Ready
  <2>3. Forward("client_dstat_5", 2, {}, {}, {})
    BY <2>1, <2>2, BindsForward DEF Incomplete, K2, NoQ
  <2> QED  BY <2>1, <2>3, BindsDistinct DEF Forward, InOrder, K2, NoQ, DstatBooks, DstatBooks,
          DstatModules, Ready
<1>18. ASSUME server_loop_5 PROVE InOrder' /\ Distinct'
  <2>1. Binds("server_dstat_5", 2, {}, {}, {}, {"pd"}, {}, {"agg_table"})
    BY <1>18 DEF server_loop_5, Compute, Binds, Cell, Nothing, Empty, Entry, ++
  <2>2. Met(2, {}, {}, {}, {"pd"}, {})
    BY <2>1 DEF Met, Binds, Turn, InOrder, DstatBooks, DstatModules, Ready
  <2>3. Forward("server_dstat_5", 2, {}, {}, {"agg_table"})
    BY <2>1, <2>2, BindsForward DEF Incomplete, K2, NoQ
  <2> QED  BY <2>1, <2>3, BindsDistinct DEF Forward, InOrder, K2, NoQ, DstatBooks, DstatBooks,
          DstatModules, Ready
<1>19. ASSUME server_show_5 PROVE InOrder' /\ Distinct'
  <2>1. Binds("server_dstat_5", 3, {"agg_table"}, {}, {}, {}, {}, {})
    BY <1>19 DEF server_show_5, Draw, Binds, Cell, Nothing, Empty, Entry, ++
  <2>2. Met(3, {"agg_table"}, {}, {}, {}, {})
    BY <2>1 DEF Met, Binds, Turn, InOrder, DstatBooks, DstatModules, Ready
  <2>3. Forward("server_dstat_5", 3, {}, {}, {})
    BY <2>1, <2>2, BindsForward DEF Incomplete, K2, NoQ
  <2> QED  BY <2>1, <2>3, BindsDistinct DEF Forward, InOrder, K2, NoQ, DstatBooks, DstatBooks,
          DstatModules, Ready
<1>20. ASSUME server_load_5 PROVE InOrder' /\ Distinct'
  <2>1. Binds("server_dstat_5", 4, {"agg_table"}, {}, {}, {"plt"}, {}, {})
    BY <1>20 DEF server_load_5, Draw, Binds, Cell, Nothing, Empty, Entry, ++
  <2>2. Met(4, {"agg_table"}, {}, {}, {"plt"}, {})
    BY <2>1 DEF Met, Binds, Turn, InOrder, DstatBooks, DstatModules, Ready
  <2>3. Forward("server_dstat_5", 4, {}, {}, {})
    BY <2>1, <2>2, BindsForward DEF Incomplete, K2, NoQ
  <2> QED  BY <2>1, <2>3, BindsDistinct DEF Forward, InOrder, K2, NoQ, DstatBooks, DstatBooks,
          DstatModules, Ready
<1> QED
  BY <1>0, <1>1, <1>2, <1>3, <1>4, <1>5, <1>6, <1>7, <1>8, <1>9, <1>10, <1>11, <1>12, <1>13, <1>14,
          <1>15, <1>16, <1>17, <1>18, <1>19, <1>20 DEF dstat

\* 2k_analysis.ipynb binds what its later cells need.
LEMMA Analysis2kInOrder ==
    ASSUME InOrder, Distinct, analysis_2k
    PROVE  Continues(K2)
<1>1. ASSUME setup_2k PROVE Continues(K2)
  <2>1. \/ Binds(K2, 1, {}, Analysis2kModules, {}, {}, {}, {})
        \/ Binds(K2, 2, {}, {}, {"exp6_dir"}, {}, {}, {})
    BY <1>1 DEF setup_2k, Analysis2kModules, Import, Assign, Binds, Cell, Nothing, Empty, Entry, ++
  <2>2. CASE Binds(K2, 1, {}, Analysis2kModules, {}, {}, {}, {})
    <3>2. Met(1, {}, Analysis2kModules, {}, {}, {})
      BY <2>2 DEF Met, Binds, Turn, InOrder, Analysis2kReady, Analysis2kModules, SettingNames, K2,
              Ready
    <3>3. Forward(K2, 1, Analysis2kModules, {}, {})
      BY <2>2, <3>2, BindsForward DEF Incomplete, K2, NoQ
    <3> QED  BY <2>2, <3>3, BindsDistinct DEF Continues, Forward, InOrder, K2, NoQ, DstatBooks,
            Analysis2kReady, Analysis2kModules, SettingNames, K2, Ready
  <2>3. CASE Binds(K2, 2, {}, {}, {"exp6_dir"}, {}, {}, {})
    <3>2. Met(2, {}, {}, {"exp6_dir"}, {}, {})
      BY <2>3 DEF Met, Binds, Turn, InOrder, Analysis2kReady, Analysis2kModules, SettingNames, K2,
              Ready
    <3>3. Forward(K2, 2, {}, {"exp6_dir"}, {})
      BY <2>3, <3>2, BindsForward DEF Incomplete, K2, NoQ
    <3> QED  BY <2>3, <3>3, BindsDistinct DEF Continues, Forward, InOrder, K2, NoQ, DstatBooks,
            Analysis2kReady, Analysis2kModules, SettingNames, K2, Ready
  <2> QED  BY <2>1, <2>2, <2>3
<1>2. ASSUME gather_2k PROVE Continues(K2)
  <2>1. Binds(K2, 3, {"exp6_dir"}, {}, SettingNames, {"gmts", "cut", "pd"}, {}, {"raw"})
    BY <1>2 DEF gather_2k, SettingNames, Binds, Cell, Nothing, Empty, Entry, ++
  <2>2. Met(3, {"exp6_dir"}, {}, SettingNames, {"gmts", "cut", "pd"}, {})
    BY <2>1 DEF Met, Binds, Turn, InOrder, Analysis2kReady, Analysis2kModules, SettingNames, K2,
            Ready
  <2>3. Forward(K2, 3, {}, SettingNames, {"raw"})
    BY <2>1, <2>2, BindsForward DEF Incomplete, K2, NoQ
  <2> QED  BY <2>1, <2>3, BindsDistinct DEF Continues, Forward, InOrder, K2, NoQ, DstatBooks, Analysis2kReady,
          Analysis2kModules, SettingNames, K2, Ready
<1>3. ASSUME logtransform PROVE Continues(K2)
  <2>1. Binds(K2, 4, {"raw", "should_logtransform"}, {}, {}, {"np"}, {}, {"raw"})
    BY <1>3 DEF logtransform, Compute, Binds, Cell, Nothing, Empty, Entry, ++
  <2>2. Met(4, {"raw", "should_logtransform"}, {}, {}, {"np"}, {})
    BY <2>1 DEF Met, Binds, Turn, InOrder, Analysis2kReady, Analysis2kModules, SettingNames, K2,
            Ready
  <2>3. Forward(K2, 4, {}, {}, {"raw"})
    BY <2>1, <2>2, BindsForward DEF Incomplete, K2, NoQ
  <2> QED  BY <2>1, <2>3, BindsDistinct DEF Continues, Forward, InOrder, K2, NoQ, DstatBooks, Analysis2kReady,
          Analysis2kModules, SettingNames, K2, Ready
<1>4. ASSUME average_2k PROVE Continues(K2)
  <2>1. Binds(K2, 5, {"raw"}, {}, {}, {}, {}, {"averages"})
    BY <1>4 DEF average_2k, Compute, Binds, Cell, Nothing, Empty, Entry, ++
  <2>2. Met(5, {"raw"}, {}, {}, {}, {})
    BY <2>1 DEF Met, Binds, Turn, InOrder, Analysis2kReady, Analysis2kModules, SettingNames, K2,
            Ready
  <2>3. Forward(K2, 5, {}, {}, {"averages"})
    BY <2>1, <2>2, BindsForward DEF Incomplete, K2, NoQ
  <2> QED  BY <2>1, <2>3, BindsDistinct DEF Continues, Forward, InOrder, K2, NoQ, DstatBooks, Analysis2kReady,
          Analysis2kModules, SettingNames, K2, Ready
<1>5. ASSUME sign_table PROVE Continues(K2)
  <2>1. Binds(K2, 6, {"averages"}, {}, {}, {"pd"}, {}, {"analysis_table"})
    BY <1>5 DEF sign_table, Compute, Binds, Cell, Nothing, Empty, Entry, ++
  <2>2. Met(6, {"averages"}, {}, {}, {"pd"}, {})
    BY <2>1 DEF Met, Binds, Turn, InOrder, Analysis2kReady, Analysis2kModules, SettingNames, K2,
            Ready
  <2>3. Forward(K2, 6, {}, {}, {"analysis_table"})
    BY <2>1, <2>2, BindsForward DEF Incomplete, K2, NoQ
  <2> QED  BY <2>1, <2>3, BindsDistinct DEF Continues, Forward, InOrder, K2, NoQ, DstatBooks, Analysis2kReady,
          Analysis2kModules, SettingNames, K2, Ready
<1>6. ASSUME solve_2k PROVE Continues(K2)
  <2>1. Binds(K2, 7, {"analysis_table", "averages"}, {}, {}, {"np", "pd"}, {}, {"solution"})
    BY <1>6 DEF solve_2k, Compute, Binds, Cell, Nothing, Empty, Entry, ++
  <2>2. Met(7, {"analysis_table", "averages"}, {}, {}, {"np", "pd"}, {})
    BY <2>1 DEF Met, Binds, Turn, InOrder, Analysis2kReady, Analysis2kModules, SettingNames, K2,
            Ready
  <2>3. Forward(K2, 7, {}, {}, {"solution"})
    BY <2>1, <2>2, BindsForward DEF Incomplete, K2, NoQ
  <2> QED  BY <2>1, <2>3, BindsDistinct DEF Continues, Forward, InOrder, K2, NoQ, DstatBooks, Analysis2kReady,
          Analysis2kModules, SettingNames, K2, Ready
<1>7. ASSUME variation PROVE Continues(K2)
  <2>1. Binds(K2, 8, {"raw", "solution"}, {}, {}, {"np", "pd"}, {}, {"SSE"})
    BY <1>7 DEF variation, Binds, Cell, Nothing, Empty, Entry, ++
  <2>2. Met(8, {"raw", "solution"}, {}, {}, {"np", "pd"}, {})
    BY <2>1 DEF Met, Binds, Turn, InOrder, Analysis2kReady, Analysis2kModules, SettingNames, K2,
            Ready
  <2>3. Forward(K2, 8, {}, {}, {"SSE"})
    BY <2>1, <2>2, BindsForward DEF Incomplete, K2, NoQ
  <2> QED  BY <2>1, <2>3, BindsDistinct DEF Continues, Forward, InOrder, K2, NoQ, DstatBooks, Analysis2kReady,
          Analysis2kModules, SettingNames, K2, Ready
<1>8. ASSUME confidence PROVE Continues(K2)
  <2>1. Binds(K2, 9, {"SSE", "solution", "reps"}, {}, {}, {"np", "stats", "pd"}, {}, {})
    BY <1>8 DEF confidence, Draw, Binds, Cell, Nothing, Empty, Entry, ++
  <2>2. Met(9, {"SSE", "solution", "reps"}, {}, {}, {"np", "stats", "pd"}, {})
    BY <2>1 DEF Met, Binds, Turn, InOrder, Analysis2kReady, Analysis2kModules, SettingNames, K2,
            Ready
  <2>3. Forward(K2, 9, {}, {}, {})
    BY <2>1, <2>2, BindsForward DEF Incomplete, K2, NoQ
  <2> QED  BY <2>1, <2>3, BindsDistinct DEF Continues, Forward, InOrder, K2, NoQ, DstatBooks, Analysis2kReady,
          Analysis2kModules, SettingNames, K2, Ready
<1>9. ASSUME residuals_2k PROVE Continues(K2)
  <2>1. Binds(K2, 10, {"raw", "averages", "analysis_table", "solution", "reps"}, {}, {}, {"plt",
          "pd", "stats", "np", "os"}, {}, {})
    BY <1>9 DEF residuals_2k, Draw, Binds, Cell, Nothing, Empty, Entry, ++
  <2>2. Met(10, {"raw", "averages", "analysis_table", "solution", "reps"}, {}, {}, {"plt", "pd",
          "stats", "np", "os"}, {})
    BY <2>1 DEF Met, Binds, Turn, InOrder, Analysis2kReady, Analysis2kModules, SettingNames, K2,
            Ready
  <2>3. Forward(K2, 10, {}, {}, {})
    BY <2>1, <2>2, BindsForward DEF Incomplete, K2, NoQ
  <2> QED  BY <2>1, <2>3, BindsDistinct DEF Continues, Forward, InOrder, K2, NoQ, DstatBooks, Analysis2kReady,
          Analysis2kModules, SettingNames, K2, Ready
<1> QED
  BY <1>1, <1>2, <1>3, <1>4, <1>5, <1>6, <1>7, <1>8, <1>9 DEF analysis_2k

\* MM1.ipynb binds what its later cells need.
LEMMA MM1InOrder ==
    ASSUME InOrder, Distinct, MM1
    PROVE  Continues("MM1")
<1>1. ASSUME MM1_functions PROVE Continues("MM1")
  <2>1. \/ Binds("MM1", 1, {}, queueing_imports, {}, {}, {}, {})
        \/ Binds("MM1", 2, {}, {"gather_requests"}, {}, {}, {}, {})
        \/ Binds("MM1", 3, {}, histogram_functions, {}, {}, {}, {})
    BY <1>1 DEF MM1_functions, queueing_functions, Import, Binds, Cell, Nothing, Empty, Entry, ++
  <2>2. CASE Binds("MM1", 1, {}, queueing_imports, {}, {}, {}, {})
    <3>2. Met(1, {}, queueing_imports, {}, {}, {})
      BY <2>2 DEF Met, Binds, Turn, InOrder, MM1Ready, ModelReady, queueing_imports,
              histogram_functions, Ready
    <3>3. Forward("MM1", 1, queueing_imports, {}, {})
      BY <2>2, <3>2, BindsForward DEF Incomplete, K2, NoQ
    <3> QED  BY <2>2, <3>3, BindsDistinct DEF Continues, Forward, InOrder, K2, NoQ, DstatBooks, MM1Ready,
            ModelReady, queueing_imports, histogram_functions, Ready
  <2>3. CASE Binds("MM1", 2, {}, {"gather_requests"}, {}, {}, {}, {})
    <3>2. Met(2, {}, {"gather_requests"}, {}, {}, {})
      BY <2>3 DEF Met, Binds, Turn, InOrder, MM1Ready, ModelReady, queueing_imports,
              histogram_functions, Ready
    <3>3. Forward("MM1", 2, {"gather_requests"}, {}, {})
      BY <2>3, <3>2, BindsForward DEF Incomplete, K2, NoQ
    <3> QED  BY <2>3, <3>3, BindsDistinct DEF Continues, Forward, InOrder, K2, NoQ, DstatBooks, MM1Ready,
            ModelReady, queueing_imports, histogram_functions, Ready
  <2>4. CASE Binds("MM1", 3, {}, histogram_functions, {}, {}, {}, {})
    <3>2. Met(3, {}, histogram_functions, {}, {}, {})
      BY <2>4 DEF Met, Binds, Turn, InOrder, MM1Ready, ModelReady, queueing_imports,
              histogram_functions, Ready
    <3>3. Forward("MM1", 3, histogram_functions, {}, {})
      BY <2>4, <3>2, BindsForward DEF Incomplete, K2, NoQ
    <3> QED  BY <2>4, <3>3, BindsDistinct DEF Continues, Forward, InOrder, K2, NoQ, DstatBooks, MM1Ready,
            ModelReady, queueing_imports, histogram_functions, Ready
  <2> QED  BY <2>1, <2>2, <2>3, <2>4
<1>2. ASSUME MM1_gather PROVE Continues("MM1")
  <2>1. Binds("MM1", 4, {}, {}, {}, histogram_functions \cup {"gather_requests", "os", "np"}, {},
          {"reqs", "hist_data"})
    BY <1>2 DEF MM1_gather, queueing_gather, Compute, Binds, Cell, Nothing, Empty, Entry, ++
  <2>2. Met(4, {}, {}, {}, histogram_functions \cup {"gather_requests", "os", "np"}, {})
    BY <2>1 DEF Met, Binds, Turn, InOrder, MM1Ready, ModelReady, queueing_imports,
            histogram_functions, Ready
  <2>3. Forward("MM1", 4, {}, {}, {"reqs", "hist_data"})
    BY <2>1, <2>2, BindsForward DEF Incomplete, K2, NoQ
  <2> QED  BY <2>1, <2>3, BindsDistinct DEF Continues, Forward, InOrder, K2, NoQ, DstatBooks, MM1Ready,
          ModelReady, queueing_imports, histogram_functions, Ready
<1>3. ASSUME MM1_averages PROVE Continues("MM1")
  <2>1. Binds("MM1", 5, {"reqs"}, {}, {}, {"gmws", "gmts", "cut", "dirfuncs"}, {}, {"avg",
          "mt_averages"})
    BY <1>3 DEF MM1_averages, queueing_averages, Compute, Binds, Cell, Nothing, Empty, Entry, ++
  <2>2. Met(5, {"reqs"}, {}, {}, {"gmws", "gmts", "cut", "dirfuncs"}, {})
    BY <2>1 DEF Met, Binds, Turn, InOrder, MM1Ready, ModelReady, queueing_imports,
            histogram_functions, Ready
  <2>3. Forward("MM1", 5, {}, {}, {"avg", "mt_averages"})
    BY <2>1, <2>2, BindsForward DEF Incomplete, K2, NoQ
  <2> QED  BY <2>1, <2>3, BindsDistinct DEF Continues, Forward, InOrder, K2, NoQ, DstatBooks, MM1Ready,
          ModelReady, queueing_imports, histogram_functions, Ready
<1>4. ASSUME MM1_formulas PROVE Continues("MM1")
  <2>1. \/ Binds("MM1", 6, {"mt_averages"}, {}, {}, {}, {}, {})
        \/ Binds("MM1", 7, {"mt_averages"}, {}, {}, {"np"}, {}, {"predicted"})
    BY <1>4 DEF MM1_formulas, Draw, Compute, Binds, Cell, Nothing, Empty, Entry, ++
  <2>2. CASE Binds("MM1", 6, {"mt_averages"}, {}, {}, {}, {}, {})
    <3>2. Met(6, {"mt_averages"}, {}, {}, {}, {})
      BY <2>2 DEF Met, Binds, Turn, InOrder, MM1Ready, ModelReady, queueing_imports,
              histogram_functions, Ready
    <3>3. Forward("MM1", 6, {}, {}, {})
      BY <2>2, <3>2, BindsForward DEF Incomplete, K2, NoQ
    <3> QED  BY <2>2, <3>3, BindsDistinct DEF Continues, Forward, InOrder, K2, NoQ, DstatBooks, MM1Ready,
            ModelReady, queueing_imports, histogram_functions, Ready
  <2>3. CASE Binds("MM1", 7, {"mt_averages"}, {}, {}, {"np"}, {}, {"predicted"})
    <3>2. Met(7, {"mt_averages"}, {}, {}, {"np"}, {})
      BY <2>3 DEF Met, Binds, Turn, InOrder, MM1Ready, ModelReady, queueing_imports,
              histogram_functions, Ready
    <3>3. Forward("MM1", 7, {}, {}, {"predicted"})
      BY <2>3, <3>2, BindsForward DEF Incomplete, K2, NoQ
    <3> QED  BY <2>3, <3>3, BindsDistinct DEF Continues, Forward, InOrder, K2, NoQ, DstatBooks, MM1Ready,
            ModelReady, queueing_imports, histogram_functions, Ready
  <2> QED  BY <2>1, <2>2, <2>3
<1>5. ASSUME MM1_comparison PROVE Continues("MM1")
  <2>1. Binds("MM1", 8, {"predicted", "mt_averages", "reqs", "avg", "hist_data"}, {}, {}, {"plt",
          "extract_percentiles"}, {}, {})
    BY <1>5 DEF MM1_comparison, Draw, Binds, Cell, Nothing, Empty, Entry, ++
  <2>2. Met(8, {"predicted", "mt_averages", "reqs", "avg", "hist_data"}, {}, {}, {"plt",
          "extract_percentiles"}, {})
    BY <2>1 DEF Met, Binds, Turn, InOrder, MM1Ready, ModelReady, queueing_imports,
            histogram_functions, Ready
  <2>3. Forward("MM1", 8, {}, {}, {})
    BY <2>1, <2>2, BindsForward DEF Incomplete, K2, NoQ
  <2> QED  BY <2>1, <2>3, BindsDistinct DEF Continues, Forward, InOrder, K2, NoQ, DstatBooks, MM1Ready,
          ModelReady, queueing_imports, histogram_functions, Ready
<1> QED
  BY <1>1, <1>2, <1>3, <1>4, <1>5 DEF MM1

\* MMm.ipynb binds what its later cells need.
LEMMA MMmInOrder ==
    ASSUME InOrder, Distinct, MMm
    PROVE  Continues("MMm")
<1>1. ASSUME MMm_functions PROVE Continues("MMm")
  <2>1. \/ Binds("MMm", 1, {}, queueing_imports \cup {"math"}, {}, {}, {}, {})
        \/ Binds("MMm", 2, {}, {"gather_requests"}, {}, {}, {}, {})
        \/ Binds("MMm", 3, {}, histogram_functions, {}, {}, {}, {})
    BY <1>1 DEF MMm_functions, queueing_functions, Import, Binds, Cell, Nothing, Empty, Entry, ++
  <2>2. CASE Binds("MMm", 1, {}, queueing_imports \cup {"math"}, {}, {}, {}, {})
    <3>2. Met(1, {}, queueing_imports \cup {"math"}, {}, {}, {})
      BY <2>2 DEF Met, Binds, Turn, InOrder, MMmReady, ModelReady, queueing_imports,
              histogram_functions, Ready
    <3>3. Forward("MMm", 1, queueing_imports \cup {"math"}, {}, {})
      BY <2>2, <3>2, BindsForward DEF Incomplete, K2, NoQ
    <3> QED  BY <2>2, <3>3, BindsDistinct DEF Continues, Forward, InOrder, K2, NoQ, DstatBooks, MMmReady,
            ModelReady, queueing_imports, histogram_functions, Ready
  <2>3. CASE Binds("MMm", 2, {}, {"gather_requests"}, {}, {}, {}, {})
    <3>2. Met(2, {}, {"gather_requests"}, {}, {}, {})
      BY <2>3 DEF Met, Binds, Turn, InOrder, MMmReady, ModelReady, queueing_imports,
              histogram_functions, Ready
    <3>3. Forward("MMm", 2, {"gather_requests"}, {}, {})
      BY <2>3, <3>2, BindsForward DEF Incomplete, K2, NoQ
    <3> QED  BY <2>3, <3>3, BindsDistinct DEF Continues, Forward, InOrder, K2, NoQ, DstatBooks, MMmReady,
            ModelReady, queueing_imports, histogram_functions, Ready
  <2>4. CASE Binds("MMm", 3, {}, histogram_functions, {}, {}, {}, {})
    <3>2. Met(3, {}, histogram_functions, {}, {}, {})
      BY <2>4 DEF Met, Binds, Turn, InOrder, MMmReady, ModelReady, queueing_imports,
              histogram_functions, Ready
    <3>3. Forward("MMm", 3, histogram_functions, {}, {})
      BY <2>4, <3>2, BindsForward DEF Incomplete, K2, NoQ
    <3> QED  BY <2>4, <3>3, BindsDistinct DEF Continues, Forward, InOrder, K2, NoQ, DstatBooks, MMmReady,
            ModelReady, queueing_imports, histogram_functions, Ready
  <2> QED  BY <2>1, <2>2, <2>3, <2>4
<1>2. ASSUME MMm_gather PROVE Continues("MMm")
  <2>1. Binds("MMm", 4, {}, {}, {}, histogram_functions \cup {"gather_requests", "os", "np"}, {},
          {"reqs", "hist_data"})
    BY <1>2 DEF MMm_gather, queueing_gather, Compute, Binds, Cell, Nothing, Empty, Entry, ++
  <2>2. Met(4, {}, {}, {}, histogram_functions \cup {"gather_requests", "os", "np"}, {})
    BY <2>1 DEF Met, Binds, Turn, InOrder, MMmReady, ModelReady, queueing_imports,
            histogram_functions, Ready
  <2>3. Forward("MMm", 4, {}, {}, {"reqs", "hist_data"})
    BY <2>1, <2>2, BindsForward DEF Incomplete, K2, NoQ
  <2> QED  BY <2>1, <2>3, BindsDistinct DEF Continues, Forward, InOrder, K2, NoQ, DstatBooks, MMmReady,
          ModelReady, queueing_imports, histogram_functions, Ready
<1>3. ASSUME MMm_averages PROVE Continues("MMm")
  <2>1. Binds("MMm", 5, {"reqs"}, {}, {}, {"gmws", "gmts", "cut", "dirfuncs"}, {}, {"avg",
          "mt_averages"})
    BY <1>3 DEF MMm_averages, queueing_averages, Compute, Binds, Cell, Nothing, Empty, Entry, ++
  <2>2. Met(5, {"reqs"}, {}, {}, {"gmws", "gmts", "cut", "dirfuncs"}, {})
    BY <2>1 DEF Met, Binds, Turn, InOrder, MMmReady, ModelReady, queueing_imports,
            histogram_functions, Ready
  <2>3. Forward("MMm", 5, {}, {}, {"avg", "mt_averages"})
    BY <2>1, <2>2, BindsForward DEF Incomplete, K2, NoQ
  <2> QED  BY <2>1, <2>3, BindsDistinct DEF Continues, Forward, InOrder, K2, NoQ, DstatBooks, MMmReady,
          ModelReady, queueing_imports, histogram_functions, Ready
<1>4. ASSUME MMm_formulas PROVE Continues("MMm")
  <2>1. Binds("MMm", 6, {"mt_averages", "reqs"}, {}, {}, {"math"}, {}, {"predicted"})
    BY <1>4 DEF MMm_formulas, Compute, Binds, Cell, Nothing, Empty, Entry, ++
  <2>2. Met(6, {"mt_averages", "reqs"}, {}, {}, {"math"}, {})
    BY <2>1 DEF Met, Binds, Turn, InOrder, MMmReady, ModelReady, queueing_imports,
            histogram_functions, Ready
  <2>3. Forward("MMm", 6, {}, {}, {"predicted"})
    BY <2>1, <2>2, BindsForward DEF Incomplete, K2, NoQ
  <2> QED  BY <2>1, <2>3, BindsDistinct DEF Continues, Forward, InOrder, K2, NoQ, DstatBooks, MMmReady,
          ModelReady, queueing_imports, histogram_functions, Ready
<1>5. ASSUME MMm_comparison PROVE Continues("MMm")
  <2>1. Binds("MMm", 7, {"predicted", "mt_averages", "reqs", "avg"}, {}, {}, {}, {}, {})
    BY <1>5 DEF MMm_comparison, Draw, Binds, Cell, Nothing, Empty, Entry, ++
  <2>2. Met(7, {"predicted", "mt_averages", "reqs", "avg"}, {}, {}, {}, {})
    BY <2>1 DEF Met, Binds, Turn, InOrder, MMmReady, ModelReady, queueing_imports,
            histogram_functions, Ready
  <2>3. Forward("MMm", 7, {}, {}, {})
    BY <2>1, <2>2, BindsForward DEF Incomplete, K2, NoQ
  <2> QED  BY <2>1, <2>3, BindsDistinct DEF Continues, Forward, InOrder, K2, NoQ, DstatBooks, MMmReady,
          ModelReady, queueing_imports, histogram_functions, Ready
<1> QED
  BY <1>1, <1>2, <1>3, <1>4, <1>5 DEF MMm

\* NetworkOfQueues.ipynb binds what its later cells need.
LEMMA NetworkOfQueuesInOrder ==
    ASSUME InOrder, Distinct, NetworkOfQueues
    PROVE  Continues(NoQ)
<1>1. ASSUME NetworkOfQueues_setup PROVE Continues(NoQ)
  <2>1. \/ Binds(NoQ, 1, {}, queueing_imports \cup {"math"}, {}, {}, {}, {})
        \/ Binds(NoQ, 2, {}, {"gather_requests"}, {}, {}, {}, {})
    BY <1>1 DEF NetworkOfQueues_setup, Import, Binds, Cell, Nothing, Empty, Entry, ++
  <2>2. CASE Binds(NoQ, 1, {}, queueing_imports \cup {"math"}, {}, {}, {}, {})
    <3>2. Met(1, {}, queueing_imports \cup {"math"}, {}, {}, {})
      BY <2>2 DEF Met, Binds, Turn, InOrder, NetworkReady, queueing_imports, NoQ, Ready
    <3>3. Forward(NoQ, 1, queueing_imports \cup {"math"}, {}, {})
      BY <2>2, <3>2, BindsForward DEF Incomplete, K2, NoQ
    <3> QED  BY <2>2, <3>3, BindsDistinct DEF Continues, Forward, InOrder, K2, NoQ, DstatBooks, NetworkReady,
            queueing_imports, NoQ, Ready
  <2>3. CASE Binds(NoQ, 2, {}, {"gather_requests"}, {}, {}, {}, {})
    <3>2. Met(2, {}, {"gather_requests"}, {}, {}, {})
      BY <2>3 DEF Met, Binds, Turn, InOrder, NetworkReady, queueing_imports, NoQ, Ready
    <3>3. Forward(NoQ, 2, {"gather_requests"}, {}, {})
      BY <2>3, <3>2, BindsForward DEF Incomplete, K2, NoQ
    <3> QED  BY <2>3, <3>3, BindsDistinct DEF Continues, Forward, InOrder, K2, NoQ, DstatBooks, NetworkReady,
            queueing_imports, NoQ, Ready
  <2> QED  BY <2>1, <2>2, <2>3
<1>2. ASSUME NetworkOfQueues_gather PROVE Continues(NoQ)
  <2>1. Binds(NoQ, 3, {}, {}, {}, {"gather_requests", "os"}, {}, {"reqs_mw1", "reqs_mw2"})
    BY <1>2 DEF NetworkOfQueues_gather, Compute, Binds, Cell, Nothing, Empty, Entry, ++
  <2>2. Met(3, {}, {}, {}, {"gather_requests", "os"}, {})
    BY <2>1 DEF Met, Binds, Turn, InOrder, NetworkReady, queueing_imports, NoQ, Ready
  <2>3. Forward(NoQ, 3, {}, {}, {"reqs_mw1", "reqs_mw2"})
    BY <2>1, <2>2, BindsForward DEF Incomplete, K2, NoQ
  <2> QED  BY <2>1, <2>3, BindsDistinct DEF Continues, Forward, InOrder, K2, NoQ, DstatBooks, NetworkReady,
          queueing_imports, NoQ, Ready
<1>3. ASSUME NetworkOfQueues_pings PROVE Continues(NoQ)
  <2>1. Binds(NoQ, 4, {}, {}, {}, {"os", "gmts", "pd"}, {}, {"avg_rtt_c1", "avg_rtt_c2"})
    BY <1>3 DEF NetworkOfQueues_pings, Compute, Binds, Cell, Nothing, Empty, Entry, ++
  <2>2. Met(4, {}, {}, {}, {"os", "gmts", "pd"}, {})
    BY <2>1 DEF Met, Binds, Turn, InOrder, NetworkReady, queueing_imports, NoQ, Ready
  <2>3. Forward(NoQ, 4, {}, {}, {"avg_rtt_c1", "avg_rtt_c2"})
    BY <2>1, <2>2, BindsForward DEF Incomplete, K2, NoQ
  <2> QED  BY <2>1, <2>3, BindsDistinct DEF Continues, Forward, InOrder, K2, NoQ, DstatBooks, NetworkReady,
          queueing_imports, NoQ, Ready
<1>4. ASSUME NetworkOfQueues_averages PROVE Continues(NoQ)
  <2>1. Binds(NoQ, 5, {}, {}, {}, {"gmws", "gmts", "cut", "dirfuncs"}, {}, {"avg", "mt_averages"})
    BY <1>4 DEF NetworkOfQueues_averages, Compute, Binds, Cell, Nothing, Empty, Entry, ++
  <2>2. Met(5, {}, {}, {}, {"gmws", "gmts", "cut", "dirfuncs"}, {})
    BY <2>1 DEF Met, Binds, Turn, InOrder, NetworkReady, queueing_imports, NoQ, Ready
  <2>3. Forward(NoQ, 5, {}, {}, {"avg", "mt_averages"})
    BY <2>1, <2>2, BindsForward DEF Incomplete, K2, NoQ
  <2> QED  BY <2>1, <2>3, BindsDistinct DEF Continues, Forward, InOrder, K2, NoQ, DstatBooks, NetworkReady,
          queueing_imports, NoQ, Ready
<1>5. ASSUME NetworkOfQueues_outputs PROVE Continues(NoQ)
  <2>1. Binds(NoQ, 6, {"reqs_mw1", "reqs_mw2", "avg_rtt_c1", "avg_rtt_c2", "mt_averages"}, {}, {},
          {}, {}, {})
    BY <1>5 DEF NetworkOfQueues_outputs, Draw, Binds, Cell, Nothing, Empty, Entry, ++
  <2>2. Met(6, {"reqs_mw1", "reqs_mw2", "avg_rtt_c1", "avg_rtt_c2", "mt_averages"}, {}, {}, {}, {})
    BY <2>1 DEF Met, Binds, Turn, InOrder, NetworkReady, queueing_imports, NoQ, Ready
  <2>3. Forward(NoQ, 6, {}, {}, {})
    BY <2>1, <2>2, BindsForward DEF Incomplete, K2, NoQ
  <2> QED  BY <2>1, <2>3, BindsDistinct DEF Continues, Forward, InOrder, K2, NoQ, DstatBooks, NetworkReady,
          queueing_imports, NoQ, Ready
<1> QED
  BY <1>1, <1>2, <1>3, <1>4, <1>5 DEF NetworkOfQueues

\* The notebooks whose cells fail bind names that are not modules.
Keeps(nb) == position' \in Int /\ Distinct' /\ notebook = nb /\ notebook' = nb

\* A cell of graphs_3_1.ipynb leaves each name bound to a value or to a module, whether it fails or not.
LEMMA Graphs31Keep ==
    ASSUME position \in Int, Distinct, graphs_3_1
    PROVE  Keeps("graphs_3_1")
<1> USE DEF Keeps, Distinct, Draw, Compute, Assign, Import, Turn, IsNext, Advance, Cell, Nothing, Empty, ++
<1>1. CASE graphs_3_1_setup
  BY <1>1 DEF graphs_3_1_setup
<1>2. CASE graphs_3_1_workloads
  BY <1>2 DEF graphs_3_1_workloads
<1>3. CASE graphs_3_1_summary
  BY <1>3 DEF graphs_3_1_summary
<1>4. CASE graphs_3_1_break_down_readOnly
  BY <1>4 DEF graphs_3_1_break_down_readOnly
<1>5. CASE graphs_3_1_queueLength
  BY <1>5 DEF graphs_3_1_queueLength
<1>6. CASE graphs_3_1_break_down_writeOnly
  BY <1>6 DEF graphs_3_1_break_down_writeOnly
<1> QED
  BY ONLY graphs_3_1, <1>1, <1>2, <1>3, <1>4, <1>5, <1>6 DEF graphs_3_1

\* A cell of graphs_3_2.ipynb leaves each name bound to a value or to a module, whether it fails or not.
LEMMA Graphs32Keep ==
    ASSUME position \in Int, Distinct, graphs_3_2
    PROVE  Keeps("graphs_3_2")
<1> USE DEF Keeps, Distinct, Draw, Compute, Assign, Import, Turn, IsNext, Advance, Cell, Nothing, Empty, ++
<1>1. CASE graphs_3_2_setup
  BY <1>1 DEF graphs_3_2_setup
<1>2. CASE graphs_3_2_workloads
  BY <1>2 DEF graphs_3_2_workloads
<1>3. CASE graphs_3_2_summary
  BY <1>3 DEF graphs_3_2_summary
<1>4. CASE graphs_3_2_break_down_writeOnly
  BY <1>4 DEF graphs_3_2_break_down_writeOnly
<1>5. CASE graphs_3_2_break_down_readOnly
  BY <1>5 DEF graphs_3_2_break_down_readOnly
<1>6. CASE graphs_3_2_queueLength
  BY <1>6 DEF graphs_3_2_queueLength
<1>7. CASE graphs_3_2_trace
  BY <1>7 DEF graphs_3_2_trace
<1> QED
  BY ONLY graphs_3_2, <1>1, <1>2, <1>3, <1>4, <1>5, <1>6, <1>7 DEF graphs_3_2

\* A cell of graph_3_2_rerun.ipynb leaves each name bound to a value or to a module, whether it fails or not.
LEMMA Graph32RerunKeep ==
    ASSUME position \in Int, Distinct, graph_3_2_rerun
    PROVE  Keeps("graph_3_2_rerun")
<1> USE DEF Keeps, Distinct, Draw, Compute, Assign, Import, Turn, IsNext, Advance, Cell, Nothing, Empty, ++
<1>1. CASE graph_3_2_rerun_setup
  BY <1>1 DEF graph_3_2_rerun_setup
<1>2. CASE graph_3_2_rerun_workloads
  BY <1>2 DEF graph_3_2_rerun_workloads
<1>3. CASE graph_3_2_rerun_summary
  BY <1>3 DEF graph_3_2_rerun_summary
<1>4. CASE graph_3_2_rerun_break_down_readOnly
  BY <1>4 DEF graph_3_2_rerun_break_down_readOnly
<1>5. CASE graph_3_2_rerun_break_down_writeOnly
  BY <1>5 DEF graph_3_2_rerun_break_down_writeOnly
<1>6. CASE graph_3_2_rerun_queueLength
  BY <1>6 DEF graph_3_2_rerun_queueLength
<1>7. CASE graph_3_2_rerun_trace
  BY <1>7 DEF graph_3_2_rerun_trace
<1> QED
  BY ONLY graph_3_2_rerun, <1>1, <1>2, <1>3, <1>4, <1>5, <1>6, <1>7 DEF graph_3_2_rerun

\* A cell of graphs_4.ipynb leaves each name bound to a value or to a module, whether it fails or not.
LEMMA Graphs4Keep ==
    ASSUME position \in Int, Distinct, graphs_4
    PROVE  Keeps("graphs_4")
<1> USE DEF Keeps, Distinct, Draw, Compute, Assign, Import, Turn, IsNext, Advance, Cell, Nothing, Empty, ++
<1>1. CASE graphs_4_setup
  BY <1>1 DEF graphs_4_setup
<1>2. CASE graphs_4_workload
  BY <1>2 DEF graphs_4_workload
<1>3. CASE graphs_4_summary
  BY <1>3 DEF graphs_4_summary
<1>4. CASE graphs_4_break_down
  BY <1>4 DEF graphs_4_break_down
<1>5. CASE graphs_4_rerun_break_down
  BY <1>5 DEF graphs_4_rerun_break_down
<1>6. CASE graphs_4_rerun_queueLength
  BY <1>6 DEF graphs_4_rerun_queueLength
<1>7. CASE graphs_4_trace
  BY <1>7 DEF graphs_4_trace
<1> QED
  BY ONLY graphs_4, <1>1, <1>2, <1>3, <1>4, <1>5, <1>6, <1>7 DEF graphs_4

\* A cell of histogram.ipynb leaves each name bound to a value or to a module, whether it fails or not.
LEMMA HistogramKeep ==
    ASSUME position \in Int, Distinct, histogram
    PROVE  Keeps("histogram")
<1> USE DEF Keeps, Distinct, Draw, Compute, Assign, Import, Turn, IsNext, Advance, Cell, Nothing, Empty, ++
<1>1. CASE histogram_functions_5
  BY <1>1 DEF HN, histogram_functions_5
<1>2. CASE sharded_histograms
  BY <1>2 DEF HN, sharded_histograms
<1>3. CASE nonsharded_histograms
  BY <1>3 DEF HN, nonsharded_histograms
<1>4. CASE total_histograms
  BY <1>4 DEF HN, total_histograms
<1>5. CASE percentile_tables
  BY <1>5 DEF HN, percentile_tables
<1>6. CASE plot_percentiles
  BY <1>6 DEF HN, plot_percentiles
<1>7. CASE gather_requests_5
  BY <1>7 DEF HN, gather_requests_5
<1>8. CASE gather_5_3
  BY <1>8 DEF HN, gather_5_3
<1>9. CASE plot_5_3
  BY <1>9 DEF HN, plot_5_3
<1>10. CASE gather_single_middlewares
  BY <1>10 DEF HN, gather_single_middlewares
<1>11. CASE plot_single_middlewares
  BY <1>11 DEF HN, plot_single_middlewares
<1>12. CASE single_client
  BY <1>12 DEF HN, single_client
<1>13. CASE gather_sharded
  BY <1>13 DEF HN, gather_sharded
<1>14. CASE plot_memcachedRTT
  BY <1>14 DEF HN, plot_memcachedRTT
<1>15. CASE plot_repetitions
  BY <1>15 DEF HN, plot_repetitions
<1>16. CASE plot_rerun
  BY <1>16 DEF HN, plot_rerun
<1>17. CASE gather_single_clients
  BY <1>17 DEF HN, gather_single_clients
<1>18. CASE plot_single_clients
  BY <1>18 DEF HN, plot_single_clients
<1> QED
  BY ONLY histogram, <1>1, <1>2, <1>3, <1>4, <1>5, <1>6, <1>7, <1>8, <1>9, <1>10, <1>11, <1>12,
    <1>13, <1>14, <1>15, <1>16, <1>17, <1>18 DEF histogram

\* Whatever the files hold and in whatever order cells are evaluated, the next cell of a complete notebook
\* finds the names that the cells before it bind.
LEMMA InOrderInvariant ==
    Spec => [](InOrder /\ Distinct)
<1>1. Init => InOrder /\ Distinct
  BY DEF Init, Closed, InOrder, Distinct, Empty, Incomplete, DstatBooks, K2, NoQ
<1>2. InOrder /\ Distinct /\ [Next]_kernel => InOrder' /\ Distinct'
  <2>1. SUFFICES ASSUME InOrder, Distinct, [Next]_kernel PROVE InOrder' /\ Distinct'
    OBVIOUS
  <2>2. CASE OpenNotebook
    <3>1. position' = 1 /\ globals' = Empty /\ imported' = {}
      BY <2>2 DEF OpenNotebook, Open
    <3> QED
      BY <3>1 DEF InOrder, Distinct, Empty, Ready, Graphs5Ready, BarChart3Ready, BarChart5Ready,
                  Analysis2kReady, ModelReady, MM1Ready, MMmReady, NetworkReady
  <2>3. CASE graphs_3_1 \/ graphs_3_2 \/ graph_3_2_rerun \/ graphs_4 \/ histogram
    <3>1. position \in Int
      BY <2>1 DEF InOrder
    <3>2. \E nb \in Incomplete : Keeps(nb)
      BY <2>1, <2>3, <3>1, Graphs31Keep, Graphs32Keep, Graph32RerunKeep, Graphs4Keep, HistogramKeep DEF
         Incomplete
    <3> QED  BY <3>2 DEF Keeps, Incomplete, InOrder, DstatBooks, K2, NoQ
  <2>4. CASE UNCHANGED kernel
    BY <2>1, <2>4 DEF kernel, InOrder, Distinct, Ready, Graphs5Ready, BarChart3Ready, BarChart5Ready,
                      Analysis2kReady, ModelReady, MM1Ready, MMmReady, NetworkReady
  <2>5. CASE graphs_5
    BY <2>1, <2>5, Graphs5InOrder DEF Continues
  <2>6. CASE barchart_3
    BY <2>1, <2>6, BarChart3InOrder DEF Continues
  <2>7. CASE barchart_5
    BY <2>1, <2>7, BarChart5InOrder DEF Continues
  <2>8. CASE dstat
    BY <2>1, <2>8, DstatInOrder
  <2>9. CASE analysis_2k
    BY <2>1, <2>9, Analysis2kInOrder DEF Continues
  <2>10. CASE MM1
    BY <2>1, <2>10, MM1InOrder DEF Continues
  <2>11. CASE MMm
    BY <2>1, <2>11, MMmInOrder DEF Continues
  <2>12. CASE NetworkOfQueues
    BY <2>1, <2>12, NetworkOfQueuesInOrder DEF Continues
  <2> QED
    BY <2>1, <2>2, <2>3, <2>4, <2>5, <2>6, <2>7, <2>8, <2>9, <2>10, <2>11, <2>12 DEF Next
<1> QED
  BY <1>1, <1>2, PTL DEF Spec

\* Whatever the files hold, no cell of a complete notebook needs a name that a later cell binds, and
\* no name is a value and a module at once.
THEOREM NotebooksRunThrough ==
    Spec => []RunsThrough
<1>1. InOrder /\ Distinct => RunsThrough
  BY DEF InOrder, Distinct, RunsThrough, Complete, Incomplete
<1> QED
  BY <1>1, InOrderInvariant, PTL

-----------------------------------------------------------------------------
(* The calendar of dstat.                                                  *)

\* Two numbers of two digits compare as their digits do, from left to right.
LEMMA DigitsCompare ==
    ASSUME NEW b \in Nat \ {0}, NEW k \in Int, NEW l \in Int, NEW s \in 0..(b - 1), NEW t \in 0..(b - 1)
    PROVE  k * b + s < l * b + t <=> k < l \/ (k = l /\ s < t)
<1>1. CASE k = l
  BY <1>1
<1>2. ASSUME NEW i \in Int, NEW j \in Int, i < j PROVE (i + 1) * b <= j * b
  <2>1. PICK d \in Nat : j = i + 1 + d
    <3>1. j - i - 1 \in Nat /\ j = i + 1 + (j - i - 1)
      BY <1>2
    <3> QED  BY <3>1
  <2>2. (i + 1 + d) * b = (i + 1) * b + d * b /\ d * b >= 0
    OBVIOUS
  <2>3. (i + 1) * b \in Int /\ d * b \in Int
    OBVIOUS
  <2> QED  BY <2>1, <2>2, <2>3
<1>3. CASE k < l
  <2>1. (k + 1) * b <= l * b /\ (k + 1) * b = k * b + b /\ k * b \in Int /\ l * b \in Int
    BY <1>2, <1>3
  <2> QED  BY <1>3, <2>1
<1>4. CASE l < k
  <2>1. (l + 1) * b <= k * b /\ (l + 1) * b = l * b + b /\ k * b \in Int /\ l * b \in Int
    BY <1>2, <1>4
  <2> QED  BY <1>4, <2>1
<1> QED
  BY <1>1, <1>3, <1>4

\* A time of the calendar.
IsStamp(time) == time \in (0..(DaysPerMonth - 1)) \X Nat \X (0..(SecondsPerDay - 1))

\* The day of a time, counted through the months.
DayOf(time) == time[2] * DaysPerMonth + time[1]

\* What is known of a time as a number.
LEMMA ClockFacts ==
    ASSUME NEW time, IsStamp(time)
    PROVE  /\ time[1] \in 0..(DaysPerMonth - 1) /\ time[2] \in Nat /\ time[3] \in 0..(SecondsPerDay - 1)
           /\ DayOf(time) \in Nat /\ Clock(time) = DayOf(time) * SecondsPerDay + time[3]
           /\ Clock(time) \in Nat
<1>1. time[1] \in 0..(DaysPerMonth - 1) /\ time[2] \in Nat /\ time[3] \in 0..(SecondsPerDay - 1)
  BY DEF IsStamp
<1>2. DaysPerMonth \in Nat /\ SecondsPerDay \in Nat
  BY CalendarAssumption
<1>3. time[2] * DaysPerMonth \in Nat
  BY <1>1, <1>2
<1>4. DayOf(time) \in Nat
  BY <1>1, <1>3 DEF DayOf
<1>5. DayOf(time) * SecondsPerDay \in Nat
  BY <1>2, <1>4
<1>6. Clock(time) = DayOf(time) * SecondsPerDay + time[3]
  BY DEF Clock, strptime, DayOf
<1> QED
  BY <1>1, <1>4, <1>5, <1>6

\* A number of seconds is the clock of its text.
LEMMA ClockOfText ==
    ASSUME NEW t \in Nat
    PROVE  IsStamp(strftime(t)) /\ Clock(strftime(t)) = t
<1>1. PICK day \in Nat, s \in Nat : day = t \div SecondsPerDay /\ s = t % SecondsPerDay
                                    /\ s < SecondsPerDay /\ t = SecondsPerDay * day + s
  BY CalendarAssumption, RemainderFacts
<1>2. PICK month \in Nat, d \in Nat : month = day \div DaysPerMonth /\ d = day % DaysPerMonth
                                      /\ d < DaysPerMonth /\ day = DaysPerMonth * month + d
  BY CalendarAssumption, RemainderFacts
<1>3. strftime(t) = <<d, month, s>>
  BY <1>1, <1>2 DEF strftime
<1>4. DaysPerMonth \in Nat /\ SecondsPerDay \in Nat
  BY CalendarAssumption
<1>5. IsStamp(<<d, month, s>>)
  BY <1>1, <1>2, <1>4 DEF IsStamp
<1>6. Clock(<<d, month, s>>) = (month * DaysPerMonth + d) * SecondsPerDay + s
  BY DEF Clock, strptime
<1>7. month * DaysPerMonth + d = day
  BY <1>2, <1>4
<1>8. day * SecondsPerDay + s = t
  BY <1>1, <1>4
<1> QED
  BY <1>3, <1>5, <1>6, <1>7, <1>8

\* Texts of one month compare as their clocks do.
LEMMA OneMonthCompares ==
    ASSUME NEW s, NEW t, IsStamp(s), IsStamp(t), s[2] = t[2]
    PROVE  NotAfter(s, t) <=> Clock(s) <= Clock(t)
<1>1. /\ s[1] \in 0..(DaysPerMonth - 1) /\ s[2] \in Nat /\ s[3] \in 0..(SecondsPerDay - 1)
      /\ t[1] \in 0..(DaysPerMonth - 1) /\ t[3] \in 0..(SecondsPerDay - 1)
      /\ s = <<s[1], s[2], s[3]>> /\ t = <<t[1], t[2], t[3]>>
      /\ DaysPerMonth \in Nat \ {0} /\ SecondsPerDay \in Nat \ {0}
  BY CalendarAssumption DEF IsStamp
<1>2. /\ DayOf(s) \in Nat /\ Clock(s) = DayOf(s) * SecondsPerDay + s[3] /\ Clock(s) \in Nat
      /\ DayOf(t) \in Nat /\ Clock(t) = DayOf(t) * SecondsPerDay + t[3] /\ Clock(t) \in Nat
  BY ClockFacts
<1>3. PICK m \in Nat : DayOf(s) = m + s[1] /\ DayOf(t) = m + t[1]
  <2>1. s[2] * DaysPerMonth \in Nat
    BY <1>1
  <2> QED  BY <2>1 DEF DayOf
<1>4. DayOf(s) = DayOf(t) <=> s[1] = t[1]
  BY <1>1, <1>3
<1>5. Clock(t) < Clock(s) <=> t[1] < s[1] \/ (t[1] = s[1] /\ t[3] < s[3])
  <2>1. Clock(t) < Clock(s) <=> DayOf(t) < DayOf(s) \/ (DayOf(t) = DayOf(s) /\ t[3] < s[3])
    BY <1>1, <1>2, DigitsCompare
  <2>2. DayOf(t) < DayOf(s) <=> t[1] < s[1]
    BY <1>1, <1>3
  <2> QED  BY <2>1, <2>2, <1>4
<1>6. Before(s, t) <=> s[1] < t[1] \/ (s[1] = t[1] /\ s[3] < t[3])
  <2>1. Before(s, t) <=> \/ s[1] < t[1]
                         \/ s[2] < t[2] /\ s[1] = t[1]
                         \/ s[3] < t[3] /\ s[1] = t[1] /\ s[2] = t[2]
    <3>1. 1..(1 - 1) = {} /\ 1..(2 - 1) = {1} /\ 1..(3 - 1) = {1, 2}
      OBVIOUS
    <3> QED  BY <3>1 DEF Before
  <2> QED  BY <1>1, <2>1
<1>7. s = t <=> s[1] = t[1] /\ s[3] = t[3]
  BY <1>1
<1>8. Clock(s) <= Clock(t) <=> ~(Clock(t) < Clock(s))
  BY <1>2
<1> QED
  BY <1>1, <1>5, <1>6, <1>7, <1>8 DEF NotAfter

\* Of two clocks the later one is not of an earlier month, nor of an earlier day of the month.
LEMMA ClockOrder ==
    ASSUME NEW s, NEW t, IsStamp(s), IsStamp(t), Clock(s) <= Clock(t)
    PROVE  s[2] < t[2] \/ (s[2] = t[2] /\ s[1] <= t[1])
<1>1. /\ DaysPerMonth \in Nat \ {0} /\ SecondsPerDay \in Nat \ {0}
      /\ s[1] \in 0..(DaysPerMonth - 1) /\ s[2] \in Nat /\ s[3] \in 0..(SecondsPerDay - 1)
      /\ t[1] \in 0..(DaysPerMonth - 1) /\ t[2] \in Nat /\ t[3] \in 0..(SecondsPerDay - 1)
  BY ClockFacts, CalendarAssumption
<1>2. /\ DayOf(s) \in Nat /\ Clock(s) = DayOf(s) * SecondsPerDay + s[3] /\ Clock(s) \in Nat
      /\ DayOf(t) \in Nat /\ Clock(t) = DayOf(t) * SecondsPerDay + t[3] /\ Clock(t) \in Nat
  BY ClockFacts
<1>3. ~(DayOf(t) < DayOf(s))
  <2>1. DayOf(t) * SecondsPerDay + t[3] < DayOf(s) * SecondsPerDay + s[3]
            <=> DayOf(t) < DayOf(s) \/ (DayOf(t) = DayOf(s) /\ t[3] < s[3])
    BY <1>1, <1>2, DigitsCompare
  <2> QED  BY <1>2, <2>1
<1>4. t[2] * DaysPerMonth + t[1] < s[2] * DaysPerMonth + s[1] <=> t[2] < s[2] \/ (t[2] = s[2] /\ t[1] < s[1])
  <2>1. \A k, l \in Int : \A i, j \in 0..(DaysPerMonth - 1) :
            k * DaysPerMonth + i < l * DaysPerMonth + j <=> k < l \/ (k = l /\ i < j)
    BY CalendarAssumption, DigitsCompare
  <2>2. t[2] \in Int /\ s[2] \in Int /\ t[1] \in 0..(DaysPerMonth - 1) /\ s[1] \in 0..(DaysPerMonth - 1)
    BY <1>1
  <2> QED  BY ONLY <2>1, <2>2
<1> QED
  BY <1>1, <1>3, <1>4 DEF DayOf

\* A time between two times of a month is of that month.
LEMMA MonthBetween ==
    ASSUME NEW s, NEW t, NEW u, IsStamp(s), IsStamp(t), IsStamp(u), s[2] = u[2],
           Clock(s) <= Clock(t), Clock(t) <= Clock(u)
    PROVE  t[2] = s[2] /\ s[1] <= t[1] /\ t[1] <= u[1]
<1>1. s[2] \in Nat /\ t[2] \in Nat /\ u[2] \in Nat
  BY ClockFacts
<1>2. s[2] < t[2] \/ (s[2] = t[2] /\ s[1] <= t[1])
  BY ClockOrder
<1>3. t[2] < u[2] \/ (t[2] = u[2] /\ t[1] <= u[1])
  BY ClockOrder
<1> QED
  BY <1>1, <1>2, <1>3

\* A time whose day is behind that of another, in a later month, is almost a month from it.
LEMMA LaterMonthIsFar ==
    ASSUME NEW s, NEW t, IsStamp(s), IsStamp(t), s[2] < t[2], s[1] <= t[1]
    PROVE  Clock(t) - Clock(s) >= (DaysPerMonth - 1) * SecondsPerDay
<1>1. /\ DaysPerMonth \in Nat \ {0} /\ SecondsPerDay \in Nat \ {0}
      /\ \A x \in {s, t} :
            /\ x[1] \in 0..(DaysPerMonth - 1) /\ x[2] \in Nat /\ x[3] \in 0..(SecondsPerDay - 1)
            /\ DayOf(x) \in Nat /\ Clock(x) = DayOf(x) * SecondsPerDay + x[3] /\ Clock(x) \in Nat
            /\ DayOf(x) = x[2] * DaysPerMonth + x[1]
  BY ClockFacts, CalendarAssumption DEF DayOf
<1>2. DayOf(t) >= DayOf(s) + DaysPerMonth
  <2>1. PICK d \in Nat : t[2] = s[2] + 1 + d
    <3>1. t[2] - s[2] - 1 \in Nat /\ t[2] = s[2] + 1 + (t[2] - s[2] - 1)
      BY <1>1
    <3> QED  BY <3>1
  <2>2. PICK m \in Nat, e \in Nat : m = s[2] * DaysPerMonth /\ e = d * DaysPerMonth
    BY <1>1
  <2>3. t[2] * DaysPerMonth = m + DaysPerMonth + e
    <3>1. (s[2] + 1 + d) * DaysPerMonth = s[2] * DaysPerMonth + DaysPerMonth + d * DaysPerMonth
      BY <1>1
    <3> QED  BY <2>1, <2>2, <3>1
  <2> QED  BY <1>1, <2>2, <2>3
<1>3. PICK k \in Nat : DayOf(t) = DayOf(s) + DaysPerMonth + k
  <2>1. DayOf(t) - DayOf(s) - DaysPerMonth \in Nat
        /\ DayOf(t) = DayOf(s) + DaysPerMonth + (DayOf(t) - DayOf(s) - DaysPerMonth)
    BY <1>1, <1>2
  <2> QED  BY <2>1
<1>4. PICK a \in Nat, b \in Nat, c \in Nat :
          a = DayOf(s) * SecondsPerDay /\ b = DaysPerMonth * SecondsPerDay /\ c = k * SecondsPerDay
  BY <1>1
<1>5. DayOf(t) * SecondsPerDay = a + b + c
  <2>1. (DayOf(s) + DaysPerMonth + k) * SecondsPerDay
            = DayOf(s) * SecondsPerDay + DaysPerMonth * SecondsPerDay + k * SecondsPerDay
    BY <1>1
  <2> QED  BY <1>3, <1>4, <2>1
<1>6. (DaysPerMonth - 1) * SecondsPerDay = b - SecondsPerDay
  BY <1>1, <1>4
<1> QED
  BY <1>1, <1>4, <1>5, <1>6

-----------------------------------------------------------------------------
(* What is left of a repetition when its ends are truncated.               *)

\* A set of numbers that is finite and not empty has a smallest and a largest one.
LEMMA MinAndMax ==
    ASSUME NEW S \in SUBSET Int, IsFiniteSet(S), S # {}
    PROVE  /\ Min(S) \in S /\ \A x \in S : Min(S) <= x
           /\ Max(S) \in S /\ \A x \in S : x <= Max(S)
<1>1. PICK F : F = {T \in SUBSET S : T # {} => /\ \E a \in T : \A x \in T : a <= x
                                              /\ \E a \in T : \A x \in T : x <= a}
  OBVIOUS
<1>2. {} \in F
  BY <1>1
<1>3. ASSUME NEW T \in SUBSET S, NEW y \in S \ T, T \in F PROVE T \union {y} \in F
  <2>1. CASE T = {}
    BY <1>1, <2>1
  <2>2. CASE T # {}
    <3>1. PICK a \in T, b \in T : \A x \in T : a <= x /\ x <= b
      BY <1>1, <1>3, <2>2
    <3>2. \E c \in T \union {y} : \A x \in T \union {y} : c <= x
      BY <3>1
    <3>3. \E c \in T \union {y} : \A x \in T \union {y} : x <= c
      BY <3>1
    <3> QED  BY <1>1, <3>2, <3>3
  <2> QED  BY <2>1, <2>2
<1>4. S \in F
  BY <1>2, <1>3, FiniteInduction
<1> QED
  BY <1>1, <1>4 DEF Min, Max

\* The clocks of the samples of a file.
LEMMA SpanFacts ==
    ASSUME NEW file, IsFiniteSet(file), file # {}, \A s \in file : IsSample(s)
    PROVE  /\ Span(file) \subseteq Nat /\ IsFiniteSet(Span(file)) /\ Span(file) # {}
           /\ Min(Span(file)) \in Span(file) /\ \A x \in Span(file) : Min(Span(file)) <= x
           /\ Max(Span(file)) \in Span(file) /\ \A x \in Span(file) : x <= Max(Span(file))
<1>1. \A s \in file : IsStamp(s.time)
  BY DEF IsSample, IsStamp
<1>2. Span(file) \subseteq Nat /\ Span(file) # {}
  BY <1>1, ClockFacts DEF Span
<1>3. IsFiniteSet(Span(file))
  <2>1. PICK b : b = [s \in file |-> Clock(s.time)]
    OBVIOUS
  <2>2. (\A s \in file : b[s] \in Span(file)) /\ (\A t \in Span(file) : \E s \in file : b[s] = t)
    BY <2>1 DEF Span
  <2> QED  BY <2>2, FiniteImage
<1> QED
  BY <1>2, <1>3, MinAndMax

\* In one month the times that extract_startend_times finds are the first and the last, truncated.
LEMMA TimesFound ==
    ASSUME NEW file, IsFiniteSet(file), file # {}, \A s \in file : IsSample(s), InOneMonth(file),
           NEW truncate_sec \in Nat, Min(Span(file)) + truncate_sec <= Max(Span(file)) - truncate_sec
    PROVE  \E first \in Stamps(file), last \in Stamps(file) :
              /\ IsStamp(first) /\ IsStamp(last) /\ first[2] = last[2]
              /\ Clock(first) = Min(Span(file)) /\ Clock(last) = Max(Span(file))
              /\ extract_startend_times(file, truncate_sec)
                    = <<strftime(Clock(first) + truncate_sec), strftime(Clock(last) - truncate_sec)>>
<1>1. \A t \in Stamps(file) : IsStamp(t) /\ Clock(t) \in Span(file)
  BY DEF IsSample, IsStamp, Stamps, Span
<1>2. \A s, t \in Stamps(file) : s[2] = t[2]
  <2>1. PICK M : M = {s.time[2] : s \in file}
    OBVIOUS
  <2>2. PICK month : M = {month}
    <3>1. Cardinality(M) = 1
      BY <2>1 DEF InOneMonth
    <3>2. IsFiniteSet(M)
      <4>1. PICK b : b = [s \in file |-> s.time[2]]
        OBVIOUS
      <4>2. (\A s \in file : b[s] \in M) /\ (\A t \in M : \E s \in file : b[s] = t)
        BY <2>1, <4>1
      <4> QED  BY <4>2, FiniteImage
    <3> QED  BY <3>1, <3>2, FS_Singleton
  <2> QED  BY <2>1, <2>2 DEF Stamps
<1>3. \A s, t \in Stamps(file) : NotAfter(s, t) <=> Clock(s) <= Clock(t)
  BY <1>1, <1>2, OneMonthCompares
<1>4. PICK a \in Stamps(file), b \in Stamps(file) : Clock(a) = Min(Span(file)) /\ Clock(b) = Max(Span(file))
  <2>1. Min(Span(file)) \in Span(file) /\ Max(Span(file)) \in Span(file)
    BY SpanFacts
  <2>2. \A x \in Span(file) : \E t \in Stamps(file) : Clock(t) = x
    BY DEF Span, Stamps
  <2> QED  BY <2>1, <2>2
<1>5. \A t \in Stamps(file) : NotAfter(a, t) /\ NotAfter(t, b)
  BY <1>1, <1>3, <1>4, SpanFacts
<1>6. PICK first : first = CHOOSE s \in Stamps(file) : \A t \in Stamps(file) : NotAfter(s, t)
  OBVIOUS
<1>7. PICK last : last = CHOOSE s \in Stamps(file) : \A t \in Stamps(file) : NotAfter(t, s)
  OBVIOUS
<1>8. first \in Stamps(file) /\ \A t \in Stamps(file) : NotAfter(first, t)
  BY <1>4, <1>5, <1>6
<1>9. last \in Stamps(file) /\ \A t \in Stamps(file) : NotAfter(t, last)
  BY <1>4, <1>5, <1>7
<1>10. Clock(first) = Min(Span(file)) /\ Clock(last) = Max(Span(file))
  <2>1. Clock(first) <= Clock(a) /\ Clock(b) <= Clock(last)
    BY <1>3, <1>4, <1>8, <1>9
  <2>2. Clock(a) <= Clock(first) /\ Clock(last) <= Clock(b)
    BY <1>1, <1>4, <1>8, <1>9, SpanFacts
  <2>3. Clock(a) \in Nat /\ Clock(b) \in Nat /\ Clock(first) \in Nat /\ Clock(last) \in Nat
    BY <1>1, <1>4, <1>8, <1>9, ClockFacts
  <2> QED  BY <1>4, <2>1, <2>2, <2>3
<1>11. extract_startend_times(file, truncate_sec)
            = <<strftime(Clock(first) + truncate_sec), strftime(Clock(last) - truncate_sec)>>
  BY <1>6, <1>7 DEF extract_startend_times, Clock
<1> QED
  BY <1>1, <1>2, <1>8, <1>9, <1>10, <1>11

\* The samples between these times are those that were taken inside the truncated repetition.
LEMMA ReadWithin ==
    ASSUME NEW csv_file, NEW rep_file, NEW truncate_sec \in {0, TruncateTen, TruncateFive},
           Sampled(csv_file, rep_file), Sampled(rep_file, rep_file), InOneMonth(rep_file)
    PROVE  read_dstat_from_server(csv_file, extract_startend_times(rep_file, truncate_sec))
              = MeansOf(Within(csv_file, rep_file, truncate_sec))
<1>1. truncate_sec \in Nat
  BY TruncateAssumption
<1>2. /\ IsFiniteSet(rep_file) /\ \A s \in rep_file : IsSample(s)
      /\ \A s \in csv_file : IsSample(s)
      /\ Within(csv_file, rep_file, truncate_sec) # {} /\ Within(rep_file, rep_file, truncate_sec) # {}
  BY DEF Sampled
<1>3. rep_file # {}
  BY <1>2 DEF Within
<1>4. Min(Span(rep_file)) \in Nat /\ Max(Span(rep_file)) \in Nat
  BY <1>2, <1>3, SpanFacts
<1>5. Min(Span(rep_file)) + truncate_sec <= Max(Span(rep_file)) - truncate_sec
  <2>1. PICK s \in rep_file : /\ Min(Span(rep_file)) + truncate_sec <= Clock(s.time)
                              /\ Clock(s.time) <= Max(Span(rep_file)) - truncate_sec
    BY <1>2 DEF Within
  <2>2. Clock(s.time) \in Nat
    BY <1>2, ClockFacts DEF IsSample, IsStamp
  <2> QED  BY <1>1, <1>4, <2>1, <2>2
<1>6. PICK first \in Stamps(rep_file), last \in Stamps(rep_file) :
              /\ IsStamp(first) /\ IsStamp(last) /\ first[2] = last[2]
              /\ Clock(first) = Min(Span(rep_file)) /\ Clock(last) = Max(Span(rep_file))
              /\ extract_startend_times(rep_file, truncate_sec)
                    = <<strftime(Clock(first) + truncate_sec), strftime(Clock(last) - truncate_sec)>>
  BY <1>1, <1>2, <1>3, <1>5, TimesFound
<1>7. PICK start, end : start = strftime(Clock(first) + truncate_sec) /\ end = strftime(Clock(last) - truncate_sec)
  OBVIOUS
<1>8. /\ IsStamp(start) /\ Clock(start) = Clock(first) + truncate_sec
      /\ IsStamp(end) /\ Clock(end) = Clock(last) - truncate_sec
  <2>1. Clock(first) + truncate_sec \in Nat /\ Clock(last) - truncate_sec \in Nat
    BY <1>1, <1>4, <1>5, <1>6
  <2> QED  BY <1>7, <2>1, ClockOfText
<1>9. /\ Clock(first) \in Nat /\ Clock(last) \in Nat
      /\ Clock(first) <= Clock(start) /\ Clock(start) <= Clock(end) /\ Clock(end) <= Clock(last)
  BY <1>1, <1>4, <1>5, <1>6, <1>8
<1>10. /\ start[2] = first[2] /\ first[1] <= start[1] /\ end[2] = first[2] /\ end[1] <= last[1]
  <2>1. Clock(start) <= Clock(last) /\ Clock(first) <= Clock(end)
    BY <1>1, <1>8, <1>9
  <2>2. start[2] = first[2] /\ first[1] <= start[1]
    BY <1>6, <1>8, <1>9, <2>1, MonthBetween
  <2>3. end[2] = first[2] /\ end[1] <= last[1]
    BY <1>6, <1>8, <1>9, <2>1, MonthBetween
  <2> QED  BY <2>2, <2>3
<1>11. ASSUME NEW s \in csv_file
       PROVE  NotAfter(start, s.time) /\ NotAfter(s.time, end)
                <=> Clock(start) <= Clock(s.time) /\ Clock(s.time) <= Clock(end)
  <2>1. PICK t : t = s.time /\ IsStamp(t)
    BY <1>2 DEF IsSample, IsStamp
  <2>2. /\ first[1] \in Nat /\ first[2] \in Nat /\ last[1] \in Nat /\ start[1] \in Nat /\ end[1] \in Nat
        /\ t[1] \in Nat /\ t[2] \in Nat /\ Clock(t) \in Nat
    BY <1>6, <1>8, <2>1, ClockFacts
  <2>3. CASE t[2] = first[2]
    BY <1>8, <1>10, <2>1, <2>3, OneMonthCompares
  <2>4. CASE t[2] # first[2]
    <3>1. ~(Clock(start) <= Clock(t) /\ Clock(t) <= Clock(end))
      BY <1>8, <1>10, <2>1, <2>4, MonthBetween
    <3>2. /\ Clock(t) - Clock(first) < (DaysPerMonth - 1) * SecondsPerDay
          /\ Clock(last) - Clock(t) < (DaysPerMonth - 1) * SecondsPerDay
      <4>1. PICK D \in Int : D = (DaysPerMonth - 1) * SecondsPerDay
        BY CalendarAssumption
      <4>2. \A r \in Stamps(rep_file) : Abs(Clock(t) - Clock(r)) < D
        BY <2>1, <4>1 DEF Sampled, Stamps
      <4>3. Abs(Clock(t) - Clock(first)) < D /\ Abs(Clock(t) - Clock(last)) < D
        BY <4>2
      <4> QED  BY <1>9, <2>2, <4>1, <4>3 DEF Abs
    <3>3. PICK D \in Int : D = (DaysPerMonth - 1) * SecondsPerDay
      BY CalendarAssumption
    <3>4. ASSUME NotAfter(start, t), NotAfter(t, end) PROVE FALSE
      <4>1. start[1] <= t[1] /\ t[1] <= end[1]
        <5>1. \A i \in 1..(1 - 1) : FALSE
          OBVIOUS
        <5> QED  BY <2>2, <3>4 DEF NotAfter, Before
      <4>2. CASE first[2] < t[2]
        <5>1. first[1] <= t[1]
          BY <1>10, <2>2, <4>1
        <5>2. Clock(t) - Clock(first) >= D
          BY <1>6, <2>1, <3>3, <4>2, <5>1, LaterMonthIsFar
        <5> QED  BY <1>9, <2>2, <3>2, <3>3, <5>2
      <4>3. CASE t[2] < first[2]
        <5>1. t[1] <= last[1] /\ t[2] < last[2]
          BY <1>6, <1>10, <2>2, <4>1, <4>3
        <5>2. Clock(last) - Clock(t) >= D
          BY <1>6, <2>1, <3>3, <5>1, LaterMonthIsFar
        <5> QED  BY <1>9, <2>2, <3>2, <3>3, <5>2
      <4> QED  BY <2>2, <2>4, <4>2, <4>3
    <3> QED  BY <2>1, <3>1, <3>4
  <2> QED  BY <2>3, <2>4
<1>12. {s \in csv_file : NotAfter(start, s.time) /\ NotAfter(s.time, end)} = Within(csv_file, rep_file, truncate_sec)
  BY <1>6, <1>8, <1>11 DEF Within
<1>13. PICK times : times = extract_startend_times(rep_file, truncate_sec) /\ times[1] = start /\ times[2] = end
  BY <1>6, <1>7
<1> QED
  BY <1>12, <1>13 DEF read_dstat_from_server

-----------------------------------------------------------------------------
(* The rows of the tables of dstat.                                        *)

Truncations == {0, TruncateTen, TruncateFive}

ColumnOf(y) == IF y = "load" THEN "idl" ELSE y

\* The means of a column on each machine in each repetition, of the samples inside it.
MeansIn(file, repFile, all, truncate_sec, column) ==
    [x \in all |-> Mean([s \in Within(file[x], repFile[x], truncate_sec) |-> Whole(s[column])])]

\* The number that DstatInsideTheRun expects.
Expected(means, reps, y) ==
    IF y = "load" THEN Minus(Whole(100), Mean(means)) ELSE Over(Total(means), Whole(Cardinality(reps)))

\* The mean of a column over samples is a fraction.
LEMMA MeanInside ==
    ASSUME NEW file, NEW repFile, NEW truncate_sec \in Truncations, Sampled(file, repFile),
           NEW column \in {"idl", "recv", "send"}
    PROVE  IsRatio(Mean([s \in Within(file, repFile, truncate_sec) |-> Whole(s[column])]))
<1>1. PICK S : S = Within(file, repFile, truncate_sec)
  OBVIOUS
<1>2. S \subseteq file /\ S # {} /\ IsFiniteSet(file) /\ \A s \in file : IsSample(s)
  BY <1>1 DEF Sampled, Within, Truncations
<1>3. IsFiniteSet(S)
  BY <1>2, FS_Subset
<1>4. PICK n : n = [s \in S |-> s[column]]
  OBVIOUS
<1>5. IntegersOn(n, S)
  BY <1>2, <1>4 DEF IsSample, IntegersOn
<1>6. PICK f : f = [s \in S |-> Whole(s[column])]
  OBVIOUS
<1>7. DOMAIN f = S /\ \A x \in S : f[x] = Whole(n[x])
  BY <1>4, <1>6
<1> QED
  BY <1>1, <1>2, <1>3, <1>5, <1>6, <1>7, MeanOfWholes

\* The data of a table hold the means over its repetitions J of the metrics of its machines I,
\* which are made of the means idle and traffic.
TableOf(data, metrics, idle, traffic, I, J, column) ==
    /\ IsFiniteSet(I) /\ I # {} /\ IsFiniteSet(J) /\ J # {}
    /\ DOMAIN idle = I \X J /\ \A x \in I \X J : IsRatio(idle[x])
    /\ DOMAIN traffic = I \X J /\ \A x \in I \X J : IsRatio(traffic[x])
    /\ column \in {"recv", "send"}
    /\ \A i \in I : /\ DOMAIN metrics[i] = J
                    /\ \A j \in J : /\ metrics[i][j][column] = traffic[<<i, j>>]
                                    /\ metrics[i][j].load = Minus(Whole(100), idle[<<i, j>>])
    /\ data = [i \in I |-> OverReps(metrics[i])]

RowIs(data, idle, traffic, J, column) ==
    /\ aggregate_dstat(data)[column] = Expected(traffic, J, column)
    /\ aggregate_dstat(data).load = Expected(idle, J, "load")

\* What aggregate_dstat makes of the metrics of machines and repetitions.
LEMMA AggregatedRow ==
    ASSUME NEW I, NEW J, NEW idle, NEW traffic, NEW column, NEW metrics, NEW data,
           TableOf(data, metrics, idle, traffic, I, J, column)
    PROVE  RowIs(data, idle, traffic, J, column)
<1> /\ IsFiniteSet(I) /\ I # {} /\ IsFiniteSet(J) /\ J # {}
    /\ DOMAIN idle = I \X J /\ \A x \in I \X J : IsRatio(idle[x])
    /\ DOMAIN traffic = I \X J /\ \A x \in I \X J : IsRatio(traffic[x])
    /\ column \in {"recv", "send"} /\ data = [i \in I |-> OverReps(metrics[i])]
  BY DEF TableOf
<1> \A i \in I : /\ DOMAIN metrics[i] = J
                 /\ \A j \in J : /\ metrics[i][j][column] = traffic[<<i, j>>]
                                 /\ metrics[i][j].load = Minus(Whole(100), idle[<<i, j>>])
  BY DEF TableOf
<1>1. IsFiniteSet(I \X J) /\ I \X J # {}
  <2>1. PICK i \in I, j \in J : TRUE
    OBVIOUS
  <2>2. <<i, j>> \in I \X J
    OBVIOUS
  <2> QED  BY <2>2, SizeOfProduct
<1>2. PICK m : m = [i \in I |-> Mean([j \in J |-> metrics[i][j][column]])]
  OBVIOUS
<1>3. PICK lines : lines = [i \in I |-> [j \in J |-> metrics[i][j][column]]]
  OBVIOUS
<1>4. \A i \in I : DOMAIN lines[i] = J /\ \A j \in J : lines[i][j] = traffic[<<i, j>>]
  BY <1>3
<1>5. /\ \A i \in I : IsRatio(m[i])
      /\ Total(m) = Over(Total(traffic), Whole(Cardinality(J)))
  <2>1. DOMAIN lines = I /\ DOMAIN m = I /\ \A i \in I : m[i] = Mean(lines[i])
    BY <1>2, <1>3
  <2>2. MeansOfLines(m, lines, traffic, I, J)
    BY <1>4, <2>1 DEF MeansOfLines
  <2>3. TogetherAs(m, traffic, I, J)
    BY <2>2, TotalOfMeans
  <2> QED  BY ONLY <2>3 DEF TogetherAs
<1>6. \A i \in I : data[i][column] = m[i]
  BY <1>2 DEF OverReps
<1>7. aggregate_dstat(data)[column] = Total(m)
  <2>1. \A i \in I : IsFraction(m[i])
    BY <1>5, RatioIsFraction DEF IsRatio
  <2>2. {i \in DOMAIN data : IsFraction(data[i][column])} = I
    BY <1>6, <2>1
  <2>3. [i \in {k \in DOMAIN data : IsFraction(data[k][column])} |-> data[i][column]] = m
    BY <1>2, <1>6, <2>2
  <2>4. CASE column = "recv"
    BY <2>3, <2>4 DEF aggregate_dstat
  <2>5. CASE column = "send"
    BY <2>3, <2>5 DEF aggregate_dstat
  <2> QED  BY <2>4, <2>5
<1>8. PICK rest : rest = [x \in I \X J |-> Minus(Whole(100), idle[x])]
  OBVIOUS
<1>9. (\A x \in I \X J : IsRatio(rest[x])) /\ Mean(rest) = Minus(Whole(100), Mean(idle))
  <2>1. PICK c \in Int : c = 100
    OBVIOUS
  <2>2. PICK S : S = I \X J
    OBVIOUS
  <2>3. DOMAIN rest = S /\ \A x \in S : rest[x] = Minus(Whole(c), idle[x])
    BY <1>8, <2>1, <2>2
  <2>4. IsFiniteSet(S) /\ S # {} /\ DOMAIN idle = S /\ \A x \in S : IsRatio(idle[x])
    BY <1>1, <2>2
  <2>5. (\A x \in S : IsRatio(rest[x])) /\ Mean(rest) = Minus(Whole(c), Mean(idle))
    BY ONLY <2>3, <2>4, <2>1, MeanOfRests
  <2> QED  BY <2>1, <2>2, <2>5
<1>10. PICK l : l = [i \in I |-> Mean([j \in J |-> metrics[i][j].load])]
  OBVIOUS
<1>11. PICK loads : loads = [i \in I |-> [j \in J |-> metrics[i][j].load]]
  OBVIOUS
<1>12. \A i \in I : DOMAIN loads[i] = J /\ \A j \in J : loads[i][j] = rest[<<i, j>>]
  BY <1>8, <1>11
<1>13. Mean(l) = Mean(rest)
  <2>1. DOMAIN loads = I /\ DOMAIN l = I /\ \A i \in I : l[i] = Mean(loads[i])
    BY <1>10, <1>11
  <2>2. DOMAIN rest = I \X J
    BY <1>8
  <2>3. MeansOfLines(l, loads, rest, I, J)
    BY <1>9, <1>12, <2>1, <2>2 DEF MeansOfLines
  <2>4. TogetherAs(l, rest, I, J)
    BY <2>3, TotalOfMeans
  <2> QED  BY <2>4 DEF TogetherAs
<1>14. \A i \in I : data[i].load = l[i]
  BY <1>10 DEF OverReps
<1>15. aggregate_dstat(data).load = Mean(l)
  <2>1. [i \in DOMAIN data |-> data[i].load] = l
    BY <1>10, <1>14
  <2> QED  BY <2>1 DEF aggregate_dstat
<1> QED
  BY <1>5, <1>7, <1>9, <1>13, <1>15 DEF Expected, RowIs

\* The metrics of machines and repetitions, as they are read.
ReadMetrics(file, repFile, I, J, truncate_sec) ==
    [i \in I |-> [j \in J |->
        read_dstat_from_server(file[<<i, j>>], extract_startend_times(repFile[<<i, j>>], truncate_sec))]]

\* Files that are sampled in their repetitions, each in one month.
GoodFiles(file, repFile, all) ==
    \A x \in all : /\ Sampled(file[x], repFile[x]) /\ Sampled(repFile[x], repFile[x])
                   /\ InOneMonth(repFile[x])

\* Data that are read from such files.
ReadFrom(data, file, repFile, I, J, truncate_sec) ==
    /\ IsFiniteSet(I) /\ I # {} /\ IsFiniteSet(J) /\ J # {}
    /\ GoodFiles(file, repFile, I \X J) /\ truncate_sec \in Truncations
    /\ data = [i \in I |-> OverReps(ReadMetrics(file, repFile, I, J, truncate_sec)[i])]

RowShows(data, file, repFile, I, J, truncate_sec) ==
    \A y \in {"load", "recv", "send"} :
        aggregate_dstat(data)[y] = Expected(MeansIn(file, repFile, I \X J, truncate_sec, ColumnOf(y)), J, y)

\* A row of a table is computed from the samples inside the truncated repetitions.
LEMMA RowOfFiles ==
    ASSUME NEW I, NEW J, NEW file, NEW repFile, NEW truncate_sec, NEW data,
           ReadFrom(data, file, repFile, I, J, truncate_sec)
    PROVE  RowShows(data, file, repFile, I, J, truncate_sec)
<1> SUFFICES ASSUME NEW y \in {"load", "recv", "send"}
             PROVE  aggregate_dstat(data)[y]
                       = Expected(MeansIn(file, repFile, I \X J, truncate_sec, ColumnOf(y)), J, y)
  BY DEF RowShows
<1> /\ IsFiniteSet(I) /\ I # {} /\ IsFiniteSet(J) /\ J # {}
    /\ GoodFiles(file, repFile, I \X J) /\ truncate_sec \in Truncations
    /\ data = [i \in I |-> OverReps(ReadMetrics(file, repFile, I, J, truncate_sec)[i])]
  BY DEF ReadFrom
<1>1. PICK metrics : metrics = ReadMetrics(file, repFile, I, J, truncate_sec)
  OBVIOUS
<1>2. ASSUME NEW i \in I, NEW j \in J
      PROVE  metrics[i][j] = MeansOf(Within(file[<<i, j>>], repFile[<<i, j>>], truncate_sec))
  <2>1. metrics[i][j]
            = read_dstat_from_server(file[<<i, j>>], extract_startend_times(repFile[<<i, j>>], truncate_sec))
    BY <1>1 DEF ReadMetrics
  <2>2. <<i, j>> \in I \X J
    OBVIOUS
  <2> QED  BY <2>1, <2>2, ReadWithin DEF GoodFiles, Truncations
<1>3. PICK idle : idle = MeansIn(file, repFile, I \X J, truncate_sec, "idl")
  OBVIOUS
<1>4. ASSUME NEW column \in {"recv", "send"}
      PROVE  /\ aggregate_dstat(data)[column]
                    = Expected(MeansIn(file, repFile, I \X J, truncate_sec, column), J, column)
             /\ aggregate_dstat(data).load = Expected(idle, J, "load")
  <2>1. PICK traffic : traffic = MeansIn(file, repFile, I \X J, truncate_sec, column)
    OBVIOUS
  <2>2. ASSUME NEW x \in I \X J PROVE IsRatio(idle[x]) /\ IsRatio(traffic[x])
    <3>1. Sampled(file[x], repFile[x])
      BY DEF GoodFiles
    <3> QED  BY <1>3, <2>1, <3>1, MeanInside DEF MeansIn
  <2>3. DOMAIN idle = I \X J /\ DOMAIN traffic = I \X J
    BY <1>3, <2>1 DEF MeansIn
  <2>4. ASSUME NEW i \in I, NEW j \in J
        PROVE  /\ metrics[i][j][column] = traffic[<<i, j>>]
               /\ metrics[i][j].load = Minus(Whole(100), idle[<<i, j>>])
    <3>1. <<i, j>> \in I \X J
      OBVIOUS
    <3>2. PICK W : W = Within(file[<<i, j>>], repFile[<<i, j>>], truncate_sec)
      OBVIOUS
    <3>3. metrics[i][j] = MeansOf(W)
      BY <1>2, <3>2
    <3>4. MeansOf(W).load = Minus(Whole(100), Mean([s \in W |-> Whole(s["idl"])]))
      BY DEF MeansOf
    <3>5. MeansOf(W)[column] = Mean([s \in W |-> Whole(s[column])])
      BY DEF MeansOf
    <3>6. idle[<<i, j>>] = Mean([s \in W |-> Whole(s["idl"])])
      BY <1>3, <3>1, <3>2 DEF MeansIn
    <3>7. traffic[<<i, j>>] = Mean([s \in W |-> Whole(s[column])])
      BY <2>1, <3>1, <3>2 DEF MeansIn
    <3> QED  BY <3>3, <3>4, <3>5, <3>6, <3>7
  <2>5. \A i \in I : DOMAIN metrics[i] = J
    BY <1>1 DEF ReadMetrics
  <2>6. data = [i \in I |-> OverReps(metrics[i])]
    BY <1>1
  <2>7. TableOf(data, metrics, idle, traffic, I, J, column)
    BY <2>2, <2>3, <2>4, <2>5, <2>6 DEF TableOf
  <2>8. RowIs(data, idle, traffic, J, column)
    BY ONLY <2>7, AggregatedRow
  <2> QED  BY <2>1, <2>8 DEF RowIs
<1>5. CASE y = "load"
  BY <1>3, <1>4, <1>5 DEF ColumnOf
<1>6. CASE y # "load"
  BY <1>4, <1>6 DEF ColumnOf
<1> QED
  BY <1>5, <1>6

\* The files that a figure of clients and a figure of servers show.
ClientFiles(clients, reps) == [x \in (DOMAIN clients) \X reps |-> logs.clients[clients[x[1]]][x[2]]]
ServerFiles(servers, reps) == [x \in (DOMAIN servers) \X reps |-> logs.servers[servers[x[1]]]]
FirstClient(machines, reps) == [x \in (DOMAIN machines) \X reps |-> logs.clients[1][x[2]]]

ClientMachines == {<<1>>, <<1, 2, 3>>}
ServerMachines == {<<6>>, <<6, 7>>, <<6, 7, 7>>}

\* The row of a table of clients,
LEMMA RowOfClients ==
    ASSUME WellSampled(logs), NEW clients \in ClientMachines, NEW truncate_sec \in Truncations,
           NEW y \in {"load", "recv", "send"}, NEW reps, reps = DOMAIN logs.clients[1],
           NEW file, file = ClientFiles(clients, reps),
           \A x \in (DOMAIN clients) \X reps : InOneMonth(file[x])
    PROVE  aggregate_dstat_all_clients(logs.clients, clients, truncate_sec)[y]
              = Expected(MeansIn(file, file, (DOMAIN clients) \X reps, truncate_sec, ColumnOf(y)), reps, y)
<1>1. PICK I : I = DOMAIN clients
  OBVIOUS
<1>2. IsFiniteSet(I) /\ I # {} /\ \A i \in I : clients[i] \in 1..3
  <2>0. \A n \in Nat : IsFiniteSet(1..n)
    BY FS_Interval
  <2>1. IsFiniteSet(1..1) /\ IsFiniteSet(1..3)
    BY <2>0
  <2>2. CASE clients = <<1>>
    <3>1. I = 1..1 /\ \A i \in I : clients[i] \in 1..3
      BY <1>1, <2>2
    <3> QED  BY <2>1, <3>1
  <2>3. CASE clients = <<1, 2, 3>>
    <3>1. I = 1..3 /\ \A i \in I : clients[i] \in 1..3
      BY <1>1, <2>3
    <3> QED  BY <2>1, <3>1
  <2> QED  BY <2>2, <2>3 DEF ClientMachines
<1>3. /\ IsFiniteSet(reps) /\ reps # {}
      /\ \A c \in 1..3 : /\ DOMAIN logs.clients[c] = reps
                         /\ \A rep \in reps : Sampled(logs.clients[c][rep], logs.clients[c][rep])
  BY DEF WellSampled
<1>4. \A i \in I, rep \in reps : file[<<i, rep>>] = logs.clients[clients[i]][rep]
  BY <1>1 DEF ClientFiles
<1>5. GoodFiles(file, file, I \X reps)
  <2>1. ASSUME NEW i \in I, NEW rep \in reps
        PROVE  Sampled(file[<<i, rep>>], file[<<i, rep>>]) /\ InOneMonth(file[<<i, rep>>])
    BY <1>1, <1>2, <1>3, <1>4
  <2> QED  BY <2>1 DEF GoodFiles
<1>6. PICK data : data = [i \in I |-> OverReps(ReadMetrics(file, file, I, reps, truncate_sec)[i])]
  OBVIOUS
<1>7. aggregate_dstat(data)[y] = Expected(MeansIn(file, file, I \X reps, truncate_sec, ColumnOf(y)), reps, y)
  <2>1. ReadFrom(data, file, file, I, reps, truncate_sec)
    BY <1>2, <1>3, <1>5, <1>6 DEF ReadFrom
  <2>2. RowShows(data, file, file, I, reps, truncate_sec)
    BY ONLY <2>1, RowOfFiles
  <2> QED  BY <2>2 DEF RowShows
<1>8. data = [i \in DOMAIN clients |-> read_dstat_all_reps(logs.clients[clients[i]], truncate_sec)]
  <2>1. ASSUME NEW i \in I PROVE data[i] = read_dstat_all_reps(logs.clients[clients[i]], truncate_sec)
    <3>1. DOMAIN logs.clients[clients[i]] = reps
      BY <1>2, <1>3
    <3>2. ReadMetrics(file, file, I, reps, truncate_sec)[i]
              = [rep \in reps |-> read_single_dstat(logs.clients[clients[i]][rep], truncate_sec)]
      BY <1>4 DEF ReadMetrics, read_single_dstat
    <3> QED  BY <1>6, <3>1, <3>2 DEF read_dstat_all_reps
  <2> QED  BY <1>1, <1>6, <2>1
<1> QED
  BY <1>1, <1>7, <1>8 DEF aggregate_dstat_all_clients

\* and of one of servers.
LEMMA RowOfServers ==
    ASSUME WellSampled(logs), NEW servers \in ServerMachines, NEW truncate_sec \in Truncations,
           NEW y \in {"load", "recv", "send"}, NEW reps, reps = DOMAIN logs.clients[1],
           NEW file, file = ServerFiles(servers, reps), NEW repFile, repFile = FirstClient(servers, reps),
           \A x \in (DOMAIN servers) \X reps : InOneMonth(repFile[x])
    PROVE  aggregate_dstat_all_servers(logs.clients[1], logs.servers, servers, truncate_sec)[y]
              = Expected(MeansIn(file, repFile, (DOMAIN servers) \X reps, truncate_sec, ColumnOf(y)), reps, y)
<1>1. PICK I : I = DOMAIN servers
  OBVIOUS
<1>2. IsFiniteSet(I) /\ I # {} /\ \A i \in I : servers[i] \in {6, 7}
  <2>0. \A n \in Nat : IsFiniteSet(1..n)
    BY FS_Interval
  <2>1. IsFiniteSet(1..1) /\ IsFiniteSet(1..2) /\ IsFiniteSet(1..3)
    BY <2>0
  <2>2. CASE servers = <<6>>
    <3>1. I = 1..1 /\ \A i \in I : servers[i] \in {6, 7}
      BY <1>1, <2>2
    <3> QED  BY <2>1, <3>1
  <2>3. CASE servers = <<6, 7>>
    <3>1. I = 1..2 /\ \A i \in I : servers[i] \in {6, 7}
      BY <1>1, <2>3
    <3> QED  BY <2>1, <3>1
  <2>4. CASE servers = <<6, 7, 7>>
    <3>1. I = 1..3 /\ \A i \in I : servers[i] \in {6, 7}
      BY <1>1, <2>4
    <3> QED  BY <2>1, <3>1
  <2> QED  BY <2>2, <2>3, <2>4 DEF ServerMachines
<1>3. /\ IsFiniteSet(reps) /\ reps # {}
      /\ \A rep \in reps : Sampled(logs.clients[1][rep], logs.clients[1][rep])
      /\ \A s \in {6, 7}, rep \in reps : Sampled(logs.servers[s], logs.clients[1][rep])
  BY DEF WellSampled
<1>4. \A i \in I, rep \in reps : /\ file[<<i, rep>>] = logs.servers[servers[i]]
                                  /\ repFile[<<i, rep>>] = logs.clients[1][rep]
  BY <1>1 DEF ServerFiles, FirstClient
<1>5. GoodFiles(file, repFile, I \X reps)
  <2>1. ASSUME NEW i \in I, NEW rep \in reps
        PROVE  /\ Sampled(file[<<i, rep>>], repFile[<<i, rep>>])
               /\ Sampled(repFile[<<i, rep>>], repFile[<<i, rep>>]) /\ InOneMonth(repFile[<<i, rep>>])
    BY <1>1, <1>2, <1>3, <1>4
  <2> QED  BY <2>1 DEF GoodFiles
<1>6. PICK data : data = [i \in I |-> OverReps(ReadMetrics(file, repFile, I, reps, truncate_sec)[i])]
  OBVIOUS
<1>7. aggregate_dstat(data)[y] = Expected(MeansIn(file, repFile, I \X reps, truncate_sec, ColumnOf(y)), reps, y)
  <2>1. ReadFrom(data, file, repFile, I, reps, truncate_sec)
    BY <1>2, <1>3, <1>5, <1>6 DEF ReadFrom
  <2>2. RowShows(data, file, repFile, I, reps, truncate_sec)
    BY ONLY <2>1, RowOfFiles
  <2> QED  BY <2>2 DEF RowShows
<1>8. data = [i \in DOMAIN servers |->
                 read_server_dstat_all_reps(logs.clients[1], logs.servers[servers[i]], truncate_sec)]
  <2>1. ASSUME NEW i \in I
        PROVE  data[i] = read_server_dstat_all_reps(logs.clients[1], logs.servers[servers[i]], truncate_sec)
    <3>1. ReadMetrics(file, repFile, I, reps, truncate_sec)[i]
              = [rep \in reps |-> read_dstat_from_server(logs.servers[servers[i]],
                                    extract_startend_times(logs.clients[1][rep], truncate_sec))]
      BY <1>4 DEF ReadMetrics
    <3> QED  BY <1>6, <3>1 DEF read_server_dstat_all_reps
  <2> QED  BY <1>1, <1>6, <2>1
<1> QED
  BY <1>1, <1>7, <1>8 DEF aggregate_dstat_all_servers

-----------------------------------------------------------------------------
(* The tables and the figures of dstat.                                    *)

Metrics == {"load", "recv", "send"}

\* A record of a table or a figure that shows machines, and the row of the table.
IsRow(record, row) ==
    /\ record.truncate_sec \in Truncations
    /\ \/ /\ "dstat_clients" \in DOMAIN record /\ record.dstat_clients \in ClientMachines
          /\ row = aggregate_dstat_all_clients(logs.clients, record.dstat_clients, record.truncate_sec)
       \/ /\ "dstat_clients" \notin DOMAIN record /\ record.dstat_servers \in ServerMachines
          /\ row = aggregate_dstat_all_servers(logs.clients[1], logs.servers, record.dstat_servers,
                                               record.truncate_sec)

IsTable(table) ==
    /\ {"truncate_sec", "row"} \subseteq DOMAIN table
    /\ DOMAIN table \cap {"y", "drawn"} = {}
    /\ DOMAIN table \cap {"dstat_clients", "dstat_servers"} # {}
    /\ IsRow(table, table.row)

\* The figure of a table.
FigureOf(table, y) ==
    [name \in DOMAIN table \ {"row"} |-> table[name]] ++ [y |-> y, drawn |-> table.row[y]]

IsFigure(figure) == figure.y \in Metrics /\ \E row : IsRow(figure, row) /\ figure.drawn = row[figure.y]

DstatNames == {"nice_table", "agg_table"}

\* What a notebook of dstat holds and has shown is made of its files.
DstatShown ==
    notebook \in DstatBooks =>
        /\ logs \in Inputs(notebook)
        /\ \A name \in DOMAIN globals \cap DstatNames : IsTable(globals[name])
        /\ \A f \in DOMAIN figures : "drawn" \in DOMAIN figures[f] => IsFigure(figures[f])

\* The tables that the notebooks build of clients and of servers show what is in the files.
LEMMA TablesOfClients ==
    ASSUME NEW source, NEW workload, NEW settings, NEW clients \in ClientMachines,
           NEW truncate_sec \in Truncations, NEW num_threads
    PROVE  IsTable(client_table(logs, source, workload, settings, clients, truncate_sec, num_threads))
<1>1. PICK row : row = aggregate_dstat_all_clients(logs.clients, clients, truncate_sec)
  OBVIOUS
<1> QED
  BY <1>1 DEF IsTable, IsRow, client_table

\* The same for servers.
LEMMA TablesOfServers ==
    ASSUME NEW source, NEW workload, NEW settings, NEW servers \in ServerMachines,
           NEW truncate_sec \in Truncations, NEW num_threads
    PROVE  IsTable(server_table(logs, source, workload, settings, servers, truncate_sec, num_threads))
<1>1. PICK row : row = aggregate_dstat_all_servers(logs.clients[1], logs.servers, servers, truncate_sec)
  OBVIOUS
<1> QED
  BY <1>1 DEF IsTable, IsRow, server_table

\* The figure of a table shows its row.
LEMMA FiguresOfTables ==
    ASSUME NEW table, IsTable(table), NEW y \in Metrics
    PROVE  IsFigure(FigureOf(table, y))
<1>1. PICK figure : figure = FigureOf(table, y)
  OBVIOUS
<1>2. /\ figure.y = y /\ figure.drawn = table.row[y]
      /\ "dstat_clients" \in DOMAIN figure <=> "dstat_clients" \in DOMAIN table
      /\ figure.truncate_sec = table.truncate_sec
      /\ "dstat_clients" \in DOMAIN table => figure.dstat_clients = table.dstat_clients
      /\ "dstat_servers" \in DOMAIN table => figure.dstat_servers = table.dstat_servers
  BY <1>1 DEF IsTable, FigureOf, ++
<1>3. IsRow(figure, table.row)
  BY <1>2 DEF IsTable, IsRow
<1> QED
  BY <1>1, <1>2, <1>3 DEF IsFigure

\* A cell that binds name to a table, and one that draws the figure of a table.
Builds(name, table) ==
    /\ notebook' = notebook /\ logs' = logs
    /\ \A n \in DOMAIN globals' : \/ n \in DOMAIN globals /\ globals'[n] = globals[n]
                                  \/ n = name /\ globals'[n] = table
    /\ \A f \in DOMAIN figures' : f \in DOMAIN figures /\ figures'[f] = figures[f]

Draws(table, y) ==
    /\ notebook' = notebook /\ logs' = logs
    /\ \A n \in DOMAIN globals' : n \in DOMAIN globals /\ globals'[n] = globals[n]
    /\ \A f \in DOMAIN figures' : \/ f \in DOMAIN figures /\ figures'[f] = figures[f]
                                  \/ figures'[f] = FigureOf(table, y)

\* One that draws the figure of the table that is bound to a name.
DrawsBound(name, y) ==
    /\ notebook' = notebook /\ logs' = logs
    /\ \A n \in DOMAIN globals' : n \in DOMAIN globals /\ globals'[n] = globals[n]
    /\ \A f \in DOMAIN figures' : \/ f \in DOMAIN figures /\ figures'[f] = figures[f]
                                  \/ name \in DOMAIN globals /\ figures'[f] = FigureOf(globals[name], y)

\* A cell that builds such a table,
LEMMA BuildsShown ==
    ASSUME DstatShown, NEW name, NEW table, IsTable(table), Builds(name, table)
    PROVE  DstatShown'
BY DEF DstatShown, Builds, IsTable, IsFigure, IsRow

\* one that builds it and draws its figure,
LEMMA DrawsShown ==
    ASSUME DstatShown, NEW table, IsTable(table), NEW y \in Metrics, Draws(table, y)
    PROVE  DstatShown'
<1>1. IsFigure(FigureOf(table, y))
  BY FiguresOfTables
<1> QED
  BY <1>1 DEF DstatShown, Draws, IsTable, IsFigure, IsRow

\* and one that draws the figure of the table built last show what is in the files.
LEMMA DrawsBoundShown ==
    ASSUME DstatShown, notebook \in DstatBooks, NEW name \in DstatNames, NEW y \in Metrics,
           DrawsBound(name, y)
    PROVE  DstatShown'
<1>1. name \in DOMAIN globals => IsFigure(FigureOf(globals[name], y))
  BY FiguresOfTables DEF DstatShown
<1> QED
  BY <1>1 DEF DstatShown, DrawsBound, IsTable, IsFigure, IsRow

\* The cells of the notebooks of dstat.
LEMMA DstatCells ==
    ASSUME DstatShown, dstat
    PROVE  DstatShown'
<1>1. ASSUME NEW nb \in DstatBooks, dstat_imports(nb) PROVE DstatShown'
  <2>1. /\ notebook' = notebook /\ logs' = logs /\ figures' = figures
        /\ \A n \in DOMAIN globals' : n \in DOMAIN globals /\ globals'[n] = globals[n]
    BY <1>1 DEF dstat_imports, Import
  <2> QED  BY <2>1 DEF DstatShown, IsTable, IsFigure, IsRow
<1>2. ASSUME client_loop_2_1 PROVE DstatShown'
  <2>1. PICK table : table = client_table(logs, "exp2_1", "both", vcs_2, <<1, 2, 3>>, 0, 6)
    OBVIOUS
  <2>2. IsTable(table)
    BY <2>1, TablesOfClients DEF ClientMachines, Truncations
  <2>3. Builds("nice_table", table)
    BY <1>2, <2>1 DEF client_loop_2_1, Compute, Cell, Nothing, Empty, Builds, ++
  <2> QED  BY <2>2, <2>3, BuildsShown
<1>3. ASSUME client_loop_2_2 PROVE DstatShown'
  <2>1. PICK table : table = client_table(logs, "exp2_2", "both", vcs_2, <<1>>, 0, 2)
    OBVIOUS
  <2>2. IsTable(table)
    BY <2>1, TablesOfClients DEF ClientMachines, Truncations
  <2>3. Builds("nice_table", table)
    BY <1>3, <2>1 DEF client_loop_2_2, Compute, Cell, Nothing, Empty, Builds, ++
  <2> QED  BY <2>2, <2>3, BuildsShown
<1>4. ASSUME server_loop_2_1 PROVE DstatShown'
  <2>1. PICK table : table = server_table(logs, "exp2_1", "both", vcs_2, <<6>>, 0, 6)
    OBVIOUS
  <2>2. IsTable(table)
    BY <2>1, TablesOfServers DEF ServerMachines, Truncations
  <2>3. Builds("nice_table", table)
    BY <1>4, <2>1 DEF server_loop_2_1, Compute, Cell, Nothing, Empty, Builds, ++
  <2> QED  BY <2>2, <2>3, BuildsShown
<1>5. ASSUME server_loop_2_2 PROVE DstatShown'
  <2>1. PICK table : table = server_table(logs, "exp2_2", "both", vcs_2, <<6, 7>>, 0, 2)
    OBVIOUS
  <2>2. IsTable(table)
    BY <2>1, TablesOfServers DEF ServerMachines, Truncations
  <2>3. Builds("nice_table", table)
    BY <1>5, <2>1 DEF server_loop_2_2, Compute, Cell, Nothing, Empty, Builds, ++
  <2> QED  BY <2>2, <2>3, BuildsShown
<1>6. ASSUME server_loop_5 PROVE DstatShown'
  <2>1. PICK table : table = server_table(logs, "exp5_2", "nonsharded", multigets_5, <<6, 7>>, TruncateFive, 0)
    OBVIOUS
  <2>2. IsTable(table)
    BY <2>1, TablesOfServers DEF ServerMachines, Truncations
  <2>3. Builds("agg_table", table)
    BY <1>6, <2>1 DEF server_loop_5, Compute, Cell, Nothing, Empty, Builds, ++
  <2> QED  BY <2>2, <2>3, BuildsShown
<1>7. ASSUME client_dstat_3_1 PROVE DstatShown'
  <2>1. PICK table : table = client_table(logs, "exp3_1", "writeOnly", vcs_3, <<1>>, TruncateTen, 2)
    OBVIOUS
  <2>2. IsTable(table)
    BY <2>1, TablesOfClients DEF ClientMachines, Truncations
  <2>3. Draws(table, "send")
    BY <1>7, <2>1 DEF client_dstat_3_1, DrawTable, Draw, Drawn, Saved, Entry, Cell, Nothing, Empty,
       Draws, FigureOf, ++
  <2> QED  BY <2>2, <2>3, DrawsShown DEF Metrics
<1>8. ASSUME client_dstat_3_2 PROVE DstatShown'
  <2>1. PICK table : table = client_table(logs, "exp3_2", "readOnly", vcs_3, <<1>>, TruncateTen, 2)
    OBVIOUS
  <2>2. IsTable(table)
    BY <2>1, TablesOfClients DEF ClientMachines, Truncations
  <2>3. Draws(table, "send")
    BY <1>8, <2>1 DEF client_dstat_3_2, DrawTable, Draw, Drawn, Saved, Entry, Cell, Nothing, Empty,
       Draws, FigureOf, ++
  <2> QED  BY <2>2, <2>3, DrawsShown DEF Metrics
<1>9. ASSUME server_dstat_3_1 PROVE DstatShown'
  <2>1. PICK table : table = server_table(logs, "exp3_1", "writeOnly", vcs_3, <<6>>, TruncateTen, 2)
    OBVIOUS
  <2>2. IsTable(table)
    BY <2>1, TablesOfServers DEF ServerMachines, Truncations
  <2>3. Draws(table, "recv")
    BY <1>9, <2>1 DEF server_dstat_3_1, DrawTable, Draw, Drawn, Saved, Entry, Cell, Nothing, Empty,
       Draws, FigureOf, ++
  <2> QED  BY <2>2, <2>3, DrawsShown DEF Metrics
<1>10. ASSUME server_dstat_3_2 PROVE DstatShown'
  <2>1. PICK table : table = server_table(logs, "exp3_2", "readOnly", vcs_3, <<6>>, TruncateTen, 2)
    OBVIOUS
  <2>2. IsTable(table)
    BY <2>1, TablesOfServers DEF ServerMachines, Truncations
  <2>3. Draws(table, "send")
    BY <1>10, <2>1 DEF server_dstat_3_2, DrawTable, Draw, Drawn, Saved, Entry, Cell, Nothing, Empty,
       Draws, FigureOf, ++
  <2> QED  BY <2>2, <2>3, DrawsShown DEF Metrics
<1>11. ASSUME server_dstat_3_2_rerun PROVE DstatShown'
  <2>1. PICK table : table = server_table(logs, "exp3_2_rerun", "readOnly", vcs_3, <<6>>, TruncateTen, 4)
    OBVIOUS
  <2>2. IsTable(table)
    BY <2>1, TablesOfServers DEF ServerMachines, Truncations
  <2>3. Draws(table, "send")
    BY <1>11, <2>1 DEF server_dstat_3_2_rerun, DrawTable, Draw, Drawn, Saved, Entry, Cell, Nothing,
       Empty, Draws, FigureOf, ++
  <2> QED  BY <2>2, <2>3, DrawsShown DEF Metrics
<1>12. ASSUME client_dstat_4 PROVE DstatShown'
  <2>1. PICK table : table = client_table(logs, "exp4", "writeOnly", vcs_4, <<1, 2, 3>>, TruncateTen, 2)
    OBVIOUS
  <2>2. IsTable(table)
    BY <2>1, TablesOfClients DEF ClientMachines, Truncations
  <2>3. Draws(table, "load")
    BY <1>12, <2>1 DEF client_dstat_4, DrawTable, Draw, Drawn, Saved, Entry, Cell, Nothing, Empty,
       Draws, FigureOf, ++
  <2> QED  BY <2>2, <2>3, DrawsShown DEF Metrics
<1>13. ASSUME server_dstat_4 PROVE DstatShown'
  <2>1. PICK table : table = server_table(logs, "exp4", "writeOnly", vcs_4, <<6, 7, 7>>, TruncateTen, 6)
    OBVIOUS
  <2>2. IsTable(table)
    BY <2>1, TablesOfServers DEF ServerMachines, Truncations
  <2>3. Draws(table, "load")
    BY <1>13, <2>1 DEF server_dstat_4, DrawTable, Draw, Drawn, Saved, Entry, Cell, Nothing, Empty,
       Draws, FigureOf, ++
  <2> QED  BY <2>2, <2>3, DrawsShown DEF Metrics
<1>14. ASSUME client_dstat_5 PROVE DstatShown'
  <2>1. PICK table : table = client_table(logs, "exp5_2", "nonsharded", multigets_5, <<1, 2, 3>>, TruncateTen, 2)
    OBVIOUS
  <2>2. IsTable(table)
    BY <2>1, TablesOfClients DEF ClientMachines, Truncations
  <2>3. Draws(table, "send")
    BY <1>14, <2>1 DEF client_dstat_5, DrawTable, Draw, Drawn, Saved, Entry, Cell, Nothing, Empty,
       Draws, FigureOf, ++
  <2> QED  BY <2>2, <2>3, DrawsShown DEF Metrics
<1>15. ASSUME client_send_2_1 PROVE DstatShown'
  <2>1. notebook \in DstatBooks
    BY <1>15 DEF client_send_2_1, Draw, Cell, Turn, DstatBooks
  <2>2. DrawsBound("nice_table", "send")
    BY <1>15 DEF client_send_2_1, Draw, Drawn, Saved, Entry, Cell, Nothing, Empty, DrawsBound, FigureOf, ++
  <2> QED  BY <2>1, <2>2, DrawsBoundShown DEF DstatNames, Metrics
<1>16. ASSUME client_send_2_2 PROVE DstatShown'
  <2>1. notebook \in DstatBooks
    BY <1>16 DEF client_send_2_2, Draw, Cell, Turn, DstatBooks
  <2>2. DrawsBound("nice_table", "send")
    BY <1>16 DEF client_send_2_2, Draw, Drawn, Saved, Entry, Cell, Nothing, Empty, DrawsBound, FigureOf, ++
  <2> QED  BY <2>1, <2>2, DrawsBoundShown DEF DstatNames, Metrics
<1>17. ASSUME server_send_2_1 PROVE DstatShown'
  <2>1. notebook \in DstatBooks
    BY <1>17 DEF server_send_2_1, Draw, Cell, Turn, DstatBooks
  <2>2. DrawsBound("nice_table", "send")
    BY <1>17 DEF server_send_2_1, Draw, Drawn, Saved, Entry, Cell, Nothing, Empty, DrawsBound, FigureOf, ++
  <2> QED  BY <2>1, <2>2, DrawsBoundShown DEF DstatNames, Metrics
<1>18. ASSUME server_load_2_1 PROVE DstatShown'
  <2>1. notebook \in DstatBooks
    BY <1>18 DEF server_load_2_1, Draw, Cell, Turn, DstatBooks
  <2>2. DrawsBound("nice_table", "load")
    BY <1>18 DEF server_load_2_1, Draw, Drawn, Saved, Entry, Cell, Nothing, Empty, DrawsBound, FigureOf, ++
  <2> QED  BY <2>1, <2>2, DrawsBoundShown DEF DstatNames, Metrics
<1>19. ASSUME server_load_2_2 PROVE DstatShown'
  <2>1. notebook \in DstatBooks
    BY <1>19 DEF server_load_2_2, Draw, Cell, Turn, DstatBooks
  <2>2. DrawsBound("nice_table", "load")
    BY <1>19 DEF server_load_2_2, Draw, Drawn, Saved, Entry, Cell, Nothing, Empty, DrawsBound, FigureOf, ++
  <2> QED  BY <2>1, <2>2, DrawsBoundShown DEF DstatNames, Metrics
<1>20. ASSUME server_load_5 PROVE DstatShown'
  <2>1. notebook \in DstatBooks
    BY <1>20 DEF server_load_5, Draw, Cell, Turn, DstatBooks
  <2>2. DrawsBound("agg_table", "load")
    BY <1>20 DEF server_load_5, Draw, Drawn, Saved, Entry, Cell, Nothing, Empty, DrawsBound, FigureOf, ++
  <2> QED  BY <2>1, <2>2, DrawsBoundShown DEF DstatNames, Metrics
<1>21. ASSUME server_show_5 PROVE DstatShown'
  <2>1. /\ notebook' = notebook /\ logs' = logs /\ notebook \in DstatBooks
        /\ \A x \in DOMAIN globals' : x \in DOMAIN globals /\ globals'[x] = globals[x]
        /\ \A f \in DOMAIN figures' :
              \/ f \in DOMAIN figures /\ figures'[f] = figures[f]
              \/ "agg_table" \in DOMAIN globals /\ figures'[f] = globals["agg_table"]
    BY <1>21 DEF server_show_5, Draw, Saved, Entry, Cell, Turn, Nothing, Empty, DstatBooks, ++
  <2> QED  BY <2>1 DEF DstatShown, DstatNames, IsTable, IsFigure, IsRow
<1> QED
  BY ONLY dstat, <1>1, <1>2, <1>3, <1>4, <1>5, <1>6, <1>7, <1>8, <1>9, <1>10, <1>11, <1>12, <1>13,
     <1>14, <1>15, <1>16, <1>17, <1>18, <1>19, <1>20, <1>21 DEF dstat

\* A figure of clients shows the samples inside the repetitions,
LEMMA ClientsInside ==
    ASSUME WellSampled(logs), NEW figure, "dstat_clients" \in DOMAIN figure,
           NEW clients \in ClientMachines, figure.dstat_clients = clients,
           NEW t \in Truncations, figure.truncate_sec = t, NEW y \in Metrics, figure.y = y,
           figure.drawn = aggregate_dstat_all_clients(logs.clients, clients, t)[y]
    PROVE  InsideTheRun(figure)
<1>1. PICK reps : reps = DOMAIN logs.clients[1]
  OBVIOUS
<1>2. PICK all : all = (DOMAIN clients) \X reps
  OBVIOUS
<1>3. PICK file : file = ClientFiles(clients, reps)
  OBVIOUS
<1>4. \A x \in all : file[x] = logs.clients[clients[x[1]]][x[2]]
  BY <1>2, <1>3 DEF ClientFiles
<1>5. PICK means : means = MeansIn(file, file, all, t, ColumnOf(y))
  OBVIOUS
<1>6. (\A x \in all : InOneMonth(file[x])) => figure.drawn = Expected(means, reps, y)
  BY <1>1, <1>2, <1>3, <1>5, RowOfClients DEF Metrics
<1>7. PICK column : column = ColumnOf(y)
  OBVIOUS
<1>8. means = [x \in all |-> Mean([s \in Within(logs.clients[clients[x[1]]][x[2]],
                                                logs.clients[clients[x[1]]][x[2]], t) |-> Whole(s[column])])]
  BY <1>4, <1>5, <1>7 DEF MeansIn
<1>9. (\A x \in all : InOneMonth(logs.clients[clients[x[1]]][x[2]])) => figure.drawn = Expected(means, reps, y)
  BY <1>4, <1>6
<1> QED
  BY <1>1, <1>2, <1>7, <1>8, <1>9 DEF InsideTheRun, Expected, ColumnOf

\* and so does one of servers.
LEMMA ServersInside ==
    ASSUME WellSampled(logs), NEW figure, "dstat_clients" \notin DOMAIN figure,
           NEW servers \in ServerMachines, figure.dstat_servers = servers,
           NEW t \in Truncations, figure.truncate_sec = t, NEW y \in Metrics, figure.y = y,
           figure.drawn = aggregate_dstat_all_servers(logs.clients[1], logs.servers, servers, t)[y]
    PROVE  InsideTheRun(figure)
<1>1. PICK reps : reps = DOMAIN logs.clients[1]
  OBVIOUS
<1>2. PICK all : all = (DOMAIN servers) \X reps
  OBVIOUS
<1>3. PICK file : file = ServerFiles(servers, reps)
  OBVIOUS
<1>4. PICK repFile : repFile = FirstClient(servers, reps)
  OBVIOUS
<1>5. \A x \in all : file[x] = logs.servers[servers[x[1]]] /\ repFile[x] = logs.clients[1][x[2]]
  BY <1>2, <1>3, <1>4 DEF ServerFiles, FirstClient
<1>6. PICK means : means = MeansIn(file, repFile, all, t, ColumnOf(y))
  OBVIOUS
<1>7. (\A x \in all : InOneMonth(repFile[x])) => figure.drawn = Expected(means, reps, y)
  BY <1>1, <1>2, <1>3, <1>4, <1>6, RowOfServers DEF Metrics
<1>8. PICK column : column = ColumnOf(y)
  OBVIOUS
<1>9. means = [x \in all |-> Mean([s \in Within(logs.servers[servers[x[1]]], logs.clients[1][x[2]], t)
                                      |-> Whole(s[column])])]
  BY <1>5, <1>6, <1>8 DEF MeansIn
<1>10. (\A x \in all : InOneMonth(logs.clients[1][x[2]])) => figure.drawn = Expected(means, reps, y)
  BY <1>5, <1>7
<1> QED
  BY <1>1, <1>2, <1>8, <1>9, <1>10 DEF InsideTheRun, Expected, ColumnOf

\* What is shown of the files is what is inside the repetitions.
LEMMA ShownInside ==
    ASSUME DstatShown PROVE DstatInsideTheRun
<1> SUFFICES ASSUME notebook \in DstatBooks, NEW f \in DOMAIN figures, "drawn" \in DOMAIN figures[f]
             PROVE  InsideTheRun(figures[f])
  BY DEF DstatInsideTheRun, WithField, Charts
<1>1. WellSampled(logs)
  BY DstatAssumption DEF DstatShown
<1>2. PICK figure : figure = figures[f]
  OBVIOUS
<1>3. IsFigure(figure)
  BY <1>2 DEF DstatShown
<1>4. PICK row : IsRow(figure, row) /\ figure.drawn = row[figure.y]
  BY <1>3 DEF IsFigure
<1>5. figure.y \in Metrics /\ figure.truncate_sec \in Truncations
  BY <1>3, <1>4 DEF IsFigure, IsRow
<1>6. CASE "dstat_clients" \in DOMAIN figure
  BY <1>1, <1>2, <1>4, <1>5, <1>6, ClientsInside DEF IsRow
<1>7. CASE "dstat_clients" \notin DOMAIN figure
  BY <1>1, <1>2, <1>4, <1>5, <1>7, ServersInside DEF IsRow
<1> QED
  BY <1>6, <1>7

\* Every figure of dstat shows the means of the samples inside the truncated repetitions, whatever
\* machines have sampled and whenever, within a month.
THEOREM DstatShowsTheRun ==
    Spec => []DstatInsideTheRun
<1>1. Init => DstatShown
  BY DEF Init, Closed, DstatShown, DstatBooks
<1>2. InOrder /\ Distinct /\ DstatShown /\ [Next]_kernel => DstatShown'
  <2>1. SUFFICES ASSUME InOrder, Distinct, DstatShown, [Next]_kernel PROVE DstatShown'
    OBVIOUS
  <2>2. CASE OpenNotebook
    <3>1. logs' \in Inputs(notebook') /\ globals' = Empty /\ figures' = Empty
      BY <2>2 DEF OpenNotebook, Open
    <3> QED  BY <3>1 DEF DstatShown, Empty
  <2>3. CASE graphs_3_1 \/ graphs_3_2 \/ graph_3_2_rerun \/ graphs_4 \/ histogram
    <3>1. position \in Int
      BY <2>1 DEF InOrder
    <3>2. \E nb \in Incomplete : Keeps(nb)
      BY <2>1, <2>3, <3>1, Graphs31Keep, Graphs32Keep, Graph32RerunKeep, Graphs4Keep, HistogramKeep DEF
         Incomplete
    <3> QED  BY <3>2 DEF Keeps, Incomplete, DstatShown, DstatBooks
  <2>4. CASE UNCHANGED kernel
    BY <2>1, <2>4 DEF kernel, DstatShown, IsTable, IsFigure, IsRow
  <2>5. CASE graphs_5 \/ barchart_3 \/ barchart_5 \/ analysis_2k \/ MM1 \/ MMm \/ NetworkOfQueues
    <3>1. \E nb \in {"graphs_5", "barchart_3", "barchart_5", K2, "MM1", "MMm", NoQ} : Continues(nb)
      BY <2>1, <2>5, Graphs5InOrder, BarChart3InOrder, BarChart5InOrder, Analysis2kInOrder, MM1InOrder,
         MMmInOrder, NetworkOfQueuesInOrder
    <3> QED  BY <3>1 DEF Continues, DstatShown, DstatBooks, K2, NoQ
  <2>6. CASE dstat
    BY <2>1, <2>6, DstatCells
  <2> QED
    BY <2>1, <2>2, <2>3, <2>4, <2>5, <2>6 DEF Next
<1> QED
  BY <1>1, <1>2, ShownInside, InOrderInvariant, PTL DEF Spec

==============================================================================
