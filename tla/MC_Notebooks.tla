---------------------------- MODULE MC_Notebooks ----------------------------
EXTENDS Notebooks

MCNotebooks ==
    {"graphs_3_1", "graphs_3_2", "graph_3_2_rerun", "graphs_4", "graphs_5", "barchart_3", "barchart_5",
     "2k_analysis", "MM1", "MMm", "NetworkOfQueues", "histogram"} \cup DstatBooks

\* The other notebooks bind a name again in a later cell, and need their cells in order.
MCShuffled == {"graphs_3_1", "graphs_3_2", "graph_3_2_rerun", "graphs_4", "graphs_5"}
              \cup (DstatBooks \ {"client_dstat_2", "server_dstat_2"})

\* The orders in which four directories may be listed.
Orders == {s \in [1..4 -> {1, 3, 6, 9}] : Cardinality(Range(s)) = 4}

\* The samples of a machine, one per second.
Samples(machine, times) ==
    {[time |-> strftime(t), idl |-> (7 * t + machine) % 11, recv |-> (t + machine) % 5, send |-> (2 * t) % 7] :
        t \in times}

\* Two repetitions of seven seconds, the first beginning at start; the second client is late.
Experiment(start) ==
    [clients |-> [c \in 1..3 |->
        <<Samples(c, (start + (c % 2))..(start + (c % 2) + 6)),
          Samples(c, (start + 9 + (c % 2))..(start + 15 + (c % 2)))>>],
     servers |-> [s \in 6..8 |-> Samples(s, (start - 1)..(start + 18))]]

\* Powers of two whose exponents are sums of effects, an interaction and a noise.
Design(mw, mc, workers, both, noise) ==
    [k \in {1, 2} \X {2, 3} \X {8, 32} \X (1..3) |->
        2 ^ (mw * k[1] + mc * (k[2] - 2) + (IF k[3] = 32 THEN workers + both * (k[1] - 1) ELSE 0)
             + noise * (k[4] % 2))]

\* A request that is logged at a clock tick after waiting and processing for some milliseconds.
Logged(tick, waiting, processing, rtt) ==
    LET dequeue == 2 + waiting IN
    [requestType |-> "SET", initializeClockTime |-> tick, queueLength |-> waiting, numHits |-> 0,
     numKeysRequested |-> 0, previousArrivalTime |-> -1, firstReadTime |-> 0, arrivalTime |-> 1,
     enqueueTime |-> 2, dequeueTime |-> dequeue, beforeSendTime |-> dequeue + processing,
     afterReceiveTime |-> dequeue + processing + rtt, completedTime |-> dequeue + 2 * processing + rtt]

\* throughput: of all clients of a configuration in one second.
Measured(throughput, clients, waiting) ==
    [rep \in 1..3 |->
        [middlewares |->
            [middleware_04 |-> [thread_1 |-> <<Logged(0, 0, 1, 1), Logged(2, waiting, 1, 2), Logged(5, 0, 1, rep)>>],
             middleware_05 |-> [thread_1 |-> <<Logged(1, 1, 1, 2), Logged(3, waiting, 1, 2)>>,
                                thread_2 |-> <<Logged(7, 0, 1, 2)>>]],
         clients |-> [f \in {mtLogs[i] : i \in 1..clients} |->
            [second \in 1..4 |->
                [timestep |-> second, responsetime |-> 2,
                 throughput |-> IF f = mtLogs[1] THEN throughput - (clients - 1) * (throughput \div clients)
                                ELSE throughput \div clients]]],
         histograms |-> [f \in {mtLogs[i] : i \in 1..clients} |->
            [hist |-> IF f = mtLogs[2] THEN <<<<1, 0>>, <<3, 50>>, <<4, 90>>, <<6, 100>>>>
                      ELSE <<<<0, 10>>, <<2, 40>>, <<5, 100>>>>,
             xput |-> IF f = mtLogs[3] THEN 300 ELSE 100]],
         pings |-> [f \in {"client_ping_01_0.log", "client_ping_01_1.log", "client_ping_02_0.log",
                           "client_ping_02_1.log"} |-> <<[clockTime |-> 5, rtt |-> 1], [clockTime |-> 6, rtt |-> rep]>>]]]

MCInputs(nb) ==
    CASE nb = "graphs_5" -> Orders
      [] nb \in DstatBooks -> {Experiment(start) : start \in {2, 5, 13, 18}}
      [] nb = "2k_analysis" -> {Design(mw, mc, workers, both, noise) :
                                    mw \in 0..1, mc \in 0..2, workers \in 1..2, both \in 0..1, noise \in 0..1}
      [] nb = "MM1" -> {Measured(1643, 6, 0), Measured(4929, 6, 2)}
      [] nb = "MMm" -> {Measured(throughput, 6, waiting) : throughput \in {300, 600}, waiting \in {0, 1}}
      [] nb = "NetworkOfQueues" -> {Measured(400, 4, waiting) : waiting \in {0, 3}}
      [] OTHER -> {<< >>}
=============================================================================
