------------------------------- MODULE Setups -------------------------------
(***************************************************************************)
(* What the master scripts of the experiments have launched: the machines, *)
(* the threads of each memtier instance, the instances on each client (one *)
(* for every machine it connects to), and the configurations measured.     *)
(***************************************************************************)
EXTENDS Naturals, FiniteSets

BothWorkloads == {"writeOnly", "readOnly"}

setup_2_1 == [clients |-> 1..3, middlewares |-> {}, servers |-> {6}, threads |-> 2, instances |-> 1,
              workloads |-> BothWorkloads, settings |-> {1, 4, 8, 16, 32, 64, 128, 256}]
setup_2_2 == [clients |-> {1}, middlewares |-> {}, servers |-> {6, 7}, threads |-> 1, instances |-> 2,
              workloads |-> BothWorkloads, settings |-> {1, 4, 8, 16, 32, 64, 128, 256, 512}]
setup_3_1 == [clients |-> {1}, middlewares |-> {4}, servers |-> {6}, threads |-> 2, instances |-> 1,
              workloads |-> BothWorkloads, settings |-> {1, 8, 16, 32, 64, 96, 128, 160}]
setup_3_2 == [clients |-> {1}, middlewares |-> {4, 5}, servers |-> {6}, threads |-> 1, instances |-> 2,
              workloads |-> BothWorkloads, settings |-> {1, 8, 16, 32, 64, 96, 128, 160}]
setup_3_2_rerun == [clients |-> {1, 2}, middlewares |-> {4, 5}, servers |-> {6}, threads |-> 1,
                    instances |-> 2, workloads |-> BothWorkloads,
                    settings |-> {1, 8, 16, 32, 64, 96, 128, 160}]
setup_4 == [clients |-> 1..3, middlewares |-> {4, 5}, servers |-> 6..8, threads |-> 1, instances |-> 2,
            workloads |-> {"writeOnly"}, settings |-> {1, 4, 8, 12, 16, 20, 24, 32, 48, 64}]
\* Here the settings are the numbers of keys.
setup_5_1 == [clients |-> 1..3, middlewares |-> {4, 5}, servers |-> 6..8, threads |-> 1, instances |-> 2,
              workloads |-> {"sharded"}, settings |-> {1, 3, 6, 9}]
setup_5_2 == [clients |-> 1..3, middlewares |-> {4, 5}, servers |-> 6..8, threads |-> 1, instances |-> 2,
              workloads |-> {"nonsharded"}, settings |-> {1, 3, 6, 9}]

\* The experiments by the directory the notebooks are given, and the label of their figures.
Launched ==
    [exp2_1 |-> setup_2_1, exp2_2 |-> setup_2_2, exp3_1 |-> setup_3_1, exp3_2 |-> setup_3_2,
     exp3_2_rerun |-> setup_3_2_rerun, exp4 |-> setup_4, exp5_1 |-> setup_5_1, exp5_2 |-> setup_5_2]

LabelOf ==
    [exp2_1 |-> "exp2_1", exp2_2 |-> "exp2_2", exp3_1 |-> "exp3_1", exp3_2 |-> "exp3_2",
     exp3_2_rerun |-> "exp3_2_2", exp4 |-> "exp4", exp5_1 |-> "exp5", exp5_2 |-> "exp5"]

\* client_01.log, or client_01_0.log and client_01_1.log.
ClientLogs(setup) ==
    IF setup.instances = 1 THEN {<<c>> : c \in setup.clients}
    ELSE setup.clients \X (0..(setup.instances - 1))

\* The number of clients for one virtual client per thread.
AllThreads(setup) == Cardinality(setup.clients) * setup.threads * setup.instances
=============================================================================
