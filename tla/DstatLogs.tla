----------------------------- MODULE DstatLogs -----------------------------
(***************************************************************************)
(* The samples that dstat has taken on the machines of the clients and of  *)
(* the servers (client_dstat_logs.ipynb, server_dstat_logs.ipynb).  The    *)
(* file of a client holds one repetition, that of a server the whole       *)
(* experiment.                                                             *)
(*                                                                         *)
(* A time is a text '%d-%m %H:%M:%S': <<day, month, second of the day>>,   *)
(* and texts are compared from left to right.  A sample is a record        *)
(* [time, idl, recv, send].                                                *)
(***************************************************************************)
EXTENDS Rationals

CONSTANTS SecondsPerDay, DaysPerMonth

ASSUME CalendarAssumption == SecondsPerDay \in Nat \ {0} /\ DaysPerMonth \in Nat \ {0}

strftime(t) == LET day == t \div SecondsPerDay
               IN <<day % DaysPerMonth, day \div DaysPerMonth, t % SecondsPerDay>>

strptime(time) == (time[2] * DaysPerMonth + time[1]) * SecondsPerDay + time[3]

Before(s, t) == \E i \in 1..3 : s[i] < t[i] /\ \A j \in 1..(i - 1) : s[j] = t[j]

NotAfter(s, t) == s = t \/ Before(s, t)

Stamps(csv_file) == {sample.time : sample \in csv_file}

(* MUTANT: truncated_end_time = parsed_end_time + timedelta. *)
extract_times_late(csv_file, truncate_sec) ==
    LET start_time == CHOOSE s \in Stamps(csv_file) : \A t \in Stamps(csv_file) : NotAfter(s, t)
        end_time == CHOOSE s \in Stamps(csv_file) : \A t \in Stamps(csv_file) : NotAfter(t, s)
    IN <<strftime(strptime(start_time) + truncate_sec), strftime(strptime(end_time) + truncate_sec)>>

extract_startend_times(csv_file, truncate_sec) ==
    LET start_time == CHOOSE s \in Stamps(csv_file) : \A t \in Stamps(csv_file) : NotAfter(s, t)
        end_time == CHOOSE s \in Stamps(csv_file) : \A t \in Stamps(csv_file) : NotAfter(t, s)
    IN <<strftime(strptime(start_time) + truncate_sec), strftime(strptime(end_time) - truncate_sec)>>

MeansOf(samples) ==
    LET mean(column) == Mean([sample \in samples |-> Whole(sample[column])])
    IN [recv |-> mean("recv"), send |-> mean("send"), load |-> Minus(Whole(100), mean("idl"))]

read_dstat_from_server(csv_file, startend_times) ==
    MeansOf({sample \in csv_file : /\ NotAfter(startend_times[1], sample.time)
                                   /\ NotAfter(sample.time, startend_times[2])})

\* On a client the times come from the file the samples come from.
read_single_dstat(csv_file, truncate_sec) ==
    read_dstat_from_server(csv_file, extract_startend_times(csv_file, truncate_sec))

OverReps(metrics) ==
    [column \in {"recv", "send", "load"} |-> Mean([rep \in DOMAIN metrics |-> metrics[rep][column]])]

read_dstat_all_reps(client_files, truncate_sec) ==
    OverReps([rep \in DOMAIN client_files |-> read_single_dstat(client_files[rep], truncate_sec)])

read_server_dstat_all_reps(client_files, server_file, truncate_sec) ==
    OverReps([rep \in DOMAIN client_files |->
        read_dstat_from_server(server_file, extract_startend_times(client_files[rep], truncate_sec))])

\* The load is averaged over the machines, the traffic is added up; what is not known is left out.
aggregate_dstat(data) ==
    LET known(column) == {i \in DOMAIN data : IsFraction(data[i][column])}
        sum(column) == Total([i \in known(column) |-> data[i][column]])
    IN [load |-> Mean([i \in DOMAIN data |-> data[i].load]), recv |-> sum("recv"), send |-> sum("send")]

\* client_files: client -> its files, one for each repetition.
aggregate_dstat_all_clients(client_files, clients, truncate_sec) ==
    aggregate_dstat([i \in DOMAIN clients |-> read_dstat_all_reps(client_files[clients[i]], truncate_sec)])

aggregate_dstat_all_servers(client_files, server_files, servers, truncate_sec) ==
    aggregate_dstat([i \in DOMAIN servers |->
        read_server_dstat_all_reps(client_files, server_files[servers[i]], truncate_sec)])
=============================================================================
