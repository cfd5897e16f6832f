--------------------------- MODULE MC_Evaluation ---------------------------
EXTENDS Evaluation

Config(vc, workers) == [workload |-> "writeOnly", vc |-> vc, workers |-> workers]

MCPlans == {<<<<Config(1, 8), 1>>, <<Config(1, 8), 2>>>>,
            <<<<Config(1, 8), 1>>, <<Config(1, 16), 1>>, <<Config(2, 8), 1>>>>}

MCMiddlewares == <<"middleware_04", "middleware_05">>
MCClientLogs == <<"client_01_0.log", "client_01_1.log">>

\* A SET answered at once and a GET that waits everywhere.
MCTimings ==
    {[requestType |-> "SET", firstReadTime |-> 0, arrivalTime |-> 0, previousArrivalTime |-> -1,
      enqueueTime |-> 1, dequeueTime |-> 1, beforeSendTime |-> 2, afterReceiveTime |-> 4,
      completedTime |-> 5, queueLength |-> 0],
     [requestType |-> "GET", firstReadTime |-> 0, arrivalTime |-> 1, previousArrivalTime |-> -1,
      enqueueTime |-> 2, dequeueTime |-> 6, beforeSendTime |-> 9, afterReceiveTime |-> 10,
      completedTime |-> 12, queueLength |-> 2]}

MCMeasurements == {[throughput |-> 1, responsetime |-> 2], [throughput |-> 3, responsetime |-> 1]}
=============================================================================
