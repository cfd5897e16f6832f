---------------------------- MODULE Middleware ----------------------------
(***************************************************************************)
(* The middleware as a whole: clients, network thread, queue, worker       *)
(* threads and servers, without faults (WorkerThread has them).  Each      *)
(* worker thread has a connection of its own to every server, so nothing   *)
(* orders the commands of two threads at a server.                         *)
(***************************************************************************)
EXTENDS Naturals, Sequences, FiniteSets, Functions

CONSTANTS
    Clients, Keys, Commands, MaxRequests, None,     \* as in ReplicatedStore
    Threads,        \* the threads of the pool
    NumServers

ASSUME MiddlewareAssumption ==
    /\ Commands \subseteq [kind : {"set", "get"}, keys : Seq(Keys) \ {<< >>}]
    /\ \A command \in Commands : command.kind = "set" => Len(command.keys) = 1
    /\ MaxRequests \in Nat \ {0}
    /\ None \notin Clients \X (1 .. MaxRequests)
    /\ NumServers \in Nat \ {0}

Servers == 0 .. NumServers - 1
KeyLists == {command.keys : command \in Commands} \union {<<k>> : k \in Keys}

VARIABLES
    readSharded,        \* the start parameter
    findTargetServer,   \* the hash of a key list
    requests,           \* what the clients have asked and been answered
    queue,              \* the executor's queue of requests
    work,               \* thread -> the request it handles, and how far it is
    wire,               \* thread, server -> what is on the connection
    data,               \* server, key -> the request whose value it holds
    replied             \* server -> the requests it has executed, with what it read

vars == <<readSharded, findTargetServer, requests, queue, work, wire, data, replied>>

RequestIds == Clients \X (1 .. MaxRequests)
Ids == DOMAIN requests
Pending == {r \in Ids : ~requests[r].answered}
Issued(c) == {r \in Ids : r[1] = c}
IsSet(r) == requests[r].kind = "set"

Idle == [request |-> None, toSend |-> << >>, toReceive |-> << >>, response |-> << >>]
Busy == {t \in Threads : work[t].request # None}
Handled == {work[t].request : t \in Busy}

(* MUTANT: one server too few.                                             *)
AllButTheLast == [i \in 1 .. NumServers - 1 |-> i - 1]

\* sendToAll goes from server 0 to the last one.
AllServers == [i \in 1 .. NumServers |-> i - 1]

maxKeysPerServer(keys) == (Len(keys) + NumServers - 1) \div NumServers

\* The keys of the n-th server, when a multi-GET is split up: the loop turns to the
\* next server after maxKeysPerServer keys.
keySplit(keys, n) ==
    LET share == maxKeysPerServer(keys)
        last == IF n * share < Len(keys) THEN n * share ELSE Len(keys)
    IN SubSeq(keys, (n - 1) * share + 1, last)

answerAssemblyOrder(keys) ==
    [n \in 1 .. (Len(keys) - 1) \div maxKeysPerServer(keys) + 1 |->
        (findTargetServer[keys] + n - 1) % NumServers]

IsSplit(r) == readSharded /\ Len(requests[r].keys) > 1

\* The servers a handler sends to, in the order it sends and waits.
Targets(r) ==
    IF IsSet(r) THEN AllServers
    ELSE IF IsSplit(r) THEN answerAssemblyOrder(requests[r].keys)
    ELSE <<findTargetServer[requests[r].keys]>>

\* The keys that server s is asked for.
KeysAt(r, s) ==
    LET keys == requests[r].keys
        order == answerAssemblyOrder(keys)
    IN IF IsSplit(r) THEN keySplit(keys, CHOOSE n \in DOMAIN order : order[n] = s) ELSE keys

\* The function f, with the value y of x besides.
Put(f, x, y) == [z \in DOMAIN f \union {x} |-> IF z = x THEN y ELSE f[z]]

Init ==
    /\ readSharded \in BOOLEAN
    /\ findTargetServer \in [KeyLists -> Servers]
    /\ requests = << >>
    /\ queue = << >>
    /\ work = [t \in Threads |-> Idle]
    /\ wire = [t \in Threads |-> [s \in Servers |-> "quiet"]]
    /\ data = [s \in Servers |-> [k \in Keys |-> None]]
    /\ replied = [s \in Servers |-> << >>]

Request(c, command) ==
    /\ Issued(c) \intersect Pending = {}
    /\ Cardinality(Ids) < MaxRequests
    /\ \E n \in 1 .. MaxRequests :
        /\ Issued(c) = {c} \X (1 .. n - 1)
        /\ requests' = Put(requests, <<c, n>>,
               [kind |-> command.kind, keys |-> command.keys, after |-> Ids \ Pending,
                answered |-> FALSE, answer |-> << >>])
    /\ UNCHANGED <<readSharded, findTargetServer, queue, work, wire, data, replied>>

\* The network thread has read a whole request and submits it.
EnqueueChannel(r) ==
    /\ r \in Pending \ (Range(queue) \union Handled)
    /\ queue' = Append(queue, r)
    /\ UNCHANGED <<readSharded, findTargetServer, requests, work, wire, data, replied>>

(* MUTANT: the request stays in the queue.                                 *)
TakeCopy(t) ==
    /\ work[t] = Idle
    /\ queue # << >>
    /\ LET r == Head(queue) IN
       work' = [work EXCEPT ![t] = [request |-> r, toSend |-> Targets(r),
                                    toReceive |-> Targets(r), response |-> << >>]]
    /\ UNCHANGED <<readSharded, findTargetServer, requests, queue, wire, data, replied>>

Take(t) ==
    /\ work[t] = Idle
    /\ queue # << >>
    /\ LET r == Head(queue) IN
       work' = [work EXCEPT ![t] = [request |-> r, toSend |-> Targets(r),
                                    toReceive |-> Targets(r), response |-> << >>]]
    /\ queue' = Tail(queue)
    /\ UNCHANGED <<readSharded, findTargetServer, requests, wire, data, replied>>

SendToServer(t) ==
    /\ work[t].toSend # << >>
    /\ wire' = [wire EXCEPT ![t][Head(work[t].toSend)] = "command"]
    /\ work' = [work EXCEPT ![t].toSend = Tail(@)]
    /\ UNCHANGED <<readSharded, findTargetServer, requests, queue, data, replied>>

\* Server s executes the command of thread t, in any order with those of others.
ExecuteSet(t, s) ==
    LET r == work[t].request IN
    /\ wire[t][s] = "command"
    /\ IsSet(r)
    /\ data' = [data EXCEPT ![s][requests[r].keys[1]] = r]
    /\ replied' = [replied EXCEPT ![s] = Put(@, r, << >>)]
    /\ wire' = [wire EXCEPT ![t][s] = "reply"]
    /\ UNCHANGED <<readSharded, findTargetServer, requests, queue, work>>

ExecuteGet(t, s) ==
    LET r == work[t].request IN
    /\ wire[t][s] = "command"
    /\ ~IsSet(r)
    /\ replied' = [replied EXCEPT ![s] =
                    Put(@, r, [i \in DOMAIN KeysAt(r, s) |-> data[s][KeysAt(r, s)[i]]])]
    /\ wire' = [wire EXCEPT ![t][s] = "reply"]
    /\ UNCHANGED <<readSharded, findTargetServer, requests, queue, work, data>>

(* MUTANT: a SET is acknowledged after the first STORED.                   *)
WaitForFirstResponse(t) ==
    /\ work[t].toSend = << >> /\ work[t].toReceive # << >>
    /\ LET s == Head(work[t].toReceive)
           r == work[t].request
       IN
       /\ wire[t][s] = "reply"
       /\ work' = [work EXCEPT ![t].toReceive = IF IsSet(r) THEN << >> ELSE Tail(@),
                               ![t].response = @ \o replied[s][r]]
       /\ wire' = [wire EXCEPT ![t][s] = "quiet"]
    /\ UNCHANGED <<readSharded, findTargetServer, requests, queue, data, replied>>

\* The handler waits for the servers in the order in which it sent.
WaitForSingleResponse(t) ==
    /\ work[t].toSend = << >> /\ work[t].toReceive # << >>
    /\ LET s == Head(work[t].toReceive) IN
       /\ wire[t][s] = "reply"
       /\ work' = [work EXCEPT ![t].toReceive = Tail(@),
                               ![t].response = @ \o replied[s][work[t].request]]
       /\ wire' = [wire EXCEPT ![t][s] = "quiet"]
    /\ UNCHANGED <<readSharded, findTargetServer, requests, queue, data, replied>>

SendToClient(t) ==
    /\ t \in Busy
    /\ work[t].toSend = << >> /\ work[t].toReceive = << >>
    /\ requests' = [requests EXCEPT ![work[t].request].answered = TRUE,
                                    ![work[t].request].answer = work[t].response]
    /\ work' = [work EXCEPT ![t] = Idle]
    /\ UNCHANGED <<readSharded, findTargetServer, queue, wire, data, replied>>

ThreadStep(t) == Take(t) \/ SendToServer(t) \/ WaitForSingleResponse(t) \/ SendToClient(t)
Execute(t, s) == ExecuteSet(t, s) \/ ExecuteGet(t, s)

Next ==
    \/ \E c \in Clients, command \in Commands : Request(c, command)
    \/ \E r \in Pending : EnqueueChannel(r)
    \/ \E t \in Threads : ThreadStep(t) \/ \E s \in Servers : Execute(t, s)

Spec == Init /\ [][Next]_vars
-----------------------------------------------------------------------------
Values == RequestIds \union {None}
ThreadStates ==
    [request : Values, toSend : Seq(Servers), toReceive : Seq(Servers), response : Seq(Values)]

\* A request is in one place at a time: with the network thread, in the queue or
\* on one thread; and a connection is in use only for a request being handled.
TypeOK ==
    /\ Ids \subseteq RequestIds
    /\ Handled \union Range(queue) \subseteq Pending
    /\ Handled \intersect Range(queue) = {}
    /\ IsInjective(queue)
    /\ \A t, u \in Busy : work[t].request = work[u].request => t = u
    /\ work \in [Threads -> ThreadStates]
    /\ \A t \in Threads, s \in Servers :
        wire[t][s] # "quiet" => t \in Busy /\ s \in Range(work[t].toReceive)
    /\ data \in [Servers -> [Keys -> Values]]
    /\ \A s \in Servers : DOMAIN replied[s] \subseteq Ids

(***************************************************************************)
(* Once no SET of a key is under way, two servers may hold different       *)
(* values of it only when these were written by SETs of which neither      *)
(* ended before the other began: sendToAll orders the servers, not the     *)
(* threads.                                                                *)
(***************************************************************************)
ReplicasDifferOnlyAfterRaces ==
    \A k \in Keys, s1, s2 \in Servers :
        LET w1 == data[s1][k]
            w2 == data[s2][k]
        IN  /\ w1 # w2
            /\ \A r \in Pending : ~(IsSet(r) /\ requests[r].keys = <<k>>)
            => /\ w1 # None /\ w2 # None
               /\ w1 \notin requests[w2].after /\ w2 \notin requests[w1].after

(***************************************************************************)
(* The refinement.  The abstract store is the copy of the server to which  *)
(* a GET of the single key is sent; a SET and a GET of one key take effect *)
(* when that server executes them.                                         *)
(***************************************************************************)
Primary(k) == findTargetServer[<<k>>]
Effects ==
    LET here(r) == Len(requests[r].keys) = 1
                   /\ r \in DOMAIN replied[Primary(requests[r].keys[1])]
    IN [r \in {i \in Ids : here(i)} |-> replied[Primary(requests[r].keys[1])][r]]

Store == INSTANCE ReplicatedStore WITH
    store <- [k \in Keys |-> data[Primary(k)][k]],
    effects <- Effects

\* What the clients see is what one store would show them.
ImplementsStore == Store!Spec
=============================================================================
