------------------------------- MODULE RunMW -------------------------------
(***************************************************************************)
(* Shutting the middleware down.  RunMW.shutdown is called by the JVM's    *)
(* shutdown hook, by the network thread when an exception ends it, and by  *)
(* workers that fail to talk to a server.  It is synchronized, works once, *)
(* and takes the network thread and the thread pool down while both go on. *)
(* The network thread and the workers are as coarse as that allows: which  *)
(* requests there are and what is done for them is in the other modules.   *)
(***************************************************************************)
EXTENDS Integers, Sequences

CONSTANTS
  Clients,
  Workers,          \* the threads of the pool
  Hook, Net, None,  \* the shutdown hook, the network thread, nobody
  ServerKey,        \* the selection key of the server socket
  MaxRequests,      \* bound on the requests of all clients together
  Signalled,        \* the JVM may be asked to exit
  NetMayFail,       \* what a client sends may be more than the parser can take
  ServersMayFail,   \* a server may break its connection
  ServersMayHang    \* a server may never answer

ASSUME NamesAssumption ==
  /\ Hook # Net /\ None \notin {Hook, Net}
  /\ Workers \cap {Hook, Net, None} = {}
  /\ None \notin Clients /\ ServerKey \notin Clients
ASSUME MaxRequestsAssumption == MaxRequests \in Nat
ASSUME FlagsAssumption == {Signalled, NetMayFail, ServersMayFail, ServersMayHang} \subseteq BOOLEAN

Threads == Workers \cup {Hook, Net}
Keys == Clients \cup {ServerKey}

VARIABLES
  shutdownRequested,
  owner,         \* the thread in shutdown, or None
  callers,       \* the threads that wait for the monitor of RunMW
  phase,         \* what the owner does next
  completed,     \* shutdown has run to its end
  halted,        \* the hook has returned: the JVM is gone
  server,        \* the server socket: "none", "open" or "closed"
  shouldRun,
  wakeup,        \* selector.wakeup() was called and no select has used it up
  net,           \* where the network thread is
  listening,     \* ServerKey is among selector.keys()
  selected,      \* the keys it has selected and not handled
  clientsToClose,\* <<>> for null, <<set>> for a set
  iterated,      \* what the set held when the iterator over it was made
  toClose,       \* what of it the iterator has not come to
  client,        \* "away", "connecting", "open", "sending", "served", "closed"
  requests,      \* how many requests were sent
  pool,          \* the executor: "running", "shutdown" or "stop"
  queue,         \* the clients of its queued tasks
  worker,        \* "idle", "running", "stuck", "calling", "after" or "ended"
  task,          \* the client of the task of each worker, or None
  interrupted    \* the workers shutdownNow has interrupted

iteratorVars == <<iterated, toClose>>
shutdownVars == <<shutdownRequested, owner, callers, phase, completed, halted, iteratorVars>>
netVars == <<net, listening, selected, clientsToClose>>
flagVars == <<server, shouldRun, wakeup>>
clientVars == <<client, requests>>
poolVars == <<pool, queue, worker, task, interrupted>>
vars == <<shutdownVars, netVars, flagVars, clientVars, poolVars>>

Phases == {"idle", "closeServer", "stop", "wakeup", "pool", "await", "now", "closeClients", "iterate",
           "return"}

TypeOK ==
  /\ {shutdownRequested, completed, halted, shouldRun, wakeup, listening} \subseteq BOOLEAN
  /\ owner \in Threads \cup {None} /\ callers \subseteq Threads
  /\ phase \in Phases /\ (phase = "idle" <=> owner = None)
  /\ server \in {"none", "open", "closed"}
  /\ net \in {"start", "open", "bind", "loop", "select", "handle", "accept", "exit", "collect",
              "close", "calling", "ended"}
  /\ selected \subseteq Keys
  /\ clientsToClose \in Seq(SUBSET Keys)
  /\ toClose \subseteq iterated /\ iterated \subseteq Keys
  /\ client \in [Clients -> {"away", "connecting", "open", "sending", "served", "closed"}]
  /\ requests \in 0 .. MaxRequests
  /\ pool \in {"running", "shutdown", "stop"}
  /\ queue \in Seq(Clients)
  /\ task \in [Workers -> Clients \cup {None}]
  /\ worker \in [Workers -> {"idle", "running", "stuck", "calling", "after", "ended"}]
  /\ \A w \in Workers : worker[w] \in {"idle", "ended"} <=> task[w] = None
  /\ interrupted \subseteq Workers
  /\ completed => shutdownRequested

(* main has created the pool and the handler, and started its thread.      *)
Init ==
  /\ shutdownRequested = FALSE /\ owner = None /\ callers = {} /\ phase = "idle"
  /\ completed = FALSE /\ halted = FALSE /\ iterated = {} /\ toClose = {}
  /\ server = "none" /\ shouldRun = TRUE /\ wakeup = FALSE
  /\ net = "start" /\ listening = FALSE /\ selected = {} /\ clientsToClose = << >>
  /\ client = [c \in Clients |-> "away"] /\ requests = 0
  /\ pool = "running" /\ queue = << >>
  /\ worker = [w \in Workers |-> "idle"] /\ task = [w \in Workers |-> None]
  /\ interrupted = {}

-----------------------------------------------------------------------------
(* RunMW.shutdown                                                          *)

Signal ==
  /\ Signalled /\ Hook \notin callers /\ owner # Hook
  /\ callers' = callers \cup {Hook}
  /\ UNCHANGED <<shutdownRequested, owner, phase, completed, halted, iteratorVars,
                 netVars, flagVars, clientVars, poolVars>>

(* MUTANT: the flag is set, but not asked.                                 *)
FirstPhaseAlways == "closeServer"

FirstPhase == IF shutdownRequested THEN "return" ELSE "closeServer"

(* MUTANT: the flag is never set.                                          *)
RequestedAsBefore == shutdownRequested

Requested == TRUE

Enter(t) ==
  /\ owner = None /\ t \in callers
  /\ owner' = t
  /\ callers' = callers \ {t}
  /\ shutdownRequested' = Requested
  /\ phase' = FirstPhase
  /\ UNCHANGED <<completed, halted, iteratorVars, netVars, flagVars, clientVars, poolVars>>

Goto(p) ==
  phase' = p /\ UNCHANGED <<shutdownRequested, owner, callers, completed, halted, iteratorVars>>

(* closeServerSocket; before the network thread has created the socket it  *)
(* throws a NullPointerException, which leaves shutdown.                   *)
CloseServer ==
  /\ phase = "closeServer"
  /\ server' = IF server = "none" THEN server ELSE "closed"
  /\ Goto(IF server = "none" THEN "return" ELSE "stop")
  /\ UNCHANGED <<shouldRun, wakeup, netVars, clientVars, poolVars>>

(* MUTANT: the selector is woken first.                                    *)
StopOrWakeupFirst(p) == IF p = "stop" THEN wakeup' = TRUE /\ UNCHANGED shouldRun
                        ELSE shouldRun' = FALSE /\ UNCHANGED wakeup

StopOrWakeup(p) == IF p = "stop" THEN shouldRun' = FALSE /\ UNCHANGED wakeup
                   ELSE wakeup' = TRUE /\ UNCHANGED shouldRun

StopNet ==
  /\ phase \in {"stop", "wakeup"}
  /\ StopOrWakeup(phase)
  /\ Goto(IF phase = "stop" THEN "wakeup" ELSE "pool")
  /\ UNCHANGED <<server, netVars, clientVars, poolVars>>

ShutdownPool ==
  /\ phase = "pool"
  /\ pool' = "shutdown"
  /\ Goto("await")
  /\ UNCHANGED <<netVars, flagVars, clientVars, queue, worker, task, interrupted>>

Terminated == queue = << >> /\ \A w \in Workers : worker[w] = "ended"

(* MUTANT: a worker that calls shutdown waits for the pool without limit.  *)
AwaitForever == IF Terminated THEN {"closeClients"} ELSE {}

(* MUTANT: nobody looks at what awaitTermination returns.                  *)
AwaitUnchecked == {"closeClients"}

(* awaitTermination: the timeout may come at any time.                     *)
AwaitEnds == IF Terminated THEN {"closeClients"} ELSE {"now"}

AwaitTermination ==
  /\ phase = "await"
  /\ \E p \in AwaitEnds : Goto(p)
  /\ UNCHANGED <<netVars, flagVars, clientVars, poolVars>>

TasksAfterShutdownNow == << >>

(* Interrupts every worker, the one that called shutdown included.         *)
ShutdownNow ==
  /\ phase = "now"
  /\ pool' = "stop"
  /\ queue' = TasksAfterShutdownNow
  /\ interrupted' = {w \in Workers : worker[w] # "ended"}
  /\ Goto("closeClients")
  /\ UNCHANGED <<netVars, flagVars, clientVars, worker, task>>

(* clientsToClose.forEach makes an iterator over what the set holds now.   *)
CloseClientSockets ==
  /\ phase = "closeClients"
  /\ iterated' = IF clientsToClose = << >> THEN {} ELSE Head(clientsToClose)
  /\ toClose' = iterated'
  /\ phase' = "iterate"
  /\ UNCHANGED <<shutdownRequested, owner, callers, completed, halted,
                 netVars, flagVars, clientVars, poolVars>>

CloseNext(k) ==
  /\ phase = "iterate" /\ k \in toClose
  /\ toClose' = toClose \ {k}
  /\ client' = IF k = ServerKey THEN client ELSE [client EXCEPT ![k] = "closed"]
  /\ UNCHANGED <<shutdownRequested, owner, callers, phase, completed, halted, iterated,
                 netVars, flagVars, requests, poolVars>>

(* Nothing is left for the iterator: it does not look at the set again.    *)
ShutdownEnds ==
  /\ phase = "iterate" /\ toClose = {}
  /\ completed' = TRUE
  /\ iterated' = {}
  /\ phase' = "return"
  /\ UNCHANGED <<shutdownRequested, owner, callers, halted, toClose,
                 netVars, flagVars, clientVars, poolVars>>

(* The network thread has added to the set, and the iterator has not come  *)
(* to its end.                                                             *)
Overtaken == toClose # {} /\ Head(clientsToClose) # iterated

Leave == owner' = None /\ phase' = "idle"

(* HashIterator.next throws a ConcurrentModificationException if it sees   *)
(* that (nothing synchronizes the two threads). It leaves shutdown; the    *)
(* hook ends with it, and so does the task of a worker, without an answer. *)
IterationThrows ==
  /\ phase = "iterate" /\ Overtaken
  /\ Leave
  /\ halted' = (owner = Hook)
  /\ worker' = [w \in Workers |-> IF owner = w THEN "idle" ELSE worker[w]]
  /\ task' = [w \in Workers |-> IF owner = w THEN None ELSE task[w]]
  /\ UNCHANGED <<shutdownRequested, callers, completed, iteratorVars,
                 netVars, flagVars, clientVars, pool, queue, interrupted>>

(* The thread goes on where it has called shutdown.                        *)
Return ==
  /\ phase = "return"
  /\ Leave
  /\ halted' = (owner = Hook)
  /\ net' = IF owner = Net THEN "ended" ELSE net
  /\ worker' = [w \in Workers |-> IF owner = w THEN "after" ELSE worker[w]]
  /\ UNCHANGED <<shutdownRequested, callers, completed, iteratorVars, listening, selected, clientsToClose,
                 flagVars, clientVars, pool, queue, task, interrupted>>

OwnerStep ==
  \/ CloseServer \/ StopNet \/ ShutdownPool \/ AwaitTermination \/ ShutdownNow
  \/ CloseClientSockets \/ ShutdownEnds \/ IterationThrows \/ Return
  \/ \E k \in Keys : CloseNext(k)

CallShutdown(t) ==
  /\ callers' = callers \cup {t}
  /\ UNCHANGED <<shutdownRequested, owner, phase, completed, halted, iteratorVars>>

-----------------------------------------------------------------------------
(* The network thread: ClientsSocketsHandler.run                           *)

NetAt(from, to) == net = from /\ net' = to

OpenSelector ==
  /\ NetAt("start", "open")
  /\ UNCHANGED <<shutdownVars, listening, selected, clientsToClose, flagVars, clientVars, poolVars>>

OpenServer ==
  /\ NetAt("open", "bind")
  /\ server' = "open"
  /\ UNCHANGED <<shutdownVars, listening, selected, clientsToClose, shouldRun, wakeup, clientVars, poolVars>>

(* The outer catch.                                                        *)
Throw == net' = "calling" /\ CallShutdown(Net)

Bind ==
  /\ net = "bind"
  /\ \/ /\ server = "open"
        /\ net' = "loop" /\ listening' = TRUE /\ UNCHANGED shutdownVars
     \/ /\ server = "closed"
        /\ Throw /\ UNCHANGED listening
  /\ UNCHANGED <<selected, clientsToClose, flagVars, clientVars, poolVars>>

Loop ==
  /\ net = "loop"
  /\ net' = IF shouldRun THEN "select" ELSE "exit"
  /\ UNCHANGED <<shutdownVars, listening, selected, clientsToClose, flagVars, clientVars, poolVars>>

(* The clients whose request has come, and the server key if one connects. *)
Events ==
  {c \in Clients : client[c] = "sending"}
    \cup {k \in {ServerKey} : server = "open" /\ \E c \in Clients : client[c] = "connecting"}

(* A select drops the keys that were cancelled, the one of a closed server *)
(* socket among them.                                                      *)
Select ==
  /\ NetAt("select", "handle")
  /\ wakeup \/ Events # {}
  /\ selected' = Events
  /\ listening' = (server = "open")
  /\ wakeup' = FALSE
  /\ UNCHANGED <<shutdownVars, clientsToClose, server, shouldRun, clientVars, poolVars>>

AllHandled ==
  /\ NetAt("handle", "loop")
  /\ selected = {}
  /\ UNCHANGED <<shutdownVars, listening, selected, clientsToClose, flagVars, clientVars, poolVars>>

Handle(k) == net = "handle" /\ k \in selected /\ selected' = selected \ {k}

(* key.isValid() of the server key, which is cancelled with the socket.    *)
TakeServerKey ==
  /\ Handle(ServerKey)
  /\ net' = IF server = "open" THEN "accept" ELSE "handle"
  /\ UNCHANGED <<shutdownVars, listening, clientsToClose, flagVars, clientVars, poolVars>>

Accept ==
  /\ net = "accept"
  /\ \/ /\ server = "closed"
        /\ Throw
        /\ UNCHANGED client
     \/ /\ server = "open" /\ net' = "handle"
        /\ \E c \in Clients : /\ client[c] = "connecting"
                              /\ client' = [client EXCEPT ![c] = "open"]
        /\ UNCHANGED shutdownVars
  /\ UNCHANGED <<listening, selected, clientsToClose, flagVars, requests, poolVars>>

(* submit throws RejectedExecutionException once the pool is shut down.    *)
Enqueue(c) ==
  /\ Handle(c)
  /\ client[c] = "sending"
  /\ client' = [client EXCEPT ![c] = "served"]
  /\ \/ /\ pool = "running"
        /\ queue' = Append(queue, c)
        /\ net' = "handle" /\ UNCHANGED shutdownVars
     \/ /\ pool # "running" \/ NetMayFail
        /\ Throw /\ UNCHANGED queue
  /\ UNCHANGED <<listening, clientsToClose, flagVars, requests, pool, worker, task, interrupted>>

(* selector.keys() *)
Registered ==
  {c \in Clients : client[c] \in {"open", "sending", "served"}} \cup {k \in {ServerKey} : listening}

NewSet ==
  /\ NetAt("exit", "collect")
  /\ clientsToClose' = <<{}>>
  /\ UNCHANGED <<shutdownVars, listening, selected, flagVars, clientVars, poolVars>>

Collect(k) ==
  /\ net = "collect"
  /\ k \in Registered \ Head(clientsToClose)
  /\ clientsToClose' = <<Head(clientsToClose) \cup {k}>>
  /\ UNCHANGED <<shutdownVars, net, listening, selected, flagVars, clientVars, poolVars>>

CloseSelector ==
  /\ NetAt("collect", "ended")
  /\ Registered \subseteq Head(clientsToClose)
  /\ UNCHANGED <<shutdownVars, listening, selected, clientsToClose, flagVars, clientVars, poolVars>>

NetStep ==
  \/ OpenSelector \/ OpenServer \/ Bind \/ Loop \/ Select \/ AllHandled \/ Accept
  \/ TakeServerKey \/ NewSet \/ CloseSelector
  \/ \E c \in Clients : Enqueue(c)
  \/ \E k \in Keys : Collect(k)

-----------------------------------------------------------------------------
(* The pool and its workers.                                               *)

Take(w) ==
  /\ worker[w] = "idle" /\ pool # "stop" /\ queue # << >>
  /\ task' = [task EXCEPT ![w] = Head(queue)]
  /\ queue' = Tail(queue)
  /\ worker' = [worker EXCEPT ![w] = "running"]
  /\ UNCHANGED <<shutdownVars, netVars, flagVars, clientVars, pool, interrupted>>

End(w) ==
  /\ worker[w] = "idle"
  /\ pool = "stop" \/ (pool = "shutdown" /\ queue = << >>)
  /\ worker' = [worker EXCEPT ![w] = "ended"]
  /\ UNCHANGED <<shutdownVars, netVars, flagVars, clientVars, pool, queue, task, interrupted>>

(* The answer; a write of an interrupted thread closes the channel.        *)
Finish(w) ==
  /\ worker[w] \in {"running", "after"}
  /\ LET c == task[w] IN
     client' = IF client[c] = "closed" THEN client
               ELSE [client EXCEPT ![c] = IF w \in interrupted THEN "closed" ELSE "open"]
  /\ task' = [task EXCEPT ![w] = None]
  /\ worker' = [worker EXCEPT ![w] = "idle"]
  /\ UNCHANGED <<shutdownVars, netVars, flagVars, requests, pool, queue, interrupted>>

Hang(w) ==
  /\ ServersMayHang /\ worker[w] = "running"
  /\ worker' = [worker EXCEPT ![w] = "stuck"]
  /\ UNCHANGED <<shutdownVars, netVars, flagVars, clientVars, pool, queue, task, interrupted>>

(* An IOException: of a server, or because the thread was interrupted.     *)
Fail(w) ==
  /\ \/ /\ ServersMayFail
        /\ worker[w] = "running"
     \/ /\ w \in interrupted
        /\ worker[w] \in {"running", "stuck"}
  /\ CallShutdown(w)
  /\ worker' = [worker EXCEPT ![w] = "calling"]
  /\ UNCHANGED <<netVars, flagVars, clientVars, pool, queue, task, interrupted>>

WorkerStep(w) == Take(w) \/ End(w) \/ Finish(w) \/ Fail(w)

-----------------------------------------------------------------------------
Connect(c) ==
  /\ client[c] = "away" /\ server = "open"
  /\ client' = [client EXCEPT ![c] = "connecting"]
  /\ UNCHANGED <<shutdownVars, netVars, flagVars, requests, poolVars>>

Request(c) ==
  /\ client[c] = "open" /\ requests < MaxRequests
  /\ client' = [client EXCEPT ![c] = "sending"]
  /\ requests' = requests + 1
  /\ UNCHANGED <<shutdownVars, netVars, flagVars, poolVars>>

Next ==
  /\ ~halted
  /\ \/ Signal \/ OwnerStep \/ NetStep
     \/ \E t \in Threads : Enter(t)
     \/ \E w \in Workers : WorkerStep(w) \/ Hang(w)
     \/ \E c \in Clients : Connect(c) \/ Request(c)

(* Every thread goes on that can, and the monitor, when it is free, is     *)
(* given to one of those that wait for it.                                 *)
Fairness ==
  /\ WF_vars(~halted /\ OwnerStep)
  /\ WF_vars(~halted /\ NetStep)
  /\ WF_vars(~halted /\ \E t \in Threads : Enter(t))
  /\ \A w \in Workers : WF_vars(~halted /\ WorkerStep(w))

Spec == Init /\ [][Next]_vars /\ Fairness

-----------------------------------------------------------------------------
(* Nobody goes through shutdown a second time.                             *)
ShutdownOnce == completed => phase \in {"idle", "return"}

(* When shutdown has run to its end the middleware accepts no connection,  *)
(* the network thread is told to stop and no task is left that could still *)
(* be started.                                                             *)
CompletedMeansStopped ==
  completed => server = "closed" /\ ~shouldRun /\ pool # "running" /\ queue = << >>

(* A shutdown that was begun runs to its end, whoever has begun it: the    *)
(* pool that does not terminate, the thread that waits for itself and the  *)
(* interrupts do not stop it. Two things do: the JVM has ended with the    *)
(* hook, and the network thread adds to the set of the client sockets      *)
(* while shutdown walks through it (forEach throws).                       *)
ShutdownCompletes == shutdownRequested ~> completed \/ halted \/ Overtaken

(* After a shutdown no thread is left: the network thread leaves select    *)
(* and the workers their servers.                                          *)
ThreadsEnd ==
  shutdownRequested ~>
    (halted \/ (net = "ended" /\ \A w \in Workers : worker[w] = "ended"))

=============================================================================
