---------------------------- MODULE RunMWProofs ----------------------------
(***************************************************************************)
(* The safety properties of the shutdown for any number of workers,        *)
(* clients and requests.                                                   *)
(***************************************************************************)
EXTENDS RunMW, TLAPS

(* A thread that waits for the monitor or holds it is where it has called  *)
(* shutdown, and does not do both.                                         *)
CallersCall ==
  /\ owner \notin callers
  /\ \A w \in Workers : (w \in callers \/ owner = w) => worker[w] = "calling"
  /\ (Net \in callers \/ owner = Net) => net = "calling"

(* The server socket is created by the network thread, once.               *)
ServerCreatedOnce == server = "none" <=> net \in {"start", "open"}

(* The network thread adds to a set it has made, and what is iterated is a *)
(* set it has made.                                                        *)
SetIsMade == net = "collect" \/ toClose # {} => clientsToClose # << >>

(* What shutdown has done when it reaches a phase. Nobody is in its body   *)
(* once it was completed.                                                  *)
Progress ==
  /\ phase \notin {"idle", "return"} => shutdownRequested /\ ~completed
  /\ (phase \in {"stop", "wakeup", "pool", "await", "now", "closeClients", "iterate"} \/ completed)
       => server = "closed"
  /\ (phase \in {"wakeup", "pool", "await", "now", "closeClients", "iterate"} \/ completed) => ~shouldRun
  /\ (phase \in {"await", "now", "closeClients", "iterate"} \/ completed) => pool # "running"
  /\ (phase \in {"closeClients", "iterate"} \/ completed) => queue = << >>

IInv == TypeOK /\ CallersCall /\ ServerCreatedOnce /\ SetIsMade /\ Progress

USE NamesAssumption, MaxRequestsAssumption DEF Threads, Phases, Keys, iteratorVars

(* Sequences of none and of one element, and their first element.          *)
LEMMA ShortSequences ==
  ASSUME NEW S
  PROVE  /\ << >> \in Seq(S)
         /\ \A x \in S : <<x>> \in Seq(S)
         /\ \A s \in Seq(S) : s # << >> => Head(s) \in S
         /\ \A s \in Seq(S), x \in S : Append(s, x) \in Seq(S)
OBVIOUS

(* The invariant holds at the start.                                       *)
LEMMA InitIInv == Init => IInv
<1> SUFFICES ASSUME Init PROVE IInv
  OBVIOUS
<1> USE DEF Init
<1>1. queue \in Seq(Clients) /\ clientsToClose \in Seq(SUBSET Keys)
  BY ShortSequences
<1>2. TypeOK
  <2>1. {shutdownRequested, completed, halted, shouldRun, wakeup} \subseteq BOOLEAN
    OBVIOUS
  <2>2. /\ client \in [Clients -> {"away", "connecting", "open", "sending", "served", "closed"}]
        /\ requests \in 0 .. MaxRequests
    OBVIOUS
  <2>3. /\ worker \in [Workers -> {"idle", "running", "stuck", "calling", "after", "ended"}]
        /\ task \in [Workers -> Clients \cup {None}]
        /\ \A w \in Workers : worker[w] \in {"idle", "ended"} <=> task[w] = None
    OBVIOUS
  <2> QED
    BY <1>1, <2>1, <2>2, <2>3 DEF TypeOK
<1>3. CallersCall /\ ServerCreatedOnce /\ SetIsMade /\ Progress
  BY DEF CallersCall, ServerCreatedOnce, SetIsMade, Progress
<1> QED
  BY <1>2, <1>3 DEF IInv

(* Each part of the code preserves the invariant.                          *)
LEMMA ShutdownKeepsIInv ==
  ASSUME IInv, OwnerStep \/ Signal \/ \E t \in Threads : Enter(t)
  PROVE  IInv'
<1> USE DEF IInv, TypeOK, CallersCall, ServerCreatedOnce, SetIsMade, Progress,
            netVars, flagVars, clientVars, poolVars, Goto
<1>1. CASE Signal
  BY <1>1 DEF Signal
<1>2. ASSUME NEW t \in Threads, Enter(t) PROVE IInv'
  BY <1>2 DEF Enter, FirstPhase, Requested
<1>3. CASE CloseServer
  BY <1>3 DEF CloseServer
<1>4. CASE StopNet
  BY <1>4, ZenonT(60) DEF StopNet, StopOrWakeup
<1>5. CASE ShutdownPool
  BY <1>5 DEF ShutdownPool
<1>6. CASE AwaitTermination
  BY <1>6 DEF AwaitTermination, AwaitEnds, Terminated
<1>7. CASE ShutdownNow
  BY <1>7 DEF ShutdownNow, TasksAfterShutdownNow
<1>8. CASE CloseClientSockets
  BY <1>8, ShortSequences DEF CloseClientSockets
<1>9. ASSUME NEW k \in Keys, CloseNext(k) PROVE IInv'
  BY <1>9 DEF CloseNext
<1>10. CASE ShutdownEnds
  BY <1>10 DEF ShutdownEnds
<1>11. CASE IterationThrows
  BY <1>11 DEF IterationThrows, Leave
<1>12. CASE Return
  BY <1>12 DEF Return, Leave
<1> QED
  BY <1>1, <1>2, <1>3, <1>4, <1>5, <1>6, <1>7, <1>8, <1>9, <1>10, <1>11, <1>12 DEF OwnerStep

(* The net thread keeps the invariant.                                     *)
LEMMA NetKeepsIInv ==
  ASSUME IInv, NetStep
  PROVE  IInv'
<1> USE DEF IInv, TypeOK, CallersCall, ServerCreatedOnce, SetIsMade, Progress,
            shutdownVars, flagVars, clientVars, poolVars, NetAt, Throw, CallShutdown, Handle
<1>1. CASE OpenSelector \/ OpenServer
  BY <1>1 DEF OpenSelector, OpenServer
<1>2. CASE Bind
  <2>1. CASE net' = "loop" /\ listening' = TRUE /\ UNCHANGED shutdownVars
    <3>1. listening' \in BOOLEAN
      BY <2>1
    <3> QED
      BY <1>2, <2>1, <3>1, ZenonT(60) DEF Bind
  <2>2. CASE Throw /\ UNCHANGED listening
    BY <1>2, <2>2 DEF Bind
  <2> QED
    BY <1>2, <2>1, <2>2 DEF Bind
<1>3. CASE Loop \/ AllHandled
  BY <1>3 DEF Loop, AllHandled
<1>4. CASE Select
  <2>1. Events \subseteq Keys
    BY DEF Events
  <2>2. selected' \subseteq Keys /\ listening' \in BOOLEAN
    BY <1>4, <2>1 DEF Select
  <2> QED
    BY <1>4, <2>2, ZenonT(60) DEF Select
<1>5. CASE Accept
  BY <1>5 DEF Accept
<1>6. CASE NewSet
  <2>1. clientsToClose' \in Seq(SUBSET Keys) /\ clientsToClose' # << >>
    <3>1. <<{}>> \in Seq(SUBSET Keys)
      BY {} \in SUBSET Keys, ShortSequences
    <3> QED
      BY <1>6, <3>1 DEF NewSet
  <2>2. TypeOK'
    BY <1>6, <2>1 DEF NewSet
  <2>3. CallersCall' /\ ServerCreatedOnce' /\ SetIsMade' /\ Progress'
    BY <1>6, <2>1 DEF NewSet
  <2> QED
    BY <2>2, <2>3
<1>7. CASE CloseSelector
  BY <1>7 DEF CloseSelector
<1>8. CASE TakeServerKey
  BY <1>8 DEF TakeServerKey
<1>9. ASSUME NEW c \in Clients, Enqueue(c) PROVE IInv'
  <2>1. queue' \in Seq(Clients)
    <3>1. queue \in Seq(Clients) /\ Append(queue, c) \in Seq(Clients)
      BY ShortSequences
    <3>2. queue' = Append(queue, c) \/ queue' = queue
      BY <1>9 DEF Enqueue
    <3> QED
      BY <3>1, <3>2
  <2>2. client' \in [Clients -> {"away", "connecting", "open", "sending", "served", "closed"}]
    BY <1>9 DEF Enqueue
  <2>3. CASE pool = "running" /\ net' = "handle" /\ UNCHANGED shutdownVars
    <3>1. TypeOK'
      BY <1>9, <2>1, <2>2, <2>3 DEF Enqueue
    <3>2. CallersCall' /\ ServerCreatedOnce' /\ SetIsMade' /\ Progress'
      BY <1>9, <2>3 DEF Enqueue
    <3> QED
      BY <3>1, <3>2
  <2>4. CASE Throw /\ UNCHANGED queue
    <3>1. TypeOK'
      BY <1>9, <2>2, <2>4 DEF Enqueue
    <3>2. CallersCall' /\ ServerCreatedOnce' /\ SetIsMade' /\ Progress'
      BY <1>9, <2>4 DEF Enqueue
    <3> QED
      BY <3>1, <3>2
  <2> QED
    BY <1>9, <2>3, <2>4 DEF Enqueue
<1>10. ASSUME NEW k \in Keys, Collect(k) PROVE IInv'
  <2>1. Head(clientsToClose) \cup {k} \in SUBSET Keys
    BY <1>10, ShortSequences DEF Collect
  <2>2. <<Head(clientsToClose) \cup {k}>> \in Seq(SUBSET Keys)
    BY <2>1, ShortSequences
  <2>3. <<Head(clientsToClose) \cup {k}>> # << >>
    OBVIOUS
  <2> QED
    BY <1>10, <2>2, <2>3 DEF Collect
<1> QED
  BY <1>1, <1>2, <1>3, <1>4, <1>5, <1>6, <1>7, <1>8, <1>9, <1>10 DEF NetStep

(* The worker threads keep the invariant.                                  *)
LEMMA WorkersKeepIInv ==
  ASSUME IInv, NEW w \in Workers, WorkerStep(w) \/ Hang(w)
  PROVE  IInv'
<1> USE DEF IInv, TypeOK, CallersCall, ServerCreatedOnce, SetIsMade, Progress,
            shutdownVars, netVars, flagVars, clientVars
<1>1. CASE Take(w)
  BY <1>1 DEF Take
<1>2. CASE End(w) \/ Hang(w)
  BY <1>2 DEF End, Hang
<1>3. CASE Finish(w)
  BY <1>3 DEF Finish
<1>4. CASE Fail(w)
  BY <1>4 DEF Fail, CallShutdown
<1> QED
  BY <1>1, <1>2, <1>3, <1>4 DEF WorkerStep

(* The clients keep the invariant.                                         *)
LEMMA ClientsKeepIInv ==
  ASSUME IInv, NEW c \in Clients, Connect(c) \/ Request(c)
  PROVE  IInv'
BY DEF IInv, TypeOK, CallersCall, ServerCreatedOnce, SetIsMade, Progress,
       shutdownVars, netVars, flagVars, poolVars, Connect, Request

(* Every step keeps the invariant.                                         *)
LEMMA NextIInv == IInv /\ [Next]_vars => IInv'
<1> SUFFICES ASSUME IInv, [Next]_vars PROVE IInv'
  OBVIOUS
<1>1. CASE Next
  BY <1>1, ShutdownKeepsIInv, NetKeepsIInv, WorkersKeepIInv, ClientsKeepIInv DEF Next
<1>2. CASE UNCHANGED vars
  BY <1>2 DEF vars, shutdownVars, netVars, flagVars, clientVars, poolVars,
              IInv, TypeOK, CallersCall, ServerCreatedOnce, SetIsMade, Progress
<1> QED
  BY <1>1, <1>2

(* The invariant holds in every behaviour.                                 *)
THEOREM Invariance == Spec => []IInv
BY InitIInv, NextIInv, PTL DEF Spec

(* The variables keep their types, whoever shuts down and when.            *)
THEOREM TypeCorrect == Spec => []TypeOK
<1>1. IInv => TypeOK
  BY DEF IInv
<1> QED
  BY <1>1, Invariance, PTL

(* Of the hook, the network thread and any number of workers at most one   *)
(* goes through the body of shutdown, and none of them a second time.      *)
THEOREM OnceOnly == Spec => []ShutdownOnce
<1>1. IInv => ShutdownOnce
  BY DEF IInv, TypeOK, Progress, ShutdownOnce
<1> QED
  BY <1>1, Invariance, PTL

(* A shutdown that has run to its end leaves no open server socket, no     *)
(* permission to run for the network thread and no task to start.          *)
THEOREM StoppedWhenCompleted == Spec => []CompletedMeansStopped
<1>1. IInv => CompletedMeansStopped
  BY DEF IInv, Progress, CompletedMeansStopped
<1> QED
  BY <1>1, Invariance, PTL

=============================================================================
