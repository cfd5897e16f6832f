-------------------------- MODULE ReplicatedStore --------------------------
(***************************************************************************)
(* What the middleware promises its clients: one store, although every     *)
(* server keeps a copy of it.                                              *)
(*                                                                         *)
(* A SET takes effect at one instant between its request and its answer, a *)
(* GET of one key reads the store at such an instant.  A multi-GET         *)
(* promises less: each value is one that no later SET had replaced before  *)
(* the multi-GET was requested.                                            *)
(*                                                                         *)
(* Every SET writes a value of its own, which is named by the request.     *)
(* Middleware assumes of the constants what this module needs.             *)
(***************************************************************************)
EXTENDS Naturals, Sequences, FiniteSets

CONSTANTS
    Clients,
    Keys,
    Commands,       \* the commands a client may send: their kind and their list of keys
    MaxRequests,    \* bound: requests of all clients together
    None            \* the value of a key that was never set

VARIABLES
    store,      \* key -> the request whose value it holds
    requests,   \* what the clients have asked and been answered
    effects     \* the requests of one key that have taken effect, with what they read

vars == <<store, requests, effects>>

RequestIds == Clients \X (1 .. MaxRequests)
Values == RequestIds \union {None}
Ids == DOMAIN requests
Pending == {r \in Ids : ~requests[r].answered}
Issued(c) == {r \in Ids : r[1] = c}

IsSet(r) == requests[r].kind = "set"
IsSingle(r) == Len(requests[r].keys) = 1
Key(r) == requests[r].keys[1]

\* The function f, with the value y of x besides.
Put(f, x, y) == [z \in DOMAIN f \union {x} |-> IF z = x THEN y ELSE f[z]]

Init ==
    /\ store = [k \in Keys |-> None]
    /\ requests = << >>
    /\ effects = << >>

\* A client that waits for no answer sends its next request.
Request(c, command) ==
    /\ Issued(c) \intersect Pending = {}
    /\ Cardinality(Ids) < MaxRequests
    /\ \E n \in 1 .. MaxRequests :
        /\ Issued(c) = {c} \X (1 .. n - 1)
        /\ requests' = Put(requests, <<c, n>>,
               [kind |-> command.kind, keys |-> command.keys, after |-> Ids \ Pending,
                answered |-> FALSE, answer |-> << >>])
    /\ UNCHANGED <<store, effects>>

Set(r) ==
    /\ r \in Pending \ DOMAIN effects
    /\ IsSet(r)
    /\ store' = [store EXCEPT ![Key(r)] = r]
    /\ effects' = Put(effects, r, << >>)
    /\ UNCHANGED requests

Get(r) ==
    /\ r \in Pending \ DOMAIN effects
    /\ ~IsSet(r) /\ IsSingle(r)
    /\ effects' = Put(effects, r, <<store[Key(r)]>>)
    /\ UNCHANGED <<store, requests>>

SetsOf(k) == {w \in Ids : IsSet(w) /\ Key(w) = k}

\* Some SET of k began after w was answered, and ended before r was requested.
Replaced(w, k, r) == \E v \in SetsOf(k) : w \in requests[v].after /\ v \in requests[r].after

MayRead(r, k) ==
    {w \in SetsOf(k) : ~Replaced(w, k, r)}
        \union (IF SetsOf(k) \intersect requests[r].after = {} THEN {None} ELSE {})

RightAnswer(r, answer) ==
    IF IsSingle(r)
    THEN r \in DOMAIN effects /\ answer = effects[r]
    ELSE /\ Len(answer) = Len(requests[r].keys)
         /\ \A i \in DOMAIN answer : answer[i] \in MayRead(r, requests[r].keys[i])

Answer(r, answer) ==
    /\ r \in Pending
    /\ RightAnswer(r, answer)
    /\ requests' = [requests EXCEPT ![r].answered = TRUE, ![r].answer = answer]
    /\ UNCHANGED <<store, effects>>

Answers(r) == UNION {[1 .. n -> Values] : n \in {0, Len(requests[r].keys)}}

Next ==
    \/ \E c \in Clients, command \in Commands : Request(c, command)
    \/ \E r \in Pending : Set(r) \/ Get(r) \/ \E answer \in Answers(r) : Answer(r, answer)

Spec == Init /\ [][Next]_vars
=============================================================================
