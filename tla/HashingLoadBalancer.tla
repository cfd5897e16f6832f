------------------------ MODULE HashingLoadBalancer ------------------------
(***************************************************************************)
(* HashingLoadBalancer.assignKeysToServers: the loop that splits the keys  *)
(* of a sharded multi-GET into one contiguous chunk per memcached server.  *)
(* The i-th key of the request is the number i, so a list of keys is a     *)
(* sequence of numbers.  A call starts with Call, every iteration of the   *)
(* for loop is one AssignKey, and Return hands the pair to the caller.     *)
(***************************************************************************)
EXTENDS Integers, Sequences

CONSTANTS
  NumServers,   \* HashingLoadBalancer.numServers
  MaxKeys       \* bound on the keys of one request (RequestFactory: 10)

ASSUME NumServersAssumption == NumServers \in Nat \ {0}
ASSUME MaxKeysAssumption == MaxKeys \in Nat

VARIABLES
  pc,                  \* "idle", or "loop" while the for loop runs
  numKeys,             \* keys.length
  startingServerIndex, \* the primary server of the request
  next,                \* the key the loop looks at
  currentServer,
  keyPerServerCount,
  keySplits,           \* server -> its keys; <<>> where the map has no entry
  answerAssemblyOrder  \* the servers in the order they were first used

vars == <<pc, numKeys, startingServerIndex, next, currentServer,
          keyPerServerCount, keySplits, answerAssemblyOrder>>

Servers == 0 .. NumServers - 1

(* MUTANT: the quotient rounded down. *)
FlooredShare == IF numKeys < NumServers THEN 1 ELSE numKeys \div NumServers

(* Math.ceil(keys.length / numServers) *)
maxKeysPerServer == (numKeys + NumServers - 1) \div NumServers

TypeOK ==
  /\ pc \in {"idle", "loop"}
  /\ numKeys \in 0 .. MaxKeys
  /\ startingServerIndex \in Servers
  /\ next \in 1 .. numKeys + 1
  /\ currentServer \in Servers
  /\ keyPerServerCount \in Nat
  /\ keySplits \in [Servers -> Seq(1 .. MaxKeys)]
  /\ answerAssemblyOrder \in Seq(Servers)

Init ==
  /\ pc = "idle"
  /\ numKeys = 0
  /\ startingServerIndex = 0
  /\ next = 1
  /\ currentServer = 0
  /\ keyPerServerCount = 0
  /\ keySplits = [s \in Servers |-> <<>>]
  /\ answerAssemblyOrder = <<>>

(* The locals of a fresh call. A request of blanks only splits into no key *)
(* at all, so the number of keys starts at 0.                              *)
Call(n, start) ==
  /\ pc = "idle"
  /\ pc' = "loop"
  /\ numKeys' = n
  /\ startingServerIndex' = start
  /\ next' = 1
  /\ currentServer' = start
  /\ keyPerServerCount' = 0
  /\ keySplits' = [s \in Servers |-> <<>>]
  /\ answerAssemblyOrder' = <<>>

(* MUTANT: a server that already got keys moves to the end of the order.  *)
OrderEveryTurn ==
  IF keyPerServerCount = 0 /\ next = 1
  THEN Append(answerAssemblyOrder, currentServer)
  ELSE answerAssemblyOrder

(* if(!keySplits.containsKey(currentServer)) answerAssemblyOrder.add(..)   *)
OrderWithCurrent ==
  IF keySplits[currentServer] = <<>>
  THEN Append(answerAssemblyOrder, currentServer)
  ELSE answerAssemblyOrder

(* MUTANT: the counter is compared before it is incremented.               *)
ChunkFullLate == keyPerServerCount = maxKeysPerServer

(* if(++keyPerServerCount == maxKeysPerServer)                             *)
ChunkFull == keyPerServerCount + 1 = maxKeysPerServer

(* MUTANT: the turn does not wrap around.                                  *)
NextServerUnwrapped == currentServer + 1

(* (currentServer + 1) % numServers                                        *)
NextServer == (currentServer + 1) % NumServers

AssignKey ==
  /\ pc = "loop"
  /\ next <= numKeys
  /\ answerAssemblyOrder' = OrderWithCurrent
  /\ keySplits' = [keySplits EXCEPT ![currentServer] = Append(@, next)]
  /\ IF ChunkFull
     THEN /\ currentServer' = NextServer
          /\ keyPerServerCount' = 0
     ELSE /\ keyPerServerCount' = keyPerServerCount + 1
          /\ UNCHANGED currentServer
  /\ next' = next + 1
  /\ UNCHANGED <<pc, numKeys, startingServerIndex>>

Return ==
  /\ pc = "loop"
  /\ next > numKeys
  /\ pc' = "idle"
  /\ UNCHANGED <<numKeys, startingServerIndex, next, currentServer,
                 keyPerServerCount, keySplits, answerAssemblyOrder>>

Next ==
  \/ \E n \in 0 .. MaxKeys, start \in Servers : Call(n, start)
  \/ AssignKey
  \/ Return

Spec == Init /\ [][Next]_vars

-----------------------------------------------------------------------------
(* The answers of the servers, concatenated in assembly order, answer the  *)
(* keys in the order the client asked for them: chunk j holds consecutive  *)
(* keys, starting right behind chunk j - 1, and no server has two chunks   *)
(* (ShardedMultiGetRequest appends one answer per list element).           *)
AssemblyOrderIsKeyOrder ==
  /\ \A i, j \in DOMAIN answerAssemblyOrder :
        i # j => answerAssemblyOrder[i] # answerAssemblyOrder[j]
  /\ \A j \in DOMAIN answerAssemblyOrder :
        LET chunk == keySplits[answerAssemblyOrder[j]] IN
        \A m \in DOMAIN chunk : chunk[m] = (j - 1) * maxKeysPerServer + m

(* When the call returns, every key has been given to a server that is in  *)
(* the assembly order, so that its answer will be waited for.              *)
EveryKeyAsked ==
  pc = "idle" =>
    \A k \in 1 .. numKeys :
      \E j \in DOMAIN answerAssemblyOrder :
        \E m \in DOMAIN keySplits[answerAssemblyOrder[j]] :
          keySplits[answerAssemblyOrder[j]][m] = k

(* No server is asked for more than its share, rounded up.                 *)
NoServerOverloaded ==
  \A s \in Servers : Len(keySplits[s]) <= maxKeysPerServer

=============================================================================
