--------------------- MODULE HashingLoadBalancerProofs ---------------------
(***************************************************************************)
(* The split of a multi-GET is right for every number of servers and of    *)
(* keys.  The inductive invariant counts in chunks: Full chunks are        *)
(* complete, and at most one more is being filled.                         *)
(***************************************************************************)
EXTENDS HashingLoadBalancer, TLAPS

USE NumServersAssumption, MaxKeysAssumption

Full == IF keyPerServerCount = 0 THEN Len(answerAssemblyOrder)
        ELSE Len(answerAssemblyOrder) - 1

ServerOfChunk(j) == (startingServerIndex + j - 1) % NumServers

(* The numeric part: how many keys are placed and whose turn it is. *)
Counting ==
  /\ next - 1 = Full * maxKeysPerServer + keyPerServerCount
  /\ numKeys > 0 => keyPerServerCount < maxKeysPerServer
  /\ numKeys = 0 => keyPerServerCount = 0 /\ answerAssemblyOrder = <<>>
  /\ Full >= 0
  /\ Len(answerAssemblyOrder) <= NumServers
  /\ currentServer = ServerOfChunk(Full + 1)
  /\ pc = "idle" => next = numKeys + 1

(* The chunks: server, length and contents of each. *)
ChunkServers ==
  \A j \in 1 .. Len(answerAssemblyOrder) :
    answerAssemblyOrder[j] = ServerOfChunk(j)

ChunkLengths ==
  \A j \in 1 .. Len(answerAssemblyOrder) :
    Len(keySplits[answerAssemblyOrder[j]]) =
      IF j <= Full THEN maxKeysPerServer ELSE keyPerServerCount

ChunkKeys ==
  \A j \in 1 .. Len(answerAssemblyOrder) :
    \A m \in 1 .. Len(keySplits[answerAssemblyOrder[j]]) :
      keySplits[answerAssemblyOrder[j]][m] = (j - 1) * maxKeysPerServer + m

UnusedServers ==
  \A s \in Servers :
    (\A j \in 1 .. Len(answerAssemblyOrder) : answerAssemblyOrder[j] # s)
      => keySplits[s] = <<>>

Chunks == ChunkServers /\ ChunkLengths /\ ChunkKeys /\ UnusedServers

KeysPlaced ==
  \A k \in 1 .. next - 1 :
    \E j \in 1 .. Len(answerAssemblyOrder) :
      \E m \in 1 .. Len(keySplits[answerAssemblyOrder[j]]) :
        keySplits[answerAssemblyOrder[j]][m] = k

IInv == TypeOK /\ Counting /\ Chunks /\ KeysPlaced

-----------------------------------------------------------------------------
(* Arithmetic. *)

(* A larger number has the larger multiple.                                *)
LEMMA MultMonotone ==
  ASSUME NEW a \in Nat, NEW b \in Nat, NEW m \in Nat, a >= b
  PROVE  a * m >= b * m
<1>1. PICK d \in Nat : a = b + d
  <2> WITNESS a - b \in Nat
  <2> QED  OBVIOUS
<1>2. a * m = b * m + d * m
  BY <1>1
<1>3. d * m >= 0
  OBVIOUS
<1> QED  BY <1>2, <1>3

(* The shares of all servers are enough for all keys.                      *)
LEMMA ShareIsEnough ==
  ASSUME NEW K \in Nat, NEW share, share = (K + NumServers - 1) \div NumServers
  PROVE  /\ share \in Nat
         /\ NumServers * share >= K
         /\ K > 0 => share >= 1
  OBVIOUS

(* Fewer than NumServers consecutive turns reach different servers. *)
LEMMA TurnsDiffer ==
  ASSUME NEW start \in Servers, NEW i \in Nat, NEW j \in Nat,
         i < NumServers, j < NumServers, i # j
  PROVE  (start + i) % NumServers # (start + j) % NumServers
<1>1. ASSUME NEW k \in Nat, k < NumServers
      PROVE  (start + k) % NumServers =
                IF start + k < NumServers THEN start + k ELSE start + k - NumServers
  BY <1>1 DEF Servers
<1> QED  BY <1>1 DEF Servers

(* The server after the current one has the next turn. *)
LEMMA NextTurn ==
  ASSUME NEW start \in Servers, NEW i \in Nat, i < NumServers
  PROVE  (((start + i) % NumServers) + 1) % NumServers = (start + i + 1) % NumServers
<1>1. CASE start + i < NumServers
  BY <1>1 DEF Servers
<1>2. CASE start + i >= NumServers
  <2>1. (start + i) % NumServers = start + i - NumServers
    BY <1>2 DEF Servers
  <2>2. CASE start + i + 1 < 2 * NumServers
    <3>1. (start + i + 1) % NumServers = start + i + 1 - NumServers
      BY <1>2, <2>2 DEF Servers
    <3>2. (start + i - NumServers + 1) % NumServers = start + i - NumServers + 1
      BY <1>2, <2>2 DEF Servers
    <3> QED  BY <2>1, <3>1, <3>2 DEF Servers
  <2> QED  BY <2>2 DEF Servers
<1> QED  BY <1>1, <1>2 DEF Servers

-----------------------------------------------------------------------------
(* One iteration of the loop. The server whose turn it is holds exactly    *)
(* the keys of the chunk being filled, and no chunk before it.             *)
LEMMA TurnOfCurrent ==
  ASSUME IInv, next <= numKeys, pc = "loop"
  PROVE  /\ Full \in Nat /\ Full < NumServers
         /\ maxKeysPerServer \in Nat /\ maxKeysPerServer >= 1
         /\ Len(keySplits[currentServer]) = keyPerServerCount
         /\ \A m \in 1 .. keyPerServerCount :
               keySplits[currentServer][m] = Full * maxKeysPerServer + m
         /\ OrderWithCurrent \in Seq(Servers)
         /\ Len(OrderWithCurrent) = Full + 1
         /\ OrderWithCurrent[Full + 1] = currentServer
         /\ \A j \in 1 .. Full : ServerOfChunk(j) # currentServer
         /\ \A j \in 1 .. Len(answerAssemblyOrder) :
               OrderWithCurrent[j] = answerAssemblyOrder[j]
<1>0. TypeOK /\ Counting /\ ChunkServers /\ ChunkLengths /\ ChunkKeys /\ UnusedServers
  BY DEF IInv, Chunks
<1>1. /\ maxKeysPerServer \in Nat
      /\ NumServers * maxKeysPerServer >= numKeys
      /\ maxKeysPerServer >= 1
  <2>1. numKeys \in Nat /\ numKeys > 0
    BY <1>0 DEF TypeOK
  <2> QED  BY <2>1, ShareIsEnough DEF maxKeysPerServer
<1>2. Full \in Nat /\ Len(answerAssemblyOrder) \in Nat
  BY <1>0 DEF Full, TypeOK, Counting
<1>3. Full < NumServers
  <2> SUFFICES ASSUME Full >= NumServers PROVE FALSE
    BY <1>2
  <2>1. Full * maxKeysPerServer >= NumServers * maxKeysPerServer
    BY <1>1, <1>2, MultMonotone
  <2>2. Full * maxKeysPerServer \in Int /\ NumServers * maxKeysPerServer \in Int
    BY <1>1, <1>2
  <2>3. next - 1 >= Full * maxKeysPerServer
    BY <2>2, <1>0 DEF Counting, TypeOK
  <2> QED  BY <2>1, <2>2, <2>3, <1>0, <1>1 DEF TypeOK
<1>4. currentServer = (startingServerIndex + Full) % NumServers
  BY <1>0, <1>2 DEF Counting, ServerOfChunk, TypeOK, Servers
<1>5. \A j \in 1 .. Full : ServerOfChunk(j) # currentServer
  <2> TAKE j \in 1 .. Full
  <2>1. (startingServerIndex + (j - 1)) % NumServers
          # (startingServerIndex + Full) % NumServers
    BY <1>0, <1>2, <1>3, TurnsDiffer DEF TypeOK
  <2>2. ServerOfChunk(j) = (startingServerIndex + (j - 1)) % NumServers
    BY <1>0, <1>2 DEF ServerOfChunk, TypeOK, Servers
  <2> QED  BY <2>1, <2>2, <1>4
<1>6. CASE keyPerServerCount = 0
  <2>1. Len(answerAssemblyOrder) = Full
    BY <1>6 DEF Full
  <2>2. keySplits[currentServer] = <<>>
    BY <1>0, <1>5, <2>1 DEF ChunkServers, UnusedServers, TypeOK
  <2>3. OrderWithCurrent = Append(answerAssemblyOrder, currentServer)
    BY <2>2 DEF OrderWithCurrent
  <2>4. /\ OrderWithCurrent \in Seq(Servers)
        /\ Len(OrderWithCurrent) = Full + 1
        /\ OrderWithCurrent[Full + 1] = currentServer
        /\ \A j \in 1 .. Len(answerAssemblyOrder) :
               OrderWithCurrent[j] = answerAssemblyOrder[j]
    BY <2>1, <2>3, <1>0 DEF TypeOK
  <2>5. Len(keySplits[currentServer]) = 0
    BY <2>2
  <2> QED
    BY <1>1, <1>2, <1>3, <1>5, <1>6, <2>4, <2>5
<1>7. CASE keyPerServerCount # 0
  <2>1. Len(answerAssemblyOrder) = Full + 1
    BY <1>7, <1>2 DEF Full
  <2>2. answerAssemblyOrder[Full + 1] = currentServer
    BY <2>1, <1>0, <1>2 DEF ChunkServers, Counting
  <2>3. Len(keySplits[currentServer]) = keyPerServerCount
    BY <2>1, <2>2, <1>0, <1>2 DEF ChunkLengths
  <2>4. OrderWithCurrent = answerAssemblyOrder
    BY <2>3, <1>7 DEF OrderWithCurrent
  <2>5. \A m \in 1 .. keyPerServerCount :
          keySplits[currentServer][m] = Full * maxKeysPerServer + m
    <3>1. \A m \in 1 .. keyPerServerCount :
            keySplits[currentServer][m] = (Full + 1 - 1) * maxKeysPerServer + m
      BY <2>1, <2>2, <2>3, <1>0, <1>2 DEF ChunkKeys
    <3> QED  BY <3>1, <1>2
  <2>6. answerAssemblyOrder \in Seq(Servers)
    BY <1>0 DEF TypeOK
  <2> QED
    BY <1>1, <1>2, <1>3, <1>5, <2>1, <2>2, <2>3, <2>4, <2>5, <2>6
<1> QED  BY <1>6, <1>7

(* Assigning a key keeps the invariant.                                    *)
LEMMA AssignKeyKeepsIInv ==
  ASSUME IInv, AssignKey
  PROVE  IInv'
<1> DEFINE order == OrderWithCurrent
           chunk == Append(keySplits[currentServer], next)
<1>0. pc = "loop" /\ next <= numKeys
  BY DEF AssignKey
<1>1. /\ TypeOK /\ Counting /\ KeysPlaced
      /\ ChunkServers /\ ChunkLengths /\ ChunkKeys /\ UnusedServers
  BY DEF IInv, Chunks
<1>2. /\ Full \in Nat /\ Full < NumServers
      /\ maxKeysPerServer \in Nat /\ maxKeysPerServer >= 1
      /\ Len(keySplits[currentServer]) = keyPerServerCount
      /\ \A m \in 1 .. keyPerServerCount :
            keySplits[currentServer][m] = Full * maxKeysPerServer + m
      /\ order \in Seq(Servers)
      /\ Len(order) = Full + 1
      /\ order[Full + 1] = currentServer
      /\ \A j \in 1 .. Full : ServerOfChunk(j) # currentServer
      /\ \A j \in 1 .. Len(answerAssemblyOrder) : order[j] = answerAssemblyOrder[j]
  BY <1>0, TurnOfCurrent
<1> HIDE DEF order
<1>3. /\ answerAssemblyOrder' = order
      /\ keySplits' = [keySplits EXCEPT ![currentServer] = chunk]
      /\ next' = next + 1
      /\ pc' = pc /\ numKeys' = numKeys
      /\ startingServerIndex' = startingServerIndex
      /\ maxKeysPerServer' = maxKeysPerServer
  BY DEF AssignKey, maxKeysPerServer, order
<1>4. \/ /\ keyPerServerCount + 1 = maxKeysPerServer
         /\ keyPerServerCount' = 0
         /\ currentServer' = (currentServer + 1) % NumServers
      \/ /\ keyPerServerCount + 1 # maxKeysPerServer
         /\ keyPerServerCount' = keyPerServerCount + 1
         /\ currentServer' = currentServer
  BY DEF AssignKey, ChunkFull, NextServer
<1>5. keyPerServerCount \in Nat /\ currentServer \in Servers
      /\ keySplits[currentServer] \in Seq(1 .. MaxKeys)
  BY <1>1 DEF TypeOK
<1>6. Len(answerAssemblyOrder) \in {Full, Full + 1}
      /\ Len(answerAssemblyOrder) \in Nat
  BY <1>1 DEF Full, TypeOK
<1>7. Full' = IF keyPerServerCount + 1 = maxKeysPerServer THEN Full + 1 ELSE Full
  <2>1. Full' = IF keyPerServerCount' = 0 THEN Len(order) ELSE Len(order) - 1
    BY <1>3 DEF Full
  <2> QED  BY <2>1, <1>2, <1>4, <1>5
<1>8. /\ Full * maxKeysPerServer \in Int
      /\ next = Full * maxKeysPerServer + keyPerServerCount + 1
  <2>1. Full * maxKeysPerServer \in Int
    BY <1>2
  <2> QED  BY <2>1, <1>1, <1>5 DEF Counting, TypeOK
<1>9. /\ chunk \in Seq(1 .. MaxKeys)
      /\ Len(chunk) = keyPerServerCount + 1
      /\ \A m \in 1 .. keyPerServerCount : chunk[m] = keySplits[currentServer][m]
      /\ chunk[keyPerServerCount + 1] = next
  <2>1. next \in 1 .. MaxKeys
    BY <1>0, <1>1 DEF TypeOK
  <2> QED  BY <2>1, <1>2, <1>5
<1> HIDE DEF chunk
<1>10. /\ keySplits' \in [Servers -> Seq(1 .. MaxKeys)]
       /\ keySplits'[currentServer] = chunk
       /\ \A s \in Servers : s # currentServer => keySplits'[s] = keySplits[s]
  BY <1>1, <1>3, <1>5, <1>9 DEF TypeOK
<1>11. \A m \in 1 .. Len(chunk) : chunk[m] = Full * maxKeysPerServer + m
  <2> TAKE m \in 1 .. Len(chunk)
  <2>1. CASE m \in 1 .. keyPerServerCount
    BY <2>1, <1>2, <1>9
  <2>2. CASE m = keyPerServerCount + 1
    <3>1. chunk[m] = Full * maxKeysPerServer + keyPerServerCount + 1
      BY <2>2, <1>8, <1>9
    <3> QED  BY <3>1, <2>2, <1>5, <1>8
  <2> QED  BY <2>1, <2>2, <1>5, <1>9
<1>12. TypeOK'
  <2>1. currentServer' \in Servers
    BY <1>4, <1>5 DEF Servers
  <2>2. keyPerServerCount' \in Nat
    BY <1>4, <1>5
  <2>3. next' \in 1 .. numKeys' + 1
    BY <1>0, <1>1, <1>3 DEF TypeOK
  <2> QED  BY <2>1, <2>2, <2>3, <1>1, <1>2, <1>3, <1>10 DEF TypeOK
<1>13. Counting'
  <2>1. (Full * maxKeysPerServer)' =
          IF keyPerServerCount + 1 = maxKeysPerServer
          THEN Full * maxKeysPerServer + maxKeysPerServer
          ELSE Full * maxKeysPerServer
    BY <1>2, <1>3, <1>7
  <2>2. next' - 1 = (Full * maxKeysPerServer)' + keyPerServerCount'
    <3> DEFINE placed == Full * maxKeysPerServer
               placedNext == (Full * maxKeysPerServer)'
    <3>1. /\ placed \in Int /\ next = placed + keyPerServerCount + 1
          /\ placedNext = IF keyPerServerCount + 1 = maxKeysPerServer
                          THEN placed + maxKeysPerServer ELSE placed
      BY <2>1, <1>8
    <3> HIDE DEF placed, placedNext
    <3>2. next' - 1 = placedNext + keyPerServerCount'
      BY <3>1, <1>2, <1>3, <1>4, <1>5
    <3> QED  BY <3>2 DEF placedNext
  <2>3. currentServer = (startingServerIndex + Full) % NumServers
    BY <1>1, <1>2 DEF Counting, ServerOfChunk, TypeOK, Servers
  <2>4. (currentServer + 1) % NumServers
          = (startingServerIndex + Full + 1) % NumServers
    BY <2>3, <1>1, <1>2, NextTurn, ZenonT(60) DEF TypeOK
  <2>5. currentServer' = (startingServerIndex + Full') % NumServers
    <3>1. startingServerIndex + (Full + 1) = startingServerIndex + Full + 1
      BY <1>1, <1>2 DEF TypeOK, Servers
    <3> QED  BY <3>1, <2>3, <2>4, <1>4, <1>7
  <2>6. startingServerIndex' + (Full' + 1) - 1 = startingServerIndex + Full'
    BY <1>1, <1>2, <1>3, <1>7 DEF TypeOK, Servers
  <2>7. currentServer' = ServerOfChunk(Full + 1)'
    BY <2>5, <2>6 DEF ServerOfChunk
  <2>8. keyPerServerCount < maxKeysPerServer
    BY <1>0, <1>1 DEF Counting, TypeOK
  <2>9. keyPerServerCount' < maxKeysPerServer'
    BY <2>8, <1>2, <1>3, <1>4, <1>5
  <2>10. Full' >= 0 /\ Len(answerAssemblyOrder') <= NumServers
    BY <1>2, <1>3, <1>7
  <2>11. numKeys' # 0 /\ pc' # "idle"
    BY <1>0, <1>1, <1>3 DEF TypeOK
  <2> QED  BY <2>2, <2>7, <2>9, <2>10, <2>11 DEF Counting
(* The chunks before the current one stay as they are. *)
<1>14. ASSUME NEW j \in 1 .. Full
       PROVE  /\ j \in 1 .. Len(answerAssemblyOrder)
              /\ order[j] = answerAssemblyOrder[j]
              /\ order[j] = ServerOfChunk(j)
              /\ keySplits'[order[j]] = keySplits[answerAssemblyOrder[j]]
  <2>1. j \in 1 .. Len(answerAssemblyOrder)
    BY <1>2, <1>6
  <2>2. order[j] = answerAssemblyOrder[j] /\ order[j] = ServerOfChunk(j)
    BY <2>1, <1>1, <1>2 DEF ChunkServers
  <2>3. order[j] \in Servers /\ order[j] # currentServer
    BY <2>1, <2>2, <1>1, <1>2 DEF TypeOK
  <2> QED  BY <2>1, <2>2, <2>3, <1>10
<1>15. ChunkServers'
  <2> SUFFICES ASSUME NEW j \in 1 .. Full + 1
               PROVE  order[j] = ServerOfChunk(j)
    BY <1>2, <1>3 DEF ChunkServers, ServerOfChunk
  <2>1. CASE j = Full + 1
    BY <2>1, <1>1, <1>2 DEF Counting
  <2>2. CASE j \in 1 .. Full
    BY <2>2, <1>14
  <2> QED  BY <2>1, <2>2, <1>2
<1>16. ChunkLengths'
  <2> SUFFICES ASSUME NEW j \in 1 .. Full + 1
               PROVE  Len(keySplits'[order[j]]) =
                        IF j <= Full' THEN maxKeysPerServer ELSE keyPerServerCount'
    BY <1>2, <1>3 DEF ChunkLengths
  <2>1. CASE j = Full + 1
    BY <2>1, <1>2, <1>4, <1>5, <1>7, <1>9, <1>10
  <2>2. CASE j \in 1 .. Full
    <3>1. Len(keySplits[answerAssemblyOrder[j]]) = maxKeysPerServer
      BY <2>2, <1>1, <1>2, <1>14 DEF ChunkLengths
    <3>2. j <= Full'
      BY <2>2, <1>2, <1>7
    <3> QED  BY <2>2, <3>1, <3>2, <1>14
  <2> QED  BY <2>1, <2>2, <1>2
<1>17. ChunkKeys'
  <2> SUFFICES ASSUME NEW j \in 1 .. Full + 1,
                      NEW m \in 1 .. Len(keySplits'[order[j]])
               PROVE  keySplits'[order[j]][m] = (j - 1) * maxKeysPerServer + m
    BY <1>2, <1>3 DEF ChunkKeys
  <2>1. CASE j = Full + 1
    <3>1. j - 1 = Full
      BY <2>1, <1>2
    <3> QED  BY <2>1, <3>1, <1>2, <1>10, <1>11
  <2>2. CASE j \in 1 .. Full
    BY <2>2, <1>1, <1>14 DEF ChunkKeys
  <2> QED  BY <2>1, <2>2, <1>2
<1>18. UnusedServers'
  <2> SUFFICES ASSUME NEW s \in Servers, \A j \in 1 .. Full + 1 : order[j] # s
               PROVE  keySplits'[s] = <<>>
    BY <1>2, <1>3 DEF UnusedServers
  <2>1. s # currentServer
    BY <1>2
  <2>2. \A j \in 1 .. Len(answerAssemblyOrder) : answerAssemblyOrder[j] # s
    BY <1>2, <1>6
  <2> QED  BY <2>1, <2>2, <1>1, <1>10 DEF UnusedServers
<1>19. KeysPlaced'
  <2>0. next' - 1 = next
    BY <1>1, <1>3 DEF TypeOK
  <2> SUFFICES ASSUME NEW k \in 1 .. next
               PROVE  \E j \in 1 .. Full + 1 :
                        \E m \in 1 .. Len(keySplits'[order[j]]) :
                          keySplits'[order[j]][m] = k
    BY <2>0, <1>2, <1>3 DEF KeysPlaced
  <2>1. CASE k = next
    <3>1. Full + 1 \in 1 .. Full + 1
          /\ keyPerServerCount + 1 \in 1 .. Len(chunk)
      BY <1>2, <1>5, <1>9
    <3> QED  BY <2>1, <3>1, <1>2, <1>9, <1>10
  <2>2. CASE k \in 1 .. next - 1
    <3>1. PICK j \in 1 .. Len(answerAssemblyOrder) :
            \E m \in 1 .. Len(keySplits[answerAssemblyOrder[j]]) :
              keySplits[answerAssemblyOrder[j]][m] = k
      BY <2>2, <1>1 DEF KeysPlaced
    <3>2. PICK m \in 1 .. Len(keySplits[answerAssemblyOrder[j]]) :
            keySplits[answerAssemblyOrder[j]][m] = k
      BY <3>1
    <3>3. j \in 1 .. Full + 1 /\ order[j] = answerAssemblyOrder[j]
      BY <1>2, <1>6
    <3>4. order[j] \in Servers
      BY <3>3, <1>1 DEF TypeOK
    <3>5. CASE order[j] = currentServer
      <4>1. m \in 1 .. keyPerServerCount
        BY <3>3, <3>5, <1>2
      <4>2. m \in 1 .. Len(chunk) /\ chunk[m] = k
        BY <4>1, <3>2, <3>3, <3>5, <1>5, <1>9
      <4> QED  BY <4>2, <3>3, <3>5, <1>10
    <3>6. CASE order[j] # currentServer
      <4>1. keySplits'[order[j]] = keySplits[answerAssemblyOrder[j]]
        BY <3>3, <3>4, <3>6, <1>10
      <4> QED  BY <4>1, <3>2, <3>3
    <3> QED  BY <3>5, <3>6
  <2> QED  BY <2>1, <2>2, <1>1 DEF TypeOK
<1> QED
  BY <1>12, <1>13, <1>15, <1>16, <1>17, <1>18, <1>19 DEF IInv, Chunks

-----------------------------------------------------------------------------

(* The invariant holds at the start.                                       *)
LEMMA InitIInv ==
  Init => IInv
<1> SUFFICES ASSUME Init PROVE IInv
  OBVIOUS
<1>1. maxKeysPerServer = 0
  BY DEF Init, maxKeysPerServer
<1>2. Full = 0
  BY DEF Init, Full
<1>3. TypeOK
  BY DEF Init, TypeOK, Servers
<1>4. Counting
  BY <1>1, <1>2 DEF Init, Counting, ServerOfChunk
<1> QED
  BY <1>3, <1>4 DEF Init, IInv, Chunks, ChunkServers, ChunkLengths, ChunkKeys,
                    UnusedServers, KeysPlaced

(* A call starts with empty chunks, whatever the last one left behind. *)
LEMMA CallIInv ==
  ASSUME NEW n \in 0 .. MaxKeys, NEW start \in Servers, IInv, Call(n, start)
  PROVE  IInv'
<1>1. TypeOK'
  BY DEF Call, TypeOK, Servers
<1>2. maxKeysPerServer' \in Nat /\ (n > 0 => maxKeysPerServer' >= 1)
  <2>1. maxKeysPerServer' = (n + NumServers - 1) \div NumServers
    BY DEF Call, maxKeysPerServer
  <2> QED  BY <2>1, ShareIsEnough
<1>3. Full' = 0
  BY DEF Call, Full
<1>4. Counting'
  <2>1. Full' * maxKeysPerServer' = 0
    <3> DEFINE share == maxKeysPerServer'
    <3>1. share \in Nat
      BY <1>2
    <3> HIDE DEF share
    <3>2. 0 * share = 0
      BY <3>1
    <3> QED  BY <3>2, <1>3 DEF share
  <2>2. currentServer' = ServerOfChunk(Full + 1)'
    BY <1>3 DEF Call, ServerOfChunk, Servers
  <2>3. /\ next' = 1 /\ keyPerServerCount' = 0 /\ answerAssemblyOrder' = <<>>
        /\ numKeys' = n /\ pc' = "loop"
    BY DEF Call
  <2>4. next' - 1 = Full' * maxKeysPerServer' + keyPerServerCount'
    BY <2>1, <2>3
  <2>5. numKeys' > 0 => keyPerServerCount' < maxKeysPerServer'
    BY <1>2, <2>3
  <2>6. Full' >= 0 /\ Len(answerAssemblyOrder') <= NumServers
    BY <1>3, <2>3
  <2> QED  BY <2>2, <2>3, <2>4, <2>5, <2>6 DEF Counting
<1> QED
  BY <1>1, <1>4 DEF Call, IInv, Chunks, ChunkServers, ChunkLengths, ChunkKeys,
                    UnusedServers, KeysPlaced

(* Every step keeps the invariant.                                         *)
LEMMA NextIInv ==
  IInv /\ [Next]_vars => IInv'
<1> SUFFICES ASSUME IInv, [Next]_vars PROVE IInv'
  OBVIOUS
<1>1. ASSUME NEW n \in 0 .. MaxKeys, NEW start \in Servers, Call(n, start)
      PROVE  IInv'
  BY <1>1, CallIInv
<1>2. CASE AssignKey
  BY <1>2, AssignKeyKeepsIInv
<1>3. CASE Return \/ UNCHANGED vars
  <2>1. /\ UNCHANGED <<numKeys, startingServerIndex, next, currentServer,
                       keyPerServerCount, keySplits, answerAssemblyOrder>>
        /\ pc' = "idle" => (next = numKeys + 1 \/ pc = "idle")
        /\ pc' \in {"idle", "loop"}
    BY <1>3 DEF Return, vars, IInv, TypeOK
  <2>2. maxKeysPerServer' = maxKeysPerServer /\ Full' = Full
    BY <2>1 DEF maxKeysPerServer, Full
  <2>3. TypeOK'
    BY <2>1 DEF IInv, TypeOK
  <2>4. Counting'
    BY <2>1, <2>2 DEF IInv, Counting, ServerOfChunk
  <2> QED
    BY <2>1, <2>2, <2>3, <2>4
    DEF IInv, Chunks, ChunkServers, ChunkLengths, ChunkKeys, UnusedServers,
        KeysPlaced, ServerOfChunk
<1> QED  BY <1>1, <1>2, <1>3 DEF Next

(* Type correctness: the loop stays within the servers and the keys.       *)
THEOREM TypeCorrect == Spec => []TypeOK
<1>1. IInv => TypeOK
  BY DEF IInv
<1> QED  BY <1>1, InitIInv, NextIInv, PTL DEF Spec

(* The answers concatenated in assembly order answer the keys in order:    *)
(* what ShardedMultiGetRequest relies on when it appends the answers.      *)
THEOREM AssemblyOrder == Spec => []AssemblyOrderIsKeyOrder
<1>1. IInv => AssemblyOrderIsKeyOrder
  <2> SUFFICES ASSUME IInv PROVE AssemblyOrderIsKeyOrder
    OBVIOUS
  <2>0. TypeOK /\ Counting /\ ChunkServers /\ ChunkKeys
    BY DEF IInv, Chunks
  <2>1. DOMAIN answerAssemblyOrder = 1 .. Len(answerAssemblyOrder)
        /\ Len(answerAssemblyOrder) \in Nat
    BY <2>0 DEF TypeOK
  <2>2. ASSUME NEW i \in 1 .. Len(answerAssemblyOrder),
               NEW j \in 1 .. Len(answerAssemblyOrder), i # j
        PROVE  answerAssemblyOrder[i] # answerAssemblyOrder[j]
    <3>1. i - 1 \in Nat /\ j - 1 \in Nat /\ i - 1 < NumServers /\ j - 1 < NumServers
      BY <2>0, <2>1 DEF Counting
    <3>2. (startingServerIndex + (i - 1)) % NumServers
            # (startingServerIndex + (j - 1)) % NumServers
      BY <3>1, <2>0, <2>2, TurnsDiffer DEF TypeOK
    <3>3. ServerOfChunk(i) # ServerOfChunk(j)
      BY <3>2, <3>1, <2>0 DEF ServerOfChunk, TypeOK, Servers
    <3> QED  BY <3>3, <2>0 DEF ChunkServers
  <2>3. ASSUME NEW j \in 1 .. Len(answerAssemblyOrder),
               NEW m \in DOMAIN keySplits[answerAssemblyOrder[j]]
        PROVE  keySplits[answerAssemblyOrder[j]][m] = (j - 1) * maxKeysPerServer + m
    <3>1. answerAssemblyOrder[j] \in Servers
      BY <2>0 DEF TypeOK
    <3>2. m \in 1 .. Len(keySplits[answerAssemblyOrder[j]])
      BY <3>1, <2>0 DEF TypeOK
    <3> QED  BY <3>2, <2>0 DEF ChunkKeys
  <2> QED  BY <2>1, <2>2, <2>3 DEF AssemblyOrderIsKeyOrder
<1> QED  BY <1>1, InitIInv, NextIInv, PTL DEF Spec

(* A finished call has given every key to a server that will be asked.     *)
THEOREM NoKeyLost == Spec => []EveryKeyAsked
<1>1. IInv => EveryKeyAsked
  <2> SUFFICES ASSUME IInv, pc = "idle", NEW k \in 1 .. numKeys
               PROVE  \E j \in DOMAIN answerAssemblyOrder :
                        \E m \in DOMAIN keySplits[answerAssemblyOrder[j]] :
                          keySplits[answerAssemblyOrder[j]][m] = k
    BY DEF EveryKeyAsked
  <2>1. k \in 1 .. next - 1
    BY DEF IInv, Counting, TypeOK
  <2>2. PICK j \in 1 .. Len(answerAssemblyOrder) :
          \E m \in 1 .. Len(keySplits[answerAssemblyOrder[j]]) :
            keySplits[answerAssemblyOrder[j]][m] = k
    BY <2>1 DEF IInv, KeysPlaced
  <2>3. j \in DOMAIN answerAssemblyOrder /\ answerAssemblyOrder[j] \in Servers
    BY <2>2 DEF IInv, TypeOK
  <2>4. DOMAIN keySplits[answerAssemblyOrder[j]]
          = 1 .. Len(keySplits[answerAssemblyOrder[j]])
    BY <2>3 DEF IInv, TypeOK
  <2> QED  BY <2>2, <2>3, <2>4
<1> QED  BY <1>1, InitIInv, NextIInv, PTL DEF Spec

(* No server gets more than its share of the keys, rounded up.             *)
THEOREM FairShare == Spec => []NoServerOverloaded
<1>1. IInv => NoServerOverloaded
  <2> SUFFICES ASSUME IInv, NEW s \in Servers
               PROVE  Len(keySplits[s]) <= maxKeysPerServer
    BY DEF NoServerOverloaded
  <2>0. TypeOK /\ Counting /\ ChunkLengths /\ UnusedServers
    BY DEF IInv, Chunks
  <2>1. maxKeysPerServer \in Nat
    <3>1. numKeys \in Nat
      BY <2>0 DEF TypeOK
    <3> QED  BY <3>1, ShareIsEnough DEF maxKeysPerServer
  <2>2. ASSUME NEW j \in 1 .. Len(answerAssemblyOrder), answerAssemblyOrder[j] = s
        PROVE  Len(keySplits[s]) <= maxKeysPerServer
    <3>1. keyPerServerCount <= maxKeysPerServer
      BY <2>0, <2>1 DEF Counting, TypeOK
    <3>2. Len(keySplits[s]) = maxKeysPerServer \/ Len(keySplits[s]) = keyPerServerCount
      BY <2>0, <2>2 DEF ChunkLengths
    <3> QED  BY <3>1, <3>2, <2>1
  <2>3. CASE \A j \in 1 .. Len(answerAssemblyOrder) : answerAssemblyOrder[j] # s
    <3>1. keySplits[s] = <<>>
      BY <2>0, <2>3 DEF UnusedServers
    <3> QED  BY <3>1, <2>1
  <2> QED  BY <2>2, <2>3
<1> QED  BY <1>1, InitIInv, NextIInv, PTL DEF Spec
=============================================================================
