-------------------------- MODULE MiddlewareProofs --------------------------
(***************************************************************************)
(* What Middleware promises, for any number of clients, threads, servers,  *)
(* keys and requests: the types, the replicas that differ only after       *)
(* races, and the refinement of one store.                                 *)
(***************************************************************************)
EXTENDS Middleware, SequenceTheorems, TLAPS

Requested ==
    [kind : {"set", "get"}, keys : KeyLists, after : SUBSET RequestIds,
     answered : BOOLEAN, answer : Seq(Values)]

(* The types that TypeOK leaves out.  What a request comes after has been  *)
(* answered.                                                               *)
Typed ==
    /\ readSharded \in BOOLEAN
    /\ findTargetServer \in [KeyLists -> Servers]
    /\ requests \in [Ids -> Requested]
    /\ \A r \in Ids :
        /\ IsSet(r) => Len(requests[r].keys) = 1
        /\ requests[r].after \subseteq Ids \ Pending
    /\ queue \in Seq(RequestIds)
    /\ wire \in [Threads -> [Servers -> {"quiet", "command", "reply"}]]
    /\ \A t \in Threads \ Busy : work[t] = Idle
    /\ DOMAIN replied = Servers

(* How many of its servers a handler has sent to, and heard from.          *)
TargetsOf(t) == Targets(work[t].request)
Sent(t) == Len(TargetsOf(t)) - Len(work[t].toSend)
Received(t) == Len(TargetsOf(t)) - Len(work[t].toReceive)

(* A handler sends to its servers in their order, then waits for them in   *)
(* the same order.                                                         *)
InOrder(t) ==
    /\ Received(t) >= 0 /\ Received(t) <= Sent(t)
    /\ work[t].toSend # << >> => Received(t) = 0
    /\ \A i \in 1 .. Len(work[t].toSend) : work[t].toSend[i] = TargetsOf(t)[Sent(t) + i]
    /\ \A i \in 1 .. Len(work[t].toReceive) :
        work[t].toReceive[i] = TargetsOf(t)[Received(t) + i]

(* A server has executed exactly the requests whose reply is on the wire   *)
(* or was received.                                                        *)
Executed(r, s) == r \in DOMAIN replied[s]

OnTheWire(t) ==
    \A n \in 1 .. Len(TargetsOf(t)) :
        LET s == TargetsOf(t)[n]
            executed == Executed(work[t].request, s)
        IN  /\ n <= Received(t) => wire[t][s] = "quiet" /\ executed
            /\ n > Received(t) /\ n <= Sent(t)
                => wire[t][s] = IF executed THEN "reply" ELSE "command"
            /\ n > Sent(t) => wire[t][s] = "quiet" /\ ~executed

ExecutedWhenHandled == \A r \in Pending \ Handled, s \in Servers : ~Executed(r, s)
AnsweredWhenExecuted == \A r \in Ids \ Pending, s \in Servers : IsSet(r) => Executed(r, s)

(* What a server has replied, and what a handler has put together of it.   *)
IsMulti(r) == Len(requests[r].keys) > 1

Reply(r, s) ==
    /\ replied[s][r] \in Seq(Values)
    /\ Len(replied[s][r]) = IF IsSet(r) THEN 0 ELSE Len(KeysAt(r, s))
    /\ IsMulti(r) => \A i \in 1 .. Len(KeysAt(r, s)) :
                        replied[s][r][i] \in Store!MayRead(r, KeysAt(r, s)[i])

Replies == \A r \in Ids, s \in Servers : Executed(r, s) => Reply(r, s)

(* The splits of a list of keys, and the keys in the first n of them.      *)
numSplits(keys) == (Len(keys) - 1) \div maxKeysPerServer(keys) + 1
KeysUpTo(keys, n) ==
    IF n * maxKeysPerServer(keys) < Len(keys) THEN n * maxKeysPerServer(keys) ELSE Len(keys)

(* The keys of r whose values came with the first n replies.               *)
KeysRead(r, n) ==
    IF IsSet(r) \/ n = 0 THEN 0
    ELSE IF IsSplit(r) THEN KeysUpTo(requests[r].keys, n)
    ELSE Len(requests[r].keys)

Response(t) ==
    LET r == work[t].request
        response == work[t].response
    IN  /\ Len(response) = KeysRead(r, Received(t))
        /\ IsMulti(r) => \A i \in 1 .. Len(response) :
                            response[i] \in Store!MayRead(r, requests[r].keys[i])
        /\ ~IsMulti(r) /\ ~IsSet(r) /\ Received(t) # 0
            => response = replied[Primary(requests[r].keys[1])][r]

(* The value a server holds of a key is of a SET it has executed, and of   *)
(* none that was answered before another it has executed was asked for.    *)
Writes(r, k) == IsSet(r) /\ requests[r].keys[1] = k

Latest(s, k) ==
    /\ data[s][k] # None =>
        /\ data[s][k] \in Ids /\ Writes(data[s][k], k) /\ Executed(data[s][k], s)
    /\ \A v \in Ids : Writes(v, k) /\ Executed(v, s)
        => data[s][k] # None /\ data[s][k] \notin requests[v].after

IInv ==
    /\ TypeOK /\ Typed
    /\ \A t \in Busy : InOrder(t) /\ OnTheWire(t) /\ Response(t)
    /\ ExecutedWhenHandled /\ AnsweredWhenExecuted
    /\ Replies
    /\ \A s \in Servers, k \in Keys : Latest(s, k)


-----------------------------------------------------------------------------
(* Lists of keys, the share of a server, and the servers of a request.     *)

(* There is a server.                                                      *)
LEMMA NumServersIsPositive == NumServers \in Nat \ {0}
  BY MiddlewareAssumption

(* A request is for one key or more.                                       *)
LEMMA KeyListsAreLists == KeyLists \subseteq Seq(Keys) \ {<< >>}
<1>1. ASSUME NEW command \in Commands PROVE command.keys \in Seq(Keys) \ {<< >>}
  BY MiddlewareAssumption
<1>2. ASSUME NEW k \in Keys PROVE <<k>> \in Seq(Keys) \ {<< >>}
  OBVIOUS
<1> QED  BY <1>1, <1>2 DEF KeyLists

(* What a quotient is.                                                     *)
LEMMA Division ==
  ASSUME NEW a \in Nat, NEW b \in Nat, b > 0, NEW q, q = a \div b
  PROVE  q \in Nat /\ q * b <= a /\ a < q * b + b
OBVIOUS

(* A larger number has the larger multiple.                                *)
LEMMA MultMonotone ==
  ASSUME NEW a \in Nat, NEW b \in Nat, NEW m \in Nat, a >= b
  PROVE  a * m >= b * m
<1>1. PICK d \in Nat : a = b + d
  <2> WITNESS a - b \in Nat
  <2> QED  OBVIOUS
<1>2. a * m = b * m + d * m
  BY <1>1
<1>3. d * m >= 0
  OBVIOUS
<1> QED  BY <1>2, <1>3

(* The list is not used up before the last split, and there are no more    *)
(* splits than servers.                                                    *)
LEMMA Shares ==
  ASSUME NEW keys \in KeyLists
  PROVE  /\ Len(keys) \in Nat \ {0} /\ maxKeysPerServer(keys) \in Nat \ {0}
         /\ numSplits(keys) \in 1 .. NumServers
         /\ (numSplits(keys) - 1) * maxKeysPerServer(keys) < Len(keys)
         /\ Len(keys) <= numSplits(keys) * maxKeysPerServer(keys)
<1> DEFINE share == maxKeysPerServer(keys)
           q == (Len(keys) - 1) \div share
           before == q * share
<1>1. Len(keys) \in Nat \ {0}
  BY KeyListsAreLists
<1>2. share \in Nat \ {0} /\ NumServers * share >= Len(keys)
  BY <1>1, NumServersIsPositive DEF maxKeysPerServer
<1> HIDE DEF share
<1>3. q \in Nat /\ before <= Len(keys) - 1 /\ Len(keys) - 1 < before + share
  <2>1. Len(keys) - 1 \in Nat /\ share > 0 /\ share \in Nat
    BY <1>1, <1>2
  <2> QED  BY <2>1, Division
<1>4. numSplits(keys) = q + 1
  BY DEF numSplits, share
<1> HIDE DEF q
<1>5. before \in Nat /\ (q + 1) * share = before + share
  BY <1>2, <1>3
<1>6. NumServers * share \in Nat /\ (q >= NumServers => before >= NumServers * share)
  BY <1>2, <1>3, MultMonotone, NumServersIsPositive
<1>7. before = q * share
  OBVIOUS
<1> HIDE DEF before
<1>8. q < NumServers
  <2> DEFINE room == NumServers * share
  <2>1. room >= Len(keys) /\ room \in Nat /\ (q >= NumServers => before >= room)
    BY <1>2, <1>6
  <2> HIDE DEF room
  <2> QED  BY <2>1, <1>1, <1>3, <1>5, NumServersIsPositive
<1>9. (numSplits(keys) - 1) * share = before /\ numSplits(keys) * share = before + share
  <2>1. numSplits(keys) - 1 = q
    BY <1>3, <1>4
  <2> QED  BY <2>1, <1>4, <1>5, <1>7
<1>10. before < Len(keys) /\ Len(keys) <= before + share
  <2>1. before \in Nat /\ share \in Nat
    BY <1>2, <1>5
  <2> QED  BY <2>1, <1>1, <1>3
<1>11. numSplits(keys) \in 1 .. NumServers
  BY <1>3, <1>4, <1>8, NumServersIsPositive
<1>12. share \in Nat \ {0}
  BY <1>2
<1>13. (numSplits(keys) - 1) * share < Len(keys) /\ Len(keys) <= numSplits(keys) * share
  BY <1>9, <1>10
<1> QED  BY <1>1, <1>11, <1>12, <1>13 DEF share

(* The round robin over the servers comes to a server once.                *)
LEMMA TurnsDiffer ==
  ASSUME NEW start \in Servers, NEW i \in 1 .. NumServers, NEW j \in 1 .. NumServers, i # j
  PROVE  (start + i - 1) % NumServers # (start + j - 1) % NumServers
<1>1. ASSUME NEW k \in 1 .. NumServers
      PROVE  (start + k - 1) % NumServers =
                IF start + k - 1 < NumServers THEN start + k - 1 ELSE start + k - 1 - NumServers
  BY <1>1, NumServersIsPositive DEF Servers
<1> QED  BY <1>1, NumServersIsPositive DEF Servers

(* No server is named twice in what a handler goes through.                *)
LEMMA TargetsDiffer ==
  ASSUME Typed, NEW r \in Ids
  PROVE  /\ Targets(r) \in Seq(Servers)
         /\ Len(Targets(r)) \in 1 .. NumServers
         /\ \A i, j \in 1 .. Len(Targets(r)) : i # j => Targets(r)[i] # Targets(r)[j]
         /\ IsSet(r) => Len(Targets(r)) = NumServers
                        /\ \A s \in Servers : Targets(r)[s + 1] = s
         /\ ~IsSet(r) /\ ~IsMulti(r)
            => Len(Targets(r)) = 1 /\ Targets(r)[1] = Primary(requests[r].keys[1])
<1> DEFINE keys == requests[r].keys
<1>1. keys \in KeyLists /\ findTargetServer[keys] \in Servers
  BY DEF Typed, Requested
<1>2. CASE IsSet(r)
  BY <1>2, NumServersIsPositive DEF Targets, AllServers, Servers
<1>3. CASE ~IsSet(r) /\ IsSplit(r)
  <2> DEFINE chunks == numSplits(keys)
             turn(n) == (findTargetServer[keys] + n - 1) % NumServers
  <2>1. chunks \in 1 .. NumServers
    BY <1>1, Shares
  <2>2. Targets(r) = [n \in 1 .. chunks |-> turn(n)]
    BY <1>3 DEF Targets, answerAssemblyOrder, numSplits
  <2>3. \A n \in 1 .. chunks : turn(n) \in Servers
    BY <1>1, <2>1, NumServersIsPositive DEF Servers
  <2>4. \A i, j \in 1 .. chunks : i # j => turn(i) # turn(j)
    BY <1>1, <2>1, TurnsDiffer, NumServersIsPositive
  <2>5. IsMulti(r)
    BY <1>3 DEF IsSplit, IsMulti
  <2> HIDE DEF chunks, turn
  <2>6. Targets(r) \in Seq(Servers) /\ Len(Targets(r)) = chunks
    BY <2>1, <2>2, <2>3
  <2> QED  BY <1>3, <2>1, <2>2, <2>4, <2>5, <2>6
<1>4. CASE ~IsSet(r) /\ ~IsSplit(r)
  <2>1. Targets(r) = <<findTargetServer[keys]>>
    BY <1>4 DEF Targets
  <2>2. ~IsMulti(r) => keys = <<keys[1]>>
    BY <1>1, KeyListsAreLists DEF IsMulti
  <2> QED  BY <1>1, <1>4, <2>1, <2>2, NumServersIsPositive DEF Primary
<1> QED  BY <1>2, <1>3, <1>4

(* The keys of the n-th split follow those of the splits before it.        *)
LEMMA SplitFollows ==
  ASSUME NEW keys \in KeyLists, NEW n \in 1 .. numSplits(keys)
  PROVE  /\ KeysUpTo(keys, n - 1) \in Nat /\ KeysUpTo(keys, n) \in Nat
         /\ KeysUpTo(keys, n - 1) < KeysUpTo(keys, n) /\ KeysUpTo(keys, n) <= Len(keys)
         /\ KeysUpTo(keys, 0) = 0
         /\ KeysUpTo(keys, numSplits(keys)) = Len(keys)
         /\ keySplit(keys, n) = SubSeq(keys, KeysUpTo(keys, n - 1) + 1, KeysUpTo(keys, n))
<1> DEFINE share == maxKeysPerServer(keys)
           before == (n - 1) * share
           product == n * share
           bound == (numSplits(keys) - 1) * share
<1>1. Len(keys) \in Nat /\ Len(keys) > 0 /\ share \in Nat /\ share > 0
      /\ numSplits(keys) \in Nat /\ numSplits(keys) - 1 \in Nat
      /\ n \in Nat /\ n - 1 \in Nat /\ n <= numSplits(keys)
  <2>1. numSplits(keys) \in 1 .. NumServers /\ Len(keys) \in Nat \ {0} /\ share \in Nat \ {0}
    BY Shares
  <2> HIDE DEF share
  <2> QED  BY <2>1
<1>2. bound < Len(keys) /\ Len(keys) <= numSplits(keys) * share
  BY Shares
<1>3. keySplit(keys, n) = SubSeq(keys, before + 1, KeysUpTo(keys, n))
  BY DEF keySplit, KeysUpTo
<1>4. KeysUpTo(keys, n) = IF product < Len(keys) THEN product ELSE Len(keys)
  BY DEF KeysUpTo
<1>5. KeysUpTo(keys, n - 1) = IF before < Len(keys) THEN before ELSE Len(keys)
  BY DEF KeysUpTo
<1>6. KeysUpTo(keys, 0) = IF 0 * share < Len(keys) THEN 0 * share ELSE Len(keys)
  BY DEF KeysUpTo
<1>7. KeysUpTo(keys, numSplits(keys)) = Len(keys)
  <2> DEFINE end == numSplits(keys) * share
  <2>1. end \in Nat /\ Len(keys) <= end /\ Len(keys) \in Nat
    BY <1>1, <1>2
  <2>2. KeysUpTo(keys, numSplits(keys)) = IF end < Len(keys) THEN end ELSE Len(keys)
    BY DEF KeysUpTo
  <2> HIDE DEF end
  <2> QED  BY <2>1, <2>2
<1> HIDE DEF share
<1>8. 0 * share = 0 /\ before \in Nat /\ bound \in Nat /\ product = before + share
  <2>1. \A a, m \in Nat : 0 * m = 0 /\ a * m \in Nat /\ (a + 1) * m = a * m + m
    OBVIOUS
  <2>2. n = (n - 1) + 1
    BY <1>1
  <2> QED  BY <1>1, <2>1, <2>2
<1>9. bound >= before
  BY <1>1, MultMonotone
<1> HIDE DEF before, product, bound
<1>10. before < Len(keys)
  BY <1>1, <1>2, <1>8, <1>9
<1>11. KeysUpTo(keys, n - 1) = before /\ KeysUpTo(keys, 0) = 0
  BY <1>1, <1>5, <1>6, <1>8, <1>10
<1>12. before < KeysUpTo(keys, n) /\ KeysUpTo(keys, n) <= Len(keys) /\ KeysUpTo(keys, n) \in Nat
  BY <1>1, <1>4, <1>8, <1>10
<1>13. keySplit(keys, n) = SubSeq(keys, KeysUpTo(keys, n - 1) + 1, KeysUpTo(keys, n))
  BY <1>3, <1>11
<1>14. before \in Nat
  BY <1>8
<1> QED  BY <1>7, <1>11, <1>12, <1>13, <1>14

(* The n-th reply to a GET holds the next keys of the request, and the     *)
(* last reply its last keys.                                               *)
LEMMA RepliesFollow ==
  ASSUME Typed, NEW r \in Ids, ~IsSet(r), NEW n \in 1 .. Len(Targets(r))
  PROVE  /\ KeysAt(r, Targets(r)[n]) \in Seq(Keys)
         /\ KeysRead(r, n - 1) \in Nat /\ KeysRead(r, n) \in Nat
         /\ KeysRead(r, n) <= Len(requests[r].keys)
         /\ Len(KeysAt(r, Targets(r)[n])) = KeysRead(r, n) - KeysRead(r, n - 1)
         /\ \A i \in 1 .. Len(KeysAt(r, Targets(r)[n])) :
              KeysAt(r, Targets(r)[n])[i] = requests[r].keys[KeysRead(r, n - 1) + i]
         /\ n = Len(Targets(r)) => KeysRead(r, n) = Len(requests[r].keys)
<1> DEFINE keys == requests[r].keys
           s == Targets(r)[n]
<1>1. keys \in KeyLists /\ keys \in Seq(Keys) /\ Len(keys) \in Nat
  BY KeyListsAreLists DEF Typed, Requested
<1>2. CASE IsSplit(r)
  <2> DEFINE order == answerAssemblyOrder(keys)
             first == KeysUpTo(keys, n - 1)
             last == KeysUpTo(keys, n)
  <2>1. Targets(r) = order /\ numSplits(keys) \in 1 .. NumServers
    BY <1>1, <1>2, Shares DEF Targets
  <2>2. DOMAIN order = 1 .. numSplits(keys)
    BY DEF answerAssemblyOrder, numSplits
  <2>3. Len(Targets(r)) = numSplits(keys) /\ n \in 1 .. numSplits(keys)
    BY <2>1, <2>2, TargetsDiffer
  <2>4. (CHOOSE m \in DOMAIN order : order[m] = s) = n
    <3>1. \A m \in DOMAIN order : order[m] = s => m = n
      BY <2>1, <2>2, <2>3, TargetsDiffer
    <3>2. n \in DOMAIN order /\ order[n] = s
      BY <2>1, <2>2, <2>3
    <3> HIDE DEF order, s
    <3> QED  BY <3>1, <3>2
  <2>5. KeysAt(r, s) = keySplit(keys, n)
    BY <1>2, <2>4 DEF KeysAt
  <2> HIDE DEF order
  <2>6. /\ first \in Nat /\ last \in Nat /\ first < last /\ last <= Len(keys)
        /\ KeysUpTo(keys, 0) = 0
        /\ n = numSplits(keys) => last = Len(keys)
        /\ keySplit(keys, n) = SubSeq(keys, first + 1, last)
    BY <1>1, <2>3, SplitFollows
  <2>7. KeysRead(r, n) = last /\ KeysRead(r, n - 1) = first
    BY <1>2, <2>1, <2>3, <2>6 DEF KeysRead
  <2> HIDE DEF first, last
  <2>8. \A i \in first + 1 .. last : keys[i] \in Keys
    BY <1>1, <2>6
  <2>9. /\ keySplit(keys, n) \in Seq(Keys)
        /\ Len(keySplit(keys, n)) = last - first
        /\ \A i \in 1 .. last - first : keySplit(keys, n)[i] = keys[first + i]
    <3>1. first + 1 \in Int /\ last \in Int /\ first + 1 <= last
          /\ last - (first + 1) + 1 = last - first
          /\ \A i \in 1 .. last - first : (first + 1) + i - 1 = first + i
      BY <2>6
    <3>2. /\ SubSeq(keys, first + 1, last) \in Seq(Keys)
          /\ Len(SubSeq(keys, first + 1, last)) = last - first
          /\ \A i \in 1 .. last - first :
                SubSeq(keys, first + 1, last)[i] = keys[(first + 1) + i - 1]
      BY <2>8, <3>1, SubSeqProperties
    <3> QED  BY <2>6, <3>1, <3>2
  <2> QED  BY <2>3, <2>5, <2>6, <2>7, <2>9
<1>3. CASE ~IsSplit(r)
  <2>1. KeysAt(r, s) = keys /\ Targets(r) = <<findTargetServer[keys]>>
    BY <1>3 DEF KeysAt, Targets
  <2>2. n = 1 /\ Len(Targets(r)) = 1
    BY <2>1
  <2>3. KeysRead(r, n) = Len(keys) /\ KeysRead(r, n - 1) = 0
    BY <1>3, <2>2 DEF KeysRead
  <2> QED  BY <1>1, <2>1, <2>2, <2>3
<1> QED  BY <1>2, <1>3

-----------------------------------------------------------------------------
(* What no step changes: the kind and the keys of a request, and what it   *)
(* comes after.                                                            *)

Fixed(r) ==
    /\ r \in Ids /\ r \in Ids'
    /\ requests'[r].kind = requests[r].kind
    /\ requests'[r].keys = requests[r].keys
    /\ requests'[r].after = requests[r].after

StartFixed == UNCHANGED <<readSharded, findTargetServer>>
RequestsFixed == StartFixed /\ \A r \in Ids : Fixed(r)

(* What only depends on the requests and on the start stays the same.      *)
LEMMA FixedRequest ==
  ASSUME StartFixed, NEW r, Fixed(r)
  PROVE  /\ IsSet(r)' <=> IsSet(r)
         /\ IsMulti(r)' <=> IsMulti(r)
         /\ Targets(r)' = Targets(r)
         /\ \A s : KeysAt(r, s)' = KeysAt(r, s)
         /\ \A n : KeysRead(r, n)' = KeysRead(r, n)
         /\ Primary(requests[r].keys[1])' = Primary(requests[r].keys[1])
<1> USE DEF StartFixed, Fixed
<1>1. (IsSet(r)' <=> IsSet(r)) /\ (IsMulti(r)' <=> IsMulti(r)) /\ (IsSplit(r)' <=> IsSplit(r))
  BY DEF IsSet, IsMulti, IsSplit
<1>2. /\ answerAssemblyOrder(requests[r].keys)' = answerAssemblyOrder(requests[r].keys)
      /\ \A n : /\ keySplit(requests[r].keys, n)' = keySplit(requests[r].keys, n)
                /\ KeysUpTo(requests[r].keys, n)' = KeysUpTo(requests[r].keys, n)
  BY DEF answerAssemblyOrder, keySplit, KeysUpTo, maxKeysPerServer
<1>3. Targets(r)' = Targets(r)
  BY <1>1, <1>2 DEF Targets, AllServers
<1>4. ASSUME NEW s PROVE KeysAt(r, s)' = KeysAt(r, s)
  BY <1>1, <1>2 DEF KeysAt
<1>5. ASSUME NEW n PROVE KeysRead(r, n)' = KeysRead(r, n)
  BY <1>1, <1>2 DEF KeysRead
<1> QED  BY <1>1, <1>3, <1>4, <1>5 DEF Primary

(* A value that could be read can be read for ever.                        *)
LEMMA MayReadGrows ==
  ASSUME Typed, Typed', RequestsFixed, NEW r \in Ids, NEW k
  PROVE  Store!MayRead(r, k) \subseteq Store!MayRead(r, k)'
<1> USE DEF RequestsFixed, Fixed
<1>1. requests[r].after \subseteq Ids /\ requests'[r].after = requests[r].after
  BY DEF Typed
<1>2. ASSUME NEW v \in Ids PROVE v \in Store!SetsOf(k)' <=> v \in Store!SetsOf(k)
  BY <1>2 DEF Store!SetsOf, Store!Ids, Store!IsSet, Store!Key, Ids
<1>3. Store!SetsOf(k) \subseteq Ids
  BY DEF Store!SetsOf, Store!Ids, Ids
<1>4. ASSUME NEW w \in Ids PROVE Store!Replaced(w, k, r)' => Store!Replaced(w, k, r)
  BY <1>1, <1>2, <1>4 DEF Store!Replaced
<1>5. Store!SetsOf(k)' \intersect requests'[r].after = Store!SetsOf(k) \intersect requests[r].after
  BY <1>1, <1>2
<1> QED  BY <1>2, <1>3, <1>4, <1>5 DEF Store!MayRead

(* A handler whose own data no step touches.                               *)
LEMMA UntouchedHandler ==
  ASSUME TypeOK, Typed, Typed', RequestsFixed,
         NEW t \in Busy, work[t].request \in Ids, InOrder(t), OnTheWire(t), Response(t),
         work'[t] = work[t], wire'[t] = wire[t],
         \A s \in Servers :
            /\ Executed(work[t].request, s)' <=> Executed(work[t].request, s)
            /\ Executed(work[t].request, s)
               => replied'[s][work[t].request] = replied[s][work[t].request]
  PROVE  InOrder(t)' /\ OnTheWire(t)' /\ Response(t)'
<1> PICK r : r = work[t].request
  OBVIOUS
<1>1. Fixed(r) /\ StartFixed /\ r \in Ids
  BY DEF RequestsFixed
<1>2. /\ Targets(r)' = Targets(r) /\ (IsSet(r)' <=> IsSet(r)) /\ (IsMulti(r)' <=> IsMulti(r))
      /\ \A n : KeysRead(r, n)' = KeysRead(r, n)
      /\ Primary(requests[r].keys[1])' = Primary(requests[r].keys[1])
  BY <1>1, FixedRequest
<1>3. TargetsOf(t)' = TargetsOf(t) /\ Sent(t)' = Sent(t) /\ Received(t)' = Received(t)
  BY <1>2 DEF TargetsOf, Sent, Received
<1>4. InOrder(t)'
  BY <1>3 DEF InOrder
<1>5. TargetsOf(t) \in Seq(Servers)
  BY <1>1, TargetsDiffer DEF TargetsOf
<1>6. OnTheWire(t)'
  <2> SUFFICES ASSUME NEW n \in 1 .. Len(TargetsOf(t)), NEW s, s = TargetsOf(t)[n]
               PROVE  /\ n <= Received(t) => wire[t][s] = "quiet" /\ Executed(r, s)'
                      /\ n > Received(t) /\ n <= Sent(t)
                          => wire[t][s] = IF Executed(r, s)' THEN "reply" ELSE "command"
                      /\ n > Sent(t) => wire[t][s] = "quiet" /\ ~Executed(r, s)'
    BY <1>3 DEF OnTheWire, Executed
  <2>1. s \in Servers
    BY <1>5
  <2>2. Executed(r, s)' <=> Executed(r, s)
    BY <2>1 DEF Executed
  <2> QED  BY <2>2 DEF OnTheWire
<1>7. Response(t)'
  <2>1. Len(work[t].response) = KeysRead(r, Received(t))
    BY DEF Response
  <2>2. IsMulti(r) => \A i \in 1 .. Len(work[t].response) :
                         work[t].response[i] \in Store!MayRead(r, requests[r].keys[i])'
    <3>1. \A k : Store!MayRead(r, k) \subseteq Store!MayRead(r, k)'
      BY <1>1, MayReadGrows
    <3> QED  BY <3>1, <1>1 DEF Response, Fixed
  <2>3. ~IsMulti(r) /\ ~IsSet(r) /\ Received(t) # 0
          => work[t].response = replied'[Primary(requests[r].keys[1])][r]
    <3> SUFFICES ASSUME ~IsMulti(r), ~IsSet(r), Received(t) # 0
                 PROVE  work[t].response = replied'[Primary(requests[r].keys[1])][r]
      OBVIOUS
    <3>1. Len(TargetsOf(t)) = 1 /\ TargetsOf(t)[1] = Primary(requests[r].keys[1])
          /\ TargetsOf(t)[1] \in Servers
      BY <1>1, <1>5, TargetsDiffer DEF TargetsOf
    <3>2. Received(t) \in Nat /\ Received(t) >= 1
      <4>1. Received(t) \in Int
        BY <3>1 DEF Received, TypeOK
      <4> QED  BY <4>1 DEF InOrder
    <3>3. Executed(r, TargetsOf(t)[1])
      BY <3>1, <3>2 DEF OnTheWire
    <3> QED  BY <3>1, <3>3 DEF Response
  <2> QED  BY <1>2, <1>3, <2>1, <2>2, <2>3, <1>1 DEF Response, Fixed
<1> QED  BY <1>4, <1>6, <1>7

(* A reply, and a value, that no step touches.                             *)
LEMMA UntouchedReply ==
  ASSUME Typed, Typed', RequestsFixed, NEW r \in Ids, NEW s, Reply(r, s),
         replied'[s][r] = replied[s][r]
  PROVE  Reply(r, s)'
<1>1. Fixed(r) /\ StartFixed
  BY DEF RequestsFixed
<1>2. (IsSet(r)' <=> IsSet(r)) /\ (IsMulti(r)' <=> IsMulti(r)) /\ KeysAt(r, s)' = KeysAt(r, s)
  BY <1>1, FixedRequest
<1>3. \A k : Store!MayRead(r, k) \subseteq Store!MayRead(r, k)'
  BY MayReadGrows
<1>4. Values' = Values
  BY DEF Values, RequestIds
<1> QED  BY <1>2, <1>3, <1>4 DEF Reply

(* A key that no step writes keeps the value of the last SET.              *)
LEMMA UntouchedValue ==
  ASSUME Typed, Typed', RequestsFixed, NEW s, NEW k, Latest(s, k),
         data'[s][k] = data[s][k],
         DOMAIN replied'[s] = DOMAIN replied[s], DOMAIN replied[s] \subseteq Ids
  PROVE  Latest(s, k)'
<1>1. \A v \in Ids : v \in Ids' /\ (Writes(v, k)' <=> Writes(v, k))
                     /\ (Executed(v, s)' <=> Executed(v, s))
                     /\ requests'[v].after = requests[v].after
  BY DEF RequestsFixed, Fixed, Writes, Executed, IsSet
<1>2. \A v : Executed(v, s)' => v \in Ids
  BY DEF Executed
<1>3. ASSUME NEW w, w = data'[s][k], w # None
      PROVE  w \in Ids' /\ Writes(w, k)' /\ Executed(w, s)'
  BY <1>1, <1>3 DEF Latest
<1>4. \A v \in Ids' : Writes(v, k)' /\ Executed(v, s)'
        => data'[s][k] # None /\ data'[s][k] \notin requests'[v].after
  BY <1>1, <1>2 DEF Latest
<1> QED  BY <1>3, <1>4 DEF Latest, Writes, Executed, IsSet

-----------------------------------------------------------------------------
(* Init and every action keep the invariant.                               *)

(* Sequences of none and of one element, and their first element.          *)
LEMMA ShortSequences ==
  ASSUME NEW S
  PROVE  /\ << >> \in Seq(S) /\ Len(<< >>) = 0
         /\ \A x \in S : <<x>> \in Seq(S)
         /\ \A s \in Seq(S) : s # << >> => Head(s) \in S /\ Tail(s) \in Seq(S)
         /\ \A s \in Seq(S), x \in S : Append(s, x) \in Seq(S)
OBVIOUS

(* The invariant holds at the start.                                       *)
LEMMA InitIInv == Init => IInv
<1> SUFFICES ASSUME Init PROVE IInv
  OBVIOUS
<1> USE DEF Init
<1>1. Ids = {} /\ Pending = {}
  BY DEF Ids, Pending
<1>2. Busy = {} /\ Handled = {}
  BY DEF Busy, Handled, Idle
<1>3. \A s \in Servers : DOMAIN replied[s] = {}
  OBVIOUS
<1>4. queue \in Seq(RequestIds) /\ Range(queue) = {} /\ IsInjective(queue)
  BY DEF Range, IsInjective
<1>5. work \in [Threads -> ThreadStates]
  <2>1. << >> \in Seq(Servers) /\ << >> \in Seq(Values) /\ None \in Values
    BY ShortSequences DEF Values
  <2> QED  BY <2>1 DEF ThreadStates, Idle
<1>6. data \in [Servers -> [Keys -> Values]]
  BY DEF Values
<1>7. \A t \in Threads, s \in Servers : wire[t][s] = "quiet"
  OBVIOUS
<1>8. TypeOK
  BY <1>1, <1>2, <1>3, <1>4, <1>5, <1>6, <1>7 DEF TypeOK
<1>9. Typed
  BY <1>1, <1>2, <1>4 DEF Typed
<1>10. \A s \in Servers, k \in Keys : Latest(s, k)
  BY <1>1, <1>3 DEF Latest
<1> QED
  BY <1>1, <1>2, <1>8, <1>9, <1>10 DEF IInv, ExecutedWhenHandled, AnsweredWhenExecuted, Replies

(* A new request keeps the invariant: nothing has seen it.                 *)
LEMMA RequestKeepsIInv ==
  ASSUME IInv, NEW c \in Clients, NEW command \in Commands, Request(c, command)
  PROVE  IInv'
<1>1. PICK n \in 1 .. MaxRequests :
        /\ Issued(c) = {c} \X (1 .. n - 1)
        /\ requests' = Put(requests, <<c, n>>,
               [kind |-> command.kind, keys |-> command.keys, after |-> Ids \ Pending,
                answered |-> FALSE, answer |-> << >>])
  BY DEF Request
<1> DEFINE new == <<c, n>>
           record == [kind |-> command.kind, keys |-> command.keys, after |-> Ids \ Pending,
                      answered |-> FALSE, answer |-> << >>]
<1>2. new \in RequestIds /\ new \notin Ids
  BY <1>1 DEF Issued, RequestIds
<1>3. Ids' = Ids \union {new} /\ requests'[new] = record
      /\ \A r \in Ids : requests'[r] = requests[r]
  BY <1>1, <1>2 DEF Ids, Put
<1>4. Pending' = Pending \union {new}
  BY <1>2, <1>3 DEF Pending
<1>5. UNCHANGED <<readSharded, findTargetServer, queue, work, wire, data, replied>>
  BY DEF Request
<1>6. Busy' = Busy /\ Handled' = Handled /\ Values' = Values
  BY <1>5 DEF Busy, Handled, Values, RequestIds
<1>7. TypeOK /\ Typed
  BY DEF IInv
<1>8. record \in Requested
  <2>1. command.kind \in {"set", "get"} /\ command.keys \in KeyLists
    BY MiddlewareAssumption DEF KeyLists
  <2>2. Ids \ Pending \subseteq RequestIds /\ << >> \in Seq(Values)
    BY <1>7, ShortSequences DEF TypeOK
  <2> QED  BY <2>1, <2>2 DEF Requested
<1>9. Typed'
  <2>1. requests' \in [Ids' -> Requested]
    <3>1. requests' = [r \in Ids' |-> requests'[r]]
      BY <1>1 DEF Ids, Put
    <3>2. \A r \in Ids' : requests'[r] \in Requested
      BY <1>3, <1>7, <1>8 DEF Typed
    <3> QED  BY <3>1, <3>2
  <2>2. \A r \in Ids' : /\ IsSet(r)' => Len(requests'[r].keys) = 1
                        /\ requests'[r].after \subseteq Ids' \ Pending'
    <3>1. command.kind = "set" => Len(command.keys) = 1
      BY MiddlewareAssumption
    <3>2. Ids \ Pending \subseteq Ids' \ Pending'
      BY <1>2, <1>3, <1>4
    <3> TAKE r \in Ids'
    <3>3. CASE r = new
      BY <1>3, <3>1, <3>2, <3>3 DEF IsSet
    <3>4. CASE r \in Ids
      BY <1>3, <1>7, <3>2, <3>4 DEF Typed, IsSet
    <3> QED  BY <1>3, <3>3, <3>4
  <2>3. Requested' = Requested
    BY DEF Requested, Values, RequestIds, KeyLists
  <2> QED  BY <1>5, <1>6, <1>7, <2>1, <2>2, <2>3 DEF Typed
<1>10. RequestsFixed
  BY <1>3, <1>5 DEF RequestsFixed, StartFixed, Fixed
<1>11. TypeOK'
  BY <1>2, <1>3, <1>4, <1>5, <1>6, <1>7 DEF TypeOK, ThreadStates, RequestIds
<1>12. ASSUME NEW t \in Busy' PROVE InOrder(t)' /\ OnTheWire(t)' /\ Response(t)'
  <2>1. t \in Busy /\ work[t].request \in Ids
    BY <1>6, <1>7 DEF TypeOK, Handled, Pending
  <2>2. InOrder(t) /\ OnTheWire(t) /\ Response(t)
    BY <2>1 DEF IInv
  <2> QED  BY <1>5, <1>7, <1>9, <1>10, <2>1, <2>2, UntouchedHandler DEF Executed
<1>13. ExecutedWhenHandled' /\ AnsweredWhenExecuted'
  <2>1. \A s \in Servers : ~Executed(new, s)
    BY <1>2, <1>7 DEF TypeOK, Executed
  <2>2. \A r \in Ids \ Pending : IsSet(r)' <=> IsSet(r)
    BY <1>3 DEF IsSet
  <2>3. Ids' \ Pending' = Ids \ Pending
    BY <1>2, <1>3, <1>4
  <2> QED  BY <1>4, <1>5, <1>6, <2>1, <2>2, <2>3
           DEF IInv, ExecutedWhenHandled, AnsweredWhenExecuted, Executed
<1>14. Replies'
  <2> SUFFICES ASSUME NEW r \in Ids', NEW s \in Servers, Executed(r, s)' PROVE Reply(r, s)'
    BY DEF Replies, Servers
  <2>1. r \in Ids /\ Executed(r, s)
    BY <1>5, <1>7 DEF Executed, TypeOK
  <2> QED  BY <1>5, <1>7, <1>9, <1>10, <2>1, UntouchedReply DEF IInv, Replies
<1>15. ASSUME NEW s \in Servers, NEW k \in Keys PROVE Latest(s, k)'
  BY <1>5, <1>7, <1>9, <1>10, UntouchedValue DEF IInv, TypeOK
<1> QED  BY <1>9, <1>11, <1>12, <1>13, <1>14, <1>15 DEF IInv, Servers

(* While no request is made or answered.                                   *)
LEMMA SameRequests ==
  ASSUME IInv, UNCHANGED <<readSharded, findTargetServer, requests>>
  PROVE  /\ Ids' = Ids /\ Pending' = Pending /\ RequestsFixed
         /\ Values' = Values /\ ThreadStates' = ThreadStates /\ Requested' = Requested
         /\ \A r : /\ IsSet(r)' <=> IsSet(r)
                   /\ Targets(r)' = Targets(r)
<1>1. Ids' = Ids /\ Pending' = Pending
  BY DEF Ids, Pending
<1>2. RequestsFixed
  BY DEF RequestsFixed, StartFixed, Fixed, Ids
<1>3. Values' = Values /\ ThreadStates' = ThreadStates /\ Requested' = Requested
  BY DEF Values, ThreadStates, Requested, RequestIds, Servers, KeyLists
<1>4. ASSUME NEW r PROVE (IsSet(r)' <=> IsSet(r)) /\ Targets(r)' = Targets(r)
  BY DEF IsSet, Targets, AllServers, IsSplit, answerAssemblyOrder, maxKeysPerServer
<1> QED  BY <1>1, <1>2, <1>3, <1>4

(* The net thread that enqueues a request keeps the invariant.             *)
LEMMA EnqueueKeepsIInv ==
  ASSUME IInv, NEW r \in Pending, EnqueueChannel(r)
  PROVE  IInv'
<1>1. /\ r \notin Range(queue) /\ r \notin Handled
      /\ queue' = Append(queue, r)
      /\ UNCHANGED <<readSharded, findTargetServer, requests, work, wire, data, replied>>
  BY DEF EnqueueChannel
<1>2. TypeOK /\ Typed
  BY DEF IInv
<1>3. /\ Ids' = Ids /\ Pending' = Pending /\ RequestsFixed
      /\ Values' = Values /\ ThreadStates' = ThreadStates /\ Requested' = Requested
      /\ \A v : IsSet(v)' <=> IsSet(v)
  BY <1>1, SameRequests
<1>4. Busy' = Busy /\ Handled' = Handled
  BY <1>1 DEF Busy, Handled
<1>5. r \in RequestIds /\ queue \in Seq(RequestIds)
  BY <1>2 DEF TypeOK, Typed, Pending
<1>6. queue' \in Seq(RequestIds) /\ Range(queue') = Range(queue) \union {r} /\ IsInjective(queue')
  <2>1. queue' \in Seq(RequestIds) /\ Len(queue') = Len(queue) + 1
        /\ queue'[Len(queue) + 1] = r
        /\ \A i \in 1 .. Len(queue) : queue'[i] = queue[i]
    BY <1>1, <1>5
  <2>2. IsInjective(queue)
    BY <1>2 DEF TypeOK
  <2>3. DOMAIN queue = 1 .. Len(queue) /\ DOMAIN queue' = 1 .. Len(queue) + 1 /\ Len(queue) \in Nat
    BY <1>5, <2>1
  <2>4. Range(queue') = Range(queue) \union {r}
    BY <2>1, <2>3 DEF Range
  <2> QED  BY <1>1, <2>1, <2>2, <2>3, <2>4 DEF Range, IsInjective
<1>7. TypeOK'
  <2>1. Handled' \union Range(queue') \subseteq Pending' /\ Handled' \intersect Range(queue') = {}
    BY <1>1, <1>2, <1>3, <1>4, <1>6 DEF TypeOK
  <2> QED  BY <1>1, <1>2, <1>3, <1>4, <1>6, <2>1 DEF TypeOK, RequestIds
<1>8. Typed'
  BY <1>1, <1>2, <1>3, <1>4, <1>6 DEF Typed, RequestIds
<1>9. ASSUME NEW t \in Busy' PROVE InOrder(t)' /\ OnTheWire(t)' /\ Response(t)'
  <2>1. t \in Busy /\ work[t].request \in Ids
    BY <1>2, <1>4 DEF TypeOK, Handled, Pending
  <2>2. InOrder(t) /\ OnTheWire(t) /\ Response(t)
    BY <2>1 DEF IInv
  <2> QED  BY <1>1, <1>2, <1>3, <1>8, <2>1, <2>2, UntouchedHandler DEF Executed
<1>10. ExecutedWhenHandled' /\ AnsweredWhenExecuted'
  BY <1>1, <1>3, <1>4 DEF IInv, ExecutedWhenHandled, AnsweredWhenExecuted, Executed
<1>11. Replies'
  BY <1>1, <1>2, <1>3, <1>8, UntouchedReply DEF IInv, Replies, Executed
<1>12. ASSUME NEW s \in Servers, NEW k \in Keys PROVE Latest(s, k)'
  BY <1>1, <1>2, <1>3, <1>8, UntouchedValue DEF IInv, TypeOK
<1> QED  BY <1>7, <1>8, <1>9, <1>10, <1>11, <1>12 DEF IInv, Servers

(* A thread that takes a request keeps the invariant: it has sent nothing. *)
LEMMA TakeKeepsIInv ==
  ASSUME IInv, NEW t \in Threads, Take(t)
  PROVE  IInv'
<1> PICK r : r = Head(queue)
  OBVIOUS
<1> DEFINE taken == [request |-> r, toSend |-> Targets(r), toReceive |-> Targets(r), response |-> << >>]
<1>1. /\ work[t] = Idle /\ queue # << >> /\ queue' = Tail(queue)
      /\ work' = [work EXCEPT ![t] = taken]
      /\ UNCHANGED <<readSharded, findTargetServer, requests, wire, data, replied>>
  BY DEF Take
<1>2. TypeOK /\ Typed
  BY DEF IInv
<1>3. /\ Ids' = Ids /\ Pending' = Pending /\ RequestsFixed
      /\ Values' = Values /\ ThreadStates' = ThreadStates /\ Requested' = Requested
      /\ \A v : (IsSet(v)' <=> IsSet(v)) /\ Targets(v)' = Targets(v)
  BY <1>1, SameRequests
<1>4. /\ queue' \in Seq(RequestIds) /\ IsInjective(queue')
      /\ r \in Range(queue) /\ Range(queue') = Range(queue) \ {r}
  <2>1. queue \in Seq(RequestIds) /\ IsInjective(queue)
    BY <1>2 DEF TypeOK, Typed
  <2>2. /\ queue' \in Seq(RequestIds) /\ Len(queue') = Len(queue) - 1
        /\ Len(queue) \in Nat /\ Len(queue) > 0 /\ r = queue[1]
        /\ \A i \in 1 .. Len(queue) - 1 : queue'[i] = queue[i + 1]
    BY <1>1, <2>1
  <2>3. DOMAIN queue = 1 .. Len(queue) /\ DOMAIN queue' = 1 .. Len(queue) - 1
    BY <2>1, <2>2
  <2>4. IsInjective(queue')
    <3> SUFFICES ASSUME NEW i \in 1 .. Len(queue) - 1, NEW j \in 1 .. Len(queue) - 1,
                        queue'[i] = queue'[j]
                 PROVE  i = j
      BY <2>3 DEF IsInjective
    <3>1. i + 1 \in DOMAIN queue /\ j + 1 \in DOMAIN queue /\ queue[i + 1] = queue[j + 1]
      BY <2>2, <2>3
    <3>2. i + 1 = j + 1
      BY <2>1, <3>1 DEF IsInjective
    <3> QED  BY <2>2, <3>2
  <2>5. ASSUME NEW x \in Range(queue), x # r PROVE x \in Range(queue')
    <3>1. PICK i \in 1 .. Len(queue) : queue[i] = x
      BY <2>3, <2>5 DEF Range
    <3>2. i - 1 \in 1 .. Len(queue) - 1 /\ queue'[i - 1] = x
      BY <2>2, <2>5, <3>1
    <3> QED  BY <2>3, <3>2 DEF Range
  <2>6. ASSUME NEW x \in Range(queue') PROVE x \in Range(queue) \ {r}
    <3>1. PICK i \in 1 .. Len(queue) - 1 : queue'[i] = x
      BY <2>3, <2>6 DEF Range
    <3>2. i + 1 \in 1 .. Len(queue) /\ queue[i + 1] = x /\ i + 1 # 1 /\ 1 \in 1 .. Len(queue)
      BY <2>2, <3>1
    <3> QED  BY <2>1, <2>2, <2>3, <3>2 DEF Range, IsInjective
  <2>7. r \in Range(queue)
    BY <2>2, <2>3 DEF Range
  <2> QED  BY <2>2, <2>4, <2>5, <2>6, <2>7
<1>5. r \in Pending /\ r \in Ids /\ r \in RequestIds /\ r # None /\ r \notin Handled
  BY <1>2, <1>4, MiddlewareAssumption DEF TypeOK, Pending, RequestIds
<1>6. /\ Targets(r) \in Seq(Servers) /\ Len(Targets(r)) \in 1 .. NumServers
  BY <1>2, <1>5, TargetsDiffer
<1>7. /\ t \notin Busy /\ Busy' = Busy \union {t} /\ Handled' = Handled \union {r}
      /\ work'[t] = taken /\ \A u \in Threads \ {t} : work'[u] = work[u]
      /\ work' \in [Threads -> ThreadStates]
  <2>1. taken \in ThreadStates
    BY <1>5, <1>6, ShortSequences DEF ThreadStates, Values
  <2>2. work \in [Threads -> ThreadStates]
    BY <1>2 DEF TypeOK
  <2>3. work'[t] = taken /\ (\A u \in Threads \ {t} : work'[u] = work[u]) /\ work' \in [Threads -> ThreadStates]
    BY <1>1, <2>1, <2>2
  <2>4. t \notin Busy /\ Busy' = Busy \union {t}
    BY <1>1, <1>5, <2>3 DEF Busy, Idle
  <2> QED  BY <2>3, <2>4 DEF Handled, Busy
<1>8. TypeOK'
  <2>1. Handled' \union Range(queue') \subseteq Pending' /\ Handled' \intersect Range(queue') = {}
    BY <1>2, <1>3, <1>4, <1>5, <1>7 DEF TypeOK
  <2>2. \A u, w \in Busy' : work'[u].request = work'[w].request => u = w
    BY <1>2, <1>5, <1>7 DEF TypeOK, Handled, Busy
  <2>3. \A u \in Threads, s \in Servers :
          wire'[u][s] # "quiet" => u \in Busy' /\ s \in Range(work'[u].toReceive)
    BY <1>1, <1>2, <1>7 DEF TypeOK
  <2> QED  BY <1>1, <1>2, <1>3, <1>4, <1>7, <2>1, <2>2, <2>3 DEF TypeOK, RequestIds, Servers
<1>9. Typed'
  BY <1>1, <1>2, <1>3, <1>4, <1>7 DEF Typed, RequestIds, Servers, KeyLists, Idle
<1>10. ASSUME NEW u \in Busy' PROVE InOrder(u)' /\ OnTheWire(u)' /\ Response(u)'
  <2>1. CASE u \in Busy
    <3>1. work[u].request \in Ids /\ work'[u] = work[u]
      BY <1>2, <1>7, <2>1 DEF TypeOK, Handled, Pending, Busy
    <3>2. InOrder(u) /\ OnTheWire(u) /\ Response(u)
      BY <2>1 DEF IInv
    <3> QED  BY <1>1, <1>2, <1>3, <1>9, <2>1, <3>1, <3>2, UntouchedHandler DEF Executed
  <2>2. CASE u = t
    <3>1. TargetsOf(t)' = Targets(r) /\ Sent(t)' = 0 /\ Received(t)' = 0
      BY <1>3, <1>6, <1>7 DEF TargetsOf, Sent, Received
    <3>2. InOrder(t)'
      BY <1>6, <1>7, <3>1 DEF InOrder
    <3>3. OnTheWire(t)'
      <4>1. ASSUME NEW n \in 1 .. Len(Targets(r)), NEW s, s = Targets(r)[n]
            PROVE  wire'[t][s] = "quiet" /\ ~Executed(r, s)' /\ n > 0
        <5>1. s \in Servers /\ n > 0
          BY <1>6, <4>1
        <5>2. ~Executed(r, s)
          BY <1>5, <5>1 DEF IInv, ExecutedWhenHandled
        <5>3. wire[t][s] = "quiet"
          BY <1>2, <1>7, <5>1 DEF TypeOK
        <5> QED  BY <1>1, <5>1, <5>2, <5>3 DEF Executed
      <4>2. taken.request = r
        OBVIOUS
      <4> QED  BY <1>7, <3>1, <4>1, <4>2 DEF OnTheWire, Executed
    <3>4. Response(t)'
      BY <1>7, <3>1, ShortSequences DEF Response, KeysRead
    <3> QED  BY <2>2, <3>2, <3>3, <3>4
  <2> QED  BY <1>7, <2>1, <2>2
<1>11. ExecutedWhenHandled' /\ AnsweredWhenExecuted'
  BY <1>1, <1>3, <1>7 DEF IInv, ExecutedWhenHandled, AnsweredWhenExecuted, Executed
<1>12. Replies'
  BY <1>1, <1>2, <1>3, <1>9, UntouchedReply DEF IInv, Replies, Executed
<1>13. ASSUME NEW s \in Servers, NEW k \in Keys PROVE Latest(s, k)'
  BY <1>1, <1>2, <1>3, <1>9, UntouchedValue DEF IInv, TypeOK
<1> QED  BY <1>8, <1>9, <1>10, <1>11, <1>12, <1>13 DEF IInv, Servers

(* What is known of a thread that handles r.                               *)
LEMMA BusyThread ==
  ASSUME IInv, NEW t \in Busy, NEW r, r = work[t].request
  PROVE  /\ t \in Threads /\ r \in Ids /\ r \in Pending /\ r \in Handled /\ r \in RequestIds
         /\ TargetsOf(t) = Targets(r) /\ Targets(r) \in Seq(Servers)
         /\ Len(Targets(r)) \in 1 .. NumServers
         /\ \A i, j \in 1 .. Len(Targets(r)) : i # j => Targets(r)[i] # Targets(r)[j]
         /\ work[t].toSend \in Seq(Servers) /\ work[t].toReceive \in Seq(Servers)
         /\ work[t].response \in Seq(Values)
         /\ Sent(t) = Len(Targets(r)) - Len(work[t].toSend)
         /\ Received(t) = Len(Targets(r)) - Len(work[t].toReceive)
         /\ Sent(t) \in Nat /\ Received(t) \in Nat
         /\ InOrder(t) /\ OnTheWire(t) /\ Response(t)
         /\ \A u \in Busy : u # t => work[u].request # r
<1>1. TypeOK /\ Typed /\ InOrder(t) /\ OnTheWire(t) /\ Response(t)
  BY DEF IInv
<1>2. t \in Threads /\ r \in Ids /\ r \in Pending /\ r \in Handled /\ r \in RequestIds
      /\ \A u \in Busy : u # t => work[u].request # r
  BY <1>1 DEF TypeOK, Busy, Handled, Pending
<1>3. work[t].toSend \in Seq(Servers) /\ work[t].toReceive \in Seq(Servers)
      /\ work[t].response \in Seq(Values)
  BY <1>1, <1>2 DEF TypeOK, ThreadStates
<1>4. /\ TargetsOf(t) = Targets(r) /\ Targets(r) \in Seq(Servers)
      /\ Len(Targets(r)) \in 1 .. NumServers
      /\ \A i, j \in 1 .. Len(Targets(r)) : i # j => Targets(r)[i] # Targets(r)[j]
  BY <1>1, <1>2, TargetsDiffer DEF TargetsOf
<1>5. /\ Sent(t) = Len(Targets(r)) - Len(work[t].toSend)
      /\ Received(t) = Len(Targets(r)) - Len(work[t].toReceive)
  BY <1>4 DEF Sent, Received
<1>6. Sent(t) \in Nat /\ Received(t) \in Nat
  BY <1>1, <1>3, <1>4, <1>5 DEF InOrder
<1> QED  BY <1>1, <1>2, <1>3, <1>4, <1>5, <1>6

(* A command that is sent keeps the invariant.                             *)
LEMMA SendKeepsIInv ==
  ASSUME IInv, NEW t \in Threads, SendToServer(t)
  PROVE  IInv'
<1> PICK r : r = work[t].request
  OBVIOUS
<1> PICK s : s = Head(work[t].toSend)
  OBVIOUS
<1> DEFINE sent == [work[t] EXCEPT !.toSend = Tail(@)]
<1>1. /\ work[t].toSend # << >>
      /\ wire' = [wire EXCEPT ![t][s] = "command"]
      /\ work' = [work EXCEPT ![t] = sent]
      /\ UNCHANGED <<readSharded, findTargetServer, requests, queue, data, replied>>
  BY DEF SendToServer
<1>2. TypeOK /\ Typed
  BY DEF IInv
<1>3. /\ Ids' = Ids /\ Pending' = Pending /\ RequestsFixed
      /\ Values' = Values /\ ThreadStates' = ThreadStates /\ Requested' = Requested
      /\ \A v : (IsSet(v)' <=> IsSet(v)) /\ Targets(v)' = Targets(v)
  BY <1>1, SameRequests
<1>4. t \in Busy
  BY <1>1, <1>2 DEF Typed, Idle
<1>5. /\ r \in Ids /\ TargetsOf(t) = Targets(r) /\ Targets(r) \in Seq(Servers)
      /\ Len(Targets(r)) \in Nat
      /\ \A i, j \in 1 .. Len(Targets(r)) : i # j => Targets(r)[i] # Targets(r)[j]
      /\ work[t].toSend \in Seq(Servers) /\ work[t].toReceive \in Seq(Servers)
      /\ InOrder(t) /\ OnTheWire(t) /\ Response(t)
  <2>1. InOrder(t) /\ OnTheWire(t) /\ Response(t)
    BY <1>4, BusyThread
  <2>3. /\ r \in Ids /\ TargetsOf(t) = Targets(r) /\ Targets(r) \in Seq(Servers)
        /\ \A i, j \in 1 .. Len(Targets(r)) : i # j => Targets(r)[i] # Targets(r)[j]
        /\ work[t].toSend \in Seq(Servers) /\ work[t].toReceive \in Seq(Servers)
    BY <1>4, BusyThread
  <2>4. Len(Targets(r)) \in Nat
    BY <2>3
  <2> QED  BY <2>1, <2>3, <2>4
<1> PICK m \in Nat : m = Sent(t)
  BY <1>4, BusyThread
<1> PICK all \in Nat : all = Len(Targets(r))
  BY <1>5
<1> PICK left \in Nat : left = Len(work[t].toSend)
  BY <1>5
<1>5a. m = all - left /\ Len(work[t].toReceive) = all /\ Received(t) = 0
  <2>1. Received(t) = 0
    BY <1>1, <1>5 DEF InOrder
  <2>2. m = all - left /\ Received(t) = all - Len(work[t].toReceive)
    BY <1>4, BusyThread
  <2> PICK waited \in Nat : waited = Len(work[t].toReceive)
    BY <1>5
  <2>3. 0 = all - waited
    BY <2>1, <2>2
  <2>4. all = waited
    BY <2>3
  <2> QED  BY <2>1, <2>2, <2>4
<1>5b. /\ \A i \in 1 .. left : work[t].toSend[i] = Targets(r)[m + i]
       /\ \A i \in 1 .. all : work[t].toReceive[i] = Targets(r)[i]
  <2>1. /\ \A i \in 1 .. left : work[t].toSend[i] = Targets(r)[m + i]
        /\ \A i \in 1 .. all : work[t].toReceive[i] = Targets(r)[0 + i]
    BY <1>5, <1>5a DEF InOrder
  <2> QED  BY <2>1
<1>6. /\ m + 1 \in 1 .. all /\ s = Targets(r)[m + 1] /\ s \in Servers
      /\ Tail(work[t].toSend) \in Seq(Servers)
      /\ left > 0 /\ Len(Tail(work[t].toSend)) = left - 1
      /\ \A i \in 1 .. left - 1 : Tail(work[t].toSend)[i] = work[t].toSend[i + 1]
  <2>1. /\ left > 0 /\ s = work[t].toSend[1]
        /\ s \in Servers
    BY <1>1, <1>5
  <2>2. m + 1 \in 1 .. all /\ s = Targets(r)[m + 1]
    <3>1. m = all - left /\ left > 0
      BY <1>5a, <2>1
    <3>2. m + 1 \in 1 .. all /\ 1 \in 1 .. left
      BY <3>1
    <3> QED  BY <1>5b, <2>1, <3>2
  <2>3. /\ Tail(work[t].toSend) \in Seq(Servers)
        /\ Len(Tail(work[t].toSend)) = left - 1
        /\ \A i \in 1 .. left - 1 : Tail(work[t].toSend)[i] = work[t].toSend[i + 1]
    BY <1>1, <1>5
  <2> QED  BY <2>1, <2>2, <2>3
<1>7. /\ work'[t] = sent /\ \A u \in Threads \ {t} : work'[u] = work[u]
      /\ sent.request = r /\ sent.toSend = Tail(work[t].toSend)
      /\ sent.toReceive = work[t].toReceive /\ sent.response = work[t].response
      /\ work' \in [Threads -> ThreadStates] /\ Busy' = Busy /\ Handled' = Handled
  <2>1. work \in [Threads -> ThreadStates]
    BY <1>2 DEF TypeOK
  <2>2. /\ sent \in ThreadStates
        /\ sent.request = r /\ sent.toSend = Tail(work[t].toSend)
        /\ sent.toReceive = work[t].toReceive /\ sent.response = work[t].response
    BY <1>6, <2>1 DEF ThreadStates
  <2>3. work' \in [Threads -> ThreadStates] /\ work'[t] = sent /\ \A u \in Threads \ {t} : work'[u] = work[u]
    BY <1>1, <2>1, <2>2
  <2>4. \A u \in Threads : work'[u].request = work[u].request
    BY <2>2, <2>3
  <2> QED  BY <2>2, <2>3, <2>4 DEF Busy, Handled
<1>8. /\ wire' \in [Threads -> [Servers -> {"quiet", "command", "reply"}]]
      /\ wire'[t][s] = "command"
      /\ \A z \in Servers \ {s} : wire'[t][z] = wire[t][z]
      /\ \A u \in Threads \ {t} : wire'[u] = wire[u]
  BY <1>1, <1>2, <1>6 DEF Typed
<1>9. TypeOK'
  <2>1. s \in Range(work[t].toReceive)
    <3>1. m + 1 \in 1 .. Len(work[t].toReceive) /\ work[t].toReceive[m + 1] = s
      BY <1>5a, <1>5b, <1>6
    <3>2. DOMAIN work[t].toReceive = 1 .. Len(work[t].toReceive)
      BY <1>5
    <3> QED  BY <3>1, <3>2 DEF Range
  <2>2. \A u \in Threads, z \in Servers :
          wire'[u][z] # "quiet" => u \in Busy' /\ z \in Range(work'[u].toReceive)
    <3> TAKE u \in Threads, z \in Servers
    <3> HAVE wire'[u][z] # "quiet"
    <3>1. CASE u = t /\ z = s
      BY <1>4, <1>7, <2>1, <3>1
    <3>2. CASE u = t /\ z # s
      <4>1. wire[t][z] # "quiet"
        BY <1>8, <3>2
      <4> QED  BY <1>2, <1>7, <3>2, <4>1 DEF TypeOK
    <3>3. CASE u # t
      <4>1. wire[u][z] # "quiet" /\ work'[u] = work[u]
        BY <1>7, <1>8, <3>3
      <4> QED  BY <1>2, <1>7, <4>1 DEF TypeOK
    <3> QED  BY <3>1, <3>2, <3>3
  <2>3. \A u, w \in Busy' : work'[u].request = work'[w].request => u = w
    <3>1. \A u \in Busy : work'[u].request = work[u].request
      BY <1>7 DEF Busy
    <3> QED  BY <1>2, <1>7, <3>1 DEF TypeOK
  <2> QED  BY <1>1, <1>2, <1>3, <1>7, <2>2, <2>3 DEF TypeOK, RequestIds, Servers
<1>10. Typed'
  <2>1. \A u \in Threads \ Busy' : work'[u] = Idle
    BY <1>2, <1>4, <1>7 DEF Typed
  <2> QED  BY <1>1, <1>2, <1>3, <1>7, <1>8, <2>1 DEF Typed, RequestIds, Servers, KeyLists, Idle
<1>11. ASSUME NEW u \in Busy' PROVE InOrder(u)' /\ OnTheWire(u)' /\ Response(u)'
  <2>1. CASE u # t
    <3>1. u \in Busy /\ work[u].request \in Ids /\ work'[u] = work[u] /\ wire'[u] = wire[u]
      BY <1>2, <1>7, <1>8, <2>1 DEF TypeOK, Handled, Pending, Busy
    <3>2. InOrder(u) /\ OnTheWire(u) /\ Response(u)
      BY <3>1 DEF IInv
    <3> QED  BY <1>1, <1>2, <1>3, <1>10, <3>1, <3>2, UntouchedHandler DEF Executed
  <2>2. CASE u = t
    <3>1. TargetsOf(t)' = Targets(r) /\ Sent(t)' = m + 1 /\ Received(t)' = 0
      <4>1. TargetsOf(t)' = Targets(r)
        BY <1>3, <1>7 DEF TargetsOf
      <4>2. Sent(t)' = all - (left - 1) /\ Received(t)' = all - all
        BY <1>5a, <1>6, <1>7, <4>1 DEF Sent, Received
      <4> QED  BY <1>5a, <4>1, <4>2
    <3>2. InOrder(t)'
      <4>1. Len(sent.toSend) = left - 1 /\ Len(sent.toReceive) = all
        BY <1>5a, <1>6, <1>7
      <4>2. \A i \in 1 .. left - 1 : sent.toSend[i] = Targets(r)[(m + 1) + i]
        <5> TAKE i \in 1 .. left - 1
        <5>1. i + 1 \in 1 .. left /\ m + (i + 1) = (m + 1) + i
          OBVIOUS
        <5>2. sent.toSend[i] = work[t].toSend[i + 1]
          BY <1>6, <1>7
        <5> QED  BY <1>5b, <5>1, <5>2
      <4>3. \A i \in 1 .. all : sent.toReceive[i] = Targets(r)[0 + i]
        BY <1>5b, <1>7
      <4> HIDE DEF sent
      <4> QED  BY <1>7, <3>1, <4>1, <4>2, <4>3 DEF InOrder
    <3>3. OnTheWire(t)'
      <4>1. ASSUME NEW n \in 1 .. all, NEW z, z = Targets(r)[n]
            PROVE  /\ n > 0
                   /\ n <= m + 1
                      => wire'[t][z] = IF Executed(r, z)' THEN "reply" ELSE "command"
                   /\ n > m + 1 => wire'[t][z] = "quiet" /\ ~Executed(r, z)'
        <5>1. z \in Servers
          BY <1>5, <4>1
        <5>2. Executed(r, z)' <=> Executed(r, z)
          BY <1>1 DEF Executed
        <5>3. /\ n <= m => wire[t][z] = IF Executed(r, z) THEN "reply" ELSE "command"
              /\ n > m => wire[t][z] = "quiet" /\ ~Executed(r, z)
          <6>1. n > 0 /\ n \in 1 .. Len(TargetsOf(t)) /\ z = TargetsOf(t)[n]
            BY <1>5, <4>1
          <6>2. Received(t) = 0 /\ m = Sent(t) /\ n \in Nat
            BY <1>5a
          <6> QED  BY <1>5, <6>1, <6>2 DEF OnTheWire
        <5>4. CASE n = m + 1
          <6>1. wire'[t][z] = "command" /\ n > m
            BY <1>6, <1>8, <4>1, <5>4
          <6> QED  BY <5>2, <5>3, <5>4, <6>1
        <5>5. CASE n # m + 1
          <6>1. z # s
            BY <1>5, <1>6, <4>1, <5>5
          <6>2. wire'[t][z] = wire[t][z]
            BY <1>8, <5>1, <6>1
          <6> QED  BY <5>2, <5>3, <5>5, <6>2
        <5> QED  BY <5>4, <5>5
      <4> QED  BY <1>7, <3>1, <4>1 DEF OnTheWire, Executed
    <3>4. Response(t)'
      <4>1. Fixed(r) /\ StartFixed
        BY <1>3, <1>5 DEF RequestsFixed
      <4>2. /\ IsMulti(r)' <=> IsMulti(r)
            /\ KeysRead(r, 0)' = KeysRead(r, 0)
        BY <4>1, FixedRequest
      <4>3. \A k : Store!MayRead(r, k) \subseteq Store!MayRead(r, k)'
        BY <1>2, <1>3, <1>5, <1>10, MayReadGrows
      <4> HIDE DEF sent
      <4> QED  BY <1>1, <1>5, <1>5a, <1>7, <3>1, <4>2, <4>3 DEF Response
    <3> QED  BY <2>2, <3>2, <3>3, <3>4
  <2> QED  BY <2>1, <2>2
<1>12. ExecutedWhenHandled' /\ AnsweredWhenExecuted'
  BY <1>1, <1>3, <1>7 DEF IInv, ExecutedWhenHandled, AnsweredWhenExecuted, Executed
<1>13. Replies'
  BY <1>1, <1>2, <1>3, <1>10, UntouchedReply DEF IInv, Replies, Executed
<1>14. ASSUME NEW z \in Servers, NEW k \in Keys PROVE Latest(z, k)'
  BY <1>1, <1>2, <1>3, <1>10, UntouchedValue DEF IInv, TypeOK
<1> QED  BY <1>9, <1>10, <1>11, <1>12, <1>13, <1>14 DEF IInv, Servers

(* A command on the wire has not been executed.                            *)
LEMMA CommandOnTheWire ==
  ASSUME IInv, NEW t \in Threads, NEW s \in Servers, wire[t][s] = "command",
         NEW r, r = work[t].request
  PROVE  /\ t \in Busy /\ ~Executed(r, s)
         /\ \E n \in 1 .. Len(Targets(r)) :
              s = Targets(r)[n] /\ n > Received(t) /\ n <= Sent(t)
<1>1. t \in Busy /\ s \in Range(work[t].toReceive)
  BY DEF IInv, TypeOK
<1>2. /\ TargetsOf(t) = Targets(r) /\ work[t].toReceive \in Seq(Servers)
      /\ InOrder(t) /\ OnTheWire(t) /\ Len(Targets(r)) \in Nat
  BY <1>1, BusyThread
<1> PICK all \in Nat : all = Len(Targets(r))
  BY <1>2
<1> PICK received \in Nat : received = Received(t)
  BY <1>1, BusyThread
<1> PICK sent \in Nat : sent = Sent(t)
  BY <1>1, BusyThread
<1> PICK waited \in Nat : waited = Len(work[t].toReceive)
  BY <1>2
<1>3. PICK i \in 1 .. waited : work[t].toReceive[i] = s
  BY <1>1, <1>2 DEF Range
<1>4. received = all - waited
  BY <1>1, BusyThread
<1> PICK n : n = received + i
  OBVIOUS
<1>5. n \in 1 .. all /\ n > received /\ n \in Nat
  <2>1. \A a, b, c \in Nat : \A j \in 1 .. c :
          a = b - c => a + j \in 1 .. b /\ a + j > a /\ a + j \in Nat
    OBVIOUS
  <2> QED  BY <1>4, <2>1
<1>6. s = Targets(r)[n]
  BY <1>2, <1>3 DEF InOrder
<1>7. /\ n > sent => wire[t][s] = "quiet"
      /\ n <= sent => wire[t][s] = IF Executed(r, s) THEN "reply" ELSE "command"
  BY <1>2, <1>5, <1>6 DEF OnTheWire
<1>8. n <= sent
  BY <1>5, <1>7
<1>9. ~Executed(r, s)
  BY <1>7, <1>8
<1> QED  BY <1>1, <1>5, <1>6, <1>8, <1>9

(* What the execution of a command leaves to show: that its reply and the  *)
(* values of the server are right.                                         *)
LEMMA ExecuteKeepsHandlers ==
  ASSUME IInv, NEW t \in Threads, NEW s \in Servers, wire[t][s] = "command",
         NEW r, r = work[t].request, NEW reply,
         replied' = [replied EXCEPT ![s] = Put(@, r, reply)],
         wire' = [wire EXCEPT ![t][s] = "reply"],
         UNCHANGED <<readSharded, findTargetServer, requests, queue, work>>,
         data' \in [Servers -> [Keys -> Values]],
         Reply(r, s)',
         \A z \in Servers, k \in Keys : Latest(z, k)'
  PROVE  IInv'
<1>1. TypeOK /\ Typed
  BY DEF IInv
<1>2. /\ Ids' = Ids /\ Pending' = Pending /\ RequestsFixed
      /\ Values' = Values /\ ThreadStates' = ThreadStates /\ Requested' = Requested
      /\ \A v : (IsSet(v)' <=> IsSet(v)) /\ Targets(v)' = Targets(v)
  BY SameRequests
<1>3. Busy' = Busy /\ Handled' = Handled
  BY DEF Busy, Handled
<1>4. t \in Busy /\ ~Executed(r, s)
  BY CommandOnTheWire
<1>5. /\ r \in Ids /\ r \in Pending /\ r \in Handled /\ TargetsOf(t) = Targets(r)
      /\ Targets(r) \in Seq(Servers) /\ Len(Targets(r)) \in Nat
      /\ \A i, j \in 1 .. Len(Targets(r)) : i # j => Targets(r)[i] # Targets(r)[j]
      /\ InOrder(t) /\ OnTheWire(t) /\ Response(t)
      /\ \A u \in Busy : u # t => work[u].request # r
  BY <1>4, BusyThread
<1>6. /\ wire' \in [Threads -> [Servers -> {"quiet", "command", "reply"}]]
      /\ wire'[t][s] = "reply"
      /\ \A z \in Servers \ {s} : wire'[t][z] = wire[t][z]
      /\ \A u \in Threads \ {t} : wire'[u] = wire[u]
  BY <1>1 DEF Typed
<1>7. /\ DOMAIN replied' = Servers
      /\ DOMAIN replied'[s] = DOMAIN replied[s] \union {r} /\ replied'[s][r] = reply
      /\ \A v \in DOMAIN replied[s] : v # r => replied'[s][v] = replied[s][v]
      /\ \A z \in Servers \ {s} : replied'[z] = replied[z]
  BY <1>1 DEF Typed, Put
<1>8. ASSUME NEW v, NEW z \in Servers, v # r \/ z # s
      PROVE  /\ Executed(v, z)' <=> Executed(v, z)
             /\ Executed(v, z) => replied'[z][v] = replied[z][v]
  BY <1>7, <1>8 DEF Executed
<1>9. Executed(r, s)'
  BY <1>7 DEF Executed
<1>10. TypeOK'
  <2>1. \A u \in Threads, z \in Servers :
          wire'[u][z] # "quiet" => u \in Busy' /\ z \in Range(work'[u].toReceive)
    <3> TAKE u \in Threads, z \in Servers
    <3>1. wire'[u][z] # "quiet" => wire[u][z] # "quiet"
      BY <1>6
    <3> QED  BY <1>1, <1>3, <3>1 DEF TypeOK
  <2>2. \A z \in Servers : DOMAIN replied'[z] \subseteq Ids
    BY <1>1, <1>5, <1>7 DEF TypeOK
  <2> QED  BY <1>1, <1>2, <1>3, <2>1, <2>2 DEF TypeOK, RequestIds, Servers
<1>11. Typed'
  BY <1>1, <1>2, <1>3, <1>6, <1>7 DEF Typed, RequestIds, Servers, KeyLists, Idle
<1>12. ASSUME NEW u \in Busy' PROVE InOrder(u)' /\ OnTheWire(u)' /\ Response(u)'
  <2>1. CASE u # t
    <3>1. u \in Busy /\ work[u].request \in Ids /\ wire'[u] = wire[u] /\ work[u].request # r
      BY <1>1, <1>3, <1>5, <1>6, <2>1 DEF TypeOK, Handled, Pending, Busy
    <3>2. InOrder(u) /\ OnTheWire(u) /\ Response(u)
      BY <3>1 DEF IInv
    <3>3. \A z \in Servers :
            /\ Executed(work[u].request, z)' <=> Executed(work[u].request, z)
            /\ Executed(work[u].request, z)
               => replied'[z][work[u].request] = replied[z][work[u].request]
      <4> PICK v : v = work[u].request
        OBVIOUS
      <4>1. \A z \in Servers : /\ Executed(v, z)' <=> Executed(v, z)
                               /\ Executed(v, z) => replied'[z][v] = replied[z][v]
        BY <1>8, <3>1
      <4> QED  BY <4>1 DEF Executed
    <3> QED  BY <1>1, <1>2, <1>11, <3>1, <3>2, <3>3, UntouchedHandler
  <2>2. CASE u = t
    <3>1. TargetsOf(t)' = Targets(r) /\ Sent(t)' = Sent(t) /\ Received(t)' = Received(t)
      BY <1>2, <1>5 DEF TargetsOf, Sent, Received
    <3> PICK received \in Nat : received = Received(t)
      BY <1>4, BusyThread
    <3> PICK sent \in Nat : sent = Sent(t)
      BY <1>4, BusyThread
    <3>2. PICK m \in 1 .. Len(Targets(r)) : s = Targets(r)[m] /\ m > received /\ m <= sent
      BY CommandOnTheWire
    <3>3. InOrder(t)'
      BY <1>5, <3>1 DEF InOrder
    <3>4. OnTheWire(t)'
      <4>1. ASSUME NEW n \in 1 .. Len(Targets(r)), NEW z, z = Targets(r)[n]
            PROVE  /\ n <= received => wire'[t][z] = "quiet" /\ Executed(r, z)'
                   /\ n > received /\ n <= sent
                      => wire'[t][z] = IF Executed(r, z)' THEN "reply" ELSE "command"
                   /\ n > sent => wire'[t][z] = "quiet" /\ ~Executed(r, z)'
        <5>1. z \in Servers
          BY <1>5, <4>1
        <5>2. /\ n <= received => wire[t][z] = "quiet" /\ Executed(r, z)
              /\ n > received /\ n <= sent
                 => wire[t][z] = IF Executed(r, z) THEN "reply" ELSE "command"
              /\ n > sent => wire[t][z] = "quiet" /\ ~Executed(r, z)
          BY <1>5, <4>1 DEF OnTheWire
        <5>3. CASE z = s
          <6>1. n = m
            BY <1>5, <3>2, <4>1, <5>3
          <6> QED  BY <1>6, <1>9, <3>2, <5>3, <6>1
        <5>4. CASE z # s
          <6>1. wire'[t][z] = wire[t][z] /\ (Executed(r, z)' <=> Executed(r, z))
            BY <1>6, <1>8, <5>1, <5>4
          <6> QED  BY <5>2, <6>1
        <5> QED  BY <5>3, <5>4
      <4> QED  BY <3>1, <4>1 DEF OnTheWire, Executed
    <3>5. Response(t)'
      <4>1. Fixed(r) /\ StartFixed
        BY <1>2, <1>5 DEF RequestsFixed
      <4>2. /\ IsMulti(r)' <=> IsMulti(r)
            /\ \A n : KeysRead(r, n)' = KeysRead(r, n)
        BY <4>1, FixedRequest
      <4>3. \A k : Store!MayRead(r, k) \subseteq Store!MayRead(r, k)'
        BY <1>1, <1>2, <1>5, <1>11, MayReadGrows
      <4>4. ~IsMulti(r) /\ ~IsSet(r) => Received(t) = 0
        <5>1. ~IsMulti(r) /\ ~IsSet(r) => Len(Targets(r)) = 1
          BY <1>1, <1>5, TargetsDiffer
        <5> QED  BY <3>2, <5>1
      <4> QED  BY <1>2, <1>5, <3>1, <4>2, <4>3, <4>4 DEF Response
    <3> QED  BY <2>2, <3>3, <3>4, <3>5
  <2> QED  BY <2>1, <2>2
<1>13. ExecutedWhenHandled' /\ AnsweredWhenExecuted'
  <2>1. \A v \in Pending \ Handled, z \in Servers : ~Executed(v, z)'
    BY <1>5, <1>8 DEF IInv, ExecutedWhenHandled
  <2>2. \A v \in Ids \ Pending, z \in Servers : IsSet(v) => Executed(v, z)'
    BY <1>5, <1>8 DEF IInv, AnsweredWhenExecuted
  <2> QED  BY <1>2, <1>3, <2>1, <2>2 DEF ExecutedWhenHandled, AnsweredWhenExecuted, Servers
<1>14. Replies'
  <2> SUFFICES ASSUME NEW v \in Ids, NEW z \in Servers, Executed(v, z)'
               PROVE  Reply(v, z)'
    BY <1>2 DEF Replies, Servers
  <2>1. CASE v = r /\ z = s
    BY <2>1
  <2>2. CASE v # r \/ z # s
    <3>1. Executed(v, z) /\ replied'[z][v] = replied[z][v]
      BY <1>8, <2>2
    <3> QED  BY <1>1, <1>2, <1>11, <3>1, UntouchedReply DEF IInv, Replies
  <2> QED  BY <2>1, <2>2
<1> QED  BY <1>10, <1>11, <1>12, <1>13, <1>14 DEF IInv, Servers

(* A server that executes a SET keeps the invariant.                       *)
LEMMA ExecuteSetKeepsIInv ==
  ASSUME IInv, NEW t \in Threads, NEW s \in Servers, ExecuteSet(t, s)
  PROVE  IInv'
<1> PICK r : r = work[t].request
  OBVIOUS
<1> PICK key : key = requests[r].keys[1]
  OBVIOUS
<1>1. /\ wire[t][s] = "command" /\ IsSet(r)
      /\ data' = [data EXCEPT ![s][key] = r]
      /\ replied' = [replied EXCEPT ![s] = Put(@, r, << >>)]
      /\ wire' = [wire EXCEPT ![t][s] = "reply"]
      /\ UNCHANGED <<readSharded, findTargetServer, requests, queue, work>>
  BY DEF ExecuteSet
<1>2. TypeOK /\ Typed
  BY DEF IInv
<1>3. t \in Busy /\ r \in Ids /\ r \in Pending /\ r \in RequestIds
  BY <1>1, CommandOnTheWire, BusyThread
<1>4. Ids' = Ids /\ RequestsFixed /\ (IsSet(r)' <=> IsSet(r)) /\ Values' = Values
  BY <1>1, SameRequests
<1>5. key \in Keys /\ Len(requests[r].keys) = 1
  BY <1>1, <1>2, <1>3, KeyListsAreLists DEF Typed, Requested
<1>6. /\ data' \in [Servers -> [Keys -> Values]]
      /\ data'[s][key] = r
      /\ \A z \in Servers, k \in Keys : z # s \/ k # key => data'[z][k] = data[z][k]
  BY <1>1, <1>2, <1>3, <1>5 DEF TypeOK, Values
<1>7. /\ DOMAIN replied'[s] = DOMAIN replied[s] \union {r} /\ replied'[s][r] = << >>
      /\ \A z \in Servers \ {s} : replied'[z] = replied[z]
  BY <1>1, <1>2 DEF Typed, Put
<1>8. Reply(r, s)'
  <2>1. IsSet(r)' /\ ~IsMulti(r)'
    BY <1>1, <1>4, <1>5 DEF IsMulti
  <2> QED  BY <1>7, <2>1, ShortSequences DEF Reply
<1>9. ASSUME NEW z \in Servers, NEW k \in Keys PROVE Latest(z, k)'
  <2>0. Latest(z, k)
    BY DEF IInv
  <2>1. \A v : Writes(v, k)' <=> Writes(v, k)
    BY <1>1 DEF Writes, IsSet
  <2>2. CASE z = s /\ k = key
    <3>1. r # None /\ Writes(r, k)' /\ Executed(r, s)'
      BY <1>1, <1>3, <1>7, <2>1, <2>2, MiddlewareAssumption DEF Writes, Executed, RequestIds
    <3>2. \A v \in Ids : r \notin requests[v].after
      BY <1>2, <1>3 DEF Typed
    <3> QED  BY <1>1, <1>3, <1>4, <1>6, <2>2, <3>1, <3>2 DEF Latest, Writes, IsSet, Executed
  <2>3. CASE z = s /\ k # key
    <3>1. \A v : Writes(v, k) => (Executed(v, s)' <=> Executed(v, s))
      BY <1>7, <2>3 DEF Writes, Executed
    <3>2. data'[s][k] = data[s][k]
      BY <1>6, <2>3
    <3> QED  BY <1>1, <1>4, <2>0, <2>1, <2>3, <3>1, <3>2 DEF Latest, Writes, IsSet, Executed
  <2>4. CASE z # s
    <3>1. data'[z][k] = data[z][k] /\ replied'[z] = replied[z]
      BY <1>6, <1>7, <2>4
    <3>2. requests' = requests /\ \A v : Executed(v, z)' <=> Executed(v, z)
      BY <1>1, <3>1 DEF Executed
    <3> QED  BY ONLY <1>4, <2>0, <2>1, <3>1, <3>2 DEF Latest
  <2> QED  BY <2>2, <2>3, <2>4
<1> QED  BY <1>1, <1>6, <1>8, <1>9, ExecuteKeepsHandlers

(* Every value a server holds may be read by whoever asks.                 *)
LEMMA HeldMayBeRead ==
  ASSUME IInv, NEW s \in Servers, NEW k \in Keys, NEW r \in Ids
  PROVE  data[s][k] \in Store!MayRead(r, k)
<1>1. Typed /\ Latest(s, k) /\ AnsweredWhenExecuted
  BY DEF IInv
<1>2. \A v : v \in Store!SetsOf(k) <=> v \in Ids /\ Writes(v, k)
  BY DEF Store!SetsOf, Store!Ids, Store!IsSet, Store!Key, Ids, Writes, IsSet
<1>3. \A v \in Store!SetsOf(k) : v \in requests[r].after => Executed(v, s)
  BY <1>1, <1>2 DEF Typed, AnsweredWhenExecuted, Writes
<1>4. CASE data[s][k] = None
  <2>1. Store!SetsOf(k) \intersect requests[r].after = {}
    BY <1>1, <1>2, <1>3, <1>4 DEF Latest
  <2> QED  BY <1>4, <2>1 DEF Store!MayRead
<1>5. CASE data[s][k] # None
  <2>1. data[s][k] \in Store!SetsOf(k)
    BY <1>1, <1>2, <1>5 DEF Latest
  <2>2. ~Store!Replaced(data[s][k], k, r)
    BY <1>1, <1>2, <1>3 DEF Latest, Store!Replaced
  <2> QED  BY <2>1, <2>2 DEF Store!MayRead
<1> QED  BY <1>4, <1>5

(* A server that executes a GET keeps the invariant.                       *)
LEMMA ExecuteGetKeepsIInv ==
  ASSUME IInv, NEW t \in Threads, NEW s \in Servers, ExecuteGet(t, s)
  PROVE  IInv'
<1> PICK r : r = work[t].request
  OBVIOUS
<1> PICK keys : keys = KeysAt(r, s)
  OBVIOUS
<1> PICK reply : reply = [i \in DOMAIN keys |-> data[s][keys[i]]]
  OBVIOUS
<1>1. /\ wire[t][s] = "command" /\ ~IsSet(r)
      /\ replied' = [replied EXCEPT ![s] = Put(@, r, reply)]
      /\ wire' = [wire EXCEPT ![t][s] = "reply"]
      /\ UNCHANGED <<readSharded, findTargetServer, requests, queue, work, data>>
  BY DEF ExecuteGet
<1>2. TypeOK /\ Typed
  BY DEF IInv
<1>3. t \in Busy /\ r \in Ids
  BY <1>1, CommandOnTheWire, BusyThread
<1>4. Ids' = Ids /\ RequestsFixed /\ (IsSet(r)' <=> IsSet(r)) /\ Values' = Values
  BY <1>1, SameRequests
<1>5. keys \in Seq(Keys)
  <2>1. PICK n \in 1 .. Len(Targets(r)) : s = Targets(r)[n]
    BY <1>1, CommandOnTheWire
  <2> QED  BY <1>1, <1>2, <1>3, <2>1, RepliesFollow
<1>6. /\ DOMAIN replied'[s] = DOMAIN replied[s] \union {r} /\ replied'[s][r] = reply
      /\ \A z \in Servers \ {s} : replied'[z] = replied[z]
  BY <1>1, <1>2 DEF Typed, Put
<1>7. Reply(r, s)'
  <2>1. reply \in Seq(Values) /\ Len(reply) = Len(keys)
    BY <1>2, <1>5 DEF TypeOK
  <2>2. \A i \in 1 .. Len(keys) : reply[i] \in Store!MayRead(r, keys[i])
    BY <1>3, <1>5, HeldMayBeRead
  <2>3. \A k : Store!MayRead(r, k) \subseteq Store!MayRead(r, k)'
    BY <1>1 DEF Store!MayRead, Store!SetsOf, Store!Ids, Store!IsSet, Store!Key, Store!Replaced
  <2>4. KeysAt(r, s)' = keys
    BY <1>3, <1>4, FixedRequest DEF RequestsFixed
  <2> QED  BY <1>1, <1>4, <1>6, <2>1, <2>2, <2>3, <2>4 DEF Reply
<1>8. ASSUME NEW z \in Servers, NEW k \in Keys PROVE Latest(z, k)'
  <2>1. \A v : Writes(v, k)' <=> Writes(v, k)
    BY <1>1 DEF Writes, IsSet
  <2>2. \A v : Writes(v, k) => (Executed(v, z)' <=> Executed(v, z))
    BY <1>1, <1>6 DEF Writes, Executed
  <2>3. Latest(z, k)
    BY DEF IInv
  <2> QED  BY <1>1, <1>4, <2>1, <2>2, <2>3 DEF Latest, Writes, IsSet, Executed
<1> QED  BY <1>1, <1>2, <1>7, <1>8, ExecuteKeepsHandlers DEF TypeOK

(* The list whole is s, continued by z.                                    *)
Continues(whole, s, z) ==
  /\ Len(s) \in Nat /\ Len(z) \in Nat
  /\ Len(whole) = Len(s) + Len(z)
  /\ \A i \in 1 .. Len(s) : whole[i] = s[i]
  /\ \A i \in 1 .. Len(z) : whole[Len(s) + i] = z[i]
  /\ \A i \in 1 .. Len(whole) :
        i \in 1 .. Len(s) \/ \E j \in 1 .. Len(z) : i = Len(s) + j
  /\ s = << >> => whole = z

(* A sequence that another is appended to.                                 *)
LEMMA Concatenation ==
  ASSUME NEW S, NEW s \in Seq(S), NEW z \in Seq(S)
  PROVE  s \o z \in Seq(S) /\ Continues(s \o z, s, z)
<1>1. /\ s \o z \in Seq(S)
      /\ Len(s \o z) = Len(s) + Len(z)
      /\ \A i \in 1 .. Len(s) + Len(z) :
            (s \o z)[i] = IF i <= Len(s) THEN s[i] ELSE z[i - Len(s)]
  BY ConcatProperties
<1> PICK a \in Nat : a = Len(s)
  OBVIOUS
<1> PICK b \in Nat : b = Len(z)
  OBVIOUS
<1>2. /\ \A i \in 1 .. a : i \in 1 .. a + b /\ i <= a
      /\ \A i \in 1 .. b : a + i \in 1 .. a + b /\ ~(a + i <= a) /\ (a + i) - a = i
  OBVIOUS
<1>3. \A i \in 1 .. a + b : i \in 1 .. a \/ \E j \in 1 .. b : i = a + j
  <2> TAKE i \in 1 .. a + b
  <2>1. CASE i <= a
    <3>1. i \in 1 .. a
      BY <2>1
    <3> QED  BY <3>1
  <2>2. CASE i > a
    <3>1. i - a \in 1 .. b /\ i = a + (i - a)
      BY <2>2
    <3> QED  BY <3>1
  <2> QED  BY <2>1, <2>2
<1>4. s = << >> => s \o z = z
  OBVIOUS
<1> QED  BY <1>1, <1>2, <1>3, <1>4 DEF Continues

(* All elements but the first are in the tail.                             *)
LEMMA RangeOfTail ==
  ASSUME NEW S, NEW s \in Seq(S), NEW x \in Range(s), x # Head(s)
  PROVE  x \in Range(Tail(s))
<1> PICK n \in Nat : n = Len(s)
  OBVIOUS
<1>1. PICK i \in 1 .. n : s[i] = x
  BY DEF Range
<1>2. s # << >> /\ Head(s) = s[1] /\ Tail(s) \in Seq(S) /\ Len(Tail(s)) = n - 1
      /\ \A j \in 1 .. n - 1 : Tail(s)[j] = s[j + 1]
  <2>1. s # << >>
    BY <1>1
  <2> QED  BY <2>1, HeadTailProperties
<1>3. i - 1 \in 1 .. n - 1 /\ (i - 1) + 1 = i
  <2>1. i # 1
    BY <1>1, <1>2
  <2> QED  BY <2>1
<1>4. Tail(s)[i - 1] = x /\ i - 1 \in DOMAIN Tail(s)
  BY <1>1, <1>2, <1>3
<1> QED  BY <1>4 DEF Range

(* The thread t has received m replies to r, and now receives that of s.   *)
Hears(t, r, m, s, reply, response, whole) ==
  /\ t \in Busy /\ r = work[t].request
  /\ m \in Nat /\ m = Received(t) /\ m + 1 \in 1 .. Len(Targets(r))
  /\ s = Targets(r)[m + 1] /\ reply = replied[s][r] /\ Reply(r, s)
  /\ response = work[t].response
  /\ Continues(whole, response, reply)

(* A reply that is received continues the response.                        *)
LEMMA ReplyContinuesResponse ==
  ASSUME IInv, NEW t, NEW r, NEW m, NEW s, NEW reply, NEW response, NEW whole,
         Hears(t, r, m, s, reply, response, whole)
  PROVE  /\ Len(whole) = KeysRead(r, m + 1)
         /\ IsMulti(r) => \A i \in 1 .. Len(whole) :
                whole[i] \in Store!MayRead(r, requests[r].keys[i])
         /\ ~IsMulti(r) /\ ~IsSet(r)
            => whole = replied[Primary(requests[r].keys[1])][r]
<1>0. /\ t \in Busy /\ r = work[t].request
      /\ m \in Nat /\ m = Received(t) /\ m + 1 \in 1 .. Len(Targets(r))
      /\ s = Targets(r)[m + 1] /\ reply = replied[s][r] /\ Reply(r, s)
      /\ response = work[t].response
      /\ Continues(whole, response, reply)
  BY DEF Hears
<1> USE <1>0
<1>1. Typed /\ r \in Ids /\ Response(t) /\ response \in Seq(Values) /\ reply \in Seq(Values)
  BY BusyThread DEF IInv, Reply
<1> PICK keys : keys = requests[r].keys
  OBVIOUS
<1>1a. /\ Len(response) \in Nat /\ Len(reply) \in Nat
       /\ Len(whole) = Len(response) + Len(reply)
       /\ \A i \in 1 .. Len(response) : whole[i] = response[i]
       /\ \A i \in 1 .. Len(reply) : whole[Len(response) + i] = reply[i]
       /\ \A i \in 1 .. Len(whole) :
            i \in 1 .. Len(response) \/ \E j \in 1 .. Len(reply) : i = Len(response) + j
  BY DEF Continues
<1>2. /\ Len(response) = KeysRead(r, m)
      /\ IsMulti(r) => \A i \in 1 .. Len(response) : response[i] \in Store!MayRead(r, keys[i])
  BY <1>1 DEF Response
<1>3. CASE IsSet(r)
  <2>1. Len(reply) = 0 /\ KeysRead(r, m) = 0 /\ KeysRead(r, m + 1) = 0 /\ ~IsMulti(r)
    <3>1. Len(requests[r].keys) = 1
      BY <1>1, <1>3 DEF Typed
    <3>2. ~IsMulti(r)
      BY <3>1 DEF IsMulti
    <3>3. Len(reply) = 0
      BY <1>3 DEF Reply
    <3>4. KeysRead(r, m) = 0 /\ KeysRead(r, m + 1) = 0
      BY <1>3 DEF KeysRead
    <3> QED  BY <3>2, <3>3, <3>4
  <2>2. Len(whole) = 0
    <3>1. Len(whole) = 0 + 0
      BY <1>1a, <1>2, <2>1
    <3> QED  BY <3>1
  <2> QED  BY <1>3, <2>1, <2>2
<1>4. CASE ~IsSet(r)
  <2> PICK asked : asked = KeysAt(r, s)
    OBVIOUS
  <2>1. /\ KeysRead(r, m) \in Nat /\ KeysRead(r, m + 1) \in Nat
        /\ Len(asked) = KeysRead(r, m + 1) - KeysRead(r, m)
        /\ \A i \in 1 .. Len(asked) : asked[i] = keys[KeysRead(r, m) + i]
    <3>1. (m + 1) - 1 = m
      OBVIOUS
    <3> PICK n : n = m + 1
      OBVIOUS
    <3>2. /\ KeysRead(r, n - 1) \in Nat /\ KeysRead(r, n) \in Nat
          /\ Len(KeysAt(r, Targets(r)[n])) = KeysRead(r, n) - KeysRead(r, n - 1)
          /\ \A i \in 1 .. Len(KeysAt(r, Targets(r)[n])) :
               KeysAt(r, Targets(r)[n])[i] = requests[r].keys[KeysRead(r, n - 1) + i]
      BY <1>1, <1>4, RepliesFollow
    <3>3. asked = KeysAt(r, Targets(r)[n]) /\ KeysRead(r, n - 1) = KeysRead(r, m)
      BY <3>1
    <3> QED  BY <3>2, <3>3
  <2>2. /\ Len(reply) = Len(asked)
        /\ IsMulti(r) => \A i \in 1 .. Len(asked) : reply[i] \in Store!MayRead(r, asked[i])
    BY <1>4 DEF Reply
  <2>3. Len(whole) = KeysRead(r, m + 1)
    <3> PICK a \in Nat : a = KeysRead(r, m)
      BY <2>1
    <3> PICK b \in Nat : b = KeysRead(r, m + 1)
      BY <2>1
    <3>1. Len(whole) = a + (b - a)
      BY <1>1a, <1>2, <2>1, <2>2
    <3>2. a + (b - a) = b
      OBVIOUS
    <3> QED  BY <3>1, <3>2
  <2>4. ASSUME IsMulti(r), NEW i \in 1 .. Len(whole)
        PROVE  whole[i] \in Store!MayRead(r, keys[i])
    <3>1. CASE i \in 1 .. Len(response)
      BY <1>1a, <1>2, <2>4, <3>1
    <3>2. CASE i \notin 1 .. Len(response)
      <4>0. PICK j \in 1 .. Len(reply) : i = Len(response) + j
        BY <1>1a, <3>2
      <4>1. whole[i] = reply[j]
        BY <1>1a, <4>0
      <4>2. asked[j] = keys[i] /\ reply[j] \in Store!MayRead(r, asked[j])
        BY <1>2, <2>1, <2>2, <2>4, <4>0
      <4> QED  BY <4>1, <4>2
    <3> QED  BY <3>1, <3>2
  <2>5. ASSUME ~IsMulti(r) PROVE whole = replied[Primary(requests[r].keys[1])][r]
    <3>1. Len(Targets(r)) = 1 /\ Targets(r)[1] = Primary(requests[r].keys[1])
      BY <1>1, <1>4, <2>5, TargetsDiffer
    <3>2. m = 0
      BY <3>1
    <3>3. response = << >>
      <4>1. KeysRead(r, m) = 0
        BY <3>2 DEF KeysRead
      <4> QED  BY <1>1, <1>2, <4>1
    <3>4. whole = reply
      BY <3>3 DEF Continues
    <3>5. s = Targets(r)[1]
      BY <3>2
    <3> QED  BY <3>1, <3>4, <3>5
  <2> QED  BY <1>4, <2>3, <2>4, <2>5
<1> QED  BY <1>3, <1>4

(* A thread that takes a response from a connection keeps the invariant.   *)
LEMMA WaitKeepsIInv ==
  ASSUME IInv, NEW t \in Threads, WaitForSingleResponse(t)
  PROVE  IInv'
<1> PICK r : r = work[t].request
  OBVIOUS
<1> PICK s : s = Head(work[t].toReceive)
  OBVIOUS
<1> PICK reply : reply = replied[s][r]
  OBVIOUS
<1> PICK response : response = work[t].response
  OBVIOUS
<1>0a. PICK whole : whole = response \o reply
  OBVIOUS
<1>0. PICK received : received = [work[t] EXCEPT !.toReceive = Tail(@), !.response = whole]
  OBVIOUS
<1>1. /\ work[t].toSend = << >> /\ work[t].toReceive # << >> /\ wire[t][s] = "reply"
      /\ wire' = [wire EXCEPT ![t][s] = "quiet"]
      /\ work' = [work EXCEPT ![t] = received]
      /\ UNCHANGED <<readSharded, findTargetServer, requests, queue, data, replied>>
  BY <1>0, <1>0a DEF WaitForSingleResponse
<1>2. TypeOK /\ Typed
  BY DEF IInv
<1>3. /\ Ids' = Ids /\ Pending' = Pending /\ RequestsFixed
      /\ Values' = Values /\ ThreadStates' = ThreadStates /\ Requested' = Requested
      /\ \A v : (IsSet(v)' <=> IsSet(v)) /\ Targets(v)' = Targets(v)
  BY <1>1, SameRequests
<1>4. t \in Busy
  BY <1>1, <1>2 DEF Typed, Idle
<1>5. /\ r \in Ids /\ TargetsOf(t) = Targets(r) /\ Targets(r) \in Seq(Servers)
      /\ \A i, j \in 1 .. Len(Targets(r)) : i # j => Targets(r)[i] # Targets(r)[j]
      /\ work[t].toReceive \in Seq(Servers) /\ response \in Seq(Values)
      /\ InOrder(t) /\ OnTheWire(t) /\ Response(t)
  BY <1>4, BusyThread
<1> PICK all \in Nat : all = Len(Targets(r))
  BY <1>5
<1> PICK left \in Nat : left = Len(work[t].toReceive)
  BY <1>5
<1> PICK m \in Nat : m = Received(t)
  BY <1>4, BusyThread
<1>6. m = all - left /\ Sent(t) = all
  <2>1. m = all - left /\ Sent(t) = all - 0
    BY <1>1, <1>4, BusyThread, ShortSequences
  <2> QED  BY <2>1
<1>7. \A i \in 1 .. left : work[t].toReceive[i] = Targets(r)[m + i]
  BY <1>5 DEF InOrder
<1>8. /\ left > 0 /\ s = work[t].toReceive[1] /\ s \in Servers
      /\ Tail(work[t].toReceive) \in Seq(Servers)
      /\ Len(Tail(work[t].toReceive)) = left - 1
      /\ \A i \in 1 .. left - 1 : Tail(work[t].toReceive)[i] = work[t].toReceive[i + 1]
  BY <1>1, <1>5
<1>9. m + 1 \in 1 .. all /\ s = Targets(r)[m + 1]
  <2>1. m + 1 \in 1 .. all /\ 1 \in 1 .. left
    BY <1>6, <1>8
  <2> QED  BY <1>7, <1>8, <2>1
<1>10. Executed(r, s) /\ Reply(r, s) /\ reply \in Seq(Values)
  <2>1. m + 1 > m /\ m + 1 <= all
    BY <1>9
  <2>2. wire[t][s] = IF Executed(r, s) THEN "reply" ELSE "command"
    BY <1>5, <1>6, <1>9, <2>1 DEF OnTheWire
  <2>3. Executed(r, s)
    BY <1>1, <2>2
  <2> QED  BY <1>5, <1>8, <2>3 DEF IInv, Replies, Reply
<1>11. whole \in Seq(Values) /\ Continues(whole, response, reply)
  BY <1>0a, <1>5, <1>10, Concatenation
<1>12. /\ work'[t] = received /\ \A u \in Threads \ {t} : work'[u] = work[u]
       /\ received.request = r /\ received.toReceive = Tail(work[t].toReceive)
       /\ received.toSend = << >> /\ received.response = whole
       /\ work' \in [Threads -> ThreadStates] /\ Busy' = Busy /\ Handled' = Handled
  <2>1. work \in [Threads -> ThreadStates]
    BY <1>2 DEF TypeOK
  <2>2. /\ received \in ThreadStates
        /\ received.request = r /\ received.toReceive = Tail(work[t].toReceive)
        /\ received.toSend = << >> /\ received.response = whole
    <3>1. work[t] \in ThreadStates
      BY <2>1
    <3> QED  BY <1>0, <1>1, <1>8, <1>11, <3>1 DEF ThreadStates
  <2>3. work' \in [Threads -> ThreadStates] /\ work'[t] = received
        /\ \A u \in Threads \ {t} : work'[u] = work[u]
    BY <1>1, <2>1, <2>2
  <2>4. \A u \in Threads : work'[u].request = work[u].request
    BY <2>2, <2>3
  <2> QED  BY <2>2, <2>3, <2>4 DEF Busy, Handled
<1>13. /\ wire' \in [Threads -> [Servers -> {"quiet", "command", "reply"}]]
       /\ wire'[t][s] = "quiet"
       /\ \A z \in Servers \ {s} : wire'[t][z] = wire[t][z]
       /\ \A u \in Threads \ {t} : wire'[u] = wire[u]
  BY <1>1, <1>2, <1>8 DEF Typed
<1>14. \A z \in Range(work[t].toReceive) : z # s => z \in Range(Tail(work[t].toReceive))
  BY <1>5, RangeOfTail
<1>15. TypeOK'
  <2>1. \A u \in Threads, z \in Servers :
          wire'[u][z] # "quiet" => u \in Busy' /\ z \in Range(work'[u].toReceive)
    <3> TAKE u \in Threads, z \in Servers
    <3> HAVE wire'[u][z] # "quiet"
    <3>1. CASE u = t
      <4>1. wire[t][z] # "quiet" /\ z # s
        BY <1>13, <3>1
      <4> QED  BY <1>2, <1>12, <1>14, <3>1, <4>1 DEF TypeOK
    <3>2. CASE u # t
      <4>1. wire[u][z] # "quiet" /\ work'[u] = work[u]
        BY <1>12, <1>13, <3>2
      <4> QED  BY <1>2, <1>12, <4>1 DEF TypeOK
    <3> QED  BY <3>1, <3>2
  <2>2. \A u, w \in Busy' : work'[u].request = work'[w].request => u = w
    <3>1. \A u \in Busy : work'[u].request = work[u].request
      BY <1>12 DEF Busy
    <3> QED  BY <1>2, <1>12, <3>1 DEF TypeOK
  <2> QED  BY <1>1, <1>2, <1>3, <1>12, <2>1, <2>2 DEF TypeOK, RequestIds, Servers
<1>16. Typed'
  <2>1. \A u \in Threads \ Busy' : work'[u] = Idle
    BY <1>2, <1>4, <1>12 DEF Typed
  <2> QED  BY <1>1, <1>2, <1>3, <1>12, <1>13, <2>1 DEF Typed, RequestIds, Servers, KeyLists, Idle
<1>17. ASSUME NEW u \in Busy' PROVE InOrder(u)' /\ OnTheWire(u)' /\ Response(u)'
  <2>1. CASE u # t
    <3>1. u \in Busy /\ work[u].request \in Ids /\ work'[u] = work[u] /\ wire'[u] = wire[u]
      BY <1>2, <1>12, <1>13, <2>1 DEF TypeOK, Handled, Pending, Busy
    <3>2. InOrder(u) /\ OnTheWire(u) /\ Response(u)
      BY <3>1 DEF IInv
    <3> QED  BY <1>1, <1>2, <1>3, <1>16, <3>1, <3>2, UntouchedHandler DEF Executed
  <2>2. CASE u = t
    <3>1. TargetsOf(t)' = Targets(r) /\ Sent(t)' = all /\ Received(t)' = m + 1
      <4>1. TargetsOf(t)' = Targets(r)
        BY <1>3, <1>12 DEF TargetsOf
      <4>2. Sent(t)' = all - 0 /\ Received(t)' = all - (left - 1)
        BY <1>8, <1>12, <4>1, ShortSequences DEF Sent, Received
      <4> QED  BY <1>6, <4>1, <4>2
    <3>2. InOrder(t)'
      <4>1. \A i \in 1 .. left - 1 : received.toReceive[i] = Targets(r)[(m + 1) + i]
        <5> TAKE i \in 1 .. left - 1
        <5>1. i + 1 \in 1 .. left /\ m + (i + 1) = (m + 1) + i
          OBVIOUS
        <5>2. received.toReceive[i] = work[t].toReceive[i + 1]
          BY <1>8, <1>12
        <5> QED  BY <1>7, <5>1, <5>2
      <4>2. Len(received.toReceive) = left - 1 /\ Len(received.toSend) = 0
        BY <1>8, <1>12, ShortSequences
      <4>3. m + 1 <= all /\ m + 1 >= 0
        BY <1>9
      <4> QED  BY <1>12, <3>1, <4>1, <4>2, <4>3 DEF InOrder
    <3>3. OnTheWire(t)'
      <4>1. ASSUME NEW n \in 1 .. all, NEW z, z = Targets(r)[n]
            PROVE  /\ n <= m + 1 => wire'[t][z] = "quiet" /\ Executed(r, z)'
                   /\ n > m + 1 /\ n <= all
                      => wire'[t][z] = IF Executed(r, z)' THEN "reply" ELSE "command"
        <5>1. z \in Servers
          BY <1>5, <4>1
        <5>2. Executed(r, z)' <=> Executed(r, z)
          BY <1>1 DEF Executed
        <5>3. /\ n <= m => wire[t][z] = "quiet" /\ Executed(r, z)
              /\ n > m /\ n <= all => wire[t][z] = IF Executed(r, z) THEN "reply" ELSE "command"
          BY <1>5, <1>6, <4>1 DEF OnTheWire
        <5>4. CASE n = m + 1
          <6>1. z = s
            BY <1>9, <4>1, <5>4
          <6> QED  BY <1>10, <1>13, <5>2, <5>4, <6>1
        <5>5. CASE n # m + 1
          <6>1. z # s
            BY <1>5, <1>9, <4>1, <5>5
          <6>2. wire'[t][z] = wire[t][z]
            BY <1>13, <5>1, <6>1
          <6> QED  BY <5>2, <5>3, <5>5, <6>2
        <5> QED  BY <5>4, <5>5
      <4> QED  BY <1>12, <3>1, <4>1 DEF OnTheWire, Executed
    <3>4. Response(t)'
      <4> PICK keys : keys = requests[r].keys
        OBVIOUS
      <4>1. Fixed(r) /\ StartFixed
        BY <1>3, <1>5 DEF RequestsFixed
      <4>2. /\ (IsMulti(r)' <=> IsMulti(r)) /\ (IsSet(r)' <=> IsSet(r))
            /\ \A n : KeysRead(r, n)' = KeysRead(r, n)
            /\ Primary(requests[r].keys[1])' = Primary(requests[r].keys[1])
        BY <4>1, FixedRequest
      <4>3. \A k : Store!MayRead(r, k) \subseteq Store!MayRead(r, k)'
        BY <1>2, <1>3, <1>5, <1>16, MayReadGrows
      <4>4. /\ Len(whole) = KeysRead(r, m + 1)
            /\ IsMulti(r) => \A i \in 1 .. Len(whole) : whole[i] \in Store!MayRead(r, keys[i])
            /\ ~IsMulti(r) /\ ~IsSet(r)
               => whole = replied[Primary(requests[r].keys[1])][r]
        <5>1. m + 1 \in 1 .. Len(Targets(r)) /\ Reply(r, s)
          BY <1>9, <1>10
        <5>2. Hears(t, r, m, s, reply, response, whole)
          BY <1>4, <1>9, <1>11, <5>1 DEF Hears
        <5>3. /\ Len(whole) = KeysRead(r, m + 1)
              /\ IsMulti(r) => \A i \in 1 .. Len(whole) :
                     whole[i] \in Store!MayRead(r, requests[r].keys[i])
              /\ ~IsMulti(r) /\ ~IsSet(r)
                 => whole = replied[Primary(requests[r].keys[1])][r]
          BY <5>2, ReplyContinuesResponse
        <5> QED  BY <5>3
      <4> QED  BY <1>1, <1>12, <3>1, <4>1, <4>2, <4>3, <4>4 DEF Response, Fixed
    <3> QED  BY <2>2, <3>2, <3>3, <3>4
  <2> QED  BY <2>1, <2>2
<1>18. ExecutedWhenHandled' /\ AnsweredWhenExecuted'
  BY <1>1, <1>3, <1>12 DEF IInv, ExecutedWhenHandled, AnsweredWhenExecuted, Executed
<1>19. Replies'
  BY <1>1, <1>2, <1>3, <1>16, UntouchedReply DEF IInv, Replies, Executed
<1>20. ASSUME NEW z \in Servers, NEW k \in Keys PROVE Latest(z, k)'
  BY <1>1, <1>2, <1>3, <1>16, UntouchedValue DEF IInv, TypeOK
<1> QED  BY <1>15, <1>16, <1>17, <1>18, <1>19, <1>20 DEF IInv, Servers

(* A thread that answers its client keeps the invariant.                   *)
LEMMA SendToClientKeepsIInv ==
  ASSUME IInv, NEW t \in Threads, SendToClient(t)
  PROVE  IInv'
<1> PICK r : r = work[t].request
  OBVIOUS
<1> PICK response : response = work[t].response
  OBVIOUS
<1>1. /\ t \in Busy /\ work[t].toSend = << >> /\ work[t].toReceive = << >>
      /\ requests' = [requests EXCEPT ![r].answered = TRUE, ![r].answer = response]
      /\ work' = [work EXCEPT ![t] = Idle]
      /\ UNCHANGED <<readSharded, findTargetServer, queue, wire, data, replied>>
  BY DEF SendToClient
<1>2. TypeOK /\ Typed
  BY DEF IInv
<1>3. /\ r \in Ids /\ r \in Pending /\ r \in Handled /\ response \in Seq(Values)
      /\ TargetsOf(t) = Targets(r)
      /\ OnTheWire(t) /\ \A u \in Busy : u # t => work[u].request # r
  BY <1>1, BusyThread
<1>4. /\ requests[r] \in Requested /\ requests \in [Ids -> Requested]
  BY <1>2, <1>3 DEF Typed
<1>5. /\ Ids' = Ids /\ requests' \in [Ids -> Requested]
      /\ requests'[r].answered = TRUE
      /\ requests'[r].kind = requests[r].kind /\ requests'[r].keys = requests[r].keys
      /\ requests'[r].after = requests[r].after
      /\ \A v \in Ids \ {r} : requests'[v] = requests[v]
  BY <1>1, <1>3, <1>4 DEF Requested, Ids
<1>6. Pending' = Pending \ {r}
  BY <1>3, <1>5 DEF Pending
<1>7. RequestsFixed /\ \A v \in Ids : IsSet(v)' <=> IsSet(v)
  BY <1>1, <1>5 DEF RequestsFixed, StartFixed, Fixed, IsSet
<1>8. /\ work'[t] = Idle /\ \A u \in Threads \ {t} : work'[u] = work[u]
      /\ work' \in [Threads -> ThreadStates]
  <2>1. Idle \in ThreadStates
    <3>1. << >> \in Seq(Servers) /\ << >> \in Seq(Values) /\ None \in Values
      BY ShortSequences DEF Values
    <3> QED  BY <3>1 DEF ThreadStates, Idle
  <2> QED  BY <1>1, <1>2, <2>1 DEF TypeOK
<1>9. Busy' = Busy \ {t} /\ Handled' = Handled \ {r}
  <2>1. Busy' = Busy \ {t}
    BY <1>1, <1>8 DEF Busy, Idle
  <2> QED  BY <1>3, <1>8, <2>1 DEF Handled, Busy
<1>10. Values' = Values /\ ThreadStates' = ThreadStates /\ Requested' = Requested
  BY DEF Values, ThreadStates, Requested, RequestIds, Servers, KeyLists
<1>11. TypeOK'
  <2>1. Handled' \union Range(queue)' \subseteq Pending' /\ Handled' \intersect Range(queue)' = {}
    BY <1>1, <1>2, <1>3, <1>6, <1>9 DEF TypeOK
  <2>2. \A u, w \in Busy' : work'[u].request = work'[w].request => u = w
    BY <1>2, <1>8, <1>9 DEF TypeOK, Busy
  <2>3. \A s \in Servers : wire[t][s] = "quiet"
    <3>1. Range(work[t].toReceive) = {}
      BY <1>1 DEF Range
    <3> QED  BY <1>2, <3>1 DEF TypeOK
  <2>4. \A u \in Threads, s \in Servers :
          wire'[u][s] # "quiet" => u \in Busy' /\ s \in Range(work'[u].toReceive)
    BY <1>1, <1>2, <1>8, <1>9, <2>3 DEF TypeOK
  <2> QED  BY <1>1, <1>2, <1>5, <1>8, <1>10, <2>1, <2>2, <2>4 DEF TypeOK, RequestIds, Servers
<1>12. Typed'
  <2>1. \A u \in Threads \ Busy' : work'[u] = Idle
    BY <1>2, <1>8, <1>9 DEF Typed
  <2>2. \A v \in Ids' : /\ IsSet(v)' => Len(requests'[v].keys) = 1
                        /\ requests'[v].after \subseteq Ids' \ Pending'
    <3>1. \A v \in Ids : requests'[v].keys = requests[v].keys /\ requests'[v].after = requests[v].after
      BY <1>5
    <3> QED  BY <1>2, <1>5, <1>6, <1>7, <3>1 DEF Typed
  <2>3. Idle' = Idle
    BY DEF Idle
  <2> QED  BY <1>1, <1>2, <1>5, <1>10, <2>1, <2>2, <2>3 DEF Typed, RequestIds, Servers, KeyLists
<1>13. ASSUME NEW u \in Busy' PROVE InOrder(u)' /\ OnTheWire(u)' /\ Response(u)'
  <2>1. u \in Busy /\ work[u].request \in Ids /\ work'[u] = work[u]
    BY <1>2, <1>8, <1>9 DEF TypeOK, Handled, Pending, Busy
  <2>2. InOrder(u) /\ OnTheWire(u) /\ Response(u)
    BY <2>1 DEF IInv
  <2> QED  BY <1>1, <1>2, <1>7, <1>12, <2>1, <2>2, UntouchedHandler DEF Executed
<1>14. \A s \in Servers : IsSet(r) => Executed(r, s)
  <2> SUFFICES ASSUME NEW s \in Servers, IsSet(r) PROVE Executed(r, s)
    OBVIOUS
  <2>1. Len(Targets(r)) = NumServers /\ Targets(r)[s + 1] = s /\ s + 1 \in 1 .. NumServers
    BY <1>2, <1>3, TargetsDiffer, NumServersIsPositive DEF Servers
  <2>2. Received(t) = NumServers
    <3>1. Received(t) = NumServers - 0
      BY <1>1, <1>3, <2>1, ShortSequences DEF Received
    <3> QED  BY <3>1, NumServersIsPositive
  <2>3. s + 1 <= Received(t)
    BY <2>1, <2>2
  <2> QED  BY <1>3, <2>1, <2>3 DEF OnTheWire
<1>15. ExecutedWhenHandled' /\ AnsweredWhenExecuted'
  <2>1. Pending' \ Handled' = Pending \ Handled /\ Ids' \ Pending' = (Ids \ Pending) \union {r}
    BY <1>3, <1>5, <1>6, <1>9
  <2> QED  BY <1>1, <1>3, <1>7, <1>14, <2>1
           DEF IInv, ExecutedWhenHandled, AnsweredWhenExecuted, Executed
<1>16. Replies'
  BY <1>1, <1>2, <1>5, <1>7, <1>12, UntouchedReply DEF IInv, Replies, Executed
<1>17. ASSUME NEW z \in Servers, NEW k \in Keys PROVE Latest(z, k)'
  BY <1>1, <1>2, <1>7, <1>12, UntouchedValue DEF IInv, TypeOK
<1> QED  BY <1>11, <1>12, <1>13, <1>15, <1>16, <1>17 DEF IInv, Servers

(* A step that changes nothing keeps the invariant.                        *)
LEMMA StutterKeepsIInv == IInv /\ UNCHANGED vars => IInv'
<1> SUFFICES ASSUME IInv, UNCHANGED vars PROVE IInv'
  OBVIOUS
<1> USE DEF vars
<1>1. /\ Ids' = Ids /\ Pending' = Pending /\ RequestsFixed
      /\ Values' = Values /\ ThreadStates' = ThreadStates /\ Requested' = Requested
      /\ \A v : (IsSet(v)' <=> IsSet(v)) /\ Targets(v)' = Targets(v)
  BY SameRequests
<1>2. Busy' = Busy /\ Handled' = Handled
  BY DEF Busy, Handled
<1>3. TypeOK /\ Typed
  BY DEF IInv
<1>4. TypeOK'
  BY <1>1, <1>2, <1>3 DEF TypeOK, RequestIds, Servers
<1>5. Typed'
  BY <1>1, <1>2, <1>3 DEF Typed, RequestIds, Servers, KeyLists, Idle
<1>6. ASSUME NEW u \in Busy' PROVE InOrder(u)' /\ OnTheWire(u)' /\ Response(u)'
  <2>1. u \in Busy /\ work[u].request \in Ids
    BY <1>2, <1>3 DEF TypeOK, Handled, Pending
  <2>2. InOrder(u) /\ OnTheWire(u) /\ Response(u)
    BY <2>1 DEF IInv
  <2> QED  BY <1>1, <1>3, <1>5, <2>1, <2>2, UntouchedHandler DEF Executed
<1>7. ExecutedWhenHandled' /\ AnsweredWhenExecuted'
  BY <1>1, <1>2 DEF IInv, ExecutedWhenHandled, AnsweredWhenExecuted, Executed
<1>8. Replies'
  BY <1>1, <1>3, <1>5, UntouchedReply DEF IInv, Replies, Executed
<1>9. ASSUME NEW s \in Servers, NEW k \in Keys PROVE Latest(s, k)'
  BY <1>1, <1>3, <1>5, UntouchedValue DEF IInv, TypeOK
<1> QED  BY <1>4, <1>5, <1>6, <1>7, <1>8, <1>9 DEF IInv, Servers

(* Every step keeps the invariant.                                         *)
LEMMA NextKeepsIInv == IInv /\ [Next]_vars => IInv'
<1> SUFFICES ASSUME IInv, [Next]_vars PROVE IInv'
  OBVIOUS
<1>1. CASE \E c \in Clients, command \in Commands : Request(c, command)
  BY <1>1, RequestKeepsIInv
<1>2. CASE \E r \in Pending : EnqueueChannel(r)
  BY <1>2, EnqueueKeepsIInv
<1>3. CASE \E t \in Threads : ThreadStep(t)
  BY <1>3, TakeKeepsIInv, SendKeepsIInv, WaitKeepsIInv, SendToClientKeepsIInv DEF ThreadStep
<1>4. CASE \E t \in Threads, s \in Servers : Execute(t, s)
  BY <1>4, ExecuteSetKeepsIInv, ExecuteGetKeepsIInv DEF Execute
<1>5. CASE UNCHANGED vars
  BY <1>5, StutterKeepsIInv
<1> QED  BY <1>1, <1>2, <1>3, <1>4, <1>5 DEF Next

(* The invariant holds in every behaviour.                                 *)
LEMMA Invariance == Spec => []IInv
  BY InitIInv, NextKeepsIInv, PTL DEF Spec

(* The types: a request is in one place at a time, with the network        *)
(* thread, in the queue or on one thread, and a connection is in use only  *)
(* for a request that is being handled.                                    *)
THEOREM TypeCorrect == Spec => []TypeOK
<1>1. IInv => TypeOK
  BY DEF IInv
<1> QED  BY <1>1, Invariance, PTL

(* Replicas differ only where SETs raced: whatever the number of servers   *)
(* and threads, a value that is on one server only was written by a SET    *)
(* that overlapped the SET of every other value.                           *)
THEOREM OnlyRacesLeaveReplicasDifferent == Spec => []ReplicasDifferOnlyAfterRaces
<1>1. ASSUME IInv PROVE ReplicasDifferOnlyAfterRaces
  <2> SUFFICES ASSUME NEW k \in Keys, NEW s1 \in Servers, NEW s2 \in Servers,
                      NEW w1, w1 = data[s1][k], NEW w2, w2 = data[s2][k], w1 # w2,
                      \A r \in Pending : ~(IsSet(r) /\ requests[r].keys = <<k>>)
               PROVE  /\ w1 # None /\ w2 # None
                      /\ w1 \notin requests[w2].after /\ w2 \notin requests[w1].after
    BY DEF ReplicasDifferOnlyAfterRaces
  <2>1. ASSUME NEW r \in Ids, Writes(r, k), NEW s \in Servers PROVE Executed(r, s)
    <3>1. requests[r].keys = <<k>>
      <4>1. requests[r].keys \in Seq(Keys) /\ Len(requests[r].keys) = 1 /\ requests[r].keys[1] = k
        BY <1>1, <2>1, KeyListsAreLists DEF IInv, Typed, Requested, Writes
      <4> QED  BY <4>1
    <3> QED  BY <1>1, <2>1, <3>1 DEF IInv, AnsweredWhenExecuted, Writes
  <2>2. Latest(s1, k) /\ Latest(s2, k)
    BY <1>1 DEF IInv
  <2>3. w1 # None => w2 # None /\ w2 \notin requests[w1].after
    BY <2>1, <2>2 DEF Latest
  <2>4. w2 # None => w1 # None /\ w1 \notin requests[w2].after
    BY <2>1, <2>2 DEF Latest
  <2> QED  BY <2>3, <2>4
<1> QED  BY <1>1, Invariance, PTL

-----------------------------------------------------------------------------
(* The refinement: every step is a step of the one store, or none.         *)

Copy == [k \in Keys |-> data[Primary(k)][k]]

(* A request of one key has taken effect when its primary has executed it. *)
Happened(r) == Len(requests[r].keys) = 1 /\ Executed(r, Primary(requests[r].keys[1]))
EffectOf(r) == replied[Primary(requests[r].keys[1])][r]

(* The effects the store has seen are those of the requests that have      *)
(* happened.                                                               *)
LEMMA EffectsHappened == Effects = [r \in {i \in Ids : Happened(i)} |-> EffectOf(r)]
  BY DEF Effects, Happened, Executed, EffectOf

(* The server that decides over a key is a server.                         *)
LEMMA PrimaryIsServer ==
  ASSUME Typed, NEW k \in Keys
  PROVE  Primary(k) \in Servers
BY DEF Typed, Primary, KeyLists

(* A positive number that is not one is larger.                            *)
LEMMA OneOrMore ==
  ASSUME NEW n \in Nat, n > 0
  PROVE  n # 1 <=> n > 1
OBVIOUS

(* The store and the middleware speak of the same requests and clients.    *)
LEMMA SameDefinitions ==
  /\ Store!Ids = Ids /\ Store!Pending = Pending
  /\ Store!Values = Values
  /\ \A c : Store!Issued(c) = Issued(c)
  /\ \A r : Store!IsSet(r) = IsSet(r)
  /\ \A f, x, y : Store!Put(f, x, y) = Put(f, x, y)
  /\ \A S : Store!Cardinality(S) = Cardinality(S)
BY DEF Store!Cardinality, Cardinality, Store!Ids, Ids, Store!Pending, Pending, Store!Values, Values, Store!RequestIds, RequestIds,
       Store!Issued, Issued, Store!IsSet, IsSet, Store!Put, Put

(* The store has seen nothing new when no request happens.                 *)
LEMMA SameEffects ==
  ASSUME Ids' \ Ids \subseteq {i \in Ids' : ~Happened(i)'}, Ids \subseteq Ids',
         \A r \in Ids : /\ Happened(r)' <=> Happened(r)
                        /\ Happened(r) => EffectOf(r)' = EffectOf(r)
  PROVE  Effects' = Effects
<1>1. Effects' = [r \in {i \in Ids' : Happened(i)'} |-> EffectOf(r)']
  BY DEF Effects, Happened, Executed, EffectOf, Ids, Primary
<1>2. {i \in Ids' : Happened(i)'} = {i \in Ids : Happened(i)}
  OBVIOUS
<1> QED  BY <1>1, <1>2, EffectsHappened

(* The store sees the one request that happens.                            *)
LEMMA NewEffect ==
  ASSUME NEW r \in Ids, Ids' = Ids, Happened(r)', NEW effect, EffectOf(r)' = effect,
         \A v \in Ids \ {r} : /\ Happened(v)' <=> Happened(v)
                              /\ Happened(v) => EffectOf(v)' = EffectOf(v)
  PROVE  Effects' = Put(Effects, r, effect)
<1>1. Effects' = [v \in {i \in Ids : Happened(i)'} |-> EffectOf(v)']
  BY DEF Effects, Happened, Executed, EffectOf, Ids, Primary
<1>2. {i \in Ids : Happened(i)'} = {i \in Ids : Happened(i)} \union {r}
  OBVIOUS
<1>3. DOMAIN Effects = {i \in Ids : Happened(i)}
      /\ \A v \in Ids : Happened(v) => Effects[v] = EffectOf(v)
  BY EffectsHappened
<1> QED  BY <1>1, <1>2, <1>3 DEF Put

(* The initial states are initial states of the store.                     *)
LEMMA InitImplements == Init => Store!Init
<1> SUFFICES ASSUME Init PROVE Store!Init
  OBVIOUS
<1>1. IInv
  BY InitIInv
<1>2. Copy = [k \in Keys |-> None]
  BY <1>1, PrimaryIsServer DEF IInv, Init, Copy
<1>3. Effects = << >>
  <2>1. Ids = {}
    BY DEF Init, Ids
  <2>2. DOMAIN Effects = {} /\ Effects = [r \in DOMAIN Effects |-> EffectOf(r)]
    BY <2>1, EffectsHappened
  <2> QED  BY <2>2
<1> QED  BY <1>2, <1>3 DEF Store!Init, Init, Copy

(* A request of a client is one of the store's.                            *)
LEMMA RequestImplements ==
  ASSUME IInv, NEW c \in Clients, NEW command \in Commands, Request(c, command)
  PROVE  Store!Request(c, command)
<1>1. PICK n \in 1 .. MaxRequests :
        /\ Issued(c) = {c} \X (1 .. n - 1)
        /\ requests' = Put(requests, <<c, n>>,
               [kind |-> command.kind, keys |-> command.keys, after |-> Ids \ Pending,
                answered |-> FALSE, answer |-> << >>])
  BY DEF Request
<1> DEFINE new == <<c, n>>
<1>2. UNCHANGED <<findTargetServer, data, replied>>
  BY DEF Request
<1>3. TypeOK /\ Typed
  BY DEF IInv
<1>4. /\ Ids' = Ids \union {new} /\ new \notin Ids
      /\ \A r \in Ids : requests'[r] = requests[r]
  BY <1>1 DEF Ids, Put, Issued
<1>5. \A s \in Servers : ~Executed(new, s)
  BY <1>3, <1>4 DEF TypeOK, Executed
<1>6. UNCHANGED Copy
  BY <1>2 DEF Copy, Primary
<1>7. Effects' = Effects
  <2>1. ~Happened(new)'
    <3> SUFFICES ASSUME Happened(new)' PROVE FALSE
      OBVIOUS
    <3>1. requests'[new].keys = command.keys /\ command.keys \in Seq(Keys) \ {<< >>}
      BY <1>1, MiddlewareAssumption DEF Put
    <3>2. Len(command.keys) = 1 /\ Executed(new, Primary(command.keys[1]))
      BY <1>2, <3>1 DEF Happened, Executed, Primary
    <3>3. command.keys[1] \in Keys
      BY <3>1, <3>2
    <3> QED  BY <1>3, <1>5, <3>2, <3>3, PrimaryIsServer
  <2>2. \A r \in Ids : (Happened(r)' <=> Happened(r)) /\ EffectOf(r)' = EffectOf(r)
    BY <1>2, <1>4 DEF Happened, EffectOf, Executed, Primary
  <2> QED  BY <1>4, <2>1, <2>2, SameEffects
<1>8. Issued(c) \intersect Pending = {} /\ Cardinality(Ids) < MaxRequests
  BY DEF Request
<1>9. /\ Store!Issued(c) = {c} \X (1 .. n - 1)
      /\ requests' = Store!Put(requests, new,
             [kind |-> command.kind, keys |-> command.keys, after |-> Store!Ids \ Store!Pending,
              answered |-> FALSE, answer |-> << >>])
  BY <1>1, SameDefinitions
<1>10. Store!Issued(c) \intersect Store!Pending = {} /\ Store!Cardinality(Store!Ids) < MaxRequests
  BY <1>8, SameDefinitions
<1> HIDE DEF Effects
<1> QED  BY <1>6, <1>7, <1>9, <1>10 DEF Store!Request, Copy

(* The SET happens in the store when the server that decides over its key  *)
(* executes it; the other servers change nothing the store knows of.       *)
LEMMA ExecuteSetImplements ==
  ASSUME IInv, NEW t \in Threads, NEW s \in Servers, ExecuteSet(t, s)
  PROVE  UNCHANGED Store!vars \/ \E r \in Pending : Store!Set(r)
<1> PICK r : r = work[t].request
  OBVIOUS
<1> PICK key : key = requests[r].keys[1]
  OBVIOUS
<1>1. /\ wire[t][s] = "command" /\ IsSet(r)
      /\ data' = [data EXCEPT ![s][key] = r]
      /\ replied' = [replied EXCEPT ![s] = Put(@, r, << >>)]
      /\ UNCHANGED <<findTargetServer, requests>>
  BY DEF ExecuteSet
<1>2. TypeOK /\ Typed
  BY DEF IInv
<1>3. r \in Ids /\ r \in Pending /\ ~Executed(r, s)
  BY <1>1, CommandOnTheWire, BusyThread
<1>4. key \in Keys /\ Len(requests[r].keys) = 1
  BY <1>1, <1>2, <1>3, KeyListsAreLists DEF Typed, Requested
<1>5. /\ data'[s][key] = r
      /\ \A z \in Servers, k \in Keys : z # s \/ k # key => data'[z][k] = data[z][k]
  BY <1>1, <1>2, <1>4 DEF TypeOK
<1>6. /\ \A v : Executed(v, s)' <=> Executed(v, s) \/ v = r
      /\ replied'[s][r] = << >> /\ \A v : v # r /\ Executed(v, s) => replied'[s][v] = replied[s][v]
      /\ \A z : z # s => (\A v : Executed(v, z)' <=> Executed(v, z)) /\ replied'[z] = replied[z]
  BY <1>1, <1>2 DEF Typed, Put, Executed
<1>7. Ids' = Ids
  BY <1>1 DEF Ids
<1>8. \A v \in Ids \ {r} : /\ Happened(v)' <=> Happened(v)
                           /\ Happened(v) => EffectOf(v)' = EffectOf(v)
  <2> TAKE v \in Ids \ {r}
  <2> PICK z : z = Primary(requests[v].keys[1])
    OBVIOUS
  <2>1. Primary(requests[v].keys[1])' = z /\ requests'[v] = requests[v]
    BY <1>1 DEF Primary
  <2>2. (Executed(v, z)' <=> Executed(v, z)) /\ (Executed(v, z) => replied'[z][v] = replied[z][v])
    BY <1>6
  <2> QED  BY <2>1, <2>2 DEF Happened, EffectOf, Executed
<1>9. CASE s = Primary(key)
  <2>1. Copy' = [Copy EXCEPT ![key] = r]
    <3>1. Copy' = [k \in Keys |-> data'[Primary(k)][k]]
      BY <1>1 DEF Copy, Primary
    <3>2. \A k \in Keys : data'[Primary(k)][k] = IF k = key THEN r ELSE data[Primary(k)][k]
      BY <1>2, <1>5, <1>9, PrimaryIsServer
    <3> QED  BY <3>1, <3>2 DEF Copy
  <2>2. Effects' = Put(Effects, r, << >>)
    <3>1. Happened(r)'
      BY <1>1, <1>4, <1>6, <1>9 DEF Happened, Executed, Primary
    <3>2. EffectOf(r)' = << >>
      BY <1>1, <1>6, <1>9 DEF EffectOf, Primary
    <3> QED  BY <1>3, <1>7, <1>8, <3>1, <3>2, NewEffect
  <2>3. r \notin DOMAIN Effects
    BY <1>3, <1>9, EffectsHappened DEF Happened
  <2>4. Store!Set(r)
    BY <1>1, <1>3, <2>1, <2>2, <2>3, SameDefinitions DEF Store!Set, Store!Key, Copy
  <2> QED  BY <1>3, <2>4
<1>10. CASE s # Primary(key)
  <2>1. Copy' = Copy
    <3>1. Copy' = [k \in Keys |-> data'[Primary(k)][k]]
      BY <1>1 DEF Copy, Primary
    <3>2. \A k \in Keys : data'[Primary(k)][k] = data[Primary(k)][k]
      BY <1>2, <1>5, <1>10, PrimaryIsServer
    <3> QED  BY <3>1, <3>2 DEF Copy
  <2>2. (Happened(r)' <=> Happened(r)) /\ (Happened(r) => EffectOf(r)' = EffectOf(r))
    <3> PICK z : z = Primary(requests[r].keys[1])
      OBVIOUS
    <3>1. Primary(requests[r].keys[1])' = z
      BY <1>1 DEF Primary
    <3>2. (Executed(r, z)' <=> Executed(r, z)) /\ replied'[z] = replied[z]
      BY <1>6, <1>10
    <3> QED  BY <1>1, <3>1, <3>2 DEF Happened, EffectOf, Executed
  <2>3. Effects' = Effects
    BY <1>7, <1>8, <2>2, SameEffects
  <2> QED  BY <1>1, <2>1, <2>3 DEF Store!vars, Copy
<1> QED  BY <1>9, <1>10

(* A GET of one key is executed by the primary of the key only.            *)
LEMMA ExecuteGetImplements ==
  ASSUME IInv, NEW t \in Threads, NEW s \in Servers, ExecuteGet(t, s)
  PROVE  UNCHANGED Store!vars \/ \E r \in Pending : Store!Get(r)
<1> PICK r : r = work[t].request
  OBVIOUS
<1> PICK key : key = requests[r].keys[1]
  OBVIOUS
<1> PICK reply : reply = [i \in DOMAIN KeysAt(r, s) |-> data[s][KeysAt(r, s)[i]]]
  OBVIOUS
<1>1. /\ wire[t][s] = "command" /\ ~IsSet(r)
      /\ replied' = [replied EXCEPT ![s] = Put(@, r, reply)]
      /\ UNCHANGED <<findTargetServer, requests, data>>
  BY DEF ExecuteGet
<1>2. TypeOK /\ Typed
  BY DEF IInv
<1>3. r \in Ids /\ r \in Pending /\ ~Executed(r, s)
      /\ \E n \in 1 .. Len(Targets(r)) : s = Targets(r)[n]
  BY <1>1, CommandOnTheWire, BusyThread
<1>4. requests[r].keys \in Seq(Keys) \ {<< >>}
  BY <1>2, <1>3, KeyListsAreLists DEF Typed, Requested
<1>5. /\ \A v : Executed(v, s)' <=> Executed(v, s) \/ v = r
      /\ replied'[s][r] = reply /\ \A v : v # r /\ Executed(v, s) => replied'[s][v] = replied[s][v]
      /\ \A z : z # s => (\A v : Executed(v, z)' <=> Executed(v, z)) /\ replied'[z] = replied[z]
  BY <1>1, <1>2 DEF Typed, Put, Executed
<1>6. Ids' = Ids /\ Copy' = Copy
  BY <1>1 DEF Ids, Copy, Primary
<1>7. \A v \in Ids \ {r} : /\ Happened(v)' <=> Happened(v)
                           /\ Happened(v) => EffectOf(v)' = EffectOf(v)
  <2> TAKE v \in Ids \ {r}
  <2> PICK z : z = Primary(requests[v].keys[1])
    OBVIOUS
  <2>1. Primary(requests[v].keys[1])' = z /\ requests'[v] = requests[v]
    BY <1>1 DEF Primary
  <2>2. (Executed(v, z)' <=> Executed(v, z)) /\ (Executed(v, z) => replied'[z][v] = replied[z][v])
    BY <1>5
  <2> QED  BY <2>1, <2>2 DEF Happened, EffectOf, Executed
<1>8. CASE ~IsMulti(r)
  <2>1. requests[r].keys = <<key>> /\ key \in Keys
    BY <1>4, <1>8 DEF IsMulti
  <2>2. s = Primary(key)
    <3>1. Typed /\ r \in Ids /\ ~IsSet(r) /\ ~IsMulti(r) /\ key = requests[r].keys[1]
      BY <1>1, <1>2, <1>3, <1>8
    <3>2. Len(Targets(r)) = 1 /\ Targets(r)[1] = Primary(key)
      BY ONLY <3>1, TargetsDiffer
    <3> QED  BY ONLY <1>3, <3>2
  <2>3. reply = <<Copy[key]>>
    <3>1. KeysAt(r, s) = <<key>>
      BY <1>8, <2>1 DEF KeysAt, IsSplit, IsMulti
    <3>2. DOMAIN KeysAt(r, s) = 1 .. 1 /\ KeysAt(r, s)[1] = key
      BY <3>1
    <3>3. reply = [i \in 1 .. 1 |-> data[s][key]]
      BY <3>2
    <3>4. Copy[key] = data[s][key]
      BY ONLY <2>1, <2>2 DEF Copy
    <3> QED  BY ONLY <3>3, <3>4
  <2>4. Effects' = Put(Effects, r, <<Copy[key]>>)
    <3>1. Happened(r)'
      BY <1>1, <1>5, <2>1, <2>2 DEF Happened, Executed, Primary
    <3>2. EffectOf(r)' = reply
      BY <1>1, <1>5, <2>2 DEF EffectOf, Primary
    <3> QED  BY <1>3, <1>6, <1>7, <2>3, <3>1, <3>2, NewEffect
  <2>5. r \notin DOMAIN Effects
    BY <1>3, <2>2, EffectsHappened DEF Happened
  <2>6. Len(requests[r].keys) = 1
    BY <2>1
  <2>7. Store!Get(r)
    BY <1>1, <1>3, <1>6, <2>4, <2>5, <2>6, SameDefinitions
       DEF Store!Get, Store!Key, Store!IsSingle, Copy
  <2> QED  BY <1>3, <2>7
<1>9. CASE IsMulti(r)
  <2>1. ~Happened(r) /\ ~Happened(r)'
    <3>1. Len(requests[r].keys) # 1
      <4>1. Len(requests[r].keys) \in Nat /\ Len(requests[r].keys) > 0
        BY <1>4
      <4> QED  BY <1>9, <4>1, OneOrMore DEF IsMulti
    <3> QED  BY <1>1, <3>1 DEF Happened
  <2>2. Effects' = Effects
    BY <1>6, <1>7, <2>1, SameEffects
  <2> QED  BY <1>1, <1>6, <2>2 DEF Store!vars, Copy
<1> QED  BY <1>8, <1>9

(* The answer is the one the store gives: what was read when the request   *)
(* took effect, or for a multi-GET values that might be read.              *)
LEMMA SendToClientImplements ==
  ASSUME IInv, NEW t \in Threads, SendToClient(t)
  PROVE  \E r \in Pending : \E answer \in Store!Answers(r) : Store!Answer(r, answer)
<1> PICK r : r = work[t].request
  OBVIOUS
<1> PICK response : response = work[t].response
  OBVIOUS
<1> PICK keys : keys = requests[r].keys
  OBVIOUS
<1>1. /\ t \in Busy /\ work[t].toReceive = << >>
      /\ requests' = [requests EXCEPT ![r].answered = TRUE, ![r].answer = response]
      /\ UNCHANGED <<findTargetServer, data, replied>>
  BY DEF SendToClient
<1>2. TypeOK /\ Typed
  BY DEF IInv
<1>3. /\ r \in Ids /\ r \in Pending /\ response \in Seq(Values)
      /\ TargetsOf(t) = Targets(r) /\ Len(Targets(r)) \in Nat /\ Len(Targets(r)) > 0
      /\ Targets(r) \in Seq(Servers) /\ OnTheWire(t) /\ Response(t)
  <2>1. Len(Targets(r)) \in 1 .. NumServers
    BY <1>1, BusyThread
  <2>2. Len(Targets(r)) \in Nat /\ Len(Targets(r)) > 0
    BY <2>1, NumServersIsPositive
  <2> QED  BY <1>1, <2>2, BusyThread
<1>4. keys \in Seq(Keys) \ {<< >>} /\ Len(keys) \in Nat /\ Len(keys) > 0
  BY <1>2, <1>3, KeyListsAreLists DEF Typed, Requested
<1>5. Received(t) = Len(Targets(r))
  <2>1. Received(t) = Len(Targets(r)) - 0
    BY <1>1, <1>3, ShortSequences DEF Received
  <2> QED  BY <1>3, <2>1
<1>6. Len(response) = IF IsSet(r) THEN 0 ELSE Len(keys)
  <2>1. Len(response) = KeysRead(r, Len(Targets(r)))
    BY <1>3, <1>5 DEF Response
  <2>2. CASE IsSet(r)
    BY <2>1, <2>2 DEF KeysRead
  <2>3. CASE ~IsSet(r)
    <3> PICK n : n = Len(Targets(r))
      OBVIOUS
    <3>1. n \in 1 .. Len(Targets(r))
      BY <1>3
    <3>2. KeysRead(r, n) = Len(keys)
      BY <1>2, <1>3, <2>3, <3>1, RepliesFollow
    <3> QED  BY <2>1, <2>3, <3>2
  <2> QED  BY <2>2, <2>3
<1>7. response \in Store!Answers(r)
  <2>1. response \in [1 .. Len(response) -> Values]
    BY <1>3
  <2>2. Len(response) \in {0, Len(keys)}
    BY <1>6
  <2> QED  BY <2>1, <2>2, SameDefinitions DEF Store!Answers
<1>8. Store!RightAnswer(r, response)
  <2>1. CASE Len(keys) = 1
    <3> PICK z : z = Primary(keys[1])
      OBVIOUS
    <3>1. z \in Servers
      BY <1>2, <1>4, <2>1, PrimaryIsServer
    <3>2. ~IsMulti(r)
      BY <2>1 DEF IsMulti
    <3>3. Executed(r, z)
      <4>1. PICK n \in 1 .. Len(Targets(r)) : Targets(r)[n] = z
        <5>1. CASE IsSet(r)
          <6>1. z + 1 \in 1 .. NumServers
            BY <3>1, NumServersIsPositive DEF Servers
          <6> QED  BY <1>2, <1>3, <3>1, <5>1, <6>1, TargetsDiffer
        <5>2. CASE ~IsSet(r)
          <6>1. Len(Targets(r)) = 1 /\ Targets(r)[1] = z
            BY <1>2, <1>3, <3>2, <5>2, TargetsDiffer
          <6>2. 1 \in 1 .. Len(Targets(r))
            BY <6>1
          <6> QED  BY <6>1, <6>2
        <5> QED  BY <5>1, <5>2
      <4>2. n <= Received(t)
        BY <1>3, <1>5
      <4> QED  BY <1>3, <4>1, <4>2 DEF OnTheWire
    <3>4. response = replied[z][r]
      <4>1. CASE IsSet(r)
        <5>1. Len(replied[z][r]) = 0 /\ replied[z][r] \in Seq(Values)
          BY <1>3, <3>1, <3>3, <4>1 DEF IInv, Replies, Reply
        <5>2. replied[z][r] = << >>
          BY <5>1
        <5>3. response = << >>
          BY <1>3, <1>6, <4>1
        <5> QED  BY <5>2, <5>3
      <4>2. CASE ~IsSet(r)
        <5>1. Received(t) # 0
          BY <1>3, <1>5
        <5> QED  BY <1>3, <3>2, <4>2, <5>1 DEF Response
      <4> QED  BY <4>1, <4>2
    <3>5. r \in DOMAIN Effects /\ Effects[r] = replied[z][r]
      BY <1>3, <2>1, <3>3, EffectsHappened DEF Happened, EffectOf
    <3> QED  BY <2>1, <3>4, <3>5 DEF Store!RightAnswer, Store!IsSingle
  <2>2. CASE Len(keys) # 1
    <3>0. Len(keys) > 1
      BY <1>4, <2>2, OneOrMore
    <3>1. IsMulti(r) /\ ~IsSet(r)
      BY <1>2, <1>3, <2>2, <3>0 DEF IsMulti, Typed
    <3>2. Len(response) = Len(keys) /\ DOMAIN response = 1 .. Len(response)
      BY <1>3, <1>6, <3>1
    <3>3. \A i \in 1 .. Len(response) : response[i] \in Store!MayRead(r, keys[i])
      BY <1>3, <3>1 DEF Response
    <3> QED  BY <2>2, <3>2, <3>3 DEF Store!RightAnswer, Store!IsSingle
  <2> QED  BY <2>1, <2>2
<1>9. Copy' = Copy /\ Effects' = Effects
  <2>1. \A v \in Ids : requests'[v].keys = requests[v].keys
    BY <1>1, <1>2, <1>3 DEF Typed, Requested
  <2>2. Ids' = Ids
    BY <1>1, <1>2 DEF Typed, Ids
  <2>3. \A v \in Ids : (Happened(v)' <=> Happened(v)) /\ EffectOf(v)' = EffectOf(v)
    BY <1>1, <2>1 DEF Happened, EffectOf, Executed, Primary
  <2>4. Effects' = Effects
    BY <2>2, <2>3, SameEffects
  <2> QED  BY <1>1, <2>4 DEF Copy, Primary
<1>10. Store!Answer(r, response)
  BY <1>1, <1>3, <1>8, <1>9, SameDefinitions DEF Store!Answer, Copy
<1> QED  BY <1>3, <1>7, <1>10

(* A step that touches neither requests nor data is none of the store's.   *)
LEMMA UnseenImplements ==
  ASSUME UNCHANGED <<findTargetServer, requests, data, replied>>
  PROVE  UNCHANGED Store!vars
BY DEF Store!vars, Effects, Primary, Ids

(* Every step is a step of the store or changes nothing of it.             *)
LEMMA NextImplements == IInv /\ [Next]_vars => [Store!Next]_(Store!vars)
<1> SUFFICES ASSUME IInv, [Next]_vars PROVE [Store!Next]_(Store!vars)
  OBVIOUS
<1>1. CASE \E c \in Clients, command \in Commands : Request(c, command)
  BY <1>1, RequestImplements DEF Store!Next
<1>2. CASE \E r \in Pending : EnqueueChannel(r)
  BY <1>2, UnseenImplements DEF EnqueueChannel
<1>3. CASE \E t \in Threads : Take(t) \/ SendToServer(t) \/ WaitForSingleResponse(t)
  BY <1>3, UnseenImplements DEF Take, SendToServer, WaitForSingleResponse
<1>4. CASE \E t \in Threads : SendToClient(t)
  BY <1>4, SendToClientImplements, SameDefinitions DEF Store!Next
<1>5. CASE \E t \in Threads, s \in Servers : Execute(t, s)
  BY <1>5, ExecuteSetImplements, ExecuteGetImplements, SameDefinitions DEF Execute, Store!Next
<1>6. CASE UNCHANGED vars
  BY <1>6, UnseenImplements DEF vars
<1> QED  BY <1>1, <1>2, <1>3, <1>4, <1>5, <1>6 DEF Next, ThreadStep

(* The clients of the middleware see one store, however many servers hold  *)
(* copies of it and however the threads are scheduled.                     *)
THEOREM Implements == Spec => ImplementsStore
  BY InitImplements, Invariance, NextImplements, PTL DEF Spec, ImplementsStore, Store!Spec
=============================================================================
