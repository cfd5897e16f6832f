------------------------- MODULE WorkerThreadProofs -------------------------
(***************************************************************************)
(* What WorkerThread promises, for any number of servers and requests: a   *)
(* thread is in step with its servers until it drops a request or a        *)
(* connection breaks while it sends a SET, and after such a break no SET   *)
(* is acknowledged any more.  While no connection breaks and the buffers   *)
(* are large enough it stays in step, answers every request with its own   *)
(* responses, and leaves nothing behind on the wire.  In step or out of    *)
(* it, no exception takes a SET or a GET away but the one over a read that *)
(* brings fewer than five bytes.                                           *)
(***************************************************************************)
EXTENDS WorkerThread, FiniteSetTheorems, SequenceTheorems, TLAPS

Commands == [request : Requests, type : Types \cup {"unknown"}]
ByteBuffers == [content : Seq(Replies), position : Int, limit : Int]

(* The types, and what the program counter tells about the request.        *)
HandlerTyped ==
  /\ pc \in {"idle", "send", "receive", "reply", "stopped"}
  /\ request \in 0 .. MaxRequests
  /\ type \in Types
  /\ next \in Nat
  /\ hasRead \in BOOLEAN
  /\ error \in Seq(Replies)
  /\ firstPositive \subseteq Servers
  /\ status \in {"pending", "answered", "closed", "dropped"}
  /\ answer \in Seq(Replies)

ChannelsTyped ==
  /\ buffers \in [Servers -> ByteBuffers]
  /\ inbox \in [Servers -> Seq(Commands)]
  /\ outbox \in [Servers -> Seq(Replies)]
  /\ open \in [Servers -> BOOLEAN]
  /\ stored \in [Servers -> SUBSET Requests]

AtWork ==
  /\ pc \in {"send", "receive", "reply"} => targets \in Targets(type) /\ request > 0
  /\ pc \in {"send", "receive"} => next \in 1 .. Len(targets)
  /\ pc = "reply" /\ type = "SET" /\ error = <<>> => firstPositive # {}
  /\ pc # "idle" => status = "pending"
  /\ type = "SET" /\ error # <<>> => IsSetError(error)

Typed == HandlerTyped /\ ChannelsTyped /\ AtWork

-----------------------------------------------------------------------------
(* In step.                                                                *)

Piece(s, kind, from, to) ==
  [server |-> s, request |-> request, kind |-> kind, from |-> from, to |-> to]
Reply(s, kind) == Piece(s, kind, 0, Length(kind))

Kinds == IF type = "SET" THEN SetReplies ELSE GetReplies

(* The response that refused a SET stays in its buffer, which then ends    *)
(* where the response did.                                                 *)
ErrorLimits == {Length(kind) : kind \in SetReplies \ {"STORED"}}
Limits == {Capacity} \cup ErrorLimits

Fresh(s) ==
  buffers[s] = Cleared \/ (buffers[s].position = 0 /\ buffers[s].limit \in ErrorLimits)

Silent(s) == inbox[s] = <<>> /\ outbox[s] = <<>>

(* The buffer of s holds the first n bytes of the reply to the request.    *)
Holds(s, kind, n) ==
  /\ buffers[s].position = n /\ buffers[s].limit \in Limits /\ n <= buffers[s].limit
  /\ kind = "VALUE" => n # ValueLength - Length("END")
  /\ IF n = 0 THEN Fresh(s) ELSE buffers[s].content = <<Piece(s, kind, 0, n)>>

(* The command is on its way, or was lost with the connection.             *)
Unanswered(s) ==
  /\ outbox[s] = <<>> /\ Fresh(s)
  /\ inbox[s] = IF open[s] THEN <<[request |-> request, type |-> type]>> ELSE <<>>

(* The reply is on its way, some of it was read, or all of it; what was    *)
(* not read may be lost with the connection.                               *)
Answering(s) ==
  /\ inbox[s] = <<>>
  /\ \E kind \in Kinds : \E n \in 0 .. Length(kind) :
       /\ Holds(s, kind, n)
       /\ \/ n < Length(kind) /\ outbox[s] = <<Piece(s, kind, n, Length(kind))>>
          \/ outbox[s] = <<>> /\ (n = Length(kind) \/ ~open[s])
       /\ kind = "STORED" => request \in stored[s]

Waiting(s) == Unanswered(s) \/ Answering(s)

IsError(replies, kinds) == \E s \in Servers, kind \in kinds : replies = <<Reply(s, kind)>>

(* What the first n responses have left.                                   *)
SetResponses(n) ==
  /\ \A j \in 1 .. n : Fresh(targets[j]) \/ targets[j] \in firstPositive
  /\ firstPositive \subseteq {targets[j] : j \in 1 .. n}
  /\ error # <<>> => IsError(error, Kinds \ {"STORED"})
  /\ error = <<>> =>
       /\ \A j \in 1 .. n : request \in stored[targets[j]]
       /\ \A s \in firstPositive : buffers[s].content = <<Reply(s, "STORED")>>
                                   /\ firstPositive = {s}

SingleResponse(n) ==
  /\ error = <<>> /\ firstPositive = {}
  /\ n = 1 => \E kind \in Kinds : buffers[targets[1]].content = <<Reply(targets[1], kind)>>

ShardedResponses(n) ==
  /\ firstPositive = {}
  /\ error # <<>> => IsError(error, Kinds)
  /\ error = <<>> /\ n > 0 =>
       /\ buffers[targets[1]].limit = Capacity
       /\ Len(buffers[targets[1]].content) = n
       /\ \A j \in 1 .. n : \E kind \in Kinds \cap {"END", "VALUE"} :
             buffers[targets[1]].content[j] = Reply(targets[j], kind)

Responses(n) ==
  CASE type = "SET"        -> SetResponses(n)
    [] type = "ShardedGET" -> ShardedResponses(n)
    [] OTHER               -> SingleResponse(n)

(* The servers whose responses are still to come, and those the request    *)
(* does not go to, have the buffers that a request finds.                  *)
Outstanding(first, last) == {targets[j] : j \in first .. last}

AtRest == \A s \in Servers : Silent(s) /\ Fresh(s)

Sending ==
  /\ error = <<>> /\ firstPositive = {}
  /\ \A s \in Servers : Fresh(s)
  /\ \A s \in Outstanding(1, next - 1) :
       Waiting(s) /\ (type = "ShardedGET" => buffers[s].limit = Capacity)
  /\ \A s \in Servers \ Outstanding(1, next - 1) : Silent(s)

Receiving ==
  /\ Responses(next - 1)
  /\ \A s \in Outstanding(next, Len(targets)) :
       Waiting(s) /\ (type = "ShardedGET" => buffers[s].limit = Capacity)
  /\ \A s \in Servers \ Outstanding(next, Len(targets)) : Silent(s)
  /\ \A s \in Servers \ Outstanding(1, next) : Fresh(s)

Replying ==
  /\ Responses(Len(targets))
  /\ \A s \in Servers : Silent(s)
  /\ \A s \in Servers \ Outstanding(1, Len(targets)) : Fresh(s)

InStep ==
  /\ pc = "idle" => AtRest
  /\ pc = "send" => Sending
  /\ pc = "receive" => Receiving
  /\ pc = "reply" => Replying

(* A server whose connection has broken and whose next response is never   *)
(* complete: no request that waits for it comes to its end.                *)
Dead(s) ==
  /\ ~open[s] /\ Silent(s) /\ Fresh(s)
  /\ pc = "receive" => s \notin Outstanding(1, next - 1)
  /\ pc = "reply" /\ type = "SET" => error # <<>>

Followed ==
  /\ pc = "stopped" \/ InStep \/ \E s \in Servers : Dead(s)
  /\ StoredEverywhere

(* No read ends behind what only looks like the end of a response: a data  *)
(* block whose last bytes are those of END.                                *)
EndsAreEnds == "data" \notin Cuts /\ ValueLength - Length("END") \notin Limits

-----------------------------------------------------------------------------
(* Types.                                                                  *)

(* NumServers - 1 steps of the ring lead past every server once. *)
LEMMA TurnsDiffer ==
  ASSUME NEW start \in Servers, NEW i \in 1 .. NumServers, NEW j \in 1 .. NumServers, i # j
  PROVE  ServerAfter(start, i - 1) # ServerAfter(start, j - 1)
<1>1. ASSUME NEW k \in 1 .. NumServers
      PROVE  ServerAfter(start, k - 1) =
                IF start + (k - 1) < NumServers THEN start + (k - 1)
                ELSE start + (k - 1) - NumServers
  BY <1>1, NumServersAssumption DEF Servers, ServerAfter
<1> QED  BY <1>1, NumServersAssumption DEF Servers

(* A request goes to at least one server, to none twice, a SET to all of   *)
(* them and a request that is not sharded to one.                          *)
LEMMA TargetsListed ==
  ASSUME NEW t \in Types, NEW order \in Targets(t)
  PROVE  /\ order \in Seq(Servers)
         /\ Len(order) \in 1 .. NumServers
         /\ \A i, j \in 1 .. Len(order) : i # j => order[i] # order[j]
         /\ t = "SET" => Len(order) = NumServers /\ \A s \in Servers : order[s + 1] = s
         /\ t \notin {"SET", "ShardedGET"} => Len(order) = 1
<1>1. CASE t = "SET"
  <2>1. order = [j \in 1 .. NumServers |-> j - 1]
    BY <1>1 DEF Targets
  <2> QED  BY <1>1, <2>1, NumServersAssumption DEF Servers
<1>2. CASE t = "ShardedGET"
  <2>1. PICK n \in 1 .. NumServers, start \in Servers :
            order = [j \in 1 .. n |-> ServerAfter(start, j - 1)]
    BY <1>2 DEF Targets
  <2>2. \A j \in 1 .. n : ServerAfter(start, j - 1) \in Servers
    BY <2>1, NumServersAssumption DEF ServerAfter, Servers
  <2>3. \A i, j \in 1 .. n : i # j => ServerAfter(start, i - 1) # ServerAfter(start, j - 1)
    BY <2>1, TurnsDiffer, NumServersAssumption
  <2>4. order \in Seq(Servers) /\ Len(order) = n
    BY <2>1, <2>2
  <2> QED  BY <1>2, <2>1, <2>3, <2>4
<1>3. CASE t \notin {"SET", "ShardedGET"}
  <2>1. PICK s \in Servers : order = <<s>>
    BY <1>3 DEF Targets
  <2> QED  BY <1>3, <2>1, NumServersAssumption DEF Servers
<1> QED  BY <1>1, <1>2, <1>3

(* The lengths of the replies. *)
LEMMA Lengths ==
  /\ Length("STORED") = 8 /\ Length("NOT_STORED") = 12
  /\ Length("END") = 5 /\ Length("ERROR") = 7
  /\ Length("SERVER_ERROR") = ErrorLength /\ Length("VALUE") = ValueLength
  /\ \A kind \in ReplyKinds : Length(kind) \in Nat /\ Length(kind) >= 5
  /\ Capacity \in Nat /\ Capacity > 6 /\ CommandLength \in Nat /\ LineLength \in Nat
  /\ LineLength > 5 /\ ValueLength \in Nat /\ ValueLength > LineLength + 7
<1>1. /\ Length("STORED") = 8 /\ Length("NOT_STORED") = 12
      /\ Length("END") = 5 /\ Length("ERROR") = 7
      /\ Length("SERVER_ERROR") = ErrorLength /\ Length("VALUE") = ValueLength
  BY DEF Length
<1>2. /\ Capacity \in Nat /\ CommandLength \in Nat /\ ErrorLength \in Nat /\ LineLength \in Nat
      /\ ValueLength \in Nat
      /\ CommandLength > 6 /\ ErrorLength > 14 /\ LineLength > 5 /\ ValueLength > LineLength + 7
      /\ Capacity >= CommandLength
  BY LengthAssumption
<1>3. \A kind \in ReplyKinds : Length(kind) \in Nat /\ Length(kind) >= 5
  BY <1>1, <1>2 DEF ReplyKinds
<1> QED  BY <1>1, <1>2, <1>3

(* While a request is at work it goes to one of its target lists.          *)
LEMMA AtTarget ==
  ASSUME Typed, pc \in {"send", "receive", "reply"}
  PROVE  /\ targets \in Seq(Servers) /\ Len(targets) \in 1 .. NumServers
         /\ \A i, j \in 1 .. Len(targets) : i # j => targets[i] # targets[j]
         /\ type = "SET" => Len(targets) = NumServers /\ \A s \in Servers : targets[s + 1] = s
         /\ type \notin {"SET", "ShardedGET"} => Len(targets) = 1
         /\ request \in Requests
         /\ type \in Types /\ targets \in Targets(type)
         /\ pc \in {"send", "receive"} => next \in 1 .. Len(targets)
<1>1. targets \in Targets(type) /\ type \in Types /\ request > 0 /\ request \in 0 .. MaxRequests
      /\ (pc \in {"send", "receive"} => next \in 1 .. Len(targets))
  BY DEF Typed, AtWork, HandlerTyped
<1>2. request \in Requests
  BY <1>1, BoundsAssumption DEF Requests
<1> QED  BY <1>1, <1>2, TargetsListed

(* The buffer of a server is a buffer, with what it has received.          *)
LEMMA BufferTyped ==
  ASSUME Typed, NEW s \in Servers
  PROVE  /\ buffers[s] \in ByteBuffers
         /\ buffers[s].content \in Seq(Replies)
         /\ buffers[s].position \in Int /\ buffers[s].limit \in Int
         /\ Received(buffers[s]) \in Seq(Replies)
<1>1. buffers[s] \in ByteBuffers
  BY DEF Typed, ChannelsTyped
<1>2. /\ buffers[s].content \in Seq(Replies)
      /\ buffers[s].position \in Int /\ buffers[s].limit \in Int
  BY <1>1 DEF ByteBuffers
<1> QED  BY <1>1, <1>2 DEF Received

(* A cleared buffer is an empty one that goes up to its capacity.          *)
LEMMA ClearedTyped ==
  /\ Cleared \in ByteBuffers
  /\ Cleared.content = <<>> /\ Cleared.position = 0 /\ Cleared.limit = Capacity
BY Lengths DEF Cleared, ByteBuffers

(* A buffer with some of its parts set. *)
LEMMA SetPosition ==
  ASSUME NEW b \in ByteBuffers, NEW p \in Int
  PROVE  /\ [b EXCEPT !.position = p] \in ByteBuffers
         /\ [b EXCEPT !.position = p].content = b.content
         /\ [b EXCEPT !.position = p].position = p
         /\ [b EXCEPT !.position = p].limit = b.limit
BY DEF ByteBuffers

(* The parts of the buffers the operations of ByteBuffer make.             *)
LEMMA BufferOperations ==
  ASSUME NEW b \in ByteBuffers
  PROVE  /\ Flipped(b) \in ByteBuffers
         /\ Flipped(b).content = b.content /\ Flipped(b).position = 0
         /\ Flipped(b).limit = b.position
         /\ Drained(b) \in ByteBuffers
         /\ Drained(b).position = b.limit /\ Drained(b).limit = b.limit
         /\ Opened(b) \in ByteBuffers
         /\ Opened(b).content = b.content /\ Opened(b).position = b.limit
         /\ Opened(b).limit = Capacity
<1>1. b.content \in Seq(Replies) /\ b.position \in Int /\ b.limit \in Int /\ Capacity \in Int
  BY Lengths DEF ByteBuffers
<1>2. /\ Flipped(b) \in ByteBuffers /\ Flipped(b).content = b.content
      /\ Flipped(b).position = 0 /\ Flipped(b).limit = b.position
  BY <1>1 DEF Flipped, ByteBuffers
<1>3. Drained(b) \in ByteBuffers /\ Drained(b).position = b.limit /\ Drained(b).limit = b.limit
  BY <1>1, SetPosition DEF Drained
<1>4. Opened(b) \in ByteBuffers
  BY <1>1 DEF Opened, ByteBuffers
<1>5. /\ Opened(b).content = b.content
      /\ Opened(b).position = b.limit /\ Opened(b).limit = Capacity
  BY <1>1 DEF Opened, ByteBuffers
<1> QED  BY <1>2, <1>3, <1>4, <1>5

(* What a read appends, and where. *)
LEMMA ReadParts ==
  ASSUME NEW b \in ByteBuffers, NEW reply \in Replies, NEW to \in Nat
  PROVE  /\ Read(b, reply, to) \in ByteBuffers
         /\ Read(b, reply, to).content = AddFragment(Received(b), [reply EXCEPT !.to = to])
         /\ Read(b, reply, to).position = b.position + to - reply.from
         /\ Read(b, reply, to).limit = b.limit
<1> DEFINE piece == [reply EXCEPT !.to = to]
           content == AddFragment(Received(b), piece)
<1>1. piece \in Replies
  BY DEF Replies
<1>2. b.content \in Seq(Replies) /\ b.position \in Int /\ b.limit \in Int /\ reply.from \in Nat
  BY DEF ByteBuffers, Replies
<1>3. Received(b) \in Seq(Replies)
  BY <1>2 DEF Received
<1>4. content \in Seq(Replies)
  <2> HIDE DEF piece
  <2> DEFINE got == Received(b)
  <2>1. Append(got, piece) \in Seq(Replies)
    BY <1>1, <1>3
  <2>2. CASE got # <<>>
    <3>1. Len(got) \in 1 .. Len(got) /\ got[Len(got)] \in Replies
      BY <1>3, <2>2
    <3>2. [got[Len(got)] EXCEPT !.to = piece.to] \in Replies
      BY <3>1, <1>1 DEF Replies
    <3>3. [got EXCEPT ![Len(got)].to = piece.to] \in Seq(Replies)
      BY <3>1, <3>2, <1>3
    <3> QED  BY <2>1, <3>3 DEF AddFragment
  <2>3. CASE got = <<>>
    BY <2>1, <2>3 DEF AddFragment
  <2> QED  BY <2>2, <2>3
<1> DEFINE end == b.position + to - reply.from
<1>5. end \in Int
  BY <1>2
<1>6. Read(b, reply, to) = [b EXCEPT !.content = content, !.position = end]
  BY DEF Read
<1> HIDE DEF content, end
<1>7. Read(b, reply, to) \in ByteBuffers
  BY <1>4, <1>5, <1>6 DEF ByteBuffers
<1>8. /\ Read(b, reply, to).content = content
      /\ Read(b, reply, to).position = end
      /\ Read(b, reply, to).limit = b.limit
  BY <1>6 DEF ByteBuffers
<1> QED  BY <1>7, <1>8 DEF content, end

(* Where a read may end: within the buffer and within the reply.           *)
LEMMA ReadEndsWithin ==
  ASSUME NEW b \in ByteBuffers, NEW reply \in Replies, Remaining(b) > 0,
         NEW to \in ReadEnds(b, reply)
  PROVE  /\ to \in Nat /\ to - reply.from <= Remaining(b)
         /\ reply.from < reply.to => to > reply.from
         /\ \/ to \in CutPoints(reply.kind) /\ to > reply.from
            \/ to = reply.to
            \/ to = reply.from + Remaining(b) /\ to < reply.to
            \/ \E c \in CutPoints(reply.kind) : to < c /\ to = reply.from + Remaining(b)
<1>1. Remaining(b) \in Int /\ reply.from \in Nat /\ reply.to \in Nat
  BY DEF Remaining, ByteBuffers, Replies
<1>2. CutPoints(reply.kind) \subseteq Nat
  <2>1. ValueLength - Length("END") \in Nat
    BY Lengths
  <2> QED  BY <2>1, Lengths DEF CutPoints
<1>3. PICK c \in {c \in CutPoints(reply.kind) : c > reply.from} \cup {reply.to} :
         to = IF c - reply.from <= Remaining(b) THEN c ELSE reply.from + Remaining(b)
  BY DEF ReadEnds
<1>4. c \in Nat
  BY <1>1, <1>2
<1>5. /\ to \in Nat /\ to - reply.from <= Remaining(b)
      /\ reply.from < reply.to => to > reply.from
  BY <1>1, <1>3, <1>4
<1>6. CASE c = reply.to
  BY <1>1, <1>3, <1>5, <1>6
<1>7. CASE c \in CutPoints(reply.kind) /\ c > reply.from
  BY <1>1, <1>3, <1>4, <1>5, <1>7
<1> QED  BY <1>5, <1>6, <1>7

(* The types hold at the start.                                            *)
LEMMA TypedInit == Init => Typed
<1> SUFFICES ASSUME Init PROVE Typed
  OBVIOUS
<1>1. /\ pc = "idle" /\ request = 0 /\ type = "GET" /\ next = 1 /\ hasRead = FALSE
      /\ error = <<>> /\ firstPositive = {} /\ status = "pending" /\ answer = <<>>
  BY DEF Init
<1>2. HandlerTyped
  <2>1. request \in 0 .. MaxRequests /\ next \in Nat
    BY <1>1, BoundsAssumption
  <2>2. /\ pc \in {"idle", "send", "receive", "reply", "stopped"}
        /\ status \in {"pending", "answered", "closed", "dropped"}
    BY <1>1
  <2>3. error \in Seq(Replies) /\ answer \in Seq(Replies) /\ firstPositive \subseteq Servers
    BY <1>1
  <2>4. type \in Types
    BY <1>1 DEF Types
  <2> QED  BY <1>1, <2>1, <2>2, <2>3, <2>4 DEF HandlerTyped
<1>3. ChannelsTyped
  <2>1. buffers \in [Servers -> ByteBuffers]
    BY ClearedTyped DEF Init
  <2>2. inbox \in [Servers -> Seq(Commands)] /\ outbox \in [Servers -> Seq(Replies)]
    BY DEF Init
  <2>3. open \in [Servers -> BOOLEAN] /\ stored \in [Servers -> SUBSET Requests]
    BY DEF Init
  <2> QED  BY <2>1, <2>2, <2>3 DEF ChannelsTyped
<1>4. AtWork
  BY <1>1 DEF AtWork
<1> QED  BY <1>2, <1>3, <1>4 DEF Typed

(* A task that is taken comes with the targets of its type.                *)
LEMMA TypedStart ==
  ASSUME Typed, NEW t \in Types, NEW order \in Targets(t), Start(t, order)
  PROVE  Typed'
<1>1. /\ pc' = "send" /\ request' = request + 1 /\ request < MaxRequests /\ type' = t
      /\ targets' = order /\ next' = 1 /\ hasRead' = FALSE /\ error' = <<>>
      /\ firstPositive' = {} /\ status' = "pending" /\ answer' = <<>>
  BY DEF Start
<1>2. HandlerTyped'
  <2>1. request' \in 0 .. MaxRequests
    BY <1>1, BoundsAssumption DEF Typed, HandlerTyped
  <2>2. /\ pc' \in {"idle", "send", "receive", "reply", "stopped"}
        /\ status' \in {"pending", "answered", "closed", "dropped"}
    BY <1>1
  <2>3. error' \in Seq(Replies) /\ answer' \in Seq(Replies) /\ firstPositive' \subseteq Servers
    BY <1>1
  <2>4. type' \in Types /\ next' \in Nat /\ hasRead' \in BOOLEAN
    BY <1>1
  <2> QED  BY <2>1, <2>2, <2>3, <2>4 DEF HandlerTyped
<1>3. ChannelsTyped'
  BY DEF Start, channels, Typed, ChannelsTyped
<1>4. AtWork'
  <2>1. 1 \in 1 .. Len(order)
    BY TargetsListed
  <2>2. request' > 0
    BY <1>1 DEF Typed, HandlerTyped
  <2> QED  BY <1>1, <2>1, <2>2 DEF AtWork
<1> QED  BY <1>2, <1>3, <1>4 DEF Typed

(* The two ways in which a task ends without an answer, and the buffer     *)
(* that is touched then.                                                   *)
LEMMA TypedTaskEnds ==
  ASSUME Typed, buffers' \in [Servers -> ByteBuffers], outbox' \in [Servers -> Seq(Replies)],
         UNCHANGED <<locals, next, hasRead, error, inbox, open, stored, answer>>,
         \/ pc' = "idle" /\ status' = "dropped"
         \/ pc # "idle" /\ pc' = "stopped" /\ status' = status
  PROVE  Typed'
<1>1. HandlerTyped'
  <2>1. /\ pc' \in {"idle", "send", "receive", "reply", "stopped"}
        /\ status' \in {"pending", "answered", "closed", "dropped"}
    BY DEF Typed, HandlerTyped
  <2>2. UNCHANGED <<request, type, firstPositive, next, hasRead, error, answer>>
    BY DEF locals
  <2> QED  BY <2>1, <2>2 DEF Typed, HandlerTyped
<1>2. ChannelsTyped'
  BY DEF Typed, ChannelsTyped
<1>3. AtWork'
  <2>1. pc' = "stopped" => status' = "pending"
    BY DEF Typed, AtWork
  <2>2. error' = error /\ type' = type
    BY DEF locals
  <2>3. (type = "SET" /\ error # <<>> => IsSetError(error))'
    BY <2>2 DEF Typed, AtWork, IsSetError
  <2> QED  BY <2>1, <2>3 DEF AtWork
<1> QED  BY <1>1, <1>2, <1>3 DEF Typed

(* A multi-GET without keys is counted as a request and dropped.           *)
LEMMA TypedNoKeys ==
  ASSUME Typed, NoKeys
  PROVE  Typed'
<1>1. /\ pc = "idle" /\ pc' = "idle" /\ ReadSharded /\ request < MaxRequests
      /\ request' = request + 1 /\ type' = "ShardedGET"
      /\ firstPositive' = {} /\ error' = <<>> /\ status' = "dropped" /\ answer' = <<>>
      /\ buffers' = [s \in Servers |-> Cleared]
      /\ UNCHANGED <<next, hasRead, inbox, outbox, open, stored>>
  BY DEF NoKeys, channels
<1>2. HandlerTyped'
  <2>1. request' \in 0 .. MaxRequests
    BY <1>1, BoundsAssumption DEF Typed, HandlerTyped
  <2>2. error' \in Seq(Replies) /\ answer' \in Seq(Replies) /\ firstPositive' \subseteq Servers
    BY <1>1
  <2>3. type' \in Types
    BY <1>1 DEF Types
  <2> QED  BY <1>1, <2>1, <2>2, <2>3 DEF Typed, HandlerTyped
<1>3. ChannelsTyped'
  BY <1>1, ClearedTyped DEF Typed, ChannelsTyped
<1>4. AtWork'
  BY <1>1 DEF AtWork
<1> QED  BY <1>2, <1>3, <1>4 DEF Typed

(* What a server reads behind what was left in a buffer are commands.      *)
LEMMA SpoiltCommands ==
  ASSUME Command \in Commands, NEW b \in ByteBuffers
  PROVE  SpoiltCommand(b) \in Seq(Commands)
<1> DEFINE unknown == [Command EXCEPT !.type = "unknown"]
           values == {i \in DOMAIN b.content : b.content[i].kind = "VALUE"}
           lines == IF b.position < Length("END") THEN 1 ELSE 2 * Cardinality(values)
           rest == IF b.position = 1 THEN <<>> ELSE <<Command>>
<1>1. unknown \in Commands
  BY DEF Commands
<1>2. lines \in Nat
  <2>1. b.content \in Seq(Replies)
    BY DEF ByteBuffers
  <2>2. IsFiniteSet(1 .. Len(b.content))
    BY <2>1, FS_Interval
  <2>3. values \subseteq 1 .. Len(b.content)
    BY <2>1
  <2>4. Cardinality(values) \in Nat
    BY <2>2, <2>3, FS_Subset, FS_CardinalityType
  <2> QED  BY <2>4
<1>3. rest \in Seq(Commands)
  <2>1. <<>> \in Seq(Commands) /\ <<Command>> \in Seq(Commands)
    OBVIOUS
  <2> QED  BY <2>1
<1> HIDE DEF unknown, lines, rest
<1>4. [i \in 1 .. lines |-> unknown] \in Seq(Commands)
  BY <1>1, <1>2
<1>5. SpoiltCommand(b) = [i \in 1 .. lines |-> unknown] \o rest
  BY DEF SpoiltCommand, unknown, lines, rest
<1> QED  BY <1>3, <1>4, <1>5

(* Sending a command, and failing to, keeps the types.                     *)
LEMMA TypedSend ==
  ASSUME Typed, NEW s \in Servers,
         SendCommand(s) \/ CommandOverflows(s) \/ SetSendFails(s) \/ GetSendFails(s)
  PROVE  Typed'
<1>1. CASE SendCommand(s)
  <2>1. /\ UNCHANGED <<request, type, targets, firstPositive, hasRead, error, outbox, open,
                       stored, status, answer>>
        /\ pc = "send"
        /\ \/ LastTarget /\ pc' = "receive" /\ next' = 1
           \/ ~LastTarget /\ pc' = "send" /\ next' = next + 1
    BY <1>1 DEF SendCommand, locals
  <2>2. next' \in 1 .. Len(targets)
    BY <2>1, AtTarget DEF LastTarget
  <2>3. next' \in Nat
    BY <2>1, AtTarget
  <2>4. HandlerTyped'
    BY <2>1, <2>3 DEF Typed, HandlerTyped
  <2>5. buffers' \in [Servers -> ByteBuffers]
    BY <1>1, ClearedTyped DEF SendCommand, Typed, ChannelsTyped
  <2>6. inbox' \in [Servers -> Seq(Commands)]
    <3>1. Command \in Commands
      BY <2>1, AtTarget DEF Commands, Command
    <3>2. Append(inbox[s], Command) \in Seq(Commands)
      BY <3>1 DEF Typed, ChannelsTyped
    <3>3. inbox[s] \o SpoiltCommand(buffers[s]) \in Seq(Commands)
      BY <3>1, SpoiltCommands, BufferTyped DEF Typed, ChannelsTyped
    <3> QED  BY <1>1, <3>2, <3>3 DEF SendCommand, Typed, ChannelsTyped
  <2>7. ChannelsTyped'
    BY <2>1, <2>5, <2>6 DEF Typed, ChannelsTyped
  <2>8. AtWork'
    <3>1. targets' \in Targets(type') /\ request' > 0
      BY <2>1 DEF Typed, AtWork
    <3>2. status' = "pending" /\ error' = error /\ type' = type
      BY <2>1 DEF Typed, AtWork
    <3>3. (type = "SET" /\ error # <<>> => IsSetError(error))'
      BY <3>2 DEF Typed, AtWork, IsSetError
    <3> QED  BY <2>1, <2>2, <3>1, <3>2, <3>3 DEF AtWork
  <2> QED  BY <2>4, <2>7, <2>8 DEF Typed
<1>2. CASE CommandOverflows(s)
  BY <1>2, TypedTaskEnds DEF CommandOverflows, TaskDies, channels, Typed, ChannelsTyped
<1>3. CASE SetSendFails(s)
  <2>1. /\ UNCHANGED <<request, type, targets, firstPositive, next, hasRead, buffers, inbox,
                       outbox, open, stored, status, answer>>
        /\ pc = "send" /\ pc' = "reply" /\ type = "SET"
        /\ error' = <<[server |-> -1, request |-> request, kind |-> "SERVER_ERROR",
                       from |-> 0, to |-> ErrorLength]>>
    BY <1>3 DEF SetSendFails, locals, channels
  <2>2. error' \in Seq(Replies)
    <3>1. [server |-> -1, request |-> request, kind |-> "SERVER_ERROR",
           from |-> 0, to |-> ErrorLength] \in Replies
      BY <2>1, AtTarget, Lengths, LengthAssumption DEF Replies, ReplyKinds
    <3> QED  BY <2>1, <3>1
  <2>3. HandlerTyped'
    BY <2>1, <2>2 DEF Typed, HandlerTyped
  <2>4. ChannelsTyped'
    BY <2>1 DEF Typed, ChannelsTyped
  <2>5. AtWork'
    <3>1. targets' \in Targets(type') /\ request' > 0 /\ status' = "pending"
      BY <2>1 DEF Typed, AtWork
    <3>2. IsSetError(error') /\ error' # <<>>
      BY <2>1 DEF IsSetError
    <3>3. IsSetError(error)'
      BY <3>2 DEF IsSetError
    <3> QED  BY <2>1, <3>1, <3>2, <3>3 DEF AtWork
  <2> QED  BY <2>3, <2>4, <2>5 DEF Typed
<1>4. CASE GetSendFails(s)
  BY <1>4, TypedTaskEnds DEF GetSendFails, ShutdownMW, channels, Typed, ChannelsTyped
<1> QED  BY <1>1, <1>2, <1>3, <1>4

(* What a step of the handler finds in the buffer of server s.             *)
LEMMA AtServer ==
  ASSUME Typed, NEW s \in Servers, pc = "receive", s = targets[next]
  PROVE  /\ next \in 1 .. Len(targets) /\ Len(targets) \in Nat /\ targets[1] \in Servers
         /\ request \in Requests /\ status = "pending"
<1>1. targets \in Seq(Servers) /\ Len(targets) \in 1 .. NumServers
  BY AtTarget
<1>2. 1 \in 1 .. Len(targets)
  BY <1>1
<1>3. targets[1] \in Servers
  BY <1>1, <1>2
<1> QED  BY <1>1, <1>3, AtTarget DEF Typed, AtWork

(* A read puts a piece of the reply into the buffer and leaves the rest on *)
(* the connection.                                                         *)
LEMMA ReceiveTyped ==
  ASSUME Typed, NEW s \in Servers, outbox[s] # <<>>, Remaining(buffers[s]) > 0,
         NEW to \in ReadEnds(buffers[s], Head(outbox[s])), Receive(s, to)
  PROVE  /\ buffers' \in [Servers -> ByteBuffers] /\ outbox' \in [Servers -> Seq(Replies)]
<1> DEFINE reply == Head(outbox[s])
<1>1. outbox[s] \in Seq(Replies) /\ buffers \in [Servers -> ByteBuffers]
      /\ outbox \in [Servers -> Seq(Replies)]
  BY DEF Typed, ChannelsTyped
<1>2. reply \in Replies /\ Tail(outbox[s]) \in Seq(Replies)
      /\ outbox[s][1] \in Replies
  BY <1>1
<1>3. to \in Nat
  BY <1>1, <1>2, ReadEndsWithin
<1>4. buffers' = [buffers EXCEPT ![s] = Read(buffers[s], reply, to)]
  BY <1>1 DEF Receive
<1>5. Read(buffers[s], reply, to) \in ByteBuffers
  BY <1>1, <1>2, <1>3, ReadParts
<1>6. outbox' \in [Servers -> Seq(Replies)]
  <2>1. CASE to = reply.to
    BY <1>1, <1>2, <2>1 DEF Receive
  <2>2. CASE to # reply.to
    <3>1. [outbox[s] EXCEPT ![1].from = to] \in Seq(Replies)
      <4>1. [outbox[s][1] EXCEPT !.from = to] \in Replies
        BY <1>2, <1>3 DEF Replies
      <4> QED  BY <1>1, <4>1
    <3> QED  BY <1>1, <2>2, <3>1 DEF Receive
  <2> QED  BY <2>1, <2>2
<1> QED  BY <1>1, <1>4, <1>5, <1>6

(* Reading a reply, and failing to, keeps the types.                       *)
LEMMA TypedRead ==
  ASSUME Typed, NEW s \in Servers, ReadReply(s) \/ ReadTooShort(s) \/ ReadFails(s)
  PROVE  Typed'
<1>1. CASE ReadReply(s)
  <2>1. /\ UNCHANGED <<pc, request, type, targets, firstPositive, next, error, inbox, open,
                       stored, status, answer>>
        /\ hasRead' = TRUE
        /\ outbox[s] # <<>> /\ Remaining(buffers[s]) > 0
    BY <1>1 DEF ReadReply, Readable, locals
  <2>2. buffers' \in [Servers -> ByteBuffers] /\ outbox' \in [Servers -> Seq(Replies)]
    BY <1>1, <2>1, ReceiveTyped DEF ReadReply
  <2>3. HandlerTyped'
    BY <2>1 DEF Typed, HandlerTyped
  <2>4. ChannelsTyped'
    BY <2>1, <2>2 DEF Typed, ChannelsTyped
  <2>5. AtWork'
    BY <2>1 DEF Typed, AtWork, IsSetError
  <2> QED  BY <2>3, <2>4, <2>5 DEF Typed
<1>2. CASE ReadTooShort(s)
  <2>1. buffers' \in [Servers -> ByteBuffers] /\ outbox' \in [Servers -> Seq(Replies)]
    BY <1>2, ReceiveTyped DEF ReadTooShort, Readable
  <2>2. /\ UNCHANGED <<locals, next, hasRead, error, inbox, open, stored, answer>>
        /\ pc' = "idle" /\ status' = "dropped"
    BY <1>2 DEF ReadTooShort
  <2> QED  BY <2>1, <2>2, TypedTaskEnds
<1>3. CASE ReadFails(s)
  BY <1>3, TypedTaskEnds DEF ReadFails, ShutdownMW, channels, Typed, ChannelsTyped
<1> QED  BY <1>1, <1>2, <1>3

(* A response that does not end the task: the buffers change, the error    *)
(* and the first positive response may be set.                             *)
LEMMA TypedResponse ==
  ASSUME Typed, NEW s \in Servers, pc = "receive", s = targets[next], NEW all \in BOOLEAN,
         ~all => next # Len(targets),
         buffers' \in [Servers -> ByteBuffers], WaitForNext(all),
         error' = error \/ error' = Response(s), firstPositive' = firstPositive \/ firstPositive' = {s},
         type = "SET" => /\ error' # <<>> => IsSetError(error')
                         /\ error' = <<>> => firstPositive' # {},
         UNCHANGED <<request, type, targets, channels, status, answer>>
  PROVE  Typed'
<1>1. /\ next \in 1 .. Len(targets) /\ Len(targets) \in Nat /\ status = "pending"
      /\ targets \in Targets(type) /\ request > 0
  BY AtServer DEF Typed, AtWork
<1>2. /\ hasRead' = FALSE
      /\ \/ all /\ pc' = "reply" /\ next' = next
         \/ ~all /\ pc' = "receive" /\ next' = next + 1
  BY DEF WaitForNext
<1>3. next' \in Nat /\ (pc' = "receive" => next' \in 1 .. Len(targets))
  BY <1>1, <1>2
<1>4. error' \in Seq(Replies)
  BY BufferTyped DEF Response, Typed, HandlerTyped
<1>5. HandlerTyped'
  <2>1. pc' \in {"idle", "send", "receive", "reply", "stopped"} /\ hasRead' \in BOOLEAN
    BY <1>2
  <2>2. firstPositive' \subseteq Servers
    BY DEF Typed, HandlerTyped
  <2> QED  BY <1>3, <1>4, <2>1, <2>2 DEF Typed, HandlerTyped
<1>6. ChannelsTyped'
  BY DEF Typed, ChannelsTyped, channels
<1>7. AtWork'
  <2>1. (IsSetError(error))' <=> IsSetError(error')
    BY DEF IsSetError
  <2>2. pc' \in {"reply", "receive"}
    BY <1>2
  <2> QED  BY <1>1, <1>3, <2>1, <2>2 DEF AtWork
<1> QED  BY <1>5, <1>6, <1>7 DEF Typed

(* A step that changes the buffer of one server leaves the others alone.   *)
LEMMA OneBuffer ==
  ASSUME Typed, NEW s \in Servers, NEW b \in ByteBuffers, buffers' = [buffers EXCEPT ![s] = b]
  PROVE  /\ buffers' \in [Servers -> ByteBuffers] /\ buffers'[s] = b
         /\ \A r \in Servers : r # s => buffers'[r] = buffers[r]
BY DEF Typed, ChannelsTyped

(* A response to a SET or to a GET of one server keeps the types.          *)
LEMMA TypedSingle ==
  ASSUME Typed, NEW s \in Servers,
         SetResponse(s) \/ GetResponse(s) \/ NonshardedResponse(s)
  PROVE  Typed'
<1>1. buffers[s] \in ByteBuffers
  BY BufferTyped
<1>2. CASE SetResponse(s)
  <2>1. /\ pc = "receive" /\ s = targets[next] /\ type = "SET"
        /\ buffers' = [buffers EXCEPT ![s] = SetBuffer(s)]
        /\ error' = IF error = <<>> /\ IsSetError(Response(s)) THEN Response(s) ELSE error
        /\ firstPositive' = IF error' = <<>> /\ firstPositive = {} THEN {s} ELSE firstPositive
        /\ WaitForNext(LastTarget)
        /\ UNCHANGED <<request, type, targets, channels, status, answer>>
    BY <1>2 DEF SetResponse, Responded, ReceivedAll
  <2>2. SetBuffer(s) \in ByteBuffers
    BY <1>1, BufferOperations, ClearedTyped DEF SetBuffer
  <2>3. error' # <<>> => IsSetError(error')
    BY <2>1 DEF Typed, AtWork
  <2>4. error' = <<>> => firstPositive' # {}
    BY <2>1
  <2> QED  BY <2>1, <2>2, <2>3, <2>4, OneBuffer, TypedResponse DEF LastTarget
<1>3. CASE GetResponse(s) \/ NonshardedResponse(s)
  <2>1. /\ pc = "receive" /\ s = targets[next] /\ type # "SET"
        /\ buffers' = [buffers EXCEPT ![s] = Flipped(buffers[s])]
        /\ WaitForNext(TRUE)
        /\ UNCHANGED <<request, type, targets, firstPositive, error, channels, status, answer>>
    BY <1>1, <1>3 DEF GetResponse, NonshardedResponse, Responded, locals, Typed, ChannelsTyped
  <2> QED  BY <1>1, <2>1, OneBuffer, BufferOperations, TypedResponse
<1> QED  BY <1>2, <1>3

(* A response that makes the thread drop its task keeps the types.         *)
LEMMA TypedDrops ==
  ASSUME Typed, NEW s \in Servers,
         UncountableResponse(s) \/ UnparsableResponse(s) \/ ShardedOverflow(s)
  PROVE  Typed'
<1>1. buffers[s] \in ByteBuffers /\ buffers \in [Servers -> ByteBuffers]
  BY BufferTyped DEF Typed, ChannelsTyped
<1>2. outbox \in [Servers -> Seq(Replies)]
  BY DEF Typed, ChannelsTyped
<1>3. CASE UncountableResponse(s)
  <2> DEFINE first == Response(s)[1]
  <2>1. Response(s) # <<>>
    BY <1>3 DEF UncountableResponse, Responded, receivedValidResponse, Response
  <2>2. first \in Replies
    BY <2>1, BufferTyped DEF Response
  <2>3. <<first>> \in Seq(Replies) /\ first.to - first.from \in Int
        /\ buffers[s].position \in Int
    BY <2>2, BufferTyped DEF Replies
  <2> DEFINE b == [content |-> <<first>>, position |-> first.to - first.from,
                   limit |-> buffers[s].position]
  <2>4. b \in ByteBuffers
    BY <2>3 DEF ByteBuffers
  <2>5. buffers' = [buffers EXCEPT ![s] = b]
    BY <1>1, <1>3 DEF UncountableResponse
  <2> HIDE DEF b
  <2>6. buffers' \in [Servers -> ByteBuffers]
    BY <1>1, <2>4, <2>5
  <2> QED  BY <1>2, <1>3, <2>6, TypedTaskEnds DEF UncountableResponse, TaskDies, channels
<1>4. CASE UnparsableResponse(s)
  BY <1>1, <1>2, <1>4, TypedTaskEnds DEF UnparsableResponse, ShutdownMW, channels, Responded
<1>5. CASE ShardedOverflow(s)
  <2>1. pc = "receive" /\ s = targets[next]
    BY <1>5 DEF ShardedOverflow, Responded
  <2>2. targets[1] \in Servers
    BY <2>1, AtServer
  <2>3. s # targets[1]
    BY <1>5, <2>1, AtServer, AtTarget DEF ShardedOverflow, ResponseFits
  <2> DEFINE flipped == Flipped(buffers[s])
             first == buffers[targets[1]]
             end == first.position - Length("END")
             moved == [first EXCEPT !.position = end]
  <2>4. flipped \in ByteBuffers /\ moved \in ByteBuffers
    <3>1. first \in ByteBuffers /\ end \in Int
      BY <1>1, <2>2, Lengths DEF ByteBuffers
    <3> QED  BY <1>1, <3>1, BufferOperations, SetPosition
  <2>5. buffers' = [buffers EXCEPT ![s] = flipped, ![targets[1]] = moved]
    BY <1>5, <2>3 DEF ShardedOverflow
  <2> HIDE DEF flipped, moved
  <2>8. buffers' \in [Servers -> ByteBuffers]
    BY <1>1, <2>2, <2>4, <2>5
  <2> QED  BY <1>2, <1>5, <2>8, TypedTaskEnds DEF ShardedOverflow, TaskDies, channels
<1> QED  BY <1>3, <1>4, <1>5

(* What is appended to the first response. *)
LEMMA AddParts ==
  ASSUME Typed, NEW final \in ByteBuffers, NEW s \in Servers
  PROVE  /\ AddResponse(final, s) \in ByteBuffers
         /\ AddResponse(final, s).content = final.content \o Response(s)
         /\ AddResponse(final, s).position = final.position - Length("END") + buffers[s].position
         /\ AddResponse(final, s).limit = final.limit
<1> DEFINE content == final.content \o Response(s)
           end == final.position - Length("END") + buffers[s].position
<1>1. content \in Seq(Replies)
  BY BufferTyped DEF Response, ByteBuffers
<1>2. end \in Int
  BY BufferTyped, Lengths DEF ByteBuffers
<1>3. AddResponse(final, s) = [final EXCEPT !.content = content, !.position = end]
  BY DEF AddResponse
<1> HIDE DEF content, end
<1>4. AddResponse(final, s) \in ByteBuffers
  BY <1>1, <1>2, <1>3 DEF ByteBuffers
<1>5. /\ AddResponse(final, s).content = content
      /\ AddResponse(final, s).position = end
      /\ AddResponse(final, s).limit = final.limit
  BY <1>3 DEF ByteBuffers
<1> QED  BY <1>4, <1>5 DEF content, end

(* The buffers a response to a sharded read leaves. *)
LEMMA FinalParts ==
  ASSUME Typed, NEW s \in Servers, pc = "receive", s = targets[next]
  PROVE  /\ FinalResponse(s) \in [Servers -> ByteBuffers]
         /\ next = 1 => FinalResponse(s)[s] = Opened(Flipped(buffers[s]))
         /\ next # 1 => /\ FinalResponse(s)[targets[1]] = AddResponse(buffers[targets[1]], s)
                        /\ FinalResponse(s)[s] = Drained(Flipped(buffers[s]))
         /\ \A r \in Servers : r \notin {s, targets[1]} => FinalResponse(s)[r] = buffers[r]
<1>1. /\ buffers[s] \in ByteBuffers /\ buffers \in [Servers -> ByteBuffers]
      /\ targets[1] \in Servers /\ buffers[targets[1]] \in ByteBuffers
  BY BufferTyped, AtServer
     DEF Typed, ChannelsTyped
<1>2. CASE next = 1
  <2>1. Opened(Flipped(buffers[s])) \in ByteBuffers
    BY <1>1, BufferOperations
  <2>2. FinalResponse(s) = [buffers EXCEPT ![s] = Opened(Flipped(buffers[s]))]
    BY <1>1, <1>2 DEF FinalResponse
  <2> QED  BY <1>1, <1>2, <2>1, <2>2
<1>3. CASE next # 1
  <2> DEFINE added == AddResponse(buffers[targets[1]], s)
             drained == Drained(Flipped(buffers[s]))
  <2>1. added \in ByteBuffers /\ drained \in ByteBuffers
    BY <1>1, AddParts, BufferOperations
  <2>2. s # targets[1]
    BY <1>3, AtTarget, AtServer
  <2>3. FinalResponse(s) = [buffers EXCEPT ![targets[1]] = added, ![s] = drained]
    BY <1>1, <1>3, <2>2 DEF FinalResponse
  <2> HIDE DEF added, drained
  <2> QED  BY <1>1, <1>3, <2>1, <2>2, <2>3 DEF added, drained
<1> QED  BY <1>2, <1>3

(* A response to a sharded multi-GET keeps the types.                      *)
LEMMA TypedSharded ==
  ASSUME Typed, NEW s \in Servers, ShardedResponse(s) \/ ShardedError(s)
  PROVE  Typed'
<1>1. CASE ShardedResponse(s)
  <2>1. /\ pc = "receive" /\ s = targets[next] /\ type # "SET"
        /\ buffers' = FinalResponse(s)
        /\ WaitForNext(LastTarget)
        /\ UNCHANGED <<request, type, targets, firstPositive, error, channels, status, answer>>
    BY <1>1 DEF ShardedResponse, Responded, locals, ReceivedAll
  <2> QED  BY <2>1, FinalParts, TypedResponse DEF LastTarget
<1>2. CASE ShardedError(s)
  <2>1. /\ pc = "receive" /\ s = targets[next] /\ type # "SET"
        /\ buffers' = [buffers EXCEPT ![s] = Flipped(buffers[s])]
        /\ error' = IF error = <<>> THEN Response(s) ELSE error
        /\ WaitForNext(LastTarget)
        /\ UNCHANGED <<request, type, targets, firstPositive, channels, status, answer>>
    BY <1>2 DEF ShardedError, Responded, locals, ReceivedAll, Typed, ChannelsTyped
  <2>2. buffers' \in [Servers -> ByteBuffers]
    BY <2>1, OneBuffer, BufferOperations, BufferTyped
  <2> QED  BY <2>1, <2>2, TypedResponse DEF LastTarget
<1> QED  BY <1>1, <1>2

(* The server whose buffer holds what the client of a SET is given.        *)
LEMMA FirstPositive ==
  ASSUME Typed, pc = "reply", type = "SET", error = <<>>
  PROVE  (CHOOSE s \in firstPositive : TRUE) \in firstPositive
                /\ (CHOOSE s \in firstPositive : TRUE) \in Servers
<1>1. firstPositive # {} /\ firstPositive \subseteq Servers
  BY DEF Typed, AtWork, HandlerTyped
<1> QED  BY <1>1

(* Replying to a client, and finding it gone, keeps the types.             *)
LEMMA TypedReply ==
  ASSUME Typed, ReplyToClient \/ ClientGone
  PROVE  Typed'
<1>1. /\ pc = "reply" /\ pc' = "idle" /\ status' \in {"answered", "closed"}
      /\ answer' = answer \/ answer' = Answer
      /\ buffers' = AfterAnswer
      /\ UNCHANGED <<request, type, targets, firstPositive, next, hasRead, error, inbox, outbox,
                     open, stored>>
  BY DEF ReplyToClient, ClientGone, locals, channels
<1>2. Answer \in Seq(Replies)
  <2>1. CASE error # <<>>
    BY <2>1 DEF Answer, Typed, HandlerTyped
  <2>2. CASE error = <<>> /\ type = "SET"
    BY <1>1, <2>2, FirstPositive, BufferTyped DEF Answer
  <2>3. CASE error = <<>> /\ type # "SET"
    <3>1. targets \in Seq(Servers) /\ Len(targets) \in 1 .. NumServers
      BY <1>1, AtTarget
    <3>2. targets[1] \in Servers
      BY <3>1
    <3> QED  BY <2>3, <3>2, BufferTyped DEF Answer
  <2> QED  BY <2>1, <2>2, <2>3
<1>3. HandlerTyped'
  <2>1. pc' \in {"idle", "send", "receive", "reply", "stopped"}
        /\ status' \in {"pending", "answered", "closed", "dropped"}
    BY <1>1
  <2> QED  BY <1>1, <1>2, <2>1 DEF Typed, HandlerTyped
<1>4. ChannelsTyped'
  <2>1. buffers' \in [Servers -> ByteBuffers]
    BY <1>1, ClearedTyped, BufferTyped DEF AfterAnswer
  <2> QED  BY <1>1, <2>1 DEF Typed, ChannelsTyped
<1>5. AtWork'
  BY <1>1 DEF Typed, AtWork, IsSetError
<1> QED  BY <1>3, <1>4, <1>5 DEF Typed

(* The statistic that throws over an answer, and the one that shuts the    *)
(* middleware down, keep the types.                                        *)
LEMMA TypedCount ==
  ASSUME Typed, CountFails \/ CountStops
  PROVE  Typed'
<1>1. AfterAnswer \in [Servers -> ByteBuffers]
  BY ClearedTyped, BufferTyped DEF AfterAnswer
<1>2. outbox \in [Servers -> Seq(Replies)] /\ buffers \in [Servers -> ByteBuffers]
  BY DEF Typed, ChannelsTyped
<1>3. CASE CountFails
  BY <1>1, <1>2, <1>3, TypedTaskEnds DEF CountFails, channels
<1>4. CASE CountStops
  BY <1>2, <1>4, TypedTaskEnds DEF CountStops, Counting, ShutdownMW, channels
<1> QED  BY <1>3, <1>4

(* The servers and the loss of their connections keep the types.           *)
LEMMA TypedServers ==
  ASSUME Typed, NEW s \in Servers,
         \/ \E kind \in ReplyKinds : ServerAnswers(s, kind)
         \/ \E keep \in BOOLEAN : ConnectionLost(s, keep)
  PROVE  Typed'
<1>1. /\ inbox \in [Servers -> Seq(Commands)] /\ outbox \in [Servers -> Seq(Replies)]
      /\ open \in [Servers -> BOOLEAN] /\ stored \in [Servers -> SUBSET Requests]
      /\ buffers \in [Servers -> ByteBuffers]
  BY DEF Typed, ChannelsTyped
<1>2. CASE \E kind \in ReplyKinds : ServerAnswers(s, kind)
  <2>1. PICK kind \in ReplyKinds : ServerAnswers(s, kind)
    BY <1>2
  <2> DEFINE command == Head(inbox[s])
             reply == [server |-> s, request |-> command.request, kind |-> kind,
                       from |-> 0, to |-> Length(kind)]
  <2>2. command \in Commands /\ Tail(inbox[s]) \in Seq(Commands)
    BY <1>1, <2>1 DEF ServerAnswers
  <2>3. command.request \in Requests
    BY <2>2 DEF Commands
  <2>4. reply \in Replies
    BY <2>3, Lengths DEF Replies
  <2>5. Append(outbox[s], reply) \in Seq(Replies)
    BY <1>1, <2>4
  <2>6. inbox' = [inbox EXCEPT ![s] = Tail(inbox[s])]
        /\ outbox' = [outbox EXCEPT ![s] = Append(outbox[s], reply)]
        /\ (stored' = stored \/ stored' = [stored EXCEPT ![s] = stored[s] \cup {command.request}])
        /\ UNCHANGED <<pc, locals, next, hasRead, error, buffers, open, status, answer>>
    BY <1>1, <2>1 DEF ServerAnswers
  <2> HIDE DEF command, reply
  <2>7. ChannelsTyped'
    <3>1. inbox' \in [Servers -> Seq(Commands)]
      BY <1>1, <2>2, <2>6
    <3>2. outbox' \in [Servers -> Seq(Replies)]
      BY <1>1, <2>5, <2>6
    <3>3. stored' \in [Servers -> SUBSET Requests]
      <4>1. PICK more : more = stored[s] \cup {command.request}
        OBVIOUS
      <4>2. stored \in [Servers -> SUBSET Requests] /\ more \in SUBSET Requests
        BY <1>1, <2>3, <4>1
      <4>3. stored' = stored \/ stored' = [stored EXCEPT ![s] = more]
        BY <2>6, <4>1
      <4> QED  BY ONLY <4>2, <4>3
    <3> QED  BY <1>1, <2>6, <3>1, <3>2, <3>3 DEF ChannelsTyped
  <2>8. HandlerTyped' /\ AtWork'
    BY <2>6 DEF locals, Typed, HandlerTyped, AtWork, IsSetError
  <2> QED  BY <2>7, <2>8 DEF Typed
<1>3. CASE \E keep \in BOOLEAN : ConnectionLost(s, keep)
  <2>1. PICK keep \in BOOLEAN : ConnectionLost(s, keep)
    BY <1>3
  <2>2. /\ open' = [open EXCEPT ![s] = FALSE] /\ inbox' = [inbox EXCEPT ![s] = <<>>]
        /\ (outbox' = outbox \/ outbox' = [outbox EXCEPT ![s] = <<>>])
        /\ UNCHANGED <<pc, locals, next, hasRead, error, buffers, stored, status, answer>>
    BY <1>1, <2>1 DEF ConnectionLost
  <2>3. ChannelsTyped'
    <3>1. open' \in [Servers -> BOOLEAN]
      BY <1>1, <2>2
    <3>2. inbox' \in [Servers -> Seq(Commands)]
      BY <1>1, <2>2
    <3>3. outbox' \in [Servers -> Seq(Replies)]
      <4>1. outbox' = outbox \/ outbox' = [outbox EXCEPT ![s] = <<>>]
        BY <2>2
      <4>2. outbox \in [Servers -> Seq(Replies)] /\ <<>> \in Seq(Replies)
        BY <1>1
      <4> HIDE <2>1, <2>2
      <4> QED  BY <4>1, <4>2
    <3> QED  BY <1>1, <2>2, <3>1, <3>2, <3>3 DEF ChannelsTyped
  <2>4. HandlerTyped' /\ AtWork'
    BY <2>2 DEF locals, Typed, HandlerTyped, AtWork, IsSetError
  <2> QED  BY <2>3, <2>4 DEF Typed
<1> QED  BY <1>2, <1>3

(* One case per action: what a step of the handlers is. *)
LEMMA TypedNext == Typed /\ [Next]_vars => Typed'
<1> SUFFICES ASSUME Typed, [Next]_vars PROVE Typed'
  OBVIOUS
<1>1. ASSUME NEW t \in Types, NEW order \in Targets(t), Start(t, order) PROVE Typed'
  BY <1>1, TypedStart
<1>2. ASSUME NEW s \in Servers, Handle(s) PROVE Typed'
  BY <1>2, TypedSend, TypedRead, TypedSingle, TypedDrops, TypedSharded DEF Handle
<1>3. CASE ReplyToClient \/ ClientGone \/ NoKeys \/ CountFails \/ CountStops
  BY <1>3, TypedReply, TypedNoKeys, TypedCount
<1>4. ASSUME NEW s \in Servers, NEW kind \in ReplyKinds, ServerAnswers(s, kind) PROVE Typed'
  BY <1>4, TypedServers
<1>5. ASSUME NEW s \in Servers, NEW keep \in BOOLEAN, ConnectionLost(s, keep) PROVE Typed'
  BY <1>5, TypedServers
<1>6. CASE UNCHANGED vars
  <2>1. UNCHANGED <<pc, request, type, targets, firstPositive, next, hasRead, error, buffers,
                    inbox, outbox, open, stored, status, answer>>
    BY <1>6 DEF vars, locals, channels
  <2> QED  BY <2>1 DEF Typed, HandlerTyped, ChannelsTyped, AtWork, IsSetError
<1> QED  BY <1>1, <1>2, <1>3, <1>4, <1>5, <1>6 DEF Next

(* The types hold in every behaviour, whatever the constants are.          *)
LEMMA TypedAlways == Spec => []Typed
BY TypedInit, TypedNext, PTL DEF Spec

-----------------------------------------------------------------------------
(* In step: what a wait finds.                                             *)

(* What a server may reply to the request is a reply; STORED is for SETs   *)
(* only.                                                                   *)
LEMMA KindsAreReplies ==
  /\ Kinds \subseteq ReplyKinds
  /\ type = "SET" => Kinds = SetReplies
  /\ type # "SET" => Kinds = GetReplies /\ "STORED" \notin Kinds
BY RepliesAssumption DEF Kinds, ReplyKinds

(* A buffer that is as a request finds it holds no response. *)
LEMMA FreshIsEmpty ==
  ASSUME NEW s \in Servers, Fresh(s)
  PROVE  /\ buffers[s].position = 0 /\ buffers[s].limit \in Limits
         /\ Received(buffers[s]) = <<>> /\ ~Responded(s)
<1>1. buffers[s].position = 0 /\ buffers[s].limit \in Limits
  BY ClearedTyped DEF Fresh, Limits
<1>2. Received(buffers[s]) = <<>>
  BY <1>1 DEF Received
<1> QED  BY <1>1, <1>2 DEF Responded, receivedValidResponse

(* A valid response to the command the server was sent is all of the       *)
(* server's reply, and nothing else.                                       *)
LEMMA WholeResponse ==
  ASSUME EndsAreEnds, NEW s \in Servers, Waiting(s), Responded(s)
  PROVE  \E kind \in Kinds :
           /\ buffers[s].content = <<Reply(s, kind)>> /\ Response(s) = <<Reply(s, kind)>>
           /\ buffers[s].position = Length(kind)
           /\ Silent(s)
           /\ kind = "STORED" => request \in stored[s]
<1>1. ~Fresh(s)
  BY FreshIsEmpty
<1>2. Answering(s)
  BY <1>1 DEF Waiting, Unanswered
<1>3. PICK kind \in Kinds, n \in Nat :
        /\ n \in 0 .. Length(kind)
        /\ Holds(s, kind, n)
        /\ \/ n < Length(kind) /\ outbox[s] = <<Piece(s, kind, n, Length(kind))>>
           \/ outbox[s] = <<>> /\ (n = Length(kind) \/ ~open[s])
        /\ kind = "STORED" => request \in stored[s]
  BY <1>2 DEF Answering
<1>4. kind \in ReplyKinds /\ n <= Length(kind) /\ Length(kind) \in Nat
  BY <1>3, KindsAreReplies, Lengths
<1>5. /\ n # 0 /\ buffers[s].content = <<Piece(s, kind, 0, n)>> /\ buffers[s].position = n
      /\ kind = "VALUE" => n # ValueLength - Length("END")
  BY <1>1, <1>3 DEF Holds
<1>6. Response(s) = <<Piece(s, kind, 0, n)>>
  BY <1>5 DEF Response, Received
<1> DEFINE replies == <<Piece(s, kind, 0, n)>>
<1>7. replies[Len(replies)].kind = kind /\ replies[Len(replies)].to = n
      /\ replies[1].kind = kind
  BY DEF Piece
<1>8. receivedValidResponse(replies)
  BY <1>6 DEF Responded, Response
<1> HIDE DEF replies
<1>9. n = Length(kind)
  <2>1. endsWithEND(replies) => n = Length(kind)
    BY <1>5, <1>7 DEF endsWithEND
  <2>2. kind \in {"ERROR", "STORED", "NOT_STORED", "SERVER_ERROR"} /\ endsWithNewline(replies) => n = Length(kind)
    BY <1>7, <2>1 DEF endsWithNewline
  <2> QED  BY <1>7, <1>8, <2>1, <2>2 DEF receivedValidResponse
<1>10. Silent(s)
  BY <1>2, <1>3, <1>4, <1>9 DEF Silent, Answering
<1>11. Piece(s, kind, 0, n) = Reply(s, kind)
  BY <1>9 DEF Reply
<1> QED  BY <1>3, <1>5, <1>6, <1>9, <1>10, <1>11

(* What a server is for the request at hand depends on its own connection  *)
(* and buffer alone.                                                       *)
LEMMA SameServer ==
  ASSUME NEW s \in Servers, inbox'[s] = inbox[s], outbox'[s] = outbox[s], open'[s] = open[s],
         buffers'[s] = buffers[s], stored[s] \subseteq stored'[s],
         request' = request, type' = type
  PROVE  /\ Waiting(s) => Waiting(s)'
         /\ Silent(s) => Silent(s)'
         /\ Fresh(s) => Fresh(s)'
<1>1. Fresh(s)' <=> Fresh(s)
  BY DEF Fresh
<1>2. Silent(s) => Silent(s)'
  BY DEF Silent
<1>3. \A kind, n : Holds(s, kind, n)' <=> Holds(s, kind, n)
  BY <1>1 DEF Holds, Piece
<1>4. Unanswered(s) => Unanswered(s)'
  BY <1>1 DEF Unanswered
<1>5. Answering(s) => Answering(s)'
  <2> SUFFICES ASSUME Answering(s) PROVE Answering(s)'
    OBVIOUS
  <2>1. PICK kind \in Kinds, n \in Nat :
          /\ n \in 0 .. Length(kind)
          /\ Holds(s, kind, n)
          /\ \/ n < Length(kind) /\ outbox[s] = <<Piece(s, kind, n, Length(kind))>>
             \/ outbox[s] = <<>> /\ (n = Length(kind) \/ ~open[s])
          /\ kind = "STORED" => request \in stored[s]
    BY DEF Answering
  <2>2. Kinds' = Kinds /\ Piece(s, kind, n, Length(kind))' = Piece(s, kind, n, Length(kind))
    BY DEF Kinds, Piece
  <2>3. kind \in Kinds' /\ Holds(s, kind, n)' /\ inbox'[s] = <<>>
    BY <1>3, <2>1, <2>2 DEF Answering
  <2> QED  BY <2>1, <2>2, <2>3 DEF Answering
<1> QED  BY <1>1, <1>2, <1>4, <1>5 DEF Waiting

(* No segment ends a reply early where it could be taken for its end.      *)
LEMMA CutsWithin ==
  ASSUME EndsAreEnds, NEW kind \in ReplyKinds, NEW c \in CutPoints(kind)
  PROVE  c \in Nat /\ c < Length(kind) /\ (kind = "VALUE" => c # ValueLength - Length("END"))
<1>1. c = 1 \/ c = 3 \/ (kind = "VALUE" /\ c = LineLength)
  BY DEF CutPoints, EndsAreEnds
<1>2. Length(kind) \in Nat /\ Length(kind) >= 5
  BY Lengths
<1>3. kind = "VALUE" => Length(kind) = ValueLength
  BY Lengths
<1>4. LineLength \in Nat /\ LineLength > 5 /\ ValueLength \in Nat /\ ValueLength > LineLength + 7
      /\ Length("END") = 5
  BY Lengths
<1> QED  BY <1>1, <1>2, <1>3, <1>4

(* A piece of a reply behind what was read of it. *)
LEMMA Pieces ==
  ASSUME NEW s, NEW kind, NEW from, NEW to, NEW end
  PROVE  /\ [Piece(s, kind, from, to) EXCEPT !.to = end] = Piece(s, kind, from, end)
         /\ [Piece(s, kind, from, to) EXCEPT !.from = end] = Piece(s, kind, end, to)
         /\ Piece(s, kind, from, to).from = from /\ Piece(s, kind, from, to).to = to
         /\ Piece(s, kind, from, to).kind = kind /\ Piece(s, kind, from, to).server = s
         /\ Piece(s, kind, from, to).request = request
BY DEF Piece

(* A piece that continues what the buffer holds becomes one with it.       *)
LEMMA NextPiece ==
  ASSUME NEW s \in Servers, NEW kind \in ReplyKinds, NEW n \in Nat, NEW to \in Nat,
         NEW got, got = IF n = 0 THEN <<>> ELSE <<Piece(s, kind, 0, n)>>
  PROVE  AddFragment(got, Piece(s, kind, n, to)) = <<Piece(s, kind, 0, to)>>
<1> DEFINE piece == Piece(s, kind, n, to)
<1>1. piece.from = n /\ piece.to = to
  BY Pieces
<1>2. CASE n = 0
  <2>1. piece = Piece(s, kind, 0, to) /\ got = <<>>
    BY <1>2
  <2>2. \A p : AddFragment(<<>>, p) = <<p>>
    BY DEF AddFragment
  <2>3. AddFragment(got, piece) = <<piece>>
    BY <2>1, <2>2
  <2> QED  BY <2>1, <2>3
<1>3. CASE n # 0
  <2> DEFINE first == Piece(s, kind, 0, n)
  <2>1. first.to = n /\ [first EXCEPT !.to = to] = Piece(s, kind, 0, to)
    BY Pieces
  <2>2. got = <<first>> /\ Len(got) = 1 /\ got[1] = first /\ got # <<>>
    BY <1>3
  <2>3. Continues(piece, first)
    BY <1>1, <1>3, <2>1 DEF Continues, Piece
  <2> HIDE DEF piece, first
  <2>4. AddFragment(got, piece) = [got EXCEPT ![1].to = to]
    BY <1>1, <2>2, <2>3 DEF AddFragment
  <2>5. AddFragment(got, piece) = <<Piece(s, kind, 0, to)>>
    BY <2>1, <2>2, <2>4
  <2> QED  BY <2>5 DEF piece
<1> QED  BY <1>2, <1>3

(* A read keeps the thread in step with the server it waits for.           *)
LEMMA ReadKeepsWaiting ==
  ASSUME EndsAreEnds, Typed, NEW s \in Servers, Waiting(s), ReadReply(s)
  PROVE  /\ Waiting(s)' /\ buffers'[s].limit = buffers[s].limit
         /\ \A r \in Servers : r # s => buffers'[r] = buffers[r] /\ outbox'[r] = outbox[r]
<1>1. /\ outbox[s] # <<>> /\ Remaining(buffers[s]) > 0
      /\ UNCHANGED <<request, type, inbox, open, stored>>
  BY DEF ReadReply, Readable, locals
<1>2. PICK to \in ReadEnds(buffers[s], Head(outbox[s])) : Receive(s, to)
  BY DEF ReadReply
<1>3. Answering(s)
  BY <1>1 DEF Waiting, Unanswered
<1>4. PICK kind \in Kinds, n \in Nat :
        /\ n \in 0 .. Length(kind)
        /\ Holds(s, kind, n)
        /\ \/ n < Length(kind) /\ outbox[s] = <<Piece(s, kind, n, Length(kind))>>
           \/ outbox[s] = <<>> /\ (n = Length(kind) \/ ~open[s])
        /\ kind = "STORED" => request \in stored[s]
  BY <1>3 DEF Answering
<1> DEFINE full == Length(kind)
           reply == Piece(s, kind, n, full)
<1>5. /\ n < full /\ outbox[s] = <<reply>> /\ full \in Nat /\ kind \in ReplyKinds
      /\ Head(outbox[s]) = reply
  BY <1>1, <1>4, KindsAreReplies, Lengths
<1>6. reply \in Replies
  <2>1. outbox[s] \in Seq(Replies)
    BY DEF Typed, ChannelsTyped
  <2> QED  BY <1>5, <2>1
<1>7. reply.from = n /\ reply.to = full /\ reply.kind = kind
  BY Pieces
<1>8. /\ buffers[s].position = n /\ buffers[s].limit \in Limits
      /\ Remaining(buffers[s]) = buffers[s].limit - n /\ buffers[s].limit \in Int
      /\ buffers[s] \in ByteBuffers
      /\ IF n = 0 THEN Fresh(s) ELSE buffers[s].content = <<Piece(s, kind, 0, n)>>
  BY <1>4, BufferTyped DEF Holds, Remaining
<1> HIDE DEF reply
<1>9. /\ to \in Nat /\ n < to /\ to <= full /\ to <= buffers[s].limit
      /\ kind = "VALUE" => to # ValueLength - Length("END")
  <2>1. /\ to \in Nat /\ to - n <= buffers[s].limit - n /\ to > n
        /\ \/ to \in CutPoints(kind)
           \/ to = full
           \/ to = n + (buffers[s].limit - n) /\ to < full
           \/ \E c \in CutPoints(kind) : to < c /\ to = n + (buffers[s].limit - n)
    BY <1>1, <1>2, <1>5, <1>6, <1>7, <1>8, ReadEndsWithin
  <2>2. \A c \in CutPoints(kind) :
           c \in Nat /\ c < full /\ (kind = "VALUE" => c # ValueLength - Length("END"))
    BY <1>5, CutsWithin
  <2>3. kind = "VALUE" => full = ValueLength
    BY Lengths
  <2>4. ValueLength \in Nat /\ Length("END") = 5 /\ ValueLength - Length("END") # buffers[s].limit
    BY <1>8, Lengths DEF EndsAreEnds
  <2>5. n + (buffers[s].limit - n) = buffers[s].limit
    BY <1>8
  <2> HIDE DEF full
  <2>6. to <= full
    BY <1>5, <2>1, <2>2
  <2>7. kind = "VALUE" => to # ValueLength - Length("END")
    BY <2>1, <2>2, <2>3, <2>4, <2>5
  <2> QED  BY <1>8, <2>1, <2>6, <2>7
<1>10. /\ buffers' = [buffers EXCEPT ![s] = Read(buffers[s], reply, to)]
       /\ outbox' = [outbox EXCEPT ![s] = IF to = full THEN <<>> ELSE <<Piece(s, kind, to, full)>>]
  <2>1. buffers' = [buffers EXCEPT ![s] = Read(buffers[s], reply, to)]
        /\ outbox' = [outbox EXCEPT ![s] = IF to = full THEN Tail(outbox[s])
                                           ELSE [outbox[s] EXCEPT ![1].from = to]]
    BY <1>2, <1>5, <1>7 DEF Receive, Typed, ChannelsTyped
  <2>2. Tail(outbox[s]) = <<>>
    BY <1>5
  <2>3. [outbox[s] EXCEPT ![1].from = to] = <<[reply EXCEPT !.from = to]>>
    BY <1>5
  <2>4. [reply EXCEPT !.from = to] = Piece(s, kind, to, full)
    BY Pieces DEF reply
  <2> QED  BY <2>1, <2>2, <2>3, <2>4
<1>11. /\ Read(buffers[s], reply, to) \in ByteBuffers
       /\ Read(buffers[s], reply, to).content = <<Piece(s, kind, 0, to)>>
       /\ Read(buffers[s], reply, to).position = to
       /\ Read(buffers[s], reply, to).limit = buffers[s].limit
  <2>1. [reply EXCEPT !.to = to] = Piece(s, kind, n, to)
    BY Pieces DEF reply
  <2>2. Received(buffers[s]) = IF n = 0 THEN <<>> ELSE <<Piece(s, kind, 0, n)>>
    BY <1>8 DEF Received
  <2>3. AddFragment(Received(buffers[s]), Piece(s, kind, n, to)) = <<Piece(s, kind, 0, to)>>
    BY <1>5, <1>9, <2>2, NextPiece
  <2>4. buffers[s].position + to - reply.from = to
    BY <1>7, <1>8, <1>9
  <2> QED  BY <1>6, <1>8, <1>9, <2>1, <2>3, <2>4, ReadParts
<1>12. /\ buffers'[s] = Read(buffers[s], reply, to)
       /\ outbox'[s] = IF to = full THEN <<>> ELSE <<Piece(s, kind, to, full)>>
       /\ \A r \in Servers : r # s => buffers'[r] = buffers[r] /\ outbox'[r] = outbox[r]
  BY <1>10 DEF Typed, ChannelsTyped
<1>13. /\ buffers'[s].content = <<Piece(s, kind, 0, to)>> /\ buffers'[s].position = to
       /\ buffers'[s].limit = buffers[s].limit
  BY <1>11, <1>12
<1>14. /\ kind \in Kinds' /\ inbox'[s] = <<>>
       /\ Piece(s, kind, 0, to)' = Piece(s, kind, 0, to)
       /\ Piece(s, kind, to, full)' = Piece(s, kind, to, full)
  BY <1>1, <1>3, <1>4 DEF Kinds, Piece, Answering
<1>15. Holds(s, kind, to)'
  BY <1>8, <1>9, <1>13, <1>14 DEF Holds
<1>16. Answering(s)'
  <2>1. \/ to < full /\ outbox'[s] = <<Piece(s, kind, to, full)'>>
        \/ outbox'[s] = <<>> /\ to = full
    BY <1>5, <1>9, <1>12, <1>14
  <2>2. kind = "STORED" => request' \in stored'[s]
    BY <1>1, <1>4
  <2>3. to \in 0 .. full
    BY <1>5, <1>9
  <2> QED  BY <1>14, <1>15, <2>1, <2>2, <2>3 DEF Answering
<1> QED  BY <1>12, <1>13, <1>16 DEF Waiting

(* What the responses so far have left depends on their own servers.       *)
LEMMA ResponsesKept ==
  ASSUME NEW n \in Int, Responses(n), UNCHANGED <<request, type, targets, firstPositive, error>>,
         \A s \in Servers : stored[s] \subseteq stored'[s],
         \A j \in 1 .. n : targets[j] \in Servers /\ buffers'[targets[j]] = buffers[targets[j]]
  PROVE  Responses(n)'
<1>1. /\ Kinds' = Kinds
      /\ \A s, kind : Reply(s, kind)' = Reply(s, kind)
      /\ \A j \in 1 .. n : Fresh(targets[j])' <=> Fresh(targets[j])
      /\ \A replies, kinds : IsError(replies, kinds)' <=> IsError(replies, kinds)
  BY DEF Kinds, Reply, Piece, Fresh, IsError
<1>2. SetResponses(n) => SetResponses(n)'
  <2> SUFFICES ASSUME SetResponses(n) PROVE SetResponses(n)'
    OBVIOUS
  <2>1. \A s \in firstPositive : buffers'[s] = buffers[s]
    BY DEF SetResponses
  <2>2. error' = <<>> => \A j \in 1 .. n : request' \in stored'[targets'[j]]
    BY DEF SetResponses
  <2> QED  BY <1>1, <2>1, <2>2 DEF SetResponses
<1>3. SingleResponse(n) => SingleResponse(n)'
  BY <1>1 DEF SingleResponse
<1>4. ShardedResponses(n) => ShardedResponses(n)'
  <2> SUFFICES ASSUME ShardedResponses(n), n > 0 PROVE ShardedResponses(n)'
    BY <1>1 DEF ShardedResponses
  <2>1. buffers'[targets[1]] = buffers[targets[1]]
    OBVIOUS
  <2> QED  BY <1>1, <2>1 DEF ShardedResponses
<1> QED  BY <1>2, <1>3, <1>4 DEF Responses

(* What the servers do while the thread stands still keeps it in step, as  *)
(* long as each server stays in its part of the exchange.                  *)
LEMMA PhaseKept ==
  ASSUME Typed, InStep,
         UNCHANGED <<pc, request, type, targets, next, firstPositive, error, buffers>>,
         \A s \in Servers : /\ Waiting(s) => Waiting(s)'
                            /\ Silent(s) => Silent(s)'
                            /\ stored[s] \subseteq stored'[s]
  PROVE  InStep'
<1>1. /\ \A s : Fresh(s)' <=> Fresh(s)
      /\ \A first, last : Outstanding(first, last)' = Outstanding(first, last)
  BY DEF Fresh, Outstanding
<1>2. ASSUME pc = "idle" PROVE AtRest'
  BY <1>1, <1>2 DEF InStep, AtRest
<1>3. ASSUME pc = "send" PROVE Sending'
  <2>1. Outstanding(1, next - 1) \subseteq Servers
    BY <1>3, AtTarget DEF Outstanding
  <2> QED  BY <1>1, <1>3, <2>1 DEF InStep, Sending
<1>4. ASSUME pc = "receive" PROVE Receiving'
  <2>1. Outstanding(next, Len(targets)) \subseteq Servers
    BY <1>4, AtTarget DEF Outstanding
  <2>2. next - 1 \in Int /\ \A j \in 1 .. next - 1 : targets[j] \in Servers
    BY <1>4, AtTarget
  <2>3. Responses(next - 1)'
    BY <1>4, <2>2, ResponsesKept DEF InStep, Receiving
  <2> QED  BY <1>1, <1>4, <2>1, <2>3 DEF InStep, Receiving
<1>5. ASSUME pc = "reply" PROVE Replying'
  <2>1. Len(targets) \in Int /\ \A j \in 1 .. Len(targets) : targets[j] \in Servers
    BY <1>5, AtTarget
  <2>2. Responses(Len(targets))'
    BY <1>5, <2>1, ResponsesKept DEF InStep, Replying
  <2> QED  BY <1>1, <1>5, <2>2 DEF InStep, Replying
<1> QED  BY <1>2, <1>3, <1>4, <1>5 DEF InStep

(* A thread that stands still is where it was.                             *)
LEMMA StillInStep ==
  ASSUME Typed, InStep, UNCHANGED vars
  PROVE  InStep'
<1>1. UNCHANGED <<pc, request, type, targets, next, firstPositive, error, buffers, inbox,
                  outbox, open, stored>>
  BY DEF vars, locals, channels
<1>2. \A s \in Servers : (Waiting(s) => Waiting(s)') /\ (Silent(s) => Silent(s)')
  BY <1>1, SameServer
<1> QED  BY <1>1, <1>2, PhaseKept

(* A server that answers keeps the thread in step.                         *)
LEMMA AnswerKeepsStep ==
  ASSUME Typed, InStep, NEW s \in Servers, NEW kind \in ReplyKinds, ServerAnswers(s, kind)
  PROVE  InStep'
<1>1. /\ UNCHANGED <<pc, request, type, targets, next, firstPositive, error, buffers, open>>
      /\ inbox[s] # <<>> /\ open[s]
      /\ Head(inbox[s]).type \in Types =>
           kind \in IF Head(inbox[s]).type = "SET" THEN SetReplies ELSE GetReplies
  BY DEF ServerAnswers, locals, Types
<1> DEFINE reply == [server |-> s, request |-> Head(inbox[s]).request, kind |-> kind,
                     from |-> 0, to |-> Length(kind)]
<1>2. /\ inbox' = [inbox EXCEPT ![s] = Tail(inbox[s])]
      /\ outbox' = [outbox EXCEPT ![s] = Append(outbox[s], reply)]
      /\ stored' = IF kind = "STORED"
                   THEN [stored EXCEPT ![s] = stored[s] \cup {Head(inbox[s]).request}] ELSE stored
  BY DEF ServerAnswers, Typed, ChannelsTyped
<1>3. /\ inbox'[s] = Tail(inbox[s]) /\ outbox'[s] = Append(outbox[s], reply)
      /\ kind = "STORED" => stored'[s] = stored[s] \cup {Head(inbox[s]).request}
      /\ \A r \in Servers : r # s => inbox'[r] = inbox[r] /\ outbox'[r] = outbox[r]
      /\ \A r \in Servers : stored[r] \subseteq stored'[r]
  BY <1>2 DEF Typed, ChannelsTyped
<1> HIDE DEF reply
<1>4. \A r \in Servers : r # s => (Waiting(r) => Waiting(r)') /\ (Silent(r) => Silent(r)')
  BY <1>1, <1>3, SameServer
<1>5. Waiting(s) => Waiting(s)'
  <2> SUFFICES ASSUME Waiting(s) PROVE Answering(s)'
    BY DEF Waiting
  <2>1. /\ outbox[s] = <<>> /\ Fresh(s)
        /\ inbox[s] = <<[request |-> request, type |-> type]>>
    BY <1>1 DEF Waiting, Answering, Unanswered
  <2>2. Head(inbox[s]).request = request /\ Head(inbox[s]).type = type /\ Tail(inbox[s]) = <<>>
    BY <2>1
  <2>3. kind \in Kinds /\ reply = Piece(s, kind, 0, Length(kind))
    BY <1>1, <2>2 DEF Kinds, reply, Piece, Typed, HandlerTyped
  <2>4. inbox'[s] = <<>> /\ outbox'[s] = <<Piece(s, kind, 0, Length(kind))>>
    BY <1>3, <2>1, <2>2, <2>3
  <2>5. /\ Kinds' = Kinds /\ (Fresh(s)' <=> Fresh(s))
        /\ Piece(s, kind, 0, Length(kind))' = Piece(s, kind, 0, Length(kind))
    BY <1>1 DEF Kinds, Fresh, Piece
  <2>6. Length(kind) \in Nat /\ Length(kind) >= 5
    BY Lengths
  <2>7. Holds(s, kind, 0)'
    <3>1. buffers[s].position = 0 /\ buffers[s].limit \in Limits
      BY <2>1, FreshIsEmpty
    <3>2. 0 <= buffers[s].limit
      <4>1. Capacity >= 0 /\ \A k \in SetReplies \ {"STORED"} : Length(k) >= 0
        BY Lengths, RepliesAssumption DEF ReplyKinds
      <4> QED  BY <3>1, <4>1 DEF Limits, ErrorLimits
    <3>3. ValueLength - Length("END") # 0
      BY Lengths
    <3> QED  BY <1>1, <2>1, <2>5, <3>1, <3>2, <3>3 DEF Holds
  <2>8. kind = "STORED" => request' \in stored'[s]
    BY <1>1, <1>3, <2>2
  <2>9. 0 \in 0 .. Length(kind) /\ 0 < Length(kind)
    BY <2>6
  <2> QED  BY <2>3, <2>4, <2>5, <2>7, <2>8, <2>9 DEF Answering
<1>6. ~Silent(s)
  BY <1>1 DEF Silent
<1> QED  BY <1>1, <1>3, <1>4, <1>5, <1>6, PhaseKept

(* A connection that breaks keeps the thread in step: its server falls     *)
(* silent.                                                                 *)
LEMMA LossKeepsStep ==
  ASSUME Typed, InStep, NEW s \in Servers, NEW keep \in BOOLEAN, ConnectionLost(s, keep)
  PROVE  InStep'
<1>1. /\ UNCHANGED <<pc, request, type, targets, next, firstPositive, error, buffers, stored>>
      /\ open' = [open EXCEPT ![s] = FALSE] /\ inbox' = [inbox EXCEPT ![s] = <<>>]
      /\ outbox' = [outbox EXCEPT ![s] = IF keep THEN outbox[s] ELSE <<>>]
  BY DEF ConnectionLost, locals, Typed, ChannelsTyped
<1>2. /\ inbox'[s] = <<>> /\ ~open'[s] /\ (outbox'[s] = outbox[s] \/ outbox'[s] = <<>>)
      /\ \A r \in Servers : r # s => inbox'[r] = inbox[r] /\ outbox'[r] = outbox[r]
                                     /\ open'[r] = open[r]
  BY <1>1 DEF Typed, ChannelsTyped
<1>3. \A r \in Servers : r # s => (Waiting(r) => Waiting(r)') /\ (Silent(r) => Silent(r)')
  BY <1>1, <1>2, SameServer
<1>4. Silent(s) => Silent(s)'
  BY <1>2 DEF Silent
<1>5. /\ Fresh(s)' <=> Fresh(s)
      /\ Kinds' = Kinds
      /\ \A kind, from, to : Piece(s, kind, from, to)' = Piece(s, kind, from, to)
  BY <1>1 DEF Fresh, Kinds, Piece
<1>6. Unanswered(s) => Unanswered(s)'
  BY <1>2, <1>5 DEF Unanswered
<1>7. Answering(s) => Answering(s)'
  <2> SUFFICES ASSUME Answering(s) PROVE Answering(s)'
    OBVIOUS
  <2>1. PICK kind \in Kinds, n \in Nat :
          /\ n \in 0 .. Length(kind)
          /\ Holds(s, kind, n)
          /\ \/ n < Length(kind) /\ outbox[s] = <<Piece(s, kind, n, Length(kind))>>
             \/ outbox[s] = <<>> /\ (n = Length(kind) \/ ~open[s])
          /\ kind = "STORED" => request \in stored[s]
    BY DEF Answering
  <2>2. Holds(s, kind, n)'
    BY <1>1, <1>5, <2>1 DEF Holds
  <2>3. \/ n < Length(kind) /\ outbox'[s] = <<Piece(s, kind, n, Length(kind))'>>
        \/ outbox'[s] = <<>> /\ (n = Length(kind) \/ ~open'[s])
    BY <1>2, <1>5, <2>1
  <2>4. kind = "STORED" => request' \in stored'[s]
    BY <1>1, <2>1
  <2> QED  BY <1>2, <1>5, <2>1, <2>2, <2>3, <2>4 DEF Answering
<1>8. Waiting(s) => Waiting(s)'
  BY <1>6, <1>7 DEF Waiting
<1> QED  BY <1>1, <1>3, <1>4, <1>8, PhaseKept

(* Where server s stands while the handler is at it. *)
LEMMA AtTurn ==
  ASSUME Typed, pc \in {"send", "receive"}, NEW s \in Servers, s = targets[next]
  PROVE  /\ s \in Outstanding(next, Len(targets)) /\ s \in Outstanding(1, next)
         /\ s \notin Outstanding(1, next - 1) /\ s \notin Outstanding(next + 1, Len(targets))
         /\ \A r \in Servers : r # s =>
              /\ r \in Outstanding(next, Len(targets)) <=> r \in Outstanding(next + 1, Len(targets))
              /\ r \in Outstanding(1, next) <=> r \in Outstanding(1, next - 1)
         /\ Outstanding(1, next) \cap Outstanding(next + 1, Len(targets)) = {}
         /\ Outstanding(1, next) \subseteq Outstanding(1, next + 1)
         /\ Outstanding(1, next) \subseteq Servers
         /\ Outstanding(next + 1, Len(targets)) \subseteq Servers
<1>1. /\ targets \in Seq(Servers) /\ Len(targets) \in Nat /\ next \in 1 .. Len(targets)
      /\ \A i, j \in 1 .. Len(targets) : i # j => targets[i] # targets[j]
  BY AtTarget
<1>2. s \in Outstanding(next, Len(targets)) /\ s \in Outstanding(1, next)
  BY <1>1 DEF Outstanding
<1>3. s \notin Outstanding(1, next - 1)
  BY <1>1 DEF Outstanding
<1>4. s \notin Outstanding(next + 1, Len(targets))
  BY <1>1 DEF Outstanding
<1>5. ASSUME NEW r \in Servers, r # s
      PROVE  /\ r \in Outstanding(next, Len(targets)) <=> r \in Outstanding(next + 1, Len(targets))
             /\ r \in Outstanding(1, next) <=> r \in Outstanding(1, next - 1)
  <2>1. r \in Outstanding(next, Len(targets)) => r \in Outstanding(next + 1, Len(targets))
    <3> SUFFICES ASSUME NEW j \in next .. Len(targets), r = targets[j]
                 PROVE  r \in Outstanding(next + 1, Len(targets))
      BY DEF Outstanding
    <3>1. j \in next + 1 .. Len(targets)
      BY <1>1, <1>5
    <3> QED  BY <3>1 DEF Outstanding
  <2>2. r \in Outstanding(next + 1, Len(targets)) => r \in Outstanding(next, Len(targets))
    BY <1>1 DEF Outstanding
  <2>3. r \in Outstanding(1, next) => r \in Outstanding(1, next - 1)
    <3> SUFFICES ASSUME NEW j \in 1 .. next, r = targets[j]
                 PROVE  r \in Outstanding(1, next - 1)
      BY DEF Outstanding
    <3>1. j \in 1 .. next - 1
      BY <1>1, <1>5
    <3> QED  BY <3>1 DEF Outstanding
  <2>4. r \in Outstanding(1, next - 1) => r \in Outstanding(1, next)
    BY <1>1 DEF Outstanding
  <2> QED  BY <2>1, <2>2, <2>3, <2>4
<1>6. Outstanding(1, next) \cap Outstanding(next + 1, Len(targets)) = {}
  BY <1>1 DEF Outstanding
<1>7. /\ Outstanding(1, next) \subseteq Outstanding(1, next + 1)
      /\ Outstanding(1, next) \subseteq Servers
      /\ Outstanding(next + 1, Len(targets)) \subseteq Servers
  BY <1>1 DEF Outstanding
<1> QED  BY <1>2, <1>3, <1>4, <1>5, <1>6, <1>7

(* A new request starts with no reply on the way and fresh buffers.        *)
LEMMA StartKeepsStep ==
  ASSUME InStep, NEW t \in Types, NEW order \in Targets(t), Start(t, order)
  PROVE  InStep'
<1>1. /\ pc = "idle" /\ pc' = "send" /\ next' = 1 /\ error' = <<>> /\ firstPositive' = {}
      /\ UNCHANGED <<buffers, inbox, outbox>>
  BY DEF Start, channels
<1>2. \A s : (Fresh(s)' <=> Fresh(s)) /\ (Silent(s)' <=> Silent(s))
  BY <1>1 DEF Fresh, Silent
<1>3. Outstanding(1, next - 1)' = {}
  BY <1>1 DEF Outstanding
<1>4. AtRest
  BY <1>1 DEF InStep
<1>5. Sending'
  BY <1>1, <1>2, <1>3, <1>4 DEF Sending, AtRest
<1> QED  BY <1>1, <1>5 DEF InStep

(* A command that is sent makes the thread wait for its server.            *)
LEMMA SendKeepsStep ==
  ASSUME Typed, InStep, NEW s \in Servers, SendCommand(s)
  PROVE  InStep'
<1>1. /\ pc = "send" /\ s = targets[next]
      /\ UNCHANGED <<request, type, targets, firstPositive, error, outbox, open, stored>>
      /\ inbox' = IF open[s]
                  THEN [inbox EXCEPT ![s] = Append(inbox[s], [request |-> request, type |-> type])]
                  ELSE inbox
      /\ buffers' = IF type = "ShardedGET" THEN [buffers EXCEPT ![s] = Cleared] ELSE buffers
      /\ IF LastTarget THEN pc' = "receive" /\ next' = 1 ELSE pc' = "send" /\ next' = next + 1
  <2>1. pc = "send" /\ s = targets[next]
    BY DEF SendCommand
  <2>2. ~Leftover(s)
    BY <2>1, FreshIsEmpty DEF InStep, Sending, Leftover
  <2> QED  BY <2>1, <2>2 DEF SendCommand, Command, locals, Typed, ChannelsTyped
<1>2. Sending /\ next \in 1 .. Len(targets) /\ Len(targets) \in Nat
  BY <1>1, AtTarget DEF InStep
<1>3. /\ s \notin Outstanding(1, next - 1) /\ s \in Outstanding(1, next)
      /\ \A r \in Servers : r # s => (r \in Outstanding(1, next) <=> r \in Outstanding(1, next - 1))
  BY <1>1, AtTurn
<1>4. \A r \in Servers : r # s => inbox'[r] = inbox[r] /\ buffers'[r] = buffers[r]
  BY <1>1 DEF Typed, ChannelsTyped
<1>5. \A r \in Servers : r # s =>
        (Waiting(r) => Waiting(r)') /\ (Silent(r) => Silent(r)') /\ (Fresh(r) => Fresh(r)')
  BY <1>1, <1>4, SameServer
<1>6. Fresh(s)' /\ (type = "ShardedGET" => buffers'[s].limit = Capacity)
  <2>1. Fresh(s)
    BY <1>2 DEF Sending
  <2>2. CASE type = "ShardedGET"
    BY <1>1, <2>2, ClearedTyped DEF Fresh, Typed, ChannelsTyped
  <2>3. CASE type # "ShardedGET"
    BY <1>1, <2>1, <2>3 DEF Fresh
  <2> QED  BY <2>2, <2>3
<1>7. Waiting(s)'
  <2>1. inbox[s] = <<>> /\ outbox[s] = <<>>
    BY <1>2, <1>3 DEF Sending, Silent
  <2>2. inbox'[s] = IF open[s] THEN <<[request |-> request, type |-> type]>> ELSE <<>>
    BY <1>1, <2>1 DEF Typed, ChannelsTyped
  <2>3. Unanswered(s)'
    BY <1>1, <1>6, <2>1, <2>2 DEF Unanswered
  <2> QED  BY <2>3 DEF Waiting
<1>8. \A r \in Outstanding(1, next) :
        Waiting(r)' /\ (type' = "ShardedGET" => buffers'[r].limit = Capacity)
  <2> SUFFICES ASSUME NEW r \in Outstanding(1, next), r # s
               PROVE  Waiting(r)' /\ (type' = "ShardedGET" => buffers'[r].limit = Capacity)
    BY <1>1, <1>6, <1>7
  <2>1. r \in Servers
    BY <1>1, <1>2, AtTurn, AtTarget DEF Outstanding
  <2> QED  BY <1>1, <1>2, <1>3, <1>4, <1>5, <2>1 DEF Sending
<1>9. \A r \in Servers : Fresh(r)'
  BY <1>2, <1>5, <1>6 DEF Sending
<1>10. \A r \in Servers \ Outstanding(1, next) : Silent(r)'
  BY <1>2, <1>3, <1>5 DEF Sending
<1>12. error' = <<>> /\ firstPositive' = {}
  BY <1>1, <1>2 DEF Sending
<1>13. CASE LastTarget
  <2>1. /\ pc' = "receive" /\ next' = 1 /\ next = Len(targets)
    BY <1>1, <1>13 DEF LastTarget
  <2>2. Responses(next - 1)'
    <3>1. Responses(0)'
      BY <1>12 DEF Responses, SetResponses, SingleResponse, ShardedResponses
    <3>2. (next - 1)' = 0
      BY <2>1
    <3> QED  BY <3>1, <3>2 DEF Responses, SetResponses, SingleResponse, ShardedResponses
  <2>3. Outstanding(next, Len(targets))' = Outstanding(1, next)
    BY <1>1, <2>1 DEF Outstanding
  <2>4. Receiving'
    BY <1>8, <1>9, <1>10, <2>2, <2>3 DEF Receiving
  <2> QED  BY <2>1, <2>4 DEF InStep
<1>14. CASE ~LastTarget
  <2>1. pc' = "send" /\ next' = next + 1
    BY <1>1, <1>14
  <2>2. Outstanding(1, next - 1)' = Outstanding(1, next)
    BY <1>1, <1>2, <2>1 DEF Outstanding
  <2>3. Sending'
    BY <1>8, <1>9, <1>10, <1>12, <2>2 DEF Sending
  <2> QED  BY <2>1, <2>3 DEF InStep
<1> QED  BY <1>13, <1>14

(* A response that is whole takes the handler on to the next wait or to    *)
(* the answer, if it leaves what the responses so far are said to leave.   *)
LEMMA ResponseKeepsStep ==
  ASSUME Typed, InStep, NEW s \in Servers, pc = "receive", s = targets[next], Silent(s),
         UNCHANGED <<request, type, targets, channels>>,
         NEW all \in BOOLEAN, all <=> next = Len(targets), WaitForNext(all),
         NEW n \in Int, n = next, Responses(n)',
         \A r \in Servers \ Outstanding(1, next) : buffers'[r] = buffers[r]
  PROVE  InStep'
<1>1. /\ UNCHANGED <<request, type, targets, inbox, outbox, open, stored>>
      /\ IF all THEN pc' = "reply" /\ next' = next ELSE pc' = "receive" /\ next' = next + 1
      /\ Receiving /\ next \in 1 .. Len(targets) /\ Len(targets) \in Nat
  BY AtTarget DEF channels, WaitForNext, InStep
<1>2. ASSUME NEW r \in Servers
      PROVE  /\ Silent(r) => Silent(r)'
             /\ r \notin Outstanding(1, next) => (Waiting(r) => Waiting(r)') /\ (Fresh(r) => Fresh(r)')
  BY <1>1, SameServer DEF Silent
<1>3. \A r \in Servers \ Outstanding(next + 1, Len(targets)) : Silent(r)'
  <2> SUFFICES ASSUME NEW r \in Servers \ Outstanding(next + 1, Len(targets)) PROVE Silent(r)
    BY <1>2
  <2> QED  BY <1>1, AtTurn DEF Receiving
<1>4. CASE all
  <2>1. pc' = "reply" /\ next' = next /\ next = Len(targets)
    BY <1>1, <1>4
  <2>2. Responses(Len(targets))'
    <3>1. Len(targets)' = n
      BY <1>1, <2>1
    <3> QED  BY <3>1 DEF Responses, SetResponses, SingleResponse, ShardedResponses
  <2>3. Outstanding(next + 1, Len(targets)) = {}
    BY <1>1, <2>1 DEF Outstanding
  <2>4. Outstanding(1, Len(targets))' = Outstanding(1, next)
    BY <1>1, <2>1 DEF Outstanding
  <2>5. Replying'
    BY <1>1, <1>2, <1>3, <2>2, <2>3, <2>4 DEF Replying, Receiving
  <2> QED  BY <2>1, <2>5 DEF InStep
<1>5. CASE ~all
  <2>1. pc' = "receive" /\ next' = next + 1
    BY <1>1, <1>5
  <2>2. Responses(next - 1)'
    <3>1. (next - 1)' = n
      BY <1>1, <2>1
    <3> QED  BY <3>1 DEF Responses, SetResponses, SingleResponse, ShardedResponses
  <2>3. /\ Outstanding(next, Len(targets))' = Outstanding(next + 1, Len(targets))
        /\ Outstanding(1, next)' = Outstanding(1, next + 1)
    BY <1>1, <2>1 DEF Outstanding
  <2>4. ASSUME NEW r \in Outstanding(next + 1, Len(targets))
        PROVE  Waiting(r)' /\ (type' = "ShardedGET" => buffers'[r].limit = Capacity)
    <3>1. r \in Servers /\ r \notin Outstanding(1, next) /\ r # s
      BY AtTurn
    <3>2. Waiting(r) /\ (type = "ShardedGET" => buffers[r].limit = Capacity)
      BY <1>1, <3>1, AtTurn DEF Receiving
    <3> QED  BY <1>1, <1>2, <3>1, <3>2
  <2>5. ASSUME NEW r \in Servers \ Outstanding(1, next + 1) PROVE Fresh(r)'
    BY <1>1, <1>2, AtTurn DEF Receiving
  <2>6. Receiving'
    BY <1>3, <2>2, <2>3, <2>4, <2>5 DEF Receiving
  <2> QED  BY <2>1, <2>6 DEF InStep
<1> QED  BY <1>4, <1>5

(* Nothing of the request itself changes while its responses come in.      *)
LEMMA SameRequest ==
  ASSUME UNCHANGED <<request, type, targets>>
  PROVE  /\ Kinds' = Kinds
         /\ \A r, kind : Reply(r, kind)' = Reply(r, kind)
         /\ \A r : buffers'[r] = buffers[r] => (Fresh(r)' <=> Fresh(r))
BY DEF Kinds, Reply, Piece, Fresh

(* The response of one server to a SET is its whole reply to this SET.     *)
LEMMA SetResponseKeepsStep ==
  ASSUME EndsAreEnds, Typed, InStep, NEW s \in Servers, SetResponse(s)
  PROVE  InStep'
<1>1. /\ pc = "receive" /\ s = targets[next] /\ type = "SET" /\ Responded(s)
      /\ buffers' = [buffers EXCEPT ![s] = SetBuffer(s)]
      /\ error' = IF error = <<>> /\ IsSetError(Response(s)) THEN Response(s) ELSE error
      /\ firstPositive' = IF error' = <<>> /\ firstPositive = {} THEN {s} ELSE firstPositive
      /\ WaitForNext(LastTarget)
      /\ UNCHANGED <<request, type, targets, channels, status, answer>>
  BY DEF SetResponse, Responded, ReceivedAll
<1>2. Receiving /\ Waiting(s) /\ next \in 1 .. Len(targets) /\ Len(targets) \in Nat
  BY <1>1, AtTurn, AtTarget DEF InStep, Receiving
<1>3. PICK kind \in Kinds :
        /\ buffers[s].content = <<Reply(s, kind)>> /\ Response(s) = <<Reply(s, kind)>>
        /\ buffers[s].position = Length(kind)
        /\ Silent(s)
        /\ kind = "STORED" => request \in stored[s]
  BY <1>1, <1>2, WholeResponse
<1>4. IsSetError(Response(s)) <=> kind # "STORED"
  BY <1>3, Pieces DEF IsSetError, Reply
<1>5. PICK n \in Int : n = next
  BY <1>2
<1>6. SetResponses(n - 1)
  BY <1>5, <1>1, <1>2 DEF Receiving, Responses
<1>7. /\ buffers'[s] = SetBuffer(s)
      /\ \A r \in Servers : r # s => buffers'[r] = buffers[r]
  BY <1>1 DEF Typed, ChannelsTyped
<1>8. /\ UNCHANGED <<request, type, targets, inbox, outbox, open, stored>>
  BY <1>1 DEF channels
<1>9. /\ Kinds' = Kinds
      /\ \A r, k : Reply(r, k)' = Reply(r, k)
      /\ \A r \in Servers : r # s => (Fresh(r)' <=> Fresh(r))
  BY <1>7, <1>8, SameRequest
<1>10. \A j \in 1 .. n - 1 : targets[j] \in Servers /\ targets[j] # s
  BY <1>5, <1>1, <1>2, AtTarget
<1>11. Fresh(s)' \/ s \in firstPositive'
  <2>1. CASE error = <<>> /\ kind # "STORED"
    <3>1. buffers'[s] = Flipped(buffers[s]) /\ buffers[s] \in ByteBuffers
      BY <1>4, <1>7, <2>1, BufferTyped DEF SetBuffer
    <3>2. buffers'[s].position = 0 /\ buffers'[s].limit = Length(kind)
      BY <1>3, <3>1, BufferOperations
    <3>3. Length(kind) \in ErrorLimits
      BY <1>1, <2>1, KindsAreReplies DEF ErrorLimits
    <3> QED  BY <3>2, <3>3 DEF Fresh
  <2>2. CASE error = <<>> /\ kind = "STORED" /\ firstPositive = {}
    BY <1>1, <1>4, <2>2
  <2>3. CASE error # <<>> \/ (kind = "STORED" /\ firstPositive # {})
    BY <1>4, <1>7, <2>3 DEF SetBuffer, Fresh
  <2> QED  BY <2>1, <2>2, <2>3
<1>12. firstPositive \subseteq firstPositive' /\ firstPositive' \subseteq firstPositive \cup {s}
  BY <1>1
<1>13. \A j \in 1 .. n : Fresh(targets[j])' \/ targets[j] \in firstPositive'
  <2> SUFFICES ASSUME NEW j \in 1 .. n, j # n
               PROVE  Fresh(targets[j])' \/ targets[j] \in firstPositive'
    BY <1>1, <1>11, <1>5
  <2>1. j \in 1 .. n - 1
    BY <1>2, <1>5
  <2>2. Fresh(targets[j]) \/ targets[j] \in firstPositive
    BY <1>6, <2>1 DEF SetResponses
  <2> QED  BY <1>8, <1>9, <1>10, <1>12, <2>1, <2>2
<1>14. firstPositive' \subseteq {targets[j] : j \in 1 .. n}
  <2>1. firstPositive \subseteq {targets[j] : j \in 1 .. n - 1}
    BY <1>6 DEF SetResponses
  <2>2. {targets[j] : j \in 1 .. n - 1} \cup {s} \subseteq {targets[j] : j \in 1 .. n}
    BY <1>1, <1>2, <1>5
  <2> QED  BY <1>12, <2>1, <2>2
<1>15. error' # <<>> => IsError(error, Kinds \ {"STORED"})'
  <2>1. CASE error = <<>> /\ kind # "STORED"
    BY <1>1, <1>3, <1>4, <1>9, <2>1 DEF IsError
  <2>2. CASE error = <<>> /\ kind = "STORED"
    BY <1>1, <1>4, <2>2
  <2>3. CASE error # <<>>
    BY <1>1, <1>6, <1>9, <2>3 DEF SetResponses, IsError
  <2> QED  BY <2>1, <2>2, <2>3
<1>16. ASSUME error' = <<>>
       PROVE  /\ \A j \in 1 .. n : request' \in stored'[targets'[j]]
              /\ \A r \in firstPositive' : buffers'[r].content = <<Reply(r, "STORED")'>>
                                           /\ firstPositive' = {r}
  <2>1. error = <<>> /\ kind = "STORED"
    BY <1>1, <1>3, <1>4, <1>16
  <2>2. /\ \A j \in 1 .. n - 1 : request \in stored[targets[j]]
        /\ \A r \in firstPositive : buffers[r].content = <<Reply(r, "STORED")>>
                                    /\ firstPositive = {r}
        /\ firstPositive \subseteq {targets[j] : j \in 1 .. n - 1}
    BY <1>6, <2>1 DEF SetResponses
  <2>3. request \in stored[s]
    BY <1>3, <2>1
  <2>4. \A j \in 1 .. n : request \in stored[targets[j]]
    BY <1>1, <1>2, <1>5, <2>2, <2>3
  <2>5. CASE firstPositive = {}
    <3>1. firstPositive' = {s} /\ buffers'[s] = Flipped(buffers[s]) /\ buffers[s] \in ByteBuffers
      BY <1>1, <1>4, <1>7, <1>16, <2>1, <2>5, BufferTyped DEF SetBuffer
    <3>2. buffers'[s].content = <<Reply(s, "STORED")>>
      BY <1>3, <2>1, <3>1, BufferOperations
    <3> QED  BY <1>8, <1>9, <2>4, <3>1, <3>2
  <2>6. CASE firstPositive # {}
    <3>1. firstPositive' = firstPositive
      BY <1>1, <2>6
    <3>2. \A r \in firstPositive : r \in Servers /\ r # s
      BY <1>10, <2>2
    <3> QED  BY <1>7, <1>8, <1>9, <2>2, <2>4, <3>1, <3>2
  <2> QED  BY <2>5, <2>6
<1>18. SetResponses(n)'
  BY <1>8, <1>13, <1>14, <1>15, <1>16 DEF SetResponses
<1>19. Responses(n)'
  BY <1>1, <1>18 DEF Responses
<1>20. \A r \in Servers \ Outstanding(1, next) : buffers'[r] = buffers[r]
  BY <1>1, <1>7, AtTurn
<1> QED  BY <1>1, <1>3, <1>5, <1>19, <1>20, ResponseKeepsStep DEF LastTarget

(* The response to a GET is the whole reply of its only server.            *)
LEMMA SingleResponseKeepsStep ==
  ASSUME EndsAreEnds, Typed, InStep, NEW s \in Servers, GetResponse(s) \/ NonshardedResponse(s)
  PROVE  InStep'
<1>1. /\ pc = "receive" /\ s = targets[next] /\ type \notin {"SET", "ShardedGET"} /\ Responded(s)
      /\ buffers' = [buffers EXCEPT ![s] = Flipped(buffers[s])]
      /\ WaitForNext(TRUE)
      /\ UNCHANGED <<request, type, targets, firstPositive, error, channels>>
  <2>1. CASE GetResponse(s)
    BY <2>1 DEF GetResponse, Responded, locals, Typed, ChannelsTyped
  <2>2. CASE NonshardedResponse(s)
    BY <2>2 DEF NonshardedResponse, Responded, locals, Typed, ChannelsTyped
  <2> QED  BY <2>1, <2>2
<1>2. Receiving /\ Waiting(s) /\ next = 1 /\ Len(targets) = 1
  <2>1. Receiving
    BY <1>1 DEF InStep
  <2>2. Waiting(s)
    BY <1>1, <2>1, AtTurn DEF Receiving
  <2>3. Len(targets) = 1 /\ next \in 1 .. Len(targets)
    <3>1. pc \in {"send", "receive", "reply"} /\ pc \in {"send", "receive"}
      BY <1>1
    <3> QED  BY <1>1, <3>1, AtTarget
  <2>4. next = 1
    BY <2>3
  <2> QED  BY <2>1, <2>2, <2>3, <2>4
<1>3. PICK kind \in Kinds : buffers[s].content = <<Reply(s, kind)>> /\ Silent(s)
  BY <1>1, <1>2, WholeResponse
<1>4. /\ buffers'[s] = Flipped(buffers[s])
      /\ \A r \in Servers : r # s => buffers'[r] = buffers[r]
  BY <1>1 DEF Typed, ChannelsTyped
<1>5. buffers'[s].content = <<Reply(s, kind)>>
  BY <1>3, <1>4, BufferTyped, BufferOperations
<1>6. Kinds' = Kinds /\ Reply(s, kind)' = Reply(s, kind)
  BY <1>1, SameRequest
<1>7. SingleResponse(0)
  BY <1>1, <1>2 DEF Receiving, Responses
<1>8. SingleResponse(1)'
  BY <1>1, <1>2, <1>3, <1>5, <1>6, <1>7 DEF SingleResponse
<1>9. Responses(1)'
  BY <1>1, <1>8 DEF Responses
<1>10. \A r \in Servers \ Outstanding(1, next) : buffers'[r] = buffers[r]
  BY <1>1, <1>4, AtTurn
<1>11. PICK n \in Int : n = 1
  OBVIOUS
<1>12. /\ n = next /\ Responses(n)'
       /\ UNCHANGED <<request, type, targets, channels>>
       /\ (next = Len(targets)) \in BOOLEAN
       /\ WaitForNext(next = Len(targets))
  BY <1>1, <1>2, <1>9, <1>11 DEF WaitForNext
<1> QED  BY <1>1, <1>3, <1>10, <1>12, ResponseKeepsStep

(* A refusal of one part of a multi-GET is kept as the error.              *)
LEMMA ShardedErrorKeepsStep ==
  ASSUME EndsAreEnds, Typed, InStep, NEW s \in Servers, ShardedError(s)
  PROVE  InStep'
<1>1. /\ pc = "receive" /\ s = targets[next] /\ type = "ShardedGET" /\ Responded(s)
      /\ buffers' = [buffers EXCEPT ![s] = Flipped(buffers[s])]
      /\ error' = IF error = <<>> THEN Response(s) ELSE error
      /\ WaitForNext(LastTarget)
      /\ UNCHANGED <<request, type, targets, firstPositive, channels>>
  BY DEF ShardedError, Responded, locals, ReceivedAll, Typed, ChannelsTyped
<1>2. Receiving /\ Waiting(s) /\ next \in 1 .. Len(targets)
  BY <1>1, AtTurn, AtTarget DEF InStep, Receiving
<1>3. PICK kind \in Kinds : Response(s) = <<Reply(s, kind)>> /\ Silent(s)
  BY <1>1, <1>2, WholeResponse
<1>4. PICK n \in Int : n = next
  BY <1>2
<1>5. ShardedResponses(n - 1)
  BY <1>1, <1>2, <1>4 DEF Receiving, Responses
<1>6. /\ Kinds' = Kinds /\ \A r, k : Reply(r, k)' = Reply(r, k)
      /\ \A r \in Servers : r # s => buffers'[r] = buffers[r]
  BY <1>1, SameRequest DEF Typed, ChannelsTyped
<1>7. error' # <<>> /\ IsError(error, Kinds)'
  BY <1>1, <1>3, <1>5, <1>6 DEF ShardedResponses, IsError
<1>8. Responses(n)'
  BY <1>1, <1>5, <1>7 DEF Responses, ShardedResponses
<1>9. \A r \in Servers \ Outstanding(1, next) : buffers'[r] = buffers[r]
  BY <1>1, <1>6, AtTurn
<1> QED  BY <1>1, <1>3, <1>4, <1>8, <1>9, ResponseKeepsStep DEF LastTarget

(* A response to one part of a multi-GET goes behind those before it in    *)
(* the first buffer.                                                       *)
LEMMA ShardedResponseKeepsStep ==
  ASSUME EndsAreEnds, Typed, InStep, NEW s \in Servers, ShardedResponse(s)
  PROVE  InStep'
<1>1. /\ pc = "receive" /\ s = targets[next] /\ type = "ShardedGET" /\ Responded(s)
      /\ error = <<>> /\ buffers' = FinalResponse(s)
      /\ WaitForNext(LastTarget)
      /\ UNCHANGED <<request, type, targets, firstPositive, error, channels>>
  BY DEF ShardedResponse, Responded, locals, ReceivedAll
<1>2. /\ Receiving /\ Waiting(s) /\ next \in 1 .. Len(targets) /\ Len(targets) \in Nat
      /\ targets[1] \in Servers
  BY <1>1, AtTurn, AtTarget, AtServer DEF InStep, Receiving
<1>3. PICK kind \in Kinds \cap {"END", "VALUE"} :
        Response(s) = <<Reply(s, kind)>> /\ buffers[s].content = <<Reply(s, kind)>> /\ Silent(s)
  <2>1. PICK kind \in Kinds :
          Response(s) = <<Reply(s, kind)>> /\ buffers[s].content = <<Reply(s, kind)>> /\ Silent(s)
    BY <1>1, <1>2, WholeResponse
  <2>2. ~IsGetError(Response(s))
    BY <1>1 DEF ShardedResponse
  <2>3. kind \in {"END", "VALUE"}
    BY <1>1, <2>1, <2>2, KindsAreReplies, RepliesAssumption, Pieces DEF IsGetError, Reply
  <2> QED  BY <2>1, <2>3
<1>4. PICK n \in Int : n = next /\ n >= 1
  BY <1>2
<1>5. ShardedResponses(n - 1)
  BY <1>1, <1>2, <1>4 DEF Receiving, Responses
<1>6. Kinds' = Kinds /\ \A r, k : Reply(r, k)' = Reply(r, k)
  BY <1>1, SameRequest
<1> DEFINE first == buffers'[targets[1]]
<1>7. /\ first.limit = Capacity /\ Len(first.content) = n
      /\ \A j \in 1 .. n : \E k \in Kinds \cap {"END", "VALUE"} :
            first.content[j] = Reply(targets[j], k)
  <2>1. CASE next = 1
    <3>1. first = Opened(Flipped(buffers[s])) /\ buffers[s] \in ByteBuffers
      BY <1>1, <2>1, FinalParts, BufferTyped
    <3>2. first.limit = Capacity /\ first.content = <<Reply(s, kind)>>
      BY <1>3, <3>1, BufferOperations
    <3> QED  BY <1>1, <1>3, <1>4, <2>1, <3>2
  <2>2. CASE next # 1
    <3> DEFINE before == buffers[targets[1]]
    <3>1. first = AddResponse(before, s) /\ before \in ByteBuffers
      BY <1>1, <1>2, <2>2, FinalParts, BufferTyped
    <3>2. /\ before.limit = Capacity /\ Len(before.content) = n - 1
          /\ \A j \in 1 .. n - 1 : \E k \in Kinds \cap {"END", "VALUE"} :
                before.content[j] = Reply(targets[j], k)
      BY <1>1, <1>4, <1>5, <2>2 DEF ShardedResponses
    <3>3. first.limit = Capacity /\ first.content = before.content \o <<Reply(s, kind)>>
      BY <1>3, <3>1, <3>2, AddParts
    <3>4. before.content \in Seq(Replies)
      BY <3>1 DEF ByteBuffers
    <3> HIDE DEF before, first
    <3> DEFINE whole == before.content \o <<Reply(s, kind)>>
    <3>5. /\ Len(whole) = n /\ whole[n] = Reply(s, kind)
          /\ \A j \in 1 .. n - 1 : whole[j] = before.content[j]
      BY <1>4, <3>2, <3>4
    <3>6. ASSUME NEW j \in 1 .. n
          PROVE  \E k \in Kinds \cap {"END", "VALUE"} : whole[j] = Reply(targets[j], k)
      <4>1. CASE j = n
        BY <1>1, <1>3, <1>4, <3>5, <4>1
      <4>2. CASE j # n
        <5>1. j \in 1 .. n - 1
          BY <4>2
        <5> QED  BY <3>2, <3>5, <5>1
      <4> QED  BY <4>1, <4>2
    <3> QED  BY <3>3, <3>5, <3>6
  <2> QED  BY <2>1, <2>2
<1>8. ShardedResponses(n)'
  BY <1>1, <1>5, <1>6, <1>7 DEF ShardedResponses
<1>9. Responses(n)'
  BY <1>1, <1>8 DEF Responses
<1>10. \A r \in Servers \ Outstanding(1, next) : buffers'[r] = buffers[r]
  <2>1. s \in Outstanding(1, next) /\ targets[1] \in Outstanding(1, next)
    BY <1>1, <1>2, AtTurn DEF Outstanding
  <2> QED  BY <1>1, <2>1, FinalParts
<1> QED  BY <1>1, <1>3, <1>4, <1>9, <1>10, ResponseKeepsStep DEF LastTarget

(* What a read adds is the next part of the reply that is waited for.      *)
LEMMA ReadKeepsStep ==
  ASSUME EndsAreEnds, Typed, InStep, NEW s \in Servers, ReadReply(s)
  PROVE  InStep'
<1>1. /\ pc = "receive" /\ s = targets[next] /\ outbox[s] # <<>>
      /\ UNCHANGED <<pc, request, type, targets, firstPositive, next, error, inbox, open, stored>>
  BY DEF ReadReply, Readable, locals
<1>2. Receiving /\ Waiting(s) /\ next \in 1 .. Len(targets)
  BY <1>1, AtTurn, AtTarget DEF InStep, Receiving
<1>3. /\ Waiting(s)' /\ buffers'[s].limit = buffers[s].limit
      /\ \A r \in Servers : r # s => buffers'[r] = buffers[r] /\ outbox'[r] = outbox[r]
  BY <1>2, ReadKeepsWaiting
<1>4. ASSUME NEW r \in Servers, r # s
      PROVE  /\ Waiting(r) => Waiting(r)'
             /\ Silent(r) => Silent(r)'
             /\ Fresh(r) => Fresh(r)'
  BY <1>1, <1>3, <1>4, SameServer
<1>5. Responses(next - 1)'
  <2>1. PICK n \in Int : n = next - 1
    BY <1>2
  <2>2. \A j \in 1 .. n : targets[j] \in Servers /\ buffers'[targets[j]] = buffers[targets[j]]
    BY <1>1, <1>2, <1>3, <2>1, AtTarget
  <2>3. Responses(n)'
    BY <1>1, <1>2, <2>1, <2>2, ResponsesKept DEF Receiving
  <2>4. (next - 1)' = n
    BY <1>1, <2>1
  <2> QED  BY <2>3, <2>4 DEF Responses, SetResponses, SingleResponse, ShardedResponses
<1>6. /\ Outstanding(next, Len(targets))' = Outstanding(next, Len(targets))
      /\ Outstanding(1, next)' = Outstanding(1, next)
  BY <1>1 DEF Outstanding
<1>7. s \in Outstanding(next, Len(targets)) /\ s \in Outstanding(1, next)
      /\ Outstanding(next, Len(targets)) \subseteq Servers
  BY <1>1, AtTurn, AtTarget DEF Outstanding
<1>8. \A r \in Outstanding(next, Len(targets)) :
        Waiting(r)' /\ (type' = "ShardedGET" => buffers'[r].limit = Capacity)
  BY <1>1, <1>2, <1>3, <1>4, <1>7 DEF Receiving
<1>9. Receiving'
  BY <1>2, <1>4, <1>5, <1>6, <1>7, <1>8 DEF Receiving
<1> QED  BY <1>1, <1>9 DEF InStep

(* The answer clears the buffers the request has used. *)
LEMMA ReplyKeepsStep ==
  ASSUME Typed, InStep, ReplyToClient \/ ClientGone
  PROVE  InStep'
<1>1. /\ pc = "reply" /\ pc' = "idle" /\ buffers' = AfterAnswer
      /\ UNCHANGED <<inbox, outbox>>
  BY DEF ReplyToClient, ClientGone, channels
<1>2. Replying
  BY <1>1 DEF InStep
<1>3. /\ Len(targets) \in Nat
      /\ type = "SET" => Len(targets) = NumServers /\ \A s \in Servers : targets[s + 1] = s
      /\ type \notin {"SET", "ShardedGET"} => Len(targets) = 1
  BY <1>1, AtTarget
<1>4. ASSUME NEW s \in Servers, s \in ClearedBuffers PROVE Fresh(s)'
  <2>1. buffers'[s] = Cleared
    BY <1>1, <1>4 DEF AfterAnswer
  <2> QED  BY <2>1 DEF Fresh
<1>5. ASSUME NEW s \in Servers, s \notin ClearedBuffers, Fresh(s) PROVE Fresh(s)'
  <2>1. buffers'[s] = buffers[s]
    BY <1>1, <1>5 DEF AfterAnswer
  <2> QED  BY <1>5, <2>1 DEF Fresh
<1>6. ASSUME NEW s \in Servers, s \notin ClearedBuffers PROVE Fresh(s)
  <2>1. CASE type = "SET"
    <3>1. SetResponses(Len(targets)) /\ s \notin firstPositive
      BY <1>2, <1>6, <2>1 DEF Replying, Responses, ClearedBuffers
    <3>2. s + 1 \in 1 .. Len(targets) /\ targets[s + 1] = s
      BY <1>3, <2>1, NumServersAssumption DEF Servers
    <3> QED  BY <3>1, <3>2 DEF SetResponses
  <2>2. CASE type = "ShardedGET"
    BY <1>6, <2>2 DEF ClearedBuffers
  <2>3. CASE type \notin {"SET", "ShardedGET"}
    <3>1. s # targets[1] /\ Len(targets) = 1
      BY <1>3, <1>6, <2>3 DEF ClearedBuffers
    <3>2. s \notin Outstanding(1, Len(targets))
      BY <3>1 DEF Outstanding
    <3> QED  BY <1>2, <3>2 DEF Replying
  <2> QED  BY <2>1, <2>2, <2>3
<1>7. \A s \in Servers : Fresh(s)'
  BY <1>4, <1>5, <1>6
<1>8. \A s \in Servers : Silent(s)'
  BY <1>1, <1>2 DEF Replying, Silent
<1> QED  BY <1>1, <1>7, <1>8 DEF InStep, AtRest

(* A multi-GET without keys asks nobody, and clears the buffers.           *)
LEMMA NoKeysKeepsStep ==
  ASSUME InStep, NoKeys
  PROVE  InStep'
<1>1. /\ pc = "idle" /\ pc' = "idle" /\ buffers' = [s \in Servers |-> Cleared]
      /\ UNCHANGED <<inbox, outbox>>
  BY DEF NoKeys, channels
<1>2. AtRest'
  BY <1>1 DEF InStep, AtRest, Silent, Fresh
<1> QED  BY <1>1, <1>2 DEF InStep

(* A step of a handler is one of a request at work.                        *)
LEMMA HandlesAtWork ==
  ASSUME NEW s \in Servers, Handle(s)
  PROVE  pc \in {"send", "receive"}
BY DEF Handle, SendCommand, CommandOverflows, SetSendFails, GetSendFails, ReadReply, ReadTooShort,
       ReadFails, SetResponse, GetResponse, NonshardedResponse, UncountableResponse,
       UnparsableResponse, ShardedResponse, ShardedError, ShardedOverflow, Readable, Responded

(* A SET is acknowledged only with the reply of the server that was first, *)
(* and only if there is no other reply than STORED.                        *)
LEMMA AcknowledgedIsStored ==
  ASSUME Typed, InStep, ReplyToClient, type = "SET", ~IsSetError(Answer), NEW s \in Servers
  PROVE  request \in stored[s]
<1>1. pc = "reply" /\ Replying
  BY DEF ReplyToClient, InStep
<1>2. SetResponses(Len(targets))
  BY <1>1 DEF Replying, Responses
<1>3. error = <<>>
  <2> SUFFICES ASSUME error # <<>> PROVE FALSE
    OBVIOUS
  <2>1. IsSetError(error)
    BY DEF Typed, AtWork
  <2> QED  BY <2>1 DEF Answer
<1>4. s + 1 \in 1 .. Len(targets) /\ targets[s + 1] = s
  BY <1>1, AtTarget, NumServersAssumption DEF Servers
<1> QED  BY <1>2, <1>3, <1>4 DEF SetResponses

-----------------------------------------------------------------------------
(* Out of step: a connection has broken while a SET was being sent.        *)

(* A broken connection stays broken, with nothing to read, as long as no   *)
(* response is taken from it.                                              *)
LEMMA SameDead ==
  ASSUME NEW s \in Servers, Dead(s), open'[s] = open[s], inbox'[s] = inbox[s],
         outbox'[s] = outbox[s], buffers'[s] \in {buffers[s], Cleared},
         pc' = "receive" => s \notin Outstanding(1, next - 1)',
         pc' = "reply" /\ type' = "SET" => error' # <<>>
  PROVE  Dead(s)'
<1>1. Fresh(s)'
  BY DEF Dead, Fresh
<1>2. Silent(s)'
  BY DEF Dead, Silent
<1> QED  BY <1>1, <1>2 DEF Dead

(* The commands of the handler. *)
LEMMA DeadWhileSending ==
  ASSUME Typed, NEW s \in Servers, Dead(s), NEW r \in Servers,
         SendCommand(r) \/ CommandOverflows(r) \/ SetSendFails(r) \/ GetSendFails(r)
  PROVE  Dead(s)'
<1>1. CASE SendCommand(r)
  <2>1. /\ open[r] => r # s
        /\ inbox' = inbox \/ (open[r] /\ \E queue : inbox' = [inbox EXCEPT ![r] = queue])
        /\ buffers' = buffers \/ buffers' = [buffers EXCEPT ![r] = Cleared]
        /\ UNCHANGED <<outbox, open>>
        /\ (pc' = "receive" /\ next' = 1) \/ pc' = "send"
    BY <1>1 DEF SendCommand, Dead
  <2>2. inbox'[s] = inbox[s] /\ buffers'[s] \in {buffers[s], Cleared}
    BY <2>1 DEF Typed, ChannelsTyped
  <2>3. pc' = "receive" => Outstanding(1, next - 1)' = {}
    BY <2>1 DEF Outstanding
  <2> QED  BY <2>1, <2>2, <2>3, SameDead
<1>2. CASE CommandOverflows(r) \/ GetSendFails(r)
  <2>1. /\ pc' \in {"idle", "stopped"} /\ UNCHANGED <<buffers, inbox, outbox, open>>
    BY <1>2 DEF CommandOverflows, GetSendFails, TaskDies, ShutdownMW, channels
  <2> QED  BY <2>1, SameDead
<1>3. CASE SetSendFails(r)
  <2>1. pc' = "reply" /\ error' # <<>> /\ UNCHANGED <<buffers, inbox, outbox, open>>
    BY <1>3 DEF SetSendFails, channels
  <2> QED  BY <2>1, SameDead
<1> QED  BY <1>1, <1>2, <1>3

(* The waits: a server whose connection has broken has nothing to read.    *)
LEMMA DeadWhileReading ==
  ASSUME Typed, NEW s \in Servers, Dead(s), NEW r \in Servers,
         ReadReply(r) \/ ReadTooShort(r) \/ ReadFails(r)
  PROVE  Dead(s)'
<1>1. CASE ReadFails(r)
  <2>1. pc' = "stopped" /\ UNCHANGED <<buffers, inbox, outbox, open>>
    BY <1>1 DEF ReadFails, ShutdownMW, channels
  <2> QED  BY <2>1, SameDead
<1>2. CASE ReadReply(r) \/ ReadTooShort(r)
  <2>1. /\ pc = "receive" /\ outbox[r] # <<>>
        /\ pc' = "idle" \/ (pc' = pc /\ next' = next /\ targets' = targets)
        /\ UNCHANGED <<inbox, open>>
    BY <1>2 DEF ReadReply, ReadTooShort, Readable, locals
  <2>2. r # s
    BY <2>1 DEF Dead, Silent
  <2>3. PICK to : Receive(r, to)
    BY <1>2 DEF ReadReply, ReadTooShort
  <2>4. buffers'[s] = buffers[s] /\ outbox'[s] = outbox[s]
    BY <2>2, <2>3 DEF Receive, Typed, ChannelsTyped
  <2>5. pc' = "receive" => s \notin Outstanding(1, next - 1)'
    BY <2>1 DEF Dead, Outstanding
  <2>6. pc' # "reply"
    BY <2>1
  <2> QED  BY <2>1, <2>4, <2>5, <2>6, SameDead
<1> QED  BY <1>1, <1>2

(* The responses: its own never comes, so that no SET gets beyond it.      *)
LEMMA DeadWhileResponding ==
  ASSUME Typed, NEW s \in Servers, Dead(s), NEW r \in Servers,
         \/ SetResponse(r) \/ GetResponse(r) \/ NonshardedResponse(r)
         \/ UncountableResponse(r) \/ UnparsableResponse(r)
         \/ ShardedResponse(r) \/ ShardedError(r) \/ ShardedOverflow(r)
  PROVE  Dead(s)'
<1>1. Responded(r) /\ pc = "receive" /\ r = targets[next]
  BY DEF SetResponse, GetResponse, NonshardedResponse, UncountableResponse, UnparsableResponse,
         ShardedResponse, ShardedError, ShardedOverflow, Responded
<1>2. r # s /\ s \notin Outstanding(1, next - 1)
  BY <1>1, FreshIsEmpty DEF Dead
<1>3. s \notin Outstanding(1, next) /\ targets[1] # s /\ next \in 1 .. Len(targets)
      /\ targets[1] \in Servers /\ Len(targets) \in Nat
  <2>1. s \notin Outstanding(1, next)
    BY <1>1, <1>2, AtTurn
  <2>2. targets[1] \in Outstanding(1, next)
    BY <1>1, AtServer DEF Outstanding
  <2> QED  BY <1>1, <2>1, <2>2, AtServer
<1>4. UNCHANGED <<type, targets, inbox, outbox, open>>
  BY DEF SetResponse, GetResponse, NonshardedResponse, UncountableResponse, UnparsableResponse,
         ShardedResponse, ShardedError, ShardedOverflow, TaskDies, ShutdownMW, channels, locals
<1>5. buffers'[s] = buffers[s]
  <2>1. CASE ShardedResponse(r)
    BY <1>1, <1>2, <1>3, <2>1, FinalParts DEF ShardedResponse
  <2>2. CASE ShardedOverflow(r)
    BY <1>2, <1>3, <2>2 DEF ShardedOverflow, Typed, ChannelsTyped
  <2>3. CASE UnparsableResponse(r)
    BY <2>3 DEF UnparsableResponse, ShutdownMW
  <2>4. CASE \/ SetResponse(r) \/ GetResponse(r) \/ NonshardedResponse(r)
             \/ UncountableResponse(r) \/ ShardedError(r)
    <3>1. \E b : buffers' = [buffers EXCEPT ![r] = b]
      BY <2>4 DEF SetResponse, GetResponse, NonshardedResponse, UncountableResponse, ShardedError
    <3> QED  BY <1>2, <3>1 DEF Typed, ChannelsTyped
  <2> QED  BY <2>1, <2>2, <2>3, <2>4
<1>6. CASE UncountableResponse(r) \/ UnparsableResponse(r) \/ ShardedOverflow(r)
  <2>1. pc' \in {"idle", "stopped"}
    BY <1>6 DEF UncountableResponse, UnparsableResponse, ShardedOverflow, TaskDies, ShutdownMW
  <2> QED  BY <1>4, <1>5, <2>1, SameDead
<1>7. CASE \/ SetResponse(r) \/ GetResponse(r) \/ NonshardedResponse(r)
           \/ ShardedResponse(r) \/ ShardedError(r)
  <2>1. \/ pc' = "receive" /\ next' = next + 1
        \/ pc' = "reply" /\ (type = "SET" => LastTarget)
    BY <1>7 DEF SetResponse, GetResponse, NonshardedResponse, ShardedResponse, ShardedError,
                WaitForNext, ReceivedAll
  <2>2. CASE pc' = "receive" /\ next' = next + 1
    <3>1. Outstanding(1, next - 1)' = Outstanding(1, next)
      BY <1>3, <1>4, <2>2 DEF Outstanding
    <3> QED  BY <1>3, <1>4, <1>5, <2>2, <3>1, SameDead
  <2>3. CASE pc' = "reply" /\ (type = "SET" => LastTarget)
    <3>1. type # "SET"
      <4> SUFFICES ASSUME type = "SET" PROVE FALSE
        OBVIOUS
      <4>1. next = Len(targets)
        BY <2>3 DEF LastTarget
      <4>2. s + 1 \in 1 .. Len(targets) /\ targets[s + 1] = s
        BY <1>1, AtTarget, NumServersAssumption DEF Servers
      <4>3. s \in Outstanding(1, next)
        BY <4>1, <4>2 DEF Outstanding
      <4> QED  BY <1>3, <4>3
    <3> QED  BY <1>4, <1>5, <2>3, <3>1, SameDead
  <2> QED  BY <2>1, <2>2, <2>3
<1> QED  BY <1>6, <1>7

(* A connection that broke while a SET was sent is never mended.           *)
LEMMA DeadStaysDead ==
  ASSUME Typed, NEW s \in Servers, Dead(s), [Next]_vars
  PROVE  Dead(s)'
<1>1. ASSUME NEW t \in Types, NEW order \in Targets(t), Start(t, order) PROVE Dead(s)'
  <2>1. pc' = "send" /\ UNCHANGED <<buffers, inbox, outbox, open>>
    BY <1>1 DEF Start, channels
  <2> QED  BY <2>1, SameDead
<1>2. ASSUME NEW r \in Servers, Handle(r) PROVE Dead(s)'
  BY <1>2, DeadWhileSending, DeadWhileReading, DeadWhileResponding DEF Handle
<1>3. CASE ReplyToClient \/ ClientGone \/ NoKeys \/ CountFails \/ CountStops
  <2>1. /\ pc' \in {"idle", "stopped"} /\ UNCHANGED <<inbox, outbox, open>>
        /\ \/ buffers' = buffers \/ buffers' = AfterAnswer
           \/ buffers' = [r \in Servers |-> Cleared]
    BY <1>3, Zenon
       DEF ReplyToClient, ClientGone, NoKeys, CountFails, CountStops, ShutdownMW, channels
  <2>2. buffers'[s] \in {buffers[s], Cleared}
    BY <2>1 DEF AfterAnswer
  <2> QED  BY <2>1, <2>2, SameDead
<1>4. ASSUME NEW r \in Servers, NEW kind \in ReplyKinds, ServerAnswers(r, kind) PROVE Dead(s)'
  <2>1. open[r] /\ ~open[s]
    BY <1>4 DEF ServerAnswers, Dead
  <2>2. /\ inbox'[s] = inbox[s] /\ outbox'[s] = outbox[s]
        /\ UNCHANGED <<pc, type, targets, next, error, buffers, open>>
    BY <1>4, <2>1 DEF ServerAnswers, Typed, ChannelsTyped, locals
  <2>3. Outstanding(1, next - 1)' = Outstanding(1, next - 1)
    BY <2>2 DEF Outstanding
  <2> QED  BY <2>2, <2>3, SameDead DEF Dead
<1>5. ASSUME NEW r \in Servers, NEW keep \in BOOLEAN, ConnectionLost(r, keep) PROVE Dead(s)'
  <2>1. open[r] /\ ~open[s]
    BY <1>5 DEF ConnectionLost, Dead
  <2>2. /\ inbox'[s] = inbox[s] /\ outbox'[s] = outbox[s] /\ open'[s] = open[s]
        /\ UNCHANGED <<pc, type, targets, next, error, buffers>>
    BY <1>5, <2>1 DEF ConnectionLost, Typed, ChannelsTyped, locals
  <2>3. Outstanding(1, next - 1)' = Outstanding(1, next - 1)
    BY <2>2 DEF Outstanding
  <2> QED  BY <2>2, <2>3, SameDead DEF Dead
<1>6. CASE UNCHANGED vars
  <2>1. UNCHANGED <<pc, type, targets, next, error, buffers, inbox, outbox, open>>
    BY <1>6 DEF vars, locals, channels
  <2>2. Outstanding(1, next - 1)' = Outstanding(1, next - 1)
    BY <2>1 DEF Outstanding
  <2> QED  BY <2>1, <2>2, SameDead DEF Dead
<1> QED  BY <1>1, <1>2, <1>3, <1>4, <1>5, <1>6 DEF Next

(* The connection that breaks while a SET is sent is one that has not been *)
(* sent the SET: whatever the other servers reply, it does not.            *)
LEMMA FailedSendIsDead ==
  ASSUME Typed, InStep, NEW s \in Servers, SetSendFails(s)
  PROVE  Dead(s)'
<1>1. /\ pc = "send" /\ s = targets[next] /\ ~open[s] /\ pc' = "reply" /\ error' # <<>>
      /\ UNCHANGED <<buffers, inbox, outbox, open>>
  BY DEF SetSendFails, channels
<1>2. Sending
  BY <1>1 DEF InStep
<1>3. Silent(s) /\ Fresh(s)
  BY <1>1, <1>2, AtTurn DEF Sending
<1> QED  BY <1>1, <1>3 DEF Dead, Silent, Fresh

(* A step leaves the thread in step, unless it drops the request, breaks   *)
(* off a SET or shuts the middleware down.                                 *)
LEMMA StepKept ==
  ASSUME EndsAreEnds, Typed, InStep, [Next]_vars
  PROVE  \/ InStep' \/ pc' = "stopped" \/ (status' = "dropped" /\ ~NoKeys)
         \/ \E s \in Servers : Dead(s)'
<1>1. ASSUME NEW t \in Types, NEW order \in Targets(t), Start(t, order) PROVE InStep'
  BY <1>1, StartKeepsStep
<1>2. ASSUME NEW s \in Servers, Handle(s)
      PROVE  \/ InStep' \/ pc' = "stopped" \/ (status' = "dropped" /\ ~NoKeys) \/ Dead(s)'
  <2>10. ~NoKeys
    BY <1>2, HandlesAtWork DEF NoKeys
  <2>1. CASE \/ GetSendFails(s) \/ ReadFails(s) \/ UnparsableResponse(s)
    BY <2>1 DEF GetSendFails, ReadFails, UnparsableResponse, ShutdownMW
  <2>2. CASE \/ CommandOverflows(s) \/ ReadTooShort(s) \/ UncountableResponse(s)
             \/ ShardedOverflow(s)
    BY <2>2, <2>10 DEF CommandOverflows, ReadTooShort, UncountableResponse, ShardedOverflow, TaskDies
  <2>3. CASE SendCommand(s)
    BY <2>3, SendKeepsStep
  <2>4. CASE SetSendFails(s)
    BY <2>4, FailedSendIsDead
  <2>5. CASE ReadReply(s)
    BY <2>5, ReadKeepsStep
  <2>6. CASE SetResponse(s)
    BY <2>6, SetResponseKeepsStep
  <2>7. CASE GetResponse(s) \/ NonshardedResponse(s)
    BY <2>7, SingleResponseKeepsStep
  <2>8. CASE ShardedResponse(s)
    BY <2>8, ShardedResponseKeepsStep
  <2>9. CASE ShardedError(s)
    BY <2>9, ShardedErrorKeepsStep
  <2> QED  BY <1>2, <2>1, <2>2, <2>3, <2>4, <2>5, <2>6, <2>7, <2>8, <2>9 DEF Handle
<1>3. CASE ReplyToClient \/ ClientGone \/ NoKeys
  BY <1>3, ReplyKeepsStep, NoKeysKeepsStep
<1>7. CASE CountFails \/ CountStops
  BY <1>7 DEF CountFails, CountStops, Counting, ShutdownMW, NoKeys
<1>4. ASSUME NEW s \in Servers, NEW kind \in ReplyKinds, ServerAnswers(s, kind) PROVE InStep'
  BY <1>4, AnswerKeepsStep
<1>5. ASSUME NEW s \in Servers, NEW keep \in BOOLEAN, ConnectionLost(s, keep) PROVE InStep'
  BY <1>5, LossKeepsStep
<1>6. CASE UNCHANGED vars
  BY <1>6, StillInStep
<1> QED  BY <1>1, <1>2, <1>3, <1>4, <1>5, <1>6, <1>7 DEF Next

(* Only the answer to a SET can break StoredEverywhere.                    *)
LEMMA StoredKept ==
  ASSUME Typed, StoredEverywhere, [Next]_vars,
         pc = "stopped" \/ InStep \/ \E s \in Servers : Dead(s)
  PROVE  StoredEverywhere'
<1>1. ASSUME UNCHANGED <<request, type, status, answer>>,
             \A s \in Servers : stored[s] \subseteq stored'[s]
      PROVE  StoredEverywhere'
  BY <1>1 DEF StoredEverywhere, IsSetError
<1>2. status' # "answered" => StoredEverywhere'
  BY DEF StoredEverywhere
<1>3. ASSUME NEW t \in Types, NEW order \in Targets(t), Start(t, order) PROVE StoredEverywhere'
  BY <1>2, <1>3 DEF Start
<1>4. ASSUME NEW s \in Servers, Handle(s) PROVE StoredEverywhere'
  <2>1. CASE \/ CommandOverflows(s) \/ ReadTooShort(s) \/ UncountableResponse(s)
             \/ ShardedOverflow(s)
    BY <1>2, <2>1 DEF CommandOverflows, ReadTooShort, UncountableResponse, ShardedOverflow, TaskDies
  <2>2. CASE \/ SendCommand(s) \/ SetSendFails(s) \/ GetSendFails(s) \/ ReadReply(s)
             \/ ReadFails(s) \/ UnparsableResponse(s)
    BY <1>1, <2>2 DEF SendCommand, SetSendFails, GetSendFails, ReadReply, ReadFails,
                      UnparsableResponse, ShutdownMW, locals, channels
  <2>3. CASE \/ SetResponse(s) \/ GetResponse(s) \/ NonshardedResponse(s)
             \/ ShardedResponse(s) \/ ShardedError(s)
    BY <1>1, <2>3 DEF SetResponse, GetResponse, NonshardedResponse, ShardedResponse,
                      ShardedError, locals, channels
  <2> QED  BY <1>4, <2>1, <2>2, <2>3 DEF Handle
<1>5. CASE ReplyToClient
  <2>1. /\ pc = "reply" /\ answer' = Answer
        /\ UNCHANGED <<request, type, stored>>
    BY <1>5 DEF ReplyToClient, locals, channels
  <2>2. CASE InStep
    <3>1. type = "SET" /\ ~IsSetError(Answer) => \A s \in Servers : request \in stored[s]
      BY <1>5, <2>2, AcknowledgedIsStored
    <3> QED  BY <2>1, <3>1 DEF StoredEverywhere, IsSetError
  <2>3. CASE \E s \in Servers : Dead(s)
    <3>1. type = "SET" => error # <<>>
      BY <2>1, <2>3 DEF Dead
    <3>2. type = "SET" => IsSetError(error) /\ Answer = error
      BY <3>1 DEF Typed, AtWork, Answer
    <3> QED  BY <2>1, <3>2 DEF StoredEverywhere, IsSetError
  <2> QED  BY <2>1, <2>2, <2>3
<1>6. CASE ClientGone \/ NoKeys \/ CountFails
  BY <1>2, <1>6 DEF ClientGone, NoKeys, CountFails
<1>10. CASE CountStops
  BY <1>1, <1>10 DEF CountStops, ShutdownMW, locals, channels
<1>7. ASSUME NEW s \in Servers, NEW kind \in ReplyKinds, ServerAnswers(s, kind)
      PROVE  StoredEverywhere'
  <2>1. \A r \in Servers : stored[r] \subseteq stored'[r]
    BY <1>7 DEF ServerAnswers, Typed, ChannelsTyped
  <2> QED  BY <1>1, <1>7, <2>1 DEF ServerAnswers, locals
<1>8. ASSUME NEW s \in Servers, NEW keep \in BOOLEAN, ConnectionLost(s, keep)
      PROVE  StoredEverywhere'
  BY <1>1, <1>8 DEF ConnectionLost, locals
<1>9. CASE UNCHANGED vars
  BY <1>1, <1>9 DEF vars, locals, channels
<1> QED  BY <1>3, <1>4, <1>5, <1>6, <1>7, <1>8, <1>9, <1>10 DEF Next

(* A thread that has stopped takes no step any more.                       *)
LEMMA StoppedStays ==
  ASSUME pc = "stopped", [Next]_vars
  PROVE  pc' = "stopped"
<1>1. \A s \in Servers : ~Handle(s)
  BY HandlesAtWork
<1> QED  BY <1>1 DEF Next, Start, NoKeys, ReplyToClient, CountFails, CountStops, Counting, ClientGone,
                     ServerAnswers, ConnectionLost, vars

(* The thread starts in step.                                              *)
LEMMA FollowedInit == Init => Followed
<1> SUFFICES ASSUME Init PROVE Followed
  OBVIOUS
<1>1. /\ pc = "idle" /\ status = "pending"
      /\ \A s \in Servers : inbox[s] = <<>> /\ outbox[s] = <<>> /\ buffers[s] = Cleared
  BY DEF Init
<1>2. InStep
  BY <1>1 DEF InStep, AtRest, Silent, Fresh
<1>3. StoredEverywhere
  BY <1>1 DEF StoredEverywhere
<1> QED  BY <1>2, <1>3 DEF Followed

(* A thread in step stays so, stops, drops its task, or has a dead         *)
(* connection: in each case no SET is acknowledged that is not stored.     *)
LEMMA FollowedNext ==
  ASSUME EndsAreEnds, Typed, Followed, [Next]_vars, status' # "dropped"
  PROVE  Followed'
<1>1. StoredEverywhere'
  BY StoredKept DEF Followed
<1>2. CASE pc = "stopped"
  BY <1>1, <1>2, StoppedStays DEF Followed
<1>3. CASE InStep
  BY <1>1, <1>3, StepKept DEF Followed
<1>4. CASE \E s \in Servers : Dead(s)
  BY <1>1, <1>4, DeadStaysDead DEF Followed
<1> QED  BY <1>2, <1>3, <1>4 DEF Followed

(* The client of a SET reads STORED only when every server has stored the  *)
(* value, whatever the servers refuse and whichever connections break, as  *)
(* long as no request was dropped before it: SetRequest waits for every    *)
(* server and hides all positive replies behind the first error.           *)
THEOREM AcknowledgedIsStoredEverywhere == EndsAreEnds => (Spec => AckMeansStoredEverywhere)
<1> SUFFICES ASSUME EndsAreEnds PROVE Spec => AckMeansStoredEverywhere
  OBVIOUS
<1>1. Typed /\ Followed /\ [Next]_vars /\ (status # "dropped")' => Followed'
  BY FollowedNext
<1>2. Followed => StoredEverywhere
  BY DEF Followed
<1>3. Spec /\ [](status # "dropped") => []Followed
  BY FollowedInit, TypedAlways, <1>1, PTL DEF Spec
<1> QED  BY <1>2, <1>3, PTL DEF AckMeansStoredEverywhere

-----------------------------------------------------------------------------
(* Undisturbed: no connection breaks, no read ends behind the first byte   *)
(* of a reply, and what is to fit fits: a multi-GET into the buffers, and  *)
(* the responses to it into the first of them.                             *)

Undisturbed ==
  /\ MaxLost = 0
  /\ EndsAreEnds /\ "byte" \notin Cuts
  /\ ReadSharded \/ GetReplies \subseteq {"END", "VALUE"}
  /\ \A limit \in Limits : CommandLength <= limit
  /\ NumServers * ValueLength <= Capacity

(* A response takes no more room than one with values. *)
Gathered ==
  pc = "receive" /\ type = "ShardedGET" /\ error = <<>> /\ next > 1 =>
    buffers[targets[1]].position <= (next - 1) * ValueLength

Connected == \A s \in Servers : open[s]

Bounded == \A s \in Servers : buffers[s].position \in Nat /\ buffers[s].limit \in Nat

Orderly ==
  /\ InStep /\ Connected /\ Bounded /\ Gathered
  /\ pc # "stopped" /\ targets \in Seq(Servers)
  /\ AnswerIsForRequest /\ AnswerIsComplete

(* No handler step ends the middleware or drops the request.               *)
LEMMA NothingStops ==
  ASSUME Undisturbed, Typed, Orderly, NEW s \in Servers
  PROVE  ~SetSendFails(s) /\ ~GetSendFails(s) /\ ~ReadFails(s) /\ ~CommandOverflows(s)
<1>1. open[s]
  BY DEF Orderly, Connected
<1>2. ~CommandOverflows(s)
  <2> SUFFICES ASSUME pc = "send" PROVE CommandFits(s)
    BY DEF CommandOverflows
  <2>1. Fresh(s)
    BY DEF Orderly, InStep, Sending
  <2>2. buffers[s].position = 0 /\ CommandLength <= buffers[s].limit
    BY <2>1, FreshIsEmpty DEF Undisturbed
  <2>3. CommandLength <= Remaining(buffers[s])
    BY <2>2, BufferTyped, Lengths DEF Remaining
  <2> QED  BY <2>3 DEF CommandFits
<1> QED  BY <1>1, <1>2 DEF SetSendFails, GetSendFails, ReadFails

(* A read brings three bytes at least, and fewer than five are no line.    *)
LEMMA NoShortRead ==
  ASSUME Undisturbed, Typed, Orderly, NEW s \in Servers
  PROVE  ~ReadTooShort(s)
<1> SUFFICES ASSUME ReadTooShort(s) PROVE FALSE
  OBVIOUS
<1>1. pc = "receive" /\ s = targets[next] /\ outbox[s] # <<>> /\ Remaining(buffers[s]) > 0
  BY DEF ReadTooShort, Readable
<1>2. PICK to \in ReadEnds(buffers[s], Head(outbox[s])) : Receive(s, to) /\ TooShort(buffers'[s])
  BY DEF ReadTooShort
<1>3. Waiting(s) /\ EndsAreEnds
  BY <1>1, AtTurn DEF Orderly, InStep, Receiving, Undisturbed
<1>4. PICK kind \in Kinds, n \in Nat :
        /\ n \in 0 .. Length(kind)
        /\ Holds(s, kind, n)
        /\ n < Length(kind) /\ outbox[s] = <<Piece(s, kind, n, Length(kind))>>
  BY <1>1, <1>3 DEF Waiting, Unanswered, Answering
<1> DEFINE full == Length(kind)
           reply == Piece(s, kind, n, full)
<1>5. /\ full \in Nat /\ full >= 5 /\ kind \in ReplyKinds /\ Head(outbox[s]) = reply
      /\ reply.from = n /\ reply.to = full /\ reply.kind = kind
  BY <1>4, KindsAreReplies, Lengths, Pieces
<1>6. reply \in Replies
  <2>1. outbox[s] \in Seq(Replies)
    BY DEF Typed, ChannelsTyped
  <2> QED  BY <1>4, <1>5, <2>1
<1>7. /\ buffers[s].position = n /\ buffers[s].limit \in Limits /\ buffers[s].limit \in Int
      /\ buffers[s] \in ByteBuffers
      /\ Remaining(buffers[s]) = buffers[s].limit - n
      /\ IF n = 0 THEN Fresh(s) ELSE buffers[s].content = <<Piece(s, kind, 0, n)>>
  BY <1>4, BufferTyped DEF Holds, Remaining
<1>8. buffers[s].limit >= 5
  <2>1. Capacity > 5
    <3>1. NumServers \in Nat /\ NumServers > 0 /\ ValueLength \in Nat /\ ValueLength > 12
          /\ NumServers * ValueLength <= Capacity /\ Capacity \in Nat
      BY Lengths, NumServersAssumption DEF Undisturbed
    <3>2. NumServers * ValueLength >= ValueLength
      BY <3>1
    <3> QED  BY <3>1, <3>2
  <2>2. \A k \in SetReplies \ {"STORED"} : Length(k) >= 5 /\ Length(k) \in Nat
    BY Lengths, RepliesAssumption DEF ReplyKinds
  <2> QED  BY <1>7, <2>1, <2>2 DEF Limits, ErrorLimits
<1> HIDE DEF reply, full
<1>9. to \in Nat /\ to > n /\ to >= 3
  <2>1. \A c \in CutPoints(kind) : c \in Nat /\ c >= 3
    BY Lengths, <1>3 DEF CutPoints, Undisturbed, EndsAreEnds
  <2>2. /\ to \in Nat /\ to > n
        /\ \/ to \in CutPoints(kind)
           \/ to = full
           \/ to = n + (buffers[s].limit - n)
    BY <1>1, <1>2, <1>4, <1>5, <1>6, <1>7, ReadEndsWithin DEF full
  <2> QED  BY <1>4, <1>5, <1>7, <1>8, <2>1, <2>2
<1>10. /\ buffers'[s].content = <<Piece(s, kind, 0, to)>>
       /\ buffers'[s].position = to
  <2>1. buffers'[s] = Read(buffers[s], reply, to)
    BY <1>2, <1>5 DEF Receive, Typed, ChannelsTyped
  <2>2. [reply EXCEPT !.to = to] = Piece(s, kind, n, to)
    BY Pieces DEF reply
  <2>3. Received(buffers[s]) = IF n = 0 THEN <<>> ELSE <<Piece(s, kind, 0, n)>>
    BY <1>7 DEF Received
  <2>4. AddFragment(Received(buffers[s]), Piece(s, kind, n, to)) = <<Piece(s, kind, 0, to)>>
    BY <1>5, <1>9, <2>3, NextPiece
  <2>5. buffers[s].position + to - reply.from = to
    BY <1>5, <1>7, <1>9
  <2> QED  BY <1>6, <1>7, <1>9, <2>1, <2>2, <2>4, <2>5, ReadParts
<1>11. ASSUME to < 5 PROVE ~endsWithNewline(<<Piece(s, kind, 0, to)>>)
  <2> DEFINE replies == <<Piece(s, kind, 0, to)>>
  <2>1. replies[Len(replies)].kind = kind /\ replies[Len(replies)].to = to
    BY Pieces
  <2>2. Length(kind) >= 5 /\ LineLength > 5 /\ ValueLength - Length("END") > 5
        /\ LineLength \in Nat /\ ValueLength \in Nat /\ Length(kind) \in Nat
    BY <1>5, Lengths DEF full
  <2> HIDE DEF replies
  <2> QED  BY <1>9, <1>11, <2>1, <2>2 DEF endsWithNewline, endsWithEND, replies
<1> QED  BY <1>2, <1>9, <1>10, <1>11, Lengths DEF TooShort

(* How long the responses of a read are. *)
LEMMA ValueIsLongest ==
  ASSUME NEW kind \in {"END", "VALUE"}
  PROVE  Length(kind) \in Nat /\ Length(kind) <= ValueLength /\ Length(kind) >= 5
BY Lengths

(* The values of all servers fit in the buffer of the first.               *)
LEMMA RoomForAll ==
  ASSUME Undisturbed, NEW n \in 1 .. NumServers
  PROVE  /\ n * ValueLength \in Nat /\ (n - 1) * ValueLength \in Nat
         /\ n * ValueLength = (n - 1) * ValueLength + ValueLength
         /\ n * ValueLength <= Capacity
<1>1. n \in Nat /\ NumServers \in Nat /\ ValueLength \in Nat /\ Capacity \in Nat /\ n <= NumServers
      /\ n >= 1
  BY Lengths, NumServersAssumption
<1>2. PICK d \in Nat : NumServers = n + d
  <2>1. NumServers - n \in Nat /\ NumServers = n + (NumServers - n)
    BY <1>1
  <2> QED  BY <2>1
<1>3. NumServers * ValueLength = n * ValueLength + d * ValueLength /\ d * ValueLength >= 0
  BY <1>1, <1>2
<1>4. PICK c \in Nat : n = c + 1
  <2>1. n - 1 \in Nat /\ n = (n - 1) + 1
    BY <1>1
  <2> QED  BY <2>1
<1>5. n * ValueLength = c * ValueLength + ValueLength /\ n - 1 = c
  BY <1>1, <1>4
<1>6. n * ValueLength \in Nat /\ c * ValueLength \in Nat /\ d * ValueLength \in Nat
      /\ NumServers * ValueLength \in Nat
  BY <1>1
<1> DEFINE all == NumServers * ValueLength
           some == n * ValueLength
           rest == d * ValueLength
<1>7. some <= Capacity
  <2>1. all <= Capacity /\ all = some + rest /\ all \in Nat /\ some \in Nat /\ rest \in Nat
    BY <1>3, <1>6 DEF Undisturbed
  <2> HIDE DEF all, some, rest
  <2> QED  BY <1>1, <2>1
<1> QED  BY <1>5, <1>6, <1>7

(* The hit statistic gets through a whole reply.                           *)
LEMMA WholeCounts ==
  ASSUME NEW s, NEW kind \in {"END", "VALUE"}
  PROVE  CountablePiece(Reply(s, kind))
BY Pieces, Lengths DEF CountablePiece, Reply

(* What a handler finds in a response and does with it. *)
LEMMA NothingRefused ==
  ASSUME Undisturbed, Typed, Orderly, NEW s \in Servers
  PROVE  ~UncountableResponse(s) /\ ~UnparsableResponse(s) /\ ~ShardedOverflow(s)
<1>1. ASSUME Responded(s), type = "NonshardedGET"
      PROVE  Countable(Response(s))
  <2>1. Waiting(s) /\ EndsAreEnds
    BY <1>1, AtTurn DEF Orderly, InStep, Receiving, Undisturbed, Responded
  <2>2. PICK kind \in Kinds : Response(s) = <<Reply(s, kind)>>
    BY <1>1, <2>1, WholeResponse
  <2>3. kind \in {"END", "VALUE"}
    <3>1. ~ReadSharded
      BY <1>1 DEF Typed, HandlerTyped, Types
    <3> QED  BY <1>1, <3>1, KindsAreReplies DEF Undisturbed
  <2> QED  BY <2>2, <2>3, WholeCounts DEF Countable
<1>2. ASSUME Responded(s), type = "ShardedGET", error = <<>>, ~IsGetError(Response(s))
      PROVE  ResponseFits(s)
  <2> SUFFICES ASSUME next # 1 PROVE ResponseFits(s)
    BY DEF ResponseFits
  <2>1. pc = "receive" /\ s = targets[next] /\ Receiving /\ Waiting(s) /\ EndsAreEnds
    BY <1>2, AtTurn DEF Orderly, InStep, Receiving, Undisturbed, Responded
  <2>2. PICK kind \in Kinds : Response(s) = <<Reply(s, kind)>>
                              /\ buffers[s].position = Length(kind)
    BY <1>2, <2>1, WholeResponse
  <2>3. kind \in {"END", "VALUE"}
    BY <1>2, <2>2, KindsAreReplies, RepliesAssumption, Pieces DEF IsGetError, Reply
  <2>4. next \in 1 .. NumServers /\ next > 1 /\ targets[1] \in Servers
    <3>1. next \in 1 .. Len(targets) /\ Len(targets) \in 1 .. NumServers
      BY <2>1, AtTarget
    <3>2. targets[1] \in Servers
      BY <2>1, AtServer
    <3> QED  BY <3>1, <3>2, NumServersAssumption
  <2> DEFINE first == buffers[targets[1]]
             before == (next - 1) * ValueLength
             after == next * ValueLength
  <2>5. before \in Nat /\ after \in Nat /\ after = before + ValueLength /\ after <= Capacity
    BY <2>4, RoomForAll
  <2>6. first.position <= before /\ first.position \in Int
    BY <1>2, <2>1, <2>4, BufferTyped DEF Orderly, Gathered
  <2>7. first.limit = Capacity
    <3>1. PICK n \in Int : n = next - 1 /\ n > 0
      BY <2>4
    <3>2. ShardedResponses(n)
      BY <1>2, <2>1, <3>1 DEF Receiving, Responses
    <3> QED  BY <1>2, <3>1, <3>2 DEF ShardedResponses
  <2>8. Length(kind) \in Nat /\ Length(kind) <= ValueLength /\ Length("END") = 5
        /\ Capacity \in Nat /\ ValueLength \in Nat
    BY <2>3, ValueIsLongest, Lengths
  <2> HIDE DEF first, before, after
  <2>9. Length(kind) <= first.limit - first.position + Length("END")
    BY <2>5, <2>6, <2>7, <2>8
  <2> QED  BY <2>2, <2>9 DEF ResponseFits, Remaining, first
<1> QED  BY <1>1, <1>2 DEF UncountableResponse, UnparsableResponse, UnparsablePiece, Countable,
                           ShardedOverflow

(* The hit statistic of a sharded read does not throw.                     *)
LEMMA AnswerCounts ==
  ASSUME Typed, InStep
  PROVE  ~CountFails /\ ~CountStops
<1> SUFFICES ASSUME Counting, NEW i \in DOMAIN Answer PROVE CountablePiece(Answer[i])
  BY DEF CountFails, CountStops, UnparsablePiece
<1>1. pc = "reply" /\ type = "ShardedGET" /\ error = <<>>
  BY DEF Counting
<1>2. Answer = buffers[targets[1]].content /\ Len(targets) \in 1 .. NumServers
      /\ targets[1] \in Servers
  BY <1>1, AtTarget DEF Answer
<1>3. /\ Len(Answer) = Len(targets)
      /\ \A j \in 1 .. Len(targets) : \E kind \in Kinds \cap {"END", "VALUE"} :
            Answer[j] = Reply(targets[j], kind)
  BY <1>1, <1>2 DEF InStep, Replying, Responses, ShardedResponses
<1>4. DOMAIN Answer = 1 .. Len(targets)
  BY <1>2, <1>3, BufferTyped
<1> QED  BY <1>3, <1>4, WholeCounts

(* The connections stay. *)
LEMMA ConnectionsStay ==
  ASSUME Undisturbed, Orderly, NEW s \in Servers, NEW keep \in BOOLEAN
  PROVE  ~ConnectionLost(s, keep)
<1>1. {r \in Servers : ~open[r]} = {}
  BY DEF Orderly, Connected
<1>2. Cardinality({r \in Servers : ~open[r]}) = 0
  BY <1>1, FS_EmptySet
<1> QED  BY <1>2 DEF ConnectionLost, Undisturbed

(* The answer of a request that is in step. *)
LEMMA AnswersRight ==
  ASSUME Typed, InStep, pc = "reply"
  PROVE  /\ \A i \in DOMAIN Answer : Answer[i].request = request
         /\ type # "SET" /\ error = <<>> =>
              /\ Len(Answer) = Len(targets)
              /\ \A i \in DOMAIN Answer : Answer[i].server = targets[i] /\ Whole(Answer[i])
<1>1. Replying /\ Responses(Len(targets))
  BY DEF InStep, Replying
<1>2. \A s, kind : Reply(s, kind).request = request /\ Reply(s, kind).server = s
                   /\ Whole(Reply(s, kind))
  BY Pieces DEF Reply, Whole
<1>3. CASE error # <<>>
  <2>1. PICK s \in Servers, kind \in Kinds : error = <<Reply(s, kind)>>
    BY <1>1, <1>3 DEF Responses, SetResponses, ShardedResponses, SingleResponse, IsError
  <2>2. Answer = <<Reply(s, kind)>>
    BY <1>3, <2>1 DEF Answer
  <2> QED  BY <1>2, <1>3, <2>2
<1>4. CASE error = <<>> /\ type = "SET"
  <2> DEFINE s == CHOOSE r \in firstPositive : TRUE
  <2>1. s \in firstPositive
    BY <1>4, FirstPositive
  <2>2. buffers[s].content = <<Reply(s, "STORED")>>
    BY <1>1, <1>4, <2>1 DEF Responses, SetResponses
  <2>3. Answer = buffers[s].content
    BY <1>4 DEF Answer
  <2> HIDE DEF s
  <2> QED  BY <1>2, <1>4, <2>2, <2>3
<1>5. CASE error = <<>> /\ type = "ShardedGET"
  <2>1. Answer = buffers[targets[1]].content /\ Len(targets) \in 1 .. NumServers
    BY <1>5, AtTarget DEF Answer
  <2>2. /\ Len(Answer) = Len(targets)
        /\ \A j \in 1 .. Len(targets) : \E kind \in Kinds : Answer[j] = Reply(targets[j], kind)
    BY <1>1, <1>5, <2>1 DEF Responses, ShardedResponses
  <2>3. targets[1] \in Servers
    BY AtTarget, <2>1
  <2>4. Answer \in Seq(Replies)
    BY <2>1, <2>3, BufferTyped
  <2>5. DOMAIN Answer = 1 .. Len(targets)
    BY <2>2, <2>4
  <2> QED  BY <1>2, <2>2, <2>5
<1>6. CASE error = <<>> /\ type \notin {"SET", "ShardedGET"}
  <2>1. Answer = buffers[targets[1]].content /\ Len(targets) = 1
    BY <1>6, AtTarget DEF Answer
  <2>2. PICK kind \in Kinds : Answer = <<Reply(targets[1], kind)>>
    BY <1>1, <1>6, <2>1 DEF Responses, SingleResponse
  <2> QED  BY <1>2, <2>1, <2>2
<1> QED  BY <1>3, <1>4, <1>5, <1>6

(* The exchange is orderly at the start.                                   *)
LEMMA OrderlyInit == Init => Orderly
<1> SUFFICES ASSUME Init PROVE Orderly
  OBVIOUS
<1>1. /\ pc = "idle" /\ status = "pending" /\ targets = <<>>
      /\ \A s \in Servers : open[s] /\ buffers[s] = Cleared
  BY DEF Init
<1>2. InStep
  BY FollowedInit, <1>1 DEF InStep, AtRest, Silent, Fresh, Init
<1>3. Bounded
  BY <1>1, ClearedTyped, Lengths DEF Bounded
<1>4. targets \in Seq(Servers)
  BY <1>1
<1> QED  BY <1>1, <1>2, <1>3, <1>4
         DEF Orderly, Connected, Gathered, AnswerIsForRequest, AnswerIsComplete

(* The buffer of the server the handler is at: what each step makes of it. *)
LEMMA BoundedBuffer ==
  ASSUME Bounded, Typed, NEW s \in Servers, NEW b \in ByteBuffers, b.position \in Nat, b.limit \in Nat,
         buffers' = [buffers EXCEPT ![s] = b]
  PROVE  Bounded'
BY DEF Bounded, Typed, ChannelsTyped

(* Positions stay within limits.                                           *)
LEMMA BoundedKept ==
  ASSUME Undisturbed, Typed, Orderly, NEW s \in Servers,
         \/ SendCommand(s) \/ ReadReply(s) \/ SetResponse(s) \/ GetResponse(s)
         \/ NonshardedResponse(s) \/ ShardedResponse(s) \/ ShardedError(s)
  PROVE  Bounded'
<1>1. /\ Bounded /\ buffers[s] \in ByteBuffers /\ buffers \in [Servers -> ByteBuffers]
      /\ buffers[s].position \in Nat /\ buffers[s].limit \in Nat
  BY BufferTyped DEF Orderly, Bounded, Typed, ChannelsTyped
<1>2. Cleared \in ByteBuffers /\ Cleared.position \in Nat /\ Cleared.limit \in Nat
  BY ClearedTyped, Lengths
<1>3. /\ Flipped(buffers[s]) \in ByteBuffers
      /\ Flipped(buffers[s]).position \in Nat /\ Flipped(buffers[s]).limit \in Nat
      /\ Flipped(buffers[s]).limit = buffers[s].position
  BY <1>1, BufferOperations
<1>4. CASE SendCommand(s)
  <2>1. buffers' = buffers \/ buffers' = [buffers EXCEPT ![s] = Cleared]
    BY <1>4 DEF SendCommand
  <2>2. CASE buffers' = buffers
    BY <1>1, <2>2 DEF Bounded
  <2>3. CASE buffers' = [buffers EXCEPT ![s] = Cleared]
    BY <1>1, <1>2, <2>3, BoundedBuffer
  <2> QED  BY <2>1, <2>2, <2>3
<1>5. CASE ReadReply(s)
  <2>1. EndsAreEnds /\ Waiting(s)
    BY <1>5, AtTurn DEF Orderly, InStep, Receiving, Undisturbed, ReadReply, Readable
  <2>2. /\ Waiting(s)' /\ buffers'[s].limit = buffers[s].limit
        /\ \A r \in Servers : r # s => buffers'[r] = buffers[r]
    BY <1>5, <2>1, ReadKeepsWaiting
  <2>3. buffers'[s].position \in Nat
    <3>1. CASE Unanswered(s)'
      BY <3>1, ClearedTyped DEF Unanswered, Fresh
    <3>2. CASE Answering(s)'
      BY <3>2 DEF Answering, Holds
    <3> QED  BY <2>2, <3>1, <3>2 DEF Waiting
  <2> QED  BY <1>1, <2>2, <2>3 DEF Bounded
<1>6. CASE SetResponse(s)
  <2>1. buffers' = [buffers EXCEPT ![s] = Flipped(buffers[s])]
        \/ buffers' = [buffers EXCEPT ![s] = Cleared]
    BY <1>6 DEF SetResponse, SetBuffer
  <2> QED  BY <1>1, <1>2, <1>3, <2>1, BoundedBuffer
<1>7. CASE GetResponse(s) \/ NonshardedResponse(s) \/ ShardedError(s)
  <2>1. buffers' = [buffers EXCEPT ![s] = Flipped(buffers[s])]
    BY <1>1, <1>7 DEF GetResponse, NonshardedResponse, ShardedError
  <2> QED  BY <1>1, <1>3, <2>1, BoundedBuffer
<1>8. CASE ShardedResponse(s)
  <2>1. /\ pc = "receive" /\ s = targets[next] /\ buffers' = FinalResponse(s) /\ Responded(s)
        /\ targets[1] \in Servers
    BY <1>8, AtServer DEF ShardedResponse, Responded
  <2>2. CASE next = 1
    <3>1. buffers'[s] = Opened(Flipped(buffers[s])) /\ s = targets[1]
      BY <2>1, <2>2, FinalParts
    <3>2. buffers'[s].position \in Nat /\ buffers'[s].limit \in Nat
      BY <1>1, <1>3, <3>1, BufferOperations, Lengths
    <3>3. \A r \in Servers : r # s => buffers'[r] = buffers[r]
      BY <2>1, <3>1, FinalParts
    <3> QED  BY <1>1, <3>2, <3>3 DEF Bounded
  <2>3. CASE next # 1
    <3> DEFINE first == targets[1]
    <3>1. /\ buffers'[first] = AddResponse(buffers[first], s)
          /\ buffers'[s] = Drained(Flipped(buffers[s]))
          /\ \A r \in Servers : r \notin {s, first} => buffers'[r] = buffers[r]
      BY <2>1, <2>3, FinalParts
    <3>2. buffers'[s].position \in Nat /\ buffers'[s].limit \in Nat
      BY <1>1, <1>3, <3>1, BufferOperations
    <3>3. /\ buffers[first] \in ByteBuffers
          /\ buffers[first].position \in Nat /\ buffers[first].limit \in Nat
      BY <1>1, <2>1, BufferTyped DEF Bounded
    <3>4. buffers[s].position >= 5
      <4>1. Waiting(s) /\ EndsAreEnds
        BY <2>1, AtTurn DEF Orderly, InStep, Receiving, Undisturbed
      <4>2. PICK kind \in Kinds : buffers[s].position = Length(kind)
        BY <2>1, <4>1, WholeResponse
      <4> QED  BY <4>2, KindsAreReplies, Lengths
    <3>5. /\ buffers'[first].limit = buffers[first].limit
          /\ buffers'[first].position
               = buffers[first].position - Length("END") + buffers[s].position
      BY <3>1, <3>3, AddParts
    <3>6. buffers'[first].position \in Nat
      BY <1>1, <3>3, <3>4, <3>5, Lengths
    <3>7. buffers'[first].limit \in Nat
      BY <3>3, <3>5
    <3> HIDE DEF first
    <3>8. ASSUME NEW r \in Servers PROVE buffers'[r].position \in Nat /\ buffers'[r].limit \in Nat
      <4>1. CASE r = s
        BY <3>2, <4>1
      <4>2. CASE r = first
        BY <3>6, <3>7, <4>2
      <4>3. CASE r \notin {s, first}
        BY <1>1, <3>1, <4>3 DEF Bounded
      <4> QED  BY <4>1, <4>2, <4>3
    <3> QED  BY <3>8 DEF Bounded
  <2> QED  BY <2>2, <2>3
<1> QED  BY <1>4, <1>5, <1>6, <1>7, <1>8

(* What a multi-GET gathers stays within the first buffer.                 *)
LEMMA GatheredKept ==
  ASSUME Undisturbed, Typed, Orderly, NEW s \in Servers,
         \/ SendCommand(s) \/ ReadReply(s) \/ SetResponse(s) \/ GetResponse(s)
         \/ NonshardedResponse(s) \/ ShardedResponse(s) \/ ShardedError(s)
  PROVE  Gathered'
<1>1. CASE SendCommand(s)
  <2>1. pc' = "send" \/ next' = 1
    BY <1>1 DEF SendCommand
  <2> QED  BY <2>1 DEF Gathered
<1>2. CASE SetResponse(s) \/ GetResponse(s) \/ NonshardedResponse(s)
  <2>1. type' # "ShardedGET"
    BY <1>2 DEF SetResponse, GetResponse, NonshardedResponse, locals
  <2> QED  BY <2>1 DEF Gathered
<1>3. CASE ShardedError(s)
  <2>1. pc = "receive" /\ s = targets[next] /\ Responded(s)
    BY <1>3 DEF ShardedError, Responded
  <2>2. Response(s) # <<>>
    BY <2>1 DEF Responded, receivedValidResponse, Response
  <2>3. error' # <<>>
    BY <1>3, <2>2 DEF ShardedError
  <2> QED  BY <2>3 DEF Gathered
<1>4. CASE ReadReply(s)
  <2>1. /\ pc = "receive" /\ s = targets[next]
        /\ UNCHANGED <<pc, type, targets, next, error>>
    BY <1>4 DEF ReadReply, Readable, locals
  <2>2. Waiting(s) /\ EndsAreEnds /\ targets[1] \in Servers /\ next \in 1 .. Len(targets)
    BY <2>1, AtTurn, AtServer DEF Orderly, InStep, Receiving, Undisturbed
  <2>3. next > 1 => targets[1] # s
    BY <2>1, <2>2, AtTarget
  <2>4. next > 1 => buffers'[targets[1]] = buffers[targets[1]]
    BY <1>4, <2>2, <2>3, ReadKeepsWaiting
  <2> QED  BY <2>1, <2>4 DEF Orderly, Gathered
<1>5. CASE ShardedResponse(s)
  <2>1. /\ pc = "receive" /\ s = targets[next] /\ buffers' = FinalResponse(s) /\ Responded(s)
        /\ targets' = targets /\ (pc' = "receive" => next' = next + 1)
        /\ error = <<>> /\ type = "ShardedGET" /\ ~IsGetError(Response(s))
    BY <1>5 DEF ShardedResponse, Responded, WaitForNext, locals
  <2>2. /\ Waiting(s) /\ EndsAreEnds /\ targets[1] \in Servers
        /\ next \in 1 .. Len(targets) /\ Len(targets) \in 1 .. NumServers
    BY <2>1, AtTurn, AtTarget, AtServer DEF Orderly, InStep, Receiving, Undisturbed
  <2>3. PICK kind \in Kinds : Response(s) = <<Reply(s, kind)>>
                              /\ buffers[s].position = Length(kind)
    BY <2>1, <2>2, WholeResponse
  <2>4. kind \in {"END", "VALUE"}
    BY <2>1, <2>3, KindsAreReplies, RepliesAssumption, Pieces DEF IsGetError, Reply
  <2>5. PICK n \in 1 .. NumServers : n = next
    BY <2>2, NumServersAssumption
  <2> DEFINE before == (n - 1) * ValueLength
             after == n * ValueLength
             first == buffers'[targets[1]]
  <2>6. before \in Nat /\ after \in Nat /\ after = before + ValueLength /\ ValueLength \in Nat
    BY RoomForAll, Lengths
  <2>7. Length(kind) \in Nat /\ Length(kind) <= ValueLength /\ Length("END") = 5
    BY <2>4, ValueIsLongest, Lengths
  <2>8. first.position <= after
    <3>1. CASE n = 1
      <4>1. first = Opened(Flipped(buffers[s])) /\ buffers[s] \in ByteBuffers
        BY <2>1, <2>5, <3>1, FinalParts, BufferTyped
      <4>2. first.position = Length(kind)
        BY <2>3, <4>1, BufferOperations
      <4>3. before >= 0
        BY <2>6
      <4> HIDE DEF before, after, first
      <4> QED  BY <2>6, <2>7, <4>2, <4>3
    <3>2. CASE n # 1
      <4>1. first = AddResponse(buffers[targets[1]], s) /\ buffers[targets[1]] \in ByteBuffers
        BY <2>1, <2>2, <2>5, <3>2, FinalParts, BufferTyped
      <4>2. first.position = buffers[targets[1]].position - Length("END") + buffers[s].position
            /\ buffers[targets[1]].position \in Int
        BY <2>2, <4>1, AddParts, BufferTyped
      <4>3. buffers[targets[1]].position <= before
        <5>1. next > 1
          BY <2>5, <3>2
        <5> QED  BY <2>1, <2>5, <5>1 DEF Orderly, Gathered
      <4> HIDE DEF before, after, first
      <4> QED  BY <2>3, <2>6, <2>7, <4>2, <4>3
    <3> QED  BY <3>1, <3>2
  <2>9. pc' = "receive" => next' - 1 = n /\ targets'[1] = targets[1]
    BY <2>1, <2>5
  <2> QED  BY <2>8, <2>9 DEF Gathered
<1> QED  BY <1>1, <1>2, <1>3, <1>4, <1>5

(* Every step of an undisturbed thread keeps the exchange orderly.         *)
LEMMA OrderlyNext ==
  ASSUME Undisturbed, Typed, Orderly, [Next]_vars
  PROVE  Orderly'
<1>1. /\ InStep /\ Connected /\ Bounded /\ Gathered /\ EndsAreEnds
      /\ pc # "stopped" /\ targets \in Seq(Servers)
      /\ AnswerIsForRequest /\ AnswerIsComplete
  BY DEF Orderly, Undisturbed
<1>2. ASSUME NEW s \in Servers, Handle(s)
      PROVE  \/ SendCommand(s) \/ ReadReply(s) \/ SetResponse(s) \/ GetResponse(s)
             \/ NonshardedResponse(s) \/ ShardedResponse(s) \/ ShardedError(s)
  BY <1>2, NothingStops, NoShortRead, NothingRefused DEF Handle
<1>3. ASSUME NEW s \in Servers, Handle(s)
      PROVE  /\ pc \in {"send", "receive"} /\ pc' \in {"send", "receive", "reply"}
             /\ UNCHANGED <<open, targets, status>>
  BY <1>2, <1>3 DEF SendCommand, ReadReply, SetResponse, GetResponse, NonshardedResponse, ShardedResponse,
     ShardedError, Readable, Responded, WaitForNext, locals, channels
<1>4. \A s \in Servers, keep \in BOOLEAN : ~ConnectionLost(s, keep)
  BY ConnectionsStay
<1>5. ASSUME UNCHANGED <<pc, type, targets, next, error, buffers, open, request, status, answer>>
      PROVE  /\ Connected' /\ Bounded' /\ Gathered' /\ pc' # "stopped"
             /\ targets' \in Seq(Servers) /\ AnswerIsForRequest' /\ AnswerIsComplete'
  BY <1>1, <1>5 DEF Connected, Bounded, Gathered, AnswerIsForRequest, AnswerIsComplete
<1>6. /\ Connected' /\ Bounded' /\ Gathered' /\ pc' # "stopped"
      /\ targets' \in Seq(Servers) /\ AnswerIsForRequest' /\ AnswerIsComplete'
  <2>1. ASSUME NEW t \in Types, NEW order \in Targets(t), Start(t, order)
        PROVE  /\ Connected' /\ Bounded' /\ Gathered' /\ pc' # "stopped"
               /\ targets' \in Seq(Servers) /\ AnswerIsForRequest' /\ AnswerIsComplete'
    <3>1. /\ pc' = "send" /\ status' = "pending" /\ targets' = order
          /\ UNCHANGED <<buffers, open>>
      BY <2>1 DEF Start, channels
    <3>2. order \in Seq(Servers)
      BY TargetsListed
    <3> QED  BY <1>1, <3>1, <3>2
             DEF Connected, Bounded, Gathered, AnswerIsForRequest, AnswerIsComplete
  <2>2. ASSUME NEW s \in Servers, Handle(s)
        PROVE  /\ Connected' /\ Bounded' /\ Gathered' /\ pc' # "stopped"
               /\ targets' \in Seq(Servers) /\ AnswerIsForRequest' /\ AnswerIsComplete'
    <3>1. Bounded' /\ Gathered'
      BY <1>2, <2>2, BoundedKept, GatheredKept
    <3>2. status' = "pending"
      BY <1>3, <2>2 DEF Typed, AtWork
    <3> QED  BY <1>1, <1>3, <2>2, <3>1, <3>2 DEF Connected, AnswerIsForRequest, AnswerIsComplete
  <2>3. CASE ReplyToClient \/ ClientGone
    <3>1. /\ pc = "reply" /\ pc' = "idle" /\ buffers' = AfterAnswer
          /\ UNCHANGED <<request, type, targets, error, open>>
          /\ \/ status' = "answered" /\ answer' = Answer
             \/ status' = "closed"
      BY <2>3 DEF ReplyToClient, ClientGone, locals, channels
    <3>2. Bounded'
      BY <1>1, <3>1, ClearedTyped, Lengths DEF Bounded, AfterAnswer
    <3>3. AnswerIsForRequest'
      BY <1>1, <3>1, AnswersRight DEF AnswerIsForRequest
    <3>4. AnswerIsComplete'
      <4>1. type # "SET" /\ error = <<>> =>
              /\ Len(Answer) = Len(targets)
              /\ \A i \in DOMAIN Answer : Answer[i].server = targets[i] /\ Whole(Answer[i])
        BY <1>1, <3>1, AnswersRight
      <4> QED  BY <3>1, <4>1 DEF AnswerIsComplete, Whole
    <3> QED  BY <1>1, <3>1, <3>2, <3>3, <3>4 DEF Connected, Gathered
  <2>6. CASE NoKeys
    <3>1. /\ pc' = "idle" /\ status' = "dropped" /\ targets' = <<>> /\ open' = open
          /\ buffers' = [s \in Servers |-> Cleared]
      BY <2>6 DEF NoKeys, channels
    <3>2. Bounded'
      BY <3>1, ClearedTyped, Lengths DEF Bounded
    <3>3. targets' \in Seq(Servers)
      BY <3>1
    <3> QED  BY <1>1, <3>1, <3>2, <3>3
             DEF Connected, Gathered, AnswerIsForRequest, AnswerIsComplete
  <2>4. ASSUME NEW s \in Servers, NEW kind \in ReplyKinds, ServerAnswers(s, kind)
        PROVE  UNCHANGED <<pc, type, targets, next, error, buffers, open, request, status, answer>>
    BY <2>4 DEF ServerAnswers, locals
  <2>5. CASE UNCHANGED vars
    BY <1>5, <2>5 DEF vars, locals, channels
  <2> QED  BY <1>1, <1>4, <1>5, <2>1, <2>2, <2>3, <2>4, <2>5, <2>6, AnswerCounts DEF Next
<1>7. status' = "dropped" => NoKeys \/ UNCHANGED vars \/ InStep'
  <2>1. ASSUME NEW s \in Servers, Handle(s) PROVE status' # "dropped"
    BY <1>3, <2>1 DEF Typed, AtWork
  <2>2. ASSUME NEW s \in Servers, NEW kind \in ReplyKinds, ServerAnswers(s, kind) PROVE InStep'
    BY <1>1, <2>2, AnswerKeepsStep
  <2> QED  BY <1>1, <1>4, <2>1, <2>2, AnswerCounts DEF Next, Start, ReplyToClient, ClientGone
<1>8. InStep'
  <2>1. CASE UNCHANGED vars
    BY <1>1, <1>6, <2>1, StillInStep
  <2> QED  BY <1>1, <1>6, <1>7, <2>1, StepKept DEF Dead, Connected
<1> QED  BY <1>6, <1>8 DEF Orderly

(* The exchange of an undisturbed thread is always orderly.                *)
LEMMA OrderlyAlways ==
  ASSUME Undisturbed
  PROVE  Spec => []Orderly
<1>1. Typed /\ Orderly /\ [Next]_vars => Orderly'
  BY OrderlyNext
<1> QED  BY OrderlyInit, TypedAlways, <1>1, PTL DEF Spec

(* An orderly exchange has the buffers the type invariant asks for.        *)
LEMMA OrderlyTyped == Typed /\ Orderly => TypeOK
<1> SUFFICES ASSUME Typed, Orderly PROVE TypeOK
  OBVIOUS
<1>1. buffers \in [Servers -> Buffers]
  <2>1. ASSUME NEW s \in Servers PROVE buffers[s] \in Buffers
    <3>1. /\ buffers[s] \in ByteBuffers
          /\ buffers[s].position \in Nat /\ buffers[s].limit \in Nat
      BY BufferTyped DEF Orderly, Bounded
    <3> QED  BY <3>1 DEF ByteBuffers, Buffers
  <2> QED  BY <2>1 DEF Typed, ChannelsTyped
<1>2. inbox \in [Servers -> Seq([request : Requests, type : Types \cup {"unknown"}])]
  BY DEF Typed, ChannelsTyped, Commands
<1> QED  BY <1>1, <1>2 DEF TypeOK, Typed, HandlerTyped, ChannelsTyped, Orderly

(* The types: no position or limit of a buffer ever gets below zero.       *)
THEOREM TypeCorrect == Undisturbed => (Spec => []TypeOK)
<1> SUFFICES ASSUME Undisturbed PROVE Spec => []TypeOK
  OBVIOUS
<1> QED  BY OrderlyAlways, TypedAlways, OrderlyTyped, PTL

(* The answer a client reads is the answer to its own request: whatever    *)
(* the servers refuse, no reply is left over for the next request of the   *)
(* thread, on a connection or in a buffer.                                 *)
THEOREM AnswersOwnRequest == Undisturbed => (Spec => []AnswerIsForRequest)
<1> SUFFICES ASSUME Undisturbed PROVE Spec => []AnswerIsForRequest
  OBVIOUS
<1>1. Orderly => AnswerIsForRequest
  BY DEF Orderly
<1> QED  BY OrderlyAlways, <1>1, PTL

(* A read that is answered with values has the whole response of every     *)
(* server it was split over, each once and in the order of the keys.       *)
THEOREM AnswersCompletely == Undisturbed => (Spec => []AnswerIsComplete)
<1> SUFFICES ASSUME Undisturbed PROVE Spec => []AnswerIsComplete
  OBVIOUS
<1>1. Orderly => AnswerIsComplete
  BY DEF Orderly
<1> QED  BY OrderlyAlways, <1>1, PTL

(* Between two requests every reply has been read.                         *)
THEOREM WireIsEmpty == Undisturbed => (Spec => []NothingLeftOnTheWire)
<1> SUFFICES ASSUME Undisturbed PROVE Spec => []NothingLeftOnTheWire
  OBVIOUS
<1>1. Orderly => NothingLeftOnTheWire
  BY DEF Orderly, InStep, AtRest, Silent, NothingLeftOnTheWire
<1> QED  BY OrderlyAlways, <1>1, PTL

(* Between two requests every buffer is empty and open up to its capacity, *)
(* as long as no server refuses a SET: the refused SET leaves its buffer   *)
(* with the limit of the response.                                         *)
THEOREM BuffersAreReset == Undisturbed /\ SetReplies \subseteq {"STORED"} => (Spec => []BuffersReset)
<1> SUFFICES ASSUME Undisturbed, SetReplies \subseteq {"STORED"} PROVE Spec => []BuffersReset
  OBVIOUS
<1>1. Orderly => BuffersReset
  <2>1. ErrorLimits = {}
    BY DEF ErrorLimits
  <2>2. \A s \in Servers : Fresh(s) => buffers[s] = Cleared
    BY <2>1 DEF Fresh
  <2> QED  BY <2>2 DEF Orderly, InStep, AtRest, BuffersReset
<1> QED  BY OrderlyAlways, <1>1, PTL
-----------------------------------------------------------------------------
(* In step until a request is dropped: with connections that stand, it     *)
(* takes no more than that no read ends behind what looks like an END.     *)

InPlace == Connected /\ (pc = "stopped" \/ InStep) /\ AnswerIsForRequest

(* No bound on the broken connections is left for a first one.             *)
LEMMA NoneIsLost ==
  ASSUME MaxLost = 0, Connected, NEW s \in Servers, NEW keep \in BOOLEAN
  PROVE  ~ConnectionLost(s, keep)
<1>1. {r \in Servers : ~open[r]} = {}
  BY DEF Connected
<1>2. Cardinality({r \in Servers : ~open[r]}) = 0
  BY <1>1, FS_EmptySet
<1> QED  BY <1>2 DEF ConnectionLost

(* The connections stand, and only ReplyToClient gives an answer.          *)
LEMMA InPlaceNext ==
  ASSUME EndsAreEnds, MaxLost = 0, Typed, InPlace, [Next]_vars, status' # "dropped"
  PROVE  InPlace'
<1>1. ASSUME NEW s \in Servers, Handle(s)
      PROVE  open' = open /\ status' \in {status, "dropped"} /\ status = "pending"
  <2>1. status = "pending"
    BY <1>1, HandlesAtWork DEF Typed, AtWork
  <2>2. CASE \/ SendCommand(s) \/ CommandOverflows(s) \/ SetSendFails(s) \/ GetSendFails(s)
             \/ ReadReply(s) \/ ReadTooShort(s) \/ ReadFails(s)
    BY <2>1, <2>2 DEF SendCommand, CommandOverflows, SetSendFails, GetSendFails, ReadReply,
         ReadTooShort, ReadFails, TaskDies, ShutdownMW, channels
  <2>3. CASE \/ SetResponse(s) \/ GetResponse(s) \/ NonshardedResponse(s)
             \/ UncountableResponse(s) \/ UnparsableResponse(s)
             \/ ShardedResponse(s) \/ ShardedError(s) \/ ShardedOverflow(s)
    BY <2>1, <2>3 DEF SetResponse, GetResponse, NonshardedResponse, UncountableResponse,
         UnparsableResponse, ShardedResponse, ShardedError, ShardedOverflow, TaskDies, ShutdownMW,
         channels
  <2> QED  BY <1>1, <2>2, <2>3 DEF Handle
<1>2. Connected'
  <2>1. open' = open
    BY <1>1, NoneIsLost
       DEF InPlace, Next, Start, NoKeys, ReplyToClient, ClientGone, CountFails, CountStops,
           ShutdownMW, ServerAnswers, vars, channels
  <2> QED  BY <2>1 DEF InPlace, Connected
<1>3. pc' = "stopped" \/ InStep'
  <2>1. CASE pc = "stopped"
    BY <2>1, StoppedStays
  <2>2. CASE InStep
    BY <1>2, <2>2, StepKept DEF Dead, Connected
  <2> QED  BY <2>1, <2>2 DEF InPlace
<1>4. AnswerIsForRequest'
  <2>1. ASSUME NEW s \in Servers, Handle(s) PROVE AnswerIsForRequest'
    BY <1>1, <2>1 DEF AnswerIsForRequest
  <2>2. CASE ReplyToClient
    <3>1. pc = "reply" /\ answer' = Answer /\ request' = request
      BY <2>2 DEF ReplyToClient, locals
    <3>2. \A i \in DOMAIN Answer : Answer[i].request = request
      BY <3>1, AnswersRight DEF InPlace
    <3> QED  BY <3>1, <3>2 DEF AnswerIsForRequest
  <2>3. CASE ClientGone \/ NoKeys \/ CountFails
    BY <2>3 DEF ClientGone, NoKeys, CountFails, AnswerIsForRequest
  <2>4. ASSUME NEW t \in Types, NEW order \in Targets(t), Start(t, order) PROVE AnswerIsForRequest'
    BY <2>4 DEF Start, AnswerIsForRequest
  <2>5. ASSUME UNCHANGED <<request, status, answer>> PROVE AnswerIsForRequest'
    BY <2>5 DEF InPlace, AnswerIsForRequest
  <2>6. CASE CountStops
    BY <2>5, <2>6 DEF CountStops, ShutdownMW, locals
  <2>7. ASSUME NEW s \in Servers, NEW kind \in ReplyKinds, ServerAnswers(s, kind)
        PROVE  AnswerIsForRequest'
    BY <2>5, <2>7 DEF ServerAnswers, locals
  <2>8. CASE UNCHANGED vars
    BY <2>5, <2>8 DEF vars, locals
  <2> QED  BY <2>1, <2>2, <2>3, <2>4, <2>6, <2>7, <2>8, NoneIsLost DEF InPlace, Next
<1> QED  BY <1>2, <1>3, <1>4 DEF InPlace

(* As long as no request is dropped and no connection breaks, an answer is *)
(* for its own request and nothing is left on the wire between two         *)
(* requests: not by refused SETs and not by replies cut anywhere but in    *)
(* front of what looks like an END.                                        *)
THEOREM InStepWhileNothingIsDropped == EndsAreEnds /\ MaxLost = 0 => (Spec => InStepUntilDropped)
<1> SUFFICES ASSUME EndsAreEnds, MaxLost = 0 PROVE Spec => InStepUntilDropped
  OBVIOUS
<1>1. Init => InPlace
  BY FollowedInit, OrderlyInit DEF Orderly, InPlace
<1>2. Typed /\ InPlace /\ [Next]_vars /\ (status # "dropped")' => InPlace'
  BY InPlaceNext
<1>3. InPlace => AnswerIsForRequest /\ NothingLeftOnTheWire
  BY DEF InPlace, InStep, AtRest, Silent, NothingLeftOnTheWire
<1>4. Spec /\ [](status # "dropped") => []InPlace
  BY <1>1, <1>2, TypedAlways, PTL DEF Spec
<1> QED  BY <1>3, <1>4, PTL DEF InStepUntilDropped

-----------------------------------------------------------------------------
(* What takes a SET or a GET away.  In step or out of it, a response has   *)
(* five bytes or more, and so has everything that ends where one did.      *)

(* What is to come of a reply, and what came of it.                        *)
Coming(replies) ==
  \A i \in 1 .. Len(replies) :
    replies[i].from < replies[i].to /\ replies[i].to = Length(replies[i].kind)
Came(replies) == \A i \in 1 .. Len(replies) : replies[i].from <= replies[i].to

Roomy(b) == b.position >= 0 /\ b.limit >= 5 /\ Came(b.content)

Accounted ==
  /\ \A s \in Servers : Coming(outbox[s]) /\ Roomy(buffers[s])
  /\ pc = "send" => ~hasRead
  /\ pc = "receive" /\ hasRead => ~TooShort(buffers[targets[next]])
  /\ pc = "receive" /\ type = "ShardedGET" /\ error = <<>> /\ next > 1 =>
       buffers[targets[1]].position >= 5
  /\ OnlyShortReadsDrop

(* A part of the first reply on a connection was read.                     *)
LEMMA FirstChanged ==
  ASSUME NEW replies \in Seq(Replies), replies # <<>>, NEW to
  PROVE  [replies EXCEPT ![1].from = to][1] = [replies[1] EXCEPT !.from = to]
<1>1. 1 \in DOMAIN replies
  BY SMT
<1> QED  BY <1>1, Zenon

(* A cleared buffer has room, and so has one of which a response was read. *)
LEMMA RoomLeft ==
  ASSUME NEW b \in ByteBuffers, Roomy(b), b.position >= 5
  PROVE  /\ Roomy(Flipped(b)) /\ Roomy(Drained(Flipped(b))) /\ Roomy(Opened(Flipped(b)))
         /\ Opened(Flipped(b)).position >= 5
<1>1. /\ Flipped(b) \in ByteBuffers /\ Flipped(b).content = b.content
      /\ Flipped(b).position = 0 /\ Flipped(b).limit = b.position
  BY BufferOperations
<1> DEFINE f == Flipped(b)
<1>2. /\ Drained(f).position = f.limit /\ Drained(f).limit = f.limit
      /\ Opened(f).content = f.content /\ Opened(f).position = f.limit /\ Opened(f).limit = Capacity
  BY <1>1, BufferOperations
<1>3. Drained(f).content = f.content
  BY <1>1 DEF Drained, ByteBuffers
<1>4. b.position \in Int
  BY DEF ByteBuffers
<1> HIDE DEF f
<1>5. Roomy(f) /\ Roomy(Drained(f)) /\ Roomy(Opened(f)) /\ Opened(f).position >= 5
  BY <1>1, <1>2, <1>3, <1>4, Lengths DEF Roomy, f
<1> QED  BY <1>5 DEF f

LEMMA ClearedIsRoomy == Roomy(Cleared)
BY ClearedTyped, Lengths DEF Roomy, Came

(* A response has five bytes at least.                                     *)
LEMMA ResponseIsLong ==
  ASSUME Typed, Accounted, NEW s \in Servers, Responded(s)
  PROVE  /\ buffers[s].position >= 5 /\ Response(s) = buffers[s].content /\ Response(s) # <<>>
         /\ buffers[s] \in ByteBuffers /\ Roomy(buffers[s])
<1>1. /\ pc = "receive" /\ s = targets[next]
      /\ hasRead \/ Remaining(buffers[s]) = 0
      /\ Received(buffers[s]) # <<>> /\ endsWithNewline(Received(buffers[s]))
  BY DEF Responded, receivedValidResponse
<1>2. Received(buffers[s]) = buffers[s].content
  BY <1>1 DEF Received
<1>3. Roomy(buffers[s]) /\ buffers[s] \in ByteBuffers
      /\ buffers[s].position \in Int /\ buffers[s].limit \in Int
  BY BufferTyped DEF Accounted
<1>4. buffers[s].position >= 5
  <2>1. CASE hasRead
    <3>1. ~TooShort(buffers[s])
      BY <1>1, <2>1 DEF Accounted
    <3> QED  BY <1>1, <1>2, <1>3, <3>1, Lengths DEF TooShort
  <2>2. CASE Remaining(buffers[s]) = 0
    BY <1>3, <2>2 DEF Remaining, Roomy
  <2> QED  BY <1>1, <2>1, <2>2
<1> QED  BY <1>1, <1>2, <1>3, <1>4 DEF Response

(* A step behind which no handler waits, and which takes no SET or GET     *)
(* away.                                                                   *)
LEMMA AtRestAccounted ==
  ASSUME \A s \in Servers : Coming(outbox'[s]) /\ Roomy(buffers'[s]),
         pc' \notin {"send", "receive"},
         status' # "dropped" \/ type' \notin {"SET", "GET"}
  PROVE  Accounted'
BY DEF Accounted, OnlyShortReadsDrop, Coming, Came, Roomy

(* One buffer that has room takes the place of another.                    *)
LEMMA OneRoomy ==
  ASSUME Typed, Accounted, NEW s \in Servers, NEW b, Roomy(b), buffers' = [buffers EXCEPT ![s] = b]
  PROVE  \A r \in Servers : Roomy(buffers'[r])
<1> SUFFICES ASSUME NEW r \in Servers PROVE Roomy(buffers'[r])
  OBVIOUS
<1>1. CASE r = s
  BY <1>1 DEF Typed, ChannelsTyped
<1>2. CASE r # s
  BY <1>2 DEF Accounted, Typed, ChannelsTyped
<1> QED  BY <1>1, <1>2

(* The pieces of two responses. *)
LEMMA CameTogether ==
  ASSUME NEW a \in Seq(Replies), NEW b \in Seq(Replies), Came(a), Came(b)
  PROVE  Came(a \o b)
<1> SUFFICES ASSUME NEW i \in 1 .. Len(a \o b) PROVE (a \o b)[i].from <= (a \o b)[i].to
  BY DEF Came
<1>1. CASE i <= Len(a)
  <2>1. (a \o b)[i] = a[i] /\ i \in 1 .. Len(a)
    BY <1>1
  <2> QED  BY <2>1 DEF Came
<1>2. CASE i > Len(a)
  <2>1. (a \o b)[i] = b[i - Len(a)] /\ i - Len(a) \in 1 .. Len(b)
    BY <1>2
  <2> QED  BY <2>1 DEF Came
<1> QED  BY <1>1, <1>2

(* A piece that is read, into a buffer with or without its beginning.      *)
LEMMA FragmentCame ==
  ASSUME NEW replies \in Seq(Replies), Came(replies), NEW piece \in Replies, piece.from <= piece.to
  PROVE  Came(AddFragment(replies, piece))
<1>1. CASE replies # <<>> /\ Continues(piece, replies[Len(replies)])
  <2> DEFINE n == Len(replies)
  <2>1. n \in 1 .. n /\ n \in Nat /\ replies[n] \in Replies
    BY <1>1
  <2>2. replies[n].from <= replies[n].to /\ piece.from = replies[n].to
    BY <1>1, <2>1 DEF Came, Continues
  <2>3. replies[n].from <= piece.to
    BY <2>1, <2>2 DEF Replies
  <2>4. AddFragment(replies, piece) = [replies EXCEPT ![n].to = piece.to]
    BY <1>1 DEF AddFragment
  <2> DEFINE joined == [replies EXCEPT ![n].to = piece.to]
  <2>5. Len(joined) = n /\ \A i \in 1 .. n : i # n => joined[i] = replies[i]
    BY <2>1
  <2>6. joined[n] = [replies[n] EXCEPT !.to = piece.to]
    BY <2>1
  <2>7. joined[n].from = replies[n].from /\ joined[n].to = piece.to
    BY <2>1, <2>6 DEF Replies
  <2> HIDE DEF joined
  <2>8. \A i \in 1 .. n : joined[i].from <= joined[i].to
    BY <2>3, <2>5, <2>7 DEF Came
  <2> QED  BY <2>4, <2>5, <2>8 DEF Came, joined
<1>2. CASE ~(replies # <<>> /\ Continues(piece, replies[Len(replies)]))
  <2>1. AddFragment(replies, piece) = Append(replies, piece)
    BY <1>2 DEF AddFragment
  <2>2. ASSUME NEW i \in 1 .. Len(replies) + 1
        PROVE  Append(replies, piece)[i].from <= Append(replies, piece)[i].to
    <3>1. CASE i = Len(replies) + 1
      BY <3>1
    <3>2. CASE i # Len(replies) + 1
      <4>1. i \in 1 .. Len(replies) /\ Append(replies, piece)[i] = replies[i]
        BY <3>2
      <4> QED  BY <4>1 DEF Came
    <3> QED  BY <3>1, <3>2
  <2> QED  BY <2>1, <2>2 DEF Came
<1> QED  BY <1>1, <1>2

(* A segment ends a reply behind its last byte or before it.               *)
LEMMA CutsInside ==
  ASSUME NEW kind \in ReplyKinds, NEW c \in CutPoints(kind)
  PROVE  c \in Nat /\ c < Length(kind)
<1>1. c = 1 \/ c = 3 \/ (kind = "VALUE" /\ c \in {LineLength, ValueLength - Length("END")})
  BY DEF CutPoints
<1>2. Length(kind) \in Nat /\ Length(kind) >= 5 /\ (kind = "VALUE" => Length(kind) = ValueLength)
  BY Lengths
<1> QED  BY <1>1, <1>2, Lengths

(* A read takes a part of what is to come, and one byte at least.          *)
LEMMA ReceiveAccounted ==
  ASSUME Typed, Accounted, NEW s \in Servers, Readable(s),
         NEW to \in ReadEnds(buffers[s], Head(outbox[s])), Receive(s, to)
  PROVE  /\ \A r \in Servers : Coming(outbox'[r]) /\ Roomy(buffers'[r])
         /\ \A r \in Servers : r # s => buffers'[r] = buffers[r]
         /\ buffers'[s].position >= 1 /\ buffers'[s].position \in Int
<1> DEFINE reply == Head(outbox[s])
           b == buffers[s]
<1>1. /\ outbox[s] \in Seq(Replies) /\ outbox[s] # <<>> /\ Remaining(b) > 0
      /\ outbox \in [Servers -> Seq(Replies)] /\ buffers \in [Servers -> ByteBuffers]
  BY DEF Readable, Typed, ChannelsTyped
<1>2. /\ reply \in Replies /\ reply = outbox[s][1] /\ 1 \in 1 .. Len(outbox[s])
      /\ reply.from < reply.to /\ reply.to = Length(reply.kind)
      /\ reply.from \in Nat /\ reply.to \in Nat /\ reply.kind \in ReplyKinds
  <2>1. reply \in Replies /\ reply = outbox[s][1] /\ 1 \in 1 .. Len(outbox[s])
    BY <1>1
  <2> QED  BY <2>1 DEF Accounted, Coming, Replies
<1>3. /\ b \in ByteBuffers /\ Roomy(b) /\ b.position \in Int /\ b.limit \in Int
      /\ b.position >= 0 /\ b.limit >= 5 /\ Remaining(b) \in Int
      /\ Received(b) \in Seq(Replies) /\ Came(Received(b))
  <2>1. b \in ByteBuffers /\ Roomy(b) /\ b.position \in Int /\ b.limit \in Int
        /\ Received(b) \in Seq(Replies)
    BY BufferTyped DEF Accounted
  <2> QED  BY <2>1 DEF Roomy, Received, Came, Remaining
<1>4. to \in Nat /\ to > reply.from /\ to <= reply.to
  <2>1. /\ to \in Nat /\ to > reply.from
        /\ \/ to \in CutPoints(reply.kind) /\ to > reply.from
           \/ to = reply.to
           \/ to = reply.from + Remaining(b) /\ to < reply.to
           \/ \E c \in CutPoints(reply.kind) : to < c /\ to = reply.from + Remaining(b)
    BY <1>1, <1>2, <1>3, ReadEndsWithin
  <2>2. \A c \in CutPoints(reply.kind) : c \in Nat /\ c < reply.to
    BY <1>2, CutsInside
  <2> HIDE DEF reply, b
  <2> QED  BY <1>2, <1>3, <2>1, <2>2
<1> DEFINE read == Read(b, reply, to)
           piece == [reply EXCEPT !.to = to]
<1>5. /\ buffers' = [buffers EXCEPT ![s] = read]
      /\ outbox' = [outbox EXCEPT ![s] = IF to = reply.to THEN Tail(outbox[s])
                                         ELSE [outbox[s] EXCEPT ![1].from = to]]
  BY <1>1 DEF Receive
<1>6. /\ read.content = AddFragment(Received(b), piece)
      /\ read.position = b.position + to - reply.from /\ read.limit = b.limit
  BY <1>2, <1>3, <1>4, ReadParts
<1>7. Came(read.content)
  <2>1. piece \in Replies /\ piece.from <= piece.to
    BY <1>2, <1>4 DEF Replies
  <2> HIDE DEF piece, b, reply, read
  <2> QED  BY <1>3, <1>6, <2>1, FragmentCame
<1> HIDE DEF read, piece, b
<1>8. Roomy(read) /\ read.position >= 1 /\ read.position \in Int
  BY <1>2, <1>3, <1>4, <1>6, <1>7 DEF Roomy
<1>9. Coming(outbox'[s])
  <2>1. CASE to = reply.to
    <3>1. outbox'[s] = Tail(outbox[s])
      BY <1>1, <1>5, <2>1
    <3>2. \A i \in 1 .. Len(Tail(outbox[s])) :
            i + 1 \in 1 .. Len(outbox[s]) /\ Tail(outbox[s])[i] = outbox[s][i + 1]
      BY <1>1
    <3> QED  BY <3>1, <3>2 DEF Accounted, Coming
  <2>2. CASE to # reply.to
    <3> DEFINE rest == [outbox[s] EXCEPT ![1].from = to]
    <3>1. outbox'[s] = rest
      BY <1>1, <1>5, <2>2
    <3>2. Len(rest) = Len(outbox[s]) /\ \A i \in 1 .. Len(outbox[s]) : i # 1 => rest[i] = outbox[s][i]
      BY <1>1
    <3>3. rest[1] = [reply EXCEPT !.from = to]
      <4>1. outbox[s] \in Seq(Replies) /\ outbox[s] # <<>> /\ reply = outbox[s][1]
        BY <1>1
      <4> QED  BY <4>1, FirstChanged
    <3>4. rest[1].from = to /\ rest[1].to = reply.to /\ rest[1].kind = reply.kind
      BY <1>2, <3>3 DEF Replies
    <3>5. to < reply.to
      BY <1>2, <1>4, <2>2
    <3> HIDE DEF rest, reply
    <3>6. \A i \in 1 .. Len(rest) : rest[i].from < rest[i].to /\ rest[i].to = Length(rest[i].kind)
      BY <1>2, <3>2, <3>4, <3>5 DEF Accounted, Coming
    <3> QED  BY <3>1, <3>6 DEF Coming
  <2> QED  BY <2>1, <2>2
<1> HIDE DEF reply
<1>10. ASSUME NEW r \in Servers, r # s
       PROVE  buffers'[r] = buffers[r] /\ outbox'[r] = outbox[r]
  BY <1>1, <1>5, <1>10
<1>11. buffers'[s] = read
  BY <1>1, <1>5
<1>12. \A r \in Servers : Roomy(buffers'[r])
  BY <1>8, <1>10, <1>11 DEF Accounted
<1>13. \A r \in Servers : Coming(outbox'[r])
  BY <1>9, <1>10 DEF Accounted
<1> QED  BY <1>8, <1>10, <1>11, <1>12, <1>13

(* The commands of the handler: only that of a sharded multi-GET may not   *)
(* fit.                                                                    *)
LEMMA SendAccounted ==
  ASSUME Typed, Accounted, NEW s \in Servers,
         SendCommand(s) \/ CommandOverflows(s) \/ SetSendFails(s) \/ GetSendFails(s)
  PROVE  Accounted'
<1>1. outbox' = outbox /\ pc = "send"
  BY DEF SendCommand, CommandOverflows, SetSendFails, GetSendFails, TaskDies, ShutdownMW, channels
<1>2. \A r \in Servers : Coming(outbox'[r])
  BY <1>1 DEF Accounted
<1>3. status = "pending"
  BY <1>1 DEF Typed, AtWork
<1>4. CASE SendCommand(s)
  <2>1. /\ buffers' = buffers \/ buffers' = [buffers EXCEPT ![s] = Cleared]
        /\ hasRead' = hasRead /\ status' = status
        /\ (pc' = "receive" /\ next' = 1) \/ pc' = "send"
    BY <1>4 DEF SendCommand
  <2>2. \A r \in Servers : Roomy(buffers'[r])
    BY <2>1, ClearedIsRoomy, OneRoomy DEF Accounted
  <2>3. ~hasRead'
    BY <1>1, <2>1 DEF Accounted
  <2> QED  BY <1>2, <1>3, <2>1, <2>2, <2>3 DEF Accounted, OnlyShortReadsDrop, Coming, Came, Roomy
<1>5. CASE CommandOverflows(s)
  <2>1. type = "ShardedGET" /\ type' = type /\ pc' = "idle" /\ buffers' = buffers
    BY <1>5 DEF CommandOverflows, CommandFits, TaskDies, locals
  <2> QED  BY <1>2, <2>1, AtRestAccounted DEF Accounted
<1>6. CASE SetSendFails(s) \/ GetSendFails(s)
  <2>1. pc' \in {"reply", "stopped"} /\ status' = status /\ buffers' = buffers
    BY <1>6 DEF SetSendFails, GetSendFails, ShutdownMW
  <2> QED  BY <1>2, <1>3, <2>1, AtRestAccounted DEF Accounted
<1> QED  BY <1>4, <1>5, <1>6

(* The waits: the task ends with a buffer that was given something, and    *)
(* has fewer than five bytes.                                              *)
LEMMA ReadAccounted ==
  ASSUME Typed, Accounted, NEW s \in Servers, ReadReply(s) \/ ReadTooShort(s) \/ ReadFails(s)
  PROVE  Accounted'
<1>1. /\ pc = "receive" /\ s = targets[next] /\ next \in 1 .. Len(targets) /\ targets[1] \in Servers
      /\ status = "pending"
  BY AtServer DEF ReadReply, ReadTooShort, ReadFails, Readable
<1>2. CASE ReadReply(s)
  <2>1. PICK to \in ReadEnds(buffers[s], Head(outbox[s])) : Receive(s, to) /\ ~TooShort(buffers'[s])
    BY <1>2 DEF ReadReply
  <2>2. /\ \A r \in Servers : Coming(outbox'[r]) /\ Roomy(buffers'[r])
        /\ \A r \in Servers : r # s => buffers'[r] = buffers[r]
    BY <1>2, <2>1, ReceiveAccounted DEF ReadReply
  <2>3. UNCHANGED <<pc, type, targets, next, error, status>>
    BY <1>2 DEF ReadReply, locals
  <2>4. next > 1 => targets[1] # s
    BY <1>1, AtTarget
  <2>5. (pc = "receive" /\ type = "ShardedGET" /\ error = <<>> /\ next > 1 =>
           buffers[targets[1]].position >= 5)'
    BY <1>1, <2>2, <2>3, <2>4 DEF Accounted
  <2>6. (pc = "receive" /\ hasRead => ~TooShort(buffers[targets[next]]))'
    <3>1. TooShort(buffers[s])' <=> TooShort(buffers'[s])
      BY DEF TooShort, endsWithNewline, endsWithEND
    <3> QED  BY <1>1, <2>1, <2>3, <3>1 DEF TooShort, endsWithNewline, endsWithEND
  <2>7. pc' = "receive" /\ status' = "pending"
    BY <1>1, <2>3
  <2> QED  BY <2>2, <2>5, <2>6, <2>7 DEF Accounted, OnlyShortReadsDrop, Coming, Came, Roomy
<1>3. CASE ReadTooShort(s)
  <2>1. PICK to \in ReadEnds(buffers[s], Head(outbox[s])) : Receive(s, to) /\ TooShort(buffers'[s])
    BY <1>3 DEF ReadTooShort
  <2>2. /\ \A r \in Servers : Coming(outbox'[r]) /\ Roomy(buffers'[r])
        /\ buffers'[s].position >= 1 /\ buffers'[s].position \in Int
    BY <1>3, <2>1, ReceiveAccounted DEF ReadTooShort
  <2>3. pc' = "idle" /\ targets'[next'] = s
    BY <1>1, <1>3 DEF ReadTooShort, locals
  <2>4. buffers'[s].position \in 1 .. Length("END") - 1
    BY <2>1, <2>2, Lengths DEF TooShort
  <2> QED  BY <2>2, <2>3, <2>4 DEF Accounted, OnlyShortReadsDrop, Coming, Came, Roomy
<1>4. CASE ReadFails(s)
  <2>1. pc' = "stopped" /\ status' = status /\ buffers' = buffers /\ outbox' = outbox
    BY <1>4 DEF ReadFails, ShutdownMW, channels
  <2> QED  BY <1>1, <2>1, AtRestAccounted DEF Accounted
<1> QED  BY <1>2, <1>3, <1>4

(* A response that the handler goes on with: nothing is dropped, and the   *)
(* first buffer of a sharded multi-GET keeps its END.                      *)
LEMMA GoesOn ==
  ASSUME Accounted, status = "pending", status' = status, outbox' = outbox, hasRead' = FALSE,
         pc' \in {"receive", "reply"}, \A r \in Servers : Roomy(buffers'[r]),
         pc' = "receive" /\ type' = "ShardedGET" /\ error' = <<>> =>
           buffers'[targets'[1]].position >= 5
  PROVE  Accounted'
BY DEF Accounted, OnlyShortReadsDrop, Coming, Came, Roomy

(* The responses a handler accepts. *)
LEMMA AcceptAccounted ==
  ASSUME Typed, Accounted, NEW s \in Servers,
         \/ SetResponse(s) \/ GetResponse(s) \/ NonshardedResponse(s)
         \/ ShardedResponse(s) \/ ShardedError(s)
  PROVE  Accounted'
<1> DEFINE b == buffers[s]
<1>1. /\ pc = "receive" /\ s = targets[next] /\ status = "pending"
      /\ next \in 1 .. Len(targets) /\ targets[1] \in Servers /\ Responded(s)
  BY AtServer DEF SetResponse, GetResponse, NonshardedResponse, ShardedResponse, ShardedError, Responded
<1>2. /\ b \in ByteBuffers /\ Roomy(b) /\ b.position >= 5 /\ b.position \in Int
      /\ Response(s) = b.content /\ Response(s) # <<>>
  BY <1>1, ResponseIsLong, BufferTyped
<1>3. /\ Roomy(Flipped(b)) /\ Roomy(Drained(Flipped(b))) /\ Roomy(Opened(Flipped(b)))
      /\ Opened(Flipped(b)).position >= 5
  BY <1>2, RoomLeft
<1>4. /\ outbox' = outbox /\ status' = status /\ hasRead' = FALSE /\ pc' \in {"receive", "reply"}
      /\ targets' = targets /\ type' = type
  BY DEF SetResponse, GetResponse, NonshardedResponse, ShardedResponse, ShardedError, WaitForNext,
         channels, locals
<1>5. CASE SetResponse(s)
  <2>1. type = "SET" /\ \/ buffers' = [buffers EXCEPT ![s] = Flipped(b)]
                        \/ buffers' = [buffers EXCEPT ![s] = Cleared]
    BY <1>5 DEF SetResponse, SetBuffer
  <2>2. \A r \in Servers : Roomy(buffers'[r])
    BY <1>3, <2>1, ClearedIsRoomy, OneRoomy
  <2> QED  BY <1>1, <1>4, <2>1, <2>2, GoesOn
<1>6. CASE GetResponse(s) \/ NonshardedResponse(s) \/ ShardedError(s)
  <2>1. buffers' = [buffers EXCEPT ![s] = Flipped(b)]
    BY <1>6 DEF GetResponse, NonshardedResponse, ShardedError, Typed, ChannelsTyped
  <2>2. \A r \in Servers : Roomy(buffers'[r])
    BY <1>3, <2>1, OneRoomy
  <2>3. type' = "ShardedGET" => error' # <<>>
    BY <1>2, <1>4, <1>6 DEF GetResponse, NonshardedResponse, ShardedError
  <2> QED  BY <1>1, <1>4, <2>2, <2>3, GoesOn
<1>7. CASE ShardedResponse(s)
  <2>1. buffers' = FinalResponse(s) /\ type = "ShardedGET" /\ error = <<>>
    BY <1>7 DEF ShardedResponse
  <2>2. CASE next = 1
    <3>1. /\ buffers'[s] = Opened(Flipped(b)) /\ s = targets[1]
          /\ \A r \in Servers : r # s => buffers'[r] = buffers[r]
      BY <1>1, <2>1, <2>2, FinalParts
    <3>2. \A r \in Servers : Roomy(buffers'[r])
      BY <1>3, <3>1 DEF Accounted
    <3> QED  BY <1>1, <1>3, <1>4, <3>1, <3>2, GoesOn
  <2>3. CASE next # 1
    <3> DEFINE first == buffers[targets[1]]
               added == AddResponse(first, s)
    <3>1. /\ buffers'[targets[1]] = added /\ buffers'[s] = Drained(Flipped(b))
          /\ \A r \in Servers : r \notin {s, targets[1]} => buffers'[r] = buffers[r]
      BY <1>1, <2>1, <2>3, FinalParts
    <3>2. /\ first \in ByteBuffers /\ Roomy(first) /\ first.position >= 5
          /\ first.position \in Int /\ first.content \in Seq(Replies)
      BY <1>1, <2>1, <2>3, BufferTyped DEF Accounted
    <3>3. /\ added.content = first.content \o b.content
          /\ added.position = first.position - 5 + b.position /\ added.limit = first.limit
      <4>1. /\ added.content = first.content \o Response(s) /\ added.limit = first.limit
            /\ added.position = first.position - Length("END") + b.position
        BY <3>2, AddParts
      <4>2. Length("END") = 5
        BY Lengths
      <4> HIDE DEF added, first, b
      <4> QED  BY <1>2, <4>1, <4>2
    <3>4. b.content \in Seq(Replies)
      BY BufferTyped
    <3> HIDE DEF first, added, b
    <3>5. Came(added.content)
      BY <1>2, <3>2, <3>3, <3>4, CameTogether DEF Roomy
    <3>6. Roomy(added) /\ added.position >= 5
      BY <1>2, <3>2, <3>3, <3>5 DEF Roomy
    <3>7. \A r \in Servers : Roomy(buffers'[r])
      BY <1>3, <3>1, <3>6 DEF Accounted
    <3> QED  BY <1>1, <1>4, <3>1, <3>6, <3>7, GoesOn
  <2> QED  BY <2>2, <2>3
<1> QED  BY <1>5, <1>6, <1>7

(* The responses that end the task are those to multi-GETs.                *)
LEMMA RefuseAccounted ==
  ASSUME Typed, Accounted, NEW s \in Servers,
         UncountableResponse(s) \/ UnparsableResponse(s) \/ ShardedOverflow(s)
  PROVE  Accounted'
<1> DEFINE b == buffers[s]
<1>1. /\ pc = "receive" /\ s = targets[next] /\ status = "pending"
      /\ next \in 1 .. Len(targets) /\ targets[1] \in Servers /\ Responded(s)
  BY AtServer DEF UncountableResponse, UnparsableResponse, ShardedOverflow, Responded
<1>2. /\ b \in ByteBuffers /\ Roomy(b) /\ b.position >= 5 /\ b.position \in Int
      /\ Response(s) = b.content /\ Response(s) # <<>> /\ b.content \in Seq(Replies)
  BY <1>1, ResponseIsLong, BufferTyped
<1>3. /\ outbox' = outbox /\ type' = type /\ pc' \in {"idle", "stopped"}
  BY DEF UncountableResponse, UnparsableResponse, ShardedOverflow, TaskDies, ShutdownMW, channels, locals
<1>4. \A r \in Servers : Coming(outbox'[r])
  BY <1>3 DEF Accounted
<1>5. CASE UncountableResponse(s)
  <2> DEFINE first == Response(s)[1]
             left == [content |-> <<first>>, position |-> first.to - first.from, limit |-> b.position]
  <2>1. 1 \in 1 .. Len(b.content) /\ first \in Replies /\ first.from <= first.to
        /\ first.to - first.from >= 0
    <3>1. 1 \in 1 .. Len(b.content) /\ first \in Replies
      BY <1>2
    <3> QED  BY <1>2, <3>1 DEF Roomy, Came, Replies
  <2>2. buffers' = [buffers EXCEPT ![s] = left]
    BY <1>5 DEF UncountableResponse, Typed, ChannelsTyped
  <2>3. Roomy(left)
    <3> HIDE DEF first, b
    <3>1. left.content = <<first>> /\ left.position = first.to - first.from /\ left.limit = b.position
      OBVIOUS
    <3>2. Came(left.content)
      BY <2>1, <3>1 DEF Came
    <3> QED  BY <1>2, <2>1, <3>1, <3>2 DEF Roomy
  <2> HIDE DEF left
  <2>4. \A r \in Servers : Roomy(buffers'[r])
    BY <2>2, <2>3, OneRoomy
  <2>5. type = "NonshardedGET"
    BY <1>5 DEF UncountableResponse
  <2> QED  BY <1>3, <1>4, <2>4, <2>5, AtRestAccounted
<1>6. CASE UnparsableResponse(s)
  <2>1. buffers' = buffers /\ type = "NonshardedGET"
    BY <1>6 DEF UnparsableResponse, ShutdownMW
  <2> QED  BY <1>3, <1>4, <2>1, AtRestAccounted DEF Accounted
<1>7. CASE ShardedOverflow(s)
  <2> DEFINE first == buffers[targets[1]]
             end == first.position - Length("END")
             moved == [first EXCEPT !.position = end]
             flipped == Flipped(b)
  <2>1. type = "ShardedGET" /\ error = <<>> /\ next # 1
    BY <1>7 DEF ShardedOverflow, ResponseFits
  <2>2. s # targets[1]
    BY <1>1, <2>1, AtTarget
  <2>3. first \in ByteBuffers /\ Roomy(first) /\ first.position >= 5 /\ first.position \in Int
    BY <1>1, <2>1, BufferTyped DEF Accounted
  <2>4. end \in Int /\ end >= 0
    BY <2>3, Lengths
  <2>5. moved.content = first.content /\ moved.position = end /\ moved.limit = first.limit
    <3> HIDE DEF end, first
    <3> QED  BY <2>3, <2>4, SetPosition
  <2>6. Roomy(moved)
    BY <2>3, <2>4, <2>5 DEF Roomy
  <2>7. Roomy(flipped)
    BY <1>2, RoomLeft
  <2>8. buffers' = [buffers EXCEPT ![s] = flipped, ![targets[1]] = moved]
    BY <1>7, <2>2 DEF ShardedOverflow
  <2> HIDE DEF flipped, moved
  <2>9. ASSUME NEW r \in Servers PROVE Roomy(buffers'[r])
    <3>1. buffers'[r] = IF r = targets[1] THEN moved ELSE IF r = s THEN flipped ELSE buffers[r]
      BY <2>8 DEF Typed, ChannelsTyped
    <3> QED  BY <2>6, <2>7, <3>1 DEF Accounted
  <2> QED  BY <1>3, <1>4, <2>1, <2>9, AtRestAccounted
<1> QED  BY <1>5, <1>6, <1>7

(* The exchange is accounted for at the start, and by every step.          *)
LEMMA AccountedInit == Init => Accounted
<1> SUFFICES ASSUME Init PROVE Accounted
  OBVIOUS
<1>1. /\ pc = "idle" /\ status = "pending"
      /\ \A s \in Servers : outbox[s] = <<>> /\ buffers[s] = Cleared
  BY DEF Init
<1>2. Coming(<<>>)
  BY DEF Coming
<1> QED  BY <1>1, <1>2, ClearedIsRoomy DEF Accounted, OnlyShortReadsDrop

LEMMA AccountedNext == Typed /\ Accounted /\ [Next]_vars => Accounted'
<1> SUFFICES ASSUME Typed, Accounted, [Next]_vars PROVE Accounted'
  OBVIOUS
<1>1. ASSUME NEW t \in Types, NEW order \in Targets(t), Start(t, order) PROVE Accounted'
  BY <1>1 DEF Start, channels, Accounted, OnlyShortReadsDrop, Coming, Came, Roomy
<1>2. ASSUME NEW s \in Servers, Handle(s) PROVE Accounted'
  BY <1>2, SendAccounted, ReadAccounted, AcceptAccounted, RefuseAccounted DEF Handle
<1>3. CASE ReplyToClient \/ ClientGone \/ NoKeys \/ CountFails \/ CountStops
  <2>1. /\ pc' \in {"idle", "stopped"} /\ outbox' = outbox
        /\ \/ buffers' = buffers \/ buffers' = AfterAnswer
           \/ buffers' = [r \in Servers |-> Cleared]
    BY <1>3, Zenon
       DEF ReplyToClient, ClientGone, NoKeys, CountFails, CountStops, ShutdownMW, channels
  <2>2. \A r \in Servers : buffers'[r] \in {buffers[r], Cleared}
    BY <2>1 DEF AfterAnswer
  <2>3. status' # "dropped" \/ type' \notin {"SET", "GET"}
    BY <1>3 DEF ReplyToClient, ClientGone, NoKeys, CountFails, CountStops, Counting, ShutdownMW,
                locals, Typed, AtWork
  <2> QED  BY <2>1, <2>2, <2>3, ClearedIsRoomy, AtRestAccounted DEF Accounted
<1>4. ASSUME NEW s \in Servers, NEW kind \in ReplyKinds, ServerAnswers(s, kind) PROVE Accounted'
  <2> DEFINE reply == [server |-> s, request |-> Head(inbox[s]).request, kind |-> kind,
                       from |-> 0, to |-> Length(kind)]
  <2>1. /\ outbox' = [outbox EXCEPT ![s] = Append(outbox[s], reply)]
        /\ UNCHANGED <<pc, targets, type, next, hasRead, error, buffers, status>>
    BY <1>4 DEF ServerAnswers, locals, Typed, ChannelsTyped
  <2>2. reply.from = 0 /\ reply.to = Length(kind) /\ reply.kind = kind
    OBVIOUS
  <2> HIDE DEF reply
  <2>3. Coming(Append(outbox[s], reply))
    <3>1. outbox[s] \in Seq(Replies)
      BY DEF Typed, ChannelsTyped
    <3>2. 0 < Length(kind)
      BY Lengths
    <3>3. ASSUME NEW i \in 1 .. Len(outbox[s]) + 1
          PROVE  /\ Append(outbox[s], reply)[i].from < Append(outbox[s], reply)[i].to
                 /\ Append(outbox[s], reply)[i].to = Length(Append(outbox[s], reply)[i].kind)
      <4>1. CASE i = Len(outbox[s]) + 1
        BY <2>2, <3>1, <3>2, <4>1
      <4>2. CASE i # Len(outbox[s]) + 1
        <5>1. i \in 1 .. Len(outbox[s]) /\ Append(outbox[s], reply)[i] = outbox[s][i]
          BY <3>1, <4>2
        <5> QED  BY <5>1 DEF Accounted, Coming
      <4> QED  BY <4>1, <4>2
    <3> QED  BY <3>1, <3>3 DEF Coming
  <2>4. \A r \in Servers : Coming(outbox'[r])
    BY <2>1, <2>3 DEF Accounted, Typed, ChannelsTyped
  <2> QED  BY <2>1, <2>4 DEF Accounted, OnlyShortReadsDrop, Coming, Came, Roomy, TooShort,
                             endsWithNewline, endsWithEND
<1>5. ASSUME NEW s \in Servers, NEW keep \in BOOLEAN, ConnectionLost(s, keep) PROVE Accounted'
  <2>1. /\ outbox' = outbox \/ outbox' = [outbox EXCEPT ![s] = <<>>]
        /\ UNCHANGED <<pc, targets, type, next, hasRead, error, buffers, status>>
    BY <1>5 DEF ConnectionLost, locals, Typed, ChannelsTyped
  <2>2. Coming(<<>>)
    BY DEF Coming
  <2>3. \A r \in Servers : Coming(outbox'[r])
    BY <2>1, <2>2 DEF Accounted, Typed, ChannelsTyped
  <2> QED  BY <2>1, <2>3 DEF Accounted, OnlyShortReadsDrop, Coming, Came, Roomy, TooShort,
                             endsWithNewline, endsWithEND
<1>6. CASE UNCHANGED vars
  <2>1. UNCHANGED <<pc, targets, type, next, hasRead, error, buffers, status, outbox>>
    BY <1>6 DEF vars, locals, channels
  <2> QED  BY <2>1 DEF Accounted, OnlyShortReadsDrop, Coming, Came, Roomy, TooShort,
                       endsWithNewline, endsWithEND
<1> QED  BY <1>1, <1>2, <1>3, <1>4, <1>5, <1>6 DEF Next

(* Whatever the servers reply, wherever the network cuts it, whichever     *)
(* connections break and whatever was dropped before: no exception leaves  *)
(* the client of a SET or of a GET without an answer but the one over a    *)
(* read that brings fewer than five bytes.                                 *)
THEOREM OnlyShortReadsDropRequests == Spec => []OnlyShortReadsDrop
<1>1. Accounted => OnlyShortReadsDrop
  BY DEF Accounted
<1> QED  BY AccountedInit, AccountedNext, TypedAlways, <1>1, PTL DEF Spec
=============================================================================
