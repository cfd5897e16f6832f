---------------------------- MODULE WorkerThread ----------------------------
(***************************************************************************)
(* One thread of the worker pool: its connections to the memcached servers *)
(* and the buffer of each (MemcachedSocketHandler, one per thread), and    *)
(* the handlers that run on it one after the other (SetRequest,            *)
(* GetRequest, NonShardedMultiGetRequest, ShardedMultiGetRequest).         *)
(*                                                                         *)
(* A reply of a server is a record that names the command it answers, so   *)
(* that an answer can be compared with the request of the client who gets  *)
(* it, and says which of its bytes it stands for: TCP may hand over any    *)
(* prefix of what is on the way.  A ByteBuffer is its position, its limit  *)
(* and the replies it holds.                                               *)
(***************************************************************************)
EXTENDS Integers, Sequences, FiniteSets

CONSTANTS
  NumServers,    \* MemcachedSocketHandler.numServers
  ReadSharded,   \* RunMW.readSharded
  MaxRequests,   \* bound on the requests the thread handles
  MaxLost,       \* bound on the server connections that break
  SetReplies,    \* the kinds of reply the servers give to a set
  GetReplies,    \* the kinds of reply the servers give to a get
  Capacity,      \* SERVER_BUFFER_MAX_BYTES_SIZE
  CommandLength, \* bytes of a multi-GET command for one server
  ErrorLength,   \* bytes of a CLIENT_ERROR or SERVER_ERROR reply
  LineLength,    \* bytes of "VALUE <key> <flags> <bytes>\r\n"
  ValueLength,   \* bytes of a reply with values
  Cuts           \* where a read may end, beside the end of a reply

ReplyKinds == {"STORED", "NOT_STORED", "END", "VALUE", "ERROR", "SERVER_ERROR"}

ASSUME NumServersAssumption == NumServers \in Nat \ {0}
ASSUME ReadShardedAssumption == ReadSharded \in BOOLEAN
ASSUME BoundsAssumption == MaxRequests \in Nat /\ MaxLost \in Nat
ASSUME RepliesAssumption ==
  /\ SetReplies \subseteq {"STORED", "NOT_STORED", "ERROR", "SERVER_ERROR"}
  /\ GetReplies \subseteq {"END", "VALUE", "ERROR", "SERVER_ERROR"}
ASSUME LengthAssumption ==
  /\ {Capacity, CommandLength, ErrorLength, LineLength, ValueLength} \subseteq Nat
  /\ CommandLength > 6 /\ ErrorLength > 14 /\ LineLength > 5 /\ ValueLength > LineLength + 7
  /\ Capacity >= CommandLength
ASSUME CutsAssumption == Cuts \subseteq {"byte", "inside", "line", "data"}

Servers == 0 .. NumServers - 1
Requests == 1 .. MaxRequests

(* The length in bytes of "STORED\r\n", "END\r\n", "ERROR\r\n", ...        *)
Length(kind) ==
  CASE kind = "STORED"       -> 8
    [] kind = "NOT_STORED"   -> 12
    [] kind = "END"          -> 5
    [] kind = "ERROR"        -> 7
    [] kind = "SERVER_ERROR" -> ErrorLength
    [] kind = "VALUE"        -> ValueLength

Types == {"SET", "GET"} \cup {IF ReadSharded THEN "ShardedGET" ELSE "NonshardedGET"}

(* MUTANT: the servers behind the last one are not wrapped around.         *)
NextServer(start, j) == start + j

(* currentServer = (currentServer + 1) % numServers, j times.              *)
ServerAfter(start, j) == (start + j) % NumServers

(* The servers a request goes to, in the order it is sent.  A sharded read *)
(* starts at the hash of its keys and goes round (HashingLoadBalancer); it *)
(* goes to nobody if it has no key, see NoKeys.                            *)
Targets(t) ==
  CASE t = "SET"        -> {[j \in 1 .. NumServers |-> j - 1]}
    [] t = "ShardedGET" -> {[j \in 1 .. n |-> ServerAfter(start, j - 1)] :
                               n \in 1 .. NumServers, start \in Servers}
    [] OTHER            -> {<<s>> : s \in Servers}

VARIABLES
  pc,            \* where the handler is; "stopped" once it called RunMW.shutdown
  request,       \* the number of the request at hand, 0 before the first
  type,          \* its class
  targets,       \* the servers it goes to
  next,          \* the loop variable of the sends and of the receives
  hasRead,       \* the current wait has read something
  error,         \* the handler's error text as replies, <<>> for null
  firstPositive, \* {} or the server whose buffer is firstPositiveResponseBuffer
  buffers,       \* serverBuffers
  inbox,         \* commands on the way to each server
  outbox,        \* replies on the way from each server
  open,          \* whether the connection to the server stands
  stored,        \* the SETs each server has executed
  status,        \* what the client of the request at hand has seen
  answer         \* the replies that were written to it

channels == <<inbox, outbox, open, stored>>
locals == <<request, type, targets, firstPositive>>
vars == <<pc, locals, next, hasRead, error, buffers, channels, status, answer>>

Replies == [server : Servers \cup {-1}, request : Requests, kind : ReplyKinds, from : Nat, to : Nat]
Buffers == [content : Seq(Replies), position : Nat, limit : Nat]

TypeOK ==
  /\ pc \in {"idle", "send", "receive", "reply", "stopped"}
  /\ request \in 0 .. MaxRequests
  /\ type \in Types
  /\ targets \in Seq(Servers)
  /\ next \in Nat
  /\ hasRead \in BOOLEAN
  /\ error \in Seq(Replies)
  /\ firstPositive \in SUBSET Servers
  /\ buffers \in [Servers -> Buffers]
  /\ inbox \in [Servers -> Seq([request : Requests, type : Types \cup {"unknown"}])]
  /\ outbox \in [Servers -> Seq(Replies)]
  /\ open \in [Servers -> BOOLEAN]
  /\ stored \in [Servers -> SUBSET Requests]
  /\ status \in {"pending", "answered", "closed", "dropped"}
  /\ answer \in Seq(Replies)

-----------------------------------------------------------------------------
(* ByteBuffer. Before the position stand the replies that were read into   *)
(* the buffer; after a flip they stand between the position and the limit. *)

Cleared == [content |-> <<>>, position |-> 0, limit |-> Capacity]

Remaining(b) == b.limit - b.position

Flipped(b) == [content |-> b.content, position |-> 0, limit |-> b.position]

(* The buffer once all of it was written to a channel. *)
Drained(b) == [b EXCEPT !.position = b.limit]

(* What a read finds before the position. *)
Received(b) == IF b.position = 0 THEN <<>> ELSE b.content

Whole(reply) == reply.from = 0 /\ reply.to = Length(reply.kind)

(* Where a segment may end in a reply: behind its first byte, within a     *)
(* line, behind the first line, or behind a data block that ends with END. *)
CutPoints(kind) ==
  {1 : c \in Cuts \cap {"byte"}} \cup {3 : c \in Cuts \cap {"inside"}}
    \cup {LineLength : c \in Cuts \cap (IF kind = "VALUE" THEN {"line"} ELSE {})}
    \cup {ValueLength - Length("END") : c \in Cuts \cap (IF kind = "VALUE" THEN {"data"} ELSE {})}

(* How far a read into b may get in a reply: not past the limit.           *)
ReadEnds(b, reply) ==
  {IF to - reply.from <= Remaining(b) THEN to ELSE reply.from + Remaining(b) :
     to \in {c \in CutPoints(reply.kind) : c > reply.from} \cup {reply.to}}

(* The rest of a reply is put behind its beginning.                        *)
Continues(piece, last) ==
  /\ piece.from > 0 /\ piece.from = last.to
  /\ piece.request = last.request /\ piece.kind = last.kind

AddFragment(replies, piece) ==
  IF replies # <<>> /\ Continues(piece, replies[Len(replies)])
  THEN [replies EXCEPT ![Len(replies)].to = piece.to]
  ELSE Append(replies, piece)

(* SocketChannel.read of one more reply, up to its byte to.                *)
Read(b, reply, to) ==
  [b EXCEPT !.content = AddFragment(Received(b), [reply EXCEPT !.to = to]),
            !.position = @ + to - reply.from]

endsWithEND(replies) ==
  LET last == replies[Len(replies)] IN
  \/ last.kind \in {"END", "VALUE"} /\ last.to = Length(last.kind)
  \/ last.kind = "VALUE" /\ last.to = ValueLength - Length("END")

endsWithNewline(replies) ==
  LET last == replies[Len(replies)] IN
  \/ endsWithEND(replies)
  \/ last.to = Length(last.kind)
  \/ last.kind = "VALUE" /\ last.to = LineLength

(* MUTANT: any line is a response.                                         *)
receivedLine(replies) == replies # <<>> /\ endsWithNewline(replies)

(* MemcachedSocketHandler.receivedValidResponse. Of what is in the buffer  *)
(* only the first six or thirteen bytes and the last five are looked at.   *)
receivedValidResponse(replies) ==
  /\ replies # <<>> /\ endsWithNewline(replies)
  /\ \/ /\ Len(replies) = 1 /\ replies[1].from = 0
        /\ replies[1].kind \in {"ERROR", "STORED", "NOT_STORED"}
     \/ endsWithEND(replies)
     \/ replies[1].kind = "SERVER_ERROR" /\ replies[1].from = 0

(* The bytes they look for may lie in front of the buffer: behind a single *)
(* byte the newline, behind a shorter line than "END\r\n" the END.         *)
TooShort(b) == b.position < Length("END") /\ (b.position = 1 \/ endsWithNewline(b.content))

-----------------------------------------------------------------------------
Init ==
  /\ pc = "idle"
  /\ request = 0
  /\ type = "GET"
  /\ targets = <<>>
  /\ next = 1
  /\ hasRead = FALSE
  /\ error = <<>>
  /\ firstPositive = {}
  /\ buffers = [s \in Servers |-> Cleared]
  /\ inbox = [s \in Servers |-> <<>>]
  /\ outbox = [s \in Servers |-> <<>>]
  /\ open = [s \in Servers |-> TRUE]
  /\ stored = [s \in Servers |-> {}]
  /\ status = "pending"
  /\ answer = <<>>

(* Worker.run calls handle on the next request of the queue. *)
Start(t, order) ==
  /\ pc = "idle"
  /\ request < MaxRequests
  /\ pc' = "send"
  /\ request' = request + 1
  /\ type' = t
  /\ targets' = order
  /\ next' = 1
  /\ hasRead' = FALSE
  /\ error' = <<>>
  /\ firstPositive' = {}
  /\ status' = "pending"
  /\ answer' = <<>>
  /\ UNCHANGED <<buffers, channels>>

(* An unchecked exception leaves handle; the pool's FutureTask keeps it    *)
(* and nobody asks for it. The client gets no answer.                      *)
TaskDies ==
  /\ pc' = "idle"
  /\ status' = "dropped"
  /\ UNCHANGED <<locals, next, hasRead, error, channels, answer>>

(* A sharded multi-GET of blanks only: split gives no key, no server is     *)
(* asked, and flip is called on null, within the try whose finally resets  *)
(* the buffers.                                                            *)
NoKeys ==
  /\ pc = "idle" /\ ReadSharded
  /\ request < MaxRequests
  /\ request' = request + 1
  /\ type' = "ShardedGET"
  /\ targets' = <<>>
  /\ firstPositive' = {}
  /\ error' = <<>>
  /\ buffers' = [s \in Servers |-> Cleared]
  /\ status' = "dropped"
  /\ answer' = <<>>
  /\ UNCHANGED <<pc, next, hasRead, channels>>

(* RunMW.shutdown interrupts this thread as well: whatever the handler     *)
(* does afterwards on a channel fails.                                     *)
ShutdownMW ==
  /\ pc' = "stopped"
  /\ UNCHANGED <<locals, next, hasRead, error, buffers, channels, status, answer>>

-----------------------------------------------------------------------------
(* Sending: sendToAll, sendToSingleServer, or the first loop of a sharded  *)
(* read, which builds every command in the buffer of its server.           *)

LastTarget == next = Len(targets)

(* MUTANT: every command is built in the buffer of its server.             *)
CommandFitsAlways(s) == CommandLength <= Remaining(buffers[s])

(* buffer.put(command): BufferOverflowException if the limit is too near.  *)
CommandFits(s) == type = "ShardedGET" => CommandLength <= Remaining(buffers[s])

Command == [request |-> request, type |-> type]

(* The command of a sharded read is put behind what was left in the buffer *)
(* by a request that was dropped, and all of it is sent.                   *)
Leftover(s) == type = "ShardedGET" /\ buffers[s].position > 0

(* Every line of that is a command no server knows. A single byte is none: *)
(* it spoils the command behind it.                                        *)
SpoiltCommand(b) ==
  LET unknown == [Command EXCEPT !.type = "unknown"]
      values == {i \in DOMAIN b.content : b.content[i].kind = "VALUE"}
      lines == IF b.position < Length("END") THEN 1 ELSE 2 * Cardinality(values)
  IN [i \in 1 .. lines |-> unknown] \o (IF b.position = 1 THEN <<>> ELSE <<Command>>)

(* A write to a broken connection may still be taken by the kernel.        *)
SendCommand(s) ==
  /\ pc = "send" /\ s = targets[next]
  /\ CommandFits(s)
  /\ inbox' = IF ~open[s] THEN inbox
              ELSE IF Leftover(s) THEN [inbox EXCEPT ![s] = @ \o SpoiltCommand(buffers[s])]
              ELSE [inbox EXCEPT ![s] = Append(@, Command)]
  /\ buffers' = IF type = "ShardedGET" THEN [buffers EXCEPT ![s] = Cleared]
                                       ELSE buffers
  /\ IF LastTarget THEN pc' = "receive" /\ next' = 1
                   ELSE pc' = "send" /\ next' = next + 1
  /\ UNCHANGED <<locals, hasRead, error, outbox, open, stored, status, answer>>

CommandOverflows(s) ==
  /\ pc = "send" /\ s = targets[next]
  /\ ~CommandFits(s)
  /\ TaskDies
  /\ UNCHANGED buffers

(* IOException: a SET answers SERVER_ERROR by itself and goes on, a read   *)
(* shuts the middleware down.                                              *)
SetSendFails(s) ==
  /\ pc = "send" /\ s = targets[next] /\ ~open[s]
  /\ type = "SET"
  /\ error' = <<[server |-> -1, request |-> request, kind |-> "SERVER_ERROR",
                 from |-> 0, to |-> ErrorLength]>>
  /\ pc' = "reply"
  /\ UNCHANGED <<locals, next, hasRead, buffers, channels, status, answer>>

GetSendFails(s) ==
  /\ pc = "send" /\ s = targets[next] /\ ~open[s]
  /\ type # "SET" /\ CommandFits(s)
  /\ ShutdownMW

-----------------------------------------------------------------------------
(* The servers answer the commands of a connection in order.               *)

ServerAnswers(s, kind) ==
  /\ inbox[s] # <<>> /\ open[s]
  /\ kind \in CASE Head(inbox[s]).type = "SET"     -> SetReplies
               [] Head(inbox[s]).type = "unknown" -> {"ERROR"}
               [] OTHER                           -> GetReplies
  /\ inbox' = [inbox EXCEPT ![s] = Tail(@)]
  /\ outbox' = [outbox EXCEPT ![s] =
       Append(@, [server |-> s, request |-> Head(inbox[s]).request, kind |-> kind,
                  from |-> 0, to |-> Length(kind)])]
  /\ stored' = IF kind = "STORED"
               THEN [stored EXCEPT ![s] = @ \cup {Head(inbox[s]).request}]
               ELSE stored
  /\ UNCHANGED <<pc, locals, next, hasRead, error, buffers, open, status, answer>>

(* The connection breaks; the replies that arrived before can still be     *)
(* read after an orderly close (keep), not after a reset.                  *)
ConnectionLost(s, keep) ==
  /\ open[s]
  /\ Cardinality({r \in Servers : ~open[r]}) < MaxLost
  /\ open' = [open EXCEPT ![s] = FALSE]
  /\ inbox' = [inbox EXCEPT ![s] = <<>>]
  /\ outbox' = [outbox EXCEPT ![s] = IF keep THEN @ ELSE <<>>]
  /\ UNCHANGED <<pc, locals, next, hasRead, error, buffers, stored, status, answer>>

-----------------------------------------------------------------------------
(* Waiting: waitForSingleResponse reads until the buffer holds a valid     *)
(* response. One read may bring several replies: the check need not run    *)
(* between two steps of ReadReply. Without room, read returns 0.           *)

Readable(s) ==
  /\ pc = "receive" /\ s = targets[next]
  /\ outbox[s] # <<>>
  /\ Remaining(buffers[s]) > 0

(* The read takes the first reply on the way up to its byte to.            *)
Receive(s, to) ==
  LET reply == Head(outbox[s]) IN
  /\ buffers' = [buffers EXCEPT ![s] = Read(@, reply, to)]
  /\ outbox' = [outbox EXCEPT ![s] = IF to = reply.to THEN Tail(@) ELSE [@ EXCEPT ![1].from = to]]

ReadReply(s) ==
  /\ Readable(s)
  /\ \E to \in ReadEnds(buffers[s], Head(outbox[s])) :
       /\ Receive(s, to)
       /\ ~TooShort(buffers'[s])
  /\ hasRead' = TRUE
  /\ UNCHANGED <<pc, locals, next, error, inbox, open, stored, status, answer>>

ReadTooShort(s) ==
  /\ Readable(s)
  /\ \E to \in ReadEnds(buffers[s], Head(outbox[s])) :
       /\ Receive(s, to)
       /\ TooShort(buffers'[s])
  /\ pc' = "idle"
  /\ status' = "dropped"
  /\ UNCHANGED <<locals, next, hasRead, error, inbox, open, stored, answer>>

(* End of stream or IOException.                                           *)
ReadFails(s) ==
  /\ pc = "receive" /\ s = targets[next]
  /\ ~open[s] /\ outbox[s] = <<>>
  /\ Remaining(buffers[s]) > 0
  /\ hasRead => ~receivedValidResponse(Received(buffers[s]))
  /\ ShutdownMW

(* The response of server s is complete.                                   *)
Responded(s) ==
  /\ pc = "receive" /\ s = targets[next]
  /\ hasRead \/ Remaining(buffers[s]) = 0
  /\ receivedValidResponse(Received(buffers[s]))

(* The next wait of the loop, or the end of it.                            *)
WaitForNext(all) ==
  /\ hasRead' = FALSE
  /\ IF all THEN pc' = "reply" /\ UNCHANGED next
            ELSE pc' = "receive" /\ next' = next + 1

Response(s) == Received(buffers[s])

(* SetRequest.getError: anything but STORED is an error.                   *)
IsSetError(replies) == replies[1].kind # "STORED" \/ replies[1].from > 0

(* MUTANTS: the loop is left at the first error, or at the first response  *)
(* without one.                                                            *)
EndsAtError(failed) == LastTarget \/ failed
EndsAtFirst(failed) == LastTarget \/ ~failed

(* The loop reads the responses of all servers, also after an error.       *)
ReceivedAll(failed) == LastTarget

(* MUTANT: the responses behind the first positive one are not cleared.    *)
SetBufferKept(s) == Flipped(buffers[s])

(* The buffer of a server after SetRequest's loop has seen its response:   *)
(* the erroneous response and the first positive one stay in theirs.       *)
SetBuffer(s) ==
  IF error = <<>> /\ (IsSetError(Response(s)) \/ firstPositive = {})
  THEN Flipped(buffers[s])
  ELSE Cleared

SetResponse(s) ==
  /\ Responded(s) /\ type = "SET"
  /\ buffers' = [buffers EXCEPT ![s] = SetBuffer(s)]
  /\ error' = IF error = <<>> /\ IsSetError(Response(s)) THEN Response(s) ELSE error
  /\ firstPositive' = IF error' = <<>> /\ firstPositive = {} THEN {s} ELSE firstPositive
  /\ WaitForNext(ReceivedAll(error' # <<>>))
  /\ UNCHANGED <<request, type, targets, channels, status, answer>>

(* GetRequest: the response goes to the client whatever it says.           *)
GetResponse(s) ==
  /\ Responded(s) /\ type = "GET"
  /\ buffers' = [buffers EXCEPT ![s] = Flipped(@)]
  /\ WaitForNext(TRUE)
  /\ UNCHANGED <<locals, error, channels, status, answer>>

(* MultiGetRequest.gatherCacheHitStatistic walks from VALUE to VALUE up to *)
(* the END. It also gets past a rest of a reply that is the END, or that   *)
(* begins in the VALUE of its line and has the three blanks.               *)
CountablePiece(piece) ==
  /\ piece.kind \in {"VALUE", "END"} /\ piece.to = Length(piece.kind)
  /\ \/ piece.kind = "VALUE" /\ piece.from <= 5
     \/ piece.from = piece.to - Length("END")

Countable(replies) == CountablePiece(replies[1])

NonshardedResponse(s) ==
  /\ Responded(s) /\ type = "NonshardedGET"
  /\ Countable(Response(s))
  /\ buffers' = [buffers EXCEPT ![s] = Flipped(@)]
  /\ WaitForNext(TRUE)
  /\ UNCHANGED <<locals, error, channels, status, answer>>

(* findNextVALUE on a line with fewer than three blanks: the substring     *)
(* from -1 throws. The position is behind the line, and nobody clears.     *)
UncountableResponse(s) ==
  /\ Responded(s) /\ type = "NonshardedGET"
  /\ ~Countable(Response(s))
  /\ buffers' = [buffers EXCEPT ![s] =
       [content |-> <<Response(s)[1]>>,
        position |-> Response(s)[1].to - Response(s)[1].from,
        limit |-> @.position]]
  /\ TaskDies

(* With three blanks in an error text or in a line of data, what follows   *)
(* them is no number.                                                      *)
UnparsablePiece(piece) == piece.kind \in {"SERVER_ERROR", "VALUE"} /\ ~CountablePiece(piece)

UnparsableResponse(s) ==
  /\ Responded(s) /\ type = "NonshardedGET"
  /\ UnparsablePiece(Response(s)[1])
  /\ ShutdownMW

(* ShardedMultiGetRequest.getError: ERROR and everything that starts with  *)
(* C or S, or does not end with END.                                       *)
IsGetError(replies) ==
  \/ replies[1].kind \in {"ERROR", "SERVER_ERROR", "STORED"} /\ replies[1].from = 0
  \/ ~endsWithEND(replies)

(* addResponseToFinalResponseBuffer: the END of the final response is      *)
(* overwritten by the next response.                                       *)
AddResponse(final, s) ==
  [final EXCEPT !.content = @ \o Response(s),
                !.position = @ - Length("END") + buffers[s].position]

ResponseFits(s) ==
  \/ next = 1
  \/ buffers[s].position <= Remaining(buffers[targets[1]]) + Length("END")

(* finalResponseBuffer: appended to from its limit on, up to its capacity. *)
Opened(b) == [b EXCEPT !.position = b.limit, !.limit = Capacity]

(* Without an error, the first response stays in its buffer and the others *)
(* are appended to it.                                                     *)
FinalResponse(s) ==
  IF next = 1
  THEN [buffers EXCEPT ![s] = Opened(Flipped(@))]
  ELSE [buffers EXCEPT ![targets[1]] = AddResponse(@, s), ![s] = Drained(Flipped(@))]

ShardedResponse(s) ==
  /\ Responded(s) /\ type = "ShardedGET"
  /\ error = <<>> /\ ~IsGetError(Response(s)) /\ ResponseFits(s)
  /\ buffers' = FinalResponse(s)
  /\ WaitForNext(ReceivedAll(FALSE))
  /\ UNCHANGED <<locals, error, channels, status, answer>>

ShardedError(s) ==
  /\ Responded(s) /\ type = "ShardedGET"
  /\ error # <<>> \/ IsGetError(Response(s))
  /\ error' = IF error = <<>> THEN Response(s) ELSE error
  /\ buffers' = [buffers EXCEPT ![s] = Flipped(@)]
  /\ WaitForNext(ReceivedAll(TRUE))
  /\ UNCHANGED <<locals, channels, status, answer>>

(* BufferOverflowException, before the block that resets the buffers.      *)
ShardedOverflow(s) ==
  /\ Responded(s) /\ type = "ShardedGET"
  /\ error = <<>> /\ ~IsGetError(Response(s)) /\ ~ResponseFits(s)
  /\ buffers' = [buffers EXCEPT ![s] = Flipped(@),
                                ![targets[1]].position = @ - Length("END")]
  /\ TaskDies

-----------------------------------------------------------------------------
(* The answer to the client, and the buffers that are cleared behind it.   *)

Answer ==
  IF error # <<>> THEN error
  ELSE IF type = "SET" THEN buffers[CHOOSE s \in firstPositive : TRUE].content
  ELSE buffers[targets[1]].content

(* MUTANT: a sharded read clears the buffers of its servers only as far as *)
(* they were appended to the first.                                        *)
AppendedBuffers ==
  CASE type = "SET"        -> firstPositive
    [] type = "ShardedGET" -> {targets[j] : j \in 2 .. Len(targets)}
    [] OTHER               -> {targets[1]}

(* The buffers the finally blocks clear.                                   *)
ClearedBuffers ==
  CASE type = "SET"        -> firstPositive
    [] type = "ShardedGET" -> Servers
    [] OTHER               -> {targets[1]}

(* What writing the answer has done to the buffers, and then the clear.    *)
AfterAnswer ==
  [s \in Servers |-> IF s \in ClearedBuffers THEN Cleared
                     ELSE buffers[s]]

ReplyToClient ==
  /\ pc = "reply"
  /\ pc' = "idle"
  /\ status' = "answered"
  /\ answer' = Answer
  /\ buffers' = AfterAnswer
  /\ UNCHANGED <<locals, next, hasRead, error, channels>>

(* The hit statistic of a sharded read is taken before the answer is       *)
(* written, in the same try: it may throw over the rest of a reply to an   *)
(* earlier request.                                                        *)
Counting == pc = "reply" /\ type = "ShardedGET" /\ error = <<>>

CountFails ==
  /\ Counting
  /\ \E i \in DOMAIN Answer : ~CountablePiece(Answer[i])
  /\ pc' = "idle"
  /\ status' = "dropped"
  /\ buffers' = AfterAnswer
  /\ UNCHANGED <<locals, next, hasRead, error, channels, answer>>

CountStops ==
  /\ Counting
  /\ \E i \in DOMAIN Answer : UnparsablePiece(Answer[i])
  /\ ShutdownMW

(* IOException: the client is gone and its channel is closed.              *)
ClientGone ==
  /\ pc = "reply"
  /\ pc' = "idle"
  /\ status' = "closed"
  /\ buffers' = AfterAnswer
  /\ UNCHANGED <<locals, next, hasRead, error, channels, answer>>

-----------------------------------------------------------------------------
Handle(s) ==
  \/ SendCommand(s) \/ CommandOverflows(s) \/ SetSendFails(s) \/ GetSendFails(s)
  \/ ReadReply(s) \/ ReadTooShort(s) \/ ReadFails(s)
  \/ SetResponse(s) \/ GetResponse(s)
  \/ NonshardedResponse(s) \/ UncountableResponse(s) \/ UnparsableResponse(s)
  \/ ShardedResponse(s) \/ ShardedError(s) \/ ShardedOverflow(s)

Next ==
  \/ \E t \in Types : \E order \in Targets(t) : Start(t, order)
  \/ NoKeys
  \/ \E s \in Servers : Handle(s)
  \/ ReplyToClient \/ CountFails \/ CountStops
  \/ ClientGone
  \/ \E s \in Servers, kind \in ReplyKinds : ServerAnswers(s, kind)
  \/ \E s \in Servers, keep \in BOOLEAN : ConnectionLost(s, keep)

Spec == Init /\ [][Next]_vars

(* The thread is scheduled, and a server that is connected answers. No     *)
(* request need come, no connection need break.                            *)
Fairness ==
  /\ WF_vars(\E s \in Servers : Handle(s))
  /\ WF_vars(ReplyToClient \/ ClientGone)
  /\ \A s \in Servers : WF_vars(\E kind \in ReplyKinds : ServerAnswers(s, kind))

FairSpec == Spec /\ Fairness

-----------------------------------------------------------------------------
(* What a client is given answers its own request, even though every       *)
(* request of the thread uses the same connections and the same buffers:   *)
(* no reply to an earlier request is left on a connection or in a buffer.  *)
AnswerIsForRequest ==
  status = "answered" => \A i \in DOMAIN answer : answer[i].request = request

(* A read that is answered with values is answered by every server that    *)
(* was asked, in the order of the keys, each exactly once and to its last  *)
(* byte, wherever the network cuts the replies.                            *)
AnswerIsComplete ==
  status = "answered" /\ type # "SET" /\ error = <<>> /\ answer[1].kind \in {"VALUE", "END"} =>
    /\ Len(answer) = Len(targets)
    /\ \A i \in DOMAIN answer : answer[i].server = targets[i] /\ Whole(answer[i])

(* The client reads STORED only when every server has stored the value:    *)
(* one error among the responses is enough to hide all the positive ones.  *)
(* This holds whatever the servers refuse and whichever connections break, *)
(* until the thread drops a request: the replies that were not waited for  *)
(* then answer the requests behind it.                                     *)
StoredEverywhere ==
  status = "answered" /\ type = "SET" /\ ~IsSetError(answer) =>
    \A s \in Servers : request \in stored[s]

AckMeansStoredEverywhere == [](status # "dropped") => []StoredEverywhere

(* Between two requests nothing is on the way on a connection that stands: *)
(* the replies to every command that was sent have been waited for         *)
(* (SetRequest: "Wait for answers from those servers we sent stuff to!").  *)
NothingLeftOnTheWire ==
  pc = "idle" => \A s \in Servers : open[s] => inbox[s] = <<>> /\ outbox[s] = <<>>

(* Between two requests all buffers are empty and open up to their         *)
(* capacity (ShardedMultiGetRequest: "Reset all serverBuffers for the next *)
(* request").                                                              *)
BuffersReset ==
  pc = "idle" => \A s \in Servers : buffers[s] = Cleared

(* No client whose request was sent is left without an answer: its request *)
(* is answered, or its connection is closed.                               *)
NoRequestDropped == status # "dropped"

(* An exception nobody catches leaves the client of a SET or of a GET      *)
(* without an answer in one case only: a read that brings the buffer fewer *)
(* than five bytes. Refused replies, replies to other requests, broken     *)
(* connections and buffers left full by others do not do it (a handler may *)
(* wait for ever over them, which is HandlerEnds' matter).                 *)
OnlyShortReadsDrop ==
  status = "dropped" /\ type \in {"SET", "GET"} =>
    buffers[targets[next]].position \in 1 .. Length("END") - 1

(* A handler comes to an end: it never waits for a reply that cannot come  *)
(* or for room that a buffer does not have.                                *)
HandlerEnds == (pc = "send") ~> (pc \in {"idle", "stopped"})

(* Until the thread drops a request its replies are in step with its       *)
(* requests: a refusal, of a SET or of a read, does not shift them, though *)
(* it stays in its buffer and lowers the limit for the replies to come.    *)
InStepUntilDropped == [](status # "dropped") => [](AnswerIsForRequest /\ NothingLeftOnTheWire)

=============================================================================
