----------------------- MODULE ClientsSocketsHandler -----------------------
(***************************************************************************)
(* The network thread, the clients, and the workers as far as they share   *)
(* the clients' buffers.  The network thread reads from the client whose   *)
(* key the selector reports into the buffer of that client and hands a     *)
(* complete request to the pool together with the buffer: the worker sends *)
(* the request to the servers out of it and clears it, while the network   *)
(* thread goes on selecting.                                               *)
(*                                                                         *)
(* A client sends one text after the other, in pieces (TCP segments), and  *)
(* the next one only after an answer.                                      *)
(***************************************************************************)
EXTENDS RequestFactory, Sequences, FiniteSets

CONSTANTS
  Clients,
  ServerKey,     \* the key of the server socket
  Workers,       \* the threads of the pool
  NumServers,    \* the memcached servers
  ReadSharded,   \* whether multi-GETs are sharded
  Texts,         \* what clients send
  Splits,        \* where a text may be split: "prefix", "command", "line",
                 \* "header", "data"
  MaxTexts,      \* bound on the texts each client sends
  MaxQueue,      \* bound on the tasks in the queue
  LeavesEarly,   \* clients may disconnect before they have their answer
  SetsMayFail    \* sending a SET to the servers may fail

ASSUME ServerKeyAssumption == ServerKey \notin Clients
ASSUME TextsAssumption ==
  Texts \subseteq Text /\ \A t \in Texts : t.command # "other" => t.line > 4
ASSUME BoundsAssumption == MaxTexts \in Nat /\ MaxQueue \in Nat
ASSUME NumServersAssumption == NumServers \in Nat \ {0}
ASSUME FlagsAssumption == {ReadSharded, LeavesEarly, SetsMayFail} \subseteq BOOLEAN

MAX_REQUEST_SIZE == 3000

NoTask == [client |-> ServerKey, number |-> 0, set |-> FALSE, sends |-> 0]

VARIABLES
  state,     \* what each client does: "away", "idle", "sending", "awaiting", "gone"
  text,      \* the text it sends
  texts,     \* how many it has begun
  sent,      \* the bytes of its text it has sent
  answers,   \* the answers it was sent and has not looked at
  channel,   \* "none", "pending" (to be accepted), "open" or "closed"
  read,      \* the bytes of its text the network thread has read; negative
             \* as long as the end of the text before is unread
  buffer,    \* the ByteBuffer of each client
  clientReadBuffers, \* the clients whose keys the map has a buffer for
  numReads,  \* ReceivalTimers.numReadsMap, 0 where the map has no entry
  net,       \* the network thread: "select", "next", "check", "read", or
             \* "stopped" by an exception
  key,       \* the client whose key it handles
  selected,  \* the selected keys it has still to handle
  queue,     \* the tasks of the pool
  task,      \* the task each worker is at
  stage      \* how far it is: "idle", "taken", "drained", "rewound", "served"

clientVars == <<state, text, texts, sent, answers>>
bufferVars == <<buffer, clientReadBuffers, numReads>>
poolVars == <<queue, task, stage>>
vars == <<clientVars, channel, read, bufferVars, net, key, selected, poolVars>>

(* A buffer holds the message that starts at the byte from of the client's *)
(* text and ends at position, or at limit once it was flipped.             *)
NewBuffer == [from |-> 0, position |-> 0, limit |-> MAX_REQUEST_SIZE]

Clear(b) == [b EXCEPT !.position = 0, !.limit = MAX_REQUEST_SIZE]
Remaining(b) == b.limit - b.position

Offset(t, split) ==
  CASE split = "prefix"  -> 2
    [] split = "command" -> 4
    [] split = "line"    -> t.line - 1
    [] split = "header"  -> t.line
    [] split = "data"    -> t.line + 1

Pieces(t) == ({Offset(t, split) : split \in Splits} \cap (1 .. t.total - 1))
             \cup {t.total}

NoText == [command |-> "other", blanks |-> 0, line |-> 0, size |-> 0, total |-> 0]

TypeOK ==
  /\ state \in [Clients -> {"away", "idle", "sending", "awaiting", "gone"}]
  /\ text \in [Clients -> Texts \cup {NoText}]
  /\ texts \in [Clients -> 0 .. MaxTexts]
  /\ \A c \in Clients :
       /\ sent[c] \in 0 .. text[c].total
       /\ read[c] \in Int /\ read[c] <= sent[c]
       /\ numReads[c] \in Nat
       /\ numReads[c] > 0 => c \in clientReadBuffers
       /\ buffer[c].position \in 0 .. buffer[c].limit
       /\ buffer[c].limit \in 1 .. MAX_REQUEST_SIZE
       /\ answers[c] \in Seq([number : 1 .. MaxTexts, error : BOOLEAN])
  /\ channel \in [Clients -> {"none", "pending", "open", "closed"}]
  /\ clientReadBuffers \subseteq Clients
  /\ net \in {"select", "next", "check", "read", "stopped"}
  /\ key \in Clients \cup {ServerKey}
  /\ selected \subseteq Clients \cup {ServerKey}
  /\ stage \in [Workers -> {"idle", "taken", "drained", "rewound", "served"}]
  /\ \A w \in Workers : stage[w] = "idle" <=> task[w] = NoTask

Init ==
  /\ state = [c \in Clients |-> "away"]
  /\ text = [c \in Clients |-> NoText]
  /\ texts = [c \in Clients |-> 0]
  /\ sent = [c \in Clients |-> 0]
  /\ answers = [c \in Clients |-> << >>]
  /\ channel = [c \in Clients |-> "none"]
  /\ read = [c \in Clients |-> 0]
  /\ buffer = [c \in Clients |-> NewBuffer]
  /\ clientReadBuffers = {}
  /\ numReads = [c \in Clients |-> 0]
  /\ net = "select" /\ key = ServerKey /\ selected = {}
  /\ queue = << >>
  /\ task = [w \in Workers |-> NoTask]
  /\ stage = [w \in Workers |-> "idle"]

-----------------------------------------------------------------------------
(* The clients.                                                            *)

Connect(c) ==
  /\ state[c] = "away"
  /\ state' = [state EXCEPT ![c] = "idle"]
  /\ channel' = [channel EXCEPT ![c] = "pending"]
  /\ UNCHANGED <<text, texts, sent, answers, read, bufferVars, net, key, selected, poolVars>>

Begin(c) ==
  /\ state[c] = "idle"
  /\ texts[c] < MaxTexts
  /\ \E t \in Texts : text' = [text EXCEPT ![c] = t]
  /\ texts' = [texts EXCEPT ![c] = @ + 1]
  /\ read' = [read EXCEPT ![c] = @ - sent[c]]
  /\ sent' = [sent EXCEPT ![c] = 0]
  /\ state' = [state EXCEPT ![c] = "sending"]
  /\ UNCHANGED <<answers, channel, bufferVars, net, key, selected, poolVars>>

Send(c) ==
  /\ state[c] = "sending"
  /\ \E end \in Pieces(text[c]) :
       /\ end > sent[c]
       /\ sent' = [sent EXCEPT ![c] = end]
       /\ state' = [state EXCEPT ![c] = IF end = text[c].total THEN "awaiting" ELSE @]
  /\ UNCHANGED <<text, texts, answers, channel, read, bufferVars, net, key, selected, poolVars>>

TakeAnswer(c) ==
  /\ state[c] = "awaiting"
  /\ answers[c] # << >>
  /\ answers' = [answers EXCEPT ![c] = Tail(@)]
  /\ state' = [state EXCEPT ![c] = "idle"]
  /\ UNCHANGED <<text, texts, sent, channel, read, bufferVars, net, key, selected, poolVars>>

Leave(c) ==
  /\ state[c] \in {"idle"} \cup (IF LeavesEarly THEN {"sending", "awaiting"} ELSE {})
  /\ state' = [state EXCEPT ![c] = "gone"]
  /\ answers' = [answers EXCEPT ![c] = << >>]
  /\ UNCHANGED <<text, texts, sent, channel, read, bufferVars, net, key, selected, poolVars>>

-----------------------------------------------------------------------------
(* The network thread: selects, and handles one selected key after the     *)
(* other.                                                                  *)

Unread(c) == sent[c] - read[c]
Readable(c) == channel[c] = "open" /\ (Unread(c) > 0 \/ state[c] = "gone")
Pending == {c \in Clients : channel[c] = "pending"}

Ready == {c \in Clients : Readable(c)} \cup {k \in {ServerKey} : Pending # {}}

Select ==
  /\ net = "select"
  /\ Ready # {}
  /\ selected' = Ready
  /\ net' = "next"
  /\ UNCHANGED <<clientVars, channel, read, bufferVars, key, poolVars>>

(* On to the selected keys that are left, or to select again.              *)
Proceed(left) ==
  /\ selected' = left
  /\ net' = IF left = {} THEN "select" ELSE "next"
  /\ key' = ServerKey

Accept ==
  /\ net = "next" /\ ServerKey \in selected
  /\ \E c \in Pending : channel' = [channel EXCEPT ![c] = "open"]
  /\ Proceed(selected \ {ServerKey})
  /\ UNCHANGED <<clientVars, read, bufferVars, poolVars>>

(* key.isValid(): a channel that was closed meanwhile is passed over.      *)
TakeKey(c) ==
  /\ net = "next" /\ c \in selected
  /\ \/ /\ channel[c] = "closed"
        /\ Proceed(selected \ {c})
     \/ /\ channel[c] # "closed"
        /\ selected' = selected \ {c}
        /\ net' = "check" /\ key' = c
  /\ UNCHANGED <<clientVars, channel, read, bufferVars, poolVars>>

(* An exception nobody expects ends the thread (and the middleware).       *)
StopNet ==
  /\ net' = "stopped"
  /\ UNCHANGED <<key, selected>>

readingFor(c) == numReads' = [numReads EXCEPT ![c] = @ + 1]

(* key.isReadable() throws if a worker has closed the channel since; a     *)
(* buffer without room is an error.                                        *)
CheckKey(c) ==
  /\ net = "check" /\ key = c
  /\ \/ /\ channel[c] = "closed"
        /\ StopNet
        /\ UNCHANGED bufferVars
     \/ /\ channel[c] # "closed"
        /\ clientReadBuffers' = clientReadBuffers \cup {c}
        /\ readingFor(c)
        /\ IF Remaining(buffer[c]) > 0 THEN net' = "read" /\ UNCHANGED <<key, selected>>
           ELSE StopNet
        /\ UNCHANGED buffer
  /\ UNCHANGED <<clientVars, channel, read, poolVars>>

(* MUTANT: the timers of the key are kept.                                 *)
EvictBufferOnly(c) ==
  /\ clientReadBuffers' = clientReadBuffers \ {c}
  /\ UNCHANGED numReads

evictClientBuffer(c) ==
  /\ clientReadBuffers' = clientReadBuffers \ {c}
  /\ numReads' = [numReads EXCEPT ![c] = 0]

CloseClient(c) ==
  /\ channel' = [channel EXCEPT ![c] = "closed"]
  /\ evictClientBuffer(c)
  /\ Proceed(selected)

EndOfStream(c) ==
  /\ net = "read" /\ key = c
  /\ channel[c] = "open" /\ state[c] = "gone"
  /\ Unread(c) = 0 /\ Remaining(buffer[c]) > 0
  /\ CloseClient(c)
  /\ UNCHANGED <<clientVars, read, buffer, poolVars>>

(* The channel was closed by a worker, or reset by the client.             *)
ReadFails(c) ==
  /\ net = "read" /\ key = c
  /\ channel[c] = "closed" \/ state[c] = "gone"
  /\ CloseClient(c)
  /\ UNCHANGED <<clientVars, read, buffer, poolVars>>

(* A read takes what was sent and fits. A buffer a worker has drained since*)
(* CheckKey has no room: the read returns 0 even at the end of the stream, *)
(* and what the buffer holds is parsed again.                              *)
Taken(c) == IF Unread(c) < Remaining(buffer[c]) THEN Unread(c) ELSE Remaining(buffer[c])

Reads(c) ==
  /\ net = "read" /\ key = c
  /\ channel[c] = "open"
  /\ Unread(c) > 0 \/ Remaining(buffer[c]) = 0
  /\ read' = [read EXCEPT ![c] = @ + Taken(c)]

From(c) == IF buffer[c].position = 0 THEN read[c] ELSE buffer[c].from
MessageLength(c) == buffer[c].position + Taken(c)
Outcomes(c) == tryParseClientRequest(text[c], From(c), MessageLength(c))

(* MUTANT: the buffer is handed over as it was read into.                  *)
Unflipped(c) == [from |-> From(c), position |-> MessageLength(c), limit |-> MAX_REQUEST_SIZE]

Flipped(c) == [from |-> From(c), position |-> 0, limit |-> MessageLength(c)]

(* MUTANT: the timers are not reset when they were read.                   *)
TimersKept(c) == UNCHANGED numReads

ResetTimers(c) == numReads' = [numReads EXCEPT ![c] = 0]

(* A SET is sent to every server out of the buffer, a GET to one; the      *)
(* commands of a sharded GET are written elsewhere.                        *)
SendsOf(t) == CASE t.command = "set" -> NumServers
                [] ReadSharded /\ t.blanks > 0 -> 0
                [] OTHER -> 1

Enqueue(c) ==
  /\ Reads(c)
  /\ "request" \in Outcomes(c)
  /\ Len(queue) < MaxQueue
  /\ buffer' = [buffer EXCEPT ![c] = Flipped(c)]
  /\ queue' = Append(queue, [client |-> c, number |-> texts[c],
                             set |-> text[c].command = "set",
                             sends |-> SendsOf(text[c])])
  /\ ResetTimers(c)
  /\ Proceed(selected)
  /\ UNCHANGED <<clientVars, channel, clientReadBuffers, task, stage>>

(* What is written to a client that has left is not looked at any more.    *)
Answered(c, number, error) ==
  answers' = IF state[c] = "gone" THEN answers
             ELSE [answers EXCEPT ![c] = Append(@, [number |-> number, error |-> error])]

AfterFaulty(c) == Clear(buffer[c])

sendClientError(c) ==
  /\ Reads(c)
  /\ "faulty" \in Outcomes(c)
  /\ buffer' = [buffer EXCEPT ![c] = AfterFaulty(c)]
  /\ \/ /\ Answered(c, texts[c], TRUE)
        /\ Proceed(selected)
        /\ UNCHANGED <<channel, clientReadBuffers, numReads>>
     \/ /\ state[c] = "gone"
        /\ CloseClient(c)
        /\ UNCHANGED answers
  /\ UNCHANGED <<state, text, texts, sent, poolVars>>

(* MUTANT: the limit is not put back.                                      *)
LimitKept(c) == [from |-> From(c), position |-> PositionAfterIncomplete(MessageLength(c)),
                 limit |-> MessageLength(c)]

(* The flip of the parser has set the limit to the end of the message; only*)
(* the limit is put back.                                                  *)
AfterIncomplete(c) == [from |-> From(c), position |-> PositionAfterIncomplete(MessageLength(c)),
                       limit |-> MAX_REQUEST_SIZE]

ContinueReading(c) ==
  /\ Reads(c)
  /\ "incomplete" \in Outcomes(c)
  /\ buffer' = [buffer EXCEPT ![c] = AfterIncomplete(c)]
  /\ Proceed(selected)
  /\ UNCHANGED <<clientVars, channel, clientReadBuffers, numReads, poolVars>>

ParserThrows(c) ==
  /\ Reads(c)
  /\ "throws" \in Outcomes(c)
  /\ StopNet
  /\ UNCHANGED <<clientVars, channel, bufferVars, poolVars>>

-----------------------------------------------------------------------------
(* The workers.  What they do with the servers is WorkerThread's matter;   *)
(* here they drain the client's buffer to a server, rewind it for the next *)
(* one (sendToAll) and clear it.                                           *)

netVars == <<net, key, selected>>

Take(w) ==
  /\ stage[w] = "idle" /\ queue # << >>
  /\ task' = [task EXCEPT ![w] = Head(queue)]
  /\ queue' = Tail(queue)
  /\ stage' = [stage EXCEPT ![w] = "taken"]
  /\ UNCHANGED <<clientVars, channel, read, bufferVars, netVars>>

UseBuffer(w, from, to, contents) ==
  /\ stage[w] \in from
  /\ stage' = [stage EXCEPT ![w] = to]
  /\ buffer' = [buffer EXCEPT ![task[w].client] = contents]
  /\ UNCHANGED <<clientVars, channel, read, clientReadBuffers, numReads, netVars, queue>>

Drain(w) ==
  /\ task[w].sends > 0
  /\ task' = [task EXCEPT ![w].sends = @ - 1]
  /\ LET b == buffer[task[w].client] IN
     UseBuffer(w, {"taken", "rewound"}, "drained", [b EXCEPT !.position = b.limit])

Rewind(w) ==
  /\ task[w].set
  /\ UseBuffer(w, {"drained"}, "rewound", [buffer[task[w].client] EXCEPT !.position = 0])
  /\ UNCHANGED task

ClearBuffer(w) ==
  /\ task[w].sends = 0
  /\ UseBuffer(w, IF task[w].set THEN {"rewound"} ELSE {"taken", "drained"},
               "served", Clear(buffer[task[w].client]))
  /\ UNCHANGED task

(* An IOException of sendToAll jumps over readBuffer.clear().              *)
SetFails(w) ==
  /\ SetsMayFail /\ task[w].set /\ task[w].sends > 0
  /\ UseBuffer(w, {"taken", "rewound"}, "served", buffer[task[w].client])
  /\ UNCHANGED task

Done(w) ==
  /\ stage[w] = "served"
  /\ task' = [task EXCEPT ![w] = NoTask]
  /\ stage' = [stage EXCEPT ![w] = "idle"]
  /\ UNCHANGED <<state, text, texts, sent, read, bufferVars, netVars, queue>>

Reply(w) ==
  LET c == task[w].client IN
  /\ Done(w)
  /\ channel[c] = "open"
  /\ Answered(c, task[w].number, FALSE)
  /\ UNCHANGED channel

ReplyFails(w) ==
  LET c == task[w].client IN
  /\ Done(w)
  /\ channel[c] = "closed" \/ state[c] = "gone"
  /\ channel' = [channel EXCEPT ![c] = "closed"]
  /\ UNCHANGED answers

-----------------------------------------------------------------------------
ClientStep(c) == Connect(c) \/ Begin(c) \/ Send(c) \/ TakeAnswer(c) \/ Leave(c)

HandleMessage(c) == Enqueue(c) \/ sendClientError(c) \/ ContinueReading(c) \/ ParserThrows(c)

NetStep ==
  \/ Select \/ Accept
  \/ \E c \in Clients : TakeKey(c) \/ CheckKey(c) \/ EndOfStream(c) \/ ReadFails(c) \/ HandleMessage(c)

WorkerStep(w) == Drain(w) \/ Rewind(w) \/ ClearBuffer(w) \/ SetFails(w) \/ Reply(w) \/ ReplyFails(w)

Next ==
  \/ \E c \in Clients : ClientStep(c)
  \/ NetStep
  \/ \E w \in Workers : Take(w) \/ WorkerStep(w)

(* A thread that can go on does, and a client finishes its text and reads  *)
(* its answer.                                                             *)
Fairness ==
  /\ WF_vars(NetStep)
  /\ \A w \in Workers : WF_vars(Take(w) \/ WorkerStep(w))
  /\ \A c \in Clients : WF_vars(Send(c)) /\ WF_vars(TakeAnswer(c))

Spec == Init /\ [][Next]_vars /\ Fairness

-----------------------------------------------------------------------------
(* As long as a worker has not cleared the buffer of its request, nobody   *)
(* else changes it: it holds one whole text, from the first byte to the    *)
(* last. (Network thread and worker share the buffer without a lock; the   *)
(* TODO in run asks for a check.)                                          *)
UndisturbedFor(clients) ==
  \A w \in Workers : stage[w] \in {"taken", "drained", "rewound"} /\ task[w].client \in clients =>
    LET c == task[w].client IN
    /\ buffer[c].from = 0 /\ buffer[c].limit = text[c].total
    /\ buffer[c].position = IF stage[w] = "drained" THEN buffer[c].limit ELSE 0

UndisturbedBuffer == UndisturbedFor(Clients)

(* A client that leaves before it has its answer disturbs at most its own  *)
(* requests.                                                               *)
StayersUndisturbed == UndisturbedFor({c \in Clients : state[c] # "gone"})

(* What a connected client finds when it looks for an answer is the one    *)
(* answer to its latest text: neither an earlier text's nor a second one.  *)
OneAnswerEach ==
  \A c \in Clients : state[c] # "gone" /\ answers[c] # << >> =>
    Len(answers[c]) = 1 /\ Head(answers[c]).number = texts[c] /\ state[c] = "awaiting"

(* Where the parser waits for the rest of a text: behind "get " or "set ",  *)
(* and behind the first line of a set that has not too many tokens.        *)
WaitedFor(t) ==
  CASE t.command = "get" -> {4}
    [] t.command = "set" -> {4} \cup {line \in {t.line} : t.blanks <= 3}
    [] OTHER -> {}

ReadWhereWaited(c) ==
  read[c] \in 1 .. text[c].total - 1 => read[c] \in WaitedFor(text[c])

Accepted(c) ==
  state[c] # "gone" =>
    \A i \in 1 .. Len(answers[c]) :
      answers[c][i].number = texts[c] /\ answers[c][i].error => ~WellFormed(text[c])

(* A client that stays is answered with CLIENT_ERROR only to a text that   *)
(* breaks the protocol or the limits, as long as every read that stops     *)
(* inside one of its texts stops where the parser waits: behind its SETs   *)
(* that failed and its malformed texts too, and wherever the texts of the  *)
(* others are split. (A read that stops elsewhere, within the first bytes, *)
(* in the datablock or at the limit that a failed SET has left, can have a *)
(* well-formed text refused: RequestFactory's nextNewlinePosIsCorrect.)    *)
WellFormedIsAccepted == \A c \in Clients : []ReadWhereWaited(c) => []Accepted(c)

(* Only texts that keep to the protocol and the limits reach the servers.  *)
OnlyWellFormedServed ==
  \A w \in Workers :
    stage[w] # "idle" /\ state[task[w].client] # "gone" => WellFormed(text[task[w].client])

(* Between two texts the timers have forgotten the client, so that the     *)
(* numReads and firstReadTime of a request are its own.                    *)
TimersForget == \A c \in Clients : state[c] \in {"away", "idle"} => numReads[c] = 0

(* No exception stops the network thread.                                  *)
NetRuns == net # "stopped"

(* Every text that was sent is answered.                                   *)
EveryTextAnswered ==
  \A c \in Clients : state[c] = "awaiting" ~> state[c] # "awaiting"

=============================================================================
