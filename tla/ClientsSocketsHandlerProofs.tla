-------------------- MODULE ClientsSocketsHandlerProofs --------------------
(***************************************************************************)
(* What ClientsSocketsHandler promises, for any number of clients and      *)
(* workers: the types, and as long as the parser waits for the rest of a   *)
(* text that is split, what becomes of a client that stays.                *)
(***************************************************************************)
EXTENDS ClientsSocketsHandler, SequenceTheorems, TLAPS

Tasks == [client : Clients, number : 1 .. MaxTexts, set : BOOLEAN, sends : Nat]
Buffers == [from : Int, position : Nat, limit : Nat]
AnswersToClient == [number : 1 .. MaxTexts, error : BOOLEAN]

(* TypeOK, and the types it leaves out, by the parts of the state. A       *)
(* client that has sent nothing has nothing in its buffer and no task.     *)
ClientsTyped ==
  /\ state \in [Clients -> {"away", "idle", "sending", "awaiting", "gone"}]
  /\ text \in [Clients -> Texts \cup {NoText}]
  /\ texts \in [Clients -> Nat] /\ \A c \in Clients : texts[c] <= MaxTexts
  /\ sent \in [Clients -> Nat]
  /\ answers \in [Clients -> Seq(AnswersToClient)]

BuffersTyped ==
  /\ read \in [Clients -> Int]
  /\ buffer \in [Clients -> Buffers]
  /\ numReads \in [Clients -> Nat]
  /\ clientReadBuffers \subseteq Clients

NetTyped ==
  /\ channel \in [Clients -> {"none", "pending", "open", "closed"}]
  /\ net \in {"select", "next", "check", "read", "stopped"}
  /\ key \in Clients \cup {ServerKey}
  /\ selected \subseteq Clients \cup {ServerKey}

PoolTyped ==
  /\ queue \in Seq(Tasks)
  /\ task \in [Workers -> Tasks \cup {NoTask}]
  /\ stage \in [Workers -> {"idle", "taken", "drained", "rewound", "served"}]
  /\ \A w \in Workers : stage[w] = "idle" <=> task[w] = NoTask

Bounded(c) ==
  /\ sent[c] <= text[c].total /\ read[c] <= sent[c]
  /\ numReads[c] > 0 => c \in clientReadBuffers
  /\ buffer[c].position <= buffer[c].limit
  /\ buffer[c].limit > 0 /\ buffer[c].limit <= MAX_REQUEST_SIZE
  /\ texts[c] = 0 => text[c] = NoText /\ sent[c] = 0 /\ read[c] = 0
                     /\ buffer[c].position # buffer[c].limit

TasksHaveTexts ==
  /\ \A i \in 1 .. Len(queue) : texts[queue[i].client] > 0
  /\ \A w \in Workers : stage[w] # "idle" => texts[task[w].client] > 0

TypeInv ==
  /\ ClientsTyped /\ BuffersTyped /\ NetTyped /\ PoolTyped
  /\ TasksHaveTexts
  /\ \A c \in Clients : Bounded(c)

-----------------------------------------------------------------------------
(* What the texts and the splits must be like: a text fits in the buffer,  *)
(* the parser waits for the rest of one that is split, and the buffer that *)
(* a SET has left behind when it failed has room for every other text.     *)
TextsFit == \A t \in Texts : t.total <= MAX_REQUEST_SIZE
PartsAreWaitedFor ==
  \A t \in Texts : \A length \in Pieces(t) \ {t.total} :
    length >= 4 /\ tryParseClientRequest(t, 0, length) = {"incomplete"}
FailedSetsLeaveRoom ==
  SetsMayFail => \A t, u \in Texts : u.command = "set" => t.total <= u.total

(* Every text is a well-formed GET or SET of at least one key.             *)
OnlyWellFormedSent == \A t \in Texts : WellFormed(t) /\ t.line > 4

RoomForTexts == TextsFit /\ FailedSetsLeaveRoom
Manageable == RoomForTexts /\ PartsAreWaitedFor

Room(b) == b.limit > 0 /\ \A t \in Texts : t.total <= b.limit

QueuedFor(c) == {i \in 1 .. Len(queue) : queue[i].client = c}
WorkersFor(c) == {w \in Workers : task[w].client = c}
Pooled(c) == QueuedFor(c) # {} \/ WorkersFor(c) # {}

(* The network thread has the key of c still to handle.                    *)
Attended(c) == c \in selected \/ (key = c /\ net \in {"check", "read"})

(* The buffer holds what was read of the text.                             *)
Reading(c) ==
  /\ read[c] = buffer[c].position
  /\ read[c] > 0 => buffer[c].from = 0
  /\ Room(buffer[c])

Empty(c) == buffer[c].position = 0 /\ Room(buffer[c])

(* A request has one task, in the queue or with a worker.                  *)
OneTask(c) ==
  /\ \A i, j \in QueuedFor(c) : i = j
  /\ \A w, v \in WorkersFor(c) : w = v
  /\ QueuedFor(c) = {} \/ WorkersFor(c) = {}

IsTaskOf(c, t) ==
  /\ t.number = texts[c]
  /\ t.set <=> text[c].command = "set"

HoldsText(c, position) ==
  /\ buffer[c].from = 0 /\ buffer[c].limit = text[c].total
  /\ buffer[c].position = position

Serving(c) ==
  /\ OneTask(c)
  /\ WellFormed(text[c])
  /\ \A i \in QueuedFor(c) : IsTaskOf(c, queue[i]) /\ HoldsText(c, 0)
  /\ \A w \in WorkersFor(c) :
       /\ IsTaskOf(c, task[w])
       /\ IF stage[w] = "served" THEN Empty(c)
          ELSE HoldsText(c, IF stage[w] = "drained" THEN buffer[c].limit ELSE 0)

Quiet(c) == ~Pooled(c) /\ answers[c] = << >>

(* Between its texts a client has no request under way.                    *)
Resting(c) == Quiet(c) /\ read[c] = sent[c] /\ Empty(c)

Sending(c) ==
  /\ Quiet(c) /\ Reading(c) /\ text[c] \in Texts
  /\ sent[c] = 0 \/ sent[c] \in Pieces(text[c]) \ {text[c].total}

Awaiting(c) ==
  /\ sent[c] = text[c].total /\ text[c] \in Texts
  /\ \/ Quiet(c) /\ (read[c] < sent[c] => Reading(c))
     \/ Pooled(c) /\ Serving(c) /\ answers[c] = << >> /\ read[c] = sent[c]
     \/ /\ ~Pooled(c) /\ read[c] = sent[c] /\ Empty(c)
        /\ Len(answers[c]) = 1 /\ answers[c][1].number = texts[c]
        /\ answers[c][1].error => ~WellFormed(text[c])

(* A client that has not left.                                             *)
Served(c) ==
  /\ channel[c] # "closed"
  /\ Attended(c) => Unread(c) > 0
  /\ state[c] \in {"away", "idle"} => Resting(c)
  /\ state[c] = "sending" => Sending(c)
  /\ state[c] = "awaiting" => Awaiting(c)

(* A client that left at rest.                                             *)
Left(c) == ~Pooled(c) /\ read[c] = sent[c] /\ Empty(c)

InOrder(c) ==
  /\ state[c] # "gone" => Served(c)
  /\ state[c] = "gone" /\ ~LeavesEarly => Left(c)

KeyTaken == net \in {"check", "read"} => key \notin selected

(* Some clients are in order, whatever becomes of the others.              *)
Orderly(D) == KeyTaken /\ \A c \in D : InOrder(c)

IInv == Orderly(Clients)

(* The timers run only while a text is being read.                         *)
TimedOf(c) ==
  state[c] # "gone" /\ numReads[c] > 0 =>
    /\ state[c] \in {"sending", "awaiting"}
    /\ Quiet(c) /\ (state[c] = "awaiting" => read[c] < sent[c])

Timed == \A c \in Clients : TimedOf(c)

-----------------------------------------------------------------------------
(* The types.                                                              *)

(* What the constants are.                                                 *)
LEMMA Sizes == MaxTexts \in Nat /\ MAX_REQUEST_SIZE \in Nat /\ MAX_REQUEST_SIZE > 0
  BY BoundsAssumption DEF MAX_REQUEST_SIZE

(* The type invariant is part of the types.                                *)
LEMMA TypesHold == TypeInv => TypeOK
<1> SUFFICES ASSUME TypeInv PROVE TypeOK
  OBVIOUS
<1> USE DEF TypeInv
<1>1. state \in [Clients -> {"away", "idle", "sending", "awaiting", "gone"}]
      /\ text \in [Clients -> Texts \cup {NoText}]
      /\ texts \in [Clients -> 0 .. MaxTexts]
  BY Sizes DEF ClientsTyped
<1>2. ASSUME NEW c \in Clients
      PROVE  /\ sent[c] \in 0 .. text[c].total
             /\ read[c] \in Int /\ read[c] <= sent[c]
             /\ numReads[c] \in Nat
             /\ numReads[c] > 0 => c \in clientReadBuffers
             /\ buffer[c].position \in 0 .. buffer[c].limit
             /\ buffer[c].limit \in 1 .. MAX_REQUEST_SIZE
             /\ answers[c] \in Seq([number : 1 .. MaxTexts, error : BOOLEAN])
  <2>1. text[c].total \in Nat
    <3>1. text[c] \in Text \/ text[c] = NoText
      BY <1>2, <1>1, TextsAssumption
    <3> QED  BY <3>1 DEF Text, NoText
  <2>2. sent[c] \in Nat /\ read[c] \in Int /\ numReads[c] \in Nat
    BY DEF ClientsTyped, BuffersTyped
  <2>3. buffer[c].position \in Nat /\ buffer[c].limit \in Nat
    BY DEF BuffersTyped, Buffers
  <2>4. answers[c] \in Seq([number : 1 .. MaxTexts, error : BOOLEAN])
    BY DEF ClientsTyped, AnswersToClient
  <2> QED  BY <2>1, <2>2, <2>3, <2>4, Sizes DEF Bounded
<1>3. /\ channel \in [Clients -> {"none", "pending", "open", "closed"}]
      /\ clientReadBuffers \subseteq Clients
      /\ net \in {"select", "next", "check", "read", "stopped"}
      /\ key \in Clients \cup {ServerKey}
      /\ selected \subseteq Clients \cup {ServerKey}
      /\ stage \in [Workers -> {"idle", "taken", "drained", "rewound", "served"}]
      /\ \A w \in Workers : stage[w] = "idle" <=> task[w] = NoTask
  BY DEF BuffersTyped, NetTyped, PoolTyped
<1> QED  BY <1>1, <1>2, <1>3 DEF TypeOK

(* What the measures of a text are.                                        *)
LEMMA TextsAreTexts ==
  ASSUME NEW t \in Texts \cup {NoText}
  PROVE  t.total \in Nat /\ t.line \in Nat /\ t.blanks \in Nat /\ t.size \in Int
BY TextsAssumption DEF Text, NoText

(* A piece ends within its text.                                           *)
LEMMA PiecesAreParts ==
  ASSUME NEW t \in Texts \cup {NoText}, NEW end \in Pieces(t)
  PROVE  end \in Nat /\ end <= t.total
<1>1. t.total \in Nat
  BY TextsAreTexts
<1> QED  BY <1>1 DEF Pieces

(* No task is the task of nobody.                                          *)
LEMMA NoTaskIsNone == NoTask \notin Tasks /\ NoTask.client \notin Clients
  BY ServerKeyAssumption DEF NoTask, Tasks

(* Every task in the pool belongs to a client.                             *)
LEMMA TasksAreOfClients ==
  ASSUME PoolTyped
  PROVE  /\ \A i \in 1 .. Len(queue) : queue[i] \in Tasks /\ queue[i].client \in Clients
         /\ \A w \in Workers : stage[w] # "idle" => task[w] \in Tasks /\ task[w].client \in Clients
<1>1. \A t \in Tasks : t.client \in Clients
  BY DEF Tasks
<1>2. \A i \in 1 .. Len(queue) : queue[i] \in Tasks
  BY DEF PoolTyped
<1>3. \A w \in Workers : stage[w] # "idle" => task[w] \in Tasks
  BY DEF PoolTyped
<1> QED  BY <1>1, <1>2, <1>3

(* The types hold at the start.                                            *)
LEMMA InitTypeInv == Init => TypeInv
<1> SUFFICES ASSUME Init PROVE TypeInv
  OBVIOUS
<1>1. << >> \in Seq(AnswersToClient) /\ << >> \in Seq(Tasks) /\ Len(<< >>) = 0
  OBVIOUS
<1>2. ClientsTyped /\ NetTyped /\ PoolTyped /\ TasksHaveTexts
  BY <1>1, Sizes DEF Init, ClientsTyped, NetTyped, PoolTyped, TasksHaveTexts
<1>3. BuffersTyped
  BY DEF Init, BuffersTyped, Buffers, NewBuffer, MAX_REQUEST_SIZE
<1>4. \A c \in Clients : Bounded(c)
  BY DEF Init, Bounded, NewBuffer, NoText, MAX_REQUEST_SIZE
<1> QED  BY <1>2, <1>3, <1>4 DEF TypeInv

(* The clients keep the types.                                             *)
LEMMA ClientStepKeepsTypeInv ==
  ASSUME TypeInv, NEW c \in Clients, ClientStep(c)
  PROVE  TypeInv'
<1>0. ClientsTyped /\ BuffersTyped /\ NetTyped /\ PoolTyped /\ TasksHaveTexts
      /\ \A d \in Clients : Bounded(d)
  BY DEF TypeInv
<1>1. CASE Connect(c)
  <2>1. /\ state' = [state EXCEPT ![c] = "idle"]
        /\ channel' = [channel EXCEPT ![c] = "pending"]
        /\ UNCHANGED <<text, texts, sent, answers, read, buffer, clientReadBuffers, numReads,
                       net, key, selected, queue, task, stage>>
    BY <1>1 DEF Connect, bufferVars, poolVars
  <2>2. ClientsTyped' /\ BuffersTyped' /\ NetTyped' /\ PoolTyped' /\ TasksHaveTexts'
    BY <1>0, <2>1 DEF ClientsTyped, BuffersTyped, NetTyped, PoolTyped, TasksHaveTexts
  <2>3. \A d \in Clients : Bounded(d)'
    BY <1>0, <2>1 DEF Bounded
  <2> QED  BY <2>2, <2>3 DEF TypeInv
<1>2. CASE Begin(c)
  <2>1. PICK t \in Texts : text' = [text EXCEPT ![c] = t]
    BY <1>2 DEF Begin
  <2>2. /\ texts' = [texts EXCEPT ![c] = @ + 1] /\ texts[c] < MaxTexts
        /\ read' = [read EXCEPT ![c] = @ - sent[c]]
        /\ sent' = [sent EXCEPT ![c] = 0]
        /\ state' = [state EXCEPT ![c] = "sending"]
        /\ UNCHANGED <<answers, channel, buffer, clientReadBuffers, numReads, net, key, selected,
                       queue, task, stage>>
    BY <1>2 DEF Begin, bufferVars, poolVars
  <2>3. ClientsTyped' /\ NetTyped'
    BY <1>0, <2>1, <2>2, Sizes DEF ClientsTyped, NetTyped
  <2>4. BuffersTyped' /\ PoolTyped'
    BY <1>0, <2>2 DEF ClientsTyped, BuffersTyped, PoolTyped
  <2>5. TasksHaveTexts'
    <3>1. \A d \in Clients : texts[d] > 0 => texts'[d] > 0
      BY <1>0, <2>2 DEF ClientsTyped
    <3> QED  BY <1>0, <2>2, <3>1, TasksAreOfClients DEF TasksHaveTexts
  <2>6. ASSUME NEW d \in Clients PROVE Bounded(d)'
    <3>1. CASE d = c
      <4>1. sent'[d] = 0 /\ read'[d] = read[d] - sent[d] /\ text'[d] = t /\ texts'[d] = texts[d] + 1
        BY <1>0, <2>1, <2>2, <3>1 DEF ClientsTyped, BuffersTyped
      <4>2. t.total \in Nat /\ sent[d] \in Nat /\ read[d] \in Int /\ texts[d] \in Nat
        BY <1>0, TextsAreTexts DEF ClientsTyped, BuffersTyped
      <4>3. sent'[d] <= text'[d].total /\ read'[d] <= sent'[d] /\ texts'[d] # 0
        BY <1>0, <4>1, <4>2 DEF Bounded
      <4> QED  BY <1>0, <2>2, <4>3 DEF Bounded
    <3>2. CASE d # c
      BY <1>0, <2>1, <2>2, <3>2 DEF Bounded, ClientsTyped, BuffersTyped
    <3> QED  BY <3>1, <3>2
  <2> QED  BY <2>3, <2>4, <2>5, <2>6 DEF TypeInv
<1>3. CASE Send(c)
  <2>1. PICK end \in Pieces(text[c]) :
          /\ end > sent[c]
          /\ sent' = [sent EXCEPT ![c] = end]
          /\ state' = [state EXCEPT ![c] = IF end = text[c].total THEN "awaiting" ELSE @]
    BY <1>3 DEF Send
  <2>2. UNCHANGED <<text, texts, answers, channel, read, buffer, clientReadBuffers, numReads,
                    net, key, selected, queue, task, stage>>
    BY <1>3 DEF Send, bufferVars, poolVars
  <2>3. end \in Nat /\ end <= text[c].total
    BY <1>0, PiecesAreParts DEF ClientsTyped
  <2>4. ClientsTyped' /\ BuffersTyped' /\ NetTyped' /\ PoolTyped' /\ TasksHaveTexts'
    BY <1>0, <2>1, <2>2, <2>3 DEF ClientsTyped, BuffersTyped, NetTyped, PoolTyped, TasksHaveTexts
  <2>5. ASSUME NEW d \in Clients PROVE Bounded(d)'
    <3>1. CASE d = c
      <4>1. sent'[d] = end /\ sent[d] \in Nat /\ read[d] \in Int
        BY <1>0, <2>1, <3>1 DEF ClientsTyped, BuffersTyped
      <4>2. read[d] <= end
        BY <1>0, <2>1, <2>3, <3>1, <4>1 DEF Bounded
      <4>3. texts[d] # 0
        <5>1. end > 0
          BY <2>1, <2>3, <3>1, <4>1
        <5>2. text[d].total # 0
          BY <2>3, <3>1, <5>1
        <5> QED  BY <1>0, <5>2 DEF Bounded, NoText
      <4> QED  BY <1>0, <2>2, <2>3, <3>1, <4>1, <4>2, <4>3 DEF Bounded
    <3>2. CASE d # c
      BY <1>0, <2>1, <2>2, <3>2 DEF Bounded, ClientsTyped
    <3> QED  BY <3>1, <3>2
  <2> QED  BY <2>4, <2>5 DEF TypeInv
<1>4. CASE TakeAnswer(c)
  <2>1. /\ answers' = [answers EXCEPT ![c] = Tail(@)] /\ answers[c] # << >>
        /\ state' = [state EXCEPT ![c] = "idle"]
        /\ UNCHANGED <<text, texts, sent, channel, read, buffer, clientReadBuffers, numReads,
                       net, key, selected, queue, task, stage>>
    BY <1>4 DEF TakeAnswer, bufferVars, poolVars
  <2>2. ClientsTyped' /\ BuffersTyped' /\ NetTyped' /\ PoolTyped' /\ TasksHaveTexts'
    <3>1. Tail(answers[c]) \in Seq(AnswersToClient)
      BY <1>0, <2>1 DEF ClientsTyped
    <3> QED  BY <1>0, <2>1, <3>1 DEF ClientsTyped, BuffersTyped, NetTyped, PoolTyped, TasksHaveTexts
  <2>3. \A d \in Clients : Bounded(d)'
    BY <1>0, <2>1 DEF Bounded
  <2> QED  BY <2>2, <2>3 DEF TypeInv
<1>5. CASE Leave(c)
  <2>1. /\ answers' = [answers EXCEPT ![c] = << >>]
        /\ state' = [state EXCEPT ![c] = "gone"]
        /\ UNCHANGED <<text, texts, sent, channel, read, buffer, clientReadBuffers, numReads,
                       net, key, selected, queue, task, stage>>
    BY <1>5 DEF Leave, bufferVars, poolVars
  <2>2. ClientsTyped' /\ BuffersTyped' /\ NetTyped' /\ PoolTyped' /\ TasksHaveTexts'
    <3>1. << >> \in Seq(AnswersToClient)
      OBVIOUS
    <3> QED  BY <1>0, <2>1, <3>1 DEF ClientsTyped, BuffersTyped, NetTyped, PoolTyped, TasksHaveTexts
  <2>3. \A d \in Clients : Bounded(d)'
    BY <1>0, <2>1 DEF Bounded
  <2> QED  BY <2>2, <2>3 DEF TypeInv
<1> QED  BY <1>1, <1>2, <1>3, <1>4, <1>5 DEF ClientStep

(* What a read takes, and the message it leaves in the buffer.             *)
LEMMA ReadFits ==
  ASSUME TypeInv, NEW c \in Clients
  PROVE  /\ Unread(c) \in Nat /\ Remaining(buffer[c]) \in Nat
         /\ Taken(c) \in Nat /\ Taken(c) <= Unread(c)
         /\ MessageLength(c) \in Nat /\ MessageLength(c) <= buffer[c].limit
         /\ buffer[c].position <= MessageLength(c)
         /\ MessageLength(c) <= MAX_REQUEST_SIZE
         /\ From(c) \in Int
         /\ Unread(c) > 0 \/ Remaining(buffer[c]) = 0 => texts[c] > 0
         /\ texts[c] > 0 => texts[c] \in 1 .. MaxTexts
<1>1. /\ sent[c] \in Nat /\ read[c] \in Int /\ read[c] <= sent[c]
      /\ buffer[c].position \in Nat /\ buffer[c].limit \in Nat /\ buffer[c].from \in Int
      /\ buffer[c].position <= buffer[c].limit /\ buffer[c].limit <= MAX_REQUEST_SIZE
      /\ texts[c] \in Nat /\ texts[c] <= MaxTexts
      /\ texts[c] = 0 => sent[c] = 0 /\ read[c] = 0 /\ buffer[c].position # buffer[c].limit
  BY DEF TypeInv, ClientsTyped, BuffersTyped, Buffers, Bounded
<1>2. Unread(c) \in Nat /\ Unread(c) = sent[c] - read[c]
  BY <1>1 DEF Unread
<1>3. Remaining(buffer[c]) \in Nat /\ Remaining(buffer[c]) = buffer[c].limit - buffer[c].position
  BY <1>1 DEF Remaining
<1>4. Taken(c) \in Nat /\ Taken(c) <= Unread(c) /\ Taken(c) <= Remaining(buffer[c])
  BY <1>2, <1>3 DEF Taken
<1>5. MessageLength(c) = buffer[c].position + Taken(c)
  BY DEF MessageLength
<1>6. From(c) \in Int
  BY <1>1 DEF From
<1>7. Unread(c) > 0 \/ Remaining(buffer[c]) = 0 => texts[c] # 0
  <2>1. CASE Unread(c) > 0
    <3>1. sent[c] # read[c]
      BY <1>1, <1>2, <2>1
    <3> QED  BY <1>1, <3>1
  <2>2. CASE Remaining(buffer[c]) = 0
    <3>1. buffer[c].position = buffer[c].limit
      BY <1>1, <1>3, <2>2
    <3> QED  BY <1>1, <3>1
  <2> QED  BY <2>1, <2>2
<1>8. MAX_REQUEST_SIZE \in Nat /\ MaxTexts \in Nat
  BY Sizes
<1>9. /\ MessageLength(c) \in Nat /\ MessageLength(c) <= buffer[c].limit
      /\ buffer[c].position <= MessageLength(c) /\ MessageLength(c) <= MAX_REQUEST_SIZE
  BY <1>1, <1>3, <1>4, <1>5, <1>8
<1>10. texts[c] # 0 <=> texts[c] > 0
  BY <1>1
<1> QED  BY <1>1, <1>2, <1>3, <1>4, <1>6, <1>7, <1>8, <1>9, <1>10

(* What the operations of ByteBuffer make of a buffer.                     *)
LEMMA Cleared ==
  ASSUME NEW b \in Buffers
  PROVE  /\ Clear(b) \in Buffers
         /\ Clear(b).position = 0 /\ Clear(b).limit = MAX_REQUEST_SIZE
<1>1. MAX_REQUEST_SIZE \in Nat /\ 0 \in Nat
  BY Sizes
<1>2. \A limit \in Nat : [b EXCEPT !.position = 0, !.limit = limit] \in Buffers
                       /\ [b EXCEPT !.position = 0, !.limit = limit].position = 0
                       /\ [b EXCEPT !.position = 0, !.limit = limit].limit = limit
  BY DEF Buffers
<1> QED  BY <1>1, <1>2 DEF Clear

(* A position that moves leaves the rest of the buffer alone.              *)
LEMMA Moved ==
  ASSUME NEW b \in Buffers, NEW position \in Nat
  PROVE  /\ [b EXCEPT !.position = position] \in Buffers
         /\ [b EXCEPT !.position = position].position = position
         /\ [b EXCEPT !.position = position].limit = b.limit
         /\ [b EXCEPT !.position = position].from = b.from
BY DEF Buffers

(* The bounds of a client nothing happens to.                              *)
LEMMA SameBounds ==
  ASSUME NEW d, Bounded(d), sent'[d] = sent[d], text'[d] = text[d], read'[d] = read[d],
         numReads'[d] = numReads[d], buffer'[d] = buffer[d], texts'[d] = texts[d],
         d \in clientReadBuffers => d \in clientReadBuffers'
  PROVE  Bounded(d)'
BY DEF Bounded

(* A stream that ends and a read that fails keep the types.                *)
LEMMA EndsOfKeysKeepTypeInv ==
  ASSUME TypeInv, NEW c \in Clients, EndOfStream(c) \/ ReadFails(c)
  PROVE  TypeInv'
<1>0. ClientsTyped /\ BuffersTyped /\ NetTyped /\ PoolTyped /\ TasksHaveTexts
      /\ \A d \in Clients : Bounded(d)
  BY DEF TypeInv
<1>1. /\ channel' = [channel EXCEPT ![c] = "closed"]
      /\ clientReadBuffers' = clientReadBuffers \ {c}
      /\ numReads' = [numReads EXCEPT ![c] = 0]
      /\ selected' = selected /\ net' \in {"select", "next"} /\ key' = ServerKey
      /\ UNCHANGED <<state, text, texts, sent, answers, read, buffer, queue, task, stage>>
  BY DEF EndOfStream, ReadFails, CloseClient, evictClientBuffer, Proceed, clientVars, poolVars
<1>2. ClientsTyped' /\ BuffersTyped' /\ NetTyped' /\ PoolTyped' /\ TasksHaveTexts'
  BY <1>0, <1>1 DEF ClientsTyped, BuffersTyped, NetTyped, PoolTyped, TasksHaveTexts
<1>3. ASSUME NEW d \in Clients PROVE Bounded(d)'
  <2>1. CASE d = c
    <3>1. numReads'[d] = 0
      BY <1>0, <1>1, <2>1 DEF BuffersTyped
    <3> QED  BY <1>0, <1>1, <3>1 DEF Bounded
  <2>2. CASE d # c
    BY <1>0, <1>1, <2>2, SameBounds
  <2> QED  BY <2>1, <2>2
<1> QED  BY <1>2, <1>3 DEF TypeInv

(* The selector and its keys keep the types.                               *)
LEMMA KeysKeepTypeInv ==
  ASSUME TypeInv, Select \/ Accept \/ \E c \in Clients : TakeKey(c) \/ CheckKey(c)
  PROVE  TypeInv'
<1>0. ClientsTyped /\ BuffersTyped /\ NetTyped /\ PoolTyped /\ TasksHaveTexts
      /\ \A d \in Clients : Bounded(d)
  BY DEF TypeInv
<1>1. CASE Select
  <2>1. /\ selected' = Ready /\ net' = "next"
        /\ UNCHANGED <<state, text, texts, sent, answers, channel, read, buffer, clientReadBuffers,
                       numReads, key, queue, task, stage>>
    BY <1>1 DEF Select, clientVars, bufferVars, poolVars
  <2>2. Ready \subseteq Clients \cup {ServerKey}
    BY DEF Ready
  <2>3. ClientsTyped' /\ BuffersTyped' /\ NetTyped' /\ PoolTyped' /\ TasksHaveTexts'
    BY <1>0, <2>1, <2>2 DEF ClientsTyped, BuffersTyped, NetTyped, PoolTyped, TasksHaveTexts
  <2>4. \A d \in Clients : Bounded(d)'
    BY <1>0, <2>1, SameBounds
  <2> QED  BY <2>3, <2>4 DEF TypeInv
<1>2. CASE Accept
  <2>1. /\ \E c \in Clients : channel' = [channel EXCEPT ![c] = "open"]
        /\ selected' \subseteq selected /\ net' \in {"select", "next"} /\ key' = ServerKey
        /\ UNCHANGED <<state, text, texts, sent, answers, read, buffer, clientReadBuffers,
                       numReads, queue, task, stage>>
    BY <1>2 DEF Accept, Pending, Proceed, clientVars, bufferVars, poolVars
  <2>2. ClientsTyped' /\ BuffersTyped' /\ NetTyped' /\ PoolTyped' /\ TasksHaveTexts'
    BY <1>0, <2>1 DEF ClientsTyped, BuffersTyped, NetTyped, PoolTyped, TasksHaveTexts
  <2>3. \A d \in Clients : Bounded(d)'
    BY <1>0, <2>1, SameBounds
  <2> QED  BY <2>2, <2>3 DEF TypeInv
<1>3. CASE \E c \in Clients : TakeKey(c)
  <2>1. /\ selected' \subseteq selected /\ net' \in {"select", "next", "check"}
        /\ key' \in Clients \cup {ServerKey}
        /\ UNCHANGED <<state, text, texts, sent, answers, channel, read, buffer, clientReadBuffers,
                       numReads, queue, task, stage>>
    BY <1>3 DEF TakeKey, Proceed, clientVars, bufferVars, poolVars
  <2>2. ClientsTyped' /\ BuffersTyped' /\ NetTyped' /\ PoolTyped' /\ TasksHaveTexts'
    BY <1>0, <2>1 DEF ClientsTyped, BuffersTyped, NetTyped, PoolTyped, TasksHaveTexts
  <2>3. \A d \in Clients : Bounded(d)'
    BY <1>0, <2>1, SameBounds
  <2> QED  BY <2>2, <2>3 DEF TypeInv
<1>4. CASE \E c \in Clients : CheckKey(c)
  <2>1. PICK c \in Clients : CheckKey(c)
    BY <1>4
  <2>2. /\ selected' = selected /\ net' \in {"read", "stopped"} /\ key' = key
        /\ UNCHANGED <<state, text, texts, sent, answers, channel, read, buffer, queue, task, stage>>
    BY <2>1 DEF CheckKey, StopNet, clientVars, bufferVars, poolVars
  <2>3. \/ UNCHANGED <<clientReadBuffers, numReads>>
        \/ /\ clientReadBuffers' = clientReadBuffers \cup {c}
           /\ numReads' = [numReads EXCEPT ![c] = @ + 1]
    BY <2>1 DEF CheckKey, readingFor, bufferVars
  <2>4. ClientsTyped' /\ BuffersTyped' /\ NetTyped' /\ PoolTyped' /\ TasksHaveTexts'
    <3>1. BuffersTyped'
      BY <1>0, <2>2, <2>3 DEF BuffersTyped
    <3> QED  BY <1>0, <2>2, <3>1 DEF ClientsTyped, NetTyped, PoolTyped, TasksHaveTexts
  <2>5. ASSUME NEW d \in Clients PROVE Bounded(d)'
    <3>1. clientReadBuffers \subseteq clientReadBuffers'
          /\ (d \notin clientReadBuffers' => numReads'[d] = numReads[d])
      BY <1>0, <2>3 DEF BuffersTyped
    <3> QED  BY <1>0, <2>2, <3>1 DEF Bounded
  <2> QED  BY <2>4, <2>5 DEF TypeInv
<1> QED  BY <1>1, <1>2, <1>3, <1>4

(* What a client is answered.                                              *)
LEMMA AnswersAreTyped ==
  ASSUME TypeInv, NEW c \in Clients, NEW number \in 1 .. MaxTexts, NEW error \in BOOLEAN,
         Answered(c, number, error)
  PROVE  answers' \in [Clients -> Seq(AnswersToClient)]
<1>1. answers \in [Clients -> Seq(AnswersToClient)]
  BY DEF TypeInv, ClientsTyped
<1>2. [number |-> number, error |-> error] \in AnswersToClient
  BY DEF AnswersToClient
<1>3. Append(answers[c], [number |-> number, error |-> error]) \in Seq(AnswersToClient)
  BY <1>1, <1>2
<1> QED  BY <1>1, <1>3 DEF Answered

(* A read, with what the parser makes of it, keeps the types.              *)
LEMMA MessagesKeepTypeInv ==
  ASSUME TypeInv, NEW c \in Clients, HandleMessage(c)
  PROVE  TypeInv'
<1>0. ClientsTyped /\ BuffersTyped /\ NetTyped /\ PoolTyped /\ TasksHaveTexts
      /\ \A d \in Clients : Bounded(d)
  BY DEF TypeInv
<1>1. Reads(c) /\ read' = [read EXCEPT ![c] = @ + Taken(c)]
      /\ (Unread(c) > 0 \/ Remaining(buffer[c]) = 0)
  BY DEF HandleMessage, Enqueue, sendClientError, ContinueReading, ParserThrows, Reads
<1>2. /\ Taken(c) \in Nat /\ Taken(c) <= Unread(c) /\ Unread(c) = sent[c] - read[c]
      /\ MessageLength(c) \in Nat /\ MessageLength(c) <= MAX_REQUEST_SIZE
      /\ From(c) \in Int /\ texts[c] > 0 /\ texts[c] \in 1 .. MaxTexts
  BY <1>1, ReadFits DEF Unread
<1>3. /\ read' \in [Clients -> Int]
      /\ read'[c] <= sent[c] /\ \A d \in Clients \ {c} : read'[d] = read[d]
  <2>1. sent[c] \in Nat /\ read[c] \in Int
    BY <1>0 DEF ClientsTyped, BuffersTyped
  <2>2. read[c] + Taken(c) <= sent[c] /\ read[c] + Taken(c) \in Int
    BY <1>2, <2>1
  <2> QED  BY <1>0, <1>1, <2>2 DEF BuffersTyped
<1>4. MAX_REQUEST_SIZE \in Nat /\ MAX_REQUEST_SIZE > 0
  BY Sizes
<1> DEFINE Fits(b) == b \in Buffers /\ b.position <= b.limit
                      /\ b.limit > 0 /\ b.limit <= MAX_REQUEST_SIZE
<1>5. ASSUME UNCHANGED <<state, text, texts, sent>>, ClientsTyped', NetTyped', PoolTyped',
             TasksHaveTexts', numReads' \in [Clients -> Nat],
             NEW b, Fits(b), buffer' = [buffer EXCEPT ![c] = b],
             \/ UNCHANGED <<clientReadBuffers, numReads>>
             \/ /\ numReads' = [numReads EXCEPT ![c] = 0]
                /\ clientReadBuffers' \subseteq clientReadBuffers
                /\ clientReadBuffers \ {c} \subseteq clientReadBuffers'
      PROVE  TypeInv'
  <2>1. buffer' \in [Clients -> Buffers] /\ buffer'[c] = b
        /\ \A d \in Clients \ {c} : buffer'[d] = buffer[d]
    BY <1>0, <1>5 DEF BuffersTyped
  <2>2. BuffersTyped'
    BY <1>0, <1>3, <1>5, <2>1 DEF BuffersTyped
  <2>3. ASSUME NEW d \in Clients PROVE Bounded(d)'
    <3>1. CASE d = c
      <4>1. numReads'[c] > 0 => c \in clientReadBuffers'
        BY <1>0, <1>5 DEF Bounded, BuffersTyped
      <4>2. texts'[c] # 0
        BY <1>2, <1>5
      <4> QED  BY <1>0, <1>3, <1>5, <2>1, <3>1, <4>1, <4>2 DEF Bounded
    <3>2. CASE d # c
      <4>1. numReads'[d] = numReads[d] /\ (d \in clientReadBuffers => d \in clientReadBuffers')
        BY <1>0, <1>5, <3>2 DEF BuffersTyped
      <4> QED  BY <1>0, <1>3, <1>5, <2>1, <3>2, <4>1, SameBounds
    <3> QED  BY <3>1, <3>2
  <2> QED  BY <1>5, <2>2, <2>3 DEF TypeInv
<1>6. CASE Enqueue(c)
  <2> DEFINE new == [client |-> c, number |-> texts[c], set |-> text[c].command = "set",
                     sends |-> SendsOf(text[c])]
  <2>1. /\ buffer' = [buffer EXCEPT ![c] = Flipped(c)]
        /\ queue' = Append(queue, new)
        /\ numReads' = [numReads EXCEPT ![c] = 0]
        /\ selected' = selected /\ net' \in {"select", "next"} /\ key' = ServerKey
        /\ UNCHANGED <<state, text, texts, sent, answers, channel, clientReadBuffers, task, stage>>
        /\ "request" \in Outcomes(c)
    BY <1>6 DEF Enqueue, ResetTimers, Proceed, clientVars
  <2>2. new \in Tasks
    <3>1. SendsOf(text[c]) \in Nat
      BY NumServersAssumption DEF SendsOf
    <3>2. (text[c].command = "set") \in BOOLEAN
      OBVIOUS
    <3> QED  BY <1>2, <3>1, <3>2 DEF Tasks
  <2>3. queue' \in Seq(Tasks) /\ Len(queue') = Len(queue) + 1 /\ Len(queue) \in Nat
        /\ queue'[Len(queue) + 1] = new /\ \A i \in 1 .. Len(queue) : queue'[i] = queue[i]
    BY <1>0, <2>1, <2>2 DEF PoolTyped
  <2>4. TasksHaveTexts'
    <3>1. \A i \in 1 .. Len(queue') : i = Len(queue) + 1 \/ i \in 1 .. Len(queue)
      BY <2>3
    <3> QED  BY <1>0, <1>2, <2>1, <2>3, <3>1 DEF TasksHaveTexts
  <2>5. ClientsTyped' /\ NetTyped' /\ PoolTyped' /\ numReads' \in [Clients -> Nat]
    BY <1>0, <2>1, <2>3 DEF ClientsTyped, NetTyped, PoolTyped, BuffersTyped
  <2>6. MessageLength(c) > 0
    BY <1>2, <2>1 DEF Outcomes, tryParseClientRequest
  <2>7. Fits(Flipped(c))
    BY <1>2, <2>6 DEF Flipped, Buffers
  <2> HIDE DEF Fits
  <2>8. clientReadBuffers' = clientReadBuffers
    BY <2>1
  <2> QED  BY <1>5, <2>1, <2>4, <2>5, <2>7, <2>8
<1>7. CASE sendClientError(c)
  <2>1. /\ buffer' = [buffer EXCEPT ![c] = AfterFaulty(c)]
        /\ selected' = selected /\ net' \in {"select", "next"} /\ key' = ServerKey
        /\ UNCHANGED <<state, text, texts, sent, queue, task, stage>>
        /\ \/ UNCHANGED <<clientReadBuffers, numReads>>
           \/ /\ numReads' = [numReads EXCEPT ![c] = 0]
              /\ clientReadBuffers' = clientReadBuffers \ {c}
        /\ channel' = channel \/ channel' = [channel EXCEPT ![c] = "closed"]
    BY <1>7 DEF sendClientError, CloseClient, evictClientBuffer, Proceed, poolVars
  <2>2. answers' \in [Clients -> Seq(AnswersToClient)]
    <3>1. Answered(c, texts[c], TRUE) \/ answers' = answers
      BY <1>7 DEF sendClientError
    <3> QED  BY <1>0, <1>2, <3>1, AnswersAreTyped DEF ClientsTyped
  <2>3. /\ ClientsTyped' /\ NetTyped' /\ PoolTyped' /\ TasksHaveTexts'
        /\ numReads' \in [Clients -> Nat]
    <3>1. numReads' \in [Clients -> Nat]
      BY <1>0, <2>1 DEF BuffersTyped
    <3>2. NetTyped'
      BY <1>0, <2>1 DEF NetTyped
    <3>3. ClientsTyped' /\ PoolTyped' /\ TasksHaveTexts'
      BY <1>0, <2>1, <2>2 DEF ClientsTyped, PoolTyped, TasksHaveTexts
    <3> QED  BY <3>1, <3>2, <3>3
  <2>4. Fits(AfterFaulty(c))
    <3>1. buffer[c] \in Buffers
      BY <1>0 DEF BuffersTyped
    <3> QED  BY <1>4, <3>1, Cleared DEF AfterFaulty
  <2> HIDE DEF Fits
  <2>5. \/ UNCHANGED <<clientReadBuffers, numReads>>
        \/ /\ numReads' = [numReads EXCEPT ![c] = 0]
           /\ clientReadBuffers' \subseteq clientReadBuffers
           /\ clientReadBuffers \ {c} \subseteq clientReadBuffers'
    BY <2>1
  <2> QED  BY <1>5, <2>1, <2>3, <2>4, <2>5
<1>8. CASE ContinueReading(c)
  <2>1. /\ buffer' = [buffer EXCEPT ![c] = AfterIncomplete(c)]
        /\ selected' = selected /\ net' \in {"select", "next"} /\ key' = ServerKey
        /\ UNCHANGED <<state, text, texts, sent, answers, channel, clientReadBuffers, numReads,
                       queue, task, stage>>
    BY <1>8 DEF ContinueReading, Proceed, clientVars, poolVars
  <2>2. /\ ClientsTyped' /\ NetTyped' /\ PoolTyped' /\ TasksHaveTexts'
        /\ numReads' \in [Clients -> Nat]
    BY <1>0, <2>1 DEF ClientsTyped, NetTyped, PoolTyped, TasksHaveTexts, BuffersTyped
  <2>3. Fits(AfterIncomplete(c))
    BY <1>2, <1>4 DEF AfterIncomplete, PositionAfterIncomplete, Buffers
  <2> HIDE DEF Fits
  <2> QED  BY <1>5, <2>1, <2>2, <2>3
<1>9. CASE ParserThrows(c)
  <2>1. /\ net' = "stopped"
        /\ UNCHANGED <<state, text, texts, sent, answers, channel, buffer, clientReadBuffers,
                       numReads, key, selected, queue, task, stage>>
    BY <1>9 DEF ParserThrows, StopNet, clientVars, bufferVars, poolVars
  <2>2. ClientsTyped' /\ BuffersTyped' /\ NetTyped' /\ PoolTyped' /\ TasksHaveTexts'
    BY <1>0, <1>3, <2>1 DEF ClientsTyped, BuffersTyped, NetTyped, PoolTyped, TasksHaveTexts
  <2>3. \A d \in Clients : Bounded(d)'
    BY <1>0, <1>2, <1>3, <2>1 DEF Bounded
  <2> QED  BY <2>2, <2>3 DEF TypeInv
<1> QED  BY <1>6, <1>7, <1>8, <1>9 DEF HandleMessage

(* A thread that takes a task keeps the types.                             *)
LEMMA TakeKeepsTypeInv ==
  ASSUME TypeInv, NEW w \in Workers, Take(w)
  PROVE  TypeInv'
<1>0. ClientsTyped /\ BuffersTyped /\ NetTyped /\ PoolTyped /\ TasksHaveTexts
      /\ \A d \in Clients : Bounded(d)
  BY DEF TypeInv
<1>1. /\ stage[w] = "idle" /\ queue # << >> /\ queue' = Tail(queue)
      /\ task' = [task EXCEPT ![w] = Head(queue)]
      /\ stage' = [stage EXCEPT ![w] = "taken"]
      /\ UNCHANGED <<state, text, texts, sent, answers, channel, read, buffer, clientReadBuffers,
                     numReads, net, key, selected>>
  BY DEF Take, clientVars, bufferVars, netVars
<1>2. /\ Head(queue) = queue[1] /\ 1 \in 1 .. Len(queue) /\ Head(queue) \in Tasks
      /\ queue' \in Seq(Tasks) /\ Len(queue') = Len(queue) - 1 /\ Len(queue) \in Nat
      /\ \A i \in 1 .. Len(queue) - 1 : queue'[i] = queue[i + 1]
  BY <1>0, <1>1 DEF PoolTyped
<1>3. /\ task'[w] = Head(queue) /\ stage'[w] = "taken"
      /\ \A v \in Workers \ {w} : task'[v] = task[v] /\ stage'[v] = stage[v]
  BY <1>0, <1>1 DEF PoolTyped
<1>4. PoolTyped'
  <2>1. task' \in [Workers -> Tasks \cup {NoTask}]
        /\ stage' \in [Workers -> {"idle", "taken", "drained", "rewound", "served"}]
    BY <1>0, <1>1, <1>2 DEF PoolTyped
  <2>2. Head(queue) # NoTask
    BY <1>2, NoTaskIsNone
  <2>3. \A v \in Workers : stage'[v] = "idle" <=> task'[v] = NoTask
    BY <1>0, <1>3, <2>2 DEF PoolTyped
  <2> QED  BY <1>2, <2>1, <2>3 DEF PoolTyped
<1>5. TasksHaveTexts'
  <2>1. \A i \in 1 .. Len(queue) - 1 : i + 1 \in 1 .. Len(queue)
    BY <1>2
  <2>2. \A i \in 1 .. Len(queue') : texts[queue'[i].client] > 0
    BY <1>0, <1>2, <2>1 DEF TasksHaveTexts
  <2>3. texts[Head(queue).client] > 0
    BY <1>0, <1>2 DEF TasksHaveTexts
  <2> QED  BY <1>0, <1>1, <1>3, <2>2, <2>3 DEF TasksHaveTexts
<1>6. ClientsTyped' /\ BuffersTyped' /\ NetTyped'
  BY <1>0, <1>1 DEF ClientsTyped, BuffersTyped, NetTyped
<1>7. \A d \in Clients : Bounded(d)'
  BY <1>0, <1>1, SameBounds
<1> QED  BY <1>4, <1>5, <1>6, <1>7 DEF TypeInv

(* A worker that uses the buffer of its client goes on with its task.      *)
LEMMA UseKeepsTypeInv ==
  ASSUME TypeInv, NEW w \in Workers, NEW from, NEW to \in {"drained", "rewound", "served"},
         NEW contents \in Buffers, contents.position <= contents.limit,
         contents.limit > 0, contents.limit <= MAX_REQUEST_SIZE,
         UseBuffer(w, from, to, contents), "idle" \notin from,
         NEW t \in Tasks, t.client = task[w].client, task' = [task EXCEPT ![w] = t]
  PROVE  TypeInv'
<1>0. ClientsTyped /\ BuffersTyped /\ NetTyped /\ PoolTyped /\ TasksHaveTexts
      /\ \A d \in Clients : Bounded(d)
  BY DEF TypeInv
<1> PICK c : c = task[w].client
  OBVIOUS
<1>1. /\ stage[w] # "idle" /\ stage' = [stage EXCEPT ![w] = to]
      /\ buffer' = [buffer EXCEPT ![c] = contents]
      /\ UNCHANGED <<state, text, texts, sent, answers, channel, read, clientReadBuffers,
                     numReads, net, key, selected, queue>>
  BY DEF UseBuffer, clientVars, netVars
<1>2. c \in Clients /\ texts[c] > 0 /\ texts[c] # 0
  <2>1. c \in Clients /\ texts[c] > 0
    BY <1>0, <1>1, TasksAreOfClients DEF TasksHaveTexts
  <2> QED  BY <1>0, <2>1 DEF ClientsTyped
<1>3. /\ task'[w] = t /\ stage'[w] = to
      /\ \A v \in Workers \ {w} : task'[v] = task[v] /\ stage'[v] = stage[v]
  BY <1>0, <1>1 DEF PoolTyped
<1>4. PoolTyped'
  <2>1. task' \in [Workers -> Tasks \cup {NoTask}]
        /\ stage' \in [Workers -> {"idle", "taken", "drained", "rewound", "served"}]
    BY <1>0, <1>1 DEF PoolTyped
  <2>2. t # NoTask
    BY NoTaskIsNone
  <2>3. \A v \in Workers : stage'[v] = "idle" <=> task'[v] = NoTask
    BY <1>0, <1>3, <2>2 DEF PoolTyped
  <2> QED  BY <1>0, <1>1, <2>1, <2>3 DEF PoolTyped
<1>5. TasksHaveTexts'
  BY <1>0, <1>1, <1>2, <1>3 DEF TasksHaveTexts
<1>6. buffer' \in [Clients -> Buffers] /\ buffer'[c] = contents
      /\ \A d \in Clients \ {c} : buffer'[d] = buffer[d]
  BY <1>0, <1>1, <1>2 DEF BuffersTyped
<1>7. ClientsTyped' /\ BuffersTyped' /\ NetTyped'
  BY <1>0, <1>1, <1>6 DEF ClientsTyped, BuffersTyped, NetTyped
<1>8. ASSUME NEW d \in Clients PROVE Bounded(d)'
  <2>1. CASE d = c
    BY <1>0, <1>1, <1>2, <1>6, <2>1 DEF Bounded
  <2>2. CASE d # c
    BY <1>0, <1>1, <1>6, <2>2, SameBounds
  <2> QED  BY <2>1, <2>2
<1> QED  BY <1>4, <1>5, <1>7, <1>8 DEF TypeInv

(* What a thread does to its client's buffer keeps the types.              *)
LEMMA WorkerStepKeepsTypeInv ==
  ASSUME TypeInv, NEW w \in Workers, WorkerStep(w)
  PROVE  TypeInv'
<1>0. ClientsTyped /\ BuffersTyped /\ NetTyped /\ PoolTyped /\ TasksHaveTexts
      /\ \A d \in Clients : Bounded(d)
  BY DEF TypeInv
<1> PICK c : c = task[w].client
  OBVIOUS
<1>1. stage[w] # "idle"
  BY DEF WorkerStep, Drain, Rewind, ClearBuffer, SetFails, Reply, ReplyFails, UseBuffer, Done
<1>2. task[w] \in Tasks /\ c \in Clients
  BY <1>0, <1>1, TasksAreOfClients
<1>3. /\ buffer[c] \in Buffers /\ buffer[c].position <= buffer[c].limit
      /\ buffer[c].limit > 0 /\ buffer[c].limit <= MAX_REQUEST_SIZE
      /\ buffer[c].limit \in Nat
  <2>1. buffer[c] \in Buffers
    BY <1>0, <1>2 DEF BuffersTyped
  <2> QED  BY <1>0, <1>2, <2>1 DEF Bounded, Buffers
<1>4. UNCHANGED task => task' = [task EXCEPT ![w] = task[w]]
  BY <1>0 DEF PoolTyped
<1>5. CASE Drain(w)
  <2> DEFINE contents == [buffer[c] EXCEPT !.position = buffer[c].limit]
             t == [task[w] EXCEPT !.sends = @ - 1]
  <2>1. UseBuffer(w, {"taken", "rewound"}, "drained", contents) /\ task[w].sends > 0
        /\ task' = [task EXCEPT ![w] = t]
    BY <1>5 DEF Drain
  <2>2. /\ contents \in Buffers /\ contents.position = buffer[c].limit
        /\ contents.limit = buffer[c].limit
    BY <1>3, Moved
  <2>3. t \in Tasks /\ t.client = task[w].client
    <3>1. task[w].sends \in Nat /\ task[w].sends - 1 \in Nat
      BY <1>2, <2>1 DEF Tasks
    <3> QED  BY <1>2, <3>1 DEF Tasks
  <2>4. contents.position <= contents.limit
    BY <1>3, <2>2
  <2> HIDE DEF contents, t
  <2> QED  BY <1>3, <2>1, <2>2, <2>3, <2>4, UseKeepsTypeInv
<1>6. CASE Rewind(w)
  <2> DEFINE contents == [buffer[c] EXCEPT !.position = 0]
  <2>1. UseBuffer(w, {"drained"}, "rewound", contents) /\ UNCHANGED task
    BY <1>6 DEF Rewind
  <2>2. contents \in Buffers /\ contents.position = 0 /\ contents.limit = buffer[c].limit
    BY <1>3, Moved
  <2>3. contents.position <= contents.limit
    BY <1>3, <2>2
  <2> HIDE DEF contents
  <2> QED  BY <1>2, <1>3, <1>4, <2>1, <2>2, <2>3, UseKeepsTypeInv
<1>7. CASE ClearBuffer(w)
  <2> DEFINE contents == Clear(buffer[c])
             from == IF task[w].set THEN {"rewound"} ELSE {"taken", "drained"}
  <2>1. UseBuffer(w, from, "served", contents) /\ UNCHANGED task /\ "idle" \notin from
    BY <1>7 DEF ClearBuffer
  <2>2. contents \in Buffers /\ contents.position = 0 /\ contents.limit = MAX_REQUEST_SIZE
    BY <1>3, Cleared
  <2>3. contents.position <= contents.limit /\ contents.limit > 0
        /\ contents.limit <= MAX_REQUEST_SIZE
    BY <2>2, Sizes
  <2> HIDE DEF contents, from
  <2> QED  BY <1>2, <1>4, <2>1, <2>2, <2>3, UseKeepsTypeInv
<1>8. CASE SetFails(w)
  <2>1. UseBuffer(w, {"taken", "rewound"}, "served", buffer[c]) /\ UNCHANGED task
    BY <1>8 DEF SetFails
  <2> QED  BY <1>2, <1>3, <1>4, <2>1, UseKeepsTypeInv
<1>9. CASE Reply(w) \/ ReplyFails(w)
  <2>1. /\ task' = [task EXCEPT ![w] = NoTask] /\ stage' = [stage EXCEPT ![w] = "idle"]
        /\ UNCHANGED <<state, text, texts, sent, read, buffer, clientReadBuffers, numReads,
                       net, key, selected, queue>>
        /\ channel' = channel \/ channel' = [channel EXCEPT ![c] = "closed"]
    BY <1>9 DEF Reply, ReplyFails, Done, bufferVars, netVars
  <2>2. answers' \in [Clients -> Seq(AnswersToClient)]
    <3>1. Answered(c, task[w].number, FALSE) \/ answers' = answers
      BY <1>9 DEF Reply, ReplyFails
    <3>2. task[w].number \in 1 .. MaxTexts
      BY <1>2 DEF Tasks
    <3> QED  BY <1>0, <1>2, <3>1, <3>2, AnswersAreTyped DEF ClientsTyped
  <2>3. PoolTyped'
    <3>1. task' \in [Workers -> Tasks \cup {NoTask}]
          /\ stage' \in [Workers -> {"idle", "taken", "drained", "rewound", "served"}]
      BY <1>0, <2>1 DEF PoolTyped
    <3>2. \A v \in Workers : stage'[v] = "idle" <=> task'[v] = NoTask
      BY <1>0, <2>1 DEF PoolTyped
    <3> QED  BY <1>0, <2>1, <3>1, <3>2 DEF PoolTyped
  <2>4. TasksHaveTexts'
    <3>1. \A v \in Workers : stage'[v] # "idle" => task'[v] = task[v] /\ stage[v] # "idle"
      BY <1>0, <2>1 DEF PoolTyped
    <3> QED  BY <1>0, <2>1, <3>1 DEF TasksHaveTexts
  <2>5. ClientsTyped' /\ BuffersTyped'
    BY <1>0, <2>1, <2>2 DEF ClientsTyped, BuffersTyped
  <2>6. NetTyped'
    BY <1>0, <2>1 DEF NetTyped
  <2>7. \A d \in Clients : Bounded(d)'
    BY <1>0, <2>1, SameBounds
  <2> QED  BY <2>3, <2>4, <2>5, <2>6, <2>7 DEF TypeInv
<1> QED  BY <1>5, <1>6, <1>7, <1>8, <1>9 DEF WorkerStep

(* Every step keeps the types.                                             *)
LEMMA NextKeepsTypeInv == TypeInv /\ [Next]_vars => TypeInv'
<1> SUFFICES ASSUME TypeInv, [Next]_vars PROVE TypeInv'
  OBVIOUS
<1>1. CASE \E c \in Clients : ClientStep(c)
  BY <1>1, ClientStepKeepsTypeInv
<1>2. CASE NetStep
  BY <1>2, KeysKeepTypeInv, EndsOfKeysKeepTypeInv, MessagesKeepTypeInv DEF NetStep
<1>3. CASE \E w \in Workers : Take(w) \/ WorkerStep(w)
  BY <1>3, TakeKeepsTypeInv, WorkerStepKeepsTypeInv
<1>4. CASE UNCHANGED vars
  <2>1. UNCHANGED <<state, text, texts, sent, answers, channel, read, buffer, clientReadBuffers,
                    numReads, net, key, selected, queue, task, stage>>
    BY <1>4 DEF vars, clientVars, bufferVars, poolVars
  <2>2. ClientsTyped' /\ BuffersTyped' /\ NetTyped' /\ PoolTyped' /\ TasksHaveTexts'
    BY <2>1 DEF TypeInv, ClientsTyped, BuffersTyped, NetTyped, PoolTyped, TasksHaveTexts
  <2>3. \A d \in Clients : Bounded(d)'
    BY <2>1, SameBounds DEF TypeInv
  <2> QED  BY <2>2, <2>3 DEF TypeInv
<1> QED  BY <1>1, <1>2, <1>3, <1>4 DEF Next

(* The types hold in every behaviour.                                      *)
LEMMA TypesInvariant == Spec => []TypeInv
  BY InitTypeInv, NextKeepsTypeInv, PTL DEF Spec

(* Whatever clients send and whenever they leave: no buffer is written or  *)
(* read beyond its limit, and every task is one of a client.               *)
THEOREM TypeCorrect == Spec => []TypeOK
  BY TypesInvariant, TypesHold, PTL

-----------------------------------------------------------------------------
(* The parser, given a whole text or the part before a split.              *)

(* What the parser makes of a text that has come in whole.                 *)
LEMMA WholeTexts ==
  ASSUME NEW t \in Texts
  PROVE  /\ "request" \in tryParseClientRequest(t, 0, t.total) => WellFormed(t)
         /\ "faulty" \in tryParseClientRequest(t, 0, t.total) => ~WellFormed(t)
         /\ WellFormed(t) /\ t.line > 4 => tryParseClientRequest(t, 0, t.total) = {"request"}
<1>1. /\ t.total \in Nat /\ t.line \in Nat /\ t.blanks \in Nat /\ t.size \in Int
      /\ t.command \in {"get", "set", "other"}
  BY TextsAssumption DEF Text
<1>2. CASE t.command = "get"
  BY <1>1, <1>2 DEF tryParseClientRequest, StartsWith, GetOutcomes, OpenLine,
                    WellFormed, MAX_MULTIGETS_SIZE
<1>3. CASE t.command = "set"
  <2> DEFINE ends == DatablockEnds(t, t.total)
  <2>1. WellFormed(t) <=> t.blanks = 3 /\ t.size <= 1024 /\ ends
    <3>1. WellFormed(t) <=> /\ t.blanks = 3 /\ t.size \in 0 .. 1024
                            /\ t.total = t.line + t.size + 2
      BY <1>3 DEF WellFormed, MAX_DATABLOCK_SIZE
    <3>2. PICK n \in Int : n = t.size
      BY <1>1
    <3>3. n \in 0 .. 1024 <=> n >= 0 /\ n <= 1024
      OBVIOUS
    <3>4. WellFormed(t) <=> t.blanks = 3 /\ n \in 0 .. 1024 /\ t.total = t.line + t.size + 2
      BY <3>1, <3>2
    <3>5. ends <=> n >= 0 /\ t.total = t.line + t.size + 2
      BY <3>2 DEF DatablockEnds
    <3> QED  BY <3>2, <3>3, <3>4, <3>5
  <2>2. ends => t.total > t.line /\ t.line + t.size >= 0
    BY <1>1 DEF DatablockEnds
  <2> HIDE DEF ends
  <2>3. SetOutcomes(t, t.total) =
          IF t.total < t.line THEN OpenLine(t, t.total, 3)
          ELSE IF t.blanks > 3 THEN {"faulty"}
          ELSE IF t.total = t.line THEN {"incomplete"}
          ELSE IF t.blanks < 3 \/ t.line + t.size < 0 THEN {"throws"}
          ELSE IF t.size > 1024 \/ ~ends THEN {"faulty"}
          ELSE {"request"}
    BY DEF SetOutcomes, ends, MAX_DATABLOCK_SIZE
  <2>4. tryParseClientRequest(t, 0, t.total) =
          IF t.total < 4 THEN {"incomplete"} ELSE SetOutcomes(t, t.total)
    BY <1>3 DEF tryParseClientRequest, StartsWith
  <2>5. CASE t.total < t.line
    BY <1>1, <2>1, <2>2, <2>3, <2>4, <2>5 DEF OpenLine
  <2>6. CASE t.total >= t.line
    <3>1. "request" \in SetOutcomes(t, t.total) <=> t.blanks = 3 /\ t.size <= 1024 /\ ends
      BY <1>1, <2>2, <2>3, <2>6
    <3>2. t.blanks = 3 /\ t.size <= 1024 /\ ends => SetOutcomes(t, t.total) = {"request"}
      BY <1>1, <2>2, <2>3, <2>6
    <3>3. t.line > 4 => ~(t.total < 4)
      BY <1>1, <2>6
    <3> QED  BY <2>1, <2>4, <3>1, <3>2, <3>3
  <2> QED  BY <1>1, <2>5, <2>6
<1>4. CASE t.command = "other"
  BY <1>1, <1>4 DEF tryParseClientRequest, StartsWith, WellFormed
<1> QED  BY <1>1, <1>2, <1>3, <1>4

(* A text that is sent in one piece, or a SET that is split behind its     *)
(* command or its first line.                                              *)
LEMMA TextsInOnePiece == Splits = {} => PartsAreWaitedFor
  BY DEF PartsAreWaitedFor, Pieces

(* A well-formed text that is split in its header is waited for.           *)
LEMMA TextsSplitInTheHeader ==
  ASSUME Splits \subseteq {"command", "header"}, OnlyWellFormedSent
  PROVE  PartsAreWaitedFor
<1> SUFFICES ASSUME NEW t \in Texts, NEW length \in Pieces(t) \ {t.total}
             PROVE  length >= 4 /\ tryParseClientRequest(t, 0, length) = {"incomplete"}
  BY DEF PartsAreWaitedFor
<1>1. /\ t.total \in Nat /\ t.line \in Nat /\ t.blanks \in Nat /\ t.size \in Int
      /\ t.command \in {"get", "set", "other"} /\ WellFormed(t) /\ t.line > 4
  BY TextsAssumption DEF Text, OnlyWellFormedSent
<1>2. length \in 1 .. t.total - 1 /\ (length = 4 \/ length = t.line)
  BY DEF Pieces, Offset
<1>3. CASE t.command = "get"
  BY <1>1, <1>2, <1>3
     DEF WellFormed, tryParseClientRequest, StartsWith, GetOutcomes, OpenLine
<1>4. CASE t.command = "set"
  BY <1>1, <1>2, <1>4
     DEF WellFormed, tryParseClientRequest, StartsWith, SetOutcomes, OpenLine
<1>5. CASE t.command = "other"
  BY <1>1, <1>5 DEF WellFormed
<1> QED  BY <1>1, <1>3, <1>4, <1>5

(* WaitedFor says where the parser waits.                                  *)
LEMMA WaitedForIsWaitedFor ==
  ASSUME NEW t \in Texts, NEW length \in 1 .. t.total - 1, length \in WaitedFor(t)
  PROVE  length >= 4 /\ tryParseClientRequest(t, 0, length) = {"incomplete"}
<1>1. /\ t.total \in Nat /\ t.line \in Nat /\ t.blanks \in Nat /\ t.size \in Int
      /\ t.command \in {"get", "set", "other"}
      /\ t.command # "other" => t.line > 4
  BY TextsAssumption DEF Text
<1>2. CASE t.command = "get"
  BY <1>1, <1>2 DEF WaitedFor, tryParseClientRequest, StartsWith, GetOutcomes, OpenLine
<1>3. CASE t.command = "set"
  BY <1>1, <1>3 DEF WaitedFor, tryParseClientRequest, StartsWith, SetOutcomes, OpenLine
<1>4. CASE t.command = "other"
  BY <1>4 DEF WaitedFor
<1> QED  BY <1>1, <1>2, <1>3, <1>4

-----------------------------------------------------------------------------
(* Init and every action keep the clients in order.                        *)

(* Every client starts in order.                                           *)
LEMMA InitInOrder == RoomForTexts /\ Init => IInv
<1> SUFFICES ASSUME RoomForTexts, Init PROVE IInv
  OBVIOUS
<1>1. ASSUME NEW c \in Clients PROVE InOrder(c)
  <2>1. ~Pooled(c)
    BY <1>1, ServerKeyAssumption DEF Init, Pooled, QueuedFor, WorkersFor, NoTask
  <2>2. Empty(c)
    BY DEF Init, RoomForTexts, TextsFit, Empty, Room, NewBuffer, MAX_REQUEST_SIZE
  <2>3. Resting(c)
    BY <2>1, <2>2 DEF Init, Resting, Quiet
  <2> QED  BY <2>3, ServerKeyAssumption DEF Init, InOrder, Served, Attended
<1> QED  BY <1>1 DEF IInv, Orderly, KeyTaken, Init

(* The queue, and the workers, as far as c is concerned.                   *)
QueueKept(c) ==
  /\ QueuedFor(c) = {} <=> QueuedFor(c)' = {}
  /\ (\A i, j \in QueuedFor(c) : i = j) => (\A i, j \in QueuedFor(c)' : i = j)
  /\ \A i \in QueuedFor(c)' : \E j \in QueuedFor(c) : queue'[i] = queue[j]

WorkersKept(c) ==
  /\ WorkersFor(c)' = WorkersFor(c)
  /\ \A w \in WorkersFor(c) : task'[w] = task[w] /\ stage'[w] = stage[w]

ClientKept(c) ==
  /\ state'[c] = state[c] /\ text'[c] = text[c] /\ texts'[c] = texts[c] /\ sent'[c] = sent[c]
  /\ answers'[c] = answers[c] /\ read'[c] = read[c] /\ buffer'[c] = buffer[c]

(* A client whose buffer, tasks and key a step leaves alone stays in       *)
(* order.                                                                  *)
LEMMA Untouched ==
  ASSUME NEW c \in Clients, InOrder(c), ClientKept(c), QueueKept(c), WorkersKept(c),
         state[c] # "gone" /\ channel[c] # "closed" => channel'[c] # "closed",
         state[c] # "gone" => (Attended(c)' => Attended(c) \/ Unread(c) > 0)
  PROVE  InOrder(c)'
<1> USE DEF ClientKept
<1>1. Pooled(c)' <=> Pooled(c)
  BY DEF QueueKept, WorkersKept, Pooled
<1>2. Empty(c)' <=> Empty(c)
  BY DEF Empty
<1>3. Reading(c)' <=> Reading(c)
  BY DEF Reading
<1>4. Quiet(c)' <=> Quiet(c)
  BY <1>1 DEF Quiet
<1>5. CASE state[c] = "gone"
  BY <1>1, <1>2, <1>5 DEF InOrder, Left
<1>6. CASE state[c] # "gone"
  <2>1. Served(c)
    BY <1>6 DEF InOrder
  <2>2. Attended(c)' => Unread(c)' > 0
    BY <1>6, <2>1 DEF Served, Unread
  <2>3. state[c] \in {"away", "idle"} => Resting(c)'
    BY <1>2, <1>4, <2>1 DEF Served, Resting
  <2>4. state[c] = "sending" => Sending(c)'
    BY <1>3, <1>4, <2>1 DEF Served, Sending
  <2>5. Serving(c) => Serving(c)'
    <3> SUFFICES ASSUME Serving(c) PROVE Serving(c)'
      OBVIOUS
    <3>1. OneTask(c)'
      BY DEF Serving, OneTask, QueueKept, WorkersKept
    <3>2. \A i \in QueuedFor(c)' : IsTaskOf(c, queue[i])' /\ HoldsText(c, 0)'
      <4> TAKE i \in QueuedFor(c)'
      <4>1. PICK j \in QueuedFor(c) : queue'[i] = queue[j]
        BY DEF QueueKept
      <4>2. IsTaskOf(c, queue[j]) /\ HoldsText(c, 0)
        BY DEF Serving
      <4> QED  BY <4>1, <4>2 DEF IsTaskOf, HoldsText
    <3>3. \A w \in WorkersFor(c)' :
            /\ IsTaskOf(c, task[w])'
            /\ IF stage'[w] = "served" THEN Empty(c)'
               ELSE HoldsText(c, IF stage[w] = "drained" THEN buffer[c].limit ELSE 0)'
      <4> TAKE w \in WorkersFor(c)'
      <4>1. w \in WorkersFor(c) /\ task'[w] = task[w] /\ stage'[w] = stage[w]
        BY DEF WorkersKept
      <4> QED  BY <1>2, <4>1 DEF Serving, IsTaskOf, HoldsText
    <3> QED  BY <3>1, <3>2, <3>3 DEF Serving
  <2>6. state[c] = "awaiting" => Awaiting(c)'
    BY <1>1, <1>2, <1>3, <1>4, <2>1, <2>5 DEF Served, Awaiting
  <2> QED  BY <1>6, <2>1, <2>2, <2>3, <2>4, <2>6 DEF InOrder, Served
<1> QED  BY <1>5, <1>6

(* A step that leaves the pool alone keeps the tasks of every client.      *)
LEMMA PoolKept ==
  ASSUME UNCHANGED <<queue, task, stage>>, NEW c
  PROVE  QueueKept(c) /\ WorkersKept(c) /\ (Pooled(c)' <=> Pooled(c))
BY DEF QueueKept, WorkersKept, Pooled, QueuedFor, WorkersFor

(* A sequence of one element has an empty tail.                            *)
LEMMA NothingBehindTheOnly ==
  ASSUME NEW S, NEW s \in Seq(S), Len(s) = 1
  PROVE  Tail(s) = << >>
<1>1. Tail(s) \in Seq(S) /\ Len(Tail(s)) = 0
  BY HeadTailProperties
<1> QED  BY <1>1, EmptySeq

(* The clients keep every client in order.                                 *)
LEMMA ClientStepKeepsOrder ==
  ASSUME TypeInv, NEW D \in SUBSET Clients, Orderly(D), NEW c \in Clients, ClientStep(c)
  PROVE  Orderly(D)'
<1>1. /\ UNCHANGED <<buffer, net, key, selected, queue, task, stage>>
      /\ \A d \in Clients \ {c} :
            ClientKept(d) /\ channel'[d] = channel[d]
  BY DEF ClientStep, Connect, Begin, Send, TakeAnswer, Leave, bufferVars, poolVars,
         TypeInv, ClientsTyped, BuffersTyped, NetTyped, ClientKept
<1>2. KeyTaken'
  BY <1>1 DEF Orderly, KeyTaken
<1>3. \A d \in Clients : /\ QueueKept(d) /\ WorkersKept(d)
                         /\ Pooled(d)' <=> Pooled(d)
                         /\ Attended(d)' <=> Attended(d)
  BY <1>1, PoolKept DEF Attended
<1>4. \A d \in D \ {c} : InOrder(d)'
  BY <1>1, <1>3, Untouched DEF Orderly
<1> SUFFICES ASSUME c \in D PROVE Orderly(D)'
  BY <1>2, <1>4 DEF Orderly
<1>0. InOrder(c)
  BY DEF Orderly
<1>5. /\ text[c] \in Texts \cup {NoText} /\ sent[c] \in Nat /\ read[c] \in Int /\ texts[c] \in Nat
      /\ read[c] <= sent[c] /\ answers[c] \in Seq(AnswersToClient)
  BY DEF TypeInv, ClientsTyped, BuffersTyped, Bounded
<1>6. CASE Connect(c)
  <2>1. /\ state[c] = "away" /\ state'[c] = "idle" /\ channel'[c] = "pending"
        /\ sent'[c] = sent[c] /\ read'[c] = read[c] /\ answers'[c] = answers[c]
    BY <1>6 DEF Connect, TypeInv, ClientsTyped, NetTyped
  <2>2. Served(c)'
    BY <1>1, <1>0, <1>2, <1>3, <2>1 DEF InOrder, Served, Resting, Quiet, Empty, Unread
  <2> QED  BY <1>0, <1>2, <1>4, <2>1, <2>2 DEF Orderly, InOrder
<1>7. CASE Begin(c)
  <2>1. /\ state[c] = "idle" /\ state'[c] = "sending" /\ channel'[c] = channel[c]
        /\ sent'[c] = 0 /\ read'[c] = read[c] - sent[c] /\ answers'[c] = answers[c]
        /\ text'[c] \in Texts
    BY <1>7 DEF Begin, TypeInv, ClientsTyped, NetTyped, BuffersTyped
  <2>2. Resting(c) /\ channel[c] # "closed" /\ (Attended(c) => Unread(c) > 0)
    BY <1>0, <1>2, <2>1 DEF InOrder, Served
  <2>3. ~Attended(c)'
    BY <1>3, <1>5, <2>2 DEF Resting, Unread
  <2>4. read'[c] = 0
    BY <1>5, <2>1, <2>2 DEF Resting
  <2>5. Sending(c)'
    BY <1>1, <1>3, <2>1, <2>2, <2>4 DEF Resting, Sending, Quiet, Reading, Empty
  <2> QED  BY <1>0, <1>2, <1>4, <2>1, <2>2, <2>3, <2>5 DEF Orderly, InOrder, Served
<1>8. CASE Send(c)
  <2>1. PICK end \in Pieces(text[c]) :
        /\ state[c] = "sending" /\ end > sent[c]
        /\ state' = [state EXCEPT ![c] = IF end = text[c].total THEN "awaiting" ELSE @]
        /\ sent' = [sent EXCEPT ![c] = end]
        /\ UNCHANGED <<text, texts, answers, channel, read>>
    BY <1>8 DEF Send
  <2>2. /\ state'[c] = IF end = text[c].total THEN "awaiting" ELSE "sending"
        /\ sent'[c] = end
    BY <2>1 DEF TypeInv, ClientsTyped
  <2>3. Sending(c) /\ channel[c] # "closed" /\ (Attended(c) => Unread(c) > 0)
    BY <1>0, <1>2, <2>1 DEF InOrder, Served
  <2>4. end \in Nat
    BY <1>5, PiecesAreParts
  <2>5. Unread(c) > 0 => Unread(c)' > 0
    BY <1>5, <2>1, <2>2, <2>4 DEF Unread
  <2>6. Quiet(c)' /\ Reading(c)'
    BY <1>1, <1>3, <2>1, <2>3 DEF Sending, Quiet, Reading
  <2>7. CASE end = text[c].total
    <3>1. Awaiting(c)'
      BY <2>1, <2>2, <2>3, <2>6, <2>7 DEF Sending, Awaiting
    <3> QED  BY <1>0, <1>2, <1>3, <1>4, <2>1, <2>2, <2>3, <2>5, <2>7, <3>1 DEF Orderly, InOrder, Served
  <2>8. CASE end # text[c].total
    <3>1. Sending(c)'
      BY <2>1, <2>2, <2>3, <2>6, <2>8 DEF Sending
    <3> QED  BY <1>0, <1>2, <1>3, <1>4, <2>1, <2>2, <2>3, <2>5, <2>8, <3>1 DEF Orderly, InOrder, Served
  <2> QED  BY <2>7, <2>8
<1>9. CASE TakeAnswer(c)
  <2>1. /\ state[c] = "awaiting" /\ state'[c] = "idle" /\ channel'[c] = channel[c]
        /\ answers[c] # << >> /\ answers'[c] = Tail(answers[c])
        /\ UNCHANGED <<text, texts, sent, read>>
    BY <1>9 DEF TakeAnswer, TypeInv, ClientsTyped
  <2>2. Awaiting(c) /\ channel[c] # "closed" /\ (Attended(c) => Unread(c) > 0)
    BY <1>0, <1>2, <2>1 DEF InOrder, Served
  <2>3. ~Pooled(c) /\ read[c] = sent[c] /\ Empty(c) /\ Len(answers[c]) = 1
    BY <2>1, <2>2 DEF Awaiting, Quiet
  <2>4. answers'[c] = << >>
    BY <1>5, <2>1, <2>3, NothingBehindTheOnly
  <2>5. Resting(c)'
    BY <1>1, <1>3, <2>1, <2>3, <2>4 DEF Resting, Quiet, Empty
  <2>6. Unread(c)' = Unread(c)
    BY <2>1 DEF Unread
  <2> QED  BY <1>0, <1>2, <1>3, <1>4, <2>1, <2>2, <2>5, <2>6 DEF Orderly, InOrder, Served
<1>10. CASE Leave(c)
  <2>1. /\ state'[c] = "gone" /\ UNCHANGED <<text, texts, sent, read>>
        /\ LeavesEarly \/ state[c] = "idle"
    BY <1>10 DEF Leave, TypeInv, ClientsTyped
  <2>2. ~LeavesEarly => Resting(c)
    BY <1>0, <1>2, <2>1 DEF InOrder, Served
  <2>3. ~LeavesEarly => Left(c)'
    BY <1>1, <1>3, <2>1, <2>2 DEF Resting, Left, Quiet, Empty
  <2> QED  BY <1>0, <1>2, <1>4, <2>1, <2>3 DEF Orderly, InOrder
<1> QED  BY <1>6, <1>7, <1>8, <1>9, <1>10 DEF ClientStep

(* Selecting, and going from key to key.                                   *)
LEMMA KeyStepKeepsOrder ==
  ASSUME TypeInv, NEW D \in SUBSET Clients, Orderly(D),
         \/ Select \/ Accept
         \/ \E c \in Clients : TakeKey(c) \/ CheckKey(c) \/ EndOfStream(c) \/ ReadFails(c)
  PROVE  Orderly(D)'
<1> DEFINE Disconnects == \E c \in Clients : EndOfStream(c) \/ ReadFails(c)
<1>1. /\ UNCHANGED <<state, text, texts, sent, answers, read, buffer, queue, task, stage>>
  BY DEF Select, Accept, TakeKey, CheckKey, EndOfStream, ReadFails, clientVars, bufferVars, poolVars
<1>2. KeyTaken' /\ \A d \in Clients : state[d] # "gone" => (Attended(d)' => Attended(d) \/ Unread(d) > 0)
  <2>1. CASE Select
    <3>1. selected' = Ready /\ net' = "next"
      BY <2>1 DEF Select
    <3>2. \A d \in Clients : d \in Ready /\ state[d] # "gone" => Unread(d) > 0
      BY ServerKeyAssumption DEF Ready, Readable
    <3> QED  BY <3>1, <3>2 DEF KeyTaken, Attended
  <2>2. CASE Accept
    BY <2>2 DEF Accept, Proceed, KeyTaken, Attended
  <2>3. CASE \E c \in Clients : TakeKey(c)
    BY <2>3 DEF TakeKey, Proceed, KeyTaken, Attended
  <2>4. CASE \E c \in Clients : CheckKey(c)
    BY <2>4 DEF CheckKey, StopNet, KeyTaken, Attended, Orderly
  <2>5. CASE \E c \in Clients : EndOfStream(c) \/ ReadFails(c)
    BY <2>5 DEF EndOfStream, ReadFails, CloseClient, Proceed, KeyTaken, Attended
  <2> QED  BY <2>1, <2>2, <2>3, <2>4, <2>5
<1>3. \A d \in Clients : state[d] # "gone" /\ channel[d] # "closed" => channel'[d] # "closed"
  <2>1. CASE Select \/ \E c \in Clients : TakeKey(c) \/ CheckKey(c)
    BY <2>1 DEF Select, TakeKey, CheckKey
  <2>2. CASE Accept
    BY <2>2 DEF Accept, TypeInv, NetTyped
  <2>3. CASE \E c \in Clients : EndOfStream(c) \/ ReadFails(c)
    <3>1. PICK c \in Clients : /\ channel[c] = "closed" \/ state[c] = "gone"
                               /\ channel' = [channel EXCEPT ![c] = "closed"]
      BY <2>3 DEF EndOfStream, ReadFails, CloseClient
    <3> QED  BY <3>1 DEF TypeInv, NetTyped
  <2> QED  BY <2>1, <2>2, <2>3
<1>4. \A d \in D : InOrder(d)'
  <2> TAKE d \in D
  <2>1. QueueKept(d) /\ WorkersKept(d)
    BY <1>1, PoolKept
  <2>2. ClientKept(d)
    BY <1>1 DEF ClientKept
  <2> QED  BY <1>2, <1>3, <2>1, <2>2, Untouched DEF Orderly
<1> QED  BY <1>2, <1>4 DEF Orderly

(* What the network thread reads of a client that stays is the text so     *)
(* far, from its first byte on.                                            *)
LEMMA ReadsTheText ==
  ASSUME TypeInv, NEW c \in Clients, Served(c), state[c] # "gone", Reads(c)
  PROVE  /\ state[c] \in {"sending", "awaiting"} /\ Quiet(c) /\ text[c] \in Texts
         /\ state[c] = "sending" => sent[c] \in Pieces(text[c]) \ {text[c].total}
         /\ state[c] = "awaiting" => sent[c] = text[c].total
         /\ From(c) = 0 /\ MessageLength(c) = sent[c] /\ read'[c] = sent[c]
<1>1. /\ read[c] \in Int /\ sent[c] \in Nat /\ read[c] <= sent[c]
      /\ buffer[c].position \in Nat /\ buffer[c].limit \in Nat
      /\ text[c] \in Texts \cup {NoText} /\ sent[c] <= text[c].total
      /\ read'[c] = read[c] + Taken(c)
  BY DEF TypeInv, ClientsTyped, BuffersTyped, Bounded, Buffers, Reads
<1>2. Unread(c) > 0
  BY DEF Served, Attended, Reads
<1>3. state[c] \in {"sending", "awaiting"}
  <2>1. state[c] \in {"away", "idle"} => sent[c] = read[c]
    BY DEF Served, Resting
  <2>2. state[c] \notin {"away", "idle"}
    BY <1>1, <1>2, <2>1 DEF Unread
  <2> QED  BY <2>2 DEF TypeInv, ClientsTyped
<1>4. read[c] < sent[c]
  BY <1>1, <1>2 DEF Unread
<1>5. Quiet(c) /\ Reading(c) /\ text[c] \in Texts
  BY <1>3, <1>4, <1>1 DEF Served, Sending, Awaiting
<1>6. read[c] = buffer[c].position /\ read[c] >= 0 /\ text[c].total <= buffer[c].limit
  BY <1>1, <1>5 DEF Reading, Room
<1>7. text[c].total \in Nat
  BY <1>5, TextsAreTexts
<1>8. Taken(c) = sent[c] - read[c]
  BY <1>1, <1>6, <1>7 DEF Taken, Unread, Remaining
<1>9. From(c) = 0
  <2>1. CASE buffer[c].position = 0
    BY <1>6, <2>1 DEF From
  <2>2. CASE buffer[c].position # 0
    <3>1. read[c] > 0
      BY <1>1, <1>6, <2>2
    <3> QED  BY <1>5, <2>2, <3>1 DEF From, Reading
  <2> QED  BY <2>1, <2>2
<1>10. MessageLength(c) = sent[c] /\ read'[c] = sent[c]
  BY <1>1, <1>6, <1>8 DEF MessageLength
<1>11. state[c] = "sending" => sent[c] \in Pieces(text[c]) \ {text[c].total}
  BY <1>1, <1>4, <1>6 DEF Served, Sending
<1>12. state[c] = "awaiting" => sent[c] = text[c].total
  BY DEF Served, Awaiting
<1> QED  BY <1>3, <1>5, <1>9, <1>10, <1>11, <1>12

(* The queue, when a task enters at its end and leaves at its head.        *)
LEMMA TaskAppended ==
  ASSUME queue \in Seq(Tasks), NEW t, queue' = Append(queue, t)
  PROVE  /\ \A d \in Clients \ {t.client} : QueueKept(d)
         /\ QueuedFor(t.client) = {} =>
              QueuedFor(t.client)' = {Len(queue) + 1} /\ queue'[Len(queue) + 1] = t
<1>0. queue \in Seq(Tasks \cup {t})
  OBVIOUS
<1>1. /\ Len(queue') = Len(queue) + 1 /\ Len(queue) \in Nat
      /\ \A i \in 1 .. Len(queue) : queue'[i] = queue[i]
      /\ queue'[Len(queue) + 1] = t
  BY <1>0
<1>2. \A d \in Clients \ {t.client} : QueuedFor(d)' = QueuedFor(d)
  BY <1>1 DEF QueuedFor
<1>3. \A d \in Clients \ {t.client} : QueueKept(d)
  <2> TAKE d \in Clients \ {t.client}
  <2>1. \A i \in QueuedFor(d) : queue'[i] = queue[i]
    BY <1>1 DEF QueuedFor
  <2> QED  BY <1>2, <2>1 DEF QueueKept
<1>4. ASSUME QueuedFor(t.client) = {} PROVE QueuedFor(t.client)' = {Len(queue) + 1}
  <2>1. \A i \in 1 .. Len(queue) : queue'[i].client # t.client
    BY <1>1, <1>4 DEF QueuedFor
  <2>2. \A i \in 1 .. Len(queue') : queue'[i].client = t.client <=> i = Len(queue) + 1
    BY <1>1, <2>1
  <2>3. Len(queue) + 1 \in 1 .. Len(queue')
    BY <1>1
  <2> QED  BY <2>2, <2>3 DEF QueuedFor
<1> QED  BY <1>1, <1>3, <1>4

(* What taking the first task does to the others in the queue.             *)
LEMMA TaskTaken ==
  ASSUME queue \in Seq(Tasks), queue # << >>, queue' = Tail(queue), NEW d
  PROVE  /\ 1 \in 1 .. Len(queue) /\ Head(queue) = queue[1]
         /\ \A i \in QueuedFor(d)' : i + 1 \in QueuedFor(d) /\ queue'[i] = queue[i + 1]
         /\ Head(queue).client # d => QueueKept(d)
<1>1. /\ Len(queue) \in Nat /\ Len(queue) >= 1 /\ Len(queue') = Len(queue) - 1
      /\ \A i \in 1 .. Len(queue') : queue'[i] = queue[i + 1]
      /\ Head(queue) = queue[1]
  BY EmptySeq, HeadTailProperties
<1>2. \A i \in QueuedFor(d)' : i \in Nat /\ i + 1 \in QueuedFor(d) /\ queue'[i] = queue[i + 1]
  BY <1>1 DEF QueuedFor
<1>3. ASSUME Head(queue).client # d PROVE QueueKept(d)
  <2>1. \A j \in QueuedFor(d) : j - 1 \in QueuedFor(d)'
    BY <1>1, <1>3 DEF QueuedFor
  <2>2. QueuedFor(d) = {} <=> QueuedFor(d)' = {}
    BY <1>2, <2>1
  <2>3. (\A i, j \in QueuedFor(d) : i = j) => (\A i, j \in QueuedFor(d)' : i = j)
    <3> SUFFICES ASSUME \A i, j \in QueuedFor(d) : i = j, NEW i \in QueuedFor(d)', NEW j \in QueuedFor(d)'
                 PROVE  i = j
      OBVIOUS
    <3>1. i \in Nat /\ j \in Nat /\ i + 1 = j + 1
      BY <1>2
    <3> QED  BY <3>1
  <2> QED  BY <1>2, <2>2, <2>3 DEF QueueKept
<1>4. 1 \in 1 .. Len(queue) /\ Head(queue) = queue[1]
  BY <1>1
<1>5. \A i \in QueuedFor(d)' : i + 1 \in QueuedFor(d) /\ queue'[i] = queue[i + 1]
  BY <1>2
<1> QED  BY <1>3, <1>4, <1>5

(* A buffer has room for every text, once it was cleared.                  *)
LEMMA ClearedIsEmpty ==
  ASSUME RoomForTexts, NEW c \in Clients, buffer \in [Clients -> Buffers]
  PROVE  Clear(buffer[c]).position = 0 /\ Room(Clear(buffer[c]))
<1>1. Clear(buffer[c]).position = 0 /\ Clear(buffer[c]).limit = MAX_REQUEST_SIZE
  BY DEF Buffers, Clear
<1> QED  BY <1>1, Sizes DEF Room, RoomForTexts, TextsFit

(* A read, with what the parser makes of it, keeps every client in order.  *)
LEMMA MessageKeepsOrder ==
  ASSUME RoomForTexts, TypeInv, NEW D \in SUBSET Clients, Orderly(D), NEW c \in Clients, HandleMessage(c),
         c \in D => PartsAreWaitedFor \/ ReadWhereWaited(c)'
  PROVE  Orderly(D)'
<1>1. /\ UNCHANGED <<state, text, texts, sent, task, stage>>
      /\ Reads(c)
  BY DEF HandleMessage, Enqueue, sendClientError, ContinueReading, ParserThrows,
         clientVars, bufferVars, poolVars
<1>2. /\ selected' = selected /\ net' \notin {"check", "read"} /\ key = c
  BY DEF HandleMessage, Enqueue, sendClientError, ContinueReading, ParserThrows,
         Proceed, CloseClient, StopNet, Reads
<1>3. KeyTaken'
  BY <1>2 DEF KeyTaken
<1>4. \A d \in Clients : Attended(d)' => Attended(d)
  BY <1>2 DEF Attended
<1>5. \A d \in D \ {c} : InOrder(d)'
  <2> TAKE d \in D \ {c}
  <2>1. answers'[d] = answers[d] /\ buffer'[d] = buffer[d] /\ channel'[d] = channel[d]
    BY DEF HandleMessage, Enqueue, sendClientError, ContinueReading, ParserThrows, CloseClient,
           Answered, clientVars, bufferVars, TypeInv, ClientsTyped, BuffersTyped, NetTyped
  <2>2. read'[d] = read[d]
    BY <1>1 DEF Reads, TypeInv, BuffersTyped
  <2>3. ClientKept(d)
    BY <1>1, <2>1, <2>2 DEF ClientKept
  <2>4. WorkersKept(d)
    BY <1>1 DEF WorkersKept, WorkersFor
  <2>5. QueueKept(d)
    <3>1. CASE Enqueue(c)
      <4>1. PICK t : t.client = c /\ queue' = Append(queue, t)
        BY <3>1 DEF Enqueue
      <4>2. queue \in Seq(Tasks)
        BY DEF TypeInv, PoolTyped
      <4> QED  BY <4>1, <4>2, TaskAppended
    <3>2. CASE queue' = queue
      BY <3>2 DEF QueueKept, QueuedFor
    <3> QED  BY <3>1, <3>2 DEF HandleMessage, sendClientError, ContinueReading, ParserThrows, poolVars
  <2> QED  BY <1>4, <2>1, <2>3, <2>4, <2>5, Untouched DEF Orderly
<1> SUFFICES ASSUME c \in D PROVE Orderly(D)'
  BY <1>3, <1>5 DEF Orderly
<1>6. CASE state[c] = "gone"
  <2> SUFFICES ASSUME ~LeavesEarly PROVE FALSE
    BY <1>1, <1>3, <1>5, <1>6 DEF Orderly, InOrder
  <2>1. Left(c) /\ (Unread(c) > 0 \/ Remaining(buffer[c]) = 0)
    BY <1>1, <1>6 DEF Orderly, InOrder, Reads
  <2>2. read[c] \in Int /\ buffer[c].limit \in Nat /\ buffer[c].limit > 0
    BY DEF TypeInv, BuffersTyped, Buffers, Bounded
  <2> QED  BY <2>1, <2>2 DEF Left, Empty, Unread, Remaining
<1>7. CASE state[c] # "gone"
  <2>1. Served(c) /\ c \notin selected
    BY <1>1, <1>2, <1>7 DEF Orderly, InOrder, KeyTaken, Reads
  <2>2. /\ state[c] \in {"sending", "awaiting"} /\ Quiet(c) /\ text[c] \in Texts
        /\ state[c] = "sending" => sent[c] \in Pieces(text[c]) \ {text[c].total}
        /\ state[c] = "awaiting" => sent[c] = text[c].total
        /\ From(c) = 0 /\ MessageLength(c) = sent[c] /\ read'[c] = sent[c]
    BY <1>1, <1>7, <2>1, ReadsTheText
  <2>3. ~Attended(c)'
    BY <1>2, <2>1 DEF Attended
  <2>4. channel'[c] # "closed"
    BY <1>7, <2>1 DEF HandleMessage, Enqueue, sendClientError, ContinueReading, ParserThrows,
                      Served, TypeInv, NetTyped
  <2>5. WorkersFor(c)' = WorkersFor(c)
    BY <1>1 DEF WorkersFor
  <2>6. Outcomes(c) = tryParseClientRequest(text[c], 0, sent[c])
    BY <2>2 DEF Outcomes
  <2>7. ASSUME state[c] = "sending" PROVE Sending(c)'
    <3>1. Outcomes(c) = {"incomplete"} /\ sent[c] >= 4
      <4>1. CASE PartsAreWaitedFor
        BY <2>2, <2>6, <2>7, <4>1 DEF PartsAreWaitedFor
      <4>2. CASE ReadWhereWaited(c)'
        <5>1. sent[c] \in 1 .. text[c].total - 1
          BY <2>2, <2>7 DEF Pieces
        <5>2. sent[c] \in WaitedFor(text[c])
          BY <1>1, <2>2, <4>2, <5>1 DEF ReadWhereWaited
        <5> QED  BY <2>2, <2>6, <5>1, <5>2, WaitedForIsWaitedFor
      <4> QED  BY <4>1, <4>2
    <3>2. ContinueReading(c)
      BY <3>1 DEF HandleMessage, Enqueue, sendClientError, ParserThrows
    <3>3. /\ UNCHANGED <<answers, queue>>
          /\ buffer'[c] = [from |-> 0, position |-> sent[c], limit |-> MAX_REQUEST_SIZE]
      <4>1. buffer'[c] = AfterIncomplete(c) /\ UNCHANGED <<answers, queue>>
        BY <3>2 DEF ContinueReading, clientVars, poolVars, TypeInv, BuffersTyped
      <4>2. sent[c] \in Nat
        BY DEF TypeInv, ClientsTyped
      <4>3. PositionAfterIncomplete(sent[c]) = sent[c]
        BY <3>1, <4>2 DEF PositionAfterIncomplete
      <4> QED  BY <2>2, <4>1, <4>3 DEF AfterIncomplete
    <3>4. Quiet(c)'
      BY <2>2, <2>5, <3>3 DEF Quiet, Pooled, QueuedFor
    <3>5. Reading(c)'
      BY <2>2, <3>3, Sizes DEF Reading, Room, RoomForTexts, TextsFit
    <3> QED  BY <1>1, <2>2, <2>7, <3>4, <3>5 DEF Sending
  <2>8. ASSUME state[c] = "awaiting" PROVE Awaiting(c)'
    <3>1. /\ Outcomes(c) = tryParseClientRequest(text[c], 0, text[c].total)
          /\ sent[c] = text[c].total
      BY <2>2, <2>6, <2>8
    <3>2. read'[c] = sent'[c] /\ sent'[c] = text'[c].total /\ text'[c] \in Texts
      BY <1>1, <2>2, <3>1
    <3>3. CASE Enqueue(c)
      <4> DEFINE t == [client |-> c, number |-> texts[c], set |-> text[c].command = "set",
                       sends |-> SendsOf(text[c])]
      <4>1. /\ WellFormed(text[c]) /\ answers' = answers /\ queue' = Append(queue, t)
            /\ buffer'[c] = [from |-> 0, position |-> 0, limit |-> text[c].total]
        BY <2>2, <3>1, <3>3, WholeTexts DEF Enqueue, Flipped, clientVars, TypeInv, BuffersTyped
      <4>2. QueuedFor(c) = {} /\ WorkersFor(c)' = {}
        BY <2>2, <2>5 DEF Quiet, Pooled
      <4>3. t.client = c /\ t.number = texts[c] /\ t.set = (text[c].command = "set")
        OBVIOUS
      <4> HIDE DEF t
      <4>4. PICK i : QueuedFor(c)' = {i} /\ queue'[i] = t
        BY <4>1, <4>2, <4>3, TaskAppended DEF TypeInv, PoolTyped
      <4>5. HoldsText(c, 0)'
        BY <1>1, <4>1 DEF HoldsText
      <4>6. IsTaskOf(c, queue[i])'
        BY <1>1, <4>3, <4>4 DEF IsTaskOf
      <4>7. Serving(c)'
        BY <1>1, <4>1, <4>2, <4>4, <4>5, <4>6 DEF Serving, OneTask
      <4>8. Pooled(c)' /\ answers'[c] = << >>
        BY <2>2, <4>1, <4>4 DEF Pooled, Quiet
      <4> QED  BY <3>2, <4>7, <4>8 DEF Awaiting
    <3>4. CASE sendClientError(c)
      <4>1. /\ ~WellFormed(text[c]) /\ queue' = queue
            /\ buffer'[c] = Clear(buffer[c])
            /\ answers'[c] = Append(answers[c], [number |-> texts[c], error |-> TRUE])
        BY <1>7, <2>2, <3>1, <3>4, WholeTexts
           DEF sendClientError, AfterFaulty, Answered, poolVars, TypeInv, BuffersTyped, ClientsTyped
      <4>2. ~Pooled(c)'
        BY <2>2, <2>5, <4>1 DEF Quiet, Pooled, QueuedFor
      <4>3. Empty(c)'
        BY <4>1, ClearedIsEmpty DEF Empty, TypeInv, BuffersTyped
      <4>4. Len(answers'[c]) = 1 /\ answers'[c][1] = [number |-> texts[c], error |-> TRUE]
        BY <2>2, <4>1 DEF Quiet
      <4> QED  BY <1>1, <3>2, <4>1, <4>2, <4>3, <4>4 DEF Awaiting
    <3>5. CASE ContinueReading(c) \/ ParserThrows(c)
      <4>1. UNCHANGED <<answers, queue>>
        BY <3>5 DEF ContinueReading, ParserThrows, clientVars, poolVars
      <4>2. Quiet(c)'
        BY <2>2, <2>5, <4>1 DEF Quiet, Pooled, QueuedFor
      <4>3. ~(read'[c] < sent'[c])
        BY <1>1, <3>2 DEF TypeInv, ClientsTyped
      <4> QED  BY <3>2, <4>2, <4>3 DEF Awaiting
    <3> QED  BY <3>3, <3>4, <3>5 DEF HandleMessage
  <2>9. Served(c)'
    BY <1>1, <2>2, <2>3, <2>4, <2>7, <2>8 DEF Served
  <2> QED  BY <1>1, <1>3, <1>5, <1>7, <2>9 DEF Orderly, InOrder
<1> QED  BY <1>6, <1>7

(* A client with a task that has not left is served, and nobody else has   *)
(* a hand on its request.                                                  *)
LEMMA UnderWay ==
  ASSUME TypeInv, NEW D \in SUBSET Clients, Orderly(D), NEW c \in D, Pooled(c), state[c] # "gone" \/ ~LeavesEarly
  PROVE  /\ state[c] = "awaiting" /\ Serving(c) /\ answers[c] = << >>
         /\ text[c] \in Texts /\ sent[c] = text[c].total /\ read[c] = sent[c]
         /\ channel[c] # "closed" /\ ~Attended(c)
<1>1. Served(c) /\ state[c] # "gone"
  BY DEF Orderly, InOrder, Left
<1>2. state[c] = "awaiting"
  BY <1>1 DEF Served, Resting, Sending, Quiet, TypeInv, ClientsTyped
<1>3. /\ Serving(c) /\ answers[c] = << >> /\ read[c] = sent[c]
      /\ sent[c] = text[c].total /\ text[c] \in Texts
  BY <1>1, <1>2 DEF Served, Awaiting, Quiet
<1>4. ~(Unread(c) > 0)
  BY <1>3 DEF Unread, TypeInv, ClientsTyped
<1> QED  BY <1>1, <1>2, <1>3, <1>4 DEF Served

(* A thread that takes a task keeps every client in order.                 *)
LEMMA TakeKeepsOrder ==
  ASSUME TypeInv, NEW D \in SUBSET Clients, Orderly(D), NEW w \in Workers, Take(w)
  PROVE  Orderly(D)'
<1>1. /\ UNCHANGED <<state, text, texts, sent, answers, channel, read, buffer, net, key, selected>>
      /\ stage[w] = "idle" /\ queue # << >> /\ queue' = Tail(queue)
      /\ task' = [task EXCEPT ![w] = Head(queue)]
      /\ stage' = [stage EXCEPT ![w] = "taken"]
  BY DEF Take, clientVars, bufferVars, netVars
<1>2. queue \in Seq(Tasks) /\ task \in [Workers -> Tasks \cup {NoTask}]
      /\ stage \in [Workers -> {"idle", "taken", "drained", "rewound", "served"}]
      /\ task[w] = NoTask
  BY <1>1 DEF TypeInv, PoolTyped
<1>0. Head(queue) \in Tasks
  BY <1>1, <1>2, HeadTailProperties
<1>3. PICK c \in Clients : c = Head(queue).client
  BY <1>0 DEF Tasks
<1>4. 1 \in QueuedFor(c) /\ Head(queue) = queue[1]
  BY <1>1, <1>2, <1>3, TaskTaken DEF QueuedFor
<1>5. task'[w] = queue[1] /\ stage'[w] = "taken"
      /\ \A v \in Workers \ {w} : task'[v] = task[v] /\ stage'[v] = stage[v]
  BY <1>1, <1>2, <1>4
<1>6. \A d \in Clients : w \notin WorkersFor(d)
  BY <1>2, NoTaskIsNone DEF WorkersFor
<1>7. KeyTaken' /\ \A d \in Clients : Attended(d)' <=> Attended(d)
  BY <1>1 DEF KeyTaken, Attended, Orderly
<1>8. \A d \in D \ {c} : InOrder(d)'
  <2> TAKE d \in D \ {c}
  <2>1. QueueKept(d)
    BY <1>1, <1>2, <1>3, TaskTaken
  <2>2. queue[1].client # d
    BY <1>4 DEF QueuedFor
  <2>3. WorkersKept(d)
    BY <1>5, <1>6, <2>2 DEF WorkersKept, WorkersFor
  <2>4. ClientKept(d)
    BY <1>1 DEF ClientKept
  <2> QED  BY <1>1, <1>7, <2>1, <2>3, <2>4, Untouched DEF Orderly
<1>9. c \in D => InOrder(c)'
  <2> SUFFICES ASSUME c \in D, state[c] # "gone" \/ ~LeavesEarly PROVE InOrder(c)'
    BY <1>1, <1>3 DEF InOrder
  <2>1. Pooled(c)
    BY <1>4 DEF Pooled
  <2>2. /\ state[c] = "awaiting" /\ Serving(c) /\ answers[c] = << >>
        /\ text[c] \in Texts /\ sent[c] = text[c].total /\ read[c] = sent[c]
        /\ channel[c] # "closed" /\ ~Attended(c)
    BY <1>3, <2>1, UnderWay
  <2>3. WorkersFor(c) = {} /\ \A i \in QueuedFor(c) : i = 1
    BY <1>4, <2>2 DEF Serving, OneTask
  <2>4. QueuedFor(c)' = {}
    <3>1. \A i \in QueuedFor(c)' : i + 1 \in QueuedFor(c)
      BY <1>1, <1>2, TaskTaken
    <3>2. \A i \in QueuedFor(c)' : i \in Nat /\ i # 0
      BY <1>1, <1>2, HeadTailProperties DEF QueuedFor
    <3> QED  BY <2>3, <3>1, <3>2
  <2>5. WorkersFor(c)' = {w}
    BY <1>3, <1>4, <1>5, <2>3 DEF WorkersFor, QueuedFor
  <2>6. IsTaskOf(c, task[w])' /\ HoldsText(c, 0)'
    <3>1. IsTaskOf(c, queue[1]) /\ HoldsText(c, 0)
      BY <1>4, <2>2 DEF Serving
    <3> QED  BY <1>1, <1>5, <3>1 DEF IsTaskOf, HoldsText
  <2>7. Serving(c)'
    BY <1>1, <1>5, <2>2, <2>4, <2>5, <2>6 DEF Serving, OneTask
  <2>8. Pooled(c)'
    BY <2>5 DEF Pooled
  <2>9. Awaiting(c)'
    BY <1>1, <2>2, <2>7, <2>8 DEF Awaiting
  <2> QED  BY <1>1, <1>3, <1>7, <2>2, <2>9 DEF InOrder, Served
<1> QED  BY <1>7, <1>8, <1>9 DEF Orderly

(* What a worker makes of the buffer, if it is what the worker of a request *)
(* at that stage must find.                                                *)
GoodFor(c, stageThen, contents) ==
  IF stageThen = "served" THEN contents.position = 0 /\ Room(contents)
  ELSE /\ contents.from = 0 /\ contents.limit = text[c].total
       /\ contents.position = IF stageThen = "drained" THEN contents.limit ELSE 0

(* A thread that uses the buffer of its client keeps every client in       *)
(* order, as long as it leaves there what its next step expects.           *)
LEMMA UseKeepsOrder ==
  ASSUME TypeInv, NEW D \in SUBSET Clients, Orderly(D), NEW w \in Workers, NEW from, NEW to \in {"drained", "rewound", "served"},
         NEW contents, UseBuffer(w, from, to, contents), "idle" \notin from,
         NEW c \in Clients, c = task[w].client,
         NEW t, t.client = c, t.number = task[w].number, t.set = task[w].set,
         task' = [task EXCEPT ![w] = t],
         Serving(c) /\ text[c] \in Texts => GoodFor(c, to, contents)
  PROVE  Orderly(D)'
<1>1. /\ stage' = [stage EXCEPT ![w] = to]
      /\ buffer' = [buffer EXCEPT ![c] = contents]
      /\ UNCHANGED <<state, text, texts, sent, answers, channel, read, net, key, selected, queue>>
  BY DEF UseBuffer, clientVars, netVars
<1>2. /\ task \in [Workers -> Tasks \cup {NoTask}] /\ buffer \in [Clients -> Buffers]
      /\ stage \in [Workers -> {"idle", "taken", "drained", "rewound", "served"}]
  BY DEF TypeInv, PoolTyped, BuffersTyped
<1>3. /\ task'[w] = t /\ stage'[w] = to /\ buffer'[c] = contents
      /\ \A v \in Workers \ {w} : task'[v] = task[v] /\ stage'[v] = stage[v]
      /\ \A d \in Clients \ {c} : buffer'[d] = buffer[d]
  BY <1>1, <1>2
<1>4. \A d \in Clients : WorkersFor(d)' = WorkersFor(d) /\ QueuedFor(d)' = QueuedFor(d)
  BY <1>1, <1>3 DEF WorkersFor, QueuedFor
<1>5. KeyTaken' /\ \A d \in Clients : Attended(d)' <=> Attended(d)
  BY <1>1 DEF KeyTaken, Attended, Orderly
<1>6. \A d \in D \ {c} : InOrder(d)'
  <2> TAKE d \in D \ {c}
  <2>1. QueueKept(d)
    BY <1>1, <1>4 DEF QueueKept
  <2>2. WorkersKept(d)
    BY <1>3, <1>4 DEF WorkersKept, WorkersFor
  <2>3. ClientKept(d)
    BY <1>1, <1>3 DEF ClientKept
  <2> QED  BY <1>1, <1>5, <2>1, <2>2, <2>3, Untouched DEF Orderly
<1>7. c \in D => InOrder(c)'
  <2> SUFFICES ASSUME c \in D, state[c] # "gone" \/ ~LeavesEarly PROVE InOrder(c)'
    BY <1>1 DEF InOrder
  <2>0. w \in WorkersFor(c)
    BY DEF WorkersFor
  <2>1. Pooled(c)
    BY <2>0 DEF Pooled
  <2>2. /\ state[c] = "awaiting" /\ Serving(c) /\ answers[c] = << >>
        /\ text[c] \in Texts /\ sent[c] = text[c].total /\ read[c] = sent[c]
        /\ channel[c] # "closed" /\ ~Attended(c)
    BY <2>1, UnderWay
  <2>3. WorkersFor(c)' = {w} /\ QueuedFor(c)' = {}
    BY <1>4, <2>0, <2>2 DEF Serving, OneTask
  <2>4. IsTaskOf(c, task[w])'
    <3>1. IsTaskOf(c, task[w])
      BY <2>0, <2>2 DEF Serving
    <3> QED  BY <1>1, <1>3, <3>1 DEF IsTaskOf
  <2>5. IF stage'[w] = "served" THEN Empty(c)'
        ELSE HoldsText(c, IF stage[w] = "drained" THEN buffer[c].limit ELSE 0)'
    BY <1>1, <1>3, <2>2 DEF GoodFor, Empty, HoldsText
  <2>6. Serving(c)'
    BY <1>1, <2>2, <2>3, <2>4, <2>5 DEF Serving, OneTask
  <2>7. Pooled(c)'
    BY <2>3 DEF Pooled
  <2>8. Awaiting(c)'
    BY <1>1, <2>2, <2>6, <2>7 DEF Awaiting
  <2> QED  BY <1>1, <1>5, <2>2, <2>8 DEF InOrder, Served
<1> QED  BY <1>5, <1>6, <1>7 DEF Orderly

(* A thread that is done with a task keeps every client in order.          *)
LEMMA DoneKeepsOrder ==
  ASSUME TypeInv, NEW D \in SUBSET Clients, Orderly(D), NEW w \in Workers, Reply(w) \/ ReplyFails(w)
  PROVE  Orderly(D)'
<1> PICK c : c = task[w].client
  OBVIOUS
<1>1. /\ stage[w] = "served" /\ stage' = [stage EXCEPT ![w] = "idle"]
      /\ task' = [task EXCEPT ![w] = NoTask]
      /\ UNCHANGED <<state, text, texts, sent, read, buffer, net, key, selected, queue>>
  BY DEF Reply, ReplyFails, Done, bufferVars, netVars
<1>2. /\ task \in [Workers -> Tasks \cup {NoTask}]
      /\ stage \in [Workers -> {"idle", "taken", "drained", "rewound", "served"}]
      /\ answers \in [Clients -> Seq(AnswersToClient)]
      /\ channel \in [Clients -> {"none", "pending", "open", "closed"}]
  BY DEF TypeInv, PoolTyped, ClientsTyped, NetTyped
<1>3. c \in Clients
  BY <1>1, TasksAreOfClients DEF TypeInv
<1>4. /\ task'[w] = NoTask /\ stage'[w] = "idle"
      /\ \A v \in Workers \ {w} : task'[v] = task[v] /\ stage'[v] = stage[v]
  BY <1>1, <1>2
<1>5. /\ \A d \in Clients : QueuedFor(d)' = QueuedFor(d)
      /\ \A d \in Clients \ {c} : WorkersFor(d)' = WorkersFor(d)
      /\ w \in WorkersFor(c) /\ WorkersFor(c)' = WorkersFor(c) \ {w}
  BY <1>1, <1>3, <1>4, NoTaskIsNone DEF WorkersFor, QueuedFor
<1>6. KeyTaken' /\ \A d \in Clients : Attended(d)' <=> Attended(d)
  BY <1>1 DEF KeyTaken, Attended, Orderly
<1>7. \A d \in D \ {c} : InOrder(d)'
  <2> TAKE d \in D \ {c}
  <2>1. QueueKept(d)
    BY <1>1, <1>5 DEF QueueKept
  <2>2. WorkersKept(d)
    BY <1>4, <1>5 DEF WorkersKept, WorkersFor
  <2>3. answers'[d] = answers[d] /\ channel'[d] = channel[d]
    BY <1>2 DEF Reply, ReplyFails, Answered
  <2>4. ClientKept(d)
    BY <1>1, <2>3 DEF ClientKept
  <2> QED  BY <1>6, <2>1, <2>2, <2>3, <2>4, Untouched DEF Orderly
<1>8. c \in D => InOrder(c)'
  <2> SUFFICES ASSUME c \in D, state[c] # "gone" \/ ~LeavesEarly PROVE InOrder(c)'
    BY <1>1, <1>3 DEF InOrder
  <2>1. Pooled(c)
    BY <1>5 DEF Pooled
  <2>2. /\ state[c] = "awaiting" /\ Serving(c) /\ answers[c] = << >>
        /\ text[c] \in Texts /\ sent[c] = text[c].total /\ read[c] = sent[c]
        /\ channel[c] # "closed" /\ ~Attended(c)
    BY <1>3, <2>1, UnderWay
  <2>3. ~Pooled(c)'
    BY <1>3, <1>5, <2>2 DEF Serving, OneTask, Pooled
  <2>4. Empty(c)' /\ task[w].number = texts[c]
    BY <1>1, <1>5, <2>2 DEF Serving, IsTaskOf, Empty
  <2>5. /\ channel'[c] = channel[c]
        /\ answers'[c] = Append(answers[c], [number |-> texts[c], error |-> FALSE])
    BY <1>2, <1>3, <2>2, <2>4 DEF Reply, ReplyFails, Answered
  <2>6. Len(answers'[c]) = 1 /\ answers'[c][1] = [number |-> texts[c], error |-> FALSE]
    BY <2>2, <2>5
  <2>7. Awaiting(c)'
    BY <1>1, <2>2, <2>3, <2>4, <2>6 DEF Awaiting
  <2> QED  BY <1>1, <1>3, <1>6, <2>2, <2>5, <2>7 DEF InOrder, Served
<1> QED  BY <1>6, <1>7, <1>8 DEF Orderly

(* Every step of a thread keeps every client in order.                     *)
LEMMA WorkerStepKeepsOrder ==
  ASSUME RoomForTexts, TypeInv, NEW D \in SUBSET Clients, Orderly(D), NEW w \in Workers, WorkerStep(w)
  PROVE  Orderly(D)'
<1> PICK c : c = task[w].client
  OBVIOUS
<1>1. stage[w] # "idle"
  BY DEF WorkerStep, Drain, Rewind, ClearBuffer, SetFails, Reply, ReplyFails, UseBuffer, Done
<1>2. task[w] \in Tasks /\ c \in Clients
  BY <1>1, TasksAreOfClients DEF TypeInv
<1>3. buffer[c] \in Buffers /\ buffer[c].limit > 0 /\ buffer[c].limit \in Nat
  <2>1. buffer[c] \in Buffers
    BY <1>2 DEF TypeInv, BuffersTyped
  <2> QED  BY <1>2, <2>1 DEF Buffers, TypeInv, Bounded
<1>4. UNCHANGED task => task' = [task EXCEPT ![w] = task[w]]
  BY DEF TypeInv, PoolTyped
<1>5. ASSUME Serving(c), stage[w] # "served"
      PROVE  IsTaskOf(c, task[w])
             /\ HoldsText(c, IF stage[w] = "drained" THEN buffer[c].limit ELSE 0)
  <2>1. w \in WorkersFor(c)
    BY DEF WorkersFor
  <2> QED  BY <1>5, <2>1 DEF Serving
<1>6. CASE Drain(w)
  <2> DEFINE contents == [buffer[c] EXCEPT !.position = buffer[c].limit]
             t == [task[w] EXCEPT !.sends = @ - 1]
  <2>1. UseBuffer(w, {"taken", "rewound"}, "drained", contents)
        /\ task' = [task EXCEPT ![w] = t]
    BY <1>6 DEF Drain
  <2>2. t.client = c /\ t.number = task[w].number /\ t.set = task[w].set
    BY <1>2 DEF Tasks
  <2>3. contents.from = buffer[c].from /\ contents.limit = buffer[c].limit
        /\ contents.position = buffer[c].limit
    BY <1>3 DEF Buffers
  <2>4. stage[w] # "served"
    BY <2>1 DEF UseBuffer
  <2> HIDE DEF contents, t
  <2>5. Serving(c) => GoodFor(c, "drained", contents)
    BY <1>5, <2>3, <2>4 DEF GoodFor, HoldsText
  <2> QED  BY <1>2, <2>1, <2>2, <2>5, UseKeepsOrder
<1>7. CASE Rewind(w)
  <2> DEFINE contents == [buffer[c] EXCEPT !.position = 0]
  <2>1. UseBuffer(w, {"drained"}, "rewound", contents) /\ UNCHANGED task
    BY <1>7 DEF Rewind
  <2>2. contents.from = buffer[c].from /\ contents.limit = buffer[c].limit /\ contents.position = 0
    BY <1>3 DEF Buffers
  <2>3. stage[w] # "served"
    BY <2>1 DEF UseBuffer
  <2> HIDE DEF contents
  <2>4. Serving(c) => GoodFor(c, "rewound", contents)
    BY <1>5, <2>2, <2>3 DEF GoodFor, HoldsText
  <2> QED  BY <1>2, <1>4, <2>1, <2>4, UseKeepsOrder
<1>8. CASE ClearBuffer(w)
  <2> DEFINE contents == Clear(buffer[c])
             from == IF task[w].set THEN {"rewound"} ELSE {"taken", "drained"}
  <2>1. UseBuffer(w, from, "served", contents) /\ UNCHANGED task /\ "idle" \notin from
    BY <1>8 DEF ClearBuffer
  <2>2. GoodFor(c, "served", contents)
    BY <1>2, ClearedIsEmpty DEF GoodFor, TypeInv, BuffersTyped
  <2> HIDE DEF contents, from
  <2> QED  BY <1>2, <1>4, <2>1, <2>2, UseKeepsOrder
<1>9. CASE SetFails(w)
  <2>1. UseBuffer(w, {"taken", "rewound"}, "served", buffer[c]) /\ UNCHANGED task
        /\ SetsMayFail /\ task[w].set
    BY <1>9 DEF SetFails
  <2>2. stage[w] # "served" /\ stage[w] # "drained"
    BY <2>1 DEF UseBuffer
  <2>3. Serving(c) /\ text[c] \in Texts => GoodFor(c, "served", buffer[c])
    <3> SUFFICES ASSUME Serving(c), text[c] \in Texts PROVE GoodFor(c, "served", buffer[c])
      OBVIOUS
    <3>1. text[c].command = "set" /\ buffer[c].limit = text[c].total /\ buffer[c].position = 0
      BY <1>5, <2>1, <2>2 DEF IsTaskOf, HoldsText
    <3>2. \A u \in Texts : u.total <= text[c].total
      BY <2>1, <3>1 DEF RoomForTexts, FailedSetsLeaveRoom
    <3> QED  BY <1>3, <3>1, <3>2 DEF GoodFor, Room
  <2> QED  BY <1>2, <1>4, <2>1, <2>3, UseKeepsOrder
<1> QED  BY <1>6, <1>7, <1>8, <1>9, DoneKeepsOrder DEF WorkerStep

(* Every step keeps every client in order.                                 *)
LEMMA NextKeepsOrder ==
  ASSUME RoomForTexts, TypeInv, NEW D \in SUBSET Clients, Orderly(D), [Next]_vars,
         \A c \in D : PartsAreWaitedFor \/ ReadWhereWaited(c)'
  PROVE  Orderly(D)'
<1>1. CASE \E c \in Clients : ClientStep(c)
  BY <1>1, ClientStepKeepsOrder
<1>2. CASE NetStep
  BY <1>2, KeyStepKeepsOrder, MessageKeepsOrder DEF NetStep
<1>3. CASE \E w \in Workers : Take(w) \/ WorkerStep(w)
  BY <1>3, TakeKeepsOrder, WorkerStepKeepsOrder
<1>4. CASE UNCHANGED vars
  <2>1. UNCHANGED <<state, text, texts, sent, answers, channel, read, buffer,
                    net, key, selected, queue, task, stage>>
    BY <1>4 DEF vars, clientVars, bufferVars, poolVars
  <2>2. KeyTaken'
    BY <2>1 DEF Orderly, KeyTaken
  <2>3. \A d \in D : InOrder(d)'
    <3> TAKE d \in D
    <3>1. QueueKept(d) /\ WorkersKept(d) /\ ClientKept(d) /\ (Attended(d)' <=> Attended(d))
      BY <2>1, PoolKept DEF ClientKept, Attended
    <3> QED  BY <2>1, <3>1, Untouched DEF Orderly
  <2> QED  BY <2>2, <2>3 DEF Orderly
<1> QED  BY <1>1, <1>2, <1>3, <1>4 DEF Next

(* Every client is in order in every behaviour.                            *)
LEMMA OrderInvariant == Manageable => (Spec => [](TypeInv /\ IInv))
<1> SUFFICES ASSUME Manageable PROVE Spec => [](TypeInv /\ IInv)
  OBVIOUS
<1>1. Init => TypeInv /\ IInv
  BY InitTypeInv, InitInOrder DEF Manageable
<1>2. TypeInv /\ IInv /\ [Next]_vars => TypeInv' /\ IInv'
  BY NextKeepsTypeInv, NextKeepsOrder DEF Manageable, IInv
<1> QED  BY <1>1, <1>2, PTL DEF Spec

(* Wherever texts are split, a client whose own texts are read only up to  *)
(* places where the parser waits is in order.                              *)
LEMMA OrderWhereWaited ==
  ASSUME RoomForTexts, NEW c \in Clients
  PROVE  Spec /\ []ReadWhereWaited(c) => [](TypeInv /\ Orderly({c}))
<1>1. Init => TypeInv /\ Orderly({c})
  BY InitTypeInv, InitInOrder DEF IInv, Orderly
<1>2. TypeInv /\ Orderly({c}) /\ [Next]_vars /\ ReadWhereWaited(c)' => TypeInv' /\ Orderly({c})'
  BY NextKeepsTypeInv, NextKeepsOrder
<1> QED  BY <1>1, <1>2, PTL DEF Spec

-----------------------------------------------------------------------------
(* What clients and workers rely on.                                       *)

(* A request that a worker has still to send is whole in the buffer of its *)
(* client.                                                                 *)
LEMMA HeldForWorkers ==
  ASSUME TypeInv, IInv, NEW w \in Workers, NEW c \in Clients, c = task[w].client,
         stage[w] \in {"taken", "drained", "rewound"}, state[c] # "gone" \/ ~LeavesEarly
  PROVE  HoldsText(c, IF stage[w] = "drained" THEN buffer[c].limit ELSE 0)
<1>1. w \in WorkersFor(c)
  BY DEF WorkersFor
<1>2. Serving(c)
  BY <1>1, UnderWay DEF IInv, Pooled
<1> QED  BY <1>1, <1>2 DEF Serving

(* A worker finds the request of a client that stays whole in the buffer,  *)
(* until it clears it itself, whatever the network thread does meanwhile.  *)
THEOREM BuffersOfStayersUndisturbed == Manageable => (Spec => []StayersUndisturbed)
<1>1. TypeInv /\ IInv => StayersUndisturbed
  BY HeldForWorkers DEF StayersUndisturbed, UndisturbedFor, HoldsText
<1> QED  BY <1>1, OrderInvariant, PTL

(* As long as no client leaves before its answer, that is every request's  *)
(* buffer.                                                                 *)
THEOREM BuffersUndisturbed == Manageable /\ ~LeavesEarly => (Spec => []UndisturbedBuffer)
<1> SUFFICES ASSUME Manageable, ~LeavesEarly PROVE Spec => []UndisturbedBuffer
  OBVIOUS
<1>1. TypeInv /\ IInv => UndisturbedBuffer
  BY HeldForWorkers DEF UndisturbedBuffer, UndisturbedFor, HoldsText
<1> QED  BY <1>1, OrderInvariant, PTL

(* An answer waits only for a client that awaits it, and it is the only    *)
(* one, to the text the client has sent last; CLIENT_ERROR only if that    *)
(* text is not well-formed.                                                *)
LEMMA OneAnswer ==
  ASSUME TypeInv, NEW D \in SUBSET Clients, Orderly(D), NEW c \in D, state[c] # "gone", answers[c] # << >>
  PROVE  /\ state[c] = "awaiting"
         /\ Len(answers[c]) = 1 /\ answers[c][1].number = texts[c]
         /\ answers[c][1].error => ~WellFormed(text[c])
<1>1. Served(c)
  BY DEF Orderly, InOrder
<1>2. state[c] = "awaiting"
  BY <1>1 DEF Served, Resting, Sending, Quiet, TypeInv, ClientsTyped
<1> QED  BY <1>1, <1>2 DEF Served, Awaiting, Quiet

(* A client never finds the answer to an earlier text, nor two answers.    *)
THEOREM EachTextAnsweredOnce == Manageable => (Spec => []OneAnswerEach)
<1>1. TypeInv /\ IInv => OneAnswerEach
  BY OneAnswer DEF IInv, OneAnswerEach, TypeInv, ClientsTyped
<1> QED  BY <1>1, OrderInvariant, PTL

(* However texts are split, and whatever the other clients do, a client    *)
(* whose reads stop only where the parser waits hears CLIENT_ERROR only to *)
(* a text that is not well-formed.                                         *)
THEOREM WellFormedAccepted == RoomForTexts => (Spec => WellFormedIsAccepted)
<1> SUFFICES ASSUME RoomForTexts PROVE Spec => WellFormedIsAccepted
  OBVIOUS
<1>1. ASSUME NEW c \in Clients
      PROVE  Spec => ([]ReadWhereWaited(c) => []Accepted(c))
  <2>1. TypeInv /\ Orderly({c}) => Accepted(c)
    <3> SUFFICES ASSUME TypeInv, Orderly({c}), state[c] # "gone",
                        NEW i \in 1 .. Len(answers[c]), answers[c][i].error
                 PROVE  ~WellFormed(text[c])
      BY DEF Accepted
    <3>1. answers[c] # << >>
      OBVIOUS
    <3>2. Len(answers[c]) = 1 /\ (answers[c][1].error => ~WellFormed(text[c]))
      BY <3>1, OneAnswer
    <3> QED  BY <3>2
  <2>2. Spec /\ []ReadWhereWaited(c) => [](TypeInv /\ Orderly({c}))
    BY OrderWhereWaited
  <2> QED  BY <2>1, <2>2, PTL
<1> QED  BY <1>1 DEF WellFormedIsAccepted

(* What a worker has to do for a client that stays is well-formed.         *)
THEOREM WellFormedServed == Manageable => (Spec => []OnlyWellFormedServed)
<1>1. TypeInv /\ IInv => OnlyWellFormedServed
  <2> SUFFICES ASSUME TypeInv, IInv, NEW w \in Workers, NEW c, c = task[w].client,
                      stage[w] # "idle", state[c] # "gone"
               PROVE  WellFormed(text[c])
    BY DEF OnlyWellFormedServed
  <2>1. c \in Clients
    BY TasksAreOfClients DEF TypeInv
  <2>2. Pooled(c)
    BY DEF Pooled, WorkersFor
  <2> QED  BY <2>1, <2>2, UnderWay DEF IInv, Serving
<1> QED  BY <1>1, OrderInvariant, PTL

(* The timers: reading a text starts them, and the request resets them.    *)
LEMMA TimersUntouched ==
  ASSUME NEW c \in Clients, TimedOf(c),
         state'[c] = state[c], sent'[c] = sent[c], read'[c] = read[c],
         numReads'[c] = numReads[c] \/ numReads'[c] = 0, Quiet(c) => Quiet(c)'
  PROVE  TimedOf(c)'
BY DEF TimedOf

(* The clients keep the timers right.                                      *)
LEMMA ClientStepKeepsTimed ==
  ASSUME TypeInv, IInv, Timed, NEW c \in Clients, ClientStep(c)
  PROVE  Timed'
<1>1. UNCHANGED <<buffer, numReads, queue, task, stage>>
  BY DEF ClientStep, Connect, Begin, Send, TakeAnswer, Leave, bufferVars, poolVars
<1>2. /\ state \in [Clients -> {"away", "idle", "sending", "awaiting", "gone"}]
      /\ sent \in [Clients -> Nat] /\ read \in [Clients -> Int] /\ text \in [Clients -> Texts \cup {NoText}]
      /\ answers \in [Clients -> Seq(AnswersToClient)] /\ numReads \in [Clients -> Nat]
  BY DEF TypeInv, ClientsTyped, BuffersTyped
<1>3. \A d \in Clients : Pooled(d)' <=> Pooled(d)
  BY <1>1, PoolKept
<1>4. \A d \in Clients \ {c} : TimedOf(d)'
  <2> TAKE d \in Clients \ {c}
  <2>1. state'[d] = state[d] /\ sent'[d] = sent[d] /\ read'[d] = read[d] /\ answers'[d] = answers[d]
    BY <1>2 DEF ClientStep, Connect, Begin, Send, TakeAnswer, Leave
  <2> QED  BY <1>1, <1>3, <2>1, TimersUntouched DEF Timed, Quiet
<1>5. TimedOf(c)'
  <2> SUFFICES ASSUME state'[c] # "gone", numReads[c] > 0 PROVE TimedOf(c)'
    BY <1>1 DEF TimedOf
  <2>1. ~Connect(c) /\ ~Begin(c) /\ ~Leave(c)
    BY <1>2 DEF Timed, TimedOf, Connect, Begin, Leave
  <2>2. ~TakeAnswer(c)
    BY DEF Timed, TimedOf, TakeAnswer, Quiet
  <2>3. Send(c)
    BY <2>1, <2>2 DEF ClientStep
  <2>4. PICK end \in Pieces(text[c]) :
        /\ state[c] = "sending" /\ end > sent[c] /\ sent' = [sent EXCEPT ![c] = end]
        /\ state' = [state EXCEPT ![c] = IF end = text[c].total THEN "awaiting" ELSE @]
        /\ UNCHANGED <<answers, read>>
    BY <2>3 DEF Send
  <2>5. state'[c] \in {"sending", "awaiting"} /\ sent'[c] = end
    BY <1>2, <2>4
  <2>6. Quiet(c)'
    BY <1>3, <2>4 DEF Timed, TimedOf, Quiet
  <2>7. read'[c] < sent'[c]
    <3>1. end \in Nat /\ read[c] <= sent[c]
      BY <1>2, PiecesAreParts DEF TypeInv, Bounded
    <3> QED  BY <1>2, <2>4, <2>5, <3>1
  <2> QED  BY <2>5, <2>6, <2>7 DEF TimedOf
<1> QED  BY <1>4, <1>5 DEF Timed

(* The selector and its keys keep the timers right.                        *)
LEMMA KeyStepKeepsTimed ==
  ASSUME TypeInv, IInv, Timed,
         \/ Select \/ Accept
         \/ \E c \in Clients : TakeKey(c) \/ CheckKey(c) \/ EndOfStream(c) \/ ReadFails(c)
  PROVE  Timed'
<1>1. UNCHANGED <<state, text, texts, sent, answers, read, buffer, queue, task, stage>>
  BY DEF Select, Accept, TakeKey, CheckKey, EndOfStream, ReadFails, clientVars, bufferVars, poolVars
<1>2. \A d \in Clients : Quiet(d)' <=> Quiet(d)
  BY <1>1, PoolKept DEF Quiet
<1>3. /\ sent \in [Clients -> Nat] /\ read \in [Clients -> Int] /\ numReads \in [Clients -> Nat]
      /\ state \in [Clients -> {"away", "idle", "sending", "awaiting", "gone"}]
  BY DEF TypeInv, ClientsTyped, BuffersTyped
<1>4. ASSUME NEW d \in Clients PROVE TimedOf(d)'
  <2>1. CASE numReads'[d] = numReads[d] \/ numReads'[d] = 0
    BY <1>1, <1>2, <2>1, TimersUntouched DEF Timed
  <2>2. CASE ~(numReads'[d] = numReads[d] \/ numReads'[d] = 0)
    <3>1. CheckKey(d)
      <4>1. numReads' = numReads \/ \E c \in Clients : CheckKey(c) \/ CloseClient(c)
        BY DEF Select, Accept, TakeKey, CheckKey, EndOfStream, ReadFails, bufferVars
      <4>2. \A c \in Clients : CloseClient(c) => numReads'[d] = numReads[d] \/ numReads'[d] = 0
        BY <1>3 DEF CloseClient, evictClientBuffer
      <4>3. \A c \in Clients \ {d} : CheckKey(c) => numReads'[d] = numReads[d]
        BY <1>3 DEF CheckKey, bufferVars, readingFor
      <4> QED  BY <2>2, <4>1, <4>2, <4>3
    <3>2. Attended(d)
      BY <3>1 DEF CheckKey, Attended
    <3> SUFFICES ASSUME state[d] # "gone" PROVE TimedOf(d)'
      BY <1>1 DEF TimedOf
    <3>3. Served(d) /\ Unread(d) > 0
      BY <3>2 DEF IInv, Orderly, InOrder, Served
    <3>4. read[d] < sent[d]
      BY <1>3, <3>3 DEF Unread
    <3>5. state[d] \in {"sending", "awaiting"} /\ Quiet(d)
      BY <1>3, <3>3, <3>4 DEF Served, Resting, Sending, Awaiting
    <3> QED  BY <1>1, <1>2, <3>4, <3>5 DEF TimedOf
  <2> QED  BY <2>1, <2>2
<1> QED  BY <1>4 DEF Timed

(* A read keeps the timers right: a request that is whole takes its timer  *)
(* with it.                                                                *)
LEMMA MessageKeepsTimed ==
  ASSUME Manageable, OnlyWellFormedSent, TypeInv, IInv, Timed, NEW c \in Clients, HandleMessage(c)
  PROVE  Timed'
<1>1. /\ UNCHANGED <<state, text, texts, sent, task, stage>> /\ Reads(c)
      /\ read' = [read EXCEPT ![c] = @ + Taken(c)]
  BY DEF HandleMessage, Enqueue, sendClientError, ContinueReading, ParserThrows,
         clientVars, bufferVars, poolVars, Reads
<1>2. /\ answers \in [Clients -> Seq(AnswersToClient)] /\ numReads \in [Clients -> Nat]
      /\ read \in [Clients -> Int] /\ queue \in Seq(Tasks)
  BY DEF TypeInv, ClientsTyped, BuffersTyped, PoolTyped
<1>3. \A d \in Clients \ {c} : TimedOf(d)'
  <2> TAKE d \in Clients \ {c}
  <2>1. /\ read'[d] = read[d] /\ answers'[d] = answers[d] /\ numReads'[d] = numReads[d]
    BY <1>1, <1>2 DEF HandleMessage, Enqueue, sendClientError, ContinueReading, ParserThrows,
         Answered, CloseClient, evictClientBuffer, ResetTimers, clientVars, bufferVars
  <2>2. QueuedFor(d)' = {} <=> QueuedFor(d) = {}
    <3>1. CASE Enqueue(c)
      <4>1. PICK t : t.client = c /\ queue' = Append(queue, t)
        BY <3>1 DEF Enqueue
      <4> QED  BY <1>2, <4>1, TaskAppended DEF QueueKept
    <3>2. CASE queue' = queue
      BY <3>2 DEF QueuedFor
    <3> QED  BY <3>1, <3>2 DEF HandleMessage, sendClientError, ContinueReading, ParserThrows, poolVars
  <2>3. Quiet(d)' <=> Quiet(d)
    BY <1>1, <2>1, <2>2 DEF Quiet, Pooled, WorkersFor
  <2> QED  BY <1>1, <2>1, <2>3, TimersUntouched DEF Timed
<1>4. TimedOf(c)'
  <2> SUFFICES ASSUME state[c] # "gone", numReads'[c] > 0 PROVE TimedOf(c)'
    BY <1>1 DEF TimedOf
  <2>1. Served(c)
    BY DEF IInv, Orderly, InOrder
  <2>2. /\ state[c] \in {"sending", "awaiting"} /\ Quiet(c) /\ text[c] \in Texts
        /\ state[c] = "sending" => sent[c] \in Pieces(text[c]) \ {text[c].total}
        /\ state[c] = "awaiting" => sent[c] = text[c].total
        /\ From(c) = 0 /\ MessageLength(c) = sent[c] /\ read'[c] = sent[c]
    BY <1>1, <2>1, ReadsTheText
  <2>3. Outcomes(c) = tryParseClientRequest(text[c], 0, sent[c])
    BY <2>2 DEF Outcomes
  <2>4. ~Enqueue(c)
    BY <1>2 DEF Enqueue, ResetTimers
  <2>5. state[c] = "sending"
    <3>1. state[c] = "awaiting" => Outcomes(c) = {"request"}
      BY <2>2, <2>3, WholeTexts DEF OnlyWellFormedSent
    <3>2. "faulty" \in Outcomes(c) \/ "incomplete" \in Outcomes(c) \/ "throws" \in Outcomes(c)
      BY <2>4 DEF HandleMessage, sendClientError, ContinueReading, ParserThrows
    <3>3. Outcomes(c) # {"request"}
      <4> SUFFICES ASSUME Outcomes(c) = {"request"} PROVE FALSE
        OBVIOUS
      <4> QED  BY <3>2
    <3> QED  BY <2>2, <3>1, <3>3
  <2>6. ContinueReading(c)
    <3>1. Outcomes(c) = {"incomplete"}
      BY <2>2, <2>3, <2>5 DEF Manageable, PartsAreWaitedFor
    <3> QED  BY <3>1 DEF HandleMessage, Enqueue, sendClientError, ParserThrows
  <2>7. UNCHANGED <<answers, queue>>
    BY <2>6 DEF ContinueReading, clientVars, poolVars
  <2>8. Quiet(c)'
    BY <1>1, <2>2, <2>7 DEF Quiet, Pooled, QueuedFor, WorkersFor
  <2> QED  BY <1>1, <2>5, <2>8 DEF TimedOf
<1> QED  BY <1>3, <1>4 DEF Timed

(* The threads keep the timers right.                                      *)
LEMMA PoolStepKeepsTimed ==
  ASSUME TypeInv, IInv, Timed, NEW w \in Workers, Take(w) \/ WorkerStep(w)
  PROVE  Timed'
<1>1. UNCHANGED <<state, sent, read, numReads>>
  BY DEF Take, WorkerStep, Drain, Rewind, ClearBuffer, SetFails, UseBuffer, Reply, ReplyFails, Done,
         clientVars, bufferVars
<1>2. /\ answers \in [Clients -> Seq(AnswersToClient)] /\ queue \in Seq(Tasks)
      /\ task \in [Workers -> Tasks \cup {NoTask}]
  BY DEF TypeInv, ClientsTyped, PoolTyped
<1>3. ASSUME NEW d \in Clients, Quiet(d) PROVE Quiet(d)'
  <2>1. CASE Take(w)
    <3>1. /\ answers' = answers /\ queue # << >> /\ queue' = Tail(queue)
          /\ task' = [task EXCEPT ![w] = Head(queue)]
      BY <2>1 DEF Take, clientVars
    <3>2. Head(queue).client # d /\ QueueKept(d)
      BY <1>2, <1>3, <3>1, TaskTaken, SMTT(30) DEF Quiet, Pooled, QueuedFor
    <3>3. WorkersFor(d)' = {}
      BY <1>2, <1>3, <3>1, <3>2 DEF WorkersFor, Quiet, Pooled
    <3> QED  BY <1>3, <3>1, <3>2, <3>3 DEF Quiet, Pooled, QueueKept
  <2>2. CASE WorkerStep(w)
    <3> PICK c : c = task[w].client
      OBVIOUS
    <3>1. c # d
      BY <1>3 DEF Quiet, Pooled, WorkersFor
    <3>2. queue' = queue
      BY <2>2 DEF WorkerStep, Drain, Rewind, ClearBuffer, SetFails, UseBuffer, Reply, ReplyFails, Done
    <3>3. answers'[d] = answers[d]
      BY <1>2, <2>2, <3>1 DEF WorkerStep, Drain, Rewind, ClearBuffer, SetFails, UseBuffer,
         Reply, ReplyFails, Done, Answered, clientVars
    <3>4. \A v \in Workers : task'[v].client = d => task[v].client = d
      <4>1. CASE Drain(w)
        <5>1. stage[w] # "idle"
          BY <4>1 DEF Drain, UseBuffer
        <5>2. task[w] \in Tasks
          BY <5>1, TasksAreOfClients DEF TypeInv
        <5> QED  BY <1>2, <4>1, <5>2 DEF Drain, Tasks
      <4>2. CASE Reply(w) \/ ReplyFails(w)
        BY <1>2, <4>2, NoTaskIsNone DEF Reply, ReplyFails, Done
      <4>3. CASE UNCHANGED task
        BY <4>3
      <4> QED  BY <2>2, <4>1, <4>2, <4>3 DEF WorkerStep, Rewind, ClearBuffer, SetFails
    <3> QED  BY <1>3, <3>2, <3>3, <3>4 DEF Quiet, Pooled, QueuedFor, WorkersFor
  <2> QED  BY <2>1, <2>2
<1> QED  BY <1>1, <1>3, TimersUntouched DEF Timed

(* As long as clients send only well-formed texts, the timers have no      *)
(* entry for a client between two of its texts.                            *)
THEOREM TimersForgotten == Manageable /\ OnlyWellFormedSent => (Spec => []TimersForget)
<1> SUFFICES ASSUME Manageable, OnlyWellFormedSent PROVE Spec => []TimersForget
  OBVIOUS
<1>1. Init => Timed
  BY DEF Init, Timed, TimedOf
<1>2. TypeInv /\ IInv /\ Timed /\ [Next]_vars => Timed'
  <2> SUFFICES ASSUME TypeInv, IInv, Timed, [Next]_vars PROVE Timed'
    OBVIOUS
  <2>1. CASE \E c \in Clients : ClientStep(c)
    BY <2>1, ClientStepKeepsTimed
  <2>2. CASE NetStep
    BY <2>2, KeyStepKeepsTimed, MessageKeepsTimed DEF NetStep
  <2>3. CASE \E w \in Workers : Take(w) \/ WorkerStep(w)
    BY <2>3, PoolStepKeepsTimed
  <2>4. CASE UNCHANGED vars
    BY <2>4 DEF vars, clientVars, bufferVars, poolVars, Timed, TimedOf, Quiet, Pooled,
                QueuedFor, WorkersFor
  <2> QED  BY <2>1, <2>2, <2>3, <2>4 DEF Next
<1>3. TypeInv /\ Timed => TimersForget
  BY DEF Timed, TimedOf, TimersForget, TypeInv, BuffersTyped
<1> QED  BY <1>1, <1>2, <1>3, OrderInvariant, PTL DEF Spec

(* The network thread goes on: it finds neither a closed channel behind a  *)
(* key it has begun to handle, nor a buffer without room, nor a text that  *)
(* the parser cannot stand.                                                *)
GoesOn ==
  /\ NetRuns
  /\ net \in {"check", "read"} /\ key \in Clients => channel[key] # "closed"

(* The buffer of a client the net thread reads from is never full.         *)
LEMMA RoomToRead ==
  ASSUME ~LeavesEarly, TypeInv, IInv, NEW c \in Clients, Attended(c)
  PROVE  Remaining(buffer[c]) > 0
<1>1. /\ read[c] \in Int /\ sent[c] \in Nat /\ sent[c] <= text[c].total
      /\ buffer[c].position \in Nat /\ buffer[c].limit \in Nat /\ buffer[c].limit > 0
  BY DEF TypeInv, ClientsTyped, BuffersTyped, Bounded, Buffers
<1>2. CASE state[c] = "gone"
  BY <1>1, <1>2 DEF IInv, Orderly, InOrder, Left, Empty, Remaining
<1>3. CASE state[c] # "gone"
  <2>1. Served(c) /\ Unread(c) > 0
    BY <1>3 DEF IInv, Orderly, InOrder, Served
  <2>2. read[c] < sent[c]
    BY <1>1, <2>1 DEF Unread
  <2>3. Reading(c) /\ text[c] \in Texts
    BY <1>1, <1>3, <2>1, <2>2 DEF Served, Resting, Sending, Awaiting, TypeInv, ClientsTyped
  <2>4. text[c].total \in Nat
    BY <2>3, TextsAreTexts
  <2> QED  BY <1>1, <2>2, <2>3, <2>4 DEF Reading, Room, Remaining
<1> QED  BY <1>2, <1>3

(* The parser throws at nothing a client that stays has sent.              *)
LEMMA ParserDoesNotThrow ==
  ASSUME Manageable, OnlyWellFormedSent, ~LeavesEarly, TypeInv, IInv, NEW c \in Clients
  PROVE  ~ParserThrows(c)
<1> SUFFICES ASSUME ParserThrows(c) PROVE FALSE
  OBVIOUS
<1>1. Reads(c) /\ "throws" \in Outcomes(c)
  BY DEF ParserThrows
<1>2. Attended(c)
  BY <1>1 DEF Reads, Attended
<1>3. Unread(c) > 0
  <2>1. buffer[c].position \in Nat /\ buffer[c].limit \in Nat
    BY DEF TypeInv, BuffersTyped, Buffers
  <2> QED  BY <1>1, <1>2, <2>1, RoomToRead DEF Reads, Remaining
<1>4. state[c] # "gone"
  BY <1>3 DEF IInv, Orderly, InOrder, Left, Unread, TypeInv, ClientsTyped
<1>5. Served(c)
  BY <1>4 DEF IInv, Orderly, InOrder
<1>6. /\ state[c] \in {"sending", "awaiting"} /\ text[c] \in Texts
      /\ state[c] = "sending" => sent[c] \in Pieces(text[c]) \ {text[c].total}
      /\ state[c] = "awaiting" => sent[c] = text[c].total
      /\ Outcomes(c) = tryParseClientRequest(text[c], 0, sent[c])
  BY <1>1, <1>4, <1>5, ReadsTheText DEF Outcomes
<1>7. Outcomes(c) = {"incomplete"} \/ Outcomes(c) = {"request"}
  BY <1>6, WholeTexts DEF Manageable, PartsAreWaitedFor, OnlyWellFormedSent
<1> QED  BY <1>1, <1>7

(* No exception stops the network thread, if the texts are well-formed and *)
(* split where the parser stands it, and every client awaits its answer.   *)
THEOREM NetThreadRuns ==
  Manageable /\ OnlyWellFormedSent /\ ~LeavesEarly => (Spec => []NetRuns)
<1> SUFFICES ASSUME Manageable, OnlyWellFormedSent, ~LeavesEarly PROVE Spec => []NetRuns
  OBVIOUS
<1>1. Init => GoesOn
  BY DEF Init, GoesOn, NetRuns
<1>2. TypeInv /\ IInv /\ GoesOn /\ [Next]_vars => GoesOn'
  <2> SUFFICES ASSUME TypeInv, IInv, GoesOn, [Next]_vars PROVE GoesOn'
    OBVIOUS
  <2>1. CASE UNCHANGED <<net, key>> /\ \A c \in Clients : channel[c] # "closed" => channel'[c] # "closed"
    BY <2>1 DEF GoesOn, NetRuns
  <2>2. ASSUME NEW c \in Clients, ClientStep(c) PROVE GoesOn'
    <3>1. UNCHANGED <<net, key>> /\ \A d \in Clients : channel[d] # "closed" => channel'[d] # "closed"
      BY <2>2 DEF ClientStep, Connect, Begin, Send, TakeAnswer, Leave, TypeInv, NetTyped
    <3> QED  BY <2>1, <3>1
  <2>3. CASE Select \/ Accept
    BY <2>3 DEF Select, Accept, Proceed, GoesOn, NetRuns
  <2>4. ASSUME NEW c \in Clients, TakeKey(c) PROVE GoesOn'
    BY <2>4 DEF TakeKey, Proceed, GoesOn, NetRuns
  <2>5. ASSUME NEW c \in Clients, CheckKey(c) PROVE GoesOn'
    <3>1. Attended(c) /\ channel[c] # "closed"
      BY <2>5 DEF CheckKey, Attended, GoesOn
    <3>2. net' = "read" /\ key' = key /\ channel' = channel
      BY <2>5, <3>1, RoomToRead DEF CheckKey
    <3> QED  BY <2>5, <3>1, <3>2 DEF CheckKey, GoesOn, NetRuns
  <2>6. ASSUME NEW c \in Clients, EndOfStream(c) \/ ReadFails(c) PROVE GoesOn'
    BY <2>6 DEF EndOfStream, ReadFails, CloseClient, Proceed, GoesOn, NetRuns
  <2>7. ASSUME NEW c \in Clients, HandleMessage(c) PROVE GoesOn'
    <3>1. ~ParserThrows(c)
      BY ParserDoesNotThrow
    <3> QED  BY <2>7, <3>1 DEF HandleMessage, Enqueue, sendClientError, ContinueReading,
                              CloseClient, Proceed, GoesOn, NetRuns
  <2>8. ASSUME NEW w \in Workers, Take(w) \/ WorkerStep(w) PROVE GoesOn'
    <3>1. ~ReplyFails(w)
      <4> SUFFICES ASSUME ReplyFails(w) PROVE FALSE
        OBVIOUS
      <4> PICK c : c = task[w].client
        OBVIOUS
      <4>1. stage[w] # "idle" /\ (channel[c] = "closed" \/ state[c] = "gone")
        BY DEF ReplyFails, Done
      <4>2. c \in Clients /\ Pooled(c)
        BY <4>1, TasksAreOfClients DEF TypeInv, Pooled, WorkersFor
      <4> QED  BY <4>1, <4>2, UnderWay DEF IInv
    <3>2. UNCHANGED <<net, key, channel>>
      BY <2>8, <3>1 DEF Take, WorkerStep, Drain, Rewind, ClearBuffer, SetFails, UseBuffer, Reply, Done,
                       netVars
    <3> QED  BY <2>1, <3>2
  <2>9. CASE UNCHANGED vars
    BY <2>1, <2>9 DEF vars
  <2> QED  BY <2>2, <2>3, <2>4, <2>5, <2>6, <2>7, <2>8, <2>9 DEF Next, NetStep
<1>3. GoesOn => NetRuns
  BY DEF GoesOn
<1> QED  BY <1>1, <1>2, <1>3, OrderInvariant, PTL DEF Spec
=============================================================================
