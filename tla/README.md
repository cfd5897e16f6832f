# A TLA+ verification project for eth-asl

The repository holds a program and its experiments. The program
(`src/ch/ethz/asl`) is a middleware between memcached clients (memtier) and a set
of memcached servers: a network thread reads and parses the requests of all
clients, a pool of worker threads handles them, each over its own connections to
every server. SETs go to every server, a GET goes to the server its key hashes to,
a multi-GET goes to one server or, in sharded mode, is split over the servers and
its answers are put together again. The experiments (`scripts`) launch clients,
middlewares and servers, collect their logs, and turn these into figures, tables and
queueing models with Python scripts and notebooks.

This directory holds TLA+ modules of both, TLC configurations that check them on
small instances, and proofs that TLAPS checks for all instances. `PROJECT.json` maps
every definition to the lines it models.

## 1. The system

| component | state it keeps | operations | how it interacts |
| --- | --- | --- | --- |
| `RunMW` | `shutdownRequested`, the pool, the handler | `main`, `shutdown` | starts the rest; `shutdown` is called by the JVM hook, the network thread and workers |
| `ClientsSocketsHandler` | selector, server socket, one read buffer per client, `shouldRun`, `clientsToClose` | `run`, `shutdown`, `closeServerSocket`, `closeClientSockets` | reads clients, calls the parser, submits a `Worker` with the client's channel *and its buffer* |
| `ReceivalTimers` | reads and first read per key | `readingFor`, `reset` | network thread only |
| `RequestFactory` | none (moves the buffer's position and limit) | `tryParseClientRequest`, `constructMultiGetRequest` | called by the network thread, and by the sharded handler |
| `Worker`, `*Request` | the request at hand | `handle` | sends out of the client's buffer, waits for the servers, writes the answer |
| `MemcachedSocketHandler` | a connection and a buffer per server, per thread | `sendToAll`, `sendToSingleServer`, `waitForSingleResponse` | shared by all requests one thread handles |
| `HashingLoadBalancer` | `numServers` | `findTargetServer`, `assignKeysToServers` | called by the read handlers |
| `Request`, `ContextSettingThread(Factory)` | timestamps and counters | setters, `writeLog` | one log file per thread, read by the scripts |
| `scripts/*/experiment_master_script.sh` | files and remote processes | start, run, stop, collect | drive the middleware from outside, leave a directory per run |
| `scripts/*/postprocessing/*.py` | extracted logs beside the originals | gather, aggregate, cut, plot, summarise | read the directories of an experiment, called by the notebooks |
| `scripts/*/postprocessing/*.ipynb` | the kernel's names, the figures saved | one cell at a time | call the scripts; several notebooks save under one path |
| `scripts/7_queueing_model`, `6_2k` | tables | M/M/1, M/M/m, utilisations, sign table, histograms | read the logs and numbers of experiments 4, 5 and 3.2 |

What is hard in it:

- *Sharing without locks.* A client's buffer is used by the network thread and by
  the worker that serves the client; nothing but the client's good manners (one
  request at a time) keeps them apart.
- *Reuse.* All requests of a thread use the same connections and buffers. A reply
  or a byte one request leaves behind belongs to the next one.
- *Replicas without an order.* Two threads write one key over different connections.
- *Failure in the middle.* A server that refuses, breaks or answers too much hits
  a handler between two of its steps.
- *Shutdown from inside.* `shutdown` waits for the threads that may be calling it.
- *Pieces.* TCP may split a request anywhere; the parser runs on every prefix.
- *Averages of averages.* Requests are averaged over seconds, middlewares,
  repetitions and time, with a warm-up and a cool-down cut away by three different
  means. A wrong weight gives plausible numbers.
- *Positions instead of names.* Labels, ticks, directories and rows are matched by
  their place in a list or by a part of a name.
- *Hidden state.* A notebook's cells share their names, can be evaluated in any order,
  and several of them write the same file.

What makes each component correct: the split loses no key, keeps their order and is
fair; a worker gives a client the answer to its own request, acknowledges a SET only
when all servers have stored it, and leaves nothing behind; the network thread hands
over whole requests, answers each text once and survives its clients; a shutdown works
once, runs to its end and leaves nothing running; all together are one store to the
clients. Of the scripts: every logged request and every second inside the window counts
once and with its weight; what two scripts say of one run is the same; a figure shows
what its path, axis and labels say; predictions obey the laws they are named for.
`PROJECT.json` lists the hazards, each at the line where it bites.

## 2. Modules

### The middleware

| module | models | actions |
| --- | --- | --- |
| `HashingLoadBalancer` | `assignKeysToServers` | `Call`, `AssignKey` (one loop iteration), `Return` |
| `HashingLoadBalancerProofs` | its theorems | |
| `WorkerThread` | `MemcachedSocketHandler`, `Worker.run` and the four `handle` methods on one thread | one per send, read, response and reply of a handler; `ServerAnswers` and `ConnectionLost` for the servers |
| `WorkerThreadProofs` | its theorems | |
| `RequestFactory` | `tryParseClientRequest` as a function from a prefix to an outcome | none |
| `ClientsSocketsHandler` | `run`, `ReceivalTimers`, the clients' buffers, the clients, and the workers as far as they use these buffers | one per branch of `run`; `Drain`, `Rewind`, `ClearBuffer`, ... of a worker; `Send` of a client sends one segment |
| `MC_ClientsSocketsHandler` | the texts that clients send, symmetry | |
| `ClientsSocketsHandlerProofs` | its theorems | |
| `RunMW` | `shutdown`, the executor, the network thread's loop | one per call inside `shutdown`, and one per client socket it closes; the steps of the network thread between which a shutdown matters |
| `RunMWProofs` | its theorems | |
| `Middleware` | clients, queue, several threads, several servers | one per send, execution, response and answer; no faults |
| `ReplicatedStore` | what the middleware promises | `Request`, `Set`, `Get`, `Answer` |
| `MC_Middleware` | the commands, symmetry | |
| `MiddlewareProofs` | its theorems, and the refinement | |

Abstractions.

- A **reply** of a server is a record (server, request it answers, kind) with a
  length in bytes; a **server buffer** is its position, limit and the replies in it.
  Naming the request in a reply costs the model nothing and lets `AnswerIsForRequest`
  say what "the right answer" is. TCP may
  hand a reply over in two reads; where it may be cut is the constant `Cuts`. Pieces in a
  buffer are joined only where one continues the same reply (`Continues`).
- A **text** of a client is a record (command, blanks in its line, length of the
  line, declared size, total length). A **client buffer** is position, limit and the
  byte of the text its first byte is. The parser's outcome on each prefix depends on
  these numbers alone.
- `findTargetServer` (a hash) is an arbitrary server; in `Middleware` an arbitrary
  function of the keys that stays what it is.
- A **value** is named by the SET that wrote it. A server executes a command some time
  after it was sent, in any order with those of other connections.
- A **thread** takes one step per call that another thread can observe.
- Unchecked exceptions are outcomes: on a worker they end the task
  (`ThreadPoolExecutor.submit` keeps them in the Future nobody reads), on the network
  thread they end the thread and call `shutdown`.
- The `finally`-clauses, the skipped `clear()` of an exception and the order of
  assignments inside a handler are kept: most of what is found below is there.

**The abstract store.** In `ReplicatedStore` a SET takes effect at one instant between
its request and its answer, and a GET of one key reads the store at such an instant.
`Middleware` implements it (`ImplementsStore`): the store's value of a key is the copy at
the server a GET of that key alone is sent to, and the instant is when that server
executes the command. A multi-GET is sent elsewhere (to the server of its first bytes, or
split from there on), so it is promised less: each value is of a SET that no SET had
replaced, from its beginning to its end, before the multi-GET was requested.

### From logs to figures

| module | models |
| --- | --- |
| `Rationals` | exact fractions in the place of pandas' floating point, with NaN as `Undefined` |
| `RequestLogs` | a middleware's log: concatenation, metrics of a request, windows of a second, averages over middlewares, repetitions and time |
| `MemtierLogs` | the clients' logs, their extraction, their sums and pings |
| `Experiments` | directories of runs, `graph_xputresp_vs_vc.py` of experiment 3 |
| `ResponseTimes` | `graph_responsetime.py`, `graph_queuelength.py`, `graph_xput_vs_time.py`, `summary_table.py` |
| `OtherExperiments` | what differs in experiments 3.1, 4 and 5 |
| `Baseline` | experiment 2: joined clients, averages, interactive law |
| `Evaluation` | the experiment that writes the logs (`LogRequest`, `LogSecond`, `NextRun`) and the scripts that are started on it, any number of times (`Evaluate`) |
| `MC_Evaluation` | plans, rows and seconds |
| `RationalsProofs` | induction, sums over finite sets, greatest common divisors and fractions |
| `EvaluationProofs` | theorems of `Evaluation` |

A **row** of a log keeps all the numbers the scripts read. A **data frame** is a set of
records or a function from its index; grouping is the set of the index's values. A
**figure** is what is drawn: the points, bars, error bars and their labels. Files are
values: a directory is a function from the names of configurations to repetitions to logs.

### Notebooks

| module | models |
| --- | --- |
| `Kernel` | names, modules and the position in a notebook; what an error in a cell leaves behind |
| `Setups` | machines, threads, instances and configurations that the master scripts launch |
| `GraphNotebooks` | `graphs.ipynb` of 3.1 and 3.2, `graph_3_2_rerun.ipynb`, `graphs_4.ipynb`, `graphs_5.ipynb` |
| `BarChartNotebooks` | the two `responsetime_stacked_barchart.ipynb` |
| `DstatLogs`, `DstatNotebooks` | the eight `*_dstat_logs.ipynb`: cutting by the clients' times, averages, load |
| `Analysis2k` | `2k_analysis.ipynb`: sign table, effects, variation, confidence, residuals |
| `ResponseHistogram`, `HistogramNotebook` | `histogram.ipynb` of experiment 5, `wquantile` |
| `QueueingModels` | `MM1.ipynb`, `MMm.ipynb`, `NetworkOfQueues.ipynb` |
| `Notebooks`, `MC_Notebooks` | one action per cell of all of them; the files they read |
| `NotebooksProofs` | theorems of `Notebooks` |

A **cell** is one action: it needs some names, imports modules, binds names, draws and
saves. It fails at the first name that is missing and leaves behind what it has bound
until then. A **figure** is named by its path and carries what it shows: source directory,
machines, number of threads, labels, numbers. Its title or path is compared with that.

## 3. What the runs check

Bounds are constants of the configurations; states are distinct states. Deadlock is
checked in `split` and `evaluation`: elsewhere the system rightly stops when the bounded
requests are used up, the middleware has been shut down, or a notebook is at its end.

| run | instance | shows | states |
| --- | --- | --- | --- |
| `split` | 3 servers, 0 to 10 keys, any primary | the chunks are consecutive in assembly order, every key is asked, no server exceeds its rounded-up share | 231 |
| `worker_sharded` | 3 servers, 3 requests, gets may be refused, multi-GETs without a key, replies cut within or behind their first line | the right and complete answer, nothing on the wire and all buffers reset between requests, every handler ends | 25081 |
| `worker_nonsharded` | 2 servers, unsharded multi-GETs; SETs and reads refused, replies of which one byte may come first | until a request is dropped, every answer is for its own request and nothing is left on the wire | 226010 |
| `worker_all_faults` | 2 servers, 3 requests, all refusals, one broken connection, single bytes, answers that overflow | no false STORED until a request is dropped; a SET or GET is dropped only over a read that was too short | 679362 |
| `net_split` | 2 clients, 2 workers, 2 texts each, splits behind command and first line, SETs that cannot be sent | buffers undisturbed, one answer per text, no well-formed text refused, timers reset, every text answered | 47231 |
| `net_faulty` | 2 clients, 2 workers, 1 server, 2 texts each: malformed and well-formed texts, clients that leave at any moment | only well-formed texts are served, and those who stay are served undisturbed | 864155 |
| `shutdown` | hook, network thread and 2 workers, 2 clients, 2 requests, all failures on | once, to its end (unless the JVM has ended, or the walk through the client sockets was overtaken), and all threads end | 271690 |
| `middleware` | 2 clients, 2 threads, 2 servers, 2 keys, 3 requests, sharded or not, any hash | one place for each request, replicas that differ only after SETs that ran at the same time, and the refinement of `ReplicatedStore` | 410456 |
| `evaluation` | 2 plans of runs, 2 middlewares, 2 client logs, up to 2 more lines in any log | the averages are right, scripts agree, a second evaluation changes nothing | 3857 |
| `notebooks` | all notebooks from the top, those without rebinding in any order | figures show what they say, and the numbers behind them obey their definitions | 1734 |

Some properties of the last two are conjunctions whose parts have names.

- `AveragesAreRight`: `PooledMeans` (the weighted mean over the middlewares is the mean
  over all requests of the second), `EachRequestCountsOnce`, `WholeSecondsOnly` (experiment
  4 drops the second the cut has opened), `ClientSecondsCut`.
- `FiguresAgree`: `BreakDownAddsUp` (queue, network thread and worker time make up the
  response time after all averages), `OwnDirectoriesOnly`, `TraceOnOneClock`,
  `LabelsMatchBars`, `SummaryAgreesWithFigure`.
- `BaselineAgrees`: `JoinKeepsCommonSeconds`, `BaselineIsMeanOfMeans`.
- `RerunsAgree`: an action property; extracted files are written anew, not appended to.
- `FiguresShowWhatTheySay`: `FigureShowsItsExperiment`, `ClientsOnTheAxis`,
  `BarsUnderTheirLabels`, `EveryMachineOnce`, `PanelsMatchTitles`.
- `RunsThrough`: no cell of a complete notebook needs a name that a later one binds.
- `FiguresAreStable`: cells that share a path show the same, in any order.
- `DstatInsideTheRun`: the samples of a repetition, over midnight too.
- `AnalysisAddsUp`: errors matched by settings are residuals matched by position, and the
  variations add up to the total.
- `QueueingLaws`: `LittlesLaw`, `ErlangC` (against the birth-death chain),
  `UtilizationIsBusyTime`.
- `PercentilesReached`: a percentile is the first step at which the weighted requests have
  reached the share.

Why these bounds are enough to be interesting. Ten keys is the parser's own limit
(`MAX_MULTIGETS_SIZE`), and three servers give every remainder. A thread that gets out
of step shows it at the second request, a buffer that was not reset at the second or
third use; three requests let a fault hit any of them and still be followed by another.
Two clients and two workers let every pair of (network thread, worker) steps on one
buffer interleave with another client's. In the shutdown two workers are needed for one
to wait for the other, and the third caller (hook or network thread) for a queue at the
monitor. In `middleware`, two SETs of one key overtake each other on two threads and a
third request sees it; a multi-GET of two keys goes to another server than a GET of
either. In `evaluation` the logs begin before the warm-up and end after the cool-down, and
two lines more make two middlewares, clients or repetitions differ in one second. In
`notebooks` the inputs are few, chosen for a case each (midnight, a month's end, a
directory listed in another order, an idle queue, one late client), in months of four days; the
order of the cells is free.

Every property has a mutant: a plausible slip in one mapped definition (kept next to it,
marked MUTANT) that violates it under the same configuration.

### Fairness

- `WorkerThread`: weak fairness of the handler's steps (a blocked `read` is not enabled,
  so this is only "the thread is scheduled") and of each server's answer while its
  connection stands. No request and no fault is forced.
- `ClientsSocketsHandler`: weak fairness of the network thread, of each worker, and of a
  client finishing a text it has begun and reading its answer, which TCP and the
  benchmark's client do.
- `RunMW`: weak fairness of the thread in `shutdown`, of the network thread, of each
  worker, and of the monitor (when it is free, some thread that waits for it gets it; which
  one is open). A hanging server, a signal, a new request are never forced.
- `Middleware`, `Evaluation`, `Notebooks`: none. Their properties are safety properties.

### Where program and documentation disagree

The two violation runs:

- `worker_multiget_refused` (`MultiGetRequest:95`): an error reply to an unsharded
  multi-GET makes the hit statistic throw before the reply is forwarded.
- `net_split_in_line` (`RequestFactory:53`): a segment that ends inside the first line
  stops the network thread with `BufferUnderflowException`, where `RequestFactoryTest:72`
  expects "incomplete".

The models of the middleware violate these properties when the configuration is changed
as described. No run is kept for them; they say where the properties above stop holding.

- A refused SET leaves the refusing server's buffer uncleared (`SetRequest:60`):
  `SetReplies` with an error violates `BuffersReset`, and `HandlerEnds`: behind `ERROR\r\n`
  the limit is 7, and the next SET reads 7 of the 8 bytes of `STORED\r\n` and then waits for
  ever for a byte it has no room for. The client gets no answer and nobody notices.
- That buffer keeps the limit of the refusal (7 for `ERROR\r\n`), and the command of a later
  sharded multi-GET may not fit in it (`ShardedMultiGetRequest:51`). It is dropped when it has
  been sent to other servers already, whose replies nobody reads: a SET behind it is then
  acknowledged with the reply to an earlier one. It takes 5 requests and no broken connection:
  the run `worker_all_faults` with `MaxRequests = 5`, `MaxLost = 0` and no `Cuts` violates
  `[]StoredEverywhere`. With single bytes it takes 2: a SET that a read of one byte has dropped
  leaves the replies of the others to the next SET. This is why `AckMeansStoredEverywhere` is
  asked until a request is dropped.
- A SET that breaks off in `sendToAll` leaves replies unread (`SetRequest:77`):
  `MaxLost = 1` violates `NothingLeftOnTheWire`.
- A data block that ends in `END\r\n`, cut there, is taken for the end of the response
  (`MemcachedSocketHandler:176`): `Cuts` with `"data"` violates `AnswerIsComplete`.
- A first read of a single byte makes `endsWithNewline` look in front of the buffer
  (`MemcachedSocketHandler:199`): the task dies and the client of a SET or GET gets nothing.
  `Cuts` with `"byte"` violates `NoRequestDropped`. It is in both runs with faults:
  `OnlyShortReadsDrop` says that nothing else has a SET or a GET dropped.
- After an unsharded multi-GET that was refused and dropped (`MultiGetRequest:95`), the next SET
  reads the old error and leaves a `STORED` behind, with which a later SET that is refused may be
  acknowledged. Of a thread that has dropped a request only `OnlyShortReadsDrop` says anything.
- A sharded multi-GET of blanks has no key, asks no server and flips a buffer that is null
  (`ShardedMultiGetRequest:114`): `NullPointerException`, and the client gets nothing
  (`NoKeys`, fired in `worker_sharded`). The thread is none the worse for it.
- The sharded handler counts hits in what it has put together (`ShardedMultiGetRequest:116`).
  If that begins with the rest of an old reply, this throws, or does not end
  (`CountFails`, `CountStops`); it takes a request that was dropped before.
- The command of a sharded multi-GET is written behind what an earlier request has left in the
  server's buffer, and the server gets both (`ShardedMultiGetRequest:56`, `SpoiltCommand`).
- An answer longer than the buffer is read for ever (`MemcachedSocketHandler:24`):
  `ValueLength > Capacity` violates `HandlerEnds`.
- A client that disconnects while its request is being sent, or whose channel a worker
  closes between two looks at its key, stops the network thread
  (`ClientsSocketsHandler:137`, `:126`): clients that leave violate `NetRuns`.
- A split inside `get `/`set ` loses the first bytes (`RequestFactory:41`); one inside the
  datablock is refused twice (`RequestFactory:134`), where the javadoc (`:30`) has
  "possibly only incomplete". `Splits` with `"prefix"` or `"data"` let a client hear
  `CLIENT_ERROR` to a well-formed text, so `WellFormedIsAccepted` says so only of a client
  whose reads stop where the parser waits (`ReadWhereWaited`): behind the command, and behind
  the first line of a SET. In `net_split` all of them do; the theorem allows any split.
- A set line with too few tokens (`RequestFactory:121`) violates `NetRuns`.
- A text longer than a SET that failed before it is cut off (`SetRequest:48`): `EmptySet`
  added to the texts of `net_split` violates `NetRuns`.
- A refused text does not reset its timers (`ClientsSocketsHandler:172`): `FaultyTexts`
  violate `TimersForget`.
- The buffers of clients that workers closed stay in `clientReadBuffers`.
- "Finally close all client connections" (`RunMW:179`): `shutdown` does not wait for the
  network thread, so `clientsToClose` may be null or incomplete (`ClientsSocketsHandler:277`),
  and clients stay open until the process ends. While `shutdown` walks through the set, the
  network thread may still add to it (`:198`): the `forEach` then throws
  `ConcurrentModificationException` (`IterationThrows`) and `shutdown` never logs its end.
  `ShutdownCompletes` exempts this (`Overtaken`) and nothing else while the JVM runs.
- `assignKeysToServers` promises a list as long as the keys (`HashingLoadBalancer:32`) and
  returns one element per server asked, which is what its caller needs.

Of the scripts, what the models show or had to follow:

- `workerPostProcessingTime` is computed from the fields of the pre-processing
  (`gather_middleware_statistics.py:41`), so the parts of the response time do not all add
  up: `BreakDownAddsUp` leaves that part out.
- The pings of the last repetition are drawn for all (`graph_responsetime.py:20`), and the
  totals of a summary are those of the last (`summary_table.py:66`).
- Directories are found by a part of their names (`directory_functions.py:56`), repetitions
  by `\d*`, which matches everything.
- `resptime`, a module, is rebound to a value (`graph_3_2_rerun.ipynb:83`,
  `3_1/graphs.ipynb:81`): later cells of the notebook fail. Names that nothing binds are
  used in `graphs_4.ipynb:137`, `3_2/graphs.ipynb:15` and `histogram.ipynb:464`. These
  notebooks are not in `Complete`, of which `RunsThrough` is asked.
- `exp3_1/memtier_Send.png` is overwritten with experiment 3.2 (`client_dstat_logs.ipynb:198`):
  `Overwritten`, exempt in `FigureShowsItsExperiment` and `FiguresAreStable`.
- Experiment 4's clients are drawn with 2 of 6 threads on the axis of `memtier_Send`: exempt
  in `ClientsOnTheAxis`.
- Server 7 is counted twice in experiment 4, server 8 is missing in 5: `ServersAmiss`.
- dstat's times are compared as texts that begin with the day: wrong at the end of a month,
  exempt by `InOneMonth`.
- The network thread's utilisation is divided by the number of workers
  (`NetworkOfQueues.ipynb:162`), which `UtilizationIsBusyTime` does not ask of it.
- `histogram.ipynb:302` assigns the directory of the rerun, but `:308` builds the paths from
  that of the first run: "the rerun" is the first run again.
- `graphs_4.ipynb:160` saves a figure of the rerun of experiment 3.2 under the path that
  `graph_3_2_rerun.ipynb` and `responsetime_stacked_barchart.ipynb:161` save to as well.
  `FiguresAreStable` compares the cells of one notebook, not of different ones.
- The notebooks outside `Shuffled` bind a name again in a later cell and are checked from the
  top only; in another order their cells draw the data of another cell.

Definitions that no run evaluates, kept as copies of code that differs from another's only
in directories: `gather_statistics_2_1`, `gather_averages_2_1` and the graphs of 2.1,
`get_responsetime_data_5`, `get_responsetime_data_old_5`, `graph_responsetime_5`,
`graph_responsetime_withPing_5`, `plot_stacked_barchart_5`.

## 4. What is proved

Checked by TLAPS for every value of the constants, from the named assumptions of the
modules (which the runs evaluate).

**`HashingLoadBalancerProofs`** (any number of servers and keys): `TypeCorrect`,
`AssemblyOrder`, `NoKeyLost`, `FairShare` for the four properties of `split`. None of the
properties is inductive: they follow from an invariant that describes the loop exactly.
With `share` the rounded-up quotient, the loop stands at key `share * turns + count + 1`,
the servers of the turns before are in assembly order and hold `share` keys each, and the
number of turns never exceeds the number of servers, because `share * servers >= keys`.
The last fact needs the arithmetic of ceiling division, stated as lemmas.

**`RunMWProofs`** (any number of workers, clients and requests): `TypeCorrect`,
`OnceOnly` (`ShutdownOnce`) and `StoppedWhenCompleted` (`CompletedMeansStopped`). The
invariant `IInv` adds to the types
  - `CallersCall`: a thread that waits for the monitor or owns it stands where it called
    `shutdown`, and does not both wait and own (else `Return` would move a thread that is
    elsewhere),
  - `ServerCreatedOnce`: the socket exists exactly from the network thread's second step
    (else a later `OpenServer` could reopen what shutdown has closed),
  - `SetIsMade`: the network thread adds clients only to a set it has made, and `shutdown`
    walks through no other,
  - `Progress`: what holds at each phase of `shutdown` and after it, which accumulates from
    phase to phase: socket closed, then `shouldRun` false, then pool not running, then queue
    empty.

There is one lemma for each part of the code (shutdown, network thread, workers, clients)
with one step per action.

**`WorkerThreadProofs`** (any number of servers and requests, buffers and replies of any
length). `Typed` (types, and what the program counter tells about the request) holds for all
constants. On top of it stand two invariants.

- `Followed`, for `AcknowledgedIsStoredEverywhere` (`AckMeansStoredEverywhere`), with all
  refusals and any number of broken connections. Either the thread is *in step* with its
  servers, or a server is *dead*, or the thread has stopped. `InStep` says for every step of a
  handler what is on each connection and in each buffer: nothing between requests (`AtRest`);
  while sending and waiting (`Sending`, `Receiving`) one command or one reply, some of it read,
  at each server still to come, and what the responses so far have left (`Responses`); so a
  STORED counts for the request at hand. A SET that breaks off in `sendToAll` leaves replies
  unread and the thread out of step, but the server it broke off at is dead (`Dead`: closed,
  with nothing to read), and a SET waits for every server, so no SET is acknowledged any more.
  Until a request is dropped nothing else breaks the step.
- `Orderly`, for the rest: in step for good, with buffers that what is put into them fits in.
  `TypeCorrect`, `AnswersOwnRequest` (`AnswerIsForRequest`), `AnswersCompletely`
  (`AnswerIsComplete`), `WireIsEmpty` (`NothingLeftOnTheWire`) and `BuffersAreReset`
  (`BuffersReset`, if no SET is refused).

Hypotheses, met by the runs that check these properties (section 3 says what the code does
where they are not met): `EndsAreEnds` (no read ends in a data block behind what looks
like the end of a response), and in `Undisturbed` besides it: no broken connection, no first read of
one byte, no refusal of an unsharded multi-GET, commands that fit even in the buffer of a
refusing server, and room for all values of a multi-GET.

Two more theorems are about threads to which more may happen.

- `InStepWhileNothingIsDropped` (`InStepUntilDropped`), from `EndsAreEnds` and no broken
  connection alone: SETs and reads may be refused, single bytes read, buffers too small. The
  invariant `InPlace` is `InStep` as long as the thread has not stopped. A handler that waits
  for ever keeps it, one that drops its request ends it.
- `OnlyShortReadsDropRequests` (`OnlyShortReadsDrop`), without a hypothesis: any refusals, cuts
  and broken connections, any buffers, and whatever was dropped before. Once out of step, a
  thread reads the rest of one reply before the next, and `InStep` says nothing. The invariant
  `Accounted` counts bytes instead: what is still to come of a reply reaches to its end
  (`Coming`); the limit of a buffer leaves room for five bytes (`Roomy`); a wait that goes on has
  not read too little (`TooShort`), and what a first server has answered to a sharded read has
  five bytes. A handler that waits for ever is not dropped, and the theorem does not say that it ends.

**`ClientsSocketsHandlerProofs`** (any number of clients, workers and texts):

| theorem | property | hypotheses |
| --- | --- | --- |
| `TypeCorrect` | `TypeOK` | none |
| `BuffersOfStayersUndisturbed` | `StayersUndisturbed` | `Manageable` |
| `EachTextAnsweredOnce` | `OneAnswerEach` | `Manageable` |
| `WellFormedAccepted` | `WellFormedIsAccepted` | `RoomForTexts` |
| `WellFormedServed` | `OnlyWellFormedServed` | `Manageable` |
| `BuffersUndisturbed` | `UndisturbedBuffer` | `Manageable`, nobody leaves early |
| `TimersForgotten` | `TimersForget` | `Manageable`, well-formed texts |
| `NetThreadRuns` | `NetRuns` | `Manageable`, well-formed texts, nobody leaves early |

`RoomForTexts`: a text fits in the buffer, and a SET that may fail is not shorter than the other
texts. `Manageable` adds that the parser waits for the rest of a text that is split
(`PartsAreWaitedFor`, which `TextsInOnePiece` and `TextsSplitInTheHeader` derive for texts sent
whole, and for the splits of the runs). `WellFormedAccepted` does without it: texts may be
split anywhere, and the property itself singles out the clients whose reads stop where the parser
waits. For this the invariant is stated of a set of clients: `Orderly(D)` is kept by every step
after which the clients in `D` are read in such places, whatever the others send, and `IInv` is
`Orderly(Clients)`. The invariant `IInv` says who owns a client's buffer. A client that stays has
one request under way: while it is sending, the network thread has what was read of the text
(`Sending`, `Reading`); when it awaits, the request is with the network thread, *or* has exactly
one task in the queue or with one worker that stands where its buffer tells (`Serving`), *or* is
answered with an empty buffer. The network thread reads a buffer only while its channel has
unread bytes, and there are none while a worker has it: this, and no lock, keeps them apart.

**`MiddlewareProofs`** (any number of clients, threads, servers, keys and requests, any hash,
sharded or not): `TypeCorrect` (each request in one place),
`OnlyRacesLeaveReplicasDifferent` (`ReplicasDifferOnlyAfterRaces`) and `Implements`, the
refinement `Spec => ImplementsStore` of `ReplicatedStore`. The invariant `IInv` says that a
handler sends to and hears from its servers in order (`InOrder`), that a server has executed
exactly the commands whose reply is on the wire or was received (`OnTheWire`), that what
was put together is the beginning of a possible answer (`Replies`, `Response`), and that the
copy at a server is of a SET it has executed which no SET executed there came after
(`Latest`). From `Latest` follows the property of the replicas: a SET that was answered was
executed everywhere. The refinement maps an execution at the primary server of a key to the
instant of the store's `Set` or `Get`, `SendToClient` to `Answer`, and all else to stutters. That a
split loses no key is arithmetic of ceiling division again, here of `SubSeq`s (`Shares`).

**`RationalsProofs`** (the arithmetic under the scripts). What a recursive function or a fold
computes for all inputs needs induction, and the library's induction theorems take the formula
as a parameter, which no installed prover can instantiate. Here the formula is a *set*: a
set of natural numbers, or of subsets of a finite set, that is not everything has a minimal
element outside (`MinimalSubset`, from the well-foundedness of strict subsets that the library
proves). From this follow `StrongInduction` and `FiniteInduction`, and from the latter that folds
over sets satisfy their recursion (`FiniteRecursion`, `SumRecursion`, `TotalRecursion`). On top
of it stand sums (any order, unions, partitions, images), Euclid's algorithm as the source of
reduced fractions (`GcdDivides`, `GcdScales`, `RatioEqual`), and the theorem
`WeightedMeanPools`: the mean of means, weighted with the number of values, is the mean of all
values.

**`EvaluationProofs`** (any plan, any number of middlewares, client logs, repetitions and lines,
any times and any window, from the assumptions of `Evaluation` and of the modules below it:
log names occur once, times are integers, one timing is that of a GET, with which a
log begins):

- `FiguresStayTheSame` (`RerunsAgree`), from the invariant that figures are drawn after the last
  run and from its logs (`DrawnFromLogs`).
- `AveragesFromLogs` (`AveragesAreRight`). The invariant `LogsGood` says of the logs of each
  run what the scripts rely on without asking: every middleware's file begins with a GET at the
  moment it has started, its columns are all there with the type they should have, and the
  seconds of a client are numbered without a gap from 0 past the warm-up, so that the cut-off is
  met. The rest follows the scripts. The rows of one second of one middleware give one window
  (`WindowsOfLines`: the mean over its lines, as no two lines have the same row). Averaging the
  windows of several middlewares gives the window of the *joint* log, in which every line of each
  counts once (`MiddlewaresTogether`; here weighting with the throughput is needed, and
  `WeightedMeanPools`). Cutting away warm-up and cool-down commutes with it (`CutRows`,
  `RepMetricsOfLines`). Then the four parts: `MetricsArePooled`, `EveryRequestCountsOnce` (the
  windows of a run partition its kept lines), `WholeSecondsCounted` (the second that the cut has
  opened is the one experiment 4 drops), and `ClientsAreCut` (throughputs of clients add up, response
  times are weighted with them).

**`NotebooksProofs`** (any files, any choice of the notebooks that are evaluated out of order):
`NotebooksRunThrough` (`RunsThrough`). The invariant `InOrder` says for each position which names and
modules the cells above have bound (`Ready`); `Distinct`, that no name is a value and a module at once.
What a cell computes does not matter here: each is shown to do with names what `Binds` says, and
`BindsForward` is proved once for all of them. Notebooks that do not run through (`Incomplete`)
keep `Distinct`, whether a cell fails or not.
`DstatShowsTheRun` (`DstatInsideTheRun`): for any machines' samples and any length of days and months,
from `DstatAssumption` (clients have the same repetitions; a machine is sampled inside each, and not
months away, where the texts that are compared repeat) and `TruncateAssumption`. Two stamps of one
repetition compare as texts as they do as times when it lies in one month, and a stamp of another
file, which may be of the next month, does so with the ends of the repetition (`ReadWithin`). Means
over repetitions and their sums over machines, taken in two steps, are those over all pairs
(`TotalOfMeans` in `RationalsProofs`). The invariant `DstatShown` says that tables
and figures are made of the notebook's own files (`IsRow`).

**What the proofs have changed.** With a negative size the parser's model accepted a datablock
that ends before it begins (`DatablockEnds`; the code finds no newline there, or that of the
first line with more behind it, `RequestFactory:133-139`); pieces of different replies with equal lengths could be joined
(`Continues`); `AckMeansStoredEverywhere` turned out not to hold beyond three requests (section 3);
in `Evaluation` the rows' types and the GET that a log must hold were left to the configuration and
are now assumptions (`EvaluationAssumption`).

**Only model-checked.** Liveness (`HandlerEnds`, `EveryTextAnswered`, `ShutdownCompletes`, `ThreadsEnd`) under fairness, which is out of this
prover's reach, as is `ENABLED`. Of `Evaluation`, `FiguresAgree` and `BaselineAgrees`, which compare
two long computations with each other. Of `Notebooks`, what is about the numbers or the path of every
single figure: `FiguresShowWhatTheySay`, `FiguresAreStable`, `AnalysisAddsUp`, `QueueingLaws` and
`PercentilesReached`. `NoRequestDropped`, and `NetRuns` for texts split
inside the first line, are false (the violation runs).

## 5. What is not modelled

- log4j: its appenders, and rows that are not flushed when the process ends.
- Command line parsing, and a server that cannot be reached when a thread starts.
- A process without file descriptors left, where `accept` throws (`ClientsSocketsHandler:107`).
- A write to a server that fails after a part of the command was written: the model drops the
  command as a whole.
- `waitForAllResponses`, which nobody calls.
- Faults together with several threads: `WorkerThread` has one thread and all faults,
  `Middleware` several threads and none. A fault is confined to the thread that owns the
  connection and to the client it serves, so that the two meet only in the servers.
- Real time: the sleeps of the master scripts, their two seconds after SIGTERM against the two
  seconds of `awaitTermination`, and the starting and stopping of remote processes.
- Scripts that are copies of another experiment's but for formatting; functions without a
  caller; axes, colours, limits and the outputs stored in notebooks.
- Distribution functions with `exp` and `log`, and the mean value analysis of the network of
  queues, which is an Octave call on numbers printed here.
- VM setup, build files, cloud templates and the report: no state. Unit tests are read as
  documentation.

## 6. Plan

Next, in this order:

1. `HashingLoadBalancer` and `Middleware`: prove that the loop of the first computes `keySplit`
   and the order of targets that the second uses, so that the two are one.
2. `RunMW`: prove that at most one thread is inside the body of `shutdown`, and that the
   thread in it can always go on, the safety part of `ShutdownCompletes`.
3. `Notebooks`: prove Little's law for any arrival rate, the first part of `QueueingLaws`.
4. `ExperimentRun`: the master scripts with a clock, so that logs which are copied while the
   middleware still writes can be stated.
