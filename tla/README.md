# A TLA+ model of network-application

This directory holds a formal model of the client/server application of this
repository: TLA+ modules, configurations that check them with TLC, and proofs
checked by TLAPS. Paths below are relative to the repository's root.

## 1. The system

The program is a TCP server that speaks length-prefixed JSON, a client for it,
and a library (`core/`) of small parts the two are built from.

| Component | State | Operations | Talks to |
|---|---|---|---|
| `core/worker` | `tasks`, `current_task`, `status` (Wait, Work, Flush, Stop), `thread`, a mutex, a condition variable | `start`, `stop(clear)`, `flush`, `addTask`, `~Worker`; the thread's loop `runThreadTask` | whoever adds tasks: `mainWorker` and `sessionWorkers` of the server, `mainWorker` of the client |
| `core/session/session_manager` | `sessionMap` and its mutex, the `AcceptHandler` | `addSession`, `removeSession`, `getSession`, `getSessionMap`, `getSessionCount`, `closeAcceptor`, `~SessionManager` | sessions, through the callbacks it installs in them |
| `core/session/session` | `socket`, `criticalError`, callbacks | `connect`, `accept`, `read`, `write`, `disconnect`, `hasError` | `ConnectHandler`, `TransportHandler`, `MessageHandler` |
| `core/connection` | acceptor, callbacks | `accept`, `close`; `connect`, `disconnect` | sockets, the io_context thread |
| `core/transport_handler` | `magicNumber`, callbacks | `read`, `write`, each synchronous or asynchronous | sockets; `Session` through `onAllRead`, `onAllWrite`, `onError` |
| `core/utils/error_handler` | none | `check_error`: which codes count as errors | every layer |
| `core/message`, `core/message_handler`, `core/request_response_handler` | none that changes | JSON to message and back, an answer to a request | `Session`, `SegmentServer` |
| `core/io_context_handler` | the io_context and its thread | `start`, `stop` | asynchronous completions, the synchronous accept |
| `core/configuration_handler` | paths | `getData`: read, repair, validate | the two programs |
| `core/logger`, `core/handler_invoker`, `clientserveriface` | - | logging, a table of callbacks, interfaces | all |
| `server/` (`SegmentServer`, `main.cpp`) | `isWork`, `mainWorker`, `sessionWorkers`, the session manager | `start`, `stop`, `write`, `disconnect`; `sessionWork` per session; the operator's commands | all of the above |
| `client/` (`SegmentClient`, `main.cpp`) | `isWork`, `mainWorker`, the session | `start`, `stop`, `write`, `disconnect` | all of the above |

What is hard about it:

* **Worker.** A condition variable shared by two kinds of waiters, a wait with a
  timer and one without, a status that is an atomic read with and without the
  mutex, a thread object that must be joined exactly once, and five calls whose
  every order is legal. It is right if no task is lost or run twice, a queue
  that accepts tasks has a thread, calls return, and `std::terminate` is never
  reached.
* **Server.** Three kinds of threads (the owner, the accept loop, one reader per
  session) share the session map, the sockets and `isWork`. A failed read first
  takes the session out of the map and closes it later; `stop` works on a copy
  of the map; the operator names sessions that may have gone; a reader can end
  by an exception. It is right if no socket leaks, a failed session is gone,
  every connected client has a reader, `stop` returns and leaves nothing behind.
* **Client.** Two threads, the program's and the reader's, share one session;
  either may meet an error, and `start` calls `stop` from its own connect
  callback. It is right if `start` and `stop` return, a stopped client is closed
  and nobody reads from it, an error on either thread ends the reader, and a
  client that is connected is read from.
* **Framing and messages.** A frame is a magic number, a length and a payload,
  and a socket may be written by two threads of the server (the reply of
  `sessionWork` and the operator's line) with no lock between them, so a stream
  can be torn; writes block when the sockets are full; in the asynchronous mode
  reads overlap and the length of a frame is sent from a stack frame that may be
  gone. It is right if no program is handed a frame that was not sent, or one
  twice, only two writers can tear a stream, and as long as they have not,
  frames come in order and each request gets its own answer.
* **Programs and configuration.** Programs of a kind share a configuration file
  that they repair in two steps, empty it and write it, while their user edits
  it; they share the TCP ports, and a `bind` that fails is only logged; a signal
  is a flag that two loops look at. It is right if a file in the middle of a
  repair makes no program give up, what is configured is what is served, main
  does not return while its servers work, and a signalled program ends.

`PROJECT.json` lists the hazards one by one, each at its line.

## 2. Modules

| Module | What it is |
|---|---|
| `Channel.tla` | What a user of a `TransportHandler` may rely on: messages come out once each and in order. |
| `TaskQueue.tla` | What a user of a `Worker` may rely on: a queue that is open, draining or halted; no threads. |
| `Worker.tla` | `core/worker`, thread by thread and critical section by critical section. Implements `TaskQueue` (`Queue == INSTANCE TaskQueue WITH ...`). |
| `WorkerProofs.tla` | Theorems about `Worker` for every value of its constants. |
| `MCWorker.tla` | Tasks as model values and the initial queues for TLC. |
| `ErrorHandler.tla` | `check_error`: which error codes count. |
| `Transport.tla` | What a frame is worth to `read_sync`, and the errors reads and writes can end with. |
| `SegmentServer.tla` | The server with its sessions, session manager, handlers and operator, in the synchronous mode that both programs use. |
| `SegmentServerProofs.tla` | Theorems about `SegmentServer` for every value of its constants. |
| `SegmentClient.tla` | The client and the loop of its program, in the synchronous mode, over the abstract `TaskQueue` that `Worker` implements (`MainWorker == INSTANCE TaskQueue WITH ...`). |
| `SegmentClientProofs.tla` | Theorems about `SegmentClient` for every value of its constants. |
| `Frames.tla` | One direction of a connection, word by word (32 bits), in both modes, with any number of writers. With one writer in the synchronous mode it implements `Channel` (`Line == INSTANCE Channel WITH ...`). |
| `FramesProofs.tla`, `LineProofs.tla` | Theorems about `Frames`: any number of writers; and the synchronous mode while one writer is alone, with the refinement. |
| `Messages.tla` | `core/message`, `core/message_handler`, `core/request_response_handler` as operators. |
| `Connection.tla` | A client and a session of the server: two instances of `Frames` (`Up`, `Down`) over two sockets, `Messages` on top, the two users, `sessionWork` and the client's read task. |
| `ConnectionProofs.tla` | The composition is `Frames` in each direction; the theorems of `Frames` about it. |
| `ConversationProofs.tla` | What is said over the connection: types, requests, replies and texts, end to end. |
| `MCConnection.tla` | What the two users type and how long the frames are, for TLC. |
| `Programs.tla` | `server/main.cpp` and `client/main.cpp` over `core/configuration_handler`: any number of programs of both kinds on one host. |
| `ProgramsProofs.tla` | Theorems about `Programs` for every value of its constants. |
| `MCPrograms.tla` | Configurations, for TLC. |

`SegmentServer` and `SegmentClient` look at the threads of one program and take a
frame as one step; `Connection` looks at the bytes between two of them; `Programs`
looks at what starts and stops them. Each is as detailed as its properties need,
so that every one of them can be checked.

### Worker

| In the code | In the model |
|---|---|
| `Worker::status`, `tasks`, `current_task`, `thread` | `status`, `tasks`, `current_task`, `thread` (not null) |
| the position of the thread in `runThreadTask` | `wpc`: `loop` (line 120), `lock` (121, or awake in 122), `asleep` and `expired` (122), `running` (144), `exited`, `none` |
| the position of a caller | `pc`: `stop`, `stop_clear` (48), `flush` (70), `notify` (75), `drain`, `asleep` (78), `join` (58, 83), `free` (members destroyed), `gone` |
| `mutex_tasks_data` | no variable: the thread holds it while it runs a task (`MutexFree == wpc # "running"`), every other critical section is one action |
| `Task::status` | `taskStatus` |

`start` sets the status and makes the thread in one step (worker.cpp:38-39): the
thread finds the same status as it would a moment later, and nobody but the
controller that is inside `start` can look at `thread`. `dropped`, `aborted` are
history variables: the tasks that were ignored or cleared, and whether
`std::terminate` was reached. `start`, `stop` and `~Worker` from two threads at
once are a data race on `thread`, so `CallsAssumption` lets several threads call
`flush` only; one thread may make all calls in every order.

### SegmentServer

| In the code | In the model |
|---|---|
| `isWork`, `multiConnect`, `sessionMap`, `criticalError` | same names |
| the thread that calls `start`, `stop`, `write`, `disconnect` | `owner`, with `target` (the session it writes to) and `snapshot` (`copy_map`) |
| the task of `mainWorker` (segment_server.cpp:45-62) | `acceptLoop`, with `cur`, the id of its round |
| `sessionWork(id)` in the session's `Worker` | `reader[id]`: `ready` while the task waits in the worker's queue, `get` when it was taken and its session is looked for |
| the acceptor, the sockets | `acceptorOpen`, `socket[id]` |
| the clients | `peerClosed[id]`, the actions `ClientConnects`, `Receive`, `PeerCloses` |

A session is its id. The steps are those of the code where another thread can
see the difference. A read that fails removes the session (`EndRead`), the
callback sets `criticalError` (`ReadFailed`, with `SetError`) and then
disconnects (`ReaderDisconnects`); an operator's write that fails takes the same
three steps (`OperatorWrite`, `OperatorWriteFailed`, `WriteDisconnects`). `start`
sets `isWork` (`SetIsWork`) after the accept loop was handed over (`Start`);
`stop` is six steps. The `Worker`s are used through what `Worker.tla` shows of
them: an accepted task runs once, `flush` returns when it has ended, and a
flushed worker ignores tasks.

The operator disconnects any id (`OperatorDisconnect`): neither
server/main.cpp:179-183 nor `SegmentServer::disconnect` looks whether the session
exists. When it does not, a null session is dereferenced, which is taken to end
the process (`Crash`), as in `RefuseNull`; this can happen in every run in which
the operator has `"disconnect"` among his `Commands`, with `multiConnect` or not.

`Disconnect` is nondeterministic where the operating system decides: shutting
down a socket whose peer has gone may be an error, which removes the session. It
is one step: between the shutdown, the removal and the close
(connect_handler.cpp:83-90) the socket gives every other thread the errors that
a closed one would. A reader whose task ended by an exception is `"threw"`: its
thread is over (`Over`) though its session is still in the map. Frames are
members of `Inputs`, one per path of `read_sync`. `peerClosed[id]` means that
the peer has closed and what it sent before has been read. An accept fails only
because the acceptor was closed (other failures, such as too many open files,
are left out).

### SegmentClient

| In the code | In the model |
|---|---|
| `isWork`, `criticalError` | same names |
| the thread of `client/main.cpp` | `owner`; `inStart` says that the `stop` it is in was called by `on_connect`, inside `start` |
| the read task (segment_client.cpp:34-38) | `reader`, `none` while it does not run |
| `mainWorker` | `mode`, `queue`, `running`, `result`, `lost` of `TaskQueue`; task n is the read task of the n-th start |
| the socket, the server | `socket`, `serverClosed`, the actions `Connect`, `ConnectFails`, `Receive`, `ServerCloses` |

`start` is `Start`, `Connect` and `AddReadTask`; a connect that fails is
`ConnectFails`, then the `Flush` and `FlushReturns` of the nested `stop`, then
`AddReadTask`, which mainWorker refuses. The client installs no error handler,
so `Disconnect` has no effect but on the socket.

### Frames, Connection and Messages

| In the code | In the model |
|---|---|
| a frame: magic, length, payload, three buffers of one write (transport_handler.cpp:172-175) | `Size[f] + 2` words of 32 bits of frame `<<w, n>>`, the n-th that w writes; word 1 is the magic, word 2 the length |
| the call of `write` for a frame | `progress[f]`: `none`, `started`, `reported` (onAllWrite), `failed`; `written[f]`, how many of its words were sent |
| the byte stream | `wire`, all words that were ever written; `pos`, how many of them were taken |
| the reads under way | `reads`: each is for a header or for the payload a header announced, with the number of words it needs and those it has got |
| onAllRead without an error | `received` |
| `json_len` of an asynchronous write | a word in place 0: some length |
| the two sockets | `writerOpen`, `readerOpen`; in `Connection` `clientOpen` and `serverOpen`, swapped between `Up` and `Down` |
| `sessionWork` between its read and its reply | `unanswered`, `replies` |

The socket takes a frame in as many pieces as it likes, and nothing keeps two
calls of `write` apart, so the words of two writers may mix anywhere, also inside
a header. The reader does with them what the code does: it takes two words for a
header, ends with "Incorrect Magic" when the first is no magic number, and takes
as many words for the payload as the second says. A second word that is not a
length gives one of `Lengths`. If what it takes is exactly one frame's payload,
that frame is delivered, whatever header went before; otherwise it is no JSON
("syntax", which is not counted, or a code that is) or happens to be a document
(`Mixture`). So a torn stream can end with "Incorrect Magic", it can leave the
reader waiting for bytes that nobody sends (run `connection_torn`), and a length
can end exactly at the beginning of a later frame, so that the frames in between
are skipped and the session goes on. `Whole(n)` says that the first n words are
frames one after the other; what is claimed of the order of frames is claimed as
long as `Whole(pos)`, the words that were read. `lasts` is a history variable:
where the frames were completed.

The abstractions: a stream is cut between words of 32 bits only and payloads are
whole words; the size of a frame does not depend on what it says; no other word
looks like the magic number; `resize` to a length that is none neither throws
nor runs out of memory; a `Mixture` that the server is given is taken for a line
of the client or for no message (`readings`), and one without `"type"` throws,
which is left to `SegmentServer`. `Capacity` is how many words the sockets hold:
beyond it a write blocks. In the synchronous mode `sessionWork` reads again only
when its reply was written (`Replied`).

A JSON document of `Messages` is its type, its transaction number and the set of
its other fields; the values are one token, `"data"`, or `"none"`.

### Programs

| In the code | In the model |
|---|---|
| the configuration file of a kind | `file[kind]`: absent, no JSON, JSON but no object, or an object with the fields of a kind (or neither) and its entries |
| main and `getData`, by program | `pc`: `read` (readFileJson), `open` and `write` (writeFileJson), `build`, `start` (allStart), `connect`, `outer`, `inner`, `getline`, `stop` (allStop), `return`; `gave_up`, `denied`, `killed` are the three ways to end by an exception |
| `root` of `getData` | `config` |
| the iteration over `servers` | `todo` |
| `running`, cleared by the signal handler | `running` |
| a server that works | a member of `listening`: its program, port, magic number and the TCP port `at` that its acceptor has, -1 when `bind` failed |
| the connection of a client | `link`: to which server, and what has come of it |

`saw` (what `getData` has read), `entered` (a line was read) are history
variables; `eof` says whether stdin is at its end. A port is a JSON number that
the endpoint cuts to 16 bits (`TcpPort`). A magic number of 0 is not set
(segment_server.cpp:42-43), and what the program uses then is undefined, so both
outcomes are possible. `Crash` is a kill at any point; `UserEdits` may happen
between any two steps.

## 3. Runs

| Run | Expect | What it shows |
|---|---|---|
| `worker_calls` | pass | Every order of `start`, `stop`, `stop(true)`, `flush`, `~Worker` by one thread, a given queue of two tasks and two more that are submitted: `TaskAccounting`, `OpenHasThread`, `NoTerminate`, `StopIsQuiescent`, `FlushReturnsDrained`, the refinement `ImplementsTaskQueue`; and under fairness `AcceptedTaskEnds`, `FlushReturnsIfServed`, `StopReturns`. |
| `worker_flushers` | pass | Two threads in `flush` at once: one joins (`OneJoiner`), both return. Deadlock is checked. |
| `worker_hang` | violation | `FlushReturns`: `flush` after `stop(false)` left a task waits for ever (worker.cpp:77-80). |
| `server_multi` | pass | Two starts, every input, the operator writes to sessions and disconnects any id: `OpenSocketOwned`, `FailedSessionGone`, `StopLeavesLastAccepted`, `ClientServed`, `StopTerminates`, `PeerCloseNoticed`. Deadlock is checked. |
| `server_single` | pass | Without `multiConnect`, three clients and an operator who disconnects any id: `OneSessionRead`. Deadlock is checked. |
| `server_crash` | violation | `NoCrash`: `stop` without `multiConnect` while two sessions are in the map; the aborted accept leads to `disconnect` of a null session (segment_server.cpp:108-109). |
| `server_zombie` | violation | `PeerCloseRemoves`: a document without `"type"` ends the reader by an exception (transport_handler.cpp:101). |
| `server_race` | violation | `ServingAccepts`: the accept loop tests `isWork` before `start` sets it (segment_server.cpp:46 and 63). |
| `client` | pass | Two starts that connect or not, every input, writes, `disconnect`, `stop`, a server that closes at any moment: `StoppedQuietly`, `ReadsUntilRestart`; under fairness `CallsReturn`, `ErrorEndsReader`. Deadlock is checked. |
| `connection` | pass | Both modes, two lines of the client, one of the operator: `NothingInvented`, `InOrder`, `AnswersMatch`, `TextArrives`, `TornNeedsTwoWriters`, the refinement `UpIsChannel`; under fairness `RequestsAnswered`. Deadlock is checked. |
| `connection_torn` | violation | `EveryRequestAnswered`: README.md:393 says that the server returns an answer, which the client displays. The headers of the reply and of an operator's line mix, the client takes a magic number for `json_len` and waits for that many bytes (transport_handler.cpp:86-87, 173-175), while both sockets stay open. |
| `programs` | pass | Two programs of the server over one file and a client, edits, signals and kills: `GivesUpOnlyOnUser`, `ServedAsConfigured`, `ReturnsQuietly`, `ObjectsAreKept`; under fairness `SignalEnds`. Deadlock is checked. |

More disagreements were seen while modelling and have no run of their own.
README.md:129 says of `multiConnect` that, if false, the new client disconnects
the previous one; the loop disconnects the session it has just accepted and
keeps the previous one (segment_server.cpp:49-50, `Refuse`). README.md:408 says
that sessions are removed when the client is disconnected, but a session that a
server without `multiConnect` refuses stays in the map, and one that the
operator disconnects between two reads is polled for ever, because `read`
returns without an error when the socket is closed (session.cpp:130). A client
that is started again connects but does not read, since mainWorker stays in
Flush and `criticalError` is never reset (`ReadsUntilRestart` without `starts =
1` fails; README.md:123 promises the reading thread, not a restart). A second
caller of `flush` returns at once (worker.cpp:71, `FlushReturnsDrained` fails
with two controllers). The operator's `disconnect` of a session that has gone,
or of an id that never was, dereferences null too, with `multiConnect` as
without (`NoCrash` fails in `server_multi`, which does not list it).
`test_worker.cpp:107` expects `getSizeQueue() = 1` after `stop(false)`; that
holds only when the thread has not yet taken the task, as `stop` waits for one
that runs and the size is then 0.

README.md:133-135 and 400 say that both modes work and that the programs can be
switched to the asynchronous one easily. In that mode `addSession` returns at
once and the accept loop spins (segment_server.cpp:46-48), `sessionWork` starts
reads that take each other's headers and payloads, and an asynchronous write
sends a length from a stack frame that may be gone (transport_handler.cpp:174):
of what `Connection` says of frames only `NothingInvented` is claimed there.
README.md:385 says that a client without arguments connects to 127.0.0.1:8000;
main returns 1 (client/main.cpp:28-31). A file of the user with a mistake in its
JSON is replaced by the default configuration, which a test asks for. A server
whose configuration has no ports runs with nothing to do, a `bind` that fails
leaves a server on a port nobody knows, and a client whose server is gone keeps
reading lines, at the end of stdin without a pause, since only `stop` and a
failed connect clear `isWork`.

**Bounds.** Worker: four tasks, two in the initial queue, are enough for a
running task, a queued one, one that is cleared and one that is submitted to a
closed queue at the same time; calls are not bounded, so every sequence of calls
is covered up to the tasks. Two callers of `flush` are enough for `OneJoiner`,
which speaks of pairs. Server: ids are `1..MaxId`, and the last one can only be
waiting in accept, so `MaxId = 3` gives two clients and a pending accept, `MaxId
= 4` three (a session being read, one refused and one more); `MaxStarts = 2`
allows one restart (228,382 distinct states). `server_single` has one start and
an operator who disconnects but does not write (1,160,428 distinct states); his
failed writes are steps of `server_multi`, and theorem `OneServed` has all of
them. Client: `MaxStarts = 2` too, which covers every pair of a start that
connects or fails and what came before it. Frames, peers and operator commands
are not bounded. Connection: two lines of the client and one of the operator are
the fewest with a pair of frames of one writer, to see order and gaps, beside a
frame of another writer, to see tearing. Every payload has one word, and the
operator's has three, which is the length of a whole reply, so that a reader
that takes a reply for that payload finds the next header in its place; a length
that is none is more than there will ever be (`MCSize`, `MCLengths`). `MaxReads
= 2` overlaps reads; `Capacity = 1` is the tightest, where every second word
blocks its writer, so that waiting in a circle would show. The server may
disconnect at any moment, the client does so only when a read or write fails
(`Closers`). In the asynchronous mode the client types two texts, whose reads
overlap, and no replies are made (246,610 distinct states); overlapping replies
and other sizes, capacities and numbers of lines are left to the theorems.
`connection_torn` needs one line of each user. Programs: two programs of a kind
are the fewest that share a file and a port; two events give every pair of an
edit, a signal and a kill; two launches run two programs at once or one twice.
The configuration has two entries for one port, a third that is the same in 16
bits, and a magic number that is not set (254,226 distinct states).

**Fairness.** Every thread that can run does run: weak fairness of the worker's
thread, of the calls in progress, of the owner, the accept loop and each reader;
in the client of the owner's calls in progress and of the read task, where a
connect is answered or refused. No call, command, connection, frame or close is
fair. A reader waiting on an open socket whose client is silent has no step, so
nothing is assumed of it; `recv` on a socket that is closed at either end
returns an error. Tasks end (`Finish` is fair): a task of the server ends when
`sessionWork` does, which is what `StopTerminates` is about. In `Connection` the
threads of `sessionWork` and of the client's read task and the writes that have
begun are fair, each only while the sockets let it go on; the users need not
type and nobody need disconnect. In `Programs` main is fair wherever it does not
wait for a line, and `getline` returns when stdin is at its end (`eof`);
otherwise a signalled program may wait for a line for ever, which is what the
code does.

## 4. Proofs

`WorkerProofs.tla` holds, for every `Tasks`, `NoTask`, `Controllers`, `Calls`
and `Preset` that the three assumptions of `Worker` allow:

* `Invariance`: `Spec => []IInv`, and from it `TypeCorrect`, `TasksAccounted`,
  `OpenServed`, `NeverTerminates`, `JoinedOnce`, `StopQuiescence`;
* `FlushDrains`: with one controller, `flush` returns only when no accepted task
  is queued or running;
* `NoWakeupLost`: no queued task, and no caller of `stop` or `flush`, waits for a
  worker that sleeps on the condition variable, and a caller that sleeps in
  `flush` has a task left to wait for, so no call needs the timer of `wait_for`.
  What it does not exclude is a `flush` that waits for a thread which no call has
  started (run `worker_hang`);
* `TasksEndOnce`: a task that has ended keeps its result and is never the current
  task again, across any number of stops and starts;
* `Refinement`: `Spec => ImplementsTaskQueue`.

`NobodyOversleeps` and `ResultsAreFinal`, which `NoWakeupLost` and `TasksEndOnce`
state, stand in `WorkerProofs.tla`; `WakeInv` adds to `IInv` what each
notification has done.

The safety properties are not inductive. `IInv` adds three facts:
`RunningInv` (the current task is the one that runs under the mutex, and it runs
only while the status is Work or Flush), `SleepersFlush` (a caller waits on the
condition variable only in Flush: that is why `notify_one` in `addTask` cannot
wake the wrong waiter), and `ClosingInv` (what a closed queue has left at each
stage of the call that closed it: when `flush` joins, and when the thread has
left in Flush, the queue is empty; when nobody is inside a closing call and the
queue is closed, the thread is gone). The proof has one lemma per part
(`TypeStep`, `RunningStep`, `AccountingStep`) and, for the phases, one lemma per
group of actions (`PhaseWorker`, `PhaseFinish`, `PhaseAdd`, `PhaseFlush`,
`PhaseStop`, `PhaseJoin`) joined by `PhaseStep`. Three lemmas about sequences as
sets of their elements (`AppendElements`, `TailElements`, `EmptyElements`) carry
the accounting.

`SegmentServerProofs.tla` holds, for any `MaxId` and `MaxStarts`, either value of
`multiConnect` and any inputs and commands:

* `Invariance`: `Spec => []IInv`, and from it `TypeCorrect`, `OpenOwned`,
  `FailedGone`, `StopLeaves`;
* `EveryClientServed`: while the server works every connected client is read
  from, or about to be, unless an exception has ended its reader;
* `OneServed`: without `multiConnect` one session at most is served;
* `LifeOfASession`: an id is drawn once, and a session that was closed, has failed,
  has left the map or has lost its reader never comes back (`LivesOnce`);
* `UsesTaskQueue`: the accept loop is a task of a `TaskQueue` (`MainWorker`, with
  a refinement mapping from `starts`, `owner` and `acceptLoop`), `start` and
  `stop` are the calls that it allows, and the second start's task is refused. It
  is stated up to a step that dereferences a null session, after which there is
  no worker; no theorem says that there is no such step;
* `SessionsUseTaskQueue`: the same for the worker of each session
  (`SessionWorker(id)`, an instance of `TaskQueue` for every id, with a mapping
  from `reader[id]`). Its task is handed over when the queue is new and open, so
  it is never refused, `TakeReadTask` begins it, it ends with success or by an
  exception, and `stop` drains the worker when mainWorker was flushed.

Here `IInv` adds `AcceptInv` (the accept loop beside the owner: which ids it may
be working on, and that a session that was not yet given a reader has none),
`OwnerInv` (how far `start` and `stop` have come: after the copy of the map
every open session of the map is in the copy, or is the last one accepted) and
`SessionInv` (an id that is still `Fresh` is nowhere, a session in the map or
read from was connected once, and a reader or writer that failed has taken its
session out of the map). `OpenSocketOwned` and `FailedSessionGone` are parts of
it; both allow for a thread between `criticalError` and its `disconnect`
(`Closing`). One lemma per group of actions shows that it is preserved;
`DisconnectEffect` states once what `Session::disconnect` does. For `OneServed`
the count that lets a session pass must still hold when its reader is started
(`SingleInv`); `OtherSteps` shows that no other action adds or serves a session,
and `FewerSessions` carries the cardinalities.

`SegmentClientProofs.tla` holds, for any `MaxStarts`, `TypeCorrect`,
`StopsQuietly`, `FirstStartReads` and `UsesTaskQueue` (`Spec => MainWorker!Spec`:
the two threads of the client make of mainWorker what `TaskQueue` allows, which
`Worker` implements); `CallInv` says how far `start` and `stop`
have come, and that mainWorker is idle at each point where the code relies on it.
`FirstInv` adds, for the last, that mainWorker takes the first read task, that an
error has closed the socket, and that a task that is over ended by an exception
or an error.

`FramesProofs.tla` holds for any set of writers, any number and size of frames
(`Bounded`), any reads and capacity. In both modes it has `TypeCorrect` and
`NoneInvented`; for the synchronous mode, and as long as nothing torn was read
(`Whole(pos)`), `DeliveredInOrder` and `Numbered`: the number of a frame is its
place among the arrivals of its writer. Without that condition both are false,
since a length out of a torn stream can skip frames. `IInv` has, beside the
types, three parts. `WriterInv` says which words of a frame are on the wire at
each stage of its write, each once (`Placed`, `SentOnce`, `SentOnWire`), and
that the frames of a writer are completed in order (`WireInOrder`). `ReaderInv`
says, for both modes and however torn, that each word that was taken is with one
read or was delivered (`GotPassed`, `HeldOnce`, `DeliveredPassed`,
`DeliveredOnce`). `Aligned` is the third: while `Whole(pos)`, the reader is at
the place where it believes to be (`InStep`), and what it has delivered are the
frames that were completed first (`lasts`). `Numbered` follows from `AllBefore`
and a bijection.

`LineProofs.tla` is about the synchronous mode as long as one writer at most has
begun a frame (`Alone`): then the last word of the wire is the last that writer
wrote (`AtLastWord`), the wire is whole (`LineInv`) and so the reader is in
step. So `LineIsChannel`, the refinement to `Channel`, holds when there is one
writer (`OneWriter`), and `TornByTwo`, that a stream is torn by two, for any
number. `ConnectionProofs.tla` shows in `EachDirection` that every step of
`Connection`, seen from one direction, is a step of `Frames` or a stutter (what
the other direction does can close a socket and no more, `AtMostCloses`), and
from the theorems of `Frames` about `Up` and `Down` it has `NoneInvented`,
`DeliveredInOrder`, `UpChannel` and `TornByTheServer`.

`ConversationProofs.tla` adds the words behind the frames, for any bounds and
words: `TypeCorrect`, `TextsArrive` in both modes, and `AnswersInOrder`, that
the k-th reply answers the k-th request as long as what the client read is not
torn. The invariant is `TalkInv`, kept by every step (`Conversation`) beside
what the theorems about the two directions give (`FramesInv`). `Counted` says
that the replies that were made and the messages that wait to be answered are
together as many as the requests that arrived (`Got`), in the asynchronous mode
at most as many more as documents were mixed (`Mixtures`), `InTurn` that in the
synchronous mode the k-th of them asks for what the user's k-th request did, and
`RepliesNumbered` that no reply is on the wire before it was made. The lemmas
`Conversions` and `RawConversion` follow each kind of message through
`serialize`, `createMessage` and `createResponse`. In the synchronous mode
nobody tears what the client sends, so that the lines arrive in place
(`InPlace`, `GotIs`), and the requests that arrived are those among the first
lines; and by `Numbered`, for `Down`, the k-th reply that is received is reply
number k, whatever lines of the operator lie between. The counts of the
properties (`NumberOf`, `Answers`) are cardinalities, so that no induction over
a sequence is needed.

`ProgramsProofs.tla` holds for any programs, configurations and bounds that the
three assumptions of `Programs` allow: `OnlyOnUser`, `KeptObjects`, `AsConfigured`
and `Quiet`. `IInv` says what a file and the root of `getData` can be at each
step (`FileInv`, `ReadInv`), which listeners a server program has beside those it
has still to start or to stop (`ServerInv`), and that the connection of a client
leads to a listener on the port it wanted, with its magic number once it was
answered (`ClientInv`). A step of one program can disturb only that program's
part: `OthersKeep` says so for steps that take no listener away and
`OthersKeepWhenEnding` for those that do.

Every safety invariant and every action property of the passing runs is stated
by a theorem. Only model-checked is liveness, since fairness and ENABLED are
beyond the prover: `AcceptedTaskEnds`, `FlushReturnsIfServed`, `StopReturns`,
`StopTerminates`, `PeerCloseNoticed`, `CallsReturn`, `ErrorEndsReader`,
`RequestsAnswered` and `SignalEnds`. With these theorems and `Refinement` of
`WorkerProofs` every `Worker` of the two programs is tied to the same contract:
`Worker` implements `TaskQueue`, and the server and the client make of it what
`TaskQueue` allows.

## 5. Not modelled

* The asynchronous accept loop: `addSession` in the asynchronous mode
  (session.cpp:38, every call overwrites the accept handler of the accepts that
  are pending) and `io_context_handler`. No program sets that mode, and what its
  loop does depends on how fast it spins against the io_context.
* The order in which the members of `SegmentServer` are destroyed (the io_context
  goes before the sockets) and the cycle session - on_accept - session: they are
  about lifetimes of C++ objects, which none of the modules have.
* `broadcast` of the server's main, beyond the writes it consists of, `list` and
  `help`, which print.
* Data races that are undefined behaviour in the middle of a standard container
  or of a `std::function` (`sessionMap.find` without the mutex,
  session_manager.cpp:47 and 67; `on_all_write` set by two threads,
  session.cpp:137). Every access is atomic in the model.
* Payloads of 4 GiB, whose length does not fit the header, the memory a length
  makes the reader allocate, and the random data of `createResponse`.
* `handler_invoker`, the logger, the interfaces and the factories keep no state
  that changes, or none a property is about.

What is left to do: the asynchronous accept loop, should a program use it.
