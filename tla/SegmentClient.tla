--------------------------- MODULE SegmentClient ---------------------------
(***************************************************************************)
(* client/segment_client and the loop of client/main.cpp over core/session,*)
(* in the synchronous mode. Two threads share the session: the owner, that *)
(* calls start, write, disconnect and stop, and the thread of mainWorker,  *)
(* that runs the read task (segment_client.cpp:34-38).                     *)
(*                                                                         *)
(* mainWorker is used through TaskQueue, which Worker implements: addTask  *)
(* is Submit or Refuse, the thread Begins and Ends a task, flush is Drain  *)
(* and returns when the queue is empty and no task runs. Task n is the     *)
(* read task of the n-th start.                                            *)
(***************************************************************************)
EXTENDS Naturals, Sequences, Transport

CONSTANTS
    MaxStarts,      \* bound: how often start is called
    Inputs          \* what the server sends, a subset of AllInputs

ASSUME StartsAssumption == MaxStarts \in Nat
ASSUME InputsAssumption == Inputs \subseteq AllInputs

VARIABLES
    isWork,         \* SegmentClient::isWork
    starts,         \* history: how often start was called
    owner,          \* where the owner is
    inStart,        \* its stop was called by on_connect, inside start
    socket,         \* the socket of the session
    serverClosed,   \* the server has closed its end of the connection
    criticalError,  \* Session::criticalError
    reader,         \* where the read task is, "none" when it does not run
    mode, queue, running, result, lost      \* mainWorker

sessionVars == <<socket, serverClosed, criticalError>>
workerVars  == <<mode, queue, running, result, lost>>
vars == <<isWork, starts, owner, inStart, sessionVars, reader, workerVars>>

MainWorker == INSTANCE TaskQueue WITH Tasks <- 1..MaxStarts, NoTask <- 0, Preset <- <<>>

Init ==
    /\ isWork = FALSE
    /\ starts = 0
    /\ owner = "idle"
    /\ inStart = FALSE
    /\ socket = "none"
    /\ serverClosed = FALSE
    /\ criticalError = FALSE
    /\ reader = "none"
    /\ MainWorker!Init

-----------------------------------------------------------------------------
(* The session.                                                              *)

\* Session::disconnect. The client installs no error handler, so a shutdown
\* that fails changes nothing else.
Disconnect == socket' = IF socket = "open" THEN "closed" ELSE socket

\* The end of a failed read or write: criticalError = true; disconnect().
Fail == criticalError' = TRUE /\ Disconnect /\ UNCHANGED serverClosed

-----------------------------------------------------------------------------
(* The owner.                                                                *)

OwnerStep(from, to) == owner = from /\ owner' = to
\* A step that changes nothing else.
OwnerGo(from, to) ==
    /\ OwnerStep(from, to)
    /\ UNCHANGED <<isWork, starts, inStart, sessionVars, reader, workerVars>>

\* start, up to connect.
Start ==
    /\ starts < MaxStarts
    /\ OwnerStep("idle", "connect") \/ OwnerStep("stopped", "connect")
    /\ starts' = starts + 1
    /\ isWork' = TRUE
    /\ UNCHANGED <<inStart, sessionVars, reader, workerVars>>

Connect ==
    /\ OwnerStep("connect", "add_task")
    /\ socket' = "open"
    /\ serverClosed' = FALSE
    /\ UNCHANGED <<isWork, starts, inStart, criticalError, reader, workerVars>>

\* No connection. on_connect calls stop whether or not check_error counts the
\* code; either the connect handler or stop closes the socket.
ConnectFails ==
    /\ OwnerStep("connect", "flush")
    /\ inStart' = TRUE
    /\ isWork' = FALSE
    /\ socket' = "closed"
    /\ UNCHANGED <<starts, serverClosed, criticalError, reader, workerVars>>

\* mainWorker.addTask at the end of start; the program goes on while getIsWork.
AddReadTask ==
    /\ OwnerStep("add_task", IF isWork THEN "serving" ELSE "stopped")
    /\ MainWorker!Submit(starts) \/ MainWorker!Refuse(starts)
    /\ UNCHANGED <<isWork, starts, inStart, sessionVars, reader>>

\* A write that succeeds changes nothing.
WriteFails ==
    /\ owner = "serving"
    /\ \E ec \in WriteErrors(socket, serverClosed) : check_error(ec)
    /\ Fail
    /\ UNCHANGED <<isWork, starts, owner, inStart, reader, workerVars>>

\* SegmentClient::disconnect, which leaves isWork as it is.
CallDisconnect ==
    /\ owner = "serving"
    /\ socket = "open"
    /\ Disconnect
    /\ UNCHANGED <<isWork, starts, owner, inStart, serverClosed, criticalError, reader,
                   workerVars>>

Stop ==
    /\ OwnerStep("serving", "disconnect")
    /\ isWork' = FALSE
    /\ UNCHANGED <<starts, inStart, sessionVars, reader, workerVars>>

\* Mutation: stop does not disconnect.
StopKeepsOpen == OwnerGo("disconnect", "flush")
StopDisconnects ==
    /\ OwnerStep("disconnect", "flush")
    /\ Disconnect
    /\ UNCHANGED <<isWork, starts, inStart, serverClosed, criticalError, reader, workerVars>>

\* mainWorker.flush; a worker that was flushed before returns from it at once.
Flush ==
    /\ OwnerStep("flush", "wait")
    /\ IF mode = "draining" THEN UNCHANGED workerVars ELSE MainWorker!Drain
    /\ UNCHANGED <<isWork, starts, inStart, sessionVars, reader>>

\* stop returns, to the program or to start.
FlushReturnsWhen(cond) ==
    /\ OwnerStep("wait", IF inStart THEN "add_task" ELSE "stopped")
    /\ cond
    /\ inStart' = FALSE
    /\ UNCHANGED <<isWork, starts, sessionVars, reader, workerVars>>
\* Mutation: the running task is not waited for.
FlushReturnsEarly == FlushReturnsWhen(queue = <<>>)
FlushReturns == FlushReturnsWhen(queue = <<>> /\ running = 0)

-----------------------------------------------------------------------------
(* The read task.                                                            *)

ReaderStep(from, to) ==
    /\ reader = from
    /\ reader' = to
    /\ UNCHANGED <<isWork, starts, owner, inStart>>
\* A step that changes nothing else.
ReaderGo(from, to) == ReaderStep(from, to) /\ UNCHANGED <<sessionVars, workerVars>>

TakeTask == ReaderStep("none", "loop") /\ MainWorker!Begin /\ UNCHANGED sessionVars

\* Mutation: the task that ended is still the current one.
EndTaskKeepsCurrent(from, r) ==
    /\ ReaderStep(from, "none")
    /\ result' = [result EXCEPT ![running] = r]
    /\ UNCHANGED <<sessionVars, mode, queue, running, lost>>
EndTask(from, r) == ReaderStep(from, "none") /\ MainWorker!End(r) /\ UNCHANGED sessionVars

\* Mutation: the comparison with criticalError is inverted.
LoopEndsInverted == (~isWork \/ ~criticalError) /\ EndTask("loop", "Success")
\* Mutation: the loop goes on after an error.
LoopEndsOnStop == ~isWork /\ EndTask("loop", "Success")
LoopEnds == (~isWork \/ criticalError) /\ EndTask("loop", "Success")
LoopHead == isWork /\ ~criticalError /\ ReaderGo("loop", "read")

\* Session::read reads nothing when the socket is closed.
BeginRead == ReaderGo("read", IF socket = "open" THEN "recv" ELSE "loop")

\* The read ends with an error code: the session fails, or the loop goes on.
EndRead(ec) ==
    /\ ReaderStep("recv", "loop")
    /\ IF check_error(ec) THEN Fail ELSE UNCHANGED sessionVars
    /\ UNCHANGED workerVars

Receive(input) ==
    /\ socket = "open"
    /\ ~serverClosed
    /\ IF Throws(input) THEN EndTask("recv", "Error") ELSE EndRead(FrameError(input))

ReadError == \E ec \in SocketErrors(socket, serverClosed) : EndRead(ec)

-----------------------------------------------------------------------------
(* The server.                                                               *)

ServerCloses ==
    /\ socket = "open"
    /\ ~serverClosed
    /\ serverClosed' = TRUE
    /\ UNCHANGED <<isWork, starts, owner, inStart, socket, criticalError, reader, workerVars>>

-----------------------------------------------------------------------------
OwnerContinues ==
    Connect \/ ConnectFails \/ AddReadTask \/ StopDisconnects \/ Flush \/ FlushReturns

Reader == TakeTask \/ LoopEnds \/ LoopHead \/ BeginRead \/ ReadError

AllStopped ==
    /\ owner = "stopped" /\ starts = MaxStarts
    /\ UNCHANGED vars

Next ==
    \/ Start \/ WriteFails \/ CallDisconnect \/ Stop \/ OwnerContinues
    \/ Reader
    \/ \E input \in Inputs : Receive(input)
    \/ ServerCloses
    \/ AllStopped

\* The threads run, a connection is made or refused, and a read ends once the
\* socket is closed at either end; nobody is obliged to start, write or stop.
Fairness == WF_vars(OwnerContinues) /\ WF_vars(Reader)

Spec == Init /\ [][Next]_vars
FairSpec == Spec /\ Fairness

-----------------------------------------------------------------------------
(* Properties.                                                               *)

OwnerLabels == {"idle", "connect", "add_task", "serving", "disconnect", "flush", "wait",
                "stopped"}

\* The variables have their types, and the read task is somewhere in its loop
\* exactly while mainWorker runs it.
TypeOK ==
    /\ isWork \in BOOLEAN
    /\ starts \in 0..MaxStarts
    /\ owner \in OwnerLabels
    /\ inStart \in BOOLEAN
    /\ socket \in {"none", "open", "closed"}
    /\ serverClosed \in BOOLEAN
    /\ criticalError \in BOOLEAN
    /\ reader \in {"none", "loop", "read", "recv"}
    /\ mode \in {"open", "draining"}
    /\ queue \in Seq(1..MaxStarts)
    /\ running \in 0..MaxStarts
    /\ reader = "none" <=> running = 0

\* When stop has returned, to the program or inside a start that could not
\* connect, the session is closed and nobody reads from it or ever will:
\* whatever failed, disconnected or threw before.
StoppedQuietly ==
    owner = "stopped" => socket # "open" /\ running = 0 /\ queue = <<>> /\ ~isWork

\* From the first start on, until an exception in a read, a client that is
\* connected has a thread that reads from it or is about to
\* (README.md:123). A second start breaks this: mainWorker stays in Flush.
ReadsUntilRestart ==
    owner = "serving" /\ socket = "open" /\ starts = 1 /\ result[1] # "Error" =>
        queue # <<>> \/ running # 0

\* stop returns, and start too, when it calls stop from its own callback.
CallsReturn == (owner \notin {"idle", "serving", "stopped"}) ~> (owner \in {"serving", "stopped"})

\* An error of the reader or of the writer, on either thread, ends the read
\* task: it does not spin on a session that has failed.
ErrorEndsReader == criticalError ~> (running = 0)
=============================================================================
