--------------------------- MODULE SegmentServer ---------------------------
(***************************************************************************)
(* server/segment_server over core/session, core/connection and            *)
(* core/transport_handler, in the synchronous mode, which is the one the   *)
(* programs use. Three kinds of threads share the sessions:                *)
(*                                                                         *)
(*   owner         the thread that calls start, stop and the operator's    *)
(*                 commands (server/main.cpp)                              *)
(*   acceptLoop    the task of mainWorker (segment_server.cpp:45-62)       *)
(*   reader[id]    the task of the session's own Worker, sessionWork(id)   *)
(*                                                                         *)
(* A session is known by its id; SessionManager::sessionMap is the set of  *)
(* the ids it holds. A Worker is used through what Worker.tla shows of it: *)
(* a task that was accepted is run once, flush returns when it has ended,  *)
(* and a worker that was flushed accepts no other task.                    *)
(***************************************************************************)
EXTENDS Naturals, FiniteSets, Transport

CONSTANTS
    MaxId,          \* bound: sessions 1..MaxId-1 can be connected
    MaxStarts,      \* bound: how often start is called
    multiConnect,   \* SegmentServer::multiConnect
    Inputs,         \* what the clients send, a subset of AllInputs
    Commands        \* what the operator does, a subset of AllCommands

\* The operator writes to sessions and disconnects them, by any id.
AllCommands == {"write", "disconnect"}

ASSUME BoundsAssumption == MaxId \in Nat \ {0} /\ MaxStarts \in Nat
ASSUME ModeAssumption == multiConnect \in BOOLEAN
ASSUME EnvironmentAssumption == Inputs \subseteq AllInputs /\ Commands \subseteq AllCommands

Ids == 1..MaxId

VARIABLES
    isWork,         \* SegmentServer::isWork
    starts,         \* history: how often start was called
    owner,          \* where the owner is
    target,         \* the session the owner is writing to
    snapshot,       \* copy_map of stop, less the sessions already disconnected
    acceptorOpen,   \* the acceptor accepts connections
    acceptLoop,     \* where the task of mainWorker is
    cur,            \* the ID of the accept loop's current round, 0 before the first
    sessionMap,     \* SessionManager::sessionMap
    socket,         \* of each session
    peerClosed,     \* the client has closed its end
    criticalError,  \* Session::criticalError
    reader          \* where sessionWork of each session is

ownerVars   == <<isWork, starts, owner, target, snapshot>>
acceptVars  == <<acceptorOpen, acceptLoop, cur>>
sessionVars == <<sessionMap, socket, peerClosed, criticalError>>
vars == <<ownerVars, acceptVars, sessionVars, reader>>

Init ==
    /\ isWork = FALSE
    /\ starts = 0
    /\ owner = "idle"
    /\ target = 0
    /\ snapshot = {}
    /\ acceptorOpen = FALSE
    /\ acceptLoop = "none"
    /\ cur = 0
    /\ sessionMap = {}
    /\ socket = [id \in Ids |-> "none"]
    /\ peerClosed = [id \in Ids |-> FALSE]
    /\ criticalError = [id \in Ids |-> FALSE]
    /\ reader = [id \in Ids |-> "none"]

-----------------------------------------------------------------------------
(* Session and SessionManager.                                               *)

\* Session::disconnect. Shutting down a socket that the client has reset is an
\* error, and the error handler of the session removes it from the map. One step:
\* the socket that is shut down and not yet closed gives no thread what a closed
\* one would not.
Disconnect(id) ==
    /\ socket' = [socket EXCEPT ![id] = IF @ = "open" THEN "closed" ELSE @]
    /\ \/ sessionMap' = sessionMap
       \/ socket[id] = "open" /\ peerClosed[id] /\ sessionMap' = sessionMap \ {id}

\* The end of a failed read or write, first half: criticalError = true. The
\* thread disconnects the session in its next step.
SetError(id) ==
    /\ criticalError' = [criticalError EXCEPT ![id] = TRUE]
    /\ UNCHANGED <<socket, sessionMap>>

\* Mutation: addSession installs no error handler.
RemoveNever(id, ec) == sessionMap' = sessionMap

\* errorHandler of TransportHandler, or its like in write: the error handler
\* that addSession installs removes the session.
RemoveOnError(id, ec) ==
    sessionMap' = IF check_error(ec) THEN sessionMap \ {id} ELSE sessionMap

\* A null session is dereferenced: the process ends, and its sockets with it.
Crash ==
    /\ owner' = "crashed"
    /\ acceptLoop' = "crashed"
    /\ reader' = [id \in Ids |-> "crashed"]
    /\ socket' = [id \in Ids |-> IF socket[id] = "open" THEN "closed" ELSE socket[id]]
    /\ acceptorOpen' = FALSE
    /\ UNCHANGED <<isWork, starts, target, snapshot, cur, sessionMap, peerClosed,
                   criticalError>>

-----------------------------------------------------------------------------
(* The owner: start, stop and the operator's commands.                       *)

\* ~SessionManager of the previous run disconnects and removes its sessions; it
\* has taken their error handlers away, so no removal comes back from them.
ReplaceSessionManager ==
    /\ sessionMap' = {}
    /\ socket' = [id \in Ids |->
                    IF id \in sessionMap /\ socket[id] = "open" THEN "closed" ELSE socket[id]]

\* start up to mainWorker.addTask. mainWorker is in Flush since the last stop, so
\* it ignores the task of a second start.
Start ==
    /\ owner \in {"idle", "stopped"}
    /\ starts < MaxStarts
    /\ starts' = starts + 1
    /\ acceptorOpen' = TRUE
    /\ ReplaceSessionManager
    /\ acceptLoop' = IF acceptLoop = "none" THEN "queued" ELSE acceptLoop
    /\ owner' = "starting"
    /\ UNCHANGED <<isWork, target, snapshot, cur, peerClosed, criticalError, reader>>

\* The owner goes on; of the session and accept variables nothing changes.
OwnerGo(from, to) ==
    /\ owner = from
    /\ owner' = to
    /\ UNCHANGED <<starts, target, acceptLoop, cur, sessionVars, reader>>

\* isWork is set after the task was handed to mainWorker (line 63).
SetIsWork ==
    /\ OwnerGo("starting", "serving")
    /\ isWork' = TRUE
    /\ UNCHANGED <<snapshot, acceptorOpen>>

\* <port>;<id>;<message>. Nothing happens when the session is not found.
OperatorWrite(id) ==
    /\ owner = "serving"
    /\ "write" \in Commands
    /\ id \in sessionMap
    /\ \E ec \in WriteErrors(socket[id], peerClosed[id]) :
         /\ check_error(ec)
         /\ RemoveOnError(id, ec)
    /\ owner' = "write_failed"
    /\ target' = id
    /\ UNCHANGED <<isWork, starts, snapshot, acceptVars, socket, peerClosed,
                   criticalError, reader>>

OperatorWriteFailed ==
    /\ owner = "write_failed"
    /\ SetError(target)
    /\ owner' = "write_disconnect"
    /\ UNCHANGED <<isWork, starts, target, snapshot, acceptVars, peerClosed, reader>>

AfterWriteFailed ==
    /\ owner = "write_disconnect"
    /\ owner' = "serving"
    /\ UNCHANGED <<isWork, starts, target, snapshot, acceptVars, peerClosed,
                   criticalError, reader>>
\* Mutation: the operator's write leaves the session that failed open.
WriteKeepsOpen == AfterWriteFailed /\ UNCHANGED <<sessionMap, socket>>
WriteDisconnects == AfterWriteFailed /\ Disconnect(target)

\* <port>;<id>;disconnect, for any id: neither main.cpp nor
\* SegmentServer::disconnect looks whether there is such a session.
OperatorDisconnect(id) ==
    /\ owner = "serving"
    /\ "disconnect" \in Commands
    /\ \/ /\ id \in sessionMap
          /\ Disconnect(id)
          /\ UNCHANGED <<ownerVars, acceptVars, peerClosed, criticalError, reader>>
       \/ id \notin sessionMap /\ Crash

\* stop, step by step: isWork, the acceptor, the copy of the map, the count.
Stop ==
    /\ OwnerGo("serving", "close_acceptor")
    /\ isWork' = FALSE
    /\ UNCHANGED <<snapshot, acceptorOpen>>

CloseAcceptor ==
    /\ OwnerGo("close_acceptor", "copy_map")
    /\ acceptorOpen' = FALSE
    /\ UNCHANGED <<isWork, snapshot>>

CopyMap ==
    /\ OwnerGo("copy_map", "count")
    /\ snapshot' = sessionMap
    /\ UNCHANGED <<isWork, acceptorOpen>>

KeepSnapshotIf(cond) ==
    /\ OwnerGo("count", "disconnect_all")
    /\ snapshot' = IF cond THEN snapshot ELSE {}
    /\ UNCHANGED <<isWork, acceptorOpen>>
\* Mutation: the sessions are disconnected when there is none.
CountInverted == KeepSnapshotIf(sessionMap = {})
CountSessions == KeepSnapshotIf(sessionMap # {})

DisconnectNext(id) ==
    /\ owner = "disconnect_all"
    /\ id \in snapshot
    /\ Disconnect(id)
    /\ snapshot' = snapshot \ {id}
    /\ UNCHANGED <<isWork, starts, owner, target, acceptVars, peerClosed,
                   criticalError, reader>>

\* mainWorker.flush returns: the accept loop has ended.
FlushMain ==
    /\ OwnerGo("disconnect_all", "flush_sessions")
    /\ snapshot = {}
    /\ acceptLoop = "ended"
    /\ UNCHANGED <<isWork, snapshot, acceptorOpen>>

\* sessionWork was not begun, or has returned, or an exception has ended it.
Over == {"none", "done", "threw"}

\* The flush of the last session worker returns.
FlushSessions ==
    /\ OwnerGo("flush_sessions", "stopped")
    /\ \A id \in Ids : reader[id] \in Over
    /\ UNCHANGED <<isWork, snapshot, acceptorOpen>>

-----------------------------------------------------------------------------
(* The accept loop.                                                          *)

AcceptStep(from, to) ==
    /\ acceptLoop = from
    /\ acceptLoop' = to
    /\ UNCHANGED <<ownerVars, acceptorOpen, peerClosed, criticalError>>
\* A step that changes nothing else.
AcceptGo(from, to) ==
    AcceptStep(from, to) /\ UNCHANGED <<cur, sessionMap, socket, reader>>

\* mainWorker takes the task.
TakeAcceptTask == AcceptGo("queued", "loop")

\* The head of the loop, which draws n ids.
DrawIds(n) ==
    /\ AcceptStep("loop", IF isWork THEN "accept" ELSE "ended")
    /\ cur' = IF isWork THEN cur + n ELSE cur
    /\ UNCHANGED <<sessionMap, socket, reader>>
\* Mutation: an id is drawn twice in a round.
AcceptLoopSkips == DrawIds(2)
AcceptLoopHead == DrawIds(1)

\* A client connects.
ClientConnects ==
    /\ acceptorOpen
    /\ cur < MaxId
    /\ AcceptStep("accept", "insert")
    /\ socket' = [socket EXCEPT ![cur] = "open"]
    /\ UNCHANGED <<cur, sessionMap, reader>>

\* The acceptor was closed. The session is not in the map, so there is nothing
\* to remove, and addSession returns as if a client had come.
AcceptAborted == ~acceptorOpen /\ AcceptGo("accept", "check_count")

InsertSession ==
    /\ AcceptStep("insert", "check_count")
    /\ sessionMap' = sessionMap \cup {cur}
    /\ UNCHANGED <<cur, socket, reader>>

RefuseIf(cond) == AcceptGo("check_count", IF cond THEN "refuse" ELSE "spawn")
\* Mutation: one session too many.
CheckCountTwo == RefuseIf(~multiConnect /\ Cardinality(sessionMap) > 2)
CheckCount == RefuseIf(~multiConnect /\ Cardinality(sessionMap) > 1)

\* SegmentServer::disconnect(ID), for the session that was just accepted.
Refuse ==
    /\ cur \in sessionMap
    /\ AcceptStep("refuse", "loop")
    /\ Disconnect(cur)
    /\ UNCHANGED <<cur, reader>>

\* The same when accept failed, or the session has left the map since.
RefuseNull ==
    /\ acceptLoop = "refuse"
    /\ cur \notin sessionMap
    /\ Crash

SpawnReader ==
    /\ AcceptStep("spawn", "loop")
    /\ reader' = IF isWork THEN [reader EXCEPT ![cur] = "ready"] ELSE reader
    /\ UNCHANGED <<cur, sessionMap, socket>>

-----------------------------------------------------------------------------
(* sessionWork of session id.                                                *)

ReaderStep(id, from, to) ==
    /\ reader[id] = from
    /\ reader' = [reader EXCEPT ![id] = to]
    /\ UNCHANGED <<ownerVars, acceptVars, peerClosed>>
\* A step that changes nothing else.
ReaderGo(id, from, to) ==
    ReaderStep(id, from, to) /\ UNCHANGED <<sessionMap, socket, criticalError>>

\* The session's Worker takes the task.
TakeReadTask(id) == ReaderGo(id, "ready", "get")

\* Mutation: the comparison with null is inverted.
GetSessionInverted(id) == ReaderGo(id, "get", IF id \in sessionMap THEN "done" ELSE "loop")
GetSession(id) == ReaderGo(id, "get", IF id \in sessionMap THEN "loop" ELSE "done")

\* Mutation: the loop of sessionWork does not look at isWork.
ReaderLoopForever(id) == ReaderGo(id, "loop", IF ~criticalError[id] THEN "read" ELSE "done")
ReaderLoopHead(id) ==
    ReaderGo(id, "loop", IF isWork /\ ~criticalError[id] THEN "read" ELSE "done")

\* Session::read reads nothing when the socket is closed.
BeginRead(id) == ReaderGo(id, "read", IF socket[id] = "open" THEN "recv" ELSE "loop")

\* The callback of Session::read asks check_error as errorHandler did. The
\* session leaves the map here and is closed by ReadFailed.
EndRead(id, ec, next) ==
    /\ ReaderStep(id, "recv", IF check_error(ec) THEN "failed" ELSE next)
    /\ RemoveOnError(id, ec)
    /\ UNCHANGED <<socket, criticalError>>

\* A frame arrives. With no "type" in it at() throws, and the Worker ends the task.
Receive(id, input) ==
    /\ socket[id] = "open"
    /\ ~peerClosed[id]
    /\ IF Throws(input)
       THEN EndRead(id, "none", "threw")
       ELSE EndRead(id, FrameError(input), IF input = "request" THEN "reply" ELSE "loop")

ReadError(id) == \E ec \in SocketErrors(socket[id], peerClosed[id]) : EndRead(id, ec, "loop")

\* createResponse, which has an answer to every message, and Session::write.
Reply(id) ==
    /\ \E ec \in WriteErrors(socket[id], peerClosed[id]) :
         /\ ReaderStep(id, "reply", IF check_error(ec) THEN "failed" ELSE "loop")
         /\ RemoveOnError(id, ec)
    /\ UNCHANGED <<socket, criticalError>>

ReadFailed(id) == ReaderStep(id, "failed", "disconnect") /\ SetError(id)

\* Mutation: a reader leaves the session that failed open.
ReaderKeepsOpen(id) ==
    ReaderStep(id, "disconnect", "loop") /\ UNCHANGED <<sessionMap, socket, criticalError>>
ReaderDisconnects(id) ==
    ReaderStep(id, "disconnect", "loop") /\ Disconnect(id) /\ UNCHANGED criticalError

-----------------------------------------------------------------------------
(* The clients.                                                              *)

PeerCloses(id) ==
    /\ socket[id] = "open"
    /\ ~peerClosed[id]
    /\ peerClosed' = [peerClosed EXCEPT ![id] = TRUE]
    /\ UNCHANGED <<ownerVars, acceptVars, sessionMap, socket, criticalError, reader>>

-----------------------------------------------------------------------------
OwnerContinues ==
    \/ SetIsWork \/ OperatorWriteFailed \/ WriteDisconnects
    \/ CloseAcceptor \/ CopyMap \/ CountSessions
    \/ \E id \in Ids : DisconnectNext(id)
    \/ FlushMain \/ FlushSessions

AcceptContinues ==
    \/ TakeAcceptTask \/ AcceptLoopHead \/ AcceptAborted \/ InsertSession
    \/ CheckCount \/ Refuse \/ RefuseNull \/ SpawnReader

ReaderContinues(id) ==
    \/ TakeReadTask(id) \/ GetSession(id) \/ ReaderLoopHead(id) \/ BeginRead(id)
    \/ ReadError(id) \/ Reply(id) \/ ReadFailed(id) \/ ReaderDisconnects(id)

\* Every start that is allowed was made and stopped again, or the process ended.
Finished ==
    /\ owner = "crashed" \/ (owner = "stopped" /\ starts = MaxStarts)
    /\ UNCHANGED vars

Next ==
    \/ Start \/ Stop \/ OwnerContinues
    \/ \E id \in Ids : OperatorWrite(id) \/ OperatorDisconnect(id)
    \/ AcceptContinues \/ ClientConnects
    \/ \E id \in Ids : ReaderContinues(id) \/ PeerCloses(id)
    \/ \E id \in Ids, input \in Inputs : Receive(id, input)
    \/ Finished

\* The threads of the process run; a read ends once the socket is closed at
\* either end. Nobody is obliged to connect, to send, to close or to stop.
Fairness ==
    /\ WF_vars(OwnerContinues)
    /\ WF_vars(AcceptContinues)
    /\ \A id \in Ids : WF_vars(ReaderContinues(id))

Spec == Init /\ [][Next]_vars
FairSpec == Spec /\ Fairness

-----------------------------------------------------------------------------
(* Properties.                                                               *)

OwnerLabels == {"idle", "starting", "serving", "write_failed", "write_disconnect",
                "close_acceptor", "copy_map", "count", "disconnect_all",
                "flush_sessions", "stopped", "crashed"}
AcceptLabels == {"none", "queued", "loop", "accept", "insert", "check_count",
                 "refuse", "spawn", "ended", "crashed"}
ReaderLabels == {"none", "ready", "get", "loop", "read", "recv", "reply", "failed",
                 "disconnect", "done", "threw", "crashed"}

\* The variables have their types.
TypeOK ==
    /\ isWork \in BOOLEAN
    /\ starts \in Nat
    /\ owner \in OwnerLabels
    /\ target \in 0..MaxId
    /\ snapshot \subseteq Ids
    /\ acceptorOpen \in BOOLEAN
    /\ acceptLoop \in AcceptLabels
    /\ cur \in 0..MaxId
    /\ sessionMap \subseteq Ids
    /\ socket \in [Ids -> {"none", "open", "closed"}]
    /\ peerClosed \in [Ids -> BOOLEAN]
    /\ criticalError \in [Ids -> BOOLEAN]
    /\ reader \in [Ids -> ReaderLabels]

\* A thread is about to disconnect session id, which has failed.
Closing(id) ==
    \/ reader[id] = "disconnect"
    \/ owner = "write_disconnect" /\ target = id

\* No connection leaks: a socket that is open belongs to a session of the map,
\* or to a thread that is about to insert the session or to close it. The
\* session is erased before it is closed (transport_handler.cpp:27, then
\* session.cpp:126-127), and three threads may do either.
OpenSocketOwned ==
    \A id \in Ids : socket[id] = "open" =>
        \/ id \in sessionMap
        \/ acceptLoop = "insert" /\ cur = id
        \/ reader[id] = "failed"
        \/ owner = "write_failed" /\ target = id
        \/ Closing(id)

\* A session that has failed is out of the map for good, and closed unless the
\* thread that saw an error is about to close it, whichever saw the first one and
\* whatever the others did between its two steps (session.cpp:126-127, 145-146).
FailedSessionGone ==
    \A id \in Ids : criticalError[id] =>
        id \notin sessionMap /\ (socket[id] = "closed" \/ Closing(id))

\* The ids that no session has had yet: those to come, and that of a session
\* which is being accepted.
Fresh(id) == id > cur \/ (id = cur /\ acceptLoop \in {"accept", "insert"})

\* A fresh id is nowhere; a session that is in the map, read or failed was
\* connected once.
SessionInv ==
    /\ \A id \in Ids : Fresh(id) =>
         /\ id \notin sessionMap
         /\ reader[id] \in {"none", "crashed"}
         /\ ~criticalError[id]
         /\ socket[id] # "none" => id = cur /\ acceptLoop = "insert"
    /\ \A id \in sessionMap : socket[id] # "none"
    /\ \A id \in Ids :
         /\ reader[id] \in {"loop", "read", "recv", "reply", "failed", "disconnect"} =>
              socket[id] # "none"
         /\ reader[id] \in {"failed", "disconnect"} => id \notin sessionMap
    /\ owner \in {"write_failed", "write_disconnect"} =>
         target \in Ids \ sessionMap /\ socket[target] # "none" /\ ~Fresh(target)
    /\ acceptLoop = "insert" => socket[cur] # "none"

\* The accept loop and the owner, side by side.
AcceptInv ==
    /\ acceptLoop = "none" <=> owner = "idle"
    /\ acceptLoop \in {"none", "queued"} => cur = 0
    /\ acceptLoop \in {"accept", "insert", "check_count", "refuse", "spawn"} => cur \in Ids
    /\ acceptLoop = "insert" => cur < MaxId
    /\ acceptLoop \in {"check_count", "refuse", "spawn"} => reader[cur] = "none"
    /\ acceptLoop \in {"loop", "check_count", "refuse", "spawn"} /\ acceptorOpen => cur < MaxId
    /\ acceptLoop = "crashed" <=> owner = "crashed"
    /\ owner # "crashed" => \A id \in Ids : reader[id] # "crashed"

\* Where the owner is while the server works.
Working == {"serving", "write_failed", "write_disconnect"}

\* How far start and stop have come.
OwnerInv ==
    /\ owner # "crashed" => (isWork <=> owner \in Working)
    /\ owner \in Working \cup {"starting"} => acceptorOpen
    /\ owner = "starting" =>
         acceptLoop \in {"queued", "ended"} \/ (acceptLoop = "loop" /\ cur = 0)
    /\ owner \in {"flush_sessions", "stopped"} => acceptLoop = "ended" /\ snapshot = {}
    /\ owner = "stopped" => \A id \in Ids : reader[id] \in Over
    /\ owner \in {"count", "disconnect_all", "flush_sessions", "stopped"} =>
         \A id \in sessionMap : socket[id] = "open" => id \in snapshot \cup {cur}

\* The inductive invariant.
IInv ==
    /\ TypeOK
    /\ AcceptInv
    /\ OwnerInv
    /\ SessionInv
    /\ FailedSessionGone
    /\ OpenSocketOwned

\* While the server works, every connected client has a thread that reads from
\* it, or is about to get one or to be refused; only a thread that an exception
\* has ended leaves a client that is connected (README.md:126).
ClientServed ==
    \A id \in sessionMap : isWork /\ socket[id] = "open" =>
        \/ reader[id] \notin {"none", "done"}
        \/ cur = id /\ acceptLoop \in {"check_count", "refuse", "spawn"}

\* Without multiConnect one session at most is both in the map and read from.
OneSessionRead ==
    ~multiConnect =>
        Cardinality({id \in sessionMap : reader[id] \notin Over \cup {"crashed"}}) <= 1

\* After stop one client at most is still connected: the one that was accepted
\* while stop was under way, too late for the copy of the map. Every other
\* session was closed by stop or by its reader, even when the count of line 76
\* is taken after the copy of line 75 and differs from it.
StopLeavesLastAccepted ==
    owner = "stopped" => {id \in Ids : socket[id] = "open"} \subseteq {cur}

\* No null session is dereferenced (segment_server.cpp:108-109).
NoCrash == owner # "crashed"

\* stop returns: whatever the readers, the accept loop and the clients are at.
StopTerminates == (owner = "close_acceptor") ~> (owner = "stopped")

\* A session whose client has closed the connection leaves the map (README.md:408).
PeerCloseRemoves ==
    \A id \in Ids :
        (id \in sessionMap /\ peerClosed[id]) ~> (id \notin sessionMap \/ ~isWork)

\* The same for the sessions that the server has not disconnected itself, and
\* whose reader no exception has ended: it finds that the client has gone. The
\* sockets of a process that has ended are closed too.
PeerCloseNoticed ==
    \A id \in Ids :
        (id \in sessionMap /\ peerClosed[id])
            ~> \/ id \notin sessionMap \/ ~isWork
               \/ reader[id] = "threw"
               \/ socket[id] = "closed" /\ ~criticalError[id]

\* README.md:126: the server that works accepts connections.
ServingAccepts == owner = "serving" => acceptLoop # "ended"
=============================================================================
