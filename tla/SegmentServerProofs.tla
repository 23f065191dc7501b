------------------------ MODULE SegmentServerProofs ------------------------
(***************************************************************************)
(* Theorems about SegmentServer, for any number of sessions and starts,    *)
(* with and without multiConnect, whatever clients and operator do.        *)
(***************************************************************************)
EXTENDS SegmentServer, Sequences, FiniteSetTheorems, TLAPS

-----------------------------------------------------------------------------
(* What the calls on a session do to its socket and to the map.              *)

\* Session::disconnect leaves no session open, opens none, and takes out of the
\* map at most the session that it closes.
LEMMA DisconnectEffect ==
    ASSUME TypeOK, NEW id \in Ids, Disconnect(id)
    PROVE  /\ socket' \in [Ids -> {"none", "open", "closed"}]
           /\ socket'[id] # "open"
           /\ \A i \in Ids : socket'[i] = "none" <=> socket[i] = "none"
           /\ \A i \in Ids : socket'[i] = "open" => socket[i] = "open"
           /\ \A i \in Ids : i # id => socket'[i] = socket[i]
           /\ sessionMap' \subseteq sessionMap
           /\ sessionMap \ sessionMap' \subseteq {id}
  BY DEF TypeOK, Disconnect

\* Before the first start nothing is connected.
LEMMA InitIInv == Init => IInv
<1> SUFFICES ASSUME Init PROVE IInv
  OBVIOUS
<1> USE DEF Init
<1>1. TypeOK
  <2>1. 0 \in Nat /\ 0 \in 0..MaxId
    BY BoundsAssumption
  <2> QED
    BY <2>1 DEF TypeOK, OwnerLabels, AcceptLabels, ReaderLabels
<1>2. AcceptInv /\ OwnerInv
  BY DEF AcceptInv, OwnerInv, Working, Over
<1>3. SessionInv
  BY BoundsAssumption DEF SessionInv, Fresh, Ids
<1>4. FailedSessionGone /\ OpenSocketOwned
  BY DEF FailedSessionGone, OpenSocketOwned, Closing
<1> QED
  BY <1>1, <1>2, <1>3, <1>4 DEF IInv

-----------------------------------------------------------------------------
(* Each group of actions preserves the invariant.                            *)

\* start replaces the SessionManager and hands over the accept loop.
LEMMA StartStep == IInv /\ Start => IInv'
<1> SUFFICES ASSUME IInv, Start PROVE IInv'
  OBVIOUS
<1> USE BoundsAssumption DEF IInv, Start, ReplaceSessionManager, TypeOK, Ids
<1>1. TypeOK'
  BY DEF OwnerLabels, AcceptLabels
<1>2. AcceptInv' /\ OwnerInv'
  BY DEF AcceptInv, OwnerInv, Working, Over
<1>3. SessionInv'
  BY DEF SessionInv, Fresh, AcceptInv
<1>4. FailedSessionGone' /\ OpenSocketOwned'
  BY DEF FailedSessionGone, OpenSocketOwned, Closing
<1> QED
  BY <1>1, <1>2, <1>3, <1>4

\* The steps of start and stop that touch neither sessions nor readers.
OwnerStep ==
    \/ SetIsWork \/ Stop \/ CloseAcceptor \/ CopyMap \/ CountSessions
    \/ FlushMain \/ FlushSessions

LEMMA OwnerStepInv == IInv /\ OwnerStep => IInv'
<1> SUFFICES ASSUME IInv, OwnerStep PROVE IInv'
  OBVIOUS
<1> USE DEF IInv, OwnerStep, SetIsWork, Stop, CloseAcceptor, CopyMap, CountSessions,
        KeepSnapshotIf, FlushMain, FlushSessions, OwnerGo, sessionVars, Over
<1>1. TypeOK'
  BY DEF TypeOK, OwnerLabels
<1>2. AcceptInv'
  BY DEF AcceptInv
<1>3. OwnerInv'
  <2>1. CASE SetIsWork \/ Stop \/ CloseAcceptor
    BY <2>1 DEF OwnerInv, Working, Over, AcceptInv
  <2>2. CASE CopyMap \/ CountSessions
    BY <2>2 DEF OwnerInv, Working, Over, AcceptInv
  <2>3. CASE FlushMain \/ FlushSessions
    BY <2>3 DEF OwnerInv, Working, Over, AcceptInv
  <2> QED
    BY <2>1, <2>2, <2>3
<1>4. SessionInv'
  BY DEF SessionInv, Fresh, AcceptInv, OwnerInv, Working, Over
<1>5. FailedSessionGone' /\ OpenSocketOwned'
  BY DEF FailedSessionGone, OpenSocketOwned, Closing
<1> QED
  BY <1>1, <1>2, <1>3, <1>4, <1>5

\* The operator disconnects a session that is there. One that is not there is
\* the null that ends the process.
OperatorDisconnects(id) ==
    /\ owner = "serving"
    /\ Disconnect(id)
    /\ UNCHANGED <<ownerVars, acceptVars, peerClosed, criticalError, reader>>

LEMMA OperatorDisconnectCases ==
    ASSUME NEW id \in Ids, OperatorDisconnect(id)
    PROVE  OperatorDisconnects(id) \/ (owner = "serving" /\ Crash)
  BY DEF OperatorDisconnect, OperatorDisconnects

\* The server disconnects a session: the operator, stop, or a refusal.
LEMMA DisconnectStep ==
    ASSUME IInv, NEW id \in Ids,
           OperatorDisconnects(id) \/ DisconnectNext(id) \/ (Refuse /\ id = cur)
    PROVE  IInv'
<1> USE DEF IInv
<1>0. Disconnect(id)
  BY DEF OperatorDisconnects, DisconnectNext, Refuse
<1>1. /\ UNCHANGED <<isWork, starts, owner, target, acceptorOpen, cur, peerClosed,
                     criticalError, reader>>
      /\ snapshot' \subseteq snapshot
      /\ snapshot \ snapshot' \subseteq {id}
      /\ owner # "disconnect_all" => UNCHANGED snapshot
      /\ UNCHANGED acceptLoop \/ (acceptLoop = "refuse" /\ acceptLoop' = "loop")
  BY DEF OperatorDisconnects, DisconnectNext, Refuse, AcceptStep, ownerVars, acceptVars
<1> USE DisconnectEffect, <1>0, <1>1
<1>2. TypeOK'
  BY DEF TypeOK, AcceptLabels
<1>3. AcceptInv'
  BY DEF AcceptInv
<1>4. OwnerInv'
  BY DEF OwnerInv, Working, Over, AcceptInv, TypeOK
<1>5. SessionInv'
  BY DEF SessionInv, Fresh, AcceptInv, TypeOK
<1>6. FailedSessionGone' /\ OpenSocketOwned'
  BY DEF FailedSessionGone, OpenSocketOwned, Closing, TypeOK
<1> QED
  BY <1>2, <1>3, <1>4, <1>5, <1>6

\* A session fails: its reader, or the operator's thread, notes the error.
LEMMA FailStep ==
    ASSUME IInv, NEW id \in Ids, ReadFailed(id) \/ (OperatorWriteFailed /\ id = target)
    PROVE  IInv'
<1> USE DEF IInv
<1>1. /\ UNCHANGED <<isWork, starts, target, snapshot, acceptVars, sessionMap, socket,
                     peerClosed>>
      /\ criticalError' = [criticalError EXCEPT ![id] = TRUE]
      /\ id \notin sessionMap
      /\ socket[id] # "none"
      /\ ~Fresh(id)
      /\ \/ /\ UNCHANGED owner
            /\ reader' = [reader EXCEPT ![id] = "disconnect"] /\ reader[id] = "failed"
         \/ /\ owner = "write_failed" /\ owner' = "write_disconnect" /\ id = target
            /\ UNCHANGED reader
  <2>1. CASE ReadFailed(id)
    BY <2>1 DEF ReadFailed, SetError, ReaderStep, ownerVars, SessionInv
  <2>2. CASE OperatorWriteFailed /\ id = target
    BY <2>2 DEF OperatorWriteFailed, SetError, SessionInv
  <2> QED
    BY <2>1, <2>2
<1> USE <1>1 DEF acceptVars
<1>2. TypeOK'
  BY DEF TypeOK, OwnerLabels, ReaderLabels
<1>3. AcceptInv'
  BY DEF AcceptInv, TypeOK
<1>4. OwnerInv'
  BY DEF OwnerInv, Working, Over, Working, TypeOK
<1>5. SessionInv'
  <2>1. \A i \in Ids : reader'[i] = reader[i] \/ (i = id /\ reader'[i] = "disconnect")
    BY DEF TypeOK
  <2>2. \A i \in Ids : criticalError'[i] = criticalError[i] \/ i = id
    BY DEF TypeOK
  <2>3. \A i \in Ids : Fresh(i)' <=> Fresh(i)
    BY DEF Fresh
  <2> QED
    BY <2>1, <2>2, <2>3 DEF SessionInv, Fresh
<1>6. FailedSessionGone' /\ OpenSocketOwned'
  <2>1. Closing(id)'
    BY DEF Closing, TypeOK
  <2>2. \A i \in Ids : Closing(i) => Closing(i)'
    BY DEF Closing, TypeOK
  <2>3. \A i \in Ids : i # id => reader'[i] = reader[i] /\ criticalError'[i] = criticalError[i]
    BY DEF TypeOK
  <2> QED
    BY <2>1, <2>2, <2>3 DEF FailedSessionGone, OpenSocketOwned, Closing
<1> QED
  BY <1>2, <1>3, <1>4, <1>5, <1>6

\* The thread that noted the error disconnects the session.
LEMMA CloseStep ==
    ASSUME IInv, NEW id \in Ids, ReaderDisconnects(id) \/ (WriteDisconnects /\ id = target)
    PROVE  IInv'
<1> USE DEF IInv
<1>0. Disconnect(id)
  BY DEF ReaderDisconnects, WriteDisconnects
<1>1. /\ UNCHANGED <<isWork, starts, target, snapshot, acceptVars, peerClosed, criticalError>>
      /\ id \notin sessionMap
      /\ socket[id] # "none"
      /\ ~Fresh(id)
      /\ \/ /\ UNCHANGED owner
            /\ reader' = [reader EXCEPT ![id] = "loop"] /\ reader[id] = "disconnect"
         \/ /\ owner = "write_disconnect" /\ owner' = "serving" /\ id = target
            /\ UNCHANGED reader
  <2>1. CASE ReaderDisconnects(id)
    BY <2>1 DEF ReaderDisconnects, ReaderStep, ownerVars, SessionInv
  <2>2. CASE WriteDisconnects /\ id = target
    BY <2>2 DEF WriteDisconnects, AfterWriteFailed, SessionInv
  <2> QED
    BY <2>1, <2>2
<1>7. socket' \in [Ids -> {"none", "open", "closed"}] /\ socket'[id] = "closed"
  BY <1>0, <1>1, DisconnectEffect DEF TypeOK
<1> USE DisconnectEffect, <1>0, <1>1, <1>7 DEF acceptVars
<1>2. TypeOK'
  BY DEF TypeOK, OwnerLabels, ReaderLabels
<1>3. AcceptInv'
  BY DEF AcceptInv, TypeOK
<1>4. OwnerInv'
  BY DEF OwnerInv, Working, Over, Working, AcceptInv, TypeOK
<1>5. SessionInv'
  <2>1. \A i \in Ids : reader'[i] = reader[i] \/ (i = id /\ reader'[i] = "loop")
    BY DEF TypeOK
  <2>2. \A i \in Ids : Fresh(i)' <=> Fresh(i)
    BY DEF Fresh
  <2>3. \A i \in Ids : Fresh(i)' =>
           /\ i \notin sessionMap'
           /\ reader'[i] \in {"none", "crashed"}
           /\ ~criticalError'[i]
           /\ socket'[i] # "none" => i = cur' /\ acceptLoop' = "insert"
    BY <2>1, <2>2 DEF SessionInv
  <2>4. \A i \in sessionMap' : socket'[i] # "none"
    BY DEF SessionInv, TypeOK
  <2>5. \A i \in Ids :
           /\ reader'[i] \in {"loop", "read", "recv", "reply", "failed", "disconnect"} =>
                socket'[i] # "none"
           /\ reader'[i] \in {"failed", "disconnect"} => i \notin sessionMap'
    BY <2>1 DEF SessionInv
  <2>6. owner' \in {"write_failed", "write_disconnect"} =>
           target' \in Ids \ sessionMap' /\ socket'[target'] # "none" /\ ~Fresh(target)'
    BY DEF SessionInv, Fresh
  <2>7. acceptLoop' = "insert" => socket'[cur'] # "none"
    BY DEF SessionInv, AcceptInv
  <2> QED
    BY <2>3, <2>4, <2>5, <2>6, <2>7 DEF SessionInv
<1>6. FailedSessionGone' /\ OpenSocketOwned'
  <2>1. \A i \in Ids : i # id => /\ reader'[i] = reader[i]
                                 /\ socket'[i] = socket[i]
                                 /\ i \in sessionMap' <=> i \in sessionMap
                                 /\ Closing(i) => Closing(i)'
    BY DEF Closing, TypeOK
  <2> QED
    BY <2>1 DEF FailedSessionGone, OpenSocketOwned, Closing
<1> QED
  BY <1>2, <1>3, <1>4, <1>5, <1>6

\* A read or a write ends, with an error that takes the session out of the map
\* or without one.
LEMMA TransferStep ==
    ASSUME IInv, NEW id \in Ids,
           \/ \E input \in Inputs : Receive(id, input)
           \/ ReadError(id)
           \/ Reply(id)
    PROVE  IInv'
<1> USE DEF IInv
<1>1. /\ UNCHANGED <<ownerVars, acceptVars, socket, peerClosed, criticalError>>
      /\ reader[id] \in {"recv", "reply"}
      /\ \/ /\ sessionMap' = sessionMap \ {id}
            /\ reader' = [reader EXCEPT ![id] = "failed"]
         \/ /\ sessionMap' = sessionMap
            /\ \E to \in {"loop", "reply", "threw"} : reader' = [reader EXCEPT ![id] = to]
  BY DEF Receive, ReadError, Reply, EndRead, ReaderStep, RemoveOnError
<1> USE <1>1 DEF acceptVars, ownerVars
<1>2. TypeOK'
  BY DEF TypeOK, ReaderLabels
<1>3. AcceptInv'
  BY DEF AcceptInv, TypeOK
<1>4. OwnerInv'
  BY DEF OwnerInv, Working, Over, TypeOK
<1>5. SessionInv'
  BY DEF SessionInv, Fresh, TypeOK
<1>6. FailedSessionGone' /\ OpenSocketOwned'
  BY DEF FailedSessionGone, OpenSocketOwned, Closing, TypeOK
<1> QED
  BY <1>2, <1>3, <1>4, <1>5, <1>6

\* The operator's write fails: the session leaves the map.
LEMMA OperatorWriteStep == ASSUME IInv, NEW id \in Ids, OperatorWrite(id) PROVE IInv'
<1> USE DEF IInv, OperatorWrite, RemoveOnError, acceptVars
<1>1. TypeOK'
  BY DEF TypeOK, OwnerLabels, Ids
<1>2. AcceptInv' /\ OwnerInv'
  BY DEF AcceptInv, OwnerInv, Working, Over
<1>3. SessionInv'
  BY DEF SessionInv, Fresh
<1>4. FailedSessionGone' /\ OpenSocketOwned'
  BY DEF FailedSessionGone, OpenSocketOwned, Closing
<1> QED
  BY <1>1, <1>2, <1>3, <1>4

\* The steps of sessionWork that change the reader only.
LEMMA ReaderStepInv ==
    ASSUME IInv, NEW id \in Ids,
           TakeReadTask(id) \/ GetSession(id) \/ ReaderLoopHead(id) \/ BeginRead(id)
    PROVE  IInv'
<1> USE DEF IInv
<1>1. /\ UNCHANGED <<ownerVars, acceptVars, sessionMap, socket, peerClosed, criticalError>>
      /\ reader[id] \in {"ready", "get", "loop", "read"}
      /\ \E to \in {"get", "loop", "read", "recv", "done"} :
            /\ reader' = [reader EXCEPT ![id] = to]
            /\ to \notin {"get", "done"} => socket[id] # "none"
  BY DEF TakeReadTask, GetSession, ReaderLoopHead, BeginRead, ReaderGo, ReaderStep,
     SessionInv
<1> USE <1>1 DEF acceptVars, ownerVars
<1>2. TypeOK'
  BY DEF TypeOK, ReaderLabels
<1>3. AcceptInv'
  BY DEF AcceptInv, TypeOK
<1>4. OwnerInv'
  BY DEF OwnerInv, Working, Over, TypeOK
<1>5. SessionInv'
  BY DEF SessionInv, Fresh, TypeOK
<1>6. FailedSessionGone' /\ OpenSocketOwned'
  BY DEF FailedSessionGone, OpenSocketOwned, Closing, TypeOK
<1> QED
  BY <1>2, <1>3, <1>4, <1>5, <1>6

\* The end of the process.
LEMMA CrashStep == IInv /\ Crash => IInv'
<1> SUFFICES ASSUME IInv, Crash PROVE IInv'
  OBVIOUS
<1> USE DEF IInv, Crash, TypeOK
<1>1. TypeOK'
  BY DEF OwnerLabels, AcceptLabels, ReaderLabels
<1>2. AcceptInv' /\ OwnerInv'
  BY DEF AcceptInv, OwnerInv, Working, Over
<1>3. SessionInv'
  BY DEF SessionInv, Fresh
<1>4. FailedSessionGone' /\ OpenSocketOwned'
  <2>1. \A id \in Ids : socket'[id] # "open" /\ (socket[id] # "none" => socket'[id] = "closed")
    OBVIOUS
  <2>2. \A id \in Ids : criticalError[id] => socket[id] # "none"
    BY DEF FailedSessionGone, Closing, SessionInv
  <2> QED
    BY <2>1, <2>2 DEF FailedSessionGone, OpenSocketOwned
<1> QED
  BY <1>1, <1>2, <1>3, <1>4

-----------------------------------------------------------------------------
(* The accept loop and the clients.                                          *)

\* The steps that only move the accept loop.
LEMMA AcceptGoStep ==
    IInv /\ (TakeAcceptTask \/ AcceptAborted \/ CheckCount) => IInv'
<1> SUFFICES ASSUME IInv, TakeAcceptTask \/ AcceptAborted \/ CheckCount PROVE IInv'
  OBVIOUS
<1> USE BoundsAssumption
    DEF IInv, TakeAcceptTask, AcceptAborted, CheckCount, RefuseIf, AcceptGo, AcceptStep,
        ownerVars
<1>1. TypeOK'
  BY DEF TypeOK, AcceptLabels
<1>2. AcceptInv'
  BY DEF AcceptInv, SessionInv, Fresh
<1>3. OwnerInv'
  BY DEF OwnerInv, Working, Over, AcceptInv
<1>4. SessionInv'
  BY DEF SessionInv, Fresh
<1>5. FailedSessionGone' /\ OpenSocketOwned'
  BY DEF FailedSessionGone, OpenSocketOwned, Closing
<1> QED
  BY <1>1, <1>2, <1>3, <1>4, <1>5

\* A new round of the accept loop takes a fresh id, or the loop ends.
LEMMA AcceptLoopHeadStep == IInv /\ AcceptLoopHead => IInv'
<1> SUFFICES ASSUME IInv, AcceptLoopHead PROVE IInv'
  OBVIOUS
<1> USE DEF IInv, AcceptLoopHead, DrawIds, AcceptStep, ownerVars
<1>0. isWork => cur + 1 \in Ids
  <2>1. owner # "crashed"
    BY DEF AcceptInv
  <2>2. isWork => acceptorOpen
    BY <2>1 DEF OwnerInv, Working, Over
  <2>3. isWork => cur < MaxId
    BY <2>2 DEF AcceptInv
  <2> QED
    BY <2>3, BoundsAssumption DEF TypeOK, Ids
<1>1. TypeOK'
  BY <1>0 DEF TypeOK, AcceptLabels, Ids
<1>2. AcceptInv'
  BY <1>0 DEF AcceptInv
<1>3. OwnerInv'
  BY DEF OwnerInv, Working, Over, AcceptInv
<1>4. SessionInv'
  BY <1>0 DEF SessionInv, Fresh, TypeOK, Ids
<1>5. FailedSessionGone' /\ OpenSocketOwned'
  BY DEF FailedSessionGone, OpenSocketOwned, Closing
<1> QED
  BY <1>1, <1>2, <1>3, <1>4, <1>5

\* A client connects.
LEMMA ClientConnectsStep == IInv /\ ClientConnects => IInv'
<1> SUFFICES ASSUME IInv, ClientConnects PROVE IInv'
  OBVIOUS
<1> USE DEF IInv, ClientConnects, AcceptStep, ownerVars
<1>0. cur \in Ids /\ Fresh(cur)
  BY DEF AcceptInv, Fresh
<1>1. TypeOK'
  BY DEF TypeOK, AcceptLabels
<1>2. AcceptInv'
  BY <1>0 DEF AcceptInv
<1>3. OwnerInv'
  BY <1>0 DEF OwnerInv, Working, Over, AcceptInv, SessionInv, TypeOK
<1>4. SessionInv'
  BY <1>0 DEF SessionInv, Fresh, TypeOK
<1>5. FailedSessionGone' /\ OpenSocketOwned'
  BY <1>0 DEF FailedSessionGone, OpenSocketOwned, Closing, SessionInv, TypeOK
<1> QED
  BY <1>1, <1>2, <1>3, <1>4, <1>5

\* The session that was accepted is inserted.
LEMMA InsertSessionStep == IInv /\ InsertSession => IInv'
<1> SUFFICES ASSUME IInv, InsertSession PROVE IInv'
  OBVIOUS
<1> USE DEF IInv, InsertSession, AcceptStep, ownerVars
<1>0. cur \in Ids /\ Fresh(cur)
  BY DEF AcceptInv, Fresh
<1>1. TypeOK'
  BY <1>0 DEF TypeOK, AcceptLabels
<1>2. AcceptInv'
  BY <1>0 DEF AcceptInv, SessionInv
<1>3. OwnerInv'
  BY <1>0 DEF OwnerInv, Working, Over, AcceptInv
<1>4. SessionInv'
  <2>1. \A id \in Ids : Fresh(id)' => Fresh(id) /\ id # cur
    BY <1>0, BoundsAssumption DEF Fresh, Ids
  <2>2. reader[cur] \notin {"failed", "disconnect"} /\ socket[cur] # "none"
    BY <1>0 DEF SessionInv
  <2>3. owner \in {"write_failed", "write_disconnect"} => target # cur /\ ~Fresh(target)'
    BY <1>0, <2>1 DEF SessionInv
  <2> QED
    BY <2>1, <2>2, <2>3 DEF SessionInv
<1>5. FailedSessionGone' /\ OpenSocketOwned'
  BY <1>0 DEF FailedSessionGone, OpenSocketOwned, Closing, SessionInv
<1> QED
  BY <1>1, <1>2, <1>3, <1>4, <1>5

\* The session gets its worker, unless the server has been stopped.
LEMMA SpawnReaderStep == IInv /\ SpawnReader => IInv'
<1> SUFFICES ASSUME IInv, SpawnReader PROVE IInv'
  OBVIOUS
<1> USE DEF IInv, SpawnReader, AcceptStep, ownerVars
<1>1. TypeOK'
  BY DEF TypeOK, AcceptLabels, ReaderLabels
<1>2. AcceptInv'
  BY DEF AcceptInv, TypeOK
<1>3. OwnerInv'
  BY DEF OwnerInv, Working, Over, AcceptInv, TypeOK
<1>4. SessionInv'
  BY DEF SessionInv, Fresh, AcceptInv, TypeOK
<1>5. FailedSessionGone' /\ OpenSocketOwned'
  BY DEF FailedSessionGone, OpenSocketOwned, Closing, TypeOK, AcceptInv
<1> QED
  BY <1>1, <1>2, <1>3, <1>4, <1>5

\* A client closes its end, which no part of the invariant looks at.
LEMMA PeerClosesStep == ASSUME IInv, NEW id \in Ids, PeerCloses(id) PROVE IInv'
<1> USE DEF IInv, PeerCloses, ownerVars, acceptVars
<1>1. TypeOK' /\ AcceptInv' /\ OwnerInv'
  BY DEF TypeOK, AcceptInv, OwnerInv, Working, Over
<1>2. SessionInv' /\ FailedSessionGone' /\ OpenSocketOwned'
  BY DEF SessionInv, Fresh, FailedSessionGone, OpenSocketOwned, Closing
<1> QED
  BY <1>1, <1>2

-----------------------------------------------------------------------------
(* The invariant, and what follows from it.                                  *)

\* Every step preserves the invariant.
LEMMA IInvStep == IInv /\ [Next]_vars => IInv'
<1> SUFFICES ASSUME IInv, [Next]_vars PROVE IInv'
  OBVIOUS
<1>1. CASE Start
  BY <1>1, StartStep
<1>2. CASE OwnerStep
  BY <1>2, OwnerStepInv
<1>3. ASSUME NEW id \in Ids, OperatorDisconnects(id) \/ DisconnectNext(id) PROVE IInv'
  BY <1>3, DisconnectStep
<1>4. CASE Refuse
  BY <1>4, cur \in Ids, DisconnectStep DEF Refuse, IInv, TypeOK
<1>5. ASSUME NEW id \in Ids, ReadFailed(id) \/ ReaderDisconnects(id) PROVE IInv'
  BY <1>5, FailStep, CloseStep
<1>6. CASE OperatorWriteFailed \/ WriteDisconnects
  <2>1. target \in Ids
    BY <1>6 DEF OperatorWriteFailed, WriteDisconnects, AfterWriteFailed, IInv, SessionInv
  <2> QED
    BY <1>6, <2>1, FailStep, CloseStep
<1>7. ASSUME NEW id \in Ids,
             \/ \E input \in Inputs : Receive(id, input)
             \/ ReadError(id) \/ Reply(id)
      PROVE  IInv'
  BY <1>7, TransferStep
<1>8. ASSUME NEW id \in Ids, OperatorWrite(id) PROVE IInv'
  BY <1>8, OperatorWriteStep
<1>9. ASSUME NEW id \in Ids,
             TakeReadTask(id) \/ GetSession(id) \/ ReaderLoopHead(id) \/ BeginRead(id)
      PROVE  IInv'
  BY <1>9, ReaderStepInv
<1>10. CASE RefuseNull \/ Crash
  BY <1>10, CrashStep DEF RefuseNull
<1>11. CASE TakeAcceptTask \/ AcceptAborted \/ CheckCount
  BY <1>11, AcceptGoStep
<1>12. CASE AcceptLoopHead \/ ClientConnects \/ InsertSession \/ SpawnReader
  BY <1>12, AcceptLoopHeadStep, ClientConnectsStep, InsertSessionStep, SpawnReaderStep
<1>13. ASSUME NEW id \in Ids, PeerCloses(id) PROVE IInv'
  BY <1>13, PeerClosesStep
<1>14. CASE UNCHANGED vars
  BY <1>14 DEF vars, ownerVars, acceptVars, sessionVars, IInv, TypeOK, AcceptInv,
     OwnerInv, Working, Over,
     SessionInv, Fresh, FailedSessionGone, OpenSocketOwned, Closing
<1> QED
  BY <1>1, <1>2, <1>3, <1>4, <1>5, <1>6, <1>7, <1>8, <1>9, <1>10, <1>11, <1>12, <1>13,
     <1>14, OperatorDisconnectCases
     DEF Next, OwnerContinues, AcceptContinues, ReaderContinues, OwnerStep, Finished

\* The threads of the server can never reach a state outside the invariant.
THEOREM Invariance == Spec => []IInv
<1> QED
  BY InitIInv, IInvStep, PTL DEF Spec

\* The variables of the server keep their types.
THEOREM TypeCorrect == Spec => []TypeOK
<1>1. IInv => TypeOK
  BY DEF IInv
<1> QED
  BY Invariance, <1>1, PTL

\* No connection leaks, whichever thread erases a session from the map and
\* whichever closes it.
THEOREM OpenOwned == Spec => []OpenSocketOwned
<1>1. IInv => OpenSocketOwned
  BY DEF IInv
<1> QED
  BY Invariance, <1>1, PTL

\* A session that failed is out of the map and closed for good.
THEOREM FailedGone == Spec => []FailedSessionGone
<1>1. IInv => FailedSessionGone
  BY DEF IInv
<1> QED
  BY Invariance, <1>1, PTL

\* stop leaves one client connected at most: the last one that was accepted.
THEOREM StopLeaves == Spec => []StopLeavesLastAccepted
<1>1. IInv => StopLeavesLastAccepted
  <2> SUFFICES ASSUME IInv, owner = "stopped", NEW id \in Ids, socket[id] = "open"
               PROVE  id = cur
    BY DEF StopLeavesLastAccepted
  <2>1. acceptLoop = "ended" /\ snapshot = {} /\ reader[id] \notin {"failed", "disconnect"}
    BY DEF IInv, OwnerInv, Working, Over
  <2>2. id \in sessionMap
    BY <2>1 DEF IInv, OpenSocketOwned, Closing
  <2> QED
    BY <2>1, <2>2 DEF IInv, OwnerInv, Working, Over
<1> QED
  BY Invariance, <1>1, PTL

-----------------------------------------------------------------------------
(* Every connected client has a thread that reads from it.                   *)

\* Where ClientServed holds of session id.
Attended(id) ==
    isWork /\ socket[id] = "open" =>
        \/ reader[id] \notin {"none", "done"}
        \/ cur = id /\ acceptLoop \in {"check_count", "refuse", "spawn"}

\* What makes ClientServed inductive: a server that is about to work has no
\* session yet, so setting isWork leaves none unattended.
ServedInv ==
    /\ \A id \in sessionMap : Attended(id)
    /\ owner = "starting" => sessionMap = {}

\* The steps of the owner, and of the clients, keep the readers and the rounds.
LEMMA OwnerKeepsServed ==
    ASSUME IInv, ServedInv, Start \/ Stop \/ OwnerContinues \/ Crash \/ UNCHANGED vars
    PROVE  ServedInv'
<1> USE DEF ServedInv, Attended, IInv, TypeOK
<1>1. CASE Start
  BY <1>1 DEF Start, ReplaceSessionManager
<1>2. CASE SetIsWork
  BY <1>2 DEF SetIsWork, OwnerGo, sessionVars
<1>3. CASE Stop \/ CloseAcceptor \/ CopyMap \/ CountSessions \/ FlushMain \/ FlushSessions
  BY <1>3 DEF Stop, CloseAcceptor, CopyMap, CountSessions, KeepSnapshotIf, FlushMain,
     FlushSessions, OwnerGo, sessionVars
<1>4. CASE OperatorWriteFailed
  BY <1>4 DEF OperatorWriteFailed, SetError, acceptVars
<1>8. CASE WriteDisconnects
  <2>1. target \in Ids
    BY <1>8 DEF WriteDisconnects, AfterWriteFailed, SessionInv
  <2> QED
    BY <1>8, <2>1, DisconnectEffect DEF WriteDisconnects, AfterWriteFailed, acceptVars
<1>5. ASSUME NEW id \in Ids, DisconnectNext(id) PROVE ServedInv'
  BY <1>5, DisconnectEffect DEF DisconnectNext, acceptVars
<1>6. CASE Crash
  BY <1>6 DEF Crash
<1>7. CASE UNCHANGED vars
  BY <1>7 DEF vars, ownerVars, acceptVars, sessionVars
<1> QED
  BY <1>1, <1>2, <1>3, <1>4, <1>5, <1>6, <1>7, <1>8 DEF OwnerContinues

\* The operator's commands, and a client that closes.
LEMMA CommandKeepsServed ==
    ASSUME IInv, ServedInv, NEW id \in Ids,
           OperatorWrite(id) \/ OperatorDisconnects(id) \/ PeerCloses(id)
    PROVE  ServedInv'
<1> USE DEF ServedInv, Attended, IInv, TypeOK
<1>1. CASE OperatorWrite(id)
  BY <1>1 DEF OperatorWrite, RemoveOnError, acceptVars
<1>2. CASE OperatorDisconnects(id)
  BY <1>2, DisconnectEffect DEF OperatorDisconnects, ownerVars, acceptVars
<1>3. CASE PeerCloses(id)
  BY <1>3 DEF PeerCloses, ownerVars, acceptVars
<1> QED
  BY <1>1, <1>2, <1>3

\* The accept loop leaves its round with a reader started or the session closed.
LEMMA AcceptKeepsServed ==
    ASSUME IInv, ServedInv, AcceptContinues \/ ClientConnects, ~RefuseNull
    PROVE  ServedInv'
<1> USE DEF ServedInv, Attended, IInv, TypeOK, AcceptStep, ownerVars
<1>1. CASE TakeAcceptTask \/ AcceptLoopHead
  BY <1>1 DEF TakeAcceptTask, AcceptLoopHead, DrawIds, AcceptGo
<1>2. CASE AcceptAborted \/ CheckCount
  BY <1>2 DEF AcceptAborted, CheckCount, RefuseIf, AcceptGo
<1>3. CASE ClientConnects
  <2>1. cur \in Ids /\ cur \notin sessionMap
    BY <1>3 DEF ClientConnects, AcceptInv, SessionInv, Fresh
  <2> QED
    BY <1>3, <2>1 DEF ClientConnects
<1>4. CASE InsertSession
  BY <1>4 DEF InsertSession, OwnerInv
<1>5. CASE Refuse
  <2>1. cur \in Ids
    BY <1>5 DEF Refuse
  <2>2. socket'[cur] # "open"
    BY <1>5, <2>1, DisconnectEffect DEF Refuse
  <2> QED
    BY <1>5, <2>1, <2>2, DisconnectEffect DEF Refuse
<1>6. CASE SpawnReader
  <2>1. cur \in Ids
    BY <1>6 DEF SpawnReader, AcceptInv
  <2> QED
    BY <1>6, <2>1 DEF SpawnReader
<1> QED
  BY <1>1, <1>2, <1>3, <1>4, <1>5, <1>6 DEF AcceptContinues

\* A reader returns when its session is gone, has failed, or the server stops.
LEMMA ReaderKeepsServed ==
    ASSUME IInv, ServedInv, NEW id \in Ids,
           ReaderContinues(id) \/ \E input \in Inputs : Receive(id, input)
    PROVE  ServedInv'
<1> USE DEF ServedInv, Attended, IInv, TypeOK, ReaderStep, ownerVars, acceptVars
<1>1. CASE TakeReadTask(id) \/ GetSession(id)
  BY <1>1 DEF TakeReadTask, GetSession, ReaderGo
<1>2. CASE ReaderLoopHead(id)
  <2>1. criticalError[id] => id \notin sessionMap
    BY DEF FailedSessionGone
  <2> QED
    BY <1>2, <2>1 DEF ReaderLoopHead, ReaderGo
<1>3. CASE BeginRead(id)
  BY <1>3 DEF BeginRead, ReaderGo
<1>4. CASE ReadError(id) \/ Reply(id) \/ \E input \in Inputs : Receive(id, input)
  BY <1>4 DEF ReadError, Reply, Receive, EndRead, RemoveOnError
<1>5. CASE ReadFailed(id) \/ ReaderDisconnects(id)
  BY <1>5, DisconnectEffect DEF ReadFailed, SetError, ReaderDisconnects
<1> QED
  BY <1>1, <1>2, <1>3, <1>4, <1>5 DEF ReaderContinues

\* While the server works every connected client is read from, or about to be,
\* or about to be refused, in every interleaving of the three kinds of threads.
THEOREM EveryClientServed == Spec => []ClientServed
<1>1. Init => ServedInv
  BY DEF Init, ServedInv
<1>2. IInv /\ ServedInv /\ [Next]_vars => ServedInv'
  BY OwnerKeepsServed, CommandKeepsServed, AcceptKeepsServed, ReaderKeepsServed,
     OperatorDisconnectCases
     DEF Next, AcceptContinues, RefuseNull, Finished
<1>3. ServedInv => ClientServed
  BY DEF ServedInv, Attended, ClientServed
<1> QED
  BY Invariance, <1>1, <1>2, <1>3, PTL DEF Spec

-----------------------------------------------------------------------------
(* Without multiConnect one session is served at a time.                     *)

\* The sessions that OneSessionRead counts.
Served == {id \in sessionMap : reader[id] \notin Over \cup {"crashed"}}

\* What makes OneSessionRead inductive: the count that let a session pass holds
\* until its reader is started, since nobody else inserts a session.
SingleInv ==
    ~multiConnect =>
        /\ Cardinality(Served) <= 1
        /\ acceptLoop = "spawn" => Cardinality(sessionMap) <= 1

\* A set of sessions that does not grow does not get more numerous.
LEMMA FewerSessions ==
    ASSUME NEW S \in SUBSET Ids, NEW T \in SUBSET S, Cardinality(S) <= 1
    PROVE  Cardinality(T) <= 1
<1>1. IsFiniteSet(Ids)
  BY FS_Interval, BoundsAssumption DEF Ids
<1>2. IsFiniteSet(S)
  BY <1>1, FS_Subset
<1>3. Cardinality(T) <= Cardinality(S)
  BY <1>2, FS_Subset
<1>4. Cardinality(S) \in Nat /\ Cardinality(T) \in Nat
  BY <1>2, FS_Subset, FS_CardinalityType
<1> QED
  BY <1>3, <1>4

\* Three steps apart, no step adds a session, serves one or lets one pass.
LEMMA OtherSteps ==
    ASSUME IInv, [Next]_vars, ~InsertSession, ~SpawnReader, ~CheckCount
    PROVE  /\ sessionMap' \subseteq sessionMap
           /\ Served' \subseteq Served
           /\ acceptLoop' = "spawn" => acceptLoop = "spawn"
<1> USE DEF IInv, Served
<1>1. ASSUME NEW id \in Ids, Disconnect(id) PROVE sessionMap' \subseteq sessionMap
  BY <1>1 DEF Disconnect
<1>2. CASE Start
  BY <1>2 DEF Start, ReplaceSessionManager
<1>3. CASE OwnerStep
  BY <1>3 DEF OwnerStep, SetIsWork, Stop, CloseAcceptor, CopyMap, CountSessions,
     KeepSnapshotIf, FlushMain,
     FlushSessions, OwnerGo, sessionVars
<1>4. ASSUME NEW id \in Ids, OperatorDisconnects(id) \/ DisconnectNext(id)
      PROVE  UNCHANGED <<acceptLoop, reader>> /\ sessionMap' \subseteq sessionMap
  BY <1>4, <1>1 DEF OperatorDisconnects, DisconnectNext, acceptVars
<1>5. CASE OperatorWriteFailed \/ WriteDisconnects
  <2>1. target \in Ids
    BY <1>5 DEF OperatorWriteFailed, WriteDisconnects, AfterWriteFailed, SessionInv
  <2> QED
    BY <1>5, <2>1, <1>1 DEF OperatorWriteFailed, SetError, WriteDisconnects,
       AfterWriteFailed,
       acceptVars
<1>6. ASSUME NEW id \in Ids, OperatorWrite(id)
      PROVE  UNCHANGED <<acceptLoop, reader>> /\ sessionMap' \subseteq sessionMap
  BY <1>6 DEF OperatorWrite, RemoveOnError, acceptVars
<1>7. CASE TakeAcceptTask \/ AcceptAborted \/ AcceptLoopHead \/ ClientConnects
  BY <1>7 DEF TakeAcceptTask, AcceptAborted, AcceptLoopHead, ClientConnects, DrawIds,
     AcceptGo,
     AcceptStep
<1>8. CASE Refuse
  BY <1>8, <1>1, cur \in Ids DEF Refuse, AcceptStep, TypeOK
<1>9. CASE Crash
  BY <1>9 DEF Crash, TypeOK
<1>10. ASSUME NEW id \in Ids,
              \/ ReaderContinues(id) \/ PeerCloses(id)
              \/ \E input \in Inputs : Receive(id, input)
       PROVE  /\ acceptLoop' = acceptLoop
              /\ sessionMap' \subseteq sessionMap
              /\ \A i \in Ids : reader[i] \in Over \cup {"crashed"} => reader'[i] = reader[i]
  <2>1. CASE TakeReadTask(id) \/ GetSession(id) \/ ReaderLoopHead(id) \/ BeginRead(id)
    BY <2>1 DEF TakeReadTask, GetSession, ReaderLoopHead, BeginRead, ReaderGo, ReaderStep,
       acceptVars, TypeOK, Over
  <2>2. CASE ReadError(id) \/ Reply(id) \/ \E input \in Inputs : Receive(id, input)
    BY <2>2 DEF ReadError, Reply, Receive, EndRead, ReaderStep, RemoveOnError, acceptVars,
       TypeOK, Over
  <2>3. CASE ReadFailed(id) \/ ReaderDisconnects(id)
    BY <2>3, <1>1 DEF ReadFailed, SetError, ReaderDisconnects, ReaderStep, acceptVars,
       TypeOK,
       Over
  <2>4. CASE PeerCloses(id)
    BY <2>4 DEF PeerCloses, acceptVars
  <2> QED
    BY <1>10, <2>1, <2>2, <2>3, <2>4 DEF ReaderContinues
<1>11. CASE UNCHANGED vars
  BY <1>11 DEF vars, acceptVars, sessionVars
<1>12. ASSUME NEW id \in Ids,
              \/ ReaderContinues(id) \/ PeerCloses(id)
              \/ \E input \in Inputs : Receive(id, input)
       PROVE  Served' \subseteq Served
  BY <1>10, <1>12 DEF TypeOK
<1> QED
  BY <1>2, <1>3, <1>4, <1>5, <1>6, <1>7, <1>8, <1>9, <1>10, <1>11, <1>12,
     OperatorDisconnectCases
     DEF Next, OwnerStep, OwnerContinues, AcceptContinues, RefuseNull, Finished

\* Without multiConnect one session at most is in the map and read from, also
\* while the one that was refused and the one that is served fail or go away.
THEOREM OneServed == Spec => []OneSessionRead
<1>1. Init => SingleInv
  <2>1. Init => Served = {} /\ acceptLoop # "spawn"
    BY DEF Init, Served
  <2> QED
    BY <2>1, FS_EmptySet DEF SingleInv
<1>2. IInv /\ SingleInv /\ [Next]_vars => SingleInv'
  <2> SUFFICES ASSUME IInv, SingleInv, [Next]_vars, ~multiConnect PROVE SingleInv'
    BY DEF SingleInv
  <2>0. Served \subseteq sessionMap /\ sessionMap \in SUBSET Ids
    BY DEF Served, IInv, TypeOK
  <2>1. CASE InsertSession
    <3>1. cur \in Ids /\ reader[cur] \in {"none", "crashed"}
      BY <2>1 DEF InsertSession, AcceptStep, IInv, AcceptInv, SessionInv, Fresh
    <3>2. Served' = Served /\ acceptLoop' # "spawn"
      BY <2>1, <3>1 DEF InsertSession, AcceptStep, Served, Over
    <3> QED
      BY <3>2 DEF SingleInv
  <2>2. CASE SpawnReader
    <3>1. Served' \subseteq sessionMap /\ acceptLoop = "spawn" /\ acceptLoop' = "loop"
      BY <2>2 DEF SpawnReader, AcceptStep, Served
    <3> QED
      BY <2>0, <3>1, FewerSessions DEF SingleInv
  <2>3. CASE CheckCount
    <3>1. IsFiniteSet(Ids)
      BY BoundsAssumption, FS_Interval DEF Ids
    <3>2. Cardinality(sessionMap) \in Nat
      BY <2>0, <3>1, FS_Subset, FS_CardinalityType
    <3>3. Served' = Served /\ sessionMap' = sessionMap
      BY <2>3 DEF CheckCount, RefuseIf, AcceptGo, Served
    <3>4. acceptLoop' = "spawn" => ~(Cardinality(sessionMap) > 1)
      BY <2>3 DEF CheckCount, RefuseIf, AcceptGo, AcceptStep
    <3> QED
      BY <3>2, <3>3, <3>4 DEF SingleInv
  <2>4. CASE ~InsertSession /\ ~SpawnReader /\ ~CheckCount
    <3>1. /\ sessionMap' \in SUBSET sessionMap
          /\ Served' \in SUBSET Served
          /\ acceptLoop' = "spawn" => acceptLoop = "spawn"
      BY <2>4, OtherSteps
    <3>2. Served \in SUBSET Ids
      BY <2>0
    <3> QED
      BY <2>0, <3>1, <3>2, FewerSessions DEF SingleInv
  <2> QED
    BY <2>1, <2>2, <2>3, <2>4
<1>3. SingleInv => OneSessionRead
  BY DEF SingleInv, OneSessionRead, Served
<1> QED
  BY Invariance, <1>1, <1>2, <1>3, PTL DEF Spec

-----------------------------------------------------------------------------
(* A session lives once.                                                     *)

\* What a step keeps of session id: an id that was drawn is not drawn again, a
\* session that has left the map, closed its socket or failed stays so, and it
\* is given one reader at most, which is not begun again when it is over.
LivesOnce(id) ==
    /\ Fresh(id)' => Fresh(id)
    /\ ~Fresh(id) /\ id \notin sessionMap => id \notin sessionMap'
    /\ socket[id] = "closed" => socket'[id] = "closed"
    /\ criticalError[id] => criticalError'[id]
    /\ reader'[id] = "ready" => reader[id] = "ready" \/ (reader[id] = "none" /\ ~Fresh(id))
    /\ reader[id] \in {"done", "threw"} => reader'[id] \in {reader[id], "crashed"}

\* No thread brings a session back, whichever of the owner, the accept loop, its
\* reader and its client ended it (segment_server.cpp:12-16 and 45-62).
SessionsLiveOnce == [][\A id \in Ids : LivesOnce(id)]_vars

\* The steps that draw no id, insert no session and start no reader.
LEMMA OthersLiveOnce ==
    ASSUME IInv, NEW id \in Ids,
           UNCHANGED cur,
           acceptLoop' \in {"accept", "insert"} => acceptLoop' = acceptLoop,
           sessionMap' \subseteq sessionMap,
           \A i \in Ids : socket[i] = "closed" => socket'[i] = "closed",
           \A i \in Ids : criticalError[i] => criticalError'[i],
           \A i \in Ids : reader[i] \in Over \cup {"ready"} =>
                             reader'[i] \in {reader[i], "crashed"}
                             \/ (reader[i] = "ready" /\ reader'[i] = "get"),
           \A i \in Ids : reader[i] # "ready" => reader'[i] # "ready"
    PROVE  LivesOnce(id)
  BY DEF LivesOnce, Fresh, Over

\* What Session::disconnect keeps of every session.
LEMMA DisconnectKeepsClosed ==
    ASSUME IInv, NEW id \in Ids, Disconnect(id)
    PROVE  /\ sessionMap' \subseteq sessionMap
           /\ \A i \in Ids : socket[i] = "closed" => socket'[i] = "closed"
  BY DEF Disconnect, IInv, TypeOK

\* The owner and the operator end sessions, and begin none.
LEMMA OwnerLivesOnce ==
    ASSUME IInv, NEW id \in Ids,
           \/ Start \/ Stop \/ OwnerContinues \/ Crash
           \/ \E i \in Ids : OperatorWrite(i) \/ OperatorDisconnect(i)
    PROVE  LivesOnce(id)
<1>1. CASE Start
  <2>1. /\ UNCHANGED <<cur, criticalError, reader>>
        /\ acceptLoop' \in {"queued", acceptLoop}
        /\ sessionMap' = {}
        /\ \A i \in Ids : socket[i] = "closed" => socket'[i] = "closed"
    BY <1>1 DEF Start, ReplaceSessionManager
  <2> QED
    BY <2>1, OthersLiveOnce
<1>2. CASE OwnerStep
  <2>1. UNCHANGED <<acceptLoop, cur, sessionMap, socket, criticalError, reader>>
    BY <1>2 DEF OwnerStep, SetIsWork, Stop, CloseAcceptor, CopyMap, CountSessions,
       KeepSnapshotIf, FlushMain, FlushSessions, OwnerGo, sessionVars
  <2> QED
    BY <2>1, OthersLiveOnce
<1>3. ASSUME NEW i \in Ids, OperatorDisconnects(i) \/ DisconnectNext(i) PROVE LivesOnce(id)
  <2>1. UNCHANGED <<acceptLoop, cur, criticalError, reader>> /\ Disconnect(i)
    BY <1>3 DEF OperatorDisconnects, DisconnectNext, acceptVars
  <2> QED
    BY <2>1, DisconnectKeepsClosed, OthersLiveOnce
<1>4. CASE OperatorWriteFailed
  <2>1. /\ UNCHANGED <<acceptLoop, cur, reader, sessionMap, socket>>
        /\ criticalError' = [criticalError EXCEPT ![target] = TRUE]
    BY <1>4 DEF OperatorWriteFailed, SetError, acceptVars
  <2>2. \A i \in Ids : criticalError[i] => criticalError'[i]
    BY <2>1 DEF IInv, TypeOK
  <2> QED
    BY <2>1, <2>2, OthersLiveOnce
<1>7. CASE WriteDisconnects
  <2>1. /\ UNCHANGED <<acceptLoop, cur, reader, criticalError>> /\ Disconnect(target)
        /\ target \in Ids
    BY <1>7 DEF WriteDisconnects, AfterWriteFailed, acceptVars, IInv, SessionInv
  <2> QED
    BY <2>1, DisconnectKeepsClosed, OthersLiveOnce
<1>5. ASSUME NEW i \in Ids, OperatorWrite(i) PROVE LivesOnce(id)
  <2>1. /\ UNCHANGED <<acceptLoop, cur, socket, criticalError, reader>>
        /\ sessionMap' \subseteq sessionMap
    BY <1>5 DEF OperatorWrite, RemoveOnError, acceptVars
  <2> QED
    BY <2>1, OthersLiveOnce
<1>6. CASE Crash
  <2>1. /\ UNCHANGED <<cur, sessionMap, criticalError>> /\ acceptLoop' = "crashed"
        /\ \A i \in Ids : reader'[i] = "crashed"
        /\ \A i \in Ids : socket[i] = "closed" => socket'[i] = "closed"
    BY <1>6 DEF Crash
  <2> QED
    BY <2>1, OthersLiveOnce
<1> QED
  BY <1>1, <1>2, <1>3, <1>4, <1>5, <1>6, <1>7, OperatorDisconnectCases
     DEF OwnerStep, OwnerContinues

\* The accept loop draws an id, connects it once and starts its one reader.
LEMMA AcceptLivesOnce ==
    ASSUME IInv, NEW id \in Ids, AcceptContinues \/ ClientConnects, ~RefuseNull
    PROVE  LivesOnce(id)
<1>1. CASE TakeAcceptTask \/ AcceptAborted \/ CheckCount
  <2>1. /\ UNCHANGED <<cur, sessionMap, socket, criticalError, reader>>
        /\ acceptLoop' \notin {"accept", "insert"}
    BY <1>1 DEF TakeAcceptTask, AcceptAborted, CheckCount, RefuseIf, AcceptGo, AcceptStep
  <2> QED
    BY <2>1, OthersLiveOnce
<1>2. CASE Refuse
  <2>1. /\ UNCHANGED <<cur, criticalError, reader>> /\ acceptLoop' = "loop"
        /\ cur \in Ids /\ Disconnect(cur)
    BY <1>2 DEF Refuse, AcceptStep, IInv, TypeOK
  <2> QED
    BY <2>1, DisconnectKeepsClosed, OthersLiveOnce
<1>3. CASE AcceptLoopHead
  <2>1. /\ acceptLoop = "loop" /\ cur' \in {cur, cur + 1}
        /\ acceptLoop' = "accept" => cur' = cur + 1
        /\ acceptLoop' \in {"accept", "ended"}
        /\ UNCHANGED <<sessionMap, socket, criticalError, reader>>
    BY <1>3 DEF AcceptLoopHead, DrawIds, AcceptStep
  <2>2. cur \in Nat
    BY DEF IInv, TypeOK
  <2>3. Fresh(id)' => Fresh(id)
    BY <2>1, <2>2 DEF Fresh, Ids
  <2> QED
    BY <2>1, <2>3 DEF LivesOnce
<1>4. CASE ClientConnects
  <2>1. /\ acceptLoop = "accept" /\ acceptLoop' = "insert"
        /\ socket' = [socket EXCEPT ![cur] = "open"]
        /\ UNCHANGED <<cur, sessionMap, criticalError, reader>>
    BY <1>4 DEF ClientConnects, AcceptStep
  <2>2. cur \in Ids /\ socket[cur] = "none"
    BY <2>1 DEF IInv, AcceptInv, SessionInv, Fresh
  <2> QED
    BY <2>1, <2>2 DEF LivesOnce, Fresh, IInv, TypeOK
<1>5. CASE InsertSession
  <2>1. /\ acceptLoop = "insert" /\ acceptLoop' = "check_count"
        /\ sessionMap' = sessionMap \cup {cur}
        /\ UNCHANGED <<cur, socket, criticalError, reader>>
    BY <1>5 DEF InsertSession, AcceptStep
  <2>2. Fresh(cur)
    BY <2>1 DEF Fresh
  <2> QED
    BY <2>1, <2>2 DEF LivesOnce, Fresh
<1>6. CASE SpawnReader
  <2>1. /\ acceptLoop = "spawn" /\ acceptLoop' = "loop"
        /\ reader' = reader \/ reader' = [reader EXCEPT ![cur] = "ready"]
        /\ UNCHANGED <<cur, sessionMap, socket, criticalError>>
    BY <1>6 DEF SpawnReader, AcceptStep
  <2>2. cur \in Ids /\ reader[cur] = "none" /\ ~Fresh(cur)
    BY <2>1 DEF IInv, AcceptInv, Fresh, TypeOK
  <2> QED
    BY <2>1, <2>2 DEF LivesOnce, Fresh, IInv, TypeOK
<1> QED
  BY <1>1, <1>2, <1>3, <1>4, <1>5, <1>6 DEF AcceptContinues

\* A reader goes on with its own session, and clients close their own end.
LEMMA ReaderLivesOnce ==
    ASSUME IInv, NEW id \in Ids, NEW r \in Ids,
           \/ ReaderContinues(r) \/ PeerCloses(r)
           \/ \E input \in Inputs : Receive(r, input)
    PROVE  LivesOnce(id)
<1>1. CASE TakeReadTask(r) \/ GetSession(r) \/ ReaderLoopHead(r) \/ BeginRead(r)
  <2>1. /\ UNCHANGED <<acceptLoop, cur, sessionMap, socket, criticalError>>
        /\ reader[r] \in {"ready", "get", "loop", "read"}
        /\ \E to \in {"get", "loop", "read", "recv", "done"} :
             reader' = [reader EXCEPT ![r] = to]
        /\ reader[r] = "ready" => reader'[r] = "get"
    BY <1>1 DEF TakeReadTask, GetSession, ReaderLoopHead, BeginRead, ReaderGo, ReaderStep,
       acceptVars, IInv, TypeOK
  <2> QED
    BY <2>1, OthersLiveOnce DEF IInv, TypeOK, Over
<1>2. CASE ReadError(r) \/ Reply(r) \/ \E input \in Inputs : Receive(r, input)
  <2>1. /\ UNCHANGED <<acceptLoop, cur, socket, criticalError>>
        /\ sessionMap' \subseteq sessionMap
        /\ reader[r] \in {"recv", "reply"}
        /\ \E to \in {"failed", "loop", "reply", "threw"} :
             reader' = [reader EXCEPT ![r] = to]
    BY <1>2 DEF ReadError, Reply, Receive, EndRead, ReaderStep, RemoveOnError, acceptVars
  <2> QED
    BY <2>1, OthersLiveOnce DEF IInv, TypeOK, Over
<1>3. CASE ReadFailed(r)
  <2>1. /\ UNCHANGED <<acceptLoop, cur, sessionMap, socket>>
        /\ reader[r] = "failed" /\ reader' = [reader EXCEPT ![r] = "disconnect"]
        /\ criticalError' = [criticalError EXCEPT ![r] = TRUE]
    BY <1>3 DEF ReadFailed, SetError, ReaderStep, acceptVars
  <2>2. \A i \in Ids : criticalError[i] => criticalError'[i]
    BY <2>1 DEF IInv, TypeOK
  <2> QED
    BY <2>1, <2>2, OthersLiveOnce DEF IInv, TypeOK, Over
<1>5. CASE ReaderDisconnects(r)
  <2>1. /\ UNCHANGED <<acceptLoop, cur, criticalError>> /\ Disconnect(r)
        /\ reader[r] = "disconnect" /\ reader' = [reader EXCEPT ![r] = "loop"]
    BY <1>5 DEF ReaderDisconnects, ReaderStep, acceptVars
  <2> QED
    BY <2>1, DisconnectKeepsClosed, OthersLiveOnce DEF IInv, TypeOK, Over
<1>4. CASE PeerCloses(r)
  <2>1. UNCHANGED <<acceptLoop, cur, sessionMap, socket, criticalError, reader>>
    BY <1>4 DEF PeerCloses, acceptVars
  <2> QED
    BY <2>1, OthersLiveOnce
<1> QED
  BY <1>1, <1>2, <1>3, <1>4, <1>5 DEF ReaderContinues

\* An id is drawn once, and the session that it names is connected, inserted,
\* read, closed and removed once, in every interleaving of the three threads
\* that may end it.
THEOREM LifeOfASession == Spec => SessionsLiveOnce
<1> DEFINE Once == \A id \in Ids : LivesOnce(id)
<1>1. ASSUME IInv, [Next]_vars, NEW id \in Ids PROVE LivesOnce(id)
  <2>1. CASE UNCHANGED vars
    <3>1. UNCHANGED <<acceptLoop, cur, sessionMap, socket, criticalError, reader>>
      BY <2>1 DEF vars, acceptVars, sessionVars
    <3> QED
      BY <1>1, <3>1, OthersLiveOnce
  <2>2. CASE Next
    BY <1>1, <2>1, <2>2, OwnerLivesOnce, AcceptLivesOnce, ReaderLivesOnce
       DEF Next, AcceptContinues, RefuseNull, Finished
  <2> QED
    BY <1>1, <2>1, <2>2
<1>2. IInv /\ [Next]_vars => [Once]_vars
  BY <1>1
<1> QED
  BY Invariance, <1>2, PTL DEF Spec, SessionsLiveOnce
-----------------------------------------------------------------------------
(* The server keeps to the contract of its main worker.                      *)

\* Where the accept loop is while mainWorker runs it.
Accepting == {"loop", "accept", "insert", "check_count", "refuse", "spawn"}

\* mainWorker, seen from the server. Task n is the accept loop that the n-th
\* start hands to it; flush is called and returns in FlushMain.
MainMode    == IF starts > 1 \/ owner \in {"flush_sessions", "stopped"} THEN "draining" ELSE "open"
MainQueue   == IF acceptLoop = "queued" THEN <<1>> ELSE <<>>
MainRunning == IF acceptLoop \in Accepting THEN 1 ELSE 0
MainResult  == [n \in 1..MaxStarts |->
                  IF n > starts THEN "New"
                  ELSE IF n = 1 /\ acceptLoop = "ended" THEN "Success" ELSE "Work"]
MainLost    == 2..starts

MainWorker == INSTANCE TaskQueue WITH
    Tasks <- 1..MaxStarts, NoTask <- 0, Preset <- <<>>, mode <- MainMode,
    queue <- MainQueue, running <- MainRunning, result <- MainResult, lost <- MainLost

\* Only the first start has an accept loop: when the second is made, mainWorker
\* was flushed and its task has ended.
StartsInv ==
    /\ starts \in 0..MaxStarts
    /\ starts = 0 <=> owner = "idle"
    /\ starts > 1 /\ owner # "crashed" => acceptLoop = "ended"

\* The steps that neither call start, nor change the stage of the accept loop
\* or the mode of mainWorker.
LEMMA OtherStepsQueue ==
    ASSUME UNCHANGED <<starts, MainMode>>,
           UNCHANGED acceptLoop \/ (acceptLoop \in Accepting /\ acceptLoop' \in Accepting)
    PROVE  UNCHANGED MainWorker!vars
<1>1. UNCHANGED <<MainQueue, MainRunning>>
  BY DEF MainQueue, MainRunning, Accepting
<1>2. UNCHANGED <<MainResult, MainLost>>
  BY DEF MainResult, MainLost, Accepting
<1> QED
  BY <1>1, <1>2 DEF MainWorker!vars

\* start hands mainWorker one task more, which it takes the first time only.
LEMMA StartQueue ==
    ASSUME IInv, StartsInv, Start
    PROVE  StartsInv' /\ MainWorker!Next
<1>1. /\ starts < MaxStarts /\ starts' = starts + 1 /\ owner \in {"idle", "stopped"}
      /\ owner' = "starting"
      /\ acceptLoop' = IF acceptLoop = "none" THEN "queued" ELSE acceptLoop
      /\ starts \in Nat /\ MaxStarts \in Nat
  BY BoundsAssumption DEF Start, IInv, TypeOK
<1>2. CASE owner = "idle"
  <2>1. acceptLoop = "none" /\ acceptLoop' = "queued" /\ starts = 0 /\ starts' = 1
    BY <1>1, <1>2 DEF IInv, AcceptInv, StartsInv
  <2>2. MainMode = "open" /\ MainMode' = "open"
    BY <1>1, <1>2, <2>1 DEF MainMode
  <2>3. MainQueue = <<>> /\ MainQueue' = <<1>> /\ MainRunning = 0 /\ MainRunning' = 0
    BY <2>1 DEF MainQueue, MainRunning, Accepting
  <2>4. MainResult[1] = "New" /\ MainResult' = [MainResult EXCEPT ![1] = "Work"]
    BY <1>1, <2>1 DEF MainResult
  <2>5. MainLost' = MainLost
    BY <2>1 DEF MainLost
  <2>6. 1 \in 1..MaxStarts /\ <<1>> = Append(<<>>, 1)
    BY <1>1, <2>1
  <2>7. MainWorker!Submit(1)
    BY <2>2, <2>3, <2>4, <2>5, <2>6 DEF MainWorker!Submit
  <2> QED
    BY <1>1, <2>1, <2>6, <2>7 DEF StartsInv, MainWorker!Next
<1>3. CASE owner = "stopped"
  <2>1. acceptLoop = "ended" /\ acceptLoop' = "ended" /\ starts >= 1 /\ starts' > 1
    BY <1>1, <1>3 DEF IInv, OwnerInv, StartsInv
  <2>2. MainMode = "draining" /\ MainMode' = "draining"
    BY <1>3, <2>1 DEF MainMode
  <2>3. UNCHANGED <<MainQueue, MainRunning>>
    BY <2>1 DEF MainQueue, MainRunning
  <2>4. /\ MainResult[starts + 1] = "New"
        /\ MainResult' = [MainResult EXCEPT ![starts + 1] = "Work"]
    BY <1>1, <2>1 DEF MainResult
  <2>5. MainLost' = MainLost \cup {starts + 1}
    BY <1>1, <2>1 DEF MainLost
  <2>6. starts + 1 \in 1..MaxStarts
    BY <1>1, <2>1
  <2>7. MainWorker!Refuse(starts + 1)
    BY <2>2, <2>3, <2>4, <2>5 DEF MainWorker!Refuse
  <2> QED
    BY <1>1, <2>1, <2>6, <2>7 DEF StartsInv, MainWorker!Next
<1> QED
  BY <1>1, <1>2, <1>3

\* The thread of mainWorker begins the accept loop, and ends it.
LEMMA AcceptQueue ==
    ASSUME IInv, StartsInv, AcceptContinues \/ ClientConnects, ~RefuseNull
    PROVE  StartsInv' /\ [MainWorker!Next]_MainWorker!vars
<1>0. UNCHANGED <<starts, owner>> /\ MainMode' = MainMode
  <2>1. UNCHANGED <<starts, owner>>
    BY DEF AcceptContinues, ClientConnects, TakeAcceptTask, AcceptLoopHead, AcceptAborted,
       InsertSession, CheckCount, RefuseIf, Refuse, SpawnReader, DrawIds, AcceptGo,
       AcceptStep,
       ownerVars
  <2> QED
    BY <2>1 DEF MainMode
<1>1. CASE TakeAcceptTask
  <2>1. acceptLoop = "queued" /\ acceptLoop' = "loop"
    BY <1>1 DEF TakeAcceptTask, AcceptGo, AcceptStep
  <2>2. /\ MainQueue = <<1>> /\ MainQueue' = <<>> /\ MainRunning = 0 /\ MainRunning' = 1
        /\ UNCHANGED <<MainResult, MainLost>>
    BY <1>0, <2>1 DEF MainQueue, MainRunning, MainResult, MainLost, Accepting
  <2>3. <<1>> # <<>> /\ Head(<<1>>) = 1 /\ Tail(<<1>>) = <<>> /\ MainMode # "halted"
    BY DEF MainMode
  <2>4. MainWorker!Begin
    BY <1>0, <2>2, <2>3 DEF MainWorker!Begin
  <2>5. owner # "crashed"
    BY <2>1 DEF IInv, AcceptInv
  <2> QED
    BY <1>0, <2>1, <2>4, <2>5 DEF StartsInv, MainWorker!Next
<1>2. CASE AcceptLoopHead /\ ~isWork
  <2>1. acceptLoop = "loop" /\ acceptLoop' = "ended" /\ owner # "crashed"
    BY <1>2 DEF AcceptLoopHead, DrawIds, AcceptStep, IInv, AcceptInv
  <2>2. starts = 1 /\ 1 \in 1..MaxStarts
    BY <2>1, BoundsAssumption DEF IInv, AcceptInv, StartsInv
  <2>3. MainRunning = 1 /\ MainRunning' = 0 /\ UNCHANGED <<MainQueue, MainLost>>
    BY <1>0, <2>1 DEF MainQueue, MainRunning, MainLost, Accepting
  <2>4. MainResult' = [MainResult EXCEPT ![1] = "Success"]
    <3>1. starts' = 1 /\ acceptLoop # "ended"
      BY <1>0, <2>1, <2>2
    <3>2. \A n \in 1..MaxStarts : n > 1 <=> n # 1
      BY BoundsAssumption
    <3>3. MainResult = [n \in 1..MaxStarts |-> IF n # 1 THEN "New" ELSE "Work"]
      BY <2>2, <3>1, <3>2 DEF MainResult
    <3>4. MainResult' = [n \in 1..MaxStarts |-> IF n # 1 THEN "New" ELSE "Success"]
      BY <2>1, <3>1, <3>2 DEF MainResult
    <3> QED
      BY <2>2, <3>3, <3>4
  <2>5. MainWorker!End("Success")
    BY <1>0, <2>3, <2>4 DEF MainWorker!End
  <2> QED
    BY <1>0, <2>1, <2>5 DEF StartsInv, MainWorker!Next
<1>3. ASSUME \/ AcceptLoopHead /\ isWork
             \/ AcceptAborted \/ InsertSession \/ CheckCount \/ Refuse \/ SpawnReader
             \/ ClientConnects
      PROVE  StartsInv' /\ [MainWorker!Next]_MainWorker!vars
  <2>1. acceptLoop \in Accepting /\ acceptLoop' \in Accepting
    BY <1>3 DEF AcceptLoopHead, AcceptAborted, InsertSession, CheckCount, RefuseIf, Refuse,
       SpawnReader, ClientConnects, DrawIds, AcceptGo, AcceptStep, Accepting
  <2>2. owner # "crashed" /\ acceptLoop # "ended"
    BY <2>1 DEF IInv, AcceptInv, Accepting
  <2> QED
    BY <1>0, <2>1, <2>2, OtherStepsQueue DEF StartsInv
<1> QED
  BY <1>1, <1>2, <1>3 DEF AcceptContinues

\* The owner's other steps and the readers: flush drains mainWorker.
LEMMA OwnerQueue ==
    ASSUME IInv, StartsInv, Stop \/ OwnerContinues
    PROVE  StartsInv' /\ [MainWorker!Next]_MainWorker!vars
<1>0. UNCHANGED <<starts, acceptLoop>> /\ owner \notin {"idle", "stopped", "crashed"}
      /\ owner' \notin {"idle", "crashed"}
  BY DEF Stop, OwnerContinues, SetIsWork, OperatorWriteFailed, WriteDisconnects,
     AfterWriteFailed, CloseAcceptor, CopyMap,
     CountSessions, KeepSnapshotIf, DisconnectNext, FlushMain, FlushSessions, OwnerGo,
     acceptVars
<1>1. StartsInv'
  BY <1>0 DEF StartsInv
<1>2. CASE FlushMain
  <2>1. UNCHANGED <<MainQueue, MainRunning, MainResult, MainLost>> /\ MainMode' = "draining"
    BY <1>0, <1>2 DEF FlushMain, OwnerGo, MainMode, MainQueue, MainRunning, MainResult,
       MainLost
  <2>2. MainMode # "draining" => MainWorker!Drain
    BY <2>1 DEF MainWorker!Drain
  <2> QED
    BY <1>1, <2>1, <2>2 DEF MainWorker!Next, MainWorker!vars
<1>3. CASE ~FlushMain
  <2>1. owner \in {"flush_sessions", "stopped"} <=> owner' \in {"flush_sessions", "stopped"}
    BY <1>3 DEF Stop, OwnerContinues, SetIsWork, OperatorWriteFailed, WriteDisconnects,
       AfterWriteFailed, CloseAcceptor, CopyMap,
       CountSessions, KeepSnapshotIf, DisconnectNext, FlushSessions, OwnerGo
  <2>2. MainMode' = MainMode
    BY <1>0, <2>1 DEF MainMode
  <2> QED
    BY <1>0, <1>1, <2>2, OtherStepsQueue
<1> QED
  BY <1>2, <1>3

\* Until the process ends on a null session, every step is one of mainWorker's.
LEMMA StepQueue ==
    IInv /\ StartsInv /\ [Next]_vars =>
        StartsInv' /\ (owner' # "crashed" => [MainWorker!Next]_MainWorker!vars)
<1> SUFFICES ASSUME IInv, StartsInv, [Next]_vars
             PROVE  StartsInv' /\ (owner' # "crashed" => [MainWorker!Next]_MainWorker!vars)
  OBVIOUS
<1>1. ASSUME UNCHANGED <<starts, acceptLoop>>,
             owner' = owner \/ (owner = "serving" /\ owner' = "write_failed")
      PROVE  StartsInv' /\ [MainWorker!Next]_MainWorker!vars
  <2>1. UNCHANGED MainMode
    BY <1>1 DEF MainMode
  <2> QED
    BY <1>1, <2>1, OtherStepsQueue DEF StartsInv
<1>2. ASSUME NEW id \in Ids, OperatorWrite(id) \/ OperatorDisconnects(id) \/ PeerCloses(id)
      PROVE  StartsInv' /\ [MainWorker!Next]_MainWorker!vars
  BY <1>1, <1>2 DEF OperatorWrite, OperatorDisconnects, PeerCloses, ownerVars, acceptVars
<1>3. ASSUME NEW id \in Ids, ReaderContinues(id) \/ \E input \in Inputs : Receive(id, input)
      PROVE  StartsInv' /\ [MainWorker!Next]_MainWorker!vars
  <2>1. UNCHANGED <<ownerVars, acceptVars>>
    BY <1>3 DEF ReaderContinues, Receive, TakeReadTask, GetSession, ReaderLoopHead,
       BeginRead,
       ReadError, Reply, ReadFailed, ReaderDisconnects, EndRead, ReaderGo, ReaderStep
  <2> QED
    BY <1>1, <2>1 DEF ownerVars, acceptVars
<1>4. ASSUME UNCHANGED vars PROVE StartsInv' /\ [MainWorker!Next]_MainWorker!vars
  BY <1>1, <1>4 DEF vars, ownerVars, acceptVars
<1>5. ASSUME Crash, owner \notin {"idle"} PROVE StartsInv' /\ owner' = "crashed"
  BY <1>5 DEF Crash, StartsInv
<1>6. ASSUME RefuseNull PROVE StartsInv' /\ owner' = "crashed"
  BY <1>5, <1>6 DEF RefuseNull, IInv, AcceptInv
<1>7. ASSUME owner = "serving", Crash PROVE StartsInv' /\ owner' = "crashed"
  BY <1>5, <1>7
<1> QED
  BY <1>2, <1>3, <1>4, <1>6, <1>7, StartQueue, AcceptQueue, OwnerQueue,
     OperatorDisconnectCases
     DEF Next, Finished

\* Until a null session is dereferenced, the accept loop is a task of mainWorker
\* as TaskQueue has it, and start and stop are calls that TaskQueue allows: the
\* second start's loop is refused (segment_server.cpp:45, 81; worker.cpp:109-111).
THEOREM UsesTaskQueue ==
    Spec => MainWorker!Init /\ [][owner' # "crashed" => [MainWorker!Next]_MainWorker!vars]_vars
<1> DEFINE Kept == owner' # "crashed" => [MainWorker!Next]_MainWorker!vars
<1>1. Init => MainWorker!Init /\ StartsInv
  <2> SUFFICES ASSUME Init PROVE MainWorker!Init /\ StartsInv
    OBVIOUS
  <2>1. starts = 0 /\ owner = "idle" /\ acceptLoop = "none"
    BY DEF Init
  <2>2. MainMode = "open" /\ MainQueue = <<>> /\ MainRunning = 0 /\ MainLost = {}
    BY <2>1 DEF MainMode, MainQueue, MainRunning, MainLost, Accepting
  <2>3. MainResult = [n \in 1..MaxStarts |-> "New"]
    BY <2>1, BoundsAssumption DEF MainResult
  <2>4. MainWorker!Pending = {}
    BY <2>2 DEF MainWorker!Pending
  <2> QED
    BY <2>1, <2>2, <2>3, <2>4, BoundsAssumption DEF MainWorker!Init, StartsInv
<1>2. IInv /\ StartsInv /\ [Next]_vars => StartsInv'
  BY StepQueue
<1>3. IInv /\ StartsInv /\ [Next]_vars => [Kept]_vars
  BY StepQueue
<1> QED
  BY Invariance, <1>1, <1>2, <1>3, PTL DEF Spec

-----------------------------------------------------------------------------
(* The server keeps to the contract of the workers of its sessions.          *)

\* Where sessionWork is while the session's worker runs it.
Reading == {"get", "loop", "read", "recv", "reply", "failed", "disconnect"}

\* The worker of session id, seen from the server. Its one task is named by the
\* id; SpawnReader makes the worker and hands it the task, and its flush is
\* called after that of mainWorker.
SessionMode        == MainMode
SessionQueue(id)   == IF reader[id] = "ready" THEN <<id>> ELSE <<>>
SessionRunning(id) == IF reader[id] \in Reading THEN id ELSE 0
SessionOutcome(id) == CASE reader[id] = "none"  -> "New"
                        [] reader[id] = "done"  -> "Success"
                        [] reader[id] = "threw" -> "Error"
                        [] OTHER                -> "Work"
SessionResult(id)  == [t \in {id} |-> SessionOutcome(id)]

SessionWorker(id) == INSTANCE TaskQueue WITH
    Tasks <- {id}, NoTask <- 0, Preset <- <<>>, mode <- SessionMode,
    queue <- SessionQueue(id), running <- SessionRunning(id), result <- SessionResult(id),
    lost <- {}

\* The steps that do not change what the worker of session id is at.
LEMMA OtherStepsSession ==
    ASSUME NEW id \in Ids, UNCHANGED SessionMode,
           UNCHANGED reader[id] \/ (reader[id] \in Reading /\ reader'[id] \in Reading)
    PROVE  UNCHANGED SessionWorker(id)!vars
<1>1. UNCHANGED <<SessionQueue(id), SessionRunning(id), SessionOutcome(id)>>
  BY DEF SessionQueue, SessionRunning, SessionOutcome, Reading
<1> QED
  BY <1>1 DEF SessionResult, SessionWorker!vars

\* The life of the task: handed over, begun, run and ended.
LEMMA SessionTask ==
    ASSUME NEW id \in Ids, UNCHANGED SessionMode,
           \/ UNCHANGED reader[id]
           \/ reader[id] = "none" /\ reader'[id] = "ready" /\ SessionMode = "open"
           \/ reader[id] = "ready" /\ reader'[id] = "get"
           \/ reader[id] \in Reading /\ reader'[id] \in Reading \cup {"done", "threw"}
    PROVE  [SessionWorker(id)!Next]_(SessionWorker(id)!vars)
<1>0. id # 0 /\ SessionMode \in {"open", "draining"}
  BY BoundsAssumption DEF Ids, SessionMode, MainMode
<1>1. CASE reader[id] = "none" /\ reader'[id] = "ready" /\ SessionMode = "open"
  <2>1. /\ SessionQueue(id) = <<>> /\ SessionQueue(id)' = <<id>>
        /\ SessionRunning(id) = 0 /\ SessionRunning(id)' = 0
    BY <1>1 DEF SessionQueue, SessionRunning, Reading
  <2>2. SessionOutcome(id) = "New" /\ SessionOutcome(id)' = "Work"
    BY <1>1 DEF SessionOutcome
  <2>3. /\ SessionResult(id)[id] = "New"
        /\ SessionResult(id)' = [SessionResult(id) EXCEPT ![id] = "Work"]
    BY <2>2 DEF SessionResult
  <2>4. <<id>> = Append(<<>>, id)
    OBVIOUS
  <2>5. SessionWorker(id)!Submit(id)
    BY <1>1, <2>1, <2>3, <2>4 DEF SessionWorker!Submit
  <2> QED
    BY <2>5 DEF SessionWorker!Next
<1>2. CASE reader[id] = "ready" /\ reader'[id] = "get"
  <2>1. /\ SessionQueue(id) = <<id>> /\ SessionQueue(id)' = <<>>
        /\ SessionRunning(id) = 0 /\ SessionRunning(id)' = id
    BY <1>2 DEF SessionQueue, SessionRunning, Reading
  <2>2. SessionOutcome(id) = "Work" /\ SessionOutcome(id)' = "Work"
    BY <1>2 DEF SessionOutcome
  <2>3. SessionResult(id)' = SessionResult(id)
    BY <2>2 DEF SessionResult
  <2>4. <<id>> # <<>> /\ Head(<<id>>) = id /\ Tail(<<id>>) = <<>>
    OBVIOUS
  <2>5. SessionWorker(id)!Begin
    BY <1>0, <2>1, <2>3, <2>4 DEF SessionWorker!Begin
  <2> QED
    BY <2>5 DEF SessionWorker!Next
<1>3. CASE reader[id] \in Reading /\ reader'[id] \in {"done", "threw"}
  <2>1. /\ SessionQueue(id) = <<>> /\ SessionQueue(id)' = <<>>
        /\ SessionRunning(id) = id /\ SessionRunning(id)' = 0
    BY <1>3 DEF SessionQueue, SessionRunning, Reading
  <2>2. SessionOutcome(id)' \in {"Success", "Error"}
    BY <1>3 DEF SessionOutcome
  <2>3. SessionResult(id)' = [SessionResult(id) EXCEPT ![id] = SessionOutcome(id)']
    BY DEF SessionResult
  <2>4. SessionWorker(id)!End(SessionOutcome(id)')
    BY <1>0, <2>1, <2>3 DEF SessionWorker!End
  <2> QED
    BY <2>2, <2>4 DEF SessionWorker!Next
<1>4. CASE UNCHANGED reader[id] \/ (reader[id] \in Reading /\ reader'[id] \in Reading)
  BY <1>4, OtherStepsSession
<1> QED
  BY <1>1, <1>2, <1>3, <1>4

\* SpawnReader finds the worker of its session new, and open.
LEMMA SpawnSession ==
    ASSUME IInv, StartsInv, NEW id \in Ids, SpawnReader
    PROVE  [SessionWorker(id)!Next]_(SessionWorker(id)!vars)
<1>1. /\ acceptLoop = "spawn" /\ UNCHANGED <<starts, owner>>
      /\ reader' = reader \/ reader' = [reader EXCEPT ![cur] = "ready"]
  BY DEF SpawnReader, AcceptStep, ownerVars
<1>2. reader[cur] = "none" /\ owner # "crashed" /\ owner \notin {"flush_sessions", "stopped"}
  BY <1>1 DEF IInv, AcceptInv, OwnerInv
<1>3. ~(starts > 1)
  BY <1>1, <1>2 DEF StartsInv
<1>4. SessionMode = "open" /\ SessionMode' = "open"
  BY <1>1, <1>2, <1>3 DEF SessionMode, MainMode
<1>5. (reader[id] = "none" /\ reader'[id] = "ready") \/ UNCHANGED reader[id]
  BY <1>1, <1>2 DEF IInv, TypeOK
<1> QED
  BY <1>4, <1>5, SessionTask

\* A session's own thread runs its task; those of the other sessions do not.
LEMMA ReaderSession ==
    ASSUME IInv, NEW id \in Ids, NEW r \in Ids,
           ReaderContinues(r) \/ \E input \in Inputs : Receive(r, input)
    PROVE  [SessionWorker(id)!Next]_(SessionWorker(id)!vars)
<1>1. UNCHANGED SessionMode
  <2>1. UNCHANGED <<starts, owner>>
    BY DEF ReaderContinues, Receive, TakeReadTask, GetSession, ReaderLoopHead, BeginRead,
       ReadError, Reply, ReadFailed, ReaderDisconnects, EndRead, ReaderGo, ReaderStep,
       ownerVars
  <2> QED
    BY <2>1 DEF SessionMode, MainMode
<1>2. \E to \in ReaderLabels :
         /\ reader' = [reader EXCEPT ![r] = to]
         /\ \/ reader[r] = "ready" /\ to = "get"
            \/ reader[r] \in Reading /\ to \in Reading \cup {"done", "threw"}
  <2>1. CASE TakeReadTask(r) \/ GetSession(r) \/ ReaderLoopHead(r) \/ BeginRead(r)
        \/ ReadFailed(r) \/ ReaderDisconnects(r)
    BY <2>1 DEF TakeReadTask, GetSession, ReaderLoopHead, BeginRead, ReadFailed,
       ReaderDisconnects, ReaderGo, ReaderStep, Reading, ReaderLabels
  <2>2. CASE ReadError(r) \/ Reply(r) \/ \E input \in Inputs : Receive(r, input)
    BY <2>2 DEF ReadError, Reply, Receive, EndRead, ReaderStep, Reading, ReaderLabels
  <2> QED
    BY <2>1, <2>2 DEF ReaderContinues
<1>3. \/ UNCHANGED reader[id]
      \/ reader[id] = "ready" /\ reader'[id] = "get"
      \/ reader[id] \in Reading /\ reader'[id] \in Reading \cup {"done", "threw"}
  BY <1>2 DEF IInv, TypeOK
<1> QED
  BY <1>1, <1>3, SessionTask

\* The other threads leave a session's task alone, and stop drains its worker.
LEMMA DrainSession ==
    ASSUME NEW id \in Ids, UNCHANGED reader[id],
           UNCHANGED SessionMode \/ SessionMode' = "draining"
    PROVE  [SessionWorker(id)!Next]_(SessionWorker(id)!vars)
<1>1. CASE UNCHANGED SessionMode
  BY <1>1, OtherStepsSession
<1>2. CASE SessionMode # "draining" /\ SessionMode' = "draining"
  <2>1. UNCHANGED <<SessionQueue(id), SessionRunning(id), SessionOutcome(id)>>
    BY DEF SessionQueue, SessionRunning, SessionOutcome
  <2>2. SessionWorker(id)!Drain
    BY <1>2, <2>1 DEF SessionWorker!Drain, SessionResult
  <2> QED
    BY <2>2 DEF SessionWorker!Next
<1> QED
  BY <1>1, <1>2

\* Each start but the first finds the workers of the sessions flushed.
LEMMA StartSession ==
    ASSUME IInv, StartsInv, NEW id \in Ids, Start
    PROVE  [SessionWorker(id)!Next]_(SessionWorker(id)!vars)
<1>1. /\ starts' = starts + 1 /\ owner \in {"idle", "stopped"} /\ owner' = "starting"
      /\ UNCHANGED reader /\ starts \in Nat
  BY DEF Start, IInv, TypeOK
<1>2. CASE owner = "idle"
  <2>1. SessionMode = "open" /\ SessionMode' = "open"
    BY <1>1, <1>2 DEF SessionMode, MainMode, StartsInv
  <2> QED
    BY <1>1, <2>1, DrainSession
<1>3. CASE owner = "stopped"
  <2>1. starts' > 1
    BY <1>1, <1>3 DEF StartsInv
  <2> QED
    BY <1>1, <2>1, DrainSession DEF SessionMode, MainMode
<1> QED
  BY <1>1, <1>2, <1>3

\* The owner's other steps: stop flushes the workers of the sessions.
LEMMA OwnerSession ==
    ASSUME NEW id \in Ids, Stop \/ OwnerContinues
    PROVE  [SessionWorker(id)!Next]_(SessionWorker(id)!vars)
<1>1. UNCHANGED <<starts, reader>>
  BY DEF Stop, OwnerContinues, SetIsWork, OperatorWriteFailed, WriteDisconnects,
     AfterWriteFailed, CloseAcceptor, CopyMap,
     CountSessions, KeepSnapshotIf, DisconnectNext, FlushMain, FlushSessions, OwnerGo
<1>2. owner \in {"flush_sessions", "stopped"} => owner' \in {"flush_sessions", "stopped"}
  BY DEF Stop, OwnerContinues, SetIsWork, OperatorWriteFailed, WriteDisconnects,
     AfterWriteFailed, CloseAcceptor, CopyMap,
     CountSessions, KeepSnapshotIf, DisconnectNext, FlushMain, FlushSessions, OwnerGo
<1> QED
  BY <1>1, <1>2, DrainSession DEF SessionMode, MainMode

\* Until the process ends on a null session, every step is one of the worker's.
LEMMA StepSession ==
    ASSUME IInv, StartsInv, NEW id \in Ids, [Next]_vars, owner' # "crashed"
    PROVE  [SessionWorker(id)!Next]_(SessionWorker(id)!vars)
<1>1. ASSUME UNCHANGED <<starts, reader>>,
             owner' = owner \/ (owner = "serving" /\ owner' = "write_failed")
      PROVE  [SessionWorker(id)!Next]_(SessionWorker(id)!vars)
  <2>1. UNCHANGED SessionMode
    BY <1>1 DEF SessionMode, MainMode
  <2> QED
    BY <1>1, <2>1, DrainSession
<1>2. ASSUME NEW i \in Ids, OperatorWrite(i) \/ OperatorDisconnects(i) \/ PeerCloses(i)
      PROVE  [SessionWorker(id)!Next]_(SessionWorker(id)!vars)
  BY <1>1, <1>2 DEF OperatorWrite, OperatorDisconnects, PeerCloses, ownerVars
<1>3. ASSUME \/ TakeAcceptTask \/ AcceptLoopHead \/ AcceptAborted \/ InsertSession
             \/ CheckCount \/ Refuse \/ ClientConnects
      PROVE  [SessionWorker(id)!Next]_(SessionWorker(id)!vars)
  <2>1. UNCHANGED <<starts, owner, reader>>
    BY <1>3 DEF TakeAcceptTask, AcceptLoopHead, AcceptAborted, InsertSession, CheckCount,
       RefuseIf, Refuse, ClientConnects, DrawIds, AcceptGo, AcceptStep, ownerVars
  <2> QED
    BY <1>1, <2>1
<1>4. ASSUME UNCHANGED vars PROVE [SessionWorker(id)!Next]_(SessionWorker(id)!vars)
  BY <1>1, <1>4 DEF vars, ownerVars
<1>5. ~Crash
  BY DEF Crash
<1> QED
  BY <1>2, <1>3, <1>4, <1>5, StartSession, OwnerSession, SpawnSession, ReaderSession,
     OperatorDisconnectCases
     DEF Next, AcceptContinues, RefuseNull, Finished

\* Until a null session is dereferenced, each session is read by a task of its
\* own Worker as TaskQueue has it: handed over once, begun once, ended once, and
\* never refused (segment_server.cpp:54-58, 83-85; worker.cpp:104-115, 141-150).
THEOREM SessionsUseTaskQueue ==
    ASSUME NEW id \in Ids
    PROVE  Spec =>
             /\ SessionWorker(id)!Init
             /\ [][owner' # "crashed" =>
                     [SessionWorker(id)!Next]_(SessionWorker(id)!vars)]_vars
<1> DEFINE Kept == owner' # "crashed" => [SessionWorker(id)!Next]_(SessionWorker(id)!vars)
<1>1. Init => SessionWorker(id)!Init /\ StartsInv
  <2> SUFFICES ASSUME Init PROVE SessionWorker(id)!Init /\ StartsInv
    OBVIOUS
  <2>1. starts = 0 /\ owner = "idle" /\ reader[id] = "none"
    BY DEF Init
  <2>2. /\ SessionMode = "open" /\ SessionQueue(id) = <<>> /\ SessionRunning(id) = 0
        /\ SessionResult(id) = [t \in {id} |-> "New"]
    BY <2>1 DEF SessionMode, MainMode, SessionQueue, SessionRunning, SessionResult,
       SessionOutcome, Reading
  <2>3. SessionWorker(id)!Pending = {}
    BY <2>2 DEF SessionWorker!Pending
  <2> QED
    BY <2>1, <2>2, <2>3, BoundsAssumption DEF SessionWorker!Init, StartsInv
<1>2. IInv /\ StartsInv /\ [Next]_vars => StartsInv'
  BY StepQueue
<1>3. IInv /\ StartsInv /\ [Next]_vars => [Kept]_vars
  BY StepSession
<1> QED
  BY Invariance, <1>1, <1>2, <1>3, PTL DEF Spec
=============================================================================
