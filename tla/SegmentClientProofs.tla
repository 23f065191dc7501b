------------------------ MODULE SegmentClientProofs ------------------------
(***************************************************************************)
(* Theorems about SegmentClient, for any number of starts and whatever the *)
(* server sends, closes or refuses.                                        *)
(***************************************************************************)
EXTENDS SegmentClient, TLAPS

\* Nothing is queued and nothing runs in mainWorker.
Quiet == queue = <<>> /\ running = 0

\* What makes StoppedQuietly inductive: how far start and stop have come. While
\* start connects, the previous read task is gone; a start that could not
\* connect has flushed mainWorker, which then refuses the read task; once stop
\* has disconnected, nobody opens the socket again before the next start.
CallInv ==
    /\ owner = "idle" => starts = 0
    /\ owner # "idle" => starts \in 1..MaxStarts
    /\ owner \in {"idle", "connect", "stopped"} => Quiet /\ socket # "open"
    /\ owner \in {"flush", "wait", "stopped"} => socket # "open"
    /\ owner \in {"idle", "disconnect", "flush", "wait", "stopped"} => ~isWork
    /\ owner \in {"connect", "serving"} => isWork
    /\ owner = "add_task" => Quiet /\ (isWork \/ (mode = "draining" /\ socket # "open"))
    /\ owner = "wait" => mode = "draining"
    /\ inStart => owner \in {"flush", "wait"} /\ Quiet

\* The inductive invariant.
IInv == TypeOK /\ CallInv

-----------------------------------------------------------------------------
\* Before the first start nothing is connected.
LEMMA InitIInv == Init => IInv
<1> SUFFICES ASSUME Init PROVE IInv
  OBVIOUS
<1>1. mode = "open" /\ queue = <<>> /\ running = 0
  BY DEF Init, MainWorker!Init
<1>2. 0 \in 0..MaxStarts /\ <<>> \in Seq(1..MaxStarts)
  BY StartsAssumption
<1>3. TypeOK
  BY <1>1, <1>2 DEF Init, TypeOK, OwnerLabels
<1>4. CallInv
  BY <1>1 DEF Init, CallInv, Quiet
<1> QED
  BY <1>3, <1>4 DEF IInv

\* The steps of start, stop and write.
LEMMA OwnerStepInv ==
    IInv /\ (Start \/ WriteFails \/ CallDisconnect \/ Stop \/ OwnerContinues) => IInv'
<1> SUFFICES ASSUME IInv, Start \/ WriteFails \/ CallDisconnect \/ Stop \/ OwnerContinues
             PROVE  IInv'
  OBVIOUS
<1> USE StartsAssumption DEF IInv, TypeOK, OwnerLabels, CallInv, Quiet, OwnerStep, sessionVars,
                             workerVars
<1>1. CASE Start
  BY <1>1 DEF Start
<1>2. CASE Connect \/ ConnectFails
  <2>1. CASE Connect
    BY <2>1 DEF Connect
  <2>2. CASE ConnectFails
    BY <2>2 DEF ConnectFails
  <2> QED
    BY <1>2, <2>1, <2>2
<1>3. CASE AddReadTask
  <2>1. CASE MainWorker!Submit(starts)
    <3>1. mode = "open" /\ queue' = Append(queue, starts) /\ UNCHANGED <<mode, running>>
      BY <2>1 DEF MainWorker!Submit
    <3>2. Append(queue, starts) \in Seq(1..MaxStarts)
      BY <1>3 DEF AddReadTask
    <3> QED
      BY <1>3, <3>1, <3>2 DEF AddReadTask
  <2>2. CASE MainWorker!Refuse(starts)
    BY <1>3, <2>2 DEF AddReadTask, MainWorker!Refuse
  <2> QED
    BY <1>3, <2>1, <2>2 DEF AddReadTask
<1>0. Disconnect => socket' \in {"none", "closed"}
  BY DEF Disconnect
<1>4. CASE WriteFails \/ CallDisconnect
  <2>1. /\ owner = "serving" /\ owner' = "serving" /\ Disconnect
        /\ serverClosed' = serverClosed /\ criticalError' \in {criticalError, TRUE}
        /\ UNCHANGED <<isWork, starts, inStart, reader, workerVars>>
    BY <1>4 DEF WriteFails, CallDisconnect, Fail
  <2>2. TypeOK'
    BY <1>0, <2>1
  <2>3. CallInv'
    BY <2>1
  <2> QED
    BY <2>2, <2>3
<1>5. CASE Stop \/ StopDisconnects
  <2>1. CASE Stop
    BY <2>1 DEF Stop
  <2>2. CASE StopDisconnects
    BY <1>0, <2>2 DEF StopDisconnects
  <2> QED
    BY <1>5, <2>1, <2>2
<1>6. CASE Flush
  BY <1>6 DEF Flush, MainWorker!Drain
<1>7. CASE FlushReturns
  BY <1>7 DEF FlushReturns, FlushReturnsWhen
<1> QED
  BY <1>1, <1>2, <1>3, <1>4, <1>5, <1>6, <1>7 DEF OwnerContinues

\* The steps of the read task. It runs only while start or stop are not at a
\* point where mainWorker has been found idle.
LEMMA ReaderStepInv ==
    IInv /\ (Reader \/ \E input \in Inputs : Receive(input)) => IInv'
<1> SUFFICES ASSUME IInv, Reader \/ \E input \in Inputs : Receive(input)
             PROVE  IInv'
  OBVIOUS
<1> USE DEF IInv, TypeOK, CallInv, Quiet, ReaderStep, sessionVars, workerVars
<1>1. CASE TakeTask
  <2>1. queue # <<>> /\ running' = Head(queue) /\ queue' = Tail(queue) /\ mode' = mode
    BY <1>1 DEF TakeTask, MainWorker!Begin
  <2>2. ASSUME NEW S, NEW s \in Seq(S), s # <<>> PROVE Head(s) \in S /\ Tail(s) \in Seq(S)
    BY <2>2
  <2>3. Head(queue) \in 1..MaxStarts /\ Tail(queue) \in Seq(1..MaxStarts)
    BY <2>1, <2>2
  <2>4. Head(queue) # 0 /\ Head(queue) \in 0..MaxStarts
    BY <2>3, StartsAssumption
  <2> QED
    BY <1>1, <2>1, <2>3, <2>4 DEF TakeTask
<1>2. ASSUME NEW from \in {"loop", "recv"}, NEW r, EndTask(from, r) PROVE IInv'
  BY <1>2, StartsAssumption DEF EndTask, MainWorker!End
<1>3. ASSUME NEW ec, EndRead(ec) PROVE IInv'
  BY <1>3 DEF EndRead, Fail, Disconnect
<1>4. CASE LoopHead \/ BeginRead
  BY <1>4 DEF LoopHead, BeginRead, ReaderGo
<1> QED
  BY <1>1, <1>2, <1>3, <1>4 DEF Reader, LoopEnds, ReadError, Receive

\* Every step preserves the invariant.
LEMMA IInvStep == IInv /\ [Next]_vars => IInv'
<1> SUFFICES ASSUME IInv, [Next]_vars PROVE IInv'
  OBVIOUS
<1>1. CASE ServerCloses
  BY <1>1 DEF ServerCloses, IInv, TypeOK, CallInv, Quiet, workerVars
<1>2. CASE UNCHANGED vars
  BY <1>2 DEF vars, IInv, TypeOK, CallInv, Quiet, sessionVars, workerVars
<1> QED
  BY <1>1, <1>2, OwnerStepInv, ReaderStepInv DEF Next, AllStopped

\* The threads of the client never leave the invariant.
THEOREM Invariance == Spec => []IInv
<1> QED
  BY InitIInv, IInvStep, PTL DEF Spec

\* The variables of the client keep their types, and the read task is in its
\* loop exactly while mainWorker runs it.
THEOREM TypeCorrect == Spec => []TypeOK
<1>1. IInv => TypeOK
  BY DEF IInv
<1> QED
  BY Invariance, <1>1, PTL

\* When stop has returned, after a session or inside a start that could not
\* connect, the session is closed and nobody reads from it or ever will.
THEOREM StopsQuietly == Spec => []StoppedQuietly
<1>1. IInv => StoppedQuietly
  BY DEF IInv, CallInv, Quiet, StoppedQuietly
<1> QED
  BY Invariance, <1>1, PTL

-----------------------------------------------------------------------------
\* What makes ReadsUntilRestart inductive: during the first start mainWorker
\* takes the read task, an error has closed the socket, and once the task is
\* over either an exception has ended it or an error has.
FirstInv ==
    /\ result \in [1..MaxStarts -> {"New", "Work", "Success", "Error"}]
    /\ starts = 0 => owner = "idle" /\ mode = "open" /\ ~criticalError
    /\ starts = 1 =>
         /\ queue \in {<<>>, <<1>>} /\ running \in {0, 1}
         /\ criticalError => socket # "open"
         /\ owner = "connect" => ~criticalError /\ mode = "open"
         /\ owner = "add_task" /\ isWork => mode = "open"
         /\ owner = "serving" /\ Quiet => result[1] = "Error" \/ socket # "open"

\* Before the first start there is nothing to say.
LEMMA InitFirst == Init => FirstInv
<1> SUFFICES ASSUME Init PROVE FirstInv
  OBVIOUS
<1>1. /\ mode = "open" /\ starts = 0 /\ owner = "idle" /\ ~criticalError
      /\ result \in [1..MaxStarts -> {"New", "Work"}]
  BY DEF Init, MainWorker!Init
<1> QED
  BY <1>1 DEF FirstInv

\* The owner's steps: the read task is queued, the socket closed.
LEMMA OwnerStepFirst ==
    IInv /\ FirstInv /\ (Start \/ WriteFails \/ CallDisconnect \/ Stop \/ OwnerContinues)
        => FirstInv'
<1> SUFFICES ASSUME IInv, FirstInv,
                    Start \/ WriteFails \/ CallDisconnect \/ Stop \/ OwnerContinues
             PROVE  FirstInv'
  OBVIOUS
<1> USE StartsAssumption DEF IInv, TypeOK, CallInv, FirstInv, Quiet, OwnerStep, sessionVars,
                             workerVars
<1>1. CASE Start
  BY <1>1 DEF Start
<1>2. CASE Connect
  BY <1>2 DEF Connect
<1>3. CASE ConnectFails
  BY <1>3 DEF ConnectFails
<1>4. CASE AddReadTask
  <2>1. /\ owner = "add_task" /\ owner' = IF isWork THEN "serving" ELSE "stopped"
        /\ UNCHANGED <<isWork, starts, inStart, socket, criticalError>>
        /\ starts \in 1..MaxStarts /\ Quiet
    BY <1>4 DEF AddReadTask
  <2>2. result' = [result EXCEPT ![starts] = "Work"]
    BY <1>4 DEF AddReadTask, MainWorker!Submit, MainWorker!Refuse
  <2>3. result' \in [1..MaxStarts -> {"New", "Work", "Success", "Error"}]
    BY <2>2
  <2>4. CASE MainWorker!Submit(starts)
    <3>1. queue' = <<starts>> /\ UNCHANGED <<mode, running>>
      BY <2>1, <2>4 DEF MainWorker!Submit
    <3> QED
      BY <2>1, <2>3, <3>1
  <2>5. CASE MainWorker!Refuse(starts)
    <3>1. mode # "open" /\ UNCHANGED <<mode, queue, running>>
      BY <2>5 DEF MainWorker!Refuse
    <3> QED
      BY <2>1, <2>3, <3>1
  <2> QED
    BY <1>4, <2>4, <2>5 DEF AddReadTask
<1>5. CASE WriteFails \/ CallDisconnect
  <2>1. /\ owner = "serving" /\ socket' # "open"
        /\ UNCHANGED <<isWork, starts, owner, inStart, reader, workerVars>>
    BY <1>5 DEF WriteFails, CallDisconnect, Fail, Disconnect
  <2> QED
    BY <2>1
<1>6. CASE Stop \/ StopDisconnects
  BY <1>6 DEF Stop, StopDisconnects, Disconnect
<1>7. CASE Flush
  BY <1>7 DEF Flush, MainWorker!Drain
<1>8. CASE FlushReturns
  BY <1>8 DEF FlushReturns, FlushReturnsWhen
<1> QED
  BY <1>1, <1>2, <1>3, <1>4, <1>5, <1>6, <1>7, <1>8 DEF OwnerContinues

\* The steps of the read task: while the program works it ends by an error or
\* by an exception.
LEMMA ReaderStepFirst ==
    IInv /\ FirstInv /\ (Reader \/ \E input \in Inputs : Receive(input)) => FirstInv'
<1> SUFFICES ASSUME IInv, FirstInv, Reader \/ \E input \in Inputs : Receive(input)
             PROVE  FirstInv'
  OBVIOUS
<1> USE StartsAssumption DEF IInv, TypeOK, CallInv, FirstInv, Quiet, ReaderStep, sessionVars,
                             workerVars
<1>1. CASE TakeTask
  <2>1. /\ queue # <<>> /\ running' = Head(queue) /\ queue' = Tail(queue)
        /\ UNCHANGED <<mode, result, starts, owner, isWork, socket, criticalError>>
    BY <1>1 DEF TakeTask, MainWorker!Begin
  <2>2. queue = <<1>> => running' = 1 /\ queue' = <<>>
    BY <2>1
  <2> QED
    BY <2>1, <2>2
<1>2. ASSUME NEW from \in {"loop", "recv"}, NEW r \in {"Success", "Error"}, EndTask(from, r),
             r = "Error" \/ ~isWork \/ criticalError
      PROVE  FirstInv'
  <2>1. /\ running # 0 /\ running' = 0 /\ result' = [result EXCEPT ![running] = r]
        /\ UNCHANGED <<mode, queue, starts, owner, isWork, socket, criticalError>>
    BY <1>2 DEF EndTask, MainWorker!End
  <2>2. result' \in [1..MaxStarts -> {"New", "Work", "Success", "Error"}]
    BY <2>1
  <2>3. starts = 1 /\ r = "Error" => result'[1] = "Error"
    BY <2>1
  <2> QED
    BY <1>2, <2>1, <2>2, <2>3
<1>3. ASSUME NEW ec, EndRead(ec) PROVE FirstInv'
  <2>1. /\ reader = "recv" /\ socket' \in {socket, "closed"}
        /\ criticalError' # criticalError => socket' # "open"
        /\ UNCHANGED <<mode, queue, running, result, starts, owner, isWork>>
    BY <1>3 DEF EndRead, Fail, Disconnect
  <2> QED
    BY <2>1
<1>4. CASE LoopHead \/ BeginRead
  BY <1>4 DEF LoopHead, BeginRead, ReaderGo
<1> QED
  BY <1>1, <1>2, <1>3, <1>4 DEF Reader, LoopEnds, ReadError, Receive

\* From the first start until an exception in a read, a connected client has a
\* thread that reads from it or is about to, whatever the server and the user do
\* (segment_client.cpp:34-38).
THEOREM FirstStartReads == Spec => []ReadsUntilRestart
<1>1. IInv /\ FirstInv /\ [Next]_vars => FirstInv'
  <2> SUFFICES ASSUME IInv, FirstInv, [Next]_vars PROVE FirstInv'
    OBVIOUS
  <2>1. CASE ServerCloses
    BY <2>1 DEF ServerCloses, FirstInv, Quiet, workerVars
  <2>2. CASE UNCHANGED vars
    BY <2>2 DEF vars, FirstInv, Quiet, sessionVars, workerVars
  <2> QED
    BY <2>1, <2>2, OwnerStepFirst, ReaderStepFirst DEF Next, AllStopped
<1>2. FirstInv => ReadsUntilRestart
  BY DEF FirstInv, Quiet, ReadsUntilRestart
<1>3. Spec => []FirstInv
  BY InitFirst, Invariance, <1>1, PTL DEF Spec
<1> QED
  BY <1>2, <1>3, PTL
-----------------------------------------------------------------------------
(* The client keeps to the contract of its worker.                           *)

\* A step of the owner leaves mainWorker alone, hands it a task that it has
\* not seen, or flushes it while it does not drain.
LEMMA OwnerStepQueue ==
    IInv /\ (Start \/ WriteFails \/ CallDisconnect \/ Stop \/ OwnerContinues)
        => [MainWorker!Next]_workerVars
<1> SUFFICES ASSUME IInv, Start \/ WriteFails \/ CallDisconnect \/ Stop \/ OwnerContinues
             PROVE  [MainWorker!Next]_workerVars
  OBVIOUS
<1>1. CASE AddReadTask
  <2>1. starts \in 1..MaxStarts
    BY <1>1 DEF AddReadTask, OwnerStep, IInv, CallInv
  <2> QED
    BY <1>1, <2>1 DEF AddReadTask, MainWorker!Next
<1>2. CASE Flush
  BY <1>2 DEF Flush, MainWorker!Next
<1>3. CASE \/ Start \/ Connect \/ ConnectFails \/ WriteFails \/ CallDisconnect \/ Stop
           \/ StopDisconnects \/ FlushReturns
  BY <1>3 DEF Start, Connect, ConnectFails, WriteFails, CallDisconnect, Stop,
     StopDisconnects, FlushReturns, FlushReturnsWhen
<1> QED
  BY <1>1, <1>2, <1>3 DEF OwnerContinues

\* A step of the read task begins it, ends it or leaves mainWorker alone.
LEMMA ReaderStepQueue ==
    (Reader \/ \E input \in Inputs : Receive(input)) => [MainWorker!Next]_workerVars
<1> SUFFICES ASSUME Reader \/ \E input \in Inputs : Receive(input)
             PROVE  [MainWorker!Next]_workerVars
  OBVIOUS
<1>1. CASE TakeTask
  BY <1>1 DEF TakeTask, MainWorker!Next
<1>2. ASSUME NEW from, NEW r \in {"Success", "Error"}, EndTask(from, r) PROVE MainWorker!Next
  BY <1>2 DEF EndTask, MainWorker!Next
<1>3. ASSUME NEW ec, EndRead(ec) PROVE UNCHANGED workerVars
  BY <1>3 DEF EndRead
<1>4. CASE LoopHead \/ BeginRead
  BY <1>4 DEF LoopHead, BeginRead, ReaderGo
<1> QED
  BY <1>1, <1>2, <1>3, <1>4 DEF Reader, LoopEnds, ReadError, Receive

\* The calls that the client makes of its worker are legal ones, in any order of
\* its two threads: it submits each task once, and what it relies on in return
\* is no more than TaskQueue promises and Worker implements (worker.cpp:95-158).
THEOREM UsesTaskQueue == Spec => MainWorker!Spec
<1>1. Init => MainWorker!Init
  BY DEF Init
<1>2. IInv /\ [Next]_vars => [MainWorker!Next]_workerVars
  <2>1. ASSUME ServerCloses \/ UNCHANGED vars PROVE UNCHANGED workerVars
    BY <2>1 DEF ServerCloses, vars
  <2> QED
    BY <2>1, OwnerStepQueue, ReaderStepQueue DEF Next, AllStopped
<1>3. [MainWorker!Next]_workerVars => [MainWorker!Next]_MainWorker!vars
  BY DEF workerVars, MainWorker!vars
<1>4. IInv /\ [Next]_vars => [MainWorker!Next]_MainWorker!vars
  BY <1>2, <1>3
<1> QED
  BY <1>1, <1>4, Invariance, PTL DEF Spec, MainWorker!Spec
=============================================================================
