------------------------------- MODULE Worker -------------------------------
(***************************************************************************)
(* core/worker: one thread that runs the tasks of a queue, one after the   *)
(* other, and the calls that start, stop and drain it.                     *)
(*                                                                         *)
(* The worker thread keeps mutex_tasks_data locked while it runs a task    *)
(* (worker.cpp:121-157 is one critical section): wpc = "running" is the    *)
(* only place where the mutex is held across steps, every other critical   *)
(* section is a single action, so "the mutex is free" is MutexFree and     *)
(* needs no variable.                                                      *)
(*                                                                         *)
(* Threads are: the worker thread (program counter wpc), the Controllers   *)
(* that call start, stop, flush and the destructor (program counters pc),  *)
(* and any number of submitters, whose addTask is one critical section.    *)
(***************************************************************************)
EXTENDS Naturals, Sequences, FiniteSets

CONSTANTS
    Tasks,          \* the tasks that may ever be submitted
    NoTask,         \* current_task = nullptr
    Controllers,    \* the threads that call start, stop, flush, ~Worker
    Calls,          \* the calls they make
    Preset          \* the queue given to Worker(queue), <<>> for Worker(ms)

AllCalls == {"start", "stop", "stop_clear", "flush", "destroy"}

\* Overlapping calls of start, stop and ~Worker are a data race on `thread`
\* (worker.cpp:39, 58-61): what they do is undefined, and the repository
\* makes them from one thread only. Overlapping calls of flush are defined.
ASSUME CallsAssumption ==
    /\ Calls \subseteq AllCalls
    /\ (\E c \in Controllers : Controllers = {c}) \/ Calls = {"flush"}
ASSUME TaskAssumption == NoTask \notin Tasks
\* A queue that is given holds each of its tasks once.
ASSUME PresetAssumption ==
    /\ Preset \in Seq(Tasks)
    /\ \A i, j \in 1..Len(Preset) : Preset[i] = Preset[j] => i = j

VARIABLES
    status,         \* Worker::status
    tasks,          \* Worker::tasks
    current_task,   \* Worker::current_task
    thread,         \* Worker::thread is not null
    wpc,            \* where the worker thread is
    pc,             \* where each controller is
    dying,          \* the controllers that are inside ~Worker
    taskStatus,     \* Task::status; "New" for a task that is not created yet
    dropped,        \* history: the tasks that were ignored or cleared
    aborted         \* std::terminate was called

queueVars == <<tasks, current_task, taskStatus, dropped>>
callVars == <<pc, dying, aborted>>
vars == <<status, queueVars, thread, wpc, callVars>>

Queued == {tasks[i] : i \in 1..Len(tasks)}
\* Mutation: the task is run with the mutex released.
MutexReleased == TRUE
MutexFree == wpc # "running"
Open == status \in {"Wait", "Work"}

Init ==
    /\ status = "Wait"
    /\ tasks = Preset
    /\ current_task = NoTask
    /\ thread = TRUE
    /\ wpc = "loop"
    /\ pc = [c \in Controllers |-> "idle"]
    /\ dying = {}
    /\ taskStatus = [t \in Tasks |-> IF t \in Queued THEN "Work" ELSE "New"]
    /\ dropped = {}
    /\ aborted = FALSE

-----------------------------------------------------------------------------
(* The condition variable. A sleeper that is notified has to take the mutex *)
(* and evaluate its predicate again.                                        *)

WorkerNotified == IF wpc = "asleep" THEN "lock" ELSE wpc
\* Mutation: notify_all is forgotten.
NotifiedNever(p) == p
Notified(p) == [c \in Controllers |-> IF p[c] = "asleep" THEN "drain" ELSE p[c]]

\* The predicate of the worker's wait_for (worker.cpp:122-124).
WorkToDo == tasks # <<>> \/ status \in {"Stop", "Flush"}

-----------------------------------------------------------------------------
(* addTask. The controllers sleep only while the status is Flush (see        *)
(* SleepersFlush), so the thread that notify_one wakes is the worker.        *)

Submit(t) ==
    /\ dying = {}
    /\ MutexFree
    /\ taskStatus[t] = "New"
    /\ taskStatus' = [taskStatus EXCEPT ![t] = "Work"]
    /\ UNCHANGED <<status, current_task, thread, callVars>>

Push(t) == tasks' = Append(tasks, t) /\ wpc' = WorkerNotified /\ UNCHANGED dropped

\* Mutation: addTask forgets that a worker in Flush takes no task.
AddTaskInFlush(t) == Submit(t) /\ status # "Stop" /\ Push(t)
AddTask(t) == Submit(t) /\ status \notin {"Stop", "Flush"} /\ Push(t)

AddTaskIgnored(t) ==
    /\ Submit(t)
    /\ status \in {"Stop", "Flush"}
    /\ dropped' = dropped \cup {t}
    /\ UNCHANGED <<tasks, wpc>>

-----------------------------------------------------------------------------
(* The calls of the controllers.                                             *)

\* Controller c goes on from one label to the next; nothing else changes.
Go(c, from, to) ==
    /\ pc[c] = from
    /\ pc' = [pc EXCEPT ![c] = to]
    /\ UNCHANGED <<status, queueVars, thread, wpc, dying, aborted>>

CallStop(c) == "stop" \in Calls /\ Go(c, "idle", "stop")
CallStopClear(c) == "stop_clear" \in Calls /\ Go(c, "idle", "stop_clear")
CallFlush(c) == "flush" \in Calls /\ Go(c, "idle", "flush")

\* ~Worker, up to the destruction of the members: it goes on with stop(true)
\* if the atomic status, read without the mutex, is one of `stopped`.
DestroyUnless(c, stopped) ==
    /\ "destroy" \in Calls
    /\ pc[c] = "idle"
    /\ pc' = [pc EXCEPT ![c] = IF status \in stopped THEN "stop_clear" ELSE "free"]
    /\ dying' = dying \cup {c}
    /\ UNCHANGED <<status, queueVars, thread, wpc, aborted>>
\* Mutation: ~Worker stops a worker that waits, and not one that works.
DestroyWaiting(c) == DestroyUnless(c, {"Wait"})
Destroy(c) == DestroyUnless(c, {"Wait", "Work"})

\* start takes no lock. Assigning to `thread` while it holds a joinable thread
\* destroys that thread object, which calls std::terminate.
Start(c) ==
    /\ pc[c] = "idle"
    /\ "start" \in Calls
    /\ status = "Stop"
    /\ status' = "Wait"
    /\ thread' = TRUE
    /\ wpc' = "loop"
    /\ aborted' = thread
    /\ UNCHANGED <<queueVars, pc, dying>>

\* Where stop returns to: inside ~Worker, to the destruction of the members.
Return(c) == IF c \in dying THEN "free" ELSE "idle"

StopIgnored(c) ==
    /\ MutexFree
    /\ status = "Stop"
    /\ Go(c, "stop", Return(c)) \/ Go(c, "stop_clear", Return(c))

StopLock(c) ==
    /\ pc[c] \in {"stop", "stop_clear"}
    /\ MutexFree
    /\ status # "Stop"
    /\ status' = "Stop"
    /\ IF pc[c] = "stop_clear"
       THEN /\ tasks' = <<>>
            /\ dropped' = dropped \cup Queued
            /\ current_task' = NoTask
       ELSE UNCHANGED <<tasks, dropped, current_task>>
    /\ wpc' = WorkerNotified
    /\ pc' = [Notified(pc) EXCEPT ![c] = "join"]
    /\ UNCHANGED <<thread, dying, taskStatus, aborted>>

FlushIgnored(c) == MutexFree /\ status = "Flush" /\ Go(c, "flush", "idle")

SetFlush(c) ==
    /\ MutexFree
    /\ pc[c] = "flush"
    /\ pc' = [pc EXCEPT ![c] = "notify"]
    /\ status' = "Flush"
    /\ UNCHANGED <<queueVars, thread, wpc, dying, aborted>>
\* Mutation: flush does not test the status it is about to set.
FlushLockAgain(c) == SetFlush(c)
FlushLock(c) == status # "Flush" /\ SetFlush(c)

\* flush notifies after it has released the mutex (worker.cpp:75).
FlushNotify(c) ==
    /\ pc[c] = "notify"
    /\ wpc' = WorkerNotified
    /\ pc' = [Notified(pc) EXCEPT ![c] = "drain"]
    /\ UNCHANGED <<status, queueVars, thread, dying, aborted>>

\* Mutation: flush does not wait for the queue to be empty.
FlushNoWait(c) == MutexFree /\ Go(c, "drain", "join")
FlushWait(c) == MutexFree /\ Go(c, "drain", IF tasks = <<>> THEN "join" ELSE "asleep")

\* The end of stop and of flush, which leaves `thread` as `handle`.
JoinAnd(c, handle) ==
    /\ pc[c] = "join"
    /\ thread => wpc = "exited"
    /\ thread' = handle
    /\ wpc' = "none"
    /\ pc' = [pc EXCEPT ![c] = Return(c)]
    /\ UNCHANGED <<status, queueVars, dying, aborted>>
\* Mutation: `thread` is not reset after the join.
JoinKeepsThread(c) == JoinAnd(c, thread)
Join(c) == JoinAnd(c, FALSE)

\* The members are destroyed; destroying a joinable thread calls std::terminate.
FreeMembers(c) ==
    /\ pc[c] = "free"
    /\ pc' = [pc EXCEPT ![c] = "gone"]
    /\ aborted' = thread
    /\ UNCHANGED <<status, queueVars, thread, wpc, dying>>

-----------------------------------------------------------------------------
(* runThreadTask, the body of the worker thread.                             *)

\* The worker goes on from one of the labels to the next.
Step(from, to) ==
    /\ wpc \in from
    /\ wpc' = to
    /\ UNCHANGED <<status, queueVars, thread, callVars>>

\* The loop condition, read without the mutex.
LoopHead == Step({"loop"}, IF status # "Stop" THEN "lock" ELSE "exited")

Sleep == ~WorkToDo /\ Step({"lock"}, "asleep")

\* The timer of wait_for runs out; the mutex is still to be taken.
TimerExpires == Step({"asleep"}, "expired")

\* Mutation: the thread leaves its loop when the timer runs out.
TimeoutLeaves == ~WorkToDo /\ Step({"expired"}, "exited")
\* wait_for returns false.
Timeout == ~WorkToDo /\ Step({"expired"}, "loop")

\* Mutation: in Flush the thread leaves without looking at the queue.
LeaveOnFlush == status \in {"Stop", "Flush"} /\ Step({"lock", "expired"}, "exited")
\* Mutation: the test of Stop after the wait is missing.
LeaveDrained == status = "Flush" /\ tasks = <<>> /\ Step({"lock", "expired"}, "exited")
Leave ==
    /\ status = "Stop" \/ (status = "Flush" /\ tasks = <<>>)
    /\ Step({"lock", "expired"}, "exited")

Take ==
    /\ wpc \in {"lock", "expired"}
    /\ tasks # <<>>
    /\ status # "Stop"
    /\ status' = IF status # "Flush" THEN "Work" ELSE status
    /\ current_task' = Head(tasks)
    /\ tasks' = Tail(tasks)
    /\ wpc' = "running"
    /\ UNCHANGED <<thread, taskStatus, dropped, callVars>>

\* The task returns (Success) or throws a std::exception (Error); the rest of
\* the loop body follows under the same lock.
Finish(r) ==
    /\ wpc = "running"
    /\ taskStatus' = [taskStatus EXCEPT ![current_task] = r]
    /\ IF status = "Stop"
       THEN wpc' = "exited" /\ UNCHANGED <<status, current_task, pc>>
       ELSE /\ wpc' = "loop"
            /\ current_task' = NoTask
            /\ IF tasks = <<>>
               THEN /\ status' = IF status # "Flush" THEN "Wait" ELSE status
                    /\ pc' = Notified(pc)
               ELSE UNCHANGED <<status, pc>>
    /\ UNCHANGED <<tasks, thread, dying, dropped, aborted>>

-----------------------------------------------------------------------------
WorkerThread ==
    \/ LoopHead \/ Sleep \/ TimerExpires \/ Timeout \/ Leave \/ Take
    \/ \E r \in {"Success", "Error"} : Finish(r)

\* The steps by which a call that was made goes on.
Continue(c) ==
    \/ StopIgnored(c) \/ StopLock(c)
    \/ FlushIgnored(c) \/ FlushLock(c) \/ FlushNotify(c) \/ FlushWait(c)
    \/ Join(c) \/ FreeMembers(c)

Controller(c) ==
    \/ CallStop(c) \/ CallStopClear(c) \/ CallFlush(c) \/ Destroy(c) \/ Start(c)
    \/ Continue(c)

\* The object is gone and its thread with it.
Gone ==
    /\ \E c \in Controllers : pc[c] = "gone"
    /\ UNCHANGED vars

Next ==
    \/ \E t \in Tasks : AddTask(t) \/ AddTaskIgnored(t)
    \/ \E c \in Controllers : Controller(c)
    \/ WorkerThread
    \/ Gone

\* A thread that can run does run, a timer that is set runs out, and every
\* task comes to an end; nobody is obliged to make a call. Weak fairness is
\* enough for the callers that wait for the mutex: the worker can keep it from
\* them only while there are tasks to run, and Tasks is finite.
Fairness ==
    /\ WF_vars(WorkerThread)
    /\ \A c \in Controllers : WF_vars(Continue(c))

Spec == Init /\ [][Next]_vars
FairSpec == Spec /\ Fairness

-----------------------------------------------------------------------------
(* Properties.                                                               *)

ControllerLabels == {"idle", "stop", "stop_clear", "flush", "notify", "drain",
                     "asleep", "join", "free", "gone"}
WorkerLabels == {"none", "loop", "lock", "asleep", "expired", "running", "exited"}

\* The variables have their types, and `thread` is null exactly when there is
\* no thread to join (worker.cpp:37, 60, 85).
TypeOK ==
    /\ status \in {"Wait", "Work", "Flush", "Stop"}
    /\ tasks \in Seq(Tasks)
    /\ current_task \in Tasks \cup {NoTask}
    /\ thread \in BOOLEAN
    /\ wpc \in WorkerLabels
    /\ pc \in [Controllers -> ControllerLabels]
    /\ dying \subseteq Controllers
    /\ taskStatus \in [Tasks -> {"New", "Work", "Success", "Error"}]
    /\ dropped \subseteq Tasks
    /\ aborted \in BOOLEAN
    /\ thread <=> wpc # "none"

\* No task is lost, run twice or left in two places: a task that exists and has
\* no result is queued once, is the current task, or was ignored or cleared; a
\* task with a result is in none of these (addTask, stop, runThreadTask).
TaskAccounting ==
    /\ \A i, j \in 1..Len(tasks) : tasks[i] = tasks[j] => i = j
    /\ \A t \in Tasks :
         taskStatus[t] = "Work" <=> t \in Queued \cup {current_task} \cup dropped
    /\ Queued \cap dropped = {}
    /\ current_task \notin Queued \cup dropped

\* A worker that accepts tasks has a live thread to run them: whatever the
\* order of start, stop and flush, addTask never queues a task behind a thread
\* that has left its loop.
OpenHasThread == Open => wpc \notin {"none", "exited"}

\* std::terminate is never reached: start never overwrites, and ~Worker never
\* destroys, a thread that was not joined, whatever calls were made before
\* (worker.cpp:27-32 stops only a worker that is waiting or working).
NoTerminate == ~aborted

\* stop waits for the running task and lets no other begin: no task runs while
\* the status is Stop, and when stop has returned there is no thread left.
StopIsQuiescent ==
    status = "Stop" =>
        /\ wpc # "running"
        /\ (\A c \in Controllers : pc[c] # "join") => wpc = "none"

\* Controller c is not between the critical section that closes the queue and
\* the end of the call.
Settled(c) == pc[c] \notin {"notify", "drain", "asleep", "join"}

\* Overlapping calls of flush never join the thread twice: of any number of
\* callers one at most is past the test of worker.cpp:71-72.
OneJoiner ==
    \A c, d \in Controllers :
        ~Settled(c) /\ ~Settled(d) => c = d

\* When a call of flush returns, no accepted task is queued or running
\* (README.md:112, "flush() - wait for all tasks to be executed").
FlushReturnsDrained ==
    [][\A c \in Controllers :
          pc[c] \in {"flush", "join"} /\ pc'[c] = "idle" /\ status' = "Flush"
              => tasks' = <<>> /\ current_task' = NoTask]_vars

\* The current task is the one the thread runs under the mutex.
RunningInv ==
    /\ wpc = "running" <=> current_task # NoTask
    /\ wpc = "running" => status \in {"Work", "Flush"}

\* The sleepers of flush share the condition variable with the worker, but
\* sleep only once addTask, with its notify_one, accepts nothing.
SleepersFlush ==
    \A c \in Controllers : pc[c] \in {"notify", "drain", "asleep"} => status = "Flush"

\* What a closed queue has left at each stage of the call that closed it.
ClosingInv ==
    /\ \A c \in Controllers : pc[c] = "join" => ~Open
    /\ status = "Flush" /\ (wpc = "exited" \/ \E c \in Controllers : pc[c] = "join")
           => tasks = <<>>
    /\ ~Open /\ (\A c \in Controllers : Settled(c)) =>
           wpc = "none" /\ (status = "Flush" => tasks = <<>>)
    /\ \A c \in Controllers : pc[c] \in {"free", "gone"} => wpc = "none"
    /\ Calls = {"flush"} =>
           /\ status # "Stop"
           /\ dying = {}
           /\ \A c \in Controllers :
                 pc[c] \in {"idle", "flush", "notify", "drain", "asleep", "join"}

\* The inductive invariant.
IInv ==
    /\ TypeOK
    /\ TaskAccounting
    /\ RunningInv
    /\ OpenHasThread
    /\ OneJoiner
    /\ SleepersFlush
    /\ ClosingInv
    /\ NoTerminate

Mode == IF Open THEN "open" ELSE IF status = "Flush" THEN "draining" ELSE "halted"

\* What the users of a Worker rely on: Worker implements TaskQueue.
Queue == INSTANCE TaskQueue WITH
    mode <- Mode,
    queue <- tasks,
    running <- current_task,
    result <- taskStatus,
    lost <- dropped
ImplementsTaskQueue == Queue!Spec

\* A task that is queued behind a live thread is run to its end, unless it is
\* cleared or the worker is stopped first.
AcceptedTaskEnds ==
    \A t \in Tasks :
        (t \in Queued /\ thread) ~>
            (taskStatus[t] \in {"Success", "Error"} \/ t \in dropped \/ status = "Stop")

\* flush returns when there is a thread to run the tasks that are left, or
\* none is left. (Otherwise it waits forever: FlushReturns.)
FlushReturnsIfServed ==
    \A c \in Controllers :
        (pc[c] = "flush" /\ (thread \/ tasks = <<>>)) ~> (pc[c] = "idle")

\* stop and ~Worker return.
StopReturns ==
    \A c \in Controllers :
        (pc[c] \in {"stop", "stop_clear"}) ~> (pc[c] \in {"idle", "gone"})

\* README.md:112: flush waits for all tasks to be executed - and so returns
\* once they are, which takes a thread to execute them.
FlushReturns ==
    \A c \in Controllers : (pc[c] = "flush") ~> (pc[c] = "idle")
=============================================================================
