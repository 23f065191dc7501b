---------------------------- MODULE WorkerProofs ----------------------------
(***************************************************************************)
(* Theorems about Worker, for every set of tasks, every set of controllers *)
(* and every choice of calls that the assumptions of Worker allow.         *)
(***************************************************************************)
EXTENDS Worker, TLAPS

-----------------------------------------------------------------------------
(* Facts about sequences seen as the sets of their elements.                 *)

Elements(s) == {s[i] : i \in 1..Len(s)}
Distinct(s) == \A i, j \in 1..Len(s) : s[i] = s[j] => i = j

\* Adding a task at the back (addTask) adds it to the queued tasks.
LEMMA AppendElements ==
    ASSUME NEW S, NEW s \in Seq(S), NEW e \in S
    PROVE  /\ Append(s, e) \in Seq(S)
           /\ Elements(Append(s, e)) = Elements(s) \cup {e}
           /\ Distinct(s) /\ e \notin Elements(s) => Distinct(Append(s, e))
<1>1. /\ Append(s, e) \in Seq(S)
      /\ Len(Append(s, e)) = Len(s) + 1
      /\ Append(s, e)[Len(s) + 1] = e
      /\ \A i \in 1..Len(s) : Append(s, e)[i] = s[i]
      /\ Len(s) \in Nat
  OBVIOUS
<1>2. Elements(Append(s, e)) = Elements(s) \cup {e}
  BY <1>1 DEF Elements
<1>3. Distinct(s) /\ e \notin Elements(s) => Distinct(Append(s, e))
  BY <1>1 DEF Elements, Distinct
<1> QED
  BY <1>1, <1>2, <1>3

\* Taking the task at the front (runThreadTask) removes it and nothing else.
LEMMA TailElements ==
    ASSUME NEW S, NEW s \in Seq(S), s # <<>>
    PROVE  /\ Head(s) \in S
           /\ Tail(s) \in Seq(S)
           /\ Elements(s) = Elements(Tail(s)) \cup {Head(s)}
           /\ Distinct(s) => Head(s) \notin Elements(Tail(s)) /\ Distinct(Tail(s))
<1>1. /\ Head(s) \in S
      /\ Tail(s) \in Seq(S)
      /\ Len(s) \in Nat \ {0}
      /\ Len(Tail(s)) = Len(s) - 1
      /\ Head(s) = s[1]
      /\ \A i \in 1..(Len(s) - 1) : Tail(s)[i] = s[i + 1]
  OBVIOUS
<1>2. Elements(s) = Elements(Tail(s)) \cup {Head(s)}
  <2>1. ASSUME NEW i \in 1..Len(s)
        PROVE  s[i] \in Elements(Tail(s)) \cup {Head(s)}
    <3>1. CASE i = 1
      BY <1>1, <3>1
    <3>2. CASE i # 1
      <4>1. i - 1 \in 1..Len(Tail(s)) /\ Tail(s)[i - 1] = s[i]
        BY <1>1, <3>2
      <4> QED
        BY <4>1 DEF Elements
    <3> QED
      BY <3>1, <3>2
  <2>2. ASSUME NEW i \in 1..Len(Tail(s))
        PROVE  Tail(s)[i] \in Elements(s)
    BY <1>1 DEF Elements
  <2>3. Head(s) \in Elements(s)
    BY <1>1 DEF Elements
  <2> QED
    BY <2>1, <2>2, <2>3 DEF Elements
<1>3. ASSUME Distinct(s)
      PROVE  Head(s) \notin Elements(Tail(s)) /\ Distinct(Tail(s))
  BY <1>1, <1>3 DEF Elements, Distinct
<1> QED
  BY <1>1, <1>2, <1>3

\* The empty queue holds no task.
LEMMA EmptyElements == Elements(<<>>) = {} /\ Distinct(<<>>)
  BY DEF Elements, Distinct

-----------------------------------------------------------------------------
(* The invariant holds initially.                                            *)

LEMMA InitIInv == Init => IInv
<1> SUFFICES ASSUME Init PROVE IInv
  OBVIOUS
<1> USE CallsAssumption, TaskAssumption, PresetAssumption DEF Init
<1>1. TypeOK
  BY DEF TypeOK, WorkerLabels, ControllerLabels
<1>2. TaskAccounting
  BY DEF TaskAccounting, Queued
<1>3. RunningInv /\ OpenHasThread /\ OneJoiner /\ SleepersFlush /\ NoTerminate
  BY DEF RunningInv, OpenHasThread, OneJoiner, Settled, SleepersFlush, NoTerminate, Open
<1>4. ClosingInv
  BY DEF ClosingInv, Open, Settled
<1> QED
  BY <1>1, <1>2, <1>3, <1>4 DEF IInv

-----------------------------------------------------------------------------
(* Each step preserves each part of the invariant.                           *)

LEMMA TypeStep == TypeOK /\ RunningInv /\ [Next]_vars => TypeOK'
<1> SUFFICES ASSUME TypeOK, RunningInv, [Next]_vars PROVE TypeOK'
  OBVIOUS
<1> USE DEF TypeOK, WorkerLabels, ControllerLabels
<1>1. ASSUME NEW t \in Tasks, AddTask(t) PROVE TypeOK'
  BY <1>1, AppendElements DEF AddTask, WorkerNotified, Submit, Push, queueVars,
     callVars
<1>2. ASSUME NEW t \in Tasks, AddTaskIgnored(t) PROVE TypeOK'
  BY <1>2 DEF AddTaskIgnored, Submit, queueVars, callVars
<1>3. ASSUME NEW c \in Controllers, CallStop(c) \/ CallStopClear(c) \/ CallFlush(c) \/ Destroy(c)
      PROVE TypeOK'
  BY <1>3 DEF CallStop, CallStopClear, CallFlush, Destroy, Go, DestroyUnless,
     queueVars, callVars
<1>4. ASSUME NEW c \in Controllers, Start(c) PROVE TypeOK'
  BY <1>4 DEF Start, queueVars, callVars
<1>5. ASSUME NEW c \in Controllers, StopIgnored(c) \/ FlushIgnored(c) \/ FlushLock(c)
      PROVE TypeOK'
  <2>1. CASE StopIgnored(c)
    BY <2>1 DEF StopIgnored, Return, Go, queueVars, callVars
  <2>2. CASE FlushIgnored(c)
    BY <2>2 DEF FlushIgnored, Go, queueVars, callVars
  <2>3. CASE FlushLock(c)
    BY <2>3 DEF FlushLock, SetFlush, queueVars, callVars
  <2> QED
    BY <1>5, <2>1, <2>2, <2>3
<1>6. ASSUME NEW c \in Controllers, StopLock(c) PROVE TypeOK'
  <2>1. Queued \subseteq Tasks
    BY DEF Queued
  <2>2. pc' \in [Controllers -> ControllerLabels]
    BY <1>6 DEF StopLock, Notified, queueVars, callVars
  <2>3. wpc' \in WorkerLabels /\ (thread' <=> wpc' # "none")
    BY <1>6 DEF StopLock, WorkerNotified, queueVars, callVars
  <2>4. tasks' \in Seq(Tasks) /\ dropped' \subseteq Tasks
        /\ current_task' \in Tasks \cup {NoTask}
    <3>1. CASE pc[c] = "stop_clear"
      BY <1>6, <2>1, <3>1 DEF StopLock, queueVars, callVars
    <3>2. CASE pc[c] # "stop_clear"
      BY <1>6, <3>2 DEF StopLock, queueVars, callVars
    <3> QED
      BY <3>1, <3>2
  <2> QED
    BY <1>6, <2>2, <2>3, <2>4 DEF StopLock, queueVars, callVars
<1>7. ASSUME NEW c \in Controllers, FlushNotify(c) PROVE TypeOK'
  BY <1>7 DEF FlushNotify, WorkerNotified, Notified, queueVars, callVars
<1>8. ASSUME NEW c \in Controllers, FlushWait(c) \/ Join(c) \/ FreeMembers(c)
      PROVE TypeOK'
  <2>1. CASE FlushWait(c)
    BY <2>1 DEF FlushWait, Go, queueVars, callVars
  <2>2. CASE Join(c)
    <3>1. pc' \in [Controllers -> ControllerLabels]
      BY <2>2 DEF Join, Return, JoinAnd, queueVars, callVars
    <3> QED
      BY <2>2, <3>1 DEF Join, JoinAnd, queueVars, callVars
  <2>3. CASE FreeMembers(c)
    BY <2>3 DEF FreeMembers, queueVars, callVars
  <2> QED
    BY <1>8, <2>1, <2>2, <2>3
<1>9. ASSUME LoopHead \/ Sleep \/ TimerExpires \/ Timeout \/ Leave PROVE TypeOK'
  BY <1>9 DEF LoopHead, Sleep, TimerExpires, Timeout, Leave, Step, queueVars,
     callVars
<1>10. ASSUME Take PROVE TypeOK'
  BY <1>10, TailElements DEF Take, queueVars, callVars
<1>11. ASSUME NEW r \in {"Success", "Error"}, Finish(r) PROVE TypeOK'
  BY <1>11 DEF Finish, Notified, queueVars, callVars
<1>12. CASE UNCHANGED vars
  BY <1>12 DEF vars, queueVars, callVars
<1> QED
  BY <1>1, <1>2, <1>3, <1>4, <1>5, <1>6, <1>7, <1>8, <1>9, <1>10, <1>11, <1>12
     DEF Next, Controller, Continue, WorkerThread, Gone

LEMMA RunningStep == TypeOK /\ RunningInv /\ [Next]_vars => RunningInv'
<1> SUFFICES ASSUME TypeOK, RunningInv, [Next]_vars PROVE RunningInv'
  OBVIOUS
<1> USE TaskAssumption DEF RunningInv
<1>1. ASSUME NEW t \in Tasks, AddTask(t) \/ AddTaskIgnored(t) PROVE RunningInv'
  BY <1>1 DEF AddTask, AddTaskIgnored, WorkerNotified, MutexFree, Submit, Push,
     queueVars, callVars
<1>2. ASSUME NEW c \in Controllers, CallStop(c) \/ CallStopClear(c) \/ CallFlush(c) \/ Destroy(c)
      PROVE RunningInv'
  BY <1>2 DEF CallStop, CallStopClear, CallFlush, Destroy, Go, DestroyUnless,
     queueVars, callVars
<1>3. ASSUME NEW c \in Controllers, Start(c) PROVE RunningInv'
  BY <1>3 DEF Start, queueVars, callVars
<1>4. ASSUME NEW c \in Controllers, StopIgnored(c) \/ StopLock(c) PROVE RunningInv'
  BY <1>4 DEF StopIgnored, StopLock, WorkerNotified, MutexFree, Go, queueVars,
     callVars
<1>5. ASSUME NEW c \in Controllers,
             FlushIgnored(c) \/ FlushLock(c) \/ FlushNotify(c) \/ FlushWait(c)
      PROVE RunningInv'
  BY <1>5 DEF FlushIgnored, FlushLock, FlushNotify, FlushWait, WorkerNotified,
     MutexFree, Go, SetFlush, queueVars, callVars
<1>6. ASSUME NEW c \in Controllers, Join(c) \/ FreeMembers(c) PROVE RunningInv'
  BY <1>6 DEF Join, FreeMembers, TypeOK, JoinAnd, queueVars, callVars
<1>7. ASSUME LoopHead \/ Sleep \/ TimerExpires \/ Timeout \/ Leave PROVE RunningInv'
  BY <1>7 DEF LoopHead, Sleep, TimerExpires, Timeout, Leave, Step, queueVars,
     callVars
<1>8. ASSUME Take PROVE RunningInv'
  BY <1>8, TailElements DEF Take, TypeOK, queueVars, callVars
<1>9. ASSUME NEW r \in {"Success", "Error"}, Finish(r) PROVE RunningInv'
  BY <1>9 DEF Finish, queueVars, callVars
<1>10. CASE UNCHANGED vars
  BY <1>10 DEF vars, queueVars, callVars
<1> QED
  BY <1>1, <1>2, <1>3, <1>4, <1>5, <1>6, <1>7, <1>8, <1>9, <1>10
     DEF Next, Controller, Continue, WorkerThread, Gone

LEMMA AccountingStep ==
    TypeOK /\ RunningInv /\ TaskAccounting /\ [Next]_vars => TaskAccounting'
<1> SUFFICES ASSUME TypeOK, RunningInv, TaskAccounting, [Next]_vars
             PROVE  TaskAccounting'
  OBVIOUS
\* The three variables of the accounting, with the queue as a set.
<1> DEFINE A(q, cur, st, dr) ==
             /\ Distinct(q)
             /\ \A t \in Tasks : st[t] = "Work" <=> t \in Elements(q) \cup {cur} \cup dr
             /\ Elements(q) \cap dr = {}
             /\ cur \notin Elements(q) \cup dr
<1>a. A(tasks, current_task, taskStatus, dropped)
  BY DEF TaskAccounting, Queued, Elements, Distinct
<1>b. SUFFICES A(tasks', current_task', taskStatus', dropped')
  BY DEF TaskAccounting, Queued, Elements, Distinct
<1>c. /\ tasks \in Seq(Tasks)
      /\ Elements(tasks) \subseteq Tasks
      /\ dropped \subseteq Tasks
      /\ current_task \in Tasks \cup {NoTask}
      /\ taskStatus \in [Tasks -> {"New", "Work", "Success", "Error"}]
  BY DEF TypeOK, Elements
<1>d. /\ wpc # "running" => current_task = NoTask
      /\ wpc = "running" => current_task \in Tasks /\ status # "Stop"
  BY TaskAssumption, <1>c DEF RunningInv
<1> USE TaskAssumption
<1>1. ASSUME NEW t \in Tasks, AddTask(t)
      PROVE  A(tasks', current_task', taskStatus', dropped')
  <2>1. tasks' = Append(tasks, t) /\ taskStatus[t] = "New"
        /\ UNCHANGED <<current_task, dropped>>
        /\ taskStatus' = [taskStatus EXCEPT ![t] = "Work"]
    BY <1>1 DEF AddTask, Submit, Push, queueVars, callVars
  <2>2. t \notin Elements(tasks) \cup {current_task} \cup dropped
    BY <1>a, <2>1
  <2>3. Distinct(tasks') /\ Elements(tasks') = Elements(tasks) \cup {t}
    BY <1>a, <1>c, <2>1, <2>2, AppendElements
  <2> HIDE DEF A
  <2> QED
    BY <1>a, <1>c, <2>1, <2>2, <2>3 DEF A
<1>2. ASSUME NEW t \in Tasks, AddTaskIgnored(t)
      PROVE  A(tasks', current_task', taskStatus', dropped')
  BY <1>a, <1>c, <1>2 DEF AddTaskIgnored, Submit, queueVars, callVars
<1>3. ASSUME NEW c \in Controllers, StopLock(c)
      PROVE  A(tasks', current_task', taskStatus', dropped')
  <2>1. current_task = NoTask /\ taskStatus' = taskStatus
    BY <1>3, <1>d DEF StopLock, MutexFree, queueVars, callVars
  <2>2. CASE pc[c] = "stop_clear"
    <3>1. /\ tasks' = <<>>
          /\ dropped' = dropped \cup Elements(tasks)
          /\ current_task' = NoTask
      BY <1>3, <2>2 DEF StopLock, Queued, Elements, queueVars, callVars
    <3>2. Elements(tasks') = {} /\ Distinct(tasks')
      BY <3>1, EmptyElements
    <3> QED
      BY <1>a, <1>c, <2>1, <3>1, <3>2
  <2>3. CASE pc[c] # "stop_clear"
    BY <1>a, <1>3, <2>1, <2>3 DEF StopLock, queueVars, callVars
  <2> QED
    BY <2>2, <2>3
<1>4. ASSUME Take
      PROVE  A(tasks', current_task', taskStatus', dropped')
  <2>1. /\ tasks # <<>>
        /\ current_task = NoTask
        /\ current_task' = Head(tasks)
        /\ tasks' = Tail(tasks)
        /\ UNCHANGED <<taskStatus, dropped>>
    BY <1>4, <1>d DEF Take, queueVars, callVars
  <2>2. /\ Elements(tasks) = Elements(tasks') \cup {current_task'}
        /\ current_task' \notin Elements(tasks')
        /\ Distinct(tasks')
    BY <1>a, <1>c, <2>1, TailElements
  <2> QED
    BY <1>a, <1>c, <2>1, <2>2
<1>5. ASSUME NEW r \in {"Success", "Error"}, Finish(r)
      PROVE  A(tasks', current_task', taskStatus', dropped')
  <2>1. /\ current_task \in Tasks
        /\ taskStatus' = [taskStatus EXCEPT ![current_task] = r]
        /\ current_task' = NoTask
        /\ UNCHANGED <<tasks, dropped>>
    BY <1>5, <1>d DEF Finish, queueVars, callVars
  <2> QED
    BY <1>a, <1>c, <2>1
<1>6. ASSUME UNCHANGED <<tasks, current_task, taskStatus, dropped>>
      PROVE  A(tasks', current_task', taskStatus', dropped')
  BY <1>a, <1>6
<1>7. ASSUME NEW c \in Controllers,
             \/ CallStop(c) \/ CallStopClear(c) \/ CallFlush(c) \/ Destroy(c) \/ Start(c)
             \/ StopIgnored(c) \/ FlushIgnored(c) \/ FlushLock(c)
             \/ FlushNotify(c) \/ FlushWait(c) \/ Join(c) \/ FreeMembers(c)
      PROVE  UNCHANGED <<tasks, current_task, taskStatus, dropped>>
  BY <1>7 DEF CallStop, CallStopClear, CallFlush, Destroy, Start, StopIgnored,
     FlushIgnored, FlushLock, FlushNotify, FlushWait, Join, FreeMembers, Go,
     DestroyUnless, SetFlush, JoinAnd, queueVars, callVars
<1>8. ASSUME LoopHead \/ Sleep \/ TimerExpires \/ Timeout \/ Leave \/ UNCHANGED vars
      PROVE  UNCHANGED <<tasks, current_task, taskStatus, dropped>>
  BY <1>8 DEF LoopHead, Sleep, TimerExpires, Timeout, Leave, vars, Step, queueVars,
     callVars
<1> HIDE DEF A
<1> QED
  BY <1>1, <1>2, <1>3, <1>4, <1>5, <1>6, <1>7, <1>8
     DEF Next, Controller, Continue, WorkerThread, Gone

\* Any call but flush is made by the only controller.
LEMMA OnlyController ==
    ASSUME Calls # {"flush"}, NEW c \in Controllers, NEW d \in Controllers
    PROVE  c = d
  BY CallsAssumption

PhaseInv == OpenHasThread /\ OneJoiner /\ SleepersFlush /\ ClosingInv /\ NoTerminate

\* The steps that change neither a controller, nor the status, nor `thread`.
LEMMA PhaseWorker ==
    ASSUME TypeOK, RunningInv, PhaseInv,
           LoopHead \/ Sleep \/ TimerExpires \/ Timeout \/ Leave \/ Take
    PROVE  PhaseInv'
<1> USE DEF PhaseInv, OpenHasThread, OneJoiner, SleepersFlush, ClosingInv,
            NoTerminate, Open, Settled
<1>1. CASE LoopHead
  BY <1>1 DEF LoopHead, TypeOK, Step, queueVars, callVars
<1>2. CASE Sleep \/ TimerExpires \/ Timeout
  BY <1>2 DEF Sleep, TimerExpires, Timeout, Step, queueVars, callVars
<1>3. CASE Leave
  BY <1>3 DEF Leave, Step, queueVars, callVars
<1>4. CASE Take
  <2>1. Tail(tasks) \in Seq(Tasks) /\ tasks # <<>>
    BY <1>4, TailElements DEF Take, TypeOK, queueVars, callVars
  <2> QED
    BY <1>4, <2>1 DEF Take, TypeOK, queueVars, callVars
<1> QED
  BY <1>1, <1>2, <1>3, <1>4

LEMMA PhaseFinish ==
    ASSUME TypeOK, RunningInv, PhaseInv, NEW r, Finish(r)
    PROVE  PhaseInv'
<1> USE DEF PhaseInv, OpenHasThread, OneJoiner, SleepersFlush, ClosingInv,
            NoTerminate, Open, Settled
<1>1. /\ wpc = "running" /\ wpc' = "loop"
      /\ status \in {"Work", "Flush"}
      /\ status' = status \/ (status = "Work" /\ status' = "Wait")
      /\ UNCHANGED <<tasks, dying, aborted>>
  BY DEF Finish, RunningInv, TypeOK
<1>2. \A c \in Controllers : pc'[c] = pc[c] \/ (pc[c] = "asleep" /\ pc'[c] = "drain")
  BY DEF Finish, Notified, RunningInv, TypeOK
<1> QED
  BY <1>1, <1>2 DEF TypeOK

LEMMA PhaseAdd ==
    ASSUME TypeOK, PhaseInv, NEW t \in Tasks, AddTask(t) \/ AddTaskIgnored(t)
    PROVE  PhaseInv'
  BY DEF PhaseInv, OpenHasThread, OneJoiner, SleepersFlush, ClosingInv, NoTerminate,
         Open, Settled, AddTask, AddTaskIgnored, WorkerNotified, TypeOK, Submit, Push,
         queueVars, callVars

LEMMA PhaseFlush ==
    ASSUME TypeOK, PhaseInv, NEW c \in Controllers,
           \/ CallFlush(c) \/ FlushIgnored(c) \/ FlushLock(c)
           \/ FlushNotify(c) \/ FlushWait(c)
    PROVE  PhaseInv'
<1> USE DEF PhaseInv, OpenHasThread, OneJoiner, SleepersFlush, ClosingInv,
            NoTerminate, Open, Settled
<1>1. CASE CallFlush(c)
  BY <1>1 DEF CallFlush, TypeOK, Go, queueVars, callVars
<1>2. CASE FlushIgnored(c)
  BY <1>2 DEF FlushIgnored, TypeOK, Go, queueVars, callVars
<1>3. CASE FlushLock(c)
  <2>1. \A d \in Controllers : Settled(d)
    BY <1>3, OnlyController DEF FlushLock, TypeOK, SetFlush, queueVars, callVars
  <2> QED
    BY <1>3, <2>1 DEF FlushLock, TypeOK, SetFlush, queueVars, callVars
<1>4. CASE FlushNotify(c)
  BY <1>4 DEF FlushNotify, WorkerNotified, Notified, TypeOK, queueVars, callVars
<1>5. CASE FlushWait(c)
  BY <1>5 DEF FlushWait, TypeOK, Go, queueVars, callVars
<1> QED
  BY <1>1, <1>2, <1>3, <1>4, <1>5

LEMMA PhaseStop ==
    ASSUME TypeOK, PhaseInv, NEW c \in Controllers,
           \/ CallStop(c) \/ CallStopClear(c) \/ Destroy(c) \/ StopIgnored(c) \/ StopLock(c)
           \/ Start(c) \/ FreeMembers(c)
    PROVE  PhaseInv'
<1> USE DEF PhaseInv, OpenHasThread, OneJoiner, SleepersFlush, ClosingInv,
            NoTerminate, Open, Settled
<1>1. Calls # {"flush"}
  BY DEF CallStop, CallStopClear, Destroy, DestroyUnless, StopIgnored, StopLock, Start,
         FreeMembers, Go
<1>2. \A d \in Controllers : d = c
  BY <1>1, OnlyController
<1>3. CASE CallStop(c) \/ CallStopClear(c)
  BY <1>1, <1>2, <1>3 DEF CallStop, CallStopClear, TypeOK, Go, queueVars, callVars
<1>4. CASE Destroy(c)
  BY <1>1, <1>2, <1>4 DEF Destroy, TypeOK, DestroyUnless, queueVars, callVars
<1>5. CASE StopIgnored(c)
  BY <1>1, <1>2, <1>5 DEF StopIgnored, Return, TypeOK, Go, queueVars, callVars
<1>6. CASE StopLock(c)
  <2>1. pc'[c] = "join"
    BY <1>6 DEF StopLock, Notified, TypeOK, queueVars, callVars
  <2>2. status' = "Stop" /\ aborted' = aborted
    BY <1>6 DEF StopLock, queueVars, callVars
  <2> QED
    BY <1>1, <1>2, <2>1, <2>2
<1>7. CASE Start(c)
  <2>1. wpc = "none"
    BY <1>2, <1>7 DEF Start, queueVars, callVars
  <2> QED
    BY <1>1, <1>2, <1>7, <2>1 DEF Start, TypeOK, queueVars, callVars
<1>8. CASE FreeMembers(c)
  BY <1>1, <1>2, <1>8 DEF FreeMembers, TypeOK, queueVars, callVars
<1> QED
  BY <1>3, <1>4, <1>5, <1>6, <1>7, <1>8

LEMMA PhaseJoin ==
    ASSUME TypeOK, PhaseInv, NEW c \in Controllers, Join(c)
    PROVE  PhaseInv'
<1> USE DEF PhaseInv, OpenHasThread, OneJoiner, SleepersFlush, ClosingInv,
            NoTerminate, Open, Settled
<1>1. /\ pc' = [pc EXCEPT ![c] = IF c \in dying THEN "free" ELSE "idle"]
      /\ wpc' = "none" /\ pc[c] = "join"
      /\ UNCHANGED <<status, tasks, dying, aborted>>
  BY DEF Join, JoinAnd, Return, queueVars
<1>2. \A d \in Controllers : d # c => Settled(d)
  BY <1>1
<1> QED
  BY <1>1, <1>2 DEF TypeOK

LEMMA PhaseStep == TypeOK /\ RunningInv /\ PhaseInv /\ [Next]_vars => PhaseInv'
<1> SUFFICES ASSUME TypeOK, RunningInv, PhaseInv, [Next]_vars PROVE PhaseInv'
  OBVIOUS
<1>1. CASE UNCHANGED vars
  BY <1>1 DEF vars, PhaseInv, OpenHasThread, OneJoiner, SleepersFlush, ClosingInv,
     NoTerminate, Open, Settled, queueVars, callVars
<1> QED
  BY <1>1, PhaseWorker, PhaseFinish, PhaseAdd, PhaseFlush, PhaseStop, PhaseJoin
     DEF Next, Controller, Continue, WorkerThread, Gone

-----------------------------------------------------------------------------
(* The theorems.                                                             *)

\* The inductive invariant: types, accounting, and what each stage of a call
\* that closes the queue leaves behind.
THEOREM Invariance == Spec => []IInv
<1>1. IInv /\ [Next]_vars => IInv'
  BY TypeStep, RunningStep, AccountingStep, PhaseStep DEF IInv, PhaseInv
<1> QED
  BY InitIInv, <1>1, PTL DEF Spec

\* The variables keep their types, and `thread` is null exactly when there is
\* nothing to join.
THEOREM TypeCorrect == Spec => []TypeOK
<1>1. IInv => TypeOK
  BY DEF IInv
<1> QED
  BY Invariance, <1>1, PTL

\* No task is lost, duplicated or run twice, whatever calls are interleaved
\* with the worker thread (addTask, stop, runThreadTask).
THEOREM TasksAccounted == Spec => []TaskAccounting
<1>1. IInv => TaskAccounting
  BY DEF IInv
<1> QED
  BY Invariance, <1>1, PTL

\* A worker that accepts tasks has a thread that will look at its queue again.
THEOREM OpenServed == Spec => []OpenHasThread
<1>1. IInv => OpenHasThread
  BY DEF IInv
<1> QED
  BY Invariance, <1>1, PTL

\* start, stop, flush and ~Worker never reach std::terminate.
THEOREM NeverTerminates == Spec => []NoTerminate
<1>1. IInv => NoTerminate
  BY DEF IInv
<1> QED
  BY Invariance, <1>1, PTL

\* Any number of overlapping calls of flush join the thread once.
THEOREM JoinedOnce == Spec => []OneJoiner
<1>1. IInv => OneJoiner
  BY DEF IInv
<1> QED
  BY Invariance, <1>1, PTL

\* No task runs while the worker is stopped, and none is left running, nor a
\* thread to run it, when stop has returned.
THEOREM StopQuiescence == Spec => []StopIsQuiescent
<1>1. IInv => StopIsQuiescent
  BY DEF IInv, StopIsQuiescent, RunningInv, ClosingInv, SleepersFlush, Settled, Open
<1> QED
  BY Invariance, <1>1, PTL

\* With one controlling thread, flush returns only when every accepted task has
\* been run (worker.cpp:67-89). With two it does not: a second caller finds the
\* status Flush and returns at once (lines 71-72).
THEOREM FlushDrains ==
    ASSUME NEW k, Controllers = {k}
    PROVE  Spec => FlushReturnsDrained
<1> DEFINE Drained == \A c \in Controllers :
             pc[c] \in {"flush", "join"} /\ pc'[c] = "idle" /\ status' = "Flush"
                 => tasks' = <<>> /\ current_task' = NoTask
<1>1. ASSUME IInv, IInv', [Next]_vars, NEW c \in Controllers,
             pc[c] \in {"flush", "join"}, pc'[c] = "idle", status' = "Flush"
      PROVE  tasks' = <<>> /\ current_task' = NoTask
  <2>1. \A d \in Controllers : d = c
    OBVIOUS
  <2>2. wpc' = "none" /\ tasks' = <<>>
    BY <1>1, <2>1 DEF IInv, ClosingInv, Settled, Open
  <2> QED
    BY <1>1, <2>2 DEF IInv, RunningInv
<1>2. IInv /\ IInv' /\ [Next]_vars => [Drained]_vars
  BY <1>1
<1> QED
  BY Invariance, <1>2, PTL DEF Spec, FlushReturnsDrained

-----------------------------------------------------------------------------
(* No wakeup is lost.                                                        *)

\* What each notification has done: addTask and flush wake the worker, and the
\* end of the last task wakes those who wait in flush. A worker that sleeps on
\* in a closed queue is about to be woken by the flush that closed it.
WakeInv ==
    /\ wpc = "asleep" => tasks = <<>>
    /\ wpc = "asleep" /\ ~Open => \E c \in Controllers : pc[c] = "notify"
    /\ \A c \in Controllers : pc[c] = "asleep" => tasks # <<>> \/ wpc = "running"

\* No accepted task waits for a worker that sleeps, no caller of stop or flush
\* waits for one, and who sleeps in flush is either woken by the thread that
\* works for it or waits for a thread that no call has started: the timer of
\* wait_for (worker.cpp:122) is never what saves a call.
NobodyOversleeps ==
    /\ wpc = "asleep" => tasks = <<>>
    /\ \A c \in Controllers : pc[c] \in {"drain", "asleep", "join"} => wpc # "asleep"
    /\ \A c \in Controllers : pc[c] = "asleep" =>
          wpc # "exited" /\ (tasks # <<>> \/ wpc = "running")

\* The steps of the worker thread and of those who add tasks.
LEMMA WakeWorker ==
    ASSUME IInv, WakeInv,
           WorkerThread \/ \E t \in Tasks : AddTask(t) \/ AddTaskIgnored(t)
    PROVE  WakeInv'
<1> USE DEF WakeInv, IInv, Open, queueVars, callVars
<1>1. CASE LoopHead \/ TimerExpires \/ Timeout \/ Leave
  BY <1>1 DEF LoopHead, TimerExpires, Timeout, Leave, Step
<1>2. CASE Sleep
  BY <1>2 DEF Sleep, Step, WorkToDo, TypeOK
<1>3. CASE Take
  BY <1>3 DEF Take
<1>4. ASSUME NEW r, Finish(r) PROVE WakeInv'
  <2>1. /\ wpc' = "loop" /\ tasks' = tasks
        /\ pc' = IF tasks = <<>> THEN Notified(pc) ELSE pc
    BY <1>4 DEF Finish, RunningInv
  <2>2. tasks = <<>> => \A c \in Controllers : pc'[c] # "asleep"
    BY <2>1 DEF Notified
  <2> QED
    BY <2>1, <2>2
<1>5. ASSUME NEW t \in Tasks, AddTask(t) PROVE WakeInv'
  <2>1. tasks' = Append(tasks, t) /\ tasks \in Seq(Tasks)
    BY <1>5 DEF AddTask, Push, TypeOK
  <2>2. tasks' # <<>>
    BY <2>1
  <2>3. wpc' # "asleep" /\ pc' = pc
    BY <1>5 DEF AddTask, Submit, Push, WorkerNotified
  <2> QED
    BY <2>2, <2>3
<1>6. ASSUME NEW t \in Tasks, AddTaskIgnored(t) PROVE WakeInv'
  BY <1>6 DEF AddTaskIgnored, Submit
<1> QED
  BY <1>1, <1>2, <1>3, <1>4, <1>5, <1>6 DEF WorkerThread

\* The steps of the calls.
LEMMA WakeController ==
    ASSUME IInv, WakeInv, NEW c \in Controllers, Controller(c)
    PROVE  WakeInv'
<1> USE DEF WakeInv, IInv, Open, queueVars, callVars
<1>1. CASE CallStop(c) \/ CallStopClear(c) \/ CallFlush(c) \/ StopIgnored(c) \/ FlushIgnored(c)
  <2>1. /\ UNCHANGED <<status, tasks, wpc>>
        /\ \E to \in {"stop", "stop_clear", "flush", "free", "idle"} :
              pc' = [pc EXCEPT ![c] = to]
        /\ pc[c] # "notify"
    BY <1>1 DEF CallStop, CallStopClear, CallFlush, StopIgnored, FlushIgnored, Go, Return
  <2> QED
    BY <2>1 DEF TypeOK
<1>2. CASE Destroy(c) \/ FreeMembers(c)
  <2>1. /\ UNCHANGED <<status, tasks, wpc>>
        /\ \E to \in {"stop_clear", "free", "gone"} : pc' = [pc EXCEPT ![c] = to]
        /\ pc[c] # "notify"
    BY <1>2 DEF Destroy, DestroyUnless, FreeMembers
  <2> QED
    BY <2>1 DEF TypeOK
<1>3. CASE Start(c)
  <2>1. wpc' = "loop" /\ pc' = pc /\ status = "Stop"
    BY <1>3 DEF Start
  <2>2. \A d \in Controllers : pc'[d] # "asleep"
    BY <2>1 DEF SleepersFlush
  <2> QED
    BY <2>1, <2>2
<1>4. CASE StopLock(c) \/ FlushNotify(c)
  <2>1. /\ wpc' # "asleep"
        /\ \E to \in {"join", "drain"} : pc' = [Notified(pc) EXCEPT ![c] = to]
    BY <1>4 DEF StopLock, FlushNotify, WorkerNotified
  <2>2. \A d \in Controllers : pc'[d] # "asleep"
    BY <2>1 DEF Notified
  <2> QED
    BY <2>1, <2>2
<1>5. CASE FlushLock(c)
  <2>1. UNCHANGED <<tasks, wpc>> /\ pc' = [pc EXCEPT ![c] = "notify"]
    BY <1>5 DEF FlushLock, SetFlush
  <2> QED
    BY <2>1 DEF TypeOK
<1>6. CASE FlushWait(c)
  <2>1. /\ UNCHANGED <<status, tasks, wpc>> /\ pc[c] = "drain"
        /\ pc' = [pc EXCEPT ![c] = IF tasks = <<>> THEN "join" ELSE "asleep"]
    BY <1>6 DEF FlushWait, Go
  <2> QED
    BY <2>1 DEF TypeOK
<1>7. CASE Join(c)
  <2>1. /\ wpc' = "none" /\ pc[c] = "join"
        /\ \E to \in {"free", "idle"} : pc' = [pc EXCEPT ![c] = to]
    BY <1>7 DEF Join, JoinAnd, Return
  <2>2. \A d \in Controllers : pc'[d] # "asleep"
    BY <2>1 DEF TypeOK, OneJoiner, Settled
  <2> QED
    BY <2>1, <2>2
<1> QED
  BY <1>1, <1>2, <1>3, <1>4, <1>5, <1>6, <1>7 DEF Controller, Continue

\* No call and no task depends on the timer: whoever waits on the condition
\* variable is woken by whoever makes its predicate true, in every order of
\* the calls (worker.cpp:52, 66, 75-81, 108, 122, 155).
THEOREM NoWakeupLost == Spec => []NobodyOversleeps
<1>1. Init => WakeInv
  BY DEF Init, WakeInv
<1>2. IInv /\ WakeInv /\ [Next]_vars => WakeInv'
  <2>1. UNCHANGED vars /\ WakeInv => WakeInv'
    BY DEF vars, WakeInv, Open, queueVars, callVars
  <2> QED
    BY <2>1, WakeWorker, WakeController DEF Next, Gone
<1>3. IInv /\ WakeInv => NobodyOversleeps
  <2> SUFFICES ASSUME IInv, WakeInv PROVE NobodyOversleeps
    OBVIOUS
  <2>1. ASSUME NEW c \in Controllers, pc[c] \in {"drain", "asleep", "join"} PROVE wpc # "asleep"
    <3>1. ~Open
      BY <2>1 DEF IInv, SleepersFlush, ClosingInv, Open
    <3>2. \A d \in Controllers : pc[d] # "notify"
      BY <2>1 DEF IInv, OneJoiner, Settled
    <3> QED
      BY <3>1, <3>2 DEF WakeInv
  <2>2. ASSUME NEW c \in Controllers, pc[c] = "asleep" PROVE wpc # "exited"
    BY <2>2 DEF IInv, SleepersFlush, ClosingInv, WakeInv
  <2> QED
    BY <2>1, <2>2 DEF NobodyOversleeps, WakeInv
<1> QED
  BY Invariance, <1>1, <1>2, <1>3, PTL DEF Spec

-----------------------------------------------------------------------------
(* A task runs once.                                                         *)

\* A task that has ended keeps its result and is never the current task again,
\* also when its worker is stopped and started anew (worker.cpp:126-149).
ResultsAreFinal ==
    [][\A t \in Tasks : taskStatus[t] \in {"Success", "Error"} =>
          taskStatus'[t] = taskStatus[t] /\ current_task' # t]_vars

\* Whatever calls are made, the result a submitter reads is the only one.
THEOREM TasksEndOnce == Spec => ResultsAreFinal
<1> DEFINE Kept == \A t \in Tasks : taskStatus[t] \in {"Success", "Error"} =>
                      taskStatus'[t] = taskStatus[t] /\ current_task' # t
<1>1. ASSUME IInv, IInv', [Next]_vars, NEW t \in Tasks, taskStatus[t] \in {"Success", "Error"}
      PROVE  taskStatus'[t] = taskStatus[t] /\ current_task' # t
  <2>1. t # current_task /\ t \notin Queued
    BY <1>1 DEF IInv, TaskAccounting
  <2>2. taskStatus'[t] = taskStatus[t]
    <3>1. ASSUME NEW u \in Tasks, AddTask(u) \/ AddTaskIgnored(u)
          PROVE  taskStatus'[t] = taskStatus[t]
      BY <1>1, <3>1 DEF AddTask, AddTaskIgnored, Submit, IInv, TypeOK
    <3>2. ASSUME NEW r \in {"Success", "Error"}, Finish(r) PROVE taskStatus'[t] = taskStatus[t]
      BY <2>1, <3>2 DEF Finish, IInv, TypeOK
    <3>3. ASSUME NEW c \in Controllers, Controller(c) PROVE taskStatus' = taskStatus
      BY <3>3 DEF Controller, Continue, CallStop, CallStopClear, CallFlush, Destroy, Start,
         StopIgnored, StopLock, FlushIgnored, FlushLock, FlushNotify, FlushWait, Join,
         FreeMembers, Go, DestroyUnless, SetFlush, JoinAnd, queueVars
    <3>4. ASSUME LoopHead \/ Sleep \/ TimerExpires \/ Timeout \/ Leave \/ Take
                    \/ UNCHANGED vars
          PROVE  taskStatus' = taskStatus
      BY <3>4 DEF LoopHead, Sleep, TimerExpires, Timeout, Leave, Take, Step, vars, queueVars
    <3> QED
      BY <1>1, <3>1, <3>2, <3>3, <3>4 DEF Next, WorkerThread, Gone
  <2>3. taskStatus'[t] # "Work"
    BY <1>1, <2>2
  <2>4. current_task' # t
    BY <1>1, <2>3 DEF IInv, TaskAccounting
  <2> QED
    BY <2>2, <2>4
<1>2. IInv /\ IInv' /\ [Next]_vars => [Kept]_vars
  BY <1>1
<1> QED
  BY Invariance, <1>2, PTL DEF Spec, ResultsAreFinal

-----------------------------------------------------------------------------
(* Worker implements TaskQueue.                                              *)

LEMMA QueueInit == Init => Queue!Init
  BY DEF Init, Queue!Init, Queued, Queue!Pending, Mode, Open

\* Every step of a Worker is a step of the TaskQueue or changes nothing of it.
LEMMA QueueStep == IInv /\ [Next]_vars => [Queue!Next]_Queue!vars
<1> SUFFICES ASSUME IInv, [Next]_vars PROVE [Queue!Next]_Queue!vars
  OBVIOUS
<1> USE TaskAssumption DEF IInv, Mode, Open
<1>1. ASSUME NEW t \in Tasks, AddTask(t) PROVE Queue!Submit(t)
  <2>1. Mode = "open" /\ Mode' = Mode
    BY <1>1 DEF AddTask, TypeOK, Submit, Push, queueVars, callVars
  <2> HIDE DEF IInv, Mode, Open
  <2> QED
    BY <1>1, <2>1 DEF AddTask, Queue!Submit, Submit, Push, queueVars, callVars
<1>2. ASSUME NEW t \in Tasks, AddTaskIgnored(t) PROVE Queue!Refuse(t)
  BY <1>2 DEF AddTaskIgnored, Queue!Refuse, Submit, queueVars, callVars
<1>3. ASSUME NEW c \in Controllers, StopLock(c) PROVE \E b \in BOOLEAN : Queue!Halt(b)
  <2>1. current_task = NoTask
    BY <1>3 DEF StopLock, MutexFree, RunningInv, queueVars, callVars
  <2>2. CASE pc[c] = "stop_clear"
    <3>1. Queue!Halt(TRUE)
      BY <1>3, <2>1, <2>2 DEF StopLock, Queue!Halt, Queue!Pending, Queued, TypeOK,
         queueVars, callVars
    <3> QED
      BY <3>1
  <2>3. CASE pc[c] # "stop_clear"
    <3>1. Queue!Halt(FALSE)
      BY <1>3, <2>1, <2>3 DEF StopLock, Queue!Halt, TypeOK, queueVars, callVars
    <3> QED
      BY <3>1
  <2> QED
    BY <2>2, <2>3
<1>4. ASSUME NEW c \in Controllers, FlushLock(c) PROVE Queue!Drain
  BY <1>4 DEF FlushLock, Queue!Drain, TypeOK, SetFlush, queueVars, callVars
<1>5. ASSUME NEW c \in Controllers, Start(c) PROVE Queue!Reopen
  BY <1>5 DEF Start, Queue!Reopen, queueVars, callVars
<1>6. ASSUME Take PROVE Queue!Begin
  BY <1>6 DEF Take, Queue!Begin, RunningInv, TypeOK, queueVars, callVars
<1>7. ASSUME NEW r \in {"Success", "Error"}, Finish(r) PROVE Queue!End(r)
  BY <1>7 DEF Finish, Queue!End, RunningInv, TypeOK, queueVars, callVars
<1>8. ASSUME NEW c \in Controllers,
             \/ CallStop(c) \/ CallStopClear(c) \/ CallFlush(c) \/ Destroy(c) \/ StopIgnored(c)
             \/ FlushIgnored(c) \/ FlushNotify(c) \/ FlushWait(c) \/ Join(c)
             \/ FreeMembers(c)
      PROVE  UNCHANGED Queue!vars
  BY <1>8 DEF CallStop, CallStopClear, CallFlush, Destroy, StopIgnored,
     FlushIgnored, FlushNotify, FlushWait, Join, FreeMembers, Queue!vars, Go,
     DestroyUnless, JoinAnd, queueVars, callVars
<1>9. ASSUME LoopHead \/ Sleep \/ TimerExpires \/ Timeout \/ Leave \/ UNCHANGED vars
      PROVE  UNCHANGED Queue!vars
  BY <1>9 DEF LoopHead, Sleep, TimerExpires, Timeout, Leave, vars, Queue!vars, Step,
     queueVars, callVars
<1> HIDE DEF IInv, Mode, Open
<1> QED
  BY <1>1, <1>2, <1>3, <1>4, <1>5, <1>6, <1>7, <1>8, <1>9
     DEF Next, Controller, Continue, WorkerThread, Gone, Queue!Next

\* The users of a Worker see a TaskQueue, whatever the number of tasks and
\* whatever the legal calls of its controllers.
THEOREM Refinement == Spec => ImplementsTaskQueue
<1>1. IInv /\ [Next]_vars => [Queue!Next]_Queue!vars
  BY QueueStep
<1> QED
  BY QueueInit, Invariance, <1>1, PTL DEF Spec, ImplementsTaskQueue, Queue!Spec
=============================================================================
