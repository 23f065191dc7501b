------------------------------ MODULE TaskQueue ------------------------------
(***************************************************************************)
(* What a Worker promises to the code that uses it, with no thread, no     *)
(* mutex and no condition variable: tasks accepted while the queue is open *)
(* are begun in the order they were accepted, one at a time and at most    *)
(* once; the only tasks that are lost are those handed to a queue that is  *)
(* not open, and those still waiting when the queue is halted with a       *)
(* request to clear it.                                                    *)
(*                                                                         *)
(* Worker.tla implements this specification (Worker!Queue!Spec).           *)
(***************************************************************************)
EXTENDS Naturals, Sequences

CONSTANTS
    Tasks,      \* the tasks that may ever be submitted
    NoTask,     \* the null task pointer
    Preset      \* the tasks a queue is created with

VARIABLES
    mode,       \* "open", "draining" (Worker::flush) or "halted" (Worker::stop)
    queue,      \* accepted and not yet begun, oldest first
    running,    \* the task being run, or NoTask
    result,     \* what is known of each task
    lost        \* the tasks that will never be begun

vars == <<mode, queue, running, result, lost>>

Pending == {queue[i] : i \in 1..Len(queue)}

Init ==
    /\ mode = "open"
    /\ queue = Preset
    /\ running = NoTask
    /\ result = [t \in Tasks |-> IF t \in Pending THEN "Work" ELSE "New"]
    /\ lost = {}

Submit(t) ==
    /\ mode = "open"
    /\ result[t] = "New"
    /\ result' = [result EXCEPT ![t] = "Work"]
    /\ queue' = Append(queue, t)
    /\ UNCHANGED <<mode, running, lost>>

Refuse(t) ==
    /\ mode # "open"
    /\ result[t] = "New"
    /\ result' = [result EXCEPT ![t] = "Work"]
    /\ lost' = lost \cup {t}
    /\ UNCHANGED <<mode, queue, running>>

Begin ==
    /\ mode # "halted"
    /\ running = NoTask
    /\ queue # <<>>
    /\ running' = Head(queue)
    /\ queue' = Tail(queue)
    /\ UNCHANGED <<mode, result, lost>>

End(r) ==
    /\ running # NoTask
    /\ result' = [result EXCEPT ![running] = r]
    /\ running' = NoTask
    /\ UNCHANGED <<mode, queue, lost>>

Reopen ==
    /\ mode = "halted"
    /\ mode' = "open"
    /\ UNCHANGED <<queue, running, result, lost>>

Drain ==
    /\ mode # "draining"
    /\ mode' = "draining"
    /\ UNCHANGED <<queue, running, result, lost>>

\* Halting never interrupts a task: it takes effect between two tasks.
Halt(clear) ==
    /\ mode # "halted"
    /\ running = NoTask
    /\ mode' = "halted"
    /\ queue' = IF clear THEN <<>> ELSE queue
    /\ lost' = IF clear THEN lost \cup Pending ELSE lost
    /\ UNCHANGED <<running, result>>

Next ==
    \/ \E t \in Tasks : Submit(t) \/ Refuse(t)
    \/ Begin
    \/ \E r \in {"Success", "Error"} : End(r)
    \/ Reopen
    \/ Drain
    \/ \E clear \in BOOLEAN : Halt(clear)

Spec == Init /\ [][Next]_vars
==============================================================================
