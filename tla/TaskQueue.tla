----------------------------- MODULE TaskQueue -----------------------------
(***************************************************************************)
(* What an event loop promises to the threads that hand it work: a single  *)
(* first-in first-out queue of tasks, served by one thread.  Whatever the  *)
(* thread a task was submitted from, tasks start in the order in which     *)
(* they were submitted, each submission starts its task once, and a task   *)
(* starts only after the one before it has returned.                       *)
(***************************************************************************)
EXTENDS Sequences

CONSTANTS Tasks,      \* the tasks that threads may submit
          NoTask      \* "the serving thread is not inside a task"

VARIABLES queue,      \* submitted, not started
          running     \* the task being executed, or NoTask

vars == <<queue, running>>

Init == queue = <<>> /\ running = NoTask

(* A task may be submitted at any time, from inside a task too. *)
Submit(t) == queue' = Append(queue, t) /\ UNCHANGED running

Start ==
    /\ running = NoTask
    /\ queue # <<>>
    /\ running' = Head(queue)
    /\ queue' = Tail(queue)

Finish ==
    /\ running # NoTask
    /\ running' = NoTask
    /\ UNCHANGED queue

Next == (\E t \in Tasks : Submit(t)) \/ Start \/ Finish

Spec == Init /\ [][Next]_vars
=============================================================================
