------------------------------ MODULE Executor ------------------------------
(***************************************************************************)
(* What a Looper promises its callers, with the threads, the mutexes and   *)
(* the condition variable erased: a queue of tasks served one at a time,   *)
(* in order, by a loop that can be opened and closed.                      *)
(*                                                                         *)
(*  - tasks are started in the order in which they were submitted;         *)
(*  - no two tasks overlap, and none starts while the loop is closed;      *)
(*  - an open loop loses a task only to a flushing submission;             *)
(*  - closing waits for the task being executed.                           *)
(*                                                                         *)
(* Submissions are accepted in every state: a caller of Looper::post that  *)
(* has read `running' may append to the queue of a stopped looper, and     *)
(* what is then in the queue is discarded before the loop opens again.     *)
(***************************************************************************)
EXTENDS Sequences

CONSTANTS Tasks,    \* the closures that can be submitted
          NoTask    \* the absence of a task, not one of Tasks

VARIABLES pending,  \* the tasks waiting to be executed, oldest first
          current,  \* the task being executed, or NoTask
          open      \* is there a loop serving the queue?

vars == <<pending, current, open>>

Init ==
  /\ pending = <<>>
  /\ current = NoTask
  /\ open = FALSE

Submit(t) ==
  /\ pending' = Append(pending, t)
  /\ UNCHANGED <<current, open>>

\* A flushing submission takes the place of everything that is waiting.
Replace(t) ==
  /\ pending' = <<t>>
  /\ UNCHANGED <<current, open>>

Start ==
  /\ open
  /\ current = NoTask
  /\ pending # <<>>
  /\ current' = Head(pending)
  /\ pending' = Tail(pending)
  /\ UNCHANGED open

Finish ==
  /\ current # NoTask
  /\ current' = NoTask
  /\ UNCHANGED <<pending, open>>

Discard ==
  /\ ~open
  /\ pending' = <<>>
  /\ UNCHANGED <<current, open>>

Open ==
  /\ ~open
  /\ open' = TRUE
  /\ UNCHANGED <<pending, current>>

Close ==
  /\ open
  /\ current = NoTask
  /\ open' = FALSE
  /\ UNCHANGED <<pending, current>>

Next ==
  \/ \E t \in Tasks : Submit(t) \/ Replace(t)
  \/ Start \/ Finish
  \/ Discard \/ Open \/ Close

Spec == Init /\ [][Next]_vars
=============================================================================
