---------------------------- MODULE SignalHandle ----------------------------
(***************************************************************************)
(* include/utils_cc/signal_handle.h and source/signal_handle.cc: threads   *)
(* that call a function again and again until SIGINT, or a call of         *)
(* stop_running(), clears g_running.                                       *)
(*                                                                         *)
(* The handler and stop_running() hold no mutex, and each loop has a mutex *)
(* of its own, so everything is one step per access to g_running or to the *)
(* condition variable.                                                     *)
(***************************************************************************)
EXTENDS Naturals

CONSTANT Threads  \* the threads that call until_signal()

VARIABLES
  g_running,  \* cleared once, never set again
  notifying,  \* g_running has been cleared, running_cv not yet notified
  loops,      \* where each thread is in until_signal()
  late        \* history: how often each thread has called f since g_running
              \* was cleared

signalVars == <<g_running, notifying, loops, late>>

LoopLabels == {"out", "check", "wait", "waiting", "f"}

SignalTypeOK ==
  /\ g_running \in BOOLEAN
  /\ notifying \in BOOLEAN
  /\ loops \in [Threads -> LoopLabels]
  /\ late \in [Threads -> Nat]

InitSignal ==
  /\ g_running = TRUE
  /\ notifying = FALSE
  /\ loops = [t \in Threads |-> "out"]
  /\ late = [t \in Threads |-> 0]
-----------------------------------------------------------------------------
LoopGoto(t, from, to) ==
  /\ loops[t] = from
  /\ loops' = [loops EXCEPT ![t] = to]
  /\ UNCHANGED <<g_running, notifying>>

\* until_signal() installs the handler and enters its loop; wait_for_signal()
\* is the same with a function that does nothing.
LoopEnter(t) == LoopGoto(t, "out", "check") /\ UNCHANGED late

\* Mutant of LoopCheck: the loop tests g_running at its end.
LoopUnchecked(t) == LoopGoto(t, "check", "wait") /\ UNCHANGED late

\* `while (g_running)'.
LoopCheck(t) ==
  LoopGoto(t, "check", IF g_running THEN "wait" ELSE "out") /\ UNCHANGED late

\* Mutant of LoopWait: the wait has no predicate.
LoopSleep(t) == LoopGoto(t, "wait", "waiting") /\ UNCHANGED late

\* running_cv.wait(): its predicate is always true, so it does not wait, and f
\* is called.
LoopWait(t) ==
  /\ LoopGoto(t, "wait", "f")
  /\ late' = [late EXCEPT ![t] = @ + IF g_running THEN 0 ELSE 1]

\* f() returns, and the loop's own mutex is unlocked.
LoopCalled(t) == LoopGoto(t, "f", "check") /\ UNCHANGED late

\* stop_running(), called by the handler of SIGINT or by anyone.
StopRunning ==
  /\ g_running' = FALSE
  /\ notifying' = TRUE
  /\ UNCHANGED <<loops, late>>

\* notify_in_running(): notify_all() wakes those who wait now, if anybody did.
NotifyInRunning ==
  /\ notifying
  /\ notifying' = FALSE
  /\ loops' = [t \in Threads |-> IF loops[t] = "waiting" THEN "f" ELSE loops[t]]
  /\ UNCHANGED <<g_running, late>>

LoopStep(t) == LoopCheck(t) \/ LoopWait(t)
-----------------------------------------------------------------------------
\* A stop may come between the look at g_running and the call of f, but no
\* thread calls f more than once after it, however often it enters the loop.
OneLateCall == \A t \in Threads : late[t] <= 1
=============================================================================
