------------------------------- MODULE Daemon -------------------------------
(***************************************************************************)
(* A process that supervises a child until it is signalled: its threads    *)
(* start and stop the Supervisor, and those that loop in until_signal()    *)
(* may do so from the function they call there.                            *)
(***************************************************************************)
EXTENDS Supervisor, SignalHandle

ASSUME LoopersAssumption == Threads \subseteq Clients

daemonVars == <<vars, signalVars>>

DaemonInit == Init /\ InitSignal

\* The supervisor's own steps; a thread calls it between two calls of
\* until_signal(), or from f.
SupervisorCall(c) ==
  /\ c \in Threads => loops[c] \in {"out", "f"}
  /\ CallStep(c)
  /\ UNCHANGED signalVars

SupervisorStep ==
  /\ \/ \E c \in Clients : MethodStep(c)
     \/ WorkerStep
     \/ \E p \in Pids : ChildEnds(p)
  /\ UNCHANGED signalVars

\* A thread that is in no method of the supervisor.
SignalStep(t) ==
  /\ pc[t] = "idle"
  /\ LoopEnter(t) \/ LoopStep(t) \/ LoopCalled(t)
  /\ UNCHANGED vars

Signal == (StopRunning \/ NotifyInRunning) /\ UNCHANGED vars

DaemonNext ==
  /\ ~exited
  /\ \/ \E c \in Clients : SupervisorCall(c)
     \/ SupervisorStep
     \/ \E t \in Threads : SignalStep(t)
     \/ Signal

(***************************************************************************)
(* Threads that can run do run, a thread that keeps asking for a mutex     *)
(* gets it in the end, and f, whatever calls it makes, returns when these  *)
(* do.  Nobody has to call, no child has to end, and no signal has to come.*)
(***************************************************************************)
DaemonSpec ==
  /\ DaemonInit /\ [][DaemonNext]_daemonVars
  /\ WF_daemonVars(WorkerStep /\ UNCHANGED signalVars /\ ~exited)
  /\ \A c \in Clients :
       /\ WF_daemonVars(MethodStep(c) /\ UNCHANGED signalVars /\ ~exited)
       /\ SF_daemonVars(LockStep(c) /\ UNCHANGED signalVars /\ ~exited)
  /\ \A t \in Threads :
       /\ WF_daemonVars(pc[t] = "idle" /\ LoopStep(t) /\ UNCHANGED vars /\ ~exited)
       /\ SF_daemonVars(pc[t] = "idle" /\ LoopCalled(t) /\ UNCHANGED vars /\ ~exited)
  /\ WF_daemonVars(NotifyInRunning /\ UNCHANGED vars /\ ~exited)
-----------------------------------------------------------------------------
\* A child that does not end is all that can keep a thread for ever.
ChildrenEnd == \A p \in Pids : []<>(~Alive(p))

\* start(), stop() and a line of the log return if no child runs for ever, also
\* when f calls them: no wait for mut, for log_mut or for the worker goes on for
\* ever, but a fork() that fails ends the process first.
CallsReturn ==
  ChildrenEnd => \A c \in Clients : pc[c] # "idle" ~> pc[c] = "idle" \/ ForkFailed

\* Once g_running is cleared, every loop comes to its end, wherever it was,
\* unless f is kept by a stop() that waits for a child.
LoopsEnd ==
  ChildrenEnd =>
    \A t \in Threads : ~g_running /\ loops[t] # "out" ~> loops[t] = "out" \/ ForkFailed
=============================================================================
