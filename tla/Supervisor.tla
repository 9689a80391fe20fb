----------------------------- MODULE Supervisor -----------------------------
(***************************************************************************)
(* Supervisor (include/utils_cc/supervisor.h): a worker thread that forks  *)
(* a child process, waits for its end and forks the next one, started and  *)
(* stopped by other threads under mut.  Whatever thread logs holds log_mut *)
(* (include/utils_cc/log.h); a child forked meanwhile has a copy of it     *)
(* that stays locked, since the thread that would unlock it is not copied. *)
(*                                                                         *)
(* One step is one access to `running', which the worker reads without     *)
(* mut, one lock, or one system call.  fork() and wait() are modelled as   *)
(* POSIX describes them.                                                   *)
(***************************************************************************)
EXTENDS Naturals, FiniteSets

CONSTANTS Clients,   \* the threads that use the supervisor
          NoThread,  \* the owner of an unlocked mutex
          Pids       \* the processes the system has room for: without a free
                     \* one, fork() fails

ASSUME NoClientAssumption == NoThread \notin Clients
ASSUME PidsAssumption == IsFiniteSet(Pids)

VARIABLES
  running,   \* the worker's order to go on
  log_file,  \* log_file.size() > 0
  mut,       \* the owner of the mutex of start/stop
  log_mut,   \* the owner of the mutex of the loggers
  pc,        \* where each client is in the supervisor's methods
  wpc,       \* where the worker is in work_entry
  children,  \* what has become of each process
  exited,    \* exit(1) has been called
  races,     \* history: how many stops have come between a fork() and the
             \* read of running before or behind it
  left       \* history: how many children workers have left unwaited for

locks == <<mut, log_mut>>
vars == <<running, log_file, locks, pc, wpc, children, exited, races, left>>

ClientLabels == {"idle", "start_lock", "attach", "stop_lock", "join", "log_lock", "logging"}
WorkerLabels == {"none", "fork", "raise", "loop", "wait", "again", "last_loop", "exited"}

Alive(p) == children[p] \in {"running", "hung"}
Unwaited == {p \in Pids : children[p] # "none"}

\* With the labels, log_mut is held by whoever is in the middle of a line.
TypeOK ==
  /\ running \in BOOLEAN
  /\ log_file \in BOOLEAN
  /\ mut \in Clients \cup {NoThread}
  /\ log_mut \in Clients \cup {NoThread}
  /\ \A c \in Clients : log_mut = c <=> pc[c] = "logging"
  /\ pc \in [Clients -> ClientLabels]
  /\ wpc \in WorkerLabels
  /\ children \in [Pids -> {"none", "running", "hung", "zombie"}]
  /\ exited \in BOOLEAN
  /\ races \in Nat
  /\ left \in Nat

Init ==
  /\ running = FALSE
  /\ log_file \in BOOLEAN
  /\ mut = NoThread
  /\ log_mut = NoThread
  /\ pc = [c \in Clients |-> "idle"]
  /\ wpc = "none"
  /\ children = [p \in Pids |-> "none"]
  /\ exited = FALSE
  /\ races = 0
  /\ left = 0
-----------------------------------------------------------------------------
Goto(c, from, to) ==
  /\ pc[c] = from
  /\ pc' = [pc EXCEPT ![c] = to]

Call(c, label) ==
  /\ Goto(c, "idle", label)
  /\ UNCHANGED <<running, log_file, locks, wpc, children, exited, races, left>>

StartCall(c) == Call(c, "start_lock")
StopCall(c) == Call(c, "stop_lock")  \* also from the destructor
LogCall(c) == Call(c, "log_lock")    \* the client logs something of its own

\* Locks mut and sets running, or finds it set, unlocks and returns.
StartLock(c) ==
  /\ mut = NoThread
  /\ mut' = IF running THEN NoThread ELSE c
  /\ running' = TRUE
  /\ Goto(c, "start_lock", IF running THEN "idle" ELSE "attach")
  /\ UNCHANGED <<log_file, log_mut, wpc, children, exited, races, left>>

\* std::thread starts the worker; worker.Attach() has no earlier thread to
\* join and logs.
StartAttach(c) ==
  /\ Goto(c, "attach", "log_lock")
  /\ wpc = "none" /\ wpc' = "fork"
  /\ UNCHANGED <<running, log_file, locks, children, exited, races, left>>

\* The worker is past its last look at running and not yet bound for wait().
Forking == wpc \in {"fork", "loop"}

\* Mutant of StopLock: running is left to be cleared after the join.
StopBeforeClear(c) ==
  /\ mut = NoThread
  /\ mut' = IF running THEN c ELSE NoThread
  /\ races' = races + IF running /\ Forking THEN 1 ELSE 0
  /\ Goto(c, "stop_lock", IF running THEN "join" ELSE "idle")
  /\ UNCHANGED <<running, log_file, log_mut, wpc, children, exited, left>>

\* Locks mut and clears running, or finds it cleared, unlocks and returns.
StopLock(c) ==
  /\ mut = NoThread
  /\ mut' = IF running THEN c ELSE NoThread
  /\ running' = FALSE
  /\ races' = races + IF running /\ Forking THEN 1 ELSE 0
  /\ Goto(c, "stop_lock", IF running THEN "join" ELSE "idle")
  /\ UNCHANGED <<log_file, log_mut, wpc, children, exited, left>>

\* worker.Detach() joins the worker and logs.
StopJoin(c) ==
  /\ Goto(c, "join", "log_lock")
  /\ wpc = "exited" /\ wpc' = "none"
  /\ UNCHANGED <<running, log_file, locks, children, exited, races, left>>

\* UCC_LOGGER: prints while it holds log_mut.
LogLock(c) ==
  /\ Goto(c, "log_lock", "logging")
  /\ log_mut = NoThread /\ log_mut' = c
  /\ UNCHANGED <<running, log_file, mut, wpc, children, exited, races, left>>

\* Mutant of LogDone: log_mut stays locked.
LogAndKeep(c) ==
  /\ Goto(c, "logging", "idle")
  /\ mut' = IF mut = c THEN NoThread ELSE mut
  /\ UNCHANGED <<running, log_file, log_mut, wpc, children, exited, races, left>>

\* The line is out, and start() or stop(), if it was one of these, returns.
LogDone(c) ==
  /\ Goto(c, "logging", "idle")
  /\ log_mut' = NoThread
  /\ mut' = IF mut = c THEN NoThread ELSE mut
  /\ UNCHANGED <<running, log_file, wpc, children, exited, races, left>>
-----------------------------------------------------------------------------
WorkerGoto(from, to) ==
  /\ wpc = from
  /\ wpc' = to
  /\ UNCHANGED <<running, log_file, locks, pc, exited, races>>

\* fork(): the child starts with the logger, if there is a log file, and waits
\* for ever if its copy of log_mut is locked; else it is on its way through
\* run_in_descendant().
WorkerFork ==
  /\ WorkerGoto("fork", "loop")
  /\ \E p \in Pids \ Unwaited :
       children' = [children EXCEPT ![p] =
                      IF log_file /\ log_mut # NoThread THEN "hung" ELSE "running"]
  /\ UNCHANGED left

\* There is no room for a child.
WorkerForkFails == WorkerGoto("fork", "raise") /\ UNCHANGED <<children, left>>

\* UCC_RAISE: logs, then the whole process exits.
WorkerRaise ==
  /\ wpc = "raise"
  /\ log_mut = NoThread
  /\ exited' = TRUE
  /\ UNCHANGED <<running, log_file, locks, pc, wpc, children, races, left>>

\* `while (running)' behind a fork: a worker that finds it cleared leaves its
\* child to itself.
WorkerLoop ==
  /\ WorkerGoto("loop", IF running THEN "wait" ELSE "exited")
  /\ left' = IF running THEN left ELSE left + 1
  /\ UNCHANGED children

\* Mutant of WorkerWait: wait() is called with WNOHANG.
WaitWithoutBlocking == WorkerGoto("wait", "again") /\ UNCHANGED <<children, left>>

\* wait(NULL): returns when any child has ended, or when there is none.  A
\* worker that is still running then sleeps, but any step may take a while.
WorkerWait ==
  /\ WorkerGoto("wait", "again")
  /\ \/ \E p \in Pids : children[p] = "zombie" /\ children' = [children EXCEPT ![p] = "none"]
     \/ Unwaited = {} /\ UNCHANGED children
  /\ UNCHANGED left

\* Mutants of WorkerAgain: running is not read again after the sleep; it is
\* read the wrong way round.
ForkUnasked == WorkerGoto("again", "fork") /\ UNCHANGED <<children, left>>
ForkWhenStopped ==
  /\ WorkerGoto("again", IF running THEN "last_loop" ELSE "fork")
  /\ UNCHANGED <<children, left>>

\* `if (running)' the worker forks again, else it comes to the end of its loop.
WorkerAgain ==
  /\ WorkerGoto("again", IF running THEN "fork" ELSE "last_loop")
  /\ UNCHANGED <<children, left>>

\* `while (running)' with no child to wait for.
WorkerLastLoop ==
  /\ WorkerGoto("last_loop", IF running THEN "wait" ELSE "exited")
  /\ UNCHANGED <<children, left>>

\* run_in_descendant() returns, or the child dies.
ChildEnds(p) ==
  /\ children[p] = "running"
  /\ children' = [children EXCEPT ![p] = "zombie"]
  /\ UNCHANGED <<running, log_file, locks, pc, wpc, exited, races, left>>
-----------------------------------------------------------------------------
CallStep(c) == StartCall(c) \/ StopCall(c) \/ LogCall(c)

LockStep(c) == StartLock(c) \/ StopLock(c) \/ LogLock(c)

MethodStep(c) == LockStep(c) \/ StartAttach(c) \/ StopJoin(c) \/ LogDone(c)

WorkerStep ==
  \/ WorkerFork \/ WorkerForkFails \/ WorkerRaise \/ WorkerLoop
  \/ WorkerWait \/ WorkerAgain \/ WorkerLastLoop

Next ==
  /\ ~exited
  /\ \/ \E c \in Clients : CallStep(c) \/ MethodStep(c)
     \/ WorkerStep
     \/ \E p \in Pids : ChildEnds(p)

Spec == Init /\ [][Next]_vars
-----------------------------------------------------------------------------
\* The children nobody has waited for are those that workers have left behind
\* and the one of the present worker from its fork() to its wait().  So wait()
\* never returns for want of a child; and a child left behind is never made up
\* for, since the wait() that gets it misses the worker's own.
ChildrenAccountedFor ==
  Cardinality(Unwaited) = left + IF wpc \in {"loop", "wait"} THEN 1 ELSE 0

\* Stops leave behind as many children as have come between the worker's last
\* look at running and its wait(), and no others: while there is no worker, that
\* many processes are not waited for, whichever of them the later waits have
\* reaped; a worker has one more at most.
OneLeftPerRace ==
  /\ wpc = "none" => Cardinality(Unwaited) = races
  /\ Cardinality(Unwaited) <= races + 1

\* The process is going to exit.
ForkFailed == wpc = "raise"

\* The end of a child is noticed, and there is another one, unless the
\* supervisor is stopped or fork() fails.
DeadChildIsReplaced ==
  (wpc = "wait" /\ \E p \in Pids : children[p] = "zombie")
    ~> wpc = "loop" \/ ~running \/ ForkFailed
=============================================================================
