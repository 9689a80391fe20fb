------------------------------- MODULE Looper -------------------------------
(***************************************************************************)
(* ucc::Looper (include/utils_cc/looper.h, source/looper.cc) with the      *)
(* ThreadWrapper that owns its worker thread: a task queue under op_mut    *)
(* and a condition variable, served by one worker, started and stopped     *)
(* under run_mut.                                                          *)
(*                                                                         *)
(* Client threads call post, activate and deactivate whenever they like.   *)
(* A task is an arbitrary closure: while it runs, the worker itself may    *)
(* make the calls in TaskCalls.  One step of the model is one access to    *)
(* shared state, or one critical section of op_mut that reads nothing      *)
(* another thread writes without op_mut: `running' and `looping' are read  *)
(* and written with no common lock, so each access to them is a step of    *)
(* its own.                                                                *)
(***************************************************************************)
EXTENDS Naturals, Sequences, FiniteSets, Functions

CONSTANTS Clients,   \* the threads that use the looper from outside
          Worker,    \* the thread spawned by activate()
          NoThread,  \* the owner of an unlocked mutex
          Tasks,     \* the closures handed to post(), each at most once
          NoTask,    \* the content of tsk before the first pop
          TaskCalls  \* the calls a closure may make on its own looper

Threads == Clients \cup {Worker}

ASSUME WorkerAssumption == Worker \notin Clients
ASSUME NoThreadAssumption == NoThread \notin Threads
ASSUME LooperTaskAssumption == NoTask \notin Tasks
ASSUME ClientsAssumption == IsFiniteSet(Clients)
ASSUME TaskCallsAssumption == TaskCalls \subseteq {"post", "activate", "deactivate"}

VARIABLES
  running,      \* accepting tasks: what is_active() returns
  looping,      \* the worker's order to go on
  msg_queue,    \* the tasks posted and not yet taken
  n_processed,  \* how many tasks have been taken
  tsk,          \* the worker's local copy of the task it took last
  run_mut,      \* the owner of the mutex of activate/deactivate
  op_mut,       \* the owner of the mutex of msg_queue, between two steps
  wpc,          \* where the worker is in pull_all_tasks
  pc,           \* where each thread is in the looper's methods
  job,          \* the task each thread is posting
  aborted,      \* std::terminate() has been called
  posted,       \* history: the tasks post() has accepted
  dropped       \* history: the tasks removed from the queue without being run

flags == <<running, looping>>
queue == <<msg_queue, n_processed, tsk>>
mutexes == <<run_mut, op_mut>>
calls == <<pc, job>>
history == <<posted, dropped>>
vars == <<flags, queue, mutexes, wpc, calls, aborted, history>>

PostLabels == {"post", "post_flush", "notify"}
ActLabels == {"act_pre", "act_lock", "act_clear", "act_spawn", "act_run", "act_done"}
DeactLabels == {"deact_lock", "deact_pre", "deact_stop", "deact_notify",
                "deact_join", "deact_done"}

\* The labels inside the run_mut section of activate() or deactivate().
RunSection == {"act_clear", "act_spawn", "act_run",
               "deact_pre", "deact_stop", "deact_notify", "deact_join"}

\* The labels at which the worker owns op_mut between two of its steps.
OpSection == {"predicate", "block", "recheck", "pop"}
WorkerLabels == OpSection \cup {"none", "loop", "lock", "waiting", "task", "exited"}

InQueue(t) == t \in Range(msg_queue)
Executing(t) == wpc = "task" /\ tsk = t

\* pre_activate() is what activate() calls on its first and on its last line.
PreActivating(th) == pc[th] \in {"act_pre", "act_done"}

TypeOK ==
  /\ running \in BOOLEAN
  /\ looping \in BOOLEAN
  /\ msg_queue \in Seq(Tasks)
  /\ n_processed \in Nat
  /\ tsk \in Tasks \cup {NoTask}
  /\ run_mut \in Threads \cup {NoThread}
  /\ op_mut \in {Worker, NoThread}
  /\ wpc \in WorkerLabels
  /\ pc \in [Threads -> {"idle"} \cup PostLabels \cup ActLabels \cup DeactLabels]
  /\ job \in [Threads -> Tasks \cup {NoTask}]
  /\ aborted \in BOOLEAN
  /\ posted \in SUBSET Tasks
  /\ dropped \in SUBSET Tasks

Init ==
  /\ running = FALSE
  /\ looping = FALSE
  /\ msg_queue = <<>>
  /\ n_processed = 0
  /\ tsk = NoTask
  /\ run_mut = NoThread
  /\ op_mut = NoThread
  /\ wpc = "none"
  /\ pc = [th \in Threads |-> "idle"]
  /\ job = [th \in Threads |-> NoTask]
  /\ aborted = FALSE
  /\ posted = {}
  /\ dropped = {}
-----------------------------------------------------------------------------
(* Control flow, the condition variable, and the std::thread that the      *)
(* ThreadWrapper holds.                                                    *)

\* A client may enter a method when it is in none; so may the worker while
\* it executes a task that makes this call.
MayCall(th, method) ==
  /\ pc[th] = "idle"
  /\ th = Worker => wpc = "task" /\ method \in TaskCalls

Goto(th, from, to) ==
  /\ pc[th] = from
  /\ pc' = [pc EXCEPT ![th] = to]

\* A step that touches nothing of the looper: a call or a hook.
Pass(th, from, to) ==
  /\ Goto(th, from, to)
  /\ UNCHANGED <<flags, queue, mutexes, wpc, job, aborted, history>>

\* Mutant of NotifyOne: the notification reaches nobody.
NotifyNobody == wpc' = wpc

\* cv.notify_one(): the worker is the only thread that ever waits.  A call
\* that finds nobody waiting leaves no trace.
NotifyOne == wpc' = IF wpc = "waiting" THEN "lock" ELSE wpc

\* ThreadWrapper::attach: a previous thread would be joined first (there is
\* none when activate() gets here); then the new one starts.
Attach == wpc = "none" /\ wpc' = "loop"

\* Mutant of Detach: the thread is let go instead of waited for.
LetGo == wpc' = "none"

\* ThreadWrapper::detach is a join: it returns when the worker has left its
\* entry function.
Detach == wpc = "exited" /\ wpc' = "none"
-----------------------------------------------------------------------------
(* post(task, flush)                                                       *)

\* `unless(running)': a read without a lock.  When it fails post() returns
\* and changes nothing, which is a stuttering step.
PostCheck(th, t, flush) ==
  /\ MayCall(th, "post")
  /\ running
  /\ t \notin posted
  /\ posted' = posted \cup {t}
  /\ job' = [job EXCEPT ![th] = t]
  /\ Goto(th, "idle", IF flush THEN "post_flush" ELSE "post")
  /\ UNCHANGED <<flags, queue, mutexes, wpc, aborted, dropped>>

\* A section of op_mut in which the queue becomes q and loses the tasks lost.
SetQueue(q, lost) ==
  /\ op_mut = NoThread
  /\ msg_queue' = q
  /\ dropped' = dropped \cup lost
  /\ UNCHANGED <<flags, n_processed, tsk, mutexes, wpc, job, aborted, posted>>

\* Mutants of PostPush: no notification follows; the wrong closure is added.
PushWithoutNotify(th) ==
  Goto(th, "post", "idle") /\ SetQueue(Append(msg_queue, job[th]), {})
PushLastTask(th) ==
  Goto(th, "post", "notify") /\ SetQueue(Append(msg_queue, tsk), {})

PostPush(th) ==
  Goto(th, "post", "notify") /\ SetQueue(Append(msg_queue, job[th]), {})

\* With flush the queue is emptied before the task is added.
PostFlushPush(th) ==
  Goto(th, "post_flush", "notify") /\ SetQueue(<<job[th]>>, Range(msg_queue))

\* notify_one() is called after op_mut has been released.
PostNotify(th) ==
  /\ Goto(th, "notify", "idle")
  /\ NotifyOne
  /\ UNCHANGED <<flags, queue, mutexes, job, aborted, history>>
-----------------------------------------------------------------------------
(* activate()                                                              *)

\* Locks run_mut and goes on under it if it has to, else unlocks and returns.
LockRun(th, from, to, wanted) ==
  /\ run_mut = NoThread
  /\ run_mut' = IF wanted THEN th ELSE NoThread
  /\ Goto(th, from, IF wanted THEN to ELSE "idle")
  /\ UNCHANGED <<flags, queue, op_mut, wpc, job, aborted, history>>

\* The pre_activate() on the first line comes before run_mut is locked.
ActCall(th) == MayCall(th, "activate") /\ Pass(th, "idle", "act_pre")
ActPre(th) == Pass(th, "act_pre", "act_lock")
ActLock(th) == LockRun(th, "act_lock", "act_clear", ~running)

ActClear(th) ==
  Goto(th, "act_clear", "act_spawn") /\ SetQueue(<<>>, Range(msg_queue))

\* looping is set before the worker, its only reader, exists.
ActSpawn(th) ==
  /\ Goto(th, "act_spawn", "act_run")
  /\ looping' = TRUE
  /\ Attach
  /\ UNCHANGED <<running, queue, mutexes, job, aborted, history>>

\* running is set after the worker has started, then run_mut is released.
ActRun(th) ==
  /\ Goto(th, "act_run", "act_done")
  /\ running' = TRUE
  /\ run_mut' = NoThread
  /\ UNCHANGED <<looping, queue, op_mut, wpc, job, aborted, history>>

\* The hook on the last line returns.
ActDone(th) == Pass(th, "act_done", "idle")
-----------------------------------------------------------------------------
(* deactivate()                                                            *)

DeactCall(th) == MayCall(th, "deactivate") /\ Pass(th, "idle", "deact_lock")
DeactLock(th) == LockRun(th, "deact_lock", "deact_pre", running)
DeactPre(th) == Pass(th, "deact_pre", "deact_stop")

\* looping is cleared without op_mut, whoever owns it.
DeactStop(th) ==
  /\ Goto(th, "deact_stop", "deact_notify")
  /\ looping' = FALSE
  /\ UNCHANGED <<running, queue, mutexes, wpc, job, aborted, history>>

\* Mutant of DeactNotify: a sleeping worker is not woken.
StopWithoutNotify(th) == Pass(th, "deact_notify", "deact_join")

DeactNotify(th) ==
  /\ Goto(th, "deact_notify", "deact_join")
  /\ NotifyOne
  /\ UNCHANGED <<flags, queue, mutexes, job, aborted, history>>

\* Mutant of DeactJoin: running is left set.
JoinAndStayRunning(th) ==
  /\ th # Worker
  /\ Goto(th, "deact_join", "deact_done")
  /\ Detach
  /\ run_mut' = NoThread
  /\ UNCHANGED <<flags, queue, op_mut, job, aborted, history>>

\* The worker is joined, then running is cleared and run_mut released.
DeactJoin(th) ==
  /\ th # Worker
  /\ Goto(th, "deact_join", "deact_done")
  /\ Detach
  /\ running' = FALSE
  /\ run_mut' = NoThread
  /\ UNCHANGED <<looping, queue, op_mut, job, aborted, history>>

\* A task that stops its own looper joins the thread it runs on: join()
\* throws, and detach() is noexcept.
DeactSelfJoin ==
  /\ pc[Worker] = "deact_join"
  /\ aborted' = TRUE
  /\ UNCHANGED <<flags, queue, mutexes, wpc, calls, history>>

\* post_deactivate() comes after run_mut has been released.
DeactDone(th) == Pass(th, "deact_done", "idle")
-----------------------------------------------------------------------------
(* The worker: work_entry() is pull_all_tasks(true).                       *)

WorkerGoto(from, to) ==
  /\ wpc = from
  /\ wpc' = to
  /\ UNCHANGED <<flags, run_mut, calls, aborted, history>>

\* `while (looping)', read without a lock.
WorkerLoop ==
  /\ WorkerGoto("loop", IF looping THEN "lock" ELSE "exited")
  /\ UNCHANGED <<queue, op_mut>>

\* Locks op_mut, on entry and again after every wake-up.
WorkerLock ==
  /\ op_mut = NoThread
  /\ op_mut' = Worker
  /\ WorkerGoto("lock", "predicate")
  /\ UNCHANGED queue

\* The predicate of cv.wait(): op_mut protects the queue, nothing protects
\* looping.
WorkerPredicate ==
  /\ WorkerGoto("predicate",
                IF ~looping \/ msg_queue # <<>> THEN "recheck" ELSE "block")
  /\ UNCHANGED <<queue, op_mut>>

\* cv.wait() releases op_mut and starts waiting, atomically.
WorkerBlock ==
  /\ WorkerGoto("block", "waiting")
  /\ op_mut' = NoThread
  /\ UNCHANGED queue

\* A condition variable may wake its waiter for no reason.
SpuriousWakeup == WorkerGoto("waiting", "lock") /\ UNCHANGED <<queue, op_mut>>

\* Mutant of WorkerRecheck: looping is not read a second time.
TrustPredicate == WorkerGoto("recheck", "pop") /\ UNCHANGED <<queue, op_mut>>

\* `if (!looping) return false': the second read of looping.
WorkerRecheck ==
  /\ WorkerGoto("recheck", IF looping THEN "pop" ELSE "exited")
  /\ op_mut' = IF looping THEN Worker ELSE NoThread
  /\ UNCHANGED queue

\* Mutant of WorkerPop: front() without pop_front().
TakeWithoutPop ==
  /\ WorkerGoto("pop", "task")
  /\ tsk' = Head(msg_queue)
  /\ op_mut' = NoThread
  /\ n_processed' = n_processed + 1
  /\ UNCHANGED msg_queue

\* Takes the front task, releases op_mut, counts the task and calls it.
WorkerPop ==
  /\ WorkerGoto("pop", "task")
  /\ tsk' = Head(msg_queue)
  /\ msg_queue' = Tail(msg_queue)
  /\ op_mut' = NoThread
  /\ n_processed' = n_processed + 1

\* The closure returns, having completed the calls it made.
WorkerTaskDone ==
  /\ pc[Worker] = "idle"
  /\ WorkerGoto("task", "loop")
  /\ UNCHANGED <<queue, op_mut>>
-----------------------------------------------------------------------------
\* A thread enters a method.
CallStep(th) ==
  \/ \E t \in Tasks, flush \in BOOLEAN : PostCheck(th, t, flush)
  \/ ActCall(th)
  \/ DeactCall(th)

\* A thread goes on with the method it is in.
MethodStep(th) ==
  \/ PostPush(th) \/ PostFlushPush(th) \/ PostNotify(th)
  \/ ActPre(th) \/ ActLock(th) \/ ActClear(th)
  \/ ActSpawn(th) \/ ActRun(th) \/ ActDone(th)
  \/ DeactLock(th) \/ DeactPre(th) \/ DeactStop(th)
  \/ DeactNotify(th) \/ DeactJoin(th) \/ DeactDone(th)

WorkerStep ==
  \/ WorkerLoop \/ WorkerLock \/ WorkerPredicate \/ WorkerBlock
  \/ WorkerRecheck \/ WorkerPop \/ WorkerTaskDone

Next ==
  /\ ~aborted
  /\ \/ \E th \in Threads : CallStep(th) \/ MethodStep(th)
     \/ DeactSelfJoin
     \/ WorkerStep
     \/ SpuriousWakeup

Spec == Init /\ [][Next]_vars

(***************************************************************************)
(* The scheduler runs every thread that can run, and a task, whatever      *)
(* calls it makes, returns when these do: it does not make calls for ever. *)
(* No thread has to make another call, and no wake-up is spurious by right.*)
(***************************************************************************)
FairSpec ==
  /\ Spec
  /\ WF_vars(WorkerStep /\ ~aborted)
  /\ SF_vars(WorkerTaskDone /\ ~aborted)
  /\ \A th \in Threads : WF_vars(MethodStep(th) /\ ~aborted)
-----------------------------------------------------------------------------
(* Safety                                                                  *)

\* A worker that sleeps while tasks wait is about to be notified: the check
\* of the queue and the start of the wait are one section of op_mut, so the
\* notification of a push is never lost, although it is sent unlocked.
NoMissedTask ==
  wpc = "waiting" /\ msg_queue # <<>> => \E th \in Threads : pc[th] = "notify"

\* front() and pop_front() are never called on an empty list, although
\* looping is read twice between the predicate and the pop and a false
\* `looping' satisfies the predicate with nothing in the queue.
NeverPopEmpty == wpc = "pop" => msg_queue # <<>>

\* Whenever nobody is inside activate() or deactivate(), the looper accepts
\* tasks exactly if it has a worker to run them: concurrent starts and stops
\* never leave a second worker, or a looper that accepts and never executes.
WorkerIffRunning ==
  run_mut = NoThread => (running <=> wpc # "none")

\* A task that a flush or a restart removed from the queue is not executed
\* later, and none is executed before it was posted.
DroppedNeverRuns == \A t \in Tasks : Executing(t) => t \in posted \ dropped

\* Every task post() has accepted is accounted for exactly once: still on
\* its way into the queue, waiting in it, taken by the worker, or dropped.
EveryTaskAccountedFor ==
  Cardinality(posted) =
    Cardinality({th \in Threads : pc[th] \in {"post", "post_flush"}})
      + Len(msg_queue) + n_processed + Cardinality(dropped)

\* The looper implements the abstract executor: see Executor for what this
\* promises.
Abstract == INSTANCE Executor WITH
  pending <- msg_queue,
  current <- IF wpc = "task" THEN tsk ELSE NoTask,
  open <- wpc # "none"

ExecutorSpec == Abstract!Spec

(* Liveness                                                                *)

\* A waiting task is executed in the end, unless the looper is stopped or
\* somebody flushes the queue.
QueuedTaskRuns ==
  \A t \in Tasks :
    InQueue(t) ~> \/ Executing(t)
                  \/ ~looping
                  \/ \E th \in Threads : pc[th] = "post_flush"

\* The task being executed waits for the run_mut under which th waits for the
\* task.
TaskWaitsFor(th) ==
  /\ pc[th] = "deact_join"
  /\ pc[Worker] \in {"act_lock", "deact_lock"}

\* deactivate() returns, whatever the worker is doing when looping is cleared:
\* a worker asleep is woken, a worker in a task leaves after it.  The only
\* exceptions are the window between the predicate of the wait and the wait
\* itself, and a task that starts or stops the looper meanwhile: a client and
\* a task may then wait for each other.
StopReturnsUnlessRaced ==
  \A th \in Clients :
    pc[th] = "deact_notify" /\ wpc # "block"
      ~> pc[th] = "deact_done" \/ TaskWaitsFor(th)

(* What the header says and the code does not do                           *)

\* looper.h:66 "stop loop": a deactivate() that has begun to stop the loop
\* returns.
DeactivateReturns ==
  \A th \in Clients : pc[th] = "deact_join" ~> pc[th] # "deact_join"

\* looper.h:79 "before loop gets started": pre_activate() is not called by a
\* thread that has just started the loop.
PreActivateBeforeStart == \A th \in Threads : PreActivating(th) => ~looping
=============================================================================
