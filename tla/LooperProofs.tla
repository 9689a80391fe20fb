---------------------------- MODULE LooperProofs ----------------------------
(***************************************************************************)
(* Proofs about Looper for any finite number of clients, any tasks and     *)
(* whatever the tasks call: type correctness, NoMissedTask, NeverPopEmpty, *)
(* WorkerIffRunning and EveryTaskAccountedFor as invariants, the           *)
(* implementation of Executor, and that there is no deadlock but the two   *)
(* that StopReturnsUnlessRaced excepts.                                    *)
(***************************************************************************)
EXTENDS Looper, FiniteSetTheorems, TLAPS

\* Who owns the mutexes is written in the labels.
LockInv ==
  /\ \A th \in Threads : run_mut = th <=> pc[th] \in RunSection
  /\ op_mut = IF wpc \in OpSection THEN Worker ELSE NoThread

\* The worker makes calls only while it executes a task, and a thread that
\* is about to push holds a task.
CallInv ==
  /\ pc[Worker] # "idle" => wpc = "task"
  /\ \A th \in Threads : pc[th] \in {"post", "post_flush"} => job[th] \in Tasks
  /\ wpc = "task" => tsk \in Tasks

\* What the owner of run_mut knows of the worker at each label, and what
\* everybody knows when there is no owner.
SessionInv ==
  /\ \A th \in Threads :
       /\ pc[th] \in {"act_clear", "act_spawn"} => ~running /\ wpc = "none"
       /\ pc[th] = "act_run" => ~running /\ wpc # "none"
       /\ pc[th] \in RunSection \cap DeactLabels => running
  /\ running => wpc # "none"
  /\ looping => wpc \notin {"none", "exited"}
  /\ WorkerIffRunning

\* What the worker has learnt about the queue and still holds true at each
\* label of its section of op_mut, and what it may have missed in its sleep.
QueueInv ==
  /\ wpc = "block" => msg_queue = <<>>
  /\ wpc = "recheck" /\ looping => msg_queue # <<>>
  /\ NeverPopEmpty
  /\ NoMissedTask

IInv == TypeOK /\ LockInv /\ CallInv /\ SessionInv /\ QueueInv
-----------------------------------------------------------------------------
\* What the removal of elements from a sequence of tasks can remove.
LEMMA RangeOfTasks ==
  ASSUME NEW s \in Seq(Tasks)
  PROVE  Range(s) \subseteq Tasks
BY DEF Range

LEMMA InitIInv == Init => IInv
<1> SUFFICES ASSUME Init PROVE IInv
  OBVIOUS
<1> USE NoThreadAssumption DEF Init
<1>1. TypeOK
  <2>1. /\ pc \in [Threads -> {"idle"} \cup PostLabels \cup ActLabels \cup DeactLabels]
        /\ job \in [Threads -> Tasks \cup {NoTask}]
    OBVIOUS
  <2>2. msg_queue \in Seq(Tasks) /\ posted \in SUBSET Tasks /\ dropped \in SUBSET Tasks
    OBVIOUS
  <2>3. wpc \in WorkerLabels /\ op_mut \in {Worker, NoThread} /\ n_processed \in Nat
    BY DEF WorkerLabels
  <2> HIDE DEF Init
  <2> QED
    BY <2>1, <2>2, <2>3 DEF TypeOK, Init
<1>2. LockInv /\ CallInv
  <2>1. \A th \in Threads : pc[th] = "idle"
    OBVIOUS
  <2> QED
    BY <2>1 DEF LockInv, CallInv, OpSection, RunSection, Threads
<1>3. SessionInv
  <2>1. \A th \in Threads : pc[th] = "idle"
    OBVIOUS
  <2> QED
    BY <2>1 DEF SessionInv, WorkerIffRunning, RunSection, DeactLabels
<1>4. QueueInv
  BY DEF QueueInv, NeverPopEmpty, NoMissedTask
<1> QED
  BY <1>1, <1>2, <1>3, <1>4 DEF IInv

LEMMA StepIInv == IInv /\ [Next]_vars => IInv'
<1> SUFFICES ASSUME IInv, [Next]_vars PROVE IInv'
  OBVIOUS
<1> USE WorkerAssumption, NoThreadAssumption, LooperTaskAssumption
    DEF IInv, TypeOK, LockInv, CallInv, SessionInv, QueueInv, WorkerIffRunning,
  NeverPopEmpty, NoMissedTask, Threads, WorkerLabels, OpSection, RunSection,
  PostLabels, ActLabels, DeactLabels, vars, flags, queue, mutexes, calls, history
<1>1. ASSUME NEW th \in Threads, NEW t \in Tasks, NEW flush \in BOOLEAN, PostCheck(th, t, flush) PROVE IInv'
  BY <1>1 DEF PostCheck, MayCall, Goto
<1>2. ASSUME NEW th \in Threads, PostPush(th) PROVE IInv'
  BY <1>2 DEF PostPush, Goto, SetQueue
<1>3. ASSUME NEW th \in Threads, PostFlushPush(th) PROVE IInv'
  BY <1>3, RangeOfTasks DEF PostFlushPush, Goto, SetQueue
<1>4. ASSUME NEW th \in Threads, PostNotify(th) PROVE IInv'
  BY <1>4 DEF PostNotify, Goto, NotifyOne
<1>5. ASSUME NEW th \in Threads, ActCall(th) PROVE IInv'
  BY <1>5 DEF ActCall, MayCall, Pass, Goto
<1>6. ASSUME NEW th \in Threads, ActPre(th) PROVE IInv'
  BY <1>6 DEF ActPre, Pass, Goto
<1>7. ASSUME NEW th \in Threads, ActLock(th) PROVE IInv'
  BY <1>7 DEF ActLock, LockRun, Goto
<1>8. ASSUME NEW th \in Threads, ActClear(th) PROVE IInv'
  BY <1>8, RangeOfTasks DEF ActClear, Goto, SetQueue
<1>9. ASSUME NEW th \in Threads, ActSpawn(th) PROVE IInv'
  BY <1>9 DEF ActSpawn, Goto, Attach
<1>10. ASSUME NEW th \in Threads, ActRun(th) PROVE IInv'
  BY <1>10 DEF ActRun, Goto
<1>11. ASSUME NEW th \in Threads, ActDone(th) PROVE IInv'
  BY <1>11 DEF ActDone, Pass, Goto
<1>12. ASSUME NEW th \in Threads, DeactCall(th) PROVE IInv'
  BY <1>12 DEF DeactCall, MayCall, Pass, Goto
<1>13. ASSUME NEW th \in Threads, DeactLock(th) PROVE IInv'
  BY <1>13 DEF DeactLock, LockRun, Goto
<1>14. ASSUME NEW th \in Threads, DeactPre(th) PROVE IInv'
  BY <1>14 DEF DeactPre, Pass, Goto
<1>15. ASSUME NEW th \in Threads, DeactStop(th) PROVE IInv'
  <2>1. TypeOK'
    BY <1>15 DEF DeactStop, Goto
  <2>2. LockInv' /\ CallInv'
    BY <1>15 DEF DeactStop, Goto
  <2>3. SessionInv'
    BY <1>15 DEF DeactStop, Goto
  <2>4. QueueInv'
    BY <1>15 DEF DeactStop, Goto
  <2> QED
    BY <2>1, <2>2, <2>3, <2>4
<1>16. ASSUME NEW th \in Threads, DeactNotify(th) PROVE IInv'
  BY <1>16 DEF DeactNotify, Goto, NotifyOne
<1>17. ASSUME NEW th \in Threads, DeactJoin(th) PROVE IInv'
  BY <1>17 DEF DeactJoin, Goto, Detach
<1>18. ASSUME NEW th \in Threads, DeactDone(th) PROVE IInv'
  BY <1>18 DEF DeactDone, Pass, Goto
<1>19. ASSUME DeactSelfJoin PROVE IInv'
  BY <1>19 DEF DeactSelfJoin
<1>20. ASSUME WorkerLoop PROVE IInv'
  BY <1>20 DEF WorkerLoop, WorkerGoto
<1>21. ASSUME WorkerLock PROVE IInv'
  BY <1>21 DEF WorkerLock, WorkerGoto
<1>22. ASSUME WorkerPredicate PROVE IInv'
  BY <1>22 DEF WorkerPredicate, WorkerGoto
<1>23. ASSUME WorkerBlock PROVE IInv'
  BY <1>23 DEF WorkerBlock, WorkerGoto
<1>24. ASSUME SpuriousWakeup PROVE IInv'
  BY <1>24 DEF SpuriousWakeup, WorkerGoto
<1>25. ASSUME WorkerRecheck PROVE IInv'
  BY <1>25 DEF WorkerRecheck, WorkerGoto
<1>26. ASSUME WorkerPop PROVE IInv'
  <2>1. msg_queue # <<>>
    BY <1>26 DEF WorkerPop, WorkerGoto
  <2>2. Head(msg_queue) \in Tasks /\ Tail(msg_queue) \in Seq(Tasks)
    BY <2>1
  <2>3. TypeOK'
    BY <2>2, <1>26 DEF WorkerPop, WorkerGoto
  <2>4. LockInv' /\ CallInv'
    BY <2>2, <1>26 DEF WorkerPop, WorkerGoto
  <2>5. SessionInv'
    BY <1>26 DEF WorkerPop, WorkerGoto
  <2>6. QueueInv'
    BY <1>26 DEF WorkerPop, WorkerGoto
  <2> QED
    BY <2>3, <2>4, <2>5, <2>6
<1>27. ASSUME WorkerTaskDone PROVE IInv'
  BY <1>27 DEF WorkerTaskDone, WorkerGoto
<1>28. CASE UNCHANGED vars
  BY <1>28
<1> HIDE DEF IInv, TypeOK, LockInv, CallInv, SessionInv, QueueInv, Threads
<1> QED
  BY <1>1, <1>2, <1>3, <1>4, <1>5, <1>6, <1>7, <1>8, <1>9, <1>10, <1>11, <1>12, <1>13, <1>14, <1>15, <1>16, <1>17, <1>18, <1>19, <1>20, <1>21, <1>22, <1>23, <1>24, <1>25, <1>26, <1>27, <1>28
  DEF Next, CallStep, MethodStep, WorkerStep
-----------------------------------------------------------------------------
LEMMA Invariance == Spec => []IInv
BY InitIInv, StepIInv, PTL DEF Spec

\* Every variable keeps its type.
THEOREM TypeCorrect == Spec => []TypeOK
BY Invariance, PTL DEF IInv

\* The worker never sleeps beside a queue that nobody is going to tell it of.
THEOREM NoWakeupLost == Spec => []NoMissedTask
BY Invariance, PTL DEF IInv, QueueInv

\* front() is never called on an empty list.
THEOREM PopHasTask == Spec => []NeverPopEmpty
BY Invariance, PTL DEF IInv, QueueInv

\* Concurrent starts and stops leave one worker in a running looper and none
\* in a stopped one.
THEOREM OneWorker == Spec => []WorkerIffRunning
BY Invariance, PTL DEF IInv, SessionInv
-----------------------------------------------------------------------------
(* The refinement.  Seven actions are steps of the executor; the others     *)
(* leave its three variables alone.                                        *)

LEMMA InitRefinesExecutor == Init => Abstract!Init
BY DEF Init, Abstract!Init

LEMMA StepRefinesExecutor == IInv /\ [Next]_vars => [Abstract!Next]_(Abstract!vars)
<1> SUFFICES ASSUME IInv, [Next]_vars PROVE [Abstract!Next]_(Abstract!vars)
  OBVIOUS
<1> USE WorkerAssumption, NoThreadAssumption, LooperTaskAssumption
<1>1. ASSUME NEW th \in Threads, PostPush(th) PROVE Abstract!Submit(job[th]) /\ job[th] \in Tasks
  BY <1>1 DEF PostPush, Goto, SetQueue, Abstract!Submit, IInv, CallInv
<1>2. ASSUME NEW th \in Threads, PostFlushPush(th) PROVE Abstract!Replace(job[th]) /\ job[th] \in Tasks
  BY <1>2 DEF PostFlushPush, Goto, SetQueue, Abstract!Replace, IInv, CallInv
<1>3. ASSUME NEW th \in Threads, ActClear(th) PROVE Abstract!Discard
  BY <1>3 DEF ActClear, Goto, SetQueue, Abstract!Discard, IInv, SessionInv
<1>4. ASSUME NEW th \in Threads, ActSpawn(th) PROVE Abstract!Open
  BY <1>4 DEF ActSpawn, Attach, queue, Abstract!Open
<1>5. ASSUME NEW th \in Threads, DeactJoin(th) PROVE Abstract!Close
  BY <1>5 DEF DeactJoin, Detach, queue, Abstract!Close
<1>6. ASSUME WorkerPop PROVE Abstract!Start
  BY <1>6 DEF WorkerPop, WorkerGoto, Abstract!Start, IInv, QueueInv, NeverPopEmpty
<1>7. ASSUME WorkerTaskDone PROVE Abstract!Finish
  BY <1>7 DEF WorkerTaskDone, WorkerGoto, queue, Abstract!Finish, IInv, CallInv
<1>8. ASSUME NEW th \in Threads,
             \/ \E t \in Tasks, flush \in BOOLEAN : PostCheck(th, t, flush)
             \/ PostNotify(th)
             \/ ActCall(th) \/ ActPre(th) \/ ActLock(th) \/ ActRun(th) \/ ActDone(th)
             \/ DeactCall(th) \/ DeactLock(th) \/ DeactPre(th) \/ DeactStop(th)
             \/ DeactNotify(th) \/ DeactDone(th)
      PROVE  UNCHANGED Abstract!vars
  BY <1>8 DEF PostCheck, PostNotify, NotifyOne, ActCall, ActPre, ActLock, ActRun, ActDone,
     DeactCall, DeactLock, DeactPre, DeactStop, DeactNotify, DeactDone,
     Pass, LockRun, queue, Abstract!vars
<1>9. ASSUME \/ DeactSelfJoin \/ SpuriousWakeup \/ WorkerLoop \/ WorkerLock
             \/ WorkerPredicate \/ WorkerBlock \/ WorkerRecheck
      PROVE  UNCHANGED Abstract!vars
  BY <1>9 DEF DeactSelfJoin, SpuriousWakeup, WorkerLoop, WorkerLock, WorkerPredicate,
     WorkerBlock, WorkerRecheck, WorkerGoto, queue, Abstract!vars
<1>10. CASE UNCHANGED vars
  BY <1>10 DEF vars, queue, Abstract!vars
<1> QED
  BY <1>1, <1>2, <1>3, <1>4, <1>5, <1>6, <1>7, <1>8, <1>9, <1>10
  DEF Next, CallStep, MethodStep, WorkerStep, Abstract!Next

\* The looper implements the executor: whatever the interleaving, tasks are
\* executed one at a time in the order of their insertion, by a loop that
\* loses a task only to a flush or between two sessions.
THEOREM ImplementsExecutor == Spec => ExecutorSpec
BY InitRefinesExecutor, StepRefinesExecutor, Invariance, PTL
DEF Spec, ExecutorSpec, Abstract!Spec
-----------------------------------------------------------------------------
(* A task is in one place at a time: held by the thread that posts it, in   *)
(* the queue, with the worker, or dropped.                                 *)

Holds(th, t) == pc[th] \in {"post", "post_flush"} /\ job[th] = t

PlaceInv ==
  /\ \A th \in Threads, t \in Tasks :
       Holds(th, t) => /\ t \in posted \ dropped
                       /\ ~InQueue(t)
                       /\ ~Executing(t)
                       /\ \A other \in Threads \ {th} : ~Holds(other, t)
  /\ \A t \in Tasks : InQueue(t) => t \in posted \ dropped /\ ~Executing(t)
  /\ \A t \in Tasks : Executing(t) => t \in posted \ dropped
  /\ dropped \subseteq posted
  /\ IsInjective(msg_queue)

LEMMA AppendPlaces ==
  ASSUME NEW s \in Seq(Tasks), NEW t \in Tasks, t \notin Range(s), IsInjective(s)
  PROVE  Range(Append(s, t)) = Range(s) \cup {t} /\ IsInjective(Append(s, t))
<1>1. Range(Append(s, t)) = Range(s) \cup {t}
  <2>1. DOMAIN Append(s, t) = 1 .. Len(s) + 1 /\ DOMAIN s = 1 .. Len(s)
    OBVIOUS
  <2>2. \A i \in 1 .. Len(s) : Append(s, t)[i] = s[i]
    OBVIOUS
  <2>3. Append(s, t)[Len(s) + 1] = t
    OBVIOUS
  <2>4. 1 .. Len(s) + 1 = (1 .. Len(s)) \cup {Len(s) + 1}
    OBVIOUS
  <2>5. ASSUME NEW x
        PROVE  x \in Range(Append(s, t)) <=> x \in Range(s) \cup {t}
    BY <2>1, <2>2, <2>3, <2>4 DEF Range
  <2> QED
    BY <2>5
<1>2. IsInjective(Append(s, t))
  BY DEF IsInjective, Range
<1> QED
  BY <1>1, <1>2

LEMMA TailPlaces ==
  ASSUME NEW s \in Seq(Tasks), s # <<>>, IsInjective(s)
  PROVE  /\ Head(s) \in Range(s)
         /\ Range(Tail(s)) \subseteq Range(s) \ {Head(s)}
         /\ IsInjective(Tail(s))
<1>1. /\ DOMAIN Tail(s) = 1 .. Len(s) - 1
      /\ \A i \in 1 .. Len(s) - 1 : Tail(s)[i] = s[i + 1] /\ i + 1 \in DOMAIN s
      /\ Head(s) = s[1] /\ 1 \in DOMAIN s
  OBVIOUS
<1> QED
  BY <1>1 DEF Range, IsInjective

LEMMA InitPlaceInv == Init => PlaceInv
BY LooperTaskAssumption
DEF Init, PlaceInv, Holds, InQueue, Executing, Range, IsInjective

LEMMA StepPlaceInv == IInv /\ PlaceInv /\ [Next]_vars => PlaceInv'
<1> SUFFICES ASSUME IInv, PlaceInv, [Next]_vars PROVE PlaceInv'
  OBVIOUS
<1> USE DEF PlaceInv, Holds, InQueue, Executing, flags, queue, calls, history
<1>a. /\ msg_queue \in Seq(Tasks)
      /\ pc \in [Threads -> {"idle"} \cup PostLabels \cup ActLabels \cup DeactLabels]
      /\ job \in [Threads -> Tasks \cup {NoTask}]
  BY DEF IInv, TypeOK
<1>b. \A th \in Threads : pc[th] \in {"post", "post_flush"} => job[th] \in Tasks
  BY DEF IInv, CallInv
<1>1. ASSUME NEW th \in Threads, NEW t \in Tasks, NEW flush \in BOOLEAN, PostCheck(th, t, flush)
      PROVE  PlaceInv'
  <2>1. /\ UNCHANGED <<msg_queue, wpc, tsk, dropped>>
        /\ posted' = posted \cup {t}
        /\ t \notin posted
    BY <1>1 DEF PostCheck
  <2>2. \A other \in Threads, u \in Tasks :
          Holds(other, u)' <=> Holds(other, u) \/ (other = th /\ u = t)
    BY <1>1, <1>a DEF PostCheck, MayCall, Goto
  <2> HIDE DEF Holds
  <2> QED
    BY <2>1, <2>2
<1>2. ASSUME NEW th \in Threads, PostPush(th) PROVE PlaceInv'
  <2>1. job[th] \in Tasks /\ ~InQueue(job[th])
    BY <1>2, <1>b DEF PostPush, Goto
  <2>2. Range(msg_queue') = Range(msg_queue) \cup {job[th]} /\ IsInjective(msg_queue')
    BY <1>2, <2>1, <1>a, AppendPlaces DEF PostPush, SetQueue
  <2> QED
    BY <1>2, <1>a, <2>1, <2>2 DEF PostPush, Goto, SetQueue
<1>3. ASSUME NEW th \in Threads, PostFlushPush(th) PROVE PlaceInv'
  <2>1. job[th] \in Tasks /\ ~InQueue(job[th])
    BY <1>3, <1>b DEF PostFlushPush, Goto
  <2>2. Range(msg_queue') = {job[th]} /\ IsInjective(msg_queue')
    BY <1>3 DEF PostFlushPush, SetQueue, Range, IsInjective
  <2>3. dropped' = dropped \cup Range(msg_queue) /\ Range(msg_queue) \subseteq posted
    BY <1>3, <1>a, RangeOfTasks DEF PostFlushPush, SetQueue
  <2> HIDE DEF Range
  <2> QED
    BY <1>3, <1>a, <2>1, <2>2, <2>3 DEF PostFlushPush, Goto, SetQueue
<1>4. ASSUME NEW th \in Threads, ActClear(th) PROVE PlaceInv'
  <2>1. Range(msg_queue') = {} /\ IsInjective(msg_queue')
    BY <1>4 DEF ActClear, SetQueue, Range, IsInjective
  <2>2. wpc # "task"
    BY <1>4 DEF ActClear, Goto, IInv, SessionInv
  <2>3. Range(msg_queue) \subseteq posted
    BY <1>a, RangeOfTasks
  <2> QED
    BY <1>4, <1>a, <2>1, <2>2, <2>3 DEF ActClear, Goto, SetQueue
<1>5. ASSUME WorkerPop PROVE PlaceInv'
  <2>1. msg_queue # <<>>
    BY <1>5 DEF WorkerPop, WorkerGoto, IInv, QueueInv, NeverPopEmpty
  <2>2. /\ InQueue(Head(msg_queue)) /\ Head(msg_queue) \in Tasks
        /\ Range(Tail(msg_queue)) \subseteq Range(msg_queue) \ {Head(msg_queue)}
        /\ IsInjective(Tail(msg_queue))
    BY <2>1, <1>a, TailPlaces
  <2> QED
    BY <1>5, <1>a, <2>2 DEF WorkerPop, WorkerGoto
<1>6. ASSUME NEW th \in Threads,
             \/ PostNotify(th) \/ DeactNotify(th)
             \/ ActCall(th) \/ ActPre(th) \/ ActLock(th) \/ ActRun(th) \/ ActDone(th)
             \/ DeactCall(th) \/ DeactLock(th) \/ DeactPre(th) \/ DeactStop(th)
             \/ DeactDone(th)
      PROVE  PlaceInv'
  <2>1. \A other \in Threads, t \in Tasks : Holds(other, t)' => Holds(other, t)
    BY <1>6, <1>a DEF PostNotify, DeactNotify, ActCall, ActPre, ActLock, ActRun,
       ActDone, DeactCall, DeactLock, DeactPre, DeactStop, DeactDone, Pass, LockRun, Goto
  <2>2. /\ UNCHANGED <<msg_queue, tsk, posted, dropped>>
        /\ wpc' = "task" <=> wpc = "task"
    BY <1>6 DEF PostNotify, DeactNotify, NotifyOne, ActCall, ActPre, ActLock, ActRun,
       ActDone, DeactCall, DeactLock, DeactPre, DeactStop, DeactDone, Pass, LockRun
  <2> HIDE DEF Holds
  <2> QED
    BY <2>1, <2>2
<1>7. ASSUME NEW th \in Threads, ActSpawn(th) \/ DeactJoin(th) PROVE PlaceInv'
  <2>1. \A other \in Threads, t \in Tasks : Holds(other, t)' => Holds(other, t)
    BY <1>7, <1>a DEF ActSpawn, DeactJoin, Goto
  <2>2. /\ UNCHANGED <<msg_queue, tsk, posted, dropped>>
        /\ wpc' # "task"
    BY <1>7 DEF ActSpawn, Attach, DeactJoin, Detach
  <2> HIDE DEF Holds
  <2> QED
    BY <2>1, <2>2
<1>8. ASSUME \/ DeactSelfJoin \/ SpuriousWakeup \/ WorkerLoop \/ WorkerLock
             \/ WorkerPredicate \/ WorkerBlock \/ WorkerRecheck \/ WorkerTaskDone
      PROVE  PlaceInv'
  BY <1>8 DEF DeactSelfJoin, SpuriousWakeup, WorkerLoop, WorkerLock, WorkerPredicate,
     WorkerBlock, WorkerRecheck, WorkerTaskDone, WorkerGoto
<1>9. CASE UNCHANGED vars
  BY <1>9 DEF vars
<1> HIDE DEF PlaceInv
<1> QED
  BY <1>1, <1>2, <1>3, <1>4, <1>5, <1>6, <1>7, <1>8, <1>9
  DEF Next, CallStep, MethodStep, WorkerStep

LEMMA PlaceInvariance == Spec => []PlaceInv
BY InitPlaceInv, StepPlaceInv, Invariance, PTL DEF Spec

\* A task that was flushed, or left over from a previous session, is never
\* executed afterwards.
THEOREM DroppedStaysDropped == Spec => []DroppedNeverRuns
<1>1. PlaceInv => DroppedNeverRuns
  BY DEF PlaceInv, DroppedNeverRuns
<1> QED
  BY <1>1, PlaceInvariance, PTL
-----------------------------------------------------------------------------
(* The places are counted.  What a push or a clear drops was in the queue   *)
(* once each, and not dropped before.                                      *)

Posting == {th \in Threads : pc[th] \in {"post", "post_flush"}}

CountInv == IsFiniteSet(posted) /\ EveryTaskAccountedFor

LEMMA CardinalityOfQueue ==
  ASSUME NEW s \in Seq(Tasks), IsInjective(s)
  PROVE  IsFiniteSet(Range(s)) /\ Cardinality(Range(s)) = Len(s)
<1>1. Len(s) \in Nat /\ DOMAIN s = 1 .. Len(s)
  OBVIOUS
<1>2. IsFiniteSet(1 .. Len(s)) /\ Cardinality(1 .. Len(s)) = Len(s)
  BY <1>1, FS_Interval
<1>3. s \in [1 .. Len(s) -> Range(s)]
  BY <1>1 DEF Range
<1>4. s \in Injection(1 .. Len(s), Range(s))
  BY <1>1, <1>3 DEF Injection, IsInjective
<1>5. s \in Surjection(1 .. Len(s), Range(s))
  BY <1>1, <1>3 DEF Surjection, Range
<1> QED
  BY <1>2, <1>4, <1>5, FS_Bijection DEF ExistsBijection, Bijection

LEMMA FinitePosting == IsFiniteSet(Posting) /\ Cardinality(Posting) \in Nat
<1>1. IsFiniteSet(Threads)
  BY ClientsAssumption, FS_AddElement DEF Threads
<1>2. Posting \in SUBSET Threads
  BY DEF Posting
<1>3. IsFiniteSet(Posting)
  BY <1>1, <1>2, FS_Subset
<1> QED
  BY <1>3, FS_CardinalityType

\* dropped is finite, and so many more tasks are in it when the queue is dropped.
LEMMA DroppedGrows ==
  ASSUME TypeOK, PlaceInv, CountInv
  PROVE  /\ Cardinality(dropped) \in Nat
         /\ Cardinality(dropped \cup Range(msg_queue)) = Cardinality(dropped) + Len(msg_queue)
<1>1. IsFiniteSet(dropped) /\ Cardinality(dropped) \in Nat
  <2>1. dropped \in SUBSET posted /\ IsFiniteSet(posted)
    BY DEF PlaceInv, CountInv
  <2>2. IsFiniteSet(dropped)
    BY <2>1, FS_Subset
  <2> QED
    BY <2>2, FS_CardinalityType
<1>2. msg_queue \in Seq(Tasks) /\ IsInjective(msg_queue)
  BY DEF TypeOK, PlaceInv
<1>3. IsFiniteSet(Range(msg_queue)) /\ Cardinality(Range(msg_queue)) = Len(msg_queue)
  BY <1>2, CardinalityOfQueue
<1>4. dropped \cap Range(msg_queue) = {}
  BY <1>2, RangeOfTasks DEF PlaceInv, InQueue
<1>5. Cardinality(dropped \cap Range(msg_queue)) = 0
  BY <1>4, FS_EmptySet
<1>6. Len(msg_queue) \in Nat
  BY <1>2
<1>7. Cardinality(dropped \cup Range(msg_queue)) =
        Cardinality(dropped) + Cardinality(Range(msg_queue))
          - Cardinality(dropped \cap Range(msg_queue))
  BY <1>1, <1>3, FS_Union
<1> HIDE DEF Range
<1> QED
  BY <1>1, <1>3, <1>5, <1>6, <1>7

\* A thread that leaves the labels of a post is not counted any more.
LEMMA PostingShrinks ==
  ASSUME NEW th \in Threads, NEW label, NEW to, TypeOK, Goto(th, label, to),
         label \in {"post", "post_flush"}, to \notin {"post", "post_flush"}
  PROVE  Cardinality(Posting)' = Cardinality(Posting) - 1
<1>1. Posting' = Posting \ {th} /\ th \in Posting
  BY DEF Posting, Goto, TypeOK
<1>2. Cardinality(Posting \ {th}) = Cardinality(Posting) - 1
  BY <1>1, FinitePosting, FS_RemoveElement
<1> QED
  BY <1>1, <1>2

LEMMA InitCountInv == Init => CountInv
<1> SUFFICES ASSUME Init PROVE CountInv
  OBVIOUS
<1>1. Posting = {} /\ posted = {} /\ dropped = {} /\ msg_queue = <<>> /\ n_processed = 0
  BY DEF Init, Posting
<1> QED
  BY <1>1, FS_EmptySet DEF CountInv, EveryTaskAccountedFor, Posting

LEMMA StepCountInv == IInv /\ PlaceInv /\ CountInv /\ [Next]_vars => CountInv'
<1> SUFFICES ASSUME IInv, PlaceInv, CountInv, [Next]_vars PROVE CountInv'
  OBVIOUS
<1> USE DEF flags, queue, calls, history
<1>a. TypeOK
  BY DEF IInv
<1>b. /\ Len(msg_queue) \in Nat /\ msg_queue \in Seq(Tasks)
      /\ n_processed \in Nat
      /\ pc \in [Threads -> {"idle"} \cup PostLabels \cup ActLabels \cup DeactLabels]
      /\ job \in [Threads -> Tasks \cup {NoTask}]
  BY <1>a DEF TypeOK
<1>c. IsFiniteSet(posted) /\ Cardinality(posted) \in Nat
  BY FS_CardinalityType DEF CountInv
<1>d. Cardinality(posted) =
        Cardinality(Posting) + Len(msg_queue) + n_processed + Cardinality(dropped)
  BY DEF CountInv, EveryTaskAccountedFor, Posting
<1>e. Cardinality(Posting) \in Nat /\ Cardinality(dropped) \in Nat
  BY <1>a, FinitePosting, DroppedGrows
<1>g. Len(msg_queue) \in Nat /\ n_processed \in Nat
  BY <1>b
<1>f. SUFFICES /\ IsFiniteSet(posted')
               /\ Cardinality(posted') =
                    Cardinality(Posting)' + Len(msg_queue') + n_processed' + Cardinality(dropped')
  BY DEF CountInv, EveryTaskAccountedFor, Posting
<1> DEFINE Goal == /\ IsFiniteSet(posted')
                   /\ Cardinality(posted') =
                        Cardinality(Posting)' + Len(msg_queue') + n_processed'
                          + Cardinality(dropped')
<1>1. ASSUME NEW th \in Threads, NEW t \in Tasks, NEW flush \in BOOLEAN, PostCheck(th, t, flush)
      PROVE  Goal
  <2>1. /\ posted' = posted \cup {t} /\ t \notin posted
        /\ UNCHANGED <<msg_queue, n_processed, dropped>>
    BY <1>1 DEF PostCheck
  <2>2. Posting' = Posting \cup {th} /\ th \notin Posting
    BY <1>1, <1>b DEF PostCheck, MayCall, Goto, Posting
  <2>3. IsFiniteSet(posted') /\ Cardinality(posted') = Cardinality(posted) + 1
    BY <2>1, <1>c, FS_AddElement
  <2>4. Cardinality(Posting)' = Cardinality(Posting) + 1
    <3>1. Cardinality(Posting \cup {th}) = Cardinality(Posting) + 1
      BY <2>2, FinitePosting, FS_AddElement
    <3> QED
      BY <2>2, <3>1
  <2> QED
    BY <2>1, <2>3, <2>4, <1>b, <1>d, <1>e
<1>2. ASSUME NEW th \in Threads, PostPush(th) PROVE Goal
  <2>1. UNCHANGED <<posted, n_processed>> /\ dropped' = dropped
    BY <1>2 DEF PostPush, SetQueue
  <2>2. Len(msg_queue') = Len(msg_queue) + 1
    <3>1. msg_queue' = Append(msg_queue, job[th]) /\ job[th] \in Tasks \cup {NoTask}
      BY <1>2, <1>b DEF PostPush, SetQueue
    <3> QED
      BY <3>1, <1>b
  <2>3. Cardinality(Posting)' = Cardinality(Posting) - 1
    BY <1>2, <1>a, PostingShrinks DEF PostPush
  <2> QED
    BY <2>1, <2>2, <2>3, <1>b, <1>c, <1>d, <1>e
<1>3. ASSUME NEW th \in Threads, PostFlushPush(th) PROVE Goal
  <2>1. UNCHANGED <<posted, n_processed>> /\ dropped' = dropped \cup Range(msg_queue)
    BY <1>3 DEF PostFlushPush, SetQueue
  <2>2. Len(msg_queue') = 1
    BY <1>3 DEF PostFlushPush, SetQueue
  <2>3. Cardinality(Posting)' = Cardinality(Posting) - 1
    BY <1>3, <1>a, PostingShrinks DEF PostFlushPush
  <2>4. Cardinality(dropped') = Cardinality(dropped) + Len(msg_queue)
    BY <2>1, <1>a, DroppedGrows
  <2> QED
    BY <2>1, <2>2, <2>3, <2>4, <1>b, <1>c, <1>d, <1>e
<1>4. ASSUME NEW th \in Threads, ActClear(th) PROVE Goal
  <2>1. UNCHANGED <<posted, n_processed>> /\ dropped' = dropped \cup Range(msg_queue)
    BY <1>4 DEF ActClear, SetQueue
  <2>2. Len(msg_queue') = 0
    BY <1>4 DEF ActClear, SetQueue
  <2>3. Posting' = Posting
    BY <1>4, <1>b DEF ActClear, Goto, Posting
  <2>4. Cardinality(dropped') = Cardinality(dropped) + Len(msg_queue)
    BY <2>1, <1>a, DroppedGrows
  <2> QED
    BY <2>1, <2>2, <2>3, <2>4, <1>b, <1>c, <1>d, <1>e
<1>5. ASSUME WorkerPop PROVE Goal
  <2>1. msg_queue # <<>>
    BY <1>5 DEF WorkerPop, WorkerGoto, IInv, QueueInv, NeverPopEmpty
  <2>2. Len(Tail(msg_queue)) = Len(msg_queue) - 1
    BY <2>1, <1>b
  <2>3. /\ msg_queue' = Tail(msg_queue) /\ n_processed' = n_processed + 1
        /\ UNCHANGED <<pc, posted, dropped>>
    BY <1>5 DEF WorkerPop, WorkerGoto
  <2>4. Len(msg_queue') = Len(msg_queue) - 1 /\ UNCHANGED <<posted, dropped>>
    BY <2>2, <2>3
  <2>5. Posting' = Posting
    BY <2>3 DEF Posting
  <2>6. n_processed' = n_processed + 1
    BY <2>3
  <2> QED
    BY <2>4, <2>5, <2>6, <1>c, <1>d, <1>e, <1>g
<1>6. ASSUME NEW th \in Threads,
             \/ PostNotify(th) \/ DeactNotify(th)
             \/ ActCall(th) \/ ActPre(th) \/ ActLock(th) \/ ActRun(th) \/ ActDone(th)
             \/ DeactCall(th) \/ DeactLock(th) \/ DeactPre(th) \/ DeactStop(th)
             \/ DeactDone(th) \/ ActSpawn(th) \/ DeactJoin(th)
      PROVE  Goal
  <2>1. UNCHANGED <<msg_queue, n_processed, posted, dropped>>
    BY <1>6 DEF PostNotify, DeactNotify, ActCall, ActPre, ActLock, ActRun, ActDone,
       DeactCall, DeactLock, DeactPre, DeactStop, DeactDone, ActSpawn, DeactJoin, Pass, LockRun
  <2>2. Posting' = Posting
    BY <1>6, <1>b DEF PostNotify, DeactNotify, ActCall, ActPre, ActLock, ActRun, ActDone,
       DeactCall, DeactLock, DeactPre, DeactStop, DeactDone, ActSpawn, DeactJoin, MayCall,
       Pass, LockRun, Goto, Posting
  <2> QED
    BY <2>1, <2>2, <1>c, <1>d
<1>7. ASSUME \/ DeactSelfJoin \/ SpuriousWakeup \/ WorkerLoop \/ WorkerLock
             \/ WorkerPredicate \/ WorkerBlock \/ WorkerRecheck \/ WorkerTaskDone
             \/ UNCHANGED vars
      PROVE  Goal
  <2>1. UNCHANGED <<pc, msg_queue, n_processed, posted, dropped>>
    BY <1>7 DEF DeactSelfJoin, SpuriousWakeup, WorkerLoop, WorkerLock, WorkerPredicate,
       WorkerBlock, WorkerRecheck, WorkerTaskDone, WorkerGoto, vars
  <2>2. Posting' = Posting
    BY <2>1 DEF Posting
  <2> QED
    BY <2>1, <2>2, <1>c, <1>d
<1> HIDE DEF Goal
<1>8. Goal
  BY <1>1, <1>2, <1>3, <1>4, <1>5, <1>6, <1>7 DEF Next, CallStep, MethodStep, WorkerStep
<1> QED
  BY <1>8 DEF Goal

\* No task that post() has accepted is lost or taken twice, for any number of
\* clients, tasks and restarts.
THEOREM NoTaskIsLost == Spec => []EveryTaskAccountedFor
<1>1. CountInv => EveryTaskAccountedFor
  BY DEF CountInv
<1> QED
  BY <1>1, InitCountInv, StepCountInv, Invariance, PlaceInvariance, PTL DEF Spec
-----------------------------------------------------------------------------
(* Who waits for whom: the two deadlocks that StopReturnsUnlessRaced       *)
(* excepts are the only ones there are.                                    *)

\* A thread in a method whose next step has to wait.  The worker at
\* deact_join does not wait: join() throws at once.
Blocked(th) ==
  \/ pc[th] \in {"post", "post_flush", "act_clear"} /\ op_mut # NoThread
  \/ pc[th] \in {"act_lock", "deact_lock"} /\ run_mut # NoThread
  \/ pc[th] = "act_spawn" /\ wpc # "none"
  \/ pc[th] = "deact_join" /\ th # Worker /\ wpc # "exited"

\* The loop of the worker cannot go on by itself.
WorkerBlocked ==
  \/ wpc \in {"none", "exited", "waiting"}
  \/ wpc = "lock" /\ op_mut # NoThread
  \/ wpc = "task" /\ pc[Worker] # "idle"

InMethod(th) == pc[th] # "idle"

\* As long as a thread is in a method something can go on, with two
\* exceptions: a client joins a worker that sleeps although looping is clear
\* (the notification fell between its predicate and its wait), or it joins a
\* worker whose task asks for the run_mut the client holds.
OnlyKnownDeadlocks ==
  (\E th \in Threads : InMethod(th)) =>
    \/ \E th \in Threads : InMethod(th) /\ ~Blocked(th)
    \/ ~WorkerBlocked
    \/ \E th \in Clients :
         pc[th] = "deact_join" /\ ~looping /\ (wpc = "waiting" \/ TaskWaitsFor(th))

\* Nobody starts a loop that somebody is stopping: both hold run_mut.
StopInv == \A th \in Threads : pc[th] \in {"deact_notify", "deact_join"} => ~looping

LEMMA InitStopInv == Init => StopInv
BY DEF Init, StopInv

LEMMA StepStopInv == IInv /\ StopInv /\ [Next]_vars => StopInv'
<1> SUFFICES ASSUME IInv, StopInv, [Next]_vars,
                    NEW s \in Threads, pc'[s] \in {"deact_notify", "deact_join"}
             PROVE  ~looping'
  BY DEF StopInv
<1>a. \A th \in Threads : pc[th] \in RunSection => run_mut = th
  BY DEF IInv, LockInv
<1>b. pc \in [Threads -> {"idle"} \cup PostLabels \cup ActLabels \cup DeactLabels]
  BY DEF IInv, TypeOK
<1>c. pc[s] \in {"deact_notify", "deact_join"} => ~looping
  BY DEF StopInv
<1>1. ASSUME NEW th \in Threads, DeactStop(th) PROVE ~looping'
  BY <1>1 DEF DeactStop
<1>2. ASSUME NEW th \in Threads, ActSpawn(th) PROVE FALSE
  <2>1. pc[th] = "act_spawn" /\ pc' = [pc EXCEPT ![th] = "act_run"]
    BY <1>2 DEF ActSpawn, Goto
  <2>2. s # th /\ pc[s] \in {"deact_notify", "deact_join"}
    BY <2>1, <1>b
  <2> QED
    BY <2>1, <2>2, <1>a DEF RunSection
<1>3. ASSUME NEW th \in Threads, DeactNotify(th) PROVE ~looping'
  <2>1. pc[th] = "deact_notify" /\ UNCHANGED looping
    BY <1>3 DEF DeactNotify, Goto, flags
  <2> QED
    BY <2>1 DEF StopInv
<1>4. ASSUME NEW th \in Threads,
             \/ \E t \in Tasks, flush \in BOOLEAN : PostCheck(th, t, flush)
             \/ PostPush(th) \/ PostFlushPush(th) \/ PostNotify(th)
             \/ ActCall(th) \/ ActPre(th) \/ ActLock(th) \/ ActClear(th)
             \/ ActRun(th) \/ ActDone(th) \/ DeactCall(th) \/ DeactLock(th)
             \/ DeactPre(th) \/ DeactJoin(th) \/ DeactDone(th)
      PROVE  ~looping'
  <2>1. UNCHANGED looping
    BY <1>4 DEF PostCheck, PostPush, PostFlushPush, PostNotify, ActCall, ActPre, ActLock,
       ActClear, ActRun, ActDone, DeactCall, DeactLock, DeactPre, DeactJoin, DeactDone,
       Pass, LockRun, SetQueue, flags
  <2>2. pc[s] \in {"deact_notify", "deact_join"}
    BY <1>4, <1>b DEF PostCheck, PostPush, PostFlushPush, PostNotify, ActCall, ActPre,
       ActLock, ActClear, ActRun, ActDone, DeactCall, DeactLock, DeactPre, DeactJoin,
       DeactDone, Pass, LockRun, Goto
  <2> QED
    BY <2>1, <2>2, <1>c
<1>5. ASSUME DeactSelfJoin \/ WorkerStep \/ SpuriousWakeup \/ UNCHANGED vars
      PROVE  ~looping'
  <2>1. UNCHANGED <<looping, pc>>
    BY <1>5 DEF DeactSelfJoin, WorkerStep, WorkerLoop, WorkerLock, WorkerPredicate,
       WorkerBlock, WorkerRecheck, WorkerPop, WorkerTaskDone, SpuriousWakeup, WorkerGoto,
       vars, flags, calls
  <2> QED
    BY <2>1, <1>c
<1> QED
  BY <1>1, <1>2, <1>3, <1>4, <1>5 DEF Next, CallStep, MethodStep

\* If everybody waits, nobody owns op_mut, because its owner is the worker
\* between two steps that never wait; the owner of run_mut is then a client at
\* the join, and the worker it joins is asleep or in a task that waits for
\* run_mut itself.
LEMMA WhoWaits == IInv /\ StopInv => OnlyKnownDeadlocks
<1> SUFFICES ASSUME IInv, StopInv, WorkerBlocked,
                    \A th \in Threads : InMethod(th) => Blocked(th),
                    NEW m \in Threads, InMethod(m)
             PROVE  \E th \in Clients :
                      /\ pc[th] = "deact_join" /\ ~looping
                      /\ wpc = "waiting" \/ TaskWaitsFor(th)
  BY DEF OnlyKnownDeadlocks
<1> USE WorkerAssumption, NoThreadAssumption DEF Threads
<1>1. op_mut = NoThread
  BY DEF IInv, LockInv, TypeOK, WorkerBlocked, OpSection
<1>2. wpc \in {"none", "exited", "waiting"} \/ (wpc = "task" /\ pc[Worker] # "idle")
  BY <1>1 DEF WorkerBlocked
<1>3. \A th \in Threads : pc[th] # "act_spawn" \/ wpc = "none"
  BY DEF IInv, SessionInv
<1>4. \A th \in Threads : InMethod(th) =>
        \/ pc[th] \in {"act_lock", "deact_lock"} /\ run_mut # NoThread
        \/ pc[th] = "deact_join" /\ th # Worker /\ wpc # "exited"
  BY <1>1, <1>3 DEF Blocked
<1>5. run_mut # NoThread
  BY <1>4 DEF IInv, LockInv, RunSection
<1>6. PICK th \in Threads : run_mut = th
  BY <1>5 DEF IInv, TypeOK
<1>7. pc[th] \in RunSection
  BY <1>6 DEF IInv, LockInv
<1>8. pc[th] = "deact_join" /\ th \in Clients /\ wpc # "exited"
  BY <1>4, <1>7 DEF InMethod, RunSection
<1>9. ~looping
  BY <1>8 DEF StopInv
<1>10. wpc # "none"
  BY <1>8 DEF IInv, SessionInv, RunSection, DeactLabels
<1>11. ASSUME wpc = "task" PROVE TaskWaitsFor(th)
  <2>1. InMethod(Worker)
    BY <1>2, <1>11 DEF InMethod
  <2>2. pc[Worker] \in {"act_lock", "deact_lock"}
    BY <2>1, <1>4
  <2> QED
    BY <2>2, <1>8 DEF TaskWaitsFor
<1> QED
  BY <1>2, <1>8, <1>9, <1>10, <1>11

\* Whatever the threads and the tasks call, they never come to wait for one
\* another in any other way than those two.
THEOREM NoOtherDeadlock == Spec => []OnlyKnownDeadlocks
BY WhoWaits, InitStopInv, StepStopInv, Invariance, PTL DEF Spec
=============================================================================
