---------------------------- MODULE DaemonProofs ----------------------------
(***************************************************************************)
(* The safety of the supervisor and of the signal loops, for any number of *)
(* threads and processes.                                                  *)
(***************************************************************************)
EXTENDS Daemon, FiniteSetTheorems, TLAPS

\* Who owns mut is between its locking and its unlocking in start() or stop().
LockInv ==
  \A c \in Clients :
    /\ pc[c] \in {"attach", "join"} => mut = c
    /\ mut = c => pc[c] \in {"attach", "join", "log_lock", "logging"}

\* While nobody is inside start() or stop(), there is a worker exactly if the
\* supervisor is running.
WorkerIffRunning == mut = NoThread => (running <=> wpc # "none")

\* What the owner of mut knows about the worker, and what everybody knows when
\* there is no owner.
SessionInv ==
  /\ mut = NoThread => WorkerIffRunning
  /\ \A c \in Clients :
       /\ pc[c] = "attach" => running /\ wpc = "none"
       /\ pc[c] = "join" => ~running /\ wpc # "none"
       /\ mut = c /\ pc[c] \in {"log_lock", "logging"} => (running <=> wpc # "none")

\* Every stop that has come while the worker was past its last look at running
\* has cost a child, or does when the worker looks again; only a fork() that
\* fails can spare it.  A worker that has been told to stop does not start its
\* loop again.
RaceInv ==
  /\ wpc # "raise" => races = left + IF Forking /\ ~running THEN 1 ELSE 0
  /\ wpc = "raise" => left <= races
  /\ wpc \in {"last_loop", "exited"} => ~running

\* A thread may have called f since the stop only if it is past the wait.
LateInv ==
  \A t \in Threads :
    /\ late[t] \in {0, 1}
    /\ g_running => late[t] = 0
    /\ late[t] = 1 => loops[t] # "wait"

IInv ==
  /\ TypeOK /\ LockInv /\ SessionInv /\ RaceInv /\ ChildrenAccountedFor
  /\ SignalTypeOK /\ LateInv
-----------------------------------------------------------------------------
LEMMA FiniteUnwaited == IsFiniteSet(Unwaited) /\ Cardinality(Unwaited) \in Nat
<1>1. Unwaited \in SUBSET Pids
  BY DEF Unwaited
<1>2. IsFiniteSet(Unwaited)
  BY <1>1, PidsAssumption, FS_Subset
<1> QED
  BY <1>2, FS_CardinalityType

LEMMA InitIInv == DaemonInit => IInv
<1> SUFFICES ASSUME DaemonInit PROVE IInv
  OBVIOUS
<1> USE DEF DaemonInit, Init, InitSignal
<1>1. TypeOK
  BY NoClientAssumption DEF TypeOK, ClientLabels, WorkerLabels
<1>2. LockInv /\ SessionInv /\ RaceInv
  BY NoClientAssumption DEF LockInv, SessionInv, RaceInv, WorkerIffRunning, Forking
<1>3. ChildrenAccountedFor
  <2>1. Unwaited = {}
    BY DEF Unwaited
  <2> QED
    BY <2>1, FS_EmptySet DEF ChildrenAccountedFor
<1>4. SignalTypeOK /\ LateInv
  BY DEF SignalTypeOK, LateInv, LoopLabels
<1> QED
  BY <1>1, <1>2, <1>3, <1>4 DEF IInv

\* A step that changes no child and takes the worker neither into nor out of the
\* part of its loop in which it has one.
LEMMA ChildrenUnchanged ==
  ASSUME ChildrenAccountedFor, UNCHANGED <<children, left>>,
         wpc' \in {"loop", "wait"} <=> wpc \in {"loop", "wait"}
  PROVE  ChildrenAccountedFor'
BY DEF ChildrenAccountedFor, Unwaited

\* The threads that use the supervisor leave its children alone.
LEMMA ClientIInv ==
  ASSUME IInv, NEW c \in Clients, CallStep(c) \/ MethodStep(c)
  PROVE  TypeOK' /\ LockInv' /\ SessionInv' /\ RaceInv' /\ ChildrenAccountedFor'
<1> USE DEF TypeOK, LockInv, SessionInv, RaceInv, WorkerIffRunning, Forking, ClientLabels,
            WorkerLabels, Goto
<1>1. TypeOK /\ LockInv /\ SessionInv /\ RaceInv /\ ChildrenAccountedFor
  BY DEF IInv
<1>2. CASE StartCall(c) \/ StopCall(c) \/ LogCall(c)
  BY <1>1, <1>2, ChildrenUnchanged, NoClientAssumption
  DEF StartCall, StopCall, LogCall, Call, locks
<1>3. CASE StartLock(c)
  BY <1>1, <1>3, ChildrenUnchanged, NoClientAssumption DEF StartLock
<1>4. CASE StopLock(c)
  <2>1. races' \in Nat
    BY <1>1, <1>4 DEF StopLock
  <2>2. TypeOK'
    BY <1>1, <1>4, <2>1, NoClientAssumption DEF StopLock
  <2>3. LockInv'
    BY <1>1, <1>4, NoClientAssumption DEF StopLock
  <2>4. SessionInv'
    BY <1>1, <1>4, NoClientAssumption DEF StopLock
  <2>5. RaceInv'
    BY <1>1, <1>4 DEF StopLock
  <2> QED
    BY <1>1, <1>4, <2>4, <2>5, <2>2, <2>3, ChildrenUnchanged DEF StopLock
<1>5. CASE LogLock(c)
  BY <1>1, <1>5, ChildrenUnchanged, NoClientAssumption DEF LogLock
<1>6. CASE StartAttach(c)
  BY <1>1, <1>6, ChildrenUnchanged, NoClientAssumption DEF StartAttach, locks
<1>7. CASE StopJoin(c)
  BY <1>1, <1>7, ChildrenUnchanged, NoClientAssumption DEF StopJoin, locks
<1>8. CASE LogDone(c)
  <2>1. TypeOK' /\ LockInv'
    BY <1>1, <1>8, NoClientAssumption DEF LogDone
  <2>2. SessionInv'
    BY <1>1, <1>8, NoClientAssumption DEF LogDone
  <2> QED
    BY <1>1, <1>8, <2>1, <2>2, ChildrenUnchanged DEF LogDone
<1> QED
  BY <1>2, <1>3, <1>4, <1>5, <1>6, <1>7, <1>8 DEF CallStep, MethodStep, LockStep

\* The worker forks before it waits, and waits once for every fork.
LEMMA WorkerIInv ==
  ASSUME IInv, WorkerStep
  PROVE  TypeOK' /\ LockInv' /\ SessionInv' /\ RaceInv' /\ ChildrenAccountedFor'
<1> USE DEF TypeOK, LockInv, SessionInv, RaceInv, WorkerIffRunning, Forking, ClientLabels,
            WorkerLabels, WorkerGoto, locks
<1>1. TypeOK /\ LockInv /\ SessionInv /\ RaceInv /\ ChildrenAccountedFor
  BY DEF IInv
<1>2. CASE WorkerFork
  <2>1. PICK p \in Pids \ Unwaited :
          children' = [children EXCEPT ![p] =
                         IF log_file /\ log_mut # NoThread THEN "hung" ELSE "running"]
    BY <1>2 DEF WorkerFork
  <2>2. Unwaited' = Unwaited \cup {p}
    BY <1>1, <2>1 DEF Unwaited
  <2>3. Cardinality(Unwaited') = Cardinality(Unwaited) + 1
    BY <2>1, <2>2, FiniteUnwaited, FS_AddElement
  <2>4. children' \in [Pids -> {"none", "running", "hung", "zombie"}]
    BY <1>1, <2>1
  <2>5. /\ wpc = "fork" /\ wpc' = "loop"
        /\ UNCHANGED <<running, log_file, locks, pc, exited, races>> /\ UNCHANGED left
    BY <1>2 DEF WorkerFork
  <2>6. TypeOK'
    BY <1>1, <2>4, <2>5
  <2>7. LockInv'
    BY <1>1, <2>5
  <2>8. SessionInv' /\ RaceInv'
    BY <1>1, <2>5
  <2>9. left' = left /\ left \in Nat
    BY <1>1, <2>5
  <2>10. ChildrenAccountedFor'
    BY <1>1, <2>3, <2>5, <2>9 DEF ChildrenAccountedFor
  <2> QED
    BY <2>6, <2>7, <2>8, <2>9, <2>10
<1>3. CASE WorkerForkFails
  BY <1>1, <1>3, ChildrenUnchanged DEF WorkerForkFails
<1>4. CASE WorkerLoop
  <2>1. Unwaited' = Unwaited
    BY <1>4 DEF WorkerLoop, Unwaited
  <2>2. ChildrenAccountedFor'
    BY <1>1, <1>4, <2>1 DEF WorkerLoop, ChildrenAccountedFor
  <2> QED
    BY <1>1, <1>4, <2>2 DEF WorkerLoop
<1>5. CASE WorkerWait
  <2>1. CASE \E p \in Pids : children[p] = "zombie" /\ children' = [children EXCEPT ![p] = "none"]
    <3>1. PICK p \in Pids : children[p] = "zombie" /\ children' = [children EXCEPT ![p] = "none"]
      BY <2>1
    <3>2. Unwaited' = Unwaited \ {p} /\ p \in Unwaited
      BY <1>1, <3>1 DEF Unwaited
    <3>3. ChildrenAccountedFor'
      <4>1. Cardinality(Unwaited') = Cardinality(Unwaited) - 1
        BY <3>2, FiniteUnwaited, FS_RemoveElement
      <4>2. wpc = "wait" /\ wpc' = "again" /\ left' = left /\ left \in Nat
        BY <1>1, <1>5 DEF WorkerWait
      <4> QED
        BY <1>1, <4>1, <4>2 DEF ChildrenAccountedFor
    <3>4. children' \in [Pids -> {"none", "running", "hung", "zombie"}]
      BY <1>1, <3>1
    <3>5. /\ wpc = "wait" /\ wpc' = "again"
          /\ UNCHANGED <<running, log_file, locks, pc, exited, races>> /\ UNCHANGED left
      BY <1>5 DEF WorkerWait
    <3>6. TypeOK'
      BY <1>1, <3>4, <3>5
    <3>7. LockInv' /\ SessionInv' /\ RaceInv'
      BY <1>1, <3>5
    <3> QED
      BY <3>3, <3>6, <3>7
  <2>2. CASE Unwaited = {} /\ UNCHANGED children
    <3>1. FALSE
      BY <1>1, <1>5, <2>2, FS_EmptySet DEF ChildrenAccountedFor, WorkerWait
    <3> QED
      BY <3>1
  <2> QED
    BY <1>5, <2>1, <2>2 DEF WorkerWait
<1>6. CASE WorkerAgain
  BY <1>1, <1>6, ChildrenUnchanged DEF WorkerAgain
<1>7. CASE WorkerLastLoop
  BY <1>1, <1>7, ChildrenUnchanged DEF WorkerLastLoop
<1>8. CASE WorkerRaise
  <2>1. TypeOK' /\ ChildrenAccountedFor'
    BY <1>1, <1>8, ChildrenUnchanged DEF WorkerRaise
  <2> QED
    BY <1>1, <1>8, <2>1 DEF WorkerRaise
<1> QED
  BY <1>2, <1>3, <1>4, <1>5, <1>6, <1>7, <1>8 DEF WorkerStep

\* The end of a child leaves it to be waited for.
LEMMA ChildEndsIInv ==
  ASSUME IInv, NEW p \in Pids, ChildEnds(p)
  PROVE  TypeOK' /\ LockInv' /\ SessionInv' /\ RaceInv' /\ ChildrenAccountedFor'
<1>1. TypeOK /\ LockInv /\ SessionInv /\ RaceInv /\ ChildrenAccountedFor
  BY DEF IInv
<1>2. Unwaited' = Unwaited
  BY <1>1 DEF ChildEnds, Unwaited, TypeOK
<1>3. ChildrenAccountedFor'
  BY <1>1, <1>2 DEF ChildEnds, ChildrenAccountedFor
<1> QED
  BY <1>1, <1>3 DEF ChildEnds, TypeOK, LockInv, SessionInv, RaceInv, WorkerIffRunning, Forking, locks

\* A loop calls f only when it has seen g_running set, at most one call ago.
LEMMA SignalIInv ==
  ASSUME IInv, \/ \E t \in Threads : LoopEnter(t) \/ LoopStep(t) \/ LoopCalled(t)
               \/ StopRunning \/ NotifyInRunning
  PROVE  SignalTypeOK' /\ LateInv'
<1> USE DEF SignalTypeOK, LateInv, LoopLabels, LoopGoto
<1>1. SignalTypeOK /\ LateInv
  BY DEF IInv
<1>2. ASSUME NEW t \in Threads, LoopEnter(t) \/ LoopStep(t) \/ LoopCalled(t)
      PROVE  SignalTypeOK' /\ LateInv'
  BY <1>1, <1>2 DEF LoopEnter, LoopStep, LoopCheck, LoopWait, LoopCalled
<1>3. CASE StopRunning
  BY <1>1, <1>3 DEF StopRunning
<1>4. CASE NotifyInRunning
  BY <1>1, <1>4 DEF NotifyInRunning
<1> QED
  BY <1>2, <1>3, <1>4

\* A step of the one component leaves the other as it is.
LEMMA SupervisorUnchanged ==
  ASSUME IInv, UNCHANGED vars
  PROVE  TypeOK' /\ LockInv' /\ SessionInv' /\ RaceInv' /\ ChildrenAccountedFor'
BY DEF IInv, TypeOK, LockInv, SessionInv, RaceInv, ChildrenAccountedFor, WorkerIffRunning,
       Forking, Unwaited, vars, locks

LEMMA SignalUnchanged ==
  ASSUME IInv, UNCHANGED signalVars
  PROVE  SignalTypeOK' /\ LateInv'
BY DEF IInv, SignalTypeOK, LateInv, signalVars

LEMMA StepIInv == IInv /\ [DaemonNext]_daemonVars => IInv'
<1> SUFFICES ASSUME IInv, [DaemonNext]_daemonVars PROVE IInv'
  OBVIOUS
<1>1. ASSUME NEW c \in Clients, SupervisorCall(c) PROVE IInv'
  BY <1>1, ClientIInv, SignalUnchanged DEF SupervisorCall, IInv
<1>2. CASE SupervisorStep
  BY <1>2, ClientIInv, WorkerIInv, ChildEndsIInv, SignalUnchanged DEF SupervisorStep, IInv
<1>3. ASSUME NEW t \in Threads, SignalStep(t) PROVE IInv'
  BY <1>3, SignalIInv, SupervisorUnchanged DEF SignalStep, IInv
<1>4. CASE Signal
  BY <1>4, SignalIInv, SupervisorUnchanged DEF Signal, IInv
<1>5. CASE UNCHANGED daemonVars
  BY <1>5, SignalUnchanged, SupervisorUnchanged DEF daemonVars, IInv
<1> QED
  BY <1>1, <1>2, <1>3, <1>4, <1>5 DEF DaemonNext

LEMMA Invariance == DaemonSpec => []IInv
BY InitIInv, StepIInv, PTL DEF DaemonSpec
-----------------------------------------------------------------------------
\* Every variable keeps its type, and log_mut is held by who logs.
THEOREM TypeCorrect == DaemonSpec => []TypeOK
BY Invariance, PTL DEF IInv

\* However many threads start and stop the supervisor, the children nobody has
\* waited for are the ones left behind and the present one, so that every
\* wait() has a child to wait for.
THEOREM ForksAndWaitsMatch == DaemonSpec => []ChildrenAccountedFor
BY Invariance, PTL DEF IInv

\* Every stop between the worker's last look at running and its wait() leaves
\* one process unwaited for, no other stop does, and no later wait() makes up
\* for it, even if it reaps a process that an earlier worker has left.
THEOREM OneChildPerRace == DaemonSpec => []OneLeftPerRace
<1>1. IInv => OneLeftPerRace
  BY FiniteUnwaited DEF IInv, TypeOK, RaceInv, ChildrenAccountedFor, OneLeftPerRace, Forking,
     WorkerLabels
<1> QED
  BY <1>1, Invariance, PTL

\* After a stop no thread calls f more than once.
THEOREM OneCallAfterStop == DaemonSpec => []OneLateCall
<1>1. IInv => OneLateCall
  BY DEF IInv, LateInv, OneLateCall
<1> QED
  BY <1>1, Invariance, PTL
-----------------------------------------------------------------------------
(* Who waits for whom: start(), stop() and the loggers cannot wait for one *)
(* another, and only a child that runs on can keep them waiting.           *)

\* A thread in a method whose next step has to wait.
Blocked(c) ==
  \/ pc[c] \in {"start_lock", "stop_lock"} /\ mut # NoThread
  \/ pc[c] = "log_lock" /\ log_mut # NoThread
  \/ pc[c] = "attach" /\ wpc # "none"
  \/ pc[c] = "join" /\ wpc # "exited"

\* The worker cannot go on by itself.
WorkerBlocked ==
  \/ wpc \in {"none", "exited"}
  \/ wpc = "raise" /\ log_mut # NoThread
  \/ wpc = "wait" /\ Unwaited # {} /\ \A p \in Pids : children[p] # "zombie"

\* As long as a thread is in a method something can go on, unless all wait for
\* a stop(), the stop() for the worker and the worker for a child.
OnlyChildrenBlock ==
  (\E c \in Clients : pc[c] # "idle") =>
    \/ \E c \in Clients : pc[c] # "idle" /\ ~Blocked(c)
    \/ ~WorkerBlocked
    \/ wpc = "wait" /\ (\E c \in Clients : pc[c] = "join") /\ \E p \in Pids : Alive(p)

\* The owner of log_mut does not wait, so that nobody waits for log_mut if
\* everybody waits; the others are then at mut or are its owner, and the owner
\* can only be at the join, with a worker that neither is missing nor has left
\* its loop.
LEMMA WhoWaits == IInv => OnlyChildrenBlock
<1> SUFFICES ASSUME IInv, WorkerBlocked,
                    \A c \in Clients : pc[c] # "idle" => Blocked(c),
                    NEW m \in Clients, pc[m] # "idle"
             PROVE  /\ wpc = "wait" /\ \E c \in Clients : pc[c] = "join"
                    /\ \E p \in Pids : Alive(p)
  BY DEF OnlyChildrenBlock
<1> USE NoClientAssumption
<1>1. TypeOK /\ LockInv /\ SessionInv
  BY DEF IInv
<1>2. log_mut = NoThread
  BY <1>1 DEF TypeOK, Blocked
<1>3. \A c \in Clients : pc[c] # "idle" =>
        \/ pc[c] \in {"start_lock", "stop_lock"} /\ mut # NoThread
        \/ pc[c] = "join" /\ wpc # "exited"
  BY <1>1, <1>2 DEF Blocked, SessionInv
<1>4. \E c \in Clients : mut = c
  BY <1>1, <1>3 DEF LockInv, TypeOK
<1>5. PICK c \in Clients : pc[c] = "join" /\ wpc # "exited"
  BY <1>1, <1>3, <1>4 DEF LockInv
<1>6. wpc # "none"
  BY <1>1, <1>5 DEF SessionInv
<1>7. wpc = "wait" /\ Unwaited # {} /\ \A p \in Pids : children[p] # "zombie"
  BY <1>2, <1>5, <1>6 DEF WorkerBlocked
<1>8. PICK p \in Pids : children[p] # "none"
  BY <1>7 DEF Unwaited
<1>9. Alive(p)
  BY <1>1, <1>7, <1>8 DEF Alive, TypeOK
<1> QED
  BY <1>5, <1>7, <1>9

\* However the threads start, stop and log, a state in which all of them wait
\* is one in which a child still runs (or hangs in a copy of log_mut).
THEOREM NoDeadlockButChildren == DaemonSpec => []OnlyChildrenBlock
BY WhoWaits, Invariance, PTL
=============================================================================
