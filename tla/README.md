# utils_cc: models, checks and proofs

A TLA+ development of the libraries in this repository, `utils_cc` (C++) and
`utils_c` (C).  It models the parts that have state or arithmetic worth
arguing about, model-checks them with TLC, and proves the most important
properties with TLAPS for every value of the constants.  `PROJECT.json` is the
index: components, runs, which definition stands for which lines, hazards,
findings and theorems.

Contents: 1 the system, 2 the modules, 3 the runs, 4 the proofs, 5 what the
code does that it should not, 6 what is not modelled, 7 the plan.

## 1. The system

The repository is a toolbox.  There is no main loop: each class is used on its
own, and what concurrency there is comes from the callers' threads, from the
worker threads that `Looper` and `Supervisor` start, from the signal handler,
from the processes that `Supervisor` forks, and from those that use
`SingletonGuard`.

| component | source | state | operations | what is hard |
|---|---|---|---|---|
| Looper | `looper.h`, `looper.cc` | `running`, `looping`, the task list, two mutexes, a condition variable, a worker thread | `post`, `activate`, `deactivate`, the hooks, the worker's `pull_all_tasks` | flags read without the lock under which they are written, lost wake-ups, tasks that call their own looper |
| ThreadWrapper | `thread_wrapper.h` | a `std::thread` | `attach`, `detach` (a join) | a thread that joins itself |
| BasePool | `base_pool.h` | an array of nodes, its free list, three counters, an optional mutex | `alloc_unique`, `alloc_shared`, the deleter of the smart pointers | constructors and destructors of T run in the middle of an operation and may use the pool |
| bitset_t, integer bitsets | `bitset.h`, `c_bitset.c` | bytes, length, a cached count | set, get, clear (cyclic), any, all, num | byte boundaries, the bits of the last byte behind the length, the validity of the cache |
| Sequence numbers | `number.h` (C++ and C) | none | add, subtract, distances, `ahead_or_at`, comparators | wrapping at M and at the width of the type, numbers on opposite sides |
| Unwrappers | `number.h`, `c_number.c` | last value, last unwrapped number | `unwrap`, `seq_num_unwrapper_u8/u12/u16/u32` | reordered and lost values; two hand-written versions of one rule |
| Buffer | `buffer.h` | bytes, a write and a read pointer | `write`, `read`, `write_at`, `read_at`, each with a pointer, a value or a callback | pointers moved and restored on errors, callbacks in the middle of an operation |
| SingletonGuard | `singleton_guard.h/.cc` | a socket per process, one socket file per name | constructor, destructor | processes between two system calls of each other, files of dead processes |
| Checksum | `checksum.h`, `c_checksum.c` | none | generate, finalize, verify | carries, odd lengths, chained blocks |
| qsort | `algorithm.h` | none | `qsort` | the partition; threads that are started and waited for at once |
| Supervisor | `supervisor.h` | `running`, a mutex, a worker thread, its child processes | `start`, `stop`, the fork loop | a flag read between `fork` and `wait`, a join under a mutex, a mutex copied by `fork` |
| Signal handling | `signal_handle.h/.cc` | `g_running`, a condition variable | `until_signal`, `wait_for_signal`, `stop_running`, the handler | a flag read before the call it guards, a wait whose predicate is always true |
| Time | `time.h/.cc` | a time point | `reset`, `lap`, `time_up`, `time_up_and_update` | - |
| FileWrapper | `file_wrapper.h` | a `FILE *` | forwards to stdio, moves | use after a move |
| Log | `log.h/.cc` | `log_mut` | `print_log`, `print_binary`, macros | truncation |
| the rest | `console.h`, `networks.h`, `string_utils.*`, `module.h`, `helpers.h`, `macro_utils.h`, `common.*` | none | formatting, macros, constants | - |

Interactions: a `Looper` owns a `ThreadWrapper`, through which its worker is
started and joined, and calls closures and hooks of its user.  A `BasePool`
calls constructors and destructors of its user's type, and is called by the
deleters of the smart pointers it has handed out.  `Buffer` calls callbacks
with pointers into itself.  The unwrappers use the sequence numbers.  A
`Supervisor` owns a `ThreadWrapper` and forks processes; whoever logs meanwhile
holds `log_mut`, which the child inherits locked.  Everything logs.

What makes the components correct:

- **Looper**: no task is lost, duplicated or run out of order, except those
  that a flush or a restart removes; tasks never overlap; a queued task runs; a
  stop returns; starts and stops by several threads leave one worker or none.
- **BasePool**: the free list holds exactly the nodes without an object; no node
  has two users, be it an owner, a constructor, a destructor or a return; the
  counters tell the truth; an allocation fails only when the pool is full; a mutex
  is kept only by a thread that waits for itself.  In a pool without a mutex a T
  whose constructor or destructor borrows breaks the second and the third
  (section 5), and the properties say how far they hold.
- **bitsets**: they are sets of indexes, whatever the cache says.
- **sequence numbers and unwrappers**: of two numbers one is ahead; numbers in
  half a circle can be sorted; a sender's numbers are reconstructed while its
  jumps are short; both languages agree.
- **Buffer**: it is a tape with a cursor; a failed call changes nothing.
- **SingletonGuard**: there is one holder, and a dead one keeps nobody.
- **Supervisor**: no child is lost count of; there are as many children that nobody
  has waited for as stops have come between a `fork` and the worker's next look at
  `running`.  It need not be the child of such a stop that is left: a later
  `wait(NULL)` may reap that one in place of the present child, and then a stop
  outside the window returns with its own child alive.  `start`, `stop` and a line of
  the log return if children end; a child that ends is replaced.
- **Signal handling**: a loop makes at most one more call after the signal, and ends.
- **Checksum, qsort**: a receiver accepts what was sent and detects damage and
  loss; a sorted permutation.

## 2. The modules

Each module's variables have the names of the members they stand for.  One
action is one handler where nothing can come between its statements, and one
access to shared state, one system call or one critical section where
something can.  Definitions that begin with "Mutant of" are wrong variants of
the definition they name: putting one in its place must make a run fail.  They
are part of no specification.

### Looper, Executor, LooperProofs

`Looper` has client threads and the worker.  `pc[th]` is where a thread is in
`post`, `activate` or `deactivate`, `wpc` where the worker is in
`pull_all_tasks(true)`.  `running` and `looping` have no common lock, so each
access to them is a step.  A critical section of `op_mut` is one step if it
reads nothing that is written without `op_mut`; the worker's section is not,
since it reads `looping` twice, and has the steps `WorkerLock`,
`WorkerPredicate`, `WorkerBlock`, `WorkerRecheck`, `WorkerPop`.  `cv.wait` is
`WorkerBlock` (atomically releases `op_mut`), `NotifyOne` and
`SpuriousWakeup`; a notification without a waiter is lost.  While a task runs
(`wpc = "task"`) the worker may itself make the calls in `TaskCalls`; one that
deactivates its own looper makes `detach` join the current thread, which ends
in `std::terminate` (`aborted`).

`posted` and `dropped` are history variables.  Each task is posted at most
once, which bounds the instances; whether two closures are equal is nothing the
looper looks at.

`Executor` is the abstract specification, a queue served in order by one loop
that is open or closed, one task at a time.  `Looper` implements it with
`pending <- msg_queue`, `current <-` the task being executed, `open <-` the
worker exists.

### BasePool, MCBasePool, BasePoolProofs

`next` and `free_nodes` are the list, `owners` counts the smart pointers to
the object in each node, `empties` the `shared_ptr`s to `nullptr` that a full
pool has given away.  Every thread has a stack of calls (`frames`), because
the constructor and destructor of T may call the pool again: `BorrowStart` ends
where the constructor starts, `BorrowEnd` follows it, and likewise for
`ReturnStart` and `ReturnEnd`.  `Nested` says which calls T makes: destructors
that give other objects back or borrow (`base_pool`), constructors that borrow
(`base_pool_ctor`).  The mutex, if there is one, is held across the foreign
code, as `lock_guard` does, so that a nested call waits for its own thread;
`Init` chooses a pool with a mutex and all threads, or one without and one
thread, which are the uses the constructor's parameter `be_thread_safe` is for.

`nested_borrow` is history: since the pool was idle, a constructor has run inside
another call, which means that a destructor has borrowed, if constructors do not.
The free list then still holds exactly the nodes that nobody owns, but the node of
the object that is being destroyed is among those handed out: the second part of
`OneUserPerNode` and the first of `CountMatchesObjects` stop there, and the runs
`base_pool_ctor` and `base_pool_dtor` show what follows.

### BitVector, ByteArray, Bitset, MCBitset, BitsetProofs

`ByteArray` has the functions on bytes, a byte being the set of the positions
of its bits, and BYTE the number of these: 8 in the code, 2 in the instance,
so that few bits give many bytes.  `Bitset` has `bitset_t` with its cached count.
`BitVector` is the abstract specification: a set of indexes below `len`, and
queries that return the truth.  The refinement mapping is `bits <-
BitsOf(value)`; `call` holds the last call with its result, so that the
refinement compares results, too.

### SeqNum, SeqNumLaws

`SeqNum` has the functions of `number.h` for a modulus M and, for M == 0, for
a type of W values, with the promotion of narrow operands, and the macros of
the C library's `number.h`.  Unsigned intermediate results are taken mod W where
they may wrap.  `SeqNumLaws` draws numbers and states what the functions have to
satisfy.

### SeqNumUnwrapper, SeqNumUnwrapperProofs

The C++ class and the C functions side by side, fed with the remainders of a
sender's numbers, which arrive in any order, repeated, or not at all
(`\E n \in Numbers`).  `number`, `base` and `in_step` are history: the number
that arrived last, what the first one had wrapped already, and whether all
jumps so far were shorter than half the circle.

### Checksum, QuickSort, PureFunctions, PureFunctionsProofs

The one's complement sum over words of two bytes (`B` values each, 256 in the
code), and `qsort` with its partition.  A loop is a recursive function on its
counter (`Summed`, `Smallers`), the recursion of `qsort` one on the parts of
arrays with the values of the one it was given.  `PureFunctions` composes them
with `SeqNumLaws`: it draws numbers and blocks of bytes and states the laws.
`MCFunctions` puts it and `SeqNumUnwrapper`, which takes the same arithmetic, into
one instance for TLC; a behaviour takes steps of one of them only.

### Tape, Buffer, MCBuffer, BufferProofs

`Buffer` has all reads and writes with their error paths; a callback is two
steps, between which it may call the buffer itself (`Nested`).  `Tape` is the
abstract specification: `content` up to the write pointer, a `cursor`, and the
result of the last call, including when each call is refused.  `seen` is
history: how far the reader has been shown bytes.

### SingletonGuard, MCSingletonGuard, SingletonGuardProofs

Processes run the constructor one system call at a time: `Start` (socket),
`ConnectSucceeds` / `ConnectFails`, `Unlink` / `UnlinkDenied`, `Bind` /
`BindFails`, `Listen`.  `file` is what the path is in the file system: nothing, the
file of a process's open socket, or a stale one.  `UCC_RAISE` is fatal, so a
raise ends the process; `Release` and `Crash` are the destructor and death.
Nobody accepts the connections of those who find a holder (`n_pending`), and
when `Backlog` is exceeded `connect` blocks: `Full`, a rule of the kernel's, to which
the code only passes the number (`singleton_guard.cc:45`).  `TypeOK` ties the sockets
to the labels: whoever returns from the constructor listens, and a process whose
`socket` or `bind` has failed does not get so far.  `present` and `overlap`
are history: who listened when a process connected, and whether two
constructors have ever overlapped or been without a socket.  The file system
and the sockets are outside the repository and are modelled as POSIX and Linux
describe them.

### Supervisor, SignalHandle, Daemon, DaemonProofs

`Supervisor` has the clients' `start` and `stop` and the worker's `work_entry`,
one step per access to `running`, per lock and per system call.  `running` is
cleared under `mut`, but the worker reads it without.  `children[p]` is what
has become of each of the `Pids` processes the system has room for: `fork`
needs a free one, a child ends (`ChildEnds`) and stays a zombie until
`wait(NULL)` gets it, which may be another than the worker's own.  A child
that is forked while somebody holds `log_mut` is `hung`: its copy of the mutex is
locked, and its own first line waits for ever.  A failed `fork` ends the
process (`exited`), as `UCC_RAISE` does.  `left` and `races` are history: how
many children workers have left behind, and how many stops have cleared `running`
between a `fork` and the worker's looks at it on either side, which is where they
cost a child.

`SignalHandle` has the loops of `until_signal` and the two steps of
`stop_running`; `late` counts the calls of f after the stop.  `Daemon` composes
the two: a process that supervises until it is signalled, some of whose threads
are in `until_signal` and use the supervisor from f.

## 3. The runs

All bounds are constants of the cfg files.  `CHECK_DEADLOCK FALSE` stands where
the code itself may stop: a task that terminates the process or waits for a
lock its client holds (Looper), a constructor or destructor that locks its own
pool's mutex (BasePool), `connect` at a full backlog (SingletonGuard), the exit
after a failed `fork`, or a `wait` for a child that never ends (Daemon).

| run | instance | shows |
|---|---|---|
| `looper` | 2 clients, 2 tasks, tasks make every call | no lost wake-up (`NoMissedTask`), no pop of an empty list although `looping` changes between predicate and pop (`NeverPopEmpty`), one worker or none (`WorkerIffRunning`), every accepted task in exactly one place (`EveryTaskAccountedFor`), the refinement of `Executor` (`ExecutorSpec`), queued tasks run (`QueuedTaskRuns`), and a stop returns unless it meets the window between predicate and wait or a task that starts or stops the looper (`StopReturnsUnlessRaced`) |
| `looper_stop` | 1 client, 1 task | **violated**: a stop may never return (section 5) |
| `looper_hooks` | 1 client, 1 task | **violated**: `pre_activate` after the start (section 5) |
| `base_pool` | 3 nodes, 3 threads, destructors that return other objects or borrow, calls 3 deep, 2 failures | `FreeListIntact`, `OneUserPerNode`, `CountMatchesObjects`, `OnlySelfDeadlock`, `FailsOnlyWhenFull` |
| `base_pool_ctor` | 3 nodes, 1 thread, constructors that borrow | **violated**: more objects than nodes (section 5) |
| `base_pool_dtor` | the same, destructors that borrow | **violated**: more objects than nodes (section 5) |
| `bitset` | up to 6 bits in bytes of 2 | `BitVectorSpec` (the refinement), `CountIsTrue` (a valid cache is right), `UintIsBitVector` (the integer bitsets) |
| `functions` | M = 6 in a type of 8 values; bytes of 3 values, pairs of blocks of up to 4; sender's numbers up to 25 | sequence numbers: the differences are a metric (`DifferencesMeasure`), the comparators sort (`SortsInWindow`), the overloads for a type's width and the C macros agree (`WidthIsModulus`); checksum: blocks in any order are accepted and damage is not (`AcceptsWhatWasSent`), a lost block is detected exactly if it does not amount to zero (`DetectsLoss`); `SortsBlocks`; unwrappers: `FollowsSender` (short jumps are reconstructed, and the remainder survives long ones), `UnwrappersAgree` (C and C++) |
| `buffer` | 3 bytes, callbacks that read | `TapeSpec` (the refinement), `NothingSkipped` |
| `singleton_guard` | 3 processes, backlog 1 | `TypeOK` (who gets through the constructor listens), `SerialExclusion`, `HolderSafeFromLater`, `ConstructorReturns` (unless the holder it tries to reach keeps it: `KeptByHolder`) |
| `singleton_guard_race` | the same | **violated**: two holders (section 5) |
| `daemon` | 2 clients, one of them in `until_signal`, 2 processes | `ChildrenAccountedFor`, `OneLeftPerRace` (one child for each stop in the window, whichever it is), `OneLateCall`; `CallsReturn` (from the waits for `mut`, for `log_mut` and for the worker), `DeadChildIsReplaced`, `LoopsEnd` |

Why the bounds are enough.  *Looper*: two clients give every pair of concurrent
methods with the worker as the third party; two tasks give a queue in which order
matters, a queue with one task next to another that is executed, and a flush
that drops one; that more clients and tasks change nothing for the safety properties
is proved (section 4).  *BasePool*: with three nodes the list has a head, a middle
and an end while others are in use; two threads race and the third waits; depth 3
is an object that returns one that returns one.
*Bitset*: three bytes are first, whole and last byte of a clear, and lengths 0
to 6 have full and partial last bytes.  *Sequence numbers*: an even M below W
has numbers on opposite sides and words that are no numbers.  *Unwrapper*: 26
numbers are four circles, enough to be ahead, behind and a circle off; `MaxDrift`
bounds how far long jumps take the unwrapped number from them.
*Checksum*: sums of two blocks of 4 bytes carry several times; odd and even
lengths meet.  *Buffer*: 3 bytes let writes fit exactly, miss by one, cut and
leave gaps.  *SingletonGuard*: three processes are a holder and two that race;
a backlog of 1 fills within the instance (the code's is 4).  *Daemon*: two clients
start and stop against each other and log while the worker forks; two processes are
the worker's child and one that was left behind, and a third `fork` fails; one loop
suffices, as loops share nothing but `g_running`.

Every property of a passing run has a mutant in `PROJECT.json`, a plausible
bug in the modelled code that makes the run fail.

### Fairness

- `Looper!FairSpec`: weak fairness of the worker, and of each thread inside a
  method.  The scheduler of the operating system justifies it: a thread that can run
  runs, and a mutex is contended by few threads for short sections.  Strong
  fairness of `WorkerTaskDone`: a task returns in the end, and does not make calls on
  its looper for ever.  Nothing obliges a client to make a call, and no
  spurious wake-up is assumed.
- `SingletonGuard!FairSpec`: weak fairness of each constructor: a system call
  that does not block returns, and the constructor goes on.  Nobody has to start,
  release or die.
- `Daemon!DaemonSpec`: weak fairness of the worker, of each thread inside a method or
  a loop, and of the notification.  Strong fairness of taking a mutex (a thread that
  asks again and again gets it: mutexes are contended for short sections only) and of
  the return of f.  Nobody has to call, to signal or to end.  `CallsReturn` and
  `LoopsEnd` assume that children end (`ChildrenEnd`), since `wait(NULL)` waits for them
  as long as they run; without it they are false, hung children included.  Both and
  `DeadChildIsReplaced` end where a failed `fork` ends the process.

The other specifications have no fairness, since no liveness is claimed of them.

## 4. The proofs

TLAPS checks every theorem from nothing; no step is left open.  The only
assumptions are the named ones in the modules (a modulus is positive, NoTask is
no task, ...), which TLC evaluates on every run, and what a theorem says of foreign
code that it calls (`ConstructorsStayOut`, `OnlyReading`).

**LooperProofs**, for finitely many clients, any tasks and any calls of tasks.
The properties are not inductive by themselves: that the worker misses nothing
depends on what it knows at each label, and that on who owns which mutex.
`IInv` is the conjunction of
`LockInv` (the mutexes' owners are where the labels say), `CallInv` (the worker
calls only from inside a task), `SessionInv` (what the owner of `run_mut` knows about the
worker at each label of `activate` and `deactivate`) and `QueueInv` (what the
worker knows about the queue at each label of its section).  From it follow
`TypeCorrect`, `NoWakeupLost`, `PopHasTask` and `OneWorker`, and with it each
action is a step of `Executor` or a stutter: `ImplementsExecutor`.
`PlaceInv` adds that a task is in one place at a time, from which
`DroppedStaysDropped` follows, and `CountInv`, with each step moving one task or
the whole queue from one place to another, gives `NoTaskIsLost`.

`NoOtherDeadlock` is about section 5: `Blocked` and `WorkerBlocked` say, label by label,
when a thread's next step has to wait (they are read off the guards of `MethodStep`
and `WorkerStep`, since the prover has no ENABLED).  If everybody waits, `op_mut` is free, because
its owner never waits; the owner of `run_mut` is then a client at the join, with
`looping` clear (`StopInv`); and the worker it joins is asleep or in a task that waits for
`run_mut`.  So the two deadlocks that `StopReturnsUnlessRaced` excepts are all there
are, for any number of clients.  That a state is no deadlock does not say that everybody gets
on: that is liveness, which the runs check.

**BasePoolProofs**, for any number of nodes, finitely many threads, calls of any
depth, and any destructors, if constructors leave the pool of their object alone
(`ConstructorsStayOut`, without which `base_pool_ctor` shows them wrong).
`StackInv` says that only destructors are in the middle of a stack of calls,
`MutexInv` that a mutex is held exactly by a thread whose outermost call is in a
constructor or destructor, `OwnerInv` that an object is given back once, and
`ListInv` names the sequence of free nodes and says that it is acyclic and holds
exactly the nodes that are not taken.  From them follow `ListIsIntact`,
`NobodyElseBlocks` and `FullPoolsFail`.  `DyingInv` says that an object under
destruction has its node for itself as long as no destructor has borrowed: with a
mutex because there is one destructor at a time, in the first free node
(`LockedDying`), without one because a node that is being returned was taken, and a
constructor that hands a node out runs alone.  It completes `NodesAreNotShared`, which
therefore says less of a pool whose destructors borrow: a node still has one owner or
one call that constructs in it or returns it.  `CountInv` relates the counters to
the cardinalities of the set of objects and of the set of destructors that run;
with `DyingInv` there are as many of these as nodes they run in
(`DyingNodesCount`, by a bijection), whence `CountersAreTrue`.  That no counter
falls below zero completes `TypeCorrect`.

**BitsetProofs**, for bytes of any number of bits and any lengths.  An index is a
byte and a position in it (`Parts`, `Compose`, `Order`); from this come what
`SetBit`, `GetBit` and `ClearBits` do to the set of indexes, `ClearBits` by the
three parts of an interval: first byte, whole bytes, last byte.  `IInv` adds to
the types that no bit behind the length is set and that a valid count is true.
The loops of `bitset_num` visit a set of pairs that has as many elements as the
bits (`CountedBits`, by a bijection), which gives `CachedCountIsTrue`; every call
is then one of the vector: `ImplementsBitVector`, and the functions for integers
agree with it: `IntegersAreBitVectors`.

**PureFunctionsProofs**, for every modulus and every even width, every size of a
byte, blocks of every length and arrays of every length.  The functions have no
state: the only invariants are `Drawn` and `BlocksDrawn` (the inputs are numbers and
blocks), and what is proved is the laws of the functions on these.

- *Numbers*.  Of two different numbers exactly one is ahead, and the comparators are
  transitive within half a circle (`ComparatorsSort`).  Adding and subtracting are
  addition and subtraction mod M although they go through the width of the type, and
  `min_diff` is a metric (`SumsAndDifferences`).  The overloads for M == 0 and the C
  macros are the functions for the modulus W (`WidthsAgree`).  The provers know
  nothing of `%` by a variable: the lemmas `Remainder`, `RemainderUnique` and
  `NearRemainder` are all that is used of it.
- *Induction*.  The library's induction theorems take an operator as a parameter,
  which the provers cannot instantiate.  `SetInduction` and `RangeInduction` say
  the same of a set of numbers, and follow from the well-foundedness of `<`; a claim P
  is proved by induction on the set `{n \in Nat : P(n)}`.  `LoopExists` shows with them
  that a recursive function over an interval exists and satisfies its equation, which
  is needed before anything can be said of one, and `SortedExists` that `qsort` does.
- *Checksum*.  `Amount` is what the bytes of a block are worth.  One addition with its
  carry changes the sum by a multiple of `Ones` and gives zero only for nothing; by
  induction over the words `SumOfBlock`: the sum is congruent to the amount modulo
  `Ones`, and zero only for nothing.  The order of blocks then does not matter, and
  a damaged byte changes the amount by less than `Ones` (`AmountOfDamaged`), so that it
  cannot pass: `AcceptsWhole`.  A block is lost unseen exactly if it amounts to a
  multiple of `Ones`, and to zero if nothing else was sent: `MissesLostBlocks`.
- *qsort*.  `Rearranged` says of two arrays that one is a permutation of the other
  that moves nothing outside a part.  The loop invariant of the partition (`GatherStep`)
  says where the smaller elements are; `PartsShrink` gives the partition and that
  both parts are in the array and shorter; by induction on the size of a part, every
  part is sorted (`SortsEveryPart`), and a rearrangement has as many elements of each
  value as before (`RearrangedCounts`): `QSortIsCorrect`.

`NumbersAreDrawn` shows that what is said of drawn numbers holds of
`PureFunctions`, which draws blocks too.

**SeqNumUnwrapperProofs**, for every modulus and any sequence of arrivals:
`IInv` says that the last value is the remainder of the last number and of the
unwrapped one.  The lemma `ShortWay` is the heart: the remainders of two
numbers less than half a circle apart determine their difference.  From it follow
`UnwrapsTheSender`, `NoLongStep`, and, for even moduli,
`CAndCppAgree` (the C functions test the tie without asking whether M is even,
and all their moduli are).

**BufferProofs**, for any capacity, bytes and objects, if callbacks only read
(`OnlyReading`).  `IInv` says that the memory a writing callback was given is all
that is behind `w_ptr` when it returns, and that while a reading callback runs
everything before `w_ptr` counts as seen.  From it follow `TypeCorrect` (the pointers stay in
order) and `NothingIsSkipped`.  The content of the tape is a part of the
array (`Parts`, `PartOfPart`); what `memcpy` leaves alone and what it writes
(`PartCopied`) make each call one of the tape's: `ImplementsTape`.

**SingletonGuardProofs**, for any number of processes and any backlog.
`AloneInv`: while no two constructors have overlapped, whoever is past `connect`
is alone, and whoever holds owns the file and listens.  `SocketInv`: nobody
is remembered as present who does not listen, and the file before an `unlink`
is not that of somebody who was present at the `connect`.  From these follow
`SerialHoldersExclude` and `HoldersAreSafe`.

**DaemonProofs**, for any number of threads and finitely many processes.
`LockInv` (who owns `mut` is in the labels), `SessionInv` (what its owner
knows about the worker), `RaceInv` (every stop in the window has cost a child, or will
when the worker looks at `running` again).  `ChildrenAccountedFor` is
inductive with these: `ForksAndWaitsMatch`; with `RaceInv` it gives
`OneChildPerRace`, since a `wait` that reaps an earlier child leaves the present
one, so that their number stays; and `LateInv`, on the labels of the loops, `OneCallAfterStop`.
`NoDeadlockButChildren` says, as for the looper, that two mutexes, the join and the
worker cannot wait for one another: if everybody waits, the worker waits for a
child that still runs or hangs.

Only model-checked: the liveness properties (`QueuedTaskRuns`,
`StopReturnsUnlessRaced`, `ConstructorReturns`, `CallsReturn`, `DeadChildIsReplaced`,
`LoopsEnd`), since the prover has neither ENABLED nor fairness.  Every safety
property of a passing run is a theorem.  The runs that must fail refute what they
check, so that there is nothing to prove.

## 5. What the code does that it should not

- `looper_stop`: `deactivate` clears `looping` and notifies without `op_mut`.
  If both fall between the predicate of the worker's wait and the wait, the worker
  sleeps for good and `deactivate` never returns from the join, although one thread stops an
  idle looper and nothing else happens.  Every other moment is safe
  (`StopReturnsUnlessRaced`).
- `looper_hooks`: the last line of `activate` calls `pre_activate` a second
  time, in place of `post_activate`, which nobody calls.
- `base_pool_ctor`: the constructor of T runs before its node is unlinked.  If it
  borrows from the same pool, it gets its own node.
- `base_pool_dtor`: `return_item` puts the node back before it runs the destructor of T
  in it and before it counts the object as gone.  If the destructor borrows from the
  same pool, which it can without a mutex, it gets the node of its own object, and in
  a full pool `n_allocated` passes the capacity, which `get_free_node_num` asserts it
  never does.
- `singleton_guard_race`: a process that connects before another one listens
  removes that one's file and becomes a second holder.

## 6. What is not modelled, and why

- **FileWrapper**: forwards to stdio, one call each.  It does not compile (`read`
  calls a local variable), so what it would do is not settled by the source.
- **Time**: two functions that compare a clock with a member of one thread.
- **Log**: all but `log_mut` and the macro that holds it; **string utilities**,
  **console**, **networks**, **helpers and macros**: formatting, input and
  output, constants; no state that several steps could get wrong.
- **Supervisor** uses names of an older `ThreadWrapper` and does not compile as it
  is; its control does not depend on them and is modelled.  Not modelled: the body
  of `run_in_descendant`, the destructors that run in a child, and the destruction
  of a running supervisor, whose base destructor calls `stop` when the derived
  class, and with it `run_in_descendant`, is gone.
- Within modelled components: `pull_all_tasks(false)`, which nobody calls; the
  destruction of a pool that still has objects (`base_pool.h:46`); callbacks that
  write to the buffer they were called by (`buffer.h:51`: `w_ptr` then moves twice);
  what becomes of a `std::function` that `read_at` has overwritten
  (`buffer.h:93`); `malloc` failures; sizes near the limits of `size_t` and `int64_t`
  (`len + 7` in `bitset_new`, the unwrapped number); a caller who changes an attached
  bit array behind the cached count; the depth of the recursion of `qsort` on sorted
  input; a failing `listen`; the Windows variants.
- Hazards that the model reaches but no property catches, because nothing in the
  repository says what should happen: a T that uses its own thread-safe pool waits
  for itself (`base_pool.h:125`; `OnlySelfDeadlock` excludes every other deadlock and
  permits this one); the sixth process to try a holder blocks in `connect`
  (`singleton_guard.cc:45`; `KeptByHolder`); a process whose `socket` fails removes
  the holder's file (`singleton_guard.cc:23`); `stop` waits under `mut` for as long as a
  child runs (`supervisor.h:50`); a child that inherits `log_mut` locked hangs
  (`supervisor.h:85`).  The properties name these cases as exceptions.
- Bytes, tasks, processes and errors are members of small sets; texts, log
  lines and time are left out.

## 7. The plan

Done, in this order: Looper; BasePool; bitsets; sequence numbers and
unwrappers; Buffer; SingletonGuard; checksum and sort; Supervisor and
SignalHandle, composed in Daemon; the proofs of all their safety properties; that
the deadlocks of Looper and Daemon that are known are all there are.

Next:

1. `Buffer` with callbacks that write, if the comments of the header come to
   say what they may do.
2. `Supervisor` and `FileWrapper` as they compile, when they do.
