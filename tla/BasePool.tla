------------------------------ MODULE BasePool ------------------------------
(***************************************************************************)
(* ucc::BasePool<T> (include/utils_cc/base_pool.h): a fixed array of nodes *)
(* linked into a free list, from which objects of type T are constructed   *)
(* in place and to which their smart pointers return them.                 *)
(*                                                                         *)
(* The pool runs code it does not know: the constructor of T while it      *)
(* borrows a node, and its destructor while it takes one back.  That code  *)
(* may use the same pool (Nested), so a thread has a stack of calls.  A    *)
(* step of the model ends where foreign code starts, at the lock and at    *)
(* the return.                                                             *)
(***************************************************************************)
EXTENDS Naturals, Sequences, SequencesExt, FiniteSets

CONSTANTS capacity,     \* the number of nodes
          Threads,      \* the threads that use the pool
          NoThread,     \* the owner of an unlocked mutex
          NoMutex,      \* mut of a pool that is not thread-safe: nullptr
          Nested,       \* pairs <<"ctor" or "dtor", "alloc" or "dealloc">>:
                        \* what the foreign code does with its own pool
          MaxDepth,     \* bound: how deep such calls go
          MaxFailures   \* bound: no more allocations after so many have failed

ASSUME CapacityAssumption == capacity \in Nat \ {0}  \* UCC_RAISE_IF
ASSUME ThreadsAssumption == NoThread # NoMutex /\ {NoThread, NoMutex} \cap Threads = {}
ASSUME FiniteAssumption == IsFiniteSet(Threads) /\ MaxDepth \in Nat
ASSUME NestedAssumption == Nested \subseteq {"ctor", "dtor"} \X {"alloc", "dealloc"}

Nodes == 1 .. capacity
Null == 0

VARIABLES
  next,        \* Node::next
  free_nodes,  \* the head of the free list
  stat,        \* the three counters
  mut,         \* the owner of the mutex, if there is one
  users,       \* the threads that use the pool
  frames,      \* per thread: its calls in progress, the innermost last
  owners,      \* per node: how many smart pointers refer to it
  empties,     \* how many shared_ptr to nullptr a full pool has given away
  nested_borrow  \* history: since the pool was idle, a constructor has run
                 \* inside another call

list == <<next, free_nodes>>
handles == <<owners, empties>>
vars == <<list, stat, mut, users, frames, handles, nested_borrow>>

AllocLabels == {"alloc_unique", "alloc_shared"}
Frame == [at : AllocLabels \cup {"ctor", "dealloc", "dtor"}, node : Nodes \cup {Null}]
At(label, n) == [at |-> label, node |-> n]

TypeOK ==
  /\ next \in [Nodes -> Nodes \cup {Null}]
  /\ free_nodes \in Nodes \cup {Null}
  /\ stat \in [n_alloc_failure : Nat, n_dealloc_failure : Nat, n_allocated : Nat]
  /\ mut \in Threads \cup {NoThread, NoMutex}
  /\ users \in SUBSET Threads
  /\ frames \in [Threads -> Seq(Frame)]
  /\ owners \in [Nodes -> Nat]
  /\ empties \in Nat
  /\ nested_borrow \in BOOLEAN

\* The constructor links every node to the one behind it.  A pool that is not
\* thread-safe has no mutex and is used by one thread.
Init ==
  /\ next = [n \in Nodes |-> IF n < capacity THEN n + 1 ELSE Null]
  /\ free_nodes = 1
  /\ stat = [n_alloc_failure |-> 0, n_dealloc_failure |-> 0, n_allocated |-> 0]
  /\ \/ mut = NoThread /\ users = Threads
     \/ mut = NoMutex /\ \E th \in Threads : users = {th}
  /\ frames = [th \in Threads |-> <<>>]
  /\ owners = [n \in Nodes |-> 0]
  /\ empties = 0
  /\ nested_borrow = FALSE
-----------------------------------------------------------------------------
Running(th, label) == frames[th] # <<>> /\ Last(frames[th]).at = label
NodeOf(th) == Last(frames[th]).node

\* Outside the pool, or in a constructor or destructor that makes this call.
MayCall(th, call) ==
  /\ Len(frames[th]) < MaxDepth
  /\ frames[th] = <<>> \/ \E pair \in Nested : Running(th, pair[1]) /\ pair[2] = call

Call(th, frame) == frames' = [frames EXCEPT ![th] = Append(@, frame)]
Become(th, frame) == frames' = [frames EXCEPT ![th] = Append(Front(@), frame)]
Return(th) == frames' = [frames EXCEPT ![th] = Front(@)]

\* lock_guard: a thread that already owns the mutex waits for itself.
Free == mut \in {NoThread, NoMutex}
Lock(th) == Free /\ mut' = IF mut = NoMutex THEN mut ELSE th
Unlock == mut' = IF mut = NoMutex THEN mut ELSE NoThread

\* alloc_unique and alloc_shared.
CallAlloc(th, kind) ==
  /\ MayCall(th, "alloc")
  /\ stat.n_alloc_failure < MaxFailures
  /\ Call(th, At(kind, Null))
  /\ UNCHANGED <<list, stat, mut, handles>>

\* The last smart pointer to an object goes: its deleter is dealloc.
CallDealloc(th, n) ==
  /\ MayCall(th, "dealloc")
  /\ owners[n] > 0
  /\ owners' = [owners EXCEPT ![n] = @ - 1]
  /\ Call(th, At("dealloc", n))
  /\ UNCHANGED <<list, stat, mut, empties>>

\* A shared_ptr calls it even when it holds nullptr; a unique_ptr does not.
CallDeallocEmpty(th) ==
  /\ MayCall(th, "dealloc")
  /\ empties > 0
  /\ empties' = empties - 1
  /\ Call(th, At("dealloc", Null))
  /\ UNCHANGED <<list, stat, mut, owners>>

\* borrow_item returns nullptr and counts a failure.
Fail(th, kind) ==
  /\ Running(th, kind) /\ kind \in AllocLabels
  /\ Free
  /\ stat' = [stat EXCEPT !.n_alloc_failure = @ + 1]
  /\ empties' = empties + IF kind = "alloc_shared" THEN 1 ELSE 0
  /\ Return(th)
  /\ UNCHANGED <<list, mut, owners>>

\* Mutants of BorrowFail: the last node is taken for none; the mutex stays
\* locked.
FailEarly(th, kind) ==
  (free_nodes = Null \/ next[free_nodes] = Null) /\ Fail(th, kind)
FailLocked(th, kind) ==
  /\ free_nodes = Null
  /\ Running(th, kind) /\ kind \in AllocLabels
  /\ Lock(th)
  /\ stat' = [stat EXCEPT !.n_alloc_failure = @ + 1]
  /\ empties' = empties + IF kind = "alloc_shared" THEN 1 ELSE 0
  /\ Return(th)
  /\ UNCHANGED <<list, owners>>

BorrowFail(th, kind) == free_nodes = Null /\ Fail(th, kind)

\* borrow_item up to the constructor of T, which runs in the first free node.
BorrowStart(th, kind) ==
  /\ Running(th, kind) /\ kind \in AllocLabels
  /\ Lock(th)
  /\ free_nodes # Null
  /\ Become(th, At("ctor", free_nodes))
  /\ UNCHANGED <<list, stat, handles>>

\* The object is handed out, and the free list becomes rest.
HandOut(th, rest) ==
  /\ Running(th, "ctor")
  /\ free_nodes' = rest
  /\ stat' = [stat EXCEPT !.n_allocated = @ + 1]
  /\ owners' = [owners EXCEPT ![NodeOf(th)] = @ + 1]
  /\ Unlock
  /\ Return(th)
  /\ UNCHANGED <<next, empties>>

\* Mutant of BorrowEnd: the node stays in the free list.
KeepNode(th) == HandOut(th, free_nodes)

\* borrow_item after the constructor: what is then the first free node is
\* unlinked.  If there is none, this dereferences a null pointer and the
\* process ends here.
BorrowEnd(th) == free_nodes # Null /\ HandOut(th, next[free_nodes])

\* return_item of nullptr: the counters become new_stat.
ReturnNull(th, new_stat) ==
  /\ Running(th, "dealloc") /\ NodeOf(th) = Null
  /\ Free
  /\ stat' = new_stat
  /\ Return(th)
  /\ UNCHANGED <<list, mut, handles>>

\* Mutant of ReturnFail: nullptr is counted like an object.
CountNull(th) == ReturnNull(th, [stat EXCEPT !.n_allocated = @ - 1])

ReturnFail(th) == ReturnNull(th, [stat EXCEPT !.n_dealloc_failure = @ + 1])

\* The node is put before rest, then its object is destroyed.
PutBefore(th, rest) ==
  /\ Running(th, "dealloc") /\ NodeOf(th) # Null
  /\ Lock(th)
  /\ next' = [next EXCEPT ![NodeOf(th)] = rest]
  /\ free_nodes' = NodeOf(th)
  /\ Become(th, At("dtor", NodeOf(th)))
  /\ UNCHANGED <<stat, handles>>

\* Mutant of ReturnStart: the rest of the list is cut off.
CutList(th) == PutBefore(th, Null)

\* return_item up to the destructor of T.
ReturnStart(th) == PutBefore(th, free_nodes)

\* return_item after the destructor: n objects fewer.
Destroyed(th, n) ==
  /\ Running(th, "dtor")
  /\ stat' = [stat EXCEPT !.n_allocated = @ - n]
  /\ Unlock
  /\ Return(th)
  /\ UNCHANGED <<list, handles>>

\* Mutant of ReturnEnd: the object is still counted.
ForgetCount(th) == Destroyed(th, 0)

ReturnEnd(th) == Destroyed(th, 1)

NestedBorrow(th) == Running(th, "ctor") /\ Len(frames[th]) > 1
Busy(th) == frames[th] # <<>>

Next ==
  /\ UNCHANGED users
  /\ \E th \in users :
       \/ \E kind \in AllocLabels :
            CallAlloc(th, kind) \/ BorrowFail(th, kind) \/ BorrowStart(th, kind)
       \/ \E n \in Nodes : CallDealloc(th, n)
       \/ CallDeallocEmpty(th)
       \/ BorrowEnd(th)
       \/ ReturnFail(th) \/ ReturnStart(th) \/ ReturnEnd(th)
  /\ nested_borrow' = /\ nested_borrow \/ \E th \in users : NestedBorrow(th)'
                      /\ \E th \in users : Busy(th)'

Spec == Init /\ [][Next]_vars
-----------------------------------------------------------------------------
\* The calls in progress that are at one of these labels, and those on node n:
\* a thread and how deep in its stack.
CallsAt(labels) ==
  {th_i \in Threads \X (1 .. MaxDepth) :
     /\ th_i[2] <= Len(frames[th_i[1]])
     /\ frames[th_i[1]][th_i[2]].at \in labels}

CallsOn(n, labels) ==
  {th_i \in CallsAt(labels) : frames[th_i[1]][th_i[2]].node = n}

\* An object lives in the node, or waits to be given back.
InUse(n) ==
  owners[n] > 0 \/ \E th \in Threads : At("dealloc", n) \in Range(frames[th])

\* s is the list that starts at free_nodes.
IsFreeList(s) ==
  /\ free_nodes = IF s = <<>> THEN Null ELSE s[1]
  /\ \A i \in DOMAIN s : next[s[i]] = IF i = Len(s) THEN Null ELSE s[i + 1]

\* The free list has an end, visits no node twice, and holds exactly the nodes
\* in which no object lives: no interleaving of borrowing and returning, and
\* no return from inside a destructor, leaks a node or hands out a used one.
FreeListIntact ==
  \E s \in UNION {[1 .. k -> Nodes] : k \in 0 .. capacity} :
    /\ IsFreeList(s)
    /\ IsInjective(s)
    /\ Range(s) = {n \in Nodes : ~InUse(n)}

\* A node has one user: the owner of the object in it, or one call that
\* constructs it or gives it back.  The node of an object that is being
\* destroyed has no other user either, unless a destructor has borrowed, which
\* it can do only without a mutex: it is given the node of its own object.
OneUserPerNode ==
  \A n \in Nodes :
    /\ owners[n] + Cardinality(CallsOn(n, {"ctor", "dealloc"})) <= 1
    /\ ~nested_borrow =>
         owners[n] + Cardinality(CallsOn(n, {"ctor", "dealloc", "dtor"})) <= 1

\* The counters tell the truth.  n_allocated, from which get_free_node_num() is
\* computed, is the number of nodes in which there is an object, be it one that
\* is being destroyed, so that it does not exceed the capacity, unless a
\* destructor has borrowed (see CountWithinCapacity); even then it is right
\* again when no object is being destroyed any more.  A failed deallocation is
\* the echo of a failed allocation, counted once for every empty shared_ptr
\* that has gone.
CountMatchesObjects ==
  /\ ~nested_borrow =>
       stat.n_allocated = Cardinality({n \in Nodes : InUse(n) \/ CallsOn(n, {"dtor"}) # {}})
  /\ CallsAt({"dtor"}) = {} => stat.n_allocated = Cardinality({n \in Nodes : InUse(n)})
  /\ stat.n_dealloc_failure + empties <= stat.n_alloc_failure

\* Whoever holds the mutex can go on, unless it waits for itself: a constructor
\* or destructor of T that uses its own thread-safe pool.  No other deadlock
\* is possible, and no way out of alloc() and dealloc() leaves the mutex locked.
OnlySelfDeadlock ==
  mut \in Threads =>
    \/ Running(mut, "ctor") \/ Running(mut, "dtor")
    \/ Len(frames[mut]) > 1

\* An allocation fails only when there is an object in every node.
FailsOnlyWhenFull ==
  [][stat'.n_alloc_failure > stat.n_alloc_failure => \A n \in Nodes : InUse(n)]_vars

\* base_pool.h:89 UCC_RAISE_UNLESS(capacity >= stat.n_allocated): never more
\* objects than nodes.
CountWithinCapacity == capacity >= stat.n_allocated
=============================================================================
