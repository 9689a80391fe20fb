--------------------------- MODULE BasePoolProofs ---------------------------
(***************************************************************************)
(* The safety of the pool, for any number of nodes and threads, and for    *)
(* constructors that leave the pool alone.                                 *)
(***************************************************************************)
EXTENDS BasePool, SequenceTheorems, FiniteSetTheorems, TLAPS

\* Constructors of T do not use the pool of their object.  With one that does
\* no property of the free list holds (see CountWithinCapacity).
ConstructorsStayOut == \A pair \in Nested : pair[1] = "dtor"

Depth(t) == 1 .. Len(frames[t])

TypeInv ==
  /\ next \in [Nodes -> Nodes \cup {Null}]
  /\ free_nodes \in Nodes \cup {Null}
  /\ stat \in [n_alloc_failure : Int, n_dealloc_failure : Int, n_allocated : Int]
  /\ mut \in Threads \cup {NoThread, NoMutex}
  /\ users \in SUBSET Threads
  /\ frames \in [Threads -> Seq(Frame)]
  /\ owners \in [Nodes -> {0, 1}]
  /\ empties \in Nat

\* Only users have calls in progress, only destructors make calls, and what is
\* constructed or destroyed has a node.
StackInv ==
  \A t \in Threads : \A i \in Depth(t) :
    /\ t \in users
    /\ i < Len(frames[t]) => frames[t][i].at = "dtor"
    /\ frames[t][i].at \in {"ctor", "dtor"} => frames[t][i].node \in Nodes
    /\ frames[t][i].at = "ctor" => frames[t][i].node = free_nodes

\* The mutex is held exactly while an object is constructed or destroyed in the
\* outermost call of its owner, and the list does not change meanwhile.
MutexInv ==
  /\ mut = NoMutex => \A t, u \in users : t = u
  /\ mut # NoMutex =>
       \A t \in Threads : \A i \in Depth(t) :
         frames[t][i].at \in {"ctor", "dtor"} =>
           i = 1 /\ mut = t /\ frames[t][i].node = free_nodes
  /\ mut \in Threads => frames[mut] # <<>> /\ frames[mut][1].at \in {"ctor", "dtor"}

\* The innermost call of t gives node n back.
GivesBack(t, n) == frames[t] # <<>> /\ Last(frames[t]) = At("dealloc", n)

\* An object that is given back has lost its owner, and goes once.
OwnerInv ==
  \A t \in Threads : \A n \in Nodes :
    GivesBack(t, n) => owners[n] = 0 /\ \A u \in Threads : GivesBack(u, n) => t = u

Taken(n) == owners[n] = 1 \/ \E t \in Threads : GivesBack(t, n)

\* s is the free list, and k its length.
Chain(s, k) ==
  /\ free_nodes = IF k = 0 THEN Null ELSE s[1]
  /\ \A i \in 1 .. k : next[s[i]] = IF i = k THEN Null ELSE s[i + 1]
  /\ \A i, j \in 1 .. k : s[i] = s[j] => i = j
  /\ \A n \in Nodes : ~Taken(n) <=> \E i \in 1 .. k : s[i] = n

ListInv == \E k \in Nat : \E s \in [1 .. k -> Nodes] : Chain(s, k)

IInv == TypeInv /\ StackInv /\ MutexInv /\ OwnerInv /\ ListInv

\* An object that is being destroyed has its node for itself: nobody owns the
\* node, gives it back, constructs in it or destroys another object in it.
DyingAlone ==
  /\ \A t \in Threads : \A i \in Depth(t) : frames[t][i].at = "ctor" => i = 1
  /\ \A t \in Threads : \A i \in Depth(t) :
       frames[t][i].at = "dtor" => ~Taken(frames[t][i].node)
  /\ \A t, u \in Threads : \A i \in Depth(t), j \in Depth(u) :
       /\ frames[t][i].at = "dtor" /\ frames[u][j].at = "dtor"
       /\ frames[t][i].node = frames[u][j].node
       => t = u /\ i = j

DyingInv ==
  /\ nested_borrow \in BOOLEAN
  /\ ~nested_borrow => DyingAlone
-----------------------------------------------------------------------------
\* What Append and Front do to a stack.
LEMMA Push ==
  ASSUME NEW S, NEW s \in Seq(S), NEW e \in S
  PROVE  /\ Append(s, e) \in Seq(S)
         /\ Len(Append(s, e)) = Len(s) + 1
         /\ \A i \in 1 .. Len(s) : Append(s, e)[i] = s[i]
         /\ Append(s, e)[Len(s) + 1] = e
         /\ Append(s, e) # <<>>
         /\ Last(Append(s, e)) = e
<1>1. /\ Append(s, e) \in Seq(S)
      /\ Len(Append(s, e)) = Len(s) + 1
      /\ \A i \in 1 .. Len(s) : Append(s, e)[i] = s[i]
      /\ Append(s, e)[Len(s) + 1] = e
  BY AppendProperties
<1>2. Len(s) \in Nat
  BY LenProperties
<1> QED
  BY <1>1, <1>2, EmptySeq DEF Last

LEMMA Pop ==
  ASSUME NEW S, NEW s \in Seq(S), s # <<>>
  PROVE  /\ Len(s) \in Nat \ {0}
         /\ Last(s) = s[Len(s)]
         /\ Last(s) \in S
         /\ Front(s) \in Seq(S)
         /\ Len(Front(s)) = Len(s) - 1
         /\ \A i \in 1 .. Len(s) - 1 : Front(s)[i] = s[i]
         /\ Front(s) # <<>> <=> Len(s) > 1
         /\ Len(s) > 1 => Last(Front(s)) = s[Len(s) - 1]
<1>1. Len(s) \in Nat \ {0}
  BY EmptySeq
<1>2. /\ Front(s) \in Seq(S)
      /\ Len(Front(s)) = Len(s) - 1
      /\ \A i \in 1 .. Len(s) - 1 : Front(s)[i] = s[i]
  <2> DEFINE n == Len(s) - 1
             r == SubSeq(s, 1, n)
  <2>1. n \in Int /\ n >= 0 /\ \A i \in 1 .. n : s[i] \in S
    BY <1>1, ElementOfSeq
  <2> HIDE DEF n
  <2>2. /\ r \in Seq(S)
        /\ Len(r) = IF 1 <= n THEN n - 1 + 1 ELSE 0
        /\ \A i \in 1 .. n - 1 + 1 : r[i] = s[1 + i - 1]
    BY <2>1, SubSeqProperties
  <2>3. Len(r) = n /\ \A i \in 1 .. n : r[i] = s[i]
    BY <2>1, <2>2
  <2> QED
    BY <2>2, <2>3 DEF Front, n
<1>3. Last(s) = s[Len(s)] /\ Last(s) \in S
  BY <1>1, ElementOfSeq DEF Last
<1>4. Front(s) # <<>> <=> Len(s) > 1
  BY <1>1, <1>2, EmptySeq
<1>5. Len(s) > 1 => Last(Front(s)) = s[Len(s) - 1]
  BY <1>1, <1>2 DEF Last
<1> QED
  BY <1>1, <1>2, <1>3, <1>4, <1>5

\* What the three kinds of steps do to the stack of the thread that takes them.
LEMMA CallFrames ==
  ASSUME TypeInv, NEW th \in Threads, NEW f \in Frame, Call(th, f)
  PROVE  /\ frames' \in [Threads -> Seq(Frame)]
         /\ \A t \in Threads \ {th} : frames'[t] = frames[t]
         /\ Len(frames[th]) \in Nat
         /\ Len(frames'[th]) = Len(frames[th]) + 1
         /\ \A i \in Depth(th) : frames'[th][i] = frames[th][i]
         /\ frames'[th][Len(frames[th]) + 1] = f
         /\ frames'[th] # <<>>
         /\ Last(frames'[th]) = f
<1>1. frames[th] \in Seq(Frame)
  BY DEF TypeInv
<1>2. frames'[th] = Append(frames[th], f) /\ \A t \in Threads \ {th} : frames'[t] = frames[t]
  BY DEF TypeInv, Call
<1>3. Append(frames[th], f) \in Seq(Frame)
  BY <1>1, Push
<1>4. frames' \in [Threads -> Seq(Frame)]
  BY <1>3 DEF TypeInv, Call
<1>5. Len(frames[th]) \in Nat
  BY <1>1, LenProperties
<1> QED
  BY <1>1, <1>2, <1>4, <1>5, Push DEF Depth

LEMMA BecomeFrames ==
  ASSUME TypeInv, NEW th \in Threads, NEW f \in Frame, Become(th, f), frames[th] # <<>>
  PROVE  /\ frames' \in [Threads -> Seq(Frame)]
         /\ \A t \in Threads \ {th} : frames'[t] = frames[t]
         /\ Len(frames[th]) \in Nat \ {0}
         /\ Last(frames[th]) = frames[th][Len(frames[th])]
         /\ Last(frames[th]) \in Frame
         /\ Len(frames'[th]) = Len(frames[th])
         /\ \A i \in 1 .. Len(frames[th]) - 1 : frames'[th][i] = frames[th][i]
         /\ frames'[th][Len(frames[th])] = f
         /\ frames'[th] # <<>>
         /\ Last(frames'[th]) = f
<1>1. frames[th] \in Seq(Frame)
  BY DEF TypeInv
<1>2. /\ frames'[th] = Append(Front(frames[th]), f)
      /\ \A t \in Threads \ {th} : frames'[t] = frames[t]
  BY DEF TypeInv, Become
<1>3. /\ Len(frames[th]) \in Nat \ {0}
      /\ Last(frames[th]) = frames[th][Len(frames[th])]
      /\ Last(frames[th]) \in Frame
      /\ Front(frames[th]) \in Seq(Frame)
      /\ Len(Front(frames[th])) = Len(frames[th]) - 1
      /\ \A i \in 1 .. Len(frames[th]) - 1 : Front(frames[th])[i] = frames[th][i]
  BY <1>1, Pop
<1>4. /\ Append(Front(frames[th]), f) \in Seq(Frame)
      /\ Len(Append(Front(frames[th]), f)) = Len(frames[th])
      /\ \A i \in 1 .. Len(frames[th]) - 1 :
           Append(Front(frames[th]), f)[i] = Front(frames[th])[i]
      /\ Append(Front(frames[th]), f)[Len(frames[th])] = f
      /\ Append(Front(frames[th]), f) # <<>>
      /\ Last(Append(Front(frames[th]), f)) = f
  <2> DEFINE s == Front(frames[th])
  <2>1. s \in Seq(Frame) /\ Len(s) = Len(frames[th]) - 1
    BY <1>3
  <2> HIDE DEF s
  <2>2. /\ Append(s, f) \in Seq(Frame)
        /\ Len(Append(s, f)) = Len(s) + 1
        /\ \A i \in 1 .. Len(s) : Append(s, f)[i] = s[i]
        /\ Append(s, f)[Len(s) + 1] = f
        /\ Append(s, f) # <<>>
        /\ Last(Append(s, f)) = f
    BY <2>1, Push
  <2>3. Len(s) + 1 = Len(frames[th])
    BY <1>3, <2>1
  <2>4. /\ Append(s, f) \in Seq(Frame)
        /\ Len(Append(s, f)) = Len(frames[th])
        /\ \A i \in 1 .. Len(frames[th]) - 1 : Append(s, f)[i] = s[i]
        /\ Append(s, f)[Len(frames[th])] = f
        /\ Append(s, f) # <<>>
        /\ Last(Append(s, f)) = f
    BY <2>1, <2>2, <2>3
  <2> QED
    BY <2>4 DEF s
<1>5. frames' \in [Threads -> Seq(Frame)]
  BY <1>4 DEF TypeInv, Become
<1> QED
  BY <1>2, <1>3, <1>4, <1>5

LEMMA ReturnFrames ==
  ASSUME TypeInv, NEW th \in Threads, Return(th), frames[th] # <<>>
  PROVE  /\ frames' \in [Threads -> Seq(Frame)]
         /\ \A t \in Threads \ {th} : frames'[t] = frames[t]
         /\ Len(frames[th]) \in Nat \ {0}
         /\ Last(frames[th]) = frames[th][Len(frames[th])]
         /\ Last(frames[th]) \in Frame
         /\ Len(frames'[th]) = Len(frames[th]) - 1
         /\ \A i \in 1 .. Len(frames[th]) - 1 : frames'[th][i] = frames[th][i]
         /\ frames'[th] # <<>> <=> Len(frames[th]) > 1
         /\ Len(frames[th]) > 1 => Last(frames'[th]) = frames[th][Len(frames[th]) - 1]
<1>1. frames[th] \in Seq(Frame)
  BY DEF TypeInv
<1>2. frames'[th] = Front(frames[th]) /\ \A t \in Threads \ {th} : frames'[t] = frames[t]
  BY DEF TypeInv, Return
<1>3. Front(frames[th]) \in Seq(Frame)
  BY <1>1, Pop
<1>4. frames' \in [Threads -> Seq(Frame)]
  BY <1>3 DEF TypeInv, Return
<1>5. \A s \in Seq(Frame) : s # <<>> =>
        /\ Len(s) \in Nat \ {0}
        /\ Last(s) = s[Len(s)] /\ Last(s) \in Frame
        /\ Len(Front(s)) = Len(s) - 1
        /\ \A i \in 1 .. Len(s) - 1 : Front(s)[i] = s[i]
        /\ Front(s) # <<>> <=> Len(s) > 1
        /\ Len(s) > 1 => Last(Front(s)) = s[Len(s) - 1]
  BY Pop
<1> QED
  BY <1>1, <1>2, <1>4, <1>5

\* A call that has made another one gives nothing back itself.
LEMMA OnlyTopsGiveBack ==
  ASSUME IInv, NEW t \in Threads, NEW n \in Nodes, NEW i \in Depth(t),
         frames[t][i] = At("dealloc", n)
  PROVE  GivesBack(t, n)
<1>1. frames[t] \in Seq(Frame)
  BY DEF IInv, TypeInv
<1>2. Len(frames[t]) \in Nat /\ frames[t] # <<>>
  BY <1>1, LenProperties, EmptySeq DEF Depth
<1>3. ~(i < Len(frames[t]))
  BY DEF IInv, StackInv, At
<1>4. i = Len(frames[t])
  BY <1>2, <1>3 DEF Depth
<1> QED
  BY <1>2, <1>4 DEF GivesBack, Last

\* What the three kinds of steps do to the set of the nodes that are given back.
LEMMA CallGives ==
  ASSUME IInv, ConstructorsStayOut, NEW th \in Threads, NEW f \in Frame, NEW call, MayCall(th, call), Call(th, f)
  PROVE  /\ \A n : ~GivesBack(th, n)
         /\ \A n : GivesBack(th, n)' <=> f = At("dealloc", n)
         /\ \A t \in Threads \ {th} : \A n : GivesBack(t, n)' <=> GivesBack(t, n)
<1>1. TypeInv
  BY DEF IInv
<1>2. \A n : ~GivesBack(th, n)
  BY DEF MayCall, GivesBack, Running, At, ConstructorsStayOut
<1> QED
  BY <1>1, <1>2, CallFrames DEF GivesBack

LEMMA BecomeGives ==
  ASSUME IInv, NEW th \in Threads, NEW f \in Frame, Become(th, f), frames[th] # <<>>,
         f.at # "dealloc"
  PROVE  /\ \A n : ~GivesBack(th, n)'
         /\ \A t \in Threads \ {th} : \A n : GivesBack(t, n)' <=> GivesBack(t, n)
<1>1. TypeInv
  BY DEF IInv
<1> QED
  BY <1>1, BecomeFrames DEF GivesBack, At

LEMMA ReturnGives ==
  ASSUME IInv, NEW th \in Threads, Return(th), frames[th] # <<>>
  PROVE  /\ \A n : ~GivesBack(th, n)'
         /\ \A t \in Threads \ {th} : \A n : GivesBack(t, n)' <=> GivesBack(t, n)
<1>1. TypeInv
  BY DEF IInv
<1>2. \A t \in Threads \ {th} : frames'[t] = frames[t]
  BY <1>1, ReturnFrames
<1>3. ASSUME NEW n PROVE ~GivesBack(th, n)'
  <2>1. CASE frames'[th] = <<>>
    BY <2>1 DEF GivesBack
  <2>2. CASE frames'[th] # <<>>
    <3>1. /\ Len(frames[th]) \in Nat /\ Len(frames[th]) > 1
          /\ Last(frames'[th]) = frames[th][Len(frames[th]) - 1]
      BY <1>1, <2>2, ReturnFrames
    <3>2. frames[th][Len(frames[th]) - 1].at = "dtor"
      BY <3>1 DEF IInv, StackInv, Depth
    <3> QED
      BY <3>1, <3>2 DEF GivesBack, At
  <2> QED
    BY <2>1, <2>2
<1> QED
  BY <1>2, <1>3 DEF GivesBack

\* The stacks and the mutex, for the three kinds of steps.
LEMMA CallStacks ==
  ASSUME IInv, ConstructorsStayOut, NEW th \in users, NEW f \in Frame, f.at \notin {"ctor", "dtor"},
         NEW call, MayCall(th, call), Call(th, f), UNCHANGED <<free_nodes, mut, users>>
  PROVE  StackInv' /\ MutexInv'
<1>1. TypeInv /\ StackInv /\ MutexInv
  BY DEF IInv
<1>2. th \in Threads
  BY <1>1 DEF TypeInv
<1>3. /\ \A t \in Threads \ {th} : frames'[t] = frames[t]
      /\ Len(frames[th]) \in Nat
      /\ Len(frames'[th]) = Len(frames[th]) + 1
      /\ \A i \in Depth(th) : frames'[th][i] = frames[th][i]
      /\ frames'[th][Len(frames[th]) + 1] = f
      /\ frames'[th] # <<>>
  BY <1>1, <1>2, CallFrames
<1>4. Len(frames[th]) > 0 => frames[th][Len(frames[th])].at = "dtor"
  <2>1. frames[th] = <<>> \/ Last(frames[th]).at = "dtor"
    BY DEF MayCall, Running, ConstructorsStayOut
  <2> QED
    BY <1>3, <2>1, EmptySeq DEF Last
<1>5. StackInv'
  <2> SUFFICES ASSUME NEW t \in Threads, NEW i \in Depth(t)'
               PROVE  /\ t \in users
                      /\ i < Len(frames'[t]) => frames'[t][i].at = "dtor"
                      /\ frames'[t][i].at \in {"ctor", "dtor"} => frames'[t][i].node \in Nodes
                      /\ frames'[t][i].at = "ctor" => frames'[t][i].node = free_nodes
    BY DEF StackInv
  <2>1. CASE t # th
    BY <1>1, <1>3, <2>1 DEF StackInv, Depth
  <2>2. CASE t = th /\ i \in Depth(th)
    <3>1. i < Len(frames[th]) \/ i = Len(frames[th])
      BY <1>3, <2>2 DEF Depth
    <3> QED
      BY <1>1, <1>2, <1>3, <1>4, <2>2, <3>1 DEF StackInv, Depth
  <2>3. CASE t = th /\ i \notin Depth(th)
    BY <1>3, <2>3 DEF Depth
  <2> QED
    BY <2>1, <2>2, <2>3
<1>6. MutexInv'
  <2>1. ASSUME mut # NoMutex, NEW t \in Threads, NEW i \in Depth(t)',
               frames'[t][i].at \in {"ctor", "dtor"}
        PROVE  i = 1 /\ mut = t /\ frames'[t][i].node = free_nodes
    <3>1. i \in Depth(t) /\ frames'[t][i] = frames[t][i]
      BY <1>2, <1>3, <2>1 DEF Depth
    <3> QED
      BY <1>1, <2>1, <3>1 DEF MutexInv
  <2>2. ASSUME mut \in Threads
        PROVE  frames'[mut] # <<>> /\ frames'[mut][1].at \in {"ctor", "dtor"}
    <3>1. frames[mut] # <<>> /\ frames[mut][1].at \in {"ctor", "dtor"}
      BY <1>1, <2>2 DEF MutexInv
    <3>2. 1 \in Depth(mut)
      BY <1>1, <2>2, <3>1, EmptySeq DEF TypeInv, Depth
    <3> QED
      BY <1>3, <2>2, <3>1, <3>2
  <2> QED
    BY <1>1, <2>1, <2>2 DEF MutexInv
<1> QED
  BY <1>5, <1>6

LEMMA LockStacks ==
  ASSUME IInv, NEW th \in users, NEW f \in Frame, f.at \in {"ctor", "dtor"},
         f.node \in Nodes, f.node = free_nodes', frames[th] # <<>>,
         Lock(th), Become(th, f), users' = users
  PROVE  StackInv' /\ MutexInv'
<1>1. TypeInv /\ StackInv /\ MutexInv
  BY DEF IInv
<1>2. th \in Threads
  BY <1>1 DEF TypeInv
<1>3. /\ \A t \in Threads \ {th} : frames'[t] = frames[t]
      /\ Len(frames[th]) \in Nat \ {0}
      /\ Len(frames'[th]) = Len(frames[th])
      /\ \A i \in 1 .. Len(frames[th]) - 1 : frames'[th][i] = frames[th][i]
      /\ frames'[th][Len(frames[th])] = f
      /\ frames'[th] # <<>>
  BY <1>1, <1>2, BecomeFrames
<1>4. \A t \in Threads : \A i \in Depth(t) : frames[t][i].at # "ctor" \/ t = th
  BY <1>1, ThreadsAssumption DEF StackInv, MutexInv, Lock, Free
<1>5. StackInv'
  <2> SUFFICES ASSUME NEW t \in Threads, NEW i \in Depth(t)'
               PROVE  /\ t \in users
                      /\ i < Len(frames'[t]) => frames'[t][i].at = "dtor"
                      /\ frames'[t][i].at \in {"ctor", "dtor"} => frames'[t][i].node \in Nodes
                      /\ frames'[t][i].at = "ctor" => frames'[t][i].node = free_nodes'
    BY DEF StackInv
  <2>1. CASE t # th
    BY <1>1, <1>3, <1>4, <2>1 DEF StackInv, Depth
  <2>2. CASE t = th /\ i < Len(frames[th])
    <3>1. i \in Depth(th) /\ i \in 1 .. Len(frames[th]) - 1
      BY <1>3, <2>2 DEF Depth
    <3> QED
      BY <1>1, <1>2, <1>3, <2>2, <3>1 DEF StackInv
  <2>3. CASE t = th /\ i = Len(frames[th])
    BY <1>3, <2>3
  <2> QED
    BY <1>3, <2>1, <2>2, <2>3 DEF Depth
<1>6. MutexInv'
  <2>1. CASE mut = NoMutex
    BY <1>1, <2>1, ThreadsAssumption DEF MutexInv, Lock
  <2>2. CASE mut = NoThread
    <3>1. mut' = th /\ th # NoMutex
      BY <1>2, <2>2, ThreadsAssumption DEF Lock
    <3>2. \A t \in Threads : \A i \in Depth(t) : frames[t][i].at \notin {"ctor", "dtor"}
      BY <1>1, <2>2, ThreadsAssumption DEF MutexInv
    <3>3. Len(frames[th]) = 1
      <4>1. ~(1 < Len(frames[th]))
        BY <1>1, <1>2, <1>3, <3>2 DEF StackInv, Depth
      <4>2. \A l \in Nat \ {0} : l = 1 \/ 1 < l
        OBVIOUS
      <4> QED
        BY <1>3, <4>1, <4>2
    <3>4. ASSUME NEW t \in Threads, NEW i \in Depth(t)', frames'[t][i].at \in {"ctor", "dtor"}
          PROVE  i = 1 /\ th = t /\ frames'[t][i].node = free_nodes'
      <4>1. t = th
        BY <1>3, <3>2, <3>4 DEF Depth
      <4>2. i = 1
        <5>1. i \in 1 .. Len(frames'[th]) /\ Len(frames'[th]) = 1
          BY <1>3, <3>3, <4>1 DEF Depth
        <5> QED
          BY <5>1
      <4> QED
        BY <1>3, <3>3, <4>1, <4>2
    <3> QED
      BY <1>2, <1>3, <3>1, <3>3, <3>4 DEF MutexInv
  <2> QED
    BY <2>1, <2>2 DEF Lock, Free
<1> QED
  BY <1>5, <1>6

LEMMA ReturnStacks ==
  ASSUME IInv, NEW th \in users, frames[th] # <<>>, Return(th), users' = users,
         \/ /\ Free /\ UNCHANGED <<free_nodes, mut>>
         \/ /\ Last(frames[th]).at \in {"ctor", "dtor"} /\ Unlock
            /\ Last(frames[th]).at = "dtor" => free_nodes' = free_nodes
  PROVE  StackInv' /\ MutexInv'
<1>1. TypeInv /\ StackInv /\ MutexInv
  BY DEF IInv
<1>2. th \in Threads
  BY <1>1 DEF TypeInv
<1>3. /\ \A t \in Threads \ {th} : frames'[t] = frames[t]
      /\ Len(frames[th]) \in Nat \ {0}
      /\ Last(frames[th]) = frames[th][Len(frames[th])]
      /\ Len(frames'[th]) = Len(frames[th]) - 1
      /\ \A i \in 1 .. Len(frames[th]) - 1 : frames'[th][i] = frames[th][i]
  BY <1>1, <1>2, ReturnFrames
<1>4. /\ Len(frames[th]) \in Depth(th)
      /\ \A i \in Depth(th)' : i \in Depth(th) /\ i \in 1 .. Len(frames[th]) - 1 /\ i < Len(frames[th])
  BY <1>3 DEF Depth
<1>5. \A t \in Threads : \A i \in Depth(t)' :
        /\ i \in Depth(t)
        /\ frames'[t][i] = frames[t][i]
        /\ i < Len(frames'[t]) => i < Len(frames[t])
        /\ t = th => frames[t][i].at = "dtor"
  <2>1. \A i \in Depth(th)' : frames[th][i].at = "dtor"
    BY <1>1, <1>2, <1>4 DEF StackInv
  <2> QED
    BY <1>2, <1>3, <1>4, <2>1 DEF Depth
<1>6. ASSUME NEW t \in Threads, NEW i \in Depth(t)', frames'[t][i].at = "ctor"
      PROVE  frames'[t][i].node = free_nodes'
  <2>1. t # th /\ i \in Depth(t) /\ frames'[t][i] = frames[t][i]
    BY <1>5, <1>6
  <2>2. t \in users /\ frames[t][i].node = free_nodes
    BY <1>1, <1>6, <2>1 DEF StackInv
  <2>3. CASE Last(frames[th]).at \in {"ctor", "dtor"}
    <3>1. mut # NoMutex => mut = th /\ mut = t
      BY <1>1, <1>2, <1>3, <1>4, <1>6, <2>1, <2>3 DEF MutexInv
    <3> QED
      BY <1>1, <2>1, <2>2, <3>1 DEF MutexInv
  <2>4. CASE free_nodes' = free_nodes
    BY <2>1, <2>2, <2>4
  <2> QED
    BY <2>3, <2>4
<1>7. StackInv'
  BY <1>1, <1>5, <1>6 DEF StackInv
<1>8. MutexInv'
  <2>1. CASE mut = NoMutex
    BY <1>1, <2>1, ThreadsAssumption DEF MutexInv, Unlock, TypeInv
  <2>2. CASE mut = NoThread /\ mut' = NoThread
    <3>1. \A t \in Threads : \A i \in Depth(t) : frames[t][i].at \notin {"ctor", "dtor"}
      BY <1>1, <2>2, ThreadsAssumption DEF MutexInv
    <3> QED
      BY <1>5, <2>2, <3>1, ThreadsAssumption DEF MutexInv
  <2>3. CASE mut \notin {NoMutex, NoThread} /\ Last(frames[th]).at \in {"ctor", "dtor"} /\ Unlock
    <3>1. mut' = NoThread /\ NoThread # NoMutex /\ NoThread \notin Threads
      BY <2>3, ThreadsAssumption DEF Unlock
    <3>2. mut = th /\ Len(frames[th]) = 1
      BY <1>1, <1>2, <1>3, <1>4, <2>3 DEF MutexInv
    <3>3. Depth(th)' = {}
      BY <1>3, <3>2 DEF Depth
    <3>4. \A t \in Threads : \A i \in Depth(t)' : frames'[t][i].at \notin {"ctor", "dtor"}
      <4> SUFFICES ASSUME NEW t \in Threads, NEW i \in Depth(t)', frames'[t][i].at \in {"ctor", "dtor"}
                   PROVE  FALSE
        OBVIOUS
      <4>1. t # th /\ i \in Depth(t) /\ frames[t][i].at \in {"ctor", "dtor"}
        BY <1>5, <3>3
      <4> QED
        BY <1>1, <2>3, <3>2, <4>1 DEF MutexInv
    <3> QED
      BY <3>1, <3>4 DEF MutexInv
  <2>4. mut = NoThread => mut' = NoThread
    BY ThreadsAssumption DEF Unlock
  <2> QED
    BY <2>1, <2>2, <2>3, <2>4 DEF Free
<1> QED
  BY <1>7, <1>8

\* Steps that touch neither the list nor what is taken.
LEMMA KeepList ==
  ASSUME ListInv, UNCHANGED list, \A n \in Nodes : Taken(n)' <=> Taken(n)
  PROVE  ListInv'
<1>1. PICK k \in Nat : \E s \in [1 .. k -> Nodes] : Chain(s, k)
  BY DEF ListInv
<1>2. PICK s \in [1 .. k -> Nodes] : Chain(s, k)
  BY <1>1
<1>3. Chain(s, k)'
  BY <1>2 DEF Chain, list
<1> QED
  BY <1>3 DEF ListInv

\* Steps that do not change what is given back.
LEMMA SameOwners ==
  ASSUME OwnerInv, ListInv, UNCHANGED <<list, owners>>,
         \A t \in Threads : \A n \in Nodes : GivesBack(t, n)' <=> GivesBack(t, n)
  PROVE  OwnerInv' /\ ListInv'
<1>1. OwnerInv'
  BY DEF OwnerInv
<1>2. \A n \in Nodes : Taken(n)' <=> Taken(n)
  BY DEF Taken
<1> QED
  BY <1>1, <1>2, KeepList

\* The head of the free list is a node that nobody has.
LEMMA HeadIsFree ==
  ASSUME IInv, free_nodes # Null
  PROVE  free_nodes \in Nodes /\ ~Taken(free_nodes)
<1>1. free_nodes \in Nodes
  BY DEF IInv, TypeInv
<1>2. PICK k \in Nat : \E s \in [1 .. k -> Nodes] : Chain(s, k)
  BY DEF IInv, ListInv
<1>3. PICK s \in [1 .. k -> Nodes] : Chain(s, k)
  BY <1>2
<1>4. 1 \in 1 .. k /\ s[1] = free_nodes
  BY <1>3 DEF Chain
<1> QED
  BY <1>1, <1>3, <1>4 DEF Chain

\* The head of the list gets an owner and leaves the list.
LEMMA BorrowKeepsList ==
  ASSUME IInv, free_nodes # Null, next' = next, free_nodes' = next[free_nodes],
         \A n \in Nodes : Taken(n)' <=> Taken(n) \/ n = free_nodes
  PROVE  ListInv'
<1>1. PICK k \in Nat : \E s \in [1 .. k -> Nodes] : Chain(s, k)
  BY DEF IInv, ListInv
<1>2. PICK s \in [1 .. k -> Nodes] : Chain(s, k)
  BY <1>1
<1> DEFINE m == k - 1
           r == [i \in 1 .. m |-> s[i + 1]]
<1>3. k # 0 /\ s[1] = free_nodes /\ 1 \in 1 .. k
  BY <1>2 DEF Chain
<1>4. m \in Nat /\ \A i \in 1 .. m : i + 1 \in 1 .. k /\ r[i] = s[i + 1]
  BY <1>3
<1>5. r \in [1 .. m -> Nodes]
  BY <1>4
<1>6. free_nodes' = IF m = 0 THEN Null ELSE r[1]
  BY <1>2, <1>3, <1>4 DEF Chain
<1>7. \A i \in 1 .. m : next'[r[i]] = IF i = m THEN Null ELSE r[i + 1]
  <2> SUFFICES ASSUME NEW i \in 1 .. m PROVE next[r[i]] = IF i = m THEN Null ELSE r[i + 1]
    OBVIOUS
  <2>1. next[s[i + 1]] = IF i + 1 = k THEN Null ELSE s[i + 1 + 1]
    BY <1>2, <1>4 DEF Chain
  <2>2. i # m => i + 1 \in 1 .. m /\ r[i + 1] = s[i + 1 + 1]
    BY <1>4
  <2> QED
    BY <1>4, <2>1, <2>2
<1>8. \A i, j \in 1 .. m : r[i] = r[j] => i = j
  BY <1>2, <1>4 DEF Chain
<1>9. ASSUME NEW n \in Nodes PROVE ~Taken(n)' <=> \E i \in 1 .. m : r[i] = n
  <2>1. CASE n = free_nodes
    <3>1. \A i \in 1 .. m : s[i + 1] # s[1]
      BY <1>2, <1>3, <1>4 DEF Chain
    <3> QED
      BY <1>3, <1>4, <2>1, <3>1
  <2>2. CASE n # free_nodes
    <3>1. ~Taken(n) <=> \E i \in 1 .. k : s[i] = n
      BY <1>2 DEF Chain
    <3>2. \A i \in 1 .. k : s[i] = n => i - 1 \in 1 .. m /\ r[i - 1] = s[i]
      BY <1>3, <1>4, <2>2
    <3>3. (\E i \in 1 .. k : s[i] = n) <=> \E i \in 1 .. m : r[i] = n
      BY <1>4, <3>2
    <3> QED
      BY <2>2, <3>1, <3>3
  <2> QED
    BY <2>1, <2>2
<1> HIDE DEF m, r
<1>10. Chain(r, m)'
  BY <1>6, <1>7, <1>8, <1>9 DEF Chain
<1> QED
  BY <1>4, <1>5, <1>10 DEF ListInv

\* A node that nobody has any more becomes the head of the list.
LEMMA ReturnKeepsList ==
  ASSUME IInv, NEW node \in Nodes, Taken(node), free_nodes' = node,
         next' = [next EXCEPT ![node] = free_nodes],
         \A n \in Nodes : Taken(n)' <=> Taken(n) /\ n # node
  PROVE  ListInv'
<1>1. PICK k \in Nat : \E s \in [1 .. k -> Nodes] : Chain(s, k)
  BY DEF IInv, ListInv
<1>2. PICK s \in [1 .. k -> Nodes] : Chain(s, k)
  BY <1>1
<1> DEFINE m == k + 1
           r == [i \in 1 .. m |-> IF i = 1 THEN node ELSE s[i - 1]]
<1>3. \A i \in 1 .. k : s[i] # node
  BY <1>2 DEF Chain
<1>4. /\ m \in Nat /\ 1 \in 1 .. m /\ r[1] = node
      /\ \A i \in 1 .. m : i # 1 => i - 1 \in 1 .. k /\ r[i] = s[i - 1]
      /\ \A i \in 1 .. k : i + 1 \in 1 .. m /\ i + 1 # 1 /\ r[i + 1] = s[i]
  OBVIOUS
<1>5. r \in [1 .. m -> Nodes]
  BY <1>4
<1>6. free_nodes' = IF m = 0 THEN Null ELSE r[1]
  BY <1>4
<1>7. \A i \in 1 .. m : next'[r[i]] = IF i = m THEN Null ELSE r[i + 1]
  <2> SUFFICES ASSUME NEW i \in 1 .. m PROVE next'[r[i]] = IF i = m THEN Null ELSE r[i + 1]
    OBVIOUS
  <2>1. CASE i = 1
    <3>1. next'[r[1]] = free_nodes
      BY <1>4 DEF IInv, TypeInv
    <3>2. k # 0 => 1 \in 1 .. k /\ r[1 + 1] = s[1]
      BY <1>4
    <3> QED
      BY <1>2, <2>1, <3>1, <3>2 DEF Chain
  <2>2. CASE i # 1
    <3>1. i - 1 \in 1 .. k /\ r[i] = s[i - 1]
      BY <1>4, <2>2
    <3>2. next'[s[i - 1]] = next[s[i - 1]]
      BY <1>3, <3>1 DEF IInv, TypeInv
    <3>3. next[s[i - 1]] = IF i - 1 = k THEN Null ELSE s[i - 1 + 1]
      BY <1>2, <3>1 DEF Chain
    <3>4. i # m => i \in 1 .. k /\ r[i + 1] = s[i]
      BY <1>4
    <3> QED
      BY <3>1, <3>2, <3>3, <3>4
  <2> QED
    BY <2>1, <2>2
<1>8. \A i, j \in 1 .. m : r[i] = r[j] => i = j
  <2> SUFFICES ASSUME NEW i \in 1 .. m, NEW j \in 1 .. m, r[i] = r[j] PROVE i = j
    OBVIOUS
  <2>1. CASE i = 1 \/ j = 1
    BY <1>3, <1>4, <2>1
  <2>2. CASE i # 1 /\ j # 1
    BY <1>2, <1>4, <2>2 DEF Chain
  <2> QED
    BY <2>1, <2>2
<1>9. ASSUME NEW n \in Nodes PROVE ~Taken(n)' <=> \E i \in 1 .. m : r[i] = n
  <2>1. CASE n = node
    BY <1>4, <2>1
  <2>2. CASE n # node
    <3>1. ~Taken(n) <=> \E i \in 1 .. k : s[i] = n
      BY <1>2 DEF Chain
    <3>2. (\E i \in 1 .. k : s[i] = n) <=> \E i \in 1 .. m : r[i] = n
      BY <1>4, <2>2
    <3> QED
      BY <2>2, <3>1, <3>2
  <2> QED
    BY <2>1, <2>2
<1> HIDE DEF m, r
<1>10. Chain(r, m)'
  BY <1>6, <1>7, <1>8, <1>9 DEF Chain
<1> QED
  BY <1>4, <1>5, <1>10 DEF ListInv
-----------------------------------------------------------------------------
\* No node is taken at first, and the list has all of them.
LEMMA InitIInv == Init => IInv
<1> SUFFICES ASSUME Init PROVE IInv
  OBVIOUS
<1>1. \A t \in Threads : frames[t] = <<>> /\ Depth(t) = {}
  BY EmptySeq DEF Init, Depth
<1>2. TypeInv
  <2>1. frames \in [Threads -> Seq(Frame)]
    BY EmptySeq DEF Init
  <2>2. 1 \in Nodes /\ \A n \in Nodes : n < capacity => n + 1 \in Nodes
    BY CapacityAssumption DEF Nodes
  <2>3. next \in [Nodes -> Nodes \cup {Null}]
    BY <2>2 DEF Init
  <2> QED
    BY <2>1, <2>2, <2>3 DEF Init, TypeInv
<1>3. StackInv /\ MutexInv
  BY <1>1, ThreadsAssumption DEF Init, StackInv, MutexInv
<1>4. OwnerInv /\ \A n \in Nodes : ~Taken(n)
  BY <1>1 DEF Init, OwnerInv, Taken, GivesBack
<1>5. ListInv
  <2> DEFINE s == [i \in 1 .. capacity |-> i]
  <2>1. capacity \in Nat /\ capacity # 0 /\ s \in [1 .. capacity -> Nodes]
    BY CapacityAssumption DEF Nodes
  <2>2. Chain(s, capacity)
    BY <1>4, <2>1 DEF Init, Chain, Nodes
  <2> QED
    BY <2>1, <2>2 DEF ListInv
<1> QED
  BY <1>2, <1>3, <1>4, <1>5 DEF IInv

LEMMA CallIInv ==
  ASSUME IInv, ConstructorsStayOut, NEW th \in users, users' = users,
         \/ \E kind \in AllocLabels : CallAlloc(th, kind)
         \/ \E n \in Nodes : CallDealloc(th, n)
         \/ CallDeallocEmpty(th)
  PROVE  IInv'
<1>1. TypeInv /\ OwnerInv /\ ListInv /\ th \in Threads
  BY DEF IInv, TypeInv
<1>2. ASSUME NEW f \in Frame, f.at \notin {"ctor", "dtor"}, \A n \in Nodes : f # At("dealloc", n),
             NEW call, MayCall(th, call), Call(th, f),
             empties' \in Nat, UNCHANGED <<list, stat, mut, owners>>
      PROVE  IInv'
  <2>1. StackInv' /\ MutexInv'
    BY <1>2, CallStacks DEF list
  <2>2. TypeInv'
    BY <1>1, <1>2, CallFrames DEF TypeInv, list
  <2>3. \A t \in Threads : \A n \in Nodes : GivesBack(t, n)' <=> GivesBack(t, n)
    BY <1>1, <1>2, CallGives
  <2> QED
    BY <1>1, <1>2, <2>1, <2>2, <2>3, SameOwners DEF IInv
<1>3. ASSUME NEW kind \in AllocLabels, CallAlloc(th, kind) PROVE IInv'
  <2>1. /\ At(kind, Null) \in Frame
        /\ At(kind, Null).at \notin {"ctor", "dtor"}
        /\ \A n \in Nodes : At(kind, Null) # At("dealloc", n)
    BY DEF At, Frame, AllocLabels
  <2> QED
    BY <1>1, <1>2, <1>3, <2>1 DEF CallAlloc, handles, TypeInv
<1>4. CASE CallDeallocEmpty(th)
  <2>1. /\ At("dealloc", Null) \in Frame
        /\ At("dealloc", Null).at \notin {"ctor", "dtor"}
        /\ \A n \in Nodes : At("dealloc", Null) # At("dealloc", n)
    BY DEF At, Frame, Null, Nodes
  <2>2. empties' \in Nat
    BY <1>1, <1>4 DEF CallDeallocEmpty, TypeInv
  <2> QED
    BY <1>2, <1>4, <2>1, <2>2 DEF CallDeallocEmpty
<1>5. ASSUME NEW node \in Nodes, CallDealloc(th, node) PROVE IInv'
  <2> DEFINE f == At("dealloc", node)
  <2>1. f \in Frame /\ f.at \notin {"ctor", "dtor"} /\ \A n : f = At("dealloc", n) <=> n = node
    BY DEF At, Frame
  <2>2. /\ MayCall(th, "dealloc") /\ Call(th, f) /\ UNCHANGED <<list, stat, mut, empties>>
        /\ owners[node] > 0 /\ owners' = [owners EXCEPT ![node] = @ - 1]
    BY <1>5 DEF CallDealloc
  <2> HIDE DEF f
  <2>3. StackInv' /\ MutexInv'
    BY <2>1, <2>2, CallStacks DEF list
  <2>4. owners[node] = 1 /\ owners'[node] = 0 /\ \A n \in Nodes \ {node} : owners'[n] = owners[n]
    BY <1>1, <2>2 DEF TypeInv
  <2>5. TypeInv'
    <3>1. frames' \in [Threads -> Seq(Frame)]
      BY <1>1, <2>1, <2>2, CallFrames
    <3>2. owners' \in [Nodes -> {0, 1}]
      BY <1>1, <2>2, <2>4 DEF TypeInv
    <3> QED
      BY <1>1, <2>2, <3>1, <3>2 DEF TypeInv, list
  <2>6. /\ \A n \in Nodes : ~GivesBack(th, n)
        /\ \A n \in Nodes : GivesBack(th, n)' <=> n = node
        /\ \A t \in Threads \ {th} : \A n \in Nodes : GivesBack(t, n)' <=> GivesBack(t, n)
    BY <1>1, <2>1, <2>2, CallGives
  <2>7. \A t \in Threads : ~GivesBack(t, node)
    BY <1>1, <2>4 DEF OwnerInv
  <2>8. OwnerInv'
    BY <1>1, <2>4, <2>6, <2>7 DEF OwnerInv
  <2>9. \A n \in Nodes : Taken(n)' <=> Taken(n)
    BY <1>1, <2>4, <2>6, <2>7 DEF Taken
  <2>10. ListInv'
    BY <1>1, <2>2, <2>9, KeepList
  <2> QED
    BY <2>3, <2>5, <2>8, <2>10 DEF IInv
<1> QED
  BY <1>3, <1>4, <1>5

\* A call that fails, takes nullptr back or has destroyed its object returns.
LEMMA ReturnIInv ==
  ASSUME IInv, NEW th \in users, users' = users,
         \/ \E kind \in AllocLabels : BorrowFail(th, kind)
         \/ ReturnFail(th)
         \/ ReturnEnd(th)
  PROVE  IInv'
<1>1. TypeInv /\ OwnerInv /\ ListInv /\ th \in Threads
  BY DEF IInv, TypeInv
<1>2. ASSUME frames[th] # <<>>, \A n \in Nodes : Last(frames[th]) # At("dealloc", n),
             Return(th),
             \/ Free /\ UNCHANGED mut
             \/ Last(frames[th]).at \in {"ctor", "dtor"} /\ Unlock,
             stat' \in [n_alloc_failure : Int, n_dealloc_failure : Int, n_allocated : Int],
             empties' \in Nat, UNCHANGED <<list, owners>>
      PROVE  IInv'
  <2>1. StackInv' /\ MutexInv'
    BY <1>2, ReturnStacks DEF list
  <2>2. TypeInv'
    <3>1. frames' \in [Threads -> Seq(Frame)]
      BY <1>1, <1>2, ReturnFrames
    <3>2. mut' \in Threads \cup {NoThread, NoMutex}
      BY <1>1, <1>2 DEF TypeInv, Unlock
    <3> QED
      BY <1>1, <1>2, <3>1, <3>2 DEF TypeInv, list
  <2>3. \A t \in Threads : \A n \in Nodes : GivesBack(t, n)' <=> GivesBack(t, n)
    <3>1. \A n \in Nodes : ~GivesBack(th, n)
      BY <1>2 DEF GivesBack
    <3> QED
      BY <1>1, <1>2, <3>1, ReturnGives
  <2> QED
    BY <1>1, <1>2, <2>1, <2>2, <2>3, SameOwners DEF IInv
<1>3. ASSUME NEW kind \in AllocLabels, BorrowFail(th, kind) PROVE IInv'
  <2>1. frames[th] # <<>> /\ \A n \in Nodes : Last(frames[th]) # At("dealloc", n)
    BY <1>3 DEF BorrowFail, Fail, Running, AllocLabels, At
  <2>2. stat' \in [n_alloc_failure : Int, n_dealloc_failure : Int, n_allocated : Int]
    <3>1. stat' = [stat EXCEPT !.n_alloc_failure = @ + 1]
      BY <1>3 DEF BorrowFail, Fail
    <3> QED
      BY <1>1, <3>1 DEF TypeInv
  <2>3. empties' \in Nat
    BY <1>1, <1>3 DEF BorrowFail, Fail, TypeInv
  <2> QED
    BY <1>2, <1>3, <2>1, <2>2, <2>3 DEF BorrowFail, Fail
<1>4. CASE ReturnFail(th)
  <2>1. frames[th] # <<>> /\ \A n \in Nodes : Last(frames[th]) # At("dealloc", n)
    BY <1>4 DEF ReturnFail, ReturnNull, Running, NodeOf, At, Nodes, Null
  <2>2. stat' \in [n_alloc_failure : Int, n_dealloc_failure : Int, n_allocated : Int]
    BY <1>1, <1>4 DEF ReturnFail, ReturnNull, TypeInv
  <2> QED
    BY <1>1, <1>2, <1>4, <2>1, <2>2 DEF ReturnFail, ReturnNull, handles, TypeInv
<1>5. CASE ReturnEnd(th)
  <2>1. frames[th] # <<>> /\ \A n \in Nodes : Last(frames[th]) # At("dealloc", n)
    BY <1>5 DEF ReturnEnd, Destroyed, Running, At
  <2>2. stat' \in [n_alloc_failure : Int, n_dealloc_failure : Int, n_allocated : Int]
    <3>1. stat' = [stat EXCEPT !.n_allocated = @ - 1]
      BY <1>5 DEF ReturnEnd, Destroyed
    <3> QED
      BY <1>1, <3>1 DEF TypeInv
  <2> QED
    BY <1>1, <1>2, <1>5, <2>1, <2>2 DEF ReturnEnd, Destroyed, Running, handles, TypeInv
<1> QED
  BY <1>3, <1>4, <1>5

LEMMA BorrowStartIInv ==
  ASSUME IInv, NEW th \in users, users' = users,
         NEW kind \in AllocLabels, BorrowStart(th, kind)
  PROVE  IInv'
<1>1. TypeInv /\ OwnerInv /\ ListInv /\ th \in Threads
  BY DEF IInv, TypeInv
<1> DEFINE f == At("ctor", free_nodes)
<1>2. f \in Frame /\ f.at = "ctor" /\ f.node = free_nodes /\ free_nodes \in Nodes
  BY <1>1 DEF BorrowStart, At, Frame, TypeInv
<1>3. /\ frames[th] # <<>> /\ Last(frames[th]).at = kind
      /\ Lock(th) /\ Become(th, f) /\ UNCHANGED <<list, stat, handles>>
  BY DEF BorrowStart, Running
<1> HIDE DEF f
<1>4. StackInv' /\ MutexInv'
  BY <1>2, <1>3, LockStacks DEF list
<1>5. TypeInv'
  <2>1. frames' \in [Threads -> Seq(Frame)]
    BY <1>1, <1>2, <1>3, BecomeFrames
  <2>2. mut' \in Threads \cup {NoThread, NoMutex}
    BY <1>1, <1>3 DEF Lock, TypeInv
  <2> QED
    BY <1>1, <1>3, <2>1, <2>2 DEF TypeInv, list, handles
<1>6. \A t \in Threads : \A n \in Nodes : GivesBack(t, n)' <=> GivesBack(t, n)
  <2>1. \A n \in Nodes : ~GivesBack(th, n)
    BY <1>3 DEF GivesBack, At, AllocLabels
  <2> QED
    BY <1>1, <1>2, <1>3, <2>1, BecomeGives
<1> QED
  BY <1>1, <1>3, <1>4, <1>5, <1>6, SameOwners DEF IInv, handles

LEMMA BorrowEndIInv ==
  ASSUME IInv, NEW th \in users, users' = users, BorrowEnd(th)
  PROVE  IInv'
<1>1. TypeInv /\ StackInv /\ OwnerInv /\ th \in Threads
  BY DEF IInv, TypeInv
<1>2. /\ frames[th] # <<>> /\ Last(frames[th]).at = "ctor" /\ Return(th) /\ Unlock
      /\ free_nodes # Null /\ free_nodes' = next[free_nodes] /\ UNCHANGED <<next, empties>>
      /\ stat' = [stat EXCEPT !.n_allocated = @ + 1]
      /\ owners' = [owners EXCEPT ![NodeOf(th)] = @ + 1]
  BY DEF BorrowEnd, HandOut, Running
<1>3. NodeOf(th) = free_nodes
  <2>1. Last(frames[th]) = frames[th][Len(frames[th])] /\ Len(frames[th]) \in Depth(th)
    BY <1>1, <1>2, ReturnFrames DEF Depth
  <2> QED
    BY <1>1, <1>2, <2>1 DEF StackInv, NodeOf
<1>4. free_nodes \in Nodes /\ ~Taken(free_nodes)
  BY <1>2, HeadIsFree
<1>5. /\ owners[free_nodes] = 0 /\ owners'[free_nodes] = 1
      /\ \A n \in Nodes \ {free_nodes} : owners'[n] = owners[n]
      /\ owners' \in [Nodes -> {0, 1}]
  BY <1>1, <1>2, <1>3, <1>4 DEF TypeInv, Taken
<1>6. StackInv' /\ MutexInv'
  BY <1>2, ReturnStacks
<1>7. TypeInv'
  <2>1. frames' \in [Threads -> Seq(Frame)]
    BY <1>1, <1>2, ReturnFrames
  <2>2. mut' \in Threads \cup {NoThread, NoMutex}
    BY <1>1, <1>2 DEF Unlock, TypeInv
  <2>3. stat' \in [n_alloc_failure : Int, n_dealloc_failure : Int, n_allocated : Int]
    <3>1. stat' = [stat EXCEPT !.n_allocated = @ + 1]
      BY <1>2
    <3> QED
      BY <1>1, <3>1 DEF TypeInv
  <2> QED
    BY <1>1, <1>2, <1>4, <1>5, <2>1, <2>2, <2>3 DEF TypeInv
<1>8. \A t \in Threads : \A n \in Nodes : GivesBack(t, n)' <=> GivesBack(t, n)
  <2>1. \A n \in Nodes : ~GivesBack(th, n)
    BY <1>2 DEF GivesBack, At
  <2> QED
    BY <1>1, <1>2, <2>1, ReturnGives
<1>9. OwnerInv'
  BY <1>1, <1>4, <1>5, <1>8 DEF OwnerInv, Taken
<1>10. \A n \in Nodes : Taken(n)' <=> Taken(n) \/ n = free_nodes
  BY <1>4, <1>5, <1>8 DEF Taken
<1>11. ListInv'
  BY <1>2, <1>10, BorrowKeepsList
<1> QED
  BY <1>6, <1>7, <1>9, <1>11 DEF IInv

LEMMA ReturnStartIInv ==
  ASSUME IInv, NEW th \in users, users' = users, ReturnStart(th)
  PROVE  IInv'
<1>1. TypeInv /\ OwnerInv /\ th \in Threads
  BY DEF IInv, TypeInv
<1> DEFINE node == NodeOf(th)
           f == At("dtor", node)
<1>2. /\ frames[th] # <<>> /\ Last(frames[th]).at = "dealloc" /\ Lock(th) /\ Become(th, f)
      /\ node # Null /\ free_nodes' = node /\ UNCHANGED <<stat, handles>>
      /\ next' = [next EXCEPT ![node] = free_nodes]
  BY DEF ReturnStart, PutBefore, Running
<1>3. Last(frames[th]) \in Frame
  BY <1>1, <1>2, BecomeFrames, Pop DEF TypeInv
<1>4. node \in Nodes /\ GivesBack(th, node)
  BY <1>2, <1>3 DEF Frame, NodeOf, GivesBack, At
<1>5. f \in Frame /\ f.at = "dtor" /\ f.node = node
  BY <1>4 DEF At, Frame
<1>6. \A n \in Nodes : GivesBack(th, n) <=> n = node
  BY <1>2, <1>4 DEF GivesBack, At
<1> HIDE DEF f, node
<1>7. StackInv' /\ MutexInv'
  BY <1>2, <1>4, <1>5, LockStacks
<1>8. TypeInv'
  <2>1. frames' \in [Threads -> Seq(Frame)]
    BY <1>1, <1>2, <1>5, BecomeFrames
  <2>2. mut' \in Threads \cup {NoThread, NoMutex}
    BY <1>1, <1>2 DEF Lock, TypeInv
  <2> QED
    BY <1>1, <1>2, <1>4, <2>1, <2>2 DEF TypeInv, handles
<1>9. /\ \A n \in Nodes : ~GivesBack(th, n)'
      /\ \A t \in Threads \ {th} : \A n \in Nodes : GivesBack(t, n)' <=> GivesBack(t, n)
  BY <1>1, <1>2, <1>5, BecomeGives
<1>10. OwnerInv'
  BY <1>1, <1>2, <1>9 DEF OwnerInv, handles
<1>11. owners[node] = 0 /\ \A t \in Threads \ {th} : ~GivesBack(t, node)
  BY <1>1, <1>4 DEF OwnerInv
<1>12. \A n \in Nodes : Taken(n)' <=> Taken(n) /\ n # node
  BY <1>1, <1>2, <1>6, <1>9, <1>11 DEF Taken, handles
<1>13. ListInv'
  BY <1>1, <1>2, <1>4, <1>12, ReturnKeepsList DEF Taken
<1> QED
  BY <1>7, <1>8, <1>10, <1>13 DEF IInv

LEMMA NextIInv == IInv /\ ConstructorsStayOut /\ [Next]_vars => IInv'
<1> SUFFICES ASSUME IInv, ConstructorsStayOut, [Next]_vars PROVE IInv'
  OBVIOUS
<1>1. CASE UNCHANGED vars
  <2>1. StackInv' /\ MutexInv'
    BY <1>1 DEF IInv, StackInv, MutexInv, Depth, vars, list
  <2>2. TypeInv'
    BY <1>1 DEF IInv, TypeInv, vars, list, handles
  <2> QED
    BY <1>1, <2>1, <2>2, SameOwners DEF IInv, GivesBack, vars, handles
<1>2. CASE Next
  BY <1>2, CallIInv, ReturnIInv, BorrowStartIInv, BorrowEndIInv, ReturnStartIInv DEF Next
<1> QED
  BY <1>1, <1>2

LEMMA SpecIInv ==
  ASSUME ConstructorsStayOut PROVE Spec => []IInv
<1>1. IInv /\ [Next]_vars => IInv'
  BY NextIInv
<1> QED
  BY <1>1, InitIInv, PTL DEF Spec
-----------------------------------------------------------------------------
\* With a mutex there is at most one destructor, in the first free node.
LEMMA LockedDying == IInv /\ mut # NoMutex => DyingAlone
<1> SUFFICES ASSUME IInv, mut # NoMutex PROVE DyingAlone
  OBVIOUS
<1>1. /\ \A t \in Threads : \A i \in Depth(t) :
           frames[t][i].at \in {"ctor", "dtor"} =>
             /\ i = 1 /\ mut = t
             /\ frames[t][i].node = free_nodes /\ frames[t][i].node \in Nodes
  BY DEF IInv, StackInv, MutexInv
<1>2. free_nodes \in Nodes => ~Taken(free_nodes)
  BY HeadIsFree DEF Nodes, Null
<1> QED
  BY <1>1, <1>2 DEF DyingAlone

\* Steps that start no constructor and no destructor, and hand nothing out.
LEMMA KeepDying ==
  ASSUME StackInv, DyingAlone, \A n \in Nodes : Taken(n)' => Taken(n),
         \A t \in Threads : \A i \in Depth(t)' :
           frames'[t][i].at \in {"ctor", "dtor"} =>
             i \in Depth(t) /\ frames'[t][i] = frames[t][i]
  PROVE  DyingAlone'
<1>1. \A t \in Threads : \A i \in Depth(t)' :
        frames'[t][i].at = "ctor" => i = 1
  BY DEF DyingAlone
<1>2. \A t \in Threads : \A i \in Depth(t)' :
        frames'[t][i].at = "dtor" => ~Taken(frames[t][i].node)'
  BY DEF DyingAlone, StackInv
<1>3. \A t, u \in Threads : \A i \in Depth(t)', j \in Depth(u)' :
        /\ frames'[t][i].at = "dtor" /\ frames'[u][j].at = "dtor"
        /\ frames'[t][i].node = frames'[u][j].node
        => t = u /\ i = j
  BY DEF DyingAlone
<1> QED
  BY <1>1, <1>2, <1>3 DEF DyingAlone

LEMMA CallDying ==
  ASSUME IInv, ConstructorsStayOut, DyingAlone, NEW th \in users,
         \/ \E kind \in AllocLabels : CallAlloc(th, kind)
         \/ \E n \in Nodes : CallDealloc(th, n)
         \/ CallDeallocEmpty(th)
  PROVE  DyingAlone'
<1>1. TypeInv /\ StackInv /\ OwnerInv /\ th \in Threads
  BY DEF IInv, TypeInv
<1>2. ASSUME NEW f \in Frame, f.at \notin {"ctor", "dtor"}, Call(th, f)
      PROVE  \A t \in Threads : \A i \in Depth(t)' :
               frames'[t][i].at \in {"ctor", "dtor"} =>
                 i \in Depth(t) /\ frames'[t][i] = frames[t][i]
  <2>1. /\ \A t \in Threads \ {th} : frames'[t] = frames[t]
        /\ Len(frames[th]) \in Nat
        /\ Len(frames'[th]) = Len(frames[th]) + 1
        /\ \A i \in Depth(th) : frames'[th][i] = frames[th][i]
        /\ frames'[th][Len(frames[th]) + 1] = f
    BY <1>1, <1>2, CallFrames
  <2>2. \A i \in Depth(th)' : i \in Depth(th) \/ i = Len(frames[th]) + 1
    BY <2>1 DEF Depth
  <2> QED
    BY <1>2, <2>1, <2>2 DEF Depth
<1>3. ASSUME NEW kind \in AllocLabels, CallAlloc(th, kind) PROVE DyingAlone'
  <2> DEFINE f == At(kind, Null)
  <2>1. f \in Frame /\ f.at \notin {"ctor", "dtor"} /\ \A n : f # At("dealloc", n)
    BY DEF At, Frame, AllocLabels
  <2>2. MayCall(th, "alloc") /\ Call(th, f) /\ owners' = owners
    BY <1>3 DEF CallAlloc, handles
  <2> HIDE DEF f
  <2>3. \A t \in Threads : \A n \in Nodes : GivesBack(t, n)' <=> GivesBack(t, n)
    BY <1>1, <2>1, <2>2, CallGives
  <2>4. \A n \in Nodes : Taken(n)' => Taken(n)
    BY <2>2, <2>3 DEF Taken
  <2> QED
    BY <1>1, <1>2, <2>1, <2>2, <2>4, KeepDying
<1>4. CASE CallDeallocEmpty(th)
  <2> DEFINE f == At("dealloc", Null)
  <2>1. f \in Frame /\ f.at \notin {"ctor", "dtor"} /\ \A n \in Nodes : f # At("dealloc", n)
    BY DEF At, Frame, Nodes, Null
  <2>2. MayCall(th, "dealloc") /\ Call(th, f) /\ owners' = owners
    BY <1>4 DEF CallDeallocEmpty
  <2> HIDE DEF f
  <2>3. \A t \in Threads : \A n \in Nodes : GivesBack(t, n)' <=> GivesBack(t, n)
    BY <1>1, <2>1, <2>2, CallGives
  <2>4. \A n \in Nodes : Taken(n)' => Taken(n)
    BY <2>2, <2>3 DEF Taken
  <2> QED
    BY <1>1, <1>2, <2>1, <2>2, <2>4, KeepDying
<1>5. ASSUME NEW node \in Nodes, CallDealloc(th, node) PROVE DyingAlone'
  <2> DEFINE f == At("dealloc", node)
  <2>1. f \in Frame /\ f.at \notin {"ctor", "dtor"} /\ \A n : f = At("dealloc", n) <=> n = node
    BY DEF At, Frame, Nodes, Null
  <2>2. /\ MayCall(th, "dealloc") /\ Call(th, f)
        /\ owners[node] > 0 /\ owners' = [owners EXCEPT ![node] = @ - 1]
    BY <1>5 DEF CallDealloc
  <2> HIDE DEF f
  <2>3. owners[node] = 1 /\ \A n \in Nodes \ {node} : owners'[n] = owners[n]
    BY <1>1, <2>2 DEF TypeInv
  <2>4. /\ \A n \in Nodes : GivesBack(th, n)' <=> n = node
        /\ \A t \in Threads \ {th} : \A n \in Nodes : GivesBack(t, n)' <=> GivesBack(t, n)
    BY <1>1, <2>1, <2>2, CallGives
  <2>5. \A n \in Nodes : Taken(n)' => Taken(n)
    BY <1>1, <2>3, <2>4 DEF Taken
  <2> QED
    BY <1>1, <1>2, <2>1, <2>2, <2>5, KeepDying
<1> QED
  BY <1>3, <1>4, <1>5

LEMMA ReturnDying ==
  ASSUME IInv, DyingAlone, NEW th \in users,
         \/ \E kind \in AllocLabels : BorrowFail(th, kind)
         \/ ReturnFail(th)
         \/ ReturnEnd(th)
  PROVE  DyingAlone'
<1>1. TypeInv /\ StackInv /\ th \in Threads
  BY DEF IInv, TypeInv
<1>2. /\ frames[th] # <<>> /\ Return(th) /\ owners' = owners
      /\ \A n \in Nodes : ~GivesBack(th, n)
  <2>1. frames[th] # <<>> /\ Return(th) /\ owners' = owners
    BY DEF BorrowFail, Fail, ReturnFail, ReturnNull, ReturnEnd, Destroyed, Running, handles
  <2>2. \A n \in Nodes : Last(frames[th]) # At("dealloc", n)
    BY DEF BorrowFail, Fail, ReturnFail, ReturnNull, ReturnEnd, Destroyed,
       Running, NodeOf, At, AllocLabels, Nodes, Null
  <2> QED
    BY <2>1, <2>2 DEF GivesBack
<1>3. \A n \in Nodes : Taken(n)' => Taken(n)
  BY <1>1, <1>2, ReturnGives DEF Taken
<1>4. /\ \A t \in Threads \ {th} : frames'[t] = frames[t]
      /\ Len(frames[th]) \in Nat \ {0}
      /\ Len(frames'[th]) = Len(frames[th]) - 1
      /\ \A i \in 1 .. Len(frames[th]) - 1 : frames'[th][i] = frames[th][i]
  BY <1>1, <1>2, ReturnFrames
<1>5. \A t \in Threads : \A i \in Depth(t)' : i \in Depth(t) /\ frames'[t][i] = frames[t][i]
  BY <1>4 DEF Depth
<1> QED
  BY <1>1, <1>3, <1>5, KeepDying

\* A constructor that starts outside any other call leaves the rest alone.
LEMMA BorrowStartDying ==
  ASSUME IInv, DyingAlone, NEW th \in users, NEW kind \in AllocLabels,
         BorrowStart(th, kind), ~NestedBorrow(th)'
  PROVE  DyingAlone'
<1>1. TypeInv /\ StackInv /\ th \in Threads
  BY DEF IInv, TypeInv
<1> DEFINE f == At("ctor", free_nodes)
<1>2. f \in Frame /\ f.at = "ctor"
  BY <1>1 DEF At, Frame, TypeInv
<1>3. /\ frames[th] # <<>> /\ Last(frames[th]).at = kind
      /\ Become(th, f) /\ owners' = owners
  BY DEF BorrowStart, Running, handles
<1> HIDE DEF f
<1>4. /\ \A t \in Threads \ {th} : frames'[t] = frames[t]
      /\ Len(frames[th]) \in Nat \ {0}
      /\ Len(frames'[th]) = Len(frames[th])
      /\ \A i \in 1 .. Len(frames[th]) - 1 : frames'[th][i] = frames[th][i]
      /\ frames'[th][Len(frames[th])] = f
      /\ frames'[th] # <<>>
      /\ Last(frames'[th]) = f
  BY <1>1, <1>2, <1>3, BecomeFrames
<1>5. Len(frames[th]) = 1
  <2>1. ~(Len(frames'[th]) > 1)
    BY <1>2, <1>4 DEF NestedBorrow, Running
  <2>2. \A l \in Nat \ {0} : l = 1 \/ l > 1
    OBVIOUS
  <2> QED
    BY <1>4, <2>1, <2>2
<1>6. \A n \in Nodes : Taken(n)' => Taken(n)
  BY <1>1, <1>2, <1>3, BecomeGives DEF Taken
<1>7. \A t \in Threads : \A i \in Depth(t)' :
        \/ t = th /\ i = 1 /\ frames'[t][i].at = "ctor"
        \/ t # th /\ i \in Depth(t) /\ frames'[t][i] = frames[t][i]
  <2>1. Depth(th)' = {1} /\ frames'[th][1].at = "ctor"
    BY <1>2, <1>4, <1>5 DEF Depth
  <2>2. \A t \in Threads \ {th} : Depth(t)' = Depth(t)
    BY <1>4 DEF Depth
  <2> QED
    BY <1>4, <2>1, <2>2
<1>8. \A t \in Threads : \A i \in Depth(t)' :
        frames'[t][i].at = "ctor" => i = 1
  BY <1>7 DEF DyingAlone
<1>9. \A t \in Threads : \A i \in Depth(t)' :
        frames'[t][i].at = "dtor" => ~Taken(frames[t][i].node)'
  BY <1>1, <1>6, <1>7 DEF DyingAlone, StackInv
<1>10. \A t, u \in Threads : \A i \in Depth(t)', j \in Depth(u)' :
        /\ frames'[t][i].at = "dtor" /\ frames'[u][j].at = "dtor"
        /\ frames'[t][i].node = frames'[u][j].node
        => t = u /\ i = j
  BY <1>7 DEF DyingAlone
<1> QED
  BY <1>8, <1>9, <1>10 DEF DyingAlone

\* With one user, the pool is idle after a constructor outside any other call.
LEMMA BorrowEndDying ==
  ASSUME IInv, DyingAlone, NEW th \in users, BorrowEnd(th)
  PROVE  frames'[th] = <<>>
<1>1. TypeInv /\ th \in Threads
  BY DEF IInv, TypeInv
<1>2. frames[th] # <<>> /\ Last(frames[th]).at = "ctor" /\ Return(th)
  BY DEF BorrowEnd, HandOut, Running
<1>3. /\ Len(frames[th]) \in Nat \ {0}
      /\ Last(frames[th]) = frames[th][Len(frames[th])]
      /\ frames'[th] # <<>> <=> Len(frames[th]) > 1
  BY <1>1, <1>2, ReturnFrames
<1>4. Len(frames[th]) = 1
  <2>1. Len(frames[th]) \in Depth(th)
    BY <1>3 DEF Depth
  <2> QED
    BY <1>1, <1>2, <1>3, <2>1 DEF DyingAlone
<1> QED
  BY <1>3, <1>4

\* What is destroyed was taken, and is not any more.
LEMMA ReturnStartDying ==
  ASSUME IInv, DyingAlone, NEW th \in users, ReturnStart(th)
  PROVE  DyingAlone'
<1>1. TypeInv /\ StackInv /\ OwnerInv /\ th \in Threads
  BY DEF IInv, TypeInv
<1> DEFINE node == NodeOf(th)
           f == At("dtor", node)
<1>2. /\ frames[th] # <<>> /\ Last(frames[th]).at = "dealloc" /\ Become(th, f)
      /\ node # Null /\ owners' = owners
  BY DEF ReturnStart, PutBefore, Running, handles
<1>3. Last(frames[th]) \in Frame
  BY <1>1, <1>2, Pop DEF TypeInv
<1>4. node \in Nodes /\ \A n \in Nodes : GivesBack(th, n) <=> n = node
  BY <1>2, <1>3 DEF Frame, NodeOf, GivesBack, At
<1>5. f \in Frame /\ f.at = "dtor" /\ f.node = node
  BY <1>4 DEF At, Frame
<1> HIDE DEF f, node
<1>6. /\ \A n \in Nodes : ~GivesBack(th, n)'
      /\ \A t \in Threads \ {th} : \A n \in Nodes : GivesBack(t, n)' <=> GivesBack(t, n)
  BY <1>1, <1>2, <1>5, BecomeGives
<1>7. owners[node] = 0 /\ \A t \in Threads \ {th} : ~GivesBack(t, node)
  BY <1>1, <1>4 DEF OwnerInv
<1>8. /\ Taken(node)
      /\ \A n \in Nodes : Taken(n)' <=> Taken(n) /\ n # node
  BY <1>1, <1>2, <1>4, <1>6, <1>7 DEF Taken
<1>9. /\ \A t \in Threads \ {th} : frames'[t] = frames[t]
      /\ Len(frames[th]) \in Nat \ {0}
      /\ Len(frames'[th]) = Len(frames[th])
      /\ \A i \in 1 .. Len(frames[th]) - 1 : frames'[th][i] = frames[th][i]
      /\ frames'[th][Len(frames[th])] = f
  BY <1>1, <1>2, <1>5, BecomeFrames
<1>10. \A t \in Threads : \A i \in Depth(t)' :
         /\ i \in Depth(t)
         /\ \/ t = th /\ i = Len(frames[th]) /\ frames'[t][i] = f
            \/ frames'[t][i] = frames[t][i]
  BY <1>9 DEF Depth
<1>11. \A t \in Threads : \A i \in Depth(t)' :
         frames'[t][i].at = "ctor" => i = 1
  BY <1>5, <1>10 DEF DyingAlone
<1>12. \A t \in Threads : \A i \in Depth(t) :
         frames[t][i].at = "dtor" =>
           /\ frames[t][i].node \in Nodes /\ frames[t][i].node # node
           /\ ~Taken(frames[t][i].node)
  BY <1>1, <1>8 DEF DyingAlone, StackInv
<1>13. \A t \in Threads : \A i \in Depth(t)' :
         frames'[t][i].at = "dtor" => ~Taken(frames[t][i].node)'
  BY <1>4, <1>5, <1>8, <1>10, <1>12
<1>14. \A t, u \in Threads : \A i \in Depth(t)', j \in Depth(u)' :
         /\ frames'[t][i].at = "dtor" /\ frames'[u][j].at = "dtor"
         /\ frames'[t][i].node = frames'[u][j].node
         => t = u /\ i = j
  BY <1>5, <1>10, <1>12 DEF DyingAlone
<1> QED
  BY <1>11, <1>13, <1>14 DEF DyingAlone

LEMMA NextDying == IInv /\ DyingInv /\ ConstructorsStayOut /\ [Next]_vars => DyingInv'
<1> SUFFICES ASSUME IInv, DyingInv, ConstructorsStayOut, [Next]_vars PROVE DyingInv'
  OBVIOUS
<1>1. CASE UNCHANGED vars
  BY <1>1 DEF DyingInv, DyingAlone, Depth, Taken, GivesBack, vars, handles
<1>2. CASE Next
  <2>1. IInv'
    BY NextIInv
  <2>2. /\ users' = users
        /\ nested_borrow' = (/\ nested_borrow \/ \E th \in users : NestedBorrow(th)'
                             /\ \E th \in users : Busy(th)')
    BY <1>2 DEF Next
  <2> SUFFICES ASSUME ~nested_borrow' PROVE DyingAlone'
    BY <2>2 DEF DyingInv
  <2>3. CASE mut' # NoMutex
    <3>1. (IInv /\ mut # NoMutex => DyingAlone)'
      BY LockedDying, PTL
    <3> QED
      BY <2>1, <2>3, <3>1
  <2>4. ASSUME \A th \in users : frames'[th] = <<>> PROVE DyingAlone'
    <3>1. \A t \in Threads : Depth(t)' = {}
      <4>1. \A t \in Threads : \A i \in Depth(t)' : t \in users
        BY <2>1, <2>2 DEF IInv, StackInv
      <4>2. \A t \in users : Depth(t)' = {}
        BY <2>4, EmptySeq DEF Depth
      <4> QED
        BY <4>1, <4>2
    <3> QED
      BY <3>1 DEF DyingAlone
  <2>5. CASE mut' = NoMutex /\ \E th \in users : Busy(th)'
    <3>1. DyingAlone /\ \A th \in users : ~NestedBorrow(th)'
      BY <2>2, <2>5 DEF DyingInv
    <3>2. \A t, u \in users : t = u
      BY <2>1, <2>2, <2>5 DEF IInv, MutexInv
    <3>3. PICK th \in users :
            \/ \E kind \in AllocLabels :
                 CallAlloc(th, kind) \/ BorrowFail(th, kind) \/ BorrowStart(th, kind)
            \/ \E n \in Nodes : CallDealloc(th, n)
            \/ CallDeallocEmpty(th)
            \/ BorrowEnd(th)
            \/ ReturnFail(th) \/ ReturnStart(th) \/ ReturnEnd(th)
      BY <1>2 DEF Next
    <3>4. CASE \/ \E kind \in AllocLabels : CallAlloc(th, kind)
               \/ \E n \in Nodes : CallDealloc(th, n)
               \/ CallDeallocEmpty(th)
      BY <3>1, <3>4, CallDying
    <3>5. CASE \/ \E kind \in AllocLabels : BorrowFail(th, kind)
               \/ ReturnFail(th) \/ ReturnEnd(th)
      BY <3>1, <3>5, ReturnDying
    <3>6. CASE \E kind \in AllocLabels : BorrowStart(th, kind)
      BY <3>1, <3>6, BorrowStartDying
    <3>7. CASE BorrowEnd(th)
      <4>1. frames'[th] = <<>>
        BY <3>1, <3>7, BorrowEndDying
      <4> QED
        BY <2>4, <3>2, <4>1
    <3>8. CASE ReturnStart(th)
      BY <3>1, <3>8, ReturnStartDying
    <3> QED
      BY <3>3, <3>4, <3>5, <3>6, <3>7, <3>8
  <2> QED
    BY <2>3, <2>4, <2>5 DEF Busy
<1> QED
  BY <1>1, <1>2

LEMMA SpecDying ==
  ASSUME ConstructorsStayOut PROVE Spec => [](IInv /\ DyingInv)
<1>1. Init => DyingInv
  <2> SUFFICES ASSUME Init PROVE DyingInv
    OBVIOUS
  <2>1. \A t \in Threads : Depth(t) = {}
    BY EmptySeq DEF Init, Depth
  <2> QED
    BY <2>1 DEF Init, DyingInv, DyingAlone
<1>2. IInv /\ DyingInv /\ [Next]_vars => IInv' /\ DyingInv'
  BY NextIInv, NextDying
<1> QED
  BY <1>1, <1>2, InitIInv, PTL DEF Spec
-----------------------------------------------------------------------------
\* Only the innermost call of a thread gives something back.
LEMMA TakenIsInUse ==
  ASSUME IInv, NEW n \in Nodes
  PROVE  InUse(n) <=> Taken(n)
<1>1. ASSUME NEW t \in Threads
      PROVE  At("dealloc", n) \in Range(frames[t]) <=> GivesBack(t, n)
  <2>1. frames[t] \in Seq(Frame)
    BY DEF IInv, TypeInv
  <2>2. DOMAIN frames[t] = Depth(t)
    BY <2>1, LenProperties DEF Depth
  <2>3. frames[t] # <<>> => Len(frames[t]) \in Depth(t)
    BY <2>1, EmptySeq DEF Depth
  <2>4. ASSUME At("dealloc", n) \in Range(frames[t]) PROVE GivesBack(t, n)
    BY <2>2, <2>4, OnlyTopsGiveBack DEF Range
  <2>5. ASSUME GivesBack(t, n) PROVE At("dealloc", n) \in Range(frames[t])
    BY <2>2, <2>3, <2>5 DEF GivesBack, Range, Last
  <2> QED
    BY <2>4, <2>5
<1>2. owners[n] > 0 <=> owners[n] = 1
  BY DEF IInv, TypeInv
<1> QED
  BY <1>1, <1>2 DEF InUse, Taken

\* The free list is intact (FreeListIntact: borrow_item() and return_item()
\* relink it while other threads, and destructors, do the same).
THEOREM ListIsIntact ==
  ASSUME ConstructorsStayOut PROVE Spec => []FreeListIntact
<1>1. IInv => FreeListIntact
  <2> SUFFICES ASSUME IInv PROVE FreeListIntact
    OBVIOUS
  <2>1. PICK k \in Nat : \E s \in [1 .. k -> Nodes] : Chain(s, k)
    BY DEF IInv, ListInv
  <2>2. PICK s \in [1 .. k -> Nodes] : Chain(s, k)
    BY <2>1
  <2>3. s \in Seq(Nodes) /\ DOMAIN s = 1 .. k
    BY SeqDef
  <2>4. Len(s) = k /\ (s = <<>> <=> k = 0)
    <3>1. Len(s) \in Nat /\ 1 .. Len(s) = 1 .. k
      BY <2>3, LenProperties
    <3>2. Len(s) = k
      BY <3>1
    <3> QED
      BY <2>3, <3>2, EmptySeq
  <2>5. IsFreeList(s)
    BY <2>2, <2>3, <2>4 DEF IsFreeList, Chain
  <2>6. IsInjective(s)
    BY <2>2, <2>3 DEF IsInjective, Chain
  <2>7. Range(s) = {n \in Nodes : ~InUse(n)}
    BY <2>2, <2>3, TakenIsInUse DEF Range, Chain
  <2>8. k <= capacity
    <3>1. IsFiniteSet(Nodes) /\ Cardinality(Nodes) = capacity
      BY CapacityAssumption, FS_Interval DEF Nodes
    <3>2. s \in Injection(1 .. k, Nodes)
      BY <2>6 DEF Injection
    <3>3. Cardinality(1 .. k) <= Cardinality(Nodes)
      BY <3>1, <3>2, FS_Injection
    <3>4. Cardinality(1 .. k) = k
      BY FS_Interval
    <3> QED
      BY <3>1, <3>3, <3>4
  <2>9. s \in UNION {[1 .. j -> Nodes] : j \in 0 .. capacity}
    BY <2>8, CapacityAssumption
  <2> QED
    BY <2>5, <2>6, <2>7, <2>9 DEF FreeListIntact
<1> QED
  BY <1>1, SpecIInv, PTL

\* Two calls on a node are one.
LEMMA OneCallPerNode ==
  ASSUME IInv, NEW n \in Nodes, NEW labels,
         \/ labels = {"ctor", "dealloc"}
         \/ labels = {"ctor", "dealloc", "dtor"} /\ DyingAlone
  PROVE  /\ \A x, y \in CallsOn(n, labels) : x = y
         /\ CallsOn(n, labels) # {} => owners[n] = 0
<1>1. TypeInv /\ StackInv /\ MutexInv /\ OwnerInv
  BY DEF IInv
<1> DEFINE frame(x) == frames[x[1]][x[2]]
<1>2. ASSUME NEW x \in CallsOn(n, labels)
      PROVE  /\ x = <<x[1], x[2]>> /\ x[1] \in users /\ x[1] \in Threads
             /\ x[2] \in Depth(x[1]) /\ Len(frames[x[1]]) \in Nat
             /\ frame(x).node = n
             /\ \/ GivesBack(x[1], n) /\ x[2] = Len(frames[x[1]])
                \/ frame(x).at = "ctor" /\ n = free_nodes /\ x[2] = Len(frames[x[1]])
                \/ frame(x).at = "dtor" /\ DyingAlone
  <2>1. /\ x = <<x[1], x[2]>> /\ x[1] \in Threads /\ x[2] \in 1 .. MaxDepth
        /\ x[2] <= Len(frames[x[1]]) /\ frame(x).node = n
        /\ frame(x).at \in labels
    BY <1>2 DEF CallsOn, CallsAt
  <2>2. frames[x[1]] \in Seq(Frame) /\ Len(frames[x[1]]) \in Nat
    BY <1>1, <2>1, LenProperties DEF TypeInv
  <2>3. x[2] \in Depth(x[1]) /\ frame(x) \in Frame
    BY <2>1, <2>2, ElementOfSeq DEF Depth
  <2>4. x[1] \in users
    BY <1>1, <2>1, <2>3 DEF StackInv
  <2>5. frame(x).at \in {"dealloc", "ctor"} => x[2] = Len(frames[x[1]])
    <3>1. frame(x).at \in {"dealloc", "ctor"} => ~(x[2] < Len(frames[x[1]]))
      BY <1>1, <2>1, <2>3 DEF StackInv
    <3> QED
      BY <2>2, <2>3, <3>1 DEF Depth
  <2>6. frame(x).at = "dealloc" => GivesBack(x[1], n)
    <3>1. frame(x).at = "dealloc" => frame(x) = At("dealloc", n)
      BY <2>1, <2>3 DEF Frame, At
    <3> QED
      BY <2>1, <2>3, <3>1, OnlyTopsGiveBack
  <2>7. frame(x).at = "ctor" => n = free_nodes
    BY <1>1, <2>1, <2>3 DEF StackInv
  <2> QED
    BY <2>1, <2>2, <2>3, <2>4, <2>5, <2>6, <2>7
<1>3. n = free_nodes => ~Taken(n)
  BY HeadIsFree DEF Nodes, Null
<1>4. ASSUME NEW x \in CallsOn(n, labels), ~GivesBack(x[1], n) PROVE ~Taken(n)
  <2>1. CASE frame(x).at = "ctor"
    BY <1>2, <1>3, <1>4, <2>1
  <2>2. CASE frame(x).at = "dtor"
    BY <1>2, <1>4, <2>2 DEF DyingAlone
  <2> QED
    BY <1>2, <1>4, <2>1, <2>2
<1>5. CallsOn(n, labels) # {} => owners[n] = 0
  BY <1>1, <1>2, <1>4 DEF OwnerInv, Taken, TypeInv
<1>6. ASSUME NEW x \in CallsOn(n, labels), NEW y \in CallsOn(n, labels) PROVE x = y
  <2>1. CASE GivesBack(x[1], n) \/ GivesBack(y[1], n)
    <3>1. GivesBack(x[1], n) /\ GivesBack(y[1], n)
      BY <1>2, <1>4, <1>6, <2>1 DEF Taken
    <3>2. x[1] = y[1]
      BY <1>1, <1>2, <1>6, <3>1 DEF OwnerInv
    <3>3. Last(frames[x[1]]).at = "dealloc" /\ Last(frames[x[1]]) = frames[x[1]][Len(frames[x[1]])]
      BY <3>1 DEF GivesBack, At, Last
    <3>4. \A z \in CallsOn(n, labels) : z[1] = x[1] => z[2] = Len(frames[x[1]])
      BY <1>2, <1>4, <3>1 DEF DyingAlone, Taken
    <3> QED
      BY <1>2, <1>6, <3>2, <3>4
  <2>2. CASE ~GivesBack(x[1], n) /\ ~GivesBack(y[1], n)
    <3>1. CASE frame(x).at = "ctor" /\ frame(y).at = "ctor"
      <4>1. x[1] = y[1]
        <5>1. CASE mut = NoMutex
          BY <1>1, <1>2, <1>6, <5>1 DEF MutexInv
        <5>2. CASE mut # NoMutex
          <6>1. mut = x[1] /\ mut = y[1]
            BY <1>1, <1>2, <1>6, <3>1, <5>2 DEF MutexInv
          <6> QED
            BY <6>1
        <5> QED
          BY <5>1, <5>2
      <4> QED
        BY <1>2, <1>6, <2>2, <3>1, <4>1
    <3>2. CASE frame(x).at = "dtor" /\ frame(y).at = "dtor"
      <4>1. x[1] = y[1] /\ x[2] = y[2]
        BY <1>2, <1>6, <2>2, <3>2 DEF DyingAlone
      <4> QED
        BY <1>2, <1>6, <4>1
    <3>3. ASSUME NEW c \in CallsOn(n, labels), NEW d \in CallsOn(n, labels),
                 frame(c).at = "ctor", frame(d).at = "dtor", ~GivesBack(c[1], n), ~GivesBack(d[1], n)
          PROVE  FALSE
      <4>1. c[1] \in Threads /\ c[1] \in users /\ c[2] \in Depth(c[1]) /\ c[2] = Len(frames[c[1]])
            /\ d[1] \in Threads /\ d[1] \in users /\ d[2] \in Depth(d[1]) /\ DyingAlone
            /\ Len(frames[c[1]]) \in Nat
        BY <1>2, <3>3
      <4>2. c[2] = 1
        BY <3>3, <4>1 DEF DyingAlone
      <4>3. c[1] = d[1]
        <5>1. CASE mut = NoMutex
          BY <1>1, <4>1, <5>1 DEF MutexInv
        <5>2. CASE mut # NoMutex
          <6>1. mut = c[1] /\ mut = d[1]
            BY <1>1, <3>3, <4>1, <5>2 DEF MutexInv
          <6> QED
            BY <6>1
        <5> QED
          BY <5>1, <5>2
      <4>4. d[2] = c[2]
        <5>1. d[2] \in 1 .. Len(frames[c[1]]) /\ Len(frames[c[1]]) = 1
          BY <4>1, <4>2, <4>3 DEF Depth
        <5>2. 1 .. 1 = {1}
          OBVIOUS
        <5> QED
          BY <4>2, <5>1, <5>2
      <4> QED
        BY <3>3, <4>3, <4>4
    <3> QED
      BY <1>2, <1>6, <2>2, <3>1, <3>2, <3>3
  <2> QED
    BY <2>1, <2>2
<1> QED
  BY <1>5, <1>6

\* A node has one user, and the node of an object that is being destroyed no
\* other one, as long as no destructor has borrowed (OneUserPerNode: alloc()
\* hands out no node that has an owner or is being worked on).
THEOREM NodesAreNotShared ==
  ASSUME ConstructorsStayOut PROVE Spec => []OneUserPerNode
<1>1. IInv /\ DyingInv => OneUserPerNode
  <2> SUFFICES ASSUME IInv, DyingInv, NEW n \in Nodes
               PROVE  /\ owners[n] + Cardinality(CallsOn(n, {"ctor", "dealloc"})) <= 1
                      /\ ~nested_borrow =>
                           owners[n] + Cardinality(CallsOn(n, {"ctor", "dealloc", "dtor"})) <= 1
    BY DEF OneUserPerNode
  <2>1. owners[n] \in {0, 1}
    BY DEF IInv, TypeInv
  <2>2. ASSUME NEW labels, \A x, y \in CallsOn(n, labels) : x = y,
               CallsOn(n, labels) # {} => owners[n] = 0
        PROVE  owners[n] + Cardinality(CallsOn(n, labels)) <= 1
    <3>1. CASE CallsOn(n, labels) = {}
      BY <2>1, <3>1, FS_EmptySet
    <3>2. CASE CallsOn(n, labels) # {}
      <4>1. PICK x : CallsOn(n, labels) = {x}
        BY <2>2, <3>2
      <4>2. Cardinality(CallsOn(n, labels)) = 1
        BY <4>1, FS_Singleton
      <4> QED
        BY <2>2, <3>2, <4>2
    <3> QED
      BY <3>1, <3>2
  <2> QED
    BY <2>2, OneCallPerNode DEF DyingInv
<1> QED
  BY <1>1, SpecDying, PTL

\* A thread that holds the mutex waits at most for itself (OnlySelfDeadlock:
\* the lock_guards of alloc() and dealloc()).
THEOREM NobodyElseBlocks ==
  ASSUME ConstructorsStayOut PROVE Spec => []OnlySelfDeadlock
<1>1. IInv => OnlySelfDeadlock
  <2> SUFFICES ASSUME IInv, mut \in Threads, ~(Len(frames[mut]) > 1)
               PROVE  Running(mut, "ctor") \/ Running(mut, "dtor")
    BY DEF OnlySelfDeadlock
  <2>1. frames[mut] # <<>> /\ frames[mut][1].at \in {"ctor", "dtor"}
    BY DEF IInv, MutexInv
  <2>2. Len(frames[mut]) \in Nat \ {0}
    BY <2>1, EmptySeq DEF IInv, TypeInv
  <2>3. \A l \in Nat \ {0} : l = 1 \/ l > 1
    OBVIOUS
  <2> QED
    BY <2>1, <2>2, <2>3 DEF Running, Last
<1> QED
  BY <1>1, SpecIInv, PTL

\* An allocation fails only in a full pool (FailsOnlyWhenFull: borrow_item()
\* finds no free node only if there is none).
THEOREM FullPoolsFail ==
  ASSUME ConstructorsStayOut PROVE Spec => FailsOnlyWhenFull
<1>1. ASSUME IInv, [Next]_vars, stat'.n_alloc_failure > stat.n_alloc_failure,
             NEW n \in Nodes
      PROVE  InUse(n)
  <2>1. stat \in [n_alloc_failure : Int, n_dealloc_failure : Int, n_allocated : Int]
    BY <1>1 DEF IInv, TypeInv
  <2>2. stat'.n_alloc_failure # stat.n_alloc_failure
    BY <1>1, <2>1
  <2>3. free_nodes = Null
    <3>1. stat' # stat
      BY <2>2
    <3>2. PICK th \in users :
            \/ \E kind \in AllocLabels : BorrowFail(th, kind)
            \/ BorrowEnd(th) \/ ReturnFail(th) \/ ReturnEnd(th)
      BY <1>1, <3>1
      DEF Next, vars, CallAlloc, CallDealloc, CallDeallocEmpty, BorrowStart, ReturnStart, PutBefore
    <3>3. CASE BorrowEnd(th)
      BY <2>1, <2>2, <3>3 DEF BorrowEnd, HandOut
    <3>4. CASE ReturnFail(th)
      BY <2>1, <2>2, <3>4 DEF ReturnFail, ReturnNull
    <3>5. CASE ReturnEnd(th)
      BY <2>1, <2>2, <3>5 DEF ReturnEnd, Destroyed
    <3> QED
      BY <3>2, <3>3, <3>4, <3>5 DEF BorrowFail
  <2>4. PICK k \in Nat : \E s \in [1 .. k -> Nodes] : Chain(s, k)
    BY <1>1 DEF IInv, ListInv
  <2>5. PICK s \in [1 .. k -> Nodes] : Chain(s, k)
    BY <2>4
  <2>6. k = 0
    <3>1. k # 0 => s[1] \in Nodes
      OBVIOUS
    <3> QED
      BY <2>3, <2>5, <3>1 DEF Chain, Nodes, Null
  <2> QED
    BY <1>1, <2>5, <2>6, TakenIsInUse DEF Chain
<1>2. IInv /\ [Next]_vars =>
        [stat'.n_alloc_failure > stat.n_alloc_failure => \A n \in Nodes : InUse(n)]_vars
  BY <1>1
<1> QED
  BY <1>2, SpecIInv, PTL DEF Spec, FailsOnlyWhenFull
-----------------------------------------------------------------------------
\* The calls in progress whose frame is in F.
Sites(F) ==
  {x \in Threads \X (1 .. MaxDepth) :
     x[2] <= Len(frames[x[1]]) /\ frames[x[1]][x[2]] \in F}

Dying == {f \in Frame : f.at = "dtor"}
Echoes == {At("dealloc", Null)}
Objects == {n \in Nodes : Taken(n)}

\* The counters, with the calls that will still change them.
CountInv ==
  /\ \A t \in Threads : Len(frames[t]) <= MaxDepth
  /\ stat \in [n_alloc_failure : Nat, n_dealloc_failure : Nat, n_allocated : Int]
  /\ stat.n_allocated = Cardinality(Objects) + Cardinality(Sites(Dying))
  /\ stat.n_dealloc_failure + empties + Cardinality(Sites(Echoes)) <= stat.n_alloc_failure

LEMMA FiniteSites ==
  ASSUME NEW F
  PROVE  IsFiniteSet(Sites(F)) /\ Cardinality(Sites(F)) \in Nat
<1>1. IsFiniteSet(1 .. MaxDepth)
  BY FiniteAssumption, FS_Interval
<1>2. IsFiniteSet(Threads \X (1 .. MaxDepth))
  BY <1>1, FiniteAssumption, FS_Product
<1>3. Sites(F) \in SUBSET (Threads \X (1 .. MaxDepth))
  BY DEF Sites
<1>4. IsFiniteSet(Sites(F))
  BY <1>2, <1>3, FS_Subset
<1> QED
  BY <1>4, FS_CardinalityType

LEMMA FiniteObjects == IsFiniteSet(Objects) /\ Cardinality(Objects) \in Nat
<1>1. IsFiniteSet(Nodes)
  BY CapacityAssumption, FS_Interval DEF Nodes
<1>2. Objects \in SUBSET Nodes
  BY DEF Objects
<1>3. IsFiniteSet(Objects)
  BY <1>1, <1>2, FS_Subset
<1> QED
  BY <1>3, FS_CardinalityType

\* A call adds a site, a return removes the innermost one.
LEMMA CallSites ==
  ASSUME TypeInv, NEW th \in Threads, NEW f \in Frame, NEW call, MayCall(th, call), Call(th, f),
         NEW F
  PROVE  /\ Len(frames'[th]) <= MaxDepth
         /\ Cardinality(Sites(F))' = Cardinality(Sites(F)) + IF f \in F THEN 1 ELSE 0
<1> DEFINE x == <<th, Len(frames[th]) + 1>>
<1>1. /\ \A t \in Threads \ {th} : frames'[t] = frames[t]
      /\ Len(frames[th]) \in Nat
      /\ Len(frames'[th]) = Len(frames[th]) + 1
      /\ \A i \in Depth(th) : frames'[th][i] = frames[th][i]
      /\ frames'[th][Len(frames[th]) + 1] = f
  BY CallFrames
<1>2. Len(frames[th]) < MaxDepth
  BY DEF MayCall
<1>3. Len(frames[th]) + 1 \in 1 .. MaxDepth
  BY <1>1, <1>2, FiniteAssumption
<1>4. ASSUME NEW t \in Threads, NEW i \in 1 .. MaxDepth
      PROVE  <<t, i>> \in Sites(F)' <=> <<t, i>> \in Sites(F) \/ (<<t, i>> = x /\ f \in F)
  <2>1. CASE t # th
    BY <1>1, <2>1 DEF Sites
  <2>2. CASE t = th /\ i <= Len(frames[th])
    <3>1. i \in Depth(th) /\ i # Len(frames[th]) + 1 /\ i <= Len(frames'[th])
      BY <1>1, <2>2 DEF Depth
    <3> QED
      BY <1>1, <2>2, <3>1 DEF Sites
  <2>3. CASE t = th /\ i = Len(frames[th]) + 1
    <3>1. ~(i <= Len(frames[th])) /\ i <= Len(frames'[th])
      BY <1>1, <2>3
    <3> QED
      BY <1>1, <2>3, <3>1 DEF Sites
  <2>4. CASE t = th /\ i > Len(frames[th]) + 1
    <3>1. ~(i <= Len(frames[th])) /\ ~(i <= Len(frames'[th])) /\ i # Len(frames[th]) + 1
      BY <1>1, <2>4
    <3> QED
      BY <1>1, <2>4, <3>1 DEF Sites
  <2> QED
    BY <1>1, <2>1, <2>2, <2>3, <2>4
<1>5. x \in Threads \X (1 .. MaxDepth) /\ x \notin Sites(F)
  BY <1>1, <1>3 DEF Sites
<1>6. Sites(F)' \subseteq Threads \X (1 .. MaxDepth) /\ Sites(F) \subseteq Threads \X (1 .. MaxDepth)
  BY DEF Sites
<1> HIDE DEF x
<1>7. Sites(F)' = Sites(F) \cup (IF f \in F THEN {x} ELSE {})
  BY <1>4, <1>5, <1>6
<1>8. Cardinality(Sites(F)') = Cardinality(Sites(F)) + IF f \in F THEN 1 ELSE 0
  <2>1. /\ Cardinality(Sites(F)) \in Nat
        /\ Cardinality(Sites(F) \cup {x}) = Cardinality(Sites(F)) + 1
    BY <1>5, FiniteSites, FS_AddElement
  <2>2. CASE f \in F
    BY <1>7, <2>1, <2>2
  <2>3. CASE f \notin F
    BY <1>7, <2>1, <2>3
  <2> QED
    BY <2>2, <2>3
<1>9. Len(frames'[th]) <= MaxDepth
  BY <1>1, <1>3
<1> QED
  BY <1>8, <1>9

LEMMA ReturnSites ==
  ASSUME TypeInv, \A t \in Threads : Len(frames[t]) <= MaxDepth,
         NEW th \in Threads, Return(th), frames[th] # <<>>, NEW F
  PROVE  /\ Len(frames'[th]) <= MaxDepth
         /\ Cardinality(Sites(F))' = Cardinality(Sites(F)) - IF Last(frames[th]) \in F THEN 1 ELSE 0
<1> DEFINE x == <<th, Len(frames[th])>>
<1>1. /\ \A t \in Threads \ {th} : frames'[t] = frames[t]
      /\ Len(frames[th]) \in Nat \ {0}
      /\ Last(frames[th]) = frames[th][Len(frames[th])]
      /\ Len(frames'[th]) = Len(frames[th]) - 1
      /\ \A i \in 1 .. Len(frames[th]) - 1 : frames'[th][i] = frames[th][i]
  BY ReturnFrames
<1>2. Len(frames[th]) \in 1 .. MaxDepth
  BY <1>1, FiniteAssumption
<1>3. ASSUME NEW t \in Threads, NEW i \in 1 .. MaxDepth
      PROVE  <<t, i>> \in Sites(F)' <=> <<t, i>> \in Sites(F) /\ <<t, i>> # x
  <2>1. CASE t # th
    BY <1>1, <2>1 DEF Sites
  <2>2. CASE t = th /\ i < Len(frames[th])
    <3>1. i \in 1 .. Len(frames[th]) - 1 /\ i <= Len(frames'[th]) /\ i <= Len(frames[th]) /\ i # Len(frames[th])
      BY <1>1, <2>2
    <3> QED
      BY <1>1, <2>2, <3>1 DEF Sites
  <2>3. CASE t = th /\ i = Len(frames[th])
    <3>1. ~(i <= Len(frames'[th]))
      BY <1>1, <2>3
    <3> QED
      BY <2>3, <3>1 DEF Sites
  <2>4. CASE t = th /\ i > Len(frames[th])
    <3>1. ~(i <= Len(frames[th])) /\ ~(i <= Len(frames'[th]))
      BY <1>1, <2>4
    <3> QED
      BY <2>4, <3>1 DEF Sites
  <2> QED
    BY <1>1, <2>1, <2>2, <2>3, <2>4
<1>4. Sites(F)' \subseteq Threads \X (1 .. MaxDepth) /\ Sites(F) \subseteq Threads \X (1 .. MaxDepth)
  BY DEF Sites
<1>5. x \in Sites(F) <=> Last(frames[th]) \in F
  BY <1>1, <1>2 DEF Sites
<1> HIDE DEF x
<1>6. Sites(F)' = Sites(F) \ {x}
  BY <1>3, <1>4
<1>7. Cardinality(Sites(F)') = Cardinality(Sites(F)) - IF x \in Sites(F) THEN 1 ELSE 0
  <2>1. /\ Cardinality(Sites(F)) \in Nat
        /\ Cardinality(Sites(F) \ {x}) =
             IF x \in Sites(F) THEN Cardinality(Sites(F)) - 1 ELSE Cardinality(Sites(F))
    BY FiniteSites, FS_RemoveElement
  <2> QED
    BY <1>6, <2>1
<1>8. Len(frames'[th]) <= MaxDepth
  BY <1>1, <1>2, FiniteAssumption
<1> QED
  BY <1>5, <1>7, <1>8

LEMMA BecomeSites ==
  ASSUME TypeInv, \A t \in Threads : Len(frames[t]) <= MaxDepth,
         NEW th \in Threads, NEW f \in Frame, Become(th, f), frames[th] # <<>>, NEW F,
         Last(frames[th]) \notin F
  PROVE  /\ Len(frames'[th]) <= MaxDepth
         /\ Cardinality(Sites(F))' = Cardinality(Sites(F)) + IF f \in F THEN 1 ELSE 0
<1> DEFINE x == <<th, Len(frames[th])>>
<1>1. /\ \A t \in Threads \ {th} : frames'[t] = frames[t]
      /\ Len(frames[th]) \in Nat \ {0}
      /\ Last(frames[th]) = frames[th][Len(frames[th])]
      /\ Len(frames'[th]) = Len(frames[th])
      /\ \A i \in 1 .. Len(frames[th]) - 1 : frames'[th][i] = frames[th][i]
      /\ frames'[th][Len(frames[th])] = f
  BY BecomeFrames
<1>2. Len(frames[th]) \in 1 .. MaxDepth
  BY <1>1, FiniteAssumption
<1>3. ASSUME NEW t \in Threads, NEW i \in 1 .. MaxDepth
      PROVE  <<t, i>> \in Sites(F)' <=> <<t, i>> \in Sites(F) \/ (<<t, i>> = x /\ f \in F)
  <2>1. CASE t # th
    BY <1>1, <2>1 DEF Sites
  <2>2. CASE t = th /\ i < Len(frames[th])
    <3>1. i \in 1 .. Len(frames[th]) - 1 /\ i # Len(frames[th])
      BY <1>1, <2>2
    <3> QED
      BY <1>1, <2>2, <3>1 DEF Sites
  <2>3. CASE t = th /\ i = Len(frames[th])
    <3>1. i <= Len(frames[th]) /\ i <= Len(frames'[th])
      BY <1>1, <2>3
    <3> QED
      BY <1>1, <2>3, <3>1 DEF Sites
  <2>4. CASE t = th /\ i > Len(frames[th])
    <3>1. ~(i <= Len(frames[th])) /\ ~(i <= Len(frames'[th])) /\ i # Len(frames[th])
      BY <1>1, <2>4
    <3> QED
      BY <2>4, <3>1 DEF Sites
  <2> QED
    BY <1>1, <2>1, <2>2, <2>3, <2>4
<1>4. Sites(F)' \subseteq Threads \X (1 .. MaxDepth) /\ Sites(F) \subseteq Threads \X (1 .. MaxDepth)
  BY DEF Sites
<1>5. x \in Threads \X (1 .. MaxDepth) /\ x \notin Sites(F)
  BY <1>1, <1>2 DEF Sites
<1> HIDE DEF x
<1>6. Sites(F)' = Sites(F) \cup (IF f \in F THEN {x} ELSE {})
  BY <1>3, <1>4, <1>5
<1>7. Cardinality(Sites(F)') = Cardinality(Sites(F)) + IF f \in F THEN 1 ELSE 0
  <2>1. /\ Cardinality(Sites(F)) \in Nat
        /\ Cardinality(Sites(F) \cup {x}) = Cardinality(Sites(F)) + 1
    BY <1>5, FiniteSites, FS_AddElement
  <2>2. CASE f \in F
    BY <1>6, <2>1, <2>2
  <2>3. CASE f \notin F
    BY <1>6, <2>1, <2>3
  <2> QED
    BY <2>2, <2>3
<1>8. Len(frames'[th]) <= MaxDepth
  BY <1>1, <1>2
<1> QED
  BY <1>7, <1>8

LEMMA InitCount == Init => CountInv
<1> SUFFICES ASSUME Init PROVE CountInv
  OBVIOUS
<1>1. \A t \in Threads : frames[t] = <<>> /\ Len(frames[t]) = 0
  BY EmptySeq DEF Init
<1>2. Objects = {}
  BY <1>1 DEF Init, Objects, Taken, GivesBack
<1>3. \A F : Sites(F) = {}
  <2> SUFFICES ASSUME NEW F, NEW x \in Sites(F) PROVE FALSE
    OBVIOUS
  <2>1. x[1] \in Threads /\ x[2] \in 1 .. MaxDepth /\ x[2] <= Len(frames[x[1]])
    BY DEF Sites
  <2> QED
    BY <1>1, <2>1, FiniteAssumption
<1>4. Cardinality(Objects) = 0 /\ \A F : Cardinality(Sites(F)) = 0
  BY <1>2, <1>3, FS_EmptySet
<1>5. \A t \in Threads : Len(frames[t]) <= MaxDepth
  BY <1>1, FiniteAssumption
<1> QED
  BY <1>4, <1>5 DEF Init, CountInv

\* One lemma per action: an object is counted from the end of its construction
\* to the end of its destruction, an empty pointer until it is taken back.
LEMMA CallCount ==
  ASSUME IInv, CountInv, ConstructorsStayOut, NEW th \in users,
         \/ \E kind \in AllocLabels : CallAlloc(th, kind)
         \/ \E n \in Nodes : CallDealloc(th, n)
         \/ CallDeallocEmpty(th)
  PROVE  CountInv'
<1>1. TypeInv /\ OwnerInv /\ th \in Threads
  BY DEF IInv, TypeInv
<1>2. /\ Cardinality(Objects) \in Nat /\ Cardinality(Sites(Dying)) \in Nat
      /\ Cardinality(Sites(Echoes)) \in Nat /\ empties \in Nat
  BY <1>1, FiniteObjects, FiniteSites DEF TypeInv
<1>3. ASSUME NEW f \in Frame, NEW call, MayCall(th, call), Call(th, f), stat' = stat,
             f \notin Dying, \A n \in Nodes : Taken(n)' <=> Taken(n),
             empties' = empties - IF f \in Echoes THEN 1 ELSE 0
      PROVE  CountInv'
  <2>1. Objects' = Objects
    BY <1>3 DEF Objects
  <2>2. /\ Len(frames'[th]) <= MaxDepth
        /\ Cardinality(Sites(Dying))' = Cardinality(Sites(Dying)) + 0
        /\ Cardinality(Sites(Echoes))' = Cardinality(Sites(Echoes)) + IF f \in Echoes THEN 1 ELSE 0
    BY <1>1, <1>3, CallSites
  <2>3. \A t \in Threads : Len(frames'[t]) <= MaxDepth
    BY <1>1, <1>3, <2>2, CallFrames DEF CountInv
  <2>4. stat.n_dealloc_failure + empties' + Cardinality(Sites(Echoes))' <= stat.n_alloc_failure
    BY <1>2, <1>3, <2>2 DEF CountInv
  <2> QED
    BY <1>2, <1>3, <2>1, <2>2, <2>3, <2>4 DEF CountInv
<1>4. ASSUME NEW f \in Frame, NEW call, MayCall(th, call), Call(th, f), owners' = owners,
             \A n \in Nodes : f # At("dealloc", n)
      PROVE  \A n \in Nodes : Taken(n)' <=> Taken(n)
  <2>1. \A t \in Threads : \A n \in Nodes : GivesBack(t, n)' <=> GivesBack(t, n)
    BY <1>1, <1>4, CallGives
  <2> QED
    BY <1>4, <2>1 DEF Taken
<1>5. ASSUME NEW kind \in AllocLabels, CallAlloc(th, kind) PROVE CountInv'
  <2> DEFINE f == At(kind, Null)
  <2>1. f \in Frame /\ f \notin Dying /\ f \notin Echoes /\ \A n \in Nodes : f # At("dealloc", n)
    BY DEF At, Frame, AllocLabels, Dying, Echoes
  <2>2. MayCall(th, "alloc") /\ Call(th, f) /\ stat' = stat /\ owners' = owners /\ empties' = empties
    BY <1>5 DEF CallAlloc, handles
  <2> HIDE DEF f
  <2> QED
    BY <1>2, <1>3, <1>4, <2>1, <2>2
<1>6. CASE CallDeallocEmpty(th)
  <2> DEFINE f == At("dealloc", Null)
  <2>1. f \in Frame /\ f \notin Dying /\ f \in Echoes /\ \A n \in Nodes : f # At("dealloc", n)
    BY DEF At, Frame, Null, Nodes, Dying, Echoes
  <2>2. MayCall(th, "dealloc") /\ Call(th, f) /\ stat' = stat /\ owners' = owners /\ empties' = empties - 1
    BY <1>6 DEF CallDeallocEmpty
  <2> HIDE DEF f
  <2> QED
    BY <1>3, <1>4, <2>1, <2>2
<1>7. ASSUME NEW node \in Nodes, CallDealloc(th, node) PROVE CountInv'
  <2> DEFINE f == At("dealloc", node)
  <2>1. f \in Frame /\ f \notin Dying /\ f \notin Echoes /\ \A n : f = At("dealloc", n) <=> n = node
    BY DEF At, Frame, Nodes, Null, Dying, Echoes
  <2>2. /\ MayCall(th, "dealloc") /\ Call(th, f) /\ stat' = stat /\ empties' = empties
        /\ owners[node] > 0 /\ owners' = [owners EXCEPT ![node] = @ - 1]
    BY <1>7 DEF CallDealloc
  <2> HIDE DEF f
  <2>3. owners[node] = 1 /\ owners'[node] = 0 /\ \A n \in Nodes \ {node} : owners'[n] = owners[n]
    BY <1>1, <2>2 DEF TypeInv
  <2>4. /\ \A n \in Nodes : ~GivesBack(th, n)
        /\ \A n \in Nodes : GivesBack(th, n)' <=> n = node
        /\ \A t \in Threads \ {th} : \A n \in Nodes : GivesBack(t, n)' <=> GivesBack(t, n)
    BY <1>1, <2>1, <2>2, CallGives
  <2>5. \A n \in Nodes : Taken(n)' <=> Taken(n)
    BY <1>1, <2>3, <2>4 DEF Taken, OwnerInv
  <2> QED
    BY <1>2, <1>3, <2>1, <2>2, <2>5
<1> QED
  BY <1>5, <1>6, <1>7

LEMMA ReturnCount ==
  ASSUME IInv, CountInv, NEW th \in users,
         \/ \E kind \in AllocLabels : BorrowFail(th, kind)
         \/ ReturnFail(th)
         \/ BorrowEnd(th)
         \/ ReturnEnd(th)
  PROVE  CountInv'
<1>1. TypeInv /\ StackInv /\ th \in Threads
  BY DEF IInv, TypeInv
<1>2. /\ Cardinality(Objects) \in Nat /\ Cardinality(Sites(Dying)) \in Nat
      /\ Cardinality(Sites(Echoes)) \in Nat /\ empties \in Nat
      /\ stat \in [n_alloc_failure : Nat, n_dealloc_failure : Nat, n_allocated : Int]
      /\ stat.n_allocated = Cardinality(Objects) + Cardinality(Sites(Dying))
      /\ stat.n_dealloc_failure + empties + Cardinality(Sites(Echoes)) <= stat.n_alloc_failure
  BY <1>1, FiniteObjects, FiniteSites DEF TypeInv, CountInv
<1>3. /\ frames[th] # <<>> /\ Return(th) /\ Last(frames[th]) \in Frame
      /\ \A n \in Nodes : ~GivesBack(th, n)
  <2>1. frames[th] # <<>> /\ Return(th)
    BY DEF BorrowFail, Fail, ReturnFail, ReturnNull, BorrowEnd, HandOut, ReturnEnd, Destroyed, Running
  <2>2. \A n \in Nodes : Last(frames[th]) # At("dealloc", n)
    BY DEF BorrowFail, Fail, ReturnFail, ReturnNull, BorrowEnd, HandOut, ReturnEnd, Destroyed,
       Running, NodeOf, At, AllocLabels, Nodes, Null
  <2> QED
    BY <1>1, <2>1, <2>2, ReturnFrames DEF GivesBack
<1>4. /\ \A t \in Threads : Len(frames'[t]) <= MaxDepth
      /\ \A F : Cardinality(Sites(F))' =
                  Cardinality(Sites(F)) - IF Last(frames[th]) \in F THEN 1 ELSE 0
  BY <1>1, <1>3, ReturnFrames, ReturnSites DEF CountInv
<1>5. \A t \in Threads : \A n \in Nodes : GivesBack(t, n)' <=> GivesBack(t, n)
  BY <1>1, <1>3, ReturnGives
<1>6. ASSUME owners' = owners PROVE Objects' = Objects
  BY <1>5, <1>6 DEF Objects, Taken
<1>7. ASSUME NEW kind \in AllocLabels, BorrowFail(th, kind) PROVE CountInv'
  <2>1. Last(frames[th]).at = kind /\ owners' = owners
        /\ stat' = [stat EXCEPT !.n_alloc_failure = @ + 1]
        /\ empties' \in {empties, empties + 1}
    BY <1>2, <1>7 DEF BorrowFail, Fail, Running
  <2>2. Last(frames[th]) \notin Dying /\ Last(frames[th]) \notin Echoes
    BY <2>1 DEF AllocLabels, Dying, Echoes, At
  <2>3. /\ stat' \in [n_alloc_failure : Nat, n_dealloc_failure : Nat, n_allocated : Int]
        /\ stat'.n_allocated = stat.n_allocated /\ stat'.n_dealloc_failure = stat.n_dealloc_failure
        /\ stat'.n_alloc_failure = stat.n_alloc_failure + 1
    BY <1>2, <2>1
  <2>4. /\ Objects' = Objects
        /\ Cardinality(Sites(Dying))' = Cardinality(Sites(Dying)) - 0
        /\ Cardinality(Sites(Echoes))' = Cardinality(Sites(Echoes)) - 0
    BY <1>4, <1>6, <2>1, <2>2
  <2>5. stat'.n_dealloc_failure + empties' + Cardinality(Sites(Echoes))' <= stat'.n_alloc_failure
    BY <1>2, <2>1, <2>3, <2>4
  <2> QED
    BY <1>2, <1>4, <2>3, <2>4, <2>5 DEF CountInv
<1>8. CASE ReturnFail(th)
  <2>1. Last(frames[th]).at = "dealloc" /\ Last(frames[th]).node = Null
        /\ owners' = owners /\ empties' = empties
        /\ stat' = [stat EXCEPT !.n_dealloc_failure = @ + 1]
    BY <1>8 DEF ReturnFail, ReturnNull, Running, NodeOf, handles
  <2>2. Last(frames[th]) \notin Dying /\ Last(frames[th]) \in Echoes
    BY <1>3, <2>1 DEF Dying, Echoes, At, Frame
  <2>3. /\ stat' \in [n_alloc_failure : Nat, n_dealloc_failure : Nat, n_allocated : Int]
        /\ stat'.n_allocated = stat.n_allocated /\ stat'.n_alloc_failure = stat.n_alloc_failure
        /\ stat'.n_dealloc_failure = stat.n_dealloc_failure + 1
    BY <1>2, <2>1
  <2> QED
    BY <1>2, <1>4, <1>6, <2>1, <2>2, <2>3 DEF CountInv
<1>9. CASE BorrowEnd(th)
  <2>1. Last(frames[th]).at = "ctor" /\ free_nodes # Null /\ empties' = empties
        /\ owners' = [owners EXCEPT ![NodeOf(th)] = @ + 1]
        /\ stat' = [stat EXCEPT !.n_allocated = @ + 1]
    BY <1>9 DEF BorrowEnd, HandOut, Running
  <2>2. Last(frames[th]) \notin Dying /\ Last(frames[th]) \notin Echoes
    BY <2>1 DEF Dying, Echoes, At
  <2>3. NodeOf(th) = free_nodes
    <3>1. Last(frames[th]) = frames[th][Len(frames[th])] /\ Len(frames[th]) \in Depth(th)
      BY <1>1, <1>3, ReturnFrames DEF Depth
    <3> QED
      BY <1>1, <2>1, <3>1 DEF StackInv, NodeOf
  <2>4. free_nodes \in Nodes /\ ~Taken(free_nodes)
    BY <2>1, HeadIsFree
  <2>5. owners'[free_nodes] = 1 /\ \A n \in Nodes \ {free_nodes} : owners'[n] = owners[n]
    BY <1>1, <2>1, <2>3, <2>4 DEF TypeInv, Taken
  <2>6. Objects' = Objects \cup {free_nodes} /\ free_nodes \notin Objects
    BY <1>5, <2>4, <2>5 DEF Objects, Taken
  <2>7. Cardinality(Objects') = Cardinality(Objects) + 1
    BY <2>6, FiniteObjects, FS_AddElement
  <2>8. /\ stat' \in [n_alloc_failure : Nat, n_dealloc_failure : Nat, n_allocated : Int]
        /\ stat'.n_dealloc_failure = stat.n_dealloc_failure
        /\ stat'.n_alloc_failure = stat.n_alloc_failure /\ stat'.n_allocated = stat.n_allocated + 1
    BY <1>2, <2>1
  <2> QED
    BY <1>2, <1>4, <2>1, <2>2, <2>7, <2>8 DEF CountInv
<1>10. CASE ReturnEnd(th)
  <2>1. Last(frames[th]).at = "dtor" /\ owners' = owners /\ empties' = empties
        /\ stat' = [stat EXCEPT !.n_allocated = @ - 1]
    BY <1>10 DEF ReturnEnd, Destroyed, Running, handles
  <2>2. Last(frames[th]) \in Dying /\ Last(frames[th]) \notin Echoes
    BY <1>3, <2>1 DEF Dying, Echoes, At
  <2>3. /\ stat' \in [n_alloc_failure : Nat, n_dealloc_failure : Nat, n_allocated : Int]
        /\ stat'.n_dealloc_failure = stat.n_dealloc_failure
        /\ stat'.n_alloc_failure = stat.n_alloc_failure /\ stat'.n_allocated = stat.n_allocated - 1
    BY <1>2, <2>1
  <2> QED
    BY <1>2, <1>4, <1>6, <2>1, <2>2, <2>3 DEF CountInv
<1> QED
  BY <1>7, <1>8, <1>9, <1>10

LEMMA LockCount ==
  ASSUME IInv, CountInv, NEW th \in users,
         \/ \E kind \in AllocLabels : BorrowStart(th, kind)
         \/ ReturnStart(th)
  PROVE  CountInv'
<1>1. TypeInv /\ OwnerInv /\ th \in Threads /\ \A t \in Threads : Len(frames[t]) <= MaxDepth
  BY DEF IInv, TypeInv, CountInv
<1>2. /\ Cardinality(Objects) \in Nat /\ Cardinality(Sites(Dying)) \in Nat
      /\ Cardinality(Sites(Echoes)) \in Nat
  BY FiniteObjects, FiniteSites
<1>3. ASSUME NEW kind \in AllocLabels, BorrowStart(th, kind) PROVE CountInv'
  <2> DEFINE f == At("ctor", free_nodes)
  <2>1. f \in Frame /\ f.at = "ctor" /\ f \notin Dying /\ f \notin Echoes
    BY <1>1, <1>3 DEF BorrowStart, At, Frame, TypeInv, Dying, Echoes
  <2>2. /\ frames[th] # <<>> /\ Last(frames[th]).at = kind
        /\ Become(th, f) /\ stat' = stat /\ owners' = owners /\ empties' = empties
    BY <1>3 DEF BorrowStart, Running, handles
  <2> HIDE DEF f
  <2>3. Last(frames[th]) \notin Dying /\ Last(frames[th]) \notin Echoes
        /\ \A n \in Nodes : ~GivesBack(th, n)
    BY <2>2 DEF AllocLabels, Dying, Echoes, At, GivesBack
  <2>4. \A t \in Threads : \A n \in Nodes : GivesBack(t, n)' <=> GivesBack(t, n)
    BY <1>1, <2>1, <2>2, <2>3, BecomeGives
  <2>5. Objects' = Objects
    BY <2>2, <2>4 DEF Objects, Taken
  <2>6. /\ Len(frames'[th]) <= MaxDepth
        /\ Cardinality(Sites(Dying))' = Cardinality(Sites(Dying)) + 0
        /\ Cardinality(Sites(Echoes))' = Cardinality(Sites(Echoes)) + 0
    BY <1>1, <2>1, <2>2, <2>3, BecomeSites
  <2>7. \A t \in Threads : Len(frames'[t]) <= MaxDepth
    BY <1>1, <2>1, <2>2, <2>6, BecomeFrames
  <2> QED
    BY <1>2, <2>2, <2>5, <2>6, <2>7 DEF CountInv
<1>4. CASE ReturnStart(th)
  <2> DEFINE node == NodeOf(th)
             f == At("dtor", node)
  <2>1. /\ frames[th] # <<>> /\ Last(frames[th]).at = "dealloc" /\ Become(th, f)
        /\ node # Null /\ stat' = stat /\ owners' = owners /\ empties' = empties
    BY <1>4 DEF ReturnStart, PutBefore, Running, handles
  <2>2. Last(frames[th]) \in Frame
    BY <1>1, <2>1, Pop DEF TypeInv
  <2>3. node \in Nodes /\ GivesBack(th, node) /\ \A n \in Nodes : GivesBack(th, n) <=> n = node
    BY <2>1, <2>2 DEF Frame, NodeOf, GivesBack, At
  <2>4. f \in Frame /\ f.at = "dtor" /\ f \in Dying /\ f \notin Echoes
    BY <2>3 DEF At, Frame, Dying, Echoes
  <2>5. Last(frames[th]) \notin Dying /\ Last(frames[th]) \notin Echoes
    BY <2>1 DEF NodeOf, Dying, Echoes, At
  <2> HIDE DEF f, node
  <2>6. /\ \A n \in Nodes : ~GivesBack(th, n)'
        /\ \A t \in Threads \ {th} : \A n \in Nodes : GivesBack(t, n)' <=> GivesBack(t, n)
    BY <1>1, <2>1, <2>4, BecomeGives
  <2>7. owners[node] = 0 /\ \A t \in Threads \ {th} : ~GivesBack(t, node)
    BY <1>1, <2>3 DEF OwnerInv
  <2>8. Objects' = Objects \ {node} /\ node \in Objects
    BY <1>1, <2>1, <2>3, <2>6, <2>7 DEF Objects, Taken
  <2>9. Cardinality(Objects') = Cardinality(Objects) - 1
    BY <2>8, FiniteObjects, FS_RemoveElement
  <2>10. /\ Len(frames'[th]) <= MaxDepth
         /\ Cardinality(Sites(Dying))' = Cardinality(Sites(Dying)) + 1
         /\ Cardinality(Sites(Echoes))' = Cardinality(Sites(Echoes)) + 0
    BY <1>1, <2>1, <2>4, <2>5, BecomeSites
  <2>11. \A t \in Threads : Len(frames'[t]) <= MaxDepth
    BY <1>1, <2>1, <2>4, <2>10, BecomeFrames
  <2> QED
    BY <1>2, <2>1, <2>9, <2>10, <2>11 DEF CountInv
<1> QED
  BY <1>3, <1>4

LEMMA SpecCount ==
  ASSUME ConstructorsStayOut PROVE Spec => [](IInv /\ DyingInv /\ CountInv)
<1>1. Init => IInv /\ CountInv
  BY InitIInv, InitCount
<1>2. IInv /\ CountInv /\ [Next]_vars => IInv' /\ CountInv'
  <2> SUFFICES ASSUME IInv, CountInv, [Next]_vars PROVE CountInv'
    BY NextIInv
  <2>1. CASE UNCHANGED vars
    <3>1. Objects' = Objects /\ \A F : Sites(F)' = Sites(F)
      BY <2>1 DEF Objects, Taken, GivesBack, Sites, vars, handles
    <3> QED
      BY <2>1, <3>1 DEF CountInv, vars, handles
  <2>2. CASE Next
    BY <2>2, CallCount, ReturnCount, LockCount DEF Next
  <2> QED
    BY <2>1, <2>2
<1> QED
  BY <1>1, <1>2, SpecDying, PTL DEF Spec

\* The types of the variables (TypeOK); that n_allocated, an unsigned number in
\* the code, is never counted down below 0 follows from what it counts.
THEOREM TypeCorrect ==
  ASSUME ConstructorsStayOut PROVE Spec => []TypeOK
<1>1. IInv /\ DyingInv /\ CountInv => TypeOK
  <2> SUFFICES ASSUME IInv, DyingInv, CountInv PROVE TypeOK
    OBVIOUS
  <2>1. stat.n_allocated \in Nat
    BY FiniteObjects, FiniteSites DEF CountInv
  <2>2. stat \in [n_alloc_failure : Nat, n_dealloc_failure : Nat, n_allocated : Nat]
    BY <2>1 DEF CountInv
  <2>3. owners \in [Nodes -> Nat]
    BY DEF IInv, TypeInv
  <2> QED
    BY <2>2, <2>3 DEF IInv, TypeInv, DyingInv, TypeOK
<1> QED
  BY <1>1, SpecCount, PTL

\* The nodes of the objects that are being destroyed.
DyingNodes == {frames[x[1]][x[2]].node : x \in Sites(Dying)}

LEMMA DestructorSites ==
  ASSUME IInv
  PROVE  /\ Sites(Dying) = CallsAt({"dtor"})
         /\ \A x \in Sites(Dying) :
              /\ x = <<x[1], x[2]>> /\ x[1] \in Threads /\ x[2] \in Depth(x[1])
              /\ frames[x[1]][x[2]].at = "dtor" /\ frames[x[1]][x[2]].node \in Nodes
<1>1. ASSUME NEW x \in Threads \X (1 .. MaxDepth), x[2] <= Len(frames[x[1]])
      PROVE  x[2] \in Depth(x[1]) /\ frames[x[1]][x[2]] \in Frame
  <2>1. frames[x[1]] \in Seq(Frame) /\ x[2] \in Nat /\ x[2] >= 1
    BY <1>1, FiniteAssumption DEF IInv, TypeInv
  <2>2. x[2] \in 1 .. Len(frames[x[1]])
    BY <1>1, <2>1, LenProperties
  <2> QED
    BY <2>1, <2>2, ElementOfSeq DEF Depth
<1>2. Sites(Dying) = CallsAt({"dtor"})
  BY <1>1 DEF Sites, CallsAt, Dying
<1>3. ASSUME NEW x \in Sites(Dying)
      PROVE  /\ x = <<x[1], x[2]>> /\ x[1] \in Threads /\ x[2] \in Depth(x[1])
             /\ frames[x[1]][x[2]].at = "dtor" /\ frames[x[1]][x[2]].node \in Nodes
  <2>1. /\ x = <<x[1], x[2]>> /\ x[1] \in Threads /\ x[2] \in Depth(x[1])
        /\ frames[x[1]][x[2]].at = "dtor"
    BY <1>1, <1>3 DEF Sites, Dying
  <2> QED
    BY <2>1 DEF IInv, StackInv
<1> QED
  BY <1>2, <1>3

\* As long as they have their nodes for themselves, there are as many nodes as
\* destructors.
LEMMA DyingNodesCount ==
  ASSUME IInv, DyingAlone
  PROVE  /\ IsFiniteSet(DyingNodes) /\ Cardinality(DyingNodes) = Cardinality(Sites(Dying))
         /\ Objects \cap DyingNodes = {}
<1> DEFINE f == [x \in Sites(Dying) |-> frames[x[1]][x[2]].node]
<1>1. f \in Surjection(Sites(Dying), DyingNodes)
  BY DEF Surjection, DyingNodes
<1>2. \A x, y \in Sites(Dying) : f[x] = f[y] => x = y
  <2> SUFFICES ASSUME NEW x \in Sites(Dying), NEW y \in Sites(Dying), f[x] = f[y]
               PROVE  x = y
    OBVIOUS
  <2>1. x[1] = y[1] /\ x[2] = y[2]
    BY DestructorSites DEF DyingAlone
  <2> QED
    BY <2>1, DestructorSites
<1>3. f \in Injection(Sites(Dying), DyingNodes)
  BY <1>1, <1>2 DEF Injection, IsInjective, Surjection
<1> HIDE DEF f
<1>4. IsFiniteSet(DyingNodes) /\ Cardinality(DyingNodes) = Cardinality(Sites(Dying))
  BY <1>1, <1>3, FiniteSites, FS_Surjection
<1>5. \A x \in Sites(Dying) : frames[x[1]][x[2]].node \notin Objects
  BY DestructorSites DEF DyingAlone, Objects
<1> QED
  BY <1>4, <1>5 DEF DyingNodes

\* The counters tell the truth (CountMatchesObjects: ++ and -- of stat in
\* borrow_item() and return_item()).
THEOREM CountersAreTrue ==
  ASSUME ConstructorsStayOut PROVE Spec => []CountMatchesObjects
<1>1. IInv /\ DyingInv /\ CountInv => CountMatchesObjects
  <2> SUFFICES ASSUME IInv, DyingInv, CountInv PROVE CountMatchesObjects
    OBVIOUS
  <2>1. Objects = {n \in Nodes : InUse(n)}
    BY TakenIsInUse DEF Objects
  <2>2. ASSUME ~nested_borrow
        PROVE  stat.n_allocated =
                 Cardinality({n \in Nodes : InUse(n) \/ CallsOn(n, {"dtor"}) # {}})
    <3>1. \A n \in Nodes : CallsOn(n, {"dtor"}) # {} <=> n \in DyingNodes
      BY DestructorSites DEF CallsOn, DyingNodes
    <3>2. DyingNodes \subseteq Nodes
      BY DestructorSites DEF DyingNodes
    <3>3. {n \in Nodes : InUse(n) \/ CallsOn(n, {"dtor"}) # {}} = Objects \cup DyingNodes
      BY <2>1, <3>1, <3>2
    <3>4. /\ IsFiniteSet(DyingNodes) /\ Cardinality(DyingNodes) = Cardinality(Sites(Dying))
          /\ Objects \cap DyingNodes = {}
      BY <2>2, DyingNodesCount DEF DyingInv
    <3>5. Cardinality(Objects \cup DyingNodes) =
            Cardinality(Objects) + Cardinality(DyingNodes) - Cardinality(Objects \cap DyingNodes)
      BY <3>4, FiniteObjects, FS_Union
    <3>6. Cardinality(Objects \cap DyingNodes) = 0
      BY <3>4, FS_EmptySet
    <3>7. Cardinality(Objects) \in Nat /\ Cardinality(Sites(Dying)) \in Nat
      BY FiniteObjects, FiniteSites
    <3>8. Cardinality(Objects \cup DyingNodes) = Cardinality(Objects) + Cardinality(Sites(Dying))
      BY <3>4, <3>5, <3>6, <3>7
    <3> QED
      BY <3>3, <3>8 DEF CountInv
  <2>3. CallsAt({"dtor"}) = {} => stat.n_allocated = Cardinality({n \in Nodes : InUse(n)})
    <3>1. CallsAt({"dtor"}) = {} => Cardinality(Sites(Dying)) = 0
      BY DestructorSites, FS_EmptySet
    <3> QED
      BY <2>1, <3>1, FiniteObjects DEF CountInv
  <2>4. stat.n_dealloc_failure + empties <= stat.n_alloc_failure
    BY FiniteSites DEF CountInv, IInv, TypeInv
  <2> QED
    BY <2>2, <2>3, <2>4 DEF CountMatchesObjects
<1> QED
  BY <1>1, SpecCount, PTL
=============================================================================
