------------------------ MODULE SingletonGuardProofs ------------------------
(***************************************************************************)
(* Proofs about SingletonGuard for any number of processes: type           *)
(* correctness, the exclusion of a second holder while constructors do not *)
(* overlap, and who may remove a holder's file.                            *)
(***************************************************************************)
EXTENDS SingletonGuard, TLAPS

\* Whoever is past connect() without an overlap has found no holder, and from
\* bind() to the end of the holding the file is the process's own.
AloneInv ==
  ~overlap =>
    /\ \A p, q \in Processes : Constructing(p) /\ Constructing(q) => p = q
    /\ \A p \in Processes : Constructing(p) => fd[p] = "open"
    /\ \A p, q \in Processes : pc[p] \in {"unlink", "bind", "listen"} => ~Holding(q)
    /\ \A p \in Processes : pc[p] = "listen" => file = p
    /\ \A p \in Processes : Holding(p) => file = p /\ Listening(p)

\* Nobody is remembered as present
\* who does not listen, and the file that a process is about to remove is not
\* that of somebody who was present when it tried to connect.
SocketInv ==
  /\ \A p, q \in Processes : q \in present[p] => Listening(q)
  /\ \A p \in Processes : pc[p] = "unlink" /\ fd[p] = "open" => file \notin present[p]

IInv == TypeOK /\ AloneInv /\ SocketInv
-----------------------------------------------------------------------------
LEMMA InitIInv == Init => IInv
<1> SUFFICES ASSUME Init PROVE IInv
  OBVIOUS
<1> USE DEF Init
<1>1. TypeOK
  <2>1. n_pending \in [Processes -> Nat] /\ \A p \in Processes : n_pending[p] = 0
    OBVIOUS
  <2>2. present \in [Processes -> SUBSET Processes]
    OBVIOUS
  <2>3. /\ fd \in [Processes -> {"none", "failed", "open", "listening"}]
        /\ pc \in [Processes -> {"idle", "connect", "unlink", "bind", "listen", "holding"}]
    OBVIOUS
  <2>4. \A p \in Processes : fd[p] = "none" /\ pc[p] = "idle"
    OBVIOUS
  <2>5. file \in Processes \cup {NoFile, Stale} /\ overlap \in BOOLEAN
    OBVIOUS
  <2> HIDE DEF Init
  <2> QED
    BY <2>1, <2>2, <2>3, <2>4, <2>5 DEF TypeOK, Holding, Listening
<1>2. AloneInv
  BY DEF AloneInv, Constructing, Holding, Listening
<1>3. SocketInv
  BY DEF SocketInv, Constructing, Holding, Listening
<1> QED
  BY <1>1, <1>2, <1>3 DEF IInv

\* The end of a constructor or of a holding, with whatever becomes of the
\* connections at other sockets.
LEMMA CloseIInv ==
  ASSUME IInv, NEW p \in Processes, Close(p), n_pending' \in [Processes -> Nat],
         \A q \in Processes : n_pending'[q] > 0 => Listening(q) /\ q # p
  PROVE  IInv'
<1> USE ProcessesAssumption DEF IInv, TypeOK, Close, Goto
<1>1. TypeOK'
  BY DEF Holding, Listening
<1>2. AloneInv'
  BY DEF AloneInv, Constructing, Holding, Listening
<1>3. SocketInv'
  BY DEF SocketInv, Constructing, Holding, Listening
<1> QED
  BY <1>1, <1>2, <1>3

LEMMA EndIInv ==
  ASSUME IInv, NEW p \in Processes, End(p)
  PROVE  IInv'
<1>1. n_pending' = [n_pending EXCEPT ![p] = 0] /\ Close(p)
  BY DEF End
<1>2. /\ n_pending' \in [Processes -> Nat]
      /\ \A q \in Processes : n_pending'[q] > 0 => Listening(q) /\ q # p
  BY <1>1 DEF IInv, TypeOK
<1> QED
  BY <1>1, <1>2, CloseIInv

LEMMA StepIInv == IInv /\ [Next]_vars => IInv'
<1> SUFFICES ASSUME IInv, [Next]_vars PROVE IInv'
  OBVIOUS
<1> USE ProcessesAssumption
<1>1. ASSUME NEW p \in Processes, Start(p) PROVE IInv'
  <2> USE <1>1 DEF IInv, TypeOK, Start, Goto
  <2>1. TypeOK'
    BY DEF Reached, Holding, Listening
  <2>2. AloneInv'
    <3> SUFFICES ASSUME ~overlap' PROVE AloneInv'
      BY DEF AloneInv
    <3>1. ~overlap /\ fd' = [fd EXCEPT ![p] = "open"] /\ \A q \in Processes : ~Constructing(q)
      OBVIOUS
    <3> QED
      BY <3>1 DEF AloneInv, Constructing, Holding, Listening
  <2>3. SocketInv'
    BY DEF SocketInv, Constructing, Holding, Listening
  <2> QED
    BY <2>1, <2>2, <2>3
<1>2. ASSUME NEW p \in Processes, ConnectSucceeds(p) PROVE IInv'
  <2>1. /\ n_pending' \in [Processes -> Nat]
        /\ \A q \in Processes : n_pending'[q] > 0 => Listening(q) /\ q # p
    BY <1>2 DEF ConnectSucceeds, Reached, Holding, IInv, TypeOK
  <2> QED
    BY <1>2, <2>1, CloseIInv DEF ConnectSucceeds
<1>3. ASSUME NEW p \in Processes, ConnectFails(p) PROVE IInv'
  <2> USE <1>3 DEF IInv, TypeOK, ConnectFails, GoOn, Goto
  <2>1. TypeOK'
    BY DEF Reached, Holding, Listening
  <2>2. AloneInv'
    BY DEF AloneInv, Reached, Constructing, Holding, Listening
  <2>3. SocketInv'
    BY DEF SocketInv, Reached, Constructing, Holding, Listening
  <2> QED
    BY <2>1, <2>2, <2>3
<1>4. ASSUME NEW p \in Processes, Unlink(p) PROVE IInv'
  <2> USE <1>4 DEF IInv, TypeOK, Unlink, Goto
  <2>1. TypeOK'
    BY DEF Reached, Holding, Listening
  <2>2. AloneInv'
    BY DEF AloneInv, Constructing, Holding, Listening
  <2>3. SocketInv'
    BY DEF SocketInv, Constructing, Holding, Listening
  <2> QED
    BY <2>1, <2>2, <2>3
<1>5. ASSUME NEW p \in Processes, Bind(p) PROVE IInv'
  <2> USE <1>5 DEF IInv, TypeOK, Bind, Goto
  <2>1. TypeOK'
    BY DEF Reached, Holding, Listening
  <2>2. AloneInv'
    BY DEF AloneInv, Constructing, Holding, Listening
  <2>3. SocketInv'
    BY DEF SocketInv, Constructing, Holding, Listening
  <2> QED
    BY <2>1, <2>2, <2>3
<1>6. ASSUME NEW p \in Processes, Listen(p) PROVE IInv'
  <2> USE <1>6 DEF IInv, TypeOK, Listen, BecomeHolder, Goto
  <2>1. TypeOK'
    BY DEF Reached, Holding, Listening
  <2>2. AloneInv'
    BY DEF AloneInv, Constructing, Holding, Listening
  <2>3. SocketInv'
    BY DEF SocketInv, Constructing, Holding, Listening
  <2> QED
    BY <2>1, <2>2, <2>3
<1>7. ASSUME NEW p \in Processes,
             UnlinkDenied(p) \/ BindFails(p) \/ Release(p) \/ Crash(p)
      PROVE  IInv'
  BY <1>7, EndIInv DEF UnlinkDenied, BindFails, Release, Crash
<1>8. CASE UNCHANGED vars
  BY <1>8 DEF vars, IInv, TypeOK, AloneInv, SocketInv, Constructing, Holding, Listening
<1> QED
  BY <1>1, <1>2, <1>3, <1>4, <1>5, <1>6, <1>7, <1>8 DEF Next, ConstructorStep

LEMMA Inductive == Spec => []IInv
BY InitIInv, StepIInv, PTL DEF Spec

\* For any number of processes and any backlog, a process whose socket() or
\* bind() has failed never listens and never holds the guard, and connections
\* wait only at a holder; every variable keeps its type.
THEOREM TypeCorrect == Spec => []TypeOK
<1>1. IInv => TypeOK
  BY DEF IInv
<1> QED
  BY <1>1, Inductive, PTL

\* There is never a second holder while constructors have sockets and do not
\* overlap, whoever dies and whatever files are left behind.
THEOREM SerialHoldersExclude == Spec => []SerialExclusion
<1>1. IInv => SerialExclusion
  BY DEF IInv, AloneInv, SerialExclusion
<1> QED
  BY <1>1, Inductive, PTL

\* Nobody who came later removes the file of a holder, even in a race.
THEOREM HoldersAreSafe == Spec => HolderSafeFromLater
<1> DEFINE
  Removes(p, q) ==
    pc[p] = "unlink" /\ pc'[p] # "unlink" /\ (q \notin present[p] \/ fd[p] = "failed")
  Safe ==
    \A q \in Processes :
      file = q /\ Listening(q) /\ file' \notin {q, Stale} => \E p \in Processes : Removes(p, q)
<1>1. IInv /\ [Next]_vars => [Safe]_vars
  <2> SUFFICES ASSUME IInv, Next, NEW q \in Processes,
                      file = q, Listening(q), file' \notin {q, Stale}
               PROVE  \E p \in Processes : Removes(p, q)
    OBVIOUS
  <2>1. PICK p \in Processes : Unlink(p) \/ Bind(p)
    BY DEF Next, ConstructorStep, Start, ConnectSucceeds, ConnectFails, GoOn, UnlinkDenied,
           BindFails, Listen, BecomeHolder, Release, Crash, End, Close
  <2>2. Unlink(p)
    BY <2>1, ProcessesAssumption DEF Bind
  <2>3. Removes(p, q)
    BY <2>2 DEF Unlink, Goto, IInv, TypeOK, SocketInv, Constructing, Listening, Holding
  <2> QED
    BY <2>3
<1>2. HolderSafeFromLater <=> [][Safe]_vars
  BY DEF HolderSafeFromLater
<1> HIDE DEF Safe
<1> QED
  BY <1>1, <1>2, Inductive, PTL DEF Spec
=============================================================================
