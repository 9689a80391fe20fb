--------------------------- MODULE SingletonGuard ---------------------------
(***************************************************************************)
(* ucc::SingletonGuard (source/singleton_guard.cc): a process holds the    *)
(* guard of a name while it listens on the Unix socket /tmp/<name>.  The   *)
(* constructor connects to find a holder, removes the file that a dead one *)
(* has left, binds and listens, one system call after the other.           *)
(*                                                                         *)
(* Processes of one host run constructors and destructors, and may die     *)
(* anywhere.  A socket file outlives its socket; a new process may take    *)
(* the place of one that has ended.                                        *)
(***************************************************************************)
EXTENDS Naturals

CONSTANTS Processes,
          NoFile, Stale,  \* no socket file; one whose socket is closed
          Backlog         \* the second argument of listen()

ASSUME ProcessesAssumption == NoFile # Stale /\ {NoFile, Stale} \cap Processes = {}
ASSUME BacklogAssumption == Backlog \in Nat

VARIABLES
  file,       \* what /tmp/<name> is: the file of a process's open socket ...
  fd,         \* per process: its socket
  n_pending,  \* per process: connections nobody has accepted: it never does
  pc,         \* per process: the next system call of the constructor
  present,    \* history: who was listening when a process tried to connect
  overlap     \* history: two constructors overlapped, or had no socket

vars == <<file, fd, n_pending, pc, present, overlap>>

Constructing(p) == pc[p] \in {"connect", "unlink", "bind", "listen"}
Holding(p) == pc[p] = "holding"
Listening(p) == fd[p] = "listening"

\* With the labels, a process without a socket gets no further than bind(): who
\* returns from the constructor listens, and only there do connections wait.
TypeOK ==
  /\ file \in Processes \cup {NoFile, Stale}
  /\ fd \in [Processes -> {"none", "failed", "open", "listening"}]
  /\ n_pending \in [Processes -> Nat]
  /\ pc \in [Processes -> {"idle", "connect", "unlink", "bind", "listen", "holding"}]
  /\ present \in [Processes -> SUBSET Processes]
  /\ overlap \in BOOLEAN
  /\ \A p \in Processes :
       /\ fd[p] = "none" <=> pc[p] = "idle"
       /\ pc[p] = "listen" => fd[p] = "open"
       /\ Listening(p) <=> Holding(p)
       /\ n_pending[p] > 0 => Listening(p)

Init ==
  /\ file \in {NoFile, Stale}
  /\ fd = [p \in Processes |-> "none"]
  /\ n_pending = [p \in Processes |-> 0]
  /\ pc = [p \in Processes |-> "idle"]
  /\ present = [p \in Processes |-> {}]
  /\ overlap = FALSE
-----------------------------------------------------------------------------
Goto(p, to) == pc' = [pc EXCEPT ![p] = to]

\* The socket of p is closed, by the destructor, by a raise, which ends the
\* process (UCC_RAISE is lFatal), or by its death.  Its file stays.
Close(p) ==
  /\ fd' = [fd EXCEPT ![p] = "none"]
  /\ file' = IF file = p THEN Stale ELSE file
  /\ Goto(p, "idle")
  /\ present' = [q \in Processes |-> IF q = p THEN {} ELSE present[q] \ {p}]
  /\ UNCHANGED overlap

\* The connections that wait at it go with it.
End(p) == Close(p) /\ n_pending' = [n_pending EXCEPT ![p] = 0]

\* socket(), whose failure (-1) passes UCC_RAISE_UNLESS(fd).
Start(p) ==
  /\ pc[p] = "idle"
  /\ \E result \in {"open", "failed"} :
       /\ fd' = [fd EXCEPT ![p] = result]
       /\ overlap' = (overlap \/ result = "failed" \/ \E q \in Processes : Constructing(q))
  /\ Goto(p, "connect")
  /\ UNCHANGED <<file, n_pending, present>>

\* So many connections wait at q that connect() blocks.
Full(q) == n_pending[q] > Backlog

\* Does connect() of p find a socket that listens?
Reached(p) == fd[p] = "open" /\ file \in Processes /\ Listening(file)

\* connect() succeeds and the constructor raises "already running".
ConnectSucceeds(p) ==
  /\ pc[p] = "connect"
  /\ Reached(p)
  /\ ~Full(file)
  /\ n_pending' = [n_pending EXCEPT ![file] = @ + 1]
  /\ Close(p)

GoOn(p) ==
  /\ pc[p] = "connect"
  /\ present' = [present EXCEPT ![p] = {q \in Processes : Listening(q)}]
  /\ Goto(p, "unlink")
  /\ UNCHANGED <<file, fd, n_pending, overlap>>

\* Mutant of ConnectFails: the result of connect() is ignored.
IgnoreConnect(p) == GoOn(p)

\* There is no file, or nobody listens at it, or p has no socket.
ConnectFails(p) == ~Reached(p) /\ GoOn(p)

\* unlink(): it is all right if there is no file.
Unlink(p) ==
  /\ pc[p] = "unlink"
  /\ file' = NoFile
  /\ Goto(p, "bind")
  /\ UNCHANGED <<fd, n_pending, present, overlap>>

\* The file belongs to someone else: the constructor raises.
UnlinkDenied(p) == pc[p] = "unlink" /\ file # NoFile /\ End(p)

Bind(p) ==
  /\ pc[p] = "bind"
  /\ file = NoFile /\ fd[p] = "open"
  /\ file' = p
  /\ Goto(p, "listen")
  /\ UNCHANGED <<fd, n_pending, present, overlap>>

\* Mutant of BindFails: bind() is called until it succeeds.
BindRetries(p) == pc[p] = "bind" /\ file # NoFile /\ UNCHANGED vars

\* Mutant of BindFails: its result is ignored.
IgnoreBind(p) ==
  /\ pc[p] = "bind" /\ (file # NoFile \/ fd[p] = "failed")
  /\ Goto(p, "listen")
  /\ UNCHANGED <<file, fd, n_pending, present, overlap>>

\* The file is there again, or p has no socket: the constructor raises.
BindFails(p) == pc[p] = "bind" /\ (file # NoFile \/ fd[p] = "failed") /\ End(p)

\* The socket becomes `state' and the constructor returns.
BecomeHolder(p, state) ==
  /\ pc[p] = "listen"
  /\ fd' = [fd EXCEPT ![p] = state]
  /\ Goto(p, "holding")
  /\ UNCHANGED <<file, n_pending, present, overlap>>

\* Mutant of Listen: the socket is bound and does not listen.
OnlyBind(p) == BecomeHolder(p, "open")

Listen(p) == BecomeHolder(p, "listening")

\* The destructor, or the death of the process at any point.
Release(p) == Holding(p) /\ End(p)
Crash(p) == Constructing(p) /\ End(p)

ConstructorStep(p) ==
  \/ ConnectSucceeds(p) \/ ConnectFails(p)
  \/ Unlink(p) \/ UnlinkDenied(p)
  \/ Bind(p) \/ BindFails(p) \/ Listen(p)

Next == \E p \in Processes : Start(p) \/ ConstructorStep(p) \/ Release(p) \/ Crash(p)

Spec == Init /\ [][Next]_vars

\* System calls return unless they block, and constructors go on after them.
FairSpec == Spec /\ \A p \in Processes : WF_vars(ConstructorStep(p))
-----------------------------------------------------------------------------
\* As long as constructors have a socket and do not overlap, a holder keeps
\* its file, so that everybody else finds it: whoever dies in between, there
\* is never a second one.
SerialExclusion ==
  ~overlap => \A p \in Processes : Holding(p) => file = p

\* Even when constructors race, the file of a listening socket is removed only
\* by a process that had tried to connect before it listened, or that has no
\* socket: a holder is safe from everybody who comes later.
HolderSafeFromLater ==
  [][\A q \in Processes :
       file = q /\ Listening(q) /\ file' \notin {q, Stale} =>
         \E p \in Processes :
           pc[p] = "unlink" /\ pc'[p] # "unlink" /\ (q \notin present[p] \/ fd[p] = "failed")]_vars

\* connect() waits at a holder at which too many others have tried already.
KeptByHolder(p) == pc[p] = "connect" /\ Reached(p) /\ Full(file)

\* A constructor returns or raises, whatever it finds and whoever dies: no stale
\* file and no race keeps it, but only the holder that it is trying to reach.
ConstructorReturns ==
  \A p \in Processes : Constructing(p) ~> ~Constructing(p) \/ KeptByHolder(p)

\* singleton_guard.cc:33 "already running": the second of two processes is
\* told so, and there is one holder.
OneHolder == \A p, q \in Processes : Holding(p) /\ Holding(q) => p = q
=============================================================================
