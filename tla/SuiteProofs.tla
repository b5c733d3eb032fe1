---------------------------- MODULE SuiteProofs -----------------------------
(***************************************************************************)
(* What MCSuite checks of the systems of IpcSystems, ProcessSystems and    *)
(* PassSystems holds for all values of their constants.  The lemmas are in *)
(* IpcProofs, ProcessProofs, PassProofs and StreamProofs.                  *)
(***************************************************************************)
EXTENDS MCSuite, IpcProofs, ProcessProofs, PassProofs, StreamProofs, TLAPS

\* mq_notify_*: whatever the size of the queue, the number of messages and of
\* stray signals and readers, a program that waits with nothing pending is
\* registered and has left no message unread.
THEOREM NotifiedOfEveryMessage == Spec => []NoneLeftUnread
<1> DEFINE I == system = "mqueue" => Mq!IInv
<1>1. Init => I
  BY MqInit DEF Init
<1>2. I /\ [Next]_vars => I'
  <2> SUFFICES ASSUME I, [Next]_vars, system' = "mqueue" PROVE Mq!IInv'
    OBVIOUS
  <2>1. Mq!IInv /\ [Mq!Next]_Mq!vars
    BY DEF Next, vars, Mq!vars
  <2> QED
    BY <2>1, MqNext
<1>3. I => NoneLeftUnread
  BY MqSafe DEF NoneLeftUnread
<1> QED
  BY <1>1, <1>2, <1>3, PTL DEF Spec

\* svshm_xfr and svsem_good_init: for every number of blocks the reader writes
\* them each once and in order, and all of them when it ends well; and
\* however many processes share a semaphore, none operates on it before it is
\* initialized.
THEOREM SemaphoresAlwaysHold == Spec => []SemaphoresHold
<1> DEFINE I == system = "semaphores" => Sems!IInv
<1>1. Init => I
  BY SemInit DEF Init
<1>2. I /\ [Next]_vars => I'
  <2> SUFFICES ASSUME I, [Next]_vars, system' = "semaphores" PROVE Sems!IInv'
    OBVIOUS
  <2>1. Sems!IInv /\ [Sems!Next]_Sems!vars
    BY DEF Next, vars, Sems!vars
  <2> QED
    BY <2>1, SemNext
<1>3. I => SemaphoresHold
  BY SemSafe DEF SemaphoresHold
<1> QED
  BY <1>1, <1>2, <1>3, PTL DEF Spec

\* i_fcntl_locking, create_pid_file, daemon_SIGHUP: for any number of
\* processes, bytes, commands and SIGHUPs, the users are told of the locks
\* there are, no two processes wait for each other, one instance runs as long
\* as nobody deletes the PID file, and no SIGHUP is forgotten.
THEOREM LocksAndHupsKept == Spec => []LocksAndHups
<1> DEFINE I == system = "locks" => Locks!IInv
<1>1. Init => I
  BY LockInit DEF Init
<1>2. I /\ [Next]_vars => I'
  <2> SUFFICES ASSUME I, [Next]_vars, system' = "locks" PROVE Locks!IInv'
    OBVIOUS
  <2>1. Locks!IInv /\ [Locks!Next]_Locks!vars
    BY DEF Next, vars, Locks!vars
  <2> QED
    BY <2>1, LockNext
<1>3. I => LocksAndHups
  BY LockSafe DEF LocksAndHups
<1> QED
  BY <1>1, <1>2, <1>3, PTL DEF Spec

\* The numbers that two clients of a server of sequence numbers print do not
\* overlap, and a client that waits has a request that is still to be
\* answered, for any number of clients, process IDs, lengths and deaths.
THEOREM NumbersAlwaysServed == Spec => []NumbersServed
<1> DEFINE I == system = "numbers" => Numbers!IInv
<1>1. Init => I
  BY NumInit DEF Init
<1>2. I /\ [Next]_vars => I'
  <2> SUFFICES ASSUME I, [Next]_vars, system' = "numbers" PROVE Numbers!IInv'
    OBVIOUS
  <2>1. Numbers!IInv /\ [Numbers!Next]_Numbers!vars
    BY DEF Next, vars, Numbers!vars
  <2> QED
    BY <2>1, NumNext
<1>3. I => NumbersServed
  BY NumSafe DEF NumbersServed
<1> QED
  BY <1>1, <1>2, <1>3, PTL DEF Spec

\* seccomp_unotify_mkdir and _openat: for any number of pathnames and of
\* signals, a target blocked in its call is waited for by a supervisor that
\* will answer it, and what its calls return is true of the directories.
THEOREM CallsAlwaysServed == Spec => []CallsServed
<1> DEFINE I == system = "notification" => Notification!IInv
<1>1. Init => I
  BY NotInit DEF Init
<1>2. I /\ [Next]_vars => I'
  <2> SUFFICES ASSUME I, [Next]_vars, system' = "notification" PROVE Notification!IInv'
    OBVIOUS
  <2>1. Notification!IInv /\ [Notification!Next]_Notification!vars
    BY DEF Next, vars, Notification!vars
  <2> QED
    BY <2>1, NotNext
<1>3. I => CallsServed
  BY NotSafe DEF CallsServed
<1> QED
  BY <1>1, <1>2, <1>3, PTL DEF Spec

\* ud_ucase, i6d_ucase, id_echo, us_xfr: for any number of clients and any
\* messages, buffer and faults, answers match their messages unless one was
\* delivered twice, and us_xfr_sv's output is one client's data after the
\* other's.
THEOREM AlwaysServedOneByOne == Spec => []ServedOneByOne
<1> DEFINE I == system = "iterative" => Iterative!IInv
<1>1. Init => I
  BY ItInit DEF Init
<1>2. I /\ [Next]_vars => I'
  <2> SUFFICES ASSUME I, [Next]_vars, system' = "iterative" PROVE Iterative!IInv'
    OBVIOUS
  <2>1. Iterative!IInv /\ [Iterative!Next]_Iterative!vars
    BY DEF Next, vars, Iterative!vars
  <2> QED
    BY <2>1, ItNext
<1>3. I => ServedOneByOne
  BY ItSafe DEF ServedOneByOne
<1> QED
  BY <1>1, <1>2, <1>3, PTL DEF Spec

\* is_echo_sv, is_echo_v2_sv, svmsg_file_server: for any number of clients,
\* any amount of data and any faults, a server that waits has left no zombie
\* and no descriptor of a client it served, and a client that ends as if all
\* were well after no fault has received everything, in order.
THEOREM ChildrenAlwaysServe == Spec => []ChildrenServe
<1> DEFINE I == system = "forking" => Forking!IInv
<1>1. Init => I
  BY FkInit DEF Init
<1>2. I /\ [Next]_vars => I'
  <2> SUFFICES ASSUME I, [Next]_vars, system' = "forking" PROVE Forking!IInv'
    OBVIOUS
  <2>1. Forking!IInv /\ (Forking!Next \/ UNCHANGED <<v1, v2, v3, v4, v5, v6>>)
    BY DEF Next, vars
  <2> QED
    BY <2>1, FkNext
<1>3. I => ChildrenServe
  BY FkSafe DEF ChildrenServe
<1> QED
  BY <1>1, <1>2, <1>3, PTL DEF Spec

\* tlpi-dist/threads: for any number of threads and of rounds, locked
\* increments all count and unlocked ones at least twice, every unit is
\* consumed, every thread joined, the initialization done once, the barrier
\* passed by all, and no wake-up of a condition variable is lost.
THEOREM WorkAlwaysAccounted == Spec => []WorkAccounted
<1> DEFINE I == system = "threads" => Thr!IInv
<1>1. Init => I
  BY ThrInit DEF Init
<1>2. I /\ [Next]_vars => I'
  <2> SUFFICES ASSUME I, [Next]_vars, system' = "threads" PROVE Thr!IInv'
    OBVIOUS
  <2>1. Thr!IInv /\ [Thr!Next]_Thr!vars
    BY DEF Next, vars, Thr!vars
  <2> QED
    BY <2>1, ThrNext
<1>3. I => WorkAccounted
  BY ThrSafe DEF WorkAccounted
<1> QED
  BY <1>1, <1>2, <1>3, PTL DEF Spec

\* self_pipe, demo_sigio, epoll_input, select_mq, epoll_flags_fork and
\* multithread_epoll_wait: for any number of children, FIFOs or queues, any
\* pipe and any number of events, no signal and no input is forgotten, every
\* message is printed once and in order, and who waits will be told.
THEOREM EventsNeverForgotten == Spec => []EventsNotForgotten
<1> DEFINE I == system = "loops" => Loops!IInv
<1>1. Init => I
  BY LoopInit DEF Init
<1>2. I /\ [Next]_vars => I'
  <2> SUFFICES ASSUME I, [Next]_vars, system' = "loops" PROVE Loops!IInv'
    OBVIOUS
  <2>1. Loops!IInv /\ [Loops!Next]_Loops!vars
    BY DEF Next, vars, Loops!vars
  <2> QED
    BY <2>1, LoopNext
<1>3. I => EventsNotForgotten
  BY LoopSafe DEF EventsNotForgotten
<1> QED
  BY <1>1, <1>2, <1>3, PTL DEF Spec

\* cap_launcher, cred_launcher, check_password_caps, userns_child_exec: for
\* any capabilities, options and files, the command is executed with the
\* identity and the capabilities asked for and no others, and not before the
\* parent has written every map asked for, or has failed.
THEOREM PrivilegesAlwaysAsAsked == Spec => []PrivilegesAsAsked
<1> DEFINE I == system = "capabilities" => Caps!IInv
<1>1. Init => I
  BY CapInit DEF Init
<1>2. I /\ [Next]_vars => I'
  <2> SUFFICES ASSUME I, [Next]_vars, system' = "capabilities" PROVE Caps!IInv'
    OBVIOUS
  <2>1. Caps!IInv /\ [Caps!Next]_Caps!vars
    BY DEF Next, vars, Caps!vars
  <2> QED
    BY <2>1, CapNext
<1>3. I => PrivilegesAsAsked
  BY CapSafe DEF PrivilegesAsAsked
<1> QED
  BY <1>1, <1>2, <1>3, PTL DEF Spec

\* multi_SIGCHLD, multi_wait, fork_sig_sync, system, execlp: for any number of
\* children, prefixes of PATH and signals, nobody sleeps for a child that is
\* gone or ends before all are reaped, system() returns its own command's
\* status and changes nothing of its caller, and execlp() fails only when no
\* prefix has the program.
THEOREM ChildrenAlwaysAccounted == Spec => []ChildrenAccounted
<1> DEFINE I == system = "children" => Kin!IInv
<1>1. Init => I
  BY KinInit DEF Init
<1>2. I /\ [Next]_vars => I'
  <2> SUFFICES ASSUME I, [Next]_vars, system' = "children" PROVE Kin!IInv'
    OBVIOUS
  <2>1. Kin!IInv /\ [Kin!Next]_Kin!vars
    BY DEF Next, vars, Kin!vars
  <2> QED
    BY <2>1, KinNext
<1>3. I => ChildrenAccounted
  BY KinSafe DEF ChildrenAccounted
<1> QED
  BY <1>1, <1>2, <1>3, PTL DEF Spec

\* scm_rights_*, scm_cred_*, scm_multi_*, sendfd() and recvfd(): for every
\* list of files, content and space for control messages, a receiver that ends
\* well has printed the files it was sent, in order and each from its start to
\* its end, all of them unless the kernel told of a truncation, has no
\* descriptor left, and takes no credentials the sender may not use.
THEOREM ReceivedAlwaysAsSent == Spec => []ReceivesWhatWasSent
<1> DEFINE I == system = "passed" => Passed!IInv
<1>1. Init => I
  BY PasInit DEF Init
<1>2. I /\ [Next]_vars => I'
  <2> SUFFICES ASSUME I, [Next]_vars, system' = "passed" PROVE Passed!IInv'
    OBVIOUS
  <2>1. Passed!IInv /\ [Passed!Next]_(Passed!vars)
    BY DEF Next, vars, Passed!vars
  <2> QED
    BY <2>1, PasNext
<1>3. I => ReceivesWhatWasSent
  BY PasSafe DEF ReceivesWhatWasSent
<1> QED
  BY <1>1, <1>2, <1>3, PTL DEF Spec

\* The pipe and pseudoterminal programs, for any input, sizes and number of
\* children: no processes hold each other up for ever, the parent of
\* pipe_sync goes on only when all its children have done their work, what
\* is printed is what was put in, script leaves the terminal as it was.
THEOREM PipesAlwaysPassOn == Spec => []PipesPassOn
<1> DEFINE I == system = "pipelines" => Pipes!IInv
<1>1. Init => I
  BY PipInit DEF Init
<1>2. I /\ [Next]_vars => I'
  <2> SUFFICES ASSUME I, [Next]_vars, system' = "pipelines" PROVE Pipes!IInv'
    OBVIOUS
  <2>1. Pipes!IInv /\ [Pipes!Next]_(Pipes!vars)
    BY DEF Next, vars, Pipes!vars
  <2> QED
    BY <2>1, PipStep
<1>3. I => PipesPassOn
  BY PipNoCircle, PipPassedOn DEF PipesPassOn
<1> QED
  BY <1>1, <1>2, <1>3, PTL DEF Spec

\* readn, writen, readLineBuf, sendfile and the functions that make sockets,
\* for any stream, sizes and number of addresses and of faults: bytes and lines
\* are delivered in order and in full, a short count means the end, and no
\* socket but the one returned is left open.
THEOREM AlwaysDeliveredInFull == Spec => []DeliveredInFull
<1> DEFINE I == system = "streams" => Streams!IInv
<1>1. Init => I
  BY StrInit DEF Init
<1>2. I /\ [Next]_vars => I'
  <2> SUFFICES ASSUME I, [Next]_vars, system' = "streams" PROVE Streams!IInv'
    OBVIOUS
  <2>1. Streams!IInv /\ (Streams!Next \/ UNCHANGED <<v1, v2, v3, v4, v5, v6>>)
    BY DEF Next, vars
  <2> QED
    BY <2>1, StrNext
<1>3. I => DeliveredInFull
  BY StrSafe DEF DeliveredInFull
<1> QED
  BY <1>1, <1>2, <1>3, PTL DEF Spec
=============================================================================
