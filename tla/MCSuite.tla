------------------------------ MODULE MCSuite ------------------------------
(***************************************************************************)
(* Several small systems, one of which is chosen at the start; the others  *)
(* do not exist then.  Their variables share v1, v2, ...                   *)
(***************************************************************************)
EXTENDS Integers, Sequences, FiniteSets, TLC, IpcSystems, ProcessSystems, PassSystems

\* As flags: O_RDONLY, O_RDWR, O_CREAT | O_WRONLY, O_TRUNC, O_CLOEXEC, with
\* O_WRONLY and with O_CREAT; and the two lengths about the limit of arg64.
Filters == INSTANCE SeccompFilters WITH
  Args <- {0, 2, 65, 512, 524288, 524289, 524352, 1000, 1001}, Icnt <- 2, MaxDumps <- 1,
  todo <- v1, filters <- v2, file <- v3, call <- v4, cpu <- v5, verdict <- v6

Spaces == INSTANCE Namespaces WITH
  Trees <- {<<1, 1, 2, 3, 2>>}, Children <- 3, Levels <- 3,
  kind <- v1, opt <- v2, main <- v3, kids <- v4, sig <- v5, fds <- v6

Sig == INSTANCE Signals WITH
  Plans <- {<<"INT", "INT", "QUIT">>, <<"QUIT", "INT">>, <<"USR1", "RT", "USR1", "INT">>, <<"RT", "RT", "RT", "INT">>, <<"INT", "INT", "INT">>},
  QueueMax <- 2, numSigs <- 3,
  kind <- v1, rcv <- v2, pend <- v3, snd <- v4, got <- v5, peer <- v6

\* What ItLengths stands for in the run.
TwoLengths == <<1, 3>>

\* What CapOptions and CapLists stand for in the run.
AskedOptions ==
  {<<>>, <<[opt |-> "A"]>>, <<[opt |-> "b", bits |-> {"a"}], [opt |-> "A"]>>, <<[opt |-> "A"], [opt |-> "s", uid |-> 1000]>>,
    <<[opt |-> "b", bits |-> {"s"}], [opt |-> "s", uid |-> 1000], [opt |-> "I"]>>,
    <<[opt |-> "X", set |-> "b", cap |-> "DAC", on |-> FALSE], [opt |-> "A"]>>, <<[opt |-> "S"]>>,
    <<[opt |-> "X", set |-> "p", cap |-> "DAC", on |-> FALSE]>>, <<[opt |-> "I"], [opt |-> "X", set |-> "a", cap |-> "DAC", on |-> TRUE]>>,
    <<[opt |-> "X", set |-> "e", cap |-> "SETPCAP", on |-> FALSE], [opt |-> "X", set |-> "b", cap |-> "DAC", on |-> FALSE]>>,
    <<[opt |-> "x", p |-> {"DAC"}, e |-> {}, i |-> {"DAC"}], [opt |-> "A"]>>, <<[opt |-> "x", p |-> {"DAC"}, e |-> {"SETUID"}, i |-> {}]>>,
    <<[opt |-> "d"], [opt |-> "w"]>>, <<[opt |-> "I"], [opt |-> "A"], [opt |-> "d"]>>}
AskedCaps == {<<"DAC">>, <<"DAC", "SETUID">>}

\* What PasLists, PasSizes and PasContent stand for in the run.
SentFiles == {<<"f">>, <<"f", "g">>, <<"g", "f", "f">>}
ControlSizes == {-1, 0, 20, 32, 52, 56}
FileContent == [f |-> 2, g |-> 0]

\* What PipInput and PipLines stand for in the run.
PipeInput == <<1, 2, 3>>
TypedLines == {<<"c", "bad">>, <<"nl", "c", "nl", "c", "c", "c", "bad", "nl", "c">>, <<"c", "c", "bad", "nl">>}

\* What StrStreams stands for in the run.
ReadStreams == {<<"1", "2", "3", "4">>, <<"1", "nl", "2", "3", "nl">>}

\* What LockCommands and LockRequests stand for in the run.
TypedCommands ==
  {[cmd |-> "w", lock |-> "w", start |-> 0, len |-> 1, whence |-> "none", nl |-> TRUE],
   [cmd |-> "w", lock |-> "w", start |-> 0, len |-> 0, whence |-> "e", nl |-> TRUE],
   [cmd |-> "S", lock |-> "r", start |-> 0, len |-> 0, whence |-> "none", nl |-> TRUE],
   [cmd |-> "s", lock |-> "u", start |-> 0, len |-> 2, whence |-> "none", nl |-> TRUE],
   [cmd |-> "g", lock |-> "w", start |-> 0, len |-> 12, whence |-> "none", nl |-> FALSE],
   [cmd |-> "W", lock |-> "w", start |-> 0, len |-> 1, whence |-> "e", nl |-> FALSE],
   [cmd |-> "w", lock |-> "r", start |-> 0, len |-> 1, whence |-> "none", nl |-> FALSE],
   [cmd |-> "x", lock |-> "r", start |-> 1, len |-> 1, whence |-> "none", nl |-> TRUE]}
FlockRequests == {[lock |-> l, nb |-> n] : l \in {"r", "w"}, n \in BOOLEAN}

Init ==
  \/ system = "streams" /\ Streams!Init /\ v7 = 0
  \/ system = "locks" /\ Locks!Init /\ v6 = 0 /\ v7 = 0
  \/ system = "pipelines" /\ Pipes!Init /\ v7 = 0
  \/ system = "loops" /\ Loops!Init /\ v6 = 0 /\ v7 = 0
  \/ system = "signals" /\ Sig!Init /\ v7 = 0
  \/ system = "mqueue" /\ Mq!Init /\ v6 = 0 /\ v7 = 0
  \/ system = "namespaces" /\ Spaces!Init /\ v7 = 0
  \/ system = "capabilities" /\ Caps!Init /\ v6 = 0 /\ v7 = 0
  \/ system = "passed" /\ Passed!Init /\ v6 = 0 /\ v7 = 0
  \/ system = "children" /\ Kin!Init /\ v6 = 0 /\ v7 = 0
  \/ system = "threads" /\ Thr!Init /\ v6 = 0 /\ v7 = 0
  \/ system = "notification" /\ Notification!Init
  \/ system = "filters" /\ Filters!Init /\ v7 = 0
  \/ system = "numbers" /\ Numbers!Init /\ v6 = 0 /\ v7 = 0
  \/ system = "forking" /\ Forking!Init /\ v7 = 0
  \/ system = "iterative" /\ Iterative!Init
  \/ system = "semaphores" /\ Sems!Init /\ v7 = 0

Next ==
  /\ UNCHANGED system
  /\ \/ system = "streams" /\ Streams!Next /\ UNCHANGED v7
     \/ system = "locks" /\ Locks!Next /\ UNCHANGED <<v6, v7>>
     \/ system = "pipelines" /\ Pipes!Next /\ UNCHANGED v7
     \/ system = "loops" /\ Loops!Next /\ UNCHANGED <<v6, v7>>
     \/ system = "signals" /\ Sig!Next /\ UNCHANGED v7
     \/ system = "mqueue" /\ Mq!Next /\ UNCHANGED <<v6, v7>>
     \/ system = "namespaces" /\ Spaces!Next /\ UNCHANGED v7
     \/ system = "capabilities" /\ Caps!Next /\ UNCHANGED <<v6, v7>>
     \/ system = "passed" /\ Passed!Next /\ UNCHANGED <<v6, v7>>
     \/ system = "children" /\ Kin!Next /\ UNCHANGED <<v6, v7>>
     \/ system = "threads" /\ Thr!Next /\ UNCHANGED <<v6, v7>>
     \/ system = "notification" /\ Notification!Next
     \/ system = "filters" /\ Filters!Next /\ UNCHANGED v7
     \/ system = "numbers" /\ Numbers!Next /\ UNCHANGED <<v6, v7>>
     \/ system = "forking" /\ Forking!Next /\ UNCHANGED v7
     \/ system = "iterative" /\ Iterative!Next
     \/ system = "semaphores" /\ Sems!Next /\ UNCHANGED v7

Spec == Init /\ [][Next]_vars

\* fifo_seqnum, is_seqnum: no number is given to two clients before all
\* numbers that seqNum can have are used up, and a client that waits for an
\* answer has a request the server is still to answer; unless the client took
\* over the process ID, and with it the FIFO, of one that was killed.
NumbersServed == system = "numbers" => Numbers!NumbersDisjoint /\ Numbers!AnswerToCome

\* is_echo_sv, is_echo_v2_sv and svmsg_file_server: a server that waits with
\* no SIGCHLD pending has left behind neither a zombie, though several
\* children may have ended for one signal, nor a descriptor that keeps a
\* client from its end of file; and a client that ends as if all were well,
\* with no call failing anywhere, has received everything, in order.
ChildrenServe == system = "forking" => Forking!NothingLeftBehind /\ Forking!TransfersComplete

\* ud_ucase, i6d_ucase, id_echo, us_xfr: the j-th answer a client prints is
\* that to its j-th message, unless the network delivered one twice, and a
\* client that is killed stops no server but ud_ucase's; the server of
\* us_xfr writes its clients' data one after the other, each whole and in
\* order.
ServedOneByOne == system = "iterative" => Iterative!AnswersMatch /\ Iterative!OneAfterTheOther

\* svshm_xfr: the reader writes the writer's blocks, each once
\* and in order, and all of them when it ends well, unless one of them was
\* killed; svsem_good_init: no semaphore operation comes before the
\* initialization that would undo it.
SemaphoresHold == system = "semaphores" => Sems!Handover /\ Sems!NoOperationLost

\* The seccomp examples: every call is answered as the comments of the
\* installed filters say, the strictest filter deciding, on every
\* architecture and for every argument, also where the filter was loaded
\* from a dump; a dump that was cut is refused.
FiltersAsMeant == system = "filters" => Filters!FiltersAsMeant

\* seccomp_unotify_mkdir and _openat: a target that is blocked in its call
\* is waited for by a supervisor that will answer it, whichever of the two
\* starts first or receives a signal; and what the call returns is true of
\* the directory it was about.
CallsServed == system = "notification" => Notification!BlockedIsServed /\ Notification!AnswersTrue

\* The thread examples: locked increments all count, every unit produced is
\* consumed, every thread joined, the initialization done once, every
\* barrier passed by all before the next; and no wake-up of a condition
\* variable is lost.
WorkAccounted == system = "threads" => Thr!WorkAccounted /\ Thr!WakeupToCome

\* multi_SIGCHLD, multi_wait, fork_sig_sync, system, execlp: nobody sleeps
\* for a child that is gone already, though signals are merged, or ends
\* before all children are reaped; system() gives its caller the status of
\* its own command and leaves the caller's mask, dispositions and other
\* children as they were; execlp() fails only when no prefix has the
\* program.
ChildrenAccounted == system = "children" => Kin!NobodyWaitsInVain /\ Kin!CallersKept

\* scm_rights, scm_multi, scm_cred: a receiver that ends well has printed
\* the files it was sent, each from start to end, all of them unless the
\* kernel told of a truncation, and has no descriptor left; the credentials
\* it prints are those the sender gave and may use, except for nobody's at the
\* end of file when a stream's sender was refused or had no data to send.
ReceivesWhatWasSent == system = "passed" => Passed!ReceivesWhatWasSent

\* cap_launcher and cred_launcher execute the command with the identity
\* asked for, all parts of it, and exactly the capabilities listed;
\* check_password_caps has none when it asks for the password; the child of
\* userns_child_exec executes its command when its parent has written every
\* map asked for, or has failed, and has all capabilities exactly when a map of
\* the child's user to 0 was among them.
PrivilegesAsAsked == system = "capabilities" => Caps!LaunchedAsAsked /\ Caps!MapsThenCommand

\* ns_capable says what the chain of user namespaces says, and has closed
\* each descriptor once; simple_init leaves no zombie while no signal is
\* pending; ns_child_exec, ns_exec, ns_run and unshare run the command in
\* all the namespaces asked for and end after it.
NamespacesAccounted == system = "namespaces" => Spaces!CapableRight /\ Spaces!CommandsAccounted

\* mq_notify_*: a program that waits with nothing pending is registered for
\* the next message and has left none unread, but for the three that say
\* they do not handle messages there at their start.
NoneLeftUnread == system = "mqueue" => Mq!NoneLeftUnread

\* The signal examples: with sigsuspend() no wake-up is lost between
\* unblocking and waiting and nothing is handled in a critical section,
\* real-time signals are handled in the order sent and none is lost, a jump
\* out of a handler by siglongjmp() leaves no signal blocked and one by
\* longjmp() does, and a signal is handled though it came while it was ignored
\* and blocked, but not if it came before.
SignalsAccounted == system = "signals" => Sig!SignalsAccounted

\* self_pipe, demo_sigio, epoll_input, epoll_flags_*, select_mq: input and
\* signals that came before a wait, or while it was being set up, are
\* reported after it; messages passed on through a pipe by several children
\* keep header and body together.
EventsNotForgotten == system = "loops" => Loops!InputNotForgotten /\ Loops!WaitersTold

\* The pipe and pseudoterminal examples: no processes hold each other up for
\* ever by a pipe end not closed, by two full pipes or in wait(), but for the
\* relays of script and unbuffer and their program when the terminal is full
\* both ways; what is printed is what was put in, in order, and all of it
\* unless somebody was killed or a write failed; script and unbuffer leave the
\* terminal as it was, unless atexit() failed.
PipesPassOn == system = "pipelines" => Pipes!NoCircle /\ Pipes!PassedOn

\* i_fcntl_locking tells the user of the locks the process has, and nobody
\* waits in a circle; create_pid_file admits one instance until a process
\* locks a PID file deleted between its open() and its lock; daemon_SIGHUP acts
\* on a SIGHUP whenever it came.
LocksAndHups == system = "locks" => Locks!LocksAsTold /\ Locks!NoHupForgotten

\* readn, writen, readLineBuf, sendfile and the socket functions deliver the
\* stream in order and in full whatever parts the system calls do and
\* however often they are interrupted, and leave no descriptor open when
\* they fail; the comments in StreamFunctions name the exceptions.
DeliveredInFull == system = "streams" => Streams!DeliveredInFull
=============================================================================
