-------------------------- MODULE LocksAndDaemons ---------------------------
(***************************************************************************)
(* File locks and the programs that live long by them.  tlpi-dist/filelock:*)
(* i_fcntl_locking.c, region_locking.c, create_pid_file.c, t_flock.c;      *)
(* tlpi-dist/daemons: become_daemon.c, daemon_SIGHUP.c.                    *)
(***************************************************************************)
EXTENDS Integers, Sequences, FiniteSets

CONSTANTS
  Procs,        \* processes
  Bytes,        \* the bytes of a file that locks are about, from 0
  Size,         \* the size of the file
  Commands,     \* what is typed to i_fcntl_locking
  Requests,     \* the requests of t_flock
  MaxCommands,  \* bound: commands, starts of an instance, changes
  SLEEP_TIME    \* of daemon_SIGHUP

VARIABLES
  kind,    \* the program
  tab,     \* the locks: of each owner and byte, "u", "r" or "w"
  proc,    \* of each process: its position, its request, what it was told
  fs,      \* the PID file, or the log and configuration files
  daemon   \* the daemon

vars == <<kind, tab, proc, fs, daemon>>

Owners == Procs \X {"posix", "ofd"}
Mine(k, p) == kind = k /\ p /\ UNCHANGED kind
At(p, l) == proc[p].pc = l

-----------------------------------------------------------------------------
(* fcntl() locks.                                                          *)

\* The owners a request has to wait for.
Holders(o, region, type) ==
  {h \in Owners \ {o} : \E b \in region : tab[h][b] = "w" \/ (type = "w" /\ tab[h][b] = "r")}
Conflicts(o, region, type) == IF type = "u" THEN {} ELSE Holders(o, region, type)
Placed(o, region, type) == [tab EXCEPT ![o] = [b \in Bytes |-> IF b \in region THEN type ELSE @[b]]]

\* lockReg(): a length of 0 is to the end of any file.
lockReg(c) ==
  LET first == c.start + (IF c.whence = "e" THEN Size ELSE 0)
  IN {b \in Bytes : b >= first /\ (c.len = 0 \/ b < first + c.len)}
lockRegion(o, c) == Conflicts(o, lockReg(c), c.lock) = {}
regionIsLocked(o, c) == Conflicts(o, lockReg(c), c.lock)

\* The last character of a line is cut off, newline or not: of a last line
\* without newline, whence, or the last digit of the length.
Chopped(c) ==
  IF c.nl THEN c
  ELSE IF c.whence # "none" THEN [c EXCEPT !.whence = "none"]
  ELSE [c EXCEPT !.len = IF @ < 10 THEN -1 ELSE @ \div 10]
Valid(c) == c.cmd \in {"g", "s", "w", "G", "S", "W"} /\ c.len >= 0
Owner(p, c) == <<p, IF c.cmd \in {"G", "S", "W"} THEN "ofd" ELSE "posix">>

\* EDEADLK, for the locks of processes only: the chain of waiters comes back.
Deadlocks(p, c) ==
  /\ c.cmd = "w"
  /\ \E h \in Conflicts(Owner(p, c), lockReg(c), c.lock) :
       /\ h[2] = "posix" /\ At(h[1], "blocked") /\ proc[h[1]].req.cmd = "w"
       /\ <<p, "posix">> \in Conflicts(<<h[1], "posix">>, lockReg(proc[h[1]].req), proc[h[1]].req.lock)

Told(p, o, c, what) ==
  proc' = [proc EXCEPT ![p].pc = IF proc[p].req.nl THEN "prompt" ELSE "exit", ![p].said = what,
             ![p].view[o[2]] = IF what \in {"got_lock", "unlocked"} THEN [b \in Bytes |-> IF b \in lockReg(c) THEN c.lock ELSE @[b]] ELSE @]
ReadCommand(p) == Mine("fcntl",
  /\ At(p, "prompt") /\ proc[p].count < MaxCommands /\ UNCHANGED <<tab, fs, daemon>>
  /\ \E c \in Commands : proc' = [proc EXCEPT ![p].pc = "perform", ![p].req = Chopped(c), ![p].count = @ + 1])
Perform(p) == Mine("fcntl",
  /\ At(p, "perform") \/ At(p, "blocked")
  /\ UNCHANGED <<fs, daemon>>
  /\ LET c == proc[p].req  o == Owner(p, c) IN
     IF ~Valid(c) THEN Told(p, o, c, "invalid") /\ UNCHANGED tab
     ELSE IF c.cmd \in {"g", "G"}
     THEN Told(p, o, c, IF regionIsLocked(o, c) = {} THEN "can" ELSE "denied") /\ UNCHANGED tab
     ELSE IF lockRegion(o, c)
     THEN tab' = Placed(o, lockReg(c), c.lock) /\ Told(p, o, c, IF c.lock = "u" THEN "unlocked" ELSE "got_lock")
     ELSE IF c.cmd \in {"s", "S"} THEN Told(p, o, c, "incompatible") /\ UNCHANGED tab
     ELSE IF Deadlocks(p, c) THEN Told(p, o, c, "deadlock") /\ UNCHANGED tab
     ELSE At(p, "perform") /\ proc' = [proc EXCEPT ![p].pc = "blocked"] /\ UNCHANGED tab)
\* The end of the input: the kernel takes the locks of both kinds away.
InputEnds(p) == Mine("fcntl",
  /\ (At(p, "prompt") \/ At(p, "exit")) /\ UNCHANGED <<fs, daemon>>
  /\ tab' = [o \in Owners |-> IF o[1] = p THEN [b \in Bytes |-> "u"] ELSE tab[o]]
  /\ proc' = [proc EXCEPT ![p].pc = "gone", ![p].view = [w \in {"posix", "ofd"} |-> [b \in Bytes |-> "u"]]])
i_fcntl_locking == \E p \in Procs : ReadCommand(p) \/ Perform(p) \/ InputEnds(p)

\* flock(), shared or exclusive, at once or in time; then held and let go.
t_flock == Mine("flock",
  /\ UNCHANGED <<fs, daemon>>
  /\ \E p \in Procs :
       LET o == <<p, "ofd">>
           free == Conflicts(o, Bytes, proc[p].req.lock) = {}
       IN \/ At(p, "prompt") /\ \E r \in Requests : proc' = [proc EXCEPT ![p].pc = "request", ![p].req = r] /\ UNCHANGED tab
          \/ At(p, "request") /\ free /\ tab' = Placed(o, Bytes, proc[p].req.lock) /\ proc' = [proc EXCEPT ![p].pc = "granted"]
          \/ At(p, "request") /\ ~free /\ proc[p].req.nb /\ proc' = [proc EXCEPT ![p].pc = "gone", ![p].said = "bye"] /\ UNCHANGED tab
          \/ At(p, "granted") /\ tab' = Placed(o, Bytes, "u") /\ proc' = [proc EXCEPT ![p].pc = "gone"])

-----------------------------------------------------------------------------
(* createPidFile: fs.name is the file that has the name, 0 for none;       *)
(* fs.lock and fs.pid belong to the files.  fs.raced is history: that a    *)
(* process has locked a file deleted between its open() and its lock.      *)

Step(p, l, f) == proc' = [proc EXCEPT ![p].pc = l] /\ fs' = f /\ UNCHANGED <<tab, daemon>>
Unlocked(p) == [fs EXCEPT !.lock = [i \in DOMAIN @ |-> IF @[i] = p THEN 0 ELSE @[i]]]
Opened(p, i) == proc' = [proc EXCEPT ![p].pc = "lock", ![p].file = i, ![p].count = @ + 1] /\ UNCHANGED <<tab, daemon>>
OldOrNew == IF fs.name = 0 THEN Len(fs.pid) + 1 ELSE fs.name
WithFile == IF fs.name # 0 THEN fs ELSE [fs EXCEPT !.name = OldOrNew, !.pid = Append(@, 0), !.lock = Append(@, 0)]
OpenPidFile(p) ==
  At(p, "prompt") /\ proc[p].count < MaxCommands /\ Opened(p, OldOrNew) /\ fs' = WithFile
\* open(), lockRegion(), ftruncate(), write(); a file that is locked ends the
\* program.
createPidFile(p) == Mine("pid",
  \/ OpenPidFile(p)
  \/ /\ At(p, "lock")
     /\ IF fs.lock[proc[p].file] # 0 THEN Step(p, "prompt", fs)
        ELSE Step(p, "truncate", [fs EXCEPT !.lock[proc[p].file] = p, !.raced = @ \/ proc[p].file # fs.name])
  \/ At(p, "truncate") /\ Step(p, "write", [fs EXCEPT !.pid[proc[p].file] = 0])
  \/ At(p, "write") /\ Step(p, "running", [fs EXCEPT !.pid[proc[p].file] = p]))
\* The caller deletes the file just before it ends, as it is told to, or is
\* killed first, at any time.
InstanceEnds(p) == Mine("pid",
  \/ At(p, "running") /\ fs.delete /\ Step(p, "deleted", [fs EXCEPT !.name = 0])
  \/ At(p, "deleted") /\ Step(p, "prompt", Unlocked(p))
  \/ proc[p].pc \in {"truncate", "write", "running"} /\ Step(p, "prompt", Unlocked(p)))
Instances == {p \in Procs : At(p, "running")}

-----------------------------------------------------------------------------
(* becomeDaemon and daemon_SIGHUP.                                         *)

Daemon(p) == Mine("daemon", p /\ UNCHANGED <<tab, proc>>)
Becomes(l, d) == daemon' = [d EXCEPT !.pc = l] /\ UNCHANGED fs
\* Each step, and that it fails: -1 is returned and the program ends.
becomeDaemon == Daemon(
  \/ daemon.pc = "fork" /\ Becomes("setsid", [daemon EXCEPT !.leader = FALSE])
  \/ daemon.pc = "setsid" /\ Becomes("fork2", [daemon EXCEPT !.leader = TRUE, !.tty = FALSE])
  \/ daemon.pc = "fork2" /\ Becomes("close", [daemon EXCEPT !.leader = FALSE])
  \/ daemon.pc = "close" /\ Becomes("reopen", [daemon EXCEPT !.fds = {}])
  \/ daemon.pc = "reopen" /\ Becomes("open", [daemon EXCEPT !.fds = {0, 1, 2}])
  \/ daemon.pc \in {"fork", "fork2", "reopen"} /\ Becomes("gone", daemon))

\* SIGHUP sets a flag and interrupts sleep().
sighupHandler == Daemon(
  /\ daemon.pc # "gone" /\ daemon.hups < MaxCommands /\ UNCHANGED fs
  /\ daemon' = [daemon EXCEPT !.hup = TRUE, !.hups = @ + 1, !.asked = fs.config, !.askedLog = fs.log,
                              !.pc = IF @ = "sleep" THEN "woken" ELSE @])
\* Somebody edits the configuration file, or moves the log file away.
Administrator == Daemon(
  /\ UNCHANGED daemon
  /\ \/ fs.config < MaxCommands /\ fs' = [fs EXCEPT !.config = @ + 1]
     \/ fs.log < MaxCommands /\ fs' = [fs EXCEPT !.log = @ + 1])
Sleeps == Daemon(
  \/ daemon.pc = "sleep" /\ Becomes("look", [daemon EXCEPT !.unslept = 0])
  \/ daemon.pc = "woken" /\ \E n \in 1..daemon.unslept : Becomes("look", [daemon EXCEPT !.unslept = n]))
LooksAtFlag == Daemon(
  /\ daemon.pc = "look"
  /\ Becomes(IF daemon.hup THEN "logClose" ELSE "count", [daemon EXCEPT !.hup = FALSE]))
logOpen == Daemon(
  \/ daemon.pc = "logClose" /\ Becomes("open", daemon)
  \/ daemon.pc = "open" /\ Becomes("read", [daemon EXCEPT !.log = fs.log])
  \/ daemon.pc = "open" /\ Becomes("gone", daemon))
\* A slip: with the files read, the request is done.
readConfigFileDone == Daemon(
  daemon.pc = "read" /\ Becomes("count", [daemon EXCEPT !.config = fs.config, !.hup = FALSE]))
readConfigFile == Daemon(
  daemon.pc = "read" /\ Becomes("count", [daemon EXCEPT !.config = fs.config]))
Counts == Daemon(
  /\ daemon.pc = "count"
  /\ Becomes("sleep", IF daemon.unslept = 0 THEN [daemon EXCEPT !.unslept = SLEEP_TIME] ELSE daemon))
daemon_SIGHUP == sighupHandler \/ Administrator \/ Sleeps \/ LooksAtFlag \/ logOpen \/ readConfigFile \/ Counts

-----------------------------------------------------------------------------
Init ==
  /\ kind \in {"fcntl", "flock", "pid", "daemon"}
  /\ tab = [o \in Owners |-> [b \in Bytes |-> "u"]]
  /\ proc = [p \in Procs |-> [pc |-> "prompt", req |-> CHOOSE c \in Commands : TRUE, said |-> "nothing", count |-> 0, file |-> 0,
                              view |-> [w \in {"posix", "ofd"} |-> [b \in Bytes |-> "u"]]]]
  /\ fs \in [name : {0}, pid : {<<>>}, lock : {<<>>}, delete : BOOLEAN, raced : {FALSE}, config : {1}, log : {1}]
  /\ fs.delete => kind = "pid"
  /\ daemon = [pc |-> "fork", leader |-> TRUE, tty |-> TRUE, fds |-> {0, 1, 2, 3}, hup |-> FALSE, hups |-> 0, asked |-> 0, askedLog |-> 0,
               config |-> 0, log |-> 0, unslept |-> SLEEP_TIME]

Next ==
  \/ i_fcntl_locking \/ t_flock \/ becomeDaemon \/ daemon_SIGHUP
  \/ \E p \in Procs : createPidFile(p) \/ InstanceEnds(p)

Spec == Init /\ [][Next]_vars

-----------------------------------------------------------------------------
\* What the user of i_fcntl_locking was told is what the process has locked,
\* and no two processes wait for each other's locks unless an open file
\* description's lock is among them.  One instance at most is running and the
\* PID file is the one it has locked and names it, though each deletes the file
\* before it ends as create_pid_file.c tells it to (30-31), until a process locks
\* a file that was deleted between its open() and its lock: from then on its
\* "only one instance" (15-16) is not true, and what is left is that no two
\* instances have the same file.  Where nobody deletes the file that never
\* happens.
LocksAsTold ==
  /\ kind = "fcntl" => \A o \in Owners : tab[o] = proc[o[1]].view[o[2]]
  /\ kind = "fcntl" => ~\E p, q \in Procs :
       /\ p # q /\ At(p, "blocked") /\ At(q, "blocked") /\ proc[p].req.cmd = "w" /\ proc[q].req.cmd = "w"
       /\ Conflicts(<<p, "posix">>, lockReg(proc[p].req), proc[p].req.lock) = {<<q, "posix">>}
       /\ Conflicts(<<q, "posix">>, lockReg(proc[q].req), proc[q].req.lock) = {<<p, "posix">>}
  /\ kind = "pid" /\ ~fs.raced => Cardinality(Instances) <= 1 /\ \A p \in Instances : proc[p].file = fs.name /\ fs.pid[fs.name] = p
  /\ kind = "pid" => \A p, q \in Instances : p # q => proc[p].file # proc[q].file
  /\ kind = "pid" /\ fs.raced => fs.delete

\* A SIGHUP that was not acted upon is not forgotten, whenever it came: with
\* the flag clear and no reading under way, daemon_SIGHUP has the configuration
\* and the log file there were when the last SIGHUP came.  It has no terminal
\* and is not the leader of a session, which could get one.
NoHupForgotten ==
  /\ kind = "daemon" /\ ~daemon.hup /\ daemon.pc \in {"sleep", "woken", "look", "count"} =>
       daemon.config >= daemon.asked /\ daemon.log >= daemon.askedLog
  /\ kind = "daemon" /\ daemon.pc \in {"open", "read", "sleep"} => ~daemon.leader /\ ~daemon.tty /\ 3 \notin daemon.fds

-----------------------------------------------------------------------------
(* What LocksAsTold and NoHupForgotten rest on.                            *)

ProcFields == DOMAIN proc = Procs /\ \A p \in Procs : DOMAIN proc[p] = {"pc", "req", "said", "count", "file", "view"}
FsFields == DOMAIN fs = {"name", "pid", "lock", "delete", "raced", "config", "log"}

\* Process q has locked what p asks for.
InTheWay(q, p) == <<q, "posix">> \in Conflicts(<<p, "posix">>, lockReg(proc[p].req), proc[p].req.lock)
Waits(p) == At(p, "blocked") /\ proc[p].req.cmd = "w"

\* Two processes that wait are not in each other's way: what each of them has
\* locked does not change while it waits.
FcntlInv == kind = "fcntl" =>
  /\ DOMAIN tab = Owners /\ ProcFields /\ \A p \in Procs : DOMAIN proc[p].view = {"posix", "ofd"}
  /\ \A o \in Owners : tab[o] = proc[o[1]].view[o[2]]
  /\ \A p, q \in Procs : p # q /\ Waits(p) /\ Waits(q) => ~(InTheWay(p, q) /\ InTheWay(q, p))

\* An instance holds the lock of the file it has open, which has its process
\* ID once it runs, and no other; and that file has the name, unless a deleted
\* one was locked.
Holding == {"truncate", "write", "running", "deleted"}
PidFiles ==
  /\ ProcFields /\ FsFields
  /\ fs.pid \in Seq(Procs \cup {0}) /\ fs.lock \in Seq(Procs \cup {0}) /\ Len(fs.pid) = Len(fs.lock) /\ fs.name \in 0..Len(fs.lock)
  /\ fs.delete \in BOOLEAN /\ fs.raced \in BOOLEAN
  /\ ~fs.delete => fs.name = Len(fs.lock) /\ fs.name <= 1 /\ ~fs.raced
PidOf(p) ==
  /\ proc[p].pc \in {"prompt", "lock"} \cup Holding
  /\ proc[p].pc # "prompt" => proc[p].file \in 1..Len(fs.lock)
  /\ proc[p].pc \in Holding => fs.lock[proc[p].file] = p
  /\ proc[p].pc = "running" => fs.pid[proc[p].file] = p
  /\ ~fs.raced /\ proc[p].pc \in {"truncate", "write", "running"} => proc[p].file = fs.name
  /\ \A i \in 1..Len(fs.lock) : fs.lock[i] = p => proc[p].pc \in Holding /\ proc[p].file = i
PidInv == kind = "pid" => PidFiles /\ \A p \in Procs : PidOf(p)

\* Nothing was asked for later than what there is, and what is being read is
\* read after the flag was cleared.
DaemonInv == kind = "daemon" =>
  /\ FsFields /\ fs.config \in Nat /\ fs.log \in Nat
  /\ DOMAIN daemon = {"pc", "leader", "tty", "fds", "hup", "hups", "asked", "askedLog", "config", "log", "unslept"}
  /\ daemon.asked \in 0..fs.config /\ daemon.askedLog \in 0..fs.log /\ daemon.config \in Nat /\ daemon.log \in Nat
  /\ ~daemon.hup /\ daemon.pc \in {"sleep", "woken", "look", "count"} => daemon.config >= daemon.asked
  /\ ~daemon.hup /\ daemon.pc \in {"read", "sleep", "woken", "look", "count"} => daemon.log >= daemon.askedLog
  /\ daemon.pc = "fork2" => ~daemon.tty
  /\ daemon.pc \in {"close", "reopen", "logClose", "open", "read", "sleep", "woken", "look", "count"} => ~daemon.leader /\ ~daemon.tty
  /\ daemon.pc \in {"reopen", "logClose", "open", "read", "sleep", "woken", "look", "count"} => 3 \notin daemon.fds

IInv == FcntlInv /\ PidInv /\ DaemonInv
=============================================================================
