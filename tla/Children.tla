------------------------------ MODULE Children ------------------------------
(***************************************************************************)
(* Parents and children of tlpi-dist/procexec: multi_SIGCHLD.c,            *)
(* multi_wait.c, child_status.c, fork_sig_sync.c, orphan.c, the two        *)
(* versions of system() (system.c, simple_system.c) in a caller that has   *)
(* another child and a SIGCHLD handler like that of multi_SIGCHLD.c, and   *)
(* the search of execlp.c through PATH.                                    *)
(***************************************************************************)
EXTENDS Integers, Sequences, FiniteSets

CONSTANTS
  Kids,         \* the children of multi_SIGCHLD and multi_wait, in order 1..n
  Prefixes,     \* the number of prefixes in PATH
  MaxSignals    \* bound: signals from outside

VARIABLES
  kind,    \* the program
  par,     \* the parent: where it is, a counter, status or errno
  ch,      \* each child: "none", "run", "stopped", "zombie" or "reaped"
  sig,     \* SIGCHLD: blocked, pending; SIGINT's disposition; signals sent
  how      \* what is given: the caller's disposition, what execve() gives

vars == <<kind, par, ch, sig, how>>

Cmd == 1        \* the child of system()
Mine == 2       \* the other child of its caller

At(l) == par.pc = l
Go(l) == par' = [par EXCEPT !.pc = l]
Zombies == {c \in DOMAIN ch : ch[c] = "zombie"}
Running == {c \in DOMAIN ch : ch[c] \in {"run", "stopped"}}
Reap(c) == ch' = [ch EXCEPT ![c] = "reaped"]
Step(p) == p /\ UNCHANGED <<kind, how>>

-----------------------------------------------------------------------------
(* What children do.                                                       *)

\* A child of fork_sig_sync is done with its work before it signals.
ChildExits(c) == Step(
  /\ ch[c] = "run" /\ (kind = "sync" => par.told) /\ kind # "orphan"
  /\ ch' = [ch EXCEPT ![c] = "zombie"] /\ sig' = [sig EXCEPT !.pending = TRUE]
  /\ par' = IF kind \in {"system", "simple"} /\ c = Cmd /\ par.got = "none" THEN [par EXCEPT !.got = "exited"] ELSE par)

-----------------------------------------------------------------------------
(* multi_SIGCHLD and multi_wait.                                           *)

Multi == kind \in {"sigchld", "wait"}

BlockSigchld == Step(
  /\ Multi /\ At("start") /\ par' = [par EXCEPT !.pc = "fork", !.n = Cardinality(Kids)]
  /\ sig' = [sig EXCEPT !.blocked = (kind = "sigchld")] /\ UNCHANGED ch)

ForkNext == Step(
  /\ Multi /\ At("fork") /\ UNCHANGED sig
  /\ \/ (\A c \in Kids : ch[c] # "none") /\ Go("loop") /\ UNCHANGED ch
     \/ \E c \in Kids :
          /\ ch[c] = "none" /\ \A b \in Kids : b < c => ch[b] # "none"
          /\ ch' = [ch EXCEPT ![c] = "run"] /\ UNCHANGED par)

\* sigsuspend() with an empty mask, or the end.
Suspend == Step(
  /\ kind = "sigchld" /\ At("loop") /\ Go(IF par.n > 0 THEN "suspended" ELSE "exit") /\ UNCHANGED <<ch, sig>>)

\* The handler runs with SIGCHLD blocked, and only inside sigsuspend(): main()
\* has it blocked everywhere else.
Deliver == Step(
  /\ kind = "sigchld" /\ sig.pending /\ At("suspended")
  /\ sig' = [sig EXCEPT !.pending = FALSE] /\ Go("handler") /\ UNCHANGED ch)

\* A slip: one child per signal.
sigchldHandlerOne == Step(
  /\ kind = "sigchld" /\ At("handler") /\ UNCHANGED sig
  /\ \/ \E c \in Zombies : Reap(c) /\ par' = [par EXCEPT !.n = @ - 1, !.pc = "handled"]
     \/ Zombies = {} /\ Go("handled") /\ UNCHANGED ch)

\* waitpid(-1, WNOHANG) until it finds nobody; then it sleeps.
sigchldHandler == Step(
  /\ kind = "sigchld" /\ At("handler") /\ UNCHANGED sig
  /\ \/ \E c \in Zombies : Reap(c) /\ par' = [par EXCEPT !.n = @ - 1]
     \/ Zombies = {} /\ Go("handled") /\ UNCHANGED ch)

HandlerReturns == Step(kind = "sigchld" /\ At("handled") /\ Go("loop") /\ UNCHANGED <<ch, sig>>)

\* wait() until ECHILD.
Wait == Step(
  /\ kind = "wait" /\ At("loop") /\ UNCHANGED sig
  /\ \/ \E c \in Zombies : Reap(c) /\ par' = [par EXCEPT !.n = @ - 1]
     \/ Zombies = {} /\ Running = {} /\ Go("exit") /\ UNCHANGED ch)

-----------------------------------------------------------------------------
(* child_status, fork_sig_sync and orphan: one child.                      *)

\* fork_sig_sync blocks SYNC_SIG first.
ForkOne == Step(
  /\ kind \in {"status", "sync", "orphan"} /\ At("start") /\ Go("forked")
  /\ ch' = [ch EXCEPT ![1] = "run"] /\ UNCHANGED sig)

\* waitpid() with WUNTRACED and WCONTINUED tells of a stopped child too.
StopOrContinue == Step(
  /\ kind = "status" /\ sig.sent < MaxSignals /\ ch[1] \in {"run", "stopped"} /\ par' = [par EXCEPT !.got = ch[1]]
  /\ ch' = [ch EXCEPT ![1] = IF ch[1] = "run" THEN "stopped" ELSE "run"]
  /\ sig' = [sig EXCEPT !.sent = @ + 1])
WaitStatus == Step(
  /\ kind = "status" /\ At("forked") /\ UNCHANGED sig
  /\ \/ ch[1] \in {"run", "stopped"} /\ par.got # "none" /\ par' = [par EXCEPT !.got = "none"] /\ UNCHANGED ch
     \/ ch[1] = "zombie" /\ Reap(1) /\ Go("exit"))

\* The child works and then sends SYNC_SIG, blocked in the parent until it is
\* in sigsuspend().
SignalParent == Step(
  /\ kind = "sync" /\ ch[1] = "run" /\ ~par.told /\ par' = [par EXCEPT !.told = TRUE] /\ UNCHANGED <<ch, sig>>)
AwaitSignal == Step(
  /\ kind = "sync" /\ At("forked") /\ par.told /\ Go("exit") /\ UNCHANGED <<ch, sig>>)

\* The child looks at getppid() until it is another one.
ParentExits == Step(kind = "orphan" /\ At("forked") /\ Go("exit") /\ UNCHANGED <<ch, sig>>)
SeesOrphaned == Step(
  /\ kind = "orphan" /\ At("exit") /\ ch[1] = "run" /\ ch' = [ch EXCEPT ![1] = "reaped"] /\ UNCHANGED <<par, sig>>)

-----------------------------------------------------------------------------
(* system().                                                               *)

System == kind \in {"system", "simple"}

BeginSystem == Step(
  /\ kind = "system" /\ At("start") /\ Go("ignore") /\ sig' = [sig EXCEPT !.blocked = TRUE] /\ UNCHANGED ch)
IgnoreInterrupts == Step(
  /\ kind = "system" /\ At("ignore") /\ Go("fork") /\ sig' = [sig EXCEPT !.int = "ignore"] /\ UNCHANGED ch)

\* The child has SIGINT ignored until it has it as the caller had it, a
\* handler of the caller's excepted; with simple_system it inherits that.
ForkCommand == Step(
  /\ \/ kind = "system" /\ At("fork")
     \/ kind = "simple" /\ At("start")
  /\ UNCHANGED sig
  /\ \/ ch' = [ch EXCEPT ![Cmd] = "run"] /\ par' = [par EXCEPT !.pc = "waitpid", !.got = "none", !.kid = sig.int]
     \/ UNCHANGED ch /\ par' = [par EXCEPT !.pc = IF kind = "system" THEN "restore" ELSE "returned", !.status = "nofork"])
ChildDispositions == Step(
  /\ kind = "system" /\ ch[Cmd] = "run" /\ par.kid # how.int /\ par' = [par EXCEPT !.kid = how.int] /\ UNCHANGED <<ch, sig>>)

\* The caller's handler takes every child it finds.
CallersHandler == Step(
  /\ System /\ sig.pending /\ ~sig.blocked /\ par.pc # "killed"
  /\ sig' = [sig EXCEPT !.pending = FALSE]
  /\ ch' = [c \in DOMAIN ch |-> IF ch[c] = "zombie" THEN "reaped" ELSE ch[c]] /\ UNCHANGED par)

\* waitpid(childPid): only this child; ECHILD if it is gone already.
WaitCommand == Step(
  /\ System /\ At("waitpid") /\ UNCHANGED sig
  /\ \/ ch[Cmd] = "zombie" /\ Reap(Cmd) /\ par' = [par EXCEPT !.pc = IF kind = "system" THEN "restore" ELSE "returned", !.status = par.got]
     \/ ch[Cmd] = "reaped" /\ UNCHANGED ch
        /\ par' = [par EXCEPT !.pc = IF kind = "system" THEN "restore" ELSE "returned", !.status = "error"])

Restore == Step(
  /\ kind = "system" /\ UNCHANGED ch
  /\ \/ At("restore") /\ Go("dispositions") /\ sig' = [sig EXCEPT !.blocked = FALSE]
     \/ At("dispositions") /\ Go("returned") /\ sig' = [sig EXCEPT !.int = how.int])

\* Ctrl-C goes to the caller and to the command.
Interrupt == Step(
  /\ System /\ sig.sent < MaxSignals /\ par.pc # "killed"
  /\ LET hit == ch[Cmd] = "run" /\ par.kid = "default"
     IN /\ ch' = IF hit THEN [ch EXCEPT ![Cmd] = "zombie"] ELSE ch
        /\ sig' = [sig EXCEPT !.sent = @ + 1, !.pending = @ \/ hit]
        /\ par' = [par EXCEPT !.pc = IF sig.int = "default" THEN "killed" ELSE @, !.got = IF hit THEN "signalled" ELSE @])

-----------------------------------------------------------------------------
(* execlp(): each prefix in turn, a script given to the shell.             *)

\* The shell is given the script, if there is a shell.
execShScript == how.shell
TryPrefix == Step(
  /\ kind = "execlp" /\ At("start") /\ UNCHANGED <<ch, sig>>
  /\ LET r == how.exec[par.n + 1]
     IN par' = IF r = "ok" \/ (r = "ENOEXEC" /\ execShScript) THEN [par EXCEPT !.pc = "exec"]
               ELSE [par EXCEPT !.n = @ + 1, !.status = r, !.told = @ \/ r = "EACCES",
                                !.pc = IF par.n + 1 = Prefixes THEN "failed" ELSE "start"])
ReturnErrno == Step(
  /\ kind = "execlp" /\ At("failed") /\ UNCHANGED <<ch, sig>>
  /\ par' = [par EXCEPT !.pc = "returned", !.status = IF par.told THEN "EACCES" ELSE @])

-----------------------------------------------------------------------------
Init ==
  /\ kind \in {"sigchld", "wait", "status", "sync", "orphan", "system", "simple", "execlp"}
  /\ how \in [int : {"default", "ignore"}, shell : BOOLEAN,
              exec : [1..Prefixes -> {"ok", "ENOENT", "EACCES", "ENOEXEC"}]]
  /\ kind \notin {"system", "simple"} => how.int = "default"
  /\ kind # "execlp" => how.shell /\ \A i \in 1..Prefixes : how.exec[i] = "ok"
  /\ par = [pc |-> "start", n |-> 0, got |-> "none", status |-> "unset", told |-> FALSE, kid |-> "default"]
  /\ ch = [c \in Kids |-> IF kind \in {"system", "simple"} /\ c = Mine THEN "run" ELSE "none"]
  /\ sig = [blocked |-> FALSE, pending |-> FALSE, int |-> how.int, sent |-> 0]

multi_SIGCHLD == ForkNext \/ Suspend \/ Deliver \/ sigchldHandler \/ HandlerReturns
multi_wait == BlockSigchld \/ Wait
child_status == StopOrContinue \/ WaitStatus
fork_sig_sync == ForkOne \/ SignalParent \/ AwaitSignal
orphan == ParentExits \/ SeesOrphaned
simple_system == ForkCommand \/ WaitCommand \/ CallersHandler \/ Interrupt
system == BeginSystem \/ IgnoreInterrupts \/ ChildDispositions \/ Restore
execlp == TryPrefix \/ ReturnErrno
Next ==
  \/ \E c \in Kids : ChildExits(c)
  \/ multi_SIGCHLD \/ multi_wait \/ child_status \/ fork_sig_sync \/ orphan
  \/ simple_system \/ system \/ execlp

Spec == Init /\ [][Next]_vars

-----------------------------------------------------------------------------
\* multi_SIGCHLD never sleeps for a child that is gone already, although
\* signals that come while SIGCHLD is blocked are merged into one; nobody
\* ends before all children are reaped, or before the child has signalled.
NobodyWaitsInVain ==
  /\ kind = "sigchld" /\ par.pc # "start" => par.n = Cardinality({c \in Kids : ch[c] # "reaped"})
  /\ kind = "sigchld" /\ At("suspended") => sig.pending \/ Running # {}
  /\ Multi /\ At("exit") => par.n = 0 /\ \A c \in Kids : ch[c] = "reaped"
  /\ kind = "status" /\ At("exit") => ch[1] = "reaped"
  /\ kind = "sync" /\ At("exit") => par.told
  /\ kind = "orphan" /\ ch[1] = "reaped" => At("exit")

\* system() gives its caller the status of its command, whatever handler the
\* caller has for SIGCHLD; it leaves mask and dispositions as they were; while
\* the command runs an interrupt does not kill the caller; and an end of the
\* other child is never forgotten.  execlp() returns only when no prefix has
\* the program, with EACCES if any prefix gave it.
CallersKept ==
  /\ kind = "system" /\ At("returned") =>
       /\ ~sig.blocked /\ sig.int = how.int
       /\ par.status \in {"nofork", "exited", "signalled"}
       /\ par.status = par.got \/ par.status = "nofork"
       /\ par.status # "nofork" => ch[Cmd] = "reaped"
  /\ kind = "system" /\ ch[Mine] = "zombie" => sig.pending
  /\ kind = "system" /\ At("killed") => par.status # "unset" \/ ch[Cmd] = "none"
  /\ kind = "execlp" /\ At("returned") =>
       /\ \A i \in 1..Prefixes : how.exec[i] # "ok" /\ (how.exec[i] = "ENOEXEC" => ~how.shell)
       /\ par.status = IF \E i \in 1..Prefixes : how.exec[i] = "EACCES" THEN "EACCES" ELSE how.exec[Prefixes]

-----------------------------------------------------------------------------
(* The inductive invariant.                                                *)

States == {"none", "run", "stopped", "zombie", "reaped"}
Errors == {"ok", "ENOENT", "EACCES", "ENOEXEC"}
Labels == {"start", "fork", "loop", "suspended", "handler", "handled", "exit", "forked", "ignore", "waitpid", "restore",
           "dispositions", "returned", "killed", "exec", "failed"}
Got == {"none", "run", "stopped", "exited", "signalled"}

TypeOK ==
  /\ kind \in {"sigchld", "wait", "status", "sync", "orphan", "system", "simple", "execlp"}
  /\ how \in [int : {"default", "ignore"}, shell : BOOLEAN, exec : [1..Prefixes -> Errors]]
  /\ par \in [pc : Labels, n : Int, got : Got, status : Got \cup Errors \cup {"unset", "nofork", "error"}, told : BOOLEAN,
              kid : {"default", "ignore"}]
  /\ ch \in [Kids -> States]
  /\ sig \in [blocked : BOOLEAN, pending : BOOLEAN, int : {"default", "ignore"}, sent : Nat]

\* The counter is right from the moment it is set, and outside the handler a
\* child that has exited is announced by a pending signal.
MultiInv ==
  /\ par.pc \in {"start", "fork", "loop", "suspended", "handler", "handled", "exit"}
  /\ At("start") => \A c \in Kids : ch[c] = "none"
  /\ ~At("start") => par.n = Cardinality({c \in Kids : ch[c] # "reaped"})
  /\ par.pc \notin {"start", "fork"} => \A c \in Kids : ch[c] # "none"
  /\ kind = "sigchld" /\ ~At("handler") /\ Zombies # {} => sig.pending
  /\ At("suspended") => par.n > 0
  /\ At("exit") => \A c \in Kids : ch[c] = "reaped"

\* SIGCHLD is blocked and SIGINT ignored around the command, which only
\* system() can reap then.
SystemInv ==
  /\ par.pc \in {"start", "ignore", "fork", "waitpid", "restore", "dispositions", "returned", "killed"}
  /\ ~At("killed") => (sig.blocked <=> par.pc \in {"ignore", "fork", "waitpid", "restore"})
  /\ par.pc \in {"fork", "waitpid", "restore", "dispositions"} => sig.int = "ignore"
  /\ par.pc \in {"start", "ignore", "returned"} => sig.int = how.int
  /\ par.pc \in {"start", "ignore", "fork"} => ch[Cmd] = "none"
  /\ At("waitpid") =>
       \/ ch[Cmd] = "run" /\ par.got = "none"
       \/ ch[Cmd] = "zombie" /\ par.got \in {"exited", "signalled"}
  /\ par.pc \in {"restore", "dispositions", "returned"} =>
       \/ par.status = "nofork" /\ ch[Cmd] = "none"
       \/ par.status \in {"exited", "signalled"} /\ par.status = par.got /\ ch[Cmd] = "reaped"
  /\ At("killed") => par.status # "unset" \/ ch[Cmd] = "none"
  /\ ch[Mine] = "zombie" => sig.pending

\* The prefixes tried so far.
ExeclpInv ==
  /\ par.pc \in {"start", "failed", "returned", "exec"}
  /\ par.n \in 0..Prefixes
  /\ At("start") => par.n < Prefixes
  /\ par.pc \in {"failed", "returned"} => par.n = Prefixes
  /\ \A i \in 1..par.n : how.exec[i] # "ok" /\ (how.exec[i] = "ENOEXEC" => ~how.shell)
  /\ par.told <=> \E i \in 1..par.n : how.exec[i] = "EACCES"
  /\ par.pc \in {"start", "failed"} /\ par.n > 0 => par.status = how.exec[par.n]
  /\ At("returned") => par.status = IF par.told THEN "EACCES" ELSE how.exec[Prefixes]

IInv ==
  /\ TypeOK
  /\ Multi => MultiInv
  /\ kind = "system" => SystemInv
  /\ kind = "execlp" => ExeclpInv
  /\ kind \in {"status", "sync", "orphan"} => NobodyWaitsInVain
=============================================================================
