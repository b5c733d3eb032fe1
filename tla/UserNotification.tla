-------------------------- MODULE UserNotification --------------------------
(***************************************************************************)
(* seccomp_unotify_mkdir.c and seccomp_unotify_openat.c: a target whose    *)
(* system calls wait for the answer of a supervisor, its parent.           *)
(***************************************************************************)
EXTENDS Integers, Sequences, SequencesExt, FiniteSets

CONSTANTS
  MaxArgs,     \* bound: pathnames on the command line
  MaxFaults    \* bound: signals sent to the target

VARIABLES
  kind,     \* the program, its options and its arguments
  target,   \* where the target is, its next argument, what its calls returned
  notif,    \* the call that waits: its number and whether it was received
  sup,      \* the supervisor
  made,     \* directories made, and by whom: argument number, or 0
  fds,      \* openat: descriptors that supervisor and target hold for files
  faults

vars == <<kind, target, notif, sup, made, fds, faults>>

\* Pathnames: "/tmp/a", "./a", "/bye", another one, one of PATH_MAX bytes or more.
Paths == {"tmp", "dot", "bye", "etc", "long"}
NoNotif == [id |-> 0, received |-> FALSE]
Garbage == "garbage"        \* what path[] holds before anything is read into it

Alive == target.pc # "dead"
cookieIsValid == notif.id = sup.id /\ notif.id # 0

\* The call of the target returns r, and the next argument is looked at; a
\* success of openat() is followed by reading and close().
Return(r) ==
  target' = [target EXCEPT !.pc = "call", !.i = @ + 1, !.got = Append(@, r)]

Die == target' = [target EXCEPT !.pc = "dead"] /\ notif' = NoNotif
       /\ sup' = [sup EXCEPT !.chld = sup.handler /\ sup.pc # "ended"]

\* The supervisor is gone, and with it the listener: who waits gets ENOSYS.
Ends ==
  /\ sup' = [sup EXCEPT !.pc = "ended", !.chld = FALSE] /\ notif' = NoNotif
  /\ IF notif.id # 0 THEN Return("ENOSYS") ELSE UNCHANGED target

-----------------------------------------------------------------------------
(* The target.                                                             *)

\* The handler, the filters, sendfd(), and everything closed again.
targetProcess ==
  /\ target.pc = "setup" /\ target' = [target EXCEPT !.pc = "call", !.sent = TRUE]
  /\ UNCHANGED <<kind, notif, sup, made, fds, faults>>

\* With "-f e" the second filter answers, and nothing is notified.
Call ==
  /\ target.pc = "call" /\ target.i <= Len(kind.args) /\ fds.target = 0
  /\ IF kind.second = "e" THEN Return("ENOTSUP") /\ UNCHANGED notif
     ELSE IF sup.pc = "ended" THEN Return("ENOSYS") /\ UNCHANGED notif
     ELSE /\ target' = [target EXCEPT !.pc = "blocked"]
          /\ notif' = [id |-> target.i, received |-> FALSE]
  /\ UNCHANGED <<kind, sup, made, fds, faults>>

CloseFile ==
  /\ fds.target > 0 /\ target.pc = "call" /\ fds' = [fds EXCEPT !.target = @ - 1]
  /\ UNCHANGED <<kind, target, notif, sup, made, faults>>

Terminate ==
  /\ target.pc = "call" /\ target.i > Len(kind.args) /\ fds.target = 0 /\ Die
  /\ UNCHANGED <<kind, made, fds, faults>>

\* SIGINT: the handler of the mkdir program returns, the call gives EINTR.
sigintHandler ==
  /\ faults < MaxFaults /\ faults' = faults + 1
  /\ kind.prog = "mkdir" /\ target.pc = "blocked" /\ Return("EINTR") /\ notif' = NoNotif
  /\ UNCHANGED <<kind, sup, made, fds>>

Killed ==
  /\ faults < MaxFaults /\ faults' = faults + 1 /\ Alive /\ Die
  /\ UNCHANGED <<kind, made, fds>>

-----------------------------------------------------------------------------
(* The supervisor.                                                         *)

Sup(f) == sup' = f /\ UNCHANGED <<kind, target, notif, made, fds, faults>>
Quits == Ends /\ UNCHANGED <<kind, made, fds, faults>>

\* The target runs already; a SIGCHLD from before is lost.
HandleSigchld == sup.pc = "start" /\ Sup([sup EXCEPT !.pc = "recvfd", !.handler = TRUE])

\* It keeps its own end of the socket open and waits.
supervisor == sup.pc = "recvfd" /\ target.sent /\ Sup([sup EXCEPT !.pc = "recv"])

sigchldHandler == sup.chld /\ sup.pc # "ended" /\ Quits

\* SECCOMP_IOCTL_NOTIF_RECV.
Receive ==
  /\ sup.pc = "recv" /\ notif.id # 0 /\ ~notif.received
  /\ notif' = [notif EXCEPT !.received = TRUE]
  /\ sup' = [sup EXCEPT !.pc = IF kind.delay THEN "delay" ELSE "open", !.id = notif.id]
  /\ UNCHANGED <<kind, target, made, fds, faults>>

\* The ID is checked before and after the delay.
Delay ==
  /\ sup.pc \in {"delay", "delayed"}
  /\ IF cookieIsValid THEN Sup([sup EXCEPT !.pc = IF sup.pc = "delay" THEN "delayed" ELSE "open"]) ELSE Quits

\* open(), a first check, pread(), a second check.  A target that is dead, a
\* zombie, has no memory to read.
getTargetPathname ==
  \/ sup.pc = "open" /\ Sup([sup EXCEPT !.pc = IF cookieIsValid THEN "pread" ELSE "status",
                                        !.status = IF cookieIsValid THEN 0 ELSE -1])
  \/ sup.pc = "pread" /\ Sup([sup EXCEPT !.pc = IF Alive THEN "check" ELSE "status",
                                         !.status = IF Alive THEN 0 ELSE -1,
                                         !.path = IF Alive THEN kind.args[sup.id] ELSE @])
  \/ sup.pc = "check" /\ Sup([sup EXCEPT !.pc = "status",
                                         !.status = IF cookieIsValid /\ sup.path # "long" THEN 0 ELSE -1])

\* mkdir() on behalf of the target.
MakeDirectory ==
  /\ sup.pc = "status" /\ kind.prog = "mkdir" /\ sup.status = 0 /\ sup.path = "tmp"
  /\ LET ok == \A m \in made : m[1] # "tmp"
     IN /\ made' = IF ok THEN made \cup {<<"tmp", sup.id>>} ELSE made
        /\ sup' = [sup EXCEPT !.pc = "send", !.resp = IF ok THEN "made" ELSE "EEXIST"]
  /\ UNCHANGED <<kind, target, notif, fds, faults>>

\* The other answers of the mkdir program.
Answer ==
  /\ sup.pc = "status" /\ (sup.status # 0 \/ (kind.prog = "mkdir" /\ sup.path # "tmp"))
  /\ Sup([sup EXCEPT !.pc = "send",
            !.resp = IF sup.status # 0 THEN "EINVAL" ELSE IF sup.path = "dot" THEN "continue" ELSE "EOPNOTSUPP"])

\* openat(), or its failure; then the descriptor is duplicated into the target.
OpenFile ==
  /\ sup.pc = "status" /\ kind.prog = "openat" /\ sup.status = 0
  /\ \/ /\ fds' = [fds EXCEPT !.sup = @ + 1] /\ sup' = [sup EXCEPT !.pc = "addfd"]
     \/ sup' = [sup EXCEPT !.pc = "send", !.resp = "EACCES"] /\ UNCHANGED fds
  /\ UNCHANGED <<kind, target, notif, made, faults>>
AddFd ==
  /\ sup.pc = "addfd"
  /\ IF cookieIsValid
       THEN /\ fds' = [sup |-> fds.sup - 1, target |-> fds.target + 1]
            /\ sup' = [sup EXCEPT !.pc = "send", !.resp = "fd"]
            /\ UNCHANGED <<kind, target, notif, made, faults>>
       ELSE Ends /\ fds' = [fds EXCEPT !.sup = 0] /\ UNCHANGED <<kind, made, faults>>

\* A slip: the response carries the ID of the first notification.
SendStale ==
  /\ sup.pc = "send" /\ UNCHANGED <<kind, fds, faults, made>>
  /\ sup' = [sup EXCEPT !.pc = IF sup.path = "bye" THEN "bye" ELSE "recv"]
  /\ IF cookieIsValid /\ sup.id = 1 THEN Return(sup.resp) /\ notif' = NoNotif
     ELSE UNCHANGED <<target, notif>>

\* SECCOMP_IOCTL_NOTIF_SEND; ENOENT is reported and nothing more.  After
\* CONTINUE the kernel executes the call.  path[] is then compared with
\* "/bye" whatever came of it; before anything was read it may hold anything.
Send ==
  /\ sup.pc = "send" /\ UNCHANGED <<kind, fds, faults>>
  /\ \E bye \in IF kind.prog = "mkdir" /\ sup.path = Garbage THEN BOOLEAN
                ELSE {kind.prog = "mkdir" /\ sup.path = "bye"} :
       sup' = [sup EXCEPT !.pc = IF bye THEN "bye" ELSE "recv"]
  /\ IF ~cookieIsValid THEN UNCHANGED <<target, notif, made>>
     ELSE /\ notif' = NoNotif
          /\ LET dot == <<kind.args[notif.id], notif.id>>
                 new == dot[1] \notin {m[1] : m \in made}
             IN IF sup.resp # "continue" THEN Return(sup.resp) /\ UNCHANGED made
                ELSE Return(IF new THEN "made" ELSE "EEXIST")
                     /\ made' = IF new THEN made \cup {dot} ELSE made

Bye == sup.pc = "bye" /\ Quits

-----------------------------------------------------------------------------
Init ==
  /\ kind \in [prog : {"mkdir", "openat"}, delay : BOOLEAN, second : {"none", "e", "t"},
               args : UNION {[1..n -> Paths] : n \in 1..MaxArgs}]
  /\ kind.prog = "openat" => ~kind.delay /\ kind.second = "none" /\ Range(kind.args) \subseteq {"tmp", "long"}
  /\ target = [pc |-> "setup", sent |-> FALSE, i |-> 1, got |-> <<>>]
  /\ notif = NoNotif
  /\ sup = [pc |-> "start", id |-> 0, path |-> Garbage, status |-> 0, resp |-> "none",
            handler |-> FALSE, chld |-> FALSE]
  /\ made = {} /\ fds = [sup |-> 0, target |-> 0] /\ faults = 0

Target == targetProcess \/ Call \/ CloseFile \/ Terminate \/ sigintHandler \/ Killed
Supervisor ==
  \/ HandleSigchld \/ supervisor \/ sigchldHandler \/ Receive \/ Delay \/ getTargetPathname
  \/ MakeDirectory \/ Answer \/ OpenFile \/ AddFd \/ Send \/ Bye
Next == Target \/ Supervisor
Spec == Init /\ [][Next]_vars

-----------------------------------------------------------------------------
\* A target that waits in its call is waited for: its notification is still
\* to be received by a supervisor that will do so, or it is the one the
\* supervisor works on.  No answer is lost on the way.
BlockedIsServed ==
  target.pc = "blocked" =>
    /\ notif.id = target.i /\ sup.pc # "ended"
    /\ notif.received => sup.id = notif.id /\ sup.pc \notin {"start", "recvfd", "recv", "bye"}

\* What the calls returned is true: who is told that the directory was made
\* had it made in this very call, who is told that it exists finds it made in
\* an earlier one, and EINVAL and EOPNOTSUPP go to the pathnames they are for.
\* No file stays open in a supervisor that waits for the next call.
AnswersTrue ==
  /\ sup.pc = "recv" => fds.sup = 0
  /\ \A i \in DOMAIN target.got :
       LET p == kind.args[i]
           r == target.got[i]
       IN /\ r = "made" => p \in {"tmp", "dot"} /\ <<p, i>> \in made
          /\ r = "EEXIST" => \E m \in made : m[1] = p /\ m[2] < i
          /\ r = "EINVAL" => p = "long"
          /\ r = "EOPNOTSUPP" => p \in {"etc", "bye"}
          /\ r = "ENOTSUP" => kind.second = "e"
          /\ r = "ENOSYS" => sup.pc = "ended"

-----------------------------------------------------------------------------
(* What BlockedIsServed and AnswersTrue rest on.                           *)

NumArgs == Len(kind.args)
Reading == {"delay", "delayed", "open", "pread", "check", "status"}   \* the pathname is not dealt with yet
Working == Reading \cup {"addfd", "send"}
Answers == {"none", "made", "continue", "fd", "EEXIST", "EINVAL", "EOPNOTSUPP", "EACCES", "EINTR", "ENOTSUP", "ENOSYS"}

TypeOK ==
  /\ kind.args \in Seq(Paths) /\ kind.prog \in {"mkdir", "openat"}
  /\ DOMAIN target = {"pc", "sent", "i", "got"} /\ target.pc \in {"setup", "call", "blocked", "dead"}
  /\ target.i \in 1..NumArgs + 1 /\ target.got \in Seq(Answers) /\ Len(target.got) = target.i - 1
  /\ DOMAIN notif = {"id", "received"}
  /\ DOMAIN sup = {"pc", "id", "path", "status", "resp", "handler", "chld"} /\ sup.id \in 0..NumArgs /\ sup.resp \in Answers
  /\ sup.pc \in Working \cup {"start", "recvfd", "recv", "bye", "ended"}
  /\ fds \in [sup : Nat, target : Nat]
  /\ made \subseteq Paths \X (1..NumArgs)

\* A call waits exactly as long as there is a notification of it, and there
\* is a supervisor; one that was received is the one it works on.
Pending ==
  /\ target.pc = "blocked" <=> notif.id # 0
  /\ notif.id # 0 => notif.id = target.i /\ target.i <= NumArgs /\ sup.pc # "ended" /\ kind.second # "e"
  /\ notif.id # 0 /\ notif.received => notif.id = sup.id /\ sup.pc \in Working

\* A notification that became invalid stays so: its call is over, or the
\* target dead.
Overtaken ==
  /\ sup.pc \in Working => sup.id >= 1 /\ (cookieIsValid \/ target.i > sup.id \/ ~Alive)
  /\ sup.pc \notin Working => target.i > sup.id \/ ~Alive

\* What is known of the pathname on the way to the answer.
PathRead ==
  /\ sup.pc = "check" => sup.path = kind.args[sup.id]
  /\ sup.pc = "status" /\ sup.status = 0 => sup.path = kind.args[sup.id] /\ sup.path # "long"
  /\ sup.pc = "status" /\ sup.status # 0 /\ cookieIsValid => kind.args[sup.id] = "long"

\* Directories were made for calls up to the one worked on.
MadeBefore == \A m \in made : m[2] <= sup.id /\ (sup.pc \in Reading \/ (sup.pc = "send" /\ sup.resp = "continue") => m[2] < sup.id)

\* What an answer r to call i says of it.
TrueOf(i, r) ==
  LET p == kind.args[i] IN
  /\ r = "made" => p \in {"tmp", "dot"} /\ <<p, i>> \in made
  /\ r = "EEXIST" => \E m \in made : m[1] = p /\ m[2] < i
  /\ r = "EINVAL" => p = "long"
  /\ r = "EOPNOTSUPP" => p \in {"etc", "bye"}
  /\ r = "ENOTSUP" => kind.second = "e"
  /\ r = "ENOSYS" => sup.pc = "ended"
ToBeTold == sup.pc = "send" /\ cookieIsValid => TrueOf(sup.id, sup.resp) /\ (sup.resp = "continue" => kind.args[sup.id] = "dot")
Told == \A i \in DOMAIN target.got : TrueOf(i, target.got[i])
FilesHeld == sup.pc # "ended" => fds.sup = IF sup.pc = "addfd" THEN 1 ELSE 0

IInv == TypeOK /\ Pending /\ Overtaken /\ PathRead /\ MadeBefore /\ ToBeTold /\ Told /\ FilesHeld
=============================================================================
