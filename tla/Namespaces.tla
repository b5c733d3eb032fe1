----------------------------- MODULE Namespaces -----------------------------
(***************************************************************************)
(* tlpi-dist/namespaces: ns_capable.c, which walks through user namespaces *)
(* by descriptors; simple_init.c, an init with a small shell; and the      *)
(* programs that run a command in other namespaces: ns_child_exec.c,       *)
(* ns_exec.c, ns_run.c, unshare.c, multi_pidns.c.                          *)
(***************************************************************************)
EXTENDS Integers, Sequences, FiniteSets

CONSTANTS
  Trees,      \* user namespaces: ns -> parent, the initial one its own
  Children,   \* bound: commands and orphans simple_init has
  Levels      \* nesting of multi_pidns

VARIABLES
  kind,   \* the program
  opt,    \* what it is given
  main,   \* the program: where it is and what it knows
  kids,   \* its children
  sig,    \* SIGCHLD pending, the terminal's foreground group
  fds     \* ns_capable: descriptor -> namespace

vars == <<kind, opt, main, kids, sig, fds>>

At(l) == main.pc = l
Go(l) == main' = [main EXCEPT !.pc = l]

-----------------------------------------------------------------------------
(* ns_capable: open descriptors are numbered by Lowest.                    *)

Capable == kind = "capable" /\ UNCHANGED <<kind, opt, kids, sig>>
Lowest == CHOOSE n \in 1..(Cardinality(DOMAIN fds) + 1) : n \notin DOMAIN fds /\ \A m \in 1..(n - 1) : m \in DOMAIN fds
With(n, s) == [m \in DOMAIN fds \cup {n} |-> IF m = n THEN s ELSE fds[m]]
Less(S) == [m \in DOMAIN fds \ S |-> fds[m]]
Initial(s) == opt.tree[s] = s

userns_from_pid ==
  /\ Capable /\ At("start")
  /\ fds' = With(Lowest, opt.source) /\ main' = [main EXCEPT !.pc = "target", !.source = Lowest]
\* The argument is a user namespace, or a namespace owned by one.
get_userns_from ==
  /\ Capable
  /\ \/ At("target") /\ opt.owned /\ fds' = With(Lowest, opt.target) /\ main' = [main EXCEPT !.pc = "owner", !.other = Lowest]
     \/ At("target") /\ ~opt.owned /\ fds' = With(Lowest, opt.target) /\ main' = [main EXCEPT !.pc = "equal", !.target = Lowest]
     \/ At("owner") /\ fds' = With(Lowest, opt.target) /\ main' = [main EXCEPT !.pc = "close_ns", !.target = Lowest]
     \/ At("close_ns") /\ fds' = Less({main.other}) /\ Go("equal")
\* Device and inode number of what is open.
ns_equal(a, b) == fds[a] = fds[b]
Compare ==
  /\ Capable /\ At("equal") /\ UNCHANGED fds
  /\ main' = IF ns_equal(main.source, main.target) THEN [main EXCEPT !.pc = "close", !.says = "sets"]
             ELSE [main EXCEPT !.pc = "walk", !.child = main.target]

\* One turn of the loop; the descriptor of the target is never closed here.
is_ancestor_userns ==
  /\ Capable /\ At("walk")
  /\ IF Initial(fds[main.child])
     THEN /\ fds' = IF main.child # main.target THEN Less({main.child}) ELSE fds
          /\ main' = [main EXCEPT !.pc = "close", !.says = "none"]
     ELSE LET up == opt.tree[fds[main.child]]
          IN IF up = fds[main.source] THEN UNCHANGED fds /\ Go("owned")
             ELSE /\ fds' = [m \in (DOMAIN fds \cup {Lowest}) \ (IF main.child # main.target THEN {main.child} ELSE {}) |->
                               IF m = Lowest THEN up ELSE fds[m]]
                  /\ main' = [main EXCEPT !.child = Lowest]

\* The owner of the source's child namespace has all capabilities: the
\* effective user ID of the process is the user ID the namespace gives.
uid_of_userns(n) == fds[n]
euid_of_process == opt.owner
Owned ==
  /\ Capable /\ At("owned")
  /\ main' = [main EXCEPT !.pc = "close", !.says = IF euid_of_process = uid_of_userns(main.child) THEN "all" ELSE "sets"]
  /\ fds' = IF main.child # main.target THEN Less({main.child}) ELSE fds
CloseBoth == Capable /\ At("close") /\ fds' = Less({main.source, main.target}) /\ Go("exit")
ns_capable == userns_from_pid \/ get_userns_from \/ Compare \/ is_ancestor_userns \/ Owned \/ CloseBoth

Chain[s \in DOMAIN opt.tree] == IF Initial(s) THEN <<s>> ELSE <<s>> \o Chain[opt.tree[s]]
Verdict ==
  LET c == Chain[opt.target]
      at == {j \in DOMAIN c : c[j] = opt.source}
  IN IF at = {} THEN "none" ELSE IF at = {1} THEN "sets"
     ELSE IF opt.owner = c[(CHOOSE j \in at : TRUE) - 1] THEN "all" ELSE "sets"

-----------------------------------------------------------------------------
(* simple_init: its children are commands, and orphans it inherits.        *)

Shell == kind = "init" /\ UNCHANGED <<kind, opt, fds>>
Alive == {c \in DOMAIN kids : kids[c] \in {"forked", "run", "orphan"}}
Zombies == {c \in DOMAIN kids : kids[c] = "zombie"}

\* fgets(): a command, an empty line, or the end.
ReadCommand ==
  /\ Shell /\ At("prompt") /\ UNCHANGED sig
  /\ \/ \E c \in DOMAIN kids : kids[c] = "none" /\ kids' = [kids EXCEPT ![c] = "forked"] /\ main' = [main EXCEPT !.pc = "forked", !.cmd = c]
     \/ Go("unmount") /\ UNCHANGED kids
Unmount == Shell /\ At("unmount") /\ Go("exit") /\ UNCHANGED <<kids, sig>>
\* The child makes itself the foreground process group; expanding the words or
\* execvp() may fail.
CommandStarts(c) ==
  /\ Shell /\ kids[c] = "forked" /\ main.pc # "exit" /\ UNCHANGED main
  /\ kids' = [kids EXCEPT ![c] = "run"] /\ sig' = [sig EXCEPT !.front = c]
\* A child that dies may leave a child of its own to init.
ChildDies(c) ==
  /\ Shell /\ c \in Alive /\ main.pc # "exit" /\ UNCHANGED main
  /\ sig' = [sig EXCEPT !.chld = TRUE]
  /\ \/ kids' = [kids EXCEPT ![c] = "zombie"]
     \/ \E o \in DOMAIN kids : kids[o] = "none" /\ kids' = [kids EXCEPT ![c] = "zombie", ![o] = "orphan"]

\* A slip: one child per signal.
child_handler_once ==
  /\ Shell /\ sig.chld /\ main.pc # "exit" /\ sig' = [sig EXCEPT !.chld = FALSE]
  /\ kids' = IF Zombies = {} THEN kids ELSE [kids EXCEPT ![CHOOSE c \in Zombies : TRUE] = "reaped"]
  /\ Go(IF At("pause") THEN "front" ELSE main.pc)

\* The handler takes all there are; pause() returns, and so does a read,
\* which is restarted.
child_handler ==
  /\ Shell /\ sig.chld /\ main.pc # "exit" /\ sig' = [sig EXCEPT !.chld = FALSE]
  /\ kids' = [c \in DOMAIN kids |-> IF kids[c] = "zombie" THEN "reaped" ELSE kids[c]]
  /\ Go(IF At("pause") THEN "front" ELSE main.pc)
\* Between fork() and pause() the signal may have come and gone.
Pause == Shell /\ At("forked") /\ Go("pause") /\ UNCHANGED <<kids, sig>>
TakeTerminal == Shell /\ At("front") /\ Go("prompt") /\ sig' = [sig EXCEPT !.front = 0] /\ UNCHANGED kids
simple_init ==
  \/ ReadCommand \/ Unmount \/ child_handler \/ Pause \/ TakeTerminal
  \/ \E c \in DOMAIN kids : CommandStarts(c) \/ ChildDies(c)

-----------------------------------------------------------------------------
(* Launchers.  main.in: the namespaces the program is in.                  *)

Launch == kind \in {"ns_child_exec", "ns_exec", "ns_run", "unshare"} /\ UNCHANGED <<kind, opt, sig, fds>>

\* setns() and unshare() move the caller, but for a PID namespace only its
\* later children.
Enter ==
  /\ Launch /\ kind # "ns_child_exec" /\ At("start") /\ UNCHANGED kids
  /\ \/ main' = [main EXCEPT !.pc = IF opt.fork THEN "fork" ELSE "exec", !.in = opt.types \ {"pid"}]
     \/ Go("failed")
ForkChild ==
  /\ Launch /\ At("fork")
  /\ \/ kids' = [kids EXCEPT ![1] = "run"] /\ main' = [main EXCEPT !.pc = "wait", !.asked = opt.types]
     \* unshare.c takes -1 for a child's PID
     \/ UNCHANGED kids /\ Go(IF kind = "unshare" THEN "wait" ELSE "failed")
CloneChild ==
  /\ Launch /\ kind = "ns_child_exec" /\ At("start")
  /\ \/ kids' = [kids EXCEPT ![1] = "run"] /\ main' = [main EXCEPT !.pc = "wait", !.asked = opt.types]
     \/ UNCHANGED kids /\ Go("failed")
CommandEnds == Launch /\ kids[1] = "run" /\ kids' = [kids EXCEPT ![1] = "zombie"] /\ UNCHANGED main
WaitForChild ==
  /\ Launch /\ At("wait")
  /\ \/ kids[1] = "zombie" /\ kids' = [kids EXCEPT ![1] = "reaped"] /\ Go("exit")
     \/ kids[1] = "none" /\ UNCHANGED kids /\ Go("exit")
ns_child_exec == kind = "ns_child_exec" /\ (CloneChild \/ CommandEnds \/ WaitForChild)
ns_exec == kind = "ns_exec" /\ (Enter \/ ForkChild \/ CommandEnds \/ WaitForChild)
ns_run == kind = "ns_run" /\ (Enter \/ ForkChild \/ CommandEnds \/ WaitForChild)
unshare == kind = "unshare" /\ (Enter \/ ForkChild \/ CommandEnds \/ WaitForChild)

\* multi_pidns: each process clones the next and waits for it; killing one
\* takes with it all that are nested in its namespace.
Nested == kind = "multi_pidns" /\ UNCHANGED <<kind, opt, sig, fds>>
CloneNext(l) ==
  /\ Nested /\ kids[l] = "run" /\ l < Levels /\ kids[l + 1] = "none" /\ UNCHANGED main
  /\ \/ kids' = [kids EXCEPT ![l + 1] = "run"]
     \/ kids' = [kids EXCEPT ![l] = "zombie"]
Ends(l) ==
  /\ Nested /\ kids[l] = "run" /\ UNCHANGED main
  /\ \/ l = Levels /\ kids' = [kids EXCEPT ![l] = "zombie"]
     \/ l > 1 /\ kids' = [k \in DOMAIN kids |-> IF k = l THEN "zombie" ELSE IF k > l /\ kids[k] # "none" THEN "reaped" ELSE kids[k]]
     \/ l < Levels /\ kids[l + 1] = "zombie" /\ kids' = [kids EXCEPT ![l] = "zombie", ![l + 1] = "reaped"]
multi_pidns == \E l \in DOMAIN kids : CloneNext(l) \/ Ends(l)

-----------------------------------------------------------------------------
Kids(n, s) == kids = [c \in 1..n |-> IF c = 1 THEN s ELSE "none"]
Init ==
  /\ kind \in {"capable", "init", "ns_child_exec", "ns_exec", "ns_run", "unshare", "multi_pidns"}
  /\ main = [pc |-> IF kind = "init" THEN "prompt" ELSE "start", source |-> 0, target |-> 0, other |-> 0, child |-> 0,
             cmd |-> 0, says |-> "", in |-> {}, asked |-> {}]
  /\ sig = [chld |-> FALSE, front |-> 0] /\ fds = << >>
  /\ \/ /\ kind = "capable" /\ Kids(1, "none")
        /\ \E t \in Trees : opt \in [tree : {t}, source : DOMAIN t, target : DOMAIN t, owner : DOMAIN t, owned : BOOLEAN]
     \/ kind = "init" /\ opt = << >> /\ Kids(Children, "none")
     \/ /\ kind \in {"ns_child_exec", "ns_exec", "ns_run", "unshare"} /\ Kids(1, "none")
        /\ opt \in [types : SUBSET {"pid", "uts"}, fork : BOOLEAN]
     \/ kind = "multi_pidns" /\ opt = << >> /\ Kids(Levels, "run")

Next ==
  \/ ns_capable \/ simple_init \/ ns_child_exec \/ ns_exec \/ ns_run \/ unshare \/ multi_pidns

Spec == Init /\ [][Next]_vars

-----------------------------------------------------------------------------
\* ns_capable says what the chain of user namespaces from the target upwards
\* says, and has closed every descriptor it opened, none of them twice.
CapableRight ==
  kind = "capable" =>
    /\ At("exit") => main.says = Verdict /\ DOMAIN fds = {}
    /\ Cardinality(DOMAIN fds) <= 4
    /\ At("close") => main.source \in DOMAIN fds /\ main.target \in DOMAIN fds /\ main.source # main.target

\* No child of init is left a zombie while no signal is pending; a command runs
\* in all the namespaces asked for, unless one is a PID namespace the launcher
\* could only give to a child; a launcher ends well only after its command,
\* where one was started, is over; nobody nested outlives its namespace.
CommandsAccounted ==
  /\ kind = "init" /\ Zombies # {} /\ main.pc # "exit" => sig.chld
  /\ kind \in {"ns_child_exec", "ns_exec", "ns_run", "unshare"} =>
       /\ At("exec") => main.in = opt.types \ {"pid"} /\ kids[1] = "none"
       /\ kids[1] # "none" => main.asked = opt.types
       /\ At("exit") => kids[1] = "reaped" \/ (kind = "unshare" /\ kids[1] = "none")
  /\ kind = "multi_pidns" => \A l \in DOMAIN kids : kids[l] \in {"zombie", "reaped"} => \A k \in DOMAIN kids : k > l => kids[k] # "run"

=============================================================================
