----------------------------- MODULE Pipelines ------------------------------
(***************************************************************************)
(* Processes joined by pipes and by a pseudoterminal.  tlpi-dist/pipes:    *)
(* pipe_sync.c, simple_pipe.c, pipe_ls_wc.c, change_case.c and             *)
(* popen_glob.c; tlpi-dist/pty: script.c and unbuffer.c over pty_fork.c    *)
(* and pty_master_open.c.                                                  *)
(***************************************************************************)
EXTENDS Integers, Sequences, SequencesExt, FiniteSets

CONSTANTS
  Kids,         \* the children of pipe_sync; other programs use some of them
  Input,        \* what is written, read or listed, numbers from 1
  Lines,        \* what is typed to popen_glob: sequences of "c", "bad", "nl"
  CAP,          \* what a pipe holds
  PIPE_BUF,     \* what is written in one piece
  BUF_SIZE,     \* what one read() takes
  PAT_SIZE,     \* the pattern buffer of popen_glob
  MaxKills      \* bound: children killed

VARIABLES
  kind,    \* the program
  pipe,    \* the contents of "out" and "in"
  ends,    \* of each process, the pipe ends it has open
  proc,    \* of each process: its position and what it holds
  io,      \* standard input and output, and what popen_glob ran
  pty      \* the terminals of script and unbuffer

vars == <<kind, pipe, ends, proc, io, pty>>

main == 0
Procs == {main} \cup Kids
Live == {q \in Procs : proc[q].pc \notin {"none", "gone"}}
Writers(p) == {q \in Procs : <<"w", p>> \in ends[q]}
Readers(p) == {q \in Procs : <<"r", p>> \in ends[q]}
At(q, l) == proc[q].pc = l
Goes(q, l) == [proc EXCEPT ![q].pc = l]
Mine(k, p) == kind \in k /\ p /\ UNCHANGED kind

-----------------------------------------------------------------------------
(* The calls on pipes.                                                     *)

\* A process is gone; its descriptors are closed.
Gone(q) == proc' = Goes(q, "gone") /\ ends' = [ends EXCEPT ![q] = {}] /\ UNCHANGED <<pipe, io, pty>>

\* fork(): the child has what the parent has.
Fork(q, c, l) ==
  \/ /\ proc' = [proc EXCEPT ![q].pc = l, ![c].pc = "close"]
     /\ ends' = [ends EXCEPT ![c] = ends[q]] /\ UNCHANGED <<pipe, io, pty>>
  \/ Gone(q)

Close(q, which, l) == ends' = [ends EXCEPT ![q] = @ \ which] /\ proc' = Goes(q, l) /\ UNCHANGED <<pipe, io, pty>>

HasRoom(p, block) == Len(pipe[p]) + (IF Len(block) <= PIPE_BUF THEN Len(block) ELSE 1) <= CAP
\* write() of the whole of a block; SIGPIPE when nobody can read.
WriteBlock(q, p, block, l) ==
  IF Readers(p) = {} THEN Gone(q)
  ELSE /\ HasRoom(p, block) /\ UNCHANGED <<ends, io, pty>>
       /\ LET room == CAP - Len(pipe[p])
              n == IF Len(block) < room THEN Len(block) ELSE room
          IN /\ pipe' = [pipe EXCEPT ![p] = @ \o SubSeq(block, 1, n)]
             /\ proc' = [proc EXCEPT ![q].pc = IF n = Len(block) THEN l ELSE @, ![q].buf = SubSeq(block, n + 1, Len(block))]

\* read(): the end of the file when nobody can write.
ReadBlock(q, p, l, atEnd) ==
  IF pipe[p] # <<>>
  THEN LET n == IF Len(pipe[p]) < BUF_SIZE THEN Len(pipe[p]) ELSE BUF_SIZE
       IN /\ pipe' = [pipe EXCEPT ![p] = SubSeq(@, n + 1, Len(@))] /\ UNCHANGED <<ends, io, pty>>
          /\ proc' = [proc EXCEPT ![q].pc = l, ![q].buf = SubSeq(pipe[p], 1, n)]
  ELSE Writers(p) = {} /\ proc' = Goes(q, atEnd) /\ UNCHANGED <<pipe, ends, io, pty>>

Output(q, l) ==
  io' = [io EXCEPT !.shown = @ \o proc[q].buf] /\ proc' = [proc EXCEPT ![q].pc = l, ![q].buf = <<>>] /\ UNCHANGED <<pipe, ends, pty>>
Exits(q) == At(q, "exit") /\ Gone(q)
WaitsFor(q, C) == At(q, "wait") /\ C \cap Live = {} /\ Gone(q)
Killed == Mine({"sync", "simple", "lswc", "case"},
  /\ Cardinality(io.killed) < MaxKills
  /\ \E c \in Kids \cap Live :
       /\ proc' = Goes(c, "gone") /\ ends' = [ends EXCEPT ![c] = {}] /\ UNCHANGED <<pipe, pty>>
       /\ io' = [io EXCEPT !.killed = @ \cup {c}])

-----------------------------------------------------------------------------
(* The programs; the first child is 1, the second 2.                       *)

ForkFirst(left) == \E c \in left : (\A d \in left : c <= d) /\ Fork(main, c, "fork")
\* A slip: the write end stays open.
SyncParentKeepsEnd ==
  \/ At(main, "fork") /\ LET left == {c \in Kids : At(c, "none")}
       IN IF left = {} THEN Close(main, {}, "read") ELSE ForkFirst(left)
  \/ At(main, "read") /\ ReadBlock(main, "out", "exit", "exit")
SyncParent ==
  \/ At(main, "fork") /\ LET left == {c \in Kids : At(c, "none")}
       IN IF left = {} THEN Close(main, {<<"w", "out">>}, "read") ELSE ForkFirst(left)
  \/ At(main, "read") /\ ReadBlock(main, "out", "exit", "exit")
pipe_sync == Mine({"sync"},
  \/ SyncParent \/ Exits(main)
  \/ \E c \in Kids : \/ At(c, "close") /\ Close(c, {<<"r", "out">>}, "work")
                     \/ At(c, "work") /\ Close(c, {<<"w", "out">>}, "exit")
                     \/ Exits(c))

simple_pipe == Mine({"simple"},
  \/ At(main, "fork") /\ Fork(main, 1, "close")
  \/ At(main, "close") /\ Close(main, {<<"r", "out">>}, "write")
  \/ At(main, "write") /\ WriteBlock(main, "out", proc[main].buf, "closeAll")
  \/ At(main, "closeAll") /\ Close(main, {<<"w", "out">>}, "wait")
  \/ WaitsFor(main, {1})
  \/ At(1, "close") /\ Close(1, {<<"w", "out">>}, "read")
  \/ At(1, "read") /\ ReadBlock(1, "out", "print", "exit")
  \/ At(1, "print") /\ Output(1, "read")
  \/ Exits(1))

\* ls writes its list and wc counts to the end.
pipe_ls_wc == Mine({"lswc"},
  \/ At(main, "fork") /\ Fork(main, 1, "fork2")
  \/ At(main, "fork2") /\ Fork(main, 2, "close")
  \/ At(main, "close") /\ Close(main, {<<"r", "out">>, <<"w", "out">>}, "wait")
  \/ WaitsFor(main, {1, 2})
  \/ At(1, "close") /\ ends' = [ends EXCEPT ![1] = @ \ {<<"r", "out">>}] /\ proc' = [proc EXCEPT ![1] = [pc |-> "write", buf |-> Input]]
                    /\ UNCHANGED <<pipe, io, pty>>
  \/ At(1, "write") /\ WriteBlock(1, "out", proc[1].buf, "exit")
  \/ At(2, "close") /\ Close(2, {<<"w", "out">>}, "read")
  \/ At(2, "read") /\ ReadBlock(2, "out", "print", "exit")
  \/ At(2, "print") /\ Output(2, "read")
  \/ Exits(1) \/ Exits(2))

Upper(b) == [j \in DOMAIN b |-> -b[j]]
ChangeChild ==
  \/ At(1, "close") /\ Close(1, {<<"w", "out">>, <<"r", "in">>}, "read")
  \/ At(1, "read") /\ ReadBlock(1, "out", "upper", "exit")
  \/ At(1, "upper") /\ proc' = [proc EXCEPT ![1].pc = "write", ![1].buf = Upper(@)] /\ UNCHANGED <<pipe, ends, io, pty>>
  \/ At(1, "write") /\ WriteBlock(1, "in", proc[1].buf, "read")
\* An end of the inbound pipe does not end the loop.
ChangeParent ==
  \/ At(main, "fork") /\ Fork(main, 1, "close")
  \/ At(main, "close") /\ Close(main, {<<"r", "out">>, <<"w", "in">>}, "input")
  \/ /\ At(main, "input") /\ UNCHANGED <<pipe, ends, pty>>
     /\ IF io.stdin = <<>> THEN proc' = Goes(main, "exit") /\ UNCHANGED io
        ELSE \E n \in 1..BUF_SIZE :
               /\ n <= Len(io.stdin) /\ io' = [io EXCEPT !.stdin = SubSeq(@, n + 1, Len(@))]
               /\ proc' = [proc EXCEPT ![main] = [pc |-> "write", buf |-> SubSeq(io.stdin, 1, n)]]
  \/ At(main, "write") /\ WriteBlock(main, "out", proc[main].buf, "read")
  \/ At(main, "read") /\ ReadBlock(main, "in", "print", "input")
  \/ At(main, "print") /\ Output(main, "input")
change_case == Mine({"case"}, ChangeParent \/ ChangeChild \/ Exits(1) \/ Exits(main))

\* fgets() takes n characters: to the newline, or as many as the buffer does.
Fgets(s, n) ==
  /\ n < PAT_SIZE /\ \A j \in 1..(n - 1) : s[j] # "nl"
  /\ n = Len(s) \/ n = PAT_SIZE - 1 \/ (n > 0 /\ s[n] = "nl")
Stripped(p) == IF p[Len(p)] = "nl" THEN SubSeq(p, 1, Len(p) - 1) ELSE p
ValidPattern(p) == \A j \in DOMAIN Stripped(p) : p[j] # "bad"
\* ls, started by popen(), prints a name for a pattern; pclose() waits.
popen_glob == Mine({"glob"},
  /\ At(main, "fork") /\ UNCHANGED <<pipe, ends, pty>>
  /\ \E n \in 0..Len(io.stdin), fails \in BOOLEAN :
       LET pat == SubSeq(io.stdin, 1, n) IN
       /\ Fgets(io.stdin, n)
       /\ IF n = 0 THEN proc' = Goes(main, "gone") /\ UNCHANGED io
          ELSE /\ UNCHANGED proc
               /\ io' = [io EXCEPT !.stdin = SubSeq(@, n + 1, Len(@)),
                                   !.ran = IF n <= 1 \/ ~ValidPattern(pat) \/ fails THEN @ ELSE Append(@, Stripped(pat))])

-----------------------------------------------------------------------------
(* script and unbuffer: main relays between the terminal and the master,   *)
(* 1 is the shell, or the program, on the slave.                           *)

Relays == {"script", "unbuffer"}
Pty(p) == kind \in Relays /\ p /\ UNCHANGED <<kind, pipe, ends, io>>
Set(l, t) == proc' = Goes(main, l) /\ pty' = t
\* The program does not read: nothing more can be written to the master.
InputFull == Len(pty.in) >= CAP /\ pty.slave /\ ~pty.hup
\* exit(): the handler puts the terminal back.
ttyReset(t) == IF t.atexit THEN [t EXCEPT !.tty = "orig"] ELSE t

\* Each of the calls may fail; the master is then closed.
ptyMasterOpen == Pty(
  /\ At(main, "fork")
  /\ \/ Set("ptyFork", [pty EXCEPT !.master = TRUE])
     \/ Set("gone", pty))
ptyFork == Pty(
  \/ At(main, "ptyFork") /\ UNCHANGED pty /\ proc' = [proc EXCEPT ![main].pc = IF kind = "script" THEN "open" ELSE "raw", ![1].pc = "slave"]
  \/ At(main, "ptyFork") /\ Set("gone", [pty EXCEPT !.master = FALSE])
  \/ At(1, "slave") /\ pty' = [pty EXCEPT !.slave = TRUE] /\ proc' = Goes(1, "dup")
  \/ At(1, "slave") /\ UNCHANGED pty /\ proc' = Goes(1, "gone")
  \/ At(1, "dup") /\ UNCHANGED pty /\ proc' = Goes(1, "exec"))
\* What the program on the slave does: it writes, reads or ends, which closes
\* the slave; in write() it is held up by a full terminal until that is read,
\* or hung up.
Shell == Pty(
  \/ At(1, "exec") /\ pty.wrote < Len(Input) /\ proc' = Goes(1, "put") /\ UNCHANGED pty
  \/ At(1, "exec") /\ pty.in # <<>> /\ pty' = [pty EXCEPT !.in = Tail(@), !.got = Append(@, Head(pty.in))] /\ UNCHANGED proc
  \/ At(1, "put") /\ Len(pty.out) < CAP /\ proc' = Goes(1, "exec")
       /\ pty' = [pty EXCEPT !.wrote = @ + 1, !.out = Append(@, pty.wrote + 1)]
  \/ /\ At(1, "exec") \/ (At(1, "put") /\ At(main, "gone"))
     /\ proc' = Goes(1, "gone") /\ pty' = [pty EXCEPT !.hup = TRUE])
OpenTypescript == Pty(
  /\ At(main, "open")
  /\ \/ Set("raw", pty)
     \/ Set("gone", pty))
\* A failure of ttySetRaw() is passed over; one of atexit() ends the program
\* with the terminal as it then is.
SetRaw == Pty(At(main, "raw") /\ \E t \in {"orig", "raw"} : Set("atexit", [pty EXCEPT !.tty = t]))
RegisterReset == Pty(
  /\ At(main, "atexit")
  /\ \/ Set("select", [pty EXCEPT !.atexit = TRUE])
     \/ Set("gone", [pty EXCEPT !.why = "atexit"]))
SelectBoth == Pty(
  /\ At(main, "select")
  /\ LET ready == (IF pty.out # <<>> \/ pty.hup THEN {"master"} ELSE {}) \cup (IF pty.typed <= Len(Input) THEN {"stdin"} ELSE {})
     IN \E s \in SUBSET ready : s # {} /\ ("master" \in ready => "master" \in s) /\ Set("stdin", [pty EXCEPT !.ready = s]))
\* pty.typed characters were typed; then the terminal hangs up.  The write to
\* the master may fail, and waits while the slave's side is full.
RelayInput == Pty(
  /\ At(main, "stdin")
  /\ IF "stdin" \notin pty.ready THEN Set("master", pty)
     ELSE IF pty.typed = Len(Input) THEN Set("gone", ttyReset([pty EXCEPT !.why = "stdin", !.typed = @ + 1]))
     ELSE \/ Len(pty.in) < CAP /\ Set("master", [pty EXCEPT !.typed = @ + 1, !.in = Append(@, Input[pty.typed + 1])])
          \/ ~InputFull /\ Set("gone", ttyReset([pty EXCEPT !.why = "write", !.typed = @ + 1])))
\* read() fails (EIO) when the slave is closed and everything was read.
ReadMaster == Pty(
  /\ At(main, "master")
  /\ IF "master" \notin pty.ready THEN Set("select", pty)
     ELSE IF pty.out = <<>> THEN Set("gone", ttyReset([pty EXCEPT !.why = "master"]))
     ELSE \E n \in 1..BUF_SIZE :
            /\ n <= Len(pty.out)
            /\ \/ Set("gone", ttyReset([pty EXCEPT !.why = "write", !.out = SubSeq(@, n + 1, Len(@))]))
               \/ Set(IF kind = "script" THEN "typescript" ELSE "select", [pty EXCEPT !.out = SubSeq(@, n + 1, Len(@)), !.shown = @ \o SubSeq(pty.out, 1, n)]))
\* The block goes to the typescript after the terminal; an error ends all.
WriteTypescript == Pty(
  /\ At(main, "typescript")
  /\ \/ Set("select", [pty EXCEPT !.script = pty.shown])
     \/ Set("gone", ttyReset([pty EXCEPT !.why = "write"])))
script == kind = "script" /\ (OpenTypescript \/ SetRaw \/ RegisterReset \/ SelectBoth \/ RelayInput \/ ReadMaster \/ WriteTypescript)
unbuffer == kind = "unbuffer" /\ (SetRaw \/ RegisterReset \/ SelectBoth \/ RelayInput \/ ReadMaster)

-----------------------------------------------------------------------------
Init ==
  /\ kind \in {"sync", "simple", "lswc", "case", "glob", "script", "unbuffer"}
  /\ pipe = [p \in {"out", "in"} |-> <<>>]
  /\ ends = [q \in Procs |-> IF q # main THEN {} ELSE {"r", "w"} \X (IF kind = "case" THEN {"out", "in"} ELSE {"out"})]
  /\ proc = [q \in Procs |-> [pc |-> IF q = main THEN "fork" ELSE "none", buf |-> IF q = main /\ kind = "simple" THEN Input ELSE <<>>]]
  /\ \E l \in Lines : io = [stdin |-> IF kind = "glob" THEN l ELSE Input, shown |-> <<>>, ran |-> <<>>, killed |-> {}]
  /\ pty = [master |-> FALSE, slave |-> FALSE, hup |-> FALSE, tty |-> "orig", atexit |-> FALSE, ready |-> {}, in |-> <<>>, out |-> <<>>,
            got |-> <<>>, typed |-> 0, wrote |-> 0, shown |-> <<>>, script |-> <<>>, why |-> "none"]

Next ==
  \/ pipe_sync \/ simple_pipe \/ pipe_ls_wc \/ change_case \/ popen_glob \/ Killed
  \/ ptyMasterOpen \/ ptyFork \/ Shell \/ script \/ unbuffer

Spec == Init /\ [][Next]_vars

-----------------------------------------------------------------------------
\* Those on whom a process that is held up at a pipe, or in wait(), depends.
Needs(q) ==
  CASE At(q, "read") /\ kind = "case" /\ q = main -> IF pipe["in"] = <<>> THEN Writers("in") ELSE {}
    [] At(q, "read") /\ ~(kind = "case" /\ q = main) -> IF pipe["out"] = <<>> THEN Writers("out") ELSE {}
    [] At(q, "write") -> LET p == IF kind = "case" /\ q = 1 THEN "in" ELSE "out" IN IF HasRoom(p, proc[q].buf) THEN {} ELSE Readers(p)
    [] At(q, "wait") -> Kids \cap Live
    [] At(q, "stdin") -> IF "stdin" \in pty.ready /\ pty.typed < Len(Input) /\ InputFull THEN {1} ELSE {}
    [] At(q, "put") -> IF Len(pty.out) >= CAP /\ ~At(main, "gone") THEN {main} ELSE {}
    [] OTHER -> {}

\* script or unbuffer writes what was typed to a terminal that is full, and
\* the program writes to it, which is full the other way.
FullBothWays ==
  kind \in Relays /\ At(main, "stdin") /\ At(1, "put") /\ Len(pty.in) >= CAP /\ Len(pty.out) >= CAP

\* No processes hold each other up for ever: not by a pipe end that one of
\* them forgot to close, by two full pipes, or in wait().  The relays of script
\* and unbuffer do in one case, that of FullBothWays.
NoCircle ==
  FullBothWays \/ \A S \in SUBSET Live : S # {} => \E q \in S : Needs(q) = {} \/ ~(Needs(q) \subseteq S)

\* pipe_sync's parent goes on only when every child has done its work or is
\* dead.  What is printed is what was put in, and all of it at the end unless
\* a child was killed or not made.  popen_glob runs no pattern with a character that is not allowed,
\* however long lines are cut.  Script shows all the shell wrote when it ends
\* because the shell ended, the typescript is what was shown, but for a failed
\* write, and both relays leave the terminal as it was unless atexit() failed
\* between ttySetRaw() and the loop.
PassedOn ==
  /\ kind = "sync" /\ At(main, "exit") => \A c \in Kids : proc[c].pc \in {"exit", "gone"}
  /\ kind \in {"simple", "lswc"} => IsPrefix(io.shown, Input)
  /\ kind = "case" => IsPrefix(Upper(io.shown), Input)
  /\ kind \in {"simple", "lswc", "case"} /\ Live = {} /\ io.killed = {} /\ proc[1].pc = "gone" =>
       Len(io.shown) = Len(Input) \/ (kind = "lswc" /\ proc[2].pc = "none")
  /\ kind = "glob" => \A j \in DOMAIN io.ran : \A k \in DOMAIN io.ran[j] : io.ran[j][k] # "bad"
  /\ kind \in Relays /\ At(main, "gone") => (pty.tty = "orig" \/ pty.why = "atexit") /\ (pty.why = "master" => Len(pty.shown) = pty.wrote)
  /\ kind = "script" => IsPrefix(pty.script, pty.shown) /\ (At(main, "select") \/ pty.why \in {"stdin", "master"} => pty.script = pty.shown)

-----------------------------------------------------------------------------
(* The inductive invariant.                                                *)

Labels ==
  {"none", "gone", "fork", "fork2", "close", "work", "write", "read", "print", "upper", "input", "closeAll", "wait", "exit",
   "ptyFork", "open", "raw", "atexit", "put", "select", "stdin", "master", "typescript", "slave", "dup", "exec"}
Pipe == {"out", "in"}
Both(p) == {<<"r", p>>, <<"w", p>>}
Chars == {"c", "bad", "nl"}

States == [pc : Labels, buf : Seq(Int)]
Streams == [stdin : IF kind = "glob" THEN Seq(Chars) ELSE Seq(Int), shown : Seq(Int), ran : Seq(Seq(Chars)), killed : SUBSET Kids]
Terminals ==
  [master : BOOLEAN, slave : BOOLEAN, hup : BOOLEAN, tty : {"orig", "raw"}, atexit : BOOLEAN, ready : SUBSET {"master", "stdin"},
   in : Seq(Int), out : Seq(Int), got : Seq(Int), typed : Nat, wrote : Nat, shown : Seq(Int), script : Seq(Int),
   why : {"none", "stdin", "master", "write", "atexit"}]

TypeOK ==
  /\ kind \in {"sync", "simple", "lswc", "case", "glob", "script", "unbuffer"}
  /\ pipe \in [Pipe -> Seq(Int)] /\ ends \in [Procs -> SUBSET ({"r", "w"} \X Pipe)] /\ proc \in [Procs -> States]
  /\ io \in Streams /\ pty \in Terminals

\* Where the processes of a program can be; others do not exist.
Places(q) ==
  CASE kind = "sync" -> IF q = main THEN {"fork", "read", "exit", "gone"} ELSE {"none", "close", "work", "exit", "gone"}
    [] kind = "simple" /\ q = main -> {"fork", "close", "write", "closeAll", "wait", "gone"}
    [] kind = "simple" /\ q = 1 -> {"none", "close", "read", "print", "exit", "gone"}
    [] kind = "lswc" /\ q = main -> {"fork", "fork2", "close", "wait", "gone"}
    [] kind = "lswc" /\ q = 1 -> {"none", "close", "write", "exit", "gone"}
    [] kind = "lswc" /\ q = 2 -> {"none", "close", "read", "print", "exit", "gone"}
    [] kind = "case" /\ q = main -> {"fork", "close", "input", "write", "read", "print", "exit", "gone"}
    [] kind = "case" /\ q = 1 -> {"none", "close", "read", "upper", "write", "exit", "gone"}
    [] kind = "glob" /\ q = main -> {"fork", "gone"}
    [] kind \in Relays /\ q = main -> {"fork", "ptyFork", "open", "raw", "atexit", "select", "stdin", "master", "typescript", "gone"}
    [] kind \in Relays /\ q = 1 -> {"none", "slave", "dup", "exec", "put", "gone"}
    [] OTHER -> {"none"}

\* The ends a process has follow from where it is.
Held(q, l) ==
  CASE l \in {"none", "gone"} -> {}
    [] kind = "case" /\ l \in {"fork", "close"} -> Both("out") \cup Both("in")
    [] kind = "case" /\ l \notin {"none", "gone", "fork", "close"} ->
         IF q = main THEN {<<"w", "out">>, <<"r", "in">>} ELSE {<<"r", "out">>, <<"w", "in">>}
    [] kind # "case" /\ l \in {"fork", "fork2", "close"} -> Both("out")
    [] kind = "sync" /\ q = main /\ l \in {"read", "exit"} -> {<<"r", "out">>}
    [] kind = "sync" /\ q # main /\ l = "work" -> {<<"w", "out">>}
    [] kind = "simple" /\ q = main /\ l \in {"write", "closeAll"} -> {<<"w", "out">>}
    [] kind = "simple" /\ q # main /\ l \in {"read", "print", "exit"} -> {<<"r", "out">>}
    [] kind = "lswc" /\ q = 1 /\ l \in {"write", "exit"} -> {<<"w", "out">>}
    [] kind = "lswc" /\ q = 2 /\ l \in {"read", "print", "exit"} -> {<<"r", "out">>}
    [] OTHER -> {}

PlaceInv == \A q \in Procs : proc[q].pc \in Places(q) /\ (kind \notin Relays \cup {"glob"} => ends[q] = Held(q, proc[q].pc))

\* Block s is what comes after the first k of a.
Follows(a, s, k) == k + Len(s) <= Len(a) /\ \A i \in DOMAIN s : s[i] = a[k + i]

SyncInv ==
  /\ pipe["out"] = <<>>
  /\ At(main, "read") \/ At(main, "exit") => \A c \in Kids : ~At(c, "none")
  /\ At(main, "exit") => \A c \in Kids : proc[c].pc \in {"exit", "gone"}

\* What is printed, what the reader holds, what is in the pipe and what the
\* writer holds are one after the other what was put in.
InLine(reader, writer) ==
  LET g == Len(io.shown)
      h == g + Len(proc[reader].buf)
      n == h + Len(pipe["out"])
  IN /\ Follows(Input, io.shown, 0) /\ Follows(Input, proc[reader].buf, g) /\ Follows(Input, pipe["out"], h)
     /\ Follows(Input, proc[writer].buf, n)
     /\ proc[reader].pc \in {"none", "close", "read"} => proc[reader].buf = <<>>
Total(reader, writer) == Len(io.shown) + Len(proc[reader].buf) + Len(pipe["out"]) + Len(proc[writer].buf) = Len(Input)

SimpleInv ==
  /\ InLine(1, main) /\ Total(1, main)
  /\ proc[main].pc \in {"closeAll", "wait"} => proc[main].buf = <<>>
  /\ At(main, "fork") => At(1, "none")
  /\ proc[main].pc \in {"close", "write", "closeAll", "wait"} => ~At(1, "none")
  /\ At(main, "gone") /\ ~At(1, "none") /\ io.killed = {} => proc[main].buf = <<>>
  /\ proc[1].pc \in {"exit", "gone"} /\ io.killed = {} =>
       pipe["out"] = <<>> /\ proc[1].buf = <<>> /\ proc[main].pc \in {"wait", "gone"}

LswcInv ==
  /\ InLine(2, 1)
  /\ proc[1].pc \in {"none", "close"} => io.shown = <<>> /\ proc[2].buf = <<>> /\ pipe["out"] = <<>> /\ proc[1].buf = <<>>
  /\ At(1, "write") \/ At(1, "exit") => Total(2, 1)
  /\ At(1, "exit") => proc[1].buf = <<>>
  /\ At(1, "gone") /\ io.killed = {} /\ ~(At(2, "none") /\ At(main, "gone")) => Total(2, 1) /\ proc[1].buf = <<>>
  /\ proc[2].pc \in {"exit", "gone"} /\ io.killed = {} => At(1, "gone") /\ pipe["out"] = <<>> /\ proc[2].buf = <<>>
  /\ At(main, "fork") => At(1, "none")
  /\ At(main, "fork2") => ~At(1, "none") /\ At(2, "none")
  /\ At(main, "close") \/ At(main, "wait") => ~At(2, "none")
  /\ At(1, "none") => At(2, "none")

\* One block at most is under way between change_case's processes, and it is
\* in one place; b is that block, behind what was shown.
CaseSum(b) == Len(io.shown) + Len(b) + Len(io.stdin) = Len(Input)
Idle == pipe["out"] = <<>> /\ pipe["in"] = <<>> /\ proc[1].buf = <<>> /\ proc[1].pc \in {"none", "close", "read", "exit"}
OneBlock ==
  LET g == Len(io.shown) IN
  \/ /\ pipe["out"] # <<>> /\ Len(pipe["out"]) <= BUF_SIZE /\ Follows(Input, pipe["out"], g) /\ CaseSum(pipe["out"])
     /\ pipe["in"] = <<>> /\ proc[1].buf = <<>> /\ proc[1].pc \in {"close", "read"}
  \/ /\ proc[1].buf # <<>> /\ Len(proc[1].buf) <= BUF_SIZE /\ CaseSum(proc[1].buf) /\ pipe["out"] = <<>> /\ pipe["in"] = <<>>
     /\ \/ At(1, "upper") /\ Follows(Input, proc[1].buf, g)
        \/ At(1, "write") /\ Follows(Upper(Input), proc[1].buf, g)
  \/ /\ pipe["in"] # <<>> /\ Follows(Upper(Input), pipe["in"], g) /\ CaseSum(pipe["in"])
     /\ pipe["out"] = <<>> /\ proc[1].buf = <<>> /\ At(1, "read")
CaseInv ==
  LET g == Len(io.shown)
      b == proc[main].buf
  IN /\ Follows(Upper(Input), io.shown, 0) /\ Follows(Input, io.stdin, Len(Input) - Len(io.stdin))
     /\ Len(io.stdin) <= Len(Input) /\ Len(pipe["in"]) <= BUF_SIZE
     /\ At(main, "fork") => At(1, "none")
     /\ proc[main].pc \notin {"fork", "gone"} => ~At(1, "none")
     /\ At(1, "exit") => At(main, "gone")
     /\ ~At(1, "gone") =>
          /\ proc[main].pc \in {"fork", "close", "input", "exit", "gone"} => Idle /\ CaseSum(<<>>)
          /\ At(main, "print") => Idle /\ CaseSum(b) /\ Follows(Upper(Input), b, g)
          /\ At(main, "write") => Idle /\ CaseSum(b) /\ Follows(Input, b, g) /\ b # <<>> /\ Len(b) <= BUF_SIZE
          /\ At(main, "read") => OneBlock
          /\ At(main, "exit") \/ (At(main, "gone") /\ ~At(1, "none")) => io.stdin = <<>>
     /\ At(1, "gone") =>
          /\ IF At(main, "print") THEN pipe["in"] = <<>> /\ Follows(Upper(Input), b, g) ELSE Follows(Upper(Input), pipe["in"], g)
          /\ io.killed = {} => At(main, "gone") /\ g = Len(Input)

GlobInv == \A j \in DOMAIN io.ran : \A k \in DOMAIN io.ran[j] : io.ran[j][k] # "bad"

RelayInv ==
  /\ pty.why = "write" \/ pty.wrote = Len(pty.out) + Len(pty.shown)
  /\ At(main, "fork") \/ At(main, "ptyFork") => At(1, "none")
  /\ pty.hup => At(1, "gone")
  /\ "master" \in pty.ready /\ (At(main, "stdin") \/ At(main, "master")) => pty.out # <<>> \/ pty.hup
  /\ "stdin" \in pty.ready /\ At(main, "stdin") => pty.typed <= Len(Input)
  /\ pty.tty = "raw" => pty.atexit \/ At(main, "atexit") \/ pty.why = "atexit"
  /\ proc[main].pc \in {"fork", "ptyFork", "open", "raw", "gone"} => pty.tty = "orig" \/ pty.why = "atexit"
  /\ pty.why # "none" => At(main, "gone")
  /\ pty.why = "master" => pty.hup /\ pty.out = <<>>
  /\ kind = "script" =>
       /\ IsPrefix(pty.script, pty.shown)
       /\ At(main, "typescript") \/ pty.why = "write" \/ pty.script = pty.shown

IInv ==
  /\ TypeOK /\ PlaceInv
  /\ kind = "sync" => SyncInv
  /\ kind = "simple" => SimpleInv
  /\ kind = "lswc" => LswcInv
  /\ kind = "case" => CaseInv
  /\ kind = "glob" => GlobInv
  /\ kind \in Relays => RelayInv
=============================================================================
