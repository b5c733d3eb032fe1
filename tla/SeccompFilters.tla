--------------------------- MODULE SeccompFilters ---------------------------
(***************************************************************************)
(* The BPF filters of tlpi-dist/seccomp, run by the kernel on every system *)
(* call of a process, and dump_seccomp_filter.c and seccomp_launch.c,      *)
(* which write an installed filter to a file and install it from there.    *)
(***************************************************************************)
EXTENDS Integers, Sequences, SequencesExt, FiniteSets

CONSTANTS
  Args,      \* values of an argument, its low half
  Icnt,      \* how many instructions seccomp_bench is asked for
  MaxDumps   \* bound: filters dumped

VARIABLES
  todo,      \* the filters the program has still to install
  filters,   \* the filters of the process, in the order of their installation
  file,      \* the dump: its instructions and whether half of one follows
  call,      \* the system call that is judged, or NoCall
  cpu,       \* which filter runs, its program counter, its accumulator
  verdict    \* the strictest answer so far

vars == <<todo, filters, file, call, cpu, verdict>>

X86_64 == 1
I386 == 2
Other == 3
X32_SYSCALL_BIT == 1073741824
NR_open == 2
NR_lseek == 8
NR_mkdir == 83
NR_getppid == 110
NR_mq_notify_x86_64 == 244
NR_openat == 257
NR_mq_notify_i386 == 281
NR_mq_notify_x32 == 527
O_CREAT == 64
O_ACCESS == 3               \* O_WRONLY | O_RDWR

\* What a filter answers: the smaller the first number, the stricter.
KILL == <<0, 0>>
TRAP == <<2, 0>>
ERRNO(e) == <<3, e>>
USER_NOTIF == <<4, 0>>
TRACE == <<5, 0>>
LOG == <<6, 0>>
ALLOW == <<7, 0>>
ENOTSUP == 95

Ld(w) == <<"ld", w>>
Jeq(k, t, f) == <<"jeq", k, t, f>>
Jge(k, t, f) == <<"jge", k, t, f>>
Jgt(k, t, f) == <<"jgt", k, t, f>>
Jset(k, t, f) == <<"jset", k, t, f>>
Ja(n) == <<"ja", n>>
Add(k) == <<"add", k>>
Ret(r) == <<"ret", r>>

-----------------------------------------------------------------------------
(* The filters, instruction by instruction.                                *)

X86_64_CHECK_ARCH_AND_LOAD_SYSCALL_NR ==
  <<Ld("arch"), Jeq(X86_64, 0, 2), Ld("nr"), Jge(X32_SYSCALL_BIT, 0, 1), Ret(KILL)>>

DenyOpen == X86_64_CHECK_ARCH_AND_LOAD_SYSCALL_NR
  \o <<Jeq(NR_open, 2, 0), Jeq(NR_openat, 1, 0), Ret(ALLOW), Ret(KILL)>>

\* A slip: the jump to the flags is one too short.
ControlOpenShort == X86_64_CHECK_ARCH_AND_LOAD_SYSCALL_NR
  \o <<Jeq(NR_open, 0, 2), Ld("arg1"), Ja(2), Jeq(NR_openat, 1, 0), Ret(ALLOW), Ld("arg2"),
       Jset(O_CREAT, 0, 1), Ret(KILL), Jset(O_ACCESS, 0, 1), Ret(ERRNO(ENOTSUP)), Ret(ALLOW)>>

ControlOpen == X86_64_CHECK_ARCH_AND_LOAD_SYSCALL_NR
  \o <<Jeq(NR_open, 0, 2), Ld("arg1"), Ja(3), Jeq(NR_openat, 1, 0), Ret(ALLOW), Ld("arg2"),
       Jset(O_CREAT, 0, 1), Ret(KILL), Jset(O_ACCESS, 0, 1), Ret(ERRNO(ENOTSUP)), Ret(ALLOW)>>

Multiarch ==
  <<Ld("arch"), Jeq(X86_64, 0, 5), Ld("nr"),
    Jeq(NR_mq_notify_x86_64, 0, 1), Ret(ERRNO(NR_mq_notify_x86_64)),
    Jeq(NR_mq_notify_x32 + X32_SYSCALL_BIT, 0, 5), Ret(ERRNO(NR_mq_notify_x32)),
    Jeq(I386, 0, 4), Ld("nr"), Jeq(NR_mq_notify_i386, 0, 1), Ret(ERRNO(NR_mq_notify_i386)),
    Ret(ALLOW), Ret(KILL)>>

Arg64 == X86_64_CHECK_ARCH_AND_LOAD_SYSCALL_NR
  \o <<Jeq(NR_lseek, 1, 0), Ret(ALLOW), Ld("arg1hi"), Jeq(0, 1, 0), Ret(ERRNO(2)),
       Ld("arg1"), Jgt(1000, 0, 1), Ret(ERRNO(1)), Ret(ALLOW)>>

DenySyscall(n) == <<Ld("nr"), Jeq(n, 1, 0), Ret(ALLOW), Ret(KILL)>>

TrapSigsys ==
  <<Ld("arch"), Jeq(X86_64, 1, 0), Ret(KILL), Ld("nr"), Jge(X32_SYSCALL_BIT, 0, 1), Ret(KILL),
    Jeq(NR_getppid, 0, 1), Ret(TRAP), Ret(ALLOW)>>

Logging == Append(X86_64_CHECK_ARCH_AND_LOAD_SYSCALL_NR, Ret(LOG))

Perf == X86_64_CHECK_ARCH_AND_LOAD_SYSCALL_NR \o <<Jeq(NR_openat, 1, 0), Ret(ALLOW), Ret(KILL)>>

create_filter(instr) == Append([j \in 1..Icnt |-> instr], Ret(ALLOW))

NotifyMkdir == X86_64_CHECK_ARCH_AND_LOAD_SYSCALL_NR
  \o <<Jeq(NR_mkdir, 0, 1), Ret(USER_NOTIF), Ret(ALLOW)>>
NotifyOpenat == X86_64_CHECK_ARCH_AND_LOAD_SYSCALL_NR
  \o <<Jeq(NR_openat, 0, 1), Ret(USER_NOTIF), Ret(ALLOW)>>
installFilter2(r) == X86_64_CHECK_ARCH_AND_LOAD_SYSCALL_NR \o <<Jeq(NR_mkdir, 1, 0), Ret(ALLOW), Ret(r)>>

-----------------------------------------------------------------------------
(* What the comments say of each of them.  "meant" goes with the           *)
(* instructions wherever they go.                                          *)

Native(c) == c.arch = X86_64 /\ c.nr < X32_SYSCALL_BIT
FlagsOf(c) == IF c.nr = NR_open THEN c.arg1 ELSE c.arg2
\* "O_CREAT was specified", and "an attempt to open for writing": one of the
\* two single bits O_WRONLY and O_RDWR is set.  Other flags do not matter.
Creates(flags) == (flags \div O_CREAT) % 2 = 1
Writes(flags) == flags % (O_ACCESS + 1) # 0
Policy(meant, c) ==
  CASE meant = "multiarch" ->
         IF c.arch = Other THEN KILL
         ELSE IF c.arch = I386 THEN (IF c.nr = NR_mq_notify_i386 THEN ERRNO(c.nr) ELSE ALLOW)
         ELSE IF c.nr = NR_mq_notify_x86_64 THEN ERRNO(c.nr)
         ELSE IF c.nr = NR_mq_notify_x32 + X32_SYSCALL_BIT THEN ERRNO(NR_mq_notify_x32) ELSE ALLOW
    [] meant = "deny_syscall" -> IF c.nr = NR_getppid THEN KILL ELSE ALLOW
    [] meant = "bench" -> ALLOW
    [] OTHER ->
       IF ~Native(c) THEN KILL
       ELSE CASE meant = "deny_open" -> IF c.nr \in {NR_open, NR_openat} THEN KILL ELSE ALLOW
              [] meant = "control_open" ->
                   IF c.nr \notin {NR_open, NR_openat} THEN ALLOW
                   ELSE IF Creates(FlagsOf(c)) THEN KILL
                   ELSE IF Writes(FlagsOf(c)) THEN ERRNO(ENOTSUP) ELSE ALLOW
              [] meant = "arg64" ->
                   IF c.nr # NR_lseek THEN ALLOW
                   ELSE IF c.arg1hi > 0 THEN ERRNO(2)
                   ELSE IF c.arg1 > 1000 THEN ERRNO(1) ELSE ALLOW
              [] meant = "trap" -> IF c.nr = NR_getppid THEN TRAP ELSE ALLOW
              [] meant = "log" -> LOG
              [] meant = "perf" -> IF c.nr = NR_openat THEN KILL ELSE ALLOW
              [] meant = "mkdir" -> IF c.nr = NR_mkdir THEN USER_NOTIF ELSE ALLOW
              [] meant = "openat" -> IF c.nr = NR_openat THEN USER_NOTIF ELSE ALLOW
              [] meant = "errno" -> IF c.nr = NR_mkdir THEN ERRNO(ENOTSUP) ELSE ALLOW
              [] meant = "trace" -> IF c.nr = NR_mkdir THEN TRACE ELSE ALLOW

F(meant, code) == [meant |-> meant, code |-> code]
Programs ==
  { <<F("deny_open", DenyOpen)>>, <<F("control_open", ControlOpen)>>, <<F("multiarch", Multiarch)>>,
    <<F("arg64", Arg64)>>, <<F("deny_syscall", DenySyscall(NR_getppid))>>, <<F("trap", TrapSigsys)>>,
    <<F("log", Logging)>>, <<F("perf", Perf)>>, <<F("openat", NotifyOpenat)>>, <<F("mkdir", NotifyMkdir)>>,
    <<F("mkdir", NotifyMkdir), F("errno", installFilter2(ERRNO(ENOTSUP)))>>,
    <<F("mkdir", NotifyMkdir), F("trace", installFilter2(TRACE))>>,
    <<F("bench", create_filter(Jeq(0, 0, 0))), F("bench", create_filter(Jeq(0, 0, 0)))>>,
    <<F("bench", create_filter(Ld("arch")))>>, <<F("bench", create_filter(Add(1)))>> }

-----------------------------------------------------------------------------
(* The kernel: seccomp(), the machine, and which calls a program makes.    *)

NoCall == [nr |-> -1]
Idle == [f |-> 0, pc |-> 0, acc |-> 0]
Nrs == {NR_open, NR_lseek, NR_mkdir, NR_getppid, NR_mq_notify_x86_64, NR_openat,
        NR_mq_notify_i386, NR_mq_notify_x32 + X32_SYSCALL_BIT}
\* Arguments that no filter looks at are 0.
Calls ==
  { [arch |-> a, nr |-> x[1], arg1 |-> IF x[1] = NR_openat THEN 0 ELSE x[2], arg1hi |-> x[3],
     arg2 |-> IF x[1] = NR_openat THEN x[2] ELSE 0] : a \in {X86_64, I386, Other},
    x \in ({NR_open, NR_openat} \X Args \X {0}) \cup ({NR_lseek} \X Args \X {0, 1})
           \cup ((Nrs \ {NR_open, NR_openat, NR_lseek}) \X {0} \X {0}) }

Jumps == {"jeq", "jge", "jgt", "jset"}
\* What seccomp() accepts: it ends in a return and no jump leaves it.
ValidFilter(code) ==
  /\ code # <<>> /\ Last(code)[1] = "ret"
  /\ \A i \in DOMAIN code :
       /\ code[i][1] \in Jumps => i + 1 + code[i][3] <= Len(code) /\ i + 1 + code[i][4] <= Len(code)
       /\ code[i][1] = "ja" => i + 1 + code[i][2] <= Len(code)

\* No instruction tests a bit above these.
Bits(a, k) == \E b \in 0..7 : (a \div 2^b) % 2 = 1 /\ (k \div 2^b) % 2 = 1
Holds(i) ==
  CASE i[1] = "jeq" -> cpu.acc = i[2]
    [] i[1] = "jge" -> cpu.acc >= i[2]
    [] i[1] = "jgt" -> cpu.acc > i[2]
    [] i[1] = "jset" -> Bits(cpu.acc, i[2])

\* One instruction; a return ends the filter, and the one before it runs.
Execute ==
  /\ cpu.f > 0
  /\ LET i == filters[cpu.f].code[cpu.pc]
     IN CASE i[1] = "ld" -> cpu' = [cpu EXCEPT !.pc = @ + 1, !.acc = call[i[2]]] /\ UNCHANGED verdict
          [] i[1] = "add" -> cpu' = [cpu EXCEPT !.pc = @ + 1, !.acc = @ + i[2]] /\ UNCHANGED verdict
          [] i[1] = "ja" -> cpu' = [cpu EXCEPT !.pc = @ + 1 + i[2]] /\ UNCHANGED verdict
          [] i[1] \in Jumps ->
               cpu' = [cpu EXCEPT !.pc = @ + 1 + (IF Holds(i) THEN i[3] ELSE i[4])] /\ UNCHANGED verdict
          [] OTHER -> /\ verdict' = IF i[2][1] < verdict[1] THEN i[2] ELSE verdict
                      /\ cpu' = [f |-> cpu.f - 1, pc |-> 1, acc |-> 0]
  /\ UNCHANGED <<todo, filters, file, call>>

\* Dumping a filter and judging a call do not disturb each other: no call is
\* made between a dump and the loading of it.
Syscall(c) ==
  /\ call = NoCall /\ filters # <<>> /\ file.code = <<>>
  /\ call' = c /\ verdict' = ALLOW /\ cpu' = [f |-> Len(filters), pc |-> 1, acc |-> 0]
  /\ UNCHANGED <<todo, filters, file>>

\* Whoever is not killed by it makes further calls.
Returns ==
  /\ call # NoCall /\ cpu.f = 0 /\ call' = NoCall /\ cpu' = Idle /\ verdict' = ALLOW
  /\ filters' = IF verdict = KILL THEN <<>> ELSE filters
  /\ todo' = IF verdict = KILL THEN <<>> ELSE todo
  /\ UNCHANGED file

\* PR_SET_NO_NEW_PRIVS and seccomp(SECCOMP_SET_MODE_FILTER).
install_filter ==
  /\ todo # <<>> /\ call = NoCall /\ ValidFilter(Head(todo).code)
  /\ filters' = Append(filters, Head(todo)) /\ todo' = Tail(todo)
  /\ UNCHANGED <<file, call, cpu, verdict>>

-----------------------------------------------------------------------------
(* dump_seccomp_filter and seccomp_launch.                                 *)

NoFile == [meant |-> "", code |-> <<>>, half |-> FALSE, dumps |-> 0]

\* Index 0 is the filter that was installed last.
fetchFilter(i) == filters[Len(filters) - i]

\* The return value of write() is compared with -1 only: a full disk cuts the
\* dump anywhere.
dumpFilter(i, n, half) ==
  /\ call = NoCall /\ file.dumps < MaxDumps /\ i < Len(filters)
  /\ n <= Len(fetchFilter(i).code) /\ (half => n < Len(fetchFilter(i).code))
  /\ file' = [meant |-> fetchFilter(i).meant, code |-> SubSeq(fetchFilter(i).code, 1, n),
              half |-> half, dumps |-> file.dumps + 1]
  /\ UNCHANGED <<todo, filters, call, cpu, verdict>>

\* A new process; it ends unless the size is a multiple of sock_filter's and
\* the kernel accepts the filter.
loadFilter ==
  /\ call = NoCall /\ ~file.half /\ ValidFilter(file.code)
  /\ filters' = <<F(file.meant, file.code)>> /\ todo' = <<>>
  /\ file' = [NoFile EXCEPT !.dumps = file.dumps]
  /\ UNCHANGED <<call, cpu, verdict>>

Init ==
  /\ todo \in Programs /\ filters = <<>>
  /\ file = NoFile
  /\ call = NoCall /\ cpu = Idle /\ verdict = ALLOW

Next ==
  \/ install_filter \/ Execute \/ Returns \/ loadFilter
  \/ \E c \in Calls : Syscall(c)
  \/ \E i \in {0, 1} : i < Len(filters) /\ \E n \in 1..Len(filters[Len(filters) - i].code), h \in BOOLEAN : dumpFilter(i, n, h)

Spec == Init /\ [][Next]_vars

-----------------------------------------------------------------------------
\* Every call is answered as the comments of the installed filters say, the
\* strictest filter deciding, on every architecture and for every argument,
\* also where the filter came out of a dump; a dump that was cut is refused.
FiltersAsMeant ==
  call # NoCall /\ cpu.f = 0 =>
    LET P == {Policy(filters[i].meant, call) : i \in DOMAIN filters}
    IN verdict \in P /\ \A p \in P : verdict[1] <= p[1]
=============================================================================
