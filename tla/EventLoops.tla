----------------------------- MODULE EventLoops -----------------------------
(***************************************************************************)
(* Programs of tlpi-dist/altio that wait for several things at once:       *)
(* self_pipe.c, demo_sigio.c, epoll_input.c, select_mq.c,                  *)
(* epoll_flags_fork.c (without -p) and multithread_epoll_wait.c.           *)
(***************************************************************************)
EXTENDS Integers, Sequences, FiniteSets

CONSTANTS
  Kids,         \* children or threads; also the queues and the FIFOs read
  PIPE,         \* what a pipe holds
  MAX_EVENTS,   \* the most events of one epoll_wait()
  MaxInput      \* bound: inputs, messages and signals, of each

VARIABLES
  kind,    \* the program
  opt,     \* the options of epoll_flags_fork
  env,     \* outside: input that is there, how much was sent, writers
  m,       \* the main program
  kid      \* its children or threads

vars == <<kind, opt, env, m, kid>>

At(l) == m.pc = l
Go(l) == m' = [m EXCEPT !.pc = l]
Mine(k, p) == kind = k /\ p /\ UNCHANGED <<kind, opt>>

-----------------------------------------------------------------------------
(* self_pipe: m.pipe bytes, m.says what select() reported.                 *)

\* SIGINT: the handler writes a byte, unless the pipe is full.
selfPipeHandler == Mine("self",
  /\ env.sent < MaxInput /\ env' = [env EXCEPT !.sent = @ + 1] /\ UNCHANGED kid
  /\ m' = [m EXCEPT !.pipe = IF @ < PIPE THEN @ + 1 ELSE @, !.caught = @ \/ At("select")])
InputComes == Mine("self", env.in = 0 /\ env' = [env EXCEPT !.in = 1] /\ UNCHANGED <<m, kid>>)
\* A signal interrupts select(), which is called again.
Select == Mine("self",
  /\ At("select") /\ UNCHANGED <<env, kid>>
  /\ LET ready == (IF m.pipe > 0 THEN {"signal"} ELSE {}) \cup (IF env.in > 0 THEN {"fd"} ELSE {})
     IN /\ ready # {} \/ opt.timeout
        /\ m' = [m EXCEPT !.says = ready, !.pc = IF "signal" \in ready THEN "drain" ELSE "exit"])
DrainPipe == Mine("self",
  /\ At("drain") /\ UNCHANGED <<env, kid>>
  /\ m' = IF m.pipe = 0 THEN [m EXCEPT !.pc = "exit"] ELSE [m EXCEPT !.pipe = @ - 1])
self_pipe == selfPipeHandler \/ InputComes \/ Select \/ DrainPipe

-----------------------------------------------------------------------------
(* demo_sigio: env.in characters can be read; env.hash is the last sent.   *)

Key == Mine("sigio",
  /\ env.sent < MaxInput /\ UNCHANGED <<m, kid>> /\ ~At("exit")
  /\ \E h \in BOOLEAN :
       env' = [env EXCEPT !.sent = @ + 1, !.in = @ + 1, !.sig = TRUE, !.hash = IF h /\ @ = 0 THEN env.sent + 1 ELSE @])
sigioHandler == Mine("sigio", env.sig /\ env' = [env EXCEPT !.sig = FALSE] /\ m' = [m EXCEPT !.flag = TRUE] /\ UNCHANGED kid)
ClearFlag == Mine("sigio",
  /\ At("select") /\ m.flag /\ m' = [m EXCEPT !.flag = FALSE, !.pc = "read"] /\ UNCHANGED <<env, kid>>)
\* read() comes before the look at done: the character after a hash is read
\* and not printed.
ReadAll == Mine("sigio",
  /\ At("read") /\ UNCHANGED kid
  /\ IF env.in = 0 THEN UNCHANGED env /\ Go(IF m.done THEN "exit" ELSE "select")
     ELSE /\ env' = [env EXCEPT !.in = @ - 1]
          /\ m' = IF m.done THEN [m EXCEPT !.pc = "exit"]
                  ELSE [m EXCEPT !.printed = @ + 1, !.done = m.printed + 1 = env.hash])
demo_sigio == Key \/ sigioHandler \/ ClearFlag \/ ReadAll

-----------------------------------------------------------------------------
(* epoll_input: kid[f] is the FIFO f, how much can be read, whether a      *)
(* writer has it open; m.list the events fetched.                          *)

WriterActs(f) == Mine("input",
  /\ UNCHANGED m
  /\ \/ /\ kid[f].open /\ env.sent < MaxInput /\ env' = [env EXCEPT !.sent = @ + 1] /\ kid' = [kid EXCEPT ![f].in = @ + 1]
     \/ kid[f].open /\ kid' = [kid EXCEPT ![f].open = FALSE] /\ UNCHANGED env
     \/ ~kid[f].open /\ f \notin m.closed /\ ~kid[f].again /\ UNCHANGED env
        /\ kid' = [kid EXCEPT ![f].open = TRUE, ![f].again = TRUE])
EpollWait == Mine("input",
  /\ At("select") /\ UNCHANGED <<env, kid>>
  /\ IF m.closed = Kids THEN Go("exit")
     ELSE LET ready == {f \in Kids \ m.closed : kid[f].in > 0 \/ ~kid[f].open}
          IN \E n \in 1..MAX_EVENTS : \E f \in [1..n -> ready] :
               /\ \A j, k \in 1..n : f[j] = f[k] => j = k
               /\ m' = [m EXCEPT !.pc = "events", !.list = [j \in 1..n |-> [fd |-> f[j], in |-> kid[f[j]].in > 0]]])
\* Input before the end: a descriptor is closed only when there is nothing
\* left to be read.
DealWith == Mine("input",
  /\ At("events") /\ UNCHANGED env
  /\ IF m.list = <<>> THEN Go("select") /\ UNCHANGED kid
     ELSE LET v == Head(m.list)
          IN IF v.in THEN /\ kid' = [kid EXCEPT ![v.fd].in = @ - 1]
                          /\ m' = [m EXCEPT !.list = Tail(@), !.printed = @ + 1]
             ELSE m' = [m EXCEPT !.list = Tail(@), !.closed = @ \cup {v.fd}] /\ UNCHANGED kid)
epoll_input == (\E f \in Kids : WriterActs(f)) \/ EpollWait \/ DealWith

-----------------------------------------------------------------------------
(* select_mq: a child per message queue copies to one pipe; a message is a *)
(* header and a body; its length is 0 or 1.  n is its number in the queue. *)

Message(q) == Mine("mq",
  /\ env.sent < MaxInput /\ env' = [env EXCEPT !.sent = @ + 1] /\ UNCHANGED m
  /\ \E len \in 0..1 : kid' = [kid EXCEPT ![q].queue = Append(@, len), ![q].all = Append(@, len)])
Taken(q) == Len(kid[q].all) - Len(kid[q].queue)
Header(q) == [part |-> "header", q |-> q, len |-> Head(kid[q].queue), n |-> Taken(q) + 1]
Body(q) == [part |-> "body", q |-> q, len |-> 1, n |-> 0]

\* A slip: header and body are written by two calls.
childMonTwoWrites(q) == Mine("mq",
  /\ UNCHANGED env /\ kid[q].queue # <<>> /\ ~At("failed")
  /\ \/ /\ ~kid[q].again /\ kid' = [kid EXCEPT ![q].again = Head(kid[q].queue) > 0, ![q].queue = IF Head(@) = 0 THEN Tail(@) ELSE @]
        /\ m' = [m EXCEPT !.frames = Append(@, Header(q))]
     \/ /\ kid[q].again /\ kid' = [kid EXCEPT ![q].again = FALSE, ![q].queue = Tail(@)]
        /\ m' = [m EXCEPT !.frames = Append(@, Body(q))])
\* msgrcv() and one write() of header and body, which the kernel keeps
\* together.
childMon(q) == Mine("mq",
  /\ UNCHANGED env /\ kid[q].queue # <<>> /\ Len(m.frames) < 2 * PIPE /\ ~At("failed")
  /\ kid' = [kid EXCEPT ![q].queue = Tail(@)]
  /\ m' = [m EXCEPT !.frames = @ \o (IF Head(kid[q].queue) = 0 THEN <<Header(q)>> ELSE <<Header(q), Body(q)>>)])
NoHeader == [len |-> 0]

\* A read() of 0 bytes gives 0, which is taken for the end of the pipe.
ReadMessage == Mine("mq",
  /\ UNCHANGED <<env, kid>>
  /\ \/ /\ At("select") /\ m.frames # <<>>
        /\ m' = [m EXCEPT !.pc = "body", !.hdr = Head(m.frames), !.frames = Tail(@)]
     \/ /\ At("body")
        /\ IF m.hdr.len = 0 THEN Go("failed")
           ELSE /\ m.frames # <<>>
                /\ m' = [m EXCEPT !.pc = "select", !.frames = Tail(@), !.list = Append(@, [hdr |-> m.hdr, body |-> Head(m.frames)])])
select_mq == ReadMessage \/ \E q \in Kids : Message(q) \/ childMon(q)

-----------------------------------------------------------------------------
(* epoll_flags_fork and multithread_epoll_wait: kid[c].ready says whether  *)
(* the epoll instance of c, or the one all share, is in the ready list.    *)

Flags(p) == kind \in {"flags", "threads"} /\ p /\ UNCHANGED <<kind, opt>>
Instance(c) == IF opt.shared THEN CHOOSE d \in Kids : TRUE ELSE c
Instances == {Instance(c) : c \in Kids}
Added == {c \in Instances : opt.shared \/ kid[c].pc # "new"}
Readable == env.in > 0 \/ ~env.open

\* The instances woken: with EPOLLEXCLUSIVE only some of them.
Wakes(S) == kid' = [c \in Kids |-> IF c \in S THEN [kid[c] EXCEPT !.ready = @ \/ kid[c].armed] ELSE kid[c]]
WriteFifo == Flags(
  /\ env.open /\ env.sent < (IF kind = "threads" THEN 1 ELSE MaxInput) /\ env.in < PIPE /\ UNCHANGED m
  /\ env' = [env EXCEPT !.sent = @ + 1, !.in = @ + 1]
  /\ \E S \in SUBSET Added : (S # {} \/ Added = {}) /\ (opt.excl \/ S = Added) /\ Wakes(S))
CloseFifo == Flags(
  kind = "flags" /\ env.open /\ env.sent > 0 /\ env' = [env EXCEPT !.open = FALSE] /\ Wakes(Added) /\ UNCHANGED m)

\* A child makes an instance of its own, or has the parent's.
StartChild(c) == Flags(
  /\ kid[c].pc = "new" /\ UNCHANGED <<env, m>>
  /\ kid' = [kid EXCEPT ![c].pc = "wait", ![c].ready = IF opt.shared THEN @ ELSE Readable /\ (env.sent > 0)])
\* epoll_wait() looks at the FIFO again before it returns; an edge is told
\* once, and with EPOLLONESHOT nothing more is told.
EpollReturns(c) == Flags(
  LET i == Instance(c) IN
  /\ kid[c].pc = "wait" /\ kid[i].ready /\ UNCHANGED <<env, m>>
  /\ LET k == [kid EXCEPT ![i].ready = Readable /\ ~opt.et /\ ~opt.oneshot, ![i].armed = ~(opt.oneshot /\ Readable)]
     IN kid' = IF Readable THEN [k EXCEPT ![c].pc = IF opt.read THEN "read" ELSE IF opt.loop THEN "wait" ELSE "done", ![c].told = TRUE]
               ELSE [kid EXCEPT ![i].ready = FALSE])
\* One read() of as much as the buffer takes, less than the FIFO may hold.
ReadFifo(c) == Flags(
  /\ kid[c].pc = "read"
  /\ env' = [env EXCEPT !.in = IF @ > 0 THEN @ - 1 ELSE 0]
  /\ m' = [m EXCEPT !.caught = @ \/ env.in > 1]
  /\ kid' = [kid EXCEPT ![c].pc = IF (env.in = 0 /\ ~env.open) \/ ~opt.loop THEN "done" ELSE "wait"])
epoll_flags_fork == kind = "flags" /\ (WriteFifo \/ CloseFifo \/ \E c \in Kids : StartChild(c) \/ EpollReturns(c) \/ ReadFifo(c))
multithread_epoll_wait == kind = "threads" /\ (WriteFifo \/ \E c \in Kids : StartChild(c) \/ EpollReturns(c))

-----------------------------------------------------------------------------
Init ==
  /\ kind \in {"self", "sigio", "input", "mq", "flags", "threads"}
  /\ opt \in [et : BOOLEAN, oneshot : BOOLEAN, excl : BOOLEAN, shared : BOOLEAN, read : BOOLEAN, loop : BOOLEAN, timeout : BOOLEAN]
  /\ kind # "self" => ~opt.timeout
  /\ kind = "flags" => ~(opt.oneshot /\ opt.excl) /\ (opt.loop => opt.read)   \* EINVAL; a child that spins
  /\ kind = "threads" => opt.shared /\ ~opt.oneshot /\ ~opt.excl /\ ~opt.read /\ ~opt.loop
  /\ kind \notin {"flags", "threads"} => ~opt.et /\ ~opt.oneshot /\ ~opt.excl /\ ~opt.shared /\ ~opt.read /\ ~opt.loop
  /\ env = [in |-> 0, sent |-> 0, sig |-> FALSE, hash |-> 0, open |-> TRUE]
  /\ m = [pc |-> "select", pipe |-> 0, caught |-> FALSE, says |-> {}, flag |-> FALSE, done |-> FALSE, printed |-> 0,
          list |-> <<>>, closed |-> {}, frames |-> <<>>, hdr |-> NoHeader]
  /\ kid = [c \in Kids |-> [pc |-> "new", in |-> 0, open |-> TRUE, again |-> FALSE, queue |-> <<>>, all |-> <<>>,
                            ready |-> FALSE, armed |-> TRUE, told |-> FALSE]]

Next ==
  self_pipe \/ demo_sigio \/ epoll_input \/ select_mq \/ epoll_flags_fork \/ multithread_epoll_wait

Spec == Init /\ [][Next]_vars

-----------------------------------------------------------------------------
\* self_pipe reports a signal exactly if one was caught before select()
\* returned, however many came and though the pipe was full.  demo_sigio, with
\* its flag clear, nothing being read and no signal pending, has left no
\* character unread.  epoll_input has read everything when it ends, unless a
\* FIFO was opened again by a writer after its end was seen.
InputNotForgotten ==
  /\ kind = "self" /\ At("exit") => (("signal" \in m.says) <=> m.caught)
  /\ kind = "sigio" /\ At("select") /\ ~m.flag /\ ~env.sig => env.in = 0
  /\ kind = "input" /\ At("exit") => \A f \in Kids : kid[f].in = 0 \/ kid[f].again
  /\ kind = "input" => m.printed <= env.sent

\* The messages select_mq prints are those of each queue, in order, none left
\* out or printed twice, header and body belonging together, though several
\* children write to the pipe; it fails only on an empty message.  While every
\* looping child of epoll_flags_fork waits, input is left in the FIFO only if
\* somebody will be told, if EPOLLONESHOT was used, or with EPOLLET, if a
\* read() did not take all there was.  With EPOLLET one write wakes one thread
\* only.
WaitersTold ==
  /\ kind = "mq" => \A j \in DOMAIN m.list :
       LET r == m.list[j] IN
       /\ r.body.q = r.hdr.q /\ r.body.part = "body"
       /\ r.hdr.n \in DOMAIN kid[r.hdr.q].all /\ kid[r.hdr.q].all[r.hdr.n] = r.hdr.len
       /\ \A n \in 1..(r.hdr.n - 1) : \E k \in 1..(j - 1) : m.list[k].hdr.q = r.hdr.q /\ m.list[k].hdr.n = n
       /\ \A k \in 1..(j - 1) : m.list[k].hdr.q = r.hdr.q => m.list[k].hdr.n < r.hdr.n
  /\ kind = "mq" /\ At("failed") => \E q \in Kids : \E j \in DOMAIN kid[q].all : kid[q].all[j] = 0
  /\ kind = "flags" /\ opt.loop /\ ~opt.oneshot /\ env.in > 0 /\ (\A c \in Kids : kid[c].pc = "wait") =>
       \/ \E i \in Instances : kid[i].ready
       \/ opt.et /\ m.caught
  /\ kind = "threads" /\ opt.et => Cardinality({c \in Kids : kid[c].told}) <= 1

-----------------------------------------------------------------------------
(* The inductive invariant.                                                *)

Labels == {"select", "drain", "exit", "read", "events", "body", "failed"}
Frames == [part : {"header", "body"}, q : Kids, len : 0..1, n : Nat]
Event == [fd : Kids, in : BOOLEAN]
Options == [et : BOOLEAN, oneshot : BOOLEAN, excl : BOOLEAN, shared : BOOLEAN, read : BOOLEAN, loop : BOOLEAN, timeout : BOOLEAN]
Mains == [pc : Labels, pipe : Nat, caught : BOOLEAN, says : SUBSET {"signal", "fd"}, flag : BOOLEAN, done : BOOLEAN, printed : Nat,
          list : IF kind = "mq" THEN Seq([hdr : Frames, body : Frames]) ELSE Seq(Event), closed : SUBSET Kids,
          frames : Seq(Frames), hdr : Frames \cup {NoHeader}]
OneOf == [pc : {"new", "wait", "read", "done"}, in : Nat, open : BOOLEAN, again : BOOLEAN, queue : Seq(0..1), all : Seq(0..1),
          ready : BOOLEAN, armed : BOOLEAN, told : BOOLEAN]
TypeOK ==
  /\ kind \in {"self", "sigio", "input", "mq", "flags", "threads"} /\ opt \in Options
  /\ kind = "threads" => opt.shared /\ ~opt.oneshot /\ ~opt.excl /\ ~opt.read /\ ~opt.loop
  /\ kind = "flags" => (opt.loop => opt.read)
  /\ env \in [in : Nat, sent : Nat, sig : BOOLEAN, hash : Nat, open : BOOLEAN]
  /\ m \in Mains /\ kid \in [Kids -> OneOf]

SelfInv ==
  kind = "self" =>
    /\ At("select") => m.says = {} /\ (m.caught <=> m.pipe > 0)
    /\ At("drain") \/ At("exit") => (("signal" \in m.says) <=> m.caught)
    /\ m.pc \in {"select", "drain", "exit"}

SigioInv == kind = "sigio" /\ At("select") /\ ~m.flag /\ ~env.sig => env.in = 0

\* What there is to be read in the FIFOs; an end that was seen is true until
\* a writer opens the FIFO again.
Unread == UNION {{f} \X (1..kid[f].in) : f \in Kids}
EndSeen(f) == kid[f].again \/ (kid[f].in = 0 /\ ~kid[f].open)
InputInv ==
  kind = "input" =>
    /\ IsFiniteSet(Unread) /\ m.printed + Cardinality(Unread) <= env.sent
    /\ At("exit") => m.closed = Kids
    /\ \A f \in m.closed : EndSeen(f)
    /\ \A j \in DOMAIN m.list : IF m.list[j].in THEN kid[m.list[j].fd].in > 0 ELSE EndSeen(m.list[j].fd)
    /\ \A j, k \in DOMAIN m.list : m.list[j].fd = m.list[k].fd => j = k

\* A body follows its header; what the parent holds comes before what is in
\* the pipe, and what is printed before both; every message taken from a
\* queue is at one of these places.
Holds == m.pc \in {"body", "failed"}
Started == Holds /\ m.hdr.len = 1
IsHeader(j) == j \in DOMAIN m.frames /\ m.frames[j].part = "header"
Placed(q, n) ==
  \/ \E j \in DOMAIN m.list : m.list[j].hdr.q = q /\ m.list[j].hdr.n = n
  \/ Holds /\ m.hdr.q = q /\ m.hdr.n = n
  \/ \E j \in DOMAIN m.frames : IsHeader(j) /\ m.frames[j].q = q /\ m.frames[j].n = n
Right(h) == h.part = "header" /\ h.n \in 1..Taken(h.q) /\ kid[h.q].all[h.n] = h.len
MessageInv ==
  kind = "mq" =>
    /\ m.pc \in {"select", "body", "failed"}
    /\ \A q \in Kids : /\ Len(kid[q].queue) <= Len(kid[q].all)
                       /\ \A j \in DOMAIN kid[q].queue : kid[q].queue[j] = kid[q].all[Taken(q) + j]
    /\ \A q \in Kids : \A n \in 1..Taken(q) : Placed(q, n)
    /\ Holds => m.hdr \in Frames /\ Right(m.hdr)
    /\ At("failed") => m.hdr.len = 0
    /\ \A j \in DOMAIN m.frames : IsHeader(j) => Right(m.frames[j])
    /\ \A j \in DOMAIN m.list : Right(m.list[j].hdr) /\ m.list[j].body.q = m.list[j].hdr.q /\ m.list[j].body.part = "body"
FramesInv ==
  kind = "mq" =>
    /\ \A j \in DOMAIN m.frames : IF IsHeader(j) /\ m.frames[j].len = 1
                                  THEN j + 1 \in DOMAIN m.frames /\ m.frames[j + 1].part = "body" /\ m.frames[j + 1].q = m.frames[j].q
                                  ELSE j + 1 \in DOMAIN m.frames => IsHeader(j + 1)
    /\ ~Started /\ m.frames # <<>> => IsHeader(1)
    /\ Started => m.frames # <<>> /\ m.frames[1].part = "body" /\ m.frames[1].q = m.hdr.q
OrderInv ==
  kind = "mq" =>
    /\ \A j, k \in DOMAIN m.list : j < k /\ m.list[j].hdr.q = m.list[k].hdr.q => m.list[j].hdr.n < m.list[k].hdr.n
    /\ \A j, k \in DOMAIN m.frames : j < k /\ IsHeader(j) /\ IsHeader(k) /\ m.frames[j].q = m.frames[k].q => m.frames[j].n < m.frames[k].n
    /\ \A j \in DOMAIN m.list : Holds /\ m.list[j].hdr.q = m.hdr.q => m.list[j].hdr.n < m.hdr.n
    /\ \A j \in DOMAIN m.list, k \in DOMAIN m.frames : IsHeader(k) /\ m.list[j].hdr.q = m.frames[k].q => m.list[j].hdr.n < m.frames[k].n
    /\ \A k \in DOMAIN m.frames : Holds /\ IsHeader(k) /\ m.hdr.q = m.frames[k].q => m.hdr.n < m.frames[k].n

\* Who is still to see what is in the FIFO.
SomebodyReads ==
  \/ \E i \in Instances : kid[i].ready
  \/ ~opt.shared /\ \E c \in Kids : kid[c].pc = "new"
  \/ opt.et /\ ((\E c \in Kids : kid[c].pc = "read") \/ m.caught)
FlagsInv ==
  /\ kind \in {"flags", "threads"} => env.in <= env.sent /\ \A c \in Kids : opt.oneshot \/ kid[c].armed
  /\ kind = "threads" => env.open
  /\ kind = "flags" /\ opt.loop /\ ~opt.oneshot /\ env.in > 0 => SomebodyReads
  /\ kind = "threads" /\ opt.et =>
       /\ \A c \in Kids : kid[c].told => ~kid[Instance(c)].ready /\ env.sent > 0
       /\ \A c, d \in Kids : kid[c].told /\ kid[d].told => c = d

IInv == TypeOK /\ SelfInv /\ SigioInv /\ InputInv /\ MessageInv /\ FramesInv /\ OrderInv /\ FlagsInv
=============================================================================
