------------------------ MODULE MessageNotification ------------------------
(***************************************************************************)
(* POSIX message queues of tlpi-dist/pmsg: the programs mq_notify_*.c,     *)
(* which are told of a message by a signal or by a thread, beside          *)
(* pmsg_send.c, pmsg_receive.c and a sender of stray signals.  A           *)
(* registration tells of one message, the one that finds the queue empty.  *)
(***************************************************************************)
EXTENDS Integers, FiniteSets

CONSTANTS
  MaxMsg,      \* mq_maxmsg
  MaxSends,    \* bound: messages sent
  MaxStray     \* bound: signals and readers that are not the program's

VARIABLES
  kind,    \* the program
  q,       \* the queue: messages, whose registration, a reader that blocks, sent
  main,    \* its main thread: where it is, gotSig, signals pending
  thr,     \* the threads started by notifications, each where it is
  given    \* a queue with messages larger than the program's buffer; stray

vars == <<kind, q, main, thr, given>>

BySignal == {"sig", "siginfo", "sigwaitinfo", "via_signal"}
ByThread == {"thread", "via_thread"}
Drainers == {"siginfo", "via_signal", "via_thread"}   \* drain before they first wait

Step(p) == p /\ UNCHANGED kind
At(l) == main.pc = l
Go(l) == main' = [main EXCEPT !.pc = l]

-----------------------------------------------------------------------------
(* The queue, and the other processes.                                     *)

\* A message for a blocked reader goes past the queue.  Otherwise a message
\* into an empty queue uses the registration up.
pmsg_send == Step(
  /\ q.sent < MaxSends /\ q.n < MaxMsg /\ UNCHANGED given
  /\ IF q.blocked THEN q' = [q EXCEPT !.blocked = FALSE, !.sent = @ + 1] /\ UNCHANGED <<main, thr>>
     ELSE LET tell == q.n = 0 /\ q.reg = "mine"
          IN /\ q' = [q EXCEPT !.n = @ + 1, !.sent = @ + 1, !.reg = IF q.n = 0 THEN "none" ELSE @]
             /\ main' = IF tell /\ kind \in BySignal THEN [main EXCEPT !.pending = TRUE] ELSE main
             /\ thr' = IF tell /\ kind \in ByThread THEN [t \in DOMAIN thr \cup {q.sent} |-> IF t = q.sent THEN "register" ELSE thr[t]] ELSE thr)
pmsg_receive == Step(
  /\ given.stray < MaxStray /\ given' = [given EXCEPT !.stray = @ + 1] /\ UNCHANGED <<main, thr>>
  /\ \/ q.n > 0 /\ q' = [q EXCEPT !.n = @ - 1]
     \/ q.n = 0 /\ ~q.blocked /\ q' = [q EXCEPT !.blocked = TRUE])
StraySignal == Step(
  /\ given.stray < MaxStray /\ given' = [given EXCEPT !.stray = @ + 1] /\ kind \in BySignal /\ main.ready
  /\ main' = [main EXCEPT !.pending = TRUE] /\ UNCHANGED <<q, thr>>)

-----------------------------------------------------------------------------
(* The programs.                                                           *)

\* mq_open(), and the signal blocked or its handler established.
Prepare == Step(
  /\ At("start") /\ UNCHANGED <<q, thr, given>>
  /\ main' = [main EXCEPT !.pc = IF kind \in {"siginfo", "via_signal"} THEN "loop" ELSE "register", !.ready = TRUE])

\* The program ends, and with it its registration.
Fail(why) == main' = [main EXCEPT !.pc = "failed", !.why = why] /\ q' = [q EXCEPT !.reg = IF @ = "mine" THEN "none" ELSE @]

\* mq_notify(): EBUSY while the registration of this or another process is on.
Register(l) ==
  /\ At("register") /\ UNCHANGED <<thr, given>>
  /\ IF q.reg # "none" THEN Fail(q.reg) ELSE q' = [q EXCEPT !.reg = "mine"] /\ Go(l)
\* mq_receive() until EAGAIN; EMSGSIZE if the buffer is too small.
Drain(l) ==
  /\ At("drain") /\ UNCHANGED <<thr, given>>
  /\ IF q.n = 0 THEN Go(l) /\ UNCHANGED q
     ELSE IF given.big /\ kind = "siginfo" THEN Fail("EMSGSIZE")
     ELSE q' = [q EXCEPT !.n = @ - 1] /\ UNCHANGED main

\* mq_notify_sig: the signal is blocked but in sigsuspend(); and sigwaitinfo().
AwaitSignal == Step(
  /\ kind \in {"sig", "sigwaitinfo"} /\ At("wait") /\ main.pending
  /\ main' = [main EXCEPT !.pc = "register", !.pending = FALSE, !.first = FALSE] /\ UNCHANGED <<q, thr, given>>)
mq_notify_sig == Step(
  kind = "sig" /\ (Register(IF main.first THEN "wait" ELSE "drain") \/ Drain("wait")))
mq_notify_sigwaitinfo == Step(
  kind = "sigwaitinfo" /\ (Register(IF main.first THEN "wait" ELSE "drain") \/ Drain("wait")))

\* mq_notify_via_signal and mq_notify_siginfo: the handler sets gotSig, at any
\* time; the loop looks at it each time around and sleeps.
Handler == Step(
  /\ kind \in {"siginfo", "via_signal"} /\ main.pending /\ main.pc # "failed"
  /\ main' = [main EXCEPT !.pending = FALSE, !.gotSig = TRUE] /\ UNCHANGED <<q, thr, given>>)
LookAtFlag == Step(
  /\ kind \in {"siginfo", "via_signal"} /\ UNCHANGED <<q, thr, given>>
  /\ \/ At("loop") /\ Go(IF main.gotSig THEN "clear" ELSE "sleep")
     \/ At("clear") /\ main' = [main EXCEPT !.pc = "register", !.gotSig = FALSE]
     \/ At("sleep") /\ Go("loop"))
mq_notify_via_signal == Step(kind = "via_signal" /\ (Register("drain") \/ Drain("sleep")))
mq_notify_siginfo == Step(kind = "siginfo" /\ (Register("drain") \/ Drain("sleep")))

\* mq_notify_thread and mq_notify_via_thread: main() registers; the second
\* drains too; each thread registers again and drains.
notifySetup(t) ==
  /\ thr[t] = "register" /\ UNCHANGED given
  /\ IF q.reg # "none" THEN Fail(q.reg) /\ UNCHANGED thr
     ELSE q' = [q EXCEPT !.reg = "mine"] /\ thr' = [thr EXCEPT ![t] = "drain"] /\ UNCHANGED main
drainQueue(t) ==
  /\ thr[t] = "drain" /\ UNCHANGED <<main, given>>
  /\ IF q.n = 0 THEN thr' = [thr EXCEPT ![t] = "over"] /\ UNCHANGED q ELSE q' = [q EXCEPT !.n = @ - 1] /\ UNCHANGED thr

\* A slip: drained first, registered again when the queue is empty.
threadFuncLate(t) ==
  /\ thr[t] \in {"register", "drained"} /\ UNCHANGED given
  /\ IF thr[t] = "register"
     THEN /\ UNCHANGED main
          /\ IF q.n = 0 THEN thr' = [thr EXCEPT ![t] = "drained"] /\ UNCHANGED q ELSE q' = [q EXCEPT !.n = @ - 1] /\ UNCHANGED thr
     ELSE q' = [q EXCEPT !.reg = "mine"] /\ thr' = [thr EXCEPT ![t] = "over"] /\ UNCHANGED main

threadFunc(t) == notifySetup(t) \/ drainQueue(t)
mq_notify_thread == Step(
  kind = "thread" /\ (Register("wait") \/ \E t \in DOMAIN thr : main.pc # "failed" /\ threadFunc(t)))
mq_notify_via_thread == Step(
  kind = "via_thread" /\ (Register("drain") \/ Drain("wait") \/ \E t \in DOMAIN thr : main.pc # "failed" /\ threadFunc(t)))

-----------------------------------------------------------------------------
Init ==
  /\ kind \in BySignal \cup ByThread
  /\ \E n \in 0..1, other \in {"none", "other"} : q = [n |-> n, reg |-> other, blocked |-> FALSE, sent |-> 0]
  /\ main = [pc |-> "start", gotSig |-> TRUE, pending |-> FALSE, first |-> TRUE, ready |-> FALSE, why |-> "none"]
  /\ thr = << >>
  /\ \E b \in BOOLEAN : given = [big |-> b, stray |-> 0]

Next ==
  \/ pmsg_send \/ pmsg_receive \/ StraySignal \/ Prepare \/ AwaitSignal \/ Handler \/ LookAtFlag
  \/ mq_notify_sig \/ mq_notify_sigwaitinfo \/ mq_notify_via_signal \/ mq_notify_siginfo
  \/ mq_notify_thread \/ mq_notify_via_thread

Spec == Init /\ [][Next]_vars

-----------------------------------------------------------------------------
Idle ==
  /\ ~main.pending /\ ~(kind \in {"siginfo", "via_signal"} /\ main.gotSig)
  /\ main.pc \in {"wait", "sleep", "loop"} /\ \A t \in DOMAIN thr : thr[t] = "over"

\* A program that waits with nothing pending has left no message behind, and
\* is registered for the next one - but for the three that say they do not
\* handle messages already there at their start.  It fails only on a
\* registration of somebody else's, on a stray signal that makes it register
\* twice, or on messages too large for mq_notify_siginfo's buffer; never
\* because two of its own threads register.
NoneLeftUnread ==
  /\ Idle => q.reg = "mine"
  /\ Idle /\ kind \in Drainers => q.n = 0
  /\ main.why = "mine" => kind \in BySignal /\ given.stray > 0
  /\ main.why = "EMSGSIZE" => given.big /\ kind = "siginfo"

-----------------------------------------------------------------------------
(* What NoneLeftUnread rests on.                                           *)

Queues == [n : Nat, reg : {"none", "mine", "other"}, blocked : BOOLEAN, sent : Nat]
Mains == [pc : {"start", "loop", "clear", "register", "drain", "wait", "sleep", "failed"}, gotSig : BOOLEAN,
          pending : BOOLEAN, first : BOOLEAN, ready : BOOLEAN, why : {"none", "mine", "other", "EMSGSIZE"}]
TypeOK ==
  /\ kind \in BySignal \cup ByThread /\ q \in Queues /\ main \in Mains /\ given \in [big : BOOLEAN, stray : Nat]
  /\ \A t \in DOMAIN thr : t \in Nat /\ t < q.sent /\ thr[t] \in {"register", "drain", "over"}

\* What is due to make the program register again: a signal that is pending,
\* or that its handler has noted.
Due == main.pending \/ (kind \in {"siginfo", "via_signal"} /\ main.gotSig)

\* A program told by a signal is registered or due to register again, and
\* not both as long as nobody sends it stray signals.
SignalInv == kind \in BySignal =>
  /\ DOMAIN thr = {}
  /\ kind \in {"sig", "sigwaitinfo"} => main.pc \in {"start", "register", "drain", "wait", "failed"}
  /\ kind \in {"siginfo", "via_signal"} => main.pc # "wait"
  /\ ~main.ready => main.pc = "start"
  /\ main.pc = "start" => ~main.ready /\ ~main.pending /\ main.gotSig /\ q.reg # "mine"
  /\ main.pc \in {"drain", "wait", "sleep", "loop"} => q.reg = "mine" \/ Due
  /\ main.pc = "clear" => main.gotSig
  /\ main.pc \in {"sleep", "loop"} /\ ~Due => q.n = 0
  /\ given.stray = 0 /\ main.pc # "failed" =>
       /\ main.pc = "register" => ~Due /\ q.reg # "mine"
       /\ ~(main.pending /\ q.reg = "mine")
       /\ kind \in {"siginfo", "via_signal"} /\ main.gotSig => ~main.pending /\ q.reg # "mine"

\* Of a program told by threads exactly one is registered or about to be:
\* the queue has the registration, or one thread is at mq_notify(), or
\* main() has not been there.
ThreadInv == kind \in ByThread =>
  /\ main.pc \in {"start", "register", "drain", "wait", "failed"} /\ ~main.pending
  /\ main.pc \in {"start", "register"} => DOMAIN thr = {} /\ q.reg # "mine"
  /\ \A t, u \in DOMAIN thr : thr[t] = "register" /\ thr[u] = "register" => t = u
  /\ q.reg = "mine" => \A t \in DOMAIN thr : thr[t] # "register"
  /\ main.pc \in {"drain", "wait"} => q.reg = "mine" \/ \E t \in DOMAIN thr : thr[t] = "register"
  /\ kind = "via_thread" /\ main.pc = "wait" /\ q.n > 0 => \E t \in DOMAIN thr : thr[t] # "over"

WhyInv ==
  /\ main.why = "mine" => kind \in BySignal /\ given.stray > 0
  /\ main.why = "EMSGSIZE" => given.big /\ kind = "siginfo"

IInv == TypeOK /\ SignalInv /\ ThreadInv /\ WhyInv
=============================================================================
