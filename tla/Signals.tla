------------------------------ MODULE Signals ------------------------------
(***************************************************************************)
(* Senders and receivers of signals in tlpi-dist/signals.  A standard      *)
(* signal that is pending already is not noted again; real-time signals    *)
(* queue.  What is pending and not blocked is handled before the program   *)
(* goes on, so that program steps are taken only when nothing is left to   *)
(* handle.                                                                 *)
(***************************************************************************)
EXTENDS Integers, Sequences, SequencesExt, FiniteSets

CONSTANTS
  Plans,       \* what is sent: sequences of signals
  QueueMax,    \* the most real-time signals that can be pending
  numSigs      \* argument of sig_speed_sigsuspend

VARIABLES
  kind,    \* the receiver
  rcv,     \* where it is, mask, flag, whether a wait is over, jumps, n
  pend,    \* signals pending, each with its number in the plan
  snd,     \* the sender: its plan, how much of it is sent, whether it failed
  got,     \* signals handled or fetched
  peer     \* the two processes of sig_speed_sigsuspend

vars == <<kind, rcv, pend, snd, got, peer>>

ALL == {"INT", "QUIT", "USR1", "RT"}
Fetchers == {"sigwaitinfo", "signalfd"}
At(l) == rcv.pc = l
Go(l) == rcv' = [rcv EXCEPT !.pc = l]
Of(s, sig) == SelectSeq(s, LAMBDA m : m.sig = sig)
Over == rcv.pc \in {"exit", "killed"}

-----------------------------------------------------------------------------
(* Sending and handling.                                                   *)

\* kill() and sigqueue().  A receiver without handlers yet is killed.  A signal
\* that is blocked is pending, even while it is ignored.
Send(m) ==
  /\ snd' = [snd EXCEPT !.i = @ + 1] /\ UNCHANGED <<kind, got, peer>>
  /\ IF At("start") THEN Go("killed") /\ UNCHANGED pend
     ELSE /\ UNCHANGED rcv
          /\ pend' = IF m.sig # "RT" /\ \E j \in DOMAIN pend : pend[j].sig = m.sig
                     THEN pend ELSE Append(pend, m)
More == snd.i < Len(snd.plan) /\ ~snd.failed /\ ~Over
Upcoming == snd.plan[snd.i + 1]
sig_sender == More /\ Upcoming.sig # "RT" /\ Send(Upcoming)
\* EAGAIN when too many are queued: t_sigqueue ends.
t_sigqueue ==
  /\ More /\ Upcoming.sig = "RT"
  /\ IF Len(Of(pend, "RT")) < QueueMax THEN Send(Upcoming)
     ELSE snd' = [snd EXCEPT !.failed = TRUE] /\ UNCHANGED <<kind, rcv, pend, got, peer>>

\* The first of each signal that is not blocked.
Deliverable ==
  {j \in DOMAIN pend : pend[j].sig \notin rcv.mask /\ \A k \in 1..(j - 1) : pend[k].sig # pend[j].sig}
Program(p) == p /\ Deliverable = {} /\ ~Over /\ UNCHANGED <<kind, pend, snd, got, peer>>
Taken(j) == got' = Append(got, pend[j]) /\ pend' = RemoveAt(pend, j)

\* What the handlers do: they set gotSigquit, allDone, gotSigint; that of
\* intquit exits; that of sigmask_longjmp jumps once canJump is set, and only
\* siglongjmp() sets the mask back.
Handled ==
  CASE kind \in {"suspend", "pause", "intquit"} -> {"INT", "QUIT"}
    [] kind = "rtsigs" -> ALL \ {"QUIT"}
    [] kind = "receiver" -> ALL
    [] OTHER -> {"INT"}
handler(m) ==
  CASE m.sig \notin Handled -> [rcv EXCEPT !.pc = "killed"]
    [] kind \in {"suspend", "pause"} -> [rcv EXCEPT !.flag = @ \/ m.sig = "QUIT", !.woken = TRUE]
    [] kind \in {"rtsigs", "receiver"} -> [rcv EXCEPT !.flag = @ \/ m.sig = "INT", !.woken = TRUE]
    [] kind = "intquit" -> IF m.sig = "QUIT" THEN [rcv EXCEPT !.pc = "exit"] ELSE rcv
    [] kind = "ignore" -> rcv
    [] kind \in {"setjmp", "sigsetjmp"} ->
         IF ~rcv.flag THEN rcv
         ELSE [rcv EXCEPT !.pc = "waiting", !.n = @ + 1, !.mask = IF kind = "setjmp" THEN @ \cup {m.sig} ELSE @]
Deliver ==
  /\ ~At("start") /\ ~Over /\ kind \notin Fetchers \cup {"speed"} /\ UNCHANGED <<kind, snd, peer>>
  /\ \E j \in Deliverable : Taken(j) /\ rcv' = handler(pend[j])

-----------------------------------------------------------------------------
(* t_sigsuspend, and with USE_PAUSE.                                       *)

Block == Program(
  /\ kind \in {"suspend", "pause"} /\ At("start")
  /\ rcv' = [rcv EXCEPT !.pc = "critical", !.mask = {"INT", "QUIT"}])
\* A slip: the mask is set first, and then pause() waits.
sigsuspendSplit == Program(
  /\ kind = "suspend"
  /\ \/ At("critical") /\ rcv' = [rcv EXCEPT !.pc = "unblocked", !.mask = {}]
     \/ At("unblocked") /\ rcv' = [rcv EXCEPT !.pc = "waiting", !.woken = FALSE])
\* The mask and the wait in one step; the mask is back when it returns.
sigsuspend == Program(
  /\ kind = "suspend" /\ At("critical") /\ rcv' = [rcv EXCEPT !.pc = "waiting", !.mask = {}, !.woken = FALSE])
SuspendReturns == Program(
  /\ kind = "suspend" /\ At("waiting") /\ rcv.woken
  /\ rcv' = [rcv EXCEPT !.pc = IF rcv.flag THEN "exit" ELSE "critical", !.mask = IF rcv.flag THEN {} ELSE {"INT", "QUIT"}, !.n = Len(got)])
t_sigsuspend == Block \/ sigsuspend \/ SuspendReturns
USE_PAUSE == Program(
  /\ kind = "pause"
  /\ \/ At("critical") /\ rcv' = [rcv EXCEPT !.pc = "unblocked", !.mask = {}]
     \/ At("unblocked") /\ rcv' = [rcv EXCEPT !.pc = "waiting", !.woken = FALSE]
     \/ At("waiting") /\ rcv.woken /\ Go(IF rcv.flag THEN "exit" ELSE "critical"))

-----------------------------------------------------------------------------
(* The others.                                                             *)

\* The handlers are set; then signals may be blocked for some time; then
\* pause() until allDone.
catch_rtsigs == Program(
  /\ kind = "rtsigs"
  /\ \/ At("start") /\ Go("caught")
     \/ At("caught") /\ (Go("loop") \/ rcv' = [rcv EXCEPT !.pc = "blocked", !.mask = ALL \ {"INT"}])
     \/ At("blocked") /\ rcv' = [rcv EXCEPT !.pc = "loop", !.mask = {}]
     \/ At("loop") /\ rcv' = [rcv EXCEPT !.pc = IF rcv.flag THEN "exit" ELSE "waiting", !.woken = FALSE]
     \/ At("waiting") /\ rcv.woken /\ Go("loop"))
\* The same, and a loop that spins until gotSigint.
sig_receiver == Program(
  /\ kind = "receiver"
  /\ \/ At("start") /\ Go("caught")
     \/ At("caught") /\ (Go("loop") \/ rcv' = [rcv EXCEPT !.pc = "blocked", !.mask = ALL])
     \/ At("blocked") /\ rcv' = [rcv EXCEPT !.pc = "loop", !.mask = {}]
     \/ At("loop") /\ rcv.flag /\ Go("exit"))
intquit == Program(kind = "intquit" /\ At("start") /\ Go("waiting"))

\* All signals, or some, are blocked and fetched one by one.
FetchNext ==
  /\ kind \in Fetchers /\ ~Over /\ UNCHANGED <<kind, snd, peer>>
  /\ \/ At("start") /\ rcv' = [rcv EXCEPT !.pc = "waiting", !.mask = ALL] /\ UNCHANGED <<pend, got>>
     \/ /\ At("waiting")
        /\ \E j \in DOMAIN pend :
             /\ \A k \in 1..(j - 1) : pend[k].sig # pend[j].sig
             /\ Taken(j) /\ Go(IF kind = "sigwaitinfo" /\ pend[j].sig = "INT" THEN "exit" ELSE "waiting")
t_sigwaitinfo == kind = "sigwaitinfo" /\ FetchNext
signalfd_sigval == kind = "signalfd" /\ FetchNext

\* SIG_IGN throws away what is pending, not what comes while it is blocked;
\* between are what was sent when it blocks and when it ignores the signal.
ignore_pending_sig ==
  \/ Program(
       /\ kind = "ignore"
       /\ \/ At("start") /\ Go("caught")
          \/ At("caught") /\ rcv' = [rcv EXCEPT !.pc = "blocked", !.mask = {"INT"}, !.from = snd.i]
          \/ At("ignoring") /\ Go("handling")
          \/ At("handling") /\ rcv' = [rcv EXCEPT !.pc = "unblocked", !.mask = {}]
          \/ At("unblocked") /\ Go("exit"))
  \/ /\ kind = "ignore" /\ At("blocked") /\ Deliverable = {} /\ UNCHANGED <<kind, snd, got, peer>>
     /\ pend' = SelectSeq(pend, LAMBDA m : m.sig # "INT") /\ rcv' = [rcv EXCEPT !.pc = "ignoring", !.n = snd.i]

\* sigaction(), then [sig]setjmp() and canJump.
sigmask_longjmp == Program(
  /\ kind \in {"setjmp", "sigsetjmp"}
  /\ \/ At("start") /\ Go("setjmp")
     \/ At("setjmp") /\ rcv' = [rcv EXCEPT !.pc = "waiting", !.flag = TRUE])

\* sig_speed_sigsuspend: the signal is blocked except in sigsuspend().
Other(p) == IF p = "parent" THEN "child" ELSE "parent"
Kill(p) ==
  /\ peer[p].pc = "kill" /\ peer' = [peer EXCEPT ![p].pc = IF p = "child" THEN "suspend" ELSE "next",
                                                 ![Other(p)].pending = peer[Other(p)].pc # "exit"]
Suspended(p) ==
  /\ peer[p].pc = "suspend" /\ peer[p].pending
  /\ peer' = [peer EXCEPT ![p].pending = FALSE, ![p].pc = IF p = "child" THEN "next" ELSE "kill"]
Turn(p) ==
  /\ peer[p].pc = "next"
  /\ peer' = [peer EXCEPT ![p].n = @ + 1, ![p].pc = IF peer[p].n + 1 = numSigs THEN "exit" ELSE IF p = "child" THEN "kill" ELSE "suspend"]
sig_speed_sigsuspend ==
  /\ kind = "speed" /\ UNCHANGED <<kind, rcv, pend, snd, got>>
  /\ \E p \in DOMAIN peer : Kill(p) \/ Suspended(p) \/ Turn(p)

-----------------------------------------------------------------------------
Init ==
  /\ kind \in {"suspend", "pause", "rtsigs", "receiver", "intquit", "ignore", "setjmp", "sigsetjmp", "speed"} \cup Fetchers
  /\ rcv = [pc |-> "start", mask |-> {}, flag |-> FALSE, woken |-> FALSE, n |-> 0, from |-> 0]
  /\ pend = <<>> /\ got = <<>>
  /\ \/ kind = "speed" /\ snd = [plan |-> <<>>, i |-> 0, failed |-> FALSE]
     \/ kind # "speed" /\ \E p \in Plans : snd = [plan |-> [j \in DOMAIN p |-> [sig |-> p[j], n |-> j]], i |-> 0, failed |-> FALSE]
  /\ peer = [parent |-> [pc |-> "suspend", pending |-> FALSE, n |-> 0], child |-> [pc |-> "kill", pending |-> FALSE, n |-> 0]]

Next ==
  \/ sig_sender \/ t_sigqueue \/ Deliver \/ t_sigsuspend \/ USE_PAUSE \/ catch_rtsigs \/ sig_receiver \/ intquit
  \/ t_sigwaitinfo \/ signalfd_sigval \/ ignore_pending_sig \/ sigmask_longjmp \/ sig_speed_sigsuspend

Spec == Init /\ [][Next]_vars

-----------------------------------------------------------------------------
Sent == SubSeq(snd.plan, 1, snd.i)

\* t_sigsuspend with sigsuspend() is never left waiting once SIGQUIT was
\* handled, and handles nothing in its critical section (with pause(), and in
\* catch_rtsigs, a signal handled just before pause() is missed); the two
\* processes of sig_speed_sigsuspend never wait for each other; sig_receiver
\* ends only after it has handled every signal sent before SIGINT at least
\* once; real-time signals are handled in the order sent and none is lost;
\* after siglongjmp() no signal stays blocked, after longjmp() SIGINT does, so
\* that there is no second jump; ignore_pending_sig never handles a signal
\* sent from when it blocks it until it ignores it, and handles, once
\* unblocked, those that come later, while they are ignored too.
SignalsAccounted ==
  /\ kind = "suspend" /\ At("waiting") /\ rcv.flag => rcv.woken
  /\ kind = "suspend" /\ At("critical") => Len(got) = rcv.n
  /\ kind = "speed" => \/ \A p \in DOMAIN peer : peer[p].pc = "exit"
                       \/ \E p \in DOMAIN peer : peer[p].pc \in {"kill", "next"} \/ (peer[p].pc = "suspend" /\ peer[p].pending)
  /\ ~At("killed") => Of(got, "RT") \o Of(pend, "RT") = Of(Sent, "RT")
  /\ kind = "receiver" /\ At("exit") =>
       \A j \in DOMAIN Sent : (\E k \in DOMAIN Sent : k > j /\ Sent[k].sig = "INT") => Of(got, Sent[j].sig) # <<>>
  /\ kind = "sigsetjmp" => rcv.mask = {}
  /\ kind = "setjmp" => rcv.n <= 1 /\ rcv.mask = (IF rcv.n = 1 THEN {"INT"} ELSE {})
  /\ kind = "ignore" /\ rcv.pc \in {"unblocked", "exit"} => \A j \in DOMAIN got : got[j].n <= rcv.from \/ got[j].n > rcv.n
  /\ kind = "ignore" /\ At("exit") /\ (\E j \in DOMAIN Sent : j > rcv.n /\ Sent[j].sig = "INT") => \E j \in DOMAIN got : got[j].n > rcv.n
=============================================================================
