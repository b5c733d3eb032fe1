------------------------------ MODULE Threads ------------------------------
(***************************************************************************)
(* The programs of tlpi-dist/threads, and thread_incr_psem.c: threads that *)
(* count together under one kind of lock or none, producers and a          *)
(* consumer, a main() that joins whoever ends first, one-time              *)
(* initialization, a barrier, cancellation with a cleanup handler, and a   *)
(* strerror() whose buffer is shared or not.                               *)
(***************************************************************************)
EXTENDS Integers, Sequences, FiniteSets

CONSTANTS
  Workers,    \* the threads that main() creates
  Loops       \* rounds of a counting thread, units of a producer, barriers

VARIABLES
  kind,   \* the program
  lock,   \* who holds the mutex, spin lock, write lock or semaphore; 0 nobody
  th,     \* each thread: where it is, its local copy, its rounds
  mn,     \* main(): where it is, how much it consumed or joined
  data    \* the global variables

vars == <<kind, lock, th, mn, data>>

Counting == {"incr", "incr_mutex", "incr_rwlock", "incr_spinlock", "incr_psem", "lock_speed"}
Producing == {"prod_condvar", "prod_no_condvar"}
Main == -1

At(t, l) == th[t].pc = l
Go(t, l) == th' = [th EXCEPT ![t].pc = l]
Round(t, l) == th' = [th EXCEPT ![t].pc = IF th[t].j + 1 = Loops THEN "done" ELSE l, ![t].j = @ + 1]
Free == lock = 0
Ended == \A t \in Workers : th[t].pc \in {"done", "cancelled"}
Done == mn.pc = "exit"

-----------------------------------------------------------------------------
(* thread_incr and its relatives: loc = glob; loc++; glob = loc.           *)

Acquire(t) ==
  /\ At(t, "start") /\ Go(t, "load")
  /\ IF kind = "incr" THEN UNCHANGED lock ELSE Free /\ lock' = t
  /\ UNCHANGED <<kind, mn, data>>
Load(t) ==
  /\ At(t, "load")
  /\ th' = [th EXCEPT ![t].pc = "store", ![t].loc = data.glob]
  /\ UNCHANGED <<kind, lock, mn, data>>
Store(t) ==
  /\ At(t, "store") /\ Go(t, "release")
  /\ data' = [data EXCEPT !.glob = th[t].loc + 1]
  /\ UNCHANGED <<kind, lock, mn>>

\* The inner loop of thread_lock_speed goes round again, here once more.
Release(t) ==
  /\ At(t, "release") /\ UNCHANGED <<kind, mn, data>>
  /\ IF kind = "lock_speed" /\ th[t].k = 0
       THEN th' = [th EXCEPT ![t].pc = "load", ![t].k = 1] /\ UNCHANGED lock
       ELSE /\ th' = [th EXCEPT ![t].pc = IF th[t].j + 1 = Loops THEN "done" ELSE "start",
                                ![t].j = @ + 1, ![t].k = 0]
            /\ lock' = IF kind = "incr" THEN lock ELSE 0

Increment(t) == Acquire(t) \/ Load(t) \/ Store(t) \/ Release(t)
thread_incr(t) == kind = "incr" /\ Increment(t)
thread_incr_mutex(t) == kind = "incr_mutex" /\ Increment(t)
thread_incr_rwlock(t) == kind = "incr_rwlock" /\ Increment(t)
thread_incr_spinlock(t) == kind = "incr_spinlock" /\ Increment(t)
thread_incr_psem(t) == kind = "incr_psem" /\ Increment(t)
thread_lock_speed(t) == kind = "lock_speed" /\ Increment(t)

\* pthread_join() of each of them, and the end of the program.
JoinAll ==
  /\ kind \in Counting \cup {"once", "barrier"} /\ ~Done /\ Ended
  /\ mn' = [mn EXCEPT !.pc = "exit"] /\ UNCHANGED <<kind, lock, th, data>>

-----------------------------------------------------------------------------
(* prod_condvar and prod_no_condvar.                                       *)

\* A slip: the consumer is woken before there is anything for it.
ProduceSignalFirst(t) ==
  /\ kind \in Producing /\ UNCHANGED <<kind, lock>>
  /\ \/ At(t, "start") /\ Go(t, "signal") /\ UNCHANGED data
        /\ mn' = IF mn.pc = "waiting" THEN [mn EXCEPT !.pc = "relock"] ELSE mn
     \/ At(t, "signal") /\ Free /\ Round(t, "start") /\ data' = [data EXCEPT !.avail = @ + 1] /\ UNCHANGED mn

\* lock, avail++, unlock; and pthread_cond_signal() where there is one.
Produce(t) ==
  /\ kind \in Producing /\ UNCHANGED <<kind, lock>>
  /\ \/ /\ At(t, "start") /\ Free /\ data' = [data EXCEPT !.avail = @ + 1] /\ UNCHANGED mn
        /\ IF kind = "prod_condvar" THEN Go(t, "signal") ELSE Round(t, "start")
     \/ /\ At(t, "signal") /\ Round(t, "start") /\ UNCHANGED data
        /\ mn' = IF mn.pc = "waiting" THEN [mn EXCEPT !.pc = "relock"] ELSE mn

\* pthread_cond_wait() may return for no reason.
Spurious ==
  /\ mn.pc = "waiting" /\ mn' = [mn EXCEPT !.pc = "relock"]
  /\ UNCHANGED <<kind, lock, th, data>>

\* The loop of main(): with the lock, all there is, one unit after the other;
\* "done" is only looked at after something was consumed.
Consume ==
  /\ kind \in Producing /\ UNCHANGED <<kind, th>>
  /\ \/ /\ mn.pc \in {"start", "relock"} /\ Free
        /\ IF kind = "prod_condvar" /\ data.avail = 0
             THEN mn' = [mn EXCEPT !.pc = "waiting"] /\ UNCHANGED lock
             ELSE mn' = [mn EXCEPT !.pc = "consume"] /\ lock' = Main
        /\ UNCHANGED data
     \/ /\ mn.pc = "consume" /\ data.avail > 0
        /\ mn' = [mn EXCEPT !.n = @ + 1, !.done = mn.n + 1 >= Loops * Cardinality(Workers)]
        /\ data' = [data EXCEPT !.avail = @ - 1] /\ UNCHANGED lock
     \/ /\ mn.pc = "consume" /\ data.avail = 0 /\ lock' = 0
        /\ mn' = [mn EXCEPT !.pc = IF mn.done THEN "exit" ELSE "start"] /\ UNCHANGED data

-----------------------------------------------------------------------------
(* thread_multijoin.                                                       *)

ThreadDies(t) ==
  /\ kind = "multijoin" /\ UNCHANGED <<kind, lock>>
  /\ \/ /\ At(t, "start") /\ Free /\ Go(t, "signal") /\ UNCHANGED mn
        /\ data' = [data EXCEPT !.unjoined = @ + 1, !.state = [@ EXCEPT ![t] = "TERMINATED"]]
     \/ /\ At(t, "signal") /\ Go(t, "done") /\ UNCHANGED data
        /\ mn' = IF mn.pc = "waiting" THEN [mn EXCEPT !.pc = "relock"] ELSE mn

\* One pass over the array, the mutex held; each join waits for its thread to
\* be gone, not just marked.
JoinTerminated ==
  /\ kind = "multijoin" /\ UNCHANGED <<kind, th>>
  /\ \/ /\ mn.pc \in {"start", "relock"} /\ Free /\ UNCHANGED data
        /\ IF data.unjoined = 0 THEN mn' = [mn EXCEPT !.pc = "waiting"] /\ UNCHANGED lock
           ELSE mn' = [mn EXCEPT !.pc = "pass"] /\ lock' = Main
     \/ /\ mn.pc = "pass" /\ UNCHANGED lock
        /\ \E t \in Workers :
             /\ data.state[t] = "TERMINATED" /\ At(t, "done")
             /\ \A u \in Workers : u < t => data.state[u] # "TERMINATED"
             /\ data' = [data EXCEPT !.state = [@ EXCEPT ![t] = "JOINED"], !.unjoined = @ - 1]
             /\ mn' = [mn EXCEPT !.n = @ + 1]
     \/ /\ mn.pc = "pass" /\ \A t \in Workers : data.state[t] # "TERMINATED"
        /\ mn' = [mn EXCEPT !.pc = IF mn.n = Cardinality(Workers) THEN "exit" ELSE "start"]
        /\ lock' = 0 /\ UNCHANGED data

-----------------------------------------------------------------------------
(* one_time_init, Loops times in each thread, and pthread_barrier_demo.    *)

one_time_init(t) ==
  /\ kind = "once" /\ UNCHANGED <<kind, mn>>
  /\ \/ /\ At(t, "start") /\ Free /\ UNCHANGED data
        /\ IF data.called THEN Round(t, "start") /\ UNCHANGED lock ELSE Go(t, "init") /\ lock' = t
     \/ /\ At(t, "init") /\ Round(t, "start") /\ lock' = 0
        /\ data' = [data EXCEPT !.called = TRUE, !.inits = @ + 1]

\* The barrier opens for everyone when all have come to it.
BarrierWait(t) ==
  /\ kind = "barrier" /\ UNCHANGED <<kind, lock, mn>>
  /\ \/ /\ At(t, "start") /\ Go(t, "barrier") /\ UNCHANGED data
     \/ /\ \A u \in Workers : At(u, "barrier")
        /\ data' = [data EXCEPT !.serial = @ + 1]      \* t is the serial thread
        /\ th' = [u \in Workers |-> [th[u] EXCEPT !.pc = "passed"]]
     \/ At(t, "passed") /\ Round(t, "start") /\ UNCHANGED data

-----------------------------------------------------------------------------
(* thread_cleanup and thread_cancel: one thread, which main() cancels, or  *)
(* lets go on.  printf() may be a cancellation point.                      *)

Thread == CHOOSE t \in Workers : TRUE
Cancelled == data.cancel /\ kind \in {"cleanup", "cancel"}

\* Cancelled where no handler has been pushed yet.
CancelledEarly ==
  /\ Cancelled /\ th[Thread].pc \in {"start", "printed"} /\ ~(kind = "cleanup" /\ At(Thread, "start"))
  /\ Go(Thread, "cancelled") /\ UNCHANGED <<kind, lock, mn, data>>

CleanupThread ==
  /\ kind = "cleanup" /\ UNCHANGED <<kind, mn>>
  /\ \/ At(Thread, "start") /\ Go(Thread, "printed") /\ data' = [data EXCEPT !.buf = TRUE] /\ UNCHANGED lock
     \/ At(Thread, "printed") /\ Free /\ Go(Thread, "wait") /\ lock' = Thread /\ UNCHANGED data
     \/ At(Thread, "wait") /\ ~data.flag /\ Go(Thread, "waiting") /\ lock' = 0 /\ UNCHANGED data
     \/ At(Thread, "relock") /\ Free /\ Go(Thread, "wait") /\ lock' = Thread /\ UNCHANGED data

\* A cancelled pthread_cond_wait() has the mutex again when the handler runs;
\* pthread_cleanup_pop(1) runs it too.
cleanupHandler ==
  /\ kind = "cleanup" /\ UNCHANGED <<kind, mn>>
  /\ \/ At(Thread, "waiting") /\ data.cancel /\ Free /\ Go(Thread, "cancelled") /\ UNCHANGED lock
     \/ At(Thread, "wait") /\ data.flag /\ Go(Thread, "done") /\ lock' = 0
  /\ data' = [data EXCEPT !.buf = FALSE]

Cancel ==
  /\ kind \in {"cleanup", "cancel"} /\ mn.pc = "start"
  /\ mn' = [mn EXCEPT !.pc = "join"] /\ data' = [data EXCEPT !.cancel = TRUE]
  /\ UNCHANGED <<kind, lock, th>>
LetGo ==
  /\ kind = "cleanup" /\ UNCHANGED <<kind, lock>>
  /\ \/ /\ mn.pc = "start" /\ Free /\ mn' = [mn EXCEPT !.pc = "wake"]
        /\ data' = [data EXCEPT !.flag = TRUE] /\ UNCHANGED th
     \/ /\ mn.pc = "wake" /\ mn' = [mn EXCEPT !.pc = "join"] /\ UNCHANGED data
        /\ IF At(Thread, "waiting") THEN Go(Thread, "relock") ELSE UNCHANGED th
JoinOne ==
  /\ kind \in {"cleanup", "cancel"} /\ mn.pc = "join" /\ th[Thread].pc \in {"done", "cancelled"}
  /\ mn' = [mn EXCEPT !.pc = "exit"] /\ UNCHANGED <<kind, lock, th, data>>

-----------------------------------------------------------------------------
(* strerror_test with strerror.c, strerror_tls.c or strerror_tsd.c.        *)

\* The buffer of the caller.
strerrorBuf(t) == IF kind = "strerror" THEN "static" ELSE IF t = Main THEN "main" ELSE "thread"

StrerrorTest ==
  /\ kind \in {"strerror", "strerror_tls", "strerror_tsd"} /\ UNCHANGED <<kind, lock>>
  /\ \/ /\ mn.pc = "start" /\ mn' = [mn EXCEPT !.pc = "create"] /\ UNCHANGED th
        /\ data' = [data EXCEPT !.str = [@ EXCEPT ![strerrorBuf(Main)] = "EINVAL"]]
     \/ /\ mn.pc = "create" /\ At(Thread, "start") /\ Go(Thread, "done") /\ UNCHANGED mn
        /\ data' = [data EXCEPT !.str = [@ EXCEPT ![strerrorBuf(Thread)] = "EPERM"]]
     \/ mn.pc = "create" /\ At(Thread, "done") /\ mn' = [mn EXCEPT !.pc = "exit"] /\ UNCHANGED <<th, data>>

-----------------------------------------------------------------------------
Init ==
  /\ kind \in Counting \cup Producing
       \cup {"multijoin", "once", "barrier", "cleanup", "cancel", "strerror", "strerror_tls", "strerror_tsd"}
  /\ lock = 0
  /\ th = [t \in Workers |-> [pc |-> "start", loc |-> 0, j |-> 0, k |-> 0]]
  /\ mn = [pc |-> "start", n |-> 0, done |-> FALSE]
  /\ data = [glob |-> 0, avail |-> 0, unjoined |-> 0, state |-> [t \in Workers |-> "ALIVE"],
             called |-> FALSE, inits |-> 0, serial |-> 0, cancel |-> FALSE, flag |-> FALSE,
             buf |-> FALSE, str |-> [b \in {"static", "main", "thread"} |-> ""]]

Next ==
  \/ \E t \in Workers :
       \/ thread_incr(t) \/ thread_incr_mutex(t) \/ thread_incr_rwlock(t)
       \/ thread_incr_spinlock(t) \/ thread_incr_psem(t) \/ thread_lock_speed(t)
       \/ Produce(t) \/ ThreadDies(t)
       \/ one_time_init(t) \/ BarrierWait(t)
  \/ JoinAll \/ Spurious \/ Consume \/ JoinTerminated \/ CancelledEarly \/ CleanupThread
  \/ cleanupHandler \/ Cancel \/ LetGo \/ JoinOne \/ StrerrorTest

Spec == Init /\ [][Next]_vars

-----------------------------------------------------------------------------
\* Nothing is lost on the way to the end of the program: locked increments all
\* count, unlocked ones count at least twice and at most all; every unit is
\* consumed, every thread joined once it is gone, the initialization done
\* once, every barrier passed by all before the next, the mutex left free, and
\* the memory freed unless the thread was cancelled before the handler was
\* pushed; and main()'s string is its own unless the buffer is static.
WorkAccounted ==
  LET n == Cardinality(Workers)
      rounds == {t \in Workers : th[t].j > 0}
  IN /\ Done => lock = 0
     /\ kind \in Counting /\ Done =>
          IF kind = "incr" THEN data.glob \in 2..(n * Loops)
          ELSE data.glob = n * Loops * (IF kind = "lock_speed" THEN 2 ELSE 1)
     /\ kind \in Producing /\ Done => mn.n = n * Loops /\ data.avail = 0
     /\ kind = "multijoin" /\ Done => \A t \in Workers : data.state[t] = "JOINED" /\ At(t, "done")
     /\ kind = "once" => data.inits <= 1 /\ (rounds # {} => data.inits = 1)
     /\ kind = "barrier" => \A t \in Workers : th[t].j \in {data.serial - 1, data.serial}
     /\ kind = "cleanup" /\ Done /\ data.buf => At(Thread, "cancelled") /\ data.cancel
     /\ kind \in {"strerror_tls", "strerror_tsd"} /\ Done => data.str["main"] = "EINVAL"

\* Whoever sleeps on a condition variable has nothing to do yet, or somebody
\* is still to signal: no wake-up is lost.
WakeupToCome ==
  /\ mn.pc = "waiting" =>
       \/ data.avail = 0 /\ data.unjoined = 0 /\ \E t \in Workers : th[t].pc # "done"
       \/ \E t \in Workers : At(t, "signal")
  /\ kind = "cleanup" /\ At(Thread, "waiting") /\ data.flag => mn.pc = "wake"

-----------------------------------------------------------------------------
(* The inductive invariant.                                                *)

Kinds == Counting \cup Producing
  \cup {"multijoin", "once", "barrier", "cleanup", "cancel", "strerror", "strerror_tls", "strerror_tsd"}

Labels == {"start", "load", "store", "release", "signal", "init", "barrier", "passed", "printed",
           "wait", "waiting", "relock", "done", "cancelled"}
ThreadStates == [pc : Labels, loc : Nat, j : Nat, k : {0, 1}]
MainLabels == {"start", "waiting", "relock", "consume", "pass", "wake", "join", "create", "exit"}

TypeOK ==
  /\ kind \in Kinds
  /\ th \in [Workers -> ThreadStates]
  /\ mn \in [pc : MainLabels, n : Nat, done : BOOLEAN]
  /\ data \in [glob : Nat, avail : Nat, unjoined : Nat, state : [Workers -> {"ALIVE", "TERMINATED", "JOINED"}],
               called : BOOLEAN, inits : Nat, serial : Nat, cancel : BOOLEAN, flag : BOOLEAN,
               buf : BOOLEAN, str : [{"static", "main", "thread"} -> {"", "EINVAL", "EPERM"}]]

\* What a thread has stored or produced so far, what it is to do in all, and
\* what all of them have done, as the set of a thread's first, second, ...
Most == IF kind = "lock_speed" THEN 2 * Loops ELSE Loops
Turns == [t \in Workers |->
  (IF kind = "lock_speed" THEN 2 * th[t].j + th[t].k ELSE th[t].j) + (IF th[t].pc \in {"release", "signal"} THEN 1 ELSE 0)]
DoneSoFar == {x \in Workers \X (1..Most) : x[2] <= Turns[x[1]]}

\* A thread at work on its round j, or at the end of the last.
InRound(t, labels) ==
  \/ th[t].pc \in labels /\ th[t].j < Loops
  \/ th[t].pc = "done" /\ th[t].j = Loops /\ th[t].k = 0

\* With a lock the counter is what was stored, and a copy of it is up to date;
\* without one it may be less, but a thread that has stored before has read at
\* least 1, so that the last store of all, in some thread's last round, gives
\* at least 2.
CountInv ==
  /\ mn.pc \in {"start", "exit"} /\ (Done => Ended)
  /\ \A t \in Workers : /\ InRound(t, {"start", "load", "store", "release"})
                        /\ th[t].k = 1 => kind = "lock_speed" /\ th[t].pc # "start"
  /\ IF kind = "incr"
     THEN /\ lock = 0
          /\ data.glob <= Cardinality(DoneSoFar)
          /\ (\E t \in Workers : Turns[t] > 0) => data.glob >= 1
          /\ (\A t \in Workers : Turns[t] = Loops) => data.glob >= 2
          /\ \A t \in Workers : At(t, "store") => th[t].loc <= Cardinality(DoneSoFar) /\ (th[t].j > 0 => th[t].loc >= 1)
     ELSE /\ lock \in Workers \cup {0}
          /\ \A t \in Workers : lock = t <=> th[t].pc \in {"load", "store", "release"}
          /\ data.glob = Cardinality(DoneSoFar)
          /\ \A t \in Workers : At(t, "store") => th[t].loc = data.glob

\* What was produced is there or consumed; main() leaves its inner loop for
\* good when it has consumed all there will ever be, and never waits then.
ProduceInv ==
  /\ mn.pc \in {"start", "waiting", "relock", "consume", "exit"}
  /\ lock = (IF mn.pc = "consume" THEN Main ELSE 0)
  /\ \A t \in Workers : InRound(t, {"start", "signal"}) /\ th[t].k = 0
  /\ mn.pc = "waiting" => kind = "prod_condvar"
  /\ mn.n + data.avail = Cardinality(DoneSoFar) /\ data.unjoined = 0
  /\ mn.done <=> mn.n >= Loops * Cardinality(Workers)
  /\ mn.done => mn.pc \in {"consume", "exit"}
  /\ Done => mn.done
  /\ WakeupToCome

\* A thread's mark in the array says where it is; unjoined counts the
\* terminated ones and main() the joined ones, and it looks for more while
\* there are others.
JoinInv ==
  /\ mn.pc \in {"start", "waiting", "relock", "pass", "exit"}
  /\ lock = (IF mn.pc = "pass" THEN Main ELSE 0)
  /\ \A t \in Workers : /\ th[t].pc = "start" <=> data.state[t] = "ALIVE"
                        /\ th[t].pc \in {"start", "signal", "done"}
                        /\ data.state[t] = "JOINED" => At(t, "done")
  /\ data.unjoined = Cardinality({t \in Workers : data.state[t] = "TERMINATED"}) /\ data.avail = 0
  /\ mn.n = Cardinality({t \in Workers : data.state[t] = "JOINED"})
  /\ mn.pc \in {"start", "waiting", "relock"} => mn.n # Cardinality(Workers)
  /\ Done => mn.n = Cardinality(Workers)
  /\ WakeupToCome

\* The initialization is made under the lock, before any round ends.
OnceInv ==
  /\ mn.pc \in {"start", "exit"} /\ (Done => Ended)
  /\ lock \in Workers \cup {0}
  /\ \A t \in Workers : /\ th[t].pc \in {"start", "init", "done"}
                        /\ lock = t <=> At(t, "init")
                        /\ At(t, "init") => ~data.called
                        /\ th[t].j > 0 => data.called
  /\ data.inits = IF data.called THEN 1 ELSE 0

BarrierInv ==
  /\ mn.pc \in {"start", "exit"} /\ lock = 0
  /\ \A t \in Workers : th[t].j = IF At(t, "passed") THEN data.serial - 1 ELSE data.serial

\* The thread has the mutex where it looks at the flag, and main() wakes it if
\* it set the flag while the thread was waiting.
CleanupInv ==
  /\ mn.pc \in {"start", "wake", "join", "exit"}
  /\ th[Thread].pc \in {"start", "printed", "wait", "waiting", "relock", "done", "cancelled"}
  /\ lock = (IF At(Thread, "wait") THEN Thread ELSE 0)
  /\ data.flag => mn.pc # "start"
  /\ At(Thread, "waiting") /\ data.flag => mn.pc = "wake"
  /\ At(Thread, "done") => ~data.buf
  /\ At(Thread, "cancelled") => data.cancel
  /\ Done => th[Thread].pc \in {"done", "cancelled"}

StrerrorInv ==
  /\ mn.pc \in {"start", "create", "exit"} /\ lock = 0
  /\ mn.pc # "start" /\ kind # "strerror" => data.str["main"] = "EINVAL"

IInv ==
  /\ TypeOK
  /\ kind \in Counting => CountInv
  /\ kind \in Producing => ProduceInv
  /\ kind = "multijoin" => JoinInv
  /\ kind = "once" => OnceInv
  /\ kind = "barrier" => BarrierInv
  /\ kind = "cleanup" => CleanupInv
  /\ kind = "cancel" => mn.pc \in {"start", "join", "exit"} /\ lock = 0
  /\ kind \in {"strerror", "strerror_tls", "strerror_tsd"} => StrerrorInv
=============================================================================
