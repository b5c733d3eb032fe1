----------------------------- MODULE IpcProofs -----------------------------
(***************************************************************************)
(* Proofs about the systems of IpcSystems, each for every value of the     *)
(* constants it is instantiated with.  The inductive invariant of a system *)
(* is defined in the module of that system.                                *)
(***************************************************************************)
EXTENDS IpcSystems, FiniteSetTheorems, SequenceTheorems, TLAPS

-----------------------------------------------------------------------------
(* MessageNotification.                                                    *)

LEMMA MqInit == Mq!Init => Mq!IInv
<1> SUFFICES ASSUME Mq!Init PROVE Mq!IInv
  OBVIOUS
<1>1. Mq!TypeOK
  BY DEF Mq!Init, Mq!TypeOK, Mq!Queues, Mq!Mains
<1>2. Mq!SignalInv /\ Mq!ThreadInv /\ Mq!WhyInv
  BY DEF Mq!Init, Mq!SignalInv, Mq!ThreadInv, Mq!WhyInv, Mq!Due, Mq!BySignal, Mq!ByThread
<1> QED
  BY <1>1, <1>2 DEF Mq!IInv

\* The queue and the other processes.
LEMMA MqOthers ==
  ASSUME Mq!IInv, Mq!pmsg_send \/ Mq!pmsg_receive \/ Mq!StraySignal
  PROVE  Mq!IInv'
<1> USE DEF Mq!IInv, Mq!BySignal, Mq!ByThread, Mq!Step
<1>1. CASE Mq!pmsg_send
  <2> DEFINE tell == v2.n = 0 /\ v2.reg = "mine"
  <2>0. v1' = v1 /\ v5' = v5 /\ v2 \in Mq!Queues /\ v2.sent \in Nat /\ v2.n \in Nat
    BY <1>1 DEF Mq!pmsg_send, Mq!TypeOK, Mq!Queues
  <2>1. CASE v2.blocked
    <3> USE <1>1, <2>1 DEF Mq!pmsg_send
    <3>1. v2' = [v2 EXCEPT !.blocked = FALSE, !.sent = @ + 1] /\ UNCHANGED <<v3, v4>>
      OBVIOUS
    <3>2. Mq!TypeOK'
      <4> DEFINE sent == v2.sent + 1
      <4>0. sent \in Nat /\ v2' = [v2 EXCEPT !.blocked = FALSE, !.sent = sent]
        BY <2>0, <3>1
      <4> HIDE DEF sent
      <4>1. v2' \in Mq!Queues
        BY <2>0, <4>0 DEF Mq!Queues
      <4> QED
        BY <2>0, <3>1, <4>1 DEF Mq!TypeOK, Mq!Queues
    <3> QED
      BY <2>0, <3>1, <3>2 DEF Mq!TypeOK, Mq!Queues, Mq!SignalInv, Mq!ThreadInv, Mq!WhyInv, Mq!Due
  <2>2. CASE ~v2.blocked
    <3> DEFINE reg == IF v2.n = 0 THEN "none" ELSE v2.reg
    <3>1. v2' = [v2 EXCEPT !.n = @ + 1, !.sent = @ + 1, !.reg = reg]
      BY <1>1, <2>2 DEF Mq!pmsg_send
    <3>2. v2' \in Mq!Queues /\ v2'.n = v2.n + 1 /\ v2'.sent = v2.sent + 1 /\ v2'.reg = reg
      <4>1. reg \in {"none", "mine", "other"}
        BY <2>0 DEF Mq!Queues
      <4> DEFINE n == v2.n + 1  sent == v2.sent + 1
      <4>2. n \in Nat /\ sent \in Nat /\ v2' = [v2 EXCEPT !.n = n, !.sent = sent, !.reg = reg]
        BY <2>0, <3>1
      <4>3. v2'.n = n /\ v2'.sent = sent /\ v2'.reg = reg
        BY <2>0, <4>2 DEF Mq!Queues
      <4>4. v2' \in Mq!Queues
        <5> HIDE DEF reg, n, sent
        <5> QED
          BY <2>0, <4>1, <4>2 DEF Mq!Queues
      <4> QED
        BY <4>3, <4>4
    <3>3. CASE ~tell
      <4>1. v3' = v3 /\ v4' = v4
        BY <1>1, <2>2, <3>3 DEF Mq!pmsg_send
      <4>2. Mq!TypeOK'
        BY <2>0, <3>2, <4>1 DEF Mq!TypeOK
      <4>3. Mq!SignalInv'
        BY <2>0, <3>2, <3>3, <4>1 DEF Mq!TypeOK, Mq!SignalInv, Mq!Due
      <4>4. Mq!ThreadInv'
        BY <2>0, <3>2, <3>3, <4>1 DEF Mq!TypeOK, Mq!ThreadInv
      <4> QED
        BY <2>0, <4>1, <4>2, <4>3, <4>4 DEF Mq!WhyInv
    <3>4. CASE tell /\ v1 \in Mq!BySignal
      <4>1. v3' = [v3 EXCEPT !.pending = TRUE] /\ v4' = v4
        BY <1>1, <2>2, <3>4 DEF Mq!pmsg_send
      <4>2. v3' \in Mq!Mains
        BY <4>1 DEF Mq!TypeOK, Mq!Mains
      <4>3. Mq!TypeOK'
        BY <2>0, <3>2, <4>1, <4>2 DEF Mq!TypeOK
      <4>4. Mq!SignalInv'
        <5>1. v2'.reg = "none" /\ v3'.pending /\ v3'.pc = v3.pc /\ v3'.gotSig = v3.gotSig /\ v3'.ready = v3.ready
          BY <3>2, <3>4, <4>1 DEF Mq!TypeOK, Mq!Mains
        <5>2. v1' = v1 /\ v5' = v5 /\ v4' = v4 /\ v2.reg = "mine"
          BY <2>0, <3>4, <4>1
        <5> QED
          BY <5>1, <5>2 DEF Mq!TypeOK, Mq!SignalInv, Mq!Due
      <4>5. Mq!ThreadInv'
        BY <2>0, <3>4 DEF Mq!ThreadInv
      <4> QED
        BY <2>0, <4>1, <4>3, <4>4, <4>5 DEF Mq!WhyInv, Mq!TypeOK, Mq!Mains
    <3>5. CASE tell /\ v1 \in Mq!ByThread
      <4>1. v3' = v3 /\ v4' = [t \in DOMAIN v4 \cup {v2.sent} |-> IF t = v2.sent THEN "register" ELSE v4[t]]
        BY <1>1, <2>2, <3>5 DEF Mq!pmsg_send
      <4>2. Mq!TypeOK'
        BY <2>0, <3>2, <4>1 DEF Mq!TypeOK
      <4>3. Mq!SignalInv'
        BY <2>0, <3>5 DEF Mq!SignalInv
      <4>4. Mq!ThreadInv'
        BY <2>0, <3>2, <3>5, <4>1 DEF Mq!TypeOK, Mq!ThreadInv
      <4> QED
        BY <2>0, <4>1, <4>2, <4>3, <4>4 DEF Mq!WhyInv
    <3> QED
      BY <3>3, <3>4, <3>5 DEF Mq!TypeOK
  <2> QED
    BY <2>1, <2>2
<1>2. CASE Mq!pmsg_receive
  <2> USE <1>2, MqBounds DEF Mq!pmsg_receive
  <2>1. Mq!TypeOK'
    <3>1. v2' \in Mq!Queues
      <4>1. CASE v2.n > 0 /\ v2' = [v2 EXCEPT !.n = @ - 1]
        BY <4>1 DEF Mq!TypeOK, Mq!Queues
      <4>2. CASE v2' = [v2 EXCEPT !.blocked = TRUE]
        BY <4>2 DEF Mq!TypeOK, Mq!Queues
      <4> QED
        BY <4>1, <4>2
    <3>2. v3' \in Mq!Mains
      BY DEF Mq!TypeOK, Mq!Mains
    <3>3. v5' \in [big : BOOLEAN, stray : Nat]
      BY DEF Mq!TypeOK
    <3>4. \A t \in DOMAIN v4' : t \in Nat /\ t < v2'.sent /\ v4'[t] \in {"register", "drain", "over"}
      BY DEF Mq!TypeOK, Mq!Queues
    <3> QED
      BY <3>1, <3>2, <3>3, <3>4 DEF Mq!TypeOK
  <2> USE DEF Mq!TypeOK, Mq!Queues, Mq!Mains
  <2>2. Mq!SignalInv'
    BY DEF Mq!SignalInv, Mq!Due
  <2>3. Mq!ThreadInv'
    BY DEF Mq!ThreadInv
  <2>4. Mq!WhyInv'
    BY DEF Mq!WhyInv
  <2> QED
    BY <2>1, <2>2, <2>3, <2>4
<1>3. CASE Mq!StraySignal
  <2> USE <1>3, MqBounds DEF Mq!StraySignal
  <2>1. Mq!TypeOK'
    <3>1. v2' \in Mq!Queues
      BY DEF Mq!TypeOK, Mq!Queues
    <3>2. v3' \in Mq!Mains
      BY DEF Mq!TypeOK, Mq!Mains
    <3>3. v5' \in [big : BOOLEAN, stray : Nat]
      BY DEF Mq!TypeOK
    <3>4. \A t \in DOMAIN v4' : t \in Nat /\ t < v2'.sent /\ v4'[t] \in {"register", "drain", "over"}
      BY DEF Mq!TypeOK, Mq!Queues
    <3> QED
      BY <3>1, <3>2, <3>3, <3>4 DEF Mq!TypeOK
  <2> USE DEF Mq!TypeOK, Mq!Queues, Mq!Mains
  <2>2. Mq!SignalInv'
    BY DEF Mq!SignalInv, Mq!Due
  <2>3. Mq!ThreadInv'
    BY DEF Mq!ThreadInv
  <2>4. Mq!WhyInv'
    BY DEF Mq!WhyInv
  <2> QED
    BY <2>1, <2>2, <2>3, <2>4
<1> QED
  BY <1>1, <1>2, <1>3

\* The program ends for a reason that is not its own mistake.
LEMMA MqFail ==
  ASSUME Mq!IInv, NEW why \in {"mine", "other", "EMSGSIZE"}, Mq!Fail(why), UNCHANGED <<v1, v4, v5>>, v3.pc # "start",
         why = "mine" => v1 \in Mq!BySignal /\ v5.stray > 0,
         why = "EMSGSIZE" => v5.big /\ v1 = "siginfo"
  PROVE  Mq!IInv'
<1> DEFINE reg == IF v2.reg = "mine" THEN "none" ELSE v2.reg
<1>1. v2 \in Mq!Queues /\ v3 \in Mq!Mains /\ v2' = [v2 EXCEPT !.reg = reg] /\ v3' = [v3 EXCEPT !.pc = "failed", !.why = why]
  BY DEF Mq!IInv, Mq!TypeOK, Mq!Fail
<1>2. reg \in {"none", "other"}
  BY <1>1 DEF Mq!Queues
<1> HIDE DEF reg
<1>3. v2' \in Mq!Queues /\ v3' \in Mq!Mains
  BY <1>1, <1>2 DEF Mq!Queues, Mq!Mains
<1>4. /\ v2'.n = v2.n /\ v2'.sent = v2.sent /\ v2'.reg = reg
      /\ v3'.pc = "failed" /\ v3'.pending = v3.pending /\ v3'.ready = v3.ready /\ v3'.why = why
  BY <1>1 DEF Mq!Queues, Mq!Mains
<1>5. Mq!TypeOK'
  BY <1>3, <1>4 DEF Mq!IInv, Mq!TypeOK
<1>6. Mq!SignalInv' /\ Mq!ThreadInv' /\ Mq!WhyInv'
  BY <1>2, <1>4 DEF Mq!IInv, Mq!TypeOK, Mq!SignalInv, Mq!ThreadInv, Mq!WhyInv, Mq!Due, Mq!BySignal, Mq!ByThread
<1> QED
  BY <1>5, <1>6 DEF Mq!IInv

LEMMA MqRegister ==
  ASSUME Mq!IInv, NEW l \in {"drain", "wait"}, Mq!Register(l), UNCHANGED v1,
         v1 \in {"siginfo", "via_signal", "via_thread"} => l = "drain"
  PROVE  Mq!IInv'
<1> USE DEF Mq!Register, Mq!At
<1>1. CASE v2.reg # "none"
  <2>1. v2.reg \in {"mine", "other"} /\ v1 \in Mq!BySignal \cup Mq!ByThread /\ v5.stray \in Nat
    BY <1>1 DEF Mq!IInv, Mq!TypeOK, Mq!Queues
  <2>2. v2.reg = "mine" => v1 \in Mq!BySignal /\ v5.stray > 0
    BY <2>1 DEF Mq!IInv, Mq!SignalInv, Mq!ThreadInv
  <2> QED
    BY <1>1, <2>1, <2>2, MqFail
<1>2. CASE v2.reg = "none"
  <2>1. v2 \in Mq!Queues /\ v3 \in Mq!Mains /\ v2' = [v2 EXCEPT !.reg = "mine"] /\ v3' = [v3 EXCEPT !.pc = l]
    BY <1>2 DEF Mq!IInv, Mq!TypeOK, Mq!Go
  <2>2. v2' \in Mq!Queues /\ v3' \in Mq!Mains
    BY <2>1 DEF Mq!Queues, Mq!Mains
  <2>3. /\ v2'.n = v2.n /\ v2'.sent = v2.sent /\ v2'.reg = "mine" /\ v3'.pc = l /\ v3'.pending = v3.pending
        /\ v3'.gotSig = v3.gotSig /\ v3'.ready = v3.ready /\ v3'.why = v3.why
    BY <2>1 DEF Mq!Queues, Mq!Mains
  <2>4. Mq!TypeOK'
    BY <2>2, <2>3 DEF Mq!IInv, Mq!TypeOK
  <2>5. Mq!SignalInv'
    BY <2>3 DEF Mq!IInv, Mq!TypeOK, Mq!SignalInv, Mq!Due, Mq!BySignal, Mq!ByThread
  <2>6. Mq!ThreadInv' /\ Mq!WhyInv'
    BY <2>3 DEF Mq!IInv, Mq!TypeOK, Mq!ThreadInv, Mq!WhyInv, Mq!BySignal, Mq!ByThread
  <2> QED
    BY <2>4, <2>5, <2>6 DEF Mq!IInv
<1> QED
  BY <1>1, <1>2

LEMMA MqDrain ==
  ASSUME Mq!IInv, NEW l \in {"sleep", "wait"}, Mq!Drain(l), UNCHANGED v1,
         v1 \in {"siginfo", "via_signal"} <=> l = "sleep"
  PROVE  Mq!IInv'
<1> USE DEF Mq!Drain, Mq!At
<1>0. v2 \in Mq!Queues /\ v3 \in Mq!Mains /\ v2.n \in Nat
  BY DEF Mq!IInv, Mq!TypeOK, Mq!Queues
<1>1. CASE v2.n = 0
  <2>1. v2' = v2 /\ v3' = [v3 EXCEPT !.pc = l]
    BY <1>1 DEF Mq!IInv, Mq!TypeOK, Mq!Go
  <2>2. v3' \in Mq!Mains
    BY <1>0, <2>1 DEF Mq!Mains
  <2>3. /\ v3'.pc = l /\ v3'.pending = v3.pending
        /\ v3'.gotSig = v3.gotSig /\ v3'.ready = v3.ready /\ v3'.why = v3.why
    BY <1>0, <2>1 DEF Mq!Mains
  <2>4. Mq!TypeOK'
    BY <2>1, <2>2, <2>3 DEF Mq!IInv, Mq!TypeOK
  <2>5. Mq!SignalInv'
    BY <1>1, <2>1, <2>3 DEF Mq!IInv, Mq!TypeOK, Mq!SignalInv, Mq!Due, Mq!BySignal, Mq!ByThread
  <2>6. Mq!ThreadInv' /\ Mq!WhyInv'
    BY <1>1, <2>1, <2>3 DEF Mq!IInv, Mq!TypeOK, Mq!ThreadInv, Mq!WhyInv, Mq!BySignal, Mq!ByThread
  <2> QED
    BY <2>4, <2>5, <2>6 DEF Mq!IInv
<1>2. CASE v2.n # 0 /\ v5.big /\ v1 = "siginfo"
  BY <1>2, MqFail
<1>3. CASE v2.n # 0 /\ ~(v5.big /\ v1 = "siginfo")
  <2>1. v2' = [v2 EXCEPT !.n = v2.n - 1] /\ v3' = v3 /\ v2.n - 1 \in Nat
    BY <1>0, <1>3 DEF Mq!IInv, Mq!TypeOK, Mq!Go
  <2>2. v2' \in Mq!Queues
    BY <1>0, <2>1 DEF Mq!Queues
  <2>3. v2'.n = v2.n - 1 /\ v2'.reg = v2.reg /\ v2'.sent = v2.sent
    BY <1>0, <2>1 DEF Mq!Queues
  <2>4. Mq!TypeOK'
    BY <2>1, <2>2, <2>3 DEF Mq!IInv, Mq!TypeOK
  <2>5. Mq!SignalInv'
    BY <1>0, <1>3, <2>1, <2>3 DEF Mq!IInv, Mq!TypeOK, Mq!SignalInv, Mq!Due, Mq!BySignal, Mq!ByThread
  <2>6. Mq!ThreadInv' /\ Mq!WhyInv'
    BY <1>0, <1>3, <2>1, <2>3 DEF Mq!IInv, Mq!TypeOK, Mq!ThreadInv, Mq!WhyInv, Mq!BySignal, Mq!ByThread
  <2> QED
    BY <2>4, <2>5, <2>6 DEF Mq!IInv
<1> QED
  BY <1>1, <1>2, <1>3

LEMMA MqThread ==
  ASSUME Mq!IInv, NEW t \in DOMAIN v4, v3.pc # "failed", Mq!threadFunc(t), UNCHANGED v1, v1 \in Mq!ByThread
  PROVE  Mq!IInv'
<1>0. v2 \in Mq!Queues /\ v3 \in Mq!Mains /\ v2.n \in Nat /\ v3.pc \notin {"start", "register"}
  BY DEF Mq!IInv, Mq!TypeOK, Mq!Queues, Mq!ThreadInv
<1>1. CASE Mq!notifySetup(t) /\ v2.reg # "none"
  <2>1. v2.reg = "other"
    BY <1>1 DEF Mq!notifySetup, Mq!IInv, Mq!TypeOK, Mq!Queues, Mq!ThreadInv
  <2> QED
    BY <1>0, <1>1, <2>1, MqFail DEF Mq!notifySetup
<1>2. CASE Mq!notifySetup(t) /\ v2.reg = "none"
  <2>1. v2' = [v2 EXCEPT !.reg = "mine"] /\ v3' = v3 /\ v4' = [v4 EXCEPT ![t] = "drain"] /\ v4[t] = "register" /\ v5' = v5
    BY <1>2 DEF Mq!notifySetup
  <2>2. v2' \in Mq!Queues
    BY <1>0, <2>1 DEF Mq!Queues
  <2>3. v2'.n = v2.n /\ v2'.reg = "mine" /\ v2'.sent = v2.sent
    BY <1>0, <2>1 DEF Mq!Queues
  <2>4. Mq!TypeOK'
    BY <2>1, <2>2, <2>3 DEF Mq!IInv, Mq!TypeOK
  <2>5. Mq!SignalInv'
    BY DEF Mq!SignalInv, Mq!ByThread, Mq!BySignal
  <2>6. Mq!ThreadInv' /\ Mq!WhyInv'
    BY <1>0, <2>1, <2>3 DEF Mq!IInv, Mq!TypeOK, Mq!ThreadInv, Mq!WhyInv
  <2> QED
    BY <2>4, <2>5, <2>6 DEF Mq!IInv
<1>3. CASE Mq!drainQueue(t) /\ v2.n = 0
  <2>1. UNCHANGED <<v2, v3, v5>> /\ v4' = [v4 EXCEPT ![t] = "over"] /\ v4[t] = "drain"
    BY <1>3 DEF Mq!drainQueue
  <2>4. Mq!TypeOK'
    BY <2>1 DEF Mq!IInv, Mq!TypeOK
  <2>5. Mq!SignalInv'
    BY DEF Mq!SignalInv, Mq!ByThread, Mq!BySignal
  <2>6. Mq!ThreadInv' /\ Mq!WhyInv'
    BY <1>0, <1>3, <2>1 DEF Mq!IInv, Mq!TypeOK, Mq!ThreadInv, Mq!WhyInv
  <2> QED
    BY <2>4, <2>5, <2>6 DEF Mq!IInv
<1>4. CASE Mq!drainQueue(t) /\ v2.n # 0
  <2>1. v2' = [v2 EXCEPT !.n = v2.n - 1] /\ UNCHANGED <<v3, v4, v5>> /\ v2.n - 1 \in Nat
    BY <1>0, <1>4 DEF Mq!drainQueue
  <2>2. v2' \in Mq!Queues
    BY <1>0, <2>1 DEF Mq!Queues
  <2>3. v2'.n = v2.n - 1 /\ v2'.reg = v2.reg /\ v2'.sent = v2.sent
    BY <1>0, <2>1 DEF Mq!Queues
  <2>4. Mq!TypeOK'
    BY <2>1, <2>2, <2>3 DEF Mq!IInv, Mq!TypeOK
  <2>5. Mq!SignalInv'
    BY DEF Mq!SignalInv, Mq!ByThread, Mq!BySignal
  <2>6. Mq!ThreadInv' /\ Mq!WhyInv'
    BY <1>0, <1>4, <2>1, <2>3 DEF Mq!IInv, Mq!TypeOK, Mq!ThreadInv, Mq!WhyInv
  <2> QED
    BY <2>4, <2>5, <2>6 DEF Mq!IInv
<1> QED
  BY <1>1, <1>2, <1>3, <1>4 DEF Mq!threadFunc

\* The steps of the main thread that leave the queue alone.
LEMMA MqMain ==
  ASSUME Mq!IInv, Mq!Prepare \/ Mq!AwaitSignal \/ Mq!Handler \/ Mq!LookAtFlag
  PROVE  Mq!IInv'
<1>0. v3 \in Mq!Mains /\ UNCHANGED <<v1, v2, v4, v5>>
  BY DEF Mq!IInv, Mq!TypeOK, Mq!Step, Mq!Prepare, Mq!AwaitSignal, Mq!Handler, Mq!LookAtFlag
<1>1. v3' \in Mq!Mains /\ v3'.why = v3.why
  BY <1>0 DEF Mq!Step, Mq!At, Mq!Go, Mq!Mains, Mq!Prepare, Mq!AwaitSignal, Mq!Handler, Mq!LookAtFlag
<1>2. Mq!TypeOK' /\ Mq!WhyInv'
  BY <1>0, <1>1 DEF Mq!IInv, Mq!TypeOK, Mq!WhyInv
<1> USE DEF Mq!IInv, Mq!TypeOK, Mq!Step, Mq!At, Mq!Go, Mq!Mains, Mq!BySignal, Mq!ByThread
<1>3. Mq!SignalInv'
  <2>1. CASE Mq!Prepare
    <3> DEFINE l == IF v1 \in {"siginfo", "via_signal"} THEN "loop" ELSE "register"
    <3>1. v3.pc = "start" /\ v3'.pc = l /\ v3'.ready /\ v3'.gotSig = v3.gotSig /\ v3'.pending = v3.pending
      BY <1>0, <2>1 DEF Mq!Prepare
    <3>2. CASE v1 \in {"siginfo", "via_signal"}
      BY <1>0, <3>1, <3>2 DEF Mq!SignalInv, Mq!Due
    <3>3. CASE v1 \in {"sig", "sigwaitinfo"}
      BY <1>0, <3>1, <3>3 DEF Mq!SignalInv, Mq!Due
    <3> QED
      BY <1>0, <3>2, <3>3 DEF Mq!SignalInv
  <2>2. CASE Mq!AwaitSignal
    BY <1>0, <2>2 DEF Mq!AwaitSignal, Mq!SignalInv, Mq!Due
  <2>3. CASE Mq!Handler
    BY <1>0, <2>3 DEF Mq!Handler, Mq!SignalInv, Mq!Due
  <2>4. CASE Mq!LookAtFlag
    BY <1>0, <2>4, ZenonT(30) DEF Mq!LookAtFlag, Mq!SignalInv, Mq!Due
  <2> QED
    BY <2>1, <2>2, <2>3, <2>4
<1>4. Mq!ThreadInv'
  <2>1. CASE Mq!Prepare
    BY <1>0, <2>1 DEF Mq!Prepare, Mq!ThreadInv
  <2>2. CASE Mq!AwaitSignal \/ Mq!Handler \/ Mq!LookAtFlag
    BY <1>0, <2>2 DEF Mq!AwaitSignal, Mq!Handler, Mq!LookAtFlag, Mq!ThreadInv
  <2> QED
    BY <2>1, <2>2
<1> QED
  BY <1>2, <1>3, <1>4

LEMMA MqNext == Mq!IInv /\ [Mq!Next]_Mq!vars => Mq!IInv'
<1> SUFFICES ASSUME Mq!IInv, [Mq!Next]_Mq!vars PROVE Mq!IInv'
  OBVIOUS
<1>1. CASE Mq!pmsg_send \/ Mq!pmsg_receive \/ Mq!StraySignal
  BY <1>1, MqOthers
<1>2. CASE Mq!Prepare \/ Mq!AwaitSignal \/ Mq!Handler \/ Mq!LookAtFlag
  BY <1>2, MqMain
<1>3. CASE Mq!mq_notify_sig \/ Mq!mq_notify_sigwaitinfo
  <2> DEFINE l == IF v3.first THEN "wait" ELSE "drain"
  <2>1. v1 \in {"sig", "sigwaitinfo"} /\ v1' = v1 /\ (Mq!Register(l) \/ Mq!Drain("wait"))
    BY <1>3 DEF Mq!mq_notify_sig, Mq!mq_notify_sigwaitinfo, Mq!Step
  <2>2. l \in {"drain", "wait"}
    OBVIOUS
  <2> HIDE DEF l
  <2> QED
    BY <2>1, <2>2, MqRegister, MqDrain
<1>4. CASE Mq!mq_notify_via_signal \/ Mq!mq_notify_siginfo
  <2>1. v1 \in {"via_signal", "siginfo"} /\ v1' = v1 /\ (Mq!Register("drain") \/ Mq!Drain("sleep"))
    BY <1>4 DEF Mq!mq_notify_via_signal, Mq!mq_notify_siginfo, Mq!Step
  <2> QED
    BY <2>1, MqRegister, MqDrain
<1>5. CASE Mq!mq_notify_thread
  BY <1>5, MqRegister, MqThread DEF Mq!mq_notify_thread, Mq!Step, Mq!ByThread
<1>6. CASE Mq!mq_notify_via_thread
  BY <1>6, MqRegister, MqDrain, MqThread DEF Mq!mq_notify_via_thread, Mq!Step, Mq!ByThread
<1>7. CASE UNCHANGED Mq!vars
  BY <1>7 DEF Mq!vars, Mq!IInv, Mq!TypeOK, Mq!SignalInv, Mq!ThreadInv, Mq!WhyInv, Mq!Due
<1> QED
  BY <1>1, <1>2, <1>3, <1>4, <1>5, <1>6, <1>7 DEF Mq!Next

LEMMA MqSafe == Mq!IInv => Mq!NoneLeftUnread
BY DEF Mq!IInv, Mq!TypeOK, Mq!Mains, Mq!Queues, Mq!SignalInv, Mq!ThreadInv, Mq!WhyInv, Mq!Due, Mq!Idle, Mq!NoneLeftUnread,
       Mq!BySignal, Mq!ByThread, Mq!Drainers

-----------------------------------------------------------------------------
(* Semaphores.                                                             *)

LEMMA SemReserve ==
  ASSUME v2 \in Sems!Sets, NEW s \in 1..2, Sems!ReserveSem(s)
  PROVE  /\ v2' \in Sems!Sets /\ v2.val[s] > 0 /\ v2'.val[s] = v2.val[s] - 1 /\ v2'.made = v2.made /\ v2'.otime
         /\ \A r \in 1..2 : r # s => v2'.val[r] = v2.val[r]
<1> DEFINE val == [v2.val EXCEPT ![s] = @ - 1]
<1>1. v2.val \in [1..2 -> Nat] /\ v2.val[s] > 0 /\ v2' = [v2 EXCEPT !.val = val, !.otime = TRUE]
  BY DEF Sems!ReserveSem, Sems!Sets
<1>2. val \in [1..2 -> Nat] /\ val[s] = v2.val[s] - 1 /\ \A r \in 1..2 : r # s => val[r] = v2.val[r]
  BY <1>1
<1> HIDE DEF val
<1> QED
  BY <1>1, <1>2 DEF Sems!Sets

LEMMA SemRelease ==
  ASSUME v2 \in Sems!Sets, NEW s \in 1..2, Sems!ReleaseSem(s)
  PROVE  /\ v2' \in Sems!Sets /\ v2'.val[s] = v2.val[s] + 1 /\ v2'.made = v2.made /\ v2'.otime
         /\ \A r \in 1..2 : r # s => v2'.val[r] = v2.val[r]
<1> DEFINE val == [v2.val EXCEPT ![s] = @ + 1]
<1>1. v2.val \in [1..2 -> Nat] /\ v2' = [v2 EXCEPT !.val = val, !.otime = TRUE]
  BY DEF Sems!ReleaseSem, Sems!Sets
<1>2. val \in [1..2 -> Nat] /\ val[s] = v2.val[s] + 1 /\ \A r \in 1..2 : r # s => val[r] = v2.val[r]
  BY <1>1
<1> HIDE DEF val
<1> QED
  BY <1>1, <1>2 DEF Sems!Sets

LEMMA SemGo ==
  ASSUME Sems!TypeOK, UNCHANGED v1, NEW p \in Sems!All, NEW l, [pc |-> l, n |-> 0] \in Sems!Positions, Sems!Go(p, l) \/ Sems!Count(p, l)
  PROVE  /\ v4' \in [Sems!All' -> Sems!Positions] /\ v4'[p].pc = l /\ v4[p].n \in Nat
         /\ Sems!Go(p, l) => v4'[p].n = v4[p].n
         /\ Sems!Count(p, l) => v4'[p].n = v4[p].n + 1
         /\ \A q \in Sems!All : q # p => v4'[q] = v4[q]
<1> DEFINE All == Sems!All  n == v4[p].n + 1  x == [v4[p] EXCEPT !.pc = l]  y == [v4[p] EXCEPT !.pc = l, !.n = n]
<1>1. Sems!All' = All /\ v4 \in [All -> Sems!Positions] /\ p \in All
  BY DEF Sems!All, Sems!TypeOK
<1>2. v4[p] \in Sems!Positions /\ v4[p].n \in Nat /\ n \in Nat
  BY <1>1 DEF Sems!Positions
<1>3. Sems!Go(p, l) => v4' = [v4 EXCEPT ![p] = x]
  BY DEF Sems!Go
<1>4. Sems!Count(p, l) => v4' = [v4 EXCEPT ![p] = y]
  BY DEF Sems!Count
<1> HIDE DEF All, n
<1>5. x \in Sems!Positions /\ x.pc = l /\ x.n = v4[p].n
  BY <1>2 DEF Sems!Positions
<1>6. y \in Sems!Positions /\ y.pc = l /\ y.n = n
  BY <1>2 DEF Sems!Positions
<1> HIDE DEF x, y
<1>7. CASE Sems!Go(p, l) /\ ~Sems!Count(p, l)
  <2>1. v4' \in [All -> Sems!Positions] /\ v4'[p] = x /\ \A q \in All : q # p => v4'[q] = v4[q]
    BY <1>1, <1>3, <1>5, <1>7
  <2> QED
    BY <1>1, <1>2, <1>5, <1>7, <2>1 DEF All
<1>8. CASE Sems!Count(p, l) /\ ~Sems!Go(p, l)
  <2>1. v4' \in [All -> Sems!Positions] /\ v4'[p] = y /\ \A q \in All : q # p => v4'[q] = v4[q]
    BY <1>1, <1>4, <1>6, <1>8
  <2> QED
    BY <1>1, <1>2, <1>6, <1>8, <2>1 DEF All, n
<1>9. ~(Sems!Go(p, l) /\ Sems!Count(p, l))
  <2> SUFFICES ASSUME Sems!Go(p, l), Sems!Count(p, l) PROVE FALSE
    OBVIOUS
  <2>1. v4'[p] = x /\ v4'[p] = y
    BY <1>1, <1>3, <1>4
  <2> QED
    BY <1>2, <1>5, <1>6, <2>1 DEF n
<1> QED
  BY <1>7, <1>8, <1>9

LEMMA SemInit == Sems!Init => Sems!IInv
<1> SUFFICES ASSUME Sems!Init PROVE Sems!IInv
  OBVIOUS
<1>1. v2 \in Sems!Sets /\ v3 \in Sems!Segments
  <2> DEFINE made == v1 = "psem"  val == <<IF v1 = "psem" THEN 1 ELSE 0, 0>>
  <2>1. val \in [1..2 -> Nat]
    OBVIOUS
  <2>2. made \in BOOLEAN
    OBVIOUS
  <2>3. v2 = [made |-> made, val |-> val, otime |-> FALSE]
    BY Zenon DEF Sems!Init
  <2> HIDE DEF made, val
  <2>4. v2 \in Sems!Sets
    BY <2>1, <2>2, <2>3 DEF Sems!Sets
  <2> QED
    BY <2>4 DEF Sems!Init, Sems!Segments
<1>2. Sems!TypeOK
  <2>1. v4 \in [Sems!All -> Sems!Positions]
    BY DEF Sems!Init, Sems!Positions
  <2> QED
    BY <1>1, <2>1 DEF Sems!Init, Sems!TypeOK
<1>3. Sems!XfrInv
  <2> SUFFICES ASSUME v1 = "xfr" PROVE Sems!XfrInv
    BY DEF Sems!XfrInv
  <2>1. v4["writer"] = [pc |-> "start", n |-> 0] /\ v4["reader"] = [pc |-> "start", n |-> 0]
    BY DEF Sems!Init, Sems!All, Sems!Writer, Sems!Reader
  <2>2. v2.val[1] = 0 /\ v2.val[2] = 0 /\ v2.made = FALSE /\ v3.made = FALSE /\ v5 = <<>>
    BY DEF Sems!Init
  <2> QED
    BY <2>1, <2>2, SemBounds DEF Sems!XfrInv, Sems!WriterFirst, Sems!At, Sems!Writer, Sems!Reader
<1>4. Sems!GoodInv
  BY DEF Sems!Init, Sems!GoodInv, Sems!All, Sems!At, Sems!NoOperationLost
<1> QED
  BY <1>2, <1>3, <1>4 DEF Sems!IInv

\* The writer and the reader, as long as none was killed.
LEMMA SemWriter ==
  ASSUME Sems!IInv, UNCHANGED v1,
         Sems!WriterMakes \/ Sems!WriterTurn \/ Sems!WriterGives \/ Sems!WriterChecks \/ Sems!WriterEnds
  PROVE  Sems!IInv'
<1>0. /\ v1 = "xfr" /\ Sems!All = {"writer", "reader"} /\ Sems!TypeOK /\ v6' = v6 /\ v5' = v5
      /\ v2 \in Sems!Sets /\ v3 \in Sems!Segments /\ v4["reader"] \in Sems!Positions /\ v4["writer"] \in Sems!Positions
      /\ v4["writer"].n \in Nat
  BY DEF Sems!IInv, Sems!TypeOK, Sems!All, Sems!Writer, Sems!Reader, Sems!Positions,
         Sems!WriterMakes, Sems!WriterTurn, Sems!WriterGives, Sems!WriterChecks, Sems!WriterEnds
<1> USE SemBounds DEF Sems!Writer, Sems!Reader
<1> DEFINE Steps(l, m) == /\ v4' \in [Sems!All' -> Sems!Positions] /\ v4'["reader"] = v4["reader"]
                         /\ v4'["writer"].pc = l /\ v4'["writer"].n = m
<1>1. ASSUME NEW l, [pc |-> l, n |-> 0] \in Sems!Positions, Sems!Go("writer", l) PROVE Steps(l, v4["writer"].n)
  BY <1>0, <1>1, SemGo
<1>2. ASSUME NEW l, [pc |-> l, n |-> 0] \in Sems!Positions, Sems!Count("writer", l) PROVE Steps(l, v4["writer"].n + 1)
  BY <1>0, <1>2, SemGo
<1>3. ASSUME NEW l, NEW m, Steps(l, m), v2' \in Sems!Sets, v3' \in Sems!Segments PROVE Sems!TypeOK'
  BY <1>0, <1>3 DEF Sems!TypeOK, Sems!All
<1> HIDE DEF Steps
<1>4. Sems!GoodInv'
  BY <1>0 DEF Sems!GoodInv
<1> SUFFICES Sems!TypeOK' /\ (Sems!XfrInv => Sems!XfrInv')
  BY <1>4 DEF Sems!IInv
<1>5. CASE Sems!WriterMakes /\ Sems!At("writer", "start")
  <2> DEFINE val == [[v2.val EXCEPT ![1] = 1] EXCEPT ![2] = 0]
  <2>1. val \in [1..2 -> Nat] /\ val[1] = 1 /\ val[2] = 0
    BY <1>0 DEF Sems!Sets
  <2>2. Sems!Go("writer", "shm") /\ v3' = v3 /\ v2' = [v2 EXCEPT !.made = TRUE, !.val = val]
    BY <1>5 DEF Sems!WriterMakes, Sems!At, Sems!initSemInUse, Sems!initSemAvailable, Sems!WRITE_SEM, Sems!READ_SEM
  <2> HIDE DEF val
  <2>3. v2' \in Sems!Sets /\ v2'.made = TRUE /\ v2'.val = val
    BY <1>0, <2>1, <2>2 DEF Sems!Sets
  <2>4. Steps("shm", v4["writer"].n)
    BY <1>1, <2>2 DEF Sems!Positions
  <2> QED
    BY <1>0, <1>3, <1>5, <2>1, <2>2, <2>3, <2>4 DEF Steps, Sems!XfrInv, Sems!WriterFirst, Sems!WriterToFill, Sems!WriterFills,
      Sems!ReaderToWrite, Sems!ReaderWrites, Sems!BothDone, Sems!At
<1>6. CASE Sems!WriterMakes /\ Sems!At("writer", "shm")
  <2>1. Sems!Go("writer", "turn") /\ v2' = v2 /\ v3' = [v3 EXCEPT !.made = TRUE]
    BY <1>6 DEF Sems!WriterMakes, Sems!At
  <2>2. v3' \in Sems!Segments /\ v3'.made = TRUE /\ v3'.cnt = v3.cnt
    BY <1>0, <2>1 DEF Sems!Segments
  <2>3. Steps("turn", v4["writer"].n)
    BY <1>1, <2>1 DEF Sems!Positions
  <2> QED
    BY <1>0, <1>3, <1>6, <2>1, <2>2, <2>3 DEF Steps, Sems!XfrInv, Sems!WriterFirst, Sems!WriterToFill, Sems!WriterFills,
      Sems!ReaderToWrite, Sems!ReaderWrites, Sems!BothDone, Sems!At
<1>7. CASE Sems!WriterTurn
  <2> DEFINE m == v4["writer"].n
  <2>1. Sems!At("writer", "turn") /\ Sems!ReserveSem(1) /\ Sems!Count("writer", "filled") /\ v3' = [v3 EXCEPT !.cnt = IF m < SemBlocks THEN m + 1 ELSE 0]
    BY <1>7 DEF Sems!WriterTurn, Sems!WRITE_SEM
  <2>2. v3' \in Sems!Segments /\ v3'.made = v3.made /\ v3'.cnt = IF m < SemBlocks THEN m + 1 ELSE 0
    BY <1>0, <2>1 DEF Sems!Segments
  <2>3. Steps("filled", m + 1)
    BY <1>2, <2>1 DEF Sems!Positions
  <2>4. v2' \in Sems!Sets /\ v2.val[1] > 0 /\ v2'.val[1] = v2.val[1] - 1 /\ v2'.made = v2.made /\ v2'.val[2] = v2.val[2]
    BY <1>0, <2>1, SemReserve
  <2> QED
    BY <1>0, <1>3, <2>1, <2>2, <2>3, <2>4, SMTT(20) DEF Steps, Sems!XfrInv, Sems!WriterFirst, Sems!WriterToFill, Sems!WriterFills,
      Sems!ReaderToWrite, Sems!ReaderWrites, Sems!BothDone, Sems!At
<1>8. CASE Sems!WriterGives
  <2>1. Sems!At("writer", "filled") /\ Sems!ReleaseSem(2) /\ Sems!Go("writer", "given") /\ v3' = v3
    BY <1>8 DEF Sems!WriterGives, Sems!READ_SEM
  <2>2. Steps("given", v4["writer"].n)
    BY <1>1, <2>1 DEF Sems!Positions
  <2>3. v2' \in Sems!Sets /\ v2'.val[2] = v2.val[2] + 1 /\ v2'.made = v2.made /\ v2'.val[1] = v2.val[1]
    BY <1>0, <2>1, SemRelease
  <2> QED
    BY <1>0, <1>3, <2>1, <2>2, <2>3 DEF Steps, Sems!XfrInv, Sems!WriterFirst, Sems!WriterToFill, Sems!WriterFills,
      Sems!ReaderToWrite, Sems!ReaderWrites, Sems!BothDone, Sems!At
<1>9. CASE Sems!WriterChecks
  <2> DEFINE l == IF v3.cnt = 0 THEN "last" ELSE "turn"
  <2>1. Sems!At("writer", "given") /\ Sems!Go("writer", l) /\ v3' = v3 /\ v2' = v2
    BY <1>9 DEF Sems!WriterChecks
  <2>2. Steps(l, v4["writer"].n)
    BY <1>1, <2>1 DEF Sems!Positions
  <2> QED
    BY <1>0, <1>3, <2>1, <2>2 DEF Steps, Sems!XfrInv, Sems!WriterFirst, Sems!WriterToFill, Sems!WriterFills,
      Sems!ReaderToWrite, Sems!ReaderWrites, Sems!BothDone, Sems!At
<1>10. CASE Sems!WriterEnds
  <2>1. /\ Sems!At("writer", "last") /\ v2.val[1] > 0 /\ Sems!Go("writer", "done")
        /\ v2' = [v2 EXCEPT !.made = FALSE, !.otime = FALSE] /\ v3' = [v3 EXCEPT !.made = FALSE]
    BY <1>10 DEF Sems!WriterEnds, Sems!WRITE_SEM
  <2>2. Steps("done", v4["writer"].n)
    BY <1>1, <2>1 DEF Sems!Positions
  <2>3. v2' \in Sems!Sets /\ v2'.made = FALSE
    BY <1>0, <2>1 DEF Sems!Sets
  <2>4. v3' \in Sems!Segments /\ v3'.made = FALSE /\ v3'.cnt = v3.cnt
    BY <1>0, <2>1 DEF Sems!Segments
  <2> QED
    BY <1>0, <1>3, <2>1, <2>2, <2>3, <2>4 DEF Steps, Sems!XfrInv, Sems!WriterFirst, Sems!WriterToFill, Sems!WriterFills,
      Sems!ReaderToWrite, Sems!ReaderWrites, Sems!BothDone, Sems!At
<1> QED
  BY <1>5, <1>6, <1>7, <1>8, <1>9, <1>10 DEF Sems!WriterMakes

LEMMA SemReader ==
  ASSUME Sems!IInv, UNCHANGED v1,
         Sems!ReaderStarts \/ Sems!ReaderFails \/ Sems!ReaderTurn \/ Sems!ReaderGives
  PROVE  Sems!IInv'
<1>0. /\ v1 = "xfr" /\ Sems!All = {"writer", "reader"} /\ Sems!TypeOK /\ v6' = v6 /\ v3' = v3
      /\ v2 \in Sems!Sets /\ v3 \in Sems!Segments /\ v4["reader"] \in Sems!Positions /\ v4["writer"] \in Sems!Positions
      /\ v4["writer"].n \in Nat
  BY DEF Sems!IInv, Sems!TypeOK, Sems!All, Sems!Writer, Sems!Reader, Sems!Positions,
         Sems!ReaderStarts, Sems!ReaderFails, Sems!ReaderTurn, Sems!ReaderGives
<1> USE SemBounds DEF Sems!Writer, Sems!Reader
<1> DEFINE Steps(l) == v4' \in [Sems!All' -> Sems!Positions] /\ v4'["reader"].pc = l /\ v4'["writer"] = v4["writer"]
<1>1. ASSUME NEW l, [pc |-> l, n |-> 0] \in Sems!Positions, Sems!Go("reader", l) PROVE Steps(l)
  BY <1>0, <1>1, SemGo
<1>2. ASSUME NEW l, Steps(l), v2' \in Sems!Sets PROVE Sems!TypeOK'
  BY <1>0, <1>2 DEF Sems!TypeOK, Sems!All
<1> HIDE DEF Steps
<1>4. Sems!GoodInv'
  BY <1>0 DEF Sems!GoodInv
<1> SUFFICES Sems!TypeOK' /\ (Sems!XfrInv => Sems!XfrInv')
  BY <1>4 DEF Sems!IInv
<1>5. CASE Sems!ReaderStarts
  <2> DEFINE l == IF v2.made /\ v3.made THEN "turn" ELSE "failed"
  <2>1. Sems!At("reader", "start") /\ Sems!Go("reader", l) /\ v2' = v2 /\ v5' = v5
    BY <1>5 DEF Sems!ReaderStarts
  <2>2. Steps(l)
    BY <1>1, <2>1 DEF Sems!Positions
  <2> QED
    BY <1>0, <1>2, <2>1, <2>2 DEF Steps, Sems!XfrInv, Sems!WriterFirst, Sems!WriterToFill, Sems!WriterFills,
      Sems!ReaderToWrite, Sems!ReaderWrites, Sems!BothDone, Sems!At
<1>6. CASE Sems!ReaderFails
  <2>1. v4["reader"].pc \in {"turn", "read", "last"} /\ ~v2.made /\ Sems!Go("reader", "failed") /\ v2' = v2 /\ v5' = v5
    BY <1>6 DEF Sems!ReaderFails
  <2>2. Steps("failed")
    BY <1>1, <2>1 DEF Sems!Positions
  <2> QED
    BY <1>0, <1>2, <2>1, <2>2 DEF Steps, Sems!XfrInv, Sems!WriterFirst, Sems!WriterToFill, Sems!WriterFills,
      Sems!ReaderToWrite, Sems!ReaderWrites, Sems!BothDone, Sems!At
<1>7. CASE Sems!ReaderTurn
  <2>1. Sems!At("reader", "turn") /\ Sems!ReserveSem(2)
    BY <1>7 DEF Sems!ReaderTurn, Sems!READ_SEM
  <2>2. v2' \in Sems!Sets /\ v2.val[2] > 0 /\ v2'.val[2] = v2.val[2] - 1 /\ v2'.made = v2.made /\ v2'.val[1] = v2.val[1]
    BY <1>0, <2>1, SemReserve
  <2>3. CASE v3.cnt = 0
    <3>1. Sems!Go("reader", "last") /\ v5' = v5
      BY <1>7, <2>3 DEF Sems!ReaderTurn
    <3>2. Steps("last")
      BY <1>1, <3>1 DEF Sems!Positions
    <3> QED
      BY <1>0, <1>2, <2>1, <2>2, <2>3, <3>1, <3>2 DEF Steps, Sems!XfrInv, Sems!WriterFirst, Sems!WriterToFill, Sems!WriterFills,
      Sems!ReaderToWrite, Sems!ReaderWrites, Sems!BothDone, Sems!At
  <2>4. CASE v3.cnt # 0
    <3>1. Sems!Go("reader", "read") /\ v5' = Append(v5, v3.cnt) /\ v3.cnt \in Nat
      BY <1>0, <1>7, <2>4 DEF Sems!ReaderTurn, Sems!Segments
    <3>2. Steps("read")
      BY <1>1, <3>1 DEF Sems!Positions
    <3>3. Sems!TypeOK'
      BY <1>2, <2>2, <3>2
    <3>4. ASSUME Sems!XfrInv, v1 = "xfr", v6 = <<>> PROVE Sems!XfrInv'
      <4>1. Sems!ReaderToWrite /\ v3.cnt = v4["writer"].n /\ v5 \in Seq(Nat)
        BY <1>0, <2>1, <2>2, <2>4, <3>4 DEF Sems!XfrInv, Sems!WriterFirst, Sems!WriterToFill, Sems!WriterFills,
      Sems!ReaderToWrite, Sems!ReaderWrites, Sems!BothDone, Sems!At
      <4>2. v5' \in Seq(Nat) /\ Len(v5') = Len(v5) + 1 /\ v5'[Len(v5) + 1] = v3.cnt /\ \A i \in 1..Len(v5) : v5'[i] = v5[i]
        BY <3>1, <4>1
      <4>3. \A i \in 1..Len(v5') : v5'[i] = i
        BY <1>0, <3>1, <3>4, <4>1, <4>2 DEF Sems!XfrInv, Sems!ReaderToWrite
      <4>4. Sems!ReaderWrites'
        BY <1>0, <2>2, <3>2, <3>4, <4>1, <4>2, SMTT(30) DEF Steps, Sems!XfrInv, Sems!WriterFirst, Sems!WriterToFill, Sems!WriterFills,
      Sems!ReaderToWrite, Sems!ReaderWrites, Sems!BothDone, Sems!At
      <4> QED
        BY <1>0, <2>1, <2>2, <2>4, <3>2, <3>4, <4>1, <4>2, <4>3, <4>4 DEF Steps, Sems!XfrInv, Sems!At, Sems!ReaderToWrite
    <3> QED
      BY <1>0, <3>3, <3>4 DEF Sems!XfrInv
  <2> QED
    BY <2>3, <2>4
<1>8. CASE Sems!ReaderGives
  <2> DEFINE l == IF Sems!At("reader", "read") THEN "turn" ELSE "done"
  <2>1. v4["reader"].pc \in {"read", "last"} /\ Sems!ReleaseSem(1) /\ Sems!Go("reader", l) /\ v5' = v5
    BY <1>8 DEF Sems!ReaderGives, Sems!WRITE_SEM
  <2>2. Steps(l)
    BY <1>1, <2>1 DEF Sems!Positions
  <2>3. v2' \in Sems!Sets /\ v2'.val[1] = v2.val[1] + 1 /\ v2'.made = v2.made /\ v2'.val[2] = v2.val[2]
    BY <1>0, <2>1, SemRelease
  <2> QED
    BY <1>0, <1>2, <2>1, <2>2, <2>3 DEF Steps, Sems!XfrInv, Sems!WriterFirst, Sems!WriterToFill, Sems!WriterFills,
      Sems!ReaderToWrite, Sems!ReaderWrites, Sems!BothDone, Sems!At
<1> QED
  BY <1>5, <1>6, <1>7, <1>8

\* The cardinality Semaphores speaks of is the one the theorems are about.
LEMMA SemCardinality == \A S : Sems!Cardinality(S) = Cardinality(S)
BY Zenon DEF Sems!Cardinality, Cardinality

\* Of the processes that are done, one more or the same.
LEMMA SemDone ==
  ASSUME v1 = "good", NEW p \in SemProcs, \A q \in SemProcs \ {p} : v4'[q] = v4[q], v4[p].pc # "done"
  PROVE  LET Done == {q \in SemProcs : v4[q].pc = "done"}
             After == {q \in SemProcs : v4'[q].pc = "done"}
         IN /\ v4'[p].pc = "done" => Cardinality(After) = Cardinality(Done) + 1
            /\ v4'[p].pc # "done" => After = Done
<1> DEFINE Done == {q \in SemProcs : v4[q].pc = "done"}
           After == {q \in SemProcs : v4'[q].pc = "done"}
<1>1. IsFiniteSet(Done) /\ p \notin Done
  BY SemBounds, FS_Subset
<1>2. CASE v4'[p].pc = "done"
  <2>1. After = Done \cup {p}
    BY <1>2
  <2> QED
    BY <1>1, <1>2, <2>1, FS_AddElement
<1>3. CASE v4'[p].pc # "done"
  BY <1>3
<1> QED
  BY <1>2, <1>3

LEMMA SemGood ==
  ASSUME Sems!IInv, UNCHANGED v1, v1 \in {"good", "bad"}, NEW p \in SemProcs,
         Sems!Get(p) \/ Sems!Set(p) \/ (v1 = "good" /\ Sems!WaitForInitialization(p)) \/ Sems!Operate(p)
  PROVE  Sems!IInv'
<1>0. /\ Sems!All = SemProcs /\ Sems!TypeOK /\ v6' = v6 /\ v3' = v3 /\ v2 \in Sems!Sets /\ v3 \in Sems!Segments
      /\ v4 \in [SemProcs -> Sems!Positions]
  BY DEF Sems!IInv, Sems!TypeOK, Sems!All, Sems!Get, Sems!Set, Sems!WaitForInitialization, Sems!Operate
<1> DEFINE Steps(l) == /\ v4' \in [Sems!All' -> Sems!Positions] /\ v4'[p].pc = l
                      /\ \A q \in SemProcs : q # p => v4'[q] = v4[q]
<1>1. ASSUME NEW l, [pc |-> l, n |-> 0] \in Sems!Positions, Sems!Go(p, l) \/ Sems!Count(p, l) PROVE Steps(l)
  BY <1>0, <1>1, SemGo
<1>2. ASSUME NEW l, Steps(l), v2' \in Sems!Sets PROVE Sems!TypeOK'
  BY <1>0, <1>2 DEF Sems!TypeOK, Sems!All
<1>3. Sems!XfrInv'
  BY DEF Sems!XfrInv
\* What is left of GoodInv when p goes on to l.
<1> DEFINE Kept(l) ==
      /\ v2'.otime => v2'.made
      /\ l \in {"set", "touch"} => v2'.made /\ ~v2'.otime
      /\ l \in {"operate", "done"} => v2'.otime
      /\ ~v2'.made => l \in {"start", "failed"} /\ ~v2.made
      /\ \A q \in SemProcs : q # p /\ v4[q].pc \in {"set", "touch"} => v2'.made /\ ~v2'.otime /\ l \notin {"set", "touch"}
      /\ v2.otime => v2'.otime
      /\ v4[p].pc # "done"
      /\ v2'.made => v2'.val[1] = Cardinality({q \in SemProcs : v4'[q].pc = "done"})
<1>4. ASSUME v1 = "good", NEW l, Steps(l), v2' \in Sems!Sets, Kept(l) PROVE Sems!GoodInv'
  <2>1. Sems!NoOperationLost'
    BY <1>4, SemCardinality, Zenon DEF Sems!NoOperationLost, Sems!At, Kept
  <2> QED
    BY <1>0, <1>4, <2>1 DEF Sems!IInv, Sems!GoodInv
<1>5. ASSUME v1 = "good" PROVE v4[p].pc # "done" => \A l : Steps(l) /\ l # "done" =>
        {q \in SemProcs : v4'[q].pc = "done"} = {q \in SemProcs : v4[q].pc = "done"}
  BY <1>5, SemDone
<1>6. v1 = "good" /\ ~v2.otime => \A q \in SemProcs : v4[q].pc \notin {"operate", "done"}
  BY DEF Sems!IInv, Sems!GoodInv
<1>7. v1 = "good" /\ v2.made => v2.val[1] = Cardinality({q \in SemProcs : v4[q].pc = "done"})
  <2>1. v1 = "good" => Sems!NoOperationLost
    BY DEF Sems!IInv, Sems!GoodInv
  <2> QED
    BY <2>1, SemCardinality, Zenon DEF Sems!NoOperationLost, Sems!At
<1>8. v1 = "good" /\ (~v2.made \/ ~v2.otime) => {q \in SemProcs : v4[q].pc = "done"} = {}
  BY DEF Sems!IInv, Sems!GoodInv
<1> HIDE DEF Steps, Kept
<1>10. \E l : Steps(l) /\ v2' \in Sems!Sets /\ (v1 = "good" => Kept(l))
  <2>1. CASE Sems!Get(p) /\ v2.made
    <3> DEFINE l == IF v1 = "good" THEN "wait" ELSE "operate"
    <3>1. Sems!Go(p, l) /\ v2' = v2 /\ v4[p].pc = "start"
      BY <2>1 DEF Sems!Get, Sems!At
    <3>2. Steps(l)
      BY <1>1, <3>1 DEF Sems!Positions
    <3>3. ASSUME v1 = "good" PROVE Kept(l)
      BY <1>5, <1>7, <2>1, <3>1, <3>2, <3>3 DEF Kept, Sems!IInv, Sems!GoodInv
    <3> QED
      BY <1>0, <3>1, <3>2, <3>3
  <2>2. CASE Sems!Get(p) /\ ~v2.made
    <3>1. Sems!Go(p, "set") /\ v2' = [made |-> TRUE, val |-> <<0, 0>>, otime |-> FALSE] /\ v4[p].pc = "start"
      BY <2>2 DEF Sems!Get, Sems!At
    <3>2. Steps("set")
      BY <1>1, <3>1 DEF Sems!Positions
    <3>3. v2' \in Sems!Sets /\ v2'.made = TRUE /\ v2'.otime = FALSE /\ v2'.val[1] = 0
      BY <3>1 DEF Sems!Sets
    <3>4. ASSUME v1 = "good" PROVE Kept("set")
      <4>1. {q \in SemProcs : v4'[q].pc = "done"} = {}
        BY <1>5, <1>8, <2>2, <3>1, <3>2, <3>4
      <4> QED
        BY <2>2, <3>1, <3>2, <3>3, <3>4, <4>1, FS_EmptySet DEF Kept, Sems!IInv, Sems!GoodInv
    <3> QED
      BY <3>2, <3>3, <3>4
  <2>3. CASE Sems!Set(p) /\ Sems!At(p, "set")
    <3> DEFINE l == IF v1 = "good" THEN "touch" ELSE "operate"
               val == [v2.val EXCEPT ![1] = 0]
    <3>1. Sems!Go(p, l) /\ v2' = [v2 EXCEPT !.val = val] /\ v4[p].pc = "set"
      BY <2>3 DEF Sems!Set, Sems!At
    <3>2. Steps(l)
      BY <1>1, <3>1 DEF Sems!Positions
    <3>3. val \in [1..2 -> Nat] /\ val[1] = 0
      BY <1>0 DEF Sems!Sets
    <3> HIDE DEF val
    <3>4. v2' \in Sems!Sets /\ v2'.made = v2.made /\ v2'.otime = v2.otime /\ v2'.val[1] = 0
      BY <1>0, <3>1, <3>3 DEF Sems!Sets
    <3>5. ASSUME v1 = "good" PROVE Kept(l)
      <4>1. ~v2.otime /\ v2.made
        BY <3>1, <3>5 DEF Sems!IInv, Sems!GoodInv
      <4>2. {q \in SemProcs : v4'[q].pc = "done"} = {}
        BY <1>5, <1>8, <3>1, <3>2, <3>5, <4>1
      <4> QED
        BY <3>1, <3>2, <3>4, <3>5, <4>1, <4>2, FS_EmptySet DEF Kept, Sems!IInv, Sems!GoodInv
    <3> QED
      BY <3>2, <3>4, <3>5
  <2>4. CASE Sems!Set(p) /\ Sems!At(p, "touch")
    <3>1. Sems!Go(p, "operate") /\ v2.val[1] = 0 /\ v2' = [v2 EXCEPT !.otime = TRUE] /\ v4[p].pc = "touch"
      BY <2>4 DEF Sems!Set, Sems!At
    <3>2. Steps("operate")
      BY <1>1, <3>1 DEF Sems!Positions
    <3>3. v2' \in Sems!Sets /\ v2'.made = v2.made /\ v2'.otime = TRUE /\ v2'.val[1] = 0
      BY <1>0, <3>1 DEF Sems!Sets
    <3>4. ASSUME v1 = "good" PROVE Kept("operate")
      <4>1. ~v2.otime /\ v2.made
        BY <3>1, <3>4 DEF Sems!IInv, Sems!GoodInv
      <4>2. {q \in SemProcs : v4'[q].pc = "done"} = {}
        BY <1>5, <1>8, <3>1, <3>2, <3>4, <4>1
      <4> QED
        BY <3>1, <3>2, <3>3, <3>4, <4>1, <4>2, FS_EmptySet DEF Kept, Sems!IInv, Sems!GoodInv
    <3> QED
      BY <3>2, <3>3, <3>4
  <2>5. CASE v1 = "good" /\ Sems!WaitForInitialization(p)
    <3>1. PICK l \in {"operate", "failed", "wait"} : /\ Sems!Go(p, l) \/ Sems!Count(p, l)
                                                   /\ v2' = v2 /\ v4[p].pc = "wait" /\ (l = "operate" => v2.otime)
      BY <2>5 DEF Sems!WaitForInitialization, Sems!At
    <3>2. Steps(l)
      BY <1>1, <3>1 DEF Sems!Positions
    <3>3. Kept(l)
      BY <1>5, <1>7, <2>5, <3>1, <3>2 DEF Kept, Sems!IInv, Sems!GoodInv
    <3> QED
      BY <1>0, <3>1, <3>2, <3>3
  <2>6. CASE Sems!Operate(p)
    <3>1. Sems!Go(p, "done") /\ Sems!ReleaseSem(1) /\ v4[p].pc = "operate"
      BY <2>6 DEF Sems!Operate, Sems!At
    <3>2. Steps("done")
      BY <1>1, <3>1 DEF Sems!Positions
    <3>3. v2' \in Sems!Sets /\ v2'.made = v2.made /\ v2'.otime /\ v2'.val[1] = v2.val[1] + 1
      BY <1>0, <3>1, SemRelease
    <3>4. ASSUME v1 = "good" PROVE Kept("done")
      <4>1. v2.otime /\ v2.made
        BY <3>1, <3>4 DEF Sems!IInv, Sems!GoodInv
      <4>2. Cardinality({q \in SemProcs : v4'[q].pc = "done"}) = v2'.val[1]
        BY <1>7, <3>1, <3>2, <3>3, <3>4, <4>1, SemDone DEF Steps
      <4> QED
        BY <3>1, <3>2, <3>3, <3>4, <4>1, <4>2 DEF Kept, Sems!IInv, Sems!GoodInv
    <3> QED
      BY <3>2, <3>3, <3>4
  <2> QED
    BY <2>1, <2>2, <2>3, <2>4, <2>5, <2>6 DEF Sems!Set
<1> QED
  BY <1>2, <1>3, <1>4, <1>10 DEF Sems!IInv, Sems!GoodInv

LEMMA SemPsem ==
  ASSUME Sems!IInv, UNCHANGED v1, NEW p \in Sems!All,
         Sems!PsemWait(p) \/ Sems!PsemTrywait(p) \/ Sems!PsemTimedwait(p) \/ Sems!PsemPost(p)
  PROVE  Sems!IInv'
<1> USE DEF Sems!Psem, Sems!PsemWait, Sems!PsemTrywait, Sems!PsemTimedwait, Sems!PsemPost
<1>1. v1 = "psem" /\ v6' = v6 /\ v3' = v3 /\ Sems!TypeOK /\ v2 \in Sems!Sets
  BY DEF Sems!IInv, Sems!TypeOK
<1>2. v2' \in Sems!Sets
  BY <1>1, SemReserve, SemRelease
<1>3. PICK l \in {"done", "failed"} : Sems!Go(p, l) \/ Sems!Count(p, l)
  OBVIOUS
<1>4. v4' \in [Sems!All' -> Sems!Positions]
  BY <1>1, <1>3, SemGo DEF Sems!Positions
<1>5. Sems!TypeOK'
  BY <1>1, <1>2, <1>4 DEF Sems!TypeOK
<1> QED
  BY <1>1, <1>5 DEF Sems!IInv, Sems!XfrInv, Sems!GoodInv

LEMMA SemKill ==
  ASSUME Sems!IInv, UNCHANGED v1, NEW p \in Sems!All, Sems!Kill(p)
  PROVE  Sems!IInv'
<1>1. /\ Sems!TypeOK /\ v2' = v2 /\ v3' = v3 /\ v6' = Append(v6, p) /\ p \in SemProcs \cup {"writer", "reader"}
      /\ v6 \in Seq(SemProcs \cup {"writer", "reader"}) /\ v4[p].pc \notin {"done", "failed"}
  BY DEF Sems!Kill, Sems!At, Sems!IInv, Sems!TypeOK, Sems!All, Sems!Writer, Sems!Reader
<1>2. v6' \in Seq(SemProcs \cup {"writer", "reader"}) /\ v6' # <<>>
  BY <1>1
<1>3. Sems!XfrInv'
  BY <1>2 DEF Sems!XfrInv
<1>4. CASE v1 = "xfr"
  <2>1. v4' \in [Sems!All' -> Sems!Positions]
    BY <1>4 DEF Sems!Kill, Sems!Positions, Sems!All
  <2>2. Sems!TypeOK'
    BY <1>1, <1>2, <2>1 DEF Sems!TypeOK, Sems!Writer, Sems!Reader
  <2> QED
    BY <1>3, <1>4, <2>2 DEF Sems!IInv, Sems!GoodInv
<1>5. CASE v1 # "xfr"
  <2>1. Sems!Go(p, "failed")
    BY <1>5 DEF Sems!Kill
  <2>2. /\ v4' \in [Sems!All' -> Sems!Positions] /\ v4'[p].pc = "failed" /\ \A q \in Sems!All : q # p => v4'[q] = v4[q]
        /\ Sems!All = SemProcs
    BY <1>1, <1>5, <2>1, SemGo DEF Sems!Positions, Sems!All
  <2>3. Sems!TypeOK'
    BY <1>1, <1>2, <2>2 DEF Sems!TypeOK, Sems!Writer, Sems!Reader
  <2>4. ASSUME v1 = "good" PROVE Sems!GoodInv'
    <3>1. {q \in SemProcs : v4'[q].pc = "done"} = {q \in SemProcs : v4[q].pc = "done"}
      BY <1>1, <2>2, <2>4, SemDone
    <3>2. Sems!NoOperationLost
      BY <2>4 DEF Sems!IInv, Sems!GoodInv
    <3>3. Sems!NoOperationLost'
      BY <1>1, <3>1, <3>2, Zenon DEF Sems!NoOperationLost, Sems!At
    <3> QED
      BY <1>1, <2>2, <2>4, <3>3 DEF Sems!IInv, Sems!GoodInv
  <2> QED
    BY <1>3, <2>3, <2>4 DEF Sems!IInv, Sems!GoodInv
<1> QED
  BY <1>4, <1>5

LEMMA SemNext == Sems!IInv /\ [Sems!Next]_Sems!vars => Sems!IInv'
<1> SUFFICES ASSUME Sems!IInv, [Sems!Next]_Sems!vars PROVE Sems!IInv'
  OBVIOUS
<1>1. CASE UNCHANGED Sems!vars
  BY <1>1 DEF Sems!vars, Sems!IInv, Sems!TypeOK, Sems!All, Sems!XfrInv, Sems!WriterFirst, Sems!WriterToFill, Sems!WriterFills,
      Sems!ReaderToWrite, Sems!ReaderWrites, Sems!BothDone, Sems!At, Sems!GoodInv, Sems!NoOperationLost
<1>2. CASE Sems!Next
  <2>1. v1' = v1
    BY <1>2 DEF Sems!Next
  <2>2. CASE Sems!WriterMakes \/ Sems!WriterTurn \/ Sems!WriterGives \/ Sems!WriterChecks \/ Sems!WriterEnds
    BY <2>1, <2>2, SemWriter
  <2>3. CASE Sems!ReaderStarts \/ Sems!ReaderFails \/ Sems!ReaderTurn \/ Sems!ReaderGives
    BY <2>1, <2>3, SemReader
  <2>4. CASE \E p \in Sems!All : Sems!svsem_good_init(p) \/ Sems!svsem_bad_init(p)
    <3>1. PICK p \in Sems!All : Sems!svsem_good_init(p) \/ Sems!svsem_bad_init(p)
      BY <2>4
    <3>2. v1 \in {"good", "bad"} /\ p \in SemProcs
      BY <3>1 DEF Sems!svsem_good_init, Sems!svsem_bad_init, Sems!All
    <3> QED
      BY <2>1, <3>1, <3>2, SemGood DEF Sems!svsem_good_init, Sems!svsem_bad_init
  <2>5. CASE \E p \in Sems!All : Sems!Kill(p)
    BY <2>1, <2>5, SemKill
  <2>6. CASE \E p \in Sems!All : Sems!PsemWait(p) \/ Sems!PsemTrywait(p) \/ Sems!PsemTimedwait(p) \/ Sems!PsemPost(p)
    BY <2>1, <2>6, SemPsem
  <2> QED
    BY <1>2, <2>2, <2>3, <2>4, <2>5, <2>6 DEF Sems!Next
<1> QED
  BY <1>1, <1>2

LEMMA SemSafe == Sems!IInv => Sems!Handover /\ Sems!NoOperationLost
<1> SUFFICES ASSUME Sems!IInv PROVE Sems!Handover /\ Sems!NoOperationLost
  OBVIOUS
<1>1. Sems!NoOperationLost
  <2>1. CASE v1 = "good"
    BY <2>1 DEF Sems!IInv, Sems!GoodInv
  <2>2. CASE v1 # "good"
    BY <2>2 DEF Sems!NoOperationLost
  <2> QED
    BY <2>1, <2>2
<1>2. ASSUME v1 = "xfr", v6 = <<>> PROVE Sems!Handover
  <2> DEFINE all == [i \in 1..SemBlocks |-> i]
  <2>2. Len(v5) \in Nat /\ Len(v5) <= SemBlocks
    <3>1. v4["writer"].n \in Nat /\ v5 \in Seq(Nat)
      BY <1>2 DEF Sems!IInv, Sems!TypeOK, Sems!All, Sems!Positions, Sems!XfrInv, Sems!Writer, Sems!Reader
    <3> QED
      BY <1>2, <3>1, SemBounds DEF Sems!IInv, Sems!XfrInv, Sems!WriterFirst, Sems!WriterToFill, Sems!WriterFills,
      Sems!ReaderToWrite, Sems!ReaderWrites, Sems!BothDone, Sems!At, Sems!Writer, Sems!Reader
  <2>3. all \in Seq(Nat) /\ Len(all) = SemBlocks /\ \A i \in 1..SemBlocks : all[i] = i
    BY SemBounds
  <2> HIDE DEF all
  <2>4. v5 \in Seq(Nat) /\ \A i \in 1..Len(v5) : v5[i] = i
    BY <1>2 DEF Sems!IInv, Sems!XfrInv
  <2>5. Sems!IsPrefix(v5, all)
    <3> DEFINE k == Len(v5)
    <3>1. k \in Nat /\ k <= Len(all)
      BY <2>2, <2>3
    <3>2. SubSeq(v5, 1, k) \in Seq(Nat) /\ Len(SubSeq(v5, 1, k)) = k /\ \A i \in 1..k : SubSeq(v5, 1, k)[i] = i
      BY <2>4, <3>1
    <3>3. SubSeq(all, 1, k) \in Seq(Nat) /\ Len(SubSeq(all, 1, k)) = k /\ \A i \in 1..k : SubSeq(all, 1, k)[i] = i
      BY <2>3, <3>1
    <3>4. SubSeq(v5, 1, k) = SubSeq(all, 1, k)
      BY <3>1, <3>2, <3>3, SeqEqual
    <3> QED
      BY <3>1, <3>4 DEF Sems!IsPrefix
  <2>6. v4["reader"].pc = "done" => Len(v5) = SemBlocks /\ v4["writer"].pc \in {"given", "last", "done"}
    BY <1>2, <2>2, SemBounds DEF Sems!IInv, Sems!XfrInv, Sems!WriterFirst, Sems!WriterToFill, Sems!WriterFills,
      Sems!ReaderToWrite, Sems!ReaderWrites, Sems!BothDone, Sems!At, Sems!Writer, Sems!Reader
  <2>7. v4["reader"].pc = "failed" => v5 = <<>>
    BY <1>2 DEF Sems!IInv, Sems!XfrInv, Sems!Reader
  <2> QED
    BY <2>5, <2>6, <2>7 DEF Sems!Handover, Sems!At, Sems!Writer, Sems!Reader, all
<1> QED
  BY <1>1, <1>2 DEF Sems!Handover

-----------------------------------------------------------------------------
(* LocksAndDaemons.                                                        *)

LEMMA LockInit == Locks!Init => Locks!IInv
<1> SUFFICES ASSUME Locks!Init PROVE Locks!IInv
  OBVIOUS
<1>1. Locks!ProcFields /\ \A p \in LockProcs : v3[p].pc = "prompt"
  BY DEF Locks!Init, Locks!ProcFields
<1>2. /\ Locks!FsFields /\ v4.name = 0 /\ v4.pid = <<>> /\ v4.lock = <<>> /\ v4.config = 1 /\ v4.log = 1
      /\ v4.delete \in BOOLEAN /\ v4.raced = FALSE
  BY DEF Locks!Init, Locks!FsFields
<1>3. Locks!FcntlInv
  BY <1>1 DEF Locks!Init, Locks!FcntlInv, Locks!Waits, Locks!At, Locks!Owners
<1>4. Locks!PidInv
  <2>1. v4.pid \in Seq(LockProcs \cup {0}) /\ v4.lock \in Seq(LockProcs \cup {0}) /\ Len(v4.pid) = 0 /\ Len(v4.lock) = 0
    BY <1>2
  <2>2. Locks!PidFiles
    <3>1. v4.name \in 0..Len(v4.lock) /\ v4.name = Len(v4.lock) /\ v4.name <= 1
      BY <1>2, <2>1
    <3>2. v4.raced \in BOOLEAN /\ ~v4.raced
      BY <1>2
    <3> QED
      BY <1>1, <1>2, <2>1, <3>1, <3>2, Zenon DEF Locks!PidFiles
  <2>3. \A p \in LockProcs : Locks!PidOf(p)
    BY <1>1, <2>1 DEF Locks!PidOf, Locks!Holding
  <2> QED
    BY <2>2, <2>3 DEF Locks!PidInv
<1>5. Locks!DaemonInv
  BY <1>2 DEF Locks!Init, Locks!DaemonInv
<1> QED
  BY <1>3, <1>4, <1>5 DEF Locks!IInv

\* Whether a process is in the way of another is a matter of what the one has
\* locked and the other asks for.
LEMMA LockWay ==
  ASSUME NEW p, NEW q, v2'[<<q, "posix">>] = v2[<<q, "posix">>], v3'[p].req = v3[p].req
  PROVE  Locks!InTheWay(q, p)' <=> Locks!InTheWay(q, p)
BY DEF Locks!InTheWay, Locks!Conflicts, Locks!Holders, Locks!lockReg

\* A step of process p alone.
LEMMA LockOne ==
  ASSUME Locks!FcntlInv, v1 = "fcntl", v1' = v1, NEW p \in LockProcs,
         Locks!ProcFields', \A q \in LockProcs : q # p => v3'[q] = v3[q], DOMAIN v3'[p].view = {"posix", "ofd"},
         DOMAIN v2' = Locks!Owners, \A o \in Locks!Owners : o[1] # p => v2'[o] = v2[o],
         \A w \in {"posix", "ofd"} : v2'[<<p, w>>] = v3'[p].view[w],
         \A q \in LockProcs : q # p /\ Locks!Waits(p)' /\ Locks!Waits(q)' => ~(Locks!InTheWay(p, q)' /\ Locks!InTheWay(q, p)')
  PROVE  Locks!FcntlInv'
<1>1. \A q \in LockProcs : <<q, "posix">> \in Locks!Owners /\ <<q, "posix">>[1] = q
  BY DEF Locks!Owners
<1>2. \A q, r \in LockProcs : q # p /\ r # p => (Locks!InTheWay(r, q)' <=> Locks!InTheWay(r, q))
  BY <1>1, LockWay
<1>3. \A q \in LockProcs : q # p => (Locks!Waits(q)' <=> Locks!Waits(q))
  BY DEF Locks!Waits, Locks!At
<1>4. \A q, r \in LockProcs : q # r /\ Locks!Waits(q)' /\ Locks!Waits(r)' => ~(Locks!InTheWay(q, r)' /\ Locks!InTheWay(r, q)')
  BY <1>2, <1>3 DEF Locks!FcntlInv
<1>5. ASSUME NEW o \in Locks!Owners PROVE v2'[o] = v3'[o[1]].view[o[2]]
  <2>1. o[1] \in LockProcs /\ o[2] \in {"posix", "ofd"} /\ o = <<o[1], o[2]>>
    BY DEF Locks!Owners
  <2>2. CASE o[1] = p
    BY <2>1, <2>2
  <2>3. CASE o[1] # p
    BY <2>1, <2>3 DEF Locks!FcntlInv
  <2> QED
    BY <2>2, <2>3
<1>6. \A q \in LockProcs : DOMAIN v3'[q].view = {"posix", "ofd"}
  BY DEF Locks!FcntlInv
<1> QED
  BY <1>4, <1>5, <1>6 DEF Locks!FcntlInv

\* What p has is as it was, and it does not come to wait.
LEMMA LockSame ==
  ASSUME Locks!FcntlInv, v1 = "fcntl", v1' = v1, NEW p \in LockProcs, v2' = v2,
         Locks!ProcFields', \A q \in LockProcs : q # p => v3'[q] = v3[q], v3'[p].view = v3[p].view,
         \A q \in LockProcs : q # p /\ Locks!Waits(p)' /\ Locks!Waits(q)' => ~(Locks!InTheWay(p, q)' /\ Locks!InTheWay(q, p)')
  PROVE  Locks!FcntlInv'
<1>1. ASSUME NEW w \in {"posix", "ofd"} PROVE v2'[<<p, w>>] = v3'[p].view[w]
  <2>1. <<p, w>> \in Locks!Owners /\ <<p, w>>[1] = p /\ <<p, w>>[2] = w
    BY DEF Locks!Owners
  <2> QED
    BY <2>1 DEF Locks!FcntlInv
<1>2. DOMAIN v3'[p].view = {"posix", "ofd"} /\ DOMAIN v2' = Locks!Owners
  BY DEF Locks!FcntlInv
<1> QED
  BY <1>1, <1>2, LockOne

LEMMA LockRead ==
  ASSUME Locks!FcntlInv, v1 = "fcntl", v1' = v1, NEW p \in LockProcs, Locks!ReadCommand(p)
  PROVE  Locks!FcntlInv'
<1>1. v2' = v2 /\ Locks!ProcFields
  BY DEF Locks!ReadCommand, Locks!Mine, Locks!FcntlInv
<1>2. PICK r : v3' = [v3 EXCEPT ![p].pc = "perform", ![p].req = r, ![p].count = @ + 1]
  BY DEF Locks!ReadCommand, Locks!Mine
<1>3. /\ Locks!ProcFields' /\ v3'[p].pc = "perform" /\ v3'[p].view = v3[p].view
      /\ \A q \in LockProcs : q # p => v3'[q] = v3[q]
  BY <1>1, <1>2 DEF Locks!ProcFields
<1>4. ~Locks!Waits(p)'
  BY <1>3 DEF Locks!Waits, Locks!At
<1> QED
  BY <1>1, <1>3, <1>4, LockSame

LEMMA LockEnds ==
  ASSUME Locks!FcntlInv, v1 = "fcntl", v1' = v1, NEW p \in LockProcs, Locks!InputEnds(p)
  PROVE  Locks!FcntlInv'
<1> DEFINE none == [b \in LockBytes |-> "u"]  view == [w \in {"posix", "ofd"} |-> none]
<1>1. /\ Locks!ProcFields /\ v2' = [o \in Locks!Owners |-> IF o[1] = p THEN none ELSE v2[o]]
      /\ v3' = [v3 EXCEPT ![p].pc = "gone", ![p].view = view]
  BY DEF Locks!InputEnds, Locks!Mine, Locks!FcntlInv
<1>2. DOMAIN view = {"posix", "ofd"} /\ view["posix"] = none /\ view["ofd"] = none
  OBVIOUS
<1> HIDE DEF none, view
<1>3. /\ Locks!ProcFields' /\ v3'[p].pc = "gone" /\ v3'[p].view = view
      /\ \A q \in LockProcs : q # p => v3'[q] = v3[q]
  BY <1>1 DEF Locks!ProcFields
<1>4. ~Locks!Waits(p)'
  BY <1>3 DEF Locks!Waits, Locks!At
<1>5. ASSUME NEW w \in {"posix", "ofd"} PROVE v2'[<<p, w>>] = v3'[p].view[w]
  <2>1. <<p, w>> \in Locks!Owners /\ <<p, w>>[1] = p
    BY DEF Locks!Owners
  <2> QED
    BY <1>1, <1>2, <1>3, <2>1
<1> QED
  BY <1>1, <1>2, <1>3, <1>4, <1>5, LockOne

LEMMA LockPerform ==
  ASSUME Locks!FcntlInv, v1 = "fcntl", v1' = v1, NEW p \in LockProcs, Locks!Perform(p)
  PROVE  Locks!FcntlInv'
<1> DEFINE c == v3[p].req  o == Locks!Owner(p, c)  w == o[2]  region == Locks!lockReg(c)
           got == [b \in LockBytes |-> IF b \in region THEN c.lock ELSE v3[p].view[w][b]]
<1>1. /\ Locks!ProcFields /\ o = <<p, w>> /\ w \in {"posix", "ofd"} /\ o \in Locks!Owners
      /\ DOMAIN v3[p].view = {"posix", "ofd"} /\ v2[o] = v3[p].view[w]
  <2>1. o = <<p, w>> /\ w \in {"posix", "ofd"}
    BY DEF Locks!Owner
  <2>2. o \in Locks!Owners /\ o[1] = p
    BY <2>1 DEF Locks!Owners
  <2> QED
    BY <2>1, <2>2 DEF Locks!FcntlInv
\* Told of a lock that was given or taken away.
<1>2. ASSUME NEW what \in {"got_lock", "unlocked"}, Locks!Told(p, o, c, what), v2' = Locks!Placed(o, region, c.lock)
      PROVE  Locks!FcntlInv'
  <2> DEFINE l == IF v3[p].req.nl THEN "prompt" ELSE "exit"
  <2>1. v3' = [v3 EXCEPT ![p].pc = l, ![p].said = what, ![p].view[w] = got]
    BY <1>2 DEF Locks!Told
  <2>2. l # "blocked"
    OBVIOUS
  <2>3. v2' = [v2 EXCEPT ![o] = got]
    BY <1>1, <1>2 DEF Locks!Placed
  <2> HIDE DEF l, got, w, o
  <2>4. Locks!ProcFields' /\ v3'[p].pc = l /\ \A q \in LockProcs : q # p => v3'[q] = v3[q]
    BY <1>1, <2>1 DEF Locks!ProcFields
  <2>5. v3'[p].view = [v3[p].view EXCEPT ![w] = got]
    BY <1>1, <2>1 DEF Locks!ProcFields
  <2>6. ~Locks!Waits(p)'
    BY <2>2, <2>4 DEF Locks!Waits, Locks!At
  <2>7. DOMAIN v2' = Locks!Owners /\ \A u \in Locks!Owners : u # o => v2'[u] = v2[u]
    BY <2>3 DEF Locks!FcntlInv
  <2>8. v2'[o] = got
    BY <1>1, <2>3 DEF Locks!FcntlInv
  <2>9. ASSUME NEW x \in {"posix", "ofd"} PROVE v2'[<<p, x>>] = v3'[p].view[x]
    <3>1. <<p, x>> \in Locks!Owners /\ <<p, x>>[1] = p /\ <<p, x>>[2] = x
      BY DEF Locks!Owners
    <3>2. CASE x = w
      BY <1>1, <2>5, <2>8, <3>2
    <3>3. CASE x # w
      <4>1. <<p, x>> # o
        BY <1>1, <3>3
      <4>2. v2[<<p, x>>] = v3[p].view[x]
        BY <3>1 DEF Locks!FcntlInv
      <4> QED
        BY <1>1, <2>5, <2>7, <3>1, <3>3, <4>1, <4>2
    <3> QED
      BY <3>2, <3>3
  <2>10. o[1] = p
    BY <1>1
  <2>11. \A u \in Locks!Owners : u[1] # p => v2'[u] = v2[u]
    BY <2>7, <2>10
  <2>12. DOMAIN v3'[p].view = {"posix", "ofd"}
    BY <1>1, <2>5
  <2> QED
    BY <2>4, <2>6, <2>7, <2>9, <2>11, <2>12, LockOne
\* Told of something else.
<1>3. ASSUME NEW what, what \notin {"got_lock", "unlocked"}, Locks!Told(p, o, c, what), v2' = v2
      PROVE  Locks!FcntlInv'
  <2> DEFINE l == IF v3[p].req.nl THEN "prompt" ELSE "exit"
  <2>1. v3' = [v3 EXCEPT ![p].pc = l, ![p].said = what, ![p].view[w] = @]
    BY <1>3 DEF Locks!Told
  <2>2. l # "blocked"
    OBVIOUS
  <2> HIDE DEF l, w, o
  <2>3. Locks!ProcFields' /\ v3'[p].pc = l /\ \A q \in LockProcs : q # p => v3'[q] = v3[q]
    BY <1>1, <2>1 DEF Locks!ProcFields
  <2>4. v3'[p].view = [v3[p].view EXCEPT ![w] = v3[p].view[w]]
    BY <1>1, <2>1 DEF Locks!ProcFields
  <2>5. ~Locks!Waits(p)'
    BY <2>2, <2>3 DEF Locks!Waits, Locks!At
  <2>6. ASSUME NEW x \in {"posix", "ofd"} PROVE v2'[<<p, x>>] = v3'[p].view[x]
    <3>1. <<p, x>> \in Locks!Owners /\ <<p, x>>[1] = p /\ <<p, x>>[2] = x
      BY DEF Locks!Owners
    <3> QED
      BY <1>1, <1>3, <2>4, <3>1 DEF Locks!FcntlInv
  <2>7. DOMAIN v3'[p].view = {"posix", "ofd"} /\ DOMAIN v2' = Locks!Owners
    BY <1>1, <1>3, <2>4 DEF Locks!FcntlInv
  <2> QED
    BY <1>3, <2>3, <2>5, <2>6, <2>7, LockOne
\* Not told anything: it waits.
<1>4. ASSUME v3' = [v3 EXCEPT ![p].pc = "blocked"], v2' = v2, ~Locks!Deadlocks(p, c)
      PROVE  Locks!FcntlInv'
  <2> HIDE DEF w, o
  <2>1. /\ Locks!ProcFields' /\ v3'[p].view = v3[p].view /\ v3'[p].req = v3[p].req
        /\ \A q \in LockProcs : q # p => v3'[q] = v3[q]
    BY <1>1, <1>4 DEF Locks!ProcFields
  <2>2. ASSUME NEW q \in LockProcs, q # p, Locks!Waits(p)', Locks!Waits(q)', Locks!InTheWay(p, q)', Locks!InTheWay(q, p)'
        PROVE  FALSE
    <3>1. Locks!InTheWay(p, q) /\ Locks!InTheWay(q, p)
      BY <1>4, <2>1, <2>2, LockWay
    <3>2. v3[q].pc = "blocked" /\ v3[q].req.cmd = "w" /\ c.cmd = "w"
      BY <2>1, <2>2 DEF Locks!Waits, Locks!At
    <3>3. Locks!Owner(p, c) = <<p, "posix">>
      BY <3>2 DEF Locks!Owner
    <3> DEFINE h == <<q, "posix">>
    <3>4. h[1] = q /\ h[2] = "posix"
      OBVIOUS
    <3>5. h \in Locks!Conflicts(Locks!Owner(p, c), Locks!lockReg(c), c.lock)
      BY <3>1, <3>3 DEF Locks!InTheWay
    <3>6. <<p, "posix">> \in Locks!Conflicts(<<h[1], "posix">>, Locks!lockReg(v3[h[1]].req), v3[h[1]].req.lock)
      BY <3>1, <3>4 DEF Locks!InTheWay
    <3> HIDE DEF h
    <3> QED
      BY <1>4, <3>2, <3>4, <3>5, <3>6 DEF Locks!Deadlocks, Locks!At
  <2> QED
    BY <1>4, <2>1, <2>2, LockSame
<1>5. \/ \E what \in {"invalid", "can", "denied", "incompatible", "deadlock"} : Locks!Told(p, o, c, what) /\ v2' = v2
      \/ \E what \in {"got_lock", "unlocked"} : Locks!Told(p, o, c, what) /\ v2' = Locks!Placed(o, region, c.lock)
      \/ v3' = [v3 EXCEPT ![p].pc = "blocked"] /\ v2' = v2 /\ ~Locks!Deadlocks(p, c)
  <2> HIDE DEF o, region, got, w
  <2> QED
    BY DEF Locks!Perform, Locks!Mine, o, region
<1> HIDE DEF c, o, region, w, got
<1> QED
  BY <1>2, <1>3, <1>4, <1>5

LEMMA LockPid ==
  ASSUME Locks!PidInv, v1 = "pid", v1' = v1, NEW p \in LockProcs, Locks!createPidFile(p) \/ Locks!InstanceEnds(p)
  PROVE  Locks!PidInv'
<1> DEFINE Ids == LockProcs \cup {0}  n == Len(v4.lock)  f == v3[p].file
           Unlocked == [i \in DOMAIN v4.lock |-> IF v4.lock[i] = p THEN 0 ELSE v4.lock[i]]
<1>0. /\ Locks!ProcFields /\ Locks!FsFields /\ v4.pid \in Seq(Ids) /\ v4.lock \in Seq(Ids) /\ n \in Nat /\ Len(v4.pid) = n
      /\ v4.name \in 0..n /\ DOMAIN v4.lock = 1..n /\ DOMAIN v4.pid = 1..n
      /\ v4.delete \in BOOLEAN /\ v4.raced \in BOOLEAN
  BY DEF Locks!PidInv, Locks!PidFiles
<1>00. Locks!PidFiles /\ \A q \in LockProcs : Locks!PidOf(q)
  BY DEF Locks!PidInv
<1> USE LockPids
\* p goes on to l, with the file unchanged.
<1> DEFINE Goes(l) == /\ Locks!ProcFields' /\ v3'[p].pc = l /\ v3'[p].file = f /\ \A q \in LockProcs : q # p => v3'[q] = v3[q]
           Keeps(name, pid, lock) ==
             /\ Locks!FsFields' /\ v4'.name = name /\ v4'.pid = pid /\ v4'.lock = lock
             /\ v4'.delete = v4.delete /\ v4'.raced = v4.raced
<1>1. ASSUME NEW l, NEW g, Locks!Step(p, l, g) PROVE Goes(l) /\ v4' = g
  BY <1>0, <1>00, <1>1 DEF Locks!Step, Locks!ProcFields
<1> HIDE DEF Goes
<1>2. CASE Locks!OpenPidFile(p)
  <2> DEFINE i == Locks!OldOrNew
  <2>1. /\ v3[p].pc = "prompt" /\ v3' = [v3 EXCEPT ![p].pc = "lock", ![p].file = i, ![p].count = @ + 1] /\ v4' = Locks!WithFile
    BY <1>2 DEF Locks!OpenPidFile, Locks!Opened, Locks!At
  <2>2. i = IF v4.name = 0 THEN n + 1 ELSE v4.name
    BY <1>0 DEF Locks!OldOrNew
  <2> HIDE DEF i
  <2>3. Locks!ProcFields' /\ v3'[p].pc = "lock" /\ v3'[p].file = i /\ \A q \in LockProcs : q # p => v3'[q] = v3[q]
    BY <1>0, <1>00, <2>1 DEF Locks!ProcFields
  <2>4. CASE v4.name # 0
    <3>1. v4' = v4
      BY <2>1, <2>4 DEF Locks!WithFile
    <3>a. Locks!PidFiles'
      BY <1>0, <1>00, <2>1, <2>2, <2>3, <2>4, <3>1 DEF Goes, Locks!PidFiles, Locks!FsFields
    <3>2. i \in 1..n
      BY <1>0, <2>2, <2>4
    <3>b. Locks!PidOf(p)'
      BY <1>0, <1>00, <2>1, <2>3, <3>1, <3>2 DEF Locks!PidOf, Locks!Holding
    <3>c. ASSUME NEW q \in LockProcs, q # p PROVE Locks!PidOf(q)'
      <4>1. v3'[q] = v3[q]
        BY <1>0, <1>00, <2>1, <2>2, <2>3, <2>4, <3>1, <3>c DEF Goes
      <4> QED
        BY <4>1, <1>0, <1>00, <2>1, <2>2, <2>3, <2>4, <3>1, <3>c DEF Locks!PidOf, Locks!Holding
    <3> QED
      BY <3>a, <3>b, <3>c DEF Locks!PidInv
  <2>5. CASE v4.name = 0
    <3>1. v4' = [v4 EXCEPT !.name = i, !.pid = Append(@, 0), !.lock = Append(@, 0)]
      BY <2>1, <2>5 DEF Locks!WithFile, i
    <3>2. Keeps(i, Append(v4.pid, 0), Append(v4.lock, 0))
      BY <1>0, <1>00, <3>1 DEF Locks!FsFields
    <3>3. /\ v4'.pid \in Seq(Ids) /\ v4'.lock \in Seq(Ids) /\ Len(v4'.lock) = n + 1 /\ Len(v4'.pid) = n + 1 /\ v4'.lock[n + 1] = 0
          /\ \A j \in 1..n : v4'.lock[j] = v4.lock[j] /\ v4'.pid[j] = v4.pid[j]
      BY <1>0, <1>00, <3>2
    <3>4. ~v4.delete => n = 0
      BY <2>5 DEF Locks!PidInv, Locks!PidFiles, Locks!PidOf
    <3>5. \A q \in LockProcs : ~v4.raced => v3[q].pc \notin {"truncate", "write", "running"}
      BY <1>0, <1>00, <2>5 DEF Locks!PidOf
    <3>a. Locks!PidFiles'
      BY <1>0, <1>00, <2>1, <2>2, <2>3, <2>5, <3>2, <3>3, <3>4, <3>5 DEF Goes, Locks!PidFiles, Locks!FsFields
    <3>b. Locks!PidOf(p)'
      BY <1>0, <1>00, <2>1, <2>2, <2>3, <2>5, <3>2, <3>3, <3>4, <3>5 DEF Goes, Locks!PidOf, Locks!Holding
    <3>c. ASSUME NEW q \in LockProcs, q # p PROVE Locks!PidOf(q)'
      <4>1. v3'[q] = v3[q]
        BY <1>0, <1>00, <2>1, <2>2, <2>3, <2>5, <3>2, <3>3, <3>4, <3>5, <3>c DEF Goes
      <4> QED
        BY <4>1, <1>0, <1>00, <2>1, <2>2, <2>3, <2>5, <3>2, <3>3, <3>4, <3>5, <3>c DEF Locks!PidOf, Locks!Holding
    <3> QED
      BY <3>a, <3>b, <3>c DEF Locks!PidInv
  <2> QED
    BY <2>4, <2>5
<1>3. CASE v3[p].pc = "lock" /\ v4.lock[f] # 0 /\ Locks!Step(p, "prompt", v4)
  <2>1. Goes("prompt") /\ v4' = v4
    BY <1>1, <1>3
  <2>a. Locks!PidFiles'
    BY <1>0, <1>00, <1>3, <2>1 DEF Goes, Locks!PidFiles, Locks!FsFields
  <2>b. Locks!PidOf(p)'
    BY <1>0, <1>00, <1>3, <2>1 DEF Goes, Locks!PidOf, Locks!Holding
  <2>c. ASSUME NEW q \in LockProcs, q # p PROVE Locks!PidOf(q)'
    <3>1. v3'[q] = v3[q]
      BY <1>0, <1>00, <1>3, <2>1, <2>c DEF Goes
    <3> QED
      BY <3>1, <1>0, <1>00, <1>3, <2>1, <2>c DEF Locks!PidOf, Locks!Holding
  <2> QED
    BY <2>a, <2>b, <2>c DEF Locks!PidInv
<1>4. CASE v3[p].pc = "lock" /\ v4.lock[f] = 0 /\ Locks!Step(p, "truncate", [v4 EXCEPT !.lock[f] = p, !.raced = @ \/ f # v4.name])
  <2> DEFINE raced == v4.raced \/ f # v4.name
  <2>1. Goes("truncate") /\ v4' = [v4 EXCEPT !.lock[f] = p, !.raced = raced]
    BY <1>1, <1>4
  <2>2. /\ Locks!FsFields' /\ v4'.name = v4.name /\ v4'.pid = v4.pid /\ v4'.lock = [v4.lock EXCEPT ![f] = p]
        /\ v4'.delete = v4.delete /\ v4'.raced = raced
    BY <1>0, <1>00, <2>1 DEF Locks!FsFields
  <2>3. f \in 1..n
    BY <1>4 DEF Locks!PidInv, Locks!PidFiles, Locks!PidOf
  <2>4. /\ v4'.lock \in Seq(Ids) /\ Len(v4'.lock) = n /\ v4'.lock[f] = p
        /\ \A j \in 1..n : j # f => v4'.lock[j] = v4.lock[j]
    BY <1>0, <1>00, <2>2, <2>3
  <2>a. Locks!PidFiles'
    BY <1>0, <1>00, <1>4, <2>1, <2>2, <2>3, <2>4 DEF Goes, Locks!PidFiles, Locks!FsFields
  <2>5. ~v4'.raced => f = v4'.name
    BY <2>2
  <2>b. Locks!PidOf(p)'
    <3> HIDE DEF raced
    <3>1. v3'[p].pc = "truncate" /\ v3'[p].file = f
      BY <2>1 DEF Goes
    <3>2. \A i \in 1..n : v4'.lock[i] = p => i = f
      BY <1>00, <1>4, <2>3, <2>4 DEF Locks!PidOf, Locks!Holding
    <3> QED
      BY <2>2, <2>3, <2>4, <2>5, <3>1, <3>2 DEF Locks!PidOf, Locks!Holding
  <2>c. ASSUME NEW q \in LockProcs, q # p PROVE Locks!PidOf(q)'
    <3>1. v3'[q] = v3[q]
      BY <1>0, <1>00, <1>4, <2>1, <2>2, <2>3, <2>4, <2>c DEF Goes
    <3> QED
      BY <3>1, <1>0, <1>00, <1>4, <2>1, <2>2, <2>3, <2>4, <2>c DEF Locks!PidOf, Locks!Holding
  <2> QED
    BY <2>a, <2>b, <2>c DEF Locks!PidInv
<1>5. ASSUME NEW l \in {"write", "running"}, NEW x \in Ids, v3[p].pc \in {"truncate", "write"}, Locks!Step(p, l, [v4 EXCEPT !.pid[f] = x]),
             l = "running" => x = p
      PROVE  Locks!PidInv'
  <2>1. Goes(l) /\ v4' = [v4 EXCEPT !.pid[f] = x]
    BY <1>1, <1>5
  <2>2. Keeps(v4.name, [v4.pid EXCEPT ![f] = x], v4.lock)
    BY <1>0, <1>00, <2>1 DEF Locks!FsFields
  <2>3. f \in 1..n /\ v4.lock[f] = p
    BY <1>5 DEF Locks!PidInv, Locks!PidOf, Locks!Holding
  <2>4. /\ v4'.pid \in Seq(Ids) /\ Len(v4'.pid) = n /\ v4'.pid[f] = x
        /\ \A j \in 1..n : j # f => v4'.pid[j] = v4.pid[j]
    BY <1>0, <1>00, <1>5, <2>2, <2>3
  <2>5. \A q \in LockProcs : q # p /\ v3[q].pc \in Locks!Holding => v3[q].file # f
    BY <2>3 DEF Locks!PidInv, Locks!PidFiles, Locks!PidOf
  <2>a. Locks!PidFiles'
    BY <1>0, <1>00, <1>5, <2>1, <2>2, <2>3, <2>4, <2>5 DEF Goes, Locks!PidFiles, Locks!FsFields
  <2>b. Locks!PidOf(p)'
    BY <1>0, <1>00, <1>5, <2>1, <2>2, <2>3, <2>4, <2>5 DEF Goes, Locks!PidOf, Locks!Holding
  <2>c. ASSUME NEW q \in LockProcs, q # p PROVE Locks!PidOf(q)'
    <3>1. v3'[q] = v3[q]
      BY <1>0, <1>00, <1>5, <2>1, <2>2, <2>3, <2>4, <2>5, <2>c DEF Goes
    <3> QED
      BY <3>1, <1>0, <1>00, <1>5, <2>1, <2>2, <2>3, <2>4, <2>5, <2>c DEF Locks!PidOf, Locks!Holding
  <2> QED
    BY <2>a, <2>b, <2>c DEF Locks!PidInv
<1>6. CASE v3[p].pc = "running" /\ v4.delete /\ Locks!Step(p, "deleted", [v4 EXCEPT !.name = 0])
  <2>1. Goes("deleted") /\ v4' = [v4 EXCEPT !.name = 0]
    BY <1>1, <1>6
  <2>2. Keeps(0, v4.pid, v4.lock)
    BY <1>0, <1>00, <2>1 DEF Locks!FsFields
  <2>a. Locks!PidFiles'
    <3>1. Locks!ProcFields' /\ 0 \in 0..n
      BY <1>0, <2>1 DEF Goes
    <3>2. v4'.delete
      BY <1>6, <2>2
    <3> QED
      BY <1>0, <2>2, <3>1, <3>2 DEF Locks!PidFiles
  <2>b. Locks!PidOf(p)'
    BY <1>0, <1>00, <1>6, <2>1, <2>2 DEF Goes, Locks!PidOf, Locks!Holding
  <2>3. ASSUME NEW q \in LockProcs, q # p, v3[q].pc \in {"truncate", "write", "running"} PROVE v4.raced
    <3>1. v4.lock[f] = p /\ v4.lock[v3[q].file] = q
      BY <1>00, <1>6, <2>3 DEF Locks!PidOf, Locks!Holding
    <3>2. ~v4.raced => f = v4.name /\ v3[q].file = v4.name
      BY <1>00, <1>6, <2>3 DEF Locks!PidOf
    <3> QED
      BY <2>3, <3>1, <3>2
  <2>c. ASSUME NEW q \in LockProcs, q # p PROVE Locks!PidOf(q)'
    <3>1. v3'[q] = v3[q]
      BY <1>0, <1>00, <1>6, <2>1, <2>2, <2>3, <2>c DEF Goes
    <3> QED
      BY <3>1, <1>0, <1>00, <1>6, <2>1, <2>2, <2>3, <2>c DEF Locks!PidOf, Locks!Holding
  <2> QED
    BY <2>a, <2>b, <2>c DEF Locks!PidInv
<1>7. CASE v3[p].pc \in Locks!Holding /\ Locks!Step(p, "prompt", Locks!Unlocked(p))
  <2>1. Goes("prompt") /\ v4' = Locks!Unlocked(p)
    BY <1>1, <1>7
  <2>2. v4' = [v4 EXCEPT !.lock = Unlocked]
    BY <2>1 DEF Locks!Unlocked
  <2>3. Keeps(v4.name, v4.pid, Unlocked)
    BY <1>0, <1>00, <2>2 DEF Locks!FsFields
  <2>4. /\ v4'.lock \in Seq(Ids) /\ Len(v4'.lock) = n
        /\ \A j \in 1..n : v4'.lock[j] = IF v4.lock[j] = p THEN 0 ELSE v4.lock[j]
    BY <1>0, <1>00, <2>3
  <2>a. Locks!PidFiles'
    BY <1>0, <1>00, <1>7, <2>1, <2>3, <2>4 DEF Goes, Locks!PidFiles, Locks!FsFields
  <2>b. Locks!PidOf(p)'
    BY <1>0, <1>00, <1>7, <2>1, <2>3, <2>4 DEF Goes, Locks!PidOf, Locks!Holding
  <2>c. ASSUME NEW q \in LockProcs, q # p PROVE Locks!PidOf(q)'
    <3>1. v3'[q] = v3[q]
      BY <1>0, <1>00, <1>7, <2>1, <2>3, <2>4, <2>c DEF Goes
    <3> QED
      BY <3>1, <1>0, <1>00, <1>7, <2>1, <2>3, <2>4, <2>c DEF Locks!PidOf, Locks!Holding
  <2> QED
    BY <2>a, <2>b, <2>c DEF Locks!PidInv
<1>8. CASE Locks!createPidFile(p)
  BY <1>2, <1>3, <1>4, <1>5, <1>8 DEF Locks!createPidFile, Locks!Mine, Locks!At, Locks!Holding
<1>9. CASE Locks!InstanceEnds(p)
  BY <1>6, <1>7, <1>9 DEF Locks!InstanceEnds, Locks!Mine, Locks!At, Locks!Holding
<1> QED
  BY <1>8, <1>9

LEMMA LockDaemon ==
  ASSUME Locks!DaemonInv, v1 = "daemon", v1' = v1, Locks!becomeDaemon \/ Locks!daemon_SIGHUP
  PROVE  Locks!DaemonInv'
<1> USE DEF Locks!Daemon, Locks!Mine, Locks!Becomes, Locks!FsFields
<1>0. /\ Locks!FsFields /\ v4.config \in Nat /\ v4.log \in Nat
      /\ DOMAIN v5 = {"pc", "leader", "tty", "fds", "hup", "hups", "asked", "askedLog", "config", "log", "unslept"}
  BY DEF Locks!DaemonInv
<1>1. CASE Locks!becomeDaemon
  <2> USE DEF Locks!becomeDaemon, Locks!DaemonInv
  <2>1. CASE v5.pc \in {"fork", "setsid"} /\ v5'.pc # "gone"
    BY <1>0, <1>1, <2>1, ZenonT(30)
  <2>2. CASE v5.pc \in {"fork2", "close"} /\ v5'.pc # "gone"
    BY <1>0, <1>1, <2>2, ZenonT(30)
  <2>3. CASE v5.pc = "reopen" /\ v5'.pc # "gone"
    <3>1. v5' = [v5 EXCEPT !.fds = {0, 1, 2}, !.pc = "open"] /\ v4' = v4
      BY <1>0, <1>1, <2>3
    <3>2. /\ v5'.fds = {0, 1, 2} /\ v5'.pc = "open" /\ v5'.leader = v5.leader /\ v5'.tty = v5.tty /\ v5'.asked = v5.asked
          /\ v5'.askedLog = v5.askedLog /\ v5'.config = v5.config /\ v5'.log = v5.log /\ DOMAIN v5' = DOMAIN v5
      BY <1>0, <3>1
    <3>3. 3 \notin {0, 1, 2}
      OBVIOUS
    <3> QED
      BY <1>0, <2>3, <3>1, <3>2, <3>3
  <2>4. CASE v5' = [v5 EXCEPT !.pc = "gone"] /\ v4' = v4
    BY <1>0, <2>4
  <2> QED
    BY <1>0, <1>1, <2>1, <2>2, <2>3, <2>4
<1>2. CASE Locks!sighupHandler
  BY <1>0, <1>2 DEF Locks!sighupHandler, Locks!DaemonInv
<1>3. CASE Locks!Administrator
  BY <1>0, <1>3 DEF Locks!Administrator, Locks!DaemonInv
<1>4. CASE Locks!Sleeps
  BY <1>0, <1>4, ZenonT(30) DEF Locks!Sleeps, Locks!DaemonInv
<1>5. CASE Locks!LooksAtFlag
  BY <1>0, <1>5 DEF Locks!LooksAtFlag, Locks!DaemonInv
<1>6. CASE Locks!logOpen
  <2>1. CASE v5' = [v5 EXCEPT !.log = v4.log, !.pc = "read"] /\ v4' = v4 /\ v5.pc = "open"
    BY <1>0, <2>1 DEF Locks!DaemonInv
  <2>2. CASE v5' = [v5 EXCEPT !.pc = "open"] /\ v4' = v4 /\ v5.pc = "logClose"
    BY <1>0, <2>2 DEF Locks!DaemonInv
  <2>3. CASE v5' = [v5 EXCEPT !.pc = "gone"] /\ v4' = v4
    BY <1>0, <2>3 DEF Locks!DaemonInv
  <2> QED
    BY <1>0, <1>6, <2>1, <2>2, <2>3 DEF Locks!logOpen
<1>7. CASE Locks!readConfigFile
  BY <1>0, <1>7 DEF Locks!readConfigFile, Locks!DaemonInv
<1>8. CASE Locks!Counts
  BY <1>0, <1>8 DEF Locks!Counts, Locks!DaemonInv
<1> QED
  BY <1>1, <1>2, <1>3, <1>4, <1>5, <1>6, <1>7, <1>8 DEF Locks!daemon_SIGHUP

LEMMA LockNext == Locks!IInv /\ [Locks!Next]_Locks!vars => Locks!IInv'
<1> SUFFICES ASSUME Locks!IInv, [Locks!Next]_Locks!vars PROVE Locks!IInv'
  OBVIOUS
<1> USE DEF Locks!IInv
<1>0. v1' = v1
  BY DEF Locks!vars, Locks!Next, Locks!Mine, Locks!Daemon, Locks!i_fcntl_locking, Locks!ReadCommand, Locks!Perform, Locks!InputEnds,
         Locks!t_flock, Locks!becomeDaemon, Locks!daemon_SIGHUP, Locks!sighupHandler, Locks!Administrator, Locks!Sleeps,
         Locks!LooksAtFlag, Locks!logOpen, Locks!readConfigFile, Locks!Counts, Locks!createPidFile, Locks!InstanceEnds
<1>1. CASE UNCHANGED Locks!vars
  <2>1. \A p, q : Locks!InTheWay(q, p)' <=> Locks!InTheWay(q, p)
    BY <1>1, LockWay DEF Locks!vars
  <2>2. Locks!FcntlInv'
    BY <1>1, <2>1 DEF Locks!vars, Locks!FcntlInv, Locks!ProcFields, Locks!Waits, Locks!At
  <2>3. Locks!PidInv'
    BY <1>1 DEF Locks!vars, Locks!PidInv, Locks!PidFiles, Locks!PidOf, Locks!ProcFields, Locks!FsFields
  <2>4. Locks!DaemonInv'
    BY <1>1 DEF Locks!vars, Locks!DaemonInv, Locks!FsFields
  <2> QED
    BY <2>2, <2>3, <2>4
<1>2. CASE Locks!i_fcntl_locking
  <2>1. PICK p \in LockProcs : Locks!ReadCommand(p) \/ Locks!Perform(p) \/ Locks!InputEnds(p)
    BY <1>2 DEF Locks!i_fcntl_locking
  <2>2. v1 = "fcntl"
    BY <2>1 DEF Locks!Mine, Locks!ReadCommand, Locks!Perform, Locks!InputEnds
  <2>3. Locks!FcntlInv'
    BY <1>0, <2>1, <2>2, LockRead, LockPerform, LockEnds
  <2> QED
    BY <1>0, <2>2, <2>3 DEF Locks!PidInv, Locks!DaemonInv
<1>3. CASE Locks!t_flock
  <2>1. v1 = "flock"
    BY <1>3 DEF Locks!t_flock, Locks!Mine
  <2> QED
    BY <1>0, <2>1 DEF Locks!FcntlInv, Locks!PidInv, Locks!DaemonInv
<1>4. CASE \E p \in LockProcs : Locks!createPidFile(p) \/ Locks!InstanceEnds(p)
  <2>1. v1 = "pid"
    BY <1>4 DEF Locks!createPidFile, Locks!InstanceEnds, Locks!Mine
  <2>2. Locks!PidInv'
    BY <1>0, <1>4, <2>1, LockPid
  <2> QED
    BY <1>0, <2>1, <2>2 DEF Locks!FcntlInv, Locks!DaemonInv
<1>5. CASE Locks!becomeDaemon \/ Locks!daemon_SIGHUP
  <2>1. v1 = "daemon"
    BY <1>5 DEF Locks!Mine, Locks!Daemon, Locks!becomeDaemon, Locks!daemon_SIGHUP, Locks!sighupHandler, Locks!Administrator,
         Locks!Sleeps, Locks!LooksAtFlag, Locks!logOpen, Locks!readConfigFile, Locks!Counts
  <2>2. Locks!DaemonInv'
    BY <1>0, <1>5, <2>1, LockDaemon
  <2> QED
    BY <1>0, <2>1, <2>2 DEF Locks!FcntlInv, Locks!PidInv
<1> QED
  BY <1>1, <1>2, <1>3, <1>4, <1>5 DEF Locks!Next

LEMMA LockCardinality == \A S : Locks!Cardinality(S) = Cardinality(S)
BY Zenon DEF Locks!Cardinality, Cardinality

LEMMA LockSafe == Locks!IInv => Locks!LocksAsTold /\ Locks!NoHupForgotten
<1> SUFFICES ASSUME Locks!IInv PROVE Locks!LocksAsTold /\ Locks!NoHupForgotten
  OBVIOUS
<1>1. ASSUME v1 = "fcntl", NEW p \in LockProcs, NEW q \in LockProcs,
             p # q, Locks!At(p, "blocked"), Locks!At(q, "blocked"), v3[p].req.cmd = "w", v3[q].req.cmd = "w",
             Locks!Conflicts(<<p, "posix">>, Locks!lockReg(v3[p].req), v3[p].req.lock) = {<<q, "posix">>},
             Locks!Conflicts(<<q, "posix">>, Locks!lockReg(v3[q].req), v3[q].req.lock) = {<<p, "posix">>}
      PROVE  FALSE
  <2>1. Locks!InTheWay(p, q) /\ Locks!InTheWay(q, p) /\ Locks!Waits(p) /\ Locks!Waits(q)
    BY <1>1 DEF Locks!InTheWay, Locks!Waits
  <2> QED
    BY <1>1, <2>1 DEF Locks!IInv, Locks!FcntlInv
<1>2. v1 = "fcntl" => \A o \in Locks!Owners : v2[o] = v3[o[1]].view[o[2]]
  BY DEF Locks!IInv, Locks!FcntlInv
<1>3. ASSUME v1 = "pid" PROVE \A p, q \in Locks!Instances : p # q => v3[p].file # v3[q].file
  BY <1>3 DEF Locks!IInv, Locks!PidInv, Locks!PidOf, Locks!Holding, Locks!Instances, Locks!At
<1>4. ASSUME v1 = "pid", ~v4.raced
      PROVE  Locks!Cardinality(Locks!Instances) <= 1 /\ \A p \in Locks!Instances : v3[p].file = v4.name /\ v4.pid[v4.name] = p
  <2>1. \A p \in Locks!Instances : p \in LockProcs /\ v3[p].file = v4.name /\ v4.pid[v4.name] = p
    BY <1>4 DEF Locks!IInv, Locks!PidInv, Locks!PidFiles, Locks!PidOf, Locks!Holding, Locks!Instances, Locks!At
  <2>2. CASE Locks!Instances = {}
    BY <2>1, <2>2, FS_EmptySet, LockCardinality
  <2>3. CASE Locks!Instances # {}
    <3>1. PICK p : Locks!Instances = {p}
      BY <2>1, <2>3
    <3>2. Cardinality({p}) = 1
      BY FS_Singleton
    <3>3. Locks!Cardinality(Locks!Instances) = 1
      BY <3>1, <3>2, LockCardinality
    <3> QED
      BY <2>1, <3>3
  <2> QED
    BY <2>2, <2>3
<1>5. v1 = "pid" /\ v4.raced => v4.delete
  BY DEF Locks!IInv, Locks!PidInv, Locks!PidFiles
<1>6. Locks!LocksAsTold
  BY <1>1, <1>2, <1>3, <1>4, <1>5, ZenonT(30) DEF Locks!LocksAsTold
<1>7. Locks!NoHupForgotten
  BY DEF Locks!IInv, Locks!DaemonInv, Locks!NoHupForgotten
<1> QED
  BY <1>6, <1>7

-----------------------------------------------------------------------------
(* SequenceNumbers.                                                        *)

\* The remainder of a division: numbers that wrap around.
LEMMA ModParts ==
  ASSUME NEW m \in Nat, m > 0, NEW a \in Nat
  PROVE  \E q \in Nat : a % m \in 0..(m - 1) /\ a = (m * q) + (a % m)
<1> DEFINE q == a \div m  r == a % m
<1>1. ASSUME NEW k, k = a \div m, NEW s, s = a % m PROVE a = (m * k) + s
  BY <1>1, SMTT(30)
<1>2. a = (m * q) + r
  BY <1>1
<1>3. q \in Nat /\ r \in 0..(m - 1)
  OBVIOUS
<1> HIDE DEF q, r
<1>4. \E k \in Nat : r \in 0..(m - 1) /\ a = (m * k) + r
  BY <1>2, <1>3
<1> QED
  BY <1>4 DEF r

LEMMA ModUnique ==
  ASSUME NEW m \in Nat, m > 0, NEW q \in Nat, NEW r \in 0..(m - 1), NEW a, a = (m * q) + r
  PROVE  a % m = r
BY SMTT(30)

LEMMA ModAdd ==
  ASSUME NEW m \in Nat, m > 0, NEW a \in Nat, NEW b \in Nat
  PROVE  ((a % m) + b) % m = (a + b) % m
<1> DEFINE r == a % m  s == (r + b) % m
<1>1. PICK q \in Nat : r \in 0..(m - 1) /\ a = (m * q) + r
  BY ModParts
<1>2. r + b \in Nat
  BY <1>1
<1> HIDE DEF r
<1>3. PICK p \in Nat : s \in 0..(m - 1) /\ r + b = (m * p) + s
  BY <1>2, ModParts
<1> HIDE DEF s
<1> DEFINE k == q + p  c == a + b
<1>4. m * k = (m * q) + (m * p) /\ (m * q) \in Nat /\ (m * p) \in Nat /\ k \in Nat
  OBVIOUS
<1>5. c = (m * k) + s
  BY <1>1, <1>3, <1>4
<1> HIDE DEF k, c
<1>6. c % m = s
  BY <1>3, <1>4, <1>5, ModUnique
<1> QED
  BY <1>6 DEF r, s, c

\* Two numbers with the same residue are at least m apart.
LEMMA ModApart ==
  ASSUME NEW m \in Nat, m > 0, NEW a \in Nat, NEW b \in Nat, a % m = b % m, a < b
  PROVE  b - a >= m
<1> DEFINE r == a % m
<1>1. PICK q \in Nat : r \in 0..(m - 1) /\ a = (m * q) + r
  BY ModParts
<1>2. PICK p \in Nat : b = (m * p) + r
  BY ModParts
<1> HIDE DEF r
<1>3. (m * q) \in Nat /\ (m * p) \in Nat
  OBVIOUS
<1>4. (m * q) < (m * p)
  BY <1>1, <1>2, <1>3
<1>5. q < p
  BY <1>4
<1>6. PICK d \in Nat : p = q + 1 + d
  <2>1. p - q - 1 \in Nat /\ p = q + 1 + (p - q - 1)
    BY <1>5
  <2> QED
    BY <2>1
<1>7. m * (q + 1 + d) = (m * q) + m + (m * d) /\ (m * d) \in Nat
  OBVIOUS
<1>8. m * p = (m * q) + m + (m * d)
  BY <1>6, <1>7
<1> HIDE <1>6
<1> QED
  BY <1>1, <1>2, <1>3, <1>7, <1>8

LEMMA NumInit == Numbers!Init => Numbers!IInv
<1> SUFFICES ASSUME Numbers!Init PROVE Numbers!IInv
  OBVIOUS
<1>0. PICK n \in 0..(NumModulus - 1) :
        v2 = [pc |-> "start", seqNum |-> n, given |-> n, req |-> [pid |-> Numbers!None, len |-> 0]]
  BY NumBounds DEF Numbers!Init
<1>1. Numbers!TypeOK
  <2>1. v2 \in Numbers!Servers
    BY <1>0 DEF Numbers!Servers, Numbers!Names, Numbers!None
  <2>2. v3 \in [NumClients -> Numbers!ClientStates]
    BY DEF Numbers!Init, Numbers!ClientStates, Numbers!Names, Numbers!None
  <2> QED
    BY <2>1, <2>2 DEF Numbers!Init, Numbers!TypeOK
<1>2. \A c \in NumClients : v3[c].pc = "new" /\ ~Numbers!Live(c)
  BY DEF Numbers!Init, Numbers!Live
<1>3. v2.pc = "start" /\ v4 = <<>> /\ Len(v4) = 0 /\ DOMAIN v4 = {}
  BY <1>0 DEF Numbers!Init
<1>4. Numbers!FifoInv
  BY <1>2, <1>3 DEF Numbers!FifoInv, Numbers!OnePerId, Numbers!ReadersServed, Numbers!QueueOwned, Numbers!ServerOwned, Numbers!Awaited, Numbers!Waiting
<1>5. Numbers!StreamInv
  BY <1>3 DEF Numbers!StreamInv
<1>6. Numbers!GivenOnce
  <2>1. v2.seqNum = v2.given % NumModulus
    BY <1>0, NumBounds
  <2> QED
    BY <1>2, <2>1 DEF Numbers!GivenOnce, Numbers!Given
<1> QED
  BY <1>1, <1>4, <1>5, <1>6 DEF Numbers!IInv

\* Who was killed stays so.
LEMMA NumClean ==
  ASSUME \A d \in NumClients : v3[d].pc = "killed" => v3'[d].pc = "killed" /\ v3'[d].pid = v3[d].pid
  PROVE  \A p : Numbers!Clean(p)' => Numbers!Clean(p)
BY DEF Numbers!Clean, Numbers!Killed

\* A client moves that is given nothing.
LEMMA NumGiven ==
  ASSUME Numbers!GivenOnce, v1' = v1, v2'.seqNum = v2.seqNum /\ v2'.given = v2.given, NEW c \in NumClients,
         \A d \in NumClients : d # c => v3'[d] = v3[d], v3[c].pc # "killed",
         \/ ~Numbers!Given(c)'
         \/ v3[c].pc \in {"answered", "done"} /\ v3'[c].got = v3[c].got /\ v3'[c].at = v3[c].at /\ v3'[c].len = v3[c].len /\ v3'[c].pid = v3[c].pid
  PROVE  Numbers!GivenOnce'
<1>1. \A p : Numbers!Clean(p)' => Numbers!Clean(p)
  BY NumClean
<1>2. \A d \in NumClients : Numbers!Given(d)' => Numbers!Given(d) /\ v3'[d].got = v3[d].got /\ v3'[d].at = v3[d].at /\ v3'[d].len = v3[d].len
  BY <1>1 DEF Numbers!Given
<1> QED
  BY <1>2 DEF Numbers!GivenOnce

\* A client of the FIFO moves alone.
LEMMA NumFifoClient ==
  ASSUME Numbers!IInv, v1' = v1, v1 = "fifo", NEW c \in NumClients,
         Numbers!FifoCreate(c) \/ Numbers!FifoOpenForReading(c) \/ Numbers!FifoDone(c) \/ Numbers!Kill(c)
  PROVE  Numbers!IInv'
<1>0. /\ v2' = v2 /\ v4' = v4 /\ v2 \in Numbers!Servers /\ v3 \in [NumClients -> Numbers!ClientStates]
      /\ v4 \in Seq([pid : Numbers!Names, len : Nat])
  BY DEF Numbers!FifoCreate, Numbers!FifoOpenForReading, Numbers!FifoDone, Numbers!Kill, Numbers!IInv, Numbers!TypeOK
<1>1. v3[c] \in Numbers!ClientStates
  BY <1>0
<1>2. ASSUME NEW x \in Numbers!ClientStates, v3' = [v3 EXCEPT ![c] = x]
      PROVE  Numbers!TypeOK' /\ v3'[c] = x /\ \A d \in NumClients : d # c => v3'[d] = v3[d]
  BY <1>0, <1>2 DEF Numbers!IInv, Numbers!TypeOK
<1>3. /\ Numbers!OnePerId /\ Numbers!ReadersServed /\ Numbers!QueueOwned /\ Numbers!ServerOwned /\ Numbers!Awaited
      /\ v2.pc # "line" /\ Numbers!GivenOnce
  BY DEF Numbers!IInv, Numbers!FifoInv
<1>4. Numbers!StreamInv'
  BY DEF Numbers!StreamInv, Numbers!Stream
<1> SUFFICES Numbers!TypeOK' /\ Numbers!FifoInv' /\ Numbers!GivenOnce'
  BY <1>4 DEF Numbers!IInv
<1>5. CASE Numbers!FifoCreate(c)
  <2>1. PICK p \in NumPids, n \in NumLens :
            /\ v3[c].pc = "new" /\ \A d \in NumClients : Numbers!Live(d) => v3[d].pid # p
            /\ v3' = [v3 EXCEPT ![c] = [pc |-> "send", pid |-> p, len |-> n, got |-> Numbers!None, at |-> 0]] /\ v5' = v5 \cup {p}
    BY <1>5 DEF Numbers!FifoCreate
  <2> DEFINE x == [pc |-> "send", pid |-> p, len |-> n, got |-> Numbers!None, at |-> 0]
  <2>2. x \in Numbers!ClientStates
    BY NumBounds DEF Numbers!ClientStates, Numbers!Names
  <2> HIDE DEF x
  <2>3. Numbers!TypeOK' /\ v3'[c] = x /\ \A d \in NumClients : d # c => v3'[d] = v3[d]
    BY <1>2, <2>1, <2>2 DEF x
  <2>4. v3'[c].pc = "send" /\ v3'[c].pid = p
    BY <2>3 DEF x
  <2>5. \A q : Numbers!Clean(q)' <=> Numbers!Clean(q)
    BY <2>1, <2>3, <2>4 DEF Numbers!Clean, Numbers!Killed
  <2>6. Numbers!GivenOnce'
    BY <1>0, <1>3, <2>1, <2>3, <2>4, NumGiven DEF Numbers!Given
  <2>7. Numbers!FifoInv'
    <3>a. Numbers!OnePerId'
      BY <1>0, <1>3, <2>1, <2>3, <2>4, <2>5 DEF Numbers!OnePerId, Numbers!Live
    <3>b. Numbers!ReadersServed'
      BY <1>0, <1>3, <2>1, <2>3, <2>4, <2>5 DEF Numbers!ReadersServed
    <3>c. Numbers!QueueOwned'
      BY <1>0, <1>3, <2>1, <2>3, <2>4, <2>5 DEF Numbers!QueueOwned, Numbers!OnePerId, Numbers!Live, Numbers!Waiting, Numbers!Owns
    <3>d. Numbers!ServerOwned'
      BY <1>0, <1>3, <2>1, <2>3, <2>4, <2>5 DEF Numbers!ServerOwned, Numbers!OnePerId, Numbers!Live, Numbers!Waiting, Numbers!Owns
    <3>e. Numbers!Awaited'
      BY <1>0, <1>3, <2>1, <2>3, <2>4, <2>5 DEF Numbers!Awaited, Numbers!OnePerId, Numbers!Live, Numbers!Waiting, Numbers!Owns
    <3> QED
      BY <1>0, <1>3, <2>1, <2>3, <2>4, <2>5, <3>a, <3>b, <3>c, <3>d, <3>e DEF Numbers!FifoInv
  <2> QED
    BY <2>3, <2>6, <2>7
<1>6. CASE Numbers!FifoOpenForReading(c)
  <2> DEFINE x == [v3[c] EXCEPT !.pc = "opening"]
  <2>1. v3[c].pc = "sent" /\ v3' = [v3 EXCEPT ![c] = x] /\ v5' = v5
    BY <1>6 DEF Numbers!FifoOpenForReading, Numbers!Go
  <2>2. x \in Numbers!ClientStates /\ x.pc = "opening" /\ x.pid = v3[c].pid /\ x.len = v3[c].len
    BY <1>1 DEF Numbers!ClientStates
  <2> HIDE DEF x
  <2>3. Numbers!TypeOK' /\ v3'[c] = x /\ \A d \in NumClients : d # c => v3'[d] = v3[d]
    BY <1>2, <2>1, <2>2
  <2>5. \A q : Numbers!Clean(q)' <=> Numbers!Clean(q)
    BY <2>1, <2>2, <2>3 DEF Numbers!Clean, Numbers!Killed
  <2>6. Numbers!GivenOnce'
    BY <1>0, <1>3, <2>1, <2>2, <2>3, NumGiven DEF Numbers!Given
  <2>7. Numbers!FifoInv'
    <3>a. Numbers!OnePerId'
      BY <1>0, <1>3, <2>1, <2>2, <2>3, <2>5 DEF Numbers!OnePerId, Numbers!Live
    <3>b. Numbers!ReadersServed'
      BY <1>0, <1>3, <2>1, <2>2, <2>3, <2>5 DEF Numbers!ReadersServed
    <3>1. \A d \in NumClients : v3'[d].pid = v3[d].pid /\ v3'[d].len = v3[d].len /\ (Numbers!Waiting(d)' <=> Numbers!Waiting(d))
      BY <2>1, <2>2, <2>3 DEF Numbers!Waiting
    <3>c. Numbers!QueueOwned'
      BY <1>0, <1>3, <2>5, <3>1 DEF Numbers!QueueOwned, Numbers!Owns
    <3>d. Numbers!ServerOwned'
      BY <1>0, <1>3, <2>1, <2>2, <2>3, <2>5 DEF Numbers!ServerOwned, Numbers!OnePerId, Numbers!Live, Numbers!Waiting, Numbers!Owns
    <3>e. Numbers!Awaited'
      BY <1>0, <1>3, <2>1, <2>2, <2>3, <2>5 DEF Numbers!Awaited, Numbers!OnePerId, Numbers!Live, Numbers!Waiting, Numbers!Owns
    <3> QED
      BY <1>0, <1>3, <2>1, <2>2, <2>3, <2>5, <3>a, <3>b, <3>c, <3>d, <3>e DEF Numbers!FifoInv
  <2> QED
    BY <2>3, <2>6, <2>7
<1>7. CASE Numbers!FifoDone(c)
  <2> DEFINE x == [v3[c] EXCEPT !.pc = "done", !.got = v3[c].got]
  <2>1. v3[c].pc = "answered" /\ v3' = [v3 EXCEPT ![c] = x] /\ v5' = v5 \ {v3[c].pid}
    BY <1>7 DEF Numbers!FifoDone, Numbers!Ends
  <2>2. x \in Numbers!ClientStates /\ x.pc = "done" /\ x.pid = v3[c].pid /\ x.len = v3[c].len /\ x.got = v3[c].got /\ x.at = v3[c].at
    BY <1>1 DEF Numbers!ClientStates
  <2> HIDE DEF x
  <2>3. Numbers!TypeOK' /\ v3'[c] = x /\ \A d \in NumClients : d # c => v3'[d] = v3[d]
    BY <1>2, <2>1, <2>2
  <2>5. \A q : Numbers!Clean(q)' <=> Numbers!Clean(q)
    BY <2>1, <2>2, <2>3 DEF Numbers!Clean, Numbers!Killed
  <2>6. Numbers!GivenOnce'
    BY <1>0, <1>3, <2>1, <2>2, <2>3, NumGiven
  <2>7. Numbers!FifoInv'
    <3>a. Numbers!OnePerId'
      BY <1>0, <1>3, <2>1, <2>2, <2>3, <2>5 DEF Numbers!OnePerId, Numbers!Live
    <3>b. Numbers!ReadersServed'
      BY <1>0, <1>3, <2>1, <2>2, <2>3, <2>5 DEF Numbers!ReadersServed
    <3>c. Numbers!QueueOwned'
      BY <1>0, <1>3, <2>1, <2>2, <2>3, <2>5 DEF Numbers!QueueOwned, Numbers!OnePerId, Numbers!Live, Numbers!Waiting, Numbers!Owns
    <3>d. Numbers!ServerOwned'
      BY <1>0, <1>3, <2>1, <2>2, <2>3, <2>5 DEF Numbers!ServerOwned, Numbers!OnePerId, Numbers!Live, Numbers!Waiting, Numbers!Owns
    <3>e. Numbers!Awaited'
      BY <1>0, <1>3, <2>1, <2>2, <2>3, <2>5 DEF Numbers!Awaited, Numbers!OnePerId, Numbers!Live, Numbers!Waiting, Numbers!Owns
    <3> QED
      BY <1>0, <1>3, <2>1, <2>2, <2>3, <2>5, <3>a, <3>b, <3>c, <3>d, <3>e DEF Numbers!FifoInv
  <2> QED
    BY <2>3, <2>6, <2>7
<1>8. CASE Numbers!Kill(c)
  <2> DEFINE g == IF v3[c].pc \in {"length", "send"} THEN 0 ELSE Numbers!None
             x == [v3[c] EXCEPT !.pc = "killed", !.got = g]
  <2>1. Numbers!Live(c) /\ v3' = [v3 EXCEPT ![c] = x] /\ v5' = v5
    BY <1>8 DEF Numbers!Kill
  <2>2. x \in Numbers!ClientStates /\ x.pc = "killed" /\ x.pid = v3[c].pid
    BY <1>1 DEF Numbers!ClientStates
  <2> HIDE DEF x
  <2>3. Numbers!TypeOK' /\ v3'[c] = x /\ \A d \in NumClients : d # c => v3'[d] = v3[d]
    BY <1>2, <2>1, <2>2
  <2>4. v3[c].pc # "killed"
    BY <2>1 DEF Numbers!Live
  <2>5. \A q : Numbers!Clean(q)' => Numbers!Clean(q) /\ v3[c].pid # q
    BY <2>2, <2>3, <2>4 DEF Numbers!Clean, Numbers!Killed
  <2>6. Numbers!GivenOnce'
    BY <1>0, <1>3, <2>2, <2>3, <2>4, NumGiven DEF Numbers!Given
  <2>7. Numbers!FifoInv'
    <3>a. Numbers!OnePerId'
      BY <1>0, <1>3, <2>1, <2>2, <2>3, <2>5 DEF Numbers!OnePerId, Numbers!Live
    <3>b. Numbers!ReadersServed'
      BY <1>0, <1>3, <2>1, <2>2, <2>3, <2>5 DEF Numbers!ReadersServed
    <3>c. Numbers!QueueOwned'
      BY <1>0, <1>3, <2>1, <2>2, <2>3, <2>5 DEF Numbers!QueueOwned, Numbers!OnePerId, Numbers!Live, Numbers!Waiting, Numbers!Owns
    <3>d. Numbers!ServerOwned'
      BY <1>0, <1>3, <2>1, <2>2, <2>3, <2>5 DEF Numbers!ServerOwned, Numbers!OnePerId, Numbers!Live, Numbers!Waiting, Numbers!Owns
    <3>e. Numbers!Awaited'
      BY <1>0, <1>3, <2>1, <2>2, <2>3, <2>5 DEF Numbers!Awaited, Numbers!OnePerId, Numbers!Live, Numbers!Waiting, Numbers!Owns
    <3> QED
      BY <1>0, <1>3, <2>1, <2>2, <2>3, <2>5, <3>a, <3>b, <3>c, <3>d, <3>e DEF Numbers!FifoInv
  <2> QED
    BY <2>3, <2>6, <2>7
<1> QED
  BY <1>5, <1>6, <1>7, <1>8

LEMMA NumFifoSend ==
  ASSUME Numbers!IInv, v1' = v1, v1 = "fifo", NEW c \in NumClients, Numbers!FifoSend(c)
  PROVE  Numbers!IInv'
<1> DEFINE r == [pid |-> v3[c].pid, len |-> v3[c].len]  x == [v3[c] EXCEPT !.pc = "sent"]  n == Len(v4)
<1>0. /\ v2 \in Numbers!Servers /\ v3 \in [NumClients -> Numbers!ClientStates] /\ v4 \in Seq([pid : Numbers!Names, len : Nat])
      /\ v3[c] \in Numbers!ClientStates /\ n \in Nat
  BY DEF Numbers!IInv, Numbers!TypeOK
<1>1. v2' = v2 /\ v5' = v5 /\ v4' = Append(v4, r) /\ v3[c].pc = "send" /\ v3' = [v3 EXCEPT ![c] = x]
  BY DEF Numbers!FifoSend, Numbers!Go
<1>2. x \in Numbers!ClientStates /\ x.pc = "sent" /\ x.pid = v3[c].pid /\ x.len = v3[c].len /\ r.pid = v3[c].pid /\ r.len = v3[c].len
  BY <1>0 DEF Numbers!ClientStates
<1>3. /\ Numbers!OnePerId /\ Numbers!ReadersServed /\ Numbers!QueueOwned /\ Numbers!ServerOwned /\ Numbers!Awaited
      /\ v2.pc # "line" /\ Numbers!GivenOnce /\ Numbers!Live(c)
  BY <1>1 DEF Numbers!IInv, Numbers!FifoInv, Numbers!Live
<1>4. r \in [pid : Numbers!Names, len : Nat]
  BY <1>0, <1>1 DEF Numbers!IInv, Numbers!ClientStates
<1> HIDE DEF r, x
<1>5. /\ v4' \in Seq([pid : Numbers!Names, len : Nat]) /\ Len(v4') = n + 1 /\ v4'[n + 1] = r
      /\ \A i \in 1..n : v4'[i] = v4[i]
  BY <1>0, <1>1, <1>4
<1>6. v3'[c] = x /\ \A d \in NumClients : d # c => v3'[d] = v3[d]
  BY <1>0, <1>1
<1>7. Numbers!TypeOK'
  BY <1>0, <1>1, <1>2, <1>5 DEF Numbers!IInv, Numbers!TypeOK
<1>8. \A q : Numbers!Clean(q)' <=> Numbers!Clean(q)
  BY <1>1, <1>2, <1>6 DEF Numbers!Clean, Numbers!Killed
<1>9. Numbers!GivenOnce'
  BY <1>1, <1>2, <1>3, <1>6, NumGiven DEF Numbers!Given
<1>10. Numbers!FifoInv'
  <2>a. Numbers!OnePerId'
    BY <1>0, <1>1, <1>2, <1>3, <1>5, <1>6, <1>8 DEF Numbers!OnePerId, Numbers!Live
  <2>b. Numbers!ReadersServed'
    BY <1>0, <1>1, <1>2, <1>3, <1>5, <1>6, <1>8 DEF Numbers!ReadersServed
  <2>1. ASSUME NEW e \in NumClients, Numbers!Live(e), v3[e].pid = v3[c].pid PROVE e = c
    BY <1>3, <2>1 DEF Numbers!OnePerId
  <2>2. ~Numbers!Waiting(c) /\ v3[c].pc # "reading" /\ \A e \in NumClients : Numbers!Waiting(e) \/ v3[e].pc = "reading" => Numbers!Live(e)
    BY <1>1 DEF Numbers!Waiting, Numbers!Live
  <2>3. Numbers!Clean(r.pid) => (\A i \in 1..n : v4[i].pid # r.pid) /\ (v2.pc \in {"open", "write"} => v2.req.pid # r.pid)
    BY <1>2, <1>3, <2>1, <2>2 DEF Numbers!QueueOwned, Numbers!ServerOwned, Numbers!Owns
  <2>4. Numbers!Waiting(c)' /\ \A d \in NumClients : d # c => (Numbers!Waiting(d)' <=> Numbers!Waiting(d))
    BY <1>2, <1>6 DEF Numbers!Waiting
  <2>c. ASSUME NEW i \in 1..Len(v4'), Numbers!Clean(v4[i].pid)'
        PROVE  /\ \E d \in NumClients : Numbers!Owns(d, v4[i])' /\ Numbers!Waiting(d)'
               /\ \A j \in 1..Len(v4') : v4'[j].pid = v4'[i].pid => j = i
               /\ v2'.pc \in {"open", "write"} => v2'.req.pid # v4'[i].pid
    <3>1. CASE i = n + 1
      <4>1. v4'[i] = r /\ Numbers!Clean(r.pid)
        BY <1>5, <1>8, <2>c, <3>1
      <4>2. Numbers!Owns(c, v4[i])' /\ Numbers!Waiting(c)'
        BY <1>2, <1>6, <2>4, <4>1 DEF Numbers!Owns
      <4>3. ASSUME NEW j \in 1..Len(v4'), v4'[j].pid = r.pid PROVE j = i
        <5>1. j = n + 1 \/ j \in 1..n
          BY <1>0, <1>5
        <5> QED
          BY <1>5, <2>3, <3>1, <4>1, <4>3, <5>1
      <4> QED
        BY <1>1, <2>3, <4>1, <4>2, <4>3
    <3>2. CASE i \in 1..n
      <4>1. v4'[i] = v4[i] /\ Numbers!Clean(v4[i].pid)
        BY <1>5, <1>8, <2>c, <3>2
      <4>2. PICK d \in NumClients : Numbers!Owns(d, v4[i]) /\ Numbers!Waiting(d)
        BY <1>3, <3>2, <4>1 DEF Numbers!QueueOwned
      <4>3. d # c
        BY <2>2, <4>2
      <4>4. Numbers!Owns(d, v4[i])' /\ Numbers!Waiting(d)'
        BY <1>6, <2>4, <4>1, <4>2, <4>3 DEF Numbers!Owns
      <4>5. r.pid # v4[i].pid
        BY <2>3, <3>2, <4>1 DEF Numbers!Clean
      <4>6. ASSUME NEW j \in 1..Len(v4'), v4'[j].pid = v4'[i].pid PROVE j = i
        <5>1. j = n + 1 \/ j \in 1..n
          BY <1>0, <1>5
        <5> QED
          BY <1>3, <1>5, <3>2, <4>1, <4>5, <4>6, <5>1 DEF Numbers!QueueOwned
      <4> QED
        BY <1>1, <1>3, <3>2, <4>1, <4>4, <4>6 DEF Numbers!QueueOwned
    <3> QED
      BY <1>0, <1>5, <3>1, <3>2
  <2>f. Numbers!QueueOwned'
    BY <2>c DEF Numbers!QueueOwned
  <2>d. Numbers!ServerOwned'
    BY <1>0, <1>1, <1>2, <1>3, <1>5, <1>6, <1>8 DEF Numbers!ServerOwned, Numbers!OnePerId, Numbers!Live, Numbers!Waiting, Numbers!Owns
  <2>e. Numbers!Awaited'
    BY <1>0, <1>1, <1>2, <1>3, <1>5, <1>6, <1>8 DEF Numbers!Awaited, Numbers!OnePerId, Numbers!Live, Numbers!Waiting, Numbers!Owns
  <2> QED
    BY <1>0, <1>1, <1>2, <1>3, <1>5, <1>6, <1>8, <2>a, <2>b, <2>f, <2>d, <2>e DEF Numbers!FifoInv
<1>11. Numbers!StreamInv' 
  BY <1>1, <1>2, <1>6 DEF Numbers!StreamInv, Numbers!Stream
<1> QED
  BY <1>7, <1>9, <1>10, <1>11 DEF Numbers!IInv

\* The server of the FIFO moves alone.
LEMMA NumFifoServer ==
  ASSUME Numbers!IInv, v1' = v1, v1 = "fifo", Numbers!FifoServerStarts \/ Numbers!FifoRead
  PROVE  Numbers!IInv'
<1> DEFINE n == Len(v4)
<1>0. /\ v2 \in Numbers!Servers /\ v3 \in [NumClients -> Numbers!ClientStates] /\ v4 \in Seq([pid : Numbers!Names, len : Nat])
      /\ n \in Nat /\ v3' = v3 /\ v5' = v5
  BY DEF Numbers!IInv, Numbers!TypeOK, Numbers!FifoServerStarts, Numbers!FifoRead
<1>1. /\ Numbers!OnePerId /\ Numbers!ReadersServed /\ Numbers!QueueOwned /\ Numbers!ServerOwned /\ Numbers!Awaited
      /\ v2.pc # "line" /\ Numbers!GivenOnce
  BY DEF Numbers!IInv, Numbers!FifoInv
<1>2. \A q : Numbers!Clean(q)' <=> Numbers!Clean(q)
  BY <1>0 DEF Numbers!Clean, Numbers!Killed
<1>3. \A c \in NumClients : Numbers!Waiting(c)' <=> Numbers!Waiting(c)
  BY <1>0 DEF Numbers!Waiting
<1>4. Numbers!OnePerId'
  BY <1>0, <1>1 DEF Numbers!OnePerId, Numbers!Live
<1>5. Numbers!StreamInv'
  BY DEF Numbers!StreamInv, Numbers!Stream
<1>6. ASSUME v2'.seqNum = v2.seqNum /\ v2'.given = v2.given PROVE Numbers!GivenOnce'
  BY <1>0, <1>1, <1>2, <1>6 DEF Numbers!GivenOnce, Numbers!Given
<1>7. CASE Numbers!FifoServerStarts
  <2>1. v4' = v4 /\ v2' \in Numbers!Servers /\ v2.pc = "start" /\ v2'.pc = "read" /\ v2'.seqNum = v2.seqNum /\ v2'.given = v2.given
    BY <1>0, <1>7 DEF Numbers!FifoServerStarts, Numbers!Servers
  <2>2. Numbers!TypeOK'
    BY <1>0, <2>1 DEF Numbers!IInv, Numbers!TypeOK
  <2>3. Numbers!ReadersServed'
    BY <1>0, <1>1, <2>1 DEF Numbers!ReadersServed
  <2>4. Numbers!QueueOwned'
    BY <1>0, <1>1, <1>2, <1>3, <2>1 DEF Numbers!QueueOwned, Numbers!Owns
  <2>5. Numbers!ServerOwned' /\ Numbers!Awaited'
    BY <1>0, <1>1, <1>2, <1>3, <2>1 DEF Numbers!ServerOwned, Numbers!Awaited
  <2> QED
    BY <1>4, <1>5, <1>6, <2>1, <2>2, <2>3, <2>4, <2>5 DEF Numbers!IInv, Numbers!FifoInv
<1>8. CASE Numbers!FifoRead
  <2>1. v4 # <<>> /\ v4' = Tail(v4) /\ v2.pc = "read" /\ v2' = [v2 EXCEPT !.pc = "open", !.req = Head(v4)]
    BY <1>8 DEF Numbers!FifoRead
  <2>2. /\ n >= 1 /\ Head(v4) = v4[1] /\ Head(v4) \in [pid : Numbers!Names, len : Nat]
        /\ v4' \in Seq([pid : Numbers!Names, len : Nat]) /\ Len(v4') = n - 1
    <3>1. v4 \in Seq([pid : Numbers!Names, len : Nat])
      BY <1>0
    <3>2. Head(v4) \in [pid : Numbers!Names, len : Nat] /\ v4' \in Seq([pid : Numbers!Names, len : Nat]) /\ Len(v4') = n - 1
      BY <2>1, <3>1, HeadTailProperties, Zenon
    <3>3. n >= 1 /\ Head(v4) = v4[1]
      BY <2>1, <3>1
    <3> QED
      BY <3>2, <3>3
  <2>3. \A i \in 1..(n - 1) : v4'[i] = v4[i + 1]
    BY <1>0, <2>1
  <2>4. v2' \in Numbers!Servers /\ v2'.pc = "open" /\ v2'.req = v4[1] /\ v2'.seqNum = v2.seqNum /\ v2'.given = v2.given
    BY <1>0, <2>1, <2>2 DEF Numbers!Servers
  <2>5. Numbers!TypeOK'
    BY <1>0, <2>2, <2>4 DEF Numbers!IInv, Numbers!TypeOK
  <2>6. Numbers!ReadersServed'
    BY <1>0, <1>1, <2>1 DEF Numbers!ReadersServed
  <2>7. Numbers!QueueOwned'
    <3> SUFFICES ASSUME NEW i \in 1..(n - 1), Numbers!Clean(v4[i].pid)'
                 PROVE  /\ \E c \in NumClients : Numbers!Owns(c, v4[i])' /\ Numbers!Waiting(c)'
                        /\ \A j \in 1..(n - 1) : v4'[j].pid = v4'[i].pid => j = i
                        /\ v2'.req.pid # v4'[i].pid
      BY <2>2 DEF Numbers!QueueOwned
    <3>n. n \in Nat /\ n >= 1
      BY <1>0, <2>2
    <3>a. i + 1 \in 1..n /\ 1 \in 1..n /\ i + 1 # 1
      BY <3>n
    <3>b. v4'[i] = v4[i + 1]
      BY <2>3
    <3>1. i + 1 \in 1..n /\ v4'[i] = v4[i + 1] /\ Numbers!Clean(v4[i + 1].pid) /\ 1 \in 1..n /\ i + 1 # 1
      BY <1>2, <3>a, <3>b
    <3>2. /\ \E c \in NumClients : Numbers!Owns(c, v4[i + 1]) /\ Numbers!Waiting(c)
          /\ \A j \in 1..n : v4[j].pid = v4[i + 1].pid => j = i + 1
      BY <1>1, <3>1 DEF Numbers!QueueOwned
    <3>3. \E c \in NumClients : Numbers!Owns(c, v4[i])' /\ Numbers!Waiting(c)'
      BY <1>0, <1>3, <3>1, <3>2 DEF Numbers!Owns
    <3>4. ASSUME NEW j \in 1..(n - 1), v4'[j].pid = v4'[i].pid PROVE j = i
      <4>a. n \in Nat
        BY <1>0
      <4>b. j + 1 \in 1..n
        BY <4>a
      <4>1. j + 1 \in 1..n /\ v4'[j] = v4[j + 1]
        BY <2>3, <4>b, Zenon
      <4>2. j + 1 = i + 1
        BY <3>1, <3>2, <3>4, <4>1
      <4> QED
        BY <4>2
    <3> QED
      BY <2>4, <3>1, <3>2, <3>3, <3>4
  <2>8. Numbers!ServerOwned'
    <3>1. 1 \in 1..n
      BY <1>0, <2>2
    <3> SUFFICES ASSUME Numbers!Clean(v4[1].pid) PROVE \E c \in NumClients : Numbers!Owns(c, v2.req)' /\ Numbers!Waiting(c)'
      BY <1>2, <2>4 DEF Numbers!ServerOwned
    <3> QED
      BY <1>0, <1>1, <1>3, <2>4, <3>1, SMTT(20) DEF Numbers!QueueOwned, Numbers!Owns
  <2>9. Numbers!Awaited'
    <3> SUFFICES ASSUME NEW c \in NumClients, Numbers!Waiting(c), Numbers!Clean(v3[c].pid)
                 PROVE  (\E i \in 1..(n - 1) : v4'[i].pid = v3[c].pid) \/ v2'.req.pid = v3[c].pid
      BY <1>0, <1>2, <1>3, <2>2, <2>4 DEF Numbers!Awaited
    <3>1. PICK i \in 1..n : v4[i].pid = v3[c].pid
      BY <1>1, <2>1 DEF Numbers!Awaited
    <3>2. CASE i = 1
      BY <2>4, <3>1, <3>2
    <3>3. CASE i # 1
      <4>a. n \in Nat
        BY <1>0
      <4>1. i - 1 \in 1..(n - 1) /\ (i - 1) + 1 = i
        BY <3>3, <4>a
      <4>2. v4'[i - 1] = v4[i]
        BY <2>3, <4>1
      <4> QED
        BY <3>1, <4>1, <4>2
    <3> QED
      BY <3>2, <3>3
  <2> QED
    BY <1>4, <1>5, <1>6, <2>4, <2>5, <2>6, <2>7, <2>8, <2>9 DEF Numbers!IInv, Numbers!FifoInv
<1> QED
  BY <1>7, <1>8

\* The server opens the FIFO of a client.
LEMMA NumFifoOpen ==
  ASSUME Numbers!IInv, v1' = v1, v1 = "fifo", Numbers!FifoOpen
  PROVE  Numbers!IInv'
<1>0. /\ v2 \in Numbers!Servers /\ v3 \in [NumClients -> Numbers!ClientStates] /\ v4 \in Seq([pid : Numbers!Names, len : Nat])
      /\ v2.pc = "open" /\ v4' = v4 /\ v5' = v5
  BY DEF Numbers!IInv, Numbers!TypeOK, Numbers!FifoOpen
<1>1. /\ Numbers!OnePerId /\ Numbers!ReadersServed /\ Numbers!QueueOwned /\ Numbers!ServerOwned /\ Numbers!Awaited
      /\ Numbers!GivenOnce
  BY DEF Numbers!IInv, Numbers!FifoInv
<1>2. Numbers!StreamInv'
  BY DEF Numbers!StreamInv, Numbers!Stream
<1>3. CASE v2.req.pid \notin v5 /\ v2' = [v2 EXCEPT !.pc = "read"] /\ v3' = v3
  <2>1. v2' \in Numbers!Servers /\ v2'.pc = "read" /\ v2'.seqNum = v2.seqNum /\ v2'.given = v2.given
    BY <1>0, <1>3 DEF Numbers!Servers
  <2>2. Numbers!TypeOK'
    BY <1>0, <1>3, <2>1 DEF Numbers!IInv, Numbers!TypeOK
  <2>3. \A q : Numbers!Clean(q)' <=> Numbers!Clean(q)
    BY <1>3 DEF Numbers!Clean, Numbers!Killed
  <2>4. Numbers!GivenOnce'
    BY <1>1, <1>3, <2>1, <2>3 DEF Numbers!GivenOnce, Numbers!Given
  <2>5. Numbers!OnePerId' /\ Numbers!ReadersServed'
    BY <1>0, <1>1, <1>3, <2>1 DEF Numbers!OnePerId, Numbers!ReadersServed, Numbers!Live
  <2>6. Numbers!QueueOwned'
    BY <1>0, <1>1, <1>3, <2>1, <2>3 DEF Numbers!QueueOwned, Numbers!Owns, Numbers!Waiting
  <2>7. Numbers!ServerOwned'
    BY <2>1 DEF Numbers!ServerOwned
  <2>8. \A c \in NumClients : Numbers!Waiting(c) => v3[c].pid # v2.req.pid
    BY <1>1, <1>3 DEF Numbers!OnePerId, Numbers!Live, Numbers!Waiting
  <2>9. Numbers!Awaited'
    BY <1>0, <1>1, <1>3, <2>3, <2>8 DEF Numbers!Awaited, Numbers!Waiting
  <2> QED
    BY <1>2, <2>1, <2>2, <2>4, <2>5, <2>6, <2>7, <2>9 DEF Numbers!IInv, Numbers!FifoInv
<1>4. ASSUME NEW c \in NumClients, v3[c].pc = "opening", v3[c].pid = v2.req.pid,
             v2' = [v2 EXCEPT !.pc = "write"], Numbers!Go(c, "reading")
      PROVE  Numbers!IInv'
  <2> DEFINE x == [v3[c] EXCEPT !.pc = "reading"]
  <2>1. v2' \in Numbers!Servers /\ v2'.pc = "write" /\ v2'.seqNum = v2.seqNum /\ v2'.given = v2.given /\ v2'.req = v2.req
    BY <1>0, <1>4 DEF Numbers!Servers
  <2>2. x \in Numbers!ClientStates /\ x.pc = "reading" /\ x.pid = v3[c].pid /\ x.len = v3[c].len
    BY <1>0 DEF Numbers!ClientStates
  <2>3. v3' = [v3 EXCEPT ![c] = x]
    BY <1>4 DEF Numbers!Go
  <2> HIDE DEF x
  <2>4. v3' \in [NumClients -> Numbers!ClientStates] /\ v3'[c] = x /\ \A d \in NumClients : d # c => v3'[d] = v3[d]
    BY <1>0, <2>2, <2>3
  <2>5. Numbers!TypeOK'
    BY <1>0, <2>1, <2>4 DEF Numbers!IInv, Numbers!TypeOK
  <2>6. \A q : Numbers!Clean(q)' <=> Numbers!Clean(q)
    BY <1>4, <2>2, <2>4 DEF Numbers!Clean, Numbers!Killed
  <2>7. Numbers!GivenOnce'
    BY <1>1, <1>4, <2>1, <2>2, <2>4, NumGiven DEF Numbers!Given
  <2>8. /\ Numbers!Live(c) /\ Numbers!Waiting(c) /\ ~Numbers!Waiting(c)'
        /\ \A d \in NumClients : d # c => (Numbers!Waiting(d)' <=> Numbers!Waiting(d))
        /\ \A d \in NumClients : v3'[d].pid = v3[d].pid /\ v3'[d].len = v3[d].len /\ (Numbers!Live(d)' <=> Numbers!Live(d))
        /\ \A d \in NumClients : Numbers!Waiting(d) => Numbers!Live(d)
    BY <1>4, <2>2, <2>4 DEF Numbers!Waiting, Numbers!Live
  <2>9. \A d \in NumClients : d # c /\ Numbers!Waiting(d) => v3[d].pid # v2.req.pid
    BY <1>1, <1>4, <2>8 DEF Numbers!OnePerId
  <2>10. Numbers!OnePerId'
    BY <1>0, <1>1, <2>8 DEF Numbers!OnePerId
  <2>11. Numbers!ReadersServed'
    BY <1>0, <1>1, <1>4, <2>1, <2>2, <2>4 DEF Numbers!ReadersServed
  <2>12. Numbers!QueueOwned'
    BY <1>0, <1>1, <1>4, <2>1, <2>6, <2>8, <2>9 DEF Numbers!QueueOwned, Numbers!Owns
  <2>13. Numbers!ServerOwned'
    BY <1>0, <1>1, <1>4, <2>1, <2>2, <2>4, <2>6, <2>8, <2>9 DEF Numbers!ServerOwned, Numbers!Owns
  <2>14. Numbers!Awaited'
    BY <1>0, <1>1, <2>6, <2>8, <2>9 DEF Numbers!Awaited
  <2> QED
    BY <1>2, <2>1, <2>5, <2>7, <2>10, <2>11, <2>12, <2>13, <2>14 DEF Numbers!IInv, Numbers!FifoInv
<1> QED
  BY <1>3, <1>4 DEF Numbers!FifoOpen

\* The next number, as a remainder, and how many have been given.
LEMMA NumWraps ==
  ASSUME v2 \in Numbers!Servers, Numbers!GivenOnce
  PROVE  /\ v2.seqNum \in Nat /\ v2.given \in Nat /\ v2.req.len \in Nat /\ v2.seqNum = v2.given % NumModulus
         /\ (v2.seqNum + v2.req.len) % NumModulus = (v2.given + v2.req.len) % NumModulus
         /\ (v2.seqNum + v2.req.len) % NumModulus \in Nat
<1> DEFINE g == v2.given  k == v2.req.len  n == v2.seqNum
<1>1. g \in Nat /\ k \in Nat /\ n \in Nat /\ n = g % NumModulus
  BY DEF Numbers!Servers, Numbers!GivenOnce
<1> HIDE DEF g, k, n
<1>2. (n + k) % NumModulus = (g + k) % NumModulus
  BY <1>1, ModAdd, NumBounds
<1>3. (n + k) % NumModulus \in Nat
  <2>1. n + k \in Nat /\ NumModulus \in Nat /\ NumModulus > 0
    BY <1>1, NumBounds
  <2> QED
    BY <2>1
<1> QED
  BY <1>1, <1>2, <1>3 DEF g, k, n

\* The server answers a client.
LEMMA NumFifoWrite ==
  ASSUME Numbers!IInv, v1' = v1, v1 = "fifo", Numbers!FifoWrite
  PROVE  Numbers!IInv'
<1> DEFINE readers == {c \in NumClients : v3[c].pc = "reading" /\ v3[c].pid = v2.req.pid}
           more == v2.given + v2.req.len  next == (v2.seqNum + v2.req.len) % NumModulus
<1>0. /\ v2 \in Numbers!Servers /\ v3 \in [NumClients -> Numbers!ClientStates] /\ v4 \in Seq([pid : Numbers!Names, len : Nat])
      /\ v2.pc = "write" /\ v4' = v4 /\ v5' = v5 /\ v2.given \in Nat /\ v2.req.len \in Nat
  BY DEF Numbers!IInv, Numbers!TypeOK, Numbers!FifoWrite, Numbers!Servers
<1>1. /\ Numbers!OnePerId /\ Numbers!ReadersServed /\ Numbers!QueueOwned /\ Numbers!ServerOwned /\ Numbers!Awaited
      /\ Numbers!GivenOnce
  BY DEF Numbers!IInv, Numbers!FifoInv
<1>2. Numbers!StreamInv'
  BY DEF Numbers!StreamInv, Numbers!Stream
<1>3. /\ more \in Nat /\ v2.given <= more /\ v2.seqNum \in Nat /\ v2.seqNum = v2.given % NumModulus
      /\ next \in Nat /\ next = more % NumModulus
  BY <1>0, <1>1, NumWraps
<1>4. /\ v2' = [v2 EXCEPT !.pc = "read", !.seqNum = next, !.given = more]
      /\ v3' = [c \in NumClients |-> IF c \in readers THEN [v3[c] EXCEPT !.pc = "answered", !.got = v2.seqNum, !.at = v2.given] ELSE v3[c]]
  BY DEF Numbers!FifoWrite, Numbers!Answer
<1>5. v2' \in Numbers!Servers /\ v2'.pc = "read" /\ v2'.given = more /\ v2'.seqNum = next
  <2> HIDE DEF more, next
  <2> QED
    BY <1>0, <1>3, <1>4 DEF Numbers!Servers
<1>6. \A c \in NumClients : c \notin readers => v3'[c] = v3[c]
  BY <1>4
<1>7. ASSUME NEW c \in readers
      PROVE  /\ v3'[c] \in Numbers!ClientStates /\ v3'[c].pc = "answered" /\ v3'[c].at = v2.given
             /\ v3'[c].pid = v3[c].pid /\ v3'[c].len = v3[c].len /\ v3'[c].got = v2.seqNum
  <2>1. v3[c] \in Numbers!ClientStates /\ v3'[c] = [v3[c] EXCEPT !.pc = "answered", !.got = v2.seqNum, !.at = v2.given]
    BY <1>0, <1>4
  <2> QED
    BY <1>0, <1>3, <2>1 DEF Numbers!ClientStates
<1>8. \A c \in NumClients : v3[c].pc = "reading" => c \in readers
  BY <1>1 DEF Numbers!ReadersServed
<1>9. \A c \in readers : v3[c].pc = "reading" /\ v3[c].pid = v2.req.pid /\ c \in NumClients
  OBVIOUS
<1> HIDE DEF readers, more, next
<1>10. v3' \in [NumClients -> Numbers!ClientStates]
  BY <1>0, <1>4, <1>6, <1>7
<1>11. Numbers!TypeOK'
  BY <1>0, <1>5, <1>10 DEF Numbers!IInv, Numbers!TypeOK
<1>12. \A q : Numbers!Clean(q)' <=> Numbers!Clean(q)
  BY <1>6, <1>7, <1>9 DEF Numbers!Clean, Numbers!Killed
<1>13. \A d \in NumClients : /\ v3'[d].pid = v3[d].pid /\ v3'[d].len = v3[d].len /\ v3'[d].pc # "reading"
                             /\ (Numbers!Live(d)' <=> Numbers!Live(d)) /\ (Numbers!Waiting(d)' <=> Numbers!Waiting(d))
  BY <1>6, <1>7, <1>8, <1>9 DEF Numbers!Live, Numbers!Waiting
<1>14. Numbers!FifoInv'
  <2>1. Numbers!OnePerId' /\ Numbers!ReadersServed'
    BY <1>0, <1>1, <1>13 DEF Numbers!OnePerId, Numbers!ReadersServed
  <2>2. Numbers!QueueOwned'
    BY <1>0, <1>1, <1>5, <1>12, <1>13 DEF Numbers!QueueOwned, Numbers!Owns
  <2>3. Numbers!ServerOwned'
    BY <1>5 DEF Numbers!ServerOwned
  <2>4. Numbers!Awaited'
    BY <1>0, <1>1, <1>12, <1>13 DEF Numbers!Awaited
  <2> QED
    BY <1>5, <2>1, <2>2, <2>3, <2>4 DEF Numbers!FifoInv
<1>15. ASSUME NEW c \in readers, Numbers!Given(c)'
       PROVE  /\ v3'[c].at = v2.given /\ v3'[c].at + v3'[c].len = more /\ v3'[c].got = v3'[c].at % NumModulus
              /\ \A d \in readers : d = c
  <2>1. Numbers!Clean(v2.req.pid)
    BY <1>7, <1>9, <1>12, <1>15 DEF Numbers!Given
  <2>2. PICK d \in NumClients : Numbers!Owns(d, v2.req) /\ v3[d].pc = "reading"
    BY <1>0, <1>1, <2>1 DEF Numbers!ServerOwned
  <2>3. \A e \in readers : e = d
    BY <1>1, <1>9, <2>2 DEF Numbers!OnePerId, Numbers!Live, Numbers!Owns
  <2>4. c = d
    BY <2>3
  <2> QED
    BY <1>3, <1>7, <2>2, <2>3, <2>4 DEF Numbers!Owns, more
<1>16. ASSUME NEW c \in NumClients, c \notin readers, Numbers!Given(c)'
       PROVE  /\ Numbers!Given(c) /\ v3'[c] = v3[c] /\ v3'[c].at + v3'[c].len <= v2.given
              /\ v3'[c].at + v3'[c].len \in Nat /\ v3'[c].got = v3'[c].at % NumModulus
  <2>1. Numbers!Given(c) /\ v3'[c] = v3[c]
    BY <1>6, <1>12, <1>16 DEF Numbers!Given
  <2>2. v3[c].at \in Nat /\ v3[c].len \in Nat
    BY <1>0, <2>1 DEF Numbers!Given, Numbers!ClientStates
  <2> QED
    BY <1>1, <2>1, <2>2 DEF Numbers!GivenOnce
<1>17. Numbers!GivenOnce'
  <2>1. ASSUME NEW c \in NumClients, Numbers!Given(c)'
        PROVE  v3'[c].at + v3'[c].len <= v2'.given /\ v3'[c].got = v3'[c].at % NumModulus
    <3>1. CASE c \in readers
      BY <1>3, <1>5, <1>15, <2>1, <3>1
    <3>2. CASE c \notin readers
      BY <1>0, <1>3, <1>5, <1>16, <2>1, <3>2
    <3> QED
      BY <3>1, <3>2
  <2>2. ASSUME NEW c \in NumClients, NEW d \in NumClients, c # d, Numbers!Given(c)', Numbers!Given(d)'
        PROVE  v3'[c].at + v3'[c].len <= v3'[d].at \/ v3'[d].at + v3'[d].len <= v3'[c].at
    <3>1. CASE c \in readers
      BY <1>15, <1>16, <2>2, <3>1
    <3>2. CASE d \in readers
      BY <1>15, <1>16, <2>2, <3>2
    <3>3. CASE c \notin readers /\ d \notin readers
      BY <1>1, <1>16, <2>2, <3>3 DEF Numbers!GivenOnce
    <3> QED
      BY <3>1, <3>2, <3>3
  <2>3. v2'.seqNum = v2'.given % NumModulus
    BY <1>3, <1>5
  <2> QED
    BY <2>1, <2>2, <2>3 DEF Numbers!GivenOnce
<1> QED
  BY <1>2, <1>11, <1>14, <1>17 DEF Numbers!IInv

\* A client with a connection moves; the server stays, or has done with it.
LEMMA NumStreamMove ==
  ASSUME Numbers!IInv, v1' = v1, v1 # "fifo", v4' = v4, NEW c \in NumClients, NEW x \in Numbers!ClientStates,
         v3' = [v3 EXCEPT ![c] = x], x.len = v3[c].len, x.pc # "new", v3[c].pc # "killed",
         v2' \in Numbers!Servers, v2'.seqNum = v2.seqNum /\ v2'.given = v2.given, v2' = v2 \/ v2'.pc = "read",
         (x.pc \notin {"answered", "done"} \/ x.got = Numbers!None) \/ (v3[c].pc = "answered" /\ x.got = v3[c].got /\ x.at = v3[c].at /\ x.pid = v3[c].pid)
  PROVE  Numbers!IInv'
<1>0. v3 \in [NumClients -> Numbers!ClientStates] /\ v4 \in Seq(NumClients) /\ Numbers!StreamInv /\ Numbers!Stream /\ Numbers!GivenOnce
  BY DEF Numbers!IInv, Numbers!TypeOK, Numbers!Stream
<1>1. v3' \in [NumClients -> Numbers!ClientStates] /\ v3'[c] = x /\ \A d \in NumClients : d # c => v3'[d] = v3[d]
  BY <1>0
<1>2. Numbers!TypeOK'
  BY <1>0, <1>1 DEF Numbers!IInv, Numbers!TypeOK
<1>3. Numbers!FifoInv'
  BY DEF Numbers!FifoInv
<1>4. Numbers!GivenOnce'
  BY <1>0, <1>1, NumGiven DEF Numbers!Given
<1>5. \A d \in NumClients : v3'[d].len = v3[d].len /\ (v3[d].pc # "new" => v3'[d].pc # "new")
  BY <1>1
<1>6. \A i \in 1..Len(v4) : v4[i] \in NumClients
  BY <1>0
<1>7. Numbers!StreamInv'
  BY <1>0, <1>5, <1>6 DEF Numbers!StreamInv
<1> QED
  BY <1>2, <1>3, <1>4, <1>7 DEF Numbers!IInv

LEMMA NumStreamClient ==
  ASSUME Numbers!IInv, v1' = v1, v1 # "fifo", NEW c \in NumClients,
         Numbers!StreamConnect(c) \/ Numbers!StreamSend(c) \/ Numbers!StreamDone(c) \/ Numbers!Kill(c)
  PROVE  Numbers!IInv'
<1>0. /\ v2 \in Numbers!Servers /\ v3 \in [NumClients -> Numbers!ClientStates] /\ v4 \in Seq(NumClients) /\ v2' = v2
      /\ Numbers!StreamInv /\ Numbers!Stream /\ Numbers!GivenOnce
  BY DEF Numbers!IInv, Numbers!TypeOK, Numbers!Stream, Numbers!StreamConnect, Numbers!StreamSend, Numbers!StreamDone, Numbers!Kill
<1>1. v3[c] \in Numbers!ClientStates
  BY <1>0
<1>2. CASE Numbers!StreamConnect(c)
  <2>1. PICK n \in NumLens :
          /\ v3[c].pc = "new" /\ v4' = Append(v4, c)
          /\ v3' = [v3 EXCEPT ![c] = [pc |-> "length", pid |-> c, len |-> n, got |-> Numbers!None, at |-> 0]]
    BY <1>2 DEF Numbers!StreamConnect
  <2> DEFINE x == [pc |-> "length", pid |-> c, len |-> n, got |-> Numbers!None, at |-> 0]
  <2>2. x \in Numbers!ClientStates /\ x.pc = "length"
    BY NumBounds DEF Numbers!ClientStates, Numbers!Names
  <2> HIDE DEF x
  <2>3. v3' \in [NumClients -> Numbers!ClientStates] /\ v3'[c] = x /\ \A d \in NumClients : d # c => v3'[d] = v3[d]
    BY <1>0, <2>1, <2>2 DEF x
  <2>4. v4' \in Seq(NumClients) /\ Len(v4') = Len(v4) + 1 /\ v4'[Len(v4) + 1] = c /\ \A i \in 1..Len(v4) : v4'[i] = v4[i]
    BY <1>0, <2>1
  <2>5. Numbers!TypeOK'
    BY <1>0, <2>3, <2>4 DEF Numbers!IInv, Numbers!TypeOK
  <2>6. Numbers!FifoInv'
    BY DEF Numbers!FifoInv
  <2>7. Numbers!GivenOnce'
    BY <1>0, <2>1, <2>2, <2>3, NumGiven DEF Numbers!Given
  <2>8. \A d \in NumClients : v3[d].pc # "new" => v3'[d] = v3[d]
    BY <2>1, <2>3
  <2>9. ASSUME NEW i \in 1..Len(v4') PROVE v3'[v4'[i]].pc # "new"
    <3>1. CASE i \in 1..Len(v4)
      <4>1. v4'[i] = v4[i] /\ v4[i] \in NumClients /\ v3[v4[i]].pc # "new"
        BY <1>0, <2>4, <3>1 DEF Numbers!StreamInv
      <4> QED
        BY <2>8, <4>1
    <3>2. CASE i = Len(v4) + 1
      BY <2>2, <2>3, <2>4, <3>2
    <3>3. Len(v4) \in Nat
      BY <1>0
    <3> QED
      BY <2>4, <3>1, <3>2, <3>3
  <2>10. Numbers!StreamInv'
    BY <1>0, <2>8, <2>9 DEF Numbers!StreamInv
  <2> QED
    BY <2>5, <2>6, <2>7, <2>10 DEF Numbers!IInv
<1>3. ASSUME NEW to \in {"newline", "reading"}, v3[c].pc \in {"length", "newline"}, Numbers!Go(c, to), v4' = v4
      PROVE  Numbers!IInv'
  <2> DEFINE x == [v3[c] EXCEPT !.pc = to]
  <2>1. x \in Numbers!ClientStates /\ x.pc = to /\ x.len = v3[c].len /\ v3' = [v3 EXCEPT ![c] = x]
    BY <1>1, <1>3 DEF Numbers!ClientStates, Numbers!Go
  <2> HIDE DEF x
  <2> QED
    BY <1>0, <1>3, <2>1, NumStreamMove
<1>4. CASE Numbers!StreamSend(c)
  BY <1>3, <1>4 DEF Numbers!StreamSend
<1>5. CASE Numbers!StreamDone(c)
  <2> DEFINE x == [v3[c] EXCEPT !.pc = "done", !.got = v3[c].got]
  <2>1. /\ x \in Numbers!ClientStates /\ x.pc = "done" /\ x.len = v3[c].len /\ x.got = v3[c].got /\ x.at = v3[c].at /\ x.pid = v3[c].pid
        /\ v3[c].pc = "answered" /\ v3' = [v3 EXCEPT ![c] = x] /\ v4' = v4
    BY <1>1, <1>5 DEF Numbers!ClientStates, Numbers!StreamDone, Numbers!Ends
  <2> HIDE DEF x
  <2> QED
    BY <1>0, <2>1, NumStreamMove
<1>6. CASE Numbers!Kill(c)
  <2> DEFINE g == IF v3[c].pc \in {"length", "send"} THEN 0 ELSE Numbers!None
             x == [v3[c] EXCEPT !.pc = "killed", !.got = g]
  <2>1. x \in Numbers!ClientStates /\ x.pc = "killed" /\ x.len = v3[c].len
    BY <1>1 DEF Numbers!ClientStates
  <2>2. v3[c].pc # "killed" /\ v3' = [v3 EXCEPT ![c] = x] /\ v4' = v4
    BY <1>6 DEF Numbers!Kill, Numbers!Live
  <2> HIDE DEF x
  <2> QED
    BY <1>0, <2>1, <2>2, NumStreamMove
<1> QED
  BY <1>2, <1>4, <1>5, <1>6

LEMMA NumStreamServer ==
  ASSUME Numbers!IInv, v1' = v1, v1 # "fifo", Numbers!StreamListen \/ Numbers!StreamAccept \/ Numbers!StreamLine
  PROVE  Numbers!IInv'
<1>0. /\ v2 \in Numbers!Servers /\ v3 \in [NumClients -> Numbers!ClientStates] /\ v4 \in Seq(NumClients)
      /\ Numbers!StreamInv /\ Numbers!Stream /\ Numbers!GivenOnce
  BY DEF Numbers!IInv, Numbers!TypeOK, Numbers!Stream
<1>1. ASSUME v3' = v3, v2' \in Numbers!Servers, v2'.seqNum = v2.seqNum /\ v2'.given = v2.given, v4' \in Seq(NumClients),
             \A i \in 1..Len(v4') : v3[v4'[i]].pc # "new", v2'.pc # "open",
             v2'.pc \in {"line", "write"} => v2'.req.pid \in NumClients /\ v3[v2'.req.pid].pc # "new" /\ v3[v2'.req.pid].len = v2'.req.len
      PROVE  Numbers!IInv'
  <2>1. Numbers!TypeOK'
    BY <1>0, <1>1 DEF Numbers!IInv, Numbers!TypeOK
  <2>2. Numbers!FifoInv'
    BY DEF Numbers!FifoInv
  <2>3. Numbers!StreamInv'
    BY <1>1 DEF Numbers!StreamInv
  <2>4. Numbers!GivenOnce'
    BY <1>0, <1>1 DEF Numbers!GivenOnce, Numbers!Given
  <2> QED
    BY <2>1, <2>2, <2>3, <2>4 DEF Numbers!IInv
<1>2. CASE Numbers!StreamListen
  <2>1. v2' \in Numbers!Servers /\ v2'.pc = "read" /\ v2'.seqNum = v2.seqNum /\ v2'.given = v2.given /\ v3' = v3 /\ v4' = v4
    BY <1>0, <1>2 DEF Numbers!StreamListen, Numbers!Servers
  <2> QED
    BY <1>0, <1>1, <2>1 DEF Numbers!StreamInv
<1>3. CASE Numbers!StreamAccept
  <2> DEFINE r == [pid |-> Head(v4), len |-> v3[Head(v4)].len]
  <2>1. v4 # <<>> /\ v4' = Tail(v4) /\ v3' = v3 /\ v2' = [v2 EXCEPT !.pc = "line", !.req = r]
    BY <1>3 DEF Numbers!StreamAccept
  <2>2. Head(v4) \in NumClients /\ v4' \in Seq(NumClients) /\ Len(v4') = Len(v4) - 1 /\ \A i \in 1..Len(v4') : v4'[i] = v4[i + 1]
    BY <1>0, <2>1, HeadTailProperties, Zenon
  <2>3. Head(v4) = v4[1] /\ Len(v4) \in Nat /\ Len(v4) >= 1
    BY <1>0, <2>1
  <2>4. r \in [pid : Numbers!Names, len : Nat] /\ r.pid = v4[1] /\ r.len = v3[v4[1]].len
    BY <1>0, <2>2, <2>3 DEF Numbers!Names, Numbers!ClientStates
  <2> HIDE DEF r
  <2>5. v2' \in Numbers!Servers /\ v2'.pc = "line" /\ v2'.seqNum = v2.seqNum /\ v2'.given = v2.given /\ v2'.req = r
    BY <1>0, <2>1, <2>4 DEF Numbers!Servers
  <2>6. 1 \in 1..Len(v4) /\ \A i \in 1..Len(v4') : i + 1 \in 1..Len(v4)
    BY <2>2, <2>3
  <2>7. (\A i \in 1..Len(v4') : v3[v4'[i]].pc # "new") /\ v3[v4[1]].pc # "new"
    BY <1>0, <2>2, <2>6 DEF Numbers!StreamInv
  <2> QED
    BY <1>1, <2>1, <2>2, <2>3, <2>4, <2>5, <2>7
<1>4. CASE Numbers!StreamLine
  <2> DEFINE c == v2.req.pid
  <2>1. v2.pc = "line" /\ v4' = v4 /\ c \in NumClients /\ v3[c].pc # "new" /\ v3[c].len = v2.req.len
    BY <1>0, <1>4 DEF Numbers!StreamLine, Numbers!StreamInv
  <2>2. ASSUME NEW to \in {"read", "write"}, v2' = [v2 EXCEPT !.pc = to]
        PROVE  v2' \in Numbers!Servers /\ v2'.pc = to /\ v2'.seqNum = v2.seqNum /\ v2'.given = v2.given /\ v2'.req = v2.req
    BY <1>0, <2>2 DEF Numbers!Servers
  <2>3. ASSUME NEW to \in {"read", "write"}, v2' = [v2 EXCEPT !.pc = to], v3' = v3 PROVE Numbers!IInv'
    BY <1>0, <1>1, <2>1, <2>2, <2>3 DEF Numbers!StreamInv
  <2>4. ASSUME v2' = [v2 EXCEPT !.pc = "read"], Numbers!Ends(c, Numbers!None), v3[c].pc = "reading" PROVE Numbers!IInv'
    <3> DEFINE x == [v3[c] EXCEPT !.pc = "done", !.got = Numbers!None]
    <3>1. v3' = [v3 EXCEPT ![c] = x]
      BY <2>4 DEF Numbers!Ends
    <3>2. v3[c] \in Numbers!ClientStates
      BY <1>0, <2>1
    <3>3. x \in Numbers!ClientStates /\ x.pc = "done" /\ x.len = v3[c].len /\ x.got = Numbers!None
      BY <3>2 DEF Numbers!ClientStates
    <3>4. v2' \in Numbers!Servers /\ v2'.pc = "read" /\ v2'.seqNum = v2.seqNum /\ v2'.given = v2.given
      BY <2>2, <2>4
    <3> HIDE DEF x, c
    <3> QED
      BY <2>1, <2>4, <3>1, <3>3, <3>4, NumStreamMove
  <2> QED
    BY <1>4, <2>3, <2>4 DEF Numbers!StreamLine
<1> QED
  BY <1>2, <1>3, <1>4

LEMMA NumStreamWrite ==
  ASSUME Numbers!IInv, v1' = v1, v1 # "fifo", Numbers!StreamWrite
  PROVE  Numbers!IInv'
<1> DEFINE c == v2.req.pid  more == v2.given + v2.req.len  next == (v2.seqNum + v2.req.len) % NumModulus
           x == IF v3[c].pc = "reading" THEN [v3[c] EXCEPT !.pc = "answered", !.got = v2.seqNum, !.at = v2.given] ELSE v3[c]
<1>0. /\ v2 \in Numbers!Servers /\ v3 \in [NumClients -> Numbers!ClientStates] /\ v4 \in Seq(NumClients)
      /\ Numbers!StreamInv /\ Numbers!Stream /\ Numbers!GivenOnce /\ v2.pc = "write" /\ v4' = v4 /\ v2.given \in Nat /\ v2.req.len \in Nat
  BY DEF Numbers!IInv, Numbers!TypeOK, Numbers!Stream, Numbers!StreamWrite, Numbers!Servers
<1>1. c \in NumClients /\ v3[c].pc # "new" /\ v3[c].len = v2.req.len /\ v3[c] \in Numbers!ClientStates
  BY <1>0 DEF Numbers!StreamInv
<1>2. /\ more \in Nat /\ v2.given <= more /\ v2.seqNum \in Nat /\ v2.seqNum = v2.given % NumModulus
      /\ next \in Nat /\ next = more % NumModulus
  BY <1>0, NumWraps
<1>3. v2' = [v2 EXCEPT !.pc = "read", !.seqNum = next, !.given = more]
  BY DEF Numbers!StreamWrite, Numbers!Answer
<1>4. v2' \in Numbers!Servers /\ v2'.pc = "read" /\ v2'.given = more /\ v2'.seqNum = next
  <2> HIDE DEF more, next
  <2> QED
    BY <1>0, <1>2, <1>3 DEF Numbers!Servers
<1>5. v3' = [d \in NumClients |-> IF d = c THEN x ELSE v3[d]]
  BY DEF Numbers!StreamWrite, Numbers!Answer
<1>6. /\ x \in Numbers!ClientStates /\ x.len = v2.req.len /\ x.pc # "new"
      /\ x = v3[c] \/ (x.pc = "answered" /\ x.got = v2.seqNum /\ x.at = v2.given)
  BY <1>0, <1>1, <1>2 DEF Numbers!ClientStates
<1> HIDE DEF x, c, next
<1>7. v3' \in [NumClients -> Numbers!ClientStates] /\ v3'[c] = x /\ \A d \in NumClients : d # c => v3'[d] = v3[d]
  BY <1>0, <1>1, <1>5, <1>6
<1>8. Numbers!TypeOK' /\ Numbers!FifoInv'
  BY <1>0, <1>4, <1>7 DEF Numbers!IInv, Numbers!TypeOK, Numbers!FifoInv
<1>9. \A d \in NumClients : v3'[d].pc = "new" => v3[d].pc = "new"
  BY <1>6, <1>7
<1>10. Numbers!StreamInv'
  <2>1. \A i \in 1..Len(v4) : v4[i] \in NumClients
    BY <1>0
  <2> QED
    BY <1>0, <1>4, <1>9, <2>1 DEF Numbers!StreamInv
<1>11. ASSUME NEW d \in NumClients, Numbers!Given(d)', v3'[d] = v3[d]
       PROVE  /\ Numbers!Given(d) /\ v3[d].at + v3[d].len <= v2.given
              /\ v3[d].at + v3[d].len \in Nat /\ v3[d].got = v3[d].at % NumModulus
  <2>1. Numbers!Given(d)
    BY <1>11 DEF Numbers!Given
  <2>2. v3[d].at \in Nat /\ v3[d].len \in Nat
    BY <1>0, <2>1 DEF Numbers!Given, Numbers!ClientStates
  <2> QED
    BY <1>0, <2>1, <2>2 DEF Numbers!GivenOnce
<1>12. x # v3[c] => v3'[c].at = v2.given /\ v3'[c].at + v3'[c].len = more /\ v3'[c].got = v3'[c].at % NumModulus
  BY <1>2, <1>6, <1>7
<1> HIDE DEF more
<1>13. Numbers!GivenOnce'
  <2>1. ASSUME NEW d \in NumClients, Numbers!Given(d)'
        PROVE  v3'[d].at + v3'[d].len <= v2'.given /\ v3'[d].got = v3'[d].at % NumModulus
    <3>1. CASE v3'[d] = v3[d]
      BY <1>0, <1>2, <1>4, <1>11, <2>1, <3>1
    <3>2. CASE v3'[d] # v3[d]
      BY <1>2, <1>4, <1>7, <1>12, <3>2
    <3> QED
      BY <3>1, <3>2
  <2>2. ASSUME NEW d \in NumClients, NEW e \in NumClients, d # e, Numbers!Given(d)', Numbers!Given(e)'
        PROVE  v3'[d].at + v3'[d].len <= v3'[e].at \/ v3'[e].at + v3'[e].len <= v3'[d].at
    <3>1. CASE v3'[d] = v3[d] /\ v3'[e] = v3[e]
      BY <1>0, <1>11, <2>2, <3>1 DEF Numbers!GivenOnce
    <3>2. CASE v3'[d] # v3[d]
      BY <1>7, <1>11, <1>12, <2>2, <3>2
    <3>3. CASE v3'[e] # v3[e]
      BY <1>7, <1>11, <1>12, <2>2, <3>3
    <3> QED
      BY <3>1, <3>2, <3>3
  <2>3. v2'.seqNum = v2'.given % NumModulus
    BY <1>2, <1>4
  <2> QED
    BY <2>1, <2>2, <2>3 DEF Numbers!GivenOnce
<1> QED
  BY <1>8, <1>10, <1>13 DEF Numbers!IInv

LEMMA NumNext == Numbers!IInv /\ [Numbers!Next]_Numbers!vars => Numbers!IInv'
<1> SUFFICES ASSUME Numbers!IInv, [Numbers!Next]_Numbers!vars PROVE Numbers!IInv'
  OBVIOUS
<1>1. CASE UNCHANGED Numbers!vars
  <2>1. v1' = v1 /\ v2' = v2 /\ v3' = v3 /\ v4' = v4 /\ v5' = v5
    BY <1>1 DEF Numbers!vars
  <2>2. Numbers!TypeOK' /\ Numbers!StreamInv'
    BY <2>1 DEF Numbers!IInv, Numbers!TypeOK, Numbers!StreamInv, Numbers!Stream
  <2>3. Numbers!FifoInv' /\ Numbers!GivenOnce'
    BY <2>1 DEF Numbers!IInv, Numbers!FifoInv, Numbers!GivenOnce, Numbers!Given, Numbers!Clean, Numbers!Killed, Numbers!Live,
                Numbers!OnePerId, Numbers!ReadersServed, Numbers!QueueOwned, Numbers!ServerOwned, Numbers!Awaited, Numbers!Waiting, Numbers!Owns
  <2> QED
    BY <2>2, <2>3 DEF Numbers!IInv
<1>2. CASE Numbers!Next
  <2>1. v1' = v1 /\ v1 \in {"fifo", "stream", "stream_v2"}
    BY <1>2 DEF Numbers!Next, Numbers!IInv, Numbers!TypeOK
  <2>2. CASE v1 = "fifo"
    <3>1. CASE Numbers!fifo_seqnum_server
      BY <2>1, <2>2, <3>1, NumFifoServer, NumFifoOpen, NumFifoWrite DEF Numbers!fifo_seqnum_server
    <3>2. ASSUME NEW c \in NumClients, Numbers!fifo_seqnum_client(c) \/ Numbers!Kill(c) PROVE Numbers!IInv'
      BY <2>1, <2>2, <3>2, NumFifoClient, NumFifoSend DEF Numbers!fifo_seqnum_client
    <3> QED
      BY <1>2, <2>2, <3>1, <3>2 DEF Numbers!Next, Numbers!is_seqnum_sv, Numbers!is_seqnum_v2_sv, Numbers!is_seqnum_cl, Numbers!is_seqnum_v2_cl
  <2>3. CASE v1 # "fifo"
    <3>1. CASE Numbers!StreamListen \/ Numbers!StreamAccept \/ Numbers!StreamLine \/ Numbers!StreamWrite
      BY <2>1, <2>3, <3>1, NumStreamServer, NumStreamWrite
    <3>2. ASSUME NEW c \in NumClients, Numbers!StreamConnect(c) \/ Numbers!StreamSend(c) \/ Numbers!StreamDone(c) \/ Numbers!Kill(c)
          PROVE  Numbers!IInv'
      BY <2>1, <2>3, <3>2, NumStreamClient
    <3>3. ~Numbers!fifo_seqnum_server /\ \A c \in NumClients : ~Numbers!fifo_seqnum_client(c)
      BY <2>3 DEF Numbers!fifo_seqnum_server, Numbers!fifo_seqnum_client, Numbers!FifoServerStarts, Numbers!FifoRead, Numbers!FifoOpen,
                  Numbers!FifoWrite, Numbers!FifoCreate, Numbers!FifoSend, Numbers!FifoOpenForReading, Numbers!FifoDone
    <3> QED
      BY <1>2, <3>1, <3>2, <3>3 DEF Numbers!Next, Numbers!is_seqnum_sv, Numbers!is_seqnum_v2_sv, Numbers!is_seqnum_cl, Numbers!is_seqnum_v2_cl
  <2> QED
    BY <2>1, <2>2, <2>3
<1> QED
  BY <1>1, <1>2

LEMMA NumSafe == Numbers!IInv => Numbers!NumbersDisjoint /\ Numbers!AnswerToCome
<1> SUFFICES ASSUME Numbers!IInv PROVE Numbers!NumbersDisjoint /\ Numbers!AnswerToCome
  OBVIOUS
<1>1. Numbers!NumbersDisjoint
  <2> SUFFICES ASSUME NEW c \in NumClients, NEW d \in NumClients, c # d, v3[c].pc = "done", v3[d].pc = "done",
                      v3[c].got # Numbers!None, v3[d].got # Numbers!None, v3[c].at <= v3[d].at,
                      ~(v1 = "fifo" /\ \E k \in Numbers!Killed : v3[k].pid \in {v3[c].pid, v3[d].pid}),
                      NEW i \in 0..(v3[c].len - 1), NEW j \in 0..(v3[d].len - 1),
                      Numbers!Number(c, i) = Numbers!Number(d, j)
               PROVE  (v3[d].at + j) - (v3[c].at + i) >= NumModulus
    BY DEF Numbers!NumbersDisjoint
  <2> DEFINE a == v3[c].at  b == v3[d].at  k == v3[c].len  l == v3[d].len
  <2>1. Numbers!Given(c) /\ Numbers!Given(d) /\ Numbers!GivenOnce
    BY DEF Numbers!IInv, Numbers!Given, Numbers!Clean
  <2>2. a \in Nat /\ b \in Nat /\ k \in Nat /\ l \in Nat
    BY DEF Numbers!IInv, Numbers!TypeOK, Numbers!ClientStates
  <2>3. (a + k <= b \/ b + l <= a) /\ v3[c].got = a % NumModulus /\ v3[d].got = b % NumModulus
    BY <2>1 DEF Numbers!GivenOnce
  <2>4. ((a % NumModulus) + i) % NumModulus = ((b % NumModulus) + j) % NumModulus
    BY <2>3 DEF Numbers!Number
  <2>5. a <= b /\ i \in 0..(k - 1) /\ j \in 0..(l - 1)
    OBVIOUS
  <2> HIDE DEF a, b, k, l
  <2>6. i \in Nat /\ j \in Nat /\ a + i \in Nat /\ b + j \in Nat /\ a + i < b + j
    BY <2>2, <2>3, <2>5
  <2>7. (a + i) % NumModulus = (b + j) % NumModulus
    BY <2>2, <2>4, <2>6, ModAdd, NumBounds
  <2>8. (b + j) - (a + i) >= NumModulus
    BY <2>6, <2>7, ModApart, NumBounds
  <2> QED
    BY <2>8 DEF a, b
<1>2. DOMAIN v4 = 1..Len(v4)
  BY DEF Numbers!IInv, Numbers!TypeOK
<1>3. Numbers!AnswerToCome
  BY <1>2 DEF Numbers!IInv, Numbers!FifoInv, Numbers!Awaited, Numbers!Waiting, Numbers!Clean, Numbers!AnswerToCome
<1> QED
  BY <1>1, <1>3

-----------------------------------------------------------------------------
(* Threads.  What n threads have done in up to m turns each is a set of    *)
(* pairs of a thread and the number of a turn.                             *)

Pairs(W, m, f) == {x \in W \X (1..m) : x[2] <= f[x[1]]}

LEMMA PairsBound ==
  ASSUME NEW W, IsFiniteSet(W), NEW m \in Nat, NEW f
  PROVE  /\ IsFiniteSet(Pairs(W, m, f)) /\ Cardinality(Pairs(W, m, f)) \in Nat
         /\ Cardinality(W) \in Nat /\ Cardinality(Pairs(W, m, f)) <= m * Cardinality(W)
<1>1. IsFiniteSet(1..m) /\ Cardinality(1..m) = m
  BY FS_Interval
<1>2. IsFiniteSet(W \X (1..m)) /\ Cardinality(W \X (1..m)) = Cardinality(W) * m
  BY <1>1, FS_Product
<1>3. Pairs(W, m, f) \in SUBSET (W \X (1..m))
  BY DEF Pairs
<1>4. IsFiniteSet(Pairs(W, m, f)) /\ Cardinality(Pairs(W, m, f)) <= Cardinality(W \X (1..m))
  BY <1>2, <1>3, FS_Subset
<1>5. Cardinality(W) \in Nat /\ Cardinality(Pairs(W, m, f)) \in Nat
  BY <1>4, FS_CardinalityType
<1> QED
  BY <1>2, <1>4, <1>5

LEMMA PairsAll ==
  ASSUME NEW W, IsFiniteSet(W), NEW m \in Nat, NEW f, \A t \in W : f[t] = m
  PROVE  Cardinality(Pairs(W, m, f)) = m * Cardinality(W) /\ Cardinality(W) \in Nat
<1>1. IsFiniteSet(1..m) /\ Cardinality(1..m) = m
  BY FS_Interval
<1>2. IsFiniteSet(W \X (1..m)) /\ Cardinality(W \X (1..m)) = Cardinality(W) * m
  BY <1>1, FS_Product
<1>3. Pairs(W, m, f) = W \X (1..m)
  BY DEF Pairs
<1>4. Cardinality(W) \in Nat
  BY FS_CardinalityType
<1> QED
  BY <1>2, <1>3, <1>4

LEMMA PairsAdd ==
  ASSUME NEW W, IsFiniteSet(W), NEW m \in Nat, NEW f \in [W -> 0..m], NEW t \in W, f[t] < m,
         NEW g, \A u \in W : g[u] = IF u = t THEN f[u] + 1 ELSE f[u]
  PROVE  Cardinality(Pairs(W, m, g)) = Cardinality(Pairs(W, m, f)) + 1
<1> DEFINE n == f[t] + 1
<1>1. n \in 1..m /\ f[t] \in Nat
  OBVIOUS
<1>2. <<t, n>> \notin Pairs(W, m, f)
  BY <1>1 DEF Pairs
<1>3. Pairs(W, m, g) = Pairs(W, m, f) \cup {<<t, n>>}
  <2>1. ASSUME NEW x \in Pairs(W, m, g) PROVE x \in Pairs(W, m, f) \cup {<<t, n>>}
    <3>1. x \in W \X (1..m) /\ x[2] <= g[x[1]]
      BY <2>1 DEF Pairs
    <3>2. CASE x[1] = t /\ x[2] = n
      BY <3>1, <3>2
    <3>3. CASE x[1] # t \/ x[2] # n
      BY <3>1, <3>3, <1>1 DEF Pairs
    <3> QED
      BY <3>2, <3>3
  <2>2. ASSUME NEW x \in Pairs(W, m, f) PROVE x \in Pairs(W, m, g)
    BY <1>1 DEF Pairs
  <2>3. <<t, n>> \in Pairs(W, m, g)
    BY <1>1 DEF Pairs
  <2> QED
    BY <2>1, <2>2, <2>3
<1>4. IsFiniteSet(Pairs(W, m, f))
  BY PairsBound
<1> QED
  BY <1>2, <1>3, <1>4, FS_AddElement

LEMMA ThrCardinality == \A S : Thr!Cardinality(S) = Cardinality(S)
BY Zenon DEF Thr!Cardinality, Cardinality

\* How much was done is a number, the most there is when all are at their end.
LEMMA ThrDone ==
  ASSUME Thr!TypeOK
  PROVE  /\ Thr!Most \in Nat /\ Thr!Cardinality(Thr!DoneSoFar) \in Nat
         /\ Thr!Cardinality(ThrWorkers) \in Nat /\ Thr!Cardinality(ThrWorkers) >= 1
         /\ Thr!Cardinality(Thr!DoneSoFar) <= Thr!Most * Thr!Cardinality(ThrWorkers)
         /\ (\A t \in ThrWorkers : Thr!Turns[t] = Thr!Most) => Thr!Cardinality(Thr!DoneSoFar) = Thr!Most * Thr!Cardinality(ThrWorkers)
<1>1. Thr!Most \in Nat
  BY ThrBounds DEF Thr!Most
<1>2. Thr!DoneSoFar = Pairs(ThrWorkers, Thr!Most, Thr!Turns)
  BY DEF Thr!DoneSoFar, Pairs
<1>3. Cardinality(ThrWorkers) # 0 /\ Cardinality(ThrWorkers) \in Nat
  BY ThrBounds, FS_EmptySet, FS_CardinalityType
<1>4. /\ Cardinality(Thr!DoneSoFar) \in Nat
      /\ Cardinality(Thr!DoneSoFar) <= Thr!Most * Cardinality(ThrWorkers)
  BY <1>1, <1>2, ThrBounds, PairsBound
<1>5. ASSUME \A t \in ThrWorkers : Thr!Turns[t] = Thr!Most
      PROVE  Cardinality(Thr!DoneSoFar) = Thr!Most * Cardinality(ThrWorkers)
  BY <1>1, <1>2, <1>5, ThrBounds, PairsAll
<1>6. Thr!Cardinality(ThrWorkers) = Cardinality(ThrWorkers) /\ Thr!Cardinality(Thr!DoneSoFar) = Cardinality(Thr!DoneSoFar)
  BY ThrCardinality
<1>7. Cardinality(ThrWorkers) >= 1
  BY <1>3
<1> QED
  BY <1>1, <1>3, <1>4, <1>5, <1>6, <1>7

LEMMA ThrDoneSame ==
  ASSUME v1' = v1, \A u \in ThrWorkers : Thr!Turns'[u] = Thr!Turns[u]
  PROVE  Thr!DoneSoFar' = Thr!DoneSoFar /\ Thr!Most' = Thr!Most
<1>1. Thr!Most' = Thr!Most
  BY DEF Thr!Most
<1> QED
  BY <1>1 DEF Thr!DoneSoFar

LEMMA ThrDoneMore ==
  ASSUME Thr!TypeOK, v1' = v1, NEW t \in ThrWorkers, Thr!Turns \in [ThrWorkers -> 0..Thr!Most], Thr!Turns[t] < Thr!Most,
         \A u \in ThrWorkers : Thr!Turns'[u] = IF u = t THEN Thr!Turns[u] + 1 ELSE Thr!Turns[u]
  PROVE  Thr!Cardinality(Thr!DoneSoFar)' = Thr!Cardinality(Thr!DoneSoFar) + 1 /\ Thr!Most' = Thr!Most
<1>1. Thr!Most' = Thr!Most /\ Thr!Most \in Nat
  BY ThrBounds DEF Thr!Most
<1>2. Thr!DoneSoFar = Pairs(ThrWorkers, Thr!Most, Thr!Turns) /\ Thr!DoneSoFar' = Pairs(ThrWorkers, Thr!Most, Thr!Turns')
  BY <1>1 DEF Thr!DoneSoFar, Pairs
<1>3. ASSUME NEW g, \A u \in ThrWorkers : g[u] = IF u = t THEN Thr!Turns[u] + 1 ELSE Thr!Turns[u]
      PROVE  Cardinality(Pairs(ThrWorkers, Thr!Most, g)) = Cardinality(Pairs(ThrWorkers, Thr!Most, Thr!Turns)) + 1
  <2> DEFINE f == Thr!Turns
             m == Thr!Most
  <2>1. IsFiniteSet(ThrWorkers) /\ m \in Nat /\ f \in [ThrWorkers -> 0..m] /\ f[t] < m
    BY <1>1, ThrBounds
  <2>2. \A u \in ThrWorkers : g[u] = IF u = t THEN f[u] + 1 ELSE f[u]
    BY <1>3
  <2> HIDE DEF f, m
  <2>3. Cardinality(Pairs(ThrWorkers, m, g)) = Cardinality(Pairs(ThrWorkers, m, f)) + 1
    BY <2>1, <2>2, PairsAdd
  <2> QED
    BY <2>3 DEF f, m
<1>4. Cardinality(Pairs(ThrWorkers, Thr!Most, Thr!Turns')) = Cardinality(Pairs(ThrWorkers, Thr!Most, Thr!Turns)) + 1
  BY <1>3
<1> QED
  BY <1>1, <1>2, <1>4, ThrCardinality

LEMMA ThrTypeInit == Thr!Init => Thr!TypeOK
<1> SUFFICES ASSUME Thr!Init PROVE Thr!TypeOK
  OBVIOUS
<1>1. v1 \in Thr!Kinds
  BY DEF Thr!Init, Thr!Kinds, Thr!Counting, Thr!Producing
<1>2. v3 \in [ThrWorkers -> Thr!ThreadStates]
  <2>1. [pc |-> "start", loc |-> 0, j |-> 0, k |-> 0] \in Thr!ThreadStates
    BY DEF Thr!ThreadStates, Thr!Labels
  <2> QED
    BY <2>1, Zenon DEF Thr!Init
<1>3. v4 \in [pc : Thr!MainLabels, n : Nat, done : BOOLEAN]
  <2>1. v4 = [pc |-> "start", n |-> 0, done |-> FALSE]
    BY DEF Thr!Init
  <2> QED
    BY <2>1 DEF Thr!MainLabels
<1>4. v5 \in [glob : Nat, avail : Nat, unjoined : Nat, state : [ThrWorkers -> {"ALIVE", "TERMINATED", "JOINED"}],
               called : BOOLEAN, inits : Nat, serial : Nat, cancel : BOOLEAN, flag : BOOLEAN,
               buf : BOOLEAN, str : [{"static", "main", "thread"} -> {"", "EINVAL", "EPERM"}]]
  <2>1. [t \in ThrWorkers |-> "ALIVE"] \in [ThrWorkers -> {"ALIVE", "TERMINATED", "JOINED"}]
    OBVIOUS
  <2>2. [b \in {"static", "main", "thread"} |-> ""] \in [{"static", "main", "thread"} -> {"", "EINVAL", "EPERM"}]
    OBVIOUS
  <2> QED
    BY <2>1, <2>2 DEF Thr!Init
<1> QED
  BY <1>1, <1>2, <1>3, <1>4 DEF Thr!TypeOK

\* Where a thread that counts is says how many of its turns are done.
LEMMA ThrTurnsBound ==
  ASSUME Thr!TypeOK, v1 \in Thr!Counting, Thr!CountInv
  PROVE  /\ Thr!Turns \in [ThrWorkers -> 0..Thr!Most]
         /\ \A t \in ThrWorkers : /\ Thr!At(t, "store") => Thr!Turns[t] < Thr!Most
                                  /\ Thr!At(t, "done") => Thr!Turns[t] = Thr!Most
<1>1. Thr!Most \in Nat /\ Thr!Most = IF v1 = "lock_speed" THEN 2 * ThrLoops ELSE ThrLoops
  BY ThrBounds DEF Thr!Most
<1>2. ASSUME NEW t \in ThrWorkers
      PROVE  /\ Thr!Turns[t] \in 0..Thr!Most
             /\ Thr!At(t, "store") => Thr!Turns[t] < Thr!Most
             /\ Thr!At(t, "done") => Thr!Turns[t] = Thr!Most
  <2>1. /\ v3[t] \in Thr!ThreadStates
        /\ \/ v3[t].pc \in {"start", "load", "store", "release"} /\ v3[t].j < ThrLoops
           \/ v3[t].pc = "done" /\ v3[t].j = ThrLoops /\ v3[t].k = 0
        /\ v3[t].k = 1 => v1 = "lock_speed"
    BY Zenon DEF Thr!TypeOK, Thr!CountInv, Thr!InRound
  <2>2. Thr!Turns[t] = (IF v1 = "lock_speed" THEN 2 * v3[t].j + v3[t].k ELSE v3[t].j)
                       + (IF v3[t].pc \in {"release", "signal"} THEN 1 ELSE 0)
    BY DEF Thr!Turns
  <2>3. v3[t].j \in Nat /\ v3[t].k \in {0, 1} /\ ThrLoops \in Nat
    BY <2>1, ThrBounds DEF Thr!ThreadStates
  <2> DEFINE j == v3[t].j
             k == v3[t].k
             pc == v3[t].pc
             w == IF pc \in {"release", "signal"} THEN 1 ELSE 0
             twice == v1 = "lock_speed"
  <2>4. /\ j \in Nat /\ k \in {0, 1} /\ w \in {0, 1} /\ (pc = "store" => w = 0) /\ (pc = "done" => w = 0) /\ twice \in BOOLEAN
        /\ \/ pc # "done" /\ j < ThrLoops
           \/ pc = "done" /\ j = ThrLoops /\ k = 0
        /\ k = 1 => twice
        /\ Thr!Turns[t] = (IF twice THEN 2 * j + k ELSE j) + w
        /\ Thr!Most = IF twice THEN 2 * ThrLoops ELSE ThrLoops
    BY <1>1, <2>1, <2>2, <2>3
  <2>5. /\ Thr!At(t, "store") => pc = "store"
        /\ Thr!At(t, "done") => pc = "done"
    BY DEF Thr!At
  <2> HIDE DEF j, k, pc, w, twice
  <2>6. CASE twice
    BY <2>3, <2>4, <2>5, <2>6
  <2>7. CASE ~twice
    BY <2>3, <2>4, <2>5, <2>7
  <2> QED
    BY <2>4, <2>6, <2>7
<1> QED
  BY <1>2 DEF Thr!Turns

\* A thread elsewhere, with another copy of the counter, is still one.
LEMMA ThrPut ==
  ASSUME NEW f \in [ThrWorkers -> Thr!ThreadStates], NEW t \in ThrWorkers,
         NEW l \in Thr!Labels, NEW c \in Nat
  PROVE  /\ [f EXCEPT ![t].pc = l] \in [ThrWorkers -> Thr!ThreadStates]
         /\ [f EXCEPT ![t].pc = l, ![t].loc = c] \in [ThrWorkers -> Thr!ThreadStates]
         /\ [f EXCEPT ![t].pc = l, ![t].j = @ + 1] \in [ThrWorkers -> Thr!ThreadStates]
<1> DEFINE R == Thr!ThreadStates
<1>1. f[t] \in R
  OBVIOUS
<1>2. [f[t] EXCEPT !.pc = l] \in R
  BY <1>1 DEF Thr!ThreadStates
<1>3. [f[t] EXCEPT !.pc = l, !.loc = c] \in R
  BY <1>1 DEF Thr!ThreadStates
<1>4. [f[t] EXCEPT !.pc = l, !.j = @ + 1] \in R
  <2> DEFINE q == f[t]
  <2>1. q \in R
    BY <1>1
  <2> HIDE DEF q
  <2>2. q.j + 1 \in Nat
    BY <2>1 DEF Thr!ThreadStates
  <2>3. [q EXCEPT !.pc = l, !.j = @ + 1] \in R
    BY <2>1, <2>2 DEF Thr!ThreadStates
  <2> QED
    BY <2>3 DEF q
<1>5. f \in [ThrWorkers -> R]
  OBVIOUS
<1> HIDE DEF R
<1>6. /\ [f EXCEPT ![t] = [f[t] EXCEPT !.pc = l]] \in [ThrWorkers -> R]
      /\ [f EXCEPT ![t] = [f[t] EXCEPT !.pc = l, !.loc = c]] \in [ThrWorkers -> R]
      /\ [f EXCEPT ![t] = [f[t] EXCEPT !.pc = l, !.j = @ + 1]] \in [ThrWorkers -> R]
  BY <1>2, <1>3, <1>4, <1>5, Zenon
<1>7. /\ [f EXCEPT ![t].pc = l] = [f EXCEPT ![t] = [f[t] EXCEPT !.pc = l]]
      /\ [f EXCEPT ![t].pc = l, ![t].loc = c] = [f EXCEPT ![t] = [f[t] EXCEPT !.pc = l, !.loc = c]]
      /\ [f EXCEPT ![t].pc = l, ![t].j = @ + 1] = [f EXCEPT ![t] = [f[t] EXCEPT !.pc = l, !.j = @ + 1]]
  BY <1>5
<1> QED
  BY <1>6, <1>7 DEF R

LEMMA ThrReleased ==
  ASSUME Thr!TypeOK, NEW t \in ThrWorkers, Thr!Release(t)
  PROVE  /\ v1 = "lock_speed" /\ v3[t].k = 0 =>
              v3'[t].pc = "load" /\ v3'[t].j = v3[t].j /\ v3'[t].k = 1 /\ v2' = v2
         /\ ~(v1 = "lock_speed" /\ v3[t].k = 0) =>
              /\ v3'[t].pc = (IF v3[t].j + 1 = ThrLoops THEN "done" ELSE "start")
              /\ v3'[t].j = v3[t].j + 1 /\ v3'[t].k = 0 /\ v2' = IF v1 = "incr" THEN v2 ELSE 0
         /\ v3[t].pc = "release" /\ \A u \in ThrWorkers \ {t} : v3'[u] = v3[u]
         /\ v3[t].j \in Nat /\ v3[t].k \in {0, 1}
<1>1. v3 \in [ThrWorkers -> Thr!ThreadStates]
  BY DEF Thr!TypeOK
<1>2. v3[t] \in Thr!ThreadStates
  BY <1>1
<1>3. v3[t].j \in Nat /\ v3[t].k \in {0, 1}
  BY <1>2 DEF Thr!ThreadStates
<1>4. v3[t].pc = "release"
  BY DEF Thr!Release, Thr!At
<1>5. CASE v1 = "lock_speed" /\ v3[t].k = 0
  <2>1. v3' = [v3 EXCEPT ![t].pc = "load", ![t].k = 1] /\ v2' = v2
    BY <1>5 DEF Thr!Release
  <2> QED
    BY <1>1, <1>2, <1>3, <1>4, <1>5, <2>1 DEF Thr!ThreadStates
<1>6. CASE ~(v1 = "lock_speed" /\ v3[t].k = 0)
  <2>1. /\ v3' = [v3 EXCEPT ![t].pc = IF v3[t].j + 1 = ThrLoops THEN "done" ELSE "start", ![t].j = @ + 1, ![t].k = 0]
        /\ v2' = IF v1 = "incr" THEN v2 ELSE 0
    BY <1>6 DEF Thr!Release
  <2> QED
    BY <1>1, <1>2, <1>3, <1>4, <1>6, <2>1 DEF Thr!ThreadStates
<1> QED
  BY <1>5, <1>6

\* A step that stores nothing leaves what is done.
LEMMA ThrNoStore ==
  ASSUME Thr!TypeOK, v1 \in Thr!Counting, Thr!CountInv, NEW t \in ThrWorkers,
         Thr!Acquire(t) \/ Thr!Load(t) \/ Thr!Release(t)
  PROVE  Thr!TypeOK' /\ Thr!Turns' = Thr!Turns /\ Thr!DoneSoFar' = Thr!DoneSoFar /\ v5' = v5 /\ v4' = v4 /\ v1' = v1
<1> USE DEF Thr!At, Thr!Go
<1>1. v5' = v5 /\ v4' = v4 /\ v1' = v1
  BY DEF Thr!Acquire, Thr!Load, Thr!Release
<1>2. v3 \in [ThrWorkers -> Thr!ThreadStates] /\ v5.glob \in Nat
  BY DEF Thr!TypeOK
<1>3. v3' \in [ThrWorkers -> Thr!ThreadStates]
  <2>1. CASE Thr!Acquire(t)
    BY <1>2, <2>1, ThrPut DEF Thr!Acquire, Thr!Labels
  <2>2. CASE Thr!Load(t)
    BY <1>2, <2>2, ThrPut DEF Thr!Load, Thr!Labels
  <2>3. CASE Thr!Release(t)
    BY <1>2, <2>3 DEF Thr!Release, Thr!ThreadStates, Thr!Labels
  <2> QED
    BY <2>1, <2>2, <2>3
<1>4. Thr!TypeOK'
  BY <1>1, <1>3 DEF Thr!TypeOK
<1>5. ASSUME NEW u \in ThrWorkers PROVE Thr!Turns'[u] = Thr!Turns[u]
  <2>1. /\ Thr!Turns[u] = (IF v1 = "lock_speed" THEN 2 * v3[u].j + v3[u].k ELSE v3[u].j)
                          + (IF v3[u].pc \in {"release", "signal"} THEN 1 ELSE 0)
        /\ Thr!Turns'[u] = (IF v1 = "lock_speed" THEN 2 * v3'[u].j + v3'[u].k ELSE v3'[u].j)
                           + (IF v3'[u].pc \in {"release", "signal"} THEN 1 ELSE 0)
    BY <1>1 DEF Thr!Turns
  <2>2. CASE u # t
    BY <1>2, <2>1, <2>2 DEF Thr!Acquire, Thr!Load, Thr!Release
  <2>3. CASE u = t
    <3>1. v3[t].k = 1 => v1 = "lock_speed"
      BY DEF Thr!CountInv
    <3>2. v3[t].j \in Nat /\ v3[t].k \in {0, 1}
      BY <1>2 DEF Thr!ThreadStates
    <3>3. CASE Thr!Acquire(t)
      BY <1>2, <2>1, <2>3, <3>2, <3>3 DEF Thr!Acquire
    <3>4. CASE Thr!Load(t)
      BY <1>2, <2>1, <2>3, <3>2, <3>4 DEF Thr!Load
    <3>5. CASE Thr!Release(t)
      BY <2>1, <2>3, <3>1, <3>2, <3>5, ThrReleased
    <3> QED
      BY <3>3, <3>4, <3>5
  <2> QED
    BY <2>2, <2>3
<1>6. Thr!Turns' = Thr!Turns
  BY <1>5 DEF Thr!Turns
<1> QED
  BY <1>1, <1>4, <1>5, <1>6, ThrDoneSame

LEMMA ThrStore ==
  ASSUME Thr!TypeOK, v1 \in Thr!Counting, Thr!CountInv, NEW t \in ThrWorkers, Thr!Store(t)
  PROVE  /\ Thr!TypeOK'
         /\ \A u \in ThrWorkers : Thr!Turns'[u] = IF u = t THEN Thr!Turns[u] + 1 ELSE Thr!Turns[u]
         /\ Thr!Cardinality(Thr!DoneSoFar)' = Thr!Cardinality(Thr!DoneSoFar) + 1
<1> USE DEF Thr!At, Thr!Go, Thr!Store
<1>1. v4' = v4 /\ v2' = v2 /\ v1' = v1
  OBVIOUS
<1>2. v3 \in [ThrWorkers -> Thr!ThreadStates] /\ v3[t].loc \in Nat
  BY DEF Thr!TypeOK, Thr!ThreadStates
<1>3. v3' \in [ThrWorkers -> Thr!ThreadStates]
  BY <1>2, ThrPut DEF Thr!Labels
<1>4. Thr!TypeOK'
  <2>1. v5' = [v5 EXCEPT !.glob = v3[t].loc + 1] /\ v3[t].loc + 1 \in Nat
    BY <1>2
  <2> QED
    BY <1>1, <1>3, <2>1 DEF Thr!TypeOK
<1>5. ASSUME NEW u \in ThrWorkers PROVE Thr!Turns'[u] = IF u = t THEN Thr!Turns[u] + 1 ELSE Thr!Turns[u]
  <2>1. /\ Thr!Turns[u] = (IF v1 = "lock_speed" THEN 2 * v3[u].j + v3[u].k ELSE v3[u].j)
                          + (IF v3[u].pc \in {"release", "signal"} THEN 1 ELSE 0)
        /\ Thr!Turns'[u] = (IF v1 = "lock_speed" THEN 2 * v3'[u].j + v3'[u].k ELSE v3'[u].j)
                           + (IF v3'[u].pc \in {"release", "signal"} THEN 1 ELSE 0)
    BY <1>1 DEF Thr!Turns
  <2>2. v3[u].j \in Nat /\ v3[u].k \in {0, 1}
    BY <1>2 DEF Thr!ThreadStates
  <2> QED
    BY <1>2, <2>1, <2>2
<1>6. Thr!Turns \in [ThrWorkers -> 0..Thr!Most] /\ Thr!Turns[t] < Thr!Most
  BY ThrTurnsBound
<1> QED
  BY <1>1, <1>4, <1>5, <1>6, ThrDoneMore

LEMMA ThrCountLocal ==
  ASSUME Thr!TypeOK, v1 \in Thr!Counting, Thr!CountInv, NEW t \in ThrWorkers, Thr!Increment(t)
  PROVE  /\ Thr!TypeOK' /\ v1' = v1 /\ v4' = v4 /\ ~Thr!Done
         /\ \A u \in ThrWorkers \ {t} : v3'[u] = v3[u]
         /\ \A u \in ThrWorkers : /\ Thr!InRound(u, {"start", "load", "store", "release"})'
                                  /\ v3'[u].k = 1 => v1 = "lock_speed" /\ v3'[u].pc # "start"
<1> USE DEF Thr!At, Thr!Go
<1>1. Thr!TypeOK' /\ v1' = v1 /\ v4' = v4
  BY ThrNoStore, ThrStore DEF Thr!Increment, Thr!Store
<1>2. v3 \in [ThrWorkers -> Thr!ThreadStates]
  BY DEF Thr!TypeOK
<1>3. \A u \in ThrWorkers \ {t} : v3'[u] = v3[u]
  BY <1>2 DEF Thr!Increment, Thr!Acquire, Thr!Load, Thr!Store, Thr!Release
<1>4. ~Thr!Done
  BY DEF Thr!CountInv, Thr!Ended, Thr!Increment, Thr!Acquire, Thr!Load, Thr!Store, Thr!Release
<1>5. \A u \in ThrWorkers : /\ Thr!InRound(u, {"start", "load", "store", "release"})
                            /\ v3[u].k = 1 => v1 = "lock_speed" /\ v3[u].pc # "start"
  BY DEF Thr!CountInv
<1>6. /\ Thr!InRound(t, {"start", "load", "store", "release"})'
      /\ v3'[t].k = 1 => v1 = "lock_speed" /\ v3'[t].pc # "start"
  <2>1. v3[t].j \in Nat /\ v3[t].k \in {0, 1} /\ ThrLoops \in Nat
    BY <1>2, ThrBounds DEF Thr!ThreadStates
  <2>2. v3[t].pc # "done" => v3[t].j < ThrLoops
    BY <1>5 DEF Thr!InRound
  <2>3. CASE Thr!Acquire(t) \/ Thr!Load(t) \/ Thr!Store(t)
    <3>1. v3'[t].pc \in {"load", "store", "release"} /\ v3'[t].j = v3[t].j /\ v3'[t].k = v3[t].k /\ v3[t].pc # "done"
      BY <1>2, <2>3 DEF Thr!Acquire, Thr!Load, Thr!Store, Thr!ThreadStates
    <3> QED
      BY <1>5, <2>1, <2>2, <3>1 DEF Thr!InRound
  <2>4. CASE Thr!Release(t)
    <3>1. v3[t].j < ThrLoops
      BY <2>2, <2>4, ThrReleased
    <3> QED
      BY <1>5, <2>1, <2>4, <3>1, ThrReleased DEF Thr!InRound
  <2> QED
    BY <2>3, <2>4 DEF Thr!Increment
<1>7. ASSUME NEW u \in ThrWorkers \ {t}
      PROVE  /\ Thr!InRound(u, {"start", "load", "store", "release"})'
             /\ v3'[u].k = 1 => v1 = "lock_speed" /\ v3'[u].pc # "start"
  BY <1>3, <1>5 DEF Thr!InRound
<1> QED
  BY <1>1, <1>3, <1>4, <1>6, <1>7

\* Without a lock: nothing is stored that was not counted, and no copy read
\* after a thread's own store is 0.
LEMMA ThrUnlocked ==
  ASSUME Thr!TypeOK, v1 = "incr", Thr!CountInv, NEW t \in ThrWorkers, Thr!Increment(t)
  PROVE  Thr!CountInv'
<1> DEFINE c == Thr!Cardinality(Thr!DoneSoFar)
<1>1. v1 \in Thr!Counting /\ v1' = "incr"
  BY ThrCountLocal DEF Thr!Counting
<1>2. /\ v2 = 0 /\ v5.glob <= c
      /\ (\E u \in ThrWorkers : Thr!Turns[u] > 0) => v5.glob >= 1
      /\ (\A u \in ThrWorkers : Thr!Turns[u] = ThrLoops) => v5.glob >= 2
      /\ \A u \in ThrWorkers : v3[u].pc = "store" => v3[u].loc <= c /\ (v3[u].j > 0 => v3[u].loc >= 1)
  BY <1>1 DEF Thr!CountInv, Thr!At
<1>3. c \in Nat /\ v5.glob \in Nat /\ v3[t] \in Thr!ThreadStates /\ ThrLoops \in Nat /\ ThrLoops >= 2
  BY ThrDone, ThrBounds DEF Thr!TypeOK
<1>4. \A u \in ThrWorkers : v3[u].loc \in Nat /\ v3[u].j \in Nat
  BY DEF Thr!TypeOK, Thr!ThreadStates
<1>5. Thr!Turns[t] = v3[t].j + (IF v3[t].pc \in {"release", "signal"} THEN 1 ELSE 0)
  BY <1>1 DEF Thr!Turns
<1>6. /\ v2' = 0 /\ v5'.glob <= c'
      /\ (\E u \in ThrWorkers : Thr!Turns'[u] > 0) => v5'.glob >= 1
      /\ (\A u \in ThrWorkers : Thr!Turns'[u] = ThrLoops) => v5'.glob >= 2
      /\ \A u \in ThrWorkers : v3'[u].pc = "store" => v3'[u].loc <= c' /\ (v3'[u].j > 0 => v3'[u].loc >= 1)
  <2>1. CASE Thr!Acquire(t) \/ Thr!Load(t) \/ Thr!Release(t)
    <3>1. c' = c /\ v5' = v5 /\ Thr!Turns' = Thr!Turns /\ v2' = 0
      <4>1. v2' = 0
        BY <1>1, <1>2, <2>1 DEF Thr!Acquire, Thr!Load, Thr!Release
      <4> QED
        BY <1>1, <2>1, <4>1, ThrNoStore
    <3>2. v3'[t].pc = "store" => v3'[t].loc <= c /\ (v3'[t].j > 0 => v3'[t].loc >= 1)
      <4>1. CASE Thr!Load(t)
        <5>1. v3'[t].loc = v5.glob /\ v3'[t].j = v3[t].j
          BY <1>3, <4>1 DEF Thr!Load, Thr!TypeOK, Thr!ThreadStates
        <5>2. v3[t].j > 0 => Thr!Turns[t] > 0
          BY <1>4, <1>5
        <5> QED
          BY <1>2, <5>1, <5>2
      <4>2. CASE Thr!Acquire(t)
        <5>1. v3'[t].pc = "load"
          BY <1>3, <4>2 DEF Thr!Acquire, Thr!Go, Thr!TypeOK, Thr!ThreadStates
        <5> QED
          BY <5>1
      <4>3. CASE Thr!Release(t)
        BY <4>3, ThrReleased
      <4> QED
        BY <2>1, <4>1, <4>2, <4>3
    <3>3. \A u \in ThrWorkers \ {t} : v3'[u] = v3[u]
      BY <1>1, ThrCountLocal
    <3> QED
      BY <1>2, <3>1, <3>2, <3>3
  <2>2. CASE Thr!Store(t)
    <3>1. /\ c' = c + 1
          /\ \A u \in ThrWorkers : Thr!Turns'[u] = IF u = t THEN Thr!Turns[u] + 1 ELSE Thr!Turns[u]
      BY <1>1, <2>2, ThrStore
    <3>2. v5'.glob = v3[t].loc + 1 /\ v3'[t].pc = "release" /\ v2' = v2 /\ v3[t].pc = "store"
      BY <1>3, <2>2 DEF Thr!Store, Thr!At, Thr!Go, Thr!TypeOK, Thr!ThreadStates
    <3>3. \A u \in ThrWorkers \ {t} : v3'[u] = v3[u]
      BY <1>1, ThrCountLocal
    <3>4. (\A u \in ThrWorkers : Thr!Turns'[u] = ThrLoops) => v3[t].j > 0
      <4>1. Thr!Turns'[t] = v3[t].j + 1
        BY <1>4, <1>5, <3>1, <3>2
      <4> QED
        BY <1>3, <1>4, <4>1
    <3>5. v3[t].loc <= c /\ (v3[t].j > 0 => v3[t].loc >= 1) /\ v3[t].loc \in Nat
      BY <1>2, <1>4, <3>2
    <3>6. ASSUME NEW u \in ThrWorkers, v3'[u].pc = "store"
          PROVE  v3'[u].loc <= c' /\ (v3'[u].j > 0 => v3'[u].loc >= 1)
      <4>1. u # t /\ v3'[u] = v3[u]
        BY <3>2, <3>3, <3>6
      <4> QED
        BY <1>2, <1>3, <1>4, <3>1, <3>6, <4>1
    <3>7. v2' = 0 /\ v5'.glob <= c' /\ v5'.glob >= 1 /\ (v3[t].j > 0 => v5'.glob >= 2)
      BY <1>2, <1>3, <3>1, <3>2, <3>5
    <3> QED
      BY <3>4, <3>6, <3>7
  <2> QED
    BY <2>1, <2>2 DEF Thr!Increment
<1>7. /\ v4'.pc \in {"start", "exit"} /\ (Thr!Done' => Thr!Ended')
      /\ \A u \in ThrWorkers : /\ Thr!InRound(u, {"start", "load", "store", "release"})'
                               /\ v3'[u].k = 1 => v1' = "lock_speed" /\ v3'[u].pc # "start"
  BY <1>1, ThrCountLocal DEF Thr!CountInv, Thr!Done
<1> QED
  BY <1>1, <1>6, <1>7 DEF Thr!CountInv, Thr!At

\* With a lock: whoever is between load and release has it, and its copy of
\* the counter is the counter.
LEMMA ThrLocked ==
  ASSUME Thr!TypeOK, v1 \in Thr!Counting, v1 # "incr", Thr!CountInv, NEW t \in ThrWorkers, Thr!Increment(t)
  PROVE  Thr!CountInv'
<1> DEFINE c == Thr!Cardinality(Thr!DoneSoFar)
<1>1. v1' = v1
  BY ThrCountLocal
<1>2. /\ v2 \in ThrWorkers \cup {0} /\ v5.glob = c
      /\ \A u \in ThrWorkers : v2 = u <=> v3[u].pc \in {"load", "store", "release"}
      /\ \A u \in ThrWorkers : v3[u].pc = "store" => v3[u].loc = v5.glob
  BY DEF Thr!CountInv, Thr!At
<1>3. c \in Nat /\ v3 \in [ThrWorkers -> Thr!ThreadStates] /\ v3[t] \in Thr!ThreadStates /\ v5.glob \in Nat
  BY ThrDone DEF Thr!TypeOK
<1>4. 0 \notin ThrWorkers
  BY ThrBounds
<1>5. \A u \in ThrWorkers \ {t} : v3'[u] = v3[u]
  BY ThrCountLocal
<1>6. /\ v2' \in ThrWorkers \cup {0} /\ v5'.glob = c'
      /\ \A u \in ThrWorkers : v2' = u <=> v3'[u].pc \in {"load", "store", "release"}
      /\ \A u \in ThrWorkers : v3'[u].pc = "store" => v3'[u].loc = v5'.glob
  <2>1. CASE Thr!Acquire(t)
    <3>1. v3[t].pc = "start" /\ v3'[t].pc = "load" /\ v2 = 0 /\ v2' = t
      BY <1>3, <2>1 DEF Thr!Acquire, Thr!Free, Thr!At, Thr!Go, Thr!ThreadStates
    <3>2. c' = c /\ v5' = v5
      BY <2>1, ThrNoStore
    <3> QED
      BY <1>2, <1>4, <1>5, <3>1, <3>2
  <2>2. CASE Thr!Load(t)
    <3>1. v3[t].pc = "load" /\ v3'[t].pc = "store" /\ v3'[t].loc = v5.glob /\ v2' = v2
      BY <1>3, <2>2 DEF Thr!Load, Thr!At, Thr!ThreadStates
    <3>2. c' = c /\ v5' = v5
      BY <2>2, ThrNoStore
    <3> QED
      BY <1>2, <1>4, <1>5, <3>1, <3>2
  <2>3. CASE Thr!Store(t)
    <3>1. v3[t].pc = "store" /\ v3'[t].pc = "release" /\ v5'.glob = v3[t].loc + 1 /\ v2' = v2
      BY <1>3, <2>3 DEF Thr!Store, Thr!At, Thr!Go, Thr!ThreadStates, Thr!TypeOK
    <3>2. c' = c + 1
      BY <2>3, ThrStore
    <3>3. ASSUME NEW u \in ThrWorkers PROVE v3'[u].pc # "store"
      <4>1. u # t => v2 # u
        BY <1>2, <3>1
      <4> QED
        BY <1>2, <1>5, <3>1, <4>1
    <3>4. \A u \in ThrWorkers : v2' = u <=> v3'[u].pc \in {"load", "store", "release"}
      BY <1>2, <1>5, <3>1
    <3> QED
      BY <1>2, <3>1, <3>2, <3>3, <3>4
  <2>4. CASE Thr!Release(t)
    <3>1. c' = c /\ v5' = v5
      BY <2>4, ThrNoStore
    <3>2. v2 = t
      BY <1>2, <2>4, ThrReleased
    <3>3. CASE v1 = "lock_speed" /\ v3[t].k = 0
      BY <1>2, <1>5, <2>4, <3>1, <3>3, ThrReleased
    <3>4. CASE ~(v1 = "lock_speed" /\ v3[t].k = 0)
      <4>1. v2' = 0 /\ v3'[t].pc \in {"done", "start"}
        BY <2>4, <3>4, ThrReleased
      <4> QED
        BY <1>2, <1>4, <1>5, <3>1, <3>2, <4>1
    <3> QED
      BY <3>3, <3>4
  <2> QED
    BY <2>1, <2>2, <2>3, <2>4 DEF Thr!Increment
<1>7. /\ v4'.pc \in {"start", "exit"} /\ (Thr!Done' => Thr!Ended')
      /\ \A u \in ThrWorkers : /\ Thr!InRound(u, {"start", "load", "store", "release"})'
                               /\ v3'[u].k = 1 => v1' = "lock_speed" /\ v3'[u].pc # "start"
  BY <1>1, ThrCountLocal DEF Thr!CountInv, Thr!Done
<1> QED
  BY <1>1, <1>6, <1>7 DEF Thr!CountInv, Thr!At

LEMMA ThrCounting ==
  ASSUME Thr!TypeOK, v1 \in Thr!Counting, Thr!CountInv, Thr!Next
  PROVE  Thr!TypeOK' /\ v1' = v1 /\ Thr!CountInv'
<1>1. CASE \E t \in ThrWorkers : Thr!Increment(t)
  BY <1>1, ThrCountLocal, ThrUnlocked, ThrLocked
<1>2. CASE Thr!JoinAll
  <2>1. v4' = [v4 EXCEPT !.pc = "exit"] /\ v1' = v1 /\ v2' = v2 /\ v3' = v3 /\ v5' = v5 /\ Thr!Ended
    BY <1>2 DEF Thr!JoinAll
  <2>2. v4 \in [pc : Thr!MainLabels, n : Nat, done : BOOLEAN]
    BY DEF Thr!TypeOK
  <2>3. v4' \in [pc : Thr!MainLabels, n : Nat, done : BOOLEAN] /\ v4'.pc = "exit"
    BY <2>1, <2>2 DEF Thr!MainLabels
  <2>4. Thr!TypeOK'
    BY <2>1, <2>3 DEF Thr!TypeOK
  <2>5. Thr!Turns' = Thr!Turns /\ Thr!DoneSoFar' = Thr!DoneSoFar
    BY <2>1 DEF Thr!Turns, Thr!DoneSoFar, Thr!Most
  <2>6. Thr!Ended' /\ Thr!Cardinality(Thr!DoneSoFar)' = Thr!Cardinality(Thr!DoneSoFar)
    BY <2>1, <2>5 DEF Thr!Ended
  <2> QED
    BY <2>1, <2>3, <2>4, <2>5, <2>6, Zenon DEF Thr!CountInv, Thr!InRound, Thr!At
<1>3. Thr!JoinAll \/ \E t \in ThrWorkers : Thr!Increment(t)
  <2>1. v4.pc \in {"start", "exit"}
    BY DEF Thr!CountInv
  <2>2. v1 \in {"incr", "incr_mutex", "incr_rwlock", "incr_spinlock", "incr_psem", "lock_speed"}
    BY DEF Thr!Counting
  <2> QED
    BY <2>1, <2>2 DEF Thr!Next, Thr!thread_incr, Thr!thread_incr_mutex, Thr!thread_incr_rwlock, Thr!thread_incr_spinlock,
       Thr!thread_incr_psem, Thr!thread_lock_speed, Thr!Produce, Thr!ThreadDies, Thr!one_time_init, Thr!BarrierWait,
       Thr!Spurious, Thr!Consume, Thr!JoinTerminated, Thr!CancelledEarly, Thr!Cancelled, Thr!CleanupThread,
       Thr!cleanupHandler, Thr!Cancel, Thr!LetGo, Thr!JoinOne, Thr!StrerrorTest, Thr!Producing
<1> QED
  BY <1>1, <1>2, <1>3

-----------------------------------------------------------------------------
(* Threads: the producers and the consumer.                                *)

\* How far a producer is says what it produced.
LEMMA ThrProduced ==
  ASSUME Thr!TypeOK, v1 \in Thr!Producing, Thr!ProduceInv
  PROVE  /\ Thr!Most = ThrLoops /\ Thr!Turns \in [ThrWorkers -> 0..Thr!Most]
         /\ \A t \in ThrWorkers :
              /\ v3[t] \in Thr!ThreadStates /\ v3[t].j \in Nat
              /\ Thr!Turns[t] = v3[t].j + (IF v3[t].pc = "signal" THEN 1 ELSE 0)
              /\ v3[t].pc \in {"start", "signal"} => v3[t].j < ThrLoops
              /\ v3[t].pc = "start" => Thr!Turns[t] < Thr!Most
              /\ v3[t].pc = "done" => Thr!Turns[t] = Thr!Most
<1>1. Thr!Most = ThrLoops /\ ThrLoops \in Nat
  BY ThrBounds DEF Thr!Most, Thr!Producing
<1>2. ASSUME NEW t \in ThrWorkers
      PROVE  /\ v3[t] \in Thr!ThreadStates /\ v3[t].j \in Nat
             /\ Thr!Turns[t] = v3[t].j + (IF v3[t].pc = "signal" THEN 1 ELSE 0)
             /\ v3[t].pc \in {"start", "signal"} => v3[t].j < ThrLoops
             /\ v3[t].pc = "start" => Thr!Turns[t] < Thr!Most
             /\ v3[t].pc = "done" => Thr!Turns[t] = Thr!Most
             /\ Thr!Turns[t] \in 0..Thr!Most
  <2>1. v3[t] \in Thr!ThreadStates
    BY DEF Thr!TypeOK
  <2>2. v3[t].j \in Nat
    BY <2>1 DEF Thr!ThreadStates
  <2>3. \/ v3[t].pc \in {"start", "signal"} /\ v3[t].j < ThrLoops
        \/ v3[t].pc = "done" /\ v3[t].j = ThrLoops
    BY DEF Thr!ProduceInv, Thr!InRound
  <2>4. Thr!Turns[t] = v3[t].j + (IF v3[t].pc \in {"release", "signal"} THEN 1 ELSE 0)
    BY DEF Thr!Turns, Thr!Producing
  <2>5. Thr!Turns[t] = v3[t].j + (IF v3[t].pc = "signal" THEN 1 ELSE 0)
    BY <2>3, <2>4
  <2> QED
    BY <1>1, <2>1, <2>2, <2>3, <2>5
<1> QED
  BY <1>1, <1>2 DEF Thr!Turns

\* The end of a round.
LEMMA ThrRound ==
  ASSUME Thr!TypeOK, NEW t \in ThrWorkers, Thr!Round(t, "start")
  PROVE  /\ v3' \in [ThrWorkers -> Thr!ThreadStates]
         /\ v3'[t].pc = (IF v3[t].j + 1 = ThrLoops THEN "done" ELSE "start") /\ v3'[t].j = v3[t].j + 1 /\ v3'[t].k = v3[t].k
         /\ \A u \in ThrWorkers \ {t} : v3'[u] = v3[u]
<1> DEFINE l == IF v3[t].j + 1 = ThrLoops THEN "done" ELSE "start"
<1>1. l \in Thr!Labels /\ v3' = [v3 EXCEPT ![t].pc = l, ![t].j = @ + 1] /\ v3 \in [ThrWorkers -> Thr!ThreadStates]
  BY DEF Thr!Round, Thr!Labels, Thr!TypeOK
<1>2. v3[t] \in Thr!ThreadStates
  BY <1>1
<1> HIDE DEF l
<1>3. v3' \in [ThrWorkers -> Thr!ThreadStates]
  BY <1>1, ThrPut
<1>4. v3'[t].pc = l /\ v3'[t].j = v3[t].j + 1 /\ v3'[t].k = v3[t].k /\ \A u \in ThrWorkers \ {t} : v3'[u] = v3[u]
  BY <1>1, <1>2 DEF Thr!ThreadStates
<1> QED
  BY <1>3, <1>4 DEF l

LEMMA ThrGo ==
  ASSUME Thr!TypeOK, NEW t \in ThrWorkers, NEW l \in Thr!Labels, Thr!Go(t, l)
  PROVE  /\ v3' \in [ThrWorkers -> Thr!ThreadStates]
         /\ v3'[t].pc = l /\ v3'[t].j = v3[t].j /\ v3'[t].k = v3[t].k
         /\ \A u \in ThrWorkers \ {t} : v3'[u] = v3[u]
<1>1. v3' = [v3 EXCEPT ![t].pc = l] /\ v3 \in [ThrWorkers -> Thr!ThreadStates]
  BY DEF Thr!Go, Thr!TypeOK
<1>2. v3[t] \in Thr!ThreadStates
  BY <1>1
<1>3. v3' \in [ThrWorkers -> Thr!ThreadStates]
  BY <1>1, ThrPut
<1> QED
  BY <1>1, <1>2, <1>3 DEF Thr!ThreadStates

LEMMA ThrProduce ==
  ASSUME Thr!TypeOK, v1 \in Thr!Producing, Thr!ProduceInv, NEW t \in ThrWorkers, Thr!Produce(t)
  PROVE  Thr!TypeOK' /\ v1' = v1 /\ Thr!ProduceInv'
<1> DEFINE c == Thr!Cardinality(Thr!DoneSoFar)
<1>1. v1' = v1 /\ v2' = v2 /\ v1 \in {"prod_condvar", "prod_no_condvar"}
  BY DEF Thr!Produce, Thr!Producing
<1>2. /\ v4.pc \in {"start", "waiting", "relock", "consume", "exit"} /\ v2 = (IF v4.pc = "consume" THEN Thr!Main ELSE 0)
      /\ \A u \in ThrWorkers : Thr!InRound(u, {"start", "signal"}) /\ v3[u].k = 0
      /\ v4.pc = "waiting" => v1 = "prod_condvar"
      /\ v4.n + v5.avail = c /\ v5.unjoined = 0
      /\ v4.done <=> v4.n >= ThrLoops * Thr!Cardinality(ThrWorkers)
      /\ v4.done => v4.pc \in {"consume", "exit"}
      /\ v4.pc = "exit" => v4.done
      /\ v4.pc = "waiting" => \/ v5.avail = 0 /\ \E u \in ThrWorkers : v3[u].pc # "done"
                              \/ \E u \in ThrWorkers : v3[u].pc = "signal"
  BY DEF Thr!ProduceInv, Thr!Done, Thr!WakeupToCome, Thr!At
<1>3. v4 \in [pc : Thr!MainLabels, n : Nat, done : BOOLEAN] /\ v4.n \in Nat /\ v5.avail \in Nat
  BY DEF Thr!TypeOK
<1>4. /\ Thr!Most = ThrLoops /\ Thr!Turns \in [ThrWorkers -> 0..Thr!Most] /\ ThrLoops \in Nat
      /\ \A u \in ThrWorkers : Thr!Turns[u] = v3[u].j + (IF v3[u].pc = "signal" THEN 1 ELSE 0)
      /\ v3[t].j \in Nat /\ v3[t].pc \in {"start", "signal"} /\ v3[t].j < ThrLoops
      /\ v3[t].pc = "start" => Thr!Turns[t] < Thr!Most
  <2>1. v3[t].pc \in {"start", "signal"}
    BY DEF Thr!Produce, Thr!At
  <2> QED
    BY <2>1, ThrProduced, ThrBounds
<1>5. /\ v3' \in [ThrWorkers -> Thr!ThreadStates]
      /\ \A u \in ThrWorkers \ {t} : v3'[u] = v3[u]
      /\ v3'[t].k = v3[t].k
      /\ \/ v3[t].pc = "start" /\ v1 = "prod_condvar" /\ v3'[t].pc = "signal" /\ v3'[t].j = v3[t].j
         \/ /\ v3[t].pc = "start" => v1 = "prod_no_condvar"
            /\ v3'[t].pc = (IF v3[t].j + 1 = ThrLoops THEN "done" ELSE "start") /\ v3'[t].j = v3[t].j + 1
  BY <1>1, ThrRound, ThrGo DEF Thr!Produce, Thr!At, Thr!Labels
<1>6. Thr!InRound(t, {"start", "signal"})'
  BY <1>2, <1>4, <1>5 DEF Thr!InRound
<1>7. \A u \in ThrWorkers : Thr!InRound(u, {"start", "signal"})' /\ v3'[u].k = 0
  BY <1>2, <1>5, <1>6 DEF Thr!InRound
<1>8. \A u \in ThrWorkers : Thr!Turns'[u] = v3'[u].j + (IF v3'[u].pc = "signal" THEN 1 ELSE 0)
  <2>1. ASSUME NEW u \in ThrWorkers PROVE v3'[u].pc \in {"start", "signal", "done"}
    BY <1>7 DEF Thr!InRound
  <2>2. \A u \in ThrWorkers : Thr!Turns'[u] = v3'[u].j + (IF v3'[u].pc \in {"release", "signal"} THEN 1 ELSE 0)
    BY <1>1 DEF Thr!Turns
  <2> QED
    BY <2>1, <2>2
<1>9. CASE v3[t].pc = "start"
  <2>1. v4' = v4 /\ v5' = [v5 EXCEPT !.avail = @ + 1]
    BY <1>9 DEF Thr!Produce, Thr!At
  <2>2. Thr!TypeOK'
    <3>1. v5.avail + 1 \in Nat
      BY <1>3
    <3> QED
      BY <1>1, <1>5, <2>1, <3>1 DEF Thr!TypeOK
  <2>3. \A u \in ThrWorkers : Thr!Turns'[u] = IF u = t THEN Thr!Turns[u] + 1 ELSE Thr!Turns[u]
    BY <1>4, <1>5, <1>8, <1>9
  <2>4. c' = c + 1
    BY <1>1, <1>4, <1>9, <2>3, ThrDoneMore
  <2>5. v5'.avail = v5.avail + 1 /\ v5'.unjoined = v5.unjoined
    BY <2>1 DEF Thr!TypeOK
  <2>6. v4'.n + v5'.avail = c'
    BY <1>2, <1>3, <2>1, <2>4, <2>5
  <2>7. v4'.pc = "waiting" => v3'[t].pc = "signal"
    BY <1>2, <1>5, <1>9, <2>1
  <2> QED
    BY <1>1, <1>2, <1>7, <2>1, <2>2, <2>5, <2>6, <2>7 DEF Thr!ProduceInv, Thr!Done, Thr!WakeupToCome, Thr!At, Thr!Main
<1>10. CASE v3[t].pc = "signal"
  <2>1. v4' = (IF v4.pc = "waiting" THEN [v4 EXCEPT !.pc = "relock"] ELSE v4) /\ v5' = v5
    BY <1>10 DEF Thr!Produce, Thr!At
  <2>2. /\ v4' \in [pc : Thr!MainLabels, n : Nat, done : BOOLEAN] /\ v4'.n = v4.n /\ v4'.done = v4.done
        /\ v4'.pc = IF v4.pc = "waiting" THEN "relock" ELSE v4.pc
    BY <1>3, <2>1 DEF Thr!MainLabels
  <2>3. Thr!TypeOK'
    BY <1>1, <1>5, <2>1, <2>2 DEF Thr!TypeOK
  <2>4. \A u \in ThrWorkers : Thr!Turns'[u] = Thr!Turns[u]
    BY <1>4, <1>5, <1>8, <1>10
  <2>5. c' = c
    BY <1>1, <2>4, ThrDoneSame
  <2> QED
    BY <1>1, <1>2, <1>7, <2>1, <2>2, <2>3, <2>5 DEF Thr!ProduceInv, Thr!Done, Thr!WakeupToCome, Thr!At, Thr!Main
<1> QED
  BY <1>4, <1>9, <1>10

\* What main() does leaves the producers where they are.
LEMMA ThrConsume ==
  ASSUME Thr!TypeOK, v1 \in Thr!Producing, Thr!ProduceInv, Thr!Consume \/ Thr!Spurious
  PROVE  Thr!TypeOK' /\ v1' = v1 /\ Thr!ProduceInv'
<1> DEFINE c == Thr!Cardinality(Thr!DoneSoFar)
           all == ThrLoops * Thr!Cardinality(ThrWorkers)
<1>1. v1' = v1 /\ v3' = v3 /\ v1 \in {"prod_condvar", "prod_no_condvar"}
  BY DEF Thr!Consume, Thr!Spurious, Thr!Producing
<1>2. /\ v4.pc \in {"start", "waiting", "relock", "consume", "exit"} /\ v2 = (IF v4.pc = "consume" THEN Thr!Main ELSE 0)
      /\ \A u \in ThrWorkers : Thr!InRound(u, {"start", "signal"}) /\ v3[u].k = 0
      /\ v4.pc = "waiting" => v1 = "prod_condvar"
      /\ v4.n + v5.avail = c /\ v5.unjoined = 0
      /\ v4.done <=> v4.n >= all
      /\ v4.done => v4.pc \in {"consume", "exit"}
      /\ v4.pc = "exit" => v4.done
  BY DEF Thr!ProduceInv, Thr!Done
<1>3. v4 \in [pc : Thr!MainLabels, n : Nat, done : BOOLEAN] /\ v4.n \in Nat /\ v5.avail \in Nat
  BY DEF Thr!TypeOK
<1>4. c' = c /\ c \in Nat /\ c <= all /\ all \in Nat
      /\ ((\A u \in ThrWorkers : v3[u].pc = "done") => c = all)
  <2>1. Thr!Turns' = Thr!Turns /\ Thr!DoneSoFar' = Thr!DoneSoFar
    BY <1>1 DEF Thr!Turns, Thr!DoneSoFar, Thr!Most
  <2>2. Thr!Most = ThrLoops /\ \A u \in ThrWorkers : v3[u].pc = "done" => Thr!Turns[u] = Thr!Most
    BY ThrProduced
  <2>3. all \in Nat
    BY ThrBounds, ThrDone
  <2> QED
    BY <2>1, <2>2, <2>3, ThrDone
<1>5. \A u \in ThrWorkers : Thr!InRound(u, {"start", "signal"})' /\ v3'[u].k = 0
  BY <1>1, <1>2 DEF Thr!InRound
<1>6. ASSUME v4.pc \in {"start", "relock"}, v1 = "prod_condvar", v5.avail = 0
      PROVE  \E u \in ThrWorkers : v3[u].pc # "done"
  BY <1>2, <1>3, <1>4, <1>6
<1> HIDE DEF all
<1>7. CASE Thr!Spurious
  <2>1. v4' = [v4 EXCEPT !.pc = "relock"] /\ v5' = v5 /\ v2' = v2 /\ v4.pc = "waiting"
    BY <1>7 DEF Thr!Spurious
  <2>2. v4' \in [pc : Thr!MainLabels, n : Nat, done : BOOLEAN] /\ v4'.n = v4.n /\ v4'.done = v4.done /\ v4'.pc = "relock"
    BY <1>3, <2>1 DEF Thr!MainLabels
  <2>3. Thr!TypeOK'
    BY <1>1, <2>1, <2>2 DEF Thr!TypeOK
  <2> QED
    BY <1>1, <1>2, <1>4, <1>5, <2>1, <2>2, <2>3 DEF Thr!ProduceInv, Thr!Done, Thr!WakeupToCome, Thr!At, Thr!Main, all
<1>8. CASE v4.pc \in {"start", "relock"} /\ Thr!Consume
  <2>1. /\ v5' = v5
        /\ \/ v1 = "prod_condvar" /\ v5.avail = 0 /\ v4' = [v4 EXCEPT !.pc = "waiting"] /\ v2' = v2
           \/ v4' = [v4 EXCEPT !.pc = "consume"] /\ v2' = Thr!Main
    BY <1>8 DEF Thr!Consume
  <2>2. v4' \in [pc : Thr!MainLabels, n : Nat, done : BOOLEAN] /\ v4'.n = v4.n /\ v4'.done = v4.done
        /\ ((v4'.pc = "waiting" /\ v1 = "prod_condvar" /\ v5.avail = 0 /\ v2' = v2) \/ (v4'.pc = "consume" /\ v2' = Thr!Main))
    <3>3. CASE v1 = "prod_condvar" /\ v5.avail = 0 /\ v4' = [v4 EXCEPT !.pc = "waiting"] /\ v2' = v2
      <4>1. v4' \in [pc : Thr!MainLabels, n : Nat, done : BOOLEAN] /\ v4'.n = v4.n /\ v4'.pc = "waiting" /\ v4'.done = v4.done
        BY <1>3, <3>3 DEF Thr!MainLabels
      <4> QED
        BY <3>3, <4>1
    <3>4. CASE v4' = [v4 EXCEPT !.pc = "consume"] /\ v2' = Thr!Main
      <4>1. v4' \in [pc : Thr!MainLabels, n : Nat, done : BOOLEAN] /\ v4'.n = v4.n /\ v4'.pc = "consume" /\ v4'.done = v4.done
        BY <1>3, <3>4 DEF Thr!MainLabels
      <4> QED
        BY <3>4, <4>1
    <3> QED
      BY <2>1, <3>3, <3>4
  <2>3. Thr!TypeOK'
    BY <1>1, <2>1, <2>2 DEF Thr!TypeOK
  <2> QED
    BY <1>1, <1>2, <1>4, <1>5, <1>6, <1>8, <2>1, <2>2, <2>3 DEF Thr!ProduceInv, Thr!Done, Thr!WakeupToCome, Thr!At, Thr!Main, all
<1>9. CASE v4.pc = "consume" /\ v5.avail > 0 /\ Thr!Consume
  <2>1. /\ v5' = [v5 EXCEPT !.avail = @ - 1] /\ v2' = v2
        /\ v4' = [v4 EXCEPT !.n = @ + 1, !.done = v4.n + 1 >= all]
    BY <1>9 DEF Thr!Consume, all
  <2>2. v4.n + 1 \in Nat /\ v5.avail - 1 \in Nat
    BY <1>3, <1>9
  <2>3. (v4.n + 1 >= all) \in BOOLEAN
    OBVIOUS
  <2>4. v4' \in [pc : Thr!MainLabels, n : Nat, done : BOOLEAN] /\ v4'.n = v4.n + 1 /\ (v4'.done <=> v4.n + 1 >= all) /\ v4'.pc = v4.pc
    BY <1>3, <2>1, <2>2, <2>3
  <2>5. Thr!TypeOK'
    BY <1>1, <2>1, <2>2, <2>4 DEF Thr!TypeOK
  <2>6. v5'.avail = v5.avail - 1 /\ v5'.unjoined = v5.unjoined
    BY <2>1 DEF Thr!TypeOK
  <2>7. v4'.n + v5'.avail = c' /\ (v4'.done <=> v4'.n >= all)
    BY <1>2, <1>3, <1>4, <2>4, <2>6
  <2> QED
    BY <1>1, <1>2, <1>5, <1>9, <2>1, <2>4, <2>5, <2>6, <2>7 DEF Thr!ProduceInv, Thr!Done, Thr!WakeupToCome, Thr!At, Thr!Main, all
<1>10. CASE v4.pc = "consume" /\ v5.avail = 0 /\ Thr!Consume
  <2>1. /\ v5' = v5 /\ v2' = 0
        /\ v4' = [v4 EXCEPT !.pc = IF v4.done THEN "exit" ELSE "start"]
    BY <1>3, <1>10 DEF Thr!Consume
  <2>2. v4' \in [pc : Thr!MainLabels, n : Nat, done : BOOLEAN] /\ v4'.n = v4.n /\ v4'.done = v4.done
        /\ v4'.pc = (IF v4.done THEN "exit" ELSE "start")
    <3> DEFINE l == IF v4.done THEN "exit" ELSE "start"
    <3>1. l \in Thr!MainLabels /\ v4' = [v4 EXCEPT !.pc = l]
      BY <2>1 DEF Thr!MainLabels
    <3> HIDE DEF l
    <3>2. v4' \in [pc : Thr!MainLabels, n : Nat, done : BOOLEAN] /\ v4'.n = v4.n /\ v4'.done = v4.done /\ v4'.pc = l
      BY <1>3, <3>1
    <3> QED
      BY <3>2 DEF l
  <2>3. Thr!TypeOK'
    BY <1>1, <2>1, <2>2 DEF Thr!TypeOK
  <2> QED
    BY <1>1, <1>2, <1>4, <1>5, <2>1, <2>2, <2>3 DEF Thr!ProduceInv, Thr!Done, Thr!WakeupToCome, Thr!At, Thr!Main, all
<1> QED
  BY <1>7, <1>8, <1>9, <1>10 DEF Thr!Consume

LEMMA ThrProducing ==
  ASSUME Thr!TypeOK, v1 \in Thr!Producing, Thr!ProduceInv, Thr!Next
  PROVE  Thr!TypeOK' /\ v1' = v1 /\ Thr!ProduceInv'
<1>1. Thr!Consume \/ Thr!Spurious \/ \E t \in ThrWorkers : Thr!Produce(t)
  <2>1. v1 \in {"prod_condvar", "prod_no_condvar"}
    BY DEF Thr!Producing
  <2> QED
    BY <2>1 DEF Thr!Next, Thr!thread_incr, Thr!thread_incr_mutex, Thr!thread_incr_rwlock, Thr!thread_incr_spinlock,
       Thr!thread_incr_psem, Thr!thread_lock_speed, Thr!ThreadDies, Thr!one_time_init, Thr!BarrierWait,
       Thr!JoinAll, Thr!JoinTerminated, Thr!CancelledEarly, Thr!Cancelled, Thr!CleanupThread,
       Thr!cleanupHandler, Thr!Cancel, Thr!LetGo, Thr!JoinOne, Thr!StrerrorTest, Thr!Counting
<1> QED
  BY <1>1, ThrProduce, ThrConsume

-----------------------------------------------------------------------------
(* Threads: whoever ends is joined.                                        *)

LEMMA ThrDies ==
  ASSUME Thr!TypeOK, v1 = "multijoin", Thr!JoinInv, NEW t \in ThrWorkers, Thr!ThreadDies(t)
  PROVE  Thr!TypeOK' /\ v1' = v1 /\ Thr!JoinInv'
<1> DEFINE T == {u \in ThrWorkers : v5.state[u] = "TERMINATED"}
           J == {u \in ThrWorkers : v5.state[u] = "JOINED"}
<1>1. v1' = v1 /\ v2' = v2
  BY DEF Thr!ThreadDies
<1>2. /\ v4.pc \in {"start", "waiting", "relock", "pass", "exit"}
      /\ v2 = (IF v4.pc = "pass" THEN Thr!Main ELSE 0)
      /\ \A u \in ThrWorkers : /\ v3[u].pc = "start" <=> v5.state[u] = "ALIVE"
                               /\ v3[u].pc \in {"start", "signal", "done"}
                               /\ v5.state[u] = "JOINED" => v3[u].pc = "done"
      /\ v5.unjoined = Cardinality(T) /\ v5.avail = 0 /\ v4.n = Cardinality(J)
      /\ v4.pc \in {"start", "waiting", "relock"} => v4.n # Cardinality(ThrWorkers)
      /\ v4.pc = "exit" => v4.n = Cardinality(ThrWorkers)
      /\ v4.pc = "waiting" => \/ v5.unjoined = 0 /\ \E u \in ThrWorkers : v3[u].pc # "done"
                              \/ \E u \in ThrWorkers : v3[u].pc = "signal"
  BY ThrCardinality DEF Thr!JoinInv, Thr!Done, Thr!WakeupToCome, Thr!At
<1>3. /\ v3 \in [ThrWorkers -> Thr!ThreadStates] /\ v4 \in [pc : Thr!MainLabels, n : Nat, done : BOOLEAN]
      /\ v5.state \in [ThrWorkers -> {"ALIVE", "TERMINATED", "JOINED"}] /\ v5.unjoined \in Nat
  BY DEF Thr!TypeOK
<1>4. CASE v3[t].pc = "start"
  <2>1. /\ v4' = v4 /\ Thr!Go(t, "signal")
        /\ v5' = [v5 EXCEPT !.unjoined = @ + 1, !.state = [@ EXCEPT ![t] = "TERMINATED"]]
    BY <1>4 DEF Thr!ThreadDies, Thr!At
  <2>2. /\ v3' \in [ThrWorkers -> Thr!ThreadStates] /\ v3'[t].pc = "signal"
        /\ \A u \in ThrWorkers \ {t} : v3'[u] = v3[u]
    BY <2>1, ThrGo DEF Thr!Labels
  <2>3. v5'.unjoined = v5.unjoined + 1 /\ v5'.avail = v5.avail /\ v5'.state = [v5.state EXCEPT ![t] = "TERMINATED"]
    BY <2>1 DEF Thr!TypeOK
  <2>4. Thr!TypeOK'
    <3>1. v5.unjoined + 1 \in Nat /\ [v5.state EXCEPT ![t] = "TERMINATED"] \in [ThrWorkers -> {"ALIVE", "TERMINATED", "JOINED"}]
      BY <1>3
    <3> QED
      BY <1>1, <2>1, <2>2, <3>1 DEF Thr!TypeOK
  <2>5. v5.state[t] = "ALIVE"
    BY <1>2, <1>4
  <2>6. T' = T \cup {t} /\ J' = J
    BY <1>3, <2>3, <2>5
  <2>7. Cardinality(T') = Cardinality(T) + 1
    <3>1. IsFiniteSet(T) /\ t \notin T
      BY <2>5, ThrBounds, FS_Subset
    <3> QED
      BY <2>6, <3>1, FS_AddElement
  <2>8. /\ \A u \in ThrWorkers : /\ v3'[u].pc = "start" <=> v5'.state[u] = "ALIVE"
                                 /\ v3'[u].pc \in {"start", "signal", "done"}
                                 /\ v5'.state[u] = "JOINED" => v3'[u].pc = "done"
    BY <1>2, <1>3, <2>2, <2>3
  <2>9. v5'.unjoined = Cardinality(T') /\ v5'.avail = 0 /\ v4'.n = Cardinality(J') /\ \E u \in ThrWorkers : v3'[u].pc = "signal"
    BY <1>2, <2>1, <2>2, <2>3, <2>6, <2>7
  <2>10. (Thr!WakeupToCome)'
    BY <1>1, <2>9 DEF Thr!WakeupToCome, Thr!At
  <2> QED
    BY <1>1, <1>2, <2>1, <2>4, <2>8, <2>9, <2>10, ThrCardinality DEF Thr!JoinInv, Thr!Done, Thr!At, Thr!Main
<1>5. CASE v3[t].pc = "signal"
  <2>1. v4' = (IF v4.pc = "waiting" THEN [v4 EXCEPT !.pc = "relock"] ELSE v4) /\ v5' = v5 /\ Thr!Go(t, "done")
    BY <1>5 DEF Thr!ThreadDies, Thr!At
  <2>2. /\ v3' \in [ThrWorkers -> Thr!ThreadStates] /\ v3'[t].pc = "done"
        /\ \A u \in ThrWorkers \ {t} : v3'[u] = v3[u]
    BY <2>1, ThrGo DEF Thr!Labels
  <2>3. /\ v4' \in [pc : Thr!MainLabels, n : Nat, done : BOOLEAN] /\ v4'.n = v4.n
        /\ v4'.pc = IF v4.pc = "waiting" THEN "relock" ELSE v4.pc
    BY <1>3, <2>1 DEF Thr!MainLabels
  <2>4. Thr!TypeOK'
    BY <1>1, <2>1, <2>2, <2>3 DEF Thr!TypeOK
  <2>5. /\ \A u \in ThrWorkers : /\ v3'[u].pc = "start" <=> v5'.state[u] = "ALIVE"
                                 /\ v3'[u].pc \in {"start", "signal", "done"}
                                 /\ v5'.state[u] = "JOINED" => v3'[u].pc = "done"
    BY <1>2, <1>5, <2>1, <2>2
  <2>6. (Thr!WakeupToCome)'
    BY <1>1, <2>3 DEF Thr!WakeupToCome, Thr!At
  <2> QED
    BY <1>1, <1>2, <2>1, <2>3, <2>4, <2>5, <2>6, ThrCardinality DEF Thr!JoinInv, Thr!Done, Thr!At, Thr!Main
<1> QED
  BY <1>4, <1>5 DEF Thr!ThreadDies, Thr!At

LEMMA ThrJoins ==
  ASSUME Thr!TypeOK, v1 = "multijoin", Thr!JoinInv, Thr!JoinTerminated \/ Thr!Spurious
  PROVE  Thr!TypeOK' /\ v1' = v1 /\ Thr!JoinInv'
<1> DEFINE T == {u \in ThrWorkers : v5.state[u] = "TERMINATED"}
           J == {u \in ThrWorkers : v5.state[u] = "JOINED"}
<1>1. v1' = v1 /\ v3' = v3
  BY DEF Thr!JoinTerminated, Thr!Spurious
<1>2. /\ v4.pc \in {"start", "waiting", "relock", "pass", "exit"}
      /\ v2 = (IF v4.pc = "pass" THEN Thr!Main ELSE 0)
      /\ \A u \in ThrWorkers : /\ v3[u].pc = "start" <=> v5.state[u] = "ALIVE"
                               /\ v3[u].pc \in {"start", "signal", "done"}
                               /\ v5.state[u] = "JOINED" => v3[u].pc = "done"
      /\ v5.unjoined = Cardinality(T) /\ v5.avail = 0 /\ v4.n = Cardinality(J)
      /\ v4.pc \in {"start", "waiting", "relock"} => v4.n # Cardinality(ThrWorkers)
      /\ v4.pc = "exit" => v4.n = Cardinality(ThrWorkers)
  BY ThrCardinality DEF Thr!JoinInv, Thr!Done, Thr!At
<1>3. /\ v4 \in [pc : Thr!MainLabels, n : Nat, done : BOOLEAN] /\ v4.n \in Nat
      /\ v5.state \in [ThrWorkers -> {"ALIVE", "TERMINATED", "JOINED"}] /\ v5.unjoined \in Nat
  BY DEF Thr!TypeOK
<1>4. IsFiniteSet(T) /\ IsFiniteSet(J)
  BY ThrBounds, FS_Subset
<1>5. ASSUME NEW l \in Thr!MainLabels, v4' = [v4 EXCEPT !.pc = l]
      PROVE  v4' \in [pc : Thr!MainLabels, n : Nat, done : BOOLEAN] /\ v4'.n = v4.n /\ v4'.pc = l
  BY <1>3, <1>5
<1>6. ASSUME v5' = v5, v4'.n = v4.n, v2' = (IF v4'.pc = "pass" THEN Thr!Main ELSE 0),
             v4' \in [pc : Thr!MainLabels, n : Nat, done : BOOLEAN],
             v4'.pc \in {"start", "waiting", "relock", "pass", "exit"},
             v4'.pc \in {"start", "waiting", "relock"} => v4.n # Cardinality(ThrWorkers),
             v4'.pc = "exit" => v4.n = Cardinality(ThrWorkers),
             v4'.pc = "waiting" => v5.unjoined = 0
      PROVE  Thr!TypeOK' /\ Thr!JoinInv'
  <2>1. Thr!TypeOK'
    BY <1>1, <1>6 DEF Thr!TypeOK
  <2>2. ASSUME v4'.pc = "waiting" PROVE \E u \in ThrWorkers : v3[u].pc # "done"
    <3>1. T = {}
      BY <1>2, <1>4, <1>6, <2>2, FS_EmptySet
    <3>2. J # ThrWorkers
      BY <1>2, <1>6, <2>2
    <3>3. PICK u \in ThrWorkers : v5.state[u] # "JOINED"
      BY <3>2
    <3>4. v5.state[u] = "ALIVE"
      BY <1>3, <3>1, <3>3
    <3> QED
      BY <1>2, <3>4
  <2>3. (Thr!WakeupToCome)'
    BY <1>1, <1>2, <1>6, <2>2 DEF Thr!WakeupToCome, Thr!At
  <2> QED
    BY <1>1, <1>2, <1>6, <2>1, <2>3, ThrCardinality DEF Thr!JoinInv, Thr!Done, Thr!At
<1>7. CASE Thr!Spurious
  <2>1. v4' = [v4 EXCEPT !.pc = "relock"] /\ v5' = v5 /\ v2' = v2 /\ v4.pc = "waiting"
    BY <1>7 DEF Thr!Spurious
  <2>2. v4' \in [pc : Thr!MainLabels, n : Nat, done : BOOLEAN] /\ v4'.n = v4.n /\ v4'.pc = "relock"
    BY <1>5, <2>1 DEF Thr!MainLabels
  <2> QED
    BY <1>1, <1>2, <1>6, <2>1, <2>2
<1>8. CASE v4.pc \in {"start", "relock"} /\ Thr!JoinTerminated
  <2>1. /\ v5' = v5
        /\ \/ v5.unjoined = 0 /\ v4' = [v4 EXCEPT !.pc = "waiting"] /\ v2' = v2
           \/ v4' = [v4 EXCEPT !.pc = "pass"] /\ v2' = Thr!Main
    BY <1>8 DEF Thr!JoinTerminated
  <2>2. /\ v4' \in [pc : Thr!MainLabels, n : Nat, done : BOOLEAN] /\ v4'.n = v4.n
        /\ ((v5.unjoined = 0 /\ v4'.pc = "waiting" /\ v2' = v2) \/ (v4'.pc = "pass" /\ v2' = Thr!Main))
    <3>2. CASE v5.unjoined = 0 /\ v4' = [v4 EXCEPT !.pc = "waiting"] /\ v2' = v2
      <4>1. v4' \in [pc : Thr!MainLabels, n : Nat, done : BOOLEAN] /\ v4'.n = v4.n /\ v4'.pc = "waiting"
        BY <1>3, <3>2 DEF Thr!MainLabels
      <4> QED
        BY <3>2, <4>1
    <3>3. CASE v4' = [v4 EXCEPT !.pc = "pass"] /\ v2' = Thr!Main
      <4>1. v4' \in [pc : Thr!MainLabels, n : Nat, done : BOOLEAN] /\ v4'.n = v4.n /\ v4'.pc = "pass"
        BY <1>3, <3>3 DEF Thr!MainLabels
      <4> QED
        BY <3>3, <4>1
    <3> QED
      BY <2>1, <3>2, <3>3
  <2> QED
    BY <1>1, <1>2, <1>6, <1>8, <2>1, <2>2
<1>9. ASSUME v4.pc = "pass", NEW t \in ThrWorkers, v5.state[t] = "TERMINATED", v3[t].pc = "done", v2' = v2,
             v5' = [v5 EXCEPT !.state = [@ EXCEPT ![t] = "JOINED"], !.unjoined = @ - 1], v4' = [v4 EXCEPT !.n = @ + 1]
      PROVE  Thr!TypeOK' /\ Thr!JoinInv'
  <2>1. v5'.unjoined = v5.unjoined - 1 /\ v5'.avail = v5.avail /\ v5'.state = [v5.state EXCEPT ![t] = "JOINED"]
    <3> DEFINE joined == [v5.state EXCEPT ![t] = "JOINED"]
               left == v5.unjoined - 1
    <3>1. v5' = [v5 EXCEPT !.state = joined, !.unjoined = left]
      BY <1>9
    <3> HIDE DEF joined, left
    <3>2. v5'.unjoined = left
      BY <3>1 DEF Thr!TypeOK
    <3>3. v5'.avail = v5.avail
      BY <3>1 DEF Thr!TypeOK
    <3>4. v5'.state = joined
      BY <3>1 DEF Thr!TypeOK
    <3> QED
      BY <3>2, <3>3, <3>4 DEF joined, left
  <2>2. T' = T \ {t} /\ J' = J \cup {t} /\ t \in T /\ t \notin J
    BY <1>3, <1>9, <2>1
  <2>3. Cardinality(T') = Cardinality(T) - 1 /\ Cardinality(J') = Cardinality(J) + 1
    BY <1>4, <2>2, FS_RemoveElement, FS_AddElement
  <2>4. Cardinality(T') \in Nat
    BY <1>4, <2>2, FS_RemoveElement, FS_CardinalityType
  <2>5. v5'.unjoined = Cardinality(T') /\ v5'.unjoined \in Nat /\ v5.unjoined - 1 \in Nat
    BY <1>2, <2>1, <2>3, <2>4
  <2>6. v4' \in [pc : Thr!MainLabels, n : Nat, done : BOOLEAN] /\ v4'.n = v4.n + 1 /\ v4'.pc = "pass"
    <3>1. v4.n + 1 \in Nat
      BY <1>3
    <3> QED
      BY <1>3, <1>9, <3>1
  <2>7. Thr!TypeOK'
    <3>1. [v5.state EXCEPT ![t] = "JOINED"] \in [ThrWorkers -> {"ALIVE", "TERMINATED", "JOINED"}]
      BY <1>3
    <3> QED
      BY <1>1, <1>9, <2>5, <2>6, <3>1 DEF Thr!TypeOK
  <2>8. /\ \A u \in ThrWorkers : /\ v3'[u].pc = "start" <=> v5'.state[u] = "ALIVE"
                                 /\ v3'[u].pc \in {"start", "signal", "done"}
                                 /\ v5'.state[u] = "JOINED" => v3'[u].pc = "done"
    BY <1>1, <1>2, <1>3, <1>9, <2>1
  <2>9. (Thr!WakeupToCome)'
    BY <1>1, <2>6 DEF Thr!WakeupToCome, Thr!At
  <2>10. v4'.n = Cardinality(J')
    BY <1>2, <2>3, <2>6
  <2> QED
    BY <1>1, <1>2, <1>9, <2>1, <2>5, <2>6, <2>7, <2>8, <2>9, <2>10, ThrCardinality DEF Thr!JoinInv, Thr!Done, Thr!At, Thr!Main
<1>10. ASSUME v4.pc = "pass", v2' = 0, v5' = v5, v4' = [v4 EXCEPT !.pc = IF v4.n = Cardinality(ThrWorkers) THEN "exit" ELSE "start"]
       PROVE  Thr!TypeOK' /\ Thr!JoinInv'
  <2> DEFINE l == IF v4.n = Cardinality(ThrWorkers) THEN "exit" ELSE "start"
  <2>1. l \in Thr!MainLabels /\ v4' = [v4 EXCEPT !.pc = l]
    BY <1>10 DEF Thr!MainLabels
  <2> HIDE DEF l
  <2>2. v4' \in [pc : Thr!MainLabels, n : Nat, done : BOOLEAN] /\ v4'.n = v4.n /\ v4'.pc = l
    BY <1>5, <2>1
  <2> QED
    BY <1>1, <1>6, <1>10, <2>2 DEF l
<1> QED
  <2>1. CASE Thr!JoinTerminated /\ v4.pc = "pass"
    BY <1>1, <1>9, <1>10, <2>1, ThrCardinality DEF Thr!JoinTerminated, Thr!At
  <2> QED
    BY <1>1, <1>7, <1>8, <2>1 DEF Thr!JoinTerminated

LEMMA ThrMultijoin ==
  ASSUME Thr!TypeOK, v1 = "multijoin", Thr!JoinInv, Thr!Next
  PROVE  Thr!TypeOK' /\ v1' = v1 /\ Thr!JoinInv'
<1>1. Thr!JoinTerminated \/ Thr!Spurious \/ \E t \in ThrWorkers : Thr!ThreadDies(t)
  BY DEF Thr!Next, Thr!thread_incr, Thr!thread_incr_mutex, Thr!thread_incr_rwlock, Thr!thread_incr_spinlock,
     Thr!thread_incr_psem, Thr!thread_lock_speed, Thr!Produce, Thr!one_time_init, Thr!BarrierWait,
     Thr!JoinAll, Thr!Consume, Thr!CancelledEarly, Thr!Cancelled, Thr!CleanupThread,
     Thr!cleanupHandler, Thr!Cancel, Thr!LetGo, Thr!JoinOne, Thr!StrerrorTest, Thr!Counting, Thr!Producing
<1> QED
  BY <1>1, ThrJoins, ThrDies

-----------------------------------------------------------------------------
(* Threads: one-time initialization, and the barrier.                      *)

LEMMA ThrMainExits ==
  ASSUME Thr!TypeOK, NEW l \in Thr!MainLabels, v4' = [v4 EXCEPT !.pc = l]
  PROVE  v4' \in [pc : Thr!MainLabels, n : Nat, done : BOOLEAN] /\ v4'.pc = l
<1>1. v4 \in [pc : Thr!MainLabels, n : Nat, done : BOOLEAN]
  BY DEF Thr!TypeOK
<1> QED
  BY <1>1

LEMMA ThrOnce ==
  ASSUME Thr!TypeOK, v1 = "once", Thr!OnceInv, Thr!Next
  PROVE  Thr!TypeOK' /\ v1' = v1 /\ Thr!OnceInv'
<1>1. Thr!JoinAll \/ \E t \in ThrWorkers : Thr!one_time_init(t)
  <2>1. v4.pc \in {"start", "exit"}
    BY DEF Thr!OnceInv
  <2> QED
    BY <2>1 DEF Thr!Next, Thr!thread_incr, Thr!thread_incr_mutex, Thr!thread_incr_rwlock, Thr!thread_incr_spinlock,
     Thr!thread_incr_psem, Thr!thread_lock_speed, Thr!Produce, Thr!ThreadDies, Thr!BarrierWait, Thr!Spurious,
     Thr!JoinTerminated, Thr!Consume, Thr!CancelledEarly, Thr!Cancelled, Thr!CleanupThread,
     Thr!cleanupHandler, Thr!Cancel, Thr!LetGo, Thr!JoinOne, Thr!StrerrorTest, Thr!Counting, Thr!Producing
<1>2. /\ v4.pc \in {"start", "exit"} /\ (v4.pc = "exit" => Thr!Ended)
      /\ v2 \in ThrWorkers \cup {0}
      /\ \A t \in ThrWorkers : /\ v3[t].pc \in {"start", "init", "done"}
                               /\ v2 = t <=> v3[t].pc = "init"
                               /\ v3[t].pc = "init" => ~v5.called
                               /\ v3[t].j > 0 => v5.called
      /\ v5.inits = IF v5.called THEN 1 ELSE 0
  BY DEF Thr!OnceInv, Thr!At, Thr!Done
<1>3. CASE Thr!JoinAll
  <2>1. v4' = [v4 EXCEPT !.pc = "exit"] /\ v1' = v1 /\ v2' = v2 /\ v3' = v3 /\ v5' = v5 /\ Thr!Ended
    BY <1>3 DEF Thr!JoinAll
  <2>2. v4' \in [pc : Thr!MainLabels, n : Nat, done : BOOLEAN] /\ v4'.pc = "exit"
    BY <2>1, ThrMainExits DEF Thr!MainLabels
  <2>3. Thr!Ended' /\ Thr!TypeOK'
    BY <2>1, <2>2 DEF Thr!Ended, Thr!TypeOK
  <2> QED
    BY <1>2, <2>1, <2>2, <2>3 DEF Thr!OnceInv, Thr!At, Thr!Done
<1>4. ASSUME NEW t \in ThrWorkers, Thr!one_time_init(t) PROVE Thr!TypeOK' /\ v1' = v1 /\ Thr!OnceInv'
  <2>1. v1' = v1 /\ v4' = v4 /\ 0 \notin ThrWorkers
    BY <1>4, ThrBounds DEF Thr!one_time_init
  <2>2. v4.pc = "start"
    BY <1>2, <1>4 DEF Thr!one_time_init, Thr!At, Thr!Ended
  <2>3. v3 \in [ThrWorkers -> Thr!ThreadStates] /\ v5.inits \in Nat /\ v5.called \in BOOLEAN /\ v3[t].j \in Nat
    BY DEF Thr!TypeOK, Thr!ThreadStates
  <2>4. CASE v3[t].pc = "start" /\ v5.called
    <3>1. Thr!Round(t, "start") /\ v2' = v2 /\ v5' = v5 /\ v2 = 0
      BY <1>4, <2>4 DEF Thr!one_time_init, Thr!At, Thr!Free
    <3>2. /\ v3' \in [ThrWorkers -> Thr!ThreadStates] /\ v3'[t].pc \in {"start", "done"}
          /\ \A u \in ThrWorkers \ {t} : v3'[u] = v3[u]
      BY <3>1, ThrRound
    <3>3. Thr!TypeOK'
      BY <2>1, <3>1, <3>2 DEF Thr!TypeOK
    <3> QED
      BY <1>2, <2>1, <2>2, <2>4, <3>1, <3>2, <3>3 DEF Thr!OnceInv, Thr!At, Thr!Done
  <2>5. CASE v3[t].pc = "start" /\ ~v5.called
    <3>1. Thr!Go(t, "init") /\ v2' = t /\ v5' = v5 /\ v2 = 0
      BY <1>4, <2>5 DEF Thr!one_time_init, Thr!At, Thr!Free
    <3>2. /\ v3' \in [ThrWorkers -> Thr!ThreadStates] /\ v3'[t].pc = "init" /\ v3'[t].j = v3[t].j
          /\ \A u \in ThrWorkers \ {t} : v3'[u] = v3[u]
      BY <3>1, ThrGo DEF Thr!Labels
    <3>3. Thr!TypeOK'
      BY <2>1, <3>1, <3>2 DEF Thr!TypeOK
    <3> QED
      BY <1>2, <2>1, <2>2, <2>5, <3>1, <3>2, <3>3 DEF Thr!OnceInv, Thr!At, Thr!Done
  <2>6. CASE v3[t].pc = "init"
    <3>1. Thr!Round(t, "start") /\ v2' = 0 /\ v5' = [v5 EXCEPT !.called = TRUE, !.inits = @ + 1]
      BY <1>4, <2>6 DEF Thr!one_time_init, Thr!At
    <3>2. /\ v3' \in [ThrWorkers -> Thr!ThreadStates] /\ v3'[t].pc \in {"start", "done"}
          /\ \A u \in ThrWorkers \ {t} : v3'[u] = v3[u]
      BY <3>1, ThrRound
    <3>3. v5'.called = TRUE /\ v5'.inits = v5.inits + 1 /\ v5.inits + 1 \in Nat
      <4>1. v5'.called = TRUE /\ v5'.inits = v5.inits + 1
        BY <3>1 DEF Thr!TypeOK
      <4> QED
        BY <2>3, <4>1
    <3>4. Thr!TypeOK'
      BY <2>1, <3>1, <3>2, <3>3 DEF Thr!TypeOK
    <3>5. v2 = t /\ v5.inits = 0
      BY <1>2, <2>6
    <3> QED
      BY <1>2, <2>1, <2>2, <3>1, <3>2, <3>3, <3>4, <3>5 DEF Thr!OnceInv, Thr!At, Thr!Done
  <2> QED
    BY <1>4, <2>3, <2>4, <2>5, <2>6 DEF Thr!one_time_init, Thr!At
<1> QED
  BY <1>1, <1>3, <1>4

LEMMA ThrBarrier ==
  ASSUME Thr!TypeOK, v1 = "barrier", Thr!BarrierInv, Thr!Next
  PROVE  Thr!TypeOK' /\ v1' = v1 /\ Thr!BarrierInv'
<1>1. Thr!JoinAll \/ \E t \in ThrWorkers : Thr!BarrierWait(t)
  <2>1. v4.pc \in {"start", "exit"}
    BY DEF Thr!BarrierInv
  <2> QED
    BY <2>1 DEF Thr!Next, Thr!thread_incr, Thr!thread_incr_mutex, Thr!thread_incr_rwlock, Thr!thread_incr_spinlock,
     Thr!thread_incr_psem, Thr!thread_lock_speed, Thr!Produce, Thr!ThreadDies, Thr!one_time_init, Thr!Spurious,
     Thr!JoinTerminated, Thr!Consume, Thr!CancelledEarly, Thr!Cancelled, Thr!CleanupThread,
     Thr!cleanupHandler, Thr!Cancel, Thr!LetGo, Thr!JoinOne, Thr!StrerrorTest, Thr!Counting, Thr!Producing
<1>2. /\ v4.pc \in {"start", "exit"} /\ v2 = 0
      /\ \A t \in ThrWorkers : v3[t].j = IF v3[t].pc = "passed" THEN v5.serial - 1 ELSE v5.serial
  BY DEF Thr!BarrierInv, Thr!At
<1>3. CASE Thr!JoinAll
  <2>1. v4' = [v4 EXCEPT !.pc = "exit"] /\ v1' = v1 /\ v2' = v2 /\ v3' = v3 /\ v5' = v5
    BY <1>3 DEF Thr!JoinAll
  <2>2. v4' \in [pc : Thr!MainLabels, n : Nat, done : BOOLEAN] /\ v4'.pc = "exit"
    BY <2>1, ThrMainExits DEF Thr!MainLabels
  <2>3. Thr!TypeOK'
    BY <2>1, <2>2 DEF Thr!TypeOK
  <2> QED
    BY <1>2, <2>1, <2>2, <2>3 DEF Thr!BarrierInv, Thr!At
<1>4. ASSUME NEW t \in ThrWorkers, Thr!BarrierWait(t) PROVE Thr!TypeOK' /\ v1' = v1 /\ Thr!BarrierInv'
  <2>1. v1' = v1 /\ v4' = v4 /\ v2' = v2
    BY <1>4 DEF Thr!BarrierWait
  <2>2. v3 \in [ThrWorkers -> Thr!ThreadStates] /\ v5.serial \in Nat
    BY DEF Thr!TypeOK
  <2>3. \A u \in ThrWorkers : v3[u].j \in Nat /\ v3[u] \in Thr!ThreadStates
    BY <2>2 DEF Thr!ThreadStates
  <2>4. CASE v3[t].pc = "start" /\ Thr!Go(t, "barrier") /\ v5' = v5
    <3>1. /\ v3' \in [ThrWorkers -> Thr!ThreadStates] /\ v3'[t].pc = "barrier" /\ v3'[t].j = v3[t].j
          /\ \A u \in ThrWorkers \ {t} : v3'[u] = v3[u]
      BY <2>4, ThrGo DEF Thr!Labels
    <3>2. Thr!TypeOK'
      BY <2>1, <2>4, <3>1 DEF Thr!TypeOK
    <3> QED
      BY <1>2, <2>1, <2>4, <3>1, <3>2 DEF Thr!BarrierInv, Thr!At
  <2>5. CASE /\ \A u \in ThrWorkers : v3[u].pc = "barrier"
             /\ v5' = [v5 EXCEPT !.serial = @ + 1]
             /\ v3' = [u \in ThrWorkers |-> [v3[u] EXCEPT !.pc = "passed"]]
    <3>1. \A u \in ThrWorkers : [v3[u] EXCEPT !.pc = "passed"] \in Thr!ThreadStates
      BY <2>3 DEF Thr!ThreadStates, Thr!Labels
    <3>2. v3' \in [ThrWorkers -> Thr!ThreadStates]
      BY <2>5, <3>1
    <3>3. \A u \in ThrWorkers : v3'[u].pc = "passed" /\ v3'[u].j = v3[u].j
      BY <2>3, <2>5 DEF Thr!ThreadStates
    <3>4. v5'.serial = v5.serial + 1 /\ v5.serial + 1 \in Nat
      <4>1. v5'.serial = v5.serial + 1
        BY <2>5 DEF Thr!TypeOK
      <4> QED
        BY <2>2, <4>1
    <3>5. Thr!TypeOK'
      BY <2>1, <2>5, <3>2, <3>4 DEF Thr!TypeOK
    <3>6. \A u \in ThrWorkers : v3'[u].j = v5'.serial - 1
      BY <1>2, <2>2, <2>5, <3>3, <3>4
    <3> QED
      BY <1>2, <2>1, <3>3, <3>5, <3>6 DEF Thr!BarrierInv, Thr!At
  <2>6. CASE v3[t].pc = "passed" /\ Thr!Round(t, "start") /\ v5' = v5
    <3>1. /\ v3' \in [ThrWorkers -> Thr!ThreadStates] /\ v3'[t].pc # "passed" /\ v3'[t].j = v3[t].j + 1
          /\ \A u \in ThrWorkers \ {t} : v3'[u] = v3[u]
      BY <2>6, ThrRound
    <3>2. Thr!TypeOK'
      BY <2>1, <2>6, <3>1 DEF Thr!TypeOK
    <3>3. v3'[t].j = v5.serial
      BY <1>2, <2>2, <2>6, <3>1
    <3> QED
      BY <1>2, <2>1, <2>6, <3>1, <3>2, <3>3 DEF Thr!BarrierInv, Thr!At
  <2> QED
    BY <1>4, <2>4, <2>5, <2>6 DEF Thr!BarrierWait, Thr!At
<1> QED
  BY <1>1, <1>3, <1>4

-----------------------------------------------------------------------------
(* Threads: cancellation, and strerror().                                  *)

LEMMA ThrThread == Thr!Thread \in ThrWorkers
BY ThrBounds DEF Thr!Thread

LEMMA ThrData ==
  ASSUME Thr!TypeOK, NEW b \in BOOLEAN
  PROVE  /\ v5' = [v5 EXCEPT !.buf = b] =>
              v5'.buf = b /\ v5'.flag = v5.flag /\ v5'.cancel = v5.cancel /\ (v1' = v1 /\ v3' = v3 /\ v4' = v4 => Thr!TypeOK')
         /\ v5' = [v5 EXCEPT !.flag = b] => v5'.flag = b /\ v5'.buf = v5.buf /\ v5'.cancel = v5.cancel
         /\ v5' = [v5 EXCEPT !.cancel = b] => v5'.cancel = b /\ v5'.flag = v5.flag /\ v5'.buf = v5.buf
         /\ (\/ v5' = v5 \/ v5' = [v5 EXCEPT !.buf = b] \/ v5' = [v5 EXCEPT !.flag = b] \/ v5' = [v5 EXCEPT !.cancel = b])
              /\ v1' = v1 /\ v3' \in [ThrWorkers -> Thr!ThreadStates] /\ v4' \in [pc : Thr!MainLabels, n : Nat, done : BOOLEAN]
            => Thr!TypeOK'
<1>1. v5' = [v5 EXCEPT !.buf = b] => v5'.buf = b /\ v5'.flag = v5.flag /\ v5'.cancel = v5.cancel
  BY DEF Thr!TypeOK
<1>2. v5' = [v5 EXCEPT !.flag = b] => v5'.flag = b /\ v5'.buf = v5.buf /\ v5'.cancel = v5.cancel
  BY DEF Thr!TypeOK
<1>3. v5' = [v5 EXCEPT !.cancel = b] => v5'.cancel = b /\ v5'.flag = v5.flag /\ v5'.buf = v5.buf
  BY DEF Thr!TypeOK
<1>4. ASSUME \/ v5' = v5 \/ v5' = [v5 EXCEPT !.buf = b] \/ v5' = [v5 EXCEPT !.flag = b] \/ v5' = [v5 EXCEPT !.cancel = b],
             v1' = v1, v3' \in [ThrWorkers -> Thr!ThreadStates], v4' \in [pc : Thr!MainLabels, n : Nat, done : BOOLEAN]
      PROVE  Thr!TypeOK'
  <2>1. CASE v5' = v5
    BY <1>4, <2>1 DEF Thr!TypeOK
  <2>2. CASE v5' = [v5 EXCEPT !.buf = b]
    BY <1>4, <2>2 DEF Thr!TypeOK
  <2>3. CASE v5' = [v5 EXCEPT !.flag = b]
    BY <1>4, <2>3 DEF Thr!TypeOK
  <2>4. CASE v5' = [v5 EXCEPT !.cancel = b]
    BY <1>4, <2>4 DEF Thr!TypeOK
  <2> QED
    BY <1>4, <2>1, <2>2, <2>3, <2>4
<1>5. v3' = v3 /\ v4' = v4 => v3' \in [ThrWorkers -> Thr!ThreadStates] /\ v4' \in [pc : Thr!MainLabels, n : Nat, done : BOOLEAN]
  BY DEF Thr!TypeOK
<1> QED
  BY <1>1, <1>2, <1>3, <1>4, <1>5

LEMMA ThrCleanup ==
  ASSUME Thr!TypeOK, v1 = "cleanup", Thr!CleanupInv, Thr!Next
  PROVE  Thr!TypeOK' /\ v1' = v1 /\ Thr!CleanupInv'
<1> DEFINE T == Thr!Thread
<1>1. \/ Thr!CancelledEarly \/ Thr!CleanupThread \/ Thr!cleanupHandler
      \/ Thr!Cancel \/ Thr!LetGo \/ Thr!JoinOne
  <2>1. v4.pc # "waiting"
    BY DEF Thr!CleanupInv
  <2> QED
    BY <2>1 DEF Thr!Next, Thr!thread_incr, Thr!thread_incr_mutex, Thr!thread_incr_rwlock, Thr!thread_incr_spinlock,
     Thr!thread_incr_psem, Thr!thread_lock_speed, Thr!Produce, Thr!ThreadDies, Thr!one_time_init, Thr!BarrierWait, Thr!Spurious,
     Thr!JoinAll, Thr!JoinTerminated, Thr!Consume, Thr!StrerrorTest, Thr!Counting, Thr!Producing
<1>2. /\ v4.pc \in {"start", "wake", "join", "exit"}
      /\ v3[T].pc \in {"start", "printed", "wait", "waiting", "relock", "done", "cancelled"}
      /\ v2 = (IF v3[T].pc = "wait" THEN T ELSE 0)
      /\ v5.flag => v4.pc # "start"
      /\ v3[T].pc = "waiting" /\ v5.flag => v4.pc = "wake"
      /\ v3[T].pc = "done" => ~v5.buf
      /\ v3[T].pc = "cancelled" => v5.cancel
      /\ v4.pc = "exit" => v3[T].pc \in {"done", "cancelled"}
  BY DEF Thr!CleanupInv, Thr!At, Thr!Done
<1>3. /\ T \in ThrWorkers /\ T # 0
      /\ v3 \in [ThrWorkers -> Thr!ThreadStates] /\ v4 \in [pc : Thr!MainLabels, n : Nat, done : BOOLEAN]
      /\ v5.flag \in BOOLEAN /\ v5.buf \in BOOLEAN /\ v5.cancel \in BOOLEAN
  BY ThrThread, ThrBounds DEF Thr!TypeOK
<1> HIDE DEF T
<1>4. ASSUME NEW l \in Thr!Labels, Thr!Go(T, l)
      PROVE  v3' \in [ThrWorkers -> Thr!ThreadStates] /\ v3'[T].pc = l
  BY <1>3, <1>4, ThrGo
<1>5. ASSUME Thr!TypeOK', v4'.pc \in {"start", "wake", "join", "exit"},
             v3'[T].pc \in {"start", "printed", "wait", "waiting", "relock", "done", "cancelled"},
             v2' = (IF v3'[T].pc = "wait" THEN T ELSE 0),
             v5'.flag => v4'.pc # "start", v3'[T].pc = "waiting" /\ v5'.flag => v4'.pc = "wake",
             v3'[T].pc = "done" => ~v5'.buf, v3'[T].pc = "cancelled" => v5'.cancel,
             v4'.pc = "exit" => v3'[T].pc \in {"done", "cancelled"}
      PROVE  Thr!TypeOK' /\ Thr!CleanupInv'
  BY <1>5 DEF Thr!CleanupInv, Thr!At, Thr!Done, T
<1>6. CASE Thr!CancelledEarly
  <2>1. Thr!Go(T, "cancelled") /\ v1' = v1 /\ v2' = v2 /\ v4' = v4 /\ v5' = v5 /\ v5.cancel /\ v3[T].pc \in {"start", "printed"}
    BY <1>6 DEF Thr!CancelledEarly, Thr!Cancelled, Thr!At, T
  <2>2. v3' \in [ThrWorkers -> Thr!ThreadStates] /\ v3'[T].pc = "cancelled"
    BY <1>4, <2>1 DEF Thr!Labels
  <2>3. Thr!TypeOK'
    BY <1>3, <2>1, <2>2, ThrData
  <2> QED
    BY <1>2, <1>5, <2>1, <2>2, <2>3
<1>7. CASE Thr!CleanupThread
  <2>1. v1' = v1 /\ v4' = v4
    BY <1>7 DEF Thr!CleanupThread
  <2>2. CASE v3[T].pc = "start" /\ Thr!Go(T, "printed") /\ v5' = [v5 EXCEPT !.buf = TRUE] /\ v2' = v2
    <3>1. v3' \in [ThrWorkers -> Thr!ThreadStates] /\ v3'[T].pc = "printed"
      BY <1>4, <2>2 DEF Thr!Labels
    <3>2. v5'.flag = v5.flag /\ v5'.cancel = v5.cancel /\ Thr!TypeOK'
      BY <1>3, <2>1, <2>2, <3>1, ThrData
    <3> QED
      BY <1>2, <1>5, <2>1, <2>2, <3>1, <3>2
  <2>3. CASE v3[T].pc \in {"printed", "relock"} /\ v2 = 0 /\ Thr!Go(T, "wait") /\ v2' = T /\ v5' = v5
    <3>1. v3' \in [ThrWorkers -> Thr!ThreadStates] /\ v3'[T].pc = "wait"
      BY <1>4, <2>3 DEF Thr!Labels
    <3>2. Thr!TypeOK'
      BY <1>3, <2>1, <2>3, <3>1, ThrData
    <3> QED
      BY <1>2, <1>5, <2>1, <2>3, <3>1, <3>2
  <2>4. CASE v3[T].pc = "wait" /\ ~v5.flag /\ Thr!Go(T, "waiting") /\ v2' = 0 /\ v5' = v5
    <3>1. v3' \in [ThrWorkers -> Thr!ThreadStates] /\ v3'[T].pc = "waiting"
      BY <1>4, <2>4 DEF Thr!Labels
    <3>2. Thr!TypeOK'
      BY <1>3, <2>1, <2>4, <3>1, ThrData
    <3> QED
      BY <1>2, <1>5, <2>1, <2>4, <3>1, <3>2
  <2> QED
    BY <1>7, <2>2, <2>3, <2>4 DEF Thr!CleanupThread, Thr!At, Thr!Free, T
<1>8. CASE Thr!cleanupHandler
  <2>1. /\ v1' = v1 /\ v4' = v4 /\ v5' = [v5 EXCEPT !.buf = FALSE]
        /\ \/ v3[T].pc = "waiting" /\ v5.cancel /\ v2 = 0 /\ Thr!Go(T, "cancelled") /\ v2' = v2
           \/ v3[T].pc = "wait" /\ v5.flag /\ Thr!Go(T, "done") /\ v2' = 0
    BY <1>8 DEF Thr!cleanupHandler, Thr!At, Thr!Free, T
  <2>2. /\ v3' \in [ThrWorkers -> Thr!ThreadStates]
        /\ ((v3[T].pc = "waiting" /\ v5.cancel /\ v3'[T].pc = "cancelled") \/ (v3[T].pc = "wait" /\ v3'[T].pc = "done"))
    <3>1. CASE v3[T].pc = "waiting" /\ v5.cancel /\ Thr!Go(T, "cancelled")
      <4>1. v3' \in [ThrWorkers -> Thr!ThreadStates] /\ v3'[T].pc = "cancelled"
        BY <1>4, <3>1 DEF Thr!Labels
      <4> QED
        BY <3>1, <4>1
    <3>2. CASE v3[T].pc = "wait" /\ Thr!Go(T, "done")
      <4>1. v3' \in [ThrWorkers -> Thr!ThreadStates] /\ v3'[T].pc = "done"
        BY <1>4, <3>2 DEF Thr!Labels
      <4> QED
        BY <3>2, <4>1
    <3> QED
      BY <2>1, <3>1, <3>2
  <2>3. v5'.flag = v5.flag /\ v5'.cancel = v5.cancel /\ v5'.buf = FALSE /\ Thr!TypeOK'
    BY <1>3, <2>1, <2>2, ThrData
  <2> QED
    BY <1>2, <1>5, <2>1, <2>2, <2>3
<1>9. CASE Thr!Cancel
  <2>1. v4' = [v4 EXCEPT !.pc = "join"] /\ v5' = [v5 EXCEPT !.cancel = TRUE] /\ v1' = v1 /\ v2' = v2 /\ v3' = v3 /\ v4.pc = "start"
    BY <1>9 DEF Thr!Cancel
  <2>2. v4' \in [pc : Thr!MainLabels, n : Nat, done : BOOLEAN] /\ v4'.pc = "join"
    BY <2>1, ThrMainExits DEF Thr!MainLabels
  <2>3. v5'.flag = v5.flag /\ v5'.cancel = TRUE /\ v5'.buf = v5.buf /\ Thr!TypeOK'
    BY <1>3, <2>1, <2>2, ThrData
  <2> QED
    BY <1>2, <1>5, <2>1, <2>2, <2>3
<1>10. CASE Thr!LetGo
  <2>1. v1' = v1 /\ v2' = v2
    BY <1>10 DEF Thr!LetGo
  <2>2. CASE v4.pc = "start" /\ v2 = 0 /\ v4' = [v4 EXCEPT !.pc = "wake"] /\ v5' = [v5 EXCEPT !.flag = TRUE] /\ v3' = v3
    <3>1. v4' \in [pc : Thr!MainLabels, n : Nat, done : BOOLEAN] /\ v4'.pc = "wake"
      BY <2>2, ThrMainExits DEF Thr!MainLabels
    <3>2. v5'.flag = TRUE /\ v5'.cancel = v5.cancel /\ v5'.buf = v5.buf /\ Thr!TypeOK'
      BY <1>3, <2>1, <2>2, <3>1, ThrData
    <3> QED
      BY <1>2, <1>5, <2>1, <2>2, <3>1, <3>2
  <2>3. CASE v4.pc = "wake" /\ v4' = [v4 EXCEPT !.pc = "join"] /\ v5' = v5
             /\ IF v3[T].pc = "waiting" THEN Thr!Go(T, "relock") ELSE v3' = v3
    <3>1. v4' \in [pc : Thr!MainLabels, n : Nat, done : BOOLEAN] /\ v4'.pc = "join"
      BY <2>3, ThrMainExits DEF Thr!MainLabels
    <3>2. v3' \in [ThrWorkers -> Thr!ThreadStates] /\ v3'[T].pc = IF v3[T].pc = "waiting" THEN "relock" ELSE v3[T].pc
      BY <1>3, <1>4, <2>3 DEF Thr!Labels
    <3>3. Thr!TypeOK'
      BY <1>3, <2>1, <2>3, <3>1, <3>2, ThrData
    <3> QED
      BY <1>2, <1>5, <2>1, <2>3, <3>1, <3>2, <3>3
  <2> QED
    BY <1>10, <2>2, <2>3 DEF Thr!LetGo, Thr!At, Thr!Free, T
<1>11. CASE Thr!JoinOne
  <2>1. /\ v4' = [v4 EXCEPT !.pc = "exit"] /\ v1' = v1 /\ v2' = v2 /\ v3' = v3 /\ v5' = v5
        /\ v4.pc = "join" /\ v3[T].pc \in {"done", "cancelled"}
    BY <1>11 DEF Thr!JoinOne, T
  <2>2. v4' \in [pc : Thr!MainLabels, n : Nat, done : BOOLEAN] /\ v4'.pc = "exit"
    BY <2>1, ThrMainExits DEF Thr!MainLabels
  <2>3. Thr!TypeOK'
    BY <1>3, <2>1, <2>2, ThrData
  <2> QED
    BY <1>2, <1>5, <2>1, <2>2, <2>3
<1>12. v1' = v1
  BY <1>1 DEF Thr!CancelledEarly, Thr!CleanupThread, Thr!cleanupHandler, Thr!Cancel, Thr!LetGo, Thr!JoinOne
<1> QED
  BY <1>1, <1>6, <1>7, <1>8, <1>9, <1>10, <1>11, <1>12

LEMMA ThrCancelKind ==
  ASSUME Thr!TypeOK, v1 = "cancel", v4.pc \in {"start", "join", "exit"}, v2 = 0, Thr!Next
  PROVE  Thr!TypeOK' /\ v1' = v1 /\ v4'.pc \in {"start", "join", "exit"} /\ v2' = 0
<1>1. Thr!CancelledEarly \/ Thr!Cancel \/ Thr!JoinOne
  BY DEF Thr!Next, Thr!thread_incr, Thr!thread_incr_mutex, Thr!thread_incr_rwlock, Thr!thread_incr_spinlock,
     Thr!thread_incr_psem, Thr!thread_lock_speed, Thr!Produce, Thr!ThreadDies, Thr!one_time_init, Thr!BarrierWait, Thr!Spurious,
     Thr!JoinAll, Thr!JoinTerminated, Thr!Consume, Thr!StrerrorTest, Thr!CleanupThread, Thr!cleanupHandler, Thr!LetGo,
     Thr!Counting, Thr!Producing
<1>2. v3 \in [ThrWorkers -> Thr!ThreadStates] /\ v4 \in [pc : Thr!MainLabels, n : Nat, done : BOOLEAN]
  BY DEF Thr!TypeOK
<1>3. CASE Thr!CancelledEarly
  <2>1. Thr!Go(Thr!Thread, "cancelled") /\ v1' = v1 /\ v2' = v2 /\ v4' = v4 /\ v5' = v5
    BY <1>3 DEF Thr!CancelledEarly
  <2>2. v3' \in [ThrWorkers -> Thr!ThreadStates]
    BY <2>1, ThrGo, ThrThread DEF Thr!Labels
  <2> QED
    BY <1>2, <2>1, <2>2, ThrData
<1>4. CASE Thr!Cancel
  <2>1. v4' = [v4 EXCEPT !.pc = "join"] /\ v5' = [v5 EXCEPT !.cancel = TRUE] /\ v1' = v1 /\ v2' = v2 /\ v3' = v3
    BY <1>4 DEF Thr!Cancel
  <2>2. v4' \in [pc : Thr!MainLabels, n : Nat, done : BOOLEAN] /\ v4'.pc = "join"
    BY <2>1, ThrMainExits DEF Thr!MainLabels
  <2> QED
    BY <1>2, <2>1, <2>2, ThrData
<1>5. CASE Thr!JoinOne
  <2>1. v4' = [v4 EXCEPT !.pc = "exit"] /\ v1' = v1 /\ v2' = v2 /\ v3' = v3 /\ v5' = v5
    BY <1>5 DEF Thr!JoinOne
  <2>2. v4' \in [pc : Thr!MainLabels, n : Nat, done : BOOLEAN] /\ v4'.pc = "exit"
    BY <2>1, ThrMainExits DEF Thr!MainLabels
  <2> QED
    BY <1>2, <2>1, <2>2, ThrData
<1> QED
  BY <1>1, <1>3, <1>4, <1>5

LEMMA ThrStrerror ==
  ASSUME Thr!TypeOK, v1 \in {"strerror", "strerror_tls", "strerror_tsd"}, Thr!StrerrorInv, Thr!Next
  PROVE  Thr!TypeOK' /\ v1' = v1 /\ Thr!StrerrorInv'
<1> DEFINE B == {"static", "main", "thread"}
           S == {"", "EINVAL", "EPERM"}
<1>1. Thr!StrerrorTest
  <2>1. v4.pc # "waiting"
    BY DEF Thr!StrerrorInv
  <2> QED
    BY <2>1 DEF Thr!Next, Thr!thread_incr, Thr!thread_incr_mutex, Thr!thread_incr_rwlock, Thr!thread_incr_spinlock,
     Thr!thread_incr_psem, Thr!thread_lock_speed, Thr!Produce, Thr!ThreadDies, Thr!one_time_init, Thr!BarrierWait, Thr!Spurious,
     Thr!JoinAll, Thr!JoinTerminated, Thr!Consume, Thr!CancelledEarly, Thr!Cancelled, Thr!CleanupThread,
     Thr!cleanupHandler, Thr!Cancel, Thr!LetGo, Thr!JoinOne, Thr!Counting, Thr!Producing
<1>2. v1' = v1 /\ v2' = v2
  BY <1>1 DEF Thr!StrerrorTest
<1>3. v4.pc \in {"start", "create", "exit"} /\ v2 = 0 /\ (v4.pc # "start" /\ v1 # "strerror" => v5.str["main"] = "EINVAL")
  BY DEF Thr!StrerrorInv
<1>4. v3 \in [ThrWorkers -> Thr!ThreadStates] /\ v4 \in [pc : Thr!MainLabels, n : Nat, done : BOOLEAN] /\ v5.str \in [B -> S]
  BY DEF Thr!TypeOK
<1>5. /\ Thr!strerrorBuf(Thr!Main) \in B /\ Thr!strerrorBuf(Thr!Thread) \in B
      /\ v1 # "strerror" => Thr!strerrorBuf(Thr!Main) = "main" /\ Thr!strerrorBuf(Thr!Thread) = "thread"
  <2>1. Thr!Thread # Thr!Main
    BY ThrThread, ThrBounds DEF Thr!Main
  <2> QED
    BY <2>1 DEF Thr!strerrorBuf
<1>6. ASSUME NEW b \in B, NEW m \in S, v5' = [v5 EXCEPT !.str = [@ EXCEPT ![b] = m]],
             v3' \in [ThrWorkers -> Thr!ThreadStates], v4' \in [pc : Thr!MainLabels, n : Nat, done : BOOLEAN]
      PROVE  Thr!TypeOK' /\ v5'.str["main"] = IF b = "main" THEN m ELSE v5.str["main"]
  <2>1. [v5.str EXCEPT ![b] = m] \in [B -> S]
    BY <1>4
  <2>2. v5'.str = [v5.str EXCEPT ![b] = m]
    BY <1>6 DEF Thr!TypeOK
  <2>3. v5'.str["main"] = IF b = "main" THEN m ELSE v5.str["main"]
    BY <1>4, <2>2
  <2>4. v5' = [v5 EXCEPT !.str = [v5.str EXCEPT ![b] = m]]
    BY <1>6
  <2>5. Thr!TypeOK'
    BY <1>2, <1>6, <2>1, <2>4 DEF Thr!TypeOK
  <2> QED
    BY <2>3, <2>5
<1>7. CASE /\ v4.pc = "start" /\ v4' = [v4 EXCEPT !.pc = "create"] /\ v3' = v3
           /\ v5' = [v5 EXCEPT !.str = [@ EXCEPT ![Thr!strerrorBuf(Thr!Main)] = "EINVAL"]]
  <2>1. v4' \in [pc : Thr!MainLabels, n : Nat, done : BOOLEAN] /\ v4'.pc = "create"
    BY <1>7, ThrMainExits DEF Thr!MainLabels
  <2>2. Thr!TypeOK' /\ (v1 # "strerror" => v5'.str["main"] = "EINVAL")
    BY <1>4, <1>5, <1>6, <1>7, <2>1
  <2> QED
    BY <1>2, <1>3, <2>1, <2>2 DEF Thr!StrerrorInv
<1>8. CASE /\ v4.pc = "create" /\ Thr!Go(Thr!Thread, "done") /\ v4' = v4
           /\ v5' = [v5 EXCEPT !.str = [@ EXCEPT ![Thr!strerrorBuf(Thr!Thread)] = "EPERM"]]
  <2>1. v3' \in [ThrWorkers -> Thr!ThreadStates]
    BY <1>8, ThrGo, ThrThread DEF Thr!Labels
  <2>2. Thr!TypeOK' /\ (v1 # "strerror" => v5'.str["main"] = v5.str["main"])
    BY <1>4, <1>5, <1>6, <1>8, <2>1
  <2> QED
    BY <1>2, <1>3, <1>8, <2>2 DEF Thr!StrerrorInv
<1>9. CASE v4.pc = "create" /\ v4' = [v4 EXCEPT !.pc = "exit"] /\ v3' = v3 /\ v5' = v5
  <2>1. v4' \in [pc : Thr!MainLabels, n : Nat, done : BOOLEAN] /\ v4'.pc = "exit"
    BY <1>9, ThrMainExits DEF Thr!MainLabels
  <2>2. Thr!TypeOK'
    BY <1>2, <1>9, <2>1 DEF Thr!TypeOK
  <2> QED
    BY <1>2, <1>3, <1>9, <2>1, <2>2 DEF Thr!StrerrorInv
<1> QED
  BY <1>1, <1>7, <1>8, <1>9, <1>2 DEF Thr!StrerrorTest

-----------------------------------------------------------------------------
LEMMA ThrInit == Thr!Init => Thr!IInv
<1> SUFFICES ASSUME Thr!Init PROVE Thr!IInv
  OBVIOUS
<1>1. Thr!TypeOK
  BY ThrTypeInit
<1>2. /\ v2 = 0 /\ v4 = [pc |-> "start", n |-> 0, done |-> FALSE]
      /\ \A t \in ThrWorkers : v3[t].pc = "start" /\ v3[t].j = 0 /\ v3[t].k = 0 /\ v3[t].loc = 0
  BY DEF Thr!Init
<1>3. /\ v5.glob = 0 /\ v5.avail = 0 /\ v5.unjoined = 0 /\ v5.called = FALSE /\ v5.inits = 0 /\ v5.serial = 0
      /\ v5.flag = FALSE /\ v5.cancel = FALSE /\ v5.buf = FALSE /\ \A t \in ThrWorkers : v5.state[t] = "ALIVE"
  BY DEF Thr!Init
<1>4. ThrLoops \in Nat /\ ThrLoops >= 2 /\ 0 \notin ThrWorkers /\ \E t \in ThrWorkers : TRUE
  BY ThrBounds
<1>5. \A t \in ThrWorkers : Thr!Turns[t] = 0
  BY <1>2 DEF Thr!Turns
<1>6. Thr!Cardinality(Thr!DoneSoFar) = 0
  <2>1. ASSUME NEW x \in Thr!DoneSoFar PROVE FALSE
    BY <1>5, ThrDone, <1>1 DEF Thr!DoneSoFar
  <2>2. Thr!DoneSoFar = {}
    BY <2>1
  <2> QED
    BY <2>2, ThrCardinality, FS_EmptySet
<1>7. v1 \in Thr!Counting => Thr!CountInv
  BY <1>2, <1>3, <1>4, <1>5, <1>6 DEF Thr!CountInv, Thr!InRound, Thr!Done, Thr!At
<1>8. v1 \in Thr!Producing => Thr!ProduceInv
  <2>1. Thr!Cardinality(ThrWorkers) \in Nat /\ Thr!Cardinality(ThrWorkers) >= 1
    BY <1>1, ThrDone
  <2>2. ThrLoops * Thr!Cardinality(ThrWorkers) > 0
    BY <1>4, <2>1
  <2>3. v4.n = 0 /\ v4.pc = "start" /\ v4.done = FALSE /\ v4.n + v5.avail = 0
    BY <1>2, <1>3
  <2>4. \A t \in ThrWorkers : Thr!InRound(t, {"start", "signal"}) /\ v3[t].k = 0
    BY <1>2, <1>4 DEF Thr!InRound
  <2>5. v4.done <=> v4.n >= ThrLoops * Thr!Cardinality(ThrWorkers)
    BY <2>2, <2>3, <2>1, <1>4
  <2>6. Thr!WakeupToCome
    BY <1>3, <2>3 DEF Thr!WakeupToCome
  <2> QED
    BY <1>2, <1>3, <1>6, <2>3, <2>4, <2>5, <2>6 DEF Thr!ProduceInv, Thr!Done
<1>9. v1 = "multijoin" => Thr!JoinInv
  <2>1. {t \in ThrWorkers : v5.state[t] = "TERMINATED"} = {} /\ {t \in ThrWorkers : v5.state[t] = "JOINED"} = {}
    BY <1>3
  <2>2. Thr!Cardinality({}) = 0 /\ Thr!Cardinality(ThrWorkers) >= 1
    BY <1>1, ThrDone, ThrCardinality, FS_EmptySet
  <2> QED
    BY <1>2, <1>3, <2>1, <2>2 DEF Thr!JoinInv, Thr!Done, Thr!At, Thr!WakeupToCome
<1>10. v1 = "once" => Thr!OnceInv
  BY <1>2, <1>3, <1>4 DEF Thr!OnceInv, Thr!Done, Thr!At
<1>11. v1 = "barrier" => Thr!BarrierInv
  BY <1>2, <1>3 DEF Thr!BarrierInv, Thr!At
<1>12. v1 = "cleanup" => Thr!CleanupInv
  BY <1>2, <1>3, ThrThread DEF Thr!CleanupInv, Thr!At, Thr!Done
<1>13. v1 \in {"strerror", "strerror_tls", "strerror_tsd"} => Thr!StrerrorInv
  BY <1>2 DEF Thr!StrerrorInv
<1> QED
  BY <1>1, <1>2, <1>7, <1>8, <1>9, <1>10, <1>11, <1>12, <1>13 DEF Thr!IInv

LEMMA ThrNext == Thr!IInv /\ [Thr!Next]_(Thr!vars) => Thr!IInv'
<1> SUFFICES ASSUME Thr!IInv, [Thr!Next]_(Thr!vars) PROVE Thr!IInv'
  OBVIOUS
<1>1. CASE Thr!Next
  <2>1. Thr!TypeOK' /\ v1' = v1
    BY <1>1, ThrCounting, ThrProducing, ThrMultijoin, ThrOnce, ThrBarrier, ThrCleanup, ThrCancelKind, ThrStrerror
       DEF Thr!IInv, Thr!TypeOK, Thr!Kinds
  <2>2. v1 \in Thr!Counting => Thr!CountInv'
    BY <1>1, ThrCounting DEF Thr!IInv
  <2>3. v1 \in Thr!Producing => Thr!ProduceInv'
    BY <1>1, ThrProducing DEF Thr!IInv
  <2>4. v1 = "multijoin" => Thr!JoinInv'
    BY <1>1, ThrMultijoin DEF Thr!IInv
  <2>5. v1 = "once" => Thr!OnceInv'
    BY <1>1, ThrOnce DEF Thr!IInv
  <2>6. v1 = "barrier" => Thr!BarrierInv'
    BY <1>1, ThrBarrier DEF Thr!IInv
  <2>7. v1 = "cleanup" => Thr!CleanupInv'
    BY <1>1, ThrCleanup DEF Thr!IInv
  <2>8. v1 = "cancel" => v4'.pc \in {"start", "join", "exit"} /\ v2' = 0
    BY <1>1, ThrCancelKind DEF Thr!IInv
  <2>9. v1 \in {"strerror", "strerror_tls", "strerror_tsd"} => Thr!StrerrorInv'
    BY <1>1, ThrStrerror DEF Thr!IInv
  <2> QED
    BY <2>1, <2>2, <2>3, <2>4, <2>5, <2>6, <2>7, <2>8, <2>9, Zenon DEF Thr!IInv
<1>2. CASE UNCHANGED Thr!vars
  <2>1. v1' = v1 /\ v2' = v2 /\ v3' = v3 /\ v4' = v4 /\ v5' = v5
    BY <1>2 DEF Thr!vars
  <2>2. Thr!Turns' = Thr!Turns /\ Thr!DoneSoFar' = Thr!DoneSoFar
    BY <2>1 DEF Thr!Turns, Thr!DoneSoFar, Thr!Most
  <2>3. Thr!TypeOK' <=> Thr!TypeOK
    BY <2>1 DEF Thr!TypeOK
  <2>4. Thr!CountInv' <=> Thr!CountInv
    BY <2>1, <2>2 DEF Thr!CountInv, Thr!InRound, Thr!At, Thr!Done, Thr!Ended
  <2>5. Thr!ProduceInv' <=> Thr!ProduceInv
    BY <2>1, <2>2 DEF Thr!ProduceInv, Thr!InRound, Thr!At, Thr!Done, Thr!WakeupToCome
  <2>6. Thr!JoinInv' <=> Thr!JoinInv
    BY <2>1 DEF Thr!JoinInv, Thr!At, Thr!Done, Thr!WakeupToCome
  <2>7. Thr!OnceInv' <=> Thr!OnceInv
    BY <2>1 DEF Thr!OnceInv, Thr!At, Thr!Done, Thr!Ended
  <2>8. (Thr!BarrierInv' <=> Thr!BarrierInv) /\ (Thr!CleanupInv' <=> Thr!CleanupInv) /\ (Thr!StrerrorInv' <=> Thr!StrerrorInv)
    BY <2>1 DEF Thr!BarrierInv, Thr!CleanupInv, Thr!StrerrorInv, Thr!At, Thr!Done
  <2> QED
    BY <2>1, <2>3, <2>4, <2>5, <2>6, <2>7, <2>8, Zenon DEF Thr!IInv
<1> QED
  BY <1>1, <1>2

LEMMA ThrSafe == Thr!IInv => Thr!WorkAccounted /\ Thr!WakeupToCome
<1> SUFFICES ASSUME Thr!IInv PROVE Thr!WorkAccounted /\ Thr!WakeupToCome
  OBVIOUS
<1> DEFINE n == Thr!Cardinality(ThrWorkers)
           c == Thr!Cardinality(Thr!DoneSoFar)
<1>1. Thr!TypeOK /\ v1 \in Thr!Kinds /\ v5.glob \in Nat /\ v5.avail \in Nat /\ v4.n \in Nat
  BY DEF Thr!IInv, Thr!TypeOK
<1>2. /\ ThrLoops \in Nat /\ n \in Nat /\ n >= 1 /\ c \in Nat /\ Thr!Most \in Nat /\ c <= Thr!Most * n
      /\ (\A t \in ThrWorkers : Thr!Turns[t] = Thr!Most) => c = Thr!Most * n
  BY <1>1, ThrDone, ThrBounds
<1> HIDE DEF n, c
<1>3. ASSUME v1 \in Thr!Counting, v4.pc = "exit"
      PROVE  /\ v2 = 0
             /\ v1 = "incr" => v5.glob \in 2..(n * ThrLoops)
             /\ v1 # "incr" => v5.glob = n * ThrLoops * (IF v1 = "lock_speed" THEN 2 ELSE 1)
  <2>1. Thr!CountInv
    BY <1>3 DEF Thr!IInv
  <2>2. \A t \in ThrWorkers : v3[t].pc = "done"
    BY <1>3, <2>1 DEF Thr!CountInv, Thr!Done, Thr!Ended, Thr!InRound
  <2>3. \A t \in ThrWorkers : Thr!Turns[t] = Thr!Most
    BY <1>1, <1>3, <2>1, <2>2, ThrTurnsBound DEF Thr!At
  <2>4. c = Thr!Most * n
    BY <1>2, <2>3
  <2>5. CASE v1 = "incr"
    <3>1. Thr!Most = ThrLoops
      BY <2>5 DEF Thr!Most
    <3>2. v5.glob >= 2 /\ v5.glob <= c /\ v2 = 0
      BY <2>1, <2>3, <2>5, <3>1 DEF Thr!CountInv, c
    <3>3. c = n * ThrLoops
      BY <1>2, <2>4, <3>1
    <3> QED
      BY <1>1, <1>2, <2>5, <3>2, <3>3
  <2>6. CASE v1 # "incr"
    <3>1. v5.glob = c /\ v2 = 0
      <4>1. v5.glob = c /\ v2 \in ThrWorkers \cup {0} /\ \A t \in ThrWorkers : v2 = t => v3[t].pc # "done"
        BY <2>1, <2>6 DEF Thr!CountInv, c
      <4> QED
        BY <2>2, <4>1
    <3>2. c = n * ThrLoops * (IF v1 = "lock_speed" THEN 2 ELSE 1)
      <4>1. CASE v1 = "lock_speed"
        <5>1. Thr!Most = 2 * ThrLoops
          BY <4>1 DEF Thr!Most
        <5> QED
          BY <1>2, <2>4, <4>1, <5>1
      <4>2. CASE v1 # "lock_speed"
        <5>1. Thr!Most = ThrLoops
          BY <4>2 DEF Thr!Most
        <5> QED
          BY <1>2, <2>4, <4>2, <5>1
      <4> QED
        BY <4>1, <4>2
    <3> QED
      BY <2>6, <3>1, <3>2
  <2> QED
    BY <2>5, <2>6
<1>4. ASSUME v1 \in Thr!Producing, v4.pc = "exit"
      PROVE  v2 = 0 /\ v4.n = n * ThrLoops /\ v5.avail = 0
  <2>1. v2 = 0 /\ v4.n + v5.avail = c /\ v4.n >= ThrLoops * n /\ Thr!ProduceInv
    BY <1>4 DEF Thr!IInv, Thr!ProduceInv, Thr!Done, n, c
  <2>2. Thr!Most = ThrLoops
    BY <1>1, <1>4, <2>1, ThrProduced
  <2>3. ThrLoops * n \in Nat /\ n * ThrLoops = ThrLoops * n
    BY <1>2
  <2> DEFINE k == ThrLoops * n
  <2>4. k \in Nat /\ v4.n + v5.avail <= k /\ v4.n >= k
    BY <1>2, <2>1, <2>2, <2>3
  <2> HIDE DEF k
  <2>5. v4.n = k /\ v5.avail = 0
    BY <1>1, <2>4
  <2> QED
    BY <2>1, <2>3, <2>5 DEF k
<1>5. ASSUME v1 = "multijoin", v4.pc = "exit"
      PROVE  v2 = 0 /\ \A t \in ThrWorkers : v5.state[t] = "JOINED" /\ v3[t].pc = "done"
  <2> DEFINE J == {t \in ThrWorkers : v5.state[t] = "JOINED"}
  <2>1. v2 = 0 /\ Cardinality(J) = Cardinality(ThrWorkers) /\ \A t \in ThrWorkers : v5.state[t] = "JOINED" => v3[t].pc = "done"
    BY <1>5, ThrCardinality DEF Thr!IInv, Thr!JoinInv, Thr!Done, Thr!At
  <2>2. J = ThrWorkers
    BY <2>1, ThrBounds, FS_Subset
  <2> QED
    BY <2>1, <2>2
<1>6. v4.pc = "exit" => v2 = 0
  <2>1. CASE v1 = "once"
    <3>1. /\ v4.pc = "exit" => \A t \in ThrWorkers : v3[t].pc \in {"done", "cancelled"}
          /\ v2 \in ThrWorkers \cup {0} /\ \A t \in ThrWorkers : v2 = t => v3[t].pc = "init"
      BY <2>1 DEF Thr!IInv, Thr!OnceInv, Thr!Done, Thr!Ended, Thr!At
    <3> QED
      BY <3>1
  <2>2. CASE v1 = "cleanup"
    BY <2>2 DEF Thr!IInv, Thr!CleanupInv, Thr!Done, Thr!At
  <2>3. CASE v1 \in {"barrier", "cancel", "strerror", "strerror_tls", "strerror_tsd"}
    BY <2>3 DEF Thr!IInv, Thr!BarrierInv, Thr!StrerrorInv
  <2> QED
    BY <1>1, <1>3, <1>4, <1>5, <2>1, <2>2, <2>3 DEF Thr!Kinds
<1>7. v1 = "once" => v5.inits <= 1 /\ ({t \in ThrWorkers : v3[t].j > 0} # {} => v5.inits = 1)
  BY DEF Thr!IInv, Thr!OnceInv
<1>8. v1 = "barrier" => \A t \in ThrWorkers : v3[t].j \in {v5.serial - 1, v5.serial}
  BY DEF Thr!IInv, Thr!BarrierInv
<1>9. v1 = "cleanup" /\ v4.pc = "exit" /\ v5.buf => v3[Thr!Thread].pc = "cancelled" /\ v5.cancel
  BY DEF Thr!IInv, Thr!CleanupInv, Thr!Done, Thr!At
<1>10. v1 \in {"strerror_tls", "strerror_tsd"} /\ v4.pc = "exit" => v5.str["main"] = "EINVAL"
  BY DEF Thr!IInv, Thr!StrerrorInv
<1>11. Thr!WorkAccounted
  BY <1>3, <1>4, <1>5, <1>6, <1>7, <1>8, <1>9, <1>10 DEF Thr!WorkAccounted, Thr!Done, Thr!At, n
<1>12. Thr!WakeupToCome
  <2>1. CASE v1 \in Thr!Producing \cup {"multijoin"}
    BY <2>1 DEF Thr!IInv, Thr!ProduceInv, Thr!JoinInv
  <2>2. CASE v1 \notin Thr!Producing \cup {"multijoin"}
    <3>1. v4.pc # "waiting"
      BY <1>1, <2>2 DEF Thr!IInv, Thr!Kinds, Thr!CountInv, Thr!OnceInv, Thr!BarrierInv, Thr!CleanupInv, Thr!StrerrorInv
    <3>2. v1 = "cleanup" /\ Thr!At(Thr!Thread, "waiting") /\ v5.flag => v4.pc = "wake"
      BY DEF Thr!IInv, Thr!CleanupInv
    <3> QED
      BY <3>1, <3>2 DEF Thr!WakeupToCome
  <2> QED
    BY <2>1, <2>2
<1> QED
  BY <1>11, <1>12

-----------------------------------------------------------------------------
(* EventLoops.  What one program does leaves nothing of another's.         *)

LEMMA LoopCardinality == \A S : Loops!Cardinality(S) = Cardinality(S)
BY Zenon DEF Loops!Cardinality, Cardinality

LEMMA LoopFinite == \A S : Loops!IsFiniteSet(S) <=> IsFiniteSet(S)
BY Zenon DEF Loops!IsFiniteSet, IsFiniteSet

LEMMA LoopInit == Loops!Init => Loops!IInv
<1> SUFFICES ASSUME Loops!Init PROVE Loops!IInv
  OBVIOUS
<1>1. /\ v1 \in {"self", "sigio", "input", "mq", "flags", "threads"} /\ v2 \in Loops!Options
      /\ v1 = "threads" => v2.shared /\ ~v2.oneshot /\ ~v2.excl /\ ~v2.read /\ ~v2.loop
      /\ v1 = "flags" => (v2.loop => v2.read)
      /\ v3 = [in |-> 0, sent |-> 0, sig |-> FALSE, hash |-> 0, open |-> TRUE]
  BY DEF Loops!Init, Loops!Options
<1>2. /\ v4 = [pc |-> "select", pipe |-> 0, caught |-> FALSE, says |-> {}, flag |-> FALSE, done |-> FALSE, printed |-> 0,
               list |-> <<>>, closed |-> {}, frames |-> <<>>, hdr |-> Loops!NoHeader]
      /\ v5 = [c \in LoopKids |-> [pc |-> "new", in |-> 0, open |-> TRUE, again |-> FALSE, queue |-> <<>>, all |-> <<>>,
                                   ready |-> FALSE, armed |-> TRUE, told |-> FALSE]]
  BY DEF Loops!Init
<1>3. v4 \in Loops!Mains
  <2>1. <<>> \in Seq(Loops!Frames) /\ <<>> \in Seq(Loops!Event) /\ <<>> \in Seq([hdr : Loops!Frames, body : Loops!Frames])
    OBVIOUS
  <2> HIDE DEF Loops!Frames
  <2> QED
    BY <1>2, <2>1 DEF Loops!Mains, Loops!Labels
<1>4. v5 \in [LoopKids -> Loops!OneOf]
  <2>1. <<>> \in Seq(0..1)
    OBVIOUS
  <2> QED
    BY <1>2, <2>1 DEF Loops!OneOf
<1>5. Loops!TypeOK
  BY <1>1, <1>3, <1>4 DEF Loops!TypeOK
<1>6. Loops!SelfInv /\ Loops!SigioInv
  BY <1>1, <1>2 DEF Loops!SelfInv, Loops!SigioInv, Loops!At
<1>7. Loops!InputInv
  <2>1. Loops!Unread = {}
    BY <1>2 DEF Loops!Unread
  <2>2. IsFiniteSet({}) /\ Loops!Cardinality({}) = 0
    BY FS_EmptySet, LoopCardinality
  <2>3. v4.printed = 0 /\ v4.closed = {} /\ v4.list = <<>> /\ v4.pc = "select" /\ v3.sent = 0
    BY <1>1, <1>2
  <2>4. \A f \in v4.closed : Loops!EndSeen(f)
    BY <2>3
  <2>5. \A j \in DOMAIN v4.list : FALSE
    BY <2>3
  <2>6. Loops!IsFiniteSet(Loops!Unread) /\ v4.printed + Loops!Cardinality(Loops!Unread) <= v3.sent
    BY <2>1, <2>2, <2>3, LoopFinite
  <2> QED
    BY <2>3, <2>4, <2>5, <2>6 DEF Loops!InputInv, Loops!At
<1>8. Loops!MessageInv /\ Loops!FramesInv /\ Loops!OrderInv
  <2>1. v4.frames = <<>> /\ v4.list = <<>> /\ v4.pc = "select"
    BY <1>2
  <2>2. \A q \in LoopKids : v5[q].queue = <<>> /\ v5[q].all = <<>>
    BY <1>2
  <2> QED
    BY <2>1, <2>2 DEF Loops!MessageInv, Loops!FramesInv, Loops!OrderInv, Loops!Holds, Loops!Started, Loops!At, Loops!Taken
<1>9. Loops!FlagsInv
  <2>1. v3.in = 0 /\ v3.sent = 0 /\ v3.open /\ \A c \in LoopKids : v5[c].armed /\ ~v5[c].told
    BY <1>1, <1>2
  <2> QED
    BY <2>1 DEF Loops!FlagsInv
<1> QED
  BY <1>5, <1>6, <1>7, <1>8, <1>9 DEF Loops!IInv

-----------------------------------------------------------------------------
(* EventLoops: self_pipe and demo_sigio.                                   *)

LEMMA LoopSelf == Loops!IInv /\ Loops!self_pipe => Loops!IInv'
<1> SUFFICES ASSUME Loops!IInv, Loops!self_pipe PROVE Loops!IInv'
  OBVIOUS
<1>1. v1 = "self" /\ v1' = v1 /\ v2' = v2 /\ v5' = v5
  BY DEF Loops!self_pipe, Loops!selfPipeHandler, Loops!InputComes, Loops!Select, Loops!DrainPipe, Loops!Mine
<1>2. Loops!TypeOK /\ Loops!SelfInv
  BY DEF Loops!IInv
<1>3. v4 \in Loops!Mains /\ v4.pipe \in Nat /\ v4.pc \in {"select", "drain", "exit"} /\ v4.caught \in BOOLEAN
  BY <1>1, <1>2 DEF Loops!TypeOK, Loops!SelfInv, Loops!Mains
<1>4. ASSUME v4' \in Loops!Mains, v3' \in [in : Nat, sent : Nat, sig : BOOLEAN, hash : Nat, open : BOOLEAN], Loops!SelfInv' PROVE Loops!IInv'
  <2>1. Loops!Mains' = Loops!Mains
    BY <1>1 DEF Loops!Mains
  <2>2. Loops!TypeOK'
    BY <1>1, <1>2, <1>4, <2>1 DEF Loops!TypeOK
  <2> QED
    BY <1>1, <1>4, <2>2 DEF Loops!IInv, Loops!SigioInv, Loops!InputInv, Loops!MessageInv, Loops!FramesInv, Loops!OrderInv, Loops!FlagsInv
<1>5. CASE Loops!selfPipeHandler
  <2> DEFINE held == IF v4.pipe < LoopPipe THEN v4.pipe + 1 ELSE v4.pipe
             seen == v4.caught \/ v4.pc = "select"
  <2>1. v4' = [v4 EXCEPT !.pipe = held, !.caught = seen] /\ v3' = [v3 EXCEPT !.sent = @ + 1]
    BY <1>5 DEF Loops!selfPipeHandler, Loops!Mine, Loops!At
  <2>2. held \in Nat /\ held > 0 /\ seen \in BOOLEAN
    BY <1>3, LoopBounds
  <2>3. v4' \in Loops!Mains /\ v4'.pipe = held /\ v4'.caught = seen /\ v4'.pc = v4.pc /\ v4'.says = v4.says
    <3> HIDE DEF held, seen
    <3> QED
      BY <1>3, <2>1, <2>2 DEF Loops!Mains
  <2>4. v3' \in [in : Nat, sent : Nat, sig : BOOLEAN, hash : Nat, open : BOOLEAN]
    BY <1>2, <2>1 DEF Loops!TypeOK
  <2>5. Loops!SelfInv'
    BY <1>1, <1>2, <1>3, <2>2, <2>3 DEF Loops!SelfInv, Loops!At
  <2> QED
    BY <1>4, <2>3, <2>4, <2>5
<1>6. CASE Loops!InputComes
  <2>1. v4' = v4 /\ v3' = [v3 EXCEPT !.in = 1]
    BY <1>6 DEF Loops!InputComes, Loops!Mine
  <2>2. v3' \in [in : Nat, sent : Nat, sig : BOOLEAN, hash : Nat, open : BOOLEAN]
    BY <1>2, <2>1 DEF Loops!TypeOK
  <2>3. Loops!SelfInv'
    BY <1>1, <1>2, <2>1 DEF Loops!SelfInv, Loops!At
  <2> QED
    BY <1>3, <1>4, <2>1, <2>2, <2>3
<1>7. CASE Loops!Select
  <2> DEFINE ready == (IF v4.pipe > 0 THEN {"signal"} ELSE {}) \cup (IF v3.in > 0 THEN {"fd"} ELSE {})
             l == IF "signal" \in ready THEN "drain" ELSE "exit"
  <2>1. v4.pc = "select" /\ v4' = [v4 EXCEPT !.says = ready, !.pc = l] /\ v3' = v3
    BY <1>7 DEF Loops!Select, Loops!Mine, Loops!At
  <2>2. ready \in SUBSET {"signal", "fd"} /\ ("signal" \in ready <=> v4.pipe > 0) /\ l \in {"drain", "exit"}
    OBVIOUS
  <2>3. v4' \in Loops!Mains /\ v4'.says = ready /\ v4'.pc = l /\ v4'.caught = v4.caught
    <3> HIDE DEF ready, l
    <3> QED
      BY <1>3, <2>1, <2>2 DEF Loops!Mains, Loops!Labels
  <2>4. v3' \in [in : Nat, sent : Nat, sig : BOOLEAN, hash : Nat, open : BOOLEAN]
    BY <1>2, <2>1 DEF Loops!TypeOK
  <2> HIDE DEF ready, l
  <2>5. Loops!SelfInv'
    BY <1>1, <1>2, <2>1, <2>2, <2>3 DEF Loops!SelfInv, Loops!At
  <2> QED
    BY <1>4, <2>3, <2>4, <2>5
<1>8. CASE Loops!DrainPipe
  <2>1. v4.pc = "drain" /\ v3' = v3
        /\ v4' = IF v4.pipe = 0 THEN [v4 EXCEPT !.pc = "exit"] ELSE [v4 EXCEPT !.pipe = @ - 1]
    BY <1>8 DEF Loops!DrainPipe, Loops!Mine, Loops!At
  <2>2. v4' \in Loops!Mains /\ v4'.pc \in {"drain", "exit"} /\ v4'.says = v4.says /\ v4'.caught = v4.caught
    <3>1. CASE v4.pipe = 0
      BY <1>3, <2>1, <3>1 DEF Loops!Mains, Loops!Labels
    <3>2. CASE v4.pipe # 0
      <4> DEFINE left == v4.pipe - 1
      <4>1. v4' = [v4 EXCEPT !.pipe = left] /\ left \in Nat
        BY <1>3, <2>1, <3>2
      <4> HIDE DEF left
      <4> QED
        BY <1>3, <2>1, <4>1 DEF Loops!Mains
    <3> QED
      BY <3>1, <3>2
  <2>3. v3' \in [in : Nat, sent : Nat, sig : BOOLEAN, hash : Nat, open : BOOLEAN]
    BY <1>2, <2>1 DEF Loops!TypeOK
  <2>4. Loops!SelfInv'
    BY <1>1, <1>2, <2>1, <2>2 DEF Loops!SelfInv, Loops!At
  <2> QED
    BY <1>4, <2>2, <2>3, <2>4
<1> QED
  BY <1>5, <1>6, <1>7, <1>8 DEF Loops!self_pipe

LEMMA LoopSigio == Loops!IInv /\ Loops!demo_sigio => Loops!IInv'
<1> DEFINE Envs == [in : Nat, sent : Nat, sig : BOOLEAN, hash : Nat, open : BOOLEAN]
<1> SUFFICES ASSUME Loops!IInv, Loops!demo_sigio PROVE Loops!IInv'
  OBVIOUS
<1>1. v1 = "sigio" /\ v1' = v1 /\ v2' = v2 /\ v5' = v5
  BY DEF Loops!demo_sigio, Loops!Key, Loops!sigioHandler, Loops!ClearFlag, Loops!ReadAll, Loops!Mine
<1>2. Loops!TypeOK /\ Loops!SigioInv
  BY DEF Loops!IInv
<1>3. v4 \in Loops!Mains /\ v3 \in Envs /\ v4.flag \in BOOLEAN /\ v4.done \in BOOLEAN /\ v4.printed \in Nat
  BY <1>1, <1>2 DEF Loops!TypeOK, Loops!Mains
<1>4. ASSUME v4' \in Loops!Mains, v3' \in Envs, v4'.pc = "select" /\ ~v4'.flag /\ ~v3'.sig => v3'.in = 0 PROVE Loops!IInv'
  <2>1. Loops!Mains' = Loops!Mains
    BY <1>1 DEF Loops!Mains
  <2>2. Loops!TypeOK'
    BY <1>1, <1>2, <1>4, <2>1 DEF Loops!TypeOK
  <2> QED
    BY <1>1, <1>4, <2>2 DEF Loops!IInv, Loops!SelfInv, Loops!SigioInv, Loops!InputInv, Loops!MessageInv, Loops!FramesInv, Loops!OrderInv,
       Loops!FlagsInv, Loops!At
<1>5. v4.pc = "select" /\ ~v4.flag /\ ~v3.sig => v3.in = 0
  BY <1>1, <1>2 DEF Loops!SigioInv, Loops!At
<1>6. CASE Loops!Key
  <2>1. PICK h \in BOOLEAN :
          v3' = [v3 EXCEPT !.sent = @ + 1, !.in = @ + 1, !.sig = TRUE, !.hash = IF h /\ @ = 0 THEN v3.sent + 1 ELSE @]
    BY <1>6 DEF Loops!Key, Loops!Mine
  <2>2. v4' = v4
    BY <1>6 DEF Loops!Key, Loops!Mine
  <2> DEFINE hash == IF h /\ v3.hash = 0 THEN v3.sent + 1 ELSE v3.hash
             sent == v3.sent + 1
             in == v3.in + 1
  <2>3. hash \in Nat /\ sent \in Nat /\ in \in Nat
    BY <1>3
  <2>4. v3' = [v3 EXCEPT !.sent = sent, !.in = in, !.sig = TRUE, !.hash = hash]
    BY <2>1
  <2> HIDE DEF hash, sent, in
  <2>5. v3' \in Envs /\ v3'.sig = TRUE
    BY <1>3, <2>3, <2>4
  <2> QED
    BY <1>3, <1>4, <2>2, <2>5
<1>7. CASE Loops!sigioHandler
  <2>1. v3' = [v3 EXCEPT !.sig = FALSE] /\ v4' = [v4 EXCEPT !.flag = TRUE]
    BY <1>7 DEF Loops!sigioHandler, Loops!Mine
  <2>2. v3' \in Envs
    BY <1>3, <2>1
  <2>3. v4' \in Loops!Mains /\ v4'.flag = TRUE
    BY <1>3, <2>1 DEF Loops!Mains
  <2> QED
    BY <1>4, <2>2, <2>3
<1>8. CASE Loops!ClearFlag
  <2>1. v3' = v3 /\ v4' = [v4 EXCEPT !.flag = FALSE, !.pc = "read"]
    BY <1>8 DEF Loops!ClearFlag, Loops!Mine
  <2>2. v4' \in Loops!Mains /\ v4'.pc = "read"
    BY <1>3, <2>1 DEF Loops!Mains, Loops!Labels
  <2> QED
    BY <1>3, <1>4, <2>1, <2>2
<1>9. CASE Loops!ReadAll
  <2>1. v4.pc = "read"
    BY <1>9 DEF Loops!ReadAll, Loops!Mine, Loops!At
  <2>2. CASE v3.in = 0
    <3> DEFINE l == IF v4.done THEN "exit" ELSE "select"
    <3>1. v3' = v3 /\ v4' = [v4 EXCEPT !.pc = l] /\ l \in Loops!Labels
      BY <1>9, <2>2 DEF Loops!ReadAll, Loops!Mine, Loops!Go, Loops!Labels
    <3> HIDE DEF l
    <3>2. v4' \in Loops!Mains
      BY <1>3, <3>1 DEF Loops!Mains
    <3> QED
      BY <1>3, <1>4, <2>2, <3>1, <3>2
  <2>3. CASE v3.in # 0 /\ v4.done
    <3>1. v3' = [v3 EXCEPT !.in = @ - 1] /\ v4' = [v4 EXCEPT !.pc = "exit"]
      BY <1>9, <2>3 DEF Loops!ReadAll, Loops!Mine
    <3>2. v3' \in Envs
      BY <1>3, <2>3, <3>1
    <3>3. v4' \in Loops!Mains /\ v4'.pc = "exit"
      BY <1>3, <3>1 DEF Loops!Mains, Loops!Labels
    <3> QED
      BY <1>4, <3>2, <3>3
  <2>4. CASE v3.in # 0 /\ ~v4.done
    <3> DEFINE n == v4.printed + 1
               d == v4.printed + 1 = v3.hash
    <3>1. v3' = [v3 EXCEPT !.in = @ - 1] /\ v4' = [v4 EXCEPT !.printed = n, !.done = d] /\ n \in Nat /\ d \in BOOLEAN
      BY <1>3, <1>9, <2>4 DEF Loops!ReadAll, Loops!Mine
    <3>2. v3' \in Envs
      BY <1>3, <2>4, <3>1
    <3> HIDE DEF n, d
    <3>3. v4' \in Loops!Mains /\ v4'.pc = "read"
      BY <1>3, <2>1, <3>1 DEF Loops!Mains
    <3> QED
      BY <1>4, <3>2, <3>3
  <2> QED
    BY <2>2, <2>3, <2>4
<1> QED
  BY <1>6, <1>7, <1>8, <1>9 DEF Loops!demo_sigio

-----------------------------------------------------------------------------
(* EventLoops: epoll_input.                                                *)

\* What can be read: one more after a write, one less after a read.
LEMMA LoopUnreadIs ==
  ASSUME v5 \in [LoopKids -> Loops!OneOf], v5' \in [LoopKids -> Loops!OneOf]
  PROVE  /\ \A f \in LoopKids, i \in Nat : <<f, i>> \in Loops!Unread <=> i \in 1..v5[f].in
         /\ \A x \in Loops!Unread : \E f \in LoopKids, i \in Nat : x = <<f, i>>
         /\ \A f \in LoopKids, i \in Nat : <<f, i>> \in Loops!Unread' <=> i \in 1..v5'[f].in
         /\ \A x \in Loops!Unread' : \E f \in LoopKids, i \in Nat : x = <<f, i>>
BY DEF Loops!Unread

LEMMA LoopOneMore ==
  ASSUME v5 \in [LoopKids -> Loops!OneOf], v5' \in [LoopKids -> Loops!OneOf], NEW f \in LoopKids,
         \A g \in LoopKids \ {f} : v5'[g].in = v5[g].in, v5'[f].in = v5[f].in + 1
  PROVE  Loops!Unread' = Loops!Unread \cup {<<f, v5[f].in + 1>>} /\ <<f, v5[f].in + 1>> \notin Loops!Unread
<1> DEFINE in == [g \in LoopKids |-> v5[g].in]
           new == [g \in LoopKids |-> v5'[g].in]
<1>1. in \in [LoopKids -> Nat] /\ new \in [LoopKids -> Nat]
  BY DEF Loops!OneOf
<1>2. /\ \A g \in LoopKids, i \in Nat : <<g, i>> \in Loops!Unread <=> i \in 1..in[g]
      /\ \A x \in Loops!Unread : \E g \in LoopKids, i \in Nat : x = <<g, i>>
      /\ \A g \in LoopKids, i \in Nat : <<g, i>> \in Loops!Unread' <=> i \in 1..new[g]
      /\ \A x \in Loops!Unread' : \E g \in LoopKids, i \in Nat : x = <<g, i>>
  BY LoopUnreadIs
<1>3. \A g \in LoopKids \ {f} : new[g] = in[g]
  OBVIOUS
<1>4. new[f] = in[f] + 1 /\ in[f] = v5[f].in
  OBVIOUS
<1> HIDE DEF in, new
<1>5. ASSUME NEW x \in Loops!Unread' PROVE x \in Loops!Unread \cup {<<f, in[f] + 1>>}
  <2>1. PICK g \in LoopKids, i \in Nat : x = <<g, i>>
    BY <1>2
  <2> QED
    BY <1>1, <1>2, <1>3, <1>4, <2>1
<1>6. ASSUME NEW x \in Loops!Unread PROVE x \in Loops!Unread'
  <2>1. PICK g \in LoopKids, i \in Nat : x = <<g, i>>
    BY <1>2
  <2> QED
    BY <1>1, <1>2, <1>3, <1>4, <2>1
<1>7. in[f] + 1 \in Nat /\ in[f] \in Nat
  BY <1>1
<1>8. <<f, in[f] + 1>> \in Loops!Unread' /\ <<f, in[f] + 1>> \notin Loops!Unread
  BY <1>2, <1>4, <1>7
<1> QED
  BY <1>4, <1>5, <1>6, <1>8

LEMMA LoopOneLess ==
  ASSUME v5 \in [LoopKids -> Loops!OneOf], v5' \in [LoopKids -> Loops!OneOf], NEW f \in LoopKids,
         \A g \in LoopKids \ {f} : v5'[g].in = v5[g].in, v5'[f].in = v5[f].in - 1, v5[f].in > 0
  PROVE  Loops!Unread' = Loops!Unread \ {<<f, v5[f].in>>} /\ <<f, v5[f].in>> \in Loops!Unread
<1> DEFINE in == [g \in LoopKids |-> v5[g].in]
           new == [g \in LoopKids |-> v5'[g].in]
<1>1. in \in [LoopKids -> Nat] /\ new \in [LoopKids -> Nat]
  BY DEF Loops!OneOf
<1>2. /\ \A g \in LoopKids, i \in Nat : <<g, i>> \in Loops!Unread <=> i \in 1..in[g]
      /\ \A x \in Loops!Unread : \E g \in LoopKids, i \in Nat : x = <<g, i>>
      /\ \A g \in LoopKids, i \in Nat : <<g, i>> \in Loops!Unread' <=> i \in 1..new[g]
      /\ \A x \in Loops!Unread' : \E g \in LoopKids, i \in Nat : x = <<g, i>>
  BY LoopUnreadIs
<1>3. \A g \in LoopKids \ {f} : new[g] = in[g]
  OBVIOUS
<1>4. new[f] = in[f] - 1 /\ in[f] = v5[f].in /\ in[f] > 0
  OBVIOUS
<1> HIDE DEF in, new
<1>5. ASSUME NEW x \in Loops!Unread' PROVE x \in Loops!Unread \ {<<f, in[f]>>}
  <2>1. PICK g \in LoopKids, i \in Nat : x = <<g, i>>
    BY <1>2
  <2> QED
    BY <1>1, <1>2, <1>3, <1>4, <2>1
<1>6. ASSUME NEW x \in Loops!Unread, x # <<f, in[f]>> PROVE x \in Loops!Unread'
  <2>1. PICK g \in LoopKids, i \in Nat : x = <<g, i>>
    BY <1>2
  <2> QED
    BY <1>1, <1>2, <1>3, <1>4, <1>6, <2>1
<1>7. in[f] \in Nat
  BY <1>1
<1>8. <<f, in[f]>> \in Loops!Unread
  BY <1>2, <1>4, <1>7
<1> QED
  BY <1>4, <1>5, <1>6, <1>8

LEMMA LoopInput == Loops!IInv /\ Loops!epoll_input => Loops!IInv'
<1> DEFINE Envs == [in : Nat, sent : Nat, sig : BOOLEAN, hash : Nat, open : BOOLEAN]
           Kidss == [LoopKids -> Loops!OneOf]
           EndSeen(f) == v5[f].again \/ (v5[f].in = 0 /\ ~v5[f].open)
           NewEndSeen(f) == v5'[f].again \/ (v5'[f].in = 0 /\ ~v5'[f].open)
<1> SUFFICES ASSUME Loops!IInv, Loops!epoll_input PROVE Loops!IInv'
  OBVIOUS
<1>1. v1 = "input" /\ v1' = v1 /\ v2' = v2
  BY DEF Loops!epoll_input, Loops!WriterActs, Loops!EpollWait, Loops!DealWith, Loops!Mine
<1>2. Loops!TypeOK /\ Loops!InputInv
  BY DEF Loops!IInv
<1>3. /\ v4 \in Loops!Mains /\ v3 \in Envs /\ v5 \in Kidss
      /\ v4.printed \in Nat /\ v4.closed \in SUBSET LoopKids /\ v4.list \in Seq(Loops!Event) /\ v4.pc \in Loops!Labels
  BY <1>1, <1>2 DEF Loops!TypeOK, Loops!Mains
<1>4. /\ IsFiniteSet(Loops!Unread) /\ v4.printed + Cardinality(Loops!Unread) <= v3.sent
      /\ v4.pc = "exit" => v4.closed = LoopKids
      /\ \A f \in v4.closed : EndSeen(f)
      /\ \A j \in DOMAIN v4.list : IF v4.list[j].in THEN v5[v4.list[j].fd].in > 0 ELSE EndSeen(v4.list[j].fd)
      /\ \A j, k \in DOMAIN v4.list : v4.list[j].fd = v4.list[k].fd => j = k
  BY <1>1, <1>2, LoopFinite, LoopCardinality DEF Loops!InputInv, Loops!EndSeen, Loops!At
<1>5. ASSUME v4' \in Loops!Mains, v3' \in Envs, v5' \in Kidss,
             IsFiniteSet(Loops!Unread'), v4'.printed + Cardinality(Loops!Unread') <= v3'.sent,
             v4'.pc = "exit" => v4'.closed = LoopKids,
             \A f \in v4'.closed : NewEndSeen(f),
             \A j \in DOMAIN v4'.list : IF v4'.list[j].in THEN v5'[v4'.list[j].fd].in > 0 ELSE NewEndSeen(v4'.list[j].fd),
             \A j, k \in DOMAIN v4'.list : v4'.list[j].fd = v4'.list[k].fd => j = k
      PROVE  Loops!IInv'
  <2>1. Loops!Mains' = Loops!Mains
    BY <1>1 DEF Loops!Mains
  <2>2. Loops!TypeOK'
    BY <1>1, <1>2, <1>5, <2>1 DEF Loops!TypeOK
  <2>3. Loops!InputInv'
    BY <1>5, LoopFinite, LoopCardinality DEF Loops!InputInv, Loops!EndSeen, Loops!At
  <2> QED
    BY <1>1, <2>2, <2>3 DEF Loops!IInv, Loops!SelfInv, Loops!SigioInv, Loops!MessageInv, Loops!FramesInv, Loops!OrderInv, Loops!FlagsInv
<1>6. Cardinality(Loops!Unread) \in Nat
  BY <1>4, FS_CardinalityType
\* Events tell of FIFOs.
<1>7. \A j \in DOMAIN v4.list : v4.list[j].fd \in LoopKids /\ v4.list[j].in \in BOOLEAN
  <2>1. \A j \in DOMAIN v4.list : v4.list[j] \in Loops!Event
    BY <1>3
  <2> QED
    BY <2>1 DEF Loops!Event
<1>8. ASSUME NEW f \in LoopKids, Loops!WriterActs(f) PROVE Loops!IInv'
  <2>1. v4' = v4
    BY <1>8 DEF Loops!WriterActs, Loops!Mine
  <2> DEFINE k == v5[f]
  <2>2. k \in Loops!OneOf /\ k.in \in Nat /\ k.open \in BOOLEAN /\ k.again \in BOOLEAN
    BY <1>3 DEF Loops!OneOf
  <2>3. CASE k.open /\ v3' = [v3 EXCEPT !.sent = @ + 1] /\ v5' = [v5 EXCEPT ![f].in = @ + 1]
    <3> DEFINE more == k.in + 1
               r == [k EXCEPT !.in = more]
    <3>1. v5' = [v5 EXCEPT ![f] = r]
      BY <2>3
    <3>2. more \in Nat
      BY <2>2
    <3> HIDE DEF k, more
    <3>3. r \in Loops!OneOf /\ r.in = more /\ r.open = k.open /\ r.again = k.again
      BY <2>2, <3>2 DEF Loops!OneOf
    <3> HIDE DEF r
    <3>4. v5' \in Kidss /\ v5'[f] = r /\ \A g \in LoopKids \ {f} : v5'[g] = v5[g]
      BY <1>3, <3>1, <3>3
    <3>5. v5'[f].in = v5[f].in + 1 /\ v5[f].open /\ v5'[f].again = v5[f].again
      BY <2>3, <3>3, <3>4 DEF k, more
    <3>6. Loops!Unread' = Loops!Unread \cup {<<f, v5[f].in + 1>>} /\ <<f, v5[f].in + 1>> \notin Loops!Unread
      BY <1>3, <3>4, <3>5, LoopOneMore
    <3>7. IsFiniteSet(Loops!Unread') /\ Cardinality(Loops!Unread') = Cardinality(Loops!Unread) + 1
      BY <1>4, <3>6, FS_AddElement
    <3>8. v3' \in Envs /\ v3'.sent = v3.sent + 1
      BY <1>3, <2>3
    <3>9. v4'.printed + Cardinality(Loops!Unread') <= v3'.sent
      BY <1>3, <1>4, <1>6, <2>1, <3>7, <3>8
    <3>10. \A g \in LoopKids : (EndSeen(g) => NewEndSeen(g)) /\ (v5[g].in > 0 => v5'[g].in > 0)
      BY <2>2, <3>4, <3>5 DEF k
    <3> QED
      BY <1>3, <1>4, <1>5, <1>7, <2>1, <3>4, <3>7, <3>8, <3>9, <3>10
  <2>4. ASSUME NEW o \in BOOLEAN, NEW a \in BOOLEAN, v3' = v3, v5' = [v5 EXCEPT ![f].open = o, ![f].again = a], (a \/ ~o) /\ (k.again => a)
        PROVE  Loops!IInv'
    <3> DEFINE r == [k EXCEPT !.open = o, !.again = a]
    <3>1. v5' = [v5 EXCEPT ![f] = r]
      BY <1>3, <2>4
    <3>2. r \in Loops!OneOf /\ r.in = k.in /\ r.open = o /\ r.again = a
      BY <2>2 DEF Loops!OneOf
    <3> HIDE DEF r, k
    <3>3. v5' \in Kidss /\ v5'[f] = r /\ \A g \in LoopKids \ {f} : v5'[g] = v5[g]
      BY <1>3, <3>1, <3>2
    <3>4. \A g \in LoopKids : v5'[g].in = v5[g].in
      BY <3>2, <3>3 DEF k
    <3>5. Loops!Unread' = Loops!Unread
      BY <3>4 DEF Loops!Unread
    <3>6. \A g \in LoopKids : EndSeen(g) => NewEndSeen(g)
      BY <2>4, <3>2, <3>3, <3>4 DEF k
    <3> QED
      BY <1>3, <1>4, <1>5, <1>7, <2>1, <2>4, <3>3, <3>4, <3>5, <3>6
  <2>5. CASE k.open /\ v5' = [v5 EXCEPT ![f].open = FALSE] /\ v3' = v3
    <3> DEFINE a == k.again
    <3>1. v5' = [v5 EXCEPT ![f].open = FALSE, ![f].again = a] /\ a \in BOOLEAN
      <4>1. [k EXCEPT !.open = FALSE] = [k EXCEPT !.open = FALSE, !.again = k.again]
        BY <2>2 DEF Loops!OneOf
      <4>2. v5' = [v5 EXCEPT ![f] = [k EXCEPT !.open = FALSE]]
        BY <2>5
      <4>3. [v5 EXCEPT ![f].open = FALSE, ![f].again = a] = [v5 EXCEPT ![f] = [k EXCEPT !.open = FALSE, !.again = k.again]]
        BY <1>3
      <4> QED
        BY <2>2, <4>1, <4>2, <4>3
    <3> HIDE DEF k
    <3> QED
      BY <2>4, <2>5, <3>1
  <2>6. CASE ~k.again /\ v5' = [v5 EXCEPT ![f].open = TRUE, ![f].again = TRUE] /\ v3' = v3
    BY <2>4, <2>6
  <2> QED
    BY <1>8, <2>3, <2>5, <2>6 DEF Loops!WriterActs, Loops!Mine
<1>9. CASE Loops!EpollWait
  <2>1. v3' = v3 /\ v5' = v5 /\ v4.pc = "select"
    BY <1>9 DEF Loops!EpollWait, Loops!Mine, Loops!At
  <2>2. Loops!Unread' = Loops!Unread
    BY <2>1 DEF Loops!Unread
  <2>3. CASE v4.closed = LoopKids
    <3>1. v4' = [v4 EXCEPT !.pc = "exit"]
      BY <1>9, <2>3 DEF Loops!EpollWait, Loops!Mine, Loops!Go
    <3>2. v4' \in Loops!Mains /\ v4'.printed = v4.printed /\ v4'.closed = v4.closed /\ v4'.list = v4.list
      BY <1>3, <3>1 DEF Loops!Mains, Loops!Labels
    <3> QED
      BY <1>3, <1>4, <1>5, <2>1, <2>2, <2>3, <3>2
  <2>4. CASE v4.closed # LoopKids
    <3> DEFINE ready == {f \in LoopKids \ v4.closed : v5[f].in > 0 \/ ~v5[f].open}
    <3>0. PICK n \in 1..LoopMaxEvents : \E f \in [1..n -> ready] :
            /\ \A j, k \in 1..n : f[j] = f[k] => j = k
            /\ v4' = [v4 EXCEPT !.pc = "events", !.list = [j \in 1..n |-> [fd |-> f[j], in |-> v5[f[j]].in > 0]]]
      BY <1>9, <2>4 DEF Loops!EpollWait, Loops!Mine
    <3>1. PICK f \in [1..n -> ready] :
            /\ \A j, k \in 1..n : f[j] = f[k] => j = k
            /\ v4' = [v4 EXCEPT !.pc = "events", !.list = [j \in 1..n |-> [fd |-> f[j], in |-> v5[f[j]].in > 0]]]
      BY <3>0
    <3> DEFINE list == [j \in 1..n |-> [fd |-> f[j], in |-> v5[f[j]].in > 0]]
    <3>2. n \in Nat /\ list \in [1..n -> Loops!Event]
      BY LoopBounds DEF Loops!Event
    <3>3. list \in Seq(Loops!Event) /\ DOMAIN list = 1..n
      BY <3>2
    <3>4. \A j \in 1..n : list[j].fd = f[j] /\ (list[j].in <=> v5[f[j]].in > 0) /\ f[j] \in ready
      OBVIOUS
    <3>5. \A g \in ready : v5[g].in = 0 \/ v5[g].in > 0
      BY <1>3 DEF Loops!OneOf
    <3>6. \A g \in ready : g \in LoopKids /\ (v5[g].in > 0 \/ EndSeen(g))
      BY <3>5
    <3>7. v4' = [v4 EXCEPT !.pc = "events", !.list = list]
      BY <3>1
    <3> HIDE DEF list, ready
    <3>8. v4' \in Loops!Mains /\ v4'.printed = v4.printed /\ v4'.closed = v4.closed /\ v4'.list = list /\ v4'.pc = "events"
      BY <1>1, <1>3, <3>3, <3>7 DEF Loops!Mains, Loops!Labels
    <3>9. \A j \in DOMAIN v4'.list : IF v4'.list[j].in THEN v5'[v4'.list[j].fd].in > 0 ELSE NewEndSeen(v4'.list[j].fd)
      BY <2>1, <3>3, <3>4, <3>6, <3>8
    <3>10. \A j, k \in DOMAIN v4'.list : v4'.list[j].fd = v4'.list[k].fd => j = k
      BY <3>1, <3>3, <3>4, <3>8
    <3> QED
      BY <1>3, <1>4, <1>5, <2>1, <2>2, <3>8, <3>9, <3>10
  <2> QED
    BY <2>3, <2>4
<1>10. CASE Loops!DealWith
  <2>1. v3' = v3 /\ v4.pc = "events"
    BY <1>10 DEF Loops!DealWith, Loops!Mine, Loops!At
  <2>2. CASE v4.list = <<>>
    <3>1. v4' = [v4 EXCEPT !.pc = "select"] /\ v5' = v5
      BY <1>10, <2>2 DEF Loops!DealWith, Loops!Mine, Loops!Go
    <3>2. v4' \in Loops!Mains /\ v4'.printed = v4.printed /\ v4'.closed = v4.closed /\ v4'.list = v4.list /\ v4'.pc = "select"
      BY <1>3, <3>1 DEF Loops!Mains, Loops!Labels
    <3>3. Loops!Unread' = Loops!Unread
      BY <3>1 DEF Loops!Unread
    <3> QED
      BY <1>3, <1>4, <1>5, <2>1, <3>1, <3>2, <3>3
  <2> DEFINE v == Head(v4.list)
             f == v4.list[1].fd
             rest == Tail(v4.list)
  <2>3. ASSUME v4.list # <<>>
        PROVE  /\ v = v4.list[1] /\ f \in LoopKids /\ f = v.fd /\ 1 \in DOMAIN v4.list
               /\ rest \in Seq(Loops!Event)
               /\ \A j \in DOMAIN rest : j + 1 \in DOMAIN v4.list /\ rest[j] = v4.list[j + 1] /\ rest[j].fd \in LoopKids \ {f}
               /\ \A j, k \in DOMAIN rest : rest[j].fd = rest[k].fd => j = k
    <3>1. v = v4.list[1] /\ 1 \in DOMAIN v4.list /\ rest \in Seq(Loops!Event)
      BY <1>3, <2>3
    <3>2. \A j \in DOMAIN rest : j \in Nat /\ j > 0 /\ j + 1 \in DOMAIN v4.list /\ rest[j] = v4.list[j + 1]
      BY <1>3, <2>3
    <3>3. \A j \in DOMAIN rest : rest[j].fd \in LoopKids /\ rest[j].fd # f
      <4> SUFFICES ASSUME NEW j \in DOMAIN rest PROVE rest[j].fd \in LoopKids /\ rest[j].fd # f
        OBVIOUS
      <4>1. j \in Nat /\ j > 0 /\ j + 1 \in DOMAIN v4.list /\ rest[j] = v4.list[j + 1]
        BY <3>2
      <4> HIDE DEF rest
      <4>2. j + 1 # 1
        BY <4>1
      <4> QED
        BY <1>4, <1>7, <3>1, <4>1, <4>2
    <3>4. \A j, k \in DOMAIN rest : rest[j].fd = rest[k].fd => j = k
      <4> SUFFICES ASSUME NEW j \in DOMAIN rest, NEW k \in DOMAIN rest, rest[j].fd = rest[k].fd PROVE j = k
        OBVIOUS
      <4>1. j \in Nat /\ k \in Nat /\ j + 1 \in DOMAIN v4.list /\ k + 1 \in DOMAIN v4.list /\ v4.list[j + 1].fd = v4.list[k + 1].fd
        BY <3>2
      <4>2. j + 1 = k + 1
        BY <1>4, <4>1
      <4> QED
        BY <4>1, <4>2
    <3> QED
      BY <1>7, <3>1, <3>2, <3>3, <3>4
  <2>4. CASE v4.list # <<>> /\ v.in
    <3> DEFINE n == v4.printed + 1
               k == v5[f]
               less == k.in - 1
               r == [k EXCEPT !.in = less]
    <3>1. v5' = [v5 EXCEPT ![f] = r] /\ v4' = [v4 EXCEPT !.list = rest, !.printed = n]
      BY <1>10, <2>3, <2>4 DEF Loops!DealWith, Loops!Mine
    <3>2. k.in > 0 /\ v5[f].in > 0
      BY <1>4, <2>3, <2>4
    <3>3. k \in Loops!OneOf /\ less \in Nat /\ n \in Nat
      <4>1. k \in Loops!OneOf
        BY <1>3, <2>3, <2>4
      <4>2. k.in \in Nat
        <5> HIDE DEF k
        <5> QED
          BY <4>1 DEF Loops!OneOf
      <4> HIDE DEF k
      <4> QED
        BY <1>3, <3>2, <4>1, <4>2
    <3> HIDE DEF less, n, k
    <3>4. r \in Loops!OneOf /\ r.in = less /\ r.again = k.again
      BY <3>3 DEF Loops!OneOf
    <3> HIDE DEF r
    <3> HIDE DEF v, f, rest
    <3>5. v5' \in Kidss /\ v5'[f] = r /\ \A g \in LoopKids \ {f} : v5'[g] = v5[g]
      BY <1>3, <2>3, <2>4, <3>1, <3>4
    <3>6. v5'[f].in = v5[f].in - 1
      BY <3>4, <3>5 DEF less, k
    <3>7. Loops!Unread' = Loops!Unread \ {<<f, v5[f].in>>} /\ <<f, v5[f].in>> \in Loops!Unread
      BY <1>3, <2>3, <2>4, <3>2, <3>5, <3>6, LoopOneLess
    <3>8. IsFiniteSet(Loops!Unread') /\ Cardinality(Loops!Unread') = Cardinality(Loops!Unread) - 1
      BY <1>4, <3>7, FS_RemoveElement
    <3>9. v4' \in Loops!Mains /\ v4'.printed = n /\ v4'.closed = v4.closed /\ v4'.list = rest /\ v4'.pc = "events"
      BY <1>1, <1>3, <2>1, <2>3, <2>4, <3>1, <3>3 DEF Loops!Mains
    <3>10. v4'.printed + Cardinality(Loops!Unread') <= v3'.sent
      BY <1>3, <1>4, <1>6, <2>1, <3>8, <3>9 DEF n
    <3>11. \A g \in LoopKids : EndSeen(g) => NewEndSeen(g)
      <4>1. EndSeen(f) => NewEndSeen(f)
        BY <3>2, <3>3, <3>4, <3>5 DEF k
      <4> QED
        BY <3>5, <4>1
    <3>12. \A j \in DOMAIN v4'.list : IF v4'.list[j].in THEN v5'[v4'.list[j].fd].in > 0 ELSE NewEndSeen(v4'.list[j].fd)
      BY <1>4, <2>3, <2>4, <3>5, <3>9, <3>11
    <3> QED
      BY <1>3, <1>4, <1>5, <2>1, <2>3, <2>4, <3>5, <3>8, <3>9, <3>10, <3>11, <3>12
  <2>5. CASE v4.list # <<>> /\ ~v.in
    <3> DEFINE all == v4.closed \cup {f}
    <3>1. v5' = v5 /\ v4' = [v4 EXCEPT !.list = rest, !.closed = all]
      BY <1>10, <2>3, <2>5 DEF Loops!DealWith, Loops!Mine
    <3>2. EndSeen(f)
      BY <1>4, <2>3, <2>5
    <3>3. all \in SUBSET LoopKids
      BY <1>3, <2>3, <2>5
    <3> HIDE DEF v, f, rest
    <3>4. \A g \in all : NewEndSeen(g)
      BY <1>4, <3>1, <3>2
    <3> HIDE DEF all
    <3>5. v4' \in Loops!Mains /\ v4'.printed = v4.printed /\ v4'.closed = all /\ v4'.list = rest /\ v4'.pc = "events"
      BY <1>1, <1>3, <2>1, <2>3, <2>5, <3>1, <3>3 DEF Loops!Mains
    <3>6. Loops!Unread' = Loops!Unread
      BY <3>1 DEF Loops!Unread
    <3>7. \A j \in DOMAIN v4'.list : IF v4'.list[j].in THEN v5'[v4'.list[j].fd].in > 0 ELSE NewEndSeen(v4'.list[j].fd)
      BY <1>4, <2>3, <2>5, <3>1, <3>5
    <3> QED
      BY <1>3, <1>4, <1>5, <2>1, <2>3, <2>5, <3>1, <3>4, <3>5, <3>6, <3>7
  <2> QED
    BY <2>2, <2>4, <2>5
<1> QED
  BY <1>8, <1>9, <1>10 DEF Loops!epoll_input

-----------------------------------------------------------------------------
(* EventLoops: select_mq.                                                  *)

LEMMA LoopTail ==
  ASSUME NEW S, NEW s \in Seq(S), s # <<>>
  PROVE  /\ 1 \in DOMAIN s /\ Head(s) = s[1] /\ s[1] \in S /\ Tail(s) \in Seq(S) /\ Len(Tail(s)) = Len(s) - 1
         /\ \A j \in DOMAIN Tail(s) : j \in Nat /\ j > 0 /\ j + 1 \in DOMAIN s /\ Tail(s)[j] = s[j + 1]
         /\ \A j \in DOMAIN s : j \in Nat /\ (j # 1 => j - 1 \in DOMAIN Tail(s) /\ Tail(s)[j - 1] = s[j])
OBVIOUS

LEMMA LoopAppend ==
  ASSUME NEW S, NEW s \in Seq(S), NEW x \in S
  PROVE  /\ Append(s, x) \in Seq(S) /\ Len(Append(s, x)) = Len(s) + 1 /\ Len(s) \in Nat
         /\ DOMAIN s = 1..Len(s) /\ DOMAIN Append(s, x) = 1..(Len(s) + 1)
         /\ \A j \in 1..Len(s) : Append(s, x)[j] = s[j]
         /\ Append(s, x)[Len(s) + 1] = x
OBVIOUS

\* What the types say of the messages.
LEMMA LoopMsgTypes ==
  ASSUME v1 = "mq", Loops!TypeOK
  PROVE  /\ v4 \in Loops!Mains /\ v4.list \in Seq([hdr : Loops!Frames, body : Loops!Frames]) /\ v4.frames \in Seq(Loops!Frames)
         /\ v4.pc \in Loops!Labels
         /\ v3 \in [in : Nat, sent : Nat, sig : BOOLEAN, hash : Nat, open : BOOLEAN]
         /\ v5 \in [LoopKids -> Loops!OneOf]
         /\ \A q \in LoopKids : v5[q].queue \in Seq(0..1) /\ v5[q].all \in Seq(0..1) /\ Loops!Taken(q) \in Int
         /\ \A h \in Loops!Frames : h.q \in LoopKids /\ h.n \in Nat /\ h.len \in 0..1
<1>1. /\ v4 \in Loops!Mains /\ v5 \in [LoopKids -> Loops!OneOf]
      /\ v3 \in [in : Nat, sent : Nat, sig : BOOLEAN, hash : Nat, open : BOOLEAN]
  BY DEF Loops!TypeOK
<1>2. v4.list \in Seq([hdr : Loops!Frames, body : Loops!Frames]) /\ v4.frames \in Seq(Loops!Frames) /\ v4.pc \in Loops!Labels
  BY <1>1 DEF Loops!Mains
<1>3. \A q \in LoopKids : v5[q].queue \in Seq(0..1) /\ v5[q].all \in Seq(0..1)
  BY <1>1 DEF Loops!OneOf
<1>4. \A q \in LoopKids : Loops!Taken(q) \in Int
  BY <1>3 DEF Loops!Taken
<1>5. \A h \in Loops!Frames : h.q \in LoopKids /\ h.n \in Nat /\ h.len \in 0..1
  BY DEF Loops!Frames
<1> QED
  BY <1>1, <1>2, <1>3, <1>4, <1>5

LEMMA LoopMsgElements ==
  ASSUME v1 = "mq", Loops!TypeOK
  PROVE  /\ \A j \in DOMAIN v4.list : v4.list[j] \in [hdr : Loops!Frames, body : Loops!Frames] /\ v4.list[j].hdr \in Loops!Frames
         /\ \A j \in DOMAIN v4.frames : v4.frames[j] \in Loops!Frames
<1> DEFINE M == [hdr : Loops!Frames, body : Loops!Frames]
           list == v4.list
           frames == v4.frames
<1>1. list \in Seq(M) /\ frames \in Seq(Loops!Frames)
  BY LoopMsgTypes
<1> HIDE DEF list, frames, M
<1>2. \A j \in DOMAIN list : list[j] \in M
  BY <1>1
<1>3. \A j \in DOMAIN frames : frames[j] \in Loops!Frames
  BY <1>1
<1>4. \A r \in M : r.hdr \in Loops!Frames
  BY DEF M
<1> QED
  BY <1>2, <1>3, <1>4 DEF list, frames, M

LEMMA LoopTaken ==
  ASSUME v1 = "mq", Loops!TypeOK, NEW p \in LoopKids
  PROVE  /\ Len(v5[p].all) \in Nat /\ Len(v5[p].queue) \in Nat /\ Loops!Taken(p) = Len(v5[p].all) - Len(v5[p].queue)
         /\ Loops!Taken(p) \in Int /\ Loops!Taken(p) <= Len(v5[p].all)
<1> DEFINE a == Len(v5[p].all)
           b == Len(v5[p].queue)
<1>1. a \in Nat /\ b \in Nat
  <2>1. v5[p].all \in Seq(0..1) /\ v5[p].queue \in Seq(0..1)
    BY LoopMsgTypes
  <2> QED
    BY <2>1
<1>2. Loops!Taken(p) = a - b
  BY DEF Loops!Taken
<1> HIDE DEF a, b
<1>3. a - b \in Int /\ a - b <= a
  BY <1>1
<1> QED
  BY <1>1, <1>2, <1>3 DEF a, b

LEMMA LoopMqStep ==
  ASSUME v1 = "mq", v1' = v1, v2' = v2, Loops!TypeOK, v4' \in Loops!Mains, v5' \in [LoopKids -> Loops!OneOf],
         v3' \in [in : Nat, sent : Nat, sig : BOOLEAN, hash : Nat, open : BOOLEAN],
         Loops!MessageInv', Loops!FramesInv', Loops!OrderInv'
  PROVE  Loops!IInv'
<1>1. Loops!Mains' = Loops!Mains
  BY DEF Loops!Mains
<1>2. Loops!TypeOK'
  BY <1>1 DEF Loops!TypeOK
<1> QED
  BY <1>2 DEF Loops!IInv, Loops!SelfInv, Loops!SigioInv, Loops!InputInv, Loops!FlagsInv

LEMMA LoopMessage ==
  ASSUME Loops!IInv, NEW q \in LoopKids, Loops!Message(q) PROVE Loops!IInv'
<1>1. v1 = "mq" /\ v1' = v1 /\ v2' = v2 /\ v4' = v4 /\ v3' = [v3 EXCEPT !.sent = @ + 1]
  BY DEF Loops!Message, Loops!Mine
<1>2. PICK len \in 0..1 : v5' = [v5 EXCEPT ![q].queue = Append(@, len), ![q].all = Append(@, len)]
  BY DEF Loops!Message, Loops!Mine
<1>3. Loops!TypeOK /\ Loops!MessageInv /\ Loops!FramesInv /\ Loops!OrderInv
  BY DEF Loops!IInv
<1>4. /\ v4 \in Loops!Mains /\ v4.list \in Seq([hdr : Loops!Frames, body : Loops!Frames]) /\ v4.frames \in Seq(Loops!Frames)
      /\ v3 \in [in : Nat, sent : Nat, sig : BOOLEAN, hash : Nat, open : BOOLEAN]
      /\ v5 \in [LoopKids -> Loops!OneOf]
      /\ \A p \in LoopKids : v5[p].queue \in Seq(0..1) /\ v5[p].all \in Seq(0..1) /\ Loops!Taken(p) \in Int
      /\ \A h \in Loops!Frames : h.q \in LoopKids /\ h.n \in Nat /\ h.len \in 0..1
  BY <1>1, <1>3, LoopMsgTypes
<1> DEFINE k == v5[q]
           queue == Append(k.queue, len)
           all == Append(k.all, len)
           r == [k EXCEPT !.queue = queue, !.all = all]
<1>5. v5' = [v5 EXCEPT ![q] = r]
  BY <1>2, <1>4
<1>6. /\ queue \in Seq(0..1) /\ all \in Seq(0..1) /\ Len(queue) = Len(k.queue) + 1 /\ Len(all) = Len(k.all) + 1
      /\ Len(k.queue) \in Nat /\ Len(k.all) \in Nat
      /\ DOMAIN queue = 1..(Len(k.queue) + 1) /\ DOMAIN k.queue = 1..Len(k.queue)
      /\ \A j \in 1..Len(k.all) : all[j] = k.all[j]
      /\ \A j \in 1..Len(k.queue) : queue[j] = k.queue[j]
      /\ all[Len(k.all) + 1] = len /\ queue[Len(k.queue) + 1] = len
  BY <1>4, LoopAppend
<1> HIDE DEF queue, all
<1>7. r \in Loops!OneOf /\ r.queue = queue /\ r.all = all
  <2>1. k \in Loops!OneOf
    BY <1>4
  <2> HIDE DEF k
  <2> QED
    BY <1>6, <2>1 DEF Loops!OneOf
<1> HIDE DEF r
<1>8. v5' \in [LoopKids -> Loops!OneOf] /\ v5'[q] = r /\ \A p \in LoopKids \ {q} : v5'[p] = v5[p]
  BY <1>4, <1>5, <1>7
<1>9. \A p \in LoopKids : Loops!Taken(p)' = Loops!Taken(p)
  <2>1. Loops!Taken(q)' = Loops!Taken(q)
    <3>1. Loops!Taken(q)' = Len(all) - Len(queue)
      BY <1>7, <1>8 DEF Loops!Taken
    <3>2. Loops!Taken(q) = Len(k.all) - Len(k.queue)
      BY DEF Loops!Taken
    <3> DEFINE a == Len(k.all)
               b == Len(k.queue)
    <3>3. a \in Nat /\ b \in Nat /\ Len(all) = a + 1 /\ Len(queue) = b + 1
      BY <1>6
    <3>4. Loops!Taken(q)' = (a + 1) - (b + 1) /\ Loops!Taken(q) = a - b
      BY <3>1, <3>2, <3>3
    <3> HIDE DEF a, b
    <3> QED
      BY <3>3, <3>4
  <2> QED
    BY <1>8, <2>1 DEF Loops!Taken
<1>10. /\ \A p \in LoopKids : /\ Len(v5[p].queue) <= Len(v5[p].all)
                              /\ \A j \in DOMAIN v5[p].queue : v5[p].queue[j] = v5[p].all[Loops!Taken(p) + j]
  BY <1>1, <1>3 DEF Loops!MessageInv
<1>11. \A p \in LoopKids : Loops!Taken(p) <= Len(v5[p].all) /\ \A n \in 1..Loops!Taken(p) : v5'[p].all[n] = v5[p].all[n]
  <2>4. \A p \in LoopKids : Loops!Taken(p) <= Len(v5[p].all)
    BY <1>1, <1>3, LoopTaken
  <2>2. \A n \in 1..Loops!Taken(q) : v5'[q].all[n] = v5[q].all[n]
    <3>1. 1..Loops!Taken(q) \subseteq 1..Len(k.all)
      <4> DEFINE a == Len(k.all)
      <4>1. a \in Nat /\ Loops!Taken(q) \in Int /\ Loops!Taken(q) <= a
        BY <1>1, <1>3, LoopTaken
      <4> HIDE DEF a
      <4>2. 1..Loops!Taken(q) \subseteq 1..a
        BY <4>1
      <4> QED
        BY <4>2 DEF a
    <3> QED
      BY <1>6, <1>7, <1>8, <3>1
  <2> QED
    BY <1>8, <2>2, <2>4
<1>12. ASSUME NEW h \in Loops!Frames, Loops!Right(h) PROVE Loops!Right(h)'
  BY <1>4, <1>9, <1>11, <1>12 DEF Loops!Right
<1>13. \A p \in LoopKids : /\ Len(v5'[p].queue) <= Len(v5'[p].all)
                           /\ \A j \in DOMAIN v5'[p].queue : v5'[p].queue[j] = v5'[p].all[Loops!Taken(p)' + j]
  <2>1. ASSUME NEW j \in DOMAIN queue PROVE queue[j] = all[Loops!Taken(q) + j]
    <3> DEFINE a == Len(k.all)
               b == Len(k.queue)
    <3>1. Loops!Taken(q) = a - b /\ b <= a /\ a \in Nat /\ b \in Nat /\ j \in 1..(b + 1)
      BY <1>6, <1>10, <2>1 DEF Loops!Taken
    <3>2. CASE j = Len(k.queue) + 1
      <4>1. Loops!Taken(q) + j = a + 1
        <5>1. j = b + 1
          BY <3>2
        <5> HIDE DEF a, b
        <5> QED
          BY <3>1, <5>1
      <4> QED
        BY <1>6, <3>2, <4>1
    <3>3. CASE j # Len(k.queue) + 1
      <4>1. j \in 1..Len(k.queue) /\ Loops!Taken(q) + j \in 1..Len(k.all)
        <5>1. j # b + 1
          BY <3>3
        <5> HIDE DEF a, b
        <5>2. j \in 1..b /\ Loops!Taken(q) + j \in 1..a
          BY <3>1, <5>1
        <5> QED
          BY <5>2 DEF a, b
      <4>2. k.queue[j] = k.all[Loops!Taken(q) + j]
        BY <1>6, <1>10, <4>1
      <4> QED
        BY <1>6, <4>1, <4>2
    <3> QED
      BY <3>2, <3>3
  <2>2. Len(queue) <= Len(all)
    BY <1>6, <1>10
  <2> HIDE DEF k
  <2> QED
    BY <1>7, <1>8, <1>9, <1>10, <2>1, <2>2
<1>14. v4.pc \in {"body", "failed"} => v4.hdr \in Loops!Frames
  BY <1>1, <1>3 DEF Loops!MessageInv, Loops!Holds
<1>15. /\ \A j \in DOMAIN v4.list : v4.list[j].hdr \in Loops!Frames
       /\ \A j \in DOMAIN v4.frames : v4.frames[j] \in Loops!Frames
  BY <1>1, <1>3, LoopMsgElements
<1>16. \A p \in LoopKids : \A n \in 1..Loops!Taken(p)' : Loops!Placed(p, n)'
  BY <1>1, <1>3, <1>9 DEF Loops!MessageInv, Loops!Placed, Loops!Holds, Loops!IsHeader
<1>17. Loops!MessageInv'
  BY <1>1, <1>3, <1>12, <1>13, <1>14, <1>15, <1>16 DEF Loops!MessageInv, Loops!Holds, Loops!IsHeader, Loops!At
<1>18. Loops!FramesInv' /\ Loops!OrderInv'
  BY <1>1, <1>3 DEF Loops!FramesInv, Loops!OrderInv, Loops!IsHeader, Loops!Holds, Loops!Started
<1>19. v3' \in [in : Nat, sent : Nat, sig : BOOLEAN, hash : Nat, open : BOOLEAN]
  <2> DEFINE n == v3.sent + 1
  <2>1. v3' = [v3 EXCEPT !.sent = n] /\ n \in Nat
    BY <1>1, <1>4
  <2> HIDE DEF n
  <2> QED
    BY <1>4, <2>1
<1> QED
  BY <1>1, <1>3, <1>4, <1>8, <1>17, <1>18, <1>19, LoopMqStep

LEMMA LoopConcat ==
  ASSUME NEW F \in Seq(Loops!Frames), NEW H \in Loops!Frames, NEW B \in Loops!Frames, NEW h
  PROVE  LET G == F \o (IF h = 0 THEN <<H>> ELSE <<H, B>>)
             L == Len(F)
         IN /\ L \in Nat /\ DOMAIN F = 1..L /\ G \in Seq(Loops!Frames)
            /\ \A j \in DOMAIN F : j \in DOMAIN G /\ G[j] = F[j]
            /\ L + 1 \in DOMAIN G /\ G[L + 1] = H
            /\ h # 0 => L + 2 \in DOMAIN G /\ G[L + 2] = B
            /\ \A j \in DOMAIN G : j \in DOMAIN F \/ j = L + 1 \/ (h # 0 /\ j = L + 2)
<1>1. CASE h = 0
  BY <1>1
<1>2. CASE h # 0
  BY <1>2
<1> QED
  BY <1>1, <1>2

LEMMA LoopChildMon ==
  ASSUME Loops!IInv, NEW q \in LoopKids, Loops!childMon(q) PROVE Loops!IInv'
<1> DEFINE k == v5[q]
           t == Loops!Taken(q)
           h == Head(k.queue)
           H == Loops!Header(q)
           B == Loops!Body(q)
           F == v4.frames
           L == Len(F)
           G == F \o (IF h = 0 THEN <<H>> ELSE <<H, B>>)
           rest == Tail(k.queue)
           r == [k EXCEPT !.queue = rest]
           New(p) == Len(v5'[p].all) - Len(v5'[p].queue)
           NewRight(f) == f.part = "header" /\ f.n \in 1..New(f.q) /\ v5'[f.q].all[f.n] = f.len
<1>1. /\ v1 = "mq" /\ v1' = v1 /\ v2' = v2 /\ v3' = v3 /\ k.queue # <<>> /\ v4.pc # "failed"
      /\ v5' = [v5 EXCEPT ![q].queue = Tail(@)] /\ v4' = [v4 EXCEPT !.frames = G]
  BY DEF Loops!childMon, Loops!Mine, Loops!At
<1>2. Loops!TypeOK /\ Loops!MessageInv /\ Loops!FramesInv /\ Loops!OrderInv
  BY DEF Loops!IInv
<1>3. /\ v4 \in Loops!Mains /\ F \in Seq(Loops!Frames)
      /\ v3 \in [in : Nat, sent : Nat, sig : BOOLEAN, hash : Nat, open : BOOLEAN]
      /\ v5 \in [LoopKids -> Loops!OneOf]
      /\ \A p \in LoopKids : v5[p].queue \in Seq(0..1) /\ v5[p].all \in Seq(0..1)
      /\ \A f \in Loops!Frames : f.q \in LoopKids /\ f.n \in Nat /\ f.len \in 0..1
  BY <1>1, <1>2, LoopMsgTypes
<1>4. /\ k.queue \in Seq(0..1) /\ h = k.queue[1] /\ h \in 0..1 /\ 1 \in DOMAIN k.queue /\ rest \in Seq(0..1) /\ Len(rest) = Len(k.queue) - 1
      /\ \A j \in DOMAIN rest : j \in Nat /\ j + 1 \in DOMAIN k.queue /\ rest[j] = k.queue[j + 1]
  BY <1>1, <1>3, LoopTail
<1>5. r \in Loops!OneOf /\ r.queue = rest /\ r.all = k.all
  <2>1. k \in Loops!OneOf
    BY <1>3
  <2> HIDE DEF k, rest
  <2> QED
    BY <1>4, <2>1 DEF Loops!OneOf
<1>6. v5' \in [LoopKids -> Loops!OneOf] /\ v5'[q] = r /\ \A p \in LoopKids \ {q} : v5'[p] = v5[p]
  <2>1. v5' = [v5 EXCEPT ![q] = r]
    BY <1>1
  <2> HIDE DEF r
  <2> QED
    BY <1>3, <1>5, <2>1
<1>7. /\ Loops!Taken(q)' = t + 1 /\ t \in Nat /\ t + 1 <= Len(k.all) /\ Len(k.all) \in Nat
      /\ \A p \in LoopKids \ {q} : Loops!Taken(p)' = Loops!Taken(p)
      /\ \A p \in LoopKids : Loops!Taken(p) \in Int
  <2> DEFINE a == Len(k.all)
             b == Len(k.queue)
  <2>1. a \in Nat /\ b \in Nat /\ t = a - b
    BY <1>1, <1>2, LoopTaken
  <2>2. b <= a /\ b > 0
    BY <1>1, <1>2, <1>4 DEF Loops!MessageInv
  <2>3. Loops!Taken(q)' = Len(k.all) - Len(rest)
    BY <1>5, <1>6 DEF Loops!Taken
  <2>4. Loops!Taken(q)' = a - (b - 1)
    BY <1>4, <2>3
  <2>5. \A p \in LoopKids \ {q} : Loops!Taken(p)' = Loops!Taken(p)
    BY <1>6 DEF Loops!Taken
  <2>6. \A p \in LoopKids : Loops!Taken(p) \in Int
    BY <1>1, <1>2, LoopTaken
  <2> HIDE DEF a, b, t
  <2>7. Loops!Taken(q)' = t + 1 /\ t \in Nat /\ t + 1 <= a
    BY <2>1, <2>2, <2>4
  <2> QED
    BY <2>1, <2>5, <2>6, <2>7 DEF a
<1>8. \A p \in LoopKids : v5'[p].all = v5[p].all
  BY <1>5, <1>6
<1>9. H \in Loops!Frames /\ H.part = "header" /\ H.q = q /\ H.len = h /\ H.n = t + 1
      /\ B \in Loops!Frames /\ B.part = "body" /\ B.q = q
  <2> HIDE DEF k
  <2>1. H = [part |-> "header", q |-> q, len |-> h, n |-> t + 1] /\ B = [part |-> "body", q |-> q, len |-> 1, n |-> 0]
    BY DEF Loops!Header, Loops!Body, k
  <2>2. t + 1 \in Nat
    BY <1>7
  <2> HIDE DEF h, t
  <2> QED
    BY <1>4, <2>1, <2>2 DEF Loops!Frames
<1>10. k.all[t + 1] = h
  BY <1>1, <1>2, <1>4 DEF Loops!MessageInv
<1> HIDE DEF H, B
<1>11. /\ L \in Nat /\ DOMAIN F = 1..L /\ G \in Seq(Loops!Frames)
       /\ \A j \in DOMAIN F : j \in DOMAIN G /\ G[j] = F[j]
       /\ L + 1 \in DOMAIN G /\ G[L + 1] = H
       /\ h # 0 => L + 2 \in DOMAIN G /\ G[L + 2] = B
       /\ \A j \in DOMAIN G : j \in DOMAIN F \/ j = L + 1 \/ (h # 0 /\ j = L + 2)
  <2> HIDE DEF h
  <2>1. F \in Seq(Loops!Frames) /\ H \in Loops!Frames /\ B \in Loops!Frames
    BY <1>3, <1>9
  <2> HIDE DEF F
  <2> QED
    BY <2>1, LoopConcat
<1>12. v4' \in Loops!Mains /\ v4'.frames = G /\ v4'.list = v4.list /\ v4'.hdr = v4.hdr /\ v4'.pc = v4.pc
  <2> HIDE DEF G
  <2> QED
    BY <1>1, <1>3, <1>11 DEF Loops!Mains
<1> HIDE DEF G, r, rest, t
<1>A. New(q) = t + 1 /\ \A p \in LoopKids \ {q} : New(p) = Loops!Taken(p)
  BY <1>7 DEF Loops!Taken
<1> HIDE DEF New
<1>13. \A j \in DOMAIN G : Loops!IsHeader(j)' <=> IF j \in DOMAIN F THEN Loops!IsHeader(j) ELSE j = L + 1
  <2>1. \A j \in DOMAIN G : Loops!IsHeader(j)' <=> G[j].part = "header"
    BY <1>12 DEF Loops!IsHeader
  <2>2. L + 1 \notin DOMAIN F /\ L + 2 \notin DOMAIN F /\ L + 1 # L + 2
    BY <1>11
  <2>3. \A j \in DOMAIN F : Loops!IsHeader(j) <=> F[j].part = "header"
    BY DEF Loops!IsHeader
  <2> HIDE DEF F, L
  <2> QED
    BY <1>9, <1>11, <2>1, <2>2, <2>3
<1>14. \A j : Loops!IsHeader(j)' => j \in DOMAIN G
  BY <1>12 DEF Loops!IsHeader
<1>15. ASSUME NEW f \in Loops!Frames, Loops!Right(f)
       PROVE  NewRight(f) /\ (f.q = q => f.n < t + 1)
  <2>1. f.part = "header" /\ f.n \in 1..Loops!Taken(f.q) /\ v5[f.q].all[f.n] = f.len /\ f.q \in LoopKids
    BY <1>3, <1>15 DEF Loops!Right
  <2>2. CASE f.q = q
    <3>1. f.n \in 1..t
      BY <2>1, <2>2 DEF t
    <3>2. f.n \in 1..(t + 1) /\ f.n < t + 1
      BY <1>7, <3>1
    <3> QED
      BY <1>A, <1>8, <2>1, <2>2, <3>2
  <2>3. CASE f.q # q
    BY <1>A, <1>8, <2>1, <2>3
  <2> QED
    BY <2>2, <2>3
<1>16. NewRight(H)
  <2>1. t + 1 \in 1..(t + 1)
    BY <1>7
  <2> QED
    BY <1>A, <1>8, <1>9, <1>10, <2>1
<1> HIDE DEF NewRight
<1>17. /\ \A j \in DOMAIN v4.list : v4.list[j].hdr \in Loops!Frames
       /\ \A j \in DOMAIN F : F[j] \in Loops!Frames
  BY <1>1, <1>2, LoopMsgElements
<1>18. /\ v4.pc \in {"body", "failed"} => v4.hdr \in Loops!Frames /\ Loops!Right(v4.hdr)
       /\ \A j \in DOMAIN F : Loops!IsHeader(j) => Loops!Right(F[j])
       /\ \A j \in DOMAIN v4.list : Loops!Right(v4.list[j].hdr)
  BY <1>1, <1>2 DEF Loops!MessageInv, Loops!Holds
<1>19. ASSUME NEW p \in LoopKids
       PROVE  /\ Len(v5'[p].queue) <= Len(v5'[p].all)
              /\ \A j \in DOMAIN v5'[p].queue : v5'[p].queue[j] = v5'[p].all[Loops!Taken(p)' + j]
  <2>1. /\ Len(v5[p].queue) <= Len(v5[p].all)
        /\ \A j \in DOMAIN v5[p].queue : v5[p].queue[j] = v5[p].all[Loops!Taken(p) + j]
    BY <1>1, <1>2 DEF Loops!MessageInv
  <2>2. CASE p = q
    <3>1. ASSUME NEW j \in DOMAIN rest PROVE rest[j] = k.all[(t + 1) + j]
      <4>1. j \in Nat /\ j + 1 \in DOMAIN k.queue /\ rest[j] = k.queue[j + 1]
        BY <1>4, <3>1
      <4>2. k.queue[j + 1] = k.all[t + (j + 1)]
        BY <2>1, <2>2, <4>1 DEF t
      <4>3. t + (j + 1) = (t + 1) + j
        BY <1>7, <4>1
      <4> QED
        BY <4>1, <4>2, <4>3
    <3>2. Len(rest) <= Len(k.all)
      <4> DEFINE a == Len(k.all)
                 b == Len(k.queue)
      <4>1. a \in Nat /\ b \in Nat /\ b <= a /\ Len(rest) = b - 1
        BY <1>1, <1>2, <1>4, <2>1, <2>2, LoopTaken
      <4> HIDE DEF a, b
      <4>2. Len(rest) <= a
        BY <4>1
      <4> QED
        BY <4>2 DEF a
    <3> QED
      BY <1>5, <1>6, <1>7, <2>2, <3>1, <3>2
  <2>3. CASE p # q
    BY <1>6, <1>7, <2>1, <2>3
  <2> QED
    BY <2>2, <2>3
<1>20. ASSUME NEW p \in LoopKids, NEW n \in 1..Loops!Taken(p)' PROVE Loops!Placed(p, n)'
  <2>1. CASE p = q /\ n = t + 1
    <3>1. PICK j \in DOMAIN G : j = L + 1
      BY <1>11
    <3>2. Loops!IsHeader(j)' /\ G[j] = H
      BY <1>11, <1>13, <3>1
    <3> QED
      BY <1>9, <1>12, <2>1, <3>2 DEF Loops!Placed
  <2>2. CASE ~(p = q /\ n = t + 1)
    <3>1. n \in 1..Loops!Taken(p)
      <4>1. CASE p = q
        <5>1. n \in 1..(t + 1) /\ n # t + 1
          BY <1>7, <1>20, <2>2, <4>1
        <5>2. n \in 1..t
          BY <1>7, <5>1
        <5> QED
          BY <4>1, <5>2 DEF t
      <4>2. CASE p # q
        BY <1>7, <1>20, <4>2
      <4> QED
        BY <4>1, <4>2
    <3>2. Loops!Placed(p, n)
      BY <1>1, <1>2, <3>1 DEF Loops!MessageInv
    <3>3. CASE \E j \in DOMAIN F : Loops!IsHeader(j) /\ F[j].q = p /\ F[j].n = n
      <4>1. PICK j \in DOMAIN F : Loops!IsHeader(j) /\ F[j].q = p /\ F[j].n = n
        BY <3>3
      <4>2. j \in DOMAIN G /\ G[j] = F[j] /\ Loops!IsHeader(j)'
        BY <1>11, <1>13, <4>1
      <4> QED
        BY <1>12, <4>1, <4>2 DEF Loops!Placed
    <3>4. CASE ~(\E j \in DOMAIN F : Loops!IsHeader(j) /\ F[j].q = p /\ F[j].n = n)
      BY <1>12, <3>2, <3>4 DEF Loops!Placed, Loops!Holds
    <3> QED
      BY <3>3, <3>4
  <2> QED
    BY <2>1, <2>2
<1>21. ASSUME NEW j \in DOMAIN G, Loops!IsHeader(j)' PROVE NewRight(G[j])
  <2>1. CASE j \in DOMAIN F
    <3>1. Loops!IsHeader(j) /\ G[j] = F[j]
      BY <1>11, <1>13, <1>21, <2>1
    <3>2. NewRight(F[j])
      BY <1>15, <1>17, <1>18, <2>1, <3>1
    <3> QED
      BY <3>1, <3>2
  <2>2. CASE j \notin DOMAIN F
    <3>1. G[j] = H
      BY <1>11, <1>13, <1>21, <2>2
    <3> QED
      BY <1>16, <3>1
  <2> QED
    BY <2>1, <2>2
<1>22. Loops!MessageInv'
  <2>1. \A j \in DOMAIN v4.list : NewRight(v4.list[j].hdr)
    BY <1>15, <1>17, <1>18
  <2>2. v4.pc \in {"body", "failed"} => v4.hdr \in Loops!Frames /\ NewRight(v4.hdr)
    BY <1>15, <1>18
  <2>3. v4.pc \in {"select", "body"} /\ \A j \in DOMAIN v4.list : v4.list[j].body.q = v4.list[j].hdr.q /\ v4.list[j].body.part = "body"
    BY <1>1, <1>2 DEF Loops!MessageInv
  <2>4. \A p \in LoopKids : Loops!Taken(p)' = New(p)
    BY DEF New, Loops!Taken
  <2>5. /\ \A j \in DOMAIN v4'.list : Loops!Right(v4.list[j].hdr)'
        /\ v4'.pc \in {"body", "failed"} => Loops!Right(v4.hdr)'
        /\ \A j \in DOMAIN v4'.frames : Loops!IsHeader(j)' => Loops!Right(v4.frames[j])'
    BY <1>12, <1>21, <2>1, <2>2 DEF NewRight, New, Loops!Right, Loops!Taken
  <2> QED
    BY <1>1, <1>12, <1>19, <1>20, <2>2, <2>3, <2>5 DEF Loops!MessageInv, Loops!Holds, Loops!At
<1>23. Loops!FramesInv'
  <2>1. /\ \A j \in DOMAIN F : IF Loops!IsHeader(j) /\ F[j].len = 1
                               THEN j + 1 \in DOMAIN F /\ F[j + 1].part = "body" /\ F[j + 1].q = F[j].q
                               ELSE j + 1 \in DOMAIN F => Loops!IsHeader(j + 1)
        /\ ~Loops!Started /\ F # <<>> => Loops!IsHeader(1)
        /\ Loops!Started => F # <<>> /\ F[1].part = "body" /\ F[1].q = v4.hdr.q
    BY <1>1, <1>2 DEF Loops!FramesInv
  <2>2. Loops!Started' <=> Loops!Started
    BY <1>12 DEF Loops!Started, Loops!Holds
  <2>3. ASSUME NEW j \in DOMAIN G
        PROVE  IF Loops!IsHeader(j)' /\ G[j].len = 1
               THEN j + 1 \in DOMAIN G /\ G[j + 1].part = "body" /\ G[j + 1].q = G[j].q
               ELSE j + 1 \in DOMAIN G => Loops!IsHeader(j + 1)'
    <3>1. CASE j \in DOMAIN F /\ j # L
      <4>1. j + 1 \in DOMAIN F
        BY <1>11, <3>1
      <4>2. G[j] = F[j] /\ G[j + 1] = F[j + 1] /\ j + 1 \in DOMAIN G
        BY <1>11, <3>1, <4>1
      <4> QED
        BY <1>13, <2>1, <3>1, <4>1, <4>2
    <3>2. CASE j = L /\ j \in DOMAIN F
      <4>1. j + 1 \notin DOMAIN F /\ j + 1 = L + 1
        BY <1>11, <3>2
      <4>2. ~(Loops!IsHeader(j) /\ F[j].len = 1)
        BY <2>1, <3>2, <4>1
      <4>3. Loops!IsHeader(j + 1)'
        BY <1>11, <1>13, <4>1
      <4> QED
        BY <1>11, <1>13, <3>2, <4>2, <4>3
    <3>3. CASE j = L + 1
      <4>1. j \notin DOMAIN F /\ j + 1 \notin DOMAIN F /\ j + 1 = L + 2 /\ L + 2 # L + 1
        BY <1>11, <3>3
      <4>2. Loops!IsHeader(j)' /\ G[j] = H
        BY <1>11, <1>13, <3>3, <4>1
      <4>3. h = 0 \/ h = 1
        BY <1>4
      <4>4. CASE h = 0
        BY <1>9, <1>11, <4>1, <4>2, <4>4
      <4>5. CASE h = 1
        BY <1>9, <1>11, <4>1, <4>2, <4>5
      <4> QED
        BY <4>3, <4>4, <4>5
    <3>4. CASE j = L + 2 /\ j # L + 1 /\ j \notin DOMAIN F
      <4>1. j + 1 \notin DOMAIN F /\ j + 1 # L + 1 /\ j + 1 # L + 2
        BY <1>11, <3>4
      <4>2. j + 1 \notin DOMAIN G
        BY <1>11, <4>1
      <4> QED
        BY <1>13, <3>4, <4>2
    <3> QED
      BY <1>11, <2>3, <3>1, <3>2, <3>3, <3>4
  <2>4. ~Loops!Started => Loops!IsHeader(1)'
    <3>1. CASE F = <<>>
      <4>1. L = 0 /\ 1 \notin DOMAIN F /\ 1 = L + 1
        BY <3>1
      <4> QED
        BY <1>11, <1>13, <4>1
    <3>2. CASE F # <<>>
      <4>1. 1 \in DOMAIN F
        BY <1>3, <3>2
      <4> QED
        BY <1>11, <1>13, <2>1, <3>2, <4>1
    <3> QED
      BY <3>1, <3>2
  <2>5. Loops!Started => G # <<>> /\ G[1].part = "body" /\ G[1].q = v4.hdr.q
    <3> SUFFICES ASSUME Loops!Started PROVE G # <<>> /\ G[1].part = "body" /\ G[1].q = v4.hdr.q
      OBVIOUS
    <3>1. 1 \in DOMAIN F
      BY <1>3, <2>1
    <3>2. 1 \in DOMAIN G /\ G[1] = F[1]
      BY <1>11, <3>1
    <3> QED
      BY <2>1, <3>2
  <2> QED
    BY <1>12, <2>2, <2>3, <2>4, <2>5 DEF Loops!FramesInv
<1>24. Loops!OrderInv'
  <2>1. /\ \A j, l \in DOMAIN v4.list : j < l /\ v4.list[j].hdr.q = v4.list[l].hdr.q => v4.list[j].hdr.n < v4.list[l].hdr.n
        /\ \A j, l \in DOMAIN F : j < l /\ Loops!IsHeader(j) /\ Loops!IsHeader(l) /\ F[j].q = F[l].q => F[j].n < F[l].n
        /\ \A j \in DOMAIN v4.list : Loops!Holds /\ v4.list[j].hdr.q = v4.hdr.q => v4.list[j].hdr.n < v4.hdr.n
        /\ \A j \in DOMAIN v4.list, l \in DOMAIN F : Loops!IsHeader(l) /\ v4.list[j].hdr.q = F[l].q => v4.list[j].hdr.n < F[l].n
        /\ \A l \in DOMAIN F : Loops!Holds /\ Loops!IsHeader(l) /\ v4.hdr.q = F[l].q => v4.hdr.n < F[l].n
    BY <1>1, <1>2 DEF Loops!OrderInv
  <2>2. \A l \in DOMAIN G : Loops!IsHeader(l)' => (l \in DOMAIN F /\ Loops!IsHeader(l) /\ G[l] = F[l]) \/ (l = L + 1 /\ G[l] = H)
    BY <1>11, <1>13
  <2>3. ASSUME NEW j \in DOMAIN G, NEW l \in DOMAIN G, j < l, Loops!IsHeader(j)', Loops!IsHeader(l)', G[j].q = G[l].q
        PROVE  G[j].n < G[l].n
    <3>1. CASE l \in DOMAIN F
      <4>1. j \in DOMAIN F
        <5>1. j \in DOMAIN F \/ j = L + 1
          BY <2>2, <2>3
        <5>2. l \in 1..L
          BY <1>11, <3>1
        <5> HIDE DEF L
        <5> QED
          BY <1>11, <2>3, <5>1, <5>2
      <4> QED
        BY <1>11, <1>13, <2>1, <2>3, <3>1, <4>1
    <3>2. CASE l = L + 1
      <4>1. G[l] = H
        BY <1>11, <3>2
      <4>2. j \in DOMAIN F /\ Loops!IsHeader(j) /\ G[j] = F[j]
        BY <1>11, <2>2, <2>3, <3>2
      <4>3. F[j].q = q
        BY <1>9, <2>3, <4>1, <4>2
      <4>4. F[j].n < t + 1
        BY <1>15, <1>17, <1>18, <4>2, <4>3
      <4> QED
        BY <1>9, <4>1, <4>2, <4>4
    <3> QED
      BY <2>2, <2>3, <3>1, <3>2
  <2>4. ASSUME NEW j \in DOMAIN v4.list, NEW l \in DOMAIN G, Loops!IsHeader(l)', v4.list[j].hdr.q = G[l].q
        PROVE  v4.list[j].hdr.n < G[l].n
    <3>1. CASE G[l] = H
      <4>1. v4.list[j].hdr.n < t + 1
        BY <1>9, <1>15, <1>17, <1>18, <2>4, <3>1
      <4> QED
        BY <1>9, <3>1, <4>1
    <3>2. CASE l \in DOMAIN F /\ Loops!IsHeader(l) /\ G[l] = F[l]
      BY <2>1, <2>4, <3>2
    <3> QED
      BY <2>2, <2>4, <3>1, <3>2
  <2>5. ASSUME NEW l \in DOMAIN G, Loops!Holds, Loops!IsHeader(l)', v4.hdr.q = G[l].q
        PROVE  v4.hdr.n < G[l].n
    <3>1. CASE G[l] = H
      <4>1. v4.hdr.n < t + 1
        BY <1>9, <1>15, <1>18, <2>5, <3>1 DEF Loops!Holds
      <4> QED
        BY <1>9, <3>1, <4>1
    <3>2. CASE l \in DOMAIN F /\ Loops!IsHeader(l) /\ G[l] = F[l]
      BY <2>1, <2>5, <3>2
    <3> QED
      BY <2>2, <2>5, <3>1, <3>2
  <2>6. Loops!Holds' <=> Loops!Holds
    BY <1>12 DEF Loops!Holds
  <2> QED
    BY <1>12, <2>1, <2>3, <2>4, <2>5, <2>6 DEF Loops!OrderInv
<1> QED
  BY <1>1, <1>2, <1>3, <1>6, <1>12, <1>22, <1>23, <1>24, LoopMqStep

\* What is read moves everything behind it in the pipe forward by one.
LEMMA LoopShift ==
  ASSUME v1 = "mq", Loops!TypeOK, Loops!FramesInv, v4.frames # <<>>, v4'.frames = Tail(v4.frames)
  PROVE  /\ 1 \in DOMAIN v4.frames /\ Head(v4.frames) = v4.frames[1] /\ v4.frames[1] \in Loops!Frames
         /\ v4'.frames \in Seq(Loops!Frames)
         /\ \A j \in DOMAIN v4'.frames : /\ j \in Nat /\ j > 0 /\ j + 1 \in DOMAIN v4.frames /\ v4'.frames[j] = v4.frames[j + 1]
                                         /\ Loops!IsHeader(j)' <=> Loops!IsHeader(j + 1)
         /\ \A j \in DOMAIN v4.frames : /\ j \in Nat
                                        /\ j # 1 => /\ j - 1 \in DOMAIN v4'.frames /\ v4'.frames[j - 1] = v4.frames[j]
                                                    /\ Loops!IsHeader(j - 1)' <=> Loops!IsHeader(j)
         /\ \A j \in DOMAIN v4'.frames : IF Loops!IsHeader(j)' /\ v4'.frames[j].len = 1
                                        THEN j + 1 \in DOMAIN v4'.frames /\ v4'.frames[j + 1].part = "body" /\ v4'.frames[j + 1].q = v4'.frames[j].q
                                        ELSE j + 1 \in DOMAIN v4'.frames => Loops!IsHeader(j + 1)'
<1> DEFINE F == v4.frames
           G == v4'.frames
<1>1. /\ 1 \in DOMAIN F /\ Head(F) = F[1] /\ F[1] \in Loops!Frames /\ G \in Seq(Loops!Frames)
      /\ \A j \in DOMAIN G : j \in Nat /\ j > 0 /\ j + 1 \in DOMAIN F /\ G[j] = F[j + 1]
      /\ \A j \in DOMAIN F : j \in Nat /\ (j # 1 => j - 1 \in DOMAIN G /\ G[j - 1] = F[j])
  <2>1. F \in Seq(Loops!Frames)
    BY LoopMsgTypes
  <2>2. F # <<>> /\ G = Tail(F)
    OBVIOUS
  <2> HIDE DEF F, G
  <2> QED
    BY <2>1, <2>2, LoopTail
<1>2. \A j \in Int : (Loops!IsHeader(j) <=> j \in DOMAIN F /\ F[j].part = "header") /\ (Loops!IsHeader(j)' <=> j \in DOMAIN G /\ G[j].part = "header")
  BY DEF Loops!IsHeader
<1>3. \A j \in DOMAIN F : IF Loops!IsHeader(j) /\ F[j].len = 1
                           THEN j + 1 \in DOMAIN F /\ F[j + 1].part = "body" /\ F[j + 1].q = F[j].q
                           ELSE j + 1 \in DOMAIN F => Loops!IsHeader(j + 1)
  BY DEF Loops!FramesInv
<1> HIDE DEF F, G
<1>4. ASSUME NEW j \in DOMAIN G PROVE Loops!IsHeader(j)' <=> Loops!IsHeader(j + 1)
  <2>1. j \in Int /\ j + 1 \in Int /\ j + 1 \in DOMAIN F /\ G[j] = F[j + 1]
    BY <1>1, <1>4
  <2> QED
    BY <1>2, <1>4, <2>1
<1>5. ASSUME NEW j \in DOMAIN F, j # 1 PROVE Loops!IsHeader(j - 1)' <=> Loops!IsHeader(j)
  <2>1. j - 1 \in Int /\ j \in Int /\ j - 1 \in DOMAIN G /\ G[j - 1] = F[j]
    BY <1>1, <1>5
  <2> QED
    BY <1>2, <1>5, <2>1
<1>6. ASSUME NEW j \in DOMAIN G
      PROVE  IF Loops!IsHeader(j)' /\ G[j].len = 1
             THEN j + 1 \in DOMAIN G /\ G[j + 1].part = "body" /\ G[j + 1].q = G[j].q
             ELSE j + 1 \in DOMAIN G => Loops!IsHeader(j + 1)'
  <2>1. j \in Nat /\ j > 0 /\ j + 1 \in DOMAIN F /\ G[j] = F[j + 1] /\ (Loops!IsHeader(j)' <=> Loops!IsHeader(j + 1))
    BY <1>1, <1>4, <1>6
  <2>2. CASE Loops!IsHeader(j)' /\ G[j].len = 1
    <3>1. (j + 1) + 1 \in DOMAIN F /\ F[(j + 1) + 1].part = "body" /\ F[(j + 1) + 1].q = F[j + 1].q
      BY <1>3, <2>1, <2>2
    <3>2. (j + 1) + 1 # 1 /\ ((j + 1) + 1) - 1 = j + 1
      BY <2>1
    <3> QED
      BY <1>1, <2>1, <2>2, <3>1, <3>2
  <2>3. CASE ~(Loops!IsHeader(j)' /\ G[j].len = 1) /\ j + 1 \in DOMAIN G
    <3>1. (j + 1) + 1 \in DOMAIN F
      BY <1>1, <2>3
    <3>2. Loops!IsHeader((j + 1) + 1)
      BY <1>3, <2>1, <2>3, <3>1
    <3> QED
      BY <1>4, <2>3, <3>2
  <2> QED
    BY <2>2, <2>3
<1> QED
  BY <1>1, <1>4, <1>5, <1>6 DEF F, G

LEMMA LoopReadHeader ==
  ASSUME Loops!IInv, v1 = "mq", v1' = v1, v2' = v2, v3' = v3, v5' = v5, v4.pc = "select", v4.frames # <<>>,
         v4' = [v4 EXCEPT !.pc = "body", !.hdr = Head(v4.frames), !.frames = Tail(@)]
  PROVE  Loops!IInv'
<1> DEFINE F == v4.frames
           G == v4'.frames
<1>1. Loops!TypeOK /\ Loops!MessageInv /\ Loops!FramesInv /\ Loops!OrderInv
  BY DEF Loops!IInv
<1>2. /\ v4 \in Loops!Mains
      /\ v3 \in [in : Nat, sent : Nat, sig : BOOLEAN, hash : Nat, open : BOOLEAN]
      /\ v5 \in [LoopKids -> Loops!OneOf]
  BY <1>1, LoopMsgTypes
<1>3. v4'.pc = "body" /\ v4'.hdr = Head(F) /\ v4'.frames = Tail(F) /\ v4'.list = v4.list
  BY <1>2 DEF Loops!Mains
<1>4. /\ 1 \in DOMAIN F /\ v4'.hdr = F[1] /\ F[1] \in Loops!Frames
      /\ G \in Seq(Loops!Frames)
      /\ \A j \in DOMAIN G : j \in Nat /\ j > 0 /\ j + 1 \in DOMAIN F /\ G[j] = F[j + 1] /\ (Loops!IsHeader(j)' <=> Loops!IsHeader(j + 1))
      /\ \A j \in DOMAIN F : j \in Nat /\ (j # 1 => j - 1 \in DOMAIN G /\ G[j - 1] = F[j] /\ (Loops!IsHeader(j - 1)' <=> Loops!IsHeader(j)))
  BY <1>1, <1>3, LoopShift
<1>5. \A j \in DOMAIN G : IF Loops!IsHeader(j)' /\ G[j].len = 1
                                  THEN j + 1 \in DOMAIN G /\ G[j + 1].part = "body" /\ G[j + 1].q = G[j].q
                                  ELSE j + 1 \in DOMAIN G => Loops!IsHeader(j + 1)'
  BY <1>1, <1>3, LoopShift
<1>6. v4' \in Loops!Mains
  <2> DEFINE H == Head(F)
  <2>1. v4' = [v4 EXCEPT !.pc = "body", !.hdr = H, !.frames = G] /\ G \in Seq(Loops!Frames) /\ H \in Loops!Frames
    BY <1>3, <1>4
  <2> HIDE DEF G, H
  <2>2. v4 \in [pc : Loops!Labels, pipe : Nat, caught : BOOLEAN, says : SUBSET {"signal", "fd"}, flag : BOOLEAN, done : BOOLEAN, printed : Nat,
                list : Seq([hdr : Loops!Frames, body : Loops!Frames]), closed : SUBSET LoopKids,
                frames : Seq(Loops!Frames), hdr : Loops!Frames \cup {Loops!NoHeader}]
    BY <1>2 DEF Loops!Mains
  <2>3. "body" \in Loops!Labels
    BY DEF Loops!Labels
  <2> QED
    BY <2>1, <2>2, <2>3 DEF Loops!Mains
<1> HIDE DEF F, G
<1>7. ~Loops!Holds /\ ~Loops!Started /\ Loops!Holds' /\ (Loops!Started' <=> F[1].len = 1)
  BY <1>3, <1>4 DEF Loops!Holds, Loops!Started
<1>8. Loops!IsHeader(1)
  BY <1>1, <1>7 DEF Loops!FramesInv, F
<1>9. /\ \A j \in DOMAIN F : Loops!IsHeader(j) => Loops!Right(F[j])
      /\ \A j \in DOMAIN v4.list : Loops!Right(v4.list[j].hdr) /\ v4.list[j].body.q = v4.list[j].hdr.q /\ v4.list[j].body.part = "body"
      /\ \A q \in LoopKids : /\ Len(v5[q].queue) <= Len(v5[q].all)
                             /\ \A j \in DOMAIN v5[q].queue : v5[q].queue[j] = v5[q].all[Loops!Taken(q) + j]
      /\ \A q \in LoopKids : \A n \in 1..Loops!Taken(q) : Loops!Placed(q, n)
  BY <1>1 DEF Loops!MessageInv, F
<1>10. \A q : Loops!Taken(q)' = Loops!Taken(q)
  BY DEF Loops!Taken
<1>11. ASSUME NEW q \in LoopKids, NEW n \in 1..Loops!Taken(q) PROVE Loops!Placed(q, n)'
  <2>1. Loops!Placed(q, n)
    BY <1>9
  <2>2. CASE \E j \in DOMAIN v4.list : v4.list[j].hdr.q = q /\ v4.list[j].hdr.n = n
    BY <1>3, <2>2 DEF Loops!Placed
  <2>3. CASE \E j \in DOMAIN F : Loops!IsHeader(j) /\ F[j].q = q /\ F[j].n = n
    <3>1. PICK j \in DOMAIN F : Loops!IsHeader(j) /\ F[j].q = q /\ F[j].n = n
      BY <2>3
    <3>2. CASE j = 1
      BY <1>4, <1>7, <3>1, <3>2 DEF Loops!Placed
    <3>3. CASE j # 1
      <4>1. j - 1 \in DOMAIN G /\ G[j - 1] = F[j] /\ Loops!IsHeader(j - 1)'
        BY <1>4, <3>1, <3>3
      <4> QED
        BY <3>1, <4>1 DEF Loops!Placed, G
    <3> QED
      BY <3>2, <3>3
  <2> QED
    BY <1>7, <2>1, <2>2, <2>3 DEF Loops!Placed, F
<1>12. Loops!MessageInv'
  <2>1. Loops!Right(v4.hdr)'
    BY <1>4, <1>8, <1>9, <1>10 DEF Loops!Right
  <2>2. \A j \in DOMAIN v4'.frames : Loops!IsHeader(j)' => Loops!Right(v4.frames[j])'
    <3>1. \A j \in DOMAIN G : Loops!IsHeader(j)' => Loops!Right(F[j + 1])
      BY <1>4, <1>9
    <3> QED
      BY <1>4, <1>10, <3>1 DEF Loops!Right, G
  <2>3. \A j \in DOMAIN v4'.list : Loops!Right(v4.list[j].hdr)'
    BY <1>3, <1>9, <1>10 DEF Loops!Right
  <2>4. \A q \in LoopKids : \A n \in 1..Loops!Taken(q)' : Loops!Placed(q, n)'
    BY <1>10, <1>11
  <2> QED
    BY <1>3, <1>4, <1>9, <1>10, <2>1, <2>2, <2>3, <2>4 DEF Loops!MessageInv, Loops!At, G
<1>13. Loops!FramesInv'
  <2>1. IF Loops!IsHeader(1) /\ F[1].len = 1
        THEN 1 + 1 \in DOMAIN F /\ F[1 + 1].part = "body" /\ F[1 + 1].q = F[1].q
        ELSE 1 + 1 \in DOMAIN F => Loops!IsHeader(1 + 1)
    BY <1>1, <1>4 DEF Loops!FramesInv, F
  <2>2. CASE F[1].len = 1
    <3>1. 1 \in DOMAIN G /\ G[1] = F[1 + 1]
      BY <1>4, <1>8, <2>1, <2>2
    <3> QED
      <4>1. G # <<>> /\ G[1].part = "body" /\ G[1].q = v4'.hdr.q
        BY <1>4, <1>8, <2>1, <2>2, <3>1
      <4> QED
        BY <1>5, <1>7, <2>2, <4>1 DEF Loops!FramesInv, G
  <2>3. CASE F[1].len # 1
    <3>1. G # <<>> => Loops!IsHeader(1)'
      <4>1. CASE G = <<>>
        BY <4>1
      <4>2. CASE G # <<>>
        <5>1. 1 \in DOMAIN G
          BY <1>4, <4>2, LoopTail
        <5> QED
          BY <1>4, <2>1, <2>3, <5>1
      <4> QED
        BY <4>1, <4>2
    <3> QED
      BY <1>5, <1>7, <2>3, <3>1 DEF Loops!FramesInv, G
  <2> QED
    BY <2>2, <2>3
<1>14. Loops!OrderInv'
  <2>1. /\ \A j, l \in DOMAIN v4.list : j < l /\ v4.list[j].hdr.q = v4.list[l].hdr.q => v4.list[j].hdr.n < v4.list[l].hdr.n
        /\ \A j, l \in DOMAIN F : j < l /\ Loops!IsHeader(j) /\ Loops!IsHeader(l) /\ F[j].q = F[l].q => F[j].n < F[l].n
        /\ \A j \in DOMAIN v4.list, l \in DOMAIN F : Loops!IsHeader(l) /\ v4.list[j].hdr.q = F[l].q => v4.list[j].hdr.n < F[l].n
    BY <1>1 DEF Loops!OrderInv, F
  <2>2. ASSUME NEW j \in DOMAIN G, NEW l \in DOMAIN G, j < l, Loops!IsHeader(j)', Loops!IsHeader(l)',
               G[j].q = G[l].q
        PROVE  G[j].n < G[l].n
    <3>1. /\ j + 1 < l + 1 /\ j + 1 \in DOMAIN F /\ l + 1 \in DOMAIN F /\ G[j] = F[j + 1] /\ G[l] = F[l + 1]
          /\ Loops!IsHeader(j + 1) /\ Loops!IsHeader(l + 1)
      BY <1>4, <2>2
    <3> QED
      BY <2>1, <2>2, <3>1
  <2>3. \A j \in DOMAIN v4.list : v4.list[j].hdr.q = F[1].q => v4.list[j].hdr.n < F[1].n
    BY <1>4, <1>8, <2>1
  <2>4. \A j \in DOMAIN v4.list, l \in DOMAIN G : Loops!IsHeader(l)' /\ v4.list[j].hdr.q = G[l].q => v4.list[j].hdr.n < G[l].n
    <3> SUFFICES ASSUME NEW j \in DOMAIN v4.list, NEW l \in DOMAIN G, Loops!IsHeader(l)', v4.list[j].hdr.q = G[l].q
                 PROVE  v4.list[j].hdr.n < G[l].n
      OBVIOUS
    <3>1. l + 1 \in DOMAIN F /\ G[l] = F[l + 1] /\ Loops!IsHeader(l + 1)
      BY <1>4
    <3>2. v4.list[j].hdr.q = F[l + 1].q => v4.list[j].hdr.n < F[l + 1].n
      BY <2>1, <3>1
    <3> QED
      BY <3>1, <3>2
  <2>5. ASSUME NEW l \in DOMAIN G, Loops!IsHeader(l)', F[1].q = G[l].q
        PROVE  F[1].n < G[l].n
    <3>1. 1 < l + 1 /\ l + 1 \in DOMAIN F
      BY <1>4, <2>5
    <3> QED
      BY <1>4, <1>8, <2>1, <2>5, <3>1
  <2>6. /\ \A j, l \in DOMAIN v4'.list : j < l /\ v4'.list[j].hdr.q = v4'.list[l].hdr.q => v4'.list[j].hdr.n < v4'.list[l].hdr.n
        /\ \A j \in DOMAIN v4'.list : v4'.list[j].hdr.q = v4'.hdr.q => v4'.list[j].hdr.n < v4'.hdr.n
        /\ \A j \in DOMAIN v4'.list, l \in DOMAIN G : Loops!IsHeader(l)' /\ v4'.list[j].hdr.q = G[l].q => v4'.list[j].hdr.n < G[l].n
    <3>1. v4'.list = v4.list /\ v4'.hdr = F[1]
      BY <1>3, <1>4
    <3> DEFINE list == v4.list
               new == v4'.list
    <3>2. \A j, l \in DOMAIN list : j < l /\ list[j].hdr.q = list[l].hdr.q => list[j].hdr.n < list[l].hdr.n
      BY <2>1
    <3>3. \A j \in DOMAIN list : list[j].hdr.q = v4'.hdr.q => list[j].hdr.n < v4'.hdr.n
      BY <2>3, <3>1
    <3>4. \A j \in DOMAIN list, l \in DOMAIN G : Loops!IsHeader(l)' /\ list[j].hdr.q = G[l].q => list[j].hdr.n < G[l].n
      BY <2>4
    <3>5. new = list
      BY <3>1
    <3> HIDE DEF list, new
    <3> QED
      BY <3>2, <3>3, <3>4, <3>5 DEF new
  <2>7. \A l \in DOMAIN G : Loops!IsHeader(l)' /\ v4'.hdr.q = G[l].q => v4'.hdr.n < G[l].n
    BY <1>4, <2>5
  <2>8. \A j, l \in DOMAIN G : j < l /\ Loops!IsHeader(j)' /\ Loops!IsHeader(l)' /\ G[j].q = G[l].q => G[j].n < G[l].n
    BY <2>2
  <2> QED
    BY <2>6, <2>7, <2>8, Zenon DEF Loops!OrderInv, G
<1> QED
  BY <1>1, <1>2, <1>6, <1>12, <1>13, <1>14, LoopMqStep

LEMMA LoopEmptyMessage ==
  ASSUME Loops!IInv, v1 = "mq", v1' = v1, v2' = v2, v3' = v3, v5' = v5, v4.pc = "body", v4.hdr.len = 0,
         v4' = [v4 EXCEPT !.pc = "failed"]
  PROVE  Loops!IInv'
<1>1. Loops!TypeOK /\ Loops!MessageInv /\ Loops!FramesInv /\ Loops!OrderInv
  BY DEF Loops!IInv
<1>2. /\ v4 \in Loops!Mains
      /\ v3 \in [in : Nat, sent : Nat, sig : BOOLEAN, hash : Nat, open : BOOLEAN]
      /\ v5 \in [LoopKids -> Loops!OneOf]
  BY <1>1, LoopMsgTypes
<1>3. v4'.pc = "failed" /\ v4'.hdr = v4.hdr /\ v4'.frames = v4.frames /\ v4'.list = v4.list /\ v4' \in Loops!Mains
  BY <1>2 DEF Loops!Mains, Loops!Labels
<1>4. Loops!Holds /\ Loops!Holds' /\ (Loops!Started' <=> Loops!Started)
  BY <1>3 DEF Loops!Holds, Loops!Started
<1>5. /\ \A j : Loops!IsHeader(j)' <=> Loops!IsHeader(j)
      /\ \A q : Loops!Taken(q)' = Loops!Taken(q)
  BY <1>3 DEF Loops!IsHeader, Loops!Taken
<1>6. \A q, n : Loops!Placed(q, n) => Loops!Placed(q, n)'
  BY <1>3, <1>4, <1>5 DEF Loops!Placed
<1>7. Loops!MessageInv'
  <2>1. Loops!Right(v4.hdr)' <=> Loops!Right(v4.hdr)
    BY <1>3, <1>5 DEF Loops!Right
  <2>2. \A j : Loops!Right(v4.frames[j])' <=> Loops!Right(v4.frames[j])
    BY <1>3, <1>5 DEF Loops!Right
  <2>3. \A j : Loops!Right(v4.list[j].hdr)' <=> Loops!Right(v4.list[j].hdr)
    BY <1>3, <1>5 DEF Loops!Right
  <2> QED
    BY <1>1, <1>3, <1>4, <1>5, <1>6, <2>1, <2>2, <2>3 DEF Loops!MessageInv, Loops!At
<1>8. Loops!FramesInv' /\ Loops!OrderInv'
  BY <1>1, <1>3, <1>4, <1>5 DEF Loops!FramesInv, Loops!OrderInv
<1> QED
  BY <1>1, <1>2, <1>3, <1>7, <1>8, LoopMqStep

LEMMA LoopReadBody ==
  ASSUME Loops!IInv, v1 = "mq", v1' = v1, v2' = v2, v3' = v3, v5' = v5, v4.pc = "body", v4.hdr.len # 0, v4.frames # <<>>,
         v4' = [v4 EXCEPT !.pc = "select", !.frames = Tail(@), !.list = Append(@, [hdr |-> v4.hdr, body |-> Head(v4.frames)])]
  PROVE  Loops!IInv'
<1> DEFINE F == v4.frames
           G == v4'.frames
           M == [hdr : Loops!Frames, body : Loops!Frames]
           A == v4.list
           N == v4'.list
           L == Len(A)
           r == [hdr |-> v4.hdr, body |-> Head(v4.frames)]
<1>1. Loops!TypeOK /\ Loops!MessageInv /\ Loops!FramesInv /\ Loops!OrderInv
  BY DEF Loops!IInv
<1>2. /\ v4 \in Loops!Mains /\ A \in Seq(M)
      /\ v3 \in [in : Nat, sent : Nat, sig : BOOLEAN, hash : Nat, open : BOOLEAN]
      /\ v5 \in [LoopKids -> Loops!OneOf]
  BY <1>1, LoopMsgTypes
<1>3. v4'.pc = "select" /\ v4'.hdr = v4.hdr /\ G = Tail(F) /\ N = Append(A, r)
  BY <1>2 DEF Loops!Mains
<1>4. /\ 1 \in DOMAIN F /\ F[1] = Head(F) /\ F[1] \in Loops!Frames
      /\ G \in Seq(Loops!Frames)
      /\ \A j \in DOMAIN G : j \in Nat /\ j > 0 /\ j + 1 \in DOMAIN F /\ G[j] = F[j + 1] /\ (Loops!IsHeader(j)' <=> Loops!IsHeader(j + 1))
      /\ \A j \in DOMAIN F : j \in Nat /\ (j # 1 => j - 1 \in DOMAIN G /\ G[j - 1] = F[j] /\ (Loops!IsHeader(j - 1)' <=> Loops!IsHeader(j)))
  <2>1. v4'.frames = Tail(v4.frames)
    BY <1>3
  <2> HIDE DEF r
  <2> QED
    BY <1>1, <2>1, LoopShift
<1>5. \A j \in DOMAIN G : IF Loops!IsHeader(j)' /\ G[j].len = 1
                           THEN j + 1 \in DOMAIN G /\ G[j + 1].part = "body" /\ G[j + 1].q = G[j].q
                           ELSE j + 1 \in DOMAIN G => Loops!IsHeader(j + 1)'
  BY <1>1, <1>3, LoopShift
<1>6. Loops!Holds /\ ~Loops!Holds' /\ Loops!Started /\ ~Loops!Started' /\ v4.hdr \in Loops!Frames /\ Loops!Right(v4.hdr) /\ v4.hdr.len = 1
  <2>1. Loops!Holds /\ ~Loops!Holds' /\ ~Loops!Started'
    BY <1>3 DEF Loops!Holds, Loops!Started
  <2>2. v4.hdr \in Loops!Frames /\ Loops!Right(v4.hdr)
    BY <1>1, <2>1 DEF Loops!MessageInv
  <2>3. v4.hdr.len = 1
    BY <2>2 DEF Loops!Frames
  <2> QED
    BY <2>1, <2>2, <2>3 DEF Loops!Started
<1>7. F[1].part = "body" /\ F[1].q = v4.hdr.q /\ ~Loops!IsHeader(1)
  BY <1>1, <1>6 DEF Loops!FramesInv, Loops!IsHeader
<1>8. r \in M /\ r.hdr = v4.hdr /\ r.body = F[1]
  BY <1>4, <1>6
<1> HIDE DEF r
<1>9. /\ N \in Seq(M) /\ L \in Nat /\ DOMAIN A = 1..L /\ DOMAIN N = 1..(L + 1)
      /\ \A j \in 1..L : N[j] = A[j]
      /\ N[L + 1] = r
  <2>1. A \in Seq(M) /\ r \in M
    BY <1>2, <1>8
  <2>2. N = Append(A, r)
    BY <1>3
  <2> HIDE DEF A, M, N
  <2> QED
    BY <2>1, <2>2, LoopAppend
<1>10. v4' \in Loops!Mains
  <2>1. v4' = [v4 EXCEPT !.pc = "select", !.frames = G, !.list = N] /\ G \in Seq(Loops!Frames) /\ N \in Seq(M)
    BY <1>3, <1>4, <1>9 DEF r
  <2> HIDE DEF G, N
  <2>2. v4 \in [pc : Loops!Labels, pipe : Nat, caught : BOOLEAN, says : SUBSET {"signal", "fd"}, flag : BOOLEAN, done : BOOLEAN, printed : Nat,
                list : Seq(M), closed : SUBSET LoopKids,
                frames : Seq(Loops!Frames), hdr : Loops!Frames \cup {Loops!NoHeader}]
    BY <1>2 DEF Loops!Mains
  <2>3. "select" \in Loops!Labels
    BY DEF Loops!Labels
  <2> QED
    BY <2>1, <2>2, <2>3 DEF Loops!Mains
<1> HIDE DEF F, G, A, N, L, M
<1>11. /\ \A j \in DOMAIN F : Loops!IsHeader(j) => Loops!Right(F[j])
       /\ \A j \in DOMAIN A : Loops!Right(A[j].hdr) /\ A[j].body.q = A[j].hdr.q /\ A[j].body.part = "body"
       /\ \A q \in LoopKids : /\ Len(v5[q].queue) <= Len(v5[q].all)
                              /\ \A j \in DOMAIN v5[q].queue : v5[q].queue[j] = v5[q].all[Loops!Taken(q) + j]
       /\ \A q \in LoopKids : \A n \in 1..Loops!Taken(q) : Loops!Placed(q, n)
  BY <1>1 DEF Loops!MessageInv, F, A
<1>12. \A q : Loops!Taken(q)' = Loops!Taken(q)
  BY DEF Loops!Taken
<1>13. \A j \in DOMAIN N : (j \in DOMAIN A /\ N[j] = A[j]) \/ (j = L + 1 /\ N[j] = r)
  BY <1>9
<1>14. ASSUME NEW q \in LoopKids, NEW n \in 1..Loops!Taken(q) PROVE Loops!Placed(q, n)'
  <2>1. Loops!Placed(q, n)
    BY <1>11
  <2>2. CASE \E j \in DOMAIN A : A[j].hdr.q = q /\ A[j].hdr.n = n
    <3>1. \E j \in DOMAIN N : N[j].hdr.q = q /\ N[j].hdr.n = n
      BY <1>9, <2>2
    <3> QED
      BY <3>1 DEF Loops!Placed, N
  <2>3. CASE v4.hdr.q = q /\ v4.hdr.n = n
    <3>1. L + 1 \in DOMAIN N
      BY <1>9
    <3>2. \E j \in DOMAIN N : N[j].hdr.q = q /\ N[j].hdr.n = n
      BY <1>8, <1>9, <2>3, <3>1
    <3> QED
      BY <3>2 DEF Loops!Placed, N
  <2>4. CASE \E j \in DOMAIN F : Loops!IsHeader(j) /\ F[j].q = q /\ F[j].n = n
    <3>1. PICK j \in DOMAIN F : Loops!IsHeader(j) /\ F[j].q = q /\ F[j].n = n
      BY <2>4
    <3>2. j - 1 \in DOMAIN G /\ G[j - 1] = F[j] /\ Loops!IsHeader(j - 1)'
      BY <1>4, <1>7, <3>1
    <3> QED
      BY <3>1, <3>2 DEF Loops!Placed, G
  <2> QED
    BY <2>1, <2>2, <2>3, <2>4 DEF Loops!Placed, F, A
<1>15. Loops!MessageInv'
  <2>1. \A j \in DOMAIN v4'.frames : Loops!IsHeader(j)' => Loops!Right(v4.frames[j])'
    <3>1. \A j \in DOMAIN G : Loops!IsHeader(j)' => Loops!Right(F[j + 1])
      BY <1>4, <1>11
    <3> QED
      BY <1>4, <1>12, <3>1 DEF Loops!Right, G
  <2>2. \A j \in DOMAIN v4'.list : Loops!Right(v4.list[j].hdr)'
    <3>1. \A j \in DOMAIN N : N[j].hdr.part = "header" /\ N[j].hdr.n \in 1..Loops!Taken(N[j].hdr.q) /\ v5[N[j].hdr.q].all[N[j].hdr.n] = N[j].hdr.len
      BY <1>6, <1>8, <1>11, <1>13 DEF Loops!Right
    <3> QED
      BY <1>12, <3>1 DEF Loops!Right, N
  <2>3. \A q \in LoopKids : \A n \in 1..Loops!Taken(q)' : Loops!Placed(q, n)'
    BY <1>12, <1>14
  <2>4. \A j \in DOMAIN v4'.list : v4'.list[j].body.q = v4'.list[j].hdr.q /\ v4'.list[j].body.part = "body"
    <3>1. \A j \in DOMAIN N : N[j].body.q = N[j].hdr.q /\ N[j].body.part = "body"
      BY <1>7, <1>8, <1>11, <1>13
    <3> QED
      BY <3>1 DEF N
  <2> QED
    BY <1>3, <1>6, <1>11, <1>12, <2>1, <2>2, <2>3, <2>4 DEF Loops!MessageInv, Loops!At
<1>16. Loops!FramesInv'
  <2>1. 1 + 1 \in DOMAIN F => Loops!IsHeader(1 + 1)
    BY <1>1, <1>4, <1>7 DEF Loops!FramesInv, F
  <2>2. G # <<>> => Loops!IsHeader(1)'
    <3>1. CASE G = <<>>
      BY <3>1
    <3>2. CASE G # <<>>
      <4>1. 1 \in DOMAIN G
        BY <1>4, <3>2, LoopTail
      <4> QED
        BY <1>4, <2>1, <4>1
    <3> QED
      BY <3>1, <3>2
  <2> QED
    BY <1>5, <1>6, <2>2 DEF Loops!FramesInv, G
<1>17. Loops!OrderInv'
  <2>1. /\ \A j, l \in DOMAIN A : j < l /\ A[j].hdr.q = A[l].hdr.q => A[j].hdr.n < A[l].hdr.n
        /\ \A j, l \in DOMAIN F : j < l /\ Loops!IsHeader(j) /\ Loops!IsHeader(l) /\ F[j].q = F[l].q => F[j].n < F[l].n
        /\ \A j \in DOMAIN A : A[j].hdr.q = v4.hdr.q => A[j].hdr.n < v4.hdr.n
        /\ \A j \in DOMAIN A, l \in DOMAIN F : Loops!IsHeader(l) /\ A[j].hdr.q = F[l].q => A[j].hdr.n < F[l].n
        /\ \A l \in DOMAIN F : Loops!IsHeader(l) /\ v4.hdr.q = F[l].q => v4.hdr.n < F[l].n
    BY <1>1, <1>6 DEF Loops!OrderInv, F, A
  <2>2. ASSUME NEW j \in DOMAIN G, NEW l \in DOMAIN G, j < l, Loops!IsHeader(j)', Loops!IsHeader(l)', G[j].q = G[l].q
        PROVE  G[j].n < G[l].n
    <3>1. /\ j + 1 < l + 1 /\ j + 1 \in DOMAIN F /\ l + 1 \in DOMAIN F /\ G[j] = F[j + 1] /\ G[l] = F[l + 1]
          /\ Loops!IsHeader(j + 1) /\ Loops!IsHeader(l + 1)
      BY <1>4, <2>2
    <3> QED
      BY <2>1, <2>2, <3>1
  <2>3. ASSUME NEW j \in DOMAIN N, NEW l \in DOMAIN N, j < l, N[j].hdr.q = N[l].hdr.q
        PROVE  N[j].hdr.n < N[l].hdr.n
    <3>1. j \in 1..L /\ N[j] = A[j]
      BY <1>9, <2>3
    <3>2. CASE l = L + 1
      BY <1>8, <1>9, <2>1, <2>3, <3>1, <3>2
    <3>3. CASE l # L + 1
      BY <1>9, <1>13, <2>1, <2>3, <3>1, <3>3
    <3> QED
      BY <3>2, <3>3
  <2>4. ASSUME NEW j \in DOMAIN N, NEW l \in DOMAIN G, Loops!IsHeader(l)', N[j].hdr.q = G[l].q
        PROVE  N[j].hdr.n < G[l].n
    <3>1. l + 1 \in DOMAIN F /\ G[l] = F[l + 1] /\ Loops!IsHeader(l + 1)
      BY <1>4, <2>4
    <3> QED
      BY <1>8, <1>13, <2>1, <2>4, <3>1
  <2>5. \A j, l \in DOMAIN G : j < l /\ Loops!IsHeader(j)' /\ Loops!IsHeader(l)' /\ G[j].q = G[l].q => G[j].n < G[l].n
    BY <2>2
  <2>6. \A j, l \in DOMAIN N : j < l /\ N[j].hdr.q = N[l].hdr.q => N[j].hdr.n < N[l].hdr.n
    BY <2>3
  <2>7. \A j \in DOMAIN N, l \in DOMAIN G : Loops!IsHeader(l)' /\ N[j].hdr.q = G[l].q => N[j].hdr.n < G[l].n
    BY <2>4
  <2> QED
    BY <1>6, <2>5, <2>6, <2>7, Zenon DEF Loops!OrderInv, G, N
<1> QED
  BY <1>1, <1>2, <1>10, <1>15, <1>16, <1>17, LoopMqStep

LEMMA LoopReadMessage ==
  ASSUME Loops!IInv, Loops!ReadMessage PROVE Loops!IInv'
<1>1. v1 = "mq" /\ v1' = v1 /\ v2' = v2 /\ v3' = v3 /\ v5' = v5
  BY DEF Loops!ReadMessage, Loops!Mine
<1>2. CASE /\ v4.pc = "select" /\ v4.frames # <<>>
           /\ v4' = [v4 EXCEPT !.pc = "body", !.hdr = Head(v4.frames), !.frames = Tail(@)]
  BY <1>1, <1>2, LoopReadHeader
<1>3. CASE v4.pc = "body" /\ v4.hdr.len = 0 /\ v4' = [v4 EXCEPT !.pc = "failed"]
  BY <1>1, <1>3, LoopEmptyMessage
<1>4. CASE /\ v4.pc = "body" /\ v4.hdr.len # 0 /\ v4.frames # <<>>
           /\ v4' = [v4 EXCEPT !.pc = "select", !.frames = Tail(@), !.list = Append(@, [hdr |-> v4.hdr, body |-> Head(v4.frames)])]
  BY <1>1, <1>4, LoopReadBody
<1> QED
  BY <1>2, <1>3, <1>4 DEF Loops!ReadMessage, Loops!Mine, Loops!At, Loops!Go

LEMMA LoopMq ==
  ASSUME Loops!IInv, Loops!select_mq PROVE Loops!IInv'
BY LoopMessage, LoopChildMon, LoopReadMessage DEF Loops!select_mq

-----------------------------------------------------------------------------
(* EventLoops: epoll_flags_fork and multithread_epoll_wait.                *)

\* The instance of a child is an instance; if it is shared there is one.
LEMMA LoopInstance ==
  /\ \A c \in LoopKids : Loops!Instance(c) \in LoopKids /\ Loops!Instance(c) \in Loops!Instances
  /\ v2.shared => \A c, d \in LoopKids : Loops!Instance(c) = Loops!Instance(d)
  /\ ~v2.shared => \A c \in LoopKids : Loops!Instance(c) = c
  /\ \A i \in Loops!Instances : i \in LoopKids
  /\ LoopKids # {}
<1>1. LoopKids # {}
  BY LoopBounds
<1>2. (CHOOSE d \in LoopKids : TRUE) \in LoopKids
  BY <1>1
<1>3. \A c \in LoopKids : Loops!Instance(c) \in LoopKids
  BY <1>2 DEF Loops!Instance
<1>4. v2.shared => \A c, d \in LoopKids : Loops!Instance(c) = Loops!Instance(d)
  BY DEF Loops!Instance
<1>5. ~v2.shared => \A c \in LoopKids : Loops!Instance(c) = c
  BY DEF Loops!Instance
<1>6. /\ \A i \in Loops!Instances : i \in LoopKids
      /\ \A c \in LoopKids : Loops!Instance(c) \in Loops!Instances
  BY <1>3 DEF Loops!Instances
<1> QED
  BY <1>1, <1>3, <1>4, <1>5, <1>6

LEMMA LoopInstanceKept ==
  ASSUME v2' = v2 PROVE (\A c : Loops!Instance(c)' = Loops!Instance(c)) /\ Loops!Instances' = Loops!Instances
BY DEF Loops!Instance, Loops!Instances

\* What the types say of the children.
LEMMA LoopKidTypes ==
  ASSUME Loops!TypeOK
  PROVE  /\ v3 \in [in : Nat, sent : Nat, sig : BOOLEAN, hash : Nat, open : BOOLEAN]
         /\ v3.in \in Nat /\ v3.sent \in Nat /\ v3.open \in BOOLEAN
         /\ v2 \in Loops!Options /\ v2.et \in BOOLEAN /\ v2.oneshot \in BOOLEAN /\ v2.shared \in BOOLEAN /\ v2.read \in BOOLEAN /\ v2.loop \in BOOLEAN
         /\ v4 \in Loops!Mains /\ v4.caught \in BOOLEAN
         /\ v5 \in [LoopKids -> Loops!OneOf]
         /\ \A c \in LoopKids : v5[c] \in Loops!OneOf /\ v5[c].ready \in BOOLEAN /\ v5[c].armed \in BOOLEAN /\ v5[c].told \in BOOLEAN
<1>1. /\ v3 \in [in : Nat, sent : Nat, sig : BOOLEAN, hash : Nat, open : BOOLEAN]
      /\ v2 \in Loops!Options /\ v4 \in Loops!Mains /\ v5 \in [LoopKids -> Loops!OneOf]
  BY DEF Loops!TypeOK
<1>2. v3.in \in Nat /\ v3.sent \in Nat /\ v3.open \in BOOLEAN
  BY <1>1
<1>3. v2.et \in BOOLEAN /\ v2.oneshot \in BOOLEAN /\ v2.shared \in BOOLEAN /\ v2.read \in BOOLEAN /\ v2.loop \in BOOLEAN
  BY <1>1 DEF Loops!Options
<1>4. v4.caught \in BOOLEAN
  BY <1>1 DEF Loops!Mains
<1>5. \A c \in LoopKids : v5[c] \in Loops!OneOf
  BY <1>1
<1>6. \A k \in Loops!OneOf : k.ready \in BOOLEAN /\ k.armed \in BOOLEAN /\ k.told \in BOOLEAN
  BY DEF Loops!OneOf
<1> QED
  BY <1>1, <1>2, <1>3, <1>4, <1>5, <1>6

LEMMA LoopFlagStep ==
  ASSUME Loops!IInv, v1 \in {"flags", "threads"}, v1' = v1, v2' = v2, v4' \in Loops!Mains,
         v5' \in [LoopKids -> Loops!OneOf],
         v3' \in [in : Nat, sent : Nat, sig : BOOLEAN, hash : Nat, open : BOOLEAN],
         Loops!FlagsInv'
  PROVE  Loops!IInv'
<1>1. Loops!Mains' = Loops!Mains
  BY DEF Loops!Mains
<1>2. Loops!TypeOK
  BY DEF Loops!IInv
<1>3. Loops!TypeOK'
  BY <1>1, <1>2 DEF Loops!TypeOK
<1> QED
  BY <1>3 DEF Loops!IInv, Loops!SelfInv, Loops!SigioInv, Loops!InputInv, Loops!MessageInv, Loops!FramesInv, Loops!OrderInv

LEMMA LoopWakes ==
  ASSUME Loops!TypeOK, NEW S, Loops!Wakes(S)
  PROVE  /\ v5' \in [LoopKids -> Loops!OneOf]
         /\ \A c \in LoopKids : /\ v5'[c].pc = v5[c].pc /\ v5'[c].armed = v5[c].armed /\ v5'[c].told = v5[c].told
                                /\ v5'[c].ready <=> v5[c].ready \/ (c \in S /\ v5[c].armed)
<1>1. v5' = [c \in LoopKids |-> IF c \in S THEN [v5[c] EXCEPT !.ready = @ \/ v5[c].armed] ELSE v5[c]]
  BY DEF Loops!Wakes
<1>2. ASSUME NEW c \in LoopKids
      PROVE  /\ v5'[c] \in Loops!OneOf
             /\ v5'[c].pc = v5[c].pc /\ v5'[c].armed = v5[c].armed /\ v5'[c].told = v5[c].told
             /\ v5'[c].ready <=> v5[c].ready \/ (c \in S /\ v5[c].armed)
  <2> DEFINE k == v5[c]
             b == k.ready \/ k.armed
  <2>1. k \in Loops!OneOf /\ k.ready \in BOOLEAN /\ k.armed \in BOOLEAN
    BY LoopKidTypes
  <2>2. CASE c \in S
    <3>1. v5'[c] = [k EXCEPT !.ready = b] /\ b \in BOOLEAN
      BY <1>1, <2>2
    <3> HIDE DEF k, b
    <3>2. v5'[c] \in Loops!OneOf /\ v5'[c].pc = k.pc /\ v5'[c].armed = k.armed /\ v5'[c].told = k.told /\ v5'[c].ready = b
      BY <2>1, <3>1 DEF Loops!OneOf
    <3> QED
      BY <2>2, <3>2 DEF k, b
  <2>3. CASE c \notin S
    BY <1>1, <2>1, <2>3
  <2> QED
    BY <2>2, <2>3
<1>3. v5' \in [LoopKids -> Loops!OneOf]
  <2>1. v5' = [c \in LoopKids |-> v5'[c]]
    BY <1>1
  <2> QED
    BY <1>2, <2>1
<1> QED
  BY <1>2, <1>3

LEMMA LoopWriteFifo ==
  ASSUME Loops!IInv, Loops!WriteFifo PROVE Loops!IInv'
<1>1. /\ v1 \in {"flags", "threads"} /\ v1' = v1 /\ v2' = v2 /\ v4' = v4
      /\ v3.sent < (IF v1 = "threads" THEN 1 ELSE LoopMaxInput)
      /\ v3' = [v3 EXCEPT !.sent = @ + 1, !.in = @ + 1]
  BY DEF Loops!WriteFifo, Loops!Flags
<1>2. PICK S \in SUBSET Loops!Added : (S # {} \/ Loops!Added = {}) /\ Loops!Wakes(S)
  BY DEF Loops!WriteFifo, Loops!Flags
<1>3. Loops!TypeOK /\ Loops!FlagsInv
  BY DEF Loops!IInv
<1>4. /\ v3 \in [in : Nat, sent : Nat, sig : BOOLEAN, hash : Nat, open : BOOLEAN]
      /\ v3.in \in Nat /\ v3.sent \in Nat /\ v4 \in Loops!Mains
      /\ v2.et \in BOOLEAN /\ v2.oneshot \in BOOLEAN /\ v2.shared \in BOOLEAN
  BY <1>3, LoopKidTypes
<1>5. /\ v3' \in [in : Nat, sent : Nat, sig : BOOLEAN, hash : Nat, open : BOOLEAN]
      /\ v3'.in = v3.in + 1 /\ v3'.sent = v3.sent + 1 /\ v3'.open = v3.open
  <2> DEFINE a == v3.sent + 1
             b == v3.in + 1
  <2>1. a \in Nat /\ b \in Nat /\ v3' = [v3 EXCEPT !.sent = a, !.in = b]
    BY <1>1, <1>4
  <2> HIDE DEF a, b
  <2>2. v3' \in [in : Nat, sent : Nat, sig : BOOLEAN, hash : Nat, open : BOOLEAN] /\ v3'.in = b /\ v3'.sent = a /\ v3'.open = v3.open
    BY <1>4, <2>1
  <2> QED
    BY <2>2 DEF a, b
<1>6. /\ v5' \in [LoopKids -> Loops!OneOf]
      /\ \A c \in LoopKids : v5'[c].pc = v5[c].pc /\ v5'[c].armed = v5[c].armed /\ v5'[c].told = v5[c].told
      /\ \A c \in LoopKids : v5'[c].ready <=> v5[c].ready \/ (c \in S /\ v5[c].armed)
  BY <1>2, <1>3, LoopWakes
<1>7. Loops!Instances' = Loops!Instances /\ \A c : Loops!Instance(c)' = Loops!Instance(c)
  BY <1>1, LoopInstanceKept
<1>8. v3.in <= v3.sent /\ \A c \in LoopKids : v2.oneshot \/ v5[c].armed
  BY <1>1, <1>3 DEF Loops!FlagsInv
<1>9. ASSUME ~v2.oneshot PROVE Loops!SomebodyReads'
  <2>1. CASE S # {}
    <3>1. PICK i \in S : TRUE
      BY <2>1
    <3>2. i \in Loops!Instances /\ i \in LoopKids
      BY <3>1, LoopInstance DEF Loops!Added
    <3>3. v5'[i].ready
      BY <1>6, <1>8, <1>9, <3>1, <3>2
    <3> QED
      BY <1>7, <3>2, <3>3 DEF Loops!SomebodyReads
  <2>2. CASE Loops!Added = {}
    <3>1. PICK c \in LoopKids : TRUE
      BY LoopInstance
    <3>2. Loops!Instance(c) \in Loops!Instances /\ Loops!Instance(c) \in LoopKids /\ Loops!Instance(c) \notin Loops!Added
      BY <2>2, <3>1, LoopInstance
    <3>3. ~v2.shared /\ v5[Loops!Instance(c)].pc = "new"
      BY <3>2 DEF Loops!Added
    <3>4. v5'[c].pc = "new"
      BY <1>6, <3>3, LoopInstance
    <3> QED
      BY <1>1, <3>3, <3>4 DEF Loops!SomebodyReads
  <2> QED
    BY <1>2, <2>1, <2>2
<1>10. v1 = "threads" => \A c \in LoopKids : v2.et => ~v5'[c].told
  <2> SUFFICES ASSUME v1 = "threads", NEW c \in LoopKids, v2.et PROVE ~v5'[c].told
    OBVIOUS
  <2>1. v3.sent = 0
    BY <1>1, <1>4
  <2>2. v5[c].told => v3.sent > 0
    BY <1>3 DEF Loops!FlagsInv
  <2> QED
    BY <1>6, <2>1, <2>2
<1>11. Loops!FlagsInv'
  <2>1. v3'.in <= v3'.sent /\ \A c \in LoopKids : v2'.oneshot \/ v5'[c].armed
    BY <1>1, <1>4, <1>5, <1>6, <1>8
  <2>2. v1 = "threads" => v3'.open
    BY <1>3, <1>5 DEF Loops!FlagsInv
  <2> QED
    BY <1>1, <1>9, <1>10, <2>1, <2>2 DEF Loops!FlagsInv
<1> QED
  BY <1>1, <1>4, <1>5, <1>6, <1>11, LoopFlagStep

LEMMA LoopCloseFifo ==
  ASSUME Loops!IInv, Loops!CloseFifo PROVE Loops!IInv'
<1>1. /\ v1 = "flags" /\ v1' = v1 /\ v2' = v2 /\ v4' = v4 /\ v3' = [v3 EXCEPT !.open = FALSE] /\ Loops!Wakes(Loops!Added)
  BY DEF Loops!CloseFifo, Loops!Flags
<1>2. Loops!TypeOK /\ Loops!FlagsInv
  BY DEF Loops!IInv
<1>3. v3 \in [in : Nat, sent : Nat, sig : BOOLEAN, hash : Nat, open : BOOLEAN] /\ v4 \in Loops!Mains
  BY <1>2, LoopKidTypes
<1>4. /\ v3' \in [in : Nat, sent : Nat, sig : BOOLEAN, hash : Nat, open : BOOLEAN] /\ v3'.in = v3.in /\ v3'.sent = v3.sent
  BY <1>1, <1>3
<1>5. /\ v5' \in [LoopKids -> Loops!OneOf]
      /\ \A c \in LoopKids : v5'[c].pc = v5[c].pc /\ v5'[c].armed = v5[c].armed
      /\ \A c \in LoopKids : v5[c].ready => v5'[c].ready
  BY <1>1, <1>2, LoopWakes
<1>6. Loops!Instances' = Loops!Instances /\ \A i \in Loops!Instances : i \in LoopKids
  BY <1>1, LoopInstanceKept, LoopInstance
<1>7. Loops!SomebodyReads => Loops!SomebodyReads'
  BY <1>1, <1>5, <1>6 DEF Loops!SomebodyReads
<1>8. Loops!FlagsInv'
  BY <1>1, <1>2, <1>4, <1>5, <1>7 DEF Loops!FlagsInv
<1> QED
  BY <1>1, <1>3, <1>4, <1>5, <1>8, LoopFlagStep

LEMMA LoopStartChild ==
  ASSUME Loops!IInv, NEW c \in LoopKids, Loops!StartChild(c) PROVE Loops!IInv'
<1> DEFINE k == v5[c]
           b == IF v2.shared THEN k.ready ELSE Loops!Readable /\ (v3.sent > 0)
           r == [k EXCEPT !.pc = "wait", !.ready = b]
<1>1. /\ v1 \in {"flags", "threads"} /\ v1' = v1 /\ v2' = v2 /\ v3' = v3 /\ v4' = v4 /\ k.pc = "new"
      /\ v5' = [v5 EXCEPT ![c].pc = "wait", ![c].ready = IF v2.shared THEN @ ELSE Loops!Readable /\ (v3.sent > 0)]
  BY DEF Loops!StartChild, Loops!Flags
<1>2. Loops!TypeOK /\ Loops!FlagsInv
  BY DEF Loops!IInv
<1>3. /\ v3 \in [in : Nat, sent : Nat, sig : BOOLEAN, hash : Nat, open : BOOLEAN] /\ v4 \in Loops!Mains
      /\ v3.in \in Nat /\ v3.sent \in Nat /\ v3.open \in BOOLEAN /\ v2.shared \in BOOLEAN
      /\ v5 \in [LoopKids -> Loops!OneOf] /\ k \in Loops!OneOf /\ k.ready \in BOOLEAN
  BY <1>2, LoopKidTypes
<1>4. v5' = [v5 EXCEPT ![c] = r] /\ b \in BOOLEAN
  BY <1>1, <1>3 DEF Loops!Readable
<1>5. r \in Loops!OneOf /\ r.pc = "wait" /\ r.ready = b /\ r.armed = k.armed /\ r.told = k.told
  <2> HIDE DEF k, b
  <2> QED
    BY <1>3, <1>4 DEF Loops!OneOf
<1> HIDE DEF r
<1>6. v5' \in [LoopKids -> Loops!OneOf] /\ v5'[c] = r /\ \A d \in LoopKids \ {c} : v5'[d] = v5[d]
  BY <1>3, <1>4, <1>5
<1>7. /\ \A d \in LoopKids : v5'[d].armed = v5[d].armed /\ v5'[d].told = v5[d].told
      /\ \A d \in LoopKids : v2.shared => v5'[d].ready = v5[d].ready
  BY <1>5, <1>6
<1>8. Loops!Instances' = Loops!Instances /\ (\A d : Loops!Instance(d)' = Loops!Instance(d)) /\ \A i \in Loops!Instances : i \in LoopKids
  BY <1>1, LoopInstanceKept, LoopInstance
<1>9. v1 \in {"flags", "threads"} => v3.in <= v3.sent /\ \A d \in LoopKids : v2.oneshot \/ v5[d].armed
  BY <1>2 DEF Loops!FlagsInv
<1>10. ASSUME v3.in > 0, Loops!SomebodyReads PROVE Loops!SomebodyReads'
  <2>1. CASE ~v2.shared
    <3>1. v5'[c].ready
      <4>1. Loops!Readable /\ v3.sent > 0
        BY <1>1, <1>3, <1>9, <1>10 DEF Loops!Readable
      <4>2. b
        BY <2>1, <4>1
      <4> QED
        BY <1>5, <1>6, <4>2
    <3>2. c \in Loops!Instances
      BY <2>1, LoopInstance
    <3> QED
      BY <1>8, <3>1, <3>2 DEF Loops!SomebodyReads
  <2>2. CASE v2.shared
    <3>1. CASE \E i \in Loops!Instances : v5[i].ready
      BY <1>7, <1>8, <2>2, <3>1 DEF Loops!SomebodyReads
    <3>2. CASE v2.et /\ v4.caught
      BY <1>1, <3>2 DEF Loops!SomebodyReads
    <3>3. CASE v2.et /\ \E d \in LoopKids : v5[d].pc = "read"
      <4>1. PICK d \in LoopKids : v5[d].pc = "read"
        BY <3>3
      <4>2. d # c
        BY <1>1, <4>1
      <4> QED
        BY <1>1, <1>6, <3>3, <4>1, <4>2 DEF Loops!SomebodyReads
    <3> QED
      BY <1>10, <2>2, <3>1, <3>2, <3>3 DEF Loops!SomebodyReads
  <2> QED
    BY <2>1, <2>2
<1>11. ASSUME v1 = "threads", v2.et
       PROVE  /\ \A d \in LoopKids : v5'[d].told => ~v5'[Loops!Instance(d)].ready /\ v3.sent > 0
              /\ \A d, e \in LoopKids : v5'[d].told /\ v5'[e].told => d = e
  <2>1. v2.shared
    BY <1>2, <1>11 DEF Loops!TypeOK
  <2>2. /\ \A d \in LoopKids : v5[d].told => ~v5[Loops!Instance(d)].ready /\ v3.sent > 0
        /\ \A d, e \in LoopKids : v5[d].told /\ v5[e].told => d = e
    BY <1>2, <1>11 DEF Loops!FlagsInv
  <2>3. \A d \in LoopKids : Loops!Instance(d) \in LoopKids
    BY LoopInstance
  <2> QED
    BY <1>7, <2>1, <2>2, <2>3
<1>12. Loops!FlagsInv'
  <2>1. \A d \in LoopKids : v2'.oneshot \/ v5'[d].armed
    BY <1>1, <1>7, <1>9
  <2> QED
    BY <1>1, <1>2, <1>8, <1>9, <1>10, <1>11, <2>1 DEF Loops!FlagsInv
<1> QED
  BY <1>1, <1>3, <1>6, <1>12, LoopFlagStep

LEMMA LoopEpollReturns ==
  ASSUME Loops!IInv, NEW c \in LoopKids, Loops!EpollReturns(c) PROVE Loops!IInv'
<1> DEFINE i == Loops!Instance(c)
           x == Loops!Readable /\ ~v2.et /\ ~v2.oneshot
           y == ~(v2.oneshot /\ Loops!Readable)
           l == IF v2.read THEN "read" ELSE IF v2.loop THEN "wait" ELSE "done"
           Told == [[v5 EXCEPT ![i].ready = x, ![i].armed = y] EXCEPT ![c].pc = l, ![c].told = TRUE]
<1>1. /\ v1 \in {"flags", "threads"} /\ v1' = v1 /\ v2' = v2 /\ v3' = v3 /\ v4' = v4 /\ v5[c].pc = "wait" /\ v5[i].ready
      /\ v5' = IF Loops!Readable THEN Told ELSE [v5 EXCEPT ![i].ready = FALSE]
  BY DEF Loops!EpollReturns, Loops!Flags
<1> HIDE DEF i, Told
<1>2. Loops!TypeOK /\ Loops!FlagsInv
  BY DEF Loops!IInv
<1>3. /\ v3 \in [in : Nat, sent : Nat, sig : BOOLEAN, hash : Nat, open : BOOLEAN] /\ v4 \in Loops!Mains
      /\ v3.in \in Nat /\ v3.sent \in Nat /\ v3.open \in BOOLEAN
      /\ v2.shared \in BOOLEAN /\ v2.et \in BOOLEAN /\ v2.oneshot \in BOOLEAN /\ v2.read \in BOOLEAN /\ v2.loop \in BOOLEAN
      /\ v5 \in [LoopKids -> Loops!OneOf]
  BY <1>2, LoopKidTypes
<1>4. /\ i \in LoopKids /\ i \in Loops!Instances /\ Loops!Instances' = Loops!Instances
      /\ \A d : Loops!Instance(d)' = Loops!Instance(d)
      /\ \A d \in LoopKids : Loops!Instance(d) \in LoopKids
  BY <1>1, LoopInstance, LoopInstanceKept DEF i
<1>5. /\ v3.in <= v3.sent /\ \A d \in LoopKids : v2.oneshot \/ v5[d].armed
  BY <1>1, <1>2 DEF Loops!FlagsInv
<1>6. ASSUME v1 = "threads", v2.et
      PROVE  /\ \A d \in LoopKids : Loops!Instance(d) = i
             /\ \A d \in LoopKids : ~v5[d].told
             /\ v3.open
  <2>1. v2.shared
    BY <1>2, <1>6 DEF Loops!TypeOK
  <2>2. \A d \in LoopKids : Loops!Instance(d) = i
    BY <2>1, LoopInstance DEF i
  <2>3. \A d \in LoopKids : v5[d].told => ~v5[Loops!Instance(d)].ready
    BY <1>2, <1>6 DEF Loops!FlagsInv
  <2>4. v3.open
    BY <1>2, <1>6 DEF Loops!FlagsInv
  <2> QED
    BY <1>1, <2>2, <2>3, <2>4
<1>7. CASE Loops!Readable
  <2>1. x \in BOOLEAN /\ y \in BOOLEAN /\ l \in {"new", "wait", "read", "done"}
    BY <1>3
  <2>2. v5' = [[v5 EXCEPT ![i].ready = x, ![i].armed = y] EXCEPT ![c].pc = l, ![c].told = TRUE]
    BY <1>1, <1>7 DEF Told
  <2> HIDE DEF x, y, l
  <2>3. /\ v5' \in [LoopKids -> Loops!OneOf]
        /\ \A d \in LoopKids : /\ v5'[d].ready = IF d = i THEN x ELSE v5[d].ready
                               /\ v5'[d].armed = IF d = i THEN y ELSE v5[d].armed
                               /\ v5'[d].pc = IF d = c THEN l ELSE v5[d].pc
                               /\ v5'[d].told = IF d = c THEN TRUE ELSE v5[d].told
    <3> DEFINE a == v5[i]
               r == [a EXCEPT !.ready = x, !.armed = y]
               k == [v5 EXCEPT ![i] = r]
               b == k[c]
               s == [b EXCEPT !.pc = l, !.told = TRUE]
    <3>1. v5' = [k EXCEPT ![c] = s] /\ a \in Loops!OneOf
      BY <1>3, <1>4, <2>2
    <3>2. r \in Loops!OneOf /\ r.ready = x /\ r.armed = y /\ r.pc = a.pc /\ r.told = a.told
      <4> HIDE DEF a
      <4> QED
        BY <2>1, <3>1 DEF Loops!OneOf
    <3> HIDE DEF r
    <3>3. k \in [LoopKids -> Loops!OneOf] /\ k[i] = r /\ \A d \in LoopKids \ {i} : k[d] = v5[d]
      BY <1>3, <1>4, <3>2
    <3> HIDE DEF k
    <3>4. s \in Loops!OneOf /\ s.pc = l /\ s.told = TRUE /\ s.ready = b.ready /\ s.armed = b.armed
      <4>1. b \in Loops!OneOf
        BY <3>3
      <4> HIDE DEF b
      <4> QED
        BY <2>1, <4>1 DEF Loops!OneOf
    <3> HIDE DEF s
    <3>5. v5' \in [LoopKids -> Loops!OneOf] /\ v5'[c] = s /\ \A d \in LoopKids \ {c} : v5'[d] = k[d]
      BY <3>1, <3>3, <3>4
    <3>6. ASSUME NEW d \in LoopKids
          PROVE  /\ k[d].ready = IF d = i THEN x ELSE v5[d].ready
                 /\ k[d].armed = IF d = i THEN y ELSE v5[d].armed
                 /\ k[d].pc = v5[d].pc /\ k[d].told = v5[d].told
      BY <3>2, <3>3
    <3>7. ASSUME NEW d \in LoopKids
          PROVE  /\ v5'[d].ready = k[d].ready /\ v5'[d].armed = k[d].armed
                 /\ v5'[d].pc = IF d = c THEN l ELSE k[d].pc
                 /\ v5'[d].told = IF d = c THEN TRUE ELSE k[d].told
      BY <3>4, <3>5
    <3> QED
      BY <3>5, <3>6, <3>7
  <2>4. \A d \in LoopKids : v2.oneshot \/ v5'[d].armed
    BY <1>5, <2>3 DEF y
  <2>5. ASSUME v2.loop => v2.read, v2.loop, ~v2.oneshot PROVE Loops!SomebodyReads'
    <3>1. CASE v2.et
      <4>1. v5'[c].pc = "read"
        BY <2>3, <2>5 DEF l
      <4> QED
        BY <1>1, <3>1, <4>1 DEF Loops!SomebodyReads
    <3>2. CASE ~v2.et
      <4>1. v5'[i].ready
        BY <1>4, <1>7, <2>3, <2>5, <3>2 DEF x
      <4> QED
        BY <1>4, <4>1 DEF Loops!SomebodyReads
    <3> QED
      BY <3>1, <3>2
  <2>6. ASSUME v1 = "threads", v2.et
        PROVE  /\ \A d \in LoopKids : v5'[d].told => ~v5'[Loops!Instance(d)].ready /\ v3.sent > 0
               /\ \A d, e \in LoopKids : v5'[d].told /\ v5'[e].told => d = e
    <3>1. ~x
      BY <2>6 DEF x
    <3>2. v3.sent > 0
      BY <1>3, <1>5, <1>6, <1>7, <2>6 DEF Loops!Readable
    <3>3. \A d \in LoopKids : v5'[d].told => d = c
      BY <1>6, <2>3, <2>6
    <3>4. \A d \in LoopKids : ~v5'[Loops!Instance(d)].ready
      BY <1>4, <1>6, <2>3, <2>6, <3>1
    <3> QED
      BY <3>2, <3>3, <3>4
  <2>7. Loops!FlagsInv'
    <3>1. v1 = "flags" => (v2.loop => v2.read)
      BY <1>2 DEF Loops!TypeOK
    <3>2. v1 = "threads" => v3.open
      BY <1>2 DEF Loops!FlagsInv
    <3> QED
      BY <1>1, <1>4, <1>5, <2>4, <2>5, <2>6, <3>1, <3>2 DEF Loops!FlagsInv
  <2> QED
    BY <1>1, <1>3, <2>3, <2>7, LoopFlagStep
<1>8. CASE ~Loops!Readable
  <2> DEFINE a == v5[i]
             r == [a EXCEPT !.ready = FALSE]
  <2>1. v5' = [v5 EXCEPT ![i] = r] /\ a \in Loops!OneOf
    BY <1>1, <1>3, <1>4, <1>8
  <2>2. r \in Loops!OneOf /\ r.ready = FALSE /\ r.pc = a.pc /\ r.armed = a.armed /\ r.told = a.told
    <3> HIDE DEF a
    <3> QED
      BY <2>1 DEF Loops!OneOf
  <2> HIDE DEF r
  <2>3. v5' \in [LoopKids -> Loops!OneOf] /\ \A d \in LoopKids : v5'[d].armed = v5[d].armed /\ v5'[d].told = v5[d].told
    BY <1>3, <1>4, <2>1, <2>2
  <2>4. ~(v3.in > 0)
    BY <1>8 DEF Loops!Readable
  <2>5. Loops!FlagsInv'
    <3>1. v1 = "threads" => v3.open
      BY <1>2 DEF Loops!FlagsInv
    <3>2. v1 = "threads" /\ v2.et => \A d \in LoopKids : ~v5'[d].told
      BY <1>6, <2>3
    <3> QED
      BY <1>1, <1>5, <2>3, <2>4, <3>1, <3>2 DEF Loops!FlagsInv
  <2> QED
    BY <1>1, <1>3, <2>3, <2>5, LoopFlagStep
<1> QED
  BY <1>7, <1>8

LEMMA LoopReadFifo ==
  ASSUME Loops!IInv, v1 = "flags", NEW c \in LoopKids, Loops!ReadFifo(c) PROVE Loops!IInv'
<1> DEFINE k == v5[c]
           l == IF (v3.in = 0 /\ ~v3.open) \/ ~v2.loop THEN "done" ELSE "wait"
           r == [k EXCEPT !.pc = l]
           n == IF v3.in > 0 THEN v3.in - 1 ELSE 0
           b == v4.caught \/ v3.in > 1
<1>1. /\ v1' = v1 /\ v2' = v2 /\ k.pc = "read"
      /\ v3' = [v3 EXCEPT !.in = n] /\ v4' = [v4 EXCEPT !.caught = b] /\ v5' = [v5 EXCEPT ![c].pc = l]
  BY DEF Loops!ReadFifo, Loops!Flags
<1>2. Loops!TypeOK /\ Loops!FlagsInv
  BY DEF Loops!IInv
<1>3. /\ v3 \in [in : Nat, sent : Nat, sig : BOOLEAN, hash : Nat, open : BOOLEAN] /\ v4 \in Loops!Mains
      /\ v3.in \in Nat /\ v3.sent \in Nat /\ v4.caught \in BOOLEAN
      /\ v5 \in [LoopKids -> Loops!OneOf] /\ k \in Loops!OneOf
  BY <1>2, LoopKidTypes
<1>4. v5' = [v5 EXCEPT ![c] = r] /\ l \in {"new", "wait", "read", "done"} /\ n \in Nat /\ n <= v3.in /\ b \in BOOLEAN
  BY <1>1, <1>3
<1>5. r \in Loops!OneOf /\ r.ready = k.ready /\ r.armed = k.armed
  <2> HIDE DEF k, l
  <2> QED
    BY <1>3, <1>4 DEF Loops!OneOf
<1> HIDE DEF r, l
<1>6. /\ v5' \in [LoopKids -> Loops!OneOf] /\ \A d \in LoopKids : v5'[d].ready = v5[d].ready /\ v5'[d].armed = v5[d].armed
      /\ \A d \in LoopKids : v5[d].pc = "new" => v5'[d].pc = "new"
  <2>1. v5' \in [LoopKids -> Loops!OneOf] /\ v5'[c] = r /\ \A d \in LoopKids \ {c} : v5'[d] = v5[d]
    BY <1>3, <1>4, <1>5
  <2> QED
    BY <1>1, <1>5, <2>1
<1>7. v3' \in [in : Nat, sent : Nat, sig : BOOLEAN, hash : Nat, open : BOOLEAN] /\ v3'.in = n /\ v3'.sent = v3.sent
  <2> HIDE DEF n
  <2> QED
    BY <1>1, <1>3, <1>4
<1>8. v4' \in Loops!Mains /\ v4'.caught = b
  <2> HIDE DEF b
  <2> QED
    BY <1>1, <1>3, <1>4 DEF Loops!Mains
<1>9. Loops!Instances' = Loops!Instances /\ \A i \in Loops!Instances : i \in LoopKids
  BY <1>1, LoopInstanceKept, LoopInstance
<1>10. v3.in <= v3.sent /\ \A d \in LoopKids : v2.oneshot \/ v5[d].armed
  BY <1>2 DEF Loops!FlagsInv
<1>11. ASSUME n > 0, Loops!SomebodyReads PROVE Loops!SomebodyReads'
  <2>1. v3.in > 1
    BY <1>3, <1>11
  <2>2. CASE v2.et
    BY <1>1, <1>8, <2>1, <2>2 DEF Loops!SomebodyReads
  <2>3. CASE ~v2.et
    BY <1>1, <1>6, <1>9, <1>11, <2>3 DEF Loops!SomebodyReads
  <2> QED
    BY <2>2, <2>3
<1>12. Loops!FlagsInv'
  <2>1. n <= v3.sent /\ (n > 0 => v3.in > 0)
    BY <1>3, <1>4, <1>10
  <2> HIDE DEF n
  <2> QED
    BY <1>1, <1>2, <1>6, <1>7, <1>10, <1>11, <2>1 DEF Loops!FlagsInv
<1> QED
  BY <1>1, <1>6, <1>7, <1>8, <1>12, LoopFlagStep

-----------------------------------------------------------------------------
(* EventLoops: the invariant.                                              *)

LEMMA LoopStutter ==
  ASSUME Loops!IInv, UNCHANGED Loops!vars PROVE Loops!IInv'
<1>1. v1' = v1 /\ v2' = v2 /\ v3' = v3 /\ v4' = v4 /\ v5' = v5
  BY DEF Loops!vars
<1>2. Loops!TypeOK' /\ Loops!SelfInv' /\ Loops!SigioInv'
  BY <1>1 DEF Loops!IInv, Loops!TypeOK, Loops!SelfInv, Loops!SigioInv, Loops!Mains, Loops!At
<1>3. Loops!InputInv'
  BY <1>1 DEF Loops!IInv, Loops!InputInv, Loops!Unread, Loops!EndSeen, Loops!At
<1>4. Loops!MessageInv' /\ Loops!FramesInv' /\ Loops!OrderInv'
  <2>1. /\ Loops!Holds' <=> Loops!Holds
        /\ Loops!Started' <=> Loops!Started
        /\ \A j : Loops!IsHeader(j)' <=> Loops!IsHeader(j)
        /\ \A q : Loops!Taken(q)' = Loops!Taken(q)
    BY <1>1 DEF Loops!Holds, Loops!Started, Loops!IsHeader, Loops!Taken
  <2>2. \A q, n : Loops!Placed(q, n)' <=> Loops!Placed(q, n)
    BY <1>1, <2>1 DEF Loops!Placed
  <2>3. /\ Loops!Right(v4.hdr)' <=> Loops!Right(v4.hdr)
        /\ \A j : Loops!Right(v4.frames[j])' <=> Loops!Right(v4.frames[j])
        /\ \A j : Loops!Right(v4.list[j].hdr)' <=> Loops!Right(v4.list[j].hdr)
    BY <1>1, <2>1 DEF Loops!Right
  <2>4. Loops!MessageInv'
    BY <1>1, <2>1, <2>2, <2>3 DEF Loops!IInv, Loops!MessageInv, Loops!At
  <2>5. Loops!FramesInv'
    BY <1>1, <2>1 DEF Loops!IInv, Loops!FramesInv
  <2>6. Loops!OrderInv'
    BY <1>1, <2>1 DEF Loops!IInv, Loops!OrderInv
  <2> QED
    BY <2>4, <2>5, <2>6
<1>5. Loops!FlagsInv'
  BY <1>1 DEF Loops!IInv, Loops!FlagsInv, Loops!SomebodyReads, Loops!Instances, Loops!Instance
<1> QED
  BY <1>2, <1>3, <1>4, <1>5 DEF Loops!IInv

LEMMA LoopNext ==
  ASSUME Loops!IInv, [Loops!Next]_(Loops!vars) PROVE Loops!IInv'
<1>1. CASE Loops!self_pipe
  BY <1>1, LoopSelf
<1>2. CASE Loops!demo_sigio
  BY <1>2, LoopSigio
<1>3. CASE Loops!epoll_input
  BY <1>3, LoopInput
<1>4. CASE Loops!select_mq
  BY <1>4, LoopMq
<1>5. CASE Loops!epoll_flags_fork
  BY <1>5, LoopWriteFifo, LoopCloseFifo, LoopStartChild, LoopEpollReturns, LoopReadFifo DEF Loops!epoll_flags_fork
<1>6. CASE Loops!multithread_epoll_wait
  BY <1>6, LoopWriteFifo, LoopStartChild, LoopEpollReturns DEF Loops!multithread_epoll_wait
<1>7. CASE UNCHANGED Loops!vars
  BY <1>7, LoopStutter
<1> QED
  BY <1>1, <1>2, <1>3, <1>4, <1>5, <1>6, <1>7 DEF Loops!Next

\* The invariant says what the property promises.
LEMMA LoopSafe ==
  ASSUME Loops!IInv PROVE Loops!InputNotForgotten /\ Loops!WaitersTold
<1>1. Loops!TypeOK /\ Loops!SelfInv /\ Loops!SigioInv /\ Loops!InputInv /\ Loops!MessageInv /\ Loops!FramesInv /\ Loops!OrderInv /\ Loops!FlagsInv
  BY DEF Loops!IInv
<1>2. Loops!InputNotForgotten
  <2>1. v1 = "input" => v4.printed <= v3.sent
    <3> SUFFICES ASSUME v1 = "input" PROVE v4.printed <= v3.sent
      OBVIOUS
    <3>1. IsFiniteSet(Loops!Unread) /\ v4.printed + Cardinality(Loops!Unread) <= v3.sent
      BY <1>1, LoopFinite, LoopCardinality DEF Loops!InputInv
    <3>2. Cardinality(Loops!Unread) \in Nat
      BY <3>1, FS_CardinalityType
    <3>3. v4.printed \in Nat /\ v3.sent \in Nat
      BY <1>1 DEF Loops!TypeOK, Loops!Mains
    <3> QED
      BY <3>1, <3>2, <3>3
  <2>2. v1 = "input" /\ v4.pc = "exit" => \A f \in LoopKids : v5[f].in = 0 \/ v5[f].again
    BY <1>1 DEF Loops!InputInv, Loops!EndSeen, Loops!At
  <2>3. v1 = "self" /\ v4.pc = "exit" => (("signal" \in v4.says) <=> v4.caught)
    BY <1>1 DEF Loops!SelfInv, Loops!At
  <2> QED
    BY <1>1, <2>1, <2>2, <2>3 DEF Loops!InputNotForgotten, Loops!SigioInv, Loops!At
<1>3. ASSUME v1 = "mq", NEW j \in DOMAIN v4.list
      PROVE  LET r == v4.list[j] IN
             /\ r.body.q = r.hdr.q /\ r.body.part = "body"
             /\ r.hdr.n \in DOMAIN v5[r.hdr.q].all /\ v5[r.hdr.q].all[r.hdr.n] = r.hdr.len
             /\ \A n \in 1..(r.hdr.n - 1) : \E k \in 1..(j - 1) : v4.list[k].hdr.q = r.hdr.q /\ v4.list[k].hdr.n = n
             /\ \A k \in 1..(j - 1) : v4.list[k].hdr.q = r.hdr.q => v4.list[k].hdr.n < r.hdr.n
  <2> DEFINE A == v4.list
             h == A[j].hdr
             q == h.q
  <2>1. h \in Loops!Frames /\ q \in LoopKids /\ h.n \in Nat /\ \A k \in DOMAIN A : A[k].hdr \in Loops!Frames /\ A[k].hdr.n \in Nat
    <3>1. \A k \in DOMAIN A : A[k].hdr \in Loops!Frames
      BY <1>1, <1>3, LoopMsgElements
    <3> QED
      BY <1>3, <3>1 DEF Loops!Frames
  <2>2. Loops!Right(h) /\ A[j].body.q = q /\ A[j].body.part = "body"
    BY <1>1, <1>3 DEF Loops!MessageInv
  <2>3. j \in Nat /\ DOMAIN A = 1..Len(A) /\ Len(A) \in Nat
    <3>1. A \in Seq([hdr : Loops!Frames, body : Loops!Frames])
      BY <1>1, <1>3, LoopMsgTypes
    <3> HIDE DEF A
    <3>2. DOMAIN A = 1..Len(A) /\ Len(A) \in Nat
      BY <3>1
    <3> QED
      BY <1>3, <3>2 DEF A
  <2>4. \A k, l \in DOMAIN A : k < l /\ A[k].hdr.q = A[l].hdr.q => A[k].hdr.n < A[l].hdr.n
    BY <1>1, <1>3 DEF Loops!OrderInv
  <2>5. /\ \A k \in DOMAIN A : Loops!Holds /\ A[k].hdr.q = v4.hdr.q => A[k].hdr.n < v4.hdr.n
        /\ \A k \in DOMAIN A, l \in DOMAIN v4.frames : Loops!IsHeader(l) /\ A[k].hdr.q = v4.frames[l].q => A[k].hdr.n < v4.frames[l].n
    BY <1>1, <1>3 DEF Loops!OrderInv
  <2>6. \A n \in 1..Loops!Taken(q) : Loops!Placed(q, n)
    BY <1>1, <1>3, <2>1 DEF Loops!MessageInv
  <2>7. h.n \in 1..Loops!Taken(q) /\ h.n \in DOMAIN v5[q].all /\ v5[q].all[h.n] = h.len /\ Loops!Taken(q) \in Int
    <3>1. h.n \in 1..Loops!Taken(q) /\ v5[q].all[h.n] = h.len
      BY <2>2 DEF Loops!Right
    <3>2. Len(v5[q].all) \in Nat /\ Loops!Taken(q) \in Int /\ Loops!Taken(q) <= Len(v5[q].all) /\ DOMAIN v5[q].all = 1..Len(v5[q].all)
      <4>1. v5[q].all \in Seq(0..1)
        BY <1>1, <1>3, <2>1, LoopMsgTypes
      <4>2. DOMAIN v5[q].all = 1..Len(v5[q].all)
        <5> DEFINE z == v5[q].all
        <5>1. z \in Seq(0..1)
          BY <4>1
        <5> HIDE DEF z
        <5>2. DOMAIN z = 1..Len(z)
          BY <5>1
        <5> QED
          BY <5>2 DEF z
      <4> QED
        BY <1>1, <1>3, <2>1, <4>2, LoopTaken
    <3> DEFINE a == Len(v5[q].all)
               t == Loops!Taken(q)
    <3> HIDE DEF a, t
    <3>3. h.n \in 1..a
      <4>1. h.n \in 1..t /\ a \in Nat /\ t \in Int /\ t <= a
        BY <3>1, <3>2 DEF a, t
      <4> QED
        BY <2>1, <4>1
    <3> QED
      BY <3>1, <3>2, <3>3 DEF a
  <2> HIDE DEF A, h, q
  <2>8. ASSUME NEW n \in 1..(h.n - 1) PROVE \E k \in 1..(j - 1) : A[k].hdr.q = q /\ A[k].hdr.n = n
    <3>1. n \in 1..Loops!Taken(q) /\ n < h.n
      BY <2>1, <2>7, <2>8
    <3>2. Loops!Placed(q, n)
      BY <2>6, <3>1
    <3>3. ~(Loops!Holds /\ v4.hdr.q = q /\ v4.hdr.n = n)
      <4> SUFFICES ASSUME Loops!Holds, v4.hdr.q = q, v4.hdr.n = n PROVE FALSE
        OBVIOUS
      <4>1. h.n < n
        BY <1>3, <2>5 DEF A, h, q
      <4> QED
        BY <2>1, <3>1, <4>1
    <3>4. ~\E l \in DOMAIN v4.frames : Loops!IsHeader(l) /\ v4.frames[l].q = q /\ v4.frames[l].n = n
      <4> SUFFICES ASSUME NEW l \in DOMAIN v4.frames, Loops!IsHeader(l), v4.frames[l].q = q, v4.frames[l].n = n PROVE FALSE
        OBVIOUS
      <4>1. h.n < n
        BY <1>3, <2>5 DEF A, h, q
      <4> QED
        BY <2>1, <3>1, <4>1
    <3>5. PICK k \in DOMAIN A : A[k].hdr.q = q /\ A[k].hdr.n = n
      BY <3>2, <3>3, <3>4 DEF Loops!Placed, A
    <3>6. ~(j < k) /\ j # k
      <4>1. j # k
        BY <3>1, <3>5, <2>1 DEF h
      <4>2. ASSUME j < k PROVE FALSE
        <5>1. h.n < n
          BY <1>3, <2>4, <3>5, <4>2 DEF h, q, A
        <5> QED
          BY <2>1, <3>1, <5>1
      <4> QED
        BY <4>1, <4>2
    <3>7. k \in 1..(j - 1)
      BY <2>3, <3>5, <3>6
    <3> QED
      BY <3>5, <3>7
  <2>9. ASSUME NEW k \in 1..(j - 1), A[k].hdr.q = q PROVE A[k].hdr.n < h.n
    <3>1. k \in DOMAIN A /\ k < j
      BY <1>3, <2>3, <2>9 DEF A
    <3> QED
      BY <1>3, <2>4, <2>9, <3>1 DEF A, h, q
  <2> QED
    BY <2>2, <2>7, <2>8, <2>9 DEF A, h, q
<1>4. ASSUME v1 = "mq", v4.pc = "failed" PROVE \E q \in LoopKids : \E j \in DOMAIN v5[q].all : v5[q].all[j] = 0
  <2>1. v4.hdr \in Loops!Frames /\ Loops!Right(v4.hdr) /\ v4.hdr.len = 0
    BY <1>1, <1>4 DEF Loops!MessageInv, Loops!Holds, Loops!At
  <2> DEFINE q == v4.hdr.q
             n == v4.hdr.n
  <2>2. q \in LoopKids /\ n \in Nat /\ n \in 1..Loops!Taken(q) /\ v5[q].all[n] = 0
    BY <2>1 DEF Loops!Right, Loops!Frames
  <2> HIDE DEF q, n
  <2>3. n \in DOMAIN v5[q].all
    <3> DEFINE a == Len(v5[q].all)
    <3>1. v5[q].all \in Seq(0..1)
      BY <1>1, <1>4, <2>2, LoopMsgTypes
    <3>2. DOMAIN v5[q].all = 1..a /\ a \in Nat /\ Loops!Taken(q) \in Int /\ Loops!Taken(q) <= a
      <4> DEFINE z == v5[q].all
      <4>1. z \in Seq(0..1)
        BY <3>1
      <4>2. Len(z) \in Nat /\ Loops!Taken(q) \in Int /\ Loops!Taken(q) <= Len(z)
        BY <1>1, <1>4, <2>2, LoopTaken
      <4> HIDE DEF z
      <4>3. DOMAIN z = 1..Len(z)
        BY <4>1
      <4> QED
        BY <4>2, <4>3 DEF z
    <3> HIDE DEF a
    <3> QED
      BY <2>2, <3>2
  <2> QED
    BY <2>2, <2>3
<1>5. v1 = "flags" /\ v2.loop /\ ~v2.oneshot /\ v3.in > 0 /\ (\A c \in LoopKids : v5[c].pc = "wait") =>
         (\E i \in Loops!Instances : v5[i].ready) \/ (v2.et /\ v4.caught)
  BY <1>1 DEF Loops!FlagsInv, Loops!SomebodyReads
<1>6. ASSUME v1 = "threads", v2.et PROVE Cardinality({c \in LoopKids : v5[c].told}) <= 1
  <2> DEFINE T == {c \in LoopKids : v5[c].told}
  <2>1. \A c, d \in T : c = d
    BY <1>1, <1>6 DEF Loops!FlagsInv
  <2>2. CASE T = {}
    BY <2>2, FS_EmptySet
  <2>3. CASE T # {}
    <3>1. PICK c \in T : TRUE
      BY <2>3
    <3>2. T = {c}
      BY <2>1, <3>1
    <3>3. Cardinality({c}) = 1
      BY FS_Singleton
    <3> QED
      BY <3>2, <3>3
  <2> QED
    BY <2>2, <2>3
<1>7. Loops!WaitersTold
  <2>1. v1 = "threads" /\ v2.et => Loops!Cardinality({c \in LoopKids : v5[c].told}) <= 1
    BY <1>6, LoopCardinality
  <2> QED
    BY <1>3, <1>4, <1>5, <2>1 DEF Loops!WaitersTold, Loops!At
<1> QED
  BY <1>2, <1>7
=============================================================================
