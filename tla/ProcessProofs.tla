--------------------------- MODULE ProcessProofs ---------------------------
(***************************************************************************)
(* Proofs about the systems of ProcessSystems, each for every value of its *)
(* constants.  The inductive invariant of a system is defined in the       *)
(* module of that system.                                                  *)
(***************************************************************************)
EXTENDS ProcessSystems, SequenceTheorems, FiniteSetTheorems, TLAPS

-----------------------------------------------------------------------------
(* UserNotification.                                                       *)

LEMMA NotInit == Notification!Init => Notification!IInv
<1> SUFFICES ASSUME Notification!Init PROVE Notification!IInv
  OBVIOUS
<1>1. v1.prog \in {"mkdir", "openat"} /\ v1.args \in UNION {[1..n -> Notification!Paths] : n \in 1..NotMaxArgs}
  BY DEF Notification!Init
<1>2. v1.args \in Seq(Notification!Paths)
  <2>1. PICK n \in 1..NotMaxArgs : v1.args \in [1..n -> Notification!Paths]
    BY <1>1
  <2>2. n \in Nat
    BY NotBounds
  <2> QED
    BY <2>1, <2>2, SeqDef
<1>3. Notification!NumArgs \in Nat
  BY <1>2 DEF Notification!NumArgs
<1>4. /\ DOMAIN v2 = {"pc", "sent", "i", "got"} /\ v2.pc = "setup" /\ v2.i = 1 /\ v2.got = <<>>
      /\ DOMAIN v3 = {"id", "received"} /\ v3.id = 0
      /\ DOMAIN v4 = {"pc", "id", "path", "status", "resp", "handler", "chld"} /\ v4.pc = "start" /\ v4.id = 0 /\ v4.resp = "none"
      /\ v5 = {} /\ v6 = [sup |-> 0, target |-> 0]
  BY DEF Notification!Init, Notification!NoNotif
<1>5. Notification!TypeOK
  BY <1>1, <1>2, <1>3, <1>4 DEF Notification!TypeOK, Notification!Answers
<1>6. v4.pc \notin Notification!Working /\ v4.pc \notin Notification!Reading
  BY <1>4 DEF Notification!Working, Notification!Reading
<1>7. Notification!Pending /\ Notification!Overtaken /\ Notification!PathRead
  BY <1>4, <1>6 DEF Notification!Pending, Notification!Overtaken, Notification!PathRead, Notification!Alive
<1>8. Notification!MadeBefore /\ Notification!ToBeTold /\ Notification!Told /\ Notification!FilesHeld
  BY <1>4 DEF Notification!MadeBefore, Notification!ToBeTold, Notification!Told, Notification!FilesHeld
<1> QED
  BY <1>5, <1>7, <1>8 DEF Notification!IInv

\* What was true of a call stays so.
LEMMA NotTrueOf ==
  ASSUME v1' = v1, v5 \subseteq v5', v4.pc = "ended" => v4'.pc = "ended"
  PROVE  \A i, r : Notification!TrueOf(i, r) => Notification!TrueOf(i, r)'
BY DEF Notification!TrueOf

\* The target's call returns.
LEMMA NotReturn ==
  ASSUME Notification!TypeOK, v2.i <= Notification!NumArgs, NEW r \in Notification!Answers, Notification!Return(r)
  PROVE  /\ DOMAIN v2' = {"pc", "sent", "i", "got"} /\ v2'.pc = "call" /\ v2'.i = v2.i + 1
         /\ v2'.got \in Seq(Notification!Answers) /\ Len(v2'.got) = v2.i /\ v2'.got[v2.i] = r
         /\ \A j \in 1..(v2.i - 1) : v2'.got[j] = v2.got[j]
<1> DEFINE g == Append(v2.got, r)  k == v2.i + 1
<1>1. /\ DOMAIN v2 = {"pc", "sent", "i", "got"} /\ v2.i \in 1..Notification!NumArgs + 1
      /\ v2.got \in Seq(Notification!Answers) /\ Len(v2.got) = v2.i - 1 /\ v1.args \in Seq(Notification!Paths)
  BY DEF Notification!TypeOK
<1>2. Notification!NumArgs \in Nat
  BY <1>1 DEF Notification!NumArgs
<1>3. v2.i \in Nat /\ (v2.i - 1) + 1 = v2.i
  BY <1>1, <1>2
<1>4. g \in Seq(Notification!Answers) /\ Len(g) = v2.i /\ g[v2.i] = r /\ \A j \in 1..(v2.i - 1) : g[j] = v2.got[j]
  BY <1>1, <1>3
<1>5. v2' = [v2 EXCEPT !.pc = "call", !.i = k, !.got = g]
  BY DEF Notification!Return
<1> HIDE DEF g, k
<1>6. DOMAIN v2' = {"pc", "sent", "i", "got"} /\ v2'.pc = "call" /\ v2'.i = k /\ v2'.got = g
  BY <1>1, <1>5
<1> QED
  BY <1>4, <1>6 DEF k

LEMMA NotToldMore ==
  ASSUME Notification!TypeOK, Notification!Told, v1' = v1, v5 \subseteq v5', v4.pc = "ended" => v4'.pc = "ended",
         v2.i <= Notification!NumArgs, NEW r \in Notification!Answers, Notification!Return(r),
         NEW k, k = v2.i, Notification!TrueOf(k, r)'
  PROVE  Notification!Told'
<1>1. /\ v2'.got \in Seq(Notification!Answers) /\ Len(v2'.got) = v2.i /\ v2'.got[v2.i] = r
      /\ \A j \in 1..(v2.i - 1) : v2'.got[j] = v2.got[j]
  BY NotReturn
<1>2. v2.got \in Seq(Notification!Answers) /\ Len(v2.got) = v2.i - 1 /\ v2.i \in Int
  BY DEF Notification!TypeOK
<1>3. ASSUME NEW j \in DOMAIN v2'.got PROVE Notification!TrueOf(j, v2.got[j])'
  <2>1. j \in 1..v2.i
    BY <1>1
  <2>2. CASE j = v2.i
    BY <1>1, <2>2 DEF Notification!TrueOf
  <2>3. CASE j # v2.i
    <3>1. j \in 1..(v2.i - 1)
      BY <1>2, <2>1, <2>3
    <3>2. j \in DOMAIN v2.got
      BY <1>2, <3>1
    <3>3. Notification!TrueOf(j, v2.got[j])
      BY <3>2 DEF Notification!Told
    <3>4. v2'.got[j] = v2.got[j]
      BY <1>1, <3>1
    <3> QED
      BY <3>3, <3>4, NotTrueOf DEF Notification!TrueOf
  <2> QED
    BY <2>2, <2>3
<1> QED
  BY <1>3 DEF Notification!Told

LEMMA NotToldSame ==
  ASSUME Notification!Told, v1' = v1, v5 \subseteq v5', v4.pc = "ended" => v4'.pc = "ended", v2'.got = v2.got
  PROVE  Notification!Told'
BY NotTrueOf DEF Notification!Told, Notification!TrueOf

\* The supervisor stays where it is.
LEMMA NotSupSame ==
  ASSUME Notification!IInv, v1' = v1, v5' = v5, v6'.sup = v6.sup, Notification!cookieIsValid' => Notification!cookieIsValid,
         v4'.pc = v4.pc, v4'.id = v4.id, v4'.path = v4.path, v4'.status = v4.status, v4'.resp = v4.resp
  PROVE  Notification!PathRead' /\ Notification!MadeBefore' /\ Notification!ToBeTold' /\ Notification!FilesHeld'
<1>1. Notification!PathRead'
  BY DEF Notification!IInv, Notification!PathRead
<1>2. Notification!MadeBefore' /\ Notification!FilesHeld'
  BY DEF Notification!IInv, Notification!MadeBefore, Notification!FilesHeld, Notification!Reading
<1>3. Notification!ToBeTold'
  <2> SUFFICES ASSUME v4.pc = "send", Notification!cookieIsValid
               PROVE  Notification!TrueOf(v4.id, v4.resp)' /\ (v4'.resp = "continue" => v1'.args[v4'.id] = "dot")
    BY DEF Notification!ToBeTold
  <2>1. Notification!TrueOf(v4.id, v4.resp) /\ (v4.resp = "continue" => v1.args[v4.id] = "dot")
    BY DEF Notification!IInv, Notification!ToBeTold
  <2> QED
    BY <2>1 DEF Notification!TrueOf
<1> QED
  BY <1>1, <1>2, <1>3

LEMMA NotFacts ==
  ASSUME Notification!IInv
  PROVE  /\ Notification!TypeOK /\ Notification!Pending /\ Notification!Overtaken /\ Notification!PathRead /\ Notification!MadeBefore
         /\ Notification!ToBeTold /\ Notification!Told /\ Notification!FilesHeld
         /\ Notification!NumArgs \in Nat /\ v2.i \in Nat /\ v4.id \in Nat /\ v2.i >= 1
BY DEF Notification!IInv, Notification!TypeOK, Notification!NumArgs

\* The target starts, closes a file, or dies.
LEMMA NotTarget ==
  ASSUME Notification!IInv,
         Notification!targetProcess \/ Notification!CloseFile \/ Notification!Terminate \/ Notification!Killed
  PROVE  Notification!IInv'
<1>0. /\ Notification!TypeOK /\ Notification!Pending /\ Notification!Overtaken /\ Notification!Told
      /\ Notification!NumArgs \in Nat /\ v2.i \in Nat /\ v4.id \in Nat
  BY NotFacts
<1>1. v1' = v1 /\ v5' = v5
  BY DEF Notification!targetProcess, Notification!CloseFile, Notification!Terminate, Notification!Killed
<1>2. ASSUME DOMAIN v2' = DOMAIN v2, v2'.pc \in {"call", "dead"}, v2'.i = v2.i, v2'.got = v2.got, v2.pc = "dead" => v2'.pc = "dead",
             DOMAIN v3' = {"id", "received"}, v3'.id = 0, v3.id = 0 \/ v2'.pc = "dead",
             DOMAIN v4' = DOMAIN v4, v4'.pc = v4.pc, v4'.id = v4.id, v4'.path = v4.path, v4'.status = v4.status, v4'.resp = v4.resp,
             v6' \in [sup : Nat, target : Nat], v6'.sup = v6.sup
      PROVE  Notification!IInv'
  <2>1. Notification!TypeOK'
    BY <1>0, <1>1, <1>2 DEF Notification!TypeOK, Notification!NumArgs, Notification!Working, Notification!Reading, Notification!Answers
  <2>2. Notification!Pending'
    BY <1>2 DEF Notification!Pending
  <2>3. Notification!Overtaken'
    BY <1>0, <1>2 DEF Notification!Overtaken, Notification!Working, Notification!Reading, Notification!cookieIsValid, Notification!Alive
  <2>4. ~Notification!cookieIsValid'
    BY <1>2 DEF Notification!cookieIsValid
  <2>5. Notification!PathRead' /\ Notification!MadeBefore' /\ Notification!ToBeTold' /\ Notification!FilesHeld'
    BY <1>1, <1>2, <2>4, NotSupSame
  <2>6. Notification!Told'
    BY <1>0, <1>1, <1>2, NotToldSame
  <2> QED
    BY <2>1, <2>2, <2>3, <2>5, <2>6 DEF Notification!IInv
<1>3. /\ DOMAIN v2 = {"pc", "sent", "i", "got"} /\ DOMAIN v3 = {"id", "received"} /\ v6 \in [sup : Nat, target : Nat]
      /\ DOMAIN v4 = {"pc", "id", "path", "status", "resp", "handler", "chld"}
  BY <1>0 DEF Notification!TypeOK
<1>4. CASE Notification!targetProcess
  <2>1. v2.pc = "setup" /\ v2' = [v2 EXCEPT !.pc = "call", !.sent = TRUE] /\ v3' = v3 /\ v4' = v4 /\ v6' = v6
    BY <1>4 DEF Notification!targetProcess
  <2>2. DOMAIN v2' = DOMAIN v2 /\ v2'.pc = "call" /\ v2'.i = v2.i /\ v2'.got = v2.got
    BY <1>3, <2>1
  <2>3. v3.id = 0
    BY <1>0, <2>1 DEF Notification!Pending
  <2> QED
    BY <1>2, <1>3, <2>1, <2>2, <2>3
<1>5. CASE Notification!CloseFile
  <2>1. v2.pc = "call" /\ v2' = v2 /\ v3' = v3 /\ v4' = v4 /\ v6.target > 0 /\ v6' = [v6 EXCEPT !.target = v6.target - 1]
    BY <1>5 DEF Notification!CloseFile
  <2>2. v6' \in [sup : Nat, target : Nat] /\ v6'.sup = v6.sup
    BY <1>3, <2>1
  <2>3. v3.id = 0
    BY <1>0, <2>1 DEF Notification!Pending
  <2> QED
    BY <1>2, <1>3, <2>1, <2>2, <2>3
<1>6. CASE Notification!Terminate \/ Notification!Killed
  <2>1. Notification!Die /\ v6' = v6
    BY <1>6 DEF Notification!Terminate, Notification!Killed
  <2>2. DOMAIN v2' = DOMAIN v2 /\ v2'.pc = "dead" /\ v2'.i = v2.i /\ v2'.got = v2.got
    BY <1>3, <2>1 DEF Notification!Die
  <2>3. DOMAIN v3' = {"id", "received"} /\ v3'.id = 0
    BY <2>1 DEF Notification!Die, Notification!NoNotif
  <2> DEFINE c == v4.handler /\ v4.pc # "ended"
  <2>4. v4' = [v4 EXCEPT !.chld = c]
    BY <2>1 DEF Notification!Die
  <2> HIDE DEF c
  <2>5. DOMAIN v4' = DOMAIN v4 /\ v4'.pc = v4.pc /\ v4'.id = v4.id /\ v4'.path = v4.path /\ v4'.status = v4.status /\ v4'.resp = v4.resp
    BY <1>3, <2>4
  <2> QED
    BY <1>2, <1>3, <2>1, <2>2, <2>3, <2>5
<1> QED
  BY <1>4, <1>5, <1>6

\* The target calls, or a signal interrupts its call.
LEMMA NotCall ==
  ASSUME Notification!IInv, Notification!Call \/ Notification!sigintHandler
  PROVE  Notification!IInv'
<1>0. /\ Notification!TypeOK /\ Notification!Pending /\ Notification!Overtaken /\ Notification!Told
      /\ Notification!NumArgs \in Nat /\ v2.i \in Nat /\ v4.id \in Nat /\ v2.i >= 1
  BY NotFacts
<1>1. v1' = v1 /\ v4' = v4 /\ v5' = v5 /\ v6' = v6 /\ v2.i <= Notification!NumArgs /\ v2.pc \in {"call", "blocked"}
  BY <1>0 DEF Notification!Call, Notification!sigintHandler, Notification!Pending, Notification!NumArgs
<1>2. v4.id <= v2.i /\ (v2.pc = "call" => v4.id < v2.i)
  BY <1>0, <1>1 DEF Notification!Overtaken, Notification!Pending, Notification!cookieIsValid, Notification!Alive
<1>3. ASSUME NEW r \in Notification!Answers, Notification!Return(r), v3'.id = 0, DOMAIN v3' = {"id", "received"},
             NEW k, k = v2.i, Notification!TrueOf(k, r)
      PROVE  Notification!IInv'
  <2>1. /\ DOMAIN v2' = {"pc", "sent", "i", "got"} /\ v2'.pc = "call" /\ v2'.i = v2.i + 1
        /\ v2'.got \in Seq(Notification!Answers) /\ Len(v2'.got) = v2.i
    BY <1>0, <1>1, <1>3, NotReturn
  <2>2. Notification!TypeOK'
    BY <1>0, <1>1, <1>3, <2>1 DEF Notification!TypeOK, Notification!NumArgs
  <2>3. Notification!Pending'
    BY <1>3, <2>1 DEF Notification!Pending
  <2>4. Notification!Overtaken'
    BY <1>0, <1>1, <1>2, <2>1 DEF Notification!Overtaken
  <2>5. ~Notification!cookieIsValid'
    BY <1>3 DEF Notification!cookieIsValid
  <2>6. Notification!PathRead' /\ Notification!MadeBefore' /\ Notification!ToBeTold' /\ Notification!FilesHeld'
    BY <1>1, <2>5, NotSupSame
  <2>7. Notification!TrueOf(k, r)'
    BY <1>1, <1>3 DEF Notification!TrueOf
  <2>8. Notification!Told'
    BY <1>0, <1>1, <1>3, <2>7, NotToldMore
  <2> QED
    BY <2>2, <2>3, <2>4, <2>6, <2>8 DEF Notification!IInv
<1>4. CASE Notification!sigintHandler
  <2>1. Notification!Return("EINTR") /\ v3'.id = 0 /\ DOMAIN v3' = {"id", "received"}
    BY <1>4 DEF Notification!sigintHandler, Notification!NoNotif
  <2>2. "EINTR" \in Notification!Answers /\ \A k : Notification!TrueOf(k, "EINTR")
    BY DEF Notification!Answers, Notification!TrueOf
  <2> QED
    BY <1>3, <2>1, <2>2
<1>5. CASE Notification!Call
  <2>1. v2.pc = "call" /\ v3.id = 0 /\ DOMAIN v3 = {"id", "received"} /\ DOMAIN v2 = {"pc", "sent", "i", "got"}
    BY <1>0, <1>5 DEF Notification!Call, Notification!Pending, Notification!TypeOK
  <2>2. CASE v1.second = "e"
    <3>1. Notification!Return("ENOTSUP") /\ v3' = v3
      BY <1>5, <2>2 DEF Notification!Call
    <3>2. "ENOTSUP" \in Notification!Answers /\ \A k : Notification!TrueOf(k, "ENOTSUP")
      BY <2>2 DEF Notification!Answers, Notification!TrueOf
    <3> QED
      BY <1>3, <2>1, <3>1, <3>2
  <2>3. CASE v1.second # "e" /\ v4.pc = "ended"
    <3>1. Notification!Return("ENOSYS") /\ v3' = v3
      BY <1>5, <2>3 DEF Notification!Call
    <3>2. "ENOSYS" \in Notification!Answers /\ \A k : Notification!TrueOf(k, "ENOSYS")
      BY <2>3 DEF Notification!Answers, Notification!TrueOf
    <3> QED
      BY <1>3, <2>1, <3>1, <3>2
  <2>4. CASE v1.second # "e" /\ v4.pc # "ended"
    <3>1. v2' = [v2 EXCEPT !.pc = "blocked"] /\ v3' = [id |-> v2.i, received |-> FALSE]
      BY <1>5, <2>4 DEF Notification!Call
    <3>2. DOMAIN v2' = {"pc", "sent", "i", "got"} /\ v2'.pc = "blocked" /\ v2'.i = v2.i /\ v2'.got = v2.got
      BY <2>1, <3>1
    <3>3. DOMAIN v3' = {"id", "received"} /\ v3'.id = v2.i /\ ~v3'.received
      BY <3>1
    <3>4. Notification!TypeOK'
      BY <1>0, <1>1, <3>2, <3>3 DEF Notification!TypeOK, Notification!NumArgs
    <3>5. Notification!Pending'
      BY <1>0, <1>1, <2>4, <3>2, <3>3 DEF Notification!Pending, Notification!NumArgs
    <3>6. Notification!Overtaken'
      BY <1>0, <1>1, <1>2, <2>1, <3>2 DEF Notification!Overtaken
    <3>7. ~Notification!cookieIsValid'
      BY <1>0, <1>1, <1>2, <2>1, <3>3 DEF Notification!cookieIsValid
    <3>8. Notification!PathRead' /\ Notification!MadeBefore' /\ Notification!ToBeTold' /\ Notification!FilesHeld'
      BY <1>1, <3>7, NotSupSame
    <3>9. Notification!Told'
      BY <1>0, <1>1, <3>2, NotToldSame
    <3> QED
      BY <3>4, <3>5, <3>6, <3>8, <3>9 DEF Notification!IInv
  <2> QED
    BY <2>2, <2>3, <2>4
<1> QED
  BY <1>4, <1>5

\* The supervisor ends, and with it the listener.
LEMMA NotEnds ==
  ASSUME Notification!IInv, Notification!Ends, v1' = v1, v5' = v5, v6' \in [sup : Nat, target : Nat]
  PROVE  Notification!IInv'
<1>0. /\ Notification!TypeOK /\ Notification!Pending /\ Notification!Overtaken /\ Notification!Told /\ Notification!MadeBefore
      /\ Notification!NumArgs \in Nat /\ v2.i \in Nat /\ v4.id \in Nat /\ v2.i >= 1
  BY NotFacts
<1>1. v4' = [v4 EXCEPT !.pc = "ended", !.chld = FALSE] /\ v3' = Notification!NoNotif
  BY DEF Notification!Ends
<1>2. v3'.id = 0 /\ DOMAIN v3' = {"id", "received"} /\ ~Notification!cookieIsValid'
  BY <1>1 DEF Notification!NoNotif, Notification!cookieIsValid
<1>3. DOMAIN v4' = DOMAIN v4 /\ v4'.pc = "ended" /\ v4'.id = v4.id /\ v4'.resp = v4.resp
  BY <1>0, <1>1 DEF Notification!TypeOK
<1>4. Notification!PathRead' /\ Notification!ToBeTold' /\ Notification!FilesHeld' /\ Notification!MadeBefore'
  BY <1>0, <1>3 DEF Notification!PathRead, Notification!ToBeTold, Notification!FilesHeld, Notification!MadeBefore, Notification!Reading
<1>5. CASE v3.id # 0
  <2>1. Notification!Return("ENOSYS") /\ "ENOSYS" \in Notification!Answers /\ v2.i <= Notification!NumArgs
    BY <1>0, <1>5 DEF Notification!Ends, Notification!Answers, Notification!Pending
  <2>2. /\ DOMAIN v2' = {"pc", "sent", "i", "got"} /\ v2'.pc = "call" /\ v2'.i = v2.i + 1
        /\ v2'.got \in Seq(Notification!Answers) /\ Len(v2'.got) = v2.i
    BY <1>0, <2>1, NotReturn
  <2>3. Notification!TypeOK'
    BY <1>0, <1>2, <1>3, <2>1, <2>2, SMTT(20) DEF Notification!TypeOK, Notification!NumArgs
  <2>4. Notification!Pending'
    BY <1>2, <2>2 DEF Notification!Pending
  <2>5. v4.id <= v2.i
    BY <1>0, <1>5 DEF Notification!Overtaken, Notification!Pending, Notification!cookieIsValid, Notification!Alive
  <2>6. Notification!Overtaken'
    BY <1>0, <1>3, <2>2, <2>5 DEF Notification!Overtaken, Notification!Working, Notification!Reading
  <2>7. \A k : Notification!TrueOf(k, "ENOSYS")'
    BY <1>3 DEF Notification!TrueOf
  <2>8. Notification!Told'
    BY <1>0, <1>3, <2>1, <2>7, NotToldMore
  <2> QED
    BY <1>4, <2>3, <2>4, <2>6, <2>8 DEF Notification!IInv
<1>6. CASE v3.id = 0
  <2>1. v2' = v2
    BY <1>6 DEF Notification!Ends
  <2>2. Notification!TypeOK'
    BY <1>0, <1>2, <1>3, <2>1 DEF Notification!TypeOK, Notification!NumArgs
  <2>3. Notification!Pending'
    BY <1>0, <1>2, <1>6, <2>1 DEF Notification!Pending
  <2>4. Notification!Overtaken'
    BY <1>0, <1>3, <1>6, <2>1 DEF Notification!Overtaken, Notification!Working, Notification!Reading, Notification!cookieIsValid, Notification!Alive
  <2>5. Notification!Told'
    BY <1>0, <1>3, <2>1, NotToldSame
  <2> QED
    BY <1>4, <2>2, <2>3, <2>4, <2>5 DEF Notification!IInv
<1> QED
  BY <1>5, <1>6

\* The supervisor takes a step that nobody else sees.
LEMMA NotSupMove ==
  ASSUME Notification!IInv, v1' = v1, v2' = v2, v3' = v3, v5 \subseteq v5', v5' \subseteq Notification!Paths \X (1..Notification!NumArgs),
         v6' \in [sup : Nat, target : Nat], DOMAIN v4' = DOMAIN v4, v4'.id = v4.id, v4'.resp \in Notification!Answers,
         v4.pc # "ended",
         \/ v4.pc \in Notification!Working /\ v4'.pc \in Notification!Working
         \/ v4.pc \notin Notification!Working /\ v4'.pc \in {"recvfd", "recv"},
         Notification!PathRead', Notification!MadeBefore', Notification!ToBeTold', Notification!FilesHeld'
  PROVE  Notification!IInv'
<1>0. /\ Notification!TypeOK /\ Notification!Pending /\ Notification!Overtaken /\ Notification!Told
      /\ Notification!NumArgs \in Nat /\ v2.i \in Nat /\ v4.id \in Nat /\ v2.i >= 1
  BY NotFacts
<1>1. v4'.pc # "ended" /\ (v4'.pc \in Notification!Working <=> v4.pc \in Notification!Working)
  BY DEF Notification!Working, Notification!Reading
<1>2. v4'.pc \in Notification!Working \cup {"start", "recvfd", "recv", "bye", "ended"}
  OBVIOUS
<1>3. Notification!TypeOK'
  BY <1>0, <1>2 DEF Notification!TypeOK, Notification!NumArgs, Notification!Working, Notification!Reading, Notification!Answers
<1>4. Notification!Pending'
  BY <1>0, <1>1 DEF Notification!Pending, Notification!NumArgs, Notification!Working, Notification!Reading
<1>5. Notification!Overtaken'
  BY <1>0, <1>1 DEF Notification!Overtaken, Notification!cookieIsValid, Notification!Alive, Notification!Working, Notification!Reading
<1>6. Notification!Told'
  BY <1>0, NotToldSame
<1> QED
  BY <1>3, <1>4, <1>5, <1>6 DEF Notification!IInv

LEMMA NotSupervisor ==
  ASSUME Notification!IInv,
         \/ Notification!HandleSigchld \/ Notification!supervisor \/ Notification!Delay \/ Notification!getTargetPathname
         \/ Notification!Answer \/ Notification!OpenFile \/ Notification!MakeDirectory
  PROVE  Notification!IInv'
<1>0. /\ Notification!TypeOK /\ Notification!Pending /\ Notification!Overtaken /\ Notification!PathRead /\ Notification!MadeBefore
      /\ Notification!ToBeTold /\ Notification!Told /\ Notification!FilesHeld
      /\ Notification!NumArgs \in Nat /\ v2.i \in Nat /\ v4.id \in Nat /\ v2.i >= 1
  BY NotFacts
<1>1. /\ DOMAIN v4 = {"pc", "id", "path", "status", "resp", "handler", "chld"} /\ v4.resp \in Notification!Answers
      /\ v6 \in [sup : Nat, target : Nat] /\ v5 \subseteq Notification!Paths \X (1..Notification!NumArgs) /\ v1.args \in Seq(Notification!Paths)
  BY <1>0 DEF Notification!TypeOK
<1>2. v4.pc \in Notification!Working => v4.id \in 1..Notification!NumArgs /\ v1.args[v4.id] \in Notification!Paths
  <2>1. v4.pc \in Notification!Working => v4.id \in 1..Notification!NumArgs
    BY <1>0 DEF Notification!Overtaken, Notification!TypeOK
  <2> QED
    BY <1>1, <2>1 DEF Notification!NumArgs
\* Steps of the supervisor alone.
<1>3. ASSUME NEW f, Notification!Sup(f), DOMAIN f = DOMAIN v4, f.id = v4.id, f.resp \in Notification!Answers, v4.pc # "ended", f.pc # "addfd", v4.pc # "addfd",
             \/ v4.pc \in Notification!Working /\ f.pc \in Notification!Working
             \/ v4.pc \notin Notification!Working /\ f.pc \in {"recvfd", "recv"},
             f.pc = "check" => f.path = v1.args[f.id],
             f.pc = "status" /\ f.status = 0 => f.path = v1.args[f.id] /\ f.path # "long",
             f.pc = "status" /\ f.status # 0 /\ Notification!cookieIsValid => v1.args[f.id] = "long",
             f.pc \in Notification!Reading => v4.pc \in Notification!Reading,
             f.pc = "send" => v4.pc = "status" /\ (Notification!cookieIsValid => Notification!TrueOf(f.id, f.resp)),
             f.pc = "send" /\ f.resp = "continue" => v1.args[f.id] = "dot"
      PROVE  Notification!IInv'
  <2>1. v4' = f /\ v1' = v1 /\ v2' = v2 /\ v3' = v3 /\ v5' = v5 /\ v6' = v6
    BY <1>3 DEF Notification!Sup
  <2>2. Notification!cookieIsValid' <=> Notification!cookieIsValid
    BY <1>3, <2>1 DEF Notification!cookieIsValid
  <2>3. Notification!PathRead'
    BY <1>3, <2>1, <2>2 DEF Notification!PathRead
  <2>4. Notification!MadeBefore'
    BY <1>0, <1>3, <2>1 DEF Notification!MadeBefore, Notification!Reading
  <2>5. Notification!ToBeTold'
    BY <1>3, <2>1, <2>2 DEF Notification!ToBeTold, Notification!TrueOf
  <2>6. Notification!FilesHeld'
    BY <1>0, <1>3, <2>1 DEF Notification!FilesHeld
  <2> QED
    BY <1>1, <1>3, <2>1, <2>3, <2>4, <2>5, <2>6, NotSupMove
<1>4. CASE Notification!HandleSigchld
  <2> DEFINE f == [v4 EXCEPT !.pc = "recvfd", !.handler = TRUE]
  <2>1. Notification!Sup(f) /\ v4.pc = "start"
    BY <1>4 DEF Notification!HandleSigchld
  <2>2. DOMAIN f = DOMAIN v4 /\ f.pc = "recvfd" /\ f.id = v4.id /\ f.resp = v4.resp
    BY <1>1
  <2> HIDE DEF f
  <2>3. v4.pc \notin Notification!Working /\ f.pc \notin Notification!Reading
    BY <2>1, <2>2 DEF Notification!Working, Notification!Reading
  <2> QED
    BY <1>1, <1>3, <2>1, <2>2, <2>3
<1>5. CASE Notification!supervisor
  <2> DEFINE f == [v4 EXCEPT !.pc = "recv"]
  <2>1. Notification!Sup(f) /\ v4.pc = "recvfd"
    BY <1>5 DEF Notification!supervisor
  <2>2. DOMAIN f = DOMAIN v4 /\ f.pc = "recv" /\ f.id = v4.id /\ f.resp = v4.resp
    BY <1>1
  <2> HIDE DEF f
  <2>3. v4.pc \notin Notification!Working /\ f.pc \notin Notification!Reading
    BY <2>1, <2>2 DEF Notification!Working, Notification!Reading
  <2> QED
    BY <1>1, <1>3, <2>1, <2>2, <2>3
<1>6. CASE Notification!Delay
  <2>1. CASE Notification!cookieIsValid
    <3> DEFINE l == IF v4.pc = "delay" THEN "delayed" ELSE "open"
               f == [v4 EXCEPT !.pc = l]
    <3>1. Notification!Sup(f) /\ v4.pc \in {"delay", "delayed"} /\ l \in {"delayed", "open"}
      BY <1>6, <2>1 DEF Notification!Delay
    <3> HIDE DEF l
    <3>2. DOMAIN f = DOMAIN v4 /\ f.pc = l /\ f.id = v4.id /\ f.resp = v4.resp
      BY <1>1
    <3> HIDE DEF f
    <3>3. v4.pc \in Notification!Working /\ f.pc \in Notification!Working /\ v4.pc \in Notification!Reading
      BY <3>1, <3>2 DEF Notification!Working, Notification!Reading
    <3> QED
      BY <1>1, <1>3, <3>1, <3>2, <3>3
  <2>2. CASE ~Notification!cookieIsValid
    <3>1. Notification!Ends /\ v1' = v1 /\ v5' = v5 /\ v6' = v6
      BY <1>6, <2>2 DEF Notification!Delay, Notification!Quits
    <3> QED
      BY <1>1, <3>1, NotEnds
  <2> QED
    BY <2>1, <2>2
<1>7. CASE Notification!getTargetPathname
  <2>1. ASSUME NEW f, Notification!Sup(f), DOMAIN f = DOMAIN v4, f.id = v4.id, f.resp = v4.resp,
               v4.pc \in {"open", "pread", "check"}, f.pc \in {"pread", "check", "status"},
               f.pc = "check" => f.path = v1.args[v4.id],
               f.pc = "status" /\ f.status = 0 => f.path = v1.args[v4.id] /\ f.path # "long",
               f.pc = "status" /\ f.status # 0 /\ Notification!cookieIsValid => v1.args[v4.id] = "long"
        PROVE  Notification!IInv'
    <3>1. v4.pc \in Notification!Working /\ f.pc \in Notification!Working /\ v4.pc \in Notification!Reading
      BY <2>1 DEF Notification!Working, Notification!Reading
    <3> QED
      BY <1>1, <1>3, <2>1, <3>1
  <2> DEFINE valid == Notification!cookieIsValid
             alive == Notification!Alive
             pc1 == IF valid THEN "pread" ELSE "status"
             st1 == IF valid THEN 0 ELSE -1
             f1 == [v4 EXCEPT !.pc = pc1, !.status = st1]
             pc2 == IF alive THEN "check" ELSE "status"
             st2 == IF alive THEN 0 ELSE -1
             path2 == IF alive THEN v1.args[v4.id] ELSE v4.path
             f2 == [v4 EXCEPT !.pc = pc2, !.status = st2, !.path = path2]
             st3 == IF valid /\ v4.path # "long" THEN 0 ELSE -1
             f3 == [v4 EXCEPT !.pc = "status", !.status = st3]
  <2>2. \/ v4.pc = "open" /\ Notification!Sup(f1)
        \/ v4.pc = "pread" /\ Notification!Sup(f2)
        \/ v4.pc = "check" /\ Notification!Sup(f3)
    BY <1>7, Zenon DEF Notification!getTargetPathname
  <2>3. CASE v4.pc = "open" /\ Notification!Sup(f1)
    <3>1. pc1 \in {"pread", "status"} /\ (pc1 = "status" => ~valid /\ st1 # 0)
      OBVIOUS
    <3> HIDE DEF pc1, st1
    <3>2. DOMAIN f1 = DOMAIN v4 /\ f1.pc = pc1 /\ f1.status = st1 /\ f1.id = v4.id /\ f1.resp = v4.resp
      BY <1>1
    <3> HIDE DEF f1
    <3> QED
      BY <2>1, <2>3, <3>1, <3>2
  <2>4. CASE v4.pc = "pread" /\ Notification!Sup(f2)
    <3>1. pc2 \in {"check", "status"} /\ (pc2 = "check" => path2 = v1.args[v4.id]) /\ (pc2 = "status" => st2 # 0 /\ ~alive)
      OBVIOUS
    <3>2. ~alive => ~valid
      BY <1>0 DEF Notification!cookieIsValid, Notification!Alive, Notification!Pending
    <3> HIDE DEF pc2, st2, path2
    <3>3. DOMAIN f2 = DOMAIN v4 /\ f2.pc = pc2 /\ f2.status = st2 /\ f2.path = path2 /\ f2.id = v4.id /\ f2.resp = v4.resp
      BY <1>1
    <3> HIDE DEF f2
    <3> QED
      BY <2>1, <2>4, <3>1, <3>2, <3>3
  <2>5. CASE v4.pc = "check" /\ Notification!Sup(f3)
    <3>1. v4.path = v1.args[v4.id] /\ (st3 = 0 => v4.path # "long") /\ (st3 # 0 /\ valid => v4.path = "long")
      BY <1>0, <2>5 DEF Notification!PathRead
    <3> HIDE DEF st3
    <3>2. DOMAIN f3 = DOMAIN v4 /\ f3.pc = "status" /\ f3.status = st3 /\ f3.path = v4.path /\ f3.id = v4.id /\ f3.resp = v4.resp
      BY <1>1
    <3> HIDE DEF f3
    <3> QED
      BY <2>1, <2>5, <3>1, <3>2
  <2> QED
    BY <2>2, <2>3, <2>4, <2>5
<1>8. CASE Notification!Answer
  <2> DEFINE r == IF v4.status # 0 THEN "EINVAL" ELSE IF v4.path = "dot" THEN "continue" ELSE "EOPNOTSUPP"
             f == [v4 EXCEPT !.pc = "send", !.resp = r]
  <2>1. Notification!Sup(f) /\ v4.pc = "status" /\ (v4.status # 0 \/ v4.path # "tmp")
    BY <1>8 DEF Notification!Answer
  <2>2. v4.id \in 1..Notification!NumArgs /\ v1.args[v4.id] \in Notification!Paths /\ v4.pc \in Notification!Working
    BY <1>2, <2>1 DEF Notification!Working, Notification!Reading
  <2>3. r \in Notification!Answers
    BY DEF Notification!Answers
  <2>4. r = "continue" => v1.args[v4.id] = "dot"
    BY <1>0, <2>1 DEF Notification!PathRead
  <2>5. Notification!cookieIsValid => Notification!TrueOf(v4.id, r)
    BY <1>0, <2>1, <2>2 DEF Notification!PathRead, Notification!TrueOf, Notification!Paths
  <2> HIDE DEF r
  <2>6. DOMAIN f = DOMAIN v4 /\ f.pc = "send" /\ f.id = v4.id /\ f.resp = r
    BY <1>1
  <2> HIDE DEF f
  <2>7. f.pc \in Notification!Working /\ f.pc \notin Notification!Reading
    BY <2>6 DEF Notification!Working, Notification!Reading
  <2>8. f.pc = "send" => v4.pc = "status" /\ (Notification!cookieIsValid => Notification!TrueOf(f.id, f.resp))
    BY <2>1, <2>5, <2>6
  <2> QED
    BY <1>1, <1>3, <2>1, <2>2, <2>3, <2>4, <2>6, <2>7, <2>8
<1>9. CASE Notification!OpenFile
  <2>1. v4.pc = "status" /\ v1' = v1 /\ v2' = v2 /\ v3' = v3 /\ v5' = v5 /\ v4.pc \in Notification!Working
    BY <1>9 DEF Notification!OpenFile, Notification!Working, Notification!Reading
  <2>2. v6.sup = 0
    BY <1>0, <2>1 DEF Notification!FilesHeld
  <2>3. ASSUME v6' = [v6 EXCEPT !.sup = v6.sup + 1], v4' = [v4 EXCEPT !.pc = "addfd"] PROVE Notification!IInv'
    <3>1. DOMAIN v4' = DOMAIN v4 /\ v4'.pc = "addfd" /\ v4'.id = v4.id /\ v4'.resp = v4.resp
      BY <1>1, <2>3
    <3>2. v6' \in [sup : Nat, target : Nat] /\ v6'.sup = 1
      BY <1>1, <2>2, <2>3
    <3>3. Notification!PathRead' /\ Notification!ToBeTold' /\ Notification!FilesHeld'
      BY <3>1, <3>2 DEF Notification!PathRead, Notification!ToBeTold, Notification!FilesHeld
    <3>4. Notification!MadeBefore' /\ v4'.pc \in Notification!Working
      BY <1>0, <2>1, <3>1 DEF Notification!MadeBefore, Notification!Reading, Notification!Working
    <3> QED
      BY <1>1, <2>1, <3>1, <3>2, <3>3, <3>4, NotSupMove
  <2>4. ASSUME v6' = v6, v4' = [v4 EXCEPT !.pc = "send", !.resp = "EACCES"] PROVE Notification!IInv'
    <3>1. DOMAIN v4' = DOMAIN v4 /\ v4'.pc = "send" /\ v4'.id = v4.id /\ v4'.resp = "EACCES" /\ v4'.resp \in Notification!Answers
      BY <1>1, <2>4 DEF Notification!Answers
    <3>2. Notification!PathRead' /\ Notification!ToBeTold' /\ Notification!FilesHeld'
      BY <2>2, <2>4, <3>1 DEF Notification!PathRead, Notification!ToBeTold, Notification!FilesHeld, Notification!TrueOf
    <3>3. Notification!MadeBefore' /\ v4'.pc \in Notification!Working
      BY <1>0, <2>1, <3>1 DEF Notification!MadeBefore, Notification!Reading, Notification!Working
    <3> QED
      BY <1>1, <2>1, <2>4, <3>1, <3>2, <3>3, NotSupMove
  <2> QED
    BY <1>9, <2>3, <2>4 DEF Notification!OpenFile
<1>10. CASE Notification!MakeDirectory
  <2> DEFINE ok == \A m \in v5 : m[1] # "tmp"
             r == IF ok THEN "made" ELSE "EEXIST"
             e == <<"tmp", v4.id>>
  <2>1. /\ v4.pc = "status" /\ v4.status = 0 /\ v4.path = "tmp" /\ v1' = v1 /\ v2' = v2 /\ v3' = v3 /\ v6' = v6
        /\ v5' = (IF ok THEN v5 \cup {e} ELSE v5) /\ v4' = [v4 EXCEPT !.pc = "send", !.resp = r]
    BY <1>10 DEF Notification!MakeDirectory
  <2>2. v4.id \in 1..Notification!NumArgs /\ v4.pc \in Notification!Working /\ v1.args[v4.id] = "tmp"
    BY <1>0, <1>2, <2>1 DEF Notification!Working, Notification!Reading, Notification!PathRead
  <2>3. e \in Notification!Paths \X (1..Notification!NumArgs) /\ e[2] = v4.id
    BY <2>2 DEF Notification!Paths
  <2>4. v5 \subseteq v5' /\ v5' \subseteq Notification!Paths \X (1..Notification!NumArgs)
    BY <1>1, <2>1, <2>3
  <2>5. r \in Notification!Answers /\ r # "continue"
    BY DEF Notification!Answers
  <2>6. ok => e \in v5' /\ r = "made"
    BY <2>1
  <2>7. ~ok => r = "EEXIST" /\ \E m \in v5' : m[1] = "tmp" /\ m[2] < v4.id
    BY <1>0, <2>1 DEF Notification!MadeBefore, Notification!Reading
  <2>8. \A m \in v5' : m[2] <= v4.id
    BY <1>0, <2>1, <2>3 DEF Notification!MadeBefore
  <2> HIDE DEF r
  <2>9. DOMAIN v4' = DOMAIN v4 /\ v4'.pc = "send" /\ v4'.id = v4.id /\ v4'.resp = r
    BY <1>1, <2>1
  <2> HIDE DEF ok
  <2>10. Notification!ToBeTold'
    <3>1. v1'.args[v4'.id] = "tmp"
      BY <2>1, <2>2, <2>9
    <3>2. CASE ok
      BY <2>6, <2>9, <3>1, <3>2 DEF Notification!ToBeTold, Notification!TrueOf
    <3>3. CASE ~ok
      BY <2>7, <2>9, <3>1, <3>3 DEF Notification!ToBeTold, Notification!TrueOf
    <3> QED
      BY <3>2, <3>3
  <2>11. Notification!PathRead' /\ Notification!FilesHeld' /\ Notification!MadeBefore' /\ v4'.pc \in Notification!Working
    BY <1>0, <2>1, <2>5, <2>8, <2>9 DEF Notification!PathRead, Notification!FilesHeld, Notification!MadeBefore, Notification!Reading, Notification!Working
  <2> QED
    BY <1>1, <2>1, <2>2, <2>4, <2>5, <2>9, <2>10, <2>11, NotSupMove
<1> QED
  BY <1>4, <1>5, <1>6, <1>7, <1>8, <1>9, <1>10

LEMMA NotReceive ==
  ASSUME Notification!IInv, Notification!Receive
  PROVE  Notification!IInv'
<1>0. /\ Notification!TypeOK /\ Notification!Pending /\ Notification!Overtaken /\ Notification!MadeBefore
      /\ Notification!Told /\ Notification!FilesHeld
      /\ Notification!NumArgs \in Nat /\ v2.i \in Nat /\ v4.id \in Nat /\ v2.i >= 1
  BY NotFacts
<1> DEFINE l == IF v1.delay THEN "delay" ELSE "open"
<1>1. /\ v4.pc = "recv" /\ v3.id # 0 /\ v1' = v1 /\ v2' = v2 /\ v5' = v5 /\ v6' = v6
      /\ v3' = [v3 EXCEPT !.received = TRUE] /\ v4' = [v4 EXCEPT !.pc = l, !.id = v3.id]
  BY DEF Notification!Receive
<1>2. l \in {"delay", "open"}
  OBVIOUS
<1> HIDE DEF l
<1>3. DOMAIN v4' = DOMAIN v4 /\ v4'.pc = l /\ v4'.id = v3.id /\ v4'.resp = v4.resp
  BY <1>0, <1>1 DEF Notification!TypeOK
<1>4. DOMAIN v3' = {"id", "received"} /\ v3'.id = v3.id
  BY <1>0, <1>1 DEF Notification!TypeOK
<1>5. v3.id = v2.i /\ v2.i <= Notification!NumArgs /\ v4.id < v2.i /\ v1.second # "e" /\ v2.pc = "blocked"
  BY <1>0, <1>1 DEF Notification!Pending, Notification!Overtaken, Notification!Alive, Notification!Working, Notification!Reading
<1>6. v4'.pc \in Notification!Working /\ v4'.pc \in Notification!Reading
  BY <1>2, <1>3 DEF Notification!Working, Notification!Reading
<1>7. Notification!TypeOK'
  BY <1>0, <1>1, <1>3, <1>4, <1>5, <1>6 DEF Notification!TypeOK, Notification!NumArgs, Notification!Working, Notification!Reading, Notification!Answers
<1>8. Notification!Pending'
  BY <1>0, <1>1, <1>2, <1>3, <1>4, <1>5, <1>6 DEF Notification!Pending, Notification!NumArgs
<1>9. Notification!Overtaken'
  BY <1>0, <1>1, <1>3, <1>4, <1>5, <1>6 DEF Notification!Overtaken, Notification!cookieIsValid
<1>10. Notification!PathRead' /\ Notification!ToBeTold' /\ Notification!FilesHeld'
  BY <1>0, <1>1, <1>2, <1>3 DEF Notification!PathRead, Notification!ToBeTold, Notification!FilesHeld
<1>11. Notification!MadeBefore'
  <2>1. \A m \in v5 : m[2] \in Int
    BY <1>0 DEF Notification!TypeOK
  <2> QED
    BY <1>0, <1>1, <1>3, <1>5, <2>1 DEF Notification!MadeBefore
<1>12. Notification!Told'
  BY <1>0, <1>1, <1>2, <1>3, NotToldSame
<1> QED
  BY <1>7, <1>8, <1>9, <1>10, <1>11, <1>12 DEF Notification!IInv

LEMMA NotAddFd ==
  ASSUME Notification!IInv, Notification!AddFd
  PROVE  Notification!IInv'
<1>0. /\ Notification!TypeOK /\ Notification!MadeBefore /\ Notification!FilesHeld /\ v4.pc = "addfd"
      /\ v6 \in [sup : Nat, target : Nat] /\ v5 \subseteq Notification!Paths \X (1..Notification!NumArgs)
  BY NotFacts DEF Notification!AddFd, Notification!TypeOK
<1>1. CASE Notification!cookieIsValid
  <2>1. /\ v6' = [sup |-> v6.sup - 1, target |-> v6.target + 1] /\ v4' = [v4 EXCEPT !.pc = "send", !.resp = "fd"]
        /\ v1' = v1 /\ v2' = v2 /\ v3' = v3 /\ v5' = v5 /\ v6.sup = 1
    BY <1>0, <1>1 DEF Notification!AddFd, Notification!FilesHeld
  <2>2. v6' \in [sup : Nat, target : Nat] /\ v6'.sup = 0
    BY <1>0, <2>1
  <2>3. DOMAIN v4' = DOMAIN v4 /\ v4'.pc = "send" /\ v4'.id = v4.id /\ v4'.resp = "fd" /\ v4'.resp \in Notification!Answers
    BY <1>0, <2>1 DEF Notification!TypeOK, Notification!Answers
  <2>4. Notification!PathRead' /\ Notification!ToBeTold' /\ Notification!FilesHeld'
    BY <2>2, <2>3 DEF Notification!PathRead, Notification!ToBeTold, Notification!FilesHeld, Notification!TrueOf
  <2>5. Notification!MadeBefore' /\ v4.pc \in Notification!Working /\ v4'.pc \in Notification!Working
    BY <1>0, <2>1, <2>3 DEF Notification!MadeBefore, Notification!Reading, Notification!Working
  <2> QED
    BY <1>0, <2>1, <2>2, <2>3, <2>4, <2>5, NotSupMove
<1>2. CASE ~Notification!cookieIsValid
  <2>1. Notification!Ends /\ v1' = v1 /\ v5' = v5 /\ v6' = [v6 EXCEPT !.sup = 0]
    BY <1>2 DEF Notification!AddFd
  <2>2. v6' \in [sup : Nat, target : Nat]
    BY <1>0, <2>1
  <2> QED
    BY <2>1, <2>2, NotEnds
<1> QED
  BY <1>1, <1>2

LEMMA NotSend ==
  ASSUME Notification!IInv, Notification!Send
  PROVE  Notification!IInv'
<1>0. /\ Notification!TypeOK /\ Notification!Pending /\ Notification!Overtaken /\ Notification!MadeBefore
      /\ Notification!ToBeTold /\ Notification!Told /\ Notification!FilesHeld
      /\ Notification!NumArgs \in Nat /\ v2.i \in Nat /\ v4.id \in Nat /\ v2.i >= 1
  BY NotFacts
<1>1. v4.pc = "send" /\ v1' = v1 /\ v6' = v6 /\ v4.pc \in Notification!Working
  BY DEF Notification!Send, Notification!Working
<1>2. \E bye : v4' = [v4 EXCEPT !.pc = IF bye THEN "bye" ELSE "recv"]
  BY DEF Notification!Send
<1>3. DOMAIN v4' = DOMAIN v4 /\ v4'.pc \in {"bye", "recv"} /\ v4'.id = v4.id /\ v4'.resp = v4.resp
  <2> DEFINE L(b) == IF b THEN "bye" ELSE "recv"
  <2>1. PICK bye : v4' = [v4 EXCEPT !.pc = L(bye)]
    BY <1>2
  <2>2. L(bye) \in {"bye", "recv"}
    OBVIOUS
  <2> HIDE DEF L
  <2> QED
    BY <1>0, <2>1, <2>2 DEF Notification!TypeOK
<1>4. v4'.pc \notin Notification!Working /\ v4'.pc \notin Notification!Reading /\ v4'.pc # "ended"
  BY <1>3 DEF Notification!Working, Notification!Reading
<1>5. Notification!PathRead' /\ Notification!ToBeTold' /\ Notification!FilesHeld'
  BY <1>0, <1>1, <1>3 DEF Notification!PathRead, Notification!ToBeTold, Notification!FilesHeld
<1>6. CASE ~Notification!cookieIsValid
  <2>1. v2' = v2 /\ v3' = v3 /\ v5' = v5
    BY <1>6 DEF Notification!Send
  <2>2. Notification!TypeOK'
    BY <1>0, <1>1, <1>3, <2>1 DEF Notification!TypeOK, Notification!NumArgs
  <2>3. Notification!Pending'
    BY <1>0, <1>1, <1>3, <1>6, <2>1 DEF Notification!Pending, Notification!NumArgs, Notification!cookieIsValid
  <2>4. Notification!Overtaken'
    BY <1>0, <1>1, <1>3, <1>4, <1>6, <2>1 DEF Notification!Overtaken, Notification!Alive
  <2>5. Notification!MadeBefore'
    BY <1>0, <1>3, <1>4, <2>1 DEF Notification!MadeBefore
  <2>6. Notification!Told'
    BY <1>0, <1>1, <2>1, NotToldSame
  <2> QED
    BY <1>5, <2>2, <2>3, <2>4, <2>5, <2>6 DEF Notification!IInv
<1>7. CASE Notification!cookieIsValid
  <2>1. v3' = Notification!NoNotif /\ v3.id # 0 /\ v3.id = v2.i /\ v3.id = v4.id /\ v2.i <= Notification!NumArgs
    BY <1>0, <1>7 DEF Notification!Send, Notification!cookieIsValid, Notification!Pending
  <2>2. DOMAIN v3' = {"id", "received"} /\ v3'.id = 0
    BY <2>1 DEF Notification!NoNotif
  <2>3. Notification!TrueOf(v4.id, v4.resp) /\ (v4.resp = "continue" => v1.args[v4.id] = "dot")
    BY <1>0, <1>1, <1>7 DEF Notification!ToBeTold
  <2>4. ASSUME NEW r \in Notification!Answers, Notification!Return(r), v5 \subseteq v5', v5' \subseteq Notification!Paths \X (1..Notification!NumArgs),
               \A m \in v5' : m[2] <= v4.id, NEW k, k = v2.i, Notification!TrueOf(k, r)'
        PROVE  Notification!IInv'
    <3>1. /\ DOMAIN v2' = {"pc", "sent", "i", "got"} /\ v2'.pc = "call" /\ v2'.i = v2.i + 1
          /\ v2'.got \in Seq(Notification!Answers) /\ Len(v2'.got) = v2.i
      BY <1>0, <2>1, <2>4, NotReturn
    <3>a. Notification!NumArgs' = Notification!NumArgs /\ v2.i + 1 \in 1..Notification!NumArgs + 1 /\ (v2.i + 1) - 1 = v2.i
      BY <1>0, <1>1, <2>1 DEF Notification!NumArgs
    <3>2. Notification!TypeOK'
      BY Zenon, <1>0, <1>1, <1>3, <2>2, <2>4, <3>1, <3>a DEF Notification!TypeOK
    <3>3. Notification!Pending'
      BY <2>2, <3>1 DEF Notification!Pending
    <3>4. Notification!Overtaken'
      <4>0. v4'.id = v2.i
        BY <1>3, <2>1
      <4>1. v2'.i > v4'.id
        BY <1>0, <3>1, <4>0
      <4> QED
        BY <1>3, <4>1 DEF Notification!Overtaken, Notification!Working, Notification!Reading
    <3>5. Notification!MadeBefore'
      BY <1>3, <1>4, <2>4 DEF Notification!MadeBefore
    <3>6. Notification!Told'
      BY Zenon, <1>0, <1>1, <2>1, <2>4, NotToldMore
    <3> QED
      BY <1>5, <3>2, <3>3, <3>4, <3>5, <3>6 DEF Notification!IInv
  <2>5. v5 \subseteq Notification!Paths \X (1..Notification!NumArgs) /\ v4.resp \in Notification!Answers /\ \A m \in v5 : m[2] <= v4.id
    BY <1>0 DEF Notification!TypeOK, Notification!MadeBefore
  <2>6. CASE v4.resp # "continue"
    <3>1. Notification!Return(v4.resp) /\ v5' = v5
      BY <1>7, <2>6 DEF Notification!Send
    <3> DEFINE r == v4.resp  k == v4.id
    <3>2. Notification!TrueOf(k, r)
      BY <2>3
    <3> HIDE DEF r, k
    <3>3. ASSUME NEW a, NEW b, Notification!TrueOf(a, b) PROVE Notification!TrueOf(a, b)'
      BY <1>1, <3>1, <3>3 DEF Notification!TrueOf
    <3>4. PICK a, b : a = k /\ b = r
      OBVIOUS
    <3>5. Notification!TrueOf(a, b)'
      BY <3>2, <3>3, <3>4
    <3> QED
      BY <2>1, <2>4, <2>5, <3>1, <3>4, <3>5 DEF r, k
  <2>7. CASE v4.resp = "continue"
    <3> DEFINE dot == <<v1.args[v3.id], v3.id>>
               new == dot[1] \notin {m[1] : m \in v5}
               r == IF new THEN "made" ELSE "EEXIST"
    <3>1. Notification!Return(r) /\ v5' = (IF new THEN v5 \cup {dot} ELSE v5)
      BY <1>7, <2>7 DEF Notification!Send
    <3>2. dot[1] = "dot" /\ dot[2] = v4.id /\ dot = <<"dot", v4.id>> /\ v4.id \in 1..Notification!NumArgs
      BY <1>0, <2>1, <2>3, <2>7
    <3>3. dot \in Notification!Paths \X (1..Notification!NumArgs)
      BY <3>2 DEF Notification!Paths
    <3>4. v5 \subseteq v5' /\ v5' \subseteq Notification!Paths \X (1..Notification!NumArgs) /\ \A m \in v5' : m[2] <= v4.id
      BY <1>0, <2>5, <3>1, <3>2, <3>3
    <3>5. PICK k : k = v2.i
      OBVIOUS
    <3>6. k = v4.id /\ v1'.args[k] = "dot"
      BY Zenon, <1>1, <2>1, <2>3, <2>7, <3>5
    <3>7. CASE new
      <4>1. r = "made" /\ <<"dot", k>> \in v5'
        BY <3>1, <3>2, <3>6, <3>7
      <4>2. Notification!TrueOf(k, "made")'
        BY <3>6, <4>1 DEF Notification!TrueOf
      <4>3. "made" \in Notification!Answers /\ Notification!Return("made")
        BY <3>1, <3>7 DEF Notification!Answers
      <4> QED
        BY <2>4, <3>4, <3>5, <4>2, <4>3
    <3>8. CASE ~new
      <4>1. r = "EEXIST" /\ v5' = v5 /\ \E m \in v5 : m[1] = "dot" /\ m[2] < k
        BY <1>0, <1>1, <2>7, <3>1, <3>2, <3>6, <3>8 DEF Notification!MadeBefore
      <4>2. Notification!TrueOf(k, "EEXIST")'
        BY <3>6, <4>1 DEF Notification!TrueOf
      <4>3. "EEXIST" \in Notification!Answers /\ Notification!Return("EEXIST")
        BY <3>1, <3>8 DEF Notification!Answers
      <4> QED
        BY <2>4, <3>4, <3>5, <4>2, <4>3
    <3> QED
      BY <3>7, <3>8
  <2> QED
    BY <2>6, <2>7
<1> QED
  BY <1>6, <1>7

LEMMA NotNext == Notification!IInv /\ [Notification!Next]_Notification!vars => Notification!IInv'
<1> SUFFICES ASSUME Notification!IInv, [Notification!Next]_Notification!vars PROVE Notification!IInv'
  OBVIOUS
<1>1. CASE UNCHANGED Notification!vars
  <2>1. v1' = v1 /\ v2' = v2 /\ v3' = v3 /\ v4' = v4 /\ v5' = v5 /\ v6' = v6
    BY <1>1 DEF Notification!vars
  <2>2. Notification!TypeOK /\ Notification!Pending /\ Notification!Overtaken /\ Notification!Told
    BY NotFacts
  <2>3. Notification!TypeOK'
    BY <2>1, <2>2 DEF Notification!TypeOK, Notification!NumArgs, Notification!Working, Notification!Reading, Notification!Answers
  <2>4. Notification!Pending' /\ Notification!Overtaken'
    BY <2>1, <2>2 DEF Notification!Pending, Notification!Overtaken, Notification!NumArgs, Notification!Working, Notification!Reading, Notification!cookieIsValid, Notification!Alive
  <2>5. Notification!PathRead' /\ Notification!MadeBefore' /\ Notification!ToBeTold' /\ Notification!FilesHeld'
    BY <2>1, NotSupSame DEF Notification!cookieIsValid
  <2>6. Notification!Told'
    BY <2>1, <2>2, NotToldSame
  <2> QED
    BY <2>3, <2>4, <2>5, <2>6 DEF Notification!IInv
<1>2. CASE Notification!Next
  <2>1. CASE Notification!Target
    BY <2>1, NotTarget, NotCall DEF Notification!Target
  <2>2. CASE Notification!Supervisor
    <3>1. CASE Notification!sigchldHandler \/ Notification!Bye
      <4>1. Notification!Ends /\ v1' = v1 /\ v5' = v5 /\ v6' = v6
        BY <3>1 DEF Notification!sigchldHandler, Notification!Bye, Notification!Quits
      <4>2. v6 \in [sup : Nat, target : Nat]
        BY NotFacts DEF Notification!TypeOK
      <4> QED
        BY <4>1, <4>2, NotEnds
    <3> QED
      BY <2>2, <3>1, NotSupervisor, NotReceive, NotAddFd, NotSend DEF Notification!Supervisor
  <2> QED
    BY <1>2, <2>1, <2>2 DEF Notification!Next
<1> QED
  BY <1>1, <1>2

LEMMA NotSafe == Notification!IInv => Notification!BlockedIsServed /\ Notification!AnswersTrue
<1> SUFFICES ASSUME Notification!IInv PROVE Notification!BlockedIsServed /\ Notification!AnswersTrue
  OBVIOUS
<1>1. Notification!BlockedIsServed
  BY NotFacts DEF Notification!BlockedIsServed, Notification!Pending, Notification!Working, Notification!Reading
<1>2. v4.pc = "recv" => v6.sup = 0
  BY NotFacts DEF Notification!FilesHeld
<1>3. Notification!AnswersTrue
  BY <1>2, NotFacts DEF Notification!AnswersTrue, Notification!Told, Notification!TrueOf
<1> QED
  BY <1>1, <1>3

-----------------------------------------------------------------------------
(* IterativeServers.                                                       *)

LEMMA ItDatagram ==
  ASSUME NEW c \in ItClients, NEW j \in 1..Len(ItLengths)
  PROVE  /\ Iterative!Datagram(c, j) \in Iterative!Datagrams
         /\ Iterative!Datagram(c, j).from = c /\ Iterative!Datagram(c, j).n = j
<1>1. ItLengths[j] \in Nat
  BY ItBounds
<1> QED
  BY <1>1 DEF Iterative!Datagram, Iterative!Datagrams

\* An answer is cut by the server and not again by the client.
LEMMA ItConvert ==
  ASSUME NEW d \in Iterative!Datagrams
  PROVE  /\ Iterative!Cut(d) \in Iterative!Datagrams /\ Iterative!Convert(v1, d) \in Iterative!Datagrams
         /\ Iterative!Convert(v1, d).from = d.from
         /\ Iterative!Cut(Iterative!Convert(v1, d)) = Iterative!Convert(v1, d)
<1> DEFINE n == IF d.len > ItBufSize THEN ItBufSize ELSE d.len
           e == [d EXCEPT !.len = n]
           b == v1 # "id"
           f == [e EXCEPT !.upper = b]
<1>0. n \in Nat /\ ~(n > ItBufSize) /\ b \in BOOLEAN
  BY ItBounds DEF Iterative!Datagrams
<1>1. Iterative!Cut(d) = e /\ Iterative!Convert(v1, d) = f
  BY DEF Iterative!Cut, Iterative!Convert, Iterative!Datagrams
<1> HIDE DEF n, b
<1>2. e \in Iterative!Datagrams /\ f \in Iterative!Datagrams /\ f.from = d.from /\ f.len = n
  BY Zenon, <1>0 DEF Iterative!Datagrams
<1> HIDE DEF f
<1>3. Iterative!Cut(f) = [f EXCEPT !.len = n]
  BY <1>0, <1>2 DEF Iterative!Cut, Iterative!Datagrams
<1>4. [f EXCEPT !.len = n] = f
  BY <1>0, <1>2 DEF Iterative!Datagrams
<1> QED
  BY <1>1, <1>2, <1>3, <1>4 DEF e

LEMMA ItInit == Iterative!Init => Iterative!IInv
<1> SUFFICES ASSUME Iterative!Init PROVE Iterative!IInv
  OBVIOUS
<1> USE DEF Iterative!Init, Iterative!Xfr
<1>0. Len(ItLengths) \in Nat
  BY ItBounds
<1>1. Iterative!TypeOK
  <2>1. v4 \in [ItClients -> [pc : {"new", "send", "receive", "done", "failed", "killed"},
                          sent : 0..Len(ItLengths), got : Seq(Iterative!Datagrams)]]
    BY <1>0
  <2>2. v5 \in [ItClients -> Seq(Iterative!Datagrams)] /\ v6 \in Seq(Iterative!Datagrams)
        /\ v7 \in Seq({"lost", "duplicate", "killed"}) /\ v3 \in Seq(IF Iterative!Xfr THEN ItClients ELSE Iterative!Datagrams)
    OBVIOUS
  <2>3. DOMAIN v2 = {"pc", "got", "msg"} /\ v2.pc = "wait"
    OBVIOUS
  <2> QED
    BY <2>1, <2>2, <2>3 DEF Iterative!TypeOK
<1>2. Iterative!Clear
  BY DEF Iterative!Clear
<1>3. Iterative!OneOnItsWay /\ Iterative!AllAnswered /\ Iterative!AnswersMatch
  BY DEF Iterative!OneOnItsWay, Iterative!AllAnswered, Iterative!AnswersMatch
<1>4. Iterative!Connections
  BY DEF Iterative!Connections, Iterative!Copied
<1>5. Iterative!EndOfOutput /\ Iterative!OneAfterTheOther
  BY DEF Iterative!EndOfOutput, Iterative!OneAfterTheOther
<1> QED
  BY <1>1, <1>2, <1>3, <1>4, <1>5 DEF Iterative!IInv

\* What went wrong is not forgotten.
LEMMA ItClear ==
  ASSUME Iterative!TypeOK, NEW f, v7' = v7 \/ v7' = Append(v7, f)
  PROVE  Iterative!Clear' => Iterative!Clear
<1>1. v7 \in Seq({"lost", "duplicate", "killed"})
  BY DEF Iterative!TypeOK
<1>2. \A i \in DOMAIN v7 : i \in DOMAIN v7' /\ v7'[i] = v7[i]
  BY <1>1
<1> QED
  BY <1>2 DEF Iterative!Clear

\* A step that leaves the datagrams and what was printed alone.
LEMMA ItSameAnswers ==
  ASSUME Iterative!IInv, v1' = v1, Iterative!Xfr, Iterative!TypeOK', v7' = v7 \/ v7' = Append(v7, "killed"),
         \A c \in ItClients : v4'[c].got = v4[c].got
  PROVE  /\ (v1 = "ud" => Iterative!Clear)' /\ Iterative!OneOnItsWay' /\ Iterative!AllAnswered' /\ Iterative!AnswersMatch'
<1> USE DEF Iterative!IInv, Iterative!Xfr
<1>1. Iterative!Clear' => Iterative!Clear
  BY ItClear
<1>2. v2'.pc # "gone"
  BY DEF Iterative!TypeOK
<1>3. Iterative!AnswersMatch'
  <2>1. ASSUME NEW c \in ItClients, NEW j \in DOMAIN v4'[c].got, Iterative!Clear'
        PROVE  v4'[c].got[j] = Iterative!Convert(v1', Iterative!Datagram(c, j))
    <3>1. v4[c].got[j] = Iterative!Convert(v1, Iterative!Datagram(c, j))
      BY <1>1, <2>1 DEF Iterative!AnswersMatch, Iterative!Clear
    <3> QED
      BY <2>1, <3>1
  <2> QED
    BY <1>2, <2>1 DEF Iterative!AnswersMatch, Iterative!Clear
<1> QED
  BY <1>3 DEF Iterative!OneOnItsWay, Iterative!AllAnswered

\* A step of a server or client of datagrams leaves what is said of us_xfr true.
LEMMA ItNotXfr ==
  ASSUME v1' = v1, ~Iterative!Xfr
  PROVE  Iterative!Connections' /\ Iterative!EndOfOutput' /\ Iterative!OneAfterTheOther'
BY DEF Iterative!Xfr, Iterative!Connections, Iterative!EndOfOutput, Iterative!OneAfterTheOther

LEMMA ItFrom ==
  ASSUME NEW s \in Seq(Iterative!Datagrams)
  PROVE  /\ Len(s) \in Nat /\ DOMAIN s = 1..Len(s)
         /\ \A i \in DOMAIN s : s[i] \in Iterative!Datagrams /\ s[i].from \in ItClients /\ s[i].n \in 1..Len(ItLengths)
<1>1. \A i \in DOMAIN s : s[i] \in Iterative!Datagrams
  OBVIOUS
<1>2. \A d \in Iterative!Datagrams : d.from \in ItClients /\ d.n \in 1..Len(ItLengths)
  BY DEF Iterative!Datagrams
<1> QED
  BY <1>1, <1>2

LEMMA ItInbox ==
  ASSUME Iterative!TypeOK
  PROVE  /\ Iterative!Xfr => v3 \in Seq(ItClients)
         /\ ~Iterative!Xfr => v3 \in Seq(Iterative!Datagrams)
BY DEF Iterative!TypeOK

\* Client c goes to pc = p, all else of the clients stays.
LEMMA ItGo ==
  ASSUME Iterative!TypeOK, NEW c \in ItClients, NEW p \in {"new", "send", "receive", "done", "failed", "killed"},
         v4' = [v4 EXCEPT ![c].pc = p]
  PROVE  /\ v4' \in [ItClients -> [pc : {"new", "send", "receive", "done", "failed", "killed"},
                          sent : 0..Len(ItLengths), got : Seq(Iterative!Datagrams)]]
         /\ \A x \in ItClients : v4'[x].got = v4[x].got /\ v4'[x].sent = v4[x].sent
         /\ \A x \in ItClients : x # c => v4'[x].pc = v4[x].pc
         /\ v4'[c].pc = p
BY ZenonT(30) DEF Iterative!TypeOK

LEMMA ItStart ==
  ASSUME Iterative!IInv, v1' = v1, NEW c \in ItClients, Iterative!Start(c)
  PROVE  Iterative!IInv'
<1> USE DEF Iterative!IInv, Iterative!Start
<1>0. /\ v4' \in [ItClients -> [pc : {"new", "send", "receive", "done", "failed", "killed"},
                          sent : 0..Len(ItLengths), got : Seq(Iterative!Datagrams)]]
      /\ \A x \in ItClients : v4'[x].got = v4[x].got /\ v4'[x].sent = v4[x].sent
      /\ \A x \in ItClients : x # c => v4'[x].pc = v4[x].pc
      /\ v4'[c].pc = "send"
  <2> "send" \in {"new", "send", "receive", "done", "failed", "killed"}
    OBVIOUS
  <2> QED
    BY Zenon, ItGo
<1>1. Iterative!TypeOK'
  <2>1. v3' \in Seq(IF Iterative!Xfr' THEN ItClients ELSE Iterative!Datagrams)
    <3>1. CASE Iterative!Xfr
      <4>1. v3' = Append(v3, c) /\ v3 \in Seq(ItClients)
        BY <3>1, ItInbox
      <4>2. v3' \in Seq(ItClients)
        BY <4>1
      <4> QED
        BY <3>1, <4>2 DEF Iterative!Xfr
    <3>2. CASE ~Iterative!Xfr
      BY <3>2, ItInbox DEF Iterative!Xfr
    <3> QED
      BY <3>1, <3>2
  <2> QED
    BY <1>0, <2>1 DEF Iterative!TypeOK, Iterative!Xfr
<1>2. CASE ~Iterative!Xfr
  <2>1. v3' = v3 /\ v2' = v2 /\ v5' = v5 /\ v6' = v6 /\ v7' = v7 /\ v4[c].pc = "new"
    BY <1>2
  <2>2. (v1 = "ud" => Iterative!Clear)' /\ (Iterative!Clear' <=> Iterative!Clear)
    BY <2>1 DEF Iterative!Clear
  <2>3. \A x \in ItClients : (Iterative!Outstanding(x) <=> v4'[x].pc \in {"receive", "killed"})
    BY <1>0, <2>1 DEF Iterative!Outstanding
  <2>4. Iterative!OneOnItsWay'
    <3> SUFFICES ASSUME ~Iterative!Xfr, Iterative!Clear PROVE Iterative!OneOnItsWay'
      BY <2>2 DEF Iterative!OneOnItsWay, Iterative!Xfr
    <3>1. \A i \in DOMAIN v3 : v3[i].from \in ItClients
      BY <1>2, ItInbox, ItFrom
    <3>2. v2.pc = "answer" => v2.got \in ItClients
      BY DEF Iterative!TypeOK
    <3>3. \A i \in DOMAIN v3 :
            /\ Iterative!Outstanding(v3[i].from) /\ v5[v3[i].from] = <<>>
            /\ v3[i] = Iterative!Datagram(v3[i].from, v4[v3[i].from].sent)
      BY DEF Iterative!OneOnItsWay
    <3>4. \A i \in DOMAIN v3 :
            /\ v4'[v3[i].from].pc \in {"receive", "killed"} /\ v5[v3[i].from] = <<>>
            /\ v3[i] = Iterative!Datagram(v3[i].from, v4'[v3[i].from].sent)
      BY <1>0, <2>3, <3>1, <3>3
    <3>5. \A i, k \in DOMAIN v3 : v3[i].from = v3[k].from => i = k
      BY DEF Iterative!OneOnItsWay
    <3>6. v2.pc = "answer" =>
            /\ v4'[v2.got].pc \in {"receive", "killed"} /\ v5[v2.got] = <<>>
            /\ v2.msg = Iterative!Convert(v1, Iterative!Datagram(v2.got, v4'[v2.got].sent))
            /\ \A i \in DOMAIN v3 : v3[i].from # v2.got
      BY <1>0, <2>3, <3>2 DEF Iterative!OneOnItsWay
    <3>7. \A x \in ItClients : v5[x] # <<>> =>
            /\ v4'[x].pc \in {"receive", "killed"}
            /\ v5[x] = <<Iterative!Convert(v1, Iterative!Datagram(x, v4'[x].sent))>>
      BY <1>0, <2>3 DEF Iterative!OneOnItsWay
    <3> QED
      BY <2>1, <3>4, <3>5, <3>6, <3>7 DEF Iterative!OneOnItsWay, Iterative!Outstanding, Iterative!Xfr
  <2>5. Iterative!AllAnswered'
    BY <1>0, <2>1, <2>2, <1>2 DEF Iterative!AllAnswered, Iterative!Xfr
  <2>6. Iterative!AnswersMatch'
    <3>1. ASSUME NEW x \in ItClients, NEW j \in DOMAIN v4'[x].got, Iterative!Clear'
          PROVE  v4'[x].got[j] = Iterative!Convert(v1', Iterative!Datagram(x, j))
      <4>1. v4[x].got[j] = Iterative!Convert(v1, Iterative!Datagram(x, j))
        BY <1>0, <2>2, <3>1 DEF Iterative!AnswersMatch, Iterative!Clear
      <4> QED
        BY <1>0, <3>1, <4>1
    <3> QED
      BY <1>0, <2>1, <3>1 DEF Iterative!AnswersMatch, Iterative!Clear
  <2> QED
    BY <1>1, <1>2, <2>2, <2>4, <2>5, <2>6, ItNotXfr
<1>3. CASE Iterative!Xfr
  <2>0. v3' = Append(v3, c) /\ v2' = v2 /\ v5' = v5 /\ v6' = v6 /\ v7' = v7 /\ v4[c].pc = "new"
        /\ v3 \in Seq(ItClients) /\ v6 \in Seq(Iterative!Datagrams) /\ Iterative!Xfr'
    BY <1>3 DEF Iterative!TypeOK, Iterative!Xfr
  <2>1. \A x \in ItClients : Iterative!Copied(x)' = Iterative!Copied(x)
    BY <1>0, <2>0 DEF Iterative!Copied
  <2>2. \A k \in DOMAIN v6 : v6[k].from \in ItClients /\ v6[k].from # c
    BY <1>3, <2>0, ItFrom DEF Iterative!Connections
  <2>3. \A i \in DOMAIN v3 : v3[i] \in ItClients /\ v3[i] # c
    BY <1>3, <2>0 DEF Iterative!Connections
  <2>4. Iterative!Copied(c) = 0
    <3>1. Len(v5[c]) <= v4[c].sent /\ v4[c].sent = 0 /\ Len(v5[c]) \in Nat
      BY <1>3, <2>0 DEF Iterative!Connections, Iterative!TypeOK
    <3> QED
      BY <3>1 DEF Iterative!Copied
  <2>5. Iterative!Connections'
    <3>1. ASSUME NEW x \in ItClients
          PROVE  /\ Len(v5'[x]) <= v4'[x].sent
                 /\ \A k \in DOMAIN v5'[x] : v5'[x][k] = Iterative!Datagram(x, Iterative!Copied(x)' + k)
                 /\ v4'[x].pc = "done" => v4'[x].sent = Len(ItLengths)
                 /\ v4'[x].pc = "new" => v4'[x].sent = 0
      BY <1>0, <1>3, <2>0, <2>1 DEF Iterative!Connections
    <3>2. ASSUME NEW i \in DOMAIN v3'
          PROVE  /\ v4'[v3'[i]].pc # "new" /\ Iterative!Copied(v3[i])' = 0
                 /\ \A k \in DOMAIN v3' : v3'[k] = v3'[i] => k = i
                 /\ \A k \in DOMAIN v6' : v6'[k].from # v3'[i]
      <4>0. DOMAIN v3' = 1..(Len(v3) + 1) /\ DOMAIN v3 = 1..Len(v3) /\ Len(v3) \in Nat
            /\ (\A k \in 1..Len(v3) : v3'[k] = v3[k]) /\ v3'[Len(v3) + 1] = c
        BY <2>0
      <4>1. CASE i = Len(v3) + 1
        BY <1>0, <2>0, <2>1, <2>2, <2>3, <2>4, <4>0, <4>1 DEF Iterative!Copied
      <4>2. CASE i \in 1..Len(v3)
        <5> DEFINE x == v3[i]
        <5>1. x \in ItClients /\ x # c /\ v3'[i] = x
          BY <2>3, <4>0, <4>2
        <5>2. v4[x].pc # "new" /\ Iterative!Copied(x) = 0 /\ (\A k \in DOMAIN v3 : v3[k] = x => k = i)
              /\ (\A k \in DOMAIN v6 : v6[k].from # x)
          BY <1>3, <4>0, <4>2 DEF Iterative!Connections
        <5> HIDE DEF x
        <5>3. Iterative!Copied(v3[i])' = v4'[x].sent - Len(v5'[x])
          BY <5>1 DEF Iterative!Copied
        <5>4. v4'[x].sent - Len(v5'[x]) = 0
          BY <1>0, <2>0, <5>1, <5>2 DEF Iterative!Copied
        <5> QED
          BY <1>0, <2>0, <2>1, <4>0, <4>2, <5>1, <5>2, <5>3, <5>4
      <4> QED
        BY <4>0, <4>1, <4>2
    <3>3. \A k \in DOMAIN v6' : v4'[v6'[k].from].pc # "new"
      BY <1>0, <1>3, <2>0, <2>2 DEF Iterative!Connections
    <3> QED
      BY <3>1, <3>2, <3>3 DEF Iterative!Connections, Iterative!Datagram
  <2>6. Iterative!EndOfOutput'
    <3>1. v6 # <<>> => v6[Len(v6)].from \in ItClients /\ v6[Len(v6)].from # c
      BY <2>0, <2>2
    <3>2. v6 # <<>> => (Iterative!Finished(v6[Len(v6)]) => Iterative!Finished(v6[Len(v6)])')
      BY <1>0, <2>0, <3>1 DEF Iterative!Finished
    <3>3. CASE v2.pc = "copy"
      <4> DEFINE x == v2.got
      <4>1. x \in ItClients /\ x # c
        BY <1>3, <2>0, <3>3 DEF Iterative!TypeOK, Iterative!EndOfOutput
      <4>2. \A i \in DOMAIN v3' : v3'[i] # x
        BY <1>3, <2>0, <3>3, <4>1 DEF Iterative!EndOfOutput
      <4> QED
        BY <1>0, <1>3, <2>0, <2>1, <3>2, <3>3, <4>1, <4>2 DEF Iterative!EndOfOutput, Iterative!Copied, Iterative!Datagram
    <3>4. CASE v2.pc # "copy"
      BY <1>3, <2>0, <3>2, <3>4 DEF Iterative!EndOfOutput
    <3> QED
      BY <3>3, <3>4
  <2>7. Iterative!OneAfterTheOther'
    BY <1>0, <1>3, <2>0, <2>2 DEF Iterative!OneAfterTheOther
  <2>8. (v1 = "ud" => Iterative!Clear)' /\ Iterative!OneOnItsWay' /\ Iterative!AllAnswered' /\ Iterative!AnswersMatch'
    BY <1>0, <1>1, <1>3, <2>0, ItSameAnswers
  <2> QED
    BY <1>1, <2>5, <2>6, <2>7, <2>8
<1> QED
  BY <1>2, <1>3

LEMMA ItAccept ==
  ASSUME Iterative!IInv, v1' = v1, Iterative!XfrAccept
  PROVE  Iterative!IInv'
<1> USE DEF Iterative!IInv
<1> DEFINE x == Head(v3)
<1>0. /\ Iterative!Xfr /\ v2.pc = "wait" /\ v3 # <<>> /\ v3' = Tail(v3)
      /\ v2' = [v2 EXCEPT !.pc = "copy", !.got = x]
      /\ v4' = v4 /\ v5' = v5 /\ v6' = v6 /\ v7' = v7 /\ Iterative!Xfr' /\ v3 \in Seq(ItClients)
  BY ItInbox DEF Iterative!XfrAccept, Iterative!Xfr
<1>1. x = v3[1] /\ 1 \in DOMAIN v3 /\ x \in ItClients /\ v3' \in Seq(ItClients)
  BY <1>0
<1>2. Len(v3) \in Nat /\ DOMAIN v3 = 1..Len(v3) /\ DOMAIN v3' = 1..(Len(v3) - 1) /\ \A i \in DOMAIN v3' : v3'[i] = v3[i + 1]
  BY <1>0
<1> HIDE DEF x
<1>3. DOMAIN v2 = {"pc", "got", "msg"}
  BY DEF Iterative!TypeOK
<1>4. DOMAIN v2' = {"pc", "got", "msg"} /\ v2'.pc = "copy" /\ v2'.got = x
  BY <1>0, <1>3
<1>5. Iterative!TypeOK'
  BY <1>0, <1>1, <1>4 DEF Iterative!TypeOK, Iterative!Xfr
<1>6. \A i \in DOMAIN v3' : v3'[i] # x /\ v3'[i] \in ItClients
  <2>1. \A k \in DOMAIN v3 : v3[k] = x => k = 1
    BY <1>0, <1>1 DEF Iterative!Connections
  <2> QED
    BY <1>0, <1>2, <2>1
<1>7. Iterative!Connections'
  <2>1. ASSUME NEW i \in DOMAIN v3'
        PROVE  /\ v4'[v3'[i]].pc # "new" /\ Iterative!Copied(v3[i])' = 0
               /\ \A k \in DOMAIN v3' : v3'[k] = v3'[i] => k = i
               /\ \A k \in DOMAIN v6' : v6'[k].from # v3'[i]
    <3>1. i + 1 \in DOMAIN v3 /\ v3'[i] = v3[i + 1] /\ i \in Nat
      BY <1>2
    <3>2. /\ v4[v3[i + 1]].pc # "new" /\ Iterative!Copied(v3[i + 1]) = 0
          /\ \A k \in DOMAIN v3 : v3[k] = v3[i + 1] => k = i + 1
          /\ \A k \in DOMAIN v6 : v6[k].from # v3[i + 1]
      BY <1>0, <3>1 DEF Iterative!Connections
    <3>3. \A k \in DOMAIN v3' : v3'[k] = v3'[i] => k = i
      BY <1>2, <3>1, <3>2
    <3> QED
      BY <1>0, <3>1, <3>2, <3>3 DEF Iterative!Copied
  <2> QED
    BY <1>0, <2>1 DEF Iterative!Connections, Iterative!Copied
<1>8. Iterative!EndOfOutput'
  <2>1. v4[x].pc # "new" /\ Iterative!Copied(x) = 0 /\ \A k \in DOMAIN v6 : v6[k].from # x
    BY <1>0, <1>1 DEF Iterative!Connections
  <2>2. v6 # <<>> => Iterative!Finished(v6[Len(v6)])
    BY <1>0 DEF Iterative!EndOfOutput
  <2> QED
    BY <1>0, <1>4, <1>6, <2>1, <2>2 DEF Iterative!EndOfOutput, Iterative!Copied, Iterative!Finished
<1>9. Iterative!OneAfterTheOther'
  BY <1>0 DEF Iterative!OneAfterTheOther
<1>10. (v1 = "ud" => Iterative!Clear)' /\ Iterative!OneOnItsWay' /\ Iterative!AllAnswered' /\ Iterative!AnswersMatch'
  BY <1>0, <1>5, ItSameAnswers
<1> QED
  BY <1>5, <1>7, <1>8, <1>9, <1>10

\* A client of us_xfr sends its next message.
LEMMA ItXfrSend ==
  ASSUME Iterative!IInv, v1' = v1, NEW c \in ItClients, Iterative!XfrSend(c)
  PROVE  Iterative!IInv'
<1> USE DEF Iterative!IInv
<1>0. /\ Iterative!Xfr /\ Iterative!Xfr' /\ v4[c].pc = "send" /\ v2' = v2 /\ v3' = v3 /\ v6' = v6 /\ v7' = v7
      /\ v3 \in Seq(ItClients) /\ v6 \in Seq(Iterative!Datagrams) /\ v5 \in [ItClients -> Seq(Iterative!Datagrams)]
      /\ v4[c].sent \in 0..Len(ItLengths) /\ Len(ItLengths) \in Nat /\ Len(v5[c]) \in Nat /\ Len(v5[c]) <= v4[c].sent
  BY ItInbox, ItBounds, SMTT(20) DEF Iterative!XfrSend, Iterative!Xfr, Iterative!TypeOK, Iterative!Connections
<1>1. /\ v4' \in [ItClients -> [pc : {"new", "send", "receive", "done", "failed", "killed"},
                          sent : 0..Len(ItLengths), got : Seq(Iterative!Datagrams)]]
      /\ \A y \in ItClients : v4'[y].got = v4[y].got
      /\ \A y \in ItClients : y # c => v4'[y].pc = v4[y].pc /\ v4'[y].sent = v4[y].sent /\ v5'[y] = v5[y]
      /\ v5' \in [ItClients -> Seq(Iterative!Datagrams)]
      /\ \/ /\ v4'[c].pc = "send" /\ v4'[c].sent = v4[c].sent + 1
            /\ v5'[c] = Append(v5[c], Iterative!Datagram(c, v4[c].sent + 1))
         \/ /\ v4'[c].pc = "done" /\ v4'[c].sent = v4[c].sent /\ v4[c].sent = Len(ItLengths) /\ v5'[c] = v5[c]
  <2>1. CASE v4[c].sent < Len(ItLengths) /\ v4' = [v4 EXCEPT ![c].sent = @ + 1]
             /\ v5' = [v5 EXCEPT ![c] = Append(@, Iterative!Datagram(c, v4[c].sent + 1))]
    <3> DEFINE n == v4[c].sent + 1
    <3>1. n \in 1..Len(ItLengths) /\ n \in 0..Len(ItLengths)
      BY <1>0, <2>1
    <3>2. Iterative!Datagram(c, n) \in Iterative!Datagrams
      BY <3>1, ItDatagram
    <3>3. v5' = [v5 EXCEPT ![c] = Append(v5[c], Iterative!Datagram(c, n))] /\ v4' = [v4 EXCEPT ![c].sent = n]
      BY <2>1
    <3> HIDE DEF n
    <3>4. v5' \in [ItClients -> Seq(Iterative!Datagrams)] /\ v5'[c] = Append(v5[c], Iterative!Datagram(c, n))
          /\ \A y \in ItClients : y # c => v5'[y] = v5[y]
      BY <1>0, <3>2, <3>3
    <3>5. /\ v4' \in [ItClients -> [pc : {"new", "send", "receive", "done", "failed", "killed"},
                          sent : 0..Len(ItLengths), got : Seq(Iterative!Datagrams)]]
          /\ \A y \in ItClients : v4'[y].got = v4[y].got
          /\ \A y \in ItClients : y # c => v4'[y].pc = v4[y].pc /\ v4'[y].sent = v4[y].sent
          /\ v4'[c].pc = "send" /\ v4'[c].sent = n
      BY Zenon, <1>0, <3>1, <3>3 DEF Iterative!TypeOK
    <3> QED
      BY <3>4, <3>5 DEF n
  <2>2. CASE v4[c].sent = Len(ItLengths) /\ v4' = [v4 EXCEPT ![c].pc = "done"] /\ v5' = v5
    <3> "done" \in {"new", "send", "receive", "done", "failed", "killed"}
      OBVIOUS
    <3> QED
      BY Zenon, <1>0, <2>2, ItGo
  <2> QED
    BY Zenon, <2>1, <2>2 DEF Iterative!XfrSend
<1>2. Iterative!TypeOK'
  BY Zenon, <1>0, <1>1 DEF Iterative!TypeOK, Iterative!Xfr
<1>3. \A y \in ItClients : Iterative!Copied(y)' = Iterative!Copied(y)
  <2> SUFFICES ASSUME NEW y \in ItClients PROVE v4'[y].sent - Len(v5'[y]) = v4[y].sent - Len(v5[y])
    BY DEF Iterative!Copied
  <2>1. CASE y # c \/ v4'[c].pc = "done"
    BY Zenon, <1>1, <2>1
  <2>2. CASE y = c /\ v4'[c].pc # "done"
    <3>1. Len(v5'[c]) = Len(v5[c]) + 1 /\ v4'[c].sent = v4[c].sent + 1
      BY <1>0, <1>1, <2>2
    <3> QED
      BY <1>0, <2>2, <3>1
  <2> QED
    BY <2>1, <2>2
<1>4. \A y \in ItClients : (v4'[y].pc = "new" => v4[y].pc = "new") /\ (v4[y].pc = "killed" => v4'[y].pc = "killed")
  BY Zenon, <1>0, <1>1
<1>5. (\A k \in DOMAIN v6 : v6[k].from \in ItClients) /\ (\A i \in DOMAIN v3 : v3[i] \in ItClients)
  BY <1>0, ItFrom
<1>6. Iterative!Connections'
  <2>1. ASSUME NEW y \in ItClients
        PROVE  /\ Len(v5'[y]) <= v4'[y].sent
               /\ \A k \in DOMAIN v5'[y] : v5'[y][k] = Iterative!Datagram(y, Iterative!Copied(y)' + k)
               /\ v4'[y].pc = "done" => v4'[y].sent = Len(ItLengths)
               /\ v4'[y].pc = "new" => v4'[y].sent = 0
    <3>0. /\ Len(v5[y]) <= v4[y].sent
          /\ \A k \in DOMAIN v5[y] : v5[y][k] = Iterative!Datagram(y, Iterative!Copied(y) + k)
          /\ v4[y].pc = "done" => v4[y].sent = Len(ItLengths)
          /\ v4[y].pc = "new" => v4[y].sent = 0
      BY <1>0 DEF Iterative!Connections
    <3>1. CASE y # c
      BY <1>1, <1>3, <3>0, <3>1
    <3>3. CASE y = c /\ v4'[c].pc = "done" /\ v4'[c].sent = v4[c].sent /\ v4[c].sent = Len(ItLengths) /\ v5'[c] = v5[c]
      BY <1>3, <3>0, <3>3
    <3>2. CASE y = c /\ v4'[c].sent = v4[c].sent + 1 /\ v5'[c] = Append(v5[c], Iterative!Datagram(c, v4[c].sent + 1))
               /\ v4'[c].pc = "send"
      <4>1. Iterative!Copied(c) + (Len(v5[c]) + 1) = v4[c].sent + 1
        BY <1>0 DEF Iterative!Copied
      <4>2. Len(v5'[c]) = Len(v5[c]) + 1 /\ DOMAIN v5'[c] = 1..(Len(v5[c]) + 1) /\ DOMAIN v5[c] = 1..Len(v5[c])
            /\ (\A k \in 1..Len(v5[c]) : v5'[c][k] = v5[c][k])
            /\ v5'[c][Len(v5[c]) + 1] = Iterative!Datagram(c, v4[c].sent + 1)
        BY <1>0, <3>2
      <4>3. \A k \in DOMAIN v5'[c] : v5'[c][k] = Iterative!Datagram(c, Iterative!Copied(c) + k)
        BY <1>0, <3>0, <3>2, <4>1, <4>2
      <4> QED
        BY <1>0, <1>3, <3>2, <4>2, <4>3
    <3> QED
      BY <1>1, <3>1, <3>2, <3>3
  <2>2. \A i \in DOMAIN v3' :
          /\ v4'[v3'[i]].pc # "new" /\ Iterative!Copied(v3[i])' = 0
          /\ \A k \in DOMAIN v3' : v3'[k] = v3'[i] => k = i
          /\ \A k \in DOMAIN v6' : v6'[k].from # v3'[i]
    <3> SUFFICES ASSUME NEW i \in DOMAIN v3, NEW y, y = v3[i]
                 PROVE  /\ v4'[y].pc # "new" /\ v4'[y].sent - Len(v5'[y]) = 0
                        /\ \A k \in DOMAIN v3 : v3[k] = y => k = i
                        /\ \A k \in DOMAIN v6 : v6[k].from # y
      BY <1>0 DEF Iterative!Copied
    <3>1. v4[y].pc # "new" /\ Iterative!Copied(y) = 0 /\ (\A k \in DOMAIN v3 : v3[k] = y => k = i)
          /\ \A k \in DOMAIN v6 : v6[k].from # y
      BY <1>0 DEF Iterative!Connections
    <3>2. v4'[y].sent - Len(v5'[y]) = 0
      BY <1>3, <1>5, <3>1 DEF Iterative!Copied
    <3> QED
      BY <1>4, <1>5, <3>1, <3>2
  <2>3. \A k \in DOMAIN v6' : v4'[v6'[k].from].pc # "new"
    BY Zenon, <1>0, <1>4, <1>5 DEF Iterative!Connections
  <2> QED
    BY <2>1, <2>2, <2>3 DEF Iterative!Connections
<1>7. v6 # <<>> => (Iterative!Finished(v6[Len(v6)]) => Iterative!Finished(v6[Len(v6)])')
  BY <1>0, <1>4, <1>5 DEF Iterative!Finished
<1>8. Iterative!EndOfOutput'
  <2>1. CASE v2.pc = "copy"
    <3> DEFINE x == v2.got
    <3>1. x \in ItClients
      BY <2>1 DEF Iterative!TypeOK
    <3>2. Iterative!Copied(x)' = v4'[x].sent - Len(v5'[x]) /\ v4'[x].sent - Len(v5'[x]) = Iterative!Copied(x)
      BY Zenon, <1>0, <1>3, <3>1 DEF Iterative!Copied
    <3> QED
      BY Zenon, <1>0, <1>4, <1>7, <2>1, <3>1, <3>2 DEF Iterative!EndOfOutput
  <2>2. CASE v2.pc # "copy"
    BY <1>0, <1>7, <2>2 DEF Iterative!EndOfOutput
  <2> QED
    BY <2>1, <2>2
<1>9. Iterative!OneAfterTheOther'
  <2>1. \A i \in 1..(Len(v6) - 1) : v6[i].from \in ItClients
    BY <1>0, <1>5, ItFrom
  <2> QED
    BY Zenon, <1>0, <1>4, <2>1 DEF Iterative!OneAfterTheOther
<1>10. (v1 = "ud" => Iterative!Clear)' /\ Iterative!OneOnItsWay' /\ Iterative!AllAnswered' /\ Iterative!AnswersMatch'
  BY <1>0, <1>1, <1>2, ItSameAnswers
<1> QED
  BY <1>2, <1>6, <1>8, <1>9, <1>10

\* The server of us_xfr copies what the connection brings, or closes it.
LEMMA ItXfrCopy ==
  ASSUME Iterative!IInv, v1' = v1, Iterative!XfrCopy
  PROVE  Iterative!IInv'
<1> USE DEF Iterative!IInv
<1> DEFINE c == v2.got
<1>0. /\ Iterative!Xfr /\ Iterative!Xfr' /\ v2.pc = "copy" /\ v3' = v3 /\ v4' = v4 /\ v7' = v7 /\ c \in ItClients
      /\ v3 \in Seq(ItClients) /\ v6 \in Seq(Iterative!Datagrams) /\ v5 \in [ItClients -> Seq(Iterative!Datagrams)]
      /\ v4[c].sent \in 0..Len(ItLengths) /\ Len(ItLengths) \in Nat /\ Len(v5[c]) \in Nat /\ Len(v5[c]) <= v4[c].sent
  BY ItInbox, ItBounds DEF Iterative!XfrCopy, Iterative!Xfr, Iterative!TypeOK, Iterative!Connections
<1>1. /\ v4[c].pc # "new" /\ (\A i \in DOMAIN v3 : v3[i] # c)
      /\ IF Iterative!Copied(c) = 0
         THEN (\A k \in DOMAIN v6 : v6[k].from # c) /\ (v6 # <<>> => Iterative!Finished(v6[Len(v6)]))
         ELSE v6 # <<>> /\ v6[Len(v6)] = Iterative!Datagram(c, Iterative!Copied(c))
  BY <1>0 DEF Iterative!EndOfOutput
<1>2. Len(v6) \in Nat /\ DOMAIN v6 = 1..Len(v6) /\ (\A k \in DOMAIN v6 : v6[k].from \in ItClients)
      /\ (\A i \in DOMAIN v3 : v3[i] \in ItClients)
  BY <1>0, ItFrom
<1>3. CASE v5[c] # <<>> /\ v6' = Append(v6, Head(v5[c])) /\ v5' = [v5 EXCEPT ![c] = Tail(@)] /\ v2' = v2
  <2> DEFINE m == Iterative!Copied(c)
             d == Iterative!Datagram(c, m + 1)
  <2>1. m \in Nat /\ m + 1 \in 1..Len(ItLengths) /\ 1 \in DOMAIN v5[c] /\ Len(v5[c]) > 0 /\ m = v4[c].sent - Len(v5[c])
    <3>1. v5[c] \in Seq(Iterative!Datagrams)
      BY <1>0
    <3>2. Len(v5[c]) > 0 /\ 1 \in DOMAIN v5[c]
      BY <1>3, <3>1
    <3> QED
      BY <1>0, <3>2, SMTT(20) DEF Iterative!Copied
  <2>2. Head(v5[c]) = d
    <3>1. v5[c][1] = Iterative!Datagram(c, m + 1)
      BY <1>0, <2>1 DEF Iterative!Connections
    <3> QED
      BY <1>0, <1>3, <3>1
  <2>3. d \in Iterative!Datagrams /\ d.from = c /\ d.n = m + 1
    BY <1>0, <2>1, ItDatagram
  <2> HIDE DEF m, d
  <2>4. /\ v6' = Append(v6, d) /\ v6' \in Seq(Iterative!Datagrams) /\ Len(v6') = Len(v6) + 1 /\ DOMAIN v6' = 1..(Len(v6) + 1)
        /\ (\A k \in 1..Len(v6) : v6'[k] = v6[k]) /\ v6'[Len(v6) + 1] = d /\ v6' # <<>>
    <3>1. v6' = Append(v6, d)
      BY <1>3, <2>2
    <3>2. v6' \in Seq(Iterative!Datagrams) /\ Len(v6') = Len(v6) + 1
      BY <1>0, <2>3, <3>1
    <3>3. (\A k \in 1..Len(v6) : v6'[k] = v6[k]) /\ v6'[Len(v6) + 1] = d
      BY <1>0, <2>3, <3>1
    <3>4. DOMAIN v6' = 1..(Len(v6) + 1) /\ v6' # <<>>
      BY <1>2, <3>2
    <3> QED
      BY <3>1, <3>2, <3>3, <3>4
  <2>5. /\ v5'[c] = Tail(v5[c]) /\ (\A y \in ItClients : y # c => v5'[y] = v5[y])
        /\ v5' \in [ItClients -> Seq(Iterative!Datagrams)]
    <3>1. Tail(v5[c]) \in Seq(Iterative!Datagrams)
      BY <1>0, <1>3
    <3> QED
      BY <1>0, <1>3, <3>1
  <2>6. Len(v5'[c]) = Len(v5[c]) - 1 /\ DOMAIN v5'[c] = 1..(Len(v5[c]) - 1) /\ DOMAIN v5[c] = 1..Len(v5[c])
        /\ \A k \in 1..(Len(v5[c]) - 1) : v5'[c][k] = v5[c][k + 1]
    <3>1. v5[c] \in Seq(Iterative!Datagrams) /\ v5[c] # <<>>
      BY <1>0, <1>3
    <3> QED
      BY <2>5, <3>1
  <2>7. Iterative!TypeOK'
    BY <1>0, <1>3, <2>4, <2>5 DEF Iterative!TypeOK, Iterative!Xfr
  <2>8. v4'[c].sent - Len(v5'[c]) = m + 1 /\ \A y \in ItClients : y # c => v4'[y].sent - Len(v5'[y]) = Iterative!Copied(y)
    BY <1>0, <2>1, <2>5, <2>6, SMTT(20) DEF Iterative!Copied
  <2>9. Iterative!Connections'
    <3>1. ASSUME NEW y \in ItClients
          PROVE  /\ Len(v5'[y]) <= v4'[y].sent
                 /\ \A k \in DOMAIN v5'[y] : v5'[y][k] = Iterative!Datagram(y, Iterative!Copied(y)' + k)
                 /\ v4'[y].pc = "done" => v4'[y].sent = Len(ItLengths)
                 /\ v4'[y].pc = "new" => v4'[y].sent = 0
      <4>0. /\ Len(v5[y]) <= v4[y].sent
            /\ \A k \in DOMAIN v5[y] : v5[y][k] = Iterative!Datagram(y, Iterative!Copied(y) + k)
            /\ v4[y].pc = "done" => v4[y].sent = Len(ItLengths)
            /\ v4[y].pc = "new" => v4[y].sent = 0
        BY <1>0 DEF Iterative!Connections
      <4>1. CASE y # c
        BY <1>0, <2>5, <2>8, <4>0, <4>1 DEF Iterative!Copied
      <4>2. CASE y = c
        <5>1. ASSUME NEW k \in DOMAIN v5'[c]
              PROVE  v5'[c][k] = Iterative!Datagram(c, (m + 1) + k)
          <6>1. k + 1 \in DOMAIN v5[c] /\ v5'[c][k] = v5[c][k + 1] /\ k \in Nat
            BY <1>0, <2>6, SMTT(20)
          <6>2. m + (k + 1) = (m + 1) + k
            BY <2>1, <6>1
          <6> QED
            BY <4>0, <4>2, <6>1, <6>2 DEF m
        <5>2. Len(v5'[c]) <= v4[c].sent
          BY <1>0, <2>6
        <5> QED
          BY <1>0, <2>8, <4>0, <4>2, <5>1, <5>2 DEF Iterative!Copied
      <4> QED
        BY <4>1, <4>2
    <3>2. \A i \in DOMAIN v3' :
            /\ v4'[v3'[i]].pc # "new" /\ Iterative!Copied(v3[i])' = 0
            /\ \A k \in DOMAIN v3' : v3'[k] = v3'[i] => k = i
            /\ \A k \in DOMAIN v6' : v6'[k].from # v3'[i]
      <4> SUFFICES ASSUME NEW i \in DOMAIN v3, NEW y, y = v3[i]
                   PROVE  /\ v4[y].pc # "new" /\ v4'[y].sent - Len(v5'[y]) = 0
                          /\ \A k \in DOMAIN v3 : v3[k] = y => k = i
                          /\ \A k \in DOMAIN v6' : v6'[k].from # y
        BY <1>0 DEF Iterative!Copied
      <4>1. v4[y].pc # "new" /\ Iterative!Copied(y) = 0 /\ (\A k \in DOMAIN v3 : v3[k] = y => k = i)
            /\ \A k \in DOMAIN v6 : v6[k].from # y
        BY <1>0 DEF Iterative!Connections
      <4>2. y \in ItClients /\ y # c
        BY <1>1, <1>2
      <4> QED
        BY <1>2, <2>3, <2>4, <2>8, <4>1, <4>2
    <3>3. \A k \in DOMAIN v6' : v4'[v6'[k].from].pc # "new"
      BY <1>0, <1>1, <1>2, <2>3, <2>4 DEF Iterative!Connections
    <3> QED
      BY <3>1, <3>2, <3>3 DEF Iterative!Connections
  <2>10. Iterative!EndOfOutput'
    <3>1. Iterative!Copied(v2.got)' = m + 1
      BY <1>3, <2>8 DEF Iterative!Copied
    <3>2. v2'.pc = "copy" /\ v2'.got = c /\ m + 1 # 0 /\ v6'[Len(v6')] = Iterative!Datagram(c, m + 1)
      BY <1>0, <1>2, <1>3, <2>1, <2>4 DEF d
    <3> QED
      BY <1>0, <1>1, <2>4, <3>1, <3>2 DEF Iterative!EndOfOutput
  <2>11. Iterative!OneAfterTheOther'
    <3> SUFFICES ASSUME NEW i \in 1..(Len(v6') - 1)
                 PROVE  IF v6'[i].from = v6'[i + 1].from THEN v6'[i + 1].n = v6'[i].n + 1
                        ELSE /\ v6'[i].n = Len(ItLengths) \/ v4'[v6'[i].from].pc = "killed"
                             /\ v6'[i + 1].n = 1
      BY DEF Iterative!OneAfterTheOther
    <3>1. CASE i \in 1..(Len(v6) - 1)
      <4>1. v6'[i] = v6[i] /\ v6'[i + 1] = v6[i + 1]
        BY <1>2, <2>4, <3>1
      <4> QED
        BY <1>0, <3>1, <4>1 DEF Iterative!OneAfterTheOther
    <3>2. CASE i = Len(v6)
      <4>1. v6'[i] = v6[Len(v6)] /\ v6'[i + 1] = d /\ v6 # <<>> /\ i \in DOMAIN v6
        BY <1>0, <1>2, <2>4, <3>2
      <4>2. CASE m = 0
        BY <1>0, <1>1, <1>2, <2>3, <3>2, <4>1, <4>2 DEF m, Iterative!Finished
      <4>3. CASE m # 0
        <5>1. v6[Len(v6)] = Iterative!Datagram(c, m) /\ m \in 1..Len(ItLengths)
          BY <1>0, <1>1, <2>1, <4>3 DEF m
        <5>2. Iterative!Datagram(c, m).from = c /\ Iterative!Datagram(c, m).n = m
          BY <1>0, <5>1, ItDatagram
        <5> QED
          BY <2>3, <4>1, <5>1, <5>2
      <4> QED
        BY <4>2, <4>3
    <3> QED
      <4>1. Len(v6') - 1 = Len(v6)
        BY <1>2, <2>4
      <4> QED
        <5>1. i \in 1..Len(v6)
          BY <4>1
        <5>2. i \in 1..(Len(v6) - 1) \/ i = Len(v6)
          <6>1. Len(v6) \in Nat
            BY <1>2
          <6> QED
            BY <5>1, <6>1
        <5> QED
          BY <3>1, <3>2, <5>2
  <2>12. (v1 = "ud" => Iterative!Clear)' /\ Iterative!OneOnItsWay' /\ Iterative!AllAnswered' /\ Iterative!AnswersMatch'
    BY <1>0, <2>7, ItSameAnswers
  <2> QED
    BY <2>7, <2>9, <2>10, <2>11, <2>12
<1>4. CASE v5[c] = <<>> /\ v4[c].pc \in {"done", "killed"} /\ v2' = [v2 EXCEPT !.pc = "wait"] /\ v5' = v5 /\ v6' = v6
  <2>1. DOMAIN v2' = {"pc", "got", "msg"} /\ v2'.pc = "wait"
    BY <1>4 DEF Iterative!TypeOK
  <2>2. Iterative!TypeOK'
    BY <1>0, <1>4, <2>1 DEF Iterative!TypeOK, Iterative!Xfr
  <2>3. Iterative!Connections' /\ Iterative!OneAfterTheOther'
    BY <1>0, <1>4 DEF Iterative!Connections, Iterative!Copied, Iterative!OneAfterTheOther
  <2>4. v6 # <<>> => Iterative!Finished(v6[Len(v6)])
    <3>1. CASE Iterative!Copied(c) = 0
      BY <1>1, <3>1
    <3>2. CASE Iterative!Copied(c) # 0
      <4>1. Iterative!Copied(c) = v4[c].sent /\ v4[c].sent \in 1..Len(ItLengths)
        BY <1>0, <1>4, <3>2 DEF Iterative!Copied
      <4>2. v6[Len(v6)].from = c /\ v6[Len(v6)].n = v4[c].sent
        BY <1>0, <1>1, <3>2, <4>1, ItDatagram
      <4>3. v4[c].pc = "done" => v4[c].sent = Len(ItLengths)
        BY <1>0 DEF Iterative!Connections
      <4> QED
        BY <1>4, <4>2, <4>3 DEF Iterative!Finished
    <3> QED
      BY <3>1, <3>2
  <2>5. Iterative!EndOfOutput'
    BY <1>0, <1>4, <2>1, <2>4 DEF Iterative!EndOfOutput, Iterative!Finished
  <2>6. (v1 = "ud" => Iterative!Clear)' /\ Iterative!OneOnItsWay' /\ Iterative!AllAnswered' /\ Iterative!AnswersMatch'
    BY <1>0, <2>2, ItSameAnswers
  <2> QED
    BY <2>2, <2>3, <2>5, <2>6
<1> QED
  BY <1>3, <1>4 DEF Iterative!XfrCopy

\* recvfrom() takes the i-th of the datagrams.
LEMMA ItRemoved ==
  ASSUME NEW s \in Seq(Iterative!Datagrams), NEW i \in DOMAIN s
  PROVE  /\ Iterative!RemoveAt(s, i) \in Seq(Iterative!Datagrams)
         /\ \A k \in DOMAIN Iterative!RemoveAt(s, i) :
              \E l \in DOMAIN s : l # i /\ Iterative!RemoveAt(s, i)[k] = s[l] /\ l = (IF k < i THEN k ELSE k + 1)
<1> DEFINE a == SubSeq(s, 1, i - 1)
           b == SubSeq(s, i + 1, Len(s))
<1>0. Len(s) \in Nat /\ DOMAIN s = 1..Len(s) /\ i \in 1..Len(s)
  OBVIOUS
<1>1. a \in Seq(Iterative!Datagrams) /\ Len(a) = i - 1 /\ \A k \in 1..(i - 1) : a[k] = s[k]
  BY <1>0
<1>2. b \in Seq(Iterative!Datagrams) /\ Len(b) = Len(s) - i /\ \A k \in 1..(Len(s) - i) : b[k] = s[i + k]
  BY <1>0
<1>3. Iterative!RemoveAt(s, i) = a \o b
  BY DEF Iterative!RemoveAt
<1> HIDE DEF a, b
<1>4. a \o b \in Seq(Iterative!Datagrams) /\ DOMAIN (a \o b) = 1..(Len(s) - 1)
  <2>1. a \o b \in Seq(Iterative!Datagrams) /\ Len(a \o b) = Len(a) + Len(b)
    BY Zenon, <1>1, <1>2, ConcatProperties
  <2>2. Len(a \o b) = Len(s) - 1
    BY <1>0, <1>1, <1>2, <2>1
  <2> QED
    BY <2>1, <2>2
<1>5. ASSUME NEW k \in 1..(Len(s) - 1)
      PROVE  (a \o b)[k] = s[IF k < i THEN k ELSE k + 1]
  <2>1. CASE k < i
    BY <1>0, <1>1, <1>2, <2>1
  <2>2. CASE ~(k < i)
    <3>1. (a \o b)[k] = b[k - (i - 1)]
      BY <1>0, <1>1, <1>2, <2>2
    <3>2. k - (i - 1) \in 1..(Len(s) - i) /\ i + (k - (i - 1)) = k + 1
      BY <1>0, <2>2
    <3> QED
      BY Zenon, <1>2, <2>2, <3>1, <3>2
  <2> QED
    BY Zenon, <2>1, <2>2
<1>6. \A k \in 1..(Len(s) - 1) : (IF k < i THEN k ELSE k + 1) \in DOMAIN s /\ (IF k < i THEN k ELSE k + 1) # i
  BY <1>0
<1> QED
  BY Zenon, <1>3, <1>4, <1>5, <1>6

\* A message is taken from the socket.
LEMMA ItReceive ==
  ASSUME Iterative!IInv, v1' = v1, Iterative!Receive
  PROVE  Iterative!IInv'
<1> USE DEF Iterative!IInv
<1>0. ~Iterative!Xfr /\ v2.pc = "wait" /\ v4' = v4 /\ v5' = v5 /\ v6' = v6 /\ v7' = v7 /\ v3 \in Seq(Iterative!Datagrams)
  BY ItInbox DEF Iterative!Receive
<1>1. PICK i \in DOMAIN v3 :
        /\ v2' = [v2 EXCEPT !.pc = "answer", !.got = v3[i].from, !.msg = Iterative!Convert(v1, v3[i])]
        /\ v3' = Iterative!RemoveAt(v3, i)
  BY Zenon DEF Iterative!Receive
<1> DEFINE d == v3[i]
           m == Iterative!Convert(v1, d)
           c == d.from
<1>2. d \in Iterative!Datagrams /\ c \in ItClients /\ m \in Iterative!Datagrams
  BY <1>0, ItFrom, ItConvert
<1>3. v2' = [v2 EXCEPT !.pc = "answer", !.got = c, !.msg = m]
  BY <1>1
<1> HIDE DEF m, c
<1>4. DOMAIN v2' = {"pc", "got", "msg"} /\ v2'.pc = "answer" /\ v2'.got = c /\ v2'.msg = m
  BY <1>3 DEF Iterative!TypeOK
<1>5. v3' \in Seq(Iterative!Datagrams)
  BY <1>0, <1>1, ItRemoved
<1>6. \A k \in DOMAIN v3' : \E l \in DOMAIN v3 : l # i /\ v3'[k] = v3[l] /\ l = (IF k < i THEN k ELSE k + 1)
  BY <1>0, <1>1, ItRemoved
<1>7. Iterative!TypeOK'
  BY <1>0, <1>2, <1>4, <1>5 DEF Iterative!TypeOK, Iterative!Xfr
<1>8. Iterative!OneOnItsWay'
  <2> SUFFICES ASSUME Iterative!Clear PROVE Iterative!OneOnItsWay'
    BY <1>0 DEF Iterative!OneOnItsWay, Iterative!Clear
  <2>1. \A l \in DOMAIN v3 :
          /\ Iterative!Outstanding(v3[l].from) /\ v5[v3[l].from] = <<>>
          /\ v3[l] = Iterative!Datagram(v3[l].from, v4[v3[l].from].sent)
    BY <1>0 DEF Iterative!OneOnItsWay
  <2>2. \A l, k \in DOMAIN v3 : v3[l].from = v3[k].from => l = k
    BY <1>0 DEF Iterative!OneOnItsWay
  <2>3. \A k \in DOMAIN v3' :
          /\ v4[v3'[k].from].pc \in {"receive", "killed"} /\ v5[v3'[k].from] = <<>>
          /\ v3'[k] = Iterative!Datagram(v3'[k].from, v4[v3'[k].from].sent)
          /\ v3'[k].from # c
    BY <1>6, <2>1, <2>2 DEF Iterative!Outstanding, c
  <2>4. ASSUME NEW k \in DOMAIN v3', NEW j \in DOMAIN v3', v3'[k].from = v3'[j].from PROVE k = j
    <3>1. PICK l \in DOMAIN v3 : v3'[k] = v3[l] /\ l = (IF k < i THEN k ELSE k + 1)
      BY <1>6
    <3>2. PICK n \in DOMAIN v3 : v3'[j] = v3[n] /\ n = (IF j < i THEN j ELSE j + 1)
      BY <1>6
    <3>3. l = n
      BY <2>2, <2>4, <3>1, <3>2
    <3>4. k \in Nat /\ j \in Nat /\ i \in Nat
      BY <1>0, <1>5
    <3> QED
      BY <3>1, <3>2, <3>3, <3>4
  <2>5. /\ v4[c].pc \in {"receive", "killed"} /\ v5[c] = <<>>
        /\ m = Iterative!Convert(v1, Iterative!Datagram(c, v4[c].sent))
    BY <1>1, <2>1 DEF Iterative!Outstanding, c, m
  <2>6. \A x \in ItClients : v5[x] # <<>> =>
          v4[x].pc \in {"receive", "killed"} /\ v5[x] = <<Iterative!Convert(v1, Iterative!Datagram(x, v4[x].sent))>>
    BY <1>0 DEF Iterative!OneOnItsWay, Iterative!Outstanding
  <2> QED
    BY <1>0, <1>4, <2>3, <2>4, <2>5, <2>6 DEF Iterative!OneOnItsWay, Iterative!Outstanding
<1>9. (v1 = "ud" => Iterative!Clear)' /\ Iterative!AllAnswered' /\ Iterative!AnswersMatch'
  BY <1>0, <1>4 DEF Iterative!AllAnswered, Iterative!AnswersMatch, Iterative!Clear, Iterative!Xfr
<1> QED
  BY <1>0, <1>7, <1>8, <1>9, ItNotXfr

\* sendto(): the answer, which may find nobody.
LEMMA ItReply ==
  ASSUME Iterative!IInv, v1' = v1, Iterative!Reply
  PROVE  Iterative!IInv'
<1> USE DEF Iterative!IInv
<1> DEFINE c == v2.got
<1>0. /\ ~Iterative!Xfr /\ v2.pc = "answer" /\ v3' = v3 /\ v4' = v4 /\ v6' = v6 /\ v7' = v7 /\ v3 \in Seq(Iterative!Datagrams)
      /\ c \in ItClients /\ v2.msg \in Iterative!Datagrams /\ v5 \in [ItClients -> Seq(Iterative!Datagrams)]
  BY ItInbox DEF Iterative!Reply, Iterative!TypeOK
<1>1. /\ DOMAIN v2' = {"pc", "got", "msg"} /\ v2'.pc \in {"wait", "gone"}
      /\ v2'.pc = "gone" => v1 = "ud" /\ v4[c].pc \in {"done", "killed"}
      /\ v5' \in [ItClients -> Seq(Iterative!Datagrams)]
      /\ \/ v5' = v5
         \/ v5'[c] = Append(v5[c], v2.msg) /\ \A x \in ItClients : x # c => v5'[x] = v5[x]
  <2>1. CASE v4[c].pc \in {"done", "killed"}
    <3> DEFINE p == IF v1 = "ud" THEN "gone" ELSE "wait"
    <3>1. v2' = [v2 EXCEPT !.pc = p] /\ v5' = v5 /\ p \in {"wait", "gone"} /\ (p = "gone" => v1 = "ud")
      BY <2>1 DEF Iterative!Reply
    <3> HIDE DEF p
    <3> QED
      BY <1>0, <2>1, <3>1 DEF Iterative!TypeOK
  <2>2. CASE v4[c].pc \notin {"done", "killed"}
    <3>1. v2' = [v2 EXCEPT !.pc = "wait"] /\ v5' = [v5 EXCEPT ![c] = Append(@, v2.msg)]
      BY <2>2 DEF Iterative!Reply
    <3> QED
      BY <1>0, <3>1 DEF Iterative!TypeOK
  <2> QED
    BY <2>1, <2>2
<1>2. Iterative!TypeOK'
  BY <1>0, <1>1 DEF Iterative!TypeOK, Iterative!Xfr
<1>3. Iterative!OneOnItsWay'
  <2> SUFFICES ASSUME Iterative!Clear PROVE Iterative!OneOnItsWay'
    BY <1>0 DEF Iterative!OneOnItsWay, Iterative!Clear
  <2>1. /\ v4[c].pc \in {"receive", "killed"} /\ v5[c] = <<>>
        /\ v2.msg = Iterative!Convert(v1, Iterative!Datagram(c, v4[c].sent))
        /\ \A i \in DOMAIN v3 : v3[i].from # c
    BY <1>0 DEF Iterative!OneOnItsWay, Iterative!Outstanding
  <2>2. \A i \in DOMAIN v3 : v3[i].from \in ItClients
    BY <1>0, ItFrom
  <2>3. \A i \in DOMAIN v3 :
          /\ v4[v3[i].from].pc \in {"receive", "killed"} /\ v5[v3[i].from] = <<>>
          /\ v3[i] = Iterative!Datagram(v3[i].from, v4[v3[i].from].sent)
    BY <1>0 DEF Iterative!OneOnItsWay, Iterative!Outstanding
  <2>4. \A i \in DOMAIN v3 : v5'[v3[i].from] = <<>>
    BY <1>1, <2>1, <2>2, <2>3
  <2>5. ASSUME NEW x \in ItClients, v5'[x] # <<>>
        PROVE  v4[x].pc \in {"receive", "killed"} /\ v5'[x] = <<Iterative!Convert(v1, Iterative!Datagram(x, v4[x].sent))>>
    <3>1. CASE v5'[x] = v5[x]
      BY <1>0, <2>5, <3>1 DEF Iterative!OneOnItsWay, Iterative!Outstanding
    <3>2. CASE x = c /\ v5'[c] = Append(v5[c], v2.msg)
      BY <2>1, <3>2
    <3> QED
      BY <1>1, <3>1, <3>2
  <2>6. \A i, k \in DOMAIN v3 : v3[i].from = v3[k].from => i = k
    BY <1>0 DEF Iterative!OneOnItsWay
  <2> QED
    BY <1>0, <1>1, <2>3, <2>4, <2>5, <2>6 DEF Iterative!OneOnItsWay, Iterative!Outstanding
<1>4. (v1 = "ud" => Iterative!Clear)' /\ Iterative!AllAnswered'
  BY <1>0 DEF Iterative!AllAnswered, Iterative!Clear, Iterative!Xfr
<1>5. v2'.pc = "gone" => v1 = "ud" /\ v4[c].pc = "killed"
  BY <1>0, <1>1 DEF Iterative!OneOnItsWay, Iterative!Outstanding
<1>6. Iterative!AnswersMatch'
  BY <1>0, <1>5 DEF Iterative!AnswersMatch
<1> QED
  BY <1>0, <1>2, <1>3, <1>4, <1>6, ItNotXfr

\* A client prints the answer.
LEMMA ItReceiveAnswer ==
  ASSUME Iterative!IInv, v1' = v1, NEW c \in ItClients, Iterative!ReceiveAnswer(c)
  PROVE  Iterative!IInv'
<1> USE DEF Iterative!IInv
<1> DEFINE d == Iterative!Cut(Head(v5[c]))
           g == Append(v4[c].got, d)
<1>0. /\ ~Iterative!Xfr /\ v4[c].pc = "receive" /\ v5[c] # <<>> /\ v2' = v2 /\ v3' = v3 /\ v6' = v6 /\ v7' = v7
      /\ v3 \in Seq(Iterative!Datagrams) /\ v5 \in [ItClients -> Seq(Iterative!Datagrams)]
      /\ v4' = [v4 EXCEPT ![c].pc = "send", ![c].got = g] /\ v5' = [v5 EXCEPT ![c] = Tail(@)]
  BY ItInbox DEF Iterative!ReceiveAnswer, Iterative!TypeOK
<1>1. Head(v5[c]) \in Iterative!Datagrams /\ Tail(v5[c]) \in Seq(Iterative!Datagrams)
  BY <1>0
<1>2. d \in Iterative!Datagrams /\ v4[c].got \in Seq(Iterative!Datagrams)
  BY <1>1, ItConvert DEF Iterative!TypeOK
<1>3. g \in Seq(Iterative!Datagrams) /\ Len(g) = Len(v4[c].got) + 1 /\ DOMAIN g = 1..(Len(v4[c].got) + 1)
      /\ (\A j \in 1..Len(v4[c].got) : g[j] = v4[c].got[j]) /\ g[Len(v4[c].got) + 1] = d
      /\ Len(v4[c].got) \in Nat /\ DOMAIN v4[c].got = 1..Len(v4[c].got)
  BY <1>2
<1> HIDE DEF g
<1>4. /\ v4' \in [ItClients -> [pc : {"new", "send", "receive", "done", "failed", "killed"},
                          sent : 0..Len(ItLengths), got : Seq(Iterative!Datagrams)]]
      /\ \A x \in ItClients : v4'[x].sent = v4[x].sent
      /\ \A x \in ItClients : x # c => v4'[x].pc = v4[x].pc /\ v4'[x].got = v4[x].got
      /\ v4'[c].pc = "send" /\ v4'[c].got = g
  BY ZenonT(30), <1>0, <1>3 DEF Iterative!TypeOK
<1>5. /\ v5' \in [ItClients -> Seq(Iterative!Datagrams)] /\ v5'[c] = Tail(v5[c])
      /\ \A x \in ItClients : x # c => v5'[x] = v5[x]
  BY <1>0, <1>1
<1>6. Iterative!TypeOK'
  BY <1>0, <1>4, <1>5 DEF Iterative!TypeOK, Iterative!Xfr
<1>7. CASE ~Iterative!Clear
  BY <1>0, <1>4, <1>6, <1>7, ItNotXfr DEF Iterative!Clear, Iterative!OneOnItsWay, Iterative!AllAnswered, Iterative!AnswersMatch, Iterative!Xfr
<1>8. CASE Iterative!Clear
  <2>1. /\ \A i \in DOMAIN v3 :
             /\ v4[v3[i].from].pc \in {"receive", "killed"} /\ v5[v3[i].from] = <<>>
             /\ v3[i] = Iterative!Datagram(v3[i].from, v4[v3[i].from].sent)
        /\ \A i, k \in DOMAIN v3 : v3[i].from = v3[k].from => i = k
        /\ v2.pc = "answer" =>
             /\ v4[v2.got].pc \in {"receive", "killed"} /\ v5[v2.got] = <<>>
             /\ v2.msg = Iterative!Convert(v1, Iterative!Datagram(v2.got, v4[v2.got].sent))
             /\ \A i \in DOMAIN v3 : v3[i].from # v2.got
        /\ \A x \in ItClients : v5[x] # <<>> =>
             v4[x].pc \in {"receive", "killed"} /\ v5[x] = <<Iterative!Convert(v1, Iterative!Datagram(x, v4[x].sent))>>
    BY <1>0, <1>8 DEF Iterative!OneOnItsWay, Iterative!Outstanding
  <2> DEFINE n == v4[c].sent
             m == Iterative!Convert(v1, Iterative!Datagram(c, n))
  <2>2. v5[c] = <<m>> /\ v5'[c] = <<>> /\ Head(v5[c]) = m
    BY <1>0, <1>5, <2>1
  <2>3. Len(v4[c].got) + 1 = n /\ n \in 0..Len(ItLengths)
    BY <1>0, <1>8 DEF Iterative!AllAnswered, Iterative!TypeOK
  <2>4. n \in 1..Len(ItLengths)
    BY <1>3, <2>3
  <2>5. d = m
    BY <2>2, <2>4, ItDatagram, ItConvert
  <2>6. (\A i \in DOMAIN v3 : v3[i].from # c /\ v3[i].from \in ItClients) /\ (v2.pc = "answer" => v2.got # c /\ v2.got \in ItClients)
    BY <1>0, <2>1, ItFrom DEF Iterative!TypeOK
  <2>7. Iterative!OneOnItsWay'
    <3>1. \A i \in DOMAIN v3 :
             /\ v4'[v3[i].from].pc \in {"receive", "killed"} /\ v5'[v3[i].from] = <<>>
             /\ v3[i] = Iterative!Datagram(v3[i].from, v4'[v3[i].from].sent)
      BY ZenonT(30), <1>4, <1>5, <2>1, <2>6
    <3>2. v2.pc = "answer" =>
             /\ v4'[v2.got].pc \in {"receive", "killed"} /\ v5'[v2.got] = <<>>
             /\ v2.msg = Iterative!Convert(v1, Iterative!Datagram(v2.got, v4'[v2.got].sent))
      BY <1>4, <1>5, <2>1, <2>6
    <3>3. \A x \in ItClients : v5'[x] # <<>> =>
             v4'[x].pc \in {"receive", "killed"} /\ v5'[x] = <<Iterative!Convert(v1, Iterative!Datagram(x, v4'[x].sent))>>
      BY ZenonT(30), <1>4, <1>5, <2>1, <2>2
    <3> QED
      BY ZenonT(30), <1>0, <2>1, <3>1, <3>2, <3>3 DEF Iterative!OneOnItsWay, Iterative!Outstanding
  <2>8. Iterative!AllAnswered'
    BY <1>0, <1>3, <1>4, <1>8, <2>3 DEF Iterative!AllAnswered, Iterative!Clear, Iterative!Xfr
  <2>9. Iterative!AnswersMatch'
    <3>1. \A x \in ItClients : \A j \in DOMAIN v4[x].got : v4[x].got[j] = Iterative!Convert(v1, Iterative!Datagram(x, j))
      BY <1>8 DEF Iterative!AnswersMatch, Iterative!Clear
    <3>2. ASSUME NEW x \in ItClients, NEW j \in DOMAIN v4'[x].got
          PROVE  v4'[x].got[j] = Iterative!Convert(v1, Iterative!Datagram(x, j))
      <4>1. CASE x # c
        BY Zenon, <1>4, <3>1, <3>2, <4>1
      <4>2. CASE x = c /\ j = n
        BY <1>3, <1>4, <2>3, <2>5, <4>2
      <4>3. CASE x = c /\ j # n
        BY <1>3, <1>4, <2>3, <3>1, <3>2, <4>3
      <4> QED
        BY <4>1, <4>2, <4>3
    <3>3. v2.pc = "gone" => v1 = "ud" /\ \E x \in ItClients : v4[x].pc = "killed"
      BY DEF Iterative!AnswersMatch
    <3>4. \A x \in ItClients : v4[x].pc = "killed" => v4'[x].pc = "killed"
      BY <1>0, <1>4
    <3> QED
      <4>1. v2'.pc = "gone" => v1' = "ud" /\ \E x \in ItClients : v4'[x].pc = "killed"
        BY Zenon, <1>0, <3>3, <3>4
      <4> QED
        BY <3>2, <4>1 DEF Iterative!AnswersMatch
  <2> QED
    BY <1>0, <1>6, <2>7, <2>8, <2>9, ItNotXfr DEF Iterative!Clear
<1> QED
  BY <1>7, <1>8

\* A client sends a datagram, which may get lost or be delivered twice, or
\* ends.
LEMMA ItSendMessage ==
  ASSUME Iterative!IInv, v1' = v1, NEW c \in ItClients, Iterative!SendMessage(c)
  PROVE  Iterative!IInv'
<1> USE DEF Iterative!IInv
<1> DEFINE n == v4[c].sent + 1
           d == Iterative!Datagram(c, n)
<1>0. /\ ~Iterative!Xfr /\ v4[c].pc = "send" /\ v2' = v2 /\ v5' = v5 /\ v6' = v6
      /\ v3 \in Seq(Iterative!Datagrams) /\ v4[c].sent \in 0..Len(ItLengths) /\ Len(ItLengths) \in Nat
      /\ v7 \in Seq({"lost", "duplicate", "killed"}) /\ v5 \in [ItClients -> Seq(Iterative!Datagrams)]
  BY ItInbox, ItBounds, SMTT(20) DEF Iterative!SendMessage, Iterative!TypeOK
<1>a. ASSUME Iterative!Clear
      PROVE  /\ \A i \in DOMAIN v3 :
                  /\ v4[v3[i].from].pc \in {"receive", "killed"} /\ v5[v3[i].from] = <<>>
                  /\ v3[i] = Iterative!Datagram(v3[i].from, v4[v3[i].from].sent)
             /\ \A i, k \in DOMAIN v3 : v3[i].from = v3[k].from => i = k
             /\ v2.pc = "answer" =>
                  /\ v4[v2.got].pc \in {"receive", "killed"} /\ v5[v2.got] = <<>>
                  /\ v2.msg = Iterative!Convert(v1, Iterative!Datagram(v2.got, v4[v2.got].sent))
                  /\ \A i \in DOMAIN v3 : v3[i].from # v2.got
             /\ \A x \in ItClients : v5[x] # <<>> =>
                  v4[x].pc \in {"receive", "killed"} /\ v5[x] = <<Iterative!Convert(v1, Iterative!Datagram(x, v4[x].sent))>>
  BY <1>0, <1>a DEF Iterative!OneOnItsWay, Iterative!Outstanding
<1>b. (\A i \in DOMAIN v3 : v3[i].from \in ItClients) /\ (v2.pc = "answer" => v2.got \in ItClients)
  BY <1>0, ItFrom DEF Iterative!TypeOK
<1>1. CASE /\ v4[c].sent < Len(ItLengths) /\ v4' = [v4 EXCEPT ![c].pc = "receive", ![c].sent = @ + 1]
           /\ \/ v3' = Append(v3, d) /\ v7' = v7
              \/ Iterative!Udp /\ v3' = v3 /\ v7' = Append(v7, "lost")
              \/ Iterative!Udp /\ v3' = v3 \o <<d, d>> /\ v7' = Append(v7, "duplicate")
  <2>1. n \in 1..Len(ItLengths) /\ n \in 0..Len(ItLengths) /\ n = v4[c].sent + 1
    BY <1>0, <1>1
  <2>2. d \in Iterative!Datagrams /\ d.from = c
    BY <2>1, ItDatagram
  <2>3. v4' = [v4 EXCEPT ![c].pc = "receive", ![c].sent = n]
    BY <1>1
  <2> HIDE DEF n
  <2>4. /\ v4' \in [ItClients -> [pc : {"new", "send", "receive", "done", "failed", "killed"},
                          sent : 0..Len(ItLengths), got : Seq(Iterative!Datagrams)]]
        /\ \A x \in ItClients : v4'[x].got = v4[x].got
        /\ \A x \in ItClients : x # c => v4'[x].pc = v4[x].pc /\ v4'[x].sent = v4[x].sent
        /\ v4'[c].pc = "receive" /\ v4'[c].sent = n
    BY ZenonT(30), <2>1, <2>3 DEF Iterative!TypeOK
  <2> HIDE DEF d
  <2>5. v3' \in Seq(Iterative!Datagrams) /\ v7' \in Seq({"lost", "duplicate", "killed"})
    <3>1. <<d, d>> \in Seq(Iterative!Datagrams)
      BY <2>2
    <3>2. v3 \o <<d, d>> \in Seq(Iterative!Datagrams) /\ Append(v3, d) \in Seq(Iterative!Datagrams)
      BY <1>0, <2>2, <3>1, ConcatProperties
    <3>3. Append(v7, "lost") \in Seq({"lost", "duplicate", "killed"}) /\ Append(v7, "duplicate") \in Seq({"lost", "duplicate", "killed"})
      BY <1>0
    <3> QED
      BY Zenon, <1>0, <1>1, <3>2, <3>3
  <2>6. Iterative!TypeOK'
    BY <1>0, <2>4, <2>5 DEF Iterative!TypeOK, Iterative!Xfr
  <2>7. Iterative!Clear' => Iterative!Clear
    BY <1>1, ItClear
  <2>8. (v1 = "ud" => Iterative!Clear)'
    BY <1>1 DEF Iterative!Udp, Iterative!Clear
  <2>9. Iterative!Clear' => v3' = Append(v3, d) \/ v3' = v3
    <3>1. ASSUME v7' = Append(v7, "duplicate") PROVE ~Iterative!Clear'
      <4>1. Len(v7) + 1 \in DOMAIN v7' /\ v7'[Len(v7) + 1] = "duplicate"
        BY <1>0, <3>1
      <4> QED
        BY <4>1 DEF Iterative!Clear
    <3> QED
      BY <1>1, <3>1
  <2>10. Iterative!OneOnItsWay'
    <3> SUFFICES ASSUME Iterative!Clear' PROVE Iterative!OneOnItsWay'
      BY DEF Iterative!OneOnItsWay
    <3>0. Iterative!Clear /\ (v3' = Append(v3, d) \/ v3' = v3) /\ v5[c] = <<>>
      BY Zenon, <1>0, <1>a, <2>7, <2>9
    <3>1. (\A i \in DOMAIN v3 : v3[i].from # c) /\ (v2.pc = "answer" => v2.got # c)
      BY Zenon, <1>0, <1>a, <3>0
    <3>2. d = Iterative!Datagram(c, v4'[c].sent)
      BY <2>4 DEF d
    <3>3. \A i \in DOMAIN v3' : (i \in DOMAIN v3 /\ v3'[i] = v3[i]) \/ (i = Len(v3) + 1 /\ v3'[i] = d)
      <4>1. CASE v3' = Append(v3, d)
        <5>1. DOMAIN v3' = 1..(Len(v3) + 1) /\ DOMAIN v3 = 1..Len(v3) /\ Len(v3) \in Nat
          BY <1>0, <2>2, <4>1
        <5>2. (\A i \in 1..Len(v3) : v3'[i] = v3[i]) /\ v3'[Len(v3) + 1] = d
          BY <1>0, <2>2, <4>1
        <5> QED
          BY <5>1, <5>2
      <4> QED
        BY <3>0, <4>1
    <3>4. \A i \in DOMAIN v3' :
            /\ v4'[v3'[i].from].pc \in {"receive", "killed"} /\ v5[v3'[i].from] = <<>>
            /\ v3'[i] = Iterative!Datagram(v3'[i].from, v4'[v3'[i].from].sent)
            /\ v2.pc = "answer" => v3'[i].from # v2.got
      <4> SUFFICES ASSUME NEW i \in DOMAIN v3'
                   PROVE  /\ v4'[v3'[i].from].pc \in {"receive", "killed"} /\ v5[v3'[i].from] = <<>>
                          /\ v3'[i] = Iterative!Datagram(v3'[i].from, v4'[v3'[i].from].sent)
                          /\ v2.pc = "answer" => v3'[i].from # v2.got
        OBVIOUS
      <4>1. CASE i \in DOMAIN v3 /\ v3'[i] = v3[i]
        BY <1>a, <1>b, <2>4, <3>0, <3>1, <4>1, SMTT(20)
      <4>2. CASE v3'[i] = d
        BY <2>2, <2>4, <3>0, <3>1, <3>2, <4>2
      <4> QED
        BY <3>3, <4>1, <4>2
    <3>5. \A i, k \in DOMAIN v3' : v3'[i].from = v3'[k].from => i = k
      BY <1>a, <2>2, <3>0, <3>1, <3>3
    <3>6. v2.pc = "answer" =>
             /\ v4'[v2.got].pc \in {"receive", "killed"} /\ v5[v2.got] = <<>>
             /\ v2.msg = Iterative!Convert(v1, Iterative!Datagram(v2.got, v4'[v2.got].sent))
      BY <1>a, <1>b, <2>4, <3>0, <3>1
    <3>7. \A x \in ItClients : v5[x] # <<>> =>
             v4'[x].pc \in {"receive", "killed"} /\ v5[x] = <<Iterative!Convert(v1, Iterative!Datagram(x, v4'[x].sent))>>
      BY Zenon, <1>a, <2>4, <3>0
    <3> QED
      BY <1>0, <3>4, <3>5, <3>6, <3>7 DEF Iterative!OneOnItsWay, Iterative!Outstanding
  <2>11. Iterative!AllAnswered'
    BY Zenon, <1>0, <2>1, <2>4, <2>7 DEF Iterative!AllAnswered
  <2>12. Iterative!AnswersMatch'
    <3>1. Iterative!Clear' => \A x \in ItClients : \A j \in DOMAIN v4'[x].got : v4'[x].got[j] = Iterative!Convert(v1', Iterative!Datagram(x, j))
      BY <2>4, <2>7 DEF Iterative!AnswersMatch, Iterative!Clear
    <3>2. v2'.pc = "gone" => v1' = "ud" /\ \E x \in ItClients : v4'[x].pc = "killed"
      BY Zenon, <1>0, <2>4 DEF Iterative!AnswersMatch
    <3> QED
      BY <3>1, <3>2 DEF Iterative!AnswersMatch, Iterative!Clear
  <2> QED
    BY <1>0, <2>6, <2>8, <2>10, <2>11, <2>12, ItNotXfr
<1>2. CASE v3' = v3 /\ v7' = v7 /\ (v4' = [v4 EXCEPT ![c].pc = "failed"] \/ v4' = [v4 EXCEPT ![c].pc = "done"])
  <2>1. PICK p \in {"new", "send", "receive", "done", "failed", "killed"} : p \in {"failed", "done"} /\ v4' = [v4 EXCEPT ![c].pc = p]
    BY <1>2
  <2>2. /\ v4' \in [ItClients -> [pc : {"new", "send", "receive", "done", "failed", "killed"},
                          sent : 0..Len(ItLengths), got : Seq(Iterative!Datagrams)]]
        /\ \A x \in ItClients : v4'[x].got = v4[x].got /\ v4'[x].sent = v4[x].sent
        /\ \A x \in ItClients : x # c => v4'[x].pc = v4[x].pc
        /\ v4'[c].pc \in {"failed", "done"}
    BY Zenon, <2>1, ItGo
  <2>3. Iterative!TypeOK'
    BY <1>0, <1>2, <2>2 DEF Iterative!TypeOK, Iterative!Xfr
  <2>4. (v1 = "ud" => Iterative!Clear)' /\ (Iterative!Clear' <=> Iterative!Clear)
    BY <1>2 DEF Iterative!Clear
  <2>5. Iterative!OneOnItsWay'
    <3> SUFFICES ASSUME Iterative!Clear PROVE Iterative!OneOnItsWay'
      BY <2>4 DEF Iterative!OneOnItsWay
    <3>1. (\A i \in DOMAIN v3 : v3[i].from # c) /\ (v2.pc = "answer" => v2.got # c) /\ v5[c] = <<>>
      BY Zenon, <1>0, <1>a
    <3>2. \A i \in DOMAIN v3 :
             /\ v4'[v3[i].from].pc \in {"receive", "killed"} /\ v5[v3[i].from] = <<>>
             /\ v3[i] = Iterative!Datagram(v3[i].from, v4'[v3[i].from].sent)
      BY <1>a, <1>b, <2>2, <3>1
    <3>3. v2.pc = "answer" =>
             /\ v4'[v2.got].pc \in {"receive", "killed"} /\ v5[v2.got] = <<>>
             /\ v2.msg = Iterative!Convert(v1, Iterative!Datagram(v2.got, v4'[v2.got].sent))
      BY <1>a, <1>b, <2>2, <3>1
    <3>4. \A x \in ItClients : v5[x] # <<>> =>
             v4'[x].pc \in {"receive", "killed"} /\ v5[x] = <<Iterative!Convert(v1, Iterative!Datagram(x, v4'[x].sent))>>
      BY Zenon, <1>a, <2>2, <3>1
    <3> QED
      BY <1>0, <1>2, <1>a, <3>2, <3>3, <3>4 DEF Iterative!OneOnItsWay, Iterative!Outstanding
  <2>6. Iterative!AllAnswered'
    BY Zenon, <1>0, <2>2, <2>4 DEF Iterative!AllAnswered
  <2>7. Iterative!AnswersMatch'
    <3>1. Iterative!Clear' => \A x \in ItClients : \A j \in DOMAIN v4'[x].got : v4'[x].got[j] = Iterative!Convert(v1', Iterative!Datagram(x, j))
      BY <2>2, <2>4 DEF Iterative!AnswersMatch, Iterative!Clear
    <3>2. v2'.pc = "gone" => v1' = "ud" /\ \E x \in ItClients : v4'[x].pc = "killed"
      BY Zenon, <1>0, <2>2 DEF Iterative!AnswersMatch
    <3> QED
      BY <3>1, <3>2 DEF Iterative!AnswersMatch, Iterative!Clear
  <2> QED
    BY <1>0, <2>3, <2>4, <2>5, <2>6, <2>7, ItNotXfr
<1> QED
  BY Zenon, <1>1, <1>2 DEF Iterative!SendMessage, Iterative!Fault

\* A client is killed: nothing is sent or printed.
LEMMA ItKill ==
  ASSUME Iterative!IInv, v1' = v1, NEW c \in ItClients, Iterative!Kill(c)
  PROVE  Iterative!IInv'
<1> USE DEF Iterative!IInv
<1>0. /\ v4[c].pc \in {"send", "receive"} /\ v7' = Append(v7, "killed") /\ v4' = [v4 EXCEPT ![c].pc = "killed"]
      /\ v2' = v2 /\ v3' = v3 /\ v5' = v5 /\ v6' = v6 /\ (Iterative!Xfr' <=> Iterative!Xfr)
      /\ v6 \in Seq(Iterative!Datagrams) /\ v7 \in Seq({"lost", "duplicate", "killed"})
  BY DEF Iterative!Kill, Iterative!Fault, Iterative!Xfr, Iterative!TypeOK
<1>1. /\ v4' \in [ItClients -> [pc : {"new", "send", "receive", "done", "failed", "killed"},
                          sent : 0..Len(ItLengths), got : Seq(Iterative!Datagrams)]]
      /\ \A x \in ItClients : v4'[x].got = v4[x].got /\ v4'[x].sent = v4[x].sent
      /\ \A x \in ItClients : x # c => v4'[x].pc = v4[x].pc
      /\ v4'[c].pc = "killed"
  <2> "killed" \in {"new", "send", "receive", "done", "failed", "killed"}
    OBVIOUS
  <2> QED
    BY Zenon, <1>0, ItGo
<1>2. v7' \in Seq({"lost", "duplicate", "killed"})
  BY <1>0
<1>3. Iterative!TypeOK'
  BY Zenon, <1>0, <1>1, <1>2 DEF Iterative!TypeOK, Iterative!Xfr
<1>4. Iterative!Clear' => Iterative!Clear
  BY <1>0, ItClear
<1>5. (v1 = "ud" => Iterative!Clear)'
  <2>1. ASSUME Iterative!Clear PROVE Iterative!Clear'
    <3>1. \A i \in DOMAIN v7' : (i \in DOMAIN v7 /\ v7'[i] = v7[i]) \/ v7'[i] = "killed"
      BY <1>0
    <3> QED
      BY <2>1, <3>1 DEF Iterative!Clear
  <2> QED
    BY <2>1
<1>6. \A x \in ItClients : (v4'[x].pc = "new" => v4[x].pc = "new") /\ (v4[x].pc = "killed" => v4'[x].pc = "killed")
        /\ (v4'[x].pc = "done" => v4[x].pc = "done") /\ (Iterative!Outstanding(x) => v4'[x].pc \in {"receive", "killed"})
  BY <1>0, <1>1 DEF Iterative!Outstanding
<1>7. Iterative!AnswersMatch'
  <2>1. Iterative!Clear' => \A x \in ItClients : \A j \in DOMAIN v4'[x].got : v4'[x].got[j] = Iterative!Convert(v1', Iterative!Datagram(x, j))
    <3>1. Iterative!Clear => \A x \in ItClients : \A j \in DOMAIN v4[x].got : v4[x].got[j] = Iterative!Convert(v1, Iterative!Datagram(x, j))
      BY DEF Iterative!AnswersMatch, Iterative!Clear
    <3> QED
      BY Zenon, <1>1, <1>4, <3>1
  <2>2. v2'.pc = "gone" => v1' = "ud" /\ \E x \in ItClients : v4'[x].pc = "killed"
    BY <1>0, <1>6 DEF Iterative!AnswersMatch
  <2> QED
    BY <2>1, <2>2 DEF Iterative!AnswersMatch, Iterative!Clear
<1>8. CASE ~Iterative!Xfr
  <2>1. (\A i \in DOMAIN v3 : v3[i].from \in ItClients) /\ (v2.pc = "answer" => v2.got \in ItClients)
    BY <1>8, ItInbox, ItFrom DEF Iterative!TypeOK
  <2>2. Iterative!OneOnItsWay'
    <3> SUFFICES ASSUME Iterative!Clear PROVE Iterative!OneOnItsWay'
      BY <1>4 DEF Iterative!OneOnItsWay
    <3>1. \A i \in DOMAIN v3 :
             /\ v4'[v3[i].from].pc \in {"receive", "killed"} /\ v5[v3[i].from] = <<>>
             /\ v3[i] = Iterative!Datagram(v3[i].from, v4'[v3[i].from].sent)
      BY <1>1, <1>6, <1>8, <2>1 DEF Iterative!OneOnItsWay
    <3>2. v2.pc = "answer" =>
             /\ v4'[v2.got].pc \in {"receive", "killed"} /\ v5[v2.got] = <<>>
             /\ v2.msg = Iterative!Convert(v1, Iterative!Datagram(v2.got, v4'[v2.got].sent))
             /\ \A i \in DOMAIN v3 : v3[i].from # v2.got
      BY <1>1, <1>6, <1>8, <2>1 DEF Iterative!OneOnItsWay
    <3>3. \A x \in ItClients : v5[x] # <<>> =>
             v4'[x].pc \in {"receive", "killed"} /\ v5[x] = <<Iterative!Convert(v1, Iterative!Datagram(x, v4'[x].sent))>>
      BY <1>1, <1>6, <1>8 DEF Iterative!OneOnItsWay
    <3>4. \A i, k \in DOMAIN v3 : v3[i].from = v3[k].from => i = k
      BY <1>8 DEF Iterative!OneOnItsWay
    <3> QED
      BY <1>0, <3>1, <3>2, <3>3, <3>4 DEF Iterative!OneOnItsWay, Iterative!Outstanding
  <2>3. Iterative!AllAnswered'
    BY <1>0, <1>1, <1>4, <1>8 DEF Iterative!AllAnswered
  <2> QED
    BY <1>3, <1>5, <1>7, <1>8, <2>2, <2>3, ItNotXfr
<1>9. CASE Iterative!Xfr
  <2>1. (\A i \in DOMAIN v3 : v3[i] \in ItClients) /\ (\A k \in DOMAIN v6 : v6[k].from \in ItClients)
        /\ (\A i \in 1..(Len(v6) - 1) : v6[i].from \in ItClients)
    BY <1>0, <1>9, ItInbox, ItFrom
  <2>2. \A x \in ItClients : Iterative!Copied(x)' = Iterative!Copied(x)
    BY <1>0, <1>1 DEF Iterative!Copied
  <2>3. Iterative!Connections'
    <3>1. \A y \in ItClients :
               /\ Len(v5'[y]) <= v4'[y].sent
               /\ \A k \in DOMAIN v5'[y] : v5'[y][k] = Iterative!Datagram(y, Iterative!Copied(y)' + k)
               /\ v4'[y].pc = "done" => v4'[y].sent = Len(ItLengths)
               /\ v4'[y].pc = "new" => v4'[y].sent = 0
      BY <1>0, <1>1, <1>6, <1>9, <2>2 DEF Iterative!Connections
    <3>2. \A i \in DOMAIN v3' :
          /\ v4'[v3'[i]].pc # "new" /\ Iterative!Copied(v3[i])' = 0
          /\ \A k \in DOMAIN v3' : v3'[k] = v3'[i] => k = i
          /\ \A k \in DOMAIN v6' : v6'[k].from # v3'[i]
      <4> SUFFICES ASSUME NEW i \in DOMAIN v3, NEW y, y = v3[i]
                   PROVE  /\ v4'[y].pc # "new" /\ v4'[y].sent - Len(v5'[y]) = 0
                          /\ \A k \in DOMAIN v3 : v3[k] = y => k = i
                          /\ \A k \in DOMAIN v6 : v6[k].from # y
        BY <1>0 DEF Iterative!Copied
      <4>1. v4[y].pc # "new" /\ Iterative!Copied(y) = 0 /\ (\A k \in DOMAIN v3 : v3[k] = y => k = i)
            /\ \A k \in DOMAIN v6 : v6[k].from # y
        BY <1>9 DEF Iterative!Connections
      <4>2. v4'[y].sent - Len(v5'[y]) = 0
        BY <2>1, <2>2, <4>1 DEF Iterative!Copied
      <4> QED
        BY <1>6, <2>1, <4>1, <4>2
    <3>3. \A k \in DOMAIN v6' : v4'[v6'[k].from].pc # "new"
      BY <1>0, <1>6, <1>9, <2>1 DEF Iterative!Connections
    <3> QED
      BY <3>1, <3>2, <3>3 DEF Iterative!Connections
  <2>4. v6 # <<>> => (Iterative!Finished(v6[Len(v6)]) => Iterative!Finished(v6[Len(v6)])')
    <3>1. v6 # <<>> => Len(v6) \in DOMAIN v6
      BY <1>0
    <3> QED
      BY <1>0, <1>6, <2>1, <3>1 DEF Iterative!Finished
  <2>5. Iterative!EndOfOutput'
    <3>1. CASE v2.pc = "copy"
      <4> DEFINE x == v2.got
      <4>1. x \in ItClients
        BY <3>1 DEF Iterative!TypeOK
      <4>2. Iterative!Copied(x)' = v4'[x].sent - Len(v5'[x]) /\ v4'[x].sent - Len(v5'[x]) = Iterative!Copied(x)
        BY <1>0, <2>2, <4>1 DEF Iterative!Copied
      <4> QED
        BY <1>0, <1>6, <1>9, <2>4, <3>1, <4>1, <4>2 DEF Iterative!EndOfOutput
    <3>2. CASE v2.pc # "copy"
      BY <1>0, <1>9, <2>4, <3>2 DEF Iterative!EndOfOutput
    <3> QED
      BY <3>1, <3>2
  <2>6. Iterative!OneAfterTheOther'
    BY <1>0, <1>6, <1>9, <2>1 DEF Iterative!OneAfterTheOther
  <2>7. Iterative!OneOnItsWay' /\ Iterative!AllAnswered'
    BY <1>0, <1>9 DEF Iterative!OneOnItsWay, Iterative!AllAnswered
  <2> QED
    BY <1>3, <1>5, <1>7, <2>3, <2>5, <2>6, <2>7
<1> QED
  BY <1>8, <1>9

LEMMA ItNext == Iterative!IInv /\ [Iterative!Next]_Iterative!vars => Iterative!IInv'
<1> SUFFICES ASSUME Iterative!IInv, [Iterative!Next]_Iterative!vars PROVE Iterative!IInv'
  OBVIOUS
<1>1. CASE UNCHANGED Iterative!vars
  BY <1>1, SMTT(30) DEF Iterative!vars, Iterative!IInv, Iterative!TypeOK, Iterative!Xfr, Iterative!Clear, Iterative!OneOnItsWay,
       Iterative!Outstanding, Iterative!AllAnswered, Iterative!Connections, Iterative!Copied, Iterative!EndOfOutput,
       Iterative!Finished, Iterative!AnswersMatch, Iterative!OneAfterTheOther
<1>2. CASE v1' = v1 /\ (Iterative!XfrAccept \/ Iterative!XfrCopy \/ Iterative!Receive \/ Iterative!Reply)
  BY <1>2, ItAccept, ItXfrCopy, ItReceive, ItReply
<1>3. CASE v1' = v1 /\ \E c \in ItClients : \/ Iterative!Start(c) \/ Iterative!XfrSend(c) \/ Iterative!SendMessage(c)
                                            \/ Iterative!ReceiveAnswer(c) \/ Iterative!Kill(c)
  BY <1>3, ItStart, ItXfrSend, ItSendMessage, ItReceiveAnswer, ItKill
<1>4. Iterative!Next => v1' = v1
  BY DEF Iterative!Next
<1> QED
  BY <1>1, <1>2, <1>3, <1>4 DEF Iterative!Next, Iterative!us_xfr_sv, Iterative!us_xfr_v2_sv, Iterative!ud_ucase_sv, Iterative!i6d_ucase_sv, Iterative!id_echo_sv,
       Iterative!us_xfr_cl, Iterative!us_xfr_v2_cl, Iterative!ud_ucase_cl, Iterative!i6d_ucase_cl, Iterative!id_echo_cl

LEMMA ItSafe == Iterative!IInv => Iterative!AnswersMatch /\ Iterative!OneAfterTheOther
BY DEF Iterative!IInv
-----------------------------------------------------------------------------
(* ForkingServers.                                                         *)

LEMMA FkInit == Forking!Init => Forking!IInv
<1> SUFFICES ASSUME Forking!Init PROVE Forking!IInv
  OBVIOUS
<1> USE DEF Forking!Init
<1>1. Forking!TypeOK
  <2>1. v2 \in Forking!Parents /\ v2.pc = "wait"
    BY DEF Forking!Parents
  <2>2. v3 \in [FkClients -> Forking!Children]
    BY FkBounds DEF Forking!Children
  <2>3. v5 \in [FkClients -> Forking!Connections]
    BY DEF Forking!Connections
  <2>4. v6 \in [FkClients -> Forking!Users]
    BY FkBounds DEF Forking!Users
  <2> QED
    BY Zenon, <2>1, <2>2, <2>3, <2>4 DEF Forking!TypeOK
<1>2. Forking!InLine
  BY DEF Forking!InLine
<1>3. \A c \in FkClients : Forking!HeldBy(c)
  BY DEF Forking!HeldBy
<1>4. ASSUME NEW c \in FkClients PROVE Forking!Transfer(c)
  <2>1. v5[c].up = <<>> /\ v5[c].down = <<>> /\ v5[c].eof = FALSE /\ v6[c].got = <<>> /\ v6[c].sent = 0 /\ v6[c].pc = "new" /\ v3[c].pc = "none"
    OBVIOUS
  <2> QED
    BY <2>1, FkBounds DEF Forking!Transfer, Forking!EchoTransfer, Forking!FileTransfer, Forking!Dead, Forking!Got,
                          Forking!Down, Forking!Up, Forking!SentAfter
<1> QED
  BY <1>1, <1>2, <1>3, <1>4 DEF Forking!IInv

\* What a step leaves alone: the transfer of client x,
LEMMA FkTransferSame ==
  ASSUME NEW x \in FkClients, v1' = v1, Forking!Transfer(x),
         v3'[x] = v3[x] \/ (v3[x].pc = "zombie" /\ v3'[x].pc = "reaped")
           \/ (v3[x].pc = "none" /\ v3'[x].pc = "read" /\ v3'[x].at = 0),
         v5'[x].up = v5[x].up, v5'[x].down = v5[x].down, v5'[x].eof = v5[x].eof,
         v1 = "file" /\ "queue" \in v5[x].held => "queue" \in v5'[x].held,
         v6'[x].got = v6[x].got, v6'[x].sent = v6[x].sent,
         v6'[x].pc = v6[x].pc \/ v6'[x].pc # "done",
         v1 = "file" /\ v6[x].pc = "new" /\ v6'[x].pc # "new" => "queue" \in v5'[x].held,
         v2'.faults = 0 => v2.faults = 0
  PROVE  Forking!Transfer(x)'
<1>1. Forking!Dead(x)' <=> Forking!Dead(x)
  BY DEF Forking!Dead
<1>2. Forking!Echo => Forking!EchoTransfer(x)'
  <2>1. Forking!Echo => Forking!EchoTransfer(x)
    BY DEF Forking!Transfer
  <2> QED
    BY Zenon, <1>1, <2>1 DEF Forking!EchoTransfer, Forking!Dead, Forking!Got, Forking!Down, Forking!Up, Forking!SentAfter
<1>3. v1 = "file" => Forking!FileTransfer(x)'
  <2>1. v1 = "file" => Forking!FileTransfer(x)
    BY DEF Forking!Transfer
  <2> QED
    BY Zenon, <1>1, <2>1 DEF Forking!FileTransfer, Forking!Dead, Forking!Got, Forking!Down
<1> QED
  BY <1>2, <1>3 DEF Forking!Transfer, Forking!Echo, Forking!Got

\* who holds its connection,
LEMMA FkHeldSame ==
  ASSUME NEW x \in FkClients, Forking!HeldBy(x), v2.faults \in Nat,
         v3'[x].pc = v3[x].pc \/ (v3[x].pc \in {"read", "write"} /\ v3'[x].pc \in {"read", "write"})
           \/ (v3[x].pc = "zombie" /\ v3'[x].pc = "reaped"),
         v5'[x].held = v5[x].held, v6'[x].pc = "new" <=> v6[x].pc = "new",
         v2'.pc = v2.pc, v2'.client = v2.client, v2'.faults = v2.faults \/ v2'.faults = v2.faults + 1
  PROVE  Forking!HeldBy(x)'
BY DEF Forking!HeldBy

\* and the requests that wait.
LEMMA FkInLineSame ==
  ASSUME Forking!InLine, Forking!TypeOK, v2'.queue = v2.queue, v2'.pc = v2.pc, v2'.client = v2.client,
         \A x \in FkClients : /\ v6'[x].pc = "new" <=> v6[x].pc = "new"
                              /\ v3'[x].pc = "none" <=> v3[x].pc = "none"
  PROVE  Forking!InLine'
<1>1. \A i \in DOMAIN v2.queue : v2.queue[i] \in FkClients
  BY DEF Forking!TypeOK, Forking!Parents
<1>2. v2.pc = "fork" => v2.client \in FkClients
  BY DEF Forking!TypeOK
<1> QED
  BY <1>1, <1>2 DEF Forking!InLine, Forking!ToBeServed

\* A fault is counted.
LEMMA FkFault ==
  ASSUME Forking!TypeOK, v2' = [v2 EXCEPT !.faults = @ + 1]
  PROVE  /\ v2' \in Forking!Parents /\ v2'.pc = v2.pc /\ v2'.client = v2.client /\ v2'.queue = v2.queue
         /\ v2'.faults = v2.faults + 1 /\ v2.faults \in Nat /\ v2'.faults # 0
<1> DEFINE n == v2.faults + 1
<1>1. v2.faults \in Nat /\ n \in Nat /\ n # 0
  BY DEF Forking!TypeOK, Forking!Parents
<1>2. v2' = [v2 EXCEPT !.faults = n]
  OBVIOUS
<1> HIDE DEF n
<1>3. v2' \in Forking!Parents /\ v2'.pc = v2.pc /\ v2'.client = v2.client /\ v2'.queue = v2.queue /\ v2'.faults = n
  BY <1>1, <1>2 DEF Forking!TypeOK, Forking!Parents
<1> QED
  BY <1>1, <1>3 DEF n

\* The child of client c goes on to p.
LEMMA FkChildGoes ==
  ASSUME Forking!TypeOK, NEW c \in FkClients, NEW p \in {"none", "read", "write", "end", "zombie", "reaped"},
         v3' = [v3 EXCEPT ![c].pc = p]
  PROVE  /\ v3' \in [FkClients -> Forking!Children]
         /\ v3'[c].pc = p /\ v3'[c].at = v3[c].at /\ v3'[c].buf = v3[c].buf
         /\ \A x \in FkClients : x # c => v3'[x] = v3[x]
BY DEF Forking!TypeOK, Forking!Children

\* The queue of requests, and what of it the parent takes.
LEMMA FkQueue ==
  ASSUME Forking!TypeOK
  PROVE  /\ v2.queue \in Seq(FkClients) /\ Len(v2.queue) \in Nat /\ DOMAIN v2.queue = 1..Len(v2.queue)
         /\ \A i \in DOMAIN v2.queue : v2.queue[i] \in FkClients
         /\ v2.faults \in Nat /\ DOMAIN v2 = {"pc", "client", "queue", "faults"}
BY DEF Forking!TypeOK, Forking!Parents

LEMMA FkAsk ==
  ASSUME Forking!IInv, v1' = v1, NEW c \in FkClients, Forking!Ask(c)
  PROVE  Forking!IInv'
<1> USE DEF Forking!IInv
<1> DEFINE q == Append(v2.queue, c)
           p == IF Forking!Echo THEN "send" ELSE "wait"
<1>0. /\ v6[c].pc = "new" /\ v2.pc # "gone" /\ v3' = v3 /\ v4' = v4
      /\ v2' = [v2 EXCEPT !.queue = q] /\ v6' = [v6 EXCEPT ![c].pc = p] /\ v5' = [v5 EXCEPT ![c].held = {"queue"}]
  BY DEF Forking!Ask
<1>1. q \in Seq(FkClients) /\ DOMAIN q = 1..(Len(v2.queue) + 1) /\ (\A i \in 1..Len(v2.queue) : q[i] = v2.queue[i])
      /\ q[Len(v2.queue) + 1] = c
  BY FkQueue
<1>2. p \in {"send", "wait"} /\ (Forking!Echo' <=> Forking!Echo)
  BY DEF Forking!Echo
<1> HIDE DEF q, p
<1>3. v2' \in Forking!Parents /\ v2'.pc = v2.pc /\ v2'.client = v2.client /\ v2'.queue = q /\ v2'.faults = v2.faults
  BY Zenon, <1>0, <1>1 DEF Forking!TypeOK, Forking!Parents
<1>4. /\ v6' \in [FkClients -> Forking!Users] /\ (\A x \in FkClients : x # c => v6'[x] = v6[x])
      /\ v6'[c].pc = p /\ v6'[c].got = v6[c].got /\ v6'[c].sent = v6[c].sent
  BY Zenon, <1>0, <1>2 DEF Forking!TypeOK, Forking!Users
<1>5. /\ v5' \in [FkClients -> Forking!Connections] /\ (\A x \in FkClients : x # c => v5'[x] = v5[x])
      /\ v5'[c].held = {"queue"} /\ v5'[c].up = v5[c].up /\ v5'[c].down = v5[c].down /\ v5'[c].eof = v5[c].eof
  BY Zenon, <1>0 DEF Forking!TypeOK, Forking!Connections
<1>6. Forking!TypeOK'
  BY <1>0, <1>3, <1>4, <1>5 DEF Forking!TypeOK
<1>7. v3[c].pc = "none" /\ ~(v2.pc = "fork" /\ v2.client = c) /\ \A i \in DOMAIN v2.queue : v2.queue[i] # c
  BY <1>0 DEF Forking!InLine, Forking!ToBeServed
<1>8. Forking!InLine'
  <2>1. \A i \in DOMAIN q : v6'[q[i]].pc # "new" /\ v3[q[i]].pc = "none" /\ \A k \in DOMAIN q : q[k] = q[i] => k = i
    <3> SUFFICES ASSUME NEW i \in DOMAIN q
                 PROVE  v6'[q[i]].pc # "new" /\ v3[q[i]].pc = "none" /\ \A k \in DOMAIN q : q[k] = q[i] => k = i
      OBVIOUS
    <3>1. CASE i = Len(v2.queue) + 1
      BY <1>1, <1>2, <1>4, <1>7, <3>1, FkQueue
    <3>2. CASE i \in 1..Len(v2.queue)
      <4>1. q[i] = v2.queue[i] /\ i \in DOMAIN v2.queue /\ q[i] # c /\ q[i] \in FkClients
        BY <1>1, <1>7, <3>2, FkQueue
      <4>2. v6[q[i]].pc # "new" /\ v3[q[i]].pc = "none" /\ \A k \in DOMAIN v2.queue : v2.queue[k] = q[i] => k = i
        BY <4>1 DEF Forking!InLine, Forking!ToBeServed
      <4> QED
        <5>1. \A k \in DOMAIN q : k = Len(v2.queue) + 1 \/ (k \in DOMAIN v2.queue /\ q[k] = v2.queue[k])
          BY <1>1, FkQueue
        <5>2. \A k \in DOMAIN q : q[k] = q[i] => k = i
          BY <1>1, <4>1, <4>2, <5>1
        <5> QED
          BY <1>4, <4>1, <4>2, <5>2
    <3> QED
      BY <1>1, <3>1, <3>2, FkQueue
  <2>2. v2.pc = "fork" => v6'[v2.client].pc # "new" /\ v3[v2.client].pc = "none" /\ \A i \in DOMAIN q : q[i] # v2.client
    <3> SUFFICES ASSUME v2.pc = "fork" PROVE v6'[v2.client].pc # "new" /\ v3[v2.client].pc = "none" /\ \A i \in DOMAIN q : q[i] # v2.client
      OBVIOUS
    <3>1. v2.client \in FkClients /\ v2.client # c
      BY <1>7 DEF Forking!TypeOK
    <3>2. v6[v2.client].pc # "new" /\ v3[v2.client].pc = "none" /\ \A i \in DOMAIN v2.queue : v2.queue[i] # v2.client
      BY DEF Forking!InLine, Forking!ToBeServed
    <3> QED
      BY <1>1, <1>4, <3>1, <3>2, FkQueue
  <2>3. \A x \in FkClients : v6'[x].pc = "new" => v3[x].pc = "none"
    BY <1>4, <1>7 DEF Forking!InLine
  <2> QED
    BY <1>0, <1>3, <2>1, <2>2, <2>3 DEF Forking!InLine, Forking!ToBeServed
<1>9. ASSUME Forking!Echo, NEW x \in FkClients PROVE Forking!HeldBy(x)'
  <2>1. CASE x = c
    BY <1>0, <1>3, <1>5, <1>7, <1>9, <2>1 DEF Forking!HeldBy
  <2>2. CASE x # c
    BY <1>0, <1>3, <1>4, <1>5, <1>9, <2>2, FkHeldSame, FkQueue
  <2> QED
    BY <2>1, <2>2
<1>10. ASSUME NEW x \in FkClients PROVE Forking!Transfer(x)'
  <2>1. CASE x # c
    <3>1. v3'[x] = v3[x] /\ v5'[x] = v5[x] /\ v6'[x] = v6[x] /\ v2'.faults = v2.faults /\ Forking!Transfer(x)
      BY <1>0, <1>3, <1>4, <1>5, <2>1
    <3> QED
      BY <3>1, FkTransferSame
  <2>2. CASE x = c
    <3>1. /\ v3'[c] = v3[c] /\ v6'[c].pc # "done" /\ "queue" \in v5'[c].held /\ v2'.faults = v2.faults
          /\ v5'[c].up = v5[c].up /\ v5'[c].down = v5[c].down /\ v5'[c].eof = v5[c].eof
          /\ v6'[c].got = v6[c].got /\ v6'[c].sent = v6[c].sent /\ Forking!Transfer(c)
      BY <1>0, <1>2, <1>3, <1>4, <1>5
    <3> QED
      BY <2>2, <3>1, FkTransferSame
  <2> QED
    BY <2>1, <2>2
<1> QED
  BY <1>0, <1>2, <1>6, <1>8, <1>9, <1>10

LEMMA FkAccept ==
  ASSUME Forking!IInv, v1' = v1, Forking!Accept
  PROVE  Forking!IInv'
<1> USE DEF Forking!IInv
<1> DEFINE c == Head(v2.queue)
           q == Tail(v2.queue)
<1>0. /\ v2.pc = "wait" /\ v2.queue # <<>> /\ v3' = v3 /\ v4' = v4 /\ v6' = v6
      /\ v2' = [v2 EXCEPT !.pc = "fork", !.client = c, !.queue = q]
      /\ v5' = IF Forking!Echo THEN [v5 EXCEPT ![c].held = {"parent"}] ELSE v5
  BY DEF Forking!Accept
<1>1. c = v2.queue[1] /\ 1 \in DOMAIN v2.queue /\ c \in FkClients
      /\ q \in Seq(FkClients) /\ DOMAIN q = 1..(Len(v2.queue) - 1) /\ \A i \in DOMAIN q : q[i] = v2.queue[i + 1]
  BY <1>0, FkQueue
<1>2. Forking!Echo' <=> Forking!Echo
  BY DEF Forking!Echo
<1> HIDE DEF q, c
<1>3. v2' \in Forking!Parents /\ v2'.pc = "fork" /\ v2'.client = c /\ v2'.queue = q /\ v2'.faults = v2.faults
  BY Zenon, <1>0, <1>1 DEF Forking!TypeOK, Forking!Parents
<1>4. /\ v5' \in [FkClients -> Forking!Connections] /\ (\A x \in FkClients : x # c => v5'[x] = v5[x])
      /\ v5'[c].up = v5[c].up /\ v5'[c].down = v5[c].down /\ v5'[c].eof = v5[c].eof
      /\ v5'[c].held = IF Forking!Echo THEN {"parent"} ELSE v5[c].held
  <2>1. CASE Forking!Echo
    <3>1. v5' = [v5 EXCEPT ![c].held = {"parent"}] /\ v5 \in [FkClients -> Forking!Connections]
      BY <1>0, <2>1 DEF Forking!TypeOK
    <3>2. /\ v5' \in [FkClients -> Forking!Connections] /\ (\A x \in FkClients : x # c => v5'[x] = v5[x])
          /\ v5'[c].up = v5[c].up /\ v5'[c].down = v5[c].down /\ v5'[c].eof = v5[c].eof /\ v5'[c].held = {"parent"}
      BY Zenon, <1>1, <3>1 DEF Forking!Connections
    <3> QED
      BY <2>1, <3>2
  <2>2. CASE ~Forking!Echo
    BY <1>0, <1>1, <2>2 DEF Forking!TypeOK, Forking!Connections
  <2> QED
    BY <2>1, <2>2
<1>5. Forking!TypeOK'
  BY <1>0, <1>1, <1>3, <1>4 DEF Forking!TypeOK
<1>6. v6[c].pc # "new" /\ v3[c].pc = "none" /\ \A i \in DOMAIN v2.queue : v2.queue[i] = c => i = 1
  BY <1>1 DEF Forking!InLine, Forking!ToBeServed
<1>7. Forking!InLine'
  <2>1. \A i \in DOMAIN q : v6[q[i]].pc # "new" /\ v3[q[i]].pc = "none" /\ q[i] # c /\ \A k \in DOMAIN q : q[k] = q[i] => k = i
    <3> SUFFICES ASSUME NEW i \in DOMAIN q
                 PROVE  v6[q[i]].pc # "new" /\ v3[q[i]].pc = "none" /\ q[i] # c /\ \A k \in DOMAIN q : q[k] = q[i] => k = i
      OBVIOUS
    <3>1. i + 1 \in DOMAIN v2.queue /\ q[i] = v2.queue[i + 1] /\ i \in Nat /\ i + 1 # 1
      BY <1>1, FkQueue
    <3>2. v6[q[i]].pc # "new" /\ v3[q[i]].pc = "none" /\ \A k \in DOMAIN v2.queue : v2.queue[k] = q[i] => k = i + 1
      BY <3>1 DEF Forking!InLine, Forking!ToBeServed
    <3>3. \A k \in DOMAIN q : q[k] = q[i] => k = i
      BY <1>1, <3>1, <3>2, FkQueue
    <3> QED
      BY <1>6, <3>1, <3>2, <3>3
  <2>2. \A x \in FkClients : v6[x].pc = "new" => v3[x].pc = "none"
    BY DEF Forking!InLine
  <2> QED
    BY <1>0, <1>3, <1>6, <2>1, <2>2 DEF Forking!InLine, Forking!ToBeServed
<1>8. ASSUME Forking!Echo, NEW x \in FkClients PROVE Forking!HeldBy(x)'
  <2>1. CASE x = c
    BY <1>0, <1>3, <1>4, <1>6, <1>8, <2>1 DEF Forking!HeldBy
  <2>2. CASE x # c
    BY <1>0, <1>3, <1>4, <1>8, <2>2 DEF Forking!HeldBy
  <2> QED
    BY <2>1, <2>2
<1>9. ASSUME NEW x \in FkClients PROVE Forking!Transfer(x)'
  <2>1. v5'[x].up = v5[x].up /\ v5'[x].down = v5[x].down /\ v5'[x].eof = v5[x].eof /\ (v1 = "file" => v5'[x].held = v5[x].held)
    BY <1>4 DEF Forking!Echo
  <2>2. v3'[x] = v3[x] /\ v6'[x] = v6[x] /\ v2'.faults = v2.faults /\ Forking!Transfer(x)
    BY <1>0, <1>3
  <2> QED
    BY <2>1, <2>2, FkTransferSame
<1> QED
  BY <1>0, <1>2, <1>5, <1>7, <1>8, <1>9

LEMMA FkAcceptFails ==
  ASSUME Forking!IInv, v1' = v1, Forking!AcceptFails
  PROVE  Forking!IInv'
<1> USE DEF Forking!IInv
<1> DEFINE p == IF v1 = "echo_v2" THEN "wait" ELSE "gone"
           n == v2.faults + 1
<1>0. /\ v2.pc = "wait" /\ v3' = v3 /\ v4' = v4 /\ v6' = v6
      /\ v2' = [v2 EXCEPT !.faults = n, !.pc = p]
      /\ v5' = IF v1 = "echo" THEN [x \in FkClients |-> [v5[x] EXCEPT !.held = @ \ {"queue"}]] ELSE v5
  BY DEF Forking!AcceptFails
<1>1. p \in {"wait", "gone"} /\ n \in Nat /\ n > 0 /\ (Forking!Echo' <=> Forking!Echo)
  BY FkQueue DEF Forking!Echo
<1> HIDE DEF p, n
<1>2. v2' \in Forking!Parents /\ v2'.pc = p /\ v2'.client = v2.client /\ v2'.queue = v2.queue /\ v2'.faults = n
  BY Zenon, <1>0, <1>1 DEF Forking!TypeOK, Forking!Parents
<1>3. /\ v5' \in [FkClients -> Forking!Connections]
      /\ \A x \in FkClients : /\ v5'[x].up = v5[x].up /\ v5'[x].down = v5[x].down /\ v5'[x].eof = v5[x].eof
                              /\ v5'[x].held \subseteq v5[x].held /\ v5[x].held \subseteq v5'[x].held \cup {"queue"}
                              /\ v1 = "file" => v5'[x].held = v5[x].held
  <2>1. CASE v1 = "echo"
    BY ZenonT(30), <1>0, <2>1 DEF Forking!TypeOK, Forking!Connections
  <2>2. CASE v1 # "echo"
    BY <1>0, <2>2 DEF Forking!TypeOK
  <2> QED
    BY <2>1, <2>2
<1>4. Forking!TypeOK'
  BY <1>0, <1>1, <1>2, <1>3 DEF Forking!TypeOK
<1>5. Forking!InLine'
  BY <1>0, <1>1, <1>2 DEF Forking!InLine, Forking!ToBeServed
<1>6. ASSUME Forking!Echo, NEW x \in FkClients PROVE Forking!HeldBy(x)'
  BY <1>0, <1>1, <1>2, <1>3, <1>6 DEF Forking!HeldBy
<1>7. ASSUME NEW x \in FkClients PROVE Forking!Transfer(x)'
  <2>1. v3'[x] = v3[x] /\ v6'[x] = v6[x] /\ v2'.faults # 0 /\ Forking!Transfer(x)
    BY <1>0, <1>1, <1>2
  <2>2. v5'[x].up = v5[x].up /\ v5'[x].down = v5[x].down /\ v5'[x].eof = v5[x].eof /\ (v1 = "file" => v5'[x].held = v5[x].held)
    BY <1>3
  <2> QED
    BY <2>1, <2>2, FkTransferSame
<1> QED
  BY <1>0, <1>1, <1>4, <1>5, <1>6, <1>7

LEMMA FkFork ==
  ASSUME Forking!IInv, v1' = v1, Forking!Fork
  PROVE  Forking!IInv'
<1> USE DEF Forking!IInv
<1> DEFINE c == v2.client
           new == [pc |-> "read", buf |-> 0, at |-> 0]
<1>0. /\ v2.pc = "fork" /\ v4' = v4 /\ v6' = v6 /\ c \in FkClients
      /\ v2' = [v2 EXCEPT !.pc = "close"] /\ v3' = [v3 EXCEPT ![c] = new]
      /\ v5' = IF Forking!Echo THEN [v5 EXCEPT ![c].held = @ \cup {"child"}] ELSE v5
  BY DEF Forking!Fork, Forking!TypeOK
<1>1. new \in Forking!Children /\ new.pc = "read" /\ new.at = 0 /\ (Forking!Echo' <=> Forking!Echo)
  BY FkBounds DEF Forking!Children, Forking!Echo
<1> HIDE DEF new
<1>2. v2' \in Forking!Parents /\ v2'.pc = "close" /\ v2'.client = c /\ v2'.queue = v2.queue /\ v2'.faults = v2.faults
  BY <1>0 DEF Forking!TypeOK, Forking!Parents
<1> HIDE DEF c
<1>3. v3' \in [FkClients -> Forking!Children] /\ v3'[c] = new /\ \A x \in FkClients : x # c => v3'[x] = v3[x]
  BY <1>0, <1>1 DEF Forking!TypeOK
<1>4. /\ v5' \in [FkClients -> Forking!Connections] /\ (\A x \in FkClients : x # c => v5'[x] = v5[x])
      /\ v5'[c].up = v5[c].up /\ v5'[c].down = v5[c].down /\ v5'[c].eof = v5[c].eof
      /\ v5'[c].held = IF Forking!Echo THEN v5[c].held \cup {"child"} ELSE v5[c].held
  BY Zenon, <1>0 DEF Forking!TypeOK, Forking!Connections
<1>5. Forking!TypeOK'
  BY <1>0, <1>2, <1>3, <1>4 DEF Forking!TypeOK
<1>6. v6[c].pc # "new" /\ v3[c].pc = "none" /\ \A i \in DOMAIN v2.queue : v2.queue[i] # c
  BY <1>0 DEF Forking!InLine, Forking!ToBeServed, c
<1>7. Forking!InLine'
  <2>1. \A i \in DOMAIN v2.queue : v6[v2.queue[i]].pc # "new" /\ v3'[v2.queue[i]].pc = "none"
    BY <1>3, <1>6, FkQueue DEF Forking!InLine, Forking!ToBeServed
  <2> QED
    BY <1>0, <1>2, <1>3, <1>6, <2>1 DEF Forking!InLine, Forking!ToBeServed
<1>8. ASSUME Forking!Echo, NEW x \in FkClients PROVE Forking!HeldBy(x)'
  <2>1. CASE x = c
    BY <1>0, <1>1, <1>2, <1>3, <1>4, <1>6, <1>8, <2>1 DEF Forking!HeldBy, c
  <2>2. CASE x # c
    BY <1>0, <1>2, <1>3, <1>4, <1>8, <2>2 DEF Forking!HeldBy, c
  <2> QED
    BY <2>1, <2>2
<1>9. ASSUME NEW x \in FkClients PROVE Forking!Transfer(x)'
  <2>1. CASE x # c
    <3>1. v3'[x] = v3[x] /\ v5'[x] = v5[x] /\ v6'[x] = v6[x] /\ v2'.faults = v2.faults /\ Forking!Transfer(x)
      BY <1>0, <1>2, <1>3, <1>4, <2>1
    <3> QED
      BY <3>1, FkTransferSame
  <2>2. CASE x = c
    <3>1. /\ v3[c].pc = "none" /\ v3'[c].pc = "read" /\ v3'[c].at = 0 /\ v6'[c] = v6[c] /\ v2'.faults = v2.faults
          /\ v5'[c].up = v5[c].up /\ v5'[c].down = v5[c].down /\ v5'[c].eof = v5[c].eof /\ Forking!Transfer(c)
          /\ (v1 = "file" => v5'[c].held = v5[c].held)
      BY <1>0, <1>1, <1>2, <1>3, <1>4, <1>6 DEF Forking!Echo
    <3> QED
      BY <2>2, <3>1, FkTransferSame
  <2> QED
    BY <2>1, <2>2
<1>10. \A x \in FkClients : v3'[x].pc = "zombie" => v4'
  BY <1>0, <1>1, <1>3
<1> QED
  BY <1>1, <1>5, <1>7, <1>8, <1>9, <1>10

LEMMA FkForkFails ==
  ASSUME Forking!IInv, v1' = v1, Forking!ForkFails
  PROVE  Forking!IInv'
<1> USE DEF Forking!IInv
<1> DEFINE p == IF Forking!Echo THEN "close" ELSE "gone"
           n == v2.faults + 1
<1>0. /\ v2.pc = "fork" /\ v3' = v3 /\ v4' = v4 /\ v5' = v5 /\ v6' = v6 /\ v2.client \in FkClients
      /\ v2' = [v2 EXCEPT !.faults = n, !.pc = p]
  BY DEF Forking!ForkFails, Forking!TypeOK
<1>1. p \in {"close", "gone"} /\ n \in Nat /\ n > 0 /\ (Forking!Echo' <=> Forking!Echo) /\ (Forking!Echo => p = "close")
  BY FkQueue DEF Forking!Echo
<1> HIDE DEF p, n
<1>2. v2' \in Forking!Parents /\ v2'.pc = p /\ v2'.client = v2.client /\ v2'.queue = v2.queue /\ v2'.faults = n
  BY Zenon, <1>0, <1>1 DEF Forking!TypeOK, Forking!Parents
<1>4. Forking!TypeOK'
  BY <1>0, <1>1, <1>2 DEF Forking!TypeOK
<1>5. Forking!InLine'
  BY <1>0, <1>1, <1>2 DEF Forking!InLine, Forking!ToBeServed
<1>6. ASSUME Forking!Echo, NEW x \in FkClients PROVE Forking!HeldBy(x)'
  BY <1>0, <1>1, <1>2, <1>6 DEF Forking!HeldBy
<1>7. ASSUME NEW x \in FkClients PROVE Forking!Transfer(x)'
  <2>1. v3'[x] = v3[x] /\ v5'[x] = v5[x] /\ v6'[x] = v6[x] /\ v2'.faults # 0 /\ Forking!Transfer(x)
    BY <1>0, <1>1, <1>2
  <2> QED
    BY <2>1, FkTransferSame
<1> QED
  BY <1>0, <1>1, <1>4, <1>5, <1>6, <1>7

LEMMA FkClose ==
  ASSUME Forking!IInv, v1' = v1, Forking!CloseConnected
  PROVE  Forking!IInv'
<1> USE DEF Forking!IInv
<1> DEFINE c == v2.client
           h == v5[c].held \ {"parent"}
<1>0. /\ v2.pc = "close" /\ v3' = v3 /\ v4' = v4 /\ v6' = v6 /\ c \in FkClients
      /\ v2' = [v2 EXCEPT !.pc = "wait"] /\ v5' = [v5 EXCEPT ![c].held = h]
  BY DEF Forking!CloseConnected, Forking!TypeOK
<1>1. v2' \in Forking!Parents /\ v2'.pc = "wait" /\ v2'.client = c /\ v2'.queue = v2.queue /\ v2'.faults = v2.faults
  BY <1>0 DEF Forking!TypeOK, Forking!Parents
<1>2. h \subseteq {"queue", "parent", "child"}
  BY <1>0 DEF Forking!TypeOK, Forking!Connections
<1> HIDE DEF c, h
<1>3. /\ v5' \in [FkClients -> Forking!Connections] /\ (\A x \in FkClients : x # c => v5'[x] = v5[x])
      /\ v5'[c].up = v5[c].up /\ v5'[c].down = v5[c].down /\ v5'[c].eof = v5[c].eof /\ v5'[c].held = h
  BY Zenon, <1>0, <1>2 DEF Forking!TypeOK, Forking!Connections
<1>4. Forking!TypeOK' /\ (Forking!Echo' <=> Forking!Echo)
  BY <1>0, <1>1, <1>3 DEF Forking!TypeOK, Forking!Echo
<1>5. Forking!InLine'
  BY <1>0, <1>1 DEF Forking!InLine, Forking!ToBeServed
<1>6. ASSUME Forking!Echo, NEW x \in FkClients PROVE Forking!HeldBy(x)'
  <2>1. CASE x # c
    BY <1>0, <1>1, <1>3, <1>6, <2>1 DEF Forking!HeldBy, c
  <2>2. CASE x = c
    BY <1>0, <1>1, <1>3, <1>6, <2>2 DEF Forking!HeldBy, c, h
  <2> QED
    BY <2>1, <2>2
<1>7. ASSUME NEW x \in FkClients PROVE Forking!Transfer(x)'
  <2>1. v3'[x] = v3[x] /\ v6'[x] = v6[x] /\ v2'.faults = v2.faults /\ Forking!Transfer(x)
    BY <1>0, <1>1
  <2>2. v5'[x].up = v5[x].up /\ v5'[x].down = v5[x].down /\ v5'[x].eof = v5[x].eof /\ ("queue" \in v5[x].held => "queue" \in v5'[x].held)
    BY <1>3 DEF h
  <2> QED
    BY <2>1, <2>2, FkTransferSame
<1> QED
  BY <1>0, <1>4, <1>5, <1>6, <1>7

LEMMA FkReaper ==
  ASSUME Forking!IInv, v1' = v1, Forking!GrimReaper
  PROVE  Forking!IInv'
<1> USE DEF Forking!IInv
<1>0. /\ v2' = v2 /\ v4' = FALSE /\ v5' = v5 /\ v6' = v6 /\ (Forking!Echo' <=> Forking!Echo)
      /\ v3' = [c \in FkClients |-> IF v3[c].pc = "zombie" THEN [v3[c] EXCEPT !.pc = "reaped"] ELSE v3[c]]
  BY DEF Forking!GrimReaper, Forking!Echo
<1>1. /\ v3' \in [FkClients -> Forking!Children]
      /\ \A x \in FkClients : IF v3[x].pc = "zombie" THEN v3'[x].pc = "reaped" ELSE v3'[x] = v3[x]
  BY <1>0 DEF Forking!TypeOK, Forking!Children
<1>2. Forking!TypeOK'
  BY Zenon, <1>0, <1>1 DEF Forking!TypeOK
<1>3. Forking!InLine'
  <2>1. \A x \in FkClients : v3'[x].pc = "none" <=> v3[x].pc = "none"
    BY <1>1
  <2> QED
    BY <1>0, <2>1, FkInLineSame
<1>4. ASSUME Forking!Echo, NEW x \in FkClients PROVE Forking!HeldBy(x)'
  <2>1. /\ v3'[x].pc = v3[x].pc \/ (v3[x].pc = "zombie" /\ v3'[x].pc = "reaped")
        /\ v5'[x].held = v5[x].held /\ v6'[x].pc = v6[x].pc /\ v2.faults \in Nat /\ Forking!HeldBy(x)
    BY <1>0, <1>1, <1>4, FkQueue
  <2> QED
    BY <1>0, <2>1, FkHeldSame
<1>5. ASSUME NEW x \in FkClients PROVE Forking!Transfer(x)'
  <2>1. /\ v3'[x] = v3[x] \/ (v3[x].pc = "zombie" /\ v3'[x].pc = "reaped")
        /\ v5'[x] = v5[x] /\ v6'[x] = v6[x] /\ v2'.faults = v2.faults /\ Forking!Transfer(x)
    BY <1>0, <1>1
  <2> QED
    BY <2>1, FkTransferSame
<1>6. \A x \in FkClients : v3'[x].pc # "zombie"
  BY <1>1
<1> QED
  BY <1>0, <1>2, <1>3, <1>4, <1>5, <1>6

\* What is known of client c, its child and their connection,
LEMMA FkOf ==
  ASSUME Forking!IInv, NEW c \in FkClients
  PROVE  /\ v3[c] \in Forking!Children /\ v5[c] \in Forking!Connections /\ v6[c] \in Forking!Users
         /\ v5[c].up \in Seq(Int) /\ v5[c].down \in Seq(Int) /\ v6[c].got \in Seq(Int)
         /\ v6[c].sent \in 0..FkSize /\ v3[c].at \in 0..FkSize /\ v3[c].buf \in Int /\ v2.faults \in Nat
         /\ Forking!Up(c) \in Nat /\ DOMAIN v5[c].up = 1..Forking!Up(c)
         /\ Forking!Down(c) \in Nat /\ DOMAIN v5[c].down = 1..Forking!Down(c)
         /\ Forking!Got(c) \in Nat /\ DOMAIN v6[c].got = 1..Forking!Got(c)
         /\ (v6[c].pc = "new" => v3[c].pc = "none") /\ Forking!Transfer(c) /\ (Forking!Echo => Forking!HeldBy(c))
<1>1. v3[c] \in Forking!Children /\ v5[c] \in Forking!Connections /\ v6[c] \in Forking!Users /\ v2.faults \in Nat
  BY DEF Forking!IInv, Forking!TypeOK, Forking!Parents
<1>2. /\ v5[c].up \in Seq(Int) /\ v5[c].down \in Seq(Int) /\ v6[c].got \in Seq(Int)
      /\ v6[c].sent \in 0..FkSize /\ v3[c].at \in 0..FkSize /\ v3[c].buf \in Int
  BY Zenon, <1>1 DEF Forking!Children, Forking!Connections, Forking!Users
<1> QED
  BY <1>1, <1>2 DEF Forking!IInv, Forking!InLine, Forking!Got, Forking!Down, Forking!Up

\* and what a step that is only about them has to keep.
LEMMA FkOneClient ==
  ASSUME Forking!IInv, v1' = v1, NEW c \in FkClients,
         v2' \in Forking!Parents, v2'.queue = v2.queue, v2'.pc = v2.pc, v2'.client = v2.client,
         v2'.faults = v2.faults \/ v2'.faults = v2.faults + 1,
         v4' \in BOOLEAN, v4 => v4', v3'[c].pc = "zombie" => v4',
         v3' \in [FkClients -> Forking!Children], v3'[c].pc = "none" <=> v3[c].pc = "none",
         v5' \in [FkClients -> Forking!Connections],
         v6' \in [FkClients -> Forking!Users], v6'[c].pc = "new" <=> v6[c].pc = "new",
         \A x \in FkClients : x # c => v3'[x] = v3[x] /\ v5'[x] = v5[x] /\ v6'[x] = v6[x],
         Forking!Echo => Forking!HeldBy(c)', Forking!Transfer(c)'
  PROVE  Forking!IInv'
<1>0. v2.faults \in Nat /\ (Forking!Echo' <=> Forking!Echo) /\ Forking!TypeOK /\ Forking!InLine
  BY FkQueue DEF Forking!IInv, Forking!Echo
<1>1. Forking!TypeOK'
  BY <1>0 DEF Forking!TypeOK
<1>2. Forking!InLine'
  <2>1. \A x \in FkClients : /\ v6'[x].pc = "new" <=> v6[x].pc = "new"
                             /\ v3'[x].pc = "none" <=> v3[x].pc = "none"
    OBVIOUS
  <2> QED
    BY <1>0, <2>1, FkInLineSame
<1>3. ASSUME Forking!Echo, NEW x \in FkClients PROVE Forking!HeldBy(x)'
  <2>1. CASE x = c
    BY <1>3, <2>1
  <2>2. CASE x # c
    <3>1. v3'[x] = v3[x] /\ v5'[x] = v5[x] /\ v6'[x] = v6[x] /\ Forking!HeldBy(x)
      BY <1>3, <2>2 DEF Forking!IInv
    <3> QED
      BY <1>0, <3>1, FkHeldSame
  <2> QED
    BY <2>1, <2>2
<1>4. ASSUME NEW x \in FkClients PROVE Forking!Transfer(x)'
  <2>1. CASE x = c
    BY <2>1
  <2>2. CASE x # c
    <3>1. v3'[x] = v3[x] /\ v5'[x] = v5[x] /\ v6'[x] = v6[x] /\ Forking!Transfer(x) /\ (v2'.faults = 0 => v2.faults = 0)
      BY <1>0, <2>2 DEF Forking!IInv
    <3> QED
      BY <3>1, FkTransferSame
  <2> QED
    BY <2>1, <2>2
<1>5. \A x \in FkClients : v3'[x].pc = "zombie" => v4'
  BY DEF Forking!IInv
<1> QED
  BY <1>0, <1>1, <1>2, <1>3, <1>4, <1>5 DEF Forking!IInv

\* A sequence of numbers less its head, and with one more.
LEMMA FkTail ==
  ASSUME NEW s \in Seq(Int), s # <<>>
  PROVE  /\ Tail(s) \in Seq(Int) /\ Len(s) \in Nat /\ Len(s) > 0 /\ Len(Tail(s)) = Len(s) - 1 /\ Head(s) = s[1]
         /\ s[1] \in Int /\ DOMAIN s = 1..Len(s) /\ DOMAIN Tail(s) = 1..(Len(s) - 1)
         /\ \A i \in 1..(Len(s) - 1) : Tail(s)[i] = s[i + 1]
OBVIOUS

LEMMA FkAppend ==
  ASSUME NEW s \in Seq(Int), NEW e \in Int
  PROVE  /\ Append(s, e) \in Seq(Int) /\ Len(s) \in Nat /\ Len(Append(s, e)) = Len(s) + 1
         /\ DOMAIN s = 1..Len(s) /\ DOMAIN Append(s, e) = 1..(Len(s) + 1) /\ Append(s, e)[Len(s) + 1] = e
         /\ \A i \in 1..Len(s) : Append(s, e)[i] = s[i]
OBVIOUS

\* The lengths of client c's sequences, and those of a step that leaves them.
LEMMA FkLengths ==
  ASSUME NEW c \in FkClients
  PROVE  /\ v6'[c].got = v6[c].got => Forking!Got(c)' = Forking!Got(c)
         /\ v5'[c].down = v5[c].down => Forking!Down(c)' = Forking!Down(c)
         /\ v5'[c].up = v5[c].up => Forking!Up(c)' = Forking!Up(c)
         /\ Forking!Got(c)' = Len(v6'[c].got) /\ Forking!Down(c)' = Len(v5'[c].down) /\ Forking!Up(c)' = Len(v5'[c].up)
         /\ Forking!Got(c) = Len(v6[c].got) /\ Forking!Down(c) = Len(v5[c].down) /\ Forking!Up(c) = Len(v5[c].up)
         /\ Forking!Dead(c)' <=> v3'[c].pc \in {"zombie", "reaped"}
BY DEF Forking!Got, Forking!Down, Forking!Up, Forking!Dead

LEMMA FkEchoRead ==
  ASSUME Forking!IInv, v1' = v1, NEW c \in FkClients, Forking!EchoRead(c)
  PROVE  Forking!IInv'
<1> DEFINE s == v5[c].up
           g == Forking!Got(c)
           n == Forking!Down(c)
           m == Forking!Up(c)
<1>0. Forking!Echo /\ v3[c].pc = "read" /\ v2' = v2 /\ v6' = v6 /\ v2 \in Forking!Parents /\ v6 \in [FkClients -> Forking!Users]
      /\ v3 \in [FkClients -> Forking!Children] /\ v5 \in [FkClients -> Forking!Connections] /\ v4 \in BOOLEAN
  BY DEF Forking!EchoRead, Forking!Exits, Forking!IInv, Forking!TypeOK
<1>e. v1 # "file" /\ Forking!EchoTransfer(c) /\ Forking!HeldBy(c) /\ g \in Nat /\ n \in Nat /\ m \in Nat
      /\ s \in Seq(Int) /\ m = Len(s) /\ v6[c].sent \in 0..FkSize
  BY <1>0, FkOf, FkLengths DEF Forking!Transfer, Forking!Echo
<1>g. /\ (\A i \in 1..n : v5[c].down[i] = g + i) /\ g + n <= FkSize /\ (v5[c].eof => v6[c].sent = FkSize)
      /\ v6[c].sent = g + n + m /\ \A i \in 1..m : s[i] = g + n + i
  BY <1>0, <1>e DEF Forking!EchoTransfer, Forking!SentAfter
<1>t. g <= FkSize /\ (\A i \in 1..g : v6[c].got[i] = i) /\ (v6[c].pc = "done" /\ v2.faults = 0 => g = FkSize)
  BY FkOf DEF Forking!Transfer
<1>1. CASE s # <<>> /\ v5' = [v5 EXCEPT ![c].up = Tail(s)] /\ v3' = [v3 EXCEPT ![c].pc = "write", ![c].buf = Head(s)] /\ v4' = v4
  <2> DEFINE u == Tail(s)
             h == Head(s)
  <2>1. v5' = [v5 EXCEPT ![c].up = u] /\ v3' = [v3 EXCEPT ![c].pc = "write", ![c].buf = h]
    BY <1>1
  <2>2. u \in Seq(Int) /\ m > 0 /\ Len(u) = m - 1 /\ h = s[1] /\ h \in Int /\ \A i \in 1..(m - 1) : u[i] = s[i + 1]
    BY <1>1, <1>e, FkTail
  <2> HIDE DEF u, h
  <2>3. /\ v5' \in [FkClients -> Forking!Connections] /\ (\A x \in FkClients : x # c => v5'[x] = v5[x])
        /\ v5'[c].up = u /\ v5'[c].down = v5[c].down /\ v5'[c].eof = v5[c].eof /\ v5'[c].held = v5[c].held
    BY Zenon, <1>0, <2>1, <2>2 DEF Forking!Connections
  <2>4. /\ v3' \in [FkClients -> Forking!Children] /\ (\A x \in FkClients : x # c => v3'[x] = v3[x])
        /\ v3'[c].pc = "write" /\ v3'[c].buf = h
    BY Zenon, <1>0, <2>1, <2>2 DEF Forking!Children
  <2>5. Forking!HeldBy(c)'
    BY <1>0, <1>e, <2>3, <2>4, FkOf, FkHeldSame
  <2>l. Forking!Got(c)' = g /\ Forking!Down(c)' = n /\ Forking!Up(c)' = m - 1 /\ ~Forking!Dead(c)'
    BY Zenon, <1>0, <2>2, <2>3, <2>4, FkLengths
  <2> HIDE DEF g, n, m
  <2>6. Forking!EchoTransfer(c)'
    <3>1. \A i \in 1..(m - 1) : u[i] = g + n + 1 + i
      <4> TAKE i \in 1..(m - 1)
      <4>1. i \in Int /\ i + 1 \in 1..m /\ u[i] = s[i + 1]
        <5>1. m \in Int
          BY <1>e
        <5>2. u[i] = s[i + 1]
          BY Zenon, <2>2
        <5>3. i \in Int /\ i + 1 \in 1..m
          BY <5>1
        <5> QED
          BY <5>2, <5>3
      <4>2. u[i] = g + n + (i + 1)
        BY <1>g, <4>1
      <4>3. g \in Int /\ n \in Int /\ i \in Int
        BY <1>e, <4>1
      <4>4. g + n + (i + 1) = g + n + 1 + i
        BY <4>3
      <4> QED
        BY <4>2, <4>4
    <3>2. h = g + n + 1 /\ v6[c].sent = g + n + 1 + (m - 1)
      <4>1. 1 \in 1..m /\ h = s[1]
        BY <1>e, <2>2
      <4>2. h = g + n + 1
        BY <1>g, <4>1
      <4>3. v6[c].sent = g + n + m
        BY <1>g
      <4>4. g \in Nat /\ n \in Nat /\ m \in Nat
        BY <1>e
      <4>5. g + n + m = g + n + 1 + (m - 1)
        BY <4>4
      <4> QED
        BY <4>2, <4>3, <4>5
    <3> QED
      BY <1>0, <1>g, <2>3, <2>4, <2>l, <3>1, <3>2 DEF Forking!EchoTransfer, Forking!SentAfter
  <2>7. Forking!Transfer(c)'
    BY <1>0, <1>e, <1>t, <2>6, <2>l DEF Forking!Transfer
  <2> QED
    BY Zenon, <1>0, <1>1, <2>3, <2>4, <2>5, <2>7, FkOneClient
<1>2. CASE s = <<>> /\ v5[c].eof /\ v5' = [v5 EXCEPT ![c].held = @ \ {"child"}] /\ v3' = [v3 EXCEPT ![c].pc = "zombie"] /\ v4' = TRUE
  <2>3. /\ v5' \in [FkClients -> Forking!Connections] /\ (\A x \in FkClients : x # c => v5'[x] = v5[x])
        /\ v5'[c].up = v5[c].up /\ v5'[c].down = v5[c].down /\ v5'[c].eof = v5[c].eof /\ v5'[c].held = v5[c].held \ {"child"}
    BY Zenon, <1>0, <1>2 DEF Forking!Connections
  <2>4. /\ v3' \in [FkClients -> Forking!Children] /\ (\A x \in FkClients : x # c => v3'[x] = v3[x]) /\ v3'[c].pc = "zombie"
    BY Zenon, <1>0, <1>2 DEF Forking!Children
  <2>5. Forking!HeldBy(c)'
    BY <1>0, <1>e, <2>3, <2>4 DEF Forking!HeldBy
  <2>l. Forking!Got(c)' = g /\ Forking!Down(c)' = n /\ m = 0
    BY <1>0, <1>2, <1>e, <2>3, FkLengths
  <2> HIDE DEF g, n, m
  <2>6. Forking!EchoTransfer(c)'
    BY <1>0, <1>2, <1>e, <1>g, <2>3, <2>4, <2>l DEF Forking!EchoTransfer
  <2>7. Forking!Transfer(c)'
    BY <1>0, <1>e, <1>t, <2>6, <2>l DEF Forking!Transfer
  <2> QED
    BY Zenon, <1>0, <1>2, <2>3, <2>4, <2>5, <2>7, FkOneClient
<1> QED
  BY Zenon, <1>1, <1>2 DEF Forking!EchoRead, Forking!Exits

LEMMA FkEchoWrite ==
  ASSUME Forking!IInv, v1' = v1, NEW c \in FkClients, Forking!EchoWrite(c)
  PROVE  Forking!IInv'
<1> DEFINE g == Forking!Got(c)
           n == Forking!Down(c)
           m == Forking!Up(c)
<1>0. Forking!Echo /\ v3[c].pc = "write" /\ v6' = v6 /\ v2 \in Forking!Parents /\ v6 \in [FkClients -> Forking!Users]
      /\ v3 \in [FkClients -> Forking!Children] /\ v5 \in [FkClients -> Forking!Connections] /\ v4 \in BOOLEAN
  BY DEF Forking!EchoWrite, Forking!Exits, Forking!IInv, Forking!TypeOK
<1>e. v1 # "file" /\ Forking!EchoTransfer(c) /\ Forking!HeldBy(c) /\ g \in Nat /\ n \in Nat /\ m \in Nat
      /\ v5[c].down \in Seq(Int) /\ n = Len(v5[c].down) /\ v6[c].sent \in 0..FkSize /\ v3[c].buf \in Int
  BY <1>0, FkOf, FkLengths DEF Forking!Transfer, Forking!Echo
<1>g. /\ (\A i \in 1..n : v5[c].down[i] = g + i) /\ (v5[c].eof => v6[c].sent = FkSize) /\ g + n <= FkSize
      /\ v3[c].buf = g + n + 1 /\ v6[c].sent = g + n + 1 + m /\ \A i \in 1..m : v5[c].up[i] = g + n + 1 + i
  BY <1>0, <1>e DEF Forking!EchoTransfer, Forking!SentAfter
<1>t. g <= FkSize /\ (\A i \in 1..g : v6[c].got[i] = i) /\ (v6[c].pc = "done" /\ v2.faults = 0 => g = FkSize)
  BY FkOf DEF Forking!Transfer
<1>1. CASE v5' = [v5 EXCEPT ![c].down = Append(@, v3[c].buf)] /\ v3' = [v3 EXCEPT ![c].pc = "read"] /\ v2' = v2 /\ v4' = v4
  <2> DEFINE d == Append(v5[c].down, v3[c].buf)
  <2>1. v5' = [v5 EXCEPT ![c].down = d]
    BY <1>1
  <2>2. d \in Seq(Int) /\ Len(d) = n + 1 /\ d[n + 1] = v3[c].buf /\ \A i \in 1..n : d[i] = v5[c].down[i]
    BY <1>e, FkAppend
  <2> HIDE DEF d
  <2>3. /\ v5' \in [FkClients -> Forking!Connections] /\ (\A x \in FkClients : x # c => v5'[x] = v5[x])
        /\ v5'[c].up = v5[c].up /\ v5'[c].down = d /\ v5'[c].eof = v5[c].eof /\ v5'[c].held = v5[c].held
    BY Zenon, <1>0, <2>1, <2>2 DEF Forking!Connections
  <2>4. /\ v3' \in [FkClients -> Forking!Children] /\ (\A x \in FkClients : x # c => v3'[x] = v3[x]) /\ v3'[c].pc = "read"
    BY Zenon, <1>0, <1>1 DEF Forking!Children
  <2>5. Forking!HeldBy(c)'
    BY Zenon, <1>0, <1>1, <1>e, <2>3, <2>4, FkOf, FkHeldSame
  <2>l. Forking!Got(c)' = g /\ Forking!Down(c)' = n + 1 /\ Forking!Up(c)' = m /\ ~Forking!Dead(c)'
    BY Zenon, <1>0, <2>2, <2>3, <2>4, FkLengths
  <2> HIDE DEF g, n, m
  <2>6. Forking!EchoTransfer(c)'
    <3>1. \A i \in 1..(n + 1) : d[i] = g + i
      <4> TAKE i \in 1..(n + 1)
      <4>1. i = n + 1 \/ i \in 1..n
        BY <1>e, SMTT(20)
      <4>2. g + n + 1 = g + (n + 1)
        BY <1>e
      <4> QED
        BY Zenon, <1>e, <1>g, <2>2, <4>1, <4>2
    <3>2. g + (n + 1) <= FkSize /\ g + (n + 1) = g + n + 1
      <4>1. v6[c].sent = g + n + 1 + m
        BY <1>g
      <4> QED
        BY <1>e, <4>1, FkBounds
    <3> QED
      BY <1>0, <1>g, <2>3, <2>4, <2>l, <3>1, <3>2 DEF Forking!EchoTransfer, Forking!SentAfter
  <2>7. Forking!Transfer(c)'
    BY <1>0, <1>1, <1>e, <1>t, <2>6, <2>l DEF Forking!Transfer
  <2> QED
    BY Zenon, <1>0, <1>1, <2>3, <2>4, <2>5, <2>7, FkOneClient
<1>2. CASE v2' = [v2 EXCEPT !.faults = @ + 1] /\ v5' = [v5 EXCEPT ![c].held = @ \ {"child"}]
           /\ v3' = [v3 EXCEPT ![c].pc = "zombie"] /\ v4' = TRUE
  <2>2. /\ v2' \in Forking!Parents /\ v2'.pc = v2.pc /\ v2'.client = v2.client /\ v2'.queue = v2.queue
        /\ v2'.faults = v2.faults + 1 /\ v2'.faults # 0
    BY <1>2, FkFault DEF Forking!IInv
  <2>3. /\ v5' \in [FkClients -> Forking!Connections] /\ (\A x \in FkClients : x # c => v5'[x] = v5[x])
        /\ v5'[c].up = v5[c].up /\ v5'[c].down = v5[c].down /\ v5'[c].eof = v5[c].eof /\ v5'[c].held = v5[c].held \ {"child"}
    BY Zenon, <1>0, <1>2 DEF Forking!Connections
  <2>4. /\ v3' \in [FkClients -> Forking!Children] /\ (\A x \in FkClients : x # c => v3'[x] = v3[x]) /\ v3'[c].pc = "zombie"
    BY <1>0, <1>2 DEF Forking!Children
  <2>5. Forking!HeldBy(c)'
    BY <1>0, <1>e, <2>2, <2>3, <2>4 DEF Forking!HeldBy
  <2>l. Forking!Got(c)' = g /\ Forking!Down(c)' = n
    BY <1>0, <2>3, FkLengths
  <2> HIDE DEF g, n, m
  <2>6. Forking!EchoTransfer(c)'
    BY <1>0, <1>g, <2>2, <2>3, <2>4, <2>l DEF Forking!EchoTransfer
  <2>7. Forking!Transfer(c)'
    BY <1>0, <1>e, <1>t, <2>2, <2>6, <2>l DEF Forking!Transfer
  <2> QED
    BY Zenon, <1>0, <1>2, <2>2, <2>3, <2>4, <2>5, <2>7, FkOneClient
<1> QED
  BY Zenon, <1>1, <1>2 DEF Forking!EchoWrite, Forking!Exits

LEMMA FkFileOpen ==
  ASSUME Forking!IInv, v1' = v1, NEW c \in FkClients, Forking!FileOpen(c)
  PROVE  Forking!IInv'
<1> DEFINE d == Append(v5[c].down, -1)
<1>0. /\ v1 = "file" /\ v3[c].pc = "read" /\ v3[c].at = 0 /\ v2' = [v2 EXCEPT !.faults = @ + 1] /\ v6' = v6
      /\ v5' = [v5 EXCEPT ![c].down = d] /\ v3' = [v3 EXCEPT ![c].pc = "zombie"] /\ v4' = TRUE
      /\ v6 \in [FkClients -> Forking!Users]
      /\ v3 \in [FkClients -> Forking!Children] /\ v5 \in [FkClients -> Forking!Connections]
  BY DEF Forking!FileOpen, Forking!Exits, Forking!IInv, Forking!TypeOK, Forking!FAILURE
<1>e. /\ ~Forking!Echo /\ Forking!FileTransfer(c) /\ Forking!Got(c) \in Nat /\ Forking!Down(c) \in Nat
      /\ v5[c].down \in Seq(Int) /\ Forking!Down(c) = Len(v5[c].down)
  BY <1>0, FkOf, FkLengths DEF Forking!Transfer, Forking!Echo
<1>g. Forking!Got(c) = 0 /\ Forking!Down(c) = 0
  <2>1. Forking!Got(c) + Forking!Down(c) = 0
    BY <1>0, <1>e DEF Forking!FileTransfer
  <2> QED
    BY <1>e, <2>1
<1>2. /\ v2' \in Forking!Parents /\ v2'.pc = v2.pc /\ v2'.client = v2.client /\ v2'.queue = v2.queue
      /\ v2'.faults = v2.faults + 1 /\ v2'.faults # 0
  BY <1>0, FkFault DEF Forking!IInv
<1>3. d \in Seq(Int) /\ Len(d) = 1 /\ d[1] = -1
  <2>1. -1 \in Int /\ Len(v5[c].down) = 0 /\ 0 + 1 = 1
    BY <1>e, <1>g
  <2>2. d \in Seq(Int) /\ Len(d) = Len(v5[c].down) + 1 /\ d[Len(v5[c].down) + 1] = -1
    BY <1>e, <2>1, FkAppend
  <2> QED
    BY <2>1, <2>2
<1> HIDE DEF d
<1>4. /\ v5' \in [FkClients -> Forking!Connections] /\ (\A x \in FkClients : x # c => v5'[x] = v5[x]) /\ v5'[c].down = d
  BY ZenonT(30), <1>0, <1>3 DEF Forking!Connections
<1>5. /\ v3' \in [FkClients -> Forking!Children] /\ (\A x \in FkClients : x # c => v3'[x] = v3[x]) /\ v3'[c].pc = "zombie"
  BY <1>0 DEF Forking!Children
<1>6. Forking!Got(c)' = 0 /\ Forking!Down(c)' = 1 /\ Forking!Dead(c)'
  BY <1>0, <1>g, <1>3, <1>4, <1>5, FkLengths
<1>7. Forking!FileTransfer(c)'
  BY <1>2, <1>3, <1>4, <1>5, <1>6 DEF Forking!FileTransfer, Forking!END, Forking!FAILURE
<1>8. Forking!Transfer(c)'
  BY <1>0, <1>2, <1>6, <1>7, FkBounds DEF Forking!Transfer, Forking!Echo
<1> QED
  BY Zenon, <1>0, <1>2, <1>4, <1>5, <1>8, <1>e, FkOneClient

LEMMA FkFileRead ==
  ASSUME Forking!IInv, v1' = v1, NEW c \in FkClients, Forking!FileRead(c)
  PROVE  Forking!IInv'
<1> DEFINE g == Forking!Got(c)
           n == Forking!Down(c)
           a == v3[c].at
<1>0. /\ v1 = "file" /\ v3[c].pc = "read" /\ v4' = v4 /\ v5' = v5 /\ v6' = v6 /\ v2 \in Forking!Parents
      /\ v6 \in [FkClients -> Forking!Users] /\ v4 \in BOOLEAN
      /\ v3 \in [FkClients -> Forking!Children] /\ v5 \in [FkClients -> Forking!Connections]
  BY DEF Forking!FileRead, Forking!IInv, Forking!TypeOK
<1>e. ~Forking!Echo /\ Forking!FileTransfer(c) /\ g \in Nat /\ n \in Nat /\ a \in 0..FkSize
  BY <1>0, FkOf DEF Forking!Transfer, Forking!Echo
<1>l. /\ Forking!Got(c)' = g /\ Forking!Down(c)' = n /\ v6'[c] = v6[c] /\ v5'[c] = v5[c] /\ g + n = a
      /\ (Forking!Dead(c)' <=> v3'[c].pc \in {"zombie", "reaped"}) /\ ~Forking!Dead(c)
  BY <1>0, <1>e, FkLengths DEF Forking!FileTransfer, Forking!Dead
<1>t. g <= FkSize /\ (\A i \in 1..g : v6[c].got[i] = i) /\ (v6[c].pc = "done" /\ v2.faults = 0 => g = FkSize)
  BY FkOf DEF Forking!Transfer
<1>f. /\ \A i \in 1..n : v5[c].down[i] = g + i /\ g + i <= FkSize
      /\ v6[c].pc # "new" => "queue" \in v5[c].held
  BY <1>0, <1>e, <1>l DEF Forking!FileTransfer
<1>1. CASE a < FkSize /\ v3' = [v3 EXCEPT ![c].pc = "write", ![c].at = @ + 1] /\ v2' = v2
  <2> DEFINE b == a + 1
  <2>1. b \in 0..FkSize /\ v3' = [v3 EXCEPT ![c].pc = "write", ![c].at = b] /\ g + n + 1 = b
    BY <1>1, <1>e, <1>l, FkBounds
  <2> HIDE DEF b
  <2>2. /\ v3' \in [FkClients -> Forking!Children] /\ (\A x \in FkClients : x # c => v3'[x] = v3[x])
        /\ v3'[c].pc = "write" /\ v3'[c].at = b
    BY Zenon, <1>0, <2>1 DEF Forking!Children
  <2> HIDE DEF g, n, a
  <2>3. Forking!FileTransfer(c)'
    BY <1>l, <1>f, <2>1, <2>2 DEF Forking!FileTransfer
  <2>4. Forking!Transfer(c)'
    BY <1>0, <1>1, <1>l, <1>t, <2>3 DEF Forking!Transfer, Forking!Echo
  <2> QED
    BY <1>0, <1>1, <1>e, <2>2, <2>4, FkOneClient
<1>2. ASSUME v3' = [v3 EXCEPT ![c].pc = "end"],
             (a = FkSize /\ v2' = v2) \/ (v2' = [v2 EXCEPT !.faults = @ + 1])
      PROVE  Forking!IInv'
  <2>1. /\ v2' \in Forking!Parents /\ v2'.pc = v2.pc /\ v2'.client = v2.client /\ v2'.queue = v2.queue
        /\ v2'.faults = v2.faults \/ v2'.faults = v2.faults + 1
        /\ (v2'.faults = 0 => v2.faults = 0 /\ a = FkSize)
    BY <1>0, <1>2, FkFault DEF Forking!IInv
  <2>2. /\ v3' \in [FkClients -> Forking!Children] /\ (\A x \in FkClients : x # c => v3'[x] = v3[x]) /\ v3'[c].pc = "end"
    BY <1>0, <1>2 DEF Forking!Children
  <2> HIDE DEF g, n, a
  <2>3. Forking!FileTransfer(c)'
    BY <1>l, <1>f, <2>1, <2>2 DEF Forking!FileTransfer
  <2>4. Forking!Transfer(c)'
    BY <1>0, <1>l, <1>t, <2>1, <2>3 DEF Forking!Transfer, Forking!Echo
  <2> QED
    BY <1>0, <1>e, <2>1, <2>2, <2>4, FkOneClient
<1> QED
  BY <1>1, <1>2 DEF Forking!FileRead

LEMMA FkFileSend ==
  ASSUME Forking!IInv, v1' = v1, NEW c \in FkClients, Forking!FileSend(c)
  PROVE  Forking!IInv'
<1> DEFINE g == Forking!Got(c)
           n == Forking!Down(c)
           a == v3[c].at
<1>0. /\ v1 = "file" /\ v2' = v2 /\ v6' = v6 /\ v2 \in Forking!Parents
      /\ v6 \in [FkClients -> Forking!Users] /\ v4 \in BOOLEAN
      /\ v3 \in [FkClients -> Forking!Children] /\ v5 \in [FkClients -> Forking!Connections]
      /\ v3[c].pc \in {"write", "end"}
  BY DEF Forking!FileSend, Forking!IInv, Forking!TypeOK
<1>e. /\ ~Forking!Echo /\ Forking!FileTransfer(c) /\ g \in Nat /\ n \in Nat /\ a \in 0..FkSize
      /\ v5[c].down \in Seq(Int) /\ n = Len(v5[c].down) /\ v6[c].pc # "new" /\ ~Forking!Dead(c)
  BY <1>0, FkOf, FkLengths DEF Forking!Transfer, Forking!Echo, Forking!Dead
<1>t. g <= FkSize /\ (\A i \in 1..g : v6[c].got[i] = i) /\ (v6[c].pc = "done" /\ v2.faults = 0 => g = FkSize)
  BY FkOf DEF Forking!Transfer
<1>f. /\ \A i \in 1..n : v5[c].down[i] = g + i /\ g + i <= FkSize
      /\ "queue" \in v5[c].held /\ (v3[c].pc = "write" => g + n + 1 = a)
      /\ (v3[c].pc = "end" /\ v2.faults = 0 => g + n = FkSize)
  BY <1>0, <1>e DEF Forking!FileTransfer
<1>1. CASE v3[c].pc = "write" /\ v4' = v4 /\ v5' = [v5 EXCEPT ![c].down = Append(@, a)] /\ v3' = [v3 EXCEPT ![c].pc = "read"]
  <2> DEFINE d == Append(v5[c].down, a)
  <2>1. v5' = [v5 EXCEPT ![c].down = d]
    BY <1>1
  <2>2. d \in Seq(Int) /\ Len(d) = n + 1 /\ d[n + 1] = a /\ \A i \in 1..n : d[i] = v5[c].down[i]
    BY <1>e, FkAppend
  <2> HIDE DEF d
  <2>3. /\ v5' \in [FkClients -> Forking!Connections] /\ (\A x \in FkClients : x # c => v5'[x] = v5[x])
        /\ v5'[c].down = d /\ v5'[c].held = v5[c].held
    BY ZenonT(30), <1>0, <2>1, <2>2 DEF Forking!Connections
  <2>4. /\ v3' \in [FkClients -> Forking!Children] /\ (\A x \in FkClients : x # c => v3'[x] = v3[x])
        /\ v3'[c].pc = "read" /\ v3'[c].at = a
    BY Zenon, <1>0, <1>1 DEF Forking!Children
  <2>l. Forking!Got(c)' = g /\ Forking!Down(c)' = n + 1
    BY <1>0, <2>2, <2>3, FkLengths
  <2> HIDE DEF g, n, a
  <2>5. g + (n + 1) = a /\ a <= FkSize
    <3>1. g + n + 1 = a
      BY <1>1, <1>f
    <3> QED
      BY <1>e, <3>1, FkBounds
  <2>6. \A i \in 1..(n + 1) : d[i] = g + i /\ g + i <= FkSize
    <3> TAKE i \in 1..(n + 1)
    <3>1. i = n + 1 \/ i \in 1..n
      BY <1>e
    <3> QED
      BY <1>f, <2>2, <2>5, <3>1
  <2>7. Forking!FileTransfer(c)'
    BY <1>0, <1>f, <2>3, <2>4, <2>l, <2>5, <2>6 DEF Forking!FileTransfer
  <2>8. Forking!Transfer(c)'
    BY <1>0, <1>t, <2>7, <2>l DEF Forking!Transfer, Forking!Echo
  <2> QED
    BY Zenon, <1>0, <1>1, <1>e, <2>3, <2>4, <2>8, FkOneClient
<1>2. CASE v3[c].pc = "end" /\ v4' = TRUE /\ v5' = [v5 EXCEPT ![c].down = Append(@, 0)] /\ v3' = [v3 EXCEPT ![c].pc = "zombie"]
  <2> DEFINE d == Append(v5[c].down, 0)
  <2>1. v5' = [v5 EXCEPT ![c].down = d]
    BY <1>2
  <2>2. d \in Seq(Int) /\ Len(d) = n + 1 /\ d[n + 1] = 0 /\ \A i \in 1..n : d[i] = v5[c].down[i]
    BY <1>e, FkAppend
  <2> HIDE DEF d
  <2>3. /\ v5' \in [FkClients -> Forking!Connections] /\ (\A x \in FkClients : x # c => v5'[x] = v5[x])
        /\ v5'[c].down = d /\ v5'[c].held = v5[c].held
    BY ZenonT(30), <1>0, <2>1, <2>2 DEF Forking!Connections
  <2>4. /\ v3' \in [FkClients -> Forking!Children] /\ (\A x \in FkClients : x # c => v3'[x] = v3[x]) /\ v3'[c].pc = "zombie"
    BY Zenon, <1>0, <1>2 DEF Forking!Children
  <2>l. Forking!Got(c)' = g /\ Forking!Down(c)' = n + 1 /\ Forking!Dead(c)'
    BY <1>0, <2>2, <2>3, <2>4, FkLengths
  <2> HIDE DEF g, n, a
  <2>5. v2.faults = 0 => g + (n + 1) = FkSize + 1
    <3>1. v2.faults = 0 => g + n = FkSize
      BY <1>2, <1>f
    <3> QED
      BY <1>e, <3>1
  <2>6. \A i \in 1..(n + 1) : (d[i] = g + i /\ g + i <= FkSize) \/ (i = n + 1 /\ d[i] = 0)
    <3> TAKE i \in 1..(n + 1)
    <3>1. i = n + 1 \/ i \in 1..n
      BY <1>e
    <3> QED
      BY <1>f, <2>2, <3>1
  <2>7. Forking!FileTransfer(c)'
    BY <1>0, <2>3, <2>4, <2>l, <2>5, <2>6 DEF Forking!FileTransfer, Forking!END, Forking!FAILURE
  <2>8. Forking!Transfer(c)'
    BY <1>0, <1>t, <2>7, <2>l DEF Forking!Transfer, Forking!Echo
  <2> QED
    BY Zenon, <1>0, <1>2, <1>e, <2>3, <2>4, <2>8, FkOneClient
<1> QED
  BY Zenon, <1>1, <1>2, <1>f DEF Forking!FileSend, Forking!END

LEMMA FkEchoSend ==
  ASSUME Forking!IInv, v1' = v1, NEW c \in FkClients, Forking!EchoSend(c)
  PROVE  Forking!IInv'
<1> DEFINE g == Forking!Got(c)
           n == Forking!Down(c)
           m == Forking!Up(c)
           s == v6[c].sent
<1>0. /\ v2' = v2 /\ v3' = v3 /\ v4' = v4 /\ v2 \in Forking!Parents /\ v6[c].pc = "send"
      /\ v6 \in [FkClients -> Forking!Users] /\ v4 \in BOOLEAN /\ (v3[c].pc = "zombie" => v4)
      /\ v3 \in [FkClients -> Forking!Children] /\ v5 \in [FkClients -> Forking!Connections]
  BY DEF Forking!EchoSend, Forking!IInv, Forking!TypeOK
<1>e. /\ g \in Nat /\ n \in Nat /\ m \in Nat /\ s \in 0..FkSize
      /\ v5[c].up \in Seq(Int) /\ m = Len(v5[c].up) /\ (Forking!Echo => Forking!EchoTransfer(c) /\ Forking!HeldBy(c))
      /\ (v1 = "file" => Forking!FileTransfer(c)) /\ v2.faults \in Nat
  BY <1>0, FkOf, FkLengths DEF Forking!Transfer
<1>t. g <= FkSize /\ (\A i \in 1..g : v6[c].got[i] = i)
  BY FkOf DEF Forking!Transfer
<1>1. CASE s < FkSize /\ v6' = [v6 EXCEPT ![c].sent = @ + 1] /\ v5' = [v5 EXCEPT ![c].up = Append(@, s + 1)]
  <2> DEFINE u == Append(v5[c].up, s + 1)
             r == s + 1
  <2>1. r \in 0..FkSize /\ r \in Int /\ v6' = [v6 EXCEPT ![c].sent = r] /\ v5' = [v5 EXCEPT ![c].up = u]
    BY <1>1, <1>e, FkBounds
  <2>2. u \in Seq(Int) /\ Len(u) = m + 1 /\ u[m + 1] = r /\ \A i \in 1..m : u[i] = v5[c].up[i]
    BY <1>e, <2>1, FkAppend
  <2> HIDE DEF u, r
  <2>3. /\ v5' \in [FkClients -> Forking!Connections] /\ (\A x \in FkClients : x # c => v5'[x] = v5[x])
        /\ v5'[c].up = u /\ v5'[c].down = v5[c].down /\ v5'[c].eof = v5[c].eof /\ v5'[c].held = v5[c].held
    BY Zenon, <1>0, <2>1, <2>2 DEF Forking!Connections
  <2>4. /\ v6' \in [FkClients -> Forking!Users] /\ (\A x \in FkClients : x # c => v6'[x] = v6[x])
        /\ v6'[c].pc = "send" /\ v6'[c].sent = r /\ v6'[c].got = v6[c].got
    BY Zenon, <1>0, <2>1 DEF Forking!Users
  <2>5. Forking!Echo => Forking!HeldBy(c)'
    BY <1>0, <1>e, <2>3, <2>4, FkHeldSame
  <2>l. Forking!Got(c)' = g /\ Forking!Down(c)' = n /\ Forking!Up(c)' = m + 1 /\ (Forking!Dead(c)' <=> Forking!Dead(c))
    BY <1>0, <2>2, <2>3, <2>4, FkLengths DEF Forking!Dead
  <2> HIDE DEF g, n, m
  <2>6. ASSUME Forking!Echo PROVE Forking!EchoTransfer(c)'
    <3>1. /\ (\A i \in 1..n : v5[c].down[i] = g + i) /\ g + n <= FkSize /\ (v5[c].eof => s = FkSize)
          /\ v3[c].pc # "end" /\ (Forking!Dead(c) /\ v2.faults = 0 => g + n = FkSize)
      BY <1>e, <2>6 DEF Forking!EchoTransfer, g, n
    <3>2. ASSUME NEW k \in Nat, s = k + m, \A i \in 1..m : v5[c].up[i] = k + i
          PROVE  r = k + (m + 1) /\ \A i \in 1..(m + 1) : u[i] = k + i
      <4>1. r = k + (m + 1)
        BY <1>e, <3>2 DEF r
      <4>2. ASSUME NEW i \in 1..(m + 1) PROVE u[i] = k + i
        <5>1. i = m + 1 \/ i \in 1..m
          BY <1>e
        <5> QED
          BY <2>2, <3>2, <4>1, <5>1
      <4> QED
        BY <4>1, <4>2
    <3>3. v3[c].pc = "write" => v3[c].buf = g + n + 1 /\ s = g + n + 1 + m /\ \A i \in 1..m : v5[c].up[i] = g + n + 1 + i
      BY <1>e, <2>6 DEF Forking!EchoTransfer, Forking!SentAfter, g, n, m
    <3>4. v3[c].pc \in {"none", "read"} => s = g + n + m /\ \A i \in 1..m : v5[c].up[i] = g + n + i
      BY <1>e, <2>6 DEF Forking!EchoTransfer, Forking!SentAfter, g, n, m
    <3>5. g + n \in Nat /\ g + n + 1 \in Nat
      BY <1>e
    <3>6. v3[c].pc = "write" => v3[c].buf = g + n + 1 /\ r = g + n + 1 + (m + 1) /\ \A i \in 1..(m + 1) : u[i] = g + n + 1 + i
      BY <3>2, <3>3, <3>5
    <3>7. v3[c].pc \in {"none", "read"} => r = g + n + (m + 1) /\ \A i \in 1..(m + 1) : u[i] = g + n + i
      BY <3>2, <3>4, <3>5
    <3>8. ~v5[c].eof
      BY <1>1, <1>e, <3>1
    <3> HIDE DEF s
    <3> QED
      BY <1>0, <2>3, <2>4, <2>l, <3>1, <3>6, <3>7, <3>8 DEF Forking!EchoTransfer, Forking!SentAfter
  <2>7. v1 = "file" => Forking!FileTransfer(c)'
    BY <1>0, <1>e, <2>3, <2>4, <2>l DEF Forking!FileTransfer, g, n
  <2>8. Forking!Transfer(c)'
    BY <1>0, <1>t, <2>4, <2>6, <2>7, <2>l DEF Forking!Transfer, Forking!Echo
  <2> QED
    BY <1>0, <2>3, <2>4, <2>5, <2>8, FkOneClient
<1>2. CASE s = FkSize /\ v6' = [v6 EXCEPT ![c].pc = "wait"] /\ v5' = [v5 EXCEPT ![c].eof = TRUE]
  <2>3. /\ v5' \in [FkClients -> Forking!Connections] /\ (\A x \in FkClients : x # c => v5'[x] = v5[x])
        /\ v5'[c].up = v5[c].up /\ v5'[c].down = v5[c].down /\ v5'[c].held = v5[c].held
    BY Zenon, <1>0, <1>2 DEF Forking!Connections
  <2>4. /\ v6' \in [FkClients -> Forking!Users] /\ (\A x \in FkClients : x # c => v6'[x] = v6[x])
        /\ v6'[c].pc = "wait" /\ v6'[c].sent = s /\ v6'[c].got = v6[c].got
    BY Zenon, <1>0, <1>2 DEF Forking!Users
  <2>5. Forking!Echo => Forking!HeldBy(c)'
    BY Zenon, <1>0, <1>e, <2>3, <2>4, FkHeldSame
  <2>l. Forking!Got(c)' = g /\ Forking!Down(c)' = n /\ Forking!Up(c)' = m /\ (Forking!Dead(c)' <=> Forking!Dead(c))
    BY <1>0, <2>3, <2>4, FkLengths DEF Forking!Dead
  <2>6. ASSUME Forking!Echo PROVE Forking!EchoTransfer(c)'
    BY <1>0, <1>2, <1>e, <2>3, <2>4, <2>6, <2>l DEF Forking!EchoTransfer, Forking!SentAfter
  <2>7. v1 = "file" => Forking!FileTransfer(c)'
    BY <1>0, <1>e, <2>3, <2>4, <2>l DEF Forking!FileTransfer
  <2>8. Forking!Transfer(c)'
    BY <1>0, <1>t, <2>4, <2>6, <2>7, <2>l DEF Forking!Transfer, Forking!Echo
  <2> QED
    BY <1>0, <2>3, <2>4, <2>5, <2>8, FkOneClient
<1> QED
  BY <1>1, <1>2 DEF Forking!EchoSend

LEMMA FkEchoPrint ==
  ASSUME Forking!IInv, v1' = v1, NEW c \in FkClients, Forking!EchoPrint(c)
  PROVE  Forking!IInv'
<1> DEFINE g == Forking!Got(c)
           n == Forking!Down(c)
           m == Forking!Up(c)
           s == v5[c].down
<1>0. /\ Forking!Echo /\ v2' = v2 /\ v3' = v3 /\ v4' = v4 /\ v2 \in Forking!Parents /\ v6[c].pc \in {"send", "wait"}
      /\ v6 \in [FkClients -> Forking!Users] /\ v4 \in BOOLEAN /\ (v3[c].pc = "zombie" => v4)
      /\ v3 \in [FkClients -> Forking!Children] /\ v5 \in [FkClients -> Forking!Connections]
  BY DEF Forking!EchoPrint, Forking!IInv, Forking!TypeOK
<1>e. /\ g \in Nat /\ n \in Nat /\ m \in Nat /\ v1 # "file" /\ v6[c].got \in Seq(Int) /\ g = Len(v6[c].got)
      /\ s \in Seq(Int) /\ n = Len(s) /\ Forking!EchoTransfer(c) /\ Forking!HeldBy(c) /\ v2.faults \in Nat
  BY <1>0, FkOf, FkLengths DEF Forking!Transfer, Forking!Echo
<1>n. g \in Nat /\ n \in Nat
  BY <1>e
<1>t. g <= FkSize /\ (\A i \in 1..g : v6[c].got[i] = i)
  BY FkOf DEF Forking!Transfer
<1>g. /\ (\A i \in 1..n : s[i] = g + i) /\ g + n <= FkSize /\ (v5[c].eof => v6[c].sent = FkSize)
      /\ v3[c].pc # "end" /\ (Forking!Dead(c) /\ v2.faults = 0 => g + n = FkSize)
  BY Zenon, <1>e DEF Forking!EchoTransfer
<1>1. CASE s # <<>> /\ v6' = [v6 EXCEPT ![c].got = Append(@, Head(s))] /\ v5' = [v5 EXCEPT ![c].down = Tail(s)]
  <2> DEFINE d == Tail(s)
             r == Append(v6[c].got, Head(s))
  <2>1. v6' = [v6 EXCEPT ![c].got = r] /\ v5' = [v5 EXCEPT ![c].down = d]
    BY <1>1
  <2>2. d \in Seq(Int) /\ n > 0 /\ Len(d) = n - 1 /\ Head(s) = s[1] /\ Head(s) \in Int /\ \A i \in 1..(n - 1) : d[i] = s[i + 1]
    BY <1>1, <1>e, FkTail
  <2>3. r \in Seq(Int) /\ Len(r) = g + 1 /\ r[g + 1] = Head(s) /\ \A i \in 1..g : r[i] = v6[c].got[i]
    BY <1>e, <2>2, FkAppend
  <2> HIDE DEF d, r
  <2>4. /\ v5' \in [FkClients -> Forking!Connections] /\ (\A x \in FkClients : x # c => v5'[x] = v5[x])
        /\ v5'[c].up = v5[c].up /\ v5'[c].down = d /\ v5'[c].eof = v5[c].eof /\ v5'[c].held = v5[c].held
    BY Zenon, <1>0, <2>1, <2>2 DEF Forking!Connections
  <2>5. /\ v6' \in [FkClients -> Forking!Users] /\ (\A x \in FkClients : x # c => v6'[x] = v6[x])
        /\ v6'[c].pc = v6[c].pc /\ v6'[c].sent = v6[c].sent /\ v6'[c].got = r
    BY Zenon, <1>0, <2>1, <2>3 DEF Forking!Users
  <2>6. Forking!HeldBy(c)'
    BY <1>0, <1>e, <2>4, <2>5, FkHeldSame
  <2>l. Forking!Got(c)' = g + 1 /\ Forking!Down(c)' = n - 1 /\ Forking!Up(c)' = m /\ (Forking!Dead(c)' <=> Forking!Dead(c))
    BY <1>0, <2>2, <2>3, <2>4, <2>5, FkLengths DEF Forking!Dead
  <2> HIDE DEF g, n, m
  <2>7. /\ (g + 1) + (n - 1) = g + n /\ g + 1 <= FkSize /\ s[1] = g + 1 /\ 1 \in 1..n
    <3>1. 1 \in 1..n
      BY <1>e, <2>2
    <3>2. s[1] = g + 1 /\ g + n <= FkSize
      BY <1>g, <3>1
    <3>3. (g + 1) + (n - 1) = g + n /\ g + 1 <= FkSize
      BY <1>n, <3>1, <3>2, FkBounds
    <3> QED
      BY <3>1, <3>2, <3>3
  <2>8. \A i \in 1..(n - 1) : d[i] = (g + 1) + i
    <3> TAKE i \in 1..(n - 1)
    <3>1. i \in Int /\ i + 1 \in 1..n /\ d[i] = s[i + 1]
      <4>1. n \in Int /\ \A k \in 1..(n - 1) : d[k] = s[k + 1]
        BY <1>n, <2>2
      <4> QED
        BY <4>1
    <3>2. d[i] = g + (i + 1)
      BY <1>g, <3>1
    <3>3. g + (i + 1) = (g + 1) + i
      BY <1>n, <3>1
    <3> QED
      BY <3>2, <3>3
  <2>9. \A i \in 1..(g + 1) : r[i] = i
    <3> TAKE i \in 1..(g + 1)
    <3>1. i = g + 1 \/ i \in 1..g
      BY <1>e
    <3> QED
      BY Zenon, <1>t, <2>2, <2>3, <2>7, <3>1
  <2>10. /\ (v3[c].pc = "write" => v3[c].buf = g + n + 1 /\ v6[c].sent = g + n + 1 + m
                                   /\ \A i \in 1..m : v5[c].up[i] = g + n + 1 + i)
         /\ (v3[c].pc \in {"none", "read"} => v6[c].sent = g + n + m /\ \A i \in 1..m : v5[c].up[i] = g + n + i)
    BY Zenon, <1>e DEF Forking!EchoTransfer, Forking!SentAfter, g, n, m
  <2>11. Forking!EchoTransfer(c)'
    BY <1>0, <1>g, <2>4, <2>5, <2>l, <2>7, <2>8, <2>10 DEF Forking!EchoTransfer, Forking!SentAfter
  <2>12. Forking!Transfer(c)'
    BY <1>0, <1>e, <2>5, <2>7, <2>9, <2>11, <2>l DEF Forking!Transfer
  <2> QED
    BY <1>0, <2>4, <2>5, <2>6, <2>12, FkOneClient
<1>2. CASE s = <<>> /\ v5[c].held = {} /\ v6' = [v6 EXCEPT ![c].pc = "done"] /\ v5' = v5
  <2>5. /\ v6' \in [FkClients -> Forking!Users] /\ (\A x \in FkClients : x # c => v6'[x] = v6[x])
        /\ v6'[c].pc = "done" /\ v6'[c].sent = v6[c].sent /\ v6'[c].got = v6[c].got
    BY Zenon, <1>0, <1>2 DEF Forking!Users
  <2>6. Forking!HeldBy(c)'
    BY <1>0, <1>2, <1>e, <2>5, FkHeldSame
  <2>l. Forking!Got(c)' = g /\ Forking!Down(c)' = n /\ Forking!Up(c)' = m /\ (Forking!Dead(c)' <=> Forking!Dead(c))
    BY <1>0, <1>2, <2>5, FkLengths DEF Forking!Dead
  <2>7. v2.faults = 0 => g = FkSize
    <3>1. v3[c].pc \notin {"read", "write"} /\ (v3[c].pc = "none" => v2.faults # 0)
      BY <1>0, <1>2, <1>e DEF Forking!HeldBy
    <3>2. v3[c].pc \in {"none", "read", "write", "end", "zombie", "reaped"} /\ n = 0
      BY <1>0, <1>2, <1>e DEF Forking!Children
    <3>3. Forking!Dead(c) \/ v2.faults # 0
      BY <1>g, <3>1, <3>2 DEF Forking!Dead
    <3> QED
      BY <1>e, <1>g, <3>2, <3>3
  <2>8. Forking!EchoTransfer(c)'
    BY <1>0, <1>2, <1>e, <2>5, <2>l DEF Forking!EchoTransfer, Forking!SentAfter
  <2>9. Forking!Transfer(c)'
    BY <1>0, <1>e, <1>t, <2>5, <2>7, <2>8, <2>l DEF Forking!Transfer
  <2> QED
    BY <1>0, <1>2, <2>5, <2>6, <2>9, FkOneClient
<1> QED
  BY <1>1, <1>2 DEF Forking!EchoPrint

LEMMA FkFileReceive ==
  ASSUME Forking!IInv, v1' = v1, NEW c \in FkClients, Forking!FileReceive(c)
  PROVE  Forking!IInv'
<1> DEFINE g == Forking!Got(c)
           n == Forking!Down(c)
           s == v5[c].down
           h == Head(s)
<1>0. /\ v1 = "file" /\ v2' = v2 /\ v3' = v3 /\ v4' = v4 /\ v2 \in Forking!Parents /\ v6[c].pc = "wait" /\ s # <<>>
      /\ v6 \in [FkClients -> Forking!Users] /\ v4 \in BOOLEAN /\ (v3[c].pc = "zombie" => v4)
      /\ v3 \in [FkClients -> Forking!Children] /\ v5 \in [FkClients -> Forking!Connections]
  BY DEF Forking!FileReceive, Forking!IInv, Forking!TypeOK
<1>e. /\ g \in Nat /\ n \in Nat /\ ~Forking!Echo /\ v6[c].got \in Seq(Int) /\ g = Len(v6[c].got)
      /\ s \in Seq(Int) /\ n = Len(s) /\ Forking!FileTransfer(c) /\ v2.faults \in Nat
  BY <1>0, FkOf, FkLengths DEF Forking!Transfer, Forking!Echo
<1>n. g \in Nat /\ n \in Nat
  BY <1>e
<1>t. g <= FkSize /\ (\A i \in 1..g : v6[c].got[i] = i)
  BY FkOf DEF Forking!Transfer
<1>h. /\ Tail(s) \in Seq(Int) /\ n > 0 /\ Len(Tail(s)) = n - 1 /\ h = s[1] /\ h \in Int
      /\ \A i \in 1..(n - 1) : Tail(s)[i] = s[i + 1]
  BY <1>0, <1>e, FkTail
<1>f. \A i \in 1..n : \/ s[i] = g + i /\ g + i <= FkSize
                      \/ /\ i = n /\ s[i] \in {0, -1} /\ Forking!Dead(c)
                         /\ s[i] = 0 /\ v2.faults = 0 => g + i = FkSize + 1
  BY <1>e DEF Forking!FileTransfer, Forking!END, Forking!FAILURE
<1>i. 1 \in 1..n
  BY <1>e, <1>h
<1>1. CASE /\ h \in {0, -1} /\ v5' = [v5 EXCEPT ![c].down = <<>>, ![c].held = {}]
           /\ v6' = [v6 EXCEPT ![c].pc = IF h = 0 THEN "done" ELSE "failed"]
  <2> DEFINE p == IF h = 0 THEN "done" ELSE "failed"
  <2>1. v6' = [v6 EXCEPT ![c].pc = p] /\ p \in {"done", "failed"} /\ (p = "done" => h = 0)
    BY <1>1
  <2> HIDE DEF p
  <2>4. /\ v5' \in [FkClients -> Forking!Connections] /\ (\A x \in FkClients : x # c => v5'[x] = v5[x]) /\ v5'[c].down = <<>>
    <3>1. <<>> \in Seq(Int)
      OBVIOUS
    <3>2. v5[c] \in Forking!Connections
      BY <1>0
    <3> DEFINE e == [v5[c] EXCEPT !.down = <<>>, !.held = {}]
    <3>3. e \in Forking!Connections /\ e.down = <<>>
      BY Zenon, <3>1, <3>2 DEF Forking!Connections
    <3>4. v5' = [v5 EXCEPT ![c] = e]
      BY Zenon, <1>0, <1>1, <3>2
    <3> HIDE DEF e
    <3> QED
      BY <1>0, <3>3, <3>4
  <2>5. /\ v6' \in [FkClients -> Forking!Users] /\ (\A x \in FkClients : x # c => v6'[x] = v6[x])
        /\ v6'[c].pc = p /\ v6'[c].got = v6[c].got
    BY Zenon, <1>0, <2>1 DEF Forking!Users
  <2>l. Forking!Got(c)' = g /\ Forking!Down(c)' = 0 /\ (Forking!Dead(c)' <=> Forking!Dead(c))
    BY <1>0, <2>4, <2>5, FkLengths DEF Forking!Dead
  <2>6. n = 1 /\ Forking!Dead(c) /\ (h = 0 /\ v2.faults = 0 => g = FkSize)
    <3>1. s[1] # g + 1
      BY <1>1, <1>e, <1>h
    <3>2. n = 1 /\ Forking!Dead(c) /\ (s[1] = 0 /\ v2.faults = 0 => g + 1 = FkSize + 1)
      BY <1>f, <1>i, <3>1
    <3> QED
      BY <1>e, <1>h, <3>2, FkBounds
  <2> HIDE DEF g, n, h
  <2>7. Forking!FileTransfer(c)'
    BY <1>0, <2>l, <2>6 DEF Forking!FileTransfer, Forking!Dead
  <2>8. Forking!Transfer(c)'
    BY <1>0, <1>e, <1>t, <2>1, <2>5, <2>6, <2>7, <2>l DEF Forking!Transfer, Forking!Echo
  <2> QED
    BY Zenon, <1>0, <1>e, <2>1, <2>4, <2>5, <2>8, FkOneClient
<1>2. CASE h \notin {0, -1} /\ v6' = [v6 EXCEPT ![c].got = Append(@, h)] /\ v5' = [v5 EXCEPT ![c].down = Tail(s)]
  <2> DEFINE d == Tail(s)
             r == Append(v6[c].got, h)
  <2>1. v6' = [v6 EXCEPT ![c].got = r] /\ v5' = [v5 EXCEPT ![c].down = d]
    BY <1>2
  <2>3. r \in Seq(Int) /\ Len(r) = g + 1 /\ r[g + 1] = h /\ \A i \in 1..g : r[i] = v6[c].got[i]
    BY <1>e, <1>h, FkAppend
  <2>2. d \in Seq(Int) /\ Len(d) = n - 1 /\ \A i \in 1..(n - 1) : d[i] = s[i + 1]
    BY <1>h
  <2> HIDE DEF d, r
  <2>4. /\ v5' \in [FkClients -> Forking!Connections] /\ (\A x \in FkClients : x # c => v5'[x] = v5[x])
        /\ v5'[c].down = d /\ v5'[c].held = v5[c].held
    BY ZenonT(30), <1>0, <2>1, <2>2 DEF Forking!Connections
  <2>5. /\ v6' \in [FkClients -> Forking!Users] /\ (\A x \in FkClients : x # c => v6'[x] = v6[x])
        /\ v6'[c].pc = "wait" /\ v6'[c].got = r
    BY Zenon, <1>0, <2>1, <2>3 DEF Forking!Users
  <2>l. Forking!Got(c)' = g + 1 /\ Forking!Down(c)' = n - 1 /\ (Forking!Dead(c)' <=> Forking!Dead(c))
    BY <1>0, <2>2, <2>3, <2>4, <2>5, FkLengths DEF Forking!Dead
  <2>6. h = g + 1 /\ g + 1 <= FkSize
    BY <1>2, <1>f, <1>h, <1>i
  <2> HIDE DEF g, n, h
  <2>7. (g + 1) + (n - 1) = g + n
    BY <1>n
  <2>8. \A i \in 1..(n - 1) :
          \/ d[i] = (g + 1) + i /\ (g + 1) + i <= FkSize
          \/ /\ i = n - 1 /\ d[i] \in {0, -1} /\ Forking!Dead(c)
             /\ d[i] = 0 /\ v2.faults = 0 => (g + 1) + i = FkSize + 1
    <3> TAKE i \in 1..(n - 1)
    <3>1. i \in Int /\ i + 1 \in 1..n /\ d[i] = s[i + 1]
      <4>1. n \in Int /\ \A k \in 1..(n - 1) : d[k] = s[k + 1]
        BY <1>n, <2>2
      <4> QED
        BY <4>1
    <3>2. g + (i + 1) = (g + 1) + i /\ (i + 1 = n => i = n - 1)
      BY <1>n, <3>1
    <3>3. \/ s[i + 1] = g + (i + 1) /\ g + (i + 1) <= FkSize
          \/ /\ i + 1 = n /\ s[i + 1] \in {0, -1} /\ Forking!Dead(c)
             /\ s[i + 1] = 0 /\ v2.faults = 0 => g + (i + 1) = FkSize + 1
      BY <1>f, <3>1
    <3> QED
      BY <3>1, <3>2, <3>3
  <2>9. \A i \in 1..(g + 1) : r[i] = i
    <3> TAKE i \in 1..(g + 1)
    <3>1. i = g + 1 \/ i \in 1..g
      BY <1>e
    <3> QED
      BY <1>t, <2>3, <2>6, <3>1
  <2>10. /\ (v3[c].pc = "none" => g + n = 0) /\ (v3[c].pc = "read" => g + n = v3[c].at)
         /\ (v3[c].pc = "write" => g + n + 1 = v3[c].at) /\ (v3[c].pc = "end" /\ v2.faults = 0 => g + n = FkSize)
         /\ (~Forking!Dead(c) => "queue" \in v5[c].held)
    BY Zenon, <1>0, <1>e DEF Forking!FileTransfer, g, n
  <2>11. Forking!FileTransfer(c)'
    BY <1>0, <2>4, <2>5, <2>l, <2>7, <2>8, <2>10 DEF Forking!FileTransfer, Forking!END, Forking!FAILURE
  <2>12. Forking!Transfer(c)'
    BY <1>0, <1>e, <2>5, <2>6, <2>9, <2>11, <2>l DEF Forking!Transfer, Forking!Echo
  <2> QED
    BY <1>0, <1>e, <2>4, <2>5, <2>12, FkOneClient
<1> QED
  BY <1>1, <1>2 DEF Forking!FileReceive, Forking!END, Forking!FAILURE

LEMMA FkKill ==
  ASSUME Forking!IInv, v1' = v1, NEW c \in FkClients, Forking!KillFileClient(c)
  PROVE  Forking!IInv'
<1>0. /\ v1 = "file" /\ v6[c].pc = "wait" /\ v2' = [v2 EXCEPT !.faults = @ + 1] /\ v3' = v3 /\ v4' = v4 /\ v5' = v5
      /\ v6' = [v6 EXCEPT ![c].pc = "killed"] /\ v4 \in BOOLEAN /\ (v3[c].pc = "zombie" => v4)
      /\ v6 \in [FkClients -> Forking!Users]
      /\ v3 \in [FkClients -> Forking!Children] /\ v5 \in [FkClients -> Forking!Connections]
  BY DEF Forking!KillFileClient, Forking!IInv, Forking!TypeOK
<1>1. /\ v2' \in Forking!Parents /\ v2'.pc = v2.pc /\ v2'.client = v2.client /\ v2'.queue = v2.queue
      /\ v2'.faults = v2.faults + 1 /\ v2'.faults # 0
  BY <1>0, FkFault DEF Forking!IInv
<1>2. /\ v6' \in [FkClients -> Forking!Users] /\ (\A x \in FkClients : x # c => v6'[x] = v6[x])
      /\ v6'[c].pc = "killed" /\ v6'[c].got = v6[c].got /\ v6'[c].sent = v6[c].sent
  BY Zenon, <1>0 DEF Forking!Users
<1>3. Forking!Transfer(c)'
  <2>1. v3'[c] = v3[c] /\ v5'[c] = v5[c] /\ Forking!Transfer(c)
    BY <1>0 DEF Forking!IInv
  <2> QED
    BY <1>0, <1>1, <1>2, <2>1, FkTransferSame
<1>4. ~Forking!Echo
  BY <1>0 DEF Forking!Echo
<1> QED
  BY <1>0, <1>1, <1>2, <1>3, <1>4, FkOneClient

LEMMA FkNext ==
  ASSUME Forking!IInv, Forking!Next \/ UNCHANGED <<v1, v2, v3, v4, v5, v6>>
  PROVE  Forking!IInv'
<1>1. ASSUME Forking!Next PROVE Forking!IInv'
  <2>1. CASE \E c \in FkClients :
               \/ Forking!Ask(c) \/ Forking!EchoRead(c) \/ Forking!EchoWrite(c) \/ Forking!FileOpen(c) \/ Forking!FileRead(c)
               \/ Forking!FileSend(c) \/ Forking!EchoSend(c) \/ Forking!EchoPrint(c) \/ Forking!FileReceive(c)
               \/ Forking!KillFileClient(c)
    BY <1>1, <2>1, FkAsk, FkEchoRead, FkEchoWrite, FkFileOpen, FkFileRead, FkFileSend, FkEchoSend, FkEchoPrint,
       FkFileReceive, FkKill DEF Forking!Next
  <2> QED
    BY <1>1, <2>1, FkAccept, FkAcceptFails, FkFork, FkForkFails, FkClose, FkReaper DEF Forking!Next
<1>2. CASE UNCHANGED <<v1, v2, v3, v4, v5, v6>>
  <2>0. v1' = v1 /\ v2' = v2 /\ v3' = v3 /\ v4' = v4 /\ v5' = v5 /\ v6' = v6 /\ (Forking!Echo' <=> Forking!Echo)
    BY <1>2 DEF Forking!Echo
  <2>1. Forking!TypeOK' /\ \A c \in FkClients : v3'[c].pc = "zombie" => v4'
    BY <2>0 DEF Forking!IInv, Forking!TypeOK
  <2>2. Forking!InLine'
    BY <2>0 DEF Forking!IInv, Forking!InLine, Forking!ToBeServed
  <2>3. Forking!Echo => \A c \in FkClients : Forking!HeldBy(c)'
    BY <2>0 DEF Forking!IInv, Forking!HeldBy
  <2>4. ASSUME NEW c \in FkClients PROVE Forking!Transfer(c)'
    <3>1. v3'[c] = v3[c] /\ v5'[c] = v5[c] /\ v6'[c] = v6[c] /\ v2'.faults = v2.faults /\ Forking!Transfer(c)
      BY <2>0 DEF Forking!IInv
    <3> QED
      BY <2>0, <3>1, FkTransferSame
  <2> QED
    BY <2>0, <2>1, <2>2, <2>3, <2>4 DEF Forking!IInv
<1> QED
  BY <1>1, <1>2

LEMMA FkSafe ==
  ASSUME Forking!IInv
  PROVE  Forking!NothingLeftBehind /\ Forking!TransfersComplete
<1>1. Forking!NothingLeftBehind
  BY Zenon DEF Forking!IInv, Forking!NothingLeftBehind, Forking!TypeOK, Forking!HeldBy, Forking!Connections
<1>2. ASSUME NEW c \in FkClients
      PROVE  /\ Forking!IsPrefix(v6[c].got, Forking!Data)
             /\ v6[c].pc = "done" /\ Forking!Faulty = 0 => v6[c].got = Forking!Data
  <2> DEFINE g == Forking!Got(c)
             r == v6[c].got
  <2>1. g \in Nat /\ r \in Seq(Int) /\ g = Len(r) /\ g <= FkSize /\ DOMAIN r = 1..g /\ \A i \in 1..g : r[i] = i
    BY FkOf, FkLengths DEF Forking!Transfer
  <2>2. v6[c].pc = "done" /\ v2.faults = 0 => g = FkSize
    BY FkOf DEF Forking!Transfer
  <2> HIDE DEF g, r
  <2>3. Forking!Data \in Seq(Int) /\ Len(Forking!Data) = FkSize /\ \A i \in 1..FkSize : Forking!Data[i] = i
    BY FkBounds DEF Forking!Data
  <2>4. Forking!IsPrefix(r, Forking!Data)
    <3>1. Len(r) <= Len(Forking!Data)
      BY <2>1, <2>3
    <3>2. \A i \in 1..Len(r) : i \in 1..FkSize
      BY <2>1, FkBounds
    <3>3. \A i \in 1..Len(r) : r[i] = Forking!Data[i]
      BY <2>1, <2>3, <3>2
    <3>4. SubSeq(r, 1, Len(r)) = SubSeq(Forking!Data, 1, Len(r))
      <4>1. /\ SubSeq(Forking!Data, 1, Len(r)) \in Seq(Int) /\ Len(SubSeq(Forking!Data, 1, Len(r))) = Len(r)
            /\ \A i \in 1..Len(r) : SubSeq(Forking!Data, 1, Len(r))[i] = Forking!Data[i]
        BY <2>1, <2>3, <3>1
      <4>2. /\ SubSeq(r, 1, Len(r)) \in Seq(Int) /\ Len(SubSeq(r, 1, Len(r))) = Len(r)
            /\ \A i \in 1..Len(r) : SubSeq(r, 1, Len(r))[i] = r[i]
        BY <2>1
      <4> HIDE DEF r
      <4> QED
        BY <3>3, <4>1, <4>2, SeqEqual
    <3> QED
      BY <3>1, <3>4 DEF Forking!IsPrefix
  <2>5. g = FkSize => r = Forking!Data
    BY <2>1, <2>3, SeqEqual
  <2> QED
    BY <2>2, <2>4, <2>5 DEF Forking!Faulty, r
<1> QED
  BY <1>1, <1>2 DEF Forking!TransfersComplete

-----------------------------------------------------------------------------
(* Capabilities.  What the system calls make of a process.                 *)

\* The process with field f set is one: written once for each field.
LEMMA CapFields ==
  ASSUME NEW q \in Caps!Processes
  PROVE  /\ q.p \subseteq CapNames /\ q.e \subseteq CapNames /\ q.i \subseteq CapNames /\ q.b \subseteq CapNames /\ q.a \subseteq CapNames
         /\ q.uid \in Nat /\ q.n \in Nat /\ q.bits \subseteq Caps!Bits
BY DEF Caps!Processes, Caps!Labels

\* capset(): the effective and the permitted set never grow, and of the
\* ambient set what is not permitted and inheritable is lost.
LEMMA CapModify ==
  ASSUME NEW q \in Caps!Processes, NEW set \in {"p", "e", "i"}, NEW c \in CapNames, NEW on \in BOOLEAN
  PROVE  LET r == Caps!modifyCapSetting(q, set, c, on) IN
         /\ r \in Caps!Processes /\ r.n = q.n /\ r.b = q.b /\ r.bits = q.bits /\ r.uid = q.uid /\ r.gid = q.gid /\ r.groups = q.groups
         /\ r.pc \in {q.pc, "failed"}
         /\ set = "i" /\ on /\ r.pc # "failed" => r.p = q.p /\ r.e = q.e /\ r.i = q.i \cup {c} /\ r.a = q.a \cap q.p \cap (q.i \cup {c})
<1> DEFINE new(s) == IF s # set THEN q[s] ELSE IF on THEN q[s] \cup {c} ELSE q[s] \ {c}
           r == Caps!modifyCapSetting(q, set, c, on)
<1>1. new("p") \in SUBSET CapNames /\ new("e") \in SUBSET CapNames /\ new("i") \in SUBSET CapNames
  BY CapFields
<1>2. r = IF Caps!CapSetAllowed(q, new("p"), new("e"), new("i"))
          THEN [q EXCEPT !.p = new("p"), !.e = new("e"), !.i = new("i"), !.a = q.a \cap new("p") \cap new("i")]
          ELSE [q EXCEPT !.pc = "failed"]
  BY DEF Caps!modifyCapSetting, Caps!CapSet
<1>3. set = "i" /\ on => new("p") = q.p /\ new("e") = q.e /\ new("i") = q.i \cup {c}
  OBVIOUS
<1>4. q.a \cap new("p") \cap new("i") \in SUBSET CapNames
  BY CapFields
<1> HIDE DEF new, r
<1>5. CASE Caps!CapSetAllowed(q, new("p"), new("e"), new("i"))
  <2> DEFINE pp == new("p")
             ee == new("e")
             ii == new("i")
             aa == q.a \cap pp \cap ii
  <2>1. /\ r = [q EXCEPT !.p = pp, !.e = ee, !.i = ii, !.a = aa]
        /\ pp \in SUBSET CapNames /\ ee \in SUBSET CapNames /\ ii \in SUBSET CapNames /\ aa \in SUBSET CapNames
    BY <1>1, <1>2, <1>4, <1>5
  <2> HIDE DEF pp, ee, ii, aa
  <2>2. r \in Caps!Processes
    BY <2>1 DEF Caps!Processes, Caps!Labels
  <2>3. /\ r.pc = q.pc /\ r.p = pp /\ r.e = ee /\ r.i = ii /\ r.a = aa
        /\ r.n = q.n /\ r.b = q.b /\ r.bits = q.bits /\ r.uid = q.uid /\ r.gid = q.gid /\ r.groups = q.groups
    BY <2>1 DEF Caps!Processes, Caps!Labels
  <2> QED
    BY <1>3, <2>2, <2>3 DEF r, pp, ee, ii, aa
<1>6. CASE ~Caps!CapSetAllowed(q, new("p"), new("e"), new("i"))
  BY <1>2, <1>6 DEF Caps!Processes, Caps!Labels, r
<1> QED
  BY <1>5, <1>6 DEF r

\* setresuid(): what it leaves, and that nothing is lost when the securebit
\* says so.
LEMMA CapSetUid ==
  ASSUME NEW q \in Caps!Processes, NEW u \in Nat
  PROVE  LET r == Caps!SetUid(q, u) IN
         /\ r \in Caps!Processes /\ r.uid = u /\ r.gid = q.gid /\ r.groups = q.groups /\ r.pc = q.pc /\ r.n = q.n
         /\ r.bits = q.bits /\ r.i = q.i /\ r.b = q.b
         /\ q.a = {} => r.a = {}
<1> DEFINE leaves == q.uid = 0 /\ u # 0 /\ "s" \notin q.bits
           keeps == "k" \in q.bits
           e == IF leaves THEN {} ELSE q.e
           p == IF leaves /\ ~keeps THEN {} ELSE q.p
           a == IF leaves THEN {} ELSE q.a
<1>1. Caps!SetUid(q, u) = [q EXCEPT !.uid = u, !.e = e, !.p = p, !.a = a]
  BY DEF Caps!SetUid
<1>2. e \in SUBSET CapNames /\ p \in SUBSET CapNames /\ a \in SUBSET CapNames /\ (q.a = {} => a = {})
  BY CapFields
<1> HIDE DEF e, p, a
<1>3. [q EXCEPT !.uid = u, !.e = e, !.p = p, !.a = a] \in Caps!Processes
  BY <1>2 DEF Caps!Processes, Caps!Labels
<1> QED
  BY <1>1, <1>2, <1>3 DEF Caps!Processes, Caps!Labels

\* execve(): root gets what is inheritable, others what is ambient.
LEMMA CapExecve ==
  ASSUME NEW q \in Caps!Processes
  PROVE  LET r == Caps!Execve(q) IN
         /\ r \in Caps!Processes /\ r.pc = "exec" /\ r.e = r.p /\ r.i = q.i /\ r.uid = q.uid /\ r.gid = q.gid /\ r.groups = q.groups
         /\ r.n = q.n /\ r.b = q.b /\ r.bits = q.bits
         /\ q.uid # 0 => r.p = q.a
         /\ q.uid = 0 /\ q.bits = {} => q.b \subseteq r.e
<1> DEFINE new == IF q.uid = 0 /\ "r" \notin q.bits THEN q.i \cup q.b \cup q.a ELSE q.a
<1>1. Caps!Execve(q) = [q EXCEPT !.pc = "exec", !.p = new, !.e = new]
  BY DEF Caps!Execve
<1>2. new \in SUBSET CapNames /\ (q.uid # 0 => new = q.a) /\ (q.uid = 0 /\ q.bits = {} => q.b \subseteq new)
  BY CapFields
<1> HIDE DEF new
<1>3. [q EXCEPT !.pc = "exec", !.p = new, !.e = new] \in Caps!Processes
  BY <1>2 DEF Caps!Processes, Caps!Labels
<1> QED
  BY <1>1, <1>2, <1>3 DEF Caps!Processes, Caps!Labels

LEMMA CapPc ==
  ASSUME NEW q \in Caps!Processes, NEW l \in Caps!Labels
  PROVE  LET r == [q EXCEPT !.pc = l] IN
         /\ r \in Caps!Processes /\ r.pc = l /\ r.n = q.n /\ r.b = q.b /\ r.bits = q.bits /\ r.uid = q.uid /\ r.gid = q.gid
         /\ r.groups = q.groups /\ r.p = q.p /\ r.e = q.e /\ r.i = q.i /\ r.a = q.a
BY DEF Caps!Processes, Caps!Labels

LEMMA CapFail ==
  ASSUME NEW q \in Caps!Processes
  PROVE  /\ [q EXCEPT !.pc = "failed"] \in Caps!Processes
         /\ [q EXCEPT !.pc = "failed"].pc = "failed" /\ [q EXCEPT !.pc = "failed"].n = q.n
         /\ [q EXCEPT !.pc = "failed"].uid = q.uid /\ [q EXCEPT !.pc = "failed"].gid = q.gid
         /\ [q EXCEPT !.pc = "failed"].groups = q.groups
BY DEF Caps!Processes, Caps!Labels

LEMMA CapGroups ==
  ASSUME NEW q \in Caps!Processes, NEW u \in Nat, NEW l \in Caps!Labels
  PROVE  LET r == [q EXCEPT !.groups = u, !.pc = l] IN
         /\ r \in Caps!Processes /\ r.pc = l /\ r.groups = u /\ r.gid = q.gid
         /\ r.n = q.n /\ r.i = q.i /\ r.a = q.a /\ r.uid = q.uid /\ r.bits = q.bits
BY DEF Caps!Processes, Caps!Labels

LEMMA CapGid ==
  ASSUME NEW q \in Caps!Processes, NEW u \in Nat, NEW l \in Caps!Labels
  PROVE  LET r == [q EXCEPT !.gid = u, !.pc = l] IN
         /\ r \in Caps!Processes /\ r.pc = l /\ r.gid = u /\ r.groups = q.groups
         /\ r.n = q.n /\ r.i = q.i /\ r.a = q.a /\ r.uid = q.uid /\ r.bits = q.bits
BY DEF Caps!Processes, Caps!Labels

LEMMA CapCount ==
  ASSUME NEW q \in Caps!Processes
  PROVE  LET r == [q EXCEPT !.n = @ + 1] IN
         /\ r \in Caps!Processes /\ r.pc = q.pc /\ r.n = q.n + 1 /\ r.b = q.b /\ r.bits = q.bits /\ r.uid = q.uid /\ r.gid = q.gid
         /\ r.groups = q.groups /\ r.p = q.p /\ r.e = q.e /\ r.i = q.i /\ r.a = q.a
<1>1. q.n + 1 \in Nat
  BY CapFields
<1> QED
  BY <1>1 DEF Caps!Processes, Caps!Labels

LEMMA CapSecurebits ==
  ASSUME NEW q \in Caps!Processes, NEW bits \in SUBSET Caps!Bits
  PROVE  LET r == Caps!set_securebits(q, bits) IN
         /\ r \in Caps!Processes /\ r.pc \in {q.pc, "failed"} /\ (r.pc # "failed" => r.bits = bits) /\ r.n = q.n /\ r.b = q.b
         /\ r.uid = q.uid /\ r.gid = q.gid /\ r.groups = q.groups /\ r.i = q.i /\ r.a = q.a
<1>1. CASE "SETPCAP" \in q.e
  <2>1. Caps!set_securebits(q, bits) = [q EXCEPT !.bits = bits]
    BY <1>1 DEF Caps!set_securebits
  <2> QED
    BY <2>1 DEF Caps!Processes, Caps!Labels
<1>2. CASE "SETPCAP" \notin q.e
  <2>1. Caps!set_securebits(q, bits) = [q EXCEPT !.pc = "failed"]
    BY <1>2 DEF Caps!set_securebits
  <2> QED
    BY <2>1 DEF Caps!Processes, Caps!Labels
<1> QED
  BY <1>1, <1>2

\* The capabilities of the list so far, raised, stay raised.
LEMMA CapRaise ==
  ASSUME NEW q \in Caps!Processes, NEW c \in CapNames, NEW ambient \in BOOLEAN, q.a \subseteq q.p \cap q.i
  PROVE  LET r == Caps!raiseCap(q, c, ambient) IN
         /\ r \in Caps!Processes /\ r.pc \in {q.pc, "failed"} /\ r.n = q.n /\ r.uid = q.uid /\ r.gid = q.gid /\ r.groups = q.groups
         /\ r.pc # "failed" => /\ r.i = q.i \cup {c} /\ r.a = (IF ambient THEN q.a \cup {c} ELSE q.a)
                               /\ r.a \subseteq r.p \cap r.i
<1> DEFINE m == Caps!modifyCapSetting(q, "i", c, TRUE)
           r == Caps!raiseCap(q, c, ambient)
<1>1. /\ m \in Caps!Processes /\ m.n = q.n /\ m.uid = q.uid /\ m.gid = q.gid /\ m.groups = q.groups /\ m.pc \in {q.pc, "failed"}
      /\ m.pc # "failed" => m.p = q.p /\ m.i = q.i \cup {c} /\ m.a = q.a \cap q.p \cap (q.i \cup {c})
  BY CapModify
<1>2. m.pc # "failed" => m.a = q.a
  BY <1>1
<1>3. r = IF m.pc = "failed" \/ ~ambient THEN m
          ELSE IF Caps!AmbientAllowed(m, c) THEN [m EXCEPT !.a = m.a \cup {c}] ELSE [m EXCEPT !.pc = "failed"]
  BY DEF Caps!raiseCap
<1> HIDE DEF m, r
<1>4. CASE m.pc = "failed" \/ ~ambient
  BY <1>1, <1>2, <1>3, <1>4 DEF r
<1>5. CASE ~(m.pc = "failed" \/ ~ambient) /\ Caps!AmbientAllowed(m, c)
  <2> DEFINE a == m.a \cup {c}
  <2>1. r = [m EXCEPT !.a = a] /\ c \in m.p \cap m.i
    BY <1>3, <1>5 DEF Caps!AmbientAllowed
  <2>2. a \in SUBSET CapNames
    BY <1>1, CapFields
  <2> HIDE DEF a
  <2>3. r \in Caps!Processes
    BY <1>1, <2>1, <2>2 DEF Caps!Processes, Caps!Labels
  <2>4. /\ r.pc = m.pc /\ r.n = m.n /\ r.uid = m.uid /\ r.gid = m.gid /\ r.groups = m.groups /\ r.p = m.p /\ r.i = m.i
        /\ r.a = a
    BY <1>1, <2>1 DEF Caps!Processes, Caps!Labels
  <2> QED
    BY <1>1, <1>2, <1>5, <2>1, <2>3, <2>4 DEF a, r
<1>6. CASE ~(m.pc = "failed" \/ ~ambient) /\ ~Caps!AmbientAllowed(m, c)
  <2>1. r = [m EXCEPT !.pc = "failed"]
    BY <1>3, <1>6
  <2> QED
    BY <1>1, <2>1, CapFail DEF r
<1> QED
  BY <1>4, <1>5, <1>6

\* -A and -I: afterwards every permitted capability of the bounding set is
\* inheritable and, with -A and no securebit against it, ambient.
LEMMA CapRaiseAll ==
  ASSUME NEW q \in Caps!Processes, NEW ambient \in BOOLEAN
  PROVE  LET r == Caps!RaiseInheritableAndAmbientCaps(q, ambient) IN
         /\ r \in Caps!Processes /\ r.pc = q.pc /\ r.n = q.n
         /\ ambient /\ "a" \notin r.bits => r.p \cap r.b \subseteq r.a
<1> DEFINE r == Caps!RaiseInheritableAndAmbientCaps(q, ambient)
           i == q.i \cup {c \in CapNames : c \in q.b /\ (c \in q.p \/ "SETPCAP" \in q.e)}
           m == [q EXCEPT !.i = i]
           a == IF ambient THEN q.a \cup {c \in CapNames : Caps!AmbientAllowed(m, c)} ELSE q.a
<1>1. i \in SUBSET CapNames /\ a \in SUBSET CapNames
  BY CapFields
<1>2. r = [q EXCEPT !.i = i, !.a = a]
  BY DEF Caps!RaiseInheritableAndAmbientCaps
<1>3. m.p = q.p /\ m.i = i /\ m.bits = q.bits
  BY DEF Caps!Processes, Caps!Labels
<1>4. ambient /\ "a" \notin q.bits => q.p \cap q.b \subseteq a
  <2>1. ASSUME NEW c \in q.p \cap q.b, "a" \notin q.bits PROVE c \in CapNames /\ Caps!AmbientAllowed(m, c)
    <3>1. c \in CapNames /\ c \in i
      BY CapFields
    <3> HIDE DEF m, i
    <3> QED
      BY <1>3, <2>1, <3>1 DEF Caps!AmbientAllowed
  <2> QED
    BY <2>1
<1> HIDE DEF r, i, a, m
<1>5. r \in Caps!Processes
  BY <1>1, <1>2 DEF Caps!Processes, Caps!Labels
<1>6. r.pc = q.pc /\ r.n = q.n /\ r.p = q.p /\ r.b = q.b /\ r.bits = q.bits /\ r.a = a
  BY <1>2 DEF Caps!Processes, Caps!Labels
<1> QED
  BY <1>4, <1>5, <1>6 DEF r

\* -x: the three sets that are asked for, or nothing.
LEMMA CapSetProc ==
  ASSUME NEW q \in Caps!Processes, NEW o, o.p \in SUBSET CapNames, o.e \in SUBSET CapNames, o.i \in SUBSET CapNames
  PROVE  LET r == Caps!cap_set_proc(q, o) IN
         r \in Caps!Processes /\ r.pc \in {q.pc, "failed"} /\ r.n = q.n
<1> DEFINE pp == o.p
           ee == o.e
           ii == o.i
           a == q.a \cap pp \cap ii
           u == [q EXCEPT !.p = pp, !.e = ee, !.i = ii, !.a = a]
           f == [q EXCEPT !.pc = "failed"]
<1>1. Caps!cap_set_proc(q, o) = u \/ Caps!cap_set_proc(q, o) = f
  BY DEF Caps!cap_set_proc, Caps!CapSet
<1>2. pp \in SUBSET CapNames /\ ee \in SUBSET CapNames /\ ii \in SUBSET CapNames /\ a \in SUBSET CapNames
  BY CapFields
<1> HIDE DEF pp, ee, ii, a
<1>3. u \in Caps!Processes /\ u.pc = q.pc /\ u.n = q.n
  BY <1>2 DEF Caps!Processes, Caps!Labels
<1>4. f \in Caps!Processes /\ f.pc = "failed" /\ f.n = q.n
  BY CapFail
<1> HIDE DEF u, f
<1> QED
  BY <1>1, <1>3, <1>4

\* A repeatable option of userns_child_exec.
LEMMA CapPerform ==
  ASSUME NEW q \in Caps!Processes, NEW o \in Caps!Options, o.opt # "S"
  PROVE  LET r == Caps!Perform(q, o) IN
         /\ r \in Caps!Processes /\ r.pc \in {q.pc, "failed"} /\ r.n = q.n
         /\ o.opt = "A" /\ r.pc # "failed" /\ "a" \notin r.bits => r.p \cap r.b \subseteq r.a
<1> DEFINE r == Caps!Perform(q, o)
<1>1. o.opt \in {"A", "I", "b", "s", "X", "x", "d", "w"}
  BY DEF Caps!Options
<1>2. CASE o.opt \in {"A", "I"}
  <2>1. r = Caps!RaiseInheritableAndAmbientCaps(q, o.opt = "A")
    BY <1>2 DEF Caps!Perform
  <2> QED
    BY <2>1, CapRaiseAll
<1>3. CASE o.opt = "b"
  <2>1. r = Caps!set_securebits(q, o.bits) /\ o.bits \in SUBSET Caps!Bits
    BY <1>3 DEF Caps!Perform, Caps!Options
  <2> QED
    BY <1>3, <2>1, CapSecurebits
<1>4. CASE o.opt = "s"
  <2>1. o.uid \in Nat /\ (r = Caps!SetUid(q, o.uid) \/ r = [q EXCEPT !.pc = "failed"])
    BY <1>4 DEF Caps!Perform, Caps!Options
  <2> DEFINE u == Caps!SetUid(q, o.uid)
             f == [q EXCEPT !.pc = "failed"]
  <2>2. u \in Caps!Processes /\ u.pc = q.pc /\ u.n = q.n
    BY <2>1, CapSetUid
  <2>3. f \in Caps!Processes /\ f.pc = "failed" /\ f.n = q.n
    BY CapFail
  <2>4. r = u \/ r = f
    BY <2>1
  <2> HIDE DEF r, u, f
  <2> QED
    BY <1>4, <2>2, <2>3, <2>4 DEF r
<1>5. CASE o.opt = "X"
  <2>1. r = Caps!modify_individual_capability(q, o) /\ o.set \in {"p", "e", "i", "b", "a"} /\ o.cap \in CapNames /\ o.on \in BOOLEAN
    BY <1>5 DEF Caps!Perform, Caps!Options
  <2>2. CASE o.set \in {"p", "e", "i"}
    <3>1. r = Caps!modifyCapSetting(q, o.set, o.cap, o.on)
      BY <2>1, <2>2 DEF Caps!modify_individual_capability
    <3> QED
      BY <1>5, <2>1, <2>2, <3>1, CapModify
  <2>3. CASE o.set = "b"
    <3> DEFINE b == q.b \ {o.cap}
    <3>1. r = [q EXCEPT !.pc = "failed"] \/ r = [q EXCEPT !.b = b]
      BY <2>1, <2>3 DEF Caps!modify_individual_capability
    <3>2. b \in SUBSET CapNames
      BY CapFields
    <3> HIDE DEF b
    <3>3. [q EXCEPT !.b = b] \in Caps!Processes
      BY <3>2 DEF Caps!Processes, Caps!Labels
    <3>4. [q EXCEPT !.b = b].pc = q.pc /\ [q EXCEPT !.b = b].n = q.n
      BY DEF Caps!Processes, Caps!Labels
    <3> DEFINE u == [q EXCEPT !.b = b]
               f == [q EXCEPT !.pc = "failed"]
    <3>5. f \in Caps!Processes /\ f.pc = "failed" /\ f.n = q.n
      BY CapFail
    <3>6. u \in Caps!Processes /\ u.pc = q.pc /\ u.n = q.n /\ (r = f \/ r = u)
      BY <3>1, <3>3, <3>4
    <3> HIDE DEF r, u, f
    <3> QED
      BY <1>5, <3>5, <3>6 DEF r
  <2>4. CASE o.set = "a"
    <3> DEFINE a == IF o.on THEN q.a \cup {o.cap} ELSE q.a \ {o.cap}
    <3>1. r = [q EXCEPT !.pc = "failed"] \/ r = [q EXCEPT !.a = a]
      BY <2>1, <2>4 DEF Caps!modify_individual_capability
    <3>2. a \in SUBSET CapNames
      BY <2>1, CapFields
    <3> HIDE DEF a
    <3>3. [q EXCEPT !.a = a] \in Caps!Processes
      BY <3>2 DEF Caps!Processes, Caps!Labels
    <3>4. [q EXCEPT !.a = a].pc = q.pc /\ [q EXCEPT !.a = a].n = q.n
      BY DEF Caps!Processes, Caps!Labels
    <3> DEFINE u == [q EXCEPT !.a = a]
               f == [q EXCEPT !.pc = "failed"]
    <3>5. f \in Caps!Processes /\ f.pc = "failed" /\ f.n = q.n
      BY CapFail
    <3>6. u \in Caps!Processes /\ u.pc = q.pc /\ u.n = q.n /\ (r = f \/ r = u)
      BY <3>1, <3>3, <3>4
    <3> HIDE DEF r, u, f
    <3> QED
      BY <1>5, <3>5, <3>6 DEF r
  <2> QED
    BY <2>1, <2>2, <2>3, <2>4
<1>6. CASE o.opt = "x"
  <2>1. r = Caps!cap_set_proc(q, o) /\ o.p \in SUBSET CapNames /\ o.e \in SUBSET CapNames /\ o.i \in SUBSET CapNames
    BY <1>6 DEF Caps!Perform, Caps!Options
  <2> QED
    BY <1>6, <2>1, CapSetProc
<1>7. CASE o.opt \in {"d", "w"}
  <2>1. r = q
    BY <1>7 DEF Caps!Perform
  <2> QED
    BY <1>7, <2>1
<1> QED
  BY <1>1, <1>2, <1>3, <1>4, <1>5, <1>6, <1>7

-----------------------------------------------------------------------------
(* Capabilities: cap_launcher.                                             *)

LEMMA CapLaunch ==
  ASSUME Caps!TypeOK, v1 = "launcher", Caps!LauncherInv, Caps!Next
  PROVE  Caps!TypeOK' /\ v1' = v1 /\ Caps!LauncherInv'
<1>1. Caps!cap_launcher /\ v1' = v1 /\ v2' = v2 /\ v5' = v5
  <2>1. Caps!cap_launcher
    BY DEF Caps!Next, Caps!parse_command_options, Caps!Clone, Caps!update_child_maps, Caps!update_map, Caps!proc_setgroups_write,
       Caps!CloseAndWait, Caps!childFunc, Caps!ChildCloses, Caps!ChildReads, Caps!perform_repeatable_options, Caps!cred_launcher,
       Caps!check_password_caps, Caps!Mine
  <2> QED
    BY <2>1 DEF Caps!cap_launcher, Caps!SetSecurebits, Caps!setCredentials, Caps!RaiseCaps, Caps!Mine
<1>2. v3 \in Caps!Processes /\ v3.n \in Nat
  BY CapFields DEF Caps!TypeOK
<1>3. /\ v2 \in [user : {0, 1000}, list : CapLists, ambient : BOOLEAN]
      /\ v3.pc \in {"start", "groups", "gid", "uid", "raise", "exec", "failed"}
      /\ v3.pc \in {"start", "groups", "gid", "uid"} => v3.n = 0 /\ v3.i = {} /\ v3.a = {} /\ v3.uid = 0
      /\ v3.pc \in {"groups", "gid", "uid"} => "s" \in v3.bits
      /\ v3.pc \in {"gid", "uid", "raise", "exec"} => v3.groups = v2.user
      /\ v3.pc \in {"uid", "raise", "exec"} => v3.gid = v2.user
      /\ v3.pc \in {"raise", "exec"} => v3.uid = v2.user
      /\ v3.pc = "raise" =>
           /\ v3.n <= Len(v2.list) /\ {v2.list[j] : j \in 1..v3.n} \subseteq v3.i
           /\ v3.a = IF v2.ambient THEN {v2.list[j] : j \in 1..v3.n} ELSE {}
           /\ v3.a \subseteq v3.p \cap v3.i
  BY DEF Caps!LauncherInv
<1>4. v2.list \in Seq(CapNames) /\ v2.user \in Nat /\ v2.ambient \in BOOLEAN /\ v2.user \in {0, 1000}
  BY <1>3, CapBounds
<1>5. Len(v2.list) \in Nat /\ DOMAIN v2.list = 1..Len(v2.list) /\ \A j \in 1..Len(v2.list) : v2.list[j] \in CapNames
  BY <1>4
<1>6. ASSUME v3' \in Caps!Processes, v3'.pc = "failed"
      PROVE  Caps!TypeOK' /\ Caps!LauncherInv'
  BY <1>1, <1>3, <1>6 DEF Caps!TypeOK, Caps!LauncherInv, Caps!LaunchedAsAsked, Caps!At
<1>7. CASE Caps!SetSecurebits
  <2> DEFINE r == Caps!set_securebits(v3, {"s"})
             l == IF r.pc = "failed" THEN "failed" ELSE "groups"
  <2>1. v3.pc = "start" /\ v3' = [r EXCEPT !.pc = IF @ = "failed" THEN @ ELSE "groups"]
    BY <1>7 DEF Caps!SetSecurebits, Caps!Mine, Caps!At
  <2>2. /\ r \in Caps!Processes /\ r.pc \in {v3.pc, "failed"} /\ (r.pc # "failed" => r.bits = {"s"}) /\ r.n = v3.n
        /\ r.i = v3.i /\ r.a = v3.a /\ r.uid = v3.uid
    <3>1. {"s"} \in SUBSET Caps!Bits
      BY DEF Caps!Bits
    <3> QED
      BY <1>2, <3>1, CapSecurebits
  <2>3. v3' = [r EXCEPT !.pc = l]
    BY <2>1
  <2> HIDE DEF r
  <2>4. /\ v3' \in Caps!Processes /\ v3'.pc = l /\ v3'.n = r.n /\ v3'.i = r.i /\ v3'.a = r.a /\ v3'.bits = r.bits /\ v3'.uid = r.uid
    <3>1. l \in Caps!Labels
      BY DEF Caps!Labels
    <3> HIDE DEF l
    <3> QED
      BY <2>2, <2>3, <3>1, CapPc
  <2>5. CASE r.pc = "failed"
    BY <1>1, <1>6, <2>4, <2>5
  <2>6. CASE r.pc # "failed"
    <3>1. v3'.pc = "groups" /\ v3'.n = 0 /\ v3'.i = {} /\ v3'.a = {} /\ v3'.uid = 0 /\ "s" \in v3'.bits
      BY <1>3, <2>1, <2>2, <2>4, <2>6
    <3> QED
      BY <1>1, <1>3, <2>4, <3>1 DEF Caps!TypeOK, Caps!LauncherInv, Caps!LaunchedAsAsked, Caps!At
  <2> QED
    BY <2>5, <2>6
<1>8. CASE Caps!setCredentials
  <2>1. CASE v3' = [v3 EXCEPT !.pc = "failed"]
    BY <1>1, <1>2, <1>6, <2>1, CapFail
  <2>2. CASE v3.pc = "groups" /\ v3' = [v3 EXCEPT !.groups = v2.user, !.pc = "gid"]
    <3> DEFINE u == v2.user
    <3>3. u \in Nat /\ "gid" \in Caps!Labels /\ v3' = [v3 EXCEPT !.groups = u, !.pc = "gid"]
      BY <1>4, <2>2 DEF Caps!Labels
    <3> HIDE DEF u
    <3>1. /\ v3' \in Caps!Processes /\ v3'.pc = "gid" /\ v3'.groups = u /\ v3'.n = v3.n /\ v3'.i = v3.i /\ v3'.a = v3.a
          /\ v3'.uid = v3.uid /\ v3'.bits = v3.bits
      <4> DEFINE r == [v3 EXCEPT !.groups = u, !.pc = "gid"]
      <4>1. u \in Nat /\ v3 \in Caps!Processes
        BY <1>2, <3>3
      <4>3. v3' = r
        BY <3>3
      <4>2. r \in Caps!Processes /\ r.pc = "gid" /\ r.groups = u /\ r.n = v3.n /\ r.i = v3.i /\ r.a = v3.a
            /\ r.uid = v3.uid /\ r.bits = v3.bits
        <5>1. r \in Caps!Processes
          <6>1. "gid" \in Caps!Labels
            BY DEF Caps!Labels
          <6> QED
            BY <4>1, <6>1, CapGroups
        <5>2. r.pc = "gid" /\ r.groups = u /\ r.n = v3.n /\ r.i = v3.i
          BY <4>1, SMTT(20) DEF Caps!Processes, Caps!Labels
        <5>3. r.a = v3.a /\ r.uid = v3.uid /\ r.bits = v3.bits
          BY <4>1, SMTT(20) DEF Caps!Processes, Caps!Labels
        <5> QED
          BY <5>1, <5>2, <5>3
      <4> HIDE DEF r
      <4> QED
        BY <4>2, <4>3
    <3>2. v3'.groups = v2.user
      BY <3>1 DEF u
    <3> QED
      BY <1>1, <1>3, <2>2, <3>1, <3>2 DEF Caps!TypeOK, Caps!LauncherInv, Caps!LaunchedAsAsked, Caps!At
  <2>3. CASE v3.pc = "gid" /\ v3' = [v3 EXCEPT !.gid = v2.user, !.pc = "uid"]
    <3> DEFINE u == v2.user
    <3>3. u \in Nat /\ "uid" \in Caps!Labels /\ v3' = [v3 EXCEPT !.gid = u, !.pc = "uid"]
      BY <1>4, <2>3 DEF Caps!Labels
    <3> HIDE DEF u
    <3>1. /\ v3' \in Caps!Processes /\ v3'.pc = "uid" /\ v3'.gid = u /\ v3'.groups = v3.groups /\ v3'.n = v3.n /\ v3'.i = v3.i
          /\ v3'.a = v3.a /\ v3'.uid = v3.uid /\ v3'.bits = v3.bits
      <4> DEFINE r == [v3 EXCEPT !.gid = u, !.pc = "uid"]
      <4>1. u \in Nat /\ v3 \in Caps!Processes
        BY <1>2, <3>3
      <4>3. v3' = r
        BY <3>3
      <4>2. r \in Caps!Processes /\ r.pc = "uid" /\ r.gid = u /\ r.groups = v3.groups /\ r.n = v3.n /\ r.i = v3.i
            /\ r.a = v3.a /\ r.uid = v3.uid /\ r.bits = v3.bits
        <5>1. r \in Caps!Processes
          <6>1. "uid" \in Caps!Labels
            BY DEF Caps!Labels
          <6> QED
            BY <4>1, <6>1, CapGid
        <5>2. r.pc = "uid" /\ r.gid = u /\ r.groups = v3.groups /\ r.n = v3.n /\ r.i = v3.i
          BY <4>1, SMTT(20) DEF Caps!Processes, Caps!Labels
        <5>3. r.a = v3.a /\ r.uid = v3.uid /\ r.bits = v3.bits
          BY <4>1, SMTT(20) DEF Caps!Processes, Caps!Labels
        <5> QED
          BY <5>1, <5>2, <5>3
      <4> HIDE DEF r
      <4> QED
        BY <4>2, <4>3
    <3>2. v3'.gid = v2.user
      BY <3>1 DEF u
    <3> QED
      BY <1>1, <1>3, <2>3, <3>1, <3>2 DEF Caps!TypeOK, Caps!LauncherInv, Caps!LaunchedAsAsked, Caps!At
  <2>4. CASE v3.pc = "uid" /\ v3' = [Caps!SetUid(v3, v2.user) EXCEPT !.pc = "raise"]
    <3> DEFINE r == Caps!SetUid(v3, v2.user)
    <3>1. /\ r \in Caps!Processes /\ r.uid = v2.user /\ r.gid = v3.gid /\ r.groups = v3.groups /\ r.n = v3.n /\ r.i = v3.i
          /\ v3.a = {} => r.a = {}
      <4> DEFINE u == v2.user
      <4>1. u \in Nat
        BY <1>4
      <4> HIDE DEF u
      <4>2. LET s == Caps!SetUid(v3, u) IN
              /\ s \in Caps!Processes /\ s.uid = u /\ s.gid = v3.gid /\ s.groups = v3.groups /\ s.n = v3.n /\ s.i = v3.i
              /\ v3.a = {} => s.a = {}
        BY <1>2, <4>1, CapSetUid
      <4> QED
        BY <4>2 DEF u
    <3>2. v3' = [r EXCEPT !.pc = "raise"]
      BY <2>4
    <3> HIDE DEF r
    <3>3. /\ v3' \in Caps!Processes /\ v3'.pc = "raise" /\ v3'.uid = r.uid /\ v3'.gid = r.gid /\ v3'.groups = r.groups
          /\ v3'.n = r.n /\ v3'.i = r.i /\ v3'.a = r.a
      <4>1. "raise" \in Caps!Labels
        BY DEF Caps!Labels
      <4> QED
        BY <3>1, <3>2, <4>1, CapPc
    <3>4. {v2.list[j] : j \in 1..v3'.n} = {} /\ v3'.n = 0 /\ v3'.a = {}
      BY <1>3, <2>4, <3>1, <3>3
    <3> QED
      <4>1. v3'.n <= Len(v2.list) /\ v3'.groups = v2.user /\ v3'.gid = v2.user /\ v3'.uid = v2.user
        BY <1>3, <1>5, <2>4, <3>1, <3>3, <3>4
      <4>2. {v2.list[j] : j \in 1..v3'.n} \subseteq v3'.i /\ v3'.a = (IF v2.ambient THEN {v2.list[j] : j \in 1..v3'.n} ELSE {})
            /\ v3'.a \subseteq v3'.p \cap v3'.i
        BY <3>4
      <4> QED
        BY <1>1, <1>3, <3>3, <4>1, <4>2 DEF Caps!TypeOK, Caps!LauncherInv, Caps!LaunchedAsAsked, Caps!At
  <2> QED
    BY <1>8, <2>1, <2>2, <2>3, <2>4 DEF Caps!setCredentials, Caps!Mine, Caps!At, Caps!Fails
<1>9. CASE Caps!RaiseCaps
  <2>1. v3.pc = "raise"
    BY <1>9 DEF Caps!RaiseCaps, Caps!Mine, Caps!At
  <2>2. CASE v3.n = Len(v2.list)
    <3> DEFINE r == Caps!Execve(v3)
    <3>1. v3' = r
      BY <1>9, <2>2 DEF Caps!RaiseCaps, Caps!Mine
    <3>2. /\ r \in Caps!Processes /\ r.pc = "exec" /\ r.e = r.p /\ r.i = v3.i /\ r.uid = v3.uid /\ r.gid = v3.gid /\ r.groups = v3.groups
          /\ v3.uid # 0 => r.p = v3.a
      BY <1>2, CapExecve
    <3>3. Caps!InList(v2.list) = {v2.list[j] : j \in 1..v3.n}
      BY <1>5, <2>2 DEF Caps!InList
    <3> HIDE DEF r
    <3>4. Caps!LaunchedAsAsked'
      BY <1>1, <1>3, <2>1, <3>1, <3>2, <3>3 DEF Caps!LaunchedAsAsked, Caps!At
    <3> QED
      BY <1>1, <1>3, <2>1, <3>1, <3>2, <3>4 DEF Caps!TypeOK, Caps!LauncherInv
  <2>3. CASE v3.n # Len(v2.list)
    <3> DEFINE c == v2.list[v3.n + 1]
               r == Caps!raiseCap(v3, c, v2.ambient)
               raised == {v2.list[j] : j \in 1..v3.n}
    <3>1. v3' = [r EXCEPT !.n = @ + 1]
      BY <1>9, <2>3 DEF Caps!RaiseCaps, Caps!Mine
    <3>2. v3.n + 1 \in 1..Len(v2.list) /\ c \in CapNames
      BY <1>2, <1>3, <1>5, <2>1, <2>3
    <3>3. /\ r \in Caps!Processes /\ r.pc \in {v3.pc, "failed"} /\ r.n = v3.n /\ r.uid = v3.uid /\ r.gid = v3.gid /\ r.groups = v3.groups
          /\ r.pc # "failed" => /\ r.i = v3.i \cup {c} /\ r.a = (IF v2.ambient THEN v3.a \cup {c} ELSE v3.a)
                                /\ r.a \subseteq r.p \cap r.i
      <4> DEFINE ambient == v2.ambient
      <4>1. v3.a \subseteq v3.p \cap v3.i /\ ambient \in BOOLEAN
        BY <1>3, <1>4, <2>1
      <4> HIDE DEF ambient, c
      <4>2. LET s == Caps!raiseCap(v3, c, ambient) IN
            /\ s \in Caps!Processes /\ s.pc \in {v3.pc, "failed"} /\ s.n = v3.n /\ s.uid = v3.uid /\ s.gid = v3.gid /\ s.groups = v3.groups
            /\ s.pc # "failed" => /\ s.i = v3.i \cup {c} /\ s.a = (IF ambient THEN v3.a \cup {c} ELSE v3.a)
                                  /\ s.a \subseteq s.p \cap s.i
        BY <1>2, <3>2, <4>1, CapRaise
      <4> QED
        BY <4>2 DEF ambient
    <3>4. {v2.list[j] : j \in 1..(v3.n + 1)} = raised \cup {c}
      <4>1. 1..(v3.n + 1) = (1..v3.n) \cup {v3.n + 1}
        BY <1>2
      <4> QED
        BY <4>1
    <3> HIDE DEF r, c, raised
    <3>5. /\ v3' \in Caps!Processes /\ v3'.pc = r.pc /\ v3'.n = v3.n + 1 /\ v3'.uid = r.uid /\ v3'.gid = r.gid /\ v3'.groups = r.groups
          /\ v3'.i = r.i /\ v3'.a = r.a /\ v3'.p = r.p
      BY <3>1, <3>3, CapCount
    <3>6. CASE r.pc = "failed"
      BY <1>1, <1>6, <3>5, <3>6
    <3>7. CASE r.pc # "failed"
      <4>1. v3'.pc = "raise" /\ v3'.n <= Len(v2.list)
        BY <1>2, <1>5, <2>1, <3>2, <3>3, <3>5, <3>7
      <4>2. /\ {v2.list[j] : j \in 1..v3'.n} \subseteq v3'.i /\ v3'.a \subseteq v3'.p \cap v3'.i
            /\ v3'.a = IF v2.ambient THEN {v2.list[j] : j \in 1..v3'.n} ELSE {}
        <5>1. v3.i \cup {c} = v3'.i /\ v3'.a = (IF v2.ambient THEN v3.a \cup {c} ELSE v3.a) /\ v3'.a \subseteq v3'.p \cap v3'.i
          BY <3>3, <3>5, <3>7
        <5>2. raised \subseteq v3.i /\ v3.a = IF v2.ambient THEN raised ELSE {}
          BY <1>3, <2>1 DEF raised
        <5>3. {v2.list[j] : j \in 1..v3'.n} = raised \cup {c}
          BY <3>4, <3>5
        <5> QED
          BY <5>1, <5>2, <5>3
      <4> QED
        BY <1>1, <1>3, <2>1, <3>3, <3>5, <4>1, <4>2 DEF Caps!TypeOK, Caps!LauncherInv, Caps!LaunchedAsAsked, Caps!At
    <3> QED
      BY <3>6, <3>7
  <2> QED
    BY <2>2, <2>3
<1> QED
  BY <1>1, <1>7, <1>8, <1>9 DEF Caps!cap_launcher
-----------------------------------------------------------------------------
(* Capabilities: cred_launcher and check_password_caps.                    *)

LEMMA CapCred ==
  ASSUME Caps!TypeOK, v1 = "cred", Caps!CredInv, Caps!Next
  PROVE  Caps!TypeOK' /\ v1' = v1 /\ Caps!CredInv'
<1>1. Caps!cred_launcher /\ v1' = v1 /\ v2' = v2 /\ v5' = v5
  <2>1. Caps!cred_launcher
    BY DEF Caps!Next, Caps!parse_command_options, Caps!Clone, Caps!update_child_maps, Caps!update_map, Caps!proc_setgroups_write,
       Caps!CloseAndWait, Caps!childFunc, Caps!ChildCloses, Caps!ChildReads, Caps!perform_repeatable_options, Caps!cap_launcher,
       Caps!SetSecurebits, Caps!setCredentials, Caps!RaiseCaps, Caps!check_password_caps, Caps!Mine
  <2> QED
    BY <2>1 DEF Caps!cred_launcher, Caps!Mine
<1>2. v3 \in Caps!Processes
  BY DEF Caps!TypeOK
<1>3. /\ v2 \in [user : {1000}, groups : BOOLEAN]
      /\ v3.pc \in {"gid", "uid", "exec"} /\ v2.groups => v3.groups = 1000
      /\ v3.pc \in {"uid", "exec"} => v3.gid = 1000
  BY DEF Caps!CredInv
<1>4. v2.user = 1000 /\ v2.user \in Nat
  BY <1>3
<1>5. ASSUME v3' \in Caps!Processes, v3'.pc = "failed"
      PROVE  Caps!TypeOK' /\ Caps!CredInv'
  BY <1>1, <1>3, <1>5 DEF Caps!TypeOK, Caps!CredInv, Caps!At
<1>6. CASE v3' = [v3 EXCEPT !.pc = "failed"]
  BY <1>1, <1>2, <1>5, <1>6, CapFail
<1>7. CASE v3' = [v3 EXCEPT !.groups = v2.user, !.pc = "gid"]
  <2> DEFINE u == 1000
  <2>3. u \in Nat /\ "gid" \in Caps!Labels /\ v3' = [v3 EXCEPT !.groups = u, !.pc = "gid"]
    BY <1>4, <1>7 DEF Caps!Labels
  <2> HIDE DEF u
  <2>1. v3' \in Caps!Processes /\ v3'.pc = "gid" /\ v3'.groups = u
    BY <1>2, <2>3, CapGroups
  <2>2. v3'.groups = 1000
    BY <2>1 DEF u
  <2> QED
    BY <1>1, <1>3, <2>1, <2>2 DEF Caps!TypeOK, Caps!CredInv, Caps!At
<1>8. CASE ~v2.groups /\ v3' = [v3 EXCEPT !.pc = "gid"]
  <2>1. v3' \in Caps!Processes
    BY <1>2, <1>8 DEF Caps!Processes, Caps!Labels
  <2>2. v3'.pc = "gid"
    BY <1>2, <1>8 DEF Caps!Processes, Caps!Labels
  <2> QED
    BY <1>1, <1>3, <1>8, <2>1, <2>2 DEF Caps!TypeOK, Caps!CredInv, Caps!At
<1>9. CASE v3.pc = "gid" /\ v3' = [v3 EXCEPT !.gid = v2.user, !.pc = "uid"]
  <2> DEFINE u == 1000
  <2>3. u \in Nat /\ "uid" \in Caps!Labels /\ v3' = [v3 EXCEPT !.gid = u, !.pc = "uid"]
    BY <1>4, <1>9 DEF Caps!Labels
  <2> HIDE DEF u
  <2>1. v3' \in Caps!Processes /\ v3'.pc = "uid" /\ v3'.gid = u /\ v3'.groups = v3.groups
    BY <1>2, <2>3, CapGid
  <2>2. v3'.gid = 1000
    BY <2>1 DEF u
  <2> QED
    BY <1>1, <1>3, <1>9, <2>1, <2>2 DEF Caps!TypeOK, Caps!CredInv, Caps!At
<1>10. CASE v3.pc = "uid" /\ v3' = Caps!Execve(Caps!SetUid(v3, v2.user))
  <2> DEFINE r == Caps!SetUid(v3, 1000)
             x == Caps!Execve(r)
  <2>1. r \in Caps!Processes /\ r.uid = 1000 /\ r.gid = v3.gid /\ r.groups = v3.groups
    <3> DEFINE u == 1000
    <3>1. u \in Nat
      OBVIOUS
    <3> HIDE DEF u
    <3>2. LET s == Caps!SetUid(v3, u) IN s \in Caps!Processes /\ s.uid = u /\ s.gid = v3.gid /\ s.groups = v3.groups
      BY <1>2, <3>1, CapSetUid
    <3> QED
      BY <3>2 DEF u
  <2>2. v3' = x
    BY <1>4, <1>10
  <2> HIDE DEF r
  <2>3. x \in Caps!Processes /\ x.pc = "exec" /\ x.uid = r.uid /\ x.gid = r.gid /\ x.groups = r.groups
    BY <2>1, CapExecve
  <2> HIDE DEF x
  <2> QED
    BY <1>1, <1>3, <1>10, <2>1, <2>2, <2>3 DEF Caps!TypeOK, Caps!CredInv, Caps!At
<1> QED
  BY <1>1, <1>6, <1>7, <1>8, <1>9, <1>10 DEF Caps!cred_launcher, Caps!Mine, Caps!At, Caps!Fails

LEMMA CapPassword ==
  ASSUME Caps!TypeOK, v1 = "password", v3.pc \in {"start", "getspnam", "drop", "getpass", "exec", "failed"},
         Caps!LaunchedAsAsked, Caps!Next
  PROVE  /\ Caps!TypeOK' /\ v1' = v1 /\ v3'.pc \in {"start", "getspnam", "drop", "getpass", "exec", "failed"}
         /\ Caps!LaunchedAsAsked'
<1>1. Caps!check_password_caps /\ v1' = v1 /\ v2' = v2 /\ v5' = v5
  <2>1. Caps!check_password_caps
    BY DEF Caps!Next, Caps!parse_command_options, Caps!Clone, Caps!update_child_maps, Caps!update_map, Caps!proc_setgroups_write,
       Caps!CloseAndWait, Caps!childFunc, Caps!ChildCloses, Caps!ChildReads, Caps!perform_repeatable_options, Caps!cap_launcher,
       Caps!SetSecurebits, Caps!setCredentials, Caps!RaiseCaps, Caps!cred_launcher, Caps!Mine
  <2> QED
    BY <2>1 DEF Caps!check_password_caps, Caps!Mine
<1>2. v3 \in Caps!Processes
  BY DEF Caps!TypeOK
<1>3. ASSUME v3' \in Caps!Processes, v3'.pc \in {"start", "getspnam", "drop", "getpass", "exec", "failed"},
             v3'.pc \in {"getpass", "exec"} => v3'.p = {} /\ v3'.e = {} /\ v3'.i = {}
      PROVE  Caps!TypeOK' /\ Caps!LaunchedAsAsked'
  BY <1>1, <1>3 DEF Caps!TypeOK, Caps!LaunchedAsAsked, Caps!At
<1>4. CASE v3' = [v3 EXCEPT !.pc = "failed"]
  BY <1>1, <1>2, <1>3, <1>4, CapFail
<1>5. CASE v3' = [Caps!modifyCapSetting(v3, "e", "DAC", TRUE) EXCEPT !.pc = IF @ = "failed" THEN @ ELSE "getspnam"]
  <2> DEFINE r == Caps!modifyCapSetting(v3, "e", "DAC", TRUE)
             l == IF r.pc = "failed" THEN "failed" ELSE "getspnam"
  <2>1. r \in Caps!Processes
    BY <1>2, CapBounds, CapModify
  <2>2. v3' = [r EXCEPT !.pc = l]
    BY <1>5
  <2>3. l \in Caps!Labels /\ l \in {"failed", "getspnam"}
    BY DEF Caps!Labels
  <2> HIDE DEF r, l
  <2>4. v3' \in Caps!Processes /\ v3'.pc = l
    BY <2>1, <2>2, <2>3, CapPc
  <2> QED
    BY <1>1, <1>3, <2>3, <2>4
<1>6. CASE v3' = [v3 EXCEPT !.pc = "drop"]
  <2>1. "drop" \in Caps!Labels
    BY DEF Caps!Labels
  <2>2. v3' \in Caps!Processes /\ v3'.pc = "drop"
    BY <1>2, <1>6, <2>1, CapPc
  <2> QED
    BY <1>1, <1>3, <2>2
<1>7. CASE v3' = [Caps!dropAllCaps(v3) EXCEPT !.pc = "getpass"]
  <2> DEFINE r == Caps!dropAllCaps(v3)
  <2> DEFINE a == v3.a \cap {} \cap {}
  <2>1. r = [v3 EXCEPT !.p = {}, !.e = {}, !.i = {}, !.a = a] /\ a \in SUBSET CapNames /\ {} \in SUBSET CapNames
    BY DEF Caps!dropAllCaps, Caps!CapSet
  <2> HIDE DEF r, a
  <2>5. r \in Caps!Processes
    BY <1>2, <2>1 DEF Caps!Processes, Caps!Labels
  <2>2. r \in Caps!Processes /\ r.p = {} /\ r.e = {} /\ r.i = {}
    BY <1>2, <2>1, <2>5 DEF Caps!Processes, Caps!Labels
  <2>3. v3' = [r EXCEPT !.pc = "getpass"] /\ "getpass" \in Caps!Labels
    BY <1>7 DEF Caps!Labels, r
  <2>4. v3' \in Caps!Processes /\ v3'.pc = "getpass" /\ v3'.p = r.p /\ v3'.e = r.e /\ v3'.i = r.i
    BY <2>2, <2>3, CapPc
  <2> QED
    BY <1>1, <1>3, <2>2, <2>4
<1>8. CASE v3.pc = "getpass" /\ \E r \in {"exec", "failed"} : v3' = [v3 EXCEPT !.pc = r]
  <2>1. PICK r \in {"exec", "failed"} : v3' = [v3 EXCEPT !.pc = r]
    BY <1>8
  <2>2. r \in Caps!Labels
    BY DEF Caps!Labels
  <2>3. v3' \in Caps!Processes /\ v3'.pc = r /\ v3'.p = v3.p /\ v3'.e = v3.e /\ v3'.i = v3.i
    BY <1>2, <2>1, <2>2, CapPc
  <2>4. v3.p = {} /\ v3.e = {} /\ v3.i = {}
    BY <1>8 DEF Caps!LaunchedAsAsked
  <2> QED
    BY <1>1, <1>3, <2>3, <2>4
<1> QED
  BY <1>1, <1>4, <1>5, <1>6, <1>7, <1>8 DEF Caps!check_password_caps, Caps!Mine, Caps!At, Caps!Fails

-----------------------------------------------------------------------------
(* Capabilities: userns_child_exec.                                        *)

\* The labels update_child_maps() goes to, each only for a map asked for.
CapMapLabels == {"uid_map", "setgroups", "gid_map", "projid_map", "close"}
LEMMA CapMapSteps ==
  ASSUME v2.deny \in BOOLEAN
  PROVE  LET W == Caps!Wanted
             f == Caps!FirstMap
             u == Caps!AfterUid
             g == Caps!AfterGid
         IN /\ f \in CapMapLabels /\ u \in CapMapLabels \ {"uid_map"} /\ g \in {"projid_map", "close"}
            /\ f # "uid_map" => "uid_map" \notin W
            /\ f \in Caps!Maps => f \in W
            /\ f = "setgroups" => "gid_map" \in W /\ v2.deny
            /\ f = "close" => "projid_map" \notin W
            /\ f \in {"gid_map", "projid_map", "close"} => ~("gid_map" \in W /\ v2.deny)
            /\ f \in {"projid_map", "close"} => "gid_map" \notin W
            /\ u \in Caps!Maps => u \in W
            /\ u = "setgroups" => "gid_map" \in W /\ v2.deny
            /\ u = "close" => "projid_map" \notin W
            /\ u \in {"gid_map", "projid_map", "close"} => ~("gid_map" \in W /\ v2.deny)
            /\ u \in {"projid_map", "close"} => "gid_map" \notin W
            /\ g \in Caps!Maps => g \in W
            /\ g = "setgroups" => "gid_map" \in W /\ v2.deny
            /\ g = "close" => "projid_map" \notin W
<1>1. Caps!AfterGid = IF "projid_map" \in Caps!Wanted THEN "projid_map" ELSE "close"
  BY DEF Caps!AfterGid
<1>2. Caps!AfterUid = IF "gid_map" \notin Caps!Wanted THEN Caps!AfterGid ELSE IF v2.deny THEN "setgroups" ELSE "gid_map"
  BY DEF Caps!AfterUid
<1>3. Caps!FirstMap = IF "uid_map" \in Caps!Wanted THEN "uid_map" ELSE Caps!AfterUid
  BY DEF Caps!FirstMap
<1> QED
  BY <1>1, <1>2, <1>3 DEF CapMapLabels, Caps!Maps

LEMMA CapUserns ==
  ASSUME Caps!TypeOK, v1 = "userns", Caps!UsernsInv, Caps!Next
  PROVE  Caps!TypeOK' /\ v1' = v1 /\ Caps!UsernsInv'
<1>1. /\ v1' = v1 /\ v2' = v2
      /\ \/ Caps!parse_command_options \/ Caps!Clone \/ Caps!update_child_maps \/ Caps!CloseAndWait
         \/ Caps!ChildCloses \/ Caps!ChildReads \/ Caps!perform_repeatable_options
  <2>1. Caps!parse_command_options \/ Caps!Clone \/ Caps!update_child_maps \/ Caps!CloseAndWait \/ Caps!childFunc
    BY DEF Caps!Next, Caps!cap_launcher, Caps!SetSecurebits, Caps!setCredentials, Caps!RaiseCaps, Caps!cred_launcher,
       Caps!check_password_caps, Caps!Mine
  <2> QED
    BY <2>1 DEF Caps!parse_command_options, Caps!Clone, Caps!update_child_maps, Caps!update_map, Caps!proc_setgroups_write,
       Caps!CloseAndWait, Caps!childFunc, Caps!ChildCloses, Caps!ChildReads, Caps!perform_repeatable_options, Caps!Mine
<1>2. /\ v3 \in Caps!Processes /\ v3.n \in Nat /\ v3.uid \in Nat
      /\ v5 \in [uid_map : BOOLEAN, gid_map : BOOLEAN, projid_map : BOOLEAN, denied : BOOLEAN, writers : SUBSET {"parent", "child"}]
  BY CapFields DEF Caps!TypeOK
<1>3. /\ v2 \in Caps!UsernsOptions
      /\ v4 \in {"parse", "clone", "uid_map", "setgroups", "gid_map", "projid_map", "close", "waitpid", "exit", "failed"}
      /\ v3.pc \in {"none", "close", "read", "options", "exec", "failed"}
      /\ v4 \in {"parse", "clone"} => v3.pc = "none"
      /\ v4 # "parse" /\ (v4 # "failed" \/ v3.pc # "none") =>
           (Caps!Wanted # {} => v2.user) /\ \A j \in DOMAIN v2.list : v2.list[j].opt # "S"
      /\ v4 \in Caps!Maps => v4 \in Caps!Wanted
      /\ v4 = "setgroups" => "gid_map" \in Caps!Wanted /\ v2.deny
      /\ v4 \in Caps!Maps \cup {"setgroups", "close"} => "parent" \in v5.writers
      /\ v3.pc = "close" => "child" \in v5.writers
      /\ v3.pc \in {"options", "exec", "failed"} => v4 \in {"waitpid", "exit", "failed"}
      /\ v3.pc \in {"none", "close", "read"} => v3.n = 0 /\ v3.bits = {} /\ v3.a = {} /\ v3.uid # 0
      /\ v3.n <= Len(v2.list)
      /\ v2.user /\ (v3.pc \in {"close", "read"} \/ (v3.pc = "options" /\ v3.n = 0)) =>
           v3.p = CapNames /\ v3.e = CapNames /\ v3.b = CapNames
      /\ v3.pc = "options" /\ v3.n = 0 =>
           v3.bits = {} /\ v3.a = {} /\ (IF v5.uid_map THEN v3.uid = Caps!MapsTo ELSE v3.uid # 0)
  BY DEF Caps!UsernsInv, Caps!At
<1>4. Caps!MapsSoFar /\ Caps!MapsThenCommand /\ Caps!InOrder
  BY DEF Caps!UsernsInv, Caps!MapsThenCommand
<1>14. Caps!Wanted' = Caps!Wanted /\ Caps!MapsTo' = Caps!MapsTo
  BY <1>1 DEF Caps!Wanted, Caps!MapsTo
<1>15. /\ v2.user \in BOOLEAN /\ v2.deny \in BOOLEAN /\ v2.list \in CapOptions /\ Caps!MapsTo \in Nat
       /\ Caps!Maps = {"uid_map", "gid_map", "projid_map"} /\ Caps!Wanted \subseteq Caps!Maps
  BY <1>3 DEF Caps!UsernsOptions, Caps!Maps, Caps!Wanted, Caps!MapsTo
<1>5. v2.list \in Seq(Caps!Options) /\ Len(v2.list) \in Nat /\ DOMAIN v2.list = 1..Len(v2.list)
      /\ \A j \in 1..Len(v2.list) : v2.list[j] \in Caps!Options
  <2>1. v2.list \in Seq(Caps!Options)
    BY <1>15, CapBounds
  <2> QED
    BY <2>1
\* What the child can still count on while the parent's state changes.
<1>6. ASSUME v3' = v3, v3.pc \in {"none", "close", "read"}, Caps!InOrder'
      PROVE  Caps!MapsThenCommand'
  BY <1>6 DEF Caps!MapsThenCommand, Caps!At
<1>16. ASSUME v5'.uid_map = v5.uid_map, v5'.gid_map = v5.gid_map, v5'.projid_map = v5.projid_map, v5'.denied = v5.denied
       PROVE  Caps!InOrder'
  BY <1>1, <1>4, <1>14, <1>15, <1>16 DEF Caps!InOrder
<1>7. CASE Caps!parse_command_options
  <2>1. v4 = "parse" /\ v3' = v3 /\ v5' = v5 /\ v3.pc = "none"
    BY <1>3, <1>7 DEF Caps!parse_command_options, Caps!Mine
  <2>2. \/ v4' = "failed"
        \/ v4' = "clone" /\ (Caps!Wanted # {} => v2.user) /\ \A j \in DOMAIN v2.list : v2.list[j].opt # "S"
    BY <1>15, <1>7 DEF Caps!parse_command_options, Caps!Mine
  <2>3. Caps!MapsSoFar' /\ Caps!InOrder'
    BY <1>1, <1>16, <2>1, <2>2 DEF Caps!MapsSoFar
  <2> QED
    BY <1>1, <1>2, <1>3, <1>6, <1>14, <1>15, <2>1, <2>2, <2>3 DEF Caps!TypeOK, Caps!UsernsInv, Caps!At
<1>8. CASE Caps!Clone
  <2>1. v4 = "clone" /\ v3.pc = "none" /\ v3.n = 0 /\ v3.bits = {} /\ v3.a = {} /\ v3.uid # 0
        /\ (Caps!Wanted # {} => v2.user) /\ \A j \in DOMAIN v2.list : v2.list[j].opt # "S"
    BY <1>3, <1>8 DEF Caps!Clone, Caps!Mine
  <2>2. CASE v4' = "failed" /\ v3' = v3 /\ v5' = v5
    <3>1. Caps!MapsSoFar' /\ Caps!InOrder'
      BY <1>1, <1>16, <2>2 DEF Caps!MapsSoFar
    <3> QED
      BY <1>1, <1>2, <1>3, <1>6, <1>14, <1>15, <2>1, <2>2, <3>1 DEF Caps!TypeOK, Caps!UsernsInv, Caps!At
  <2>3. CASE /\ v4' = Caps!FirstMap
             /\ v5' = [v5 EXCEPT !.writers = {"parent", "child"}]
             /\ v3' = [v3 EXCEPT !.pc = "close", !.p = IF v2.user THEN CapNames ELSE @, !.e = IF v2.user THEN CapNames ELSE @,
                                 !.b = IF v2.user THEN CapNames ELSE @, !.uid = IF v2.user THEN 65534 ELSE @]
    <3> DEFINE p == IF v2.user THEN CapNames ELSE v3.p
               e == IF v2.user THEN CapNames ELSE v3.e
               b == IF v2.user THEN CapNames ELSE v3.b
               u == IF v2.user THEN 65534 ELSE v3.uid
    <3>1. v3' = [v3 EXCEPT !.pc = "close", !.p = p, !.e = e, !.b = b, !.uid = u]
      BY <2>3
    <3>2. p \in SUBSET CapNames /\ e \in SUBSET CapNames /\ b \in SUBSET CapNames /\ u \in Nat /\ u # 0
          /\ (v2.user => p = CapNames /\ e = CapNames /\ b = CapNames)
      BY <1>2, <2>1, CapFields
    <3> HIDE DEF p, e, b, u
    <3>3. v3' \in Caps!Processes
      BY <1>2, <3>1, <3>2 DEF Caps!Processes, Caps!Labels
    <3>4. v3'.pc = "close" /\ v3'.p = p /\ v3'.e = e /\ v3'.b = b /\ v3'.n = 0 /\ v3'.bits = {} /\ v3'.a = {} /\ v3'.uid = u
      BY <1>2, <2>1, <3>1 DEF Caps!Processes, Caps!Labels
    <3>5. /\ v5' \in [uid_map : BOOLEAN, gid_map : BOOLEAN, projid_map : BOOLEAN, denied : BOOLEAN, writers : SUBSET {"parent", "child"}]
          /\ v5'.writers = {"parent", "child"}
          /\ v5'.uid_map = v5.uid_map /\ v5'.gid_map = v5.gid_map /\ v5'.projid_map = v5.projid_map /\ v5'.denied = v5.denied
      BY <1>2, <2>3
    <3>6. /\ v4' \in CapMapLabels /\ (v4' \in Caps!Maps => v4' \in Caps!Wanted)
          /\ v4' = "setgroups" => "gid_map" \in Caps!Wanted /\ v2.deny
      BY <1>15, <2>3, CapMapSteps
    <3>7. Caps!MapsSoFar'
      BY <1>1, <1>14, <1>15, <2>3, CapMapSteps DEF Caps!MapsSoFar, CapMapLabels
    <3>8. Caps!InOrder' /\ Caps!MapsThenCommand'
      BY <1>16, <3>4, <3>5 DEF Caps!MapsThenCommand, Caps!At
    <3> QED
      BY <1>1, <1>3, <1>14, <1>15, <2>1, <3>2, <3>3, <3>4, <3>5, <3>6, <3>7, <3>8 DEF Caps!TypeOK, Caps!UsernsInv, Caps!At, CapMapLabels
  <2> QED
    BY <1>8, <2>2, <2>3 DEF Caps!Clone, Caps!Mine
<1>9. CASE Caps!update_child_maps
  <2>1. ASSUME NEW at \in Caps!Maps \cup {"setgroups"}, NEW next \in CapMapLabels \ {"uid_map"},
               NEW file \in {"uid_map", "denied", "gid_map", "projid_map"},
               Caps!update_map(at, next, file),
               \/ at = "uid_map" /\ next = Caps!AfterUid /\ file = "uid_map"
               \/ at = "setgroups" /\ next = "gid_map" /\ file = "denied"
               \/ at = "gid_map" /\ next = Caps!AfterGid /\ file = "gid_map"
               \/ at = "projid_map" /\ next = "close" /\ file = "projid_map"
        PROVE  Caps!TypeOK' /\ Caps!UsernsInv'
    <3>1. v4 = at /\ v3' = v3 /\ v3.pc \in {"none", "close", "read"} /\ "parent" \in v5.writers
      BY <1>3, <1>15, <2>1 DEF Caps!update_map, Caps!Mine
    <3>4. (Caps!Wanted # {} => v2.user) /\ \A j \in DOMAIN v2.list : v2.list[j].opt # "S"
      BY <1>3, <1>15, <3>1
    <3>2. CASE v4' = "failed" /\ v5' = [v5 EXCEPT !.writers = @ \ {"parent"}]
      <4>1. /\ v5' \in [uid_map : BOOLEAN, gid_map : BOOLEAN, projid_map : BOOLEAN, denied : BOOLEAN, writers : SUBSET {"parent", "child"}]
            /\ v5'.writers = v5.writers \ {"parent"}
            /\ v5'.uid_map = v5.uid_map /\ v5'.gid_map = v5.gid_map /\ v5'.projid_map = v5.projid_map /\ v5'.denied = v5.denied
        BY <1>2, <3>2
      <4>2. Caps!MapsSoFar' /\ Caps!InOrder'
        BY <1>1, <1>16, <3>2, <4>1 DEF Caps!MapsSoFar
      <4>3. Caps!MapsThenCommand'
        BY <1>6, <3>1, <4>2
      <4> QED
        BY <1>1, <1>2, <1>3, <1>14, <1>15, <3>1, <3>2, <3>4, <4>1, <4>2, <4>3 DEF Caps!TypeOK, Caps!UsernsInv, Caps!At
    <3>3. CASE v4' = next /\ v5' = [v5 EXCEPT ![file] = TRUE]
      <4>1. /\ v5' \in [uid_map : BOOLEAN, gid_map : BOOLEAN, projid_map : BOOLEAN, denied : BOOLEAN, writers : SUBSET {"parent", "child"}]
            /\ v5'.writers = v5.writers
            /\ v5'.uid_map = (IF file = "uid_map" THEN TRUE ELSE v5.uid_map)
            /\ v5'.denied = (IF file = "denied" THEN TRUE ELSE v5.denied)
            /\ v5'.gid_map = (IF file = "gid_map" THEN TRUE ELSE v5.gid_map)
            /\ v5'.projid_map = (IF file = "projid_map" THEN TRUE ELSE v5.projid_map)
        BY <1>2, <2>1, <3>3
      <4>2. /\ at \in Caps!Maps => at \in Caps!Wanted
            /\ at = "setgroups" => "gid_map" \in Caps!Wanted /\ v2.deny
        BY <1>3, <3>1
      <4>5. /\ next \in Caps!Maps => next \in Caps!Wanted
            /\ next = "setgroups" => "gid_map" \in Caps!Wanted /\ v2.deny
        BY <1>15, <2>1, <4>2, CapMapSteps
      <4>3. Caps!MapsSoFar' /\ Caps!InOrder'
        <5>1. CASE at = "uid_map" /\ next = Caps!AfterUid /\ file = "uid_map"
          BY <1>1, <1>4, <1>14, <1>15, <3>1, <3>3, <4>1, <4>2, <5>1, CapMapSteps DEF Caps!MapsSoFar, Caps!InOrder, CapMapLabels
        <5>2. CASE at = "setgroups" /\ next = "gid_map" /\ file = "denied"
          BY <1>1, <1>4, <1>14, <1>15, <3>1, <3>3, <4>1, <4>2, <5>2 DEF Caps!MapsSoFar, Caps!InOrder
        <5>3. CASE at = "gid_map" /\ next = Caps!AfterGid /\ file = "gid_map"
          BY <1>1, <1>4, <1>14, <1>15, <3>1, <3>3, <4>1, <4>2, <5>3, CapMapSteps DEF Caps!MapsSoFar, Caps!InOrder
        <5>4. CASE at = "projid_map" /\ next = "close" /\ file = "projid_map"
          BY <1>1, <1>4, <1>14, <1>15, <3>1, <3>3, <4>1, <4>2, <5>4 DEF Caps!MapsSoFar, Caps!InOrder
        <5> QED
          BY <2>1, <5>1, <5>2, <5>3, <5>4
      <4>4. Caps!MapsThenCommand'
        BY <1>6, <3>1, <4>3
      <4> QED
        BY <1>1, <1>2, <1>3, <1>14, <1>15, <2>1, <3>1, <3>3, <3>4, <4>1, <4>3, <4>4, <4>5 DEF Caps!TypeOK, Caps!UsernsInv, Caps!At, CapMapLabels
    <3> QED
      BY <2>1, <3>2, <3>3 DEF Caps!update_map, Caps!Mine
  <2>7. /\ Caps!AfterUid \in CapMapLabels \ {"uid_map"} /\ Caps!AfterGid \in CapMapLabels \ {"uid_map"}
        /\ "gid_map" \in CapMapLabels \ {"uid_map"} /\ "close" \in CapMapLabels \ {"uid_map"}
    BY <1>15, CapMapSteps DEF CapMapLabels
  <2>2. CASE Caps!update_map("uid_map", Caps!AfterUid, "uid_map")
    BY <1>1, <1>15, <2>1, <2>2, <2>7
  <2>3. CASE Caps!update_map("setgroups", "gid_map", "denied")
    BY <1>1, <2>1, <2>3, <2>7
  <2>4. CASE Caps!update_map("gid_map", Caps!AfterGid, "gid_map")
    BY <1>1, <1>15, <2>1, <2>4, <2>7
  <2>5. CASE Caps!update_map("projid_map", "close", "projid_map")
    BY <1>1, <1>15, <2>1, <2>5, <2>7
  <2> QED
    BY <1>1, <1>9, <2>2, <2>3, <2>4, <2>5 DEF Caps!update_child_maps, Caps!proc_setgroups_write
<1>10. CASE Caps!CloseAndWait
  <2>3. v4 \in {"close", "waitpid"} => (Caps!Wanted # {} => v2.user) /\ \A j \in DOMAIN v2.list : v2.list[j].opt # "S"
    BY <1>3
  <2>1. CASE v4 = "close" /\ v4' = "waitpid" /\ v3' = v3 /\ v5' = [v5 EXCEPT !.writers = @ \ {"parent"}]
    <3>1. /\ v5' \in [uid_map : BOOLEAN, gid_map : BOOLEAN, projid_map : BOOLEAN, denied : BOOLEAN, writers : SUBSET {"parent", "child"}]
          /\ v5'.writers = v5.writers \ {"parent"}
          /\ v5'.uid_map = v5.uid_map /\ v5'.gid_map = v5.gid_map /\ v5'.projid_map = v5.projid_map /\ v5'.denied = v5.denied
      BY <1>2, <2>1
    <3>2. Caps!MapsSoFar' /\ Caps!InOrder'
      BY <1>1, <1>4, <1>14, <1>16, <2>1, <3>1 DEF Caps!MapsSoFar
    <3>3. v3.pc \in {"none", "close", "read"} /\ Caps!MapsThenCommand'
      BY <1>3, <1>6, <2>1, <3>2
    <3> QED
      BY <1>1, <1>2, <1>3, <1>14, <1>15, <2>1, <2>3, <3>1, <3>2, <3>3 DEF Caps!TypeOK, Caps!UsernsInv, Caps!At
  <2>2. CASE v4 = "waitpid" /\ v3.pc \in {"exec", "failed"} /\ v4' = "exit" /\ v3' = v3 /\ v5' = v5
    <3>1. Caps!MapsSoFar' /\ Caps!InOrder'
      BY <1>1, <1>4, <1>14, <1>16, <2>2 DEF Caps!MapsSoFar
    <3>2. Caps!MapsThenCommand'
      BY <1>1, <1>4, <1>14, <2>2, <3>1 DEF Caps!MapsThenCommand, Caps!At
    <3> QED
      BY <1>1, <1>2, <1>3, <1>14, <1>15, <2>2, <2>3, <3>1, <3>2 DEF Caps!TypeOK, Caps!UsernsInv, Caps!At
  <2> QED
    BY <1>10, <2>1, <2>2 DEF Caps!CloseAndWait, Caps!Mine
<1>11. CASE Caps!ChildCloses
  <2>1. v3.pc = "close" /\ v3' = [v3 EXCEPT !.pc = "read"] /\ v5' = [v5 EXCEPT !.writers = @ \ {"child"}] /\ v4' = v4
    BY <1>11 DEF Caps!ChildCloses, Caps!Mine, Caps!At
  <2>2. /\ v5' \in [uid_map : BOOLEAN, gid_map : BOOLEAN, projid_map : BOOLEAN, denied : BOOLEAN, writers : SUBSET {"parent", "child"}]
        /\ v5'.writers = v5.writers \ {"child"}
        /\ v5'.uid_map = v5.uid_map /\ v5'.gid_map = v5.gid_map /\ v5'.projid_map = v5.projid_map /\ v5'.denied = v5.denied
    BY <1>2, <2>1
  <2>3. /\ v3' \in Caps!Processes /\ v3'.pc = "read" /\ v3'.n = v3.n /\ v3'.bits = v3.bits /\ v3'.p = v3.p /\ v3'.e = v3.e
        /\ v3'.b = v3.b /\ v3'.a = v3.a /\ v3'.uid = v3.uid
    <3>1. "read" \in Caps!Labels
      BY DEF Caps!Labels
    <3> QED
      BY <1>2, <2>1, <3>1, CapPc
  <2>4. Caps!MapsSoFar' /\ Caps!InOrder'
    BY <1>1, <1>4, <1>14, <1>16, <2>1, <2>2 DEF Caps!MapsSoFar
  <2>6. Caps!MapsThenCommand'
    BY <2>3, <2>4 DEF Caps!MapsThenCommand, Caps!At
  <2>5. v4 \notin {"parse", "clone"}
    BY <1>3, <2>1
  <2> QED
    BY <1>1, <1>2, <1>3, <1>14, <1>15, <2>1, <2>2, <2>3, <2>4, <2>5, <2>6 DEF Caps!TypeOK, Caps!UsernsInv, Caps!At
<1>12. CASE Caps!ChildReads
  <2> DEFINE u == IF v5.uid_map THEN Caps!MapsTo ELSE v3.uid
  <2>1. v3.pc = "read" /\ v5.writers = {} /\ v4' = v4 /\ v5' = v5 /\ v3' = [v3 EXCEPT !.pc = "options", !.uid = u]
    BY <1>12 DEF Caps!ChildReads, Caps!Mine, Caps!At
  <2>2. u \in Nat /\ (IF v5.uid_map THEN u = Caps!MapsTo ELSE u # 0)
    BY <1>2, <1>3, <1>15, <2>1
  <2> HIDE DEF u
  <2>3. v3' \in Caps!Processes
    BY <1>2, <2>1, <2>2 DEF Caps!Processes, Caps!Labels
  <2>4. /\ v3'.pc = "options" /\ v3'.n = v3.n /\ v3'.bits = v3.bits /\ v3'.p = v3.p /\ v3'.e = v3.e /\ v3'.b = v3.b /\ v3'.uid = u
        /\ v3'.a = v3.a
    BY <1>2, <2>1 DEF Caps!Processes, Caps!Labels
  <2>5. v4 \in {"waitpid", "exit", "failed"} /\ v3.n = 0 /\ v3.a = {} /\ v3.bits = {}
    BY <1>3, <1>15, <2>1
  <2>6. Caps!MapsSoFar' /\ Caps!InOrder'
    BY <1>1, <1>4, <1>14, <1>16, <2>1 DEF Caps!MapsSoFar
  <2>8. v4 # "failed" => (\A f \in Caps!Wanted : v5[f]) /\ ("gid_map" \in Caps!Wanted /\ v2.deny => v5.denied)
    BY <1>4, <1>15, <2>5 DEF Caps!MapsSoFar
  <2>7. Caps!MapsThenCommand'
    BY <1>1, <1>14, <2>1, <2>4, <2>5, <2>6, <2>8 DEF Caps!MapsThenCommand, Caps!At
  <2> QED
    BY <1>1, <1>2, <1>3, <1>14, <1>15, <2>1, <2>2, <2>3, <2>4, <2>5, <2>6, <2>7 DEF Caps!TypeOK, Caps!UsernsInv, Caps!At
<1>13. CASE Caps!perform_repeatable_options
  <2>1. v3.pc = "options" /\ v4' = v4 /\ v5' = v5 /\ v4 \in {"waitpid", "exit", "failed"}
        /\ (Caps!Wanted # {} => v2.user) /\ \A j \in DOMAIN v2.list : v2.list[j].opt # "S"
    BY <1>3, <1>13 DEF Caps!perform_repeatable_options, Caps!Mine, Caps!At
  <2>2. Caps!MapsSoFar' /\ Caps!InOrder'
    BY <1>1, <1>4, <1>14, <1>16, <2>1 DEF Caps!MapsSoFar
  <2>5. v4 # "failed" => (\A f \in Caps!Wanted : v5[f]) /\ ("gid_map" \in Caps!Wanted /\ v2.deny => v5.denied)
    BY <1>4, <1>15, <2>1 DEF Caps!MapsSoFar
  <2>3. CASE v3.n = Len(v2.list)
    <3> DEFINE r == Caps!Execve(v3)
    <3>1. v3' = r
      BY <1>13, <2>3 DEF Caps!perform_repeatable_options, Caps!Mine
    <3>2. /\ r \in Caps!Processes /\ r.pc = "exec" /\ r.n = v3.n /\ (v3.uid = 0 /\ v3.bits = {} => v3.b \subseteq r.e)
          /\ r.e = r.p /\ (v3.uid # 0 => r.p = v3.a)
      BY <1>2, CapExecve
    <3>3. r.e \subseteq CapNames
      BY <3>2, CapFields
    <3> HIDE DEF r
    <3>4. v2.list = <<>> => r.e = IF v5.uid_map /\ Caps!MapsTo = 0 THEN CapNames ELSE {}
      <4> SUFFICES ASSUME v2.list = <<>> PROVE r.e = IF v5.uid_map /\ Caps!MapsTo = 0 THEN CapNames ELSE {}
        OBVIOUS
      <4>1. v3.n = 0
        BY <2>3
      <4>2. v3.bits = {} /\ v3.a = {} /\ (IF v5.uid_map THEN v3.uid = Caps!MapsTo ELSE v3.uid # 0)
        BY <1>3, <2>1, <4>1
      <4>3. CASE v5.uid_map /\ Caps!MapsTo = 0
        <5>1. "uid_map" \in Caps!Wanted
          BY <1>4, <1>15, <4>3 DEF Caps!InOrder
        <5>2. v3.b = CapNames
          BY <1>3, <2>1, <4>1, <5>1
        <5> QED
          BY <3>2, <3>3, <4>2, <4>3, <5>2
      <4>4. CASE ~(v5.uid_map /\ Caps!MapsTo = 0)
        <5>1. v3.uid # 0
          BY <4>2, <4>4
        <5> QED
          BY <3>2, <4>2, <4>4, <5>1
      <4> QED
        BY <4>3, <4>4
    <3>5. Caps!MapsThenCommand'
      BY <1>1, <1>14, <2>1, <2>2, <2>5, <3>1, <3>2, <3>4 DEF Caps!MapsThenCommand, Caps!At
    <3> QED
      BY <1>1, <1>2, <1>3, <1>14, <1>15, <2>1, <2>2, <3>1, <3>2, <3>5 DEF Caps!TypeOK, Caps!UsernsInv, Caps!At
  <2>4. CASE v3.n # Len(v2.list)
    <3> DEFINE o == v2.list[v3.n + 1]
               r == Caps!Perform(v3, o)
    <3>1. v3' = [r EXCEPT !.n = @ + 1]
      BY <1>13, <2>4 DEF Caps!perform_repeatable_options, Caps!Mine
    <3>2. v3.n + 1 \in 1..Len(v2.list) /\ o \in Caps!Options /\ o.opt # "S"
      BY <1>2, <1>3, <1>5, <2>1, <2>4
    <3>3. /\ r \in Caps!Processes /\ r.pc \in {v3.pc, "failed"} /\ r.n = v3.n
          /\ o.opt = "A" /\ r.pc # "failed" /\ "a" \notin r.bits => r.p \cap r.b \subseteq r.a
      <4> HIDE DEF o
      <4> QED
        BY <1>2, <3>2, CapPerform
    <3> HIDE DEF o, r
    <3>4. /\ v3' \in Caps!Processes /\ v3'.pc = r.pc /\ v3'.n = v3.n + 1 /\ v3'.b = r.b /\ v3'.bits = r.bits
          /\ v3'.p = r.p /\ v3'.a = r.a
      BY <3>1, <3>3, CapCount
    <3>5. v3'.pc \in {"options", "failed"} /\ v3'.n # 0 /\ v3'.n <= Len(v2.list) /\ v2.list[v3'.n] = o
      BY <1>2, <1>5, <2>1, <3>2, <3>3, <3>4 DEF o
    <3>6. Caps!MapsThenCommand'
      BY <1>1, <1>14, <2>1, <2>2, <2>5, <3>3, <3>4, <3>5 DEF Caps!MapsThenCommand, Caps!At
    <3> QED
      BY <1>1, <1>2, <1>3, <1>14, <1>15, <2>1, <2>2, <3>4, <3>5, <3>6 DEF Caps!TypeOK, Caps!UsernsInv, Caps!At
  <2> QED
    BY <2>3, <2>4
<1> QED
  BY <1>1, <1>7, <1>8, <1>9, <1>10, <1>11, <1>12, <1>13

-----------------------------------------------------------------------------
(* Capabilities: the invariant.                                            *)

LEMMA CapInit == Caps!Init => Caps!IInv
<1> SUFFICES ASSUME Caps!Init PROVE Caps!IInv
  OBVIOUS
<1>1. v5 \in [uid_map : BOOLEAN, gid_map : BOOLEAN, projid_map : BOOLEAN, denied : BOOLEAN, writers : SUBSET {"parent", "child"}]
      /\ v5.uid_map = FALSE /\ v5.gid_map = FALSE /\ v5.projid_map = FALSE /\ v5.denied = FALSE
  BY DEF Caps!Init
<1>2. ASSUME NEW p \in SUBSET CapNames, NEW u \in Nat, NEW pc \in {"none", "start"}, v3 = Caps!Fresh(p, u, pc)
      PROVE  v3 \in Caps!Processes /\ v3.pc = pc /\ v3.n = 0 /\ v3.i = {} /\ v3.a = {} /\ v3.uid = u /\ v3.bits = {}
  <2> DEFINE e == IF u = 0 THEN p ELSE {}
  <2>1. e \in SUBSET CapNames
    OBVIOUS
  <2>2. v3 = [pc |-> pc, p |-> p, e |-> e, i |-> {}, b |-> CapNames, a |-> {}, uid |-> u, gid |-> u, groups |-> u,
              bits |-> {}, n |-> 0]
    BY <1>2 DEF Caps!Fresh
  <2> HIDE DEF e
  <2> QED
    BY <2>1, <2>2 DEF Caps!Processes, Caps!Labels
<1>3. CASE /\ v1 = "userns" /\ v4 = "parse"
           /\ v2 \in Caps!UsernsOptions
           /\ v3 = Caps!Fresh({}, 1000, "none")
  <2>1. v3 \in Caps!Processes /\ v3.pc = "none" /\ v3.n = 0 /\ v3.bits = {} /\ v3.a = {} /\ v3.uid = 1000
    <3> DEFINE p == {}
               u == 1000
    <3>1. p \in SUBSET CapNames /\ u \in Nat /\ u = 1000 /\ v3 = Caps!Fresh(p, u, "none")
      BY <1>3
    <3> HIDE DEF p, u
    <3> QED
      BY <1>2, <3>1
  <2>2. v2.list \in CapOptions
    BY <1>3 DEF Caps!UsernsOptions
  <2>3. Len(v2.list) \in Nat
    BY <2>2, CapBounds
  <2>4. v3.n <= Len(v2.list)
    BY <2>1, <2>3
  <2>5. Caps!MapsSoFar /\ Caps!MapsThenCommand
    BY <1>1, <1>3, <2>1 DEF Caps!MapsSoFar, Caps!MapsThenCommand, Caps!InOrder, Caps!Maps, Caps!At
  <2> QED
    BY <1>1, <1>3, <2>1, <2>4, <2>5 DEF Caps!IInv, Caps!TypeOK, Caps!UsernsInv, Caps!Maps, Caps!At
<1>4. CASE v1 = "launcher" /\ v2 \in [user : {0, 1000}, list : CapLists, ambient : BOOLEAN]
           /\ \E p \in SUBSET CapNames : v3 = Caps!Fresh(p, 0, "start")
  <2>1. v3 \in Caps!Processes /\ v3.pc = "start" /\ v3.n = 0 /\ v3.i = {} /\ v3.a = {} /\ v3.uid = 0
    <3> DEFINE u == 0
    <3>1. PICK p \in SUBSET CapNames : v3 = Caps!Fresh(p, u, "start")
      BY <1>4
    <3>2. u \in Nat
      OBVIOUS
    <3>3. u = 0
      OBVIOUS
    <3> HIDE DEF u
    <3> QED
      BY <1>2, <3>1, <3>2, <3>3
  <2> QED
    BY <1>1, <1>4, <2>1 DEF Caps!IInv, Caps!TypeOK, Caps!LauncherInv, Caps!LaunchedAsAsked, Caps!At
<1>5. CASE v1 = "cred" /\ v2 \in [user : {1000}, groups : BOOLEAN]
           /\ \E p \in {{}, CapNames}, u \in {0, 1000} : v3 = Caps!Fresh(p, u, "start")
  <2>1. v3 \in Caps!Processes /\ v3.pc = "start"
    BY <1>2, <1>5
  <2> QED
    BY <1>1, <1>5, <2>1 DEF Caps!IInv, Caps!TypeOK, Caps!CredInv, Caps!At
<1>6. CASE v1 = "password" /\ \E p \in {{}, {"DAC"}, CapNames} : v3 = Caps!Fresh(p, 1000, "start")
  <2>1. PICK p \in {{}, {"DAC"}, CapNames} : v3 = Caps!Fresh(p, 1000, "start")
    BY <1>6
  <2>2. p \in SUBSET CapNames
    BY CapBounds
  <2>3. v3 \in Caps!Processes /\ v3.pc = "start"
    BY <1>2, <2>1, <2>2
  <2> QED
    BY <1>1, <1>6, <2>3 DEF Caps!IInv, Caps!TypeOK, Caps!LaunchedAsAsked, Caps!At
<1> QED
  BY <1>3, <1>4, <1>5, <1>6 DEF Caps!Init

LEMMA CapNext == Caps!IInv /\ [Caps!Next]_(Caps!vars) => Caps!IInv'
<1> SUFFICES ASSUME Caps!IInv, [Caps!Next]_(Caps!vars) PROVE Caps!IInv'
  OBVIOUS
<1>1. CASE UNCHANGED Caps!vars
  BY <1>1 DEF Caps!vars, Caps!IInv, Caps!TypeOK, Caps!LauncherInv, Caps!LaunchedAsAsked, Caps!CredInv, Caps!UsernsInv, Caps!MapsSoFar,
     Caps!MapsThenCommand, Caps!InOrder, Caps!Wanted, Caps!MapsTo, Caps!At
<1>2. CASE Caps!Next
  <2>1. v1 \in {"userns", "launcher", "cred", "password"} /\ Caps!TypeOK
    BY DEF Caps!IInv, Caps!TypeOK
  <2>2. CASE v1 = "launcher"
    BY <1>2, <2>1, <2>2, CapLaunch DEF Caps!IInv
  <2>3. CASE v1 = "cred"
    BY <1>2, <2>1, <2>3, CapCred DEF Caps!IInv
  <2>4. CASE v1 = "password"
    BY <1>2, <2>1, <2>4, CapPassword DEF Caps!IInv
  <2>5. CASE v1 = "userns"
    BY <1>2, <2>1, <2>5, CapUserns DEF Caps!IInv
  <2> QED
    BY <2>1, <2>2, <2>3, <2>4, <2>5
<1> QED
  BY <1>1, <1>2

LEMMA CapSafe == Caps!IInv => Caps!LaunchedAsAsked /\ Caps!MapsThenCommand
<1> SUFFICES ASSUME Caps!IInv PROVE Caps!LaunchedAsAsked /\ Caps!MapsThenCommand
  OBVIOUS
<1>1. v1 \in {"userns", "launcher", "cred", "password"}
  BY DEF Caps!IInv, Caps!TypeOK
<1>2. CASE v1 = "userns"
  BY <1>2 DEF Caps!IInv, Caps!UsernsInv, Caps!LaunchedAsAsked
<1>3. CASE v1 = "launcher"
  BY <1>3 DEF Caps!IInv, Caps!LauncherInv, Caps!MapsThenCommand
<1>4. CASE v1 = "cred"
  <2>1. v2.user = 1000
    BY <1>4 DEF Caps!IInv, Caps!CredInv
  <2> QED
    BY <1>4, <2>1 DEF Caps!IInv, Caps!CredInv, Caps!LaunchedAsAsked, Caps!MapsThenCommand, Caps!At
<1>5. CASE v1 = "password"
  BY <1>5 DEF Caps!IInv, Caps!MapsThenCommand
<1> QED
  BY <1>1, <1>2, <1>3, <1>4, <1>5

-----------------------------------------------------------------------------
(* Children.  The parent and a child elsewhere are still what they were.   *)

LEMMA KinGo ==
  ASSUME Kin!TypeOK, NEW l \in Kin!Labels
  PROVE  LET q == [v2 EXCEPT !.pc = l] IN
         /\ q \in [pc : Kin!Labels, n : Int, got : Kin!Got, status : Kin!Got \cup Kin!Errors \cup {"unset", "nofork", "error"},
                   told : BOOLEAN, kid : {"default", "ignore"}]
         /\ q.pc = l /\ q.n = v2.n /\ q.got = v2.got /\ q.status = v2.status /\ q.told = v2.told /\ q.kid = v2.kid
BY DEF Kin!TypeOK

LEMMA KinCardinality == \A S : Kin!Cardinality(S) = Cardinality(S)
BY Zenon DEF Kin!Cardinality, Cardinality

LEMMA KinKid ==
  ASSUME Kin!TypeOK, NEW c \in KinKids, NEW s \in Kin!States
  PROVE  /\ [v3 EXCEPT ![c] = s] \in [KinKids -> Kin!States]
         /\ [v3 EXCEPT ![c] = s][c] = s
         /\ \A d \in KinKids \ {c} : [v3 EXCEPT ![c] = s][d] = v3[d]
BY DEF Kin!TypeOK

LEMMA KinCmd ==
  ASSUME Kin!TypeOK, NEW s \in Kin!States
  PROVE  /\ [v3 EXCEPT ![1] = s] \in [KinKids -> Kin!States]
         /\ [v3 EXCEPT ![1] = s][1] = s /\ [v3 EXCEPT ![1] = s][2] = v3[2]
<1> DEFINE c == 1
           d == 2
<1>1. c \in KinKids /\ d \in KinKids \ {c}
  BY KinBounds
<1> HIDE DEF c, d
<1>2. [v3 EXCEPT ![c] = s] \in [KinKids -> Kin!States] /\ [v3 EXCEPT ![c] = s][c] = s /\ [v3 EXCEPT ![c] = s][d] = v3[d]
  BY <1>1, KinKid
<1> QED
  BY <1>2 DEF c, d

\* The children not yet reaped.
LEMMA KinLeft ==
  ASSUME Kin!TypeOK
  PROVE  LET left == {c \in KinKids : v3[c] # "reaped"} IN
         /\ IsFiniteSet(left) /\ Cardinality(left) \in Nat
         /\ Cardinality(left) = 0 <=> left = {}
         /\ \A c \in left : Cardinality(left \ {c}) = Cardinality(left) - 1
<1> DEFINE left == {c \in KinKids : v3[c] # "reaped"}
<1>1. IsFiniteSet(left)
  BY KinBounds, FS_Subset
<1> HIDE DEF left
<1>2. Cardinality(left) \in Nat /\ (Cardinality(left) = 0 <=> left = {})
  BY <1>1, FS_CardinalityType, FS_EmptySet
<1>3. \A c \in left : Cardinality(left \ {c}) = Cardinality(left) - 1
  BY <1>1, FS_RemoveElement
<1> QED
  BY <1>1, <1>2, <1>3 DEF left

-----------------------------------------------------------------------------
(* Children: multi_SIGCHLD and multi_wait.                                 *)

LEMMA KinMulti ==
  ASSUME Kin!TypeOK, v1 \in {"sigchld", "wait"}, Kin!MultiInv, Kin!Next
  PROVE  Kin!TypeOK' /\ v1' = v1 /\ Kin!MultiInv'
<1> DEFINE left == {c \in KinKids : v3[c] # "reaped"}
           Pars == [pc : Kin!Labels, n : Int, got : Kin!Got, status : Kin!Got \cup Kin!Errors \cup {"unset", "nofork", "error"},
                    told : BOOLEAN, kid : {"default", "ignore"}]
           Sigs == [blocked : BOOLEAN, pending : BOOLEAN, int : {"default", "ignore"}, sent : Nat]
<1>1. /\ v1' = v1 /\ v5' = v5
      /\ \/ \E c \in KinKids : Kin!ChildExits(c)
         \/ Kin!BlockSigchld \/ Kin!ForkNext \/ Kin!Suspend \/ Kin!Deliver \/ Kin!sigchldHandler \/ Kin!HandlerReturns \/ Kin!Wait
  BY DEF Kin!Next, Kin!multi_SIGCHLD, Kin!multi_wait, Kin!child_status, Kin!fork_sig_sync, Kin!orphan, Kin!simple_system, Kin!system,
     Kin!execlp, Kin!ChildExits, Kin!BlockSigchld, Kin!ForkNext, Kin!Suspend, Kin!Deliver, Kin!sigchldHandler, Kin!HandlerReturns,
     Kin!Wait, Kin!ForkOne, Kin!StopOrContinue, Kin!WaitStatus, Kin!SignalParent, Kin!AwaitSignal, Kin!ParentExits, Kin!SeesOrphaned,
     Kin!BeginSystem, Kin!IgnoreInterrupts, Kin!ForkCommand, Kin!ChildDispositions, Kin!CallersHandler, Kin!WaitCommand, Kin!Restore,
     Kin!Interrupt, Kin!TryPrefix, Kin!ReturnErrno, Kin!Step, Kin!System
<1>2. v2 \in Pars /\ v3 \in [KinKids -> Kin!States] /\ v4 \in Sigs /\ v1 \in {"sigchld", "wait"}
      /\ v5 \in [int : {"default", "ignore"}, shell : BOOLEAN, exec : [1..KinPrefixes -> Kin!Errors]]
  BY DEF Kin!TypeOK
<1>3. /\ v2.pc \in {"start", "fork", "loop", "suspended", "handler", "handled", "exit"}
      /\ v2.pc = "start" => \A c \in KinKids : v3[c] = "none"
      /\ v2.pc # "start" => v2.n = Cardinality(left)
      /\ v2.pc \notin {"start", "fork"} => \A c \in KinKids : v3[c] # "none"
      /\ v1 = "sigchld" /\ v2.pc # "handler" /\ (\E c \in KinKids : v3[c] = "zombie") => v4.pending
      /\ v2.pc = "suspended" => v2.n > 0
      /\ v2.pc = "exit" => \A c \in KinKids : v3[c] = "reaped"
  <2>1. DOMAIN v3 = KinKids
    BY <1>2
  <2> QED
    BY <2>1, KinCardinality DEF Kin!MultiInv, Kin!At, Kin!Zombies
\* The next state's invariant, with the sets written out.
<1>4. ASSUME v2' \in Pars, v3' \in [KinKids -> Kin!States], v4' \in Sigs,
             v2'.pc \in {"start", "fork", "loop", "suspended", "handler", "handled", "exit"},
             v2'.pc = "start" => \A c \in KinKids : v3'[c] = "none",
             v2'.pc # "start" => v2'.n = Cardinality(left'),
             v2'.pc \notin {"start", "fork"} => \A c \in KinKids : v3'[c] # "none",
             v1 = "sigchld" /\ v2'.pc # "handler" /\ (\E c \in KinKids : v3'[c] = "zombie") => v4'.pending,
             v2'.pc = "suspended" => v2'.n > 0,
             v2'.pc = "exit" => \A c \in KinKids : v3'[c] = "reaped"
      PROVE  Kin!TypeOK' /\ Kin!MultiInv'
  <2>1. Kin!TypeOK'
    BY <1>1, <1>2, <1>4 DEF Kin!TypeOK
  <2>2. DOMAIN v3' = KinKids
    BY <1>4
  <2>3. Kin!Zombies' # {} => \E c \in KinKids : v3'[c] = "zombie"
    BY <2>2 DEF Kin!Zombies
  <2>4. Kin!Cardinality(left') = Cardinality(left')
    BY KinCardinality
  <2> QED
    BY <1>1, <1>4, <2>1, <2>3, <2>4 DEF Kin!MultiInv, Kin!At
<1>5. Cardinality(left) \in Nat /\ (Cardinality(left) = 0 <=> left = {}) /\ \A c \in left : Cardinality(left \ {c}) = Cardinality(left) - 1
  BY KinLeft
<1>6. ASSUME NEW c \in KinKids, Kin!ChildExits(c) PROVE Kin!TypeOK' /\ Kin!MultiInv'
  <2>1. v3[c] = "run" /\ v3' = [v3 EXCEPT ![c] = "zombie"] /\ v4' = [v4 EXCEPT !.pending = TRUE] /\ v2' = v2
    BY <1>2, <1>6 DEF Kin!ChildExits, Kin!Step
  <2>2. v3' \in [KinKids -> Kin!States] /\ v3'[c] = "zombie" /\ \A d \in KinKids \ {c} : v3'[d] = v3[d]
    BY <2>1, KinKid DEF Kin!States
  <2>3. v4' \in Sigs /\ v4'.pending = TRUE
    BY <1>2, <2>1
  <2>4. left' = left
    BY <2>1, <2>2
  <2> HIDE DEF left, Pars, Sigs
  <2> QED
    BY <1>2, <1>3, <1>4, <2>1, <2>2, <2>3, <2>4
<1>7. ASSUME NEW c \in KinKids, v3[c] = "zombie", v3' = [v3 EXCEPT ![c] = "reaped"], v2' = [v2 EXCEPT !.n = @ - 1], v4' = v4,
             v2.pc \in {"handler", "loop"}, v1 = "sigchld" => v2.pc = "handler"
      PROVE  Kin!TypeOK' /\ Kin!MultiInv'
  <2>1. v3' \in [KinKids -> Kin!States] /\ v3'[c] = "reaped" /\ \A d \in KinKids \ {c} : v3'[d] = v3[d]
    BY <1>7, KinKid DEF Kin!States
  <2>2. left' = left \ {c} /\ c \in left
    BY <1>7, <2>1
  <2>3. v2' \in Pars /\ v2'.pc = v2.pc /\ v2'.n = v2.n - 1
    <3> DEFINE n == v2.n - 1
    <3>3. v2.n \in Int
      BY <1>2
    <3>4. n \in Int
      BY <3>3
    <3>5. v2' = [v2 EXCEPT !.n = n]
      BY <1>7
    <3>1. n \in Int /\ v2' = [v2 EXCEPT !.n = n]
      BY <3>4, <3>5
    <3> HIDE DEF n
    <3>2. v2' \in Pars /\ v2'.pc = v2.pc /\ v2'.n = n
      BY <1>2, <3>1
    <3> QED
      BY <3>2 DEF n
  <2>4. v2'.n = Cardinality(left')
    BY <1>3, <1>5, <1>7, <2>2, <2>3
  <2>5. \A d \in KinKids : v3[d] # "none" /\ v3'[d] # "none"
    BY <1>3, <1>7, <2>1
  <2> HIDE DEF left, Pars, Sigs
  <2> QED
    BY <1>2, <1>4, <1>7, <2>1, <2>3, <2>4, <2>5
\* main() and the handler go on, no child is reaped.
<1>8. ASSUME NEW l \in {"loop", "suspended", "handler", "handled", "exit"}, v2' = [v2 EXCEPT !.pc = l], v3' = v3, v4' \in Sigs,
             v2.pc # "start", \A c \in KinKids : v3[c] # "none",
             v1 = "sigchld" /\ l # "handler" /\ (\E c \in KinKids : v3[c] = "zombie") => v4'.pending,
             l = "suspended" => v2.n > 0, l = "exit" => \A c \in KinKids : v3[c] = "reaped"
      PROVE  Kin!TypeOK' /\ Kin!MultiInv'
  <2>1. l \in Kin!Labels
    BY DEF Kin!Labels
  <2>2. v2' \in Pars /\ v2'.pc = l /\ v2'.n = v2.n
    BY <1>8, <2>1, KinGo
  <2>3. left' = left
    BY <1>8
  <2> HIDE DEF left, Pars, Sigs
  <2> QED
    BY <1>2, <1>3, <1>4, <1>8, <2>2, <2>3
<1>9. CASE Kin!BlockSigchld
  <2> DEFINE n == Cardinality(KinKids)
             b == (v1 = "sigchld")
  <2>1. v2.pc = "start" /\ v2' = [v2 EXCEPT !.pc = "fork", !.n = n] /\ v4' = [v4 EXCEPT !.blocked = b] /\ v3' = v3
    BY <1>9, KinCardinality DEF Kin!BlockSigchld, Kin!Step, Kin!At
  <2>2. left = KinKids /\ left' = left
    BY <1>3, <2>1
  <2>3. n \in Int /\ n = Cardinality(left') /\ b \in BOOLEAN /\ "fork" \in Kin!Labels
    BY <1>5, <2>2 DEF Kin!Labels
  <2> HIDE DEF n, b
  <2>4. v2' \in Pars /\ v2'.pc = "fork" /\ v2'.n = n
    BY <1>2, <2>1, <2>3
  <2>5. v4' \in Sigs /\ v4'.pending = v4.pending
    BY <1>2, <2>1, <2>3
  <2>6. \A c \in KinKids : v3'[c] = "none"
    BY <1>3, <2>1
  <2> HIDE DEF left, Pars, Sigs
  <2> QED
    BY <1>1, <1>2, <1>4, <2>1, <2>3, <2>4, <2>5, <2>6
<1>10. CASE Kin!ForkNext
  <2>1. v2.pc = "fork" /\ v4' = v4
    BY <1>10 DEF Kin!ForkNext, Kin!Step, Kin!At
  <2>2. CASE (\A c \in KinKids : v3[c] # "none") /\ v2' = [v2 EXCEPT !.pc = "loop"] /\ v3' = v3
    BY <1>1, <1>2, <1>3, <1>8, <2>1, <2>2
  <2>3. ASSUME NEW c \in KinKids, v3[c] = "none", v3' = [v3 EXCEPT ![c] = "run"], v2' = v2 PROVE Kin!TypeOK' /\ Kin!MultiInv'
    <3>1. v3' \in [KinKids -> Kin!States] /\ v3'[c] = "run" /\ \A d \in KinKids \ {c} : v3'[d] = v3[d]
      BY <2>3, KinKid DEF Kin!States
    <3>2. left' = left
      BY <2>3, <3>1
    <3> HIDE DEF left, Pars, Sigs
    <3> QED
      BY <1>2, <1>3, <1>4, <2>1, <2>3, <3>1, <3>2
  <2> QED
    BY <1>10, <2>2, <2>3 DEF Kin!ForkNext, Kin!Step, Kin!Go
<1>11. CASE Kin!Suspend
  <2> DEFINE l == IF v2.n > 0 THEN "suspended" ELSE "exit"
  <2>1. v1 = "sigchld" /\ v2.pc = "loop" /\ v2' = [v2 EXCEPT !.pc = l] /\ v3' = v3 /\ v4' = v4
    BY <1>11 DEF Kin!Suspend, Kin!Step, Kin!At, Kin!Go
  <2>2. l \in {"suspended", "exit"} /\ (l = "suspended" => v2.n > 0)
    OBVIOUS
  <2>3. l = "exit" => \A c \in KinKids : v3[c] = "reaped"
    <3>1. l = "exit" => left = {}
      BY <1>3, <1>5, <2>1
    <3> QED
      BY <3>1
  <2> HIDE DEF l
  <2> QED
    BY <1>1, <1>2, <1>3, <1>8, <2>1, <2>2, <2>3
<1>12. CASE Kin!Deliver
  <2>1. v2.pc = "suspended" /\ v2' = [v2 EXCEPT !.pc = "handler"] /\ v3' = v3 /\ v4' = [v4 EXCEPT !.pending = FALSE]
    BY <1>12 DEF Kin!Deliver, Kin!Step, Kin!At, Kin!Go
  <2>2. v4' \in Sigs
    BY <1>2, <2>1
  <2> QED
    BY <1>1, <1>3, <1>8, <2>1, <2>2
<1>13. CASE Kin!sigchldHandler
  <2>1. v1 = "sigchld" /\ v2.pc = "handler" /\ v4' = v4 /\ DOMAIN v3 = KinKids
    BY <1>2, <1>13 DEF Kin!sigchldHandler, Kin!Step, Kin!At
  <2>2. CASE \E c \in Kin!Zombies : Kin!Reap(c) /\ v2' = [v2 EXCEPT !.n = @ - 1]
    BY <1>1, <1>7, <2>1, <2>2 DEF Kin!Zombies, Kin!Reap
  <2>3. CASE Kin!Zombies = {} /\ v2' = [v2 EXCEPT !.pc = "handled"] /\ v3' = v3
    <3>1. ~\E c \in KinKids : v3[c] = "zombie"
      BY <2>1, <2>3 DEF Kin!Zombies
    <3> QED
      BY <1>1, <1>2, <1>3, <1>8, <2>1, <2>3, <3>1
  <2> QED
    BY <1>13, <2>2, <2>3 DEF Kin!sigchldHandler, Kin!Step, Kin!Go
<1>14. CASE Kin!HandlerReturns
  <2>1. v2.pc = "handled" /\ v2' = [v2 EXCEPT !.pc = "loop"] /\ v3' = v3 /\ v4' = v4
    BY <1>14 DEF Kin!HandlerReturns, Kin!Step, Kin!At, Kin!Go
  <2> QED
    BY <1>1, <1>2, <1>3, <1>8, <2>1
<1>15. CASE Kin!Wait
  <2>1. v1 = "wait" /\ v2.pc = "loop" /\ v4' = v4 /\ DOMAIN v3 = KinKids
    BY <1>2, <1>15 DEF Kin!Wait, Kin!Step, Kin!At
  <2>2. CASE \E c \in Kin!Zombies : Kin!Reap(c) /\ v2' = [v2 EXCEPT !.n = @ - 1]
    BY <1>1, <1>7, <2>1, <2>2 DEF Kin!Zombies, Kin!Reap
  <2>3. CASE Kin!Zombies = {} /\ Kin!Running = {} /\ v2' = [v2 EXCEPT !.pc = "exit"] /\ v3' = v3
    <3>1. \A c \in KinKids : v3[c] \notin {"zombie", "run", "stopped"} /\ v3[c] \in Kin!States
      BY <1>2, <2>1, <2>3 DEF Kin!Zombies, Kin!Running
    <3>2. \A c \in KinKids : v3[c] = "reaped"
      BY <1>3, <2>1, <3>1 DEF Kin!States
    <3> QED
      BY <1>1, <1>2, <1>3, <1>8, <2>1, <2>3, <3>2
  <2> QED
    BY <1>15, <2>2, <2>3 DEF Kin!Wait, Kin!Step, Kin!Go
<1> QED
  BY <1>1, <1>6, <1>9, <1>10, <1>11, <1>12, <1>13, <1>14, <1>15

-----------------------------------------------------------------------------
(* Children: the caller of system().                                       *)

LEMMA KinSystem ==
  ASSUME Kin!TypeOK, v1 = "system", Kin!SystemInv, Kin!Next
  PROVE  Kin!TypeOK' /\ v1' = v1 /\ Kin!SystemInv'
<1> DEFINE Pars == [pc : Kin!Labels, n : Int, got : Kin!Got, status : Kin!Got \cup Kin!Errors \cup {"unset", "nofork", "error"},
                    told : BOOLEAN, kid : {"default", "ignore"}]
           Sigs == [blocked : BOOLEAN, pending : BOOLEAN, int : {"default", "ignore"}, sent : Nat]
<1>1. /\ v1' = v1 /\ v5' = v5
      /\ \/ \E c \in KinKids : Kin!ChildExits(c)
         \/ Kin!BeginSystem \/ Kin!IgnoreInterrupts \/ Kin!ForkCommand \/ Kin!ChildDispositions \/ Kin!CallersHandler
         \/ Kin!WaitCommand \/ Kin!Restore \/ Kin!Interrupt
  BY DEF Kin!Next, Kin!multi_SIGCHLD, Kin!multi_wait, Kin!child_status, Kin!fork_sig_sync, Kin!orphan, Kin!simple_system, Kin!system,
     Kin!execlp, Kin!ChildExits, Kin!BlockSigchld, Kin!ForkNext, Kin!Suspend, Kin!Deliver, Kin!sigchldHandler, Kin!HandlerReturns,
     Kin!Wait, Kin!ForkOne, Kin!StopOrContinue, Kin!WaitStatus, Kin!SignalParent, Kin!AwaitSignal, Kin!ParentExits, Kin!SeesOrphaned,
     Kin!BeginSystem, Kin!IgnoreInterrupts, Kin!ForkCommand, Kin!ChildDispositions, Kin!CallersHandler, Kin!WaitCommand, Kin!Restore,
     Kin!Interrupt, Kin!TryPrefix, Kin!ReturnErrno, Kin!Step, Kin!System, Kin!Multi
<1>2. v2 \in Pars /\ v3 \in [KinKids -> Kin!States] /\ v4 \in Sigs
      /\ v5 \in [int : {"default", "ignore"}, shell : BOOLEAN, exec : [1..KinPrefixes -> Kin!Errors]]
      /\ 1 \in KinKids /\ 2 \in KinKids
  BY KinBounds DEF Kin!TypeOK
<1>3. /\ v2.pc \in {"start", "ignore", "fork", "waitpid", "restore", "dispositions", "returned", "killed"}
      /\ v2.pc # "killed" => (v4.blocked <=> v2.pc \in {"ignore", "fork", "waitpid", "restore"})
      /\ v2.pc \in {"fork", "waitpid", "restore", "dispositions"} => v4.int = "ignore"
      /\ v2.pc \in {"start", "ignore", "returned"} => v4.int = v5.int
      /\ v2.pc \in {"start", "ignore", "fork"} => v3[1] = "none"
      /\ v2.pc = "waitpid" =>
           \/ v3[1] = "run" /\ v2.got = "none"
           \/ v3[1] = "zombie" /\ v2.got \in {"exited", "signalled"}
      /\ v2.pc \in {"restore", "dispositions", "returned"} =>
           \/ v2.status = "nofork" /\ v3[1] = "none"
           \/ v2.status \in {"exited", "signalled"} /\ v2.status = v2.got /\ v3[1] = "reaped"
      /\ v2.pc = "killed" => v2.status # "unset" \/ v3[1] = "none"
      /\ v3[2] = "zombie" => v4.pending
  BY DEF Kin!SystemInv, Kin!At, Kin!Cmd, Kin!Mine
<1>4. ASSUME v2' \in Pars, v3' \in [KinKids -> Kin!States], v4' \in Sigs,
             v2'.pc \in {"start", "ignore", "fork", "waitpid", "restore", "dispositions", "returned", "killed"},
             v2'.pc # "killed" => (v4'.blocked <=> v2'.pc \in {"ignore", "fork", "waitpid", "restore"}),
             v2'.pc \in {"fork", "waitpid", "restore", "dispositions"} => v4'.int = "ignore",
             v2'.pc \in {"start", "ignore", "returned"} => v4'.int = v5.int,
             v2'.pc \in {"start", "ignore", "fork"} => v3'[1] = "none",
             v2'.pc = "waitpid" =>
               \/ v3'[1] = "run" /\ v2'.got = "none"
               \/ v3'[1] = "zombie" /\ v2'.got \in {"exited", "signalled"},
             v2'.pc \in {"restore", "dispositions", "returned"} =>
               \/ v2'.status = "nofork" /\ v3'[1] = "none"
               \/ v2'.status \in {"exited", "signalled"} /\ v2'.status = v2'.got /\ v3'[1] = "reaped",
             v2'.pc = "killed" => v2'.status # "unset" \/ v3'[1] = "none",
             v3'[2] = "zombie" => v4'.pending
      PROVE  Kin!TypeOK' /\ v1' = v1 /\ Kin!SystemInv'
  <2>1. Kin!TypeOK'
    BY <1>1, <1>2, <1>4 DEF Kin!TypeOK
  <2> QED
    BY <1>1, <1>4, <2>1 DEF Kin!SystemInv, Kin!At, Kin!Cmd, Kin!Mine
<1>5. ASSUME NEW c \in KinKids, Kin!ChildExits(c) PROVE Kin!TypeOK' /\ v1' = v1 /\ Kin!SystemInv'
  <2>1. v3[c] = "run" /\ v3' = [v3 EXCEPT ![c] = "zombie"] /\ v4' = [v4 EXCEPT !.pending = TRUE]
        /\ v2' = IF c = 1 /\ v2.got = "none" THEN [v2 EXCEPT !.got = "exited"] ELSE v2
    BY <1>2, <1>5 DEF Kin!ChildExits, Kin!Step, Kin!Cmd
  <2>2. v3' \in [KinKids -> Kin!States] /\ v3'[c] = "zombie" /\ \A d \in KinKids \ {c} : v3'[d] = v3[d]
    BY <2>1, KinKid DEF Kin!States
  <2>3. v4' \in Sigs /\ v4'.pending = TRUE /\ v4'.blocked = v4.blocked /\ v4'.int = v4.int
    BY <1>2, <2>1
  <2>4. v2' \in Pars /\ v2'.pc = v2.pc /\ v2'.status = v2.status /\ v2'.got = IF c = 1 /\ v2.got = "none" THEN "exited" ELSE v2.got
    BY <1>2, <2>1 DEF Kin!Got
  <2> HIDE DEF Pars, Sigs
  <2>5. CASE c = 1
    BY <1>2, <1>3, <1>4, <2>1, <2>2, <2>3, <2>4, <2>5
  <2>6. CASE c # 1
    <3>1. v3'[1] = v3[1] /\ v2'.got = v2.got
      BY <1>2, <2>2, <2>4, <2>6
    <3> QED
      BY <1>3, <1>4, <2>2, <2>3, <2>4, <3>1
  <2> QED
    BY <2>5, <2>6
<1>6. CASE Kin!BeginSystem
  <2>1. v2.pc = "start" /\ v2' = [v2 EXCEPT !.pc = "ignore"] /\ v4' = [v4 EXCEPT !.blocked = TRUE] /\ v3' = v3
    BY <1>6 DEF Kin!BeginSystem, Kin!Step, Kin!At, Kin!Go
  <2>2. v2' \in Pars /\ v2'.pc = "ignore" /\ v2'.status = v2.status /\ v2'.got = v2.got
    BY <1>2, <2>1 DEF Kin!Labels
  <2>3. v4' \in Sigs /\ v4'.pending = v4.pending /\ v4'.blocked = TRUE /\ v4'.int = v4.int
    BY <1>2, <2>1
  <2> HIDE DEF Pars, Sigs
  <2> QED
    BY <1>2, <1>3, <1>4, <2>1, <2>2, <2>3
<1>7. CASE Kin!IgnoreInterrupts
  <2>1. v2.pc = "ignore" /\ v2' = [v2 EXCEPT !.pc = "fork"] /\ v4' = [v4 EXCEPT !.int = "ignore"] /\ v3' = v3
    BY <1>7 DEF Kin!IgnoreInterrupts, Kin!Step, Kin!At, Kin!Go
  <2>2. v2' \in Pars /\ v2'.pc = "fork" /\ v2'.status = v2.status /\ v2'.got = v2.got
    BY <1>2, <2>1 DEF Kin!Labels
  <2>3. v4' \in Sigs /\ v4'.pending = v4.pending /\ v4'.blocked = v4.blocked /\ v4'.int = "ignore"
    BY <1>2, <2>1
  <2> HIDE DEF Pars, Sigs
  <2> QED
    BY <1>2, <1>3, <1>4, <2>1, <2>2, <2>3
<1>8. CASE Kin!ForkCommand
  <2>1. v2.pc = "fork" /\ v4' = v4
    BY <1>8 DEF Kin!ForkCommand, Kin!Step, Kin!At
  <2>2. CASE v3' = [v3 EXCEPT ![1] = "run"] /\ v2' = [v2 EXCEPT !.pc = "waitpid", !.got = "none", !.kid = v4.int]
    <3>1. v3' \in [KinKids -> Kin!States] /\ v3'[1] = "run" /\ v3'[2] = v3[2]
      BY <2>2, KinCmd DEF Kin!States
    <3>2. v2' \in Pars /\ v2'.pc = "waitpid" /\ v2'.got = "none"
      BY <1>2, <2>2 DEF Kin!Labels, Kin!Got
    <3> HIDE DEF Pars, Sigs
    <3> QED
      BY <1>2, <1>3, <1>4, <2>1, <3>1, <3>2
  <2>3. CASE v3' = v3 /\ v2' = [v2 EXCEPT !.pc = "restore", !.status = "nofork"]
    <3>1. v2' \in Pars /\ v2'.pc = "restore" /\ v2'.status = "nofork"
      BY <1>2, <2>3 DEF Kin!Labels
    <3> HIDE DEF Pars, Sigs
    <3> QED
      BY <1>2, <1>3, <1>4, <2>1, <2>3, <3>1
  <2> QED
    BY <1>8, <2>2, <2>3 DEF Kin!ForkCommand, Kin!Step, Kin!Cmd
<1>9. CASE Kin!ChildDispositions
  <2>1. v2' = [v2 EXCEPT !.kid = v5.int] /\ v3' = v3 /\ v4' = v4
    BY <1>9 DEF Kin!ChildDispositions, Kin!Step
  <2>2. v2' \in Pars /\ v2'.pc = v2.pc /\ v2'.status = v2.status /\ v2'.got = v2.got
    BY <1>2, <2>1
  <2> HIDE DEF Pars, Sigs
  <2> QED
    BY <1>2, <1>3, <1>4, <2>1, <2>2
<1>10. CASE Kin!CallersHandler
  <2>1. v4.blocked = FALSE /\ v2.pc # "killed" /\ v2' = v2 /\ v4' = [v4 EXCEPT !.pending = FALSE]
        /\ v3' = [c \in KinKids |-> IF v3[c] = "zombie" THEN "reaped" ELSE v3[c]]
    BY <1>2, <1>10 DEF Kin!CallersHandler, Kin!Step
  <2>2. v3' \in [KinKids -> Kin!States] /\ v3'[1] = (IF v3[1] = "zombie" THEN "reaped" ELSE v3[1]) /\ v3'[2] # "zombie"
    BY <1>2, <2>1 DEF Kin!States
  <2>3. v4' \in Sigs /\ v4'.blocked = v4.blocked /\ v4'.int = v4.int
    BY <1>2, <2>1
  <2>4. v3'[1] = v3[1]
    BY <1>3, <2>1, <2>2
  <2> HIDE DEF Pars, Sigs
  <2> QED
    BY <1>2, <1>3, <1>4, <2>1, <2>2, <2>3, <2>4
<1>11. CASE Kin!WaitCommand
  <2>1. v2.pc = "waitpid" /\ v4' = v4 /\ v3[1] # "reaped"
    BY <1>3, <1>11 DEF Kin!WaitCommand, Kin!Step, Kin!At
  <2>2. v3[1] = "zombie" /\ v3' = [v3 EXCEPT ![1] = "reaped"] /\ v2' = [v2 EXCEPT !.pc = "restore", !.status = v2.got]
    BY <1>11, <2>1 DEF Kin!WaitCommand, Kin!Step, Kin!Reap, Kin!Cmd
  <2>3. v3' \in [KinKids -> Kin!States] /\ v3'[1] = "reaped" /\ v3'[2] = v3[2]
    BY <2>2, KinCmd DEF Kin!States
  <2>4. v2' \in Pars /\ v2'.pc = "restore" /\ v2'.status = v2.got /\ v2'.got = v2.got
    <3> DEFINE g == v2.got
               Ss == Kin!Got \cup Kin!Errors \cup {"unset", "nofork", "error"}
    <3>1. g \in Ss /\ v2' = [v2 EXCEPT !.pc = "restore", !.status = g] /\ "restore" \in Kin!Labels
      BY <1>2, <2>2 DEF Kin!Labels
    <3> HIDE DEF g, Ss
    <3>2. v2' \in [pc : Kin!Labels, n : Int, got : Kin!Got, status : Ss, told : BOOLEAN, kid : {"default", "ignore"}]
          /\ v2'.pc = "restore" /\ v2'.status = g /\ v2'.got = v2.got
      <4>1. v2 \in [pc : Kin!Labels, n : Int, got : Kin!Got, status : Ss, told : BOOLEAN, kid : {"default", "ignore"}]
        BY <1>2 DEF Ss
      <4> QED
        BY <3>1, <4>1
    <3> QED
      BY <3>2 DEF g, Ss
  <2> HIDE DEF Pars, Sigs
  <2> QED
    BY <1>2, <1>3, <1>4, <2>1, <2>2, <2>3, <2>4
<1>12. CASE Kin!Restore
  <2>1. CASE v2.pc = "restore" /\ v2' = [v2 EXCEPT !.pc = "dispositions"] /\ v4' = [v4 EXCEPT !.blocked = FALSE] /\ v3' = v3
    <3>1. v2' \in Pars /\ v2'.pc = "dispositions" /\ v2'.status = v2.status /\ v2'.got = v2.got
      BY <1>2, <2>1 DEF Kin!Labels
    <3>2. v4' \in Sigs /\ v4'.pending = v4.pending /\ v4'.blocked = FALSE /\ v4'.int = v4.int
      BY <1>2, <2>1
    <3> HIDE DEF Pars, Sigs
    <3> QED
      BY <1>2, <1>3, <1>4, <2>1, <3>1, <3>2
  <2>2. CASE v2.pc = "dispositions" /\ v2' = [v2 EXCEPT !.pc = "returned"] /\ v4' = [v4 EXCEPT !.int = v5.int] /\ v3' = v3
    <3>1. v2' \in Pars /\ v2'.pc = "returned" /\ v2'.status = v2.status /\ v2'.got = v2.got
      BY <1>2, <2>2 DEF Kin!Labels
    <3>2. v4' \in Sigs /\ v4'.pending = v4.pending /\ v4'.blocked = v4.blocked /\ v4'.int = v5.int
      BY <1>2, <2>2
    <3> HIDE DEF Pars, Sigs
    <3> QED
      BY <1>2, <1>3, <1>4, <2>2, <3>1, <3>2
  <2> QED
    BY <1>12, <2>1, <2>2 DEF Kin!Restore, Kin!Step, Kin!At, Kin!Go
<1>13. CASE Kin!Interrupt
  <2> DEFINE hit == v3[1] = "run" /\ v2.kid = "default"
             l == IF v4.int = "default" THEN "killed" ELSE v2.pc
             g == IF hit THEN "signalled" ELSE v2.got
             p == v4.pending \/ hit
             n == v4.sent + 1
  <2>1. v2.pc # "killed" /\ v3' = (IF hit THEN [v3 EXCEPT ![1] = "zombie"] ELSE v3)
        /\ v4' = [v4 EXCEPT !.sent = n, !.pending = p] /\ v2' = [v2 EXCEPT !.pc = l, !.got = g]
    BY <1>13 DEF Kin!Interrupt, Kin!Step, Kin!Cmd
  <2>2. n \in Nat /\ p \in BOOLEAN /\ g \in Kin!Got /\ l \in Kin!Labels /\ (hit \/ ~hit)
    <3>1. v4.sent \in Nat /\ v4.pending \in BOOLEAN /\ v2.got \in Kin!Got /\ v2.pc \in Kin!Labels
      BY <1>2
    <3>2. "killed" \in Kin!Labels /\ "signalled" \in Kin!Got
      BY DEF Kin!Got, Kin!Labels
    <3> HIDE DEF hit
    <3> QED
      BY <3>1, <3>2
  <2>3. v3' \in [KinKids -> Kin!States] /\ v3'[1] = (IF hit THEN "zombie" ELSE v3[1]) /\ v3'[2] = v3[2]
    <3>1. CASE hit
      BY <2>1, <3>1, KinCmd DEF Kin!States
    <3>2. CASE ~hit
      BY <1>2, <2>1, <3>2
    <3> QED
      BY <3>1, <3>2
  <2> HIDE DEF n, p, g, l
  <2>4. v4' \in Sigs /\ v4'.pending = p /\ v4'.blocked = v4.blocked /\ v4'.int = v4.int
    BY <1>2, <2>1, <2>2
  <2>5. v2' \in Pars /\ v2'.pc = l /\ v2'.status = v2.status /\ v2'.got = g
    BY <1>2, <2>1, <2>2
  <2> HIDE DEF Pars, Sigs
  <2>6. hit => v2.pc = "waitpid" \/ v2.pc = "killed"
    BY <1>3
  <2>7. CASE v4.int = "default"
    <3>1. ~hit /\ l = "killed"
      BY <1>3, <2>1, <2>6, <2>7 DEF l
    <3>2. v2.status # "unset" \/ v3[1] = "none"
      BY <1>3, <2>1, <2>7
    <3> QED
      BY <1>3, <1>4, <2>3, <2>4, <2>5, <3>1, <3>2 DEF p
  <2>8. CASE v4.int # "default"
    <3>1. l = v2.pc
      BY <2>8 DEF l
    <3>2. CASE hit
      <4>1. v2.pc = "waitpid" /\ g = "signalled" /\ v3'[1] = "zombie"
        BY <2>1, <2>3, <2>6, <3>2 DEF g
      <4>2. v3'[2] = "zombie" => v4'.pending
        BY <1>3, <2>3, <2>4 DEF p
      <4> QED
        BY <1>3, <1>4, <2>3, <2>4, <2>5, <3>1, <4>1, <4>2
    <3>3. CASE ~hit
      <4>1. g = v2.got /\ v3'[1] = v3[1]
        BY <2>3, <3>3 DEF g
      <4>2. v3'[2] = "zombie" => v4'.pending
        BY <1>3, <2>3, <2>4 DEF p
      <4> QED
        BY <1>3, <1>4, <2>3, <2>4, <2>5, <3>1, <4>1, <4>2
    <3> QED
      BY <3>2, <3>3
  <2> QED
    BY <2>7, <2>8
<1> QED
  BY <1>1, <1>5, <1>6, <1>7, <1>8, <1>9, <1>10, <1>11, <1>12, <1>13

-----------------------------------------------------------------------------
(* Children: execlp() and the programs with one child.                     *)

LEMMA KinExeclp ==
  ASSUME Kin!TypeOK, v1 = "execlp", Kin!ExeclpInv, Kin!Next
  PROVE  Kin!TypeOK' /\ v1' = v1 /\ Kin!ExeclpInv'
<1> DEFINE Pars == [pc : Kin!Labels, n : Int, got : Kin!Got, status : Kin!Got \cup Kin!Errors \cup {"unset", "nofork", "error"},
                    told : BOOLEAN, kid : {"default", "ignore"}]
           Sigs == [blocked : BOOLEAN, pending : BOOLEAN, int : {"default", "ignore"}, sent : Nat]
<1>1. /\ v1' = v1 /\ v5' = v5
      /\ \/ \E c \in KinKids : Kin!ChildExits(c)
         \/ Kin!TryPrefix \/ Kin!ReturnErrno
  BY DEF Kin!Next, Kin!multi_SIGCHLD, Kin!multi_wait, Kin!child_status, Kin!fork_sig_sync, Kin!orphan, Kin!simple_system, Kin!system,
     Kin!execlp, Kin!ChildExits, Kin!BlockSigchld, Kin!ForkNext, Kin!Suspend, Kin!Deliver, Kin!sigchldHandler, Kin!HandlerReturns,
     Kin!Wait, Kin!ForkOne, Kin!StopOrContinue, Kin!WaitStatus, Kin!SignalParent, Kin!AwaitSignal, Kin!ParentExits, Kin!SeesOrphaned,
     Kin!BeginSystem, Kin!IgnoreInterrupts, Kin!ForkCommand, Kin!ChildDispositions, Kin!CallersHandler, Kin!WaitCommand, Kin!Restore,
     Kin!Interrupt, Kin!TryPrefix, Kin!ReturnErrno, Kin!Step, Kin!System, Kin!Multi
<1>2. v2 \in Pars /\ v3 \in [KinKids -> Kin!States] /\ v4 \in Sigs
      /\ v5 \in [int : {"default", "ignore"}, shell : BOOLEAN, exec : [1..KinPrefixes -> Kin!Errors]]
      /\ KinPrefixes \in Nat /\ KinPrefixes > 0
  <2>1. KinPrefixes \in Nat /\ KinPrefixes > 0
    BY KinBounds
  <2> QED
    BY <2>1 DEF Kin!TypeOK
<1>3. /\ v2.pc \in {"start", "failed", "returned", "exec"}
      /\ v2.n \in 0..KinPrefixes
      /\ v2.pc = "start" => v2.n < KinPrefixes
      /\ v2.pc \in {"failed", "returned"} => v2.n = KinPrefixes
      /\ \A i \in 1..v2.n : v5.exec[i] # "ok" /\ (v5.exec[i] = "ENOEXEC" => ~v5.shell)
      /\ v2.told <=> \E i \in 1..v2.n : v5.exec[i] = "EACCES"
      /\ v2.pc \in {"start", "failed"} /\ v2.n > 0 => v2.status = v5.exec[v2.n]
      /\ v2.pc = "returned" => v2.status = IF v2.told THEN "EACCES" ELSE v5.exec[KinPrefixes]
  BY DEF Kin!ExeclpInv, Kin!At
<1>4. CASE \E c \in KinKids : Kin!ChildExits(c)
  <2>1. PICK c \in KinKids : Kin!ChildExits(c)
    BY <1>4
  <2>2. v3' = [v3 EXCEPT ![c] = "zombie"] /\ v4' = [v4 EXCEPT !.pending = TRUE] /\ v2' = v2
    BY <1>2, <2>1 DEF Kin!ChildExits, Kin!Step
  <2>3. v3' \in [KinKids -> Kin!States] /\ v4' \in Sigs
    BY <1>2, <2>2 DEF Kin!States
  <2>4. Kin!TypeOK'
    BY <1>1, <1>2, <2>2, <2>3 DEF Kin!TypeOK
  <2> QED
    BY <1>1, <2>2, <2>4 DEF Kin!ExeclpInv, Kin!At
<1>5. CASE Kin!TryPrefix
  <2> DEFINE n == v2.n + 1
             r == v5.exec[n]
             told == v2.told \/ r = "EACCES"
             l == IF n = KinPrefixes THEN "failed" ELSE "start"
             runs == r = "ok" \/ (r = "ENOEXEC" /\ v5.shell)
  <2>1. v2.pc = "start" /\ v3' = v3 /\ v4' = v4
        /\ v2' = IF runs THEN [v2 EXCEPT !.pc = "exec"] ELSE [v2 EXCEPT !.n = n, !.status = r, !.told = told, !.pc = l]
    BY <1>5 DEF Kin!TryPrefix, Kin!Step, Kin!At, Kin!execShScript
  <2>2. n \in 1..KinPrefixes /\ v2.n \in Nat /\ n \in Int
    <3>1. v2.n \in 0..KinPrefixes /\ v2.n < KinPrefixes /\ KinPrefixes \in Nat
      BY <1>2, <1>3, <2>1
    <3> QED
      BY <3>1
  <2>3. v5.exec \in [1..KinPrefixes -> Kin!Errors] /\ v5.shell \in BOOLEAN /\ v2.told \in BOOLEAN
    BY <1>2
  <2>4. r \in Kin!Errors
    BY <2>2, <2>3
  <2>5. CASE runs
    <3>1. v2' \in Pars /\ v2'.pc = "exec" /\ v2'.n = v2.n /\ v2'.told = v2.told
      BY <1>2, <2>1, <2>5 DEF Kin!Labels
    <3>2. Kin!TypeOK'
      BY <1>1, <1>2, <2>1, <3>1 DEF Kin!TypeOK
    <3> QED
      BY <1>1, <1>3, <3>1, <3>2 DEF Kin!ExeclpInv, Kin!At
  <2>6. CASE ~runs
    <3>1. told \in BOOLEAN /\ l \in Kin!Labels /\ r \in Kin!Got \cup Kin!Errors \cup {"unset", "nofork", "error"}
      BY <2>3, <2>4 DEF Kin!Labels
    <3>2. v2' = [v2 EXCEPT !.n = n, !.status = r, !.told = told, !.pc = l]
      BY <2>1, <2>6
    <3>3. 1..n = (1..v2.n) \cup {n}
      BY <2>2
    <3>4. r # "ok" /\ (r = "ENOEXEC" => ~v5.shell)
      BY <2>6
    <3>5. \A i \in 1..n : v5.exec[i] # "ok" /\ (v5.exec[i] = "ENOEXEC" => ~v5.shell)
      <4> SUFFICES ASSUME NEW i \in 1..n PROVE v5.exec[i] # "ok" /\ (v5.exec[i] = "ENOEXEC" => ~v5.shell)
        OBVIOUS
      <4>1. CASE i \in 1..v2.n
        BY <1>3, <4>1
      <4>2. CASE i = n
        BY <3>4, <4>2
      <4> QED
        BY <3>3, <4>1, <4>2
    <3>6. told <=> \E i \in 1..n : v5.exec[i] = "EACCES"
      <4>1. (\E i \in 1..n : v5.exec[i] = "EACCES") <=> (\E i \in 1..v2.n : v5.exec[i] = "EACCES") \/ r = "EACCES"
        BY <3>3
      <4> QED
        BY <1>3, <4>1
    <3>7. l = "failed" <=> n = KinPrefixes
      OBVIOUS
    <3>8. l \in {"start", "failed"} /\ r = v5.exec[n]
      OBVIOUS
    <3> HIDE DEF n, r, told, l, runs
    <3>9. v2' \in Pars /\ v2'.pc = l /\ v2'.n = n /\ v2'.told = told /\ v2'.status = r
      BY <1>2, <2>2, <3>1, <3>2
    <3>10. Kin!TypeOK'
      BY <1>1, <1>2, <2>1, <3>9 DEF Kin!TypeOK
    <3>11. n \in 0..KinPrefixes /\ (l = "start" => n < KinPrefixes) /\ (l = "failed" => n = KinPrefixes)
      <4>1. KinPrefixes \in Nat
        BY <1>2
      <4> QED
        BY <2>2, <3>7, <3>8, <4>1
    <3>12. l \notin {"returned", "exec"}
      BY <3>8
    <3> HIDE DEF Pars
    <3> QED
      BY <1>1, <3>5, <3>6, <3>8, <3>9, <3>10, <3>11, <3>12 DEF Kin!ExeclpInv, Kin!At
  <2> QED
    BY <2>5, <2>6
<1>6. CASE Kin!ReturnErrno
  <2> DEFINE s == IF v2.told THEN "EACCES" ELSE v2.status
  <2>1. v2.pc = "failed" /\ v3' = v3 /\ v4' = v4 /\ v2' = [v2 EXCEPT !.pc = "returned", !.status = s]
    BY <1>6 DEF Kin!ReturnErrno, Kin!Step, Kin!At
  <2>2. v2.status = v5.exec[KinPrefixes] /\ v2.n = KinPrefixes
    BY <1>2, <1>3, <2>1
  <2>3. s \in Kin!Got \cup Kin!Errors \cup {"unset", "nofork", "error"} /\ "returned" \in Kin!Labels
    BY <1>2 DEF Kin!Errors, Kin!Labels
  <2>4. s = IF v2.told THEN "EACCES" ELSE v5.exec[KinPrefixes]
    BY <2>2
  <2> HIDE DEF s
  <2>5. v2' \in Pars /\ v2'.pc = "returned" /\ v2'.n = v2.n /\ v2'.told = v2.told /\ v2'.status = s
    BY <1>2, <2>1, <2>3
  <2>6. Kin!TypeOK'
    BY <1>1, <1>2, <2>1, <2>5 DEF Kin!TypeOK
  <2> QED
    BY <1>1, <1>3, <2>2, <2>4, <2>5, <2>6 DEF Kin!ExeclpInv, Kin!At
<1> QED
  BY <1>1, <1>4, <1>5, <1>6

\* The programs with one child, and simple_system, of which nothing more is
\* claimed.
LEMMA KinOne ==
  ASSUME Kin!TypeOK, v1 \in {"status", "sync", "orphan", "simple"}, Kin!NobodyWaitsInVain, Kin!Next
  PROVE  Kin!TypeOK' /\ v1' = v1 /\ Kin!NobodyWaitsInVain'
<1> DEFINE Pars == [pc : Kin!Labels, n : Int, got : Kin!Got, status : Kin!Got \cup Kin!Errors \cup {"unset", "nofork", "error"},
                    told : BOOLEAN, kid : {"default", "ignore"}]
           Sigs == [blocked : BOOLEAN, pending : BOOLEAN, int : {"default", "ignore"}, sent : Nat]
           One(t, p, c, m) ==
             /\ t = "status" /\ p = "exit" => c = "reaped"
             /\ t = "sync" /\ p = "exit" => m = TRUE
             /\ t = "orphan" /\ c = "reaped" => p = "exit"
<1>1. /\ v1' = v1 /\ v5' = v5
      /\ \/ \E c \in KinKids : Kin!ChildExits(c)
         \/ Kin!ForkOne \/ Kin!StopOrContinue \/ Kin!WaitStatus \/ Kin!SignalParent \/ Kin!AwaitSignal \/ Kin!ParentExits
         \/ Kin!SeesOrphaned \/ Kin!ForkCommand \/ Kin!CallersHandler \/ Kin!WaitCommand \/ Kin!Interrupt
  BY DEF Kin!Next, Kin!multi_SIGCHLD, Kin!multi_wait, Kin!child_status, Kin!fork_sig_sync, Kin!orphan, Kin!simple_system, Kin!system,
     Kin!execlp, Kin!ChildExits, Kin!BlockSigchld, Kin!ForkNext, Kin!Suspend, Kin!Deliver, Kin!sigchldHandler, Kin!HandlerReturns,
     Kin!Wait, Kin!ForkOne, Kin!StopOrContinue, Kin!WaitStatus, Kin!SignalParent, Kin!AwaitSignal, Kin!ParentExits, Kin!SeesOrphaned,
     Kin!BeginSystem, Kin!IgnoreInterrupts, Kin!ForkCommand, Kin!ChildDispositions, Kin!CallersHandler, Kin!WaitCommand, Kin!Restore,
     Kin!Interrupt, Kin!TryPrefix, Kin!ReturnErrno, Kin!Step, Kin!System, Kin!Multi
<1>2. v2 \in Pars /\ v3 \in [KinKids -> Kin!States] /\ v4 \in Sigs
      /\ v5 \in [int : {"default", "ignore"}, shell : BOOLEAN, exec : [1..KinPrefixes -> Kin!Errors]]
  BY DEF Kin!TypeOK
<1>3. One(v1, v2.pc, v3[1], v2.told)
  BY <1>2 DEF Kin!NobodyWaitsInVain, Kin!At
<1>4. ASSUME v2' \in Pars, v3' \in [KinKids -> Kin!States], v4' \in Sigs, One(v1, v2'.pc, v3'[1], v2'.told)
      PROVE  Kin!TypeOK' /\ v1' = v1 /\ Kin!NobodyWaitsInVain'
  <2>1. Kin!TypeOK'
    BY <1>1, <1>2, <1>4 DEF Kin!TypeOK
  <2> QED
    BY <1>1, <1>4, <2>1 DEF Kin!NobodyWaitsInVain, Kin!At, Kin!Multi
<1>5. ASSUME NEW c \in KinKids, Kin!ChildExits(c) PROVE Kin!TypeOK' /\ v1' = v1 /\ Kin!NobodyWaitsInVain'
  <2>1. v1 # "orphan" /\ v3[c] = "run" /\ v3' = [v3 EXCEPT ![c] = "zombie"] /\ v4' = [v4 EXCEPT !.pending = TRUE]
        /\ (v2' = v2 \/ v2' = [v2 EXCEPT !.got = "exited"])
    BY <1>5 DEF Kin!ChildExits, Kin!Step
  <2>2. v3' \in [KinKids -> Kin!States] /\ v4' \in Sigs
    BY <1>2, <2>1 DEF Kin!States
  <2>3. v2' \in Pars /\ v2'.pc = v2.pc /\ v2'.told = v2.told
    BY <1>2, <2>1 DEF Kin!Got
  <2>4. v3[1] = "reaped" => v3'[1] = "reaped"
    <3> DEFINE d == 1
    <3>1. d \in KinKids
      BY KinBounds
    <3> HIDE DEF d
    <3>2. v3[d] = "reaped" => v3'[d] = "reaped"
      BY <1>2, <2>1, <3>1
    <3> QED
      BY <3>2 DEF d
  <2> HIDE DEF Pars, Sigs
  <2> QED
    BY <1>3, <1>4, <2>1, <2>2, <2>3, <2>4
<1>6. CASE Kin!ForkOne
  <2>1. v2' = [v2 EXCEPT !.pc = "forked"] /\ v3' = [v3 EXCEPT ![1] = "run"] /\ v4' = v4
    BY <1>6 DEF Kin!ForkOne, Kin!Step, Kin!Go
  <2>2. v3' \in [KinKids -> Kin!States] /\ v3'[1] = "run"
    BY <2>1, KinCmd DEF Kin!States
  <2>3. v2' \in Pars /\ v2'.pc = "forked"
    BY <1>2, <2>1 DEF Kin!Labels
  <2> HIDE DEF Pars, Sigs
  <2> QED
    BY <1>2, <1>4, <2>1, <2>2, <2>3
<1>7. CASE Kin!StopOrContinue
  <2> DEFINE s == IF v3[1] = "run" THEN "stopped" ELSE "run"
             n == v4.sent + 1
             g == v3[1]
  <2>1. v1 = "status" /\ g \in {"run", "stopped"} /\ v2' = [v2 EXCEPT !.got = g] /\ v3' = [v3 EXCEPT ![1] = s]
        /\ v4' = [v4 EXCEPT !.sent = n]
    BY <1>7 DEF Kin!StopOrContinue, Kin!Step
  <2>2. v3' \in [KinKids -> Kin!States]
    <3>1. s \in Kin!States
      BY DEF Kin!States
    <3> HIDE DEF s
    <3> QED
      BY <2>1, <3>1, KinCmd
  <2>3. n \in Nat /\ g \in Kin!Got
    <3>1. v4.sent \in Nat
      BY <1>2
    <3> QED
      BY <2>1, <3>1 DEF Kin!Got
  <2>4. v2.pc # "exit"
    BY <1>3, <2>1
  <2> HIDE DEF n, s, g
  <2>5. v4' \in Sigs
    BY <1>2, <2>1, <2>3
  <2>6. v2' \in Pars /\ v2'.pc = v2.pc
    BY <1>2, <2>1, <2>3
  <2> HIDE DEF Pars, Sigs
  <2> QED
    BY <1>4, <2>1, <2>2, <2>4, <2>5, <2>6
<1>8. CASE Kin!WaitStatus
  <2>1. CASE v3' = v3 /\ v4' = v4 /\ v2' = [v2 EXCEPT !.got = "none"]
    <3>1. v2' \in Pars /\ v2'.pc = v2.pc /\ v2'.told = v2.told
      BY <1>2, <2>1 DEF Kin!Got
    <3> HIDE DEF Pars, Sigs
    <3> QED
      BY <1>2, <1>3, <1>4, <2>1, <3>1
  <2>2. CASE v1 = "status" /\ v3' = [v3 EXCEPT ![1] = "reaped"] /\ v4' = v4 /\ v2' = [v2 EXCEPT !.pc = "exit"]
    <3>1. v3' \in [KinKids -> Kin!States] /\ v3'[1] = "reaped"
      BY <2>2, KinCmd DEF Kin!States
    <3>2. v2' \in Pars
      BY <1>2, <2>2 DEF Kin!Labels
    <3> HIDE DEF Pars, Sigs
    <3> QED
      BY <1>2, <1>4, <2>2, <3>1, <3>2
  <2> QED
    BY <1>8, <2>1, <2>2 DEF Kin!WaitStatus, Kin!Step, Kin!Reap, Kin!Go
<1>9. CASE Kin!SignalParent
  <2>1. v1 = "sync" /\ v2' = [v2 EXCEPT !.told = TRUE] /\ v3' = v3 /\ v4' = v4
    BY <1>9 DEF Kin!SignalParent, Kin!Step
  <2>2. v2' \in Pars /\ v2'.told = TRUE
    BY <1>2, <2>1
  <2> HIDE DEF Pars, Sigs
  <2> QED
    BY <1>2, <1>4, <2>1, <2>2
<1>10. CASE Kin!AwaitSignal \/ Kin!ParentExits
  <2>1. v2' = [v2 EXCEPT !.pc = "exit"] /\ v3' = v3 /\ v4' = v4 /\ ((v1 = "sync" /\ v2.told = TRUE) \/ v1 = "orphan")
    BY <1>2, <1>10 DEF Kin!AwaitSignal, Kin!ParentExits, Kin!Step, Kin!Go
  <2>2. v2' \in Pars /\ v2'.told = v2.told /\ v2'.pc = "exit"
    BY <1>2, <2>1 DEF Kin!Labels
  <2> HIDE DEF Pars, Sigs
  <2> QED
    BY <1>2, <1>4, <2>1, <2>2
<1>11. CASE Kin!SeesOrphaned
  <2>1. v1 = "orphan" /\ v2.pc = "exit" /\ v3' = [v3 EXCEPT ![1] = "reaped"] /\ v2' = v2 /\ v4' = v4
    BY <1>11 DEF Kin!SeesOrphaned, Kin!Step, Kin!At
  <2>2. v3' \in [KinKids -> Kin!States]
    BY <2>1, KinCmd DEF Kin!States
  <2> HIDE DEF Pars, Sigs
  <2> QED
    BY <1>2, <1>4, <2>1, <2>2
\* simple_system: only types.
<1>12. CASE Kin!ForkCommand
  <2>1. v1 = "simple" /\ v4' = v4
    BY <1>12 DEF Kin!ForkCommand, Kin!Step
  <2> DEFINE i == v4.int
  <2>2. i \in {"default", "ignore"}
    BY <1>2
  <2>3. \/ v3' = [v3 EXCEPT ![1] = "run"] /\ v2' = [v2 EXCEPT !.pc = "waitpid", !.got = "none", !.kid = i]
        \/ v3' = v3 /\ v2' = [v2 EXCEPT !.pc = "returned", !.status = "nofork"]
    BY <1>12, <2>1 DEF Kin!ForkCommand, Kin!Step, Kin!Cmd
  <2> HIDE DEF i
  <2>4. v2' \in Pars
    <3>1. "waitpid" \in Kin!Labels /\ "returned" \in Kin!Labels /\ "none" \in Kin!Got
      BY DEF Kin!Labels, Kin!Got
    <3>2. CASE v2' = [v2 EXCEPT !.pc = "waitpid", !.got = "none", !.kid = i]
      BY <1>2, <2>2, <3>1, <3>2
    <3>3. CASE v2' = [v2 EXCEPT !.pc = "returned", !.status = "nofork"]
      BY <1>2, <3>1, <3>3
    <3> QED
      BY <2>3, <3>2, <3>3
  <2>5. v3' \in [KinKids -> Kin!States]
    BY <1>2, <2>3, KinCmd DEF Kin!States
  <2> HIDE DEF Pars, Sigs
  <2> QED
    BY <1>2, <1>4, <2>1, <2>4, <2>5
<1>13. CASE Kin!CallersHandler
  <2>1. v1 = "simple" /\ v2' = v2 /\ v4' = [v4 EXCEPT !.pending = FALSE]
        /\ v3' = [c \in KinKids |-> IF v3[c] = "zombie" THEN "reaped" ELSE v3[c]]
    BY <1>2, <1>13 DEF Kin!CallersHandler, Kin!Step, Kin!System
  <2>2. v3' \in [KinKids -> Kin!States]
    BY <1>2, <2>1 DEF Kin!States
  <2>3. v4' \in Sigs
    BY <1>2, <2>1
  <2> HIDE DEF Pars, Sigs
  <2> QED
    BY <1>2, <1>4, <2>1, <2>2, <2>3
<1>14. CASE Kin!WaitCommand
  <2> DEFINE g == v2.got
             Ss == Kin!Got \cup Kin!Errors \cup {"unset", "nofork", "error"}
  <2>1. v1 = "simple" /\ v4' = v4 /\ (v3' = v3 \/ v3' = [v3 EXCEPT ![1] = "reaped"])
        /\ (v2' = [v2 EXCEPT !.pc = "returned", !.status = g] \/ v2' = [v2 EXCEPT !.pc = "returned", !.status = "error"])
    BY <1>14 DEF Kin!WaitCommand, Kin!Step, Kin!System, Kin!Reap, Kin!Cmd
  <2>2. g \in Ss /\ "error" \in Ss /\ "returned" \in Kin!Labels
    BY <1>2 DEF Kin!Labels
  <2>3. v3' \in [KinKids -> Kin!States]
    BY <1>2, <2>1, KinCmd DEF Kin!States
  <2>4. v2' \in Pars
    <3> HIDE DEF g, Ss
    <3>1. v2 \in [pc : Kin!Labels, n : Int, got : Kin!Got, status : Ss, told : BOOLEAN, kid : {"default", "ignore"}]
      BY <1>2 DEF Ss
    <3>2. v2' \in [pc : Kin!Labels, n : Int, got : Kin!Got, status : Ss, told : BOOLEAN, kid : {"default", "ignore"}]
      BY <2>1, <2>2, <3>1
    <3> QED
      BY <3>2 DEF Ss
  <2> HIDE DEF Pars, Sigs
  <2> QED
    BY <1>2, <1>4, <2>1, <2>3, <2>4
<1>15. CASE Kin!Interrupt
  <2> DEFINE hit == v3[1] = "run" /\ v2.kid = "default"
             l == IF v4.int = "default" THEN "killed" ELSE v2.pc
             g == IF hit THEN "signalled" ELSE v2.got
             p == v4.pending \/ hit
             n == v4.sent + 1
  <2>1. v1 = "simple" /\ (v3' = [v3 EXCEPT ![1] = "zombie"] \/ v3' = v3)
        /\ v4' = [v4 EXCEPT !.sent = n, !.pending = p] /\ v2' = [v2 EXCEPT !.pc = l, !.got = g]
    BY <1>15 DEF Kin!Interrupt, Kin!Step, Kin!Cmd, Kin!System
  <2>2. n \in Nat /\ p \in BOOLEAN /\ g \in Kin!Got /\ l \in Kin!Labels
    <3>1. v4.sent \in Nat /\ v4.pending \in BOOLEAN /\ v2.got \in Kin!Got /\ v2.pc \in Kin!Labels
      BY <1>2
    <3>2. "killed" \in Kin!Labels /\ "signalled" \in Kin!Got
      BY DEF Kin!Got, Kin!Labels
    <3> HIDE DEF hit
    <3> QED
      BY <3>1, <3>2
  <2>3. v3' \in [KinKids -> Kin!States]
    BY <1>2, <2>1, KinCmd DEF Kin!States
  <2> HIDE DEF n, p, g, l
  <2>4. v4' \in Sigs
    BY <1>2, <2>1, <2>2
  <2>5. v2' \in Pars
    BY <1>2, <2>1, <2>2
  <2> HIDE DEF Pars, Sigs
  <2> QED
    BY <1>4, <2>1, <2>3, <2>4, <2>5
<1> QED
  BY <1>1, <1>5, <1>6, <1>7, <1>8, <1>9, <1>10, <1>11, <1>12, <1>13, <1>14, <1>15

-----------------------------------------------------------------------------
(* Children: the invariant.                                                *)

LEMMA KinInit == Kin!Init => Kin!IInv
<1> SUFFICES ASSUME Kin!Init PROVE Kin!IInv
  OBVIOUS
<1>1. /\ v1 \in {"sigchld", "wait", "status", "sync", "orphan", "system", "simple", "execlp"}
      /\ v5 \in [int : {"default", "ignore"}, shell : BOOLEAN, exec : [1..KinPrefixes -> Kin!Errors]]
      /\ v2 = [pc |-> "start", n |-> 0, got |-> "none", status |-> "unset", told |-> FALSE, kid |-> "default"]
      /\ v4 = [blocked |-> FALSE, pending |-> FALSE, int |-> v5.int, sent |-> 0]
      /\ v3 = [c \in KinKids |-> IF v1 \in {"system", "simple"} /\ c = 2 THEN "run" ELSE "none"]
      /\ 1 \in KinKids /\ 2 \in KinKids /\ KinPrefixes \in Nat /\ KinPrefixes > 0
  <2>1. 1 \in KinKids /\ 2 \in KinKids /\ KinPrefixes \in Nat /\ KinPrefixes > 0
    BY KinBounds
  <2> QED
    BY <2>1 DEF Kin!Init, Kin!Errors, Kin!Mine
<1>2. v2 \in [pc : Kin!Labels, n : Int, got : Kin!Got, status : Kin!Got \cup Kin!Errors \cup {"unset", "nofork", "error"},
              told : BOOLEAN, kid : {"default", "ignore"}]
      /\ v2.pc = "start" /\ v2.n = 0 /\ v2.told = FALSE
  <2>1. "start" \in Kin!Labels /\ "none" \in Kin!Got /\ "unset" \in Kin!Got \cup Kin!Errors \cup {"unset", "nofork", "error"}
    BY DEF Kin!Labels, Kin!Got
  <2>2. v2 = [pc |-> "start", n |-> 0, got |-> "none", status |-> "unset", told |-> FALSE, kid |-> "default"]
    BY <1>1
  <2> DEFINE Ss == Kin!Got \cup Kin!Errors \cup {"unset", "nofork", "error"}
  <2>3. "unset" \in Ss
    OBVIOUS
  <2> HIDE DEF Ss
  <2>4. v2 \in [pc : Kin!Labels, n : Int, got : Kin!Got, status : Ss, told : BOOLEAN, kid : {"default", "ignore"}]
    BY <2>1, <2>2, <2>3
  <2>5. v2.pc = "start" /\ v2.n = 0 /\ v2.told = FALSE
    BY <2>2
  <2> QED
    BY <2>4, <2>5 DEF Ss
<1>3. v4 \in [blocked : BOOLEAN, pending : BOOLEAN, int : {"default", "ignore"}, sent : Nat]
      /\ v4.blocked = FALSE /\ v4.int = v5.int
  BY <1>1
<1>4. v3 \in [KinKids -> Kin!States] /\ v3[1] = "none" /\ v3[2] # "zombie"
      /\ (v1 \notin {"system", "simple"} => \A c \in KinKids : v3[c] = "none")
  <2> DEFINE a == 1
             b == 2
  <2>1. a \in KinKids /\ b \in KinKids /\ a # 2
    BY KinBounds
  <2>2. v3 = [c \in KinKids |-> IF v1 \in {"system", "simple"} /\ c = 2 THEN "run" ELSE "none"]
    BY DEF Kin!Init, Kin!Mine
  <2> HIDE DEF a, b
  <2>3. v3[a] = "none" /\ v3[b] # "zombie" /\ (v1 \notin {"system", "simple"} => \A c \in KinKids : v3[c] = "none")
    BY <2>1, <2>2
  <2>4. v3 \in [KinKids -> Kin!States]
    BY <2>2 DEF Kin!States
  <2> QED
    BY <2>3, <2>4 DEF a, b
<1>5. Kin!TypeOK
  BY <1>1, <1>2, <1>3, <1>4 DEF Kin!TypeOK
<1>6. Kin!Multi => Kin!MultiInv
  <2>1. DOMAIN v3 = KinKids
    BY <1>4
  <2> QED
    BY <1>2, <1>4, <2>1 DEF Kin!Multi, Kin!MultiInv, Kin!At, Kin!Zombies
<1>7. v1 = "system" => Kin!SystemInv
  BY <1>2, <1>3, <1>4 DEF Kin!SystemInv, Kin!At, Kin!Cmd, Kin!Mine
<1>8. v1 = "execlp" => Kin!ExeclpInv
  <2>1. v2.n = 0 /\ v2.pc = "start" /\ v2.told = FALSE /\ KinPrefixes \in Nat /\ KinPrefixes > 0
    BY <1>1, <1>2
  <2>2. \A i \in 1..v2.n : FALSE
    BY <2>1
  <2> QED
    BY <2>1, <2>2 DEF Kin!ExeclpInv, Kin!At
<1>9. v1 \in {"status", "sync", "orphan"} => Kin!NobodyWaitsInVain
  BY <1>2, <1>4 DEF Kin!NobodyWaitsInVain, Kin!At, Kin!Multi
<1> QED
  BY <1>5, <1>6, <1>7, <1>8, <1>9 DEF Kin!IInv

LEMMA KinNext == Kin!IInv /\ [Kin!Next]_(Kin!vars) => Kin!IInv'
<1> SUFFICES ASSUME Kin!IInv, [Kin!Next]_(Kin!vars) PROVE Kin!IInv'
  OBVIOUS
<1>1. CASE UNCHANGED Kin!vars
  <2>1. v1' = v1 /\ v2' = v2 /\ v3' = v3 /\ v4' = v4 /\ v5' = v5
    BY <1>1 DEF Kin!vars
  <2>2. Kin!TypeOK'
    BY <2>1 DEF Kin!IInv, Kin!TypeOK
  <2>3. (Kin!Multi => Kin!MultiInv)'
    BY <2>1 DEF Kin!IInv, Kin!Multi, Kin!MultiInv, Kin!At, Kin!Zombies
  <2>4. (v1 = "system" => Kin!SystemInv)'
    BY <2>1 DEF Kin!IInv, Kin!SystemInv, Kin!At, Kin!Cmd, Kin!Mine
  <2>5. (v1 = "execlp" => Kin!ExeclpInv)'
    BY <2>1 DEF Kin!IInv, Kin!ExeclpInv, Kin!At
  <2>6. (v1 \in {"status", "sync", "orphan"} => Kin!NobodyWaitsInVain)'
    BY <2>1 DEF Kin!IInv, Kin!NobodyWaitsInVain, Kin!Multi, Kin!At
  <2> QED
    BY <2>2, <2>3, <2>4, <2>5, <2>6 DEF Kin!IInv
<1>2. CASE Kin!Next
  <2>1. v1 \in {"sigchld", "wait", "status", "sync", "orphan", "system", "simple", "execlp"} /\ Kin!TypeOK
    BY DEF Kin!IInv, Kin!TypeOK
  <2>2. CASE v1 \in {"sigchld", "wait"}
    <3>1. Kin!MultiInv
      BY <2>2 DEF Kin!IInv, Kin!Multi
    <3>2. Kin!TypeOK' /\ v1' = v1 /\ Kin!MultiInv'
      BY <1>2, <2>1, <2>2, <3>1, KinMulti
    <3> QED
      BY <2>2, <3>2 DEF Kin!IInv
  <2>3. CASE v1 = "system"
    <3>1. Kin!TypeOK' /\ v1' = v1 /\ Kin!SystemInv'
      BY <1>2, <2>1, <2>3, KinSystem DEF Kin!IInv
    <3> QED
      BY <2>3, <3>1 DEF Kin!IInv, Kin!Multi
  <2>4. CASE v1 = "execlp"
    <3>1. Kin!TypeOK' /\ v1' = v1 /\ Kin!ExeclpInv'
      BY <1>2, <2>1, <2>4, KinExeclp DEF Kin!IInv
    <3> QED
      BY <2>4, <3>1 DEF Kin!IInv, Kin!Multi
  <2>5. CASE v1 \in {"status", "sync", "orphan", "simple"}
    <3>1. Kin!NobodyWaitsInVain
      BY <2>5 DEF Kin!IInv, Kin!NobodyWaitsInVain, Kin!Multi
    <3>2. Kin!TypeOK' /\ v1' = v1 /\ Kin!NobodyWaitsInVain'
      BY <1>2, <2>1, <2>5, <3>1, KinOne
    <3> QED
      BY <2>5, <3>2 DEF Kin!IInv, Kin!Multi
  <2> QED
    BY <2>1, <2>2, <2>3, <2>4, <2>5
<1> QED
  BY <1>1, <1>2

LEMMA KinSafe == Kin!IInv => Kin!NobodyWaitsInVain /\ Kin!CallersKept
<1> SUFFICES ASSUME Kin!IInv PROVE Kin!NobodyWaitsInVain /\ Kin!CallersKept
  OBVIOUS
<1>1. v1 \in {"sigchld", "wait", "status", "sync", "orphan", "system", "simple", "execlp"} /\ Kin!TypeOK
  BY DEF Kin!IInv, Kin!TypeOK
<1>2. CASE v1 \in {"sigchld", "wait"}
  <2> DEFINE left == {c \in KinKids : v3[c] # "reaped"}
  <2>1. /\ v2.pc # "start" => v2.n = Cardinality(left)
        /\ v2.pc \notin {"start", "fork"} => \A c \in KinKids : v3[c] # "none"
        /\ v1 = "sigchld" /\ v2.pc # "handler" /\ Kin!Zombies # {} => v4.pending
        /\ v2.pc = "suspended" => v2.n > 0
        /\ v2.pc = "exit" => \A c \in KinKids : v3[c] = "reaped"
    BY <1>2, KinCardinality DEF Kin!IInv, Kin!Multi, Kin!MultiInv, Kin!At
  <2>2. Cardinality(left) = 0 <=> left = {}
    BY <1>1, KinLeft
  <2>3. DOMAIN v3 = KinKids /\ \A c \in KinKids : v3[c] \in Kin!States
    BY <1>1 DEF Kin!TypeOK
  <2>4. v1 = "sigchld" /\ v2.pc = "suspended" => v4.pending \/ Kin!Running # {}
    <3> SUFFICES ASSUME v1 = "sigchld", v2.pc = "suspended" PROVE v4.pending \/ Kin!Running # {}
      OBVIOUS
    <3>1. left # {}
      BY <2>1, <2>2
    <3>2. PICK c \in KinKids : v3[c] # "reaped"
      BY <3>1
    <3>3. v3[c] \in {"run", "stopped", "zombie"}
      BY <2>1, <2>3, <3>2 DEF Kin!States
    <3>4. c \in Kin!Zombies \/ c \in Kin!Running
      BY <2>3, <3>3 DEF Kin!Zombies, Kin!Running
    <3> QED
      BY <2>1, <3>4
  <2>5. v2.pc = "exit" => v2.n = 0
    BY <2>1, <2>2
  <2>6. Kin!Cardinality(left) = Cardinality(left)
    BY KinCardinality
  <2>7. Kin!NobodyWaitsInVain
    BY <1>2, <2>1, <2>4, <2>5, <2>6 DEF Kin!NobodyWaitsInVain, Kin!At
  <2> QED
    BY <1>2, <2>7 DEF Kin!CallersKept
<1>3. CASE v1 = "system"
  <2>1. Kin!SystemInv
    BY <1>3 DEF Kin!IInv
  <2>2. Kin!CallersKept
    BY <1>3, <2>1 DEF Kin!SystemInv, Kin!CallersKept, Kin!At, Kin!Cmd, Kin!Mine
  <2> QED
    BY <1>3, <2>2 DEF Kin!NobodyWaitsInVain, Kin!Multi
<1>4. CASE v1 = "execlp"
  <2>1. Kin!ExeclpInv
    BY <1>4 DEF Kin!IInv
  <2>2. Kin!CallersKept
    BY <1>4, <2>1 DEF Kin!ExeclpInv, Kin!CallersKept, Kin!At
  <2> QED
    BY <1>4, <2>2 DEF Kin!NobodyWaitsInVain, Kin!Multi
<1>5. CASE v1 \in {"status", "sync", "orphan"}
  BY <1>5 DEF Kin!IInv, Kin!CallersKept
<1>6. CASE v1 = "simple"
  BY <1>6 DEF Kin!NobodyWaitsInVain, Kin!CallersKept, Kin!Multi
<1> QED
  BY <1>1, <1>2, <1>3, <1>4, <1>5, <1>6
=============================================================================
