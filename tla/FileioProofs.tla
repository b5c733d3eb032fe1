---------------------------- MODULE FileioProofs ----------------------------
(***************************************************************************)
(* Proofs about SharedFile, Descriptors and FileCopies.                    *)
(*                                                                         *)
(* Any number of the processes of SharedFile, writing any number of bytes: *)
(* no byte written through O_APPEND is lost to another such write, bytes   *)
(* stay in the order they were written, and only an lseek-then-write puts  *)
(* a byte over another, which somebody else wrote after the lseek.         *)
(*                                                                         *)
(* Descriptors: every size of the table, limit, target descriptor and      *)
(* inherited table.                                                        *)
(*                                                                         *)
(* FileCopies: every input, target, buffer size and capacity.              *)
(***************************************************************************)
EXTENDS SharedFile, Descriptors, FileCopies, FiniteSetTheorems, SequenceTheorems, TLAPS

Byte == Authors \X (Nat \ {0})

\* No byte in the file is newer than its author's last.
NoNewerByte == \A k \in 1..Len(file) : file[k][2] <= wrote[file[k][1]]

\* Between its lseek() and its write() a Seeker's own bytes are all before
\* its offset.
OwnBytesBehind ==
  \A p \in Seekers : pc[p] = "write" =>
    \A k \in 1..Len(file) : file[k][1] = p => k <= pos[p]

\* What was in the file at that lseek() is before its offset, too, and was
\* written by then.
SoughtBehind ==
  \A p \in Seekers : pc[p] = "write" =>
    /\ \A k \in 1..Len(file) : file[k] \in before[p] => k <= pos[p]
    /\ \A b \in before[p] : b[2] <= wrote[b[1]]

\* append's loop runs over the words.
RewriterLoop == \A p \in Rewriters : pc[p] = "loop" => num[p] = Len(Words)

\* The inductive invariant.
IInv == TypeOK /\ NoNewerByte /\ OwnBytesBehind /\ SoughtBehind /\ RewriterLoop
          /\ NoLostBytes /\ WriteOrder

\* What write() does: n bytes of p are put at offset at.
Placed(p, at, n) ==
  /\ file' \in Seq(Byte)
  /\ Len(file') = IF at + n > Len(file) THEN at + n ELSE Len(file)
  /\ \A k \in 1..Len(file') :
       file'[k] = IF at < k /\ k <= at + n THEN <<p, wrote[p] + (k - at)>>
                  ELSE file[k]
  /\ wrote' = [wrote EXCEPT ![p] = @ + n]
  /\ pos' = [pos EXCEPT ![p] = at + n]
  /\ \A k \in 1..Len(file) : (at < k /\ k <= at + n) => file[k] \in overwritten'
  /\ overwritten \subseteq overwritten'
  /\ overwritten' \subseteq Byte
  /\ overwritten' \subseteq
       overwritten \cup {file[k] : k \in {j \in 1..Len(file) : at < j /\ j <= at + n}}
  /\ overwritten' # overwritten => p \in Seekers

-----------------------------------------------------------------------------
\* A write() through O_APPEND places its bytes at the end.
LEMMA AppendPlaces ==
  ASSUME TypeOK, NEW p \in Procs, NEW n \in Nat, AppendBytes(p, n)
  PROVE  Placed(p, Len(file), n)
<1>1. /\ file \in Seq(Byte) /\ wrote \in [Authors -> Nat] /\ Len(file) \in Nat
      /\ overwritten \subseteq Byte /\ p \in Authors
  BY DEF TypeOK, Byte, Authors
<1> DEFINE t == Bytes(p, n)
<1>2. wrote[p] \in Nat BY <1>1
<1>3. t = [k \in 1..n |-> <<p, wrote[p] + k>>] BY DEF Bytes
<1>4. \A k \in 1..n : <<p, wrote[p] + k>> \in Byte BY <1>1, <1>2 DEF Byte
<1>5. t \in Seq(Byte) /\ Len(t) = n BY <1>3, <1>4
<1>6. file' = file \o t BY DEF AppendBytes
<1> HIDE DEF t
<1>7. file' \in Seq(Byte) /\ Len(file') = Len(file) + n
  <2>1. ASSUME NEW a \in Seq(Byte), NEW b \in Seq(Byte)
        PROVE  a \o b \in Seq(Byte) /\ Len(a \o b) = Len(a) + Len(b)
    OBVIOUS
  <2>2. file \o t \in Seq(Byte) /\ Len(file \o t) = Len(file) + Len(t)
    BY <1>1, <1>5, <2>1
  <2> QED BY <1>5, <1>6, <2>2
<1>8. ASSUME NEW k \in 1..Len(file')
      PROVE  file'[k] = IF Len(file) < k /\ k <= Len(file) + n
                        THEN <<p, wrote[p] + (k - Len(file))>> ELSE file[k]
  <2>1. CASE k <= Len(file) BY <1>1, <1>5, <1>6, <2>1
  <2>2. CASE k > Len(file)
    <3>1. k - Len(file) \in 1..n BY <1>1, <1>7, <2>2
    <3>2. file'[k] = t[k - Len(file)] BY <1>1, <1>5, <1>6, <1>7, <2>2
    <3> QED BY <1>3, <1>7, <2>2, <3>1, <3>2
  <2> QED BY <1>1, <2>1, <2>2
<1> QED BY <1>1, <1>7, <1>8 DEF Placed, AppendBytes

\* A write() of a Seeker places its byte at the offset.
LEMMA WriteAtPlaces ==
  ASSUME TypeOK, NEW p \in Seekers, WriteByteAt(p)
  PROVE  Placed(p, pos[p], 1)
<1>1. /\ file \in Seq(Byte) /\ wrote \in [Authors -> Nat] /\ Len(file) \in Nat
      /\ overwritten \subseteq Byte /\ p \in Authors /\ p \in Procs
      /\ pos[p] \in Nat /\ pos[p] <= Len(file)
      /\ pos \in [Procs -> Nat]
  BY DEF TypeOK, Byte, Authors, Procs, Counters
<1>2. wrote[p] \in Nat BY <1>1
<1>3. <<p, wrote[p] + 1>> \in Byte BY <1>1, <1>2 DEF Byte
<1>4. /\ wrote' = [wrote EXCEPT ![p] = @ + 1]
      /\ pos' = [pos EXCEPT ![p] = pos[p] + 1]
  BY DEF WriteByteAt
<1>5. CASE pos[p] < Len(file)
  <2>1. /\ file' = [file EXCEPT ![pos[p] + 1] = <<p, wrote[p] + 1>>]
        /\ overwritten' = overwritten \cup {file[pos[p] + 1]}
    BY <1>5 DEF WriteByteAt
  <2>2. pos[p] + 1 \in 1..Len(file) BY <1>1, <1>5
  <2>3. file' \in Seq(Byte) /\ Len(file') = Len(file) BY <1>1, <1>3, <2>1, <2>2
  <2>4. ASSUME NEW k \in 1..Len(file')
        PROVE  file'[k] = IF pos[p] < k /\ k <= pos[p] + 1
                          THEN <<p, wrote[p] + (k - pos[p])>> ELSE file[k]
    <3>1. CASE k = pos[p] + 1
      <4>1. k - pos[p] = 1 BY <1>1, <3>1
      <4> QED BY <1>1, <2>1, <2>2, <2>3, <3>1, <4>1
    <3>2. CASE k # pos[p] + 1 BY <1>1, <2>1, <2>3, <3>2
    <3> QED BY <3>1, <3>2
  <2>5. \A k \in 1..Len(file) : (pos[p] < k /\ k <= pos[p] + 1) => k = pos[p] + 1
    BY <1>1
  <2>6. file[pos[p] + 1] \in Byte BY <1>1, <2>2
  <2>7. \A k \in 1..Len(file) : (pos[p] < k /\ k <= pos[p] + 1)
                                  => file[k] \in overwritten'
    BY <2>1, <2>5
  <2>8. overwritten' \subseteq Byte /\ overwritten \subseteq overwritten'
    BY <1>1, <2>1, <2>6
  <2>9. pos[p] < pos[p] + 1 /\ pos[p] + 1 <= pos[p] + 1 BY <1>1
  <2>10. overwritten' \subseteq
           overwritten \cup
             {file[k] : k \in {j \in 1..Len(file) : pos[p] < j /\ j <= pos[p] + 1}}
    BY <2>1, <2>2, <2>9
  <2> QED BY <1>1, <1>4, <1>5, <2>3, <2>4, <2>7, <2>8, <2>10 DEF Placed
<1>6. CASE ~(pos[p] < Len(file))
  <2>1. pos[p] = Len(file) BY <1>1, <1>6
  <2>2. AppendBytes(p, 1)
    BY <1>4, <1>6, <2>1 DEF WriteByteAt, AppendBytes
  <2> QED BY <1>1, <2>1, <2>2, AppendPlaces
<1> QED BY <1>5, <1>6

-----------------------------------------------------------------------------
\* A write() at the end, or of one byte by a Seeker at the offset it sought,
\* keeps the parts of the invariant that speak of the bytes.
LEMMA PlacedKeeps ==
  ASSUME IInv, NEW p \in Procs, NEW at \in Nat, NEW n \in Nat,
         at <= Len(file), Placed(p, at, n),
         \A k \in 1..Len(file) : file[k][1] = p => k <= at
  PROVE  NoNewerByte' /\ NoLostBytes' /\ WriteOrder'
<1>1. /\ file \in Seq(Byte) /\ wrote \in [Authors -> Nat] /\ Len(file) \in Nat
      /\ p \in Authors /\ overwritten \subseteq Byte
  BY DEF IInv, TypeOK, Byte, Authors
<1>2. wrote[p] \in Nat BY <1>1
<1>3. /\ file' \in Seq(Byte) /\ Len(file') \in Nat
      /\ wrote' = [wrote EXCEPT ![p] = @ + n]
      /\ Len(file') >= at + n /\ Len(file') >= Len(file)
      /\ \A k \in 1..Len(file') : ~(at < k /\ k <= at + n) => k \in 1..Len(file)
  BY <1>1 DEF Placed
<1>4. ASSUME NEW k \in 1..Len(file'), at < k, k <= at + n
      PROVE  file'[k] = <<p, wrote[p] + (k - at)>>
  BY <1>4 DEF Placed
<1>5. ASSUME NEW k \in 1..Len(file'), ~(at < k /\ k <= at + n)
      PROVE  file'[k] = file[k] /\ k \in 1..Len(file)
  BY <1>3, <1>5 DEF Placed
<1>6. ASSUME NEW k \in 1..Len(file)
      PROVE  file[k][1] \in Authors /\ file[k][2] \in Nat
             /\ file[k] = <<file[k][1], file[k][2]>>
  <2>1. file[k] \in Byte BY <1>1
  <2> QED BY <2>1 DEF Byte
<1>7. NoNewerByte'
  <2> SUFFICES ASSUME NEW k \in 1..Len(file')
               PROVE  file'[k][2] <= wrote'[file'[k][1]]
    BY DEF NoNewerByte
  <2>1. CASE at < k /\ k <= at + n
    <3>1. file'[k][1] = p /\ file'[k][2] = wrote[p] + (k - at) BY <1>4, <2>1
    <3>2. wrote'[p] = wrote[p] + n BY <1>1, <1>3
    <3> QED BY <1>2, <1>3, <2>1, <3>1, <3>2
  <2>2. CASE ~(at < k /\ k <= at + n)
    <3>1. file'[k] = file[k] /\ k \in 1..Len(file) BY <1>5, <2>2
    <3>2. /\ file[k][1] \in Authors /\ file[k][2] \in Nat
          /\ file[k][2] <= wrote[file[k][1]]
      BY <1>6, <3>1 DEF IInv, NoNewerByte
    <3>3. ASSUME NEW a \in Authors
          PROVE  wrote[a] \in Nat /\ wrote'[a] \in Nat /\ wrote[a] <= wrote'[a]
      <4>1. wrote[a] \in Nat /\ wrote'[a] = IF a = p THEN wrote[a] + n ELSE wrote[a]
        BY <1>1, <1>3
      <4> QED BY <4>1
    <3> QED BY <3>1, <3>2, <3>3
  <2> QED BY <2>1, <2>2
<1>8. NoLostBytes'
  <2>1. ASSUME NEW a \in Authors, NEW k \in 1..(wrote'[a])
        PROVE  <<a, k>> \in (InFile \cup overwritten)'
    <3>1. CASE k <= wrote[a]
      <4>0. k \in 1..wrote[a] BY <1>1, <3>1
      <4>1. <<a, k>> \in InFile \cup overwritten BY <4>0 DEF IInv, NoLostBytes
      <4>2. CASE <<a, k>> \in overwritten BY <4>2 DEF Placed
      <4>3. CASE <<a, k>> \in InFile
        <5>1. PICK j \in 1..Len(file) : file[j] = <<a, k>> BY <4>3 DEF InFile
        <5>2. j \in 1..Len(file') BY <1>1, <1>3
        <5>3. CASE at < j /\ j <= at + n BY <5>1, <5>3 DEF Placed
        <5>4. CASE ~(at < j /\ j <= at + n)
          <6>1. file'[j] = <<a, k>> BY <1>5, <5>1, <5>2, <5>4
          <6> QED BY <5>2, <6>1 DEF InFile
        <5> QED BY <5>3, <5>4
      <4> QED BY <4>1, <4>2, <4>3
    <3>2. CASE ~(k <= wrote[a])
      <4>1. a = p /\ wrote'[p] = wrote[p] + n BY <1>1, <1>3, <3>2
      <4>2. k - wrote[p] \in 1..n BY <1>2, <3>2, <4>1
      <4> DEFINE j == at + (k - wrote[p])
      <4>3. j \in 1..Len(file') /\ at < j /\ j <= at + n BY <1>3, <4>2
      <4>4. wrote[p] + (j - at) = k BY <1>2, <4>2
      <4>5. file'[j] = <<p, wrote[p] + (j - at)>> BY <1>4, <4>3
      <4>6. file'[j] = <<a, k>> BY <4>1, <4>4, <4>5
      <4> QED BY <4>3, <4>6 DEF InFile
    <3> QED BY <3>1, <3>2
  <2>2. Seekers = {} => overwritten' = {}
    BY DEF IInv, NoLostBytes, Placed
  <2> QED BY <2>1, <2>2 DEF NoLostBytes
<1>9. WriteOrder'
  <2> SUFFICES ASSUME NEW j \in 1..Len(file'), NEW k \in 1..Len(file'),
                      j < k, file'[j][1] = file'[k][1]
               PROVE  file'[j][2] < file'[k][2]
    BY DEF WriteOrder
  <2>1. CASE (at < j /\ j <= at + n) /\ (at < k /\ k <= at + n)
    <3>1. /\ file'[j][2] = wrote[p] + (j - at)
          /\ file'[k][2] = wrote[p] + (k - at)
      BY <1>4, <2>1
    <3> QED BY <1>2, <3>1
  <2>2. CASE ~(at < j /\ j <= at + n) /\ (at < k /\ k <= at + n)
    <3>1. file'[j] = file[j] /\ j \in 1..Len(file) BY <1>5, <2>2
    <3>2. file'[k][1] = p /\ file'[k][2] = wrote[p] + (k - at) BY <1>4, <2>2
    <3>3. file[j][2] \in Nat /\ file[j][2] <= wrote[p]
      BY <1>6, <3>1, <3>2 DEF IInv, NoNewerByte
    <3> QED BY <1>2, <2>2, <3>1, <3>2, <3>3
  <2>3. CASE (at < j /\ j <= at + n) /\ ~(at < k /\ k <= at + n)
    <3>1. file'[k] = file[k] /\ k \in 1..Len(file) BY <1>5, <2>3
    <3>2. file'[j][1] = p BY <1>4, <2>3
    <3>3. k <= at BY <3>1, <3>2
    <3> QED BY <2>3, <3>3
  <2>4. CASE ~(at < j /\ j <= at + n) /\ ~(at < k /\ k <= at + n)
    <3>1. /\ file'[j] = file[j] /\ j \in 1..Len(file)
          /\ file'[k] = file[k] /\ k \in 1..Len(file)
      BY <1>5, <2>4
    <3> QED BY <3>1 DEF IInv, WriteOrder
  <2> QED BY <2>1, <2>2, <2>3, <2>4
<1> QED BY <1>7, <1>8, <1>9
-----------------------------------------------------------------------------
\* The invariant holds at the start.
LEMMA InitIInv == Init => IInv
<1> SUFFICES ASSUME Init PROVE IInv OBVIOUS
<1>1. wrote \in [Authors -> Nat] /\ Old \in Authors
  <2>1. Old \in Authors BY DEF Authors
  <2>2. CASE wrote = [p \in Authors |-> 0] BY <2>1, <2>2
  <2>3. ASSUME NEW n \in OldSizes,
               wrote = [p \in Authors |-> IF p = Old THEN n ELSE 0]
        PROVE  wrote \in [Authors -> Nat]
    <3>1. n \in Nat BY SharedFileAssumption
    <3> QED BY <2>3, <3>1
  <2> QED BY <2>1, <2>2, <2>3 DEF Init
<1>2. wrote[Old] \in Nat BY <1>1
<1>3. file = [k \in 1..wrote[Old] |-> <<Old, k>>] BY DEF Init
<1>4. file \in Seq(Byte) /\ Len(file) = wrote[Old]
  BY <1>1, <1>2, <1>3 DEF Byte
<1>5. \A k \in 1..Len(file) : file[k] = <<Old, k>> BY <1>3, <1>4
<1>6. \A a \in Authors : a # Old => wrote[a] = 0 BY DEF Init
<1>7. /\ pc = [p \in Procs |-> "open"] /\ pos = [p \in Procs |-> 0]
      /\ num = [p \in Procs |-> 0] /\ i = [p \in Procs |-> 0]
      /\ overwritten = {} /\ claims = {} /\ creator \in Authors \cup {None}
      /\ before = [p \in Procs |-> {}]
  BY <1>1 DEF Init
<1>8. TypeOK
  <2>1. pos \in [Procs -> Nat] /\ \A p \in Procs : pos[p] <= Len(file)
    BY <1>2, <1>4, <1>7
  <2>2. num \in [Procs -> Nat] /\ i \in [Procs -> Nat] BY <1>7
  <2>3. pc \in [Procs -> {"open", "parse", "loop", "write", "create"} \cup Over]
    BY <1>7
  <2>4. before \in [Procs -> SUBSET (Authors \X (Nat \ {0}))] BY <1>7
  <2> QED BY <1>1, <1>4, <1>7, <2>1, <2>2, <2>3, <2>4 DEF TypeOK, Byte
<1>9. NoNewerByte BY <1>2, <1>4, <1>5 DEF NoNewerByte
<1>10. WriteOrder BY <1>2, <1>4, <1>5 DEF WriteOrder
<1>11. NoLostBytes
  <2>1. ASSUME NEW a \in Authors, NEW k \in 1..wrote[a]
        PROVE  <<a, k>> \in InFile
    <3>1. a = Old BY <1>6
    <3> QED BY <1>4, <1>5, <3>1 DEF InFile
  <2> QED BY <1>7, <2>1 DEF NoLostBytes
<1>12. OwnBytesBehind /\ SoughtBehind /\ RewriterLoop
  <2>1. \A p \in Procs : pc[p] = "open" BY <1>7
  <2>2. Seekers \subseteq Procs /\ Rewriters \subseteq Procs
    BY DEF Procs, Counters
  <2> QED BY <2>1, <2>2 DEF OwnBytesBehind, SoughtBehind, RewriterLoop
<1> QED BY <1>8, <1>9, <1>10, <1>11, <1>12 DEF IInv

\* A step that leaves the bytes of the file alone.
LEMMA QuietKeeps ==
  ASSUME IInv, UNCHANGED <<file, wrote, overwritten>>
  PROVE  NoNewerByte' /\ NoLostBytes' /\ WriteOrder'
BY DEF IInv, NoNewerByte, NoLostBytes, WriteOrder, InFile

\* A step that leaves the bytes alone and moves one process.
Quiet(p) ==
  /\ UNCHANGED <<file, wrote, overwritten>>
  /\ pc' = [pc EXCEPT ![p] = pc'[p]]
  /\ pc'[p] \in {"parse", "loop", "write", "create"} \cup Over
  /\ creator' \in Authors \cup {None} /\ claims' \subseteq Procs
  /\ pos' = [pos EXCEPT ![p] = pos'[p]] /\ pos'[p] \in Nat /\ pos'[p] <= Len(file)
  /\ num' = [num EXCEPT ![p] = num'[p]] /\ num'[p] \in Nat
  /\ i' = [i EXCEPT ![p] = i'[p]] /\ i'[p] \in Nat
  /\ p \in Rewriters /\ pc'[p] = "loop" => num'[p] = Len(Words)
  /\ p \in Seekers /\ pc'[p] = "write" => pos'[p] = Len(file)

\* The history "before" is kept for every process.
LEMMA Remembered ==
  ASSUME TypeOK, Remember
  PROVE  /\ before' \in [Procs -> SUBSET Byte]
         /\ \A q \in Procs : pc[q] = "write" /\ pc'[q] = "write" => before'[q] = before[q]
         /\ \A q \in Procs : pc[q] # "write" /\ pc'[q] = "write" => before'[q] = InFile
<1>1. file \in Seq(Byte) /\ before \in [Procs -> SUBSET Byte] BY DEF TypeOK, Byte
<1>2. InFile \subseteq Byte BY <1>1 DEF InFile
<1> QED BY <1>1, <1>2 DEF Remember

\* A step that writes nothing preserves the invariant.
LEMMA QuietStep ==
  ASSUME IInv, NEW p \in Procs, Quiet(p), Remember
  PROVE  IInv'
<1> USE DEF Quiet
<1>1. NoNewerByte' /\ NoLostBytes' /\ WriteOrder' BY QuietKeeps
<1>2. TypeOK BY DEF IInv
<1>3. TypeOK'
  <2>1. pos' \in [Procs -> Nat] /\ num' \in [Procs -> Nat] /\ i' \in [Procs -> Nat]
    BY <1>2 DEF TypeOK
  <2>2. \A q \in Procs : pos'[q] <= Len(file') BY <1>2 DEF TypeOK
  <2>3. pc' \in [Procs -> {"open", "parse", "loop", "write", "create"} \cup Over]
    BY <1>2 DEF TypeOK
  <2>4. before' \in [Procs -> SUBSET (Authors \X (Nat \ {0}))]
    BY <1>2, Remembered DEF Byte
  <2> QED BY <1>2, <2>1, <2>2, <2>3, <2>4 DEF TypeOK
<1>4. OwnBytesBehind'
  <2> SUFFICES ASSUME NEW q \in Seekers, pc'[q] = "write",
                      NEW k \in 1..Len(file), file[k][1] = q
               PROVE  k <= pos'[q]
    BY DEF OwnBytesBehind
  <2>1. q \in Procs BY DEF Procs, Counters
  <2>2. CASE q = p BY <1>2, <2>1, <2>2 DEF TypeOK
  <2>3. CASE q # p
    BY <1>2, <2>1, <2>3 DEF TypeOK, IInv, OwnBytesBehind
  <2> QED BY <2>2, <2>3
<1>5. RewriterLoop'
  <2> SUFFICES ASSUME NEW q \in Rewriters, pc'[q] = "loop"
               PROVE  num'[q] = Len(Words)
    BY DEF RewriterLoop
  <2>1. q \in Procs BY DEF Procs
  <2>2. CASE q = p BY <1>2, <2>1, <2>2 DEF TypeOK
  <2>3. CASE q # p BY <1>2, <2>1, <2>3 DEF TypeOK, IInv, RewriterLoop
  <2> QED BY <2>2, <2>3
<1>6. SoughtBehind'
  <2> SUFFICES ASSUME NEW q \in Seekers, pc'[q] = "write"
               PROVE  /\ \A k \in 1..Len(file) : file[k] \in before'[q] => k <= pos'[q]
                      /\ \A b \in before'[q] : b[2] <= wrote[b[1]]
    BY DEF SoughtBehind
  <2>1. q \in Procs BY DEF Procs, Counters
  <2>2. /\ file \in Seq(Byte) /\ Len(file) \in Nat /\ wrote \in [Authors -> Nat]
        /\ pos \in [Procs -> Nat]
        /\ pc \in [Procs -> {"open", "parse", "loop", "write", "create"} \cup Over]
    BY <1>2 DEF TypeOK, Byte
  <2>3. \A b \in InFile : b[2] <= wrote[b[1]] BY DEF IInv, NoNewerByte, InFile
  <2>4. CASE q = p /\ pc[q] # "write"
    <3>1. before'[q] = InFile BY <1>2, <2>1, <2>4, Remembered
    <3>2. pos'[q] = Len(file) BY <2>4
    <3> QED BY <2>2, <2>3, <3>1, <3>2
  <2>5. CASE q = p /\ pc[q] = "write"
    <3>1. before'[q] = before[q] BY <1>2, <2>1, <2>5, Remembered
    <3>2. \A b \in before[q] : b[2] <= wrote[b[1]] BY <2>5 DEF IInv, SoughtBehind
    <3> QED BY <2>2, <2>5, <3>1, <3>2
  <2>6. CASE q # p
    <3>1. pc[q] = "write" BY <2>1, <2>2, <2>6
    <3>p. pos'[q] = pos[q]
      <4>1. pos' = [pos EXCEPT ![p] = pos'[p]] OBVIOUS
      <4>2. pos \in [Procs -> Nat] BY <2>2
      <4> QED BY <2>1, <2>6, <4>1, <4>2, Zenon
    <3>2. before'[q] = before[q] BY <1>2, <2>1, <3>1, Remembered
    <3> QED BY <3>1, <3>p, <3>2 DEF IInv, SoughtBehind
  <2> QED BY <2>4, <2>5, <2>6
<1> QED BY <1>1, <1>3, <1>4, <1>5, <1>6 DEF IInv

\* So does the end of a process, which closes its descriptor,
LEMMA EndKeeps ==
  ASSUME IInv, NEW p \in Procs, NEW how \in Over, End(p, how),
         creator' \in Authors \cup {None}, claims' \subseteq Procs, Remember
  PROVE  IInv'
<1>1. Len(file) \in Nat BY DEF IInv, TypeOK
<1>2. 0 <= Len(file) BY <1>1
<1>3. how # "loop" /\ how # "write" BY DEF Over
<1>4. Quiet(p)
  BY <1>2, <1>3 DEF Quiet, End, Goto, IInv, TypeOK
<1> QED BY <1>4, QuietStep

\* be it a failure or a success.
LEMMA FailKeeps ==
  ASSUME IInv, NEW p \in Procs, Fail(p) \/ Succeed(p), Remember
  PROVE  IInv'
<1>1. creator' \in Authors \cup {None} /\ claims' \subseteq Procs
  BY DEF Fail, Succeed, IInv, TypeOK
<1> QED BY <1>1, EndKeeps DEF Fail, Succeed, Over

\* A step that writes.
LEMMA WriteStep ==
  ASSUME IInv, NEW p \in Procs, NEW at \in Nat, NEW n \in Nat,
         at <= Len(file), Placed(p, at, n),
         \A k \in 1..Len(file) : file[k][1] = p => k <= at,
         pc' = [pc EXCEPT ![p] = "loop"], UNCHANGED <<num, creator, claims>>,
         i' = [i EXCEPT ![p] = @ + 1], Remember,
         p \in Rewriters => num[p] = Len(Words)
  PROVE  IInv'
<1>1. NoNewerByte' /\ NoLostBytes' /\ WriteOrder' BY PlacedKeeps
<1>2. /\ TypeOK /\ Len(file) \in Nat /\ file \in Seq(Byte)
      /\ pos \in [Procs -> Nat] /\ i \in [Procs -> Nat]
      /\ wrote \in [Authors -> Nat] /\ p \in Authors
      /\ pc \in [Procs -> {"open", "parse", "loop", "write", "create"} \cup Over]
  <2>1. TypeOK BY DEF IInv
  <2>2. Len(file) \in Nat /\ file \in Seq(Byte) BY <2>1 DEF TypeOK, Byte
  <2>3. /\ pos \in [Procs -> Nat] /\ i \in [Procs -> Nat] /\ wrote \in [Authors -> Nat]
        /\ pc \in [Procs -> {"open", "parse", "loop", "write", "create"} \cup Over]
    BY <2>1, Zenon DEF TypeOK
  <2>4. p \in Authors BY DEF Authors
  <2> QED BY <2>1, <2>2, <2>3, <2>4, Zenon
<1>3. /\ file' \in Seq(Byte) /\ Len(file') \in Nat
      /\ Len(file') >= at + n /\ Len(file') >= Len(file)
      /\ pos' = [pos EXCEPT ![p] = at + n]
      /\ wrote' = [wrote EXCEPT ![p] = @ + n]
      /\ overwritten' \subseteq Byte
  BY <1>2 DEF Placed
<1>4. TypeOK'
  <2>1. pos' \in [Procs -> Nat] /\ i' \in [Procs -> Nat] /\ wrote' \in [Authors -> Nat]
    BY <1>2, <1>3, SMTT(20)
  <2>2. \A q \in Procs : pos'[q] <= Len(file')
    <3>1. ASSUME NEW q \in Procs PROVE pos'[q] <= Len(file')
      <4>1. CASE q = p BY <1>2, <1>3, <4>1
      <4>2. CASE q # p
        <5>1. pos'[q] = pos[q] /\ pos[q] \in Nat /\ pos[q] <= Len(file)
          BY <1>2, <1>3, <4>2 DEF TypeOK
        <5> QED BY <1>2, <1>3, <5>1
      <4> QED BY <4>1, <4>2
    <3> QED BY <3>1
  <2>3. pc' \in [Procs -> {"open", "parse", "loop", "write", "create"} \cup Over]
    BY <1>2
  <2>4. before' \in [Procs -> SUBSET Byte] BY <1>2, Remembered
  <2> QED BY <1>2, <1>3, <2>1, <2>2, <2>3, <2>4 DEF TypeOK, Byte
<1>5. OwnBytesBehind'
  <2> SUFFICES ASSUME NEW q \in Seekers, pc'[q] = "write",
                      NEW k \in 1..Len(file'), file'[k][1] = q
               PROVE  k <= pos'[q]
    BY DEF OwnBytesBehind
  <2>1. q \in Procs BY DEF Procs, Counters
  <2>2. q # p /\ pc[q] = "write" BY <1>2, <2>1
  <2>3. pos'[q] = pos[q] BY <1>2, <1>3, <2>1, <2>2
  <2>4. file'[k] = IF at < k /\ k <= at + n THEN <<p, wrote[p] + (k - at)>>
                   ELSE file[k]
    BY DEF Placed
  <2>5. ~(at < k /\ k <= at + n)
    <3>1. SUFFICES ASSUME at < k /\ k <= at + n PROVE FALSE OBVIOUS
    <3>2. file'[k] = <<p, wrote[p] + (k - at)>> BY <2>4, <3>1
    <3>3. file'[k][1] = p BY <3>2
    <3> QED BY <2>2, <3>3
  <2>6. file'[k] = file[k] BY <2>4, <2>5
  <2>7. k \in 1..Len(file)
    <3>1. Len(file') = IF at + n > Len(file) THEN at + n ELSE Len(file)
      BY DEF Placed
    <3> QED BY <1>2, <2>5, <3>1
  <2> QED BY <2>2, <2>3, <2>6, <2>7 DEF IInv, OwnBytesBehind
<1>6. RewriterLoop'
  <2> SUFFICES ASSUME NEW q \in Rewriters, pc'[q] = "loop"
               PROVE  num[q] = Len(Words)
    BY DEF RewriterLoop
  <2>1. q \in Procs BY DEF Procs
  <2>2. CASE q = p BY <2>2
  <2>3. CASE q # p BY <1>2, <2>1, <2>3 DEF IInv, RewriterLoop
  <2> QED BY <2>2, <2>3
<1>7. SoughtBehind'
  <2> SUFFICES ASSUME NEW q \in Seekers, pc'[q] = "write"
               PROVE  /\ \A k \in 1..Len(file') : file'[k] \in before'[q] => k <= pos'[q]
                      /\ \A b \in before'[q] : b[2] <= wrote'[b[1]]
    BY DEF SoughtBehind
  <2>1. q \in Procs BY DEF Procs, Counters
  <2>2. q # p /\ pc[q] = "write" BY <1>2, <2>1
  <2>3. pos'[q] = pos[q] BY <1>2, <1>3, <2>1, <2>2
  <2>4. before'[q] = before[q] /\ before[q] \subseteq Byte
    BY <1>2, <2>1, <2>2, Remembered DEF TypeOK, Byte
  <2>5. /\ \A k \in 1..Len(file) : file[k] \in before[q] => k <= pos[q]
        /\ \A b \in before[q] : b[2] <= wrote[b[1]]
    BY <2>2 DEF IInv, SoughtBehind
  <2>6. ASSUME NEW b \in before[q] PROVE b[2] <= wrote'[b[1]]
    <3>1. b[1] \in Authors /\ b[2] \in Nat /\ b[2] <= wrote[b[1]]
      BY <2>4, <2>5 DEF Byte
    <3>2. /\ wrote[b[1]] \in Nat
          /\ wrote'[b[1]] = IF b[1] = p THEN wrote[b[1]] + n ELSE wrote[b[1]]
      BY <1>2, <1>3, <3>1
    <3> QED BY <3>1, <3>2
  <2>7. ASSUME NEW k \in 1..Len(file'), file'[k] \in before[q] PROVE k <= pos[q]
    <3>1. file'[k] = IF at < k /\ k <= at + n THEN <<p, wrote[p] + (k - at)>>
                     ELSE file[k]
      BY DEF Placed
    <3>2. ~(at < k /\ k <= at + n)
      <4>1. SUFFICES ASSUME at < k /\ k <= at + n PROVE FALSE OBVIOUS
      <4>2. file'[k] = <<p, wrote[p] + (k - at)>> BY <3>1, <4>1
      <4>3. file'[k][1] = p /\ file'[k][2] = wrote[p] + (k - at) BY <4>2
      <4>4. wrote[p] \in Nat /\ wrote[p] + (k - at) <= wrote[p]
        BY <1>2, <2>5, <2>7, <4>3
      <4> QED BY <1>3, <4>1, <4>4
    <3>3. file'[k] = file[k] BY <3>1, <3>2
    <3>4. k \in 1..Len(file)
      <4>1. Len(file') = IF at + n > Len(file) THEN at + n ELSE Len(file)
        BY DEF Placed
      <4> QED BY <1>2, <3>2, <4>1
    <3> QED BY <2>5, <2>7, <3>3, <3>4
  <2> QED BY <2>3, <2>4, <2>6, <2>7
<1> QED BY <1>1, <1>4, <1>5, <1>6, <1>7 DEF IInv
-----------------------------------------------------------------------------
\* The writes of the programs are of that kind.
LEMMA AtomicWriteIsWrite ==
  ASSUME IInv, NEW p \in Procs, AtomicWrite(p)
  PROVE  \/ Fail(p)
         \/ /\ p \in Seekers => Placed(p, pos[p], 1)
            /\ p \notin Seekers => Placed(p, Len(file), 1)
            /\ pc[p] = "write" /\ p \in Counters
            /\ pc' = [pc EXCEPT ![p] = "loop"] /\ i' = [i EXCEPT ![p] = @ + 1]
            /\ UNCHANGED <<num, creator, claims>>
<1>1. CASE Fail(p) BY <1>1
<1>2. CASE /\ IF p \in Seekers THEN WriteByteAt(p) ELSE AppendBytes(p, 1)
           /\ i' = [i EXCEPT ![p] = @ + 1] /\ Goto(p, "loop")
           /\ UNCHANGED num
  <2>1. TypeOK BY DEF IInv
  <2>2. p \in Seekers => Placed(p, pos[p], 1) /\ UNCHANGED <<creator, claims>>
    BY <1>2, <2>1, WriteAtPlaces DEF WriteByteAt
  <2>3. p \notin Seekers =>
          Placed(p, Len(file), 1) /\ UNCHANGED <<creator, claims>>
    BY <1>2, <2>1, AppendPlaces DEF AppendBytes
  <2> QED BY <1>2, <2>2, <2>3 DEF AtomicWrite, Goto
<1> QED BY <1>1, <1>2 DEF AtomicWrite

\* A step of any program preserves the invariant.
LEMMA StepIInv ==
  ASSUME IInv, NEW p \in Procs, Run(p)
  PROVE  IInv'
<1>0. /\ TypeOK /\ Len(file) \in Nat
      /\ pos \in [Procs -> Nat] /\ pos[p] \in Nat /\ pos[p] <= Len(file)
      /\ num \in [Procs -> Nat] /\ i \in [Procs -> Nat]
      /\ num[p] \in Nat /\ i[p] \in Nat
      /\ pc \in [Procs -> {"open", "parse", "loop", "write", "create"} \cup Over]
      /\ creator \in Authors \cup {None} /\ claims \subseteq Procs
      /\ p \in Authors
  <2>1. TypeOK BY DEF IInv
  <2>2. /\ pos \in [Procs -> Nat] /\ pos[p] \in Nat /\ pos[p] <= Len(file)
        /\ num \in [Procs -> Nat] /\ i \in [Procs -> Nat]
        /\ num[p] \in Nat /\ i[p] \in Nat
    BY <2>1 DEF TypeOK
  <2>3. Len(file) \in Nat BY <2>1 DEF TypeOK
  <2>4. /\ pc \in [Procs -> {"open", "parse", "loop", "write", "create"} \cup Over]
        /\ creator \in Authors \cup {None} /\ claims \subseteq Procs
    BY <2>1, Zenon DEF TypeOK
  <2>5. p \in Authors BY DEF Authors
  <2> QED BY <2>1, <2>2, <2>3, <2>4, <2>5, Zenon
<1>r. Remember /\ Calls(p) BY DEF Run
<1>1. CASE Fail(p) \/ Succeed(p) BY <1>1, <1>r, FailKeeps
<1>2. CASE AtomicOpen(p)
  <2>1. CASE /\ OpenOrCreate(p) /\ Goto(p, "parse")
             /\ UNCHANGED <<file, pos, num, i, wrote, overwritten, claims>>
    <3>1. creator' \in Authors \cup {None} BY <1>0, <2>1 DEF OpenOrCreate
    <3>2. Quiet(p) BY <1>0, <2>1, <3>1 DEF Goto, Quiet
    <3> QED BY <3>2, <1>r, QuietStep
  <2> QED BY <1>1, <1>2, <2>1 DEF AtomicOpen
<1>3. CASE AtomicParse(p)
  <2>1. ASSUME NEW n \in 0..MaxBytes, num' = [num EXCEPT ![p] = n],
               i' = [i EXCEPT ![p] = 0], Goto(p, "loop"),
               UNCHANGED <<file, creator, pos, wrote, overwritten, claims>>,
               p \notin Rewriters
        PROVE  IInv'
    <3>1. n \in Nat BY SharedFileAssumption
    <3>2. Quiet(p) BY <1>0, <2>1, <3>1 DEF Goto, Quiet
    <3> QED BY <3>2, <1>r, QuietStep
  <2>2. p \in Counters /\ pc[p] = "parse" BY <1>3 DEF AtomicParse
  <2>3. p \notin Rewriters BY <2>2, SharedFileAssumption
  <2> QED BY <1>1, <1>3, <2>1, <2>3 DEF AtomicParse
<1>4. CASE AtomicLoop(p)
  <2>0. p \in Counters BY <1>4 DEF AtomicLoop
  <2>1. CASE /\ i[p] < num[p] /\ Goto(p, "write")
             /\ pos' = IF p \in Seekers THEN [pos EXCEPT ![p] = Len(file)] ELSE pos
             /\ UNCHANGED <<file, creator, num, i, wrote, overwritten, claims>>
    <3>1. CASE p \in Seekers
      <4>1. Quiet(p) BY <1>0, <2>0, <2>1, <3>1 DEF Goto, Quiet
      <4> QED BY <4>1, <1>r, QuietStep
    <3>2. CASE p \notin Seekers
      <4>1. Quiet(p) BY <1>0, <2>0, <2>1, <3>2 DEF Goto, Quiet
      <4> QED BY <4>1, <1>r, QuietStep
    <3> QED BY <3>1, <3>2
  <2> QED BY <1>1, <1>4, <2>1 DEF AtomicLoop
<1>5. CASE AtomicWrite(p)
  <2>1. CASE /\ p \in Seekers => Placed(p, pos[p], 1)
             /\ p \notin Seekers => Placed(p, Len(file), 1)
             /\ pc[p] = "write" /\ p \in Counters
             /\ pc' = [pc EXCEPT ![p] = "loop"] /\ i' = [i EXCEPT ![p] = @ + 1]
             /\ UNCHANGED <<num, creator, claims>>
    <3>1. p \notin Rewriters BY <2>1, SharedFileAssumption
    <3>2. CASE p \in Seekers
      <4>1. \A k \in 1..Len(file) : file[k][1] = p => k <= pos[p]
        BY <2>1, <3>2 DEF IInv, OwnBytesBehind
      <4> QED BY <1>0, <2>1, <3>1, <3>2, <4>1, <1>r, WriteStep
    <3>3. CASE p \notin Seekers
      <4>1. \A k \in 1..Len(file) : k <= Len(file) BY <1>0
      <4>2. Len(file) <= Len(file) BY <1>0
      <4> QED BY <1>0, <2>1, <3>1, <3>3, <4>1, <4>2, <1>r, WriteStep
    <3> QED BY <3>2, <3>3
  <2> QED BY <1>1, <1>5, <2>1, AtomicWriteIsWrite
<1>6. CASE AppendOpen(p)
  <2>1. CASE /\ creator # None /\ Goto(p, "loop") /\ pos' = [pos EXCEPT ![p] = 0]
             /\ i' = [i EXCEPT ![p] = 0] /\ num' = [num EXCEPT ![p] = Len(Words)]
             /\ UNCHANGED <<file, creator, wrote, overwritten, claims>>
    <3>1. Len(Words) \in Nat /\ 0 <= Len(file) BY <1>0, SharedFileAssumption
    <3>2. Quiet(p) BY <1>0, <2>1, <3>1 DEF Goto, Quiet
    <3> QED BY <3>2, <1>r, QuietStep
  <2> QED BY <1>1, <1>6, <2>1 DEF AppendOpen
<1>7. CASE AppendWrite(p)
  <2>0. p \in Rewriters /\ pc[p] = "loop" /\ num[p] = Len(Words)
    BY <1>7 DEF AppendWrite, IInv, RewriterLoop
  <2>1. CASE /\ i[p] < num[p] /\ i' = [i EXCEPT ![p] = @ + 1]
             /\ \E n \in 0..Words[i[p] + 1] : AppendBytes(p, n)
             /\ UNCHANGED <<pc, num>>
    <3>1. i[p] + 1 \in 1..Len(Words) BY <1>0, <2>0, <2>1, SharedFileAssumption
    <3>2. Words[i[p] + 1] \in Nat BY <3>1, SharedFileAssumption
    <3>3. PICK n \in 0..Words[i[p] + 1] : AppendBytes(p, n) BY <2>1
    <3>4. n \in Nat BY <3>2
    <3>5. Placed(p, Len(file), n) BY <1>0, <3>3, <3>4, AppendPlaces
    <3>6. UNCHANGED <<creator, claims>> BY <3>3 DEF AppendBytes
    <3>7. pc' = [pc EXCEPT ![p] = "loop"] BY <1>0, <2>0, <2>1
    <3>8. \A k \in 1..Len(file) : k <= Len(file) BY <1>0
    <3>9. Len(file) <= Len(file) BY <1>0
    <3> QED BY <1>0, <2>0, <2>1, <3>4, <3>5, <3>6, <3>7, <3>8, <3>9, <1>r, WriteStep
  <2> QED BY <1>1, <1>7, <2>1 DEF AppendWrite
<1>8. CASE ExclusiveOpen(p)
  <2>1. CASE /\ creator = None /\ Goto(p, "create")
             /\ UNCHANGED <<file, creator, pos, num, i, wrote, overwritten, claims>>
    <3>1. Quiet(p) BY <1>0, <2>1 DEF Goto, Quiet
    <3> QED BY <3>1, <1>r, QuietStep
  <2> QED BY <1>1, <1>8, <2>1 DEF ExclusiveOpen
<1>9. CASE ExclusiveCreate(p)
  <2>1. CASE OpenOrCreate(p) /\ End(p, "done") /\ claims' = claims \cup {p}
    <3>1. creator' \in Authors \cup {None} /\ claims' \subseteq Procs
      BY <1>0, <2>1 DEF OpenOrCreate
    <3> QED BY <2>1, <3>1, <1>r, EndKeeps DEF Over
  <2> QED BY <1>1, <1>9, <2>1 DEF ExclusiveCreate
<1> QED BY <1>r, <1>2, <1>3, <1>4, <1>5, <1>6, <1>7, <1>8, <1>9 DEF Calls

\* Every step preserves the invariant.
LEMMA NextIInv == IInv /\ [Next]_vars => IInv'
<1>1. IInv /\ UNCHANGED vars => IInv'
  BY ZenonT(30) DEF IInv, TypeOK, NoNewerByte, OwnBytesBehind, SoughtBehind,
         RewriterLoop, NoLostBytes, InFile, WriteOrder, vars
<1> QED BY <1>1, StepIInv DEF Next, AllOver

\* The inductive invariant holds in every behaviour.
THEOREM Invariance == Spec => []IInv
BY InitIInv, NextIInv, PTL DEF Spec

\* Type correctness, and no offset beyond the end, for any set of processes.
THEOREM TypeCorrect == Spec => []TypeOK
<1>1. IInv => TypeOK BY DEF IInv
<1> QED BY <1>1, Invariance, PTL

\* O_APPEND loses nothing: for any number of processes and bytes, a byte
\* reported written is in the file or a Seeker wrote over it.
THEOREM NothingAppendedIsLost == Spec => []NoLostBytes
<1>1. IInv => NoLostBytes BY DEF IInv
<1> QED BY <1>1, Invariance, PTL

\* Every process finds its bytes in the order it wrote them.
THEOREM BytesInOrder == Spec => []WriteOrder
<1>1. IInv => WriteOrder BY DEF IInv
<1> QED BY <1>1, Invariance, PTL

\* Only a Seeker puts a byte over another, and only over one that somebody
\* else put there after its lseek().
THEOREM OverwritesAreRaces == Spec => SeekersOverwriteOthers
<1> DEFINE A == \A k \in 1..Len(file) :
                  file'[k] # file[k] =>
                    LET s == file'[k][1]
                    IN  s \in Seekers /\ file[k][1] # s /\ file[k] \notin before[s]
<1>1. ASSUME IInv, NEW p \in Procs, Run(p) PROVE A
  <2>0. Len(file) \in Nat /\ TypeOK BY <1>1 DEF IInv, TypeOK
  <2>1. CASE file' = file BY <2>1
  <2>2. ASSUME NEW n \in Nat, Placed(p, Len(file), n) PROVE A
    <3>1. \A k \in 1..Len(file) : file'[k] = file[k]
      <4>1. ASSUME NEW k \in 1..Len(file) PROVE file'[k] = file[k]
        <5>1. k \in 1..Len(file') /\ ~(Len(file) < k)
          BY <2>0, <2>2 DEF Placed
        <5> QED BY <2>2, <5>1 DEF Placed
      <4> QED BY <4>1
    <3> QED BY <3>1
  <2>3. ASSUME p \in Seekers, pc[p] = "write", Placed(p, pos[p], 1) PROVE A
    <3> SUFFICES ASSUME NEW k \in 1..Len(file), file'[k] # file[k]
                 PROVE  LET s == file'[k][1]
                        IN  s \in Seekers /\ file[k][1] # s /\ file[k] \notin before[s]
      OBVIOUS
    <3>1. pos[p] \in Nat BY <2>0 DEF TypeOK
    <3>2. k \in 1..Len(file') BY <2>0, <2>3, <3>1 DEF Placed
    <3>3. file'[k] = IF pos[p] < k /\ k <= pos[p] + 1
                     THEN <<p, wrote[p] + (k - pos[p])>> ELSE file[k]
      BY <2>3, <3>2 DEF Placed
    <3>4. pos[p] < k /\ file'[k][1] = p BY <3>3
    <3>5. \A j \in 1..Len(file) : file[j][1] = p => j <= pos[p]
      BY <1>1, <2>3 DEF IInv, OwnBytesBehind
    <3>6. file[k][1] # p BY <2>0, <3>1, <3>4, <3>5
    <3>7. \A j \in 1..Len(file) : file[j] \in before[p] => j <= pos[p]
      BY <1>1, <2>3 DEF IInv, SoughtBehind
    <3>8. file[k] \notin before[p] BY <2>0, <3>1, <3>4, <3>7
    <3> QED BY <2>3, <3>4, <3>6, <3>8
  <2>4. CASE Fail(p) \/ Succeed(p) BY <2>1, <2>4 DEF Fail, Succeed, End
  <2>5. CASE AtomicOpen(p) BY <2>1, <2>4, <2>5 DEF AtomicOpen
  <2>6. CASE AtomicParse(p) BY <2>1, <2>4, <2>6 DEF AtomicParse
  <2>7. CASE AtomicLoop(p) BY <2>1, <2>4, <2>7 DEF AtomicLoop
  <2>8. CASE AtomicWrite(p)
    <3>1. \/ Fail(p)
          \/ p \in Seekers /\ pc[p] = "write" /\ Placed(p, pos[p], 1)
          \/ Placed(p, Len(file), 1)
      BY <1>1, <2>8, AtomicWriteIsWrite
    <3> HIDE DEF A
    <3> QED BY <2>2, <2>3, <2>4, <3>1
  <2>9. CASE AppendOpen(p) BY <2>1, <2>4, <2>9 DEF AppendOpen
  <2>10. CASE AppendWrite(p)
    <3>1. CASE /\ i[p] < num[p]
               /\ \E n \in 0..Words[i[p] + 1] : AppendBytes(p, n)
      <4>1. PICK n \in 0..Words[i[p] + 1] : AppendBytes(p, n) BY <3>1
      <4>2. n \in Nat
        <5>1. num[p] = Len(Words) BY <1>1, <2>10 DEF AppendWrite, IInv, RewriterLoop
        <5>2. i[p] \in Nat BY <2>0 DEF TypeOK
        <5>3. i[p] + 1 \in 1..Len(Words) BY <3>1, <5>1, <5>2, SharedFileAssumption
        <5>4. Words[i[p] + 1] \in Nat BY <5>3, SharedFileAssumption
        <5> QED BY <5>4
      <4>3. Placed(p, Len(file), n) BY <2>0, <4>1, <4>2, AppendPlaces
      <4> HIDE DEF A
      <4> QED BY <2>2, <4>2, <4>3
    <3> HIDE DEF A
    <3> QED BY <2>4, <2>10, <3>1 DEF AppendWrite
  <2>11. CASE ExclusiveOpen(p) BY <2>1, <2>4, <2>11 DEF ExclusiveOpen
  <2>12. CASE ExclusiveCreate(p)
    BY <2>1, <2>4, <2>12 DEF ExclusiveCreate, End
  <2> HIDE DEF A
  <2> QED BY <1>1, <2>5, <2>6, <2>7, <2>8, <2>9, <2>10, <2>11, <2>12 DEF Run, Calls
<1>2. IInv /\ [Next]_vars => [A]_vars
  <2> HIDE DEF A
  <2> QED BY <1>1 DEF Next, AllOver
<1>3. Spec => [][A]_vars
  <2> HIDE DEF A
  <2> QED BY <1>2, Invariance, PTL DEF Spec
<1> QED BY <1>3 DEF SeekersOverwriteOthers

-----------------------------------------------------------------------------
(* Every byte written is in the file once, or was overwritten once.        *)

\* Overwritten bytes are gone, and no newer than what their authors wrote.
LossInv ==
  /\ IsFiniteSet(overwritten)
  /\ \A b \in overwritten : b[2] <= wrote[b[1]]
  /\ overwritten \cap InFile = {}

\* The bytes of a file in write order are all different.
LEMMA FileInjective ==
  ASSUME TypeOK, WriteOrder,
         NEW j \in 1..Len(file), NEW k \in 1..Len(file), file[j] = file[k]
  PROVE  j = k
<1>1. file \in Seq(Byte) /\ Len(file) \in Nat BY DEF TypeOK, Byte
<1>2. file[j] \in Byte BY <1>1
<1>3. file[j][2] \in Nat BY <1>2 DEF Byte
<1>4. ~(j < k) /\ ~(k < j) BY <1>3 DEF WriteOrder
<1> QED BY <1>1, <1>4

\* So there are as many of them as the file is long.
LEMMA FileCounted ==
  ASSUME TypeOK, WriteOrder
  PROVE  IsFiniteSet(InFile) /\ Cardinality(InFile) = Len(file)
<1> DEFINE D == 1..Len(file)
<1>1. file \in Seq(Byte) /\ Len(file) \in Nat BY DEF TypeOK, Byte
<1>2. file \in [D -> InFile]
  <2>1. file \in [D -> Byte] BY <1>1
  <2>2. \A k \in D : file[k] \in InFile BY DEF InFile
  <2> QED BY <2>1, <2>2
<1>3. \A j, k \in D : file[j] = file[k] => j = k BY FileInjective
<1>4. \A b \in InFile : \E k \in D : file[k] = b BY DEF InFile
<1>5. IsFiniteSet(D) /\ Cardinality(D) = Len(file) BY <1>1, FS_Interval, SMTT(20)
<1> HIDE DEF D
<1>6. file \in Bijection(D, InFile)
  BY <1>2, <1>3, <1>4 DEF Bijection, Injection, Surjection, IsInjective
<1> QED BY <1>5, <1>6, FS_Bijection DEF ExistsBijection

\* A write() keeps the overwritten bytes apart from those in the file.
LEMMA PlacedLoss ==
  ASSUME IInv, LossInv, NEW p \in Procs, NEW at \in Nat, NEW n \in Nat,
         at <= Len(file), Placed(p, at, n)
  PROVE  LossInv'
<1> DEFINE in(k) == at < k /\ k <= at + n
<1>0. TypeOK /\ WriteOrder /\ NoNewerByte BY DEF IInv
<1>1. /\ file \in Seq(Byte) /\ wrote \in [Authors -> Nat] /\ Len(file) \in Nat
      /\ p \in Authors /\ overwritten \subseteq Byte
  BY <1>0 DEF TypeOK, Byte, Authors
<1>2. /\ Len(file') \in Nat /\ Len(file') >= Len(file)
      /\ wrote' = [wrote EXCEPT ![p] = @ + n]
      /\ \A k \in 1..Len(file') : ~in(k) => k \in 1..Len(file)
  BY <1>1 DEF Placed
<1>3. ASSUME NEW k \in 1..Len(file)
      PROVE  file[k] \in Byte /\ file[k][2] <= wrote[file[k][1]]
  BY <1>0, <1>1 DEF NoNewerByte
<1>4. ASSUME NEW b \in overwritten'
      PROVE  \/ b \in overwritten
             \/ \E j \in 1..Len(file) : in(j) /\ b = file[j]
  BY DEF Placed
<1>5. ASSUME NEW b \in overwritten'
      PROVE  b \in Byte /\ b[2] <= wrote[b[1]]
  BY <1>1, <1>3, <1>4 DEF LossInv
<1>6. IsFiniteSet(overwritten')
  <2>1. IsFiniteSet(overwritten \cup InFile)
    BY <1>0, FileCounted, FS_Union DEF LossInv
  <2>2. overwritten' \subseteq overwritten \cup InFile BY <1>4 DEF InFile
  <2> QED BY <2>1, <2>2, FS_Subset
<1>7. ASSUME NEW b \in overwritten' PROVE b[2] <= wrote'[b[1]]
  <2>1. b \in Byte /\ b[2] <= wrote[b[1]] BY <1>5
  <2>2. b[1] \in Authors /\ b[2] \in Nat BY <2>1 DEF Byte
  <2>3. /\ wrote[b[1]] \in Nat
        /\ wrote'[b[1]] = IF b[1] = p THEN wrote[b[1]] + n ELSE wrote[b[1]]
    BY <1>1, <1>2, <2>2
  <2> QED BY <2>1, <2>2, <2>3
<1>8. ASSUME NEW k \in 1..Len(file'), file'[k] \in overwritten' PROVE FALSE
  <2>1. CASE in(k)
    <3>1. file'[k] = <<p, wrote[p] + (k - at)>> BY <2>1 DEF Placed
    <3>2. file'[k][1] = p /\ file'[k][2] = wrote[p] + (k - at) BY <3>1
    <3>3. wrote[p] \in Nat BY <1>1
    <3>4. file'[k][2] <= wrote[p] BY <1>5, <1>8, <3>2
    <3> QED BY <1>2, <2>1, <3>2, <3>3, <3>4
  <2>2. CASE ~in(k)
    <3>1. k \in 1..Len(file) /\ file'[k] = file[k] BY <1>2, <2>2 DEF Placed
    <3>2. file[k] \notin overwritten BY <3>1 DEF LossInv, InFile
    <3>3. PICK j \in 1..Len(file) : in(j) /\ file[k] = file[j]
      BY <1>4, <1>8, <3>1, <3>2
    <3>4. j = k BY <1>0, <3>1, <3>3, FileInjective
    <3> QED BY <2>2, <3>3, <3>4
  <2> QED BY <2>1, <2>2
<1>9. (overwritten \cap InFile)' = {} BY <1>8 DEF InFile
<1> QED BY <1>6, <1>7, <1>9 DEF LossInv


\* A step of a program writes within or behind the file, or not at all.
LEMMA StepWrites ==
  ASSUME IInv, NEW p \in Procs, Run(p)
  PROVE  \/ UNCHANGED <<file, wrote, overwritten>>
         \/ \E at, n \in Nat : at <= Len(file) /\ Placed(p, at, n)
<1>0. /\ TypeOK /\ Len(file) \in Nat /\ pos[p] \in Nat /\ pos[p] <= Len(file)
      /\ Len(file) <= Len(file)
  <2>1. TypeOK BY DEF IInv
  <2>2. Len(file) \in Nat /\ pos[p] \in Nat /\ pos[p] <= Len(file) BY <2>1 DEF TypeOK
  <2> QED BY <2>1, <2>2
<1>1. CASE Fail(p) \/ Succeed(p) BY <1>1 DEF Fail, Succeed, End
<1>2. CASE AtomicOpen(p) BY <1>1, <1>2 DEF AtomicOpen
<1>3. CASE AtomicParse(p) BY <1>1, <1>3 DEF AtomicParse
<1>4. CASE AtomicLoop(p) BY <1>1, <1>4 DEF AtomicLoop
<1>5. CASE AtomicWrite(p)
  <2>1. Fail(p) \/ Placed(p, pos[p], 1) \/ Placed(p, Len(file), 1)
    BY <1>5, AtomicWriteIsWrite
  <2> QED BY <1>0, <1>1, <2>1
<1>6. CASE AppendOpen(p) BY <1>1, <1>6 DEF AppendOpen
<1>7. CASE AppendWrite(p)
  <2>0. pc[p] = "loop" /\ p \in Rewriters /\ num[p] = Len(Words) /\ i[p] \in Nat
    BY <1>0, <1>7 DEF AppendWrite, IInv, RewriterLoop, TypeOK
  <2>1. CASE /\ i[p] < num[p]
             /\ \E n \in 0..Words[i[p] + 1] : AppendBytes(p, n)
    <3>1. PICK n \in 0..Words[i[p] + 1] : AppendBytes(p, n) BY <2>1
    <3>2. i[p] + 1 \in 1..Len(Words) BY <2>0, <2>1, SharedFileAssumption
    <3>3. Words[i[p] + 1] \in Nat BY <3>2, SharedFileAssumption
    <3>4. n \in Nat BY <3>3
    <3>5. Placed(p, Len(file), n) BY <1>0, <3>1, <3>4, AppendPlaces
    <3> QED BY <1>0, <3>4, <3>5
  <2> QED BY <1>1, <1>7, <2>1 DEF AppendWrite
<1>8. CASE ExclusiveOpen(p) BY <1>1, <1>8 DEF ExclusiveOpen
<1>9. CASE ExclusiveCreate(p) BY <1>1, <1>9 DEF ExclusiveCreate, End
<1> QED BY <1>2, <1>3, <1>4, <1>5, <1>6, <1>7, <1>8, <1>9 DEF Run, Calls

\* Nobody is about to create a file that was there from the start.
ClaimInv ==
  /\ ClaimsOfCreation
  /\ creator = Old => \A p \in Openers : pc[p] # "create"

\* The other processes stay where they are.
OthersStay(p) == \A q \in Procs : q # p => pc'[q] = pc[q]

\* A step of any program keeps the claims of creation in order.
LEMMA StepClaims ==
  ASSUME TypeOK, ClaimInv, NEW p \in Procs, Run(p)
  PROVE  ClaimInv'
<1>0. /\ pc \in [Procs -> {"open", "parse", "loop", "write", "create"} \cup Over]
      /\ Openers \subseteq Procs /\ Old \notin Procs /\ None \notin Procs
      /\ p \in Counters \cup Rewriters => p \notin Openers
      /\ Old # None
  <2>1. pc \in [Procs -> {"open", "parse", "loop", "write", "create"} \cup Over]
    BY Zenon DEF TypeOK
  <2>2. Openers \subseteq Procs BY DEF Procs
  <2> QED BY <2>1, <2>2, SharedFileAssumption
<1>1. ASSUME UNCHANGED claims, p \notin Openers,
             creator' = creator \/ (creator = None /\ creator' = p),
             OthersStay(p)
      PROVE  ClaimInv'
  <2>1. \A q \in Openers : pc'[q] = pc[q] BY <1>0, <1>1 DEF OthersStay
  <2> QED BY <1>0, <1>1, <2>1 DEF ClaimInv, ClaimsOfCreation
<1>2. ASSUME UNCHANGED <<creator, claims>>, p \in Openers, NEW l,
             pc' = [pc EXCEPT ![p] = l],
             l = "done" => creator # None, l = "create" => creator = None
      PROVE  ClaimInv'
  <2>1. \A q \in Openers : pc'[q] = IF q = p THEN l ELSE pc[q] BY <1>0, <1>2
  <2> QED BY <1>0, <1>2, <2>1 DEF ClaimInv, ClaimsOfCreation
<1>3. CASE p \notin Openers
  <2>1. UNCHANGED claims /\ OthersStay(p)
        /\ (creator' = creator \/ (creator = None /\ creator' = p))
    <3>1. ASSUME NEW l, Goto(p, l) PROVE OthersStay(p)
      BY <1>0, <3>1 DEF Goto, OthersStay
    <3>2. CASE Fail(p) \/ Succeed(p) BY <3>1, <3>2 DEF Fail, Succeed, End
    <3>3. CASE AtomicOpen(p) BY <3>1, <3>2, <3>3 DEF AtomicOpen, OpenOrCreate
    <3>4. CASE AtomicParse(p) BY <3>1, <3>2, <3>4 DEF AtomicParse
    <3>5. CASE AtomicLoop(p) BY <3>1, <3>2, <3>5 DEF AtomicLoop
    <3>6. CASE AtomicWrite(p)
      BY <3>1, <3>2, <3>6 DEF AtomicWrite, WriteByteAt, AppendBytes
    <3>7. CASE AppendOpen(p) BY <3>1, <3>2, <3>7 DEF AppendOpen
    <3>8. CASE AppendWrite(p)
      <4>1. CASE UNCHANGED <<pc, num>> /\ \E n \in 0..Words[i[p] + 1] : AppendBytes(p, n)
        <5>1. OthersStay(p) BY <4>1 DEF OthersStay
        <5> QED BY <4>1, <5>1 DEF AppendBytes
      <4> QED BY <3>2, <3>8, <4>1 DEF AppendWrite
    <3> QED BY <1>3, <3>3, <3>4, <3>5, <3>6, <3>7, <3>8
          DEF Run, Calls, ExclusiveOpen, ExclusiveCreate
  <2> QED BY <1>1, <1>3, <2>1
<1>4. CASE p \in Openers
  <2>1. CASE Fail(p) BY <1>2, <1>4, <2>1 DEF Fail, End, Goto
  <2>2. CASE ExclusiveOpen(p)
    BY <1>2, <1>4, <2>1, <2>2 DEF ExclusiveOpen, Succeed, End, Goto
  <2>3. CASE ExclusiveCreate(p)
    <3>1. CASE OpenOrCreate(p) /\ End(p, "done") /\ claims' = claims \cup {p}
      <4>1. creator # Old BY <1>4, <2>3 DEF ClaimInv, ExclusiveCreate
      <4>2. creator' = IF creator = None THEN p ELSE creator
        BY <3>1 DEF OpenOrCreate
      <4>3. pc' = [pc EXCEPT ![p] = "done"] BY <3>1 DEF End, Goto
      <4>4. creator' # Old /\ creator' # None BY <1>0, <4>1, <4>2
      <4>5. \A q \in Openers : creator' = q => q \in claims'
        BY <3>1, <4>2 DEF ClaimInv, ClaimsOfCreation
      <4> QED BY <4>4, <4>5 DEF ClaimInv, ClaimsOfCreation
    <3> QED BY <2>1, <2>3, <3>1 DEF ExclusiveCreate
  <2>4. p \notin Counters /\ p \notin Rewriters BY <1>0, <1>4
  <2> QED BY <2>2, <2>3, <2>4
        DEF Run, Calls, AtomicOpen, AtomicParse, AtomicLoop, AtomicWrite, AppendOpen, AppendWrite
<1> QED BY <1>3, <1>4

\* For any number of processes and bytes: bytes are in order, the file is
\* short of exactly the overwritten ones, and a claim of exclusive creation is
\* wrong only if another process came between the two calls of open().
THEOREM AlwaysAccounted == Spec => []Accounted
<1> DEFINE AccountInv == IInv /\ LossInv /\ ClaimInv
<1>1. Init => AccountInv
  <2> SUFFICES ASSUME Init PROVE LossInv /\ ClaimInv BY InitIInv
  <2>1. LossInv BY FS_EmptySet DEF Init, LossInv
  <2>2. Openers \subseteq Procs /\ Old \notin Procs /\ None \notin Procs /\ Old # None
    BY SharedFileAssumption DEF Procs
  <2>3. ClaimInv BY <2>2 DEF Init, ClaimInv, ClaimsOfCreation
  <2> QED BY <2>1, <2>3
<1>2. AccountInv /\ [Next]_vars => AccountInv'
  <2> SUFFICES ASSUME IInv, LossInv, ClaimInv, [Next]_vars
               PROVE  LossInv' /\ ClaimInv'
    BY NextIInv
  <2>1. CASE UNCHANGED vars
    BY <2>1 DEF vars, LossInv, ClaimInv, ClaimsOfCreation, InFile
  <2>2. ASSUME NEW p \in Procs, Run(p) PROVE LossInv' /\ ClaimInv'
    <3>1. ClaimInv' BY <2>2, StepClaims DEF IInv
    <3>2. CASE UNCHANGED <<file, wrote, overwritten>> BY <3>1, <3>2 DEF LossInv, InFile
    <3>3. ASSUME NEW at \in Nat, NEW n \in Nat, at <= Len(file), Placed(p, at, n)
          PROVE  LossInv'
      BY <3>3, PlacedLoss
    <3> QED BY <2>2, <3>1, <3>2, <3>3, StepWrites
  <2> QED BY <2>1, <2>2 DEF Next, AllOver
<1>3. AccountInv => Accounted
  <2> SUFFICES ASSUME AccountInv PROVE SizeLoss
    BY DEF Accounted, IInv, ClaimInv
  <2>1. TypeOK /\ WriteOrder /\ NoLostBytes /\ NoNewerByte /\ LossInv BY DEF IInv
  <2>2. file \in Seq(Byte) /\ overwritten \subseteq Byte /\ wrote \in [Authors -> Nat]
    BY <2>1 DEF TypeOK, Byte
  <2>3. ASSUME NEW b \in InFile \cup overwritten PROVE b \in Written
    <3>1. b \in Byte /\ b[2] <= wrote[b[1]]
      BY <2>1, <2>2 DEF InFile, LossInv, NoNewerByte
    <3>2. b = <<b[1], b[2]>> /\ b[1] \in Authors /\ b[2] \in Nat \ {0} BY <3>1 DEF Byte
    <3>3. b[2] \in 1..wrote[b[1]] BY <2>2, <3>1, <3>2
    <3> QED BY <3>2, <3>3 DEF Written
  <2>4. ASSUME NEW b \in Written PROVE b \in InFile \cup overwritten
    BY <2>1 DEF Written, NoLostBytes
  <2>5. Written = InFile \cup overwritten BY <2>3, <2>4
  <2>6. /\ IsFiniteSet(InFile) /\ Cardinality(InFile) = Len(file)
        /\ IsFiniteSet(overwritten) /\ InFile \cap overwritten = {}
    BY <2>1, FileCounted DEF LossInv
  <2>7. Cardinality(Written) = Cardinality(InFile) + Cardinality(overwritten)
                                 - Cardinality(InFile \cap overwritten)
    BY <2>5, <2>6, FS_Union
  <2>8. Cardinality(InFile \cap overwritten) = 0 BY <2>6, FS_EmptySet
  <2>9. Cardinality(InFile) \in Nat /\ Cardinality(overwritten) \in Nat
    BY <2>6, FS_CardinalityType
  <2> QED BY <2>6, <2>7, <2>8, <2>9 DEF SizeLoss
<1> HIDE DEF AccountInv
<1> QED BY <1>1, <1>2, <1>3, PTL DEF Spec

-----------------------------------------------------------------------------
(* Descriptors.                                                            *)

\* No descriptor at or above the limit is open.
BelowLimit == \A f \in Fds : table[f] # NONE => f < limit

\* Within my_dup() and my_dup2(): how the table differs from the one at entry.
InCall ==
  /\ nextCall = "my_dup" => old \in Args /\ new = NONE
  /\ nextCall = "my_dup2" => old \in Args /\ new \in Args /\ table = entry
  /\ nextCall = "fcntl" =>
       /\ old \in Args /\ new \in Args /\ old # new
       /\ \A f \in Fds : table[f] = IF f = new THEN NONE ELSE entry[f]

\* Within the two main()s: which descriptors refer to tfile.
InMain ==
  prog # "caller" =>
    /\ nextCall \notin {"call", "my_dup"}
    /\ nextCall \in {"duplicate", "my_dup2", "fcntl", "return", "write", "lseek", "close fd"} =>
         fd \in Fds /\ table[fd] \in Ofds
    /\ nextCall \in {"write", "lseek", "close fd"} => newfd \in Fds /\ table[newfd] \in Ofds
    /\ nextCall = "close newfd" =>
         fd \in Fds /\ newfd \in Fds /\ (fd # newfd => table[newfd] \in Ofds)
    /\ prog = "verify_dup" =>
         /\ nextCall \notin {"my_dup2", "fcntl", "return"}
         /\ nextCall \in {"write", "lseek", "close fd", "close newfd"} => fd # newfd
    /\ prog = "dup" =>
         /\ nextCall # "lseek"
         /\ nextCall \in {"my_dup2", "fcntl", "return"} => old = fd /\ new = Target
         /\ nextCall = "return" /\ ret # NONE => table[ret] \in Ofds

InCaller == prog = "caller" => nextCall \in {"call", "my_dup", "my_dup2", "fcntl", "return"}

DupInv == DupTypeOK /\ BelowLimit /\ InCall /\ InMain /\ InCaller /\ Dup2Contract

-----------------------------------------------------------------------------
\* The constants' ranges as the steps below use them.
LEMMA Numbers ==
  /\ MaxFd \in Nat /\ Fds \subseteq Nat /\ Args \subseteq Nat /\ Fds \subseteq Args
  /\ NONE \notin Args /\ NONE \notin Ofds /\ Target \in Fds
  /\ Limits \subseteq Nat /\ \A l \in Limits, f \in Nat : f < l => f \in Fds
BY DescriptorsAssumption DEF Fds, Args, NONE, Ofds

\* close() keeps the types, and only the descriptor closed changes.
LEMMA CloseFdTable ==
  ASSUME DupTypeOK, NEW f \in Fds, CloseFd(f)
  PROVE  /\ table' \in Tables
         /\ \A g \in Fds : table'[g] = IF g = f THEN NONE ELSE table[g]
         /\ ofd' \in [Ofds -> [off : Nat, app : BOOLEAN]]
<1>1. table' = [table EXCEPT ![f] = NONE] BY DEF CloseFd
<1>2. table' \in Tables /\ \A g \in Fds : table'[g] = IF g = f THEN NONE ELSE table[g]
  BY <1>1 DEF DupTypeOK, Tables
<1>3. Unused \in [off : Nat, app : BOOLEAN] BY DEF Unused
<1>4. ofd' \in [Ofds -> [off : Nat, app : BOOLEAN]]
  BY <1>3, Zenon DEF CloseFd, DupTypeOK
<1> QED BY <1>2, <1>4

\* F_DUPFD fails and changes nothing, or makes the lowest free descriptor from
\* min on a duplicate.
LEMMA FcntlTable ==
  ASSUME DupTypeOK, NEW f, NEW min, Fcntl_DUPFD(f, min)
  PROVE  \/ /\ ~(IsOpen(f) /\ Free(min) # {})
            /\ ret' = NONE /\ table' = table
         \/ /\ f \in Fds /\ table[f] # NONE
            /\ ret' \in Free(min) /\ \A g \in Free(min) : ret' <= g
            /\ table' \in Tables
            /\ \A g \in Fds : table'[g] = IF g = ret' THEN table[f] ELSE table[g]
<1>1. CASE ~(IsOpen(f) /\ Free(min) # {}) BY <1>1 DEF Fcntl_DUPFD
<1>2. CASE IsOpen(f) /\ Free(min) # {}
  <2>1. PICK g \in Fds : /\ IsLowest(g, Free(min))
                         /\ ret' = g /\ table' = [table EXCEPT ![g] = table[f]]
    BY <1>2 DEF Fcntl_DUPFD
  <2>2. f \in Fds /\ table[f] # NONE BY <1>2 DEF IsOpen
  <2>3. ret' \in Free(min) /\ \A h \in Free(min) : ret' <= h BY <2>1 DEF IsLowest
  <2>4. table' \in Tables /\ \A h \in Fds : table'[h] = IF h = ret' THEN table[f] ELSE table[h]
    BY <2>1, <2>2 DEF DupTypeOK, Tables
  <2> QED BY <2>2, <2>3, <2>4
<1> QED BY <1>1, <1>2

\* open() puts a description of tfile into a free descriptor below the limit.
LEMMA OpenTable ==
  ASSUME DupTypeOK, NEW f \in Fds, NEW app \in BOOLEAN, OpenTfile(f, app)
  PROVE  /\ f < limit /\ table[f] = NONE /\ table' \in Tables /\ table'[f] \in Ofds
         /\ \A g \in Fds : g # f => table'[g] = table[g]
         /\ ofd' \in [Ofds -> [off : Nat, app : BOOLEAN]]
<1>1. f < limit /\ table[f] = NONE BY DEF OpenTfile, IsLowest, Free
<1>2. PICK o \in Ofds : /\ table' = [table EXCEPT ![f] = o]
                        /\ ofd' = [ofd EXCEPT ![o] = [off |-> 0, app |-> app]]
  BY DEF OpenTfile
<1>3. table' \in Tables /\ table'[f] \in Ofds /\ \A g \in Fds : g # f => table'[g] = table[g]
  BY <1>2 DEF DupTypeOK, Tables
<1>4. ofd' \in [Ofds -> [off : Nat, app : BOOLEAN]] BY <1>2 DEF DupTypeOK
<1> QED BY <1>1, <1>3, <1>4

\* write() keeps the types.
LEMMA WriteTypes ==
  ASSUME DupTypeOK, NEW f \in Fds, table[f] \in Ofds, NEW n \in Nat, WriteFd(f, n)
  PROVE  ofd' \in [Ofds -> [off : Nat, app : BOOLEAN]] /\ size' \in Nat
<1> DEFINE o == table[f]
           end == (IF ofd[o].app THEN size ELSE ofd[o].off) + n
<1>1. ofd[o].off \in Nat /\ size \in Nat /\ ofd[o] \in [off : Nat, app : BOOLEAN]
  BY DEF DupTypeOK
<1>2. end \in Nat BY <1>1
<1>3. ofd' = [ofd EXCEPT ![o].off = end] /\ size' = IF size < end THEN end ELSE size
  BY DEF WriteFd
<1> HIDE DEF end
<1>4. size' \in Nat BY <1>1, <1>2, <1>3
<1>5. ofd' \in [Ofds -> [off : Nat, app : BOOLEAN]] BY <1>1, <1>2, <1>3 DEF DupTypeOK
<1> QED BY <1>4, <1>5

-----------------------------------------------------------------------------
\* The invariant holds at the start.
LEMMA DupInitInv == DupInit => DupInv
<1> SUFFICES ASSUME DupInit PROVE DupInv OBVIOUS
<1>1. table \in Tables /\ table0 \in Tables /\ entry \in Tables
  BY DEF DupInit, Tables
<1>2. ofd \in [Ofds -> [off : Nat, app : BOOLEAN]] BY DEF DupInit, Unused
<1>3. size \in Nat /\ size0 \in Nat BY DescriptorsAssumption DEF DupInit
<1>4. DupTypeOK BY <1>1, <1>2, <1>3 DEF DupInit, DupTypeOK
<1>5. BelowLimit BY DEF DupInit, BelowLimit
<1>6. InCall /\ InMain /\ InCaller /\ Dup2Contract
  BY DEF DupInit, InCall, InMain, InCaller, Dup2Contract
<1> QED BY <1>4, <1>5, <1>6 DEF DupInv

-----------------------------------------------------------------------------
\* my_dup()
LEMMA MyDupInv == DupInv /\ MyDup => DupInv'
<1> SUFFICES ASSUME DupInv, MyDup PROVE DupInv' OBVIOUS
<1>1. /\ DupTypeOK /\ BelowLimit /\ nextCall = "my_dup" /\ nextCall' = "return" /\ new = NONE
      /\ prog = "caller"
  BY DEF DupInv, MyDup, InCall, InMain
<1>2. UNCHANGED <<prog, limit, offset, differs, table0, size0, ofd, size, fd, newfd,
                  old, new, exit, entry>>
  BY DEF MyDup, locals
<1>3. \/ ret' = NONE /\ table' = table
      \/ /\ ret' \in Free(old) /\ table' \in Tables
         /\ \A g \in Fds : table'[g] = IF g = ret' THEN table[old] ELSE table[g]
  BY <1>1, FcntlTable DEF MyDup
<1>4. ret' \in Fds => ret' < limit \/ table' = table BY <1>3 DEF Free
<1>5. table' \in Tables /\ ret' \in Fds \union {NONE} BY <1>1, <1>3 DEF DupTypeOK, Free
<1>6. DupTypeOK' BY <1>1, <1>2, <1>5 DEF DupTypeOK
<1>7. BelowLimit' BY <1>1, <1>2, <1>3, <1>4 DEF BelowLimit
<1>8. InCall' /\ InMain' /\ InCaller' /\ Dup2Contract'
  BY <1>1, <1>2 DEF InCall, InMain, InCaller, Dup2Contract
<1> QED BY <1>6, <1>7, <1>8 DEF DupInv

\* my_dup2() with equal arguments.
LEMMA MyDup2SameInv == DupInv /\ MyDup2Same => DupInv'
<1> SUFFICES ASSUME DupInv, MyDup2Same PROVE DupInv' OBVIOUS
<1>1. /\ DupTypeOK /\ BelowLimit /\ nextCall = "my_dup2" /\ nextCall' = "return" /\ old = new
      /\ old \in Args /\ new \in Args /\ table = entry
      /\ ret' = IF IsOpen(old) THEN new ELSE NONE
  BY DEF DupInv, MyDup2Same, InCall
<1>2. UNCHANGED <<prog, limit, offset, differs, table0, size0, table, ofd, size, fd,
                  newfd, old, new, exit, entry>>
  BY DEF MyDup2Same, locals
<1>3. ret' \in Fds \union {NONE} BY <1>1 DEF IsOpen
<1>4. DupTypeOK' BY <1>1, <1>2, <1>3 DEF DupTypeOK
<1>5. BelowLimit' /\ InCall' /\ InCaller'
  BY <1>1, <1>2 DEF DupInv, BelowLimit, InCall, InCaller
<1>6. Dup2Contract'
  <2>1. IsOpen(old) <=> (old \in Fds /\ entry[old] # NONE /\ new < limit)
    BY <1>1 DEF IsOpen, BelowLimit
  <2> QED BY <1>1, <1>2, <2>1 DEF Dup2Contract
<1>7. InMain'
  <2>1. ASSUME prog = "dup" PROVE table[fd] \in Ofds /\ old = fd /\ new = fd /\ fd \in Fds
    BY <1>1, <2>1 DEF DupInv, InMain
  <2> QED BY <1>1, <1>2, <2>1 DEF DupInv, InMain, DupTypeOK
<1> QED BY <1>4, <1>5, <1>6, <1>7 DEF DupInv

\* my_dup2(): newfd is closed.
LEMMA MyDup2CloseInv == DupInv /\ MyDup2Close => DupInv'
<1> SUFFICES ASSUME DupInv, MyDup2Close PROVE DupInv' OBVIOUS
<1>1. /\ DupTypeOK /\ BelowLimit /\ nextCall = "my_dup2" /\ nextCall' = "fcntl" /\ old # new
      /\ old \in Args /\ new \in Args /\ table = entry
  BY DEF DupInv, MyDup2Close, InCall
<1>2. UNCHANGED <<prog, limit, offset, differs, table0, size0, size, fd, newfd, old,
                  new, ret, exit, entry>>
  BY DEF MyDup2Close, locals
<1>3. /\ table' \in Tables /\ ofd' \in [Ofds -> [off : Nat, app : BOOLEAN]]
      /\ \A f \in Fds : table'[f] = IF f = new THEN NONE ELSE table[f]
  <2>1. CASE IsOpen(new)
    <3>1. new \in Fds /\ CloseFd(new) BY <2>1 DEF IsOpen, MyDup2Close
    <3> QED BY <1>1, <3>1, CloseFdTable
  <2>2. CASE ~IsOpen(new)
    <3>1. table' = table /\ ofd' = ofd BY <2>2 DEF MyDup2Close
    <3>2. new \in Fds => table[new] = NONE BY <2>2 DEF IsOpen
    <3> QED BY <1>1, <3>1, <3>2 DEF DupTypeOK
  <2> QED BY <2>1, <2>2
<1>4. DupTypeOK' BY <1>1, <1>2, <1>3 DEF DupTypeOK
<1>5. BelowLimit' BY <1>1, <1>2, <1>3 DEF BelowLimit
<1>6. InCall' /\ InCaller' /\ Dup2Contract'
  BY <1>1, <1>2, <1>3 DEF DupInv, InCall, InCaller, Dup2Contract
<1>7. InMain'
  <2>1. ASSUME prog = "dup"
        PROVE  table[fd] \in Ofds /\ old = fd /\ new = Target /\ fd \in Fds
    BY <1>1, <2>1 DEF DupInv, InMain
  <2>2. prog = "dup" => table'[fd] \in Ofds BY <1>1, <1>3, <2>1
  <2> QED BY <1>1, <1>2, <2>1, <2>2 DEF DupInv, InMain, DupTypeOK
<1> QED BY <1>4, <1>5, <1>6, <1>7 DEF DupInv

\* my_dup2(): oldfd is duplicated.
LEMMA MyDup2FcntlInv == DupInv /\ MyDup2Fcntl => DupInv'
<1> SUFFICES ASSUME DupInv, MyDup2Fcntl PROVE DupInv' OBVIOUS
<1> DEFINE valid == old \in Fds /\ entry[old] # NONE /\ new < limit
<1>1. /\ DupTypeOK /\ BelowLimit /\ nextCall = "fcntl" /\ nextCall' = "return" /\ old # new
      /\ old \in Args /\ new \in Args /\ limit \in Limits
      /\ \A f \in Fds : table[f] = IF f = new THEN NONE ELSE entry[f]
  BY DEF DupInv, MyDup2Fcntl, InCall, DupTypeOK
<1>2. UNCHANGED <<prog, limit, offset, differs, table0, size0, ofd, size, fd, newfd,
                  old, new, exit, entry>>
  BY DEF MyDup2Fcntl, locals
<1>3. IsOpen(old) <=> (old \in Fds /\ entry[old] # NONE) BY <1>1 DEF IsOpen
<1>4. new < limit => new \in Free(new)
  BY <1>1, Numbers DEF Free
<1>5. ~(new < limit) => Free(new) = {}
  <2>1. ASSUME ~(new < limit), NEW f \in Fds, new <= f, f < limit PROVE FALSE
    <3>1. new \in Nat /\ f \in Nat /\ limit \in Nat BY <1>1, Numbers
    <3> QED BY <2>1, <3>1
  <2> QED BY <2>1 DEF Free
<1>6. /\ ret' = IF valid THEN new ELSE NONE
      /\ \A f \in Fds : table'[f] = IF f # new THEN entry[f]
                                    ELSE IF valid THEN entry[old] ELSE NONE
      /\ table' \in Tables
  <2>0. \/ /\ ~(IsOpen(old) /\ Free(new) # {}) /\ ret' = NONE /\ table' = table
        \/ /\ old \in Fds /\ table[old] # NONE
           /\ ret' \in Free(new) /\ \A g \in Free(new) : ret' <= g
           /\ table' \in Tables
           /\ \A g \in Fds : table'[g] = IF g = ret' THEN table[old] ELSE table[g]
    BY <1>1, FcntlTable DEF MyDup2Fcntl
  <2>1. CASE ~valid
    <3>1. ~(IsOpen(old) /\ Free(new) # {}) BY <1>3, <1>5, <2>1
    <3>2. ret' = NONE /\ table' = table BY <2>0, <3>1 DEF IsOpen
    <3> QED BY <1>1, <2>1, <3>2 DEF DupTypeOK
  <2>2. CASE valid
    <3>1. IsOpen(old) /\ new \in Free(new) BY <1>3, <1>4, <2>2
    <3>2. /\ ret' \in Free(new) /\ ret' <= new /\ table' \in Tables
          /\ \A g \in Fds : table'[g] = IF g = ret' THEN table[old] ELSE table[g]
      BY <2>0, <3>1
    <3>3. ret' \in Nat /\ new \in Nat /\ new <= ret' BY <1>1, <3>2, Numbers DEF Free
    <3>4. ret' = new BY <3>2, <3>3
    <3>5. table[old] = entry[old] BY <1>1, <2>2
    <3> QED BY <1>1, <2>2, <3>2, <3>4, <3>5
  <2> QED BY <2>1, <2>2
<1>7. valid => new \in Fds BY <1>4 DEF Free
<1>8. DupTypeOK'
  <2>1. ret' \in Fds \union {NONE} BY <1>6, <1>7
  <2> QED BY <1>1, <1>2, <1>6, <2>1 DEF DupTypeOK
<1>9. BelowLimit'
  <2>1. \A f \in Fds : f # new => table[f] = entry[f] BY <1>1
  <2> QED BY <1>1, <1>2, <1>6, <2>1 DEF BelowLimit
<1>10. InCall' /\ InCaller' BY <1>1, <1>2 DEF DupInv, InCall, InCaller
<1>11. Dup2Contract' BY <1>1, <1>2, <1>6 DEF Dup2Contract
<1>12. InMain'
  <2>1. ASSUME prog = "dup"
        PROVE  table[fd] \in Ofds /\ old = fd /\ new = Target /\ fd \in Fds
    BY <1>1, <2>1 DEF DupInv, InMain
  <2>2. ASSUME prog = "dup" PROVE table'[fd] \in Ofds /\ (ret' # NONE => table'[ret'] \in Ofds)
    <3>1. table[fd] = entry[fd] /\ entry[old] \in Ofds BY <1>1, <2>1, <2>2
    <3>2. table'[fd] = entry[fd] BY <1>1, <1>6, <2>1, <2>2
    <3>3. ret' # NONE => valid /\ ret' = new BY <1>6
    <3>4. ret' # NONE => table'[ret'] = entry[old] BY <1>6, <1>7, <3>3
    <3> QED BY <2>1, <2>2, <3>1, <3>2, <3>4
  <2> QED BY <1>1, <1>2, <2>1, <2>2 DEF DupInv, InMain, DupTypeOK
<1> QED BY <1>8, <1>9, <1>10, <1>11, <1>12 DEF DupInv

-----------------------------------------------------------------------------
\* A main() opens tfile, or ends.
LEMMA MainOpenInv == DupInv /\ MainOpen => DupInv'
<1> SUFFICES ASSUME DupInv, MainOpen PROVE DupInv' OBVIOUS
<1>1. DupTypeOK /\ BelowLimit /\ nextCall = "open" /\ prog \in {"dup", "verify_dup"}
  BY DEF DupInv, MainOpen, InCaller, DupTypeOK
<1>2. UNCHANGED <<prog, limit, offset, differs, table0, size0, size, newfd, old, new,
                  ret, entry>>
  BY DEF MainOpen, locals
<1>3. CASE /\ \E f \in Fds : OpenTfile(f, prog = "dup") /\ fd' = f
           /\ nextCall' = "duplicate" /\ UNCHANGED exit
  <2>1. PICK f \in Fds : OpenTfile(f, prog = "dup") /\ fd' = f BY <1>3
  <2>2. /\ f < limit /\ table' \in Tables /\ table'[f] \in Ofds
        /\ \A g \in Fds : g # f => table'[g] = table[g]
        /\ ofd' \in [Ofds -> [off : Nat, app : BOOLEAN]]
    BY <1>1, <2>1, OpenTable
  <2>3. DupTypeOK' BY <1>1, <1>2, <1>3, <2>1, <2>2 DEF DupTypeOK
  <2>4. BelowLimit' BY <1>1, <1>2, <2>2 DEF BelowLimit
  <2>5. InMain' BY <1>1, <1>2, <1>3, <2>1, <2>2 DEF InMain
  <2>6. InCall' /\ InCaller' /\ Dup2Contract'
    BY <1>1, <1>2, <1>3 DEF InCall, InCaller, Dup2Contract
  <2> QED BY <2>3, <2>4, <2>5, <2>6 DEF DupInv
<1>4. CASE Stop("failure") /\ UNCHANGED <<table, ofd, fd>>
  <2>1. nextCall' = "done" /\ exit' = "failure" /\ UNCHANGED <<table, ofd, fd>>
    BY <1>4 DEF Stop
  <2>2. DupTypeOK' BY <1>1, <1>2, <2>1 DEF DupTypeOK
  <2>3. BelowLimit' BY <1>1, <1>2, <2>1 DEF BelowLimit
  <2>4. InMain' /\ InCall' /\ InCaller' /\ Dup2Contract'
    BY <1>1, <1>2, <2>1 DEF InMain, InCall, InCaller, Dup2Contract
  <2> QED BY <2>2, <2>3, <2>4 DEF DupInv
<1> QED BY <1>3, <1>4 DEF MainOpen

\* A step that only ends a main() keeps the invariant.
LEMMA StopInv ==
  ASSUME DupInv, prog # "caller", nextCall' = "done", exit' \in {"success", "failure"},
         UNCHANGED <<prog, limit, table, offset, differs, table0, size0, fd, old, new,
                     entry>>,
         ofd' \in [Ofds -> [off : Nat, app : BOOLEAN]], size' \in Nat,
         newfd' \in Fds \union {NONE}, ret' \in Fds \union {NONE}
  PROVE  DupInv'
<1>1. DupTypeOK' BY DEF DupInv, DupTypeOK
<1>2. BelowLimit' BY DEF DupInv, BelowLimit
<1>3. InMain' /\ InCall' /\ InCaller' /\ Dup2Contract'
  BY DEF InMain, InCall, InCaller, Dup2Contract
<1> QED BY <1>1, <1>2, <1>3 DEF DupInv

\* main() of dup.c calls my_dup2().
LEMMA DupCallInv == DupInv /\ DupCall => DupInv'
<1> SUFFICES ASSUME DupInv, DupCall PROVE DupInv' OBVIOUS
<1>1. /\ DupTypeOK /\ BelowLimit /\ prog = "dup" /\ nextCall = "duplicate" /\ nextCall' = "my_dup2"
      /\ old' = fd /\ new' = Target /\ ret' = NONE /\ entry' = table
      /\ fd \in Fds /\ table[fd] \in Ofds
  BY DEF DupInv, DupCall, Enter, InMain
<1>2. UNCHANGED <<prog, limit, offset, differs, table0, size0, table, ofd, size, fd,
                  newfd, exit>>
  BY DEF DupCall, locals
<1>3. old' \in Args /\ new' \in Args BY <1>1, Numbers
<1>4. DupTypeOK' BY <1>1, <1>2, <1>3 DEF DupTypeOK
<1>5. BelowLimit' BY <1>1, <1>2 DEF BelowLimit
<1>6. InCall' BY <1>1, <1>2, <1>3 DEF InCall
<1>7. InMain' /\ InCaller' /\ Dup2Contract'
  BY <1>1, <1>2 DEF InMain, InCaller, Dup2Contract
<1> QED BY <1>4, <1>5, <1>6, <1>7 DEF DupInv

\* my_dup2() returns to main() of dup.c.
LEMMA DupReturnInv == DupInv /\ DupReturn => DupInv'
<1> SUFFICES ASSUME DupInv, DupReturn PROVE DupInv' OBVIOUS
<1>1. /\ DupTypeOK /\ BelowLimit /\ prog = "dup" /\ nextCall = "return"
      /\ fd \in Fds /\ table[fd] \in Ofds /\ (ret # NONE => table[ret] \in Ofds)
      /\ ret \in Fds \union {NONE}
  BY DEF DupInv, DupReturn, InMain, DupTypeOK
<1>2. UNCHANGED <<prog, limit, offset, differs, table0, size0, table, ofd, size, fd,
                  old, new, ret, entry>>
  BY DEF DupReturn, locals
<1>3. CASE ret = NONE
  <2>1. nextCall' = "done" /\ exit' = "failure" /\ newfd' = newfd
    BY <1>3 DEF DupReturn, Stop
  <2>2. ofd' \in [Ofds -> [off : Nat, app : BOOLEAN]] /\ size' \in Nat
        /\ newfd' \in Fds \union {NONE} /\ ret' \in Fds \union {NONE}
    BY <1>1, <1>2, <2>1 DEF DupTypeOK
  <2> QED BY <1>1, <1>2, <2>1, <2>2, StopInv
<1>4. CASE ret # NONE
  <2>1. newfd' = ret /\ nextCall' = "write" /\ exit' = exit BY <1>4 DEF DupReturn
  <2>2. newfd' \in Fds /\ table[newfd'] \in Ofds BY <1>1, <1>4, <2>1
  <2>3. DupTypeOK' BY <1>1, <1>2, <2>1, <2>2 DEF DupTypeOK
  <2>4. BelowLimit' BY <1>1, <1>2 DEF BelowLimit
  <2>5. InMain' BY <1>1, <1>2, <2>1, <2>2 DEF InMain
  <2>6. InCall' /\ InCaller' /\ Dup2Contract'
    BY <1>1, <1>2, <2>1 DEF InCall, InCaller, Dup2Contract
  <2> QED BY <2>3, <2>4, <2>5, <2>6 DEF DupInv
<1> QED BY <1>3, <1>4

\* dup.c writes through the duplicate.
LEMMA DupWriteInv == DupInv /\ DupWrite => DupInv'
<1> SUFFICES ASSUME DupInv, DupWrite PROVE DupInv' OBVIOUS
<1>1. /\ DupTypeOK /\ BelowLimit /\ prog = "dup" /\ nextCall = "write"
      /\ fd \in Fds /\ table[fd] \in Ofds /\ newfd \in Fds /\ table[newfd] \in Ofds
  BY DEF DupInv, DupWrite, InMain
<1>2. UNCHANGED <<prog, limit, offset, differs, table0, size0, table, fd, newfd, old,
                  new, ret, entry>>
  BY DEF DupWrite, locals
<1>3. CASE /\ \E n \in 1..TextLen : WriteFd(newfd, n)
           /\ nextCall' = "close fd" /\ UNCHANGED exit
  <2>1. PICK n \in 1..TextLen : WriteFd(newfd, n) BY <1>3
  <2>2. n \in Nat BY DescriptorsAssumption
  <2>3. ofd' \in [Ofds -> [off : Nat, app : BOOLEAN]] /\ size' \in Nat
    BY <1>1, <2>1, <2>2, WriteTypes
  <2>4. DupTypeOK' BY <1>1, <1>2, <1>3, <2>3 DEF DupTypeOK
  <2>5. BelowLimit' BY <1>1, <1>2 DEF BelowLimit
  <2>6. InMain' /\ InCall' /\ InCaller' /\ Dup2Contract'
    BY <1>1, <1>2, <1>3 DEF InMain, InCall, InCaller, Dup2Contract
  <2> QED BY <2>4, <2>5, <2>6 DEF DupInv
<1>4. CASE Stop("failure") /\ UNCHANGED <<ofd, size>>
  <2>1. nextCall' = "done" /\ exit' = "failure" /\ ofd' = ofd /\ size' = size
    BY <1>4 DEF Stop
  <2>2. ofd' \in [Ofds -> [off : Nat, app : BOOLEAN]] /\ size' \in Nat
        /\ newfd' \in Fds \union {NONE} /\ ret' \in Fds \union {NONE}
    BY <1>1, <1>2, <2>1 DEF DupTypeOK
  <2> QED BY <1>1, <1>2, <2>1, <2>2, StopInv
<1> QED BY <1>3, <1>4 DEF DupWrite

\* verify_dup.c duplicates fd: the duplicate was free, so it is not fd.
LEMMA VerifyDupInv == DupInv /\ VerifyDup => DupInv'
<1> SUFFICES ASSUME DupInv, VerifyDup PROVE DupInv' OBVIOUS
<1>1. /\ DupTypeOK /\ BelowLimit /\ prog = "verify_dup" /\ nextCall = "duplicate"
      /\ fd \in Fds /\ table[fd] \in Ofds /\ newfd' = ret' /\ Fcntl_DUPFD(fd, 0)
  BY DEF DupInv, VerifyDup, InMain
<1>2. UNCHANGED <<prog, limit, offset, differs, table0, size0, ofd, size, fd, old, new,
                  entry>>
  BY DEF VerifyDup, locals
<1>3. \/ ret' = NONE /\ table' = table
      \/ /\ ret' \in Free(0) /\ table' \in Tables
         /\ \A g \in Fds : table'[g] = IF g = ret' THEN table[fd] ELSE table[g]
  BY <1>1, FcntlTable
<1>4. CASE ret' = NONE
  <2>1. NONE \notin Free(0) BY Numbers DEF Free
  <2>2. nextCall' = "done" /\ exit' = "failure" /\ table' = table
    BY <1>3, <1>4, <2>1 DEF VerifyDup, Stop
  <2>3. ofd' \in [Ofds -> [off : Nat, app : BOOLEAN]] /\ size' \in Nat
        /\ newfd' \in Fds \union {NONE} /\ ret' \in Fds \union {NONE}
    BY <1>1, <1>2, <1>4 DEF DupTypeOK
  <2> QED BY <1>1, <1>2, <2>2, <2>3, StopInv
<1>5. CASE ret' # NONE
  <2>1. nextCall' = "write" /\ exit' = exit BY <1>5 DEF VerifyDup
  <2>2. /\ ret' \in Fds /\ ret' < limit /\ table[ret'] = NONE /\ table' \in Tables
        /\ \A g \in Fds : table'[g] = IF g = ret' THEN table[fd] ELSE table[g]
    BY <1>3, <1>5 DEF Free
  <2>3. fd # ret' /\ table'[fd] \in Ofds /\ table'[ret'] \in Ofds
    BY <1>1, <2>2, Numbers
  <2>4. DupTypeOK' BY <1>1, <1>2, <2>1, <2>2 DEF DupTypeOK
  <2>5. BelowLimit' BY <1>1, <1>2, <2>2 DEF BelowLimit
  <2>6. InMain' BY <1>1, <1>2, <2>1, <2>2, <2>3 DEF InMain
  <2>7. InCall' /\ InCaller' /\ Dup2Contract'
    BY <1>1, <1>2, <2>1 DEF InCall, InCaller, Dup2Contract
  <2> QED BY <2>4, <2>5, <2>6, <2>7 DEF DupInv
<1> QED BY <1>4, <1>5

\* verify_dup.c writes through the original.
LEMMA VerifyWriteInv == DupInv /\ VerifyWrite => DupInv'
<1> SUFFICES ASSUME DupInv, VerifyWrite PROVE DupInv' OBVIOUS
<1>1. /\ DupTypeOK /\ BelowLimit /\ prog = "verify_dup" /\ nextCall = "write" /\ fd # newfd
      /\ fd \in Fds /\ table[fd] \in Ofds /\ newfd \in Fds /\ table[newfd] \in Ofds
  BY DEF DupInv, VerifyWrite, InMain
<1>2. UNCHANGED <<prog, limit, offset, differs, table0, size0, table, fd, newfd, old,
                  new, ret, entry>>
  BY DEF VerifyWrite, locals
<1>3. CASE WriteFd(fd, TextLen) /\ nextCall' = "lseek" /\ UNCHANGED exit
  <2>1. TextLen \in Nat BY DescriptorsAssumption
  <2>2. ofd' \in [Ofds -> [off : Nat, app : BOOLEAN]] /\ size' \in Nat
    BY <1>1, <1>3, <2>1, WriteTypes
  <2>3. DupTypeOK' BY <1>1, <1>2, <1>3, <2>2 DEF DupTypeOK
  <2>4. BelowLimit' BY <1>1, <1>2 DEF BelowLimit
  <2>5. InMain' /\ InCall' /\ InCaller' /\ Dup2Contract'
    BY <1>1, <1>2, <1>3 DEF InMain, InCall, InCaller, Dup2Contract
  <2> QED BY <2>3, <2>4, <2>5 DEF DupInv
<1>4. CASE (\E n \in 0..(TextLen - 1) : WriteFd(fd, n)) /\ Stop("failure")
  <2>1. PICK n \in 0..(TextLen - 1) : WriteFd(fd, n) BY <1>4
  <2>2. n \in Nat BY DescriptorsAssumption
  <2>3. ofd' \in [Ofds -> [off : Nat, app : BOOLEAN]] /\ size' \in Nat
    BY <1>1, <2>1, <2>2, WriteTypes
  <2>4. nextCall' = "done" /\ exit' = "failure" BY <1>4 DEF Stop
  <2>5. newfd' \in Fds \union {NONE} /\ ret' \in Fds \union {NONE}
    BY <1>1, <1>2 DEF DupTypeOK
  <2> QED BY <1>1, <1>2, <2>3, <2>4, <2>5, StopInv
<1> QED BY <1>3, <1>4 DEF VerifyWrite

\* verify_dup.c compares.
LEMMA VerifyLseekInv == DupInv /\ VerifyLseek => DupInv'
<1> SUFFICES ASSUME DupInv, VerifyLseek PROVE DupInv' OBVIOUS
<1>1. /\ DupTypeOK /\ BelowLimit /\ prog = "verify_dup" /\ nextCall = "lseek" /\ fd # newfd
      /\ fd \in Fds /\ table[fd] \in Ofds /\ newfd \in Fds /\ table[newfd] \in Ofds
      /\ nextCall' = "close fd"
  BY DEF DupInv, VerifyLseek, InMain
<1>2. UNCHANGED <<prog, limit, table0, size0, table, ofd, size, fd, newfd, old, new,
                  ret, exit, entry>>
  BY DEF VerifyLseek
<1>3. offset' \in Nat BY <1>1 DEF VerifyLseek, DupTypeOK
<1>4. differs' \in BOOLEAN BY DEF VerifyLseek
<1>5. DupTypeOK' BY <1>1, <1>2, <1>3, <1>4 DEF DupTypeOK
<1>6. BelowLimit' BY <1>1, <1>2 DEF BelowLimit
<1>7. InMain' /\ InCall' /\ InCaller' /\ Dup2Contract'
  BY <1>1, <1>2 DEF InMain, InCall, InCaller, Dup2Contract
<1> QED BY <1>5, <1>6, <1>7 DEF DupInv

\* The first close() of a main().
LEMMA CloseOldInv == DupInv /\ CloseOld => DupInv'
<1> SUFFICES ASSUME DupInv, CloseOld PROVE DupInv' OBVIOUS
<1>1. /\ DupTypeOK /\ BelowLimit /\ prog \in {"dup", "verify_dup"} /\ nextCall = "close fd"
      /\ fd \in Fds /\ newfd \in Fds /\ table[newfd] \in Ofds
      /\ (prog = "verify_dup" => fd # newfd)
  BY DEF DupInv, CloseOld, InMain, InCaller, DupTypeOK
<1>2. UNCHANGED <<prog, limit, offset, differs, table0, size0, size, fd, newfd, old,
                  new, ret, entry>>
  BY DEF CloseOld, locals
<1>3. CASE IsOpen(fd) /\ CloseFd(fd) /\ nextCall' = "close newfd" /\ UNCHANGED exit
  <2>1. /\ table' \in Tables
        /\ \A g \in Fds : table'[g] = IF g = fd THEN NONE ELSE table[g]
        /\ ofd' \in [Ofds -> [off : Nat, app : BOOLEAN]]
    BY <1>1, <1>3, CloseFdTable
  <2>2. DupTypeOK' BY <1>1, <1>2, <1>3, <2>1 DEF DupTypeOK
  <2>3. BelowLimit' BY <1>1, <1>2, <2>1 DEF BelowLimit
  <2>4. InMain' BY <1>1, <1>2, <1>3, <2>1 DEF InMain
  <2>5. InCall' /\ InCaller' /\ Dup2Contract'
    BY <1>1, <1>2, <1>3 DEF InCall, InCaller, Dup2Contract
  <2> QED BY <2>2, <2>3, <2>4, <2>5 DEF DupInv
<1>4. CASE Stop("failure") /\ UNCHANGED <<table, ofd>>
  <2>1. nextCall' = "done" /\ exit' = "failure" /\ table' = table /\ ofd' = ofd
    BY <1>4 DEF Stop
  <2>2. ofd' \in [Ofds -> [off : Nat, app : BOOLEAN]] /\ size' \in Nat
        /\ newfd' \in Fds \union {NONE} /\ ret' \in Fds \union {NONE}
    BY <1>1, <1>2, <2>1 DEF DupTypeOK
  <2> QED BY <1>1, <1>2, <2>1, <2>2, StopInv
<1> QED BY <1>3, <1>4 DEF CloseOld

\* The second close() of a main(), or none.
LEMMA CloseNewInv == DupInv /\ CloseNew => DupInv'
<1> SUFFICES ASSUME DupInv, CloseNew PROVE DupInv' OBVIOUS
<1>1. /\ DupTypeOK /\ BelowLimit /\ prog \in {"dup", "verify_dup"} /\ nextCall = "close newfd"
      /\ newfd \in Fds
  BY DEF DupInv, CloseNew, InMain, InCaller, DupTypeOK
<1>2. UNCHANGED <<prog, limit, offset, differs, table0, size0, size, fd, newfd, old,
                  new, ret, entry>>
  BY DEF CloseNew, locals
<1>3. nextCall' = "done" /\ exit' \in {"success", "failure"} BY DEF CloseNew, Stop
<1>4. CASE CloseFd(newfd)
  <2>1. /\ table' \in Tables
        /\ \A g \in Fds : table'[g] = IF g = newfd THEN NONE ELSE table[g]
        /\ ofd' \in [Ofds -> [off : Nat, app : BOOLEAN]]
    BY <1>1, <1>4, CloseFdTable
  <2>2. DupTypeOK' BY <1>1, <1>2, <1>3, <2>1 DEF DupTypeOK
  <2>3. BelowLimit' BY <1>1, <1>2, <2>1 DEF BelowLimit
  <2>4. InMain' /\ InCall' /\ InCaller' /\ Dup2Contract'
    BY <1>1, <1>2, <1>3 DEF InMain, InCall, InCaller, Dup2Contract
  <2> QED BY <2>2, <2>3, <2>4 DEF DupInv
<1>5. CASE UNCHANGED <<table, ofd>>
  <2>1. ofd' \in [Ofds -> [off : Nat, app : BOOLEAN]] /\ size' \in Nat
        /\ newfd' \in Fds \union {NONE} /\ ret' \in Fds \union {NONE}
    BY <1>1, <1>2, <1>5 DEF DupTypeOK
  <2> QED BY <1>1, <1>2, <1>3, <1>5, <2>1, StopInv
<1> QED BY <1>4, <1>5 DEF CloseNew

-----------------------------------------------------------------------------
\* Any other code opens, closes and calls.
LEMMA CallInv == DupInv /\ Call => DupInv'
<1> SUFFICES ASSUME DupInv, Call PROVE DupInv' OBVIOUS
<1>1. DupTypeOK /\ BelowLimit /\ prog = "caller" /\ nextCall = "call" BY DEF DupInv, Call
<1>2. UNCHANGED <<prog, limit, offset, differs, table0, size0, size, fd, newfd, exit>>
  BY DEF Call, locals
<1>3. CASE /\ \E f \in Fds, app \in BOOLEAN : OpenTfile(f, app)
           /\ UNCHANGED <<old, new, ret, entry, nextCall>>
  <2>1. PICK f \in Fds, app \in BOOLEAN : OpenTfile(f, app) BY <1>3
  <2>2. /\ f < limit /\ table' \in Tables
        /\ \A g \in Fds : g # f => table'[g] = table[g]
        /\ ofd' \in [Ofds -> [off : Nat, app : BOOLEAN]]
    BY <1>1, <2>1, OpenTable
  <2>3. DupTypeOK' BY <1>1, <1>2, <1>3, <2>2 DEF DupTypeOK
  <2>4. BelowLimit' BY <1>1, <1>2, <2>2 DEF BelowLimit
  <2>5. InMain' /\ InCall' /\ InCaller' /\ Dup2Contract'
    BY <1>1, <1>2, <1>3 DEF InMain, InCall, InCaller, Dup2Contract
  <2> QED BY <2>3, <2>4, <2>5 DEF DupInv
<1>4. CASE /\ \E f \in Fds : IsOpen(f) /\ CloseFd(f)
           /\ UNCHANGED <<old, new, ret, entry, nextCall>>
  <2>1. PICK f \in Fds : CloseFd(f) BY <1>4
  <2>2. /\ table' \in Tables
        /\ \A g \in Fds : table'[g] = IF g = f THEN NONE ELSE table[g]
        /\ ofd' \in [Ofds -> [off : Nat, app : BOOLEAN]]
    BY <1>1, <2>1, CloseFdTable
  <2>3. DupTypeOK' BY <1>1, <1>2, <1>4, <2>2 DEF DupTypeOK
  <2>4. BelowLimit' BY <1>1, <1>2, <2>2 DEF BelowLimit
  <2>5. InMain' /\ InCall' /\ InCaller' /\ Dup2Contract'
    BY <1>1, <1>2, <1>4 DEF InMain, InCall, InCaller, Dup2Contract
  <2> QED BY <2>3, <2>4, <2>5 DEF DupInv
<1>5. CASE /\ \/ \E f \in Args : Enter(f, NONE, "my_dup")
              \/ \E f, g \in Args : Enter(f, g, "my_dup2")
           /\ UNCHANGED <<table, ofd>>
  <2>1. /\ old' \in Args /\ ret' = NONE /\ entry' = table /\ table' = table /\ ofd' = ofd
        /\ \/ nextCall' = "my_dup" /\ new' = NONE
           \/ nextCall' = "my_dup2" /\ new' \in Args
    BY <1>5 DEF Enter
  <2>2. DupTypeOK' BY <1>1, <1>2, <2>1 DEF DupTypeOK
  <2>3. BelowLimit' BY <1>1, <1>2, <2>1 DEF BelowLimit
  <2>4. InMain' /\ InCall' /\ InCaller' /\ Dup2Contract'
    BY <1>1, <1>2, <2>1 DEF InMain, InCall, InCaller, Dup2Contract
  <2> QED BY <2>2, <2>3, <2>4 DEF DupInv
<1> QED BY <1>3, <1>4, <1>5 DEF Call

\* It takes the result of a call.
LEMMA CallReturnInv == DupInv /\ CallReturn => DupInv'
<1> SUFFICES ASSUME DupInv, CallReturn PROVE DupInv' OBVIOUS
<1>1. /\ DupTypeOK /\ BelowLimit /\ prog = "caller" /\ nextCall' = "call" /\ ret' = NONE
      /\ old' = NONE /\ new' = NONE /\ entry' = table0
  BY DEF DupInv, CallReturn
<1>2. UNCHANGED <<prog, limit, offset, differs, table0, size0, table, ofd, size, fd,
                  newfd, exit>>
  BY DEF CallReturn, locals
<1>3. DupTypeOK' BY <1>1, <1>2 DEF DupTypeOK
<1>4. BelowLimit' BY <1>1, <1>2 DEF BelowLimit
<1>5. InMain' /\ InCall' /\ InCaller' /\ Dup2Contract'
  BY <1>1, <1>2 DEF InMain, InCall, InCaller, Dup2Contract
<1> QED BY <1>3, <1>4, <1>5 DEF DupInv

-----------------------------------------------------------------------------
\* Every step preserves the invariant.
LEMMA DupNextInv == DupInv /\ [DupNext]_dupVars => DupInv'
<1>1. DupInv /\ UNCHANGED dupVars => DupInv'
  <2> SUFFICES ASSUME DupInv, UNCHANGED dupVars PROVE DupInv' OBVIOUS
  <2>1. UNCHANGED <<prog, limit, table, ofd, size, nextCall, fd, newfd, old, new, ret, offset,
                    differs, exit, table0, size0, entry>>
    BY DEF dupVars
  <2>2. DupTypeOK'
    <3>1. DupTypeOK BY DEF DupInv
    <3>2. (nextCall \in {"write", "lseek", "close fd", "close newfd"} => newfd \in Fds)'
      BY <2>1, <3>1 DEF DupTypeOK
    <3>3. differs' \in BOOLEAN BY <2>1, <3>1, Zenon DEF DupTypeOK
    <3>4. /\ prog' \in {"dup", "verify_dup", "caller"}
          /\ exit' \in {"none", "success", "failure"}
          /\ nextCall' \in {"open", "duplicate", "my_dup", "my_dup2", "fcntl", "return",
                      "write", "lseek", "close fd", "close newfd", "call", "done"}
      BY <2>1, <3>1 DEF DupTypeOK
    <3> QED BY <2>1, <3>1, <3>2, <3>3, <3>4, Zenon DEF DupTypeOK
  <2>3. BelowLimit' BY <2>1 DEF DupInv, BelowLimit
  <2>4. InCall' BY <2>1 DEF DupInv, InCall
  <2>5. InMain' BY <2>1 DEF DupInv, InMain
  <2>6. InCaller' BY <2>1 DEF DupInv, InCaller
  <2>7. Dup2Contract' BY <2>1 DEF DupInv, Dup2Contract
  <2> QED BY <2>2, <2>3, <2>4, <2>5, <2>6, <2>7 DEF DupInv
<1> QED
  BY <1>1, MyDupInv, MyDup2SameInv, MyDup2CloseInv, MyDup2FcntlInv, MainOpenInv,
     CloseOldInv, CloseNewInv, DupCallInv, DupReturnInv, DupWriteInv,
     VerifyDupInv, VerifyWriteInv, VerifyLseekInv, CallInv, CallReturnInv
  DEF DupNext, Ended

\* The invariant above is one of the specification.
THEOREM DupInvariance == DupSpec => []DupInv
BY DupInitInv, DupNextInv, PTL DEF DupSpec

\* Every variable stays in its range: in particular no main() of dup.c or
\* verify_dup.c uses a newfd that is -1.
THEOREM DupTypeCorrect == DupSpec => []DupTypeOK
<1>1. DupInv => DupTypeOK BY DEF DupInv
<1> QED BY <1>1, DupInvariance, PTL

\* my_dup2() is dup2() whenever oldfd is open and newfd below the limit,
\* whatever the table was; otherwise it returns -1 and has closed newfd only.
THEOREM Dup2IsDup2 == DupSpec => []Dup2Contract
<1>1. DupInv => Dup2Contract BY DEF DupInv
<1> QED BY <1>1, DupInvariance, PTL

\* Neither main() closes a descriptor twice, wherever the inherited table made
\* open() and my_dup2() put fd and newfd.
THEOREM NothingClosedTwice == DupSpec => []ClosesOnce
<1>1. ASSUME DupInv PROVE ClosesOnce
  <2>1. nextCall \in {"close fd", "close newfd"} => prog \in {"dup", "verify_dup"}
    BY <1>1 DEF DupInv, InCaller, DupTypeOK
  <2>2. nextCall = "close fd" => fd \in Fds /\ table[fd] \in Ofds
    BY <1>1, <2>1 DEF DupInv, InMain
  <2>3. nextCall = "close newfd" => newfd \in Fds /\ (fd # newfd => table[newfd] \in Ofds)
    BY <1>1, <2>1 DEF DupInv, InMain
  <2>4. nextCall = "close newfd" /\ prog = "verify_dup" => fd # newfd
    BY <1>1 DEF DupInv, InMain
  <2> QED BY <2>1, <2>2, <2>3, <2>4, Numbers DEF ClosesOnce, IsOpen
<1> QED BY <1>1, DupInvariance, PTL

-----------------------------------------------------------------------------
(* What a main() has done to its table and to tfile, step by step.          *)

InUse == {"duplicate", "my_dup2", "fcntl", "return", "write", "lseek", "close fd", "close newfd"}

\* The second descriptor a main() uses: 10 in dup.c, newfd in verify_dup.c.
Second == IF prog = "dup" THEN Target ELSE newfd

\* Apart from fd, which was free, and the second descriptor, the table is the
\* one at the start.
TableUse ==
  prog # "caller" =>
    /\ nextCall = "open" => table = table0 /\ newfd = NONE
    /\ nextCall \in InUse => table0[fd] = NONE
    /\ nextCall \in InUse => \A f \in Fds : f # fd /\ f # Second => table[f] = table0[f]
    /\ prog = "dup" /\ nextCall \in {"write", "close fd", "close newfd"} => newfd = Target
    /\ prog = "verify_dup" /\ nextCall \in {"write", "lseek", "close fd", "close newfd"} =>
         table0[newfd] = NONE
    /\ prog = "verify_dup" /\ nextCall = "duplicate" => newfd = NONE
    /\ nextCall = "close newfd" => table[fd] = NONE

\* fd and newfd refer to one description, and what that holds.
FileUse ==
  prog # "caller" =>
    /\ nextCall \in {"write", "lseek", "close fd"} => table[newfd] = table[fd]
    /\ prog = "dup" /\ nextCall = "return" /\ ret # NONE => ret = Target /\ table[ret] = table[fd]
    /\ prog = "dup" /\ nextCall \in {"duplicate", "my_dup2", "fcntl", "return", "write"} =>
         ofd[table[fd]].app
    /\ nextCall \in {"open", "duplicate", "my_dup2", "fcntl", "return", "write"} => size = size0
    /\ prog = "dup" /\ nextCall = "close fd" => ofd[table[fd]].off = size /\ size > size0
    /\ prog = "dup" /\ nextCall = "close newfd" /\ fd # newfd =>
         ofd[table[newfd]].off = size /\ size > size0
    /\ prog = "verify_dup" /\ nextCall \in {"duplicate", "write"} =>
         ofd[table[fd]].off = 0 /\ ~ofd[table[fd]].app
    /\ prog = "verify_dup" /\ nextCall = "lseek" => ofd[table[fd]].off = TextLen
    /\ prog = "verify_dup" /\ nextCall \in {"close fd", "close newfd"} => offset = TextLen

Ending ==
  /\ exit # "none" <=> nextCall = "done"
  /\ prog = "caller" => exit = "none"
  /\ LeavesNothingOpen /\ VerifiesDuplicates

UseInv == DupInv /\ TableUse /\ FileUse /\ Ending

\* close() keeps a description that another descriptor refers to.
LEMMA CloseFdKeeps ==
  ASSUME DupTypeOK, NEW f \in Fds, CloseFd(f), NEW g \in Fds, g # f, table[g] \in Ofds
  PROVE  ofd'[table[g]] = ofd[table[g]]
BY Zenon DEF CloseFd

\* What open() puts into the new description.
LEMMA OpenFile ==
  ASSUME DupTypeOK, NEW f \in Fds, NEW app \in BOOLEAN, OpenTfile(f, app)
  PROVE  table'[f] \in Ofds /\ ofd'[table'[f]].off = 0 /\ ofd'[table'[f]].app = app
<1>1. PICK o \in Ofds : /\ table' = [table EXCEPT ![f] = o]
                        /\ ofd' = [ofd EXCEPT ![o] = [off |-> 0, app |-> app]]
  BY DEF OpenTfile
<1>2. table'[f] = o BY <1>1 DEF DupTypeOK, Tables
<1>3. ofd'[o] = [off |-> 0, app |-> app] BY <1>1 DEF DupTypeOK
<1>4. ofd'[o].off = 0 /\ ofd'[o].app = app BY <1>3
<1> QED BY <1>2, <1>4

\* What write() does to the description and to the size.
LEMMA WriteFile ==
  ASSUME DupTypeOK, NEW f \in Fds, table[f] \in Ofds, NEW n \in Nat, WriteFd(f, n)
  PROVE  /\ ofd'[table[f]].off = (IF ofd[table[f]].app THEN size ELSE ofd[table[f]].off) + n
         /\ ofd[table[f]].app => size' = size + n
<1> DEFINE o == table[f]
           end == (IF ofd[o].app THEN size ELSE ofd[o].off) + n
<1>1. ofd[o].off \in Nat /\ size \in Nat /\ ofd[o] \in [off : Nat, app : BOOLEAN]
  BY DEF DupTypeOK
<1>2. ofd' = [ofd EXCEPT ![o].off = end] /\ size' = IF size < end THEN end ELSE size
  BY DEF WriteFd
<1>3. ofd'[o].off = end
  <2> HIDE DEF end
  <2> QED BY <1>1, <1>2 DEF DupTypeOK
<1>4. ofd[o].app => size' = size + n BY <1>1, <1>2
<1> QED BY <1>3, <1>4

\* These facts hold at the start.
LEMMA InitUse == DupInit => UseInv
<1> SUFFICES ASSUME DupInit PROVE UseInv OBVIOUS
<1>1. DupInv BY DupInitInv
<1>2. TableUse BY DEF DupInit, TableUse, InUse
<1>3. FileUse BY DEF DupInit, FileUse
<1>4. Ending BY DEF DupInit, Ending, LeavesNothingOpen, VerifiesDuplicates
<1> QED BY <1>1, <1>2, <1>3, <1>4 DEF UseInv

\* A caller that is neither main() keeps them.
LEMMA CallerUse ==
  ASSUME UseInv, prog = "caller", UNCHANGED <<prog, exit, differs>>, nextCall' # "done"
  PROVE  TableUse' /\ FileUse' /\ Ending'
BY DEF UseInv, TableUse, FileUse, Ending, LeavesNothingOpen, VerifiesDuplicates

\* So does a step by which a main() fails.
LEMMA FailUse ==
  ASSUME UseInv, prog # "caller", nextCall' = "done", exit' = "failure", UNCHANGED <<prog, differs>>
  PROVE  TableUse' /\ FileUse' /\ Ending'
BY DEF UseInv, TableUse, FileUse, Ending, LeavesNothingOpen, VerifiesDuplicates, InUse

\* my_dup2() with equal arguments, called by a main().
LEMMA MyDup2SameUse == UseInv /\ MyDup2Same => TableUse' /\ FileUse' /\ Ending'
<1> SUFFICES ASSUME UseInv, MyDup2Same PROVE TableUse' /\ FileUse' /\ Ending' OBVIOUS
<1>1. /\ nextCall = "my_dup2" /\ nextCall' = "return" /\ old = new /\ ret' = IF IsOpen(old) THEN new ELSE NONE
      /\ UNCHANGED <<prog, limit, offset, differs, table0, size0, table, ofd, size, fd,
                     newfd, old, new, exit, entry>>
  BY DEF MyDup2Same, locals
<1>2. CASE prog = "caller" BY <1>1, <1>2, CallerUse
<1>3. CASE prog # "caller"
  <2>1. prog = "dup" /\ old = fd /\ new = Target /\ fd = Target
    BY <1>1, <1>3 DEF UseInv, DupInv, InMain, DupTypeOK
  <2>2. TableUse' BY <1>1, <1>3, <2>1 DEF UseInv, TableUse, InUse, Second
  <2>3. FileUse' BY <1>1, <1>3, <2>1 DEF UseInv, FileUse
  <2>4. Ending' BY <1>1 DEF UseInv, Ending, LeavesNothingOpen, VerifiesDuplicates
  <2> QED BY <2>2, <2>3, <2>4
<1> QED BY <1>2, <1>3

\* my_dup2() closes the second descriptor, which is not fd.
LEMMA MyDup2CloseUse == UseInv /\ MyDup2Close => TableUse' /\ FileUse' /\ Ending'
<1> SUFFICES ASSUME UseInv, MyDup2Close PROVE TableUse' /\ FileUse' /\ Ending' OBVIOUS
<1>1. /\ nextCall = "my_dup2" /\ nextCall' = "fcntl" /\ old # new /\ DupTypeOK
      /\ UNCHANGED <<prog, limit, offset, differs, table0, size0, size, fd, newfd, old,
                  new, ret, exit, entry>>
  BY DEF MyDup2Close, locals, UseInv, DupInv
<1>2. CASE prog = "caller" BY <1>1, <1>2, CallerUse
<1>3. CASE prog # "caller"
  <2>1. /\ prog = "dup" /\ old = fd /\ new = Target /\ fd # Target
        /\ fd \in Fds /\ table[fd] \in Ofds /\ Target \in Fds
    BY <1>1, <1>3, Numbers DEF UseInv, DupInv, InMain, DupTypeOK
  <2>2. /\ \A f \in Fds : f # Target => table'[f] = table[f]
        /\ ofd'[table[fd]] = ofd[table[fd]]
    <3>1. CASE IsOpen(new)
      <4>1. CloseFd(Target) BY <2>1, <3>1 DEF MyDup2Close
      <4> QED BY <1>1, <2>1, <4>1, CloseFdTable, CloseFdKeeps
    <3>2. CASE ~IsOpen(new) BY <3>2 DEF MyDup2Close
    <3> QED BY <3>1, <3>2
  <2>3. TableUse' BY <1>1, <1>3, <2>1, <2>2 DEF UseInv, TableUse, InUse, Second
  <2>4. FileUse' BY <1>1, <1>3, <2>1, <2>2 DEF UseInv, FileUse
  <2>5. Ending' BY <1>1 DEF UseInv, Ending, LeavesNothingOpen, VerifiesDuplicates
  <2> QED BY <2>3, <2>4, <2>5
<1> QED BY <1>2, <1>3

\* my_dup2() duplicates fd.
LEMMA MyDup2FcntlUse == UseInv /\ MyDup2Fcntl => TableUse' /\ FileUse' /\ Ending'
<1> SUFFICES ASSUME UseInv, MyDup2Fcntl PROVE TableUse' /\ FileUse' /\ Ending' OBVIOUS
<1>1. /\ nextCall = "fcntl" /\ nextCall' = "return" /\ old # new
      /\ UNCHANGED <<prog, limit, offset, differs, table0, size0, ofd, size, fd, newfd,
                     old, new, exit, entry>>
      /\ \A f \in Fds : table[f] = IF f = new THEN NONE ELSE entry[f]
  BY DEF MyDup2Fcntl, locals, UseInv, DupInv, InCall
<1>2. CASE prog = "caller" BY <1>1, <1>2, CallerUse
<1>3. CASE prog # "caller"
  <2>1. /\ prog = "dup" /\ old = fd /\ new = Target /\ fd # Target
        /\ fd \in Fds /\ table[fd] \in Ofds /\ Target \in Fds /\ Target # NONE
    BY <1>1, <1>3, Numbers DEF UseInv, DupInv, InMain, DupTypeOK
  <2>2. Dup2Contract' BY MyDup2FcntlInv DEF UseInv, DupInv
  <2>3. /\ ret' \in {Target, NONE}
        /\ \A f \in Fds : f # Target => table'[f] = entry[f]
        /\ ret' # NONE => table'[Target] = entry[fd]
    BY <1>1, <2>1, <2>2 DEF Dup2Contract
  <2>4. /\ \A f \in Fds : f # Target => table'[f] = table[f]
        /\ ret' # NONE => table'[Target] = table[fd]
    BY <1>1, <2>1, <2>3
  <2>5. TableUse' BY <1>1, <1>3, <2>1, <2>4 DEF UseInv, TableUse, InUse, Second
  <2>6. FileUse' BY <1>1, <1>3, <2>1, <2>3, <2>4 DEF UseInv, FileUse
  <2>7. Ending' BY <1>1 DEF UseInv, Ending, LeavesNothingOpen, VerifiesDuplicates
  <2> QED BY <2>5, <2>6, <2>7
<1> QED BY <1>2, <1>3

\* A main() opens tfile.
LEMMA MainOpenUse == UseInv /\ MainOpen => TableUse' /\ FileUse' /\ Ending'
<1> SUFFICES ASSUME UseInv, MainOpen PROVE TableUse' /\ FileUse' /\ Ending' OBVIOUS
<1>1. /\ DupTypeOK /\ nextCall = "open" /\ prog # "caller" /\ prog \in {"dup", "verify_dup"}
      /\ UNCHANGED <<prog, limit, offset, differs, table0, size0, size, newfd, old, new,
                     ret, entry>>
  BY DEF UseInv, DupInv, MainOpen, InCaller, DupTypeOK, locals
<1>2. CASE /\ \E f \in Fds : OpenTfile(f, prog = "dup") /\ fd' = f
           /\ nextCall' = "duplicate" /\ UNCHANGED exit
  <2>1. PICK f \in Fds : OpenTfile(f, prog = "dup") /\ fd' = f BY <1>2
  <2>2. /\ table[f] = NONE /\ \A g \in Fds : g # f => table'[g] = table[g]
    BY <1>1, <2>1, OpenTable
  <2>3. newfd = NONE BY <1>1 DEF UseInv, TableUse
  <2>4. TableUse' BY <1>1, <1>2, <2>1, <2>2, <2>3 DEF UseInv, TableUse, InUse, Second
  <2>5. FileUse'
    <3> DEFINE appending == prog = "dup"
    <3>0. appending \in BOOLEAN /\ OpenTfile(f, appending) BY <2>1
    <3> HIDE DEF appending
    <3>1. ofd'[table'[f]].off = 0 /\ ofd'[table'[f]].app = appending BY <1>1, <3>0, OpenFile
    <3> USE DEF appending
    <3> QED BY <1>1, <1>2, <2>1, <3>1 DEF UseInv, FileUse
  <2>6. Ending' BY <1>1, <1>2 DEF UseInv, Ending, LeavesNothingOpen, VerifiesDuplicates
  <2> QED BY <2>4, <2>5, <2>6
<1>3. CASE Stop("failure") BY <1>1, <1>3, FailUse DEF Stop
<1> QED BY <1>2, <1>3 DEF MainOpen

\* dup.c calls my_dup2() and takes its result.
LEMMA DupCallUse == UseInv /\ DupCall => TableUse' /\ FileUse' /\ Ending'
<1> SUFFICES ASSUME UseInv, DupCall PROVE TableUse' /\ FileUse' /\ Ending' OBVIOUS
<1>1. /\ nextCall = "duplicate" /\ nextCall' = "my_dup2" /\ prog = "dup" /\ ret' = NONE
      /\ UNCHANGED <<prog, limit, offset, differs, table0, size0, size, table, ofd, fd,
                     newfd, exit>>
  BY DEF DupCall, Enter, locals
<1>2. TableUse' BY <1>1 DEF UseInv, TableUse, InUse, Second
<1>3. FileUse' BY <1>1 DEF UseInv, FileUse
<1>4. Ending' BY <1>1 DEF UseInv, Ending, LeavesNothingOpen, VerifiesDuplicates
<1> QED BY <1>2, <1>3, <1>4

LEMMA DupReturnUse == UseInv /\ DupReturn => TableUse' /\ FileUse' /\ Ending'
<1> SUFFICES ASSUME UseInv, DupReturn PROVE TableUse' /\ FileUse' /\ Ending' OBVIOUS
<1>1. /\ nextCall = "return" /\ prog = "dup"
      /\ UNCHANGED <<prog, limit, offset, differs, table0, size0, size, table, ofd, fd,
                     old, new, ret, entry>>
  BY DEF DupReturn, locals
<1>2. CASE ret = NONE BY <1>1, <1>2, FailUse DEF DupReturn, Stop
<1>3. CASE ret # NONE
  <2>1. newfd' = ret /\ nextCall' = "write" /\ exit' = exit BY <1>3 DEF DupReturn
  <2>2. ret = Target /\ table[ret] = table[fd] BY <1>1, <1>3 DEF UseInv, FileUse
  <2>3. TableUse' BY <1>1, <2>1, <2>2 DEF UseInv, TableUse, InUse, Second
  <2>4. FileUse' BY <1>1, <2>1, <2>2 DEF UseInv, FileUse
  <2>5. Ending' BY <1>1, <2>1 DEF UseInv, Ending, LeavesNothingOpen, VerifiesDuplicates
  <2> QED BY <2>3, <2>4, <2>5
<1> QED BY <1>2, <1>3

\* dup.c writes at the end of tfile, through the duplicate.
LEMMA DupWriteUse == UseInv /\ DupWrite => TableUse' /\ FileUse' /\ Ending'
<1> SUFFICES ASSUME UseInv, DupWrite PROVE TableUse' /\ FileUse' /\ Ending' OBVIOUS
<1>1. /\ DupTypeOK /\ nextCall = "write" /\ prog = "dup"
      /\ newfd \in Fds /\ table[newfd] \in Ofds /\ table[newfd] = table[fd]
      /\ ofd[table[fd]].app /\ size = size0 /\ size \in Nat
      /\ UNCHANGED <<prog, limit, offset, differs, table0, size0, table, fd, newfd, old,
                     new, ret, entry>>
  BY DEF DupWrite, locals, UseInv, DupInv, InMain, FileUse, DupTypeOK
<1>2. CASE /\ \E n \in 1..TextLen : WriteFd(newfd, n)
           /\ nextCall' = "close fd" /\ UNCHANGED exit
  <2>1. PICK n \in 1..TextLen : WriteFd(newfd, n) BY <1>2
  <2>2. n \in Nat /\ n > 0 BY DescriptorsAssumption
  <2>3. ofd'[table[fd]].off = size + n /\ size' = size + n
    BY <1>1, <2>1, <2>2, WriteFile
  <2>4. ofd'[table[fd]].off = size' /\ size' > size0 BY <1>1, <2>2, <2>3
  <2>5. TableUse' BY <1>1, <1>2 DEF UseInv, TableUse, InUse, Second
  <2>6. FileUse' BY <1>1, <1>2, <2>4 DEF UseInv, FileUse
  <2>7. Ending' BY <1>1, <1>2 DEF UseInv, Ending, LeavesNothingOpen, VerifiesDuplicates
  <2> QED BY <2>5, <2>6, <2>7
<1>3. CASE Stop("failure") BY <1>1, <1>3, FailUse DEF Stop
<1> QED BY <1>2, <1>3 DEF DupWrite

\* verify_dup.c duplicates fd into a free descriptor.
LEMMA VerifyDupUse == UseInv /\ VerifyDup => TableUse' /\ FileUse' /\ Ending'
<1> SUFFICES ASSUME UseInv, VerifyDup PROVE TableUse' /\ FileUse' /\ Ending' OBVIOUS
<1>1. /\ DupTypeOK /\ prog = "verify_dup" /\ nextCall = "duplicate" /\ newfd' = ret'
      /\ Fcntl_DUPFD(fd, 0) /\ fd \in Fds /\ table[fd] \in Ofds /\ newfd = NONE
      /\ UNCHANGED <<prog, limit, offset, differs, table0, size0, ofd, size, fd, old, new,
                     entry>>
  BY DEF VerifyDup, locals, UseInv, DupInv, InMain, TableUse
<1>2. CASE ret' = NONE BY <1>1, <1>2, FailUse DEF VerifyDup, Stop
<1>3. CASE ret' # NONE
  <2>1. nextCall' = "write" /\ exit' = exit BY <1>3 DEF VerifyDup
  <2>2. /\ ret' \in Free(0)
        /\ \A g \in Fds : table'[g] = IF g = ret' THEN table[fd] ELSE table[g]
    BY <1>1, <1>3, FcntlTable
  <2>3. ret' \in Fds /\ table[ret'] = NONE /\ ret' # fd
    BY <1>1, <2>2, Numbers DEF Free
  <2>4. table0[ret'] = NONE
    BY <1>1, <2>3, Numbers DEF UseInv, TableUse, InUse, Second
  <2>5. TableUse' BY <1>1, <2>1, <2>2, <2>3, <2>4, Numbers DEF UseInv, TableUse, InUse, Second
  <2>6. FileUse' BY <1>1, <2>1, <2>2, <2>3 DEF UseInv, FileUse
  <2>7. Ending' BY <1>1, <2>1 DEF UseInv, Ending, LeavesNothingOpen, VerifiesDuplicates
  <2> QED BY <2>5, <2>6, <2>7
<1> QED BY <1>2, <1>3

\* verify_dup.c writes from offset 0.
LEMMA VerifyWriteUse == UseInv /\ VerifyWrite => TableUse' /\ FileUse' /\ Ending'
<1> SUFFICES ASSUME UseInv, VerifyWrite PROVE TableUse' /\ FileUse' /\ Ending' OBVIOUS
<1>1. /\ DupTypeOK /\ prog = "verify_dup" /\ nextCall = "write" /\ fd \in Fds /\ table[fd] \in Ofds
      /\ ofd[table[fd]].off = 0 /\ ~ofd[table[fd]].app
      /\ UNCHANGED <<prog, limit, offset, differs, table0, size0, table, fd, newfd, old, new,
                     ret, entry>>
  BY DEF VerifyWrite, locals, UseInv, DupInv, InMain, FileUse
<1>2. CASE WriteFd(fd, TextLen) /\ nextCall' = "lseek" /\ UNCHANGED exit
  <2>1. TextLen \in Nat BY DescriptorsAssumption
  <2>2. ofd'[table[fd]].off = 0 + TextLen BY <1>1, <1>2, <2>1, WriteFile
  <2>3. ofd'[table[fd]].off = TextLen BY <2>1, <2>2
  <2>4. TableUse' BY <1>1, <1>2 DEF UseInv, TableUse, InUse, Second
  <2>5. FileUse' BY <1>1, <1>2, <2>3 DEF UseInv, FileUse
  <2>6. Ending' BY <1>1, <1>2 DEF UseInv, Ending, LeavesNothingOpen, VerifiesDuplicates
  <2> QED BY <2>4, <2>5, <2>6
<1>3. CASE Stop("failure") BY <1>1, <1>3, FailUse DEF Stop
<1> QED BY <1>2, <1>3 DEF VerifyWrite

\* verify_dup.c compares a description with itself.
LEMMA VerifyLseekUse == UseInv /\ VerifyLseek => TableUse' /\ FileUse' /\ Ending'
<1> SUFFICES ASSUME UseInv, VerifyLseek PROVE TableUse' /\ FileUse' /\ Ending' OBVIOUS
<1>1. /\ prog = "verify_dup" /\ nextCall = "lseek" /\ nextCall' = "close fd"
      /\ table[newfd] = table[fd] /\ ofd[table[fd]].off = TextLen
      /\ offset' = ofd[table[fd]].off
      /\ UNCHANGED <<prog, limit, table0, size0, table, ofd, size, fd, newfd, old, new,
                     ret, exit, entry>>
  BY DEF VerifyLseek, UseInv, FileUse
<1>2. ~differs' BY <1>1 DEF VerifyLseek
<1>3. TableUse' BY <1>1 DEF UseInv, TableUse, InUse, Second
<1>4. FileUse' BY <1>1 DEF UseInv, FileUse
<1>5. Ending' BY <1>1, <1>2 DEF UseInv, Ending, LeavesNothingOpen, VerifiesDuplicates
<1> QED BY <1>3, <1>4, <1>5

\* The first close() of a main(): newfd, when it is another descriptor, keeps
\* the description.
LEMMA CloseOldUse == UseInv /\ CloseOld => TableUse' /\ FileUse' /\ Ending'
<1> SUFFICES ASSUME UseInv, CloseOld PROVE TableUse' /\ FileUse' /\ Ending' OBVIOUS
<1>1. /\ DupTypeOK /\ nextCall = "close fd" /\ prog \in {"dup", "verify_dup"} /\ prog # "caller"
      /\ fd \in Fds /\ newfd \in Fds /\ table[newfd] \in Ofds /\ table[newfd] = table[fd]
      /\ UNCHANGED <<prog, limit, offset, differs, table0, size0, size, fd, newfd, old, new,
                     ret, entry>>
  BY DEF CloseOld, locals, UseInv, DupInv, InMain, InCaller, FileUse, DupTypeOK
<1>2. CASE IsOpen(fd) /\ CloseFd(fd) /\ nextCall' = "close newfd" /\ UNCHANGED exit
  <2>1. \A g \in Fds : table'[g] = IF g = fd THEN NONE ELSE table[g]
    BY <1>1, <1>2, CloseFdTable
  <2>2. fd # newfd => ofd'[table[newfd]] = ofd[table[newfd]] BY <1>1, <1>2, CloseFdKeeps
  <2>3. fd # newfd => table'[newfd] = table[newfd] BY <1>1, <2>1
  <2>4. TableUse' BY <1>1, <1>2, <2>1 DEF UseInv, TableUse, InUse, Second
  <2>5. FileUse' BY <1>1, <1>2, <2>2, <2>3 DEF UseInv, FileUse
  <2>6. Ending' BY <1>1, <1>2 DEF UseInv, Ending, LeavesNothingOpen, VerifiesDuplicates
  <2> QED BY <2>4, <2>5, <2>6
<1>3. CASE Stop("failure") BY <1>1, <1>3, FailUse DEF Stop
<1> QED BY <1>2, <1>3 DEF CloseOld

\* The second close(): with it, or when it is left out, the table is the one
\* at the start but for the descriptor 10 of dup.c.
LEMMA CloseNewUse == UseInv /\ CloseNew => TableUse' /\ FileUse' /\ Ending'
<1> SUFFICES ASSUME UseInv, CloseNew PROVE TableUse' /\ FileUse' /\ Ending' OBVIOUS
<1> DEFINE skip == prog = "dup" /\ fd = newfd
<1>1. /\ DupTypeOK /\ nextCall = "close newfd" /\ prog \in {"dup", "verify_dup"} /\ prog # "caller"
      /\ fd \in Fds /\ newfd \in Fds /\ Target \in Fds
      /\ table[fd] = NONE /\ table0[fd] = NONE /\ nextCall' = "done"
      /\ UNCHANGED <<prog, limit, offset, differs, table0, size0, size, fd, newfd, old, new,
                     ret, entry>>
  BY Numbers DEF CloseNew, Stop, locals, UseInv, DupInv, InMain, InCaller, TableUse, InUse, DupTypeOK
<1>2. CASE exit' = "failure" BY <1>1, <1>2, FailUse
<1>3. CASE exit' = "success"
  <2>1. \A g \in Fds : g # newfd => table'[g] = table[g]
    BY <1>1, <1>3, CloseFdTable DEF CloseNew, Stop
  <2>2. table'[newfd] = NONE /\ table' \in Tables
    <3>1. CASE skip BY <1>1, <1>3, <3>1 DEF CloseNew, Stop, DupTypeOK
    <3>2. CASE ~skip BY <1>1, <1>3, <3>2, CloseFdTable DEF CloseNew, Stop
    <3> QED BY <3>1, <3>2
  <2>3. \A g \in Fds : g # fd /\ g # newfd => table[g] = table0[g]
    BY <1>1 DEF UseInv, TableUse, InUse, Second
  <2>4. \A g \in Fds : g # newfd => table'[g] = table0[g] BY <1>1, <2>1, <2>3
  <2>5. LeavesNothingOpen'
    <3>1. CASE prog = "dup"
      <4>1. newfd = Target BY <1>1, <3>1 DEF UseInv, TableUse
      <4>2. table' = [table0 EXCEPT ![Target] = NONE]
        BY <1>1, <2>2, <2>4, <4>1 DEF DupTypeOK, Tables
      <4> QED BY <1>1, <3>1, <4>2 DEF LeavesNothingOpen
    <3>2. CASE prog = "verify_dup"
      <4>1. table0[newfd] = NONE BY <1>1, <3>2 DEF UseInv, TableUse
      <4>2. \A g \in Fds : table'[g] = table0[g] BY <2>2, <2>4, <4>1
      <4>3. table' = [g \in Fds |-> table'[g]] /\ table0 = [g \in Fds |-> table0[g]]
        BY <1>1, <2>2 DEF DupTypeOK, Tables
      <4>4. table' = table0 BY <4>2, <4>3
      <4> QED BY <1>1, <3>2, <4>4 DEF LeavesNothingOpen
    <3> QED BY <1>1, <3>1, <3>2
  <2>6. VerifiesDuplicates'
    BY <1>1 DEF UseInv, Ending, FileUse, VerifiesDuplicates
  <2>7. TableUse' /\ FileUse' BY <1>1 DEF TableUse, FileUse, InUse
  <2> QED BY <1>1, <1>3, <2>5, <2>6, <2>7 DEF Ending
<1> QED BY <1>2, <1>3 DEF CloseNew, Stop

\* Every step keeps these facts.
LEMMA NextUse == UseInv /\ [DupNext]_dupVars => UseInv'
<1> SUFFICES ASSUME UseInv, [DupNext]_dupVars PROVE UseInv' OBVIOUS
<1>1. DupInv' BY DupNextInv DEF UseInv
<1>2. CASE MyDup \/ Call \/ CallReturn
  <2>1. prog = "caller" /\ UNCHANGED <<prog, exit, differs>> /\ nextCall' # "done"
    BY <1>2 DEF MyDup, Call, CallReturn, Enter, locals, UseInv, DupInv, InMain
  <2> QED BY <1>1, <2>1, CallerUse DEF UseInv
<1>3. CASE UNCHANGED dupVars
  <2>1. TableUse' BY <1>3 DEF UseInv, TableUse, Second, dupVars
  <2>2. FileUse' BY <1>3 DEF UseInv, FileUse, dupVars
  <2>3. Ending' BY <1>3 DEF UseInv, Ending, LeavesNothingOpen, VerifiesDuplicates, dupVars
  <2> QED BY <1>1, <2>1, <2>2, <2>3 DEF UseInv
<1> QED
  BY <1>1, <1>2, <1>3, MyDup2SameUse, MyDup2CloseUse, MyDup2FcntlUse, MainOpenUse,
     CloseOldUse, CloseNewUse, DupCallUse, DupReturnUse, DupWriteUse,
     VerifyDupUse, VerifyWriteUse, VerifyLseekUse
  DEF DupNext, Ended, UseInv

\* A successful main() leaves the table as it inherited it, but for the
\* descriptor 10 that dup.c closes; dup.c has appended through the duplicate,
\* whatever the old size of tfile; and verify_dup.c reports no difference and
\* the offset it wrote up to.
THEOREM MainsUseDuplicates == DupSpec => []DuplicatesUsed
<1>1. DupSpec => []UseInv BY InitUse, NextUse, PTL DEF DupSpec
<1>2. ASSUME UseInv PROVE AppendsThroughDuplicate
  <2> SUFFICES ASSUME prog = "dup", nextCall \in {"close fd", "close newfd"},
                      NEW o \in Ofds, table[fd] = o \/ table[newfd] = o
               PROVE  ofd[o].off = size /\ size > size0
    BY DEF AppendsThroughDuplicate
  <2>1. CASE nextCall = "close fd" BY <1>2, <2>1 DEF UseInv, FileUse
  <2>2. CASE nextCall = "close newfd"
    <3>1. table[fd] = NONE BY <1>2, <2>2 DEF UseInv, TableUse
    <3>2. table[newfd] = o /\ fd # newfd BY <3>1, Numbers
    <3> QED BY <1>2, <2>2, <3>2 DEF UseInv, FileUse
  <2> QED BY <2>1, <2>2
<1>3. UseInv => DuplicatesUsed BY <1>2 DEF UseInv, DupInv, Ending, DuplicatesUsed
<1> QED BY <1>1, <1>3, PTL

-----------------------------------------------------------------------------
(* FileCopies.  The inductive invariant says, for each program and each     *)
(* place in its loop, how the two offsets are related and what OUT holds   *)
(* after the bytes consumed so far.                                        *)

\* What holds of every program: only OUT is written, and nothing is read
\* beyond the end of IN.
Files ==
  /\ out = "in" => dst0 = src0 /\ seekable
  /\ out = "out" => disk["in"] = src0
  /\ srcOff <= Len(disk["in"])
  /\ exitStatus = "success" => place = "done"

\* OUT after cp has consumed n bytes of IN.
CpDisk(n) ==
  /\ \A k \in 1..n : src0[k] # NUL => k <= Len(disk[out]) /\ disk[out][k] = src0[k]
  /\ \A k \in 1..Len(disk[out]) :
       (k > n \/ src0[k] = NUL) =>
         disk[out][k] = IF k <= Len(dst0) THEN dst0[k] ELSE NUL
  /\ Len(dst0) <= Len(disk[out])
  /\ \/ Len(disk[out]) = Len(dst0)
     \/ Len(disk[out]) \in 1..n /\ src0[Len(disk[out])] # NUL

\* cp holds the byte at its input's offset, and it is not null.
HoldsByte == srcOff >= 1 /\ buf = <<src0[srcOff]>> /\ src0[srcOff] # NUL

CpInv ==
  program = "cp" =>
    /\ disk["in"] = src0
    /\ place \in {"open", "read", "seek", "write", "close", "done"}
    /\ place = "open" => srcOff = 0 /\ dstOff = 0 /\ ~inHole /\ CpDisk(0)
    /\ place = "read" => /\ CpDisk(srcOff)
                      /\ IF inHole THEN dstOff < srcOff ELSE dstOff = srcOff
    /\ place = "seek" => HoldsByte /\ inHole /\ dstOff < srcOff /\ CpDisk(srcOff - 1)
    /\ place = "write" => /\ HoldsByte /\ ~inHole /\ dstOff = srcOff - 1
                       /\ CpDisk(srcOff - 1)
    /\ place = "close" \/ exitStatus = "success" => CpDisk(Len(src0))

CopyInv ==
  program = "copy" =>
    /\ place \in {"open", "read", "write", "close", "done"}
    /\ place = "open" => srcOff = 0 /\ dstOff = 0 /\ disk[out] = dst0
    /\ place \in {"read", "write", "close"} => disk[out] = SubSeq(src0, 1, dstOff)
    /\ out = "in" => place # "write" /\ srcOff = 0 /\ dstOff = 0
    /\ dstOff <= Len(src0)
    /\ out = "out" =>
         /\ place = "read" => dstOff = srcOff
         /\ place = "write" => dstOff < srcOff /\ buf = SubSeq(src0, dstOff + 1, srcOff)
         /\ place = "close" => dstOff = Len(src0)
    /\ CopyIsPrefix

TeeInv ==
  program = "tee" =>
    /\ disk["in"] = src0
    /\ place \in {"open", "read"} => dstOff = srcOff
    /\ place \in {"stdout", "write"} =>
         srcOff >= 1 /\ dstOff = srcOff - 1 /\ buf = <<src0[srcOff]>>

CopiesInv == CopyTypeOK /\ Files /\ CpInv /\ CopyInv /\ TeeInv

-----------------------------------------------------------------------------
\* write() gives a sequence of bytes: its length, and each of its bytes.
LEMMA PWriteBytes ==
  ASSUME NEW s \in Seq(Nat), NEW off \in Nat, NEW bs \in Seq(Nat)
  PROVE  /\ PWrite(s, off, bs) \in Seq(Nat)
         /\ Len(PWrite(s, off, bs)) =
              IF Len(s) < off + Len(bs) THEN off + Len(bs) ELSE Len(s)
         /\ \A k \in 1..Len(PWrite(s, off, bs)) :
              PWrite(s, off, bs)[k] =
                IF off < k /\ k <= off + Len(bs) THEN bs[k - off]
                ELSE IF k <= Len(s) THEN s[k] ELSE NUL
<1> DEFINE end == off + Len(bs)
           len == IF Len(s) < end THEN end ELSE Len(s)
<1>1. len \in Nat /\ end \in Nat OBVIOUS
<1>2. PWrite(s, off, bs) =
        [k \in 1..len |-> IF off < k /\ k <= end THEN bs[k - off]
                          ELSE IF k <= Len(s) THEN s[k] ELSE NUL]
  BY DEF PWrite
<1>3. \A k \in 1..len : (IF off < k /\ k <= end THEN bs[k - off]
                         ELSE IF k <= Len(s) THEN s[k] ELSE NUL) \in Nat
  <2>1. ASSUME NEW k \in 1..len, off < k, k <= end PROVE bs[k - off] \in Nat
    <3>1. k - off \in 1..Len(bs) BY <1>1, <2>1
    <3> QED BY <3>1
  <2>2. ASSUME NEW k \in 1..len, k <= Len(s) PROVE s[k] \in Nat
    BY <1>1, <2>2
  <2> QED BY <2>1, <2>2 DEF NUL
<1> HIDE DEF len, end
<1>4. PWrite(s, off, bs) \in [1..len -> Nat] BY <1>2, <1>3
<1>5. PWrite(s, off, bs) \in Seq(Nat) BY <1>1, <1>4
<1>6. Len(PWrite(s, off, bs)) = len BY <1>1, <1>2
<1> QED BY <1>2, <1>5, <1>6 DEF len, end

\* Two sequences with the same length and the same elements are equal.
LEMMA SameBytes ==
  ASSUME NEW s \in Seq(Nat), NEW t \in Seq(Nat), Len(s) = Len(t),
         \A k \in 1..Len(s) : s[k] = t[k]
  PROVE  s = t
OBVIOUS

\* Only the empty sequence has length 0.
LEMMA OnlyEmpty ==
  \A s \in Seq(Nat) : s = << >> <=> Len(s) = 0
OBVIOUS

\* Writing back the byte that is there changes nothing.
LEMMA WriteBack ==
  ASSUME NEW s \in Seq(Nat), NEW n \in 1..Len(s)
  PROVE  PWrite(s, n - 1, <<s[n]>>) = s
<1> DEFINE off == n - 1
           bs == <<s[n]>>
           w == PWrite(s, off, bs)
<1>1. off \in Nat /\ bs \in Seq(Nat) /\ Len(bs) = 1 /\ bs[1] = s[n] /\ n = off + 1
  OBVIOUS
<1> HIDE DEF off, bs
<1>2. /\ w \in Seq(Nat)
      /\ Len(w) = IF Len(s) < off + Len(bs) THEN off + Len(bs) ELSE Len(s)
      /\ \A k \in 1..Len(w) : w[k] = IF off < k /\ k <= off + Len(bs) THEN bs[k - off]
                                    ELSE IF k <= Len(s) THEN s[k] ELSE NUL
  BY <1>1, PWriteBytes
<1> HIDE DEF w
<1>3. Len(w) = Len(s) BY <1>1, <1>2
<1>4. ASSUME NEW k \in 1..Len(w) PROVE w[k] = s[k]
  <2>1. CASE k = n
    <3>1. k - off = 1 /\ off < k /\ k <= off + Len(bs) BY <1>1, <2>1
    <3>2. w[k] = bs[1] BY <1>2, <3>1
    <3> QED BY <1>1, <2>1, <3>2
  <2>2. CASE k # n
    <3>1. ~(off < k /\ k <= off + Len(bs)) /\ k <= Len(s) BY <1>1, <1>3, <2>2
    <3> QED BY <1>2, <3>1
  <2> QED BY <2>1, <2>2
<1>5. w = s BY <1>2, <1>3, <1>4, SameBytes
<1> QED BY <1>5 DEF w, off, bs

\* The n elements of s that follow the first d.
LEMMA Piece ==
  ASSUME NEW s \in Seq(Nat), NEW d \in Nat, NEW n \in Nat, d + n <= Len(s)
  PROVE  /\ SubSeq(s, d + 1, d + n) \in Seq(Nat)
         /\ Len(SubSeq(s, d + 1, d + n)) = n
         /\ \A k \in 1..n : SubSeq(s, d + 1, d + n)[k] = s[d + k]
<1> DEFINE from == d + 1
           to == d + n
           t == SubSeq(s, from, to)
<1>1. /\ from \in Int /\ to \in Int /\ to - from + 1 = n
      /\ (IF from <= to THEN to - from + 1 ELSE 0) = n
      /\ \A k \in 1..n : from + k - 1 = d + k
  OBVIOUS
<1>2. \A m \in from..to : s[m] \in Nat
  <2>1. ASSUME NEW m \in from..to PROVE m \in 1..Len(s) OBVIOUS
  <2> QED BY <2>1
<1> HIDE DEF from, to
<1>3. /\ t \in Seq(Nat) /\ Len(t) = IF from <= to THEN to - from + 1 ELSE 0
      /\ \A k \in 1..(to - from + 1) : t[k] = s[from + k - 1]
  BY <1>1, <1>2, SubSeqProperties
<1> HIDE DEF t
<1>4. t \in Seq(Nat) /\ Len(t) = n /\ \A k \in 1..n : t[k] = s[d + k] BY <1>1, <1>3
<1> QED BY <1>4 DEF t, from, to

\* Appending the next bytes of s to a prefix of s gives a longer prefix.
LEMMA LongerPrefix ==
  ASSUME NEW s \in Seq(Nat), NEW d \in Nat, NEW n \in Nat, d + n <= Len(s)
  PROVE  PWrite(SubSeq(s, 1, d), d, SubSeq(s, d + 1, d + n)) = SubSeq(s, 1, d + n)
<1> DEFINE a == SubSeq(s, 1, d)
           b == SubSeq(s, d + 1, d + n)
           c == SubSeq(s, 1, d + n)
<1>1. a \in Seq(Nat) /\ Len(a) = d /\ \A k \in 1..d : a[k] = s[k] OBVIOUS
<1>2. b \in Seq(Nat) /\ Len(b) = n /\ \A k \in 1..n : b[k] = s[d + k] BY Piece
<1>3. c \in Seq(Nat) /\ Len(c) = d + n /\ \A k \in 1..(d + n) : c[k] = s[k] OBVIOUS
<1> HIDE DEF a, b, c
<1> DEFINE w == PWrite(a, d, b)
<1>4. /\ w \in Seq(Nat)
      /\ Len(w) = IF Len(a) < d + Len(b) THEN d + Len(b) ELSE Len(a)
      /\ \A k \in 1..Len(w) : w[k] = IF d < k /\ k <= d + Len(b) THEN b[k - d]
                                    ELSE IF k <= Len(a) THEN a[k] ELSE NUL
  BY <1>1, <1>2, PWriteBytes
<1> HIDE DEF w
<1>5. Len(w) = d + n BY <1>1, <1>2, <1>4
<1>6. ASSUME NEW k \in 1..Len(w) PROVE w[k] = c[k]
  <2>0. k \in 1..(d + n) BY <1>5
  <2>1. CASE d < k
    <3>1. k - d \in 1..n /\ d + (k - d) = k /\ k <= d + Len(b) BY <1>2, <2>0, <2>1
    <3>2. b[k - d] = s[k] BY <1>2, <3>1
    <3>3. w[k] = b[k - d] BY <1>4, <2>1, <3>1
    <3>4. c[k] = s[k] BY <1>3, <2>0
    <3> QED BY <3>2, <3>3, <3>4
  <2>2. CASE ~(d < k)
    <3>1. k \in 1..d /\ k <= Len(a) BY <1>1, <2>0, <2>2
    <3>2. w[k] = a[k] BY <1>4, <2>2, <3>1
    <3> QED BY <1>1, <1>3, <2>0, <3>1, <3>2
  <2> QED BY <2>1, <2>2
<1>7. w = c BY <1>3, <1>4, <1>5, <1>6, SameBytes
<1> QED BY <1>7 DEF w, a, b, c

\* What read() does: some bytes from the offset on, none only at the end.
ReadSome(asked) ==
  \E n \in 0..asked :
    /\ srcOff' = srcOff + n /\ srcOff + n <= Len(disk["in"])
    /\ buf' = SubSeq(disk["in"], srcOff + 1, srcOff + n)
    /\ buf' \in Seq(Nat) /\ Len(buf') = n
    /\ n = 0 => srcOff = Len(disk["in"])

\* read() of a regular file returns the next bytes, none only at the end.
LEMMA ReadReads ==
  ASSUME CopyTypeOK, Files, NEW asked \in Nat \ {0}, Read(asked)
  PROVE  ReadSome(asked)
<1> DEFINE in == disk["in"]
           left == Len(in) - srcOff
           most == IF left < asked THEN left ELSE asked
<1>1. in \in Seq(Nat) /\ srcOff \in Nat /\ srcOff <= Len(in)
  BY DEF CopyTypeOK, Files
<1>2. left \in Nat /\ most \in 0..asked /\ srcOff + most <= Len(in)
      /\ (most = 0 => srcOff = Len(in))
  BY <1>1
<1>3. PICK n \in IF seekable \/ most < 1 THEN {most} ELSE 1..most :
        /\ buf' = SubSeq(in, srcOff + 1, srcOff + n)
        /\ srcOff' = srcOff + n
  BY DEF Read
<1> HIDE DEF most, left
<1>4. n \in 0..most /\ (n = 0 => most = 0) BY <1>2, <1>3
<1>5. n \in 0..asked /\ srcOff + n <= Len(in) /\ (n = 0 => srcOff = Len(in))
  BY <1>1, <1>2, <1>4
<1> HIDE DEF in
<1>6. buf' \in Seq(Nat) /\ Len(buf') = n BY <1>1, <1>3, <1>5
<1> QED BY <1>3, <1>5, <1>6 DEF ReadSome, in

-----------------------------------------------------------------------------
\* The invariant holds at the start.
LEMMA CopyInitInv == CopyInit => CopiesInv
<1> SUFFICES ASSUME CopyInit PROVE CopiesInv OBVIOUS
<1> USE FileCopiesAssumption
<1>1. src0 \in Seq(Nat) /\ dst0 \in Seq(Nat) BY DEF CopyInit
<1>2. disk["in"] = src0 /\ disk[out] = dst0 /\ disk \in [{"in", "out"} -> Seq(Nat)]
  BY <1>1 DEF CopyInit
<1>3. buf \in Seq(Nat) /\ Len(buf) = 0 /\ stdout \in Seq(Nat) BY DEF CopyInit
<1>4. CopyTypeOK
  <2>1. Len(buf) <= BufSize BY <1>3
  <2>2. /\ program \in Progs /\ out \in {"in", "out"} /\ seekable \in BOOLEAN
        /\ place = "open" /\ exitStatus = "none" /\ inHole = FALSE
        /\ srcOff = 0 /\ dstOff = 0 /\ teed = 0
    BY DEF CopyInit
  <2> QED BY <1>1, <1>2, <1>3, <2>1, <2>2 DEF CopyTypeOK
<1>5. Files BY <1>1, <1>2 DEF CopyInit, Files
<1>6. CpDisk(0) BY <1>1, <1>2 DEF CpDisk
<1>7. CpInv BY <1>2, <1>6 DEF CopyInit, CpInv
<1>8. CopyInv BY <1>1, <1>2 DEF CopyInit, CopyInv, CopyIsPrefix
<1>9. TeeInv BY <1>2 DEF CopyInit, TeeInv
<1> QED BY <1>4, <1>5, <1>7, <1>8, <1>9 DEF CopiesInv

\* Giving up, closing and opening leave the bytes alone (but for O_TRUNC).
LEMMA ErrExitIInv == CopiesInv /\ ErrExit => CopiesInv'
<1> SUFFICES ASSUME CopiesInv, ErrExit PROVE CopiesInv' OBVIOUS
<1> USE DEF CopiesInv, ErrExit, Give_up
<1>1. CopyTypeOK' BY DEF CopyTypeOK
<1>2. Files' BY DEF Files
<1>3. CpInv' BY DEF CpInv
<1>4. CopyInv' BY DEF CopyInv, CopyIsPrefix
<1>5. TeeInv' BY DEF TeeInv
<1> QED BY <1>1, <1>2, <1>3, <1>4, <1>5

\* close() of both files.
LEMMA CloseIInv == CopiesInv /\ Close => CopiesInv'
<1> SUFFICES ASSUME CopiesInv, Close PROVE CopiesInv' OBVIOUS
<1> USE DEF CopiesInv, Close
<1>1. CopyTypeOK' BY DEF CopyTypeOK
<1>2. Files' BY DEF Files
<1>3. CpInv' BY DEF CpInv, CpDisk
<1>4. CopyInv'
  <2>1. SubSeq(src0, 1, Len(src0)) = src0 BY DEF CopyTypeOK
  <2>2. SubSeq(src0, 1, 0) = << >> BY DEF CopyTypeOK
  <2> QED BY <2>1, <2>2 DEF CopyInv, CopyIsPrefix, CopyTypeOK
<1>5. TeeInv' BY DEF TeeInv
<1> QED BY <1>1, <1>2, <1>3, <1>4, <1>5

\* The open() calls; copy.c truncates OUT here.
LEMMA OpenIInv == CopiesInv /\ Open => CopiesInv'
<1> SUFFICES ASSUME CopiesInv, Open PROVE CopiesInv' OBVIOUS
<1> USE DEF CopiesInv, Open
<1>0. << >> \in Seq(Nat) /\ Len(<< >>) = 0 OBVIOUS
<1>1. CopyTypeOK' BY <1>0 DEF CopyTypeOK
<1>2. Files' BY <1>0 DEF Files, CopyInv, CopyTypeOK
<1>3. CpInv' BY DEF CpInv, CpDisk
<1>4. CopyInv'
  <2>1. SubSeq(src0, 1, 0) = << >> BY DEF CopyTypeOK
  <2>2. program = "copy" => disk'[out] = << >> BY DEF CopyTypeOK
  <2> QED BY <2>1, <2>2 DEF CopyInv, CopyIsPrefix, Files, CopyTypeOK
<1>5. TeeInv' BY DEF TeeInv
<1> QED BY <1>1, <1>2, <1>3, <1>4, <1>5

-----------------------------------------------------------------------------
\* copy.c
LEMMA CopyReadIInv == CopiesInv /\ CopyRead => CopiesInv'
<1> SUFFICES ASSUME CopiesInv, CopyRead PROVE CopiesInv' OBVIOUS
<1> USE DEF CopiesInv, CopyRead
<1>1. BufSize \in Nat \ {0} BY FileCopiesAssumption
<1>2. ReadSome(BufSize) BY <1>1, ReadReads
<1>3. PICK n \in 0..BufSize :
        /\ srcOff' = srcOff + n /\ srcOff + n <= Len(disk["in"])
        /\ buf' = SubSeq(disk["in"], srcOff + 1, srcOff + n)
        /\ buf' \in Seq(Nat) /\ Len(buf') = n
        /\ n = 0 => srcOff = Len(disk["in"])
  BY <1>2 DEF ReadSome
<1>4. buf' = << >> <=> n = 0 BY <1>3, OnlyEmpty
<1>5. CopyTypeOK' BY <1>1, <1>3 DEF CopyTypeOK
<1>6. Files' BY <1>3 DEF Files
<1>7. CpInv' /\ TeeInv' BY DEF CpInv, TeeInv
<1>8. out = "in" => n = 0
  <2>1. ASSUME out = "in" PROVE Len(disk["in"]) = 0
    <3>1. disk["in"] = SubSeq(src0, 1, 0) BY <2>1 DEF CopyInv
    <3> QED BY <3>1 DEF CopyTypeOK
  <2> QED BY <1>3, <2>1 DEF CopyTypeOK, CopyInv
<1>9. CopyInv'
  <2>1. /\ srcOff \in Nat /\ dstOff \in Nat /\ out \in {"in", "out"}
        /\ exitStatus' = exitStatus /\ exitStatus # "success"
    BY DEF CopyTypeOK, Files
  <2>2. place' = IF n = 0 THEN "close" ELSE "write" BY <1>4
  <2>3. CASE out = "in"
    <3>1. srcOff' = 0 /\ place' = "close" BY <1>3, <1>8, <2>2, <2>3 DEF CopyInv
    <3> QED BY <2>1, <2>3, <3>1 DEF CopyInv, CopyIsPrefix
  <2>4. CASE out = "out"
    <3>1. disk["in"] = src0 /\ dstOff = srcOff BY <2>4 DEF CopyInv, Files
    <3>2. place' = "write" => dstOff < srcOff' BY <1>3, <2>1, <2>2, <3>1
    <3>3. place' = "close" => dstOff = Len(src0) BY <1>3, <2>2, <3>1
    <3> QED BY <1>3, <2>1, <2>2, <2>4, <3>1, <3>2, <3>3 DEF CopyInv, CopyIsPrefix
  <2> QED BY <2>1, <2>3, <2>4
<1> QED BY <1>5, <1>6, <1>7, <1>9

\* copy.c writes the buffer, which is what was read last, behind the prefix it has.
LEMMA CopyWriteIInv == CopiesInv /\ CopyWrite => CopiesInv'
<1> SUFFICES ASSUME CopiesInv, CopyWrite PROVE CopiesInv' OBVIOUS
<1> USE DEF CopiesInv
<1> DEFINE n == Fit(dstOff, Len(buf))
           bs == SubSeq(buf, 1, n)
<1>0. /\ src0 \in Seq(Nat) /\ buf \in Seq(Nat) /\ dstOff \in Nat /\ srcOff \in Nat
      /\ disk[out] \in Seq(Nat) /\ out \in {"in", "out"} /\ Capacity \in Nat
  BY FileCopiesAssumption DEF CopyTypeOK
<1>1. /\ program = "copy" /\ place = "write" /\ out = "out" /\ dstOff < srcOff
      /\ buf = SubSeq(src0, dstOff + 1, srcOff) /\ srcOff <= Len(src0)
      /\ disk[out] = SubSeq(src0, 1, dstOff)
  BY <1>0 DEF CopyWrite, CopyInv, Files
<1>2. Len(buf) = srcOff - dstOff BY <1>0, <1>1
<1>3. n \in 0..Len(buf) BY <1>0, <1>2 DEF Fit
<1>4. /\ disk' = [disk EXCEPT ![out] = PWrite(disk[out], dstOff, bs)]
      /\ dstOff' = dstOff + n
      /\ UNCHANGED <<program, out, seekable, srcOff, buf, inHole, stdout, teed, src0, dst0>>
      /\ \/ n = Len(buf) /\ place' = "read" /\ exitStatus' = exitStatus
         \/ n # Len(buf) /\ place' = "done" /\ exitStatus' = "failure"
  BY DEF CopyWrite, Give_up
<1> HIDE DEF n
<1>5. bs = SubSeq(src0, dstOff + 1, dstOff + n) BY <1>0, <1>1, <1>2, <1>3
<1>6. bs \in Seq(Nat) BY <1>0, <1>3
<1> HIDE DEF bs
<1>7. PWrite(disk[out], dstOff, bs) = SubSeq(src0, 1, dstOff + n)
  <2>1. dstOff + n <= Len(src0) /\ n \in Nat BY <1>0, <1>1, <1>2, <1>3
  <2>2. PWrite(SubSeq(src0, 1, dstOff), dstOff, SubSeq(src0, dstOff + 1, dstOff + n))
          = SubSeq(src0, 1, dstOff + n)
    BY <1>0, <2>1, LongerPrefix
  <2> QED BY <1>1, <1>5, <2>2
<1>8. SubSeq(src0, 1, dstOff + n) \in Seq(Nat) BY <1>0, <1>1, <1>2, <1>3
<1>9. disk'[out] = SubSeq(src0, 1, dstOff') /\ disk'["in"] = disk["in"]
      /\ disk' \in [{"in", "out"} -> Seq(Nat)]
  BY <1>0, <1>1, <1>4, <1>7, <1>8 DEF CopyTypeOK
<1>10. dstOff' \in Nat /\ dstOff' <= Len(src0) /\ (place' = "read" => dstOff' = srcOff)
  BY <1>0, <1>1, <1>2, <1>3, <1>4
<1>11. CopyTypeOK' BY <1>4, <1>9, <1>10 DEF CopyTypeOK
<1>12. Files' BY <1>1, <1>4, <1>9 DEF Files
<1>13. CpInv' /\ TeeInv' BY <1>1, <1>4 DEF CpInv, TeeInv
<1>14. CopyInv'
  <2>1. exitStatus' # "success" BY <1>1, <1>4 DEF Files
  <2> QED BY <1>1, <1>4, <1>9, <1>10, <2>1 DEF CopyInv, CopyIsPrefix
<1> QED BY <1>11, <1>12, <1>13, <1>14

-----------------------------------------------------------------------------
\* A read() of one byte returns nothing, at the end, or the next byte.
LEMMA ReadOne ==
  ASSUME CopyTypeOK, Files, Read(1)
  PROVE  /\ buf' \in Seq(Nat) /\ Len(buf') <= 1
         /\ \/ buf' = << >> /\ srcOff' = srcOff /\ srcOff = Len(disk["in"])
            \/ /\ buf' = <<disk["in"][srcOff + 1]>>
               /\ srcOff' = srcOff + 1 /\ srcOff + 1 <= Len(disk["in"])
<1>1. ReadSome(1) BY ReadReads
<1>2. PICK n \in 0..1 :
        /\ srcOff' = srcOff + n /\ srcOff + n <= Len(disk["in"])
        /\ buf' = SubSeq(disk["in"], srcOff + 1, srcOff + n)
        /\ buf' \in Seq(Nat) /\ Len(buf') = n
        /\ n = 0 => srcOff = Len(disk["in"])
  BY <1>1 DEF ReadSome
<1>3. srcOff \in Nat /\ disk["in"] \in Seq(Nat) BY DEF CopyTypeOK
<1>4. CASE n = 0
  <2>1. buf' \in Seq(Nat) /\ Len(buf') = 0 BY <1>2, <1>4
  <2>2. buf' = << >> BY ONLY <2>1, OnlyEmpty
  <2>3. srcOff' = srcOff /\ srcOff = Len(disk["in"]) BY <1>2, <1>3, <1>4
  <2> QED BY <2>1, <2>2, <2>3
<1>5. CASE n = 1
  <2>1. buf'[1] = disk["in"][srcOff + 1]
    <3>1. \A k \in 1..n : SubSeq(disk["in"], srcOff + 1, srcOff + n)[k] = disk["in"][srcOff + k]
      BY <1>2, <1>3, Piece
    <3> QED BY <1>2, <1>5, <3>1
  <2>2. <<disk["in"][srcOff + 1]>> \in Seq(Nat) BY <1>2, <1>3, <1>5
  <2> DEFINE t == <<disk["in"][srcOff + 1]>>
  <2>3. Len(buf') = Len(t) /\ t[1] = buf'[1] BY <1>2, <1>5, <2>1
  <2>4. \A k \in 1..Len(buf') : k = 1 BY <1>2, <1>5
  <2>5. \A k \in 1..Len(buf') : buf'[k] = t[k] BY <2>3, <2>4
  <2> HIDE DEF t
  <2>6. t \in Seq(Nat) BY <2>2 DEF t
  <2>7. buf' = t BY <1>2, <2>3, <2>5, <2>6, SameBytes
  <2>8. srcOff' = srcOff + 1 /\ srcOff + 1 <= Len(disk["in"]) /\ Len(buf') = 1
    BY <1>2, <1>5
  <2>9. buf' \in Seq(Nat) /\ Len(buf') <= 1 BY <1>2, <2>8
  <2>10. buf' = <<disk["in"][srcOff + 1]>> BY <2>7 DEF t
  <2> QED BY <2>8, <2>9, <2>10
<1>6. n = 0 \/ n = 1 OBVIOUS
<1> QED BY <1>4, <1>5, <1>6

\* cp.c
LEMMA CpReadIInv == CopiesInv /\ CpRead => CopiesInv'
<1> SUFFICES ASSUME CopiesInv, CpRead PROVE CopiesInv' OBVIOUS
<1> USE DEF CopiesInv
<1>1. /\ buf' \in Seq(Nat) /\ Len(buf') <= 1
      /\ \/ buf' = << >> /\ srcOff' = srcOff /\ srcOff = Len(disk["in"])
         \/ /\ buf' = <<disk["in"][srcOff + 1]>>
            /\ srcOff' = srcOff + 1 /\ srcOff + 1 <= Len(disk["in"])
  BY ReadOne DEF CpRead
<1>2. /\ srcOff \in Nat /\ dstOff \in Nat /\ BufSize >= 1 /\ BufSize \in Nat
      /\ src0 \in Seq(Nat) /\ dst0 \in Seq(Nat) /\ inHole \in BOOLEAN
      /\ disk[out] \in Seq(Nat)
  BY FileCopiesAssumption DEF CopyTypeOK
<1>3. /\ program = "cp" /\ place = "read" /\ disk["in"] = src0 /\ CpDisk(srcOff)
      /\ IF inHole THEN dstOff < srcOff ELSE dstOff = srcOff
      /\ exitStatus # "success"
  BY DEF CpRead, CpInv, Files
<1>4. UNCHANGED <<program, disk, out, seekable, dstOff, stdout, exitStatus, teed, src0, dst0>>
  BY DEF CpRead
<1>5. CopyTypeOK'
  <2>1. place' \in {"close", "read", "seek", "write"} /\ inHole' \in BOOLEAN
    BY <1>2, <1>3 DEF CpRead
  <2>2. srcOff' \in Nat /\ Len(buf') <= BufSize BY <1>1, <1>2
  <2> QED BY <1>1, <1>4, <2>1, <2>2 DEF CopyTypeOK
<1>6. Files' BY <1>1, <1>3, <1>4 DEF Files
<1>7. CopyInv' /\ TeeInv' BY <1>3, <1>4 DEF CopyInv, TeeInv
<1>8. CpInv'
  <2>1. CASE buf' = << >>
    <3>1. place' = "close" /\ inHole' = inHole /\ srcOff = Len(src0)
      BY <1>1, <1>3, <2>1 DEF CpRead
    <3>2. CpDisk(Len(src0))' BY <1>3, <1>4, <3>1 DEF CpDisk
    <3> QED BY <1>3, <1>4, <3>1, <3>2 DEF CpInv
  <2>2. CASE buf' # << >>
    <3>1. /\ buf' = <<src0[srcOff + 1]>>
          /\ srcOff' = srcOff + 1 /\ srcOff + 1 <= Len(src0)
      BY <1>1, <1>3, <2>2
    <3>2. CASE src0[srcOff + 1] = NUL
      <4>1. buf' = <<NUL>> BY <3>1, <3>2
      <4>2. inHole' = TRUE /\ place' = "read" BY <1>3, <2>2, <4>1 DEF CpRead
      <4>3. dstOff' < srcOff' BY <1>2, <1>3, <1>4, <3>1
      <4>4. CpDisk(srcOff)'
        <5>1. \A k \in 1..(srcOff + 1) : k \in 1..srcOff \/ k = srcOff + 1
          BY <1>2
        <5>2. \A k \in 1..Len(disk[out]) : k > srcOff + 1 => k > srcOff
          BY <1>2
        <5>3. \A k \in 1..Len(disk[out]) :
                src0[k] = NUL \/ k > srcOff \/ src0[k] # NUL
          OBVIOUS
        <5>4. 1..srcOff \subseteq 1..(srcOff + 1) BY <1>2
        <5> QED BY <1>3, <1>4, <3>1, <3>2, <5>1, <5>2, <5>4 DEF CpDisk
      <4> QED BY <1>3, <1>4, <4>2, <4>3, <4>4 DEF CpInv
    <3>3. CASE src0[srcOff + 1] # NUL
      <4>1. buf' # <<NUL>>
        <5>1. buf'[1] = src0[srcOff + 1] /\ <<NUL>>[1] = NUL BY <3>1
        <5> QED BY <3>3, <5>1
      <4>2. place' = (IF inHole THEN "seek" ELSE "write") /\ inHole' = inHole
        BY <2>2, <4>1 DEF CpRead
      <4>3. HoldsByte' BY <1>2, <1>4, <3>1, <3>3 DEF HoldsByte
      <4>4. srcOff' - 1 = srcOff BY <1>2, <3>1
      <4>5. CpDisk(srcOff - 1)' BY <1>3, <1>4, <4>4 DEF CpDisk
      <4>6. IF inHole THEN dstOff' < srcOff' ELSE dstOff' = srcOff' - 1
        BY <1>2, <1>3, <1>4, <3>1
      <4> QED BY <1>2, <1>3, <1>4, <4>2, <4>3, <4>5, <4>6 DEF CpInv
    <3> QED BY <3>2, <3>3
  <2> QED BY <2>1, <2>2
<1> QED BY <1>5, <1>6, <1>7, <1>8

\* cp.c moves OUT's offset to the place of the byte in the buffer.
LEMMA CpSeekIInv == CopiesInv /\ CpSeek => CopiesInv'
<1> SUFFICES ASSUME CopiesInv, CpSeek PROVE CopiesInv' OBVIOUS
<1> USE DEF CopiesInv
<1>1. /\ srcOff \in Nat /\ dstOff \in Nat /\ program = "cp" /\ place = "seek"
      /\ HoldsByte /\ dstOff < srcOff /\ CpDisk(srcOff - 1) /\ disk["in"] = src0
  BY DEF CopyTypeOK, CpSeek, CpInv
<1>2. UNCHANGED <<program, disk, out, seekable, srcOff, buf, stdout, teed, src0, dst0>>
  BY DEF CpSeek
<1>3. \/ /\ place' = "done" /\ exitStatus' = "failure" /\ dstOff' = dstOff /\ inHole' = inHole
      \/ /\ place' = "write" /\ exitStatus' = exitStatus /\ dstOff' = srcOff - 1 /\ inHole' = FALSE
  <2>1. srcOff # dstOff BY <1>1
  <2> QED BY <2>1 DEF CpSeek, Give_up
<1>4. srcOff >= 1 BY <1>1 DEF HoldsByte
<1>5. CopyTypeOK'
  <2>1. srcOff - 1 \in Nat BY <1>1, <1>4
  <2>2. dstOff' \in Nat BY <1>1, <1>3, <2>1
  <2>3. inHole' \in BOOLEAN BY <1>3, Zenon DEF CopyTypeOK
  <2>4. place' \in {"write", "done"} /\ exitStatus' \in {exitStatus, "failure"} BY <1>3
  <2> QED BY <1>2, <2>2, <2>3, <2>4 DEF CopyTypeOK
<1>6. Files' BY <1>1, <1>2, <1>3 DEF Files
<1>7. CopyInv' /\ TeeInv' BY <1>1, <1>2 DEF CopyInv, TeeInv
<1>8. HoldsByte' BY <1>1, <1>2 DEF HoldsByte
<1>9. CpDisk(srcOff - 1)' BY <1>1, <1>2 DEF CpDisk
<1>10. CpInv' BY <1>1, <1>2, <1>3, <1>8, <1>9 DEF CpInv, Files
<1> QED BY <1>5, <1>6, <1>7, <1>10

\* One more byte in its place.
LEMMA CpDiskGrows ==
  ASSUME CopiesInv, program = "cp", CpDisk(srcOff - 1), HoldsByte, srcOff <= Len(src0),
         UNCHANGED <<out, src0, dst0, srcOff>>,
         disk'[out] = PWrite(disk[out], srcOff - 1, <<src0[srcOff]>>)
  PROVE  CpDisk(srcOff)'
<1> DEFINE d == disk[out]
           w == disk'[out]
           off == srcOff - 1
           bs == <<src0[srcOff]>>
<1>1. /\ d \in Seq(Nat) /\ src0 \in Seq(Nat) /\ dst0 \in Seq(Nat) /\ srcOff \in 1..Len(src0)
  BY DEF CopiesInv, CopyTypeOK, HoldsByte
<1>2. off \in Nat /\ bs \in Seq(Nat) /\ Len(bs) = 1 /\ bs[1] = src0[srcOff]
      /\ srcOff = off + 1
  BY <1>1
<1>3. w = PWrite(d, off, bs) OBVIOUS
<1>4. src0[srcOff] # NUL BY DEF HoldsByte
<1>5. /\ \A k \in 1..off : src0[k] # NUL => k <= Len(d) /\ d[k] = src0[k]
      /\ \A k \in 1..Len(d) : (k > off \/ src0[k] = NUL) =>
                               d[k] = IF k <= Len(dst0) THEN dst0[k] ELSE NUL
      /\ Len(dst0) <= Len(d)
      /\ Len(d) = Len(dst0) \/ (Len(d) \in 1..off /\ src0[Len(d)] # NUL)
  BY DEF CpDisk
<1> HIDE DEF d, w, off, bs
<1>6. /\ PWrite(d, off, bs) \in Seq(Nat)
      /\ Len(PWrite(d, off, bs)) =
           IF Len(d) < off + Len(bs) THEN off + Len(bs) ELSE Len(d)
      /\ \A k \in 1..Len(PWrite(d, off, bs)) :
           PWrite(d, off, bs)[k] =
             IF off < k /\ k <= off + Len(bs) THEN bs[k - off]
             ELSE IF k <= Len(d) THEN d[k] ELSE NUL
  BY <1>1, <1>2, PWriteBytes
<1>7. w \in Seq(Nat) /\ Len(w) = IF Len(d) < srcOff THEN srcOff ELSE Len(d)
  BY <1>2, <1>3, <1>6
<1>8. w[srcOff] = src0[srcOff]
  <2>1. srcOff \in 1..Len(w) BY <1>1, <1>7
  <2>2. srcOff - off = 1 /\ off < srcOff /\ srcOff <= off + Len(bs) BY <1>1, <1>2
  <2>3. w[srcOff] = bs[1] BY <1>3, <1>6, <2>1, <2>2
  <2> QED BY <1>2, <2>3
<1>9. \A k \in 1..Len(w) : k # srcOff => w[k] = IF k <= Len(d) THEN d[k] ELSE NUL
  <2>1. ASSUME NEW k \in 1..Len(w), k # srcOff
        PROVE  w[k] = IF k <= Len(d) THEN d[k] ELSE NUL
    <3>1. ~(off < k /\ k <= off + Len(bs)) BY <1>2, <1>7, <2>1
    <3> QED BY <1>3, <1>6, <3>1
  <2> QED BY <2>1
<1>10. ASSUME NEW k \in 1..srcOff, src0[k] # NUL PROVE k <= Len(w) /\ w[k] = src0[k]
  <2>1. CASE k = srcOff BY <1>1, <1>7, <1>8, <2>1
  <2>2. CASE k # srcOff
    <3>1. k \in 1..off BY <1>1, <1>2, <2>2
    <3>2. k <= Len(d) /\ d[k] = src0[k] BY <1>5, <1>10, <3>1
    <3>3. k \in 1..Len(w) BY <1>1, <1>7, <3>2
    <3> QED BY <1>9, <2>2, <3>2, <3>3
  <2> QED BY <2>1, <2>2
<1>11. ASSUME NEW k \in 1..Len(w), k > srcOff \/ src0[k] = NUL
       PROVE  w[k] = IF k <= Len(dst0) THEN dst0[k] ELSE NUL
  <2>1. k # srcOff BY <1>1, <1>4, <1>11
  <2>2. w[k] = IF k <= Len(d) THEN d[k] ELSE NUL BY <1>9, <2>1
  <2>3. CASE k <= Len(d)
    <3>1. k \in 1..Len(d) /\ (k > off \/ src0[k] = NUL) BY <1>1, <1>2, <1>7, <1>11, <2>3
    <3> QED BY <1>5, <2>2, <2>3, <3>1
  <2>4. CASE ~(k <= Len(d))
    <3>1. ~(k <= Len(dst0)) BY <1>1, <1>5, <1>7, <2>4
    <3> QED BY <2>2, <2>4, <3>1
  <2> QED BY <2>3, <2>4
<1>12. Len(dst0) <= Len(w) BY <1>1, <1>5, <1>7
<1>13. Len(w) = Len(dst0) \/ (Len(w) \in 1..srcOff /\ src0[Len(w)] # NUL)
  <2>1. CASE Len(d) < srcOff BY <1>1, <1>4, <1>7, <2>1
  <2>2. CASE ~(Len(d) < srcOff)
    <3>1. Len(w) = Len(d) /\ ~(Len(d) \in 1..off) BY <1>1, <1>2, <1>7, <2>2
    <3> QED BY <1>5, <3>1
  <2> QED BY <2>1, <2>2
<1>14. out' = out /\ src0' = src0 /\ dst0' = dst0 /\ srcOff' = srcOff OBVIOUS
<1> QED BY <1>10, <1>11, <1>12, <1>13, <1>14 DEF CpDisk, w

\* cp.c writes the byte, whose place is now right.
LEMMA CpWriteIInv == CopiesInv /\ CpWrite => CopiesInv'
<1> SUFFICES ASSUME CopiesInv, CpWrite PROVE CopiesInv' OBVIOUS
<1>1. /\ srcOff \in Nat /\ dstOff \in Nat /\ program = "cp" /\ place = "write"
      /\ out \in {"in", "out"} /\ disk[out] \in Seq(Nat) /\ src0 \in Seq(Nat)
      /\ HoldsByte /\ ~inHole /\ dstOff = srcOff - 1 /\ CpDisk(srcOff - 1)
      /\ disk["in"] = src0 /\ srcOff <= Len(src0) /\ exitStatus # "success"
  BY DEF CopiesInv, CopyTypeOK, Files, CpWrite, CpInv
<1>2. UNCHANGED <<program, out, seekable, srcOff, buf, inHole, stdout, teed, src0, dst0>>
  BY DEF CpWrite
<1>3. buf = <<src0[srcOff]>> /\ srcOff >= 1 BY <1>1 DEF HoldsByte
<1>4. CASE Fit(dstOff, 1) # 1
  <2>1. place' = "done" /\ exitStatus' = "failure" /\ UNCHANGED <<disk, dstOff>>
    BY <1>4 DEF CpWrite, Give_up
  <2>2. CopyTypeOK' BY <1>2, <2>1 DEF CopiesInv, CopyTypeOK
  <2>3. Files' BY <1>2, <2>1 DEF CopiesInv, Files
  <2>4. CpInv' BY <1>1, <1>2, <2>1 DEF CpInv
  <2>5. CopyInv' /\ TeeInv' BY <1>1, <1>2 DEF CopyInv, TeeInv
  <2> QED BY <2>2, <2>3, <2>4, <2>5 DEF CopiesInv
<1>5. CASE Fit(dstOff, 1) = 1
  <2>1. /\ disk' = [disk EXCEPT ![out] = PWrite(disk[out], srcOff - 1, <<src0[srcOff]>>)]
        /\ dstOff' = srcOff /\ place' = "read" /\ exitStatus' = exitStatus
    BY <1>1, <1>3, <1>5 DEF CpWrite
  <2>2. srcOff - 1 \in Nat /\ <<src0[srcOff]>> \in Seq(Nat) BY <1>1, <1>3
  <2>3. PWrite(disk[out], srcOff - 1, <<src0[srcOff]>>) \in Seq(Nat)
    BY <1>1, <2>2, PWriteBytes
  <2>4. disk' \in [{"in", "out"} -> Seq(Nat)] BY <2>1, <2>3 DEF CopiesInv, CopyTypeOK
  <2>5. disk'[out] = PWrite(disk[out], srcOff - 1, <<src0[srcOff]>>)
    BY <1>1, <2>1 DEF CopiesInv, CopyTypeOK
  <2>6. disk'["in"] = src0
    <3>1. CASE out = "out" BY <1>1, <2>1, <3>1 DEF CopiesInv, CopyTypeOK
    <3>2. CASE out = "in"
      <4>1. srcOff \in 1..Len(src0) BY <1>1, <1>3
      <4>2. PWrite(src0, srcOff - 1, <<src0[srcOff]>>) = src0 BY <1>1, <4>1, WriteBack
      <4> QED BY <1>1, <2>5, <3>2, <4>2
    <3> QED BY <1>1, <3>1, <3>2
  <2>7. CpDisk(srcOff)' BY <1>1, <1>2, <2>5, CpDiskGrows
  <2>8. CopyTypeOK' BY <1>1, <1>2, <2>1, <2>4 DEF CopiesInv, CopyTypeOK
  <2>9. Files' BY <1>1, <1>2, <2>1, <2>6 DEF CopiesInv, Files
  <2>10. CpInv' BY <1>1, <1>2, <2>1, <2>6, <2>7 DEF CpInv
  <2>11. CopyInv' /\ TeeInv' BY <1>1, <1>2 DEF CopyInv, TeeInv
  <2> QED BY <2>8, <2>9, <2>10, <2>11 DEF CopiesInv
<1> QED BY <1>4, <1>5

-----------------------------------------------------------------------------
\* tee.c
LEMMA TeeReadIInv == CopiesInv /\ TeeRead => CopiesInv'
<1> SUFFICES ASSUME CopiesInv, TeeRead PROVE CopiesInv' OBVIOUS
<1>1. /\ buf' \in Seq(Nat) /\ Len(buf') <= 1
      /\ \/ buf' = << >> /\ srcOff' = srcOff /\ srcOff = Len(disk["in"])
         \/ /\ buf' = <<disk["in"][srcOff + 1]>>
            /\ srcOff' = srcOff + 1 /\ srcOff + 1 <= Len(disk["in"])
  BY ReadOne DEF TeeRead, CopiesInv
<1>2. /\ srcOff \in Nat /\ dstOff \in Nat /\ BufSize >= 1 /\ BufSize \in Nat
      /\ program \in Tees /\ place = "read"
  BY FileCopiesAssumption DEF CopiesInv, CopyTypeOK, TeeRead
<1>3. /\ UNCHANGED <<program, disk, out, seekable, dstOff, inHole, stdout, exitStatus, teed,
                     src0, dst0>>
      /\ place' = IF buf' = << >> THEN "close" ELSE "stdout"
  BY DEF TeeRead
<1>4. CopyTypeOK'
  <2>1. srcOff' \in Nat /\ Len(buf') <= BufSize BY <1>1, <1>2
  <2> QED BY <1>1, <1>3, <2>1 DEF CopiesInv, CopyTypeOK
<1>5. Files' BY <1>1, <1>2, <1>3 DEF CopiesInv, Files
<1>6. CpInv' /\ CopyInv' BY <1>2, <1>3 DEF CpInv, CopyInv, Tees
<1>7. TeeInv'
  <2>1. CASE buf' = << >> BY <1>3, <2>1 DEF CopiesInv, TeeInv
  <2>2. CASE buf' # << >>
    <3>1. buf' = <<disk["in"][srcOff + 1]>> /\ srcOff' = srcOff + 1 /\ place' = "stdout"
      BY <1>1, <1>3, <2>2
    <3> QED BY <1>2, <1>3, <3>1 DEF CopiesInv, TeeInv
  <2> QED BY <2>1, <2>2
<1> QED BY <1>4, <1>5, <1>6, <1>7 DEF CopiesInv

\* tee.c writes to standard output.
LEMMA TeeStdoutIInv == CopiesInv /\ TeeStdout => CopiesInv'
<1> SUFFICES ASSUME CopiesInv, TeeStdout PROVE CopiesInv' OBVIOUS
<1> USE DEF CopiesInv, TeeStdout
<1>1. stdout \o buf \in Seq(Nat) BY DEF CopyTypeOK
<1>2. CopyTypeOK' BY <1>1 DEF CopyTypeOK
<1>3. Files' BY DEF Files
<1>4. CpInv' /\ CopyInv' BY DEF CpInv, CopyInv, Tees
<1>5. TeeInv' BY DEF TeeInv
<1> QED BY <1>2, <1>3, <1>4, <1>5

\* tee.c writes to the file.
LEMMA TeeWriteIInv == CopiesInv /\ TeeWrite => CopiesInv'
<1> SUFFICES ASSUME CopiesInv, TeeWrite PROVE CopiesInv' OBVIOUS
<1> DEFINE off == IF program = "tee_append" THEN Len(disk[out]) ELSE dstOff
<1>1. /\ srcOff \in Nat /\ dstOff \in Nat /\ teed \in Nat /\ program \in Tees /\ place = "write"
      /\ out \in {"in", "out"} /\ disk[out] \in Seq(Nat) /\ src0 \in Seq(Nat)
      /\ buf \in Seq(Nat) /\ exitStatus # "success" /\ disk["in"] \in Seq(Nat)
  BY DEF CopiesInv, CopyTypeOK, Files, TeeWrite
<1>2. UNCHANGED <<program, out, seekable, srcOff, buf, inHole, stdout, src0, dst0>>
  BY DEF TeeWrite
<1>3. off \in Nat
  <2>1. Len(disk[out]) \in Nat BY <1>1
  <2> QED BY <1>1, <2>1, Zenon
<1>4. CASE Fit(off, 1) # 1
  <2>1. place' = "done" /\ exitStatus' = "failure" /\ UNCHANGED <<disk, dstOff, teed>>
    BY <1>4 DEF TeeWrite, Give_up
  <2>2. CopyTypeOK' BY <1>2, <2>1 DEF CopiesInv, CopyTypeOK
  <2>3. Files' BY <1>2, <2>1 DEF CopiesInv, Files
  <2>4. CpInv' /\ CopyInv' BY <1>1, <1>2 DEF CpInv, CopyInv, Tees
  <2>5. TeeInv' BY <1>2, <2>1 DEF CopiesInv, TeeInv
  <2> QED BY <2>2, <2>3, <2>4, <2>5 DEF CopiesInv
<1>5. CASE Fit(off, 1) = 1
  <2>1. /\ disk' = [disk EXCEPT ![out] = PWrite(disk[out], off, buf)]
        /\ dstOff' = off + 1 /\ teed' = teed + 1 /\ place' = "read" /\ exitStatus' = exitStatus
    BY <1>5 DEF TeeWrite
  <2> HIDE DEF off
  <2>2. /\ PWrite(disk[out], off, buf) \in Seq(Nat)
        /\ Len(PWrite(disk[out], off, buf)) =
             IF Len(disk[out]) < off + Len(buf) THEN off + Len(buf) ELSE Len(disk[out])
    BY <1>1, <1>3, PWriteBytes
  <2>3. disk' \in [{"in", "out"} -> Seq(Nat)] /\ disk'[out] = PWrite(disk[out], off, buf)
    BY <1>1, <2>1, <2>2 DEF CopiesInv, CopyTypeOK
  <2>4. dstOff' \in Nat /\ teed' \in Nat BY <1>1, <1>3, <2>1
  <2>5. CopyTypeOK' BY <1>2, <2>1, <2>3, <2>4 DEF CopiesInv, CopyTypeOK
  <2>6. out = "out" => disk'["in"] = disk["in"] BY <2>1 DEF CopiesInv, CopyTypeOK
  <2>7. srcOff <= Len(disk'["in"])
    <3>1. CASE out = "out" BY <2>6, <3>1 DEF CopiesInv, Files
    <3>2. CASE out = "in"
      <4>1. Len(disk["in"]) <= Len(disk'["in"]) BY <1>1, <1>3, <2>2, <2>3, <3>2
      <4>2. disk'["in"] \in Seq(Nat) BY <2>3
      <4> QED BY <1>1, <4>1, <4>2 DEF CopiesInv, Files
    <3> QED BY <1>1, <3>1, <3>2
  <2>8. Files' BY <1>1, <1>2, <2>1, <2>6, <2>7 DEF CopiesInv, Files
  <2>9. CpInv' /\ CopyInv' BY <1>1, <1>2 DEF CpInv, CopyInv, Tees
  <2>10. TeeInv'
    <3> SUFFICES ASSUME program = "tee" PROVE disk'["in"] = src0 /\ dstOff' = srcOff
      BY <1>2, <2>1 DEF TeeInv
    <3>1. /\ srcOff >= 1 /\ dstOff = srcOff - 1 /\ buf = <<src0[srcOff]>>
          /\ disk["in"] = src0 /\ srcOff <= Len(src0) /\ off = dstOff
      BY <1>1 DEF CopiesInv, TeeInv, Files, off
    <3>2. dstOff' = srcOff BY <1>1, <2>1, <3>1
    <3>3. CASE out = "in"
      <4>1. srcOff \in 1..Len(src0) BY <1>1, <3>1
      <4>2. PWrite(src0, srcOff - 1, <<src0[srcOff]>>) = src0 BY <1>1, <4>1, WriteBack
      <4> QED BY <2>3, <3>1, <3>2, <3>3, <4>2
    <3>4. CASE out = "out" BY <2>6, <3>1, <3>2, <3>4
    <3> QED BY <1>1, <3>3, <3>4
  <2> QED BY <2>5, <2>8, <2>9, <2>10 DEF CopiesInv
<1> QED BY <1>4, <1>5

-----------------------------------------------------------------------------
\* Every step preserves the invariant.
LEMMA CopyNextInv == CopiesInv /\ [CopyNext]_copyVars => CopiesInv'
<1> SUFFICES ASSUME CopiesInv, [CopyNext]_copyVars PROVE CopiesInv' OBVIOUS
<1>1. CASE UNCHANGED copyVars
  BY <1>1 DEF copyVars, CopiesInv, CopyTypeOK, Files, CpInv, CopyInv, TeeInv, CpDisk, HoldsByte,
              CopyIsPrefix
<1>2. CASE Step
  BY <1>2, OpenIInv, CloseIInv, CopyReadIInv, CopyWriteIInv, CpReadIInv, CpSeekIInv,
     CpWriteIInv, TeeReadIInv, TeeStdoutIInv, TeeWriteIInv DEF Step
<1>3. CASE ErrExit BY <1>3, ErrExitIInv
<1> QED BY <1>1, <1>2, <1>3 DEF CopyNext, CopyEnded

\* The strengthened invariant holds throughout.
THEOREM CopyInvariance == CopySpec => []CopiesInv
BY CopyInitInv, CopyNextInv, PTL DEF CopySpec

\* The type invariant for every input, target, buffer size and capacity: in
\* particular no read() of copy.c overruns its buffer.
THEOREM CopyTypeCorrect == CopySpec => []CopyTypeOK
<1>1. CopiesInv => CopyTypeOK BY DEF CopiesInv
<1> QED BY <1>1, CopyInvariance, PTL

\* No program harms its input, except copy (O_TRUNC) and tee -a when the
\* output is the input.
THEOREM SourceIsKept == CopySpec => []SourceKept
<1>1. CopiesInv => SourceKept
  BY DEF CopiesInv, CopyTypeOK, Progs, Files, CpInv, TeeInv, SourceKept
<1> QED BY <1>1, CopyInvariance, PTL

\* OUT of copy.c is as it was or a prefix of IN, and all of IN after a success.
THEOREM CopyCopiesAPrefix == CopySpec => []CopyIsPrefix
<1>1. CopiesInv => CopyIsPrefix BY DEF CopiesInv, CopyInv, CopyIsPrefix
<1> QED BY <1>1, CopyInvariance, PTL

\* After a successful cp every byte of IN that is not null is in its place, and
\* nothing else of OUT changed except that holes appeared.
THEOREM CpPutsBytesInPlace == CopySpec => []CpKeepsPlaces
<1>1. CopiesInv => CpKeepsPlaces
  <2> SUFFICES ASSUME CopiesInv, program = "cp", exitStatus = "success" PROVE CpKeepsPlaces
    BY DEF CpKeepsPlaces
  <2>1. CpDisk(Len(src0)) BY DEF CopiesInv, CpInv
  <2>2. Len(src0) \in Nat /\ Len(disk[out]) \in Nat BY DEF CopiesInv, CopyTypeOK
  <2> DEFINE data == {k \in 1..Len(src0) : src0[k] # NUL}
  <2>3. \A k \in data : k <= Len(disk[out]) /\ disk[out][k] = src0[k]
    BY <2>1 DEF CpDisk
  <2>4. ASSUME NEW k \in (1..Len(disk[out])) \ data
        PROVE  disk[out][k] = IF k <= Len(dst0) THEN dst0[k] ELSE NUL
    <3>1. k > Len(src0) \/ src0[k] = NUL BY <2>2
    <3> QED BY <2>1, <3>1 DEF CpDisk
  <2>5. Len(dst0) <= Len(disk[out]) /\ (Len(disk[out]) = Len(dst0) \/ Len(disk[out]) \in data)
    BY <2>1 DEF CpDisk
  <2> QED BY <2>3, <2>4, <2>5 DEF CpKeepsPlaces
<1> QED BY <1>1, CopyInvariance, PTL

-----------------------------------------------------------------------------
(* tee.c: what went to the standard output, and what to the file.          *)

\* The standard output has the bytes read, but the one in hand; the file has
\* those of the standard output, but the one about to be written.
TeeOutput ==
  program \in Tees =>
    /\ place \in {"open", "read", "stdout", "write", "close", "done"}
    /\ Len(stdout) <= Len(disk["in"])
    /\ \A k \in 1..Len(stdout) : stdout[k] = disk["in"][k]
    /\ place \in {"open", "read"} => teed = Len(stdout) /\ srcOff = teed
    /\ place = "stdout" =>
         teed = Len(stdout) /\ srcOff = teed + 1 /\ buf = <<disk["in"][srcOff]>>
    /\ place = "write" =>
         teed + 1 = Len(stdout) /\ srcOff = teed + 1 /\ buf = <<disk["in"][srcOff]>>
    /\ place = "close" \/ exitStatus = "success" => teed = Len(stdout) /\ teed = Len(disk["in"])
    /\ teed = Len(stdout) \/ teed + 1 = Len(stdout)

\* The bytes teed are over the old ones, or behind them.
TeeFile ==
  /\ program = "tee" =>
       /\ Len(disk[out]) = IF teed < Len(dst0) THEN Len(dst0) ELSE teed
       /\ \A k \in 1..Len(disk[out]) :
            disk[out][k] = IF k <= teed THEN stdout[k] ELSE dst0[k]
  /\ program = "tee_append" =>
       /\ Len(disk[out]) = Len(dst0) + teed
       /\ \A k \in 1..Len(disk[out]) :
            disk[out][k] = IF k <= Len(dst0) THEN dst0[k] ELSE stdout[k - Len(dst0)]

TeeUse == CopiesInv /\ TeeOutput /\ TeeFile

\* These facts hold at the start.
LEMMA InitTee == CopyInit => TeeUse
<1> SUFFICES ASSUME CopyInit PROVE TeeUse OBVIOUS
<1>1. CopiesInv BY CopyInitInv
<1>2. disk["in"] = src0 /\ disk[out] = dst0 BY DEF CopyInit
<1>3. src0 \in Seq(Nat) /\ dst0 \in Seq(Nat) BY <1>1 DEF CopiesInv, CopyTypeOK
<1>4. Len(stdout) = 0 /\ teed = 0 /\ srcOff = 0 /\ place = "open" /\ exitStatus = "none" BY DEF CopyInit
<1>5. TeeOutput BY <1>2, <1>3, <1>4 DEF TeeOutput
<1>6. TeeFile BY <1>2, <1>3, <1>4 DEF TeeFile
<1> QED BY <1>1, <1>5, <1>6 DEF TeeUse

\* A step that moves only place and exit, and does not end with success.
LEMMA MoveTee ==
  ASSUME TeeUse, place' \in {"read", "done"}, exitStatus' # "success", place' = "read" => place = "open",
         UNCHANGED <<program, disk, out, srcOff, buf, stdout, teed, dst0>>
  PROVE  TeeOutput' /\ TeeFile'
BY DEF TeeUse, TeeOutput, TeeFile

\* tee reads a byte, or the end of its input.
LEMMA TeeReadTee == TeeUse /\ TeeRead => TeeOutput' /\ TeeFile'
<1> SUFFICES ASSUME TeeUse, TeeRead PROVE TeeOutput' /\ TeeFile' OBVIOUS
<1>1. /\ \/ buf' = << >> /\ srcOff' = srcOff /\ srcOff = Len(disk["in"])
         \/ /\ buf' = <<disk["in"][srcOff + 1]>>
            /\ srcOff' = srcOff + 1 /\ srcOff + 1 <= Len(disk["in"])
      /\ buf' \in Seq(Nat)
  BY ReadOne DEF TeeRead, TeeUse, CopiesInv
<1>2. /\ program \in Tees /\ place = "read" /\ exitStatus # "success"
      /\ UNCHANGED <<program, disk, out, seekable, dstOff, inHole, stdout, exitStatus, teed,
                     src0, dst0>>
      /\ place' = IF buf' = << >> THEN "close" ELSE "stdout"
  BY DEF TeeRead, TeeUse, CopiesInv, Files
<1>3. srcOff = teed /\ teed = Len(stdout) BY <1>2 DEF TeeUse, TeeOutput
<1>4. TeeOutput'
  <2>1. CASE buf' = << >>
    <3>1. Len(<<disk["in"][srcOff + 1]>>) = 1 /\ Len(<< >>) = 0 OBVIOUS
    <3>2. srcOff = Len(disk["in"]) BY <1>1, <2>1, <3>1
    <3> QED BY <1>2, <1>3, <2>1, <3>2 DEF TeeUse, TeeOutput
  <2>2. CASE buf' # << >>
    <3>1. buf' = <<disk["in"][srcOff + 1]>> /\ srcOff' = srcOff + 1 /\ place' = "stdout"
      BY <1>1, <1>2, <2>2
    <3> QED BY <1>2, <1>3, <3>1 DEF TeeUse, TeeOutput
  <2> QED BY <2>1, <2>2
<1>5. TeeFile' BY <1>2 DEF TeeUse, TeeFile
<1> QED BY <1>4, <1>5

\* tee writes the byte to its standard output.
LEMMA TeeStdoutTee == TeeUse /\ TeeStdout => TeeOutput' /\ TeeFile'
<1> SUFFICES ASSUME TeeUse, TeeStdout PROVE TeeOutput' /\ TeeFile' OBVIOUS
<1> DEFINE b == disk["in"][srcOff]
<1>1. /\ program \in Tees /\ place = "stdout" /\ place' = "write" /\ exitStatus # "success"
      /\ stdout' = stdout \o buf
      /\ UNCHANGED <<program, disk, out, seekable, srcOff, dstOff, buf, inHole, exitStatus,
                     teed, src0, dst0>>
  BY DEF TeeStdout, TeeUse, CopiesInv, Files
<1>2. teed = Len(stdout) /\ srcOff = teed + 1 /\ buf = <<b>>
  BY <1>1 DEF TeeUse, TeeOutput
<1>3. /\ stdout \in Seq(Nat) /\ teed \in Nat /\ srcOff \in Nat /\ srcOff <= Len(disk["in"])
      /\ disk["in"] \in Seq(Nat) /\ dst0 \in Seq(Nat) /\ disk[out] \in Seq(Nat)
  BY DEF TeeUse, CopiesInv, CopyTypeOK, Files
<1>4. b \in Nat BY <1>2, <1>3
<1> HIDE DEF b
<1>5. /\ Len(stdout') = teed + 1 /\ stdout'[teed + 1] = b
      /\ \A k \in 1..teed : stdout'[k] = stdout[k]
  BY <1>1, <1>2, <1>3, <1>4
<1>6. ASSUME NEW k \in 1..Len(stdout') PROVE stdout'[k] = disk["in"][k]
  <2>1. CASE k = teed + 1 BY <1>2, <1>5, <2>1 DEF b
  <2>2. CASE k # teed + 1
    <3>1. k \in 1..teed BY <1>3, <1>5, <2>2
    <3> QED BY <1>1, <1>2, <1>5, <3>1 DEF TeeUse, TeeOutput
  <2> QED BY <2>1, <2>2
<1>7. TeeOutput' BY <1>1, <1>2, <1>3, <1>5, <1>6 DEF TeeOutput, b
<1>8. TeeFile'
  <2>1. ASSUME program = "tee", NEW k \in 1..Len(disk[out])
        PROVE  disk[out][k] = IF k <= teed THEN stdout'[k] ELSE dst0[k]
    <3>1. k <= teed => k \in 1..teed BY <1>3
    <3> QED BY <1>5, <2>1, <3>1 DEF TeeUse, TeeFile
  <2>2. ASSUME program = "tee_append", NEW k \in 1..Len(disk[out])
        PROVE  disk[out][k] = IF k <= Len(dst0) THEN dst0[k] ELSE stdout'[k - Len(dst0)]
    <3>1. Len(disk[out]) = Len(dst0) + teed BY <2>2 DEF TeeUse, TeeFile
    <3>2. ~(k <= Len(dst0)) => k - Len(dst0) \in 1..teed BY <1>3, <3>1
    <3> QED BY <1>5, <2>2, <3>2 DEF TeeUse, TeeFile
  <2> QED BY <1>1, <2>1, <2>2 DEF TeeUse, TeeFile
<1> QED BY <1>7, <1>8

\* tee writes the byte to the file: over the old one, or behind them all.
LEMMA TeeWriteTee == TeeUse /\ TeeWrite => TeeOutput' /\ TeeFile'
<1> SUFFICES ASSUME TeeUse, TeeWrite PROVE TeeOutput' /\ TeeFile' OBVIOUS
<1> DEFINE off == IF program = "tee_append" THEN Len(disk[out]) ELSE dstOff
           b == stdout[teed + 1]
<1>1. /\ program \in Tees /\ place = "write" /\ exitStatus # "success"
      /\ UNCHANGED <<program, out, seekable, srcOff, buf, inHole, stdout, src0, dst0>>
  BY DEF TeeWrite, TeeUse, CopiesInv, Files
<1>2. /\ teed + 1 = Len(stdout) /\ srcOff = teed + 1 /\ buf = <<disk["in"][srcOff]>>
      /\ Len(stdout) <= Len(disk["in"]) /\ \A k \in 1..Len(stdout) : stdout[k] = disk["in"][k]
  BY <1>1 DEF TeeUse, TeeOutput
<1>3. /\ stdout \in Seq(Nat) /\ teed \in Nat /\ dstOff \in Nat /\ out \in {"in", "out"}
      /\ disk["in"] \in Seq(Nat) /\ dst0 \in Seq(Nat) /\ disk[out] \in Seq(Nat)
  BY DEF TeeUse, CopiesInv, CopyTypeOK
<1>4. teed + 1 \in 1..Len(stdout) /\ buf = <<b>> /\ b \in Nat BY <1>2, <1>3
<1>5. CASE Fit(off, 1) # 1
  <2>1. place' = "done" /\ exitStatus' = "failure" /\ UNCHANGED <<disk, dstOff, teed>>
    BY <1>5 DEF TeeWrite, Give_up
  <2> QED BY <1>1, <2>1, MoveTee
<1>6. CASE Fit(off, 1) = 1
  <2>1. /\ disk' = [disk EXCEPT ![out] = PWrite(disk[out], off, buf)]
        /\ teed' = teed + 1 /\ place' = "read" /\ exitStatus' = exitStatus
    BY <1>6 DEF TeeWrite
  <2>2. off \in Nat /\ (program = "tee" => off = teed) /\ (program = "tee_append" => off = Len(dst0) + teed)
    <3>1. program = "tee" => dstOff = srcOff - 1 BY <1>1 DEF TeeUse, CopiesInv, TeeInv
    <3>2. program = "tee_append" => off = Len(dst0) + teed BY DEF TeeUse, TeeFile
    <3> QED BY <1>1, <1>2, <1>3, <3>1, <3>2 DEF Tees
  <2> HIDE DEF off, b
  <2>3. buf \in Seq(Nat) /\ Len(buf) = 1 /\ buf[1] = b BY <1>4
  <2>0. PICK after : after = disk'[out] OBVIOUS
  <2>4. after = PWrite(disk[out], off, buf) BY <1>3, <2>0, <2>1 DEF TeeUse, CopiesInv, CopyTypeOK
  <2>5. /\ after \in Seq(Nat)
        /\ Len(after) = IF Len(disk[out]) < off + 1 THEN off + 1 ELSE Len(disk[out])
        /\ \A k \in 1..Len(after) :
             after[k] = IF off < k /\ k <= off + 1 THEN buf[k - off]
                      ELSE IF k <= Len(disk[out]) THEN disk[out][k] ELSE NUL
    <3>1. /\ after \in Seq(Nat)
          /\ Len(after) = IF Len(disk[out]) < off + Len(buf) THEN off + Len(buf) ELSE Len(disk[out])
          /\ \A k \in 1..Len(after) :
               after[k] = IF off < k /\ k <= off + Len(buf) THEN buf[k - off]
                        ELSE IF k <= Len(disk[out]) THEN disk[out][k] ELSE NUL
      <4> DEFINE target == disk[out]
      <4>1. target \in Seq(Nat) /\ off \in Nat /\ after = PWrite(target, off, buf) BY <1>3, <2>2, <2>4
      <4> HIDE DEF target
      <4>2. /\ after \in Seq(Nat)
            /\ Len(after) = IF Len(target) < off + Len(buf) THEN off + Len(buf) ELSE Len(target)
            /\ \A k \in 1..Len(after) :
                 after[k] = IF off < k /\ k <= off + Len(buf) THEN buf[k - off]
                          ELSE IF k <= Len(target) THEN target[k] ELSE NUL
        BY <2>3, <4>1, PWriteBytes, Zenon
      <4> QED BY <4>2 DEF target
    <3> QED BY <2>3, <3>1
  <2>6. \A k \in 1..Len(after) :
          after[k] = IF k = off + 1 THEN b
                   ELSE IF k <= Len(disk[out]) THEN disk[out][k] ELSE NUL
    <3>1. ASSUME NEW k \in 1..Len(after) PROVE (off < k /\ k <= off + 1) <=> k = off + 1
      BY <2>2
    <3>2. (off + 1) - off = 1 BY <2>2
    <3> QED BY <2>3, <2>5, <3>1, <3>2
  <2>7. TeeFile'
    <3>1. CASE program = "tee"
      <4>1. /\ Len(disk[out]) = IF teed < Len(dst0) THEN Len(dst0) ELSE teed
            /\ \A k \in 1..Len(disk[out]) :
                 disk[out][k] = IF k <= teed THEN stdout[k] ELSE dst0[k]
        BY <3>1 DEF TeeUse, TeeFile
      <4>2. Len(after) = IF teed' < Len(dst0) THEN Len(dst0) ELSE teed'
        BY <1>3, <2>1, <2>2, <2>5, <3>1, <4>1
      <4>3. ASSUME NEW k \in 1..Len(after)
            PROVE  after[k] = IF k <= teed' THEN stdout[k] ELSE dst0[k]
        <5>1. CASE k = off + 1 BY <1>3, <2>1, <2>2, <2>6, <3>1, <5>1 DEF b
        <5>2. CASE k # off + 1
          <6>1. k \in 1..Len(disk[out]) BY <1>3, <2>2, <2>5, <3>1, <4>1, <5>2
          <6>0. k <= Len(disk[out]) BY <1>3, <6>1
          <6>2. after[k] = disk[out][k] BY <2>6, <5>2, <6>0
          <6>3. k <= teed' <=> k <= teed BY <1>3, <2>1, <2>2, <3>1, <5>2
          <6> QED BY <4>1, <6>1, <6>2, <6>3
        <5> QED BY <5>1, <5>2
      <4> QED BY <1>1, <3>1, <2>0, <4>2, <4>3 DEF TeeFile
    <3>2. CASE program = "tee_append"
      <4>1. /\ Len(disk[out]) = Len(dst0) + teed
            /\ \A k \in 1..Len(disk[out]) :
                 disk[out][k] = IF k <= Len(dst0) THEN dst0[k] ELSE stdout[k - Len(dst0)]
        BY <3>2 DEF TeeUse, TeeFile
      <4>2. Len(after) = Len(dst0) + teed' BY <1>3, <2>1, <2>2, <2>5, <3>2, <4>1
      <4>3. ASSUME NEW k \in 1..Len(after)
            PROVE  after[k] = IF k <= Len(dst0) THEN dst0[k] ELSE stdout[k - Len(dst0)]
        <5>1. CASE k = off + 1
          <6>1. k - Len(dst0) = teed + 1 /\ ~(k <= Len(dst0)) BY <1>3, <2>2, <3>2, <5>1
          <6> QED BY <2>6, <5>1, <6>1 DEF b
        <5>2. CASE k # off + 1
          <6>a. k \in 1..(Len(dst0) + teed') BY <4>2
          <6>1. k \in 1..Len(disk[out]) BY <1>3, <2>1, <2>2, <3>2, <4>1, <5>2, <6>a
          <6>0. k <= Len(disk[out]) BY <1>3, <6>1
          <6>2. after[k] = disk[out][k] BY <2>6, <5>2, <6>0
          <6> QED BY <4>1, <6>1, <6>2
        <5> QED BY <5>1, <5>2
      <4> QED BY <1>1, <3>2, <2>0, <4>2, <4>3 DEF TeeFile
    <3> QED BY <1>1, <3>1, <3>2 DEF Tees
  <2>8. Len(disk["in"]) <= Len(disk'["in"]) /\ \A k \in 1..Len(stdout) : stdout[k] = disk'["in"][k]
    <3>1. CASE out = "out"
      <4>1. disk'["in"] = disk["in"] BY <2>1, <3>1 DEF TeeUse, CopiesInv, CopyTypeOK
      <4> QED BY <1>2, <1>3, <4>1
    <3>2. CASE out = "in"
      <4>1. disk'["in"] = after BY <2>0, <3>2
      <4>2. Len(disk["in"]) <= Len(after) BY <1>3, <2>2, <2>5, <3>2
      <4>3. ASSUME NEW k \in 1..Len(stdout) PROVE stdout[k] = after[k]
        <5>0. Len(stdout) \in Nat /\ Len(disk["in"]) \in Nat /\ Len(after) \in Nat BY <1>3, <2>5
        <5>1. k \in 1..Len(disk["in"]) /\ k \in 1..Len(after) BY <1>2, <4>2, <5>0
        <5>2. CASE k = off + 1
          <6>1. CASE program = "tee" BY <2>2, <2>6, <5>1, <5>2, <6>1 DEF b
          <6>2. CASE program = "tee_append"
            <7>1. k = Len(disk["in"]) + 1 BY <3>2, <5>2, <6>2 DEF off
            <7> QED BY <1>3, <5>1, <7>1
          <6> QED BY <1>1, <6>1, <6>2 DEF Tees
        <5>3. CASE k # off + 1 BY <1>2, <1>3, <2>6, <3>2, <5>1, <5>3
        <5> QED BY <5>2, <5>3
      <4> QED BY <4>1, <4>2, <4>3
    <3> QED BY <1>3, <3>1, <3>2
  <2>9. disk'["in"] \in Seq(Nat)
    BY <1>3, <2>0, <2>1, <2>5 DEF TeeUse, CopiesInv, CopyTypeOK
  <2>10. TeeOutput'
    <3>1. Len(stdout) <= Len(disk'["in"])
      <4>1. Len(stdout) \in Nat /\ Len(disk["in"]) \in Nat /\ Len(disk'["in"]) \in Nat
        BY <1>3, <2>9
      <4> QED BY <1>2, <2>8, <4>1
    <3> QED BY <1>1, <1>2, <1>3, <2>1, <2>8, <3>1 DEF TeeOutput
  <2> QED BY <2>7, <2>10
<1> QED BY <1>5, <1>6

\* Every step keeps what tee has written.
LEMMA NextTee == TeeUse /\ [CopyNext]_copyVars => TeeUse'
<1> SUFFICES ASSUME TeeUse, [CopyNext]_copyVars PROVE TeeUse' OBVIOUS
<1>1. CopiesInv' BY CopyNextInv DEF TeeUse
<1>2. CASE program \notin Tees
  <2>1. UNCHANGED program
    BY DEF CopyNext, Step, ErrExit, CopyEnded, copyVars, Open, Close, CopyRead, CopyWrite, CpRead, CpSeek,
           CpWrite, TeeRead, TeeStdout, TeeWrite
  <2> QED BY <1>1, <1>2, <2>1 DEF TeeUse, TeeOutput, TeeFile, Tees
<1>3. CASE program \in Tees
  <2>1. CASE Open
    BY <1>1, <1>3, <2>1, MoveTee DEF Open, TeeUse, CopiesInv, Files, Tees
  <2>2. CASE ErrExit BY <1>1, <2>2, MoveTee DEF ErrExit, Give_up, TeeUse
  <2>3. CASE Close
    <3>1. TeeOutput' BY <2>3 DEF Close, TeeUse, TeeOutput
    <3>2. TeeFile' BY <2>3 DEF Close, TeeUse, TeeFile
    <3> QED BY <1>1, <3>1, <3>2 DEF TeeUse
  <2>4. CASE TeeRead \/ TeeStdout \/ TeeWrite
    BY <1>1, <2>4, TeeReadTee, TeeStdoutTee, TeeWriteTee DEF TeeUse
  <2>5. CASE UNCHANGED copyVars
    BY <1>1, <2>5 DEF TeeUse, TeeOutput, TeeFile, copyVars
  <2> QED
    BY <1>3, <2>1, <2>2, <2>3, <2>4, <2>5
    DEF CopyNext, Step, CopyEnded, Tees, CopyRead, CopyWrite, CpRead, CpSeek, CpWrite
<1> QED BY <1>2, <1>3

\* tee.c keeps the file in step with its standard output, at every moment.
LEMMA TeeStaysInStep ==
  ASSUME TeeUse
  PROVE  TeeInStep
<1> SUFFICES ASSUME program \in Tees PROVE TeeInStep BY DEF TeeInStep
<1> DEFINE in == disk["in"]
           target == disk[out]
           bytes == SubSeq(stdout, 1, teed)
<1>1. /\ stdout \in Seq(Nat) /\ teed \in Nat /\ in \in Seq(Nat) /\ target \in Seq(Nat)
      /\ dst0 \in Seq(Nat)
  BY DEF TeeUse, CopiesInv, CopyTypeOK
<1>2. /\ Len(stdout) <= Len(in) /\ \A k \in 1..Len(stdout) : stdout[k] = in[k]
      /\ teed = Len(stdout) \/ teed + 1 = Len(stdout)
      /\ exitStatus = "success" => teed = Len(stdout) /\ teed = Len(in)
  BY DEF TeeUse, TeeOutput
<1>3. /\ bytes \in Seq(Nat) /\ Len(bytes) = teed
      /\ \A k \in 1..teed : bytes[k] = stdout[k]
  <2>1. 0 + teed <= Len(stdout) BY <1>1, <1>2
  <2>2. /\ SubSeq(stdout, 0 + 1, 0 + teed) \in Seq(Nat)
        /\ Len(SubSeq(stdout, 0 + 1, 0 + teed)) = teed
        /\ \A k \in 1..teed : SubSeq(stdout, 0 + 1, 0 + teed)[k] = stdout[0 + k]
    BY <1>1, <2>1, Piece
  <2>3. 0 + 1 = 1 /\ 0 + teed = teed /\ \A k \in 1..teed : 0 + k = k BY <1>1
  <2> QED BY <2>2, <2>3
<1>4. stdout = SubSeq(in, 1, Len(stdout))
  <2> DEFINE n == Len(stdout)
             t == SubSeq(in, 1, n)
  <2>1. n \in Nat /\ 0 + n <= Len(in) BY <1>1, <1>2
  <2>2. /\ SubSeq(in, 0 + 1, 0 + n) \in Seq(Nat) /\ Len(SubSeq(in, 0 + 1, 0 + n)) = n
        /\ \A k \in 1..n : SubSeq(in, 0 + 1, 0 + n)[k] = in[0 + k]
    BY <1>1, <2>1, Piece, SMTT(20)
  <2>3. 0 + 1 = 1 /\ 0 + n = n /\ \A k \in 1..n : 0 + k = k BY <2>1
  <2>4. t \in Seq(Nat) /\ Len(t) = n /\ \A k \in 1..n : t[k] = in[k] BY <2>2, <2>3
  <2> HIDE DEF t
  <2>5. stdout = t BY <1>1, <1>2, <2>4, SameBytes
  <2> QED BY <2>5 DEF t
<1> HIDE DEF bytes, in, target
<1>5. ASSUME exitStatus = "success" PROVE teed = Len(stdout) /\ stdout = in
  BY <1>1, <1>2, <1>5, SameBytes
<1>6. ASSUME program = "tee" PROVE target = PWrite(dst0, 0, bytes)
  <2>1. /\ Len(target) = IF teed < Len(dst0) THEN Len(dst0) ELSE teed
        /\ \A k \in 1..Len(target) : target[k] = IF k <= teed THEN stdout[k] ELSE dst0[k]
    BY <1>6 DEF TeeUse, TeeFile, target
  <2> DEFINE w == PWrite(dst0, 0, bytes)
  <2>2. /\ w \in Seq(Nat)
        /\ Len(w) = IF Len(dst0) < 0 + Len(bytes) THEN 0 + Len(bytes) ELSE Len(dst0)
        /\ \A k \in 1..Len(w) : w[k] = IF 0 < k /\ k <= 0 + Len(bytes) THEN bytes[k - 0]
                                      ELSE IF k <= Len(dst0) THEN dst0[k] ELSE NUL
    BY <1>1, <1>3, PWriteBytes
  <2> HIDE DEF w
  <2>3. Len(w) = Len(target) BY <1>1, <1>3, <2>1, <2>2
  <2>4. ASSUME NEW k \in 1..Len(target) PROVE target[k] = w[k]
    <3>1. CASE k <= teed
      <4>1. k \in 1..teed /\ k - 0 = k BY <1>1, <3>1
      <4>2. w[k] = bytes[k] BY <1>3, <2>2, <2>3, <4>1
      <4> QED BY <1>3, <2>1, <3>1, <4>1, <4>2
    <3>2. CASE ~(k <= teed)
      <4>1. k <= Len(dst0) BY <1>1, <2>1, <3>2
      <4> QED BY <1>1, <1>3, <2>1, <2>2, <2>3, <3>2, <4>1
    <3> QED BY <3>1, <3>2
  <2>5. target = w BY <1>1, <2>2, <2>3, <2>4, SameBytes
  <2> QED BY <2>5 DEF w
<1>7. ASSUME program = "tee_append" PROVE target = dst0 \o bytes
  <2>1. /\ Len(target) = Len(dst0) + teed
        /\ \A k \in 1..Len(target) :
             target[k] = IF k <= Len(dst0) THEN dst0[k] ELSE stdout[k - Len(dst0)]
    BY <1>7 DEF TeeUse, TeeFile, target
  <2> DEFINE c == dst0 \o bytes
  <2>2. c \in Seq(Nat) /\ Len(c) = Len(dst0) + teed
    <3>1. c \in Seq(Nat) /\ Len(c) = Len(dst0) + Len(bytes) BY <1>1, <1>3, ConcatProperties
    <3> QED BY <1>3, <3>1
  <2>3. ASSUME NEW k \in 1..Len(target) PROVE target[k] = c[k]
    <3>0. \A m \in 1..(Len(dst0) + Len(bytes)) :
             c[m] = IF m <= Len(dst0) THEN dst0[m] ELSE bytes[m - Len(dst0)]
      <4>1. dst0 \in Seq(Nat) /\ bytes \in Seq(Nat) BY <1>1, <1>3
      <4> QED BY ONLY <4>1, ConcatProperties
    <3> HIDE DEF c
    <3>3. Len(bytes) = teed /\ k \in 1..(Len(dst0) + Len(bytes)) BY <1>3, <2>1
    <3>1. CASE k <= Len(dst0)
      <4>1. c[k] = dst0[k] BY <3>0, <3>1, <3>3
      <4> QED BY <2>1, <3>1, <4>1
    <3>2. CASE ~(k <= Len(dst0))
      <4>1. k - Len(dst0) \in 1..teed BY <1>1, <2>1, <3>2
      <4>2. c[k] = bytes[k - Len(dst0)] BY <3>0, <3>2, <3>3
      <4> QED BY <1>3, <2>1, <3>2, <4>1, <4>2
    <3> QED BY <3>1, <3>2
  <2> HIDE DEF c
  <2>4. target = c BY <1>1, <2>1, <2>2, <2>3, SameBytes
  <2> QED BY <2>4 DEF c
<1>8. teed \in {Len(stdout) - 1, Len(stdout)} BY <1>1, <1>2
<1>9. target = IF program = "tee_append" THEN dst0 \o bytes ELSE PWrite(dst0, 0, bytes)
  BY <1>6, <1>7 DEF Tees
<1> QED BY <1>4, <1>5, <1>8, <1>9 DEF TeeInStep, in, target, bytes

\* A file appended to itself grows as fast as it is read: no success.
LEMMA SelfAppendFails ==
  ASSUME TeeUse
  PROVE  SelfAppendNeverSucceeds
<1> SUFFICES ASSUME program = "tee_append", out = "in", src0 # << >>, exitStatus = "success" PROVE FALSE
  BY DEF SelfAppendNeverSucceeds
<1>1. teed = Len(disk["in"]) BY DEF TeeUse, TeeOutput, Tees
<1>2. Len(disk["in"]) = Len(dst0) + teed BY DEF TeeUse, TeeFile
<1>3. dst0 = src0 /\ src0 \in Seq(Nat) /\ teed \in Nat BY DEF TeeUse, CopiesInv, Files, CopyTypeOK
<1>4. Len(src0) # 0 BY <1>3, OnlyEmpty
<1> QED BY <1>1, <1>2, <1>3, <1>4

\* At every moment and however the program ends, copy, cp and tee have done
\* to OUT what they should have done with the bytes consumed so far; and
\* "tee -a f <f" never ends with success.
THEOREM EveryCopyInStep == CopySpec => []CopiedInStep
<1>1. CopySpec => []TeeUse BY InitTee, NextTee, PTL DEF CopySpec
<1>2. TeeUse => TeeInStep /\ SelfAppendNeverSucceeds BY TeeStaysInStep, SelfAppendFails
<1> QED
  BY <1>1, <1>2, CopyTypeCorrect, CopyCopiesAPrefix, CpPutsBytesInPlace, PTL DEF CopiedInStep
=============================================================================
