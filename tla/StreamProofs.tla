---------------------------- MODULE StreamProofs ----------------------------
(***************************************************************************)
(* Proofs about StreamFunctions as PassSystems instantiates it: for any    *)
(* stream, buffers and numbers of addresses and faults.  The inductive     *)
(* invariant, IInv, is defined in StreamFunctions.                         *)
(***************************************************************************)
EXTENDS PassSystems, SequenceTheorems, FiniteSetTheorems, TLAPS

\* The part of a sequence after its first a and up to its first b.
LEMMA StrPart ==
  ASSUME NEW S, NEW s \in Seq(S), NEW a \in Nat, NEW b \in Nat, a <= b, b <= Len(s)
  PROVE  /\ SubSeq(s, a + 1, b) \in Seq(S) /\ Len(SubSeq(s, a + 1, b)) = b - a
         /\ \A i \in 1..(b - a) : SubSeq(s, a + 1, b)[i] = s[a + i]
<1>1. Len(s) \in Nat /\ a + 1 \in Int /\ b \in Int /\ \A i \in 1..Len(s) : s[i] \in S
  OBVIOUS
<1>2. \A i \in (a + 1)..b : s[i] \in S
  BY <1>1
<1>3. /\ SubSeq(s, a + 1, b) \in Seq(S) /\ Len(SubSeq(s, a + 1, b)) = IF a + 1 <= b THEN b - (a + 1) + 1 ELSE 0
      /\ \A i \in 1..(b - (a + 1) + 1) : SubSeq(s, a + 1, b)[i] = s[(a + 1) + i - 1]
  BY <1>1, <1>2, SubSeqProperties
<1>4. \A i \in 1..(b - a) : SubSeq(s, a + 1, b)[i] = s[a + i]
  <2> TAKE i \in 1..(b - a)
  <2>1. i \in 1..(b - (a + 1) + 1) /\ (a + 1) + i - 1 = a + i
    OBVIOUS
  <2> QED
    BY <1>3, <2>1
<1> QED
  BY <1>3, <1>4

\* Bytes of the stream are delivered after those that were.
LEMMA StrDelivers ==
  ASSUME Streams!TypeOK, NEW k \in Nat, NEW j \in Nat, NEW x \in Nat, x = k + Len(v5.bytes), x + j <= Len(v3.all),
         Streams!Delivered(k) \/ (Len(v5.bytes) = 0), v3'.all = v3.all, v5'.bytes = v5.bytes \o Streams!Bytes(x, x + j)
  PROVE  /\ Streams!Delivered(k)' /\ v5'.bytes \in Seq(Streams!Characters) /\ Len(v5'.bytes) = Len(v5.bytes) + j
<1> DEFINE C == Streams!Characters
           s == v5.bytes
           t == SubSeq(v3.all, x + 1, x + j)
           u == s \o t
           all == v3.all
<1>1. s \in Seq(C) /\ all \in Seq(C)
  BY DEF Streams!TypeOK, Streams!Outputs, Streams!Inputs
<1>2. t \in Seq(C) /\ Len(t) = j /\ \A i \in 1..j : t[i] = all[x + i]
  <2>1. x + j \in Nat /\ x <= x + j /\ (x + j) - x = j
    OBVIOUS
  <2> QED
    BY <1>1, <2>1, StrPart
<1>3. v5'.bytes = u /\ v3'.all = all
  BY DEF Streams!Bytes
<1>4. Streams!Delivered(k) => (\A i \in DOMAIN s : s[i] = all[k + i])
  BY DEF Streams!Delivered
<1>5. x = k + Len(s) /\ x + j <= Len(all) /\ (Streams!Delivered(k) \/ Len(s) = 0)
  OBVIOUS
<1> HIDE DEF C, s, t, all
<1>6. Len(s) \in Nat /\ Len(all) \in Nat /\ DOMAIN s = 1..Len(s)
  BY <1>1
<1>7. u \in Seq(C) /\ Len(u) = Len(s) + Len(t) /\ \A i \in 1..(Len(s) + Len(t)) : u[i] = IF i <= Len(s) THEN s[i] ELSE t[i - Len(s)]
  <2>1. s \in Seq(C) /\ t \in Seq(C)
    BY <1>1, <1>2
  <2> QED
    BY ONLY <2>1, ConcatProperties
<1>8. \A i \in 1..Len(s) : s[i] = all[k + i]
  <2>1. CASE Streams!Delivered(k)
    BY <1>4, <1>6, <2>1
  <2>2. CASE Len(s) = 0
    BY <2>2
  <2> QED
    BY <1>5, <2>1, <2>2
<1> HIDE DEF u
<1>9. \A i \in 1..(Len(s) + j) : u[i] = all[k + i]
  <2> TAKE i \in 1..(Len(s) + j)
  <2>1. CASE i <= Len(s)
    <3> DEFINE y == Len(s)
    <3>1. y \in Nat /\ i \in 1..(y + j) /\ i <= y
      BY <1>6, <2>1
    <3> HIDE DEF y
    <3>2. i \in 1..y /\ i \in 1..(y + j)
      BY <3>1
    <3>3. i \in 1..Len(s) /\ i \in 1..(Len(s) + Len(t))
      BY <1>2, <3>2 DEF y
    <3>4. u[i] = s[i]
      BY <1>7, <2>1, <3>3
    <3>5. s[i] = all[k + i]
      BY <1>8, <3>3
    <3> QED
      BY <3>4, <3>5
  <2>2. CASE ~(i <= Len(s))
    <3> DEFINE y == Len(s)
    <3>1. y \in Nat /\ x = k + y /\ i \in 1..(y + j) /\ ~(i <= y)
      BY <1>5, <1>6, <2>2
    <3> HIDE DEF y
    <3>2. i - y \in 1..j /\ x + (i - y) = k + i
      BY <3>1
    <3>3. i - Len(s) \in 1..j /\ x + (i - Len(s)) = k + i
      BY <3>2 DEF y
    <3> QED
      BY <1>2, <1>6, <1>7, <2>2, <3>3
  <2> QED
    BY <2>1, <2>2
<1>10. DOMAIN u = 1..(Len(s) + j) /\ Len(u) = Len(s) + j /\ k + Len(u) <= Len(all)
  BY <1>2, <1>5, <1>6, <1>7
<1>11. Streams!Delivered(k)'
  BY <1>3, <1>9, <1>10 DEF Streams!Delivered
<1> QED
  BY <1>3, <1>7, <1>10, <1>11 DEF s, C

LEMMA StrLonger ==
  ASSUME Streams!TypeOK, NEW j \in Nat, NEW x \in Nat, x + j <= Len(v3.all), v5'.bytes = v5.bytes \o Streams!Bytes(x, x + j)
  PROVE  v5'.bytes \in Seq(Streams!Characters) /\ Len(v5'.bytes) = Len(v5.bytes) + j
<1> DEFINE C == Streams!Characters
           s == v5.bytes
           all == v3.all
           t == SubSeq(all, x + 1, x + j)
<1>1. s \in Seq(C) /\ all \in Seq(C)
  BY DEF Streams!TypeOK, Streams!Outputs, Streams!Inputs
<1>2. v5'.bytes = s \o t /\ x + j \in Nat /\ x <= x + j /\ (x + j) - x = j /\ x + j <= Len(all)
  BY DEF Streams!Bytes
<1> HIDE DEF C, s, all
<1>3. t \in Seq(C) /\ Len(t) = j
  BY <1>1, <1>2, StrPart
<1> HIDE DEF t
<1>4. s \o t \in Seq(C) /\ Len(s \o t) = Len(s) + Len(t)
  BY ONLY <1>1, <1>3, ConcatProperties
<1> QED
  BY <1>2, <1>3, <1>4 DEF C, s

\* What follows the first k is a prefix of the stream after them.
LEMMA StrPrefix ==
  ASSUME Streams!TypeOK, NEW k \in Nat, Streams!Delivered(k)
  PROVE  Streams!IsPrefix(v5.bytes, SubSeq(v3.all, k + 1, Len(v3.all)))
<1> DEFINE C == Streams!Characters
           s == v5.bytes
           all == v3.all
           t == SubSeq(all, k + 1, Len(all))
<1>1. s \in Seq(C) /\ all \in Seq(C)
  BY DEF Streams!TypeOK, Streams!Outputs, Streams!Inputs
<1>2. k + Len(s) <= Len(all) /\ \A i \in DOMAIN s : s[i] = all[k + i]
  BY DEF Streams!Delivered
<1> HIDE DEF C, s, all
<1>3. Len(s) \in Nat /\ Len(all) \in Nat /\ DOMAIN s = 1..Len(s) /\ k <= Len(all)
  BY <1>1, <1>2
<1>4. t \in Seq(C) /\ Len(t) = Len(all) - k /\ \A i \in 1..(Len(all) - k) : t[i] = all[k + i]
  BY <1>1, <1>3, StrPart
<1> HIDE DEF t
<1>5. Len(s) <= Len(t) /\ \A i \in 1..Len(s) : s[i] = t[i]
  <2> DEFINE x == Len(s)
             y == Len(all)
  <2>1. x \in Nat /\ y \in Nat /\ k + x <= y
    BY <1>2, <1>3
  <2>2. Len(t) = y - k /\ (\A i \in 1..(y - k) : t[i] = all[k + i]) /\ \A i \in 1..x : s[i] = all[k + i]
    BY <1>2, <1>3, <1>4
  <2> HIDE DEF x, y
  <2>3. x <= y - k /\ \A i \in 1..x : i \in 1..(y - k)
    BY <2>1
  <2>4. x <= Len(t) /\ \A i \in 1..x : s[i] = t[i]
    BY <2>2, <2>3
  <2> QED
    BY <2>4 DEF x
<1>6. /\ SubSeq(s, 0 + 1, Len(s)) \in Seq(C) /\ Len(SubSeq(s, 0 + 1, Len(s))) = Len(s) - 0
      /\ \A i \in 1..(Len(s) - 0) : SubSeq(s, 0 + 1, Len(s))[i] = s[0 + i]
  BY <1>1, <1>3, StrPart
<1>7. /\ SubSeq(t, 0 + 1, Len(s)) \in Seq(C) /\ Len(SubSeq(t, 0 + 1, Len(s))) = Len(s) - 0
      /\ \A i \in 1..(Len(s) - 0) : SubSeq(t, 0 + 1, Len(s))[i] = t[0 + i]
  BY <1>3, <1>4, <1>5, StrPart
<1>8. Len(s) - 0 = Len(s) /\ 0 + 1 = 1 /\ \A i \in 1..Len(s) : 0 + i = i
  BY <1>3
<1>9. SubSeq(s, 1, Len(s)) = SubSeq(t, 1, Len(s))
  BY <1>5, <1>6, <1>7, <1>8, SeqEqual
<1> QED
  BY <1>5, <1>9 DEF Streams!IsPrefix, s, t, all

-----------------------------------------------------------------------------
LEMMA StrInit == Streams!Init => Streams!IInv
<1> SUFFICES ASSUME Streams!Init PROVE Streams!IInv
  OBVIOUS
<1> DEFINE C == Streams!Characters
<1>1. PICK s \in StrStreams, o \in {-1, 0, 1, 7} :
        /\ v2 \in (IF v1 = "writen" THEN 0..Len(s) ELSE StrCounts)
        /\ v3 = [all |-> s, pos |-> IF v1 = "sendfile" THEN 1 ELSE 0, offset |-> IF v1 = "sendfile" THEN o ELSE -1]
  BY DEF Streams!Init
<1>2. /\ v1 \in {"readn", "writen", "line", "sendfile", "connect", "listen", "bind", "unix"}
      /\ v4 = [pc |-> IF v1 = "sendfile" THEN "start" ELSE "loop", tot |-> 0, buf |-> <<>>, next |-> 0, line |-> <<>>, orig |-> 0, open |-> {}]
      /\ v5 = [bytes |-> <<>>, lines |-> <<>>, result |-> -2, offset |-> v3.offset]
      /\ v6 = [f \in {"eintr", "error", "partial", "socket", "address", "listen", "seek"} |-> 0]
  BY DEF Streams!Init
<1>3. s \in Seq(C) /\ Len(s) \in Nat
  BY StrBounds
<1>4. v3.all = s /\ v3.pos = (IF v1 = "sendfile" THEN 1 ELSE 0) /\ v3.offset \in Nat \cup {-1}
  BY <1>1
<1>5. v2 \in Nat /\ (v1 = "writen" => v2 <= Len(s)) /\ (v1 # "writen" => v2 > 0)
  BY <1>1, <1>3, StrBounds
<1>6. v3 \in Streams!Inputs
  BY <1>1, <1>3 DEF Streams!Inputs
<1>7. v4 \in Streams!States
  BY <1>2 DEF Streams!States
<1>8. v5 \in Streams!Outputs
  BY <1>2, <1>4 DEF Streams!Outputs
<1>9. v6 \in [{"eintr", "error", "partial", "socket", "address", "listen", "seek"} -> Nat]
  BY <1>2
<1>10. Streams!TypeOK
  BY <1>2, <1>5, <1>6, <1>7, <1>8, <1>9 DEF Streams!TypeOK
<1>11. /\ v4.pc = (IF v1 = "sendfile" THEN "start" ELSE "loop") /\ v4.tot = 0 /\ v4.buf = <<>> /\ v4.next = 0 /\ v4.line = <<>> /\ v4.open = {}
       /\ v5.bytes = <<>> /\ v5.lines = <<>> /\ v5.result = -2
  BY <1>2
<1>12. Len(<<>>) = 0 /\ DOMAIN <<>> = {}
  OBVIOUS
<1>13. Streams!Delivered(0)
  BY <1>3, <1>4, <1>11, <1>12 DEF Streams!Delivered
<1>14. v1 = "readn" => Streams!ReadInv
  BY <1>4, <1>11, <1>12, <1>13 DEF Streams!ReadInv
<1>15. v1 = "writen" => Streams!WriteInv
  BY <1>3, <1>4, <1>5, <1>11, <1>12, <1>13 DEF Streams!WriteInv
<1>16. v1 = "sendfile" => Streams!SendInv
  BY <1>11, <1>12 DEF Streams!SendInv, Streams!At
<1>17. v1 \in {"connect", "listen", "bind"} => Streams!SocketInv
  BY <1>11 DEF Streams!SocketInv, Streams!At
<1>18. v1 = "unix" => Streams!UnixInv
  BY <1>11 DEF Streams!UnixInv, Streams!At
<1>19. ASSUME v1 = "line" PROVE Streams!LineInv
  <2>1. v4.next = 0 /\ Len(v4.buf) = 0 /\ v3.pos = 0 /\ v4.pc = "loop" /\ v2 > 0 /\ DOMAIN v4.buf = {} /\ Len(v5.lines) = 0
    BY <1>4, <1>5, <1>11, <1>12, <1>19
  <2>2. Streams!Taken = 0
    BY <2>1 DEF Streams!Taken
  <2>3. \A j \in Streams!LineEnds : j \in Nat /\ j > 0
    BY <1>3, <1>4 DEF Streams!LineEnds
  <2>4. {j \in Streams!LineEnds : j <= 0} = {}
    BY <2>3
  <2>5. Streams!LinesTo(0) = 0
    BY <2>4, FS_EmptySet DEF Streams!LinesTo, Streams!Cardinality, Cardinality
  <2>6. Streams!LinesAreTo(0)
    BY <2>1, <2>3, <2>5 DEF Streams!LinesAreTo
  <2>7. Streams!Cut(0, 0) = <<>>
    <3>1. Streams!Least(0, 0 + v2) = 0
      BY <2>1, <1>5 DEF Streams!Least
    <3>2. SubSeq(v3.all, 0 + 1, 0) = <<>>
      BY <1>3, <1>4
    <3> QED
      BY <3>1, <3>2 DEF Streams!Cut
  <2>8. Streams!LineFrom(0)
    BY <1>11, <2>1, <2>2, <2>3, <2>6, <2>7 DEF Streams!LineFrom, Streams!At
  <2> QED
    BY <1>3, <1>4, <2>1, <2>8 DEF Streams!LineInv
<1> QED
  BY <1>10, <1>14, <1>15, <1>16, <1>17, <1>18, <1>19 DEF Streams!IInv

-----------------------------------------------------------------------------
\* What a state of the functions is made of.
LEMMA StrTyped ==
  ASSUME Streams!TypeOK
  PROVE  /\ v2 \in Nat /\ v3.all \in Seq(Streams!Characters) /\ Len(v3.all) \in Nat /\ v3.pos \in Nat /\ v3.offset \in Nat \cup {-1}
         /\ v4.tot \in Nat /\ v4.next \in Nat /\ v4.orig \in Nat /\ v4.open \in SUBSET Nat
         /\ v4.buf \in Seq(Streams!Characters) /\ v4.line \in Seq(Streams!Characters)
         /\ v5.bytes \in Seq(Streams!Characters) /\ Len(v5.bytes) \in Nat /\ v5.result \in Int
         /\ v5.lines \in Seq(Seq(Streams!Characters)) /\ v3 \in Streams!Inputs /\ v4 \in Streams!States /\ v5 \in Streams!Outputs
         /\ v6 \in [{"eintr", "error", "partial", "socket", "address", "listen", "seek"} -> Nat]
<1>1. /\ v2 \in Nat /\ v3 \in Streams!Inputs /\ v4 \in Streams!States /\ v5 \in Streams!Outputs
      /\ v6 \in [{"eintr", "error", "partial", "socket", "address", "listen", "seek"} -> Nat]
  BY DEF Streams!TypeOK
<1>2. v3.all \in Seq(Streams!Characters) /\ v3.pos \in Nat /\ v3.offset \in Nat \cup {-1}
  BY <1>1 DEF Streams!Inputs
<1>3. /\ v4.tot \in Nat /\ v4.next \in Nat /\ v4.orig \in Nat /\ v4.open \in SUBSET Nat
      /\ v4.buf \in Seq(Streams!Characters) /\ v4.line \in Seq(Streams!Characters)
  BY <1>1 DEF Streams!States
<1>4. /\ v5.bytes \in Seq(Streams!Characters) /\ v5.result \in Int
      /\ v5.lines \in Seq(Seq(Streams!Characters))
  BY <1>1 DEF Streams!Outputs
<1>5. Len(v3.all) \in Nat
  BY <1>2
<1>6. Len(v5.bytes) \in Nat
  BY <1>4
<1> QED
  BY <1>1, <1>2, <1>3, <1>4, <1>5, <1>6

LEMMA StrFault ==
  ASSUME Streams!TypeOK, NEW f \in {"eintr", "error", "partial", "socket", "address", "listen", "seek"}, Streams!Fault(f)
  PROVE  /\ v6' \in [{"eintr", "error", "partial", "socket", "address", "listen", "seek"} -> Nat] /\ v6'[f] > 0
         /\ \A g \in {"eintr", "error", "partial", "socket", "address", "listen", "seek"} : g # f => v6'[g] = v6[g]
<1>1. v6 \in [{"eintr", "error", "partial", "socket", "address", "listen", "seek"} -> Nat] /\ v6' = [v6 EXCEPT ![f] = @ + 1]
  BY StrTyped DEF Streams!Fault
<1>2. v6[f] \in Nat
  BY <1>1
<1>3. v6[f] + 1 \in Nat /\ v6[f] + 1 > 0
  BY <1>2
<1>4. v6'[f] = v6[f] + 1
  BY <1>1
<1> QED
  BY <1>1, <1>3, <1>4

\* A function returns.
LEMMA StrReturns ==
  ASSUME Streams!TypeOK, NEW r \in Int, Streams!Returns(r)
  PROVE  /\ v4' \in Streams!States /\ v4'.pc = "returned" /\ v4'.tot = v4.tot /\ v4'.next = v4.next /\ v4'.orig = v4.orig /\ v4'.open = v4.open
         /\ v5' \in Streams!Outputs /\ v5'.bytes = v5.bytes /\ v5'.lines = v5.lines /\ v5'.result = r
<1>1. v4 \in Streams!States /\ v4' = [v4 EXCEPT !.pc = "returned"] /\ v5 \in Streams!Outputs /\ v5' = [v5 EXCEPT !.result = r]
  BY StrTyped DEF Streams!Returns
<1> QED
  BY <1>1 DEF Streams!States, Streams!Outputs

\* More was done, read or delivered.
LEMMA StrMore ==
  ASSUME Streams!TypeOK, NEW k \in Nat
  PROVE  /\ v4' = [v4 EXCEPT !.tot = @ + k] =>
              v4' \in Streams!States /\ v4'.tot = v4.tot + k /\ v4'.pc = v4.pc /\ v4'.orig = v4.orig
         /\ v3' = [v3 EXCEPT !.pos = @ + k] =>
              v3' \in Streams!Inputs /\ v3'.pos = v3.pos + k /\ v3'.all = v3.all /\ v3'.offset = v3.offset
<1>1. v4 \in Streams!States /\ v3 \in Streams!Inputs /\ v4.tot \in Nat /\ v3.pos \in Nat
  BY StrTyped
<1>2. v4.tot + k \in Nat /\ v3.pos + k \in Nat
  BY <1>1
<1> DEFINE x == v4.tot + k
           y == v3.pos + k
<1>3. x \in Nat /\ y \in Nat
  BY <1>2
<1>4. ASSUME v4' = [v4 EXCEPT !.tot = @ + k]
      PROVE  v4' \in Streams!States /\ v4'.tot = v4.tot + k /\ v4'.pc = v4.pc /\ v4'.orig = v4.orig
  <2>1. v4' = [v4 EXCEPT !.tot = x]
    BY <1>4
  <2> HIDE DEF x
  <2>2. v4' \in Streams!States /\ v4'.tot = x /\ v4'.pc = v4.pc /\ v4'.orig = v4.orig
    BY <1>1, <1>3, <2>1 DEF Streams!States
  <2> QED
    BY <2>2 DEF x
<1>5. ASSUME v3' = [v3 EXCEPT !.pos = @ + k]
      PROVE  v3' \in Streams!Inputs /\ v3'.pos = v3.pos + k /\ v3'.all = v3.all /\ v3'.offset = v3.offset
  <2>1. v3' = [v3 EXCEPT !.pos = y]
    BY <1>5
  <2> HIDE DEF y
  <2>2. v3' \in Streams!Inputs /\ v3'.pos = y /\ v3'.all = v3.all /\ v3'.offset = v3.offset
    BY <1>1, <1>3, <2>1 DEF Streams!Inputs
  <2> QED
    BY <2>2 DEF y
<1> QED
  BY <1>4, <1>5

LEMMA StrMoreOut ==
  ASSUME Streams!TypeOK, NEW b, v5' = [v5 EXCEPT !.bytes = @ \o b]
  PROVE  v5'.bytes = v5.bytes \o b /\ v5'.result = v5.result /\ v5'.lines = v5.lines
           /\ (v5'.bytes \in Seq(Streams!Characters) => v5' \in Streams!Outputs)
<1>1. v5 \in Streams!Outputs
  BY StrTyped
<1> QED
  BY <1>1 DEF Streams!Outputs

LEMMA StrReadn == Streams!IInv /\ Streams!readn => Streams!IInv'
<1> SUFFICES ASSUME Streams!IInv, Streams!readn PROVE Streams!IInv'
  OBVIOUS
<1>1. v1 = "readn" /\ v1' = v1 /\ v2' = v2 /\ v4.pc = "loop"
  BY DEF Streams!readn, Streams!Mine, Streams!At
<1>2. Streams!TypeOK /\ Streams!ReadInv
  BY <1>1 DEF Streams!IInv
<1>3. v3.pos = v4.tot /\ Len(v5.bytes) = v4.tot /\ Streams!Delivered(0) /\ (v5.result >= 0 => v5.result = v4.tot /\ (v4.tot = v2 \/ v4.tot = Len(v3.all)))
  BY <1>2 DEF Streams!ReadInv
<1>4. v4.tot <= Len(v3.all)
  BY <1>2, <1>3, StrTyped DEF Streams!Delivered
<1>5. Streams!TypeOK' /\ Streams!ReadInv' => Streams!IInv'
  BY <1>1 DEF Streams!IInv
<1>6. ASSUME NEW r \in Int, Streams!Returns(r), v3' = v3, r = -1 \/ (r = v4.tot /\ (v4.tot = v2 \/ v4.tot = Len(v3.all))),
             v6' \in [{"eintr", "error", "partial", "socket", "address", "listen", "seek"} -> Nat]
      PROVE  Streams!IInv'
  <2>1. v4' \in Streams!States /\ v4'.tot = v4.tot /\ v5' \in Streams!Outputs /\ v5'.bytes = v5.bytes /\ v5'.result = r
    BY <1>2, <1>6, StrReturns
  <2>2. Streams!TypeOK'
    BY <1>1, <1>2, <1>6, <2>1 DEF Streams!TypeOK
  <2>3. Streams!Delivered(0)'
    BY <1>3, <1>6, <2>1 DEF Streams!Delivered
  <2>4. Streams!ReadInv'
    BY <1>1, <1>3, <1>6, <2>1, <2>3 DEF Streams!ReadInv
  <2> QED
    BY <1>5, <2>2, <2>4
<1>7. CASE v4.tot = v2 /\ Streams!Returns(v2) /\ v3' = v3 /\ v6' = v6
  BY <1>2, <1>6, <1>7, StrTyped
<1>8. CASE v4.tot # v2 /\ Streams!Left = 0 /\ Streams!Returns(v4.tot) /\ v3' = v3 /\ v6' = v6
  <2>1. v4.tot = Len(v3.all)
    <3> DEFINE t == v4.tot
               l == Len(v3.all)
    <3>1. t \in Nat /\ l \in Nat /\ t <= l /\ 0 = IF t < l THEN l - t ELSE 0
      BY <1>2, <1>3, <1>4, <1>8, StrTyped DEF Streams!Left
    <3> HIDE DEF t, l
    <3>2. t = l
      BY <3>1
    <3> QED
      BY <3>2 DEF t, l
  <2> QED
    BY <1>2, <1>6, <1>8, <2>1, StrTyped
<1>9. CASE Streams!Fault("eintr") /\ v3' = v3 /\ v4' = v4 /\ v5' = v5
  <2>1. Streams!TypeOK'
    BY <1>1, <1>2, <1>9, StrFault DEF Streams!TypeOK
  <2>2. Streams!ReadInv'
    BY <1>1, <1>2, <1>9 DEF Streams!ReadInv, Streams!Delivered
  <2> QED
    BY <1>5, <2>1, <2>2
<1>10. CASE Streams!Fault("error") /\ Streams!Returns(-1) /\ v3' = v3
  BY <1>2, <1>6, <1>10, StrFault
<1>11. CASE v4.tot # v2 /\ \E k \in 1..Streams!Least(Streams!Left, v2 - v4.tot) :
               /\ v3' = [v3 EXCEPT !.pos = @ + k] /\ v6' = v6
               /\ v4' = [v4 EXCEPT !.tot = @ + k] /\ v5' = [v5 EXCEPT !.bytes = @ \o Streams!Bytes(v3.pos, v3.pos + k)]
  <2>1. PICK k \in 1..Streams!Least(Streams!Left, v2 - v4.tot) :
               /\ v3' = [v3 EXCEPT !.pos = @ + k] /\ v6' = v6
               /\ v4' = [v4 EXCEPT !.tot = @ + k] /\ v5' = [v5 EXCEPT !.bytes = @ \o Streams!Bytes(v3.pos, v3.pos + k)]
    BY <1>11
  <2> DEFINE t == v4.tot
             l == Len(v3.all)
  <2>2. t \in Nat /\ v2 \in Nat /\ l \in Nat /\ v3.pos = t /\ t <= l /\ t # v2 /\ Streams!Left = IF t < l THEN l - t ELSE 0
    BY <1>2, <1>3, <1>4, <1>11, StrTyped DEF Streams!Left
  <2> HIDE DEF t, l
  <2>3. k \in Nat /\ k > 0 /\ t + k <= l /\ t < l
    <3> DEFINE m == Streams!Left
    <3>1. m = IF t < l THEN l - t ELSE 0
      BY <2>2
    <3>2. k \in 1..Streams!Least(m, v2 - t)
      BY <2>1 DEF t
    <3> HIDE DEF m
    <3>3. m \in Nat /\ k \in Nat /\ k > 0 /\ k <= m
      BY <2>2, <3>1, <3>2 DEF Streams!Least
    <3> QED
      BY <2>2, <3>1, <3>3
  <2>4. v3'.pos = t + k /\ v3'.all = v3.all /\ v4'.tot = t + k /\ v5'.result = v5.result /\ v5'.bytes = v5.bytes \o Streams!Bytes(v3.pos, v3.pos + k)
    BY <1>2, <2>1, <2>2, <2>3, StrMore, StrMoreOut DEF t
  <2>5. 0 + Len(v5.bytes) = v3.pos /\ v3.pos \in Nat /\ v3.pos + k <= Len(v3.all)
    BY <1>3, <2>2, <2>3 DEF t, l
  <2>6. Streams!Delivered(0)' /\ v5'.bytes \in Seq(Streams!Characters) /\ Len(v5'.bytes) = t + k
    BY <1>2, <1>3, <2>3, <2>4, <2>5, StrDelivers DEF t
  <2>7. v3' \in Streams!Inputs /\ v4' \in Streams!States
    BY <1>2, <2>1, <2>3, StrMore
  <2>8. v5' \in Streams!Outputs
    BY <1>2, <2>1, <2>6, StrMoreOut
  <2>9. Streams!TypeOK'
    BY <1>1, <1>2, <2>1, <2>7, <2>8 DEF Streams!TypeOK
  <2>10. ~(v5.result >= 0)
    <3>1. v5.result >= 0 => t = v2 \/ t = l
      BY <1>3 DEF t, l
    <3> QED
      BY <2>2, <2>3, <3>1
  <2>11. Streams!ReadInv'
    BY <2>4, <2>6, <2>10 DEF Streams!ReadInv
  <2> QED
    BY <1>5, <2>9, <2>11
<1> QED
  BY <1>7, <1>8, <1>9, <1>10, <1>11 DEF Streams!readn, Streams!Mine

LEMMA StrWriten == Streams!IInv /\ Streams!writen => Streams!IInv'
<1> SUFFICES ASSUME Streams!IInv, Streams!writen PROVE Streams!IInv'
  OBVIOUS
<1>1. v1 = "writen" /\ v1' = v1 /\ v2' = v2 /\ v4.pc = "loop" /\ v3' = v3
  BY DEF Streams!writen, Streams!Mine, Streams!At
<1>2. Streams!TypeOK /\ Streams!WriteInv
  BY <1>1 DEF Streams!IInv
<1>3. /\ v2 <= Len(v3.all) /\ v4.tot <= v2 /\ Len(v5.bytes) = v4.tot /\ Streams!Delivered(0)
      /\ v5.result >= 0 => v5.result = v4.tot /\ v4.tot = v2
  BY <1>2 DEF Streams!WriteInv
<1>4. Streams!TypeOK' /\ Streams!WriteInv' => Streams!IInv'
  BY <1>1 DEF Streams!IInv
<1>5. ASSUME NEW r \in Int, Streams!Returns(r), r = -1 \/ (r = v4.tot /\ v4.tot = v2),
             v6' \in [{"eintr", "error", "partial", "socket", "address", "listen", "seek"} -> Nat]
      PROVE  Streams!IInv'
  <2>1. v4' \in Streams!States /\ v4'.tot = v4.tot /\ v5' \in Streams!Outputs /\ v5'.bytes = v5.bytes /\ v5'.result = r
    BY <1>2, <1>5, StrReturns
  <2>2. Streams!TypeOK'
    BY <1>1, <1>2, <1>5, <2>1 DEF Streams!TypeOK
  <2>3. Streams!Delivered(0)'
    BY <1>1, <1>3, <2>1 DEF Streams!Delivered
  <2>4. Streams!WriteInv'
    BY <1>1, <1>3, <1>5, <2>1, <2>3 DEF Streams!WriteInv
  <2> QED
    BY <1>4, <2>2, <2>4
<1>6. CASE v4.tot = v2 /\ Streams!Returns(v2) /\ v6' = v6
  BY <1>2, <1>5, <1>6, StrTyped
<1>7. CASE Streams!Fault("eintr") /\ v4' = v4 /\ v5' = v5
  <2>1. Streams!TypeOK'
    BY <1>1, <1>2, <1>7, StrFault DEF Streams!TypeOK
  <2>2. Streams!WriteInv'
    BY <1>1, <1>2, <1>7 DEF Streams!WriteInv, Streams!Delivered
  <2> QED
    BY <1>4, <2>1, <2>2
<1>8. CASE Streams!Fault("error") /\ Streams!Returns(-1)
  BY <1>2, <1>5, <1>8, StrFault
<1>9. CASE \E k \in 1..(v2 - v4.tot) :
             v4' = [v4 EXCEPT !.tot = @ + k] /\ v5' = [v5 EXCEPT !.bytes = @ \o Streams!Bytes(v4.tot, v4.tot + k)] /\ v6' = v6
  <2>1. PICK k \in 1..(v2 - v4.tot) :
             v4' = [v4 EXCEPT !.tot = @ + k] /\ v5' = [v5 EXCEPT !.bytes = @ \o Streams!Bytes(v4.tot, v4.tot + k)] /\ v6' = v6
    BY <1>9
  <2> DEFINE t == v4.tot
             l == Len(v3.all)
  <2>2. t \in Nat /\ v2 \in Nat /\ l \in Nat /\ t <= v2 /\ v2 <= l
    BY <1>2, <1>3, StrTyped
  <2> HIDE DEF t, l
  <2>3. k \in Nat /\ k > 0 /\ t + k <= v2 /\ t + k <= l /\ t # v2
    BY <2>1, <2>2 DEF t
  <2>4. v4'.tot = t + k /\ v5'.result = v5.result /\ v5'.bytes = v5.bytes \o Streams!Bytes(t, t + k)
    BY <1>2, <2>1, <2>3, StrMore, StrMoreOut DEF t
  <2>5. t = 0 + Len(v5.bytes) /\ t + k <= Len(v3.all)
    BY <1>3, <2>2, <2>3 DEF t, l
  <2>6. Streams!Delivered(0)' /\ v5'.bytes \in Seq(Streams!Characters) /\ Len(v5'.bytes) = t + k
    <3>1. v3'.all = v3.all /\ Len(v5.bytes) = t
      BY <1>1, <1>3 DEF t
    <3>2. Streams!Delivered(0)' /\ v5'.bytes \in Seq(Streams!Characters) /\ Len(v5'.bytes) = Len(v5.bytes) + k
      BY <1>2, <1>3, <2>2, <2>3, <2>4, <2>5, <3>1, StrDelivers
    <3> QED
      BY <3>1, <3>2
  <2>7. v4' \in Streams!States
    BY <1>2, <2>1, <2>3, StrMore
  <2>8. v5' \in Streams!Outputs
    BY <1>2, <2>1, <2>6, StrMoreOut
  <2>9. Streams!TypeOK'
    BY <1>1, <1>2, <2>1, <2>7, <2>8 DEF Streams!TypeOK
  <2>10. ~(v5.result >= 0)
    BY <1>3, <2>3 DEF t
  <2>11. Streams!WriteInv'
    BY <1>1, <1>3, <2>3, <2>4, <2>6, <2>10 DEF Streams!WriteInv
  <2> QED
    BY <1>4, <2>9, <2>11
<1> QED
  BY <1>6, <1>7, <1>8, <1>9 DEF Streams!writen, Streams!Mine

\* Only the program counter, the address and the open sockets change.
LEMMA StrSocketState ==
  ASSUME Streams!TypeOK, NEW p \in {"loop", "setsockopt", "call", "listen", "returned"}, NEW s \in Nat, NEW o \in SUBSET Nat,
         \/ v4' = [v4 EXCEPT !.pc = p] /\ s = v4.next /\ o = v4.open
         \/ v4' = [v4 EXCEPT !.next = s] /\ p = v4.pc /\ o = v4.open
         \/ v4' = [v4 EXCEPT !.pc = p, !.open = o] /\ s = v4.next
         \/ v4' = [v4 EXCEPT !.open = o, !.pc = p] /\ s = v4.next
         \/ v4' = [v4 EXCEPT !.next = s, !.open = o, !.pc = p]
         \/ v4' = [v4 EXCEPT !.pc = p, !.next = s, !.open = o]
  PROVE  v4' \in Streams!States /\ v4'.pc = p /\ v4'.next = s /\ v4'.open = o
<1>1. v4 \in Streams!States
  BY StrTyped
<1> QED
  BY <1>1 DEF Streams!States

\* What a call that may fail leaves of the faults.
LEMMA StrCall ==
  ASSUME Streams!TypeOK, NEW f \in {"eintr", "error", "partial", "socket", "address", "listen", "seek"}, NEW ok \in BOOLEAN, NEW failed \in BOOLEAN, Streams!Call(f, ok, failed)
  PROVE  /\ v6' \in [{"eintr", "error", "partial", "socket", "address", "listen", "seek"} -> Nat]
         /\ (ok /\ v6' = v6) \/ (failed /\ v6'[f] > 0 /\ (f # "listen" => v6'["listen"] = v6["listen"]))
<1>1. (ok /\ v6' = v6) \/ (Streams!Fault(f) /\ failed)
  BY DEF Streams!Call
<1>2. v6 \in [{"eintr", "error", "partial", "socket", "address", "listen", "seek"} -> Nat]
  BY StrTyped
<1> QED
  BY <1>1, <1>2, StrFault

LEMMA StrMakeSocket == Streams!IInv /\ Streams!MakeSocket => Streams!IInv'
<1> SUFFICES ASSUME Streams!IInv, Streams!MakeSocket PROVE Streams!IInv'
  OBVIOUS
<1>1. v1 \in {"connect", "listen", "bind"} /\ v1' = v1 /\ v2' = v2 /\ v3' = v3 /\ v4.pc = "loop"
  BY DEF Streams!MakeSocket, Streams!Mine, Streams!At
<1>2. Streams!TypeOK /\ Streams!SocketInv
  BY <1>1 DEF Streams!IInv
<1>3. v4.open = {} /\ v4.next \in Nat
  BY <1>1, <1>2, StrTyped DEF Streams!SocketInv, Streams!At
<1>4. ASSUME v4' \in Streams!States, v5' \in Streams!Outputs, v6' \in [{"eintr", "error", "partial", "socket", "address", "listen", "seek"} -> Nat],
             \/ v4'.pc = "loop" /\ v4'.open = {}
             \/ v4'.pc \in {"setsockopt", "call"} /\ v4'.open = {v4'.next} /\ v4'.next > 0
             \/ v4'.pc = "returned" /\ v4'.open = {} /\ v5'.result = -1
      PROVE  Streams!IInv'
  <2>1. Streams!TypeOK'
    BY <1>1, <1>2, <1>4 DEF Streams!TypeOK
  <2>2. Streams!SocketInv'
    BY <1>4 DEF Streams!SocketInv, Streams!At
  <2> QED
    BY <1>1, <2>1, <2>2 DEF Streams!IInv
<1>5. v5 \in Streams!Outputs /\ v6 \in [{"eintr", "error", "partial", "socket", "address", "listen", "seek"} -> Nat]
  BY <1>2, StrTyped
<1>6. CASE v4.next = StrAddresses /\ Streams!Returns(-1) /\ v6' = v6
  <2>1. v4' \in Streams!States /\ v4'.pc = "returned" /\ v4'.open = v4.open /\ v5' \in Streams!Outputs /\ v5'.result = -1
    BY <1>2, <1>6, StrReturns
  <2> QED
    BY <1>3, <1>4, <1>5, <1>6, <2>1
<1> DEFINE s == v4.next + 1
           p == IF v1 = "listen" THEN "setsockopt" ELSE "call"
           opened == v4' = [v4 EXCEPT !.next = s, !.open = @ \cup {s}, !.pc = p] /\ UNCHANGED v5
           tried == v4' = [v4 EXCEPT !.next = s] /\ UNCHANGED v5
<1>7. CASE Streams!Call("socket", opened, tried)
  <2>1. s \in Nat /\ s > 0 /\ p \in {"setsockopt", "call"}
    BY <1>3
  <2>2. /\ v6' \in [{"eintr", "error", "partial", "socket", "address", "listen", "seek"} -> Nat]
        /\ opened \/ tried
    BY <1>2, <1>7, StrCall
  <2>3. opened => v4' = [v4 EXCEPT !.next = s, !.open = v4.open \cup {s}, !.pc = p] /\ v5' = v5
    OBVIOUS
  <2>4. tried => v4' = [v4 EXCEPT !.next = s] /\ v5' = v5
    OBVIOUS
  <2> HIDE DEF s, p, opened, tried
  <2>5. CASE opened
    <3>1. v4.open \cup {s} = {s} /\ {s} \in SUBSET Nat
      BY <1>3, <2>1
    <3>2. v4' = [v4 EXCEPT !.next = s, !.open = {s}, !.pc = p]
      BY <2>3, <2>5, <3>1
    <3>3. v4' \in Streams!States /\ v4'.pc = p /\ v4'.next = s /\ v4'.open = {s}
      BY <1>2, <2>1, <3>1, <3>2, StrSocketState
    <3> QED
      BY <1>4, <1>5, <2>1, <2>2, <2>3, <2>5, <3>3
  <2>6. CASE tried
    <3>1. v4' \in Streams!States /\ v4'.pc = "loop" /\ v4'.next = s /\ v4'.open = {}
      BY <1>1, <1>2, <1>3, <2>1, <2>4, <2>6, StrSocketState
    <3> QED
      BY <1>4, <1>5, <2>2, <2>4, <2>6, <3>1
  <2> QED
    BY <2>2, <2>5, <2>6
<1> QED
  BY <1>6, <1>7 DEF Streams!MakeSocket, Streams!Mine

LEMMA StrConnectOrBind == Streams!IInv /\ Streams!ConnectOrBind => Streams!IInv'
<1> SUFFICES ASSUME Streams!IInv, Streams!ConnectOrBind PROVE Streams!IInv'
  OBVIOUS
<1>1. v1 \in {"connect", "listen", "bind"} /\ v1' = v1 /\ v2' = v2 /\ v3' = v3 /\ v4.pc = "call"
  BY DEF Streams!ConnectOrBind, Streams!Mine, Streams!At
<1>2. Streams!TypeOK /\ Streams!SocketInv
  BY <1>1 DEF Streams!IInv
<1>3. v4.open = {v4.next} /\ v4.next \in Nat /\ v4.next > 0
  BY <1>1, <1>2, StrTyped DEF Streams!SocketInv, Streams!At
<1>4. v5 \in Streams!Outputs
  BY <1>2, StrTyped
<1> DEFINE ok == IF v1 = "listen" THEN Streams!Pc("listen") ELSE Streams!Returns(v4.next)
           failed == v4' = [v4 EXCEPT !.open = @ \ {v4.next}, !.pc = "loop"] /\ UNCHANGED v5
<1>5. ok \in BOOLEAN /\ failed \in BOOLEAN
  BY DEF Streams!Pc, Streams!Returns
<1>6. v6' \in [{"eintr", "error", "partial", "socket", "address", "listen", "seek"} -> Nat] /\ (ok \/ failed)
  <2>1. Streams!Call("address", ok, failed)
    BY DEF Streams!ConnectOrBind, Streams!Mine
  <2> HIDE DEF ok, failed
  <2> QED
    BY <1>2, <1>5, <2>1, StrCall
<1>7. CASE v1 = "listen" /\ ok
  <2>1. v4' = [v4 EXCEPT !.pc = "listen"] /\ v5' = v5
    BY <1>7 DEF Streams!Pc
  <2>2. v4' \in Streams!States /\ v4'.pc = "listen" /\ v4'.next = v4.next /\ v4'.open = v4.open
    BY <1>2, <2>1, StrTyped DEF Streams!States
  <2>3. Streams!TypeOK'
    BY <1>1, <1>2, <1>4, <1>6, <2>1, <2>2 DEF Streams!TypeOK
  <2>4. Streams!SocketInv'
    BY <1>3, <2>2 DEF Streams!SocketInv, Streams!At
  <2> QED
    BY <1>1, <2>3, <2>4 DEF Streams!IInv
<1>8. CASE v1 # "listen" /\ ok
  <2>1. v4' \in Streams!States /\ v4'.pc = "returned" /\ v4'.open = v4.open /\ v5' \in Streams!Outputs /\ v5'.result = v4.next
    BY <1>2, <1>3, <1>8, StrReturns
  <2>3. Streams!TypeOK'
    BY <1>1, <1>2, <1>6, <2>1 DEF Streams!TypeOK
  <2>4. Streams!SocketInv'
    BY <1>3, <2>1 DEF Streams!SocketInv, Streams!At
  <2> QED
    BY <1>1, <2>3, <2>4 DEF Streams!IInv
<1>9. CASE failed
  <2>1. v4.open \ {v4.next} = {} /\ {} \in SUBSET Nat
    BY <1>3
  <2>2. v4' = [v4 EXCEPT !.open = {}, !.pc = "loop"] /\ v5' = v5
    BY <1>9, <2>1
  <2>3. v4' \in Streams!States /\ v4'.pc = "loop" /\ v4'.open = {}
    BY <1>2, <1>3, <2>1, <2>2, StrSocketState
  <2>4. Streams!TypeOK'
    BY <1>1, <1>2, <1>4, <1>6, <2>2, <2>3 DEF Streams!TypeOK
  <2>5. Streams!SocketInv'
    BY <2>3 DEF Streams!SocketInv, Streams!At
  <2> QED
    BY <1>1, <2>4, <2>5 DEF Streams!IInv
<1> QED
  BY <1>6, <1>7, <1>8, <1>9

LEMMA StrReuseAndListen == Streams!IInv /\ Streams!ReuseAndListen => Streams!IInv'
<1> SUFFICES ASSUME Streams!IInv, Streams!ReuseAndListen PROVE Streams!IInv'
  OBVIOUS
<1>1. v1 = "listen" /\ v1' = v1 /\ v2' = v2 /\ v3' = v3
  BY DEF Streams!ReuseAndListen, Streams!Mine
<1>2. Streams!TypeOK /\ Streams!SocketInv
  BY <1>1 DEF Streams!IInv
<1>3. v4.next \in Nat /\ v4.open \in SUBSET Nat /\ v5 \in Streams!Outputs
  BY <1>2, StrTyped
<1>4. v4.pc \in {"setsockopt", "listen"} => v4.open = {v4.next} /\ v4.next > 0
  BY <1>2 DEF Streams!SocketInv, Streams!At
<1>5. ASSUME v4' \in Streams!States, v5' \in Streams!Outputs, v6' \in [{"eintr", "error", "partial", "socket", "address", "listen", "seek"} -> Nat],
             \/ v4'.pc = "call" /\ v4'.open = {v4'.next} /\ v4'.next > 0
             \/ v4'.pc = "returned" /\ (v4'.open = (IF v5'.result > 0 THEN {v5'.result} ELSE {}) \/ v6'["listen"] > 0)
      PROVE  Streams!IInv'
  <2>1. Streams!TypeOK'
    BY <1>1, <1>2, <1>5 DEF Streams!TypeOK
  <2>2. Streams!SocketInv'
    BY <1>5 DEF Streams!SocketInv, Streams!At
  <2> QED
    BY <1>1, <2>1, <2>2 DEF Streams!IInv
<1> DEFINE closed == v5' = [v5 EXCEPT !.result = -1] /\ v4' = [v4 EXCEPT !.pc = "returned", !.open = {}]
<1>6. CASE v4.pc = "setsockopt" /\ Streams!Call("error", Streams!Pc("call"), closed)
  <2>1. Streams!Pc("call") \in BOOLEAN /\ closed \in BOOLEAN
    BY DEF Streams!Pc
  <2>2. closed => v5' = [v5 EXCEPT !.result = -1] /\ v4' = [v4 EXCEPT !.pc = "returned", !.open = {}]
    OBVIOUS
  <2> HIDE DEF closed
  <2>3. v6' \in [{"eintr", "error", "partial", "socket", "address", "listen", "seek"} -> Nat] /\ (Streams!Pc("call") \/ closed)
    BY <1>2, <1>6, <2>1, StrCall
  <2>4. CASE Streams!Pc("call")
    <3>1. v4' = [v4 EXCEPT !.pc = "call"] /\ v5' = v5
      BY <2>4 DEF Streams!Pc
    <3>2. v4' \in Streams!States /\ v4'.pc = "call" /\ v4'.next = v4.next /\ v4'.open = v4.open
      BY <1>2, <3>1, StrTyped DEF Streams!States
    <3> QED
      BY <1>3, <1>4, <1>5, <1>6, <2>3, <3>1, <3>2
  <2>5. CASE closed
    <3>1. {} \in SUBSET Nat
      OBVIOUS
    <3>2. v4' \in Streams!States /\ v4'.pc = "returned" /\ v4'.open = {}
      BY <1>2, <1>3, <2>2, <2>5, <3>1, StrSocketState
    <3>3. v5' \in Streams!Outputs /\ v5'.result = -1
      BY <1>3, <2>2, <2>5 DEF Streams!Outputs
    <3> QED
      BY <1>5, <2>3, <3>2, <3>3
  <2> QED
    BY <2>3, <2>4, <2>5
<1>7. CASE v4.pc = "listen" /\ Streams!Call("listen", Streams!Returns(v4.next), Streams!Returns(-1))
  <2>1. Streams!Returns(v4.next) \in BOOLEAN /\ Streams!Returns(-1) \in BOOLEAN
    BY DEF Streams!Returns
  <2>2. v6' \in [{"eintr", "error", "partial", "socket", "address", "listen", "seek"} -> Nat] /\ (Streams!Returns(v4.next) \/ (Streams!Returns(-1) /\ v6'["listen"] > 0))
    BY <1>2, <1>7, <2>1, StrCall
  <2>3. CASE Streams!Returns(v4.next)
    <3>1. v4' \in Streams!States /\ v4'.pc = "returned" /\ v4'.open = v4.open /\ v5' \in Streams!Outputs /\ v5'.result = v4.next
      BY <1>2, <1>3, <2>3, StrReturns
    <3> QED
      BY <1>4, <1>5, <1>7, <2>2, <3>1
  <2>4. CASE Streams!Returns(-1) /\ v6'["listen"] > 0
    <3>1. v4' \in Streams!States /\ v4'.pc = "returned" /\ v5' \in Streams!Outputs
      BY <1>2, <2>4, StrReturns
    <3> QED
      BY <1>5, <2>2, <2>4, <3>1
  <2> QED
    BY <2>2, <2>3, <2>4
<1> QED
  BY <1>6, <1>7 DEF Streams!ReuseAndListen, Streams!Mine, Streams!At

LEMMA StrUnix == Streams!IInv /\ Streams!unixSocket => Streams!IInv'
<1> SUFFICES ASSUME Streams!IInv, Streams!unixSocket PROVE Streams!IInv'
  OBVIOUS
<1>1. v1 = "unix" /\ v1' = v1 /\ v2' = v2 /\ v3' = v3
  BY DEF Streams!unixSocket, Streams!Mine
<1>2. Streams!TypeOK /\ Streams!UnixInv
  BY <1>1 DEF Streams!IInv
<1>3. v4.next \in Nat /\ v5 \in Streams!Outputs /\ (v4.pc = "loop" => v4.open = {}) /\ (v4.pc = "call" => v4.open = {1})
  BY <1>2, StrTyped DEF Streams!UnixInv, Streams!At
<1>4. ASSUME v4' \in Streams!States, v5' \in Streams!Outputs, v6' \in [{"eintr", "error", "partial", "socket", "address", "listen", "seek"} -> Nat],
             \/ v4'.pc = "call" /\ v4'.open = {1}
             \/ v4'.pc = "returned" /\ (v4'.open = IF v5'.result > 0 THEN {v5'.result} ELSE {})
      PROVE  Streams!IInv'
  <2>1. Streams!TypeOK'
    BY <1>1, <1>2, <1>4 DEF Streams!TypeOK
  <2>2. Streams!UnixInv'
    BY <1>4 DEF Streams!UnixInv, Streams!At
  <2> QED
    BY <1>1, <2>1, <2>2 DEF Streams!IInv
<1>5. {} \in SUBSET Nat /\ {1} \in SUBSET Nat
  OBVIOUS
<1> DEFINE made == v4' = [v4 EXCEPT !.pc = "call", !.open = {1}] /\ UNCHANGED v5
           closed == v5' = [v5 EXCEPT !.result = -1] /\ v4' = [v4 EXCEPT !.pc = "returned", !.open = {}]
<1>6. CASE v4.pc = "loop" /\ Streams!Call("socket", made, Streams!Returns(-1))
  <2>1. made \in BOOLEAN /\ Streams!Returns(-1) \in BOOLEAN /\ (made => v4' = [v4 EXCEPT !.pc = "call", !.open = {1}] /\ v5' = v5)
    BY DEF Streams!Returns
  <2> HIDE DEF made, closed
  <2>2. v6' \in [{"eintr", "error", "partial", "socket", "address", "listen", "seek"} -> Nat] /\ (made \/ Streams!Returns(-1))
    BY <1>2, <1>6, <2>1, StrCall
  <2>3. CASE made
    <3>1. v4' \in Streams!States /\ v4'.pc = "call" /\ v4'.open = {1}
      BY <1>2, <1>5, <2>1, <2>3, StrTyped DEF Streams!States
    <3> QED
      BY <1>3, <1>4, <2>1, <2>2, <2>3, <3>1
  <2>4. CASE Streams!Returns(-1)
    <3>1. v4' \in Streams!States /\ v4'.pc = "returned" /\ v4'.open = v4.open /\ v5' \in Streams!Outputs /\ v5'.result = -1
      BY <1>2, <2>4, StrReturns
    <3> QED
      BY <1>3, <1>4, <1>6, <2>2, <3>1
  <2> QED
    BY <2>2, <2>3, <2>4
<1>7. CASE v4.pc = "call" /\ Streams!Call("address", Streams!Returns(1), closed)
  <2>1. closed \in BOOLEAN /\ Streams!Returns(1) \in BOOLEAN /\ (closed => v5' = [v5 EXCEPT !.result = -1] /\ v4' = [v4 EXCEPT !.pc = "returned", !.open = {}])
    BY DEF Streams!Returns
  <2> HIDE DEF made, closed
  <2>2. v6' \in [{"eintr", "error", "partial", "socket", "address", "listen", "seek"} -> Nat] /\ (Streams!Returns(1) \/ closed)
    BY <1>2, <1>7, <2>1, StrCall
  <2>3. CASE Streams!Returns(1)
    <3>1. v4' \in Streams!States /\ v4'.pc = "returned" /\ v4'.open = v4.open /\ v5' \in Streams!Outputs /\ v5'.result = 1
      BY <1>2, <2>3, StrReturns
    <3> QED
      BY <1>3, <1>4, <1>7, <2>2, <3>1
  <2>4. CASE closed
    <3>1. v4' \in Streams!States /\ v4'.pc = "returned" /\ v4'.open = {}
      BY <1>2, <1>3, <1>5, <2>1, <2>4, StrSocketState
    <3>2. \A r \in Int : v5' = [v5 EXCEPT !.result = r] => v5' \in Streams!Outputs /\ v5'.result = r
      BY <1>3 DEF Streams!Outputs
    <3>3. v5' = [v5 EXCEPT !.result = -1] /\ -1 \in Int
      BY <2>1, <2>4
    <3>4. v5' \in Streams!Outputs /\ v5'.result = -1
      BY <3>2, <3>3
    <3> QED
      BY <1>4, <2>2, <3>1, <3>4
  <2> QED
    BY <2>2, <2>3, <2>4
<1> QED
  BY <1>6, <1>7 DEF Streams!unixSocket, Streams!Mine, Streams!At

LEMMA StrFrom == Streams!TypeOK => Streams!From \in Nat
BY StrTyped DEF Streams!From

\* A result and an offset are stored.
StrStored(r, o) == v5' = [v5 EXCEPT !.result = r, !.offset = o]
LEMMA StrStores ==
  ASSUME Streams!TypeOK, NEW r \in Int, NEW o \in Int, StrStored(r, o)
  PROVE  v5' \in Streams!Outputs /\ v5'.bytes = v5.bytes /\ v5'.result = r /\ v5'.offset = o
<1>1. v5 \in Streams!Outputs
  BY StrTyped
<1> QED
  BY <1>1 DEF Streams!Outputs, StrStored

\* sendfile has failed: nothing more was sent.
LEMMA StrSendFails ==
  ASSUME Streams!TypeOK, Streams!SendInv, v4.pc # "start", v4'.pc = "returned", v5'.result = -1,
         v3'.all = v3.all, v3'.offset = v3.offset, v4'.orig = v4.orig, v4'.tot = v4.tot, v5'.bytes = v5.bytes,
         v6'["partial"] = v6["partial"],
         v6["partial"] = 0 => v3'.pos = v4.orig \/ v3'.pos - (Streams!From + v4.tot) \in 0..StrBufSize
  PROVE  Streams!SendInv'
<1>1. Streams!From' = Streams!From /\ Streams!Delivered(Streams!From)' = Streams!Delivered(Streams!From)
  BY DEF Streams!From, Streams!Delivered
<1>2. Len(v5.bytes) = v4.tot /\ (v6["partial"] = 0 /\ v4.tot > 0 => Streams!Delivered(Streams!From))
  BY DEF Streams!SendInv, Streams!At
<1> QED
  BY <1>1, <1>2 DEF Streams!SendInv, Streams!At

\* There is no more to be sent.
LEMMA StrSendDone ==
  ASSUME Streams!IInv, v1 = "sendfile", v1' = v1, v2' = v2, v4.pc = "loop", v4' = [v4 EXCEPT !.pc = "restore"],
         v3' = v3, v5' = v5, v6' = v6, v4.tot = v2 \/ v3.pos >= Len(v3.all)
  PROVE  Streams!IInv'
<1>1. Streams!TypeOK /\ Streams!SendInv
  BY DEF Streams!IInv
<1>2. v4 \in Streams!States
  BY <1>1, StrTyped
<1>3. v4' \in Streams!States /\ v4'.pc = "restore" /\ v4'.tot = v4.tot /\ v4'.orig = v4.orig
  BY <1>2 DEF Streams!States
<1>4. Streams!TypeOK'
  BY <1>1, <1>3 DEF Streams!TypeOK
<1>5. Streams!From' = Streams!From /\ Streams!Delivered(Streams!From)' = Streams!Delivered(Streams!From)
  BY <1>3 DEF Streams!From, Streams!Delivered
<1>6. Streams!SendInv'
  BY <1>1, <1>3, <1>5 DEF Streams!SendInv, Streams!At
<1> QED
  BY <1>4, <1>6 DEF Streams!IInv

LEMMA StrSendfileStarts == Streams!IInv /\ Streams!SendfileStarts => Streams!IInv'
<1> SUFFICES ASSUME Streams!IInv, Streams!SendfileStarts PROVE Streams!IInv'
  OBVIOUS
<1>1. v1 = "sendfile" /\ v1' = v1 /\ v2' = v2 /\ v4.pc = "start"
  BY DEF Streams!SendfileStarts, Streams!Mine, Streams!At
<1>2. Streams!TypeOK /\ Streams!SendInv
  BY <1>1 DEF Streams!IInv
<1>3. v4.tot = 0 /\ v5.result = -2 /\ Len(v5.bytes) = 0
  BY <1>1, <1>2 DEF Streams!SendInv, Streams!At
<1>4. /\ v4 \in Streams!States /\ v3 \in Streams!Inputs /\ v5 \in Streams!Outputs /\ v3.pos \in Nat /\ v3.offset \in Nat \cup {-1}
      /\ Len(v3.all) \in Nat
  BY <1>2, StrTyped
<1>5. CASE /\ v4' = [v4 EXCEPT !.pc = "loop", !.orig = v3.pos] /\ v5' = v5 /\ v6' = v6
           /\ v3' = IF v3.offset = -1 THEN v3 ELSE [v3 EXCEPT !.pos = v3.offset]
  <2>1. v4' \in Streams!States /\ v4'.pc = "loop" /\ v4'.tot = v4.tot /\ v4'.orig = v3.pos
    BY <1>4, <1>5 DEF Streams!States
  <2>2. v3' \in Streams!Inputs /\ v3'.offset = v3.offset /\ v3'.pos = IF v3.offset = -1 THEN v3.pos ELSE v3.offset
    BY <1>4, <1>5 DEF Streams!Inputs
  <2>3. Streams!TypeOK'
    BY <1>1, <1>2, <1>5, <2>1, <2>2 DEF Streams!TypeOK
  <2>4. v3'.pos = Streams!From' /\ v3'.pos \in Nat
    BY <1>4, <2>1, <2>2 DEF Streams!From
  <2>5. v3'.pos = Streams!From' + v4'.tot /\ ~(v4'.tot > 0)
    BY <1>3, <2>1, <2>4
  <2>6. Streams!SendInv'
    BY <1>1, <1>3, <1>5, <2>1, <2>5 DEF Streams!SendInv, Streams!At
  <2> QED
    BY <1>1, <2>3, <2>6 DEF Streams!IInv
<1>6. CASE /\ Streams!Fault("seek") /\ v3' = v3
           /\ v4' = [v4 EXCEPT !.pc = "returned", !.orig = v3.pos] /\ v5' = [v5 EXCEPT !.result = -1]
  <2>1. v4' \in Streams!States /\ v4'.pc = "returned" /\ v4'.tot = v4.tot /\ v4'.orig = v3.pos
    BY <1>4, <1>6 DEF Streams!States
  <2>2. v5' \in Streams!Outputs /\ v5'.result = -1 /\ v5'.bytes = v5.bytes
    <3> DEFINE r == -1
    <3>1. r \in Int /\ v5' = [v5 EXCEPT !.result = r]
      BY <1>6
    <3> HIDE DEF r
    <3>2. v5' \in Streams!Outputs /\ v5'.result = r /\ v5'.bytes = v5.bytes
      BY <1>4, <3>1 DEF Streams!Outputs
    <3> QED
      BY <3>2 DEF r
  <2>3. Streams!TypeOK'
    BY <1>1, <1>2, <1>6, <2>1, <2>2, StrFault DEF Streams!TypeOK
  <2>4. ~(v4'.tot > 0) /\ Len(v5'.bytes) = v4'.tot
    BY <1>3, <2>1, <2>2
  <2>5. Streams!SendInv'
    BY <1>6, <2>1, <2>2, <2>4 DEF Streams!SendInv, Streams!At
  <2> QED
    BY <1>1, <2>3, <2>5 DEF Streams!IInv
<1> QED
  BY <1>5, <1>6 DEF Streams!SendfileStarts, Streams!Mine

LEMMA StrSendfileBlock == Streams!IInv /\ Streams!SendfileBlock => Streams!IInv'
<1> SUFFICES ASSUME Streams!IInv, Streams!SendfileBlock PROVE Streams!IInv'
  OBVIOUS
<1> DEFINE most == Streams!Least(Streams!Least(StrBufSize, v2 - v4.tot), Streams!Left)
           F == Streams!From
           t == v4.tot
           Reads(k) == v3' = [v3 EXCEPT !.pos = @ + k]
           Sends(j) == v4' = [v4 EXCEPT !.tot = @ + j] /\ v5' = [v5 EXCEPT !.bytes = @ \o Streams!Bytes(v3.pos, v3.pos + j)]
<1>1. v1 = "sendfile" /\ v1' = v1 /\ v2' = v2 /\ v4.pc = "loop" /\ v4.tot < v2
  BY DEF Streams!SendfileBlock, Streams!Mine, Streams!At
<1>2. Streams!TypeOK /\ Streams!SendInv
  BY <1>1 DEF Streams!IInv
<1>3. /\ Len(v5.bytes) = v4.tot /\ v5.result = -2
      /\ v6["partial"] = 0 => v3.pos = Streams!From + v4.tot /\ (v4.tot > 0 => Streams!Delivered(Streams!From))
  BY <1>1, <1>2 DEF Streams!SendInv, Streams!At
<1>4. Streams!TypeOK' /\ Streams!SendInv' => Streams!IInv'
  BY <1>1 DEF Streams!IInv
<1>5. /\ v4 \in Streams!States /\ v5 \in Streams!Outputs /\ v3 \in Streams!Inputs /\ v3.pos \in Nat /\ v4.tot \in Nat /\ v2 \in Nat /\ Len(v3.all) \in Nat
      /\ v6 \in [{"eintr", "error", "partial", "socket", "address", "listen", "seek"} -> Nat] /\ v6["partial"] \in Nat /\ F \in Nat
  BY <1>2, StrTyped, StrFrom
<1>6. ASSUME NEW k \in 1..most PROVE k \in Nat /\ k > 0 /\ k <= StrBufSize /\ v3.pos + k <= Len(v3.all)
  <2> DEFINE p == v3.pos
             l == Len(v3.all)
             d == v2 - v4.tot
             m == Streams!Left
  <2>1. p \in Nat /\ l \in Nat /\ d \in Nat /\ m = IF p < l THEN l - p ELSE 0
    BY <1>1, <1>5 DEF Streams!Left
  <2>2. k \in 1..Streams!Least(Streams!Least(StrBufSize, d), m) /\ StrBufSize \in Nat
    BY <1>6, StrBounds
  <2> HIDE DEF p, l, d, m
  <2>3. k \in Nat /\ k > 0 /\ k <= StrBufSize /\ p + k <= l
    BY <2>1, <2>2 DEF Streams!Least
  <2> QED
    BY <2>3 DEF p, l
<1>7. \/ Streams!Left = 0 /\ v4' = [v4 EXCEPT !.pc = "restore"] /\ v3' = v3 /\ v5' = v5 /\ v6' = v6
      \/ Streams!Fault("error") /\ Streams!Returns(-1) /\ v3' = v3
      \/ \E k \in 1..most : Reads(k) /\ Sends(k) /\ v6' = v6
      \/ \E k \in 1..most : Reads(k) /\ Streams!Fault("partial") /\ \E j \in 1..(k - 1) : Sends(j)
      \/ \E k \in 1..most : Reads(k) /\ Streams!Fault("error") /\ Streams!Returns(-1)
  BY DEF Streams!SendfileBlock, Streams!Mine
<1> HIDE DEF most
<1>8. CASE Streams!Left = 0 /\ v4' = [v4 EXCEPT !.pc = "restore"] /\ v3' = v3 /\ v5' = v5 /\ v6' = v6
  <2>1. v3.pos >= Len(v3.all)
    BY <1>5, <1>8 DEF Streams!Left
  <2> QED
    BY <1>1, <1>8, <2>1, StrSendDone
\* A block is read and written.
<1>9. ASSUME NEW k \in 1..most, Reads(k), Sends(k), v6' = v6 PROVE Streams!IInv'
  <2>1. /\ v4' \in Streams!States /\ v4'.pc = v4.pc /\ v4'.tot = t + k /\ v4'.orig = v4.orig
        /\ v3' \in Streams!Inputs /\ v3'.pos = v3.pos + k /\ v3'.all = v3.all /\ v3'.offset = v3.offset
    BY <1>2, <1>6, <1>9, StrMore
  <2>2. /\ v5'.bytes = v5.bytes \o Streams!Bytes(v3.pos, v3.pos + k) /\ v5'.result = v5.result
        /\ v5'.bytes \in Seq(Streams!Characters) => v5' \in Streams!Outputs
    BY <1>2, <1>9, StrMoreOut
  <2>3. F \in Nat /\ F' = F /\ t \in Nat
    BY <1>2, <1>5, <2>1, StrFrom DEF Streams!From
  <2>4. v5'.bytes \in Seq(Streams!Characters) /\ Len(v5'.bytes) = t + k
    <3>1. v5'.bytes \in Seq(Streams!Characters) /\ Len(v5'.bytes) = Len(v5.bytes) + k
      BY <1>2, <1>5, <1>6, <1>9, <2>2, StrLonger
    <3> QED
      BY <1>3, <3>1
  <2>5. Streams!TypeOK'
    BY <1>1, <1>2, <1>9, <2>1, <2>2, <2>4 DEF Streams!TypeOK
  <2> HIDE DEF F, t
  <2>6. ASSUME v6["partial"] = 0 PROVE v3'.pos = F' + v4'.tot /\ Streams!Delivered(F)'
    <3>1. v3.pos = F + t /\ (t > 0 => Streams!Delivered(F)) /\ Len(v5.bytes) = t
      BY <1>3, <2>6 DEF F, t
    <3>2. v3.pos = F + Len(v5.bytes) /\ (Streams!Delivered(F) \/ Len(v5.bytes) = 0)
      BY <2>3, <3>1
    <3>3. Streams!Delivered(F)'
      BY <1>2, <1>5, <1>6, <1>9, <2>1, <2>2, <2>3, <3>2, StrDelivers
    <3>4. v3'.pos = F' + v4'.tot
      BY <1>6, <2>1, <2>3, <3>1
    <3> QED
      BY <3>3, <3>4
  <2>7. Streams!SendInv'
    BY <1>1, <1>3, <1>9, <2>1, <2>2, <2>3, <2>4, <2>6 DEF Streams!SendInv, Streams!At, F
  <2> QED
    BY <1>4, <2>5, <2>7
\* Only a part of it is written.
<1>10. ASSUME NEW k \in 1..most, Reads(k), Streams!Fault("partial"), NEW j \in 1..(k - 1), Sends(j) PROVE Streams!IInv'
  <2>1. j \in Nat /\ v3.pos + j <= Len(v3.all)
    <3> DEFINE x == v3.pos
               l == Len(v3.all)
    <3>1. x \in Nat /\ l \in Nat /\ k \in Nat /\ x + k <= l
      BY <1>5, <1>6, <1>10
    <3> HIDE DEF x, l
    <3>2. j \in Nat /\ x + j <= l
      BY <1>10, <3>1
    <3> QED
      BY <3>2 DEF x, l
  <2>2. /\ v4' \in Streams!States /\ v4'.pc = v4.pc /\ v4'.tot = v4.tot + j
        /\ v3' \in Streams!Inputs
    BY <1>2, <1>6, <1>10, <2>1, StrMore
  <2>3. /\ v5'.bytes = v5.bytes \o Streams!Bytes(v3.pos, v3.pos + j) /\ v5'.result = v5.result
        /\ v5'.bytes \in Seq(Streams!Characters) => v5' \in Streams!Outputs
    BY <1>2, <1>10, StrMoreOut
  <2>4. v5'.bytes \in Seq(Streams!Characters) /\ Len(v5'.bytes) = v4.tot + j
    <3>1. v5'.bytes \in Seq(Streams!Characters) /\ Len(v5'.bytes) = Len(v5.bytes) + j
      BY <1>2, <1>5, <2>1, <2>3, StrLonger
    <3> QED
      BY <1>3, <3>1
  <2>5. v6' \in [{"eintr", "error", "partial", "socket", "address", "listen", "seek"} -> Nat] /\ v6'["partial"] > 0
    BY <1>2, <1>10, StrFault
  <2>6. Streams!TypeOK'
    BY <1>1, <1>2, <2>2, <2>3, <2>4, <2>5 DEF Streams!TypeOK
  <2>7. v4'.pc = "loop" /\ v5'.result = -2 /\ Len(v5'.bytes) = v4'.tot /\ v6'["partial"] # 0
    <3>1. v6'["partial"] # 0
      BY <2>5
    <3> QED
      BY <1>1, <1>3, <2>2, <2>3, <2>4, <3>1
  <2>8. Streams!SendInv'
    BY <2>7 DEF Streams!SendInv, Streams!At
  <2> QED
    BY <1>4, <2>6, <2>8
\* The read() fails, or the write() of what was read.
<1>11. ASSUME NEW k \in 0..StrBufSize, Reads(k) \/ (k = 0 /\ v3' = v3), Streams!Fault("error"), Streams!Returns(-1) PROVE Streams!IInv'
  <2>1. k \in Nat /\ StrBufSize \in Nat
    BY <1>11, StrBounds
  <2>2. v3' \in Streams!Inputs /\ v3'.pos = v3.pos + k /\ v3'.all = v3.all /\ v3'.offset = v3.offset
    <3>1. CASE Reads(k)
      BY <1>2, <2>1, <3>1, StrMore
    <3>2. CASE k = 0 /\ v3' = v3
      BY <1>5, <3>2
    <3> QED
      BY <1>11, <3>1, <3>2
  <2>3. v6' \in [{"eintr", "error", "partial", "socket", "address", "listen", "seek"} -> Nat] /\ v6'["partial"] = v6["partial"]
    BY <1>2, <1>11, StrFault
  <2>4. /\ v4' \in Streams!States /\ v4'.pc = "returned" /\ v4'.tot = v4.tot /\ v4'.orig = v4.orig
        /\ v5' \in Streams!Outputs /\ v5'.bytes = v5.bytes /\ v5'.result = -1
    BY <1>2, <1>11, StrReturns
  <2>5. Streams!TypeOK'
    BY <1>1, <1>2, <2>2, <2>3, <2>4 DEF Streams!TypeOK
  <2>6. ASSUME v6["partial"] = 0 PROVE v3'.pos - (F + t) \in 0..StrBufSize
    <3>1. v3.pos = F + t /\ F \in Nat /\ t \in Nat
      BY <1>3, <1>5, <2>6
    <3> HIDE DEF F, t
    <3> QED
      BY <1>11, <2>1, <2>2, <3>1
  <2>7. v4.pc # "start"
    BY <1>1
  <2>8. Streams!SendInv'
    BY <1>2, <2>2, <2>3, <2>4, <2>6, <2>7, StrSendFails
  <2> QED
    BY <1>4, <2>5, <2>8
<1>12. CASE Streams!Fault("error") /\ Streams!Returns(-1) /\ v3' = v3
  <2>1. 0 \in 0..StrBufSize
    BY StrBounds
  <2> QED
    BY <1>11, <1>12, <2>1
<1>13. CASE \E k \in 1..most : Reads(k) /\ Streams!Fault("error") /\ Streams!Returns(-1)
  <2>1. PICK k \in 1..most : Reads(k) /\ Streams!Fault("error") /\ Streams!Returns(-1)
    BY <1>13
  <2>2. k \in 0..StrBufSize
    BY <1>6, <2>1, StrBounds
  <2> QED
    BY <1>11, <2>1, <2>2
<1> HIDE DEF Reads, Sends
<1> QED
  BY <1>7, <1>8, <1>9, <1>10, <1>12, <1>13

LEMMA StrSendfileEnds == Streams!IInv /\ Streams!SendfileEnds => Streams!IInv'
<1> SUFFICES ASSUME Streams!IInv, Streams!SendfileEnds PROVE Streams!IInv'
  OBVIOUS
<1>1. v1 = "sendfile" /\ v1' = v1 /\ v2' = v2
  BY DEF Streams!SendfileEnds, Streams!Mine
<1>2. Streams!TypeOK /\ Streams!SendInv
  BY <1>1 DEF Streams!IInv
<1>3. /\ v4 \in Streams!States /\ v3 \in Streams!Inputs /\ v5 \in Streams!Outputs /\ v4.tot \in Nat /\ v3.pos \in Nat /\ v4.orig \in Nat
      /\ Len(v3.all) \in Nat /\ Streams!From \in Nat
  BY <1>2, StrTyped, StrFrom
<1>4. CASE v4.pc = "loop" /\ v4.tot = v2 /\ v4' = [v4 EXCEPT !.pc = "restore"] /\ v3' = v3 /\ v5' = v5 /\ v6' = v6
  BY <1>1, <1>4, StrSendDone
\* What holds when the file offset is to be reset.
<1>5. ASSUME v4.pc = "restore"
      PROVE  /\ Len(v5.bytes) = v4.tot /\ (v4.tot = v2 \/ v3.pos >= Len(v3.all))
             /\ v6["partial"] = 0 => v3.pos = Streams!From + v4.tot
             /\ v6["partial"] = 0 /\ v4.tot > 0 => Streams!Delivered(Streams!From)
  BY <1>2, <1>5 DEF Streams!SendInv, Streams!At
\* It returns what was sent.
<1>6. ASSUME v4.pc = "restore", v4' \in Streams!States, v4'.pc = "returned", v4'.tot = v4.tot, v4'.orig = v4.orig,
             v5' \in Streams!Outputs, v5'.bytes = v5.bytes, v5'.result = v4.tot, v6' = v6,
             v3' \in Streams!Inputs, v3'.all = v3.all, v3'.offset = v3.offset, Streams!Reached' = v3.pos,
             v3.offset # -1 => v3'.pos = v4.orig
      PROVE  Streams!IInv'
  <2>1. Streams!TypeOK'
    BY <1>1, <1>2, <1>6 DEF Streams!TypeOK
  <2>2. Streams!From' = Streams!From /\ Streams!Delivered(Streams!From)' = Streams!Delivered(Streams!From)
    BY <1>6 DEF Streams!From, Streams!Delivered
  <2>3. v5'.result # -1
    BY <1>3, <1>6
  <2> HIDE DEF Streams!Reached
  <2>4. Streams!SendInv'
    BY <1>1, <1>5, <1>6, <2>2, <2>3 DEF Streams!SendInv, Streams!At
  <2> QED
    BY <1>1, <2>1, <2>4 DEF Streams!IInv
<1>7. CASE v4.pc = "restore" /\ v3.offset = -1 /\ Streams!Returns(v4.tot) /\ v3' = v3 /\ v6' = v6
  <2>1. /\ v4' \in Streams!States /\ v4'.pc = "returned" /\ v4'.tot = v4.tot /\ v4'.orig = v4.orig
        /\ v5' \in Streams!Outputs /\ v5'.bytes = v5.bytes /\ v5'.result = v4.tot
    BY <1>2, <1>3, <1>7, StrReturns
  <2>2. Streams!Reached' = v3.pos
    BY <1>7 DEF Streams!Reached
  <2> QED
    BY <1>3, <1>6, <1>7, <2>1, <2>2
<1>8. CASE /\ v4.pc = "restore" /\ v3.offset # -1 /\ v4' = [v4 EXCEPT !.pc = "returned"] /\ v6' = v6
           /\ v3' = [v3 EXCEPT !.pos = v4.orig] /\ v5' = [v5 EXCEPT !.result = v4.tot, !.offset = v3.pos]
  <2>1. v4' \in Streams!States /\ v4'.pc = "returned" /\ v4'.tot = v4.tot /\ v4'.orig = v4.orig
    BY <1>3, <1>8 DEF Streams!States
  <2>2. v5' \in Streams!Outputs /\ v5'.bytes = v5.bytes /\ v5'.result = v4.tot /\ v5'.offset = v3.pos
    <3>1. StrStored(v4.tot, v3.pos)
      BY <1>8 DEF StrStored
    <3> QED
      BY <1>2, <1>3, <3>1, StrStores
  <2>3. v3' \in Streams!Inputs /\ v3'.all = v3.all /\ v3'.offset = v3.offset /\ v3'.pos = v4.orig
    BY <1>3, <1>8 DEF Streams!Inputs
  <2>4. Streams!Reached' = v3.pos
    BY <1>8, <2>2, <2>3 DEF Streams!Reached
  <2> QED
    BY <1>6, <1>8, <2>1, <2>2, <2>3, <2>4
<1>9. CASE /\ v4.pc = "restore" /\ v3.offset # -1 /\ v4' = [v4 EXCEPT !.pc = "returned"] /\ Streams!Fault("seek") /\ v3' = v3
           /\ \E o \in {-1, v3.pos} : v5' = [v5 EXCEPT !.result = -1, !.offset = o]
  <2>1. v4' \in Streams!States /\ v4'.pc = "returned" /\ v4'.tot = v4.tot /\ v4'.orig = v4.orig
    BY <1>3, <1>9 DEF Streams!States
  <2>2. PICK o \in {-1, v3.pos} : v5' = [v5 EXCEPT !.result = -1, !.offset = o]
    BY <1>9
  <2>3. v5' \in Streams!Outputs /\ v5'.bytes = v5.bytes /\ v5'.result = -1
    <3>1. StrStored(-1, o) /\ o \in Int
      BY <1>3, <2>2 DEF StrStored
    <3> QED
      BY <1>2, <3>1, StrStores
  <2>4. v6' \in [{"eintr", "error", "partial", "socket", "address", "listen", "seek"} -> Nat] /\ v6'["partial"] = v6["partial"]
    BY <1>2, <1>9, StrFault
  <2>5. Streams!TypeOK'
    BY <1>1, <1>2, <1>9, <2>1, <2>3, <2>4 DEF Streams!TypeOK
  <2>6. ASSUME v6["partial"] = 0 PROVE v3'.pos - (Streams!From + v4.tot) \in 0..StrBufSize
    <3> DEFINE F == Streams!From
               t == v4.tot
    <3>1. v3'.pos = F + t /\ F \in Nat /\ t \in Nat /\ StrBufSize \in Nat
      BY <1>3, <1>5, <1>9, <2>6, StrBounds
    <3> HIDE DEF F, t
    <3>2. v3'.pos - (F + t) \in 0..StrBufSize
      BY <3>1
    <3> QED
      BY <3>2 DEF F, t
  <2>7. v4.pc # "start"
    BY <1>9
  <2>8. Streams!SendInv'
    BY <1>2, <1>9, <2>1, <2>3, <2>4, <2>6, <2>7, StrSendFails
  <2> QED
    BY <1>1, <2>5, <2>8 DEF Streams!IInv
<1> QED
  BY <1>4, <1>7, <1>8, <1>9 DEF Streams!SendfileEnds, Streams!Mine, Streams!At

\* The ends of lines and their number.
LEMMA StrLinesTo ==
  ASSUME Streams!TypeOK
  PROVE  /\ \A j \in Streams!LineEnds : j \in Nat /\ j > 0 /\ j <= Len(v3.all)
         /\ \A b \in Nat : Streams!LinesTo(b) \in Nat
         /\ \A b \in Nat, e \in Nat : e <= b => Streams!LinesTo(e) <= Streams!LinesTo(b)
         /\ \A b \in Nat, c \in Streams!LineEnds :
              b < c /\ (\A j \in Streams!LineEnds : j <= b \/ j >= c) => Streams!LinesTo(c) = Streams!LinesTo(b) + 1
         /\ \A e \in Streams!LineEnds : Streams!LinesTo(e) > 0
<1> DEFINE E == Streams!LineEnds
           To(b) == {j \in E : j <= b}
<1>1. \A j \in E : j \in 1..Len(v3.all)
  <2>1. v3.all \in Seq(Streams!Characters)
    BY StrTyped
  <2> QED
    BY <2>1 DEF Streams!LineEnds
<1>2. \A b \in Nat : Streams!LinesTo(b) = Cardinality(To(b))
  BY DEF Streams!LinesTo, Streams!Cardinality, Cardinality
<1>3. Len(v3.all) \in Nat
  BY StrTyped
<1> HIDE DEF E
<1>4. \A j \in E : j \in Nat /\ j > 0 /\ j <= Len(v3.all)
  BY <1>1, <1>3
<1>5. IsFiniteSet(1..Len(v3.all))
  BY <1>3, FS_Interval
<1>6. \A b \in Nat : IsFiniteSet(To(b))
  <2> TAKE b \in Nat
  <2>1. To(b) \subseteq 1..Len(v3.all)
    BY <1>1
  <2> QED
    BY <1>5, <2>1, FS_Subset
<1>7. \A b \in Nat : Cardinality(To(b)) \in Nat
  BY <1>6, FS_CardinalityType
<1>8. ASSUME NEW b \in Nat, NEW e \in Nat, e <= b PROVE Cardinality(To(e)) <= Cardinality(To(b))
  <2>1. To(e) \subseteq To(b)
    BY <1>4, <1>8
  <2> QED
    BY <1>6, <2>1, FS_Subset
<1>9. ASSUME NEW b \in Nat, NEW c \in E, b < c, \A j \in E : j <= b \/ j >= c
      PROVE  Cardinality(To(c)) = Cardinality(To(b)) + 1
  <2>1. c \in Nat
    BY <1>4
  <2>2. To(c) = To(b) \cup {c}
    <3>1. \A j \in E : j <= c <=> j <= b \/ j = c
      BY <1>4, <1>9, <2>1
    <3> QED
      BY <3>1
  <2>3. c \notin To(b)
    BY <1>9, <2>1
  <2> HIDE DEF To
  <2> QED
    BY <1>6, <2>1, <2>2, <2>3, FS_AddElement
<1>10. ASSUME NEW e \in E PROVE Cardinality(To(e)) > 0
  <2>1. e \in Nat /\ e \in To(e)
    BY <1>4
  <2>2. IsFiniteSet(To(e)) /\ Cardinality(To(e)) \in Nat /\ To(e) # {}
    BY <1>6, <1>7, <2>1
  <2> HIDE DEF To
  <2>3. Cardinality(To(e)) # 0
    BY <2>2, FS_EmptySet
  <2> QED
    BY <2>2, <2>3
<1> HIDE DEF To
<1>11. \A b \in Nat, e \in Nat : e <= b => Streams!LinesTo(e) <= Streams!LinesTo(b)
  BY <1>2, <1>8
<1>12. \A b \in Nat, c \in E : b < c /\ (\A j \in E : j <= b \/ j >= c) => Streams!LinesTo(c) = Streams!LinesTo(b) + 1
  BY <1>2, <1>4, <1>9
<1>13. \A e \in E : Streams!LinesTo(e) > 0
  BY <1>2, <1>4, <1>10
<1> QED
  BY <1>2, <1>4, <1>7, <1>11, <1>12, <1>13 DEF E

\* A line up to where it has been read, of which at most n characters are kept.
LEMMA StrCut ==
  ASSUME Streams!TypeOK, v2 > 0, NEW b \in Nat, NEW t \in Nat, b <= t, t <= Len(v3.all)
  PROVE  /\ Streams!Cut(b, t) \in Seq(Streams!Characters) /\ Len(Streams!Cut(b, t)) = (IF t <= b + v2 THEN t - b ELSE v2)
         /\ t < Len(v3.all) => Streams!Cut(b, t + 1) = IF Len(Streams!Cut(b, t)) < v2 THEN Append(Streams!Cut(b, t), v3.all[t + 1]) ELSE Streams!Cut(b, t)
         /\ Streams!Cut(t, t) = <<>>
<1> DEFINE C == Streams!Characters
           s == v3.all
           l == Len(s)
<1>1. s \in Seq(C) /\ l \in Nat /\ v2 \in Nat
  BY StrTyped
<1>2. \A a \in Nat, e \in Nat : Streams!Cut(a, e) = SubSeq(s, a + 1, IF e < a + v2 THEN e ELSE a + v2)
  BY DEF Streams!Cut, Streams!Least
<1>3. v2 > 0 /\ b <= t /\ t <= l
  OBVIOUS
<1> HIDE DEF C, s
<1> DEFINE m == IF t < b + v2 THEN t ELSE b + v2
<1>4. m \in Nat /\ b <= m /\ m <= l /\ m - b = IF t <= b + v2 THEN t - b ELSE v2
  <2> HIDE DEF l
  <2> QED
    BY <1>1, <1>3
<1>5. Streams!Cut(b, t) = SubSeq(s, b + 1, m)
  BY <1>2
<1> HIDE DEF m
<1>6. SubSeq(s, b + 1, m) \in Seq(C) /\ Len(SubSeq(s, b + 1, m)) = m - b /\ \A i \in 1..(m - b) : SubSeq(s, b + 1, m)[i] = s[b + i]
  BY <1>1, <1>4, StrPart
<1>7. ASSUME t < l
      PROVE  Streams!Cut(b, t + 1) = IF m - b < v2 THEN Append(SubSeq(s, b + 1, m), s[t + 1]) ELSE SubSeq(s, b + 1, m)
  <2>1. CASE m - b < v2
    <3>1. t < b + v2 /\ m = t
      <4> HIDE DEF l
      <4> QED
        BY <1>1, <1>3, <1>4, <2>1 DEF m
    <3>2. (t + 1 < b + v2 => t + 1 = m + 1) /\ (~(t + 1 < b + v2) => b + v2 = m + 1) /\ t + 1 = m + 1
      <4> HIDE DEF l
      <4> QED
        BY <1>1, <1>3, <3>1
    <3>3. Streams!Cut(b, t + 1) = SubSeq(s, b + 1, m + 1)
      <4>1. t + 1 \in Nat
        OBVIOUS
      <4>2. Streams!Cut(b, t + 1) = SubSeq(s, b + 1, IF t + 1 < b + v2 THEN t + 1 ELSE b + v2)
        BY <1>2, <4>1
      <4> QED
        BY <3>2, <4>2
    <3> DEFINE u == SubSeq(s, b + 1, m)
               w == SubSeq(s, b + 1, m + 1)
    <3>4. m + 1 \in Nat /\ b <= m + 1 /\ m + 1 <= l
      <4> HIDE DEF l
      <4> QED
        BY <1>1, <1>4, <1>7, <3>1
    <3>5. w \in Seq(C) /\ Len(w) = (m + 1) - b /\ \A i \in 1..((m + 1) - b) : w[i] = s[b + i]
      BY <1>1, <3>4, StrPart
    <3>6. s[m + 1] \in C
      <4>1. m + 1 \in 1..Len(s)
        BY <1>1, <1>4, <3>4
      <4> QED
        BY <1>1, <4>1
    <3>7. u \in Seq(C) /\ Len(u) = m - b /\ \A i \in 1..(m - b) : u[i] = s[b + i]
      BY <1>6
    <3> HIDE DEF u, w, l
    <3>8. Append(u, s[m + 1]) \in Seq(C) /\ Len(Append(u, s[m + 1])) = Len(u) + 1 /\ Append(u, s[m + 1])[Len(u) + 1] = s[m + 1]
            /\ \A i \in 1..Len(u) : Append(u, s[m + 1])[i] = u[i]
      BY <3>6, <3>7, AppendProperties
    <3> DEFINE v == Append(u, s[m + 1])
    <3>9. v \in Seq(C) /\ Len(v) = (m + 1) - b /\ v[(m - b) + 1] = s[m + 1] /\ \A i \in 1..(m - b) : v[i] = s[b + i]
      <4>1. (m - b) + 1 = (m + 1) - b
        BY <1>4
      <4> QED
        BY <3>7, <3>8, <4>1
    <3> HIDE DEF v
    <3>10. \A i \in 1..((m + 1) - b) : v[i] = w[i]
      <4> TAKE i \in 1..((m + 1) - b)
      <4>1. i \in 1..(m - b) \/ (i = (m - b) + 1 /\ b + i = m + 1)
        BY <1>4
      <4> QED
        BY <3>5, <3>9, <4>1
    <3>11. v = w
      BY <3>5, <3>9, <3>10, SeqEqual
    <3> QED
      BY <2>1, <3>2, <3>3, <3>11 DEF u, v, w
  <2>2. CASE ~(m - b < v2)
    <3>1. ~(t < b + v2) /\ m = b + v2 /\ ~(t + 1 < b + v2) /\ t + 1 \in Nat
      <4> HIDE DEF l
      <4> QED
        BY <1>1, <1>3, <1>4, <2>2 DEF m
    <3> QED
      BY <1>2, <2>2, <3>1
  <2> QED
    BY <2>1, <2>2
<1>8. Streams!Cut(t, t) = <<>>
  <2>1. Streams!Cut(t, t) = SubSeq(s, t + 1, t)
    BY <1>1, <1>2, <1>3
  <2>2. SubSeq(s, t + 1, t) = <<>>
    BY <1>1
  <2> QED
    BY <2>1, <2>2
<1>9. Streams!Cut(b, t) \in Seq(Streams!Characters) /\ Len(Streams!Cut(b, t)) = m - b
  BY <1>5, <1>6 DEF C
<1> QED
  BY <1>4, <1>5, <1>7, <1>8, <1>9 DEF s

\* What LineInv says, with the stream position that Taken stands for.
LEMMA StrLineTyped ==
  ASSUME Streams!TypeOK, Streams!LineInv
  PROVE  /\ Streams!Taken \in Nat /\ Streams!Taken = (v3.pos - Len(v4.buf)) + v4.next /\ Streams!Taken <= v3.pos /\ Streams!Taken <= Len(v3.all)
         /\ Len(v4.buf) \in Nat /\ v4.next <= Len(v4.buf) /\ Len(v4.buf) <= v3.pos /\ v3.pos <= Len(v3.all) /\ v2 > 0
<1> DEFINE p == v3.pos
           m == Len(v4.buf)
           x == v4.next
           l == Len(v3.all)
<1>1. p \in Nat /\ x \in Nat /\ l \in Nat /\ m \in Nat
  BY StrTyped
<1>2. Streams!Taken = (p - m) + x /\ x <= m /\ m <= p /\ p <= l /\ v2 > 0
  BY DEF Streams!Taken, Streams!LineInv
<1> HIDE DEF p, m, x, l
<1>3. (p - m) + x \in Nat /\ (p - m) + x <= p /\ (p - m) + x <= l
  BY <1>1, <1>2
<1>4. m \in Nat /\ Streams!Taken = (p - m) + x /\ Streams!Taken \in Nat /\ Streams!Taken <= p /\ Streams!Taken <= l /\ x <= m /\ m <= p /\ p <= l /\ v2 > 0
  BY <1>1, <1>2, <1>3
<1> QED
  BY <1>4 DEF p, m, x, l

\* The lines that were returned stay as they are.
LEMMA StrLinesFrame ==
  ASSUME v2' = v2, v3'.all = v3.all
  PROVE  /\ Streams!LineEnds' = Streams!LineEnds /\ \A a, e : Streams!Cut(a, e)' = Streams!Cut(a, e)
         /\ \A b : Streams!LinesTo(b)' = Streams!LinesTo(b)
         /\ v5'.lines = v5.lines => \A b : Streams!LinesAreTo(b)' = Streams!LinesAreTo(b)
<1>1. Streams!LineEnds' = Streams!LineEnds
  BY DEF Streams!LineEnds
<1>2. \A a, e : Streams!Cut(a, e)' = Streams!Cut(a, e)
  BY DEF Streams!Cut, Streams!Least
<1>3. \A b : Streams!LinesTo(b)' = Streams!LinesTo(b)
  BY <1>1 DEF Streams!LinesTo
<1>4. ASSUME v5'.lines = v5.lines, NEW b PROVE Streams!LinesAreTo(b)' = Streams!LinesAreTo(b)
  BY <1>1, <1>2, <1>3, <1>4 DEF Streams!LinesAreTo, Streams!Line
<1> QED
  BY <1>1, <1>2, <1>3, <1>4

LEMMA StrFillBuffer == Streams!IInv /\ Streams!FillBuffer => Streams!IInv'
<1> SUFFICES ASSUME Streams!IInv, Streams!FillBuffer PROVE Streams!IInv'
  OBVIOUS
<1>1. v1 = "line" /\ v1' = v1 /\ v2' = v2 /\ v4.pc = "loop" /\ v4.next = Len(v4.buf) /\ v5' = v5
  BY DEF Streams!FillBuffer, Streams!Mine, Streams!At
<1>2. Streams!TypeOK
  BY DEF Streams!IInv
<1>3. /\ v4 \in Streams!States /\ v3 \in Streams!Inputs /\ v3.pos \in Nat /\ Len(v3.all) \in Nat /\ v3.all \in Seq(Streams!Characters)
      /\ v6 \in [{"eintr", "error", "partial", "socket", "address", "listen", "seek"} -> Nat]
  BY <1>2, StrTyped
<1>4. Streams!TypeOK' /\ (v6'["eintr"] = 0 => Streams!LineInv') => Streams!IInv'
  BY <1>1 DEF Streams!IInv
<1>5. <<>> \in Seq(Streams!Characters) /\ 0 \in Nat /\ Len(<<>>) = 0 /\ DOMAIN <<>> = {}
  OBVIOUS
<1>6. ASSUME v6["eintr"] = 0 PROVE Streams!LineInv /\ Streams!Taken = v3.pos /\ v3.pos <= Len(v3.all)
  <2>1. Streams!LineInv
    BY <1>1, <1>6 DEF Streams!IInv
  <2>2. Streams!Taken = (v3.pos - Len(v4.buf)) + v4.next /\ Len(v4.buf) \in Nat /\ v3.pos <= Len(v3.all)
    BY <1>2, <2>1, StrLineTyped
  <2> QED
    BY <1>1, <1>3, <2>1, <2>2
<1>7. CASE \E k \in 1..Streams!Least(Streams!Left, StrLineBuf) :
             /\ v3' = [v3 EXCEPT !.pos = @ + k] /\ v4' = [v4 EXCEPT !.buf = Streams!Bytes(v3.pos, v3.pos + k), !.next = 0] /\ v6' = v6
  <2>1. PICK k \in 1..Streams!Least(Streams!Left, StrLineBuf) :
             /\ v3' = [v3 EXCEPT !.pos = @ + k] /\ v4' = [v4 EXCEPT !.buf = Streams!Bytes(v3.pos, v3.pos + k), !.next = 0] /\ v6' = v6
    BY <1>7
  <2> DEFINE x == v3.pos
             l == Len(v3.all)
             y == Streams!Bytes(v3.pos, v3.pos + k)
  <2>2. k \in Nat /\ k > 0 /\ x + k <= l
    <3> DEFINE m == Streams!Left
    <3>1. m = (IF x < l THEN l - x ELSE 0) /\ x \in Nat /\ l \in Nat /\ StrLineBuf \in Nat
      BY <1>3, StrBounds DEF Streams!Left
    <3>2. k \in 1..Streams!Least(m, StrLineBuf)
      BY <2>1
    <3> HIDE DEF x, l, m
    <3>3. m \in Nat /\ k \in Nat /\ k > 0 /\ k <= m
      BY <3>1, <3>2 DEF Streams!Least
    <3> QED
      BY <3>1, <3>3
  <2>3. y \in Seq(Streams!Characters) /\ Len(y) = k /\ \A i \in 1..k : y[i] = v3.all[x + i]
    <3>1. x + k \in Nat /\ x <= x + k /\ (x + k) - x = k /\ x \in Nat
      BY <1>3, <2>2
    <3> HIDE DEF x
    <3>2. /\ SubSeq(v3.all, x + 1, x + k) \in Seq(Streams!Characters) /\ Len(SubSeq(v3.all, x + 1, x + k)) = (x + k) - x
          /\ \A i \in 1..((x + k) - x) : SubSeq(v3.all, x + 1, x + k)[i] = v3.all[x + i]
      BY <1>3, <2>2, <3>1, StrPart
    <3> QED
      BY <3>1, <3>2 DEF Streams!Bytes, x
  <2>4. v3' \in Streams!Inputs /\ v3'.pos = x + k /\ v3'.all = v3.all
    BY <1>2, <2>1, <2>2, StrMore
  <2> HIDE DEF y
  <2>5. v4' \in Streams!States /\ v4'.buf = y /\ v4'.next = 0 /\ v4'.pc = v4.pc /\ v4'.line = v4.line
    <3>1. v4' = [v4 EXCEPT !.buf = y, !.next = 0]
      BY <2>1 DEF y
    <3> QED
      BY <1>3, <1>5, <2>3, <3>1 DEF Streams!States
  <2>6. Streams!TypeOK'
    BY <1>1, <1>2, <2>1, <2>4, <2>5 DEF Streams!TypeOK
  <2>7. ASSUME v6["eintr"] = 0 PROVE Streams!LineInv'
    <3>1. Streams!LineInv /\ Streams!Taken = x /\ x \in Nat
      BY <1>3, <1>6, <2>7
    <3>2. Streams!Taken' = x
      <4>1. Streams!Taken' = ((x + k) - k) + 0
        BY <2>3, <2>4, <2>5 DEF Streams!Taken
      <4> HIDE DEF x
      <4> QED
        BY <2>2, <3>1, <4>1
    <3>3. /\ v4'.next <= Len(v4'.buf) /\ Len(v4'.buf) <= v3'.pos /\ v3'.pos <= Len(v3'.all)
          /\ \A j \in DOMAIN v4'.buf : v4'.buf[j] = v3'.all[v3'.pos - Len(v4'.buf) + j]
      <4>1. v4'.next = 0 /\ Len(v4'.buf) = k /\ v3'.pos = x + k /\ Len(v3'.all) = l /\ DOMAIN v4'.buf = 1..k
        BY <2>3, <2>4, <2>5
      <4>2. \A j \in 1..k : v4'.buf[j] = v3'.all[x + j] /\ (x + k) - k + j = x + j
        <5> HIDE DEF x
        <5> QED
          BY <2>2, <2>3, <2>4, <2>5, <3>1
      <4>3. v4'.next <= Len(v4'.buf) /\ Len(v4'.buf) <= v3'.pos /\ v3'.pos <= Len(v3'.all)
        <5> HIDE DEF x, l
        <5> QED
          BY <2>2, <3>1, <4>1
      <4> QED
        BY <4>1, <4>2, <4>3
    <3>4. PICK b \in {0} \cup Streams!LineEnds : Streams!LineFrom(b)
      BY <3>1 DEF Streams!LineInv
    <3>5. Streams!LineFrom(b)'
      BY <1>1, <2>4, <2>5, <3>1, <3>2, <3>4, StrLinesFrame DEF Streams!LineFrom, Streams!At
    <3>6. b \in {0} \cup Streams!LineEnds'
      BY <1>1, <2>4, StrLinesFrame
    <3>7. v2' > 0 /\ v4'.pc \in {"loop", "return", "returned"}
      BY <1>1, <2>5, <3>1 DEF Streams!LineInv
    <3> QED
      BY <3>3, <3>5, <3>6, <3>7 DEF Streams!LineInv
  <2> QED
    BY <1>4, <2>1, <2>6, <2>7
<1>8. CASE Streams!Left = 0 /\ v3' = v3 /\ v6' = v6 /\ v4' = [v4 EXCEPT !.pc = "return", !.buf = <<>>, !.next = 0]
  <2>1. v4' \in Streams!States /\ v4'.pc = "return" /\ v4'.buf = <<>> /\ v4'.next = 0 /\ v4'.line = v4.line
    BY <1>3, <1>5, <1>8 DEF Streams!States
  <2>2. Streams!TypeOK'
    BY <1>1, <1>2, <1>8, <2>1 DEF Streams!TypeOK
  <2>3. ASSUME v6["eintr"] = 0 PROVE Streams!LineInv'
    <3> DEFINE x == v3.pos
               l == Len(v3.all)
    <3>1. Streams!LineInv /\ Streams!Taken = x /\ x \in Nat /\ l \in Nat /\ x <= l /\ 0 = IF x < l THEN l - x ELSE 0
      BY <1>3, <1>6, <1>8, <2>3 DEF Streams!Left
    <3>2. x = l
      <4> HIDE DEF x, l
      <4> QED
        BY <3>1
    <3>3. Streams!Taken' = x
      <4>1. Streams!Taken' = (x - 0) + 0
        BY <1>5, <1>8, <2>1 DEF Streams!Taken
      <4> QED
        BY <3>1, <4>1
    <3>4. PICK b \in {0} \cup Streams!LineEnds : Streams!LineFrom(b)
      BY <3>1 DEF Streams!LineInv
    <3>5. Streams!LineFrom(b)'
      BY <1>1, <1>8, <2>1, <3>1, <3>2, <3>3, <3>4, StrLinesFrame DEF Streams!LineFrom, Streams!At
    <3>6. b \in {0} \cup Streams!LineEnds'
      BY <1>1, <1>8, StrLinesFrame
    <3>7. v2' > 0 /\ v4'.next <= Len(v4'.buf) /\ Len(v4'.buf) <= v3'.pos /\ v3'.pos <= Len(v3'.all) /\ DOMAIN v4'.buf = {}
      BY <1>1, <1>5, <1>8, <2>1, <3>1 DEF Streams!LineInv
    <3> QED
      BY <2>1, <3>5, <3>6, <3>7 DEF Streams!LineInv
  <2> QED
    BY <1>4, <1>8, <2>2, <2>3
<1>9. CASE Streams!Fault("eintr") /\ v3' = v3 /\ v4' = [v4 EXCEPT !.line = <<>>, !.buf = <<>>, !.next = 0]
  <2>1. v4' \in Streams!States
    BY <1>3, <1>5, <1>9 DEF Streams!States
  <2>2. v6' \in [{"eintr", "error", "partial", "socket", "address", "listen", "seek"} -> Nat] /\ v6'["eintr"] > 0
    BY <1>2, <1>9, StrFault
  <2>3. v6'["eintr"] # 0
    BY <2>2
  <2>4. Streams!TypeOK'
    BY <1>1, <1>2, <1>9, <2>1, <2>2 DEF Streams!TypeOK
  <2> QED
    BY <1>4, <2>3, <2>4
<1> QED
  BY <1>7, <1>8, <1>9 DEF Streams!FillBuffer, Streams!Mine

LEMMA StrReadLineBuf == Streams!IInv /\ Streams!readLineBuf => Streams!IInv'
<1> SUFFICES ASSUME Streams!IInv, Streams!readLineBuf PROVE Streams!IInv'
  OBVIOUS
<1> DEFINE C == Streams!Characters
           x == v4.next + 1
           c == v4.buf[x]
           line == IF Len(v4.line) < v2 THEN Append(v4.line, c) ELSE v4.line
           p == IF c = "nl" THEN "return" ELSE v4.pc
<1>1. /\ v1 = "line" /\ v1' = v1 /\ v2' = v2 /\ v4.pc = "loop" /\ v4.next < Len(v4.buf) /\ v3' = v3 /\ v5' = v5 /\ v6' = v6
      /\ v4' = [v4 EXCEPT !.next = x, !.line = line, !.pc = p]
  BY DEF Streams!readLineBuf, Streams!Mine, Streams!At
<1>2. Streams!TypeOK
  BY DEF Streams!IInv
<1>3. v4 \in Streams!States /\ v4.next \in Nat /\ v4.buf \in Seq(C) /\ Len(v4.buf) \in Nat /\ v4.line \in Seq(C) /\ v3.all \in Seq(C) /\ Len(v3.all) \in Nat /\ v2 \in Nat /\ v3.pos \in Nat
  BY <1>2, StrTyped
<1>4. x \in Nat /\ x \in 1..Len(v4.buf)
  BY <1>1, <1>3
<1>5. c \in C
  BY <1>3, <1>4
<1> HIDE DEF x, c, C
<1>6. line \in Seq(C)
  BY <1>3, <1>5
<1>7. p \in {"loop", "return"}
  BY <1>1
<1>8. v4' \in Streams!States /\ v4'.next = x /\ v4'.line = line /\ v4'.pc = p /\ v4'.buf = v4.buf
  <2> HIDE DEF line, p
  <2> QED
    BY <1>1, <1>3, <1>4, <1>6, <1>7 DEF Streams!States, C
<1>9. Streams!TypeOK'
  BY <1>1, <1>2, <1>8 DEF Streams!TypeOK
<1>10. ASSUME v6["eintr"] = 0 PROVE Streams!LineInv'
  <2> DEFINE m == Len(v4.buf)
             l == Len(v3.all)
  <2>1. Streams!LineInv
    BY <1>1, <1>10 DEF Streams!IInv
  <2>0. PICK t \in Nat : t = Streams!Taken
    BY <1>2, <2>1, StrLineTyped
  <2>2. /\ t \in Nat /\ t = (v3.pos - m) + v4.next /\ t <= v3.pos /\ t <= l
        /\ m \in Nat /\ v4.next <= m /\ m <= v3.pos /\ v3.pos <= l /\ v2 > 0
    BY <1>2, <2>0, <2>1, StrLineTyped
  <2>3. Streams!Taken' = (v3.pos - m) + x
    BY <1>1, <1>8 DEF Streams!Taken
  <2>4. Streams!Taken' = t + 1 /\ t + 1 <= l /\ t < l /\ (v3.pos - m) + x = t + 1 /\ x <= m
    <3> DEFINE q == v3.pos
               y == v4.next
    <3>1. q \in Nat /\ y \in Nat /\ m \in Nat /\ l \in Nat /\ x = y + 1 /\ y < m /\ t = (q - m) + y /\ m <= q /\ q <= l /\ t \in Nat /\ Streams!Taken' = (q - m) + x
      BY <1>1, <1>3, <2>2, <2>3 DEF x
    <3> HIDE DEF q, y, m, l
    <3>2. Streams!Taken' = t + 1 /\ t + 1 <= l /\ t < l /\ (q - m) + x = t + 1 /\ x <= m
      BY <3>1
    <3> QED
      BY <3>2 DEF q
  <2>5. c = v3.all[t + 1]
    <3>1. x \in DOMAIN v4.buf
      BY <1>3, <1>4
    <3>2. v4.buf[x] = v3.all[v3.pos - m + x]
      BY <2>1, <3>1 DEF Streams!LineInv
    <3> QED
      BY <2>4, <3>2 DEF c
  <2>6. PICK b \in {0} \cup Streams!LineEnds : Streams!LineFrom(b)
    BY <2>1 DEF Streams!LineInv
  <2>7. /\ b <= t /\ Streams!LinesAreTo(b) /\ v4.line = Streams!Cut(b, t)
        /\ \A j \in Streams!LineEnds : j <= b \/ j >= t
        /\ t = b \/ v3.all[t] # "nl"
    BY <1>1, <2>0, <2>6 DEF Streams!LineFrom, Streams!At
  <2>8. b \in Nat /\ \A j \in Streams!LineEnds : j \in Nat /\ j > 0 /\ j <= l
    BY <1>2, StrLinesTo
  <2>9. line = Streams!Cut(b, t + 1)
    <3>1. Streams!Cut(b, t + 1) = IF Len(Streams!Cut(b, t)) < v2 THEN Append(Streams!Cut(b, t), v3.all[t + 1]) ELSE Streams!Cut(b, t)
      BY <1>2, <2>2, <2>4, <2>7, <2>8, StrCut
    <3> QED
      BY <2>5, <2>7, <3>1
  <2>10. \A j \in Streams!LineEnds : j <= b \/ j >= t + 1
    <3> TAKE j \in Streams!LineEnds
    <3>1. v3.all[j] = "nl" \/ j = l
      BY DEF Streams!LineEnds
    <3>2. j = t => j <= b
      <4>1. ASSUME j = t, t # b PROVE FALSE
        BY <1>3, <2>2, <2>4, <2>7, <3>1, <4>1
      <4> QED
        BY <2>8, <4>1
    <3> HIDE DEF l
    <3>3. j \in Nat /\ b \in Nat /\ t \in Nat /\ (j <= b \/ j >= t)
      BY <2>2, <2>7, <2>8
    <3> QED
      BY <3>2, <3>3
  <2>11. b <= t + 1 /\ t + 1 \in Nat /\ b < t + 1
    BY <2>2, <2>7, <2>8
  <2>12. c = "nl" => t + 1 \in Streams!LineEnds
    <3>1. t + 1 \in 1..l
      <4> HIDE DEF l
      <4> QED
        BY <2>2, <2>4
    <3>2. t + 1 \in DOMAIN v3.all
      BY <1>3, <3>1
    <3> QED
      BY <2>5, <3>2 DEF Streams!LineEnds
  <2>13. Streams!LineFrom(b)'
    <3>1. Streams!Taken' = t + 1 /\ Streams!LinesAreTo(b)' /\ v4'.line = Streams!Cut(b, t + 1)' /\ Streams!LineEnds' = Streams!LineEnds
      BY <1>1, <1>8, <2>4, <2>7, <2>9, StrLinesFrame
    <3>2. v4'.pc = "loop" => v3'.all[t + 1] # "nl"
      BY <1>1, <1>8, <2>5
    <3>3. v4'.pc = "return" => t + 1 \in Streams!LineEnds' /\ b < t + 1
      BY <1>1, <1>8, <2>11, <2>12, <3>1
    <3>4. v4'.pc # "returned"
      BY <1>7, <1>8
    <3> HIDE DEF line, p
    <3>5. v4'.line = Streams!Cut(b, Streams!Taken)'
      BY <3>1 DEF Streams!Cut, Streams!Least
    <3> QED
      BY <2>10, <2>11, <3>1, <3>2, <3>3, <3>4, <3>5 DEF Streams!LineFrom, Streams!At
  <2>14. b \in {0} \cup Streams!LineEnds'
    BY <1>1, StrLinesFrame
  <2>15. /\ v4'.next <= Len(v4'.buf) /\ Len(v4'.buf) <= v3'.pos /\ v3'.pos <= Len(v3'.all) /\ v2' > 0 /\ v4'.pc \in {"loop", "return", "returned"}
         /\ \A j \in DOMAIN v4'.buf : v4'.buf[j] = v3'.all[v3'.pos - Len(v4'.buf) + j]
    <3> HIDE DEF line, p
    <3> QED
      BY <1>1, <1>7, <1>8, <2>1, <2>2, <2>4 DEF Streams!LineInv
  <2> QED
    BY <2>13, <2>14, <2>15 DEF Streams!LineInv
<1> QED
  BY <1>1, <1>9, <1>10 DEF Streams!IInv

LEMMA StrLineReturned == Streams!IInv /\ Streams!LineReturned => Streams!IInv'
<1> SUFFICES ASSUME Streams!IInv, Streams!LineReturned PROVE Streams!IInv'
  OBVIOUS
<1> DEFINE C == Streams!Characters
           lines == IF v4.line = <<>> THEN v5.lines ELSE Append(v5.lines, v4.line)
           p == IF v4.line = <<>> THEN "returned" ELSE "loop"
<1>1. /\ v1 = "line" /\ v1' = v1 /\ v2' = v2 /\ v4.pc = "return" /\ v3' = v3 /\ v6' = v6
      /\ v5' = [v5 EXCEPT !.lines = lines] /\ v4' = [v4 EXCEPT !.line = <<>>, !.pc = p]
  BY DEF Streams!LineReturned, Streams!Mine, Streams!At
<1>2. Streams!TypeOK
  BY DEF Streams!IInv
<1>3. v4 \in Streams!States /\ v5 \in Streams!Outputs /\ v4.line \in Seq(C) /\ v5.lines \in Seq(Seq(C)) /\ v3.all \in Seq(C) /\ Len(v3.all) \in Nat /\ <<>> \in Seq(C)
  BY <1>2, StrTyped
<1>4. lines \in Seq(Seq(C)) /\ p \in {"loop", "returned"}
  BY <1>3
<1>5. v4' \in Streams!States /\ v4'.next = v4.next /\ v4'.line = <<>> /\ v4'.pc = p /\ v4'.buf = v4.buf
  <2> HIDE DEF lines, p
  <2> QED
    BY <1>1, <1>3, <1>4 DEF Streams!States
<1>6. v5' \in Streams!Outputs /\ v5'.lines = lines
  <2> HIDE DEF lines, p
  <2> QED
    BY <1>1, <1>3, <1>4 DEF Streams!Outputs
<1>7. Streams!TypeOK'
  BY <1>1, <1>2, <1>5, <1>6 DEF Streams!TypeOK
<1>8. ASSUME v6["eintr"] = 0 PROVE Streams!LineInv'
  <2> DEFINE l == Len(v3.all)
  <2>1. Streams!LineInv
    BY <1>1, <1>8 DEF Streams!IInv
  <2>0. PICK t \in Nat : t = Streams!Taken
    BY <1>2, <2>1, StrLineTyped
  <2>2. t \in Nat /\ t <= l /\ v2 > 0
    BY <1>2, <2>0, <2>1, StrLineTyped
  <2>3. Streams!Taken' = t
    BY <1>1, <1>5, <2>0 DEF Streams!Taken
  <2>4. PICK b \in {0} \cup Streams!LineEnds : Streams!LineFrom(b)
    BY <2>1 DEF Streams!LineInv
  <2> HIDE DEF lines, p
  <2>5. /\ b <= t /\ Streams!LinesAreTo(b) /\ v4.line = Streams!Cut(b, t)
        /\ \A j \in Streams!LineEnds : j <= b \/ j >= t
        /\ t = l \/ (t \in Streams!LineEnds /\ b < t)
    BY <1>1, <2>0, <2>4 DEF Streams!LineFrom, Streams!At
  <2>6. b \in Nat /\ \A j \in Streams!LineEnds : j \in Nat /\ j > 0 /\ j <= l
    BY <1>2, StrLinesTo
  <2>7. Len(v4.line) = (IF t <= b + v2 THEN t - b ELSE v2) /\ Streams!Cut(t, t) = <<>> /\ Len(<<>>) = 0
    <3>1. Len(<<>>) = 0
      OBVIOUS
    <3> QED
      BY <1>2, <2>2, <2>5, <2>6, <3>1, StrCut
  <2>8. /\ v4'.next <= Len(v4'.buf) /\ Len(v4'.buf) <= v3'.pos /\ v3'.pos <= Len(v3'.all) /\ v2' > 0 /\ v4'.pc \in {"loop", "return", "returned"}
        /\ \A j \in DOMAIN v4'.buf : v4'.buf[j] = v3'.all[v3'.pos - Len(v4'.buf) + j]
    BY <1>1, <1>4, <1>5, <2>1 DEF Streams!LineInv
  <2>9. Streams!LineEnds' = Streams!LineEnds /\ (\A a, e : Streams!Cut(a, e)' = Streams!Cut(a, e)) /\ \A a : Streams!LinesTo(a)' = Streams!LinesTo(a)
    BY <1>1, StrLinesFrame
  <2>10. \A a : Streams!Cut(a, Streams!Taken)' = Streams!Cut(a, t)
    BY <1>1, <2>3 DEF Streams!Cut, Streams!Least
  <2>11. CASE v4.line = <<>>
    <3>1. t = b
      <4>1. 0 = IF t <= b + v2 THEN t - b ELSE v2
        BY <2>7, <2>11
      <4>2. v2 \in Nat
        BY <1>2, StrTyped
      <4> QED
        BY <2>2, <2>5, <2>6, <4>1, <4>2
    <3>2. t = l
      BY <2>5, <3>1, <2>6
    <3>3. v4'.pc = "returned" /\ v5'.lines = v5.lines
      BY <1>5, <1>6, <2>11 DEF p, lines
    <3>4. Streams!LinesAreTo(b)'
      BY <1>1, <2>5, <3>3, StrLinesFrame
    <3>5. Streams!LineFrom(b)'
      BY <1>1, <1>5, <2>3, <2>5, <2>7, <2>9, <2>10, <3>1, <3>2, <3>3, <3>4 DEF Streams!LineFrom, Streams!At
    <3> QED
      BY <2>8, <2>9, <3>5 DEF Streams!LineInv
  <2>12. CASE v4.line # <<>>
    <3>1. b < t
      <4>1. t # b
        BY <2>5, <2>7, <2>12
      <4> QED
        BY <2>2, <2>5, <2>6, <4>1
    <3>2. t \in Streams!LineEnds
      <4>1. CASE t = l
        <5>1. t \in 1..l
          BY <2>2, <2>6, <3>1
        <5>2. t \in DOMAIN v3.all
          BY <1>3, <5>1
        <5> QED
          BY <4>1, <5>2 DEF Streams!LineEnds
      <4> QED
        BY <2>5, <4>1
    <3>3. v4'.pc = "loop" /\ v5'.lines = Append(v5.lines, v4.line)
      BY <1>5, <1>6, <2>12 DEF p, lines
    <3>4. /\ Len(v5.lines) = Streams!LinesTo(b)
          /\ \A a \in {0} \cup Streams!LineEnds, e \in Streams!LineEnds : e <= b /\ Streams!Line(a, e) => v5.lines[Streams!LinesTo(e)] = Streams!Cut(a, e)
      BY <2>5 DEF Streams!LinesAreTo
    <3>5. Streams!LinesTo(t) = Streams!LinesTo(b) + 1 /\ Streams!LinesTo(b) \in Nat
      BY <1>2, <2>5, <2>6, <3>1, <3>2, StrLinesTo
    <3>6. /\ Len(v5'.lines) = Len(v5.lines) + 1 /\ v5'.lines[Len(v5.lines) + 1] = v4.line
          /\ \A i \in 1..Len(v5.lines) : v5'.lines[i] = v5.lines[i]
      BY <1>3, <3>3, AppendProperties
    <3>7. ASSUME NEW a \in {0} \cup Streams!LineEnds, NEW e \in Streams!LineEnds, e <= t, Streams!Line(a, e)
          PROVE  v5'.lines[Streams!LinesTo(e)] = Streams!Cut(a, e)
      <4>1. a \in Nat /\ e \in Nat /\ e > 0
        BY <2>6
      <4>2. a < e /\ \A j \in Streams!LineEnds : j <= a \/ j >= e
        BY <3>7 DEF Streams!Line
      <4>3. CASE e <= b
        <5>1. Streams!LinesTo(e) \in Nat /\ Streams!LinesTo(e) <= Streams!LinesTo(b) /\ Streams!LinesTo(e) > 0
          BY <1>2, <2>6, <4>1, <4>3, StrLinesTo
        <5>2. Streams!LinesTo(e) \in 1..Len(v5.lines)
          BY <3>4, <3>5, <5>1
        <5> QED
          BY <3>4, <3>6, <3>7, <4>3, <5>2
      <4>4. CASE ~(e <= b)
        <5>1. e = t
          BY <2>2, <2>5, <2>6, <3>7, <4>1, <4>4
        <5>2. b <= a
          <6>1. b = 0 \/ b <= a \/ b >= e
            BY <4>2
          <6> QED
            BY <2>6, <4>1, <4>4, <6>1
        <5>3. a <= b
          <6>1. a = 0 \/ a <= b \/ a >= t
            BY <2>5
          <6> QED
            BY <2>2, <2>6, <4>1, <4>2, <5>1, <6>1
        <5>4. a = b
          BY <2>6, <4>1, <5>2, <5>3
        <5> QED
          BY <2>5, <3>4, <3>5, <3>6, <5>1, <5>4
      <4> QED
        BY <4>3, <4>4
    <3>8. Streams!LinesAreTo(t)'
      <4>1. \A a, e : Streams!Line(a, e)' = Streams!Line(a, e)
        BY <2>9 DEF Streams!Line
      <4>2. Len(v5'.lines) = Streams!LinesTo(t)
        BY <3>4, <3>5, <3>6
      <4>3. Len(v5'.lines) = Streams!LinesTo(t)'
        BY <2>9, <4>2
      <4> QED
        BY <1>1, <2>3, <2>9, <3>7, <4>1, <4>3 DEF Streams!LinesAreTo
    <3>9. Streams!LineFrom(t)'
      <4>1. v4'.line = Streams!Cut(t, Streams!Taken)'
        BY <1>5, <2>7, <2>10
      <4>2. \A j \in Streams!LineEnds' : j <= t \/ j >= t
        BY <2>6, <2>9
      <4> QED
        BY <2>2, <2>3, <3>3, <3>8, <4>1, <4>2 DEF Streams!LineFrom, Streams!At
    <3> QED
      BY <2>3, <2>8, <2>9, <3>2, <3>9 DEF Streams!LineInv
  <2> QED
    BY <2>11, <2>12
<1> QED
  BY <1>1, <1>7, <1>8 DEF Streams!IInv

\* Every step.
LEMMA StrNext ==
  ASSUME Streams!IInv, Streams!Next \/ UNCHANGED <<v1, v2, v3, v4, v5, v6>>
  PROVE  Streams!IInv'
<1>1. CASE Streams!readn
  BY <1>1, StrReadn
<1>2. CASE Streams!writen
  BY <1>2, StrWriten
<1>3. CASE Streams!FillBuffer
  BY <1>3, StrFillBuffer
<1>4. CASE Streams!readLineBuf
  BY <1>4, StrReadLineBuf
<1>5. CASE Streams!LineReturned
  BY <1>5, StrLineReturned
<1>6. CASE Streams!sendfile
  BY <1>6, StrSendfileStarts, StrSendfileBlock, StrSendfileEnds DEF Streams!sendfile
<1>7. CASE Streams!inetConnect
  BY <1>7, StrMakeSocket, StrConnectOrBind DEF Streams!inetConnect
<1>8. CASE Streams!inetPassiveSocket
  BY <1>8, StrMakeSocket, StrConnectOrBind, StrReuseAndListen DEF Streams!inetPassiveSocket
<1>9. CASE Streams!unixSocket
  BY <1>9, StrUnix
<1>10. CASE UNCHANGED <<v1, v2, v3, v4, v5, v6>>
  <2>1. v1' = v1 /\ v2' = v2 /\ v3' = v3 /\ v4' = v4 /\ v5' = v5 /\ v6' = v6
    BY <1>10
  <2>2. Streams!TypeOK' = Streams!TypeOK /\ \A k : Streams!Delivered(k)' = Streams!Delivered(k)
    BY <2>1 DEF Streams!TypeOK, Streams!Delivered
  <2>3. Streams!Taken' = Streams!Taken /\ Streams!From' = Streams!From
    BY <2>1 DEF Streams!Taken, Streams!From
  <2>4. \A b : Streams!LineFrom(b)' = Streams!LineFrom(b)
    <3> TAKE b
    <3>1. Streams!LinesAreTo(b)' = Streams!LinesAreTo(b) /\ Streams!LineEnds' = Streams!LineEnds
      BY <2>1, StrLinesFrame
    <3>2. Streams!Cut(b, Streams!Taken)' = Streams!Cut(b, Streams!Taken)
      BY <2>1, <2>3 DEF Streams!Cut, Streams!Least
    <3> QED
      BY <2>1, <2>3, <3>1, <3>2 DEF Streams!LineFrom, Streams!At
  <2>5. Streams!LineEnds' = Streams!LineEnds
    BY <2>1, StrLinesFrame
  <2>6. Streams!LineInv => Streams!LineInv'
    BY <2>1, <2>4, <2>5 DEF Streams!LineInv
  <2>7. (Streams!ReadInv => Streams!ReadInv') /\ (Streams!WriteInv => Streams!WriteInv')
    BY <2>1, <2>2 DEF Streams!ReadInv, Streams!WriteInv
  <2>8. Streams!SendInv => Streams!SendInv'
    BY <2>1, <2>2, <2>3 DEF Streams!SendInv, Streams!Reached, Streams!At
  <2>9. (Streams!SocketInv => Streams!SocketInv') /\ (Streams!UnixInv => Streams!UnixInv')
    BY <2>1 DEF Streams!SocketInv, Streams!UnixInv, Streams!At
  <2> QED
    BY <2>1, <2>2, <2>6, <2>7, <2>8, <2>9 DEF Streams!IInv
<1> QED
  BY <1>1, <1>2, <1>3, <1>4, <1>5, <1>6, <1>7, <1>8, <1>9, <1>10 DEF Streams!Next

LEMMA StrSafe == Streams!IInv => Streams!DeliveredInFull
<1> SUFFICES ASSUME Streams!IInv PROVE Streams!DeliveredInFull
  OBVIOUS
<1>1. Streams!TypeOK
  BY DEF Streams!IInv
<1>2. Streams!Delivered(0) => Streams!IsPrefix(v5.bytes, v3.all)
  <2>1. v3.all \in Seq(Streams!Characters) /\ Len(v3.all) \in Nat /\ v5.bytes \in Seq(Streams!Characters) /\ Len(v5.bytes) \in Nat
    BY <1>1, StrTyped
  <2>2. SubSeq(v3.all, 0 + 1, Len(v3.all)) = v3.all
    BY <2>1
  <2> QED
    BY <1>1, <2>2, StrPrefix
<1>3. ASSUME v1 \in {"readn", "writen"}
      PROVE  /\ Streams!IsPrefix(v5.bytes, v3.all)
             /\ v5.result >= 0 => Len(v5.bytes) = v5.result /\ (v5.result = v2 \/ (v1 = "readn" /\ v5.result = Len(v3.all)))
  <2>1. v1 = "readn" => Streams!ReadInv
    BY DEF Streams!IInv
  <2>2. v1 = "writen" => Streams!WriteInv
    BY DEF Streams!IInv
  <2>3. CASE v1 = "readn"
    BY <1>2, <2>1, <2>3 DEF Streams!ReadInv
  <2>4. CASE v1 = "writen"
    BY <1>2, <2>2, <2>4 DEF Streams!WriteInv
  <2> QED
    BY <1>3, <2>3, <2>4
<1>4. ASSUME v1 = "line", v6["eintr"] = 0
      PROVE  \E b \in {0} \cup Streams!LineEnds : Streams!LinesAreTo(b) /\ (Streams!At("returned") => b = Len(v3.all))
  BY <1>4 DEF Streams!IInv, Streams!LineInv, Streams!LineFrom
<1>5. ASSUME v1 = "sendfile", ~Streams!At("start")
      PROVE  /\ v6["partial"] = 0 => Streams!IsPrefix(v5.bytes, SubSeq(v3.all, Streams!From + 1, Len(v3.all)))
             /\ v5.result >= 0 =>
                  /\ v5.result = Len(v5.bytes) /\ (v5.result = v2 \/ Streams!Reached >= Len(v3.all))
                  /\ v6["partial"] = 0 => Streams!Reached = Streams!From + v5.result
                  /\ v3.offset # -1 => v3.pos = v4.orig
             /\ v5.result = -1 /\ v6["partial"] = 0 => v3.pos = v4.orig \/ v3.pos - (Streams!From + Len(v5.bytes)) \in 0..StrBufSize
  <2>1. Streams!SendInv
    BY <1>5 DEF Streams!IInv
  <2>2. ASSUME v6["partial"] = 0 PROVE Streams!IsPrefix(v5.bytes, SubSeq(v3.all, Streams!From + 1, Len(v3.all)))
    <3>1. Len(v5.bytes) = v4.tot /\ (v4.tot > 0 => Streams!Delivered(Streams!From))
      BY <1>5, <2>1, <2>2 DEF Streams!SendInv, Streams!At
    <3>2. Streams!From \in Nat /\ v4.tot \in Nat
      BY <1>1, StrFrom, StrTyped
    <3>3. CASE v4.tot > 0
      BY <1>1, <3>1, <3>2, <3>3, StrPrefix
    <3>4. CASE ~(v4.tot > 0)
      <4>1. Len(v5.bytes) = 0
        BY <3>1, <3>2, <3>4
      <4> DEFINE s == SubSeq(v3.all, Streams!From + 1, Len(v3.all))
      <4>2. s \in Seq(Streams!Characters)
        <5>1. v3.all \in Seq(Streams!Characters) /\ Len(v3.all) \in Nat
          BY <1>1, StrTyped
        <5>2. \A i \in (Streams!From + 1)..Len(v3.all) : v3.all[i] \in Streams!Characters
          BY <3>2, <5>1
        <5> QED
          BY <3>2, <5>1, <5>2, SubSeqProperties
      <4>3. v5.bytes = <<>>
        BY <1>1, <4>1, StrTyped
      <4> HIDE DEF s
      <4>4. Len(<<>>) = 0 /\ Len(s) \in Nat /\ SubSeq(<<>>, 1, 0) = <<>> /\ SubSeq(s, 1, 0) = <<>>
        BY <4>2
      <4>5. Streams!IsPrefix(<<>>, s)
        BY <4>4 DEF Streams!IsPrefix
      <4> QED
        BY <4>3, <4>5 DEF s
    <3> QED
      BY <3>3, <3>4
  <2>3. ASSUME v5.result >= 0
        PROVE  /\ v5.result = Len(v5.bytes) /\ (v5.result = v2 \/ Streams!Reached >= Len(v3.all))
               /\ v6["partial"] = 0 => Streams!Reached = Streams!From + v5.result
               /\ v3.offset # -1 => v3.pos = v4.orig
    <3>1. Streams!At("returned") /\ v5.result # -1
      BY <1>5, <2>1, <2>3 DEF Streams!SendInv, Streams!At
    <3>2. v5.result = v4.tot
      BY <2>1, <3>1 DEF Streams!SendInv
    <3> QED
      BY <2>1, <3>1, <3>2 DEF Streams!SendInv
  <2>4. ASSUME v5.result = -1, v6["partial"] = 0
        PROVE  v3.pos = v4.orig \/ v3.pos - (Streams!From + Len(v5.bytes)) \in 0..StrBufSize
    <3>1. Streams!At("returned")
      BY <1>5, <2>1, <2>4 DEF Streams!SendInv, Streams!At
    <3>2. Len(v5.bytes) = v4.tot
      BY <2>1 DEF Streams!SendInv
    <3> QED
      BY <2>1, <2>4, <3>1, <3>2 DEF Streams!SendInv
  <2> QED
    BY <2>2, <2>3, <2>4
<1>6. ASSUME Streams!At("returned"), v1 \in {"connect", "listen", "bind", "unix"}
      PROVE  v4.open = (IF v5.result > 0 THEN {v5.result} ELSE {}) \/ v6["listen"] > 0
  BY <1>6 DEF Streams!IInv, Streams!SocketInv, Streams!UnixInv
<1> QED
  BY <1>3, <1>4, <1>5, <1>6 DEF Streams!DeliveredInFull, Streams!From
=============================================================================
