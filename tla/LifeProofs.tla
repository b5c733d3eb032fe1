----------------------------- MODULE LifeProofs -----------------------------
(***************************************************************************)
(* Proofs about Life, for every board of at least one row and one column.  *)
(***************************************************************************)
EXTENDS Life, FiniteSetTheorems, SequenceTheorems, TLAPS

\* Rows of the flat array do not overlap.
LEMMA RowsApart ==
  ASSUME NEW r1 \in Nat, NEW r2 \in Nat, r1 < r2
  PROVE  r1 * BOARD_COLS + BOARD_COLS <= r2 * BOARD_COLS
<1> DEFINE C == BOARD_COLS
<1>1. C \in Nat /\ C > 0 BY LifeAssumption
<1> HIDE DEF C
<1>2. PICK d \in Nat : r2 = r1 + 1 + d
  <2>1. r2 - r1 - 1 \in Nat OBVIOUS
  <2> QED BY <2>1
<1>3. r2 * C = r1 * C + C + d * C BY <1>1, <1>2
<1>4. d * C \in Nat BY <1>1
<1>5. r1 * C \in Nat BY <1>1
<1>6. r1 * C + C <= r2 * C BY <1>1, <1>3, <1>4, <1>5
<1> QED BY <1>6 DEF C

\* A cell's index is one of the array's, and determines the cell.
LEMMA IdxInRange ==
  ASSUME NEW p \in Cells
  PROVE  Idx(p[1], p[2]) \in Index
<1> DEFINE C == BOARD_COLS  r == p[1]  c == p[2]
<1>1. C \in Nat \ {0} /\ BOARD_ROWS \in Nat \ {0} BY LifeAssumption
<1>2. /\ r \in Nat /\ r < BOARD_ROWS /\ c \in Nat /\ c < C
  BY LifeAssumption DEF Cells
<1>3. r * C + C <= BOARD_ROWS * C BY <1>1, <1>2, RowsApart
<1>4. r * C \in Nat /\ BOARD_ROWS * C \in Nat BY <1>1, <1>2
<1>5. r * C + c \in 0..(BOARD_ROWS * C - 1)
  <2> HIDE DEF r, c, C
  <2>1. ASSUME NEW x \in Nat, NEW y \in Nat, x + C <= y PROVE x + c \in 0..(y - 1)
    BY <1>1, <1>2, <2>1
  <2> QED BY <1>3, <1>4, <2>1
<1> QED BY <1>5 DEF Idx, Index, SIZE

\* Going from an index to its row and column and back.
LEMMA DivMod ==
  ASSUME NEW i \in Nat
  PROVE  /\ i \div BOARD_COLS \in Nat /\ i % BOARD_COLS \in 0..(BOARD_COLS - 1)
         /\ Idx(i \div BOARD_COLS, i % BOARD_COLS) = i
<1>1. BOARD_COLS \in Nat \ {0} BY LifeAssumption
<1>2. /\ i \div BOARD_COLS \in Nat /\ i % BOARD_COLS \in 0..(BOARD_COLS - 1)
      /\ i = BOARD_COLS * (i \div BOARD_COLS) + (i % BOARD_COLS)
  BY <1>1
<1>3. BOARD_COLS * (i \div BOARD_COLS) = (i \div BOARD_COLS) * BOARD_COLS
  BY <1>1, <1>2
<1> QED BY <1>2, <1>3 DEF Idx

\* No two cells share an index of the flat array.
LEMMA IdxInjective ==
  ASSUME NEW p \in Cells, NEW q \in Cells, Idx(p[1], p[2]) = Idx(q[1], q[2])
  PROVE  p = q
<1> DEFINE C == BOARD_COLS
<1>1. C \in Nat \ {0} /\ BOARD_ROWS \in Nat \ {0} BY LifeAssumption
<1>2. /\ p[1] \in Nat /\ p[2] \in Nat /\ p[2] < C
      /\ q[1] \in Nat /\ q[2] \in Nat /\ q[2] < C
      /\ p = <<p[1], p[2]>> /\ q = <<q[1], q[2]>>
  BY LifeAssumption DEF Cells
<1>3. p[1] * C \in Nat /\ q[1] * C \in Nat BY <1>1, <1>2
<1>4. p[1] * C + p[2] = q[1] * C + q[2] BY DEF Idx
<1>5. ~(p[1] < q[1])
  <2>1. SUFFICES ASSUME p[1] < q[1] PROVE FALSE OBVIOUS
  <2>2. p[1] * C + C <= q[1] * C BY <1>2, <2>1, RowsApart
  <2> QED BY <1>1, <1>2, <1>3, <1>4, <2>2
<1>6. ~(q[1] < p[1])
  <2>1. SUFFICES ASSUME q[1] < p[1] PROVE FALSE OBVIOUS
  <2>2. q[1] * C + C <= p[1] * C BY <1>2, <2>1, RowsApart
  <2> QED BY <1>1, <1>2, <1>3, <1>4, <2>2
<1>7. p[1] = q[1] BY <1>2, <1>5, <1>6
<1>8. p[2] = q[2]
  <2>1. ASSUME NEW x \in Nat, NEW y \in Nat, NEW z \in Nat, x + y = x + z
        PROVE  y = z
    BY <2>1
  <2> QED BY <1>2, <1>3, <1>4, <1>7, <2>1
<1> QED BY <1>2, <1>7, <1>8

\* Every index is that of a cell: the one update() and the frame loop use.
LEMMA CellOfIndex ==
  ASSUME NEW i \in Index
  PROVE  /\ <<i \div BOARD_COLS, i % BOARD_COLS>> \in Cells
         /\ Idx(i \div BOARD_COLS, i % BOARD_COLS) = i
<1> DEFINE C == BOARD_COLS  r == i \div C  c == i % C
<1>1. C \in Nat \ {0} /\ BOARD_ROWS \in Nat \ {0} BY LifeAssumption
<1>2. BOARD_ROWS * C \in Nat BY <1>1
<1>3. i \in Nat /\ i < BOARD_ROWS * C BY <1>2 DEF Index, SIZE
<1>4. r \in Nat /\ c \in 0..(C - 1) /\ Idx(r, c) = i BY <1>3, DivMod
<1>5. r * C + c = i BY <1>4 DEF Idx
<1> HIDE DEF r, c
<1>6. r < BOARD_ROWS
  <2>1. SUFFICES ASSUME ~(r < BOARD_ROWS) PROVE FALSE OBVIOUS
  <2>2. r \in Nat /\ c \in Nat /\ r * C \in Nat BY <1>1, <1>4
  <2>3. BOARD_ROWS * C <= r * C
    <3>1. CASE r = BOARD_ROWS BY <1>2, <3>1
    <3>2. CASE BOARD_ROWS < r
      <4>1. BOARD_ROWS * C + C <= r * C BY <1>1, <1>4, <3>2, RowsApart
      <4> QED BY <1>1, <1>2, <2>2, <4>1
    <3> QED BY <1>1, <1>4, <2>1, <3>1, <3>2
  <2> QED BY <1>2, <1>3, <1>5, <2>2, <2>3
<1>7. <<r, c>> \in Cells BY <1>1, <1>4, <1>6 DEF Cells
<1> QED BY <1>4, <1>7 DEF r, c

-----------------------------------------------------------------------------
(* The numbers on the status line.                                         *)

\* The number of digits of n, as Digits computes it.
NumLen(n) ==
  CHOOSE d \in 1..10 : /\ d = 1 \/ Powers[d] <= n
                       /\ d = 10 \/ n < Powers[d + 1]

\* The powers of ten of an int are positive and grow.
LEMMA PowersGrow ==
  /\ \A i \in 1..10 : Powers[i] \in Nat \ {0}
  /\ \A i, j \in 1..10 : i <= j => Powers[i] <= Powers[j]
<1>1. /\ Powers[1] = 1 /\ Powers[2] = 10 /\ Powers[3] = 100 /\ Powers[4] = 1000
      /\ Powers[5] = 10000 /\ Powers[6] = 100000 /\ Powers[7] = 1000000
      /\ Powers[8] = 10000000 /\ Powers[9] = 100000000 /\ Powers[10] = 1000000000
  BY DEF Powers
<1>2. \A i \in 1..10 : i \in {1, 2, 3, 4, 5, 6, 7, 8, 9, 10} OBVIOUS
<1>3. \A i \in 1..10 : Powers[i] \in Nat \ {0} BY <1>1, <1>2
<1>4. \A i, j \in 1..10 : i <= j => Powers[i] <= Powers[j] BY <1>1, <1>2
<1> QED BY <1>3, <1>4

\* Every number has a number of digits.
LEMMA NumLenDigits ==
  ASSUME NEW n \in Nat
  PROVE  /\ NumLen(n) \in 1..10
         /\ NumLen(n) = 1 \/ Powers[NumLen(n)] <= n
         /\ NumLen(n) = 10 \/ n < Powers[NumLen(n) + 1]
<1> DEFINE P(d) == (d = 1 \/ Powers[d] <= n) /\ (d = 10 \/ n < Powers[d + 1])
<1>1. /\ Powers[1] = 1 /\ Powers[2] = 10 /\ Powers[3] = 100 /\ Powers[4] = 1000
      /\ Powers[5] = 10000 /\ Powers[6] = 100000 /\ Powers[7] = 1000000
      /\ Powers[8] = 10000000 /\ Powers[9] = 100000000 /\ Powers[10] = 1000000000
  BY DEF Powers
<1>2. P(1) \/ P(2) \/ P(3) \/ P(4) \/ P(5) \/ P(6) \/ P(7) \/ P(8) \/ P(9) \/ P(10)
  BY <1>1
<1> HIDE DEF P
<1>3. \E d \in 1..10 : P(d)
  <2>1. 1 \in 1..10 /\ 2 \in 1..10 /\ 3 \in 1..10 /\ 4 \in 1..10 /\ 5 \in 1..10 /\ 6 \in 1..10
        /\ 7 \in 1..10 /\ 8 \in 1..10 /\ 9 \in 1..10 /\ 10 \in 1..10
    OBVIOUS
  <2> QED BY <1>2, <2>1, Zenon
<1>4. NumLen(n) = CHOOSE d \in 1..10 : P(d) BY Zenon DEF NumLen, P
<1>5. NumLen(n) \in 1..10 /\ P(NumLen(n)) BY <1>3, <1>4, Zenon
<1> QED BY <1>5 DEF P

\* A larger number has no fewer digits.
LEMMA NumLenGrows ==
  ASSUME NEW m \in Nat, NEW n \in Nat, m <= n
  PROVE  NumLen(m) <= NumLen(n)
<1> DEFINE a == NumLen(m)
           b == NumLen(n)
<1>1. /\ a \in 1..10 /\ b \in 1..10
      /\ a = 1 \/ Powers[a] <= m
      /\ b = 10 \/ n < Powers[b + 1]
  BY NumLenDigits
<1> HIDE DEF a, b
<1> SUFFICES ASSUME ~(a <= b) PROVE FALSE BY DEF a, b
<1>2. a # 1 /\ b # 10 /\ b + 1 \in 1..10 /\ b + 1 <= a BY <1>1
<1>3. Powers[b + 1] <= Powers[a] /\ Powers[b + 1] \in Nat /\ Powers[a] \in Nat
  BY <1>1, <1>2, PowersGrow
<1> QED BY <1>1, <1>2, <1>3

\* Digits gives a sequence of that length.
LEMMA DigitsSequence ==
  ASSUME NEW n \in Nat
  PROVE  Digits(n) \in Seq(Int) /\ Len(Digits(n)) = NumLen(n)
<1> DEFINE len == NumLen(n)
           f == [k \in 1..len |-> (n \div Powers[len - k + 1]) % 10]
<1>1. Digits(n) = f BY Zenon DEF Digits, NumLen
<1>2. len \in 1..10 BY NumLenDigits
<1> HIDE DEF len
<1>3. ASSUME NEW k \in 1..len PROVE (n \div Powers[len - k + 1]) % 10 \in Int
  <2>1. len - k + 1 \in 1..10 BY <1>2
  <2>2. Powers[len - k + 1] \in Nat \ {0} BY <2>1, PowersGrow
  <2> DEFINE q == Powers[len - k + 1]
  <2> HIDE DEF q
  <2>3. n \div q \in Int BY <2>2 DEF q
  <2> DEFINE r == n \div q
  <2> HIDE DEF r
  <2>4. r % 10 \in Int BY <2>3 DEF r
  <2> QED BY <2>4 DEF r, q
<1>4. f \in [1..len -> Int] BY <1>3
<1> HIDE DEF f
<1>5. f \in Seq(Int) /\ Len(f) = len BY <1>2, <1>4
<1> QED BY <1>1, <1>5 DEF len

\* Printing over an old number leaves the new one in front.
LEMMA OverprintShows ==
  ASSUME NEW new \in Seq(Int), NEW old \in Seq(Int)
  PROVE  /\ Overprint(new, old) \in Seq(Int) /\ IsPrefix(new, Overprint(new, old))
         /\ Len(old) <= Len(new) => Overprint(new, old) = new
         /\ Len(Overprint(new, old)) = IF Len(old) <= Len(new) THEN Len(new)
                                       ELSE Len(old)
<1> DEFINE n == Len(new)
           tail == SubSeq(old, n + 1, Len(old))
           w == Overprint(new, old)
<1>1. n \in Nat /\ Len(old) \in Nat OBVIOUS
<1>2. tail \in Seq(Int) /\ Len(tail) = IF Len(old) <= n THEN 0 ELSE Len(old) - n
  <2>1. \A i \in (n + 1)..Len(old) : old[i] \in Int
    <3>1. ASSUME NEW i \in (n + 1)..Len(old) PROVE i \in 1..Len(old) BY <1>1
    <3> QED BY <3>1
  <2>2. tail \in Seq(Int) /\ Len(tail) = IF n + 1 <= Len(old) THEN Len(old) - (n + 1) + 1 ELSE 0
    <3> DEFINE from == n + 1
               to == Len(old)
    <3>1. from \in Int /\ to \in Int BY <1>1
    <3>2. \A i \in from..to : old[i] \in Int BY <2>1
    <3> HIDE DEF from, to
    <3>3. SubSeq(old, from, to) \in Seq(Int)
          /\ Len(SubSeq(old, from, to)) = IF from <= to THEN to - from + 1 ELSE 0
      BY <3>1, <3>2, SubSeqProperties
    <3> QED BY <3>3 DEF from, to
  <2> QED BY <1>1, <2>2
<1>3. w = new \o tail BY DEF Overprint
<1> HIDE DEF tail, w
<1>4. /\ w \in Seq(Int) /\ Len(w) = n + Len(tail)
      /\ \A i \in 1..(n + Len(tail)) : w[i] = IF i <= n THEN new[i] ELSE tail[i - n]
  BY <1>2, <1>3, ConcatProperties
<1>5. Len(tail) \in Nat BY <1>2
<1>6. IsPrefix(new, w)
  <2>1. n <= Len(w) BY <1>1, <1>4, <1>5
  <2>2. /\ SubSeq(new, 1, n) \in Seq(Int) /\ Len(SubSeq(new, 1, n)) = n
        /\ \A i \in 1..n : SubSeq(new, 1, n)[i] = new[i]
    OBVIOUS
  <2>3. /\ SubSeq(w, 1, n) \in Seq(Int) /\ Len(SubSeq(w, 1, n)) = n
        /\ \A i \in 1..n : SubSeq(w, 1, n)[i] = w[i]
    <3> DEFINE k == n
    <3>1. k \in 0..Len(w) BY <1>1, <2>1
    <3> HIDE DEF k
    <3>2. /\ SubSeq(w, 1, k) \in Seq(Int) /\ Len(SubSeq(w, 1, k)) = k
          /\ \A i \in 1..k : SubSeq(w, 1, k)[i] = w[i]
      BY <1>4, <3>1
    <3> QED BY <3>2 DEF k
  <2>4. \A i \in 1..n : w[i] = new[i] BY <1>1, <1>4, <1>5
  <2>5. SubSeq(new, 1, n) = SubSeq(w, 1, n)
    <3> DEFINE x == SubSeq(new, 1, n)
               y == SubSeq(w, 1, n)
    <3>1. /\ x \in Seq(Int) /\ y \in Seq(Int) /\ Len(x) = Len(y)
          /\ \A i \in 1..Len(x) : x[i] = y[i]
      BY <2>2, <2>3, <2>4
    <3> HIDE DEF x, y
    <3>2. x = y BY <3>1, SeqEqual
    <3> QED BY <3>2 DEF x, y
  <2> QED BY <2>1, <2>5 DEF IsPrefix
<1>7. ASSUME Len(old) <= n PROVE w = new
  <2>1. Len(tail) = 0 BY <1>2, <1>7
  <2>2. Len(w) = n /\ \A i \in 1..Len(w) : w[i] = new[i] BY <1>1, <1>4, <2>1
  <2> QED BY <1>4, <2>2, SeqEqual
<1>8. Len(w) = IF Len(old) <= n THEN n ELSE Len(old) BY <1>1, <1>2, <1>4
<1> QED BY <1>4, <1>6, <1>7, <1>8 DEF w

\* The first k members of a sequence of numbers.
LEMMA FirstOf ==
  ASSUME NEW s \in Seq(Int), NEW k \in 0..Len(s)
  PROVE  /\ SubSeq(s, 1, k) \in Seq(Int) /\ Len(SubSeq(s, 1, k)) = k
         /\ k = Len(s) => SubSeq(s, 1, k) = s
<1>1. /\ SubSeq(s, 1, k) \in Seq(Int) /\ Len(SubSeq(s, 1, k)) = k
      /\ \A i \in 1..k : SubSeq(s, 1, k)[i] = s[i]
  OBVIOUS
<1> DEFINE x == SubSeq(s, 1, k)
<1> HIDE DEF x
<1>2. ASSUME k = Len(s) PROVE x = s
  <2>1. x \in Seq(Int) /\ Len(x) = Len(s) /\ \A i \in 1..Len(x) : x[i] = s[i]
    BY <1>1, <1>2 DEF x
  <2> QED BY <2>1, SeqEqual
<1> QED BY <1>1, <1>2 DEF x

\* The numbers of the status line have digits.
LEMMA NumbersHaveDigits ==
  ASSUME TypeOK
  PROVE  /\ generation \in Nat \ {0} /\ living_cells \in Nat
         /\ Len(Digits(generation)) \in Nat \ {0}
         /\ Len(Digits(living_cells)) \in Nat \ {0}
<1>1. generation \in Nat \ {0} /\ living_cells \in Nat
  <2>1. /\ generation \in 1..MaxGeneration /\ MaxGeneration \in Nat
        /\ living_cells \in 0..SIZE
    BY LifeAssumption DEF TypeOK
  <2>2. SIZE \in Int BY LifeAssumption DEF SIZE
  <2> QED BY <2>1, <2>2
<1>2. /\ Len(Digits(generation)) = NumLen(generation) /\ NumLen(generation) \in 1..10
      /\ Len(Digits(living_cells)) = NumLen(living_cells)
      /\ NumLen(living_cells) \in 1..10
  BY <1>1, DigitsSequence, NumLenDigits
<1> QED BY <1>1, <1>2

-----------------------------------------------------------------------------
(* Type correctness and the screen.                                        *)

\* The screen shows the buffer, up to blanks for dead cells, but for the cells
\* in "wrong".
Shows(scr, buffer, wrong) ==
  \A p \in Cells : p \in wrong \/ (scr[p] = "X" <=> buffer[Idx(p[1], p[2])] = "X")

FrontShown == Shows(screen, front, unsent)
BackShown == Shows(screen, back, unsent)

\* Before the first frame the front buffer is as on a cleared screen; after
\* it, nothing is missing on a description of stdout's own.
OutputInv ==
  /\ pc = "setup" => ~pending
  /\ pc \in {"setup", "frame"} /\ ~pending => \A i \in Index : front[i] = "."
  /\ pending \/ pc \in {"read", "update", "cleanup", "exited"} =>
       shared \/ (unsent = {} /\ late = {})

\* The inductive invariant: before a frame the screen shows the front
\* buffer, after it the back buffer, which is then a picture of the board.
IInv ==
  /\ TypeOK /\ OutputInv
  /\ pc \in {"setup", "frame"} => FrontShown
  /\ pc \in {"read", "update", "cleanup", "exited"} =>
       BackShown /\ back = draw_board(board)

\* update() leaves cells that are 0 or 1.
LEMMA NextBoardType ==
  ASSUME NEW b
  PROVE  NextBoard(b) \in [Index -> {0, 1}]
BY DEF NextBoard, NextCell

\* The number of living cells is at most the number of cells.
LEMMA CountLivingType ==
  ASSUME NEW b
  PROVE  CountLiving(b) \in 0..SIZE
<1> DEFINE S == {i \in Index : b[i] = 1}
<1>1. BOARD_ROWS \in Nat \ {0} /\ BOARD_COLS \in Nat \ {0} BY LifeAssumption
<1>2. SIZE \in Nat BY <1>1 DEF SIZE
<1>3. IsFiniteSet(Index) /\ Cardinality(Index) = SIZE
  <2>1. /\ IsFiniteSet(0..(SIZE - 1))
        /\ Cardinality(0..(SIZE - 1)) =
             IF 0 > SIZE - 1 THEN 0 ELSE (SIZE - 1) - 0 + 1
    BY <1>2, FS_Interval
  <2> QED BY <1>2, <2>1 DEF Index
<1>4. S \subseteq Index OBVIOUS
<1>5. Cardinality(S) <= Cardinality(Index) /\ IsFiniteSet(S)
  BY <1>3, <1>4, FS_Subset
<1>6. Cardinality(S) \in Nat BY <1>5, FS_CardinalityType
<1> HIDE DEF S
<1>7. Cardinality(S) \in 0..SIZE BY <1>2, <1>3, <1>5, <1>6
<1> QED BY <1>7 DEF CountLiving, S

\* draw_board() fills the back buffer.
LEMMA DrawBoardType ==
  ASSUME NEW b
  PROVE  draw_board(b) \in [Index -> {".", "X"}]
BY DEF draw_board

\* The cells a frame prints are those whose character in the array differs.
LEMMA ChangedCells ==
  ASSUME NEW b, NEW p \in Cells
  PROVE  p \in Changed(b) <=> b[Idx(p[1], p[2])] # front[Idx(p[1], p[2])]
<1> DEFINE at(i) == <<i \div BOARD_COLS, i % BOARD_COLS>>
           i0 == Idx(p[1], p[2])
<1>1. i0 \in Index BY IdxInRange
<1>2. at(i0) \in Cells /\ Idx(at(i0)[1], at(i0)[2]) = i0 BY <1>1, CellOfIndex
<1>3. at(i0) = p BY <1>2, IdxInjective
<1>4. ASSUME NEW i \in Index, p = at(i) PROVE i = i0 BY <1>4, CellOfIndex
<1>5. p \in Changed(b) <=> \E i \in Index : b[i] # front[i] /\ p = at(i)
  BY DEF Changed
<1> QED BY <1>1, <1>3, <1>4, <1>5

\* Sending differences turns a screen that shows the front buffer, but for the
\* cells in "wrong", into one that shows the new picture, but for those and
\* the lost ones.
LEMMA DifferencesShown ==
  ASSUME TypeOK, NEW b \in [Index -> {".", "X"}], NEW lost, NEW wrong,
         NEW under \in [Cells -> {" ", ".", "X"}], Shows(under, front, wrong)
  PROVE  /\ Differences(b, lost, under) \in [Cells -> {" ", ".", "X"}]
         /\ Shows(Differences(b, lost, under), b,
                  (wrong \ Changed(b)) \cup (Changed(b) \cap lost))
<1> DEFINE D == Differences(b, lost, under)
           S == Changed(b) \ lost
<1>1. D = [p \in Cells |-> IF p \in S THEN b[Idx(p[1], p[2])] ELSE under[p]]
  BY DEF Differences
<1> HIDE DEF D, S
<1>2. ASSUME NEW p \in Cells
      PROVE  /\ D[p] \in {" ", ".", "X"}
             /\ \/ p \in (wrong \ Changed(b)) \cup (Changed(b) \cap lost)
                \/ D[p] = "X" <=> b[Idx(p[1], p[2])] = "X"
  <2>1. Idx(p[1], p[2]) \in Index BY IdxInRange
  <2>2. D[p] = IF p \in S THEN b[Idx(p[1], p[2])] ELSE under[p] BY <1>1
  <2>3. p \in Changed(b) <=> b[Idx(p[1], p[2])] # front[Idx(p[1], p[2])]
    BY ChangedCells
  <2>4. D[p] \in {" ", ".", "X"} BY <2>1, <2>2
  <2> DEFINE W == (wrong \ Changed(b)) \cup (Changed(b) \cap lost)
  <2>5. CASE p \in S
    <3>1. D[p] = b[Idx(p[1], p[2])] BY <2>2, <2>5
    <3> QED BY <2>4, <3>1
  <2>6. CASE p \in Changed(b) /\ p \in lost
    <3>1. p \in W BY <2>6
    <3> QED BY <2>4, <3>1
  <2>7. CASE p \notin Changed(b)
    <3>1. D[p] = under[p] BY <2>2, <2>7 DEF S
    <3>2. b[Idx(p[1], p[2])] = front[Idx(p[1], p[2])] BY <2>3, <2>7
    <3>3. p \in wrong => p \in W BY <2>7
    <3> HIDE DEF W
    <3>4. p \in wrong \/ (under[p] = "X" <=> front[Idx(p[1], p[2])] = "X")
      BY DEF Shows
    <3>5. p \in W \/ (D[p] = "X" <=> b[Idx(p[1], p[2])] = "X")
      BY <3>1, <3>2, <3>3, <3>4
    <3> QED BY <2>4, <3>5 DEF W
  <2> QED BY <2>5, <2>6, <2>7 DEF S
<1>3. D \in [Cells -> {" ", ".", "X"}] BY <1>1, <1>2
<1> QED BY <1>2, <1>3 DEF D, Shows

\* The invariant holds at the start.
LEMMA InitIInv == Init => IInv
<1> SUFFICES ASSUME Init PROVE IInv OBVIOUS
<1>1. /\ 0 \in 0..SIZE /\ 1 \in 1..MaxGeneration
  <2>1. /\ BOARD_ROWS \in Nat \ {0} /\ BOARD_COLS \in Nat \ {0}
        /\ MaxGeneration \in Nat \ {0}
    BY LifeAssumption
  <2>2. SIZE \in Nat BY <2>1 DEF SIZE
  <2> QED BY <2>1, <2>2
<1>2. /\ mode \in Modes /\ found \in Modes
      /\ oldt \in {"canonical", "character"} /\ flags \in BOOLEAN
  BY DEF Init, Modes
<1>o. /\ shared \in BOOLEAN /\ unsent \subseteq Cells
      /\ late \subseteq {"clear", "generation", "living"} /\ cuts \in 0..MaxCuts
  BY LifeAssumption DEF Init
<1>3. input \in Seq(Key) /\ keysRead \in Seq(Key)
  <2>1. << >> \in Seq(Key) OBVIOUS
  <2>2. input = << >> /\ keysRead = << >> BY DEF Init
  <2> QED BY <2>1, <2>2
<1>4. /\ board \in [Index -> {0, 1}] /\ front \in [Index -> {".", "X"}]
      /\ back \in [Index -> {".", "X"}] /\ screen \in [Cells -> {" ", ".", "X"}]
  BY DEF Init, Blank
<1>5. pending \in BOOLEAN /\ ch \in Key BY DEF Init
<1>6. TypeOK BY <1>1, <1>2, <1>3, <1>4, <1>5, <1>o DEF Init, TypeOK
<1>7. FrontShown
  BY DEF Init, FrontShown, Shows
<1>8. OutputInv BY DEF Init, OutputInv
<1> QED BY <1>6, <1>7, <1>8 DEF Init, IInv

\* What a frame sends, and what of it is dropped.
LEMMA FrameSends ==
  ASSUME IInv, Frame
  PROVE  /\ screen' \in [Cells -> {" ", ".", "X"}] /\ mode' \in Modes
         /\ unsent' \subseteq Cells /\ late' \subseteq {"clear", "generation", "living"}
         /\ cuts' \in 0..MaxCuts
         /\ BackShown'
         /\ shared \/ (unsent' = {} /\ late' = {})
<1> DEFINE b == draw_board(board)
<1>1. TypeOK /\ OutputInv /\ FrontShown /\ b \in [Index -> {".", "X"}] /\ back' = b
  BY DrawBoardType DEF IInv, Frame
<1>2. PICK lost \in Dropped :
        /\ cuts' = IF lost = {} THEN cuts ELSE cuts + 1
        /\ \/ pending /\ StatusLine(b, lost)
           \/ ~pending /\ ClearScreen(b, lost)
  BY Zenon DEF Frame
<1> HIDE DEF b
<1>3. lost # {} => shared /\ cuts < MaxCuts BY <1>2 DEF Dropped
<1>4. cuts' \in 0..MaxCuts
  <2>1. MaxCuts \in Nat /\ cuts \in 0..MaxCuts BY <1>1, LifeAssumption DEF TypeOK
  <2> QED BY <1>2, <1>3, <2>1
<1>5. Changed(b) \subseteq Cells BY CellOfIndex DEF Changed
<1>6. /\ screen \in [Cells -> {" ", ".", "X"}] /\ unsent \subseteq Cells
      /\ late \subseteq {"clear", "generation", "living"} /\ mode \in Modes
  BY <1>1 DEF TypeOK
<1>7. CASE pending /\ StatusLine(b, lost)
  <2>1. PICK n \in 0..Len(Digits(generation)), m \in 0..Len(Digits(living_cells)) :
          /\ m > 0 => n = Len(Digits(generation))
          /\ Whole(lost) => m = Len(Digits(living_cells))
          /\ late' = (late \cap {"clear"})
                       \cup (IF n < Len(Digits(generation)) THEN {"generation"} ELSE {})
                       \cup (IF m < Len(Digits(living_cells)) THEN {"living"} ELSE {})
          /\ screen' = Differences(b, lost, screen)
          /\ unsent' = (unsent \ Changed(b)) \cup (Changed(b) \cap lost)
          /\ UNCHANGED mode
    BY <1>7 DEF StatusLine
  <2>2. late' \subseteq {"clear", "generation", "living"} BY <2>1
  <2>3. screen' \in [Cells -> {" ", ".", "X"}] /\ BackShown'
    BY <1>1, <1>6, <2>1, DifferencesShown DEF FrontShown, BackShown
  <2>4. unsent' \subseteq Cells BY <1>5, <1>6, <2>1
  <2>5. ASSUME ~shared PROVE unsent' = {} /\ late' = {}
    <3>1. lost = {} /\ unsent = {} /\ late = {} BY <1>1, <1>3, <1>7, <2>5 DEF OutputInv
    <3>2. unsent' = {} BY <2>1, <3>1
    <3>3. Len(Digits(generation)) \in Nat /\ Len(Digits(living_cells)) \in Nat
      BY <1>1, NumbersHaveDigits
    <3>4. m = Len(Digits(living_cells)) /\ m > 0
      BY <1>1, <2>1, <3>1, NumbersHaveDigits DEF Whole
    <3>5. n = Len(Digits(generation)) BY <2>1, <3>4
    <3>6. ~(n < Len(Digits(generation))) /\ ~(m < Len(Digits(living_cells)))
      BY <3>3, <3>4, <3>5
    <3> QED BY <2>1, <3>1, <3>2, <3>6
  <2> QED BY <1>4, <1>6, <2>1, <2>2, <2>3, <2>4, <2>5
<1>8. CASE ~pending /\ ClearScreen(b, lost)
  <2>1. PICK cleared \in BOOLEAN, hidden \in BOOLEAN :
          /\ hidden => cleared
          /\ Whole(lost) => hidden
          /\ screen' = Differences(b, lost, IF cleared THEN Blank ELSE screen)
          /\ mode' = IF hidden THEN [mode EXCEPT !.cursor = "hidden"] ELSE mode
          /\ unsent' = IF cleared THEN Changed(b) \cap lost
                       ELSE (unsent \ Changed(b)) \cup (Changed(b) \cap lost)
          /\ late' = IF cleared THEN {} ELSE {"clear"}
    BY <1>8 DEF ClearScreen
  <2>2. late' \subseteq {"clear", "generation", "living"} BY <2>1
  <2>3. screen' \in [Cells -> {" ", ".", "X"}] /\ BackShown'
    <3>1. CASE cleared
      <4>1. Blank \in [Cells -> {" ", ".", "X"}] /\ \A p \in Cells : Blank[p] = " "
        BY DEF Blank
      <4>2. \A i \in Index : front[i] = "." BY <1>1, <1>8 DEF OutputInv, Frame
      <4>3. Shows(Blank, front, {}) BY <4>1, <4>2, IdxInRange DEF Shows
      <4>4. /\ Differences(b, lost, Blank) \in [Cells -> {" ", ".", "X"}]
            /\ Shows(Differences(b, lost, Blank), b,
                     ({} \ Changed(b)) \cup (Changed(b) \cap lost))
        BY <1>1, <4>1, <4>3, DifferencesShown
      <4>5. ({} \ Changed(b)) \cup (Changed(b) \cap lost) = Changed(b) \cap lost
        OBVIOUS
      <4>6. screen' = Differences(b, lost, Blank) /\ unsent' = Changed(b) \cap lost
        BY <2>1, <3>1
      <4> QED BY <1>1, <4>4, <4>5, <4>6 DEF BackShown
    <3>2. CASE ~cleared
      BY <1>1, <1>6, <2>1, <3>2, DifferencesShown DEF FrontShown, BackShown
    <3> QED BY <3>1, <3>2
  <2>4. unsent' \subseteq Cells BY <1>5, <1>6, <2>1
  <2>5. mode' \in Modes BY <1>6, <2>1 DEF Modes
  <2>6. ASSUME ~shared PROVE unsent' = {} /\ late' = {}
    <3>1. lost = {} BY <1>3, <2>6
    <3> QED BY <2>1, <3>1 DEF Whole
  <2> QED BY <1>4, <2>2, <2>3, <2>4, <2>5, <2>6
<1> QED BY <1>2, <1>7, <1>8

\* Every step preserves the invariant.
LEMMA NextIInv == IInv /\ [Next]_vars => IInv'
<1> SUFFICES ASSUME IInv, [Next]_vars PROVE IInv' OBVIOUS
<1>0. /\ TypeOK
      /\ board \in [Index -> {0, 1}] /\ living_cells \in 0..SIZE
      /\ generation \in 1..MaxGeneration
      /\ front \in [Index -> {".", "X"}] /\ back \in [Index -> {".", "X"}]
      /\ screen \in [Cells -> {" ", ".", "X"}]
      /\ pending \in BOOLEAN /\ ch \in Key
      /\ input \in Seq(Key) /\ keysRead \in Seq(Key)
      /\ mode \in Modes /\ found \in Modes
      /\ oldt \in {"canonical", "character"} /\ flags \in BOOLEAN
      /\ shared \in BOOLEAN /\ unsent \subseteq Cells
      /\ late \subseteq {"clear", "generation", "living"} /\ cuts \in 0..MaxCuts
      /\ OutputInv
  BY DEF IInv, TypeOK
<1>s. input \in Seq(Key) /\ keysRead \in Seq(Key) BY <1>0
<1>1. CASE Setup
  <2>1. /\ pc' = "frame" /\ pc = "setup"
        /\ UNCHANGED <<living_cells, generation, front, back, screen, status,
                       pending, keyboard, found, output>>
    BY <1>1 DEF Setup
  <2>2. board' \in [Index -> {0, 1}] BY <1>1 DEF Setup, Populate
  <2>3. mode' \in Modes BY <1>0, <1>1 DEF Setup, Modes
  <2>4. oldt' \in {"canonical", "character"} /\ flags' \in BOOLEAN
    BY <1>0, <1>1 DEF Setup, Modes
  <2>5. TypeOK' BY <1>0, <2>1, <2>2, <2>3, <2>4 DEF TypeOK, keyboard, output
  <2>6. FrontShown' BY <2>1 DEF IInv, FrontShown, output
  <2>7. OutputInv' BY <1>0, <2>1 DEF OutputInv, output
  <2> QED BY <2>1, <2>5, <2>6, <2>7 DEF IInv
<1>2. CASE Frame
  <2>1. /\ pc = "frame" /\ pc' = "read"
        /\ back' = draw_board(board)
        /\ pending' = FALSE
        /\ UNCHANGED <<game, front, keyboard, oldt, flags, found, shared>>
    BY <1>2 DEF Frame
  <2>2. draw_board(board) \in [Index -> {".", "X"}] BY DrawBoardType
  <2>3. /\ screen' \in [Cells -> {" ", ".", "X"}] /\ mode' \in Modes
        /\ unsent' \subseteq Cells /\ late' \subseteq {"clear", "generation", "living"}
        /\ cuts' \in 0..MaxCuts
        /\ BackShown'
        /\ shared \/ (unsent' = {} /\ late' = {})
    BY <1>2, FrameSends
  <2>4. TypeOK' BY <1>0, <2>1, <2>2, <2>3 DEF TypeOK, game, keyboard
  <2>6. back' = draw_board(board)' BY <2>1 DEF game, draw_board
  <2>7. OutputInv' BY <2>1, <2>3 DEF OutputInv
  <2> QED BY <2>1, <2>3, <2>4, <2>6, <2>7 DEF IInv
<1>3. CASE ReadKey
  <2>1. /\ pc = "read" /\ pc' \in {"cleanup", "update"}
        /\ UNCHANGED <<game, front, back, screen, status, pending, mode, oldt,
                       flags, found, output>>
    BY <1>3 DEF ReadKey
  <2>2. ch' \in Key /\ input' \in Seq(Key) /\ keysRead' \in Seq(Key)
    <3>1. CASE input = << >> BY <1>0, <1>3, <3>1 DEF ReadKey, keyboard
    <3>2. CASE input # << >>
      <4>1. Head(input) \in Key /\ Tail(input) \in Seq(Key) BY <1>s, <3>2
      <4>2. /\ ch' = Head(input) /\ input' = Tail(input)
            /\ keysRead' = Append(keysRead, Head(input))
        BY <1>3, <3>2 DEF ReadKey
      <4> QED BY <1>s, <4>1, <4>2
    <3> QED BY <3>1, <3>2
  <2>3. TypeOK' BY <1>0, <2>1, <2>2 DEF TypeOK, game, output
  <2>4. BackShown' /\ back' = draw_board(board)'
    BY <2>1 DEF IInv, BackShown, draw_board, game, output
  <2>5. OutputInv' BY <1>0, <2>1 DEF OutputInv, output
  <2> QED BY <2>1, <2>3, <2>4, <2>5 DEF IInv
<1>4. CASE Update
  <2>1. /\ pc = "update" /\ pc' = "frame"
        /\ front' = back /\ back' = front
        /\ pending' = TRUE
        /\ UNCHANGED <<screen, status, keyboard, mode, oldt, flags,
                       found, output>>
    BY <1>4 DEF Update
  <2>2. board' \in [Index -> {0, 1}] BY <1>4, NextBoardType DEF Update, update
  <2>3. living_cells' \in 0..SIZE BY <1>4, CountLivingType DEF Update, update
  <2>4. generation' \in 1..MaxGeneration
    <3>1. MaxGeneration \in Nat BY LifeAssumption
    <3>2. generation \in 1..MaxGeneration BY <1>0
    <3>3. generation' = IF generation < MaxGeneration THEN generation + 1
                        ELSE generation
      BY <1>4 DEF Update
    <3> QED BY <3>1, <3>2, <3>3
  <2>5. TypeOK' BY <1>0, <2>1, <2>2, <2>3, <2>4 DEF TypeOK, keyboard, output
  <2>6. FrontShown' BY <2>1 DEF IInv, FrontShown, BackShown, output
  <2>7. OutputInv' BY <1>0, <2>1 DEF OutputInv, output
  <2> QED BY <2>1, <2>5, <2>6, <2>7 DEF IInv
<1>5. CASE Cleanup
  <2>1. /\ pc = "cleanup" /\ pc' = "exited"
        /\ UNCHANGED <<game, front, back, screen, status, pending, keyboard,
                       oldt, flags, found, output>>
    BY <1>5 DEF Cleanup
  <2>2. mode' \in Modes
    <3>1. PICK cursor \in {"shown"} \cup (IF shared /\ flags THEN {mode.cursor} ELSE {}) :
            mode' = [lflag |-> oldt, nonblock |-> flags, cursor |-> cursor]
      BY <1>5 DEF Cleanup
    <3>2. cursor \in {"shown", "hidden"} BY <1>0, <3>1 DEF Modes
    <3> QED BY <1>0, <3>1, <3>2 DEF Modes
  <2>3. TypeOK' BY <1>0, <2>1, <2>2 DEF TypeOK, Over, game, keyboard, output
  <2>4. BackShown' /\ back' = draw_board(board)'
    BY <2>1 DEF IInv, BackShown, draw_board, game, output
  <2>5. OutputInv' BY <1>0, <2>1 DEF OutputInv, output
  <2> QED BY <2>1, <2>3, <2>4, <2>5 DEF IInv
<1>6. ASSUME NEW k \in Key, Type(k) PROVE IInv'
  <2>1. /\ input' = Append(input, k)
        /\ UNCHANGED <<pc, game, front, back, screen, status, pending, ch,
                       keysRead, mode, oldt, flags,
                       found, output>>
    BY <1>6 DEF Type
  <2>2. input' \in Seq(Key) BY <1>s, <2>1
  <2>3. TypeOK' BY <1>0, <2>1, <2>2 DEF TypeOK, game, output
  <2>4. OutputInv' BY <1>0, <2>1 DEF OutputInv, output
  <2> QED BY <2>1, <2>3, <2>4 DEF IInv, FrontShown, BackShown, draw_board, game, output
<1>7. CASE Interrupt
  <2>1. /\ pc' = "killed"
        /\ UNCHANGED <<game, front, back, screen, status, pending, keyboard,
                       mode, oldt, flags,
                       found, output>>
    BY <1>7 DEF Interrupt
  <2>2. TypeOK' BY <1>0, <2>1 DEF TypeOK, Over, game, keyboard, output
  <2>3. OutputInv' BY <1>0, <2>1 DEF OutputInv, output
  <2> QED BY <2>1, <2>2, <2>3 DEF IInv
<1>8. CASE UNCHANGED vars
  <2>1. TypeOK' BY <1>0, <1>8 DEF TypeOK, vars, game, keyboard, output
  <2>2. OutputInv' BY <1>0, <1>8 DEF OutputInv, vars, output
  <2> QED BY <1>8, <2>1, <2>2
      DEF IInv, FrontShown, BackShown, draw_board, vars, game, output
<1> QED BY <1>1, <1>2, <1>3, <1>4, <1>5, <1>6, <1>7, <1>8 DEF Next, Main, Ended

\* The inductive invariant holds in every behaviour of the program.
THEOREM Invariance == Spec => []IInv
BY InitIInv, NextIInv, PTL DEF Spec

\* Type correctness for a board of any size, from any pattern.
THEOREM TypeCorrect == Spec => []TypeOK
<1>1. IInv => TypeOK BY DEF IInv
<1> QED BY <1>1, Invariance, PTL

\* The differential drawing of main's loop keeps screen and board together,
\* for a board of any size and for as long as the program runs, but for the
\* cells whose last output a shared, non-blocking description dropped.
THEOREM ScreenIsTheBoard == Spec => []ScreenShowsBoard
<1>1. IInv => ScreenShowsBoard
  <2> SUFFICES ASSUME IInv, pc \in {"read", "update", "cleanup", "exited"},
                      NEW p \in Cells
               PROVE  \/ shared /\ p \in unsent
                      \/ screen[p] = "X" <=> board[Idx(p[1], p[2])] = 1
    BY DEF ScreenShowsBoard
  <2>1. Idx(p[1], p[2]) \in Index BY IdxInRange
  <2>2. \/ shared /\ p \in unsent
        \/ screen[p] = "X" <=> draw_board(board)[Idx(p[1], p[2])] = "X"
    BY DEF IInv, BackShown, Shows, OutputInv
  <2>3. board[Idx(p[1], p[2])] \in {0, 1} BY <2>1 DEF IInv, TypeOK
  <2>4. draw_board(board)[Idx(p[1], p[2])]
          = IF board[Idx(p[1], p[2])] # 0 THEN "X" ELSE "."
    BY <2>1 DEF draw_board
  <2> QED BY <2>2, <2>3, <2>4
<1> QED BY <1>1, Invariance, PTL

-----------------------------------------------------------------------------
(* The program plays the game of LifeRules.                                *)

\* The cells whose array element is 1.
Living(b) == {p \in Cells : b[Idx(p[1], p[2])] = 1}

\* Counting through the flat array, within the borders and without the cell
\* itself, counts the living neighbors.
LEMMA NeighborsCounted ==
  ASSUME NEW p \in Cells
  PROVE  count_neighbors(board, p[1], p[2])
           = Cardinality(Game!Neighbors(p) \cap Living(board))
<1> DEFINE W == ((p[1] - 1)..(p[1] + 1)) \X ((p[2] - 1)..(p[2] + 1))
           L == {q \in W : /\ q \in Cells
                           /\ Idx(q[1], q[2]) # Idx(p[1], p[2])
                           /\ board[Idx(q[1], q[2])] = 1}
           R == Game!Neighbors(p) \cap Living(board)
<1>1. p[1] \in Int /\ p[2] \in Int BY LifeAssumption DEF Cells
<1>2. ASSUME NEW q \in Cells
      PROVE  q \in W <=> q[1] - p[1] \in -1..1 /\ q[2] - p[2] \in -1..1
  <2>1. /\ q[1] \in Int /\ q[2] \in Int /\ q = <<q[1], q[2]>>
    BY LifeAssumption DEF Cells
  <2>2. q \in W <=> /\ q[1] \in (p[1] - 1)..(p[1] + 1)
                    /\ q[2] \in (p[2] - 1)..(p[2] + 1)
    BY <2>1
  <2> QED BY <1>1, <2>1, <2>2
<1>3. ASSUME NEW q \in Cells
      PROVE  Idx(q[1], q[2]) # Idx(p[1], p[2]) <=> q # p
  BY <1>3, IdxInjective
<1> HIDE DEF W
<1>4. ASSUME NEW q PROVE q \in L <=> q \in R
  BY <1>3 DEF Game!Neighbors, Living, W
<1>5. L = R BY <1>4
<1> QED BY <1>5 DEF count_neighbors, W

\* One call of update() is one generation of the rules.
LEMMA UpdateIsGeneration ==
  ASSUME TypeOK, NEW p \in Cells
  PROVE  NextBoard(board)[Idx(p[1], p[2])] = 1 <=>
           \/ p \in Living(board)
              /\ Cardinality(Game!Neighbors(p) \cap Living(board)) \in 2..3
           \/ p \notin Living(board)
              /\ Cardinality(Game!Neighbors(p) \cap Living(board)) = 3
<1> DEFINE i == Idx(p[1], p[2])
           n == count_neighbors(board, p[1], p[2])
<1>1. i \in Index BY IdxInRange
<1>2. p = <<i \div BOARD_COLS, i % BOARD_COLS>> BY <1>1, CellOfIndex, IdxInjective
<1>3. i \div BOARD_COLS = p[1] /\ i % BOARD_COLS = p[2] BY <1>2
<1>4. NextBoard(board)[i] = NextCell(board, p[1], p[2])
  BY <1>1, <1>3 DEF NextBoard
<1>5. n = Cardinality(Game!Neighbors(p) \cap Living(board)) BY NeighborsCounted
<1>6. n \in Nat
  <2> DEFINE W == ((p[1] - 1)..(p[1] + 1)) \X ((p[2] - 1)..(p[2] + 1))
             L == {q \in W : /\ q \in Cells
                             /\ Idx(q[1], q[2]) # Idx(p[1], p[2])
                             /\ board[Idx(q[1], q[2])] = 1}
  <2>1. p[1] \in Int /\ p[2] \in Int BY LifeAssumption DEF Cells
  <2>2. /\ IsFiniteSet((p[1] - 1)..(p[1] + 1))
        /\ IsFiniteSet((p[2] - 1)..(p[2] + 1))
    BY <2>1, FS_Interval
  <2>3. IsFiniteSet(W) BY <2>2, FS_Product
  <2>4. IsFiniteSet(L) BY <2>3, FS_Subset
  <2>5. n = Cardinality(L) BY DEF count_neighbors
  <2> HIDE DEF L
  <2> QED BY <2>4, <2>5, FS_CardinalityType
<1>7. p \in Living(board) <=> board[i] = 1 BY DEF Living
<1>8. NextCell(board, p[1], p[2]) =
        IF board[i] = 1 THEN IF n > 1 /\ n < 4 THEN 1 ELSE 0
        ELSE IF n = 3 THEN 1 ELSE 0
  BY DEF NextCell
<1> HIDE DEF n, i
<1>9. n \in 2..3 <=> n > 1 /\ n < 4 BY <1>6
<1>10. NextBoard(board)[i] = 1 <=>
         \/ p \in Living(board) /\ n \in 2..3
         \/ p \notin Living(board) /\ n = 3
  BY <1>4, <1>7, <1>8, <1>9
<1> QED BY <1>5, <1>10 DEF i

\* Both modules count with the same operator.
LEMMA SameCardinality ==
  ASSUME NEW S PROVE Game!Cardinality(S) = Cardinality(S)
BY DEF Game!Cardinality, Cardinality, Game!IsFiniteSet, IsFiniteSet

\* The program implements the rules of the README on a board of any size:
\* populating the board seeds the game, update() is one generation, and no
\* other step of the program changes the game.
THEOREM ImplementsRules == Spec => PlaysByTheRules
<1>1. Init => Game!Start
  <2> SUFFICES ASSUME Init PROVE Game!Start OBVIOUS
  <2>1. \A p \in Cells : board[Idx(p[1], p[2])] = 0
    BY IdxInRange DEF Init
  <2>2. {p \in Cells : board[Idx(p[1], p[2])] = 1} = {} BY <2>1
  <2>3. pc = "setup" BY DEF Init
  <2> QED BY <2>2, <2>3 DEF Game!Start
<1>2. IInv /\ [Next]_vars =>
        [Game!Seed \/ Game!Generation]_<<pc # "setup", Living(board)>>
  <2> SUFFICES ASSUME IInv, [Next]_vars
               PROVE  \/ Game!Seed \/ Game!Generation
                      \/ /\ (pc # "setup")' = (pc # "setup")
                         /\ Living(board)' = Living(board)
    OBVIOUS
  <2>1. CASE Setup
    <3>1. PICK pattern \in Patterns : Populate(pattern) BY <2>1 DEF Setup
    <3>2. pattern \subseteq Cells BY LifeAssumption
    <3>3. ASSUME NEW p \in Cells
          PROVE  board'[Idx(p[1], p[2])] = 1 <=> p \in pattern
      <4>1. Idx(p[1], p[2]) \in Index BY IdxInRange
      <4>2. board'[Idx(p[1], p[2])] =
              IF \E q \in pattern : Idx(q[1], q[2]) = Idx(p[1], p[2])
              THEN 1 ELSE 0
        BY <3>1, <4>1 DEF Populate
      <4>3. (\E q \in pattern : Idx(q[1], q[2]) = Idx(p[1], p[2]))
              <=> p \in pattern
        BY <3>2, IdxInjective
      <4> QED BY <4>2, <4>3
    <3>4. {p \in Cells : board'[Idx(p[1], p[2])] = 1} = pattern BY <3>2, <3>3
    <3>5. pc = "setup" /\ pc' # "setup" BY <2>1 DEF Setup
    <3> QED BY <3>4, <3>5 DEF Game!Seed
  <2>2. CASE Update
    <3>1. pc # "setup" /\ pc' # "setup" /\ board' = NextBoard(board)
      BY <2>2 DEF Update, update
    <3>2. TypeOK BY DEF IInv
    <3>3. ASSUME NEW p \in Cells
          PROVE  board'[Idx(p[1], p[2])] = 1 <=>
                   Game!Survives(p) \/ Game!Populated(p)
      <4>1. Game!Survives(p) <=>
              /\ p \in Living(board)
              /\ Cardinality(Game!Neighbors(p) \cap Living(board)) \in 2..3
        BY SameCardinality DEF Living, Game!Survives, Game!LivingNeighbors
      <4>2. Game!Populated(p) <=>
              /\ p \notin Living(board)
              /\ Cardinality(Game!Neighbors(p) \cap Living(board)) = 3
        BY SameCardinality DEF Living, Game!Populated, Game!LivingNeighbors
      <4>3. NextBoard(board)[Idx(p[1], p[2])] = 1 <=>
              \/ p \in Living(board)
                 /\ Cardinality(Game!Neighbors(p) \cap Living(board)) \in 2..3
              \/ p \notin Living(board)
                 /\ Cardinality(Game!Neighbors(p) \cap Living(board)) = 3
        BY <3>2, UpdateIsGeneration
      <4> QED BY <3>1, <4>1, <4>2, <4>3
    <3>4. {p \in Cells : board'[Idx(p[1], p[2])] = 1}
            = {p \in Cells : Game!Survives(p) \/ Game!Populated(p)}
      BY <3>3
    <3> QED BY <3>1, <3>4 DEF Game!Generation
  <2>3. ASSUME board' = board, (pc # "setup")' = (pc # "setup")
        PROVE  Living(board)' = Living(board)
    BY <2>3 DEF Living
  <2>4. CASE Frame BY <2>3, <2>4 DEF Frame, game
  <2>5. CASE ReadKey BY <2>3, <2>5 DEF ReadKey, game
  <2>6. CASE Cleanup BY <2>3, <2>6 DEF Cleanup, game
  <2>7. ASSUME NEW k \in Key, Type(k)
        PROVE  /\ (pc # "setup")' = (pc # "setup")
               /\ Living(board)' = Living(board)
    BY <2>3, <2>7 DEF Type, game
  <2>8. CASE Interrupt BY <2>3, <2>8 DEF Interrupt, game
  <2>9. CASE UNCHANGED vars BY <2>3, <2>9 DEF vars, game
  <2> QED BY <2>1, <2>2, <2>4, <2>5, <2>6, <2>7, <2>8, <2>9 DEF Next, Main, Ended
<1>3. Spec => Game!Rules
  BY <1>1, <1>2, Invariance, PTL DEF Spec, Game!Rules, Living
<1> QED BY <1>3 DEF PlaysByTheRules

-----------------------------------------------------------------------------
(* The status line, the end of the loop and the terminal.                  *)

\* On a cleared screen no more digits are shown than the generation has; once
\* the first update is done, a status line waits before every frame.
StatusInv ==
  /\ status.generation \in Seq(Int) /\ status.living \in Seq(Int)
  /\ "clear" \notin late => Len(status.generation) <= NumLen(generation)
  /\ pc = "setup" => generation = 1 /\ ~pending
  /\ pc = "frame" /\ generation > 1 => pending
  /\ pc = "frame" /\ pending => living_cells = CountLiving(board)
  /\ pc \in {"read", "update"} /\ generation > 1 =>
       /\ late \cap {"clear", "generation"} = {} => status.generation = Digits(generation)
       /\ "living" \notin late => IsPrefix(Digits(CountLiving(board)), status.living)

\* The byte in ch is the last one read, and an escape ends the loop.
KeyInv ==
  /\ keysRead # << >> => ch = Last(keysRead)
  /\ pc \in {"cleanup", "exited"} => ch = ESC
  /\ pc \in {"setup", "frame", "read", "update"} =>
       \A i \in 1..Len(keysRead) : keysRead[i] # ESC
  /\ \A i \in 1..Len(keysRead) : keysRead[i] = ESC => i = Len(keysRead)

\* What main() saved is what it found.
SavedInv ==
  /\ found.cursor = "shown" /\ oldt = found.lflag /\ flags = found.nonblock
  /\ pc = "setup" => mode = found
  /\ RestoredOnExit

EndInv == IInv /\ StatusInv /\ KeyInv /\ SavedInv

\* Counting the X's on the screen counts the living cells of the array.
LEMMA LivingOnScreen ==
  ASSUME TypeOK, BackShown, unsent = {}, back = draw_board(board)
  PROVE  Cardinality({p \in Cells : screen[p] = "X"}) = CountLiving(board)
<1> DEFINE S == {p \in Cells : screen[p] = "X"}
           T == {i \in Index : board[i] = 1}
           f == [p \in S |-> Idx(p[1], p[2])]
<1>1. ASSUME NEW p \in Cells
      PROVE  Idx(p[1], p[2]) \in Index /\ (p \in S <=> Idx(p[1], p[2]) \in T)
  <2>1. Idx(p[1], p[2]) \in Index BY IdxInRange
  <2>2. board[Idx(p[1], p[2])] \in {0, 1} BY <2>1 DEF TypeOK
  <2> QED BY <2>1, <2>2 DEF BackShown, Shows, draw_board
<1>2. f \in [S -> T] BY <1>1
<1>3. \A p, q \in S : f[p] = f[q] => p = q BY IdxInjective
<1>4. ASSUME NEW i \in T PROVE \E p \in S : f[p] = i
  <2> DEFINE p == <<i \div BOARD_COLS, i % BOARD_COLS>>
  <2>1. p \in Cells /\ Idx(p[1], p[2]) = i BY CellOfIndex
  <2>2. p \in S BY <1>1, <2>1
  <2> QED BY <2>1, <2>2
<1>5. IsFiniteSet(Cells)
  <2>1. BOARD_ROWS \in Nat \ {0} /\ BOARD_COLS \in Nat \ {0} BY LifeAssumption
  <2>2. IsFiniteSet(0..(BOARD_ROWS - 1)) /\ IsFiniteSet(0..(BOARD_COLS - 1))
    BY <2>1, FS_Interval
  <2> QED BY <2>2, FS_Product DEF Cells
<1>6. IsFiniteSet(S) BY <1>5, FS_Subset
<1> HIDE DEF S, T, f
<1>7. f \in Bijection(S, T)
  BY <1>2, <1>3, <1>4 DEF Bijection, Injection, Surjection, IsInjective
<1>8. Cardinality(S) = Cardinality(T)
  BY <1>6, <1>7, FS_Bijection DEF ExistsBijection
<1> QED BY <1>8 DEF CountLiving, S, T


\* At the start nothing is printed, read or changed.
LEMMA InitEnd == Init => EndInv
<1> SUFFICES ASSUME Init PROVE EndInv OBVIOUS
<1>1. IInv BY InitIInv
<1>2. StatusInv
  <2>1. << >> \in Seq(Int) /\ <<9, 9>> \in Seq(Int) OBVIOUS
  <2>2. status.generation \in Seq(Int) /\ status.living \in Seq(Int)
    <3>1. CASE status = NoNumbers BY <2>1, <3>1 DEF NoNumbers
    <3>2. CASE status = [generation |-> <<9, 9>>, living |-> <<9, 9>>] BY <2>1, <3>2
    <3> QED BY <3>1, <3>2 DEF Init
  <2> QED BY <2>2 DEF Init, StatusInv
<1>3. KeyInv
  <2>1. keysRead = << >> /\ pc = "setup" BY DEF Init
  <2>2. \A i \in 1..Len(keysRead) : FALSE BY <2>1
  <2> QED BY <2>1, <2>2, Zenon DEF KeyInv
<1>4. SavedInv BY DEF Init, SavedInv, RestoredOnExit
<1> QED BY <1>1, <1>2, <1>3, <1>4 DEF EndInv

\* A frame prints the numbers of the board it draws.
LEMMA FrameStatus ==
  ASSUME IInv, StatusInv, Frame
  PROVE  StatusInv'
<1>1. /\ pc = "frame" /\ pc' = "read" /\ generation' = generation /\ board' = board
      /\ living_cells' = living_cells
  BY DEF Frame, game
<1>2. /\ generation \in 1..MaxGeneration /\ generation \in Nat /\ living_cells \in Nat
  <2>1. /\ generation \in 1..MaxGeneration /\ MaxGeneration \in Nat
        /\ living_cells \in 0..SIZE
    BY LifeAssumption DEF IInv, TypeOK
  <2>2. SIZE \in Int BY LifeAssumption DEF SIZE
  <2> QED BY <2>1, <2>2
<1>3. TypeOK /\ OutputInv BY DEF IInv
<1> DEFINE G == Digits(generation)
           L == Digits(living_cells)
<1>4. /\ G \in Seq(Int) /\ L \in Seq(Int) /\ Len(G) = NumLen(generation)
      /\ NumLen(generation) \in 1..10 /\ Len(G) \in Nat /\ Len(L) \in Nat
  BY <1>2, DigitsSequence, NumLenDigits
<1>5. status.generation \in Seq(Int) /\ status.living \in Seq(Int) BY DEF StatusInv
<1>6. PICK lost \in Dropped :
        \/ pending /\ StatusLine(draw_board(board), lost)
        \/ ~pending /\ ClearScreen(draw_board(board), lost)
  BY Zenon DEF Frame
<1>7. CASE ~pending /\ ClearScreen(draw_board(board), lost)
  <2>1. ~(generation > 1) BY <1>1, <1>7 DEF StatusInv
  <2>2. \/ status' = NoNumbers
        \/ status' = status /\ late' = {"clear"}
    BY <1>7 DEF ClearScreen
  <2>3. << >> \in Seq(Int) /\ Len(<< >>) = 0 OBVIOUS
  <2>4. status'.generation \in Seq(Int) /\ status'.living \in Seq(Int)
    <3>1. CASE status' = NoNumbers
      <4>1. status'.generation = << >> /\ status'.living = << >> BY <3>1 DEF NoNumbers
      <4> QED BY <2>3, <4>1
    <3>2. CASE status' = status BY <1>5, <3>2
    <3> QED BY <2>2, <3>1, <3>2
  <2>5. "clear" \notin late' => Len(status'.generation) <= NumLen(generation)
    BY <1>4, <2>2, <2>3 DEF NoNumbers
  <2>6. NumLen(generation)' = NumLen(generation) BY <1>1 DEF NumLen
  <2> QED BY <1>1, <2>1, <2>4, <2>5, <2>6 DEF StatusInv
<1>8. CASE pending /\ StatusLine(draw_board(board), lost)
  <2>1. PICK n \in 0..Len(G), m \in 0..Len(L) :
          /\ status' = [generation |-> Overprint(SubSeq(G, 1, n), status.generation),
                        living |-> Overprint(SubSeq(L, 1, m), status.living)]
          /\ late' = (late \cap {"clear"})
                       \cup (IF n < Len(G) THEN {"generation"} ELSE {})
                       \cup (IF m < Len(L) THEN {"living"} ELSE {})
    BY <1>8 DEF StatusLine
  <2>2. living_cells = CountLiving(board) BY <1>1, <1>8 DEF StatusInv
  <2> HIDE DEF G, L
  <2> DEFINE g == SubSeq(G, 1, n)
             l == SubSeq(L, 1, m)
             old == status.generation
  <2>3. /\ g \in Seq(Int) /\ Len(g) = n /\ (n = Len(G) => g = G)
        /\ l \in Seq(Int) /\ Len(l) = m /\ (m = Len(L) => l = L)
    BY <1>4, FirstOf
  <2> HIDE DEF g, l
  <2>4. /\ status'.generation = Overprint(g, old) /\ status'.living = Overprint(l, status.living)
    BY <2>1 DEF g, l
  <2>5. /\ Overprint(g, old) \in Seq(Int)
        /\ Len(old) <= Len(g) => Overprint(g, old) = g
        /\ Len(Overprint(g, old)) = IF Len(old) <= Len(g) THEN Len(g) ELSE Len(old)
        /\ Overprint(l, status.living) \in Seq(Int)
        /\ IsPrefix(l, Overprint(l, status.living))
    BY <1>5, <2>3, OverprintShows
  <2>6. "clear" \notin late' => "clear" \notin late BY <2>1
  <2>7. Len(old) \in Nat BY <1>5
  <2>8. "clear" \notin late' => Len(status'.generation) <= NumLen(generation)
    <3> SUFFICES ASSUME "clear" \notin late' PROVE Len(status'.generation) <= NumLen(generation)
      OBVIOUS
    <3>1. Len(old) <= Len(G) BY <1>4, <2>6 DEF StatusInv
    <3>2. Len(g) <= Len(G) BY <1>4, <2>3
    <3> QED BY <1>4, <2>4, <2>5, <2>7, <3>1, <3>2
  <2>9. late' \cap {"clear", "generation"} = {} => status'.generation = G
    <3> SUFFICES ASSUME late' \cap {"clear", "generation"} = {} PROVE status'.generation = G
      OBVIOUS
    <3>1. ~(n < Len(G)) /\ "clear" \notin late' BY <2>1
    <3>2. n = Len(G) BY <1>4, <3>1
    <3>3. Len(old) <= Len(G) BY <1>4, <2>6, <3>1 DEF StatusInv
    <3> QED BY <2>3, <2>4, <2>5, <3>2, <3>3
  <2>10. "living" \notin late' => IsPrefix(L, status'.living)
    <3> SUFFICES ASSUME "living" \notin late' PROVE IsPrefix(L, status'.living)
      OBVIOUS
    <3>1. ~(m < Len(L)) BY <2>1
    <3>2. m = Len(L) BY <1>4, <3>1
    <3> QED BY <2>3, <2>4, <2>5, <3>2
  <2>11. /\ NumLen(generation)' = NumLen(generation) /\ Digits(generation)' = G
         /\ Digits(CountLiving(board))' = L
    <3>1. CountLiving(board)' = CountLiving(board) BY <1>1 DEF CountLiving
    <3>2. Digits(CountLiving(board))' = Digits(CountLiving(board)) BY <3>1 DEF Digits
    <3>3. Digits(generation)' = Digits(generation) BY <1>1 DEF Digits
    <3> QED BY <1>1, <2>2, <3>2, <3>3 DEF NumLen, G, L
  <2> QED BY <1>1, <2>4, <2>5, <2>8, <2>9, <2>10, <2>11 DEF StatusInv
<1> QED BY <1>6, <1>7, <1>8

\* A step that touches neither the game nor the status line, and moves on
\* from the loop or within it after a frame, keeps the numbers right.
LEMMA StatusKept ==
  ASSUME StatusInv,
         UNCHANGED <<board, living_cells, generation, status, pending, late>>,
         \/ pc' = pc
         \/ pc' \notin {"setup", "frame", "read", "update"}
         \/ pc = "read" /\ pc' = "update"
  PROVE  StatusInv'
BY DEF StatusInv, CountLiving, NumLen, Digits

\* Every step keeps the numbers on the status line right.
LEMMA NextStatus == IInv /\ StatusInv /\ [Next]_vars => StatusInv'
<1> SUFFICES ASSUME IInv, StatusInv, [Next]_vars PROVE StatusInv' OBVIOUS
<1>1. CASE Setup
  <2>1. /\ pc = "setup" /\ pc' = "frame"
        /\ UNCHANGED <<generation, status, pending, late>>
    BY <1>1 DEF Setup, output
  <2>2. NumLen(generation)' = NumLen(generation) BY <2>1 DEF NumLen
  <2> QED BY <2>1, <2>2 DEF StatusInv
<1>2. CASE Frame BY <1>2, FrameStatus
<1>3. CASE ReadKey
  BY <1>3, StatusKept DEF ReadKey, game, output
<1>4. CASE Update
  <2>1. /\ pc' = "frame" /\ pending' = TRUE /\ status' = status
        /\ board' = NextBoard(board) /\ living_cells' = CountLiving(NextBoard(board))
    BY <1>4 DEF Update, update
  <2>2. living_cells' = CountLiving(board)' BY <2>1 DEF CountLiving
  <2>3. generation \in Nat /\ generation' \in Nat /\ generation <= generation'
    <3>1. generation \in 1..MaxGeneration /\ MaxGeneration \in Nat
      BY LifeAssumption DEF IInv, TypeOK
    <3>2. generation' \in {generation, generation + 1} BY <1>4 DEF Update
    <3> QED BY <3>1, <3>2
  <2>4. /\ NumLen(generation) \in Nat /\ NumLen(generation') \in Nat
        /\ NumLen(generation) <= NumLen(generation')
    BY <2>3, NumLenGrows, NumLenDigits
  <2>5. NumLen(generation)' = NumLen(generation') BY DEF NumLen
  <2>6. late' = late BY <1>4 DEF Update, output
  <2>7. status.generation \in Seq(Int) /\ Len(status.generation) \in Nat
    BY DEF StatusInv
  <2>8. "clear" \notin late' => Len(status'.generation) <= NumLen(generation')
    BY <2>1, <2>4, <2>6, <2>7 DEF StatusInv
  <2> QED BY <2>1, <2>2, <2>5, <2>7, <2>8 DEF StatusInv
<1>5. CASE Cleanup BY <1>5, StatusKept DEF Cleanup, game, output
<1>6. ASSUME NEW k \in Key, Type(k) PROVE StatusInv'
  BY <1>6, StatusKept DEF Type, game, output
<1>7. CASE Interrupt BY <1>7, StatusKept DEF Interrupt, game, output
<1>8. CASE UNCHANGED vars BY <1>8, StatusKept DEF vars, game, output
<1> QED BY <1>1, <1>2, <1>3, <1>4, <1>5, <1>6, <1>7, <1>8 DEF Next, Main, Ended


\* Every step keeps the history of the bytes read in order.
LEMMA NextKeys == IInv /\ KeyInv /\ [Next]_vars => KeyInv'
<1> SUFFICES ASSUME IInv, KeyInv, [Next]_vars PROVE KeyInv' OBVIOUS
<1>0. input \in Seq(Key) /\ keysRead \in Seq(Key) BY DEF IInv, TypeOK
<1>1. ASSUME UNCHANGED <<ch, keysRead>>,
             \/ pc' = pc \/ pc' = "killed"
             \/ /\ pc \in {"setup", "frame", "read", "update"}
                /\ pc' \in {"setup", "frame", "read", "update"}
             \/ pc = "cleanup" /\ pc' = "exited"
             \/ pc' = "cleanup" /\ ch = ESC
      PROVE  KeyInv'
  BY <1>1 DEF KeyInv
<1>2. CASE ReadKey
  <2>1. pc = "read" /\ pc' = IF ch' = ESC THEN "cleanup" ELSE "update"
    BY <1>2 DEF ReadKey
  <2>2. CASE input = << >>
    <3>1. UNCHANGED <<ch, keysRead>> BY <1>2, <2>2 DEF ReadKey, keyboard
    <3> QED BY <1>1, <2>1, <3>1
  <2>3. CASE input # << >>
    <3> DEFINE k == Head(input)
    <3>1. k \in Key BY <1>0, <2>3
    <3>2. ch' = k /\ keysRead' = Append(keysRead, k) BY <1>2, <2>3 DEF ReadKey
    <3> HIDE DEF k
    <3>3. /\ keysRead' # << >> /\ Len(keysRead') = Len(keysRead) + 1
          /\ keysRead'[Len(keysRead')] = k
          /\ \A i \in 1..Len(keysRead) : keysRead'[i] = keysRead[i]
          /\ Len(keysRead) \in Nat
      BY <1>0, <3>1, <3>2
    <3>4. \A i \in 1..Len(keysRead') : i = Len(keysRead') \/ i \in 1..Len(keysRead)
      BY <3>3
    <3>5. \A i \in 1..Len(keysRead) : keysRead[i] # ESC BY <2>1 DEF KeyInv
    <3>6. Last(keysRead') = k BY <3>3 DEF Last
    <3>7. \A i \in 1..Len(keysRead') : keysRead'[i] = ESC => i = Len(keysRead') /\ k = ESC
      BY <3>3, <3>4, <3>5
    <3> QED BY <2>1, <3>2, <3>6, <3>7 DEF KeyInv
  <2> QED BY <2>2, <2>3
<1>3. CASE Setup BY <1>1, <1>3 DEF Setup, keyboard
<1>4. CASE Frame BY <1>1, <1>4 DEF Frame, keyboard
<1>5. CASE Update BY <1>1, <1>5 DEF Update, keyboard
<1>6. CASE Cleanup BY <1>1, <1>6 DEF Cleanup, keyboard
<1>7. ASSUME NEW k \in Key, Type(k) PROVE KeyInv' BY <1>1, <1>7 DEF Type
<1>8. CASE Interrupt BY <1>1, <1>8 DEF Interrupt, keyboard
<1>9. CASE UNCHANGED vars BY <1>1, <1>9 DEF vars, keyboard
<1> QED BY <1>2, <1>3, <1>4, <1>5, <1>6, <1>7, <1>8, <1>9 DEF Next, Main, Ended

\* Every step keeps what main() saved, and the clean-up puts it back.
LEMMA NextSaved == IInv /\ SavedInv /\ [Next]_vars => SavedInv'
<1> SUFFICES ASSUME IInv, SavedInv, [Next]_vars PROVE SavedInv' OBVIOUS
<1>1. ASSUME UNCHANGED <<mode, oldt, flags, found, shared>>,
             pc' = pc \/ pc' \notin {"setup", "exited"}
      PROVE  SavedInv'
  BY <1>1 DEF SavedInv, RestoredOnExit
<1>2. CASE Setup BY <1>2 DEF Setup, SavedInv, RestoredOnExit, output
<1>3. CASE Cleanup
  <2>1. found \in Modes BY DEF IInv, TypeOK
  <2>2. found = [lflag |-> found.lflag, nonblock |-> found.nonblock,
                 cursor |-> found.cursor]
    BY <2>1 DEF Modes
  <2>3. PICK cursor \in {"shown"} \cup (IF shared /\ flags THEN {mode.cursor} ELSE {}) :
          mode' = [lflag |-> oldt, nonblock |-> flags, cursor |-> cursor]
    BY <1>3 DEF Cleanup
  <2>4. UNCHANGED <<oldt, flags, found, shared>> /\ pc' = "exited"
    BY <1>3 DEF Cleanup, output
  <2>5. CASE cursor = "shown"
    <3>1. mode' = found' BY <2>2, <2>3, <2>4, <2>5 DEF SavedInv
    <3> QED BY <2>4, <3>1 DEF SavedInv, RestoredOnExit
  <2>6. CASE cursor # "shown"
    <3>1. shared /\ flags /\ cursor = mode.cursor BY <2>3, <2>6
    <3>2. cursor = "hidden" BY <2>6, <3>1 DEF IInv, TypeOK, Modes
    <3>3. mode' = [found EXCEPT !.cursor = "hidden"]
      BY <2>2, <2>3, <3>2 DEF SavedInv
    <3>4. found.nonblock BY <3>1 DEF SavedInv
    <3> QED BY <2>4, <3>1, <3>3, <3>4 DEF SavedInv, RestoredOnExit
  <2> QED BY <2>5, <2>6
<1>4. CASE Frame
  <2>1. /\ UNCHANGED <<oldt, flags, found>> /\ pc = "frame" /\ pc' = "read"
    BY <1>4 DEF Frame
  <2> QED BY <2>1 DEF SavedInv, RestoredOnExit
<1>5. CASE ReadKey BY <1>1, <1>5 DEF ReadKey, output
<1>6. CASE Update BY <1>1, <1>6 DEF Update, output
<1>7. ASSUME NEW k \in Key, Type(k) PROVE SavedInv' BY <1>1, <1>7 DEF Type, output
<1>8. CASE Interrupt BY <1>1, <1>8 DEF Interrupt, output
<1>9. CASE UNCHANGED vars BY <1>1, <1>9 DEF vars, output
<1> QED BY <1>2, <1>3, <1>4, <1>5, <1>6, <1>7, <1>8, <1>9 DEF Next, Main, Ended

\* The status line tells of the frame on the screen, the loop ends on the
\* first escape byte and the terminal is put back, for a board of any size.
THEOREM AlwaysEndsInOrder == Spec => []EndsInOrder
<1>1. EndInv /\ [Next]_vars => EndInv'
  BY NextIInv, NextStatus, NextKeys, NextSaved DEF EndInv
<1>2. EndInv => EndsInOrder
  <2> SUFFICES ASSUME EndInv PROVE EndsInOrder OBVIOUS
  <2>1. TypeOK /\ RestoredOnExit BY DEF EndInv, IInv, SavedInv
  <2>2. LeavesOnEscape
    <3>1. pc \in {"setup", "frame", "read", "update", "cleanup"} \cup Over
      BY <2>1 DEF TypeOK
    <3>2. KeyInv BY DEF EndInv
    <3>3. (pc \in {"cleanup", "exited"} /\ keysRead # << >>) => Last(keysRead) = ESC
      BY <3>2 DEF KeyInv
    <3>4. ASSUME NEW i \in 1..Len(keysRead), keysRead[i] = ESC
          PROVE  i = Len(keysRead) /\ pc \in {"cleanup"} \cup Over
      BY <3>1, <3>2, <3>4 DEF KeyInv
    <3> QED BY <3>3, <3>4 DEF LeavesOnEscape
  <2>3. StatusMatchesScreen
    <3> SUFFICES ASSUME pc \in {"read", "update"}, generation > 1
                 PROVE
                   /\ \/ shared /\ (unsent # {} \/ "living" \in late)
                      \/ IsPrefix(Digits(Cardinality({p \in Cells : screen[p] = "X"})),
                                  status.living)
                   /\ \/ shared /\ late \cap {"clear", "generation"} # {}
                      \/ status.generation = Digits(generation)
      BY DEF StatusMatchesScreen
    <3>1. shared \/ (unsent = {} /\ late = {}) BY DEF EndInv, IInv, OutputInv
    <3>2. unsent = {} =>
            Cardinality({p \in Cells : screen[p] = "X"}) = CountLiving(board)
      BY <2>1, LivingOnScreen DEF EndInv, IInv
    <3> QED BY <3>1, <3>2 DEF EndInv, StatusInv
  <2> QED BY <2>1, <2>2, <2>3 DEF EndsInOrder
<1> QED BY <1>1, <1>2, InitEnd, PTL DEF Spec

=============================================================================
