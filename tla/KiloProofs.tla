----------------------------- MODULE KiloProofs -----------------------------
(***************************************************************************)
(* Type correctness of the editor, that its cursor stays inside the        *)
(* window, and that it leaves the terminal as it found it, for every       *)
(* keyboard, every terminal size and any number of keys.                   *)
(***************************************************************************)
EXTENDS Kilo, FiniteSetTheorems, SequenceTheorems, TLAPS

\* disableRawMode is registered before the terminal is ever made raw, so
\* every way out of the program passes through it.
HandlerBeforeRaw == tty = "raw" => atexit

\* Each frame that hides the cursor shows it again, or has lost a piece.
CursorShownAgain == term.shown \/ "frame" \in doubt

\* What the exit handler leaves behind.
RestoredByHandler == pc = "exited" => tty = "cooked" \/ "restore" \in doubt

\* The inductive invariant.
IInv == /\ TypeOK
        /\ CursorOnScreen
        /\ HandlerBeforeRaw
        /\ CursorShownAgain
        /\ RestoredByHandler

-----------------------------------------------------------------------------
\* The number getCursorPosition reads from a run of digits is an integer.
LEMMA ValueType ==
  ASSUME NEW s \in Seq(Byte)
  PROVE  Value(s) \in Int
<1> DEFINE d(k) == IF k < Len(s) THEN s[Len(s) - k] - 48 ELSE 0
<1>1. ASSUME NEW k \in {0, 1, 2} PROVE d(k) \in Int
  <2>1. Len(s) \in Nat OBVIOUS
  <2>2. CASE k < Len(s)
    <3>1. Len(s) - k \in 1..Len(s) BY <2>1, <2>2
    <3>2. s[Len(s) - k] \in Byte BY <3>1
    <3>3. \A b \in Byte : b - 48 \in Int BY DEF Byte
    <3> QED BY <2>2, <3>2, <3>3
  <2>3. CASE ~(k < Len(s)) BY <2>3
  <2> QED BY <2>2, <2>3
<1>2. d(0) \in Int /\ d(1) \in Int /\ d(2) \in Int BY <1>1
<1>3. Value(s) = d(0) + 10 * d(1) + 100 * d(2) BY DEF Value
<1> HIDE DEF d
<1> QED BY <1>2, <1>3

\* A terminal reports its position in bytes.
LEMMA ReplyType == Reply \in Seq(Byte)
<1>1. ASSUME NEW n \in 1..999 PROVE Decimal(n) \in Seq(Byte)
  <2> DEFINE d(k) == 48 + ((n \div k) % 10)
  <2>1. d(1) \in Byte /\ d(10) \in Byte /\ d(100) \in Byte BY DEF Byte
  <2>2. Decimal(n) = IF n < 10 THEN <<d(1)>>
                     ELSE IF n < 100 THEN <<d(10), d(1)>>
                     ELSE <<d(100), d(10), d(1)>>
    BY DEF Decimal
  <2> HIDE DEF d
  <2> QED BY <2>1, <2>2
<1>2. TermSize[1] \in 1..999 /\ TermSize[2] \in 1..999 BY KiloAssumption
<1>3. Decimal(TermSize[1]) \in Seq(Byte) /\ Decimal(TermSize[2]) \in Seq(Byte)
  <2> DEFINE Sizes == 1..999
  <2>1. \A n \in Sizes : Decimal(n) \in Seq(Byte) BY <1>1
  <2>2. TermSize[1] \in Sizes /\ TermSize[2] \in Sizes BY <1>2
  <2> HIDE DEF Sizes
  <2> QED BY <2>1, <2>2, Zenon
<1>4. /\ <<ESCSEQ, LBRACKET>> \in Seq(Byte) /\ <<SEMI>> \in Seq(Byte)
      /\ <<CAP_R>> \in Seq(Byte)
  BY DEF ESCSEQ, LBRACKET, SEMI, CAP_R, Byte
<1> QED BY <1>3, <1>4 DEF Reply

\* What a read byte sequence can stand for.
LEMMA ArrowType ==
  ASSUME NEW b0 \in Byte, NEW b1 \in Byte
  PROVE  ArrowOf(b0, b1) \in Byte \cup 1000..1003
BY DEF ArrowOf, ARROW_UP, ARROW_DOWN, ARROW_LEFT, ARROW_RIGHT, ESCSEQ, Byte

\* Moving the terminal's cursor neither hides nor shows it.
LEMMA CursorMoved ==
  ASSUME NEW t \in [shown : BOOLEAN, at : Int \X Int], NEW p \in Int \X Int
  PROVE  /\ [t EXCEPT !.at = p] \in [shown : BOOLEAN, at : Int \X Int]
         /\ [t EXCEPT !.at = p].shown = t.shown
OBVIOUS

\* Processing a key keeps the part of the invariant it can disturb.
LEMMA ProcessKeypressInv ==
  ASSUME IInv, pc # "exited",
         NEW key \in Byte \cup 1000..1003, ProcessKeypress(key)
  PROVE  /\ pc' \in {"exit", "refresh"} /\ status' \in {0, 1}
         /\ cx' \in Int /\ cy' \in Int
         /\ screenrows' = screenrows /\ screencols' = screencols
         /\ decoded' \in Seq(Byte \cup 1000..1003)
         /\ term' \in [shown : BOOLEAN, at : Int \X Int]
         /\ term'.shown = term.shown
         /\ CursorOnScreen'
<1>1. decoded' \in Seq(Byte \cup 1000..1003)
  BY DEF ProcessKeypress, IInv, TypeOK
<1>2. /\ status \in {0, 1} /\ cx \in Int /\ cy \in Int
      /\ screenrows \in Int /\ screencols \in Int
      /\ term \in [shown : BOOLEAN, at : Int \X Int]
      /\ CursorOnScreen
  BY DEF IInv, TypeOK
<1>3. CASE key = CTRL_Q
  <2>1. /\ pc' = "exit" /\ status' = 0 /\ cx' = cx /\ cy' = cy
        /\ screenrows' = screenrows /\ screencols' = screencols
        /\ term' = [term EXCEPT !.at = <<1, 1>>]
    BY <1>3 DEF ProcessKeypress, ClearScreen
  <2>2. /\ term' \in [shown : BOOLEAN, at : Int \X Int]
        /\ term'.shown = term.shown
    BY <1>2, <2>1
  <2> QED BY <1>1, <1>2, <2>1, <2>2 DEF CursorOnScreen
<1>4. CASE key # CTRL_Q
  <2>1. /\ MoveCursor(key) /\ pc' = "refresh" /\ status' = status
        /\ term' = term /\ screenrows' = screenrows
        /\ screencols' = screencols
    BY <1>4 DEF ProcessKeypress
  <2>2. cx' \in Int /\ cy' \in Int BY <1>2, <2>1 DEF MoveCursor
  <2>3. cx' >= 0 /\ (screencols > 0 => cx' < screencols)
    BY <1>2, <2>1 DEF MoveCursor, CursorOnScreen
  <2>4. cy' >= 0 /\ (screenrows > 0 => cy' < screenrows)
    BY <1>2, <2>1 DEF MoveCursor, CursorOnScreen
  <2> QED BY <1>1, <1>2, <2>1, <2>2, <2>3, <2>4 DEF CursorOnScreen
<1> QED BY <1>3, <1>4

\* So does taking over the size the terminal reported.
LEMMA FinishReplyInv ==
  ASSUME IInv, NEW s \in Seq(Byte), FinishReply(s)
  PROVE  /\ pc' \in {"exit", "refresh"} /\ status' \in {0, 1}
         /\ cx' \in Int /\ cy' \in Int
         /\ screenrows' \in Int /\ screencols' \in Int
         /\ term' \in [shown : BOOLEAN, at : Int \X Int]
         /\ term'.shown = term.shown
         /\ CursorOnScreen'
<1>0. /\ status \in {0, 1} /\ cx \in Int /\ cy \in Int
      /\ screenrows \in Int /\ screencols \in Int
      /\ term \in [shown : BOOLEAN, at : Int \X Int]
      /\ CursorOnScreen
  BY DEF IInv, TypeOK
<1>1. ASSUME NEW r \in 1..Len(s), NEW c \in 1..Len(s), Scans(s, r, c),
             SetSize(Value(SubSeq(s, 3, r + 2)),
                     Value(SubSeq(s, r + 4, r + c + 3)))
      PROVE  /\ pc' = "refresh" /\ cx' = 0 /\ cy' = 0
             /\ screenrows' \in Int /\ screencols' \in Int
             /\ status' = status /\ term' = term
  <2>1. r \in Nat /\ c \in Nat /\ Len(s) \in Nat /\ r + c + 3 <= Len(s)
    BY <1>1 DEF Scans
  <2>2. \A i \in 3..(r + 2) : s[i] \in Byte BY <2>1
  <2>3. \A i \in (r + 4)..(r + c + 3) : s[i] \in Byte BY <2>1
  <2>4. SubSeq(s, 3, r + 2) \in Seq(Byte) BY <2>1, <2>2
  <2>5. SubSeq(s, r + 4, r + c + 3) \in Seq(Byte) BY <2>1, <2>3
  <2> QED BY <1>1, <2>4, <2>5, ValueType DEF SetSize
<1>2. CASE \E r, c \in 1..Len(s) :
             /\ Scans(s, r, c)
             /\ SetSize(Value(SubSeq(s, 3, r + 2)),
                        Value(SubSeq(s, r + 4, r + c + 3)))
  <2>1. /\ pc' = "refresh" /\ cx' = 0 /\ cy' = 0
        /\ screenrows' \in Int /\ screencols' \in Int
        /\ status' = status /\ term' = term
    BY <1>1, <1>2
  <2> QED BY <1>0, <2>1 DEF CursorOnScreen
<1>3. CASE Die /\ UNCHANGED editor
  <2>1. /\ pc' = "exit" /\ status' = 1 /\ cx' = cx /\ cy' = cy
        /\ screenrows' = screenrows /\ screencols' = screencols
        /\ term' = [term EXCEPT !.at = <<1, 1>>]
    BY <1>3 DEF Die, ClearScreen, editor
  <2>2. /\ term' \in [shown : BOOLEAN, at : Int \X Int]
        /\ term'.shown = term.shown
    BY <1>0, <2>1
  <2> QED BY <1>0, <2>1, <2>2 DEF CursorOnScreen
<1> QED BY <1>2, <1>3 DEF FinishReply

-----------------------------------------------------------------------------
\* The invariant holds when main() starts.
LEMMA InitIInv == Init => IInv
<1> SUFFICES ASSUME Init PROVE IInv
  OBVIOUS
<1>1. term \in [shown : BOOLEAN, at : Int \X Int] /\ term.shown
  BY DEF Init
<1>2. << >> \in Seq(Byte) /\ << >> \in Seq(Keys)
      /\ << >> \in Seq(Byte \cup 1000..1003)
  OBVIOUS
<1>3. TypeOK
  <2>1. /\ pc \in Locations /\ tty \in {"cooked", "raw"}
        /\ status \in {0, 1} /\ seq0 \in Byte /\ doubt \subseteq Doubts
    BY DEF Init, Locations, Byte
  <2>b. atexit \in BOOLEAN BY DEF Init
  <2>2. cx \in Int /\ cy \in Int /\ screenrows \in Int /\ screencols \in Int
    BY DEF Init
  <2>3. /\ wire \in Seq(Byte) /\ input \in Seq(Byte) /\ buf \in Seq(Byte)
        /\ typed \in Seq(Keys) /\ decoded \in Seq(Byte \cup 1000..1003)
    BY <1>2 DEF Init
  <2>4. Len(buf) + 1 < BufSize BY KiloAssumption DEF Init
  <2> QED BY <1>1, <2>1, <2>b, <2>2, <2>3, <2>4 DEF TypeOK
<1>4. /\ CursorOnScreen /\ HandlerBeforeRaw /\ CursorShownAgain
      /\ RestoredByHandler
  BY <1>1 DEF Init, CursorOnScreen, HandlerBeforeRaw, CursorShownAgain,
    RestoredByHandler
<1> QED BY <1>3, <1>4 DEF IInv

\* Every step of the editor, the terminal or the user keeps it.
LEMMA NextIInv == IInv /\ [Next]_vars => IInv'
<1> SUFFICES ASSUME IInv, [Next]_vars PROVE IInv'
  OBVIOUS
<1>0. /\ pc \in Locations /\ tty \in {"cooked", "raw"}
      /\ atexit \in BOOLEAN /\ status \in {0, 1}
      /\ wire \in Seq(Byte) /\ input \in Seq(Byte) /\ buf \in Seq(Byte)
      /\ seq0 \in Byte
      /\ cx \in Int /\ cy \in Int /\ screenrows \in Int /\ screencols \in Int
      /\ term \in [shown : BOOLEAN, at : Int \X Int]
      /\ typed \in Seq(Keys) /\ decoded \in Seq(Byte \cup 1000..1003)
      /\ doubt \subseteq Doubts
      /\ CursorOnScreen /\ HandlerBeforeRaw /\ CursorShownAgain
      /\ RestoredByHandler
  BY DEF IInv, TypeOK
<1>b. Len(buf) + 1 < BufSize BY DEF IInv, TypeOK
<1> DEFINE ClearedAt == [term EXCEPT !.at = <<1, 1>>]
<1>c. /\ ClearedAt \in [shown : BOOLEAN, at : Int \X Int]
      /\ ClearedAt.shown = term.shown
  BY <1>0, CursorMoved
<1>e. input \in Seq(Byte) /\ << >> \in Seq(Byte) BY <1>0
<1>h. ASSUME input # << >>
      PROVE  Head(input) \in Byte /\ Tail(input) \in Seq(Byte)
  BY <1>0, <1>h
<1>n. NoByte => doubt' \subseteq Doubts /\ doubt \subseteq doubt'
  BY <1>0 DEF NoByte, Doubts
<1> HIDE DEF ClearedAt
<1>1. CASE EnableRawMode
  <2>1. /\ pc' \in {"exit", "getWindowSize"} /\ status' \in {0, 1}
        /\ tty' \in {"cooked", "raw"} /\ atexit' \in BOOLEAN
        /\ input' \in Seq(Byte) /\ term' \in {term, ClearedAt}
        /\ tty' = "raw" => atexit'
    <3>2. input' = input \/ input' = << >>
      BY <1>1 DEF EnableRawMode
    <3>3. input' \in Seq(Byte) BY <1>e, <3>2, Zenon
    <3>4. CASE Die /\ UNCHANGED <<tty, atexit>>
      BY <1>0, <3>3, <3>4 DEF Die, ClearScreen, ClearedAt, HandlerBeforeRaw
    <3>5. CASE atexit' = TRUE /\ Die /\ UNCHANGED tty
      BY <1>0, <3>3, <3>5 DEF Die, ClearScreen, ClearedAt
    <3>6. CASE /\ atexit' = TRUE /\ tty' = "raw" /\ pc' = "getWindowSize"
               /\ UNCHANGED <<status, term>>
      BY <1>0, <3>3, <3>6
    <3> QED BY <1>1, <3>4, <3>5, <3>6 DEF EnableRawMode
  <2>2. UNCHANGED <<wire, buf, seq0, editor, typed, decoded, doubt>>
    BY <1>1 DEF EnableRawMode
  <2> QED BY <1>0, <1>c, <2>1, <2>2 DEF IInv, TypeOK, Locations, Sizing, Ending,
    editor, CursorOnScreen, HandlerBeforeRaw, CursorShownAgain, RestoredByHandler
<1>2. CASE GetWindowSize
  <2>1. UNCHANGED <<tty, atexit, input, seq0, typed, decoded, doubt>>
    BY <1>2 DEF GetWindowSize
  <2>2. CASE /\ \E ws \in WinSizes : ws[2] # 0 /\ SetSize(ws[1], ws[2])
             /\ UNCHANGED <<wire, buf>>
    <3>1. PICK ws \in WinSizes : SetSize(ws[1], ws[2]) BY <2>2
    <3>2. ws[1] \in Int /\ ws[2] \in Int BY KiloAssumption
    <3> QED BY <1>0, <2>1, <2>2, <3>1, <3>2 DEF SetSize, IInv, TypeOK, Locations,
      CursorOnScreen, HandlerBeforeRaw, CursorShownAgain, RestoredByHandler
  <2>3. CASE Die /\ UNCHANGED <<wire, buf, editor>>
    <3>1. pc' = "exit" /\ status' = 1 /\ term' = ClearedAt
      BY <2>3 DEF Die, ClearScreen, ClearedAt
    <3>2. Len(buf') + 1 < BufSize BY <1>b, <2>3
    <3>3. TypeOK' BY <1>0, <1>c, <2>1, <2>3, <3>1, <3>2 DEF editor, TypeOK, Locations, Ending
    <3>4. CursorOnScreen' /\ HandlerBeforeRaw' /\ CursorShownAgain' /\ RestoredByHandler'
      BY <1>0, <1>c, <2>1, <2>3, <3>1 DEF editor, Ending, CursorOnScreen, HandlerBeforeRaw,
        CursorShownAgain, RestoredByHandler
    <3> QED BY <3>3, <3>4 DEF IInv
  <2>4. CASE /\ wire' = wire \o Reply /\ term' = [term EXCEPT !.at = TermSize]
             /\ buf' = << >> /\ pc' = "getCursorPosition"
             /\ UNCHANGED <<status, editor>>
    <3>1. wire' \in Seq(Byte) BY <1>0, <2>4, ReplyType
    <3>2. TermSize \in Int \X Int
      <4> DEFINE Sizes == 1..999
      <4>1. TermSize \in Sizes \X Sizes BY KiloAssumption
      <4>2. Sizes \subseteq Int OBVIOUS
      <4> HIDE DEF Sizes
      <4> QED BY <4>1, <4>2
    <3>3. /\ term' \in [shown : BOOLEAN, at : Int \X Int]
          /\ term'.shown = term.shown
      BY <1>0, <2>4, <3>2, CursorMoved, SMTT(20)
    <3>4. buf' \in Seq(Byte) /\ Len(buf') + 1 < BufSize BY <2>4, KiloAssumption
    <3> QED BY <1>0, <2>1, <2>4, <3>1, <3>3, <3>4 DEF editor, IInv, TypeOK, Locations,
      Sizing, CursorOnScreen, HandlerBeforeRaw, CursorShownAgain,
      RestoredByHandler
  <2> QED BY <1>2, <2>2, <2>3, <2>4 DEF GetWindowSize
<1>3. CASE GetCursorPosition
  <2>1. UNCHANGED <<tty, atexit, wire, seq0, typed, decoded>>
    BY <1>3 DEF GetCursorPosition
  <2>2. ASSUME NEW s \in Seq(Byte), FinishReply(s), buf' = buf,
               input' \in Seq(Byte), doubt' \subseteq Doubts,
               doubt \subseteq doubt'
        PROVE  IInv'
    <3>1. Len(buf') + 1 < BufSize BY <1>b, <2>2
    <3>2. /\ pc' \in {"exit", "refresh"} /\ status' \in {0, 1}
          /\ cx' \in Int /\ cy' \in Int
          /\ screenrows' \in Int /\ screencols' \in Int
          /\ term' \in [shown : BOOLEAN, at : Int \X Int]
          /\ term'.shown = term.shown /\ CursorOnScreen'
      BY <2>2, FinishReplyInv
    <3>3. TypeOK'
      <4>1. pc' \in Locations BY <3>2 DEF Locations, Ending
      <4>2. /\ tty' \in {"cooked", "raw"} /\ atexit' \in BOOLEAN
            /\ wire' \in Seq(Byte) /\ buf' \in Seq(Byte) /\ seq0' \in Byte
            /\ typed' \in Seq(Keys) /\ decoded' \in Seq(Byte \cup 1000..1003)
        BY <1>0, <2>1, <2>2
      <4> QED BY <2>2, <3>1, <3>2, <4>1, <4>2 DEF TypeOK
    <3>4. HandlerBeforeRaw' /\ CursorShownAgain' /\ RestoredByHandler'
      BY <1>0, <2>1, <2>2, <3>2, SMTT(20) DEF Ending, HandlerBeforeRaw, CursorShownAgain,
        RestoredByHandler
    <3> QED BY <3>2, <3>3, <3>4 DEF IInv
  <2>3. CASE FinishReply(buf) /\ NoByte /\ UNCHANGED <<buf, input>>
    BY <1>0, <1>n, <2>2, <2>3
  <2>4. CASE input # << >> /\ input' = Tail(input) /\ UNCHANGED doubt
    <3>1. CASE FinishReply(buf) /\ UNCHANGED buf
      BY <1>0, <1>h, <2>2, <2>4, <3>1
    <3>2. CASE FinishReply(Append(buf, Head(input))) /\ UNCHANGED buf
      <4>1. Append(buf, Head(input)) \in Seq(Byte) BY <1>0, <1>h, <2>4
      <4>2. input' \in Seq(Byte) /\ doubt' \subseteq Doubts
            /\ doubt \subseteq doubt'
        BY <1>0, <1>h, <2>4
      <4> QED BY <2>2, <3>2, <4>1, <4>2
    <3>3. CASE /\ buf' = Append(buf, Head(input)) /\ Len(buf) + 1 < BufSize - 1
               /\ UNCHANGED <<pc, status, editor, term>>
      <4>0. BufSize \in Nat /\ Head(input) \in Byte BY <1>h, <2>4, KiloAssumption
      <4>1. buf' \in Seq(Byte) /\ Len(buf') + 1 < BufSize BY <1>0, <3>3, <4>0
      <4> QED BY <1>0, <1>h, <2>1, <2>4, <3>3, <4>1 DEF IInv, TypeOK, editor,
        CursorOnScreen, HandlerBeforeRaw, CursorShownAgain, RestoredByHandler
    <3> QED BY <1>3, <2>3, <2>4, <3>1, <3>2, <3>3 DEF GetCursorPosition
  <2> QED BY <1>3, <2>3, <2>4 DEF GetCursorPosition
<1>4. CASE RefreshScreen
  <2>1. /\ pc' = "readKey"
        /\ UNCHANGED <<tty, atexit, status, wire, input, buf, seq0, editor,
                       typed, decoded>>
    BY <1>4 DEF RefreshScreen
  <2>2. PICK lost \in SUBSET {"hide", "home", "rows", "move", "show"} :
          /\ term' = [shown |-> IF "show" \in lost
                               THEN "hide" \in lost /\ term.shown ELSE TRUE,
                      at |-> IF "move" \in lost THEN term.at
                             ELSE <<cy + 1, cx + 1>>]
          /\ doubt' = IF lost = {} THEN doubt ELSE doubt \cup {"frame"}
    BY <1>4 DEF RefreshScreen
  <2>3. term.shown \in BOOLEAN /\ term.at \in Int \X Int BY <1>0
  <2>4. term' \in [shown : BOOLEAN, at : Int \X Int]
    <3> DEFINE sh == IF "show" \in lost THEN "hide" \in lost /\ term.shown
                     ELSE TRUE
               pos == IF "move" \in lost THEN term.at ELSE <<cy + 1, cx + 1>>
    <3>1. sh \in BOOLEAN BY <2>3
    <3>2. pos \in Int \X Int BY <1>0, <2>3
    <3>3. term' = [shown |-> sh, at |-> pos] BY <2>2
    <3> HIDE DEF sh, pos
    <3> QED BY <3>1, <3>2, <3>3
  <2>5. doubt' \subseteq Doubts /\ doubt \subseteq doubt'
    BY <1>0, <2>2 DEF Doubts
  <2>6. term'.shown \/ "frame" \in doubt'
    BY <2>2
  <2> QED BY <1>0, <2>1, <2>4, <2>5, <2>6 DEF IInv, TypeOK, Locations, editor,
    CursorOnScreen, HandlerBeforeRaw, CursorShownAgain, RestoredByHandler
<1> DEFINE KeyHandled(key) ==
      /\ key \in Byte \cup 1000..1003 /\ ProcessKeypress(key)
      /\ pc # "exited" /\ input' \in Seq(Byte)
      /\ doubt' \subseteq Doubts /\ doubt \subseteq doubt'
      /\ UNCHANGED <<tty, atexit, wire, buf, seq0, typed>>
<1>k. ASSUME NEW key, KeyHandled(key) PROVE IInv'
  <2>1. /\ pc' \in {"exit", "refresh"} /\ status' \in {0, 1}
        /\ cx' \in Int /\ cy' \in Int
        /\ screenrows' = screenrows /\ screencols' = screencols
        /\ decoded' \in Seq(Byte \cup 1000..1003)
        /\ term' \in [shown : BOOLEAN, at : Int \X Int]
        /\ term'.shown = term.shown
        /\ CursorOnScreen'
    BY <1>k, ProcessKeypressInv
  <2> QED BY <1>0, <1>k, <2>1 DEF IInv, TypeOK, Locations, Ending,
    HandlerBeforeRaw, CursorShownAgain, RestoredByHandler
<1>5. CASE ReadKey
  <2>1. /\ pc = "readKey" /\ input # << >> /\ input' = Tail(input)
        /\ UNCHANGED <<tty, atexit, wire, buf, seq0, typed, doubt>>
    BY <1>5 DEF ReadKey
  <2>2. CASE Head(input) = ESCSEQ
    BY <1>0, <1>h, <1>5, <2>1, <2>2 DEF ReadKey, IInv, TypeOK, Locations, editor,
      CursorOnScreen, HandlerBeforeRaw, CursorShownAgain, RestoredByHandler
  <2>3. CASE Head(input) # ESCSEQ
    <3>1. KeyHandled(Head(input)) BY <1>0, <1>h, <1>5, <2>1, <2>3 DEF ReadKey
    <3> QED BY <1>k, <3>1
  <2> QED BY <2>2, <2>3
<1>6. CASE ReadKeyFails
  <2>1. /\ pc' = "exit" /\ status' = 1 /\ term' = ClearedAt
        /\ UNCHANGED <<tty, atexit, wire, input, buf, seq0, editor, typed,
                       decoded, doubt>>
    BY <1>6 DEF ReadKeyFails, Die, ClearScreen, ClearedAt
  <2> QED BY <1>0, <1>c, <2>1 DEF editor, IInv, TypeOK, Locations, Ending,
    CursorOnScreen, HandlerBeforeRaw, CursorShownAgain, RestoredByHandler
<1>7. CASE ReadSeq0
  <2>1. pc = "seq0" /\ UNCHANGED <<tty, atexit, wire, buf, typed>>
    BY <1>7 DEF ReadSeq0
  <2>2. CASE /\ input # << >> /\ input' = Tail(input)
             /\ seq0' = Head(input) /\ pc' = "seq1"
             /\ UNCHANGED <<status, editor, decoded, doubt, term>>
    BY <1>0, <1>h, <2>1, <2>2 DEF IInv, TypeOK, Locations, editor,
      CursorOnScreen, HandlerBeforeRaw, CursorShownAgain, RestoredByHandler
  <2>3. CASE ProcessKeypress(ESCSEQ) /\ NoByte /\ UNCHANGED <<input, seq0>>
    <3>1. KeyHandled(ESCSEQ)
      BY <1>0, <1>n, <2>1, <2>3 DEF ESCSEQ, Byte
    <3> QED BY <1>k, <3>1
  <2> QED BY <1>7, <2>2, <2>3 DEF ReadSeq0
<1>8. CASE ReadSeq1
  <2>1. pc = "seq1" /\ UNCHANGED <<tty, atexit, wire, buf, seq0, typed>>
    BY <1>8 DEF ReadSeq1
  <2>2. CASE /\ input # << >> /\ input' = Tail(input)
             /\ ProcessKeypress(ArrowOf(seq0, Head(input))) /\ UNCHANGED doubt
    <3>1. KeyHandled(ArrowOf(seq0, Head(input)))
      BY <1>0, <1>h, <2>1, <2>2, ArrowType
    <3> QED BY <1>k, <3>1
  <2>3. CASE ProcessKeypress(ESCSEQ) /\ NoByte /\ UNCHANGED input
    <3>1. KeyHandled(ESCSEQ)
      BY <1>0, <1>n, <2>1, <2>3 DEF ESCSEQ, Byte
    <3> QED BY <1>k, <3>1
  <2> QED BY <1>8, <2>2, <2>3 DEF ReadSeq1
<1>9. CASE Exit
  <2>1. /\ pc' = "exited" /\ status' \in {0, 1} /\ term' \in {term, ClearedAt}
        /\ input' \in Seq(Byte) /\ tty' \in {"cooked", "raw"}
        /\ UNCHANGED <<atexit, wire, buf, seq0, editor, typed, decoded>>
    <3>2. input' = input \/ input' = << >>
      BY <1>9 DEF Exit
    <3>3. input' \in Seq(Byte) BY <1>e, <3>2, Zenon
    <3> QED BY <1>0, <1>9, <3>3 DEF Exit, ClearScreen, ClearedAt
  <2>2. doubt' \subseteq Doubts /\ doubt \subseteq doubt'
    <3>1. doubt' = doubt \/ doubt' = doubt \cup {"restore"} BY <1>9 DEF Exit
    <3>2. doubt \subseteq Doubts BY <1>0
    <3> QED BY <3>1, <3>2 DEF Doubts
  <2>3. tty' = "cooked" \/ "restore" \in doubt'
    BY <1>0, <1>9 DEF Exit, HandlerBeforeRaw
  <2>4. tty' = "raw" => atexit'
    BY <1>0, <1>9 DEF Exit, HandlerBeforeRaw
  <2> QED BY <1>0, <1>c, <2>1, <2>2, <2>3, <2>4 DEF editor, IInv, TypeOK,
    Locations, Ending, CursorOnScreen, HandlerBeforeRaw, CursorShownAgain,
    RestoredByHandler
<1>10. CASE Deliver
  <2>1. /\ wire # << >> /\ pc' = pc
        /\ input' = Append(input, Head(wire)) /\ wire' = Tail(wire)
        /\ UNCHANGED <<tty, atexit, status, buf, seq0, editor, term, typed,
                       decoded, doubt>>
    BY <1>10 DEF Deliver
  <2>2. Head(wire) \in Byte /\ Tail(wire) \in Seq(Byte) BY <1>0, <2>1
  <2>3. input' \in Seq(Byte) /\ wire' \in Seq(Byte) BY <1>0, <2>1, <2>2
  <2> QED BY <1>0, <2>1, <2>3 DEF editor, IInv, TypeOK, CursorOnScreen,
    HandlerBeforeRaw, CursorShownAgain, RestoredByHandler
<1>11. ASSUME NEW k \in Keys, PressKey(k) PROVE IInv'
  <2>1. /\ pc' = pc /\ wire' = wire \o k /\ typed' = Append(typed, k)
        /\ UNCHANGED <<tty, atexit, status, input, buf, seq0, editor, term,
                       decoded>>
    BY <1>11 DEF PressKey
  <2>2. k \in Seq(Byte) BY KiloAssumption
  <2>3. wire' \in Seq(Byte) /\ typed' \in Seq(Keys) BY <1>0, <2>1, <2>2
  <2>4. doubt' \subseteq Doubts /\ doubt \subseteq doubt'
    BY <1>0, <1>11 DEF PressKey, Doubts
  <2> QED BY <1>0, <2>1, <2>3, <2>4 DEF editor, IInv, TypeOK, CursorOnScreen,
    HandlerBeforeRaw, CursorShownAgain, RestoredByHandler
<1>12. CASE UNCHANGED vars
  BY <1>0, <1>12 DEF vars, editor, IInv, TypeOK, CursorOnScreen,
    HandlerBeforeRaw, CursorShownAgain, RestoredByHandler
<1> QED BY <1>1, <1>2, <1>3, <1>4, <1>5, <1>6, <1>7, <1>8, <1>9, <1>10, <1>11,
           <1>12 DEF Next, Editor, Exited

\* The inductive invariant holds in every behaviour of the editor.
THEOREM Invariance == Spec => []IInv
BY InitIInv, NextIInv, PTL DEF Spec

\* Type correctness for every keyboard, terminal and number of key presses.
THEOREM TypeCorrect == Spec => []TypeOK
<1>1. IInv => TypeOK BY DEF IInv
<1> QED BY <1>1, Invariance, PTL

\* editorMoveCursor keeps the cursor inside the window of any size.
THEOREM CursorStaysOnScreen == Spec => []CursorOnScreen
<1>1. IInv => CursorOnScreen BY DEF IInv
<1> QED BY <1>1, Invariance, PTL

\* Every exit of the program, through die() or Ctrl-Q, restores the terminal.
THEOREM TerminalIsRestored == Spec => []TerminalRestored
<1>1. IInv => TerminalRestored
  BY DEF IInv, CursorShownAgain, RestoredByHandler, TerminalRestored
<1> QED BY <1>1, Invariance, PTL

-----------------------------------------------------------------------------
(* The size report.                                                        *)

Sizes == 1..999

\* A terminal has at least one row and one column.
LEMMA TerminalSize ==
  /\ TermSize[1] \in Sizes /\ TermSize[2] \in Sizes
  /\ TermSize[1] \in Nat \ {0} /\ TermSize[2] \in Nat \ {0}
<1>1. TermSize \in Sizes \X Sizes BY KiloAssumption DEF Sizes
<1>2. \A n \in Sizes : n \in Nat \ {0} BY DEF Sizes
<1> QED BY <1>1, <1>2

\* Two pieces of a report, one after the other.
LEMMA Joined ==
  ASSUME NEW u \in Seq(Int), NEW v \in Seq(Int), NEW w, w = u \o v
  PROVE  /\ w \in Seq(Int) /\ Len(w) = Len(u) + Len(v)
         /\ \A k \in 1..Len(u) : w[k] = u[k]
         /\ \A k \in 1..Len(v) : w[Len(u) + k] = v[k]
<1>1. /\ w \in Seq(Int) /\ Len(w) = Len(u) + Len(v)
      /\ \A k \in 1..(Len(u) + Len(v)) : w[k] = IF k <= Len(u) THEN u[k] ELSE v[k - Len(u)]
  BY ConcatProperties
<1>2. Len(u) \in Nat /\ Len(v) \in Nat OBVIOUS
<1>3. ASSUME NEW k \in 1..Len(u) PROVE w[k] = u[k] BY <1>1, <1>2
<1>4. ASSUME NEW k \in 1..Len(v) PROVE w[Len(u) + k] = v[k]
  <2>1. /\ Len(u) + k \in 1..(Len(u) + Len(v)) /\ ~(Len(u) + k <= Len(u))
        /\ (Len(u) + k) - Len(u) = k
    BY <1>2
  <2> QED BY <1>1, <2>1
<1> QED BY <1>1, <1>3, <1>4

\* The number of digits of a coordinate.
Width(n) == IF n < 10 THEN 1 ELSE IF n < 100 THEN 2 ELSE 3

\* A coordinate has one to three digits, and its value is read back.
LEMMA DecimalRead ==
  ASSUME NEW n \in Sizes
  PROVE  /\ Decimal(n) \in Seq(Int) /\ Len(Decimal(n)) = Width(n)
         /\ \A k \in 1..Len(Decimal(n)) : Decimal(n)[k] \in Digit
         /\ Value(Decimal(n)) = n
<1> DEFINE d(k) == 48 + ((n \div k) % 10)
<1>0. n \in Nat /\ 1 <= n /\ n <= 999 BY DEF Sizes
<1>1. /\ d(1) \in Digit /\ d(10) \in Digit /\ d(100) \in Digit
      /\ d(1) \in Int /\ d(10) \in Int /\ d(100) \in Int
  BY <1>0 DEF Digit
<1>2. Decimal(n) = IF n < 10 THEN <<d(1)>> ELSE IF n < 100 THEN <<d(10), d(1)>>
                   ELSE <<d(100), d(10), d(1)>>
  BY DEF Decimal
<1>3. /\ n < 10 => d(1) - 48 = n
      /\ n < 100 => (d(1) - 48) + 10 * (d(10) - 48) = n
      /\ (d(1) - 48) + 10 * (d(10) - 48) + 100 * (d(100) - 48) = n
  BY <1>0
<1> HIDE DEF d
<1>4. CASE n < 10
  <2>1. Decimal(n) = <<d(1)>> BY <1>2, <1>4
  <2>2. Value(<<d(1)>>) = d(1) - 48 BY <1>1 DEF Value
  <2> QED BY <1>1, <1>3, <1>4, <2>1, <2>2 DEF Width
<1>5. CASE ~(n < 10) /\ n < 100
  <2>1. Decimal(n) = <<d(10), d(1)>> BY <1>2, <1>5
  <2>2. Value(<<d(10), d(1)>>) = (d(1) - 48) + 10 * (d(10) - 48) BY <1>1 DEF Value
  <2> QED BY <1>1, <1>3, <1>5, <2>1, <2>2 DEF Width
<1>6. CASE ~(n < 10) /\ ~(n < 100)
  <2>1. Decimal(n) = <<d(100), d(10), d(1)>> BY <1>2, <1>6
  <2>2. Value(<<d(100), d(10), d(1)>>)
          = (d(1) - 48) + 10 * (d(10) - 48) + 100 * (d(100) - 48)
    BY <1>1 DEF Value
  <2> QED BY <1>1, <1>3, <1>6, <2>1, <2>2 DEF Width
<1> QED BY <1>4, <1>5, <1>6

\* Where in the report its parts are.
LEMMA ReplyParts ==
  ASSUME NEW r, NEW c, r = Width(TermSize[1]), c = Width(TermSize[2])
  PROVE  /\ r \in 1..3 /\ c \in 1..3 /\ Len(Reply) = r + c + 4
         /\ Reply[1] = ESCSEQ /\ Reply[2] = LBRACKET
         /\ \A k \in 1..r : Reply[k + 2] = Decimal(TermSize[1])[k]
         /\ Reply[r + 3] = SEMI
         /\ \A k \in 1..c : Reply[r + 3 + k] = Decimal(TermSize[2])[k]
         /\ Reply[r + c + 4] = CAP_R
<1> DEFINE x == Decimal(TermSize[1])
           y == Decimal(TermSize[2])
<1>1. TermSize[1] \in Sizes /\ TermSize[2] \in Sizes BY TerminalSize
<1>2. x \in Seq(Int) /\ Len(x) = r /\ y \in Seq(Int) /\ Len(y) = c
  BY <1>1, DecimalRead
<1>3. r \in 1..3 /\ c \in 1..3 BY DEF Width
<1>4. Reply = <<ESCSEQ, LBRACKET>> \o x \o <<SEMI>> \o y \o <<CAP_R>> BY DEF Reply
<1>5. ESCSEQ \in Int /\ LBRACKET \in Int /\ SEMI \in Int /\ CAP_R \in Int
  BY DEF ESCSEQ, LBRACKET, SEMI, CAP_R
<1> HIDE DEF x, y
<1> DEFINE a == <<ESCSEQ, LBRACKET>> \o x
           b == a \o <<SEMI>>
           e == b \o y
<1>6. /\ a \in Seq(Int) /\ Len(a) = r + 2 /\ a[1] = ESCSEQ /\ a[2] = LBRACKET
      /\ \A k \in 1..r : a[k + 2] = x[k]
  BY <1>2, <1>3, <1>5
<1> HIDE DEF a
<1>7. /\ b \in Seq(Int) /\ Len(b) = r + 3 /\ b[r + 3] = SEMI
      /\ \A k \in 1..(r + 2) : b[k] = a[k]
  <2> DEFINE v == <<SEMI>>
  <2>1. v \in Seq(Int) /\ Len(v) = 1 /\ v[1] = SEMI BY <1>5
  <2> HIDE DEF v
  <2>2. /\ b \in Seq(Int) /\ Len(b) = Len(a) + Len(v)
        /\ \A k \in 1..Len(a) : b[k] = a[k]
        /\ \A k \in 1..Len(v) : b[Len(a) + k] = v[k]
    BY <1>6, <2>1, Joined DEF v
  <2>3. b[Len(a) + 1] = v[1] BY <2>1, <2>2
  <2>4. Len(a) + 1 = r + 3 /\ 1..Len(a) = 1..(r + 2) BY <1>3, <1>6
  <2> HIDE DEF b
  <2> QED BY <1>6, <2>1, <2>2, <2>3, <2>4
<1> HIDE DEF b
<1>8. /\ e \in Seq(Int) /\ Len(e) = r + c + 3
      /\ \A k \in 1..(r + 3) : e[k] = b[k]
      /\ \A k \in 1..c : e[r + 3 + k] = y[k]
  <2>0. b \in Seq(Int) /\ y \in Seq(Int) /\ e = b \o y BY <1>2, <1>7
  <2> HIDE DEF e
  <2>1. /\ e \in Seq(Int) /\ Len(e) = Len(b) + Len(y)
        /\ \A k \in 1..Len(b) : e[k] = b[k]
        /\ \A k \in 1..Len(y) : e[Len(b) + k] = y[k]
    BY <2>0, Joined, SMTT(20)
  <2> QED BY <1>2, <1>3, <1>7, <2>1
<1> HIDE DEF e
<1>9. Reply = e \o <<CAP_R>> BY <1>4 DEF a, b, e
<1>10. /\ Len(Reply) = r + c + 4 /\ Reply[r + c + 4] = CAP_R
       /\ \A k \in 1..(r + c + 3) : Reply[k] = e[k]
  <2> DEFINE v == <<CAP_R>>
  <2>1. v \in Seq(Int) /\ Len(v) = 1 /\ v[1] = CAP_R BY <1>5
  <2> HIDE DEF v
  <2>2. /\ Len(Reply) = Len(e) + Len(v)
        /\ \A k \in 1..Len(e) : Reply[k] = e[k]
        /\ \A k \in 1..Len(v) : Reply[Len(e) + k] = v[k]
    BY <1>8, <1>9, <2>1, Joined DEF v
  <2> QED BY <1>3, <1>8, <2>1, <2>2
<1>11. \A k \in 1..(r + 2) : Reply[k] = a[k]
  <2>1. ASSUME NEW k \in 1..(r + 2) PROVE Reply[k] = a[k]
    <3>1. k \in 1..(r + 3) /\ k \in 1..(r + c + 3) BY <1>3
    <3> QED BY <1>7, <1>8, <1>10, <3>1
  <2> QED BY <2>1
<1>12. Reply[1] = ESCSEQ /\ Reply[2] = LBRACKET BY <1>3, <1>6, <1>11
<1>13. \A k \in 1..r : Reply[k + 2] = x[k] BY <1>3, <1>6, <1>11
<1>14. Reply[r + 3] = SEMI
  <2>1. r + 3 \in 1..(r + 3) /\ r + 3 \in 1..(r + c + 3) BY <1>3
  <2> QED BY <1>7, <1>8, <1>10, <2>1
<1>15. \A k \in 1..c : Reply[r + 3 + k] = y[k]
  <2>1. ASSUME NEW k \in 1..c PROVE Reply[r + 3 + k] = y[k]
    <3>1. r + 3 + k \in 1..(r + c + 3) BY <1>3
    <3> QED BY <1>8, <1>10, <3>1
  <2> QED BY <2>1
<1> QED BY <1>3, <1>10, <1>12, <1>13, <1>14, <1>15 DEF x, y

\* Only the end of a report is an 'R'.
LEMMA ReportEnds ==
  ASSUME NEW k \in 1..Len(Reply)
  PROVE  Reply[k] = CAP_R <=> k = Len(Reply)
<1> DEFINE r == Width(TermSize[1])
           c == Width(TermSize[2])
<1>1. /\ r \in 1..3 /\ c \in 1..3 /\ Len(Reply) = r + c + 4
      /\ Reply[1] = ESCSEQ /\ Reply[2] = LBRACKET
      /\ \A j \in 1..r : Reply[j + 2] = Decimal(TermSize[1])[j]
      /\ Reply[r + 3] = SEMI
      /\ \A j \in 1..c : Reply[r + 3 + j] = Decimal(TermSize[2])[j]
      /\ Reply[r + c + 4] = CAP_R
  BY ReplyParts
<1>2. TermSize[1] \in Sizes /\ TermSize[2] \in Sizes BY TerminalSize
<1>3. /\ \A j \in 1..r : Decimal(TermSize[1])[j] \in Digit
      /\ \A j \in 1..c : Decimal(TermSize[2])[j] \in Digit
  BY <1>2, DecimalRead
<1> HIDE DEF r, c
<1>d. CAP_R \notin Digit BY DEF CAP_R, Digit
<1>4. \A j \in 1..r : Reply[j + 2] # CAP_R BY <1>1, <1>3, <1>d
<1>5. \A j \in 1..c : Reply[r + 3 + j] # CAP_R BY <1>1, <1>3, <1>d
<1>6. Reply[1] # CAP_R /\ Reply[2] # CAP_R /\ Reply[r + 3] # CAP_R
  BY <1>1 DEF CAP_R, ESCSEQ, LBRACKET, SEMI
<1>7. CASE k \in {1, 2, r + 3} BY <1>1, <1>6, <1>7
<1>8. CASE k \in 3..(r + 2)
  <2>1. k - 2 \in 1..r /\ (k - 2) + 2 = k BY <1>1, <1>8
  <2>2. Reply[k] # CAP_R BY <1>4, <2>1
  <2> QED BY <1>1, <1>8, <2>2
<1>9. CASE k \in (r + 4)..(r + c + 3)
  <2>1. k - r - 3 \in 1..c /\ r + 3 + (k - r - 3) = k BY <1>1, <1>9
  <2>2. Reply[k] # CAP_R BY <1>5, <2>1
  <2> QED BY <1>1, <1>9, <2>2
<1>10. CASE k = r + c + 4 BY <1>1, <1>10
<1> QED BY <1>1, <1>7, <1>8, <1>9, <1>10

\* sscanf() finds in a whole report the two numbers the terminal put there.
LEMMA ReportScanned ==
  ASSUME NEW s \in Seq(Byte), Len(s) = Len(Reply) - 1,
         \A k \in 1..Len(s) : s[k] = Reply[k], FinishReply(s)
  PROVE  pc' = "exit" \/ (screenrows' = TermSize[1] /\ screencols' = TermSize[2])
<1> DEFINE m == Width(TermSize[1])
           n == Width(TermSize[2])
           x == Decimal(TermSize[1])
           y == Decimal(TermSize[2])
<1>1. /\ m \in 1..3 /\ n \in 1..3 /\ Len(s) = m + n + 3
      /\ s[1] = ESCSEQ /\ s[2] = LBRACKET
      /\ \A j \in 1..m : s[j + 2] = x[j]
      /\ s[m + 3] = SEMI
      /\ \A j \in 1..n : s[m + 3 + j] = y[j]
  <2>1. /\ m \in 1..3 /\ n \in 1..3 /\ Len(Reply) = m + n + 4
        /\ Reply[1] = ESCSEQ /\ Reply[2] = LBRACKET
        /\ \A j \in 1..m : Reply[j + 2] = x[j]
        /\ Reply[m + 3] = SEMI
        /\ \A j \in 1..n : Reply[m + 3 + j] = y[j]
    BY ReplyParts
  <2> HIDE DEF m, n, x, y
  <2>2. Len(s) = m + n + 3 BY <2>1
  <2>3. \A k \in 1..(m + n + 3) : s[k] = Reply[k] BY <2>2
  <2>4. s[1] = ESCSEQ /\ s[2] = LBRACKET /\ s[m + 3] = SEMI
    <3>1. 1 \in 1..(m + n + 3) /\ 2 \in 1..(m + n + 3) /\ m + 3 \in 1..(m + n + 3)
      BY <2>1
    <3> QED BY <2>1, <2>3, <3>1
  <2>5. \A j \in 1..m : s[j + 2] = x[j]
    <3>1. \A j \in 1..m : j + 2 \in 1..(m + n + 3) BY <2>1
    <3> QED BY <2>1, <2>3, <3>1
  <2>6. \A j \in 1..n : s[m + 3 + j] = y[j]
    <3>1. \A j \in 1..n : m + 3 + j \in 1..(m + n + 3) BY <2>1
    <3> QED BY <2>1, <2>3, <3>1
  <2> QED BY <2>1, <2>2, <2>4, <2>5, <2>6
<1>2. TermSize[1] \in Sizes /\ TermSize[2] \in Sizes BY TerminalSize
<1>3. /\ x \in Seq(Int) /\ Len(x) = m /\ (\A j \in 1..m : x[j] \in Digit)
      /\ Value(x) = TermSize[1]
      /\ y \in Seq(Int) /\ Len(y) = n /\ (\A j \in 1..n : y[j] \in Digit)
      /\ Value(y) = TermSize[2]
  BY <1>2, DecimalRead
<1> HIDE DEF m, n, x, y
<1>4. CASE Die BY <1>4 DEF Die
<1>5. CASE \E r, c \in 1..Len(s) :
             /\ Scans(s, r, c)
             /\ SetSize(Value(SubSeq(s, 3, r + 2)), Value(SubSeq(s, r + 4, r + c + 3)))
  <2>1. PICK r \in 1..Len(s), c \in 1..Len(s) :
          /\ Scans(s, r, c)
          /\ SetSize(Value(SubSeq(s, 3, r + 2)), Value(SubSeq(s, r + 4, r + c + 3)))
    BY <1>5
  <2>2. /\ r + c + 3 <= m + n + 3 /\ s[r + 3] = SEMI
        /\ \A j \in 3..(r + 2) : s[j] \in Digit
        /\ \A j \in (r + 4)..(r + c + 3) : s[j] \in Digit
        /\ r + c + 3 < m + n + 3 => s[r + c + 4] \notin Digit
    BY <1>1, <2>1 DEF Scans
  <2>3. SEMI \notin Digit BY DEF SEMI, Digit
  <2>4. r = m
    <3>1. ASSUME r < m PROVE FALSE
      <4> DEFINE j == r + 1
      <4>1. j \in 1..m /\ j + 2 = r + 3 BY <1>1, <3>1
      <4> HIDE DEF j
      <4>2. s[j + 2] \in Digit BY <1>1, <1>3, <4>1
      <4> QED BY <2>2, <2>3, <4>1, <4>2
    <3>2. ASSUME m < r PROVE FALSE
      <4>1. m + 3 \in 3..(r + 2) BY <1>1, <3>2
      <4> QED BY <1>1, <2>2, <2>3, <4>1
    <3> QED BY <1>1, <3>1, <3>2
  <2>5. c = n
    <3>1. ASSUME c < n PROVE FALSE
      <4>1. c + 1 \in 1..n /\ m + 3 + (c + 1) = r + c + 4 BY <1>1, <2>4, <3>1
      <4>2. s[r + c + 4] \in Digit BY <1>1, <1>3, <4>1
      <4>3. r + c + 3 < m + n + 3 BY <1>1, <2>4, <3>1
      <4> QED BY <2>2, <4>2, <4>3
    <3> QED BY <1>1, <2>2, <2>4, <3>1
  <2>6. SubSeq(s, 3, m + 2) = x
    <3> DEFINE t == SubSeq(s, 3, m + 2)
    <3>1. \A j \in 3..(m + 2) : s[j] \in Int
      <4>1. \A j \in 3..(m + 2) : j \in 1..Len(s) BY <1>1
      <4>2. \A j \in 1..Len(s) : s[j] \in Byte OBVIOUS
      <4>3. \A b \in Byte : b \in Int BY DEF Byte
      <4> QED BY <4>1, <4>2, <4>3, Zenon
    <3>2. /\ t \in Seq(Int) /\ Len(t) = m /\ \A j \in 1..m : t[j] = s[3 + j - 1]
      <4> DEFINE to == m + 2
      <4>1. to \in Int /\ 3 <= to /\ to - 3 + 1 = m /\ \A j \in 3..to : s[j] \in Int
        BY <1>1, <3>1
      <4> HIDE DEF to
      <4>2. /\ SubSeq(s, 3, to) \in Seq(Int)
            /\ Len(SubSeq(s, 3, to)) = IF 3 <= to THEN to - 3 + 1 ELSE 0
            /\ \A j \in 1..(to - 3 + 1) : SubSeq(s, 3, to)[j] = s[3 + j - 1]
        BY <4>1, SubSeqProperties
      <4> QED BY <4>1, <4>2 DEF to
    <3> HIDE DEF t
    <3>3. \A j \in 1..m : t[j] = x[j]
      <4>1. \A j \in 1..m : 3 + j - 1 = j + 2 OBVIOUS
      <4> QED BY <1>1, <3>2, <4>1
    <3>4. t = x BY <1>3, <3>2, <3>3, SeqEqual
    <3> QED BY <3>4 DEF t
  <2>7. SubSeq(s, m + 4, m + n + 3) = y
    <3> DEFINE from == m + 4
               to == m + n + 3
               t == SubSeq(s, from, to)
    <3>1. \A j \in from..to : s[j] \in Int
      <4>1. \A j \in from..to : j \in 1..Len(s) BY <1>1
      <4>2. \A j \in 1..Len(s) : s[j] \in Byte OBVIOUS
      <4>3. \A b \in Byte : b \in Int BY DEF Byte
      <4> QED BY <4>1, <4>2, <4>3, Zenon
    <3>2. from \in Int /\ to \in Int /\ from <= to /\ to - from + 1 = n BY <1>1
    <3>3. \A j \in 1..n : from + j - 1 = m + 3 + j BY <1>1
    <3> HIDE DEF from, to
    <3>4. /\ t \in Seq(Int) /\ Len(t) = IF from <= to THEN to - from + 1 ELSE 0
          /\ \A j \in 1..(to - from + 1) : t[j] = s[from + j - 1]
      BY <3>1, <3>2, SubSeqProperties
    <3> HIDE DEF t
    <3>5. \A j \in 1..n : t[j] = y[j] BY <1>1, <3>2, <3>3, <3>4
    <3>6. t \in Seq(Int) /\ Len(t) = n BY <3>2, <3>4
    <3>7. t = y BY <1>3, <3>5, <3>6, SeqEqual
    <3> QED BY <3>7 DEF t, from, to
  <2>8. SetSize(Value(x), Value(y)) BY <2>1, <2>4, <2>5, <2>6, <2>7
  <2> QED BY <1>3, <2>8 DEF SetSize
<1> QED BY <1>4, <1>5 DEF FinishReply

-----------------------------------------------------------------------------
(* The window the editor works with.                                       *)

\* While the report is being read, and with nothing typed ahead of it, what
\* was read, what can be read and what is on its way make up the report.
Reading ==
  /\ Len(buf) + Len(input) + Len(wire) = Len(Reply)
  /\ \A k \in 1..Len(buf) : buf[k] = Reply[k] /\ buf[k] # CAP_R
  /\ \A k \in 1..Len(input) : input[k] = Reply[Len(buf) + k]
  /\ \A k \in 1..Len(wire) : wire[k] = Reply[Len(buf) + Len(input) + k]

Sound == doubt \cap {"gap", "ahead"} = {}

ReportInv ==
  Sound => /\ pc \in {"enableRawMode", "getWindowSize"} => wire = << >> /\ input = << >>
           /\ pc = "getCursorPosition" => Reading

\* After a whole frame the terminal's cursor is the editor's.
PlacedInv == pc = "readKey" /\ "frame" \notin doubt => term.at = <<cy + 1, cx + 1>>

WindowInv == IInv /\ SizeFromReport /\ ReportInv /\ PlacedInv

\* In the main loop a step that leaves the size alone keeps all this, unless
\* it is the one that places the cursor.
LEMMA LoopKeeps ==
  ASSUME SizeFromReport, UNCHANGED <<screenrows, screencols>>, doubt \subseteq doubt',
         pc \notin {"enableRawMode"} \cup Sizing \cup Ending \/ pc' \in Ending,
         pc' \notin {"enableRawMode"} \cup Sizing
  PROVE  SizeFromReport' /\ ReportInv'
BY DEF SizeFromReport, ReportInv, Sizing, Ending

\* A byte that arrives is the next one of the report.
LEMMA DeliverReport ==
  ASSUME TypeOK, Reading, Deliver
  PROVE  Reading'
<1>1. /\ input \in Seq(Byte) /\ wire \in Seq(Byte) /\ wire # << >>
      /\ input' = Append(input, Head(wire)) /\ wire' = Tail(wire) /\ buf' = buf
  BY DEF TypeOK, Deliver
<1>2. /\ Len(input) \in Nat /\ Len(wire) \in Nat \ {0} /\ Len(buf) \in Nat
      /\ wire[1] \in Byte
  BY <1>1 DEF TypeOK
<1>3. /\ Len(input') = Len(input) + 1 /\ Len(wire') = Len(wire) - 1
      /\ \A k \in 1..Len(input) : input'[k] = input[k]
      /\ input'[Len(input) + 1] = wire[1]
      /\ \A k \in 1..Len(wire') : wire'[k] = wire[k + 1]
  BY <1>1, <1>2
<1>4. Len(buf') + Len(input') + Len(wire') = Len(Reply) BY <1>1, <1>2, <1>3 DEF Reading
<1>5. ASSUME NEW k \in 1..Len(input') PROVE input'[k] = Reply[Len(buf) + k]
  <2>1. CASE k \in 1..Len(input) BY <1>3, <2>1 DEF Reading
  <2>2. CASE k = Len(input) + 1
    <3>1. 1 \in 1..Len(wire) /\ Len(buf) + Len(input) + 1 = Len(buf) + k BY <1>2, <2>2
    <3> QED BY <1>3, <2>2, <3>1 DEF Reading
  <2> QED BY <1>2, <1>3, <2>1, <2>2
<1>6. ASSUME NEW k \in 1..Len(wire') PROVE wire'[k] = Reply[Len(buf) + Len(input') + k]
  <2>1. k + 1 \in 1..Len(wire) /\ Len(buf) + Len(input) + (k + 1) = Len(buf) + Len(input') + k
    BY <1>2, <1>3
  <2>2. wire[k + 1] = Reply[Len(buf) + Len(input) + (k + 1)] BY <2>1 DEF Reading
  <2> QED BY <1>3, <2>1, <2>2
<1> QED BY <1>1, <1>4, <1>5, <1>6 DEF Reading

\* A byte of the report that is not its last goes into the buffer; the last
\* one, or a read() that finds the line idle, ends a report that is whole.
LEMMA GetCursorPositionKeeps ==
  ASSUME WindowInv, GetCursorPosition
  PROVE  SizeFromReport' /\ ReportInv'
<1>0. /\ TypeOK /\ pc = "getCursorPosition" /\ UNCHANGED wire
      /\ buf \in Seq(Byte) /\ input \in Seq(Byte) /\ wire \in Seq(Byte)
      /\ Len(buf) \in Nat /\ Len(input) \in Nat /\ Len(wire) \in Nat
  BY DEF WindowInv, IInv, TypeOK, GetCursorPosition
<1>1. doubt \subseteq doubt' BY DEF GetCursorPosition, NoByte
<1>2. ASSUME NEW s, FinishReply(s) PROVE pc' \in {"exit", "refresh"}
  BY <1>2 DEF FinishReply, Die, SetSize
<1>3. CASE ~(Sound')
  <2>1. pc' \in Sizing \cup Ending \/ doubt' \cap {"gap", "ahead"} # {}
    BY <1>3 DEF Sound
  <2> QED BY <1>3, <2>1 DEF SizeFromReport, ReportInv, Sound
<1>4. ASSUME pc' = "exit" \/ (pc' = "refresh" /\ screenrows' = TermSize[1]
                               /\ screencols' = TermSize[2])
      PROVE  SizeFromReport' /\ ReportInv'
  <2>1. TermSize = <<TermSize[1], TermSize[2]>> BY KiloAssumption
  <2> QED BY <1>4, <2>1 DEF SizeFromReport, ReportInv, Ending
<1>5. CASE Sound'
  <2>1. Sound BY <1>1, <1>5 DEF Sound
  <2>2. Reading BY <1>0, <2>1 DEF WindowInv, ReportInv
  <2>3. Len(Reply) \in Nat /\ Len(Reply) > 0 BY <1>0, ReplyParts DEF Width
  <2>4. CASE FinishReply(buf) /\ NoByte /\ UNCHANGED <<buf, input>>
    <3>1. input \o wire = << >> BY <1>5, <2>4 DEF NoByte, Sound
    <3>2. Len(input) = 0 /\ Len(wire) = 0
      <4>1. Len(input \o wire) = Len(input) + Len(wire) BY <1>0
      <4>2. Len(input \o wire) = 0 BY <3>1
      <4> QED BY <1>0, <4>1, <4>2
    <3>3. Len(buf) = Len(Reply) BY <1>0, <2>2, <3>2 DEF Reading
    <3>4. Len(Reply) \in 1..Len(buf) /\ Len(Reply) \in 1..Len(Reply) BY <2>3, <3>3
    <3>5. Reply[Len(Reply)] # CAP_R BY <2>2, <3>4 DEF Reading
    <3> QED BY <3>4, <3>5, ReportEnds
  <2>5. CASE input # << >> /\ input' = Tail(input)
    <3> DEFINE b == Head(input)
    <3>1. /\ b = input[1] /\ b \in Byte /\ Len(input) >= 1
          /\ Len(input') = Len(input) - 1
          /\ \A k \in 1..Len(input') : input'[k] = input[k + 1]
      BY <1>0, <2>5
    <3> HIDE DEF b
    <3>2. /\ b = Reply[Len(buf) + 1] /\ Len(buf) + 1 \in 1..Len(Reply)
      BY <1>0, <2>2, <3>1 DEF Reading
    <3>3. b = CAP_R <=> Len(buf) + 1 = Len(Reply) BY <3>2, ReportEnds
    <3>4. CASE b = CAP_R /\ FinishReply(buf)
      <4>1. Len(buf) = Len(Reply) - 1 BY <1>0, <2>3, <3>3, <3>4
      <4>2. \A k \in 1..Len(buf) : buf[k] = Reply[k] BY <2>2 DEF Reading
      <4>3. pc' = "exit" \/ (screenrows' = TermSize[1] /\ screencols' = TermSize[2])
        BY <1>0, <3>4, <4>1, <4>2, ReportScanned
      <4> QED BY <1>2, <1>4, <3>4, <4>3
    <3>5. CASE b # CAP_R /\ Len(buf) + 1 = BufSize - 1
      <4>1. Len(buf) + 1 < Len(Reply) BY <1>0, <2>3, <3>2, <3>3, <3>5
      <4>2. BufSize \in Nat /\ BufSize > Len(Reply) BY KiloAssumption, ReportFits
      <4> QED BY <1>0, <2>3, <3>5, <4>1, <4>2
    <3>6. CASE b # CAP_R /\ buf' = Append(buf, b) /\ UNCHANGED pc
      <4>1. /\ Len(buf') = Len(buf) + 1 /\ buf'[Len(buf) + 1] = b
            /\ \A k \in 1..Len(buf) : buf'[k] = buf[k]
        BY <1>0, <3>1, <3>6
      <4>2. \A k \in 1..Len(buf') : buf'[k] = Reply[k] /\ buf'[k] # CAP_R
        <5>1. \A k \in 1..Len(buf') : k = Len(buf) + 1 \/ k \in 1..Len(buf) BY <1>0, <4>1
        <5> QED BY <2>2, <3>2, <3>6, <4>1, <5>1 DEF Reading
      <4>3. ASSUME NEW k \in 1..Len(input') PROVE input'[k] = Reply[Len(buf') + k]
        <5>1. k + 1 \in 1..Len(input) /\ Len(buf) + (k + 1) = Len(buf') + k
          BY <1>0, <3>1, <4>1
        <5>2. input[k + 1] = Reply[Len(buf) + (k + 1)] BY <2>2, <5>1 DEF Reading
        <5> QED BY <3>1, <5>1, <5>2
      <4>4. Len(buf') + Len(input') = Len(buf) + Len(input) BY <1>0, <3>1, <4>1
      <4>5. Reading' BY <1>0, <2>2, <4>2, <4>3, <4>4 DEF Reading
      <4> QED BY <1>0, <3>6, <4>5 DEF SizeFromReport, ReportInv, Sizing
    <3> QED BY <2>4, <3>4, <3>5, <3>6 DEF GetCursorPosition, b
  <2> QED BY <2>4, <2>5 DEF GetCursorPosition
<1> QED BY <1>3, <1>5

\* Every step keeps the window and the place of the cursor.
LEMMA NextWindow == WindowInv /\ [Next]_vars => WindowInv'
<1> SUFFICES ASSUME WindowInv, [Next]_vars
             PROVE  SizeFromReport' /\ ReportInv' /\ PlacedInv'
  BY NextIInv DEF WindowInv
<1>0. /\ TypeOK /\ SizeFromReport /\ ReportInv /\ PlacedInv
      /\ input \in Seq(Byte) /\ wire \in Seq(Byte)
  BY DEF WindowInv, IInv, TypeOK
<1>1. CASE EnableRawMode
  <2>1. /\ pc = "enableRawMode" /\ pc' \in {"exit", "getWindowSize"}
        /\ UNCHANGED <<wire, doubt>> /\ (input' = input \/ input' = << >>)
    BY <1>1 DEF EnableRawMode, Die
  <2>2. SizeFromReport' BY <2>1 DEF SizeFromReport, Sizing, Ending
  <2>3. ReportInv' BY <1>0, <2>1 DEF ReportInv, Sound
  <2> QED BY <2>1, <2>2, <2>3 DEF PlacedInv
<1>2. CASE GetWindowSize
  <2>1. pc = "getWindowSize" /\ UNCHANGED <<input, doubt>> BY <1>2 DEF GetWindowSize
  <2>2. CASE \E ws \in WinSizes : SetSize(ws[1], ws[2])
    <3>1. PICK ws \in WinSizes : SetSize(ws[1], ws[2]) BY <2>2
    <3>2. ws = <<ws[1], ws[2]>> BY KiloAssumption
    <3>3. pc' = "refresh" /\ <<screenrows', screencols'>> \in WinSizes
      BY <3>1, <3>2 DEF SetSize
    <3> QED BY <3>3 DEF SizeFromReport, ReportInv, PlacedInv
  <2>3. CASE Die BY <2>3 DEF Die, SizeFromReport, ReportInv, PlacedInv, Ending
  <2>4. CASE wire' = wire \o Reply /\ buf' = << >> /\ pc' = "getCursorPosition"
    <3>1. Sound => Reading'
      <4> SUFFICES ASSUME Sound PROVE Reading' OBVIOUS
      <4>1. wire = << >> /\ input = << >> BY <1>0, <2>1 DEF ReportInv
      <4>2. wire' = Reply BY <2>4, <4>1, ReplyType
      <4>3. Len(buf') = 0 /\ Len(input') = 0 /\ Len(Reply) \in Nat
        BY <2>1, <2>4, <4>1, ReplyType
      <4>4. Len(buf') + Len(input') + Len(wire') = Len(Reply) BY <4>2, <4>3
      <4>5. \A k \in 1..Len(wire') : Len(buf') + Len(input') + k = k BY <4>3
      <4>6. /\ 1..Len(buf') = {} /\ 1..Len(input') = {} BY <4>3
      <4> QED BY <4>2, <4>4, <4>5, <4>6 DEF Reading
    <3>2. Sound' = Sound BY <2>1 DEF Sound
    <3> QED BY <2>4, <3>1, <3>2 DEF SizeFromReport, ReportInv, PlacedInv, Sizing
  <2> QED BY <1>2, <2>2, <2>3, <2>4 DEF GetWindowSize
<1>3. CASE GetCursorPosition
  <2>1. pc' # "readKey"
    BY <1>3 DEF GetCursorPosition, FinishReply, SetSize, Die
  <2> QED BY <1>3, <2>1, GetCursorPositionKeeps DEF PlacedInv
<1>4. CASE RefreshScreen
  <2>1. PICK lost \in SUBSET {"hide", "home", "rows", "move", "show"} :
          /\ term' = [shown |-> IF "show" \in lost
                               THEN "hide" \in lost /\ term.shown ELSE TRUE,
                      at |-> IF "move" \in lost THEN term.at
                             ELSE <<cy + 1, cx + 1>>]
          /\ doubt' = IF lost = {} THEN doubt ELSE doubt \cup {"frame"}
    BY <1>4 DEF RefreshScreen
  <2>2. pc = "refresh" /\ pc' = "readKey" /\ UNCHANGED <<cx, cy, screenrows, screencols>>
    BY <1>4 DEF RefreshScreen, editor
  <2>3. "frame" \notin doubt' => lost = {} BY <2>1
  <2>4. lost = {} => term'.at = <<cy + 1, cx + 1>> BY <2>1
  <2>5. PlacedInv' BY <2>2, <2>3, <2>4 DEF PlacedInv
  <2>6. doubt \subseteq doubt' BY <2>1
  <2> QED BY <1>0, <2>2, <2>5, <2>6, LoopKeeps DEF Sizing, Ending
<1>n. NoByte => doubt \subseteq doubt' BY DEF NoByte
<1>p. ASSUME NEW key, ProcessKeypress(key), doubt \subseteq doubt',
             pc \in {"readKey", "seq0", "seq1"}
      PROVE  SizeFromReport' /\ ReportInv' /\ PlacedInv'
  <2>1. pc' \in {"exit", "refresh"} /\ UNCHANGED <<screenrows, screencols>>
    BY <1>p DEF ProcessKeypress
  <2> QED BY <1>0, <1>p, <2>1, LoopKeeps DEF PlacedInv, Sizing, Ending
<1>5. CASE ReadKey
  <2>1. CASE Head(input) = ESCSEQ
    BY <1>0, <1>5, <2>1, LoopKeeps DEF ReadKey, editor, PlacedInv, Sizing, Ending
  <2>2. CASE Head(input) # ESCSEQ BY <1>5, <1>p, <2>2 DEF ReadKey
  <2> QED BY <2>1, <2>2
<1>6. CASE ReadKeyFails
  BY <1>0, <1>6, LoopKeeps DEF ReadKeyFails, Die, editor, PlacedInv, Sizing, Ending
<1>7. CASE ReadSeq0
  <2>1. CASE pc' = "seq1" /\ UNCHANGED <<editor, doubt>>
    BY <1>0, <1>7, <2>1, LoopKeeps DEF ReadSeq0, editor, PlacedInv, Sizing, Ending
  <2>2. CASE ProcessKeypress(ESCSEQ) /\ NoByte BY <1>7, <1>n, <1>p, <2>2 DEF ReadSeq0
  <2> QED BY <1>7, <2>1, <2>2 DEF ReadSeq0
<1>8. CASE ReadSeq1
  <2>1. CASE ProcessKeypress(ArrowOf(seq0, Head(input))) /\ UNCHANGED doubt
    BY <1>8, <1>p, <2>1 DEF ReadSeq1
  <2>2. CASE ProcessKeypress(ESCSEQ) /\ NoByte BY <1>8, <1>n, <1>p, <2>2 DEF ReadSeq1
  <2> QED BY <1>8, <2>1, <2>2 DEF ReadSeq1
<1>9. CASE Exit
  <2>1. pc' = "exited" /\ UNCHANGED editor BY <1>9 DEF Exit
  <2>2. doubt \subseteq doubt'
    <3>1. doubt' = doubt \/ doubt' = doubt \cup {"restore"} BY <1>9 DEF Exit
    <3> QED BY <3>1
  <2> QED BY <1>0, <2>1, <2>2, LoopKeeps DEF editor, PlacedInv, Sizing, Ending
<1>10. CASE Deliver
  <2>1. UNCHANGED <<pc, editor, term, doubt>> /\ pc \notin Ending /\ wire # << >>
    BY <1>10 DEF Deliver
  <2>2. SizeFromReport' /\ PlacedInv' BY <1>0, <2>1 DEF SizeFromReport, PlacedInv, editor
  <2>3. Sound' = Sound BY <2>1 DEF Sound
  <2>4. ReportInv' BY <1>0, <1>10, <2>1, <2>3, DeliverReport DEF ReportInv
  <2> QED BY <2>2, <2>4
<1>11. ASSUME NEW k \in Keys, PressKey(k)
       PROVE  SizeFromReport' /\ ReportInv' /\ PlacedInv'
  <2>1. /\ UNCHANGED <<pc, editor, term>> /\ pc # "enableRawMode"
        /\ doubt' = IF pc \in Sizing THEN doubt \cup {"ahead"} ELSE doubt
    BY <1>11 DEF PressKey
  <2>2. SizeFromReport' /\ PlacedInv' BY <1>0, <2>1 DEF SizeFromReport, PlacedInv, editor
  <2>3. ReportInv' BY <2>1 DEF ReportInv, Sound, Sizing
  <2> QED BY <2>2, <2>3
<1>12. CASE UNCHANGED vars
  BY <1>0, <1>12 DEF vars, editor, SizeFromReport, ReportInv, Reading, Sound, PlacedInv
<1> QED BY <1>1, <1>2, <1>3, <1>4, <1>5, <1>6, <1>7, <1>8, <1>9, <1>10, <1>11,
           <1>12 DEF Next, Editor, Exited

\* With the terminal's own size, and room for the message, no row wraps.
LEMMA FrameLinesFit ==
  ASSUME screenrows = TermSize[1], screencols = TermSize[2], screencols >= WelcomeLen
  PROVE  FrameLines = TermSize[1]
<1> DEFINE R == TermSize[1]
           C == TermSize[2]
           rows == 0..(R - 1)
           newlines == {y \in rows : NewlineAfter(y)}
           wraps(y) == {<<y, k>> : k \in 1..((RowWidth(y) - 1) \div C)}
<1>1. R \in Nat /\ R >= 1 /\ C \in Nat /\ C >= 1 /\ WelcomeLen \in Nat /\ WelcomeLen >= 1
  BY KiloAssumption, TerminalSize
<1>2. FrameLines = 1 + Cardinality(newlines) + Cardinality(UNION {wraps(y) : y \in rows})
  BY DEF FrameLines
<1>3. Min({WelcomeLen, C}) = WelcomeLen
  <2>1. \E x \in {WelcomeLen, C} : \A y \in {WelcomeLen, C} : x <= y BY <1>1
  <2>2. /\ Min({WelcomeLen, C}) \in {WelcomeLen, C}
        /\ \A y \in {WelcomeLen, C} : Min({WelcomeLen, C}) <= y
    BY <2>1 DEF Min
  <2> QED BY <1>1, <2>2
<1>4. ASSUME NEW y \in rows PROVE RowWidth(y) - 1 \in 0..(C - 1)
  <2>1. CASE y = screenrows \div 3
    <3>1. RowWidth(y) = (C - WelcomeLen) \div 2 + WelcomeLen
      BY <1>3, <2>1 DEF RowWidth
    <3>2. (C - WelcomeLen) \div 2 \in 0..(C - WelcomeLen) BY <1>1
    <3> QED BY <1>1, <3>1, <3>2
  <2>2. CASE y # screenrows \div 3 BY <1>1, <2>2 DEF RowWidth
  <2> QED BY <2>1, <2>2
<1>5. ASSUME NEW y \in rows PROVE wraps(y) = {}
  <2> DEFINE w == RowWidth(y) - 1
  <2>1. w \in 0..(C - 1) BY <1>4
  <2> HIDE DEF w
  <2>2. w \div C = 0
    <3>1. ASSUME NEW a \in Nat, NEW b \in Nat, a < b PROVE a \div b = 0
      <4>1. /\ a \div b \in Nat /\ a % b \in 0..(b - 1) /\ a = b * (a \div b) + (a % b)
        BY <3>1
      <4> DEFINE q == a \div b
      <4> HIDE DEF q
      <4>2. ASSUME q >= 1 PROVE FALSE
        <5>1. b * q >= b
          <6>1. q - 1 \in Nat BY <4>1, <4>2 DEF q
          <6>2. b * q = b * (q - 1) + b BY <4>1 DEF q
          <6>3. b * (q - 1) \in Nat BY <6>1
          <6> QED BY <6>2, <6>3
        <5> QED BY <3>1, <4>1, <5>1 DEF q
      <4> QED BY <4>1, <4>2 DEF q
    <3> QED BY <1>1, <2>1, <3>1
  <2>3. 1..(w \div C) = {} BY <2>2
  <2> QED BY <2>3 DEF w
<1>6. Cardinality(UNION {wraps(y) : y \in rows}) = 0
  <2>1. UNION {wraps(y) : y \in rows} = {} BY <1>5
  <2> QED BY <2>1, FS_EmptySet
<1>7. Cardinality(newlines) = R - 1
  <2>1. newlines = 0..(R - 2) BY <1>1 DEF NewlineAfter
  <2> DEFINE last == R - 2
  <2>2. last \in Int BY <1>1
  <2> HIDE DEF last
  <2>3. Cardinality(0..last) = IF 0 > last THEN 0 ELSE last - 0 + 1
    BY <2>2, FS_Interval
  <2>4. (IF 0 > last THEN 0 ELSE last - 0 + 1) = R - 1 BY <1>1 DEF last
  <2> HIDE DEF newlines
  <2> QED BY <2>1, <2>3, <2>4 DEF last
<1> HIDE DEF newlines, wraps, rows
<1> QED BY <1>1, <1>2, <1>6, <1>7

\* For every terminal, keyboard and number of keys, the editor's cursor stays
\* in its window, a size taken from an undisturbed report is the terminal's,
\* and a frame drawn with the terminal's size does not scroll it.
THEOREM WindowIsKept == Spec => []WindowKept
<1>1. Init => WindowInv
  <2>1. Init => SizeFromReport /\ ReportInv /\ PlacedInv
    BY DEF Init, SizeFromReport, ReportInv, PlacedInv
  <2> QED BY <2>1, InitIInv DEF WindowInv
<1>2. WindowInv => WindowKept
  <2> SUFFICES ASSUME WindowInv, pc = "readKey", "frame" \notin doubt,
                      <<screenrows, screencols>> = TermSize, screencols >= WelcomeLen
               PROVE  /\ FrameLines <= TermSize[1]
                      /\ term.at = <<cy + 1, cx + 1>>
                      /\ cy + 1 <= TermSize[1] /\ cx + 1 <= TermSize[2]
    BY DEF WindowInv, IInv, WindowKept, FrameFits
  <2>1. screenrows = TermSize[1] /\ screencols = TermSize[2] BY KiloAssumption
  <2>2. TermSize[1] \in Nat \ {0} /\ TermSize[2] \in Nat \ {0} BY TerminalSize
  <2>3. FrameLines <= TermSize[1] BY <2>1, <2>2, FrameLinesFit
  <2>4. cx \in Int /\ cy \in Int /\ CursorOnScreen BY DEF WindowInv, IInv, TypeOK
  <2>5. cy + 1 <= TermSize[1] /\ cx + 1 <= TermSize[2]
    BY <2>1, <2>2, <2>4 DEF CursorOnScreen
  <2> QED BY <2>3, <2>5 DEF WindowInv, PlacedInv
<1> QED BY <1>1, <1>2, NextWindow, PTL DEF Spec

=============================================================================
