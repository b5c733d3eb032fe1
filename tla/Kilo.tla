-------------------------------- MODULE Kilo --------------------------------
(***************************************************************************)
(* The kilo editor (src/stage0/kilo/kilo.c) together with the terminal it  *)
(* talks to.  The editor puts the terminal in raw mode, finds out the      *)
(* window size (by ioctl, or by asking the terminal where its cursor is),  *)
(* and then alternates between drawing a frame and reading one key.        *)
(*                                                                         *)
(* Bytes are their codes (the sign char gives them is never looked at).    *)
(* What the terminal sends, key presses and the cursor position report,    *)
(* travels on "wire" and reaches the tty input queue "input" one byte at a *)
(* time, so that read() can time out in the middle of an escape sequence   *)
(* (VMIN = 0, VTIME = 1).                                                  *)
(***************************************************************************)
EXTENDS Integers, Sequences, FiniteSets, SequencesExt, FiniteSetsExt

CONSTANTS
  Keys,        \* the byte sequences the keyboard sends, one per key
  MaxKeys,     \* bound: key presses in a behaviour
  WinSizes,    \* the <<ws_row, ws_col>> that TIOCGWINSZ may report
  TermSize,    \* the <<rows, columns>> the terminal really has
  WelcomeLen,  \* length of the welcome message
  BufSize      \* sizeof(buf) in getCursorPosition

Byte == 0..255
ESCSEQ   == 27
LBRACKET == 91
SEMI     == 59
CAP_R    == 82
CTRL_Q   == 17                  \* CTRL_KEY('q')
Digit    == 48..57

ARROW_LEFT  == 1000
ARROW_RIGHT == 1001
ARROW_UP    == 1002
ARROW_DOWN  == 1003

ASSUME KiloAssumption ==
  /\ Keys \subseteq Seq(Byte) /\ \A k \in Keys : k # << >>
  /\ MaxKeys \in Nat
  /\ WinSizes \subseteq Nat \X Nat
  /\ TermSize \in (1..999) \X (1..999)
  /\ WelcomeLen \in Nat \ {0}
  /\ BufSize \in Nat \ {0, 1}

VARIABLES
  pc,          \* where the editor is: the function it is about to run
  tty,         \* terminal attributes: "cooked" (as found) or "raw"
  atexit,      \* is disableRawMode registered?
  status,      \* the argument of exit()
  wire, input, \* bytes on their way, and bytes read() can return
  buf,         \* buf[0..i-1] of getCursorPosition
  seq0,        \* seq[0] of editorReadKey
  cx, cy, screenrows, screencols,   \* the editorConfig E
  term,        \* the terminal's cursor: [shown, at]
  typed, decoded,  \* history: keys pressed, keys editorReadKey returned
  doubt        \* history: what went wrong outside the editor

editor   == <<cx, cy, screenrows, screencols>>
vars     == <<pc, tty, atexit, status, wire, input, buf, seq0, editor, term,
              typed, decoded, doubt>>

Doubts == {"gap", "ahead", "frame", "restore"}
Sizing == {"getWindowSize", "getCursorPosition"}
Ending == {"exit", "exited"}
Locations == {"enableRawMode", "refresh", "readKey", "seq0", "seq1"}
               \cup Sizing \cup Ending

Init ==
  /\ pc = "enableRawMode" /\ tty = "cooked" /\ atexit = FALSE /\ status = 0
  /\ wire = << >> /\ input = << >> /\ buf = << >> /\ seq0 = 0
  /\ cx = 0 /\ cy = 0 /\ screenrows = 0 /\ screencols = 0
  /\ term = [shown |-> TRUE, at |-> <<1, 1>>]
  /\ typed = << >> /\ decoded = << >> /\ doubt = {}

-----------------------------------------------------------------------------
(* Terminal set-up.                                                        *)

\* CLEAR_SCREEN, CURSOR_TOPLEFT
ClearScreen == term' = [term EXCEPT !.at = <<1, 1>>]

\* die(): clear the screen, report, exit(1).  The exit handlers run in Exit.
Die == ClearScreen /\ pc' = "exit" /\ status' = 1

\* A slip: the exit handler is not registered.
EnableRawModeNoHandler ==
  /\ pc = "enableRawMode"
  /\ \/ Die /\ UNCHANGED <<tty, atexit, input>>
     \/ /\ tty' = "raw" /\ input' = << >> /\ pc' = "getWindowSize"
        /\ UNCHANGED <<status, atexit, term>>
  /\ UNCHANGED <<wire, buf, seq0, editor, typed, decoded, doubt>>

\* tcgetattr may fail (no handler yet), tcsetattr may fail (handler is in
\* place); TCSAFLUSH discards what was typed before.
EnableRawMode ==
  /\ pc = "enableRawMode"
  /\ \/ Die /\ UNCHANGED <<tty, atexit, input>>
     \/ /\ atexit' = TRUE
        /\ \/ Die /\ UNCHANGED <<tty, input>>
           \/ /\ tty' = "raw" /\ input' = << >> /\ pc' = "getWindowSize"
              /\ UNCHANGED <<status, term>>
  /\ UNCHANGED <<wire, buf, seq0, editor, typed, decoded, doubt>>

\* A coordinate in decimal, and back (the cursor moves by at most 999).
Decimal(n) ==
  LET d(k) == 48 + ((n \div k) % 10)
  IN  IF n < 10 THEN <<d(1)>> ELSE IF n < 100 THEN <<d(10), d(1)>>
      ELSE <<d(100), d(10), d(1)>>

Value(s) ==
  LET d(k) == IF k < Len(s) THEN s[Len(s) - k] - 48 ELSE 0
  IN  d(0) + 10 * d(1) + 100 * d(2)

\* The terminal's cursor position report, sent when the cursor is in the
\* bottom right corner.
Reply == <<ESCSEQ, LBRACKET>> \o Decimal(TermSize[1]) \o <<SEMI>>
           \o Decimal(TermSize[2]) \o <<CAP_R>>

\* A report is at most 10 bytes long, and sizeof(buf) is 32.
ASSUME ReportFits == BufSize > Len(Reply)

SetSize(rows, cols) ==
  /\ screenrows' = rows /\ screencols' = cols
  /\ cx' = 0 /\ cy' = 0
  /\ pc' = "refresh" /\ UNCHANGED <<status, term>>

GetWindowSize ==
  /\ pc = "getWindowSize"
  /\ \/ /\ \E ws \in WinSizes : ws[2] # 0 /\ SetSize(ws[1], ws[2])
        /\ UNCHANGED <<wire, buf>>
     \/ /\ Die                      \* fallback, and a write() fell short
        /\ UNCHANGED <<wire, buf, editor>>
     \/ /\ wire' = wire \o Reply    \* fallback, the terminal is asked
        /\ term' = [term EXCEPT !.at = TermSize]
        /\ buf' = << >> /\ pc' = "getCursorPosition"
        /\ UNCHANGED <<status, editor>>
  /\ UNCHANGED <<tty, atexit, input, seq0, typed, decoded, doubt>>

\* buf holds "ESC [", then r digits, a semicolon and c digits, as far as
\* sscanf("%d;%d") can go; what follows them is ignored.
Scans(s, r, c) ==
  /\ r + c + 3 <= Len(s)
  /\ s[1] = ESCSEQ /\ s[2] = LBRACKET /\ s[r + 3] = SEMI
  /\ \A i \in (3..(r + 2)) \cup ((r + 4)..(r + c + 3)) : s[i] \in Digit
  /\ r + c + 3 < Len(s) => s[r + c + 4] \notin Digit

\* The end of getCursorPosition, and of initEditor with its result.
FinishReply(s) ==
  \/ \E r, c \in 1..Len(s) :
       /\ Scans(s, r, c)
       /\ SetSize(Value(SubSeq(s, 3, r + 2)), Value(SubSeq(s, r + 4, r + c + 3)))
  \/ ~(\E r, c \in 1..Len(s) : Scans(s, r, c)) /\ Die /\ UNCHANGED editor

\* read() that returned no byte (timeout or error) although there are bytes
\* on their way: the reader gives up in the middle of a sequence.
NoByte == doubt' = IF input \o wire = << >> THEN doubt ELSE doubt \cup {"gap"}

GetCursorPosition ==
  /\ pc = "getCursorPosition"
  /\ \/ /\ input # << >>
        /\ LET b == Head(input)
           IN  \/ /\ b = CAP_R
                  /\ FinishReply(buf) /\ UNCHANGED buf
               \/ /\ b # CAP_R /\ Len(buf) + 1 = BufSize - 1
                  /\ FinishReply(Append(buf, b)) /\ UNCHANGED buf
               \/ /\ b # CAP_R /\ Len(buf) + 1 < BufSize - 1
                  /\ buf' = Append(buf, b)
                  /\ UNCHANGED <<pc, status, editor, term>>
        /\ input' = Tail(input) /\ UNCHANGED doubt
     \/ /\ FinishReply(buf)
        /\ NoByte /\ UNCHANGED <<buf, input>>
  /\ UNCHANGED <<tty, atexit, wire, seq0, typed, decoded>>

-----------------------------------------------------------------------------
(* Output.                                                                 *)

\* editorDrawRows: the characters put on row y.  The message is shortened
\* to the width of the screen for the padding, but appended whole.
RowWidth(y) ==
  IF y = screenrows \div 3
  THEN (screencols - Min({WelcomeLen, screencols})) \div 2 + WelcomeLen
  ELSE 1

NewlineAfter(y) == y < screenrows - 1

\* The terminal line the drawing ends on: rows wider than the terminal wrap.
FrameLines ==
  LET rows == 0..(screenrows - 1)
      newlines == {y \in rows : NewlineAfter(y)}
      wraps(y) == {<<y, k>> : k \in 1..((RowWidth(y) - 1) \div TermSize[2])}
  IN  1 + Cardinality(newlines) + Cardinality(UNION {wraps(y) : y \in rows})

\* editorRefreshScreen.  abAppend drops its argument when realloc fails, and
\* write() may fall short: "lost" is the set of parts of the frame that lose
\* a piece that way.
RefreshScreen ==
  /\ pc = "refresh"
  /\ \E lost \in SUBSET {"hide", "home", "rows", "move", "show"} :
       /\ term' = [shown |-> IF "show" \in lost
                             THEN "hide" \in lost /\ term.shown ELSE TRUE,
                   at |-> IF "move" \in lost THEN term.at
                          ELSE <<cy + 1, cx + 1>>]
       /\ doubt' = IF lost = {} THEN doubt ELSE doubt \cup {"frame"}
  /\ pc' = "readKey"
  /\ UNCHANGED <<tty, atexit, status, wire, input, buf, seq0, editor, typed,
                 decoded>>

-----------------------------------------------------------------------------
(* Input.                                                                  *)

\* A slip: the right edge is one column too far.
MoveCursorPastEdge(key) ==
  /\ cx' = IF key = ARROW_LEFT /\ cx # 0 THEN cx - 1
           ELSE IF key = ARROW_RIGHT /\ cx # screencols THEN cx + 1 ELSE cx
  /\ cy' = IF key = ARROW_UP /\ cy # 0 THEN cy - 1
           ELSE IF key = ARROW_DOWN /\ cy # screenrows - 1 THEN cy + 1 ELSE cy

MoveCursor(key) ==
  /\ cx' = IF key = ARROW_LEFT /\ cx # 0 THEN cx - 1
           ELSE IF key = ARROW_RIGHT /\ cx # screencols - 1 THEN cx + 1 ELSE cx
  /\ cy' = IF key = ARROW_UP /\ cy # 0 THEN cy - 1
           ELSE IF key = ARROW_DOWN /\ cy # screenrows - 1 THEN cy + 1 ELSE cy

\* A slip: the key compared with is a plain q.
ProcessKeypressPlainQ(key) ==
  /\ decoded' = Append(decoded, key)
  /\ IF key = 113
     THEN ClearScreen /\ pc' = "exit" /\ status' = 0 /\ UNCHANGED <<cx, cy>>
     ELSE MoveCursor(key) /\ pc' = "refresh" /\ UNCHANGED <<status, term>>
  /\ UNCHANGED <<screenrows, screencols>>

\* editorProcessKyepress, once editorReadKey has returned the key.
ProcessKeypress(key) ==
  /\ decoded' = Append(decoded, key)
  /\ IF key = CTRL_Q
     THEN ClearScreen /\ pc' = "exit" /\ status' = 0 /\ UNCHANGED <<cx, cy>>
     ELSE MoveCursor(key) /\ pc' = "refresh" /\ UNCHANGED <<status, term>>
  /\ UNCHANGED <<screenrows, screencols>>

\* editorReadKey, first byte.  A timeout (or EAGAIN) only goes round the
\* loop again.
ReadKey ==
  /\ pc = "readKey"
  /\ input # << >> /\ input' = Tail(input)
  /\ IF Head(input) = ESCSEQ
     THEN pc' = "seq0" /\ UNCHANGED <<status, editor, decoded, term>>
     ELSE ProcessKeypress(Head(input))
  /\ UNCHANGED <<tty, atexit, wire, buf, seq0, typed, doubt>>

\* Any other error of that read() is fatal.
ReadKeyFails ==
  /\ pc = "readKey" /\ Die
  /\ UNCHANGED <<tty, atexit, wire, input, buf, seq0, editor, typed, decoded,
                 doubt>>

ReadSeq0 ==
  /\ pc = "seq0"
  /\ \/ /\ input # << >> /\ input' = Tail(input)
        /\ seq0' = Head(input) /\ pc' = "seq1"
        /\ UNCHANGED <<status, editor, decoded, doubt, term>>
     \/ /\ ProcessKeypress(ESCSEQ) /\ NoByte
        /\ UNCHANGED <<input, seq0>>
  /\ UNCHANGED <<tty, atexit, wire, buf, typed>>

\* A slip: the bracket is not looked at.
ArrowOfAnyPair(b0, b1) ==
  CASE b1 = 65 -> ARROW_UP [] b1 = 66 -> ARROW_DOWN
    [] b1 = 67 -> ARROW_RIGHT [] b1 = 68 -> ARROW_LEFT [] OTHER -> b1

ArrowOf(b0, b1) ==
  IF b0 # LBRACKET THEN ESCSEQ
  ELSE CASE b1 = 65 -> ARROW_UP [] b1 = 66 -> ARROW_DOWN
         [] b1 = 67 -> ARROW_RIGHT [] b1 = 68 -> ARROW_LEFT
         [] OTHER -> ESCSEQ

ReadSeq1 ==
  /\ pc = "seq1"
  /\ \/ /\ input # << >> /\ input' = Tail(input)
        /\ ProcessKeypress(ArrowOf(seq0, Head(input))) /\ UNCHANGED doubt
     \/ ProcessKeypress(ESCSEQ) /\ NoByte /\ UNCHANGED input
  /\ UNCHANGED <<tty, atexit, wire, buf, seq0, typed>>

-----------------------------------------------------------------------------
\* exit(): runs disableRawMode if it is registered.  When tcsetattr fails
\* there, die() calls exit(1) again with no handler left.
Exit ==
  /\ pc = "exit" /\ pc' = "exited"
  /\ \/ ~atexit /\ UNCHANGED <<tty, status, input, doubt, term>>
     \/ /\ atexit /\ tty' = "cooked" /\ input' = << >>
        /\ UNCHANGED <<status, doubt, term>>
     \/ /\ atexit /\ status' = 1 /\ doubt' = doubt \cup {"restore"}
        /\ ClearScreen /\ UNCHANGED <<tty, input>>
  /\ UNCHANGED <<atexit, wire, buf, seq0, editor, typed, decoded>>

\* The user presses a key; a key pressed while the editor is still finding
\* out the window size is typed ahead.
PressKey(k) ==
  /\ pc \notin {"enableRawMode"} \cup Ending /\ Len(typed) < MaxKeys
  /\ wire' = wire \o k /\ typed' = Append(typed, k)
  /\ doubt' = IF pc \in Sizing THEN doubt \cup {"ahead"} ELSE doubt
  /\ UNCHANGED <<pc, tty, atexit, status, input, buf, seq0, editor, term,
                 decoded>>

Deliver ==
  /\ pc \notin Ending /\ wire # << >>
  /\ input' = Append(input, Head(wire)) /\ wire' = Tail(wire)
  /\ UNCHANGED <<pc, tty, atexit, status, buf, seq0, editor, term, typed,
                 decoded, doubt>>

Exited == pc = "exited" /\ UNCHANGED vars

Editor == EnableRawMode \/ GetWindowSize \/ GetCursorPosition
            \/ RefreshScreen \/ ReadKey \/ ReadSeq0 \/ ReadSeq1 \/ Exit

Next == Editor \/ ReadKeyFails \/ Deliver \/ (\E k \in Keys : PressKey(k)) \/ Exited

\* The editor is scheduled and the terminal line moves; the user owes
\* nothing, and a read() need not fail.
Spec == Init /\ [][Next]_vars /\ WF_vars(Editor) /\ WF_vars(Deliver)

-----------------------------------------------------------------------------
(* Properties.                                                             *)

\* Every variable stays in its range; the report being read leaves room in
\* buf for one more byte and the null that ends it.
TypeOK ==
  /\ pc \in Locations /\ tty \in {"cooked", "raw"}
  /\ atexit \in BOOLEAN /\ status \in {0, 1}
  /\ wire \in Seq(Byte) /\ input \in Seq(Byte)
  /\ buf \in Seq(Byte) /\ Len(buf) + 1 < BufSize
  /\ seq0 \in Byte
  /\ cx \in Int /\ cy \in Int /\ screenrows \in Int /\ screencols \in Int
  /\ term \in [shown : BOOLEAN, at : Int \X Int]
  /\ typed \in Seq(Keys) /\ decoded \in Seq(Byte \cup 1000..1003)
  /\ doubt \subseteq Doubts

\* The cursor of editorMoveCursor never leaves the window the editor works
\* with, whatever keys arrive and however their bytes are cut up by read()
\* timeouts.  A window reported with no rows bounds nothing.
CursorOnScreen ==
  /\ cx >= 0 /\ (screencols > 0 => cx < screencols)
  /\ cy >= 0 /\ (screenrows > 0 => cy < screenrows)

\* Whenever the process is gone, by Ctrl-Q or through die() anywhere, the
\* terminal is in the mode it was found in and its cursor is visible,
\* unless tcsetattr itself failed in the exit handler, or a piece of a frame
\* was lost.
TerminalRestored ==
  pc = "exited" =>
    /\ tty = "cooked" \/ "restore" \in doubt
    /\ term.shown \/ "frame" \in doubt

\* The keys a press is meant to produce: an arrow for the four arrow
\* sequences; for any other sequence, an escape in place of its first three
\* bytes.
Expected(k) ==
  CASE k = <<27, 91, 65>> -> <<ARROW_UP>>
    [] k = <<27, 91, 66>> -> <<ARROW_DOWN>>
    [] k = <<27, 91, 67>> -> <<ARROW_RIGHT>>
    [] k = <<27, 91, 68>> -> <<ARROW_LEFT>>
    [] k[1] # ESCSEQ -> k
    [] OTHER -> <<ESCSEQ>> \o SubSeq(k, 4, Len(k))

\* editorReadKey returns exactly the keys pressed, in order: no phantom
\* key, none lost, none merged; provided no sequence was interrupted by the
\* 100 ms timeout, nothing was typed ahead of the size report, and a bare
\* escape (or an Alt-key) was not followed by another key.
DecodedAsTyped ==
  (/\ doubt \cap {"gap", "ahead"} = {}
   /\ \A i \in 1..(Len(typed) - 1) : typed[i][1] = ESCSEQ => Len(typed[i]) > 2)
  => IsPrefix(decoded,
              FlattenSeq([i \in 1..Len(typed) |-> Expected(typed[i])]))

\* A window size taken from the terminal's report is the terminal's size.
\* getCursorPosition accepts a report that stops before its 'R', so a
\* timeout within the report, or a key typed ahead of it, voids this.
SizeFromReport ==
  \/ pc \in {"enableRawMode"} \cup Sizing \cup Ending
  \/ doubt \cap {"gap", "ahead"} # {}
  \/ <<screenrows, screencols>> \in WinSizes \cup {TermSize}

\* Drawing a frame never scrolls the terminal: with the right size, and a
\* window at least as wide as the message, the last row drawn is on the
\* terminal, and the cursor is put where the editor thinks it is.
FrameFits ==
  (/\ pc = "readKey" /\ "frame" \notin doubt
   /\ <<screenrows, screencols>> = TermSize /\ screencols >= WelcomeLen)
  => /\ FrameLines <= TermSize[1]
     /\ term.at = <<cy + 1, cx + 1>>
     /\ cy + 1 <= TermSize[1] /\ cx + 1 <= TermSize[2]

\* The cursor stays in the window the editor works with; the size
\* getWindowSize takes from the terminal's report is the terminal's, unless a
\* timeout came within the report or something was typed ahead of it; and
\* with the right size a frame of editorRefreshScreen never scrolls the
\* terminal and leaves the cursor where the editor thinks it is.
WindowKept == TypeOK /\ CursorOnScreen /\ SizeFromReport /\ FrameFits

\* A Ctrl-Q that arrives with no escape byte ahead of it ends the editor.
QuitHonoured ==
  (/\ pc \in {"refresh", "readKey"}
   /\ \E i \in 1..Len(input) :
        input[i] = CTRL_Q /\ \A j \in 1..(i - 1) : input[j] # ESCSEQ)
  ~> pc = "exited"

=============================================================================
