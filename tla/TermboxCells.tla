---------------------------- MODULE TermboxCells ----------------------------
(***************************************************************************)
(* termbox2.h, what it draws: the two cell buffers, the commands that      *)
(* tb_present() sends for their difference, and the terminal that carries  *)
(* the commands out.  A cell is a character and an attribute (fg and bg as *)
(* one value); a buffer is a width, a height and a function from positions *)
(* to cells.  Extended grapheme clusters are off, as they are by default.  *)
(***************************************************************************)
EXTENDS Integers, Sequences, SequencesExt, FiniteSets

CONSTANTS
  WideChars,  \* the characters two columns wide
  BadChars    \* the characters that are not printable

Default == 0
Space == " "
Replacement == "U+FFFD"

Cell(ch, attr) == [ch |-> ch, attr |-> attr]
Invalid == Cell("invalid", -1)

\* tb_wcwidth(), and 1 where it says -1.
Width(ch) == IF ch \in WideChars THEN 2 ELSE 1
Printable(ch) == IF ch \in BadChars THEN Replacement ELSE ch

Positions(w, h) == (0..(w - 1)) \X (0..(h - 1))
InBounds(buf, p) == p \in Positions(buf.w, buf.h)
CellBuf(w, h, attr) ==
  [w |-> w, h |-> h, cells |-> [p \in Positions(w, h) |-> Cell(Space, attr)]]
Cleared(buf, attr) == CellBuf(buf.w, buf.h, attr)
AtLeast1(n) == IF n < 1 THEN 1 ELSE n

\* cellbuf_resize(): the part both sizes have is kept, the rest is cleared.
Resized(buf, w, h, attr) ==
  IF buf.w = w /\ buf.h = h THEN buf
  ELSE LET new == CellBuf(AtLeast1(w), AtLeast1(h), attr) IN
       [new EXCEPT !.cells = [p \in DOMAIN @ |->
          IF p \in DOMAIN buf.cells THEN buf.cells[p] ELSE @[p]]]

-----------------------------------------------------------------------------
(* What is sent: global.out as a sequence of commands, with last_x, last_y *)
(* and the last attribute, in one record.                                  *)

Cmd(op, a, b) == <<op, a, b>>
Put(s, c) == [s EXCEPT !.out = Append(@, c)]

SendAttr(s, attr) ==
  IF s.attr = attr THEN s ELSE [Put(s, Cmd("attr", attr, 0)) EXCEPT !.attr = attr]

SendCursorIf(s, p) ==
  IF p[1] < 0 \/ p[2] < 0 THEN s ELSE Put(s, Cmd("cursor", p[1], p[2]))

SendChar(s, p, ch) ==
  LET moved == IF s.last # <<p[1] - 1, p[2]>> THEN SendCursorIf(s, p) ELSE s
  IN [Put(moved, Cmd("char", Printable(ch), Width(Printable(ch)))) EXCEPT !.last = p]

SendClear(s, attr, cursor) ==
  [SendCursorIf(Put(SendAttr(s, attr), Cmd("clear", 0, 0)), cursor) EXCEPT !.last = <<-1, -1>>]

\* A slip: the columns a wide character hides keep their old cells.
PresentCellKeepHidden(back, acc, p) ==
  LET new == back.cells[p]
      w == Width(new.ch)
      fits == p[1] + w <= back.w
      sent == SendAttr(acc.send, new.attr)
  IN IF p[1] # 0 /\ p[1] < acc.next THEN acc
     ELSE IF new = acc.front[p] THEN [acc EXCEPT !.next = p[1] + w]
     ELSE [next |-> p[1] + w, front |-> [acc.front EXCEPT ![p] = new],
           send |-> IF fits THEN SendChar(sent, p, new.ch) ELSE SendChar(sent, p, Space)]

\* One turn of the loop of tb_present() over a row; next is its x.
PresentCell(back, acc, p) ==
  LET new == back.cells[p]
      w == Width(new.ch)
      hidden == {<<p[1] + i, p[2]>> : i \in 1..(w - 1)}
      fits == p[1] + w <= back.w
      sent == SendAttr(acc.send, new.attr)
  IN IF p[1] # 0 /\ p[1] < acc.next THEN acc
     ELSE IF new = acc.front[p] THEN [acc EXCEPT !.next = p[1] + w]
     ELSE [next |-> p[1] + w,
           front |-> [q \in DOMAIN acc.front |->
                        IF q = p THEN new
                        ELSE IF fits /\ q \in hidden THEN Invalid ELSE acc.front[q]],
           send |-> IF fits THEN SendChar(sent, p, new.ch) ELSE SendChar(sent, p, Space)]

RowMajor(buf) ==
  [i \in 1..(buf.w * buf.h) |-> <<(i - 1) % buf.w, (i - 1) \div buf.w>>]

Presented(back, front, send) ==
  LET step(acc, p) == PresentCell(back, acc, p)
      start == [next |-> 0, front |-> front.cells,
                send |-> [send EXCEPT !.last = <<-1, -1>>]]
  IN IF front.w < 1 THEN start ELSE FoldLeft(step, start, RowMajor(front))

-----------------------------------------------------------------------------
(* The terminal: its size, its screen, its cursor and its modes.           *)

Cont == Cell("right half", -1)   \* the second column of a wide character
Garbled == Cell("?", -1)         \* what a change of size leaves behind

Screen(w, h, attr) == [p \in Positions(w, h) |-> Cell(Space, attr)]

\* A character over one half of a wide one destroys the other half.
Drawn(t, ch, w) ==
  LET at == t.cursor
      right == <<at[1] + w, at[2]>>
  IN [p \in DOMAIN t.cells |->
       IF p = at THEN Cell(ch, t.attr)
       ELSE IF w = 2 /\ p = <<at[1] + 1, at[2]>> THEN Cont
       ELSE IF p = <<at[1] - 1, at[2]>> /\ t.cells[at] = Cont THEN Garbled
       ELSE IF p = right /\ t.cells[right] = Cont THEN Garbled
       ELSE t.cells[p]]

Least(a, b) == IF a < b THEN a ELSE b

Carry(t, c) ==
  CASE c[1] = "attr" -> [t EXCEPT !.attr = c[2]]
    [] c[1] = "cursor" -> [t EXCEPT !.cursor = <<Least(c[2], t.w - 1), Least(c[3], t.h - 1)>>]
    [] c[1] = "char" -> [t EXCEPT !.cells = Drawn(t, c[2], c[3]),
                                  !.cursor = <<Least(@[1] + c[3], t.w - 1), @[2]>>]
    [] c[1] = "clear" -> [t EXCEPT !.cells = Screen(t.w, t.h, t.attr)]
    [] c[1] = "mode" -> [t EXCEPT !.modes = IF c[3] = 1 THEN @ \cup {c[2]} ELSE @ \ {c[2]}]

CarryOut(t, cmds) == FoldLeft(Carry, t, cmds)

\* What a screen that shows the buffer has at p: in every row a character
\* starts at column 0 and where another one ends.
Expected(buf, p) ==
  LET width(x) == Width(buf.cells[<<x, p[2]>>].ch)
      starts[x \in 0..(buf.w - 1)] ==
        x = 0 \/ \E y \in 0..(x - 1) : starts[y] /\ y + width(y) = x
      new == buf.cells[p]
  IN IF ~starts[p[1]] THEN Cont
     ELSE IF p[1] + Width(new.ch) > buf.w THEN Cell(Space, new.attr)
     ELSE Cell(Printable(new.ch), new.attr)
=============================================================================
