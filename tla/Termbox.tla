------------------------------ MODULE Termbox ------------------------------
(***************************************************************************)
(* termbox2.h: the library between an application and a terminal.  The     *)
(* application calls it in any order; meanwhile keys are typed, their      *)
(* bytes arrive in pieces, the terminal changes its size and SIGWINCH is   *)
(* handled.  What a call draws is in TermboxCells, what it makes of the    *)
(* bytes in TermboxKeys.  Memory does not run out.                         *)
(***************************************************************************)
EXTENDS TermboxCells, TermboxKeys, TLC

CONSTANTS
  Sizes,       \* the sizes the terminal can have, <<columns, rows>>
  Drawings,    \* the cells the application sets, <<position, cell>>
  Texts,       \* the strings it prints, <<position, attribute, characters>>
  Attrs,       \* the attributes it clears with
  Typing,      \* the keys that can be typed: in which input mode, their bytes
               \* and the events they mean
  Scenarios    \* the bounds: [draws, size, keys, calls, resizes, faults, inits],
               \* whether the application draws or reads keys, the size of the
               \* terminal at first, and how often it is that a key is typed, a
               \* call draws, the size changes, a call of the system fails and
               \* tb_init() is called

ASSUME TermboxAssumption ==
  /\ \A sz \in Sizes : sz[1] \in Nat \ {0} /\ sz[2] \in Nat \ {0}
  /\ \A sc \in Scenarios :
       /\ sc.size \in Sizes
       /\ {sc.keys, sc.calls, sc.resizes, sc.faults, sc.inits} \subseteq Nat

VARIABLES
  term,     \* the terminal: w, h, cells, cursor, attr, modes, raw
  wire,     \* bytes typed that have not arrived
  tty,      \* bytes that can be read
  winch,    \* SIGWINCH is pending
  pipe,     \* signals written to the resize pipe and not read
  pc,       \* a step of tb_init(), "up", or where wait_event() is
  timeout,  \* wait_event() was called with a timeout
  g,        \* struct tb_global
  hist,     \* history; see below
  left      \* the scenario: what remains of the bounds

vars == <<term, wire, tty, winch, pipe, pc, timeout, g, hist, left>>

\* The history: tb_present() was the last call that drew; a write() wrote
\* only a part, or the size was not found; tb_deinit() could not write; the
\* events of the keys typed, and those returned; why these two may differ.
NoHistory == [drawn |-> FALSE, torn |-> FALSE, mute |-> FALSE,
              typed |-> <<>>, got |-> <<>>, lost |-> {}]

NoBuf == [w |-> 0, h |-> 0, cells |-> <<>>]
Nowhere == <<-1, -1>>

\* tb_reset(), with the descriptors and what else tb_deinit() gives back.
NoGlobal ==
  [fds |-> {}, handler |-> FALSE, caps |-> "none", size |-> Nowhere, back |-> NoBuf,
   front |-> NoBuf, out |-> <<>>, last |-> Nowhere, attr |-> -1, cursor |-> Nowhere,
   clear |-> Default, mode |-> "esc", in |-> <<>>]

Fault == left.faults > 0 /\ left' = [left EXCEPT !.faults = @ - 1, !.faulty = TRUE]

\* bytebuf_flush() of s.out: all is written; or nothing, or a part, and
\* then all of it is kept for the next time; which part does not matter.
Flushed(s) ==
  /\ term' = CarryOut(term, s.out) /\ g' = [s EXCEPT !.out = <<>>]
FlushFails(s) ==
  /\ Fault /\ s.out # <<>> /\ g' = s
  /\ \E n \in {0, Len(s.out) - 1} :
       /\ term' = CarryOut(term, SubSeq(s.out, 1, n))
       /\ hist' = [hist EXCEPT !.torn = @ \/ n > 0, !.drawn = FALSE]

\* update_term_size(): ioctl(), or else the report of the cursor's position,
\* which is read together with what else has arrived, and then is no report.
GetsSize(s) ==
  /\ g' = [s EXCEPT !.size = <<term.w, term.h>>] /\ UNCHANGED <<tty, hist>>
  /\ UNCHANGED left \/ (Fault /\ tty = <<>>)
GetsNoSize ==
  /\ Fault /\ tty' = <<>>
  /\ hist' = [hist EXCEPT !.lost = IF tty = <<>> THEN @ ELSE @ \cup {"report"},
                          !.torn = TRUE]

-----------------------------------------------------------------------------
(* tb_init() and tb_shutdown().                                            *)

PutModes(s, on) ==
  FoldLeft(LAMBDA r, m : Put(r, Cmd("mode", m, on)), s,
           <<"alternate", "keypad", "hidden cursor">>)

\* A slip: tb_deinit() does not leave the alternate screen.
LastWordsShort(s) ==
  IF s.caps = "none" THEN s
  ELSE Put(Put(s, Cmd("mode", "hidden cursor", 0)), Cmd("mode", "mouse", 0))

\* What tb_deinit() sends, if there are capabilities to send.
LastWords(s) ==
  LET plain == Put(Put(s, Cmd("attr", Default, 0)), Cmd("clear", 0, 0)) IN
  CASE s.caps = "none" -> s
    [] s.caps = "some" -> Put(s, Cmd("mode", "mouse", 0))
    [] s.caps = "all" -> Put(PutModes(plain, 0), Cmd("mode", "mouse", 0))

\* tb_deinit(): what it sends may get lost; everything else is given back.
Deinit ==
  /\ LET unread == IF hist.got = hist.typed THEN {} ELSE {"shutdown"}
         down == [hist EXCEPT !.drawn = FALSE, !.lost = @ \cup unread]
     IN \/ /\ term' = [CarryOut(term, LastWords(g).out) EXCEPT !.raw = FALSE]
           /\ hist' = down /\ UNCHANGED left
        \/ /\ Fault /\ LastWords(g).out # <<>>
           /\ term' = [term EXCEPT !.raw = FALSE]
           /\ hist' = [down EXCEPT !.mute = TRUE]
  /\ g' = NoGlobal /\ pipe' = 0 /\ pc' = "down"
  /\ tty' = IF term.raw THEN <<>> ELSE tty      \* TCSAFLUSH

\* tb_init_file(): open(), tb_reset().
TbInit ==
  /\ pc = "down" /\ left.inits > 0 /\ left' = [left EXCEPT !.inits = @ - 1]
  /\ g' = [NoGlobal EXCEPT !.fds = {"tty"}] /\ pc' = "attrs"
  /\ UNCHANGED <<term, tty, pipe, hist>>

InitTermAttrs ==
  /\ pc = "attrs" /\ UNCHANGED <<pipe, hist, g>>
  /\ \/ /\ term' = [term EXCEPT !.raw = TRUE] /\ tty' = <<>>
        /\ pc' = "caps" /\ UNCHANGED left
     \/ Fault /\ pc' = "failed" /\ UNCHANGED <<term, tty>>

\* Whether a terminfo file was found in one of the places, and what came of
\* it: one that is cut short has given some capabilities when it fails.
\* Without a file, TERM may be one of the terminals built in.
load_terminfo == BOOLEAN
parse_terminfo_caps == {"all", "some", "none"}
load_builtin_caps == {"all", "none"}
InitTermCaps ==
  /\ pc = "caps" /\ UNCHANGED <<term, tty, pipe, hist>>
  /\ \E file \in load_terminfo, c \in parse_terminfo_caps :
       /\ ~file => c \in load_builtin_caps
       /\ g' = [g EXCEPT !.caps = c]
       /\ \/ c = "all" /\ pc' = "handler" /\ UNCHANGED left
          \/ c # "all" /\ pc' = "failed" /\ Fault

\* pipe() and sigaction().
InitResizeHandler ==
  /\ pc = "handler" /\ UNCHANGED <<term, tty, pipe, hist>>
  /\ \/ /\ g' = [g EXCEPT !.fds = @ \cup {"pipe"}, !.handler = TRUE]
        /\ pc' = "clear" /\ UNCHANGED left
     \/ /\ Fault /\ pc' = "failed"
        /\ \E f \in {{}, {"pipe"}} : g' = [g EXCEPT !.fds = @ \cup f]

SendInitEscapeCodes ==
  /\ pc = "clear" /\ UNCHANGED <<tty, pipe>>
  /\ LET s == SendClear(PutModes(g, 1), g.clear, g.cursor) IN
       \/ Flushed(s) /\ pc' = "size" /\ UNCHANGED <<hist, left>>
       \/ FlushFails(s) /\ pc' = "failed"

InitSizeAndCells ==
  /\ pc = "size" /\ UNCHANGED <<term, pipe>>
  /\ LET b == CellBuf(term.w, term.h, g.clear) IN
       \/ GetsSize([g EXCEPT !.back = b, !.front = b]) /\ pc' = "up"
       \/ GetsNoSize /\ pc' = "failed" /\ UNCHANGED g

InitFailed == pc = "failed" /\ Deinit
TbShutdown == pc = "up" /\ Deinit

\* The steps of tb_init_rwfd().
Initialization ==
  \/ InitTermAttrs \/ InitTermCaps \/ InitResizeHandler
  \/ SendInitEscapeCodes \/ InitSizeAndCells \/ InitFailed

-----------------------------------------------------------------------------
(* Drawing.  A call for a position that is out of bounds changes nothing.  *)

SetCell(buf, p, c) == IF InBounds(buf, p) THEN [buf EXCEPT !.cells[p] = c] ELSE buf

\* tb_print_ex(): the string is drawn from p on; what is out of bounds is
\* left out, and a newline goes back to the first column.
Printed(buf, p, attr, chars) ==
  LET step(a, ch) ==
        IF ch = "\n" THEN [a EXCEPT !.at = <<p[1], @[2] + 1>>]
        ELSE [buf |-> SetCell(a.buf, a.at, Cell(Printable(ch), attr)),
              at |-> <<a.at[1] + Width(Printable(ch)), a.at[2]>>]
  IN IF InBounds(buf, p) THEN FoldLeft(step, [buf |-> buf, at |-> p], chars).buf ELSE buf

Changed(s) ==
  /\ g' = s /\ hist' = [hist EXCEPT !.drawn = FALSE] /\ UNCHANGED term
  /\ left.calls > 0 /\ left' = [left EXCEPT !.calls = @ - 1]

TbSetCell == \E d \in Drawings : Changed([g EXCEPT !.back = SetCell(@, d[1], d[2])])
TbPrint == \E t \in Texts : Changed([g EXCEPT !.back = Printed(@, t[1], t[2], t[3])])
TbClear == Changed([g EXCEPT !.back = Cleared(@, g.clear)])
TbSetClearAttrs == \E a \in Attrs : Changed([g EXCEPT !.clear = a])
TbSetOutputMode == Changed([g EXCEPT !.attr = -1])

TbSetCursor ==
  LET s == IF g.cursor = Nowhere THEN Put(g, Cmd("mode", "hidden cursor", 0)) ELSE g
  IN Changed([SendCursorIf(s, <<0, 0>>) EXCEPT !.cursor = <<0, 0>>])
TbHideCursor ==
  /\ g.cursor # Nowhere
  /\ Changed([Put(g, Cmd("mode", "hidden cursor", 1)) EXCEPT !.cursor = Nowhere])

\* Before a key is typed; the return value of the flush is not looked at.
TbSetInputMode ==
  \E m \in {"esc", "alt"}, mouse \in {0, 1} :
    LET s == [Put(g, Cmd("mode", "mouse", mouse)) EXCEPT !.mode = m] IN
    /\ pc = "up" /\ hist.typed = <<>> /\ UNCHANGED <<tty, pipe, pc>>
    /\ (Flushed(s) /\ UNCHANGED <<hist, left>>) \/ FlushFails(s)

TbPresent ==
  LET r == Presented(g.back, g.front, g)
      s == SendCursorIf([r.send EXCEPT !.front.cells = r.front], g.cursor)
  IN \/ Flushed(s) /\ hist' = [hist EXCEPT !.drawn = TRUE] /\ UNCHANGED left
     \/ FlushFails(s)

\* resize_cellbufs(), up to the flush at the end of send_clear().
ResizeCellbufs(s) ==
  LET b == Resized(s.back, s.size[1], s.size[2], s.clear)
      f == Resized(s.front, s.size[1], s.size[2], s.clear)
  IN SendClear([s EXCEPT !.back = b, !.front = Cleared(f, s.clear)], s.clear, s.cursor)

TbInvalidate ==
  LET s == ResizeCellbufs(g) IN
  \/ Flushed(s) /\ hist' = [hist EXCEPT !.drawn = FALSE] /\ UNCHANGED left
  \/ FlushFails(s)

Drawing ==
  /\ pc = "up" /\ UNCHANGED <<tty, pipe, pc>>
  /\ \/ TbSetCell \/ TbPrint \/ TbClear \/ TbSetClearAttrs \/ TbSetOutputMode
     \/ TbSetCursor \/ TbHideCursor \/ TbPresent \/ TbInvalidate

-----------------------------------------------------------------------------
(* tb_poll_event() and tb_peek_event().                                    *)

\* extract_event() on the bytes s.in; an event is returned, or the label l
\* is where wait_event() goes on.
Extract(s, l) ==
  LET r == ExtractEvent(s.in, s.mode)
      next == Len(hist.got) + 1
      alone == s.mode = "esc" /\ s.in = <<"esc">> /\ next <= Len(hist.typed)
               /\ hist.typed[next] # Key(<<"esc">>, FALSE)
  IN /\ g' = [s EXCEPT !.in = r.in]
     /\ IF r.rv = "ok"
        THEN /\ pc' = "up"
             /\ hist' = [hist EXCEPT !.got = Append(@, r.ev),
                                     !.lost = IF alone THEN @ \cup {"escape alone"} ELSE @]
        ELSE /\ pc' = l
             /\ hist' = [hist EXCEPT !.lost = IF r.in # s.in THEN @ \cup {"alt"} ELSE @]

\* A slip: select() is called before the bytes at hand are looked at.
PollSelectFirst ==
  /\ pc = "up" /\ timeout' \in BOOLEAN /\ pc' = "select"
  /\ UNCHANGED <<term, tty, pipe, g, hist, left>>

Poll ==
  /\ pc = "up" /\ timeout' \in BOOLEAN /\ Extract(g, "select")
  /\ UNCHANGED <<term, tty, pipe, left>>

\* select() returns: the bytes are read, and a byte of the resize pipe means
\* a resize event; otherwise the bytes are looked at, and without a timeout
\* select() is called again.
Ready ==
  /\ pc = "select" /\ (tty # <<>> \/ pipe > 0)
  /\ g' = [g EXCEPT !.in = @ \o tty] /\ tty' = <<>>
  /\ pc' = IF pipe > 0 THEN "resize" ELSE "extract"
  /\ UNCHANGED <<term, pipe, timeout, hist, left>>

ExtractRead ==
  /\ pc = "extract" /\ Extract(g, IF timeout THEN "up" ELSE "select")
  /\ UNCHANGED <<term, tty, pipe, timeout, left>>

\* A slip: the size is not asked for again.
ResizeToOldSize ==
  /\ pc = "resize" /\ pipe' = pipe - 1 /\ pc' = "flush"
  /\ g' = ResizeCellbufs(g) /\ UNCHANGED <<term, tty, timeout, hist, left>>

Resize ==
  /\ pc = "resize" /\ pipe' = pipe - 1 /\ UNCHANGED <<term, timeout>>
  /\ \/ GetsSize(ResizeCellbufs([g EXCEPT !.size = <<term.w, term.h>>])) /\ pc' = "flush"
     \/ GetsNoSize /\ pc' = "up" /\ UNCHANGED g

ResizeFlush ==
  /\ pc = "flush" /\ pc' = "up" /\ UNCHANGED <<tty, pipe, timeout>>
  /\ \/ Flushed(g) /\ hist' = [hist EXCEPT !.drawn = FALSE] /\ UNCHANGED left
     \/ FlushFails(g)

\* Nothing within the timeout.
NothingCame ==
  /\ pc = "select" /\ timeout /\ tty = <<>> /\ pipe = 0 /\ pc' = "up"
  /\ UNCHANGED <<term, tty, pipe, timeout, g, hist, left>>

Waiting == Poll \/ Ready \/ ExtractRead \/ Resize \/ ResizeFlush \/ NothingCame

-----------------------------------------------------------------------------
(* The user, the terminal and the signal.                                  *)

Type ==
  /\ left.keys > 0 /\ left' = [left EXCEPT !.keys = @ - 1] /\ pc = "up"
  /\ \E k \in Typing :
       /\ k.mode = g.mode /\ wire' = wire \o k.bytes
       /\ hist' = [hist EXCEPT !.typed = @ \o k.events]
  /\ UNCHANGED <<term, tty, winch, pipe, pc, timeout, g>>

Arrive ==
  /\ wire # <<>> /\ tty' = Append(tty, Head(wire)) /\ wire' = Tail(wire)
  /\ UNCHANGED <<term, winch, pipe, pc, timeout, g, hist, left>>

ChangeSize ==
  /\ left.resizes > 0 /\ winch' = TRUE
  /\ left' = [left EXCEPT !.resizes = @ - 1, !.resized = TRUE]
  /\ \E sz \in Sizes :
       /\ sz # <<term.w, term.h>>
       /\ term' = [term EXCEPT !.w = sz[1], !.h = sz[2], !.cursor = <<0, 0>>,
                               !.cells = [p \in Positions(sz[1], sz[2]) |-> Garbled]]
  /\ UNCHANGED <<wire, tty, pipe, pc, timeout, g, hist>>

\* handle_resize(): it interrupts select(), and wait_event() returns
\* TB_ERR_POLL.  Without the handler the signal is ignored.
HandleResize ==
  /\ winch /\ winch' = FALSE /\ pipe' = IF g.handler THEN pipe + 1 ELSE pipe
  /\ pc' = IF g.handler /\ pc = "select" THEN "up" ELSE pc
  /\ UNCHANGED <<term, wire, tty, timeout, g, hist, left>>

Outside == Type \/ Arrive \/ ChangeSize \/ HandleResize

-----------------------------------------------------------------------------
Init ==
  /\ \E sc \in Scenarios :
       /\ left = sc @@ [faulty |-> FALSE, resized |-> FALSE]
       /\ term = [w |-> sc.size[1], h |-> sc.size[2], modes |-> {}, raw |-> FALSE,
                  cells |-> Screen(sc.size[1], sc.size[2], Default),
                  cursor |-> <<0, 0>>, attr |-> Default]
  /\ wire = <<>> /\ tty = <<>> /\ winch = FALSE /\ pipe = 0
  /\ pc = "down" /\ timeout = FALSE /\ g = NoGlobal /\ hist = NoHistory

\* A behaviour is about drawing or about keys; in the former the application
\* waits for an event once the terminal has changed its size.
Draw ==
  /\ (left.draws /\ Drawing) \/ (~left.draws /\ TbSetInputMode)
  /\ UNCHANGED <<wire, winch, timeout>>
Wait == (left.draws => left.resized) /\ Waiting /\ UNCHANGED <<wire, winch>>

InitStep == Initialization /\ UNCHANGED <<wire, winch, timeout>>

Next ==
  \/ (TbInit \/ TbShutdown) /\ UNCHANGED <<wire, winch, timeout>>
  \/ InitStep \/ Draw \/ Wait \/ Outside

Spec == Init /\ [][Next]_vars

-----------------------------------------------------------------------------
(* Properties.                                                             *)

\* After tb_present() the screen shows the back buffer, cell by cell, wide
\* characters and those cut off at the edge included: the differences it
\* sends, against the front buffer, were all that was needed, through every
\* resize, failed flush and change of the clearing attributes before.
ScreenShown ==
  pc = "up" /\ hist.drawn /\ ~hist.torn /\ ~winch /\ pipe = 0 =>
    \A p \in DOMAIN term.cells : term.cells[p] = Expected(g.back, p)

\* Whenever the library is down, after tb_shutdown() or a tb_init() that
\* failed at any step, the terminal is as it was: no mode is left on, the
\* attributes are the original ones; unless a write() failed, or the
\* capabilities were not there to undo them with.
Restored ==
  pc = "down" /\ ~hist.torn /\ ~hist.mute =>
    ~term.raw /\ term.modes = {} /\ term.attr = Default

\* The events returned are those of the keys typed, in order, however the
\* bytes were cut up between the calls of read(): no key is lost, invented or
\* taken for another; unless an escape arrived alone, the bytes were taken
\* for the report of a size, or the library was shut down.
KeysDecoded == hist.lost = {} => IsPrefix(hist.got, hist.typed)

\* wait_event() is never left waiting in select() with a key it could have
\* returned: once all that was typed has arrived and been read, and select()
\* is called again, every event was returned.
KeysReturned ==
  pc = "select" /\ wire = <<>> /\ tty = <<>> /\ hist.lost = {} => hist.got = hist.typed

\* A change of the terminal's size is never missed: with no signal pending
\* and nothing in the resize pipe, the library knows the size there is, and
\* both buffers have it, whatever it was doing when SIGWINCH came.
ResizeNoticed ==
  pc \in {"up", "select", "extract"} /\ ~winch /\ pipe = 0 /\ ~left.faulty =>
    \A x \in {g.back, g.front} : <<x.w, x.h>> = <<term.w, term.h>> /\ g.size = <<x.w, x.h>>
=============================================================================
