---------------------------- MODULE TermboxKeys ----------------------------
(***************************************************************************)
(* termbox2.h, what it makes of the bytes that arrive: extract_event(),    *)
(* the capability trie and the mouse reports.  A byte is one of a few      *)
(* symbols, those the code tells apart: "esc", "[", "M", "m", "<", ";", a  *)
(* digit, a control byte, a plain byte, and a lead byte of a character of  *)
(* two bytes with its second byte.  A result is a record: the code         *)
(* returned, the event, and the bytes left in global.in.                   *)
(***************************************************************************)
EXTENDS Integers, Sequences, SequencesExt

CONSTANTS
  Caps    \* the capabilities of the keys: sequences of bytes to a key

Digits == {"1"}
Controls == {"^"}
NoEvent == [type |-> "none", key |-> <<>>, alt |-> FALSE]
Key(k, alt) == [type |-> "key", key |-> k, alt |-> alt]
Mouse(k, alt) == [type |-> "mouse", key |-> k, alt |-> alt]

OK(ev, in, n) == [rv |-> "ok", ev |-> ev, in |-> SubSeq(in, n + 1, Len(in))]
Err(in) == [rv |-> "err", ev |-> NoEvent, in |-> in]
NeedMore(in) == [rv |-> "more", ev |-> NoEvent, in |-> in]
Final(r) == r.rv \in {"ok", "more"}

\* cap_trie_find(): how deep the bytes lead into the trie; it stops at a
\* leaf that has nothing below it.  cap_trie_add() made a node of every
\* prefix of a capability.
Nodes == UNION {{SubSeq(c, 1, n) : n \in 0..Len(c)} : c \in DOMAIN Caps}
Children(node) == {m \in Nodes : Len(m) = Len(node) + 1 /\ IsPrefix(node, m)}
CapTrieFind(in) ==
  CHOOSE m \in Nodes :
    /\ IsPrefix(m, in)
    /\ \A n \in Nodes : IsPrefix(n, in) => Len(n) <= Len(m)

ExtractCap(in) ==
  LET node == CapTrieFind(in) IN
  IF node \in DOMAIN Caps THEN OK(Key(Caps[node], FALSE), in, Len(node))
  ELSE IF Children(node) # {} /\ Len(in) <= Len(node) THEN NeedMore(in)
  ELSE Err(in)

\* The %d;%d;%d[mM] of the reports 1006 and 1015, from byte i on: the state
\* after each byte is how many numbers are complete and whether one has begun.
MouseNumbers(in, i) ==
  LET step(a, b) ==
        IF a.bad \/ a.n = 3 THEN a
        ELSE IF b \in Digits THEN [a EXCEPT !.some = TRUE, !.used = @ + 1]
        ELSE IF a.some /\ ((a.n < 2 /\ b = ";") \/ (a.n = 2 /\ b \in {"m", "M"}))
        THEN [a EXCEPT !.n = @ + 1, !.some = FALSE, !.used = @ + 1, !.trail = b]
        ELSE [a EXCEPT !.bad = TRUE]
  IN FoldLeft(step, [n |-> 0, some |-> FALSE, bad |-> FALSE, used |-> i, trail |-> " "],
              SubSeq(in, i + 1, Len(in)))

ExtractMouse(in, alt) ==
  IF Len(in) < 2 THEN NeedMore(in)
  ELSE IF in[2] # "[" THEN Err(in)
  ELSE IF Len(in) < 3 THEN NeedMore(in)
  ELSE IF in[3] = "M"
  THEN IF Len(in) < 6 THEN NeedMore(in) ELSE OK(Mouse(<<"press">>, alt), in, 6)
  ELSE LET r == MouseNumbers(in, IF in[3] = "<" THEN 3 ELSE 2) IN
       IF r.bad THEN Err(in)
       ELSE IF r.n < 3 THEN NeedMore(in)
       ELSE OK(Mouse(<<IF r.trail = "m" THEN "release" ELSE "press">>, alt), in, r.used)

\* No function is set with tb_set_func().
ExtractEsc(in, alt) ==
  LET cap == ExtractCap(in)
      mouse == ExtractMouse(in, alt)
  IN IF Final(cap) THEN cap ELSE IF Final(mouse) THEN mouse ELSE Err(in)

CharLength(b) == IF b = "lead" THEN 2 ELSE 1

\* extract_event() for input that does not begin with an escape.
ExtractPlain(in, alt) ==
  IF in = <<>> THEN Err(in)
  ELSE IF Head(in) \in Controls THEN OK(Key(<<"ctrl">>, alt), in, 1)
  ELSE IF Len(in) >= CharLength(Head(in))
  THEN OK(Key(SubSeq(in, 1, CharLength(Head(in))), alt), in, CharLength(Head(in)))
  ELSE Err(in)

\* extract_event() with input mode TB_INPUT_ESC or TB_INPUT_ALT: in the
\* latter an escape that leads nowhere is shifted out and the rest is
\* looked at again.
ExtractEvent(in, mode) ==
  LET from[n \in 0..Len(in)] ==
        LET rest == SubSeq(in, n + 1, Len(in))
            alt == n > 0
            esc == IF mode = "esc" /\ Len(rest) = 1 THEN Err(rest)
                   ELSE ExtractEsc(rest, alt)
        IN IF rest = <<>> \/ Head(rest) # "esc" THEN ExtractPlain(rest, alt)
           ELSE IF Final(esc) THEN esc
           ELSE IF mode = "esc" THEN OK(Key(<<"esc">>, FALSE), rest, 1)
           ELSE from[n + 1]
  IN from[0]
=============================================================================
