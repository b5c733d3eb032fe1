----------------------------- MODULE MCTermbox -----------------------------
(* Termbox on a terminal of one or two rows. *)
EXTENDS Termbox

MCSizes == {<<3, 1>>, <<2, 2>>}
MCDrawings == {<<<<0, 0>>, Cell("W", 1)>>, <<<<1, 0>>, Cell("a", 0)>>}
MCTexts == {<<<<1, 0>>, 1, <<"a", "W">>>>, <<<<0, 0>>, 0, <<"bad", "\n", "a">>>>}
MCCaps == (<<"esc", "[", "A">> :> <<"up">>)

Plain(mode) ==
  {[mode |-> mode, bytes |-> <<"x">>, events |-> <<Key(<<"x">>, FALSE)>>],
   [mode |-> mode, bytes |-> <<"^">>, events |-> <<Key(<<"ctrl">>, FALSE)>>],
   [mode |-> mode, bytes |-> <<"lead", "cont">>, events |-> <<Key(<<"lead", "cont">>, FALSE)>>],
   [mode |-> mode, bytes |-> <<"esc", "[", "A">>, events |-> <<Key(<<"up">>, FALSE)>>],
   [mode |-> mode, bytes |-> <<"esc", "[", "M", "x", "x", "x">>, events |-> <<Mouse(<<"press">>, FALSE)>>],
   [mode |-> mode, bytes |-> <<"esc", "[", "<", "1", ";", "1", ";", "1", "m">>,
    events |-> <<Mouse(<<"release">>, FALSE)>>]}
MCTyping ==
  Plain("esc") \cup Plain("alt") \cup
  {[mode |-> "esc", bytes |-> <<"esc">>, events |-> <<Key(<<"esc">>, FALSE)>>],
   [mode |-> "alt", bytes |-> <<"esc", "x">>, events |-> <<Key(<<"x">>, TRUE)>>],
   [mode |-> "alt", bytes |-> <<"esc", "lead", "cont">>, events |-> <<Key(<<"lead", "cont">>, TRUE)>>]}

Scenario(draws, sz, keys, calls, resizes, faults, inits) ==
  [draws |-> draws, size |-> sz, keys |-> keys, calls |-> calls,
   resizes |-> resizes, faults |-> faults, inits |-> inits]
MCScenarios ==
  {Scenario(TRUE, <<3, 1>>, 0, 3, 1, 1, 1), Scenario(TRUE, <<2, 2>>, 0, 2, 2, 0, 1),
   Scenario(TRUE, <<3, 1>>, 0, 0, 0, 2, 2),
   Scenario(FALSE, <<3, 1>>, 2, 0, 0, 0, 1), Scenario(FALSE, <<3, 1>>, 1, 0, 1, 1, 2)}

\* The events returned are those of the keys typed, in order, however the
\* bytes were cut up between the calls of read(), and none waits in a buffer
\* while wait_event() waits in select(); unless an escape arrived alone, the
\* bytes were taken for the report of a size, or the library was shut down.
KeysDelivered == KeysDecoded /\ KeysReturned
=============================================================================
