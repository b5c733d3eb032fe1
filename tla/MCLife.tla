------------------------------- MODULE MCLife -------------------------------
(* A board of four rows and ten columns, started from populate_board's      *)
(* R-pentomino against the right border and from the pattern of test().     *)
EXTENDS Life

RPentominoAt(r, c) ==
  {<<r, c + 1>>, <<r, c + 2>>, <<r + 1, c>>, <<r + 1, c + 1>>, <<r + 2, c + 1>>}

TestPattern == {<<0, 1>>, <<1, 0>>, <<1, 1>>, <<1, 2>>, <<2, 0>>, <<2, 2>>,
                <<3, 0>>, <<3, 1>>, <<3, 2>>}

\* Nothing is taken; nothing from the third row on; or only the rows from
\* there on, as when a stopped terminal goes on between two buffers of a frame
\* (180 columns and 45 rows fill several).
MCLosses == {Cells, {p \in Cells : p[1] >= 2}, {p \in Cells : p[1] < 2}}

MCPatterns == {RPentominoAt(1, 7), TestPattern}

\* The assertions of test().
ASSUME TestPasses ==
  LET b == [i \in Index |->
              IF <<i \div BOARD_COLS, i % BOARD_COLS>> \in TestPattern
              THEN 1 ELSE 0]
  IN  /\ count_neighbors(b, 0, 0) = 3
      /\ count_neighbors(b, 2, 0) = 4
      /\ count_neighbors(b, 2, 1) = 8
      /\ count_neighbors(b, 0, 9) = 0
=============================================================================
