-------------------------------- MODULE Life --------------------------------
(***************************************************************************)
(* The Game of Life program (src/stage0/life/main.c) and the terminal it   *)
(* draws on.  The board and the two character buffers are flat arrays      *)
(* indexed by row * BOARD_COLS + col.  Every frame is drawn into the back  *)
(* buffer, and only the characters that differ from the front buffer (the  *)
(* previous frame) are sent to the terminal.                               *)
(*                                                                         *)
(* stdout is buffered and flushed once a frame, so a frame, with the       *)
(* status line printed just before it, reaches the screen in one step.     *)
(* O_NONBLOCK is set on stdin's open file description.  Where that is      *)
(* stdout's too, as a shell's terminal is, what the terminal does not take *)
(* at once (it is full, or stopped with ^S) is dropped: the results of     *)
(* printf() and fflush() are ignored, and the C library forgets a buffer   *)
(* it could not write.  A stdout of its own is taken to accept everything. *)
(* The terminal is taken to have more rows than the board: the status line *)
(* is printed on its last row.                                             *)
(***************************************************************************)
EXTENDS Integers, Sequences, FiniteSets, SequencesExt

CONSTANTS
  BOARD_ROWS, BOARD_COLS,
  Patterns,        \* the sets of cells populate_board may set
  Losses,          \* the sets of cells whose output one frame may lose
  MaxCuts,         \* bound: frames cut short in a behaviour
  MaxGeneration,   \* bound: the counter "generation" stops there
  MaxKeys          \* bound: bytes typed in a behaviour

Cells == (0..(BOARD_ROWS - 1)) \X (0..(BOARD_COLS - 1))

ASSUME LifeAssumption ==
  /\ BOARD_ROWS \in Nat \ {0} /\ BOARD_COLS \in Nat \ {0}
  /\ Patterns \subseteq SUBSET Cells /\ Losses \subseteq SUBSET Cells
  /\ MaxCuts \in Nat
  /\ MaxGeneration \in Nat \ {0} /\ MaxKeys \in Nat

SIZE == BOARD_ROWS * BOARD_COLS
Index == 0..(SIZE - 1)
Idx(row, col) == row * BOARD_COLS + col

ESC == 27
Key == {ESC, 91}      \* escape, and any other byte

VARIABLES
  pc,
  board, living_cells, generation,
  front, back,       \* the buffers front and back point to
  screen, status,    \* on the terminal: the cells, the numbers shown below
  pending,           \* is a status line in the stdout buffer?
  ch, input, keysRead,   \* main's ch; the tty's queue; history: bytes read
  mode, oldt, flags, \* terminal and descriptor state, and what main saved
  found,             \* history: the mode main found
  shared,            \* are stdin and stdout one open file description?
  unsent, late,      \* history: the cells, and what else, whose last output
                     \* was dropped
  cuts               \* bound: the frames cut short so far

output == <<shared, unsent, late, cuts>>
game == <<board, living_cells, generation>>
keyboard == <<ch, input, keysRead>>
vars == <<pc, game, front, back, screen, status, pending, keyboard, mode,
          oldt, flags, found, output>>

Modes == [lflag : {"canonical", "character"}, nonblock : BOOLEAN,
          cursor : {"shown", "hidden"}]
Over == {"exited", "killed"}

Blank == [p \in Cells |-> " "]
NoNumbers == [generation |-> << >>, living |-> << >>]

\* The program reads ch before it is ever written when nothing was typed.
\* The terminal is clear, or full of what was printed before.
Init ==
  /\ pc = "setup"
  /\ board = [i \in Index |-> 0] /\ living_cells = 0 /\ generation = 1
  /\ front = [i \in Index |-> "."] /\ back = [i \in Index |-> "."]
  /\ \/ screen = Blank /\ status = NoNumbers
     \/ /\ screen = [p \in Cells |-> "X"]
        /\ status = [generation |-> <<9, 9>>, living |-> <<9, 9>>]
  /\ pending = FALSE
  /\ ch \in Key /\ input = << >> /\ keysRead = << >>
  /\ mode \in {m \in Modes : m.cursor = "shown"} /\ found = mode
  /\ oldt = mode.lflag /\ flags = mode.nonblock
  /\ shared \in BOOLEAN /\ cuts = 0
  /\ unsent = Cells /\ late = {"clear"}

\* init_board and populate_board (set_cell for each cell of the pattern).
Populate(pattern) ==
  board' = [i \in Index |->
              IF \E p \in pattern : Idx(p[1], p[2]) = i THEN 1 ELSE 0]

\* main up to the loop: save and change the terminal mode, set up the board,
\* print (into the stdout buffer) what clears the screen and hides the cursor.
Setup ==
  /\ pc = "setup" /\ pc' = "frame"
  /\ oldt' = mode.lflag /\ flags' = mode.nonblock
  /\ mode' = [mode EXCEPT !.lflag = "character", !.nonblock = TRUE]
  /\ \E pattern \in Patterns : Populate(pattern)
  /\ UNCHANGED <<living_cells, generation, front, back, screen, status,
                 pending, keyboard, found, output>>

-----------------------------------------------------------------------------
(* The board.                                                              *)

count_neighbors(b, row0, col0) ==
  Cardinality({q \in ((row0 - 1)..(row0 + 1)) \X ((col0 - 1)..(col0 + 1)) :
                 /\ q \in Cells
                 /\ Idx(q[1], q[2]) # Idx(row0, col0)
                 /\ b[Idx(q[1], q[2])] = 1})

\* A slip: a cell with four neighbors survives.
NextCellCrowded(b, row, col) ==
  LET count == count_neighbors(b, row, col)
  IN  IF b[Idx(row, col)] = 1 THEN IF count > 1 /\ count <= 4 THEN 1 ELSE 0
      ELSE IF count = 3 THEN 1 ELSE 0

NextCell(b, row, col) ==
  LET count == count_neighbors(b, row, col)
  IN  IF b[Idx(row, col)] = 1 THEN IF count > 1 /\ count < 4 THEN 1 ELSE 0
      ELSE IF count = 3 THEN 1 ELSE 0

\* The index i is visited as row i \div BOARD_COLS, column i % BOARD_COLS.
NextBoard(b) ==
  [i \in Index |-> NextCell(b, i \div BOARD_COLS, i % BOARD_COLS)]

CountLiving(b) == Cardinality({i \in Index : b[i] = 1})

update ==
  /\ board' = NextBoard(board)
  /\ living_cells' = CountLiving(board')

-----------------------------------------------------------------------------
(* The screen.                                                             *)

draw_board(b) == [i \in Index |-> IF b[i] # 0 THEN "X" ELSE "."]

\* The digits of n, which is an int, most significant first.
Powers == <<1, 10, 100, 1000, 10000, 100000, 1000000, 10000000, 100000000, 1000000000>>
Digits(n) ==
  LET len == CHOOSE d \in 1..10 : /\ d = 1 \/ Powers[d] <= n
                                  /\ d = 10 \/ n < Powers[d + 1]
  IN  [k \in 1..len |-> (n \div Powers[len - k + 1]) % 10]

\* Characters printed over old ones leave the longer tail of these behind.
Overprint(new, old) == new \o SubSeq(old, Len(new) + 1, Len(old))

\* The cells whose character differs: row i / BOARD_COLS, column
\* i % BOARD_COLS.
Changed(b) ==
  {<<i \div BOARD_COLS, i % BOARD_COLS>> : i \in {j \in Index : b[j] # front[j]}}

\* The screen when the characters that differ, but for the lost ones, are
\* printed over "under".
Differences(b, lost, under) ==
  LET sent == Changed(b) \ lost
  IN  [p \in Cells |-> IF p \in sent THEN b[Idx(p[1], p[2])] ELSE under[p]]

\* The cells whose output a flush may drop.
Dropped ==
  {{}} \cup (IF shared /\ cuts < MaxCuts THEN Losses ELSE {})

\* What is printed before the cells is dropped only with the first of them.
Whole(lost) == <<0, 0>> \notin lost

\* The first flush starts with what Setup printed.
ClearScreen(b, lost) ==
  \E cleared, hidden \in BOOLEAN :
    /\ hidden => cleared
    /\ Whole(lost) => hidden
    /\ screen' = Differences(b, lost, IF cleared THEN Blank ELSE screen)
    /\ status' = IF cleared THEN NoNumbers ELSE status
    /\ mode' = IF hidden THEN [mode EXCEPT !.cursor = "hidden"] ELSE mode
    /\ unsent' = IF cleared THEN Changed(b) \cap lost
                 ELSE (unsent \ Changed(b)) \cup (Changed(b) \cap lost)
    /\ late' = IF cleared THEN {} ELSE {"clear"}

\* The others start with the status line: n digits of the generation, then
\* m digits of the count arrive.
StatusLine(b, lost) ==
  \E n \in 0..Len(Digits(generation)), m \in 0..Len(Digits(living_cells)) :
    /\ m > 0 => n = Len(Digits(generation))
    /\ Whole(lost) => m = Len(Digits(living_cells))
    /\ status' = [generation |-> Overprint(SubSeq(Digits(generation), 1, n),
                                           status.generation),
                  living |-> Overprint(SubSeq(Digits(living_cells), 1, m),
                                       status.living)]
    /\ late' = (late \cap {"clear"})
                 \cup (IF n < Len(Digits(generation)) THEN {"generation"} ELSE {})
                 \cup (IF m < Len(Digits(living_cells)) THEN {"living"} ELSE {})
    /\ screen' = Differences(b, lost, screen)
    /\ unsent' = (unsent \ Changed(b)) \cup (Changed(b) \cap lost)
    /\ UNCHANGED mode

\* The top of the loop, down to fflush.
Frame ==
  /\ pc = "frame" /\ pc' = "read"
  /\ back' = draw_board(board)
  /\ \E lost \in Dropped :
       /\ cuts' = IF lost = {} THEN cuts ELSE cuts + 1
       /\ \/ pending /\ StatusLine(draw_board(board), lost)
          \/ ~pending /\ ClearScreen(draw_board(board), lost)
  /\ pending' = FALSE
  /\ UNCHANGED <<game, front, keyboard, oldt, flags, found, shared>>

\* A slip: the byte read in the previous round is looked at.
ReadKeyLate ==
  /\ pc = "read"
  /\ IF input = << >> THEN UNCHANGED keyboard
     ELSE /\ ch' = Head(input) /\ input' = Tail(input)
          /\ keysRead' = Append(keysRead, Head(input))
  /\ pc' = IF ch = ESC THEN "cleanup" ELSE "update"
  /\ UNCHANGED <<game, front, back, screen, status, pending, mode, oldt,
                 flags, found, output>>

\* A slip: everything typed is read, and the last byte looked at.
ReadKeyLast ==
  /\ pc = "read"
  /\ IF input = << >> THEN UNCHANGED keyboard
     ELSE /\ ch' = Last(input) /\ input' = << >>
          /\ keysRead' = keysRead \o input
  /\ pc' = IF ch' = ESC THEN "cleanup" ELSE "update"
  /\ UNCHANGED <<game, front, back, screen, status, pending, mode, oldt,
                 flags, found, output>>

\* A non-blocking read() that finds nothing leaves ch as it was.
ReadKey ==
  /\ pc = "read"
  /\ IF input = << >> THEN UNCHANGED keyboard
     ELSE /\ ch' = Head(input) /\ input' = Tail(input)
          /\ keysRead' = Append(keysRead, Head(input))
  /\ pc' = IF ch' = ESC THEN "cleanup" ELSE "update"
  /\ UNCHANGED <<game, front, back, screen, status, pending, mode, oldt,
                 flags, found, output>>

\* A slip: the buffers are not exchanged.
UpdateNoSwap ==
  /\ pc = "update" /\ pc' = "frame"
  /\ update
  /\ generation' = IF generation < MaxGeneration THEN generation + 1
                   ELSE generation
  /\ pending' = TRUE
  /\ UNCHANGED <<front, back, screen, status, keyboard, mode, oldt, flags,
                 found, output>>

\* The bottom of the loop: swap the buffers, compute the next generation,
\* print the status line (into the stdout buffer).
Update ==
  /\ pc = "update" /\ pc' = "frame"
  /\ front' = back /\ back' = front
  /\ update
  /\ generation' = IF generation < MaxGeneration THEN generation + 1
                   ELSE generation
  /\ pending' = TRUE
  /\ UNCHANGED <<screen, status, keyboard, mode, oldt, flags, found, output>>

\* After the loop, and the flush of stdout when main returns, by which time
\* the flags main found are back.
Cleanup ==
  /\ pc = "cleanup" /\ pc' = "exited"
  /\ \E cursor \in {"shown"} \cup (IF shared /\ flags THEN {mode.cursor} ELSE {}) :
       mode' = [lflag |-> oldt, nonblock |-> flags, cursor |-> cursor]
  /\ UNCHANGED <<game, front, back, screen, status, pending, keyboard, oldt,
                 flags, found, output>>

-----------------------------------------------------------------------------
Type(k) ==
  /\ pc \notin Over /\ Len(input) + Len(keysRead) < MaxKeys
  /\ input' = Append(input, k)
  /\ UNCHANGED <<pc, game, front, back, screen, status, pending, ch, keysRead,
                 mode, oldt, flags, found, output>>

\* A signal (ISIG is still set, so Ctrl-C too): nothing is restored.  Before
\* the set-up there is nothing to restore.
Interrupt ==
  /\ pc \notin Over \cup {"setup"} /\ pc' = "killed"
  /\ UNCHANGED <<game, front, back, screen, status, pending, keyboard, mode,
                 oldt, flags, found, output>>

Ended == pc \in Over /\ UNCHANGED vars

Main == Setup \/ Frame \/ ReadKey \/ Update \/ Cleanup

Next == Main \/ (\E k \in Key : Type(k)) \/ Interrupt \/ Ended

\* The program is scheduled; nobody has to type or to send a signal.
Spec == Init /\ [][Next]_vars /\ WF_vars(Main)

-----------------------------------------------------------------------------
(* Properties.                                                             *)

\* Every variable stays in its range; in particular the arrays keep their
\* index set and the cells their values.
TypeOK ==
  /\ pc \in {"setup", "frame", "read", "update", "cleanup"} \cup Over
  /\ board \in [Index -> {0, 1}] /\ living_cells \in 0..SIZE
  /\ generation \in 1..MaxGeneration
  /\ front \in [Index -> {".", "X"}] /\ back \in [Index -> {".", "X"}]
  /\ screen \in [Cells -> {" ", ".", "X"}]
  /\ pending \in BOOLEAN /\ ch \in Key
  /\ input \in Seq(Key) /\ keysRead \in Seq(Key)
  /\ mode \in Modes /\ found \in Modes
  /\ oldt \in {"canonical", "character"} /\ flags \in BOOLEAN
  /\ shared \in BOOLEAN /\ unsent \subseteq Cells
  /\ late \subseteq {"clear", "generation", "living"} /\ cuts \in 0..MaxCuts

\* Although only differences are ever sent, the screen shows an X exactly
\* where the board has a living cell, from the moment a frame is flushed
\* until the board changes.  (A cell never alive stays blank, not ".".)  The
\* exception is a cell whose last character was dropped, which needs a stdout
\* that shares stdin's description: it is wrong until it next changes.
ScreenShowsBoard ==
  pc \in {"read", "update", "cleanup", "exited"} =>
    \A p \in Cells :
      \/ shared /\ p \in unsent
      \/ screen[p] = "X" <=> board[Idx(p[1], p[2])] = 1


\* The numbers shown with a frame are those of that frame: the count of the
\* X's on the screen and the number of the generation.  Digits of a longer
\* earlier count stay behind the count.  Excepted is what was dropped.
StatusMatchesScreen ==
  (pc \in {"read", "update"} /\ generation > 1) =>
    /\ \/ shared /\ (unsent # {} \/ "living" \in late)
       \/ IsPrefix(Digits(Cardinality({p \in Cells : screen[p] = "X"})),
                   status.living)
    /\ \/ shared /\ late \cap {"clear", "generation"} # {}
       \/ status.generation = Digits(generation)

\* The loop is left on the first escape byte, and on nothing else, except
\* that a program that has read no byte at all may leave it on whatever ch
\* happened to hold.
LeavesOnEscape ==
  /\ (pc \in {"cleanup", "exited"} /\ keysRead # << >>) =>
       Last(keysRead) = ESC
  /\ \A i \in 1..Len(keysRead) :
       keysRead[i] = ESC => i = Len(keysRead) /\ pc \in {"cleanup"} \cup Over

\* A program that was not killed leaves terminal and descriptor as found; the
\* cursor stays hidden only on a description it found non-blocking, which may
\* drop the last output.
RestoredOnExit ==
  pc = "exited" => \/ mode = found
                   \/ /\ shared /\ found.nonblock
                      /\ mode = [found EXCEPT !.cursor = "hidden"]

\* The numbers shown with a frame are those of that frame; the loop is left on
\* the first escape byte, and on nothing else but an uninitialized ch before
\* any byte was read; and a program that was not killed leaves terminal and
\* descriptor as it found them.  Output dropped by a shared description that
\* does not block is excepted.
EndsInOrder == TypeOK /\ StatusMatchesScreen /\ LeavesOnEscape /\ RestoredOnExit

\* The program plays the game of the README's rules.
Game == INSTANCE LifeRules
          WITH seeded <- pc # "setup",
               alive <- {p \in Cells : board[Idx(p[1], p[2])] = 1}
PlaysByTheRules == Game!Rules

\* An escape byte that was typed ends the program.
EscapeHonoured == (\E i \in 1..Len(input) : input[i] = ESC) ~> pc \in Over
=============================================================================
