----------------------------- MODULE LifeRules -----------------------------
(***************************************************************************)
(* The Game of Life as src/stage0/life/README.md states its rules, on a    *)
(* bounded board of coordinates.  Nothing here knows of arrays or indices. *)
(***************************************************************************)
EXTENDS Integers, FiniteSets

CONSTANTS
  Cells,      \* the coordinates of the board, pairs of integers
  Patterns    \* the sets of cells the game may start from

VARIABLES seeded, alive

Neighbors(p) ==
  {q \in ((p[1] - 1)..(p[1] + 1)) \X ((p[2] - 1)..(p[2] + 1)) :
     q \in Cells /\ q # p}

LivingNeighbors(p) == Cardinality(Neighbors(p) \cap alive)

\* "Each cell with one or no neighbors dies", "with four or more dies",
\* "with two or three neighbors survives".
Survives(p) == p \in alive /\ LivingNeighbors(p) \in 2..3

\* "Each cell with three neighbors becomes populated."
Populated(p) == p \notin alive /\ LivingNeighbors(p) = 3

Start == ~seeded /\ alive = {}

Seed == ~seeded /\ seeded' = TRUE /\ alive' \in Patterns

Generation ==
  /\ seeded /\ UNCHANGED seeded
  /\ alive' = {p \in Cells : Survives(p) \/ Populated(p)}

Rules == Start /\ [][Seed \/ Generation]_<<seeded, alive>>
=============================================================================
