---------------------------- MODULE MCFileCopies ----------------------------
(* FileCopies for TLC: every pattern of null and other bytes up to length 4. *)
EXTENDS FileCopies

\* Bytes that are not null differ from each other, so that a byte in the wrong
\* place is seen.
MCInputs ==
  UNION {{[k \in 1..n |-> IF k \in data THEN k ELSE NUL] : data \in SUBSET (1..n)} :
         n \in 0..4}

\* An old OUT that is absent, shorter than most inputs, and longer than all.
MCOlds == {[k \in 1..n |-> 9] : n \in {0, 2, 5}}
=============================================================================
