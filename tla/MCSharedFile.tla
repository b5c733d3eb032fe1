---------------------------- MODULE MCSharedFile ----------------------------
(* One process of each kind, and two that create the file.                  *)
EXTENDS SharedFile, TLC

\* append.c is given two words, of two bytes and of one.
MCWords == <<2, 1>>

\* Nothing in the program tells processes of a kind apart.
Interchangeable == Permutations(Seekers) \union Permutations(Openers)
=============================================================================
