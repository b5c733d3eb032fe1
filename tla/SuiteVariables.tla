--------------------------- MODULE SuiteVariables ---------------------------
(***************************************************************************)
(* The variables that the systems of MCSuite share: one system is chosen   *)
(* at the start, and v1, v2, ... are its variables.                        *)
(***************************************************************************)
VARIABLES system, v1, v2, v3, v4, v5, v6, v7
vars == <<system, v1, v2, v3, v4, v5, v6, v7>>
=============================================================================
