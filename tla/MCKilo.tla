------------------------------- MODULE MCKilo -------------------------------
(* A two-line, twelve-column terminal: wide enough for a report that a      *)
(* timeout can cut between the digits of its column number.                 *)
EXTENDS Kilo

MCKeys == { <<CTRL_Q>>, <<120>>, <<ESCSEQ>>,
            <<ESCSEQ, LBRACKET, 66>>,              \* cursor down
            <<ESCSEQ, LBRACKET, 67>>,              \* cursor right
            <<ESCSEQ, LBRACKET, 49, SEMI, 50, 67>> }  \* shift + cursor right
MCTermSize == <<2, 12>>
MCWinSizes == { <<2, 12>>, <<0, 0>>, <<0, 2>>, <<1, 1>> }
=============================================================================
