------------------------------ MODULE MCScreen ------------------------------
(* A screen of six by eight pixels with two-by-two characters: three lines, *)
(* the third within the margin.  The cursor leaves it after a few newlines;  *)
(* a put of 21 newlines brings the row number to the edge of its word.       *)
EXTENDS Screen

Msg(p, t, a) == [prefix |-> p, text |-> t, args |-> a]

MCMessages == { Msg(0, <<"i", NL>>, <<>>),
                Msg(0, <<"e", ARG, NL>>, <<"7">>),
                Msg(2, <<NL, NL, "n", "n", "n", "n", "n">>, <<>>),
                Msg(1, <<"k", ARG, NL, "z">>, <<"5">>) }
MCPuts == { Msg(3, <<"u", NL>>, <<>>), Msg(0, [i \in 1 .. 21 |-> NL], <<>>) }
MCWin == [x |-> 1, y |-> 2, width |-> 5, height |-> 2, bar |-> 1, inset |-> 1]
=============================================================================
