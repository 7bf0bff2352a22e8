------------------------------ MODULE MCLocal -------------------------------
(* Model checking of Local: the texts and the screens of the run.             *)
EXTENDS Local

(* Texts with newlines, with a backslash before an n or a newline, and with a *)
(* carriage return.                                                           *)
MCTexts ==
    {<<>>, <<"newline">>, <<"a">>, <<"a", "newline", "n">>, <<"\\", "n">>, <<"\\", "newline">>,
     <<"newline", "return">>, <<"return">>}

(* Lines that lost their end: nothing left, and a half of a placeholder.      *)
MCStrays == {<<>>, <<"w", "]">>}

(* An entry of one long line, one of four short ones.                         *)
MCViewTexts == {<<5>>, <<1, 0, 1, 1>>}
MCClearedText == <<1>>

(* Screens of one row, too low for a status line, and high and narrow.        *)
MCScreens ==
    {[height |-> 1, width |-> 4], [height |-> 6, width |-> 4], [height |-> 12, width |-> 2]}
=============================================================================
