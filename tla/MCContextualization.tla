------------------------- MODULE MCContextualization -------------------------
(* TLC instances of Contextualization: documents of one to four chunks, the  *)
(* budgets of which are small enough to be exceeded.                         *)
EXTENDS Contextualization

Letters(n) == [i \in 1..n |-> "letter"]
Blank == <<"blank">>

\* Pages without text, within one window, ending with a window, one character
\* beyond it, and with blanks at the edges of windows.
MCTexts ==
    {Blank, Blank \o Letters(1), Letters(3), Letters(4),
     Letters(2) \o Blank \o Blank \o Letters(2),
     Letters(5) \o Blank \o Letters(1)}
=============================================================================
