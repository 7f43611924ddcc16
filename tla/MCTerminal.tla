------------------------------- MODULE MCTerminal -------------------------------
(***************************************************************************)
(* A small screen.                                                         *)
(***************************************************************************)
EXTENDS Programs

MCPrompt == <<"$">>

\* A whole line, an unfinished one, one that is longer than a row, and one that
\* takes back what was there.
MCOutputs == {<<"b", "newline">>, <<"b", " ">>, <<"b", "b", "b", "b", "b", "b", "b">>,
              <<"backspace", "b">>}
===============================================================================
