---- MODULE MCService ----
(* Instances of Service for TLC: a short request, and one with a header that *)
(* goes on over a second line; a text that is refused.                        *)
EXTENDS Service

Line == <<"char", "sp", "/", "sp", "H", "T", "T", "P", "/", "digit", ".", "digit", "CR", "LF">>

Header == <<"char", ":", "sp", "char", "CR", "LF", "tab", "char", "CR", "LF">>

Short == Line \o CRLF
Long == Line \o Header \o CRLF
Malformed == <<"char", "sp", "char", "sp", "char">>

MCTexts == {Short, Malformed}

\* All the states of the parser, and all its moves.
MCRequests == {Short, Long}

\* Clocks that stand, run on, jump by the length of the ring and more, and are set
\* back.
MCHistories == [1 .. 5 -> 0 .. 5]
====
