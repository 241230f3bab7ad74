------------------------------- MODULE Chars -------------------------------
(* The characters that lexer.c and symexp.c tell apart.  Other characters    *)
(* stand for themselves.                                                     *)

LF == "\n"
SQ == "'"
DQ == "\""
BQ == "backquote"
BS == "\\"

\* TOKEN_DELIM
Delimiters == {"|", "&", ";", "(", ")", "<", ">", " ", "\t", LF}

=============================================================================
