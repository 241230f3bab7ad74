------------------------------ MODULE MCParser -----------------------------
(***************************************************************************)
(* Inputs for the parser: one family for each group of rules.  Those of    *)
(* rules whose shortest commands are long have their first lexemes fixed.  *)
(***************************************************************************)
EXTENDS Parser

Scope(opening, lexemes, length) ==
    [opening |-> opening, lexemes |-> lexemes, length |-> length]

MCScopes ==
    {Scope(<<>>, {"w", "if", "then", "fi", "LF"}, 8),
     Scope(<<"if">>, {"w", "then", "elif", "else", "fi", ";"}, 8),
     Scope(<<"if", "w", ";", "then", "w", ";">>, {"w", "then", "elif", "else", "fi", ";", "LF"}, 12),
     Scope(<<"if", "w", ";", "then", "w", ";", "elif", "w">>, {"then", "w", "else", "fi", ";", "LF"}, 14),
     Scope(<<>>, {"w", "while", "do", "done", "LF"}, 8),
     Scope(<<>>, {"w", "until", "do", "done", "LF", "EOF"}, 7),
     Scope(<<"for", "w">>, {"w", "in", "do", "done", ";", "LF"}, 9),
     Scope(<<"for", "w", "in", "w">>, {"w", "do", "done", ";", "LF"}, 11),
     Scope(<<"case">>, {"w", "in", "esac", ")", ";;", "LF"}, 9),
     Scope(<<"case", "w", "in">>, {"w", "esac", "(", "|", ")", ";;", "LF"}, 10),
     Scope(<<>>, {"w", "(", ")", "{", "}", "LF"}, 7),
     Scope(<<>>, {"w", "if", "{", "|", "&", "&&", ";", "LF"}, 5),
     Scope(<<>>, {"w", "!", "|", "&&", "||", ";", "LF", "EOF"}, 6),
     Scope(<<>>, {"w", "a=w", "2", "<", ">&", ";", "LF"}, 6)}
============================================================================
