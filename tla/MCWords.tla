------------------------------ MODULE MCWords ------------------------------
(* Instances of Words: the inputs of a scope are all the texts of its       *)
(* characters up to its length.                                             *)
EXTENDS Words

MCValue  == [k \in {<<"x">>, <<"y">>} |-> IF k = <<"x">> THEN <<"X">> ELSE <<"Y", " ", "Z">>]
MCStatus == <<"0">>

\* Arguments: none, one, several, some with blanks or empty.
Plain  == {<<<<"A">>>>}
Varied == Plain \cup {<<>>, <<<<"A">>, <<"B">>, <<"C">>>>, <<<<"A", " ", "B">>, <<>>, <<"C">>>>}

Lexed(chars, length, starts) ==
    [chars |-> chars, length |-> length, starts |-> starts, expands |-> FALSE, args |-> {}]
Expanded(chars, length, args) ==
    [chars |-> chars, length |-> length, starts |-> {FALSE}, expands |-> TRUE, args |-> args]

\* Tokens, keywords and nested brackets for the lexer; words for both.
MCScopes ==
    {Lexed({"x", "$", "(", ")", DQ, BQ}, 6, {FALSE}),
     Lexed({"$", "{", "}", "x", DQ, SQ}, 6, {TRUE}),
     Lexed({"<", ">", "&", "-", "|", "1"}, 4, BOOLEAN),
     Lexed({";", "|", LF, "!", "(", " ", "="}, 4, BOOLEAN),
     Lexed({"d", "o", "n", "e", " "}, 5, BOOLEAN),
     Lexed({"i", "f", "n", ";"}, 4, BOOLEAN),
     Expanded({"x", SQ, DQ, BS, " "}, 6, Plain),
     Expanded({"x", "y", "1", "$", DQ}, 5, Varied),
     Expanded({"x", "$", "*", "@", "?", DQ}, 5, Varied),
     Expanded({"$", "{", "}", "x", "1", DQ}, 6, Plain),
     Expanded({"$", "(", ")", "x", DQ}, 6, Plain),
     Expanded({"x", "$", BQ, SQ, BS, LF}, 5, Plain),
     Expanded({"x", "1", "$", "(", ")", "{", "}", DQ, SQ, BQ, BS, " "}, 5, Plain)}

=============================================================================
