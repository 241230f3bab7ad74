------------------------------ MODULE Grammar ------------------------------
(***************************************************************************)
(* The grammar of the shell as doc/42sh-grammar.md gives it, as data, and  *)
(* what it means for a sequence of tokens to be derived from it.  It is    *)
(* the reference the parser is compared with, so it knows nothing of how   *)
(* the parser works.                                                       *)
(*                                                                         *)
(* A token is the text that stands for it; "w" is any word, "a=w" an       *)
(* assignment, "2" a number written against a redirection, "<", ">" and    *)
(* ">&" the redirections.  Everything the grammar has a rule for is a      *)
(* nonterminal: name of a rule |-> the sequences of symbols it stands for. *)
(* Repetitions are written out as rules of their own.                      *)
(***************************************************************************)
EXTENDS Naturals, Sequences

\* The rules.  Left out are what no rule of the parser claims to read: heredocs,
\* the word `function`, and `&` in compound lists (rl_compound_list.c:22); and
\* the redirections that only differ in their spelling.  An input also ends with
\* a newline, and the target of >& may be a number, as the comments in rl_input
\* and rl_redirection have it.
Rules == [
    input         |-> {<<"list", "end">>, <<"end">>},
    end           |-> {<<"LF">>, <<"EOF">>},
    list          |-> {<<"and_or", "list_rest">>},
    list_rest     |-> {<<>>, <<";", "list_more">>, <<"&", "list_more">>},
    list_more     |-> {<<>>, <<"list">>},
    and_or        |-> {<<"pipeline", "and_or_rest">>},
    and_or_rest   |-> {<<>>, <<"&&", "newlines", "and_or">>, <<"||", "newlines", "and_or">>},
    pipeline      |-> {<<"commands">>, <<"!", "commands">>},
    commands      |-> {<<"command", "pipeline_rest">>},
    pipeline_rest |-> {<<>>, <<"|", "newlines", "commands">>},
    command       |-> {<<"simple_command">>, <<"shell_command", "redirections">>,
                       <<"funcdec", "redirections">>},
    simple_command |-> {<<"prefix", "prefixed">>, <<"element", "elements">>},
    prefixed      |-> {<<>>, <<"simple_command">>},
    elements      |-> {<<>>, <<"element", "elements">>},
    shell_command |-> {<<"{", "compound_list", "}">>, <<"(", "compound_list", ")">>,
                       <<"for", "w", "for_rest">>,
                       <<"while", "compound_list", "do_group">>,
                       <<"until", "compound_list", "do_group">>,
                       <<"case", "w", "newlines", "in", "newlines", "case_rest">>,
                       <<"if", "compound_list", "then", "compound_list", "else_clause", "fi">>},
    funcdec       |-> {<<"w", "(", ")", "newlines", "shell_command">>},
    redirections  |-> {<<>>, <<"redirection", "redirections">>},
    redirection   |-> {<<"redirect">>, <<"2", "redirect">>},
    redirect      |-> {<<"<", "w">>, <<">", "w">>, <<">&", "target">>},
    target        |-> {<<"w">>, <<"2">>},
    prefix        |-> {<<"a=w">>, <<"redirection">>},
    element       |-> {<<"w">>, <<"redirection">>},
    compound_list |-> {<<"newlines", "and_or", "compound_rest">>},
    compound_rest |-> {<<>>, <<";", "newlines", "compound_more">>,
                       <<"LF", "newlines", "compound_more">>},
    compound_more |-> {<<>>, <<"and_or", "compound_rest">>},
    newlines      |-> {<<>>, <<"LF", "newlines">>},
    for_rest      |-> {<<"newlines", "for_body">>, <<";", "newlines", "do_group">>},
    for_body      |-> {<<"do_group">>, <<"in", "for_words", "newlines", "do_group">>},
    for_words     |-> {<<";">>, <<"LF">>, <<"w", "for_words">>},
    do_group      |-> {<<"do", "compound_list", "done">>},
    case_rest     |-> {<<"esac">>, <<"case_clause", "esac">>},
    case_clause   |-> {<<"case_item", "newlines">>, <<"case_item", ";;", "newlines", "case_more">>},
    case_more     |-> {<<>>, <<"case_clause">>},
    case_item     |-> {<<"patterns">>, <<"(", "patterns">>},
    patterns      |-> {<<"w", "patterns_rest">>},
    patterns_rest |-> {<<"|", "patterns">>, <<")", "newlines", "item_list">>},
    item_list     |-> {<<>>, <<"compound_list">>},
    else_clause   |-> {<<>>, <<"else", "compound_list">>,
                       <<"elif", "compound_list", "then", "compound_list", "else_clause">>}]

Reserved == {"!", "{", "}", "if", "then", "else", "elif", "fi", "while", "until",
             "do", "done", "for", "in", "case", "esac"}

----------------------------------------------------------------------------

(* What is left to derive: a set of sequences of symbols, one for each way to *)
(* derive the tokens read so far from the left.                               *)

RECURSIVE Expand(_)

Inner(f) == f # <<>> /\ Head(f) \in DOMAIN Rules

\* No rule is left recursive, so that this ends.
Expand(sentential) ==
    IF \A f \in sentential : ~Inner(f) THEN sentential
    ELSE Expand(UNION {IF Inner(f) THEN {rhs \o Tail(f) : rhs \in Rules[Head(f)]} ELSE {f} :
                       f \in sentential})

Derivations == {<<"input">>}
After(sentential, token) ==
    {Tail(f) : f \in {g \in Expand(sentential) : g # <<>> /\ Head(g) = token}}
Complete(sentential) == <<>> \in Expand(sentential)
============================================================================
