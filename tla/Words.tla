------------------------------- MODULE Words -------------------------------
(***************************************************************************)
(* From characters to fields: the lexer collects a word, quotes and        *)
(* brackets included (Lexer), and rl_exec_simple_cmd has it expanded       *)
(* (Expansion).  Each keeps its own idea of what is quoted; here they read *)
(* the same word, and the fields are compared with those of PosixFields.   *)
(***************************************************************************)
EXTENDS Lexer, Expansion

Posix == INSTANCE PosixFields

vars == <<lexVars, expVars>>

Init == LexInit /\ ExpInit

\* symexp_word is given the word, and the arguments of the script or function.
\* The character that follows the word in the stream plays no part.  What
\* symexp.c may take for a command must be one: of names and blanks, closed in
\* the word, and not empty between backquotes; other commands are the subject of
\* Pipeline, which has them parsed and run.
Expand ==
    /\ phase = "done" /\ token = T_WORD /\ next = EOF /\ scope.expands
    /\ ~reader.doubt /\ ~reader.hard /\ reader.body = ""
    /\ \E args \in scope.args : Begin(text, args)

Next ==
    \/ LexNext /\ UNCHANGED expVars
    \/ (Expand \/ ExpNext) /\ UNCHANGED lexVars

Spec == Init /\ [][Next]_vars

----------------------------------------------------------------------------
(* Properties *)

\* The state of both machines.
TypeOK ==
    /\ LexTypeOK
    /\ doing \in {"idle", "expand", "read", "done"}
    /\ word \in {<<>>, text} /\ exp.pos \in 1 .. Len(word) + 1
    /\ exp.i \in 0 .. Len(exp.key)
    /\ exp.mode \subseteq {Exp, Single, Double, HadOne}

\* The fields of a word are those of POSIX, for every mixture of quotes,
\* escapes, parameters and substitutions but those PosixFields lists as odd.
FieldsAsPosix ==
    doing = "done" /\ ~Posix!IsOdd(word, exp.args, outputs) =>
        exp.dest = Posix!Fields(word, exp.args, outputs)

\* symexp.c ends a word outside of quotes, as the lexer does that gave it the
\* word: the two agree on where quotes begin and end.
QuotesAgree == doing = "done" => exp.mode \subseteq {HadOne}

=============================================================================
