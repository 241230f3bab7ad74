----------------------------- MODULE Expansion -----------------------------
(***************************************************************************)
(* The expansion of one word into fields (symexp.c), character by          *)
(* character.  Words compares it with the reference of PosixFields.        *)
(*                                                                         *)
(* A character is a string, a value a sequence of them.  What a command    *)
(* substitution writes is chosen by the environment; its commands are the  *)
(* subject of Pipeline.                                                    *)
(***************************************************************************)
EXTENDS Chars, Naturals, Sequences, SequencesExt

CONSTANTS
    Value,    \* what a variable is bound to
    Status,   \* $?
    MaxOutput \* bound on the characters a substitution writes

ASSUME ExpansionAssumption == MaxOutput \in Nat /\ \A k \in DOMAIN Value : k # <<>>

VARIABLES
    word,    \* the word, as the lexer collected it
    exp,     \* struct symexp_state
    doing,   \* "idle", "expand", "read", "done"
    outputs  \* what each substitution has written

expVars == <<word, exp, doing, outputs>>

Digit == {"1"}
IsInt(key)  == key # <<>> /\ ToSet(key) \subseteq Digit
Number(key) == FoldLeft(LAMBDA n, digit : 10 * n + 1, 0, key)

----------------------------------------------------------------------------
(* Steps of symexp_word; x is the state, x.args the arguments of s->ctx *)

Exp    == "dollar"
Single == "single"
Double == "double"
HadOne == "had a quote"

NewExp == [pos |-> 1, mode |-> {}, i |-> 0, key |-> <<>>, vec |-> <<>>, dest |-> <<>>,
           blanks |-> FALSE, args |-> <<>>]

Toggled(mode, m) == IF m \in mode THEN mode \ {m} ELSE mode \cup {m}

\* __search_sym
Search(x) ==
    IF IsInt(x.key) /\ Number(x.key) <= Len(x.args) THEN x.args[Number(x.key)]
    ELSE IF x.key \in DOMAIN Value THEN Value[x.key]
    ELSE <<>>

Put(x, s)   == [x EXCEPT !.vec = @ \o s]
ToDest(x)   == [x EXCEPT !.dest = Append(@, x.vec), !.vec = <<>>]
Advance(x)  == [x EXCEPT !.pos = @ + 1]

\* __exp_args_array
ArgsArray(x) ==
    IF x.args = <<>> THEN x
    ELSE IF Len(x.args) = 1 THEN Put(x, x.args[1])
    ELSE LET y == ToDest(Put(x, x.args[1]))
         IN [y EXCEPT !.dest = @ \o SubSeq(x.args, 2, Len(x.args) - 1), !.vec = Last(x.args)]

Joined(x) ==
    FlattenSeq([n \in DOMAIN x.args |-> IF n = 1 THEN x.args[n] ELSE <<" ">> \o x.args[n]])

SpecialChars == {"@", "*", "?", "$"}

\* __exp_single_char
SingleChar(x, c) ==
    CASE c = "@" -> ArgsArray(x)
      [] c = "*" -> IF Double \in x.mode THEN Put(x, Joined(x)) ELSE ArgsArray(x)
      [] c = "?" -> Put(x, Status)
      [] c = "$" -> Put(x, <<"pid">>)
      [] OTHER   -> x

\* quit_dollard_mode
Quit(x) ==
    IF Exp \notin x.mode THEN x
    ELSE Put([x EXCEPT !.mode = @ \ {Exp}],
             IF x.i = 0 THEN <<"$">> ELSE Search(x))

----------------------------------------------------------------------------
(* symexp_word *)

ExpInit ==
    /\ word = <<>> /\ exp = NewExp /\ doing = "idle" /\ outputs = <<>>

Begin(w, args) ==
    /\ doing = "idle" /\ doing' = "expand"
    /\ word' = w /\ exp' = [NewExp EXCEPT !.args = args]
    /\ UNCHANGED outputs

InExp    == Exp \in exp.mode
InSingle == Single \in exp.mode
InDouble == Double \in exp.mode

Turn == doing = "expand" /\ exp.pos <= Len(word)
Char == word[exp.pos]

\* The branch the loop takes, in the order of the code.
Branch ==
    IF (Char = SQ /\ ~InDouble) \/ (Char = DQ /\ ~InSingle) THEN "quote"
    ELSE IF Char = "$" /\ ~InSingle /\ (InExp => exp.i # 0) THEN "dollar"
    ELSE IF InExp /\ Char \in {" ", "}", ")"} THEN "end"
    ELSE IF InExp /\ exp.i = 0 /\ Char = "(" THEN "substitution"
    ELSE IF Char = BQ /\ ~InSingle THEN "backquote"
    ELSE IF Char = BS /\ exp.pos < Len(word) THEN "escape"
    ELSE IF InExp /\ ~InSingle THEN "acquire"
    ELSE "literal"

Go(branch, x) ==
    /\ Turn /\ Branch = branch
    /\ exp' = x /\ UNCHANGED <<word, doing, outputs>>

Quote ==
    LET side == IF Char = SQ THEN Single ELSE Double IN
    Go("quote", Quit([Advance(exp) EXCEPT !.mode = Toggled(@, side) \cup {HadOne}]))

\* Mutant of StartParameter: the parameter before is forgotten.
ParameterForgets == Go("dollar", [Advance(exp) EXCEPT !.i = 0, !.mode = @ \cup {Exp}])

StartParameter == Go("dollar", [Quit(Advance(exp)) EXCEPT !.i = 0, !.mode = @ \cup {Exp}])

EndParameter == Go("end", Quit(Advance(exp)))

\* __exp_cmd_substitution: the text is parsed from its bracket on, as far as the
\* closing one.  The stream is then a character further if the lexer has looked
\* ahead, which the offset counts on; for an empty command it has not, and the
\* closing bracket is met again unless it is the last character.
Closing ==
    LET ends == {n \in exp.pos + 1 .. Len(word) :
                   word[n] = IF Char = BQ THEN BQ ELSE ")"}
    IN CHOOSE n \in ends : \A m \in ends : n <= m

EmptyCommand == \A n \in exp.pos + 1 .. Closing - 1 : word[n] = " "

Opened == [(IF Char = BQ THEN Quit(exp) ELSE exp) EXCEPT !.mode = @ \ {Exp}]

SubstituteNothing ==
    /\ Turn /\ Branch \in {"substitution", "backquote"} /\ EmptyCommand
    /\ exp' = [Opened EXCEPT !.pos = IF Closing = Len(word) THEN Closing + 1 ELSE Closing]
    /\ UNCHANGED <<word, doing, outputs>>

\* Mutant of Substitute: the offset is one too large.
SubstituteTooFar ==
    /\ Turn /\ Branch \in {"substitution", "backquote"} /\ ~EmptyCommand
    /\ exp' = [Opened EXCEPT !.pos = Closing + 2, !.blanks = FALSE]
    /\ doing' = "read" /\ outputs' = Append(outputs, <<>>)
    /\ UNCHANGED word

Substitute ==
    /\ Turn /\ Branch \in {"substitution", "backquote"} /\ ~EmptyCommand
    /\ exp' = [Opened EXCEPT !.pos = Closing + 1, !.blanks = FALSE]
    /\ doing' = "read" /\ outputs' = Append(outputs, <<>>)
    /\ UNCHANGED word

\* Blanks and newlines separate alike.
Separator == {" ", LF}

\* Mutant of Reached: blanks never separate.
ReachedJoined(x) == x

\* __read_stream_into_list, before a character that does not separate.
Reached(x) ==
    CASE ~x.blanks \/ x.vec = <<>>                        -> x
      [] x.blanks /\ x.vec # <<>> /\ Double \in x.mode    -> Put(x, <<" ">>)
      [] x.blanks /\ x.vec # <<>> /\ Double \notin x.mode -> ToDest(x)

ReadByte ==
    /\ doing = "read" /\ Len(Last(outputs)) < MaxOutput
    /\ \E b \in {"o"} \cup Separator :
         /\ outputs' = [outputs EXCEPT ![Len(outputs)] = Append(@, b)]
         /\ exp' = IF b \in Separator THEN [exp EXCEPT !.blanks = TRUE]
                   ELSE Put([Reached(exp) EXCEPT !.blanks = FALSE], <<b>>)
    /\ UNCHANGED <<word, doing>>

EndRead == doing = "read" /\ doing' = "expand" /\ UNCHANGED <<word, exp, outputs>>

\* Mutant of Escaped: a quote is not escaped in double quotes.
EscapedNoQuote(ch) == ch = BS \/ ~(InDouble \/ InSingle) \/ (InDouble /\ ch \in {BQ, LF})

\* The character after a backslash loses its meaning.
Escaped(ch) == ch = BS \/ ~(InDouble \/ InSingle) \/ (InDouble /\ ch \in {DQ, BQ, LF})

\* __expand_escape_character
Escape ==
    /\ Turn /\ Branch = "escape"
    /\ LET ch == word[exp.pos + 1]
           x  == Quit(Advance(exp))
       IN exp' = IF Escaped(ch)
                   THEN Put(Advance(x), IF ch = LF THEN <<>> ELSE <<ch>>)
                   ELSE Put(x, <<BS>>)
    /\ UNCHANGED <<word, doing, outputs>>

\* The key is not cleared when a parameter begins: one of digits, which ends at
\* the next character, also ends the parameter after it before its first.
Stale == IsInt(exp.key) /\ Char \notin Digit

Skip == Char \in {"(", "{"} /\ Go("acquire", Advance(exp))

PutBack ==
    /\ Char \notin {"(", "{"} /\ Stale
    /\ Go("acquire", IF exp.i = 1 THEN SingleChar(Quit(exp), Char) ELSE Quit(exp))

Acquire ==
    /\ Char \notin {"(", "{"} /\ ~Stale
    /\ LET x == [Advance(exp) EXCEPT !.key = Append(SubSeq(@, 1, exp.i), Char), !.i = @ + 1]
       IN Go("acquire", IF x.i = 1 /\ Char \in SpecialChars
                          THEN [SingleChar(x, Char) EXCEPT !.mode = @ \ {Exp}] ELSE x)

Literal == Go("literal", Put(Advance(exp), <<Char>>))

\* Mutant of Finish: a quoted empty word vanishes.
FinishDrops ==
    /\ doing = "expand" /\ exp.pos > Len(word) /\ doing' = "done"
    /\ LET x == Quit(exp) IN exp' = IF x.vec # <<>> THEN ToDest(x) ELSE x
    /\ UNCHANGED <<word, outputs>>

Finish ==
    /\ doing = "expand" /\ exp.pos > Len(word) /\ doing' = "done"
    /\ LET x == Quit(exp) IN
         exp' = IF x.vec # <<>> \/ HadOne \in x.mode THEN ToDest(x) ELSE x
    /\ UNCHANGED <<word, outputs>>

ExpNext ==
    \/ Turn /\ (\/ Quote \/ StartParameter \/ EndParameter \/ SubstituteNothing \/ Substitute
                \/ Escape \/ Skip \/ PutBack \/ Acquire \/ Literal)
    \/ ReadByte \/ EndRead \/ Finish

=============================================================================
