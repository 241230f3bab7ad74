------------------------------- MODULE Lexer -------------------------------
(***************************************************************************)
(* One token, character by character (lexer.c, lexer_dfa.c, token.def):    *)
(* the automaton of the fixed tokens, and the recursion of __lexaux over   *)
(* quotes, escapes and substitutions, one frame per live call.             *)
(*                                                                         *)
(* Beside it runs a reader of the text that knows nothing of modes: a      *)
(* stack of the quotes and brackets that are open.                         *)
(***************************************************************************)
EXTENDS Chars, Naturals, Sequences, SequencesExt

CONSTANT
    Scopes  \* inputs: [chars, length, starts], see MCWords

VARIABLES
    scope,  \* the input this behaviour is about
    start,  \* LEX_CMDSTART
    text,   \* the characters of the token so far
    token,  \* rls->token
    frames, \* the live calls of __lexaux: mode, and state of the automaton
    phase,  \* "lex", "done", "error"
    next,   \* the character after the token, once it is known
    reader  \* what is open in the text, for one who knows no modes

lexVars == <<scope, start, text, token, frames, phase, next, reader>>

ASSUME ScopesAssumption ==
    \A s \in Scopes : s.length \in Nat /\ s.starts \subseteq BOOLEAN

----------------------------------------------------------------------------
(* Tokens of token.def and the automaton: a state is the text it has read. *)

Special ==
    {<<LF>>, <<"&">>, <<"&", "&">>, <<">", "|">>, <<"!", "!">>, <<">", ">">>,
     <<"<", "<">>, <<"<", "<", "-">>, <<"|", "|">>, <<";", ";">>, <<">">>,
     <<">", "&">>, <<"<">>, <<"<", "&">>, <<"<", ">">>, <<"|">>, <<"(">>,
     <<")">>, <<";">>}

\* Those whose letters the scopes use; the others are spelt like them.
Keyword ==
    {<<"!">>, <<"{">>, <<"}">>, <<"d", "o">>, <<"d", "o", "n", "e">>,
     <<"i", "f">>, <<"i", "n">>, <<"f", "i">>}

Fixed == Special \cup Keyword

T_EOF    == <<>>
T_WORD   == <<"word">>
T_ASSIGN == <<"assignment word">>
T_IONUMBER == <<"io number">>

EOF   == "eof"
Entry == <<>>
Err   == <<"error">>

\* dfa_eval
Dfa(c, state) ==
    IF \E f \in Fixed : IsPrefix(Append(state, c), f) THEN Append(state, c) ELSE Err

----------------------------------------------------------------------------
(* __lexmode *)

Esc    == "backslash"
Dollar == "dollar"
Sub    == "cmd_sub"
Param  == "param_exp"
Squote == "squote"
Dquote == "dquote"

Toggle(mode, m) == IF m \in mode THEN mode \ {m} ELSE mode \cup {m}
Xor(m, n) == (m \ n) \cup (n \ m)

\* Mutant of Lexmode: a single quote counts inside double quotes.
LexmodeQuotes(c, mode) ==
    CASE Esc \in mode                   -> mode \ {Esc}
      [] Esc \notin mode /\ c = "$" /\ mode \cap {Squote, Dollar} = {} ->
           mode \cup {Dollar}
      [] OTHER ->
           (CASE c = BS /\ Squote \notin mode -> mode \cup {Esc}
              [] c = SQ                         -> Toggle(mode, Squote)
              [] c = DQ /\ Squote \notin mode -> Toggle(mode, Dquote)
              [] OTHER                           -> mode) \ {Dollar}

Lexmode(c, mode) ==
    CASE Esc \in mode -> mode \ {Esc}
      [] Esc \notin mode /\ c = "$" /\ mode \cap {Squote, Dollar} = {} ->
           mode \cup {Dollar}
      [] OTHER ->
           (CASE c = BS /\ Squote \notin mode -> mode \cup {Esc}
              [] c = SQ /\ Dquote \notin mode  -> Toggle(mode, Squote)
              [] c = DQ /\ Squote \notin mode -> Toggle(mode, Dquote)
              [] c = BQ /\ Squote \notin mode  -> Toggle(mode, Sub)
              [] \/ c = "(" /\ Dollar \in mode
                 \/ c = ")" /\ Sub \in mode     -> Toggle(mode, Sub)
              [] \/ c = "{" /\ Dollar \in mode
                 \/ c = "}" /\ Param \in mode   -> Toggle(mode, Param)
              [] OTHER                          -> mode) \ {Dollar}

----------------------------------------------------------------------------
(* The reader *)

\* open: the characters that opened what is open, the outermost first; dollar:
\* a `$` comes just before; bare: an unquoted delimiter was read; doubt: a
\* bracket of a substitution stood directly in another, or `$)` did.  body: what
\* closes the text that symexp.c may take for a command; blank: nothing of it but
\* blanks was read; hard: such a text is more than a name, or empty between
\* backquotes, or a quote stood in the braces of a parameter in double quotes.
NewReader ==
    [open |-> <<>>, dollar |-> FALSE, bare |-> FALSE, doubt |-> FALSE,
     prev |-> "", body |-> "", blank |-> TRUE, hard |-> FALSE]

Read(r, c) ==
    LET in    == IF r.open = <<>> THEN "" ELSE Last(r.open)
        push  == Append(r.open, c)
        close == Front(r.open)
        open  ==
            CASE in = BS -> close
              [] in = SQ  -> IF c = SQ THEN close ELSE r.open
              [] in \notin {BS, SQ} ->
                   CASE c = BS               -> push
                     [] c \in {DQ, BQ}       -> IF in = c THEN close ELSE push
                     [] c = SQ /\ in # DQ    -> push
                     [] c \in {"(", "{"} /\ r.dollar -> push
                     [] c = "(" /\ in = "("     -> push
                     [] c = ")" /\ in = "("     -> close
                     [] c = "}" /\ in = "{"     -> close
                     [] OTHER                   -> r.open
        quoted == in \in {BS, SQ}
        begins == r.body = "" /\ ~quoted
                  /\ (c = BQ \/ (c = "(" /\ r.prev \in {"$", "{"}))
    IN [open   |-> open,
        dollar |-> c = "$" /\ ~r.dollar /\ ~quoted,
        bare   |-> r.bare \/ (c \in Delimiters /\ open = <<>> /\ r.open = <<>>),
        doubt  |-> \/ r.doubt
                   \/ in \in {"(", BQ} /\ c \in {"(", ")", BQ}
                      /\ ~(Len(open) < Len(r.open))
                   \/ in = "{" /\ c = "{" /\ r.dollar
                   \/ in = "" /\ c = ")" /\ r.dollar,
        prev   |-> c,
        body   |-> IF begins THEN (IF c = BQ THEN BQ ELSE ")")
                   ELSE IF c = r.body THEN "" ELSE r.body,
        blank  |-> begins \/ (r.blank /\ c = " "),
        hard   |-> \/ r.hard
                   \/ r.body # "" /\ c \notin {"x", " ", r.body}
                   \/ r.body = BQ /\ c = BQ /\ r.blank
                   \/ in = "{" /\ c \in {SQ, DQ} /\ DQ \in ToSet(r.open)]

----------------------------------------------------------------------------
(* __lexaux *)

Frame(mode) == [mode |-> mode, state |-> Entry]
Top == frames[Len(frames)]

LexInit ==
    /\ scope \in Scopes /\ start \in scope.starts
    /\ text = <<>> /\ token = T_EOF /\ frames = <<Frame({})>>
    /\ phase = "lex" /\ next = "" /\ reader = NewReader

\* __eatwhitespaces has taken the blanks before the token.
Input ==
    IF Len(text) = scope.length THEN {}
    ELSE scope.chars \ (IF text = <<>> THEN {" ", "\t"} ELSE {})

\* The character fits no fixed token begun, or a word is being read.
Misfit(c) == Dfa(c, Top.state) = Err \/ token = T_WORD

WordBreak(c) ==
    /\ \/ Top.mode = {}
       \/ Top.mode = {Dollar} /\ c \notin {"(", ")"}
    /\ c \in Delimiters

\* The character belongs to the next token.
Breaks(c) == Misfit(c) /\ (token \in Special \/ WordBreak(c))

\* Mutants of Collected: the shorter token; a keyword anywhere.
CollectedShort(c) ==
    IF Misfit(c) THEN T_WORD
    ELSE IF Dfa(c, Top.state) \in Fixed /\ token = T_EOF
           THEN (IF Dfa(c, Top.state) \in Keyword /\ ~start
                   THEN T_WORD ELSE Dfa(c, Top.state))
         ELSE token
CollectedAnywhere(c) ==
    IF Misfit(c) THEN T_WORD
    ELSE IF Dfa(c, Top.state) \in Fixed THEN Dfa(c, Top.state) ELSE token

\* rls->token after the character is pushed.
Collected(c) ==
    IF Misfit(c) THEN T_WORD
    ELSE IF Dfa(c, Top.state) \in Fixed
           THEN (IF Dfa(c, Top.state) \in Keyword /\ ~start
                   THEN T_WORD ELSE Dfa(c, Top.state))
         ELSE token

\* What is no fixed token is a word; __evalword looks at the character that
\* follows it.
Evalword(c) ==
    CASE token \in Fixed -> token
      [] token \notin Fixed /\ Len(text) = 1 /\ text[1] = "1" /\ c \in {"<", ">"} ->
           T_IONUMBER
      [] token \notin Fixed /\ start /\ Contains(text, "=") -> T_ASSIGN
      [] OTHER -> T_WORD

\* One turn of the loop: the character is pushed, and a change of mode other
\* than that of `$` ends the call or makes another one.
Push(c) ==
    LET mode == Top.mode
        sub  == Lexmode(c, mode)
        here == [mode  |-> (mode \ {Dollar}) \cup (sub \cap {Dollar}),
                 state |-> IF Misfit(c) THEN Entry ELSE Dfa(c, Top.state)]
        turn == sub # mode /\ Xor(mode, sub) # {Dollar}
    IN /\ text' = Append(text, c)
       /\ token' = Collected(c)
       /\ frames' =
            CASE turn /\ sub = {} -> Front(frames)
              [] turn /\ sub # {} -> Append(Append(Front(frames), here),
                                           Frame(Xor(mode, sub) \ {Dollar}))
              [] ~turn            -> Append(Front(frames), here)
       /\ reader' = Read(reader, c)

\* After a newline the loop does not look at the next character.
Lex ==
    /\ phase = "lex" /\ token # <<LF>>
    /\ \E c \in Input : ~Breaks(c) /\ Push(c)
    /\ UNCHANGED <<scope, start, phase, next>>

EndToken ==
    /\ phase = "lex" /\ token # <<LF>>
    /\ \E c \in Input : Breaks(c) /\ next' = c /\ token' = Evalword(c)
    /\ phase' = "done"
    /\ UNCHANGED <<scope, start, text, frames, reader>>

EndLF ==
    /\ phase = "lex" /\ token = <<LF>> /\ phase' = "done"
    /\ UNCHANGED <<scope, start, text, token, frames, next, reader>>

\* The end of the input: an error inside of quotes.
EndEOF ==
    /\ phase = "lex" /\ token # <<LF>> /\ next' = EOF
    /\ phase' = IF \E i \in DOMAIN frames : frames[i].mode \ {Dollar} # {}
                  THEN "error" ELSE "done"
    /\ token' = IF phase' = "done" /\ text # <<>> THEN Evalword(EOF) ELSE token
    /\ UNCHANGED <<scope, start, text, frames, reader>>

LexNext == Lex \/ EndToken \/ EndLF \/ EndEOF

----------------------------------------------------------------------------
(* Properties *)

LexTypeOK ==
    /\ text \in Seq(scope.chars) /\ Len(text) <= scope.length
    /\ token \in Fixed \cup {T_EOF, T_WORD, T_ASSIGN, T_IONUMBER}
    /\ phase \in {"lex", "done", "error"}
    /\ frames # <<>>
    /\ \A i \in DOMAIN frames : frames[i].mode \subseteq
            {Esc, Dollar, Sub, Param, Squote, Dquote}

Meaning(c) ==
    CASE c = BS -> {Esc}  [] c = SQ -> {Squote} [] c = DQ -> {Dquote}
      [] c \in {"(", BQ} -> {Sub} [] c = "{" -> {Param}

\* The recursion of the lexer has a frame for every quote and bracket that is
\* open, whatever their nesting, but for a substitution directly in another,
\* which __lexmode takes for its end.
FramesAreOpen ==
    ~reader.doubt =>
        /\ frames[1].mode \subseteq {Dollar}
        /\ [i \in 1 .. Len(frames) - 1 |-> frames[i + 1].mode \ {Dollar}]
             = [i \in DOMAIN reader.open |-> Meaning(reader.open[i])]

WordTokens == {T_WORD, T_ASSIGN, T_IONUMBER}

\* A token is a longest one: an operator that the next character does not make
\* longer, a keyword only where a command begins, or a word up to the first
\* delimiter that no quote protects; an open quote is an error at the end of
\* the input.  `don` is a known exception: it begins like done.
TokenIsLongest ==
    ~reader.doubt /\ text # <<"d", "o", "n">> =>
        /\ phase = "error" <=> next = EOF /\ reader.open # <<>>
        /\ phase = "done" =>
             /\ reader.open = <<>>
             /\ token \in Special =>
                  /\ text = token
                  /\ next = EOF \/ next = "" \/ Append(token, next) \notin Special
             /\ token \in Keyword => start /\ text = token
             /\ token \in WordTokens =>
                  ~reader.bare /\ text \notin Special \ {<<"!", "!">>}
                  /\ (start => text \notin Keyword)
             /\ token \in WordTokens \cup Keyword => next \in Delimiters \cup {EOF}
             /\ token = T_EOF => text = <<>>

=============================================================================
