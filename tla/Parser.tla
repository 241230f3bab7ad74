------------------------------- MODULE Parser ------------------------------
(***************************************************************************)
(* The parser (parser.c, rl_*.c): a recursive descent over tokens that are *)
(* asked for one at a time, with no other memory than struct rl_state.     *)
(*                                                                         *)
(* One state of the machine is the parser waiting for a token.  The rules  *)
(* are operators from a state of the parser to the state they return in,   *)
(* with the value they return in the field res; what the parser does with  *)
(* the tokens it was given so far is the value of rl_input on them, and    *)
(* `blocked` says that it stopped in the middle, for want of a token.      *)
(*                                                                         *)
(* The tree is abstracted to the set of the words it holds, each named by  *)
(* the position of its token in the input.                                 *)
(***************************************************************************)
EXTENDS Grammar
LOCAL INSTANCE SequencesExt \* FoldLeft, Range

CONSTANTS
    Interactive, \* cs->type->interactive
    Scopes,      \* the inputs to read: how they begin, of which lexemes they go on, how long
    MaxWords     \* bound on the words in a row

ASSUME ParserAssumption ==
    /\ Interactive \in BOOLEAN /\ MaxWords \in Nat \ {0}
    /\ \A scope \in Scopes :
          scope.opening \in Seq(STRING) /\ scope.lexemes \subseteq STRING /\ scope.length \in Nat

VARIABLES
    input,       \* the lexemes given to the current call of parser()
    s,           \* struct rl_state, after them
    midline,     \* the current call began in the middle of a line
    loop,        \* what the loop of main does: it runs, or why it ended
    derivations  \* what the grammar leaves to derive after the tokens of the call

vars == <<input, s, midline, loop, derivations>>

----------------------------------------------------------------------------
(* Tokens *)

\* RL_DEFAULT_STATE on some input.  The fields after `node` are not of the code:
\* the value a rule returns, the position of the next lexeme, the tokens the
\* lexer made so far, whether it is waiting for one, and whether a rule gave up
\* without an error on tokens it had taken.
Fresh(lexemes) ==
    [err |-> "none", collect |-> TRUE, cmdstart |-> TRUE, token |-> "EOF", word |-> 0,
     buffered |-> "", buffered_word |-> 0, node |-> {},
     res |-> "false", pos |-> 1, lexemes |-> lexemes, tokens |-> <<>>,
     blocked |-> FALSE, abandoned |-> FALSE]

\* lexer() on one lexeme: reserved words and assignments are words elsewhere
\* than where LEX_CMDSTART is set.
Classify(lexeme, cmdstart) ==
    IF lexeme \in Reserved \cup {"a=w"} /\ ~cmdstart THEN "w" ELSE lexeme

\* Without T_OR_IF in the condition of rl_accept.
ImpliesStartButOr == {"LF", ";", "&&"}

\* The tokens rl_accept takes the next token for the first of a command after.
ImpliesStart == {"LF", ";", "&&", "||"}

\* One turn of the loop of rl_accept.
Collect(st) ==
    CASE st.buffered # "" ->
           [st EXCEPT !.token = st.buffered, !.word = st.buffered_word, !.buffered = "",
                      !.collect = FALSE, !.cmdstart = FALSE]
      [] st.buffered = "" /\ st.pos > Len(st.lexemes) ->
           [st EXCEPT !.err = "blocked", !.blocked = TRUE]
      [] OTHER ->
           LET token == Classify(st.lexemes[st.pos], st.cmdstart \/ st.token \in ImpliesStart)
           IN  [st EXCEPT !.token = token, !.word = st.pos, !.pos = @ + 1, !.err = "none",
                          !.tokens = Append(@, token),
                          !.collect = FALSE, !.cmdstart = FALSE]

\* rl_accept, and rl_expect but for its message, on any token of a set.
Match(st, set) ==
    CASE st.err # "none" -> [st EXCEPT !.res = "error"]
      [] st.err = "none" /\ st.token \in set -> [st EXCEPT !.collect = TRUE, !.res = "true"]
      [] OTHER -> [st EXCEPT !.res = "false"]
Accept(st, set) == Match(IF st.collect THEN Collect(st) ELSE st, set)

Ok(st)    == st.res = "true"
Start(st) == [st EXCEPT !.cmdstart = TRUE]

\* Tokens taken so far: those lexed, less the one looked at and the one pushed back.
Taken(st) == (st.pos - 1) - (IF st.collect THEN 0 ELSE 1) - (IF st.buffered = "" THEN 0 ELSE 1)

\* `return true` with the words of the node; `return s->err ? -s->err : true`;
\* `return false`; `return -s->err`, which is false when there is no error.
Done(st, node)   == [st EXCEPT !.node = node, !.res = "true"]
Return(st, node) == [Done(st, node) EXCEPT !.res = IF st.err = "none" THEN "true" ELSE "error"]
False(from, st)  == [st EXCEPT !.res = "false", !.abandoned = @ \/ Taken(st) > Taken(from)]
Fail(from, st)   == IF st.err = "none" THEN False(from, st) ELSE [st EXCEPT !.res = "error"]
Error(st)        == [st EXCEPT !.err = "parser", !.res = "error"]

----------------------------------------------------------------------------
(* Commands *)

RECURSIVE EatNewlines(_), Words(_, _), Redirections(_, _), Prefixed(_, _),
          Elements(_, _), Patterns(_, _), CaseItems(_, _), Chain(_, _, _), Parse(_, _)

\* A rule is a chain of steps that stops at the first one to fail: a token of a
\* set, another rule, a rule that may be absent, newlines.
Then(a, b)        == IF Ok(a) THEN b ELSE a
Expect(a, set)    == IF Ok(a) THEN Accept(a, set) ELSE a
Follow(a, rule)   == IF Ok(a) THEN Parse(rule, a) ELSE a
OrElse(a, rule)   == IF Ok(a) THEN a ELSE Parse(rule, a)
Optional(a, rule) ==
    LET r == Parse(rule, [a EXCEPT !.node = {}])
    IN  IF Ok(a) /\ r.res = "false" THEN [r EXCEPT !.res = "true", !.node = {}] ELSE Then(a, r)
Finish(from, a, node) == IF Ok(a) THEN Return(a, node) ELSE Fail(from, a)

\* `if` for `while`.
EatOneNewline(st) == Accept(st, {"LF"})

\* while (rl_accept(s, T_LF) == true);
EatNewlines(st) == LET a == Accept(st, {"LF"}) IN IF Ok(a) THEN EatNewlines(a) ELSE a
Newlines(a)     == Then(a, [EatNewlines(a) EXCEPT !.res = "true"])

Words(st, node) ==
    LET a == Accept(st, {"w"})
    IN  IF Ok(a) THEN Words(a, node \cup {a.word}) ELSE [a EXCEPT !.node = node]

rl_redirection(st) ==
    LET io   == Accept(st, {"2"})
        op   == Accept(io, {"<", ">", ">&"})
        file == Accept(op, IF op.token = ">&" THEN {"2", "w"} ELSE {"w"})
    IN  CASE ~Ok(op) -> False(st, op)
          [] Ok(op) /\ ~Ok(file) -> Error(file)
          [] OTHER -> Done(file, {file.word} \cup (IF Ok(io) THEN {io.word} ELSE {}))

Redirections(st, node) ==
    LET r == Parse("redirection", st)
    IN  IF Ok(r) THEN Redirections(r, node \cup r.node) ELSE Done(r, node)

rl_prefix(st) ==
    LET r == Parse("redirection", st)
        a == Accept(Start(r), {"a=w"})
    IN  IF Ok(r) THEN r ELSE IF Ok(a) THEN Done(a, {a.word}) ELSE Fail(st, a)

rl_element(st) ==
    LET r == Parse("redirection", st)
        a == Accept(r, {"w"})
    IN  IF Ok(r) THEN r ELSE IF Ok(a) THEN Done(a, {a.word}) ELSE Fail(st, a)

Prefixed(st, node) ==
    LET p == Parse("prefix", st)
    IN  IF Ok(p) THEN Prefixed(p, node \cup p.node) ELSE [p EXCEPT !.node = node]

Elements(st, node) ==
    LET e == Parse("element", st)
    IN  IF Ok(e) THEN Elements(e, node \cup e.node) ELSE Return(e, node)

rl_simple_cmd(st) ==
    LET p == Prefixed(Start(st), {})
        e == Parse("element", p)
    IN  CASE p.res = "error" -> p
          [] p.res = "false" /\ Ok(e) ->
               Elements([e EXCEPT !.cmdstart = FALSE], p.node \cup e.node)
          [] OTHER -> IF p.node = {} THEN False(st, e) ELSE Return(e, p.node)

\* Without rl_buffer_token.
rl_fundec_forgets(st) ==
    LET w == Accept(st, {"w"})
        l == Accept([w EXCEPT !.cmdstart = FALSE], {"("})
        r == Accept(l, {")"})
        c == Parse("shell_cmd", EatNewlines(Start(r)))
    IN  CASE ~Ok(w) -> Fail(st, w)
          [] Ok(w) /\ ~Ok(l) -> [l EXCEPT !.token = "w", !.word = w.word, !.res = "false"]
          [] Ok(w) /\ Ok(l) /\ ~Ok(r) -> Error(r)
          [] OTHER -> Finish(st, c, {w.word} \cup c.node)

\* The word read to look for a parenthesis is pushed back: it becomes the current
\* token again, and what followed it the next one.
rl_fundec(st) ==
    LET w == Accept(st, {"w"})
        l == Accept([w EXCEPT !.cmdstart = FALSE], {"("})
        r == Accept(l, {")"})
        c == Parse("shell_cmd", EatNewlines(Start(r)))
    IN  CASE ~Ok(w) -> Fail(st, w)
          [] Ok(w) /\ ~Ok(l) ->
               [l EXCEPT !.buffered = l.token, !.buffered_word = l.word,
                         !.token = "w", !.word = w.word, !.res = "false"]
          [] Ok(w) /\ Ok(l) /\ ~Ok(r) -> Error(r)
          [] OTHER -> Finish(st, c, {w.word} \cup c.node)

rl_cmd(st) ==
    LET c == Parse("shell_cmd", [Start(st) EXCEPT !.node = {}])
        f == Parse("fundec", c)
        r == IF c.res # "false" THEN c ELSE IF f.res # "false" THEN f ELSE Parse("simple_cmd", f)
    IN  IF Ok(r) THEN r ELSE [r EXCEPT !.node = {}]

----------------------------------------------------------------------------
(* Lists: operands and separators *)

\* Without PARSER_ERROR in the loop of rl_and_or.
LoopLenient ==
    [list |->
        [operand |-> "and_or", separators |-> {";", "&"}, newlines |-> FALSE, strict |-> FALSE],
     compound_list |->
        [operand |-> "and_or", separators |-> {";", "LF"}, newlines |-> TRUE, strict |-> FALSE],
     and_or |->
        [operand |-> "pipeline", separators |-> {"&&", "||"}, newlines |-> TRUE, strict |-> FALSE],
     pipeline |->
        [operand |-> "cmd", separators |-> {"|"}, newlines |-> TRUE, strict |-> TRUE]]

\* How the loops of rl_list, rl_compound_list, rl_and_or and rl_pipeline differ:
\* what they repeat, the separators, whether newlines may follow them, and whether
\* an operand that is missing after one is an error.
Loop ==
    [list |->
        [operand |-> "and_or", separators |-> {";", "&"}, newlines |-> FALSE, strict |-> FALSE],
     compound_list |->
        [operand |-> "and_or", separators |-> {";", "LF"}, newlines |-> TRUE, strict |-> FALSE],
     and_or |->
        [operand |-> "pipeline", separators |-> {"&&", "||"}, newlines |-> TRUE, strict |-> TRUE],
     pipeline |->
        [operand |-> "cmd", separators |-> {"|"}, newlines |-> TRUE, strict |-> TRUE]]

rl_pipeline(st) ==
    LET b == Accept(st, {"!"})
        c == Parse("cmd", b)
    IN  CASE b.res = "error" -> b
          [] b.res # "error" /\ ~Ok(c) -> Fail(st, c)
          [] OTHER -> Chain("pipeline", c, c.node)

rl_and_or(st) ==
    LET p == Parse("pipeline", st)
    IN  IF Ok(p) THEN Chain("and_or", p, p.node) ELSE Fail(st, p)

Chain(rule, st, node) ==
    LET sep  == Accept(st, Loop[rule].separators)
        next == Parse(Loop[rule].operand, IF Loop[rule].newlines THEN EatNewlines(sep) ELSE sep)
    IN  CASE ~Ok(sep) -> Return(sep, node)
          [] Ok(sep) /\ Ok(next) -> Chain(rule, next, node \cup next.node)
          [] OTHER -> Return(IF Loop[rule].strict /\ next.err = "none" THEN Error(next) ELSE next,
                             node)

rl_list(st) ==
    LET a == Parse("and_or", st)
    IN  IF Ok(a) THEN Chain("list", a, a.node) ELSE Fail(st, a)

rl_compound_list(st) ==
    LET a == Parse("and_or", EatNewlines(st))
    IN  IF Ok(a) THEN Chain("compound_list", a, a.node) ELSE Fail(st, a)

----------------------------------------------------------------------------
(* Compound commands *)

\* '{' or '(', a compound list, and what closes it.
Enclosed(st, open, close) ==
    LET o == Accept(st, {open})
        c == Follow(IF open = "(" /\ Ok(o) THEN Start(o) ELSE o, "compound_list")
        r == Expect(c, {close})
    IN  Finish(st, r, r.node)

rl_subshell(st) == Enclosed(st, "(", ")")

rl_else(st) ==
    LET c == Follow(Accept(st, {"else"}), "compound_list") IN Finish(st, c, c.node)

\* A missing `then` or list after `elif` is returned as an error, without setting
\* err; an error of the next clause is not looked at.
rl_elif(st) ==
    LET c == Follow(Accept(st, {"elif"}), "compound_list")
        b == Follow(Expect([c EXCEPT !.node = {}], {"then"}), "compound_list")
        e == Parse("else_clause", [b EXCEPT !.node = {}])
    IN  CASE ~Ok(c) -> Fail(st, c)
          [] Ok(c) /\ ~Ok(b) -> [b EXCEPT !.res = "error"]
          [] OTHER -> Done(e, c.node \cup b.node \cup (IF Ok(e) THEN e.node ELSE {}))

rl_else_clause(st) == LET e == rl_else(st) IN IF Ok(e) THEN e ELSE rl_elif(e)

rl_if_clause(st) ==
    LET c == Follow(Accept(st, {"if"}), "compound_list")
        b == Follow(Expect(c, {"then"}), "compound_list")
        r == Expect(Optional(b, "else_clause"), {"fi"})
    IN  Finish(st, r, c.node \cup b.node \cup r.node)

rl_do_group(st) ==
    LET r == Expect(Follow(Accept(st, {"do"}), "compound_list"), {"done"})
    IN  Finish(st, r, r.node)

\* rl_while and rl_until
ConditionLoop(st, keyword) ==
    LET c == Follow(Accept(st, {keyword}), "compound_list")
        g == Follow([c EXCEPT !.node = {}], "do_group")
    IN  Finish(st, g, c.node \cup g.node)

\* What may come between the name and the body of a for.
ForWords(st) ==
    LET semi  == Accept(st, {";"})
        in    == Accept(EatNewlines(semi), {"in"})
        none  == [in EXCEPT !.res = "true", !.node = {}]
    IN  CASE Ok(semi) -> [semi EXCEPT !.node = {}]
          [] ~Ok(semi) /\ Ok(in) -> Accept(Words(in, {}), {";", "LF"})
          [] OTHER -> none

rl_for(st) ==
    LET name  == Expect(Accept(st, {"for"}), {"w"})
        words == Then(name, ForWords(Start(name)))
        group == Follow(Newlines(words), "do_group")
    IN  Finish(st, group, {name.word} \cup words.node \cup group.node)

Patterns(st, node) ==
    LET bar == Accept(st, {"|"})
        w   == Accept(bar, {"w"})
    IN  CASE ~Ok(bar) -> Done(bar, node)
          [] Ok(bar) /\ Ok(w) -> Patterns(w, node \cup {w.word})
          [] OTHER -> w

rl_case_item(st) ==
    LET w    == Accept(Accept(st, {"("}), {"w"})
        p    == Then(w, Patterns(w, {w.word}))
        list == Optional(Newlines(Expect(p, {")"})), "compound_list")
    IN  Finish(st, list, p.node \cup list.node)

CaseItems(st, node) ==
    LET d == Accept(Start(st), {";;"})
        i == Follow(Newlines(d), "case_item")
    IN  IF Ok(i) THEN CaseItems(i, node \cup i.node) ELSE Return(i, node)

rl_case_clause(st) ==
    LET i == Parse("case_item", st) IN IF Ok(i) THEN CaseItems(i, i.node) ELSE Fail(st, i)

rl_case(st) ==
    LET w     == Expect(Accept(st, {"case"}), {"w"})
        in    == Expect(Newlines(Then(w, Start(w))), {"in"})
        items == Optional(Newlines(Then(in, Start(in))), "case_clause")
        r     == Expect(items, {"esac"})
    IN  Finish(st, r, {w.word} \cup r.node)

\* Every alternative is tried in the state the one before it left, and all that
\* is kept of their failures is s->err.
rl_shell_cmd(st) ==
    LET brace == Accept(st, {"{"})
        r     == IF Ok(brace) THEN Enclosed(st, "{", "}")
                 ELSE FoldLeft(OrElse, brace,
                               <<"subshell", "if_clause", "while", "until", "for", "case">>)
    IN  CASE Ok(r) -> Redirections(r, r.node)
          [] Ok(brace) /\ ~Ok(r) -> r
          [] OTHER -> [r EXCEPT !.res = "false"]

rl_input(st) ==
    LET blank == Accept(st, {"LF", "EOF"})
        list  == Parse("list", blank)
        end   == Accept(list, {"EOF", "LF"})
    IN  CASE Ok(blank) -> blank
          [] ~Ok(blank) /\ (blank.err # "none" \/ ~Ok(list)) ->
               Fail(st, IF blank.err # "none" THEN blank ELSE list)
          [] OTHER -> end

\* The calls between rules.
Parse(rule, st) ==
    CASE rule = "input"         -> rl_input(st)
      [] rule = "list"          -> rl_list(st)
      [] rule = "and_or"        -> rl_and_or(st)
      [] rule = "pipeline"      -> rl_pipeline(st)
      [] rule = "cmd"           -> rl_cmd(st)
      [] rule = "shell_cmd"     -> rl_shell_cmd(st)
      [] rule = "compound_list" -> rl_compound_list(st)
      [] rule = "fundec"        -> rl_fundec(st)
      [] rule = "simple_cmd"    -> rl_simple_cmd(st)
      [] rule = "prefix"        -> rl_prefix(st)
      [] rule = "element"       -> rl_element(st)
      [] rule = "redirection"   -> rl_redirection(st)
      [] rule = "subshell"      -> rl_subshell(st)
      [] rule = "if_clause"     -> rl_if_clause(st)
      [] rule = "else_clause"   -> rl_else_clause(st)
      [] rule = "for"           -> rl_for(st)
      [] rule = "do_group"      -> rl_do_group(st)
      [] rule = "case"          -> rl_case(st)
      [] rule = "case_clause"   -> rl_case_clause(st)
      [] rule = "case_item"     -> rl_case_item(st)
      [] rule \in {"while", "until"} -> ConditionLoop(st, rule)

----------------------------------------------------------------------------
(* The loop of main *)

Call(lexemes) == Parse("input", Fresh(lexemes))

Init ==
    /\ input = <<>>
    /\ s = Call(<<>>)
    /\ midline = FALSE
    /\ loop = "runs"
    /\ derivations = Derivations

\* A number is a redirection's only when it is written against it.
Fits(lexemes, x) ==
    (lexemes # <<>> /\ lexemes[Len(lexemes)] = "2") => x \in {"<", ">", ">&"}

\* The parser asks for a token, and is given one.
Read(x) ==
    /\ loop = "runs" /\ s.blocked
    /\ Fits(input, x)
    /\ input' = Append(input, x)
    /\ s' = Call(input')
    /\ derivations' = After(derivations, s'.tokens[Len(input')])
    /\ UNCHANGED <<midline, loop>>

\* Another call of parser(), unless this one returned other than NO_ERROR.
NextCall(result) ==
    /\ loop' = result
    /\ midline' = (input[Len(input)] # "LF")
    /\ input' = <<>>
    /\ s' = Call(<<>>)
    /\ derivations' = Derivations

\* rl_input returned true: the tree is executed, and may call exit.
Execute ==
    /\ loop = "runs" /\ ~s.blocked /\ Ok(s)
    /\ \E exits \in BOOLEAN :
          NextCall(IF exits \/ s.token = "EOF" THEN "end" ELSE "runs")

\* Without the assignment of PARSER_ERROR for streams that are not interactive.
RejectGoesOn ==
    /\ loop = "runs" /\ ~s.blocked /\ ~Ok(s)
    /\ NextCall(IF s.err # "parser" /\ s.token = "EOF" THEN "end"
                ELSE IF s.err # "none" THEN "error" ELSE "runs")

\* It did not: the command is given up.
Reject ==
    /\ loop = "runs" /\ ~s.blocked /\ ~Ok(s)
    /\ LET err == IF Interactive THEN s.err ELSE "parser"
       IN  NextCall(IF err # "parser" /\ s.token = "EOF" THEN "end"
                     ELSE IF err # "none" THEN "error" ELSE "runs")

InScope(lexemes) ==
    \E scope \in Scopes :
        /\ Len(lexemes) <= scope.length
        /\ \A i \in DOMAIN lexemes :
              IF i \in DOMAIN scope.opening THEN lexemes[i] = scope.opening[i]
              ELSE lexemes[i] \in scope.lexemes

FewWords(tokens) ==
    \A i \in 1 .. Len(tokens) - MaxWords : \E j \in i .. i + MaxWords : tokens[j] # "w"

Next ==
    \/ \E x \in UNION {scope.lexemes \cup Range(scope.opening) : scope \in Scopes} :
          InScope(Append(input, x)) /\ Read(x) /\ FewWords(s'.tokens)
    \/ Execute
    \/ Reject

Spec == Init /\ [][Next]_vars

----------------------------------------------------------------------------
(* Properties *)

WordsOf(tokens) == {i \in DOMAIN tokens : tokens[i] \in {"w", "a=w", "2"}}

\* A list that is executed is one the grammar derives, and its tree holds every
\* word of it.  Inputs on which a rule gave up half way without an error are left
\* out: rl_list and rl_compound_list take `w ; !` for a list that ends with `;`.
AcceptedIsDerivable ==
    ~s.blocked /\ Ok(s) /\ ~s.abandoned =>
        Complete(derivations) /\ s.node = WordsOf(s.tokens)

\* What is rejected is not the beginning of anything the grammar derives, so that
\* the parser never gives up a command that is right.
RejectedIsWrong == ~s.blocked /\ ~Ok(s) => derivations = {}

\* The parser asks for more only while what it read can be completed: no error is
\* left undetected until the end of the command, the user types on for nothing.
WaitingIsOpen == s.blocked /\ ~s.abandoned => derivations # {}

Recognised(x) ==
    input' = Append(input, x) /\ After(derivations, x) # {} => s'.tokens[Len(input')] = x

Previous == IF s.tokens = <<>> THEN "LF" ELSE s.tokens[Len(s.tokens)]
Openers  == {"!", "{", "if", "while", "until", "for", "case"}

\* A reserved word that the grammar allows where it is read is not taken for a
\* word, when it follows a separator, an opening parenthesis or `!`: there
\* LEX_CMDSTART is set, or was left set by a rule that found nothing.
ReservedAfterSeparators ==
    [][\A x \in Reserved :
          Previous \in {"LF", ";", "&&", "||", "(", "!"} => Recognised(x)]_vars

\* The same for the words that begin a command, wherever the grammar lets one
\* begin: "These tokens are only recognised when being the first token of a
\* command" (doc/42sh-grammar.md).
ReservedBeginCommands == [][\A x \in Openers : Recognised(x)]_vars

\* A script does not go on in the middle of a line, after a syntax error in it.
ScriptRunsWholeLines == ~Interactive /\ loop = "runs" => ~midline

============================================================================
