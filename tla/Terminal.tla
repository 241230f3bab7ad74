------------------------------ MODULE Terminal ------------------------------
(***************************************************************************)
(* The interactive shell at its terminal: the loop around select of        *)
(* io/interruptible_readline.c, the stream of io/cstream_readline.c with   *)
(* its character of lookahead (io/cstream.c), the part of lexer.c that     *)
(* asks for characters, and what rl_accept makes of an interrupt.          *)
(*                                                                         *)
(* There is one thread; SIGINT may come between any two of its steps.      *)
(* readline itself is external: a key makes the line longer or ends it.    *)
(***************************************************************************)
EXTENDS Naturals, Sequences, FiniteSets

CONSTANTS
    Key,       \* keys: "w" a letter, "b" a blank, "q" a quote,
               \* "n" newline, "d" Ctrl+D
    MaxKeys,   \* bound on the keys typed
    MaxSignals \* bound on the times SIGINT is sent

ASSUME TerminalAssumption ==
    /\ Key \subseteq {"w", "b", "q", "n", "d"}
    /\ MaxKeys \in Nat /\ MaxSignals \in Nat

VARIABLES
    disp,        \* disposition of SIGINT: "handler" or "default"
    interrupted, \* the flag of the handler
    tty,         \* keys the terminal holds
    shell,       \* where the thread is
    edit,        \* rl_line_buffer
    line,        \* current_line from line_position on, or NoLine
    ahead,       \* buffer, when has_buffer
    lex,         \* the token being collected and the flag it is lexed with
    cmd,         \* of each token of the command, lines dropped before it
    sent         \* keys typed, signals sent, lines dropped

vars == <<disp, interrupted, tty, shell, edit, line, ahead, lex, cmd, sent>>
readline == <<disp, interrupted, tty, edit>>

NoLine == [null |-> TRUE]
Text(s) == [null |-> FALSE, left |-> s]

\* What cstream_readline_read returns next: the text, then a newline.
Unread == IF line.null THEN <<>> ELSE Append(line.left, "n")

\* blanks: in __eatwhitespaces, else in __lexaux.  word: of each character, how
\* many lines had been dropped when it was typed.  start: LEX_CMDSTART.
Token(blanks, start) ==
    [blanks |-> blanks, word |-> {}, quoted |-> FALSE, start |-> start, kind |-> "none"]

\* parser(): RL_DEFAULT_STATE.
NewCommand == lex' = Token(TRUE, TRUE) /\ cmd' = {}

Init ==
    /\ disp = "handler" /\ interrupted = FALSE
    /\ tty = <<>> /\ edit = <<>> /\ line = NoLine /\ ahead = <<>>
    /\ shell = "lex" /\ lex = Token(TRUE, TRUE) /\ cmd = {}
    /\ sent = [keys |-> 0, signals |-> 0, dropped |-> 0, missed |-> FALSE]

Alive == shell \notin {"killed", "exited"}

----------------------------------------------------------------------------
(* The terminal and the signal *)

Type ==
    /\ Alive /\ sent.keys < MaxKeys
    /\ \E k \in Key : tty' = Append(tty, k)
    /\ sent' = [sent EXCEPT !.keys = @ + 1]
    /\ UNCHANGED <<disp, interrupted, shell, edit, line, ahead, lex, cmd>>

Asleep == shell = "select" /\ tty = <<>>

\* sigint_handler.  signal() of the C library, as meson.build asks for it
\* (c_std=c99), resets the disposition when the handler is called and does not
\* restart select.
Handle ==
    /\ disp = "handler" /\ disp' = "default"
    /\ interrupted' = TRUE
    /\ shell' = IF Asleep THEN "eintr" ELSE shell

Kill ==
    /\ disp = "default" /\ shell' = "killed"
    /\ UNCHANGED <<disp, interrupted>>

\* From the keyboard, the terminal drops its keys as well; from kill it does not.
Sigint ==
    /\ Alive /\ sent.signals < MaxSignals
    /\ Handle \/ Kill
    /\ tty' \in {tty, <<>>}
    /\ sent' = [sent EXCEPT !.signals = @ + 1, !.missed = @ \/ ~Asleep]
    /\ UNCHANGED <<edit, line, ahead, lex, cmd>>

----------------------------------------------------------------------------
(* interruptible_readline *)

\* Called by cstream_readline_read when there is no line, up to the loop.
Ask ==
    /\ shell = "lex" /\ ahead = <<>> /\ line.null
    /\ interrupted' = FALSE /\ edit' = <<>> /\ shell' = "ready"
    /\ UNCHANGED <<disp, tty, line, ahead, lex, cmd, sent>>

Select ==
    /\ shell = "ready" /\ shell' = "select"
    /\ UNCHANGED <<readline, line, ahead, lex, cmd, sent>>

\* rl_callback_read_char, and readline_callback when the line is complete; the
\* line is returned whatever the flag.  Ctrl+D on an empty line gives NULL,
\* which the stream turns into EOF.
ReadKey ==
    /\ shell = "select" /\ tty # <<>>
    /\ tty' = Tail(tty)
    /\ \/ /\ Head(tty) = "n"
          /\ line' = Text(edit) /\ edit' = <<>> /\ shell' = "lex"
          /\ UNCHANGED ahead
       \/ /\ Head(tty) = "d" /\ edit = <<>>
          /\ ahead' = <<"d">> /\ shell' = "lex"
          /\ UNCHANGED <<line, edit>>
       \/ /\ Head(tty) = "d" /\ edit # <<>>
          /\ shell' = "check"
          /\ UNCHANGED <<edit, line, ahead>>
       \/ /\ Head(tty) \notin {"n", "d"}
          /\ edit' = Append(edit, Head(tty)) /\ shell' = "check"
          /\ UNCHANGED <<line, ahead>>
    /\ UNCHANGED <<disp, interrupted, lex, cmd, sent>>

\* check_interrupt, after a key or after select failed with EINTR.
NotInterrupted ==
    /\ shell \in {"check", "eintr"} /\ ~interrupted
    /\ shell' = "ready"
    /\ UNCHANGED <<readline, line, ahead, lex, cmd, sent>>

\* Mutant of DropLine: what was typed stays.
DropLineKeeps ==
    /\ shell \in {"check", "eintr"} /\ interrupted
    /\ interrupted' = FALSE /\ shell' = "rearm"
    /\ sent' = [sent EXCEPT !.dropped = @ + 1]
    /\ UNCHANGED <<disp, tty, edit, line, ahead, lex, cmd>>

DropLine ==
    /\ shell \in {"check", "eintr"} /\ interrupted
    /\ interrupted' = FALSE /\ edit' = <<>> /\ shell' = "rearm"
    /\ sent' = [sent EXCEPT !.dropped = @ + 1]
    /\ UNCHANGED <<disp, tty, line, ahead, lex, cmd>>

\* Mutants of Rearm: the handler is not installed again; the lexer goes on with
\* the token it had.
RearmNot ==
    /\ shell = "rearm" /\ shell' = "lex"
    /\ lex' = IF lex.blanks THEN Token(FALSE, lex.start) ELSE Token(TRUE, FALSE)
    /\ UNCHANGED <<disp, interrupted, tty, edit, line, ahead, cmd, sent>>
RearmResume ==
    /\ shell = "rearm" /\ shell' = "lex" /\ disp' = "handler"
    /\ sent' = [sent EXCEPT !.missed = FALSE]
    /\ UNCHANGED <<interrupted, tty, edit, line, ahead, lex, cmd>>

\* interruptible_readline_setup, and KEYBOARD_INTERRUPT through the lexer: the
\* loop over blanks takes it for the end of the blanks; __lexaux returns it, and
\* rl_accept, which has cleared LEX_CMDSTART, has the token lexed anew.
Rearm ==
    /\ shell = "rearm" /\ shell' = "lex" /\ disp' = "handler"
    /\ lex' = IF lex.blanks THEN Token(FALSE, lex.start) ELSE Token(TRUE, FALSE)
    /\ sent' = [sent EXCEPT !.missed = FALSE]
    /\ UNCHANGED <<interrupted, tty, edit, line, ahead, cmd>>

----------------------------------------------------------------------------
(* The stream and the lexer *)

\* Mutant of Peek: the line is kept at its end.
PeekKeeps ==
    /\ shell = "lex" /\ ahead = <<>> /\ ~line.null
    /\ ahead' = <<Head(Unread)>>
    /\ line' = IF line.left = <<>> THEN line ELSE Text(Tail(line.left))
    /\ UNCHANGED <<readline, shell, lex, cmd, sent>>

\* cstream_peek when the character is unknown and there is a line.
Peek ==
    /\ shell = "lex" /\ ahead = <<>> /\ ~line.null
    /\ ahead' = <<Head(Unread)>>
    /\ line' = IF line.left = <<>> THEN NoLine ELSE Text(Tail(line.left))
    /\ UNCHANGED <<readline, shell, lex, cmd, sent>>

\* The lexer has peeked this character.
Char(c) == shell = "lex" /\ ahead = <<c>>

\* __eatwhitespaces
SkipBlank ==
    /\ Char("b") /\ lex.blanks
    /\ ahead' = <<>>
    /\ UNCHANGED <<readline, shell, line, lex, cmd, sent>>

EndBlanks ==
    /\ shell = "lex" /\ lex.blanks /\ ahead # <<>> /\ ahead # <<"b">>
    /\ lex' = Token(FALSE, lex.start)
    /\ UNCHANGED <<readline, shell, line, ahead, cmd, sent>>

\* __lexaux pushes a character; a quote begins or ends a recursion.
Collect ==
    /\ shell = "lex" /\ ~lex.blanks
    /\ \E c \in {"w", "q", "b", "n"} :
         /\ Char(c) /\ (lex.quoted \/ c \in {"w", "q"})
         /\ lex' = [lex EXCEPT !.word = @ \cup {sent.dropped},
                               !.quoted = (@ # (c = "q"))]
    /\ ahead' = <<>>
    /\ UNCHANGED <<readline, shell, line, cmd, sent>>

\* LEX_WORD_BREAK: the word ends before a blank, a newline or the end.  It is
\* empty when an interrupt has cut the loop over blanks short.
EndWord ==
    /\ shell = "lex" /\ ~lex.blanks /\ ~lex.quoted
    /\ Char("b") \/ (lex.word # {} /\ (Char("n") \/ Char("d")))
    /\ lex' = [lex EXCEPT !.kind = "word"] /\ shell' = "parse"
    /\ UNCHANGED <<readline, line, ahead, cmd, sent>>

EndLine ==
    /\ Char("n") /\ ~lex.blanks /\ ~lex.quoted /\ lex.word = {}
    /\ ahead' = <<>>
    /\ lex' = [lex EXCEPT !.kind = "LF"] /\ shell' = "parse"
    /\ UNCHANGED <<readline, line, cmd, sent>>

\* The end of the input; in a quote it is a LEXER_ERROR, which main survives.
EndInput ==
    /\ Char("d") /\ ~lex.blanks /\ lex.word = {}
    /\ ahead' = <<>> /\ shell' = "exited"
    /\ UNCHANGED <<readline, line, lex, cmd, sent>>

EndInQuote ==
    /\ Char("d") /\ lex.quoted
    /\ ahead' = <<>> /\ NewCommand
    /\ UNCHANGED <<readline, shell, line, sent>>

----------------------------------------------------------------------------
(* The parser, and the command it runs *)

\* rl_accept returns a word, the parser asks for another token; it may be one
\* that can begin a command.
TakeWord ==
    /\ shell = "parse" /\ lex.kind = "word"
    /\ cmd' = cmd \cup {sent.dropped}
    /\ shell' = "lex" /\ \E start \in BOOLEAN : lex' = Token(TRUE, start)
    /\ UNCHANGED <<readline, line, ahead, sent>>

\* A newline ends the command, or the command goes on, as after `if true`.
GoOn ==
    /\ shell = "parse" /\ lex.kind = "LF" /\ cmd # {}
    /\ shell' = "lex" /\ lex' = Token(TRUE, TRUE)
    /\ UNCHANGED <<readline, line, ahead, cmd, sent>>

Run ==
    /\ shell = "parse" /\ lex.kind = "LF" /\ shell' = "run"
    /\ UNCHANGED <<readline, line, ahead, lex, cmd, sent>>

EndRun ==
    /\ shell = "run" /\ shell' = "lex" /\ NewCommand
    /\ UNCHANGED <<readline, line, ahead, sent>>

\* A syntax error; some rules set PARSER_ERROR, on which main ends.
Reject ==
    /\ shell = "parse" /\ NewCommand
    /\ shell' \in {"lex", "exited"}
    /\ UNCHANGED <<readline, line, ahead, sent>>

----------------------------------------------------------------------------
\* The shell's own steps; it may sleep in select.
Step ==
    \/ Ask \/ Select \/ ReadKey \/ NotInterrupted \/ DropLine \/ Rearm
    \/ Peek \/ SkipBlank \/ EndBlanks \/ Collect \/ EndWord \/ EndLine
    \/ EndInput \/ EndInQuote
    \/ TakeWord \/ GoOn \/ Run \/ EndRun \/ Reject

Next == Type \/ Sigint \/ Step

\* The thread is scheduled, and the commands the user runs end.
Spec == Init /\ [][Next]_vars /\ WF_vars(Step)

----------------------------------------------------------------------------
(* Properties *)

Places == {"lex", "parse", "run", "ready", "select", "check", "eintr", "rearm",
           "killed", "exited"}

\* The values the variables take; the line being typed exists only in readline.
TypeOK ==
    /\ disp \in {"handler", "default"} /\ interrupted \in BOOLEAN
    /\ shell \in Places
    /\ tty \in Seq(Key) /\ edit \in Seq(Key \ {"n"}) /\ ahead \in Seq(Key)
    /\ Len(ahead) <= 1
    /\ line = NoLine \/ line.left \in Seq(Key \ {"n"})
    /\ edit # <<>> => shell \in {"ready", "select", "check", "eintr", "killed"}

\* What was typed before Ctrl+C never joins what is typed after in one word,
\* and no quote opened before stays open (rl_accept lexes the token anew).
WordsWhole ==
    /\ Cardinality(lex.word) <= 1
    /\ lex.quoted => lex.word # {}

\* At the prompt Ctrl+C is caught, unless one came since the last time the
\* handler was installed, when the shell was not asleep in select: the one-shot
\* disposition is put back by check_interrupt only.
DeafOnlyIfMissed ==
    disp = "default" => sent.missed \/ shell \in {"eintr", "rearm", "killed"}

\* interruptible_readline.c:17 says that SIGINT is caught.
SurvivesInterrupt == shell # "killed"

\* What LineEditor speaks of.
Entered == ahead \o Unread
Mode ==
    IF ~Alive THEN "closed" ELSE IF shell = "eintr" THEN "cancelling" ELSE "open"
Late == Alive /\ interrupted /\ shell # "eintr"

Editor == INSTANCE LineEditor WITH
    Newline <- "n", EndKey <- "d",
    typed <- tty, editing <- edit, entered <- Entered, mode <- Mode, late <- Late

\* Keys reach the lexer in the order typed, each once, a line at a time; an
\* interrupted line is dropped whole, and only by Ctrl+C; whatever is entered
\* is read to its end.
ImplementsEditor == Editor!Spec

==============================================================================
