----------------------------- MODULE LineEditor -----------------------------
(***************************************************************************)
(* What the terminal promises the lexer.  The user types keys; they make   *)
(* lines, one at a time and in order; an entered line is given to its      *)
(* reader, who takes every character once, before the next line is asked   *)
(* for.  Ctrl+C drops the line being typed.                                *)
(***************************************************************************)
EXTENDS Naturals, Sequences

CONSTANTS
    Key,     \* what a user types
    Newline, \* the key that enters a line
    EndKey   \* Ctrl+D: the end of the input, on an empty line

VARIABLES
    typed,   \* keys nobody has read
    editing, \* the line being typed
    entered, \* what is left of the last line entered
    mode,    \* "open", "cancelling" (Ctrl+C found the editor waiting), "closed"
    late     \* Ctrl+C came at another moment and no one has looked yet

vars == <<typed, editing, entered, mode, late>>

Init ==
    /\ typed = <<>> /\ editing = <<>> /\ entered = <<>>
    /\ mode = "open" /\ late = FALSE

Waiting == mode = "open" /\ entered = <<>>

Type ==
    /\ mode # "closed"
    /\ \E k \in Key : typed' = Append(typed, k)
    /\ UNCHANGED <<editing, entered, mode, late>>

Edit ==
    /\ Waiting /\ typed # <<>>
    /\ typed' = Tail(typed)
    /\ CASE Head(typed) = Newline ->
              editing' = <<>> /\ entered' = Append(editing, Newline)
         [] Head(typed) = EndKey ->
              /\ UNCHANGED editing
              /\ entered' = IF editing = <<>> THEN <<EndKey>> ELSE <<>>
         [] OTHER ->
              editing' = Append(editing, Head(typed)) /\ UNCHANGED entered
    /\ UNCHANGED <<mode, late>>

\* The reader stops at the end of the input, or goes on.
Take ==
    /\ mode = "open" /\ entered # <<>>
    /\ entered' = Tail(entered)
    /\ mode' \in {"open"} \cup (IF Head(entered) = EndKey THEN {"closed"} ELSE {})
    /\ late' = (late /\ mode' = "open")
    /\ UNCHANGED <<typed, editing>>

\* The reader wants no more.
Leave ==
    /\ mode = "open" /\ mode' = "closed" /\ late' = FALSE
    /\ UNCHANGED <<typed, editing, entered>>

\* A terminal also drops the keys that no one has read.
Interrupt ==
    /\ mode # "closed"
    /\ typed' \in {typed, <<>>}
    /\ \/ Waiting /\ typed = <<>> /\ mode' = "cancelling" /\ UNCHANGED late
       \/ late' = TRUE /\ UNCHANGED mode
       \/ mode' = "closed" /\ late' = FALSE
    /\ UNCHANGED <<editing, entered>>

Cancel ==
    /\ mode = "cancelling" \/ (Waiting /\ late)
    /\ editing' = <<>> /\ mode' = "open" /\ late' = FALSE
    /\ UNCHANGED <<typed, entered>>

\* A Ctrl+C from before a line was begun drops nothing.
Forget ==
    /\ Waiting /\ editing = <<>> /\ late /\ late' = FALSE
    /\ UNCHANGED <<typed, editing, entered, mode>>

Next == Type \/ Edit \/ Take \/ Leave \/ Interrupt \/ Cancel \/ Forget

\* Keys are read while someone waits for them, a line entered is taken to its
\* end, and a line is dropped once Ctrl+C has found the editor waiting.
Fairness ==
    /\ WF_vars(Edit) /\ WF_vars(Take)
    /\ WF_vars(mode = "cancelling" /\ Cancel)

Spec == Init /\ [][Next]_vars /\ Fairness

=============================================================================
