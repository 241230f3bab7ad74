---------------------------- MODULE PosixFields ----------------------------
(***************************************************************************)
(* What a word stands for: the fields of POSIX 2.2 (quoting) and 2.6       *)
(* (expansion), read from left to right.  It is the reference for          *)
(* Expansion and shares nothing with it but the characters.                *)
(*                                                                         *)
(* `odd` marks the words on which symexp.c departs from it: the list of    *)
(* its departures is here, one per line, and nowhere else.                 *)
(***************************************************************************)
EXTENDS Chars, Naturals, Sequences, SequencesExt

CONSTANTS
    Value,  \* contents of the variables
    Status  \* $?

LOCAL Digits     == {"1"}
LOCAL Letters    == {"x", "y"}
LOCAL Specials   == {"@", "*", "?", "$"}
LOCAL Separators == {" ", LF}  \* IFS, which the program has no other of

LOCAL Start(args, outputs) ==
    [args |-> args, outputs |-> outputs, quote |-> "", esc |-> FALSE,
     par |-> "none", name |-> <<>>,
     body |-> "", blank |-> TRUE,            \* in a substitution, up to body
     sep |-> FALSE,                          \* the field begun is over
     had |-> FALSE, vec |-> <<>>, fields |-> <<>>,
     none |-> FALSE,                         \* "$@" stood for no field at all
     read |-> 0, prev |-> "", digits |-> FALSE, tail |-> FALSE,
     odd |-> FALSE]

LOCAL IsNumber(name) == name # <<>> /\ name[1] \in Digits

LOCAL Contents(r, name) ==
    LET n == FoldLeft(LAMBDA sum, digit : 10 * sum + 1, 0, name) IN
    CASE IsNumber(name)  -> IF n <= Len(r.args) THEN r.args[n] ELSE <<>>
      [] ~IsNumber(name) -> IF name \in DOMAIN Value THEN Value[name] ELSE <<>>

\* What ends a name for symexp.c too; in double quotes a single one does not.
LOCAL Ends(r, ch) == ch \in {DQ, BQ, BS, "$"} \/ (ch = SQ /\ r.quote # DQ)

LOCAL Odd(r, cond) == [r EXCEPT !.odd = @ \/ cond]

\* A field that is over goes to the list when another begins, an empty one only
\* if it was quoted.
LOCAL Cut(r) ==
    IF r.sep /\ (r.vec # <<>> \/ r.had)
      THEN [r EXCEPT !.fields = Append(@, r.vec), !.vec = <<>>, !.had = FALSE, !.sep = FALSE]
      ELSE [r EXCEPT !.sep = FALSE]

LOCAL Text(r, s) == IF s = <<>> THEN r ELSE [Cut(r) EXCEPT !.vec = @ \o s]

\* 2.6.5: what is not quoted is split.
LOCAL Split(r, s) ==
    FoldLeft(LAMBDA q, ch : IF ch \in Separators THEN [q EXCEPT !.sep = TRUE]
                            ELSE Text(q, <<ch>>), r, s)

LOCAL Insert(r, s) ==
    IF r.quote = DQ THEN Text(r, s)
    ELSE Odd(Split(r, s), \E ch \in Separators : Contains(s, ch))  \* $x is never split

\* The arguments: the first goes on with the field begun, the others have theirs.
LOCAL Apart(r) ==
    IF r.quote = DQ THEN [Cut([r EXCEPT !.sep = TRUE]) EXCEPT !.had = TRUE]
    ELSE [r EXCEPT !.sep = TRUE]

LOCAL Arguments(r) ==
    LET all == FoldLeftDomain(LAMBDA q, n : Insert(IF n = 1 THEN q ELSE Apart(q), r.args[n]),
                              r, r.args)
    IN Odd([all EXCEPT !.none = @ \/ (r.args = <<>> /\ r.quote = DQ)],
           \* $@ keeps its empty arguments
           r.quote # DQ /\ Len(r.args) > 1 /\ Contains(r.args, <<>>))

LOCAL Parameter(r) ==
    [Insert(r, Contents(r, r.name)) EXCEPT !.par = "none", !.name = <<>>]

LOCAL Blanks(s) ==
    FlattenSeq([n \in DOMAIN s |-> IF n = 1 THEN s[n] ELSE <<" ">> \o s[n]])

LOCAL SpecialParameter(r, ch) ==
    LET q == [r EXCEPT !.par = "none"] IN
    CASE ch = "?" -> Insert(q, Status)
      [] ch = "$" -> Insert(q, <<"pid">>)
      [] ch = "*" /\ r.quote = DQ -> Text(q, Blanks(r.args))
      [] ch = "@" \/ (ch = "*" /\ r.quote # DQ) -> Arguments(q)

\* Output without the newlines at its end (2.6.3).
LOCAL Stripped(output) ==
    LET kept == {0} \cup {n \in DOMAIN output : output[n] # LF}
    IN SubSeq(output, 1, CHOOSE n \in kept : \A m \in kept : m <= n)

\* In double quotes it is text; elsewhere it is split.
LOCAL Output(r, output) ==
    LET o     == Stripped(output)
        first == o # <<>> /\ o[1] \in Separators
        last  == o # <<>> /\ o[Len(o)] \in Separators
        twice == \E n \in 1 .. Len(o) - 1 : {o[n], o[n + 1]} \subseteq Separators
    IN IF r.quote = DQ
         THEN Odd(Text(r, o), \/ Contains(o, LF)          \* newlines become blanks
                              \/ last                     \* blanks at the end vanish,
                              \/ first /\ r.vec = <<>>    \* as they do at the beginning;
                              \/ twice)                   \* several become one
         ELSE Odd([Split(r, o) EXCEPT !.tail = last],
                  first /\ r.vec = <<>> /\ r.had)          \* ""$(echo " o") is one field

\* A character outside of parameters and substitutions.
LOCAL Plain(r, ch) ==
    CASE r.quote = SQ ->
           IF ch = SQ THEN [r EXCEPT !.quote = ""]
           ELSE Odd(Text(r, <<ch>>), ch = BS /\ r.prev = BS)  \* '\\' gives one \
      [] r.quote # SQ ->
           CASE ch = SQ /\ r.quote = "" -> [Cut(r) EXCEPT !.quote = SQ, !.had = TRUE]
             [] ch = DQ  -> [Cut(r) EXCEPT !.quote = IF @ = DQ THEN "" ELSE DQ, !.had = TRUE]
             [] ch = BS  -> [r EXCEPT !.esc = TRUE]
             [] ch = "$" -> [r EXCEPT !.par = "dollar"]
             [] ch = BQ  -> [r EXCEPT !.body = BQ, !.blank = TRUE]
             [] OTHER    -> Text(r, <<ch>>)

LOCAL Close(r) ==
    LET q == [r EXCEPT !.body = ""] IN
    IF r.blank
      THEN [q EXCEPT !.tail = TRUE]
      ELSE [Output(q, IF r.read < Len(r.outputs) THEN r.outputs[r.read + 1] ELSE <<>>)
            EXCEPT !.read = @ + 1]

LOCAL Step(s, ch) ==
    LET r == Odd(s, s.tail)  \* what follows blank output, or $(), is joined to it
        after == [r EXCEPT !.par = "none"]
    IN CASE r.body # "" ->
              IF ch = r.body THEN Close(r)
              ELSE [r EXCEPT !.blank = @ /\ ch = " "]
         [] r.esc ->
              LET q == [r EXCEPT !.esc = FALSE] IN
              IF ch = LF THEN q
              ELSE IF r.quote = DQ /\ ch \notin {DQ, BS, BQ, "$"} THEN Text(q, <<BS, ch>>)
              ELSE Odd(Text(q, <<ch>>), r.quote = DQ /\ ch = "$")  \* "\$x" expands x
         [] r.par = "brace" /\ ~r.esc ->
              IF ch = "}" THEN
                Odd([Parameter(r) EXCEPT !.digits = @ \/ IsNumber(r.name)], r.name = <<>>)
              ELSE Odd([r EXCEPT !.name = Append(@, ch)],
                       ch \notin Letters \cup Digits          \* ${?}, ${x...}
                         \/ (r.digits /\ r.name = <<>> /\ ch \notin Digits)
                         \/ (IsNumber(r.name) /\ ch \notin Digits))  \* ${1x}
         [] r.par = "dollar" ->
              CASE ch = "{" -> [r EXCEPT !.par = "brace"]
                [] ch = "(" -> [after EXCEPT !.body = ")", !.blank = TRUE]
                [] ch \in Specials ->                  \* $1$?: the key is stale
                     Odd(SpecialParameter(r, ch), r.digits)
                [] ch \in Digits ->
                     [Insert(r, Contents(r, <<ch>>)) EXCEPT !.par = "digit", !.digits = TRUE]
                [] ch \in Letters ->                   \* $1$x: the key is stale
                     Odd([r EXCEPT !.par = "name", !.name = <<ch>>], r.digits)
                [] OTHER ->                            \* "$ ", $/: taken for a name
                     Odd(Plain(Text(after, <<"$">>), ch), ~Ends(r, ch))
         [] r.par = "name" ->
              IF ch \in Letters \cup Digits THEN [r EXCEPT !.name = Append(@, ch)]
              ELSE Odd(Plain(Parameter(r), ch), ~Ends(r, ch))  \* "$x ", $x/
         [] r.par = "digit" ->                         \* $11, $1?, "$1 "
              Odd(Plain(after, ch),
                  ch \in Digits \cup {"@", "*", "?", "(", "{", " ", "}", ")"})
         [] OTHER -> Plain(r, ch)

LOCAL Whole(word, args, outputs) ==
    FoldLeft(LAMBDA r, ch : [Step(r, ch) EXCEPT !.prev = ch], Start(args, outputs), word)

LOCAL End(r) ==
    LET q == CASE r.par = "name"   -> Parameter(r)
               [] r.par = "dollar" -> Text(r, <<"$">>)
               [] OTHER            -> r
        begun == q.vec # <<>> \/ (q.had /\ ~q.none)
    IN Odd([q EXCEPT !.fields = IF begun THEN Append(@, q.vec) ELSE @],
           q.none /\ q.vec = <<>>)                \* "$@" without arguments is a field

Fields(word, args, outputs) == End(Whole(word, args, outputs)).fields
IsOdd(word, args, outputs)  == End(Whole(word, args, outputs)).odd

=============================================================================
