--------------------------- MODULE TerminalProofs ---------------------------
(***************************************************************************)
(* Proofs about Terminal, for any number of keys and of interrupts.        *)
(*                                                                         *)
(* The inductive invariant Inv says when a line is asked for nothing is    *)
(* left of the one before (Waits), how flag, disposition and place of the  *)
(* thread hang together (Signals), and that a token holds characters of    *)
(* one line only (Tokens).  With it, every step is a step of LineEditor or *)
(* leaves its variables alone.                                             *)
(***************************************************************************)
EXTENDS Terminal, SequenceTheorems, FiniteSetTheorems, TLAPS

----------------------------------------------------------------------------
(* The inductive invariant *)

Letters  == Key \ {"n"}
LexState == [blanks : BOOLEAN, word : SUBSET Nat, quoted : BOOLEAN,
             start : BOOLEAN, kind : {"none", "word", "LF"}]
Sent     == [keys : Nat, signals : Nat, dropped : Nat, missed : BOOLEAN]

Types ==
    /\ disp \in {"handler", "default"} /\ interrupted \in BOOLEAN
    /\ shell \in Places
    /\ tty \in Seq(Key) /\ edit \in Seq(Letters)
    /\ ahead = <<>> \/ \E k \in Key : ahead = <<k>>
    /\ line = NoLine \/ ("n" \in Key /\ \E t \in Seq(Letters) : line = Text(t))
    /\ lex \in LexState /\ sent \in Sent

Waits ==
    /\ shell \in {"ready", "select", "check", "eintr", "rearm"} =>
         ahead = <<>> /\ line = NoLine
    /\ edit # <<>> => shell \in {"ready", "select", "check", "eintr", "killed"}

Signals ==
    /\ interrupted => disp = "default"
    /\ shell = "eintr" => interrupted
    /\ shell = "rearm" => disp = "default" /\ ~interrupted
    /\ DeafOnlyIfMissed

Tokens ==
    /\ \E n \in Nat : lex.word \subseteq {n}
    /\ shell \notin {"rearm", "killed"} => lex.word \subseteq {sent.dropped}
    /\ lex.quoted => lex.word # {}

Inv == Types /\ Waits /\ Signals /\ Tokens

----------------------------------------------------------------------------
(* Lines and tokens *)

LEMMA LinesDiffer == \A t : Text(t) # NoLine /\ ~Text(t).null /\ NoLine.null
  <1>. TAKE t
  <1>1. Text(t).null = FALSE /\ NoLine.null = TRUE
    BY DEF Text, NoLine
  <1>. QED  BY <1>1

LEMMA TokenType ==
    ASSUME NEW b \in BOOLEAN, NEW s \in BOOLEAN
    PROVE  /\ Token(b, s) \in LexState
           /\ Token(b, s).word = {} /\ Token(b, s).quoted = FALSE
  BY DEF Token, LexState

LEMMA SentUpdates ==
    ASSUME NEW r \in Sent, NEW b \in BOOLEAN
    PROVE  /\ LET q == [r EXCEPT !.keys = @ + 1] IN
                q \in Sent /\ q.missed = r.missed /\ q.dropped = r.dropped
           /\ LET q == [r EXCEPT !.signals = @ + 1, !.missed = b] IN
                q \in Sent /\ q.missed = b /\ q.dropped = r.dropped
           /\ LET q == [r EXCEPT !.dropped = @ + 1] IN
                q \in Sent /\ q.missed = r.missed /\ q.dropped = r.dropped + 1
           /\ LET q == [r EXCEPT !.missed = FALSE] IN
                q \in Sent /\ q.missed = FALSE /\ q.dropped = r.dropped
  <1>1. r.keys + 1 \in Nat /\ r.signals + 1 \in Nat /\ r.dropped + 1 \in Nat
    BY DEF Sent
  <1>2. [r EXCEPT !.keys = @ + 1] \in Sent
    BY <1>1 DEF Sent
  <1>3. [r EXCEPT !.signals = @ + 1, !.missed = b] \in Sent
    BY <1>1 DEF Sent
  <1>4. [r EXCEPT !.dropped = @ + 1] \in Sent
    BY <1>1 DEF Sent
  <1>5. [r EXCEPT !.missed = FALSE] \in Sent
    BY DEF Sent
  <1>. QED  BY <1>2, <1>3, <1>4, <1>5 DEF Sent

\* Letters and keys of a sequence.
LEMMA HeadAndTail ==
    ASSUME NEW S, NEW s \in Seq(S), s # <<>>
    PROVE  Head(s) \in S /\ Tail(s) \in Seq(S)
  BY HeadTailProperties

----------------------------------------------------------------------------
(* The invariant *)

LEMMA InitInv == ASSUME TerminalAssumption, Init PROVE Inv
  <1>1. Types
    <2>1. tty \in Seq(Key) /\ edit \in Seq(Letters)
      BY EmptySeq DEF Init
    <2>2. sent \in Sent
      BY DEF Init, Sent
    <2>3. lex \in LexState
      BY TokenType DEF Init
    <2>. QED  BY <2>1, <2>2, <2>3 DEF Init, Types, Places
  <1>2. Waits /\ Signals
    BY DEF Init, Waits, Signals, DeafOnlyIfMissed
  <1>3. Tokens
    BY TokenType DEF Init, Tokens
  <1>. QED  BY <1>1, <1>2, <1>3 DEF Inv

LEMMA TypeInv == ASSUME Inv, Type PROVE Inv'
  <1>1. Types'
    <2>1. PICK k \in Key : tty' = Append(tty, k)
      BY DEF Type
    <2>2. tty' \in Seq(Key)
      BY <2>1, AppendProperties DEF Inv, Types
    <2>3. sent' \in Sent
      BY SentUpdates DEF Inv, Types, Type
    <2>. QED  BY <2>2, <2>3 DEF Inv, Types, Type
  <1>2. sent'.missed = sent.missed /\ sent'.dropped = sent.dropped
    BY SentUpdates DEF Inv, Types, Type
  <1>3. Waits'
    BY DEF Inv, Waits, Type
  <1>4. Signals'
    BY <1>2 DEF Inv, Signals, DeafOnlyIfMissed, Type
  <1>5. Tokens'
    BY <1>2 DEF Inv, Tokens, Type
  <1>. QED  BY <1>1, <1>3, <1>4, <1>5 DEF Inv

LEMMA SigintInv == ASSUME Inv, Sigint PROVE Inv'
  <1>1. sent' \in Sent /\ sent'.dropped = sent.dropped
        /\ sent'.missed = (sent.missed \/ ~Asleep)
    <2>. DEFINE b == sent.missed \/ ~Asleep
    <2>1. b \in BOOLEAN /\ sent \in Sent
      BY DEF Inv, Types
    <2>2. sent' = [sent EXCEPT !.signals = @ + 1, !.missed = b]
      BY DEF Sigint
    <2>. HIDE DEF b
    <2>3. sent' \in Sent /\ sent'.dropped = sent.dropped /\ sent'.missed = b
      BY <2>1, <2>2, SentUpdates
    <2>. QED  BY <2>3 DEF b
  <1>2. tty' \in Seq(Key)
    BY EmptySeq DEF Inv, Types, Sigint
  <1>3. CASE Handle
    <2>1. Types'
      BY <1>1, <1>2, <1>3 DEF Inv, Types, Sigint, Handle, Places
    <2>2. Waits'
      BY <1>3 DEF Inv, Waits, Sigint, Handle, Asleep
    <2>3. Signals'
      BY <1>1, <1>3 DEF Inv, Types, Signals, DeafOnlyIfMissed, Sigint, Handle, Asleep
    <2>4. Tokens'
      BY <1>1, <1>3 DEF Inv, Tokens, Sigint, Handle, Asleep
    <2>. QED  BY <2>1, <2>2, <2>3, <2>4 DEF Inv
  <1>4. CASE Kill
    <2>1. Types'
      BY <1>1, <1>2, <1>4 DEF Inv, Types, Sigint, Kill, Places
    <2>2. Waits' /\ Signals'
      BY <1>4 DEF Inv, Waits, Signals, DeafOnlyIfMissed, Sigint, Kill
    <2>3. Tokens'
      BY <1>4 DEF Inv, Tokens, Sigint, Kill
    <2>. QED  BY <2>1, <2>2, <2>3 DEF Inv
  <1>. QED  BY <1>3, <1>4 DEF Sigint

\* The actions that leave readline, stream and counters alone, but for the place.
LEMMA LexerInv ==
    ASSUME Inv, EndBlanks \/ EndWord \/ TakeWord \/ GoOn \/ Run \/ EndRun \/ Reject
    PROVE  Inv'
  <1>1. lex' \in LexState /\ (lex'.word = lex.word \/ lex'.word = {})
        /\ (lex'.quoted => lex.quoted /\ lex'.word = lex.word)
    <2>1. CASE EndBlanks
      BY <2>1, TokenType DEF Inv, Types, EndBlanks, LexState
    <2>2. CASE EndWord
      BY <2>2 DEF Inv, Types, EndWord, LexState
    <2>3. CASE TakeWord \/ GoOn
      BY <2>3, TokenType DEF TakeWord, GoOn
    <2>4. CASE Run
      BY <2>4 DEF Inv, Types, Run
    <2>5. CASE EndRun \/ Reject
      BY <2>5, TokenType DEF EndRun, Reject, NewCommand
    <2>. QED  BY <2>1, <2>2, <2>3, <2>4, <2>5
  <1>2. /\ UNCHANGED <<disp, interrupted, tty, edit, line, ahead, sent>>
        /\ shell \in {"lex", "parse", "run"}
        /\ shell' \in {"lex", "parse", "run", "exited"}
    BY DEF EndBlanks, EndWord, TakeWord, GoOn, Run, EndRun, Reject, readline
  <1>. USE <1>2
  <1>3. Types'
    BY <1>1 DEF Inv, Types, Places
  <1>4. Waits' /\ Signals'
    BY DEF Inv, Waits, Signals, DeafOnlyIfMissed
  <1>5. Tokens'
    BY <1>1 DEF Inv, Tokens
  <1>. QED  BY <1>3, <1>4, <1>5 DEF Inv

\* The actions that take the character of lookahead.
LEMMA TakenInv ==
    ASSUME Inv, SkipBlank \/ Collect \/ EndLine \/ EndInput \/ EndInQuote
    PROVE  Inv'
  <1>1. /\ UNCHANGED <<disp, interrupted, tty, edit, line, sent>>
        /\ ahead' = <<>> /\ shell = "lex" /\ shell' \in {"lex", "parse", "exited"}
    BY DEF SkipBlank, Collect, EndLine, EndInput, EndInQuote, Char, readline
  <1>2. lex' \in LexState /\ (lex'.quoted => lex'.word # {})
        /\ lex'.word \subseteq {sent.dropped}
    <2>1. lex \in LexState /\ lex.word \subseteq {sent.dropped}
          /\ (lex.quoted => lex.word # {}) /\ sent.dropped \in Nat
      BY <1>1 DEF Inv, Types, Tokens, Sent
    <2>2. CASE SkipBlank \/ EndInput
      BY <2>1, <2>2 DEF SkipBlank, EndInput
    <2>3. CASE Collect
      <3>1. PICK c : lex' = [lex EXCEPT !.word = @ \cup {sent.dropped},
                                        !.quoted = (@ # (c = "q"))]
        BY <2>3 DEF Collect
      <3>. DEFINE q == (lex.quoted # (c = "q"))
      <3>2. q \in BOOLEAN
        OBVIOUS
      <3>3. lex' = [lex EXCEPT !.word = @ \cup {sent.dropped}, !.quoted = q]
        BY <3>1
      <3>. HIDE DEF q
      <3>. QED  BY <2>1, <3>2, <3>3 DEF LexState
    <2>4. CASE EndLine
      BY <2>1, <2>4 DEF EndLine, LexState
    <2>5. CASE EndInQuote
      BY <2>5, TokenType DEF EndInQuote, NewCommand
    <2>. QED  BY <2>2, <2>3, <2>4, <2>5
  <1>. USE <1>1
  <1>3. Types'
    BY <1>2 DEF Inv, Types, Places
  <1>4. Waits' /\ Signals'
    BY DEF Inv, Waits, Signals, DeafOnlyIfMissed
  <1>5. Tokens'
    BY <1>2 DEF Inv, Types, Tokens, Sent
  <1>. QED  BY <1>3, <1>4, <1>5 DEF Inv

\* A line that is not read to its end.
LEMMA LineText ==
    ASSUME Inv, ~line.null
    PROVE  line.left \in Seq(Letters) /\ line = Text(line.left) /\ "n" \in Key
  BY LinesDiffer DEF Inv, Types, Text

LEMMA PeekInv == ASSUME Inv, Peek PROVE Inv'
  <1>1. line.left \in Seq(Letters) /\ line = Text(line.left) /\ "n" \in Key
    BY LineText DEF Peek
  <1>2. \E k \in Key : ahead' = <<k>>
    <2>1. Unread = Append(line.left, "n") /\ Unread \in Seq(Key) /\ Unread # <<>>
      BY <1>1, AppendProperties DEF Unread, Peek, Letters
    <2>2. Head(Unread) \in Key
      BY <2>1, HeadAndTail
    <2>. QED  BY <2>2 DEF Peek
  <1>3. line' = NoLine \/ \E t \in Seq(Letters) : line' = Text(t)
    BY <1>1, HeadAndTail DEF Peek
  <1>4. Types'
    BY <1>1, <1>2, <1>3 DEF Inv, Types, Peek, readline
  <1>5. Waits' /\ Signals'
    BY DEF Inv, Waits, Signals, DeafOnlyIfMissed, Peek, readline
  <1>6. Tokens'
    BY DEF Inv, Tokens, Peek
  <1>. QED  BY <1>4, <1>5, <1>6 DEF Inv

\* interruptible_readline
LEMMA ReadlineInv ==
    ASSUME Inv, Ask \/ Select \/ ReadKey \/ NotInterrupted
    PROVE  Inv'
  <1>1. CASE Ask
    <2>1. line = NoLine /\ edit' \in Seq(Letters)
      BY <1>1, LinesDiffer, EmptySeq DEF Inv, Types, Ask
    <2>2. Types'
      BY <1>1, <2>1 DEF Inv, Types, Ask, Places
    <2>3. Waits' /\ Signals'
      BY <1>1, <2>1 DEF Inv, Waits, Signals, DeafOnlyIfMissed, Ask
    <2>4. Tokens'
      BY <1>1 DEF Inv, Tokens, Ask
    <2>. QED  BY <2>2, <2>3, <2>4 DEF Inv
  <1>2. CASE Select \/ NotInterrupted
    <2>1. /\ UNCHANGED <<disp, interrupted, tty, edit, line, ahead, lex, sent>>
          /\ \/ shell = "ready" /\ shell' = "select"
             \/ shell \in {"check", "eintr"} /\ ~interrupted /\ shell' = "ready"
      BY <1>2 DEF Select, NotInterrupted, readline
    <2>2. Types' /\ Waits' /\ Signals'
      BY <2>1 DEF Inv, Types, Places, Waits, Signals, DeafOnlyIfMissed
    <2>3. Tokens'
      BY <2>1 DEF Inv, Tokens
    <2>. QED  BY <2>2, <2>3 DEF Inv
  <1>3. CASE ReadKey
    <2>1. Head(tty) \in Key /\ tty' \in Seq(Key)
      BY <1>3, HeadAndTail DEF Inv, Types, ReadKey
    <2>2. edit' \in Seq(Letters) /\ (edit' # <<>> => shell' = "check")
      <3>1. Append(edit, Head(tty)) \in Seq(Letters) \/ Head(tty) = "n"
        BY <2>1, AppendProperties DEF Inv, Types, Letters
      <3>. QED  BY <1>3, <3>1, EmptySeq DEF Inv, Types, ReadKey
    <2>3. /\ UNCHANGED <<disp, interrupted, lex, sent>>
          /\ shell = "select" /\ shell' \in {"lex", "check"}
          /\ ahead' = <<>> \/ \E k \in Key : ahead' = <<k>>
          /\ line' = NoLine \/ ("n" \in Key /\ \E t \in Seq(Letters) : line' = Text(t))
          /\ shell' = "check" => ahead' = <<>> /\ line' = NoLine
      BY <1>3, <2>1 DEF Inv, Types, Waits, ReadKey
    <2>4. Types'
      BY <2>1, <2>2, <2>3 DEF Inv, Types, Places
    <2>5. Waits' /\ Signals'
      BY <2>2, <2>3 DEF Inv, Waits, Signals, DeafOnlyIfMissed
    <2>6. Tokens'
      BY <2>3 DEF Inv, Tokens
    <2>. QED  BY <2>4, <2>5, <2>6 DEF Inv
  <1>. QED  BY <1>1, <1>2, <1>3

\* An interrupt that is noticed: the line goes, then the token.
LEMMA NoticedInv == ASSUME Inv, DropLine \/ Rearm PROVE Inv'
  <1>1. CASE DropLine
    <2>1. sent' \in Sent
      BY <1>1, SentUpdates DEF Inv, Types, DropLine
    <2>2. edit' \in Seq(Letters)
      BY <1>1, EmptySeq DEF DropLine
    <2>3. Types'
      BY <1>1, <2>1, <2>2 DEF Inv, Types, Places, DropLine
    <2>4. Waits' /\ Signals'
      BY <1>1 DEF Inv, Waits, Signals, DeafOnlyIfMissed, DropLine
    <2>5. Tokens'
      BY <1>1 DEF Inv, Tokens, DropLine
    <2>. QED  BY <2>3, <2>4, <2>5 DEF Inv
  <1>2. CASE Rearm
    <2>1. sent' \in Sent
      BY <1>2, SentUpdates DEF Inv, Types, Rearm
    <2>2. lex' \in LexState /\ lex'.word = {} /\ ~lex'.quoted
      <3>1. lex.start \in BOOLEAN
        BY DEF Inv, Types, LexState
      <3>. QED  BY <1>2, <3>1, TokenType DEF Rearm
    <2>3. Types'
      BY <1>2, <2>1, <2>2 DEF Inv, Types, Places, Rearm
    <2>4. Waits' /\ Signals'
      BY <1>2 DEF Inv, Waits, Signals, DeafOnlyIfMissed, Rearm
    <2>5. Tokens'
      BY <1>2, <2>2 DEF Inv, Tokens, Rearm
    <2>. QED  BY <2>3, <2>4, <2>5 DEF Inv
  <1>. QED  BY <1>1, <1>2

LEMMA InvStep == ASSUME Inv, [Next]_vars PROVE Inv'
  <1>1. CASE Step
    BY <1>1, LexerInv, TakenInv, PeekInv, ReadlineInv, NoticedInv DEF Step
  <1>2. CASE UNCHANGED vars
    <2>1. UNCHANGED <<disp, interrupted, tty, shell, edit, line, ahead, lex, sent>>
      BY <1>2 DEF vars
    <2>2. Types'
      BY <2>1 DEF Inv, Types
    <2>3. Waits' /\ Signals' /\ Tokens'
      BY <2>1 DEF Inv, Waits, Signals, DeafOnlyIfMissed, Tokens
    <2>. QED  BY <2>2, <2>3 DEF Inv
  <1>. QED  BY <1>1, <1>2, TypeInv, SigintInv DEF Next

LEMMA Invariance == Spec => []Inv
  <1>1. Init => Inv
    BY InitInv, TerminalAssumption
  <1>2. Inv /\ [Next]_vars => Inv'
    BY InvStep
  <1>. QED  BY <1>1, <1>2, PTL DEF Spec

----------------------------------------------------------------------------
(* The theorems *)

LEMMA AheadType == ASSUME Inv PROVE ahead \in Seq(Key) /\ Len(ahead) <= 1
  <1>1. CASE ahead = <<>>
    BY <1>1, EmptySeq
  <1>2. ASSUME NEW k \in Key, ahead = <<k>>
        PROVE  ahead \in Seq(Key) /\ Len(ahead) <= 1
    BY <1>2
  <1>. QED  BY <1>1, <1>2 DEF Inv, Types

\* The variables of the interactive shell keep to their types, and what is being
\* typed exists only while readline is at work (interruptible_readline.c).
THEOREM TerminalTypeCorrect == Spec => []TypeOK
  <1>1. Inv => TypeOK
    <2>. SUFFICES ASSUME Inv PROVE TypeOK
      OBVIOUS
    <2>1. line = NoLine \/ line.left \in Seq(Key \ {"n"})
      <3>1. CASE ~line.null
        BY <3>1, LineText DEF Letters
      <3>2. CASE line.null
        BY <3>2, LinesDiffer DEF Inv, Types
      <3>. QED  BY <3>1, <3>2, LinesDiffer
    <2>. QED  BY <2>1, AheadType DEF Inv, Types, Waits, TypeOK, Letters
  <1>. QED  BY <1>1, Invariance, PTL

\* A token never joins characters typed before and after Ctrl+C, nor is a quote
\* open that was typed before (rl_accept.c lexes the token anew).
THEOREM TokensAreWhole == Spec => []WordsWhole
  <1>1. Inv => WordsWhole
    <2>. SUFFICES ASSUME Inv PROVE WordsWhole
      OBVIOUS
    <2>1. PICK n \in Nat : lex.word \subseteq {n}
      BY DEF Inv, Tokens
    <2>2. Cardinality(lex.word) <= 1
      <3>1. IsFiniteSet({n}) /\ Cardinality({n}) = 1
        BY FS_Singleton
      <3>. QED  BY <2>1, <3>1, FS_Subset
    <2>. QED  BY <2>2 DEF Inv, Tokens, WordsWhole
  <1>. QED  BY <1>1, Invariance, PTL

\* Between two interrupts the shell was not waiting for, its handler is there:
\* the one-shot disposition is always put back by check_interrupt before the
\* line is asked for again (interruptible_readline.c:96).
THEOREM HandlerIsThere == Spec => []DeafOnlyIfMissed
  <1>1. Inv => DeafOnlyIfMissed
    BY DEF Inv, Signals
  <1>. QED  BY <1>1, Invariance, PTL

----------------------------------------------------------------------------
(* Every step is one of LineEditor *)

\* The character of lookahead is the first that is left of the line.
LEMMA EnteredNothing ==
    ASSUME Inv, ahead = <<>>, line = NoLine
    PROVE  Entered = <<>>
  BY LinesDiffer DEF Entered, Unread

LEMMA UnreadType == ASSUME Inv PROVE Unread \in Seq(Key)
  <1>1. CASE line.null
    BY <1>1, EmptySeq DEF Unread
  <1>2. CASE ~line.null
    <2>1. line.left \in Seq(Key) /\ "n" \in Key
      BY <1>2, LineText DEF Letters
    <2>. QED  BY <1>2, <2>1, AppendProperties DEF Unread
  <1>. QED  BY <1>1, <1>2

LEMMA HeadThenTail ==
    ASSUME NEW S, NEW s \in Seq(S), s # <<>>
    PROVE  <<Head(s)>> \o Tail(s) = s
  <1>. DEFINE t == <<Head(s)>> \o Tail(s)
  <1>1. /\ Head(s) = s[1] /\ Head(s) \in S /\ Tail(s) \in Seq(S)
        /\ Len(Tail(s)) = Len(s) - 1 /\ Len(s) \in Nat \ {0}
        /\ \A i \in 1 .. Len(s) - 1 : Tail(s)[i] = s[i + 1]
    BY HeadTailProperties, EmptySeq, LenProperties
  <1>2. t \in Seq(S) /\ Len(t) = Len(s)
    BY <1>1
  <1>3. \A i \in 1 .. Len(s) : t[i] = s[i]
    <2>. TAKE i \in 1 .. Len(s)
    <2>1. CASE i = 1
      BY <1>1, <2>1
    <2>2. CASE i > 1
      <3>1. i - 1 \in 1 .. Len(s) - 1 /\ t[i] = Tail(s)[i - 1]
        BY <1>1, <2>2
      <3>. QED  BY <1>1, <3>1
    <2>. QED  BY <2>1, <2>2
  <1>. HIDE DEF t
  <1>4. t = s
    BY <1>2, <1>3, SeqEqual
  <1>. QED  BY <1>4 DEF t

LEMMA OneAndRest ==
    ASSUME NEW S, NEW c \in S, NEW s \in Seq(S)
    PROVE  /\ <<c>> \o s # <<>> /\ Head(<<c>> \o s) = c /\ Tail(<<c>> \o s) = s
           /\ <<>> \o s = s
  <1>1. <<c>> \o s \in Seq(S) /\ Len(<<c>> \o s) = Len(s) + 1
    OBVIOUS
  <1>2. <<c>> \o s # <<>> /\ Head(<<c>> \o s) = c
    BY <1>1
  <1>3. Tail(<<c>> \o s) = s
    BY <1>1
  <1>. QED  BY <1>2, <1>3

\* Once looked at, a character is the head of what was entered.
LEMMA EnteredTaken ==
    ASSUME Inv, NEW c, ahead = <<c>>, ahead' = <<>>, UNCHANGED line
    PROVE  Entered # <<>> /\ Head(Entered) = c /\ Entered' = Tail(Entered)
  <1>1. c \in Key /\ Unread \in Seq(Key) /\ Unread' = Unread
    BY UnreadType DEF Inv, Types, Unread
  <1>. QED  BY <1>1, OneAndRest DEF Entered

\* Looking at a character leaves what was entered the same.
LEMMA EnteredPeeked == ASSUME Inv, Peek PROVE Entered' = Entered
  <1>1. line.left \in Seq(Key) /\ "n" \in Key /\ ~line.null /\ ahead = <<>>
    BY LineText DEF Peek, Letters
  <1>2. Unread = Append(line.left, "n") /\ Unread \in Seq(Key)
    BY <1>1, AppendProperties DEF Unread
  <1>3. ahead' = <<Head(Unread)>> /\ Head(Unread) \in Key
    <2>1. Unread # <<>>
      BY <1>1, <1>2, AppendProperties
    <2>. QED  BY <1>2, <2>1, HeadAndTail DEF Peek
  <1>4. CASE line.left = <<>>
    <2>1. Unread = <<"n">> /\ Unread' = <<>>
      BY <1>2, <1>4, LinesDiffer DEF Peek, Unread
    <2>. QED  BY <1>1, <1>3, <2>1 DEF Entered
  <1>5. CASE line.left # <<>>
    <2>1. line' = Text(Tail(line.left)) /\ Tail(line.left) \in Seq(Key)
      BY <1>1, <1>5, HeadAndTail DEF Peek
    <2>2. Unread' = Append(Tail(line.left), "n")
      BY <2>1, LinesDiffer DEF Unread, Text
    <2>3. Head(Unread) = Head(line.left) /\ Unread' = Tail(Unread)
      BY <1>1, <1>2, <1>5, <2>1, <2>2
    <2>4. <<Head(Unread)>> \o Tail(Unread) = Unread
      <3>1. Unread # <<>>
        BY <1>1, <1>2, AppendProperties
      <3>. QED  BY <1>2, <3>1, HeadThenTail
    <2>. QED  BY <1>1, <1>2, <1>3, <2>3, <2>4, OneAndRest DEF Entered
  <1>. QED  BY <1>4, <1>5

LEMMA InitEditor == ASSUME Init PROVE Editor!Init
  <1>1. Entered = <<>>
    BY LinesDiffer DEF Init, Entered, Unread
  <1>2. Mode = "open" /\ Late = FALSE
    BY DEF Init, Mode, Late, Alive
  <1>. QED  BY <1>1, <1>2 DEF Init, Editor!Init

LEMMA SameEntered == ASSUME UNCHANGED <<ahead, line>> PROVE Entered' = Entered
  BY DEF Entered, Unread

\* Keys and interrupts come from outside in both.
LEMMA OutsideSimulated ==
    ASSUME Inv, Type \/ Sigint
    PROVE  Editor!Type \/ Editor!Interrupt
  <1>1. UNCHANGED <<edit, ahead, line>> /\ Entered' = Entered /\ Mode # "closed"
    BY SameEntered DEF Type, Sigint, Mode
  <1>2. CASE Type
    <2>1. Mode' = Mode /\ Late' = Late
      BY <1>2 DEF Type, Mode, Late, Alive
    <2>. QED  BY <1>1, <1>2, <2>1 DEF Type, Editor!Type
  <1>3. CASE Sigint /\ Kill
    <2>1. Mode' = "closed" /\ Late' = FALSE
      BY <1>3 DEF Kill, Mode, Late, Alive
    <2>. QED  BY <1>1, <1>3, <2>1 DEF Sigint, Editor!Interrupt
  <1>4. CASE Sigint /\ Handle /\ Asleep
    <2>1. Mode = "open" /\ Mode' = "cancelling" /\ Late = FALSE /\ Late' = FALSE
      BY <1>4 DEF Inv, Signals, Handle, Asleep, Mode, Late, Alive
    <2>2. Entered = <<>> /\ tty = <<>> /\ tty' = <<>>
      BY <1>4, EnteredNothing DEF Inv, Waits, Asleep, Sigint
    <2>. QED  BY <1>1, <2>1, <2>2 DEF Editor!Interrupt, Editor!Waiting
  <1>5. CASE Sigint /\ Handle /\ ~Asleep
    <2>1. Mode' = Mode /\ Late' = TRUE
      BY <1>5 DEF Inv, Signals, Sigint, Handle, Mode, Late, Alive
    <2>. QED  BY <1>1, <1>5, <2>1 DEF Sigint, Editor!Interrupt
  <1>. QED  BY <1>2, <1>3, <1>4, <1>5 DEF Sigint

\* readline reads a key; the line it makes is given whole.
LEMMA ReadKeySimulated == ASSUME Inv, ReadKey PROVE Editor!Edit
  <1>1. shell = "select" /\ tty # <<>> /\ tty' = Tail(tty) /\ Entered = <<>>
        /\ ahead = <<>> /\ line = NoLine
    BY EnteredNothing DEF ReadKey, Inv, Waits
  <1>2. Mode = "open" /\ Mode' = "open" /\ Late' = Late
    BY <1>1 DEF ReadKey, Mode, Late, Alive
  <1>3. CASE Head(tty) = "n"
    <2>1. edit' = <<>> /\ ahead' = <<>> /\ line' = Text(edit)
      BY <1>1, <1>3 DEF ReadKey
    <2>2. Entered' = Append(edit, "n")
      <3>1. edit \in Seq(Letters) /\ "n" \in Key
        BY <1>1, <1>3, HeadAndTail DEF Inv, Types
      <3>2. Append(edit, "n") \in Seq(Key)
        BY <3>1, AppendProperties DEF Letters
      <3>3. Unread' = Append(edit, "n")
        BY <2>1, LinesDiffer DEF Unread, Text
      <3>. QED  BY <2>1, <3>2, <3>3, ConcatEmptySeq DEF Entered
    <2>. QED  BY <1>1, <1>2, <1>3, <2>1, <2>2 DEF Editor!Edit, Editor!Waiting
  <1>4. CASE Head(tty) = "d" /\ edit = <<>>
    <2>1. ahead' = <<"d">> /\ line' = NoLine /\ edit' = edit
      BY <1>1, <1>4 DEF ReadKey
    <2>2. Entered' = <<"d">>
      <3>1. <<"d">> \in Seq(Key)
        BY <1>1, <1>4, HeadAndTail DEF Inv, Types
      <3>2. Unread' = <<>>
        BY <2>1, LinesDiffer DEF Unread
      <3>3. <<"d">> \o <<>> = <<"d">>
        BY <3>1, ConcatEmptySeq
      <3>. QED  BY <2>1, <3>2, <3>3 DEF Entered
    <2>. QED  BY <1>1, <1>2, <1>4, <2>1, <2>2 DEF Editor!Edit, Editor!Waiting
  <1>5. CASE Head(tty) = "d" /\ edit # <<>>
    <2>1. UNCHANGED <<edit, line, ahead>> /\ Entered' = Entered
      BY <1>1, <1>5, SameEntered DEF ReadKey
    <2>. QED  BY <1>1, <1>2, <1>5, <2>1 DEF Editor!Edit, Editor!Waiting
  <1>6. CASE Head(tty) \notin {"n", "d"}
    <2>1. edit' = Append(edit, Head(tty)) /\ UNCHANGED <<line, ahead>>
          /\ Entered' = Entered
      BY <1>1, <1>6, SameEntered DEF ReadKey
    <2>. QED  BY <1>1, <1>2, <1>6, <2>1 DEF Editor!Edit, Editor!Waiting
  <1>. QED  BY <1>3, <1>4, <1>5, <1>6

\* check_interrupt drops the line; a flag from before a line is forgotten.
LEMMA DropSimulated == ASSUME Inv, DropLine PROVE Editor!Cancel
  <1>1. UNCHANGED <<tty, ahead, line>> /\ edit' = <<>> /\ Entered' = Entered
    BY SameEntered DEF DropLine
  <1>2. Mode' = "open" /\ Late' = FALSE
    BY DEF DropLine, Mode, Late, Alive
  <1>3. Entered = <<>>
    BY EnteredNothing DEF DropLine, Inv, Waits
  <1>4. Mode = "cancelling" \/ (Mode = "open" /\ Late)
    BY DEF DropLine, Mode, Late, Alive
  <1>. QED  BY <1>1, <1>2, <1>3, <1>4 DEF Editor!Cancel, Editor!Waiting

LEMMA AskSimulated == ASSUME Inv, Ask PROVE Editor!Forget \/ UNCHANGED Editor!vars
  <1>1. UNCHANGED <<tty, ahead, line>> /\ edit = <<>> /\ edit' = <<>>
        /\ Entered' = Entered /\ Entered = <<>>
    <2>1. line = NoLine
      BY LinesDiffer DEF Ask, Inv, Types
    <2>. QED  BY <2>1, SameEntered, EnteredNothing DEF Ask, Inv, Waits
  <1>2. Mode = "open" /\ Mode' = "open" /\ Late' = FALSE /\ Late \in BOOLEAN
    BY DEF Ask, Mode, Late, Alive, Inv, Types
  <1>. QED  BY <1>1, <1>2 DEF Editor!Forget, Editor!Waiting, Editor!vars

\* The lexer takes a character.
LEMMA TakeSimulated ==
    ASSUME Inv, SkipBlank \/ Collect \/ EndLine \/ EndInput \/ EndInQuote
    PROVE  Editor!Take
  <1>1. PICK c : /\ ahead = <<c>> /\ ahead' = <<>> /\ shell = "lex"
                 /\ UNCHANGED <<line, tty, edit, interrupted>>
                 /\ \/ shell' \in {"lex", "parse"}
                    \/ shell' = "exited" /\ c = "d"
    BY DEF SkipBlank, Collect, EndLine, EndInput, EndInQuote, Char, readline
  <1>2. Entered # <<>> /\ Head(Entered) = c /\ Entered' = Tail(Entered)
    BY <1>1, EnteredTaken
  <1>3. Mode = "open" /\ Mode' \in {"open", "closed"}
        /\ (Mode' = "closed" <=> shell' = "exited")
        /\ Late' = (Late /\ Mode' = "open")
    BY <1>1 DEF Mode, Late, Alive, Inv, Types
  <1>. QED  BY <1>1, <1>2, <1>3 DEF Editor!Take

\* Parsing and running, and the steps of the loop around select.
LEMMA InsideSimulated ==
    ASSUME Inv, \/ EndBlanks \/ EndWord \/ TakeWord \/ GoOn \/ Run \/ EndRun
                \/ Reject \/ Select \/ NotInterrupted \/ Rearm \/ Peek
    PROVE  Editor!Leave \/ UNCHANGED Editor!vars
  <1>1. UNCHANGED <<tty, edit, interrupted>>
    BY DEF EndBlanks, EndWord, TakeWord, GoOn, Run, EndRun, Reject, Select,
           NotInterrupted, Rearm, Peek, readline
  <1>2. Entered' = Entered
    <2>1. CASE Peek
      BY <2>1, EnteredPeeked
    <2>2. CASE ~Peek
      <3>1. UNCHANGED <<ahead, line>>
        BY <2>2 DEF EndBlanks, EndWord, TakeWord, GoOn, Run, EndRun, Reject, Select,
                    NotInterrupted, Rearm
      <3>. QED  BY <3>1, SameEntered
    <2>. QED  BY <2>1, <2>2
  <1>3. shell \notin {"killed", "exited", "eintr"} /\ shell' \notin {"killed", "eintr"}
    BY DEF EndBlanks, EndWord, TakeWord, GoOn, Run, EndRun, Reject, Select,
           NotInterrupted, Rearm, Peek, readline, Inv, Signals
  <1>4. Mode = "open"
    BY <1>3 DEF Mode, Alive
  <1>5. CASE shell' = "exited"
    <2>1. Mode' = "closed" /\ Late' = FALSE
      BY <1>5 DEF Mode, Late, Alive
    <2>. QED  BY <1>1, <1>2, <1>4, <2>1 DEF Editor!Leave
  <1>6. CASE shell' # "exited"
    <2>1. Mode' = "open" /\ Late' = Late
      BY <1>1, <1>3, <1>6 DEF Mode, Late, Alive
    <2>. QED  BY <1>1, <1>2, <1>4, <2>1 DEF Editor!vars
  <1>. QED  BY <1>5, <1>6

LEMMA StepSimulated ==
    ASSUME Inv, [Next]_vars
    PROVE  [Editor!Next]_(Editor!vars)
  <1>1. CASE UNCHANGED vars
    <2>1. UNCHANGED <<tty, edit, ahead, line, shell, interrupted>>
      BY <1>1 DEF vars
    <2>2. Entered' = Entered /\ Mode' = Mode /\ Late' = Late
      BY <2>1, SameEntered DEF Mode, Late, Alive
    <2>. QED  BY <2>1, <2>2 DEF Editor!vars
  <1>2. CASE Step
    BY <1>2, ReadKeySimulated, DropSimulated, AskSimulated, TakeSimulated, InsideSimulated
       DEF Step, Editor!Next
  <1>. QED  BY <1>1, <1>2, OutsideSimulated DEF Next, Editor!Next

\* The shell at its terminal does what LineEditor allows, for any keys typed and
\* any interrupts: lines are whole, in order, read to their end, and dropped by
\* Ctrl+C only (the part of ImplementsEditor that is no liveness).
THEOREM ShellIsAnEditor == Spec => Editor!Init /\ [][Editor!Next]_(Editor!vars)
  <1>1. Init => Editor!Init
    BY InitEditor
  <1>2. Inv /\ [Next]_vars => [Editor!Next]_(Editor!vars)
    BY StepSimulated
  <1>. QED  BY <1>1, <1>2, Invariance, PTL DEF Spec

=============================================================================
