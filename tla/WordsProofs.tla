---------------------------- MODULE WordsProofs ----------------------------
(***************************************************************************)
(* Theorems about Words, for every text over any characters: the recursion *)
(* of __lexaux over modes keeps the same account of open quotes and        *)
(* brackets as a reader that knows no modes, and so does symexp.c, which   *)
(* reads the word a second time with its own flags.                        *)
(*                                                                         *)
(* A mode is a kind, what the live call was made for, and perhaps that the *)
(* last character was `$`.  ModeStep says what __lexmode makes of a        *)
(* character, in those terms; ReaderStep the same of the reader.  From     *)
(* this follows that the token is a longest one: PushReads keeps what is   *)
(* known of the token while it is read; a lemma per way it can end.        *)
(*                                                                         *)
(* For the expansion, Steps(h) holds the reader after every character of   *)
(* the text, and Expanding(h) says that the flags of symexp.c are those of *)
(* the reader before the character it is at.  A lemma per action keeps it; *)
(* BodyEnds and SubstitutionEnds find the end of a command that symexp.c   *)
(* jumps over.  Induction over positions is by the least position at which *)
(* a claim fails: LeastExists, GoesOn.                                     *)
(***************************************************************************)
EXTENDS Words, SequenceTheorems, NaturalsInduction, WellFoundedInduction, TLAPS

----------------------------------------------------------------------------
(* Modes *)

Kinds == {Esc, Sub, Param, Squote, Dquote}
None  == "none"

Base(k)  == IF k = None THEN {} ELSE {k}
Bit(d)   == IF d THEN {Dollar} ELSE {}
Mode(k, d) == Base(k) \cup Bit(d)

\* The kinds after which a `$` can be remembered.
Possible(k, d) ==
    /\ k \in Kinds \cup {None} /\ d \in BOOLEAN
    /\ d => k \notin {Esc, Squote}

\* The character ends the call, or has another one made, of that kind.
Shuts(c, k, d) ==
    \/ k = Esc
    \/ k = Squote /\ c = SQ
    \/ k = Dquote /\ c = DQ
    \/ k = Sub /\ (c \in {BQ, ")"} \/ (c = "(" /\ d))
    \/ k = Param /\ (c = "}" \/ (c = "{" /\ d))
Opens(c, k, d) ==
    IF k = Esc THEN None
    ELSE IF c = BS /\ k # Squote THEN Esc
    ELSE IF c = SQ /\ k \notin {Dquote, Squote} THEN Squote
    ELSE IF c = DQ /\ k \notin {Squote, Dquote} THEN Dquote
    ELSE IF c = BQ /\ k \notin {Squote, Sub} THEN Sub
    ELSE IF c = "(" /\ d /\ k # Sub THEN Sub
    ELSE IF c = "{" /\ d /\ k # Param THEN Param
    ELSE None
Dollars(c, k, d) == c = "$" /\ ~d /\ k \notin {Squote, Esc}

LEMMA ModeStep ==
    ASSUME NEW c, NEW k, NEW d, Possible(k, d)
    PROVE  /\ Shuts(c, k, d) => Lexmode(c, Mode(k, d)) = {}
           /\ Opens(c, k, d) # None =>
                /\ ~Shuts(c, k, d)
                /\ Lexmode(c, Mode(k, d)) = Base(k) \cup {Opens(c, k, d)}
           /\ ~Shuts(c, k, d) /\ Opens(c, k, d) = None =>
                Lexmode(c, Mode(k, d)) = Base(k) \cup Bit(Dollars(c, k, d))
  <1>. DEFINE M == Mode(k, d)
  <1>. USE DEF Esc, Dollar, Sub, Param, Squote, Dquote, LF, SQ, DQ, BQ, BS, None
  <1>1. /\ Esc \in M <=> k = Esc
        /\ Dollar \in M <=> d
        /\ Sub \in M <=> k = Sub
        /\ Param \in M <=> k = Param
        /\ Squote \in M <=> k = Squote
        /\ Dquote \in M <=> k = Dquote
        /\ M \cap {Squote, Dollar} = {} <=> ~d /\ k # Squote
    BY DEF Mode, Base, Bit, Possible, Kinds
  <1>2. M \ {Dollar} = Base(k)
    BY DEF Mode, Base, Bit, Possible, Kinds
  <1>3. CASE k = Esc
    <2>1. M = {Esc}
      BY <1>3 DEF Mode, Base, Bit, Possible
    <2>2. Lexmode(c, M) = M \ {Esc}
      BY <1>1, <1>3 DEF Lexmode
    <2>3. Shuts(c, k, d) /\ Opens(c, k, d) = None
      BY <1>3 DEF Shuts, Opens
    <2>. QED  BY <2>1, <2>2, <2>3
  <1>4. CASE k # Esc /\ c = "$"
    <2>1. ~Shuts(c, k, d) /\ Opens(c, k, d) = None
      BY <1>4 DEF Shuts, Opens
    <2>2. CASE ~d /\ k # Squote
      <3>1. Lexmode(c, M) = M \cup {Dollar}
        BY <1>1, <1>4, <2>2 DEF Lexmode
      <3>. QED  BY <1>4, <2>1, <2>2, <3>1 DEF Mode, Bit, Dollars
    <2>3. CASE d \/ k = Squote
      <3>1. Lexmode(c, M) = M \ {Dollar}
        BY <1>1, <1>4, <2>3 DEF Lexmode
      <3>. QED  BY <1>2, <1>4, <2>1, <2>3, <3>1 DEF Bit, Dollars, Possible
    <2>. QED  BY <2>2, <2>3
  <1>5. CASE k # Esc /\ c # "$"
    <2>. DEFINE Rest ==
           CASE c = BS /\ Squote \notin M -> M \cup {Esc}
              [] c = SQ /\ Dquote \notin M  -> Toggle(M, Squote)
              [] c = DQ /\ Squote \notin M -> Toggle(M, Dquote)
              [] c = BQ /\ Squote \notin M  -> Toggle(M, Sub)
              [] \/ c = "(" /\ Dollar \in M
                 \/ c = ")" /\ Sub \in M     -> Toggle(M, Sub)
              [] \/ c = "{" /\ Dollar \in M
                 \/ c = "}" /\ Param \in M   -> Toggle(M, Param)
              [] OTHER                          -> M
    <2>1. Lexmode(c, M) = Rest \ {Dollar}
      BY <1>1, <1>5 DEF Lexmode
    <2>2. ASSUME NEW m \in Kinds
          PROVE  Toggle(M, m) \ {Dollar} = IF k = m THEN {} ELSE Base(k) \cup {m}
      BY <1>2 DEF Toggle, Mode, Base, Bit, Kinds, Possible
    <2>3. Bit(Dollars(c, k, d)) = {}
      BY <1>5 DEF Bit, Dollars
    <2>4. {Esc, Sub, Param, Squote, Dquote} \subseteq Kinds
      BY DEF Kinds
    <2>5. CASE c = BS
      <3>1. Rest = IF k # Squote THEN M \cup {Esc} ELSE M
        BY <1>1, <2>5
      <3>. QED  BY <1>2, <1>5, <2>1, <2>3, <2>5, <3>1 DEF Shuts, Opens
    <2>6. CASE c = SQ
      <3>1. Rest = IF k # Dquote THEN Toggle(M, Squote) ELSE M
        BY <1>1, <2>6
      <3>. QED  BY <1>2, <1>5, <2>1, <2>2, <2>3, <2>4, <2>6, <3>1 DEF Shuts, Opens
    <2>7. CASE c = DQ
      <3>1. Rest = IF k # Squote THEN Toggle(M, Dquote) ELSE M
        BY <1>1, <2>7
      <3>. QED  BY <1>2, <1>5, <2>1, <2>2, <2>3, <2>4, <2>7, <3>1 DEF Shuts, Opens
    <2>8. CASE c = BQ
      <3>1. Rest = IF k # Squote THEN Toggle(M, Sub) ELSE M
        BY <1>1, <2>8
      <3>. QED  BY <1>2, <1>5, <2>1, <2>2, <2>3, <2>4, <2>8, <3>1 DEF Shuts, Opens
    <2>9. CASE c \in {"(", ")"}
      <3>1. Rest = IF (c = "(" /\ d) \/ (c = ")" /\ k = Sub) THEN Toggle(M, Sub) ELSE M
        BY <1>1, <2>9
      <3>. QED  BY <1>2, <1>5, <2>1, <2>2, <2>3, <2>4, <2>9, <3>1 DEF Shuts, Opens
    <2>10. CASE c \in {"{", "}"}
      <3>1. Rest = IF (c = "{" /\ d) \/ (c = "}" /\ k = Param) THEN Toggle(M, Param) ELSE M
        BY <1>1, <2>10
      <3>. QED  BY <1>2, <1>5, <2>1, <2>2, <2>3, <2>4, <2>10, <3>1 DEF Shuts, Opens
    <2>11. CASE c \notin {BS, SQ, DQ, BQ, "(", ")", "{", "}"}
      <3>1. Rest = M
        BY <2>11
      <3>. QED  BY <1>2, <1>5, <2>1, <2>3, <2>11, <3>1 DEF Shuts, Opens
    <2>. QED  BY <2>5, <2>6, <2>7, <2>8, <2>9, <2>10, <2>11
  <1>. QED  BY <1>3, <1>4, <1>5

----------------------------------------------------------------------------
(* The automaton *)

\* What it can have read: token.def and what its entries begin with.
BegunTokens == Fixed \cup {<<"d">>, <<"d", "o", "n">>, <<"i">>, <<"f">>}
States   == BegunTokens \cup {Entry}

\* The characters the back-ends of the prover cannot spell.
Semi   == ";"
Lbrace == "{"
Rbrace == "}"

LEMMA Distinct ==
    /\ \A c \in {Semi, Lbrace, Rbrace} :
         c \notin {LF, "&", "|", "!", "<", ">", "-", "(", ")", "d", "o", "n", "e", "i", "f",
                   "word", "error"}
    /\ Semi # Lbrace /\ Semi # Rbrace /\ Lbrace # Rbrace
    /\ LF \notin {"&", "|", "!", "<", ">", "-", "(", ")", "d", "o", "n", "e", "i", "f",
                  "word", "error"}
  BY Zenon DEF LF, Semi, Lbrace, Rbrace

LEMMA SpecialIs ==
    Special = {<<LF>>, <<"&">>, <<"&", "&">>, <<">", "|">>, <<"!", "!">>, <<">", ">">>,
               <<"<", "<">>, <<"<", "<", "-">>, <<"|", "|">>, <<Semi, Semi>>, <<">">>,
               <<">", "&">>, <<"<">>, <<"<", "&">>, <<"<", ">">>, <<"|">>, <<"(">>,
               <<")">>, <<Semi>>}
  BY Zenon DEF Special, Semi

LEMMA KeywordIs ==
    Keyword = {<<"!">>, <<Lbrace>>, <<Rbrace>>, <<"d", "o">>, <<"d", "o", "n", "e">>,
               <<"i", "f">>, <<"i", "n">>, <<"f", "i">>}
  BY Zenon DEF Keyword, Lbrace, Rbrace

Letter == {LF, Semi, Lbrace, Rbrace, "&", "|", "!", "<", ">", "-", "(", ")", "d", "o", "n",
           "e", "i", "f"}

LEMMA FixedAre ==
    ASSUME NEW f \in Fixed
    PROVE  f \in Seq(Letter) /\ Len(f) \in 1 .. 4
  <1>1. CASE f \in Special
    <2>. DEFINE L == {LF, Semi, "&", "|", "!", "<", ">", "-", "(", ")"}
    <2>1. PICK a \in L, b \in L, c \in L : f \in {<<a>>, <<a, b>>, <<a, b, c>>}
      BY <1>1, SpecialIs
    <2>2. L \subseteq Letter
      BY DEF Letter
    <2>3. CASE f = <<a>>
      BY <2>2, <2>3
    <2>4. CASE f = <<a, b>>
      BY <2>2, <2>4
    <2>5. CASE f = <<a, b, c>>
      BY <2>2, <2>5
    <2>. QED  BY <2>1, <2>3, <2>4, <2>5
  <1>2. CASE f \in Keyword
    <2>. DEFINE L == {Lbrace, Rbrace, "!", "d", "o", "n", "e", "i", "f"}
    <2>1. PICK a \in L, b \in L, c \in L, d \in L : f \in {<<a>>, <<a, b>>, <<a, b, c, d>>}
      BY <1>2, KeywordIs
    <2>2. L \subseteq Letter
      BY DEF Letter
    <2>3. CASE f = <<a>>
      BY <2>2, <2>3
    <2>4. CASE f = <<a, b>>
      BY <2>2, <2>4
    <2>5. CASE f = <<a, b, c, d>>
      BY <2>2, <2>5
    <2>. QED  BY <2>1, <2>3, <2>4, <2>5
  <1>. QED  BY <1>1, <1>2 DEF Fixed

LEMMA PrefixesAre ==
    ASSUME NEW s \in States
    PROVE  s \in Seq(Letter) /\ Len(s) \in 0 .. 4 /\ (s = Entry <=> Len(s) = 0)
  <1>1. CASE s \in Fixed
    BY <1>1, FixedAre DEF Entry
  <1>2. CASE s = Entry
    BY <1>2 DEF Entry
  <1>3. CASE s \in {<<"d">>, <<"d", "o", "n">>, <<"i">>, <<"f">>}
    <2>1. PICK a \in {"d", "i", "f"}, b \in {"o"}, c \in {"n"} : s \in {<<a>>, <<a, b, c>>}
      BY <1>3
    <2>2. {"d", "o", "n", "i", "f"} \subseteq Letter
      BY DEF Letter
    <2>3. CASE s = <<a>>
      BY <2>2, <2>3 DEF Entry
    <2>4. CASE s = <<a, b, c>>
      BY <2>2, <2>4 DEF Entry
    <2>. QED  BY <2>1, <2>3, <2>4
  <1>. QED  BY <1>1, <1>2, <1>3 DEF States, BegunTokens

LEMMA PrefixIsListed ==
    ASSUME NEW S, NEW s \in Seq(S), s # <<>>, NEW f \in Fixed, IsPrefix(s, f)
    PROVE  s \in BegunTokens
  <1>1. f \in Seq(Letter) /\ Len(f) \in 1 .. 4
    BY FixedAre
  <1>2. Len(s) \in 1 .. Len(f) /\ SubSeq(s, 1, Len(s)) = SubSeq(f, 1, Len(s))
    BY <1>1, EmptySeq DEF IsPrefix
  <1>3. \A i \in 1 .. Len(s) : s[i] = f[i]
    BY <1>1, <1>2
  <1>4. CASE Len(s) = 1
    <2>1. s = <<f[1]>>
      BY <1>3, <1>4
    <2>. QED  BY <2>1, SpecialIs, KeywordIs, Distinct DEF Fixed, BegunTokens
  <1>5. CASE Len(s) = 2
    <2>1. s = <<f[1], f[2]>> /\ Len(f) >= 2
      BY <1>2, <1>3, <1>5
    <2>. QED  BY <2>1, SpecialIs, KeywordIs, Distinct DEF Fixed, BegunTokens
  <1>6. CASE Len(s) = 3
    <2>1. s = <<f[1], f[2], f[3]>> /\ Len(f) >= 3
      BY <1>2, <1>3, <1>6
    <2>. QED  BY <2>1, SpecialIs, KeywordIs, Distinct DEF Fixed, BegunTokens
  <1>7. CASE Len(s) = 4
    <2>1. Len(f) = Len(s)
      BY <1>1, <1>2, <1>7
    <2>2. s = f
      BY <1>1, <1>3, <2>1
    <2>. QED  BY <2>2 DEF BegunTokens
  <1>8. Len(s) \in {1, 2, 3, 4}
    <2>1. \A m \in 1 .. 4 : \A n \in 1 .. m : n \in {1, 2, 3, 4}
      OBVIOUS
    <2>. QED  BY <1>1, <1>2, <2>1
  <1>. QED  BY <1>4, <1>5, <1>6, <1>7, <1>8

LEMMA AppendIs ==
    ASSUME NEW s \in States, NEW c
    PROVE  /\ Append(s, c) \in Seq(Letter \cup {c})
           /\ Append(s, c) # <<>> /\ Len(Append(s, c)) = Len(s) + 1
  BY PrefixesAre

\* A state is what the automaton has read, and Err is none.
LEMMA DfaIs ==
    ASSUME NEW s \in States, NEW c
    PROVE  /\ Dfa(c, s) = Err \/ (Dfa(c, s) = Append(s, c) /\ Append(s, c) \in BegunTokens)
           /\ Dfa(c, s) # Err => \E f \in Fixed : IsPrefix(Append(s, c), f)
           /\ Err \notin States
  <1>1. Err \notin States
    BY SpecialIs, KeywordIs, Distinct DEF Err, States, Entry, BegunTokens, Fixed
  <1>2. CASE \E f \in Fixed : IsPrefix(Append(s, c), f)
    BY <1>1, <1>2, AppendIs, PrefixIsListed DEF Dfa
  <1>3. CASE ~\E f \in Fixed : IsPrefix(Append(s, c), f)
    BY <1>1, <1>3 DEF Dfa
  <1>. QED  BY <1>2, <1>3

----------------------------------------------------------------------------
(* Sequences *)

LEMMA FrontIs ==
    ASSUME NEW S, NEW s \in Seq(S), s # <<>>
    PROVE  /\ Front(s) \in Seq(S) /\ Len(Front(s)) = Len(s) - 1
           /\ \A i \in 1 .. Len(s) - 1 : Front(s)[i] = s[i]
           /\ Last(s) \in S /\ Last(s) = s[Len(s)] /\ Len(s) \in Nat \ {0}
  <1>1. Len(s) \in Nat \ {0} /\ \A i \in 1 .. Len(s) : s[i] \in S
    BY EmptySeq
  <1>2. Front(s) \in Seq(S) /\ Len(Front(s)) = Len(s) - 1
    <2>1. 1 \in Int /\ Len(s) - 1 \in Int /\ \A i \in 1 .. Len(s) - 1 : s[i] \in S
      BY <1>1
    <2>2. SubSeq(s, 1, Len(s) - 1) \in Seq(S)
      BY <2>1, SubSeqProperties
    <2>3. Len(SubSeq(s, 1, Len(s) - 1)) =
            IF 1 <= Len(s) - 1 THEN Len(s) - 1 - 1 + 1 ELSE 0
      BY <2>1, SubSeqProperties
    <2>4. (IF 1 <= Len(s) - 1 THEN Len(s) - 1 - 1 + 1 ELSE 0) = Len(s) - 1
      <3>1. \A n \in Nat \ {0} : (IF 1 <= n - 1 THEN n - 1 - 1 + 1 ELSE 0) = n - 1
        OBVIOUS
      <3>. QED  BY <1>1, <3>1
    <2>. QED  BY <2>2, <2>3, <2>4 DEF Front
  <1>3. \A i \in 1 .. Len(s) - 1 : Front(s)[i] = s[i]
    BY <1>1 DEF Front
  <1>4. Last(s) \in S /\ Last(s) = s[Len(s)]
    BY <1>1 DEF Last
  <1>. QED  BY <1>1, <1>2, <1>3, <1>4

LEMMA LastIn == ASSUME NEW S, NEW s \in Seq(S), s # <<>> PROVE Last(s) \in S
  BY FrontIs

----------------------------------------------------------------------------
(* The reader *)

Opening == {BS, SQ, DQ, BQ, "(", "{"}

In(r) == IF r.open = <<>> THEN "" ELSE Last(r.open)

\* What the lexer calls the innermost thing that is open.
KindOf(in) ==
    IF in = BS THEN Esc ELSE IF in = SQ THEN Squote ELSE IF in = DQ THEN Dquote
    ELSE IF in \in {"(", BQ} THEN Sub ELSE IF in = "{" THEN Param ELSE None

LEMMA MeaningIs == ASSUME NEW in \in Opening PROVE Meaning(in) = {KindOf(in)} /\ KindOf(in) \in Kinds
  BY DEF Opening, KindOf, Meaning, Kinds, BS, SQ, DQ, BQ

LEMMA ReaderStep ==
    ASSUME NEW r, NEW c, r.open \in Seq(Opening), r.dollar \in BOOLEAN,
           NEW k, k = KindOf(In(r)), Possible(k, r.dollar), ~Read(r, c).doubt
    PROVE  /\ ~r.doubt
           /\ Shuts(c, k, r.dollar) => Read(r, c).open = Front(r.open)
           /\ Opens(c, k, r.dollar) # None =>
                /\ c \in Opening /\ KindOf(c) = Opens(c, k, r.dollar)
                /\ Read(r, c).open = Append(r.open, c)
           /\ ~Shuts(c, k, r.dollar) /\ Opens(c, k, r.dollar) = None => Read(r, c).open = r.open
           /\ Read(r, c).dollar = Dollars(c, k, r.dollar)
  <1>. DEFINE in == In(r)
              open ==
                 CASE in = BS -> Front(r.open)
                   [] in = SQ -> IF c = SQ THEN Front(r.open) ELSE r.open
                   [] in \notin {BS, SQ} ->
                        CASE c = BS               -> Append(r.open, c)
                          [] c \in {DQ, BQ}       -> IF in = c THEN Front(r.open)
                                                     ELSE Append(r.open, c)
                          [] c = SQ /\ in # DQ    -> Append(r.open, c)
                          [] c \in {"(", "{"} /\ r.dollar -> Append(r.open, c)
                          [] c = "(" /\ in = "("     -> Append(r.open, c)
                          [] c = ")" /\ in = "("     -> Front(r.open)
                          [] c = "}" /\ in = "{"     -> Front(r.open)
                          [] OTHER                   -> r.open
  <1>. DEFINE d == r.dollar
  <1>1. Read(r, c).open = open
    BY DEF Read, In
  <1>2. Read(r, c).dollar = (c = "$" /\ ~r.dollar /\ in \notin {BS, SQ})
    BY DEF Read, In
  <1>3. ~(\/ r.doubt
          \/ in \in {"(", BQ} /\ c \in {"(", ")", BQ} /\ ~(Len(open) < Len(r.open))
          \/ in = "{" /\ c = "{" /\ r.dollar
          \/ in = "" /\ c = ")" /\ r.dollar)
    BY DEF Read, In
  <1>4. in \in Opening \cup {""}
    BY LastIn DEF In
  <1>5. k = KindOf(in)
    OBVIOUS
  <1>6. /\ Len(Append(r.open, c)) = Len(r.open) + 1 /\ Len(r.open) \in Nat
    OBVIOUS
  <1>14. ASSUME in \in {"(", BQ}, c \in {"(", ")", BQ}
         PROVE  open # r.open /\ open # Append(r.open, c)
    <2>1. Len(open) < Len(r.open)
      BY <1>3, <1>14
    <2>. HIDE DEF in, open
    <2>. QED  BY <1>6, <2>1
  <1>. HIDE DEF in
  <1>7. CASE in = BS
    <2>1. k = Esc
      BY <1>5, <1>7 DEF KindOf
    <2>2. Shuts(c, k, d) /\ Opens(c, k, d) = None
      BY <2>1 DEF Shuts, Opens
    <2>3. open = Front(r.open)
      BY <1>7 DEF BS, SQ
    <2>. QED  BY <1>1, <1>2, <1>3, <1>7, <2>1, <2>2, <2>3 DEF Dollars
  <1>8. CASE in = SQ
    <2>1. k = Squote /\ ~d
      BY <1>5, <1>8 DEF KindOf, Possible, Squote, Esc, BS, SQ
    <2>2. /\ Shuts(c, k, d) <=> c = SQ
          /\ Opens(c, k, d) = None
          /\ open = IF c = SQ THEN Front(r.open) ELSE r.open
      BY <1>8, <2>1 DEF Shuts, Opens, Esc, Squote, Dquote, Sub, Param, BS, SQ
    <2>. QED  BY <1>1, <1>2, <1>3, <1>8, <2>1, <2>2 DEF Dollars
  <1>9. CASE in = DQ
    <2>1. k = Dquote
      BY <1>5, <1>9 DEF KindOf, BS, SQ, DQ
    <2>2. CASE c \in {BS, DQ, BQ}
      BY <1>1, <1>2, <1>3, <1>9, <2>1, <2>2 DEF Shuts, Opens, Dollars, KindOf, Opening, Esc, Squote,
         Dquote, Sub, Param, None, BS, SQ, DQ, BQ
    <2>3. CASE c \in {SQ, ")", "}"}
      BY <1>1, <1>2, <1>3, <1>9, <2>1, <2>3 DEF Shuts, Opens, Dollars, KindOf, Opening, Esc, Squote,
         Dquote, Sub, Param, None, BS, SQ, DQ, BQ
    <2>4. CASE c \in {"(", "{"}
      BY <1>1, <1>2, <1>3, <1>9, <2>1, <2>4 DEF Shuts, Opens, Dollars, KindOf, Opening, Esc, Squote,
         Dquote, Sub, Param, None, BS, SQ, DQ, BQ
    <2>5. CASE c \notin {BS, SQ, DQ, BQ, "(", ")", "{", "}"}
      BY <1>1, <1>2, <1>3, <1>9, <2>1, <2>5 DEF Shuts, Opens, Dollars, KindOf, Opening, Esc, Squote,
         Dquote, Sub, Param, None, BS, SQ, DQ, BQ
    <2>. QED  BY <2>2, <2>3, <2>4, <2>5
  <1>10. CASE in = BQ
    <2>1. k = Sub
      BY <1>5, <1>10 DEF KindOf, BS, SQ, DQ, BQ
    <2>2. CASE c \in {BS, DQ, BQ}
      BY <1>1, <1>2, <1>3, <1>14, <1>10, <2>1, <2>2
         DEF Shuts, Opens, Dollars, KindOf, Opening, Esc, Squote, Dquote, Sub, Param, None,
             BS, SQ, DQ, BQ
    <2>3. CASE c \in {SQ, ")", "}"}
      BY <1>1, <1>2, <1>3, <1>14, <1>10, <2>1, <2>3
         DEF Shuts, Opens, Dollars, KindOf, Opening, Esc, Squote, Dquote, Sub, Param, None,
             BS, SQ, DQ, BQ
    <2>4. CASE c \in {"(", "{"}
      BY <1>1, <1>2, <1>3, <1>14, <1>10, <2>1, <2>4
         DEF Shuts, Opens, Dollars, KindOf, Opening, Esc, Squote, Dquote, Sub, Param, None,
             BS, SQ, DQ, BQ
    <2>5. CASE c \notin {BS, SQ, DQ, BQ, "(", ")", "{", "}"}
      BY <1>1, <1>2, <1>3, <1>14, <1>10, <2>1, <2>5
         DEF Shuts, Opens, Dollars, KindOf, Opening, Esc, Squote, Dquote, Sub, Param, None,
             BS, SQ, DQ, BQ
    <2>. QED  BY <2>2, <2>3, <2>4, <2>5
  <1>11. CASE in = "("
    <2>1. k = Sub
      BY <1>5, <1>11 DEF KindOf, BS, SQ, DQ, BQ
    <2>2. CASE c \in {BS, DQ, BQ}
      BY <1>1, <1>2, <1>3, <1>14, <1>11, <2>1, <2>2
         DEF Shuts, Opens, Dollars, KindOf, Opening, Esc, Squote, Dquote, Sub, Param, None,
             BS, SQ, DQ, BQ
    <2>3. CASE c \in {SQ, ")", "}"}
      BY <1>1, <1>2, <1>3, <1>14, <1>11, <2>1, <2>3
         DEF Shuts, Opens, Dollars, KindOf, Opening, Esc, Squote, Dquote, Sub, Param, None,
             BS, SQ, DQ, BQ
    <2>4. CASE c \in {"(", "{"}
      BY <1>1, <1>2, <1>3, <1>14, <1>11, <2>1, <2>4
         DEF Shuts, Opens, Dollars, KindOf, Opening, Esc, Squote, Dquote, Sub, Param, None,
             BS, SQ, DQ, BQ
    <2>5. CASE c \notin {BS, SQ, DQ, BQ, "(", ")", "{", "}"}
      BY <1>1, <1>2, <1>3, <1>14, <1>11, <2>1, <2>5
         DEF Shuts, Opens, Dollars, KindOf, Opening, Esc, Squote, Dquote, Sub, Param, None,
             BS, SQ, DQ, BQ
    <2>. QED  BY <2>2, <2>3, <2>4, <2>5
  <1>12. CASE in = "{"
    <2>1. k = Param
      BY <1>5, <1>12 DEF KindOf, BS, SQ, DQ, BQ
    <2>2. CASE c \in {BS, DQ, BQ}
      BY <1>1, <1>2, <1>3, <1>14, <1>12, <2>1, <2>2
         DEF Shuts, Opens, Dollars, KindOf, Opening, Esc, Squote, Dquote, Sub, Param, None,
             BS, SQ, DQ, BQ
    <2>3. CASE c \in {SQ, ")", "}"}
      BY <1>1, <1>2, <1>3, <1>14, <1>12, <2>1, <2>3
         DEF Shuts, Opens, Dollars, KindOf, Opening, Esc, Squote, Dquote, Sub, Param, None,
             BS, SQ, DQ, BQ
    <2>4. CASE c \in {"(", "{"}
      BY <1>1, <1>2, <1>3, <1>14, <1>12, <2>1, <2>4
         DEF Shuts, Opens, Dollars, KindOf, Opening, Esc, Squote, Dquote, Sub, Param, None,
             BS, SQ, DQ, BQ
    <2>5. CASE c \notin {BS, SQ, DQ, BQ, "(", ")", "{", "}"}
      BY <1>1, <1>2, <1>3, <1>14, <1>12, <2>1, <2>5
         DEF Shuts, Opens, Dollars, KindOf, Opening, Esc, Squote, Dquote, Sub, Param, None,
             BS, SQ, DQ, BQ
    <2>. QED  BY <2>2, <2>3, <2>4, <2>5
  <1>13. CASE in = ""
    <2>1. k = None
      BY <1>5, <1>13 DEF KindOf, BS, SQ, DQ, BQ
    <2>2. CASE c \in {BS, DQ, BQ}
      BY <1>1, <1>2, <1>3, <1>14, <1>13, <2>1, <2>2
         DEF Shuts, Opens, Dollars, KindOf, Opening, Esc, Squote, Dquote, Sub, Param, None,
             BS, SQ, DQ, BQ
    <2>3. CASE c \in {SQ, ")", "}"}
      BY <1>1, <1>2, <1>3, <1>14, <1>13, <2>1, <2>3
         DEF Shuts, Opens, Dollars, KindOf, Opening, Esc, Squote, Dquote, Sub, Param, None,
             BS, SQ, DQ, BQ
    <2>4. CASE c \in {"(", "{"}
      BY <1>1, <1>2, <1>3, <1>14, <1>13, <2>1, <2>4
         DEF Shuts, Opens, Dollars, KindOf, Opening, Esc, Squote, Dquote, Sub, Param, None,
             BS, SQ, DQ, BQ
    <2>5. CASE c \notin {BS, SQ, DQ, BQ, "(", ")", "{", "}"}
      BY <1>1, <1>2, <1>3, <1>14, <1>13, <2>1, <2>5
         DEF Shuts, Opens, Dollars, KindOf, Opening, Esc, Squote, Dquote, Sub, Param, None,
             BS, SQ, DQ, BQ
    <2>. QED  BY <2>2, <2>3, <2>4, <2>5
  <1>. QED  BY <1>4, <1>7, <1>8, <1>9, <1>10, <1>11, <1>12, <1>13 DEF Opening

LEMMA ReadIs ==
    ASSUME NEW r, NEW c, r.open \in Seq(Opening)
    PROVE  /\ Read(r, c).open \in Seq(Opening)
           /\ Read(r, c).dollar \in BOOLEAN
  <1>. DEFINE in == In(r)
              open ==
                 CASE in = BS -> Front(r.open)
                   [] in = SQ -> IF c = SQ THEN Front(r.open) ELSE r.open
                   [] in \notin {BS, SQ} ->
                        CASE c = BS               -> Append(r.open, c)
                          [] c \in {DQ, BQ}       -> IF in = c THEN Front(r.open)
                                                     ELSE Append(r.open, c)
                          [] c = SQ /\ in # DQ    -> Append(r.open, c)
                          [] c \in {"(", "{"} /\ r.dollar -> Append(r.open, c)
                          [] c = "(" /\ in = "("     -> Append(r.open, c)
                          [] c = ")" /\ in = "("     -> Front(r.open)
                          [] c = "}" /\ in = "{"     -> Front(r.open)
                          [] OTHER                   -> r.open
  <1>1. Read(r, c).open = open /\ Read(r, c).dollar \in BOOLEAN
    BY DEF Read, In
  <1>2. \/ open = Front(r.open) /\ in # ""
        \/ open = r.open
        \/ open = Append(r.open, c) /\ c \in Opening
    <2>. HIDE DEF in
    <2>1. CASE in = BS
      BY <2>1 DEF BS, SQ
    <2>2. CASE in = SQ
      BY <2>2 DEF BS, SQ
    <2>3. CASE in \notin {BS, SQ}
      <3>1. CASE c \in {BS, DQ, BQ, SQ}
        BY <2>3, <3>1 DEF BS, SQ, DQ, BQ, Opening
      <3>2. CASE c \in {"(", "{", ")", "}"}
        BY <2>3, <3>2 DEF BS, SQ, DQ, BQ, Opening
      <3>3. CASE c \notin {BS, SQ, DQ, BQ, "(", ")", "{", "}"}
        BY <2>3, <3>3
      <3>. QED  BY <3>1, <3>2, <3>3
    <2>. QED  BY <2>1, <2>2, <2>3
  <1>3. in # "" => r.open # <<>>
    BY DEF In
  <1>4. Front(r.open) \in Seq(Opening) \/ r.open = <<>>
    BY FrontIs
  <1>5. c \in Opening => Append(r.open, c) \in Seq(Opening)
    OBVIOUS
  <1>. HIDE DEF in, open
  <1>. QED  BY <1>1, <1>2, <1>3, <1>4, <1>5

----------------------------------------------------------------------------
(* The live calls *)

Modes    == {Esc, Dollar, Sub, Param, Squote, Dquote}
FrameSet == [mode : SUBSET Modes, state : States]

OfKind(f, k, d) == f.mode = Mode(k, d) /\ Possible(k, d)

\* The outermost call is of no kind, the others of one; `$` is remembered by
\* the innermost only.
Nested ==
    /\ frames \in Seq(FrameSet) /\ frames # <<>>
    /\ \E d \in BOOLEAN : OfKind(frames[1], None, d)
    /\ \A i \in 2 .. Len(frames) : \E k \in Kinds, d \in BOOLEAN : OfKind(frames[i], k, d)
    /\ \A i \in 1 .. Len(frames) - 1 : Dollar \notin frames[i].mode

ReaderOK == reader.open \in Seq(Opening) /\ reader.dollar \in BOOLEAN

\* The two agree.
Agrees ==
    ~reader.doubt =>
        /\ Len(frames) = Len(reader.open) + 1
        /\ \A i \in 1 .. Len(reader.open) :
             frames[i + 1].mode \ {Dollar} = Base(KindOf(reader.open[i]))
        /\ reader.dollar = (Dollar \in Top.mode)

LEMMA KindsDiffer ==
    /\ Dollar \notin Kinds /\ None \notin Kinds /\ Dollar # None
    /\ Modes = Kinds \cup {Dollar}
    /\ Esc # Squote
  BY DEF Kinds, Modes, Dollar, None, Esc, Sub, Param, Squote, Dquote

LEMMA ModeParts ==
    ASSUME NEW f, NEW k, NEW d, OfKind(f, k, d)
    PROVE  /\ f.mode \ {Dollar} = Base(k) /\ (Dollar \in f.mode <=> d) /\ d \in BOOLEAN
           /\ k \in Kinds \cup {None}
  BY KindsDiffer DEF OfKind, Possible, Mode, Base, Bit

LEMMA TopKind ==
    ASSUME Nested
    PROVE  /\ Top \in FrameSet /\ Top = frames[Len(frames)] /\ Len(frames) \in Nat \ {0}
           /\ \E k, d : OfKind(Top, k, d) /\ (k = None <=> Len(frames) = 1)
  <1>1. Top \in FrameSet /\ Top = frames[Len(frames)] /\ Len(frames) \in Nat \ {0}
    BY FrontIs DEF Nested, Top, Last
  <1>2. CASE Len(frames) = 1
    BY <1>1, <1>2 DEF Nested
  <1>3. CASE Len(frames) # 1
    <2>1. Len(frames) \in 2 .. Len(frames)
      <3>1. \A n \in Nat \ {0} : n # 1 => n \in 2 .. n
        OBVIOUS
      <3>. QED  BY <1>1, <1>3, <3>1
    <2>2. PICK k \in Kinds, d \in BOOLEAN : OfKind(Top, k, d)
      BY <1>1, <2>1 DEF Nested
    <2>. QED  BY <1>1, <1>3, <2>2, KindsDiffer
  <1>. QED  BY <1>1, <1>2, <1>3

\* What Push does to the calls, by what the character means.
LEMMA PushFrames ==
    ASSUME Nested, NEW k, NEW d, OfKind(Top, k, d), k = None <=> Len(frames) = 1, NEW c, Push(c)
    PROVE  /\ Shuts(c, k, d) => k # None /\ frames' = Front(frames)
           /\ Opens(c, k, d) # None => \E st \in States :
                frames' = Append(Append(Front(frames), [mode |-> Base(k), state |-> st]),
                                 [mode |-> {Opens(c, k, d)}, state |-> Entry])
           /\ ~Shuts(c, k, d) /\ Opens(c, k, d) = None => \E st \in States :
                frames' = Append(Front(frames), [mode |-> Mode(k, Dollars(c, k, d)), state |-> st])
  <1>. DEFINE mode == Top.mode
              sub  == Lexmode(c, mode)
              st   == IF Misfit(c) THEN Entry ELSE Dfa(c, Top.state)
              here == [mode |-> (mode \ {Dollar}) \cup (sub \cap {Dollar}), state |-> st]
              turn == sub # mode /\ Xor(mode, sub) # {Dollar}
  <1>1. frames' = CASE turn /\ sub = {} -> Front(frames)
                    [] turn /\ sub # {} -> Append(Append(Front(frames), here),
                                                 Frame(Xor(mode, sub) \ {Dollar}))
                    [] ~turn            -> Append(Front(frames), here)
    BY DEF Push
  <1>2. mode = Mode(k, d) /\ Possible(k, d) /\ mode \ {Dollar} = Base(k) /\ k \in Kinds \cup {None}
    BY ModeParts DEF OfKind
  <1>3. st \in States
    <2>1. Entry \in States /\ Top.state \in States
      BY TopKind DEF States, FrameSet
    <2>2. ~Misfit(c) => Dfa(c, Top.state) # Err
      BY DEF Misfit
    <2>3. Dfa(c, Top.state) # Err => Dfa(c, Top.state) \in States
      BY <2>1, DfaIs DEF States
    <2>. QED  BY <2>1, <2>2, <2>3
  <1>. HIDE DEF st, mode
  <1>4. CASE Shuts(c, k, d)
    <2>1. sub = {} /\ Opens(c, k, d) = None
      BY <1>2, <1>4, ModeStep
    <2>2. k \in Kinds
      BY <1>2, <1>4 DEF Shuts, Kinds
    <2>3. k \in mode /\ k # Dollar /\ k # None
      BY <1>2, <2>2, KindsDiffer DEF Mode, Base
    <2>4. turn
      BY <2>1, <2>3 DEF Xor
    <2>. QED  BY <1>1, <1>4, <2>1, <2>3, <2>4
  <1>5. CASE Opens(c, k, d) # None
    <2>. DEFINE o == Opens(c, k, d)
    <2>1. sub = Base(k) \cup {o} /\ ~Shuts(c, k, d)
      BY <1>2, <1>5, ModeStep
    <2>2. o \in Kinds /\ o # k
      BY <1>5 DEF Opens, Kinds
    <2>. HIDE DEF o
    <2>3. o # Dollar /\ o \notin mode /\ Dollar \notin sub
      BY <1>2, <2>1, <2>2, KindsDiffer DEF Mode, Base, Bit
    <2>4. turn /\ sub # {}
      BY <2>1, <2>3 DEF Xor
    <2>5. Xor(mode, sub) \ {Dollar} = {o}
      BY <1>2, <2>1, <2>2, <2>3 DEF Xor
    <2>6. here = [mode |-> Base(k), state |-> st]
      BY <1>2, <2>3
    <2>7. frames' = Append(Append(Front(frames), here), Frame({o}))
      BY <1>1, <2>4, <2>5
    <2>8. frames' = Append(Append(Front(frames), [mode |-> Base(k), state |-> st]), Frame({o}))
      BY <2>6, <2>7
    <2>9. Frame({o}) = [mode |-> {Opens(c, k, d)}, state |-> Entry]
      BY DEF Frame, o
    <2>. QED  BY <1>3, <1>5, <2>1, <2>8, <2>9
  <1>6. CASE ~Shuts(c, k, d) /\ Opens(c, k, d) = None
    <2>. DEFINE e == Dollars(c, k, d)
    <2>1. sub = Base(k) \cup Bit(e)
      BY <1>2, <1>6, ModeStep
    <2>2. Bit(e) = {} \/ Bit(e) = {Dollar}
      BY DEF Bit
    <2>3. Dollar \notin Base(k)
      BY <1>2
    <2>. HIDE DEF e
    <2>4. ~turn
      <3>1. \A x \in Xor(mode, sub) : x = Dollar
        BY <1>2, <2>1, <2>2 DEF Xor
      <3>2. CASE Dollar \in Xor(mode, sub)
        BY <3>1, <3>2
      <3>3. CASE Dollar \notin Xor(mode, sub)
        BY <3>1, <3>3 DEF Xor
      <3>. QED  BY <3>2, <3>3
    <2>5. (mode \ {Dollar}) \cup (sub \cap {Dollar}) = Mode(k, e)
      BY <1>2, <2>1, <2>2, <2>3 DEF Mode
    <2>6. frames' = Append(Front(frames), here)
      BY <1>1, <2>4
    <2>. QED  BY <1>3, <1>6, <2>5, <2>6 DEF e
  <1>. QED  BY <1>4, <1>5, <1>6

----------------------------------------------------------------------------
(* A character that is pushed *)

\* Push, in terms of the number of calls.
LEMMA CallsAfter ==
    ASSUME NEW fs \in Seq(FrameSet), fs # <<>>, NEW f \in FrameSet, NEW g \in FrameSet
    PROVE  LET n == Len(fs) IN
           /\ n \in Nat \ {0}
           /\ n > 1 => /\ Front(fs) \in Seq(FrameSet) /\ Len(Front(fs)) = n - 1
                       /\ Front(fs) # <<>>
           /\ \A i \in 1 .. n - 1 : Front(fs)[i] = fs[i]
           /\ LET once == Append(Front(fs), f) IN
              /\ once \in Seq(FrameSet) /\ once # <<>> /\ Len(once) = n /\ once[n] = f
              /\ \A i \in 1 .. n - 1 : once[i] = fs[i]
              /\ LET twice == Append(once, g) IN
                 /\ twice \in Seq(FrameSet) /\ twice # <<>> /\ Len(twice) = n + 1
                 /\ twice[n] = f /\ twice[n + 1] = g
                 /\ \A i \in 1 .. n - 1 : twice[i] = fs[i]
  <1>. DEFINE n == Len(fs)
              once == Append(Front(fs), f)
              twice == Append(once, g)
  <1>1. /\ Front(fs) \in Seq(FrameSet) /\ Len(Front(fs)) = n - 1
        /\ \A i \in 1 .. n - 1 : Front(fs)[i] = fs[i]
        /\ n \in Nat \ {0}
    BY FrontIs
  <1>. HIDE DEF n
  <1>2. /\ once \in Seq(FrameSet) /\ Len(once) = n - 1 + 1
        /\ \A i \in 1 .. n - 1 : once[i] = Front(fs)[i]
        /\ once[n - 1 + 1] = f
    BY <1>1, AppendProperties
  <1>3. n - 1 + 1 = n /\ n - 1 \in Nat
    BY <1>1
  <1>. HIDE DEF once
  <1>4. /\ twice \in Seq(FrameSet) /\ Len(twice) = n + 1
        /\ \A i \in 1 .. n : twice[i] = once[i]
        /\ twice[n + 1] = g
    BY <1>2, <1>3, AppendProperties
  <1>5. n \in 1 .. n /\ \A i \in 1 .. n - 1 : i \in 1 .. n
    BY <1>1
  <1>. HIDE DEF twice
  <1>6. /\ n > 1 => Front(fs) # <<>>
        /\ once # <<>> /\ twice # <<>>
    <2>1. Len(<<>>) = 0
      OBVIOUS
    <2>2. n # 0 /\ n + 1 # 0 /\ (n > 1 => n - 1 # 0)
      BY <1>1
    <2>. QED  BY <1>1, <1>2, <1>3, <1>4, <2>1, <2>2
  <1>7. once[n] = f /\ \A i \in 1 .. n - 1 : once[i] = fs[i]
    BY <1>1, <1>2, <1>3
  <1>8. twice[n] = f /\ \A i \in 1 .. n - 1 : twice[i] = fs[i]
    BY <1>4, <1>5, <1>7
  <1>. QED  BY <1>1, <1>2, <1>3, <1>4, <1>6, <1>7, <1>8 DEF n, once, twice

LEMMA ModeIn ==
    ASSUME NEW k \in Kinds \cup {None}, NEW d \in BOOLEAN
    PROVE  /\ Mode(k, d) \in SUBSET Modes /\ Base(k) = Mode(k, FALSE)
           /\ Mode(k, d) \ {Dollar} = Base(k) /\ (Dollar \in Mode(k, d) <=> d)
           /\ Possible(k, FALSE)
  BY KindsDiffer DEF Mode, Base, Bit, Possible

\* The three things that happen to the calls keep them nested.
LEMMA NestedEnds ==
    ASSUME Nested, Len(frames) # 1, frames' = Front(frames)
    PROVE  /\ Nested' /\ Len(frames') = Len(frames) - 1
           /\ \A i \in 1 .. Len(frames) - 1 : frames'[i] = frames[i]
           /\ Dollar \notin Top'.mode
  <1>. DEFINE n == Len(frames)
  <1>1. /\ frames \in Seq(FrameSet) /\ frames # <<>> /\ Top \in FrameSet
    BY TopKind DEF Nested
  <1>2. /\ n \in Nat \ {0} /\ n # 1
        /\ n > 1 => frames' \in Seq(FrameSet) /\ Len(frames') = n - 1 /\ frames' # <<>>
        /\ \A i \in 1 .. n - 1 : frames'[i] = frames[i]
    BY <1>1, CallsAfter
  <1>. HIDE DEF n
  <1>3. n > 1 /\ n - 1 \in 1 .. n - 1 /\ 1 \in 1 .. n - 1
    BY <1>2
  <1>4. /\ 2 .. n - 1 \subseteq 2 .. n /\ 2 .. n - 1 \subseteq 1 .. n - 1
        /\ 1 .. (n - 1) - 1 \subseteq 1 .. n - 1
    BY <1>2
  <1>5. Top' = frames[n - 1]
    BY <1>2, <1>3 DEF Top
  <1>6. \A i \in 1 .. n - 1 : Dollar \notin frames[i].mode
    BY DEF Nested, n
  <1>7. \A i \in 2 .. n : \E k \in Kinds, d \in BOOLEAN : OfKind(frames[i], k, d)
    BY DEF Nested, n
  <1>8. \E d \in BOOLEAN : OfKind(frames[1], None, d)
    BY DEF Nested
  <1>9. /\ \E d \in BOOLEAN : OfKind(frames'[1], None, d)
        /\ \A i \in 2 .. n - 1 : \E k \in Kinds, d \in BOOLEAN : OfKind(frames'[i], k, d)
        /\ \A i \in 1 .. (n - 1) - 1 : Dollar \notin frames'[i].mode
    BY <1>2, <1>3, <1>4, <1>6, <1>7, <1>8
  <1>10. Nested'
    BY <1>2, <1>3, <1>9 DEF Nested, OfKind
  <1>. QED  BY <1>2, <1>3, <1>5, <1>6, <1>10 DEF n

LEMMA NestedStays ==
    ASSUME Nested, NEW k, k \in Kinds \cup {None}, k = None <=> Len(frames) = 1,
           NEW e \in BOOLEAN, Possible(k, e), NEW st \in States,
           frames' = Append(Front(frames), [mode |-> Mode(k, e), state |-> st])
    PROVE  /\ Nested' /\ Len(frames') = Len(frames)
           /\ \A i \in 1 .. Len(frames) - 1 : frames'[i] = frames[i]
           /\ Top'.mode = Mode(k, e) /\ Top' = frames'[Len(frames)]
  <1>. DEFINE n == Len(frames)
              f == [mode |-> Mode(k, e), state |-> st]
  <1>1. /\ frames \in Seq(FrameSet) /\ frames # <<>> /\ f \in FrameSet
    BY ModeIn DEF Nested, FrameSet
  <1>2. /\ n \in Nat \ {0}
        /\ frames' \in Seq(FrameSet) /\ Len(frames') = n /\ frames' # <<>> /\ frames'[n] = f
        /\ \A i \in 1 .. n - 1 : frames'[i] = frames[i]
    BY <1>1, CallsAfter
  <1>3. f.mode = Mode(k, e) /\ OfKind(f, k, e)
    BY DEF OfKind
  <1>4. k = None <=> n = 1
    OBVIOUS
  <1>. HIDE DEF n, f
  <1>5. Top' = f
    BY <1>2 DEF Top
  <1>6. \A i \in 1 .. n - 1 : Dollar \notin frames[i].mode
    BY DEF Nested, n
  <1>7. \A i \in 2 .. n : \E j \in Kinds, d \in BOOLEAN : OfKind(frames[i], j, d)
    BY DEF Nested, n
  <1>8. \E d \in BOOLEAN : OfKind(frames[1], None, d)
    BY DEF Nested
  <1>9. \E d \in BOOLEAN : OfKind(frames'[1], None, d)
    <2>1. CASE n = 1
      BY <1>2, <1>3, <1>4, <2>1
    <2>2. CASE n # 1
      <3>1. 1 \in 1 .. n - 1
        BY <1>2, <2>2
      <3>. QED  BY <1>2, <1>8, <3>1
    <2>. QED  BY <2>1, <2>2
  <1>10. ASSUME NEW i \in 2 .. n
         PROVE  \E j \in Kinds, d \in BOOLEAN : OfKind(frames'[i], j, d)
    <2>1. CASE i = n
      <3>1. n # 1
        BY <1>2, <2>1
      <3>. QED  BY <1>2, <1>3, <1>4, <2>1, <3>1
    <2>2. CASE i # n
      <3>1. i \in 1 .. n - 1
        BY <1>2, <2>2
      <3>. QED  BY <1>2, <1>7, <3>1
    <2>. QED  BY <2>1, <2>2
  <1>11. Nested'
    BY <1>2, <1>6, <1>9, <1>10 DEF Nested, OfKind
  <1>. QED  BY <1>2, <1>3, <1>5, <1>11 DEF n

LEMMA NestedGrows ==
    ASSUME Nested, NEW k, k \in Kinds \cup {None}, k = None <=> Len(frames) = 1,
           NEW o \in Kinds, NEW st \in States,
           frames' = Append(Append(Front(frames), [mode |-> Base(k), state |-> st]),
                            [mode |-> {o}, state |-> Entry])
    PROVE  /\ Nested' /\ Len(frames') = Len(frames) + 1
           /\ \A i \in 1 .. Len(frames) - 1 : frames'[i] = frames[i]
           /\ frames'[Len(frames)].mode = Base(k)
           /\ Top'.mode = {o} /\ Top' = frames'[Len(frames) + 1]
  <1>. DEFINE n == Len(frames)
              f == [mode |-> Base(k), state |-> st]
              g == [mode |-> {o}, state |-> Entry]
  <1>1. /\ Base(k) = Mode(k, FALSE) /\ Possible(k, FALSE) /\ Base(k) \subseteq Modes
        /\ {o} = Mode(o, FALSE) /\ Possible(o, FALSE) /\ {o} \subseteq Modes
        /\ Dollar \notin Base(k)
    BY ModeIn, KindsDiffer DEF Base
  <1>2. /\ frames \in Seq(FrameSet) /\ frames # <<>> /\ f \in FrameSet /\ g \in FrameSet
    BY <1>1 DEF Nested, FrameSet, States
  <1>3. /\ n \in Nat \ {0}
        /\ frames' \in Seq(FrameSet) /\ Len(frames') = n + 1 /\ frames' # <<>>
        /\ frames'[n] = f /\ frames'[n + 1] = g
        /\ \A i \in 1 .. n - 1 : frames'[i] = frames[i]
    BY <1>2, CallsAfter
  <1>4. /\ f.mode = Base(k) /\ OfKind(f, k, FALSE)
        /\ g.mode = {o} /\ OfKind(g, o, FALSE)
    BY <1>1 DEF OfKind
  <1>5. k = None <=> n = 1
    OBVIOUS
  <1>. HIDE DEF n, f, g
  <1>6. Top' = g
    BY <1>3 DEF Top
  <1>7. \A i \in 1 .. n - 1 : Dollar \notin frames[i].mode
    BY DEF Nested, n
  <1>8. \A i \in 2 .. n : \E j \in Kinds, d \in BOOLEAN : OfKind(frames[i], j, d)
    BY DEF Nested, n
  <1>9. \E d \in BOOLEAN : OfKind(frames[1], None, d)
    BY DEF Nested
  <1>10. \E d \in BOOLEAN : OfKind(frames'[1], None, d)
    <2>1. CASE n = 1
      BY <1>3, <1>4, <1>5, <2>1
    <2>2. CASE n # 1
      <3>1. 1 \in 1 .. n - 1
        BY <1>3, <2>2
      <3>. QED  BY <1>3, <1>9, <3>1
    <2>. QED  BY <2>1, <2>2
  <1>11. ASSUME NEW i \in 2 .. n + 1
         PROVE  \E j \in Kinds, d \in BOOLEAN : OfKind(frames'[i], j, d)
    <2>1. CASE i = n
      <3>1. n # 1
        BY <1>3, <2>1
      <3>. QED  BY <1>3, <1>4, <1>5, <2>1, <3>1
    <2>2. CASE i = n + 1
      BY <1>3, <1>4, <2>2
    <2>3. CASE i # n /\ i # n + 1
      <3>1. i \in 1 .. n - 1 /\ i \in 2 .. n
        BY <1>3, <2>3
      <3>. QED  BY <1>3, <1>8, <3>1
    <2>. QED  BY <2>1, <2>2, <2>3
  <1>12. ASSUME NEW i \in 1 .. n
         PROVE  Dollar \notin frames'[i].mode
    <2>1. CASE i = n
      BY <1>1, <1>3, <1>4, <2>1
    <2>2. CASE i # n
      <3>1. i \in 1 .. n - 1
        BY <1>3, <2>2
      <3>. QED  BY <1>3, <1>7, <3>1
    <2>. QED  BY <2>1, <2>2
  <1>13. \A i \in 1 .. Len(frames') - 1 : Dollar \notin frames'[i].mode
    <2>1. n + 1 - 1 = n
      BY <1>3
    <2>. QED  BY <1>3, <1>12, <2>1
  <1>14. \A i \in 2 .. Len(frames') : \E j \in Kinds, d \in BOOLEAN : OfKind(frames'[i], j, d)
    BY <1>3, <1>11
  <1>15. Nested'
    BY <1>3, <1>10, <1>13, <1>14 DEF Nested, OfKind
  <1>. QED  BY <1>3, <1>4, <1>6, <1>15 DEF n

\* With nothing in doubt, the kind of the innermost call is what the reader has
\* open.
LEMMA TopIsOpen ==
    ASSUME Nested, ReaderOK, Agrees, ~reader.doubt, NEW k, NEW d, OfKind(Top, k, d)
    PROVE  k = KindOf(In(reader)) /\ d = reader.dollar /\ Possible(k, d)
           /\ k \in Kinds \cup {None}
  <1>1. /\ Top.mode \ {Dollar} = Base(k) /\ (Dollar \in Top.mode <=> d) /\ d \in BOOLEAN
        /\ k \in Kinds \cup {None}
    BY ModeParts
  <1>2. d = reader.dollar
    BY <1>1 DEF Agrees, ReaderOK
  <1>3. CASE reader.open = <<>>
    <2>1. Len(frames) = 1 /\ Top = frames[1]
      BY <1>3 DEF Agrees, Top
    <2>2. Top.mode \ {Dollar} = {}
      BY <2>1, ModeParts DEF Nested, Base
    <2>3. k = None
      BY <1>1, <2>2 DEF Base
    <2>4. KindOf(In(reader)) = None
      BY <1>3 DEF In, KindOf, BS, SQ, DQ, BQ
    <2>. QED  BY <1>1, <1>2, <2>3, <2>4 DEF OfKind
  <1>4. CASE reader.open # <<>>
    <2>. DEFINE m == Len(reader.open)
    <2>1. reader.open[m] \in Opening /\ m \in Nat \ {0} /\ In(reader) = reader.open[m]
      BY <1>4, FrontIs DEF ReaderOK, In
    <2>2. Top = frames[m + 1]
      BY DEF Agrees, Top
    <2>3. Top.mode \ {Dollar} = Base(KindOf(In(reader)))
      BY <2>1, <2>2 DEF Agrees
    <2>4. KindOf(In(reader)) \in Kinds
      BY <2>1, MeaningIs
    <2>5. Base(k) = {KindOf(In(reader))}
      BY <1>1, <2>3, <2>4, KindsDiffer DEF Base
    <2>6. k = KindOf(In(reader))
      BY <2>5 DEF Base
    <2>. QED  BY <1>1, <1>2, <2>6 DEF OfKind
  <1>. QED  BY <1>3, <1>4

LEMMA PushAgrees ==
    ASSUME Nested, ReaderOK, Agrees, NEW c, Push(c)
    PROVE  Nested' /\ ReaderOK' /\ Agrees'
  <1>1. PICK k, d : OfKind(Top, k, d) /\ (k = None <=> Len(frames) = 1)
    BY TopKind
  <1>2. reader' = Read(reader, c)
    BY DEF Push
  <1>3. ReaderOK'
    BY <1>2, ReadIs DEF ReaderOK
  <1>. DEFINE n == Len(frames)
              m == Len(reader.open)
  <1>4. /\ k \in Kinds \cup {None} /\ d \in BOOLEAN /\ Possible(k, d)
        /\ n \in Nat \ {0}
    BY <1>1, ModeParts, TopKind DEF OfKind
  <1>5. m \in Nat
    BY DEF ReaderOK
  <1>6. ~reader'.doubt =>
          /\ ~reader.doubt
          /\ n = m + 1
          /\ \A i \in 1 .. m : frames[i + 1].mode \ {Dollar} = Base(KindOf(reader.open[i]))
          /\ Shuts(c, k, d) => reader'.open = Front(reader.open)
          /\ Opens(c, k, d) # None =>
               /\ c \in Opening /\ KindOf(c) = Opens(c, k, d)
               /\ reader'.open = Append(reader.open, c)
          /\ ~Shuts(c, k, d) /\ Opens(c, k, d) = None => reader'.open = reader.open
          /\ reader'.dollar = Dollars(c, k, d)
    <2>1. SUFFICES ASSUME ~reader'.doubt PROVE <1>6!2
      OBVIOUS
    <2>2. ~reader.doubt
      BY <1>2, <2>1 DEF Read
    <2>3. k = KindOf(In(reader)) /\ d = reader.dollar
      BY <1>1, <2>2, TopIsOpen
    <2>4. n = m + 1 /\ \A i \in 1 .. m : frames[i + 1].mode \ {Dollar} = Base(KindOf(reader.open[i]))
      BY <2>2 DEF Agrees
    <2>5. reader.open \in Seq(Opening) /\ reader.dollar \in BOOLEAN
      BY DEF ReaderOK
    <2>6. ~Read(reader, c).doubt
      BY <1>2, <2>1
    <2>7. /\ Shuts(c, k, d) => Read(reader, c).open = Front(reader.open)
          /\ Opens(c, k, d) # None =>
               /\ c \in Opening /\ KindOf(c) = Opens(c, k, d)
               /\ Read(reader, c).open = Append(reader.open, c)
          /\ ~Shuts(c, k, d) /\ Opens(c, k, d) = None => Read(reader, c).open = reader.open
          /\ Read(reader, c).dollar = Dollars(c, k, d)
      BY <1>4, <2>3, <2>5, <2>6, ReaderStep
    <2>. QED  BY <1>2, <2>2, <2>4, <2>7
  <1>. HIDE DEF n, m
  <1>7. CASE Shuts(c, k, d)
    <2>1. k # None /\ frames' = Front(frames)
      BY <1>1, <1>7, PushFrames
    <2>2. n # 1
      BY <1>1, <2>1 DEF n
    <2>3. /\ Nested' /\ Len(frames') = n - 1
          /\ \A i \in 1 .. n - 1 : frames'[i] = frames[i]
          /\ Dollar \notin Top'.mode
      BY <2>1, <2>2, NestedEnds DEF n
    <2>4. ASSUME ~reader'.doubt PROVE Agrees'
      <3>1. n = m + 1 /\ reader'.open = Front(reader.open) /\ reader'.dollar = Dollars(c, k, d)
        BY <1>6, <1>7, <2>4
      <3>2. m # 0
        BY <1>5, <2>2, <3>1
      <3>3. reader.open \in Seq(Opening) /\ reader.open # <<>>
        BY <3>2 DEF ReaderOK, m
      <3>4. Len(reader'.open) = m - 1 /\ \A i \in 1 .. m - 1 : reader'.open[i] = reader.open[i]
        BY <3>1, <3>3, FrontIs DEF m
      <3>5. \A i \in 1 .. m - 1 : i \in 1 .. m /\ i + 1 \in 1 .. n - 1
        BY <1>5, <3>1
      <3>6. \A i \in 1 .. m - 1 : frames'[i + 1].mode \ {Dollar} = Base(KindOf(reader'.open[i]))
        BY <1>6, <2>3, <2>4, <3>4, <3>5
      <3>7. ~Dollars(c, k, d)
        BY <1>7 DEF Shuts, Dollars, BQ, SQ, DQ, Esc, Squote
      <3>8. n - 1 = m - 1 + 1
        BY <1>5, <3>1
      <3>9. reader'.dollar = (Dollar \in Top'.mode)
        <4>1. ~reader'.dollar /\ reader'.dollar \in BOOLEAN
          BY <1>3, <3>1, <3>7 DEF ReaderOK
        <4>. QED  BY <2>3, <4>1
      <3>. QED  BY <2>3, <3>4, <3>6, <3>8, <3>9 DEF Agrees
    <2>. QED  BY <1>3, <2>3, <2>4 DEF Agrees
  <1>8. CASE Opens(c, k, d) # None
    <2>. DEFINE o == Opens(c, k, d)
    <2>1. PICK st \in States :
            frames' = Append(Append(Front(frames), [mode |-> Base(k), state |-> st]),
                             [mode |-> {o}, state |-> Entry])
      BY <1>1, <1>8, PushFrames
    <2>2. o \in Kinds
      BY <1>8 DEF Opens, Kinds
    <2>3. ~Dollars(c, k, d)
      BY <1>8 DEF Opens, Dollars, BS, BQ, SQ, DQ
    <2>. HIDE DEF o
    <2>4. /\ Nested' /\ Len(frames') = n + 1
          /\ \A i \in 1 .. n - 1 : frames'[i] = frames[i]
          /\ frames'[n].mode = Base(k)
          /\ Top'.mode = {o} /\ Top' = frames'[n + 1]
      BY <1>1, <1>4, <2>1, <2>2, NestedGrows DEF n
    <2>5. ASSUME ~reader'.doubt PROVE Agrees'
      <3>1. /\ n = m + 1 /\ reader'.open = Append(reader.open, c) /\ c \in Opening
            /\ KindOf(c) = o /\ reader'.dollar = Dollars(c, k, d)
            /\ \A i \in 1 .. m : frames[i + 1].mode \ {Dollar} = Base(KindOf(reader.open[i]))
        BY <1>6, <1>8, <2>5 DEF o
      <3>2. /\ Len(reader'.open) = m + 1 /\ reader'.open[m + 1] = c
            /\ \A i \in 1 .. m : reader'.open[i] = reader.open[i]
        BY <3>1, AppendProperties DEF ReaderOK, m
      <3>3. ASSUME NEW i \in 1 .. m + 1
            PROVE  frames'[i + 1].mode \ {Dollar} = Base(KindOf(reader'.open[i]))
        <4>1. CASE i = m + 1
          <5>1. frames'[i + 1].mode = {o} /\ KindOf(reader'.open[i]) = o
            BY <2>4, <3>1, <3>2, <4>1
          <5>. QED  BY <2>2, <5>1, KindsDiffer DEF Base
        <4>2. CASE i = m /\ m # 0
          <5>1. m \in 1 .. m /\ frames[n] = Top
            BY <1>4, <1>5, <4>2 DEF Top, n
          <5>2. Top.mode \ {Dollar} = Base(k)
            BY <1>1, ModeParts
          <5>3. Base(k) = Base(KindOf(reader.open[m]))
            BY <3>1, <5>1, <5>2
          <5>4. Base(k) \ {Dollar} = Base(k)
            BY <5>2
          <5>. QED  BY <2>4, <3>1, <3>2, <4>2, <5>1, <5>3, <5>4
        <4>3. CASE i \in 1 .. m - 1
          <5>1. i \in 1 .. m /\ i + 1 \in 1 .. n - 1
            BY <1>5, <3>1, <4>3
          <5>. QED  BY <2>4, <3>1, <3>2, <5>1
        <4>4. i = m + 1 \/ (i = m /\ m # 0) \/ i \in 1 .. m - 1
          BY <1>5
        <4>. QED  BY <4>1, <4>2, <4>3, <4>4
      <3>4. Dollar \notin {o}
        BY <2>2, KindsDiffer
      <3>5. reader'.dollar = (Dollar \in Top'.mode)
        <4>1. ~reader'.dollar /\ reader'.dollar \in BOOLEAN
          BY <1>3, <2>3, <3>1 DEF ReaderOK
        <4>. QED  BY <2>4, <3>4, <4>1
      <3>6. Len(frames') = Len(reader'.open) + 1
        BY <2>4, <3>1, <3>2
      <3>. QED  BY <3>2, <3>3, <3>5, <3>6 DEF Agrees
    <2>. QED  BY <1>3, <2>4, <2>5 DEF Agrees
  <1>9. CASE ~Shuts(c, k, d) /\ Opens(c, k, d) = None
    <2>. DEFINE e == Dollars(c, k, d)
    <2>1. PICK st \in States :
            frames' = Append(Front(frames), [mode |-> Mode(k, e), state |-> st])
      BY <1>1, <1>9, PushFrames
    <2>2. e \in BOOLEAN /\ Possible(k, e)
      BY <1>4 DEF Dollars, Possible
    <2>3. reader'.dollar = Dollars(c, k, d) <=> reader'.dollar = e
      OBVIOUS
    <2>. HIDE DEF e
    <2>4. /\ Nested' /\ Len(frames') = n
          /\ \A i \in 1 .. n - 1 : frames'[i] = frames[i]
          /\ Top'.mode = Mode(k, e) /\ Top' = frames'[n]
      BY <1>1, <1>4, <2>1, <2>2, NestedStays DEF n
    <2>5. Mode(k, e) \ {Dollar} = Base(k) /\ (Dollar \in Mode(k, e) <=> e)
      BY <1>4, <2>2, ModeIn
    <2>6. ASSUME ~reader'.doubt PROVE Agrees'
      <3>1. /\ n = m + 1 /\ reader'.open = reader.open /\ reader'.dollar = e
            /\ \A i \in 1 .. m : frames[i + 1].mode \ {Dollar} = Base(KindOf(reader.open[i]))
        BY <1>6, <1>9, <2>3, <2>6
      <3>2. ASSUME NEW i \in 1 .. m
            PROVE  frames'[i + 1].mode \ {Dollar} = Base(KindOf(reader'.open[i]))
        <4>1. CASE i = m
          <5>1. frames[n] = Top /\ i + 1 = n
            BY <3>1, <4>1 DEF Top, n
          <5>2. Top.mode \ {Dollar} = Base(k)
            BY <1>1, ModeParts
          <5>. QED  BY <2>4, <2>5, <3>1, <5>1, <5>2
        <4>2. CASE i # m
          <5>1. i + 1 \in 1 .. n - 1
            BY <1>5, <3>1, <4>2
          <5>. QED  BY <2>4, <3>1, <5>1
        <4>. QED  BY <4>1, <4>2
      <3>3. Len(reader'.open) = m
        BY <3>1 DEF m
      <3>4. reader'.dollar = (Dollar \in Top'.mode)
        BY <2>2, <2>4, <2>5, <3>1
      <3>. QED  BY <2>4, <3>1, <3>2, <3>3, <3>4 DEF Agrees
    <2>. QED  BY <1>3, <2>4, <2>6 DEF Agrees
  <1>. QED  BY <1>7, <1>8, <1>9

----------------------------------------------------------------------------
(* The invariant *)

Modal == Nested /\ ReaderOK /\ Agrees

LEMMA InitModal == Init => Modal
  <1>1. SUFFICES ASSUME Init PROVE Modal
    OBVIOUS
  <1>2. /\ frames = <<Frame({})>> /\ reader.open = <<>> /\ reader.dollar = FALSE
    BY <1>1 DEF Init, LexInit, NewReader
  <1>3. Frame({}) \in FrameSet /\ OfKind(Frame({}), None, FALSE)
    BY ModeIn DEF Frame, FrameSet, States, OfKind, Mode, Base, Bit
  <1>4. Len(frames) = 1 /\ frames[1] = Frame({}) /\ frames \in Seq(FrameSet) /\ frames # <<>>
    BY <1>2, <1>3
  <1>5. Nested
    <2>1. (\A i \in 2 .. 1 : FALSE) /\ (\A i \in 1 .. 1 - 1 : FALSE)
      OBVIOUS
    <2>. QED  BY <1>3, <1>4, <2>1 DEF Nested
  <1>6. Agrees
    <2>1. Len(reader.open) = 0 /\ (\A i \in 1 .. 0 : FALSE)
      BY <1>2
    <2>2. Top.mode = {}
      BY <1>4 DEF Top, Frame
    <2>3. reader.dollar = (Dollar \in Top.mode)
      <3>1. ~reader.dollar /\ reader.dollar \in BOOLEAN
        BY <1>2
      <3>. QED  BY <2>2, <3>1
    <2>4. Len(frames) = Len(reader.open) + 1
      BY <1>4, <2>1
    <2>. QED  BY <2>1, <2>3, <2>4 DEF Agrees
  <1>7. ReaderOK
    <2>1. <<>> \in Seq(Opening) /\ FALSE \in BOOLEAN
      OBVIOUS
    <2>. QED  BY <1>2, <2>1 DEF ReaderOK
  <1>. QED  BY <1>5, <1>6, <1>7 DEF Modal

LEMMA ModalStep == Modal /\ [Next]_vars => Modal'
  <1>1. SUFFICES ASSUME Modal, [Next]_vars PROVE Modal'
    OBVIOUS
  <1>2. CASE Lex
    <2>1. PICK c : Push(c)
      BY <1>2 DEF Lex
    <2>. QED  BY <1>1, <2>1, PushAgrees DEF Modal
  <1>3. CASE UNCHANGED <<frames, reader>>
    BY <1>1, <1>3 DEF Modal, Nested, ReaderOK, Agrees, OfKind, Top
  <1>4. Lex \/ UNCHANGED <<frames, reader>>
    BY <1>1 DEF Next, LexNext, EndToken, EndLF, EndEOF, vars, lexVars
  <1>. QED  BY <1>2, <1>3, <1>4

LEMMA ModalHolds == Spec => []Modal
  BY InitModal, ModalStep, PTL DEF Spec

\* The recursion of __lexaux has a call for every quote and bracket that is
\* open, of its mode, in any text and however they nest, but for a substitution
\* directly in another.
THEOREM FramesFollowQuotes == Spec => []FramesAreOpen
  <1>1. ASSUME Modal PROVE FramesAreOpen
    <2>1. SUFFICES ASSUME ~reader.doubt
                   PROVE  /\ frames[1].mode \subseteq {Dollar}
                          /\ [i \in 1 .. Len(frames) - 1 |-> frames[i + 1].mode \ {Dollar}]
                               = [i \in DOMAIN reader.open |-> Meaning(reader.open[i])]
      BY DEF FramesAreOpen
    <2>2. frames[1].mode \subseteq {Dollar}
      <3>1. PICK d \in BOOLEAN : OfKind(frames[1], None, d)
        BY <1>1 DEF Modal, Nested
      <3>2. frames[1].mode \ {Dollar} = {}
        BY <3>1, ModeParts DEF Base
      <3>. QED  BY <3>2
    <2>3. /\ Len(frames) = Len(reader.open) + 1 /\ reader.open \in Seq(Opening)
          /\ Len(reader.open) \in Nat
          /\ \A i \in 1 .. Len(reader.open) :
               frames[i + 1].mode \ {Dollar} = Base(KindOf(reader.open[i]))
      BY <1>1, <2>1 DEF Modal, Agrees, ReaderOK
    <2>4. Len(frames) - 1 = Len(reader.open) /\ DOMAIN reader.open = 1 .. Len(reader.open)
      BY <2>3
    <2>5. ASSUME NEW i \in 1 .. Len(reader.open)
          PROVE  frames[i + 1].mode \ {Dollar} = Meaning(reader.open[i])
      <3>1. reader.open[i] \in Opening
        BY <2>3
      <3>2. Base(KindOf(reader.open[i])) = Meaning(reader.open[i])
        BY <3>1, MeaningIs, KindsDiffer DEF Base
      <3>. QED  BY <2>3, <3>2
    <2>. QED  BY <2>2, <2>4, <2>5
  <1>. QED  BY <1>1, ModalHolds, PTL

----------------------------------------------------------------------------
(* The tokens, letter by letter *)

Don   == <<"d", "o", "n">>
Bangs == <<"!", "!">>

\* What a word may have begun with that could not be a keyword where it stands.
Mistaken == Keyword \cup {Don, Bangs}

AssignName == "assignment word"
NumberName == "io number"

LEMMA MoreDistinct ==
    /\ \A c \in {AssignName, NumberName, "word"} :
         c \notin {LF, Semi, Lbrace, Rbrace, "&", "|", "!", "<", ">", "(", ")", "error"}
    /\ \A c \in Letter : c \notin {"$", SQ, DQ, BQ, BS}
    /\ \A c \in {"-", "!", "d", "o", "n", "e", "i", "f", Lbrace, Rbrace} : c \notin Delimiters
  BY Zenon DEF AssignName, NumberName, LF, Semi, Lbrace, Rbrace, Letter, SQ, DQ, BQ, BS, Delimiters

LEMMA NamesAre == T_ASSIGN = <<AssignName>> /\ T_IONUMBER = <<NumberName>>
  BY Zenon DEF T_ASSIGN, T_IONUMBER, AssignName, NumberName

LEMMA TokensDiffer ==
    /\ Special \cap Keyword = {} /\ Special \cap Mistaken = {Bangs}
    /\ \A w \in WordTokens : w \notin Fixed /\ w # T_EOF
    /\ T_EOF \notin Fixed /\ Don \notin Fixed /\ Don \in BegunTokens /\ <<>> \notin BegunTokens
  <1>1. Special \cap Keyword = {} /\ Special \cap Mistaken = {Bangs}
    BY SpecialIs, KeywordIs, Distinct DEF Mistaken, Don, Bangs
  <1>2. \A w \in {T_ASSIGN, T_IONUMBER, T_WORD} : w \notin Fixed /\ w # T_EOF
    BY SpecialIs, KeywordIs, NamesAre, MoreDistinct DEF Fixed, T_WORD, T_EOF
  <1>3. T_EOF \notin Fixed /\ Don \notin Fixed /\ <<>> \notin BegunTokens
    BY SpecialIs, KeywordIs, Distinct DEF Fixed, T_EOF, Don, BegunTokens
  <1>. QED  BY <1>1, <1>2, <1>3 DEF WordTokens, Don, BegunTokens

LEMMA BeforeLast ==
    ASSUME NEW S, NEW t \in Seq(S), NEW c, NEW x, NEW y, NEW z, NEW w
    PROVE  /\ Append(t, c) = <<x>> => t = <<>>
           /\ Append(t, c) = <<x, y>> => t = <<x>> /\ c = y
           /\ Append(t, c) = <<x, y, z>> => t = <<x, y>> /\ c = z
           /\ Append(t, c) = <<x, y, z, w>> => t = <<x, y, z>> /\ c = w
  <1>1. /\ Len(Append(t, c)) = Len(t) + 1 /\ Append(t, c)[Len(t) + 1] = c
        /\ \A i \in 1 .. Len(t) : Append(t, c)[i] = t[i]
        /\ Len(t) \in Nat
    OBVIOUS
  <1>2. \A m \in Nat : (m + 1 = 3 => m = 2) /\ (m + 1 = 4 => m = 3)
    OBVIOUS
  <1>3. CASE Append(t, c) = <<x>>
    <2>1. Len(Append(t, c)) = 1
      BY <1>3
    <2>2. Len(t) = 0
      BY <1>1, <2>1
    <2>. QED  BY <1>3, <2>2
  <1>4. CASE Append(t, c) = <<x, y>>
    <2>1. Len(Append(t, c)) = 2 /\ Append(t, c)[1] = x /\ Append(t, c)[2] = y
      BY <1>4
    <2>2. Len(t) = 1
      BY <1>1, <2>1
    <2>3. c = y /\ t[1] = x
      BY <1>1, <2>1, <2>2
    <2>. QED  BY <1>4, <2>2, <2>3
  <1>5. CASE Append(t, c) = <<x, y, z>>
    <2>1. /\ Len(Append(t, c)) = 3 /\ Append(t, c)[1] = x /\ Append(t, c)[2] = y
          /\ Append(t, c)[3] = z
      BY <1>5
    <2>2. Len(t) = 2
      BY <1>1, <1>2, <2>1
    <2>3. c = z /\ t[1] = x /\ t[2] = y
      BY <1>1, <2>1, <2>2
    <2>. QED  BY <1>5, <2>2, <2>3
  <1>6. CASE Append(t, c) = <<x, y, z, w>>
    <2>1. /\ Len(Append(t, c)) = 4 /\ Append(t, c)[1] = x /\ Append(t, c)[2] = y
          /\ Append(t, c)[3] = z /\ Append(t, c)[4] = w
      BY <1>6
    <2>2. Len(t) = 3
      BY <1>1, <1>2, <2>1
    <2>3. c = w /\ t[1] = x /\ t[2] = y /\ t[3] = z
      BY <1>1, <2>1, <2>2
    <2>. QED  BY <1>6, <2>2, <2>3
  <1>. QED  BY <1>3, <1>4, <1>5, <1>6

\* How a fixed token, or what begins like one, can be longer than one letter.
LEMMA Longer ==
    ASSUME NEW S, NEW t \in Seq(S), t # <<>>, NEW c, Append(t, c) \in BegunTokens
    PROVE  \/ t \in {<<"&">>, <<">">>, <<"<">>, <<"|">>, <<Semi>>, <<"<", "<">>}
                /\ Append(t, c) \in Special /\ c \in {"&", ">", "<", "|", "-", Semi}
           \/ t = <<"!">> /\ c = "!" /\ Append(t, c) = Bangs
           \/ t = <<"d">> /\ c = "o" /\ Append(t, c) = <<"d", "o">>
           \/ t = <<"d", "o">> /\ c = "n" /\ Append(t, c) = Don
           \/ t = Don /\ c = "e" /\ Append(t, c) = <<"d", "o", "n", "e">>
           \/ t = <<"i">> /\ c \in {"f", "n"} /\ Append(t, c) \in {<<"i", "f">>, <<"i", "n">>}
           \/ t = <<"f">> /\ c = "i" /\ Append(t, c) = <<"f", "i">>
  <1>. DEFINE a == Append(t, c)
  <1>1. ASSUME NEW x, a = <<x>> PROVE FALSE
    BY <1>1, BeforeLast
  <1>2. ASSUME NEW x, NEW y, a = <<x, y>>, <<x, y>> \in Special \ {Bangs}
        PROVE  x \in {"&", ">", "<", "|", Semi} /\ y \in {"&", ">", "<", "|", Semi}
    BY <1>2, SpecialIs, Distinct DEF Bangs
  <1>3. ASSUME NEW x, NEW y, a = <<x, y>>
        PROVE  t = <<x>> /\ c = y
    BY <1>3, BeforeLast
  <1>4. ASSUME NEW x, NEW y, NEW z, a = <<x, y, z>>
        PROVE  t = <<x, y>> /\ c = z
    BY <1>4, BeforeLast
  <1>5. ASSUME NEW x, NEW y, NEW z, NEW w, a = <<x, y, z, w>>
        PROVE  t = <<x, y, z>> /\ c = w
    BY <1>5, BeforeLast
  <1>. HIDE DEF a
  <1>6. a \in BegunTokens
    BY DEF a
  <1>7. \/ \E x \in Letter : a = <<x>>
        \/ \E x, y \in Letter : a = <<x, y>> /\ a \in Special \ {Bangs}
        \/ a = Bangs
        \/ a = <<"<", "<", "-">>
        \/ a \in {<<"d", "o">>, <<"i", "f">>, <<"i", "n">>, <<"f", "i">>, Don,
                  <<"d", "o", "n", "e">>}
    BY <1>6, SpecialIs, KeywordIs, Distinct DEF BegunTokens, Fixed, Letter, Don, Bangs
  <1>8. CASE \E x, y \in Letter : a = <<x, y>> /\ a \in Special \ {Bangs}
    BY <1>2, <1>3, <1>8 DEF a
  <1>9. CASE a = Bangs
    BY <1>3, <1>9 DEF Bangs, a
  <1>10. CASE a = <<"<", "<", "-">>
    BY <1>4, <1>10, SpecialIs DEF a
  <1>11. CASE a \in {<<"d", "o">>, <<"i", "f">>, <<"i", "n">>, <<"f", "i">>}
    BY <1>3, <1>11 DEF a
  <1>12. CASE a = Don
    BY <1>4, <1>12 DEF Don, a
  <1>13. CASE a = <<"d", "o", "n", "e">>
    BY <1>5, <1>13 DEF Don, a
  <1>. QED  BY <1>1, <1>7, <1>8, <1>9, <1>10, <1>11, <1>12, <1>13

----------------------------------------------------------------------------
(* The token that is collected *)

\* What holds of the token while the lexer reads: unless it is a word, the
\* automaton of the only call has read the whole text; a word is not a fixed
\* token, nor its beginning, but for keywords that stand where none can be;
\* an unquoted delimiter is in no word.
Reading ==
    /\ text \in Seq(scope.chars)
    /\ phase = "lex" =>
         /\ next = "" /\ token \in Fixed \cup {T_EOF, T_WORD}
         /\ token # T_WORD =>
              /\ text \in States
              /\ Len(frames) = 1 /\ Top.mode = {} /\ Top.state = text
         /\ token = T_EOF => text \notin Fixed
         /\ token \in Fixed => text = token \/ (text = Don /\ token \in Keyword)
         /\ token \in Keyword => start
         /\ token = T_WORD =>
              /\ text # <<>>
              /\ text \notin BegunTokens \/ (~start /\ text \in Mistaken)
         /\ ~reader.doubt /\ reader.bare => token \in Special

LEMMA TokensApart ==
    /\ T_WORD # T_EOF /\ T_WORD \notin Fixed /\ T_EOF \notin Fixed
    /\ "" # EOF /\ "" \notin {"lex", "done", "error"}
  BY TokensDiffer DEF WordTokens, EOF, T_WORD, T_EOF

LEMMA PushLetter ==
    ASSUME Nested, Len(frames) = 1, Top.mode = {}, NEW c \in Letter, Push(c)
    PROVE  frames' = <<[mode |-> {}, state |-> IF Misfit(c) THEN Entry ELSE Dfa(c, Top.state)]>>
  <1>1. Mode(None, FALSE) = {} /\ Possible(None, FALSE) /\ Base(None) = {} /\ Bit(FALSE) = {}
    BY DEF Mode, Base, Bit, Possible, Kinds
  <1>2. c \notin {"$", SQ, DQ, BQ, BS}
    BY MoreDistinct
  <1>3. ~Shuts(c, None, FALSE) /\ Opens(c, None, FALSE) = None
    BY <1>2 DEF Shuts, Opens, None, Esc, Squote, Dquote, Sub, Param
  <1>4. Bit(Dollars(c, None, FALSE)) = {}
    BY <1>2 DEF Dollars, Bit
  <1>5. Lexmode(c, {}) = {}
    <2>1. Lexmode(c, Mode(None, FALSE)) = Base(None) \cup Bit(Dollars(c, None, FALSE))
      BY <1>1, <1>3, ModeStep
    <2>. QED  BY <1>1, <1>4, <2>1
  <1>6. Front(frames) = <<>>
    BY FrontIs DEF Nested
  <1>. DEFINE st == IF Misfit(c) THEN Entry ELSE Dfa(c, Top.state)
  <1>7. frames' = Append(Front(frames), [mode |-> {}, state |-> st])
    BY <1>5 DEF Push
  <1>. QED  BY <1>6, <1>7

\* Every token begun is one the automaton goes on with.
LEMMA BegunGoesOn ==
    ASSUME NEW s \in BegunTokens
    PROVE  \E f \in Fixed : IsPrefix(s, f)
  <1>1. CASE s \in Fixed
    <2>1. IsPrefix(s, s)
      BY <1>1, FixedAre DEF IsPrefix
    <2>. QED  BY <1>1, <2>1
  <1>2. CASE s = <<"d">>
    <2>1. <<"d", "o">> \in Fixed
      BY KeywordIs DEF Fixed
    <2>2. IsPrefix(<<"d">>, <<"d", "o">>)
      BY DEF IsPrefix
    <2>. QED  BY <1>2, <2>1, <2>2
  <1>3. CASE s = Don
    <2>1. <<"d", "o", "n", "e">> \in Fixed
      BY KeywordIs DEF Fixed
    <2>2. IsPrefix(Don, <<"d", "o", "n", "e">>)
      BY DEF IsPrefix, Don
    <2>. QED  BY <1>3, <2>1, <2>2
  <1>4. CASE s = <<"i">>
    <2>1. <<"i", "f">> \in Fixed
      BY KeywordIs DEF Fixed
    <2>2. IsPrefix(<<"i">>, <<"i", "f">>)
      BY DEF IsPrefix
    <2>. QED  BY <1>4, <2>1, <2>2
  <1>5. CASE s = <<"f">>
    <2>1. <<"f", "i">> \in Fixed
      BY KeywordIs DEF Fixed
    <2>2. IsPrefix(<<"f">>, <<"f", "i">>)
      BY DEF IsPrefix
    <2>. QED  BY <1>5, <2>1, <2>2
  <1>. QED  BY <1>1, <1>2, <1>3, <1>4, <1>5 DEF BegunTokens, Don

\* What the automaton refuses is no token begun, and it reads what it does not.
LEMMA DfaTakes ==
    ASSUME NEW s \in States, NEW c
    PROVE  /\ Dfa(c, s) = Err => Append(s, c) \notin BegunTokens
           /\ Dfa(c, s) # Err => /\ Dfa(c, s) = Append(s, c) /\ Append(s, c) \in BegunTokens
                                 /\ c \in Letter
  <1>1. Dfa(c, s) = Err => Append(s, c) \notin BegunTokens
    <2>1. SUFFICES ASSUME Append(s, c) \in BegunTokens PROVE Dfa(c, s) # Err
      OBVIOUS
    <2>2. Dfa(c, s) = Append(s, c)
      BY <2>1, BegunGoesOn DEF Dfa
    <2>. QED  BY <2>1, <2>2, DfaIs DEF States
  <1>2. ASSUME Append(s, c) \in BegunTokens PROVE c \in Letter
    <2>1. Append(s, c) \in Seq(Letter) /\ s \in Seq(Letter)
      BY <1>2, PrefixesAre DEF States
    <2>2. Append(s, c)[Len(s) + 1] = c /\ Len(Append(s, c)) = Len(s) + 1 /\ Len(s) \in Nat
      BY <2>1
    <2>3. Append(s, c)[Len(s) + 1] \in Letter
      <3>1. Len(s) + 1 \in 1 .. Len(Append(s, c))
        BY <2>2
      <3>. QED  BY <2>1, <3>1
    <2>. QED  BY <2>2, <2>3
  <1>. QED  BY <1>1, <1>2, DfaIs

\* Nothing is open where the only call is the outermost.
LEMMA NothingOpen ==
    ASSUME Modal, ~reader.doubt
    PROVE  /\ Len(frames) = 1 => reader.open = <<>>
           /\ Top.mode \ {Dollar} = {} => reader.open = <<>>
           /\ reader.open = <<>> => \A i \in DOMAIN frames : frames[i].mode \ {Dollar} = {}
           /\ reader.open = <<>> => Top.mode \ {Dollar} = {}
           /\ Dollar \in Top.mode <=> reader.dollar
  <1>. DEFINE m == Len(reader.open)
  <1>1. /\ Len(frames) = m + 1 /\ reader.open \in Seq(Opening) /\ m \in Nat
        /\ \A i \in 1 .. m : frames[i + 1].mode \ {Dollar} = Base(KindOf(reader.open[i]))
        /\ Dollar \in Top.mode <=> reader.dollar
    BY DEF Modal, Agrees, ReaderOK
  <1>2. reader.open = <<>> <=> m = 0
    BY <1>1
  <1>3. ASSUME reader.open = <<>>
        PROVE  /\ \A i \in DOMAIN frames : frames[i].mode \ {Dollar} = {}
               /\ Top.mode \ {Dollar} = {}
    <2>1. Len(frames) = 1 /\ DOMAIN frames = {1} /\ Top = frames[1]
      BY <1>1, <1>2, <1>3 DEF Modal, Nested, Top
    <2>2. frames[1].mode \ {Dollar} = {}
      BY ModeParts DEF Modal, Nested, Base
    <2>. QED  BY <2>1, <2>2
  <1>4. ASSUME reader.open # <<>> PROVE Top.mode \ {Dollar} # {} /\ Len(frames) # 1
    <2>1. m \in 1 .. m /\ m # 0
      BY <1>1, <1>2, <1>4
    <2>2. reader.open[m] \in Opening
      BY <1>1, <2>1
    <2>3. KindOf(reader.open[m]) \in Kinds
      BY <2>2, MeaningIs
    <2>4. Top.mode \ {Dollar} = {KindOf(reader.open[m])}
      BY <1>1, <2>1, <2>3, KindsDiffer DEF Base, Top
    <2>. QED  BY <1>1, <2>1, <2>4
  <1>. QED  BY <1>1, <1>3, <1>4

LEMMA ReadBare ==
    ASSUME NEW r, NEW c
    PROVE  /\ Read(r, c).bare = (r.bare \/ (c \in Delimiters /\ Read(r, c).open = <<>>
                                                            /\ r.open = <<>>))
           /\ ~Read(r, c).doubt => ~r.doubt /\ ~(r.open = <<>> /\ c = ")" /\ r.dollar)
           /\ r.open = <<>> /\ c = "(" /\ r.dollar => Read(r, c).open = Append(r.open, c)
  <1>1. "" \notin {BS, SQ, DQ, BQ, "(", "{"} /\ "(" \notin {BS, SQ, DQ, BQ}
    BY Zenon DEF BS, SQ, DQ, BQ
  <1>2. r.open = <<>> /\ c = "(" /\ r.dollar => Read(r, c).open = Append(r.open, c)
    BY <1>1 DEF Read
  <1>. QED  BY <1>2 DEF Read

\* An unquoted delimiter is in no word.
LEMMA PushBare ==
    ASSUME Modal, Reading, phase = "lex", NEW c, Push(c), ~Breaks(c),
           ~reader'.doubt, reader'.bare
    PROVE  token' \in Special
  <1>1. reader' = Read(reader, c) /\ token' = Collected(c)
    BY DEF Push
  <1>2. /\ ~reader.doubt /\ ~(reader.open = <<>> /\ c = ")" /\ reader.dollar)
        /\ reader.bare \/ (c \in Delimiters /\ reader'.open = <<>> /\ reader.open = <<>>)
        /\ reader.open = <<>> /\ c = "(" /\ reader.dollar =>
             reader'.open = Append(reader.open, c)
    BY <1>1, ReadBare
  <1>3. ~Misfit(c)
    <2>1. SUFFICES ASSUME Misfit(c) PROVE FALSE
      OBVIOUS
    <2>2. token \notin Special /\ ~WordBreak(c)
      BY <2>1 DEF Breaks
    <2>3. c \in Delimiters /\ reader'.open = <<>> /\ reader.open = <<>>
      BY <1>2, <2>2 DEF Reading
    <2>4. /\ Top.mode \ {Dollar} = {} /\ (Dollar \in Top.mode <=> reader.dollar)
      BY <1>2, <2>3, NothingOpen
    <2>5. Top.mode = {} \/ Top.mode = {Dollar}
      BY <2>4
    <2>6. Top.mode = {Dollar} /\ c \in {"(", ")"}
      BY <2>2, <2>3, <2>5 DEF WordBreak
    <2>7. reader.open \in Seq(Opening)
      BY DEF Modal, ReaderOK
    <2>8. Append(reader.open, c) # <<>>
      BY <2>7
    <2>. QED  BY <1>2, <2>3, <2>4, <2>6, <2>8
  <1>4. token # T_WORD /\ Dfa(c, Top.state) # Err
    BY <1>3 DEF Misfit
  <1>5. text \in States /\ text \in Seq(scope.chars) /\ Top.state = text
    BY <1>4 DEF Reading
  <1>6. Dfa(c, text) = Append(text, c) /\ Append(text, c) \in BegunTokens
    BY <1>4, <1>5, DfaTakes
  <1>7. Append(text, c) \in Special
    <2>1. CASE text = <<>>
      <3>1. c \in Delimiters
        <4>1. SUFFICES ASSUME reader.bare PROVE FALSE
          BY <1>2
        <4>2. token \in Special
          BY <1>2, <4>1 DEF Reading
        <4>3. text = token \/ text = Don
          BY <4>2 DEF Reading, Fixed
        <4>. QED  BY <2>1, <4>2, <4>3, TokensDiffer DEF Fixed, T_EOF
      <3>2. Append(text, c) = <<c>>
        BY <2>1
      <3>3. c \notin {"!", Lbrace, Rbrace, "d", "i", "f"}
        BY <3>1, MoreDistinct
      <3>4. <<c>> \notin Keyword /\ <<c>> \notin {<<"d">>, <<"d", "o", "n">>, <<"i">>, <<"f">>}
        BY <3>3, KeywordIs
      <3>. QED  BY <1>6, <3>2, <3>4 DEF BegunTokens, Fixed
    <2>2. CASE text # <<>> /\ reader.bare
      <3>1. token \in Special
        BY <1>2, <2>2 DEF Reading
      <3>2. text \in Special
        BY <3>1, TokensDiffer DEF Reading, Fixed
      <3>3. text \notin {<<"!">>, <<"d">>, <<"d", "o">>, Don, <<"i">>, <<"f">>}
        BY <3>2, SpecialIs, Distinct DEF Don
      <3>. QED  BY <1>5, <1>6, <2>2, <3>3, Longer
    <2>3. CASE text # <<>> /\ c \in Delimiters
      BY <1>5, <1>6, <2>3, Longer, MoreDistinct
    <2>. QED  BY <1>2, <2>1, <2>2, <2>3
  <1>8. token' = Append(text, c)
    BY <1>1, <1>3, <1>5, <1>6, <1>7, TokensDiffer DEF Collected, Fixed
  <1>. QED  BY <1>7, <1>8

LEMMA PushReads ==
    ASSUME Modal, Reading, phase = "lex", NEW c \in scope.chars, Push(c), ~Breaks(c),
           UNCHANGED <<scope, start, phase, next>>
    PROVE  Reading'
  <1>. DEFINE t == Append(text, c)
  <1>1. text' = t /\ t \in Seq(scope.chars) /\ t # <<>>
    <2>1. text' = t
      BY DEF Push
    <2>2. text \in Seq(scope.chars)
      BY DEF Reading
    <2>. QED  BY <2>1, <2>2
  <1>2. token' = Collected(c)
    BY DEF Push
  <1>3. ~reader'.doubt /\ reader'.bare => token' \in Special
    BY PushBare
  <1>4. /\ text \in Seq(scope.chars) /\ next' = "" /\ start' = start
        /\ token \in Fixed \cup {T_EOF, T_WORD}
    BY DEF Reading
  <1>5. T_WORD # T_EOF /\ T_WORD \notin Fixed /\ T_EOF \notin Fixed /\ Keyword \subseteq Fixed
    BY TokensApart DEF Fixed
  <1>. HIDE DEF t
  <1>6. ASSUME token' \in Fixed \cup {T_EOF, T_WORD},
               token' # T_WORD =>
                 /\ t \in States
                 /\ Len(frames') = 1 /\ Top'.mode = {} /\ Top'.state = t,
               token' = T_EOF => t \notin Fixed,
               token' \in Fixed => t = token' \/ (t = Don /\ token' \in Keyword),
               token' \in Keyword => start,
               token' = T_WORD => t \notin BegunTokens \/ (~start /\ t \in Mistaken)
        PROVE  Reading'
    <2>1. text' \in Seq(scope'.chars)
      BY <1>1
    <2>2. text' = t
      BY <1>1
    <2>3. next' = "" /\ token' \in Fixed \cup {T_EOF, T_WORD}
      BY <1>4, <1>6
    <2>4. token' # T_WORD =>
            /\ text' \in States
            /\ Len(frames') = 1 /\ Top'.mode = {} /\ Top'.state = text'
      BY <2>2, <1>6
    <2>5. /\ token' = T_EOF => text' \notin Fixed
          /\ token' \in Fixed => text' = token' \/ (text' = Don /\ token' \in Keyword)
      BY <2>2, <1>6
    <2>6. token' \in Keyword => start'
      <3>1. token' \in Keyword => start
        BY <1>6
      <3>2. start' = start
        BY <1>4
      <3>. QED  BY <3>1, <3>2
    <2>7. token' = T_WORD => text' # <<>>
      BY <1>1
    <2>8. token' = T_WORD => text' \notin BegunTokens \/ (~start' /\ text' \in Mistaken)
      <3>1. token' = T_WORD => t \notin BegunTokens \/ (~start /\ t \in Mistaken)
        BY <1>6
      <3>2. start' = start
        BY <1>4
      <3>. QED  BY <2>2, <3>1, <3>2
    <2>. QED  BY <2>1, <2>3, <2>4, <2>5, <2>6, <2>7, <2>8, <1>3 DEF Reading
  <1>7. ASSUME token' = T_WORD, t \notin BegunTokens \/ (~start /\ t \in Mistaken)
        PROVE  Reading'
    BY <1>5, <1>7, <1>6
  <1>8. CASE token = T_WORD
    <2>1. token' = T_WORD
      BY <1>2, <1>8 DEF Collected, Misfit
    <2>2. text # <<>> /\ (text \notin BegunTokens \/ (~start /\ text \in Mistaken))
      BY <1>8 DEF Reading
    <2>3. ASSUME t \in BegunTokens PROVE ~start /\ t \in Mistaken
      <3>1. \/ text \in {<<"&">>, <<">">>, <<"<">>, <<"|">>, <<Semi>>, <<"<", "<">>}
            \/ text = <<"!">> /\ t = Bangs
            \/ text \in {<<"d">>, <<"i">>, <<"f">>}
            \/ text = <<"d", "o">> /\ t = Don
            \/ text = Don /\ t = <<"d", "o", "n", "e">>
        BY <1>4, <2>2, <2>3, Longer DEF t
      <3>2. text \in BegunTokens
        BY <3>1, SpecialIs, KeywordIs DEF BegunTokens, Fixed, Don
      <3>3. text \in Mistaken /\ ~start
        BY <2>2, <3>2
      <3>4. text \notin {<<"&">>, <<">">>, <<"<">>, <<"|">>, <<Semi>>, <<"<", "<">>,
                         <<"d">>, <<"i">>, <<"f">>}
        BY <3>3, KeywordIs, Distinct DEF Mistaken, Don, Bangs
      <3>5. {Bangs, Don, <<"d", "o", "n", "e">>} \subseteq Mistaken
        BY KeywordIs DEF Mistaken
      <3>. QED  BY <3>1, <3>3, <3>4, <3>5
    <2>. QED  BY <1>7, <2>1, <2>3
  <1>9. CASE token # T_WORD
    <2>1. /\ text \in States /\ Len(frames) = 1 /\ Top.mode = {} /\ Top.state = text
          /\ token = T_EOF => text \notin Fixed
          /\ token \in Fixed => text = token \/ (text = Don /\ token \in Keyword)
          /\ token \in Keyword => start
      BY <1>9 DEF Reading
    <2>2. CASE Misfit(c)
      <3>1. Dfa(c, text) = Err
        BY <1>9, <2>1, <2>2 DEF Misfit
      <3>2. t \notin BegunTokens
        BY <2>1, <3>1, DfaTakes DEF t
      <3>3. token' = T_WORD
        BY <1>2, <2>2 DEF Collected
      <3>. QED  BY <1>7, <3>2, <3>3
    <2>3. CASE ~Misfit(c)
      <3>1. Dfa(c, text) # Err
        BY <2>1, <2>3 DEF Misfit
      <3>2. Dfa(c, Top.state) = t /\ t \in BegunTokens /\ c \in Letter
        BY <2>1, <3>1, DfaTakes DEF t
      <3>3. frames' = <<[mode |-> {}, state |-> t]>>
        BY <2>1, <2>3, <3>2, PushLetter DEF Modal
      <3>4. Len(frames') = 1 /\ Top'.mode = {} /\ Top'.state = t
        BY <3>3 DEF Top
      <3>5. t \in States
        BY <3>2 DEF States
      <3>6. CASE t \in Keyword /\ ~start
        <4>1. token' = T_WORD
          BY <1>2, <1>5, <2>3, <3>2, <3>6 DEF Collected
        <4>. QED  BY <1>7, <3>6, <4>1 DEF Mistaken
      <3>7. CASE t \in Fixed /\ ~(t \in Keyword /\ ~start)
        <4>1. token' = t
          BY <1>2, <2>3, <3>2, <3>7 DEF Collected
        <4>. QED  BY <1>5, <1>6, <3>4, <3>5, <3>7, <4>1
      <3>8. CASE t \notin Fixed
        <4>1. token' = token
          BY <1>2, <2>3, <3>2, <3>8 DEF Collected
        <4>2. token \in Fixed => t = Don /\ token \in Keyword
          <5>1. SUFFICES ASSUME token \in Fixed PROVE t = Don /\ token \in Keyword
            OBVIOUS
          <5>2. text # <<>> /\ text \notin {<<"d">>}
            <6>1. <<"d">> \notin Fixed /\ <<>> \notin Fixed
              BY KeywordIs, SpecialIs, Distinct DEF Fixed
            <6>2. <<"d">> # Don /\ <<>> # Don
              BY DEF Don
            <6>. QED  BY <2>1, <5>1, <6>1, <6>2
          <5>3. \/ t \in Special \/ t = Bangs
                \/ text = <<"d", "o">> /\ t = Don
                \/ t \in {<<"d", "o", "n", "e">>, <<"i", "f">>, <<"i", "n">>, <<"f", "i">>}
            BY <1>4, <3>2, <5>2, Longer DEF t
          <5>4. text = <<"d", "o">> /\ t = Don
            BY <3>8, <5>3, SpecialIs, KeywordIs DEF Fixed, Bangs
          <5>5. token \in Keyword
            <6>1. <<"d", "o">> \in Keyword
              BY KeywordIs
            <6>. QED  BY <2>1, <5>1, <5>4, <6>1
          <5>. QED  BY <5>4, <5>5
        <4>. QED  BY <1>4, <1>5, <1>9, <1>6, <2>1, <3>4, <3>5, <3>8, <4>1, <4>2
      <3>. QED  BY <1>5, <3>6, <3>7, <3>8
    <2>. QED  BY <2>2, <2>3
  <1>. QED  BY <1>8, <1>9

\* With nothing in doubt, a word ends where nothing is open.
LEMMA BreakIsOpen ==
    ASSUME Modal, Reading, phase = "lex", ~reader.doubt, NEW c, Breaks(c)
    PROVE  /\ reader.open = <<>>
           /\ token \in Special \/ c \in Delimiters
           /\ token \in Special => Append(text, c) \notin Special
  <1>1. CASE token \in Special
    <2>1. token # T_WORD
      BY <1>1, TokensApart DEF Fixed
    <2>2. Len(frames) = 1 /\ Top.state = text /\ text \in States
      BY <2>1 DEF Reading
    <2>3. Dfa(c, text) = Err
      BY <2>1, <2>2 DEF Breaks, Misfit
    <2>4. Append(text, c) \notin BegunTokens
      BY <2>2, <2>3, DfaTakes
    <2>. QED  BY <1>1, <2>2, <2>4, NothingOpen DEF BegunTokens, Fixed
  <1>2. CASE token \notin Special
    <2>1. WordBreak(c)
      BY <1>2 DEF Breaks
    <2>2. Top.mode \ {Dollar} = {} /\ c \in Delimiters
      BY <2>1 DEF WordBreak
    <2>. QED  BY <1>2, <2>2, NothingOpen
  <1>. QED  BY <1>1, <1>2

\* What __evalword makes of the token.
LEMMA EvalwordIs ==
    ASSUME NEW c
    PROVE  /\ token \in Fixed => Evalword(c) = token
           /\ token \notin Fixed => Evalword(c) \in WordTokens
  BY DEF Evalword, WordTokens

\* The text of a token that is no fixed one, and of one that is.
LEMMA TextOfToken ==
    ASSUME Reading, phase = "lex", text # Don
    PROVE  /\ token \in Fixed => text = token /\ text # <<>>
           /\ token \in Keyword => start
           /\ token \notin Fixed =>
                /\ text \notin Special \ {Bangs}
                /\ start => text \notin Keyword
           /\ token \notin Fixed /\ text = <<>> => token = T_EOF
           /\ token \notin Fixed /\ ~reader.doubt => ~reader.bare
  <1>1. token \in Fixed => text = token /\ text # <<>>
    BY TokensApart DEF Reading, T_EOF
  <1>2. token \in Keyword => start
    BY DEF Reading
  <1>3. ASSUME token \notin Fixed
        PROVE  /\ text \notin Special \ {Bangs}
               /\ start => text \notin Keyword
               /\ text = <<>> => token = T_EOF
               /\ ~reader.doubt => ~reader.bare
    <2>1. CASE token = T_EOF
      <3>1. text \notin Fixed
        BY <2>1 DEF Reading
      <3>2. ~reader.doubt => ~reader.bare
        BY <1>3 DEF Reading, Fixed
      <3>. QED  BY <2>1, <3>1, <3>2 DEF Fixed
    <2>2. CASE token = T_WORD
      <3>1. text # <<>> /\ (text \notin BegunTokens \/ (~start /\ text \in Mistaken))
        BY <2>2 DEF Reading
      <3>2. text \notin Special \ {Bangs}
        BY <3>1, TokensDiffer DEF BegunTokens, Fixed
      <3>3. start => text \notin Keyword
        BY <3>1 DEF BegunTokens, Fixed
      <3>4. ~reader.doubt => ~reader.bare
        BY <1>3 DEF Reading, Fixed
      <3>. QED  BY <3>1, <3>2, <3>3, <3>4
    <2>. QED  BY <1>3, <2>1, <2>2 DEF Reading
  <1>. QED  BY <1>1, <1>2, <1>3

\* TokenIsLongest of a token that ends here.
LEMMA EndsLongest ==
    ASSUME Modal, Reading, phase = "lex", ~reader.doubt, text # Don,
           reader.open = <<>>, NEW tk, NEW c,
           \/ token \in Fixed /\ tk = token
           \/ token \notin Fixed /\ tk \in WordTokens
           \/ tk = T_EOF /\ text = <<>>,
           token \in Special => c = EOF \/ c = "" \/ Append(text, c) \notin Special,
           token \notin Special => c \in Delimiters \cup {EOF}
    PROVE  /\ tk \in Special =>
                /\ text = tk
                /\ c = EOF \/ c = "" \/ Append(tk, c) \notin Special
           /\ tk \in Keyword => start /\ text = tk
           /\ tk \in WordTokens =>
                ~reader.bare /\ text \notin Special \ {<<"!", "!">>}
                /\ (start => text \notin Keyword)
           /\ tk \in WordTokens \cup Keyword => c \in Delimiters \cup {EOF}
           /\ tk = T_EOF => text = <<>>
  <1>1. /\ Special \cap Keyword = {} /\ T_EOF \notin Fixed
        /\ \A w \in WordTokens : w \notin Fixed /\ w # T_EOF
    BY TokensDiffer
  <1>2. CASE token \in Fixed /\ tk = token
    BY <1>1, <1>2, TextOfToken DEF Fixed
  <1>3. CASE token \notin Fixed /\ tk \in WordTokens
    BY <1>1, <1>3, TextOfToken DEF Fixed, Bangs
  <1>4. CASE tk = T_EOF /\ text = <<>>
    BY <1>1, <1>4 DEF Fixed
  <1>. QED  BY <1>2, <1>3, <1>4

LEMMA EndOfToken ==
    ASSUME Modal, Reading, EndToken
    PROVE  Reading' /\ TokenIsLongest'
  <1>1. PICK c \in Input : Breaks(c) /\ next' = c /\ token' = Evalword(c)
    BY DEF EndToken
  <1>2. /\ phase = "lex" /\ phase' = "done"
        /\ scope' = scope /\ start' = start /\ text' = text /\ reader' = reader
    BY DEF EndToken
  <1>3. Reading'
    BY <1>2 DEF Reading
  <1>4. TokenIsLongest'
    <2>1. SUFFICES ASSUME ~reader.doubt, text # Don
                   PROVE  TokenIsLongest'
      BY <1>2 DEF TokenIsLongest, Don
    <2>2. /\ reader.open = <<>> /\ (token \in Special \/ c \in Delimiters)
          /\ token \in Special => Append(text, c) \notin Special
      BY <1>1, <1>2, <2>1, BreakIsOpen
    <2>3. \/ token \in Fixed /\ Evalword(c) = token
          \/ token \notin Fixed /\ Evalword(c) \in WordTokens
      BY EvalwordIs
    <2>. DEFINE tk == Evalword(c)
    <2>. HIDE DEF tk
    <2>4. \/ token \in Fixed /\ tk = token
          \/ token \notin Fixed /\ tk \in WordTokens
      BY <2>3 DEF tk
    <2>5. /\ tk \in Special =>
               /\ text = tk
               /\ c = EOF \/ c = "" \/ Append(tk, c) \notin Special
          /\ tk \in Keyword => start /\ text = tk
          /\ tk \in WordTokens =>
               ~reader.bare /\ text \notin Special \ {<<"!", "!">>}
               /\ (start => text \notin Keyword)
          /\ tk \in WordTokens \cup Keyword => c \in Delimiters \cup {EOF}
          /\ tk = T_EOF => text = <<>>
      BY <1>2, <2>1, <2>2, <2>4, EndsLongest
    <2>6. token' = tk
      BY <1>1 DEF tk
    <2>. QED  BY <1>1, <1>2, <2>2, <2>5, <2>6 DEF TokenIsLongest
  <1>. QED  BY <1>3, <1>4

LEMMA EndOfLine ==
    ASSUME Modal, Reading, EndLF
    PROVE  Reading' /\ TokenIsLongest'
  <1>1. /\ phase = "lex" /\ phase' = "done" /\ token = <<LF>> /\ token' = token /\ next' = next
        /\ scope' = scope /\ start' = start /\ text' = text /\ reader' = reader
    BY DEF EndLF
  <1>2. Reading'
    BY <1>1 DEF Reading
  <1>3. TokenIsLongest'
    <2>1. SUFFICES ASSUME ~reader.doubt, text # Don
                   PROVE  TokenIsLongest'
      BY <1>1 DEF TokenIsLongest, Don
    <2>2. token \in Special /\ token \in Fixed /\ token # T_WORD
      BY <1>1, SpecialIs, TokensApart DEF Fixed
    <2>3. reader.open = <<>> /\ next = "" /\ "" # EOF
      <3>1. Len(frames) = 1 /\ next = ""
        BY <1>1, <2>2 DEF Reading
      <3>. QED  BY <2>1, <3>1, NothingOpen, TokensApart
    <2>4. text = token /\ token \notin Keyword /\ token \notin WordTokens /\ token # T_EOF
      BY <1>1, <2>1, <2>2, TextOfToken, TokensDiffer
    <2>. QED  BY <1>1, <2>2, <2>3, <2>4 DEF TokenIsLongest
  <1>. QED  BY <1>2, <1>3

LEMMA EndOfInput ==
    ASSUME Modal, Reading, EndEOF
    PROVE  Reading' /\ TokenIsLongest'
  <1>. DEFINE Quoted == \E i \in DOMAIN frames : frames[i].mode \ {Dollar} # {}
  <1>1. /\ phase = "lex" /\ next' = EOF /\ phase' = IF Quoted THEN "error" ELSE "done"
        /\ token' = IF phase' = "done" /\ text # <<>> THEN Evalword(EOF) ELSE token
        /\ scope' = scope /\ start' = start /\ text' = text /\ reader' = reader
    BY DEF EndEOF
  <1>2. Reading'
    BY <1>1 DEF Reading
  <1>3. TokenIsLongest'
    <2>1. SUFFICES ASSUME ~reader.doubt, text # Don
                   PROVE  TokenIsLongest'
      BY <1>1 DEF TokenIsLongest, Don
    <2>2. Quoted <=> reader.open # <<>>
      <3>1. /\ reader.open = <<>> => ~Quoted
            /\ Top.mode \ {Dollar} = {} => reader.open = <<>>
        BY <2>1, NothingOpen
      <3>2. Len(frames) \in DOMAIN frames /\ Top = frames[Len(frames)]
        BY TopKind DEF Modal, Nested
      <3>. QED  BY <3>1, <3>2
    <2>. HIDE DEF Quoted
    <2>3. CASE Quoted
      BY <1>1, <2>2, <2>3 DEF TokenIsLongest
    <2>4. CASE ~Quoted
      <3>. DEFINE tk == IF text # <<>> THEN Evalword(EOF) ELSE token
      <3>1. phase' = "done" /\ token' = tk /\ reader.open = <<>>
        BY <1>1, <2>2, <2>4
      <3>2. \/ token \in Fixed /\ tk = token
            \/ token \notin Fixed /\ tk \in WordTokens
            \/ tk = T_EOF /\ text = <<>>
        BY <1>1, <2>1, EvalwordIs, TextOfToken
      <3>. HIDE DEF tk
      <3>3. /\ tk \in Special => text = tk
            /\ tk \in Keyword => start /\ text = tk
            /\ tk \in WordTokens =>
                 ~reader.bare /\ text \notin Special \ {<<"!", "!">>}
                 /\ (start => text \notin Keyword)
            /\ tk = T_EOF => text = <<>>
        BY <1>1, <2>1, <3>1, <3>2, EndsLongest
      <3>. QED  BY <1>1, <3>1, <3>3 DEF TokenIsLongest
    <2>. QED  BY <2>3, <2>4
  <1>. QED  BY <1>2, <1>3

Longest == Modal /\ Reading /\ TokenIsLongest

LEMMA InitLongest == Init => Longest
  <1>1. SUFFICES ASSUME Init PROVE Longest
    OBVIOUS
  <1>2. /\ text = <<>> /\ token = T_EOF /\ frames = <<Frame({})>> /\ phase = "lex" /\ next = ""
        /\ reader = NewReader
    BY <1>1 DEF Init, LexInit
  <1>3. Reading
    <2>1. Len(frames) = 1 /\ Top = Frame({})
      BY <1>2 DEF Top
    <2>2. Top.mode = {} /\ Top.state = <<>>
      BY <2>1 DEF Frame, Entry
    <2>3. ~reader.bare
      BY <1>2 DEF NewReader
    <2>4. text \in Seq(scope.chars)
      <3>1. \A S : <<>> \in Seq(S)
        OBVIOUS
      <3>. QED  BY <1>2, <3>1
    <2>5. text \in States /\ text \notin Fixed
      BY <1>2, TokensApart DEF States, Entry, T_EOF
    <2>. QED  BY <1>2, <2>1, <2>2, <2>3, <2>4, <2>5, TokensApart DEF Reading, Fixed
  <1>4. TokenIsLongest
    BY <1>2, TokensApart DEF TokenIsLongest
  <1>. QED  BY <1>1, <1>3, <1>4, InitModal DEF Longest

LEMMA LongestStep == Longest /\ [Next]_vars => Longest'
  <1>1. SUFFICES ASSUME Longest, [Next]_vars PROVE Reading' /\ TokenIsLongest'
    BY ModalStep DEF Longest
  <1>2. CASE Lex
    <2>1. PICK c \in Input : ~Breaks(c) /\ Push(c)
      BY <1>2 DEF Lex
    <2>2. phase = "lex" /\ UNCHANGED <<scope, start, phase, next>>
      BY <1>2 DEF Lex
    <2>3. c \in scope.chars
      BY <2>1 DEF Input
    <2>4. Reading'
      BY <1>1, <2>1, <2>2, <2>3, PushReads DEF Longest
    <2>5. next' = "" /\ phase' = "lex"
      BY <1>1, <2>2 DEF Longest, Reading
    <2>6. TokenIsLongest'
      BY <2>5, TokensApart DEF TokenIsLongest
    <2>. QED  BY <2>4, <2>6
  <1>3. CASE EndToken
    BY <1>1, <1>3, EndOfToken DEF Longest
  <1>4. CASE EndLF
    BY <1>1, <1>4, EndOfLine DEF Longest
  <1>5. CASE EndEOF
    BY <1>1, <1>5, EndOfInput DEF Longest
  <1>6. CASE UNCHANGED lexVars
    BY <1>1, <1>6 DEF lexVars, Longest, Reading, TokenIsLongest, Top
  <1>. QED  BY <1>1, <1>2, <1>3, <1>4, <1>5, <1>6 DEF Next, LexNext, vars

\* The token of any text over any characters is a longest one: an operator that
\* no further character makes longer, a keyword only where a command begins, or
\* a word up to the first delimiter that no quote protects.
THEOREM LongestToken == Spec => []TokenIsLongest
  BY InitLongest, LongestStep, PTL DEF Spec, Longest

----------------------------------------------------------------------------
(* The characters *)

Blank == " "
Void  == ""

LEMMA CharsDiffer ==
    /\ BS \notin {SQ, DQ, BQ, LF, Lbrace, Rbrace, Blank, "$", "(", ")", "x", Void}
    /\ SQ \notin {BS, DQ, BQ, LF, Lbrace, Rbrace, Blank, "$", "(", ")", "x", Void}
    /\ DQ \notin {BS, SQ, BQ, LF, Lbrace, Rbrace, Blank, "$", "(", ")", "x", Void}
    /\ BQ \notin {BS, SQ, DQ, LF, Lbrace, Rbrace, Blank, "$", "(", ")", "x", Void}
    /\ LF \notin {BS, SQ, DQ, BQ, Lbrace, Rbrace, Blank, "$", "(", ")", "x", Void}
    /\ Lbrace \notin {BS, SQ, DQ, BQ, LF, Rbrace, Blank, "$", "(", ")", "x", Void}
    /\ Rbrace \notin {BS, SQ, DQ, BQ, LF, Lbrace, Blank, "$", "(", ")", "x", Void}
    /\ Blank \notin {BS, SQ, DQ, BQ, LF, Lbrace, Rbrace, "$", "(", ")", "x", Void}
    /\ Void \notin {BS, SQ, DQ, BQ, LF, Lbrace, Rbrace, Blank, "$", "(", ")", "x"}
  BY Zenon DEF BS, SQ, DQ, BQ, LF, Lbrace, Rbrace, Blank, Void

LEMMA OpeningIs == Opening = {BS, SQ, DQ, BQ, "(", Lbrace}
  BY Zenon DEF Opening, Lbrace

----------------------------------------------------------------------------
(* The reader at every character *)

\* Double quotes are open.
Doubly(r) == DQ \in ToSet(r.open)

\* In a text that symexp.c can follow, only braces and one double quote have
\* others open within them, and what it may take for a command is closed by the
\* bracket that opened it.
Layered(r) ==
    /\ \A i \in 1 .. Len(r.open) - 1 : r.open[i] \in {Lbrace, DQ}
    /\ \A i, j \in 1 .. Len(r.open) : r.open[i] = DQ /\ r.open[j] = DQ => i = j

Clean(r) ==
    /\ Layered(r)
    /\ In(r) = SQ => ~Doubly(r)
    /\ r.body = Void => In(r) \notin {"(", BQ}
    /\ r.body = ")" => In(r) \notin {BS, SQ, BQ}
    /\ r.body = BQ => In(r) = BQ

Sane(r) ==
    /\ r.open \in Seq(Opening) /\ r.dollar \in BOOLEAN /\ r.hard \in BOOLEAN
    /\ r.body \in {Void, ")", BQ}
    /\ r.dollar => r.prev = "$"
    /\ ~r.hard => Clean(r)

\* What the reader does with what is open.
LEMMA OpenIs ==
    ASSUME NEW r, NEW c
    PROVE  LET in == In(r)
               o  == Read(r, c).open IN
           /\ in = BS => o = Front(r.open)
           /\ in = SQ => o = IF c = SQ THEN Front(r.open) ELSE r.open
           /\ in \notin {BS, SQ} =>
                /\ c = BS => o = Append(r.open, c)
                /\ c \in {DQ, BQ} => o = IF in = c THEN Front(r.open) ELSE Append(r.open, c)
                /\ c = SQ => o = IF in = DQ THEN r.open ELSE Append(r.open, c)
                /\ c = "(" => o = IF r.dollar \/ in = "(" THEN Append(r.open, c) ELSE r.open
                /\ c = Lbrace => o = IF r.dollar THEN Append(r.open, c) ELSE r.open
                /\ c = ")" => o = IF in = "(" THEN Front(r.open) ELSE r.open
                /\ c = Rbrace => o = IF in = Lbrace THEN Front(r.open) ELSE r.open
                /\ c \notin {BS, SQ, DQ, BQ, "(", ")", Lbrace, Rbrace} => o = r.open
  <1>. DEFINE in == In(r)
              unquoted ==
                 CASE c = BS               -> Append(r.open, c)
                   [] c \in {DQ, BQ}       -> IF in = c THEN Front(r.open)
                                              ELSE Append(r.open, c)
                   [] c = SQ /\ in # DQ    -> Append(r.open, c)
                   [] c \in {"(", Lbrace} /\ r.dollar -> Append(r.open, c)
                   [] c = "(" /\ in = "("     -> Append(r.open, c)
                   [] c = ")" /\ in = "("     -> Front(r.open)
                   [] c = Rbrace /\ in = Lbrace -> Front(r.open)
                   [] OTHER                   -> r.open
              open ==
                 CASE in = BS -> Front(r.open)
                   [] in = SQ -> IF c = SQ THEN Front(r.open) ELSE r.open
                   [] in \notin {BS, SQ} -> unquoted
  <1>1. Read(r, c).open = open
    BY Zenon DEF Read, In, Lbrace, Rbrace
  <1>. HIDE DEF in, unquoted
  <1>2. /\ in = BS => open = Front(r.open)
        /\ in = SQ => open = IF c = SQ THEN Front(r.open) ELSE r.open
        /\ in \notin {BS, SQ} => open = unquoted
    BY CharsDiffer
  <1>. HIDE DEF open
  <1>3. /\ c = BS => unquoted = Append(r.open, c)
        /\ c \in {DQ, BQ} => unquoted = IF in = c THEN Front(r.open) ELSE Append(r.open, c)
        /\ c = SQ => unquoted = IF in = DQ THEN r.open ELSE Append(r.open, c)
    BY CharsDiffer DEF unquoted
  <1>4. /\ c = "(" => unquoted = IF r.dollar \/ in = "(" THEN Append(r.open, c) ELSE r.open
        /\ c = Lbrace => unquoted = IF r.dollar THEN Append(r.open, c) ELSE r.open
    BY CharsDiffer DEF unquoted
  <1>5. /\ c = ")" => unquoted = IF in = "(" THEN Front(r.open) ELSE r.open
        /\ c = Rbrace => unquoted = IF in = Lbrace THEN Front(r.open) ELSE r.open
        /\ c \notin {BS, SQ, DQ, BQ, "(", ")", Lbrace, Rbrace} => unquoted = r.open
    BY CharsDiffer DEF unquoted
  <1>. HIDE DEF unquoted
  <1>. QED  BY <1>1, <1>2, <1>3, <1>4, <1>5 DEF in

\* May symexp.c take what follows for a command?
Begins(r, c) ==
    r.body = Void /\ In(r) \notin {BS, SQ} /\ (c = BQ \/ (c = "(" /\ r.prev \in {"$", Lbrace}))

\* The rest of what the reader does.
LEMMA RestIs ==
    ASSUME NEW r, NEW c, r.hard \in BOOLEAN
    PROVE  LET s == Read(r, c) IN
           /\ s.prev = c
           /\ s.dollar = (c = "$" /\ ~r.dollar /\ ~(In(r) \in {BS, SQ}))
           /\ s.body = IF Begins(r, c) THEN (IF c = BQ THEN BQ ELSE ")")
                       ELSE IF c = r.body THEN Void ELSE r.body
           /\ s.blank = (Begins(r, c) \/ (r.blank /\ c = Blank))
           /\ s.hard \in BOOLEAN
           /\ s.hard <=> \/ r.hard
                         \/ r.body # Void /\ c \notin {"x", Blank, r.body}
                         \/ r.body = BQ /\ c = BQ /\ r.blank
                         \/ In(r) = Lbrace /\ c \in {SQ, DQ} /\ Doubly(r)
  <1>1. LET s == Read(r, c) IN
        /\ s.prev = c
        /\ s.dollar = (c = "$" /\ ~r.dollar /\ ~(In(r) \in {BS, SQ}))
        /\ s.body = IF Begins(r, c) THEN (IF c = BQ THEN BQ ELSE ")")
                    ELSE IF c = r.body THEN Void ELSE r.body
        /\ s.blank = (Begins(r, c) \/ (r.blank /\ c = Blank))
    BY Zenon DEF Read, In, Begins, Lbrace, Blank, Void
  <1>. DEFINE hard == \/ r.hard
                      \/ r.body # Void /\ c \notin {"x", Blank, r.body}
                      \/ r.body = BQ /\ c = BQ /\ r.blank
                      \/ In(r) = Lbrace /\ c \in {SQ, DQ} /\ Doubly(r)
  <1>2. Read(r, c).hard = hard
    <2>. DEFINE in == IF r.open = <<>> THEN "" ELSE Last(r.open)
    <2>1. Read(r, c).hard =
            (\/ r.hard
             \/ r.body # "" /\ c \notin {"x", " ", r.body}
             \/ r.body = BQ /\ c = BQ /\ r.blank
             \/ in = "{" /\ c \in {SQ, DQ} /\ DQ \in ToSet(r.open))
      BY DEF Read
    <2>. QED  BY <2>1, Zenon DEF In, Doubly, Lbrace, Blank, Void
  <1>3. hard \in BOOLEAN
    BY Zenon
  <1>. HIDE DEF hard
  <1>4. Read(r, c).hard \in BOOLEAN /\ (Read(r, c).hard <=> hard)
    BY <1>2, <1>3, Zenon
  <1>. QED  BY <1>1, <1>4, Zenon DEF hard

\* What it takes to open and to close.
LEMMA PushOpen ==
    ASSUME NEW r, NEW s, NEW c \in Opening, r.open \in Seq(Opening), s.open = Append(r.open, c)
    PROVE  /\ s.open \in Seq(Opening) /\ In(s) = c
           /\ Doubly(s) <=> Doubly(r) \/ c = DQ
           /\ Layered(r) /\ In(r) \in {Void, Lbrace, DQ} /\ (c = DQ => ~Doubly(r)) => Layered(s)
  <1>. DEFINE n == Len(r.open)
  <1>1. /\ s.open \in Seq(Opening) /\ Len(s.open) = n + 1 /\ n \in Nat /\ s.open[n + 1] = c
        /\ \A i \in 1 .. n : s.open[i] = r.open[i]
        /\ s.open # <<>>
    OBVIOUS
  <1>2. In(s) = c
    BY <1>1 DEF In, Last
  <1>3. \A i \in 1 .. n + 1 : i \in 1 .. n \/ i = n + 1
    BY <1>1
  <1>4. 1 .. n \subseteq 1 .. n + 1 /\ n + 1 \in 1 .. n + 1
    BY <1>1
  <1>5. DOMAIN r.open = 1 .. n /\ DOMAIN s.open = 1 .. n + 1
    BY <1>1
  <1>6. /\ Doubly(s) <=> \E i \in 1 .. n + 1 : s.open[i] = DQ
        /\ Doubly(r) <=> \E i \in 1 .. n : r.open[i] = DQ
    BY <1>5 DEF Doubly, ToSet
  <1>7. Doubly(s) <=> Doubly(r) \/ c = DQ
    BY <1>1, <1>3, <1>4, <1>6
  <1>8. ASSUME Layered(r), In(r) \in {Void, Lbrace, DQ}, c = DQ => ~Doubly(r)
        PROVE  Layered(s)
    <2>1. ASSUME NEW i \in 1 .. n PROVE s.open[i] \in {Lbrace, DQ}
      <3>1. CASE i = n
        <4>1. r.open # <<>>
          <5>1. n # 0
            BY <1>1, <3>1
          <5>. QED  BY <5>1
        <4>3. In(r) = r.open[n] /\ r.open[n] \in Opening
          BY <4>1, FrontIs DEF In
        <4>2. r.open[n] # Void
          BY <4>3, OpeningIs, CharsDiffer
        <4>. QED  BY <1>1, <1>8, <3>1, <4>3, <4>2
      <3>2. CASE i # n
        <4>1. i \in 1 .. n - 1
          BY <1>1, <3>2
        <4>. QED  BY <1>1, <1>8, <4>1 DEF Layered
      <3>. QED  BY <3>1, <3>2
    <2>2. ASSUME NEW i \in 1 .. n + 1, NEW j \in 1 .. n + 1, s.open[i] = DQ, s.open[j] = DQ
          PROVE  i = j
      <3>1. ASSUME NEW k \in 1 .. n, s.open[k] = DQ PROVE c # DQ
        BY <1>1, <1>6, <1>8, <3>1
      <3>. QED  BY <1>1, <1>3, <1>8, <2>2, <3>1 DEF Layered
    <2>. QED  BY <1>1, <2>1, <2>2 DEF Layered
  <1>. QED  BY <1>1, <1>2, <1>7, <1>8

LEMMA PopOpen ==
    ASSUME NEW r, NEW s, r.open \in Seq(Opening), r.open # <<>>, Layered(r), s.open = Front(r.open)
    PROVE  /\ s.open \in Seq(Opening) /\ In(s) \in {Void, Lbrace, DQ} /\ Layered(s)
           /\ Doubly(s) <=> Doubly(r) /\ In(r) # DQ
  <1>. DEFINE n == Len(r.open)
  <1>1. r.open # <<>>
    OBVIOUS
  <1>2. /\ s.open \in Seq(Opening) /\ Len(s.open) = n - 1 /\ n \in Nat \ {0}
        /\ \A i \in 1 .. n - 1 : s.open[i] = r.open[i]
        /\ In(r) = r.open[n]
    BY <1>1, FrontIs DEF In
  <1>3. DOMAIN r.open = 1 .. n /\ DOMAIN s.open = 1 .. n - 1
    <2>1. DOMAIN s.open = 1 .. Len(s.open)
      BY <1>2
    <2>. QED  BY <1>2, <2>1
  <1>4. /\ Doubly(s) <=> \E i \in 1 .. n - 1 : s.open[i] = DQ
        /\ Doubly(r) <=> \E i \in 1 .. n : r.open[i] = DQ
    BY <1>3 DEF Doubly, ToSet
  <1>5. (\A i \in 1 .. n : i \in 1 .. n - 1 \/ i = n) /\ 1 .. n - 1 \subseteq 1 .. n /\ n \in 1 .. n
        /\ n \notin 1 .. n - 1
    <2>1. \A m \in Nat \ {0} :
            /\ \A i \in 1 .. m : i \in 1 .. m - 1 \/ i = m
            /\ 1 .. m - 1 \subseteq 1 .. m /\ m \in 1 .. m /\ m \notin 1 .. m - 1
      OBVIOUS
    <2>. QED  BY <1>2, <2>1
  <1>6. Doubly(s) <=> Doubly(r) /\ In(r) # DQ
    BY <1>2, <1>4, <1>5 DEF Layered
  <1>7. In(s) \in {Void, Lbrace, DQ}
    <2>1. CASE s.open = <<>>
      BY <2>1, Zenon DEF In, Void
    <2>2. CASE s.open # <<>>
      <3>1. In(s) = s.open[Len(s.open)] /\ Len(s.open) \in Nat \ {0}
        BY <1>2, <2>2, FrontIs DEF In
      <3>2. \A m \in Nat \ {0} : m - 1 \in Nat \ {0} => m - 1 \in 1 .. m - 1
        OBVIOUS
      <3>3. n - 1 \in 1 .. n - 1 /\ In(s) = s.open[n - 1]
        BY <1>2, <3>1, <3>2
      <3>. QED  BY <1>2, <3>3 DEF Layered
    <2>. QED  BY <2>1, <2>2
  <1>8. Layered(s)
    <2>1. \A m \in Nat \ {0} : 1 .. m - 1 - 1 \subseteq 1 .. m - 1
      OBVIOUS
    <2>2. \A i \in 1 .. Len(s.open) - 1 : i \in 1 .. n - 1
      BY <1>2, <2>1
    <2>3. \A i \in 1 .. Len(s.open) - 1 : s.open[i] \in {Lbrace, DQ}
      BY <1>2, <2>2 DEF Layered
    <2>4. \A i, j \in 1 .. Len(s.open) : s.open[i] = DQ /\ s.open[j] = DQ => i = j
      BY <1>2, <1>5 DEF Layered
    <2>. QED  BY <2>3, <2>4 DEF Layered
  <1>. QED  BY <1>2, <1>6, <1>7, <1>8

\* A character of a text that can be followed.
LEMMA CleanStep ==
    ASSUME NEW r, NEW c, Sane(r), ~Read(r, c).hard
    PROVE  LET s == Read(r, c) IN
           /\ Clean(r) /\ Clean(s) /\ ~r.hard /\ s.open \in Seq(Opening)
           /\ Doubly(s) <=> IF In(r) \notin {BS, SQ} /\ c = DQ THEN ~Doubly(r) ELSE Doubly(r)
           /\ In(s) = SQ <=> IF In(r) = SQ THEN c # SQ
                            ELSE In(r) # BS /\ c = SQ /\ ~Doubly(r)
           /\ In(s) = BS <=> In(r) \notin {BS, SQ} /\ c = BS
  <1>. DEFINE s == Read(r, c)
              in == In(r)
  <1>1. /\ r.open \in Seq(Opening) /\ r.body \in {Void, ")", BQ} /\ r.hard \in BOOLEAN
        /\ r.dollar => r.prev = "$"
    BY DEF Sane
  <1>2. /\ s.body = IF Begins(r, c) THEN (IF c = BQ THEN BQ ELSE ")")
                    ELSE IF c = r.body THEN Void ELSE r.body
        /\ ~r.hard
        /\ r.body # Void => c \in {"x", Blank, r.body}
        /\ in = Lbrace /\ c \in {SQ, DQ} => ~Doubly(r)
    BY <1>1, RestIs
  <1>3. Clean(r)
    BY <1>2 DEF Sane
  <1>4. /\ Layered(r)
        /\ in = SQ => ~Doubly(r)
        /\ r.body = Void => in \notin {"(", BQ}
        /\ r.body = ")" => in \notin {BS, SQ, BQ}
        /\ r.body = BQ => in = BQ
    BY <1>3 DEF Clean
  <1>5. in \in {Void, BS, SQ, DQ, BQ, "(", Lbrace} /\ (in # Void <=> r.open # <<>>)
    <2>1. CASE r.open = <<>>
      BY <2>1, Zenon DEF In, Void
    <2>2. CASE r.open # <<>>
      <3>1. in \in Opening
        BY <1>1, <2>2, FrontIs DEF In
      <3>2. in \in {BS, SQ, DQ, BQ, "(", Lbrace}
        BY <3>1, OpeningIs
      <3>3. in # Void
        BY <3>2, CharsDiffer
      <3>. HIDE DEF in
      <3>. QED  BY <2>2, <3>2, <3>3
    <2>. QED  BY <2>1, <2>2
  <1>6. Doubly(r) => r.open # <<>>
    BY DEF Doubly, ToSet
  <1>7. in = DQ => Doubly(r)
    <2>1. SUFFICES ASSUME in = DQ PROVE Doubly(r)
      OBVIOUS
    <2>2. r.open # <<>>
      <3>1. DQ # Void
        BY CharsDiffer
      <3>. HIDE DEF in
      <3>. QED  BY <1>5, <2>1, <3>1
    <2>3. Len(r.open) \in Nat \ {0} /\ Last(r.open) = r.open[Len(r.open)] /\ in = Last(r.open)
      BY <1>1, <2>2, FrontIs DEF In
    <2>4. DOMAIN r.open = 1 .. Len(r.open) /\ Len(r.open) \in 1 .. Len(r.open)
      <3>1. \A m \in Nat \ {0} : m \in 1 .. m
        OBVIOUS
      <3>. QED  BY <1>1, <2>3, <3>1
    <2>5. r.open[Len(r.open)] = DQ
      BY <2>1, <2>3
    <2>. HIDE DEF in
    <2>. QED  BY <2>4, <2>5 DEF Doubly, ToSet
  <1>. HIDE DEF s, in
  <1>8. ASSUME s.open = r.open
        PROVE  In(s) = in /\ (Doubly(s) <=> Doubly(r)) /\ Layered(s) /\ s.open \in Seq(Opening)
    BY <1>1, <1>4, <1>8 DEF In, Doubly, Layered, in
  <1>9. ASSUME s.open = Front(r.open), in # Void
        PROVE  /\ In(s) \in {Void, Lbrace, DQ} /\ Layered(s) /\ s.open \in Seq(Opening)
               /\ Doubly(s) <=> Doubly(r) /\ in # DQ
    <2>1. r.open # <<>>
      BY <1>5, <1>9
    <2>. QED  BY <1>1, <1>4, <1>9, <2>1, PopOpen DEF in
  <1>10. ASSUME s.open = Append(r.open, c), c \in {BS, SQ, DQ, BQ, "(", Lbrace},
                in \in {Void, Lbrace, DQ}, c = DQ => ~Doubly(r)
         PROVE  /\ In(s) = c /\ Layered(s) /\ s.open \in Seq(Opening)
                /\ Doubly(s) <=> Doubly(r) \/ c = DQ
    <2>1. c \in Opening
      BY <1>10, OpeningIs
    <2>. QED  BY <1>1, <1>4, <1>10, <2>1, PushOpen DEF in
  <1>. DEFINE Goal == /\ Clean(s) /\ s.open \in Seq(Opening)
                      /\ Doubly(s) <=> IF in \notin {BS, SQ} /\ c = DQ THEN ~Doubly(r)
                                       ELSE Doubly(r)
                      /\ In(s) = SQ <=> IF in = SQ THEN c # SQ
                                       ELSE in # BS /\ c = SQ /\ ~Doubly(r)
                      /\ In(s) = BS <=> in \notin {BS, SQ} /\ c = BS
  <1>11. /\ in = BS => s.open = Front(r.open)
         /\ in = SQ => s.open = IF c = SQ THEN Front(r.open) ELSE r.open
         /\ in \notin {BS, SQ} =>
              /\ c = BS => s.open = Append(r.open, c)
              /\ c \in {DQ, BQ} => s.open = IF in = c THEN Front(r.open) ELSE Append(r.open, c)
              /\ c = SQ => s.open = IF in = DQ THEN r.open ELSE Append(r.open, c)
              /\ c = "(" => s.open = IF r.dollar \/ in = "(" THEN Append(r.open, c) ELSE r.open
              /\ c = Lbrace => s.open = IF r.dollar THEN Append(r.open, c) ELSE r.open
              /\ c = ")" => s.open = IF in = "(" THEN Front(r.open) ELSE r.open
              /\ c = Rbrace => s.open = IF in = Lbrace THEN Front(r.open) ELSE r.open
              /\ c \notin {BS, SQ, DQ, BQ, "(", ")", Lbrace, Rbrace} => s.open = r.open
    BY OpenIs DEF s, in
  <1>. DEFINE begins == r.body = Void /\ in \notin {BS, SQ}
                        /\ (c = BQ \/ (c = "(" /\ r.prev \in {"$", Lbrace}))
  <1>12. /\ begins /\ c = BQ => s.body = BQ
         /\ begins /\ c # BQ => s.body = ")"
         /\ ~begins /\ c = r.body => s.body = Void
         /\ ~begins /\ c # r.body => s.body = r.body
    <2>1. Begins(r, c) <=> begins
      BY DEF Begins, in
    <2>. HIDE DEF begins
    <2>. QED  BY <1>2, <2>1
  <1>13. CASE in = BS
    <2>1. r.body = Void /\ s.body = Void
      BY <1>1, <1>2, <1>4, <1>12, <1>13, CharsDiffer
    <2>. QED  BY <1>3, <1>9, <1>11, <1>13, <2>1, <1>2, CharsDiffer DEF Clean, s, in
  <1>14. CASE in = SQ
    <2>1. r.body = Void /\ s.body = Void
      BY <1>1, <1>2, <1>4, <1>12, <1>14, CharsDiffer
    <2>2. CASE c = SQ
      BY <1>2, <1>3, <1>4, <1>9, <1>11, <1>14, <2>1, <2>2, CharsDiffer DEF Clean, s, in
    <2>3. CASE c # SQ
      BY <1>2, <1>3, <1>4, <1>8, <1>11, <1>14, <2>1, <2>3, CharsDiffer DEF Clean, s, in
    <2>. QED  BY <2>2, <2>3
  <1>15. CASE in \notin {BS, SQ}
    <2>1. CASE c \in {BS, SQ, DQ}
      <3>1. r.body = Void /\ s.body = Void /\ in \in {Void, Lbrace, DQ}
        BY <1>1, <1>2, <1>4, <1>5, <1>12, <1>15, <2>1, CharsDiffer
      <3>2. CASE c = BS
        BY <1>2, <1>3, <1>10, <1>11, <1>15, <3>1, <3>2, CharsDiffer DEF Clean, s, in
      <3>3. CASE c = SQ /\ in = DQ
        BY <1>2, <1>3, <1>7, <1>8, <1>11, <1>15, <3>1, <3>3, CharsDiffer DEF Clean, s, in
      <3>4. CASE c = SQ /\ in # DQ
        <4>1. ~Doubly(r)
          BY <1>2, <1>5, <1>6, <3>1, <3>4
        <4>. QED  BY <1>2, <1>3, <1>10, <1>11, <1>15, <3>1, <3>4, <4>1, CharsDiffer DEF Clean, s, in
      <3>5. CASE c = DQ /\ in = DQ
        BY <1>2, <1>3, <1>7, <1>9, <1>11, <1>15, <3>1, <3>5, CharsDiffer DEF Clean, s, in
      <3>6. CASE c = DQ /\ in # DQ
        <4>1. ~Doubly(r)
          BY <1>2, <1>5, <1>6, <3>1, <3>6
        <4>. QED  BY <1>2, <1>3, <1>10, <1>11, <1>15, <3>1, <3>6, <4>1, CharsDiffer DEF Clean, s, in
      <3>. QED  BY <2>1, <3>2, <3>3, <3>4, <3>5, <3>6
    <2>2. CASE c = BQ
      <3>1. CASE r.body = Void
        <4>1. in \in {Void, Lbrace, DQ} /\ s.body = BQ
          BY <1>2, <1>4, <1>5, <1>12, <1>15, <2>2, <3>1
        <4>. QED  BY <1>2, <1>3, <1>10, <1>11, <1>15, <2>2, <4>1, CharsDiffer DEF Clean, s, in
      <3>2. CASE r.body # Void
        <4>1. r.body = BQ /\ in = BQ /\ s.body = Void
          BY <1>1, <1>2, <1>4, <1>12, <2>2, <3>2, CharsDiffer
        <4>. QED  BY <1>2, <1>3, <1>9, <1>11, <1>15, <2>2, <4>1, CharsDiffer DEF Clean, s, in
      <3>. QED  BY <3>1, <3>2
    <2>3. CASE c \in {"(", Lbrace}
      <3>1. r.body = Void /\ in \in {Void, Lbrace, DQ}
        BY <1>1, <1>2, <1>4, <1>5, <1>15, <2>3, CharsDiffer
      <3>2. s.body = IF c = "(" /\ r.prev \in {"$", Lbrace} THEN ")" ELSE Void
        BY <1>2, <1>12, <1>15, <2>3, <3>1, CharsDiffer
      <3>3. CASE r.dollar
        BY <1>1, <1>2, <1>3, <1>10, <1>11, <1>15, <2>3, <3>1, <3>2, <3>3, CharsDiffer DEF Clean, s, in
      <3>4. CASE ~r.dollar
        BY <1>2, <1>3, <1>4, <1>8, <1>11, <1>15, <2>3, <3>1, <3>2, <3>4, CharsDiffer DEF Clean, s, in
      <3>. QED  BY <3>3, <3>4
    <2>4. CASE c = ")"
      <3>1. s.body = Void /\ r.body \in {Void, ")"}
        BY <1>1, <1>2, <1>12, <2>4, CharsDiffer
      <3>2. CASE in = "("
        BY <1>2, <1>3, <1>9, <1>11, <1>15, <2>4, <3>1, <3>2, CharsDiffer DEF Clean, s, in
      <3>3. CASE in # "("
        <4>1. in \in {Void, Lbrace, DQ}
          BY <1>4, <1>5, <1>15, <3>1, <3>3
        <4>. QED  BY <1>2, <1>3, <1>4, <1>8, <1>11, <1>15, <2>4, <3>1, <3>3, <4>1, CharsDiffer
                  DEF Clean, s, in
      <3>. QED  BY <3>2, <3>3
    <2>5. CASE c = Rbrace
      <3>1. s.body = Void /\ r.body = Void /\ in \in {Void, Lbrace, DQ}
        BY <1>1, <1>2, <1>4, <1>5, <1>12, <1>15, <2>5, CharsDiffer
      <3>2. CASE in = Lbrace
        BY <1>2, <1>3, <1>9, <1>11, <1>15, <2>5, <3>1, <3>2, CharsDiffer DEF Clean, s, in
      <3>3. CASE in # Lbrace
        BY <1>2, <1>3, <1>4, <1>8, <1>11, <1>15, <2>5, <3>1, <3>3, CharsDiffer DEF Clean, s, in
      <3>. QED  BY <3>2, <3>3
    <2>6. CASE c \notin {BS, SQ, DQ, BQ, "(", ")", Lbrace, Rbrace}
      <3>1. s.body = r.body
        BY <1>1, <1>2, <1>12, <2>6
      <3>. QED  BY <1>2, <1>3, <1>4, <1>8, <1>11, <1>15, <2>6, <3>1, CharsDiffer DEF Clean, s, in
    <2>. QED  BY <2>1, <2>2, <2>3, <2>4, <2>5, <2>6
  <1>. QED  BY <1>13, <1>14, <1>15

\* Any character keeps the reader sane; what cannot be followed stays so.
LEMMA SaneStep ==
    ASSUME NEW r, NEW c, Sane(r)
    PROVE  Sane(Read(r, c)) /\ (r.hard => Read(r, c).hard)
  <1>. DEFINE s == Read(r, c)
  <1>1. s.open \in Seq(Opening) /\ s.dollar \in BOOLEAN
    BY ReadIs DEF Sane
  <1>2. /\ s.prev = c /\ s.dollar = (c = "$" /\ ~r.dollar /\ ~(In(r) \in {BS, SQ}))
        /\ s.body = IF Begins(r, c) THEN (IF c = BQ THEN BQ ELSE ")")
                    ELSE IF c = r.body THEN Void ELSE r.body
        /\ s.hard \in BOOLEAN /\ (r.hard => s.hard)
    BY RestIs DEF Sane
  <1>3. s.body \in {Void, ")", BQ}
    BY <1>2 DEF Sane
  <1>4. ~s.hard => Clean(s)
    BY CleanStep
  <1>. HIDE DEF s
  <1>. QED  BY <1>1, <1>2, <1>3, <1>4 DEF Sane, s

\* h[i] is the reader after i characters of t.
StepsOver(h, t, r) ==
    /\ h[0] = NewReader /\ h[Len(t)] = r
    /\ \A i \in 1 .. Len(t) : h[i] = Read(h[i - 1], t[i])
    /\ \A i \in 0 .. Len(t) : Sane(h[i]) /\ (h[i].hard => r.hard)

Steps(h) == StepsOver(h, text, reader)

\* Induction, by the least number at which something fails.
LEMMA LeastExists ==
    ASSUME NEW S, S \subseteq Nat, S # {}
    PROVE  \E x \in S : \A y \in S : x <= y
  <1>. DEFINE R == OpToRel(<, Nat)
  <1>1. IsWellFoundedOn(R, Nat)
    BY NatLessThanWellFounded
  <1>2. PICK x \in S : \A y \in S : <<y, x>> \notin R
    <2>. HIDE DEF R
    <2>. QED  BY <1>1, WFMin
  <1>3. ASSUME NEW y \in S
        PROVE  x <= y
    <2>1. x \in Nat /\ y \in Nat
      OBVIOUS
    <2>2. y < x => <<y, x>> \in R
      BY <2>1 DEF OpToRel
    <2>. HIDE DEF R
    <2>. QED  BY <1>2, <2>1, <2>2
  <1>. QED  BY <1>3

\* What holds at p and goes on from a position to the next holds up to n.
LEMMA GoesOn ==
    ASSUME NEW p \in Nat, NEW n \in Nat, NEW B, p \notin B, B \subseteq p .. n,
           \A i \in p + 1 .. n : i \in B => i - 1 \in B
    PROVE  B = {}
  <1>1. SUFFICES ASSUME B # {} PROVE FALSE
    OBVIOUS
  <1>2. B \subseteq Nat
    OBVIOUS
  <1>3. PICK m \in B : \A i \in B : m <= i
    BY <1>1, <1>2, LeastExists
  <1>4. m \in p + 1 .. n
    <2>1. m \in p .. n /\ m # p
      OBVIOUS
    <2>. QED  BY <2>1
  <1>5. m - 1 \in B /\ m \in Nat
    BY <1>4
  <1>6. m <= m - 1
    BY <1>3, <1>5
  <1>. QED  BY <1>5, <1>6

\* There is such a record at first, and it grows with the text.
LEMMA InitSteps == Init => \E h : Steps(h)
  <1>1. SUFFICES ASSUME Init PROVE \E h : Steps(h)
    OBVIOUS
  <1>. DEFINE h == [i \in 0 .. 0 |-> NewReader]
  <1>2. text = <<>> /\ reader = NewReader /\ Len(text) = 0
    BY <1>1 DEF Init, LexInit
  <1>3. h[0] = NewReader /\ (\A i \in 1 .. 0 : FALSE) /\ (\A i \in 0 .. 0 : i = 0)
    OBVIOUS
  <1>4. /\ NewReader.open = <<>> /\ NewReader.dollar = FALSE /\ NewReader.hard = FALSE
        /\ NewReader.body = Void
    BY Zenon DEF NewReader, Void
  <1>5. Sane(NewReader)
    <2>1. <<>> \in Seq(Opening) /\ Len(<<>>) = 0 /\ (\A i \in 1 .. 0 - 1 : FALSE)
      OBVIOUS
    <2>2. In(NewReader) = Void
      BY <1>4, Zenon DEF In, Void
    <2>3. Layered(NewReader)
      BY <1>3, <1>4, <2>1 DEF Layered
    <2>4. Clean(NewReader)
      BY <1>4, <2>2, <2>3, CharsDiffer DEF Clean
    <2>. QED  BY <1>4, <2>1, <2>4 DEF Sane
  <1>6. Steps(h)
    <2>. HIDE DEF h
    <2>. QED  BY <1>2, <1>3, <1>5 DEF Steps, StepsOver
  <1>. QED  BY <1>6

LEMMA StepsGrow ==
    ASSUME NEW S, text \in Seq(S), NEW h, Steps(h), NEW c,
           text' = Append(text, c), reader' = Read(reader, c)
    PROVE  \E g : Steps(g)'
  <1>. DEFINE n == Len(text)
              g == [i \in 0 .. n + 1 |-> IF i = n + 1 THEN reader' ELSE h[i]]
  <1>1. /\ n \in Nat /\ Len(text') = n + 1 /\ text'[n + 1] = c
        /\ \A i \in 1 .. n : text'[i] = text[i]
    OBVIOUS
  <1>2. /\ g[n + 1] = reader' /\ g[0] = h[0]
        /\ \A i \in 0 .. n : g[i] = h[i]
    BY <1>1
  <1>. HIDE DEF g
  <1>3. \A i \in 0 .. n + 1 : i \in 0 .. n \/ i = n + 1
    BY <1>1
  <1>4. \A i \in 1 .. n + 1 : (i \in 1 .. n /\ i \in 0 .. n /\ i - 1 \in 0 .. n) \/ i = n + 1
    BY <1>1
  <1>5. n + 1 - 1 = n /\ n \in 0 .. n
    BY <1>1
  <1>6. Sane(reader) /\ h[n] = reader
    BY <1>5 DEF Steps, StepsOver
  <1>7. Sane(reader') /\ (reader.hard => reader'.hard)
    BY <1>6, SaneStep
  <1>8. \A i \in 1 .. n + 1 : g[i] = Read(g[i - 1], text'[i])
    <2>1. g[n + 1] = Read(g[n], text'[n + 1])
      BY <1>1, <1>2, <1>5, <1>6
    <2>2. ASSUME NEW i \in 1 .. n PROVE g[i] = Read(g[i - 1], text'[i])
      <3>1. h[i] = Read(h[i - 1], text[i])
        BY DEF Steps, StepsOver
      <3>2. i \in 0 .. n /\ i - 1 \in 0 .. n
        BY <1>1
      <3>. QED  BY <1>1, <1>2, <3>1, <3>2
    <2>. QED  BY <1>4, <1>5, <2>1, <2>2
  <1>9. \A i \in 0 .. n + 1 : Sane(g[i]) /\ (g[i].hard => reader'.hard)
    BY <1>2, <1>3, <1>7 DEF Steps, StepsOver
  <1>10. g[0] = NewReader /\ g[n + 1] = reader'
    BY <1>2 DEF Steps, StepsOver
  <1>11. StepsOver(g, text', reader')
    <2>. HIDE DEF n
    <2>1. Len(text') = n + 1
      BY <1>1
    <2>. QED  BY <1>8, <1>9, <1>10, <2>1 DEF StepsOver
  <1>12. PICK f : StepsOver(f, text', reader')
    BY <1>11
  <1>13. Steps(f)'
    BY <1>12 DEF Steps
  <1>. QED  BY <1>13

\* A step of the reader over a text that can be followed.
LEMMA StepAt ==
    ASSUME NEW S, text \in Seq(S), NEW h, Steps(h), ~reader.hard, NEW i \in 1 .. Len(text)
    PROVE  LET r == h[i - 1]
               s == h[i]
               c == text[i] IN
           /\ Sane(r) /\ Sane(s) /\ Clean(r) /\ Clean(s) /\ ~r.hard /\ ~s.hard
           /\ Doubly(s) <=> IF In(r) \notin {BS, SQ} /\ c = DQ THEN ~Doubly(r) ELSE Doubly(r)
           /\ In(s) = SQ <=> IF In(r) = SQ THEN c # SQ
                            ELSE In(r) # BS /\ c = SQ /\ ~Doubly(r)
           /\ In(s) = BS <=> In(r) \notin {BS, SQ} /\ c = BS
           /\ s.prev = c
           /\ Begins(r, c) => s.body = IF c = BQ THEN BQ ELSE ")"
           /\ ~Begins(r, c) => s.body = IF c = r.body THEN Void ELSE r.body
           /\ s.blank <=> Begins(r, c) \/ (r.blank /\ c = Blank)
           /\ r.body # Void => c \in {"x", Blank, r.body}
           /\ ~(r.body = BQ /\ c = BQ /\ r.blank)
  <1>. DEFINE r == h[i - 1]
              s == h[i]
              c == text[i]
  <1>1. i - 1 \in 0 .. Len(text) /\ i \in 0 .. Len(text)
    OBVIOUS
  <1>2. s = Read(r, c) /\ Sane(r) /\ Sane(s) /\ ~r.hard /\ ~s.hard
    BY <1>1 DEF Steps, StepsOver
  <1>3. r.hard \in BOOLEAN
    BY <1>2 DEF Sane
  <1>. HIDE DEF r, s, c
  <1>4. /\ Clean(r) /\ Clean(s)
        /\ Doubly(s) <=> IF In(r) \notin {BS, SQ} /\ c = DQ THEN ~Doubly(r) ELSE Doubly(r)
        /\ In(s) = SQ <=> IF In(r) = SQ THEN c # SQ
                         ELSE In(r) # BS /\ c = SQ /\ ~Doubly(r)
        /\ In(s) = BS <=> In(r) \notin {BS, SQ} /\ c = BS
    BY <1>2, CleanStep
  <1>5. /\ s.prev = c
        /\ s.body = IF Begins(r, c) THEN (IF c = BQ THEN BQ ELSE ")")
                    ELSE IF c = r.body THEN Void ELSE r.body
        /\ s.blank = (Begins(r, c) \/ (r.blank /\ c = Blank))
        /\ ~(\/ r.hard
             \/ r.body # Void /\ c \notin {"x", Blank, r.body}
             \/ r.body = BQ /\ c = BQ /\ r.blank
             \/ In(r) = Lbrace /\ c \in {SQ, DQ} /\ Doubly(r))
    BY <1>2, <1>3, RestIs
  <1>6. s.blank <=> Begins(r, c) \/ (r.blank /\ c = Blank)
    BY <1>5, Zenon
  <1>. QED  BY <1>2, <1>4, <1>5, <1>6 DEF r, s, c

\* The word can be followed to its end.
Followed ==
    /\ word = text /\ phase = "done"
    /\ ~reader.hard /\ reader.body = Void /\ reader.open = <<>>

Shaped(x) == DOMAIN x = {"pos", "mode", "i", "key", "vec", "dest", "blanks", "args"}

Typed(x) ==
    /\ Shaped(x) /\ x.pos \in 1 .. Len(word) + 1
    /\ x.mode \subseteq {Exp, Single, Double, HadOne}
    /\ x.key \in Seq(scope.chars) /\ x.i \in 0 .. Len(x.key)

\* What symexp.c takes for quoted is what is open before its next character.
Follows(x, r) ==
    /\ Single \in x.mode <=> In(r) = SQ
    /\ Double \in x.mode <=> Doubly(r)
    /\ Exp \in x.mode => Single \notin x.mode
    /\ Exp \in x.mode /\ x.i = 0 => x.pos > 1 /\ word[x.pos - 1] \in {"$", Lbrace}
    /\ In(r) = BS =>
         /\ Double \in x.mode /\ Exp \notin x.mode
         /\ x.pos <= Len(word) /\ word[x.pos] \notin {BS, DQ, BQ, LF}
    /\ r.body # BQ

Expanding(h) ==
    /\ doing = "idle" => word = <<>> /\ exp = NewExp
    /\ doing # "idle" => Followed /\ Typed(exp)
    /\ doing \in {"expand", "read"} => Follows(exp, h[exp.pos - 1])
    /\ doing = "done" => exp.mode \subseteq {HadOne}
    /\ doing \in {"idle", "expand", "read", "done"}

\* What may be taken for a command is closed; nothing else is opened in it.
LEMMA BodyEnds ==
    ASSUME NEW S, text \in Seq(S), NEW h, Steps(h), ~reader.hard, reader.body = Void,
           NEW p \in 1 .. Len(text), h[p].body # Void
    PROVE  \E n \in p + 1 .. Len(text) :
             /\ text[n] = h[p].body /\ \A i \in p + 1 .. n - 1 : text[i] # h[p].body
             /\ h[n - 1].body = h[p].body /\ h[n].body = Void
             /\ {In(h[n - 1]), In(h[n])} \cap {SQ, BS} = {}
             /\ Doubly(h[n - 1]) <=> Doubly(h[p])
             /\ Doubly(h[n]) <=> Doubly(h[p])
             /\ h[p].blank /\ (\A i \in p + 1 .. n - 1 : text[i] = Blank) => h[n - 1].blank
  <1>. DEFINE L == Len(text)
              b == h[p].body
              Out == {i \in p .. L : h[i].body # b}
  <1>1. L \in Nat /\ p \in Nat /\ p <= L
    OBVIOUS
  <1>2. b \in {")", BQ} /\ h[L] = reader
    <2>1. p \in 0 .. L
      OBVIOUS
    <2>. QED  BY <2>1 DEF Steps, StepsOver, Sane
  <1>3. PICK n \in Out : \A i \in Out : n <= i
    <2>1. L \in Out
      BY <1>1, <1>2
    <2>2. Out \subseteq Nat
      BY <1>1
    <2>. QED  BY <2>1, <2>2, LeastExists
  <1>. HIDE DEF b
  <1>4. /\ n \in p + 1 .. L /\ h[n].body # b
        /\ \A i \in p .. n - 1 : h[i].body = b
    <2>1. n \in p .. L /\ h[n].body # b
      BY <1>3
    <2>2. n # p
      BY <2>1 DEF b
    <2>3. n \in p + 1 .. L
      BY <1>1, <2>1, <2>2
    <2>4. ASSUME NEW i \in p .. n - 1 PROVE h[i].body = b
      <3>1. i \in p .. L /\ ~(n <= i)
        BY <1>1, <2>1
      <3>. QED  BY <1>3, <3>1
    <2>. QED  BY <2>1, <2>3, <2>4
  <1>5. /\ n - 1 \in p .. n - 1 /\ n \in 1 .. L
        /\ \A i \in p + 1 .. n : i \in 1 .. L /\ i - 1 \in p .. n - 1
        /\ \A i \in p + 1 .. n - 1 : i \in p .. n - 1 /\ i \in p + 1 .. n
    BY <1>1, <1>4
  <1>. HIDE DEF Out, L
  <1>6. ASSUME NEW i \in p + 1 .. n
        PROVE  /\ h[i - 1].body = b
               /\ text[i] \in {"x", Blank, b} /\ In(h[i - 1]) \notin {SQ, BS}
               /\ In(h[i]) \notin {SQ, BS} /\ (Doubly(h[i]) <=> Doubly(h[i - 1]))
               /\ h[i].body = IF text[i] = b THEN Void ELSE b
               /\ h[i].blank <=> h[i - 1].blank /\ text[i] = Blank
    <2>1. i \in 1 .. Len(text) /\ h[i - 1].body = b
      BY <1>4, <1>5 DEF L
    <2>. DEFINE r == h[i - 1]
                s == h[i]
                c == text[i]
    <2>2. /\ Clean(r)
          /\ Doubly(s) <=> IF In(r) \notin {BS, SQ} /\ c = DQ THEN ~Doubly(r) ELSE Doubly(r)
          /\ In(s) = SQ <=> IF In(r) = SQ THEN c # SQ
                           ELSE In(r) # BS /\ c = SQ /\ ~Doubly(r)
          /\ In(s) = BS <=> In(r) \notin {BS, SQ} /\ c = BS
          /\ ~Begins(r, c) => s.body = IF c = r.body THEN Void ELSE r.body
          /\ s.blank <=> Begins(r, c) \/ (r.blank /\ c = Blank)
          /\ r.body # Void => c \in {"x", Blank, r.body}
      BY <2>1, StepAt
    <2>. HIDE DEF r, s, c
    <2>3. r.body = b
      BY <2>1 DEF r
    <2>4. ~Begins(r, c) /\ c \in {"x", Blank, b}
      BY <1>2, <2>2, <2>3, CharsDiffer DEF Begins
    <2>5. In(r) \notin {SQ, BS}
      BY <1>2, <2>2, <2>3, CharsDiffer DEF Clean
    <2>6. c \notin {SQ, BS, DQ}
      BY <1>2, <2>4, CharsDiffer
    <2>. QED  BY <2>2, <2>3, <2>4, <2>5, <2>6 DEF r, s, c
  <1>7. n \in p + 1 .. n
    BY <1>1, <1>4
  <1>8. text[n] = b /\ h[n].body = Void
    BY <1>4, <1>6, <1>7
  <1>9. \A i \in p + 1 .. n - 1 : text[i] # b
    <2>1. ASSUME NEW i \in p + 1 .. n - 1 PROVE text[i] # b
      <3>1. h[i].body = b
        BY <1>4, <1>5
      <3>2. h[i].body = IF text[i] = b THEN Void ELSE b
        BY <1>5, <1>6
      <3>3. b # Void
        BY DEF b
      <3>. QED  BY <3>1, <3>2, <3>3
    <2>. QED  BY <2>1
  <1>10. \A i \in p .. n : Doubly(h[i]) <=> Doubly(h[p])
    <2>. DEFINE B == {i \in p .. n : ~(Doubly(h[i]) <=> Doubly(h[p]))}
    <2>1. \A i \in p + 1 .. n : i \in B => i - 1 \in B
      <3>1. \A i \in p + 1 .. n : i - 1 \in p .. n
        BY <1>1, <1>4
      <3>. QED  BY <1>6, <3>1
    <2>2. p \notin B /\ B \subseteq p .. n /\ n \in Nat
      BY <1>1, <1>4
    <2>3. B = {}
      <3>. HIDE DEF B
      <3>. QED  BY <1>1, <2>1, <2>2, GoesOn
    <2>. QED  BY <2>3
  <1>11. h[p].blank /\ (\A i \in p + 1 .. n - 1 : text[i] = Blank) => h[n - 1].blank
    <2>1. SUFFICES ASSUME h[p].blank, \A i \in p + 1 .. n - 1 : text[i] = Blank
                   PROVE  h[n - 1].blank
      OBVIOUS
    <2>. DEFINE B == {i \in p .. n - 1 : ~h[i].blank}
    <2>2. ASSUME NEW i \in p + 1 .. n - 1, i \in B PROVE i - 1 \in B
      <3>1. i - 1 \in p .. n - 1 /\ i \in p + 1 .. n
        BY <1>5
      <3>. QED  BY <1>6, <2>1, <2>2, <3>1
    <2>3. p \notin B /\ B \subseteq p .. n - 1 /\ n - 1 \in Nat
      BY <1>1, <1>4, <2>1
    <2>4. B = {}
      <3>. HIDE DEF B
      <3>. QED  BY <1>1, <2>2, <2>3, GoesOn
    <2>. QED  BY <1>5, <2>4
  <1>12. n - 1 \in p .. n /\ n \in p .. n
    BY <1>1, <1>4
  <1>13. In(h[n - 1]) \notin {SQ, BS} /\ In(h[n]) \notin {SQ, BS} /\ h[n - 1].body = b
    BY <1>6, <1>7
  <1>. QED  BY <1>4, <1>8, <1>9, <1>10, <1>11, <1>12, <1>13 DEF b, L


----------------------------------------------------------------------------
(* The state of symexp_word *)

LEMMA ModesDiffer ==
    /\ Exp \notin {Single, Double, HadOne} /\ Single \notin {Exp, Double, HadOne}
    /\ Double \notin {Exp, Single, HadOne}
  BY Zenon DEF Exp, Single, Double, HadOne

\* What decides how the word is read on.
Alike(x, y) ==
    Shaped(y) /\ y.pos = x.pos /\ y.mode = x.mode /\ y.i = x.i /\ y.key = x.key

LEMMA PutAlike == ASSUME NEW x, Shaped(x), NEW s PROVE Alike(x, Put(x, s))
  BY DEF Shaped, Alike, Put

LEMMA ToDestAlike == ASSUME NEW x, Shaped(x) PROVE Alike(x, ToDest(x))
  BY DEF Shaped, Alike, ToDest

LEMMA ArgsArrayAlike == ASSUME NEW x, Shaped(x) PROVE Alike(x, ArgsArray(x))
  <1>. DEFINE p == Put(x, x.args[1])
              y == ToDest(p)
  <1>1. Alike(x, p) /\ Shaped(p)
    BY PutAlike DEF Alike
  <1>2. Alike(p, y)
    BY <1>1, ToDestAlike
  <1>. HIDE DEF p
  <1>3. Alike(x, y)
    BY <1>1, <1>2 DEF Alike
  <1>. HIDE DEF y
  <1>4. Alike(x, [y EXCEPT !.dest = @ \o SubSeq(x.args, 2, Len(x.args) - 1), !.vec = Last(x.args)])
    BY <1>3 DEF Alike, Shaped
  <1>5. Alike(x, x)
    BY DEF Alike
  <1>. QED  BY <1>1, <1>4, <1>5 DEF ArgsArray, y, p

LEMMA SingleCharAlike == ASSUME NEW x, Shaped(x), NEW c PROVE Alike(x, SingleChar(x, c))
  <1>1. \/ SingleChar(x, c) = ArgsArray(x)
        \/ \E s : SingleChar(x, c) = Put(x, s)
        \/ SingleChar(x, c) = x
    BY Zenon DEF SingleChar
  <1>2. Alike(x, x)
    BY DEF Alike
  <1>. QED  BY <1>1, <1>2, ArgsArrayAlike, PutAlike

LEMMA ReachedAlike == ASSUME NEW x, Shaped(x) PROVE Alike(x, Reached(x))
  <1>1. Reached(x) = ToDest(x) \/ (\E s : Reached(x) = Put(x, s)) \/ Reached(x) = x
    BY Zenon DEF Reached
  <1>2. Alike(x, x)
    BY DEF Alike
  <1>. QED  BY <1>1, <1>2, ToDestAlike, PutAlike

LEMMA AdvanceIs ==
    ASSUME NEW x, Shaped(x)
    PROVE  LET y == Advance(x) IN
           Shaped(y) /\ y.pos = x.pos + 1 /\ y.mode = x.mode /\ y.i = x.i /\ y.key = x.key
  BY DEF Shaped, Advance

LEMMA QuitIs ==
    ASSUME NEW x, Shaped(x)
    PROVE  LET y == Quit(x) IN
           Shaped(y) /\ y.pos = x.pos /\ y.mode = x.mode \ {Exp} /\ y.i = x.i /\ y.key = x.key
  <1>. DEFINE w == [x EXCEPT !.mode = @ \ {Exp}]
  <1>1. Shaped(w) /\ w.pos = x.pos /\ w.mode = x.mode \ {Exp} /\ w.i = x.i /\ w.key = x.key
    BY DEF Shaped
  <1>. HIDE DEF w
  <1>2. CASE Exp \notin x.mode
    <2>1. Quit(x) = x /\ x.mode \ {Exp} = x.mode
      BY <1>2 DEF Quit
    <2>. QED  BY <2>1
  <1>3. CASE Exp \in x.mode
    <2>1. \E s : Quit(x) = Put(w, s)
      BY <1>3 DEF Quit, w
    <2>2. Alike(w, Quit(x))
      BY <1>1, <2>1, PutAlike
    <2>. QED  BY <1>1, <2>2 DEF Alike
  <1>. QED  BY <1>2, <1>3

----------------------------------------------------------------------------
(* A turn of the loop *)

\* What the reader makes of c, met by symexp.c in the state x.
Facing(r, s, c, x) ==
    /\ r.body \in {Void, ")"} /\ (r.body # Void => c \in {"x", Blank, r.body})
    /\ In(r) = SQ => ~Doubly(r)
    /\ Single \in x.mode <=> In(r) = SQ
    /\ Double \in x.mode <=> Doubly(r)
    /\ Exp \in x.mode => Single \notin x.mode
    /\ In(r) = BS => Double \in x.mode /\ Exp \notin x.mode /\ c \notin {BS, DQ, BQ, LF}
    /\ Exp \in x.mode /\ x.i = 0 => r.prev \in {"$", Lbrace}
    /\ Doubly(s) <=> IF In(r) \notin {BS, SQ} /\ c = DQ THEN ~Doubly(r) ELSE Doubly(r)
    /\ In(s) = SQ <=> IF In(r) = SQ THEN c # SQ ELSE In(r) # BS /\ c = SQ /\ ~Doubly(r)
    /\ In(s) = BS <=> In(r) \notin {BS, SQ} /\ c = BS
    /\ Begins(r, c) => s.body = (IF c = BQ THEN BQ ELSE ")") /\ s.blank
    /\ ~Begins(r, c) => s.body \in {Void, ")"}

LEMMA AtTurn ==
    ASSUME Reading, NEW h, Steps(h), Expanding(h), Turn
    PROVE  /\ Followed /\ Typed(exp) /\ text \in Seq(scope.chars) /\ Char = text[exp.pos]
           /\ exp.pos \in 1 .. Len(text) /\ Char \in scope.chars
           /\ Facing(h[exp.pos - 1], h[exp.pos], Char, exp)
           /\ Char = BS => exp.pos < Len(text)
  <1>1. /\ Followed /\ Typed(exp) /\ Follows(exp, h[exp.pos - 1]) /\ text \in Seq(scope.chars)
        /\ Char = text[exp.pos] /\ ~reader.hard
    BY DEF Turn, Expanding, Reading, Char, Followed
  <1>2. exp.pos \in 1 .. Len(text)
    BY <1>1 DEF Turn, Typed, Followed
  <1>. DEFINE r == h[exp.pos - 1]
              s == h[exp.pos]
              c == Char
  <1>3. /\ Sane(r) /\ Clean(r)
        /\ Doubly(s) <=> IF In(r) \notin {BS, SQ} /\ c = DQ THEN ~Doubly(r) ELSE Doubly(r)
        /\ In(s) = SQ <=> IF In(r) = SQ THEN c # SQ ELSE In(r) # BS /\ c = SQ /\ ~Doubly(r)
        /\ In(s) = BS <=> In(r) \notin {BS, SQ} /\ c = BS
        /\ Begins(r, c) => s.body = IF c = BQ THEN BQ ELSE ")"
        /\ ~Begins(r, c) => s.body = IF c = r.body THEN Void ELSE r.body
        /\ s.blank <=> Begins(r, c) \/ (r.blank /\ c = Blank)
        /\ r.body # Void => c \in {"x", Blank, r.body}
    BY <1>1, <1>2, StepAt
  <1>4. Exp \in exp.mode /\ exp.i = 0 => r.prev \in {"$", Lbrace}
    <2>1. SUFFICES ASSUME Exp \in exp.mode, exp.i = 0 PROVE r.prev \in {"$", Lbrace}
      OBVIOUS
    <2>2. exp.pos > 1 /\ text[exp.pos - 1] \in {"$", Lbrace}
      BY <1>1, <2>1 DEF Follows, Followed
    <2>3. exp.pos - 1 \in 1 .. Len(text)
      BY <1>2, <2>2
    <2>4. r.prev = text[exp.pos - 1]
      BY <1>1, <2>3, StepAt
    <2>. QED  BY <2>2, <2>4
  <1>5. Char = BS => exp.pos < Len(text)
    <2>1. SUFFICES ASSUME Char = BS, exp.pos = Len(text) PROVE FALSE
      BY <1>2
    <2>2. In(r) # BS
      BY <1>1, <2>1 DEF Follows, Turn, Char
    <2>3. In(reader) \in {BS, SQ}
      BY <1>3, <2>1, <2>2, CharsDiffer DEF Steps, StepsOver
    <2>4. In(reader) = Void
      BY <1>1, Zenon DEF Followed, In, Void
    <2>. QED  BY <2>3, <2>4, CharsDiffer
  <1>6. c \in scope.chars
    BY <1>1, <1>2
  <1>. HIDE DEF s, c
  <1>7. /\ r.body \in {Void, ")"} /\ (r.body # Void => c \in {"x", Blank, r.body})
        /\ In(r) = SQ => ~Doubly(r)
    BY <1>1, <1>3 DEF Sane, Clean, Follows
  <1>8. /\ Single \in exp.mode <=> In(r) = SQ
        /\ Double \in exp.mode <=> Doubly(r)
        /\ Exp \in exp.mode => Single \notin exp.mode
    BY <1>1 DEF Follows
  <1>9. In(r) = BS => Double \in exp.mode /\ Exp \notin exp.mode /\ c \notin {BS, DQ, BQ, LF}
    BY <1>1 DEF Follows, c, Char
  <1>. HIDE DEF r
  <1>10. Facing(r, s, c, exp)
    <2>1. Begins(r, c) => s.body = (IF c = BQ THEN BQ ELSE ")") /\ s.blank
      BY <1>3
    <2>2. ~Begins(r, c) => s.body \in {Void, ")"}
      BY <1>3, <1>7
    <2>. QED  BY <1>3, <1>4, <1>7, <1>8, <1>9, <2>1, <2>2 DEF Facing
  <1>. QED  BY <1>1, <1>2, <1>5, <1>6, <1>10 DEF r, s, c

\* The branches, of a character of a text that can be followed.
LEMMA BranchIs ==
    ASSUME NEW r, NEW s, Facing(r, s, Char, exp),
           Char = BS => exp.pos < Len(word)
    PROVE  /\ Branch = "quote" <=> (Char = SQ /\ ~InDouble) \/ (Char = DQ /\ ~InSingle)
           /\ Branch = "dollar" => Char = "$" /\ ~InSingle
           /\ Branch = "end" => InExp /\ Char \in {Blank, Rbrace, ")"}
           /\ Branch = "substitution" => InExp /\ exp.i = 0 /\ Char = "("
           /\ Branch = "backquote" => Char = BQ /\ ~InSingle
           /\ Branch = "escape" => Char = BS /\ exp.pos < Len(word)
           /\ Branch = "acquire" =>
                /\ InExp /\ ~InSingle /\ Char \notin {BS, BQ, DQ} /\ (Char = SQ => InDouble)
                /\ ~(exp.i = 0 /\ Char = "(")
           /\ Branch = "literal" =>
                /\ ~InExp /\ (Char = SQ => InDouble) /\ (Char = DQ => InSingle)
                /\ (Char \in {"$", BQ} => InSingle) /\ Char # BS
  <1>1. InExp => ~InSingle
    BY DEF Facing, InExp, InSingle
  <1>2. "quote" \notin {"dollar", "end", "substitution", "backquote", "escape", "acquire", "literal"}
     /\ "dollar" \notin {"quote", "end", "substitution", "backquote", "escape", "acquire", "literal"}
     /\ "end" \notin {"quote", "dollar", "substitution", "backquote", "escape", "acquire", "literal"}
     /\ "substitution" \notin {"quote", "dollar", "end", "backquote", "escape", "acquire", "literal"}
     /\ "backquote" \notin {"quote", "dollar", "end", "substitution", "escape", "acquire", "literal"}
     /\ "escape" \notin {"quote", "dollar", "end", "substitution", "backquote", "acquire", "literal"}
     /\ "acquire" \notin {"quote", "dollar", "end", "substitution", "backquote", "escape", "literal"}
    OBVIOUS
  <1>3. Branch =
    IF (Char = SQ /\ ~InDouble) \/ (Char = DQ /\ ~InSingle) THEN "quote"
    ELSE IF Char = "$" /\ ~InSingle /\ (InExp => exp.i # 0) THEN "dollar"
    ELSE IF InExp /\ Char \in {Blank, Rbrace, ")"} THEN "end"
    ELSE IF InExp /\ exp.i = 0 /\ Char = "(" THEN "substitution"
    ELSE IF Char = BQ /\ ~InSingle THEN "backquote"
    ELSE IF Char = BS /\ exp.pos < Len(word) THEN "escape"
    ELSE IF InExp /\ ~InSingle THEN "acquire"
    ELSE "literal"
    BY Zenon DEF Branch, Blank, Rbrace
  <1>. QED  BY <1>1, <1>2, <1>3

\* A step within a word keeps to the reader if the new state does.
LEMMA Went ==
    ASSUME NEW h, Followed, UNCHANGED <<lexVars, word>>, doing' \in {"expand", "read"},
           Typed(exp'), Follows(exp', h[exp'.pos - 1])
    PROVE  Expanding(h)'
  <1>1. /\ text' = text /\ phase' = phase /\ reader' = reader /\ scope' = scope
        /\ word' = word
    BY DEF lexVars
  <1>2. Followed'
    BY <1>1 DEF Followed
  <1>3. Typed(exp)'
    BY <1>1 DEF Typed, Shaped
  <1>4. Follows(exp, h[exp.pos - 1])'
    BY <1>1 DEF Follows, Doubly, In
  <1>5. doing' \notin {"idle", "done"}
    OBVIOUS
  <1>. QED  BY <1>2, <1>3, <1>4, <1>5 DEF Expanding

\* One character further.
LEMMA OneOn ==
    ASSUME NEW h, Followed, exp.pos \in 1 .. Len(text), Char = text[exp.pos],
           NEW x, Shaped(x), x.pos = exp.pos + 1, x.mode \subseteq {Exp, Single, Double, HadOne},
           x.key \in Seq(scope.chars), x.i \in 0 .. Len(x.key),
           Single \in x.mode <=> In(h[exp.pos]) = SQ, Double \in x.mode <=> Doubly(h[exp.pos]),
           Exp \in x.mode => Single \notin x.mode,
           Exp \in x.mode /\ x.i = 0 => Char \in {"$", Lbrace},
           In(h[exp.pos]) # BS, h[exp.pos].body # BQ
    PROVE  Typed(x) /\ Follows(x, h[x.pos - 1])
  <1>1. x.pos - 1 = exp.pos /\ word = text /\ x.pos > 1 /\ x.pos \in 1 .. Len(word) + 1
    BY DEF Followed
  <1>2. Typed(x)
    BY <1>1 DEF Typed
  <1>3. Follows(x, h[exp.pos])
    BY <1>1 DEF Follows
  <1>. QED  BY <1>1, <1>2, <1>3

LEMMA QuoteFollows ==
    ASSUME Reading, NEW h, Steps(h), Expanding(h), Turn, Quote, UNCHANGED lexVars
    PROVE  Expanding(h)'
  <1>. DEFINE r == h[exp.pos - 1]
              s == h[exp.pos]
              side == IF Char = SQ THEN Single ELSE Double
              m == Toggled(exp.mode, side) \cup {HadOne}
              w == [Advance(exp) EXCEPT !.mode = m]
              x == Quit(w)
  <1>1. /\ Followed /\ Typed(exp) /\ exp.pos \in 1 .. Len(text) /\ Char = text[exp.pos]
        /\ Facing(r, s, Char, exp) /\ word = text /\ (Char = BS => exp.pos < Len(word))
    BY AtTurn DEF Followed
  <1>2. Shaped(w) /\ w.pos = exp.pos + 1 /\ w.mode = m /\ w.i = exp.i /\ w.key = exp.key
    BY <1>1, AdvanceIs DEF Typed, Shaped
  <1>3. exp' = x /\ Branch = "quote" /\ UNCHANGED <<word, doing>>
    <2>1. w = [Advance(exp) EXCEPT !.mode = Toggled(@, side) \cup {HadOne}]
      BY <1>1, AdvanceIs DEF Typed
    <2>. HIDE DEF w
    <2>. QED  BY <2>1 DEF Quote, Go
  <1>. HIDE DEF w
  <1>4. /\ Shaped(x) /\ x.pos = exp.pos + 1 /\ x.mode = m \ {Exp} /\ x.i = exp.i
        /\ x.key = exp.key
    BY <1>2, QuitIs
  <1>5. (Char = SQ /\ Double \notin exp.mode) \/ (Char = DQ /\ Single \notin exp.mode)
    BY <1>1, <1>3, BranchIs DEF InDouble, InSingle
  <1>. HIDE DEF x, r, s
  <1>6. m = (IF side \in exp.mode THEN exp.mode \ {side} ELSE exp.mode \cup {side}) \cup {HadOne}
    BY DEF Toggled
  <1>7. /\ Single \in x.mode <=> In(s) = SQ
        /\ Double \in x.mode <=> Doubly(s)
        /\ Exp \notin x.mode /\ x.mode \subseteq {Exp, Single, Double, HadOne}
        /\ In(s) # BS /\ s.body # BQ
    <2>1. In(r) # BS /\ ~Begins(r, Char)
      BY <1>1, <1>5, CharsDiffer DEF Facing, Begins
    <2>2. In(s) # BS /\ s.body # BQ
      BY <1>1, <1>5, <2>1, CharsDiffer DEF Facing
    <2>3. Exp \notin x.mode /\ x.mode \subseteq {Exp, Single, Double, HadOne}
      BY <1>1, <1>4, <1>6, ModesDiffer DEF Typed
    <2>4. CASE Char = SQ
      <3>1. side = Single
        BY <2>4
      <3>2. /\ Single \in x.mode <=> Single \notin exp.mode
            /\ Double \in x.mode <=> Double \in exp.mode
        BY <1>4, <1>6, <3>1, ModesDiffer
      <3>. QED  BY <1>1, <1>5, <2>1, <2>2, <2>3, <2>4, <3>2, CharsDiffer DEF Facing
    <2>5. CASE Char = DQ
      <3>1. side = Double
        BY <2>5, CharsDiffer
      <3>2. /\ Single \in x.mode <=> Single \in exp.mode
            /\ Double \in x.mode <=> Double \notin exp.mode
        BY <1>4, <1>6, <3>1, ModesDiffer
      <3>. QED  BY <1>1, <1>5, <2>1, <2>2, <2>3, <2>5, <3>2, CharsDiffer DEF Facing
    <2>. QED  BY <1>5, <2>4, <2>5
  <1>8. Typed(x) /\ Follows(x, h[x.pos - 1])
    BY <1>1, <1>4, <1>7, OneOn DEF Typed, s
  <1>9. doing' \in {"expand", "read"}
    BY <1>3 DEF Turn
  <1>. QED  BY <1>1, <1>3, <1>8, <1>9, Went

LEMMA StartParameterFollows ==
    ASSUME Reading, NEW h, Steps(h), Expanding(h), Turn, StartParameter, UNCHANGED lexVars
    PROVE  Expanding(h)'
  <1>. DEFINE r == h[exp.pos - 1]
              s == h[exp.pos]
              w == Quit(Advance(exp))
              x == [w EXCEPT !.i = 0, !.mode = @ \cup {Exp}]
  <1>1. /\ Followed /\ Typed(exp) /\ exp.pos \in 1 .. Len(text) /\ Char = text[exp.pos]
        /\ Facing(r, s, Char, exp) /\ word = text /\ (Char = BS => exp.pos < Len(word))
    BY AtTurn DEF Followed
  <1>2. Shaped(w) /\ w.pos = exp.pos + 1 /\ w.mode = exp.mode \ {Exp} /\ w.key = exp.key
    BY <1>1, AdvanceIs, QuitIs DEF Typed
  <1>3. exp' = x /\ Branch = "dollar" /\ UNCHANGED <<word, doing>>
    BY DEF StartParameter, Go
  <1>. HIDE DEF w
  <1>4. /\ Shaped(x) /\ x.pos = exp.pos + 1 /\ x.mode = (exp.mode \ {Exp}) \cup {Exp} /\ x.i = 0
        /\ x.key = exp.key
    BY <1>2 DEF Shaped
  <1>5. Char = "$" /\ Single \notin exp.mode
    BY <1>1, <1>3, BranchIs DEF InSingle
  <1>. HIDE DEF x, r, s
  <1>6. /\ Single \in x.mode <=> In(s) = SQ
        /\ Double \in x.mode <=> Doubly(s)
        /\ Single \notin x.mode /\ x.mode \subseteq {Exp, Single, Double, HadOne}
        /\ In(s) # BS /\ s.body # BQ
    BY <1>1, <1>4, <1>5, ModesDiffer, CharsDiffer DEF Facing, Typed, Begins
  <1>7. x.i \in 0 .. Len(x.key) /\ x.key \in Seq(scope.chars)
    BY <1>1, <1>4 DEF Typed
  <1>8. Typed(x) /\ Follows(x, h[x.pos - 1])
    BY <1>1, <1>4, <1>5, <1>6, <1>7, OneOn DEF s
  <1>9. doing' \in {"expand", "read"}
    BY <1>3 DEF Turn
  <1>. QED  BY <1>1, <1>3, <1>8, <1>9, Went

LEMMA EndParameterFollows ==
    ASSUME Reading, NEW h, Steps(h), Expanding(h), Turn, EndParameter, UNCHANGED lexVars
    PROVE  Expanding(h)'
  <1>. DEFINE r == h[exp.pos - 1]
              s == h[exp.pos]
              x == Quit(Advance(exp))
  <1>1. /\ Followed /\ Typed(exp) /\ exp.pos \in 1 .. Len(text) /\ Char = text[exp.pos]
        /\ Facing(r, s, Char, exp) /\ word = text /\ (Char = BS => exp.pos < Len(word))
    BY AtTurn DEF Followed
  <1>2. exp' = x /\ Branch = "end" /\ UNCHANGED <<word, doing>>
    BY DEF EndParameter, Go
  <1>3. /\ Shaped(x) /\ x.pos = exp.pos + 1 /\ x.mode = exp.mode \ {Exp} /\ x.i = exp.i
        /\ x.key = exp.key
    BY <1>1, AdvanceIs, QuitIs DEF Typed
  <1>4. Exp \in exp.mode /\ Char \in {Blank, Rbrace, ")"}
    BY <1>1, <1>2, BranchIs DEF InExp
  <1>. HIDE DEF x, r, s
  <1>5. /\ Single \in x.mode <=> In(s) = SQ
        /\ Double \in x.mode <=> Doubly(s)
        /\ Exp \notin x.mode /\ x.mode \subseteq {Exp, Single, Double, HadOne}
        /\ In(s) # BS /\ s.body # BQ
    BY <1>1, <1>3, <1>4, ModesDiffer, CharsDiffer DEF Facing, Typed, Begins
  <1>6. Typed(x) /\ Follows(x, h[x.pos - 1])
    BY <1>1, <1>3, <1>5, OneOn DEF Typed, s
  <1>7. doing' \in {"expand", "read"}
    BY <1>2 DEF Turn
  <1>. QED  BY <1>1, <1>2, <1>6, <1>7, Went

LEMMA SkipFollows ==
    ASSUME Reading, NEW h, Steps(h), Expanding(h), Turn, Skip, UNCHANGED lexVars
    PROVE  Expanding(h)'
  <1>. DEFINE r == h[exp.pos - 1]
              s == h[exp.pos]
              x == Advance(exp)
  <1>1. /\ Followed /\ Typed(exp) /\ exp.pos \in 1 .. Len(text) /\ Char = text[exp.pos]
        /\ Facing(r, s, Char, exp) /\ word = text /\ (Char = BS => exp.pos < Len(word))
    BY AtTurn DEF Followed
  <1>2. exp' = x /\ Branch = "acquire" /\ UNCHANGED <<word, doing>> /\ Char \in {"(", Lbrace}
    BY Zenon DEF Skip, Go, Lbrace
  <1>3. /\ Shaped(x) /\ x.pos = exp.pos + 1 /\ x.mode = exp.mode /\ x.i = exp.i /\ x.key = exp.key
    BY <1>1, AdvanceIs DEF Typed
  <1>4. Exp \in exp.mode /\ ~(exp.i = 0 /\ Char = "(")
    BY <1>1, <1>2, BranchIs DEF InExp
  <1>. HIDE DEF x, r, s
  <1>5. /\ Single \in x.mode <=> In(s) = SQ
        /\ Double \in x.mode <=> Doubly(s)
        /\ Single \notin x.mode /\ x.mode \subseteq {Exp, Single, Double, HadOne}
        /\ In(s) # BS /\ s.body # BQ
    BY <1>1, <1>2, <1>3, <1>4, CharsDiffer DEF Facing, Typed
  <1>6. Typed(x) /\ Follows(x, h[x.pos - 1])
    BY <1>1, <1>2, <1>3, <1>4, <1>5, OneOn DEF Typed, s
  <1>7. doing' \in {"expand", "read"}
    BY <1>2 DEF Turn
  <1>. QED  BY <1>1, <1>2, <1>6, <1>7, Went

\* The character is met again, without a parameter.
LEMMA PutBackFollows ==
    ASSUME Reading, NEW h, Steps(h), Expanding(h), Turn, PutBack, UNCHANGED lexVars
    PROVE  Expanding(h)'
  <1>. DEFINE r == h[exp.pos - 1]
              x == exp'
  <1>1. /\ Followed /\ Typed(exp) /\ Follows(exp, r) /\ doing' = doing /\ word' = word
    BY DEF Turn, Expanding, PutBack, Go
  <1>2. /\ Shaped(Quit(exp)) /\ Quit(exp).pos = exp.pos /\ Quit(exp).mode = exp.mode \ {Exp}
        /\ Quit(exp).i = exp.i /\ Quit(exp).key = exp.key
    BY <1>1, QuitIs DEF Typed
  <1>3. x = SingleChar(Quit(exp), Char) \/ x = Quit(exp)
    BY Zenon DEF PutBack, Go
  <1>4. Alike(Quit(exp), x)
    <2>1. Alike(Quit(exp), Quit(exp))
      BY <1>2 DEF Alike
    <2>. QED  BY <1>2, <1>3, <2>1, SingleCharAlike
  <1>. HIDE DEF x
  <1>5. Shaped(x) /\ x.pos = exp.pos /\ x.mode = exp.mode \ {Exp} /\ x.i = exp.i /\ x.key = exp.key
    BY <1>2, <1>4 DEF Alike
  <1>6. Typed(x) /\ Follows(x, h[x.pos - 1])
    BY <1>1, <1>5, ModesDiffer DEF Typed, Follows
  <1>7. doing' \in {"expand", "read"}
    BY <1>1 DEF Turn
  <1>. QED  BY <1>1, <1>6, <1>7, Went DEF x

LEMMA PrefixIs ==
    ASSUME NEW S, NEW s \in Seq(S), NEW i \in 0 .. Len(s)
    PROVE  SubSeq(s, 1, i) \in Seq(S) /\ Len(SubSeq(s, 1, i)) = i
  <1>1. Len(s) \in Nat /\ \A j \in 1 .. Len(s) : s[j] \in S
    OBVIOUS
  <1>2. i \in Int /\ 1 \in Int /\ (\A j \in 1 .. i : s[j] \in S)
        /\ (IF 1 <= i THEN i - 1 + 1 ELSE 0) = i
    BY <1>1
  <1>3. SubSeq(s, 1, i) \in Seq(S)
    BY <1>2, SubSeqProperties
  <1>4. Len(SubSeq(s, 1, i)) = IF 1 <= i THEN i - 1 + 1 ELSE 0
    BY <1>2, SubSeqProperties
  <1>. QED  BY <1>2, <1>3, <1>4

LEMMA AcquireFollows ==
    ASSUME Reading, NEW h, Steps(h), Expanding(h), Turn, Acquire, UNCHANGED lexVars
    PROVE  Expanding(h)'
  <1>. DEFINE r == h[exp.pos - 1]
              s == h[exp.pos]
              key == Append(SubSeq(exp.key, 1, exp.i), Char)
              w == [Advance(exp) EXCEPT !.key = key, !.i = exp.i + 1]
              x == exp'
  <1>1. /\ Followed /\ Typed(exp) /\ exp.pos \in 1 .. Len(text) /\ Char = text[exp.pos]
        /\ Facing(r, s, Char, exp) /\ word = text /\ (Char = BS => exp.pos < Len(word))
        /\ Char \in scope.chars
    BY AtTurn DEF Followed
  <1>2. Branch = "acquire" /\ UNCHANGED <<word, doing>>
    BY DEF Acquire, Go
  <1>3. /\ Shaped(w) /\ w.pos = exp.pos + 1 /\ w.mode = exp.mode /\ w.i = exp.i + 1 /\ w.key = key
    BY <1>1, AdvanceIs DEF Typed, Shaped
  <1>4. x = [SingleChar(w, Char) EXCEPT !.mode = @ \ {Exp}] \/ x = w
    <2>1. w = [Advance(exp) EXCEPT !.key = Append(SubSeq(@, 1, exp.i), Char), !.i = @ + 1]
      BY <1>1, AdvanceIs DEF Typed, Shaped
    <2>. HIDE DEF w
    <2>. QED  BY <2>1, Zenon DEF Acquire, Go
  <1>5. key \in Seq(scope.chars) /\ Len(key) = exp.i + 1 /\ exp.i + 1 \in 0 .. Len(key)
    <2>1. /\ exp.key \in Seq(scope.chars) /\ exp.i \in 0 .. Len(exp.key)
          /\ Len(exp.key) \in Nat
      BY <1>1 DEF Typed
    <2>2. /\ SubSeq(exp.key, 1, exp.i) \in Seq(scope.chars)
          /\ Len(SubSeq(exp.key, 1, exp.i)) = exp.i
      BY <2>1, PrefixIs
    <2>. DEFINE before == SubSeq(exp.key, 1, exp.i)
    <2>3. key = Append(before, Char) /\ before \in Seq(scope.chars) /\ Len(before) = exp.i
      BY <2>2
    <2>. HIDE DEF key, before
    <2>4. key \in Seq(scope.chars) /\ Len(key) = exp.i + 1
      <3>1. Char \in scope.chars
        BY <1>1
      <3>2. \A C : \A b \in Seq(C), c \in C :
              Append(b, c) \in Seq(C) /\ Len(Append(b, c)) = Len(b) + 1
        OBVIOUS
      <3>3. Append(before, Char) \in Seq(scope.chars) /\ Len(Append(before, Char)) = Len(before) + 1
        BY <2>3, <3>1, <3>2
      <3>. QED  BY <2>3, <3>3
    <2>5. exp.i + 1 \in 0 .. exp.i + 1
      BY <2>1
    <2>. QED  BY <2>4, <2>5
  <1>. HIDE DEF w, x, key
  <1>6. /\ Shaped(x) /\ x.pos = exp.pos + 1 /\ x.mode \in {exp.mode, exp.mode \ {Exp}}
        /\ x.i = exp.i + 1 /\ x.key = key
    <2>. DEFINE y == SingleChar(w, Char)
    <2>1. Alike(w, y)
      BY <1>3, SingleCharAlike
    <2>. HIDE DEF y
    <2>2. LET z == [y EXCEPT !.mode = @ \ {Exp}] IN
          Shaped(z) /\ z.pos = y.pos /\ z.mode = y.mode \ {Exp} /\ z.i = y.i /\ z.key = y.key
      BY <2>1 DEF Alike, Shaped
    <2>. QED  BY <1>3, <1>4, <2>1, <2>2 DEF Alike, y
  <1>7. /\ Exp \in exp.mode /\ Single \notin exp.mode /\ Char \notin {BS, BQ, DQ}
        /\ Char = SQ => Double \in exp.mode
        /\ Char # "(" \/ exp.i # 0
    BY <1>1, <1>2, BranchIs DEF InExp, InSingle, InDouble
  <1>. HIDE DEF r, s
  <1>8. /\ Single \in x.mode <=> In(s) = SQ
        /\ Double \in x.mode <=> Doubly(s)
        /\ Single \notin x.mode /\ x.mode \subseteq {Exp, Single, Double, HadOne}
        /\ In(s) # BS /\ s.body # BQ
    BY <1>1, <1>6, <1>7, ModesDiffer, CharsDiffer DEF Facing, Typed, Begins
  <1>9. x.i # 0
    BY <1>1, <1>6 DEF Typed
  <1>10. Typed(x) /\ Follows(x, h[x.pos - 1])
    BY <1>1, <1>5, <1>6, <1>8, <1>9, OneOn DEF s
  <1>11. doing' \in {"expand", "read"}
    BY <1>2 DEF Turn
  <1>. QED  BY <1>1, <1>2, <1>10, <1>11, Went DEF x

LEMMA LiteralFollows ==
    ASSUME Reading, NEW h, Steps(h), Expanding(h), Turn, Literal, UNCHANGED lexVars
    PROVE  Expanding(h)'
  <1>. DEFINE r == h[exp.pos - 1]
              s == h[exp.pos]
              x == Put(Advance(exp), <<Char>>)
  <1>1. /\ Followed /\ Typed(exp) /\ exp.pos \in 1 .. Len(text) /\ Char = text[exp.pos]
        /\ Facing(r, s, Char, exp) /\ word = text /\ (Char = BS => exp.pos < Len(word))
    BY AtTurn DEF Followed
  <1>2. exp' = x /\ Branch = "literal" /\ UNCHANGED <<word, doing>>
    BY DEF Literal, Go
  <1>3. /\ Shaped(x) /\ x.pos = exp.pos + 1 /\ x.mode = exp.mode /\ x.i = exp.i /\ x.key = exp.key
    <2>1. /\ Shaped(Advance(exp)) /\ Advance(exp).pos = exp.pos + 1
          /\ Advance(exp).mode = exp.mode /\ Advance(exp).i = exp.i /\ Advance(exp).key = exp.key
      BY <1>1, AdvanceIs DEF Typed
    <2>2. Alike(Advance(exp), x)
      BY <2>1, PutAlike
    <2>. QED  BY <2>1, <2>2 DEF Alike
  <1>4. /\ Exp \notin exp.mode /\ (Char = SQ => Double \in exp.mode)
        /\ (Char = DQ => Single \in exp.mode) /\ (Char \in {"$", BQ} => Single \in exp.mode)
        /\ Char # BS
    BY <1>1, <1>2, BranchIs DEF InExp, InSingle, InDouble
  <1>5. Char = SQ => Single \notin exp.mode
    BY <1>1, <1>4 DEF Facing
  <1>. HIDE DEF x, r, s
  <1>6. /\ Single \in x.mode <=> In(s) = SQ
        /\ Double \in x.mode <=> Doubly(s)
        /\ Exp \notin x.mode /\ x.mode \subseteq {Exp, Single, Double, HadOne}
        /\ In(s) # BS /\ s.body # BQ
    <2>1. ~(Begins(r, Char) /\ Char = BQ)
      BY <1>1, <1>4, CharsDiffer DEF Facing, Begins
    <2>2. s.body # BQ
      BY <1>1, <2>1, CharsDiffer DEF Facing
    <2>3. In(s) # BS
      BY <1>1, <1>4 DEF Facing
    <2>4. Double \in exp.mode <=> Doubly(s)
      BY <1>1, <1>4 DEF Facing
    <2>5. Single \in exp.mode <=> In(s) = SQ
      BY <1>1, <1>4, <1>5, CharsDiffer DEF Facing
    <2>. QED  BY <1>1, <1>3, <1>4, <2>2, <2>3, <2>4, <2>5 DEF Typed
  <1>7. Typed(x) /\ Follows(x, h[x.pos - 1])
    BY <1>1, <1>3, <1>6, OneOn DEF Typed, s
  <1>8. doing' \in {"expand", "read"}
    BY <1>2 DEF Turn
  <1>. QED  BY <1>1, <1>2, <1>7, <1>8, Went

\* The character after a backslash is passed over if it could open or close
\* something; if not, it is left for the next turn.
LEMMA EscapeFollows ==
    ASSUME Reading, NEW h, Steps(h), Expanding(h), Turn, Escape, UNCHANGED lexVars
    PROVE  Expanding(h)'
  <1>. DEFINE r == h[exp.pos - 1]
              s == h[exp.pos]
              t == h[exp.pos + 1]
              ch == word[exp.pos + 1]
              w == Quit(Advance(exp))
              x == exp'
  <1>1. /\ Followed /\ Typed(exp) /\ exp.pos \in 1 .. Len(text) /\ Char = text[exp.pos]
        /\ Facing(r, s, Char, exp) /\ word = text /\ (Char = BS => exp.pos < Len(word))
        /\ text \in Seq(scope.chars)
    BY AtTurn DEF Followed
  <1>2. /\ Branch = "escape" /\ UNCHANGED <<word, doing>>
        /\ Escaped(ch) => \E z : x = Put(Advance(w), z)
        /\ ~Escaped(ch) => \E z : x = Put(w, z)
    BY DEF Escape
  <1>3. Char = BS /\ exp.pos < Len(word)
    BY <1>1, <1>2, BranchIs
  <1>4. exp.pos + 1 \in 1 .. Len(text) /\ exp.pos + 1 - 1 = exp.pos /\ exp.pos \in Nat
    BY <1>1, <1>3
  <1>5. /\ Doubly(t) <=> IF In(s) \notin {BS, SQ} /\ ch = DQ THEN ~Doubly(s) ELSE Doubly(s)
        /\ In(t) = SQ <=> IF In(s) = SQ THEN ch # SQ ELSE In(s) # BS /\ ch = SQ /\ ~Doubly(s)
        /\ In(t) = BS <=> In(s) \notin {BS, SQ} /\ ch = BS
        /\ ~Begins(s, ch) => t.body = IF ch = s.body THEN Void ELSE s.body
    BY <1>1, <1>4, StepAt DEF Followed
  <1>6. Shaped(w) /\ w.pos = exp.pos + 1 /\ w.mode = exp.mode \ {Exp} /\ w.i = exp.i /\ w.key = exp.key
    BY <1>1, AdvanceIs, QuitIs DEF Typed
  <1>. HIDE DEF w, x, r, s, t, ch
  <1>7. /\ Shaped(x) /\ x.pos = (IF Escaped(ch) THEN exp.pos + 1 + 1 ELSE exp.pos + 1)
        /\ x.mode = exp.mode \ {Exp} /\ x.i = exp.i /\ x.key = exp.key
    <2>1. CASE Escaped(ch)
      <3>1. Alike(Advance(w), x)
        BY <1>2, <1>6, <2>1, AdvanceIs, PutAlike
      <3>. QED  BY <1>6, <2>1, <3>1, AdvanceIs DEF Alike
    <2>2. CASE ~Escaped(ch)
      <3>1. Alike(w, x)
        BY <1>2, <1>6, <2>2, PutAlike
      <3>. QED  BY <1>6, <2>2, <3>1 DEF Alike
    <2>. QED  BY <2>1, <2>2
  <1>8. /\ Exp \notin x.mode /\ x.mode \subseteq {Exp, Single, Double, HadOne}
        /\ Single \in x.mode <=> In(r) = SQ
        /\ Double \in x.mode <=> Doubly(r)
    BY <1>1, <1>7, ModesDiffer DEF Facing, Typed
  <1>9. /\ In(r) # BS /\ (Doubly(s) <=> Doubly(r)) /\ s.body \in {Void, ")"}
        /\ In(s) = SQ <=> In(r) = SQ
        /\ In(s) = BS <=> In(r) # SQ
    BY <1>1, <1>3, CharsDiffer DEF Facing, Begins
  <1>10. Escaped(ch) <=> ch = BS \/ ~(Double \in exp.mode \/ Single \in exp.mode)
                        \/ (Double \in exp.mode /\ ch \in {DQ, BQ, LF})
    BY DEF Escaped, InDouble, InSingle
  <1>11. CASE Escaped(ch)
    <2>1. x.pos - 1 = exp.pos + 1 /\ x.pos \in 1 .. Len(word) + 1
      BY <1>1, <1>4, <1>7, <1>11
    <2>2. ~Begins(s, ch)
      BY <1>9 DEF Begins
    <2>3. In(t) # BS /\ t.body # BQ /\ (Doubly(t) <=> Doubly(r))
      BY <1>5, <1>9, <2>2, CharsDiffer
    <2>4. In(t) = SQ <=> In(r) = SQ
      <3>1. CASE In(r) = SQ
        <4>1. Single \in exp.mode /\ Double \notin exp.mode
          BY <1>1, <3>1 DEF Facing
        <4>2. ch # SQ
          BY <1>10, <1>11, <4>1, CharsDiffer
        <4>. QED  BY <1>5, <1>9, <3>1, <4>2
      <3>2. CASE In(r) # SQ
        BY <1>5, <1>9, <3>2, CharsDiffer
      <3>. QED  BY <3>1, <3>2
    <2>5. Typed(x) /\ Follows(x, t)
      BY <1>1, <1>7, <1>8, <2>1, <2>3, <2>4 DEF Typed, Follows
    <2>6. h[x.pos - 1] = t
      BY <2>1 DEF t
    <2>. QED  BY <1>1, <1>2, <2>5, <2>6, Went DEF x, Turn
  <1>12. CASE ~Escaped(ch)
    <2>1. x.pos - 1 = exp.pos /\ x.pos \in 1 .. Len(word) + 1 /\ x.pos <= Len(word)
      BY <1>1, <1>4, <1>7, <1>12
    <2>2. word[x.pos] = ch
      BY <1>7, <1>12 DEF ch
    <2>3. In(s) = BS => Double \in x.mode /\ ch \notin {BS, DQ, BQ, LF}
      BY <1>1, <1>8, <1>9, <1>10, <1>12 DEF Facing
    <2>4. s.body # BQ
      BY <1>9, CharsDiffer
    <2>5. Typed(x) /\ Follows(x, s)
      BY <1>1, <1>7, <1>8, <1>9, <2>1, <2>2, <2>3, <2>4 DEF Typed, Follows
    <2>6. h[x.pos - 1] = s
      BY <2>1 DEF s
    <2>. QED  BY <1>1, <1>2, <2>5, <2>6, Went DEF x, Turn
  <1>. QED  BY <1>11, <1>12

\* Where a command substitution ends.
LEMMA SubstitutionEnds ==
    ASSUME Reading, NEW h, Steps(h), Expanding(h), Turn,
           Branch \in {"substitution", "backquote"}
    PROVE  /\ Closing \in exp.pos + 1 .. Len(word)
           /\ \A n \in {Closing - 1, Closing} :
                /\ In(h[n]) \notin {SQ, BS} /\ (Doubly(h[n]) <=> Double \in exp.mode)
                /\ h[n].body # BQ \/ (Char = BQ /\ n = Closing - 1)
           /\ Single \notin exp.mode
           /\ EmptyCommand => Char # BQ
  <1>. DEFINE r == h[exp.pos - 1]
              s == h[exp.pos]
              b == IF Char = BQ THEN BQ ELSE ")"
  <1>1. /\ Followed /\ Typed(exp) /\ exp.pos \in 1 .. Len(text) /\ Char = text[exp.pos]
        /\ Facing(r, s, Char, exp) /\ word = text /\ (Char = BS => exp.pos < Len(word))
        /\ text \in Seq(scope.chars) /\ ~reader.hard /\ reader.body = Void
    BY AtTurn DEF Followed
  <1>2. \/ Exp \in exp.mode /\ exp.i = 0 /\ Char = "("
        \/ Char = BQ /\ Single \notin exp.mode
    BY <1>1, BranchIs DEF InExp, InSingle
  <1>. HIDE DEF r, s
  <1>3. Single \notin exp.mode /\ Begins(r, Char) /\ (Doubly(s) <=> Doubly(r))
    BY <1>1, <1>2, CharsDiffer DEF Facing, Begins
  <1>4. s.body = b /\ s.blank /\ b # Void /\ (Doubly(s) <=> Double \in exp.mode)
    BY <1>1, <1>2, <1>3, CharsDiffer DEF Facing
  <1>. HIDE DEF b
  <1>5. PICK n \in exp.pos + 1 .. Len(text) :
             /\ text[n] = b /\ \A i \in exp.pos + 1 .. n - 1 : text[i] # b
             /\ h[n - 1].body = b /\ h[n].body = Void
             /\ {In(h[n - 1]), In(h[n])} \cap {SQ, BS} = {}
             /\ Doubly(h[n - 1]) <=> Doubly(s)
             /\ Doubly(h[n]) <=> Doubly(s)
             /\ s.blank /\ (\A i \in exp.pos + 1 .. n - 1 : text[i] = Blank) => h[n - 1].blank
    <2>1. exp.pos \in 1 .. Len(text) /\ s.body # Void /\ Steps(h)
      BY <1>1, <1>4
    <2>2. PICK n \in exp.pos + 1 .. Len(text) :
             /\ text[n] = s.body /\ \A i \in exp.pos + 1 .. n - 1 : text[i] # s.body
             /\ h[n - 1].body = s.body /\ h[n].body = Void
             /\ {In(h[n - 1]), In(h[n])} \cap {SQ, BS} = {}
             /\ Doubly(h[n - 1]) <=> Doubly(s)
             /\ Doubly(h[n]) <=> Doubly(s)
             /\ s.blank /\ (\A i \in exp.pos + 1 .. n - 1 : text[i] = Blank) => h[n - 1].blank
      BY <1>1, <2>1, BodyEnds DEF s
    <2>. QED  BY <1>4, <2>2
  <1>6. Closing = n
    <2>. DEFINE ends == {m \in exp.pos + 1 .. Len(word) : word[m] = b}
    <2>1. Closing = CHOOSE m \in ends : \A k \in ends : m <= k
      BY DEF Closing, b
    <2>2. n \in ends
      BY <1>1, <1>5
    <2>3. \A m \in ends : n <= m
      BY <1>1, <1>5
    <2>4. \A m \in ends : m \in Nat
      BY <1>1
    <2>5. \A m \in ends : (\A k \in ends : m <= k) => m = n
      BY <2>2, <2>3, <2>4
    <2>. HIDE DEF ends
    <2>. QED  BY <2>1, <2>2, <2>3, <2>5
  <1>7. EmptyCommand => Char # BQ
    <2>1. SUFFICES ASSUME EmptyCommand, Char = BQ PROVE FALSE
      OBVIOUS
    <2>2. \A i \in exp.pos + 1 .. n - 1 : text[i] = Blank
      BY <1>1, <1>6, <2>1, Zenon DEF EmptyCommand, Blank
    <2>3. h[n - 1].blank /\ h[n - 1].body = BQ /\ text[n] = BQ
      BY <1>4, <1>5, <2>1, <2>2 DEF b
    <2>4. n \in 1 .. Len(text)
      BY <1>1
    <2>. QED  BY <1>1, <2>3, <2>4, StepAt
  <1>8. /\ h[n - 1].body # BQ \/ Char = BQ
        /\ h[n].body # BQ
    BY <1>5, CharsDiffer DEF b
  <1>. QED  BY <1>1, <1>3, <1>4, <1>5, <1>6, <1>7, <1>8

\* symexp.c jumps over a command, to where as many quotes are open.
LEMMA SubstitutionFollows ==
    ASSUME Reading, NEW h, Steps(h), Expanding(h), Turn, SubstituteNothing \/ Substitute,
           UNCHANGED lexVars
    PROVE  Expanding(h)'
  <1>. DEFINE x == exp'
  <1>1. /\ Followed /\ Typed(exp) /\ word' = word /\ doing' \in {"expand", "read"}
        /\ Branch \in {"substitution", "backquote"}
    BY AtTurn DEF SubstituteNothing, Substitute, Turn
  <1>2. /\ Closing \in exp.pos + 1 .. Len(word)
        /\ \A n \in {Closing - 1, Closing} :
             /\ In(h[n]) \notin {SQ, BS} /\ (Doubly(h[n]) <=> Double \in exp.mode)
             /\ h[n].body # BQ \/ (Char = BQ /\ n = Closing - 1)
        /\ Single \notin exp.mode
        /\ EmptyCommand => Char # BQ
    BY <1>1, SubstitutionEnds
  <1>3. /\ Shaped(Opened) /\ Opened.mode = exp.mode \ {Exp} /\ Opened.i = exp.i
        /\ Opened.key = exp.key
    <2>. DEFINE y == IF Char = BQ THEN Quit(exp) ELSE exp
    <2>1. Shaped(y) /\ y.mode \ {Exp} = exp.mode \ {Exp} /\ y.i = exp.i /\ y.key = exp.key
      BY <1>1, QuitIs DEF Typed
    <2>2. Opened = [y EXCEPT !.mode = y.mode \ {Exp}]
      BY <2>1 DEF Opened, Shaped
    <2>. HIDE DEF y
    <2>. QED  BY <2>1, <2>2 DEF Shaped
  <1>4. /\ Shaped(x) /\ x.mode = exp.mode \ {Exp} /\ x.i = exp.i /\ x.key = exp.key
        /\ x.pos = Closing + 1 \/ (x.pos = Closing /\ EmptyCommand)
    <2>1. CASE SubstituteNothing
      BY <1>3, <2>1 DEF SubstituteNothing, Shaped
    <2>2. CASE Substitute
      BY <1>3, <2>2 DEF Substitute, Shaped
    <2>. QED  BY <2>1, <2>2
  <1>. HIDE DEF x
  <1>5. x.pos \in 1 .. Len(word) + 1 /\ x.pos - 1 \in {Closing - 1, Closing}
    <2>1. Closing \in 1 .. Len(word) /\ Closing + 1 \in 1 .. Len(word) + 1 /\ Closing + 1 - 1 = Closing
          /\ Closing \in 1 .. Len(word) + 1
      BY <1>1, <1>2 DEF Typed
    <2>. QED  BY <1>4, <2>1
  <1>6. h[x.pos - 1].body # BQ
    <2>1. Closing + 1 - 1 # Closing - 1
      BY <1>2
    <2>. QED  BY <1>2, <1>4, <1>5, <2>1
  <1>7. Typed(x)
    BY <1>1, <1>4, <1>5 DEF Typed
  <1>8. In(h[x.pos - 1]) \notin {SQ, BS} /\ (Doubly(h[x.pos - 1]) <=> Double \in exp.mode)
    BY <1>2, <1>5
  <1>9. Follows(x, h[x.pos - 1])
    <2>. DEFINE r == h[x.pos - 1]
    <2>1. In(r) \notin {SQ, BS} /\ (Doubly(r) <=> Double \in exp.mode) /\ r.body # BQ
      BY <1>6, <1>8
    <2>2. Single \notin x.mode /\ Exp \notin x.mode /\ (Double \in x.mode <=> Double \in exp.mode)
      BY <1>2, <1>4, ModesDiffer
    <2>. HIDE DEF r
    <2>3. Follows(x, r)
      BY <2>1, <2>2 DEF Follows
    <2>. QED  BY <2>3 DEF r
  <1>. QED  BY <1>1, <1>7, <1>9, Went DEF x

LEMMA ReadFollows ==
    ASSUME NEW h, Expanding(h), ReadByte \/ EndRead, UNCHANGED lexVars
    PROVE  Expanding(h)'
  <1>. DEFINE x == exp'
  <1>1. /\ Followed /\ Typed(exp) /\ Follows(exp, h[exp.pos - 1])
        /\ word' = word /\ doing' \in {"expand", "read"}
    BY DEF ReadByte, EndRead, Expanding
  <1>2. Alike(exp, x)
    <2>1. CASE ReadByte
      <3>1. PICK b \in {"o"} \cup Separator :
              exp' = IF b \in Separator THEN [exp EXCEPT !.blanks = TRUE]
                     ELSE Put([Reached(exp) EXCEPT !.blanks = FALSE], <<b>>)
        BY <2>1, Zenon DEF ReadByte
      <3>2. Alike(exp, [exp EXCEPT !.blanks = TRUE])
        BY <1>1 DEF Typed, Shaped, Alike
      <3>. DEFINE y == [Reached(exp) EXCEPT !.blanks = FALSE]
      <3>3. Alike(exp, Reached(exp))
        BY <1>1, ReachedAlike DEF Typed
      <3>4. Alike(exp, y)
        BY <3>3 DEF Shaped, Alike
      <3>. HIDE DEF y
      <3>5. Alike(y, Put(y, <<b>>))
        BY <3>4, PutAlike DEF Alike
      <3>6. x = [exp EXCEPT !.blanks = TRUE] \/ x = Put(y, <<b>>)
        BY <3>1, Zenon DEF y
      <3>7. Alike(exp, Put(y, <<b>>))
        BY <3>4, <3>5 DEF Alike
      <3>. QED  BY <3>2, <3>6, <3>7
    <2>2. CASE EndRead
      BY <1>1, <2>2 DEF EndRead, Alike, Typed
    <2>. QED  BY <2>1, <2>2
  <1>. HIDE DEF x
  <1>3. Typed(x) /\ Follows(x, h[x.pos - 1])
    BY <1>1, <1>2 DEF Alike, Typed, Follows
  <1>. QED  BY <1>1, <1>3, Went DEF x

LEMMA FinishFollows ==
    ASSUME Reading, NEW h, Steps(h), Expanding(h), Finish, UNCHANGED lexVars
    PROVE  Expanding(h)'
  <1>. DEFINE y == Quit(exp)
  <1>1. /\ Followed /\ Typed(exp) /\ Follows(exp, h[exp.pos - 1])
        /\ word' = word /\ doing' = "done" /\ text \in Seq(scope.chars)
        /\ exp.pos > Len(word)
    BY DEF Finish, Expanding, Reading
  <1>2. h[exp.pos - 1] = reader
    <2>1. Len(text) \in Nat /\ word = text
      BY <1>1 DEF Followed
    <2>2. exp.pos - 1 = Len(text)
      BY <1>1, <2>1 DEF Typed
    <2>. QED  BY <2>2 DEF Steps, StepsOver
  <1>3. In(reader) = Void /\ ~Doubly(reader)
    <2>1. reader.open = <<>>
      BY <1>1 DEF Followed
    <2>2. In(reader) = Void
      BY <2>1, Zenon DEF In, Void
    <2>. QED  BY <2>1, <2>2 DEF Doubly, ToSet
  <1>4. Single \notin exp.mode /\ Double \notin exp.mode
    BY <1>1, <1>2, <1>3, CharsDiffer DEF Follows
  <1>5. Shaped(y) /\ y.pos = exp.pos /\ y.mode = exp.mode \ {Exp} /\ y.i = exp.i /\ y.key = exp.key
    BY <1>1, QuitIs DEF Typed
  <1>6. exp' = ToDest(y) \/ exp' = y
    BY Zenon DEF Finish
  <1>. HIDE DEF y
  <1>7. Alike(y, exp')
    <2>1. Alike(y, y)
      BY <1>5 DEF Alike
    <2>. QED  BY <1>5, <1>6, <2>1, ToDestAlike
  <1>8. Typed(exp')
    BY <1>1, <1>5, <1>7 DEF Alike, Typed
  <1>9. exp'.mode \subseteq {HadOne}
    BY <1>1, <1>4, <1>5, <1>7 DEF Alike, Typed
  <1>10. /\ text' = text /\ phase' = phase /\ reader' = reader /\ scope' = scope
    BY DEF lexVars
  <1>11. Followed' /\ Typed(exp)'
    BY <1>1, <1>8, <1>10 DEF Followed, Typed, Shaped
  <1>12. doing' \notin {"idle", "expand", "read"}
    BY <1>1
  <1>. QED  BY <1>1, <1>9, <1>11, <1>12 DEF Expanding

----------------------------------------------------------------------------
(* From the first character to the last *)

\* The lexer gives symexp.c words in which nothing is left open.
LEMMA NothingLeft ==
    ASSUME Longest, NEW h, Steps(h), phase = "done", next = EOF, ~reader.doubt
    PROVE  reader.open = <<>>
  <1>1. CASE text # Don
    <2>1. text # <<"d", "o", "n">>
      BY <1>1 DEF Don
    <2>2. phase # "error"
      OBVIOUS
    <2>. QED  BY <2>1 DEF Longest, TokenIsLongest
  <1>2. CASE text = Don
    <2>1. /\ Len(text) = 3 /\ text[1] = "d" /\ text[2] = "o" /\ text[3] = "n"
          /\ 1 \in 1 .. 3 /\ 2 \in 1 .. 3 /\ 3 \in 1 .. 3
      BY <1>2 DEF Don
    <2>2. /\ h[0] = NewReader /\ h[3] = reader
          /\ h[1] = Read(h[0], "d") /\ h[2] = Read(h[1], "o") /\ h[3] = Read(h[2], "n")
      BY <2>1 DEF Steps, StepsOver
    <2>3. /\ {"d", "o", "n"} \cap {BS, SQ, DQ, BQ, "(", ")", Lbrace, Rbrace} = {}
          /\ Void \notin {BS, SQ}
      BY Zenon DEF BS, SQ, DQ, BQ, Lbrace, Rbrace, Void
    <2>4. ASSUME NEW r, r.open = <<>>, NEW c \in {"d", "o", "n"} PROVE Read(r, c).open = <<>>
      <3>1. In(r) = Void
        BY <2>4, Zenon DEF In, Void
      <3>. QED  BY <2>3, <2>4, <3>1, OpenIs
    <2>5. h[0].open = <<>>
      <3>1. NewReader.open = <<>>
        BY Zenon DEF NewReader
      <3>. QED  BY <2>2, <3>1
    <2>6. h[1].open = <<>>
      BY <2>2, <2>4, <2>5
    <2>7. h[2].open = <<>>
      BY <2>2, <2>4, <2>6
    <2>. QED  BY <2>2, <2>4, <2>7
  <1>. QED  BY <1>1, <1>2

LEMMA BeginFollows ==
    ASSUME Longest, NEW h, Steps(h), Expanding(h), Expand, UNCHANGED lexVars
    PROVE  Expanding(h)'
  <1>1. /\ phase = "done" /\ next = EOF /\ ~reader.doubt /\ ~reader.hard /\ reader.body = Void
        /\ word' = text /\ (\E args : exp' = [NewExp EXCEPT !.args = args]) /\ doing' = "expand" /\ text \in Seq(scope.chars)
    BY Zenon DEF Expand, Begin, Void, Longest, Reading
  <1>2. /\ text' = text /\ phase' = phase /\ reader' = reader /\ scope' = scope
    BY DEF lexVars
  <1>3. Followed'
    BY <1>1, <1>2, NothingLeft DEF Followed
  <1>4. Shaped(exp') /\ exp'.pos = 1 /\ exp'.mode = {} /\ exp'.i = 0 /\ exp'.key = <<>>
    BY <1>1 DEF NewExp, Shaped
  <1>5. Len(text) \in Nat /\ 1 \in 1 .. Len(text) + 1 /\ <<>> \in Seq(scope.chars)
        /\ 0 \in 0 .. Len(<<>>)
    BY <1>1
  <1>6. Typed(exp)'
    BY <1>1, <1>2, <1>4, <1>5 DEF Typed, Shaped
  <1>7. h[0] = NewReader /\ NewReader.body = Void /\ In(NewReader) = Void /\ ~Doubly(NewReader)
    <2>1. NewReader.open = <<>> /\ NewReader.body = Void
      BY Zenon DEF NewReader, Void
    <2>2. In(NewReader) = Void
      BY <2>1, Zenon DEF In, Void
    <2>3. ~Doubly(NewReader)
      BY <2>1 DEF Doubly, ToSet
    <2>. QED  BY <2>1, <2>2, <2>3 DEF Steps, StepsOver
  <1>8. Follows(exp', h[exp'.pos - 1])
    <2>1. exp'.pos - 1 = 0 /\ exp'.mode = {}
      BY <1>1, <1>4
    <2>. QED  BY <1>7, <2>1, CharsDiffer DEF Follows
  <1>9. Follows(exp, h[exp.pos - 1])'
    <2>. DEFINE x == exp'
                r == h[exp'.pos - 1]
    <2>1. x.mode = {} /\ In(r) \notin {SQ, BS} /\ ~Doubly(r) /\ r.body # BQ
      <3>1. exp'.pos - 1 = 0 /\ exp'.mode = {}
        BY <1>1, <1>4
      <3>. QED  BY <1>7, <3>1, CharsDiffer
    <2>. QED  BY <2>1 DEF Follows, Doubly, In
  <1>10. doing' \notin {"idle", "done"}
    BY <1>1
  <1>. QED  BY <1>1, <1>3, <1>6, <1>9, <1>10 DEF Expanding

\* The lexer's account, and for the expansion the reader at every character.
Following == Longest /\ \E h : Steps(h) /\ Expanding(h)

LEMMA InitFollowing == Init => Following
  <1>1. SUFFICES ASSUME Init PROVE Following
    OBVIOUS
  <1>2. PICK h : Steps(h)
    BY <1>1, InitSteps
  <1>3. doing = "idle" /\ word = <<>> /\ exp = NewExp
    BY <1>1 DEF Init, ExpInit
  <1>4. Expanding(h)
    BY <1>3 DEF Expanding
  <1>. QED  BY <1>1, <1>2, <1>4, InitLongest DEF Following

\* Every action of symexp.c keeps to the reader.
LEMMA ExpandingStays ==
    ASSUME Longest, NEW h, Steps(h), Expanding(h), UNCHANGED lexVars, Expand \/ ExpNext
    PROVE  Expanding(h)'
  <1>1. Reading
    BY DEF Longest
  <1>2. CASE Expand
    BY <1>2, BeginFollows
  <1>3. CASE ReadByte \/ EndRead
    BY <1>3, ReadFollows
  <1>4. CASE Finish
    BY <1>1, <1>4, FinishFollows
  <1>5. CASE Turn /\ (Quote \/ StartParameter \/ EndParameter)
    BY <1>1, <1>5, QuoteFollows, StartParameterFollows, EndParameterFollows
  <1>6. CASE Turn /\ (SubstituteNothing \/ Substitute \/ Escape)
    BY <1>1, <1>6, SubstitutionFollows, EscapeFollows
  <1>7. CASE Turn /\ (Skip \/ PutBack \/ Acquire \/ Literal)
    BY <1>1, <1>7, SkipFollows, PutBackFollows, AcquireFollows, LiteralFollows
  <1>. QED  BY <1>2, <1>3, <1>4, <1>5, <1>6, <1>7 DEF ExpNext

LEMMA FollowingStep == Following /\ [Next]_vars => Following'
  <1>1. SUFFICES ASSUME Following, [Next]_vars PROVE Following'
    OBVIOUS
  <1>2. Longest /\ Longest' /\ text \in Seq(scope.chars)
    BY <1>1, LongestStep DEF Following, Longest, Reading
  <1>3. PICK h : Steps(h) /\ Expanding(h)
    BY <1>1 DEF Following
  <1>4. CASE (Expand \/ ExpNext) /\ UNCHANGED lexVars
    <2>1. Expanding(h)'
      BY <1>2, <1>3, <1>4, ExpandingStays
    <2>2. Steps(h)'
      BY <1>3, <1>4 DEF Steps, lexVars
    <2>. QED  BY <1>2, <2>1, <2>2 DEF Following
  <1>5. CASE LexNext /\ UNCHANGED expVars
    <2>1. phase = "lex" /\ doing' = doing /\ word' = word /\ exp' = exp
      BY <1>5 DEF LexNext, Lex, EndToken, EndLF, EndEOF, expVars
    <2>2. doing = "idle"
      BY <1>3, <2>1 DEF Expanding, Followed
    <2>3. ASSUME NEW g PROVE Expanding(g)'
      BY <1>3, <2>1, <2>2 DEF Expanding
    <2>4. \E g : Steps(g)'
      <3>1. CASE Lex
        <4>1. PICK c : text' = Append(text, c) /\ reader' = Read(reader, c)
          BY <3>1 DEF Lex, Push
        <4>. QED  BY <1>2, <1>3, <4>1, StepsGrow
      <3>2. CASE UNCHANGED <<text, reader>>
        <4>1. Steps(h)'
          BY <1>3, <3>2 DEF Steps
        <4>. QED  BY <4>1
      <3>. QED  BY <1>5, <3>1, <3>2 DEF LexNext, EndToken, EndLF, EndEOF
    <2>. QED  BY <1>2, <2>3, <2>4 DEF Following
  <1>6. CASE UNCHANGED vars
    <2>1. Steps(h)' /\ Expanding(h)'
      BY <1>3, <1>6 DEF Steps, Expanding, Followed, Typed, Follows, vars, lexVars, expVars
    <2>. QED  BY <1>2, <2>1 DEF Following
  <1>. QED  BY <1>1, <1>4, <1>5, <1>6 DEF Next

\* symexp.c, with its flags for single and double quotes, ends every word it is
\* given outside of quotes, as the lexer did that collected it.
THEOREM QuotesFollowed == Spec => []QuotesAgree
  <1>1. Following => QuotesAgree
    BY DEF Following, Expanding, QuotesAgree
  <1>. QED  BY <1>1, InitFollowing, FollowingStep, PTL DEF Spec

\* The text is as long as its scope allows; the token is one there is.
Sized ==
    /\ scope \in Scopes /\ text \in Seq(scope.chars) /\ Len(text) <= scope.length
    /\ token \in Fixed \cup {T_EOF, T_WORD, T_ASSIGN, T_IONUMBER}
    /\ phase \in {"lex", "done", "error"}

LEMMA InitSized == Init => Sized
  <1>1. ASSUME Init PROVE Sized
    <2>1. scope \in Scopes /\ text = <<>> /\ token = T_EOF /\ phase = "lex"
      BY <1>1 DEF Init, LexInit
    <2>2. scope.length \in Nat
      BY <2>1, ScopesAssumption
    <2>3. <<>> \in Seq(scope.chars) /\ Len(<<>>) = 0
      OBVIOUS
    <2>. QED  BY <2>1, <2>2, <2>3 DEF Sized
  <1>. QED  BY <1>1

LEMMA SizedStep == Sized /\ [Next]_vars => Sized'
  <1>1. SUFFICES ASSUME Sized, [Next]_vars PROVE Sized'
    OBVIOUS
  <1>. DEFINE Tokens == Fixed \cup {T_EOF, T_WORD, T_ASSIGN, T_IONUMBER}
  <1>2. ASSUME NEW c PROVE Evalword(c) \in Tokens
    BY <1>1 DEF Sized, Evalword
  <1>3. CASE Lex
    <2>1. PICK c \in Input : text' = Append(text, c) /\ token' = Collected(c)
      BY <1>3 DEF Lex, Push
    <2>2. UNCHANGED <<scope, phase>>
      BY <1>3 DEF Lex
    <2>3. c \in scope.chars /\ Len(text) # scope.length
      BY <2>1 DEF Input
    <2>4. scope.length \in Nat
      BY <1>1, ScopesAssumption DEF Sized
    <2>5. text' \in Seq(scope.chars) /\ Len(text') = Len(text) + 1 /\ Len(text) \in Nat
      BY <1>1, <2>1, <2>3 DEF Sized
    <2>6. Len(text') <= scope.length
      BY <1>1, <2>3, <2>4, <2>5 DEF Sized
    <2>7. Collected(c) \in Tokens
      BY <1>1 DEF Collected, Sized
    <2>. QED  BY <1>1, <2>1, <2>2, <2>5, <2>6, <2>7 DEF Sized
  <1>4. CASE EndToken \/ EndLF \/ EndEOF
    <2>1. UNCHANGED <<scope, text>> /\ phase' \in {"done", "error"}
      BY <1>4 DEF EndToken, EndLF, EndEOF
    <2>2. token' = token \/ \E c : token' = Evalword(c)
      BY <1>4 DEF EndToken, EndLF, EndEOF
    <2>3. token' \in Tokens
      BY <1>1, <1>2, <2>2 DEF Sized
    <2>. QED  BY <1>1, <2>1, <2>3 DEF Sized
  <1>5. CASE UNCHANGED lexVars
    BY <1>1, <1>5 DEF Sized, lexVars
  <1>. QED  BY <1>1, <1>3, <1>4, <1>5 DEF Next, LexNext, vars

\* Both machines keep their types: the next character of symexp_word is in the
\* word or just after it, its key has what it counts of it, whatever the word.
THEOREM WordsTyped == Spec => []TypeOK
  <1>1. ASSUME Following, Sized PROVE TypeOK
    <2>1. frames # <<>> /\ frames \in Seq(FrameSet)
      BY <1>1 DEF Following, Longest, Modal, Nested
    <2>2. \A i \in DOMAIN frames : frames[i].mode \subseteq Modes
      <3>1. \A i \in DOMAIN frames : frames[i] \in FrameSet
        BY <2>1
      <3>2. \A f \in FrameSet : f.mode \subseteq Modes
        BY DEF FrameSet
      <3>. QED  BY <3>1, <3>2
    <2>3. LexTypeOK
      BY <1>1, <2>1, <2>2 DEF LexTypeOK, Sized, Modes
    <2>4. PICK h : Expanding(h)
      BY <1>1 DEF Following
    <2>5. CASE doing = "idle"
      <3>1. NewExp.pos = 1 /\ NewExp.i = 0 /\ NewExp.key = <<>> /\ NewExp.mode = {}
        BY DEF NewExp
      <3>2. exp = NewExp /\ word = <<>>
        BY <2>4, <2>5 DEF Expanding
      <3>3. Len(<<>>) = 0 /\ 1 \in 1 .. 0 + 1 /\ 0 \in 0 .. 0
        OBVIOUS
      <3>. QED  BY <2>3, <2>5, <3>1, <3>2, <3>3 DEF TypeOK
    <2>6. CASE doing # "idle"
      BY <2>3, <2>4, <2>6 DEF TypeOK, Expanding, Followed, Typed
    <2>. QED  BY <2>5, <2>6
  <1>. QED  BY <1>1, InitFollowing, FollowingStep, InitSized, SizedStep, PTL DEF Spec

=============================================================================
