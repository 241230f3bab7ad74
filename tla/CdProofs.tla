------------------------------ MODULE CdProofs ------------------------------
(***************************************************************************)
(* Theorems about Cd, for every tree of directories, every argument over   *)
(* any characters, and any number of calls and subshells.                  *)
(*                                                                         *)
(* First, the C environment and the running table name the directory the   *)
(* process is in; nothing is used for it of what __join_dirs makes of a    *)
(* path, only that chdir(2) went where it says.                            *)
(*                                                                         *)
(* Then that path.  Reads(h, t) says that h[i] is what i characters of the *)
(* text t lead to.  Cutting from a text what lies between two slashes that *)
(* lead to the same changes nothing of where it leads (Spliced), and the   *)
(* three cases of the loop are such cuts.  Ahead of the cursor no name is  *)
(* void or dots (Normal), which makes `..` the opposite of the name before *)
(* it, and at the end makes the text the one its names spell (Spelled).    *)
(* Induction over positions is by the least one at which a claim fails:    *)
(* LeastExists, GoesOn.                                                    *)
(***************************************************************************)
EXTENDS Cd, SequenceTheorems, NaturalsInduction, WellFoundedInduction, TLAPS

IsSequence(s) == \E S : s \in Seq(S)

Entry(pwd, old, behind) == [PWD |-> pwd, OLDPWD |-> old, behind |-> behind]

IsEntry(t) == t = Entry(t.PWD, t.OLDPWD, t.behind)

\* There is always a table: the shell's own is never given back.
Shaped ==
    /\ IsSequence(tables) /\ Len(tables) # 0
    /\ \A i \in 1 .. Len(tables) : IsEntry(tables[i])
    /\ was \in Seq(Dirs) /\ cwd \in Dirs
    /\ call = [phase |-> call.phase, dir |-> call.dir, dest |-> call.dest,
               seek |-> call.seek, old |-> call.old]

\* PWD in the environment is true after a move, and OLDPWD after two.
EnvTrue ==
    /\ was # <<>> => env.PWD = Text(cwd)
    /\ Len(was) > 1 => env.OLDPWD = Text(Last(was))

\* A call under way remembers where the process still is, or is told to be.
CallRemembers == call.phase \in {"join", "joined"} => call.old = WorkingDirectory

\* A table that is not behind, the running one or one to be given back, says
\* what the environment says.
TablesTrue ==
    \A i \in 1 .. Len(tables) :
        ~tables[i].behind => tables[i] = Entry(env.PWD, env.OLDPWD, FALSE)

Inv == Shaped /\ EnvTrue /\ CallRemembers /\ TablesTrue

----------------------------------------------------------------------------
(* Sequences of anything *)

LEMMA Appended ==
    ASSUME NEW s, IsSequence(s), NEW e
    PROVE  /\ IsSequence(Append(s, e)) /\ Len(s) \in Nat
           /\ Len(Append(s, e)) = Len(s) + 1
           /\ Append(s, e)[Len(s) + 1] = e
           /\ \A i \in 1 .. Len(s) : Append(s, e)[i] = s[i]
  <1>1. PICK S : s \in Seq(S)
    BY DEF IsSequence
  <1>2. s \in Seq(S \cup {e}) /\ e \in S \cup {e}
    BY <1>1
  <1>3. Append(s, e) \in Seq(S \cup {e})
    BY <1>2
  <1>4. IsSequence(Append(s, e))
    BY <1>3 DEF IsSequence
  <1>. QED  BY <1>1, <1>2, <1>4

LEMMA Fronted ==
    ASSUME NEW s, IsSequence(s), Len(s) > 1
    PROVE  /\ IsSequence(Front(s)) /\ Len(s) \in Nat
           /\ Len(Front(s)) = Len(s) - 1
           /\ \A i \in 1 .. Len(s) - 1 : Front(s)[i] = s[i]
  <1>1. PICK S : s \in Seq(S)
    BY DEF IsSequence
  <1>2. Front(s) \in Seq(S)
    BY <1>1 DEF Front
  <1>3. IsSequence(Front(s))
    BY <1>2 DEF IsSequence
  <1>. QED  BY <1>1, <1>3 DEF Front

LEMMA Replaced ==
    ASSUME NEW s, IsSequence(s), NEW t, t = [i \in 1 .. Len(s) |-> t[i]]
    PROVE  /\ IsSequence(t) /\ Len(t) = Len(s)
  <1>1. PICK S : s \in Seq(S)
    BY DEF IsSequence
  <1>2. Len(s) \in Nat
    BY <1>1
  <1>3. ASSUME NEW R, \A i \in 1 .. Len(s) : t[i] \in R
        PROVE  t \in Seq(R) /\ Len(t) = Len(s)
    BY <1>2, <1>3
  <1>4. \A i \in 1 .. Len(s) : t[i] \in {t[j] : j \in 1 .. Len(s)}
    OBVIOUS
  <1>5. t \in Seq({t[j] : j \in 1 .. Len(s)}) /\ Len(t) = Len(s)
    BY <1>3, <1>4
  <1>. QED  BY <1>5 DEF IsSequence

LEMMA DomainIs ==
    ASSUME NEW s, IsSequence(s)
    PROVE  DOMAIN s = 1 .. Len(s) /\ Len(s) \in Nat
  BY DEF IsSequence

----------------------------------------------------------------------------
(* Every step keeps the invariant *)

LEMMA InitInv ==
    ASSUME Init
    PROVE  Inv
  <1>1. cwd \in Dirs /\ was = <<>> /\ Len(<<>>) = 0
        /\ tables = <<Entry(env.PWD, env.OLDPWD, FALSE)>> /\ call = Idle
    BY DEF Init, Entry
  <1>2. IsSequence(tables) /\ Len(tables) = 1
    <2>1. ASSUME NEW e
          PROVE  <<e>> \in Seq({e}) /\ Len(<<e>>) = 1
      OBVIOUS
    <2>2. ASSUME NEW e, tables = <<e>>
          PROVE  IsSequence(tables) /\ Len(tables) = 1
      BY <2>1, <2>2 DEF IsSequence
    <2>. QED  BY <1>1, <2>2
  <1>3. tables[1] = Entry(env.PWD, env.OLDPWD, FALSE)
    BY <1>1
  <1>4. IsEntry(tables[1]) /\ \A i \in 1 .. Len(tables) : i = 1
    BY <1>2, <1>3 DEF IsEntry, Entry
  <1>5. Shaped
    <2>1. call = [phase |-> call.phase, dir |-> call.dir, dest |-> call.dest,
                  seek |-> call.seek, old |-> call.old]
      BY <1>1 DEF Idle
    <2>2. Len(tables) # 0 /\ was \in Seq(Dirs)
      BY <1>1, <1>2
    <2>. QED  BY <1>1, <1>2, <1>4, <2>1, <2>2 DEF Shaped
  <1>6. EnvTrue /\ CallRemembers
    BY <1>1 DEF EnvTrue, CallRemembers, Idle
  <1>7. TablesTrue
    BY <1>3, <1>4 DEF TablesTrue
  <1>. QED  BY <1>5, <1>6, <1>7 DEF Inv

LEMMA WorkingDirectoryIsTrue ==
    ASSUME Inv, was # <<>>
    PROVE  WorkingDirectory = Text(cwd)
  BY DEF Inv, EnvTrue, WorkingDirectory

LEMMA CallKeeps ==
    ASSUME Inv, CdArgument \/ CdHome \/ CdMinus
    PROVE  Inv'
  <1>1. UNCHANGED <<cwd, env, tables, was>> /\ call.phase = "idle"
    BY DEF CdArgument, CdHome, CdMinus, Called
  <1>2. ASSUME NEW dir, Chdir(dir)
        PROVE  Inv'
    <2>1. call'.old = WorkingDirectory
          /\ call' = [phase |-> call'.phase, dir |-> call'.dir, dest |-> call'.dest,
                      seek |-> call'.seek, old |-> call'.old]
      BY <1>2 DEF Chdir
    <2>. QED  BY <1>1, <2>1
              DEF WorkingDirectory, Inv, Shaped, EnvTrue, CallRemembers, TablesTrue
  <1>3. CASE UNCHANGED call
    BY <1>1, <1>3 DEF WorkingDirectory, Inv, Shaped, EnvTrue, CallRemembers, TablesTrue
  <1>4. CASE call' \in {Idle, [Idle EXCEPT !.phase = "aborted"]}
    <2>1. call'.phase \in {"idle", "aborted"}
          /\ call' = [phase |-> call'.phase, dir |-> call'.dir, dest |-> call'.dest,
                      seek |-> call'.seek, old |-> call'.old]
      BY <1>4 DEF Idle
    <2>. QED  BY <1>1, <2>1 DEF Inv, Shaped, EnvTrue, CallRemembers, TablesTrue
  <1>. QED  BY <1>2, <1>3, <1>4 DEF CdArgument, CdHome, CdMinus

LEMMA JoinKeeps ==
    ASSUME Inv, Skip \/ Shorten \/ Parent \/ EndJoin \/ Fails
    PROVE  Inv'
  <1>1. UNCHANGED <<cwd, env, tables, was>>
    BY DEF Skip, Shorten, Parent, EndJoin, Fails
  <1>2. call = [phase |-> call.phase, dir |-> call.dir, dest |-> call.dest,
                seek |-> call.seek, old |-> call.old]
    BY DEF Inv, Shaped
  <1>3. ASSUME NEW dest, NEW seek, call' = [call EXCEPT !.dest = dest, !.seek = seek]
        PROVE  Inv'
    <2>1. /\ call'.old = call.old /\ call'.phase = call.phase
          /\ call' = [phase |-> call'.phase, dir |-> call'.dir, dest |-> call'.dest,
                      seek |-> call'.seek, old |-> call'.old]
      BY <1>2, <1>3
    <2>. QED  BY <1>1, <2>1
              DEF WorkingDirectory, Inv, Shaped, EnvTrue, CallRemembers, TablesTrue
  <1>4. CASE Skip
    <2>1. call' = [call EXCEPT !.dest = call.dest, !.seek = call.seek + 1]
      BY <1>2, <1>4 DEF Skip
    <2>. QED  BY <1>3, <2>1
  <1>5. CASE Shorten
    <2>1. PICK dest : call' = [call EXCEPT !.dest = dest]
      BY <1>5 DEF Shorten
    <2>2. call' = [call EXCEPT !.dest = dest, !.seek = call.seek]
      BY <1>2, <2>1
    <2>. QED  BY <1>3, <2>2
  <1>6. CASE Parent
    BY <1>3, <1>6 DEF Parent
  <1>7. CASE EndJoin
    <2>1. PICK dest : call' = [call EXCEPT !.phase = "joined", !.dest = dest]
      BY <1>7 DEF EndJoin
    <2>2. /\ call'.old = call.old
          /\ call' = [phase |-> call'.phase, dir |-> call'.dir, dest |-> call'.dest,
                      seek |-> call'.seek, old |-> call'.old]
      BY <1>2, <2>1
    <2>3. call.phase = "join"
      BY <1>7 DEF EndJoin
    <2>. QED  BY <1>1, <2>2, <2>3
              DEF WorkingDirectory, Inv, Shaped, EnvTrue, CallRemembers, TablesTrue
  <1>8. CASE Fails
    <2>1. call' = Idle
      BY <1>8 DEF Fails
    <2>. QED  BY <1>1, <2>1
              DEF WorkingDirectory, Inv, Shaped, EnvTrue, CallRemembers, TablesTrue, Idle
  <1>. QED  BY <1>4, <1>5, <1>6, <1>7, <1>8

\* The process moves where the path says: the environment and the running
\* table follow, and every other table is marked.
LEMMA MovesKeeps ==
    ASSUME Inv, Moves
    PROVE  Inv'
  <1>1. /\ call.phase = "joined" /\ call' = Idle
        /\ cwd' = (CHOOSE d \in Dirs : Text(d) = call.dest)
        /\ env' = [PWD |-> call.dest, OLDPWD |-> call.old]
        /\ was' = Append(was, cwd)
    BY DEF Moves
  <1>2. cwd' \in Dirs /\ Text(cwd)' = call.dest
    <2>1. PICK d \in Dirs : Text(d) = call.dest
      BY DEF Moves, Exists
    <2>2. cwd' \in Dirs /\ Text(cwd') = call.dest
      BY <1>1, <2>1
    <2>. QED  BY <2>2
  <1>3. /\ IsSequence(tables) /\ Len(tables) # 0 /\ cwd \in Dirs /\ was \in Seq(Dirs)
        /\ \A i \in 1 .. Len(tables) : IsEntry(tables[i])
    BY DEF Inv, Shaped
  <1>4. DOMAIN tables = 1 .. Len(tables) /\ Len(tables) \in Nat
    BY <1>3, DomainIs
  <1>5. tables' = [i \in 1 .. Len(tables) |->
                     IF i = Len(tables) THEN Entry(call.dest, call.old, FALSE)
                     ELSE [tables[i] EXCEPT !.behind = TRUE]]
    BY <1>4 DEF Moves, Entry
  <1>6. IsSequence(tables') /\ Len(tables') = Len(tables)
    <2>1. tables' = [i \in 1 .. Len(tables) |-> tables'[i]]
      BY <1>5
    <2>. QED  BY <1>3, <2>1, Replaced
  <1>7. ASSUME NEW i \in 1 .. Len(tables)
        PROVE  /\ IsEntry(tables'[i])
               /\ ~tables'[i].behind => tables'[i] = Entry(call.dest, call.old, FALSE)
    <2>1. CASE i = Len(tables)
      BY <1>5, <2>1 DEF IsEntry, Entry
    <2>2. CASE i # Len(tables)
      <3>1. tables'[i] = [tables[i] EXCEPT !.behind = TRUE]
        BY <1>5, <2>2
      <3>2. tables'[i] = Entry(tables[i].PWD, tables[i].OLDPWD, TRUE)
        BY <1>3, <3>1 DEF IsEntry, Entry
      <3>. QED  BY <3>2 DEF IsEntry, Entry
    <2>. QED  BY <2>1, <2>2
  <1>8. was # <<>> => call.old = Text(cwd)
    BY <1>1, WorkingDirectoryIsTrue DEF Inv, CallRemembers
  <1>9. was' \in Seq(Dirs) /\ Last(was)' = cwd
    <2>1. Append(was, cwd) \in Seq(Dirs) /\ Append(was, cwd)[Len(Append(was, cwd))] = cwd
      BY <1>3
    <2>. QED  BY <1>1, <2>1 DEF Last
  <1>10. EnvTrue'
    <2>1. Text(Last(was))' = Text(cwd)
      BY <1>9
    <2>2. Len(was') > 1 => was # <<>>
      BY <1>1, <1>3
    <2>. QED  BY <1>1, <1>2, <1>8, <2>1, <2>2 DEF EnvTrue
  <1>11. Shaped'
    BY <1>1, <1>2, <1>3, <1>6, <1>7, <1>9 DEF Shaped, Idle
  <1>12. TablesTrue'
    BY <1>1, <1>6, <1>7 DEF TablesTrue
  <1>13. CallRemembers'
    BY <1>1 DEF CallRemembers, Idle
  <1>. QED  BY <1>10, <1>11, <1>12, <1>13 DEF Inv

\* Between two calls tables come, go and are set by hand.
LEMMA TablesKeep ==
    ASSUME Inv, EnterSubshell \/ LeaveSubshell \/ SetByHand
    PROVE  Inv'
  <1>1. UNCHANGED <<cwd, env, call, was>>
    BY DEF EnterSubshell, LeaveSubshell, SetByHand
  <1>2. /\ IsSequence(tables) /\ Len(tables) # 0
        /\ \A i \in 1 .. Len(tables) : IsEntry(tables[i])
        /\ \A i \in 1 .. Len(tables) :
             ~tables[i].behind => tables[i] = Entry(env.PWD, env.OLDPWD, FALSE)
    BY DEF Inv, Shaped, TablesTrue
  <1>3. DOMAIN tables = 1 .. Len(tables) /\ Len(tables) \in Nat
    BY <1>2, DomainIs
  <1>4. SUFFICES /\ IsSequence(tables') /\ Len(tables') # 0
                 /\ \A i \in 1 .. Len(tables') : IsEntry(tables'[i])
                 /\ \A i \in 1 .. Len(tables') :
                      ~tables'[i].behind => tables'[i] = Entry(env.PWD, env.OLDPWD, FALSE)
    BY <1>1 DEF WorkingDirectory, Inv, Shaped, EnvTrue, CallRemembers, TablesTrue
  <1>. DEFINE True(t) == IsEntry(t) /\ (~t.behind => t = Entry(env.PWD, env.OLDPWD, FALSE))
  <1>a. ASSUME \A i \in 1 .. Len(tables') :
                 \E j \in 1 .. Len(tables) : tables'[i] = tables[j],
               IsSequence(tables'), Len(tables') # 0
        PROVE  /\ IsSequence(tables') /\ Len(tables') # 0
               /\ \A i \in 1 .. Len(tables') : IsEntry(tables'[i])
               /\ \A i \in 1 .. Len(tables') :
                    ~tables'[i].behind => tables'[i] = Entry(env.PWD, env.OLDPWD, FALSE)
    <2>1. \A j \in 1 .. Len(tables) : True(tables[j])
      BY <1>2
    <2>2. ASSUME NEW i \in 1 .. Len(tables')
          PROVE  True(tables'[i])
      <3>. PICK j \in 1 .. Len(tables) : tables'[i] = tables[j]
        BY <1>a
      <3>. HIDE DEF True
      <3>. QED  BY <2>1
    <2>. QED  BY <1>a, <2>2
  <1>5. CASE EnterSubshell
    <2>1. tables' = Append(tables, tables[Len(tables)])
      BY <1>5 DEF EnterSubshell, Last
    <2>2. /\ IsSequence(tables') /\ Len(tables') = Len(tables) + 1
          /\ tables'[Len(tables) + 1] = tables[Len(tables)]
          /\ \A i \in 1 .. Len(tables) : tables'[i] = tables[i]
      BY <1>2, <2>1, Appended
    <2>3. ASSUME NEW i \in 1 .. Len(tables')
          PROVE  \E j \in 1 .. Len(tables) : tables'[i] = tables[j]
      BY <1>2, <1>3, <2>2
    <2>4. Len(tables') # 0
      BY <1>3, <2>2
    <2>. QED  BY <1>a, <2>2, <2>3, <2>4
  <1>6. CASE LeaveSubshell
    <2>1. tables' = Front(tables) /\ Len(tables) > 1
      BY <1>6 DEF LeaveSubshell
    <2>2. /\ IsSequence(tables') /\ Len(tables') = Len(tables) - 1
          /\ \A i \in 1 .. Len(tables) - 1 : tables'[i] = tables[i]
      BY <1>2, <2>1, Fronted
    <2>3. ASSUME NEW i \in 1 .. Len(tables')
          PROVE  \E j \in 1 .. Len(tables) : tables'[i] = tables[j]
      BY <1>2, <1>3, <2>1, <2>2
    <2>4. Len(tables') # 0
      BY <1>3, <2>1, <2>2
    <2>. QED  BY <1>a, <2>2, <2>3, <2>4
  <1>7. CASE SetByHand
    <2>. DEFINE n == Len(tables)
    <2>1. PICK name \in {"PWD", "OLDPWD"}, path \in Given :
            tables' = [tables EXCEPT ![n] = [@ EXCEPT ![name] = path, !.behind = TRUE]]
      BY <1>7 DEF SetByHand
    <2>2. IsSequence(tables') /\ Len(tables') = Len(tables)
      <3>1. tables' = [i \in 1 .. n |-> tables'[i]]
        BY <1>3, <2>1
      <3>. QED  BY <1>2, <3>1, Replaced
    <2>3. \A i \in 1 .. n : i # n => tables'[i] = tables[i]
      BY <1>3, <2>1
    <2>4. tables'[n] = Entry(IF name = "PWD" THEN path ELSE tables[n].PWD,
                             IF name = "OLDPWD" THEN path ELSE tables[n].OLDPWD, TRUE)
      <3>1. n \in 1 .. n
        BY <1>2, <1>3
      <3>2. tables'[n] = [tables[n] EXCEPT ![name] = path, !.behind = TRUE]
        BY <1>3, <2>1, <3>1
      <3>3. tables[n] = Entry(tables[n].PWD, tables[n].OLDPWD, tables[n].behind)
        BY <1>2, <3>1 DEF IsEntry
      <3>. QED  BY <2>1, <3>2, <3>3 DEF Entry
    <2>5. IsEntry(tables'[n]) /\ tables'[n].behind
      BY <2>4 DEF IsEntry, Entry
    <2>. HIDE DEF n
    <2>. QED  BY <1>2, <2>2, <2>3, <2>5 DEF n
  <1>. QED  BY <1>5, <1>6, <1>7

\* The environment, the tables and the call agree in every state.
THEOREM InvHolds == Spec => []Inv
  <1>1. Init => Inv
    BY InitInv
  <1>2. Inv /\ [Next]_vars => Inv'
    <2>. SUFFICES ASSUME Inv, [Next]_vars
                  PROVE  Inv'
      OBVIOUS
    <2>1. CASE Next
      BY <2>1, CallKeeps, JoinKeeps, MovesKeeps, TablesKeep DEF Next
    <2>2. CASE UNCHANGED vars
      BY <2>2 DEF WorkingDirectory, vars, Inv, Shaped, EnvTrue, CallRemembers, TablesTrue
    <2>. QED  BY <2>1, <2>2
  <1>. QED  BY <1>1, <1>2, PTL DEF Spec

\* PWD and OLDPWD name the directory the process is in and the one before it,
\* once cd has moved it, in the environment and in the table of the command that
\* runs, whatever the shell inherited (bi_cd.c, rl_subshell.c).
THEOREM PlacesAgree == Spec => []PlaceAgrees
  <1>1. Inv => PlaceAgrees
    <2>. SUFFICES ASSUME Inv
                  PROVE  PlaceAgrees
      OBVIOUS
    <2>1. Len(tables) \in 1 .. Len(tables)
      BY DomainIs DEF Inv, Shaped
    <2>. QED  BY <2>1 DEF Inv, EnvTrue, TablesTrue, PlaceAgrees, Entry, Last
  <1>. QED  BY <1>1, InvHolds, PTL

----------------------------------------------------------------------------
(* Induction, by the least number at which something fails *)

LEMMA LeastExists ==
    ASSUME NEW S, S \subseteq Nat, S # {}
    PROVE  \E x \in S : \A y \in S : x <= y
  <1>. DEFINE R == OpToRel(<, Nat)
  <1>1. PICK x \in S : \A y \in S : <<y, x>> \notin R
    <2>. HIDE DEF R
    <2>. QED  BY NatLessThanWellFounded, WFMin DEF R
  <1>2. ASSUME NEW y \in S
        PROVE  x <= y
    <2>1. x \in Nat /\ y \in Nat
      OBVIOUS
    <2>2. y < x => <<y, x>> \in R
      BY <2>1 DEF OpToRel
    <2>. HIDE DEF R
    <2>. QED  BY <1>1, <2>1, <2>2
  <1>. QED  BY <1>2

\* What holds at p and goes on from a number to the next holds up to n.
LEMMA GoesOn ==
    ASSUME NEW p \in Nat, NEW n \in Nat, NEW B, p \notin B, B \subseteq p .. n,
           \A i \in p + 1 .. n : i \in B => i - 1 \in B
    PROVE  B = {}
  <1>. SUFFICES ASSUME B # {} PROVE FALSE
    OBVIOUS
  <1>1. PICK m \in B : \A i \in B : m <= i
    <2>. B \subseteq Nat
      OBVIOUS
    <2>. QED  BY LeastExists
  <1>2. m \in p .. n /\ m # p
    OBVIOUS
  <1>3. m \in p + 1 .. n
    BY <1>2
  <1>4. m - 1 \in B /\ m \in Nat
    BY <1>3
  <1>5. m <= m - 1
    BY <1>1, <1>4
  <1>. QED  BY <1>4, <1>5

----------------------------------------------------------------------------
(* A path read character by character *)

Dot == "."

Place(names, name) == [names |-> names, name |-> name]

IsPlace(at) ==
    at = Place(at.names, at.name) /\ at.names \in Seq(Seq(Chars)) /\ at.name \in Seq(Chars)

\* h[i] is what i characters of the path lead to.
Reads(h, t) ==
    /\ h[0] = Start
    /\ \A i \in 1 .. Len(t) : h[i] = Take(h[i - 1], t[i])
    /\ \A i \in 0 .. Len(t) : IsPlace(h[i])

LEMMA CharsAre == Slash \in Chars /\ Dot \in Chars
  BY Zenon, CdAssumption DEF Dot

Void == {<<>>, <<Dot>>}
Back == <<Dot, Dot>>

LEMMA Entered ==
    ASSUME NEW names, NEW name
    PROVE  /\ name \in Void => Enter(names, name) = names
           /\ name = Back => Enter(names, name) = IF names = <<>> THEN <<>> ELSE Front(names)
           /\ name \notin Void \cup {Back} => Enter(names, name) = Append(names, name)
  <1>1. Back \notin Void
    BY DEF Back, Void
  <1>. QED  BY <1>1 DEF Enter, Void, Back, Dot

LEMMA PlaceIs ==
    ASSUME NEW names, NEW name, NEW at, at = Place(names, name)
    PROVE  /\ at.names = names /\ at.name = name
           /\ names \in Seq(Seq(Chars)) /\ name \in Seq(Chars) => IsPlace(at)
  BY DEF Place, IsPlace

LEMMA Taken ==
    ASSUME NEW at, IsPlace(at), NEW c
    PROVE  /\ c = Slash => Take(at, c) = Place(Enter(at.names, at.name), <<>>)
           /\ c # Slash => Take(at, c) = Place(at.names, Append(at.name, c))
  BY DEF Take, IsPlace, Place

LEMMA TakeIsPlace ==
    ASSUME NEW at, IsPlace(at), NEW c \in Chars
    PROVE  IsPlace(Take(at, c))
  <1>1. Enter(at.names, at.name) \in Seq(Seq(Chars))
    <2>1. at.names \in Seq(Seq(Chars)) /\ at.name \in Seq(Chars)
      BY DEF IsPlace
    <2>2. at.names # <<>> => Front(at.names) \in Seq(Seq(Chars))
      BY <2>1 DEF Front
    <2>3. Append(at.names, at.name) \in Seq(Seq(Chars))
      BY <2>1
    <2>4. <<>> \in Seq(Seq(Chars))
      OBVIOUS
    <2>5. CASE at.name \in Void
      BY <2>1, <2>5, Entered
    <2>6. CASE at.name = Back
      BY <2>2, <2>4, <2>6, Entered
    <2>7. CASE at.name \notin Void \cup {Back}
      BY <2>3, <2>7, Entered
    <2>. QED  BY <2>5, <2>6, <2>7
  <1>2. Append(at.name, c) \in Seq(Chars)
    BY DEF IsPlace
  <1>3. <<>> \in Seq(Chars)
    OBVIOUS
  <1>4. at.names \in Seq(Seq(Chars))
    BY DEF IsPlace
  <1>5. IsPlace(Place(Enter(at.names, at.name), <<>>))
    BY <1>1, <1>3, PlaceIs
  <1>6. IsPlace(Place(at.names, Append(at.name, c)))
    BY <1>2, <1>4, PlaceIs
  <1>. QED  BY <1>5, <1>6, Taken

LEMMA StartIsPlace == IsPlace(Start)
  <1>1. Start = Place(<<>>, <<>>) /\ <<>> \in Seq(Seq(Chars)) /\ <<>> \in Seq(Chars)
    BY DEF Start, Place
  <1>. QED  BY <1>1, PlaceIs

LEMMA ReadExists ==
    ASSUME NEW t \in Seq(Chars)
    PROVE  \E h : h = [i \in 0 .. Len(t) |-> IF i = 0 THEN Start ELSE Take(h[i - 1], t[i])]
  <1>. DEFINE L == Len(t)
              Upto(n, h) == h = [i \in 0 .. n |-> IF i = 0 THEN Start ELSE Take(h[i - 1], t[i])]
              B == {n \in 0 .. L : ~ \E h : Upto(n, h)}
  <1>1. L \in Nat
    OBVIOUS
  <1>2. 0 \notin B
    <2>1. [i \in 0 .. 0 |-> Start][0] = Start /\ \A i \in 0 .. 0 : i = 0
      OBVIOUS
    <2>2. Upto(0, [i \in 0 .. 0 |-> Start])
      BY <2>1
    <2>. QED  BY <2>2
  <1>3. ASSUME NEW n \in 0 + 1 .. L, n \in B PROVE n - 1 \in B
    <2>1. n - 1 \in 0 .. L /\ n # 0 /\ n \in Nat
      BY <1>1
    <2>2. ASSUME NEW h, Upto(n - 1, h)
          PROVE  \E g : Upto(n, g)
      <3>. DEFINE g == [i \in 0 .. n |-> IF i = n THEN Take(h[n - 1], t[n]) ELSE h[i]]
      <3>1. g[n] = Take(h[n - 1], t[n]) /\ g[n - 1] = h[n - 1]
        BY <2>1
      <3>2. ASSUME NEW i \in 0 .. n - 1
            PROVE  g[i] = IF i = 0 THEN Start ELSE Take(g[i - 1], t[i])
        <4>1. g[i] = h[i]
          BY <2>1
        <4>2. i # 0 => g[i - 1] = h[i - 1]
          BY <2>1
        <4>3. h[i] = IF i = 0 THEN Start ELSE Take(h[i - 1], t[i])
          BY <2>2
        <4>. QED  BY <4>1, <4>2, <4>3
      <3>3. ASSUME NEW i \in 0 .. n
            PROVE  g[i] = IF i = 0 THEN Start ELSE Take(g[i - 1], t[i])
        <4>1. i = n \/ i \in 0 .. n - 1
          BY <2>1
        <4>. QED  BY <2>1, <3>1, <3>2, <4>1
      <3>4. g = [i \in 0 .. n |-> g[i]]
        OBVIOUS
      <3>. HIDE DEF g
      <3>5. Upto(n, g)
        BY <3>3, <3>4
      <3>. QED  BY <3>5
    <2>. QED  BY <1>3, <2>1, <2>2
  <1>4. B = {}
    <2>. B \subseteq 0 .. L
      OBVIOUS
    <2>. HIDE DEF B, L
    <2>. QED  BY <1>1, <1>2, <1>3, GoesOn
  <1>5. L \in 0 .. L
    BY <1>1
  <1>. QED  BY <1>4, <1>5

\* Names(path) is where the path leads once read up to a last slash.
LEMMA NamesAreRead ==
    ASSUME NEW path \in Seq(Chars)
    PROVE  \E h : /\ Reads(h, Append(path, Slash))
                  /\ Names(path) = h[Len(Append(path, Slash))].names
  <1>. DEFINE t == Append(path, Slash)
              h == CHOOSE f : f = [i \in 0 .. Len(t) |-> IF i = 0 THEN Start ELSE Take(f[i - 1], t[i])]
  <1>1. t \in Seq(Chars)
    BY CharsAre
  <1>2. h = [i \in 0 .. Len(t) |-> IF i = 0 THEN Start ELSE Take(h[i - 1], t[i])]
    <2>. HIDE DEF t
    <2>. QED  BY <1>1, ReadExists
  <1>3. Names(path) = h[Len(t)].names
    BY DEF Names
  <1>4. Len(t) \in Nat
    BY <1>1
  <1>. HIDE DEF h, t
  <1>5. h[0] = Start
    BY <1>2, <1>4
  <1>6. ASSUME NEW i \in 1 .. Len(t) PROVE h[i] = Take(h[i - 1], t[i]) /\ i - 1 \in 0 .. Len(t)
    <2>1. i \in 0 .. Len(t) /\ i # 0 /\ i - 1 \in 0 .. Len(t)
      BY <1>4
    <2>. QED  BY <1>2, <2>1
  <1>7. \A i \in 0 .. Len(t) : IsPlace(h[i])
    <2>. DEFINE B == {i \in 0 .. Len(t) : ~IsPlace(h[i])}
    <2>1. 0 \notin B
      BY <1>5, StartIsPlace
    <2>2. ASSUME NEW i \in 0 + 1 .. Len(t), i \in B PROVE i - 1 \in B
      <3>1. i \in 1 .. Len(t) /\ t[i] \in Chars
        BY <1>1, <1>4
      <3>2. IsPlace(h[i - 1]) => IsPlace(h[i])
        BY <1>6, <3>1, TakeIsPlace
      <3>. QED  BY <1>6, <2>2, <3>1, <3>2
    <2>3. B \subseteq 0 .. Len(t)
      OBVIOUS
    <2>4. B = {}
      <3>. HIDE DEF B
      <3>. QED  BY <1>4, <2>1, <2>2, <2>3, GoesOn
    <2>. QED  BY <2>4
  <1>8. Reads(h, t)
    BY <1>5, <1>6, <1>7 DEF Reads
  <1>. QED  BY <1>3, <1>8 DEF t

----------------------------------------------------------------------------
(* Texts one after the other *)

LEMMA AppendIs ==
    ASSUME NEW S, NEW s \in Seq(S), NEW x \in S
    PROVE  /\ Append(s, x) \in Seq(S) /\ Append(s, x) # <<>> /\ Len(s) \in Nat
           /\ Len(Append(s, x)) = Len(s) + 1 /\ Append(s, x)[Len(s) + 1] = x
           /\ \A i \in 1 .. Len(s) : Append(s, x)[i] = s[i]
  OBVIOUS

LEMMA JoinIs ==
    ASSUME NEW S, NEW a \in Seq(S), NEW b \in Seq(S)
    PROVE  /\ a \o b \in Seq(S) /\ Len(a \o b) = Len(a) + Len(b)
           /\ Len(a) \in Nat /\ Len(b) \in Nat
           /\ \A i \in 1 .. Len(a) + Len(b) :
                (a \o b)[i] = IF i <= Len(a) THEN a[i] ELSE b[i - Len(a)]
           /\ a # <<>> => a \o b # <<>> /\ (a \o b)[1] = a[1]
  OBVIOUS

LEMMA ElementIs ==
    ASSUME NEW S, NEW s \in Seq(S)
    PROVE  /\ Len(s) \in Nat /\ \A i \in 1 .. Len(s) : s[i] \in S
           /\ s # <<>> <=> Len(s) # 0
  OBVIOUS

Flat(f, s) == f = [i \in 1 .. Len(s) |-> IF i = 1 THEN s[i] ELSE f[i - 1] \o s[i]]

LEMMA FlatExists ==
    ASSUME NEW s \in Seq(Seq(Chars)), s # <<>>
    PROVE  \E f : Flat(f, s)
  <1>. DEFINE L == Len(s)
              Upto(n, f) == f = [i \in 1 .. n |-> IF i = 1 THEN s[i] ELSE f[i - 1] \o s[i]]
              B == {n \in 1 .. L : ~ \E f : Upto(n, f)}
  <1>1. L \in Nat \ {0}
    OBVIOUS
  <1>2. 1 \notin B
    <2>1. [i \in 1 .. 1 |-> s[1]][1] = s[1] /\ \A i \in 1 .. 1 : i = 1
      OBVIOUS
    <2>2. Upto(1, [i \in 1 .. 1 |-> s[1]])
      BY <2>1
    <2>. QED  BY <2>2
  <1>3. ASSUME NEW n \in 1 + 1 .. L, n \in B PROVE n - 1 \in B
    <2>1. n - 1 \in 1 .. L /\ n # 1 /\ n \in Nat
      BY <1>1
    <2>2. ASSUME NEW h, Upto(n - 1, h)
          PROVE  \E g : Upto(n, g)
      <3>. DEFINE g == [i \in 1 .. n |-> IF i = n THEN h[n - 1] \o s[n] ELSE h[i]]
      <3>1. g[n] = h[n - 1] \o s[n] /\ g[n - 1] = h[n - 1]
        <4>1. n \in 1 .. n /\ n - 1 \in 1 .. n /\ n - 1 # n
          BY <2>1
        <4>. QED  BY <4>1
      <3>2. ASSUME NEW i \in 1 .. n - 1
            PROVE  g[i] = IF i = 1 THEN s[i] ELSE g[i - 1] \o s[i]
        <4>1. g[i] = h[i]
          BY <2>1
        <4>2. i # 1 => g[i - 1] = h[i - 1]
          BY <2>1
        <4>3. h[i] = IF i = 1 THEN s[i] ELSE h[i - 1] \o s[i]
          BY <2>2
        <4>. QED  BY <4>1, <4>2, <4>3
      <3>3. ASSUME NEW i \in 1 .. n
            PROVE  g[i] = IF i = 1 THEN s[i] ELSE g[i - 1] \o s[i]
        <4>1. i = n \/ i \in 1 .. n - 1
          BY <2>1
        <4>. QED  BY <2>1, <3>1, <3>2, <4>1
      <3>4. g = [i \in 1 .. n |-> g[i]]
        OBVIOUS
      <3>. HIDE DEF g
      <3>5. Upto(n, g)
        BY <3>3, <3>4
      <3>. QED  BY <3>5
    <2>. QED  BY <1>3, <2>1, <2>2
  <1>4. B = {}
    <2>. B \subseteq 1 .. L
      OBVIOUS
    <2>. HIDE DEF B, L
    <2>. QED  BY <1>1, <1>2, <1>3, GoesOn
  <1>5. L \in 1 .. L
    BY <1>1
  <1>. QED  BY <1>4, <1>5 DEF Flat

LEMMA FlattenIs ==
    ASSUME NEW s \in Seq(Seq(Chars)), s # <<>>
    PROVE  \E f : /\ Flat(f, s) /\ FlattenSeq(s) = f[Len(s)]
                  /\ \A i \in 1 .. Len(s) : f[i] \in Seq(Chars)
  <1>. DEFINE f == CHOOSE g : g = [i \in 1 .. Len(s) |-> IF i = 1 THEN s[i] ELSE g[i - 1] \o s[i]]
  <1>1. Flat(f, s)
    BY FlatExists DEF Flat
  <1>2. FlattenSeq(s) = f[Len(s)]
    <2>1. Len(s) # 0
      OBVIOUS
    <2>. QED  BY <2>1, Zenon DEF FlattenSeq
  <1>. HIDE DEF f
  <1>3. Len(s) \in Nat \ {0}
    OBVIOUS
  <1>4. \A i \in 1 .. Len(s) : f[i] = IF i = 1 THEN s[i] ELSE f[i - 1] \o s[i]
    BY <1>1 DEF Flat
  <1>. DEFINE B == {i \in 1 .. Len(s) : f[i] \notin Seq(Chars)}
  <1>5. 1 \notin B
    BY <1>3, <1>4
  <1>6. ASSUME NEW i \in 1 + 1 .. Len(s), i \in B PROVE i - 1 \in B
    <2>1. i \in 1 .. Len(s) /\ i # 1 /\ i - 1 \in 1 .. Len(s)
      BY <1>3
    <2>2. f[i] = f[i - 1] \o s[i] /\ s[i] \in Seq(Chars)
      BY <1>4, <2>1, ElementIs
    <2>3. f[i - 1] \in Seq(Chars) => f[i] \in Seq(Chars)
      BY <2>2, JoinIs
    <2>. QED  BY <1>6, <2>1, <2>3
  <1>7. B = {}
    <2>. B \subseteq 1 .. Len(s)
      OBVIOUS
    <2>. HIDE DEF B
    <2>. QED  BY <1>3, <1>5, <1>6, GoesOn
  <1>. QED  BY <1>1, <1>2, <1>7

LEMMA FlattenAppend ==
    ASSUME NEW s \in Seq(Seq(Chars)), NEW x \in Seq(Chars)
    PROVE  /\ FlattenSeq(s) \in Seq(Chars)
           /\ FlattenSeq(Append(s, x)) = FlattenSeq(s) \o x
  <1>. DEFINE t == Append(s, x)
  <1>1. /\ t \in Seq(Seq(Chars)) /\ t # <<>> /\ Len(t) = Len(s) + 1 /\ Len(s) \in Nat
        /\ t[Len(s) + 1] = x /\ \A i \in 1 .. Len(s) : t[i] = s[i]
    BY AppendIs
  <1>. HIDE DEF t
  <1>2. PICK g : Flat(g, t) /\ FlattenSeq(t) = g[Len(t)]
    BY <1>1, FlattenIs
  <1>3. \A i \in 1 .. Len(t) : g[i] = IF i = 1 THEN t[i] ELSE g[i - 1] \o t[i]
    BY <1>2 DEF Flat
  <1>4. Len(t) \in 1 .. Len(t)
    BY <1>1
  <1>5. CASE s = <<>>
    <2>1. FlattenSeq(s) = <<>> /\ Len(s) = 0
      BY <1>5 DEF FlattenSeq
    <2>2. g[Len(t)] = x
      BY <1>1, <1>3, <1>4, <2>1
    <2>3. <<>> \o x = x /\ <<>> \in Seq(Chars)
      OBVIOUS
    <2>. QED  BY <1>2, <2>1, <2>2, <2>3 DEF t
  <1>6. CASE s # <<>>
    <2>1. PICK f : /\ Flat(f, s) /\ FlattenSeq(s) = f[Len(s)]
                   /\ \A i \in 1 .. Len(s) : f[i] \in Seq(Chars)
      BY <1>6, FlattenIs
    <2>2. Len(s) \in Nat \ {0}
      BY <1>6
    <2>3. \A i \in 1 .. Len(s) : f[i] = IF i = 1 THEN s[i] ELSE f[i - 1] \o s[i]
      BY <2>1 DEF Flat
    <2>. DEFINE B == {i \in 1 .. Len(s) : f[i] # g[i]}
    <2>4. 1 \notin B
      BY <1>1, <1>3, <2>2, <2>3
    <2>5. ASSUME NEW i \in 1 + 1 .. Len(s), i \in B PROVE i - 1 \in B
      <3>1. i \in 1 .. Len(s) /\ i # 1 /\ i - 1 \in 1 .. Len(s) /\ i \in 1 .. Len(t)
        BY <1>1, <2>2
      <3>. QED  BY <1>1, <1>3, <2>3, <2>5, <3>1
    <2>6. B = {}
      <3>. B \subseteq 1 .. Len(s)
        OBVIOUS
      <3>. HIDE DEF B
      <3>. QED  BY <2>2, <2>4, <2>5, GoesOn
    <2>7. Len(s) \in 1 .. Len(s) /\ Len(s) + 1 # 1 /\ Len(s) + 1 - 1 = Len(s)
      BY <2>2
    <2>8. g[Len(s)] = f[Len(s)]
      BY <2>6, <2>7
    <2>9. g[Len(t)] = g[Len(t) - 1] \o t[Len(t)]
      BY <1>1, <1>3, <1>4, <2>7
    <2>10. Len(t) - 1 = Len(s) /\ t[Len(t)] = x
      BY <1>1
    <2>11. FlattenSeq(t) = FlattenSeq(s) \o x /\ FlattenSeq(s) \in Seq(Chars)
      BY <1>2, <2>1, <2>7, <2>8, <2>9, <2>10
    <2>. QED  BY <2>11 DEF t
  <1>. QED  BY <1>5, <1>6

\* What comes first stays first.
LEMMA FlattenHead ==
    ASSUME NEW s \in Seq(Seq(Chars)), s # <<>>, s[1] # <<>>
    PROVE  FlattenSeq(s) # <<>> /\ FlattenSeq(s)[1] = s[1][1]
  <1>1. PICK f : /\ Flat(f, s) /\ FlattenSeq(s) = f[Len(s)]
                 /\ \A i \in 1 .. Len(s) : f[i] \in Seq(Chars)
    BY FlattenIs
  <1>2. Len(s) \in Nat \ {0} /\ Len(s) \in 1 .. Len(s)
    OBVIOUS
  <1>3. \A i \in 1 .. Len(s) : f[i] = IF i = 1 THEN s[i] ELSE f[i - 1] \o s[i]
    BY <1>1 DEF Flat
  <1>. DEFINE Good(x) == x # <<>> /\ x[1] = s[1][1]
              B == {i \in 1 .. Len(s) : ~Good(f[i])}
  <1>4. 1 \notin B
    BY <1>2, <1>3
  <1>5. ASSUME NEW i \in 1 + 1 .. Len(s), i \in B PROVE i - 1 \in B
    <2>1. i \in 1 .. Len(s) /\ i # 1 /\ i - 1 \in 1 .. Len(s)
      BY <1>2
    <2>2. f[i] = f[i - 1] \o s[i] /\ s[i] \in Seq(Chars) /\ f[i - 1] \in Seq(Chars)
      <3>1. f[i] = f[i - 1] \o s[i]
        BY <1>3, <2>1
      <3>2. f[i - 1] \in Seq(Chars)
        BY <1>1, <2>1
      <3>3. s[i] \in Seq(Chars)
        BY <2>1, ElementIs
      <3>. QED  BY <3>1, <3>2, <3>3
    <2>3. f[i - 1] # <<>> => f[i] # <<>> /\ f[i][1] = f[i - 1][1]
      <3>. DEFINE a == f[i - 1]
                  b == s[i]
                  c == f[i]
      <3>1. a \in Seq(Chars) /\ b \in Seq(Chars) /\ c = a \o b
        BY <2>2
      <3>. HIDE DEF a, b, c
      <3>2. a # <<>> => a \o b # <<>> /\ (a \o b)[1] = a[1]
        BY <3>1, JoinIs
      <3>3. a # <<>> => c # <<>> /\ c[1] = a[1]
        BY <3>1, <3>2
      <3>. QED  BY <3>3 DEF a, b, c
    <2>4. Good(f[i - 1]) => Good(f[i])
      BY <2>3
    <2>. QED  BY <1>5, <2>1, <2>4
  <1>6. B = {}
    <2>. B \subseteq 1 .. Len(s)
      OBVIOUS
    <2>. HIDE DEF B
    <2>. QED  BY <1>2, <1>4, <1>5, GoesOn
  <1>. QED  BY <1>1, <1>2, <1>6

----------------------------------------------------------------------------
(* The names of a path without dots are its text *)

\* What the slash at i is followed by when __join_dirs removes something.
Dotted(t, i) ==
    \/ i + 1 <= Len(t) /\ t[i + 1] = Slash
    \/ i + 2 <= Len(t) /\ t[i + 1] = Dot /\ t[i + 2] = Slash
    \/ i + 3 <= Len(t) /\ t[i + 1] = Dot /\ t[i + 2] = Dot /\ t[i + 3] = Slash

Normal(t, n) == \A i \in 1 .. Len(t) : i < n /\ t[i] = Slash => ~Dotted(t, i)

LEMMA SubSeqIs ==
    ASSUME NEW S, NEW t \in Seq(S), NEW p \in Nat, NEW q \in Nat, p <= q, q <= Len(t)
    PROVE  /\ SubSeq(t, p + 1, q) \in Seq(S) /\ Len(SubSeq(t, p + 1, q)) = q - p
           /\ \A i \in 1 .. q - p : SubSeq(t, p + 1, q)[i] = t[p + i]
           /\ p = q => SubSeq(t, p + 1, q) = <<>>
           /\ p < q => SubSeq(t, p + 1, q) = Append(SubSeq(t, p + 1, q - 1), t[q])
  <1>1. /\ SubSeq(t, p + 1, q) \in Seq(S) /\ Len(SubSeq(t, p + 1, q)) = q - p
        /\ \A i \in 1 .. q - p : SubSeq(t, p + 1, q)[i] = t[p + i]
    OBVIOUS
  <1>2. p = q => SubSeq(t, p + 1, q) = <<>>
    BY <1>1, EmptySeq
  <1>3. p < q => SubSeq(t, p + 1, q) = Append(SubSeq(t, p + 1, q - 1), t[q])
    <2>. SUFFICES ASSUME p < q
                   PROVE  SubSeq(t, p + 1, q) = Append(SubSeq(t, p + 1, q - 1), t[q])
      OBVIOUS
    <2>. DEFINE a == SubSeq(t, p + 1, q)
                b == SubSeq(t, p + 1, q - 1)
    <2>2. b \in Seq(S) /\ Len(b) = q - 1 - p /\ \A i \in 1 .. q - 1 - p : b[i] = t[p + i]
      OBVIOUS
    <2>3. a \in Seq(S) /\ Len(a) = q - p /\ \A i \in 1 .. q - p : a[i] = t[p + i]
      BY <1>1
    <2>4. t[q] \in S
      OBVIOUS
    <2>. HIDE DEF a, b
    <2>5. /\ Append(b, t[q]) \in Seq(S) /\ Len(Append(b, t[q])) = Len(b) + 1
          /\ Append(b, t[q])[Len(b) + 1] = t[q]
          /\ \A i \in 1 .. Len(b) : Append(b, t[q])[i] = b[i]
      BY <2>2, <2>4, AppendProperties
    <2>6. Len(b) + 1 = q - p
      BY <2>2
    <2>7. ASSUME NEW i \in 1 .. q - p PROVE Append(b, t[q])[i] = a[i]
      <3>1. CASE i = q - p
        <4>1. p + i = q
          BY <3>1
        <4>. QED  BY <2>3, <2>5, <2>6, <3>1, <4>1
      <3>2. CASE i # q - p
        <4>1. i \in 1 .. q - 1 - p
          BY <3>2
        <4>. QED  BY <2>2, <2>3, <2>5, <4>1
      <3>. QED  BY <3>1, <3>2
    <2>8. a = Append(b, t[q])
      BY <2>3, <2>5, <2>6, <2>7, SeqEqual
    <2>. QED  BY <2>8 DEF a, b
  <1>. QED  BY <1>1, <1>2, <1>3

LEMMA LastSlash ==
    ASSUME NEW t \in Seq(Chars), t[1] = Slash, NEW q \in 2 .. Len(t)
    PROVE  \E p \in 1 .. q - 1 : t[p] = Slash /\ \A i \in p + 1 .. q - 1 : t[i] # Slash
  <1>. DEFINE S == {n \in 1 .. q - 1 : t[q - n] = Slash}
  <1>1. q \in Nat /\ q >= 2
    OBVIOUS
  <1>2. q - 1 \in S
    BY <1>1
  <1>3. PICK n \in S : \A m \in S : n <= m
    <2>. S \subseteq Nat
      OBVIOUS
    <2>. HIDE DEF S
    <2>. QED  BY <1>2, LeastExists
  <1>4. q - n \in 1 .. q - 1 /\ t[q - n] = Slash
    BY <1>1
  <1>5. ASSUME NEW i \in q - n + 1 .. q - 1, t[i] = Slash PROVE FALSE
    <2>1. q - i \in 1 .. q - 1 /\ q - (q - i) = i /\ ~(n <= q - i)
      BY <1>1, <1>4
    <2>2. q - i \in S
      BY <1>5, <2>1
    <2>. QED  BY <1>3, <2>1, <2>2
  <1>. QED  BY <1>4, <1>5

LEMMA NameRead ==
    ASSUME NEW t \in Seq(Chars), NEW h, Reads(h, t), NEW p \in 1 .. Len(t),
           NEW q \in p .. Len(t), t[p] = Slash, \A i \in p + 1 .. q : t[i] # Slash
    PROVE  h[q] = Place(h[p].names, SubSeq(t, p + 1, q))
  <1>. DEFINE N == h[p].names
              B == {j \in p .. q : h[j] # Place(N, SubSeq(t, p + 1, j))}
  <1>1. Len(t) \in Nat /\ p \in Nat /\ q \in Nat /\ 1 <= p /\ p <= q /\ q <= Len(t)
    OBVIOUS
  <1>2. p \notin B
    <2>1. p \in 1 .. Len(t) /\ p - 1 \in 0 .. Len(t) /\ p \in 0 .. Len(t)
      BY <1>1
    <2>2. h[p] = Place(Enter(h[p - 1].names, h[p - 1].name), <<>>)
      BY <2>1, Taken DEF Reads
    <2>3. h[p] = Place(N, <<>>)
      BY <2>2, PlaceIs
    <2>4. SubSeq(t, p + 1, p) = <<>>
      BY <1>1, SubSeqIs
    <2>. HIDE DEF N
    <2>. QED  BY <2>3, <2>4
  <1>3. ASSUME NEW j \in p + 1 .. q, j \in B PROVE j - 1 \in B
    <2>1. /\ j \in 1 .. Len(t) /\ j - 1 \in 0 .. Len(t) /\ j - 1 \in p .. q
          /\ j \in Nat /\ p < j /\ j <= Len(t)
      BY <1>1
    <2>2. h[j] = Place(h[j - 1].names, Append(h[j - 1].name, t[j]))
      BY <2>1, Taken DEF Reads
    <2>3. SubSeq(t, p + 1, j) = Append(SubSeq(t, p + 1, j - 1), t[j])
      BY <1>1, <2>1, SubSeqIs
    <2>. HIDE DEF N
    <2>4. h[j - 1] = Place(N, SubSeq(t, p + 1, j - 1)) => h[j] = Place(N, SubSeq(t, p + 1, j))
      <3>1. ASSUME NEW x, h[j - 1] = Place(N, x)
            PROVE  h[j - 1].names = N /\ h[j - 1].name = x
        BY <3>1, PlaceIs
      <3>. QED  BY <2>2, <2>3, <3>1
    <2>. QED  BY <1>3, <2>1, <2>4
  <1>4. B = {}
    <2>. B \subseteq p .. q
      OBVIOUS
    <2>. HIDE DEF B
    <2>. QED  BY <1>1, <1>2, <1>3, GoesOn
  <1>. QED  BY <1>1, <1>4

\* A slash after a name that is not dots adds that name.
LEMMA NameEntered ==
    ASSUME NEW t \in Seq(Chars), NEW h, Reads(h, t), t[1] = Slash,
           NEW q \in 2 .. Len(t), t[q] = Slash, Normal(t, q),
           NEW p \in 1 .. q - 1, t[p] = Slash, \A i \in p + 1 .. q - 1 : t[i] # Slash
    PROVE  /\ h[q - 1].names = h[p].names
           /\ h[q] = Place(Append(h[p].names, h[q - 1].name), <<>>)
  <1>. DEFINE name == SubSeq(t, p + 1, q - 1)
  <1>1. Len(t) \in Nat /\ p \in Nat /\ q \in Nat /\ 1 <= p /\ p <= q - 1 /\ q <= Len(t)
    OBVIOUS
  <1>2. h[q - 1] = Place(h[p].names, name)
    <2>1. p \in 1 .. Len(t) /\ q - 1 \in p .. Len(t)
      BY <1>1
    <2>. QED  BY <2>1, NameRead
  <1>3. ~Dotted(t, p)
    <2>1. p \in 1 .. Len(t) /\ p < q
      BY <1>1
    <2>. QED  BY <2>1 DEF Normal
  <1>4. name \notin Void \cup {Back}
    <2>1. Len(name) = q - 1 - p /\ \A i \in 1 .. q - 1 - p : name[i] = t[p + i]
      <3>1. q - 1 \in Nat /\ q - 1 <= Len(t)
        BY <1>1
      <3>. QED  BY <1>1, <3>1, SubSeqIs
    <2>. HIDE DEF name
    <2>2. ASSUME name = <<>> PROVE FALSE
      <3>1. Len(name) = 0
        BY <2>2
      <3>2. q = p + 1
        BY <1>1, <2>1, <3>1
      <3>. QED  BY <1>1, <1>3, <3>2 DEF Dotted
    <2>3. ASSUME name = <<Dot>> PROVE FALSE
      <3>1. Len(name) = 1 /\ name[1] = Dot
        BY <2>3
      <3>2. q = p + 2 /\ 1 \in 1 .. q - 1 - p
        <4>1. q - 1 - p = 1
          BY <2>1, <3>1
        <4>. QED  BY <1>1, <4>1
      <3>. QED  BY <1>1, <1>3, <2>1, <3>1, <3>2 DEF Dotted
    <2>4. ASSUME name = <<Dot, Dot>> PROVE FALSE
      <3>1. Len(name) = 2 /\ name[1] = Dot /\ name[2] = Dot
        BY <2>4
      <3>2. q = p + 3 /\ 1 \in 1 .. q - 1 - p /\ 2 \in 1 .. q - 1 - p
        <4>1. q - 1 - p = 2
          BY <2>1, <3>1
        <4>. QED  BY <1>1, <4>1
      <3>. QED  BY <1>1, <1>3, <2>1, <3>1, <3>2 DEF Dotted
    <2>. QED  BY <2>2, <2>3, <2>4 DEF Void, Back
  <1>5. h[q] = Place(Enter(h[q - 1].names, h[q - 1].name), <<>>)
    <2>1. q \in 1 .. Len(t) /\ q - 1 \in 0 .. Len(t)
      BY <1>1
    <2>. QED  BY <2>1, Taken DEF Reads
  <1>. HIDE DEF name
  <1>6. h[q - 1].names = h[p].names /\ h[q - 1].name = name
    BY <1>2, PlaceIs
  <1>. QED  BY <1>4, <1>5, <1>6, Entered

Rooted(names) == [i \in DOMAIN names |-> <<Slash>> \o names[i]]
Roots(names)  == FlattenSeq(Rooted(names))

LEMMA FunctionIs ==
    ASSUME NEW S, NEW n \in Nat, NEW f \in [1 .. n -> S]
    PROVE  f \in Seq(S) /\ Len(f) = n
  OBVIOUS

LEMMA RootsEmpty == Roots(<<>>) = <<>>
  <1>1. Rooted(<<>>) \in [1 .. 0 -> {}]
    BY DEF Rooted
  <1>2. Rooted(<<>>) \in Seq({}) /\ Len(Rooted(<<>>)) = 0
    BY <1>1, FunctionIs
  <1>3. Rooted(<<>>) = <<>>
    BY <1>2, EmptySeq
  <1>4. Len(<<>>) = 0
    OBVIOUS
  <1>. QED  BY <1>3, <1>4, Zenon DEF Roots, FlattenSeq

LEMMA NextText ==
    ASSUME NEW R \in Seq(Chars), NEW x \in Seq(Chars), NEW c \in Chars
    PROVE  /\ Append((R \o <<Slash>>) \o x, c) = (R \o <<Slash>>) \o Append(x, c)
           /\ Append((R \o <<Slash>>) \o x, c) = ((R \o (<<Slash>> \o x)) \o <<c>>) \o <<>>
  <1>1. <<Slash>> \in Seq(Chars) /\ <<c>> \in Seq(Chars)
    BY CharsAre
  <1>2. /\ R \o <<Slash>> \in Seq(Chars) /\ (R \o <<Slash>>) \o x \in Seq(Chars) /\ <<Slash>> \o x \in Seq(Chars)
        /\ R \o (<<Slash>> \o x) \in Seq(Chars)
    BY <1>1, ConcatProperties
  <1>3. Append((R \o <<Slash>>) \o x, c) = ((R \o <<Slash>>) \o x) \o <<c>>
    BY <1>2, AppendIsConcat
  <1>4. Append(x, c) = x \o <<c>>
    BY AppendIsConcat
  <1>5. ((R \o <<Slash>>) \o x) \o <<c>> = (R \o <<Slash>>) \o (x \o <<c>>)
    BY <1>1, <1>2, ConcatAssociative
  <1>6. (R \o <<Slash>>) \o x = R \o (<<Slash>> \o x)
    BY <1>1, ConcatAssociative
  <1>7. (R \o (<<Slash>> \o x)) \o <<c>> \in Seq(Chars)
    BY <1>1, <1>2, ConcatProperties
  <1>8. ((R \o (<<Slash>> \o x)) \o <<c>>) \o <<>> = (R \o (<<Slash>> \o x)) \o <<c>>
    BY <1>7, ConcatEmptySeq
  <1>. QED  BY <1>3, <1>4, <1>5, <1>6, <1>8

LEMMA RootedIs ==
    ASSUME NEW names \in Seq(Seq(Chars))
    PROVE  Rooted(names) \in Seq(Seq(Chars)) /\ Len(Rooted(names)) = Len(names)
  <1>1. \A i \in 1 .. Len(names) : <<Slash>> \o names[i] \in Seq(Chars)
    <2>1. <<Slash>> \in Seq(Chars)
      BY CharsAre
    <2>. QED  BY <2>1, ElementIs, JoinIs
  <1>2. DOMAIN names = 1 .. Len(names) /\ Len(names) \in Nat
    OBVIOUS
  <1>3. Rooted(names) \in [1 .. Len(names) -> Seq(Chars)]
    BY <1>1, <1>2 DEF Rooted
  <1>. QED  BY <1>2, <1>3, FunctionIs

LEMMA RootsAppend ==
    ASSUME NEW names \in Seq(Seq(Chars)), NEW name \in Seq(Chars)
    PROVE  /\ Roots(names) \in Seq(Chars)
           /\ Roots(Append(names, name)) = Roots(names) \o (<<Slash>> \o name)
  <1>1. <<Slash>> \in Seq(Chars)
    BY CharsAre
  <1>2. <<Slash>> \o name \in Seq(Chars)
    BY <1>1, JoinIs
  <1>3. Rooted(names) \in Seq(Seq(Chars))
    BY RootedIs
  <1>4. Rooted(Append(names, name)) = Append(Rooted(names), <<Slash>> \o name)
    <2>. DEFINE L == Len(names)
                a == Rooted(Append(names, name))
                b == Append(Rooted(names), <<Slash>> \o name)
    <2>1. L \in Nat /\ DOMAIN names = 1 .. L /\ Len(Rooted(names)) = L
      BY <1>3 DEF Rooted
    <2>2. DOMAIN Append(names, name) = 1 .. L + 1
      BY <2>1
    <2>3. a = [i \in 1 .. L + 1 |-> a[i]]
      BY <2>2 DEF Rooted
    <2>4. b = [i \in 1 .. L + 1 |-> b[i]]
      BY <1>2, <1>3, <2>1
    <2>5. ASSUME NEW i \in 1 .. L + 1 PROVE a[i] = b[i]
      <3>1. a[i] = <<Slash>> \o Append(names, name)[i]
        BY <2>2 DEF Rooted
      <3>2. CASE i = L + 1
        <4>1. Append(names, name)[i] = name /\ b[i] = <<Slash>> \o name
          BY <1>2, <1>3, <2>1, <3>2, AppendIs
        <4>. QED  BY <3>1, <4>1
      <3>3. CASE i # L + 1
        <4>1. i \in 1 .. L
          BY <2>1, <3>3
        <4>2. Append(names, name)[i] = names[i] /\ b[i] = Rooted(names)[i]
          BY <1>2, <1>3, <2>1, <4>1, AppendIs
        <4>3. Rooted(names)[i] = <<Slash>> \o names[i]
          BY <2>1, <4>1 DEF Rooted
        <4>. QED  BY <3>1, <4>2, <4>3
      <3>. QED  BY <3>2, <3>3
    <2>. HIDE DEF a, b
    <2>6. a = b
      BY <2>3, <2>4, <2>5
    <2>. QED  BY <2>6 DEF a, b
  <1>. QED  BY <1>2, <1>3, <1>4, FlattenAppend DEF Roots

\* Up to any character, a path without dots is the names entered so far, each
\* after a slash, a slash, and what has been read of the next.
LEMMA Spelled ==
    ASSUME NEW t \in Seq(Chars), NEW h, Reads(h, t), t[1] = Slash, Normal(t, Len(t)),
           NEW n \in 1 .. Len(t)
    PROVE  SubSeq(t, 1, n) = (Roots(h[n].names) \o <<Slash>>) \o h[n].name
  <1>. DEFINE Says(q) == SubSeq(t, 1, q) = (Roots(h[q].names) \o <<Slash>>) \o h[q].name
              B == {q \in 1 .. n : ~Says(q)}
  <1>1. Len(t) \in Nat /\ n \in Nat /\ 1 <= n /\ n <= Len(t) /\ <<Slash>> \in Seq(Chars)
    BY CharsAre
  <1>2. 1 \notin B
    <2>1. h[1] = Take(Start, Slash)
      BY <1>1 DEF Reads
    <2>2. Start = Place(<<>>, <<>>) /\ IsPlace(Start) /\ <<>> \in Void
      BY StartIsPlace DEF Start, Place, Void
    <2>3. h[1] = Place(<<>>, <<>>)
      BY <2>1, <2>2, Taken, PlaceIs, Entered
    <2>4. Roots(<<>>) = <<>>
      BY RootsEmpty
    <2>5. SubSeq(t, 1, 1) = <<Slash>>
      <3>1. Len(SubSeq(t, 0 + 1, 1)) = 1 /\ SubSeq(t, 0 + 1, 1)[1] = t[0 + 1]
            /\ SubSeq(t, 0 + 1, 1) \in Seq(Chars)
        BY <1>1, SubSeqIs
      <3>2. \A x \in Seq(Chars) : Len(x) = 1 /\ x[1] = Slash => x = <<Slash>>
        OBVIOUS
      <3>3. 0 + 1 = 1
        OBVIOUS
      <3>4. Len(SubSeq(t, 1, 1)) = 1 /\ SubSeq(t, 1, 1)[1] = Slash /\ SubSeq(t, 1, 1) \in Seq(Chars)
        BY <3>1, <3>3
      <3>. QED  BY <3>2, <3>4, Zenon
    <2>6. (<<>> \o <<Slash>>) \o <<>> = <<Slash>>
      OBVIOUS
    <2>7. h[1].names = <<>> /\ h[1].name = <<>>
      BY <2>3, PlaceIs
    <2>. QED  BY <2>4, <2>5, <2>6, <2>7
  <1>3. ASSUME NEW q \in 1 + 1 .. n, q \in B PROVE q - 1 \in B
    <2>. DEFINE N == h[q - 1].names
                m == h[q - 1].name
    <2>1. /\ q \in 2 .. Len(t) /\ q \in 1 .. Len(t) /\ q - 1 \in 0 .. Len(t)
          /\ q - 1 \in 1 .. n /\ q \in Nat /\ q - 1 \in Nat
      BY <1>1
    <2>2. N \in Seq(Seq(Chars)) /\ m \in Seq(Chars) /\ h[q] = Take(h[q - 1], t[q])
          /\ IsPlace(h[q - 1])
      BY <2>1 DEF Reads, IsPlace
    <2>3. SubSeq(t, 1, q) = Append(SubSeq(t, 1, q - 1), t[q]) /\ t[q] \in Chars
      BY <1>1, <2>1
    <2>4. Roots(N) \in Seq(Chars)
      BY <2>2, RootsAppend
    <2>. HIDE DEF N, m
    <2>5. CASE t[q] # Slash
      <3>1. h[q] = Place(N, Append(m, t[q]))
        <4>1. Take(h[q - 1], t[q]) = Place(h[q - 1].names, Append(h[q - 1].name, t[q]))
          BY <2>2, <2>5, Taken
        <4>. QED  BY <2>2, <4>1 DEF N, m
      <3>2. h[q].names = N /\ h[q].name = Append(m, t[q])
        BY <3>1 DEF Place
      <3>4. Append((Roots(N) \o <<Slash>>) \o m, t[q])
              = (Roots(N) \o <<Slash>>) \o Append(m, t[q])
        BY <2>2, <2>3, <2>4, NextText, Zenon
      <3>5. Says(q - 1) => Says(q)
        BY <2>3, <3>2, <3>4 DEF N, m
      <3>. QED  BY <1>3, <2>1, <3>5
    <2>6. CASE t[q] = Slash
      <3>1. PICK p \in 1 .. q - 1 : t[p] = Slash /\ \A i \in p + 1 .. q - 1 : t[i] # Slash
        BY <2>1, LastSlash
      <3>2. Normal(t, q)
        <4>1. \A i \in 1 .. Len(t) : i < q => i < Len(t)
          BY <1>1, <2>1
        <4>. QED  BY <4>1 DEF Normal
      <3>3. h[q] = Place(Append(N, m), <<>>)
        <4>1. /\ h[q - 1].names = h[p].names
              /\ h[q] = Place(Append(h[p].names, h[q - 1].name), <<>>)
          BY <2>1, <2>6, <3>1, <3>2, NameEntered
        <4>. QED  BY <4>1 DEF N, m
      <3>4. h[q].names = Append(N, m) /\ h[q].name = <<>>
        BY <3>3 DEF Place
      <3>5. Roots(Append(N, m)) = Roots(N) \o (<<Slash>> \o m)
        BY <2>2, RootsAppend DEF N, m
      <3>7. Append((Roots(N) \o <<Slash>>) \o m, Slash)
              = ((Roots(N) \o (<<Slash>> \o m)) \o <<Slash>>) \o <<>>
        BY <2>2, <2>4, CharsAre, NextText, Zenon
      <3>8. Says(q - 1) => Says(q)
        BY <2>3, <2>6, <3>4, <3>5, <3>7 DEF N, m
      <3>. QED  BY <1>3, <2>1, <3>8
    <2>. QED  BY <2>5, <2>6
  <1>4. B = {}
    <2>. B \subseteq 1 .. n
      OBVIOUS
    <2>. HIDE DEF B
    <2>. QED  BY <1>1, <1>2, <1>3, GoesOn
  <1>5. n \in 1 .. n
    BY <1>1
  <1>6. Says(n)
    <2>. HIDE DEF Says
    <2>. QED  BY <1>4, <1>5
  <1>. QED  BY <1>6

----------------------------------------------------------------------------
(* What __my_strcpy leaves *)

\* The text with what is from k up to m taken out of it.
Cut(t, k, m) == SubSeq(t, 1, k - 1) \o SubSeq(t, m, Len(t))

LEMMA Spliced ==
    ASSUME NEW t \in Seq(Chars), NEW h, Reads(h, t),
           NEW k \in 1 .. Len(t), NEW m \in k .. Len(t), h[k] = h[m], t[k] = t[m]
    PROVE  /\ Cut(t, k, m) \in Seq(Chars) /\ k \in 1 .. Len(Cut(t, k, m))
           /\ \A i \in 1 .. k : Cut(t, k, m)[i] = t[i]
           /\ Cut(t, k, m)[Len(Cut(t, k, m))] = t[Len(t)]
           /\ \E g : Reads(g, Cut(t, k, m)) /\ g[Len(Cut(t, k, m))] = h[Len(t)]
  <1>. DEFINE u == Cut(t, k, m)
              d == m - k
              L == Len(t)
              g == [i \in 0 .. Len(u) |-> IF i < k THEN h[i] ELSE h[i + d]]
  <1>1. L \in Nat /\ k \in Nat /\ m \in Nat /\ 1 <= k /\ k <= m /\ m <= L /\ d \in Nat
    OBVIOUS
  <1>. DEFINE a == SubSeq(t, 1, k - 1)
              b == SubSeq(t, m, L)
  <1>a. a \in Seq(Chars) /\ Len(a) = k - 1 /\ \A i \in 1 .. k - 1 : a[i] = t[i]
    BY <1>1
  <1>b. b \in Seq(Chars) /\ Len(b) = L - m + 1 /\ \A i \in 1 .. L - m + 1 : b[i] = t[m + i - 1]
    BY <1>1
  <1>c. u = a \o b
    BY DEF Cut
  <1>d. Len(a) + Len(b) = L - d /\ \A i \in 1 .. L - d : i <= Len(a) <=> i < k
    <2>1. (k - 1) + (L - m + 1) = L - d /\ \A i \in 1 .. L - d : i <= k - 1 <=> i < k
      BY <1>1
    <2>. QED  BY <1>a, <1>b, <2>1
  <1>. HIDE DEF a, b, u
  <1>2. u \in Seq(Chars) /\ Len(u) = L - d
    BY <1>a, <1>b, <1>c, <1>d, JoinIs
  <1>e. \A i \in 1 .. L - d : u[i] = IF i <= Len(a) THEN a[i] ELSE b[i - Len(a)]
    <2>1. \A i \in 1 .. Len(a) + Len(b) : (a \o b)[i] = IF i <= Len(a) THEN a[i] ELSE b[i - Len(a)]
      BY <1>a, <1>b, JoinIs
    <2>. QED  BY <1>c, <1>d, <2>1
  <1>3. ASSUME NEW i \in 1 .. L - d PROVE u[i] = IF i < k THEN t[i] ELSE t[i + d]
    <2>1. CASE i < k
      <3>1. i \in 1 .. k - 1
        BY <1>1, <2>1
      <3>. QED  BY <1>a, <1>d, <1>e, <2>1, <3>1
    <2>2. CASE ~(i < k)
      <3>1. u[i] = b[i - (k - 1)]
        BY <1>a, <1>d, <1>e, <2>2
      <3>2. i - (k - 1) \in 1 .. L - m + 1 /\ m + (i - (k - 1)) - 1 = i + d
        BY <1>1, <2>2
      <3>. QED  BY <1>b, <2>2, <3>1, <3>2
    <2>. QED  BY <2>1, <2>2
  <1>4. k \in 1 .. L - d /\ k + d = m /\ (L - d) + d = L /\ L - d \in Nat
        /\ L - d \in 1 .. L - d /\ 0 \in 0 .. L - d
    BY <1>1
  <1>5. \A i \in 1 .. k : u[i] = t[i]
    <2>1. \A i \in 1 .. k : i \in 1 .. L - d /\ (i < k \/ i = k)
      BY <1>1
    <2>. QED  BY <1>3, <1>4, <2>1
  <1>6. u[L - d] = t[L]
    <2>1. ~(L - d < k)
      BY <1>1
    <2>. QED  BY <1>3, <1>4, <2>1
  <1>7. \A i \in 0 .. L - d : g[i] = IF i < k THEN h[i] ELSE h[i + d]
    BY <1>2
  <1>. HIDE DEF d, g
  <1>8. g[0] = Start
    BY <1>1, <1>4, <1>7 DEF Reads
  <1>9. ASSUME NEW i \in 1 .. L - d PROVE g[i] = Take(g[i - 1], u[i])
    <2>1. /\ i \in 0 .. L - d /\ i - 1 \in 0 .. L - d /\ i \in 1 .. L /\ i + d \in 1 .. L
          /\ i \in Nat
      BY <1>1, <1>4
    <2>2. CASE i < k
      <3>1. i - 1 < k
        BY <1>1, <2>1, <2>2
      <3>. QED  BY <1>3, <1>7, <2>1, <2>2, <3>1 DEF Reads
    <2>3. CASE i = k
      <3>1. i - 1 < k /\ ~(i < k)
        BY <1>1, <2>3
      <3>2. g[i] = h[k] /\ g[i - 1] = h[i - 1] /\ u[i] = t[k]
        BY <1>3, <1>4, <1>7, <2>1, <2>3, <3>1
      <3>3. h[k] = Take(h[k - 1], t[k])
        BY DEF Reads
      <3>. QED  BY <2>3, <3>2, <3>3
    <2>4. CASE k < i
      <3>1. ~(i - 1 < k) /\ ~(i < k) /\ (i - 1) + d = (i + d) - 1
        BY <1>1, <2>1, <2>4
      <3>2. g[i] = h[i + d] /\ g[i - 1] = h[(i + d) - 1] /\ u[i] = t[i + d]
        BY <1>3, <1>7, <2>1, <3>1
      <3>3. h[i + d] = Take(h[(i + d) - 1], t[i + d])
        BY <2>1 DEF Reads
      <3>. QED  BY <3>2, <3>3
    <2>5. i < k \/ i = k \/ k < i
      BY <1>1, <2>1
    <2>. QED  BY <2>2, <2>3, <2>4, <2>5
  <1>10. \A i \in 0 .. L - d : IsPlace(g[i])
    <2>1. \A i \in 0 .. L - d : i \in 0 .. L /\ i + d \in 0 .. L
      BY <1>1, <1>4
    <2>. QED  BY <1>7, <2>1 DEF Reads
  <1>11. Reads(g, u)
    BY <1>2, <1>8, <1>9, <1>10 DEF Reads
  <1>12. g[L - d] = h[L]
    <2>1. ~(L - d < k) /\ L - d \in 0 .. L - d
      BY <1>1, <1>4
    <2>. QED  BY <1>4, <1>7, <2>1
  <1>. QED  BY <1>2, <1>4, <1>5, <1>6, <1>11, <1>12 DEF u

\* Nothing changes ahead of the slash that stays.
LEMMA SplicedNormal ==
    ASSUME NEW t \in Seq(Chars), NEW u \in Seq(Chars), NEW k \in 1 .. Len(t), k \in 1 .. Len(u),
           \A i \in 1 .. k : u[i] = t[i], t[k] = Slash, Normal(t, k)
    PROVE  Normal(u, k)
  <1>. SUFFICES ASSUME NEW i \in 1 .. Len(u), i < k, u[i] = Slash, Dotted(u, i)
                PROVE  FALSE
    BY DEF Normal
  <1>1. Len(t) \in Nat /\ Len(u) \in Nat /\ k \in Nat /\ i \in Nat /\ k <= Len(t) /\ k <= Len(u)
        /\ 1 <= i
    OBVIOUS
  <1>2. Dot # Slash
    BY DEF Dot, Slash
  <1>3. u[k] = Slash /\ t[i] = u[i] /\ i \in 1 .. Len(t)
    BY <1>1
  <1>4. \A j \in 1 .. 3 : i + j <= k => u[i + j] = t[i + j] /\ i + j <= Len(t)
    BY <1>1
  <1>5. Dotted(t, i)
    <2>1. CASE u[i + 1] = Slash
      BY <1>1, <1>4, <2>1 DEF Dotted
    <2>2. CASE u[i + 1] = Dot /\ u[i + 2] = Slash
      <3>1. i + 1 # k
        BY <1>2, <1>3, <2>2
      <3>2. i + 2 <= k
        BY <1>1, <3>1
      <3>. QED  BY <1>1, <1>4, <2>2, <3>2 DEF Dotted
    <2>3. CASE u[i + 1] = Dot /\ u[i + 2] = Dot /\ u[i + 3] = Slash
      <3>1. i + 1 # k /\ i + 2 # k
        BY <1>2, <1>3, <2>3
      <3>2. i + 3 <= k
        BY <1>1, <3>1
      <3>. QED  BY <1>1, <1>4, <2>3, <3>2 DEF Dotted
    <2>. QED  BY <2>1, <2>2, <2>3 DEF Dotted
  <1>. QED  BY <1>3, <1>5 DEF Normal

----------------------------------------------------------------------------
(* The buffer of __join_dirs *)

\* The text leads where it led at first, and has no dots ahead of the cursor.
Resolving(t, k, names) ==
    /\ t \in Seq(Chars) /\ t # <<>> /\ t[1] = Slash /\ t[Len(t)] = Slash
    /\ k \in 1 .. Len(t) + 1 /\ Normal(t, k)
    /\ \E h : Reads(h, t) /\ h[Len(t)] = Place(names, <<>>)

LEMMA ResolvingBegins ==
    ASSUME NEW path \in Seq(Chars), path # <<>>, path[1] = Slash
    PROVE  Resolving(Append(path, Slash), 1, Names(path))
  <1>. DEFINE t == Append(path, Slash)
  <1>1. /\ t \in Seq(Chars) /\ t # <<>> /\ t[1] = Slash /\ t[Len(t)] = Slash
        /\ Len(t) \in Nat /\ Len(t) >= 1
    BY CharsAre
  <1>2. PICK h : Reads(h, t) /\ Names(path) = h[Len(t)].names
    BY NamesAreRead
  <1>. HIDE DEF t
  <1>3. Len(t) \in 1 .. Len(t) /\ Len(t) - 1 \in 0 .. Len(t) /\ 1 \in 1 .. Len(t) + 1
    BY <1>1
  <1>4. h[Len(t)] = Place(Enter(h[Len(t) - 1].names, h[Len(t) - 1].name), <<>>)
    BY <1>1, <1>2, <1>3, Taken DEF Reads
  <1>5. h[Len(t)] = Place(Names(path), <<>>)
    BY <1>2, <1>4 DEF Place
  <1>6. Normal(t, 1)
    BY DEF Normal
  <1>. QED  BY <1>1, <1>2, <1>3, <1>5, <1>6 DEF Resolving, t

LEMMA ResolvingSkips ==
    ASSUME NEW t, NEW k, NEW names, Resolving(t, k, names), k <= Len(t),
           t[k] = Slash => ~Dotted(t, k)
    PROVE  Resolving(t, k + 1, names)
  <1>1. t \in Seq(Chars) /\ Len(t) \in Nat /\ k \in 1 .. Len(t) + 1 /\ Normal(t, k)
    BY DEF Resolving
  <1>2. k + 1 \in 1 .. Len(t) + 1 /\ \A i \in 1 .. Len(t) : i < k + 1 => i < k \/ i = k
    BY <1>1
  <1>3. Normal(t, k + 1)
    BY <1>1, <1>2 DEF Normal
  <1>. QED  BY <1>2, <1>3 DEF Resolving

\* From k on the text is replaced by what follows m, which leads to the same.
LEMMA ResolvingSpliced ==
    ASSUME NEW t, NEW j, NEW names, Resolving(t, j, names),
           NEW h, Reads(h, t), h[Len(t)] = Place(names, <<>>),
           NEW k \in 1 .. Len(t), NEW m \in k .. Len(t), k <= j,
           t[k] = Slash, t[m] = Slash, h[k] = h[m]
    PROVE  Resolving(Cut(t, k, m), k, names)
  <1>. DEFINE u == Cut(t, k, m)
  <1>1. /\ t \in Seq(Chars) /\ Len(t) \in Nat /\ t[1] = Slash /\ t[Len(t)] = Slash
        /\ j \in 1 .. Len(t) + 1 /\ Normal(t, j)
    BY DEF Resolving
  <1>2. /\ u \in Seq(Chars) /\ k \in 1 .. Len(u)
        /\ \A i \in 1 .. k : u[i] = t[i]
        /\ u[Len(u)] = t[Len(t)]
        /\ \E g : Reads(g, u) /\ g[Len(u)] = h[Len(t)]
    <2>1. t[k] = t[m]
      OBVIOUS
    <2>. QED  BY <1>1, <2>1, Spliced
  <1>. HIDE DEF u
  <1>3. Normal(t, k)
    <2>1. \A i \in 1 .. Len(t) : i < k => i < j
      BY <1>1
    <2>. QED  BY <1>1, <2>1 DEF Normal
  <1>4. Normal(u, k)
    BY <1>1, <1>2, <1>3, SplicedNormal
  <1>5. Len(u) \in Nat /\ 1 \in 1 .. k /\ k \in 1 .. Len(u) + 1 /\ u # <<>>
    BY <1>2
  <1>6. u[1] = Slash /\ u[Len(u)] = Slash
    BY <1>1, <1>2, <1>5
  <1>. QED  BY <1>2, <1>4, <1>5, <1>6 DEF Resolving, u

\* After a slash nothing is read of the next name.
LEMMA AtSlashNameless ==
    ASSUME NEW t, NEW h, Reads(h, t), Len(t) \in Nat, NEW k \in 1 .. Len(t), t[k] = Slash
    PROVE  /\ h[k] = Place(Enter(h[k - 1].names, h[k - 1].name), <<>>)
           /\ h[k] = Place(h[k].names, <<>>)
  <1>1. k \in 1 .. Len(t) /\ k - 1 \in 0 .. Len(t)
    OBVIOUS
  <1>2. h[k] = Place(Enter(h[k - 1].names, h[k - 1].name), <<>>)
    BY <1>1, Taken DEF Reads
  <1>. QED  BY <1>2 DEF Place

LEMMA AtCharGrows ==
    ASSUME NEW t, NEW h, Reads(h, t), Len(t) \in Nat, NEW k \in 1 .. Len(t), t[k] # Slash
    PROVE  h[k] = Place(h[k - 1].names, Append(h[k - 1].name, t[k]))
  <1>1. k \in 1 .. Len(t) /\ k - 1 \in 0 .. Len(t)
    OBVIOUS
  <1>. QED  BY <1>1, Taken DEF Reads

LEMMA AppendDots ==
    /\ Append(<<>>, Dot) = <<Dot>> /\ Append(<<Dot>>, Dot) = Back
    /\ <<>> \in Void /\ <<Dot>> \in Void /\ Back \notin Void /\ Dot # Slash
  <1>1. ASSUME NEW c PROVE Append(<<>>, c) = <<c>> /\ Append(<<c>>, c) = <<c, c>>
    <2>1. <<>> \in Seq({c}) /\ <<c>> \in Seq({c}) /\ <<c, c>> \in Seq({c}) /\ c \in {c}
      OBVIOUS
    <2>2. Len(<<>>) = 0 /\ Len(<<c>>) = 1 /\ Len(<<c, c>>) = 2 /\ <<c>>[1] = c
          /\ <<c, c>>[1] = c /\ <<c, c>>[2] = c
      OBVIOUS
    <2>3. /\ Append(<<>>, c) \in Seq({c}) /\ Len(Append(<<>>, c)) = 1
          /\ Append(<<>>, c)[1] = c
      BY <2>1, <2>2, AppendProperties
    <2>4. /\ Append(<<c>>, c) \in Seq({c}) /\ Len(Append(<<c>>, c)) = 2
          /\ Append(<<c>>, c)[1] = c /\ Append(<<c>>, c)[2] = c
      BY <2>1, <2>2, AppendProperties
    <2>5. \A x, y \in Seq({c}) : Len(x) = 1 /\ Len(y) = 1 => x = y
      OBVIOUS
    <2>6. \A x, y \in Seq({c}) : Len(x) = 2 /\ Len(y) = 2 => x = y
      OBVIOUS
    <2>. QED  BY <2>1, <2>2, <2>3, <2>4, <2>5, <2>6
  <1>2. <<Dot, Dot>> # <<>> /\ <<Dot, Dot>> # <<Dot>> /\ Dot # Slash
    BY DEF Dot, Slash
  <1>. QED  BY <1>1, <1>2 DEF Void, Back

\* `//` and `/./` lead where one slash does.
LEMMA ResolvingShortens ==
    ASSUME NEW t, NEW k, NEW names, Resolving(t, k, names), k <= Len(t), t[k] = Slash,
           NEW m, m <= Len(t), t[m] = Slash,
           m = k + 1 \/ (m = k + 2 /\ t[k + 1] = Dot)
    PROVE  Resolving(Cut(t, k, m), k, names)
  <1>1. t \in Seq(Chars) /\ Len(t) \in Nat /\ k \in 1 .. Len(t) + 1
    BY DEF Resolving
  <1>2. k \in 1 .. Len(t) /\ m \in k .. Len(t) /\ m \in 1 .. Len(t) /\ k \in Nat
    BY <1>1
  <1>3. PICK h : Reads(h, t) /\ h[Len(t)] = Place(names, <<>>)
    BY DEF Resolving
  <1>. DEFINE N == h[k].names
  <1>4. h[k] = Place(N, <<>>)
    BY <1>1, <1>2, <1>3, AtSlashNameless
  <1>. HIDE DEF N
  <1>5. h[m] = Place(N, <<>>)
    <2>1. CASE m = k + 1
      <3>1. m - 1 = k
        BY <1>2, <2>1
      <3>2. h[m] = Place(Enter(h[k].names, h[k].name), <<>>)
        BY <1>1, <1>2, <1>3, <3>1, AtSlashNameless
      <3>3. h[k].names = N /\ h[k].name = <<>>
        BY <1>4 DEF Place
      <3>. QED  BY <3>2, <3>3, AppendDots, Entered
    <2>2. CASE m = k + 2 /\ t[k + 1] = Dot
      <3>1. m - 1 = k + 1 /\ k + 1 \in 1 .. Len(t) /\ (k + 1) - 1 = k
        BY <1>1, <1>2, <2>2
      <3>2. t[k + 1] # Slash
        BY <2>2, AppendDots
      <3>3. h[k + 1] = Place(h[k].names, Append(h[k].name, Dot))
        BY <1>1, <1>3, <2>2, <3>1, <3>2, AtCharGrows
      <3>4. h[k].names = N /\ h[k].name = <<>>
        BY <1>4 DEF Place
      <3>5. h[k + 1] = Place(N, <<Dot>>)
        BY <3>3, <3>4, AppendDots
      <3>6. h[k + 1].names = N /\ h[k + 1].name = <<Dot>>
        BY <3>5 DEF Place
      <3>7. h[m] = Place(Enter(h[k + 1].names, h[k + 1].name), <<>>)
        BY <1>1, <1>2, <1>3, <3>1, AtSlashNameless
      <3>. QED  BY <3>6, <3>7, AppendDots, Entered
    <2>. QED  BY <2>1, <2>2
  <1>6. k <= k
    BY <1>2
  <1>. QED  BY <1>2, <1>3, <1>4, <1>5, <1>6, ResolvingSpliced

\* `/../` leads where the slash before the last name does; the root is its own
\* parent.
LEMMA ResolvingGoesUp ==
    ASSUME NEW t, NEW k, NEW names, Resolving(t, k, names), k + 3 <= Len(t), t[k] = Slash,
           t[k + 1] = Dot, t[k + 2] = Dot, t[k + 3] = Slash,
           NEW b \in 1 .. k, t[b] = Slash, b = k => k = 1, \A i \in b + 1 .. k - 1 : t[i] # Slash
    PROVE  Resolving(Cut(t, b, k + 3), b, names)
  <1>1. /\ t \in Seq(Chars) /\ Len(t) \in Nat /\ k \in 1 .. Len(t) + 1 /\ t[1] = Slash
        /\ Normal(t, k)
    BY DEF Resolving
  <1>2. /\ k \in Nat /\ k \in 1 .. Len(t) /\ k + 1 \in 1 .. Len(t) /\ k + 2 \in 1 .. Len(t)
        /\ k + 3 \in 1 .. Len(t) /\ (k + 1) - 1 = k /\ (k + 2) - 1 = k + 1 /\ (k + 3) - 1 = k + 2
        /\ b \in 1 .. Len(t) /\ b \in Nat /\ b <= k /\ k + 3 \in b .. Len(t)
    BY <1>1
  <1>3. PICK h : Reads(h, t) /\ h[Len(t)] = Place(names, <<>>)
    BY DEF Resolving
  <1>. DEFINE N == h[k].names
              M == h[b].names
  <1>4. h[k] = Place(N, <<>>) /\ h[b] = Place(M, <<>>)
    BY <1>1, <1>2, <1>3, AtSlashNameless
  <1>. HIDE DEF N, M
  <1>5. h[k + 3] = Place(IF N = <<>> THEN <<>> ELSE Front(N), <<>>)
    <2>1. t[k + 1] # Slash /\ t[k + 2] # Slash
      BY AppendDots
    <2>2. h[k].names = N /\ h[k].name = <<>>
      BY <1>4 DEF Place
    <2>3. h[k + 1] = Place(h[k].names, Append(h[k].name, Dot))
      BY <1>1, <1>2, <1>3, <2>1, AtCharGrows
    <2>4. h[k + 1] = Place(N, <<Dot>>)
      BY <2>2, <2>3, AppendDots
    <2>5. h[k + 1].names = N /\ h[k + 1].name = <<Dot>>
      BY <2>4 DEF Place
    <2>6. h[k + 2] = Place(h[k + 1].names, Append(h[k + 1].name, Dot))
      BY <1>1, <1>2, <1>3, <2>1, AtCharGrows
    <2>7. h[k + 2] = Place(N, Back)
      BY <2>5, <2>6, AppendDots
    <2>8. h[k + 2].names = N /\ h[k + 2].name = Back
      BY <2>7 DEF Place
    <2>9. h[k + 3] = Place(Enter(h[k + 2].names, h[k + 2].name), <<>>)
      BY <1>1, <1>2, <1>3, AtSlashNameless
    <2>. QED  BY <2>8, <2>9, Entered
  <1>6. h[b] = h[k + 3]
    <2>1. CASE b = k
      <3>1. k = 1 /\ h[1] = Take(h[0], t[1]) /\ h[0] = Place(<<>>, <<>>) /\ IsPlace(h[0])
        BY <1>1, <1>2, <1>3, <2>1, StartIsPlace DEF Reads, Start, Place
      <3>2. h[0].names = <<>> /\ h[0].name = <<>>
        BY <3>1 DEF Place
      <3>3. h[1] = Place(Enter(h[0].names, h[0].name), <<>>)
        BY <1>1, <3>1, Taken
      <3>4. h[k] = Place(<<>>, <<>>)
        BY <3>1, <3>2, <3>3, AppendDots, Entered
      <3>5. N = <<>>
        BY <1>4, <3>4 DEF Place
      <3>. QED  BY <1>5, <2>1, <3>4, <3>5
    <2>2. CASE b # k
      <3>1. k \in 2 .. Len(t) /\ b \in 1 .. k - 1 /\ k - 1 \in 0 .. Len(t) /\ b \in 0 .. Len(t)
        BY <1>2, <2>2
      <3>2. /\ h[k - 1].names = h[b].names
            /\ h[k] = Place(Append(h[b].names, h[k - 1].name), <<>>)
        BY <1>1, <1>3, <3>1, NameEntered
      <3>3. h[b].names = M /\ h[k].names = N
        BY <1>4 DEF Place
      <3>4. N = Append(M, h[k - 1].name)
        BY <3>2, <3>3 DEF Place
      <3>5. M \in Seq(Seq(Chars)) /\ h[k - 1].name \in Seq(Chars)
        BY <1>3, <3>1, <3>3 DEF Reads, IsPlace
      <3>6. ASSUME NEW S, NEW s \in Seq(S), NEW x \in S
            PROVE  Append(s, x) # <<>> /\ Front(Append(s, x)) = s
        <4>1. /\ Append(s, x) \in Seq(S) /\ Append(s, x) # <<>> /\ Len(s) \in Nat
              /\ Len(Append(s, x)) = Len(s) + 1 /\ Len(Append(s, x)) - 1 = Len(s)
          BY AppendIs
        <4>2. SubSeq(Append(s, x), 1, Len(s)) = s
          OBVIOUS
        <4>. QED  BY <4>1, <4>2 DEF Front
      <3>7. N # <<>> /\ Front(N) = M
        BY <3>4, <3>5, <3>6
      <3>. QED  BY <1>4, <1>5, <3>7
    <2>. QED  BY <2>1, <2>2
  <1>. QED  BY <1>2, <1>3, <1>6, ResolvingSpliced

\* At the end the text is spelt by the names it leads to.
LEMMA ResolvingEnds ==
    ASSUME NEW t, NEW names, Resolving(t, Len(t) + 1, names)
    PROVE  (IF Len(t) > 1 THEN Front(t) ELSE t) = Spelt(names)
  <1>1. /\ t \in Seq(Chars) /\ Len(t) \in Nat /\ t # <<>> /\ t[1] = Slash
        /\ Normal(t, Len(t) + 1)
    BY DEF Resolving
  <1>2. Len(t) \in 1 .. Len(t) /\ Len(t) \in 0 .. Len(t)
    BY <1>1
  <1>3. Normal(t, Len(t))
    <2>1. \A i \in 1 .. Len(t) : i < Len(t) => i < Len(t) + 1
      BY <1>1
    <2>. QED  BY <1>1, <2>1 DEF Normal
  <1>4. PICK h : Reads(h, t) /\ h[Len(t)] = Place(names, <<>>)
    BY DEF Resolving
  <1>5. h[Len(t)].names = names /\ h[Len(t)].name = <<>>
    BY <1>4 DEF Place
  <1>6. names \in Seq(Seq(Chars))
    BY <1>2, <1>4, <1>5 DEF Reads, IsPlace
  <1>7. Roots(names) \in Seq(Chars)
    BY <1>6, RootsAppend, <1>2, <1>4, <1>5 DEF Reads, IsPlace
  <1>8. SubSeq(t, 1, Len(t)) = (Roots(names) \o <<Slash>>) \o <<>>
    BY <1>1, <1>2, <1>3, <1>4, <1>5, Spelled
  <1>9. SubSeq(t, 1, Len(t)) = t
    BY <1>1
  <1>10. \A R \in Seq(Chars) : (R \o <<Slash>>) \o <<>> = Append(R, Slash)
    BY CharsAre
  <1>11. t = Append(Roots(names), Slash)
    BY <1>7, <1>8, <1>9, <1>10
  <1>12. \A R \in Seq(Chars) : Len(Append(R, Slash)) = Len(R) + 1 /\ Front(Append(R, Slash)) = R
    BY CharsAre DEF Front
  <1>13. Len(t) = Len(Roots(names)) + 1 /\ Front(t) = Roots(names)
    BY <1>7, <1>11, <1>12
  <1>14. CASE names = <<>>
    <2>1. Roots(names) = <<>>
      BY <1>14, RootsEmpty
    <2>2. Len(t) = 1 /\ t = <<Slash>>
      BY <1>11, <1>13, <2>1
    <2>. QED  BY <1>14, <2>2 DEF Spelt
  <1>15. CASE names # <<>>
    <2>1. Roots(names) # <<>>
      <3>1. Rooted(names) \in Seq(Seq(Chars)) /\ Rooted(names) # <<>> /\ Rooted(names)[1] # <<>>
        <4>1. Len(names) \in Nat \ {0} /\ DOMAIN names = 1 .. Len(names)
          BY <1>6, <1>15
        <4>2. Rooted(names) \in Seq(Seq(Chars)) /\ Len(Rooted(names)) = Len(names)
          BY <1>6, RootedIs
        <4>3. Rooted(names)[1] = <<Slash>> \o names[1] /\ names[1] \in Seq(Chars)
          BY <1>6, <4>1, ElementIs DEF Rooted
        <4>4. \A x \in Seq(Chars) : <<Slash>> \o x # <<>>
          BY CharsAre
        <4>5. Rooted(names)[1] # <<>>
          BY <4>3, <4>4
        <4>. QED  BY <4>1, <4>2, <4>5, ElementIs
      <3>. QED  BY <3>1, FlattenHead DEF Roots
    <2>2. Len(Roots(names)) \in Nat \ {0}
      BY <1>7, <2>1
    <2>3. Len(t) > 1
      BY <1>13, <2>2
    <2>4. Spelt(names) = Roots(names)
      BY <1>15 DEF Spelt, Roots, Rooted
    <2>. QED  BY <1>13, <2>3, <2>4
  <1>. QED  BY <1>14, <1>15

----------------------------------------------------------------------------
(* What is in the buffer at the cursor *)

End == ""

LEMMA EndIsNone == End \notin Chars /\ End # Slash /\ End # Dot
  <1>1. End \notin Chars
    BY Zenon, CdAssumption DEF End
  <1>. QED  BY <1>1, CharsAre

LEMMA AtIs ==
    ASSUME NEW i
    PROVE  /\ i <= Len(call.dest) => At(i) = call.dest[i]
           /\ ~(i <= Len(call.dest)) => At(i) = End
  BY Zenon DEF At, End

LEMMA JoiningIs ==
    ASSUME call.dest \in Seq(Chars), call.seek \in 1 .. Len(call.dest) + 1
    PROVE  Joining <=> call.phase = "join" /\ call.seek <= Len(call.dest)
  <1>1. Joining <=> call.phase = "join" /\ At(call.seek) # End
    BY Zenon DEF Joining, End
  <1>2. call.seek <= Len(call.dest) => call.dest[call.seek] \in Chars
    OBVIOUS
  <1>. QED  BY <1>1, <1>2, AtIs, EndIsNone

LEMMA FollowsIs ==
    ASSUME call.dest \in Seq(Chars), call.seek \in 1 .. Len(call.dest)
    PROVE  LET t == call.dest
               k == call.seek
           IN /\ Follows(<<Slash>>) <=> k + 1 <= Len(t) /\ t[k + 1] = Slash
              /\ Follows(<<".", Slash>>) <=>
                   k + 2 <= Len(t) /\ t[k + 1] = Dot /\ t[k + 2] = Slash
              /\ Follows(Up) <=>
                   k + 3 <= Len(t) /\ t[k + 1] = Dot /\ t[k + 2] = Dot /\ t[k + 3] = Slash
  <1>. DEFINE t == call.dest
              k == call.seek
  <1>1. Len(t) \in Nat /\ k \in Nat
    OBVIOUS
  <1>2. DOMAIN <<Slash>> = {1} /\ DOMAIN <<Dot, Slash>> = {1, 2}
        /\ DOMAIN <<Dot, Dot, Slash>> = {1, 2, 3}
    OBVIOUS
  <1>. HIDE DEF t, k
  <1>3. Follows(<<Slash>>) <=> At(k + 1) = Slash
    BY <1>2 DEF Follows, k
  <1>4. Follows(<<".", Slash>>) <=> At(k + 1) = Dot /\ At(k + 2) = Slash
    <2>1. Follows(<<Dot, Slash>>) <=> At(k + 1) = Dot /\ At(k + 2) = Slash
      BY <1>2 DEF Follows, k
    <2>. QED  BY <2>1 DEF Dot
  <1>5. Follows(Up) <=> At(k + 1) = Dot /\ At(k + 2) = Dot /\ At(k + 3) = Slash
    <2>1. Follows(<<Dot, Dot, Slash>>)
            <=> At(k + 1) = Dot /\ At(k + 2) = Dot /\ At(k + 3) = Slash
      BY <1>2 DEF Follows, k
    <2>. QED  BY <2>1 DEF Dot, Up
  <1>6. \A i : (i <= Len(t) => At(i) = t[i]) /\ (~(i <= Len(t)) => At(i) = End)
    BY AtIs DEF t
  <1>7. /\ k + 2 <= Len(t) => k + 1 <= Len(t)
        /\ k + 3 <= Len(t) => k + 1 <= Len(t) /\ k + 2 <= Len(t)
    BY <1>1
  <1>. QED  BY <1>3, <1>4, <1>5, <1>6, <1>7, EndIsNone DEF t, k

----------------------------------------------------------------------------
(* Every step keeps what the path leads to *)

IsPath(p) == p \in Seq(Chars) /\ p # <<>> /\ p[1] = Slash

Resolves ==
    /\ env.OLDPWD \in Seq(Chars) /\ (env.PWD # <<>> => IsPath(env.PWD))
    /\ call.phase = "join" => Resolving(call.dest, call.seek, Names(Origin))
    /\ call.phase = "joined" => call.dest = Spelt(Names(Origin))

LEMMA TextIs ==
    ASSUME NEW d \in Dirs
    PROVE  IsPath(Text(d))
  <1>. SUFFICES Text(d) \in Seq(Chars) /\ Text(d) # <<>> /\ Text(d)[1] = Slash
    BY DEF IsPath
  <1>1. d \in Seq(Chars)
    <2>1. d \in Seq(Chars \ {Slash, "."})
      BY Zenon, CdAssumption
    <2>. QED  BY <2>1
  <1>2. CASE d = <<>>
    BY <1>2, CharsAre DEF Text
  <1>3. CASE d # <<>>
    <2>. DEFINE s == [i \in DOMAIN d |-> <<Slash, d[i]>>]
    <2>1. DOMAIN d = 1 .. Len(d) /\ Len(d) \in Nat \ {0}
      BY <1>1, <1>3
    <2>2. ASSUME NEW c \in Chars
          PROVE  <<Slash, c>> \in Seq(Chars) /\ <<Slash, c>> # <<>> /\ <<Slash, c>>[1] = Slash
      BY CharsAre
    <2>3. s \in [1 .. Len(d) -> Seq(Chars)]
      BY <1>1, <2>1, <2>2
    <2>4. s[1] = <<Slash, d[1]>> /\ d[1] \in Chars
      BY <1>1, <2>1
    <2>5. Text(d) = FlattenSeq(s)
      BY <1>3 DEF Text
    <2>. HIDE DEF s
    <2>6. s \in Seq(Seq(Chars)) /\ Len(s) = Len(d)
      BY <2>1, <2>3, FunctionIs
    <2>7. s[1] # <<>> /\ s[1][1] = Slash
      BY <2>2, <2>4
    <2>8. s # <<>>
      BY <2>1, <2>6
    <2>9. <<>> \in Seq(Chars)
      OBVIOUS
    <2>. QED  BY <2>5, <2>6, <2>7, <2>8, <2>9, FlattenAppend, FlattenHead
  <1>. QED  BY <1>2, <1>3

LEMMA WorkingDirectoryIsPath ==
    ASSUME Inv, Resolves
    PROVE  IsPath(WorkingDirectory)
  BY TextIs DEF WorkingDirectory, Inv, Shaped, Resolves

LEMMA ChdirResolves ==
    ASSUME Inv, Resolves, NEW dir \in Seq(Chars), Chdir(dir), UNCHANGED <<cwd, env, was>>
    PROVE  Resolves'
  <1>1. CASE dir = <<>>
    BY <1>1 DEF Chdir, Resolves
  <1>2. CASE dir # <<>>
    <2>. DEFINE base   == WorkingDirectory
                origin == IF dir[1] = Slash THEN dir ELSE base \o <<Slash>> \o dir
    <2>1. IsPath(base) /\ (was # <<>> => base = Text(cwd))
      BY WorkingDirectoryIsPath, WorkingDirectoryIsTrue
    <2>2. /\ call'.phase = "join" /\ call'.dir = dir /\ call'.seek = 1
          /\ call'.dest = origin \o <<Slash>> /\ call'.old = base
      BY <1>2 DEF Chdir
    <2>. HIDE DEF base
    <2>3. origin \in Seq(Chars) /\ origin # <<>> /\ origin[1] = Slash
      <3>1. CASE dir[1] = Slash
        BY <1>2, <3>1
      <3>2. CASE dir[1] # Slash
        <4>1. base \in Seq(Chars) /\ base # <<>> /\ base[1] = Slash
          BY <2>1 DEF IsPath
        <4>2. <<Slash>> \o dir \in Seq(Chars)
          BY CharsAre
        <4>3. base \o (<<Slash>> \o dir) \in Seq(Chars)
              /\ base \o (<<Slash>> \o dir) # <<>>
              /\ (base \o (<<Slash>> \o dir))[1] = Slash
          BY <4>1, <4>2, JoinIs
        <4>4. base \o (<<Slash>> \o dir) = base \o <<Slash>> \o dir
          <5>1. <<Slash>> \in Seq(Chars)
            BY CharsAre
          <5>. QED  BY <4>1, <5>1, ConcatAssociative
        <4>. QED  BY <3>2, <4>3, <4>4
      <3>. QED  BY <3>1, <3>2
    <2>4. Origin' = origin
      BY <2>1, <2>2 DEF Origin
    <2>. HIDE DEF origin
    <2>5. call'.dest = Append(origin, Slash)
      BY <2>2, <2>3, CharsAre, AppendIsConcat
    <2>6. Resolving(call'.dest, call'.seek, Names(Origin'))
      BY <2>2, <2>3, <2>4, <2>5, ResolvingBegins
    <2>7. Resolving(call.dest, call.seek, Names(Origin))'
      BY <2>6
    <2>. QED  BY <2>2, <2>7 DEF Resolves
  <1>. QED  BY <1>1, <1>2

LEMMA CallResolves ==
    ASSUME Inv, Resolves, CdArgument \/ CdHome \/ CdMinus
    PROVE  Resolves'
  <1>1. UNCHANGED <<cwd, env, was>> /\ call.phase = "idle"
    BY DEF CdArgument, CdHome, CdMinus, Called
  <1>2. Args \subseteq Seq(Chars) /\ Home \in Seq(Chars)
    BY Zenon, CdAssumption
  <1>3. CASE UNCHANGED call
    BY <1>1, <1>3 DEF Resolves
  <1>4. CASE \E dir \in Seq(Chars) : Chdir(dir)
    BY <1>1, <1>4, ChdirResolves
  <1>5. env.OLDPWD \in Seq(Chars)
    BY DEF Resolves
  <1>6. CASE call' \in {Idle, [Idle EXCEPT !.phase = "aborted"]}
    <2>1. call'.phase \in {"idle", "aborted"}
      BY <1>6 DEF Idle
    <2>. QED  BY <1>1, <2>1 DEF Resolves
  <1>. QED  BY <1>2, <1>3, <1>4, <1>5, <1>6 DEF CdArgument, CdHome, CdMinus

LEMMA BeforeIs ==
    ASSUME call.dest \in Seq(Chars), call.seek \in 1 .. Len(call.dest), call.dest[1] = Slash
    PROVE  LET t == call.dest
               k == call.seek
           IN /\ Before \in 1 .. k /\ t[Before] = Slash /\ (Before = k => k = 1)
              /\ \A i \in Before + 1 .. k - 1 : t[i] # Slash
  <1>. DEFINE t == call.dest
              k == call.seek
              S == {i \in 1 .. k : t[i] = Slash /\ (i < k \/ i = 1)}
  <1>1. Len(t) \in Nat /\ k \in Nat /\ 1 <= k /\ k <= Len(t)
    OBVIOUS
  <1>2. \A i \in 1 .. k : At(i) = t[i]
    <2>1. \A i \in 1 .. k : i <= Len(t)
      BY <1>1
    <2>. QED  BY <2>1, AtIs
  <1>3. Before = CHOOSE i \in S : \A j \in S : j <= i
    <2>1. {i \in 1 .. k : At(i) = Slash /\ (i < k \/ i = 1)} = S
      BY <1>2
    <2>. QED  BY <2>1, Zenon DEF Before
  <1>4. \E i \in S : \A j \in S : j <= i
    <2>1. CASE k = 1
      <3>1. 1 \in S /\ \A j \in S : j <= 1
        BY <1>1, <2>1
      <3>. QED  BY <3>1
    <2>2. CASE k # 1
      <3>1. k \in 2 .. Len(t)
        BY <1>1, <2>2
      <3>2. PICK p \in 1 .. k - 1 : t[p] = Slash /\ \A i \in p + 1 .. k - 1 : t[i] # Slash
        BY <3>1, LastSlash
      <3>3. p \in S
        BY <1>1, <3>2
      <3>4. ASSUME NEW j \in S PROVE j <= p
        <4>1. j \in 1 .. k - 1 /\ t[j] = Slash
          BY <1>1, <2>2
        <4>2. j \notin p + 1 .. k - 1
          BY <3>2, <4>1
        <4>. QED  BY <1>1, <4>1, <4>2
      <3>. HIDE DEF S
      <3>. QED  BY <3>3, <3>4
    <2>. QED  BY <2>1, <2>2
  <1>. DEFINE b == Before
  <1>5. b \in S /\ \A j \in S : j <= b
    <2>. HIDE DEF S
    <2>. QED  BY <1>3, <1>4
  <1>. HIDE DEF b
  <1>6. b \in 1 .. k /\ t[b] = Slash /\ (b = k => k = 1)
    BY <1>1, <1>5
  <1>7. ASSUME NEW i \in b + 1 .. k - 1, t[i] = Slash PROVE FALSE
    <2>1. i \in S /\ ~(i <= b)
      BY <1>1, <1>6, <1>7
    <2>. HIDE DEF S
    <2>. QED  BY <1>5, <2>1
  <1>. QED  BY <1>6, <1>7 DEF b

LEMMA JoinResolves ==
    ASSUME Inv, Resolves, Skip \/ Shorten \/ Parent \/ EndJoin \/ Fails
    PROVE  Resolves'
  <1>1. UNCHANGED <<cwd, env, was>> /\ env.OLDPWD \in Seq(Chars)
        /\ (env.PWD # <<>> => IsPath(env.PWD))
    BY DEF Skip, Shorten, Parent, EndJoin, Fails, Resolves
  <1>2. call = [phase |-> call.phase, dir |-> call.dir, dest |-> call.dest,
                seek |-> call.seek, old |-> call.old]
    BY DEF Inv, Shaped
  <1>. DEFINE t == call.dest
              k == call.seek
              names == Names(Origin)
  <1>3. ASSUME call.phase = "join"
        PROVE  /\ Resolving(t, k, names) /\ t \in Seq(Chars) /\ Len(t) \in Nat
               /\ k \in 1 .. Len(t) + 1 /\ k \in Nat /\ t[1] = Slash
    <2>1. Resolving(t, k, names)
      BY <1>3 DEF Resolves
    <2>. QED  BY <2>1 DEF Resolving
  <1>4. ASSUME NEW dest, NEW seek, call' = [call EXCEPT !.dest = dest, !.seek = seek],
               call.phase = "join", Resolving(dest, seek, names)
        PROVE  Resolves'
    <2>1. call'.phase = "join" /\ call'.dir = call.dir /\ call'.dest = dest /\ call'.seek = seek
          /\ call'.old = call.old
      BY <1>2, <1>4
    <2>2. Origin' = Origin
      BY <1>1, <2>1 DEF Origin
    <2>3. Resolving(call.dest, call.seek, Names(Origin))'
      BY <1>4, <2>1, <2>2
    <2>. QED  BY <1>1, <2>1, <2>3 DEF Resolves
  <1>5. ASSUME Joining
        PROVE  call.phase = "join" /\ k \in 1 .. Len(t) /\ At(k) = t[k]
    <2>1. call.phase = "join"
      BY <1>5 DEF Joining
    <2>2. k <= Len(t)
      BY <1>3, <1>5, <2>1, JoiningIs
    <2>. QED  BY <1>3, <2>1, <2>2, AtIs
  <1>6. CASE Skip
    <2>1. Joining /\ call' = [call EXCEPT !.dest = t, !.seek = k + 1]
      BY <1>2, <1>6 DEF Skip
    <2>2. t[k] = Slash => ~Dotted(t, k)
      <3>1. /\ Follows(<<Slash>>) <=> k + 1 <= Len(t) /\ t[k + 1] = Slash
            /\ Follows(<<".", Slash>>) <=>
                 k + 2 <= Len(t) /\ t[k + 1] = Dot /\ t[k + 2] = Slash
            /\ Follows(Up) <=>
                 k + 3 <= Len(t) /\ t[k + 1] = Dot /\ t[k + 2] = Dot /\ t[k + 3] = Slash
        BY <1>3, <1>5, <2>1, FollowsIs
      <3>2. At(k) # Slash \/ (/\ ~Follows(<<Slash>>) /\ ~Follows(<<".", Slash>>)
                              /\ ~Follows(Up))
        BY <1>6 DEF Skip
      <3>. QED  BY <1>5, <2>1, <3>1, <3>2, Zenon DEF Dotted
    <2>3. k <= Len(t)
      BY <1>5, <2>1
    <2>. HIDE DEF t, k, names
    <2>4. Resolving(t, k + 1, names)
      BY <1>3, <1>5, <2>1, <2>2, <2>3, ResolvingSkips
    <2>. QED  BY <1>4, <1>5, <2>1, <2>4
  <1>7. CASE Shorten
    <2>1. Joining /\ t[k] = Slash
      BY <1>5, <1>7 DEF Shorten, AtSlash
    <2>2. /\ Follows(<<Slash>>) <=> k + 1 <= Len(t) /\ t[k + 1] = Slash
          /\ Follows(<<".", Slash>>) <=>
               k + 2 <= Len(t) /\ t[k + 1] = Dot /\ t[k + 2] = Slash
      BY <1>3, <1>5, <2>1, FollowsIs
    <2>3. PICK m : /\ m = k + 1 \/ (m = k + 2 /\ t[k + 1] = Dot)
                   /\ m <= Len(t) /\ t[m] = Slash
                   /\ call' = [call EXCEPT !.dest = Copy(m, k)]
      BY <1>7, <2>2 DEF Shorten
    <2>4. call' = [call EXCEPT !.dest = Cut(t, k, m), !.seek = k]
      BY <1>2, <2>3 DEF Copy, Cut
    <2>5. k <= Len(t)
      BY <1>5, <2>1
    <2>. HIDE DEF t, k, names
    <2>6. Resolving(Cut(t, k, m), k, names)
      BY <1>3, <1>5, <2>1, <2>3, <2>5, ResolvingShortens
    <2>. QED  BY <1>4, <1>5, <2>1, <2>4, <2>6
  <1>8. CASE Parent
    <2>. DEFINE b == Before
    <2>1. Joining /\ t[k] = Slash /\ Follows(Up)
      BY <1>5, <1>8 DEF Parent, AtSlash
    <2>2. k + 3 <= Len(t) /\ t[k + 1] = Dot /\ t[k + 2] = Dot /\ t[k + 3] = Slash
      BY <1>3, <1>5, <2>1, FollowsIs
    <2>3. b \in 1 .. k /\ t[b] = Slash /\ (b = k => k = 1) /\ \A i \in b + 1 .. k - 1 : t[i] # Slash
      BY <1>3, <1>5, <2>1, BeforeIs
    <2>4. call' = [call EXCEPT !.dest = Cut(t, b, k + 3), !.seek = b]
      BY <1>8 DEF Parent, Copy, Cut
    <2>. HIDE DEF t, k, names, b
    <2>5. Resolving(Cut(t, b, k + 3), b, names)
      BY <1>3, <1>5, <2>1, <2>2, <2>3, ResolvingGoesUp
    <2>. QED  BY <1>4, <1>5, <2>1, <2>4, <2>5
  <1>9. CASE EndJoin
    <2>1. call.phase = "join" /\ ~Joining
      BY <1>9 DEF EndJoin
    <2>2. k = Len(t) + 1
      <3>1. ~(k <= Len(t))
        BY <1>3, <2>1, JoiningIs
      <3>. QED  BY <1>3, <2>1, <3>1
    <2>3. call'.phase = "joined" /\ call'.dir = call.dir /\ call'.old = call.old
          /\ call'.dest = IF Len(t) > 1 THEN Front(t) ELSE t
      BY <1>2, <1>9 DEF EndJoin
    <2>4. Origin' = Origin
      BY <1>1, <2>3 DEF Origin
    <2>. HIDE DEF t, k, names
    <2>5. (IF Len(t) > 1 THEN Front(t) ELSE t) = Spelt(names)
      BY <1>3, <2>1, <2>2, ResolvingEnds
    <2>6. call'.dest = Spelt(Names(Origin))'
      BY <2>3, <2>4, <2>5 DEF names
    <2>. QED  BY <1>1, <2>3, <2>6 DEF Resolves
  <1>10. CASE Fails
    <2>1. call'.phase = "idle"
      BY <1>10 DEF Fails, Idle
    <2>. QED  BY <1>1, <2>1 DEF Resolves
  <1>. QED  BY <1>6, <1>7, <1>8, <1>9, <1>10

\* The environment, the tables, the call and its path agree in every state.
THEOREM ResolvesHolds == Spec => []Resolves
  <1>1. Init => Resolves
    <2>. SUFFICES ASSUME Init
                  PROVE  Resolves
      OBVIOUS
    <2>1. Inherited \subseteq Seq(Chars) /\ <<>> \in Seq(Chars)
      BY Zenon, CdAssumption, EmptySeq
    <2>2. call.phase = "idle"
      BY DEF Init, Idle
    <2>3. env.OLDPWD \in {<<>>} \cup Inherited
          /\ env.PWD \in {<<>>} \cup {path \in Inherited : path # <<>> /\ path[1] = Slash}
      BY DEF Init
    <2>. QED  BY <2>1, <2>2, <2>3 DEF Resolves, IsPath
  <1>2. Inv /\ Resolves /\ [Next]_vars => Resolves'
    <2>. SUFFICES ASSUME Inv, Resolves, [Next]_vars
                  PROVE  Resolves'
      OBVIOUS
    <2>1. CASE Moves
      <3>1. call'.phase = "idle" /\ env'.OLDPWD = call.old /\ call.phase = "joined"
        BY <2>1 DEF Moves, Idle
      <3>2. call.old \in Seq(Chars)
        BY <3>1, WorkingDirectoryIsPath DEF Inv, CallRemembers, IsPath
      <3>3. IsPath(env'.PWD)
        <4>1. PICK d \in Dirs : Text(d) = call.dest
          BY <2>1 DEF Moves, Exists
        <4>2. env'.PWD = call.dest
          BY <2>1 DEF Moves
        <4>. QED  BY <4>1, <4>2, TextIs
      <3>. QED  BY <3>1, <3>2, <3>3 DEF Resolves
    <2>2. CASE EnterSubshell \/ LeaveSubshell \/ SetByHand
      <3>1. UNCHANGED <<cwd, env, call, was>>
        BY <2>2 DEF EnterSubshell, LeaveSubshell, SetByHand
      <3>. QED  BY <3>1 DEF Resolves, Origin
    <2>3. CASE UNCHANGED vars
      BY <2>3 DEF vars, Resolves, Origin
    <2>. QED  BY <2>1, <2>2, <2>3, CallResolves, JoinResolves DEF Next
  <1>. QED  BY <1>1, <1>2, InvHolds, PTL DEF Spec

\* The path given to chdir(2), made in place in one buffer, is the one of the
\* names left when the components of the argument are applied one by one.
THEOREM PathResolved == Spec => []PathIsResolved
  <1>1. Resolves => PathIsResolved
    BY DEF Resolves, PathIsResolved
  <1>. QED  BY <1>1, ResolvesHolds, PTL

=============================================================================
