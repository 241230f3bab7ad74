--------------------------------- MODULE Cd ---------------------------------
(***************************************************************************)
(* The builtin cd (bi_cd.c): the path it makes, character by character in  *)
(* one buffer, and the four places that say where the shell is: the kernel,*)
(* the C environment, the symbol table of the shell and those its          *)
(* subshells clone (rl_subshell.c).  A subshell is no process: there is    *)
(* one kernel directory and one C environment for all of them.             *)
(*                                                                         *)
(* Paths are shorter than PATH_MAX, no directory is a symbolic link, and a *)
(* PWD that the shell inherits is an absolute path: right or stale, but a  *)
(* relative one would let the search for a slash leave the buffer.         *)
(***************************************************************************)
EXTENDS Naturals, Sequences, SequencesExt

CONSTANTS
    Chars,    \* characters of a path
    Dirs,     \* directories that exist: sequences of names, of one character
    Home,     \* HOME, <<>> when it is unset or empty
    Inherited, \* what PWD and OLDPWD may be when the shell starts
    Given,    \* what a command may set them to, <<>> to unset
    Args,     \* what cd is called with
    MaxCalls, \* bound on the calls of cd
    MaxDepth  \* bound on nested subshells

\* Text of a directory: "/a/b", and "/" for the root.
Slash == "/"
Text(d) ==
    IF d = <<>> THEN <<Slash>> ELSE FlattenSeq([i \in DOMAIN d |-> <<Slash, d[i]>>])

ASSUME CdAssumption ==
    /\ {Slash, "."} \subseteq Chars /\ "" \notin Chars
    /\ Args \subseteq Seq(Chars) /\ Home \in Seq(Chars)
    /\ <<>> \in Dirs /\ Dirs \subseteq Seq(Chars \ {Slash, "."})
    /\ \A d \in Dirs : d # <<>> => Front(d) \in Dirs
    /\ Home # <<>> => Home[1] = Slash
    /\ Inherited \subseteq Seq(Chars)
    /\ MaxCalls \in Nat /\ MaxDepth \in Nat

VARIABLES
    cwd,    \* the directory of the process
    env,    \* PWD and OLDPWD of the C environment, <<>> when unset
    tables, \* the same of each live symbol table, the shell's first; `behind`:
            \* a command has set it, or a subshell has called cd, since cd did
    call,   \* the call of cd, if phase is not "idle"
    was,    \* directories the process has left, the latest last
    calls   \* calls of cd so far

vars == <<cwd, env, tables, call, was, calls>>

Idle == [phase |-> "idle", dir |-> <<>>, dest |-> <<>>, seek |-> 1, old |-> <<>>]

\* symtab_fill_with_env_vars copies the environment, which nobody checks.
Init ==
    /\ cwd \in Dirs
    /\ env \in [PWD    : {<<>>} \cup {path \in Inherited : path # <<>> /\ path[1] = Slash},
               OLDPWD : {<<>>} \cup Inherited]
    /\ tables = <<[PWD |-> env.PWD, OLDPWD |-> env.OLDPWD, behind |-> FALSE]>>
    /\ call = Idle /\ was = <<>> /\ calls = 0

----------------------------------------------------------------------------
(* Calling cd *)

\* __get_working_directory
WorkingDirectory == IF env.PWD # <<>> THEN env.PWD ELSE Text(cwd)

\* __chdir, up to the loop of __join_dirs.  An empty path fails its assertion.
Chdir(dir) ==
    call' = [phase |-> IF dir = <<>> THEN "aborted" ELSE "join",
             dir   |-> dir,
             dest  |-> (IF dir # <<>> /\ dir[1] = Slash THEN dir
                        ELSE WorkingDirectory \o <<Slash>> \o dir) \o <<Slash>>,
             seek  |-> 1,
             old   |-> WorkingDirectory]

Called ==
    /\ call.phase = "idle" /\ calls < MaxCalls /\ calls' = calls + 1
    /\ UNCHANGED <<cwd, env, tables, was>>

\* bi_cd.  Without HOME nothing happens.  Without OLDPWD `cd -` prints a null
\* pointer with "%s\n": the C library prints something, or the shell dies.
CdArgument == Called /\ \E dir \in Args : Chdir(dir)
CdHome     == Called /\ IF Home # <<>> THEN Chdir(Home) ELSE UNCHANGED call
CdMinus    == Called /\ IF env.OLDPWD # <<>> THEN Chdir(env.OLDPWD)
                        ELSE call' \in {Idle, [Idle EXCEPT !.phase = "aborted"]}

----------------------------------------------------------------------------
(* __join_dirs *)

At(i)    == IF i <= Len(call.dest) THEN call.dest[i] ELSE ""
Joining  == call.phase = "join" /\ At(call.seek) # ""
AtSlash  == Joining /\ At(call.seek) = Slash
Follows(s) == \A i \in DOMAIN s : At(call.seek + i) = s[i]
Up == <<".", ".", Slash>>

\* __my_strcpy(src, dest)
Copy(src, dst) == SubSeq(call.dest, 1, dst - 1) \o SubSeq(call.dest, src, Len(call.dest))

Skip ==
    /\ Joining
    /\ At(call.seek) # Slash \/ (/\ ~Follows(<<Slash>>) /\ ~Follows(<<".", Slash>>)
                                 /\ ~Follows(Up))
    /\ call' = [call EXCEPT !.seek = @ + 1]
    /\ UNCHANGED <<cwd, env, tables, was, calls>>

\* Remove double slash, and '/./'.
Shorten ==
    /\ AtSlash
    /\ \/ Follows(<<Slash>>)      /\ call' = [call EXCEPT !.dest = Copy(call.seek + 1, call.seek)]
       \/ Follows(<<".", Slash>>) /\ call' = [call EXCEPT !.dest = Copy(call.seek + 2, call.seek)]
    /\ UNCHANGED <<cwd, env, tables, was, calls>>

\* The slash before the last name kept; the root is its own parent.
Before ==
    LET slashes == {i \in 1 .. call.seek : At(i) = Slash /\ (i < call.seek \/ i = 1)}
    IN CHOOSE i \in slashes : \A j \in slashes : j <= i

\* Mutant of Parent: the loop goes on from where it was.
ParentStays ==
    /\ AtSlash /\ Follows(Up)
    /\ call' = [call EXCEPT !.dest = Copy(call.seek + 3, Before)]
    /\ UNCHANGED <<cwd, env, tables, was, calls>>

\* Process '/../'.
Parent ==
    /\ AtSlash /\ Follows(Up)
    /\ call' = [call EXCEPT !.dest = Copy(call.seek + 3, Before), !.seek = Before]
    /\ UNCHANGED <<cwd, env, tables, was, calls>>

\* Remove last slash.
EndJoin ==
    /\ call.phase = "join" /\ ~Joining
    /\ call' = [call EXCEPT !.phase = "joined",
                            !.dest = IF Len(@) > 1 THEN Front(@) ELSE @]
    /\ UNCHANGED <<cwd, env, tables, was, calls>>

----------------------------------------------------------------------------
(* The directory changes, or does not *)

\* chdir(2) is given a path without dots.
Exists == \E d \in Dirs : Text(d) = call.dest

Fails ==
    /\ call.phase = "joined" /\ ~Exists
    /\ call' = Idle
    /\ UNCHANGED <<cwd, env, tables, was, calls>>

\* Mutant of Moves: PWD is taken for the old directory once it is the new one.
MovesLate ==
    /\ call.phase = "joined" /\ Exists
    /\ cwd' = (CHOOSE d \in Dirs : Text(d) = call.dest)
    /\ env' = [PWD |-> call.dest, OLDPWD |-> call.dest]
    /\ tables' = [i \in DOMAIN tables |->
                    IF i = Len(tables)
                      THEN [PWD |-> call.dest, OLDPWD |-> call.dest, behind |-> FALSE]
                      ELSE [tables[i] EXCEPT !.behind = TRUE]]
    /\ was' = Append(was, cwd)
    /\ call' = Idle /\ UNCHANGED calls

\* setenv, and symtab_add to the table of the context.
Moves ==
    /\ call.phase = "joined" /\ Exists
    /\ cwd' = (CHOOSE d \in Dirs : Text(d) = call.dest)
    /\ env' = [PWD |-> call.dest, OLDPWD |-> call.old]
    /\ tables' = [i \in DOMAIN tables |->
                    IF i = Len(tables)
                      THEN [PWD |-> call.dest, OLDPWD |-> call.old, behind |-> FALSE]
                      ELSE [tables[i] EXCEPT !.behind = TRUE]]
    /\ was' = Append(was, cwd)
    /\ call' = Idle /\ UNCHANGED calls

----------------------------------------------------------------------------
(* What happens between two calls *)

\* rl_exec_subshell
EnterSubshell ==
    /\ call.phase = "idle" /\ Len(tables) <= MaxDepth
    /\ tables' = Append(tables, Last(tables))
    /\ UNCHANGED <<cwd, env, call, was, calls>>

LeaveSubshell ==
    /\ call.phase = "idle" /\ Len(tables) > 1
    /\ tables' = Front(tables)
    /\ UNCHANGED <<cwd, env, call, was, calls>>

\* `PWD=path`, `export OLDPWD=path` and `unset PWD` change the symbol table of
\* the command; the C environment keeps its own.
SetByHand ==
    /\ call.phase = "idle"
    /\ \E name \in {"PWD", "OLDPWD"}, path \in Given :
         tables' = [tables EXCEPT ![Len(tables)] = [@ EXCEPT ![name] = path, !.behind = TRUE]]
    /\ UNCHANGED <<cwd, env, call, was, calls>>

Next ==
    \/ CdArgument \/ CdHome \/ CdMinus
    \/ Skip \/ Shorten \/ Parent \/ EndJoin \/ Fails \/ Moves
    \/ EnterSubshell \/ LeaveSubshell \/ SetByHand

Spec == Init /\ [][Next]_vars

----------------------------------------------------------------------------
(* Properties *)

\* A path by its names: `.` stays, `..` goes up unless at the root.
Enter(names, name) ==
    CASE name \in {<<>>, <<".">>} -> names
      [] name = <<".", ".">>      -> IF names = <<>> THEN <<>> ELSE Front(names)
      [] OTHER                    -> Append(names, name)

\* A character of it: each slash, and the end, enters the name before.
Start == [names |-> <<>>, name |-> <<>>]
Take(at, c) ==
    IF c = Slash THEN [names |-> Enter(at.names, at.name), name |-> <<>>]
    ELSE [at EXCEPT !.name = Append(@, c)]

Names(path) ==
    LET text == Append(path, Slash)
        read[i \in 0 .. Len(text)] == IF i = 0 THEN Start ELSE Take(read[i - 1], text[i])
    IN read[Len(text)].names

Spelt(names) ==
    IF names = <<>> THEN <<Slash>> ELSE FlattenSeq([i \in DOMAIN names |-> <<Slash>> \o names[i]])

\* What cd was asked for, from the root: from where the process is, and before
\* its first move from where the inherited PWD says.
Origin ==
    IF call.dir[1] = Slash THEN call.dir
    ELSE (IF was = <<>> THEN call.old ELSE Text(cwd)) \o <<Slash>> \o call.dir

\* The text __join_dirs makes in place, moving back at each `..`, is the one of
\* the names left when each component is applied in turn to the directory the
\* process is in, or to the root.
PathIsResolved == call.phase = "joined" => call.dest = Spelt(Names(Origin))

\* From the first move on the C environment names the directory the process is
\* in, and from the second the one before, whatever was inherited, set by hand
\* or entered and left as a subshell between; so does the table of the command
\* that runs, unless it was set by hand or a subshell it was cloned for has
\* called cd (rl_subshell.c gives back the symbols, not the directory).
PlaceAgrees ==
    call.phase = "idle" =>
        /\ was # <<>> => env.PWD = Text(cwd)
        /\ Len(was) > 1 => env.OLDPWD = Text(Last(was))
        /\ ~Last(tables).behind =>
             Last(tables) = [PWD |-> env.PWD, OLDPWD |-> env.OLDPWD, behind |-> FALSE]

=============================================================================
