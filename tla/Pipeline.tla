------------------------------ MODULE Pipeline ------------------------------
(***************************************************************************)
(* Pipelines (rl_pipeline.c) and command substitutions (symexp.c): the     *)
(* shell, the processes it forks, and the pipes between them.              *)
(*                                                                         *)
(* The shell forks only for external commands.  It runs builtins and       *)
(* compound commands itself, with its own descriptors 0, 1 and 2 moved     *)
(* onto the pipes and moved back, so whether a reader ever sees the end of *)
(* a pipe depends on which descriptors the shell still has open.           *)
(*                                                                         *)
(* A table of descriptors maps each number to the file it is open on; new  *)
(* numbers are the lowest free ones, as in the system.  Lists (the top     *)
(* level, a group, a substitution) and pipelines nest: the stack holds     *)
(* them from the outermost to the innermost.                               *)
(***************************************************************************)
EXTENDS Integers, Sequences, FiniteSets

CONSTANTS
    Kind,         \* kinds of command: "simple", "shell" (compound), "fundec"
    Feature,      \* what a script may use: "input", "output" (redirections),
                  \* "subst" (command substitution), "exit", "not" (!),
                  \* "break" (and continue)
    Compound,     \* compound commands: "group", "subshell", "loop"
    Code,         \* exit codes of commands
    Capacity,     \* bytes a pipe holds
    MaxOut,       \* bound on the bytes an external command writes
    MaxBuiltin,   \* bound on the bytes a builtin writes
    MaxFd,        \* size of a table of descriptors
    MaxCmds,      \* bound on the commands of a pipeline
    MaxProcs,     \* bound on the processes a behaviour forks
    MaxPipelines, \* bound on the pipelines a behaviour starts
    MaxDepth      \* bound on the length of the stack: a pipeline is started
                  \* when it fits with the list of one of its commands

ASSUME PipelineAssumption ==
    /\ Kind \subseteq {"simple", "shell", "fundec"}
    /\ Feature \subseteq {"input", "output", "subst", "exit", "not", "break"}
    /\ Compound \subseteq {"group", "subshell", "loop"}
    /\ Code \subseteq 0 .. 255 /\ Code # {}
    /\ Capacity \in Nat \ {0} /\ MaxCmds \in Nat \ {0}
    /\ {MaxOut, MaxBuiltin, MaxProcs, MaxPipelines} \subseteq Nat /\ MaxDepth \in Nat \ {0}
    /\ MaxFd \in Nat /\ MaxFd > 3

VARIABLES
    shell,   \* "alive", or how the shell ended
    fds,     \* the shell's table of descriptors
    stack,   \* lists and pipelines being executed
    procs,   \* processes the shell has forked, by process id
    pipes,   \* bytes in each pipe made so far
    started, \* number of pipelines started
    failed,  \* a call has run out of descriptors (read by the properties only)
    jumped   \* exit, break or continue has left a pipeline that was being run,
             \* and what that pipeline had still to do is not done (likewise)

vars == <<shell, fds, stack, procs, pipes, started, failed, jumped>>

----------------------------------------------------------------------------
(* Descriptors *)

Tty       == <<"tty", 0>>
File      == <<"file", 0>>   \* what a redirection opens
Reader(p) == <<"read", p>>   \* the ends of pipe p
Writer(p) == <<"write", p>>

Terminal  == [file |-> Tty, cloexec |-> FALSE]
Closed    == [file |-> <<"none", 0>>, cloexec |-> FALSE]
NoTable   == [x \in 0 .. MaxFd - 1 |-> Closed]

InUse(t)  == {x \in DOMAIN t : t[x] # Closed}
Free(t)   == {x \in DOMAIN t : t[x] = Closed}
Lowest(S) == CHOOSE x \in S : \A y \in S : x <= y
Put(t, fd, f, cloexec) == [t EXCEPT ![fd] = [file |-> f, cloexec |-> cloexec]]
Close(t, fd)  == [t EXCEPT ![fd] = Closed]
Std(t)        == [x \in 0 .. 2 |-> t[x].file]
Holds(t, f)   == \E x \in DOMAIN t : t[x].file = f

\* __redirect(oldfd, newfd, closefd)
Redirect(t, old, new, close) ==
    IF old = new THEN t
    ELSE LET u == Put(t, new, t[old].file, FALSE)
         IN IF close THEN Close(u, old) ELSE u

RestoreOne(t, i, saved) == Redirect(t, saved, i, TRUE)

\* Mutant of Restore: the loop starts from 1.
RestoreFromOne(t, saved) == RestoreOne(RestoreOne(t, 1, saved[2]), 2, saved[3])

\* The loop that puts the saved descriptors back.
Restore(t, saved) ==
    RestoreOne(RestoreOne(RestoreOne(t, 0, saved[1]), 1, saved[2]), 2, saved[3])

----------------------------------------------------------------------------
(* Lists and pipelines *)

\* node->attr.cmd; child is the process it forked, which pid stops naming once
\* the process has been waited for.
Node(kind) == [kind |-> kind, status |-> 0, child |-> 0,
               pid |-> IF kind = "fundec" THEN 0 ELSE -1]

\* A list; std is what 0, 1 and 2 were open on when it began, ran says that a
\* pipeline of it has been started, and over that exit or break has ended it.
List(of, std) == [type |-> of, phase |-> "run", std |-> std, status |-> 0,
                  reader |-> -1, saved |-> -1, ran |-> FALSE, over |-> FALSE]

PipelineOf(kinds, negate) ==
    [type |-> "pipeline", phase |-> "pipe", negate |-> negate,
     cmds |-> [i \in DOMAIN kinds |-> Node(kinds[i])],
     k |-> 1, in |-> 0, fd |-> <<-1, -1>>, saved |-> <<>>,
     left |-> 0, first |-> Len(pipes)]

Top == stack[Len(stack)]
Cmd == Top.cmds[Top.k]

InPipeline(phase) ==
    shell = "alive" /\ Top.type = "pipeline" /\ Top.phase = phase
InList == shell = "alive" /\ Top.type # "pipeline" /\ Top.phase = "run"

SetTop(f) == stack' = [stack EXCEPT ![Len(stack)] = f]
Push(f)   == stack' = Append(stack, f)

Init ==
    /\ shell = "alive"
    /\ fds = [NoTable EXCEPT ![0] = Terminal, ![1] = Terminal, ![2] = Terminal]
    /\ stack = <<List("top", [x \in 0 .. 2 |-> Tty])>>
    /\ procs = <<>> /\ pipes = <<>> /\ started = 0
    /\ failed = FALSE /\ jumped = FALSE

----------------------------------------------------------------------------
(* Processes *)

\* Processes whose table holds f; an exited process has an empty table.
Holders(f) == {p \in DOMAIN procs : Holds(procs[p].fds, f)}
HasReader(p) == Holds(fds, Reader(p)) \/ Holders(Reader(p)) # {}
HasWriter(p) == Holds(fds, Writer(p)) \/ Holders(Writer(p)) # {}

\* write() of one byte to file f: it blocks while a pipe is full.
CanWrite(f) == f[1] = "write" => pipes[f[2]] < Capacity
Written(f)  == IF f[1] = "write" THEN [pipes EXCEPT ![f[2]] = @ + 1] ELSE pipes
Broken(f)   == f[1] = "write" /\ ~HasReader(f[2])

SetProc(p, r) == procs' = [procs EXCEPT ![p] = r]

Dead(p, status) ==
    [procs[p] EXCEPT !.state = "exited", !.fds = NoTable, !.left = 0,
                     !.drains = FALSE, !.status = status]

\* execvp, which closes what is marked so; what the program will do with its
\* input and its output is not known to the shell.
Exec(p) ==
    /\ procs[p].state = "forked"
    /\ LET t == procs[p].fds IN
       \E left \in 0 .. MaxOut, drains \in BOOLEAN :
         SetProc(p, [procs[p] EXCEPT
           !.state = "running", !.left = left, !.drains = drains,
           !.fds = [x \in DOMAIN t |-> IF t[x].cloexec THEN Closed ELSE t[x]]])
    /\ UNCHANGED <<shell, fds, stack, pipes, started, failed, jumped>>

\* execvp fails: exit(127).
ExecFails(p) ==
    /\ procs[p].state = "forked"
    /\ SetProc(p, Dead(p, 127))
    /\ UNCHANGED <<shell, fds, stack, pipes, started, failed, jumped>>

ProcWrites(p) ==
    /\ procs[p].left > 0
    /\ LET f == procs[p].fds[1].file IN
         /\ ~Broken(f) /\ CanWrite(f)
         /\ pipes' = Written(f)
    /\ SetProc(p, [procs[p] EXCEPT !.left = @ - 1])
    /\ UNCHANGED <<shell, fds, stack, started, failed, jumped>>

\* A signal ends the process, and WEXITSTATUS of its status is 0.
ProcBrokenPipe(p) ==
    /\ procs[p].left > 0 /\ Broken(procs[p].fds[1].file)
    /\ SetProc(p, Dead(p, 0))
    /\ UNCHANGED <<shell, fds, stack, pipes, started, failed, jumped>>

\* A program that drains its input reads up to its end; a terminal or a file
\* ends at once.
ProcReads(p) ==
    /\ procs[p].drains
    /\ LET f == procs[p].fds[0].file IN
       \/ /\ f[1] = "read" /\ pipes[f[2]] > 0
          /\ pipes' = [pipes EXCEPT ![f[2]] = @ - 1]
          /\ UNCHANGED procs
       \/ /\ f[1] = "read" => pipes[f[2]] = 0 /\ ~HasWriter(f[2])
          /\ SetProc(p, [procs[p] EXCEPT !.drains = FALSE])
          /\ UNCHANGED pipes
    /\ UNCHANGED <<shell, fds, stack, started, failed, jumped>>

ProcExits(p) ==
    /\ procs[p].state = "running" /\ procs[p].left = 0 /\ ~procs[p].drains
    /\ \E c \in Code : SetProc(p, Dead(p, c))
    /\ UNCHANGED <<shell, fds, stack, pipes, started, failed, jumped>>

ProcStep(p) ==
    \/ Exec(p) \/ ExecFails(p)
    \/ ProcWrites(p) \/ ProcBrokenPipe(p) \/ ProcReads(p) \/ ProcExits(p)

----------------------------------------------------------------------------
(* __piperun *)

\* rl_exec_pipeline
StartPipeline(kinds, negate) ==
    /\ InList /\ ~Top.over
    /\ started < MaxPipelines /\ Len(stack) + 2 <= MaxDepth
    /\ stack' = Append([stack EXCEPT ![Len(stack)].ran = TRUE],
                       PipelineOf(kinds, negate))
    /\ started' = started + 1
    /\ UNCHANGED <<shell, fds, procs, pipes, failed, jumped>>

\* pipe(p->fd), both ends close-on-exec.
MakePipe ==
    /\ InPipeline("pipe") /\ Cardinality(Free(fds)) >= 2
    /\ LET r == Lowest(Free(fds))
           w == Lowest(Free(fds) \ {r})
           p == Len(pipes) + 1
       IN /\ fds' = Put(Put(fds, r, Reader(p), TRUE), w, Writer(p), TRUE)
          /\ SetTop([Top EXCEPT !.fd = <<r, w>>,
                       !.phase = IF Cmd.kind = "fundec" THEN "next" ELSE "save"])
    /\ pipes' = Append(pipes, 0)
    /\ UNCHANGED <<shell, procs, started, failed, jumped>>

\* pipe() fails: the rest of the pipeline is not run, only waited for.
PipeFails ==
    /\ InPipeline("pipe") /\ Cardinality(Free(fds)) < 2
    /\ SetTop([Top EXCEPT !.phase = "wait", !.k = 1])
    /\ failed' = TRUE
    /\ UNCHANGED <<shell, fds, procs, pipes, started, jumped>>

\* Mutant of SaveDescriptor: the read end is closed once the write end is on 1,
\* as a child process would.
SaveDescriptorClosesReader ==
    /\ InPipeline("save") /\ Free(fds) # {}
    /\ LET i  == Len(Top.saved)
           n  == Lowest(Free(fds))
           to == IF i = 0 THEN Top.in
                 ELSE IF i = 1 /\ Top.k < Len(Top.cmds) THEN Top.fd[2] ELSE i
           t  == Redirect(Put(fds, n, fds[i].file, TRUE), to, i, i = 0)
       IN /\ fds' = IF i = 1 THEN Close(t, Top.fd[1]) ELSE t
          /\ SetTop([Top EXCEPT !.saved = Append(@, n),
                                !.phase = IF i = 2 THEN "args" ELSE "save"])
    /\ UNCHANGED <<shell, procs, pipes, started, failed, jumped>>

\* rl_exec_simple_cmd and rl_exec_shell_cmd save 0, 1 and 2 in turn, and put
\* each on node->fd[i] before the next; fdin is closed once it is on 0.
SaveDescriptor ==
    /\ InPipeline("save") /\ Free(fds) # {}
    /\ LET i  == Len(Top.saved)
           n  == Lowest(Free(fds))
           to == IF i = 0 THEN Top.in
                 ELSE IF i = 1 /\ Top.k < Len(Top.cmds) THEN Top.fd[2] ELSE i
       IN /\ fds' = Redirect(Put(fds, n, fds[i].file, TRUE), to, i, i = 0)
          /\ SetTop([Top EXCEPT !.saved = Append(@, n),
                                !.phase = IF i = 2 THEN "args" ELSE "save"])
    /\ UNCHANGED <<shell, procs, pipes, started, failed, jumped>>

\* dup fails: the function returns and leaves things as they are.
SaveFails ==
    /\ InPipeline("save") /\ Free(fds) = {}
    /\ SetTop([Top EXCEPT !.phase = "next", !.saved = <<>>])
    /\ failed' = TRUE
    /\ UNCHANGED <<shell, fds, procs, pipes, started, jumped>>

RestoreDescriptors ==
    /\ InPipeline("restore")
    /\ fds' = Restore(fds, Top.saved)
    /\ SetTop([Top EXCEPT !.phase = "next", !.saved = <<>>])
    /\ UNCHANGED <<shell, procs, pipes, started, failed, jumped>>

\* Mutant of NextCommand: the write end stays open.
NextCommandKeepsWriter ==
    /\ InPipeline("next")
    /\ SetTop(IF Top.k < Len(Top.cmds)
                THEN [Top EXCEPT !.in = Top.fd[1], !.k = @ + 1, !.phase = "pipe"]
                ELSE [Top EXCEPT !.k = 1, !.phase = "wait"])
    /\ UNCHANGED <<shell, fds, procs, pipes, started, failed, jumped>>

\* close(p->fd[1]); fdin = p->fd[0].  The read end of the last pipe is never
\* closed.
NextCommand ==
    /\ InPipeline("next")
    /\ fds' = Close(fds, Top.fd[2])
    /\ SetTop(IF Top.k < Len(Top.cmds)
                THEN [Top EXCEPT !.in = Top.fd[1], !.k = @ + 1, !.phase = "pipe"]
                ELSE [Top EXCEPT !.k = 1, !.phase = "wait"])
    /\ UNCHANGED <<shell, procs, pipes, started, failed, jumped>>

----------------------------------------------------------------------------
(* Running a command *)

\* rl_exec_redirection on standard input keeps what it opened: closefd is
\* false because O_RDONLY is 0.  (Bound: one for a command.)
InputRedirection ==
    /\ InPipeline("args") /\ "input" \in Feature
    /\ fds[0].file # File /\ Free(fds) # {}
    /\ fds' = Redirect(Put(fds, Lowest(Free(fds)), File, FALSE),
                       Lowest(Free(fds)), 0, FALSE)
    /\ UNCHANGED <<shell, stack, procs, pipes, started, failed, jumped>>

OutputRedirection ==
    /\ InPipeline("args") /\ "output" \in Feature
    /\ fds[1].file # File /\ Free(fds) # {}
    /\ fds' = Redirect(Put(fds, Lowest(Free(fds)), File, FALSE),
                       Lowest(Free(fds)), 1, TRUE)
    /\ UNCHANGED <<shell, stack, procs, pipes, started, failed, jumped>>

\* A file that cannot be opened fails the assertion around the call.
RedirectionAborts ==
    /\ InPipeline("args") /\ Feature \cap {"input", "output"} # {}
    /\ shell' = "aborted" /\ fds' = NoTable
    /\ UNCHANGED <<stack, procs, pipes, started, failed, jumped>>

\* A builtin: it writes in the shell's own process.
Builtin(left, status) ==
    /\ InPipeline("args") /\ Cmd.kind = "simple"
    /\ SetTop([Top EXCEPT !.phase = "builtin", !.left = left,
                          !.cmds[Top.k].status = status])
    /\ UNCHANGED <<shell, fds, procs, pipes, started, failed, jumped>>

\* (A write to a pipe without a reader would end the shell; ShellSurvives says
\* that there is none.)
BuiltinWrites ==
    /\ InPipeline("builtin") /\ Top.left > 0
    /\ ~Broken(fds[1].file) /\ CanWrite(fds[1].file)
    /\ pipes' = Written(fds[1].file)
    /\ SetTop([Top EXCEPT !.left = @ - 1])
    /\ UNCHANGED <<shell, fds, procs, started, failed, jumped>>

BuiltinReturns ==
    /\ InPipeline("builtin") /\ Top.left = 0
    /\ SetTop([Top EXCEPT !.phase = "restore"])
    /\ UNCHANGED <<shell, fds, procs, pipes, started, failed, jumped>>

\* Mutant of Fork: the child has no copy of the marks.
ForkKeepsAll ==
    /\ InPipeline("args") /\ Cmd.kind = "simple" /\ Len(procs) < MaxProcs
    /\ procs' = Append(procs, [state |-> "forked", left |-> 0, drains |-> FALSE,
         status |-> 0, fds |-> [x \in DOMAIN fds |-> [fds[x] EXCEPT !.cloexec = FALSE]]])
    /\ SetTop([Top EXCEPT !.phase = "restore",
                          !.cmds[Top.k].pid = Len(procs) + 1,
                          !.cmds[Top.k].child = Len(procs) + 1])
    /\ UNCHANGED <<shell, fds, pipes, started, failed, jumped>>

\* An external command.
Fork ==
    /\ InPipeline("args") /\ Cmd.kind = "simple" /\ Len(procs) < MaxProcs
    /\ procs' = Append(procs, [state |-> "forked", left |-> 0, drains |-> FALSE,
                               status |-> 0, fds |-> fds])
    /\ SetTop([Top EXCEPT !.phase = "restore",
                          !.cmds[Top.k].pid = Len(procs) + 1,
                          !.cmds[Top.k].child = Len(procs) + 1])
    /\ UNCHANGED <<shell, fds, pipes, started, failed, jumped>>

\* A compound command runs its lists in the shell, ( ) too: a loop runs its
\* condition and its body, any number of times.
EnterGroup ==
    /\ InPipeline("args") /\ Cmd.kind = "shell"
    /\ \E of \in Compound : Push(List(of, Std(fds)))
    /\ UNCHANGED <<shell, fds, procs, pipes, started, failed, jumped>>

\* The status of a loop is 0.  (A list may be empty here when its pipelines are
\* beyond MaxPipelines.)
EndGroup ==
    /\ InList /\ Top.type \in {"group", "subshell", "loop"}
    /\ LET n == Len(stack) - 1
           f == stack[n]
       IN stack' = Append(SubSeq(stack, 1, n - 1),
                          [f EXCEPT !.phase = "restore",
                                    !.cmds[f.k].status =
                                       IF Top.type = "loop" THEN 0 ELSE Top.status])
    /\ UNCHANGED <<shell, fds, procs, pipes, started, failed, jumped>>

----------------------------------------------------------------------------
(* __pipewait *)

Finished(p) == procs[p].state = "exited"
Live        == {p \in DOMAIN procs : procs[p].state # "reaped"}

\* Mutant of Negated: a difference in place of !status.
NegatedMinus(negate, status) == IF negate THEN 1 - status ELSE status

Negated(negate, status) ==
    IF ~negate THEN status ELSE IF status = 0 THEN 1 ELSE 0

\* The next command to wait for, or the end of the pipeline.
Waited(status) ==
    LET f      == [Top EXCEPT !.cmds[Top.k].status = status, !.cmds[Top.k].pid = -1]
        n      == Len(stack) - 1
    IN IF Top.k < Len(Top.cmds)
         THEN SetTop([f EXCEPT !.k = @ + 1])
         ELSE stack' = [SubSeq(stack, 1, n) EXCEPT ![n].status = Negated(Top.negate, status)]

Reap(p) == SetProc(p, [procs[p] EXCEPT !.state = "reaped"])

\* Mutant of WaitChild: a child that is still running is not waited for.
WaitChildNot ==
    /\ InPipeline("wait") /\ Cmd.pid > 0
    /\ Waited(procs[Cmd.pid].status)
    /\ UNCHANGED <<shell, fds, procs, pipes, started, failed, jumped>>

\* waitpid(pid) on a child; its status is the one of the command.
WaitChild ==
    /\ InPipeline("wait") /\ Cmd.pid > 0 /\ Finished(Cmd.pid)
    /\ Reap(Cmd.pid)
    /\ Waited(procs[Cmd.pid].status)
    /\ UNCHANGED <<shell, fds, pipes, started, failed, jumped>>

\* waitpid(0), for the declaration of a function: any child will do.
WaitAny ==
    /\ InPipeline("wait") /\ Cmd.pid = 0
    /\ \E p \in Live : Finished(p) /\ Reap(p) /\ Waited(procs[p].status)
    /\ UNCHANGED <<shell, fds, pipes, started, failed, jumped>>

\* Mutant of NoWait: the status of the first command is kept.
NoWaitFirst ==
    /\ InPipeline("wait")
    /\ \/ Cmd.pid = -1
       \/ Cmd.pid = 0 /\ Live = {}
       \/ Cmd.pid > 0 /\ Cmd.pid \notin Live
    /\ Waited(Top.cmds[1].status)
    /\ UNCHANGED <<shell, fds, procs, pipes, started, failed, jumped>>

\* No call for a command the shell ran itself (or could not run); waitpid
\* fails when there is no such child.
NoWait ==
    /\ InPipeline("wait")
    /\ \/ Cmd.pid = -1
       \/ Cmd.pid = 0 /\ Live = {}
       \/ Cmd.pid > 0 /\ Cmd.pid \notin Live
    /\ Waited(Cmd.status)
    /\ UNCHANGED <<shell, fds, procs, pipes, started, failed, jumped>>

----------------------------------------------------------------------------
(* __exp_cmd_substitution *)

\* pipe() is asserted; dup may fail unnoticed.
BeginSubstitution ==
    /\ InPipeline("args") /\ Cmd.kind = "simple" /\ "subst" \in Feature
    /\ started < MaxPipelines /\ Len(stack) + 3 <= MaxDepth
    /\ Cardinality(Free(fds)) >= 2
    /\ LET r == Lowest(Free(fds))
           w == Lowest(Free(fds) \ {r})
           p == Len(pipes) + 1
           t == Put(Put(fds, r, Reader(p), TRUE), w, Writer(p), FALSE)
           n == IF Free(t) = {} THEN -1 ELSE Lowest(Free(t))
           u == IF n = -1 THEN t ELSE Put(t, n, t[1].file, TRUE)
       IN /\ fds' = Redirect(u, w, 1, TRUE)
          /\ Push([List("subst", Std(fds')) EXCEPT !.reader = r, !.saved = n])
          /\ failed' = (failed \/ n = -1)
    /\ pipes' = Append(pipes, 0)
    /\ UNCHANGED <<shell, procs, started, jumped>>

SubstitutionAborts ==
    /\ InPipeline("args") /\ Cmd.kind = "simple" /\ "subst" \in Feature
    /\ started < MaxPipelines /\ Cardinality(Free(fds)) < 2
    /\ shell' = "aborted" /\ fds' = NoTable
    /\ UNCHANGED <<stack, procs, pipes, started, failed, jumped>>

\* Mutant of EndSubstitution: what was saved is put back on standard error.
EndSubstitutionKeeps ==
    /\ InList /\ Top.type = "subst" /\ Top.ran
    /\ fds' = IF Top.saved = -1 THEN fds ELSE Redirect(fds, Top.saved, 2, TRUE)
    /\ SetTop([Top EXCEPT !.phase = "read"])
    /\ UNCHANGED <<shell, procs, pipes, started, failed, jumped>>

\* The list has ended: standard output is put back, and only then is the pipe
\* read.
EndSubstitution ==
    /\ InList /\ Top.type = "subst" /\ Top.ran
    /\ fds' = IF Top.saved = -1 THEN fds ELSE Redirect(fds, Top.saved, 1, TRUE)
    /\ SetTop([Top EXCEPT !.phase = "read"])
    /\ UNCHANGED <<shell, procs, pipes, started, failed, jumped>>

Reading == shell = "alive" /\ Top.type = "subst" /\ Top.phase = "read"
Source  == fds[Top.reader].file[2]

\* __read_stream_into_list
ReadByte ==
    /\ Reading /\ pipes[Source] > 0
    /\ pipes' = [pipes EXCEPT ![Source] = @ - 1]
    /\ UNCHANGED <<shell, fds, stack, procs, started, failed, jumped>>

ReadEnd ==
    /\ Reading /\ pipes[Source] = 0 /\ ~HasWriter(Source)
    /\ fds' = Close(fds, Top.reader)
    /\ stack' = SubSeq(stack, 1, Len(stack) - 1)
    /\ UNCHANGED <<shell, procs, pipes, started, failed, jumped>>

\* A builtin jumps back to the list that was the i-th of the stack, which it
\* leaves as f.  Nothing is restored, closed or waited for on the way.
JumpTo(i, f) ==
    /\ stack' = [SubSeq(stack, 1, i) EXCEPT ![i] = f]
    /\ jumped' = TRUE
    /\ UNCHANGED <<shell, fds>>

\* A list that keeps the exits and the breaks of its commands to itself.
Encloses(i) == stack[i].type \in {"subst", "subshell"}

\* exit ends the innermost subshell or substitution, or the shell.
Exit(status) ==
    /\ InPipeline("args") /\ Cmd.kind = "simple" /\ "exit" \in Feature
    /\ LET targets == {i \in DOMAIN stack : Encloses(i)}
           i == CHOOSE x \in targets : \A y \in targets : y <= x
       IN IF targets # {}
            THEN JumpTo(i, [stack[i] EXCEPT !.status = status, !.over = TRUE])
            ELSE shell' = "exited" /\ fds' = NoTable /\ UNCHANGED <<stack, jumped>>
    /\ UNCHANGED <<procs, pipes, started, failed>>

\* break ends a loop around it, and continue goes on with one.
Break ==
    /\ InPipeline("args") /\ Cmd.kind = "simple" /\ "break" \in Feature
    /\ \E i \in DOMAIN stack, over \in BOOLEAN :
         /\ stack[i].type = "loop"
         /\ \A j \in i .. Len(stack) : ~Encloses(j)
         /\ JumpTo(i, [stack[i] EXCEPT !.over = over])
    /\ UNCHANGED <<procs, pipes, started, failed>>

----------------------------------------------------------------------------
Negations == IF "not" \in Feature THEN BOOLEAN ELSE {FALSE}

ShellStep ==
    \/ \E n \in 1 .. MaxCmds : \E kinds \in [1 .. n -> Kind], negate \in Negations :
         StartPipeline(kinds, negate)
    \/ MakePipe \/ PipeFails \/ SaveDescriptor \/ SaveFails
    \/ RestoreDescriptors \/ NextCommand
    \/ InputRedirection \/ OutputRedirection \/ RedirectionAborts
    \/ \E left \in 0 .. MaxBuiltin, status \in Code : Builtin(left, status)
    \/ BuiltinWrites \/ BuiltinReturns
    \/ Fork
    \/ EnterGroup \/ EndGroup
    \/ WaitChild \/ WaitAny \/ NoWait
    \/ BeginSubstitution \/ SubstitutionAborts \/ EndSubstitution
    \/ ReadByte \/ ReadEnd
    \/ \E status \in Code : Exit(status)
    \/ Break

Next == ShellStep \/ \E p \in DOMAIN procs : ProcStep(p)

\* The system runs the shell and every process it forked; a program goes on
\* until it has written its output and read its input.
Fairness ==
    /\ WF_vars(ShellStep)
    /\ \A p \in 1 .. MaxProcs : WF_vars(p \in DOMAIN procs /\ ProcStep(p))

Spec == Init /\ [][Next]_vars /\ Fairness

----------------------------------------------------------------------------
(* Properties *)

IsTable(t) ==
    /\ DOMAIN t = 0 .. MaxFd - 1
    /\ \A x \in InUse(t) :
         t[x] \in [file : {Tty, File} \cup ({"read", "write"} \X (1 .. Len(pipes))),
                  cloexec : BOOLEAN]

\* The values the variables take.
TypeOK ==
    /\ shell \in {"alive", "aborted", "exited"}
    /\ IsTable(fds)
    /\ stack[1].type = "top" /\ Len(stack) <= MaxDepth
    /\ \A i \in DOMAIN stack : stack[i].type # "pipeline" =>
         stack[i].status \in Code \cup {0, 1, 127}
    /\ \A p \in DOMAIN procs :
         /\ procs[p].state \in {"forked", "running", "exited", "reaped"}
         /\ IsTable(procs[p].fds) /\ procs[p].status \in Code \cup {0, 127}
    /\ pipes \in Seq(0 .. Capacity)
    /\ started \in 0 .. MaxPipelines
    /\ jumped \in BOOLEAN

Declares(f) == f.type = "pipeline" /\ \E i \in DOMAIN f.cmds : f.cmds[i].kind = "fundec"

\* The tests count the descriptors of a command (e2etest.py:432-435): an
\* external command has 0, 1 and 2 and nothing else, wherever in a pipeline,
\* a group or a substitution it is started.
InheritStdOnly ==
    \A p \in DOMAIN procs : procs[p].state = "running" => InUse(procs[p].fds) = 0 .. 2

\* Between two pipelines of a list 0, 1 and 2 are open on what they were open
\* on when the list began, whatever the commands were put on, until a jump.
StdRestored == InList /\ ~failed /\ ~jumped => Std(fds) = Top.std

\* While the shell waits for a pipeline it has no write end of its pipes open,
\* or a reader would never see the end, nor a read end that a running command
\* writes to, or that command would never be told that its reader has gone;
\* until a jump, which keeps what the pipelines it leaves have saved.
WaitHoldsNothing ==
    InPipeline("wait") /\ ~failed /\ ~jumped /\ ~Declares(Top) =>
        \A p \in Top.first + 1 .. Len(pipes) :
            /\ ~Holds(fds, Writer(p))
            /\ Holds(fds, Reader(p)) =>
                 \A q \in Holders(Writer(p)) : procs[q].state = "forked"

\* No process outlives its pipeline: when a list goes on, those that have not
\* been waited for belong to a pipeline that is still being run, until a jump
\* leaves one.
AllReaped ==
    InList /\ ~jumped => Live \subseteq
        UNION {{stack[i].cmds[j].child : j \in DOMAIN stack[i].cmds} :
                 i \in {x \in DOMAIN stack : stack[x].type = "pipeline"}}

\* A builtin never writes to a pipe without a reader: the signal would end the
\* shell, where it should end one command.
ShellSurvives ==
    InPipeline("builtin") /\ Top.left > 0 => ~Broken(fds[1].file)

Result(node) == IF node.child = 0 THEN node.status ELSE procs[node.child].status

\* The status of a pipeline is the one of its last command, in whatever order
\* its processes end.  (After a jump the code may run a pipeline that was left
\* again, with the process ids of its first run.)
StatusOfLast ==
    [][LET last == Top.cmds[Len(Top.cmds)] IN
       InPipeline("wait") /\ ~Declares(Top) /\ ~jumped /\ Len(stack') < Len(stack) =>
         /\ stack'[Len(stack')].status = Negated(Top.negate, Result(last))
         /\ last.child # 0 => procs[last.child].state \in {"exited", "reaped"}]_vars

\* Every pipeline leaves the read end of its last pipe open in the shell, and
\* nothing else: the next commands do not inherit it and nobody writes to it,
\* until a jump.
LeaksOnePerPipeline ==
    InList /\ Top.type = "top" /\ ~failed /\ ~jumped =>
        /\ Cardinality(InUse(fds)) = 3 + started
        /\ \A x \in InUse(fds) \ (0 .. 2) :
             fds[x].cloexec /\ fds[x].file[1] = "read" /\ ~HasWriter(fds[x].file[2])

\* What has begun ends: the shell and the processes never all wait for one
\* another, as long as what is written before its reader is started fits in a
\* pipe (MaxBuiltin, Capacity) and no jump keeps an end of it open.
PipelineEnds ==
    Len(stack) > 1 ~>
        \/ Len(stack) = 1 \/ shell # "alive" \/ failed \/ jumped
        \/ \E i \in DOMAIN stack : Declares(stack[i])

\* __read_stream_into_list is to "read a stream" (symexp.c:172), once standard
\* output has been given back ("Rollback redirect", symexp.c:253): the reading
\* of a substitution ends.
SubstitutionRead == Reading ~> ~Reading

=============================================================================
