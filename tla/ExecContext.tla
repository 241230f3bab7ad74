---------------------------- MODULE ExecContext ----------------------------
(***************************************************************************)
(* The tree walker of the shell (rl_exec_...) as a stack machine, and the  *)
(* execution context (include/ctx.h) it threads through its C calls.       *)
(*                                                                         *)
(* break, continue, exit and a failing source leave any number of C        *)
(* frames at once with longjmp, so no frame in between runs its cleanup.   *)
(* The context carries what replaces it: a chain of loops that can be      *)
(* jumped to, a chain of allocations to free before the jump, and the      *)
(* jump buffer of the innermost subshell or parser.  Every node of the     *)
(* chains is a local variable of a C frame; here a pointer to a node is    *)
(* the index of the frame that holds it, and 0 is NULL.                    *)
(*                                                                         *)
(* Which command runs next is the script's choice, so it is                *)
(* nondeterministic; every frame a script can build up to MaxDepth is      *)
(* reached.                                                                *)
(***************************************************************************)
EXTENDS Integers, Sequences, FiniteSets

CONSTANTS
    Block,       \* heap blocks: argument and word lists, trees, table clones
    NoBlock,     \* "this frame owns no block"
    Target,      \* what standard output can be open on
    Terminal,    \* what it is open on when the shell starts
    StopArg,     \* integers given to break and continue
    MaxDepth     \* bound on the number of live frames

ASSUME ContextAssumption ==
    /\ NoBlock \notin Block
    /\ Terminal \in Target
    /\ StopArg \subseteq Int
    /\ MaxDepth \in Nat

VARIABLES
    frames,  \* live C frames, outermost first
    heap,    \* heap blocks that are allocated
    out,     \* what standard output is open on
    jump     \* the non-local jump in progress, if any

vars == <<frames, heap, out, jump>>

----------------------------------------------------------------------------
(* Frames and contexts *)

\* rl_exec_shell_cmd wraps the first five; each saves standard output.
Compound == {"group", "while", "for", "case", "sub"}
Saving   == Compound \cup {"subst", "cmd"}
Loop     == {"while", "for"}
Parser   == {"main", "source"}
\* frames that hold the jmp_buf of ctx->exit_jump
Barriers == Parser \cup {"sub", "subst"}
Kind     == Saving \cup Parser \cup {"func"}

Phase == {"idle", "exec", "exited", "resumed", "eof",
          "expand", "cond", "iter", "body", "run", "args", "call", "done"}

Node    == [level : Nat, next : Nat]
NoNode  == [level |-> 0, next |-> 0]
Context == [level : Nat, loop : Nat, alloc : Nat, exit : Nat, inter : BOOLEAN]
Frame   == [kind : Kind, phase : Phase, ctx : Context,
            block : Block \cup {NoBlock},
            anode : Node, jnode : Node, saved : Target]

\* A jump: first walk the chain of loops, then the chain of allocations.
Jump == [op : {"none", "walk", "free"}, value : {"none", "break", "continue",
          "exit", "resume"}, target : Nat, left : Int, arg : Int,
         level : Nat, alloc : Nat]
NoJump == [op |-> "none", value |-> "none", target |-> 0, left |-> 0,
           arg |-> 0, level |-> 0, alloc |-> 0]

Depth  == Len(frames)
Top    == frames[Depth]
Caller == frames[Depth - 1]

Barrier(f)    == f.kind \in Barriers /\ f.phase # "expand"
Registered(f) == f.anode.level > 0
InBody(f)     == f.phase = "body"

\* ctx_new: called by parser(), whose frame will have index i.
CtxNew(i, inter) ==
    [level |-> 1, loop |-> 0, alloc |-> 0, exit |-> i, inter |-> inter]

\* ctx_add_jump and ctx_add_alloc: the child context, the node being in frame i.
CtxAddJump(parent, i)  == [parent EXCEPT !.level = @ + 1, !.loop = i]
CtxAddAlloc(parent, i) == [parent EXCEPT !.level = @ + 1, !.alloc = i]
JumpNode(parent)  == [level |-> parent.level + 1, next |-> parent.loop]
AllocNode(parent) == [level |-> parent.level + 1, next |-> parent.alloc]

\* Mutants of CtxSubshell: a field of the child context is not reset.
CtxSubshellKeepsAlloc(parent, i) == [parent EXCEPT !.loop = 0, !.exit = i]
CtxSubshellKeepsLoop(parent, i)  == [parent EXCEPT !.alloc = 0, !.exit = i]
CtxSubshellKeepsExit(parent, i)  == [parent EXCEPT !.loop = 0, !.alloc = 0]

\* The context a subshell whose frame has index i gives to its list.
CtxSubshell(parent, i) == [parent EXCEPT !.loop = 0, !.alloc = 0, !.exit = i]

NewFrame(kind, phase, ctx, block, saved) ==
    [kind |-> kind, phase |-> phase, ctx |-> ctx, block |-> block,
     anode |-> NoNode, jnode |-> NoNode, saved |-> saved]

\* The main parser reads from readline (interactive) or from a script.
MainFrame(interactive) ==
    NewFrame("main", "idle", CtxNew(1, interactive), NoBlock, Terminal)

Init ==
    /\ \E interactive \in BOOLEAN : frames = <<MainFrame(interactive)>>
    /\ heap = {}
    /\ out = Terminal
    /\ jump = NoJump

----------------------------------------------------------------------------
(* Helpers of the actions *)

Running == jump.op = "none"

SetTop(f)    == frames' = [frames EXCEPT ![Depth] = f]
SetPhase(p)  == frames' = [frames EXCEPT ![Depth].phase = p]
Push(f)      == Depth < MaxDepth /\ frames' = Append(frames, f)

\* malloc returns a block that is not in use.
Malloc(b) == b \in Block \ heap /\ heap' = heap \cup {b}
Free(b)   == heap' = heap \ {b}

\* A compound list is being executed, so a command can start in the frame.
RunsList(f) == f.kind # "func" /\ f.phase \in {"exec", "cond", "body", "run"}

----------------------------------------------------------------------------
(* parser(): read a complete command, execute it, release its tree *)

ReadCommand ==
    /\ Running /\ Top.kind \in Parser /\ Top.phase = "idle"
    /\ \E b \in Block :
         /\ Malloc(b)
         /\ SetTop([Top EXCEPT !.phase = "exec", !.block = b])
    /\ UNCHANGED <<out, jump>>

\* rl_exectree_free(s.node); after `exit` the parser mimics the end of stream.
EndCommand ==
    /\ Running /\ Top.kind \in Parser
    /\ Top.phase \in {"exec", "exited", "resumed"}
    /\ Free(Top.block)
    /\ SetTop([Top EXCEPT !.block = NoBlock,
                 !.phase = IF @ = "exited" THEN "eof" ELSE "idle"])
    /\ UNCHANGED <<out, jump>>

\* End of input, or a syntax error outside of interactive mode.
MainEnds ==
    /\ Running /\ Top.kind = "main" /\ Top.phase = "idle"
    /\ SetPhase("eof")
    /\ UNCHANGED <<heap, out, jump>>

----------------------------------------------------------------------------
(* Entering commands *)

\* rl_exec_shell_cmd: save standard output and apply the redirections.
OpenCompound(kind, t) ==
    /\ Running
    /\ RunsList(Top) \/ (Top.kind = "func" /\ Top.phase = "run")
    /\ Push(NewFrame(kind, "expand", Top.ctx, NoBlock, out))
    /\ out' = t
    /\ UNCHANGED <<heap, jump>>

\* rl_exec_simple_cmd: the list of arguments is filled before it is registered.
OpenSimple(t) ==
    /\ Running /\ RunsList(Top)
    /\ \E b \in Block :
         /\ Malloc(b)
         /\ Push(NewFrame("cmd", "expand", Top.ctx, b, out))
    /\ out' = t
    /\ UNCHANGED jump

\* __exp_cmd_substitution: a word being expanded runs a subshell in this
\* process, with standard output on a pipe.
OpenSubstitution(t) ==
    /\ Running /\ Top.phase = "expand"
    /\ \E b \in Block :
         /\ Malloc(b)
         /\ Push(NewFrame("subst", "run",
                          CtxSubshell(Top.ctx, Depth + 1), b, out))
    /\ out' = t
    /\ UNCHANGED jump

\* rl_exec_subshell clones the table of symbols and sets a new exit jump.
EnterSubshell ==
    /\ Running /\ Top.kind = "sub" /\ Top.phase = "expand"
    /\ \E b \in Block :
         /\ Malloc(b)
         /\ SetTop([Top EXCEPT !.phase = "run", !.block = b,
                               !.ctx = CtxSubshell(Top.ctx, Depth)])
    /\ UNCHANGED <<out, jump>>

EnterGroup ==
    /\ Running /\ Top.kind = "group" /\ Top.phase = "expand"
    /\ SetPhase("run")
    /\ UNCHANGED <<heap, out, jump>>

EnterWhile ==
    /\ Running /\ Top.kind = "while" /\ Top.phase = "expand"
    /\ SetPhase("cond")
    /\ UNCHANGED <<heap, out, jump>>

\* rl_exec_for and rl_exec_case allocate the list before they expand words
\* into it; the expansion is over when the list is registered.
AllocateList ==
    /\ Running /\ Top.kind \in {"for", "case"} /\ Top.phase = "expand"
    /\ Top.block = NoBlock
    /\ \E b \in Block : Malloc(b) /\ SetTop([Top EXCEPT !.block = b])
    /\ UNCHANGED <<out, jump>>

\* CTX_CHILD_FOR_LIST on the list the frame owns.
RegisterList ==
    /\ Running /\ Top.kind \in {"for", "case", "cmd"} /\ Top.phase = "expand"
    /\ Top.block # NoBlock
    /\ SetTop([Top EXCEPT
         !.phase = CASE Top.kind = "for"  -> "iter"
                     [] Top.kind = "case" -> "run"
                     [] Top.kind = "cmd"  -> "args",
         !.ctx   = CtxAddAlloc(Top.ctx, Depth),
         !.anode = AllocNode(Top.ctx)])
    /\ UNCHANGED <<heap, out, jump>>

----------------------------------------------------------------------------
(* Loops *)

\* setjmp, then the body runs in a context from which it can be left.
BeginBody ==
    /\ Running /\ Top.kind \in Loop /\ Top.phase \in {"cond", "iter"}
    /\ SetTop([Top EXCEPT !.phase = "body",
                          !.ctx   = CtxAddJump(Top.ctx, Depth),
                          !.jnode = JumpNode(Top.ctx)])
    /\ UNCHANGED <<heap, out, jump>>

\* The context the loop tests its condition in: its caller's for while and
\* until; for `for`, the one its word list is registered in.
LoopContext(i) ==
    IF frames[i].kind = "for" THEN CtxAddAlloc(frames[i - 1].ctx, i)
                              ELSE frames[i - 1].ctx

\* Mutant of LeaveBody: the node is cleared with an invalid index.
LeaveBodyNull(i, next) ==
    [frames[i] EXCEPT !.phase = next, !.ctx = LoopContext(i),
                       !.jnode = [level |-> 0, next |-> -1]]

\* Frame i once its body has been left; next is where it resumes.
LeaveBody(i, next) ==
    [frames[i] EXCEPT !.phase = next, !.jnode = NoNode, !.ctx = LoopContext(i)]

Again(i) == IF frames[i].kind = "for" THEN "iter" ELSE "cond"

EndBody ==
    /\ Running /\ Top.kind \in Loop /\ Top.phase = "body"
    /\ SetTop(LeaveBody(Depth, Again(Depth)))
    /\ UNCHANGED <<heap, out, jump>>

----------------------------------------------------------------------------
(* What a simple command can turn out to be *)

\* A builtin that returns: echo, cd...; break out of any loop; exit with an
\* illegal number; break or continue with an argument below one.
BuiltinReturns ==
    /\ Running /\ Top.kind = "cmd" /\ Top.phase = "args"
    /\ SetPhase("done")
    /\ UNCHANGED <<heap, out, jump>>

\* A function: its body is cloned, registered, and run without the loops of
\* the caller.
CallFunction ==
    /\ Running /\ Top.kind = "cmd" /\ Top.phase = "args"
    /\ Depth < MaxDepth
    /\ \E b \in Block :
         LET parent == [Top.ctx EXCEPT !.loop = 0] IN
         /\ Malloc(b)
         /\ frames' = Append([frames EXCEPT ![Depth].phase = "call"],
              [NewFrame("func", "run", CtxAddAlloc(parent, Depth + 1), b, out)
                 EXCEPT !.anode = AllocNode(parent)])
    /\ UNCHANGED <<out, jump>>

\* bi_source on a file it can open: a parser of its own, in a new context.
CallSource ==
    /\ Running /\ Top.kind = "cmd" /\ Top.phase = "args"
    /\ Depth < MaxDepth
    /\ frames' = Append([frames EXCEPT ![Depth].phase = "call"],
         NewFrame("source", "idle", CtxNew(Depth + 1, FALSE), NoBlock, out))
    /\ UNCHANGED <<heap, out, jump>>

----------------------------------------------------------------------------
(* Normal returns *)

MayReturn(f) ==
    CASE f.kind \in {"group", "case", "func"} -> f.phase = "run"
      [] f.kind \in {"sub", "subst"} -> f.phase \in {"run", "done"}
      [] f.kind \in Loop   -> f.phase \in {"cond", "iter", "done"}
      [] f.kind = "cmd"    -> f.phase \in {"expand", "args", "done"}
      [] f.kind = "source" -> f.phase \in {"idle", "eof"}
      [] OTHER             -> FALSE

\* Mutant of Return: a loop does not put standard output back.
ReturnKeepsOutput ==
    /\ Running /\ MayReturn(Top)
    /\ Free(Top.block)
    /\ out' = IF Top.kind \in Saving \ Loop THEN Top.saved ELSE out
    /\ frames' = [i \in 1 .. Depth - 1 |->
         IF i = Depth - 1 /\ frames[i].phase = "call"
           THEN [frames[i] EXCEPT !.phase = "done"]
           ELSE frames[i]]
    /\ UNCHANGED jump

\* The frame frees the block it owns, puts standard output back if it saved
\* it, and its caller goes on.  A simple command returns from "expand" when it
\* only has assignments and from "args" when it was forked.
Return ==
    /\ Running /\ MayReturn(Top)
    /\ Free(Top.block)
    /\ out' = IF Top.kind \in Saving THEN Top.saved ELSE out
    /\ frames' = [i \in 1 .. Depth - 1 |->
         IF i = Depth - 1 /\ frames[i].phase = "call"
           THEN [frames[i] EXCEPT !.phase = "done"]
           ELSE frames[i]]
    /\ UNCHANGED jump

----------------------------------------------------------------------------
(* Non-local jumps *)

\* __stop_loop with a legal level, inside of a loop.
StopLoop(value, n) ==
    /\ Running /\ Top.kind = "cmd" /\ Top.phase = "args"
    /\ n >= 1 /\ Top.ctx.loop # 0
    /\ jump' = [op |-> "walk", value |-> value, target |-> Top.ctx.loop,
                left |-> n, arg |-> n, level |-> 0, alloc |-> 0]
    /\ UNCHANGED <<frames, heap, out>>

OuterLoop == frames[jump.target].jnode.next

\* Mutant of WalkLoops: one loop too many.
WalkLoopsTooFar ==
    /\ jump.op = "walk" /\ jump.left > 0 /\ OuterLoop # 0
    /\ jump' = [jump EXCEPT !.target = OuterLoop, !.left = @ - 1]
    /\ UNCHANGED <<frames, heap, out>>

\* while (jmp && jmp->next && level > 1)
WalkLoops ==
    /\ jump.op = "walk" /\ jump.left > 1 /\ OuterLoop # 0
    /\ jump' = [jump EXCEPT !.target = OuterLoop, !.left = @ - 1]
    /\ UNCHANGED <<frames, heap, out>>

\* Entry of ctx_free_allocated_memory(ctx, jmp->level).
WalkEnds ==
    /\ jump.op = "walk" /\ (jump.left <= 1 \/ OuterLoop = 0)
    /\ jump' = [jump EXCEPT !.op = "free", !.alloc = Top.ctx.alloc,
                            !.level = frames[jump.target].jnode.level]
    /\ UNCHANGED <<frames, heap, out>>

\* ctx_free_allocated_memory(ctx, 0) before the jump to ctx->exit_jump.
ExitJump(c, value) ==
    [op |-> "free", value |-> value, target |-> c.exit,
     left |-> 0, arg |-> 0, level |-> 0, alloc |-> c.alloc]

\* bi_exit with a legal number.
Exit ==
    /\ Running /\ Top.kind = "cmd" /\ Top.phase = "args"
    /\ jump' = ExitJump(Top.ctx, "exit")
    /\ UNCHANGED <<frames, heap, out>>

\* __exit of bi_source.
SourceExit(c) == ExitJump(c, IF c.inter THEN "resume" ELSE "exit")

\* bi_source on a file it cannot find or open.
SourceMissing ==
    /\ Running /\ Top.kind = "cmd" /\ Top.phase = "args"
    /\ jump' = SourceExit(Top.ctx)
    /\ UNCHANGED <<frames, heap, out>>

\* A syntax error in a sourced file: its parser returns PARSER_ERROR.
SourceSyntaxError ==
    /\ Running /\ Top.kind = "source" /\ Top.phase = "idle"
    /\ frames' = SubSeq(frames, 1, Depth - 1)
    /\ jump' = SourceExit(Caller.ctx)
    /\ UNCHANGED <<heap, out>>

Reclaims == jump.alloc # 0 /\ frames[jump.alloc].anode.level > jump.level

\* Mutant of FreeRegistered: the walk does not move on.
FreeRegisteredTwice ==
    /\ jump.op = "free" /\ Reclaims
    /\ Free(frames[jump.alloc].block)
    /\ UNCHANGED <<frames, out, jump>>

\* One iteration of the loop of ctx_free_allocated_memory.
FreeRegistered ==
    /\ jump.op = "free" /\ Reclaims
    /\ Free(frames[jump.alloc].block)
    /\ jump' = [jump EXCEPT !.alloc = frames[jump.alloc].anode.next]
    /\ UNCHANGED <<frames, out>>

\* The frame a jump lands in.
Landed(i) ==
    CASE jump.value = "break"    -> LeaveBody(i, "done")
      [] jump.value = "continue" -> LeaveBody(i, Again(i))
      [] OTHER -> [frames[i] EXCEPT !.phase =
                     IF frames[i].kind \notin Parser THEN "done"
                     ELSE IF jump.value = "resume" THEN "resumed" ELSE "exited"]

\* longjmp: every frame above the target vanishes; standard output stays as
\* those frames had redirected it.
LongJump ==
    /\ jump.op = "free" /\ ~Reclaims
    /\ frames' = [i \in 1 .. jump.target |->
                    IF i = jump.target THEN Landed(i) ELSE frames[i]]
    /\ jump' = NoJump
    /\ UNCHANGED <<heap, out>>

----------------------------------------------------------------------------
Next ==
    \/ ReadCommand \/ EndCommand \/ MainEnds
    \/ \E kind \in Compound, t \in Target : OpenCompound(kind, t)
    \/ \E t \in Target : OpenSimple(t)
    \/ \E t \in Target : OpenSubstitution(t)
    \/ EnterSubshell \/ EnterGroup \/ EnterWhile
    \/ AllocateList \/ RegisterList
    \/ BeginBody \/ EndBody
    \/ BuiltinReturns \/ CallFunction \/ CallSource
    \/ Return
    \/ \E value \in {"break", "continue"}, n \in StopArg : StopLoop(value, n)
    \/ WalkLoops \/ WalkEnds
    \/ Exit \/ SourceMissing \/ SourceSyntaxError
    \/ FreeRegistered \/ LongJump

JumpStep == WalkLoops \/ WalkEnds \/ FreeRegistered \/ LongJump

\* The shell is one thread: once a jump has begun nothing else can run, and
\* the thread keeps running.
Spec == Init /\ [][Next]_vars /\ WF_vars(JumpStep)

----------------------------------------------------------------------------
(* Properties *)

\* The values the variables take.
TypeOK ==
    /\ frames \in Seq(Frame) /\ frames # <<>>
    /\ heap \subseteq Block
    /\ out \in Target
    /\ jump \in Jump

Owned(s) == {s[i].block : i \in 1 .. Len(s)} \ {NoBlock}

\* Whatever mix of returns, break, continue, exit and failing source got the
\* shell here, the heap holds exactly the blocks of the C frames that are still
\* alive: a jump leaks nothing and frees nothing a live frame still uses
\* (ctx_free_allocated_memory and the list_free / symtab_free of each frame).
HeapExact == jump.op # "free" => heap = Owned(frames)

\* Frame l of stack s runs a loop body that a command called from frame i is
\* inside of, with no function, subshell or parser in between.
Encloses(s, l, i) ==
    /\ l \in 1 .. i /\ InBody(s[l])
    /\ \A k \in l + 1 .. i : ~Barrier(s[k]) /\ s[k].kind # "func"

\* ctx->loop_jump, as every frame passes it on, is the innermost loop body
\* around the command, or NULL; it never dangles into a loop that has ended
\* nor reaches out of a function, a subshell or a sourced file.
LoopPointerExact ==
    \A i \in 1 .. Depth :
        LET l == frames[i].ctx.loop IN
        /\ l # 0 => Encloses(frames, l, i)
        /\ \A k \in 1 .. i : Encloses(frames, k, i) => k <= l

\* break n and continue n land in the n-th loop around the command, or in the
\* outermost one when there are fewer than n (__stop_loop).
StopsRightLoop ==
    jump.op = "free" /\ jump.value \in {"break", "continue"} =>
        LET around == {l \in 1 .. Depth : Encloses(frames, l, Depth)}
            left   == {l \in around : l >= jump.target}
        IN /\ jump.target \in around
           /\ Cardinality(left) = IF jump.arg < Cardinality(around)
                                    THEN jump.arg ELSE Cardinality(around)

\* No jump goes over a subshell or a parser, whose cleanup (the clone of the
\* table of symbols, the stream and the tree of a sourced file) is in no
\* allocation list: such a frame is left only when it is on top.
BarriersReturn ==
    [][\A i \in 1 .. Depth :
          Barrier(frames[i]) /\ i > Len(frames') => i = Depth]_vars

\* A script's next top-level command starts with the standard output the shell
\* was given, although jumps skip the restorations of rl_exec_simple_cmd and
\* rl_exec_shell_cmd: what they skip, the frame they land in makes up for.
ScriptOutput ==
    ~frames[1].ctx.inter /\ Depth = 1 /\ Top.phase \in {"idle", "exec"} =>
        out = Terminal

\* A jump that has begun lands: the walks over the two chains end.
JumpLands == (jump.op # "none") ~> (jump.op = "none")

=============================================================================
