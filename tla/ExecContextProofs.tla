------------------------- MODULE ExecContextProofs -------------------------
(***************************************************************************)
(* Proofs about ExecContext.                                               *)
(*                                                                         *)
(* The inductive invariant Inv says of every frame of the stack what it    *)
(* looks like given the context of its caller (LocalAt), and of every      *)
(* context what its pointers name: the innermost barrier (RegionAt), the   *)
(* innermost loop body (LoopAt), the innermost registered block (AllocAt). *)
(* A jump frees the blocks whose level is above the one of its target;     *)
(* that these are exactly the blocks of the frames it skips is LevelAt:    *)
(* levels grow along the stack between two barriers.  While a jump is in   *)
(* progress JumpConsistent says which blocks it has freed so far.          *)
(*                                                                         *)
(* Counted relates the walk of __stop_loop to the loops it has left: the   *)
(* loops around the command from the target up, and the levels still to    *)
(* go, make one more than the argument.  Kept says who will put standard   *)
(* output back: while the top level runs a command, the frame of that      *)
(* command has saved the one the shell was given.                          *)
(*                                                                         *)
(* Each action gets a lemma; InvStep collects them, and Invariance is the  *)
(* temporal statement the theorems follow from.                            *)
(***************************************************************************)
EXTENDS ExecContext, FiniteSetTheorems, SequenceTheorems, TLAPS

----------------------------------------------------------------------------
(* The operations on the stack of frames *)

LEMMA PushProperties ==
    ASSUME NEW s \in Seq(Frame), NEW f \in Frame
    PROVE  /\ Append(s, f) \in Seq(Frame)
           /\ Append(s, f) # <<>>
           /\ Len(Append(s, f)) = Len(s) + 1
           /\ Append(s, f)[Len(s) + 1] = f
           /\ \A i \in 1 .. Len(s) : Append(s, f)[i] = s[i]
  BY AppendProperties

LEMMA SetTopProperties ==
    ASSUME NEW s \in Seq(Frame), s # <<>>, NEW f \in Frame
    PROVE  /\ [s EXCEPT ![Len(s)] = f] \in Seq(Frame)
           /\ [s EXCEPT ![Len(s)] = f] # <<>>
           /\ Len([s EXCEPT ![Len(s)] = f]) = Len(s)
           /\ [s EXCEPT ![Len(s)] = f][Len(s)] = f
           /\ \A i \in 1 .. Len(s) - 1 : [s EXCEPT ![Len(s)] = f][i] = s[i]
  <1>1. Len(s) \in 1 .. Len(s)
    BY EmptySeq, LenProperties
  <1>2. QED
    BY <1>1, ExceptSeq, EmptySeq

LEMMA ContextTypes ==
    ASSUME NEW c \in Context, NEW i \in Nat
    PROVE  /\ CtxAddJump(c, i) \in Context
           /\ CtxAddAlloc(c, i) \in Context
           /\ CtxSubshell(c, i) \in Context
           /\ JumpNode(c) \in Node
           /\ AllocNode(c) \in Node
           /\ \A inter \in BOOLEAN : CtxNew(i, inter) \in Context
  <1>. DEFINE n == c.level + 1
  <1>0. n \in Nat
    BY DEF Context
  <1>1. CtxAddJump(c, i) \in Context /\ CtxAddAlloc(c, i) \in Context
    <2>1. [c EXCEPT !.level = n, !.loop = i] \in Context
      <3>. HIDE DEF n
      <3>. QED  BY <1>0 DEF Context
    <2>2. [c EXCEPT !.level = n, !.alloc = i] \in Context
      <3>. HIDE DEF n
      <3>. QED  BY <1>0 DEF Context
    <2>. QED
      BY <2>1, <2>2 DEF CtxAddJump, CtxAddAlloc
  <1>2. CtxSubshell(c, i) \in Context
    BY DEF Context, CtxSubshell
  <1>3. JumpNode(c) \in Node /\ AllocNode(c) \in Node
    BY DEF Context, Node, JumpNode, AllocNode
  <1>4. \A inter \in BOOLEAN : CtxNew(i, inter) \in Context
    BY DEF Context, CtxNew
  <1>5. QED
    BY <1>1, <1>2, <1>3, <1>4

LEMMA NewFrameType ==
    ASSUME NEW kind \in Kind, NEW phase \in Phase, NEW c \in Context,
           NEW b \in Block \cup {NoBlock}, NEW t \in Target
    PROVE  NewFrame(kind, phase, c, b, t) \in Frame
  BY DEF NewFrame, Frame, Node, NoNode

----------------------------------------------------------------------------
(* The inductive invariant, part 1: the shape of the stack *)

\* What frame f, of index i, looks like when its caller's context is p.
NoNodes(f) == f.anode = NoNode /\ f.jnode = NoNode

ParserFrame(f, i) ==
    /\ f.kind \in Parser
    /\ f.phase \in {"idle", "exec", "exited", "resumed", "eof"}
    /\ f.ctx.level = 1 /\ f.ctx.loop = 0 /\ f.ctx.alloc = 0 /\ f.ctx.exit = i
    /\ f.phase \in {"idle", "eof"} => f.block = NoBlock
    /\ NoNodes(f)

SubshellFrame(f, i, p) ==
    /\ f.kind \in {"sub", "subst"} /\ f.phase \in {"run", "done"}
    /\ f.ctx = CtxSubshell(p, i) /\ NoNodes(f)

PlainFrame(f, p) ==
    /\ \/ f.kind \in Compound \cup {"cmd"} /\ f.phase = "expand"
       \/ f.kind = "group" /\ f.phase = "run"
       \/ f.kind = "while" /\ f.phase \in {"cond", "done"}
    /\ f.kind \in {"group", "while", "sub"} => f.block = NoBlock
    /\ f.ctx = p /\ NoNodes(f)

ListFrame(f, i, p) ==
    /\ \/ f.kind = "for" /\ f.phase \in {"iter", "done"}
       \/ f.kind = "case" /\ f.phase = "run"
       \/ f.kind = "cmd" /\ f.phase \in {"args", "call", "done"}
    /\ f.ctx = CtxAddAlloc(p, i) /\ f.anode = AllocNode(p)
    /\ f.jnode = NoNode /\ f.block # NoBlock

FunctionFrame(f, i, p) ==
    /\ f.kind = "func" /\ f.phase = "run"
    /\ f.ctx = CtxAddAlloc([p EXCEPT !.loop = 0], i) /\ f.anode = AllocNode(p)
    /\ f.jnode = NoNode /\ f.block # NoBlock

WhileBody(f, i, p) ==
    /\ f.kind = "while" /\ f.phase = "body"
    /\ f.ctx = CtxAddJump(p, i) /\ f.jnode = JumpNode(p)
    /\ f.anode = NoNode /\ f.block = NoBlock

ForBody(f, i, p) ==
    /\ f.kind = "for" /\ f.phase = "body"
    /\ f.ctx = CtxAddJump(CtxAddAlloc(p, i), i)
    /\ f.jnode = JumpNode(CtxAddAlloc(p, i)) /\ f.anode = AllocNode(p)
    /\ f.block # NoBlock

Called(f, i, p) ==
    \/ SubshellFrame(f, i, p) \/ PlainFrame(f, p) \/ ListFrame(f, i, p)
    \/ FunctionFrame(f, i, p) \/ WhileBody(f, i, p) \/ ForBody(f, i, p)

LocalAt(s, i) ==
    /\ (s[i].kind = "main") = (i = 1)
    /\ ParserFrame(s[i], i) \/ (i > 1 /\ Called(s[i], i, s[i - 1].ctx))
    /\ i > 1 /\ s[i - 1].phase = "expand" => s[i].kind = "subst"
    /\ s[i].kind = "source" => s[i - 1].kind = "cmd" /\ s[i - 1].phase = "call"

----------------------------------------------------------------------------
(* Part 2: what the contexts point to *)

\* ctx->exit_jump is that of the innermost subshell or parser.
RegionAt(s, i) ==
    LET b == s[i].ctx.exit IN
    /\ b \in 1 .. i /\ Barrier(s[b])
    /\ \A j \in b + 1 .. i : ~Barrier(s[j])

LoopAt(s, i) ==
    LET l == s[i].ctx.loop IN
    /\ l # 0 => Encloses(s, l, i)
    /\ \A k \in 1 .. i : Encloses(s, k, i) => k <= l

\* ctx->alloc_list is the innermost registered block of the region.
AllocAt(s, i) ==
    LET a == s[i].ctx.alloc
        b == s[i].ctx.exit
    IN /\ a # 0 => a \in b + 1 .. i /\ Registered(s[a])
       /\ \A j \in b + 1 .. i : Registered(s[j]) => j <= a

\* Within a region levels never decrease, and every node raises them.
LevelAt(s, i) ==
    /\ Registered(s[i]) => s[i].anode.level <= s[i].ctx.level
    /\ InBody(s[i]) => s[i].jnode.level <= s[i].ctx.level
    /\ Registered(s[i]) /\ InBody(s[i]) => s[i].anode.level < s[i].jnode.level
    /\ \A j \in s[i].ctx.exit .. i - 1 :
         /\ s[j].ctx.level <= s[i].ctx.level
         /\ Registered(s[i]) => s[j].ctx.level < s[i].anode.level
         /\ InBody(s[i]) => s[j].ctx.level < s[i].jnode.level

GlobalAt(s, i) == RegionAt(s, i) /\ LoopAt(s, i) /\ AllocAt(s, i) /\ LevelAt(s, i)

Structure(s) == \A i \in 1 .. Len(s) : LocalAt(s, i) /\ GlobalAt(s, i)

----------------------------------------------------------------------------
(* Part 3: the heap and the jump in progress *)

\* Every block has one owner.
Distinct(s) ==
    \A i, j \in 1 .. Len(s) :
        i # j /\ s[i].block # NoBlock => s[i].block # s[j].block

WellFormed(s) == s \in Seq(Frame) /\ s # <<>> /\ Structure(s) /\ Distinct(s)

\* Registered frames that the jump in progress has already freed.
Freed(i) == jump.target < i /\ jump.alloc < i /\ Registered(frames[i])

JumpConsistent ==
    /\ jump.op # "none" => Top.kind = "cmd" /\ Top.phase \in {"args", "call"}
    /\ jump.op # "none" /\ jump.value \in {"break", "continue"} =>
         Encloses(frames, jump.target, Depth)
    /\ jump.op = "walk" => jump.value \in {"break", "continue"}
    /\ jump.op = "free" =>
         /\ jump.value # "none"
         /\ jump.value \in {"break", "continue"} =>
              jump.level = frames[jump.target].jnode.level
         /\ jump.value \in {"exit", "resume"} =>
              jump.level = 0 /\ jump.target = Top.ctx.exit
         /\ jump.alloc # 0 =>
              jump.alloc \in Top.ctx.exit + 1 .. Depth /\ Registered(frames[jump.alloc])
         /\ heap = {frames[i].block : i \in {k \in 1 .. Depth : ~Freed(k)}} \ {NoBlock}

Inv == TypeOK /\ WellFormed(frames) /\ HeapExact /\ JumpConsistent

----------------------------------------------------------------------------
(* The pointers of a frame follow from its shape and from its caller's *)

LEMMA ContextFields ==
    ASSUME NEW p \in Context
    PROVE  /\ p.level \in Nat /\ p.loop \in Nat /\ p.alloc \in Nat
           /\ p.exit \in Nat
  BY DEF Context

LEMMA SubshellFields ==
    ASSUME NEW p \in Context, NEW i \in Nat
    PROVE  /\ CtxSubshell(p, i).level = p.level
           /\ CtxSubshell(p, i).loop = 0
           /\ CtxSubshell(p, i).alloc = 0
           /\ CtxSubshell(p, i).exit = i
  BY DEF Context, CtxSubshell

LEMMA AddAllocFields ==
    ASSUME NEW p \in Context, NEW i \in Nat
    PROVE  /\ p.level \in Nat
           /\ CtxAddAlloc(p, i).level = p.level + 1
           /\ CtxAddAlloc(p, i).loop = p.loop
           /\ CtxAddAlloc(p, i).alloc = i
           /\ CtxAddAlloc(p, i).exit = p.exit
  BY DEF Context, CtxAddAlloc

LEMMA AddJumpFields ==
    ASSUME NEW p \in Context, NEW i \in Nat
    PROVE  /\ p.level \in Nat
           /\ CtxAddJump(p, i).level = p.level + 1
           /\ CtxAddJump(p, i).loop = i
           /\ CtxAddJump(p, i).alloc = p.alloc
           /\ CtxAddJump(p, i).exit = p.exit
  BY DEF Context, CtxAddJump

LEMMA NoLoopFields ==
    ASSUME NEW p \in Context
    PROVE  /\ [p EXCEPT !.loop = 0] \in Context
           /\ [p EXCEPT !.loop = 0].level = p.level
           /\ [p EXCEPT !.loop = 0].loop = 0
           /\ [p EXCEPT !.loop = 0].alloc = p.alloc
           /\ [p EXCEPT !.loop = 0].exit = p.exit
  BY DEF Context

LEMMA FrameFields ==
    ASSUME NEW f \in Frame
    PROVE  /\ f.kind \in Kind /\ f.phase \in Phase /\ f.ctx \in Context
           /\ f.block \in Block \cup {NoBlock} /\ f.anode \in Node
           /\ f.jnode \in Node /\ f.saved \in Target
           /\ f.anode.level \in Nat /\ f.anode.next \in Nat
           /\ f.jnode.level \in Nat /\ f.jnode.next \in Nat
  <1>1. f.anode \in Node /\ f.jnode \in Node
    BY DEF Frame
  <1>2. f.anode.level \in Nat /\ f.anode.next \in Nat
    BY <1>1 DEF Node
  <1>3. f.jnode.level \in Nat /\ f.jnode.next \in Nat
    BY <1>1 DEF Node
  <1>. QED
    BY <1>1, <1>2, <1>3 DEF Frame

LEMMA FrameAt ==
    ASSUME NEW s \in Seq(Frame), NEW i \in 1 .. Len(s)
    PROVE  /\ i \in Nat /\ i >= 1 /\ Len(s) \in Nat
           /\ s[i] \in Frame /\ s[i].ctx \in Context
           /\ i > 1 => /\ i - 1 \in 1 .. Len(s)
                       /\ s[i - 1] \in Frame /\ s[i - 1].ctx \in Context
  <1>1. Len(s) \in Nat /\ i \in Nat /\ i >= 1
    BY LenProperties
  <1>2. \A j \in 1 .. Len(s) : s[j] \in Frame /\ s[j].ctx \in Context
    BY ElementOfSeq, FrameFields
  <1>3. i > 1 => i - 1 \in 1 .. Len(s)
    BY <1>1
  <1>. QED
    BY <1>1, <1>2, <1>3

\* Subshells and parsers start a region of their own.
LEMMA BarrierFields ==
    ASSUME NEW f \in Frame, NEW p \in Context, NEW i \in Nat, Barrier(f),
           ParserFrame(f, i) \/ Called(f, i, p)
    PROVE  /\ f.ctx.exit = i /\ f.ctx.loop = 0 /\ f.ctx.alloc = 0
           /\ ~Registered(f) /\ ~InBody(f)
  <1>1. CASE ParserFrame(f, i)
    BY <1>1 DEF ParserFrame, NoNodes, NoNode, Registered, InBody
  <1>2. CASE SubshellFrame(f, i, p)
    BY <1>2, SubshellFields DEF SubshellFrame, NoNodes, NoNode, Registered, InBody
  <1>3. Called(f, i, p) => SubshellFrame(f, i, p)
    BY DEF Called, Barrier, Barriers, Parser, PlainFrame, ListFrame,
           FunctionFrame, WhileBody, ForBody, Compound
  <1>. QED
    BY <1>1, <1>2, <1>3

\* What the other kinds of frames do to the context they receive.
Extends(f, i, p) ==
    /\ f.ctx.exit = p.exit
    /\ f.ctx.loop = IF InBody(f) THEN i ELSE IF f.kind = "func" THEN 0 ELSE p.loop
    /\ f.ctx.alloc = IF Registered(f) THEN i ELSE p.alloc
    /\ InBody(f) => f.kind # "func" /\ f.jnode.next = p.loop
    /\ Registered(f) => f.anode.next = p.alloc
    /\ f.ctx.level >= p.level
    /\ Registered(f) => f.anode.level = p.level + 1 /\ f.anode.level <= f.ctx.level
    /\ InBody(f) => f.jnode.level > p.level /\ f.jnode.level <= f.ctx.level
    /\ Registered(f) /\ InBody(f) => f.anode.level < f.jnode.level

LEMMA CalledFields ==
    ASSUME NEW f \in Frame, NEW p \in Context, NEW i \in Nat, ~Barrier(f),
           Called(f, i, p)
    PROVE  Extends(f, i, p)
  <1>. DEFINE q == [p EXCEPT !.loop = 0]
              r == CtxAddAlloc(p, i)
  <1>1. q \in Context /\ r \in Context
    BY NoLoopFields, ContextTypes
  <1>2. ~SubshellFrame(f, i, p)
    BY DEF SubshellFrame, Barrier, Barriers
  <1>3. CASE PlainFrame(f, p)
    <2>1. ~InBody(f) /\ ~Registered(f) /\ f.kind # "func" /\ f.ctx = p
      BY <1>3 DEF PlainFrame, NoNodes, NoNode, Registered, InBody, Compound
    <2>. QED
      BY <2>1, ContextFields DEF Extends
  <1>4. CASE ListFrame(f, i, p)
    <2>1. /\ ~InBody(f) /\ f.kind # "func" /\ f.ctx = CtxAddAlloc(p, i)
          /\ f.anode.level = p.level + 1 /\ f.anode.next = p.alloc
      BY <1>4 DEF ListFrame, InBody, AllocNode
    <2>2. f.ctx.level = p.level + 1 /\ f.ctx.exit = p.exit /\ f.ctx.loop = p.loop /\ f.ctx.alloc = i /\ p.level \in Nat
      BY <2>1, AddAllocFields
    <2>3. Registered(f)
      BY <2>1, <2>2 DEF Registered
    <2>. QED
      BY <2>1, <2>2, <2>3 DEF Extends
  <1>5. CASE FunctionFrame(f, i, p)
    <2>1. /\ ~InBody(f) /\ f.kind = "func" /\ f.ctx = CtxAddAlloc(q, i)
          /\ f.anode.level = p.level + 1 /\ f.anode.next = p.alloc
      BY <1>5 DEF FunctionFrame, InBody, AllocNode
    <2>2. f.ctx.level = p.level + 1 /\ f.ctx.exit = p.exit /\ f.ctx.loop = 0 /\ f.ctx.alloc = i /\ p.level \in Nat
      <3>1. q.level = p.level /\ q.exit = p.exit /\ q.loop = 0
        BY NoLoopFields
      <3>. HIDE DEF q
      <3>. QED
        BY <2>1, <3>1, <1>1, AddAllocFields, ContextFields
    <2>3. Registered(f)
      BY <2>1, <2>2 DEF Registered
    <2>. QED
      BY <2>1, <2>2, <2>3 DEF Extends
  <1>6. CASE WhileBody(f, i, p)
    <2>1. /\ InBody(f) /\ ~Registered(f) /\ f.kind # "func" /\ f.ctx = CtxAddJump(p, i)
          /\ f.jnode.level = p.level + 1 /\ f.jnode.next = p.loop
      BY <1>6 DEF WhileBody, InBody, JumpNode, Registered, NoNode
    <2>2. f.ctx.level = p.level + 1 /\ f.ctx.exit = p.exit /\ f.ctx.loop = i /\ f.ctx.alloc = p.alloc /\ p.level \in Nat
      BY <2>1, AddJumpFields
    <2>. QED
      BY <2>1, <2>2 DEF Extends
  <1>7. CASE ForBody(f, i, p)
    <2>1. /\ InBody(f) /\ f.kind # "func" /\ f.ctx = CtxAddJump(r, i)
          /\ f.jnode.level = r.level + 1 /\ f.jnode.next = r.loop
          /\ f.anode.level = p.level + 1 /\ f.anode.next = p.alloc
      BY <1>7 DEF ForBody, InBody, JumpNode, AllocNode
    <2>2. /\ r.level = p.level + 1 /\ r.exit = p.exit /\ r.loop = p.loop /\ r.alloc = i
          /\ f.ctx.level = r.level + 1 /\ f.ctx.exit = r.exit /\ f.ctx.loop = i
          /\ f.ctx.alloc = r.alloc /\ p.level \in Nat
      <3>. HIDE DEF r
      <3>1. f.ctx.level = r.level + 1 /\ f.ctx.exit = r.exit /\ f.ctx.loop = i /\ f.ctx.alloc = r.alloc
        BY <2>1, <1>1, AddJumpFields
      <3>2. r.level = p.level + 1 /\ r.exit = p.exit /\ r.loop = p.loop /\ r.alloc = i /\ p.level \in Nat
        BY AddAllocFields DEF r
      <3>. QED
        BY <3>1, <3>2
    <2>3. Registered(f)
      BY <2>1, <2>2 DEF Registered
    <2>. HIDE DEF r
    <2>. QED
      BY <2>1, <2>2, <2>3 DEF Extends
  <1>. QED
    BY <1>2, <1>3, <1>4, <1>5, <1>6, <1>7 DEF Called

LEMMA GlobalStep ==
    ASSUME NEW s \in Seq(Frame), NEW i \in 1 .. Len(s), LocalAt(s, i),
           i > 1 => GlobalAt(s, i - 1)
    PROVE  GlobalAt(s, i)
  <1>0. /\ i \in Nat /\ i >= 1 /\ s[i] \in Frame /\ s[i].ctx \in Context
        /\ i > 1 => s[i - 1] \in Frame /\ s[i - 1].ctx \in Context
    BY FrameAt
  <1>1. CASE Barrier(s[i])
    <2>1. /\ s[i].ctx.exit = i /\ s[i].ctx.loop = 0 /\ s[i].ctx.alloc = 0
          /\ ~Registered(s[i]) /\ ~InBody(s[i])
      <3>1. CASE ParserFrame(s[i], i)
        BY <3>1, <1>0, <1>1, BarrierFields
      <3>2. CASE i > 1 /\ Called(s[i], i, s[i - 1].ctx)
        BY <3>2, <1>0, <1>1, BarrierFields
      <3>. QED
        BY <3>1, <3>2 DEF LocalAt
    <2>2. RegionAt(s, i)
      BY <1>0, <1>1, <2>1 DEF RegionAt
    <2>3. LoopAt(s, i)
      BY <1>0, <1>1, <2>1 DEF LoopAt, Encloses
    <2>4. AllocAt(s, i) /\ LevelAt(s, i)
      BY <1>0, <2>1 DEF AllocAt, LevelAt
    <2>. QED
      BY <2>2, <2>3, <2>4 DEF GlobalAt
  <1>2. CASE ~Barrier(s[i])
    <2>. DEFINE f == s[i]
                g == s[i - 1]
    <2>1. i > 1 /\ Extends(f, i, g.ctx)
      <3>1. i > 1 /\ Called(f, i, g.ctx)
        BY <1>2 DEF LocalAt, ParserFrame, Barrier, Barriers
      <3>. QED
        BY <3>1, <1>0, <1>2, CalledFields
    <2>2. i - 1 \in Nat /\ i - 1 >= 1 /\ RegionAt(s, i - 1) /\ LoopAt(s, i - 1)
          /\ AllocAt(s, i - 1) /\ LevelAt(s, i - 1)
      BY <1>0, <2>1 DEF GlobalAt
    <2>3. RegionAt(s, i)
      BY <1>0, <1>2, <2>1, <2>2 DEF RegionAt, Extends
    <2>4. LoopAt(s, i)
      <3>1. \A k \in 1 .. i - 1 : Encloses(s, k, i) <=> Encloses(s, k, i - 1) /\ f.kind # "func"
        BY <1>0, <1>2 DEF Encloses
      <3>2. Encloses(s, i, i) <=> InBody(f)
        BY <1>0 DEF Encloses
      <3>3. CASE InBody(f)
        BY <3>1, <3>2, <3>3, <1>0, <2>1 DEF LoopAt, Extends
      <3>4. CASE ~InBody(f) /\ f.kind = "func"
        BY <3>1, <3>2, <3>4, <1>0, <2>1 DEF LoopAt, Extends, Encloses
      <3>5. CASE ~InBody(f) /\ f.kind # "func"
        <4>1. f.ctx.loop = g.ctx.loop
          BY <3>5, <2>1 DEF Extends
        <4>2. f.ctx.loop # 0 => Encloses(s, f.ctx.loop, i)
          BY <4>1, <3>5, <3>1, <2>2 DEF LoopAt, Encloses
        <4>3. \A k \in 1 .. i : Encloses(s, k, i) => k <= f.ctx.loop
          BY <4>1, <3>5, <3>1, <3>2, <2>2, <1>0 DEF LoopAt
        <4>. QED
          BY <4>2, <4>3 DEF LoopAt
      <3>. QED
        BY <3>3, <3>4, <3>5
    <2>5. AllocAt(s, i)
      BY <1>0, <2>1, <2>2, <2>3 DEF AllocAt, RegionAt, Extends
    <2>6. LevelAt(s, i)
      <3>1. /\ f.ctx.level \in Nat /\ f.anode.level \in Nat /\ f.jnode.level \in Nat
            /\ f.ctx.exit \in 1 .. i - 1 /\ f.ctx.exit = g.ctx.exit
            /\ g.ctx.level \in Nat
        BY <1>0, <2>1, <2>2, ContextFields, FrameFields DEF Extends, RegionAt
      <3>2. \A j \in f.ctx.exit .. i - 1 : s[j].ctx.level <= g.ctx.level
        BY <3>1, <2>2 DEF LevelAt
      <3>3. \A j \in f.ctx.exit .. i - 1 : s[j].ctx.level \in Nat
        <4>1. \A j \in f.ctx.exit .. i - 1 : j \in 1 .. Len(s)
          BY <3>1, <1>0, FrameAt
        <4>. QED
          BY <4>1, FrameAt, ContextFields
      <3>4. /\ f.ctx.level >= g.ctx.level
            /\ Registered(f) => f.anode.level = g.ctx.level + 1 /\ f.anode.level <= f.ctx.level
            /\ InBody(f) => f.jnode.level > g.ctx.level /\ f.jnode.level <= f.ctx.level
            /\ Registered(f) /\ InBody(f) => f.anode.level < f.jnode.level
        BY <2>1 DEF Extends
      <3>5. ASSUME NEW j \in f.ctx.exit .. i - 1
            PROVE  /\ s[j].ctx.level <= f.ctx.level
                   /\ Registered(f) => s[j].ctx.level < f.anode.level
                   /\ InBody(f) => s[j].ctx.level < f.jnode.level
        <4>. DEFINE lj == s[j].ctx.level
                    lg == g.ctx.level
                    lf == f.ctx.level
                    an == f.anode.level
                    jn == f.jnode.level
        <4>1. lj \in Nat /\ lg \in Nat /\ lf \in Nat /\ an \in Nat /\ jn \in Nat
          BY <3>1, <3>3
        <4>2. lj <= lg /\ lf >= lg
          BY <3>2, <3>4
        <4>3. Registered(f) => an = lg + 1
          BY <3>4
        <4>4. InBody(f) => jn > lg
          BY <3>4
        <4>. HIDE DEF lj, lg, lf, an, jn
        <4>5. lj <= lf /\ (an = lg + 1 => lj < an) /\ (jn > lg => lj < jn)
          BY <4>1, <4>2
        <4>. QED
          BY <4>3, <4>4, <4>5 DEF lj, lf, an, jn
      <3>. QED
        BY <3>4, <3>5 DEF LevelAt
    <2>. QED
      BY <2>3, <2>4, <2>5, <2>6 DEF GlobalAt
  <1>. QED
    BY <1>1, <1>2

\* A stack that differs from a well-formed one in its top frame only is
\* well-formed if that frame fits its caller.
LEMMA ReplaceTop ==
    ASSUME NEW s \in Seq(Frame), Structure(s), NEW r \in Seq(Frame),
           Len(r) \in 1 .. Len(s) + 1,
           \A i \in 1 .. Len(r) - 1 : r[i] = s[i],
           LocalAt(r, Len(r))
    PROVE  Structure(r)
  <1>0. Len(s) \in Nat /\ Len(r) \in Nat
    BY LenProperties
  <1>1. ASSUME NEW i \in 1 .. Len(r) - 1
        PROVE  LocalAt(r, i) /\ GlobalAt(r, i)
    <2>1. i \in 1 .. Len(s) /\ \A j \in 1 .. i : r[j] = s[j]
      BY <1>0
    <2>2. LocalAt(s, i) /\ GlobalAt(s, i)
      BY <2>1 DEF Structure
    <2>3. LocalAt(r, i)
      <3>1. i > 1 => i - 1 \in 1 .. i /\ i \in 1 .. i
        BY <1>0
      <3>2. CASE i > 1
        BY <3>1, <3>2, <2>1, <2>2 DEF LocalAt
      <3>3. CASE i = 1
        <4>1. r[i] = s[i] /\ s[i].kind = "main" /\ ParserFrame(s[i], i)
          BY <2>1, <2>2, <3>3 DEF LocalAt
        <4>. QED
          BY <4>1, <3>3 DEF LocalAt
      <3>. QED
        BY <3>2, <3>3
    <2>4. RegionAt(r, i)
      BY <2>1, <2>2, <1>0 DEF RegionAt, GlobalAt
    <2>5. \A k \in 1 .. i : Encloses(r, k, i) <=> Encloses(s, k, i)
      BY <2>1, <1>0 DEF Encloses
    <2>6. LoopAt(r, i)
      BY <2>1, <2>2, <2>5, <1>0 DEF LoopAt, GlobalAt, Encloses
    <2>7. AllocAt(r, i)
      BY <2>1, <2>2, <1>0 DEF AllocAt, GlobalAt, RegionAt
    <2>8. LevelAt(r, i)
      <3>1. r[i] = s[i] /\ LevelAt(s, i) /\ s[i].ctx.exit \in 1 .. i
        BY <2>1, <2>2 DEF GlobalAt, RegionAt
      <3>2. \A j \in s[i].ctx.exit .. i - 1 : r[j] = s[j]
        BY <3>1, <2>1
      <3>. QED
        BY <3>1, <3>2 DEF LevelAt
    <2>. QED
      BY <2>3, <2>4, <2>6, <2>7, <2>8 DEF GlobalAt
  <1>2. LocalAt(r, Len(r)) /\ GlobalAt(r, Len(r))
    BY <1>0, <1>1, GlobalStep
  <1>. QED
    BY <1>0, <1>1, <1>2 DEF Structure

----------------------------------------------------------------------------
(* The three changes to the stack: push, change the top frame, pop *)

\* Frame f may be called from the top frame of s.
Fits(s, f) ==
    LET n == Len(s) + 1 IN
    /\ f \in Frame /\ f.kind # "main"
    /\ ParserFrame(f, n) \/ Called(f, n, s[n - 1].ctx)
    /\ s[n - 1].phase = "expand" => f.kind = "subst"
    /\ f.kind = "source" => s[n - 1].kind = "cmd" /\ s[n - 1].phase = "call"
    /\ f.block \notin Owned(s)

LEMMA PushFrame ==
    ASSUME NEW s, WellFormed(s), NEW f, Fits(s, f)
    PROVE  /\ WellFormed(Append(s, f))
           /\ Owned(Append(s, f)) = Owned(s) \cup ({f.block} \ {NoBlock})
  <1>. DEFINE r == Append(s, f)
              n == Len(s) + 1
  <1>1. /\ s \in Seq(Frame) /\ f \in Frame /\ Len(s) \in Nat /\ Len(s) >= 1
        /\ r \in Seq(Frame) /\ r # <<>> /\ Len(r) = n /\ r[n] = f
        /\ \A i \in 1 .. Len(s) : r[i] = s[i]
    BY PushProperties, LenProperties, EmptySeq DEF WellFormed, Fits
  <1>. HIDE DEF r
  <1>2. LocalAt(r, n)
    <2>1. r[n] = f /\ r[n - 1] = s[n - 1] /\ n > 1
      BY <1>1
    <2>. QED
      BY <2>1 DEF LocalAt, Fits
  <1>3. Structure(r)
    BY <1>1, <1>2, ReplaceTop DEF WellFormed
  <1>4. Distinct(r)
    BY <1>1 DEF WellFormed, Distinct, Fits, Owned
  <1>5. Owned(r) = Owned(s) \cup ({f.block} \ {NoBlock})
    BY <1>1 DEF Owned
  <1>. QED
    BY <1>1, <1>3, <1>4, <1>5 DEF WellFormed, r

\* Frame f may take the place of the top frame of s.
Suits(s, f) ==
    LET n == Len(s) IN
    /\ f \in Frame /\ f.kind = s[n].kind
    /\ ParserFrame(f, n) \/ (n > 1 /\ Called(f, n, s[n - 1].ctx))
    /\ f.block = s[n].block \/ f.block \notin Owned(s)

LEMMA ChangeTop ==
    ASSUME NEW s, WellFormed(s), NEW f, Suits(s, f)
    PROVE  LET r == [s EXCEPT ![Len(s)] = f] IN
           /\ WellFormed(r)
           /\ Owned(r) = (Owned(s) \ {s[Len(s)].block}) \cup ({f.block} \ {NoBlock})
  <1>. DEFINE r == [s EXCEPT ![Len(s)] = f]
              n == Len(s)
  <1>1. /\ s \in Seq(Frame) /\ f \in Frame /\ n \in Nat /\ n >= 1
        /\ r \in Seq(Frame) /\ r # <<>> /\ Len(r) = n /\ r[n] = f
        /\ \A i \in 1 .. n - 1 : r[i] = s[i]
    BY SetTopProperties, LenProperties, EmptySeq DEF WellFormed, Suits
  <1>. HIDE DEF r, n
  <1>2. LocalAt(s, n)
    BY <1>1 DEF WellFormed, Structure, n
  <1>3. LocalAt(r, n)
    <2>1. n > 1 => r[n - 1] = s[n - 1]
      BY <1>1
    <2>2. /\ f.kind = s[n].kind
          /\ ParserFrame(f, n) \/ (n > 1 /\ Called(f, n, s[n - 1].ctx))
      BY DEF Suits, n
    <2>3. CASE n > 1
      BY <1>1, <1>2, <2>1, <2>2, <2>3 DEF LocalAt
    <2>4. CASE n = 1
      <3>1. s[n].kind = "main"
        BY <1>2, <2>4 DEF LocalAt
      <3>. QED
        BY <1>1, <3>1, <2>2, <2>4 DEF LocalAt
    <2>. QED
      BY <1>1, <2>3, <2>4
  <1>4. Structure(r)
    <2>1. Len(r) \in 1 .. Len(s) + 1 /\ \A i \in 1 .. Len(r) - 1 : r[i] = s[i]
      BY <1>1 DEF n
    <2>. QED
      BY <2>1, <1>1, <1>3, ReplaceTop DEF WellFormed
  <1>5. /\ Distinct(s)
        /\ f.block = s[n].block \/ f.block \notin Owned(s)
    BY DEF WellFormed, Suits, n
  <1>6. Distinct(r)
    BY <1>1, <1>5 DEF Distinct, Owned, n
  <1>7. Owned(r) = (Owned(s) \ {s[n].block}) \cup ({f.block} \ {NoBlock})
    BY <1>1, <1>5 DEF Owned, Distinct, n
  <1>. QED
    BY <1>1, <1>4, <1>6, <1>7 DEF WellFormed, r, n

LEMMA PopFrames ==
    ASSUME NEW s, WellFormed(s), NEW r \in Seq(Frame), Len(r) \in 1 .. Len(s),
           \A i \in 1 .. Len(r) : r[i] = s[i]
    PROVE  /\ WellFormed(r)
           /\ Len(r) = Len(s) - 1 => Owned(r) = Owned(s) \ {s[Len(s)].block}
  <1>1. /\ s \in Seq(Frame) /\ Len(s) \in Nat /\ Len(r) \in Nat
        /\ Len(r) >= 1 /\ Len(r) <= Len(s) /\ Distinct(s) /\ Structure(s)
    BY LenProperties DEF WellFormed
  <1>2. LocalAt(r, Len(r))
    <2>1. LocalAt(s, Len(r)) /\ r[Len(r)] = s[Len(r)]
      BY <1>1 DEF Structure
    <2>2. Len(r) > 1 => r[Len(r) - 1] = s[Len(r) - 1]
      BY <1>1
    <2>3. CASE Len(r) > 1
      <3>. DEFINE n == Len(r)
      <3>. HIDE DEF n
      <3>1. LocalAt(s, n) /\ r[n] = s[n] /\ r[n - 1] = s[n - 1]
        BY <2>1, <2>2, <2>3 DEF n
      <3>2. LocalAt(r, n)
        BY <3>1 DEF LocalAt
      <3>. QED
        BY <3>2 DEF n
    <2>4. CASE Len(r) = 1
      <3>1. s[1].kind = "main" /\ ParserFrame(s[1], 1) /\ r[1] = s[1]
        BY <2>1, <2>4 DEF LocalAt
      <3>2. LocalAt(r, 1)
        BY <3>1 DEF LocalAt
      <3>. QED
        BY <3>2, <2>4
    <2>5. Len(r) > 1 \/ Len(r) = 1
      <3>. DEFINE n == Len(r)
      <3>1. n \in Nat /\ n >= 1
        BY <1>1
      <3>. HIDE DEF n
      <3>2. n > 1 \/ n = 1
        BY <3>1
      <3>. QED
        BY <3>2 DEF n
    <2>. QED
      BY <2>3, <2>4, <2>5
  <1>3. Structure(r)
    BY <1>1, <1>2, ReplaceTop
  <1>4. Distinct(r)
    BY <1>1 DEF Distinct
  <1>5. r # <<>>
    BY <1>1, EmptySeq
  <1>6. Len(r) = Len(s) - 1 => Owned(r) = Owned(s) \ {s[Len(s)].block}
    BY <1>1 DEF Owned, Distinct
  <1>. QED
    BY <1>3, <1>4, <1>5, <1>6 DEF WellFormed

----------------------------------------------------------------------------
(* Steps taken while no jump is in progress *)

LEMMA InvFacts ==
    ASSUME Inv
    PROVE  /\ frames \in Seq(Frame) /\ WellFormed(frames)
           /\ Depth \in Nat \ {0} /\ Depth = Len(frames)
           /\ Top \in Frame /\ Top.ctx \in Context /\ Top.kind \in Kind
           /\ Top.block \in Block \cup {NoBlock} /\ Top.saved \in Target
           /\ heap \subseteq Block /\ out \in Target /\ jump \in Jump
           /\ LocalAt(frames, Depth) /\ GlobalAt(frames, Depth)
           /\ Running => heap = Owned(frames)
           /\ Depth > 1 => /\ Caller \in Frame /\ Caller.ctx \in Context
                           /\ LocalAt(frames, Depth - 1)
                           /\ GlobalAt(frames, Depth - 1)
  <1>1. frames \in Seq(Frame) /\ frames # <<>> /\ WellFormed(frames) /\ Structure(frames)
    BY DEF Inv, TypeOK, WellFormed
  <1>2. Depth \in Nat \ {0} /\ Depth = Len(frames)
    BY <1>1, EmptySeq DEF Depth
  <1>3. Depth \in 1 .. Len(frames) /\ (Depth > 1 => Depth - 1 \in 1 .. Len(frames))
    BY <1>2
  <1>4. /\ LocalAt(frames, Depth) /\ GlobalAt(frames, Depth)
        /\ Depth > 1 => LocalAt(frames, Depth - 1) /\ GlobalAt(frames, Depth - 1)
    BY <1>1, <1>3 DEF Structure
  <1>5. Top \in Frame /\ (Depth > 1 => Caller \in Frame)
    BY <1>1, <1>3, ElementOfSeq DEF Top, Caller
  <1>6. /\ Top.ctx \in Context /\ Top.kind \in Kind
        /\ Top.block \in Block \cup {NoBlock} /\ Top.saved \in Target
        /\ Depth > 1 => Caller.ctx \in Context
    BY <1>5, FrameFields
  <1>7. /\ heap \subseteq Block /\ out \in Target /\ jump \in Jump
        /\ Running => heap = Owned(frames)
    BY DEF Inv, TypeOK, Running, HeapExact
  <1>. QED
    BY <1>1, <1>2, <1>4, <1>5, <1>6, <1>7

LEMMA NoJumpConsistent == Running => JumpConsistent
  BY DEF Running, JumpConsistent

LEMMA RunningPush ==
    ASSUME ContextAssumption, Inv, Running, NEW f, Fits(frames, f),
           frames' = Append(frames, f),
           heap' = heap \cup ({f.block} \ {NoBlock}),
           out' \in Target, UNCHANGED jump
    PROVE  Inv'
  <1>1. /\ WellFormed(frames) /\ heap = Owned(frames) /\ heap \subseteq Block
        /\ jump \in Jump /\ jump.op = "none"
    BY InvFacts DEF Running
  <1>2. f.block \in Block \cup {NoBlock}
    BY FrameFields DEF Fits
  <1>3. WellFormed(frames') /\ heap' = Owned(frames')
    BY <1>1, PushFrame
  <1>4. TypeOK'
    BY <1>1, <1>2, <1>3 DEF TypeOK, WellFormed
  <1>5. HeapExact' /\ JumpConsistent'
    BY <1>1, <1>3 DEF HeapExact, JumpConsistent
  <1>. QED
    BY <1>3, <1>4, <1>5 DEF Inv

LEMMA RunningChange ==
    ASSUME ContextAssumption, Inv, Running, NEW f, Suits(frames, f), SetTop(f),
           heap' = (heap \ {Top.block}) \cup ({f.block} \ {NoBlock}),
           UNCHANGED <<out, jump>>
    PROVE  Inv'
  <1>1. /\ WellFormed(frames) /\ heap = Owned(frames) /\ heap \subseteq Block
        /\ jump \in Jump /\ jump.op = "none" /\ out \in Target
    BY InvFacts DEF Running
  <1>2. f.block \in Block \cup {NoBlock}
    BY FrameFields DEF Suits
  <1>3. WellFormed(frames') /\ heap' = Owned(frames')
    BY <1>1, ChangeTop DEF SetTop, Top, Depth
  <1>4. TypeOK'
    BY <1>1, <1>2, <1>3 DEF TypeOK, WellFormed
  <1>5. HeapExact' /\ JumpConsistent'
    BY <1>1, <1>3 DEF HeapExact, JumpConsistent
  <1>. QED
    BY <1>3, <1>4, <1>5 DEF Inv

\* A change of the top frame that allocates and frees nothing.
LEMMA RunningSame ==
    ASSUME ContextAssumption, Inv, Running, NEW f \in Frame, SetTop(f),
           f.kind = Top.kind, f.block = Top.block,
           ParserFrame(f, Depth) \/ (Depth > 1 /\ Called(f, Depth, Caller.ctx)),
           UNCHANGED <<heap, out, jump>>
    PROVE  Inv'
  <1>1. Suits(frames, f)
    BY DEF Suits, Depth, Top, Caller
  <1>2. Top.block \in heap \cup {NoBlock} /\ NoBlock \notin heap
    <2>1. Top.block \in Owned(frames) \cup {NoBlock}
      BY InvFacts DEF Owned, Top
    <2>. QED
      BY <2>1, InvFacts DEF ContextAssumption
  <1>3. heap' = (heap \ {Top.block}) \cup ({f.block} \ {NoBlock})
    BY <1>2
  <1>. QED
    BY <1>1, <1>3, RunningChange

\* A change of the top frame that gives it a block.
LEMMA RunningMalloc ==
    ASSUME ContextAssumption, Inv, Running, NEW f \in Frame, SetTop(f),
           f.kind = Top.kind, Top.block = NoBlock, Malloc(f.block),
           ParserFrame(f, Depth) \/ (Depth > 1 /\ Called(f, Depth, Caller.ctx)),
           UNCHANGED <<out, jump>>
    PROVE  Inv'
  <1>1. f.block \in Block \ heap /\ heap' = heap \cup {f.block} /\ heap = Owned(frames)
    BY InvFacts DEF Malloc
  <1>2. Suits(frames, f)
    BY <1>1 DEF Suits, Depth, Top, Caller
  <1>3. heap' = (heap \ {Top.block}) \cup ({f.block} \ {NoBlock})
    BY <1>1, InvFacts DEF ContextAssumption
  <1>. QED
    BY <1>2, <1>3, RunningChange

\* What is on top of the stack determines the shape of the top frame.
LEMMA TopShape ==
    ASSUME Inv
    PROVE  /\ Top.kind \in Parser => ParserFrame(Top, Depth)
           /\ Top.kind \notin Parser => Depth > 1 /\ Called(Top, Depth, Caller.ctx)
           /\ Top.kind = "main" => Depth = 1
  <1>1. LocalAt(frames, Depth)
    BY InvFacts
  <1>2. Called(Top, Depth, Caller.ctx) => Top.kind \notin Parser
    BY DEF Called, Parser, SubshellFrame, PlainFrame, ListFrame, FunctionFrame,
           WhileBody, ForBody, Compound
  <1>3. ParserFrame(Top, Depth) => Top.kind \in Parser
    BY DEF ParserFrame
  <1>. QED
    BY <1>1, <1>2, <1>3 DEF LocalAt, Top, Caller

LEMMA ParserSteps ==
    ASSUME ContextAssumption, Inv, ReadCommand \/ EndCommand \/ MainEnds
    PROVE  Inv'
  <1>0. /\ Running /\ Top \in Frame /\ Top.kind \in Parser
        /\ ParserFrame(Top, Depth) /\ heap \subseteq Block
    BY InvFacts, TopShape DEF ReadCommand, EndCommand, MainEnds, Parser
  <1>1. CASE ReadCommand
    <2>. DEFINE f(b) == [Top EXCEPT !.phase = "exec", !.block = b]
    <2>1. PICK b \in Block : Malloc(b) /\ SetTop(f(b))
      BY <1>1 DEF ReadCommand
    <2>2. /\ f(b) \in Frame /\ f(b).kind = Top.kind /\ f(b).block = b
          /\ f(b).phase = "exec" /\ f(b).ctx = Top.ctx
          /\ f(b).anode = Top.anode /\ f(b).jnode = Top.jnode
      BY <1>0 DEF Frame, Phase
    <2>3. ParserFrame(f(b), Depth) /\ Top.block = NoBlock
      <3>. HIDE DEF f
      <3>. QED  BY <1>0, <1>1, <2>2 DEF ParserFrame, NoNodes, ReadCommand
    <2>. HIDE DEF f
    <2>. QED
      BY <1>0, <1>1, <2>1, <2>2, <2>3, RunningMalloc DEF ReadCommand
  <1>2. CASE EndCommand
    <2>. DEFINE p == IF Top.phase = "exited" THEN "eof" ELSE "idle"
                f == [Top EXCEPT !.block = NoBlock, !.phase = p]
    <2>1. p \in {"eof", "idle"}
      OBVIOUS
    <2>2. SetTop(f)
      BY <1>2 DEF EndCommand
    <2>. HIDE DEF p
    <2>3. /\ f \in Frame /\ f.kind = Top.kind /\ f.block = NoBlock
          /\ f.phase = p /\ f.ctx = Top.ctx
          /\ f.anode = Top.anode /\ f.jnode = Top.jnode
      BY <1>0, <2>1 DEF Frame, Phase
    <2>. HIDE DEF f
    <2>4. ParserFrame(f, Depth)
      BY <1>0, <2>1, <2>3 DEF ParserFrame, NoNodes
    <2>5. NoBlock \notin Owned(frames)
      BY DEF Owned
    <2>6. Suits(frames, f)
      BY <2>3, <2>4, <2>5 DEF Suits, Depth, Top
    <2>. QED
      BY <1>0, <1>2, <2>2, <2>3, <2>6, RunningChange DEF EndCommand, Free
  <1>3. CASE MainEnds
    <2>. DEFINE f == [Top EXCEPT !.phase = "eof"]
    <2>1. SetTop(f)
      BY <1>3, InvFacts DEF MainEnds, SetPhase, SetTop, Top
    <2>2. /\ f \in Frame /\ f.kind = Top.kind /\ f.block = Top.block
          /\ f.phase = "eof" /\ f.ctx = Top.ctx
          /\ f.anode = Top.anode /\ f.jnode = Top.jnode
      BY <1>0 DEF Frame, Phase
    <2>. HIDE DEF f
    <2>3. ParserFrame(f, Depth)
      BY <1>0, <1>3, <2>2 DEF ParserFrame, NoNodes, MainEnds
    <2>. QED
      BY <1>0, <1>3, <2>1, <2>2, <2>3, RunningSame DEF MainEnds
  <1>. QED
    BY <1>1, <1>2, <1>3

LEMMA NewFrameFields ==
    ASSUME NEW kind, NEW phase, NEW c, NEW b, NEW t
    PROVE  LET f == NewFrame(kind, phase, c, b, t) IN
           /\ f.kind = kind /\ f.phase = phase /\ f.ctx = c /\ f.block = b
           /\ f.saved = t /\ NoNodes(f)
  BY DEF NewFrame, NoNodes

LEMMA CommandSteps ==
    ASSUME ContextAssumption, Inv,
           \/ \E kind \in Compound, t \in Target : OpenCompound(kind, t)
           \/ \E t \in Target : OpenSimple(t)
           \/ \E t \in Target : OpenSubstitution(t)
    PROVE  Inv'
  <1>0. /\ Running /\ Top \in Frame /\ Top.ctx \in Context /\ Depth \in Nat \ {0}
        /\ Depth = Len(frames) /\ heap \subseteq Block /\ heap = Owned(frames)
        /\ out \in Target /\ frames \in Seq(Frame)
        /\ frames[Depth + 1 - 1] = Top
    BY InvFacts DEF OpenCompound, OpenSimple, OpenSubstitution, Top
  <1>1. ASSUME NEW kind \in Compound, NEW t \in Target, OpenCompound(kind, t)
        PROVE  Inv'
    <2>. DEFINE f == NewFrame(kind, "expand", Top.ctx, NoBlock, out)
    <2>1. f \in Frame
      BY <1>0, NewFrameType DEF Kind, Saving, Phase
    <2>2. /\ f.kind = kind /\ f.phase = "expand" /\ f.ctx = Top.ctx
          /\ f.block = NoBlock /\ NoNodes(f)
      BY NewFrameFields
    <2>3. frames' = Append(frames, f) /\ Top.phase # "expand" /\ out' = t /\ UNCHANGED <<heap, jump>>
      BY <1>1 DEF OpenCompound, RunsList, Push
    <2>. HIDE DEF f
    <2>4. Called(f, Depth + 1, Top.ctx)
      BY <2>2 DEF Called, PlainFrame
    <2>5. Fits(frames, f)
      BY <1>0, <2>1, <2>2, <2>3, <2>4 DEF Fits, Compound, Owned
    <2>. QED
      BY <1>0, <2>2, <2>3, <2>5, RunningPush
  <1>2. ASSUME NEW t \in Target, OpenSimple(t)  PROVE Inv'
    <2>. DEFINE g(b) == NewFrame("cmd", "expand", Top.ctx, b, out)
    <2>1. PICK b \in Block : Malloc(b) /\ Push(g(b))
      BY <1>2 DEF OpenSimple
    <2>. DEFINE f == g(b)
    <2>2. f \in Frame
      BY <1>0, NewFrameType DEF Kind, Saving, Phase
    <2>3. /\ f.kind = "cmd" /\ f.phase = "expand" /\ f.ctx = Top.ctx
          /\ f.block = b /\ NoNodes(f)
      BY NewFrameFields
    <2>4. frames' = Append(frames, f) /\ Top.phase # "expand" /\ out' = t /\ UNCHANGED jump
      BY <1>2, <2>1 DEF OpenSimple, RunsList, Push
    <2>. HIDE DEF f
    <2>5. Called(f, Depth + 1, Top.ctx)
      BY <2>3 DEF Called, PlainFrame
    <2>6. Fits(frames, f)
      BY <1>0, <2>1, <2>2, <2>3, <2>4, <2>5 DEF Fits, Malloc
    <2>7. heap' = heap \cup ({f.block} \ {NoBlock})
      BY <2>1, <2>3 DEF Malloc, ContextAssumption
    <2>. QED
      BY <1>0, <2>4, <2>6, <2>7, RunningPush
  <1>3. ASSUME NEW t \in Target, OpenSubstitution(t)  PROVE Inv'
    <2>. DEFINE c == CtxSubshell(Top.ctx, Depth + 1)
                g(b) == NewFrame("subst", "run", c, b, out)
    <2>1. PICK b \in Block : Malloc(b) /\ Push(g(b))
      BY <1>3 DEF OpenSubstitution
    <2>2. c \in Context
      <3>1. Depth + 1 \in Nat
        BY <1>0
      <3>. QED
        BY <1>0, <3>1, ContextTypes
    <2>. HIDE DEF c
    <2>. DEFINE f == g(b)
    <2>3. f \in Frame
      BY <1>0, <2>2, NewFrameType DEF Kind, Saving, Phase
    <2>4. /\ f.kind = "subst" /\ f.phase = "run" /\ f.ctx = c
          /\ f.block = b /\ NoNodes(f)
      BY NewFrameFields
    <2>5. frames' = Append(frames, f) /\ out' = t /\ UNCHANGED jump
      BY <1>3, <2>1 DEF OpenSubstitution, Push
    <2>. HIDE DEF f
    <2>6. Called(f, Depth + 1, Top.ctx)
      BY <2>4 DEF Called, SubshellFrame, c
    <2>7. Fits(frames, f)
      BY <1>0, <2>1, <2>3, <2>4, <2>6 DEF Fits, Malloc
    <2>8. heap' = heap \cup ({f.block} \ {NoBlock})
      BY <2>1, <2>4 DEF Malloc, ContextAssumption
    <2>. QED
      BY <1>0, <2>5, <2>7, <2>8, RunningPush
  <1>. QED
    BY <1>1, <1>2, <1>3

LEMMA EnterSteps ==
    ASSUME ContextAssumption, Inv,
           \/ EnterSubshell \/ EnterGroup \/ EnterWhile \/ AllocateList \/ RegisterList
    PROVE  Inv'
  <1>0. /\ Running /\ Top \in Frame /\ Top.kind \in Compound \cup {"cmd"}
        /\ Top.phase = "expand" /\ Depth \in Nat \ {0} /\ Top.ctx \in Context
    BY InvFacts DEF EnterSubshell, EnterGroup, EnterWhile, AllocateList,
         RegisterList, Compound
  <1>1. Depth > 1 /\ PlainFrame(Top, Caller.ctx) /\ Caller.ctx \in Context
    <2>1. Depth > 1 /\ Called(Top, Depth, Caller.ctx)
      BY <1>0, TopShape DEF Compound, Parser
    <2>. QED
      BY <2>1, <1>0, InvFacts
        DEF Called, SubshellFrame, ListFrame, FunctionFrame, WhileBody, ForBody
  <1>. DEFINE p == Caller.ctx
  <1>2. Top.ctx = p /\ NoNodes(Top)
    BY <1>1 DEF PlainFrame
  <1>3. CASE EnterSubshell
    <2>. DEFINE c == CtxSubshell(Top.ctx, Depth)
                g(b) == [Top EXCEPT !.phase = "run", !.block = b, !.ctx = c]
    <2>1. PICK b \in Block : Malloc(b) /\ SetTop(g(b))
      BY <1>3 DEF EnterSubshell
    <2>2. c \in Context /\ c = CtxSubshell(p, Depth)
      BY <1>0, <1>2, ContextTypes
    <2>. HIDE DEF c
    <2>. DEFINE f == g(b)
    <2>3. /\ f \in Frame /\ f.kind = Top.kind /\ f.block = b /\ f.phase = "run"
          /\ f.ctx = c /\ f.anode = Top.anode /\ f.jnode = Top.jnode
      BY <1>0, <2>2 DEF Frame, Phase
    <2>. HIDE DEF f
    <2>4. Top.kind = "sub" /\ Top.block = NoBlock
      BY <1>1, <1>3 DEF EnterSubshell, PlainFrame
    <2>5. Called(f, Depth, p)
      BY <1>2, <2>2, <2>3, <2>4 DEF Called, SubshellFrame, NoNodes
    <2>6. SetTop(f) /\ Malloc(f.block) /\ UNCHANGED <<out, jump>>
      BY <1>3, <2>1, <2>3 DEF f, EnterSubshell
    <2>. QED
      BY <1>0, <1>1, <2>3, <2>4, <2>5, <2>6, RunningMalloc
  <1>4. ASSUME NEW ph \in {"run", "cond"}, SetPhase(ph),
               Top.kind = IF ph = "run" THEN "group" ELSE "while",
               UNCHANGED <<heap, out, jump>>
        PROVE  Inv'
    <2>. DEFINE f == [Top EXCEPT !.phase = ph]
    <2>1. SetTop(f)
      BY <1>4, InvFacts DEF SetPhase, SetTop, Top
    <2>2. /\ f \in Frame /\ f.kind = Top.kind /\ f.block = Top.block
          /\ f.phase = ph /\ f.ctx = Top.ctx
          /\ f.anode = Top.anode /\ f.jnode = Top.jnode
      BY <1>0, <1>4 DEF Frame, Phase
    <2>. HIDE DEF f
    <2>3. Called(f, Depth, p)
      BY <1>1, <1>4, <2>2 DEF Called, PlainFrame, NoNodes
    <2>. QED
      BY <1>0, <1>1, <1>4, <2>1, <2>2, <2>3, RunningSame
  <1>5. CASE EnterGroup
    BY <1>4, <1>5 DEF EnterGroup
  <1>6. CASE EnterWhile
    BY <1>4, <1>6 DEF EnterWhile
  <1>7. CASE AllocateList
    <2>. DEFINE g(b) == [Top EXCEPT !.block = b]
    <2>1. PICK b \in Block : Malloc(b) /\ SetTop(g(b))
      BY <1>7 DEF AllocateList
    <2>. DEFINE f == g(b)
    <2>2. /\ f \in Frame /\ f.kind = Top.kind /\ f.block = b /\ f.phase = Top.phase
          /\ f.ctx = Top.ctx /\ f.anode = Top.anode /\ f.jnode = Top.jnode
      BY <1>0 DEF Frame
    <2>. HIDE DEF f
    <2>3. Called(f, Depth, p)
      BY <1>1, <1>7, <2>2 DEF Called, PlainFrame, NoNodes, AllocateList
    <2>4. SetTop(f) /\ Malloc(f.block) /\ Top.block = NoBlock /\ UNCHANGED <<out, jump>>
      BY <1>7, <2>1, <2>2 DEF f, AllocateList
    <2>. QED
      BY <1>0, <1>1, <2>2, <2>3, <2>4, RunningMalloc
  <1>8. CASE RegisterList
    <2>. DEFINE ph == CASE Top.kind = "for"  -> "iter"
                        [] Top.kind = "case" -> "run"
                        [] Top.kind = "cmd"  -> "args"
                c == CtxAddAlloc(Top.ctx, Depth)
                a == AllocNode(Top.ctx)
                f == [Top EXCEPT !.phase = ph, !.ctx = c, !.anode = a]
    <2>1. /\ Top.kind \in {"for", "case", "cmd"} /\ Top.block # NoBlock
          /\ UNCHANGED <<heap, out, jump>>
      BY <1>8 DEF RegisterList
    <2>2. SetTop(f)
      BY <1>8 DEF RegisterList
    <2>3. c \in Context /\ a \in Node
      BY <1>0, ContextTypes
    <2>4. \/ Top.kind = "for" /\ ph = "iter"
          \/ Top.kind = "case" /\ ph = "run"
          \/ Top.kind = "cmd" /\ ph = "args"
      BY <2>1
    <2>5. c = CtxAddAlloc(p, Depth) /\ a = AllocNode(p)
      BY <1>2
    <2>. HIDE DEF ph, c, a
    <2>6. ph \in Phase
      BY <2>4 DEF Phase
    <2>7. /\ f \in Frame /\ f.kind = Top.kind /\ f.block = Top.block
          /\ f.phase = ph /\ f.ctx = c /\ f.anode = a /\ f.jnode = Top.jnode
      BY <1>0, <2>3, <2>6 DEF Frame
    <2>. HIDE DEF f
    <2>8. Called(f, Depth, p)
      BY <1>2, <2>1, <2>4, <2>5, <2>7 DEF Called, ListFrame, NoNodes
    <2>. QED
      BY <1>0, <1>1, <2>1, <2>2, <2>7, <2>8, RunningSame
  <1>. QED
    BY <1>3, <1>5, <1>6, <1>7, <1>8

\* The frame a loop turns back into when its body is left.
LEMMA LeaveBodyShape ==
    ASSUME NEW s \in Seq(Frame), NEW i \in 1 .. Len(s), frames = s, LocalAt(s, i),
           InBody(s[i]), NEW ph \in {"done", Again(i)}
    PROVE  LET f == LeaveBody(i, ph) IN
           /\ i > 1 /\ f \in Frame /\ f.kind = s[i].kind /\ f.block = s[i].block
           /\ Called(f, i, s[i - 1].ctx)
  <1>. DEFINE f == LeaveBody(i, ph)
              p == s[i - 1].ctx
              c == LoopContext(i)
  <1>1. /\ i > 1 /\ p \in Context /\ s[i] \in Frame /\ i \in Nat
        /\ WhileBody(s[i], i, p) \/ ForBody(s[i], i, p)
    <2>1. ~ParserFrame(s[i], i)
      BY DEF ParserFrame, InBody
    <2>2. i > 1 /\ Called(s[i], i, p)
      BY <2>1 DEF LocalAt
    <2>3. WhileBody(s[i], i, p) \/ ForBody(s[i], i, p)
      BY <2>2 DEF Called, InBody, SubshellFrame, PlainFrame, ListFrame, FunctionFrame
    <2>. QED
      BY <2>2, <2>3, FrameAt
  <1>2. NoNode \in Node
    BY DEF NoNode, Node
  <1>3. CASE WhileBody(s[i], i, p)
    <2>1. c = p /\ ph \in {"done", "cond"} /\ s[i].kind = "while"
      BY <1>3 DEF WhileBody, LoopContext, Again
    <2>. HIDE DEF c
    <2>2. /\ f \in Frame /\ f.kind = s[i].kind /\ f.block = s[i].block
          /\ f.phase = ph /\ f.ctx = c /\ f.anode = s[i].anode /\ f.jnode = NoNode
      BY <1>1, <1>2, <2>1 DEF LeaveBody, c, Frame, Phase
    <2>. HIDE DEF f
    <2>3. PlainFrame(f, p)
      BY <1>3, <2>1, <2>2 DEF PlainFrame, WhileBody, NoNodes
    <2>. QED
      BY <1>1, <2>2, <2>3 DEF Called, f
  <1>4. CASE ForBody(s[i], i, p)
    <2>1. c = CtxAddAlloc(p, i) /\ ph \in {"done", "iter"} /\ s[i].kind = "for"
      BY <1>4 DEF ForBody, LoopContext, Again
    <2>2. c \in Context
      BY <2>1, <1>1, ContextTypes
    <2>. HIDE DEF c
    <2>3. /\ f \in Frame /\ f.kind = s[i].kind /\ f.block = s[i].block
          /\ f.phase = ph /\ f.ctx = c /\ f.anode = s[i].anode /\ f.jnode = NoNode
      BY <1>1, <1>2, <2>1, <2>2 DEF LeaveBody, c, Frame, Phase
    <2>. HIDE DEF f
    <2>4. ListFrame(f, i, p)
      BY <1>4, <2>1, <2>3 DEF ListFrame, ForBody
    <2>. QED
      BY <1>1, <2>3, <2>4 DEF Called, f
  <1>. QED
    BY <1>1, <1>3, <1>4

LEMMA LoopSteps ==
    ASSUME ContextAssumption, Inv, BeginBody \/ EndBody
    PROVE  Inv'
  <1>0. /\ Running /\ Top \in Frame /\ Top.kind \in Loop
        /\ Depth \in Nat \ {0} /\ Top.ctx \in Context /\ Depth = Len(frames)
        /\ frames \in Seq(Frame) /\ LocalAt(frames, Depth)
        /\ UNCHANGED <<heap, out, jump>>
    BY InvFacts DEF BeginBody, EndBody
  <1>1. Depth > 1 /\ Called(Top, Depth, Caller.ctx) /\ Caller.ctx \in Context
    BY <1>0, TopShape, InvFacts DEF Loop, Parser
  <1>. DEFINE p == Caller.ctx
  <1>2. CASE BeginBody
    <2>. DEFINE c == CtxAddJump(Top.ctx, Depth)
                n == JumpNode(Top.ctx)
                f == [Top EXCEPT !.phase = "body", !.ctx = c, !.jnode = n]
    <2>1. SetTop(f) /\ Top.phase \in {"cond", "iter"}
      BY <1>2 DEF BeginBody
    <2>2. c \in Context /\ n \in Node
      BY <1>0, ContextTypes
    <2>3. /\ f \in Frame /\ f.kind = Top.kind /\ f.block = Top.block
          /\ f.phase = "body" /\ f.ctx = c /\ f.anode = Top.anode /\ f.jnode = n
      <3>. HIDE DEF c, n
      <3>. QED  BY <1>0, <2>2 DEF Frame, Phase
    <2>. HIDE DEF f
    <2>4. Called(f, Depth, p)
      <3>1. CASE Top.kind = "while"
        <4>1. PlainFrame(Top, p)
          BY <3>1, <1>1, <2>1 DEF Called, SubshellFrame, ListFrame, FunctionFrame,
               WhileBody, ForBody
        <4>2. WhileBody(f, Depth, p)
          BY <3>1, <4>1, <2>3 DEF PlainFrame, WhileBody, NoNodes
        <4>. QED
          BY <4>2 DEF Called
      <3>2. CASE Top.kind = "for"
        <4>1. ListFrame(Top, Depth, p)
          BY <3>2, <1>1, <2>1 DEF Called, SubshellFrame, PlainFrame, FunctionFrame,
               WhileBody, ForBody
        <4>2. ForBody(f, Depth, p)
          BY <3>2, <4>1, <2>3 DEF ListFrame, ForBody
        <4>. QED
          BY <4>2 DEF Called
      <3>. QED
        BY <1>0, <3>1, <3>2 DEF Loop
    <2>. QED
      BY <1>0, <1>1, <2>1, <2>3, <2>4, RunningSame
  <1>3. CASE EndBody
    <2>. DEFINE f == LeaveBody(Depth, Again(Depth))
    <2>1. SetTop(f) /\ InBody(Top)
      BY <1>3 DEF EndBody, InBody
    <2>2. /\ f \in Frame /\ f.kind = Top.kind /\ f.block = Top.block
          /\ Called(f, Depth, p)
      <3>1. Depth \in 1 .. Len(frames) /\ Top = frames[Depth] /\ Caller = frames[Depth - 1]
        BY <1>0 DEF Top, Caller
      <3>. QED
        BY <3>1, <1>0, <2>1, LeaveBodyShape
    <2>. HIDE DEF f
    <2>. QED
      BY <1>0, <1>1, <2>1, <2>2, RunningSame
  <1>. QED
    BY <1>2, <1>3

\* A command frame once its list of arguments is registered.
LEMMA CommandPhase ==
    ASSUME Inv, Top.kind = "cmd", Top.phase \in {"args", "call"},
           NEW ph \in {"args", "call", "done"}
    PROVE  LET f == [Top EXCEPT !.phase = ph] IN
           /\ f \in Frame /\ f.kind = "cmd" /\ f.block = Top.block /\ f.phase = ph
           /\ f.ctx = Top.ctx
           /\ Depth > 1 /\ Called(f, Depth, Caller.ctx)
           /\ Suits(frames, f)
           /\ [frames EXCEPT ![Depth].phase = ph] = [frames EXCEPT ![Len(frames)] = f]
  <1>. DEFINE f == [Top EXCEPT !.phase = ph]
  <1>1. Top \in Frame /\ Depth = Len(frames) /\ frames \in Seq(Frame)
    BY InvFacts
  <1>2. Depth > 1 /\ ListFrame(Top, Depth, Caller.ctx)
    BY TopShape DEF Parser, Called, SubshellFrame, PlainFrame, FunctionFrame,
         WhileBody, ForBody
  <1>3. [frames EXCEPT ![Depth].phase = ph] = [frames EXCEPT ![Len(frames)] = f]
    BY <1>1 DEF Top
  <1>4. /\ f \in Frame /\ f.kind = "cmd" /\ f.block = Top.block /\ f.phase = ph
        /\ f.ctx = Top.ctx /\ f.anode = Top.anode /\ f.jnode = Top.jnode
    BY <1>1 DEF Frame, Phase
  <1>. HIDE DEF f
  <1>5. Called(f, Depth, Caller.ctx)
    BY <1>2, <1>4 DEF Called, ListFrame
  <1>6. Suits(frames, f)
    BY <1>2, <1>4, <1>5 DEF Suits, Depth, Top, Caller
  <1>. QED
    BY <1>2, <1>3, <1>4, <1>5, <1>6 DEF f

LEMMA BuiltinStep ==
    ASSUME ContextAssumption, Inv, BuiltinReturns
    PROVE  Inv'
  <1>. DEFINE f == [Top EXCEPT !.phase = "done"]
  <1>1. Running /\ Top.kind = "cmd" /\ Top.phase = "args" /\ UNCHANGED <<heap, out, jump>>
    BY DEF BuiltinReturns
  <1>2. /\ f \in Frame /\ f.kind = "cmd" /\ f.block = Top.block
        /\ Depth > 1 /\ Called(f, Depth, Caller.ctx)
        /\ [frames EXCEPT ![Depth].phase = "done"] = [frames EXCEPT ![Len(frames)] = f]
    BY <1>1, CommandPhase
  <1>3. SetTop(f)
    BY <1>2 DEF BuiltinReturns, SetPhase, SetTop, Depth
  <1>. HIDE DEF f
  <1>. QED
    BY <1>1, <1>2, <1>3, RunningSame

LEMMA CallSteps ==
    ASSUME ContextAssumption, Inv, CallFunction \/ CallSource
    PROVE  Inv'
  <1>. DEFINE g == [Top EXCEPT !.phase = "call"]
              s == [frames EXCEPT ![Depth].phase = "call"]
              n == Depth + 1
  <1>0. /\ Running /\ Top.kind = "cmd" /\ Top.phase = "args"
        /\ Top.ctx \in Context /\ Depth \in Nat \ {0} /\ Depth = Len(frames)
        /\ frames \in Seq(Frame) /\ frames # <<>> /\ WellFormed(frames)
        /\ heap = Owned(frames) /\ heap \subseteq Block /\ out \in Target
        /\ jump \in Jump /\ jump.op = "none" /\ UNCHANGED <<out, jump>>
    BY InvFacts DEF CallFunction, CallSource, Running, WellFormed
  <1>1. /\ g.kind = "cmd" /\ g.block = Top.block /\ g.phase = "call"
        /\ g.ctx = Top.ctx /\ Suits(frames, g) /\ g \in Frame
        /\ s = [frames EXCEPT ![Len(frames)] = g]
    BY <1>0, CommandPhase
  <1>2. /\ WellFormed(s) /\ Len(s) = Depth /\ s[Depth] = g
        /\ Owned(s) = (Owned(frames) \ {Top.block}) \cup ({g.block} \ {NoBlock})
    <2>1. /\ WellFormed([frames EXCEPT ![Len(frames)] = g])
          /\ Owned([frames EXCEPT ![Len(frames)] = g]) =
               (Owned(frames) \ {frames[Len(frames)].block}) \cup ({g.block} \ {NoBlock})
      BY <1>0, <1>1, ChangeTop
    <2>2. /\ Len([frames EXCEPT ![Len(frames)] = g]) = Len(frames)
          /\ [frames EXCEPT ![Len(frames)] = g][Len(frames)] = g
      BY <1>0, <1>1, SetTopProperties
    <2>. HIDE DEF g, s
    <2>. QED
      BY <1>0, <1>1, <2>1, <2>2 DEF Top
  <1>3. Owned(s) = Owned(frames)
    <2>1. Top.block \in Owned(frames) \cup {NoBlock}
      BY <1>0 DEF Owned, Top
    <2>. HIDE DEF g, s
    <2>. QED
      BY <1>1, <1>2, <2>1 DEF Owned
  <1>4. ASSUME NEW f, Fits(s, f), frames' = Append(s, f),
               heap' = heap \cup ({f.block} \ {NoBlock})
        PROVE  Inv'
    <2>1. WellFormed(frames') /\ heap' = Owned(frames')
      <3>. HIDE DEF s
      <3>. QED  BY <1>0, <1>2, <1>3, <1>4, PushFrame
    <2>2. f.block \in Block \cup {NoBlock}
      BY <1>4, FrameFields DEF Fits
    <2>3. TypeOK'
      BY <1>0, <1>4, <2>1, <2>2 DEF TypeOK, WellFormed
    <2>4. HeapExact' /\ JumpConsistent'
      BY <1>0, <2>1 DEF HeapExact, JumpConsistent
    <2>. QED
      BY <2>1, <2>3, <2>4 DEF Inv
  <1>5. CASE CallFunction
    <2>. DEFINE q == [Top.ctx EXCEPT !.loop = 0]
                c == CtxAddAlloc(q, n)
                a == AllocNode(q)
                h(b) == NewFrame("func", "run", c, b, out)
                k(b) == [h(b) EXCEPT !.anode = a]
    <2>1. PICK b \in Block : Malloc(b) /\ frames' = Append(s, k(b))
      BY <1>5 DEF CallFunction
    <2>2. q \in Context /\ n \in Nat
      BY <1>0, NoLoopFields
    <2>3. c \in Context /\ a \in Node /\ a = AllocNode(Top.ctx)
      <3>1. c \in Context /\ a \in Node
        BY <2>2, ContextTypes
      <3>2. q.level = Top.ctx.level /\ q.alloc = Top.ctx.alloc
        BY <1>0, NoLoopFields
      <3>. QED
        BY <3>1, <3>2 DEF AllocNode
    <2>4. h(b) \in Frame
      BY <1>0, <2>3, NewFrameType DEF Kind, Phase
    <2>5. /\ h(b).kind = "func" /\ h(b).phase = "run" /\ h(b).ctx = c
          /\ h(b).block = b /\ NoNodes(h(b))
      BY NewFrameFields
    <2>. DEFINE f == k(b)
    <2>6. /\ f \in Frame /\ f.kind = "func" /\ f.phase = "run" /\ f.ctx = c
          /\ f.block = b /\ f.anode = a /\ f.jnode = NoNode
      <3>. HIDE DEF h, c, a
      <3>. QED  BY <2>3, <2>4, <2>5 DEF Frame, NoNodes
    <2>7. frames' = Append(s, f)
      BY <2>1
    <2>8. b # NoBlock /\ heap' = heap \cup {b} /\ b \notin heap
      BY <2>1 DEF Malloc, ContextAssumption
    <2>9. FunctionFrame(f, n, Top.ctx)
      <3>. HIDE DEF f
      <3>. QED  BY <2>3, <2>6, <2>8 DEF FunctionFrame
    <2>10. Fits(s, f)
      <3>. HIDE DEF f, s, g
      <3>1. Len(s) + 1 = n /\ s[n - 1] = g
        BY <1>0, <1>2
      <3>2. Called(f, n, s[n - 1].ctx)
        BY <3>1, <2>9, <1>1 DEF Called
      <3>3. f.block \notin Owned(s)
        BY <1>0, <1>3, <2>6, <2>8
      <3>. QED
        BY <3>1, <3>2, <3>3, <2>6, <1>1 DEF Fits
    <2>11. heap' = heap \cup ({f.block} \ {NoBlock})
      <3>. HIDE DEF f
      <3>. QED  BY <2>6, <2>8
    <2>. QED
      <3>. HIDE DEF f, s
      <3>. QED  BY <2>7, <2>10, <2>11, <1>4
  <1>6. CASE CallSource
    <2>. DEFINE c == CtxNew(n, FALSE)
                f == NewFrame("source", "idle", c, NoBlock, out)
    <2>1. frames' = Append(s, f) /\ heap' = heap
      BY <1>6 DEF CallSource
    <2>2. c \in Context /\ n \in Nat
      <3>1. n \in Nat
        BY <1>0
      <3>. HIDE DEF n
      <3>. QED  BY <3>1 DEF CtxNew, Context
    <2>3. c.level = 1 /\ c.loop = 0 /\ c.alloc = 0 /\ c.exit = n
      BY DEF CtxNew
    <2>. HIDE DEF c
    <2>4. f \in Frame
      BY <1>0, <2>2, NewFrameType DEF Kind, Parser, Phase
    <2>5. /\ f.kind = "source" /\ f.phase = "idle" /\ f.ctx = c
          /\ f.block = NoBlock /\ NoNodes(f)
      BY NewFrameFields
    <2>. HIDE DEF f
    <2>6. ParserFrame(f, n)
      BY <2>3, <2>5 DEF ParserFrame, Parser
    <2>7. Fits(s, f)
      <3>. HIDE DEF s, g
      <3>1. Len(s) + 1 = n /\ s[n - 1] = g
        BY <1>0, <1>2
      <3>2. f.block \notin Owned(s)
        BY <2>5 DEF Owned
      <3>. QED
        BY <3>1, <3>2, <2>4, <2>5, <2>6, <1>1 DEF Fits
    <2>. QED
      <3>. HIDE DEF s
      <3>. QED  BY <2>1, <2>5, <2>7, <1>4
  <1>. QED
    BY <1>5, <1>6

\* Stacks built by comprehension, as Return and LongJump build theirs.
LEMMA PrefixFrames ==
    ASSUME NEW s, WellFormed(s), NEW m \in 1 .. Len(s)
    PROVE  LET r == [i \in 1 .. m |-> s[i]] IN
           /\ r \in Seq(Frame) /\ Len(r) = m /\ WellFormed(r)
           /\ m = Len(s) - 1 => Owned(r) = Owned(s) \ {s[Len(s)].block}
  <1>. DEFINE r == [i \in 1 .. m |-> s[i]]
  <1>1. s \in Seq(Frame) /\ Len(s) \in Nat /\ m \in Nat /\ m <= Len(s) /\ m >= 1
    BY LenProperties DEF WellFormed
  <1>2. \A i \in 1 .. m : s[i] \in Frame
    BY <1>1, ElementOfSeq
  <1>3. r \in Seq(Frame) /\ Len(r) = m
    BY <1>1, <1>2
  <1>4. Len(r) \in 1 .. Len(s) /\ \A i \in 1 .. Len(r) : r[i] = s[i]
    BY <1>1, <1>3
  <1>. HIDE DEF r
  <1>5. WellFormed(r) /\ (Len(r) = Len(s) - 1 => Owned(r) = Owned(s) \ {s[Len(s)].block})
    BY <1>3, <1>4, PopFrames
  <1>. QED
    BY <1>3, <1>5 DEF r

LEMMA ReturnStep ==
    ASSUME ContextAssumption, Inv, Return
    PROVE  Inv'
  <1>. DEFINE m == Depth - 1
              r == [i \in 1 .. m |-> frames[i]]
  <1>0. /\ Running /\ MayReturn(Top) /\ heap' = heap \ {Top.block} /\ UNCHANGED jump
        /\ frames \in Seq(Frame) /\ WellFormed(frames) /\ Depth \in Nat \ {0}
        /\ Depth = Len(frames) /\ heap = Owned(frames) /\ heap \subseteq Block
        /\ jump \in Jump /\ jump.op = "none" /\ LocalAt(frames, Depth)
    BY InvFacts DEF Return, Free, Running
  <1>1. out' \in Target
    BY InvFacts DEF Return
  <1>2. Depth > 1 /\ m \in 1 .. Len(frames) /\ m = Len(frames) - 1
    <2>1. Top.kind # "main"
      BY <1>0 DEF MayReturn, Loop
    <2>2. Depth # 1
      BY <1>0, <2>1 DEF LocalAt, Top
    <2>. QED
      BY <1>0, <2>2
  <1>3. /\ r \in Seq(Frame) /\ Len(r) = m /\ WellFormed(r)
        /\ Owned(r) = Owned(frames) \ {Top.block}
    BY <1>0, <1>2, PrefixFrames DEF Top
  <1>4. WellFormed(frames') /\ Owned(frames') = Owned(r)
    <2>1. CASE Caller.phase # "call"
      <3>1. \A i \in 1 .. m : (i = m /\ frames[i].phase = "call") <=> FALSE
        BY <2>1 DEF Caller
      <3>2. frames' = r
        BY <3>1 DEF Return
      <3>. QED
        BY <1>3, <3>2
    <2>2. CASE Caller.phase = "call"
      <3>. DEFINE f == [Caller EXCEPT !.phase = "done"]
      <3>1. frames' = [r EXCEPT ![m] = f]
        BY <1>2, <2>2 DEF Return, Caller
      <3>2. /\ Caller \in Frame /\ LocalAt(frames, m) /\ r[m] = Caller
            /\ m > 1 => r[m - 1] = frames[m - 1]
        BY <1>0, <1>2, InvFacts DEF Caller
      <3>3. m > 1 /\ ListFrame(Caller, m, frames[m - 1].ctx) /\ Caller.kind = "cmd"
        <4>1. ~ParserFrame(Caller, m)
          BY <2>2 DEF ParserFrame
        <4>2. m > 1 /\ Called(Caller, m, frames[m - 1].ctx)
          BY <3>2, <4>1 DEF LocalAt, Caller
        <4>. QED
          BY <4>2, <2>2 DEF Called, SubshellFrame, PlainFrame, ListFrame, FunctionFrame,
               WhileBody, ForBody
      <3>4. /\ f \in Frame /\ f.kind = Caller.kind /\ f.block = Caller.block
            /\ f.phase = "done" /\ f.ctx = Caller.ctx
            /\ f.anode = Caller.anode /\ f.jnode = Caller.jnode
        BY <3>2 DEF Frame, Phase
      <3>. HIDE DEF f
      <3>5. Called(f, m, frames[m - 1].ctx)
        BY <3>3, <3>4 DEF Called, ListFrame
      <3>. HIDE DEF r
      <3>6. Suits(r, f)
        BY <1>3, <3>2, <3>3, <3>4, <3>5 DEF Suits
      <3>7. /\ WellFormed([r EXCEPT ![Len(r)] = f])
            /\ Owned([r EXCEPT ![Len(r)] = f]) =
                 (Owned(r) \ {r[Len(r)].block}) \cup ({f.block} \ {NoBlock})
        BY <1>3, <3>6, ChangeTop
      <3>8. r[m].block \in Owned(r) \cup {NoBlock} /\ NoBlock \notin Owned(r)
        BY <1>2, <1>3 DEF Owned
      <3>. QED
        BY <1>3, <3>1, <3>2, <3>4, <3>7, <3>8
    <2>. QED
      BY <2>1, <2>2
  <1>5. heap' = Owned(frames')
    BY <1>0, <1>3, <1>4
  <1>6. TypeOK'
    BY <1>0, <1>1, <1>4 DEF TypeOK, WellFormed
  <1>7. HeapExact' /\ JumpConsistent'
    BY <1>0, <1>5 DEF HeapExact, JumpConsistent
  <1>. QED
    BY <1>4, <1>6, <1>7 DEF Inv

----------------------------------------------------------------------------
(* The region of the top frame: everything a jump can cross *)

LEMMA Regions ==
    ASSUME NEW s, WellFormed(s)
    PROVE  LET n == Len(s)
               b == s[n].ctx.exit
           IN /\ n \in Nat /\ n >= 1 /\ s \in Seq(Frame) /\ b \in 1 .. n /\ Barrier(s[b])
              /\ \A j \in b + 1 .. n : j \in 1 .. n /\ ~Barrier(s[j]) /\ s[j].ctx.exit = b
              /\ \A j \in 1 .. n : LocalAt(s, j) /\ GlobalAt(s, j) /\ s[j] \in Frame
  <1>. DEFINE n == Len(s)
              b == s[n].ctx.exit
  <1>1. n \in Nat /\ n >= 1 /\ s \in Seq(Frame)
    BY LenProperties, EmptySeq DEF WellFormed
  <1>2. \A j \in 1 .. n : LocalAt(s, j) /\ GlobalAt(s, j) /\ s[j] \in Frame
    BY <1>1, ElementOfSeq DEF WellFormed, Structure
  <1>3. \A j \in 1 .. n : RegionAt(s, j)
    BY <1>2 DEF GlobalAt
  <1>4. b \in 1 .. n /\ Barrier(s[b]) /\ \A j \in b + 1 .. n : ~Barrier(s[j])
    BY <1>1, <1>3 DEF RegionAt
  <1>. HIDE DEF n, b
  <1>5. ASSUME NEW j \in b + 1 .. n
        PROVE  j \in 1 .. n /\ s[j].ctx.exit = b
    <2>1. j \in 1 .. n /\ j \in Nat /\ b \in Nat /\ n \in Nat /\ b < j
      BY <1>1, <1>4
    <2>. DEFINE d == s[j].ctx.exit
    <2>2. d \in 1 .. j /\ Barrier(s[d]) /\ \A k \in d + 1 .. j : ~Barrier(s[k])
      BY <1>3, <2>1 DEF RegionAt
    <2>. HIDE DEF d
    <2>3. ~(d < b)
      BY <1>4, <2>1, <2>2
    <2>4. ~(b < d)
      BY <1>4, <2>1, <2>2
    <2>. QED
      BY <2>1, <2>2, <2>3, <2>4 DEF d
  <1>. QED
    BY <1>1, <1>2, <1>4, <1>5 DEF n, b

\* A loop that can be jumped to is in the region.
LEMMA LoopInRegion ==
    ASSUME NEW s, WellFormed(s), NEW t, Encloses(s, t, Len(s))
    PROVE  /\ t \in s[Len(s)].ctx.exit + 1 .. Len(s)
           /\ InBody(s[t]) /\ ~Barrier(s[t]) /\ s[t].kind \in Loop
  <1>. DEFINE n == Len(s)
              b == s[n].ctx.exit
  <1>1. /\ n \in Nat /\ n >= 1 /\ b \in 1 .. n /\ Barrier(s[b])
        /\ \A j \in 1 .. n : LocalAt(s, j)
    BY Regions
  <1>. HIDE DEF b
  <1>2. t \in 1 .. n /\ InBody(s[t]) /\ \A k \in t + 1 .. n : ~Barrier(s[k])
    BY DEF Encloses
  <1>3. s[t].kind \in Loop
    <2>1. LocalAt(s, t)
      BY <1>1, <1>2
    <2>. QED
      BY <1>2, <2>1 DEF LocalAt, ParserFrame, Called, SubshellFrame, PlainFrame,
           ListFrame, FunctionFrame, WhileBody, ForBody, InBody, Loop
  <1>4. ~Barrier(s[t])
    BY <1>3 DEF Barrier, Barriers, Loop, Parser
  <1>5. t # b /\ ~(t < b)
    BY <1>1, <1>2, <1>4
  <1>. QED
    BY <1>1, <1>2, <1>3, <1>4, <1>5 DEF b

\* Nothing above a jump target is registered beyond ctx->alloc_list.
LEMMA NoneBeyond ==
    ASSUME NEW s, WellFormed(s), NEW t \in Nat, s[Len(s)].ctx.exit <= t,
           NEW k \in 1 .. Len(s), t < k, Registered(s[k])
    PROVE  k <= s[Len(s)].ctx.alloc
  <1>. DEFINE n == Len(s)
              b == s[n].ctx.exit
  <1>1. n \in Nat /\ n >= 1 /\ b \in 1 .. n /\ GlobalAt(s, n)
    BY Regions
  <1>2. k \in b + 1 .. n
    BY <1>1
  <1>. QED
    BY <1>1, <1>2 DEF GlobalAt, AllocAt

LEMMA LevelAbove ==
    ASSUME NEW s, WellFormed(s), NEW t \in s[Len(s)].ctx.exit .. Len(s),
           NEW j \in t + 1 .. Len(s), Registered(s[j])
    PROVE  s[t].ctx.level < s[j].anode.level
  <1>. DEFINE n == Len(s)
              b == s[n].ctx.exit
  <1>1. n \in Nat /\ b \in 1 .. n
    BY Regions
  <1>2. j \in b + 1 .. n /\ t \in b .. j - 1
    BY <1>1
  <1>3. s[j].ctx.exit = b /\ LevelAt(s, j)
    BY <1>2, Regions DEF GlobalAt
  <1>. QED
    BY <1>2, <1>3 DEF LevelAt

\* The registered frames a jump can cross, and what registration says of them.
LEMMA NodeFields ==
    ASSUME NEW s, WellFormed(s), NEW j \in s[Len(s)].ctx.exit + 1 .. Len(s)
    PROVE  /\ j > 1 /\ j - 1 \in s[Len(s)].ctx.exit .. Len(s)
           /\ Extends(s[j], j, s[j - 1].ctx)
           /\ Registered(s[j]) => s[j].block # NoBlock
  <1>. DEFINE n == Len(s)
              b == s[n].ctx.exit
              p == s[j - 1].ctx
  <1>1. /\ n \in Nat /\ b \in 1 .. n /\ j \in 1 .. n /\ ~Barrier(s[j])
        /\ LocalAt(s, j) /\ s[j] \in Frame /\ s \in Seq(Frame)
    BY Regions
  <1>2. j > 1 /\ j - 1 \in b .. n /\ j \in Nat
    BY <1>1
  <1>3. p \in Context
    BY <1>1, <1>2, FrameAt
  <1>4. Called(s[j], j, p)
    BY <1>1, <1>2 DEF LocalAt, ParserFrame, Barrier, Barriers
  <1>5. Extends(s[j], j, p)
    BY <1>1, <1>2, <1>3, <1>4, CalledFields
  <1>6. Registered(s[j]) => s[j].block # NoBlock
    BY <1>4 DEF Called, SubshellFrame, PlainFrame, ListFrame, FunctionFrame,
         WhileBody, ForBody, NoNodes, NoNode, Registered
  <1>. QED
    BY <1>2, <1>5, <1>6

LEMMA OwnersRegistered ==
    ASSUME NEW s, WellFormed(s), s[Len(s)].phase \in {"args", "call"},
           NEW k \in s[Len(s)].ctx.exit + 1 .. Len(s), s[k].block # NoBlock
    PROVE  Registered(s[k])
  <1>. DEFINE n == Len(s)
              b == s[n].ctx.exit
              p == s[k - 1].ctx
  <1>1. /\ n \in Nat /\ b \in 1 .. n /\ k \in 1 .. n /\ ~Barrier(s[k])
        /\ LocalAt(s, k) /\ s[k] \in Frame /\ s \in Seq(Frame)
    BY Regions
  <1>2. k > 1 /\ k \in Nat
    BY <1>1
  <1>3. p \in Context
    BY <1>1, <1>2, FrameAt
  <1>4. Called(s[k], k, p) /\ ~SubshellFrame(s[k], k, p)
    BY <1>1 DEF LocalAt, ParserFrame, Barrier, Barriers, SubshellFrame
  <1>5. s[k].phase # "expand"
    <2>1. CASE k = n
      BY <2>1
    <2>2. CASE k # n
      <3>1. k + 1 \in b + 1 .. n /\ k + 1 \in 1 .. n /\ k + 1 > 1 /\ k + 1 - 1 = k
        BY <1>1, <2>2
      <3>2. ~Barrier(s[k + 1]) /\ LocalAt(s, k + 1)
        BY <3>1, Regions
      <3>. DEFINE q == s[k + 1]
      <3>3. q.kind = "subst" => q.phase \in {"run", "done"}
        BY <3>2 DEF LocalAt, ParserFrame, Parser, Called, SubshellFrame, PlainFrame,
             ListFrame, FunctionFrame, WhileBody, ForBody, Compound
      <3>4. q.kind # "subst"
        BY <3>2, <3>3 DEF Barrier, Barriers
      <3>. QED
        BY <3>1, <3>2, <3>4 DEF LocalAt
    <2>. QED
      BY <2>1, <2>2
  <1>6. ~PlainFrame(s[k], p) /\ ~WhileBody(s[k], k, p)
    BY <1>5 DEF PlainFrame, WhileBody
  <1>7. ListFrame(s[k], k, p) \/ FunctionFrame(s[k], k, p) \/ ForBody(s[k], k, p)
    BY <1>4, <1>6 DEF Called
  <1>8. s[k].anode = AllocNode(p) /\ p.level \in Nat
    BY <1>3, <1>7, ContextFields DEF ListFrame, FunctionFrame, ForBody
  <1>. QED
    BY <1>8 DEF Registered, AllocNode

----------------------------------------------------------------------------
(* Jumps *)

\* A jump that starts to free: nothing has been freed yet.
LEMMA FreeingStarts ==
    ASSUME ContextAssumption, TypeOK, WellFormed(frames'), heap' = Owned(frames'),
           heap' \subseteq Block, out' = out,
           LET top == frames'[Len(frames')] IN
           /\ top.kind = "cmd" /\ top.phase \in {"args", "call"}
           /\ jump' \in Jump /\ jump'.op = "free" /\ jump'.alloc = top.ctx.alloc
           /\ \/ /\ jump'.value \in {"break", "continue"}
                 /\ Encloses(frames', jump'.target, Len(frames'))
                 /\ jump'.level = frames'[jump'.target].jnode.level
              \/ /\ jump'.value \in {"exit", "resume"}
                 /\ jump'.level = 0 /\ jump'.target = top.ctx.exit
    PROVE  Inv'
  <1>. DEFINE s == frames'
              n == Len(s)
              b == s[n].ctx.exit
              t == jump'.target
              a == jump'.alloc
  <1>1. /\ n \in Nat /\ n >= 1 /\ b \in 1 .. n /\ s \in Seq(Frame) /\ GlobalAt(s, n)
        /\ n \in 1 .. n
    BY Regions
  <1>2. t \in Nat /\ b <= t
    <2>1. CASE jump'.value \in {"break", "continue"}
      <3>1. Encloses(s, t, n)
        BY <2>1
      <3>2. t \in b + 1 .. n
        BY <3>1, LoopInRegion
      <3>. QED
        BY <1>1, <3>2
    <2>2. CASE jump'.value \in {"exit", "resume"}
      BY <1>1, <2>2
    <2>. QED
      BY <2>1, <2>2
  <1>3. TypeOK'
    BY DEF TypeOK, WellFormed
  <1>4. HeapExact'
    BY DEF HeapExact
  <1>5. a # 0 => a \in b + 1 .. n /\ Registered(s[a])
    BY <1>1 DEF GlobalAt, AllocAt
  <1>6. \A k \in 1 .. n : ~(t < k /\ a < k /\ Registered(s[k]))
    <2>. SUFFICES ASSUME NEW k \in 1 .. n, t < k, a < k, Registered(s[k])  PROVE FALSE
      OBVIOUS
    <2>1. k <= a
      BY <1>2, NoneBeyond
    <2>2. a \in Nat /\ k \in Nat
      BY <1>1 DEF Jump
    <2>. QED
      BY <2>1, <2>2
  <1>7. heap' = {s[k].block : k \in {l \in 1 .. n : ~(t < l /\ a < l /\ Registered(s[l]))}}
                  \ {NoBlock}
    BY <1>6 DEF Owned
  <1>8. JumpConsistent'
    BY <1>5, <1>7 DEF JumpConsistent, Freed, Top, Depth
  <1>. QED
    BY <1>3, <1>4, <1>8 DEF Inv

LEMMA JumpTypes ==
    ASSUME NEW c \in Context, NEW v \in {"exit", "resume"}
    PROVE  /\ ExitJump(c, v) \in Jump /\ ExitJump(c, v).op = "free"
           /\ ExitJump(c, v).alloc = c.alloc /\ ExitJump(c, v).value = v
           /\ ExitJump(c, v).target = c.exit /\ ExitJump(c, v).level = 0
  <1>1. ExitJump(c, v) \in Jump
    BY DEF Context, Jump, ExitJump
  <1>. QED
    BY <1>1 DEF ExitJump

LEMMA StopLoopStep ==
    ASSUME ContextAssumption, Inv, NEW value \in {"break", "continue"},
           NEW n \in StopArg, StopLoop(value, n)
    PROVE  Inv'
  <1>1. /\ Running /\ Top.kind = "cmd" /\ Top.phase = "args" /\ Top.ctx.loop # 0
        /\ UNCHANGED <<frames, heap, out>>
        /\ jump' = [op |-> "walk", value |-> value, target |-> Top.ctx.loop,
                    left |-> n, arg |-> n, level |-> 0, alloc |-> 0]
    BY DEF StopLoop
  <1>2. /\ WellFormed(frames) /\ heap = Owned(frames) /\ heap \subseteq Block
        /\ out \in Target /\ Top.ctx.loop \in Nat /\ n \in Int
        /\ LoopAt(frames, Depth)
    BY <1>1, InvFacts, ContextFields DEF ContextAssumption, GlobalAt
  <1>3. jump' \in Jump
    BY <1>1, <1>2 DEF Jump
  <1>4. Encloses(frames, Top.ctx.loop, Depth)
    BY <1>1, <1>2 DEF LoopAt, Top
  <1>5. TypeOK' /\ WellFormed(frames') /\ HeapExact'
    BY <1>1, <1>2, <1>3 DEF TypeOK, WellFormed, HeapExact
  <1>6. JumpConsistent'
    BY <1>1, <1>4 DEF JumpConsistent, Top, Depth
  <1>. QED
    BY <1>5, <1>6 DEF Inv

LEMMA WalkStep ==
    ASSUME ContextAssumption, Inv, WalkLoops
    PROVE  Inv'
  <1>. DEFINE t == jump.target
              u == OuterLoop
              n == Depth
  <1>1. /\ jump.op = "walk" /\ jump.left > 1 /\ u # 0
        /\ UNCHANGED <<frames, heap, out>>
        /\ jump' = [jump EXCEPT !.target = u, !.left = @ - 1]
    BY DEF WalkLoops
  <1>2. /\ jump \in Jump /\ WellFormed(frames) /\ heap \subseteq Block /\ out \in Target
        /\ n = Len(frames) /\ n \in Nat
    BY InvFacts
  <1>3. /\ jump.value \in {"break", "continue"} /\ Encloses(frames, t, n)
        /\ Top.kind = "cmd" /\ Top.phase \in {"args", "call"} /\ heap = Owned(frames)
    BY <1>1 DEF Inv, JumpConsistent, HeapExact
  <1>4. /\ t \in frames[n].ctx.exit + 1 .. n /\ InBody(frames[t]) /\ ~Barrier(frames[t])
        /\ frames[t].kind \in Loop
    BY <1>2, <1>3, LoopInRegion
  <1>5. /\ t > 1 /\ t - 1 \in frames[n].ctx.exit .. n
        /\ Extends(frames[t], t, frames[t - 1].ctx)
    BY <1>2, <1>4, NodeFields
  <1>6. u = frames[t - 1].ctx.loop
    BY <1>4, <1>5 DEF Extends, OuterLoop
  <1>7. t - 1 \in 1 .. n /\ t \in 1 .. n
    BY <1>2, <1>3, <1>5 DEF Encloses
  <1>8. Encloses(frames, u, t - 1)
    <2>1. GlobalAt(frames, t - 1)
      BY <1>2, <1>7, Regions
    <2>. QED
      BY <1>1, <1>6, <2>1 DEF GlobalAt, LoopAt
  <1>9. Encloses(frames, u, n)
    <2>1. u \in 1 .. t - 1 /\ InBody(frames[u])
      BY <1>8 DEF Encloses
    <2>2. \A k \in u + 1 .. t - 1 : ~Barrier(frames[k]) /\ frames[k].kind # "func"
      BY <1>8 DEF Encloses
    <2>3. \A k \in t + 1 .. n : ~Barrier(frames[k]) /\ frames[k].kind # "func"
      BY <1>3 DEF Encloses
    <2>4. ~Barrier(frames[t]) /\ frames[t].kind # "func"
      BY <1>4 DEF Loop
    <2>. HIDE DEF u, t, n
    <2>5. u \in 1 .. n
      <3>1. t \in Nat /\ n \in Nat /\ t <= n
        BY <1>2, <1>7 DEF n
      <3>2. u \in Nat /\ u >= 1 /\ u <= t - 1
        BY <2>1, <3>1
      <3>. QED
        BY <3>1, <3>2
    <2>6. ASSUME NEW k \in u + 1 .. n
          PROVE  ~Barrier(frames[k]) /\ frames[k].kind # "func"
      <3>1. k \in u + 1 .. t - 1 \/ k = t \/ k \in t + 1 .. n
        BY <1>7, <2>1
      <3>. QED
        BY <3>1, <2>2, <2>3, <2>4
    <2>. QED
      BY <2>1, <2>5, <2>6 DEF Encloses
  <1>10. u \in Nat
    BY <1>9, <1>2 DEF Encloses
  <1>11. jump' \in Jump /\ jump'.op = "walk" /\ jump'.value = jump.value /\ jump'.target = u
    <2>. DEFINE d == jump.left - 1
    <2>1. d \in Int
      BY <1>2 DEF Jump
    <2>2. jump' = [jump EXCEPT !.target = u, !.left = d]
      BY <1>1
    <2>. HIDE DEF u, d
    <2>. QED  BY <1>1, <1>2, <1>10, <2>1, <2>2 DEF Jump
  <1>12. TypeOK' /\ WellFormed(frames') /\ HeapExact'
    BY <1>1, <1>2, <1>3, <1>11 DEF TypeOK, WellFormed, HeapExact
  <1>13. JumpConsistent'
    <2>. HIDE DEF u
    <2>. QED  BY <1>1, <1>3, <1>9, <1>11 DEF JumpConsistent, Top, Depth
  <1>. QED
    BY <1>12, <1>13 DEF Inv

LEMMA WalkEndsStep ==
    ASSUME ContextAssumption, Inv, WalkEnds
    PROVE  Inv'
  <1>1. /\ jump.op = "walk" /\ UNCHANGED <<frames, heap, out>>
        /\ jump' = [jump EXCEPT !.op = "free", !.alloc = Top.ctx.alloc,
                                !.level = frames[jump.target].jnode.level]
    BY DEF WalkEnds
  <1>2. /\ jump \in Jump /\ WellFormed(frames) /\ heap \subseteq Block
        /\ Depth = Len(frames) /\ TypeOK /\ Top.ctx.alloc \in Nat
        /\ frames \in Seq(Frame)
    BY InvFacts, ContextFields DEF Inv
  <1>3. /\ jump.value \in {"break", "continue"} /\ Encloses(frames, jump.target, Depth)
        /\ Top.kind = "cmd" /\ Top.phase \in {"args", "call"} /\ heap = Owned(frames)
    BY <1>1 DEF Inv, JumpConsistent, HeapExact
  <1>4. frames[jump.target].jnode.level \in Nat
    <2>1. jump.target \in 1 .. Len(frames)
      BY <1>2, <1>3 DEF Encloses
    <2>. QED
      BY <1>2, <2>1, FrameAt, FrameFields
  <1>5. /\ jump' \in Jump /\ jump'.op = "free" /\ jump'.alloc = Top.ctx.alloc
        /\ jump'.value = jump.value /\ jump'.target = jump.target
        /\ jump'.level = frames[jump.target].jnode.level
    <2>. DEFINE l == frames[jump.target].jnode.level
                a == Top.ctx.alloc
    <2>1. l \in Nat /\ a \in Nat
      BY <1>2, <1>4
    <2>2. jump' = [jump EXCEPT !.op = "free", !.alloc = a, !.level = l]
      BY <1>1
    <2>. HIDE DEF l, a
    <2>3. /\ jump' \in Jump /\ jump'.op = "free" /\ jump'.alloc = a
          /\ jump'.value = jump.value /\ jump'.target = jump.target /\ jump'.level = l
      BY <1>2, <2>1, <2>2 DEF Jump
    <2>. QED
      BY <2>3 DEF l, a
  <1>6. Top = frames'[Len(frames')]
    BY <1>1 DEF Top, Depth
  <1>. QED
    BY <1>1, <1>2, <1>3, <1>5, <1>6, FreeingStarts

LEMMA ExitSteps ==
    ASSUME ContextAssumption, Inv, Exit \/ SourceMissing
    PROVE  Inv'
  <1>1. /\ Running /\ Top.kind = "cmd" /\ Top.phase = "args"
        /\ UNCHANGED <<frames, heap, out>>
        /\ jump' = ExitJump(Top.ctx, "exit") \/ jump' = ExitJump(Top.ctx, "resume")
    BY DEF Exit, SourceMissing, SourceExit
  <1>2. /\ WellFormed(frames) /\ heap \subseteq Block /\ heap = Owned(frames)
        /\ Depth = Len(frames) /\ TypeOK /\ Top.ctx \in Context
    BY <1>1, InvFacts DEF Inv
  <1>3. /\ jump' \in Jump /\ jump'.op = "free" /\ jump'.alloc = Top.ctx.alloc
        /\ jump'.value \in {"exit", "resume"} /\ jump'.target = Top.ctx.exit
        /\ jump'.level = 0
    <2>1. PICK v \in {"exit", "resume"} : jump' = ExitJump(Top.ctx, v)
      BY <1>1
    <2>. QED
      BY <1>2, <2>1, JumpTypes
  <1>4. Top = frames'[Len(frames')]
    BY <1>1 DEF Top, Depth
  <1>. QED
    BY <1>1, <1>2, <1>3, <1>4, FreeingStarts

LEMMA SourceErrorStep ==
    ASSUME ContextAssumption, Inv, SourceSyntaxError
    PROVE  Inv'
  <1>. DEFINE r == frames'
  <1>1. /\ Running /\ Top.kind = "source" /\ Top.phase = "idle"
        /\ UNCHANGED <<heap, out>> /\ r = SubSeq(frames, 1, Depth - 1)
        /\ jump' = ExitJump(Caller.ctx, "exit") \/ jump' = ExitJump(Caller.ctx, "resume")
    BY DEF SourceSyntaxError, SourceExit
  <1>2. /\ frames \in Seq(Frame) /\ WellFormed(frames) /\ heap \subseteq Block
        /\ heap = Owned(frames) /\ Depth = Len(frames) /\ Depth \in Nat \ {0}
        /\ TypeOK /\ LocalAt(frames, Depth)
    BY <1>1, InvFacts DEF Inv
  <1>3. ParserFrame(Top, Depth) /\ Top.block = NoBlock
    BY <1>1, TopShape DEF Parser, ParserFrame
  <1>4. Depth > 1 /\ Caller.kind = "cmd" /\ Caller.phase = "call"
    <2>1. Depth # 1
      BY <1>1, <1>2 DEF LocalAt, Top
    <2>. QED
      BY <1>1, <1>2, <2>1 DEF LocalAt, Top, Caller
  <1>5. /\ r \in Seq(Frame) /\ Len(r) = Depth - 1 /\ \A i \in 1 .. Len(r) : r[i] = frames[i]
    BY <1>1, <1>2, <1>4, SubSeqProperties
  <1>6. WellFormed(r) /\ Owned(r) = Owned(frames)
    <2>1. Len(r) \in 1 .. Len(frames) /\ Len(r) = Len(frames) - 1
      BY <1>2, <1>4, <1>5
    <2>2. WellFormed(r) /\ Owned(r) = Owned(frames) \ {frames[Len(frames)].block}
      BY <1>2, <1>5, <2>1, PopFrames
    <2>3. NoBlock \notin Owned(frames)
      BY DEF Owned
    <2>. QED
      BY <1>2, <1>3, <2>2, <2>3 DEF Top
  <1>7. Caller = r[Len(r)] /\ Caller.ctx \in Context
    BY <1>2, <1>4, <1>5, InvFacts DEF Caller
  <1>8. /\ jump' \in Jump /\ jump'.op = "free" /\ jump'.alloc = Caller.ctx.alloc
        /\ jump'.value \in {"exit", "resume"} /\ jump'.target = Caller.ctx.exit
        /\ jump'.level = 0
    <2>1. PICK v \in {"exit", "resume"} : jump' = ExitJump(Caller.ctx, v)
      BY <1>1
    <2>. QED
      BY <1>7, <2>1, JumpTypes
  <1>. QED
    BY <1>1, <1>2, <1>4, <1>6, <1>7, <1>8, FreeingStarts
\* A block that is reclaimed belongs to a frame above the target.
LEMMA AboveTarget ==
    ASSUME NEW s, WellFormed(s), NEW a \in s[Len(s)].ctx.exit + 1 .. Len(s),
           NEW t \in s[Len(s)].ctx.exit .. Len(s), Registered(s[a]),
           t # s[Len(s)].ctx.exit => /\ InBody(s[t])
                                     /\ s[a].anode.level > s[t].jnode.level
    PROVE  t < a
  <1>. DEFINE n == Len(s)
              b == s[n].ctx.exit
  <1>1. /\ n \in Nat /\ b \in 1 .. n /\ a \in b + 1 .. n /\ t \in b .. n
        /\ a \in Nat /\ t \in Nat
    BY Regions
  <1>2. CASE t = b
    BY <1>1, <1>2
  <1>3. CASE t # b
    <2>1. t \in b + 1 .. n /\ t \in 1 .. n /\ a \in 1 .. n
      BY <1>1, <1>3
    <2>2. /\ s[t].ctx.exit = b /\ s[t] \in Frame /\ s[a] \in Frame
          /\ LevelAt(s, t) /\ LevelAt(s, a)
      BY <2>1, Regions DEF GlobalAt
    <2>3. /\ s[a].anode.level \in Nat /\ s[t].jnode.level \in Nat
          /\ s[a].ctx.level \in Nat /\ s[a].anode.level > s[t].jnode.level
          /\ InBody(s[t])
      BY <1>3, <2>2, FrameFields, ContextFields
    <2>4. a # t
      BY <2>2, <2>3 DEF LevelAt
    <2>5. ~(a < t)
      <3>1. SUFFICES ASSUME a < t  PROVE FALSE
        OBVIOUS
      <3>2. a \in s[t].ctx.exit .. t - 1
        BY <1>1, <2>1, <2>2, <3>1
      <3>3. s[a].ctx.level < s[t].jnode.level
        BY <2>2, <2>3, <3>2 DEF LevelAt
      <3>4. s[a].anode.level <= s[a].ctx.level
        BY <2>2 DEF LevelAt
      <3>. QED
        BY <2>3, <3>3, <3>4
    <2>. QED
      BY <1>1, <2>4, <2>5
  <1>. QED
    BY <1>2, <1>3

\* The node below a node of the chain of allocations.
LEMMA NextNode ==
    ASSUME NEW s, WellFormed(s), NEW a \in s[Len(s)].ctx.exit + 1 .. Len(s),
           Registered(s[a])
    PROVE  LET b == s[Len(s)].ctx.exit
               u == s[a].anode.next
           IN /\ u \in Nat /\ u < a
              /\ u # 0 => u \in b + 1 .. Len(s) /\ Registered(s[u])
              /\ \A j \in b + 1 .. a - 1 : Registered(s[j]) => j <= u
  <1>. DEFINE n == Len(s)
              b == s[n].ctx.exit
              u == s[a].anode.next
              m == a - 1
  <1>1. n \in Nat /\ b \in 1 .. n /\ b \in Nat /\ a \in b + 1 .. n /\ Barrier(s[b])
    BY Regions
  <1>2. m \in b .. n /\ Extends(s[a], a, s[m].ctx) /\ m \in 1 .. n /\ m < a
    BY <1>1, NodeFields
  <1>3. u = s[m].ctx.alloc
    BY <1>2 DEF Extends
  <1>4. GlobalAt(s, m) /\ s[m] \in Frame
    BY <1>2, Regions
  <1>5. s[m].ctx.exit = b
    <2>1. CASE m = b
      <3>1. RegionAt(s, b)
        BY <1>4, <2>1 DEF GlobalAt
      <3>. HIDE DEF b, m
      <3>. DEFINE d == s[b].ctx.exit
      <3>2. d \in 1 .. b /\ \A j \in d + 1 .. b : ~Barrier(s[j])
        BY <3>1 DEF RegionAt
      <3>. HIDE DEF d
      <3>3. d = b
        BY <1>1, <3>2
      <3>. QED
        BY <2>1, <3>3 DEF d
    <2>2. CASE m # b
      <3>1. m \in b + 1 .. n
        BY <1>1, <1>2, <2>2
      <3>. QED
        BY <3>1, Regions
    <2>. QED
      BY <2>1, <2>2
  <1>6. /\ u # 0 => u \in b + 1 .. m /\ Registered(s[u])
        /\ \A j \in b + 1 .. m : Registered(s[j]) => j <= u
    BY <1>3, <1>4, <1>5 DEF GlobalAt, AllocAt
  <1>7. u \in Nat
    BY <1>3, <1>4, FrameFields, ContextFields
  <1>8. u < a
    BY <1>1, <1>2, <1>6, <1>7
  <1>9. u # 0 => u \in b + 1 .. n
    <2>. HIDE DEF u, b
    <2>. QED  BY <1>1, <1>2, <1>6
  <1>. QED
    BY <1>6, <1>7, <1>8, <1>9

\* What a jump in its second phase has to land in.
LEMMA JumpTarget ==
    ASSUME Inv, jump.op = "free"
    PROVE  LET b == frames[Depth].ctx.exit
               t == jump.target
           IN /\ Depth \in Nat /\ b \in 1 .. Depth /\ t \in b .. Depth
              /\ jump.value \in {"break", "continue"} =>
                    /\ t # b /\ InBody(frames[t]) /\ frames[t].kind \in Loop
                    /\ jump.level = frames[t].jnode.level
              /\ jump.value \in {"exit", "resume"} => t = b /\ jump.level = 0
              /\ jump.value \in {"break", "continue", "exit", "resume"}
  <1>. DEFINE n == Depth
              b == frames[n].ctx.exit
              t == jump.target
  <1>1. /\ WellFormed(frames) /\ n = Len(frames) /\ n \in Nat /\ jump \in Jump
    BY InvFacts
  <1>2. b \in 1 .. n
    BY <1>1, Regions
  <1>3. jump.value \in {"break", "continue", "exit", "resume"}
    BY <1>1 DEF Inv, JumpConsistent, Jump
  <1>4. ASSUME jump.value \in {"break", "continue"}
        PROVE  /\ t \in b + 1 .. n /\ InBody(frames[t]) /\ frames[t].kind \in Loop
               /\ jump.level = frames[t].jnode.level
    <2>1. Encloses(frames, t, n) /\ jump.level = frames[t].jnode.level
      BY <1>4 DEF Inv, JumpConsistent
    <2>. QED
      BY <1>1, <2>1, LoopInRegion
  <1>5. jump.value \in {"exit", "resume"} => t = b /\ jump.level = 0
    BY DEF Inv, JumpConsistent, Top
  <1>6. t \in b + 1 .. n => t \in b .. n /\ t # b
    BY <1>2
  <1>7. b \in b .. n
    BY <1>1, <1>2
  <1>. HIDE DEF b, t, n
  <1>8. /\ t \in b .. n
        /\ jump.value \in {"break", "continue"} =>
              /\ t # b /\ InBody(frames[t]) /\ frames[t].kind \in Loop
              /\ jump.level = frames[t].jnode.level
    BY <1>3, <1>4, <1>5, <1>6, <1>7
  <1>. QED
    BY <1>1, <1>2, <1>3, <1>5, <1>8 DEF b, t, n

LEMMA FreeStep ==
    ASSUME ContextAssumption, Inv, FreeRegistered
    PROVE  Inv'
  <1>. DEFINE n == Depth
              b == frames[n].ctx.exit
              t == jump.target
              a == jump.alloc
              u == frames[a].anode.next
  <1>1. /\ jump.op = "free" /\ a # 0 /\ frames[a].anode.level > jump.level
        /\ heap' = heap \ {frames[a].block}
        /\ jump' = [jump EXCEPT !.alloc = u] /\ UNCHANGED <<frames, out>>
    BY DEF FreeRegistered, Reclaims, Free
  <1>2. /\ WellFormed(frames) /\ n = Len(frames) /\ n \in Nat /\ jump \in Jump
        /\ heap \subseteq Block /\ out \in Target /\ TypeOK /\ frames \in Seq(Frame)
    BY InvFacts DEF Inv
  <1>3. /\ Top.kind = "cmd" /\ Top.phase \in {"args", "call"}
        /\ a \in b + 1 .. n /\ Registered(frames[a])
        /\ heap = {frames[i].block : i \in {k \in 1 .. n : ~Freed(k)}} \ {NoBlock}
    BY <1>1 DEF Inv, JumpConsistent, Top
  <1>4. b \in 1 .. n /\ t \in b .. n /\ a \in 1 .. n /\ b \in Nat /\ t \in Nat /\ a \in Nat
    BY <1>1, <1>2, <1>3, JumpTarget DEF Jump
  <1>5. t < a
    <2>1. t # b => InBody(frames[t]) /\ frames[a].anode.level > frames[t].jnode.level
      BY <1>1, JumpTarget
    <2>. QED
      BY <1>2, <1>3, <1>4, <2>1, AboveTarget
  <1>6. /\ u \in Nat /\ u < a
        /\ u # 0 => u \in b + 1 .. n /\ Registered(frames[u])
        /\ \A j \in b + 1 .. a - 1 : Registered(frames[j]) => j <= u
    BY <1>2, <1>3, NextNode
  <1>7. /\ jump' \in Jump /\ jump'.op = "free" /\ jump'.alloc = u
        /\ jump'.value = jump.value /\ jump'.target = t /\ jump'.level = jump.level
    <2>. HIDE DEF u
    <2>. QED  BY <1>1, <1>2, <1>6 DEF Jump
  <1>8. ASSUME NEW i \in 1 .. n
        PROVE  (t < i /\ u < i /\ Registered(frames[i])) <=> (Freed(i) \/ i = a)
    <2>1. i \in Nat
      BY <1>2
    <2>2. Freed(i) <=> (t < i /\ a < i /\ Registered(frames[i]))
      BY DEF Freed
    <2>. HIDE DEF u, a, t, b, n
    <2>3. i < a /\ t < i /\ Registered(frames[i]) => i <= u
      <3>1. i < a /\ t < i => i \in b + 1 .. a - 1
        BY <1>4, <2>1
      <3>. QED
        BY <1>6, <3>1
    <2>4. i < a \/ i = a \/ a < i
      BY <1>4, <2>1
    <2>. QED
      BY <1>3, <1>4, <1>5, <1>6, <2>1, <2>2, <2>3, <2>4
  <1>9. heap' = {frames[i].block : i \in {k \in 1 .. n :
                    ~(t < k /\ u < k /\ Registered(frames[k]))}} \ {NoBlock}
    <2>1. {k \in 1 .. n : ~(t < k /\ u < k /\ Registered(frames[k]))}
            = {k \in 1 .. n : ~Freed(k)} \ {a}
      BY <1>8
    <2>2. frames[a].block # NoBlock
      BY <1>2, <1>3, NodeFields
    <2>3. \A i \in 1 .. n : i # a => frames[i].block # frames[a].block
      BY <1>2, <1>4, <2>2 DEF WellFormed, Distinct
    <2>4. heap' = ({frames[i].block : i \in {k \in 1 .. n : ~Freed(k)}} \ {NoBlock})
                     \ {frames[a].block}
      BY <1>1, <1>3
    <2>. HIDE DEF n, a, t, u
    <2>5. ({frames[i].block : i \in {k \in 1 .. n : ~Freed(k)}} \ {NoBlock})
             \ {frames[a].block}
           = {frames[i].block : i \in {k \in 1 .. n : ~Freed(k)} \ {a}} \ {NoBlock}
      BY <2>3
    <2>. QED
      BY <2>1, <2>4, <2>5
  <1>10. TypeOK' /\ WellFormed(frames') /\ HeapExact'
    BY <1>1, <1>2, <1>7 DEF TypeOK, WellFormed, HeapExact
  <1>11. /\ jump.value # "none"
         /\ jump.value \in {"break", "continue"} =>
              /\ Encloses(frames, t, n)
              /\ jump.level = frames[t].jnode.level
         /\ jump.value \in {"exit", "resume"} => jump.level = 0 /\ t = Top.ctx.exit
    BY <1>1 DEF Inv, JumpConsistent
  <1>12. JumpConsistent'
    <2>1. Top' = Top /\ Depth' = n /\ Top.ctx.exit = b
      BY <1>1 DEF Top, Depth
    <2>2. \A k : Freed(k)' <=> (t < k /\ u < k /\ Registered(frames[k]))
      <3>. HIDE DEF u, t
      <3>. QED  BY <1>1, <1>7 DEF Freed
    <2>3. heap' = {frames'[i].block : i \in {k \in 1 .. Depth' : ~Freed(k)'}} \ {NoBlock}
      <3>. HIDE DEF u, t, n
      <3>. QED  BY <1>1, <1>9, <2>1, <2>2
    <2>. HIDE DEF u, t, n, b
    <2>4. jump'.alloc # 0 => jump'.alloc \in (Top.ctx.exit)' + 1 .. Depth' /\ Registered(frames'[jump'.alloc])
      BY <1>1, <1>6, <1>7, <2>1
    <2>. QED
      BY <1>1, <1>3, <1>7, <1>11, <2>1, <2>3, <2>4 DEF JumpConsistent
  <1>. QED
    BY <1>10, <1>12 DEF Inv

\* Once there is nothing to reclaim, the blocks left are those of the frames
\* that survive the jump.
LEMMA AllReclaimed ==
    ASSUME Inv, jump.op = "free", ~Reclaims
    PROVE  heap = {frames[i].block : i \in 1 .. jump.target} \ {NoBlock}
  <1>. DEFINE n == Depth
              b == frames[n].ctx.exit
              t == jump.target
              a == jump.alloc
  <1>1. /\ WellFormed(frames) /\ n = Len(frames) /\ n \in Nat /\ jump \in Jump
        /\ b \in 1 .. n /\ t \in b .. n
    BY InvFacts, JumpTarget
  <1>2. /\ frames[n].phase \in {"args", "call"}
        /\ a # 0 => a \in b + 1 .. n /\ Registered(frames[a])
        /\ heap = {frames[i].block : i \in {k \in 1 .. n : ~Freed(k)}} \ {NoBlock}
    BY DEF Inv, JumpConsistent, Top
  <1>3. b \in Nat /\ t \in Nat /\ a \in Nat /\ t \in 1 .. n /\ frames[t] \in Frame
    BY <1>1, Regions DEF Jump
  <1>4. jump.level <= frames[t].ctx.level
    <2>1. frames[t].ctx.level \in Nat
      BY <1>3, FrameFields, ContextFields
    <2>2. LevelAt(frames, t)
      BY <1>1, <1>3, Regions DEF GlobalAt
    <2>3. CASE jump.value \in {"break", "continue"}
      BY <2>2, <2>3, JumpTarget DEF LevelAt
    <2>4. CASE jump.value \in {"exit", "resume"}
      BY <2>1, <2>4, JumpTarget
    <2>. QED
      BY <2>3, <2>4, JumpTarget
  <1>5. ~(a # 0 /\ t < a)
    <2>1. SUFFICES ASSUME a # 0, t < a  PROVE FALSE
      OBVIOUS
    <2>2. a \in t + 1 .. n /\ Registered(frames[a]) /\ a \in 1 .. n
      BY <1>1, <1>2, <1>3, <2>1
    <2>3. frames[t].ctx.level < frames[a].anode.level
      BY <1>1, <2>2, LevelAbove
    <2>4. /\ frames[t].ctx.level \in Nat /\ frames[a].anode.level \in Nat
          /\ jump.level \in Nat
      <3>1. frames[a] \in Frame
        BY <1>1, <2>2, Regions
      <3>. QED
        BY <1>1, <1>3, <3>1, FrameFields, ContextFields DEF Jump
    <2>5. ~(frames[a].anode.level > jump.level)
      BY <2>1 DEF Reclaims
    <2>. QED
      BY <1>4, <2>3, <2>4, <2>5
  <1>6. ASSUME NEW k \in 1 .. n, frames[k].block # NoBlock
        PROVE  ~Freed(k) <=> k \in 1 .. t
    <2>1. k \in Nat /\ k >= 1
      BY <1>1
    <2>2. CASE k <= t
      BY <1>3, <2>1, <2>2 DEF Freed
    <2>3. CASE t < k
      <3>1. k \in b + 1 .. n
        BY <1>1, <1>3, <2>1, <2>3
      <3>2. Registered(frames[k])
        BY <1>1, <1>2, <3>1, <1>6, OwnersRegistered
      <3>3. a < k
        BY <1>3, <1>5, <2>1, <2>3
      <3>. QED
        BY <2>1, <2>3, <3>2, <3>3, <1>3 DEF Freed
    <2>. QED
      BY <1>3, <2>1, <2>2, <2>3
  <1>7. \A k \in 1 .. t : k \in 1 .. n
    BY <1>1, <1>3
  <1>. HIDE DEF n, t, a, b
  <1>8. heap = {frames[i].block : i \in 1 .. t} \ {NoBlock}
    BY <1>2, <1>6, <1>7
  <1>. QED
    BY <1>8 DEF t

\* The frame a jump lands in has a shape its caller can find it in.
LEMMA LandedShape ==
    ASSUME Inv, jump.op = "free"
    PROVE  LET t == jump.target
               f == Landed(t)
           IN /\ f \in Frame /\ f.kind = frames[t].kind /\ f.block = frames[t].block
              /\ ParserFrame(f, t) \/ (t > 1 /\ Called(f, t, frames[t - 1].ctx))
  <1>. DEFINE t == jump.target
              f == Landed(t)
              b == frames[Depth].ctx.exit
              g == frames[t]
              p == frames[t - 1].ctx
  <1>1. /\ WellFormed(frames) /\ Depth = Len(frames) /\ Depth \in Nat
        /\ frames \in Seq(Frame) /\ b \in 1 .. Depth /\ t \in b .. Depth
    BY InvFacts, JumpTarget
  <1>2. t \in 1 .. Len(frames) /\ g \in Frame /\ LocalAt(frames, t)
    <2>1. t \in 1 .. Len(frames)
      BY <1>1
    <2>. QED
      BY <1>1, <2>1, Regions
  <1>3. CASE jump.value \in {"break", "continue"}
    <2>1. InBody(frames[t])
      BY <1>3, JumpTarget
    <2>2. f = LeaveBody(t, "done") \/ f = LeaveBody(t, Again(t))
      BY <1>3 DEF Landed
    <2>3. PICK ph \in {"done", Again(t)} : f = LeaveBody(t, ph)
      BY <2>2
    <2>. HIDE DEF t, f
    <2>4. /\ t > 1 /\ LeaveBody(t, ph) \in Frame
          /\ LeaveBody(t, ph).kind = frames[t].kind
          /\ LeaveBody(t, ph).block = frames[t].block
          /\ Called(LeaveBody(t, ph), t, frames[t - 1].ctx)
      BY <1>1, <1>2, <2>1, LeaveBodyShape
    <2>. QED
      BY <2>3, <2>4 DEF t, f
  <1>4. CASE jump.value \in {"exit", "resume"}
    <2>. DEFINE ph == IF g.kind \notin Parser THEN "done"
                      ELSE IF jump.value = "resume" THEN "resumed" ELSE "exited"
    <2>1. f = [g EXCEPT !.phase = ph]
      BY <1>4 DEF Landed
    <2>2. /\ ph \in {"done", "resumed", "exited"} /\ ph \in Phase
          /\ g.kind \notin Parser => ph = "done"
          /\ g.kind \in Parser => ph \in {"resumed", "exited"}
      <3>. HIDE DEF g
      <3>. QED  BY DEF Phase
    <2>3. t = b
      BY <1>4, JumpTarget
    <2>. HIDE DEF ph
    <2>4. Barrier(g)
      BY <1>1, <2>3, Regions
    <2>5. /\ f \in Frame /\ f.kind = g.kind /\ f.block = g.block /\ f.phase = ph
          /\ f.ctx = g.ctx /\ f.anode = g.anode /\ f.jnode = g.jnode
      <3>. HIDE DEF g, f
      <3>. QED  BY <1>2, <2>1, <2>2 DEF Frame
    <2>6. ParserFrame(g, t) \/ (t > 1 /\ Called(g, t, p))
      BY <1>2 DEF LocalAt
    <2>. HIDE DEF f, g, t, p
    <2>7. CASE ParserFrame(g, t)
      <3>1. ParserFrame(f, t)
        BY <2>2, <2>5, <2>7 DEF ParserFrame, NoNodes
      <3>. QED
        BY <2>5, <3>1 DEF f, g, t
    <2>8. CASE t > 1 /\ Called(g, t, p)
      <3>1. SubshellFrame(g, t, p)
        BY <2>4, <2>8 DEF Called, Barrier, Barriers, Parser, PlainFrame, ListFrame,
           FunctionFrame, WhileBody, ForBody, Compound
      <3>2. ph = "done"
        BY <2>2, <3>1 DEF SubshellFrame, Parser
      <3>3. SubshellFrame(f, t, p)
        BY <2>5, <3>1, <3>2 DEF SubshellFrame, NoNodes
      <3>4. Called(f, t, p)
        BY <3>3 DEF Called
      <3>. QED
        BY <2>5, <2>8, <3>4 DEF f, g, t, p
    <2>. QED
      BY <2>6, <2>7, <2>8
  <1>. QED
    BY <1>3, <1>4, JumpTarget

LEMMA LongJumpStep ==
    ASSUME ContextAssumption, Inv, LongJump
    PROVE  Inv'
  <1>. DEFINE t == jump.target
              f == Landed(t)
              r == [i \in 1 .. t |-> frames[i]]
  <1>1. /\ jump.op = "free" /\ ~Reclaims /\ jump' = NoJump /\ UNCHANGED <<heap, out>>
    BY DEF LongJump
  <1>2. /\ WellFormed(frames) /\ frames \in Seq(Frame) /\ heap \subseteq Block
        /\ out \in Target /\ Depth = Len(frames)
    BY InvFacts
  <1>3. t \in 1 .. Len(frames) /\ t \in Nat /\ t >= 1
    BY <1>1, <1>2, JumpTarget
  <1>4. r \in Seq(Frame) /\ Len(r) = t /\ WellFormed(r)
    BY <1>2, <1>3, PrefixFrames
  <1>5. /\ \A i \in 1 .. t : r[i] = frames[i]
        /\ t > 1 => t - 1 \in 1 .. t
    BY <1>3
  <1>6. frames' = [r EXCEPT ![t] = f]
    BY DEF LongJump
  <1>7. /\ f \in Frame /\ f.kind = frames[t].kind /\ f.block = frames[t].block
        /\ ParserFrame(f, t) \/ (t > 1 /\ Called(f, t, frames[t - 1].ctx))
    BY <1>1, LandedShape
  <1>8. heap = Owned(r)
    <2>1. heap = {frames[i].block : i \in 1 .. t} \ {NoBlock}
      BY <1>1, AllReclaimed
    <2>. HIDE DEF r, t
    <2>. QED
      BY <1>4, <1>5, <2>1 DEF Owned
  <1>. HIDE DEF r, f, t
  <1>9. r[t] = frames[t] /\ (t > 1 => r[t - 1] = frames[t - 1])
    BY <1>3, <1>5
  <1>10. Suits(r, f)
    BY <1>4, <1>7, <1>9 DEF Suits
  <1>11. /\ WellFormed(frames')
         /\ Owned(frames') = (Owned(r) \ {r[t].block}) \cup ({f.block} \ {NoBlock})
    BY <1>4, <1>6, <1>10, ChangeTop
  <1>12. Owned(frames') = heap
    <2>1. r[t].block \in Owned(r) \cup {NoBlock} /\ NoBlock \notin Owned(r)
      BY <1>3, <1>4 DEF Owned
    <2>. QED
      BY <1>7, <1>8, <1>9, <1>11, <2>1
  <1>13. TypeOK'
    BY <1>1, <1>2, <1>11 DEF TypeOK, WellFormed, NoJump, Jump
  <1>14. HeapExact' /\ JumpConsistent'
    BY <1>1, <1>12 DEF HeapExact, JumpConsistent, NoJump
  <1>. QED
    BY <1>11, <1>13, <1>14 DEF Inv

----------------------------------------------------------------------------
(* The invariant holds *)

LEMMA InvInit ==
    ASSUME ContextAssumption, Init
    PROVE  Inv
  <1>1. PICK inter \in BOOLEAN : frames = <<MainFrame(inter)>>
    BY DEF Init
  <1>. DEFINE c == CtxNew(1, inter)
              f == MainFrame(inter)
  <1>2. c \in Context /\ c.level = 1 /\ c.loop = 0 /\ c.alloc = 0 /\ c.exit = 1
    BY DEF CtxNew, Context
  <1>. HIDE DEF c
  <1>3. /\ f \in Frame /\ f.kind = "main" /\ f.phase = "idle" /\ f.ctx = c
        /\ f.block = NoBlock /\ NoNodes(f)
    <2>1. f = NewFrame("main", "idle", c, NoBlock, Terminal)
      BY DEF MainFrame, c
    <2>2. f \in Frame
      BY <1>2, <2>1, NewFrameType DEF Kind, Parser, Phase, ContextAssumption
    <2>. QED
      BY <2>1, <2>2, NewFrameFields
  <1>. HIDE DEF f
  <1>4. frames = <<f>> /\ frames \in Seq(Frame) /\ frames # <<>> /\ Len(frames) = 1 /\ frames[1] = f
    BY <1>1, <1>3 DEF f
  <1>5. LocalAt(frames, 1)
    BY <1>2, <1>3, <1>4 DEF LocalAt, ParserFrame, Parser
  <1>6. GlobalAt(frames, 1)
    <2>1. Barrier(f) /\ ~Registered(f) /\ ~InBody(f)
      BY <1>3 DEF Barrier, Barriers, Parser, Registered, InBody, NoNodes, NoNode
    <2>2. RegionAt(frames, 1)
      BY <1>2, <1>3, <1>4, <2>1 DEF RegionAt
    <2>3. LoopAt(frames, 1)
      BY <1>2, <1>3, <1>4, <2>1 DEF LoopAt, Encloses
    <2>4. AllocAt(frames, 1)
      BY <1>2, <1>3, <1>4, <2>1 DEF AllocAt
    <2>5. LevelAt(frames, 1)
      BY <1>2, <1>3, <1>4, <2>1 DEF LevelAt
    <2>. QED
      BY <2>2, <2>3, <2>4, <2>5 DEF GlobalAt
  <1>7. \A i \in 1 .. Len(frames) : i = 1
    BY <1>4
  <1>8. WellFormed(frames)
    BY <1>4, <1>5, <1>6, <1>7 DEF WellFormed, Structure, Distinct
  <1>9. Owned(frames) = {}
    BY <1>3, <1>4, <1>7 DEF Owned
  <1>10. heap = {} /\ out \in Target /\ jump = NoJump
    BY DEF Init, ContextAssumption
  <1>11. TypeOK
    BY <1>4, <1>10 DEF TypeOK, NoJump, Jump
  <1>12. HeapExact /\ JumpConsistent
    BY <1>9, <1>10 DEF HeapExact, JumpConsistent, NoJump
  <1>. QED
    BY <1>8, <1>11, <1>12 DEF Inv

LEMMA InvStep ==
    ASSUME ContextAssumption, Inv, [Next]_vars
    PROVE  Inv'
  <1>1. CASE UNCHANGED vars
    <2>1. UNCHANGED <<frames, heap, out, jump>>
      BY <1>1 DEF vars
    <2>. QED
      BY <2>1 DEF Inv, TypeOK, HeapExact, JumpConsistent, Freed, Top, Depth
  <1>2. CASE ReadCommand \/ EndCommand \/ MainEnds
    BY <1>2, ParserSteps
  <1>3. CASE \/ \E kind \in Compound, t \in Target : OpenCompound(kind, t)
             \/ \E t \in Target : OpenSimple(t)
             \/ \E t \in Target : OpenSubstitution(t)
    BY <1>3, CommandSteps
  <1>4. CASE \/ EnterSubshell \/ EnterGroup \/ EnterWhile
             \/ AllocateList \/ RegisterList
    BY <1>4, EnterSteps
  <1>5. CASE BeginBody \/ EndBody
    BY <1>5, LoopSteps
  <1>6. CASE BuiltinReturns
    BY <1>6, BuiltinStep
  <1>7. CASE CallFunction \/ CallSource
    BY <1>7, CallSteps
  <1>8. CASE Return
    BY <1>8, ReturnStep
  <1>9. CASE \E value \in {"break", "continue"}, n \in StopArg : StopLoop(value, n)
    BY <1>9, StopLoopStep
  <1>10. CASE WalkLoops
    BY <1>10, WalkStep
  <1>11. CASE WalkEnds
    BY <1>11, WalkEndsStep
  <1>12. CASE Exit \/ SourceMissing
    BY <1>12, ExitSteps
  <1>13. CASE SourceSyntaxError
    BY <1>13, SourceErrorStep
  <1>14. CASE FreeRegistered
    BY <1>14, FreeStep
  <1>15. CASE LongJump
    BY <1>15, LongJumpStep
  <1>. QED
    BY <1>1, <1>2, <1>3, <1>4, <1>5, <1>6, <1>7, <1>8, <1>9, <1>10, <1>11, <1>12,
       <1>13, <1>14, <1>15 DEF Next

LEMMA Invariance == Spec => []Inv
  <1>1. Init => Inv
    BY ContextAssumption, InvInit
  <1>2. Inv /\ [Next]_vars => Inv'
    BY ContextAssumption, InvStep
  <1>. QED
    BY <1>1, <1>2, PTL DEF Spec

\* The variables keep to their types: no stack, heap or jump that the actions
\* build leaves the sets they are declared over.
THEOREM TypeCorrect == Spec => []TypeOK
  <1>1. Inv => TypeOK
    BY DEF Inv
  <1>. QED
    BY <1>1, Invariance, PTL

\* Whatever a script does, and however deep it nests, a jump of break,
\* continue, exit or source frees the blocks of the frames it skips, all of
\* them and no other (ctx_free_allocated_memory).
THEOREM HeapIsExact == Spec => []HeapExact
  <1>1. Inv => HeapExact
    BY DEF Inv
  <1>. QED
    BY <1>1, Invariance, PTL

\* The loop that break and continue start from (ctx->loop_jump) is always the
\* innermost one around the command, and is still running.
THEOREM LoopPointersAreExact == Spec => []LoopPointerExact
  <1>1. Inv => LoopPointerExact
    <2>. SUFFICES ASSUME Inv, NEW i \in 1 .. Depth  PROVE LoopAt(frames, i)
      BY DEF LoopPointerExact, LoopAt
    <2>. QED
      BY DEF Inv, WellFormed, Structure, GlobalAt, Depth
  <1>. QED
    BY <1>1, Invariance, PTL

----------------------------------------------------------------------------
(* What a jump may skip *)

\* Only returns, jumps and the end of a sourced file make the stack shorter.
LEMMA StackGrows ==
    ASSUME Inv, [Next]_vars, ~Return, ~SourceSyntaxError, ~LongJump
    PROVE  Len(frames') >= Depth
  <1>1. frames \in Seq(Frame) /\ Depth = Len(frames) /\ Depth \in Nat \ {0}
    BY InvFacts
  <1>2. DOMAIN frames' = DOMAIN frames => Len(frames') >= Depth
    <2>1. frames' \in Seq(Frame)
      BY InvStep, ContextAssumption DEF Inv, TypeOK
    <2>. QED
      BY <1>1, <2>1
  <1>3. CASE ReadCommand \/ EndCommand \/ MainEnds \/ BuiltinReturns
    BY <1>2, <1>3 DEF ReadCommand, EndCommand, MainEnds, BuiltinReturns, SetTop,
         SetPhase
  <1>4. CASE EnterSubshell \/ EnterGroup \/ EnterWhile \/ AllocateList
    BY <1>2, <1>4 DEF EnterSubshell, EnterGroup, EnterWhile, AllocateList, SetTop,
         SetPhase
  <1>5. CASE RegisterList \/ BeginBody \/ EndBody
    BY <1>2, <1>5 DEF RegisterList, BeginBody, EndBody, SetTop
  <1>6. CASE \/ \E kind \in Compound, t \in Target : OpenCompound(kind, t)
             \/ \E t \in Target : OpenSimple(t)
             \/ \E t \in Target : OpenSubstitution(t)
    <2>1. \E f : frames' = Append(frames, f)
      BY <1>6 DEF OpenCompound, OpenSimple, OpenSubstitution, Push
    <2>. QED
      BY <1>1, <2>1
  <1>7. CASE CallFunction \/ CallSource
    <2>. DEFINE g == [frames EXCEPT ![Depth].phase = "call"]
    <2>1. \E f : frames' = Append(g, f)
      BY <1>7 DEF CallFunction, CallSource
    <2>2. Len(g) = Depth
      BY <1>1
    <2>. HIDE DEF g
    <2>. QED
      BY <1>1, <2>1, <2>2
  <1>8. UNCHANGED frames => Len(frames') >= Depth
    BY <1>1
  <1>9. CASE \/ UNCHANGED vars
             \/ \E value \in {"break", "continue"}, n \in StopArg : StopLoop(value, n)
             \/ WalkLoops \/ WalkEnds \/ Exit \/ SourceMissing \/ FreeRegistered
    BY <1>8, <1>9 DEF vars, StopLoop, WalkLoops, WalkEnds, Exit, SourceMissing,
         FreeRegistered
  <1>. QED
    BY <1>3, <1>4, <1>5, <1>6, <1>7, <1>9 DEF Next

\* No jump skips the cleanup of a subshell or of a parser: its frame is left
\* only when it is the innermost one.
THEOREM JumpsKeepBarriers == Spec => BarriersReturn
  <1>1. ASSUME Inv, [Next]_vars
        PROVE  [\A i \in 1 .. Depth :
                  Barrier(frames[i]) /\ i > Len(frames') => i = Depth]_vars
    <2>. SUFFICES ASSUME NEW i \in 1 .. Depth, Barrier(frames[i]), i > Len(frames')
                  PROVE  i = Depth
      OBVIOUS
    <2>1. /\ frames \in Seq(Frame) /\ Depth = Len(frames) /\ Depth \in Nat \ {0}
          /\ WellFormed(frames)
      BY <1>1, InvFacts
    <2>2. CASE Return
      <3>1. Len(frames') = Depth - 1
        BY <2>1, <2>2 DEF Return
      <3>. QED
        BY <2>1, <3>1
    <2>3. CASE SourceSyntaxError
      <3>1. frames' = SubSeq(frames, 1, Depth - 1)
        BY <2>3 DEF SourceSyntaxError
      <3>2. Len(frames') = Depth - 1
        BY <2>1, <3>1, SubSeqProperties
      <3>. QED
        BY <2>1, <3>2
    <2>4. CASE LongJump
      <3>. DEFINE b == frames[Depth].ctx.exit
                  t == jump.target
      <3>1. b \in 1 .. Depth /\ t \in b .. Depth
        BY <1>1, <2>4, JumpTarget DEF LongJump
      <3>2. Len(frames') = t
        BY <2>1, <2>4, <3>1 DEF LongJump
      <3>3. i \in b + 1 .. Depth
        BY <2>1, <3>1, <3>2
      <3>. QED
        BY <2>1, <3>3, Regions
    <2>5. CASE ~Return /\ ~SourceSyntaxError /\ ~LongJump
      <3>1. Len(frames') >= Depth
        BY <1>1, <2>5, StackGrows
      <3>2. Len(frames') \in Nat
        BY <1>1, InvStep, ContextAssumption, InvFacts DEF Inv, TypeOK
      <3>. QED
        BY <2>1, <3>1, <3>2
    <2>. QED
      BY <2>2, <2>3, <2>4, <2>5
  <1>. QED
    BY <1>1, Invariance, PTL DEF Spec, BarriersReturn

----------------------------------------------------------------------------
(* The loop that is left *)

\* The loops around the command, and those a jump to t leaves.
Around      == {l \in 1 .. Depth : Encloses(frames, l, Depth)}
LeftFrom(t) == {l \in Around : l >= t}

Counted ==
    jump.op = "walk" =>
        /\ jump.left >= 1 /\ jump.target \in Around
        /\ Cardinality(LeftFrom(jump.target)) + jump.left = jump.arg + 1

StopInv == Inv /\ Counted /\ StopsRightLoop

LEMMA AroundFinite ==
    ASSUME Inv, NEW t
    PROVE  /\ IsFiniteSet(Around) /\ IsFiniteSet(LeftFrom(t))
           /\ Cardinality(Around) \in Nat /\ Cardinality(LeftFrom(t)) \in Nat
           /\ Cardinality(LeftFrom(t)) <= Cardinality(Around)
  <1>1. Depth \in Nat
    BY InvFacts
  <1>2. IsFiniteSet(1 .. Depth)
    BY <1>1, FS_Interval
  <1>3. Around \subseteq 1 .. Depth /\ LeftFrom(t) \subseteq Around
    BY DEF Around, LeftFrom
  <1>4. IsFiniteSet(Around)
    BY <1>2, <1>3, FS_Subset
  <1>5. IsFiniteSet(LeftFrom(t)) /\ Cardinality(LeftFrom(t)) <= Cardinality(Around)
    BY <1>3, <1>4, FS_Subset
  <1>. QED  BY <1>4, <1>5, FS_CardinalityType

\* The walk starts at the innermost loop.
LEMMA InnermostFirst ==
    ASSUME Inv, Top.ctx.loop # 0
    PROVE  LET t == Top.ctx.loop IN t \in Around /\ LeftFrom(t) = {t}
  <1>. DEFINE t == Top.ctx.loop
  <1>1. LoopAt(frames, Depth) /\ Depth \in Nat
    BY InvFacts DEF GlobalAt
  <1>2. Encloses(frames, t, Depth) /\ \A k \in 1 .. Depth : Encloses(frames, k, Depth) => k <= t
    BY <1>1 DEF LoopAt, Top
  <1>3. t \in Around
    BY <1>2 DEF Encloses, Around
  <1>4. \A l \in Around : l <= t
    BY <1>2 DEF Around
  <1>5. Around \subseteq Nat
    BY <1>1 DEF Around
  <1>. HIDE DEF t
  <1>6. \A l \in LeftFrom(t) : l = t
    BY <1>3, <1>4, <1>5 DEF LeftFrom
  <1>7. t \in LeftFrom(t)
    BY <1>3, <1>5 DEF LeftFrom
  <1>. QED  BY <1>3, <1>6, <1>7 DEF t

\* The next node of the chain is the next loop outwards, or there is none.
LEMMA OuterLoopNext ==
    ASSUME Inv, jump.op = "walk"
    PROVE  LET t == jump.target
               u == OuterLoop
           IN /\ t \in Around
              /\ u = 0 => Around = LeftFrom(t)
              /\ u # 0 => u \in Around /\ u \notin LeftFrom(t)
                          /\ LeftFrom(u) = LeftFrom(t) \cup {u}
  <1>. DEFINE t == jump.target
              u == OuterLoop
              n == Depth
  <1>1. WellFormed(frames) /\ n = Len(frames) /\ n \in Nat
    BY InvFacts
  <1>2. Encloses(frames, t, n)
    BY DEF Inv, JumpConsistent
  <1>3. /\ t \in frames[n].ctx.exit + 1 .. n /\ InBody(frames[t]) /\ ~Barrier(frames[t])
        /\ frames[t].kind \in Loop
    BY <1>1, <1>2, LoopInRegion
  <1>4. /\ t > 1 /\ Extends(frames[t], t, frames[t - 1].ctx)
    BY <1>1, <1>3, NodeFields
  <1>5. u = frames[t - 1].ctx.loop
    BY <1>3, <1>4 DEF Extends, OuterLoop
  <1>6. t \in 1 .. n /\ t - 1 \in 1 .. n /\ t \in Nat
    BY <1>1, <1>2, <1>4 DEF Encloses
  <1>7. LoopAt(frames, t - 1)
    <2>1. GlobalAt(frames, t - 1)
      BY <1>1, <1>6, Regions
    <2>. QED  BY <2>1 DEF GlobalAt
  <1>8. /\ u # 0 => Encloses(frames, u, t - 1)
        /\ \A k \in 1 .. t - 1 : Encloses(frames, k, t - 1) => k <= u
    BY <1>5, <1>7 DEF LoopAt
  <1>. HIDE DEF u, t, n
  <1>9. t \in Around
    BY <1>2, <1>6 DEF Around, n
  <1>10. u # 0 => u \in Around /\ u < t
    <2>. SUFFICES ASSUME u # 0 PROVE u \in Around /\ u < t
      OBVIOUS
    <2>1. u \in 1 .. t - 1 /\ InBody(frames[u])
      BY <1>8 DEF Encloses
    <2>2. u \in 1 .. n /\ u < t
      BY <1>1, <1>6, <2>1
    <2>3. ASSUME NEW k \in u + 1 .. n
          PROVE  ~Barrier(frames[k]) /\ frames[k].kind # "func"
      <3>1. k \in u + 1 .. t - 1 \/ k = t \/ k \in t + 1 .. n
        BY <1>1, <1>6, <2>2
      <3>2. frames[t].kind # "func"
        BY <1>3 DEF Loop
      <3>. QED  BY <1>2, <1>3, <1>8, <3>1, <3>2 DEF Encloses
    <2>. QED  BY <2>1, <2>2, <2>3 DEF Around, Encloses, n
  <1>11. ASSUME NEW l \in Around, l < t
         PROVE  l <= u
    <2>1. l \in 1 .. n /\ Encloses(frames, l, n)
      BY DEF Around, n
    <2>2. l \in 1 .. t - 1
      BY <1>6, <1>11, <2>1
    <2>3. Encloses(frames, l, t - 1)
      <3>1. \A k \in l + 1 .. t - 1 : k \in l + 1 .. n
        BY <1>1, <1>6, <2>2
      <3>. QED  BY <2>1, <2>2, <3>1 DEF Encloses
    <2>. QED  BY <1>8, <2>2, <2>3
  <1>12. Around \subseteq Nat \ {0}
    BY <1>1 DEF Around, n
  <1>13. u = 0 => Around = LeftFrom(t)
    <2>. SUFFICES ASSUME u = 0 PROVE \A l \in Around : l >= t
      BY DEF LeftFrom
    <2>. QED  BY <1>6, <1>11, <1>12
  <1>14. u # 0 => u \notin LeftFrom(t) /\ LeftFrom(u) = LeftFrom(t) \cup {u}
    <2>. SUFFICES ASSUME u # 0 PROVE u \notin LeftFrom(t) /\ LeftFrom(u) = LeftFrom(t) \cup {u}
      OBVIOUS
    <2>1. u \in Nat
      BY <1>10, <1>12
    <2>2. \A l \in Around : l >= u <=> l >= t \/ l = u
      BY <1>6, <1>10, <1>11, <1>12, <2>1
    <2>. QED  BY <1>6, <1>10, <2>1, <2>2 DEF LeftFrom
  <1>. QED  BY <1>9, <1>10, <1>13, <1>14 DEF t, u

LEMMA SameAround ==
    ASSUME UNCHANGED frames, NEW t
    PROVE  Around' = Around /\ LeftFrom(t)' = LeftFrom(t)
  BY DEF Around, LeftFrom, Depth

LEMMA StopLoopCounts ==
    ASSUME Inv, NEW value \in {"break", "continue"}, NEW n \in StopArg, StopLoop(value, n)
    PROVE  Counted' /\ StopsRightLoop'
  <1>. DEFINE t == Top.ctx.loop
  <1>1. /\ n >= 1 /\ t # 0 /\ UNCHANGED frames /\ n \in Int
        /\ jump'.op = "walk" /\ jump'.target = t /\ jump'.left = n /\ jump'.arg = n
    BY ContextAssumption DEF StopLoop
  <1>2. t \in Around /\ LeftFrom(t) = {t}
    BY <1>1, InnermostFirst
  <1>. HIDE DEF t
  <1>3. Cardinality(LeftFrom(t)) = 1
    BY <1>2, FS_Singleton
  <1>4. Around' = Around /\ LeftFrom(jump.target)' = LeftFrom(t)
    BY <1>1 DEF Around, LeftFrom, Depth
  <1>5. (jump.left >= 1)' /\ (jump.target \in Around)'
    BY <1>1, <1>2, <1>4
  <1>6. (Cardinality(LeftFrom(jump.target)) + jump.left = jump.arg + 1)'
    BY <1>1, <1>3, <1>4
  <1>. QED  BY <1>1, <1>5, <1>6 DEF Counted, StopsRightLoop

LEMMA WalkCounts ==
    ASSUME Inv, Counted, WalkLoops
    PROVE  Counted' /\ StopsRightLoop'
  <1>. DEFINE t == jump.target
              u == OuterLoop
  <1>1. /\ jump.op = "walk" /\ jump.left > 1 /\ u # 0 /\ UNCHANGED frames
        /\ jump \in Jump /\ jump.left \in Int /\ jump.arg \in Int
        /\ jump' = [jump EXCEPT !.target = u, !.left = @ - 1]
    BY InvFacts DEF WalkLoops, Jump
  <1>2. jump'.op = "walk" /\ jump'.target = u /\ jump'.left = jump.left - 1 /\ jump'.arg = jump.arg
    BY <1>1 DEF Jump
  <1>3. u \in Around /\ u \notin LeftFrom(t) /\ LeftFrom(u) = LeftFrom(t) \cup {u}
    BY <1>1, OuterLoopNext
  <1>4. IsFiniteSet(LeftFrom(t)) /\ Cardinality(LeftFrom(t)) \in Nat
    BY AroundFinite
  <1>5. Cardinality(LeftFrom(t)) + jump.left = jump.arg + 1
    BY <1>1 DEF Counted
  <1>. HIDE DEF t, u
  <1>6. Cardinality(LeftFrom(u)) = Cardinality(LeftFrom(t)) + 1
    BY <1>3, <1>4, FS_AddElement
  <1>7. Around' = Around /\ LeftFrom(jump.target)' = LeftFrom(u)
    BY <1>1, <1>2 DEF Around, LeftFrom, Depth
  <1>8. (jump.left >= 1)' /\ (jump.target \in Around)'
    BY <1>1, <1>2, <1>3, <1>7
  <1>9. (Cardinality(LeftFrom(jump.target)) + jump.left = jump.arg + 1)'
    BY <1>1, <1>2, <1>4, <1>5, <1>6, <1>7
  <1>. QED  BY <1>2, <1>8, <1>9 DEF Counted, StopsRightLoop

\* StopsRightLoop, in the words of this module.
LEMMA StopsBy ==
    StopsRightLoop <=>
        (jump.op = "free" /\ jump.value \in {"break", "continue"} =>
            /\ jump.target \in Around
            /\ Cardinality(LeftFrom(jump.target)) =
                 IF jump.arg < Cardinality(Around) THEN jump.arg ELSE Cardinality(Around))
  BY DEF StopsRightLoop, Around, LeftFrom

LEMMA WalkEndsRight ==
    ASSUME Inv, Counted, WalkEnds
    PROVE  Counted' /\ StopsRightLoop'
  <1>. DEFINE t == jump.target
              c == Cardinality(LeftFrom(t))
              d == Cardinality(Around)
  <1>1. /\ jump.op = "walk" /\ (jump.left <= 1 \/ OuterLoop = 0)
        /\ UNCHANGED frames /\ jump \in Jump /\ jump.left \in Int /\ jump.arg \in Int
    BY InvFacts DEF WalkEnds, Jump
  <1>2. jump'.op = "free" /\ jump'.target = t /\ jump'.arg = jump.arg
    BY <1>1 DEF WalkEnds, Jump
  <1>3. /\ t \in Around /\ jump.left >= 1 /\ c + jump.left = jump.arg + 1
        /\ c \in Nat /\ d \in Nat /\ c <= d
    BY <1>1, AroundFinite DEF Counted, WalkEnds
  <1>4. OuterLoop = 0 => c = d
    <2>1. OuterLoop = 0 => Around = LeftFrom(t)
      BY OuterLoopNext DEF WalkEnds
    <2>. QED  BY <2>1
  <1>. HIDE DEF c, d, t
  <1>5. c = IF jump.arg < d THEN jump.arg ELSE d
    BY <1>1, <1>3, <1>4
  <1>6. Around' = Around /\ LeftFrom(jump.target)' = LeftFrom(t)
    BY <1>1, <1>2 DEF Around, LeftFrom, Depth
  <1>7. StopsRightLoop'
    BY <1>2, <1>3, <1>5, <1>6, StopsBy DEF c, d, StopsRightLoop, Around, LeftFrom
  <1>. QED  BY <1>2, <1>7 DEF Counted

LEMMA StopStep ==
    ASSUME StopInv, [Next]_vars
    PROVE  StopInv'
  <1>1. Inv' /\ Inv
    BY ContextAssumption, InvStep DEF StopInv
  <1>2. CASE \E value \in {"break", "continue"}, n \in StopArg : StopLoop(value, n)
    BY <1>1, <1>2, StopLoopCounts DEF StopInv
  <1>3. CASE WalkLoops
    BY <1>1, <1>3, WalkCounts DEF StopInv
  <1>4. CASE WalkEnds
    BY <1>1, <1>4, WalkEndsRight DEF StopInv
  <1>5. CASE FreeRegistered
    <2>1. /\ jump.op = "free" /\ UNCHANGED frames /\ jump'.op = "free"
          /\ jump'.value = jump.value /\ jump'.target = jump.target /\ jump'.arg = jump.arg
      BY <1>1, <1>5, InvFacts DEF FreeRegistered, Jump
    <2>. QED  BY <1>1, <2>1 DEF StopInv, Counted, StopsRightLoop, Depth
  <1>6. CASE jump'.op = "none"
    BY <1>1, <1>6 DEF StopInv, Counted, StopsRightLoop
  <1>7. CASE Exit \/ SourceMissing \/ SourceSyntaxError
    <2>1. jump'.op = "free" /\ jump'.value \in {"exit", "resume"}
      BY <1>7 DEF Exit, SourceMissing, SourceSyntaxError, SourceExit, ExitJump
    <2>. QED  BY <1>1, <2>1 DEF StopInv, Counted, StopsRightLoop
  <1>8. CASE UNCHANGED vars
    BY <1>1, <1>8 DEF vars, StopInv, Counted, StopsRightLoop, Around, LeftFrom, Depth
  <1>9. CASE LongJump
    BY <1>6, <1>9 DEF LongJump, NoJump
  <1>10. Running /\ UNCHANGED jump => jump'.op = "none"
    BY DEF Running
  <1>11. CASE ReadCommand \/ EndCommand \/ MainEnds \/ EnterSubshell \/ EnterGroup \/ EnterWhile
    BY <1>6, <1>10, <1>11
      DEF ReadCommand, EndCommand, MainEnds, EnterSubshell, EnterGroup, EnterWhile
  <1>12. CASE AllocateList \/ RegisterList \/ BeginBody \/ EndBody \/ BuiltinReturns
              \/ CallFunction \/ CallSource \/ Return
    BY <1>6, <1>10, <1>12 DEF AllocateList, RegisterList, BeginBody, EndBody, BuiltinReturns,
         CallFunction, CallSource, Return
  <1>13. CASE \/ \E kind \in Compound, t \in Target : OpenCompound(kind, t)
              \/ \E t \in Target : OpenSimple(t)
              \/ \E t \in Target : OpenSubstitution(t)
    BY <1>6, <1>10, <1>13 DEF OpenCompound, OpenSimple, OpenSubstitution
  <1>. QED
    BY <1>2, <1>3, <1>4, <1>5, <1>7, <1>8, <1>9, <1>11, <1>12, <1>13 DEF Next

\* break n and continue n leave n loops, or all those around the command when
\* there are fewer, whatever functions, subshells and sourced files are around
\* those (__stop_loop).
THEOREM JumpsStopRightLoop == Spec => []StopsRightLoop
  <1>1. Init => StopInv
    <2>. SUFFICES ASSUME Init PROVE StopInv
      OBVIOUS
    <2>1. Inv /\ jump.op = "none"
      BY ContextAssumption, InvInit DEF Init, NoJump
    <2>. QED  BY <2>1 DEF StopInv, Counted, StopsRightLoop
  <1>2. StopInv /\ [Next]_vars => StopInv'
    BY StopStep
  <1>3. StopInv => StopsRightLoop
    BY DEF StopInv
  <1>. QED  BY <1>1, <1>2, <1>3, PTL DEF Spec

----------------------------------------------------------------------------
(* Standard output at the top level *)

Interactive == frames[1].ctx.inter

\* No context is interactive in a script, so that no jump resumes its parser.
InterKept ==
    /\ \A i \in 1 .. Depth : frames[i].ctx.inter => Interactive
    /\ jump.op = "free" /\ jump.value = "resume" => Interactive
    /\ frames[1].phase = "resumed" => Interactive

\* The command the top level runs has saved the output of the shell.
OutputKept ==
    ~Interactive /\ frames[1].phase \in {"idle", "exec"} =>
        /\ Depth = 1 => out = Terminal
        /\ Depth > 1 => frames[2].kind \in Saving /\ frames[2].saved = Terminal

Kept == Inv /\ InterKept /\ OutputKept

JumpKept == jump'.op = "free" /\ jump'.value = "resume" => Interactive

\* A step that changes the last frame, which is not the parser's.
LEMMA ChangeKeeps ==
    ASSUME Kept, NEW f, SetTop(f), Depth > 1, f.kind = Top.kind, f.saved = Top.saved,
           f.ctx.inter = Top.ctx.inter, UNCHANGED out, JumpKept
    PROVE  InterKept' /\ OutputKept'
  <1>1. frames \in Seq(Frame) /\ Depth \in Nat /\ Depth = Len(frames)
    BY InvFacts DEF Kept
  <1>2. frames' = [frames EXCEPT ![Depth] = f]
    BY DEF SetTop
  <1>3. /\ Depth' = Depth /\ frames'[Depth] = f
        /\ \A i \in 1 .. Depth : i # Depth => frames'[i] = frames[i]
    BY <1>1, <1>2 DEF Depth
  <1>4. 1 \in 1 .. Depth /\ frames'[1] = frames[1]
    BY <1>1, <1>3
  <1>5. \A i \in 1 .. Depth : /\ frames'[i].ctx.inter = frames[i].ctx.inter
                              /\ frames'[i].kind = frames[i].kind
                              /\ frames'[i].saved = frames[i].saved
    BY <1>3 DEF Top
  <1>6. 2 \in 1 .. Depth
    BY <1>1
  <1>7. InterKept'
    BY <1>3, <1>4, <1>5 DEF Kept, InterKept, Interactive, JumpKept
  <1>8. OutputKept'
    BY <1>3, <1>4, <1>5, <1>6 DEF Kept, OutputKept, Interactive
  <1>. QED  BY <1>7, <1>8

\* A new frame, on the frames of g.
LEMMA PushKeeps ==
    ASSUME Kept, NEW g, NEW f, frames' = Append(g, f), g \in Seq(Frame), Len(g) = Depth,
           \A i \in 1 .. Depth : /\ g[i].ctx = frames[i].ctx /\ g[i].kind = frames[i].kind
                                 /\ g[i].saved = frames[i].saved,
           g[1].phase = frames[1].phase,
           f.ctx.inter => Interactive,
           Depth = 1 => f.kind \in Saving /\ f.saved = out,
           JumpKept
    PROVE  InterKept' /\ OutputKept'
  <1>1. Depth \in Nat \ {0} /\ Depth = Len(frames)
    BY InvFacts DEF Kept
  <1>2. /\ Depth' = Depth + 1 /\ frames'[Depth + 1] = f
        /\ \A i \in 1 .. Depth : frames'[i] = g[i]
    BY <1>1, AppendProperties DEF Depth
  <1>3. 1 \in 1 .. Depth /\ frames'[1].ctx = frames[1].ctx /\ frames'[1].phase = frames[1].phase
    BY <1>1, <1>2
  <1>4. InterKept'
    BY <1>1, <1>2, <1>3 DEF Kept, InterKept, Interactive, JumpKept
  <1>5. Depth = 1 => frames'[2] = f
    BY <1>2
  <1>6. Depth > 1 => frames'[2].kind = frames[2].kind /\ frames'[2].saved = frames[2].saved
    BY <1>1, <1>2
  <1>7. OutputKept'
    BY <1>1, <1>2, <1>3, <1>5, <1>6 DEF Kept, OutputKept, Interactive
  <1>. QED  BY <1>4, <1>7

\* The frames up to n go on, the last of them as f.
LEMMA PopKeeps ==
    ASSUME Kept, NEW n \in 1 .. Depth, NEW f, Len(frames') = n, frames'[n] = f,
           \A i \in 1 .. n - 1 : frames'[i] = frames[i],
           f.ctx.inter => Interactive,
           n > 1 => f.kind = frames[n].kind /\ f.saved = frames[n].saved,
           n = 1 => f.ctx.inter = Interactive,
           n = 1 /\ f.phase = "resumed" => Interactive,
           n = 1 /\ ~Interactive /\ f.phase \in {"idle", "exec"} =>
             frames[1].phase \in {"idle", "exec"} /\ out' = Terminal,
           JumpKept
    PROVE  InterKept' /\ OutputKept'
  <1>1. Depth \in Nat \ {0} /\ Depth = Len(frames) /\ n \in Nat /\ Depth' = n
    BY InvFacts DEF Kept, Depth
  <1>2. CASE n = 1
    BY <1>1, <1>2 DEF Kept, InterKept, OutputKept, Interactive, JumpKept
  <1>3. CASE n > 1
    <2>1. 1 \in 1 .. n - 1 /\ frames'[1] = frames[1] /\ 1 \in 1 .. Depth
      BY <1>1, <1>3
    <2>2. frames'[2].kind = frames[2].kind /\ frames'[2].saved = frames[2].saved
      <3>1. 2 = n \/ 2 \in 1 .. n - 1
        BY <1>1, <1>3
      <3>. QED  BY <3>1, <1>3
    <2>3. \A i \in 1 .. n : i = n \/ (i \in 1 .. n - 1 /\ i \in 1 .. Depth)
      BY <1>1
    <2>4. InterKept'
      BY <1>1, <2>1, <2>3 DEF Kept, InterKept, Interactive, JumpKept
    <2>5. OutputKept'
      BY <1>1, <1>3, <2>1, <2>2 DEF Kept, OutputKept, Interactive
    <2>. QED  BY <2>4, <2>5
  <1>. QED  BY <1>1, <1>2, <1>3

LEMMA SameJump ==
    ASSUME Kept, UNCHANGED jump
    PROVE  JumpKept
  BY DEF Kept, InterKept, JumpKept

LEMMA ParserKeeps ==
    ASSUME Kept, ReadCommand \/ EndCommand \/ MainEnds
    PROVE  InterKept' /\ OutputKept'
  <1>1. /\ Depth \in Nat \ {0} /\ frames \in Seq(Frame) /\ Depth = Len(frames) /\ Top \in Frame
        /\ Top.kind \in Parser /\ UNCHANGED <<out, jump>>
    BY InvFacts DEF Kept, ReadCommand, EndCommand, MainEnds, Parser
  <1>2. PICK f : /\ SetTop(f) /\ f.kind = Top.kind /\ f.saved = Top.saved /\ f.ctx = Top.ctx
                 /\ f.phase # "resumed"
                 /\ f.phase \in {"idle", "exec"} =>
                      \/ Top.phase \in {"idle", "exec"}
                      \/ Top.phase = "resumed"
    <2>1. CASE ReadCommand
      <3>1. PICK b \in Block : SetTop([Top EXCEPT !.phase = "exec", !.block = b])
        BY <2>1 DEF ReadCommand
      <3>2. Top.phase = "idle"
        BY <2>1 DEF ReadCommand
      <3>. WITNESS [Top EXCEPT !.phase = "exec", !.block = b]
      <3>. QED  BY <1>1, <3>1, <3>2 DEF Frame
    <2>2. CASE EndCommand
      <3>. DEFINE ph == IF Top.phase = "exited" THEN "eof" ELSE "idle"
      <3>1. /\ SetTop([Top EXCEPT !.block = NoBlock, !.phase = ph])
            /\ Top.phase \in {"exec", "exited", "resumed"}
        BY <2>2 DEF EndCommand
      <3>2. ph \in {"eof", "idle"} /\ (ph = "idle" => Top.phase \in {"exec", "resumed"})
        BY <3>1
      <3>. HIDE DEF ph
      <3>. WITNESS [Top EXCEPT !.block = NoBlock, !.phase = ph]
      <3>. QED  BY <1>1, <3>1, <3>2 DEF Frame
    <2>3. CASE MainEnds
      <3>1. SetTop([Top EXCEPT !.phase = "eof"])
        BY <1>1, <2>3 DEF MainEnds, SetPhase, SetTop, Top
      <3>. WITNESS [Top EXCEPT !.phase = "eof"]
      <3>. QED  BY <1>1, <3>1 DEF Frame
    <2>. QED  BY <2>1, <2>2, <2>3
  <1>3. JumpKept
    BY <1>1, SameJump
  <1>4. CASE Depth > 1
    BY <1>1, <1>2, <1>3, <1>4, ChangeKeeps
  <1>5. CASE Depth = 1
    <2>1. Len(frames') = 1 /\ frames'[1] = f /\ Top = frames[1]
      <3>1. frames' = [frames EXCEPT ![1] = f] /\ Len(frames) = 1
        BY <1>1, <1>2, <1>5 DEF SetTop
      <3>. QED  BY <1>1, <1>5, <3>1 DEF Top
    <2>2. Top.phase = "resumed" => Interactive
      BY <2>1 DEF Kept, InterKept
    <2>3. ~Interactive /\ f.phase \in {"idle", "exec"} => Top.phase \in {"idle", "exec"} /\ out' = Terminal
      BY <1>1, <1>2, <1>5, <2>1, <2>2 DEF Kept, OutputKept
    <2>. QED  BY <1>1, <1>2, <1>3, <1>5, <2>1, <2>3, PopKeeps DEF Interactive
  <1>. QED  BY <1>1, <1>4, <1>5

LEMMA OpenKeeps ==
    ASSUME Kept,
           \/ \E kind \in Compound, t \in Target : OpenCompound(kind, t)
           \/ \E t \in Target : OpenSimple(t)
           \/ \E t \in Target : OpenSubstitution(t)
    PROVE  InterKept' /\ OutputKept'
  <1>1. /\ frames \in Seq(Frame) /\ Depth \in Nat \ {0} /\ Depth = Len(frames)
        /\ Top.ctx \in Context /\ UNCHANGED jump
    BY InvFacts DEF Kept, OpenCompound, OpenSimple, OpenSubstitution
  <1>2. Top.ctx.inter => Interactive
    BY <1>1 DEF Kept, InterKept, Top
  <1>3. PICK f : frames' = Append(frames, f) /\ f.kind \in Saving /\ f.saved = out
                 /\ f.ctx.inter = Top.ctx.inter
    <2>1. ASSUME NEW kind \in Compound, NEW t \in Target, OpenCompound(kind, t)
          PROVE  \E f : frames' = Append(frames, f) /\ f.kind \in Saving /\ f.saved = out
                        /\ f.ctx.inter = Top.ctx.inter
      <3>. DEFINE f == NewFrame(kind, "expand", Top.ctx, NoBlock, out)
      <3>1. frames' = Append(frames, f)
        BY <2>1 DEF OpenCompound, Push
      <3>2. f.kind = kind /\ f.ctx = Top.ctx /\ f.saved = out
        BY NewFrameFields
      <3>. HIDE DEF f
      <3>. QED  BY <3>1, <3>2 DEF Saving
    <2>2. ASSUME NEW t \in Target, OpenSimple(t)
          PROVE  \E f : frames' = Append(frames, f) /\ f.kind \in Saving /\ f.saved = out
                        /\ f.ctx.inter = Top.ctx.inter
      <3>1. PICK b \in Block : frames' = Append(frames, NewFrame("cmd", "expand", Top.ctx, b, out))
        BY <2>2 DEF OpenSimple, Push
      <3>. DEFINE f == NewFrame("cmd", "expand", Top.ctx, b, out)
      <3>2. f.kind = "cmd" /\ f.ctx = Top.ctx /\ f.saved = out
        BY NewFrameFields
      <3>. HIDE DEF f
      <3>. QED  BY <3>1, <3>2 DEF Saving, f
    <2>3. ASSUME NEW t \in Target, OpenSubstitution(t)
          PROVE  \E f : frames' = Append(frames, f) /\ f.kind \in Saving /\ f.saved = out
                        /\ f.ctx.inter = Top.ctx.inter
      <3>. DEFINE c == CtxSubshell(Top.ctx, Depth + 1)
      <3>1. c.inter = Top.ctx.inter
        BY <1>1 DEF CtxSubshell, Context
      <3>. HIDE DEF c
      <3>2. PICK b \in Block : frames' = Append(frames, NewFrame("subst", "run", c, b, out))
        BY <2>3 DEF OpenSubstitution, Push, c
      <3>. DEFINE f == NewFrame("subst", "run", c, b, out)
      <3>3. f.kind = "subst" /\ f.ctx = c /\ f.saved = out
        BY NewFrameFields
      <3>. HIDE DEF f
      <3>. QED  BY <3>1, <3>2, <3>3 DEF Saving, f
    <2>4. CASE \E kind \in Compound, t \in Target : OpenCompound(kind, t)
      BY <2>1, <2>4
    <2>5. CASE \E t \in Target : OpenSimple(t)
      BY <2>2, <2>5
    <2>6. CASE \E t \in Target : OpenSubstitution(t)
      BY <2>3, <2>6
    <2>. QED  BY <2>4, <2>5, <2>6
  <1>4. JumpKept
    BY <1>1, SameJump
  <1>. QED  BY <1>1, <1>2, <1>3, <1>4, PushKeeps

\* A loop that has been left has the output it saved, and the context of its
\* caller.
LeaveBodySame(i, ph) ==
    LET f == LeaveBody(i, ph) IN
    /\ f.kind = frames[i].kind /\ f.saved = frames[i].saved /\ f.phase = ph
    /\ f.ctx.inter = frames[i].ctx.inter

LEMMA LeaveBodyKeeps ==
    ASSUME Inv, NEW i \in 1 .. Depth, InBody(frames[i]), NEW ph
    PROVE  LeaveBodySame(i, ph)
  <1>. DEFINE p == frames[i - 1].ctx
              c == LoopContext(i)
  <1>1. frames \in Seq(Frame) /\ Depth = Len(frames) /\ LocalAt(frames, i)
    BY InvFacts DEF WellFormed, Structure
  <1>2. ~ParserFrame(frames[i], i)
    BY DEF ParserFrame, InBody
  <1>3. /\ i > 1 /\ p \in Context /\ frames[i] \in Frame /\ i \in Nat
        /\ WhileBody(frames[i], i, p) \/ ForBody(frames[i], i, p)
    <2>1. i > 1 /\ Called(frames[i], i, p)
      BY <1>1, <1>2 DEF LocalAt
    <2>2. WhileBody(frames[i], i, p) \/ ForBody(frames[i], i, p)
      BY <2>1 DEF Called, InBody, SubshellFrame, PlainFrame, ListFrame, FunctionFrame
    <2>. QED  BY <1>1, <2>1, <2>2, FrameAt
  <1>4. c.inter = p.inter /\ frames[i].ctx.inter = p.inter
    <2>1. CASE WhileBody(frames[i], i, p)
      BY <1>3, <2>1 DEF WhileBody, LoopContext, CtxAddJump, Context
    <2>2. CASE ForBody(frames[i], i, p)
      <3>. DEFINE q == CtxAddAlloc(p, i)
      <3>1. q \in Context /\ q.inter = p.inter
        BY <1>3, ContextTypes DEF CtxAddAlloc, Context
      <3>2. frames[i].ctx = CtxAddJump(q, i) /\ c = q
        BY <2>2 DEF ForBody, LoopContext
      <3>. HIDE DEF q
      <3>. QED  BY <3>1, <3>2 DEF CtxAddJump, Context
    <2>. QED  BY <1>3, <2>1, <2>2
  <1>. HIDE DEF c, p
  <1>. QED  BY <1>3, <1>4 DEF LeaveBodySame, LeaveBody, Frame, c

\* The steps of a frame above the parser.
LEMMA EnterKeeps ==
    ASSUME Kept,
           \/ EnterSubshell \/ EnterGroup \/ EnterWhile \/ AllocateList \/ RegisterList
           \/ BeginBody \/ EndBody \/ BuiltinReturns
    PROVE  InterKept' /\ OutputKept'
  <1>1. /\ frames \in Seq(Frame) /\ Depth \in Nat \ {0} /\ Depth = Len(frames)
        /\ Top \in Frame /\ Top.ctx \in Context /\ LocalAt(frames, Depth)
    BY InvFacts DEF Kept
  <1>2. Top.kind \notin Parser /\ UNCHANGED <<out, jump>>
    BY DEF EnterSubshell, EnterGroup, EnterWhile, AllocateList, RegisterList, BeginBody,
           EndBody, BuiltinReturns, Parser, Loop
  <1>3. Depth > 1 /\ Called(Top, Depth, Caller.ctx)
    BY <1>2, TopShape DEF Kept
  <1>4. JumpKept
    BY <1>2, SameJump
  <1>5. PICK f : SetTop(f) /\ f.kind = Top.kind /\ f.saved = Top.saved
                 /\ f.ctx.inter = Top.ctx.inter
    <2>1. ASSUME NEW ph, SetPhase(ph)
          PROVE  \E f : SetTop(f) /\ f.kind = Top.kind /\ f.saved = Top.saved
                        /\ f.ctx.inter = Top.ctx.inter
      <3>1. SetTop([Top EXCEPT !.phase = ph])
        BY <1>1, <2>1 DEF SetPhase, SetTop, Top
      <3>. WITNESS [Top EXCEPT !.phase = ph]
      <3>. QED  BY <1>1, <3>1 DEF Frame
    <2>2. CASE EnterGroup \/ EnterWhile \/ BuiltinReturns
      BY <2>1, <2>2 DEF EnterGroup, EnterWhile, BuiltinReturns
    <2>3. CASE EnterSubshell
      <3>. DEFINE c == CtxSubshell(Top.ctx, Depth)
      <3>1. c.inter = Top.ctx.inter
        BY <1>1 DEF CtxSubshell, Context
      <3>2. PICK b \in Block : SetTop([Top EXCEPT !.phase = "run", !.block = b, !.ctx = c])
        BY <2>3 DEF EnterSubshell
      <3>. HIDE DEF c
      <3>. WITNESS [Top EXCEPT !.phase = "run", !.block = b, !.ctx = c]
      <3>. QED  BY <1>1, <3>1, <3>2 DEF Frame
    <2>4. CASE AllocateList
      <3>1. PICK b \in Block : SetTop([Top EXCEPT !.block = b])
        BY <2>4 DEF AllocateList
      <3>. WITNESS [Top EXCEPT !.block = b]
      <3>. QED  BY <1>1, <3>1 DEF Frame
    <2>5. CASE RegisterList
      <3>. DEFINE c == CtxAddAlloc(Top.ctx, Depth)
                  a == AllocNode(Top.ctx)
                  ph == CASE Top.kind = "for"  -> "iter"
                          [] Top.kind = "case" -> "run"
                          [] Top.kind = "cmd"  -> "args"
      <3>1. c.inter = Top.ctx.inter
        BY <1>1 DEF CtxAddAlloc, Context
      <3>2. SetTop([Top EXCEPT !.phase = ph, !.ctx = c, !.anode = a])
        BY <2>5 DEF RegisterList
      <3>. HIDE DEF c, a, ph
      <3>. WITNESS [Top EXCEPT !.phase = ph, !.ctx = c, !.anode = a]
      <3>. QED  BY <1>1, <3>1, <3>2 DEF Frame
    <2>6. CASE BeginBody
      <3>. DEFINE c == CtxAddJump(Top.ctx, Depth)
                  n == JumpNode(Top.ctx)
      <3>1. c.inter = Top.ctx.inter
        BY <1>1 DEF CtxAddJump, Context
      <3>2. SetTop([Top EXCEPT !.phase = "body", !.ctx = c, !.jnode = n])
        BY <2>6 DEF BeginBody
      <3>. HIDE DEF c, n
      <3>. WITNESS [Top EXCEPT !.phase = "body", !.ctx = c, !.jnode = n]
      <3>. QED  BY <1>1, <3>1, <3>2 DEF Frame
    <2>7. CASE EndBody
      <3>1. SetTop(LeaveBody(Depth, Again(Depth))) /\ InBody(Top)
        BY <2>7 DEF EndBody, InBody
      <3>2. Depth \in 1 .. Depth
        BY <1>1
      <3>3. LeaveBodySame(Depth, Again(Depth))
        BY <1>1, <3>1, <3>2, LeaveBodyKeeps DEF Kept, Top
      <3>. QED  BY <3>1, <3>3 DEF LeaveBodySame, Top
    <2>. QED  BY <2>2, <2>3, <2>4, <2>5, <2>6, <2>7
  <1>. QED  BY <1>2, <1>3, <1>4, <1>5, ChangeKeeps

LEMMA CallKeeps ==
    ASSUME Kept, CallFunction \/ CallSource
    PROVE  InterKept' /\ OutputKept'
  <1>. DEFINE g == [frames EXCEPT ![Depth].phase = "call"]
  <1>1. /\ frames \in Seq(Frame) /\ Depth \in Nat \ {0} /\ Depth = Len(frames)
        /\ Top \in Frame /\ Top.ctx \in Context /\ UNCHANGED <<out, jump>>
        /\ Top.kind \notin Parser
    BY InvFacts DEF Kept, CallFunction, CallSource, Parser
  <1>2. Depth > 1
    BY <1>1, TopShape DEF Kept
  <1>3. JumpKept
    BY <1>1, SameJump
  <1>4. /\ g \in Seq(Frame) /\ Len(g) = Depth /\ g[1].phase = frames[1].phase
        /\ \A i \in 1 .. Depth : /\ g[i].ctx = frames[i].ctx /\ g[i].kind = frames[i].kind
                                 /\ g[i].saved = frames[i].saved
    <2>. DEFINE f == [Top EXCEPT !.phase = "call"]
    <2>1. /\ f \in Frame /\ f.ctx = Top.ctx /\ f.kind = Top.kind /\ f.saved = Top.saved
      BY <1>1 DEF Frame, Phase
    <2>2. g = [frames EXCEPT ![Depth] = f]
      BY <1>1 DEF Top
    <2>. HIDE DEF f, g
    <2>3. g \in Seq(Frame) /\ Len(g) = Depth
      BY <1>1, <2>1, <2>2
    <2>4. \A i \in 1 .. Depth : g[i] = IF i = Depth THEN f ELSE frames[i]
      BY <1>1, <2>2
    <2>5. 1 \in 1 .. Depth
      BY <1>1
    <2>. QED  BY <1>2, <2>1, <2>3, <2>4, <2>5 DEF Top
  <1>. HIDE DEF g
  <1>5. Top.ctx.inter => Interactive
    BY <1>1 DEF Kept, InterKept, Top
  <1>6. PICK f : frames' = Append(g, f) /\ (f.ctx.inter => Interactive)
    <2>1. CASE CallFunction
      <3>. DEFINE p == [Top.ctx EXCEPT !.loop = 0]
                  c == CtxAddAlloc(p, Depth + 1)
                  a == AllocNode(p)
                  h(b) == [NewFrame("func", "run", c, b, out) EXCEPT !.anode = a]
      <3>1. PICK b \in Block : frames' = Append(g, h(b))
        BY <2>1 DEF CallFunction, g
      <3>2. c.inter = Top.ctx.inter
        <4>1. p \in Context /\ p.inter = Top.ctx.inter
          BY <1>1 DEF Context
        <4>. HIDE DEF p
        <4>. QED  BY <4>1 DEF CtxAddAlloc, Context
      <3>. HIDE DEF p, c, a
      <3>3. h(b).ctx = c
        BY DEF NewFrame
      <3>. WITNESS h(b)
      <3>. QED  BY <1>5, <3>1, <3>2, <3>3
    <2>2. CASE CallSource
      <3>. DEFINE c == CtxNew(Depth + 1, FALSE)
                  f == NewFrame("source", "idle", c, NoBlock, out)
      <3>1. frames' = Append(g, f)
        BY <2>2 DEF CallSource, g
      <3>2. f.ctx = c
        BY DEF NewFrame
      <3>3. ~c.inter
        BY DEF CtxNew
      <3>. HIDE DEF c, f
      <3>. QED  BY <3>1, <3>2, <3>3
    <2>. QED  BY <2>1, <2>2
  <1>. QED  BY <1>1, <1>2, <1>3, <1>4, <1>6, PushKeeps

\* Frame 2 is that of a command of the top level.
LEMMA ReturnKeeps ==
    ASSUME Kept, Return
    PROVE  InterKept' /\ OutputKept'
  <1>. DEFINE n == Depth - 1
              f == IF frames[n].phase = "call" THEN [frames[n] EXCEPT !.phase = "done"] ELSE frames[n]
  <1>1. /\ frames \in Seq(Frame) /\ Depth \in Nat \ {0} /\ Depth = Len(frames)
        /\ UNCHANGED jump /\ Top.kind # "main"
        /\ frames' = [i \in 1 .. Depth - 1 |->
             IF i = Depth - 1 /\ frames[i].phase = "call"
               THEN [frames[i] EXCEPT !.phase = "done"] ELSE frames[i]]
        /\ out' = IF Top.kind \in Saving THEN Top.saved ELSE out
    <2>1. Top.kind # "main"
      BY DEF Return, MayReturn, Loop
    <2>. QED  BY <2>1, InvFacts DEF Kept, Return
  <1>2. Depth > 1 /\ n \in 1 .. Depth /\ n \in Nat
    <2>1. LocalAt(frames, Depth)
      BY InvFacts DEF Kept
    <2>2. Depth # 1
      BY <1>1, <2>1 DEF LocalAt, Top
    <2>. QED  BY <1>1, <2>2
  <1>3. frames[n] \in Frame
    BY <1>1, <1>2, ElementOfSeq
  <1>4. JumpKept
    BY <1>1, SameJump
  <1>5. Len(frames') = n /\ frames'[n] = f /\ \A i \in 1 .. n - 1 : frames'[i] = frames[i]
    BY <1>1, <1>2
  <1>6. /\ f.ctx = frames[n].ctx /\ f.kind = frames[n].kind /\ f.saved = frames[n].saved
        /\ f.phase = IF frames[n].phase = "call" THEN "done" ELSE frames[n].phase
    BY <1>3 DEF Frame
  <1>. HIDE DEF f
  <1>7. f.ctx.inter => Interactive
    BY <1>2, <1>6 DEF Kept, InterKept
  <1>8. n = 1 /\ f.phase = "resumed" => Interactive
    BY <1>6 DEF Kept, InterKept
  <1>9. n = 1 /\ ~Interactive /\ f.phase \in {"idle", "exec"} =>
          frames[1].phase \in {"idle", "exec"} /\ out' = Terminal
    <2>. SUFFICES ASSUME n = 1, ~Interactive, f.phase \in {"idle", "exec"}
                  PROVE  frames[1].phase \in {"idle", "exec"} /\ out' = Terminal
      OBVIOUS
    <2>1. frames[1].phase \in {"idle", "exec"}
      BY <1>6
    <2>2. frames[2].kind \in Saving /\ frames[2].saved = Terminal /\ Depth = 2
      BY <1>1, <1>2, <2>1 DEF Kept, OutputKept
    <2>. QED  BY <1>1, <2>1, <2>2 DEF Top
  <1>10. n = 1 => f.ctx.inter = Interactive
    BY <1>6 DEF Interactive
  <1>. HIDE DEF n
  <1>. QED  BY <1>2, <1>4, <1>5, <1>6, <1>7, <1>8, <1>9, <1>10, PopKeeps

\* exit, source and a syntax error in a sourced file.
LEMMA JumpValueKept ==
    ASSUME Kept, NEW c, c.inter => Interactive,
           jump' = SourceExit(c) \/ jump' = ExitJump(c, "exit")
    PROVE  JumpKept
  BY DEF SourceExit, ExitJump, JumpKept

LEMMA SourceErrorKeeps ==
    ASSUME Kept, SourceSyntaxError
    PROVE  InterKept' /\ OutputKept'
  <1>. DEFINE n == Depth - 1
  <1>1. /\ frames \in Seq(Frame) /\ Depth \in Nat \ {0} /\ Depth = Len(frames)
        /\ LocalAt(frames, Depth) /\ Top.kind = "source" /\ UNCHANGED out
        /\ frames' = SubSeq(frames, 1, Depth - 1) /\ jump' = SourceExit(Caller.ctx)
    BY InvFacts DEF Kept, SourceSyntaxError
  <1>2. Depth > 1 /\ Caller.kind = "cmd"
    BY <1>1 DEF LocalAt, Top, Caller
  <1>3. n \in 1 .. Depth /\ n \in Nat /\ frames[n] = Caller
    BY <1>1, <1>2 DEF Caller
  <1>4. n > 1
    <2>1. LocalAt(frames, Depth - 1)
      BY <1>2, InvFacts DEF Kept
    <2>2. Depth - 1 # 1
      BY <1>2, <2>1 DEF LocalAt, Caller
    <2>. QED  BY <1>1, <1>2, <2>2
  <1>5. Len(frames') = n /\ \A i \in 1 .. n : frames'[i] = frames[i]
    BY <1>1, <1>2, <1>3, SubSeqProperties
  <1>6. Caller.ctx.inter => Interactive
    BY <1>3 DEF Kept, InterKept
  <1>7. JumpKept
    BY <1>1, <1>6, JumpValueKept
  <1>. HIDE DEF n
  <1>8. frames'[n] = frames[n] /\ \A i \in 1 .. n - 1 : frames'[i] = frames[i]
    BY <1>3, <1>4, <1>5
  <1>. QED  BY <1>3, <1>4, <1>5, <1>6, <1>7, <1>8, PopKeeps

LEMMA LongJumpKeeps ==
    ASSUME Kept, LongJump
    PROVE  InterKept' /\ OutputKept'
  <1>. DEFINE t == jump.target
              f == Landed(t)
  <1>1. /\ Inv /\ frames \in Seq(Frame) /\ Depth \in Nat \ {0} /\ Depth = Len(frames)
        /\ jump.op = "free" /\ jump' = NoJump
        /\ frames' = [i \in 1 .. t |-> IF i = t THEN f ELSE frames[i]]
    BY InvFacts DEF Kept, LongJump
  <1>2. /\ t \in 1 .. Depth /\ jump.value \in {"break", "continue", "exit", "resume"}
        /\ jump.value \in {"break", "continue"} => InBody(frames[t])
    BY <1>1, JumpTarget
  <1>3. Len(frames') = t /\ frames'[t] = f /\ \A i \in 1 .. t - 1 : frames'[i] = frames[i]
    <2>. HIDE DEF t, f
    <2>. QED  BY <1>1, <1>2
  <1>4. frames[t] \in Frame
    BY <1>1, <1>2, ElementOfSeq
  <1>5. /\ f.kind = frames[t].kind /\ f.saved = frames[t].saved
        /\ f.ctx.inter = frames[t].ctx.inter
        /\ f.phase \in {"done", "cond", "iter", "exited", "resumed"}
        /\ f.phase = "resumed" => jump.value = "resume"
    <2>1. CASE jump.value = "break"
      <3>1. LeaveBodySame(t, "done") /\ f = LeaveBody(t, "done")
        BY <1>1, <1>2, <2>1, LeaveBodyKeeps DEF Landed
      <3>. QED  BY <3>1 DEF LeaveBodySame
    <2>2. CASE jump.value = "continue"
      <3>1. LeaveBodySame(t, Again(t)) /\ f = LeaveBody(t, Again(t))
        BY <1>1, <1>2, <2>2, LeaveBodyKeeps DEF Landed
      <3>. QED  BY <3>1 DEF LeaveBodySame, Again
    <2>3. CASE jump.value \in {"exit", "resume"}
      <3>. DEFINE ph == IF frames[t].kind \notin Parser THEN "done"
                        ELSE IF jump.value = "resume" THEN "resumed" ELSE "exited"
      <3>1. f = [frames[t] EXCEPT !.phase = ph]
        BY <2>3 DEF Landed
      <3>2. ph \in {"done", "resumed", "exited"} /\ (ph = "resumed" => jump.value = "resume")
        OBVIOUS
      <3>. HIDE DEF ph, f, t
      <3>. QED  BY <1>4, <3>1, <3>2 DEF Frame
    <2>. QED  BY <1>2, <2>1, <2>2, <2>3
  <1>. HIDE DEF f, t
  <1>6. JumpKept
    BY <1>1 DEF JumpKept, NoJump
  <1>7. f.ctx.inter => Interactive
    BY <1>2, <1>5 DEF Kept, InterKept
  <1>8. f.phase = "resumed" => Interactive
    BY <1>1, <1>5 DEF Kept, InterKept
  <1>9. t = 1 => f.ctx.inter = Interactive
    BY <1>5 DEF Interactive
  <1>. QED  BY <1>2, <1>3, <1>5, <1>6, <1>7, <1>8, <1>9, PopKeeps

LEMMA KeptStep ==
    ASSUME Kept, [Next]_vars
    PROVE  Kept'
  <1>1. Inv'
    BY ContextAssumption, InvStep DEF Kept
  <1>2. CASE UNCHANGED frames /\ UNCHANGED out /\ JumpKept
    <2>1. Depth' = Depth
      BY <1>2 DEF Depth
    <2>. QED  BY <1>1, <1>2, <2>1 DEF Kept, InterKept, OutputKept, Interactive, JumpKept
  <1>3. CASE UNCHANGED vars
    BY <1>2, <1>3, SameJump DEF vars
  <1>4. CASE Exit \/ SourceMissing
    <2>1. Top.ctx.inter => Interactive
      BY InvFacts DEF Kept, InterKept, Top
    <2>2. JumpKept
      BY <1>4, <2>1, JumpValueKept DEF Exit, SourceMissing
    <2>. QED  BY <1>2, <1>4, <2>2 DEF Exit, SourceMissing
  <1>5. CASE \/ \E value \in {"break", "continue"}, n \in StopArg : StopLoop(value, n)
             \/ WalkLoops
    <2>1. CASE WalkLoops
      BY <2>1, <1>2, InvFacts DEF Kept, WalkLoops, Jump, JumpKept
    <2>2. ASSUME NEW value \in {"break", "continue"}, NEW n \in StopArg, StopLoop(value, n)
          PROVE  jump'.op = "walk" /\ UNCHANGED <<frames, out>>
      BY <2>2 DEF StopLoop
    <2>3. CASE \E value \in {"break", "continue"}, n \in StopArg : StopLoop(value, n)
      BY <1>2, <2>2, <2>3 DEF JumpKept
    <2>. QED  BY <1>5, <2>1, <2>3
  <1>6. CASE WalkEnds
    <2>1. jump'.value = jump.value /\ UNCHANGED <<frames, out>> /\ jump.op = "walk"
      BY <1>6, InvFacts DEF Kept, WalkEnds, Jump
    <2>2. jump.value \in {"break", "continue"}
      BY <2>1 DEF Kept, Inv, JumpConsistent
    <2>. QED  BY <1>2, <2>1, <2>2 DEF JumpKept
  <1>7. CASE FreeRegistered
    <2>1. jump'.value = jump.value /\ UNCHANGED <<frames, out>> /\ jump.op = "free"
      BY <1>7, InvFacts DEF Kept, FreeRegistered, Jump
    <2>2. JumpKept
      BY <2>1 DEF Kept, InterKept, JumpKept
    <2>. QED  BY <1>2, <2>1, <2>2
  <1>. QED
    BY <1>1, <1>3, <1>4, <1>5, <1>6, <1>7, ParserKeeps, OpenKeeps, EnterKeeps, CallKeeps,
       ReturnKeeps, SourceErrorKeeps, LongJumpKeeps DEF Kept, Next

\* In a script every command of the top level begins with the output the shell
\* was given, although a jump skips what would have restored it: the frame of
\* the command restores it when it returns, and a jump that does not land in it
\* ends the script (rl_exec_simple_cmd, rl_exec_shell_cmd, parser).
THEOREM ScriptsKeepOutput == Spec => []ScriptOutput
  <1>1. Init => Kept
    <2>. SUFFICES ASSUME Init PROVE Kept
      OBVIOUS
    <2>1. PICK interactive \in BOOLEAN : frames = <<MainFrame(interactive)>>
      BY DEF Init
    <2>2. Depth = 1 /\ frames[1].phase = "idle" /\ out = Terminal /\ jump.op = "none"
      BY <2>1 DEF Init, Depth, MainFrame, NewFrame, NoJump
    <2>. QED  BY <2>2, ContextAssumption, InvInit DEF Kept, InterKept, OutputKept, Interactive
  <1>2. Kept /\ [Next]_vars => Kept'
    BY KeptStep
  <1>3. Kept => ScriptOutput
    BY DEF Kept, OutputKept, ScriptOutput, Interactive, Top
  <1>. QED  BY <1>1, <1>2, <1>3, PTL DEF Spec

=============================================================================
