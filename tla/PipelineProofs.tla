--------------------------- MODULE PipelineProofs ---------------------------
(***************************************************************************)
(* The shape of the shell's stack and the processes of its pipelines, for  *)
(* any number of commands, processes, pipes and descriptors.  Shape says   *)
(* what __piperun and __pipewait know at each of their lines; LastAlive,   *)
(* Ended and Owned tie the nodes of the pipelines to the processes that    *)
(* were forked for them.  A lemma per action shows each of them kept; the  *)
(* theorems stand where their invariant is complete: StatusIsOfLast and    *)
(* NoneOutlives.                                                           *)
(***************************************************************************)
EXTENDS Pipeline, FiniteSetTheorems, WellFoundedInduction, TLAPS

----------------------------------------------------------------------------
(* Values *)

Fd       == 0 .. MaxFd - 1
NoFile   == <<"none", 0>>
Files(n) == {Tty, File} \cup ({"read", "write"} \X (1 .. n))
AnyFile  == {Tty, File, NoFile} \cup ({"read", "write"} \X Nat)
Entry(n) == [file : Files(n) \cup {NoFile}, cloexec : BOOLEAN]
Table(n) == [Fd -> Entry(n)]

Exits   == Code \cup {0, 127}
Status  == Code \cup {0, 1, 127}
NodeSet == [kind : Kind, status : Status, child : Nat, pid : Int]
Process(n) == [state : {"forked", "running", "exited", "reaped"}, left : Nat,
               drains : BOOLEAN, status : Exits, fds : Table(n)]

Phases == {"pipe", "save", "args", "builtin", "restore", "next", "wait"}
ListFrame ==
    [type : {"top", "subst", "group", "subshell", "loop"}, phase : {"run", "read"},
     std : [0 .. 2 -> AnyFile],
     status : Status, reader : Fd \cup {-1}, saved : Fd \cup {-1}, ran : BOOLEAN,
     over : BOOLEAN]
PipelineFrame ==
    [type : {"pipeline"}, phase : Phases, negate : BOOLEAN, cmds : Seq(NodeSet),
     k : Nat, in : Fd, fd : {<<-1, -1>>} \cup (Fd \X Fd), saved : Seq(Fd),
     left : Nat, first : Nat]
Frame == ListFrame \cup PipelineFrame

----------------------------------------------------------------------------
(* The invariant *)

\* What node->pid says of command j of pipeline f, of np processes.
NodeOK(f, j, np) ==
    LET c == f.cmds[j] IN
    /\ c.child <= np /\ c.pid \in {-1, 0, c.child}
    /\ c.pid = 0 => c.kind = "fundec"
    /\ c.child # 0 => (f.phase = "wait" /\ j < f.k) \/ c.pid = c.child
    /\ f.phase # "wait" /\ j > f.k => c.child = 0
    /\ f.phase \in {"pipe", "save", "args", "builtin"} /\ j = f.k => c.child = 0

Inside == {"save", "args", "builtin", "restore"}

SavedOK(f) ==
    /\ f.phase = "save" => Len(f.saved) <= 2
    /\ f.phase \in {"args", "builtin", "restore"} => Len(f.saved) = 3
    /\ f.phase \in {"pipe", "next", "wait"} => f.saved = <<>>

PipelineOK(f, np, nq) ==
    /\ f \in PipelineFrame
    /\ f.k \in 1 .. Len(f.cmds) /\ f.first <= nq
    /\ f.phase \notin {"pipe", "wait"} => f.fd \in Fd \X Fd
    /\ SavedOK(f)
    /\ f.phase \in Inside => f.cmds[f.k].kind # "fundec"
    /\ \A j \in 1 .. Len(f.cmds) : NodeOK(f, j, np)
    /\ \A i, j \in 1 .. Len(f.cmds) :
         f.cmds[i].child = f.cmds[j].child /\ f.cmds[i].child # 0 => i = j

FrameOK(f, np, nq) ==
    IF f.type = "pipeline" THEN PipelineOK(f, np, nq)
    ELSE f \in ListFrame /\ (f.phase = "read" => f.type = "subst")

\* Lists and pipelines alternate; f is waiting for g, the one above it.
Under(f, g) ==
    /\ f.type = "pipeline" <=> g.type # "pipeline"
    /\ f.phase = IF f.type = "pipeline" THEN "args" ELSE "run"

Stacked ==
    /\ stack \in Seq(Frame) /\ Len(stack) \in 1 .. MaxDepth
    /\ \A i \in 1 .. Len(stack) :
         /\ FrameOK(stack[i], Len(procs), Len(pipes))
         /\ stack[i].type = "top" <=> i = 1
         /\ stack[i].type = "pipeline" => i < MaxDepth
         /\ stack[i].type = "subst" => "subst" \in Feature
    /\ \A i \in 1 .. Len(stack) - 1 : Under(stack[i], stack[i + 1])

Typed ==
    /\ fds \in Table(Len(pipes)) /\ procs \in Seq(Process(Len(pipes)))
    /\ pipes \in Seq(0 .. Capacity)
    /\ shell \in {"alive", "aborted", "exited"}
    /\ started \in 0 .. MaxPipelines /\ failed \in BOOLEAN

Shape == Stacked /\ Typed

----------------------------------------------------------------------------
(* Numbers *)

LEMMA LowestIsLeast ==
    ASSUME NEW S, S \subseteq Nat, S # {}
    PROVE  Lowest(S) \in S /\ \A y \in S : Lowest(S) <= y
  <1>1. IsWellFoundedOn(OpToRel(<, Nat), Nat)
    BY NatLessThanWellFounded
  <1>. DEFINE R == OpToRel(<, Nat)
  <1>2. PICK x \in S : \A y \in S : <<y, x>> \notin R
    <2>1. IsWellFoundedOn(R, Nat)
      BY <1>1
    <2>. HIDE DEF R
    <2>. QED  BY <2>1, WFMin
  <1>3. ASSUME NEW y \in S
        PROVE  x <= y
    <2>1. x \in Nat /\ y \in Nat
      OBVIOUS
    <2>2. y < x => <<y, x>> \in R
      BY <2>1 DEF OpToRel
    <2>. HIDE DEF R
    <2>. QED  BY <1>2, <2>1, <2>2
  <1>. QED  BY <1>3 DEF Lowest

LEMMA GreatestExists ==
    ASSUME NEW S, NEW n \in Nat, S \subseteq 0 .. n, S # {}
    PROVE  \E x \in S : \A y \in S : y <= x
  <1>. DEFINE T == {m \in Nat : \E y \in S : m = n - y}
  <1>1. T \subseteq Nat /\ T # {}
    <2>1. PICK y : y \in S
      OBVIOUS
    <2>2. n - y \in T
      BY <2>1
    <2>. QED  BY <2>2
  <1>2. PICK m \in T : \A k \in T : m <= k
    <2>. HIDE DEF T
    <2>. QED  BY <1>1, LowestIsLeast
  <1>3. PICK x \in S : m = n - x
    OBVIOUS
  <1>4. ASSUME NEW y \in S
        PROVE  y <= x
    <2>1. n - y \in T
      OBVIOUS
    <2>2. m <= n - y
      BY <1>2, <2>1
    <2>. QED  BY <1>3, <2>2
  <1>. QED  BY <1>4

----------------------------------------------------------------------------
(* Tables of descriptors *)

LEMMA FdFacts == 0 \in Fd /\ 1 \in Fd /\ 2 \in Fd /\ Fd \subseteq Nat
  BY PipelineAssumption DEF Fd

LEMMA ClosedEntry == ASSUME NEW n PROVE Closed \in Entry(n)
  BY DEF Entry, Closed, NoFile

LEMMA TableGrows ==
    ASSUME NEW n \in Nat, NEW m \in Nat, n <= m
    PROVE  Entry(n) \subseteq Entry(m) /\ Table(n) \subseteq Table(m)
  <1>1. Files(n) \subseteq Files(m)
    BY DEF Files
  <1>2. Entry(n) \subseteq Entry(m)
    BY <1>1 DEF Entry
  <1>3. Table(n) \subseteq Table(m)
    BY <1>2 DEF Table
  <1>. QED  BY <1>2, <1>3

LEMMA PutTable ==
    ASSUME NEW n, NEW t \in Table(n), NEW x, NEW f \in Files(n) \cup {NoFile}, NEW c \in BOOLEAN
    PROVE  Put(t, x, f, c) \in Table(n)
  <1>1. [file |-> f, cloexec |-> c] \in Entry(n)
    BY DEF Entry
  <1>. QED  BY <1>1 DEF Put, Table

LEMMA CloseTable ==
    ASSUME NEW n, NEW t \in Table(n), NEW x
    PROVE  Close(t, x) \in Table(n)
  BY ClosedEntry DEF Close, Table

LEMMA FileOf ==
    ASSUME NEW n, NEW t \in Table(n), NEW x \in Fd
    PROVE  t[x].file \in Files(n) \cup {NoFile} /\ t[x].cloexec \in BOOLEAN
  BY DEF Table, Entry

LEMMA RedirectTable ==
    ASSUME NEW n, NEW t \in Table(n), NEW old \in Fd, NEW new, NEW close \in BOOLEAN
    PROVE  Redirect(t, old, new, close) \in Table(n)
  BY FileOf, PutTable, CloseTable DEF Redirect

LEMMA RestoreTable ==
    ASSUME NEW n, NEW t \in Table(n), NEW saved \in Seq(Fd), Len(saved) = 3
    PROVE  Restore(t, saved) \in Table(n)
  <1>1. saved[1] \in Fd /\ saved[2] \in Fd /\ saved[3] \in Fd
    OBVIOUS
  <1>2. RestoreOne(t, 0, saved[1]) \in Table(n)
    BY <1>1, RedirectTable DEF RestoreOne
  <1>3. RestoreOne(RestoreOne(t, 0, saved[1]), 1, saved[2]) \in Table(n)
    BY <1>1, <1>2, RedirectTable DEF RestoreOne
  <1>. QED  BY <1>1, <1>3, RedirectTable DEF RestoreOne, Restore

LEMMA NoTableTable == ASSUME NEW n PROVE NoTable \in Table(n)
  BY ClosedEntry DEF NoTable, Table, Fd

LEMMA FreeFacts ==
    ASSUME NEW n, NEW t \in Table(n)
    PROVE  /\ Free(t) \subseteq Fd /\ IsFiniteSet(Free(t))
           /\ Free(t) # {} => Lowest(Free(t)) \in Free(t)
           /\ Cardinality(Free(t)) >= 2 =>
                LET r == Lowest(Free(t))
                    w == Lowest(Free(t) \ {r})
                IN r \in Free(t) /\ w \in Free(t) /\ r # w
  <1>1. Free(t) \subseteq Fd /\ Fd \subseteq Nat
    BY FdFacts DEF Free, Table
  <1>2. IsFiniteSet(Free(t))
    <2>1. IsFiniteSet(Fd)
      BY FS_Interval, PipelineAssumption DEF Fd
    <2>. QED  BY <1>1, <2>1, FS_Subset
  <1>3. Free(t) # {} => Lowest(Free(t)) \in Free(t)
    BY <1>1, LowestIsLeast
  <1>4. ASSUME Cardinality(Free(t)) >= 2, NEW r \in Free(t)
        PROVE  Free(t) \ {r} # {}
    <2>1. Cardinality(Free(t) \ {r}) = Cardinality(Free(t)) - 1
      BY <1>2, FS_RemoveElement
    <2>2. Cardinality(Free(t)) \in Nat
      BY <1>2, FS_CardinalityType
    <2>. QED  BY <1>4, <2>1, <2>2, FS_EmptySet
  <1>5. Cardinality(Free(t)) >= 2 => Free(t) # {}
    BY FS_EmptySet
  <1>6. ASSUME NEW r, Free(t) \ {r} # {}
        PROVE  Lowest(Free(t) \ {r}) \in Free(t) \ {r}
    BY <1>1, <1>6, LowestIsLeast
  <1>. QED  BY <1>1, <1>2, <1>3, <1>4, <1>5, <1>6

----------------------------------------------------------------------------
(* The stack *)

\* The frames up to n go on, the last of them as g.
Cut(n, g) ==
    /\ n \in 1 .. Len(stack) /\ Len(stack') = n /\ stack'[n] = g
    /\ \A i \in 1 .. n - 1 : stack'[i] = stack[i]

\* f is put above the frame on top, which becomes g.
Pushed(g, f) ==
    /\ Len(stack') = Len(stack) + 1
    /\ stack'[Len(stack)] = g /\ stack'[Len(stack) + 1] = f
    /\ \A i \in 1 .. Len(stack) - 1 : stack'[i] = stack[i]

LEMMA SetTopCuts ==
    ASSUME stack \in Seq(Frame), Len(stack) # 0, NEW g, SetTop(g)
    PROVE  Cut(Len(stack), g) /\ (g \in Frame => stack' \in Seq(Frame))
  <1>1. stack \in Seq(Frame \cup {g})
    OBVIOUS
  <1>2. stack' \in Seq(Frame \cup {g}) /\ Cut(Len(stack), g)
    BY <1>1 DEF SetTop, Cut
  <1>. QED  BY <1>2 DEF SetTop

LEMMA SubSeqCuts ==
    ASSUME stack \in Seq(Frame), NEW n \in 1 .. Len(stack),
           stack' = SubSeq(stack, 1, n)
    PROVE  Cut(n, stack[n]) /\ stack' \in Seq(Frame)
  BY DEF Cut

LEMMA SubSeqSetCuts ==
    ASSUME stack \in Seq(Frame), NEW n \in 1 .. Len(stack), NEW g,
           stack' = [SubSeq(stack, 1, n) EXCEPT ![n] = g]
    PROVE  Cut(n, g) /\ (g \in Frame => stack' \in Seq(Frame))
  <1>. DEFINE s == SubSeq(stack, 1, n)
  <1>1. s \in Seq(Frame) /\ Len(s) = n /\ \A i \in 1 .. n : s[i] = stack[i]
    OBVIOUS
  <1>. HIDE DEF s
  <1>2. stack' = [s EXCEPT ![n] = g]
    BY DEF s
  <1>3. s \in Seq(Frame \cup {g})
    BY <1>1
  <1>4. Cut(n, g)
    BY <1>1, <1>2, <1>3 DEF Cut
  <1>. QED  BY <1>1, <1>2, <1>4

LEMMA AppendCuts ==
    ASSUME stack \in Seq(Frame), NEW n \in 1 .. Len(stack), NEW g,
           stack' = Append(SubSeq(stack, 1, n - 1), g)
    PROVE  Cut(n, g) /\ (g \in Frame => stack' \in Seq(Frame))
  <1>. DEFINE s == SubSeq(stack, 1, n - 1)
  <1>1. s \in Seq(Frame) /\ Len(s) = n - 1 /\ \A i \in 1 .. n - 1 : s[i] = stack[i]
    OBVIOUS
  <1>. HIDE DEF s
  <1>2. stack' = Append(s, g)
    BY DEF s
  <1>3. s \in Seq(Frame \cup {g})
    BY <1>1
  <1>4. Cut(n, g)
    BY <1>1, <1>2, <1>3 DEF Cut
  <1>. QED  BY <1>1, <1>2, <1>4

LEMMA PushPushes ==
    ASSUME stack \in Seq(Frame), Len(stack) # 0, NEW f, Push(f)
    PROVE  Pushed(Top, f) /\ (f \in Frame => stack' \in Seq(Frame))
  <1>1. stack \in Seq(Frame \cup {f})
    OBVIOUS
  <1>2. Pushed(Top, f)
    BY <1>1 DEF Push, Pushed, Top
  <1>. QED  BY <1>2 DEF Push

LEMMA SetPushPushes ==
    ASSUME stack \in Seq(Frame), Len(stack) # 0, NEW g, NEW f,
           stack' = Append([stack EXCEPT ![Len(stack)] = g], f)
    PROVE  Pushed(g, f) /\ (g \in Frame /\ f \in Frame => stack' \in Seq(Frame))
  <1>. DEFINE s == [stack EXCEPT ![Len(stack)] = g]
  <1>1. s \in Seq(Frame \cup {f, g}) /\ Len(s) = Len(stack) /\ s[Len(stack)] = g
        /\ \A i \in 1 .. Len(stack) - 1 : s[i] = stack[i]
    <2>1. stack \in Seq(Frame \cup {f, g})
      OBVIOUS
    <2>. QED  BY <2>1
  <1>2. g \in Frame => s \in Seq(Frame)
    OBVIOUS
  <1>. HIDE DEF s
  <1>3. stack' = Append(s, f)
    BY DEF s
  <1>. QED  BY <1>1, <1>2, <1>3 DEF Pushed

\* More processes and more pipes are no matter to a frame.
LEMMA FrameOKGrows ==
    ASSUME NEW f, NEW np \in Nat, NEW nq \in Nat, FrameOK(f, np, nq),
           NEW mp \in Nat, NEW mq \in Nat, np <= mp, nq <= mq
    PROVE  FrameOK(f, mp, mq)
  <1>1. CASE f.type = "pipeline"
    <2>1. PipelineOK(f, np, nq)
      BY <1>1 DEF FrameOK
    <2>2. f.first \in Nat /\ f.cmds \in Seq(NodeSet)
      BY <2>1 DEF PipelineOK, PipelineFrame
    <2>3. ASSUME NEW j \in 1 .. Len(f.cmds)
          PROVE  f.cmds[j].child \in Nat
      <3>1. f.cmds[j] \in NodeSet
        BY <2>2
      <3>. QED  BY <3>1 DEF NodeSet
    <2>4. \A j \in 1 .. Len(f.cmds) : NodeOK(f, j, mp)
      BY <2>1, <2>3 DEF PipelineOK, NodeOK
    <2>. QED  BY <1>1, <2>1, <2>2, <2>4 DEF FrameOK, PipelineOK
  <1>2. CASE f.type # "pipeline"
    BY <1>2 DEF FrameOK
  <1>. QED  BY <1>1, <1>2

Grown == Len(procs) <= Len(procs') /\ Len(pipes) <= Len(pipes')

LEMMA Counts ==
    ASSUME Shape
    PROVE  Len(procs) \in Nat /\ Len(pipes) \in Nat
  BY DEF Shape, Typed

LEMMA StackKept ==
    ASSUME Shape, Typed', Grown, UNCHANGED stack
    PROVE  Stacked'
  <1>1. Len(procs) \in Nat /\ Len(pipes) \in Nat /\ Len(procs') \in Nat /\ Len(pipes') \in Nat
    BY DEF Shape, Typed
  <1>2. \A i \in 1 .. Len(stack) : FrameOK(stack[i], Len(procs'), Len(pipes'))
    BY <1>1, FrameOKGrows DEF Shape, Stacked, Grown
  <1>. QED  BY <1>2 DEF Shape, Stacked

LEMMA StackCut ==
    ASSUME Shape, Typed', Grown, NEW n, NEW g, Cut(n, g), stack' \in Seq(Frame),
           g.type = stack[n].type, FrameOK(g, Len(procs'), Len(pipes'))
    PROVE  Stacked'
  <1>1. Len(procs) \in Nat /\ Len(pipes) \in Nat /\ Len(procs') \in Nat /\ Len(pipes') \in Nat
        /\ Len(stack) \in Nat /\ n \in 1 .. Len(stack)
    BY DEF Shape, Typed, Stacked, Cut
  <1>2. ASSUME NEW i \in 1 .. n
        PROVE  /\ FrameOK(stack'[i], Len(procs'), Len(pipes'))
               /\ stack'[i].type = stack[i].type
               /\ i < n => stack'[i].phase = stack[i].phase
    <2>1. CASE i = n
      BY <2>1 DEF Cut
    <2>2. CASE i # n
      <3>1. stack'[i] = stack[i] /\ i \in 1 .. Len(stack)
        BY <1>1, <2>2 DEF Cut
      <3>2. FrameOK(stack[i], Len(procs), Len(pipes))
        BY <3>1 DEF Shape, Stacked
      <3>3. FrameOK(stack[i], Len(procs'), Len(pipes'))
        BY <1>1, <3>2, FrameOKGrows DEF Grown
      <3>. QED  BY <3>1, <3>3
    <2>. QED  BY <2>1, <2>2
  <1>3. Len(stack') = n
    BY DEF Cut
  <1>4. ASSUME NEW i \in 1 .. n
        PROVE  /\ stack'[i].type = "top" <=> i = 1
               /\ stack'[i].type = "pipeline" => i < MaxDepth
               /\ stack'[i].type = "subst" => "subst" \in Feature
    <2>1. i \in 1 .. Len(stack)
      BY <1>1
    <2>. QED  BY <1>2, <2>1 DEF Shape, Stacked
  <1>5. ASSUME NEW i \in 1 .. n - 1
        PROVE  Under(stack'[i], stack'[i + 1])
    <2>1. i \in 1 .. Len(stack) - 1 /\ i \in 1 .. n /\ i + 1 \in 1 .. n /\ i < n
      BY <1>1
    <2>2. Under(stack[i], stack[i + 1])
      BY <2>1 DEF Shape, Stacked
    <2>. QED  BY <1>2, <2>1, <2>2 DEF Under
  <1>6. n \in 1 .. MaxDepth
    BY <1>1, PipelineAssumption DEF Shape, Stacked
  <1>. QED  BY <1>2, <1>3, <1>4, <1>5, <1>6 DEF Stacked

LEMMA StackPushed ==
    ASSUME Shape, Typed', Grown, NEW g, NEW f, Pushed(g, f), stack' \in Seq(Frame),
           g.type = Top.type, FrameOK(g, Len(procs'), Len(pipes')),
           FrameOK(f, Len(procs'), Len(pipes')),
           g.phase = IF g.type = "pipeline" THEN "args" ELSE "run",
           g.type = "pipeline" <=> f.type # "pipeline", f.type # "top",
           f.type = "subst" => "subst" \in Feature,
           Len(stack) + 1 <= MaxDepth, f.type = "pipeline" => Len(stack) + 1 < MaxDepth
    PROVE  Stacked'
  <1>. DEFINE m == Len(stack)
  <1>1. Len(procs) \in Nat /\ Len(pipes) \in Nat /\ Len(procs') \in Nat /\ Len(pipes') \in Nat
        /\ m \in Nat /\ m >= 1 /\ Len(stack') = m + 1 /\ MaxDepth \in Nat
    BY PipelineAssumption DEF Shape, Typed, Stacked, Pushed
  <1>2. ASSUME NEW i \in 1 .. m
        PROVE  /\ FrameOK(stack'[i], Len(procs'), Len(pipes'))
               /\ stack'[i].type = stack[i].type
               /\ i < m => stack'[i].phase = stack[i].phase
    <2>1. CASE i = m
      BY <2>1 DEF Pushed, Top
    <2>2. CASE i # m
      <3>1. stack'[i] = stack[i]
        BY <1>1, <2>2 DEF Pushed
      <3>2. FrameOK(stack[i], Len(procs), Len(pipes))
        BY DEF Shape, Stacked
      <3>3. FrameOK(stack[i], Len(procs'), Len(pipes'))
        BY <1>1, <3>2, FrameOKGrows DEF Grown
      <3>. QED  BY <3>1, <3>3
    <2>. QED  BY <2>1, <2>2
  <1>3. stack'[m] = g /\ stack'[m + 1] = f
    BY DEF Pushed
  <1>. HIDE DEF m
  <1>4. ASSUME NEW i \in 1 .. m + 1
        PROVE  /\ FrameOK(stack'[i], Len(procs'), Len(pipes'))
               /\ stack'[i].type = "top" <=> i = 1
               /\ stack'[i].type = "pipeline" => i < MaxDepth
               /\ stack'[i].type = "subst" => "subst" \in Feature
    <2>1. CASE i = m + 1
      BY <1>1, <1>3, <2>1 DEF m
    <2>2. CASE i \in 1 .. m
      BY <1>2, <2>2 DEF Shape, Stacked, m
    <2>. QED  BY <1>1, <2>1, <2>2
  <1>5. ASSUME NEW i \in 1 .. m
        PROVE  Under(stack'[i], stack'[i + 1])
    <2>1. CASE i = m
      BY <1>3, <2>1 DEF Under
    <2>2. CASE i # m
      <3>1. i \in 1 .. m - 1 /\ i + 1 \in 1 .. m /\ i < m
        BY <1>1, <2>2
      <3>2. Under(stack[i], stack[i + 1])
        BY <3>1 DEF Shape, Stacked, m
      <3>. QED  BY <1>2, <3>1, <3>2 DEF Under
    <2>. QED  BY <2>1, <2>2
  <1>6. Len(stack') \in 1 .. MaxDepth /\ Len(stack') - 1 = m
    BY <1>1 DEF m
  <1>. QED  BY <1>1, <1>4, <1>5, <1>6 DEF Stacked

\* The frame on top, and the one below it.
LEMMA TopFacts ==
    ASSUME Shape
    PROVE  /\ Len(stack) \in Nat /\ Len(stack) \in 1 .. Len(stack) /\ Len(stack) # 0
           /\ Top = stack[Len(stack)] /\ Top \in Frame /\ stack \in Seq(Frame)
           /\ FrameOK(Top, Len(procs), Len(pipes))
           /\ Top.type = "pipeline" => PipelineOK(Top, Len(procs), Len(pipes))
           /\ Top.type # "pipeline" => Top \in ListFrame
           /\ Top.type = "top" <=> Len(stack) = 1
           /\ Top.type = "pipeline" => Len(stack) + 1 <= MaxDepth
           /\ Len(stack) # 1 =>
                /\ Len(stack) - 1 \in 1 .. Len(stack) /\ Len(stack) - 1 # 0
                /\ Under(stack[Len(stack) - 1], Top)
                /\ FrameOK(stack[Len(stack) - 1], Len(procs), Len(pipes))
  <1>. DEFINE m == Len(stack)
  <1>1. m \in Nat /\ m \in 1 .. m /\ m # 0 /\ MaxDepth \in Nat
    BY PipelineAssumption DEF Shape, Stacked
  <1>. HIDE DEF m
  <1>2. m # 1 => m - 1 \in 1 .. m - 1 /\ m - 1 \in 1 .. m /\ m - 1 # 0 /\ m - 1 + 1 = m
    BY <1>1
  <1>3. FrameOK(Top, Len(procs), Len(pipes)) /\ stack \in Seq(Frame)
        /\ (Top.type = "top" <=> m = 1)
    <2>1. m \in 1 .. Len(stack) /\ stack \in Seq(Frame)
      BY <1>1 DEF Shape, Stacked, m
    <2>2. /\ FrameOK(stack[m], Len(procs), Len(pipes))
          /\ stack[m].type = "top" <=> m = 1
      BY <2>1 DEF Shape, Stacked
    <2>. QED  BY <2>1, <2>2 DEF Top, m
  <1>4. Top \in Frame
    BY <1>1, <1>3 DEF Top, m
  <1>5. Top.type = "pipeline" => m + 1 <= MaxDepth
    <2>1. Top.type = "pipeline" => m < MaxDepth
      BY <1>1 DEF Shape, Stacked, Top, m
    <2>. QED  BY <1>1, <2>1
  <1>6. ASSUME m # 1
        PROVE  Under(stack[m - 1], Top) /\ FrameOK(stack[m - 1], Len(procs), Len(pipes))
    <2>1. Under(stack[m - 1], stack[m - 1 + 1])
      BY <1>2, <1>6 DEF Shape, Stacked, m
    <2>2. FrameOK(stack[m - 1], Len(procs), Len(pipes))
      BY <1>2, <1>6 DEF Shape, Stacked, m
    <2>. QED  BY <1>2, <1>6, <2>1, <2>2 DEF Top, m
  <1>. QED  BY <1>1, <1>2, <1>3, <1>4, <1>5, <1>6 DEF FrameOK, Top, m

LEMMA TopStep ==
    ASSUME Shape, Typed', Grown, NEW g, SetTop(g), g.type = Top.type,
           FrameOK(g, Len(procs'), Len(pipes'))
    PROVE  Stacked'
  <1>1. g \in Frame
    BY DEF FrameOK, PipelineOK, Frame
  <1>2. Cut(Len(stack), g) /\ stack' \in Seq(Frame)
    BY <1>1, TopFacts, SetTopCuts
  <1>. QED  BY <1>2, TopFacts, StackCut

----------------------------------------------------------------------------
(* Changes to a pipeline *)

Before(phase) == phase \in {"pipe", "save", "args", "builtin"}

\* The phase goes on: the commands and the one being run are the same.
LEMMA PhaseChange ==
    ASSUME NEW f, NEW np, NEW nq, PipelineOK(f, np, nq),
           NEW g \in PipelineFrame, g.cmds = f.cmds, g.k = f.k, g.first = f.first,
           g.fd = f.fd \/ g.fd \in Fd \X Fd,
           f.phase = "pipe" => g.fd \in Fd \X Fd,
           f.phase # "wait" /\ g.phase # "wait",
           SavedOK(g), g.phase \in Inside => f.cmds[f.k].kind # "fundec",
           Before(g.phase) => Before(f.phase)
    PROVE  PipelineOK(g, np, nq)
  <1>1. ASSUME NEW j \in 1 .. Len(f.cmds)
        PROVE  NodeOK(g, j, np)
    <2>1. NodeOK(f, j, np)
      BY DEF PipelineOK
    <2>. QED  BY <2>1 DEF NodeOK, Before
  <1>2. g.fd \in Fd \X Fd
    BY DEF PipelineOK
  <1>. QED  BY <1>1, <1>2 DEF PipelineOK

LEMMA FieldsOf ==
    ASSUME NEW f \in PipelineFrame
    PROVE  /\ f.type = "pipeline" /\ f.phase \in Phases /\ f.negate \in BOOLEAN
           /\ f.cmds \in Seq(NodeSet) /\ f.k \in Nat /\ f.in \in Fd
           /\ f.saved \in Seq(Fd) /\ f.left \in Nat /\ f.first \in Nat
           /\ f.fd \in {<<-1, -1>>} \cup (Fd \X Fd)
  BY DEF PipelineFrame

LEMMA PipelineAt ==
    ASSUME NEW phase, Shape, InPipeline(phase)
    PROVE  /\ Top \in PipelineFrame /\ PipelineOK(Top, Len(procs), Len(pipes))
           /\ Top.type = "pipeline" /\ Top.phase = phase
           /\ Top.k \in 1 .. Len(Top.cmds) /\ Len(Top.cmds) \in Nat /\ Cmd = Top.cmds[Top.k]
           /\ Cmd \in NodeSet /\ Cmd.status \in Status /\ Cmd.child \in Nat
  <1>1. Top.type = "pipeline" /\ Top.phase = phase /\ PipelineOK(Top, Len(procs), Len(pipes))
    BY TopFacts DEF InPipeline
  <1>2. Top \in PipelineFrame /\ Top.k \in 1 .. Len(Top.cmds)
    BY <1>1 DEF PipelineOK
  <1>3. Top.cmds \in Seq(NodeSet)
    BY <1>2, FieldsOf
  <1>4. Cmd \in NodeSet
    BY <1>2, <1>3 DEF Cmd
  <1>5. Cmd.status \in Status /\ Cmd.child \in Nat
    BY <1>4 DEF NodeSet
  <1>. QED  BY <1>1, <1>2, <1>3, <1>4, <1>5 DEF Cmd

\* A step that changes nothing but the phase of the pipeline on top, and what
\* goes with it.
LEMMA PhaseStep ==
    ASSUME Shape, Typed', Grown, NEW g \in PipelineFrame, SetTop(g), Top.type = "pipeline",
           g.cmds = Top.cmds, g.k = Top.k, g.first = Top.first,
           g.fd = Top.fd \/ g.fd \in Fd \X Fd,
           Top.phase = "pipe" => g.fd \in Fd \X Fd,
           Top.phase # "wait" /\ g.phase # "wait",
           SavedOK(g), g.phase \in Inside => Cmd.kind # "fundec",
           Before(g.phase) => Before(Top.phase)
    PROVE  Stacked'
  <1>1. PipelineOK(Top, Len(procs), Len(pipes))
    BY TopFacts
  <1>2. PipelineOK(g, Len(procs), Len(pipes)) /\ g.type = "pipeline"
    BY <1>1, PhaseChange, FieldsOf DEF Cmd
  <1>3. FrameOK(g, Len(procs), Len(pipes))
    BY <1>2 DEF FrameOK
  <1>4. FrameOK(g, Len(procs'), Len(pipes'))
    <2>1. Len(procs) \in Nat /\ Len(pipes) \in Nat /\ Len(procs') \in Nat /\ Len(pipes') \in Nat
      BY DEF Shape, Typed
    <2>. QED  BY <1>3, <2>1, FrameOKGrows DEF Grown
  <1>. QED  BY <1>2, <1>4, TopStep

----------------------------------------------------------------------------
(* Each action keeps the shape: __piperun *)

LEMMA PipesGrow ==
    ASSUME Shape, pipes' = Append(pipes, 0)
    PROVE  /\ Len(pipes') = Len(pipes) + 1 /\ Len(pipes) \in Nat
           /\ pipes' \in Seq(0 .. Capacity)
           /\ Table(Len(pipes)) \subseteq Table(Len(pipes'))
           /\ procs \in Seq(Process(Len(pipes')))
           /\ Reader(Len(pipes) + 1) \in Files(Len(pipes'))
           /\ Writer(Len(pipes) + 1) \in Files(Len(pipes'))
  <1>1. Len(pipes) \in Nat /\ pipes \in Seq(0 .. Capacity) /\ 0 \in 0 .. Capacity
    BY PipelineAssumption DEF Shape, Typed
  <1>2. Len(pipes') = Len(pipes) + 1 /\ pipes' \in Seq(0 .. Capacity)
    BY <1>1
  <1>3. Table(Len(pipes)) \subseteq Table(Len(pipes'))
    BY <1>1, <1>2, TableGrows
  <1>4. Process(Len(pipes)) \subseteq Process(Len(pipes'))
    BY <1>3 DEF Process
  <1>5. procs \in Seq(Process(Len(pipes')))
    BY <1>4 DEF Shape, Typed
  <1>6. Len(pipes) + 1 \in 1 .. Len(pipes')
    BY <1>1, <1>2
  <1>. QED  BY <1>1, <1>2, <1>3, <1>5, <1>6 DEF Files, Reader, Writer

LEMMA TypedPipe ==
    ASSUME Shape, pipes' = Append(pipes, 0), fds' \in Table(Len(pipes')),
           UNCHANGED <<shell, procs, started>>, failed' \in BOOLEAN
    PROVE  Typed' /\ Grown
  <1>1. Len(procs) \in Nat
    BY DEF Shape, Typed
  <1>2. Len(procs) <= Len(procs') /\ Len(pipes) <= Len(pipes')
    BY <1>1, PipesGrow
  <1>3. procs' \in Seq(Process(Len(pipes')))
    BY PipesGrow
  <1>. QED  BY <1>2, <1>3, PipesGrow DEF Shape, Typed, Grown

LEMMA MakePipeShape == ASSUME Shape, MakePipe PROVE Shape'
  <1>. DEFINE r == Lowest(Free(fds))
              w == Lowest(Free(fds) \ {r})
              p == Len(pipes) + 1
              g == [Top EXCEPT !.fd = <<r, w>>,
                       !.phase = IF Cmd.kind = "fundec" THEN "next" ELSE "save"]
  <1>1. r \in Fd /\ w \in Fd
    BY FreeFacts DEF MakePipe, Shape, Typed
  <1>2. fds' = Put(Put(fds, r, Reader(p), TRUE), w, Writer(p), TRUE) /\ SetTop(g)
        /\ pipes' = Append(pipes, 0) /\ UNCHANGED <<shell, procs, started, failed>>
    BY DEF MakePipe
  <1>. HIDE DEF r, w
  <1>3. fds' \in Table(Len(pipes'))
    <2>1. fds \in Table(Len(pipes'))
      BY <1>2, PipesGrow DEF Shape, Typed
    <2>2. Put(fds, r, Reader(p), TRUE) \in Table(Len(pipes'))
      BY <1>2, <2>1, PipesGrow, PutTable
    <2>. QED  BY <1>2, <2>2, PipesGrow, PutTable
  <1>4. Typed' /\ Grown
    BY <1>2, <1>3, TypedPipe DEF Shape, Typed
  <1>5. Top \in PipelineFrame /\ PipelineOK(Top, Len(procs), Len(pipes)) /\ Top.phase = "pipe"
    BY PipelineAt DEF MakePipe
  <1>6. <<r, w>> \in Fd \X Fd
    BY <1>1
  <1>7. g \in PipelineFrame
    BY <1>5, <1>6 DEF PipelineFrame, Phases
  <1>8. g.cmds = Top.cmds /\ g.k = Top.k /\ g.first = Top.first /\ g.fd = <<r, w>>
        /\ g.saved = Top.saved /\ g.phase = IF Cmd.kind = "fundec" THEN "next" ELSE "save"
    BY <1>5 DEF PipelineFrame
  <1>9. g.saved = <<>> /\ Len(g.saved) = 0
    BY <1>5, <1>8 DEF PipelineOK, SavedOK
  <1>. HIDE DEF g
  <1>10. SavedOK(g)
    BY <1>8, <1>9 DEF SavedOK
  <1>11. Stacked'
    BY <1>2, <1>4, <1>5, <1>6, <1>7, <1>8, <1>10, PhaseStep, FieldsOf DEF Before, Inside
  <1>. QED  BY <1>4, <1>11 DEF Shape

LEMMA TypedKept ==
    ASSUME Shape, UNCHANGED <<shell, fds, procs, pipes, started>>, failed' \in BOOLEAN
    PROVE  Typed' /\ Grown
  <1>1. Len(procs) \in Nat /\ Len(pipes) \in Nat
    BY DEF Shape, Typed
  <1>. QED  BY <1>1 DEF Shape, Typed, Grown

LEMMA TypedFds ==
    ASSUME Shape, UNCHANGED <<shell, procs, pipes, started, failed>>, fds' \in Table(Len(pipes))
    PROVE  Typed' /\ Grown
  <1>1. Len(procs) \in Nat /\ Len(pipes) \in Nat
    BY DEF Shape, Typed
  <1>. QED  BY <1>1 DEF Shape, Typed, Grown

\* The pipeline on top goes on, or back, to command k in a phase in which nothing
\* is held.
LEMMA CommandStep ==
    ASSUME Shape, Typed', Grown, Top.type = "pipeline", Top.phase # "wait",
           NEW g \in PipelineFrame, SetTop(g), g.cmds = Top.cmds, g.first = Top.first,
           \/ g.phase = "wait" /\ g.k = 1
           \/ g.phase = "pipe" /\ g.k = Top.k + 1 /\ Top.k < Len(Top.cmds),
           g.saved = <<>>
    PROVE  Stacked'
  <1>1. PipelineOK(Top, Len(procs), Len(pipes)) /\ g.type = "pipeline"
    BY TopFacts, FieldsOf
  <1>2. Top.k \in 1 .. Len(Top.cmds) /\ Len(Top.cmds) \in Nat
    BY <1>1, FieldsOf DEF PipelineOK
  <1>3. g.k \in 1 .. Len(g.cmds)
    BY <1>2
  <1>4. ASSUME NEW j \in 1 .. Len(Top.cmds)
        PROVE  NodeOK(g, j, Len(procs))
    <2>1. NodeOK(Top, j, Len(procs))
      BY <1>1 DEF PipelineOK
    <2>2. CASE g.phase = "wait" /\ g.k = 1
      BY <1>2, <2>1, <2>2 DEF NodeOK
    <2>3. CASE g.phase = "pipe" /\ g.k = Top.k + 1
      BY <1>2, <2>1, <2>3 DEF NodeOK
    <2>. QED  BY <2>2, <2>3
  <1>5. SavedOK(g)
    BY DEF SavedOK
  <1>6. g.phase \notin Inside
    BY DEF Inside
  <1>7. PipelineOK(g, Len(procs), Len(pipes))
    BY <1>1, <1>3, <1>4, <1>5, <1>6 DEF PipelineOK
  <1>8. FrameOK(g, Len(procs'), Len(pipes'))
    <2>1. Len(procs) \in Nat /\ Len(pipes) \in Nat /\ Len(procs') \in Nat /\ Len(pipes') \in Nat
      BY DEF Shape, Typed
    <2>. QED  BY <1>1, <1>7, <2>1, FrameOKGrows DEF Grown, FrameOK
  <1>. QED  BY <1>1, <1>8, TopStep

LEMMA PipeFailsShape == ASSUME Shape, PipeFails PROVE Shape'
  <1>. DEFINE g == [Top EXCEPT !.phase = "wait", !.k = 1]
  <1>1. Typed' /\ Grown
    BY TypedKept DEF PipeFails
  <1>2. Top \in PipelineFrame /\ PipelineOK(Top, Len(procs), Len(pipes)) /\ Top.phase = "pipe"
        /\ Top.type = "pipeline"
    BY PipelineAt DEF PipeFails
  <1>3. g \in PipelineFrame
    BY <1>2 DEF PipelineFrame, Phases
  <1>4. g.cmds = Top.cmds /\ g.k = 1 /\ g.first = Top.first /\ g.saved = Top.saved /\ g.phase = "wait"
    BY <1>2 DEF PipelineFrame
  <1>5. g.saved = <<>>
    BY <1>2, <1>4 DEF PipelineOK, SavedOK
  <1>6. SetTop(g)
    BY DEF PipeFails
  <1>. HIDE DEF g
  <1>. QED  BY <1>1, <1>2, <1>3, <1>4, <1>5, <1>6, CommandStep DEF Shape

LEMMA NextCommandShape == ASSUME Shape, NextCommand PROVE Shape'
  <1>. DEFINE on   == [Top EXCEPT !.in = Top.fd[1], !.k = @ + 1, !.phase = "pipe"]
              last == [Top EXCEPT !.k = 1, !.phase = "wait"]
  <1>1. Typed' /\ Grown
    <2>1. fds' \in Table(Len(pipes))
      BY CloseTable DEF NextCommand, Shape, Typed
    <2>. QED  BY <2>1, TypedFds DEF NextCommand
  <1>2. Top \in PipelineFrame /\ PipelineOK(Top, Len(procs), Len(pipes)) /\ Top.phase = "next"
        /\ Top.type = "pipeline"
    BY PipelineAt DEF NextCommand
  <1>3. Top.fd \in Fd \X Fd /\ Top.saved = <<>>
    BY <1>2 DEF PipelineOK, SavedOK
  <1>4. Top.fd[1] \in Fd
    BY <1>3
  <1>5. CASE Top.k < Len(Top.cmds)
    <2>1. on \in PipelineFrame
      <3>. DEFINE x == Top.fd[1]
                  y == Top.k + 1
      <3>1. x \in Fd /\ y \in Nat
        BY <1>2, <1>4, FieldsOf
      <3>2. on = [Top EXCEPT !.in = x, !.k = y, !.phase = "pipe"]
        OBVIOUS
      <3>. HIDE DEF x, y
      <3>3. [Top EXCEPT !.in = x, !.k = y, !.phase = "pipe"] \in PipelineFrame
        BY <1>2, <3>1 DEF PipelineFrame, Phases
      <3>. QED  BY <3>2, <3>3
    <2>2. on.cmds = Top.cmds /\ on.k = Top.k + 1 /\ on.first = Top.first /\ on.saved = Top.saved
          /\ on.phase = "pipe"
      BY <1>2 DEF PipelineFrame
    <2>3. SetTop(on)
      BY <1>5 DEF NextCommand
    <2>. HIDE DEF on
    <2>. QED  BY <1>1, <1>2, <1>3, <1>5, <2>1, <2>2, <2>3, CommandStep DEF Shape
  <1>6. CASE ~(Top.k < Len(Top.cmds))
    <2>1. last \in PipelineFrame
      BY <1>2 DEF PipelineFrame, Phases
    <2>2. last.cmds = Top.cmds /\ last.k = 1 /\ last.first = Top.first /\ last.saved = Top.saved
          /\ last.phase = "wait"
      BY <1>2 DEF PipelineFrame
    <2>3. SetTop(last)
      BY <1>6 DEF NextCommand
    <2>. HIDE DEF last
    <2>. QED  BY <1>1, <1>2, <1>3, <2>1, <2>2, <2>3, CommandStep DEF Shape
  <1>. QED  BY <1>5, <1>6

\* What SaveDescriptor puts on i.
Target(f, i) ==
    IF i = 0 THEN f.in ELSE IF i = 1 /\ f.k < Len(f.cmds) THEN f.fd[2] ELSE i

LEMMA SaveDescriptorShape == ASSUME Shape, SaveDescriptor PROVE Shape'
  <1>. DEFINE i  == Len(Top.saved)
              n  == Lowest(Free(fds))
              to == Target(Top, i)
              g  == [Top EXCEPT !.saved = Append(@, n),
                                !.phase = IF i = 2 THEN "args" ELSE "save"]
  <1>1. Top \in PipelineFrame /\ PipelineOK(Top, Len(procs), Len(pipes)) /\ Top.phase = "save"
        /\ Top.type = "pipeline"
    BY PipelineAt DEF SaveDescriptor
  <1>2. Top.saved \in Seq(Fd) /\ i \in 0 .. 2 /\ Top.fd \in Fd \X Fd
    <2>1. Top.saved \in Seq(Fd) /\ Top.fd \in Fd \X Fd
      BY <1>1, FieldsOf DEF PipelineOK
    <2>2. i <= 2 /\ i \in Nat
      BY <1>1, <2>1 DEF PipelineOK, SavedOK
    <2>. HIDE DEF i
    <2>3. i \in 0 .. 2
      BY <2>2
    <2>. QED  BY <2>1, <2>3
  <1>3. n \in Fd /\ fds \in Table(Len(pipes))
    BY FreeFacts DEF SaveDescriptor, Shape, Typed
  <1>4. to \in Fd
    <2>1. Top.in \in Fd /\ Top.fd[2] \in Fd
      BY <1>1, <1>2, FieldsOf
    <2>2. i \in Fd
      <3>1. i = 0 \/ i = 1 \/ i = 2
        BY <1>2
      <3>. QED  BY <3>1, FdFacts
    <2>. QED  BY <2>1, <2>2 DEF Target
  <1>5. fds' = Redirect(Put(fds, n, fds[i].file, TRUE), to, i, i = 0) /\ SetTop(g)
        /\ UNCHANGED <<shell, procs, pipes, started, failed>>
    BY DEF SaveDescriptor, Target
  <1>. HIDE DEF n, to
  <1>6. Typed' /\ Grown
    <2>1. i \in Fd
      <3>1. i = 0 \/ i = 1 \/ i = 2
        BY <1>2
      <3>. QED  BY <3>1, FdFacts
    <2>2. Put(fds, n, fds[i].file, TRUE) \in Table(Len(pipes))
      BY <1>3, <2>1, FileOf, PutTable
    <2>3. fds' \in Table(Len(pipes))
      BY <1>4, <1>5, <2>2, RedirectTable
    <2>. QED  BY <1>5, <2>3, TypedFds
  <1>7. g \in PipelineFrame
    <2>1. Append(Top.saved, n) \in Seq(Fd)
      BY <1>2, <1>3
    <2>. QED  BY <1>1, <2>1 DEF PipelineFrame, Phases
  <1>8. g.cmds = Top.cmds /\ g.k = Top.k /\ g.first = Top.first /\ g.fd = Top.fd
        /\ g.saved = Append(Top.saved, n) /\ g.phase = IF i = 2 THEN "args" ELSE "save"
    BY <1>1 DEF PipelineFrame
  <1>9. Len(g.saved) = i + 1
    BY <1>2, <1>3, <1>8
  <1>. HIDE DEF g
  <1>10. SavedOK(g)
    BY <1>2, <1>8, <1>9 DEF SavedOK
  <1>11. Cmd.kind # "fundec"
    BY <1>1 DEF PipelineOK, Inside, Cmd
  <1>12. Stacked'
    BY <1>1, <1>2, <1>5, <1>6, <1>7, <1>8, <1>10, <1>11, PhaseStep DEF Before
  <1>. QED  BY <1>6, <1>12 DEF Shape

LEMMA ToNext ==
    ASSUME NEW f \in PipelineFrame
    PROVE  LET g == [f EXCEPT !.phase = "next", !.saved = <<>>] IN
           /\ g \in PipelineFrame
           /\ g.cmds = f.cmds /\ g.k = f.k /\ g.first = f.first /\ g.fd = f.fd
           /\ g.saved = <<>> /\ g.phase = "next"
  <1>. DEFINE e == <<>>
  <1>1. e \in Seq(Fd)
    OBVIOUS
  <1>. HIDE DEF e
  <1>2. [f EXCEPT !.phase = "next", !.saved = e] \in PipelineFrame
    BY <1>1 DEF PipelineFrame, Phases
  <1>. QED  BY <1>2 DEF PipelineFrame, e

LEMMA SeqSet ==
    ASSUME NEW S, NEW s \in Seq(S), NEW k \in 1 .. Len(s), NEW c \in S
    PROVE  LET t == [s EXCEPT ![k] = c] IN
           /\ t \in Seq(S) /\ Len(t) = Len(s) /\ t[k] = c
           /\ \A j \in 1 .. Len(s) : j # k => t[j] = s[j]
  OBVIOUS

LEMMA SaveFailsShape == ASSUME Shape, SaveFails PROVE Shape'
  <1>. DEFINE g == [Top EXCEPT !.phase = "next", !.saved = <<>>]
  <1>1. Typed' /\ Grown
    BY TypedKept DEF SaveFails
  <1>2. Top \in PipelineFrame /\ Top.phase = "save" /\ Top.type = "pipeline"
    BY PipelineAt DEF SaveFails
  <1>3. g \in PipelineFrame
    BY <1>2, ToNext
  <1>4. g.cmds = Top.cmds /\ g.k = Top.k /\ g.first = Top.first /\ g.fd = Top.fd
        /\ g.saved = <<>> /\ g.phase = "next"
    BY <1>2, ToNext
  <1>5. SetTop(g)
    BY DEF SaveFails
  <1>. HIDE DEF g
  <1>. QED  BY <1>1, <1>2, <1>3, <1>4, <1>5, PhaseStep DEF Shape, Before, Inside, SavedOK

LEMMA RestoreDescriptorsShape == ASSUME Shape, RestoreDescriptors PROVE Shape'
  <1>. DEFINE g == [Top EXCEPT !.phase = "next", !.saved = <<>>]
  <1>1. Top \in PipelineFrame /\ Top.phase = "restore" /\ Top.type = "pipeline"
        /\ PipelineOK(Top, Len(procs), Len(pipes))
    BY PipelineAt DEF RestoreDescriptors
  <1>2. Top.saved \in Seq(Fd) /\ Len(Top.saved) = 3
    BY <1>1, FieldsOf DEF PipelineOK, SavedOK
  <1>3. Typed' /\ Grown
    <2>1. fds' \in Table(Len(pipes))
      BY <1>2, RestoreTable DEF RestoreDescriptors, Shape, Typed
    <2>. QED  BY <2>1, TypedFds DEF RestoreDescriptors
  <1>4. g \in PipelineFrame
    BY <1>1, ToNext
  <1>5. g.cmds = Top.cmds /\ g.k = Top.k /\ g.first = Top.first /\ g.fd = Top.fd
        /\ g.saved = <<>> /\ g.phase = "next"
    BY <1>1, ToNext
  <1>6. SetTop(g)
    BY DEF RestoreDescriptors
  <1>. HIDE DEF g
  <1>. QED  BY <1>1, <1>3, <1>4, <1>5, <1>6, PhaseStep DEF Shape, Before, Inside, SavedOK

----------------------------------------------------------------------------
(* Running a command *)

LEMMA RedirectionShape ==
    ASSUME Shape, InputRedirection \/ OutputRedirection \/ RedirectionAborts PROVE Shape'
  <1>1. UNCHANGED <<stack, procs, pipes, started, failed>>
    BY DEF InputRedirection, OutputRedirection, RedirectionAborts
  <1>2. fds' \in Table(Len(pipes)) /\ shell' \in {"alive", "aborted", "exited"}
    <2>1. CASE InputRedirection \/ OutputRedirection
      <3>1. Lowest(Free(fds)) \in Fd /\ fds \in Table(Len(pipes))
        BY <2>1, FreeFacts DEF InputRedirection, OutputRedirection, Shape, Typed
      <3>2. Put(fds, Lowest(Free(fds)), File, FALSE) \in Table(Len(pipes))
        BY <3>1, PutTable DEF Files
      <3>3. fds' \in Table(Len(pipes))
        BY <2>1, <3>1, <3>2, RedirectTable DEF InputRedirection, OutputRedirection
      <3>. QED  BY <2>1, <3>3 DEF InputRedirection, OutputRedirection, Shape, Typed
    <2>2. CASE RedirectionAborts
      BY <2>2, NoTableTable DEF RedirectionAborts
    <2>. QED  BY <2>1, <2>2
  <1>3. Len(procs) \in Nat /\ Len(pipes) \in Nat
    BY DEF Shape, Typed
  <1>4. Typed' /\ Grown
    BY <1>1, <1>2, <1>3 DEF Shape, Typed, Grown
  <1>. QED  BY <1>1, <1>4, StackKept DEF Shape

\* The command being run is given a status, or a process, the latest one.
LEMMA CmdChange ==
    ASSUME NEW f, NEW np \in Nat, NEW nq, PipelineOK(f, np, nq), f.phase = "args",
           NEW c \in NodeSet, c.kind = f.cmds[f.k].kind,
           NEW g \in PipelineFrame, g.cmds = [f.cmds EXCEPT ![f.k] = c], g.k = f.k,
           g.first = f.first, g.fd = f.fd, g.saved = f.saved,
           g.phase \in {"builtin", "restore"}, NEW mp \in Nat,
           \/ c.child = 0 /\ c.pid = f.cmds[f.k].pid /\ mp = np
           \/ c.child = np + 1 /\ c.pid = np + 1 /\ mp = np + 1 /\ g.phase = "restore"
    PROVE  PipelineOK(g, mp, nq)
  <1>1. f.cmds \in Seq(NodeSet) /\ f.k \in 1 .. Len(f.cmds) /\ Len(f.cmds) \in Nat
    BY FieldsOf DEF PipelineOK
  <1>2. /\ Len(g.cmds) = Len(f.cmds) /\ g.cmds[f.k] = c
        /\ \A j \in 1 .. Len(f.cmds) : j # f.k => g.cmds[j] = f.cmds[j]
    BY <1>1
  <1>3. \A j \in 1 .. Len(f.cmds) : NodeOK(f, j, np) /\ f.cmds[j].child \in Nat /\ f.cmds[j].child <= np
    <2>1. \A j \in 1 .. Len(f.cmds) : f.cmds[j] \in NodeSet
      BY <1>1
    <2>. QED  BY <2>1 DEF PipelineOK, NodeOK, NodeSet
  <1>4. ASSUME NEW j \in 1 .. Len(f.cmds)
        PROVE  NodeOK(g, j, mp)
    <2>1. NodeOK(f, j, np) /\ j \in Nat /\ f.k \in Nat
      BY <1>1, <1>3
    <2>2. CASE j = f.k
      BY <1>2, <2>1, <2>2 DEF NodeOK
    <2>3. CASE j # f.k
      <3>1. g.cmds[j] = f.cmds[j] /\ f.cmds[j].child <= mp
        BY <1>2, <1>3, <2>3
      <3>. QED  BY <2>1, <2>3, <3>1 DEF NodeOK
    <2>. QED  BY <2>2, <2>3
  <1>5. ASSUME NEW i \in 1 .. Len(f.cmds), NEW j \in 1 .. Len(f.cmds),
               g.cmds[i].child = g.cmds[j].child, g.cmds[i].child # 0
        PROVE  i = j
    <2>1. CASE i # f.k /\ j # f.k
      BY <1>2, <1>5, <2>1 DEF PipelineOK
    <2>2. CASE i = f.k \/ j = f.k
      BY <1>2, <1>3, <1>5, <2>2
    <2>. QED  BY <2>1, <2>2
  <1>6. SavedOK(g) /\ g.fd \in Fd \X Fd /\ g.first <= nq
    <2>1. SavedOK(f) /\ f.fd \in Fd \X Fd /\ f.first <= nq
      BY DEF PipelineOK
    <2>. QED  BY <2>1 DEF SavedOK
  <1>7. g.cmds[g.k].kind # "fundec"
    BY <1>2 DEF PipelineOK, Inside
  <1>. QED  BY <1>1, <1>2, <1>4, <1>5, <1>6, <1>7 DEF PipelineOK

LEMMA StatusNode ==
    ASSUME NEW c \in NodeSet, NEW status \in Status
    PROVE  LET d == [c EXCEPT !.status = status] IN
           d \in NodeSet /\ d.kind = c.kind /\ d.child = c.child /\ d.pid = c.pid
           /\ d.status = status
  BY DEF NodeSet

LEMMA BuiltinShape ==
    ASSUME Shape, NEW left \in 0 .. MaxBuiltin, NEW status \in Code, Builtin(left, status)
    PROVE  Shape'
  <1>. DEFINE c == [Cmd EXCEPT !.status = status]
              cmds == [Top.cmds EXCEPT ![Top.k] = c]
              g == [Top EXCEPT !.phase = "builtin", !.left = left, !.cmds = cmds]
  <1>1. Typed' /\ Grown
    BY TypedKept DEF Builtin, Shape, Typed
  <1>2. Top \in PipelineFrame /\ Top.phase = "args" /\ Top.type = "pipeline"
        /\ PipelineOK(Top, Len(procs), Len(pipes)) /\ Cmd \in NodeSet
        /\ Top.k \in 1 .. Len(Top.cmds) /\ Cmd = Top.cmds[Top.k]
    BY PipelineAt DEF Builtin
  <1>3. c \in NodeSet /\ c.kind = Cmd.kind /\ c.child = Cmd.child /\ c.pid = Cmd.pid
    BY <1>2, StatusNode DEF Status
  <1>4. left \in Nat
    BY PipelineAssumption
  <1>5. Top.cmds \in Seq(NodeSet)
    BY <1>2, FieldsOf
  <1>6. SetTop(g)
    <2>1. [Top EXCEPT !.phase = "builtin", !.left = left, !.cmds[Top.k].status = status] = g
      BY <1>2 DEF PipelineFrame
    <2>. QED  BY <2>1 DEF Builtin
  <1>. HIDE DEF c
  <1>7. cmds \in Seq(NodeSet)
    BY <1>2, <1>3, <1>5, SeqSet
  <1>. HIDE DEF cmds
  <1>8. g \in PipelineFrame
    BY <1>2, <1>4, <1>7 DEF PipelineFrame, Phases
  <1>9. g.cmds = cmds /\ g.k = Top.k /\ g.first = Top.first /\ g.fd = Top.fd
        /\ g.saved = Top.saved /\ g.phase = "builtin" /\ g.type = "pipeline"
    BY <1>2 DEF PipelineFrame
  <1>. HIDE DEF g
  <1>10. Cmd.child = 0
    BY <1>2 DEF PipelineOK, NodeOK
  <1>11. PipelineOK(g, Len(procs), Len(pipes))
    BY <1>2, <1>3, <1>8, <1>9, <1>10, CmdChange, Counts DEF cmds
  <1>12. UNCHANGED <<procs, pipes>>
    BY DEF Builtin
  <1>. QED  BY <1>1, <1>2, <1>6, <1>9, <1>11, <1>12, TopStep DEF Shape, FrameOK

LEMMA WrittenTyped ==
    ASSUME Shape, NEW f \in Files(Len(pipes)) \cup {NoFile}, CanWrite(f)
    PROVE  Written(f) \in Seq(0 .. Capacity) /\ Len(Written(f)) = Len(pipes)
  <1>1. pipes \in Seq(0 .. Capacity) /\ Capacity \in Nat
    BY PipelineAssumption DEF Shape, Typed
  <1>2. CASE f[1] = "write"
    <2>1. f[2] \in 1 .. Len(pipes)
      BY <1>2 DEF Files, Tty, File, NoFile
    <2>2. pipes[f[2]] < Capacity
      BY <1>2 DEF CanWrite
    <2>3. pipes[f[2]] + 1 \in 0 .. Capacity
      BY <1>1, <2>1, <2>2
    <2>. QED  BY <1>1, <1>2, <2>1, <2>3 DEF Written
  <1>3. CASE f[1] # "write"
    BY <1>1, <1>3 DEF Written
  <1>. QED  BY <1>2, <1>3

LEMMA TypedBytes ==
    ASSUME Shape, UNCHANGED <<shell, fds, started, failed>>,
           procs' \in Seq(Process(Len(pipes))), Len(procs') = Len(procs),
           pipes' \in Seq(0 .. Capacity), Len(pipes') = Len(pipes)
    PROVE  Typed' /\ Grown
  BY Counts DEF Shape, Typed, Grown

LEMMA BuiltinWritesShape == ASSUME Shape, BuiltinWrites PROVE Shape'
  <1>. DEFINE g == [Top EXCEPT !.left = @ - 1]
  <1>1. fds[1].file \in Files(Len(pipes)) \cup {NoFile}
    BY FileOf, FdFacts DEF Shape, Typed
  <1>2. Typed' /\ Grown
    BY <1>1, WrittenTyped, TypedBytes DEF BuiltinWrites, Shape, Typed
  <1>3. Top \in PipelineFrame /\ Top.phase = "builtin" /\ Top.type = "pipeline"
        /\ PipelineOK(Top, Len(procs), Len(pipes)) /\ Top.left \in Nat /\ Top.left > 0
    BY PipelineAt, FieldsOf DEF BuiltinWrites
  <1>4. g \in PipelineFrame
    <2>. DEFINE x == Top.left - 1
    <2>1. x \in Nat
      BY <1>3
    <2>. HIDE DEF x
    <2>2. [Top EXCEPT !.left = x] \in PipelineFrame
      BY <1>3, <2>1 DEF PipelineFrame
    <2>. QED  BY <1>3, <2>2 DEF PipelineFrame, x
  <1>5. g.cmds = Top.cmds /\ g.k = Top.k /\ g.first = Top.first /\ g.fd = Top.fd
        /\ g.saved = Top.saved /\ g.phase = Top.phase
    BY <1>3 DEF PipelineFrame
  <1>6. SetTop(g)
    BY DEF BuiltinWrites
  <1>. HIDE DEF g
  <1>7. SavedOK(g) /\ Cmd.kind # "fundec"
    BY <1>3, <1>5 DEF PipelineOK, SavedOK, Inside, Cmd
  <1>. QED  BY <1>2, <1>3, <1>4, <1>5, <1>6, <1>7, PhaseStep DEF Shape, Before

LEMMA BuiltinReturnsShape == ASSUME Shape, BuiltinReturns PROVE Shape'
  <1>. DEFINE g == [Top EXCEPT !.phase = "restore"]
  <1>1. Typed' /\ Grown
    BY TypedKept DEF BuiltinReturns, Shape, Typed
  <1>2. Top \in PipelineFrame /\ Top.phase = "builtin" /\ Top.type = "pipeline"
        /\ PipelineOK(Top, Len(procs), Len(pipes))
    BY PipelineAt DEF BuiltinReturns
  <1>3. g \in PipelineFrame
    BY <1>2 DEF PipelineFrame, Phases
  <1>4. g.cmds = Top.cmds /\ g.k = Top.k /\ g.first = Top.first /\ g.fd = Top.fd
        /\ g.saved = Top.saved /\ g.phase = "restore"
    BY <1>2 DEF PipelineFrame
  <1>5. SetTop(g)
    BY DEF BuiltinReturns
  <1>. HIDE DEF g
  <1>6. SavedOK(g) /\ Cmd.kind # "fundec"
    BY <1>2, <1>4 DEF PipelineOK, SavedOK, Inside, Cmd
  <1>. QED  BY <1>1, <1>2, <1>3, <1>4, <1>5, <1>6, PhaseStep DEF Shape, Before

LEMMA ForkedAs ==
    ASSUME NEW d \in NodeSet, NEW n \in Nat
    PROVE  LET c == [d EXCEPT !.pid = n, !.child = n] IN
           /\ c \in NodeSet /\ c.kind = d.kind /\ c.child = n /\ c.pid = n
           /\ c.status = d.status
  <1>. DEFINE e == [d EXCEPT !.pid = n]
  <1>1. e \in NodeSet
    <2>1. n \in Int
      OBVIOUS
    <2>. QED  BY <2>1 DEF NodeSet
  <1>. HIDE DEF e
  <1>2. [e EXCEPT !.child = n] \in NodeSet
    BY <1>1 DEF NodeSet
  <1>. QED  BY <1>2 DEF NodeSet, e

LEMMA ForkedNode ==
    ASSUME NEW s \in Seq(NodeSet), NEW k \in 1 .. Len(s), NEW n \in Nat
    PROVE  [s EXCEPT ![k].pid = n, ![k].child = n] =
           [s EXCEPT ![k] = [s[k] EXCEPT !.pid = n, !.child = n]]
  <1>. DEFINE c == [s[k] EXCEPT !.pid = n, !.child = n]
              t == [s EXCEPT ![k].pid = n]
  <1>1. t = [s EXCEPT ![k] = [s[k] EXCEPT !.pid = n]]
    OBVIOUS
  <1>2. [s EXCEPT ![k].pid = n, ![k].child = n] = [t EXCEPT ![k].child = n]
    OBVIOUS
  <1>3. [t EXCEPT ![k].child = n] = [t EXCEPT ![k] = [t[k] EXCEPT !.child = n]]
    OBVIOUS
  <1>4. t[k] = [s[k] EXCEPT !.pid = n]
    OBVIOUS
  <1>5. [[s[k] EXCEPT !.pid = n] EXCEPT !.child = n] = c
    OBVIOUS
  <1>6. [t EXCEPT ![k] = c] = [s EXCEPT ![k] = c]
    OBVIOUS
  <1>. QED  BY <1>1, <1>2, <1>3, <1>4, <1>5, <1>6

LEMMA ForkedIn ==
    ASSUME NEW s \in Seq(NodeSet), NEW k \in 1 .. Len(s), NEW n \in Nat,
           NEW t, t = [s EXCEPT ![k].pid = n, ![k].child = n]
    PROVE  /\ Len(t) = Len(s) /\ t[k].child = n
           /\ \A j \in 1 .. Len(s) : j # k => t[j] = s[j]
  <1>. DEFINE c == [s[k] EXCEPT !.pid = n, !.child = n]
  <1>1. c \in NodeSet /\ c.child = n
    <2>1. s[k] \in NodeSet
      OBVIOUS
    <2>. QED  BY <2>1, ForkedAs
  <1>2. [s EXCEPT ![k].pid = n, ![k].child = n] = [s EXCEPT ![k] = c]
    BY ForkedNode
  <1>3. t = [s EXCEPT ![k] = c]
    BY <1>2
  <1>. HIDE DEF c
  <1>. QED  BY <1>1, <1>3, SeqSet

LEMMA ForkShape == ASSUME Shape, Fork PROVE Shape'
  <1>. DEFINE n == Len(procs) + 1
              r == [state |-> "forked", left |-> 0, drains |-> FALSE, status |-> 0, fds |-> fds]
              c == [Cmd EXCEPT !.pid = n, !.child = n]
              cmds == [Top.cmds EXCEPT ![Top.k] = c]
              g == [Top EXCEPT !.phase = "restore", !.cmds = cmds]
  <1>1. n \in Nat /\ procs \in Seq(Process(Len(pipes))) /\ Len(pipes) \in Nat /\ Len(procs) \in Nat
    BY Counts DEF Shape, Typed
  <1>2. r \in Process(Len(pipes))
    BY DEF Shape, Typed, Process, Exits
  <1>3. procs' = Append(procs, r) /\ UNCHANGED <<shell, fds, pipes, started, failed>>
    BY DEF Fork
  <1>. HIDE DEF r
  <1>4. Typed' /\ Grown /\ Len(procs') = n
    BY <1>1, <1>2, <1>3 DEF Shape, Typed, Grown
  <1>5. Top \in PipelineFrame /\ Top.phase = "args" /\ Top.type = "pipeline"
        /\ PipelineOK(Top, Len(procs), Len(pipes)) /\ Cmd \in NodeSet
        /\ Top.k \in 1 .. Len(Top.cmds) /\ Cmd = Top.cmds[Top.k]
    BY PipelineAt DEF Fork
  <1>6. c \in NodeSet /\ c.kind = Cmd.kind /\ c.child = n /\ c.pid = n
    <2>. HIDE DEF n
    <2>. QED  BY <1>1, <1>5, ForkedAs
  <1>7. Top.cmds \in Seq(NodeSet)
    BY <1>5, FieldsOf
  <1>8. SetTop(g)
    <2>1. SetTop([Top EXCEPT !.phase = "restore", !.cmds[Top.k].pid = n, !.cmds[Top.k].child = n])
      BY DEF Fork
    <2>. DEFINE twice == [Top.cmds EXCEPT ![Top.k].pid = n, ![Top.k].child = n]
    <2>2. [Top EXCEPT !.phase = "restore", !.cmds[Top.k].pid = n, !.cmds[Top.k].child = n] =
          [Top EXCEPT !.phase = "restore", !.cmds = twice]
      <3>. DEFINE t == [Top EXCEPT !.phase = "restore"]
                  u == [t EXCEPT !.cmds[Top.k].pid = n]
      <3>1. t.cmds = Top.cmds /\ t \in PipelineFrame
        BY <1>5 DEF PipelineFrame, Phases
      <3>2. u = [t EXCEPT !.cmds = [t.cmds EXCEPT ![Top.k].pid = n]]
        OBVIOUS
      <3>3. u.cmds = [Top.cmds EXCEPT ![Top.k].pid = n]
        BY <3>1, <3>2 DEF PipelineFrame
      <3>4. [u EXCEPT !.cmds[Top.k].child = n] = [u EXCEPT !.cmds = [u.cmds EXCEPT ![Top.k].child = n]]
        OBVIOUS
      <3>5. [u.cmds EXCEPT ![Top.k].child = n] = twice
        BY <3>3
      <3>6. [u EXCEPT !.cmds = twice] = [t EXCEPT !.cmds = twice]
        BY <3>2
      <3>7. [Top EXCEPT !.phase = "restore", !.cmds[Top.k].pid = n, !.cmds[Top.k].child = n] =
            [u EXCEPT !.cmds[Top.k].child = n]
        OBVIOUS
      <3>. HIDE DEF twice, u
      <3>. QED  BY <3>4, <3>5, <3>6, <3>7
    <2>3. twice = cmds
      <3>1. Cmd = Top.cmds[Top.k] /\ n \in Nat
        BY <1>1, <1>5
      <3>. HIDE DEF n
      <3>2. twice = [Top.cmds EXCEPT ![Top.k] = [Top.cmds[Top.k] EXCEPT !.pid = n, !.child = n]]
        BY <1>5, <1>7, <3>1, ForkedNode
      <3>. QED  BY <3>1, <3>2
    <2>. HIDE DEF twice, c, cmds
    <2>. QED  BY <2>1, <2>2, <2>3
  <1>. HIDE DEF c
  <1>9. cmds \in Seq(NodeSet)
    BY <1>5, <1>6, <1>7, SeqSet
  <1>. HIDE DEF cmds
  <1>10. g \in PipelineFrame
    BY <1>5, <1>9 DEF PipelineFrame, Phases
  <1>11. g.cmds = cmds /\ g.k = Top.k /\ g.first = Top.first /\ g.fd = Top.fd
        /\ g.saved = Top.saved /\ g.phase = "restore" /\ g.type = "pipeline"
    BY <1>5 DEF PipelineFrame
  <1>. HIDE DEF g
  <1>12. PipelineOK(g, n, Len(pipes))
    BY <1>1, <1>5, <1>6, <1>10, <1>11, CmdChange DEF cmds
  <1>. QED  BY <1>3, <1>4, <1>5, <1>8, <1>11, <1>12, TopStep DEF Shape, FrameOK

LEMMA StdOf ==
    ASSUME NEW n \in Nat, NEW t \in Table(n)
    PROVE  Std(t) \in [0 .. 2 -> AnyFile] /\ \A x \in 0 .. 2 : Std(t)[x] = t[x].file
  <1>1. \A x \in 0 .. 2 : x \in Fd
    <2>1. \A x \in 0 .. 2 : x = 0 \/ x = 1 \/ x = 2
      OBVIOUS
    <2>. QED  BY <2>1, FdFacts
  <1>2. \A x \in 0 .. 2 : t[x].file \in AnyFile
    BY <1>1, FileOf DEF Files, AnyFile
  <1>. QED  BY <1>2 DEF Std

LEMMA NewList ==
    ASSUME NEW of \in {"top", "subst", "group", "subshell", "loop"}, NEW n \in Nat, NEW t \in Table(n)
    PROVE  LET f == List(of, Std(t)) IN
           f \in ListFrame /\ f.type = of /\ f.phase = "run" /\ f.std = Std(t) /\ f.status = 0
  BY StdOf DEF List, ListFrame, Status

LEMMA CompoundList == Compound \subseteq {"group", "subshell", "loop"}
  BY PipelineAssumption

LEMMA EnterGroupAs ==
    ASSUME EnterGroup
    PROVE  \E f : /\ Push(f) /\ f.type \in {"group", "subshell", "loop"} /\ f.type # "pipeline"
                  /\ f.type # "subst" /\ f.std = Std(fds) /\ InPipeline("args") /\ shell = "alive"
                  /\ UNCHANGED <<shell, fds, procs, pipes, started, failed>>
  <1>1. PICK of \in Compound : Push(List(of, Std(fds)))
    BY DEF EnterGroup
  <1>. DEFINE f == List(of, Std(fds))
  <1>2. f.type \in {"group", "subshell", "loop"} /\ f.std = Std(fds)
    BY CompoundList DEF List
  <1>. HIDE DEF f
  <1>3. f.type # "pipeline" /\ f.type # "subst"
    BY <1>2
  <1>4. Push(f)
    BY <1>1 DEF f
  <1>. QED  BY <1>2, <1>3, <1>4 DEF EnterGroup, InPipeline

LEMMA EnterGroupShape == ASSUME Shape, EnterGroup PROVE Shape'
  <1>0. PICK of \in Compound : Push(List(of, Std(fds)))
    BY DEF EnterGroup
  <1>. DEFINE f == List(of, Std(fds))
  <1>1. Typed' /\ Grown
    BY TypedKept DEF EnterGroup, Shape, Typed
  <1>2. Top.type = "pipeline" /\ Top.phase = "args" /\ PipelineOK(Top, Len(procs), Len(pipes))
    BY PipelineAt DEF EnterGroup
  <1>3. f \in ListFrame /\ f.type \in {"group", "subshell", "loop"} /\ f.phase = "run"
    <2>1. of \in {"group", "subshell", "loop"} /\ of \in {"top", "subst", "group", "subshell", "loop"}
      BY CompoundList
    <2>2. f \in ListFrame /\ f.type = of /\ f.phase = "run"
      BY <2>1, NewList DEF Shape, Typed
    <2>. QED  BY <2>1, <2>2
  <1>4. Push(f)
    BY <1>0
  <1>. HIDE DEF f
  <1>5. Pushed(Top, f) /\ stack' \in Seq(Frame)
    BY <1>3, <1>4, TopFacts, PushPushes DEF Frame
  <1>6. UNCHANGED <<procs, pipes>>
    BY DEF EnterGroup
  <1>7. FrameOK(f, Len(procs'), Len(pipes')) /\ FrameOK(Top, Len(procs'), Len(pipes'))
    BY <1>2, <1>3, <1>6 DEF FrameOK
  <1>8. Len(stack) + 1 <= MaxDepth
    BY <1>2, TopFacts
  <1>. HIDE DEF Top
  <1>. QED  BY <1>1, <1>2, <1>3, <1>5, <1>7, <1>8, StackPushed DEF Shape

LEMMA ListAt ==
    ASSUME Shape, InList
    PROVE  Top \in ListFrame /\ Top.type # "pipeline" /\ Top.phase = "run" /\ Top.status \in Status
  BY TopFacts DEF InList, ListFrame

\* The pipeline below a list.
LEMMA BelowList ==
    ASSUME Shape, Top.type # "pipeline", Top.type # "top"
    PROVE  LET n == Len(stack) - 1 IN
           /\ n \in 1 .. Len(stack) /\ n # 0
           /\ PipelineOK(stack[n], Len(procs), Len(pipes)) /\ stack[n] \in PipelineFrame
           /\ stack[n].type = "pipeline" /\ stack[n].phase = "args"
  <1>1. Len(stack) # 1
    BY TopFacts
  <1>. DEFINE n == Len(stack) - 1
  <1>2. n \in 1 .. Len(stack) /\ n # 0 /\ Under(stack[n], Top) /\ FrameOK(stack[n], Len(procs), Len(pipes))
    BY <1>1, TopFacts
  <1>. HIDE DEF n
  <1>. QED  BY <1>2 DEF Under, FrameOK, PipelineOK, n

\* The status of a compound command whose list has ended.
EndStatus == IF Top.type = "loop" THEN 0 ELSE Top.status

LEMMA EndGroupAs ==
    ASSUME Shape, EndGroup
    PROVE  LET n == Len(stack) - 1
               f == stack[n]
           IN /\ stack' = Append(SubSeq(stack, 1, n - 1),
                               [f EXCEPT !.phase = "restore", !.cmds[f.k].status = EndStatus])
              /\ UNCHANGED <<shell, fds, procs, pipes, started, failed>>
              /\ Top.type \in {"group", "subshell", "loop"} /\ Top.type # "pipeline"
              /\ Top.type # "top" /\ Top.type # "subst"
              /\ shell = "alive" /\ InList /\ EndStatus \in Status
  <1>1. Top.status \in Status
    BY ListAt DEF EndGroup
  <1>2. EndStatus \in Status
    BY <1>1 DEF EndStatus, Status
  <1>. QED  BY <1>2 DEF EndGroup, InList, EndStatus

LEMMA EndGroupShape == ASSUME Shape, EndGroup PROVE Shape'
  <1>. DEFINE n == Len(stack) - 1
              f == stack[n]
              s == EndStatus
              c == [f.cmds[f.k] EXCEPT !.status = s]
              cmds == [f.cmds EXCEPT ![f.k] = c]
              g == [f EXCEPT !.phase = "restore", !.cmds = cmds]
  <1>1. Typed' /\ Grown
    BY TypedKept DEF EndGroup, Shape, Typed
  <1>2. s \in Status /\ Top.type \in {"group", "subshell", "loop"}
    BY EndGroupAs
  <1>3. n \in 1 .. Len(stack) /\ n # 0 /\ PipelineOK(f, Len(procs), Len(pipes)) /\ f \in PipelineFrame
        /\ f.type = "pipeline" /\ f.phase = "args"
    BY <1>2, BelowList
  <1>4. stack' = Append(SubSeq(stack, 1, n - 1), [f EXCEPT !.phase = "restore",
                                                           !.cmds[f.k].status = s])
        /\ UNCHANGED <<shell, fds, procs, pipes, started, failed>>
    BY EndGroupAs
  <1>. HIDE DEF f, n, s
  <1>5. f.cmds \in Seq(NodeSet) /\ f.k \in 1 .. Len(f.cmds)
    BY <1>3, FieldsOf DEF PipelineOK
  <1>6. stack' = Append(SubSeq(stack, 1, n - 1), g)
    <2>1. [f EXCEPT !.phase = "restore", !.cmds[f.k].status = s] = g
      BY <1>3, <1>5 DEF PipelineFrame
    <2>. QED  BY <1>4, <2>1
  <1>7. f.cmds[f.k] \in NodeSet
    BY <1>5
  <1>8. c \in NodeSet /\ c.kind = f.cmds[f.k].kind /\ c.child = f.cmds[f.k].child
        /\ c.pid = f.cmds[f.k].pid
    BY <1>2, <1>7, StatusNode
  <1>. HIDE DEF c
  <1>9. cmds \in Seq(NodeSet)
    BY <1>5, <1>8, SeqSet
  <1>. HIDE DEF cmds
  <1>10. g \in PipelineFrame
    BY <1>3, <1>9 DEF PipelineFrame, Phases
  <1>11. g.cmds = cmds /\ g.k = f.k /\ g.first = f.first /\ g.fd = f.fd
        /\ g.saved = f.saved /\ g.phase = "restore" /\ g.type = "pipeline"
    BY <1>3 DEF PipelineFrame
  <1>. HIDE DEF g
  <1>12. f.cmds[f.k].child = 0
    BY <1>3, <1>5 DEF PipelineOK, NodeOK
  <1>13. PipelineOK(g, Len(procs), Len(pipes))
    BY <1>3, <1>8, <1>10, <1>11, <1>12, CmdChange, Counts DEF cmds
  <1>14. Cut(n, g) /\ stack' \in Seq(Frame)
    <2>1. stack \in Seq(Frame) /\ g \in Frame
      BY <1>10, TopFacts DEF Frame
    <2>. QED  BY <1>3, <1>6, <2>1, AppendCuts
  <1>15. g.type = stack[n].type /\ FrameOK(g, Len(procs'), Len(pipes'))
    BY <1>3, <1>4, <1>11, <1>13 DEF FrameOK, f
  <1>. QED  BY <1>1, <1>14, <1>15, StackCut DEF Shape

----------------------------------------------------------------------------
(* __pipewait *)

LEMMA WaitedAs ==
    ASSUME NEW d \in NodeSet, NEW status \in Status
    PROVE  LET c == [d EXCEPT !.status = status, !.pid = -1] IN
           /\ c \in NodeSet /\ c.kind = d.kind /\ c.child = d.child /\ c.pid = -1
           /\ c.status = status
  <1>. DEFINE e == [d EXCEPT !.status = status]
  <1>1. e \in NodeSet
    BY DEF NodeSet
  <1>. HIDE DEF e
  <1>2. [e EXCEPT !.pid = -1] \in NodeSet
    <2>1. -1 \in Int
      OBVIOUS
    <2>. QED  BY <1>1, <2>1 DEF NodeSet
  <1>. QED  BY <1>2 DEF NodeSet, e

LEMMA WaitedNode ==
    ASSUME NEW s \in Seq(NodeSet), NEW k \in 1 .. Len(s), NEW status
    PROVE  [s EXCEPT ![k].status = status, ![k].pid = -1] =
           [s EXCEPT ![k] = [s[k] EXCEPT !.status = status, !.pid = -1]]
  <1>. DEFINE c == [s[k] EXCEPT !.status = status, !.pid = -1]
              t == [s EXCEPT ![k].status = status]
  <1>1. t = [s EXCEPT ![k] = [s[k] EXCEPT !.status = status]]
    OBVIOUS
  <1>2. [s EXCEPT ![k].status = status, ![k].pid = -1] = [t EXCEPT ![k].pid = -1]
    OBVIOUS
  <1>3. [t EXCEPT ![k].pid = -1] = [t EXCEPT ![k] = [t[k] EXCEPT !.pid = -1]]
    OBVIOUS
  <1>4. t[k] = [s[k] EXCEPT !.status = status]
    OBVIOUS
  <1>5. [[s[k] EXCEPT !.status = status] EXCEPT !.pid = -1] = c
    OBVIOUS
  <1>6. [t EXCEPT ![k] = c] = [s EXCEPT ![k] = c]
    OBVIOUS
  <1>. QED  BY <1>1, <1>2, <1>3, <1>4, <1>5, <1>6

\* The command has been waited for: g goes on with the next one.
WaitsOn(g, status) ==
    /\ g \in PipelineFrame /\ g.phase = Top.phase /\ g.negate = Top.negate
    /\ g.k = Top.k + 1 /\ Top.k < Len(Top.cmds)
    /\ g.cmds = [Top.cmds EXCEPT ![Top.k] = [Cmd EXCEPT !.status = status, !.pid = -1]]
    /\ g.in = Top.in /\ g.fd = Top.fd /\ g.saved = Top.saved /\ g.first = Top.first

LEMMA WaitedStep ==
    ASSUME Shape, InPipeline("wait"), NEW status \in Status, Waited(status)
    PROVE  \/ \E g : SetTop(g) /\ WaitsOn(g, status)
           \/ LET n == Len(stack) - 1 IN
              /\ Top.k = Len(Top.cmds) /\ n \in 1 .. Len(stack) /\ n # 0
              /\ stack[n] \in ListFrame
              /\ stack' = [SubSeq(stack, 1, n) EXCEPT
                             ![n] = [stack[n] EXCEPT !.status = Negated(Top.negate, status)]]
  <1>1. Top \in PipelineFrame /\ PipelineOK(Top, Len(procs), Len(pipes)) /\ Top.phase = "wait"
        /\ Top.k \in 1 .. Len(Top.cmds) /\ Len(Top.cmds) \in Nat /\ Cmd = Top.cmds[Top.k]
        /\ Top.type = "pipeline" /\ Cmd \in NodeSet
    BY PipelineAt
  <1>2. Top.cmds \in Seq(NodeSet) /\ Top.k \in Nat
    BY <1>1, FieldsOf
  <1>. DEFINE f == [Top EXCEPT !.cmds[Top.k].status = status, !.cmds[Top.k].pid = -1]
              c == [Cmd EXCEPT !.status = status, !.pid = -1]
              cmds == [Top.cmds EXCEPT ![Top.k] = c]
              twice == [Top.cmds EXCEPT ![Top.k].status = status, ![Top.k].pid = -1]
  <1>3. CASE Top.k < Len(Top.cmds)
    <2>1. SetTop([f EXCEPT !.k = @ + 1])
      BY <1>3 DEF Waited
    <2>2. f = [Top EXCEPT !.cmds = cmds]
      <3>. DEFINE t == [Top EXCEPT !.cmds[Top.k].status = status]
      <3>1. t = [Top EXCEPT !.cmds = [Top.cmds EXCEPT ![Top.k].status = status]]
        OBVIOUS
      <3>2. t.cmds = [Top.cmds EXCEPT ![Top.k].status = status]
        BY <1>1, <3>1 DEF PipelineFrame
      <3>3. f = [t EXCEPT !.cmds[Top.k].pid = -1]
        OBVIOUS
      <3>4. [t EXCEPT !.cmds[Top.k].pid = -1] = [t EXCEPT !.cmds = [t.cmds EXCEPT ![Top.k].pid = -1]]
        OBVIOUS
      <3>5. [t.cmds EXCEPT ![Top.k].pid = -1] = twice
        BY <3>2
      <3>6. twice = cmds
        BY <1>1, <1>2, WaitedNode
      <3>7. [t EXCEPT !.cmds = cmds] = [Top EXCEPT !.cmds = cmds]
        BY <3>1
      <3>. HIDE DEF t, twice, cmds, f
      <3>. QED  BY <3>3, <3>4, <3>5, <3>6, <3>7
    <2>3. cmds \in Seq(NodeSet)
      <3>1. c \in NodeSet
        BY <1>1, WaitedAs
      <3>. HIDE DEF c
      <3>. QED  BY <1>1, <1>2, <3>1, SeqSet
    <2>. DEFINE e == [Top EXCEPT !.cmds = cmds]
                g == [e EXCEPT !.k = Top.k + 1]
    <2>4. e \in PipelineFrame /\ e.k = Top.k
      <3>. HIDE DEF cmds
      <3>. QED  BY <1>1, <2>3 DEF PipelineFrame
    <2>5. SetTop(g)
      <3>. HIDE DEF cmds
      <3>. QED  BY <2>1, <2>2, <2>4
    <2>6. g \in PipelineFrame
      <3>. DEFINE m == Top.k + 1
      <3>1. m \in Nat
        BY <1>2
      <3>. HIDE DEF m, e
      <3>2. [e EXCEPT !.k = m] \in PipelineFrame
        BY <2>4, <3>1 DEF PipelineFrame
      <3>. QED  BY <3>2 DEF m
    <2>7. g.k = Top.k + 1 /\ g.cmds = cmds /\ g.phase = Top.phase /\ g.negate = Top.negate
          /\ g.in = Top.in /\ g.fd = Top.fd /\ g.saved = Top.saved /\ g.first = Top.first
      <3>. HIDE DEF cmds
      <3>. QED  BY <1>1 DEF PipelineFrame
    <2>. HIDE DEF g, e
    <2>8. WaitsOn(g, status)
      BY <1>3, <2>6, <2>7 DEF WaitsOn
    <2>. QED  BY <2>5, <2>8
  <1>4. CASE ~(Top.k < Len(Top.cmds))
    <2>. DEFINE n == Len(stack) - 1
                v == Negated(Top.negate, status)
                s == SubSeq(stack, 1, n)
    <2>1. n \in 1 .. Len(stack) /\ n # 0 /\ stack[n] \in ListFrame
      <3>1. Len(stack) # 1
        BY <1>1, TopFacts
      <3>2. n \in 1 .. Len(stack) /\ n # 0 /\ Under(stack[n], Top)
            /\ FrameOK(stack[n], Len(procs), Len(pipes))
        BY <3>1, TopFacts
      <3>. HIDE DEF n
      <3>. QED  BY <1>1, <3>2 DEF Under, FrameOK
    <2>2. stack' = [s EXCEPT ![n].status = v]
      BY <1>4 DEF Waited
    <2>3. s[n] = stack[n]
      <3>. HIDE DEF n
      <3>. QED  BY <2>1, TopFacts
    <2>4. stack' = [s EXCEPT ![n] = [stack[n] EXCEPT !.status = v]]
      <3>. HIDE DEF s, v, n
      <3>. QED  BY <2>2, <2>3
    <2>5. Top.k = Len(Top.cmds)
      BY <1>1, <1>2, <1>4
    <2>. QED  BY <2>1, <2>4, <2>5
  <1>. QED  BY <1>3, <1>4

LEMMA NegatedStatus ==
    ASSUME NEW negate, NEW status \in Status
    PROVE  Negated(negate, status) \in Status
  BY DEF Negated, Status

LEMMA WaitedShape ==
    ASSUME Shape, Typed', Len(procs') = Len(procs), Len(pipes') = Len(pipes),
           InPipeline("wait"), NEW status \in Status, Waited(status)
    PROVE  Stacked'
  <1>1. Top \in PipelineFrame /\ PipelineOK(Top, Len(procs), Len(pipes)) /\ Top.phase = "wait"
        /\ Top.k \in 1 .. Len(Top.cmds) /\ Len(Top.cmds) \in Nat /\ Cmd = Top.cmds[Top.k]
        /\ Top.type = "pipeline" /\ Cmd \in NodeSet
    BY PipelineAt
  <1>2. Top.cmds \in Seq(NodeSet) /\ Top.k \in Nat
    BY <1>1, FieldsOf
  <1>3. Grown
    BY Counts DEF Grown
  <1>. DEFINE c == [Cmd EXCEPT !.status = status, !.pid = -1]
  <1>4. c \in NodeSet /\ c.kind = Cmd.kind /\ c.child = Cmd.child /\ c.pid = -1
    BY <1>1, WaitedAs
  <1>5. ASSUME NEW g, SetTop(g), WaitsOn(g, status)
        PROVE  Stacked'
    <2>1. g \in PipelineFrame /\ g.phase = "wait" /\ g.k = Top.k + 1 /\ Top.k < Len(Top.cmds)
          /\ g.cmds = [Top.cmds EXCEPT ![Top.k] = c] /\ g.saved = Top.saved /\ g.first = Top.first
      BY <1>1, <1>5 DEF WaitsOn
    <2>. HIDE DEF c
    <2>2. Len(g.cmds) = Len(Top.cmds) /\ g.cmds[Top.k] = c
          /\ \A j \in 1 .. Len(Top.cmds) : j # Top.k => g.cmds[j] = Top.cmds[j]
      BY <1>1, <1>2, <1>4, <2>1, SeqSet
    <2>3. ASSUME NEW j \in 1 .. Len(Top.cmds)
          PROVE  NodeOK(g, j, Len(procs)) /\ g.cmds[j].child = Top.cmds[j].child
      <3>1. NodeOK(Top, j, Len(procs)) /\ j \in Nat
        BY <1>1, <1>2 DEF PipelineOK
      <3>2. CASE j = Top.k
        BY <1>1, <1>2, <1>4, <2>1, <2>2, <3>1, <3>2 DEF NodeOK
      <3>3. CASE j # Top.k
        <4>1. g.cmds[j] = Top.cmds[j]
          BY <2>2, <3>3
        <4>. QED  BY <1>1, <1>2, <2>1, <3>1, <3>3, <4>1 DEF NodeOK
      <3>. QED  BY <3>2, <3>3
    <2>4. g.k \in 1 .. Len(g.cmds)
      BY <1>1, <1>2, <2>1, <2>2
    <2>5. SavedOK(g)
      BY <1>1, <2>1 DEF PipelineOK, SavedOK
    <2>6. PipelineOK(g, Len(procs), Len(pipes))
      BY <1>1, <2>1, <2>2, <2>3, <2>4, <2>5 DEF PipelineOK, Inside
    <2>7. g.type = "pipeline"
      BY <2>1, FieldsOf
    <2>. QED  BY <1>1, <1>3, <1>5, <2>6, <2>7, TopStep DEF FrameOK
  <1>. DEFINE n == Len(stack) - 1
              g == [stack[n] EXCEPT !.status = Negated(Top.negate, status)]
  <1>6. ASSUME n \in 1 .. Len(stack), n # 0, stack[n] \in ListFrame,
               stack' = [SubSeq(stack, 1, n) EXCEPT ![n] = g]
        PROVE  Stacked'
    <2>1. g \in ListFrame /\ g.type = stack[n].type /\ g.phase = stack[n].phase
      <3>1. Negated(Top.negate, status) \in Status
        BY NegatedStatus
      <3>. QED  BY <1>6, <3>1 DEF ListFrame
    <2>2. FrameOK(stack[n], Len(procs), Len(pipes))
      BY <1>6 DEF Shape, Stacked
    <2>3. stack[n].type # "pipeline"
      BY <1>6 DEF ListFrame
    <2>. HIDE DEF g, n
    <2>4. FrameOK(g, Len(procs'), Len(pipes'))
      BY <2>1, <2>2, <2>3 DEF FrameOK
    <2>5. Cut(n, g) /\ stack' \in Seq(Frame)
      BY <1>6, <2>1, TopFacts, SubSeqSetCuts DEF Frame
    <2>. QED  BY <1>3, <2>1, <2>4, <2>5, StackCut
  <1>. HIDE DEF n, g
  <1>. QED  BY <1>5, <1>6, WaitedStep DEF n, g

LEMMA SetProcTyped ==
    ASSUME Shape, NEW p \in DOMAIN procs, NEW r \in Process(Len(pipes)), SetProc(p, r)
    PROVE  procs' \in Seq(Process(Len(pipes))) /\ Len(procs') = Len(procs)
           /\ procs'[p] = r /\ \A q \in DOMAIN procs : q # p => procs'[q] = procs[q]
  BY DEF Shape, Typed, SetProc

LEMMA ReapedAs ==
    ASSUME NEW n, NEW r \in Process(n)
    PROVE  [r EXCEPT !.state = "reaped"] \in Process(n)
  BY DEF Process

LEMMA ProcAt ==
    ASSUME Shape, NEW p \in DOMAIN procs
    PROVE  procs[p] \in Process(Len(pipes)) /\ procs[p].status \in Exits /\ procs[p].status \in Status
           /\ p \in 1 .. Len(procs)
  <1>1. procs \in Seq(Process(Len(pipes)))
    BY DEF Shape, Typed
  <1>2. procs[p] \in Process(Len(pipes)) /\ p \in 1 .. Len(procs)
    BY <1>1
  <1>3. procs[p].status \in Exits
    BY <1>2 DEF Process
  <1>. QED  BY <1>2, <1>3 DEF Exits, Status

LEMMA ReapTyped ==
    ASSUME Shape, NEW p \in DOMAIN procs, Reap(p), UNCHANGED <<shell, fds, pipes, started, failed>>
    PROVE  Typed' /\ Len(procs') = Len(procs) /\ Len(pipes') = Len(pipes)
  <1>. DEFINE r == [procs[p] EXCEPT !.state = "reaped"]
  <1>1. r \in Process(Len(pipes)) /\ SetProc(p, r)
    BY ProcAt, ReapedAs DEF Reap
  <1>. HIDE DEF r
  <1>2. procs' \in Seq(Process(Len(pipes))) /\ Len(procs') = Len(procs)
    BY <1>1, SetProcTyped
  <1>. QED  BY <1>2, TypedBytes DEF Shape, Typed

\* The process of the command waited for exists.
LEMMA PidAt ==
    ASSUME Shape, InPipeline("wait"), Cmd.pid > 0
    PROVE  Cmd.pid \in DOMAIN procs /\ Cmd.pid = Cmd.child
  <1>1. NodeOK(Top, Top.k, Len(procs)) /\ Cmd = Top.cmds[Top.k] /\ Cmd.child \in Nat
    BY PipelineAt DEF PipelineOK
  <1>2. DOMAIN procs = 1 .. Len(procs) /\ Len(procs) \in Nat
    BY DEF Shape, Typed
  <1>. QED  BY <1>1, <1>2 DEF NodeOK

LEMMA WaitShape ==
    ASSUME Shape, WaitChild \/ WaitAny \/ NoWait PROVE Shape'
  <1>1. InPipeline("wait")
    BY DEF WaitChild, WaitAny, NoWait
  <1>2. CASE WaitChild
    <2>1. Cmd.pid \in DOMAIN procs
      BY <1>2, PidAt DEF WaitChild
    <2>2. Reap(Cmd.pid) /\ Waited(procs[Cmd.pid].status)
          /\ UNCHANGED <<shell, fds, pipes, started, failed>>
      BY <1>2 DEF WaitChild
    <2>3. Typed' /\ Len(procs') = Len(procs) /\ Len(pipes') = Len(pipes)
      BY <2>1, <2>2, ReapTyped
    <2>. QED  BY <1>1, <2>1, <2>2, <2>3, ProcAt, WaitedShape DEF Shape
  <1>3. CASE WaitAny
    <2>1. PICK p \in DOMAIN procs : Reap(p) /\ Waited(procs[p].status)
      BY <1>3 DEF WaitAny, Live
    <2>2. Typed' /\ Len(procs') = Len(procs) /\ Len(pipes') = Len(pipes)
      BY <1>3, <2>1, ReapTyped DEF WaitAny
    <2>. QED  BY <1>1, <2>1, <2>2, ProcAt, WaitedShape DEF Shape
  <1>4. CASE NoWait
    <2>1. Cmd.status \in Status
      BY <1>1, PipelineAt
    <2>2. Typed'
      BY <1>4, TypedKept DEF NoWait, Shape, Typed
    <2>. QED  BY <1>1, <1>4, <2>1, <2>2, WaitedShape DEF NoWait, Shape
  <1>. QED  BY <1>2, <1>3, <1>4

----------------------------------------------------------------------------
(* __exp_cmd_substitution *)

LEMMA FailedStep ==
    ASSUME Shape, UNCHANGED <<stack, procs, pipes, started, failed>>,
           fds' = NoTable, shell' \in {"aborted", "exited"}
    PROVE  Shape'
  <1>1. Len(procs) \in Nat /\ Len(pipes) \in Nat /\ NoTable \in Table(Len(pipes))
    BY Counts, NoTableTable
  <1>2. Typed' /\ Grown
    BY <1>1 DEF Shape, Typed, Grown
  <1>. QED  BY <1>2, StackKept DEF Shape

\* The names of BeginSubstitution.
Opened(t, r, w, p) == Put(Put(t, r, Reader(p), TRUE), w, Writer(p), FALSE)
Copied(t, n) == IF n = -1 THEN t ELSE Put(t, n, t[1].file, TRUE)
CopyAt(t) == IF Free(t) = {} THEN -1 ELSE Lowest(Free(t))

LEMMA BeginSubstitutionAs ==
    ASSUME BeginSubstitution
    PROVE  LET r == Lowest(Free(fds))
               w == Lowest(Free(fds) \ {r})
               t == Opened(fds, r, w, Len(pipes) + 1)
               n == CopyAt(t)
               f == [List("subst", Std(fds')) EXCEPT !.reader = r, !.saved = n]
           IN /\ fds' = Redirect(Copied(t, n), w, 1, TRUE)
              /\ Push(f)
              /\ failed' = (failed \/ n = -1)
              /\ pipes' = Append(pipes, 0) /\ UNCHANGED <<shell, procs, started>>
              /\ InPipeline("args") /\ Cmd.kind = "simple" /\ "subst" \in Feature
              /\ Len(stack) + 3 <= MaxDepth /\ Cardinality(Free(fds)) >= 2
  BY DEF BeginSubstitution, Opened, Copied, CopyAt

LEMMA BeginSubstitutionShape == ASSUME Shape, BeginSubstitution PROVE Shape'
  <1>. DEFINE r == Lowest(Free(fds))
              w == Lowest(Free(fds) \ {r})
              p == Len(pipes) + 1
              t == Opened(fds, r, w, p)
              n == CopyAt(t)
              u == Copied(t, n)
              f0 == List("subst", Std(fds'))
              f == [f0 EXCEPT !.reader = r, !.saved = n]
  <1>1. /\ fds' = Redirect(u, w, 1, TRUE) /\ Push(f)
        /\ failed' = (failed \/ n = -1)
        /\ pipes' = Append(pipes, 0) /\ UNCHANGED <<shell, procs, started>>
        /\ InPipeline("args") /\ Len(stack) + 3 <= MaxDepth /\ Cardinality(Free(fds)) >= 2
        /\ "subst" \in Feature
    BY BeginSubstitutionAs
  <1>2. r \in Fd /\ w \in Fd
    BY <1>1, FreeFacts DEF Shape, Typed
  <1>. HIDE DEF r, w
  <1>3. t \in Table(Len(pipes'))
    <2>1. fds \in Table(Len(pipes'))
      BY <1>1, PipesGrow DEF Shape, Typed
    <2>2. Put(fds, r, Reader(p), TRUE) \in Table(Len(pipes'))
      BY <1>1, <2>1, PipesGrow, PutTable
    <2>. QED  BY <1>1, <2>2, PipesGrow, PutTable DEF Opened
  <1>. HIDE DEF t
  <1>4. n \in Fd \cup {-1}
    BY <1>3, FreeFacts DEF CopyAt
  <1>. HIDE DEF n
  <1>5. u \in Table(Len(pipes'))
    <2>1. t[1].file \in Files(Len(pipes')) \cup {NoFile}
      BY <1>3, FileOf, FdFacts
    <2>. QED  BY <1>3, <2>1, PutTable DEF Copied
  <1>. HIDE DEF u
  <1>6. fds' \in Table(Len(pipes'))
    BY <1>1, <1>2, <1>5, RedirectTable
  <1>7. Typed' /\ Grown
    BY <1>1, <1>6, TypedPipe DEF Shape, Typed
  <1>8. f \in ListFrame /\ f.type = "subst" /\ f.phase = "run"
    <2>1. Len(pipes') \in Nat
      BY <1>7 DEF Typed
    <2>2. f0 \in ListFrame /\ f0.type = "subst" /\ f0.phase = "run"
      BY <1>6, <2>1, NewList
    <2>. HIDE DEF f0
    <2>. DEFINE e == [f0 EXCEPT !.reader = r]
    <2>3. e \in ListFrame /\ e.type = "subst" /\ e.phase = "run"
      BY <1>2, <2>2 DEF ListFrame
    <2>. HIDE DEF e
    <2>4. [e EXCEPT !.saved = n] \in ListFrame
      BY <1>4, <2>3 DEF ListFrame
    <2>. QED  BY <2>2, <2>4 DEF e, ListFrame
  <1>. HIDE DEF f
  <1>9. Top.type = "pipeline" /\ Top.phase = "args" /\ PipelineOK(Top, Len(procs), Len(pipes))
    BY <1>1, PipelineAt
  <1>10. Pushed(Top, f) /\ stack' \in Seq(Frame)
    BY <1>1, <1>8, TopFacts, PushPushes DEF Frame
  <1>11. FrameOK(f, Len(procs'), Len(pipes')) /\ FrameOK(Top, Len(procs'), Len(pipes'))
    <2>1. Len(procs) \in Nat /\ Len(pipes) \in Nat /\ Len(procs') \in Nat /\ Len(pipes') \in Nat
      BY <1>7 DEF Shape, Typed
    <2>2. FrameOK(Top, Len(procs), Len(pipes))
      BY TopFacts
    <2>. QED  BY <1>7, <1>8, <2>1, <2>2, FrameOKGrows DEF FrameOK, Grown
  <1>12. Len(stack) + 1 <= MaxDepth
    BY <1>9, TopFacts
  <1>. HIDE DEF Top
  <1>. QED  BY <1>1, <1>7, <1>8, <1>9, <1>10, <1>11, <1>12, StackPushed DEF Shape

LEMMA EndSubstitutionShape == ASSUME Shape, EndSubstitution PROVE Shape'
  <1>. DEFINE g == [Top EXCEPT !.phase = "read"]
  <1>1. Top \in ListFrame /\ Top.type = "subst"
    BY ListAt DEF EndSubstitution
  <1>2. Top.saved \in Fd \cup {-1} /\ fds \in Table(Len(pipes))
    BY <1>1 DEF ListFrame, Shape, Typed
  <1>3. fds' \in Table(Len(pipes))
    BY <1>2, RedirectTable DEF EndSubstitution
  <1>4. Typed' /\ Grown
    BY <1>3, TypedFds DEF EndSubstitution
  <1>5. g \in ListFrame /\ g.type = "subst"
    BY <1>1 DEF ListFrame
  <1>6. SetTop(g)
    BY DEF EndSubstitution
  <1>. HIDE DEF g
  <1>. QED  BY <1>1, <1>4, <1>5, <1>6, TopStep DEF Shape, FrameOK

\* A byte is read.
LEMMA TakenTyped ==
    ASSUME Shape, NEW x, pipes[x] > 0
    PROVE  LET q == [pipes EXCEPT ![x] = @ - 1] IN
           q \in Seq(0 .. Capacity) /\ Len(q) = Len(pipes)
  <1>. DEFINE b == pipes[x] - 1
              q == [pipes EXCEPT ![x] = b]
  <1>1. pipes \in Seq(0 .. Capacity) /\ Capacity \in Nat
    BY PipelineAssumption DEF Shape, Typed
  <1>2. CASE x \in 1 .. Len(pipes)
    <2>1. pipes[x] \in 0 .. Capacity
      BY <1>1, <1>2
    <2>2. b \in 0 .. Capacity
      BY <1>1, <2>1
    <2>. HIDE DEF b
    <2>3. q \in Seq(0 .. Capacity) /\ Len(q) = Len(pipes)
      BY <1>1, <1>2, <2>2
    <2>. QED  BY <2>3 DEF b
  <1>3. CASE x \notin 1 .. Len(pipes)
    <2>1. DOMAIN pipes = 1 .. Len(pipes) /\ pipes = [j \in DOMAIN pipes |-> pipes[j]]
      BY <1>1
    <2>2. q = [j \in DOMAIN pipes |-> IF j = x THEN b ELSE pipes[j]]
      OBVIOUS
    <2>. HIDE DEF b, q
    <2>3. \A j \in DOMAIN pipes : j # x
      BY <1>3, <2>1
    <2>4. q = pipes
      BY <2>1, <2>2, <2>3, Zenon
    <2>. QED  BY <1>1, <2>4 DEF b, q
  <1>. QED  BY <1>2, <1>3

LEMMA ReadByteShape == ASSUME Shape, ReadByte PROVE Shape'
  <1>1. pipes' \in Seq(0 .. Capacity) /\ Len(pipes') = Len(pipes)
    BY TakenTyped DEF ReadByte
  <1>2. Typed' /\ Grown
    BY <1>1, TypedBytes DEF ReadByte, Shape, Typed
  <1>. QED  BY <1>2, StackKept DEF ReadByte, Shape

LEMMA ReadEndShape == ASSUME Shape, ReadEnd PROVE Shape'
  <1>. DEFINE n == Len(stack) - 1
  <1>1. n \in 1 .. Len(stack) /\ stack' = SubSeq(stack, 1, n)
    BY BelowList DEF ReadEnd, Reading
  <1>2. Typed' /\ Grown
    <2>1. fds' \in Table(Len(pipes))
      BY CloseTable DEF ReadEnd, Shape, Typed
    <2>. QED  BY <2>1, TypedFds DEF ReadEnd
  <1>. HIDE DEF n
  <1>3. Cut(n, stack[n]) /\ stack' \in Seq(Frame)
    BY <1>1, TopFacts, SubSeqCuts
  <1>4. FrameOK(stack[n], Len(procs), Len(pipes))
    BY <1>1 DEF Shape, Stacked
  <1>5. UNCHANGED <<procs, pipes>>
    BY DEF ReadEnd
  <1>. QED  BY <1>2, <1>3, <1>4, <1>5, StackCut DEF Shape

\* exit, break and continue go back to a list; nothing else changes.
Jumps ==
    /\ UNCHANGED <<shell, fds, procs, pipes, started, failed>> /\ jumped'
    /\ \E i \in 1 .. Len(stack), g \in ListFrame :
         /\ stack[i] \in ListFrame /\ stack' = [SubSeq(stack, 1, i) EXCEPT ![i] = g]
         /\ g.type = stack[i].type /\ g.phase = stack[i].phase
         /\ g.reader = stack[i].reader /\ g.saved = stack[i].saved

LEMMA ListOf ==
    ASSUME Shape, NEW i \in 1 .. Len(stack), stack[i].type # "pipeline"
    PROVE  stack[i] \in ListFrame
  <1>1. FrameOK(stack[i], Len(procs), Len(pipes))
    BY DEF Shape, Stacked
  <1>. QED  BY <1>1 DEF FrameOK

LEMMA JumpToAs ==
    ASSUME Shape, NEW i \in DOMAIN stack, stack[i].type # "pipeline",
           NEW g \in ListFrame, g.type = stack[i].type, g.phase = stack[i].phase,
           g.reader = stack[i].reader, g.saved = stack[i].saved,
           JumpTo(i, g), UNCHANGED <<procs, pipes, started, failed>>
    PROVE  Jumps
  <1>1. i \in 1 .. Len(stack)
    BY TopFacts
  <1>. QED  BY <1>1, ListOf DEF Jumps, JumpTo

LEMMA ExitAs ==
    ASSUME Shape, NEW status \in Code, Exit(status)
    PROVE  \/ Jumps
           \/ /\ shell' = "exited" /\ fds' = NoTable
              /\ UNCHANGED <<stack, procs, pipes, started, failed, jumped>>
  <1>. DEFINE targets == {i \in DOMAIN stack : Encloses(i)}
              i == CHOOSE x \in targets : \A y \in targets : y <= x
              g == [stack[i] EXCEPT !.status = status, !.over = TRUE]
  <1>1. UNCHANGED <<procs, pipes, started, failed>>
        /\ IF targets # {} THEN JumpTo(i, g)
           ELSE shell' = "exited" /\ fds' = NoTable /\ UNCHANGED <<stack, jumped>>
    BY DEF Exit
  <1>2. targets # {} => i \in targets
    <2>1. targets \subseteq 0 .. Len(stack) /\ Len(stack) \in Nat
      BY TopFacts
    <2>. HIDE DEF targets
    <2>2. targets # {} => \E x \in targets : \A y \in targets : y <= x
      BY <2>1, GreatestExists
    <2>. QED  BY <2>2
  <1>3. targets \subseteq 1 .. Len(stack) /\ \A x \in targets : stack[x].type # "pipeline"
    BY TopFacts DEF Encloses
  <1>4. ASSUME targets # {}
        PROVE  Jumps
    <2>1. i \in DOMAIN stack /\ i \in 1 .. Len(stack) /\ stack[i].type # "pipeline"
      BY <1>2, <1>3, <1>4
    <2>2. JumpTo(i, g)
      BY <1>1, <1>4
    <2>. HIDE DEF targets, i
    <2>3. stack[i] \in ListFrame /\ status \in Status
      BY <2>1, ListOf DEF Status
    <2>4. g \in ListFrame /\ g.type = stack[i].type /\ g.phase = stack[i].phase
          /\ g.reader = stack[i].reader /\ g.saved = stack[i].saved
      BY <2>3 DEF ListFrame
    <2>. HIDE DEF g
    <2>. QED  BY <1>1, <2>1, <2>2, <2>4, JumpToAs
  <1>. QED  BY <1>1, <1>4

LEMMA BreakAs == ASSUME Shape, Break PROVE Jumps
  <1>1. PICK i \in DOMAIN stack, over \in BOOLEAN :
          stack[i].type = "loop" /\ JumpTo(i, [stack[i] EXCEPT !.over = over])
    BY DEF Break
  <1>. DEFINE g == [stack[i] EXCEPT !.over = over]
  <1>2. i \in 1 .. Len(stack) /\ stack[i].type # "pipeline"
    BY <1>1, TopFacts
  <1>3. stack[i] \in ListFrame
    BY <1>2, ListOf
  <1>4. g \in ListFrame /\ g.type = stack[i].type /\ g.phase = stack[i].phase
        /\ g.reader = stack[i].reader /\ g.saved = stack[i].saved
    BY <1>3 DEF ListFrame
  <1>5. JumpTo(i, g) /\ UNCHANGED <<procs, pipes, started, failed>>
    BY <1>1 DEF Break
  <1>. HIDE DEF g
  <1>. QED  BY <1>2, <1>4, <1>5, JumpToAs

LEMMA JumpsAs ==
    ASSUME Shape, Jumps
    PROVE  \E i \in 1 .. Len(stack), g \in ListFrame :
             /\ Cut(i, g) /\ stack[i] \in ListFrame /\ g.type # "pipeline"
             /\ stack' = [SubSeq(stack, 1, i) EXCEPT ![i] = g] /\ stack' \in Seq(Frame)
             /\ g.type = stack[i].type /\ g.phase = stack[i].phase
             /\ g.reader = stack[i].reader /\ g.saved = stack[i].saved
  <1>1. PICK i \in 1 .. Len(stack), g \in ListFrame :
             /\ stack[i] \in ListFrame /\ stack' = [SubSeq(stack, 1, i) EXCEPT ![i] = g]
             /\ g.type = stack[i].type /\ g.phase = stack[i].phase
             /\ g.reader = stack[i].reader /\ g.saved = stack[i].saved
    BY DEF Jumps
  <1>2. g.type # "pipeline"
    BY DEF ListFrame
  <1>3. Cut(i, g) /\ stack' \in Seq(Frame)
    BY <1>1, TopFacts, SubSeqSetCuts DEF Frame
  <1>. QED  BY <1>1, <1>2, <1>3

LEMMA JumpsShape == ASSUME Shape, Jumps PROVE Shape'
  <1>1. Typed' /\ Grown
    BY TypedKept DEF Jumps, Shape, Typed
  <1>2. PICK i \in 1 .. Len(stack), g \in ListFrame :
             /\ Cut(i, g) /\ stack' \in Seq(Frame) /\ g.type # "pipeline"
             /\ g.type = stack[i].type /\ g.phase = stack[i].phase
    BY JumpsAs
  <1>3. FrameOK(stack[i], Len(procs), Len(pipes))
    BY DEF Shape, Stacked
  <1>4. FrameOK(g, Len(procs'), Len(pipes'))
    BY <1>2, <1>3 DEF FrameOK
  <1>. QED  BY <1>1, <1>2, <1>4, StackCut DEF Shape

LEMMA ExitShape == ASSUME Shape, NEW status \in Code, Exit(status) PROVE Shape'
  <1>1. CASE Jumps
    BY <1>1, JumpsShape
  <1>2. CASE /\ shell' = "exited" /\ fds' = NoTable
             /\ UNCHANGED <<stack, procs, pipes, started, failed, jumped>>
    BY <1>2, FailedStep
  <1>. QED  BY <1>1, <1>2, ExitAs

LEMMA BreakShape == ASSUME Shape, Break PROVE Shape'
  BY BreakAs, JumpsShape

LEMMA SubstitutionAbortsShape == ASSUME Shape, SubstitutionAborts PROVE Shape'
  BY FailedStep DEF SubstitutionAborts

----------------------------------------------------------------------------
(* A pipeline begins *)

LEMMA NewPipeline ==
    ASSUME NEW n \in 1 .. MaxCmds, NEW kinds \in [1 .. n -> Kind], NEW negate \in BOOLEAN, Shape
    PROVE  LET f == PipelineOf(kinds, negate) IN
           /\ f \in PipelineFrame /\ PipelineOK(f, Len(procs), Len(pipes))
           /\ f.type = "pipeline" /\ f.phase = "pipe" /\ f.k = 1 /\ f.in = 0
           /\ f.saved = <<>> /\ f.fd = <<-1, -1>> /\ f.first = Len(pipes)
           /\ Len(f.cmds) = n /\ f.negate = negate /\ f.left = 0
           /\ \A j \in 1 .. n : f.cmds[j] = Node(kinds[j])
  <1>. DEFINE cmds == [i \in 1 .. n |-> Node(kinds[i])]
              f == PipelineOf(kinds, negate)
  <1>1. n \in Nat /\ n >= 1 /\ 0 \in Fd /\ Len(procs) \in Nat /\ Len(pipes) \in Nat
    BY PipelineAssumption, FdFacts, Counts
  <1>2. ASSUME NEW i \in 1 .. n
        PROVE  Node(kinds[i]) \in NodeSet
    <2>1. kinds[i] \in Kind /\ 0 \in Nat /\ 0 \in Int /\ -1 \in Int /\ 0 \in Status
      BY DEF Status
    <2>. QED  BY <2>1 DEF Node, NodeSet
  <1>3. cmds \in Seq(NodeSet) /\ Len(cmds) = n /\ \A j \in 1 .. n : cmds[j] = Node(kinds[j])
    BY <1>1, <1>2
  <1>4. f.cmds = cmds
    BY DEF PipelineOf
  <1>5. /\ f.type = "pipeline" /\ f.phase = "pipe" /\ f.k = 1 /\ f.in = 0
        /\ f.saved = <<>> /\ f.fd = <<-1, -1>> /\ f.first = Len(pipes)
        /\ f.negate = negate /\ f.left = 0
    BY DEF PipelineOf
  <1>. HIDE DEF cmds
  <1>6. f = [type |-> "pipeline", phase |-> "pipe", negate |-> negate, cmds |-> cmds,
             k |-> 1, in |-> 0, fd |-> <<-1, -1>>, saved |-> <<>>, left |-> 0,
             first |-> Len(pipes)]
    BY <1>4 DEF PipelineOf
  <1>7. f \in PipelineFrame
    <2>. DEFINE e == <<>>
                d == <<-1, -1>>
                q == Len(pipes)
    <2>1. e \in Seq(Fd) /\ q \in Nat /\ 1 \in Nat /\ 0 \in Nat
      BY <1>1
    <2>. HIDE DEF e, d, q
    <2>2. [type |-> "pipeline", phase |-> "pipe", negate |-> negate, cmds |-> cmds,
           k |-> 1, in |-> 0, fd |-> d, saved |-> e, left |-> 0, first |-> q]
          \in PipelineFrame
      BY <1>1, <1>3, <2>1 DEF PipelineFrame, Phases, d
    <2>. QED  BY <1>6, <2>2 DEF e, d, q
  <1>. HIDE DEF f
  <1>8. ASSUME NEW j \in 1 .. n
        PROVE  NodeOK(f, j, Len(procs)) /\ f.cmds[j].child = 0
    <2>1. f.cmds[j] = Node(kinds[j])
      BY <1>3, <1>4
    <2>2. f.cmds[j].child = 0 /\ f.cmds[j].pid \in {-1, 0}
          /\ (f.cmds[j].pid = 0 => f.cmds[j].kind = "fundec")
      BY <2>1 DEF Node
    <2>. QED  BY <1>1, <2>2 DEF NodeOK
  <1>9. PipelineOK(f, Len(procs), Len(pipes))
    BY <1>1, <1>3, <1>4, <1>5, <1>7, <1>8 DEF PipelineOK, SavedOK, Inside
  <1>. QED  BY <1>3, <1>4, <1>5, <1>7, <1>9 DEF f

LEMMA StartPipelineAs ==
    ASSUME Shape, NEW n \in 1 .. MaxCmds, NEW kinds \in [1 .. n -> Kind],
           NEW negate \in Negations, StartPipeline(kinds, negate)
    PROVE  LET g == [Top EXCEPT !.ran = TRUE]
               f == PipelineOf(kinds, negate)
           IN /\ g \in ListFrame /\ g.type = Top.type /\ g.phase = "run" /\ g.std = Top.std
              /\ g.reader = Top.reader /\ g.saved = Top.saved /\ g.status = Top.status
              /\ negate \in BOOLEAN
              /\ Pushed(g, f) /\ stack' \in Seq(Frame)
  <1>. DEFINE g == [Top EXCEPT !.ran = TRUE]
              f == PipelineOf(kinds, negate)
  <1>1. Top \in ListFrame /\ Top.phase = "run"
    BY ListAt DEF StartPipeline
  <1>2. g \in ListFrame /\ g.type = Top.type /\ g.phase = "run" /\ g.std = Top.std
        /\ g.reader = Top.reader /\ g.saved = Top.saved /\ g.status = Top.status
    BY <1>1 DEF ListFrame
  <1>3. negate \in BOOLEAN
    BY DEF Negations
  <1>4. f \in PipelineFrame
    BY <1>3, NewPipeline
  <1>5. stack' = Append([stack EXCEPT ![Len(stack)] = g], f)
    BY DEF StartPipeline, Top
  <1>. HIDE DEF f, g
  <1>6. Pushed(g, f) /\ stack' \in Seq(Frame)
    BY <1>2, <1>4, <1>5, TopFacts, SetPushPushes DEF Frame
  <1>. QED  BY <1>2, <1>3, <1>6 DEF f, g

LEMMA StartPipelineShape ==
    ASSUME Shape, NEW n \in 1 .. MaxCmds, NEW kinds \in [1 .. n -> Kind],
           NEW negate \in Negations, StartPipeline(kinds, negate)
    PROVE  Shape'
  <1>. DEFINE g == [Top EXCEPT !.ran = TRUE]
              f == PipelineOf(kinds, negate)
  <1>1. g \in ListFrame /\ g.type = Top.type /\ g.phase = "run"
        /\ negate \in BOOLEAN /\ Pushed(g, f) /\ stack' \in Seq(Frame)
    BY StartPipelineAs
  <1>2. PipelineOK(f, Len(procs), Len(pipes)) /\ f.type = "pipeline"
    BY <1>1, NewPipeline
  <1>. HIDE DEF f, g
  <1>3. UNCHANGED <<shell, fds, procs, pipes, failed>> /\ started' = started + 1
        /\ started < MaxPipelines /\ Len(stack) + 2 <= MaxDepth
    BY DEF StartPipeline
  <1>4. Typed' /\ Grown
    <2>1. started \in 0 .. MaxPipelines /\ MaxPipelines \in Nat
      BY PipelineAssumption DEF Shape, Typed
    <2>2. started' \in 0 .. MaxPipelines
      BY <1>3, <2>1
    <2>. QED  BY <1>3, <2>2, Counts DEF Shape, Typed, Grown
  <1>5. g.type # "pipeline" /\ Top.type # "pipeline" /\ FrameOK(g, Len(procs'), Len(pipes'))
    BY <1>1, <1>3 DEF ListFrame, FrameOK
  <1>6. FrameOK(f, Len(procs'), Len(pipes'))
    BY <1>2, <1>3 DEF FrameOK
  <1>7. Len(stack) + 1 <= MaxDepth /\ Len(stack) + 1 < MaxDepth
    BY <1>3, TopFacts, PipelineAssumption
  <1>8. f.type # "top"
    BY <1>2
  <1>9. g.phase = IF g.type = "pipeline" THEN "args" ELSE "run"
    BY <1>1, <1>5
  <1>. QED  BY <1>1, <1>2, <1>4, <1>5, <1>6, <1>7, <1>8, <1>9, StackPushed DEF Shape

----------------------------------------------------------------------------
(* The processes *)

LEMMA DeadTyped ==
    ASSUME Shape, NEW p \in DOMAIN procs, NEW status \in Exits
    PROVE  LET r == Dead(p, status) IN
           /\ r \in Process(Len(pipes)) /\ r.state = "exited" /\ r.fds = NoTable
           /\ r.left = 0 /\ r.drains = FALSE /\ r.status = status
  <1>. DEFINE a == [procs[p] EXCEPT !.state = "exited"]
              b == [a EXCEPT !.fds = NoTable]
              c == [b EXCEPT !.left = 0]
              d == [c EXCEPT !.drains = FALSE]
              e == [d EXCEPT !.status = status]
  <1>1. a \in Process(Len(pipes)) /\ a.state = "exited"
    BY ProcAt DEF Process
  <1>. HIDE DEF a
  <1>2. b \in Process(Len(pipes)) /\ b.fds = NoTable /\ b.state = "exited"
    BY <1>1, NoTableTable DEF Process
  <1>. HIDE DEF b
  <1>3. c \in Process(Len(pipes)) /\ c.fds = NoTable /\ c.state = "exited" /\ c.left = 0
    BY <1>2 DEF Process
  <1>. HIDE DEF c
  <1>4. d \in Process(Len(pipes)) /\ d.fds = NoTable /\ d.state = "exited" /\ d.left = 0
        /\ d.drains = FALSE
    BY <1>3 DEF Process
  <1>. HIDE DEF d
  <1>5. e \in Process(Len(pipes)) /\ e.fds = NoTable /\ e.state = "exited" /\ e.left = 0
        /\ e.drains = FALSE /\ e.status = status
    BY <1>4 DEF Process
  <1>6. Dead(p, status) = e
    BY DEF Dead, a, b, c, d
  <1>. HIDE DEF e
  <1>. QED  BY <1>5, <1>6

LEMMA ExecTyped ==
    ASSUME Shape, NEW p \in DOMAIN procs, NEW left \in Nat, NEW drains \in BOOLEAN
    PROVE  LET t == procs[p].fds
               u == [x \in DOMAIN t |-> IF t[x].cloexec THEN Closed ELSE t[x]]
               r == [procs[p] EXCEPT !.state = "running", !.left = left,
                                     !.drains = drains, !.fds = u]
           IN /\ r \in Process(Len(pipes)) /\ r.state = "running" /\ r.fds = u
              /\ DOMAIN t = Fd
  <1>. DEFINE t == procs[p].fds
              u == [x \in DOMAIN t |-> IF t[x].cloexec THEN Closed ELSE t[x]]
              a == [procs[p] EXCEPT !.state = "running"]
              b == [a EXCEPT !.left = left]
              c == [b EXCEPT !.drains = drains]
              d == [c EXCEPT !.fds = u]
  <1>1. procs[p] \in Process(Len(pipes))
    BY ProcAt
  <1>2. t \in Table(Len(pipes))
    BY <1>1 DEF Process
  <1>. HIDE DEF t
  <1>3. u \in Table(Len(pipes)) /\ DOMAIN t = Fd
    BY <1>2, ClosedEntry DEF Table
  <1>. HIDE DEF u
  <1>4. a \in Process(Len(pipes)) /\ a.state = "running"
    BY <1>1 DEF Process
  <1>. HIDE DEF a
  <1>5. b \in Process(Len(pipes)) /\ b.state = "running"
    BY <1>4 DEF Process
  <1>. HIDE DEF b
  <1>6. c \in Process(Len(pipes)) /\ c.state = "running"
    BY <1>5 DEF Process
  <1>. HIDE DEF c
  <1>7. d \in Process(Len(pipes)) /\ d.state = "running" /\ d.fds = u
    BY <1>3, <1>6 DEF Process
  <1>8. [procs[p] EXCEPT !.state = "running", !.left = left, !.drains = drains, !.fds = u] = d
    BY DEF a, b, c
  <1>. HIDE DEF d
  <1>. QED  BY <1>3, <1>7, <1>8 DEF t, u

\* A process that may still do something.
Ready(r) == r.state \in {"forked", "running"} \/ r.left > 0 \/ r.drains

Executed(t) == [x \in DOMAIN t |-> IF t[x].cloexec THEN Closed ELSE t[x]]

\* What a step of a process makes of its record.
BecomesEnded(p, r)   == r.state = "exited" /\ r.fds = NoTable /\ r.left = 0 /\ r.drains = FALSE
BecomesRunning(p, r) == r.state = "running" /\ procs[p].state = "forked" /\ r.fds = Executed(procs[p].fds)
GoesOn(p, r)         == r.state = procs[p].state /\ r.fds = procs[p].fds

LEMMA ProcStepAs ==
    ASSUME Shape, NEW p \in DOMAIN procs, ProcStep(p)
    PROVE  /\ UNCHANGED <<shell, fds, stack, started, failed>>
           /\ pipes' \in Seq(0 .. Capacity) /\ Len(pipes') = Len(pipes)
           /\ Ready(procs[p])
           /\ \/ UNCHANGED procs
              \/ \E r \in Process(Len(pipes)) :
                   SetProc(p, r) /\ (BecomesEnded(p, r) \/ BecomesRunning(p, r) \/ GoesOn(p, r))
  <1>1. pipes \in Seq(0 .. Capacity) /\ procs[p] \in Process(Len(pipes))
    BY ProcAt DEF Shape, Typed
  <1>2. procs[p].left \in Nat /\ procs[p].fds \in Table(Len(pipes))
    BY <1>1 DEF Process
  <1>3. CASE Exec(p)
    <2>1. PICK left \in 0 .. MaxOut, drains \in BOOLEAN :
            SetProc(p, [procs[p] EXCEPT !.state = "running", !.left = left,
                                        !.drains = drains, !.fds = Executed(procs[p].fds)])
      BY <1>3 DEF Exec, Executed
    <2>. DEFINE r == [procs[p] EXCEPT !.state = "running", !.left = left,
                                      !.drains = drains, !.fds = Executed(procs[p].fds)]
    <2>2. left \in Nat
      BY PipelineAssumption
    <2>3. r \in Process(Len(pipes)) /\ r.state = "running" /\ r.fds = Executed(procs[p].fds)
      BY <2>2, ExecTyped DEF Executed
    <2>. HIDE DEF r
    <2>4. SetProc(p, r)
      BY <2>1 DEF r
    <2>. QED  BY <1>1, <1>3, <2>3, <2>4 DEF Exec, BecomesRunning, Ready
  <1>4. CASE ExecFails(p)
    <2>1. 127 \in Exits
      BY DEF Exits
    <2>2. Dead(p, 127) \in Process(Len(pipes)) /\ BecomesEnded(p, Dead(p, 127))
      BY <2>1, DeadTyped DEF BecomesEnded
    <2>. QED  BY <1>1, <1>4, <2>2 DEF ExecFails, Ready
  <1>5. CASE ProcWrites(p)
    <2>. DEFINE f == procs[p].fds[1].file
                x == procs[p].left - 1
                r == [procs[p] EXCEPT !.left = x]
    <2>1. f \in Files(Len(pipes)) \cup {NoFile}
      BY <1>2, FileOf, FdFacts
    <2>2. CanWrite(f) /\ pipes' = Written(f) /\ SetProc(p, r) /\ x \in Nat
      BY <1>2, <1>5 DEF ProcWrites
    <2>3. pipes' \in Seq(0 .. Capacity) /\ Len(pipes') = Len(pipes)
      BY <2>1, <2>2, WrittenTyped
    <2>4. r \in Process(Len(pipes)) /\ GoesOn(p, r)
      <3>1. x \in Nat
        BY <2>2
      <3>. HIDE DEF x
      <3>. QED  BY <1>1, <3>1 DEF Process, GoesOn
    <2>. QED  BY <1>5, <2>2, <2>3, <2>4 DEF ProcWrites, Ready
  <1>6. CASE ProcBrokenPipe(p)
    <2>1. 0 \in Exits
      BY DEF Exits
    <2>2. Dead(p, 0) \in Process(Len(pipes)) /\ BecomesEnded(p, Dead(p, 0))
      BY <2>1, DeadTyped DEF BecomesEnded
    <2>. QED  BY <1>1, <1>6, <2>2 DEF ProcBrokenPipe, Ready
  <1>7. CASE ProcReads(p)
    <2>. DEFINE r == [procs[p] EXCEPT !.drains = FALSE]
                x == procs[p].fds[0].file[2]
    <2>1. procs[p].drains /\ UNCHANGED <<shell, fds, stack, started, failed>>
      BY <1>7 DEF ProcReads
    <2>2. \/ pipes[x] > 0 /\ pipes' = [pipes EXCEPT ![x] = @ - 1] /\ UNCHANGED procs
          \/ SetProc(p, r) /\ UNCHANGED pipes
      BY <1>7 DEF ProcReads
    <2>3. r \in Process(Len(pipes)) /\ GoesOn(p, r)
      BY <1>1 DEF Process, GoesOn
    <2>. HIDE DEF r, x
    <2>4. pipes' \in Seq(0 .. Capacity) /\ Len(pipes') = Len(pipes)
      <3>. DEFINE q == [pipes EXCEPT ![x] = @ - 1]
      <3>1. pipes[x] > 0 => q \in Seq(0 .. Capacity) /\ Len(q) = Len(pipes)
        BY TakenTyped
      <3>2. (pipes[x] > 0 /\ pipes' = q) \/ pipes' = pipes
        BY <2>2
      <3>. HIDE DEF q
      <3>. QED  BY <1>1, <3>1, <3>2
    <2>5. Ready(procs[p])
      BY <2>1, Zenon DEF Ready
    <2>6. UNCHANGED procs \/ SetProc(p, r)
      BY <2>2
    <2>. QED  BY <2>1, <2>3, <2>4, <2>5, <2>6
  <1>8. CASE ProcExits(p)
    <2>1. PICK c \in Code : SetProc(p, Dead(p, c))
      BY <1>8 DEF ProcExits
    <2>2. Dead(p, c) \in Process(Len(pipes)) /\ BecomesEnded(p, Dead(p, c))
      BY DeadTyped DEF Exits, BecomesEnded
    <2>. QED  BY <1>1, <1>8, <2>1, <2>2 DEF ProcExits, Ready
  <1>. QED  BY <1>3, <1>4, <1>5, <1>6, <1>7, <1>8 DEF ProcStep

LEMMA ProcStepShape == ASSUME Shape, NEW p \in DOMAIN procs, ProcStep(p) PROVE Shape'
  <1>1. procs' \in Seq(Process(Len(pipes))) /\ Len(procs') = Len(procs)
    BY ProcStepAs, SetProcTyped DEF Shape, Typed
  <1>2. Typed' /\ Grown
    BY <1>1, ProcStepAs, TypedBytes
  <1>. QED  BY <1>2, ProcStepAs, StackKept DEF Shape

----------------------------------------------------------------------------
(* The invariant holds *)

LEMMA InitShape == ASSUME Init PROVE Shape
  <1>. DEFINE std == [x \in 0 .. 2 |-> Tty]
              f == List("top", std)
  <1>1. fds \in Table(0)
    <2>1. Terminal \in Entry(0) /\ NoTable \in Table(0)
      BY NoTableTable DEF Terminal, Entry, Files
    <2>. QED  BY <2>1 DEF Init, Table
  <1>2. procs = <<>> /\ pipes = <<>> /\ stack = <<f>> /\ shell = "alive" /\ started = 0
        /\ failed = FALSE
    BY DEF Init
  <1>3. f \in ListFrame /\ f.type = "top" /\ f.phase = "run"
    <2>1. std \in [0 .. 2 -> AnyFile]
      BY DEF AnyFile
    <2>. HIDE DEF std
    <2>. QED  BY <2>1 DEF List, ListFrame, Status
  <1>. HIDE DEF f
  <1>4. Typed
    <2>1. Len(pipes) = 0 /\ procs \in Seq(Process(0)) /\ pipes \in Seq(0 .. Capacity)
      BY <1>2
    <2>2. started \in 0 .. MaxPipelines
      BY <1>2, PipelineAssumption
    <2>. QED  BY <1>1, <1>2, <2>1, <2>2 DEF Typed
  <1>5. Stacked
    <2>1. stack \in Seq(Frame) /\ Len(stack) = 1 /\ stack[1] = f
      BY <1>2, <1>3 DEF Frame
    <2>2. FrameOK(f, Len(procs), Len(pipes)) /\ f.type # "pipeline"
      BY <1>3 DEF FrameOK
    <2>. QED  BY <1>3, <2>1, <2>2, PipelineAssumption DEF Stacked
  <1>. QED  BY <1>4, <1>5 DEF Shape

LEMMA NextShape == ASSUME Shape, [Next]_vars PROVE Shape'
  <1>1. CASE ShellStep
    BY <1>1, StartPipelineShape, MakePipeShape, PipeFailsShape, SaveDescriptorShape,
       SaveFailsShape, RestoreDescriptorsShape, NextCommandShape, RedirectionShape,
       BuiltinShape, BuiltinWritesShape, BuiltinReturnsShape, ForkShape, EnterGroupShape,
       EndGroupShape, WaitShape, BeginSubstitutionShape, SubstitutionAbortsShape,
       EndSubstitutionShape, ReadByteShape, ReadEndShape, ExitShape, BreakShape
       DEF ShellStep
  <1>2. CASE \E p \in DOMAIN procs : ProcStep(p)
    BY <1>2, ProcStepShape
  <1>3. CASE UNCHANGED vars
    BY <1>3 DEF vars, Shape, Stacked, Typed
  <1>. QED  BY <1>1, <1>2, <1>3 DEF Next

\* In every state the stack holds lists and pipelines in turn, from the top list
\* to the innermost, each waiting for the one above it; a pipeline is at one of
\* its commands with what __piperun knows at that point, its nodes name processes
\* that were forked, a process for one node at most; every table, process and pipe
\* has its type.
THEOREM ShapeHolds == Spec => []Shape
  <1>1. Init => Shape
    BY InitShape
  <1>2. Shape /\ [Next]_vars => Shape'
    BY NextShape
  <1>. QED  BY <1>1, <1>2, PTL DEF Spec

----------------------------------------------------------------------------
(* The processes of the pipelines *)

\* g goes on with the commands of f, and with their processes.
SameRun(f, g) ==
    /\ g.type = f.type
    /\ f.type = "pipeline" =>
         /\ Len(g.cmds) = Len(f.cmds)
         /\ \A j \in 1 .. Len(f.cmds) :
              g.cmds[j].child = f.cmds[j].child /\ g.cmds[j].kind = f.cmds[j].kind
         /\ g.phase = "wait" => g.k = 1

\* The frame on top goes on, or the list on top ends and the pipeline below it
\* goes on.
RunsOn ==
    /\ UNCHANGED procs
    /\ \E n, g : /\ Cut(n, g) /\ SameRun(stack[n], g)
                 /\ n = Len(stack) \/ (n = Len(stack) - 1 /\ Top.type # "pipeline")

NoChild(f) == f.type = "pipeline" => \A j \in 1 .. Len(f.cmds) : f.cmds[j].child = 0

\* A list or a pipeline begins.
Begins ==
    /\ UNCHANGED procs
    /\ \E g, f : Pushed(g, f) /\ g.type = Top.type /\ NoChild(f)
                 /\ (g = Top \/ Top.type # "pipeline")

Waits == WaitChild \/ WaitAny \/ NoWait

LEMMA TopRuns ==
    ASSUME Shape, NEW g, SetTop(g), SameRun(Top, g), UNCHANGED procs
    PROVE  RunsOn
  BY TopFacts, SetTopCuts DEF RunsOn

\* Assignments that leave the commands of a pipeline alone.
LEMMA SameCommands ==
    ASSUME NEW f, f.type = "pipeline", NEW g, g.type = "pipeline", g.cmds = f.cmds,
           g.phase = "wait" => g.k = 1
    PROVE  SameRun(f, g)
  BY DEF SameRun

\* An assignment to the status of a command.
LEMMA SameChildren ==
    ASSUME NEW f \in PipelineFrame, NEW k \in 1 .. Len(f.cmds), NEW status,
           NEW g, g.type = "pipeline", g.cmds = [f.cmds EXCEPT ![k].status = status],
           g.phase # "wait"
    PROVE  SameRun(f, g)
  <1>1. f.cmds \in Seq(NodeSet) /\ f.type = "pipeline"
    BY FieldsOf
  <1>2. f.cmds[k] \in NodeSet
    BY <1>1
  <1>. DEFINE c == [f.cmds[k] EXCEPT !.status = status]
  <1>3. c.child = f.cmds[k].child /\ c.kind = f.cmds[k].kind
    BY <1>2 DEF NodeSet
  <1>4. g.cmds = [f.cmds EXCEPT ![k] = c]
    OBVIOUS
  <1>. HIDE DEF c
  <1>5. Len(g.cmds) = Len(f.cmds) /\ g.cmds[k] = c
        /\ \A j \in 1 .. Len(f.cmds) : j # k => g.cmds[j] = f.cmds[j]
    <2>1. f.cmds \in Seq(NodeSet \cup {c})
      BY <1>1
    <2>. QED  BY <1>4, <2>1, SeqSet
  <1>. QED  BY <1>1, <1>3, <1>5 DEF SameRun

LEMMA RunStep ==
    ASSUME Shape,
           MakePipe \/ PipeFails \/ SaveDescriptor \/ SaveFails \/ RestoreDescriptors
           \/ NextCommand \/ BuiltinWrites \/ BuiltinReturns
    PROVE  RunsOn
  <1>1. Top \in PipelineFrame /\ Top.type = "pipeline" /\ UNCHANGED procs /\ Top.phase # "wait"
    <2>1. PICK phase : InPipeline(phase) /\ phase # "wait" /\ UNCHANGED procs
      BY DEF MakePipe, PipeFails, SaveDescriptor, SaveFails, RestoreDescriptors,
         NextCommand, BuiltinWrites, BuiltinReturns
    <2>. QED  BY <2>1, PipelineAt
  <1>2. ASSUME NEW g, SetTop(g), g.type = "pipeline", g.cmds = Top.cmds, g.phase = "wait" => g.k = 1
        PROVE  RunsOn
    BY <1>1, <1>2, SameCommands, TopRuns
  <1>3. CASE MakePipe
    <2>. DEFINE g(r, w) == [Top EXCEPT !.fd = <<r, w>>,
                       !.phase = IF Cmd.kind = "fundec" THEN "next" ELSE "save"]
    <2>1. PICK r, w : SetTop(g(r, w))
      BY <1>3 DEF MakePipe
    <2>2. g(r, w).type = "pipeline" /\ g(r, w).cmds = Top.cmds /\ g(r, w).phase # "wait"
      BY <1>1 DEF PipelineFrame
    <2>. HIDE DEF g
    <2>. QED  BY <1>2, <2>1, <2>2
  <1>4. CASE PipeFails
    <2>. DEFINE g == [Top EXCEPT !.phase = "wait", !.k = 1]
    <2>1. SetTop(g)
      BY <1>4 DEF PipeFails
    <2>2. g.type = "pipeline" /\ g.cmds = Top.cmds /\ g.k = 1
      BY <1>1 DEF PipelineFrame
    <2>. HIDE DEF g
    <2>. QED  BY <1>2, <2>1, <2>2
  <1>5. CASE SaveDescriptor
    <2>. DEFINE g(n) == [Top EXCEPT !.saved = Append(@, n),
                                !.phase = IF Len(Top.saved) = 2 THEN "args" ELSE "save"]
    <2>1. SetTop(g(Lowest(Free(fds))))
      BY <1>5 DEF SaveDescriptor
    <2>2. PICK n : SetTop(g(n))
      BY <2>1
    <2>3. g(n).type = "pipeline" /\ g(n).cmds = Top.cmds /\ g(n).phase # "wait"
      BY <1>1 DEF PipelineFrame
    <2>. HIDE DEF g
    <2>. QED  BY <1>2, <2>2, <2>3
  <1>6. CASE SaveFails \/ RestoreDescriptors
    <2>. DEFINE g == [Top EXCEPT !.phase = "next", !.saved = <<>>]
    <2>1. SetTop(g)
      BY <1>6 DEF SaveFails, RestoreDescriptors
    <2>2. g.type = "pipeline" /\ g.cmds = Top.cmds /\ g.phase # "wait"
      BY <1>1 DEF PipelineFrame
    <2>. HIDE DEF g
    <2>. QED  BY <1>2, <2>1, <2>2
  <1>7. CASE NextCommand
    <2>. DEFINE on   == [Top EXCEPT !.in = Top.fd[1], !.k = @ + 1, !.phase = "pipe"]
                last == [Top EXCEPT !.k = 1, !.phase = "wait"]
    <2>1. SetTop(on) \/ SetTop(last)
      BY <1>7 DEF NextCommand
    <2>2. on.type = "pipeline" /\ on.cmds = Top.cmds /\ on.phase # "wait"
      BY <1>1 DEF PipelineFrame
    <2>3. last.type = "pipeline" /\ last.cmds = Top.cmds /\ last.k = 1
      BY <1>1 DEF PipelineFrame
    <2>. HIDE DEF on, last
    <2>. QED  BY <1>2, <2>1, <2>2, <2>3
  <1>8. CASE BuiltinWrites
    <2>. DEFINE g == [Top EXCEPT !.left = @ - 1]
    <2>1. SetTop(g)
      BY <1>8 DEF BuiltinWrites
    <2>2. g.type = "pipeline" /\ g.cmds = Top.cmds /\ g.phase # "wait"
      BY <1>1 DEF PipelineFrame
    <2>. HIDE DEF g
    <2>. QED  BY <1>2, <2>1, <2>2
  <1>9. CASE BuiltinReturns
    <2>. DEFINE g == [Top EXCEPT !.phase = "restore"]
    <2>1. SetTop(g)
      BY <1>9 DEF BuiltinReturns
    <2>2. g.type = "pipeline" /\ g.cmds = Top.cmds /\ g.phase # "wait"
      BY <1>1 DEF PipelineFrame
    <2>. HIDE DEF g
    <2>. QED  BY <1>2, <2>1, <2>2
  <1>. QED  BY <1>3, <1>4, <1>5, <1>6, <1>7, <1>8, <1>9

LEMMA BuiltinRuns ==
    ASSUME Shape, NEW left, NEW status, Builtin(left, status)
    PROVE  RunsOn
  <1>. DEFINE g == [Top EXCEPT !.phase = "builtin", !.left = left, !.cmds[Top.k].status = status]
  <1>1. Top \in PipelineFrame /\ Top.type = "pipeline" /\ Top.k \in 1 .. Len(Top.cmds)
    BY PipelineAt DEF Builtin
  <1>2. g.type = "pipeline" /\ g.cmds = [Top.cmds EXCEPT ![Top.k].status = status]
        /\ g.phase = "builtin"
    BY <1>1 DEF PipelineFrame
  <1>3. SetTop(g) /\ UNCHANGED procs
    BY DEF Builtin
  <1>. HIDE DEF g
  <1>. QED  BY <1>1, <1>2, <1>3, SameChildren, TopRuns

LEMMA EndGroupRuns == ASSUME Shape, EndGroup PROVE RunsOn
  <1>. DEFINE n == Len(stack) - 1
              f == stack[n]
              s == EndStatus
              g == [f EXCEPT !.phase = "restore", !.cmds[f.k].status = s]
  <1>1. Top.type # "pipeline" /\ Top.type # "top"
    BY EndGroupAs
  <1>2. n \in 1 .. Len(stack) /\ n # 0 /\ PipelineOK(f, Len(procs), Len(pipes)) /\ f \in PipelineFrame
        /\ f.type = "pipeline"
    BY <1>1, BelowList
  <1>3. stack' = Append(SubSeq(stack, 1, n - 1), g) /\ UNCHANGED procs
    BY EndGroupAs
  <1>. HIDE DEF n
  <1>4. f.k \in 1 .. Len(f.cmds)
    BY <1>2 DEF PipelineOK
  <1>5. g.type = "pipeline" /\ g.cmds = [f.cmds EXCEPT ![f.k].status = s]
        /\ g.phase = "restore"
    <2>. HIDE DEF f, s
    <2>. QED  BY <1>2 DEF PipelineFrame
  <1>. HIDE DEF g
  <1>6. SameRun(f, g)
    BY <1>2, <1>4, <1>5, SameChildren
  <1>7. Cut(n, g)
    BY <1>2, <1>3, TopFacts, AppendCuts
  <1>. QED  BY <1>1, <1>3, <1>6, <1>7 DEF RunsOn, n, f

LEMMA ListEnds ==
    ASSUME Shape, EndSubstitution \/ ReadEnd
    PROVE  RunsOn
  <1>1. CASE EndSubstitution
    <2>. DEFINE g == [Top EXCEPT !.phase = "read"]
    <2>1. Top \in ListFrame /\ Top.type # "pipeline"
      BY <1>1, ListAt DEF EndSubstitution
    <2>2. g.type = Top.type
      BY <2>1 DEF ListFrame
    <2>3. SetTop(g) /\ UNCHANGED procs
      BY <1>1 DEF EndSubstitution
    <2>. HIDE DEF g
    <2>. QED  BY <2>1, <2>2, <2>3, TopRuns DEF SameRun
  <1>2. CASE ReadEnd
    <2>. DEFINE n == Len(stack) - 1
    <2>1. Top.type # "pipeline" /\ Top.type # "top"
      BY <1>2 DEF ReadEnd, Reading
    <2>2. n \in 1 .. Len(stack) /\ stack[n].type = "pipeline" /\ stack[n].phase = "args"
      BY <2>1, BelowList
    <2>3. stack' = SubSeq(stack, 1, n) /\ UNCHANGED procs
      BY <1>2 DEF ReadEnd
    <2>. HIDE DEF n
    <2>4. Cut(n, stack[n])
      BY <2>2, <2>3, TopFacts, SubSeqCuts
    <2>5. SameRun(stack[n], stack[n])
      BY <2>2, SameCommands
    <2>. QED  BY <2>1, <2>3, <2>4, <2>5 DEF RunsOn, n
  <1>. QED  BY <1>1, <1>2

LEMMA BeginStep ==
    ASSUME Shape
    PROVE  /\ EnterGroup => Begins
           /\ BeginSubstitution => Begins
           /\ \A n \in 1 .. MaxCmds : \A kinds \in [1 .. n -> Kind], negate \in Negations :
                StartPipeline(kinds, negate) => Begins
  <1>1. ASSUME EnterGroup
        PROVE  Begins
    <2>0. PICK of \in Compound : Push(List(of, Std(fds)))
      BY <1>1 DEF EnterGroup
    <2>. DEFINE f == List(of, Std(fds))
    <2>1. Push(f) /\ UNCHANGED procs
      BY <1>1, <2>0 DEF EnterGroup
    <2>2. f.type # "pipeline"
      BY CompoundList DEF List
    <2>. HIDE DEF f
    <2>. QED  BY <2>1, <2>2, TopFacts, PushPushes DEF Begins, NoChild
  <1>2. ASSUME BeginSubstitution
        PROVE  Begins
    <2>. DEFINE f(r, n) == [List("subst", Std(fds')) EXCEPT !.reader = r, !.saved = n]
    <2>1. PICK r, n : Push(f(r, n))
      BY <1>2, BeginSubstitutionAs
    <2>2. f(r, n).type # "pipeline"
      BY DEF List
    <2>. HIDE DEF f
    <2>3. UNCHANGED procs
      BY <1>2 DEF BeginSubstitution
    <2>. QED  BY <2>1, <2>2, <2>3, TopFacts, PushPushes DEF Begins, NoChild
  <1>3. ASSUME NEW n \in 1 .. MaxCmds, NEW kinds \in [1 .. n -> Kind],
               NEW negate \in Negations, StartPipeline(kinds, negate)
        PROVE  Begins
    <2>. DEFINE g == [Top EXCEPT !.ran = TRUE]
                f == PipelineOf(kinds, negate)
    <2>1. g.type = Top.type /\ Pushed(g, f) /\ negate \in BOOLEAN
      BY <1>3, StartPipelineAs
    <2>2. Len(f.cmds) = n /\ \A j \in 1 .. n : f.cmds[j] = Node(kinds[j])
      BY <2>1, NewPipeline
    <2>3. NoChild(f)
      <3>. HIDE DEF f
      <3>1. \A j \in 1 .. n : Node(kinds[j]).child = 0
        BY DEF Node
      <3>. QED  BY <2>2, <3>1 DEF NoChild
    <2>4. Top.type # "pipeline" /\ UNCHANGED procs
      BY <1>3, ListAt DEF StartPipeline
    <2>. HIDE DEF f, g
    <2>. QED  BY <2>1, <2>3, <2>4 DEF Begins
  <1>. QED  BY <1>1, <1>2, <1>3

\* What a step of the shell does to the stack and to the processes.
LEMMA ShellStepAs ==
    ASSUME Shape, ShellStep
    PROVE  UNCHANGED <<stack, procs>> \/ RunsOn \/ Begins \/ Jumps \/ Fork \/ Waits
  <1>1. ASSUME NEW status \in Code, Exit(status)
        PROVE  UNCHANGED <<stack, procs>> \/ Jumps
    BY <1>1, ExitAs
  <1>2. InputRedirection \/ OutputRedirection \/ RedirectionAborts \/ SubstitutionAborts \/ ReadByte
        => UNCHANGED <<stack, procs>>
    BY DEF InputRedirection, OutputRedirection, RedirectionAborts, SubstitutionAborts, ReadByte
  <1>. QED  BY <1>1, <1>2, RunStep, BuiltinRuns, EndGroupRuns, ListEnds, BeginStep, BreakAs
            DEF ShellStep, Waits

----------------------------------------------------------------------------
(* The status of a pipeline *)

LastCmd(f) == f.cmds[Len(f.cmds)]

\* The last process of a pipeline without declarations is waited for by name,
\* and so not before its turn.
LastAlive ==
    Top.type = "pipeline" /\ ~Declares(Top) =>
        LastCmd(Top).child = 0 \/ procs[LastCmd(Top).child].state # "reaped"

LEMMA LastOf ==
    ASSUME NEW f, NEW np, NEW nq, PipelineOK(f, np, nq)
    PROVE  /\ Len(f.cmds) \in 1 .. Len(f.cmds) /\ LastCmd(f) \in NodeSet
           /\ LastCmd(f).child \in Nat
           /\ Before(f.phase) => LastCmd(f).child = 0
  <1>1. f.cmds \in Seq(NodeSet) /\ f.k \in 1 .. Len(f.cmds) /\ f.k \in Nat
    BY FieldsOf DEF PipelineOK
  <1>2. Len(f.cmds) \in 1 .. Len(f.cmds)
    BY <1>1
  <1>3. LastCmd(f) \in NodeSet
    BY <1>1, <1>2 DEF LastCmd
  <1>4. LastCmd(f).child \in Nat
    BY <1>3 DEF NodeSet
  <1>5. ASSUME Before(f.phase)
        PROVE  LastCmd(f).child = 0
    <2>1. NodeOK(f, Len(f.cmds), np)
      BY <1>2 DEF PipelineOK
    <2>2. Len(f.cmds) = f.k \/ Len(f.cmds) > f.k
      BY <1>1
    <2>. QED  BY <1>5, <2>1, <2>2 DEF NodeOK, Before, LastCmd
  <1>. QED  BY <1>2, <1>3, <1>4, <1>5

\* Only waitpid removes a process.
LEMMA ProcStepReaps ==
    ASSUME Shape, NEW p \in DOMAIN procs, ProcStep(p), NEW q \in DOMAIN procs,
           procs'[q].state = "reaped"
    PROVE  procs[q].state = "reaped"
  <1>1. ASSUME NEW r \in Process(Len(pipes)), SetProc(p, r),
               BecomesEnded(p, r) \/ BecomesRunning(p, r) \/ GoesOn(p, r)
        PROVE  procs[q].state = "reaped"
    <2>1. procs'[p] = r /\ (q # p => procs'[q] = procs[q])
      BY <1>1, SetProcTyped
    <2>. QED  BY <1>1, <2>1 DEF BecomesEnded, BecomesRunning, GoesOn
  <1>. QED  BY <1>1, ProcStepAs

\* waitpid on a child of the pipeline, or on any child for a declaration.
LEMMA WaitsAs ==
    ASSUME Shape, Waits
    PROVE  /\ InPipeline("wait")
           /\ \/ WaitChild /\ Cmd.pid \in DOMAIN procs /\ Cmd.pid = Cmd.child /\ Reap(Cmd.pid)
                 /\ Waited(procs[Cmd.pid].status) /\ procs[Cmd.pid].status \in Status
              \/ Cmd.kind = "fundec" /\ Cmd.child = 0
                 /\ \E p \in Live : Finished(p) /\ Reap(p) /\ Waited(procs[p].status)
                                    /\ procs[p].status \in Status
              \/ UNCHANGED procs /\ Waited(Cmd.status) /\ Cmd.status \in Status
                 /\ (Cmd.child = 0 \/ procs[Cmd.child].state = "reaped")
  <1>1. InPipeline("wait")
    BY DEF Waits, WaitChild, WaitAny, NoWait
  <1>2. NodeOK(Top, Top.k, Len(procs)) /\ Cmd = Top.cmds[Top.k] /\ Cmd.child \in Nat
        /\ Cmd.status \in Status /\ Top.phase = "wait" /\ Top.k \in Nat
    BY <1>1, PipelineAt, FieldsOf DEF PipelineOK
  <1>3. Cmd.child # 0 => Cmd.pid = Cmd.child /\ Cmd.child \in DOMAIN procs
    <2>1. DOMAIN procs = 1 .. Len(procs) /\ Len(procs) \in Nat
      BY DEF Shape, Typed
    <2>. QED  BY <1>2, <2>1 DEF NodeOK
  <1>4. ASSUME WaitChild
        PROVE  /\ Cmd.pid \in DOMAIN procs /\ Cmd.pid = Cmd.child /\ Reap(Cmd.pid)
               /\ Waited(procs[Cmd.pid].status) /\ procs[Cmd.pid].status \in Status
    <2>1. Cmd.pid \in DOMAIN procs /\ Cmd.pid = Cmd.child
      BY <1>4, PidAt DEF WaitChild
    <2>. QED  BY <1>4, <2>1, ProcAt DEF WaitChild
  <1>5. ASSUME WaitAny
        PROVE  /\ Cmd.kind = "fundec" /\ Cmd.child = 0
               /\ \E p \in Live : Finished(p) /\ Reap(p) /\ Waited(procs[p].status)
                                  /\ procs[p].status \in Status
    <2>1. Cmd.pid = 0
      BY <1>5 DEF WaitAny
    <2>2. Cmd.kind = "fundec" /\ Cmd.child = 0
      BY <1>2, <1>3, <2>1 DEF NodeOK
    <2>3. PICK p \in Live : Finished(p) /\ Reap(p) /\ Waited(procs[p].status)
      BY <1>5 DEF WaitAny
    <2>4. procs[p].status \in Status
      BY ProcAt DEF Live
    <2>. QED  BY <2>2, <2>3, <2>4
  <1>6. ASSUME NoWait
        PROVE  UNCHANGED procs /\ Waited(Cmd.status)
               /\ (Cmd.child = 0 \/ procs[Cmd.child].state = "reaped")
    <2>1. ASSUME Cmd.child # 0
          PROVE  procs[Cmd.child].state = "reaped"
      <3>1. Cmd.pid > 0 /\ Cmd.pid \in DOMAIN procs /\ Cmd.pid = Cmd.child
        BY <1>2, <1>3, <2>1
      <3>2. Cmd.pid \notin Live
        BY <1>6, <3>1 DEF NoWait
      <3>. QED  BY <3>1, <3>2 DEF Live
    <2>. QED  BY <1>6, <2>1 DEF NoWait
  <1>. QED  BY <1>1, <1>2, <1>4, <1>5, <1>6 DEF Waits

LEMMA ReapAt ==
    ASSUME Shape, NEW p \in DOMAIN procs, Reap(p)
    PROVE  /\ Len(procs') = Len(procs) /\ procs'[p].state = "reaped"
           /\ \A q \in DOMAIN procs : q # p => procs'[q] = procs[q]
  <1>. DEFINE r == [procs[p] EXCEPT !.state = "reaped"]
  <1>1. r \in Process(Len(pipes)) /\ SetProc(p, r)
    BY ProcAt, ReapedAs DEF Reap
  <1>2. r.state = "reaped"
    BY ProcAt DEF Process
  <1>. HIDE DEF r
  <1>. QED  BY <1>1, <1>2, SetProcTyped

\* The command after the one waited for has the children it had.
LEMMA WaitsOnAs ==
    ASSUME Shape, InPipeline("wait"), NEW status \in Status, NEW g, WaitsOn(g, status)
    PROVE  /\ g.type = "pipeline" /\ Len(g.cmds) = Len(Top.cmds)
           /\ g.k = Top.k + 1 /\ Top.k < Len(Top.cmds) /\ g.phase = "wait"
           /\ \A j \in 1 .. Len(Top.cmds) :
                g.cmds[j].child = Top.cmds[j].child /\ g.cmds[j].kind = Top.cmds[j].kind
  <1>1. Top \in PipelineFrame /\ Top.phase = "wait" /\ Top.k \in 1 .. Len(Top.cmds)
        /\ Cmd = Top.cmds[Top.k] /\ Cmd \in NodeSet
    BY PipelineAt
  <1>. DEFINE c == [Cmd EXCEPT !.status = status, !.pid = -1]
  <1>2. c \in NodeSet /\ c.kind = Cmd.kind /\ c.child = Cmd.child
    BY <1>1, WaitedAs
  <1>3. g \in PipelineFrame /\ g.cmds = [Top.cmds EXCEPT ![Top.k] = c] /\ g.phase = Top.phase
        /\ g.k = Top.k + 1 /\ Top.k < Len(Top.cmds)
    BY DEF WaitsOn
  <1>. HIDE DEF c
  <1>4. Len(g.cmds) = Len(Top.cmds) /\ g.cmds[Top.k] = c
        /\ \A j \in 1 .. Len(Top.cmds) : j # Top.k => g.cmds[j] = Top.cmds[j]
    BY <1>1, <1>2, <1>3, FieldsOf, SeqSet
  <1>. QED  BY <1>1, <1>2, <1>3, <1>4, FieldsOf

\* What the end of a wait leaves on top: the pipeline, at its next command, or the
\* list it belongs to.
LEMMA AfterWait ==
    ASSUME Shape, InPipeline("wait"), NEW status \in Status, Waited(status)
    PROVE  \/ WaitsOn(Top', status) /\ Cut(Len(stack), Top')
           \/ /\ Top.k = Len(Top.cmds) /\ Len(stack) # 1
              /\ Cut(Len(stack) - 1, Top') /\ Top'.type # "pipeline"
              /\ Top'.status = Negated(Top.negate, status)
  <1>1. ASSUME NEW g, SetTop(g), WaitsOn(g, status)
        PROVE  WaitsOn(Top', status) /\ Cut(Len(stack), Top')
    <2>1. Cut(Len(stack), g)
      BY <1>1, TopFacts, SetTopCuts
    <2>2. Top' = g
      BY <2>1 DEF Cut, Top
    <2>. QED  BY <1>1, <2>1, <2>2
  <1>. DEFINE n == Len(stack) - 1
              v == Negated(Top.negate, status)
              g == [stack[n] EXCEPT !.status = v]
  <1>2. ASSUME n \in 1 .. Len(stack), n # 0, stack[n] \in ListFrame,
               stack' = [SubSeq(stack, 1, n) EXCEPT ![n] = g]
        PROVE  Cut(n, Top') /\ Top'.type # "pipeline" /\ Top'.status = v /\ Len(stack) # 1
    <2>1. g.type # "pipeline" /\ g.status = v
      <3>. HIDE DEF v, n
      <3>. QED  BY <1>2 DEF ListFrame
    <2>2. Len(stack) # 1
      BY <1>2
    <2>. HIDE DEF g, n, v
    <2>3. Cut(n, g)
      BY <1>2, TopFacts, SubSeqSetCuts
    <2>4. Top' = g
      BY <2>3 DEF Cut, Top
    <2>. QED  BY <2>1, <2>2, <2>3, <2>4
  <1>. QED  BY <1>1, <1>2, WaitedStep

LEMMA CutTop ==
    ASSUME NEW n, NEW g, Cut(n, g)
    PROVE  Top' = g /\ Len(stack') = n
  BY DEF Cut, Top

LEMMA DeclaresSame ==
    ASSUME NEW f, NEW g, f.type = "pipeline", g.type = "pipeline",
           DOMAIN f.cmds = 1 .. Len(f.cmds), DOMAIN g.cmds = 1 .. Len(g.cmds),
           Len(g.cmds) = Len(f.cmds),
           \A j \in 1 .. Len(f.cmds) : g.cmds[j].kind = f.cmds[j].kind
    PROVE  Declares(g) <=> Declares(f)
  BY DEF Declares

LEMMA CmdsDomain ==
    ASSUME NEW f, NEW np, NEW nq, PipelineOK(f, np, nq)
    PROVE  DOMAIN f.cmds = 1 .. Len(f.cmds) /\ Len(f.cmds) \in Nat
  BY FieldsOf DEF PipelineOK

LEMMA TopLater ==
    ASSUME Shape', Top'.type = "pipeline"
    PROVE  PipelineOK(Top', Len(procs'), Len(pipes'))
  <1>1. Len(stack') \in 1 .. Len(stack')
    BY PipelineAssumption DEF Shape, Stacked
  <1>2. FrameOK(Top', Len(procs'), Len(pipes'))
    BY <1>1 DEF Shape, Stacked, Top
  <1>. QED  BY <1>2 DEF FrameOK

LEMMA LastAliveRuns == ASSUME Shape, Shape', LastAlive, RunsOn PROVE LastAlive'
  <1>1. PICK n, g : /\ Cut(n, g) /\ SameRun(stack[n], g)
                    /\ n = Len(stack) \/ (n = Len(stack) - 1 /\ Top.type # "pipeline")
    BY DEF RunsOn
  <1>. DEFINE f == stack[n]
  <1>2. Top' = g /\ UNCHANGED procs /\ n \in 1 .. Len(stack)
    BY <1>1, CutTop DEF RunsOn, Cut
  <1>3. SUFFICES ASSUME g.type = "pipeline", ~Declares(g)
                 PROVE  LastCmd(g).child = 0 \/ procs[LastCmd(g).child].state # "reaped"
    BY <1>2 DEF LastAlive
  <1>4. f.type = "pipeline" /\ PipelineOK(f, Len(procs), Len(pipes))
    <2>1. FrameOK(f, Len(procs), Len(pipes))
      BY <1>2 DEF Shape, Stacked
    <2>. QED  BY <1>1, <1>3, <2>1 DEF SameRun, FrameOK
  <1>5. PipelineOK(g, Len(procs'), Len(pipes'))
    BY <1>2, <1>3, TopLater
  <1>6. Len(g.cmds) = Len(f.cmds) /\ ~Declares(f) /\ LastCmd(g).child = LastCmd(f).child
    <2>1. /\ Len(g.cmds) = Len(f.cmds)
          /\ \A j \in 1 .. Len(f.cmds) :
               g.cmds[j].child = f.cmds[j].child /\ g.cmds[j].kind = f.cmds[j].kind
      BY <1>1, <1>4 DEF SameRun
    <2>2. ~Declares(f)
      BY <1>3, <1>4, <1>5, <2>1, CmdsDomain, DeclaresSame
    <2>3. Len(f.cmds) \in 1 .. Len(f.cmds)
      BY <1>4, LastOf
    <2>. QED  BY <2>1, <2>2, <2>3 DEF LastCmd
  <1>7. CASE n = Len(stack)
    BY <1>4, <1>6, <1>7 DEF LastAlive, Top
  <1>8. CASE n = Len(stack) - 1 /\ Top.type # "pipeline"
    <2>1. Len(stack) # 1 /\ Len(stack) \in Nat
      BY <1>2, <1>8, TopFacts
    <2>2. Under(f, Top)
      BY <1>8, <2>1, TopFacts
    <2>3. f.phase = "args"
      BY <1>4, <2>2 DEF Under
    <2>. QED  BY <1>4, <1>6, <2>3, LastOf DEF Before
  <1>. QED  BY <1>1, <1>7, <1>8

LEMMA LastAliveFork == ASSUME Shape, Shape', LastAlive, Fork PROVE LastAlive'
  <1>. DEFINE n == Len(procs) + 1
              r == [state |-> "forked", left |-> 0, drains |-> FALSE, status |-> 0, fds |-> fds]
  <1>1. procs \in Seq(Process(Len(pipes))) /\ procs' = Append(procs, r)
    BY DEF Fork, Shape, Typed
  <1>2. procs'[n].state = "forked" /\ \A q \in 1 .. Len(procs) : procs'[q] = procs[q]
    <2>1. procs \in Seq(Process(Len(pipes)) \cup {r}) /\ r.state = "forked"
      BY <1>1
    <2>. HIDE DEF r
    <2>. QED  BY <1>1, <2>1
  <1>3. InPipeline("args") /\ Top \in PipelineFrame /\ Top.type = "pipeline"
        /\ Top.k \in 1 .. Len(Top.cmds) /\ PipelineOK(Top, Len(procs), Len(pipes)) /\ Top.phase = "args"
    BY PipelineAt DEF Fork
  <1>4. LastCmd(Top').child = 0 \/ LastCmd(Top').child = n
    <2>. DEFINE g == [Top EXCEPT !.phase = "restore", !.cmds[Top.k].pid = n, !.cmds[Top.k].child = n]
    <2>1. SetTop(g)
      BY DEF Fork
    <2>2. g.cmds = [Top.cmds EXCEPT ![Top.k].pid = n, ![Top.k].child = n]
      BY <1>3 DEF PipelineFrame
    <2>. HIDE DEF g
    <2>3. Top' = g
      BY <2>1, TopFacts, SetTopCuts, CutTop
    <2>4. Top.cmds \in Seq(NodeSet) /\ n \in Nat
      BY <1>3, FieldsOf, Counts
    <2>. HIDE DEF n
    <2>6. /\ Len(g.cmds) = Len(Top.cmds) /\ g.cmds[Top.k].child = n
          /\ \A j \in 1 .. Len(Top.cmds) : j # Top.k => g.cmds[j] = Top.cmds[j]
      BY <1>3, <2>2, <2>4, ForkedIn
    <2>7. Len(Top.cmds) \in 1 .. Len(Top.cmds) /\ LastCmd(Top).child = 0
      BY <1>3, LastOf DEF Before
    <2>8. CASE Len(Top.cmds) = Top.k
      BY <2>3, <2>6, <2>8 DEF LastCmd
    <2>9. CASE Len(Top.cmds) # Top.k
      BY <2>3, <2>6, <2>7, <2>9 DEF LastCmd
    <2>. QED  BY <2>8, <2>9
  <1>. QED  BY <1>2, <1>4 DEF LastAlive

LEMMA LastAliveWaits == ASSUME Shape, Shape', LastAlive, Waits PROVE LastAlive'
  <1>1. SUFFICES ASSUME Top'.type = "pipeline", ~Declares(Top')
                 PROVE  LastCmd(Top').child = 0 \/ procs'[LastCmd(Top').child].state # "reaped"
    BY DEF LastAlive
  <1>2. InPipeline("wait")
    BY WaitsAs
  <1>3. PipelineOK(Top, Len(procs), Len(pipes)) /\ Top.type = "pipeline" /\ Cmd = Top.cmds[Top.k]
        /\ Top.k \in 1 .. Len(Top.cmds) /\ Top.phase = "wait" /\ Top.k \in Nat
    BY <1>2, PipelineAt, FieldsOf
  <1>4. PICK status \in Status : Waited(status)
    BY WaitsAs
  <1>5. WaitsOn(Top', status)
    BY <1>1, <1>2, <1>4, AfterWait
  <1>6. /\ Len(Top'.cmds) = Len(Top.cmds) /\ Top.k < Len(Top.cmds)
        /\ \A j \in 1 .. Len(Top.cmds) :
             Top'.cmds[j].child = Top.cmds[j].child /\ Top'.cmds[j].kind = Top.cmds[j].kind
    BY <1>2, <1>5, WaitsOnAs
  <1>7. PipelineOK(Top', Len(procs'), Len(pipes'))
    BY <1>1, TopLater
  <1>8. ~Declares(Top)
    BY <1>1, <1>3, <1>6, <1>7, CmdsDomain, DeclaresSame
  <1>9. Len(Top.cmds) \in 1 .. Len(Top.cmds) /\ LastCmd(Top).child \in Nat
        /\ DOMAIN Top.cmds = 1 .. Len(Top.cmds)
    BY <1>3, LastOf, CmdsDomain
  <1>10. LastCmd(Top').child = LastCmd(Top).child
    BY <1>6, <1>9 DEF LastCmd
  <1>11. LastCmd(Top).child = 0 \/ procs[LastCmd(Top).child].state # "reaped"
    BY <1>3, <1>8 DEF LastAlive
  <1>12. CASE Cmd.pid \in DOMAIN procs /\ Cmd.pid = Cmd.child /\ Reap(Cmd.pid)
    <2>1. ASSUME LastCmd(Top).child # 0
          PROVE  LastCmd(Top).child # Cmd.pid
      BY <1>3, <1>6, <1>9, <1>12, <2>1 DEF PipelineOK, LastCmd
    <2>2. ASSUME LastCmd(Top).child # 0
          PROVE  LastCmd(Top).child \in DOMAIN procs
      <3>1. NodeOK(Top, Len(Top.cmds), Len(procs))
        BY <1>3, <1>9 DEF PipelineOK
      <3>2. DOMAIN procs = 1 .. Len(procs) /\ Len(procs) \in Nat
        BY DEF Shape, Typed
      <3>. QED  BY <1>9, <2>2, <3>1, <3>2 DEF NodeOK, LastCmd
    <2>. QED  BY <1>10, <1>11, <1>12, <2>1, <2>2, ReapAt
  <1>13. CASE Cmd.kind = "fundec"
    BY <1>3, <1>8, <1>9, <1>13 DEF Declares
  <1>14. CASE UNCHANGED procs
    BY <1>10, <1>11, <1>14
  <1>. QED  BY <1>12, <1>13, <1>14, WaitsAs

LEMMA LastAliveStep == ASSUME Shape, Shape', LastAlive, [Next]_vars PROVE LastAlive'
  <1>1. CASE UNCHANGED <<stack, procs>>
    BY <1>1 DEF LastAlive, Top
  <1>2. CASE Begins
    <2>1. PICK g, f : Pushed(g, f) /\ NoChild(f)
      BY <1>2 DEF Begins
    <2>2. Top' = f
      <3>1. Len(stack) \in Nat
        BY TopFacts
      <3>. QED  BY <2>1, <3>1 DEF Pushed, Top
    <2>3. f.type = "pipeline" => PipelineOK(f, Len(procs'), Len(pipes'))
      BY <2>2, TopLater
    <2>4. f.type = "pipeline" => LastCmd(f).child = 0
      BY <2>1, <2>3, LastOf DEF NoChild, LastCmd
    <2>. QED  BY <2>2, <2>4 DEF LastAlive
  <1>3. CASE Jumps
    <2>1. PICK i \in 1 .. Len(stack), g \in ListFrame : Cut(i, g) /\ g.type # "pipeline"
      BY <1>3, JumpsAs
    <2>2. Top' = g
      BY <2>1, TopFacts, CutTop
    <2>. QED  BY <2>1, <2>2 DEF LastAlive
  <1>4. ASSUME NEW p \in DOMAIN procs, ProcStep(p)
        PROVE  LastAlive'
    <2>1. UNCHANGED stack
      BY <1>4, ProcStepAs
    <2>2. Top' = Top
      BY <2>1 DEF Top
    <2>3. SUFFICES ASSUME Top.type = "pipeline", ~Declares(Top), LastCmd(Top).child # 0
                   PROVE  procs'[LastCmd(Top).child].state # "reaped"
      BY <2>2 DEF LastAlive
    <2>4. LastCmd(Top).child \in DOMAIN procs
      <3>1. PipelineOK(Top, Len(procs), Len(pipes))
        BY <2>3, TopFacts
      <3>2. NodeOK(Top, Len(Top.cmds), Len(procs)) /\ LastCmd(Top).child \in Nat
        BY <3>1, LastOf DEF PipelineOK
      <3>3. DOMAIN procs = 1 .. Len(procs) /\ Len(procs) \in Nat
        BY DEF Shape, Typed
      <3>. QED  BY <2>3, <3>2, <3>3 DEF NodeOK, LastCmd
    <2>5. procs[LastCmd(Top).child].state # "reaped"
      BY <2>3 DEF LastAlive
    <2>. QED  BY <1>4, <2>4, <2>5, ProcStepReaps
  <1>5. CASE UNCHANGED vars
    BY <1>1, <1>5 DEF vars
  <1>. QED  BY <1>1, <1>2, <1>3, <1>4, <1>5, LastAliveRuns, LastAliveFork, LastAliveWaits,
            ShellStepAs DEF Next

\* The last command of a pipeline is the last to be waited for: what it returned is
\* the status of the pipeline.
LEMMA EndOfWait ==
    ASSUME Shape, LastAlive, Waits, ~Declares(Top), Len(stack') < Len(stack)
    PROVE  /\ stack'[Len(stack')].status = Negated(Top.negate, Result(LastCmd(Top)))
           /\ LastCmd(Top).child # 0 => procs[LastCmd(Top).child].state \in {"exited", "reaped"}
  <1>1. InPipeline("wait")
    BY WaitsAs
  <1>2. PipelineOK(Top, Len(procs), Len(pipes)) /\ Top.type = "pipeline" /\ Cmd = Top.cmds[Top.k]
        /\ Top.k \in 1 .. Len(Top.cmds) /\ Top.phase = "wait"
    BY <1>1, PipelineAt
  <1>3. ASSUME NEW status \in Status, Waited(status)
        PROVE  Cmd = LastCmd(Top) /\ Top'.status = Negated(Top.negate, status)
    <2>1. ~ Cut(Len(stack), Top')
      BY TopFacts DEF Cut
    <2>. QED  BY <1>1, <1>2, <1>3, <2>1, AfterWait DEF LastCmd
  <1>4. CASE WaitChild /\ Cmd.pid \in DOMAIN procs /\ Cmd.pid = Cmd.child /\ Reap(Cmd.pid)
             /\ Waited(procs[Cmd.pid].status) /\ procs[Cmd.pid].status \in Status
    <2>1. procs[Cmd.child].state = "exited" /\ Cmd.child # 0
      BY <1>4 DEF WaitChild, Finished
    <2>2. Result(Cmd) = procs[Cmd.pid].status
      BY <1>4, <2>1 DEF Result
    <2>. QED  BY <1>3, <1>4, <2>1, <2>2 DEF Top
  <1>5. CASE Cmd.kind = "fundec"
    <2>1. DOMAIN Top.cmds = 1 .. Len(Top.cmds)
      BY <1>2, CmdsDomain
    <2>. QED  BY <1>2, <1>5, <2>1 DEF Declares
  <1>6. CASE UNCHANGED procs /\ Waited(Cmd.status) /\ Cmd.status \in Status
             /\ (Cmd.child = 0 \/ procs[Cmd.child].state = "reaped")
    <2>1. Cmd = LastCmd(Top) /\ Top'.status = Negated(Top.negate, Cmd.status)
      BY <1>3, <1>6
    <2>2. Cmd.child = 0
      BY <1>2, <1>6, <2>1 DEF LastAlive
    <2>3. Result(Cmd) = Cmd.status
      BY <2>2 DEF Result
    <2>. QED  BY <2>1, <2>2, <2>3 DEF Top
  <1>. QED  BY <1>4, <1>5, <1>6, WaitsAs

\* Nothing else takes a pipeline off the stack while it is being waited for.
LEMMA OnlyWaits ==
    ASSUME Shape, InPipeline("wait"), [Next]_vars
    PROVE  Waits \/ UNCHANGED stack
  <1>1. Top.type = "pipeline" /\ Top.phase = "wait"
    BY DEF InPipeline
  <1>2. ASSUME ShellStep
        PROVE  Waits \/ UNCHANGED stack
    BY <1>1, <1>2 DEF ShellStep, StartPipeline, MakePipe, PipeFails, SaveDescriptor, SaveFails,
       RestoreDescriptors, NextCommand, InputRedirection, OutputRedirection, RedirectionAborts,
       Builtin, BuiltinWrites, BuiltinReturns, Fork, EnterGroup, EndGroup, Waits,
       BeginSubstitution, SubstitutionAborts, EndSubstitution, ReadByte, ReadEnd, Reading, Exit, Break,
       InPipeline, InList
  <1>3. ASSUME NEW p \in DOMAIN procs, ProcStep(p)
        PROVE  UNCHANGED stack
    BY <1>3, ProcStepAs
  <1>. QED  BY <1>2, <1>3 DEF Next, vars

LEMMA InitLastAlive == ASSUME Init PROVE LastAlive
  BY DEF Init, List, Top, LastAlive

\* The status of a pipeline is the one of its last command (the negation of it
\* after a !), in whatever order its processes end, and that process has ended.
THEOREM StatusIsOfLast == Spec => StatusOfLast
  <1>1. Init => Shape /\ LastAlive
    BY InitShape, InitLastAlive
  <1>2. Shape /\ LastAlive /\ [Next]_vars => Shape' /\ LastAlive'
    BY NextShape, LastAliveStep
  <1>. DEFINE last == Top.cmds[Len(Top.cmds)]
              A == InPipeline("wait") /\ ~Declares(Top) /\ ~jumped /\ Len(stack') < Len(stack) =>
                     /\ stack'[Len(stack')].status = Negated(Top.negate, Result(last))
                     /\ last.child # 0 => procs[last.child].state \in {"exited", "reaped"}
  <1>3. Shape /\ LastAlive /\ [Next]_vars => [A]_vars
    <2>. SUFFICES ASSUME Shape, LastAlive, [Next]_vars, InPipeline("wait"), ~Declares(Top),
                         Len(stack') < Len(stack)
                  PROVE  /\ stack'[Len(stack')].status = Negated(Top.negate, Result(last))
                         /\ last.child # 0 => procs[last.child].state \in {"exited", "reaped"}
      OBVIOUS
    <2>1. Waits
      <3>1. Len(stack) \in Nat
        BY TopFacts
      <3>. QED  BY <3>1, OnlyWaits
    <2>. QED  BY <2>1, EndOfWait DEF LastCmd
  <1>4. Spec => [][A]_vars
    <2>. HIDE DEF A
    <2>. QED  BY <1>1, <1>2, <1>3, PTL DEF Spec
  <1>. QED  BY <1>4 DEF StatusOfLast

----------------------------------------------------------------------------
(* What is left of a process that has ended *)

Ended ==
    \A p \in DOMAIN procs : procs[p].state \in {"exited", "reaped"} =>
        procs[p].fds = NoTable /\ ~Ready(procs[p])

LEMMA ProcsDomain ==
    ASSUME Shape
    PROVE  DOMAIN procs = 1 .. Len(procs) /\ Len(procs) \in Nat
  BY DEF Shape, Typed

LEMMA ForkAt ==
    ASSUME Shape, Fork
    PROVE  LET n == Len(procs) + 1 IN
           /\ DOMAIN procs' = 1 .. n /\ procs'[n].state = "forked" /\ procs'[n].fds = fds
           /\ procs'[n].left = 0 /\ procs'[n].drains = FALSE
           /\ \A q \in DOMAIN procs : procs'[q] = procs[q]
           /\ DOMAIN procs' = DOMAIN procs \cup {n} /\ n \notin DOMAIN procs
  <1>. DEFINE n == Len(procs) + 1
              r == [state |-> "forked", left |-> 0, drains |-> FALSE, status |-> 0, fds |-> fds]
  <1>1. procs' = Append(procs, r) /\ procs \in Seq(Process(Len(pipes)))
    BY DEF Fork, Shape, Typed
  <1>2. r.state = "forked" /\ r.fds = fds /\ r.left = 0 /\ r.drains = FALSE
    OBVIOUS
  <1>3. procs \in Seq(Process(Len(pipes)) \cup {r})
    BY <1>1
  <1>. HIDE DEF r
  <1>4. DOMAIN procs' = 1 .. n /\ procs'[n] = r /\ \A q \in 1 .. Len(procs) : procs'[q] = procs[q]
    BY <1>1, <1>3
  <1>. QED  BY <1>2, <1>4, ProcsDomain

LEMMA ReapKeeps ==
    ASSUME Shape, NEW p \in DOMAIN procs, Reap(p)
    PROVE  /\ procs'[p].fds = procs[p].fds /\ procs'[p].left = procs[p].left
           /\ procs'[p].drains = procs[p].drains /\ DOMAIN procs' = DOMAIN procs
  <1>. DEFINE r == [procs[p] EXCEPT !.state = "reaped"]
  <1>1. r \in Process(Len(pipes)) /\ SetProc(p, r)
    BY ProcAt, ReapedAs DEF Reap
  <1>2. r.fds = procs[p].fds /\ r.left = procs[p].left /\ r.drains = procs[p].drains
    BY ProcAt DEF Process
  <1>. HIDE DEF r
  <1>. QED  BY <1>1, <1>2, SetProcTyped DEF SetProc

\* The process reaped has exited.
LEMMA WaitsReap ==
    ASSUME Shape, Waits
    PROVE  UNCHANGED procs \/ \E p \in DOMAIN procs : procs[p].state = "exited" /\ Reap(p)
  <1>1. ASSUME WaitChild
        PROVE  Cmd.pid \in DOMAIN procs /\ procs[Cmd.pid].state = "exited" /\ Reap(Cmd.pid)
    BY <1>1, PidAt DEF WaitChild, Finished
  <1>2. ASSUME WaitAny
        PROVE  \E p \in DOMAIN procs : procs[p].state = "exited" /\ Reap(p)
    BY <1>2 DEF WaitAny, Live, Finished
  <1>3. NoWait => UNCHANGED procs
    BY DEF NoWait
  <1>. QED  BY <1>1, <1>2, <1>3 DEF Waits

LEMMA ProcStepAt ==
    ASSUME Shape, NEW p \in DOMAIN procs, ProcStep(p)
    PROVE  /\ DOMAIN procs' = DOMAIN procs /\ Ready(procs[p])
           /\ \A q \in DOMAIN procs :
                \/ procs'[q] = procs[q]
                \/ q = p /\ (BecomesEnded(p, procs'[p]) \/ BecomesRunning(p, procs'[p])
                             \/ GoesOn(p, procs'[p]))
  <1>1. ASSUME NEW r \in Process(Len(pipes)), SetProc(p, r)
        PROVE  DOMAIN procs' = DOMAIN procs /\ procs'[p] = r
               /\ \A q \in DOMAIN procs : q # p => procs'[q] = procs[q]
    BY <1>1, SetProcTyped DEF SetProc
  <1>. QED  BY <1>1, ProcStepAs

\* How the processes change.
LEMMA ProcsChange ==
    ASSUME Shape, [Next]_vars
    PROVE  \/ UNCHANGED procs
           \/ Fork
           \/ \E p \in DOMAIN procs : procs[p].state = "exited" /\ Reap(p)
           \/ \E p \in DOMAIN procs : ProcStep(p)
  <1>1. RunsOn \/ Begins \/ Jumps => UNCHANGED procs
    BY DEF RunsOn, Begins, Jumps
  <1>. QED  BY <1>1, ShellStepAs, WaitsReap DEF Next, vars

LEMMA EndedStep == ASSUME Shape, Ended, [Next]_vars PROVE Ended'
  <1>1. CASE UNCHANGED procs
    BY <1>1 DEF Ended
  <1>2. CASE Fork
    BY <1>2, ForkAt DEF Ended
  <1>3. ASSUME NEW p \in DOMAIN procs, procs[p].state = "exited", Reap(p)
        PROVE  Ended'
    <2>1. procs[p].fds = NoTable /\ ~(procs[p].left > 0) /\ ~procs[p].drains
      BY <1>3 DEF Ended, Ready
    <2>2. procs'[p].fds = NoTable /\ procs'[p].left = procs[p].left
          /\ procs'[p].drains = procs[p].drains /\ DOMAIN procs' = DOMAIN procs
      BY <1>3, <2>1, ReapKeeps
    <2>3. procs'[p].state = "reaped" /\ \A q \in DOMAIN procs : q # p => procs'[q] = procs[q]
      BY <1>3, ReapAt
    <2>4. ~Ready(procs'[p])
      BY <2>1, <2>2, <2>3 DEF Ready
    <2>. QED  BY <2>2, <2>3, <2>4 DEF Ended
  <1>4. ASSUME NEW p \in DOMAIN procs, ProcStep(p)
        PROVE  Ended'
    <2>1. procs[p].state \notin {"exited", "reaped"}
      BY <1>4, ProcStepAt DEF Ended
    <2>2. ASSUME BecomesEnded(p, procs'[p])
          PROVE  procs'[p].fds = NoTable /\ ~Ready(procs'[p])
      BY <2>2 DEF BecomesEnded, Ready
    <2>3. BecomesRunning(p, procs'[p]) \/ GoesOn(p, procs'[p]) =>
            procs'[p].state \notin {"exited", "reaped"}
      BY <2>1 DEF BecomesRunning, GoesOn
    <2>4. ASSUME NEW q \in DOMAIN procs', procs'[q].state \in {"exited", "reaped"}
          PROVE  procs'[q].fds = NoTable /\ ~Ready(procs'[q])
      <3>1. q \in DOMAIN procs
        BY <1>4, ProcStepAt
      <3>2. CASE procs'[q] = procs[q]
        BY <2>4, <3>1, <3>2 DEF Ended
      <3>3. CASE q = p /\ (BecomesEnded(p, procs'[p]) \/ BecomesRunning(p, procs'[p])
                           \/ GoesOn(p, procs'[p]))
        BY <2>2, <2>3, <2>4, <3>3
      <3>. QED  BY <1>4, <3>1, <3>2, <3>3, ProcStepAt
    <2>. QED  BY <2>4 DEF Ended
  <1>. QED  BY <1>1, <1>2, <1>3, <1>4, ProcsChange

----------------------------------------------------------------------------
(* Every process belongs to a pipeline *)

\* A jump is not forgotten.
LEMMA JumpedStays ==
    ASSUME [Next]_vars
    PROVE  UNCHANGED jumped \/ jumped' = TRUE
  <1>1. ASSUME NEW status, Exit(status)
        PROVE  UNCHANGED jumped \/ jumped' = TRUE
    BY <1>1 DEF Exit, JumpTo
  <1>2. Break => jumped' = TRUE
    BY DEF Break, JumpTo
  <1>3. PipeFails \/ SaveFails \/ SubstitutionAborts \/ RedirectionAborts
        \/ BeginSubstitution \/ EndSubstitution \/ ReadByte \/ ReadEnd => UNCHANGED jumped
    BY DEF PipeFails, SaveFails, SubstitutionAborts, RedirectionAborts, BeginSubstitution,
       EndSubstitution, ReadByte, ReadEnd
  <1>4. MakePipe \/ SaveDescriptor \/ RestoreDescriptors \/ NextCommand \/ InputRedirection
        \/ OutputRedirection => UNCHANGED jumped
    BY DEF MakePipe, SaveDescriptor, RestoreDescriptors, NextCommand, InputRedirection,
       OutputRedirection
  <1>5. BuiltinWrites \/ BuiltinReturns \/ Fork \/ EnterGroup \/ EndGroup \/ WaitChild
        \/ WaitAny \/ NoWait => UNCHANGED jumped
    BY DEF BuiltinWrites, BuiltinReturns, Fork, EnterGroup, EndGroup, WaitChild, WaitAny, NoWait
  <1>6. ASSUME NEW left, NEW status, Builtin(left, status)
        PROVE  UNCHANGED jumped
    BY <1>6 DEF Builtin
  <1>7. ASSUME NEW kinds, NEW negate, StartPipeline(kinds, negate)
        PROVE  UNCHANGED jumped
    BY <1>7 DEF StartPipeline
  <1>8. ASSUME NEW p, ProcStep(p)
        PROVE  UNCHANGED jumped
    BY <1>8 DEF ProcStep, Exec, ExecFails, ProcWrites, ProcBrokenPipe, ProcReads, ProcExits
  <1>9. UNCHANGED vars => UNCHANGED jumped
    BY DEF vars
  <1>10. ShellStep => UNCHANGED jumped \/ jumped' = TRUE
    BY <1>1, <1>2, <1>3, <1>4, <1>5, <1>6, <1>7 DEF ShellStep
  <1>. QED  BY <1>8, <1>9, <1>10 DEF Next

\* p is the process of a command of f that has not been waited for.
Owns(f, p) ==
    f.type = "pipeline" /\ \E j \in 1 .. Len(f.cmds) :
        f.cmds[j].child = p /\ (f.phase = "wait" => j >= f.k)

Owned == \A p \in Live : \E i \in 1 .. Len(stack) : Owns(stack[i], p)

LEMMA LiveAt == ASSUME Shape, NEW p \in Live PROVE p \in DOMAIN procs /\ p \in 1 .. Len(procs) /\ p # 0
  BY ProcsDomain DEF Live

LEMMA OwnedRuns == ASSUME Shape, Shape', Owned, RunsOn PROVE Owned'
  <1>1. PICK n, g : /\ Cut(n, g) /\ SameRun(stack[n], g)
                    /\ n = Len(stack) \/ (n = Len(stack) - 1 /\ Top.type # "pipeline")
    BY DEF RunsOn
  <1>2. UNCHANGED procs /\ Live' = Live
    BY DEF RunsOn, Live
  <1>3. n \in 1 .. Len(stack) /\ Len(stack') = n /\ stack'[n] = g /\ Len(stack) \in Nat
        /\ \A i \in 1 .. n - 1 : stack'[i] = stack[i]
    BY <1>1, TopFacts DEF Cut
  <1>4. ASSUME NEW p \in Live
        PROVE  \E i \in 1 .. n : Owns(stack'[i], p)
    <2>1. PICK i \in 1 .. Len(stack) : Owns(stack[i], p)
      BY DEF Owned
    <2>2. i \in 1 .. n
      BY <1>1, <1>3, <2>1 DEF Owns, Top
    <2>3. CASE i # n
      BY <1>3, <2>1, <2>2, <2>3
    <2>4. CASE i = n
      <3>1. Owns(g, p)
        BY <1>1, <2>1, <2>4 DEF SameRun, Owns
      <3>. QED  BY <1>3, <2>4, <3>1
    <2>. QED  BY <2>3, <2>4
  <1>. QED  BY <1>2, <1>3, <1>4 DEF Owned

LEMMA OwnedBegins == ASSUME Shape, Owned, Begins PROVE Owned'
  <1>1. PICK g, f : Pushed(g, f) /\ (g = Top \/ Top.type # "pipeline")
    BY DEF Begins
  <1>2. UNCHANGED procs /\ Live' = Live
    BY DEF Begins, Live
  <1>3. Len(stack) \in Nat
    BY TopFacts
  <1>4. ASSUME NEW p \in Live
        PROVE  \E i \in 1 .. Len(stack') : Owns(stack'[i], p)
    <2>1. PICK i \in 1 .. Len(stack) : Owns(stack[i], p)
      BY DEF Owned
    <2>2. i \in 1 .. Len(stack')
      BY <1>1, <1>3 DEF Pushed
    <2>3. CASE i # Len(stack)
      <3>1. stack'[i] = stack[i]
        BY <1>1, <1>3, <2>3 DEF Pushed
      <3>. QED  BY <2>1, <2>2, <3>1
    <2>4. CASE i = Len(stack)
      <3>1. g = stack[i] /\ stack'[i] = g
        BY <1>1, <2>1, <2>4 DEF Owns, Top, Pushed
      <3>. QED  BY <2>1, <2>2, <3>1
    <2>. QED  BY <2>3, <2>4
  <1>. QED  BY <1>2, <1>4 DEF Owned

LEMMA OwnedFork == ASSUME Shape, Owned, Fork PROVE Owned'
  <1>. DEFINE n == Len(procs) + 1
              g == [Top EXCEPT !.phase = "restore", !.cmds[Top.k].pid = n, !.cmds[Top.k].child = n]
  <1>1. Live' = Live \cup {n}
    BY ForkAt DEF Live
  <1>2. Top \in PipelineFrame /\ Top.k \in 1 .. Len(Top.cmds) /\ Top.type = "pipeline"
        /\ Top.phase = "args" /\ Top.cmds \in Seq(NodeSet) /\ n \in Nat
        /\ PipelineOK(Top, Len(procs), Len(pipes))
    BY PipelineAt, FieldsOf, Counts DEF Fork
  <1>3. SetTop(g)
    BY DEF Fork
  <1>4. g.type = "pipeline" /\ g.phase = "restore"
        /\ g.cmds = [Top.cmds EXCEPT ![Top.k].pid = n, ![Top.k].child = n]
    BY <1>2 DEF PipelineFrame
  <1>. HIDE DEF g, n
  <1>5. /\ Len(g.cmds) = Len(Top.cmds) /\ g.cmds[Top.k].child = n
        /\ \A j \in 1 .. Len(Top.cmds) : j # Top.k => g.cmds[j] = Top.cmds[j]
    BY <1>2, <1>4, ForkedIn
  <1>6. Len(stack') = Len(stack) /\ stack'[Len(stack)] = g /\ Len(stack) \in Nat /\ Len(stack) # 0
        /\ \A i \in 1 .. Len(stack) - 1 : stack'[i] = stack[i]
    BY <1>3, TopFacts, SetTopCuts DEF Cut
  <1>7. Owns(g, n)
    BY <1>2, <1>4, <1>5 DEF Owns
  <1>8. ASSUME NEW p \in Live
        PROVE  \E i \in 1 .. Len(stack') : Owns(stack'[i], p)
    <2>1. PICK i \in 1 .. Len(stack) : Owns(stack[i], p)
      BY DEF Owned
    <2>2. CASE i # Len(stack)
      BY <1>6, <2>1, <2>2
    <2>3. CASE i = Len(stack)
      <3>1. PICK j \in 1 .. Len(Top.cmds) : Top.cmds[j].child = p
        BY <2>1, <2>3 DEF Owns, Top
      <3>2. j # Top.k
        <4>1. NodeOK(Top, Top.k, Len(procs))
          BY <1>2 DEF PipelineOK
        <4>2. Top.cmds[Top.k].child = 0
          BY <1>2, <4>1 DEF NodeOK
        <4>. QED  BY <3>1, <4>2, LiveAt
      <3>3. Owns(g, p)
        BY <1>4, <1>5, <3>1, <3>2 DEF Owns
      <3>. QED  BY <1>6, <2>3, <3>3
    <2>. QED  BY <2>2, <2>3
  <1>9. ASSUME NEW p \in Live'
        PROVE  \E i \in 1 .. Len(stack') : Owns(stack'[i], p)
    BY <1>1, <1>6, <1>7, <1>8
  <1>. QED  BY <1>9 DEF Owned

LEMMA OwnedWaits == ASSUME Shape, Owned, Waits PROVE Owned'
  <1>1. Live' \subseteq Live /\ Cmd.child \notin Live'
    <2>1. ASSUME NEW p \in DOMAIN procs, Reap(p)
          PROVE  Live' = Live \ {p}
      BY <2>1, ReapAt, ReapKeeps DEF Live
    <2>2. CASE WaitChild /\ Cmd.pid \in DOMAIN procs /\ Cmd.pid = Cmd.child /\ Reap(Cmd.pid)
      BY <2>1, <2>2
    <2>3. CASE Cmd.child = 0 /\ \E p \in Live : Finished(p) /\ Reap(p)
      <3>1. PICK p \in Live : Reap(p)
        BY <2>3
      <3>2. p \in DOMAIN procs
        BY LiveAt
      <3>3. Live' = Live \ {p}
        BY <2>1, <3>1, <3>2
      <3>. QED  BY <2>3, <3>3, LiveAt
    <2>4. CASE UNCHANGED procs /\ (Cmd.child = 0 \/ procs[Cmd.child].state = "reaped")
      <3>1. Live' = Live
        BY <2>4 DEF Live
      <3>2. Cmd.child \notin Live
        BY <2>4, LiveAt DEF Live
      <3>. QED  BY <3>1, <3>2
    <2>. QED  BY <2>2, <2>3, <2>4, WaitsAs
  <1>2. InPipeline("wait")
    BY WaitsAs
  <1>3. PICK status \in Status : Waited(status)
    BY WaitsAs
  <1>4. Top \in PipelineFrame /\ Top.k \in 1 .. Len(Top.cmds) /\ Top.type = "pipeline"
        /\ Top.phase = "wait" /\ Top.cmds \in Seq(NodeSet) /\ Cmd = Top.cmds[Top.k]
    BY <1>2, PipelineAt, FieldsOf
  <1>5. Len(stack) \in Nat /\ Len(stack) # 0
    BY TopFacts
  <1>6. ASSUME NEW p \in Live', NEW i \in 1 .. Len(stack), Owns(stack[i], p), i = Len(stack)
        PROVE  Top.k < Len(Top.cmds)
               /\ \E j \in 1 .. Len(Top.cmds) : Top.cmds[j].child = p /\ j >= Top.k + 1
    <2>1. PICK j \in 1 .. Len(Top.cmds) : Top.cmds[j].child = p /\ j >= Top.k
      BY <1>4, <1>6 DEF Owns, Top
    <2>2. j # Top.k
      BY <1>1, <1>4, <2>1
    <2>. QED  BY <1>4, <2>1, <2>2
  <1>7. ASSUME NEW p \in Live'
        PROVE  \E i \in 1 .. Len(stack') : Owns(stack'[i], p)
    <2>1. PICK i \in 1 .. Len(stack) : Owns(stack[i], p)
      BY <1>1 DEF Owned
    <2>2. CASE WaitsOn(Top', status) /\ Cut(Len(stack), Top')
      <3>1. Len(stack') = Len(stack) /\ stack'[Len(stack)] = Top'
            /\ \A h \in 1 .. Len(stack) - 1 : stack'[h] = stack[h]
        BY <2>2 DEF Cut
      <3>2. CASE i # Len(stack)
        BY <1>5, <2>1, <3>1, <3>2
      <3>3. CASE i = Len(stack)
        <4>1. PICK j \in 1 .. Len(Top.cmds) : Top.cmds[j].child = p /\ j >= Top.k + 1
          BY <1>6, <2>1, <3>3
        <4>2. Top'.type = "pipeline" /\ Len(Top'.cmds) = Len(Top.cmds) /\ Top'.k = Top.k + 1
              /\ Top'.cmds[j].child = Top.cmds[j].child
          BY <1>2, <2>2, WaitsOnAs
        <4>3. Owns(Top', p)
          BY <4>1, <4>2 DEF Owns
        <4>. QED  BY <1>5, <3>1, <3>3, <4>3
      <3>. QED  BY <3>2, <3>3
    <2>3. CASE Top.k = Len(Top.cmds) /\ Len(stack) # 1 /\ Cut(Len(stack) - 1, Top')
      <3>1. i # Len(stack)
        BY <1>4, <1>6, <2>1, <2>3
      <3>2. stack[Len(stack) - 1].type # "pipeline"
        BY <1>4, <2>3, TopFacts DEF Under
      <3>3. i # Len(stack) - 1
        BY <2>1, <3>2 DEF Owns
      <3>4. i \in 1 .. Len(stack) - 1 - 1 /\ i \in 1 .. Len(stack) - 1
        BY <1>5, <3>1, <3>3
      <3>5. Len(stack') = Len(stack) - 1 /\ stack'[i] = stack[i]
        BY <2>3, <3>4 DEF Cut
      <3>. QED  BY <2>1, <3>4, <3>5
    <2>. QED  BY <1>2, <1>3, <2>2, <2>3, AfterWait
  <1>. QED  BY <1>7 DEF Owned

LEMMA OwnedStep ==
    ASSUME ~jumped', Shape, Shape', Ended, Owned, [Next]_vars
    PROVE  Owned'
  <1>1. CASE UNCHANGED <<stack, procs>>
    BY <1>1 DEF Owned, Live
  <1>2. ~Jumps
    BY DEF Jumps
  <1>3. ASSUME NEW p \in DOMAIN procs, ProcStep(p)
        PROVE  Owned'
    <2>1. UNCHANGED stack
      BY <1>3, ProcStepAs
    <2>2. procs[p].state \notin {"exited", "reaped"}
      BY <1>3, ProcStepAt DEF Ended
    <2>3. Live' \subseteq Live
      BY <1>3, <2>2, ProcStepAt DEF Live
    <2>. QED  BY <2>1, <2>3 DEF Owned
  <1>. QED  BY <1>1, <1>2, <1>3, OwnedRuns, OwnedBegins, OwnedFork, OwnedWaits, ShellStepAs
            DEF Next, vars

LEMMA InitOwned == ASSUME Init PROVE Ended /\ Owned
  BY DEF Init, Ended, Owned, Live

\* No process outlives its pipeline, until an exit, a break or a continue skips
\* the __pipewait of the pipelines it leaves.
THEOREM NoneOutlives == Spec => []AllReaped
  <1>. DEFINE IInv == Shape /\ Ended /\ (jumped \/ Owned)
  <1>1. Init => IInv
    BY InitShape, InitOwned
  <1>2. IInv /\ [Next]_vars => IInv'
    <2>1. SUFFICES ASSUME IInv, [Next]_vars, ~jumped' PROVE Owned'
      BY NextShape, EndedStep
    <2>2. ~jumped
      BY <2>1, JumpedStays
    <2>. QED  BY <2>1, <2>2, NextShape, OwnedStep
  <1>3. IInv => AllReaped
    <2>1. ASSUME Shape, Owned, NEW p \in Live
          PROVE  p \in UNION {{stack[i].cmds[j].child : j \in DOMAIN stack[i].cmds} :
                                i \in {x \in DOMAIN stack : stack[x].type = "pipeline"}}
      <3>1. PICK i \in 1 .. Len(stack) : Owns(stack[i], p)
        BY <2>1 DEF Owned
      <3>2. PICK j \in 1 .. Len(stack[i].cmds) : stack[i].cmds[j].child = p
        BY <3>1 DEF Owns
      <3>3. i \in DOMAIN stack /\ stack[i].type = "pipeline"
        BY <2>1, <3>1, TopFacts DEF Owns
      <3>4. j \in DOMAIN stack[i].cmds
        <4>1. FrameOK(stack[i], Len(procs), Len(pipes))
          BY <2>1 DEF Shape, Stacked
        <4>2. PipelineOK(stack[i], Len(procs), Len(pipes))
          BY <3>3, <4>1 DEF FrameOK
        <4>. QED  BY <3>2, <4>2, CmdsDomain
      <3>. QED  BY <3>2, <3>3, <3>4
    <2>. QED  BY <2>1 DEF AllReaped
  <1>. HIDE DEF IInv
  <1>. QED  BY <1>1, <1>2, <1>3, PTL DEF Spec

=============================================================================
