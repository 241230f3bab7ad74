-------------------------- MODULE DescriptorProofs --------------------------
(***************************************************************************)
(* Theorems about Pipeline, continued: the descriptors of the shell and of *)
(* its processes.                                                          *)
(*                                                                         *)
(* Each frame of the stack remembers descriptors it will use again: those  *)
(* of its pipe, the copies of 0, 1 and 2, the end of a substitution's pipe *)
(* that is to be read.  They are open, marked close-on-exec, above 2, and  *)
(* no two frames remember the same one; so nothing a command does above a  *)
(* frame disturbs what the frame will put back.                            *)
(***************************************************************************)
EXTENDS PipelineProofs

----------------------------------------------------------------------------
(* What a frame holds *)

HoldsIn(f)   == f.in # 0 /\ (f.phase = "pipe" \/ (f.phase = "save" /\ Len(f.saved) = 0))
HoldsPipe(f) == f.phase \notin {"pipe", "wait"}

HeldBy(f) ==
    IF f.type = "pipeline"
      THEN {x \in {f.in} : HoldsIn(f)} \cup {x \in {f.fd[1], f.fd[2]} : HoldsPipe(f)}
           \cup {f.saved[j] : j \in 1 .. Len(f.saved)}
      ELSE {x \in {f.reader} : f.type = "subst"}
           \cup {x \in {f.saved} : f.type = "subst" /\ f.saved # -1 /\ f.phase = "run"}

\* A frame holds no descriptor twice.
Distinct(f) ==
    IF f.type = "pipeline"
      THEN /\ HoldsPipe(f) =>
                /\ f.fd[1] # f.fd[2]
                /\ \A j \in 1 .. Len(f.saved) : f.saved[j] \notin {f.fd[1], f.fd[2]}
                /\ HoldsIn(f) => f.in \notin {f.fd[1], f.fd[2]}
           /\ \A i, j \in 1 .. Len(f.saved) : f.saved[i] = f.saved[j] => i = j
      ELSE f.type = "subst" /\ f.phase = "run" => f.saved # f.reader

HeldFd(t, x) == x \in Fd /\ x > 2 /\ t[x] # Closed /\ t[x].cloexec

FrameSound(t, f) == Distinct(f) /\ \A x \in HeldBy(f) : HeldFd(t, x)

----------------------------------------------------------------------------
(* The invariant *)

\* Nothing is open on no file.
Tidy(t) == \A x \in Fd : t[x].file = NoFile => t[x] = Closed

StdOpen(t) == \A x \in 0 .. 2 : t[x] # Closed /\ ~t[x].cloexec

\* Only an input redirection leaves a descriptor that a child keeps.
HighMarked(t) == "input" \notin Feature => \A x \in Fd : x > 2 /\ t[x] # Closed => t[x].cloexec

Sound == \A i \in 1 .. Len(stack) : FrameSound(fds, stack[i])

Apart == \A i, j \in 1 .. Len(stack) : i # j => HeldBy(stack[i]) \cap HeldBy(stack[j]) = {}

Tables == Tidy(fds) /\ StdOpen(fds) /\ HighMarked(fds)

Held == shell = "alive" => Tables /\ Sound /\ Apart

----------------------------------------------------------------------------
(* Operations on a table *)

LEMMA PutAt ==
    ASSUME NEW n, NEW t \in Table(n), NEW y, NEW f, NEW c, NEW x \in Fd
    PROVE  Put(t, y, f, c)[x] = IF x = y THEN [file |-> f, cloexec |-> c] ELSE t[x]
  BY DEF Put, Table

LEMMA CloseAt ==
    ASSUME NEW n, NEW t \in Table(n), NEW y, NEW x \in Fd
    PROVE  Close(t, y)[x] = IF x = y THEN Closed ELSE t[x]
  BY DEF Close, Table

LEMMA RedirectAt ==
    ASSUME NEW n, NEW t \in Table(n), NEW old \in Fd, NEW new \in Fd, NEW close \in BOOLEAN,
           NEW x \in Fd
    PROVE  Redirect(t, old, new, close)[x] =
             IF old = new THEN t[x]
             ELSE IF close /\ x = old THEN Closed
             ELSE IF x = new THEN [file |-> t[old].file, cloexec |-> FALSE] ELSE t[x]
  <1>. DEFINE u == Put(t, new, t[old].file, FALSE)
  <1>1. u \in Table(n)
    BY FileOf, PutTable
  <1>2. u[x] = IF x = new THEN [file |-> t[old].file, cloexec |-> FALSE] ELSE t[x]
    BY DEF Put, Table
  <1>3. Close(u, old)[x] = IF x = old THEN Closed ELSE u[x]
    BY <1>1, CloseAt
  <1>. HIDE DEF u
  <1>4. Redirect(t, old, new, close) = IF old = new THEN t ELSE IF close THEN Close(u, old) ELSE u
    BY DEF Redirect, u
  <1>. QED  BY <1>2, <1>3, <1>4

LEMMA StdFds == 0 .. 2 = {0, 1, 2} /\ \A x \in 0 .. 2 : x \in Fd
  <1>1. 0 .. 2 = {0, 1, 2}
    OBVIOUS
  <1>. QED  BY <1>1, FdFacts

LEMMA FdNumbers == \A x \in Fd : x \in Nat /\ (x \notin 0 .. 2 <=> x > 2)
  BY PipelineAssumption DEF Fd

\* The descriptors pipe() and dup() return are above 2.
LEMMA FreeAbove ==
    ASSUME NEW n, NEW t \in Table(n), StdOpen(t), NEW x \in Free(t)
    PROVE  x \in Fd /\ x > 2 /\ t[x] = Closed
  <1>1. x \in Fd /\ t[x] = Closed
    BY FreeFacts DEF Free
  <1>2. x \notin 0 .. 2
    BY <1>1 DEF StdOpen
  <1>. QED  BY <1>1, <1>2, FdNumbers

LEMMA ClosedIsFree ==
    ASSUME NEW n, NEW t \in Table(n), NEW x \in Fd
    PROVE  x \in Free(t) <=> t[x] = Closed
  BY DEF Free, Table

----------------------------------------------------------------------------
(* The frames of a stack *)

\* A step may change 0, 1 and 2, what was closed, and what the frame on top holds.
OnlyTop ==
    \A x \in Fd : x > 2 /\ x \notin Free(fds) /\ x \notin HeldBy(Top) => fds'[x] = fds[x]

LEMMA SoundKept ==
    ASSUME Shape, Sound, Apart, OnlyTop, NEW i \in 1 .. Len(stack), i # Len(stack)
    PROVE  /\ FrameSound(fds', stack[i])
           /\ \A x \in HeldBy(stack[i]) : fds'[x] = fds[x] /\ x \notin Free(fds)
  <1>1. Len(stack) \in 1 .. Len(stack)
    BY TopFacts
  <1>2. ASSUME NEW x \in HeldBy(stack[i])
        PROVE  HeldFd(fds', x) /\ fds'[x] = fds[x] /\ x \notin Free(fds)
    <2>1. x \notin HeldBy(Top)
      BY <1>1 DEF Apart, Top
    <2>2. HeldFd(fds, x)
      BY DEF Sound, FrameSound
    <2>3. fds'[x] = fds[x] /\ x \notin Free(fds)
      BY <2>1, <2>2 DEF OnlyTop, HeldFd, Free
    <2>. QED  BY <2>2, <2>3 DEF HeldFd
  <1>. QED  BY <1>2 DEF Sound, FrameSound

LEMMA CutHeld ==
    ASSUME Shape, Sound, Apart, OnlyTop, NEW n, NEW g, Cut(n, g), FrameSound(fds', g),
           HeldBy(g) \subseteq HeldBy(stack[n]) \cup Free(fds)
    PROVE  Sound' /\ Apart'
  <1>1. n \in 1 .. Len(stack) /\ Len(stack) \in Nat /\ Len(stack') = n /\ stack'[n] = g
        /\ \A i \in 1 .. n - 1 : stack'[i] = stack[i]
    BY TopFacts DEF Cut
  <1>2. ASSUME NEW i \in 1 .. n, i # n
        PROVE  /\ stack'[i] = stack[i] /\ i \in 1 .. Len(stack) /\ i # Len(stack)
               /\ FrameSound(fds', stack[i]) /\ HeldBy(stack[i]) \cap HeldBy(g) = {}
    <2>1. stack'[i] = stack[i] /\ i \in 1 .. Len(stack) /\ i # Len(stack)
      BY <1>1, <1>2
    <2>2. FrameSound(fds', stack[i]) /\ \A x \in HeldBy(stack[i]) : x \notin Free(fds)
      BY <2>1, SoundKept
    <2>3. HeldBy(stack[i]) \cap HeldBy(stack[n]) = {}
      BY <1>1, <1>2, <2>1 DEF Apart
    <2>. QED  BY <2>1, <2>2, <2>3
  <1>3. Sound'
    BY <1>1, <1>2 DEF Sound
  <1>4. ASSUME NEW i \in 1 .. n, NEW j \in 1 .. n, i # j
        PROVE  HeldBy(stack'[i]) \cap HeldBy(stack'[j]) = {}
    <2>1. CASE i # n /\ j # n
      <3>1. stack'[i] = stack[i] /\ stack'[j] = stack[j] /\ i \in 1 .. Len(stack) /\ j \in 1 .. Len(stack)
        BY <1>2, <2>1
      <3>. QED  BY <1>4, <3>1 DEF Apart
    <2>2. CASE i = n
      BY <1>1, <1>2, <1>4, <2>2
    <2>3. CASE j = n
      BY <1>1, <1>2, <1>4, <2>3
    <2>. QED  BY <2>1, <2>2, <2>3
  <1>. QED  BY <1>1, <1>3, <1>4 DEF Apart

LEMMA TopHeld ==
    ASSUME Shape, Sound, Apart, OnlyTop, NEW g, SetTop(g), FrameSound(fds', g),
           HeldBy(g) \subseteq HeldBy(Top) \cup Free(fds)
    PROVE  Sound' /\ Apart'
  <1>1. Cut(Len(stack), g)
    BY TopFacts, SetTopCuts
  <1>2. Top = stack[Len(stack)]
    BY DEF Top
  <1>. HIDE DEF Top
  <1>. QED  BY <1>1, <1>2, CutHeld

\* g holds what the frame on top holds, and f what was closed.
LEMMA PushHeld ==
    ASSUME Shape, Sound, Apart, NEW g, NEW f, Pushed(g, f),
           FrameSound(fds', f), HeldBy(f) \subseteq Free(fds), Distinct(g),
           HeldBy(g) = HeldBy(Top),
           \A x \in Fd : x > 2 /\ x \notin Free(fds) => fds'[x] = fds[x]
    PROVE  Sound' /\ Apart'
  <1>. DEFINE m == Len(stack)
  <1>1. m \in Nat /\ m \in 1 .. m /\ Len(stack') = m + 1 /\ stack'[m + 1] = f /\ stack'[m] = g
        /\ \A i \in 1 .. m - 1 : stack'[i] = stack[i]
    BY TopFacts DEF Pushed
  <1>2. ASSUME NEW i \in 1 .. m
        PROVE  HeldBy(stack'[i]) = HeldBy(stack[i]) /\ Distinct(stack'[i])
    <2>1. CASE i = m
      BY <1>1, <2>1 DEF Top
    <2>2. CASE i # m
      BY <1>1, <2>2 DEF Sound, FrameSound
    <2>. QED  BY <2>1, <2>2
  <1>3. ASSUME NEW i \in 1 .. m
        PROVE  /\ \A x \in HeldBy(stack[i]) : HeldFd(fds', x)
               /\ HeldBy(stack[i]) \cap HeldBy(f) = {}
    <2>1. ASSUME NEW x \in HeldBy(stack[i])
          PROVE  HeldFd(fds', x) /\ x \notin Free(fds)
      <3>1. HeldFd(fds, x)
        BY DEF Sound, FrameSound
      <3>2. x \notin Free(fds)
        BY <3>1 DEF HeldFd, Free
      <3>. QED  BY <3>1, <3>2 DEF HeldFd
    <2>. QED  BY <2>1
  <1>4. Apart /\ 1 .. m = 1 .. Len(stack)
    OBVIOUS
  <1>. HIDE DEF m
  <1>5. Sound'
    <2>1. ASSUME NEW i \in 1 .. m + 1
          PROVE  FrameSound(fds', stack'[i])
      <3>1. CASE i = m + 1
        BY <1>1, <3>1
      <3>2. CASE i \in 1 .. m
        BY <1>2, <1>3, <3>2 DEF FrameSound
      <3>. QED  BY <1>1, <3>1, <3>2
    <2>. QED  BY <1>1, <2>1 DEF Sound
  <1>6. ASSUME NEW i \in 1 .. m + 1, NEW j \in 1 .. m + 1, i # j
        PROVE  HeldBy(stack'[i]) \cap HeldBy(stack'[j]) = {}
    <2>1. CASE i \in 1 .. m /\ j \in 1 .. m
      <3>1. HeldBy(stack[i]) \cap HeldBy(stack[j]) = {}
        BY <1>4, <1>6, <2>1 DEF Apart
      <3>. QED  BY <1>2, <2>1, <3>1
    <2>2. CASE i = m + 1 /\ j \in 1 .. m
      BY <1>1, <1>2, <1>3, <2>2
    <2>3. CASE j = m + 1 /\ i \in 1 .. m
      BY <1>1, <1>2, <1>3, <2>3
    <2>. QED  BY <1>1, <1>6, <2>1, <2>2, <2>3
  <1>. QED  BY <1>1, <1>5, <1>6 DEF Apart

----------------------------------------------------------------------------
(* Each action of the shell keeps what is held *)

LEMMA HeldAt ==
    ASSUME Shape, Held, shell = "alive"
    PROVE  /\ fds \in Table(Len(pipes)) /\ Tidy(fds) /\ StdOpen(fds) /\ HighMarked(fds)
           /\ Sound /\ Apart /\ FrameSound(fds, Top)
  BY TopFacts DEF Held, Tables, Sound, Shape, Typed, Top

LEMMA InAlive == ASSUME NEW phase, InPipeline(phase) PROVE shell = "alive" /\ Top.phase = phase
  BY DEF InPipeline

\* The fields of the pipeline on top.
LEMMA TopFields ==
    ASSUME NEW phase, Shape, InPipeline(phase)
    PROVE  /\ Top.type = "pipeline" /\ Top.phase = phase /\ Top.in \in Fd /\ Top.saved \in Seq(Fd)
           /\ phase \notin {"pipe", "wait"} => Top.fd[1] \in Fd /\ Top.fd[2] \in Fd
           /\ phase = "save" => Len(Top.saved) \in 0 .. 2
           /\ phase \in {"args", "builtin", "restore"} => Len(Top.saved) = 3
           /\ phase \in {"pipe", "next", "wait"} => Top.saved = <<>>
           /\ Len(Top.saved) \in Nat
  <1>1. Top \in PipelineFrame /\ PipelineOK(Top, Len(procs), Len(pipes)) /\ Top.type = "pipeline"
        /\ Top.phase = phase
    BY PipelineAt
  <1>2. Top.in \in Fd /\ Top.saved \in Seq(Fd)
    BY <1>1, FieldsOf
  <1>3. phase \notin {"pipe", "wait"} => Top.fd \in Fd \X Fd
    BY <1>1 DEF PipelineOK
  <1>4. SavedOK(Top)
    BY <1>1 DEF PipelineOK
  <1>5. Len(Top.saved) \in Nat
    BY <1>2
  <1>6. phase = "save" => Len(Top.saved) \in 0 .. 2
    <2>. DEFINE m == Len(Top.saved)
    <2>1. m \in Nat /\ (phase = "save" => m <= 2)
      BY <1>1, <1>4, <1>5 DEF SavedOK
    <2>. HIDE DEF m
    <2>2. phase = "save" => m \in 0 .. 2
      BY <2>1
    <2>. QED  BY <2>2 DEF m
  <1>. QED  BY <1>1, <1>2, <1>3, <1>4, <1>5, <1>6 DEF SavedOK

\* The pipe of a command: two descriptors that were closed.
LEMMA MakePipeAt ==
    ASSUME Shape, Held, MakePipe
    PROVE  LET r == Lowest(Free(fds))
               w == Lowest(Free(fds) \ {r})
               p == Len(pipes) + 1
           IN /\ r \in Free(fds) /\ w \in Free(fds) /\ r # w
              /\ \A x \in Fd :
                   fds'[x] = IF x = w THEN [file |-> Writer(p), cloexec |-> TRUE]
                             ELSE IF x = r THEN [file |-> Reader(p), cloexec |-> TRUE] ELSE fds[x]
  <1>. DEFINE r == Lowest(Free(fds))
              w == Lowest(Free(fds) \ {r})
              p == Len(pipes) + 1
  <1>1. shell = "alive"
    BY DEF MakePipe, InPipeline
  <1>2. fds \in Table(Len(pipes))
    BY <1>1, HeldAt
  <1>3. r \in Free(fds) /\ w \in Free(fds) /\ r # w
    BY <1>2, FreeFacts DEF MakePipe
  <1>4. fds' = Put(Put(fds, r, Reader(p), TRUE), w, Writer(p), TRUE)
    BY DEF MakePipe
  <1>. HIDE DEF r, w, p
  <1>5. ASSUME NEW x \in Fd
        PROVE  fds'[x] = IF x = w THEN [file |-> Writer(p), cloexec |-> TRUE]
                         ELSE IF x = r THEN [file |-> Reader(p), cloexec |-> TRUE] ELSE fds[x]
    <2>. DEFINE t == Put(fds, r, Reader(p), TRUE)
    <2>1. t[x] = IF x = r THEN [file |-> Reader(p), cloexec |-> TRUE] ELSE fds[x]
      BY <1>2 DEF Put, Table
    <2>2. x \in DOMAIN t
      BY <1>2 DEF Put, Table
    <2>. HIDE DEF t
    <2>3. fds'[x] = IF x = w THEN [file |-> Writer(p), cloexec |-> TRUE] ELSE t[x]
      BY <1>4, <2>2 DEF Put, t
    <2>. QED  BY <2>1, <2>3
  <1>. QED  BY <1>3, <1>5 DEF r, w, p

LEMMA MakePipeHeld == ASSUME Shape, Held, MakePipe PROVE Held'
  <1>. DEFINE r == Lowest(Free(fds))
              w == Lowest(Free(fds) \ {r})
              p == Len(pipes) + 1
              g == [Top EXCEPT !.fd = <<r, w>>,
                       !.phase = IF Cmd.kind = "fundec" THEN "next" ELSE "save"]
  <1>1. InPipeline("pipe") /\ shell = "alive" /\ UNCHANGED shell
    BY DEF MakePipe, InPipeline
  <1>2. /\ fds \in Table(Len(pipes)) /\ Tidy(fds) /\ StdOpen(fds) /\ HighMarked(fds)
        /\ Sound /\ Apart /\ FrameSound(fds, Top)
    BY <1>1, HeldAt
  <1>3. r \in Free(fds) /\ w \in Free(fds) /\ r # w
    BY MakePipeAt
  <1>4. SetTop(g)
    BY DEF MakePipe
  <1>6. \A x \in Fd :
          fds'[x] = IF x = w THEN [file |-> Writer(p), cloexec |-> TRUE]
                    ELSE IF x = r THEN [file |-> Reader(p), cloexec |-> TRUE] ELSE fds[x]
    BY MakePipeAt
  <1>. HIDE DEF r, w, p
  <1>5. r \in Fd /\ w \in Fd /\ r > 2 /\ w > 2 /\ fds[r] = Closed /\ fds[w] = Closed
    BY <1>2, <1>3, FreeAbove
  <1>7. Tables'
    <2>1. Reader(p) # NoFile /\ Writer(p) # NoFile
      BY DEF Reader, Writer, NoFile
    <2>2. Tidy(fds')
      BY <1>2, <1>6, <2>1 DEF Tidy
    <2>3. StdOpen(fds')
      BY <1>2, <1>5, <1>6, StdFds DEF StdOpen
    <2>4. HighMarked(fds')
      BY <1>2, <1>6 DEF HighMarked
    <2>. QED  BY <2>2, <2>3, <2>4 DEF Tables
  <1>8. /\ Top.type = "pipeline" /\ Top.phase = "pipe" /\ Top.in \in Fd /\ Top.saved = <<>>
    BY <1>1, TopFields
  <1>9. g.type = "pipeline" /\ g.fd[1] = r /\ g.fd[2] = w /\ g.saved = <<>> /\ g.in = Top.in
        /\ g.phase \in {"save", "next"}
    <2>1. Top \in PipelineFrame
      BY <1>1, PipelineAt
    <2>. QED  BY <1>8, <2>1 DEF PipelineFrame
  <1>. HIDE DEF g
  <1>10. HoldsIn(g) => HeldFd(fds, g.in) /\ g.in \in HeldBy(Top)
    BY <1>2, <1>8, <1>9 DEF HoldsIn, HeldBy, FrameSound
  <1>11. HeldBy(g) = {x \in {g.in} : HoldsIn(g)} \cup {r, w}
    <2>1. Len(g.saved) = 0
      BY <1>9
    <2>. QED  BY <1>9, <2>1 DEF HeldBy, HoldsPipe
  <1>12. FrameSound(fds', g)
    <2>1. Distinct(g)
      <3>1. Len(g.saved) = 0
        BY <1>9
      <3>2. HoldsIn(g) => g.in \notin {r, w}
        BY <1>5, <1>10 DEF HeldFd
      <3>. QED  BY <1>3, <1>9, <3>1, <3>2 DEF Distinct
    <2>2. HeldFd(fds', r) /\ HeldFd(fds', w)
      <3>1. Reader(p) # <<"none", 0>> /\ Writer(p) # <<"none", 0>>
        BY DEF Reader, Writer
      <3>. QED  BY <1>3, <1>5, <1>6, <3>1 DEF HeldFd, Closed
    <2>3. HoldsIn(g) => HeldFd(fds', g.in)
      BY <1>5, <1>6, <1>10 DEF HeldFd
    <2>. QED  BY <1>11, <2>1, <2>2, <2>3 DEF FrameSound
  <1>13. OnlyTop
    BY <1>3, <1>6 DEF OnlyTop
  <1>14. HeldBy(g) \subseteq HeldBy(Top) \cup Free(fds)
    BY <1>3, <1>10, <1>11
  <1>. QED  BY <1>1, <1>2, <1>4, <1>7, <1>12, <1>13, <1>14, TopHeld DEF Held

\* Steps that leave the descriptors alone, and hold no more than before.
LEMMA SameFds ==
    ASSUME Shape, Held, shell = "alive", UNCHANGED <<shell, fds>>,
           NEW n, NEW g, Cut(n, g), Distinct(g), HeldBy(g) \subseteq HeldBy(stack[n])
    PROVE  Held'
  <1>1. /\ Tables /\ Sound /\ Apart
    BY DEF Held
  <1>2. OnlyTop
    BY DEF OnlyTop
  <1>3. FrameSound(fds', g)
    BY <1>1 DEF Cut, Sound, FrameSound
  <1>4. Sound' /\ Apart'
    BY <1>1, <1>2, <1>3, CutHeld
  <1>. QED  BY <1>1, <1>4 DEF Held, Tables

LEMMA SameFdsTop ==
    ASSUME Shape, Held, shell = "alive", UNCHANGED <<shell, fds>>,
           NEW g, SetTop(g), Distinct(g), HeldBy(g) \subseteq HeldBy(Top)
    PROVE  Held'
  <1>1. Cut(Len(stack), g) /\ Top = stack[Len(stack)]
    BY TopFacts, SetTopCuts
  <1>. HIDE DEF Top
  <1>. QED  BY <1>1, SameFds

\* A pipeline that holds nothing.
LEMMA HoldsNothing ==
    ASSUME NEW g, g.type = "pipeline", g.saved = <<>>, g.phase = "wait"
    PROVE  Distinct(g) /\ HeldBy(g) = {}
  <1>1. Len(g.saved) = 0
    OBVIOUS
  <1>. QED  BY <1>1 DEF Distinct, HeldBy, HoldsIn, HoldsPipe

\* The same fields: the same descriptors.
LEMMA SameHolder ==
    ASSUME NEW f, NEW g, f.type = "pipeline", g.type = "pipeline", g.in = f.in,
           g.fd = f.fd, g.saved = f.saved, HoldsIn(f) <=> HoldsIn(g),
           HoldsPipe(f) <=> HoldsPipe(g)
    PROVE  HeldBy(g) = HeldBy(f) /\ (Distinct(f) => Distinct(g))
  <1>1. HeldBy(g) = HeldBy(f)
    BY DEF HeldBy
  <1>. QED  BY <1>1 DEF Distinct

LEMMA PipeFailsHeld == ASSUME Shape, Held, PipeFails PROVE Held'
  <1>. DEFINE g == [Top EXCEPT !.phase = "wait", !.k = 1]
  <1>1. InPipeline("pipe") /\ shell = "alive" /\ UNCHANGED <<shell, fds>> /\ SetTop(g)
    BY DEF PipeFails, InPipeline
  <1>2. Top \in PipelineFrame /\ Top.saved = <<>>
    BY <1>1, PipelineAt, TopFields
  <1>3. g.type = "pipeline" /\ g.phase = "wait" /\ g.saved = <<>>
    BY <1>2 DEF PipelineFrame
  <1>. HIDE DEF g
  <1>. QED  BY <1>1, <1>3, HoldsNothing, SameFdsTop

\* 0, 1 and 2 are copied in turn above what is held, and put on an end of a pipe
\* that is held, if not left alone.
LEMMA SaveAt ==
    ASSUME Shape, Held, SaveDescriptor
    PROVE  LET i  == Len(Top.saved)
               n  == Lowest(Free(fds))
               to == Target(Top, i)
           IN /\ i \in 0 .. 2 /\ n \in Free(fds) /\ to \in Fd
              /\ to = i \/ (to \in HeldBy(Top) /\ to > 2)
              /\ i = 0 /\ to # 0 => to = Top.in /\ HoldsIn(Top)
              /\ i # 0 => to = i \/ to = Top.fd[2]
              /\ \A x \in Fd :
                   fds'[x] = IF x = n THEN [file |-> fds[i].file, cloexec |-> TRUE]
                             ELSE IF x = i /\ to # i
                               THEN [file |-> fds[to].file, cloexec |-> FALSE]
                             ELSE IF x = to /\ to # i /\ i = 0 THEN Closed
                             ELSE fds[x]
  <1>. DEFINE i  == Len(Top.saved)
              n  == Lowest(Free(fds))
              to == Target(Top, i)
  <1>1. InPipeline("save") /\ shell = "alive"
    BY DEF SaveDescriptor, InPipeline
  <1>2. /\ fds \in Table(Len(pipes)) /\ StdOpen(fds) /\ FrameSound(fds, Top)
    BY <1>1, HeldAt
  <1>3. /\ Top.type = "pipeline" /\ Top.phase = "save" /\ Top.in \in Fd /\ Top.saved \in Seq(Fd)
        /\ Top.fd[1] \in Fd /\ Top.fd[2] \in Fd /\ i \in 0 .. 2
    BY <1>1, TopFields
  <1>4. n \in Free(fds)
    BY <1>2, FreeFacts DEF SaveDescriptor
  <1>5. fds' = Redirect(Put(fds, n, fds[i].file, TRUE), to, i, i = 0)
    BY DEF SaveDescriptor, Target
  <1>. HIDE DEF n
  <1>6. n \in Fd /\ n > 2 /\ fds[n] = Closed
    BY <1>2, <1>4, FreeAbove
  <1>7. HoldsPipe(Top) /\ (i = 0 /\ Top.in # 0 => HoldsIn(Top))
    BY <1>3 DEF HoldsPipe, HoldsIn
  <1>. HIDE DEF i
  <1>8. i \in Fd /\ i <= 2 /\ i # n
    BY <1>3, <1>6, StdFds, FdNumbers
  <1>9. to = i \/ (to = Top.in /\ i = 0 /\ HoldsIn(Top)) \/ to = Top.fd[2]
    BY <1>7 DEF Target
  <1>10. to = i \/ (to \in HeldBy(Top) /\ to > 2)
    <2>1. Top.fd[2] \in HeldBy(Top) /\ (HoldsIn(Top) => Top.in \in HeldBy(Top))
      BY <1>3, <1>7 DEF HeldBy
    <2>. QED  BY <1>2, <1>9, <2>1 DEF FrameSound, HeldFd
  <1>11. /\ to \in Fd
         /\ i = 0 /\ to # 0 => to = Top.in /\ HoldsIn(Top)
         /\ i # 0 => to = i \/ to = Top.fd[2]
    <2>1. i = 0 => to = Top.in
      BY DEF Target
    <2>. QED  BY <1>3, <1>7, <1>8, <1>9, <2>1
  <1>12. to # n
    <2>1. to \in HeldBy(Top) => HeldFd(fds, to)
      BY <1>2 DEF FrameSound
    <2>. QED  BY <1>6, <1>8, <1>10, <2>1 DEF HeldFd
  <1>. HIDE DEF to
  <1>. DEFINE t == Put(fds, n, fds[i].file, TRUE)
  <1>13. t \in Table(Len(pipes))
    BY <1>2, <1>8, FileOf, PutTable
  <1>14. \A x \in Fd : t[x] = IF x = n THEN [file |-> fds[i].file, cloexec |-> TRUE] ELSE fds[x]
    BY <1>2 DEF Put, Table
  <1>. HIDE DEF t
  <1>15. ASSUME NEW x \in Fd
         PROVE  fds'[x] = IF to = i THEN t[x]
             ELSE IF i = 0 /\ x = to THEN Closed
             ELSE IF x = i THEN [file |-> t[to].file, cloexec |-> FALSE] ELSE t[x]
    <2>. DEFINE c == i = 0
    <2>1. fds' = Redirect(t, to, i, c) /\ c \in BOOLEAN
      BY <1>5 DEF t
    <2>. HIDE DEF c
    <2>2. fds'[x] = IF to = i THEN t[x]
             ELSE IF c /\ x = to THEN Closed
             ELSE IF x = i THEN [file |-> t[to].file, cloexec |-> FALSE] ELSE t[x]
      BY <1>8, <1>11, <1>13, <2>1, RedirectAt
    <2>. QED  BY <2>2 DEF c
  <1>16. ASSUME NEW x \in Fd
         PROVE  fds'[x] = IF x = n THEN [file |-> fds[i].file, cloexec |-> TRUE]
                             ELSE IF x = i /\ to # i
                               THEN [file |-> fds[to].file, cloexec |-> FALSE]
                             ELSE IF x = to /\ to # i /\ i = 0 THEN Closed
                             ELSE fds[x]
    BY <1>8, <1>11, <1>12, <1>14, <1>15
  <1>. QED  BY <1>3, <1>4, <1>10, <1>11, <1>16 DEF i, n, to

LEMMA OpenFile ==
    ASSUME NEW t, Tidy(t), NEW x \in Fd, t[x] # Closed
    PROVE  t[x].file # NoFile
  BY DEF Tidy

LEMMA SaveDescriptorHeld == ASSUME Shape, Held, SaveDescriptor PROVE Held'
  <1>. DEFINE i  == Len(Top.saved)
              n  == Lowest(Free(fds))
              to == Target(Top, i)
              g  == [Top EXCEPT !.saved = Append(@, n),
                                !.phase = IF i = 2 THEN "args" ELSE "save"]
  <1>1. InPipeline("save") /\ shell = "alive" /\ UNCHANGED shell /\ SetTop(g)
    BY DEF SaveDescriptor, InPipeline
  <1>2. /\ fds \in Table(Len(pipes)) /\ Tidy(fds) /\ StdOpen(fds) /\ HighMarked(fds)
        /\ Sound /\ Apart /\ FrameSound(fds, Top)
    BY <1>1, HeldAt
  <1>3. Top \in PipelineFrame /\ Top.type = "pipeline" /\ Top.phase = "save" /\ Top.in \in Fd
        /\ Top.saved \in Seq(Fd) /\ Top.fd[1] \in Fd /\ Top.fd[2] \in Fd
    BY <1>1, TopFields, PipelineAt
  <1>4. /\ i \in 0 .. 2 /\ n \in Free(fds) /\ to \in Fd
        /\ to = i \/ (to \in HeldBy(Top) /\ to > 2)
        /\ i = 0 /\ to # 0 => to = Top.in /\ HoldsIn(Top)
        /\ \A x \in Fd :
             fds'[x] = IF x = n THEN [file |-> fds[i].file, cloexec |-> TRUE]
                       ELSE IF x = i /\ to # i
                         THEN [file |-> fds[to].file, cloexec |-> FALSE]
                       ELSE IF x = to /\ to # i /\ i = 0 THEN Closed
                       ELSE fds[x]
    BY SaveAt
  <1>5. g.type = "pipeline" /\ g.fd = Top.fd /\ g.saved = Append(Top.saved, n)
        /\ g.phase \in {"args", "save"} /\ g.in = Top.in
    BY <1>3 DEF PipelineFrame
  <1>. HIDE DEF g, n, to
  <1>6. n \in Fd /\ n > 2 /\ fds[n] = Closed
    BY <1>2, <1>4, FreeAbove
  <1>7. /\ Len(g.saved) = i + 1 /\ i \in Nat /\ g.saved[i + 1] = n
        /\ \A j \in 1 .. i : g.saved[j] = Top.saved[j] /\ g.saved[j] \in HeldBy(Top)
    <2>1. Len(g.saved) = i + 1 /\ i \in Nat /\ g.saved[i + 1] = n
          /\ \A j \in 1 .. i : g.saved[j] = Top.saved[j]
      BY <1>3, <1>5, <1>6
    <2>. QED  BY <1>3, <2>1 DEF HeldBy
  <1>8. HoldsPipe(Top) /\ HoldsPipe(g) /\ ~HoldsIn(g)
    <2>. HIDE DEF i
    <2>. QED  BY <1>3, <1>5, <1>7 DEF HoldsPipe, HoldsIn
  <1>9. Top.fd[1] \in HeldBy(Top) /\ Top.fd[2] \in HeldBy(Top)
    BY <1>3, <1>8 DEF HeldBy
  <1>10. /\ Top.fd[1] # Top.fd[2]
         /\ \A j \in 1 .. i : Top.saved[j] \notin {Top.fd[1], Top.fd[2]}
         /\ HoldsIn(Top) => Top.in \notin {Top.fd[1], Top.fd[2]}
         /\ \A j, k \in 1 .. i : Top.saved[j] = Top.saved[k] => j = k
    BY <1>2, <1>3, <1>8 DEF FrameSound, Distinct
  <1>11. \A x \in HeldBy(Top) : HeldFd(fds, x)
    BY <1>2 DEF FrameSound
  <1>. HIDE DEF i
  <1>12. HeldBy(g) = {g.fd[1], g.fd[2]} \cup {g.saved[j] : j \in 1 .. i + 1}
    BY <1>5, <1>7, <1>8 DEF HeldBy
  <1>13. \A x \in HeldBy(Top) : x # n
    BY <1>6, <1>11 DEF HeldFd
  <1>14. Distinct(g)
    <2>1. \A j \in 1 .. i + 1 : g.saved[j] \notin {g.fd[1], g.fd[2]}
      BY <1>5, <1>7, <1>9, <1>10, <1>13
    <2>2. \A j, k \in 1 .. i + 1 : g.saved[j] = g.saved[k] => j = k
      <3>1. \A j \in 1 .. i + 1 : j \in 1 .. i \/ j = i + 1
        BY <1>7
      <3>. QED  BY <1>7, <1>10, <1>13, <3>1
    <2>. QED  BY <1>5, <1>7, <1>8, <1>10, <2>1, <2>2 DEF Distinct
  <1>15. i = 0 \/ i = 1 \/ i = 2
    BY <1>4
  <1>16. \A x \in HeldBy(Top) : x # to \/ i # 0 => HeldFd(fds', x)
    <2>1. \A x \in HeldBy(Top) : x \in Fd /\ x > 2
      BY <1>11 DEF HeldFd
    <2>2. \A x \in HeldBy(Top) : x # i
      BY <1>15, <2>1
    <2>. QED  BY <1>4, <1>11, <1>13, <2>1, <2>2 DEF HeldFd
  <1>17. FrameSound(fds', g)
    <2>1. i = 0 => Top.fd[1] # to /\ Top.fd[2] # to
      <3>1. Top.fd[1] > 2 /\ Top.fd[2] > 2
        BY <1>9, <1>11 DEF HeldFd
      <3>. QED  BY <1>4, <1>10, <3>1
    <2>2. HeldFd(fds', g.fd[1]) /\ HeldFd(fds', g.fd[2])
      BY <1>5, <1>9, <1>16, <2>1
    <2>3. HeldFd(fds', n)
      BY <1>4, <1>6 DEF HeldFd, Closed
    <2>4. \A j \in 1 .. i : i # 0
      BY <1>7
    <2>5. \A j \in 1 .. i + 1 : HeldFd(fds', g.saved[j])
      <3>1. \A j \in 1 .. i + 1 : j \in 1 .. i \/ j = i + 1
        BY <1>7
      <3>. QED  BY <1>7, <1>16, <2>3, <2>4, <3>1
    <2>. QED  BY <1>12, <1>14, <2>2, <2>5 DEF FrameSound
  <1>18. OnlyTop
    <2>1. \A x \in Fd : x > 2 => x # i
      BY <1>15
    <2>. QED  BY <1>4, <2>1 DEF OnlyTop
  <1>19. HeldBy(g) \subseteq HeldBy(Top) \cup Free(fds)
    <2>1. \A j \in 1 .. i + 1 : j \in 1 .. i \/ j = i + 1
      BY <1>7
    <2>. QED  BY <1>4, <1>5, <1>7, <1>9, <1>12, <2>1
  <1>20. Tables'
    <2>1. fds[i].file # NoFile /\ i \in Fd
      BY <1>2, <1>15, StdFds, OpenFile DEF StdOpen
    <2>2. to # i => fds[to].file # NoFile
      BY <1>2, <1>4, <1>11, OpenFile DEF HeldFd
    <2>3. Tidy(fds')
      <3>1. \A x \in Fd : fds'[x].file = NoFile => fds'[x] = Closed
        BY <1>2, <1>4, <2>1, <2>2 DEF Tidy
      <3>. QED  BY <3>1 DEF Tidy
    <2>4. StdOpen(fds')
      <3>1. ASSUME NEW x \in 0 .. 2
            PROVE  x # n /\ x \in Fd /\ (to # i => x # to)
        BY <1>4, <1>6, StdFds
      <3>2. Closed.file = NoFile
        BY DEF Closed, NoFile
      <3>3. ASSUME NEW x \in 0 .. 2
            PROVE  fds'[x] # Closed /\ ~fds'[x].cloexec
        <4>1. CASE x = i /\ to # i
          <5>1. fds'[x] = [file |-> fds[to].file, cloexec |-> FALSE]
            BY <1>4, <3>1, <4>1
          <5>. QED  BY <2>2, <3>2, <4>1, <5>1
        <4>2. CASE ~(x = i /\ to # i)
          <5>1. fds'[x] = fds[x]
            BY <1>4, <3>1, <4>2
          <5>. QED  BY <1>2, <5>1 DEF StdOpen
        <4>. QED  BY <4>1, <4>2
      <3>. QED  BY <3>3 DEF StdOpen
    <2>5. HighMarked(fds')
      <3>1. \A x \in Fd : x > 2 => x # i
        BY <1>15
      <3>. QED  BY <1>2, <1>4, <3>1 DEF HighMarked
    <2>. QED  BY <2>3, <2>4, <2>5 DEF Tables
  <1>. QED  BY <1>1, <1>2, <1>17, <1>18, <1>19, <1>20, TopHeld DEF Held

LEMMA SaveFailsHeld == ASSUME Shape, Held, SaveFails PROVE Held'
  <1>. DEFINE g == [Top EXCEPT !.phase = "next", !.saved = <<>>]
  <1>1. InPipeline("save") /\ shell = "alive" /\ UNCHANGED <<shell, fds>> /\ SetTop(g)
    BY DEF SaveFails, InPipeline
  <1>2. Top \in PipelineFrame /\ Top.type = "pipeline" /\ Top.phase = "save"
    BY <1>1, PipelineAt
  <1>3. g.type = "pipeline" /\ g.phase = "next" /\ g.saved = <<>> /\ g.fd = Top.fd
    BY <1>2 DEF PipelineFrame
  <1>. HIDE DEF g
  <1>4. Len(g.saved) = 0 /\ HoldsPipe(g) /\ ~HoldsIn(g) /\ HoldsPipe(Top)
    BY <1>2, <1>3 DEF HoldsPipe, HoldsIn
  <1>5. Distinct(Top)
    BY <1>1, HeldAt DEF FrameSound
  <1>6. Distinct(g) /\ HeldBy(g) \subseteq HeldBy(Top)
    BY <1>2, <1>3, <1>4, <1>5 DEF Distinct, HeldBy
  <1>. QED  BY <1>1, <1>6, SameFdsTop

----------------------------------------------------------------------------
(* The descriptors are put back *)

\* RestoreOne on a descriptor above 2: moved down to i.
LEMMA RestoreOneAt ==
    ASSUME NEW n, NEW t \in Table(n), NEW i \in 0 .. 2, NEW s \in Fd, s > 2
    PROVE  /\ RestoreOne(t, i, s) \in Table(n)
           /\ \A x \in Fd : RestoreOne(t, i, s)[x] =
                IF x = s THEN Closed
                ELSE IF x = i THEN [file |-> t[s].file, cloexec |-> FALSE] ELSE t[x]
  <1>1. i \in Fd /\ i # s
    BY StdFds
  <1>. DEFINE c == TRUE
  <1>2. RestoreOne(t, i, s) = Redirect(t, s, i, c) /\ c \in BOOLEAN
    BY DEF RestoreOne
  <1>4. c
    OBVIOUS
  <1>. HIDE DEF c
  <1>3. ASSUME NEW x \in Fd
        PROVE  Redirect(t, s, i, c)[x] =
                IF s = i THEN t[x]
                ELSE IF c /\ x = s THEN Closed
                ELSE IF x = i THEN [file |-> t[s].file, cloexec |-> FALSE] ELSE t[x]
    <2>1. i \in Fd /\ c \in BOOLEAN /\ t \in Table(n)
      BY <1>1, <1>2
    <2>. QED  BY <2>1, RedirectAt
  <1>. QED  BY <1>1, <1>2, <1>3, <1>4, RedirectTable

LEMMA RestoreAt ==
    ASSUME NEW n, NEW t \in Table(n), NEW a \in Fd, NEW b \in Fd, NEW c \in Fd,
           a > 2, b > 2, c > 2, a # b, b # c, a # c,
           NEW saved, saved[1] = a, saved[2] = b, saved[3] = c, NEW x \in Fd
    PROVE  Restore(t, saved)[x] =
             IF x \in {a, b, c} THEN Closed
             ELSE IF x = 0 THEN [file |-> t[a].file, cloexec |-> FALSE]
             ELSE IF x = 1 THEN [file |-> t[b].file, cloexec |-> FALSE]
             ELSE IF x = 2 THEN [file |-> t[c].file, cloexec |-> FALSE] ELSE t[x]
  <1>. DEFINE u == RestoreOne(t, 0, a)
              v == RestoreOne(u, 1, b)
              w == RestoreOne(v, 2, c)
  <1>1. Restore(t, saved) = w
    BY DEF Restore
  <1>2. u \in Table(n) /\ \A y \in Fd : u[y] =
                IF y = a THEN Closed
                ELSE IF y = 0 THEN [file |-> t[a].file, cloexec |-> FALSE] ELSE t[y]
    BY RestoreOneAt
  <1>. HIDE DEF u
  <1>3. v \in Table(n) /\ \A y \in Fd : v[y] =
                IF y = b THEN Closed
                ELSE IF y = 1 THEN [file |-> u[b].file, cloexec |-> FALSE] ELSE u[y]
    BY <1>2, RestoreOneAt
  <1>. HIDE DEF v
  <1>4. \A y \in Fd : w[y] =
                IF y = c THEN Closed
                ELSE IF y = 2 THEN [file |-> v[c].file, cloexec |-> FALSE] ELSE v[y]
    BY <1>3, RestoreOneAt
  <1>. HIDE DEF w
  <1>5. a # 0 /\ a # 1 /\ a # 2 /\ b # 0 /\ b # 1 /\ b # 2 /\ c # 0 /\ c # 1 /\ c # 2
    OBVIOUS
  <1>6. u[b] = t[b] /\ v[c] = t[c]
    BY <1>2, <1>3, <1>5
  <1>7. /\ x = c => w[x] = Closed
        /\ x # c /\ x = 2 => w[x] = [file |-> t[c].file, cloexec |-> FALSE]
        /\ x # c /\ x # 2 => w[x] = v[x]
    BY <1>4, <1>6
  <1>8. /\ x = b => v[x] = Closed
        /\ x # b /\ x = 1 => v[x] = [file |-> t[b].file, cloexec |-> FALSE]
        /\ x # b /\ x # 1 => v[x] = u[x]
    BY <1>3, <1>6
  <1>9. /\ x = a => u[x] = Closed
        /\ x # a /\ x = 0 => u[x] = [file |-> t[a].file, cloexec |-> FALSE]
        /\ x # a /\ x # 0 => u[x] = t[x]
    BY <1>2
  <1>. QED  BY <1>1, <1>5, <1>7, <1>8, <1>9

\* The copies of 0, 1 and 2 that a pipeline holds.
LEMMA SavedHeld ==
    ASSUME NEW t, NEW f, FrameSound(t, f), f.type = "pipeline", Len(f.saved) = 3,
           HoldsPipe(f)
    PROVE  /\ \A j \in 1 .. 3 : f.saved[j] \in HeldBy(f) /\ HeldFd(t, f.saved[j])
                                 /\ f.saved[j] \notin {f.fd[1], f.fd[2]}
           /\ f.saved[1] # f.saved[2] /\ f.saved[1] # f.saved[3] /\ f.saved[2] # f.saved[3]
           /\ f.fd[1] \in HeldBy(f) /\ f.fd[2] \in HeldBy(f) /\ f.fd[1] # f.fd[2]
  <1>1. f.fd[1] \in HeldBy(f) /\ f.fd[2] \in HeldBy(f) /\ \A j \in 1 .. 3 : f.saved[j] \in HeldBy(f)
    BY DEF HeldBy
  <1>2. 1 \in 1 .. 3 /\ 2 \in 1 .. 3 /\ 3 \in 1 .. 3
    OBVIOUS
  <1>. QED  BY <1>1, <1>2 DEF FrameSound, Distinct

LEMMA RestoreDescriptorsAt ==
    ASSUME Shape, Held, RestoreDescriptors
    PROVE  /\ \A j \in 1 .. 3 : Top.saved[j] \in Fd /\ Top.saved[j] > 2 /\ fds[Top.saved[j]] # Closed
                                /\ Top.saved[j] \in HeldBy(Top)
           /\ \A x \in Fd :
                fds'[x] = IF x \in {Top.saved[1], Top.saved[2], Top.saved[3]} THEN Closed
                          ELSE IF x = 0 THEN [file |-> fds[Top.saved[1]].file, cloexec |-> FALSE]
                          ELSE IF x = 1 THEN [file |-> fds[Top.saved[2]].file, cloexec |-> FALSE]
                          ELSE IF x = 2 THEN [file |-> fds[Top.saved[3]].file, cloexec |-> FALSE]
                          ELSE fds[x]
  <1>1. InPipeline("restore") /\ shell = "alive" /\ fds' = Restore(fds, Top.saved)
    BY DEF RestoreDescriptors, InPipeline
  <1>2. fds \in Table(Len(pipes)) /\ FrameSound(fds, Top)
    BY <1>1, HeldAt
  <1>3. Top.type = "pipeline" /\ Top.phase = "restore" /\ Len(Top.saved) = 3
    BY <1>1, TopFields
  <1>4. HoldsPipe(Top)
    BY <1>3 DEF HoldsPipe
  <1>. DEFINE a == Top.saved[1]
              b == Top.saved[2]
              c == Top.saved[3]
  <1>5. /\ \A j \in 1 .. 3 : Top.saved[j] \in HeldBy(Top) /\ HeldFd(fds, Top.saved[j])
        /\ a # b /\ a # c /\ b # c
    BY <1>2, <1>3, <1>4, SavedHeld
  <1>6. HeldFd(fds, a) /\ HeldFd(fds, b) /\ HeldFd(fds, c)
    <2>1. 1 \in 1 .. 3 /\ 2 \in 1 .. 3 /\ 3 \in 1 .. 3
      OBVIOUS
    <2>. QED  BY <1>5, <2>1
  <1>7. a \in Fd /\ b \in Fd /\ c \in Fd /\ a > 2 /\ b > 2 /\ c > 2
    BY <1>6 DEF HeldFd
  <1>8. Top.saved[1] = a /\ Top.saved[2] = b /\ Top.saved[3] = c
    OBVIOUS
  <1>. HIDE DEF a, b, c
  <1>9. ASSUME NEW x \in Fd
        PROVE  Restore(fds, Top.saved)[x] =
             IF x \in {a, b, c} THEN Closed
             ELSE IF x = 0 THEN [file |-> fds[a].file, cloexec |-> FALSE]
             ELSE IF x = 1 THEN [file |-> fds[b].file, cloexec |-> FALSE]
             ELSE IF x = 2 THEN [file |-> fds[c].file, cloexec |-> FALSE] ELSE fds[x]
    <2>. DEFINE saved == Top.saved
    <2>1. saved[1] = a /\ saved[2] = b /\ saved[3] = c
      BY <1>8
    <2>. HIDE DEF saved
    <2>2. Restore(fds, saved)[x] =
             IF x \in {a, b, c} THEN Closed
             ELSE IF x = 0 THEN [file |-> fds[a].file, cloexec |-> FALSE]
             ELSE IF x = 1 THEN [file |-> fds[b].file, cloexec |-> FALSE]
             ELSE IF x = 2 THEN [file |-> fds[c].file, cloexec |-> FALSE] ELSE fds[x]
      BY <1>2, <1>5, <1>7, <2>1, RestoreAt
    <2>. QED  BY <2>2 DEF saved
  <1>. QED  BY <1>1, <1>5, <1>8, <1>9 DEF HeldFd

LEMMA RestoreDescriptorsHeld == ASSUME Shape, Held, RestoreDescriptors PROVE Held'
  <1>. DEFINE g == [Top EXCEPT !.phase = "next", !.saved = <<>>]
              S == {Top.saved[1], Top.saved[2], Top.saved[3]}
  <1>1. InPipeline("restore") /\ shell = "alive" /\ UNCHANGED shell /\ SetTop(g)
    BY DEF RestoreDescriptors, InPipeline
  <1>2. /\ fds \in Table(Len(pipes)) /\ Tidy(fds) /\ StdOpen(fds) /\ HighMarked(fds)
        /\ Sound /\ Apart /\ FrameSound(fds, Top)
    BY <1>1, HeldAt
  <1>3. Top \in PipelineFrame /\ Top.type = "pipeline" /\ Top.phase = "restore" /\ Len(Top.saved) = 3
    BY <1>1, PipelineAt, TopFields
  <1>4. g.type = "pipeline" /\ g.phase = "next" /\ g.saved = <<>> /\ g.fd = Top.fd
    BY <1>3 DEF PipelineFrame
  <1>5. /\ \A j \in 1 .. 3 : Top.saved[j] \in Fd /\ Top.saved[j] > 2 /\ fds[Top.saved[j]] # Closed
                             /\ Top.saved[j] \in HeldBy(Top)
        /\ \A x \in Fd :
             fds'[x] = IF x \in S THEN Closed
                       ELSE IF x = 0 THEN [file |-> fds[Top.saved[1]].file, cloexec |-> FALSE]
                       ELSE IF x = 1 THEN [file |-> fds[Top.saved[2]].file, cloexec |-> FALSE]
                       ELSE IF x = 2 THEN [file |-> fds[Top.saved[3]].file, cloexec |-> FALSE]
                       ELSE fds[x]
    BY RestoreDescriptorsAt
  <1>. HIDE DEF g
  <1>6. Len(g.saved) = 0 /\ HoldsPipe(g) /\ ~HoldsIn(g) /\ HoldsPipe(Top)
    BY <1>3, <1>4 DEF HoldsPipe, HoldsIn
  <1>7. /\ \A j \in 1 .. 3 : Top.saved[j] \notin {Top.fd[1], Top.fd[2]}
        /\ Top.fd[1] \in HeldBy(Top) /\ Top.fd[2] \in HeldBy(Top) /\ Top.fd[1] # Top.fd[2]
    BY <1>2, <1>3, <1>6, SavedHeld
  <1>8. HeldBy(g) = {Top.fd[1], Top.fd[2]}
    BY <1>4, <1>6 DEF HeldBy
  <1>9. \A x \in S : x > 2 /\ x \in HeldBy(Top) /\ x \notin {Top.fd[1], Top.fd[2]}
    <2>1. 1 \in 1 .. 3 /\ 2 \in 1 .. 3 /\ 3 \in 1 .. 3
      OBVIOUS
    <2>. QED  BY <1>5, <1>7, <2>1
  <1>. HIDE DEF S
  <1>10. \A x \in Fd : x > 2 /\ x \notin S => fds'[x] = fds[x]
    BY <1>5
  <1>11. FrameSound(fds', g)
    <2>1. Distinct(g)
      BY <1>4, <1>6, <1>7 DEF Distinct
    <2>2. \A x \in HeldBy(g) : HeldFd(fds, x) /\ x \notin S
      BY <1>2, <1>7, <1>8, <1>9 DEF FrameSound
    <2>3. \A x \in HeldBy(g) : HeldFd(fds', x)
      BY <1>10, <2>2 DEF HeldFd
    <2>. QED  BY <2>1, <2>3 DEF FrameSound
  <1>12. OnlyTop
    BY <1>9, <1>10 DEF OnlyTop
  <1>13. Tables'
    <2>. DEFINE Moved(j) == [file |-> fds[Top.saved[j]].file, cloexec |-> FALSE]
    <2>1. \A j \in 1 .. 3 : fds[Top.saved[j]].file # NoFile
      BY <1>2, <1>5, OpenFile
    <2>2. Closed.file = NoFile
      BY DEF Closed, NoFile
    <2>3. Moved(1).file # NoFile /\ Moved(2).file # NoFile /\ Moved(3).file # NoFile
      <3>1. 1 \in 1 .. 3 /\ 2 \in 1 .. 3 /\ 3 \in 1 .. 3
        OBVIOUS
      <3>. QED  BY <2>1, <3>1
    <2>4. Moved(1) # Closed /\ Moved(2) # Closed /\ Moved(3) # Closed
      BY <2>2, <2>3
    <2>5. ~Moved(1).cloexec /\ ~Moved(2).cloexec /\ ~Moved(3).cloexec
      OBVIOUS
    <2>6. \A x \in Fd :
             fds'[x] = IF x \in S THEN Closed
                       ELSE IF x = 0 THEN Moved(1) ELSE IF x = 1 THEN Moved(2)
                       ELSE IF x = 2 THEN Moved(3) ELSE fds[x]
      BY <1>5
    <2>7. 0 \notin S /\ 1 \notin S /\ 2 \notin S
      BY <1>9
    <2>. HIDE DEF Moved
    <2>8. Tidy(fds')
      BY <1>2, <2>3, <2>6 DEF Tidy
    <2>9. StdOpen(fds')
      <3>1. fds'[0] = Moved(1) /\ fds'[1] = Moved(2) /\ fds'[2] = Moved(3)
        BY <2>6, <2>7, FdFacts
      <3>. QED  BY <2>4, <2>5, <3>1, StdFds DEF StdOpen
    <2>10. HighMarked(fds')
      BY <1>2, <1>10, <2>6 DEF HighMarked
    <2>. QED  BY <2>8, <2>9, <2>10 DEF Tables
  <1>14. HeldBy(g) \subseteq HeldBy(Top) \cup Free(fds)
    BY <1>7, <1>8
  <1>. QED  BY <1>1, <1>2, <1>11, <1>12, <1>13, <1>14, TopHeld DEF Held

\* The write end is closed; the read end becomes the input of the next command.
LEMMA NextCommandAt ==
    ASSUME Shape, Held, NextCommand
    PROVE  /\ Top.fd[1] \in Fd /\ Top.fd[2] \in Fd
           /\ Top.fd[1] \in HeldBy(Top) /\ Top.fd[2] \in HeldBy(Top) /\ Top.fd[1] # Top.fd[2]
           /\ HeldFd(fds, Top.fd[1]) /\ HeldFd(fds, Top.fd[2])
           /\ \A x \in Fd : fds'[x] = IF x = Top.fd[2] THEN Closed ELSE fds[x]
           /\ \E g : /\ SetTop(g) /\ g.type = "pipeline" /\ g.saved = <<>> /\ g.first = Top.first
                     /\ \/ g.phase = "wait" /\ Top.k = Len(Top.cmds)
                        \/ g.phase = "pipe" /\ g.in = Top.fd[1]
  <1>1. InPipeline("next") /\ shell = "alive" /\ fds' = Close(fds, Top.fd[2])
    BY DEF NextCommand, InPipeline
  <1>2. fds \in Table(Len(pipes)) /\ FrameSound(fds, Top)
    BY <1>1, HeldAt
  <1>3. Top \in PipelineFrame /\ Top.type = "pipeline" /\ Top.phase = "next" /\ Top.saved = <<>>
        /\ Top.fd[1] \in Fd /\ Top.fd[2] \in Fd
    BY <1>1, PipelineAt, TopFields
  <1>4. HoldsPipe(Top)
    BY <1>3 DEF HoldsPipe
  <1>5. Top.fd[1] \in HeldBy(Top) /\ Top.fd[2] \in HeldBy(Top)
    BY <1>3, <1>4 DEF HeldBy
  <1>6. Top.fd[1] # Top.fd[2]
    BY <1>2, <1>3, <1>4 DEF FrameSound, Distinct
  <1>7. \A x \in Fd : fds'[x] = IF x = Top.fd[2] THEN Closed ELSE fds[x]
    BY <1>1, <1>2, CloseAt
  <1>. DEFINE a == [Top EXCEPT !.in = Top.fd[1], !.k = @ + 1, !.phase = "pipe"]
              b == [Top EXCEPT !.k = 1, !.phase = "wait"]
  <1>12. Top.k \in 1 .. Len(Top.cmds) /\ Len(Top.cmds) \in Nat
    BY <1>1, PipelineAt
  <1>8. SetTop(a) \/ (SetTop(b) /\ Top.k = Len(Top.cmds))
    BY <1>12 DEF NextCommand
  <1>9. a.type = "pipeline" /\ a.saved = <<>> /\ a.phase = "pipe" /\ a.in = Top.fd[1]
        /\ a.first = Top.first
    BY <1>3 DEF PipelineFrame
  <1>10. b.type = "pipeline" /\ b.saved = <<>> /\ b.phase = "wait" /\ b.first = Top.first
    BY <1>3 DEF PipelineFrame
  <1>. HIDE DEF a, b
  <1>11. \E g : /\ SetTop(g) /\ g.type = "pipeline" /\ g.saved = <<>> /\ g.first = Top.first
                /\ \/ g.phase = "wait" /\ Top.k = Len(Top.cmds)
                   \/ g.phase = "pipe" /\ g.in = Top.fd[1]
    BY <1>8, <1>9, <1>10
  <1>. QED  BY <1>2, <1>3, <1>5, <1>6, <1>7, <1>11 DEF FrameSound

LEMMA CloseTables ==
    ASSUME Tables, NEW y \in Fd, y > 2, \A x \in Fd : fds'[x] = IF x = y THEN Closed ELSE fds[x]
    PROVE  Tables'
  <1>1. Tidy(fds')
    BY DEF Tables, Tidy
  <1>2. StdOpen(fds')
    <2>1. \A x \in 0 .. 2 : x # y /\ x \in Fd
      BY StdFds
    <2>. QED  BY <2>1 DEF Tables, StdOpen
  <1>3. HighMarked(fds')
    BY DEF Tables, HighMarked
  <1>. QED  BY <1>1, <1>2, <1>3 DEF Tables

LEMMA NextCommandHeld == ASSUME Shape, Held, NextCommand PROVE Held'
  <1>1. InPipeline("next") /\ shell = "alive" /\ UNCHANGED shell
    BY DEF NextCommand, InPipeline
  <1>2. /\ Sound /\ Apart /\ FrameSound(fds, Top) /\ Tables
    BY <1>1, HeldAt DEF Tables
  <1>3. /\ Top.fd[1] \in Fd /\ Top.fd[2] \in Fd
        /\ Top.fd[1] \in HeldBy(Top) /\ Top.fd[2] \in HeldBy(Top) /\ Top.fd[1] # Top.fd[2]
        /\ HeldFd(fds, Top.fd[1]) /\ HeldFd(fds, Top.fd[2])
        /\ \A x \in Fd : fds'[x] = IF x = Top.fd[2] THEN Closed ELSE fds[x]
    BY NextCommandAt
  <1>4. PICK g : /\ SetTop(g) /\ g.type = "pipeline" /\ g.saved = <<>>
                 /\ \/ g.phase = "wait"
                    \/ g.phase = "pipe" /\ g.in = Top.fd[1]
    BY NextCommandAt
  <1>5. Tables'
    BY <1>2, <1>3, CloseTables DEF HeldFd
  <1>6. Distinct(g) /\ HeldBy(g) \subseteq {Top.fd[1]}
    <2>1. CASE g.phase = "wait"
      BY <1>4, <2>1, HoldsNothing
    <2>2. CASE g.phase = "pipe" /\ g.in = Top.fd[1]
      <3>1. Len(g.saved) = 0 /\ ~HoldsPipe(g)
        BY <1>4, <2>2 DEF HoldsPipe
      <3>. QED  BY <1>4, <2>2, <3>1 DEF HeldBy, Distinct
    <2>. QED  BY <1>4, <2>1, <2>2
  <1>7. FrameSound(fds', g)
    BY <1>3, <1>6 DEF FrameSound, HeldFd
  <1>8. OnlyTop
    BY <1>3 DEF OnlyTop
  <1>. QED  BY <1>1, <1>2, <1>3, <1>4, <1>5, <1>6, <1>7, <1>8, TopHeld DEF Held

----------------------------------------------------------------------------
(* Redirections *)

\* The stack is the same, and what its frames hold.
LEMMA SameStackHeld ==
    ASSUME Shape, Held, shell = "alive", UNCHANGED <<shell, stack>>, Tables',
           \A x \in Fd : x > 2 /\ x \notin Free(fds) => fds'[x] = fds[x]
    PROVE  Held'
  <1>1. /\ Sound /\ Apart
    BY DEF Held
  <1>2. ASSUME NEW i \in 1 .. Len(stack)
        PROVE  FrameSound(fds', stack[i])
    <2>1. Distinct(stack[i]) /\ \A x \in HeldBy(stack[i]) : HeldFd(fds, x)
      BY <1>1 DEF Sound, FrameSound
    <2>2. \A x \in HeldBy(stack[i]) : HeldFd(fds', x)
      BY <2>1 DEF HeldFd, Free
    <2>. QED  BY <2>1, <2>2 DEF FrameSound
  <1>3. Sound'
    BY <1>2 DEF Sound
  <1>4. Apart'
    BY <1>1 DEF Apart
  <1>. QED  BY <1>3, <1>4 DEF Held

LEMMA InputRedirectionAt ==
    ASSUME Shape, Held, InputRedirection
    PROVE  \E n \in Free(fds) :
             \A x \in Fd : fds'[x] = IF x = n \/ x = 0 THEN [file |-> File, cloexec |-> FALSE]
                                     ELSE fds[x]
  <1>. DEFINE n == Lowest(Free(fds))
              t == Put(fds, n, File, FALSE)
              c == FALSE
  <1>1. shell = "alive" /\ Free(fds) # {}
    BY DEF InputRedirection, InPipeline
  <1>2. fds \in Table(Len(pipes)) /\ StdOpen(fds)
    BY <1>1, HeldAt
  <1>3. n \in Free(fds)
    BY <1>1, <1>2, FreeFacts
  <1>4. fds' = Redirect(t, n, 0, c) /\ c \in BOOLEAN
    BY DEF InputRedirection
  <1>5. ~c
    OBVIOUS
  <1>. HIDE DEF n, c
  <1>6. n \in Fd /\ n > 2 /\ 0 \in Fd /\ n # 0
    BY <1>2, <1>3, FreeAbove, FdFacts
  <1>7. t \in Table(Len(pipes))
    BY <1>2, PutTable DEF Files
  <1>8. \A x \in Fd : t[x] = IF x = n THEN [file |-> File, cloexec |-> FALSE] ELSE fds[x]
    BY <1>2 DEF Put, Table
  <1>. HIDE DEF t
  <1>9. \A x \in Fd : Redirect(t, n, 0, c)[x] =
             IF n = 0 THEN t[x]
             ELSE IF c /\ x = n THEN Closed
             ELSE IF x = 0 THEN [file |-> t[n].file, cloexec |-> FALSE] ELSE t[x]
    BY <1>4, <1>6, <1>7, RedirectAt
  <1>10. t[n].file = File
    BY <1>6, <1>8
  <1>11. \A x \in Fd : fds'[x] = IF x = n \/ x = 0 THEN [file |-> File, cloexec |-> FALSE]
                                     ELSE fds[x]
    BY <1>4, <1>5, <1>6, <1>8, <1>9, <1>10
  <1>. QED  BY <1>3, <1>11

LEMMA OutputRedirectionAt ==
    ASSUME Shape, Held, OutputRedirection
    PROVE  \A x \in Fd : fds'[x] = IF x = 1 THEN [file |-> File, cloexec |-> FALSE] ELSE fds[x]
  <1>. DEFINE n == Lowest(Free(fds))
              t == Put(fds, n, File, FALSE)
              c == TRUE
  <1>1. shell = "alive" /\ Free(fds) # {}
    BY DEF OutputRedirection, InPipeline
  <1>2. fds \in Table(Len(pipes)) /\ StdOpen(fds)
    BY <1>1, HeldAt
  <1>3. n \in Free(fds)
    BY <1>1, <1>2, FreeFacts
  <1>4. fds' = Redirect(t, n, 1, c) /\ c \in BOOLEAN
    BY DEF OutputRedirection
  <1>5. c
    OBVIOUS
  <1>. HIDE DEF n, c
  <1>6. n \in Fd /\ n > 2 /\ 1 \in Fd /\ n # 1 /\ fds[n] = Closed
    BY <1>2, <1>3, FreeAbove, FdFacts
  <1>7. t \in Table(Len(pipes))
    BY <1>2, PutTable DEF Files
  <1>8. \A x \in Fd : t[x] = IF x = n THEN [file |-> File, cloexec |-> FALSE] ELSE fds[x]
    BY <1>2 DEF Put, Table
  <1>. HIDE DEF t
  <1>9. \A x \in Fd : Redirect(t, n, 1, c)[x] =
             IF n = 1 THEN t[x]
             ELSE IF c /\ x = n THEN Closed
             ELSE IF x = 1 THEN [file |-> t[n].file, cloexec |-> FALSE] ELSE t[x]
    BY <1>4, <1>6, <1>7, RedirectAt
  <1>10. t[n].file = File
    BY <1>6, <1>8
  <1>. QED  BY <1>4, <1>5, <1>6, <1>8, <1>9, <1>10

LEMMA OpenedFile ==
    [file |-> File, cloexec |-> FALSE] # Closed /\ File # NoFile
  <1>1. File # NoFile /\ Closed.file = NoFile
    BY DEF File, NoFile, Closed
  <1>. QED  BY <1>1

LEMMA RedirectionHeld ==
    ASSUME Shape, Held, InputRedirection \/ OutputRedirection PROVE Held'
  <1>1. shell = "alive" /\ UNCHANGED <<shell, stack>>
    BY DEF InputRedirection, OutputRedirection, InPipeline
  <1>2. /\ fds \in Table(Len(pipes)) /\ Tidy(fds) /\ StdOpen(fds) /\ HighMarked(fds)
    BY <1>1, HeldAt
  <1>. DEFINE c == [file |-> File, cloexec |-> FALSE]
  <1>3. c # Closed /\ c.file # NoFile /\ c.cloexec = FALSE
    BY OpenedFile
  <1>4. CASE InputRedirection
    <2>1. "input" \in Feature
      BY <1>4 DEF InputRedirection
    <2>2. PICK n \in Free(fds) : \A x \in Fd : fds'[x] = IF x = n \/ x = 0 THEN c ELSE fds[x]
      BY <1>4, InputRedirectionAt
    <2>. HIDE DEF c
    <2>3. Tidy(fds')
      BY <1>2, <1>3, <2>2 DEF Tidy
    <2>4. StdOpen(fds')
      BY <1>2, <1>3, <2>2, StdFds DEF StdOpen
    <2>5. Tables'
      BY <2>1, <2>3, <2>4 DEF Tables, HighMarked
    <2>6. \A x \in Fd : x > 2 /\ x \notin Free(fds) => fds'[x] = fds[x]
      BY <2>2
    <2>. QED  BY <1>1, <2>5, <2>6, SameStackHeld
  <1>5. CASE OutputRedirection
    <2>2. \A x \in Fd : fds'[x] = IF x = 1 THEN c ELSE fds[x]
      BY <1>5, OutputRedirectionAt
    <2>. HIDE DEF c
    <2>3. Tidy(fds')
      BY <1>2, <1>3, <2>2 DEF Tidy
    <2>4. StdOpen(fds')
      BY <1>2, <1>3, <2>2, StdFds DEF StdOpen
    <2>5. HighMarked(fds')
      BY <1>2, <2>2 DEF HighMarked
    <2>6. \A x \in Fd : x > 2 /\ x \notin Free(fds) => fds'[x] = fds[x]
      BY <2>2
    <2>. QED  BY <1>1, <2>3, <2>4, <2>5, <2>6, SameStackHeld DEF Tables
  <1>. QED  BY <1>4, <1>5

----------------------------------------------------------------------------
(* Commands, lists and waiting *)

\* The command runs, or has run: the descriptors wait to be put back.
Runs == \/ \E left \in 0 .. MaxBuiltin, status \in Code : Builtin(left, status)
        \/ BuiltinWrites \/ BuiltinReturns \/ Fork

RunsAs(g) ==
    /\ SetTop(g) /\ g.type = "pipeline" /\ g.in = Top.in /\ g.fd = Top.fd
    /\ g.saved = Top.saved /\ g.phase \in {"builtin", "restore"} /\ g.first = Top.first
    /\ g.k = Top.k

LEMMA CommandAs ==
    ASSUME Shape, Runs
    PROVE  /\ Top \in PipelineFrame /\ Top.type = "pipeline" /\ Top.phase \in {"args", "builtin"}
           /\ UNCHANGED <<shell, fds, failed>> /\ shell = "alive" /\ \E g : RunsAs(g)
  <1>1. /\ InPipeline("args") \/ InPipeline("builtin")
        /\ UNCHANGED <<shell, fds, failed>> /\ shell = "alive"
    BY DEF Runs, Builtin, BuiltinWrites, BuiltinReturns, Fork, InPipeline
  <1>2. Top \in PipelineFrame /\ Top.type = "pipeline" /\ Top.phase \in {"args", "builtin"}
    BY <1>1, PipelineAt
  <1>3. \E g : /\ SetTop(g) /\ g.type = "pipeline" /\ g.in = Top.in /\ g.fd = Top.fd
               /\ g.saved = Top.saved /\ g.phase \in {"builtin", "restore"} /\ g.first = Top.first
          /\ g.k = Top.k
    <2>1. ASSUME NEW left, NEW status, Builtin(left, status)
          PROVE  \E g : /\ SetTop(g) /\ g.type = "pipeline" /\ g.in = Top.in /\ g.fd = Top.fd
                        /\ g.saved = Top.saved /\ g.phase \in {"builtin", "restore"} /\ g.first = Top.first
          /\ g.k = Top.k
      <3>. DEFINE g == [Top EXCEPT !.phase = "builtin", !.left = left,
                                   !.cmds[Top.k].status = status]
      <3>1. SetTop(g)
        BY <2>1 DEF Builtin
      <3>2. /\ g.type = "pipeline" /\ g.in = Top.in /\ g.fd = Top.fd
            /\ g.saved = Top.saved /\ g.phase \in {"builtin", "restore"} /\ g.first = Top.first
          /\ g.k = Top.k
        BY <1>2 DEF PipelineFrame
      <3>. HIDE DEF g
      <3>. QED  BY <3>1, <3>2
    <2>2. CASE BuiltinWrites
      <3>. DEFINE g == [Top EXCEPT !.left = @ - 1]
      <3>1. SetTop(g) /\ InPipeline("builtin")
        BY <2>2 DEF BuiltinWrites
      <3>2. Top.phase = "builtin"
        BY <3>1 DEF InPipeline
      <3>3. /\ g.type = "pipeline" /\ g.in = Top.in /\ g.fd = Top.fd
            /\ g.saved = Top.saved /\ g.phase \in {"builtin", "restore"} /\ g.first = Top.first
          /\ g.k = Top.k
        BY <1>2, <3>2 DEF PipelineFrame
      <3>. HIDE DEF g
      <3>. QED  BY <3>1, <3>3
    <2>3. CASE BuiltinReturns
      <3>. DEFINE g == [Top EXCEPT !.phase = "restore"]
      <3>1. SetTop(g)
        BY <2>3 DEF BuiltinReturns
      <3>3. /\ g.type = "pipeline" /\ g.in = Top.in /\ g.fd = Top.fd
            /\ g.saved = Top.saved /\ g.phase \in {"builtin", "restore"} /\ g.first = Top.first
          /\ g.k = Top.k
        BY <1>2 DEF PipelineFrame
      <3>. HIDE DEF g
      <3>. QED  BY <3>1, <3>3
    <2>4. CASE Fork
      <3>. DEFINE g == [Top EXCEPT !.phase = "restore",
                          !.cmds[Top.k].pid = Len(procs) + 1,
                          !.cmds[Top.k].child = Len(procs) + 1]
      <3>1. SetTop(g)
        BY <2>4 DEF Fork
      <3>3. /\ g.type = "pipeline" /\ g.in = Top.in /\ g.fd = Top.fd
            /\ g.saved = Top.saved /\ g.phase \in {"builtin", "restore"} /\ g.first = Top.first
          /\ g.k = Top.k
        BY <1>2 DEF PipelineFrame
      <3>. HIDE DEF g
      <3>. QED  BY <3>1, <3>3
    <2>. QED  BY <2>1, <2>2, <2>3, <2>4 DEF Runs
  <1>. QED  BY <1>1, <1>2, <1>3 DEF RunsAs

LEMMA CommandHeld == ASSUME Shape, Held, Runs PROVE Held'
  <1>1. UNCHANGED <<shell, fds>> /\ shell = "alive"
    BY CommandAs
  <1>2. Top.type = "pipeline" /\ Top.phase \in {"args", "builtin"}
    BY CommandAs
  <1>4. PICK g : /\ SetTop(g) /\ g.type = "pipeline" /\ g.in = Top.in /\ g.fd = Top.fd
                 /\ g.saved = Top.saved /\ g.phase \in {"builtin", "restore"}
    BY CommandAs DEF RunsAs
  <1>5. /\ HoldsIn(Top) <=> HoldsIn(g)
        /\ HoldsPipe(Top) <=> HoldsPipe(g)
    BY <1>2, <1>4 DEF HoldsIn, HoldsPipe
  <1>6. Distinct(Top)
    BY <1>1, HeldAt DEF FrameSound
  <1>7. HeldBy(g) = HeldBy(Top) /\ Distinct(g)
    BY <1>2, <1>4, <1>5, <1>6, SameHolder
  <1>. QED  BY <1>1, <1>4, <1>7, SameFdsTop

\* A new pipeline holds nothing.
LEMMA StartPipelineHeld ==
    ASSUME Shape, Held, NEW n \in 1 .. MaxCmds, NEW kinds \in [1 .. n -> Kind],
           NEW negate \in Negations, StartPipeline(kinds, negate)
    PROVE  Held'
  <1>. DEFINE g == [Top EXCEPT !.ran = TRUE]
              f == PipelineOf(kinds, negate)
  <1>1. InList /\ shell = "alive" /\ UNCHANGED <<shell, fds>>
    BY DEF StartPipeline, InList
  <1>2. /\ g \in ListFrame /\ g.type = Top.type /\ g.phase = "run"
        /\ g.reader = Top.reader /\ g.saved = Top.saved
        /\ negate \in BOOLEAN /\ Pushed(g, f)
    BY StartPipelineAs
  <1>3. Top.type # "pipeline" /\ Top.phase = "run"
    BY <1>1, ListAt
  <1>4. Sound /\ Apart /\ Tables /\ FrameSound(fds, Top)
    BY <1>1, HeldAt DEF Tables
  <1>5. f.type = "pipeline" /\ f.phase = "pipe" /\ f.in = 0 /\ f.saved = <<>>
    BY <1>2, NewPipeline
  <1>. HIDE DEF f, g
  <1>6. ~HoldsIn(f) /\ ~HoldsPipe(f) /\ Len(f.saved) = 0
    BY <1>5 DEF HoldsIn, HoldsPipe
  <1>7. HeldBy(f) = {} /\ Distinct(f)
    BY <1>5, <1>6 DEF HeldBy, Distinct
  <1>8. HeldBy(g) = HeldBy(Top) /\ Distinct(g)
    BY <1>2, <1>3, <1>4 DEF HeldBy, Distinct, FrameSound
  <1>9. FrameSound(fds', f)
    BY <1>7 DEF FrameSound
  <1>10. Sound' /\ Apart'
    BY <1>1, <1>2, <1>4, <1>7, <1>8, <1>9, PushHeld
  <1>. QED  BY <1>1, <1>4, <1>10 DEF Held, Tables

LEMMA EnterGroupHeld == ASSUME Shape, Held, EnterGroup PROVE Held'
  <1>0. PICK f : /\ Push(f) /\ f.type \in {"group", "subshell", "loop"} /\ f.type # "pipeline"
                 /\ f.type # "subst" /\ f.std = Std(fds) /\ InPipeline("args") /\ shell = "alive"
                 /\ UNCHANGED <<shell, fds, procs, pipes, started, failed>>
    BY EnterGroupAs
  <1>1. InPipeline("args") /\ shell = "alive" /\ UNCHANGED <<shell, fds>> /\ Push(f)
    BY <1>0
  <1>3. HeldBy(f) = {} /\ Distinct(f)
    BY <1>0 DEF HeldBy, Distinct
  <1>4. Sound /\ Apart /\ Tables /\ FrameSound(fds, Top)
    BY <1>1, HeldAt DEF Tables
  <1>5. Pushed(Top, f)
    BY <1>1, TopFacts, PushPushes
  <1>6. FrameSound(fds', f) /\ Distinct(Top)
    BY <1>3, <1>4 DEF FrameSound
  <1>7. Sound' /\ Apart'
    BY <1>1, <1>3, <1>4, <1>5, <1>6, PushHeld
  <1>. QED  BY <1>1, <1>4, <1>7 DEF Held, Tables

LEMMA FrameAt ==
    ASSUME Held, shell = "alive", NEW n \in 1 .. Len(stack)
    PROVE  FrameSound(fds, stack[n])
  BY DEF Held, Sound

LEMMA EndGroupHeld == ASSUME Shape, Held, EndGroup PROVE Held'
  <1>. DEFINE n == Len(stack) - 1
              f == stack[n]
              g == [f EXCEPT !.phase = "restore", !.cmds[f.k].status = EndStatus]
  <1>1. shell = "alive" /\ UNCHANGED <<shell, fds>> /\ stack' = Append(SubSeq(stack, 1, n - 1), g)
        /\ Top.type \in {"group", "subshell", "loop"}
    BY EndGroupAs
  <1>2. n \in 1 .. Len(stack) /\ f \in PipelineFrame /\ f.type = "pipeline" /\ f.phase = "args"
    BY <1>1, BelowList
  <1>3. g.type = "pipeline" /\ g.in = f.in /\ g.fd = f.fd /\ g.saved = f.saved /\ g.phase = "restore"
    BY <1>2 DEF PipelineFrame
  <1>4. FrameSound(fds, f)
    BY <1>1, <1>2, FrameAt
  <1>5. f = stack[n] /\ Len(stack) - 1 = n
    OBVIOUS
  <1>. HIDE DEF g, f, n
  <1>6. Cut(n, g)
    BY <1>1, <1>2, TopFacts, AppendCuts
  <1>7. HeldBy(g) = HeldBy(f) /\ Distinct(g)
    <2>1. (HoldsIn(f) <=> HoldsIn(g)) /\ (HoldsPipe(f) <=> HoldsPipe(g))
      BY <1>2, <1>3 DEF HoldsIn, HoldsPipe
    <2>. QED  BY <1>2, <1>3, <1>4, <2>1, SameHolder DEF FrameSound
  <1>. QED  BY <1>1, <1>5, <1>6, <1>7, SameFds

\* A list holds the same whatever its status.
LEMMA SameList ==
    ASSUME NEW f, NEW g, f.type # "pipeline", g.type = f.type, g.phase = f.phase,
           g.reader = f.reader, g.saved = f.saved, Distinct(f)
    PROVE  HeldBy(g) = HeldBy(f) /\ Distinct(g)
  BY DEF HeldBy, Distinct

LEMMA WaitsHeld == ASSUME Shape, Held, Waits PROVE Held'
  <1>1. InPipeline("wait") /\ shell = "alive" /\ UNCHANGED <<shell, fds>>
        /\ \E status \in Status : Waited(status)
    <2>1. InPipeline("wait") /\ \E status \in Status : Waited(status)
      BY WaitsAs
    <2>2. UNCHANGED <<shell, fds>>
      BY DEF Waits, WaitChild, WaitAny, NoWait
    <2>. QED  BY <2>1, <2>2 DEF InPipeline
  <1>2. PICK status \in Status : Waited(status)
    BY <1>1
  <1>3. Top.saved = <<>> /\ Top.type = "pipeline" /\ Top \in PipelineFrame
    BY <1>1, TopFields, PipelineAt
  <1>4. CASE \E g : SetTop(g) /\ WaitsOn(g, status)
    <2>1. PICK g : SetTop(g) /\ WaitsOn(g, status)
      BY <1>4
    <2>2. g.type = "pipeline" /\ g.phase = "wait"
      BY <1>1, <2>1, WaitsOnAs
    <2>3. g.saved = <<>>
      BY <1>3, <2>1 DEF WaitsOn
    <2>. QED  BY <1>1, <2>1, <2>2, <2>3, HoldsNothing, SameFdsTop
  <1>5. CASE LET n == Len(stack) - 1 IN
               /\ Top.k = Len(Top.cmds) /\ n \in 1 .. Len(stack) /\ n # 0
               /\ stack[n] \in ListFrame
               /\ stack' = [SubSeq(stack, 1, n) EXCEPT
                              ![n] = [stack[n] EXCEPT !.status = Negated(Top.negate, status)]]
    <2>. DEFINE n == Len(stack) - 1
                f == stack[n]
                g == [f EXCEPT !.status = Negated(Top.negate, status)]
    <2>1. n \in 1 .. Len(stack) /\ f \in ListFrame /\ stack' = [SubSeq(stack, 1, n) EXCEPT ![n] = g]
      BY <1>5
    <2>2. f.type # "pipeline" /\ g.type = f.type /\ g.phase = f.phase /\ g.reader = f.reader
          /\ g.saved = f.saved
      BY <2>1 DEF ListFrame
    <2>3. f = stack[n]
      OBVIOUS
    <2>. HIDE DEF g, f, n
    <2>4. Cut(n, g)
      BY <2>1, TopFacts, SubSeqSetCuts
    <2>5. Distinct(f)
      BY <1>1, <2>1, <2>3, FrameAt DEF FrameSound
    <2>6. HeldBy(g) = HeldBy(f) /\ Distinct(g)
      BY <2>2, <2>5, SameList
    <2>. QED  BY <1>1, <2>3, <2>4, <2>6, SameFds
  <1>. QED  BY <1>1, <1>2, <1>4, <1>5, WaitedStep

\* What the frames above the list hold is forgotten.
LEMMA JumpsHeld == ASSUME Shape, Held, Jumps, shell = "alive" PROVE Held'
  <1>1. PICK i \in 1 .. Len(stack), g \in ListFrame :
             /\ Cut(i, g) /\ g.type # "pipeline" /\ g.type = stack[i].type
             /\ g.phase = stack[i].phase /\ g.reader = stack[i].reader /\ g.saved = stack[i].saved
    BY JumpsAs
  <1>2. Distinct(stack[i])
    BY FrameAt DEF FrameSound
  <1>3. HeldBy(g) = HeldBy(stack[i]) /\ Distinct(g)
    BY <1>1, <1>2, SameList
  <1>. QED  BY <1>1, <1>3, SameFds DEF Jumps

LEMMA ExitHeld == ASSUME Shape, Held, NEW status \in Code, Exit(status) PROVE Held'
  <1>1. shell = "alive"
    BY DEF Exit, InPipeline
  <1>2. shell' = "exited" => Held'
    BY DEF Held
  <1>. QED  BY <1>1, <1>2, ExitAs, JumpsHeld

LEMMA BreakHeld == ASSUME Shape, Held, Break PROVE Held'
  <1>1. shell = "alive"
    BY DEF Break, InPipeline
  <1>. QED  BY <1>1, BreakAs, JumpsHeld

----------------------------------------------------------------------------
(* Substitutions *)

\* r is open on the new pipe, w was, and n keeps what standard output was, if
\* a descriptor is left.
Substitutes(r, w, n) ==
    /\ r # w /\ n \notin {r, w}
    /\ Push([List("subst", Std(fds')) EXCEPT !.reader = r, !.saved = n])
    /\ failed' = (failed \/ n = -1)
    /\ \A x \in Fd :
         fds'[x] = IF x = r THEN [file |-> Reader(Len(pipes) + 1), cloexec |-> TRUE]
                   ELSE IF x = w THEN Closed
                   ELSE IF x = 1 THEN [file |-> Writer(Len(pipes) + 1), cloexec |-> FALSE]
                   ELSE IF x = n THEN [file |-> fds[1].file, cloexec |-> TRUE]
                   ELSE fds[x]

LEMMA BeginSubstitutionAt ==
    ASSUME Shape, Held, BeginSubstitution
    PROVE  \E r \in Free(fds), w \in Free(fds), n \in Free(fds) \cup {-1} : Substitutes(r, w, n)
  <1>. DEFINE r == Lowest(Free(fds))
              w == Lowest(Free(fds) \ {r})
              p == Len(pipes) + 1
              t == Opened(fds, r, w, p)
              n == CopyAt(t)
              u == Copied(t, n)
              c == TRUE
  <1>1. /\ fds' = Redirect(u, w, 1, c) /\ c
        /\ Push([List("subst", Std(fds')) EXCEPT !.reader = r, !.saved = n])
        /\ failed' = (failed \/ n = -1) /\ pipes' = Append(pipes, 0)
        /\ InPipeline("args") /\ Cardinality(Free(fds)) >= 2
    BY BeginSubstitutionAs
  <1>. HIDE DEF c
  <1>2. shell = "alive" /\ fds \in Table(Len(pipes)) /\ StdOpen(fds)
    BY <1>1, HeldAt DEF InPipeline
  <1>3. r \in Free(fds) /\ w \in Free(fds) /\ r # w
    BY <1>1, <1>2, FreeFacts
  <1>. HIDE DEF r, w
  <1>4. r \in Fd /\ w \in Fd /\ r > 2 /\ w > 2 /\ fds[r] = Closed /\ fds[w] = Closed
    BY <1>2, <1>3, FreeAbove
  <1>5. /\ Table(Len(pipes)) \subseteq Table(Len(pipes'))
        /\ Reader(p) \in Files(Len(pipes')) /\ Writer(p) \in Files(Len(pipes'))
    BY <1>1, PipesGrow
  <1>. DEFINE s == Put(fds, r, Reader(p), TRUE)
              q == Len(pipes')
  <1>6. Reader(p)[1] = "read" /\ Writer(p)[1] = "write"
    BY DEF Reader, Writer
  <1>. HIDE DEF p
  <1>7. fds \in Table(q)
    BY <1>2, <1>5
  <1>. HIDE DEF q
  <1>8. s \in Table(q) /\ \A x \in Fd : s[x] = IF x = r THEN [file |-> Reader(p), cloexec |-> TRUE] ELSE fds[x]
    <2>1. s \in Table(q)
      BY <1>5, <1>7, PutTable DEF q
    <2>2. \A x \in Fd : s[x] = IF x = r THEN [file |-> Reader(p), cloexec |-> TRUE] ELSE fds[x]
      BY <1>7 DEF Put, Table
    <2>. QED  BY <2>1, <2>2
  <1>9. t = Put(s, w, Writer(p), FALSE)
    BY DEF Opened
  <1>. HIDE DEF s, t
  <1>10. t \in Table(q) /\ \A x \in Fd : t[x] = IF x = w THEN [file |-> Writer(p), cloexec |-> FALSE] ELSE s[x]
    <2>1. t \in Table(q)
      BY <1>5, <1>8, <1>9, PutTable DEF q
    <2>2. \A x \in Fd : t[x] = IF x = w THEN [file |-> Writer(p), cloexec |-> FALSE] ELSE s[x]
      BY <1>8, <1>9 DEF Put, Table
    <2>. QED  BY <2>1, <2>2
  <1>11. t[r] # Closed /\ t[w] # Closed
    <2>1. Closed.file[1] = "none"
      BY DEF Closed
    <2>. QED  BY <1>3, <1>4, <1>6, <1>8, <1>10, <2>1
  <1>12. n = -1 \/ n \in Free(t)
    BY <1>10, FreeFacts DEF CopyAt
  <1>13. u = IF n = -1 THEN t ELSE Put(t, n, t[1].file, TRUE)
    BY DEF Copied
  <1>. HIDE DEF n, u
  <1>14. n # -1 => n \in Fd /\ t[n] = Closed /\ n \notin {r, w} /\ n \in Free(fds) /\ n > 2
    <2>1. n # -1 => n \in Fd /\ t[n] = Closed
      BY <1>10, <1>12, FreeFacts DEF Free
    <2>2. n # -1 => n \notin {r, w}
      BY <1>11, <2>1
    <2>3. n # -1 => fds[n] = Closed
      BY <1>8, <1>10, <2>1, <2>2
    <2>4. n # -1 => n \in Free(fds)
      BY <1>2, <2>1, <2>3, ClosedIsFree
    <2>. QED  BY <1>2, <2>1, <2>2, <2>4, FreeAbove
  <1>15. 1 \in Fd /\ 1 # r /\ 1 # w /\ t[1] = fds[1] /\ t[1].file \in Files(q) \cup {NoFile}
    <2>1. 1 \in Fd /\ 1 # r /\ 1 # w
      BY <1>4, FdFacts
    <2>. QED  BY <1>8, <1>10, <2>1, FileOf
  <1>16. u \in Table(q) /\ \A x \in Fd : u[x] = IF x = n THEN [file |-> fds[1].file, cloexec |-> TRUE] ELSE t[x]
    <2>1. CASE n = -1
      BY <1>10, <1>13, <2>1 DEF Fd
    <2>2. CASE n # -1
      <3>1. u \in Table(q)
        BY <1>10, <1>13, <1>15, <2>2, PutTable
      <3>2. \A x \in Fd : u[x] = IF x = n THEN [file |-> t[1].file, cloexec |-> TRUE] ELSE t[x]
        BY <1>10, <1>13, <2>2 DEF Put, Table
      <3>. QED  BY <1>15, <3>1, <3>2
    <2>. QED  BY <2>1, <2>2
  <1>17. c \in BOOLEAN
    BY DEF c
  <1>18. \A x \in Fd : Redirect(u, w, 1, c)[x] =
             IF w = 1 THEN u[x]
             ELSE IF c /\ x = w THEN Closed
             ELSE IF x = 1 THEN [file |-> u[w].file, cloexec |-> FALSE] ELSE u[x]
    BY <1>4, <1>15, <1>16, <1>17, RedirectAt
  <1>19. w # n /\ r # n
    BY <1>4, <1>14
  <1>20. u[w].file = Writer(p)
    <2>1. u[w] = t[w]
      BY <1>4, <1>16, <1>19
    <2>. QED  BY <1>4, <1>10, <2>1
  <1>21. ASSUME NEW x \in Fd
         PROVE  fds'[x] = IF x = r THEN [file |-> Reader(p), cloexec |-> TRUE]
                            ELSE IF x = w THEN Closed
                            ELSE IF x = 1 THEN [file |-> Writer(p), cloexec |-> FALSE]
                            ELSE IF x = n THEN [file |-> fds[1].file, cloexec |-> TRUE]
                            ELSE fds[x]
    <2>1. fds'[x] = IF x = w THEN Closed
                    ELSE IF x = 1 THEN [file |-> Writer(p), cloexec |-> FALSE] ELSE u[x]
      BY <1>1, <1>15, <1>18, <1>20
    <2>2. x # w => u[x] = IF x = n THEN [file |-> fds[1].file, cloexec |-> TRUE] ELSE s[x]
      BY <1>10, <1>16
    <2>. QED  BY <1>3, <1>8, <1>15, <1>19, <2>1, <2>2
  <1>22. p = Len(pipes) + 1
    BY DEF p
  <1>23. n \in Free(fds) \cup {-1} /\ n \notin {r, w}
    BY <1>14, <1>19
  <1>24. Substitutes(r, w, n)
    BY <1>1, <1>3, <1>21, <1>22, <1>23 DEF Substitutes
  <1>. QED  BY <1>3, <1>23, <1>24

LEMMA SubstFrame ==
    ASSUME NEW std, NEW r, NEW n
    PROVE  LET f == [List("subst", std) EXCEPT !.reader = r, !.saved = n] IN
           /\ f.type = "subst" /\ f.phase = "run" /\ f.reader = r /\ f.saved = n
           /\ f.std = std /\ f.ran = FALSE
  BY DEF List

LEMMA BeginSubstitutionHeld == ASSUME Shape, Held, BeginSubstitution PROVE Held'
  <1>1. shell = "alive" /\ UNCHANGED shell
    BY DEF BeginSubstitution, InPipeline
  <1>2. /\ fds \in Table(Len(pipes)) /\ Tidy(fds) /\ StdOpen(fds) /\ HighMarked(fds)
        /\ Sound /\ Apart /\ FrameSound(fds, Top)
    BY <1>1, HeldAt
  <1>. DEFINE R == [file |-> Reader(Len(pipes) + 1), cloexec |-> TRUE]
              W == [file |-> Writer(Len(pipes) + 1), cloexec |-> FALSE]
              C == [file |-> fds[1].file, cloexec |-> TRUE]
  <1>0. PICK r \in Free(fds), w \in Free(fds), n \in Free(fds) \cup {-1} : Substitutes(r, w, n)
    BY BeginSubstitutionAt
  <1>3. /\ r # w /\ n \notin {r, w}
        /\ \A x \in Fd :
             fds'[x] = IF x = r THEN R ELSE IF x = w THEN Closed
                       ELSE IF x = 1 THEN W ELSE IF x = n THEN C ELSE fds[x]
    <2>1. r # w /\ n \notin {r, w}
      BY <1>0 DEF Substitutes
    <2>2. \A x \in Fd :
             fds'[x] = IF x = r THEN R ELSE IF x = w THEN Closed
                       ELSE IF x = 1 THEN W ELSE IF x = n THEN C ELSE fds[x]
      BY <1>0, Zenon DEF Substitutes
    <2>. QED  BY <2>1, <2>2
  <1>. DEFINE f == [List("subst", Std(fds')) EXCEPT !.reader = r, !.saved = n]
  <1>4. f.type = "subst" /\ f.phase = "run" /\ f.reader = r /\ f.saved = n
    BY DEF List
  <1>5. Push(f)
    BY <1>0 DEF Substitutes
  <1>. HIDE DEF f
  <1>6. r \in Fd /\ w \in Fd /\ r > 2 /\ w > 2
    BY <1>2, FreeAbove
  <1>7. n # -1 => n \in Free(fds) /\ n \in Fd /\ n > 2
    BY <1>2, FreeAbove
  <1>8. /\ R.file # NoFile /\ R.cloexec /\ R # Closed
        /\ W.file # NoFile /\ ~W.cloexec /\ W # Closed
    <2>1. Reader(Len(pipes) + 1) # NoFile /\ Writer(Len(pipes) + 1) # NoFile /\ Closed.file = NoFile
      BY DEF Reader, Writer, NoFile, Closed
    <2>. QED  BY <2>1
  <1>9. C.file # NoFile /\ C.cloexec /\ C # Closed
    <2>1. 1 \in Fd /\ 1 \in 0 .. 2
      BY StdFds
    <2>2. fds[1].file # NoFile
      BY <1>2, <2>1, OpenFile DEF StdOpen
    <2>3. Closed.file = NoFile
      BY DEF NoFile, Closed
    <2>. QED  BY <2>2, <2>3
  <1>. HIDE DEF R, W, C
  <1>10. Tables'
    <2>1. Tidy(fds')
      BY <1>2, <1>3, <1>8, <1>9 DEF Tidy
    <2>2. StdOpen(fds')
      <3>1. \A x \in 0 .. 2 : x \in Fd /\ x # r /\ x # w /\ x # n
        BY <1>6, <1>7, StdFds
      <3>. QED  BY <1>2, <1>3, <1>8, <3>1 DEF StdOpen
    <2>3. HighMarked(fds')
      BY <1>2, <1>3, <1>8, <1>9 DEF HighMarked
    <2>. QED  BY <2>1, <2>2, <2>3 DEF Tables
  <1>11. HeldBy(f) = {x \in {r, n} : x # -1}
    <2>1. r # -1
      BY <1>6
    <2>. QED  BY <1>4, <2>1 DEF HeldBy
  <1>12. HeldBy(f) \subseteq Free(fds)
    BY <1>7, <1>11
  <1>13. FrameSound(fds', f)
    <2>1. Distinct(f)
      BY <1>3, <1>4 DEF Distinct
    <2>2. HeldFd(fds', r)
      BY <1>3, <1>6, <1>8 DEF HeldFd
    <2>3. n # -1 => HeldFd(fds', n)
      <3>1. n # -1 => fds'[n] = C
        BY <1>3, <1>7
      <3>. QED  BY <1>7, <1>9, <3>1 DEF HeldFd
    <2>. QED  BY <1>11, <2>1, <2>2, <2>3 DEF FrameSound
  <1>14. Pushed(Top, f)
    BY <1>5, TopFacts, PushPushes
  <1>15. \A x \in Fd : x > 2 /\ x \notin Free(fds) => fds'[x] = fds[x]
    BY <1>3, <1>7
  <1>16. Distinct(Top)
    BY <1>2 DEF FrameSound
  <1>17. Sound' /\ Apart'
    BY <1>2, <1>12, <1>13, <1>14, <1>15, <1>16, PushHeld
  <1>. QED  BY <1>1, <1>10, <1>17 DEF Held

\* Standard output is put back.
LEMMA EndSubstitutionAt ==
    ASSUME Shape, Held, EndSubstitution
    PROVE  /\ Top.type = "subst" /\ Top.phase = "run" /\ Top.reader \in HeldBy(Top)
           /\ Top.saved # -1 => Top.saved \in HeldBy(Top) /\ Top.saved # Top.reader
           /\ Top.saved = -1 => UNCHANGED fds
           /\ Top.saved # -1 => \A x \in Fd :
                fds'[x] = IF x = Top.saved THEN Closed
                          ELSE IF x = 1 THEN [file |-> fds[Top.saved].file, cloexec |-> FALSE]
                          ELSE fds[x]
  <1>. DEFINE s == Top.saved
  <1>1. InList /\ shell = "alive" /\ Top.type = "subst" /\ Top.phase = "run"
    BY DEF EndSubstitution, InList
  <1>2. fds \in Table(Len(pipes)) /\ FrameSound(fds, Top)
    BY <1>1, HeldAt
  <1>3. Top.reader \in HeldBy(Top)
    BY <1>1 DEF HeldBy
  <1>4. s # -1 => s \in HeldBy(Top) /\ s # Top.reader
    BY <1>1, <1>2 DEF HeldBy, FrameSound, Distinct
  <1>5. s # -1 => HeldFd(fds, s)
    BY <1>2, <1>4 DEF FrameSound
  <1>. DEFINE c == TRUE
  <1>6. fds' = IF s = -1 THEN fds ELSE Redirect(fds, s, 1, c)
    BY DEF EndSubstitution
  <1>7. c
    OBVIOUS
  <1>8. c \in BOOLEAN
    OBVIOUS
  <1>9. Top.saved = s
    OBVIOUS
  <1>. HIDE DEF c, s
  <1>10. ASSUME s # -1, NEW x \in Fd
         PROVE  fds'[x] = IF x = s THEN Closed
                          ELSE IF x = 1 THEN [file |-> fds[s].file, cloexec |-> FALSE]
                          ELSE fds[x]
    <2>1. s \in Fd /\ s # 1 /\ 1 \in Fd
      BY <1>5, <1>10, FdFacts DEF HeldFd
    <2>2. Redirect(fds, s, 1, c)[x] =
             IF s = 1 THEN fds[x]
             ELSE IF c /\ x = s THEN Closed
             ELSE IF x = 1 THEN [file |-> fds[s].file, cloexec |-> FALSE] ELSE fds[x]
      BY <1>2, <1>8, <2>1, RedirectAt
    <2>. QED  BY <1>6, <1>7, <1>10, <2>1, <2>2
  <1>. QED  BY <1>1, <1>3, <1>4, <1>6, <1>9, <1>10

LEMMA EndSubstitutionHeld == ASSUME Shape, Held, EndSubstitution PROVE Held'
  <1>. DEFINE g == [Top EXCEPT !.phase = "read"]
              s == Top.saved
  <1>1. InList /\ shell = "alive" /\ UNCHANGED shell /\ SetTop(g)
    BY DEF EndSubstitution, InList
  <1>2. /\ fds \in Table(Len(pipes)) /\ Tidy(fds) /\ StdOpen(fds) /\ HighMarked(fds)
        /\ Sound /\ Apart /\ FrameSound(fds, Top)
    BY <1>1, HeldAt
  <1>. DEFINE B == [file |-> fds[s].file, cloexec |-> FALSE]
  <1>3. /\ Top.type = "subst" /\ Top.phase = "run" /\ Top.reader \in HeldBy(Top)
        /\ s # -1 => s \in HeldBy(Top) /\ s # Top.reader
        /\ s = -1 => UNCHANGED fds
        /\ s # -1 => \A x \in Fd :
             fds'[x] = IF x = s THEN Closed ELSE IF x = 1 THEN B ELSE fds[x]
    BY EndSubstitutionAt
  <1>4. g.type = "subst" /\ g.phase = "read" /\ g.reader = Top.reader
    BY <1>1, <1>3, ListAt DEF ListFrame
  <1>. HIDE DEF g, s
  <1>5. HeldBy(g) = {Top.reader} /\ Distinct(g)
    BY <1>4 DEF HeldBy, Distinct
  <1>6. HeldFd(fds, Top.reader) /\ (s # -1 => HeldFd(fds, s))
    BY <1>2, <1>3 DEF FrameSound
  <1>7. s # -1 => s \in Fd /\ s > 2 /\ fds[s] # Closed
    BY <1>6 DEF HeldFd
  <1>8. s # -1 => B.file # NoFile /\ ~B.cloexec /\ B # Closed
    <2>1. s # -1 => fds[s].file # NoFile
      BY <1>2, <1>7, OpenFile
    <2>2. Closed.file = NoFile
      BY DEF Closed, NoFile
    <2>. QED  BY <2>1, <2>2
  <1>. HIDE DEF B
  <1>9. Tables'
    <2>1. CASE s = -1
      BY <1>2, <1>3, <2>1 DEF Tables
    <2>2. CASE s # -1
      <3>1. Tidy(fds')
        BY <1>2, <1>3, <1>8, <2>2 DEF Tidy
      <3>2. StdOpen(fds')
        <4>1. \A x \in 0 .. 2 : x \in Fd /\ x # s
          BY <1>7, <2>2, StdFds
        <4>. QED  BY <1>2, <1>3, <1>8, <2>2, <4>1 DEF StdOpen
      <3>3. HighMarked(fds')
        BY <1>2, <1>3, <2>2 DEF HighMarked
      <3>. QED  BY <3>1, <3>2, <3>3 DEF Tables
    <2>. QED  BY <2>1, <2>2
  <1>10. FrameSound(fds', g)
    BY <1>3, <1>5, <1>6 DEF FrameSound, HeldFd
  <1>11. OnlyTop
    BY <1>3 DEF OnlyTop
  <1>. QED  BY <1>1, <1>2, <1>3, <1>5, <1>9, <1>10, <1>11, TopHeld DEF Held

LEMMA ReadEndAt ==
    ASSUME Shape, Held, ReadEnd
    PROVE  LET n == Len(stack) - 1 IN
           /\ n \in 1 .. Len(stack) /\ n # 0 /\ n # Len(stack) /\ Cut(n, stack[n])
           /\ Top.type = "subst" /\ Top.reader \in HeldBy(Top) /\ HeldFd(fds, Top.reader)
           /\ \A x \in Fd : fds'[x] = IF x = Top.reader THEN Closed ELSE fds[x]
  <1>1. shell = "alive" /\ Top.type = "subst" /\ fds' = Close(fds, Top.reader)
        /\ stack' = SubSeq(stack, 1, Len(stack) - 1)
    BY DEF ReadEnd, Reading
  <1>2. fds \in Table(Len(pipes)) /\ FrameSound(fds, Top)
    BY <1>1, HeldAt
  <1>3. Len(stack) - 1 \in 1 .. Len(stack) /\ Len(stack) - 1 # 0 /\ Len(stack) - 1 # Len(stack)
    BY <1>1, TopFacts
  <1>4. Cut(Len(stack) - 1, stack[Len(stack) - 1])
    BY <1>1, <1>3, TopFacts, SubSeqCuts
  <1>5. Top.reader \in HeldBy(Top)
    BY <1>1 DEF HeldBy
  <1>. QED  BY <1>1, <1>2, <1>3, <1>4, <1>5, CloseAt DEF FrameSound

LEMMA ReadEndHeld == ASSUME Shape, Held, ReadEnd PROVE Held'
  <1>. DEFINE n == Len(stack) - 1
              r == Top.reader
  <1>1. shell = "alive" /\ UNCHANGED shell
    BY DEF ReadEnd, Reading
  <1>2. Sound /\ Apart /\ Tables
    BY <1>1 DEF Held
  <1>3. /\ n \in 1 .. Len(stack) /\ n # Len(stack) /\ Cut(n, stack[n])
        /\ r \in HeldBy(Top) /\ HeldFd(fds, r)
        /\ \A x \in Fd : fds'[x] = IF x = r THEN Closed ELSE fds[x]
    BY ReadEndAt
  <1>4. r \in Fd /\ r > 2 /\ r \in HeldBy(Top)
    BY <1>3 DEF HeldFd
  <1>. HIDE DEF n, r
  <1>5. Tables'
    BY <1>2, <1>3, <1>4, CloseTables
  <1>6. OnlyTop
    BY <1>3, <1>4 DEF OnlyTop
  <1>7. FrameSound(fds', stack[n])
    BY <1>2, <1>3, <1>6, SoundKept
  <1>8. Sound' /\ Apart'
    BY <1>2, <1>3, <1>6, <1>7, CutHeld
  <1>. QED  BY <1>1, <1>5, <1>8 DEF Held

----------------------------------------------------------------------------
LEMMA InitHeld == ASSUME Init PROVE Held
  <1>. DEFINE f == List("top", [x \in 0 .. 2 |-> Tty])
  <1>1. stack = <<f>> /\ fds = [NoTable EXCEPT ![0] = Terminal, ![1] = Terminal, ![2] = Terminal]
    BY DEF Init
  <1>2. \A x \in Fd : fds[x] = IF x \in {0, 1, 2} THEN Terminal ELSE Closed
    <2>1. NoTable = [x \in Fd |-> Closed]
      BY DEF NoTable, Fd
    <2>. QED  BY <1>1, <2>1, FdFacts
  <1>3. Terminal # Closed /\ ~Terminal.cloexec /\ Terminal.file # NoFile
    BY DEF Terminal, Closed, Tty, NoFile
  <1>4. Tables
    <2>1. Tidy(fds)
      BY <1>2, <1>3 DEF Tidy
    <2>2. StdOpen(fds)
      BY <1>2, <1>3, StdFds DEF StdOpen
    <2>3. \A x \in Fd : x > 2 => x \notin {0, 1, 2}
      OBVIOUS
    <2>4. HighMarked(fds)
      BY <1>2, <2>3 DEF HighMarked
    <2>. QED  BY <2>1, <2>2, <2>4 DEF Tables
  <1>5. f.type = "top"
    BY DEF List
  <1>. HIDE DEF f
  <1>6. Len(stack) = 1 /\ \A i \in 1 .. 1 : stack[i] = f /\ i = 1
    BY <1>1
  <1>7. HeldBy(f) = {} /\ Distinct(f)
    BY <1>5 DEF HeldBy, Distinct
  <1>8. Sound /\ Apart
    BY <1>6, <1>7 DEF Sound, Apart, FrameSound
  <1>. QED  BY <1>4, <1>8 DEF Held

LEMMA HeldStep == ASSUME Shape, Held, [Next]_vars PROVE Held'
  <1>1. ASSUME NEW n \in 1 .. MaxCmds, NEW kinds \in [1 .. n -> Kind], NEW negate \in Negations,
               StartPipeline(kinds, negate)
        PROVE  Held'
    BY <1>1, StartPipelineHeld
  <1>2. CASE \/ MakePipe \/ PipeFails \/ SaveDescriptor \/ SaveFails
             \/ RestoreDescriptors \/ NextCommand
    BY <1>2, MakePipeHeld, PipeFailsHeld, SaveDescriptorHeld, SaveFailsHeld,
       RestoreDescriptorsHeld, NextCommandHeld
  <1>3. CASE InputRedirection \/ OutputRedirection
    BY <1>3, RedirectionHeld
  <1>4. CASE Runs
    BY <1>4, CommandHeld
  <1>5. CASE EnterGroup \/ EndGroup
    BY <1>5, EnterGroupHeld, EndGroupHeld
  <1>6. CASE Waits
    BY <1>6, WaitsHeld
  <1>7. CASE BeginSubstitution \/ EndSubstitution \/ ReadEnd
    BY <1>7, BeginSubstitutionHeld, EndSubstitutionHeld, ReadEndHeld
  <1>8. CASE RedirectionAborts \/ SubstitutionAborts
    BY <1>8 DEF RedirectionAborts, SubstitutionAborts, Held
  <1>9. CASE (\E status \in Code : Exit(status)) \/ Break
    BY <1>9, ExitHeld, BreakHeld
  <1>10. CASE UNCHANGED <<shell, fds, stack>>
    BY <1>10 DEF Held, Tables, Sound, Apart
  <1>11. CASE ReadByte
    BY <1>10, <1>11 DEF ReadByte
  <1>12. ASSUME NEW p \in DOMAIN procs, ProcStep(p)
         PROVE  Held'
    BY <1>10, <1>12, ProcStepAs
  <1>13. CASE UNCHANGED vars
    BY <1>10, <1>13 DEF vars
  <1>. QED  BY <1>1, <1>2, <1>3, <1>4, <1>5, <1>6, <1>7, <1>8, <1>9, <1>11, <1>12, <1>13
       DEF Next, ShellStep, Runs, Waits

----------------------------------------------------------------------------
(* The tables of the processes *)

\* What a process has open: what the shell had when it forked it, less what
\* execvp closes.
TableOK(r) ==
    /\ Tidy(r.fds)
    /\ r.state = "forked" => StdOpen(r.fds) /\ HighMarked(r.fds)
    /\ r.state = "running" /\ "input" \notin Feature => InUse(r.fds) = 0 .. 2

TablesOK ==
    /\ shell # "alive" => fds = NoTable
    /\ \A p \in DOMAIN procs : TableOK(procs[p])

LEMMA NoTableTidy == Tidy(NoTable)
  <1>1. \A x \in Fd : NoTable[x] = Closed
    BY DEF NoTable, Fd
  <1>. QED  BY <1>1 DEF Tidy

\* execvp keeps 0, 1 and 2, and what is not marked.
LEMMA ExecutedOK ==
    ASSUME NEW n, NEW t \in Table(n), Tidy(t), StdOpen(t), HighMarked(t)
    PROVE  Tidy(Executed(t)) /\ ("input" \notin Feature => InUse(Executed(t)) = 0 .. 2)
  <1>. DEFINE u == Executed(t)
  <1>1. DOMAIN u = Fd /\ \A x \in Fd : u[x] = IF t[x].cloexec THEN Closed ELSE t[x]
    BY DEF Executed, Table
  <1>. HIDE DEF u
  <1>2. Tidy(u)
    BY <1>1 DEF Tidy
  <1>3. \A x \in 0 .. 2 : x \in Fd /\ u[x] # Closed
    BY <1>1, StdFds DEF StdOpen
  <1>4. "input" \notin Feature => \A x \in Fd : u[x] # Closed => x \in 0 .. 2
    <2>1. "input" \notin Feature => \A x \in Fd : x > 2 => u[x] = Closed
      BY <1>1 DEF HighMarked
    <2>. QED  BY <2>1, FdNumbers
  <1>5. "input" \notin Feature => InUse(u) = 0 .. 2
    BY <1>1, <1>3, <1>4 DEF InUse
  <1>. QED  BY <1>2, <1>5 DEF u

LEMMA TablesOKStep == ASSUME Shape, Shape', Held, TablesOK, [Next]_vars PROVE TablesOK'
  <1>1. shell' # "alive" => fds' = NoTable
    <2>1. CASE shell # "alive"
      <3>1. ~ShellStep
        BY <2>1 DEF ShellStep, StartPipeline, MakePipe, PipeFails, SaveDescriptor, SaveFails,
          RestoreDescriptors, NextCommand, InputRedirection, OutputRedirection,
          RedirectionAborts, Builtin, BuiltinWrites, BuiltinReturns, Fork, EnterGroup,
          EndGroup, WaitChild, WaitAny, NoWait, BeginSubstitution, SubstitutionAborts,
          EndSubstitution, ReadByte, ReadEnd, Exit, Break, InPipeline, InList, Reading
      <3>2. UNCHANGED fds
        <4>1. CASE UNCHANGED vars
          BY <4>1 DEF vars
        <4>2. ASSUME NEW p \in DOMAIN procs, ProcStep(p)
              PROVE  UNCHANGED fds
          BY <4>2, ProcStepAs
        <4>. QED  BY <3>1, <4>1, <4>2 DEF Next
      <3>. QED  BY <2>1, <3>2 DEF TablesOK
    <2>2. CASE shell = "alive"
      <3>1. CASE ShellStep
        <4>1. CASE RedirectionAborts \/ SubstitutionAborts
          BY <4>1 DEF RedirectionAborts, SubstitutionAborts
        <4>2. CASE (\E status \in Code : Exit(status)) \/ Break
          BY <2>2, <4>2, ExitAs, BreakAs DEF Jumps
        <4>3. CASE ~(\/ RedirectionAborts \/ SubstitutionAborts \/ Break
                     \/ \E status \in Code : Exit(status))
          <5>1. UNCHANGED shell
            BY <3>1, <4>3 DEF ShellStep, StartPipeline, MakePipe, PipeFails, SaveDescriptor,
              SaveFails, RestoreDescriptors, NextCommand, InputRedirection, OutputRedirection,
              Builtin, BuiltinWrites, BuiltinReturns, Fork, EnterGroup, EndGroup, WaitChild,
              WaitAny, NoWait, BeginSubstitution, EndSubstitution, ReadByte, ReadEnd
          <5>. QED  BY <2>2, <5>1
        <4>. QED  BY <4>1, <4>2, <4>3
      <3>2. ASSUME NEW p \in DOMAIN procs, ProcStep(p)
            PROVE  UNCHANGED shell
        BY <3>2, ProcStepAs
      <3>3. CASE UNCHANGED vars
        BY <2>2, <3>3 DEF vars
      <3>. QED  BY <2>2, <3>1, <3>2, <3>3 DEF Next
    <2>. QED  BY <2>1, <2>2
  <1>2. CASE UNCHANGED procs
    BY <1>1, <1>2 DEF TablesOK
  <1>3. CASE Fork
    <2>. DEFINE n == Len(procs) + 1
    <2>1. /\ procs'[n].state = "forked" /\ procs'[n].fds = fds
          /\ \A q \in DOMAIN procs : procs'[q] = procs[q]
          /\ DOMAIN procs' = DOMAIN procs \cup {n}
      BY <1>3, ForkAt
    <2>2. shell = "alive"
      BY <1>3 DEF Fork, InPipeline
    <2>. HIDE DEF n
    <2>3. TableOK(procs'[n])
      BY <2>1, <2>2, HeldAt DEF TableOK
    <2>4. \A p \in DOMAIN procs' : TableOK(procs'[p])
      BY <2>1, <2>3 DEF TablesOK
    <2>. QED  BY <1>1, <2>4 DEF TablesOK
  <1>4. ASSUME NEW p \in DOMAIN procs, procs[p].state = "exited", Reap(p)
        PROVE  TablesOK'
    <2>1. /\ procs'[p].fds = procs[p].fds /\ DOMAIN procs' = DOMAIN procs
      BY <1>4, ReapKeeps
    <2>2. /\ procs'[p].state = "reaped"
          /\ \A q \in DOMAIN procs : q # p => procs'[q] = procs[q]
      BY <1>4, ReapAt
    <2>3. TableOK(procs'[p])
      BY <2>1, <2>2 DEF TablesOK, TableOK
    <2>4. \A q \in DOMAIN procs' : TableOK(procs'[q])
      BY <2>1, <2>2, <2>3 DEF TablesOK
    <2>. QED  BY <1>1, <2>4 DEF TablesOK
  <1>5. ASSUME NEW p \in DOMAIN procs, ProcStep(p)
        PROVE  TablesOK'
    <2>1. /\ DOMAIN procs' = DOMAIN procs
          /\ \A q \in DOMAIN procs :
               \/ procs'[q] = procs[q]
               \/ q = p /\ (BecomesEnded(p, procs'[p]) \/ BecomesRunning(p, procs'[p])
                            \/ GoesOn(p, procs'[p]))
      BY <1>5, ProcStepAt
    <2>2. TableOK(procs[p])
      BY DEF TablesOK
    <2>3. procs[p].fds \in Table(Len(pipes))
      <3>1. procs[p] \in Process(Len(pipes))
        BY ProcAt
      <3>. QED  BY <3>1 DEF Process
    <2>4. BecomesEnded(p, procs'[p]) => TableOK(procs'[p])
      BY NoTableTidy DEF BecomesEnded, TableOK
    <2>5. BecomesRunning(p, procs'[p]) => TableOK(procs'[p])
      BY <2>2, <2>3, ExecutedOK DEF BecomesRunning, TableOK
    <2>6. GoesOn(p, procs'[p]) => TableOK(procs'[p])
      BY <2>2 DEF GoesOn, TableOK
    <2>7. \A q \in DOMAIN procs' : TableOK(procs'[q])
      BY <2>1, <2>4, <2>5, <2>6 DEF TablesOK
    <2>. QED  BY <1>1, <2>7 DEF TablesOK
  <1>. QED  BY <1>2, <1>3, <1>4, <1>5, ProcsChange

LEMMA InitTablesOK == ASSUME Init PROVE TablesOK
  <1>1. DOMAIN procs = {} /\ shell = "alive"
    BY DEF Init
  <1>. QED  BY <1>1 DEF TablesOK

LEMMA IsTableOf ==
    ASSUME NEW t \in Table(Len(pipes)), Tidy(t)
    PROVE  IsTable(t)
  <1>1. DOMAIN t = 0 .. MaxFd - 1
    BY DEF Table, Fd
  <1>2. ASSUME NEW x \in InUse(t)
        PROVE  t[x] \in [file : {Tty, File} \cup ({"read", "write"} \X (1 .. Len(pipes))),
                         cloexec : BOOLEAN]
    <2>1. x \in Fd /\ t[x] # Closed /\ t[x] \in Entry(Len(pipes))
      BY DEF InUse, Table
    <2>2. t[x].file # NoFile
      BY <2>1 DEF Tidy
    <2>. QED  BY <2>1, <2>2 DEF Entry, Files
  <1>. QED  BY <1>1, <1>2 DEF IsTable

LEMMA TypedStates ==
    ASSUME Shape, Held, TablesOK, jumped \in BOOLEAN
    PROVE  TypeOK
  <1>1. /\ shell \in {"alive", "aborted", "exited"} /\ fds \in Table(Len(pipes))
        /\ pipes \in Seq(0 .. Capacity) /\ started \in 0 .. MaxPipelines
    BY DEF Shape, Typed
  <1>2. Tidy(fds)
    <2>1. CASE shell = "alive"
      BY <2>1 DEF Held, Tables
    <2>2. CASE shell # "alive"
      BY <2>2, NoTableTidy DEF TablesOK
    <2>. QED  BY <2>1, <2>2
  <1>3. stack[1].type = "top" /\ Len(stack) <= MaxDepth
    BY TopFacts, PipelineAssumption DEF Shape, Stacked
  <1>4. ASSUME NEW i \in DOMAIN stack, stack[i].type # "pipeline"
        PROVE  stack[i].status \in Code \cup {0, 1, 127}
    <2>1. i \in 1 .. Len(stack)
      BY TopFacts
    <2>2. stack[i] \in ListFrame
      BY <1>4, <2>1 DEF Shape, Stacked, FrameOK
    <2>. QED  BY <2>2 DEF ListFrame, Status
  <1>5. ASSUME NEW p \in DOMAIN procs
        PROVE  /\ procs[p].state \in {"forked", "running", "exited", "reaped"}
               /\ IsTable(procs[p].fds) /\ procs[p].status \in Code \cup {0, 127}
    <2>1. procs[p] \in Process(Len(pipes))
      BY ProcAt
    <2>2. procs[p].fds \in Table(Len(pipes))
      BY <2>1 DEF Process
    <2>3. IsTable(procs[p].fds)
      BY <2>2, IsTableOf DEF TablesOK, TableOK
    <2>. QED  BY <2>1, <2>3 DEF Process, Exits
  <1>6. IsTable(fds)
    BY <1>1, <1>2, IsTableOf
  <1>. QED  BY <1>1, <1>3, <1>4, <1>5, <1>6 DEF TypeOK

\* Everything the theorems below take for granted of a state.
Descriptors == Shape /\ Held /\ TablesOK

\* At every line of __piperun, rl_exec_simple_cmd and __exp_cmd_substitution, what
\* a frame of the stack remembers is open, marked close-on-exec, above 2, and
\* remembered by no other frame; and the table of each process is as fork, dup
\* and execvp leave it.
THEOREM DescriptorsHold == Spec => []Descriptors
  <1>1. Init => Descriptors
    BY InitShape, InitHeld, InitTablesOK DEF Descriptors
  <1>2. Descriptors /\ [Next]_vars => Descriptors'
    BY NextShape, HeldStep, TablesOKStep DEF Descriptors
  <1>. QED  BY <1>1, <1>2, PTL DEF Spec

\* Every table of descriptors, every process and every pipe is what the code
\* says it is: no number is open on nothing, no pipe holds more than its
\* capacity, lists have the status of a command.
THEOREM TypeCorrect == Spec => []TypeOK
  <1>1. Descriptors /\ jumped \in BOOLEAN => TypeOK
    BY TypedStates DEF Descriptors
  <1>2. Init => jumped \in BOOLEAN
    BY DEF Init
  <1>3. jumped \in BOOLEAN /\ [Next]_vars => (jumped \in BOOLEAN)'
    BY JumpedStays
  <1>. QED  BY <1>1, <1>2, <1>3, DescriptorsHold, PTL DEF Spec

\* An external command has 0, 1 and 2 and nothing else, however deep in
\* pipelines, groups and substitutions rl_exec_simple_cmd forks it.  An input
\* redirection is left out: rl_exec_redirection keeps what it opened.
THEOREM ChildrenInheritStd ==
    ASSUME "input" \notin Feature
    PROVE  Spec => []InheritStdOnly
  <1>1. Descriptors => InheritStdOnly
    BY DEF Descriptors, TablesOK, TableOK, InheritStdOnly
  <1>. QED  BY <1>1, DescriptorsHold, PTL

----------------------------------------------------------------------------
(* 0, 1 and 2 are put back *)

\* What x was open on when the pipeline f began.
Original(t, f, x) == IF x < Len(f.saved) THEN t[f.saved[x + 1]].file ELSE t[x].file

\* A pipeline can put back what the list it belongs to began with.
Keeps(t, f, std) == f.type = "pipeline" => \A x \in 0 .. 2 : Original(t, f, x) = std[x]

Begun(t, f) == f.type # "pipeline" /\ f.phase = "run" => \A x \in 0 .. 2 : t[x].file = f.std[x]

Kept ==
    shell = "alive" /\ ~failed =>
        /\ \A i \in 2 .. Len(stack) : Keeps(fds, stack[i], stack[i - 1].std)
        /\ Begun(fds, Top)

LEMMA Below ==
    ASSUME Shape, NEW i \in 1 .. Len(stack) - 1, stack[i].type = "pipeline"
    PROVE  Len(stack[i].saved) = 3 /\ HoldsPipe(stack[i])
  <1>1. i \in 1 .. Len(stack)
    BY TopFacts
  <1>2. FrameOK(stack[i], Len(procs), Len(pipes)) /\ Under(stack[i], stack[i + 1])
    BY <1>1 DEF Shape, Stacked
  <1>. QED  BY <1>2 DEF Under, FrameOK, PipelineOK, SavedOK, HoldsPipe

LEMMA OriginalKept ==
    ASSUME NEW f, Len(f.saved) = 3, \A j \in 1 .. 3 : fds'[f.saved[j]] = fds[f.saved[j]],
           NEW x \in 0 .. 2
    PROVE  Original(fds', f, x) = Original(fds, f, x)
  <1>1. x < 3 /\ x + 1 \in 1 .. 3
    OBVIOUS
  <1>. QED  BY <1>1 DEF Original

\* What happens above a pipeline is no matter to what it keeps.
LEMMA KeptBelow ==
    ASSUME Shape, Held, Kept, shell = "alive", ~failed, OnlyTop,
           NEW i \in 2 .. Len(stack), i # Len(stack)
    PROVE  Keeps(fds', stack[i], stack[i - 1].std)
  <1>1. SUFFICES ASSUME stack[i].type = "pipeline", NEW x \in 0 .. 2
                 PROVE  Original(fds', stack[i], x) = stack[i - 1].std[x]
    BY DEF Keeps
  <1>2. i \in 1 .. Len(stack) /\ i \in 1 .. Len(stack) - 1
    BY TopFacts
  <1>3. Len(stack[i].saved) = 3 /\ HoldsPipe(stack[i])
    BY <1>1, <1>2, Below
  <1>4. Sound /\ Apart
    BY DEF Held
  <1>5. \A y \in HeldBy(stack[i]) : fds'[y] = fds[y]
    BY <1>2, <1>4, SoundKept
  <1>6. \A j \in 1 .. 3 : stack[i].saved[j] \in HeldBy(stack[i])
    BY <1>1, <1>2, <1>3, FrameAt, SavedHeld
  <1>7. Original(fds', stack[i], x) = Original(fds, stack[i], x)
    BY <1>3, <1>5, <1>6, OriginalKept
  <1>8. Original(fds, stack[i], x) = stack[i - 1].std[x]
    BY <1>1 DEF Kept, Keeps
  <1>. QED  BY <1>7, <1>8

LEMMA KeptCut ==
    ASSUME Shape, Held, Kept, shell = "alive", ~failed, OnlyTop, NEW n, NEW g, Cut(n, g),
           n # 1 => Keeps(fds', g, stack[n - 1].std), Begun(fds', g)
    PROVE  Kept'
  <1>1. n \in 1 .. Len(stack) /\ Len(stack) \in Nat /\ Len(stack') = n /\ stack'[n] = g
        /\ \A i \in 1 .. n - 1 : stack'[i] = stack[i]
    BY TopFacts DEF Cut
  <1>2. ASSUME NEW i \in 2 .. n
        PROVE  Keeps(fds', stack'[i], stack'[i - 1].std)
    <2>1. i - 1 \in 1 .. n - 1 /\ stack'[i - 1] = stack[i - 1]
      BY <1>1
    <2>2. CASE i = n
      BY <1>1, <2>1, <2>2
    <2>3. CASE i # n
      <3>1. stack'[i] = stack[i] /\ i \in 2 .. Len(stack) /\ i # Len(stack)
        BY <1>1, <2>3
      <3>. QED  BY <2>1, <3>1, KeptBelow
    <2>. QED  BY <2>2, <2>3
  <1>3. Begun(fds', Top')
    BY CutTop
  <1>. QED  BY <1>1, <1>2, <1>3 DEF Kept

\* The pipeline on top, and the list it belongs to.
LEMMA TopKeeps ==
    ASSUME Shape, Kept, shell = "alive", ~failed, Top.type = "pipeline"
    PROVE  LET n == Len(stack) - 1 IN
           /\ n \in 1 .. Len(stack) /\ Len(stack) # 1
           /\ \A x \in 0 .. 2 : Original(fds, Top, x) = stack[n].std[x]
  <1>1. Len(stack) # 1 /\ Len(stack) - 1 \in 1 .. Len(stack) /\ Len(stack) \in 2 .. Len(stack)
    BY TopFacts
  <1>2. Keeps(fds, stack[Len(stack)], stack[Len(stack) - 1].std)
    BY <1>1 DEF Kept
  <1>. QED  BY <1>1, <1>2 DEF Keeps, Top

LEMMA KeptTop ==
    ASSUME Shape, Held, Kept, shell = "alive", ~failed, OnlyTop, Top.type = "pipeline",
           NEW g, SetTop(g), g.type = "pipeline",
           \A x \in 0 .. 2 : Original(fds', g, x) = Original(fds, Top, x)
    PROVE  Kept'
  <1>1. Cut(Len(stack), g)
    BY TopFacts, SetTopCuts
  <1>2. Keeps(fds', g, stack[Len(stack) - 1].std) /\ Begun(fds', g)
    BY TopKeeps DEF Keeps, Begun
  <1>. QED  BY <1>1, <1>2, KeptCut

\* g puts back what the frame on top does.
LEMMA KeptPush ==
    ASSUME Shape, Held, Kept, shell = "alive", ~failed, NEW g, NEW f, Pushed(g, f),
           g.type = Top.type, Top.type = "pipeline" => g.saved = Top.saved /\ Top.phase = "args",
           Keeps(fds', f, g.std), Begun(fds', f),
           \A x \in Fd : x > 2 /\ x \notin Free(fds) => fds'[x] = fds[x]
    PROVE  Kept'
  <1>. DEFINE m == Len(stack)
  <1>1. m \in Nat /\ m \in 1 .. m /\ Len(stack') = m + 1 /\ stack'[m + 1] = f /\ stack'[m] = g
        /\ \A i \in 1 .. m - 1 : stack'[i] = stack[i]
    BY TopFacts DEF Pushed
  <1>2. OnlyTop
    BY DEF OnlyTop
  <1>3. Top.type = "pipeline" => Keeps(fds', g, stack[m - 1].std)
    <2>1. SUFFICES ASSUME Top.type = "pipeline", NEW x \in 0 .. 2
                   PROVE  Original(fds', g, x) = stack[m - 1].std[x]
      BY DEF Keeps
    <2>2. Len(Top.saved) = 3 /\ HoldsPipe(Top)
      BY <2>1, TopFacts DEF PipelineOK, SavedOK, HoldsPipe
    <2>3. FrameSound(fds, Top)
      BY HeldAt
    <2>4. \A j \in 1 .. 3 : HeldFd(fds, Top.saved[j])
      BY <2>1, <2>2, <2>3, SavedHeld
    <2>5. \A j \in 1 .. 3 : fds'[Top.saved[j]] = fds[Top.saved[j]]
      BY <2>4 DEF HeldFd, Free
    <2>6. Original(fds', Top, x) = Original(fds, Top, x)
      BY <2>2, <2>5, OriginalKept
    <2>7. Original(fds', g, x) = Original(fds', Top, x)
      BY <2>1 DEF Original
    <2>8. Original(fds, Top, x) = stack[m - 1].std[x]
      BY <2>1, TopKeeps
    <2>. QED  BY <2>6, <2>7, <2>8
  <1>4. 1 .. m = 1 .. Len(stack) /\ 2 .. m = 2 .. Len(stack) /\ m = Len(stack)
    OBVIOUS
  <1>. HIDE DEF m
  <1>5. ASSUME NEW i \in 2 .. m + 1
        PROVE  Keeps(fds', stack'[i], stack'[i - 1].std)
    <2>1. CASE i = m + 1
      <3>1. i - 1 = m
        BY <1>1, <2>1
      <3>. QED  BY <1>1, <2>1, <3>1
    <2>2. CASE i = m
      <3>1. stack'[i - 1] = stack[m - 1]
        BY <1>1, <2>2
      <3>2. Top.type # "pipeline" => Keeps(fds', g, stack[m - 1].std)
        BY DEF Keeps
      <3>. QED  BY <1>1, <1>3, <2>2, <3>1, <3>2
    <2>3. CASE i # m /\ i # m + 1
      <3>1. i \in 2 .. m /\ i - 1 \in 1 .. m - 1 /\ i \in 1 .. m - 1
        BY <1>1, <2>3
      <3>2. Keeps(fds', stack[i], stack[i - 1].std)
        BY <1>2, <1>4, <2>3, <3>1, KeptBelow
      <3>. QED  BY <1>1, <3>1, <3>2
    <2>. QED  BY <2>1, <2>2, <2>3
  <1>6. Top' = f
    BY <1>1 DEF Top
  <1>. QED  BY <1>1, <1>5, <1>6 DEF Kept

\* Nothing saved: what 0, 1 and 2 are open on.
LEMMA OriginalNow ==
    ASSUME NEW t, NEW f, f.saved = <<>>, NEW x \in 0 .. 2
    PROVE  Original(t, f, x) = t[x].file
  <1>1. Len(f.saved) = 0 /\ ~(x < 0)
    OBVIOUS
  <1>. QED  BY <1>1 DEF Original

LEMMA MakePipeKept == ASSUME Shape, Held, Kept, MakePipe, ~failed' PROVE Kept'
  <1>. DEFINE r == Lowest(Free(fds))
              w == Lowest(Free(fds) \ {r})
              g == [Top EXCEPT !.fd = <<r, w>>,
                       !.phase = IF Cmd.kind = "fundec" THEN "next" ELSE "save"]
  <1>1. InPipeline("pipe") /\ shell = "alive" /\ ~failed /\ SetTop(g)
    BY DEF MakePipe, InPipeline
  <1>2. fds \in Table(Len(pipes)) /\ StdOpen(fds)
    BY <1>1, HeldAt
  <1>3. r \in Free(fds) /\ w \in Free(fds) /\ \A x \in Fd : x # r /\ x # w => fds'[x] = fds[x]
    BY MakePipeAt
  <1>4. Top \in PipelineFrame /\ Top.type = "pipeline" /\ Top.saved = <<>>
    BY <1>1, TopFields, PipelineAt
  <1>5. g.type = "pipeline" /\ g.saved = <<>>
    BY <1>4 DEF PipelineFrame
  <1>. HIDE DEF r, w, g
  <1>6. r > 2 /\ w > 2
    BY <1>2, <1>3, FreeAbove
  <1>7. OnlyTop
    BY <1>3 DEF OnlyTop
  <1>8. \A x \in 0 .. 2 : Original(fds', g, x) = Original(fds, Top, x)
    <2>1. \A x \in 0 .. 2 : fds'[x] = fds[x]
      BY <1>3, <1>6, StdFds
    <2>. QED  BY <1>4, <1>5, <2>1, OriginalNow
  <1>. QED  BY <1>1, <1>4, <1>5, <1>7, <1>8, KeptTop

LEMMA SaveDescriptorKept == ASSUME Shape, Held, Kept, SaveDescriptor, ~failed' PROVE Kept'
  <1>. DEFINE i  == Len(Top.saved)
              n  == Lowest(Free(fds))
              to == Target(Top, i)
              g  == [Top EXCEPT !.saved = Append(@, n),
                                !.phase = IF i = 2 THEN "args" ELSE "save"]
  <1>1. InPipeline("save") /\ shell = "alive" /\ ~failed /\ SetTop(g)
    BY DEF SaveDescriptor, InPipeline
  <1>2. fds \in Table(Len(pipes)) /\ StdOpen(fds) /\ FrameSound(fds, Top)
    BY <1>1, HeldAt
  <1>3. Top \in PipelineFrame /\ Top.type = "pipeline" /\ Top.phase = "save" /\ Top.saved \in Seq(Fd)
    BY <1>1, TopFields, PipelineAt
  <1>4. /\ i \in 0 .. 2 /\ n \in Free(fds) /\ to \in Fd
        /\ to = i \/ (to \in HeldBy(Top) /\ to > 2)
        /\ \A x \in Fd :
             fds'[x] = IF x = n THEN [file |-> fds[i].file, cloexec |-> TRUE]
                       ELSE IF x = i /\ to # i
                         THEN [file |-> fds[to].file, cloexec |-> FALSE]
                       ELSE IF x = to /\ to # i /\ i = 0 THEN Closed
                       ELSE fds[x]
    BY SaveAt
  <1>5. g.type = "pipeline" /\ g.saved = Append(Top.saved, n)
    BY <1>3 DEF PipelineFrame
  <1>. HIDE DEF g, n, to
  <1>6. n \in Fd /\ n > 2
    BY <1>2, <1>4, FreeAbove
  <1>7. /\ Len(g.saved) = i + 1 /\ i \in Nat /\ g.saved[i + 1] = n
        /\ \A j \in 1 .. i : g.saved[j] = Top.saved[j] /\ g.saved[j] \in HeldBy(Top)
    <2>1. Len(g.saved) = i + 1 /\ i \in Nat /\ g.saved[i + 1] = n
          /\ \A j \in 1 .. i : g.saved[j] = Top.saved[j]
      BY <1>3, <1>5, <1>6
    <2>. QED  BY <1>3, <2>1 DEF HeldBy
  <1>8. OnlyTop
    <2>1. \A x \in Fd : x > 2 => x # i
      BY <1>4
    <2>. QED  BY <1>4, <2>1 DEF OnlyTop
  <1>9. i = Len(Top.saved)
    OBVIOUS
  <1>. HIDE DEF i
  <1>10. i = 0 \/ i = 1 \/ i = 2
    BY <1>4
  <1>11. ASSUME NEW x \in 0 .. 2
         PROVE  Original(fds', g, x) = Original(fds, Top, x)
    <2>1. x \in Fd /\ (x = 0 \/ x = 1 \/ x = 2) /\ x # n
      BY <1>6, StdFds
    <2>2. CASE x < i
      <3>1. x + 1 \in 1 .. i /\ x < i + 1
        BY <1>7, <2>1, <2>2
      <3>. DEFINE s == Top.saved[x + 1]
      <3>2. g.saved[x + 1] = s /\ s \in HeldBy(Top)
        BY <1>7, <3>1
      <3>. HIDE DEF s
      <3>3. HeldFd(fds, s)
        BY <1>2, <3>2 DEF FrameSound
      <3>4. s \in Fd /\ s # i /\ s # n /\ i # 0
        BY <1>4, <1>10, <2>1, <2>2, <3>3 DEF HeldFd, Free
      <3>5. fds'[s] = fds[s]
        BY <1>4, <3>4
      <3>. QED  BY <1>7, <1>9, <2>2, <3>1, <3>2, <3>5 DEF Original, s
    <2>3. CASE x = i
      <3>1. fds'[n].file = fds[x].file
        BY <1>4, <1>6, <2>3
      <3>2. x < i + 1 /\ ~(x < i)
        BY <1>7, <2>3
      <3>. QED  BY <1>7, <1>9, <2>3, <3>1, <3>2 DEF Original
    <2>4. CASE ~(x < i) /\ x # i
      <3>1. ~(x < i + 1)
        BY <1>10, <2>1, <2>4
      <3>2. to = i \/ x # to
        BY <1>4, <2>1
      <3>3. fds'[x] = fds[x]
        BY <1>4, <2>1, <2>4, <3>2
      <3>. QED  BY <1>7, <1>9, <2>4, <3>1, <3>3 DEF Original
    <2>. QED  BY <2>2, <2>3, <2>4
  <1>. QED  BY <1>1, <1>3, <1>5, <1>8, <1>11, KeptTop

LEMMA RestoreDescriptorsKept == ASSUME Shape, Held, Kept, RestoreDescriptors, ~failed' PROVE Kept'
  <1>. DEFINE g == [Top EXCEPT !.phase = "next", !.saved = <<>>]
  <1>1. InPipeline("restore") /\ shell = "alive" /\ ~failed /\ SetTop(g)
    BY DEF RestoreDescriptors, InPipeline
  <1>2. Top \in PipelineFrame /\ Top.type = "pipeline" /\ Len(Top.saved) = 3
    BY <1>1, PipelineAt, TopFields
  <1>3. g.type = "pipeline" /\ g.saved = <<>>
    BY <1>2 DEF PipelineFrame
  <1>. DEFINE S == {Top.saved[1], Top.saved[2], Top.saved[3]}
  <1>4. /\ \A j \in 1 .. 3 : Top.saved[j] \in Fd /\ Top.saved[j] > 2 /\ fds[Top.saved[j]] # Closed
                             /\ Top.saved[j] \in HeldBy(Top)
        /\ \A x \in Fd :
             fds'[x] = IF x \in S THEN Closed
                       ELSE IF x = 0 THEN [file |-> fds[Top.saved[1]].file, cloexec |-> FALSE]
                       ELSE IF x = 1 THEN [file |-> fds[Top.saved[2]].file, cloexec |-> FALSE]
                       ELSE IF x = 2 THEN [file |-> fds[Top.saved[3]].file, cloexec |-> FALSE]
                       ELSE fds[x]
    BY RestoreDescriptorsAt
  <1>. HIDE DEF g
  <1>5. \A x \in S : x > 2 /\ x \in HeldBy(Top)
    <2>1. 1 \in 1 .. 3 /\ 2 \in 1 .. 3 /\ 3 \in 1 .. 3
      OBVIOUS
    <2>. QED  BY <1>4, <2>1
  <1>. HIDE DEF S
  <1>6. OnlyTop
    BY <1>4, <1>5 DEF OnlyTop
  <1>7. /\ fds'[0].file = fds[Top.saved[1]].file
        /\ fds'[1].file = fds[Top.saved[2]].file
        /\ fds'[2].file = fds[Top.saved[3]].file
    <2>1. 0 \notin S /\ 1 \notin S /\ 2 \notin S
      BY <1>5
    <2>. QED  BY <1>4, <2>1, FdFacts
  <1>8. ASSUME NEW x \in 0 .. 2
        PROVE  Original(fds', g, x) = Original(fds, Top, x)
    <2>1. Original(fds', g, x) = fds'[x].file
      BY <1>3, OriginalNow
    <2>2. Original(fds, Top, x) = fds[Top.saved[x + 1]].file
      <3>1. x < 3
        OBVIOUS
      <3>. QED  BY <1>2, <3>1 DEF Original
    <2>3. fds'[x].file = fds[Top.saved[x + 1]].file
      <3>1. (x = 0 /\ x + 1 = 1) \/ (x = 1 /\ x + 1 = 2) \/ (x = 2 /\ x + 1 = 3)
        OBVIOUS
      <3>. QED  BY <1>7, <3>1
    <2>. QED  BY <2>1, <2>2, <2>3
  <1>. QED  BY <1>1, <1>2, <1>3, <1>6, <1>8, KeptTop

LEMMA NextCommandKept == ASSUME Shape, Held, Kept, NextCommand, ~failed' PROVE Kept'
  <1>1. InPipeline("next") /\ shell = "alive" /\ ~failed
    BY DEF NextCommand, InPipeline
  <1>2. Top.type = "pipeline" /\ Top.saved = <<>>
    BY <1>1, TopFields
  <1>3. /\ Top.fd[2] \in HeldBy(Top) /\ HeldFd(fds, Top.fd[2])
        /\ \A x \in Fd : fds'[x] = IF x = Top.fd[2] THEN Closed ELSE fds[x]
    BY NextCommandAt
  <1>4. PICK g : SetTop(g) /\ g.type = "pipeline" /\ g.saved = <<>>
    BY NextCommandAt
  <1>5. OnlyTop
    BY <1>3 DEF OnlyTop
  <1>6. \A x \in 0 .. 2 : Original(fds', g, x) = Original(fds, Top, x)
    <2>1. \A x \in 0 .. 2 : fds'[x] = fds[x]
      BY <1>3, StdFds DEF HeldFd
    <2>. QED  BY <1>2, <1>4, <2>1, OriginalNow
  <1>. QED  BY <1>1, <1>2, <1>4, <1>5, <1>6, KeptTop

LEMMA CommandKept == ASSUME Shape, Held, Kept, Runs, ~failed' PROVE Kept'
  <1>1. UNCHANGED <<fds, failed>> /\ shell = "alive" /\ ~failed /\ Top.type = "pipeline"
    BY CommandAs
  <1>2. PICK g : SetTop(g) /\ g.type = "pipeline" /\ g.saved = Top.saved
    BY CommandAs DEF RunsAs
  <1>3. \A x \in 0 .. 2 : Original(fds', g, x) = Original(fds, Top, x)
    BY <1>1, <1>2 DEF Original
  <1>4. OnlyTop
    BY <1>1 DEF OnlyTop
  <1>. QED  BY <1>1, <1>2, <1>3, <1>4, KeptTop

LEMMA RedirectionKept ==
    ASSUME Shape, Held, Kept, InputRedirection \/ OutputRedirection, ~failed' PROVE Kept'
  <1>1. shell = "alive" /\ UNCHANGED <<shell, stack>> /\ ~failed /\ InPipeline("args")
    <2>1. CASE InputRedirection
      <3>1. InPipeline("args") /\ UNCHANGED <<shell, stack, failed>>
        BY <2>1 DEF InputRedirection
      <3>. QED  BY <3>1 DEF InPipeline
    <2>2. CASE OutputRedirection
      <3>1. InPipeline("args") /\ UNCHANGED <<shell, stack, failed>>
        BY <2>2 DEF OutputRedirection
      <3>. QED  BY <3>1 DEF InPipeline
    <2>. QED  BY <2>1, <2>2
  <1>2. \A x \in Fd : x > 2 /\ x \notin Free(fds) => fds'[x] = fds[x]
    <2>1. CASE InputRedirection
      <3>. DEFINE c == [file |-> File, cloexec |-> FALSE]
      <3>1. PICK n \in Free(fds) : \A x \in Fd : fds'[x] = IF x = n \/ x = 0 THEN c ELSE fds[x]
        BY <2>1, InputRedirectionAt
      <3>. HIDE DEF c
      <3>. QED  BY <3>1
    <2>2. CASE OutputRedirection
      <3>. DEFINE c == [file |-> File, cloexec |-> FALSE]
      <3>1. \A x \in Fd : fds'[x] = IF x = 1 THEN c ELSE fds[x]
        BY <2>2, OutputRedirectionAt
      <3>. HIDE DEF c
      <3>. QED  BY <3>1
    <2>. QED  BY <2>1, <2>2
  <1>3. OnlyTop
    BY <1>2 DEF OnlyTop
  <1>4. Top.type = "pipeline" /\ Top.phase = "args" /\ Len(Top.saved) = 3
    BY <1>1, TopFields
  <1>5. HoldsPipe(Top)
    BY <1>4 DEF HoldsPipe
  <1>6. \A j \in 1 .. 3 : HeldFd(fds, Top.saved[j])
    BY <1>1, <1>4, <1>5, HeldAt, SavedHeld
  <1>7. \A j \in 1 .. 3 : fds'[Top.saved[j]] = fds[Top.saved[j]]
    BY <1>2, <1>6 DEF HeldFd, Free
  <1>8. \A x \in 0 .. 2 : Original(fds', Top, x) = Original(fds, Top, x)
    BY <1>4, <1>7, OriginalKept
  <1>9. Keeps(fds', Top, stack[Len(stack) - 1].std) /\ Begun(fds', Top)
    BY <1>1, <1>4, <1>8, TopKeeps DEF Keeps, Begun
  <1>10. Cut(Len(stack), Top)
    BY <1>1, TopFacts DEF Cut, Top
  <1>. QED  BY <1>1, <1>3, <1>9, <1>10, KeptCut

LEMMA StartPipelineKept ==
    ASSUME Shape, Held, Kept, NEW n \in 1 .. MaxCmds, NEW kinds \in [1 .. n -> Kind],
           NEW negate \in Negations, StartPipeline(kinds, negate), ~failed'
    PROVE  Kept'
  <1>. DEFINE g == [Top EXCEPT !.ran = TRUE]
              f == PipelineOf(kinds, negate)
  <1>1. InList /\ shell = "alive" /\ UNCHANGED fds /\ ~failed
    BY DEF StartPipeline, InList
  <1>2. g.type = Top.type /\ g.std = Top.std /\ negate \in BOOLEAN /\ Pushed(g, f)
    BY StartPipelineAs
  <1>3. Top.type # "pipeline" /\ Top.phase = "run"
    BY <1>1, ListAt
  <1>4. f.type = "pipeline" /\ f.saved = <<>>
    BY <1>2, NewPipeline
  <1>. HIDE DEF f, g
  <1>5. \A x \in 0 .. 2 : fds[x].file = Top.std[x]
    BY <1>1, <1>3 DEF Kept, Begun
  <1>6. Keeps(fds', f, g.std)
    BY <1>1, <1>2, <1>4, <1>5, OriginalNow DEF Keeps
  <1>7. Begun(fds', f)
    BY <1>4 DEF Begun
  <1>. QED  BY <1>1, <1>2, <1>3, <1>6, <1>7, KeptPush

\* A list begins with what 0, 1 and 2 are open on.
LEMMA ListBegins ==
    ASSUME NEW t, NEW f, f.type # "pipeline", f.std = Std(t)
    PROVE  Begun(t, f) /\ \A std : Keeps(t, f, std)
  BY DEF Begun, Keeps, Std

LEMMA EnterGroupKept == ASSUME Shape, Held, Kept, EnterGroup, ~failed' PROVE Kept'
  <1>0. PICK f : /\ Push(f) /\ f.type \in {"group", "subshell", "loop"} /\ f.type # "pipeline"
                 /\ f.type # "subst" /\ f.std = Std(fds) /\ InPipeline("args") /\ shell = "alive"
                 /\ UNCHANGED <<shell, fds, procs, pipes, started, failed>>
    BY EnterGroupAs
  <1>1. InPipeline("args") /\ shell = "alive" /\ UNCHANGED fds /\ Push(f) /\ ~failed
    BY <1>0
  <1>2. f.type # "pipeline" /\ f.std = Std(fds')
    BY <1>0
  <1>3. Begun(fds', f) /\ \A std : Keeps(fds', f, std)
    BY <1>2, ListBegins
  <1>4. Pushed(Top, f)
    BY <1>1, TopFacts, PushPushes
  <1>5. Top.phase = "args"
    BY <1>1 DEF InPipeline
  <1>. QED  BY <1>1, <1>3, <1>4, <1>5, KeptPush

LEMMA BeginSubstitutionKept == ASSUME Shape, Held, Kept, BeginSubstitution, ~failed' PROVE Kept'
  <1>1. InPipeline("args") /\ shell = "alive"
    BY DEF BeginSubstitution, InPipeline
  <1>2. PICK r \in Free(fds), w \in Free(fds), n \in Free(fds) \cup {-1} : Substitutes(r, w, n)
    BY BeginSubstitutionAt
  <1>3. ~failed
    BY <1>2 DEF Substitutes
  <1>4. fds \in Table(Len(pipes)) /\ StdOpen(fds)
    BY <1>1, HeldAt
  <1>5. \A x \in Fd : x > 2 /\ x \notin Free(fds) => fds'[x] = fds[x]
    BY <1>2 DEF Substitutes
  <1>. DEFINE f == [List("subst", Std(fds')) EXCEPT !.reader = r, !.saved = n]
  <1>6. Push(f)
    BY <1>2 DEF Substitutes
  <1>7. f.type = "subst" /\ f.std = Std(fds')
    BY DEF List
  <1>. HIDE DEF f
  <1>8. Begun(fds', f) /\ \A std : Keeps(fds', f, std)
    BY <1>7, ListBegins
  <1>9. Pushed(Top, f)
    BY <1>6, TopFacts, PushPushes
  <1>10. Top.phase = "args"
    BY <1>1 DEF InPipeline
  <1>. QED  BY <1>1, <1>3, <1>5, <1>8, <1>9, <1>10, KeptPush

LEMMA EndGroupKept == ASSUME Shape, Held, Kept, EndGroup, ~failed' PROVE Kept'
  <1>. DEFINE n == Len(stack) - 1
              f == stack[n]
              g == [f EXCEPT !.phase = "restore", !.cmds[f.k].status = EndStatus]
  <1>1. shell = "alive" /\ UNCHANGED fds /\ stack' = Append(SubSeq(stack, 1, n - 1), g)
        /\ Top.type \in {"group", "subshell", "loop"} /\ ~failed
    BY EndGroupAs
  <1>2. n \in 1 .. Len(stack) /\ f \in PipelineFrame /\ f.type = "pipeline"
    BY <1>1, BelowList
  <1>3. g.type = "pipeline" /\ g.saved = f.saved
    BY <1>2 DEF PipelineFrame
  <1>5. f = stack[n] /\ Len(stack) \in Nat
    BY TopFacts
  <1>. HIDE DEF g, f, n
  <1>4. n # 1 => n \in 2 .. Len(stack)
    BY <1>2, <1>5
  <1>6. Cut(n, g)
    BY <1>1, <1>2, TopFacts, AppendCuts
  <1>7. n # 1 => Keeps(fds', g, stack[n - 1].std)
    <2>1. n # 1 => Keeps(fds, f, stack[n - 1].std)
      BY <1>1, <1>4, <1>5 DEF Kept
    <2>. QED  BY <1>1, <1>2, <1>3, <2>1 DEF Keeps, Original
  <1>8. OnlyTop /\ Begun(fds', g)
    BY <1>1, <1>3 DEF OnlyTop, Begun
  <1>. QED  BY <1>1, <1>6, <1>7, <1>8, KeptCut

LEMMA ReadEndKept == ASSUME Shape, Held, Kept, ReadEnd, ~failed' PROVE Kept'
  <1>. DEFINE n == Len(stack) - 1
  <1>1. shell = "alive" /\ ~failed
    BY DEF ReadEnd, Reading
  <1>2. /\ n \in 1 .. Len(stack) /\ n # Len(stack) /\ Cut(n, stack[n]) /\ Top.type = "subst"
        /\ Top.reader \in HeldBy(Top)
        /\ \A x \in Fd : fds'[x] = IF x = Top.reader THEN Closed ELSE fds[x]
    BY ReadEndAt
  <1>3. stack[n].type = "pipeline"
    BY <1>2, BelowList
  <1>4. OnlyTop
    BY <1>2 DEF OnlyTop
  <1>8. Len(stack) \in Nat
    BY TopFacts
  <1>. HIDE DEF n
  <1>5. n # 1 => n \in 2 .. Len(stack)
    BY <1>2, <1>8
  <1>6. n # 1 => Keeps(fds', stack[n], stack[n - 1].std)
    BY <1>1, <1>2, <1>4, <1>5, KeptBelow
  <1>7. Begun(fds', stack[n])
    BY <1>3 DEF Begun
  <1>. QED  BY <1>1, <1>2, <1>4, <1>6, <1>7, KeptCut

LEMMA EndSubstitutionKept == ASSUME Shape, Held, Kept, EndSubstitution, ~failed' PROVE Kept'
  <1>. DEFINE g == [Top EXCEPT !.phase = "read"]
  <1>1. InList /\ shell = "alive" /\ SetTop(g) /\ ~failed
    BY DEF EndSubstitution, InList
  <1>. DEFINE B == [file |-> fds[Top.saved].file, cloexec |-> FALSE]
  <1>2. /\ Top.saved # -1 => Top.saved \in HeldBy(Top)
        /\ Top.saved = -1 => UNCHANGED fds
        /\ Top.saved # -1 => \A x \in Fd :
             fds'[x] = IF x = Top.saved THEN Closed ELSE IF x = 1 THEN B ELSE fds[x]
    BY EndSubstitutionAt
  <1>3. g.type # "pipeline" /\ g.phase = "read"
    BY <1>1, ListAt DEF ListFrame
  <1>. HIDE DEF g, B
  <1>4. OnlyTop
    BY <1>2 DEF OnlyTop
  <1>5. Cut(Len(stack), g)
    BY <1>1, TopFacts, SetTopCuts
  <1>6. (\A std : Keeps(fds', g, std)) /\ Begun(fds', g)
    BY <1>3 DEF Keeps, Begun
  <1>. QED  BY <1>1, <1>4, <1>5, <1>6, KeptCut

LEMMA WaitsKept == ASSUME Shape, Held, Kept, Waits, ~failed' PROVE Kept'
  <1>1. InPipeline("wait") /\ shell = "alive" /\ UNCHANGED <<fds, failed>> /\ ~failed
        /\ \E status \in Status : Waited(status)
    <2>1. InPipeline("wait") /\ \E status \in Status : Waited(status)
      BY WaitsAs
    <2>2. UNCHANGED <<fds, failed>>
      BY DEF Waits, WaitChild, WaitAny, NoWait
    <2>. QED  BY <2>1, <2>2 DEF InPipeline
  <1>2. PICK status \in Status : Waited(status)
    BY <1>1
  <1>3. Top.saved = <<>> /\ Top.type = "pipeline"
    BY <1>1, TopFields
  <1>4. OnlyTop
    BY <1>1 DEF OnlyTop
  <1>5. CASE \E g : SetTop(g) /\ WaitsOn(g, status)
    <2>1. PICK g : SetTop(g) /\ WaitsOn(g, status)
      BY <1>5
    <2>2. g.type = "pipeline" /\ g.saved = Top.saved
      BY <1>1, <2>1, WaitsOnAs DEF WaitsOn
    <2>3. \A x \in 0 .. 2 : Original(fds', g, x) = Original(fds, Top, x)
      BY <1>1, <2>2 DEF Original
    <2>. QED  BY <1>1, <1>3, <1>4, <2>1, <2>2, <2>3, KeptTop
  <1>6. CASE LET n == Len(stack) - 1 IN
               /\ Top.k = Len(Top.cmds) /\ n \in 1 .. Len(stack) /\ n # 0
               /\ stack[n] \in ListFrame
               /\ stack' = [SubSeq(stack, 1, n) EXCEPT
                              ![n] = [stack[n] EXCEPT !.status = Negated(Top.negate, status)]]
    <2>. DEFINE n == Len(stack) - 1
                f == stack[n]
                g == [f EXCEPT !.status = Negated(Top.negate, status)]
    <2>1. n \in 1 .. Len(stack) /\ f \in ListFrame /\ stack' = [SubSeq(stack, 1, n) EXCEPT ![n] = g]
      BY <1>6
    <2>2. g.type # "pipeline" /\ g.std = f.std
      BY <2>1 DEF ListFrame
    <2>3. \A x \in 0 .. 2 : fds[x].file = f.std[x]
      BY <1>1, <1>3, TopKeeps, OriginalNow
    <2>. HIDE DEF g, f, n
    <2>4. Cut(n, g)
      BY <2>1, TopFacts, SubSeqSetCuts
    <2>5. Begun(fds', g) /\ \A std : Keeps(fds', g, std)
      BY <1>1, <2>2, <2>3 DEF Begun, Keeps
    <2>. QED  BY <1>1, <1>4, <2>4, <2>5, KeptCut
  <1>. QED  BY <1>1, <1>2, <1>5, <1>6, WaitedStep

LEMMA InitKept == ASSUME Init PROVE Kept
  <1>. DEFINE f == List("top", [x \in 0 .. 2 |-> Tty])
  <1>1. stack = <<f>> /\ fds = [NoTable EXCEPT ![0] = Terminal, ![1] = Terminal, ![2] = Terminal]
    BY DEF Init
  <1>2. \A x \in 0 .. 2 : fds[x].file = Tty
    <2>1. NoTable = [x \in Fd |-> Closed]
      BY DEF NoTable, Fd
    <2>2. fds[0] = Terminal /\ fds[1] = Terminal /\ fds[2] = Terminal
      BY <1>1, <2>1, FdFacts
    <2>. QED  BY <2>2, StdFds DEF Terminal
  <1>3. f.std = [x \in 0 .. 2 |-> Tty]
    BY DEF List
  <1>. HIDE DEF f
  <1>4. Len(stack) = 1 /\ Top = f
    BY <1>1 DEF Top
  <1>5. Begun(fds, f)
    BY <1>2, <1>3 DEF Begun
  <1>. QED  BY <1>4, <1>5 DEF Kept

\* A jump leaves what the pipelines above its target were to put back.
LEMMA KeptStep == ASSUME ~jumped', Shape, Held, Kept, [Next]_vars PROVE Kept'
  <1>. SUFFICES ASSUME ~failed', shell' = "alive" PROVE Kept'
    BY DEF Kept
  <1>1. ASSUME NEW n \in 1 .. MaxCmds, NEW kinds \in [1 .. n -> Kind], NEW negate \in Negations,
               StartPipeline(kinds, negate)
        PROVE  Kept'
    BY <1>1, StartPipelineKept
  <1>2. CASE MakePipe \/ SaveDescriptor \/ RestoreDescriptors \/ NextCommand
    BY <1>2, MakePipeKept, SaveDescriptorKept, RestoreDescriptorsKept, NextCommandKept
  <1>3. CASE PipeFails \/ SaveFails
    BY <1>3 DEF PipeFails, SaveFails
  <1>4. CASE InputRedirection \/ OutputRedirection
    BY <1>4, RedirectionKept
  <1>5. CASE Runs
    BY <1>5, CommandKept
  <1>6. CASE EnterGroup \/ EndGroup
    BY <1>6, EnterGroupKept, EndGroupKept
  <1>7. CASE Waits
    BY <1>7, WaitsKept
  <1>8. CASE BeginSubstitution \/ EndSubstitution \/ ReadEnd
    BY <1>8, BeginSubstitutionKept, EndSubstitutionKept, ReadEndKept
  <1>9. CASE RedirectionAborts \/ SubstitutionAborts
    BY <1>9 DEF RedirectionAborts, SubstitutionAborts
  <1>10. CASE (\E status \in Code : Exit(status)) \/ Break
    BY <1>10, ExitAs, BreakAs DEF Jumps
  <1>11. CASE UNCHANGED <<shell, fds, stack, failed>>
    BY <1>11 DEF Kept, Top
  <1>12. CASE ReadByte
    BY <1>11, <1>12 DEF ReadByte
  <1>13. ASSUME NEW p \in DOMAIN procs, ProcStep(p)
         PROVE  Kept'
    BY <1>11, <1>13, ProcStepAs
  <1>14. CASE UNCHANGED vars
    BY <1>11, <1>14 DEF vars
  <1>. QED  BY <1>1, <1>2, <1>3, <1>4, <1>5, <1>6, <1>7, <1>8, <1>9, <1>10, <1>12, <1>13, <1>14
       DEF Next, ShellStep, Runs, Waits

\* Between two pipelines of a list 0, 1 and 2 are open on what they were open
\* on when the list began, whatever rl_exec_simple_cmd, rl_exec_shell_cmd and
\* __exp_cmd_substitution put on them meanwhile, until a jump of exit, break or
\* continue leaves a pipeline before it has put them back.
THEOREM StdIsRestored == Spec => []StdRestored
  <1>1. Init => Kept
    BY InitKept
  <1>2. Descriptors /\ (jumped \/ Kept) /\ [Next]_vars => (jumped \/ Kept)'
    BY KeptStep, JumpedStays DEF Descriptors
  <1>3. Descriptors /\ (jumped \/ Kept) => StdRestored
    <2>1. SUFFICES ASSUME Descriptors, Kept, InList, ~failed
                   PROVE  Std(fds) = Top.std
      BY DEF StdRestored
    <2>2. Top \in ListFrame /\ Top.type # "pipeline" /\ Top.phase = "run"
      BY <2>1, ListAt DEF Descriptors
    <2>3. \A x \in 0 .. 2 : fds[x].file = Top.std[x]
      BY <2>1, <2>2 DEF Kept, Begun, InList
    <2>4. Top.std \in [0 .. 2 -> AnyFile]
      BY <2>2 DEF ListFrame
    <2>. QED  BY <2>3, <2>4 DEF Std
  <1>. QED  BY <1>1, <1>2, <1>3, DescriptorsHold, PTL DEF Spec

=============================================================================
