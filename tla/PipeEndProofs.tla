---------------------------- MODULE PipeEndProofs ----------------------------
(***************************************************************************)
(* Theorems about Pipeline, continued: the ends of the pipes.  Whether a   *)
(* write finds a reader, and a read an end, depends on the descriptors     *)
(* the shell itself has open: what its standard output is on, and what the *)
(* frames of the stack will put there later.                               *)
(*                                                                         *)
(* Heard says that each write end which is, or will be, standard output    *)
(* has its reader.  Open says what is still open when the shell waits:     *)
(* frames below a pipeline hold older pipes only (Older), nothing is ever  *)
(* written to the last pipe (LastMuted), and a descriptor that no frame    *)
(* will close is a read end whose pipe is silent (LeaksSpent).             *)
(* Counted says how many such descriptors there are.                       *)
(***************************************************************************)
EXTENDS DescriptorProofs

----------------------------------------------------------------------------
(* Standard output is heard *)

\* Descriptors a frame may close while the pipe they are on is written to.
Loose(f) == IF f.type = "pipeline" THEN HeldBy(f) ELSE {}

\* Descriptors a frame will put on standard output.
Outs(f) ==
    IF f.type = "pipeline" THEN {x \in {f.saved[2]} : Len(f.saved) >= 2}
    ELSE {x \in {f.saved} : f.type = "subst" /\ f.saved # -1 /\ f.phase = "run"}

Above(s, i) == UNION {Loose(s[j]) : j \in i .. Len(s)}

\* A frame's pipe is one made since the frame began.
PipeKept(t, f) ==
    f.type = "pipeline" /\ HoldsPipe(f) =>
        \E p \in Nat : p > f.first /\ t[f.fd[1]].file = Reader(p) /\ t[f.fd[2]].file = Writer(p)

\* Standard output is the pipeline's own, or cannot be put back for want of a
\* descriptor.
Full(t, f) ==
    /\ f.type = "pipeline"
    /\ \/ Len(f.saved) >= 2
       \/ f.phase = "next" /\ Free(t) = {}
       \/ f.phase = "pipe" /\ \E y \in Fd : Free(t) \subseteq {y}

Own(t, f) == IF Full(t, f) THEN {} ELSE Loose(f)

\* If file is the write end of a pipe, the read end is open and not one of S.
HeardBut(t, file, S) ==
    /\ file[1] # "read"
    /\ file[1] = "write" => \E x \in Fd \ S : x > 2 /\ t[x].file = Reader(file[2])

Heard ==
    shell = "alive" =>
        /\ \A i \in 1 .. Len(stack) : PipeKept(fds, stack[i])
        /\ \A i \in 1 .. Len(stack) : \A s \in Outs(stack[i]) :
             HeardBut(fds, fds[s].file, Above(stack, i))
        /\ HeardBut(fds, fds[1].file, Own(fds, Top))

----------------------------------------------------------------------------
LEMMA HeardStill ==
    ASSUME NEW t, NEW u, NEW f, NEW S, NEW R, HeardBut(t, f, S),
           \A x \in Fd \ S : f[1] = "write" /\ x > 2 /\ t[x].file = Reader(f[2]) =>
               u[x].file = t[x].file /\ x \notin R
    PROVE  HeardBut(u, f, R)
  BY DEF HeardBut

LEMMA OutsHeld ==
    ASSUME Shape, NEW i \in 1 .. Len(stack), NEW s \in Outs(stack[i])
    PROVE  s \in HeldBy(stack[i])
  <1>1. FrameOK(stack[i], Len(procs), Len(pipes))
    BY DEF Shape, Stacked
  <1>2. CASE stack[i].type = "pipeline"
    <2>1. Len(stack[i].saved) \in Nat
      BY <1>1, <1>2, FieldsOf DEF FrameOK, PipelineOK
    <2>2. Len(stack[i].saved) >= 2 /\ s = stack[i].saved[2]
      BY <1>2 DEF Outs
    <2>3. 2 \in 1 .. Len(stack[i].saved)
      BY <2>1, <2>2
    <2>. QED  BY <1>2, <2>2, <2>3 DEF HeldBy
  <1>3. CASE stack[i].type # "pipeline"
    BY <1>3 DEF Outs, HeldBy
  <1>. QED  BY <1>2, <1>3

\* An open write end is one of a pipe.
LEMMA WriteEnd ==
    ASSUME NEW n, NEW t \in Table(n), NEW x \in Fd, t[x].file[1] = "write"
    PROVE  t[x].file = Writer(t[x].file[2]) /\ Holds(t, Writer(t[x].file[2]))
  <1>1. t[x].file \in Files(n) \cup {NoFile}
    BY FileOf
  <1>2. t[x].file = Writer(t[x].file[2])
    BY <1>1 DEF Files, Tty, File, NoFile, Writer
  <1>3. DOMAIN t = Fd
    BY DEF Table
  <1>. QED  BY <1>2, <1>3 DEF Holds

LEMMA ReaderIsOpen ==
    ASSUME NEW n, NEW t \in Table(n), NEW x \in Fd, NEW p, t[x].file = Reader(p)
    PROVE  x \notin Free(t) /\ t[x] # Closed
  BY ClosedIsFree DEF Reader, Closed

\* The read ends that a step leaves open.
Listening ==
    \A x \in Fd \ Loose(Top) : \A p \in Nat :
        x > 2 /\ fds[x].file = Reader(p) /\ Holds(fds, Writer(p)) => fds'[x] = fds[x]

LEMMA PipelineListens ==
    ASSUME Shape, Held, shell = "alive", Top.type = "pipeline", OnlyTop
    PROVE  Listening
  <1>1. fds \in Table(Len(pipes))
    BY HeldAt
  <1>. QED  BY <1>1, ReaderIsOpen DEF Listening, Loose, OnlyTop

\* The file of a descriptor is a file of the type.
LEMMA PipeNumber ==
    ASSUME Shape, NEW x \in Fd, fds[x].file[1] = "write"
    PROVE  /\ fds[x].file = Writer(fds[x].file[2]) /\ Holds(fds, Writer(fds[x].file[2]))
           /\ fds[x].file[2] \in Nat
  <1>1. fds \in Table(Len(pipes))
    BY DEF Shape, Typed
  <1>2. fds[x].file \in Files(Len(pipes)) \cup {NoFile}
    BY <1>1, FileOf
  <1>3. fds[x].file[2] \in Nat
    BY <1>2 DEF Files, Tty, File, NoFile
  <1>. QED  BY <1>1, <1>3, WriteEnd

LEMMA HeardCut ==
    ASSUME Shape, Held, Heard, shell = "alive", OnlyTop, Listening, NEW n, NEW g, Cut(n, g),
           Loose(g) \subseteq Loose(stack[n]) \cup Free(fds),
           \A s \in Outs(g) :
               \/ s \in Outs(stack[n]) /\ fds'[s].file = fds[s].file
               \/ n = Len(stack) /\ ~Full(fds, Top) /\ fds'[s].file = fds[1].file,
           PipeKept(fds', g), HeardBut(fds', fds'[1].file, Own(fds', g))
    PROVE  Heard'
  <1>1. n \in 1 .. Len(stack) /\ Len(stack) \in Nat /\ Len(stack') = n /\ stack'[n] = g
        /\ (\A i \in 1 .. n - 1 : stack'[i] = stack[i]) /\ Top' = g
    BY TopFacts, CutTop DEF Cut
  <1>2. fds \in Table(Len(pipes)) /\ Sound /\ Apart
    BY HeldAt
  <1>3. ASSUME NEW i \in 1 .. n, i # n
        PROVE  /\ stack'[i] = stack[i] /\ i \in 1 .. Len(stack) /\ i # Len(stack)
               /\ \A x \in HeldBy(stack[i]) : fds'[x] = fds[x] /\ x \in Fd
    <2>1. stack'[i] = stack[i] /\ i \in 1 .. Len(stack) /\ i # Len(stack)
      BY <1>1, <1>3
    <2>2. \A x \in HeldBy(stack[i]) : fds'[x] = fds[x]
      BY <1>2, <2>1, SoundKept
    <2>3. \A x \in HeldBy(stack[i]) : x \in Fd
      BY <1>2, <2>1 DEF Sound, FrameSound, HeldFd
    <2>. QED  BY <2>1, <2>2, <2>3
  <1>4. ASSUME NEW i \in 1 .. n
        PROVE  PipeKept(fds', stack'[i])
    <2>1. CASE i = n
      BY <1>1, <2>1
    <2>2. CASE i # n
      <3>1. PipeKept(fds, stack[i])
        BY <1>3, <2>2 DEF Heard
      <3>2. stack[i].type = "pipeline" /\ HoldsPipe(stack[i]) =>
              stack[i].fd[1] \in HeldBy(stack[i]) /\ stack[i].fd[2] \in HeldBy(stack[i])
        BY DEF HeldBy
      <3>. QED  BY <1>3, <2>2, <3>1, <3>2 DEF PipeKept
    <2>. QED  BY <2>1, <2>2
  <1>5. ASSUME NEW x \in Fd, NEW p \in Nat, x > 2, fds[x].file = Reader(p), Holds(fds, Writer(p)),
               x \notin Loose(Top)
        PROVE  fds'[x].file = fds[x].file /\ x \notin Free(fds)
    BY <1>2, <1>5, ReaderIsOpen DEF Listening
  <1>6. ASSUME NEW i \in 1 .. n, NEW x \in Fd, x \notin Above(stack, i), x \notin Free(fds)
        PROVE  x \notin Loose(Top) /\ x \notin Above(stack', i)
    <2>1. Len(stack) \in i .. Len(stack) /\ i .. n \subseteq i .. Len(stack)
      BY <1>1
    <2>2. x \notin Loose(Top)
      BY <1>6, <2>1 DEF Above, Top
    <2>3. ASSUME NEW j \in i .. n
          PROVE  x \notin Loose(stack'[j])
      <3>1. x \notin Loose(stack[j])
        BY <1>6, <2>1 DEF Above
      <3>2. j = n \/ stack'[j] = stack[j]
        BY <1>1
      <3>. QED  BY <1>1, <1>6, <3>1, <3>2
    <2>. QED  BY <1>1, <2>2, <2>3 DEF Above
  <1>7. ASSUME NEW i \in 1 .. n, NEW s \in Outs(stack[i]), fds'[s].file = fds[s].file
        PROVE  HeardBut(fds', fds'[s].file, Above(stack', i))
    <2>. DEFINE f == fds[s].file
    <2>1. i \in 1 .. Len(stack)
      BY <1>1
    <2>2. HeardBut(fds, f, Above(stack, i))
      BY <2>1 DEF Heard
    <2>3. s \in Fd
      BY <1>2, <2>1, OutsHeld DEF Sound, FrameSound, HeldFd
    <2>4. f[1] = "write" => Holds(fds, Writer(f[2])) /\ f[2] \in Nat
      BY <2>3, PipeNumber
    <2>. HIDE DEF f
    <2>5. \A x \in Fd \ Above(stack, i) : f[1] = "write" /\ x > 2 /\ fds[x].file = Reader(f[2]) =>
            fds'[x].file = fds[x].file /\ x \notin Above(stack', i)
      <3>1. SUFFICES ASSUME NEW x \in Fd, x \notin Above(stack, i), f[1] = "write", x > 2,
                            fds[x].file = Reader(f[2])
                     PROVE  fds'[x].file = fds[x].file /\ x \notin Above(stack', i)
        OBVIOUS
      <3>2. x \notin Free(fds)
        BY <1>2, <3>1, ReaderIsOpen
      <3>3. x \notin Loose(Top) /\ x \notin Above(stack', i)
        BY <1>6, <3>1, <3>2
      <3>. QED  BY <1>5, <2>4, <3>1, <3>3
    <2>6. HeardBut(fds', f, Above(stack', i))
      BY <2>2, <2>5, HeardStill
    <2>. QED  BY <1>7, <2>6 DEF f
  <1>8. ASSUME NEW s \in Outs(g), n = Len(stack), ~Full(fds, Top), fds'[s].file = fds[1].file
        PROVE  HeardBut(fds', fds'[s].file, Above(stack', n))
    <2>. DEFINE f == fds[1].file
    <2>1. HeardBut(fds, f, Loose(Top))
      BY <1>8 DEF Heard, Own
    <2>2. f[1] = "write" => Holds(fds, Writer(f[2])) /\ f[2] \in Nat
      BY FdFacts, PipeNumber
    <2>. HIDE DEF f
    <2>3. \A x \in Fd \ Loose(Top) : f[1] = "write" /\ x > 2 /\ fds[x].file = Reader(f[2]) =>
            fds'[x].file = fds[x].file /\ x \notin Above(stack', n)
      <3>1. SUFFICES ASSUME NEW x \in Fd, x \notin Loose(Top), f[1] = "write", x > 2,
                            fds[x].file = Reader(f[2])
                     PROVE  fds'[x].file = fds[x].file /\ x \notin Above(stack', n)
        OBVIOUS
      <3>2. fds'[x].file = fds[x].file /\ x \notin Free(fds)
        BY <1>5, <2>2, <3>1
      <3>3. x \notin Above(stack, n)
        <4>1. \A j \in n .. Len(stack) : j = Len(stack)
          BY <1>1, <1>8
        <4>. QED  BY <3>1, <4>1 DEF Above, Top
      <3>. QED  BY <1>1, <1>6, <3>2, <3>3
    <2>4. HeardBut(fds', f, Above(stack', n))
      BY <2>1, <2>3, HeardStill
    <2>. QED  BY <1>8, <2>4 DEF f
  <1>9. ASSUME NEW i \in 1 .. n, NEW s \in Outs(stack'[i])
        PROVE  HeardBut(fds', fds'[s].file, Above(stack', i))
    <2>1. CASE i = n
      BY <1>1, <1>7, <1>8, <1>9, <2>1
    <2>2. CASE i # n
      <3>1. s \in Outs(stack[i]) /\ i \in 1 .. Len(stack)
        BY <1>3, <1>9, <2>2
      <3>2. s \in HeldBy(stack[i])
        BY <3>1, OutsHeld
      <3>. QED  BY <1>3, <1>7, <2>2, <3>1, <3>2
    <2>. QED  BY <2>1, <2>2
  <1>. QED  BY <1>1, <1>4, <1>9 DEF Heard

\* A frame with no pipe and no copies begins above the frame on top.
LEMMA HeardPush ==
    ASSUME Shape, Held, Heard, shell = "alive", NEW g, NEW f, Pushed(g, f),
           \A x \in Fd : x > 2 /\ x \notin Free(fds) => fds'[x] = fds[x],
           PipeKept(fds', g), Outs(g) = Outs(Top), Loose(g) = Loose(Top),
           PipeKept(fds', f), Loose(f) = {},
           \A s \in Outs(f) : fds'[s].file = fds[1].file,
           HeardBut(fds', fds'[1].file, {})
    PROVE  Heard'
  <1>. DEFINE m == Len(stack)
  <1>1. m \in Nat /\ m \in 1 .. m /\ Len(stack') = m + 1 /\ stack'[m + 1] = f /\ stack'[m] = g
        /\ (\A i \in 1 .. m - 1 : stack'[i] = stack[i]) /\ Top = stack[m] /\ Top' = f
    BY TopFacts DEF Pushed, Top
  <1>2. fds \in Table(Len(pipes)) /\ Sound
    BY HeldAt
  <1>3. \A i \in 1 .. Len(stack) : FrameOK(stack[i], Len(procs), Len(pipes))
    BY DEF Shape, Stacked
  <1>4. m = Len(stack)
    OBVIOUS
  <1>. HIDE DEF m
  <1>5. ASSUME NEW i \in 1 .. m
        PROVE  /\ Outs(stack'[i]) = Outs(stack[i]) /\ Loose(stack'[i]) = Loose(stack[i])
               /\ PipeKept(fds', stack'[i])
               /\ \A x \in HeldBy(stack[i]) : fds'[x] = fds[x] /\ x \in Fd
    <2>1. ASSUME NEW x \in HeldBy(stack[i])
          PROVE  fds'[x] = fds[x] /\ x \in Fd
      BY <1>2, <1>4 DEF Sound, FrameSound, HeldFd, Free
    <2>2. CASE i = m
      BY <1>1, <2>1, <2>2
    <2>3. CASE i # m
      <3>1. stack'[i] = stack[i]
        BY <1>1, <2>3
      <3>2. PipeKept(fds, stack[i])
        BY <1>4 DEF Heard
      <3>3. stack[i].type = "pipeline" /\ HoldsPipe(stack[i]) =>
              stack[i].fd[1] \in HeldBy(stack[i]) /\ stack[i].fd[2] \in HeldBy(stack[i])
        BY DEF HeldBy
      <3>. QED  BY <2>1, <3>1, <3>2, <3>3 DEF PipeKept
    <2>. QED  BY <2>2, <2>3
  <1>6. ASSUME NEW i \in 1 .. m, NEW x, x \notin Above(stack, i)
        PROVE  x \notin Above(stack', i)
    <2>1. ASSUME NEW j \in i .. m + 1
          PROVE  x \notin Loose(stack'[j])
      <3>1. CASE j = m + 1
        BY <1>1, <3>1
      <3>2. CASE j # m + 1
        <4>1. j \in 1 .. m /\ j \in i .. Len(stack)
          BY <1>1, <1>4, <3>2
        <4>. QED  BY <1>5, <1>6, <4>1 DEF Above
      <3>. QED  BY <3>1, <3>2
    <2>. QED  BY <1>1, <2>1 DEF Above
  <1>7. ASSUME NEW i \in 1 .. m, NEW s \in Outs(stack'[i])
        PROVE  HeardBut(fds', fds'[s].file, Above(stack', i))
    <2>. DEFINE h == fds[s].file
    <2>1. s \in Outs(stack[i]) /\ i \in 1 .. Len(stack)
      BY <1>4, <1>5, <1>7
    <2>2. HeardBut(fds, h, Above(stack, i))
      BY <2>1 DEF Heard
    <2>3. fds'[s].file = h
      BY <1>5, <2>1, OutsHeld
    <2>. HIDE DEF h
    <2>4. \A x \in Fd \ Above(stack, i) : h[1] = "write" /\ x > 2 /\ fds[x].file = Reader(h[2]) =>
            fds'[x].file = fds[x].file /\ x \notin Above(stack', i)
      BY <1>2, <1>6, ReaderIsOpen
    <2>5. HeardBut(fds', h, Above(stack', i))
      BY <2>2, <2>4, HeardStill
    <2>. QED  BY <2>3, <2>5
  <1>8. ASSUME NEW s \in Outs(f)
        PROVE  HeardBut(fds', fds'[s].file, Above(stack', m + 1))
    <2>. DEFINE h == fds[1].file
    <2>1. HeardBut(fds, h, Own(fds, Top))
      BY DEF Heard
    <2>2. fds'[s].file = h
      OBVIOUS
    <2>. HIDE DEF h
    <2>3. Above(stack', m + 1) = {}
      <3>1. \A j \in m + 1 .. Len(stack') : Loose(stack'[j]) = {}
        BY <1>1
      <3>. QED  BY <3>1 DEF Above
    <2>4. \A x \in Fd \ Own(fds, Top) : h[1] = "write" /\ x > 2 /\ fds[x].file = Reader(h[2]) =>
            fds'[x].file = fds[x].file /\ x \notin Above(stack', m + 1)
      BY <1>2, <2>3, ReaderIsOpen
    <2>5. HeardBut(fds', h, Above(stack', m + 1))
      BY <2>1, <2>4, HeardStill
    <2>. QED  BY <2>2, <2>5
  <1>9. Own(fds', f) = {}
    BY DEF Own
  <1>. QED
    <2>1. \A i \in 1 .. m + 1 : i \in 1 .. m \/ i = m + 1
      BY <1>1
    <2>. QED  BY <1>1, <1>5, <1>7, <1>8, <1>9, <2>1 DEF Heard

\* The step leaves standard output on what it was on, and its reader open.
LEMMA SameOut ==
    ASSUME Shape, Held, Heard, shell = "alive", Top.type = "pipeline",
           NEW n, NEW g, Cut(n, g), fds'[1].file = fds[1].file, OnlyTop,
           Loose(g) \subseteq Loose(Top) \cup Free(fds),
           Full(fds, Top) =>
               /\ Full(fds', g) \/ Loose(g) = {}
               /\ \A x \in Fd : \A p \in Nat : x > 2 /\ fds[x].file = Reader(p) => fds'[x] = fds[x]
    PROVE  HeardBut(fds', fds'[1].file, Own(fds', g))
  <1>. DEFINE f == fds[1].file
  <1>1. HeardBut(fds, f, Own(fds, Top))
    BY DEF Heard
  <1>2. fds \in Table(Len(pipes))
    BY HeldAt
  <1>3. f[1] = "write" => f[2] \in Nat
    BY FdFacts, PipeNumber
  <1>. HIDE DEF f
  <1>4. ASSUME NEW x \in Fd, x \notin Own(fds, Top), f[1] = "write", x > 2, fds[x].file = Reader(f[2])
        PROVE  fds'[x].file = fds[x].file /\ x \notin Own(fds', g)
    <2>1. CASE Full(fds, Top)
      BY <1>3, <1>4, <2>1 DEF Own
    <2>2. CASE ~Full(fds, Top)
      <3>1. x \notin Loose(Top) /\ x \notin Free(fds)
        BY <1>2, <1>4, <2>2, ReaderIsOpen DEF Own
      <3>2. fds'[x] = fds[x]
        BY <1>4, <3>1 DEF OnlyTop, Loose
      <3>. QED  BY <3>1, <3>2 DEF Own
    <2>. QED  BY <2>1, <2>2
  <1>5. HeardBut(fds', f, Own(fds', g))
    BY <1>1, <1>4, HeardStill
  <1>. QED  BY <1>5 DEF f

LEMMA HeardTop ==
    ASSUME Shape, Held, Heard, shell = "alive", Top.type = "pipeline", OnlyTop,
           NEW g, SetTop(g), Loose(g) \subseteq Loose(Top) \cup Free(fds),
           fds'[1].file = fds[1].file,
           \A s \in Outs(g) :
               \/ s \in Outs(Top) /\ fds'[s].file = fds[s].file
               \/ ~Full(fds, Top) /\ fds'[s].file = fds[1].file,
           PipeKept(fds', g),
           Full(fds, Top) =>
               /\ Full(fds', g) \/ Loose(g) = {}
               /\ \A x \in Fd : \A p \in Nat : x > 2 /\ fds[x].file = Reader(p) => fds'[x] = fds[x]
    PROVE  Heard'
  <1>1. Cut(Len(stack), g) /\ Top = stack[Len(stack)]
    BY TopFacts, SetTopCuts
  <1>2. Listening
    BY PipelineListens
  <1>3. HeardBut(fds', fds'[1].file, Own(fds', g))
    BY <1>1, SameOut
  <1>. QED  BY <1>1, <1>2, <1>3, HeardCut

----------------------------------------------------------------------------
(* Each action of the shell keeps standard output heard *)

\* What a pipeline holds, by its phase.
LEMMA HeldByPipeline ==
    ASSUME NEW g, g.type = "pipeline", g.saved = <<>>
    PROVE  /\ g.phase = "pipe" => HeldBy(g) \subseteq {g.in}
           /\ g.phase = "next" => HeldBy(g) = {g.fd[1], g.fd[2]}
           /\ g.phase = "save" => HeldBy(g) \subseteq {g.in, g.fd[1], g.fd[2]}
           /\ g.phase = "wait" => HeldBy(g) = {}
           /\ Outs(g) = {}
  <1>1. Len(g.saved) = 0 /\ 1 .. 0 = {}
    OBVIOUS
  <1>. QED  BY <1>1 DEF HeldBy, HoldsIn, HoldsPipe, Outs

LEMMA MakePipeHeard == ASSUME Shape, Held, Heard, MakePipe PROVE Heard'
  <1>. DEFINE r == Lowest(Free(fds))
              w == Lowest(Free(fds) \ {r})
              p == Len(pipes) + 1
              g == [Top EXCEPT !.fd = <<r, w>>,
                       !.phase = IF Cmd.kind = "fundec" THEN "next" ELSE "save"]
  <1>1. InPipeline("pipe") /\ shell = "alive" /\ SetTop(g)
    BY DEF MakePipe, InPipeline
  <1>2. fds \in Table(Len(pipes)) /\ StdOpen(fds)
    BY <1>1, HeldAt
  <1>3. /\ r \in Free(fds) /\ w \in Free(fds) /\ r # w
        /\ \A x \in Fd :
             fds'[x] = IF x = w THEN [file |-> Writer(p), cloexec |-> TRUE]
                       ELSE IF x = r THEN [file |-> Reader(p), cloexec |-> TRUE] ELSE fds[x]
    BY MakePipeAt
  <1>4. Top.first \in Nat /\ p \in Nat /\ p > Top.first
    <2>1. Len(pipes) \in Nat /\ Top.first \in Nat /\ Top.first <= Len(pipes)
      BY <1>1, PipelineAt, FieldsOf, Counts DEF PipelineOK
    <2>. QED  BY <2>1
  <1>. HIDE DEF r, w, p
  <1>5. Top.type = "pipeline" /\ Top.phase = "pipe" /\ Top.in \in Fd /\ Top.saved = <<>>
    BY <1>1, TopFields
  <1>6. g.type = "pipeline" /\ g.fd[1] = r /\ g.fd[2] = w /\ g.saved = <<>> /\ g.in = Top.in
        /\ g.phase \in {"save", "next"} /\ g.first = Top.first
    <2>1. Top \in PipelineFrame
      BY <1>1, PipelineAt
    <2>. QED  BY <1>5, <2>1 DEF PipelineFrame
  <1>. HIDE DEF g
  <1>7. r \in Fd /\ w \in Fd /\ r > 2 /\ w > 2
    BY <1>2, <1>3, FreeAbove
  <1>8. ~Full(fds, Top)
    <2>1. Len(Top.saved) = 0
      BY <1>5
    <2>. QED  BY <1>3, <1>5, <2>1 DEF Full
  <1>9. HeldBy(g) \subseteq HeldBy(Top) \cup {r, w}
    <2>1. Len(g.saved) = 0 /\ Len(Top.saved) = 0
      BY <1>5, <1>6
    <2>2. HoldsIn(g) => HoldsIn(Top)
      BY <1>5, <1>6 DEF HoldsIn
    <2>. QED  BY <1>5, <1>6, <2>1, <2>2 DEF HeldBy
  <1>10. Loose(g) \subseteq Loose(Top) \cup Free(fds)
    BY <1>3, <1>5, <1>6, <1>9 DEF Loose
  <1>11. Outs(g) = {}
    BY <1>6, HeldByPipeline
  <1>12. PipeKept(fds', g)
    <2>1. fds'[w].file = Writer(p) /\ fds'[r].file = Reader(p)
      BY <1>3, <1>7
    <2>. QED  BY <1>4, <1>6, <2>1 DEF PipeKept
  <1>13. OnlyTop /\ fds'[1] = fds[1]
    BY <1>3, <1>7, FdFacts DEF OnlyTop
  <1>. QED  BY <1>1, <1>5, <1>8, <1>10, <1>11, <1>12, <1>13, HeardTop

\* The frame on top holds no more than before, and the descriptors are the same.
LEMMA SameFdsHeard ==
    ASSUME Shape, Held, Heard, shell = "alive", Top.type = "pipeline", UNCHANGED fds,
           NEW g, SetTop(g), Loose(g) \subseteq Loose(Top),
           Outs(g) \subseteq Outs(Top), PipeKept(fds, g),
           Full(fds, Top) => Full(fds, g) \/ Loose(g) = {}
    PROVE  Heard'
  <1>1. OnlyTop
    BY DEF OnlyTop
  <1>2. PipeKept(fds', g) /\ (Full(fds, Top) => Full(fds', g) \/ Loose(g) = {})
    OBVIOUS
  <1>. QED  BY <1>1, <1>2, HeardTop

LEMMA PipeFailsHeard == ASSUME Shape, Held, Heard, PipeFails PROVE Heard'
  <1>. DEFINE g == [Top EXCEPT !.phase = "wait", !.k = 1]
  <1>1. InPipeline("pipe") /\ shell = "alive" /\ UNCHANGED fds /\ SetTop(g)
    BY DEF PipeFails, InPipeline
  <1>2. Top \in PipelineFrame /\ Top.saved = <<>> /\ Top.type = "pipeline"
    BY <1>1, PipelineAt, TopFields
  <1>3. g.type = "pipeline" /\ g.phase = "wait" /\ g.saved = <<>>
    BY <1>2 DEF PipelineFrame
  <1>. HIDE DEF g
  <1>4. Loose(g) = {} /\ Outs(g) = {}
    BY <1>3, HeldByPipeline DEF Loose
  <1>5. PipeKept(fds, g)
    BY <1>3 DEF PipeKept, HoldsPipe
  <1>. QED  BY <1>1, <1>2, <1>4, <1>5, SameFdsHeard

LEMMA TopKept ==
    ASSUME Shape, Heard, shell = "alive", Top.type = "pipeline", HoldsPipe(Top)
    PROVE  \E p \in Nat : p > Top.first /\ fds[Top.fd[1]].file = Reader(p)
                          /\ fds[Top.fd[2]].file = Writer(p)
  <1>1. PipeKept(fds, Top)
    BY TopFacts DEF Heard
  <1>. QED  BY <1>1 DEF PipeKept

LEMMA SaveFailsHeard == ASSUME Shape, Held, Heard, SaveFails PROVE Heard'
  <1>. DEFINE g == [Top EXCEPT !.phase = "next", !.saved = <<>>]
  <1>1. InPipeline("save") /\ shell = "alive" /\ UNCHANGED fds /\ SetTop(g) /\ Free(fds) = {}
    BY DEF SaveFails, InPipeline
  <1>2. Top \in PipelineFrame /\ Top.type = "pipeline" /\ Top.phase = "save"
    BY <1>1, PipelineAt
  <1>3. g.type = "pipeline" /\ g.phase = "next" /\ g.saved = <<>> /\ g.fd = Top.fd
        /\ g.first = Top.first
    BY <1>2 DEF PipelineFrame
  <1>. HIDE DEF g
  <1>4. HoldsPipe(Top)
    BY <1>2 DEF HoldsPipe
  <1>5. HeldBy(g) = {Top.fd[1], Top.fd[2]} /\ Outs(g) = {}
    BY <1>3, HeldByPipeline
  <1>6. Loose(g) \subseteq Loose(Top)
    BY <1>2, <1>3, <1>4, <1>5 DEF Loose, HeldBy
  <1>7. PipeKept(fds, g)
    BY <1>1, <1>2, <1>3, <1>4, TopKept DEF PipeKept
  <1>8. Full(fds, g)
    BY <1>1, <1>3 DEF Full
  <1>. QED  BY <1>1, <1>2, <1>5, <1>6, <1>7, <1>8, SameFdsHeard

LEMMA NextCommandHeard == ASSUME Shape, Held, Heard, NextCommand PROVE Heard'
  <1>1. InPipeline("next") /\ shell = "alive"
    BY DEF NextCommand, InPipeline
  <1>2. /\ Top.fd[1] \in Fd /\ Top.fd[2] \in Fd
        /\ Top.fd[1] \in HeldBy(Top) /\ Top.fd[2] \in HeldBy(Top)
        /\ HeldFd(fds, Top.fd[2])
        /\ \A x \in Fd : fds'[x] = IF x = Top.fd[2] THEN Closed ELSE fds[x]
    BY NextCommandAt
  <1>3. PICK g : /\ SetTop(g) /\ g.type = "pipeline" /\ g.saved = <<>>
                 /\ g.phase = "wait" \/ (g.phase = "pipe" /\ g.in = Top.fd[1])
    BY NextCommandAt
  <1>4. Top.type = "pipeline" /\ Top.phase = "next" /\ Top.saved = <<>>
    BY <1>1, TopFields
  <1>5. HoldsPipe(Top)
    BY <1>4 DEF HoldsPipe
  <1>6. PICK p \in Nat : fds[Top.fd[2]].file = Writer(p)
    BY <1>1, <1>4, <1>5, TopKept
  <1>7. HeldBy(g) \subseteq {Top.fd[1]} /\ Outs(g) = {} /\ (g.phase = "wait" => HeldBy(g) = {})
    BY <1>3, HeldByPipeline
  <1>8. Loose(g) \subseteq Loose(Top) /\ (g.phase = "wait" => Loose(g) = {})
    BY <1>2, <1>3, <1>4, <1>7 DEF Loose
  <1>9. PipeKept(fds', g)
    BY <1>3 DEF PipeKept, HoldsPipe
  <1>10. OnlyTop /\ fds'[1] = fds[1]
    BY <1>2, FdFacts DEF OnlyTop, HeldFd
  <1>11. Full(fds, Top) => Full(fds', g) \/ Loose(g) = {}
    <2>1. SUFFICES ASSUME Full(fds, Top), g.phase = "pipe"
                   PROVE  Full(fds', g)
      BY <1>3, <1>8
    <2>2. Free(fds) = {}
      <3>1. Len(Top.saved) = 0
        BY <1>4
      <3>. QED  BY <1>4, <2>1, <3>1 DEF Full
    <2>3. Free(fds') \subseteq {Top.fd[2]}
      <3>1. fds \in Table(Len(pipes)) /\ fds' \in Table(Len(pipes'))
        BY NextShape DEF Shape, Typed, Next, ShellStep
      <3>. QED  BY <1>2, <2>2, <3>1 DEF Free, Table
    <2>. QED  BY <1>2, <1>3, <2>1, <2>3 DEF Full
  <1>12. \A x \in Fd : \A q \in Nat : x > 2 /\ fds[x].file = Reader(q) => fds'[x] = fds[x]
    BY <1>2, <1>6 DEF Reader, Writer
  <1>. QED  BY <1>1, <1>3, <1>4, <1>7, <1>8, <1>9, <1>10, <1>11, <1>12, HeardTop

LEMMA CommandHeard == ASSUME Shape, Held, Heard, Runs PROVE Heard'
  <1>1. UNCHANGED fds /\ shell = "alive" /\ Top.type = "pipeline" /\ Top.phase \in {"args", "builtin"}
    BY CommandAs
  <1>2. PICK g : RunsAs(g)
    BY CommandAs
  <1>3. SetTop(g) /\ g.type = "pipeline" /\ g.fd = Top.fd /\ g.saved = Top.saved
        /\ g.in = Top.in /\ g.phase \in {"builtin", "restore"} /\ g.first = Top.first
    BY <1>2 DEF RunsAs
  <1>4. (HoldsIn(Top) <=> HoldsIn(g)) /\ (HoldsPipe(Top) <=> HoldsPipe(g)) /\ HoldsPipe(Top)
    BY <1>1, <1>3 DEF HoldsIn, HoldsPipe
  <1>5. HeldBy(g) = HeldBy(Top)
    BY <1>1, <1>3, <1>4, SameHolder
  <1>6. Loose(g) = Loose(Top) /\ Outs(g) = Outs(Top)
    BY <1>1, <1>3, <1>5 DEF Loose, Outs
  <1>7. PipeKept(fds, g)
    BY <1>1, <1>3, <1>4, TopKept DEF PipeKept
  <1>8. Full(fds, Top) => Full(fds, g)
    BY <1>1, <1>3 DEF Full
  <1>. QED  BY <1>1, <1>3, <1>6, <1>7, <1>8, SameFdsHeard

\* One more descriptor is saved, on one that was closed.
Saves(g, n) ==
    /\ SetTop(g) /\ g.type = "pipeline" /\ g.fd = Top.fd /\ g.first = Top.first
    /\ g.phase \in {"save", "args"} /\ HoldsPipe(g) /\ ~HoldsIn(g)
    /\ Len(g.saved) = Len(Top.saved) + 1 /\ g.saved[Len(Top.saved) + 1] = n
    /\ \A j \in 1 .. Len(Top.saved) : g.saved[j] = Top.saved[j]

LEMMA SaveAs ==
    ASSUME Shape, Held, SaveDescriptor
    PROVE  Saves([Top EXCEPT !.saved = Append(@, Lowest(Free(fds))),
                             !.phase = IF Len(Top.saved) = 2 THEN "args" ELSE "save"],
                 Lowest(Free(fds)))
  <1>. DEFINE i == Len(Top.saved)
              n == Lowest(Free(fds))
              g == [Top EXCEPT !.saved = Append(@, n),
                               !.phase = IF i = 2 THEN "args" ELSE "save"]
  <1>1. InPipeline("save") /\ SetTop(g)
    BY DEF SaveDescriptor
  <1>2. Top \in PipelineFrame /\ Top.type = "pipeline" /\ Top.phase = "save"
        /\ Top.saved \in Seq(Fd)
    BY <1>1, TopFields, PipelineAt
  <1>3. g.type = "pipeline" /\ g.fd = Top.fd /\ g.saved = Append(Top.saved, n)
        /\ g.phase \in {"args", "save"} /\ g.in = Top.in /\ g.first = Top.first
    BY <1>2 DEF PipelineFrame
  <1>4. n \in Fd
    BY SaveAt, FreeFacts DEF Shape, Typed
  <1>. HIDE DEF g, n
  <1>5. /\ Len(g.saved) = i + 1 /\ i \in Nat /\ g.saved[i + 1] = n
        /\ \A j \in 1 .. i : g.saved[j] = Top.saved[j]
    BY <1>2, <1>3, <1>4
  <1>. HIDE DEF i
  <1>6. HoldsPipe(g) /\ ~HoldsIn(g)
    BY <1>3, <1>5 DEF HoldsPipe, HoldsIn
  <1>7. Saves(g, n)
    BY <1>1, <1>3, <1>5, <1>6 DEF Saves, i
  <1>. QED  BY <1>7 DEF g, n, i

LEMMA SavesHolds ==
    ASSUME Top.type = "pipeline", HoldsPipe(Top), Len(Top.saved) \in Nat, NEW g, NEW n, Saves(g, n)
    PROVE  HeldBy(g) \subseteq HeldBy(Top) \cup {n}
  <1>. DEFINE i == Len(Top.saved)
  <1>1. /\ g.type = "pipeline" /\ g.fd = Top.fd /\ HoldsPipe(g) /\ ~HoldsIn(g)
        /\ Len(g.saved) = i + 1 /\ g.saved[i + 1] = n
        /\ \A j \in 1 .. i : g.saved[j] = Top.saved[j]
    BY DEF Saves
  <1>2. i \in Nat
    OBVIOUS
  <1>3. \A j \in 1 .. i : Top.saved[j] \in HeldBy(Top)
    BY DEF HeldBy
  <1>4. Top.fd[1] \in HeldBy(Top) /\ Top.fd[2] \in HeldBy(Top)
    BY DEF HeldBy
  <1>. HIDE DEF i
  <1>5. \A j \in 1 .. i + 1 : j \in 1 .. i \/ j = i + 1
    BY <1>2
  <1>6. \A j \in 1 .. i + 1 : g.saved[j] \in HeldBy(Top) \cup {n}
    BY <1>1, <1>3, <1>5
  <1>. QED  BY <1>1, <1>4, <1>6 DEF HeldBy

LEMMA SaveDescriptorHeard == ASSUME Shape, Held, Heard, SaveDescriptor PROVE Heard'
  <1>. DEFINE i  == Len(Top.saved)
              n  == Lowest(Free(fds))
              to == Target(Top, i)
              g  == [Top EXCEPT !.saved = Append(@, n),
                                !.phase = IF i = 2 THEN "args" ELSE "save"]
  <1>1. InPipeline("save") /\ shell = "alive"
    BY DEF SaveDescriptor, InPipeline
  <1>2. fds \in Table(Len(pipes)) /\ StdOpen(fds) /\ FrameSound(fds, Top)
    BY <1>1, HeldAt
  <1>3. Top.type = "pipeline" /\ Top.phase = "save" /\ Top.fd[1] \in Fd /\ Top.fd[2] \in Fd
        /\ i \in 0 .. 2
    BY <1>1, TopFields
  <1>4. /\ n \in Free(fds) /\ to \in Fd
        /\ to = i \/ (to \in HeldBy(Top) /\ to > 2)
        /\ i = 0 /\ to # 0 => to = Top.in /\ HoldsIn(Top)
        /\ i # 0 => to = i \/ to = Top.fd[2]
        /\ \A x \in Fd :
             fds'[x] = IF x = n THEN [file |-> fds[i].file, cloexec |-> TRUE]
                       ELSE IF x = i /\ to # i
                         THEN [file |-> fds[to].file, cloexec |-> FALSE]
                       ELSE IF x = to /\ to # i /\ i = 0 THEN Closed
                       ELSE fds[x]
    BY SaveAt
  <1>5. i = 2 => to = 2
    BY DEF Target
  <1>6. Saves(g, n)
    BY SaveAs
  <1>7. HoldsPipe(Top)
    BY <1>3 DEF HoldsPipe
  <1>8. PICK p \in Nat : p > Top.first /\ fds[Top.fd[1]].file = Reader(p)
                         /\ fds[Top.fd[2]].file = Writer(p)
    BY <1>1, <1>3, <1>7, TopKept
  <1>9. i = 0 \/ i = 1 \/ i = 2
    BY <1>3
  <1>. HIDE DEF g, n, to
  <1>10. HeldBy(g) \subseteq HeldBy(Top) \cup {n}
    BY <1>3, <1>6, <1>7, SavesHolds
  <1>11. /\ SetTop(g) /\ g.type = "pipeline" /\ g.fd = Top.fd /\ g.first = Top.first
         /\ g.phase \in {"save", "args"} /\ Len(g.saved) = i + 1 /\ g.saved[i + 1] = n
         /\ \A j \in 1 .. i : g.saved[j] = Top.saved[j]
    BY <1>6 DEF Saves
  <1>12. i = Len(Top.saved) /\ 2 \in 1 .. 2
    OBVIOUS
  <1>. HIDE DEF i
  <1>13. Loose(g) \subseteq Loose(Top) \cup Free(fds)
    BY <1>3, <1>4, <1>10, <1>11 DEF Loose
  <1>14. n \in Fd /\ n > 2
    BY <1>2, <1>4, FreeAbove
  <1>15. /\ \A x \in HeldBy(Top) : HeldFd(fds, x) /\ x # n
         /\ Top.fd[1] \in HeldBy(Top) /\ Top.fd[2] \in HeldBy(Top)
         /\ HoldsIn(Top) => Top.in \notin {Top.fd[1], Top.fd[2]}
    <2>1. \A x \in HeldBy(Top) : HeldFd(fds, x)
      BY <1>2 DEF FrameSound
    <2>2. \A x \in HeldBy(Top) : x # n
      BY <1>2, <1>4, <1>14, <2>1, ClosedIsFree DEF HeldFd
    <2>3. Top.fd[1] \in HeldBy(Top) /\ Top.fd[2] \in HeldBy(Top)
      BY <1>3, <1>7 DEF HeldBy
    <2>4. HoldsIn(Top) => Top.in \notin {Top.fd[1], Top.fd[2]}
      BY <1>2, <1>3, <1>7 DEF FrameSound, Distinct
    <2>. QED  BY <2>1, <2>2, <2>3, <2>4
  <1>16. Top.fd[1] > 2 /\ Top.fd[2] > 2
    BY <1>15 DEF HeldFd
  <1>17. fds'[Top.fd[1]] = fds[Top.fd[1]] /\ fds'[Top.fd[2]] = fds[Top.fd[2]]
    BY <1>3, <1>4, <1>9, <1>15, <1>16
  <1>18. PipeKept(fds', g)
    BY <1>8, <1>11, <1>17 DEF PipeKept
  <1>19. OnlyTop
    <2>1. \A x \in Fd : x > 2 => x # i
      BY <1>9
    <2>. QED  BY <1>4, <2>1 DEF OnlyTop
  <1>20. CASE i = 0
    <2>1. ~Full(fds, Top)
      BY <1>3, <1>12, <1>20 DEF Full
    <2>2. fds'[1] = fds[1]
      BY <1>4, <1>14, <1>20, FdFacts
    <2>3. Outs(g) = {}
      BY <1>11, <1>20 DEF Outs
    <2>. QED  BY <1>1, <1>3, <1>11, <1>13, <1>18, <1>19, <2>1, <2>2, <2>3, HeardTop
  <1>21. CASE i = 1
    <2>1. ~Full(fds, Top)
      BY <1>3, <1>12, <1>21 DEF Full
    <2>2. \A s \in Outs(g) : s = n
      BY <1>11, <1>21 DEF Outs
    <2>3. fds'[n].file = fds[1].file
      BY <1>4, <1>14, <1>21
    <2>4. CASE to = 1
      <3>1. fds'[1] = fds[1]
        BY <1>4, <1>14, <1>21, <2>4, FdFacts
      <3>. QED  BY <1>1, <1>3, <1>11, <1>13, <1>18, <1>19, <2>1, <2>2, <2>3, <3>1, HeardTop
    <2>5. CASE to # 1
      <3>1. fds'[1].file = Writer(p)
        <4>1. 1 \in Fd /\ 1 # n
          BY <1>14, FdFacts
        <4>2. fds'[1] = [file |-> fds[to].file, cloexec |-> FALSE]
          BY <1>4, <1>21, <2>5, <4>1
        <4>. QED  BY <1>4, <1>8, <1>21, <2>5, <4>2
      <3>2. Full(fds', g) /\ Own(fds', g) = {}
        <4>1. Full(fds', g)
          BY <1>11, <1>21 DEF Full
        <4>. QED  BY <4>1 DEF Own
      <3>3. HeardBut(fds', Writer(p), {})
        BY <1>3, <1>8, <1>16, <1>17 DEF HeardBut, Writer, Reader
      <3>4. Cut(Len(stack), g) /\ Top = stack[Len(stack)]
        BY <1>11, TopFacts, SetTopCuts
      <3>5. Listening
        BY <1>1, <1>3, <1>19, PipelineListens
      <3>6. HeardBut(fds', fds'[1].file, Own(fds', g))
        BY <3>1, <3>2, <3>3
      <3>. QED  BY <1>1, <1>13, <1>18, <1>19, <2>1, <2>2, <2>3, <3>4, <3>5, <3>6, HeardCut
    <2>. QED  BY <2>4, <2>5
  <1>22. CASE i = 2
    <2>1. Full(fds', g)
      BY <1>11, <1>22 DEF Full
    <2>2. fds'[1] = fds[1]
      BY <1>4, <1>5, <1>14, <1>22, FdFacts
    <2>3. Outs(g) = Outs(Top)
      BY <1>3, <1>11, <1>12, <1>22 DEF Outs
    <2>4. \A x \in Fd : x # n => fds'[x] = fds[x]
      BY <1>4, <1>5, <1>22
    <2>5. \A s \in Outs(Top) : s \in HeldBy(Top)
      BY <1>3, <1>12, <1>22 DEF Outs, HeldBy
    <2>6. \A s \in Outs(g) : s \in Outs(Top) /\ fds'[s].file = fds[s].file
      BY <1>15, <2>3, <2>4, <2>5 DEF HeldFd
    <2>7. \A x \in Fd : \A q \in Nat : x > 2 /\ fds[x].file = Reader(q) => fds'[x] = fds[x]
      BY <1>2, <1>4, <2>4, ReaderIsOpen
    <2>. QED  BY <1>1, <1>3, <1>11, <1>13, <1>18, <1>19, <2>1, <2>2, <2>6, <2>7, HeardTop
  <1>. QED  BY <1>9, <1>20, <1>21, <1>22

LEMMA RestoreDescriptorsHeard == ASSUME Shape, Held, Heard, RestoreDescriptors PROVE Heard'
  <1>. DEFINE g == [Top EXCEPT !.phase = "next", !.saved = <<>>]
              S == {Top.saved[1], Top.saved[2], Top.saved[3]}
  <1>1. InPipeline("restore") /\ shell = "alive" /\ SetTop(g)
    BY DEF RestoreDescriptors, InPipeline
  <1>2. fds \in Table(Len(pipes)) /\ FrameSound(fds, Top)
    BY <1>1, HeldAt
  <1>3. Top \in PipelineFrame /\ Top.type = "pipeline" /\ Top.phase = "restore" /\ Len(Top.saved) = 3
    BY <1>1, PipelineAt, TopFields
  <1>4. g.type = "pipeline" /\ g.phase = "next" /\ g.saved = <<>> /\ g.fd = Top.fd
        /\ g.first = Top.first
    BY <1>3 DEF PipelineFrame
  <1>. HIDE DEF g
  <1>5. HoldsPipe(Top)
    BY <1>3 DEF HoldsPipe
  <1>6. /\ \A j \in 1 .. 3 : Top.saved[j] \in Fd /\ Top.saved[j] > 2 /\ fds[Top.saved[j]] # Closed
                             /\ Top.saved[j] \in HeldBy(Top)
        /\ \A x \in Fd :
             fds'[x] = IF x \in S THEN Closed
                       ELSE IF x = 0 THEN [file |-> fds[Top.saved[1]].file, cloexec |-> FALSE]
                       ELSE IF x = 1 THEN [file |-> fds[Top.saved[2]].file, cloexec |-> FALSE]
                       ELSE IF x = 2 THEN [file |-> fds[Top.saved[3]].file, cloexec |-> FALSE]
                       ELSE fds[x]
    BY RestoreDescriptorsAt
  <1>7. /\ \A j \in 1 .. 3 : Top.saved[j] \notin {Top.fd[1], Top.fd[2]}
        /\ Top.fd[1] \in HeldBy(Top) /\ Top.fd[2] \in HeldBy(Top)
    BY <1>2, <1>3, <1>5, SavedHeld
  <1>8. 1 \in 1 .. 3 /\ 2 \in 1 .. 3 /\ 3 \in 1 .. 3
    OBVIOUS
  <1>9. \A x \in S : x > 2 /\ x \in HeldBy(Top) /\ x \notin {Top.fd[1], Top.fd[2]}
    BY <1>6, <1>7, <1>8
  <1>10. fds'[1].file = fds[Top.saved[2]].file
    BY <1>6, <1>9, FdFacts
  <1>. HIDE DEF S
  <1>11. \A x \in Fd : x > 2 /\ x \notin S => fds'[x] = fds[x]
    BY <1>6
  <1>12. OnlyTop
    BY <1>9, <1>11 DEF OnlyTop
  <1>13. HeldBy(g) = {Top.fd[1], Top.fd[2]} /\ Outs(g) = {}
    BY <1>4, HeldByPipeline
  <1>14. Loose(g) \subseteq Loose(Top)
    BY <1>3, <1>4, <1>7, <1>13 DEF Loose
  <1>15. PipeKept(fds', g)
    <2>1. HeldFd(fds, Top.fd[1]) /\ HeldFd(fds, Top.fd[2])
      BY <1>2, <1>7 DEF FrameSound
    <2>2. fds'[Top.fd[1]] = fds[Top.fd[1]] /\ fds'[Top.fd[2]] = fds[Top.fd[2]]
      BY <1>9, <1>11, <2>1 DEF HeldFd
    <2>. QED  BY <1>1, <1>3, <1>4, <1>5, <2>2, TopKept DEF PipeKept
  <1>16. Cut(Len(stack), g) /\ Top = stack[Len(stack)] /\ Len(stack) \in 1 .. Len(stack)
    BY <1>1, TopFacts, SetTopCuts
  <1>. DEFINE f == fds[Top.saved[2]].file
  <1>17. HeardBut(fds, f, Above(stack, Len(stack)))
    <2>1. Top.saved[2] \in Outs(Top)
      BY <1>3 DEF Outs
    <2>. QED  BY <1>1, <1>16, <2>1 DEF Heard
  <1>18. fds'[1].file = f
    BY <1>10
  <1>. HIDE DEF f
  <1>19. HeardBut(fds', f, Own(fds', g))
    <2>1. \A x \in Fd : x \notin Above(stack, Len(stack)) => x \notin Loose(Top)
      <3>1. Len(stack) \in Len(stack) .. Len(stack)
        BY TopFacts
      <3>. QED  BY <1>16, <3>1 DEF Above
    <2>2. \A x \in Fd : x > 2 /\ x \notin Loose(Top) => fds'[x] = fds[x] /\ x \notin Own(fds', g)
      BY <1>3, <1>9, <1>11, <1>14 DEF Loose, Own
    <2>3. \A x \in Fd \ Above(stack, Len(stack)) :
            f[1] = "write" /\ x > 2 /\ fds[x].file = Reader(f[2]) =>
              fds'[x].file = fds[x].file /\ x \notin Own(fds', g)
      BY <2>1, <2>2
    <2>. QED  BY <1>17, <2>3, HeardStill
  <1>20. Listening
    BY <1>1, <1>3, <1>12, PipelineListens
  <1>21. HeardBut(fds', fds'[1].file, Own(fds', g))
    BY <1>18, <1>19
  <1>. QED  BY <1>1, <1>12, <1>13, <1>14, <1>15, <1>16, <1>20, <1>21, HeardCut

LEMMA RedirectionHeard ==
    ASSUME Shape, Held, Heard, InputRedirection \/ OutputRedirection PROVE Heard'
  <1>1. shell = "alive" /\ UNCHANGED <<shell, stack>> /\ InPipeline("args")
    <2>1. CASE InputRedirection
      <3>1. InPipeline("args") /\ UNCHANGED <<shell, stack>>
        BY <2>1 DEF InputRedirection
      <3>. QED  BY <3>1 DEF InPipeline
    <2>2. CASE OutputRedirection
      <3>1. InPipeline("args") /\ UNCHANGED <<shell, stack>>
        BY <2>2 DEF OutputRedirection
      <3>. QED  BY <3>1 DEF InPipeline
    <2>. QED  BY <2>1, <2>2
  <1>2. fds \in Table(Len(pipes)) /\ StdOpen(fds) /\ FrameSound(fds, Top)
    BY <1>1, HeldAt
  <1>3. /\ \A x \in Fd : x > 2 /\ x \notin Free(fds) => fds'[x] = fds[x]
        /\ fds'[1].file \in {fds[1].file, File}
    <2>. DEFINE c == [file |-> File, cloexec |-> FALSE]
    <2>0. c.file = File
      OBVIOUS
    <2>1. CASE InputRedirection
      <3>1. PICK n \in Free(fds) : \A x \in Fd : fds'[x] = IF x = n \/ x = 0 THEN c ELSE fds[x]
        BY <2>1, InputRedirectionAt
      <3>2. 1 # n /\ 1 \in Fd
        BY <1>2, FdFacts, FreeAbove
      <3>. HIDE DEF c
      <3>. QED  BY <3>1, <3>2
    <2>2. CASE OutputRedirection
      <3>1. \A x \in Fd : fds'[x] = IF x = 1 THEN c ELSE fds[x]
        BY <2>2, OutputRedirectionAt
      <3>. HIDE DEF c
      <3>. QED  BY <2>0, <3>1, FdFacts
    <2>. QED  BY <2>1, <2>2
  <1>4. OnlyTop
    BY <1>3 DEF OnlyTop
  <1>5. Top.type = "pipeline" /\ Len(Top.saved) = 3 /\ Top.phase = "args"
    BY <1>1, TopFields
  <1>6. HoldsPipe(Top)
    BY <1>5 DEF HoldsPipe
  <1>7. \A x \in HeldBy(Top) : fds'[x] = fds[x]
    BY <1>2, <1>3 DEF FrameSound, HeldFd, Free
  <1>8. PipeKept(fds', Top)
    <2>1. Top.fd[1] \in HeldBy(Top) /\ Top.fd[2] \in HeldBy(Top)
      BY <1>5, <1>6 DEF HeldBy
    <2>. QED  BY <1>1, <1>5, <1>6, <1>7, <2>1, TopKept DEF PipeKept
  <1>9. Cut(Len(stack), Top) /\ Top = stack[Len(stack)] /\ Len(stack) \in 1 .. Len(stack)
    BY <1>1, TopFacts DEF Cut
  <1>10. \A s \in Outs(Top) : fds'[s].file = fds[s].file
    BY <1>7, <1>9, OutsHeld
  <1>11. HeardBut(fds', fds'[1].file, Own(fds', Top))
    <2>1. Full(fds, Top) /\ Full(fds', Top)
      BY <1>5 DEF Full
    <2>2. CASE fds'[1].file = fds[1].file
      <3>1. \A x \in Fd : \A p \in Nat : x > 2 /\ fds[x].file = Reader(p) => fds'[x] = fds[x]
        BY <1>2, <1>3, ReaderIsOpen
      <3>. QED  BY <1>1, <1>4, <1>5, <1>9, <2>1, <2>2, <3>1, SameOut
    <2>3. CASE fds'[1].file = File
      BY <2>3 DEF HeardBut, File
    <2>. QED  BY <1>3, <2>2, <2>3
  <1>12. Listening
    BY <1>1, <1>4, <1>5, PipelineListens
  <1>. QED  BY <1>1, <1>4, <1>8, <1>9, <1>10, <1>11, <1>12, HeardCut

----------------------------------------------------------------------------
(* Lists begin and end *)

LEMMA OutNow ==
    ASSUME Heard, shell = "alive", fds'[1] = fds[1],
           NEW n, fds \in Table(n), \A x \in Fd : x > 2 /\ x \notin Free(fds) => fds'[x] = fds[x]
    PROVE  HeardBut(fds', fds'[1].file, {})
  <1>. DEFINE f == fds[1].file
  <1>1. HeardBut(fds, f, Own(fds, Top))
    BY DEF Heard
  <1>. HIDE DEF f
  <1>2. HeardBut(fds', f, {})
    BY <1>1, HeardStill, ReaderIsOpen
  <1>. QED  BY <1>2 DEF f

LEMMA StartPipelineHeard ==
    ASSUME Shape, Held, Heard, NEW n \in 1 .. MaxCmds, NEW kinds \in [1 .. n -> Kind],
           NEW negate \in Negations, StartPipeline(kinds, negate)
    PROVE  Heard'
  <1>. DEFINE g == [Top EXCEPT !.ran = TRUE]
              f == PipelineOf(kinds, negate)
  <1>1. InList /\ shell = "alive" /\ UNCHANGED fds
    BY DEF StartPipeline, InList
  <1>2. /\ g \in ListFrame /\ g.type = Top.type /\ g.phase = "run" /\ g.saved = Top.saved
        /\ negate \in BOOLEAN /\ Pushed(g, f)
    BY StartPipelineAs
  <1>3. Top.type # "pipeline" /\ Top.phase = "run"
    BY <1>1, ListAt
  <1>4. f.type = "pipeline" /\ f.phase = "pipe" /\ f.in = 0 /\ f.saved = <<>>
    BY <1>2, NewPipeline
  <1>. HIDE DEF f, g
  <1>5. ~HoldsIn(f) /\ ~HoldsPipe(f) /\ Len(f.saved) = 0
    BY <1>4 DEF HoldsIn, HoldsPipe
  <1>6. Loose(f) = {} /\ Outs(f) = {}
    BY <1>4, <1>5 DEF Loose, HeldBy, Outs
  <1>7. Loose(g) = Loose(Top) /\ Outs(g) = Outs(Top)
    BY <1>2, <1>3 DEF Loose, Outs
  <1>8. PipeKept(fds', g) /\ PipeKept(fds', f)
    BY <1>2, <1>3, <1>5 DEF PipeKept
  <1>9. HeardBut(fds', fds'[1].file, {})
    BY <1>1, OutNow, HeldAt
  <1>. QED  BY <1>1, <1>2, <1>6, <1>7, <1>8, <1>9, HeardPush

LEMMA EnterGroupHeard == ASSUME Shape, Held, Heard, EnterGroup PROVE Heard'
  <1>0. PICK f : /\ Push(f) /\ f.type \in {"group", "subshell", "loop"} /\ f.type # "pipeline"
                 /\ f.type # "subst" /\ f.std = Std(fds) /\ InPipeline("args") /\ shell = "alive"
                 /\ UNCHANGED <<shell, fds, procs, pipes, started, failed>>
    BY EnterGroupAs
  <1>1. InPipeline("args") /\ shell = "alive" /\ UNCHANGED fds /\ Push(f)
    BY <1>0
  <1>3. Loose(f) = {} /\ Outs(f) = {} /\ PipeKept(fds', f)
    BY <1>0 DEF Loose, Outs, PipeKept
  <1>4. Pushed(Top, f)
    BY <1>1, TopFacts, PushPushes
  <1>5. PipeKept(fds', Top)
    BY <1>1, TopFacts DEF Heard
  <1>6. HeardBut(fds', fds'[1].file, {})
    BY <1>1, OutNow, HeldAt
  <1>. QED  BY <1>1, <1>3, <1>4, <1>5, <1>6, HeardPush

LEMMA BeginSubstitutionHeard == ASSUME Shape, Held, Heard, BeginSubstitution PROVE Heard'
  <1>1. InPipeline("args") /\ shell = "alive"
    BY DEF BeginSubstitution, InPipeline
  <1>2. fds \in Table(Len(pipes)) /\ StdOpen(fds) /\ FrameSound(fds, Top)
    BY <1>1, HeldAt
  <1>3. PICK r \in Free(fds), w \in Free(fds), n \in Free(fds) \cup {-1} : Substitutes(r, w, n)
    BY BeginSubstitutionAt
  <1>. DEFINE f == [List("subst", Std(fds')) EXCEPT !.reader = r, !.saved = n]
              p == Len(pipes) + 1
              R == [file |-> Reader(p), cloexec |-> TRUE]
              W == [file |-> Writer(p), cloexec |-> FALSE]
              C == [file |-> fds[1].file, cloexec |-> TRUE]
  <1>4. /\ r # w /\ n \notin {r, w} /\ Push(f)
        /\ \A x \in Fd :
             fds'[x] = IF x = r THEN R ELSE IF x = w THEN Closed
                       ELSE IF x = 1 THEN W ELSE IF x = n THEN C ELSE fds[x]
    <2>1. r # w /\ n \notin {r, w} /\ Push(f)
      BY <1>3 DEF Substitutes
    <2>2. \A x \in Fd :
             fds'[x] = IF x = r THEN R ELSE IF x = w THEN Closed
                       ELSE IF x = 1 THEN W ELSE IF x = n THEN C ELSE fds[x]
      BY <1>3, Zenon DEF Substitutes
    <2>. QED  BY <2>1, <2>2
  <1>5. f.type = "subst" /\ f.phase = "run" /\ f.saved = n
    BY DEF List
  <1>6. R.file = Reader(p) /\ W.file = Writer(p) /\ C.file = fds[1].file
    OBVIOUS
  <1>. HIDE DEF f, p, R, W, C
  <1>7. r \in Fd /\ w \in Fd /\ r > 2 /\ w > 2 /\ (n # -1 => n \in Fd /\ n > 2 /\ n \in Free(fds))
    BY <1>2, FreeAbove
  <1>8. \A x \in Fd : x > 2 /\ x \notin Free(fds) => fds'[x] = fds[x]
    BY <1>4, <1>7
  <1>9. fds'[1].file = Writer(p) /\ fds'[r].file = Reader(p) /\ (n # -1 => fds'[n].file = fds[1].file)
    <2>1. 1 \in Fd /\ 1 # r /\ 1 # w /\ n # 1
      BY <1>7, FdFacts
    <2>. QED  BY <1>4, <1>6, <1>7, <2>1
  <1>10. HeardBut(fds', fds'[1].file, {})
    BY <1>7, <1>9 DEF HeardBut, Writer, Reader
  <1>11. Pushed(Top, f)
    BY <1>4, TopFacts, PushPushes
  <1>12. \A s \in Outs(f) : fds'[s].file = fds[1].file
    BY <1>5, <1>9 DEF Outs
  <1>13. Loose(f) = {} /\ PipeKept(fds', f)
    BY <1>5 DEF Loose, PipeKept
  <1>14. PipeKept(fds', Top)
    <2>1. Top.type = "pipeline" /\ Top.phase = "args"
      BY <1>1, TopFields
    <2>2. HoldsPipe(Top)
      BY <2>1 DEF HoldsPipe
    <2>3. Top.fd[1] \in HeldBy(Top) /\ Top.fd[2] \in HeldBy(Top)
      BY <2>1, <2>2 DEF HeldBy
    <2>4. fds'[Top.fd[1]] = fds[Top.fd[1]] /\ fds'[Top.fd[2]] = fds[Top.fd[2]]
      BY <1>2, <1>8, <2>3 DEF FrameSound, HeldFd, Free
    <2>. QED  BY <1>1, <2>1, <2>2, <2>4, TopKept DEF PipeKept
  <1>. QED  BY <1>1, <1>8, <1>10, <1>11, <1>12, <1>13, <1>14, HeardPush

\* The pipeline below a list that ends had its own standard output.
LEMMA ListListens ==
    ASSUME Shape, Held, shell = "alive", UNCHANGED fds
    PROVE  OnlyTop /\ Listening
  BY DEF OnlyTop, Listening

LEMMA EndGroupHeard == ASSUME Shape, Held, Heard, EndGroup PROVE Heard'
  <1>. DEFINE n == Len(stack) - 1
              f == stack[n]
              g == [f EXCEPT !.phase = "restore", !.cmds[f.k].status = EndStatus]
  <1>1. shell = "alive" /\ UNCHANGED fds /\ stack' = Append(SubSeq(stack, 1, n - 1), g)
        /\ Top.type \in {"group", "subshell", "loop"}
    BY EndGroupAs
  <1>2. n \in 1 .. Len(stack) /\ f \in PipelineFrame /\ f.type = "pipeline" /\ f.phase = "args"
        /\ n \in 1 .. Len(stack) - 1
    BY <1>1, BelowList, TopFacts
  <1>3. g.type = "pipeline" /\ g.in = f.in /\ g.fd = f.fd /\ g.saved = f.saved /\ g.phase = "restore"
        /\ g.first = f.first
    BY <1>2 DEF PipelineFrame
  <1>4. Len(f.saved) = 3 /\ HoldsPipe(f)
    BY <1>2, Below
  <1>5. PipeKept(fds, f)
    BY <1>1, <1>2 DEF Heard
  <1>6. f = stack[n]
    OBVIOUS
  <1>. HIDE DEF g, f, n
  <1>7. Cut(n, g)
    BY <1>1, <1>2, TopFacts, AppendCuts
  <1>8. HeldBy(g) = HeldBy(f)
    <2>1. (HoldsIn(f) <=> HoldsIn(g)) /\ (HoldsPipe(f) <=> HoldsPipe(g))
      BY <1>2, <1>3 DEF HoldsIn, HoldsPipe
    <2>. QED  BY <1>2, <1>3, <2>1, SameHolder
  <1>9. Loose(g) = Loose(f) /\ Outs(g) = Outs(f)
    BY <1>2, <1>3, <1>8 DEF Loose, Outs
  <1>10. PipeKept(fds', g)
    BY <1>1, <1>2, <1>3, <1>4, <1>5 DEF PipeKept
  <1>11. HeardBut(fds', fds'[1].file, Own(fds', g))
    <2>1. HeardBut(fds', fds'[1].file, {})
      BY <1>1, OutNow, HeldAt
    <2>2. Full(fds', g)
      BY <1>3, <1>4 DEF Full
    <2>. QED  BY <2>1, <2>2 DEF Own
  <1>12. OnlyTop /\ Listening
    BY <1>1, ListListens
  <1>. QED  BY <1>1, <1>6, <1>7, <1>9, <1>10, <1>11, <1>12, HeardCut

\* A frame that holds nothing of a pipe.
LEMMA ListHeard ==
    ASSUME Shape, Held, Heard, shell = "alive", UNCHANGED fds, NEW n, NEW g, Cut(n, g),
           g.type # "pipeline", Outs(g) \subseteq Outs(stack[n])
    PROVE  Heard'
  <1>1. OnlyTop /\ Listening
    BY ListListens
  <1>2. Loose(g) = {} /\ PipeKept(fds', g)
    BY DEF Loose, PipeKept
  <1>3. Own(fds', g) = {}
    BY <1>2 DEF Own
  <1>4. HeardBut(fds', fds'[1].file, {})
    BY OutNow, HeldAt
  <1>5. HeardBut(fds', fds'[1].file, Own(fds', g))
    BY <1>3, <1>4
  <1>6. \A s \in Outs(g) : s \in Outs(stack[n]) /\ fds'[s].file = fds[s].file
    OBVIOUS
  <1>. QED  BY <1>1, <1>2, <1>5, <1>6, HeardCut

LEMMA WaitsHeard == ASSUME Shape, Held, Heard, Waits PROVE Heard'
  <1>1. InPipeline("wait") /\ shell = "alive" /\ UNCHANGED fds
        /\ \E status \in Status : Waited(status)
    <2>1. InPipeline("wait") /\ \E status \in Status : Waited(status)
      BY WaitsAs
    <2>2. UNCHANGED fds
      BY DEF Waits, WaitChild, WaitAny, NoWait
    <2>. QED  BY <2>1, <2>2 DEF InPipeline
  <1>2. PICK status \in Status : Waited(status)
    BY <1>1
  <1>3. Top.saved = <<>> /\ Top.type = "pipeline" /\ Top \in PipelineFrame
    BY <1>1, TopFields, PipelineAt
  <1>4. CASE \E g : SetTop(g) /\ WaitsOn(g, status)
    <2>1. PICK g : SetTop(g) /\ WaitsOn(g, status)
      BY <1>4
    <2>2. g.type = "pipeline" /\ g.phase = "wait"
      BY <1>1, <2>1, WaitsOnAs
    <2>3. g.saved = <<>>
      BY <1>3, <2>1 DEF WaitsOn
    <2>4. Loose(g) = {} /\ Outs(g) = {}
      BY <2>2, <2>3, HeldByPipeline DEF Loose
    <2>5. PipeKept(fds, g)
      BY <2>2 DEF PipeKept, HoldsPipe
    <2>. QED  BY <1>1, <1>3, <2>1, <2>4, <2>5, SameFdsHeard
  <1>5. CASE LET n == Len(stack) - 1 IN
               /\ Top.k = Len(Top.cmds) /\ n \in 1 .. Len(stack) /\ n # 0
               /\ stack[n] \in ListFrame
               /\ stack' = [SubSeq(stack, 1, n) EXCEPT
                              ![n] = [stack[n] EXCEPT !.status = Negated(Top.negate, status)]]
    <2>. DEFINE n == Len(stack) - 1
                f == stack[n]
                g == [f EXCEPT !.status = Negated(Top.negate, status)]
    <2>1. n \in 1 .. Len(stack) /\ f \in ListFrame /\ stack' = [SubSeq(stack, 1, n) EXCEPT ![n] = g]
      BY <1>5
    <2>2. f.type # "pipeline" /\ g.type = f.type /\ g.phase = f.phase /\ g.saved = f.saved
      BY <2>1 DEF ListFrame
    <2>3. f = stack[n]
      OBVIOUS
    <2>. HIDE DEF g, f, n
    <2>4. Cut(n, g)
      BY <2>1, TopFacts, SubSeqSetCuts
    <2>5. Outs(g) = Outs(f)
      BY <2>2 DEF Outs
    <2>. QED  BY <1>1, <2>2, <2>3, <2>4, <2>5, ListHeard
  <1>. QED  BY <1>1, <1>2, <1>4, <1>5, WaitedStep

LEMMA JumpsHeard == ASSUME Shape, Held, Heard, Jumps, shell = "alive" PROVE Heard'
  <1>1. PICK i \in 1 .. Len(stack), g \in ListFrame :
             /\ Cut(i, g) /\ g.type # "pipeline" /\ g.type = stack[i].type
             /\ g.phase = stack[i].phase /\ g.saved = stack[i].saved
    BY JumpsAs
  <1>2. Outs(g) = Outs(stack[i])
    BY <1>1 DEF Outs
  <1>. QED  BY <1>1, <1>2, ListHeard DEF Jumps

LEMMA ExitHeard == ASSUME Shape, Held, Heard, NEW status \in Code, Exit(status) PROVE Heard'
  <1>1. shell = "alive"
    BY DEF Exit, InPipeline
  <1>2. shell' = "exited" => Heard'
    BY DEF Heard
  <1>. QED  BY <1>1, <1>2, ExitAs, JumpsHeard

LEMMA BreakHeard == ASSUME Shape, Held, Heard, Break PROVE Heard'
  <1>1. shell = "alive"
    BY DEF Break, InPipeline
  <1>. QED  BY <1>1, BreakAs, JumpsHeard

LEMMA EndSubstitutionHeard == ASSUME Shape, Held, Heard, EndSubstitution PROVE Heard'
  <1>. DEFINE g == [Top EXCEPT !.phase = "read"]
              s == Top.saved
              B == [file |-> fds[s].file, cloexec |-> FALSE]
  <1>1. InList /\ shell = "alive" /\ SetTop(g)
    BY DEF EndSubstitution, InList
  <1>2. fds \in Table(Len(pipes)) /\ FrameSound(fds, Top)
    BY <1>1, HeldAt
  <1>3. /\ Top.type = "subst" /\ Top.phase = "run"
        /\ s # -1 => s \in HeldBy(Top)
        /\ s = -1 => UNCHANGED fds
        /\ s # -1 => \A x \in Fd :
             fds'[x] = IF x = s THEN Closed ELSE IF x = 1 THEN B ELSE fds[x]
    BY EndSubstitutionAt
  <1>4. g.type = "subst" /\ g.phase = "read"
    BY <1>1, <1>3, ListAt DEF ListFrame
  <1>5. Cut(Len(stack), g) /\ Top = stack[Len(stack)] /\ Len(stack) \in 1 .. Len(stack)
    BY <1>1, TopFacts, SetTopCuts
  <1>6. B.file = fds[s].file /\ s = Top.saved
    OBVIOUS
  <1>. HIDE DEF g, s, B
  <1>7. Outs(g) = {} /\ Loose(g) = {} /\ PipeKept(fds', g)
    BY <1>4 DEF Outs, Loose, PipeKept
  <1>8. CASE s = -1
    BY <1>1, <1>3, <1>4, <1>5, <1>7, <1>8, ListHeard
  <1>9. CASE s # -1
    <2>1. s \in Outs(Top)
      BY <1>3, <1>6, <1>9 DEF Outs
    <2>. DEFINE f == fds[s].file
    <2>2. HeardBut(fds, f, Above(stack, Len(stack)))
      BY <1>1, <1>5, <2>1 DEF Heard
    <2>3. s \in Fd /\ s > 2
      BY <1>2, <1>3, <1>9 DEF FrameSound, HeldFd
    <2>4. \A x \in Fd : x > 2 /\ x # s => fds'[x] = fds[x]
      BY <1>3, <1>9
    <2>5. OnlyTop
      BY <1>3, <1>9, <2>4 DEF OnlyTop
    <2>6. \A p \in Nat : fds[s].file # Reader(p)
      BY <2>2 DEF HeardBut, Reader
    <2>7. Listening
      BY <2>4, <2>6 DEF Listening
    <2>8. fds'[1].file = f
      BY <1>3, <1>6, <1>9, <2>3, FdFacts
    <2>9. f[1] = "write" => f[2] \in Nat
      BY <2>3, PipeNumber
    <2>. HIDE DEF f
    <2>10. HeardBut(fds', f, {})
      <3>1. \A x \in Fd \ Above(stack, Len(stack)) :
               f[1] = "write" /\ x > 2 /\ fds[x].file = Reader(f[2]) =>
                 fds'[x].file = fds[x].file /\ x \notin {}
        BY <2>4, <2>6, <2>9
      <3>. QED  BY <2>2, <3>1, HeardStill
    <2>11. HeardBut(fds', fds'[1].file, Own(fds', g))
      BY <1>7, <2>8, <2>10 DEF Own
    <2>. QED  BY <1>1, <1>5, <1>7, <2>5, <2>7, <2>11, HeardCut
  <1>. QED  BY <1>8, <1>9

\* The end that is closed is that of a pipe nobody can write to.
LEMMA ReadEndHeard == ASSUME Shape, Held, Heard, ReadEnd PROVE Heard'
  <1>. DEFINE n == Len(stack) - 1
              r == Top.reader
  <1>1. shell = "alive" /\ ~HasWriter(fds[r].file[2])
    BY DEF ReadEnd, Reading, Source
  <1>2. fds \in Table(Len(pipes))
    BY <1>1, HeldAt
  <1>3. /\ n \in 1 .. Len(stack) /\ n # Len(stack) /\ Cut(n, stack[n]) /\ Top.type = "subst"
        /\ r \in HeldBy(Top) /\ HeldFd(fds, r)
        /\ \A x \in Fd : fds'[x] = IF x = r THEN Closed ELSE fds[x]
    BY ReadEndAt
  <1>4. n \in 1 .. Len(stack) - 1 /\ n = Len(stack) - 1
    BY <1>3, TopFacts
  <1>5. stack[n].type = "pipeline"
    BY <1>3, <1>4, BelowList
  <1>6. Len(stack[n].saved) = 3 /\ HoldsPipe(stack[n])
    BY <1>4, <1>5, Below
  <1>7. PipeKept(fds, stack[n])
    BY <1>1, <1>3 DEF Heard
  <1>. HIDE DEF n, r
  <1>8. \A p : fds[r].file = Reader(p) => ~Holds(fds, Writer(p))
    BY <1>1 DEF HasWriter, Reader
  <1>9. OnlyTop
    BY <1>3 DEF OnlyTop
  <1>10. Listening
    BY <1>3, <1>8 DEF Listening
  <1>11. \A x \in HeldBy(stack[n]) : fds'[x] = fds[x]
    <2>1. Sound /\ Apart
      BY <1>1, HeldAt
    <2>. QED  BY <1>3, <1>9, <2>1, SoundKept
  <1>12. PipeKept(fds', stack[n])
    <2>1. stack[n].fd[1] \in HeldBy(stack[n]) /\ stack[n].fd[2] \in HeldBy(stack[n])
      BY <1>5, <1>6 DEF HeldBy
    <2>. QED  BY <1>5, <1>6, <1>7, <1>11, <2>1 DEF PipeKept
  <1>13. \A s \in Outs(stack[n]) : fds'[s].file = fds[s].file
    BY <1>3, <1>11, OutsHeld
  <1>14. HeardBut(fds', fds'[1].file, Own(fds', stack[n]))
    <2>. DEFINE f == fds[1].file
    <2>1. HeardBut(fds, f, Own(fds, Top))
      BY <1>1 DEF Heard
    <2>2. f[1] = "write" => Holds(fds, Writer(f[2]))
      BY FdFacts, PipeNumber
    <2>3. fds'[1].file = f
      BY <1>3, FdFacts DEF HeldFd
    <2>. HIDE DEF f
    <2>4. Own(fds', stack[n]) = {}
      BY <1>5, <1>6 DEF Own, Full
    <2>5. \A x \in Fd : f[1] = "write" /\ fds[x].file = Reader(f[2]) => x # r
      BY <1>8, <2>2
    <2>6. \A x \in Fd \ Own(fds, Top) : f[1] = "write" /\ x > 2 /\ fds[x].file = Reader(f[2]) =>
            fds'[x].file = fds[x].file /\ x \notin Own(fds', stack[n])
      BY <1>3, <2>4, <2>5
    <2>7. HeardBut(fds', f, Own(fds', stack[n]))
      BY <2>1, <2>6, HeardStill
    <2>. QED  BY <2>3, <2>7
  <1>. QED  BY <1>1, <1>3, <1>9, <1>10, <1>12, <1>13, <1>14, HeardCut

----------------------------------------------------------------------------
LEMMA InitHeard == ASSUME Init PROVE Heard
  <1>. DEFINE f == List("top", [x \in 0 .. 2 |-> Tty])
  <1>1. stack = <<f>> /\ fds = [NoTable EXCEPT ![0] = Terminal, ![1] = Terminal, ![2] = Terminal]
    BY DEF Init
  <1>2. fds[1].file = Tty
    <2>1. NoTable = [x \in Fd |-> Closed]
      BY DEF NoTable, Fd
    <2>2. fds[1] = Terminal
      BY <1>1, <2>1, FdFacts
    <2>. QED  BY <2>2 DEF Terminal
  <1>3. f.type = "top"
    BY DEF List
  <1>. HIDE DEF f
  <1>4. Len(stack) = 1 /\ stack[1] = f /\ \A i \in 1 .. 1 : i = 1
    BY <1>1
  <1>5. Outs(f) = {} /\ PipeKept(fds, f)
    BY <1>3 DEF Outs, PipeKept
  <1>6. HeardBut(fds, fds[1].file, Own(fds, Top))
    BY <1>2 DEF HeardBut, Tty
  <1>. QED  BY <1>4, <1>5, <1>6 DEF Heard

LEMMA HeardStep == ASSUME Shape, Held, Heard, [Next]_vars PROVE Heard'
  <1>1. ASSUME NEW n \in 1 .. MaxCmds, NEW kinds \in [1 .. n -> Kind], NEW negate \in Negations,
               StartPipeline(kinds, negate)
        PROVE  Heard'
    BY <1>1, StartPipelineHeard
  <1>2. CASE \/ MakePipe \/ PipeFails \/ SaveDescriptor \/ SaveFails
             \/ RestoreDescriptors \/ NextCommand
    BY <1>2, MakePipeHeard, PipeFailsHeard, SaveDescriptorHeard, SaveFailsHeard,
       RestoreDescriptorsHeard, NextCommandHeard
  <1>3. CASE InputRedirection \/ OutputRedirection
    BY <1>3, RedirectionHeard
  <1>4. CASE Runs
    BY <1>4, CommandHeard
  <1>5. CASE EnterGroup \/ EndGroup
    BY <1>5, EnterGroupHeard, EndGroupHeard
  <1>6. CASE Waits
    BY <1>6, WaitsHeard
  <1>7. CASE BeginSubstitution \/ EndSubstitution \/ ReadEnd
    BY <1>7, BeginSubstitutionHeard, EndSubstitutionHeard, ReadEndHeard
  <1>8. CASE RedirectionAborts \/ SubstitutionAborts
    BY <1>8 DEF RedirectionAborts, SubstitutionAborts, Heard
  <1>9. CASE (\E status \in Code : Exit(status)) \/ Break
    BY <1>9, ExitHeard, BreakHeard
  <1>10. CASE UNCHANGED <<shell, fds, stack>>
    BY <1>10 DEF Heard, Top, Own, Full
  <1>11. CASE ReadByte
    BY <1>10, <1>11 DEF ReadByte
  <1>12. ASSUME NEW p \in DOMAIN procs, ProcStep(p)
         PROVE  Heard'
    BY <1>10, <1>12, ProcStepAs
  <1>13. CASE UNCHANGED vars
    BY <1>10, <1>13 DEF vars
  <1>. QED  BY <1>1, <1>2, <1>3, <1>4, <1>5, <1>6, <1>7, <1>8, <1>9, <1>11, <1>12, <1>13
       DEF Next, ShellStep, Runs, Waits

\* A builtin never writes to a pipe without a reader, so the shell, which runs
\* it in its own process (rl_exec_simple_cmd), is not ended by SIGPIPE: not even
\* when descriptors run out, or when exit jumps out of a substitution.
THEOREM ShellIsHeard == Spec => []ShellSurvives
  <1>1. Init => Heard
    BY InitHeard
  <1>2. Descriptors /\ Heard /\ [Next]_vars => Heard'
    BY HeardStep DEF Descriptors
  <1>3. Descriptors /\ Heard => ShellSurvives
    <2>1. SUFFICES ASSUME Descriptors, Heard, InPipeline("builtin"), Broken(fds[1].file)
                   PROVE  FALSE
      BY DEF ShellSurvives
    <2>2. shell = "alive"
      BY <2>1 DEF InPipeline
    <2>3. fds \in Table(Len(pipes))
      BY <2>1 DEF Descriptors, Shape, Typed
    <2>4. HeardBut(fds, fds[1].file, Own(fds, Top)) /\ fds[1].file[1] = "write"
      BY <2>1, <2>2 DEF Heard, Broken
    <2>5. PICK x \in Fd : fds[x].file = Reader(fds[1].file[2])
      BY <2>4 DEF HeardBut
    <2>6. Holds(fds, Reader(fds[1].file[2]))
      BY <2>3, <2>5 DEF Holds, Table
    <2>. QED  BY <2>1, <2>6 DEF Broken, HasReader
  <1>. QED  BY <1>1, <1>2, <1>3, DescriptorsHold, PTL DEF Spec


----------------------------------------------------------------------------
(* What is left open *)

Ok == shell = "alive" /\ ~failed

Upto(file, m) == file[1] \in {"read", "write"} => file[2] <= m

\* What frame f will use again, and what its processes use, is on files that
\* were there when there were m pipes.
Past(f, m) ==
    /\ \A x \in HeldBy(f) : Upto(fds[x].file, m)
    /\ IF f.type = "pipeline"
         THEN \A j \in 1 .. Len(f.cmds) : f.cmds[j].child # 0 =>
                \A x \in Fd : Upto(procs[f.cmds[j].child].fds[x].file, m)
         ELSE \A x \in 0 .. 2 : Upto(f.std[x], m)

\* What is below a pipeline on the stack is older than its pipes.
Older ==
    Ok => \A j \in 1 .. Len(stack) : stack[j].type = "pipeline" =>
            \A i \in 1 .. j - 1 : Past(stack[i], stack[j].first)

\* f holds the pipe of its last command, to which nothing is ever written.
LastHeld(f) == f.type = "pipeline" /\ HoldsPipe(f) /\ f.k = Len(f.cmds)
IsEnd(x) == \E i \in 1 .. Len(stack) : LastHeld(stack[i]) /\ x = stack[i].fd[2]

\* No command that was executed can write to pipe p, and none ever will.
MutedIn(ps, p) ==
    \A q \in DOMAIN ps : \A x \in Fd : ps[q].fds[x].file = Writer(p) =>
        ps[q].state = "forked" /\ ps[q].fds[x].cloexec
Muted(p) == MutedIn(procs, p) /\ \A x \in Fd : fds[x].file = Writer(p) => IsEnd(x)

LastMuted ==
    Ok => \A x \in Fd : IsEnd(x) => \A p \in Nat : fds[x].file = Writer(p) => Muted(p)

\* A pipeline with a declaration, and none above it, has run since pipe p was
\* made.
Declared(p) ==
    \E j \in 1 .. Len(stack) :
        /\ Declares(stack[j]) /\ stack[j].first < p
        /\ \A i \in j + 1 .. Len(stack) : stack[i].type = "pipeline" => p <= stack[i].first

\* Descriptors that no frame will use or close.
Leaked == {x \in Fd : x > 2 /\ fds[x] # Closed
                      /\ \A i \in 1 .. Len(stack) : x \notin HeldBy(stack[i])}

Spent(file) ==
    (file = File /\ "input" \in Feature) \/ \E p \in Nat : file = Reader(p) /\ (Muted(p) \/ Declared(p))

LeaksSpent == Ok => \A x \in Leaked : Spent(fds[x].file)

\* The input of a command is the pipe of the one before.
InOwn ==
    Ok /\ Top.type = "pipeline" /\ HoldsIn(Top) =>
        \E p \in Nat : p > Top.first /\ fds[Top.in].file = Reader(p)

\* What a step does to the ends nobody writes to: they stay or are closed, are
\* copied nowhere, and a new one is muted.
EndsKept == \A x \in Fd : IsEnd(x) => IsEnd(x)' \/ fds'[x] = Closed
EndsFrom ==
    \A x \in Fd : IsEnd(x)' =>
        \/ IsEnd(x) /\ fds'[x].file = fds[x].file
        \/ \E p \in Nat : fds'[x].file = Writer(p) /\ Muted(p)'
Moved ==
    \A x \in Fd : \A p \in 1 .. Len(pipes) : fds'[x].file = Writer(p) =>
        \/ fds[x].file = Writer(p)
        \/ \E y \in Fd : ~IsEnd(y) /\ fds[y].file = Writer(p)

LEMMA EndHeld ==
    ASSUME Shape, Held, shell = "alive", NEW x, IsEnd(x)
    PROVE  x \in Fd /\ HeldFd(fds, x)
  <1>1. PICK i \in 1 .. Len(stack) : LastHeld(stack[i]) /\ x = stack[i].fd[2]
    BY DEF IsEnd
  <1>2. x \in HeldBy(stack[i])
    BY <1>1 DEF LastHeld, HeldBy
  <1>. QED  BY <1>2, FrameAt DEF FrameSound, HeldFd

LEMMA WriterIsOpen == \A p : Closed.file # Writer(p) /\ NoFile # Writer(p) /\ \A x \in Fd : NoTable[x].file # Writer(p)
  <1>1. \A x \in Fd : NoTable[x] = Closed
    BY DEF NoTable, Fd
  <1>. QED  BY <1>1 DEF Closed, NoFile, Writer

LEMMA MutedProcs ==
    ASSUME Shape, Held, Ended, shell = "alive", [Next]_vars, NEW p, Muted(p)
    PROVE  MutedIn(procs', p)
  <1>1. MutedIn(procs, p)
    BY DEF Muted
  <1>2. CASE UNCHANGED procs
    BY <1>1, <1>2
  <1>3. CASE Fork
    <2>1. ASSUME NEW x \in Fd, fds[x].file = Writer(p)
          PROVE  fds[x].cloexec
      BY <2>1, EndHeld DEF Muted, HeldFd
    <2>. DEFINE n == Len(procs) + 1
    <2>2. /\ procs'[n].state = "forked" /\ procs'[n].fds = fds
          /\ (\A q \in DOMAIN procs : procs'[q] = procs[q])
          /\ DOMAIN procs' = DOMAIN procs \cup {n}
      BY <1>3, ForkAt
    <2>. HIDE DEF n
    <2>. QED  BY <1>1, <2>1, <2>2 DEF MutedIn
  <1>4. ASSUME NEW r \in DOMAIN procs, procs[r].state = "exited", Reap(r)
        PROVE  MutedIn(procs', p)
    <2>1. procs[r].fds = NoTable
      BY <1>4 DEF Ended
    <2>2. procs'[r].fds = NoTable /\ DOMAIN procs' = DOMAIN procs
      BY <1>4, <2>1, ReapKeeps
    <2>3. \A q \in DOMAIN procs : q # r => procs'[q] = procs[q]
      BY <1>4, ReapAt
    <2>. QED  BY <1>1, <2>2, <2>3, WriterIsOpen DEF MutedIn
  <1>5. ASSUME NEW r \in DOMAIN procs, ProcStep(r)
        PROVE  MutedIn(procs', p)
    <2>1. /\ DOMAIN procs' = DOMAIN procs
          /\ \A q \in DOMAIN procs :
               \/ procs'[q] = procs[q]
               \/ q = r /\ (BecomesEnded(r, procs'[r]) \/ BecomesRunning(r, procs'[r])
                            \/ GoesOn(r, procs'[r]))
      BY <1>5, ProcStepAt
    <2>2. ASSUME NEW x \in Fd, procs'[r].fds[x].file = Writer(p), BecomesRunning(r, procs'[r])
          PROVE  FALSE
      <3>1. DOMAIN procs[r].fds = Fd
        BY ProcAt DEF Process, Table
      <3>2. procs'[r].fds[x] = IF procs[r].fds[x].cloexec THEN Closed ELSE procs[r].fds[x]
        BY <2>2, <3>1 DEF BecomesRunning, Executed
      <3>3. ~procs[r].fds[x].cloexec /\ procs[r].fds[x].file = Writer(p)
        BY <2>2, <3>2, WriterIsOpen
      <3>. QED  BY <1>1, <3>3 DEF MutedIn
    <2>3. ASSUME NEW x \in Fd, procs'[r].fds[x].file = Writer(p)
          PROVE  procs'[r] = procs[r] \/ GoesOn(r, procs'[r])
      BY <2>1, <2>2, <2>3, WriterIsOpen DEF BecomesEnded
    <2>4. ASSUME NEW q \in DOMAIN procs, NEW x \in Fd, procs'[q].fds[x].file = Writer(p)
          PROVE  procs'[q].state = procs[q].state /\ procs'[q].fds = procs[q].fds
      BY <2>1, <2>3, <2>4 DEF GoesOn
    <2>. QED  BY <1>1, <2>1, <2>4 DEF MutedIn
  <1>. QED  BY <1>2, <1>3, <1>4, <1>5, ProcsChange

LEMMA MutedStep ==
    ASSUME Shape, Held, Ended, shell = "alive", [Next]_vars, EndsKept, Moved,
           NEW p \in 1 .. Len(pipes), Muted(p)
    PROVE  Muted(p)'
  <1>1. MutedIn(procs', p)
    BY MutedProcs
  <1>2. ASSUME NEW x \in Fd, fds'[x].file = Writer(p)
        PROVE  IsEnd(x)'
    <2>1. fds'[x] # Closed
      BY <1>2, WriterIsOpen
    <2>2. \A y \in Fd : fds[y].file = Writer(p) => IsEnd(y)
      BY DEF Muted
    <2>3. fds[x].file = Writer(p)
      BY <1>2, <2>2 DEF Moved
    <2>. QED  BY <2>1, <2>2, <2>3 DEF EndsKept
  <1>. QED  BY <1>1, <1>2 DEF Muted

LEMMA PipeOfFile ==
    ASSUME Shape, NEW x \in Fd, NEW p, fds[x].file = Reader(p) \/ fds[x].file = Writer(p)
    PROVE  p \in 1 .. Len(pipes)
  <1>1. fds \in Table(Len(pipes))
    BY DEF Shape, Typed
  <1>2. fds[x].file \in Files(Len(pipes)) \cup {NoFile}
    BY <1>1, FileOf
  <1>. QED  BY <1>2 DEF Files, Tty, File, NoFile, Reader, Writer

LEMMA LastMutedStep ==
    ASSUME Shape, Held, Ended, LastMuted, Ok, [Next]_vars, EndsKept, EndsFrom, Moved
    PROVE  LastMuted'
  <1>1. ASSUME NEW x \in Fd, IsEnd(x)', NEW p \in Nat, fds'[x].file = Writer(p)
        PROVE  Muted(p)'
    <2>1. CASE IsEnd(x) /\ fds'[x].file = fds[x].file
      <3>1. Muted(p) /\ p \in 1 .. Len(pipes) /\ shell = "alive"
        BY <1>1, <2>1, PipeOfFile DEF LastMuted, Ok
      <3>. QED  BY <3>1, MutedStep
    <2>2. ASSUME NEW q \in Nat, fds'[x].file = Writer(q), Muted(q)'
          PROVE  Muted(p)'
      <3>1. q = p
        BY <1>1, <2>2 DEF Writer
      <3>. QED  BY <2>2, <3>1
    <2>. QED  BY <1>1, <2>1, <2>2 DEF EndsFrom
  <1>. QED  BY <1>1 DEF LastMuted


\* How the stack changes, for what is said of first and of declarations.
Continues(f, g) ==
    /\ g.type = f.type
    /\ f.type = "pipeline" => g.first = f.first /\ (Declares(f) => Declares(g))
CutsTo(n) == \E g : Cut(n, g) /\ Continues(stack[n], g)
StackGrows == \E g, f : Pushed(g, f) /\ Continues(Top, g) /\ (f.type = "pipeline" => f.first = Len(pipes))
StackGoes ==
    \/ UNCHANGED stack
    \/ CutsTo(Len(stack)) \/ (CutsTo(Len(stack) - 1) /\ Top.type # "pipeline")
    \/ StackGrows

LEMMA DeclaredCut ==
    ASSUME Shape, NEW n, CutsTo(n), NEW p, NEW j \in 1 .. n, Declares(stack[j]), stack[j].first < p,
           \A i \in j + 1 .. n : stack[i].type = "pipeline" => p <= stack[i].first
    PROVE  Declared(p)'
  <1>1. PICK g : Cut(n, g) /\ Continues(stack[n], g)
    BY DEF CutsTo
  <1>2. n \in 1 .. Len(stack) /\ Len(stack') = n /\ stack'[n] = g
        /\ (\A i \in 1 .. n - 1 : stack'[i] = stack[i]) /\ Len(stack) \in Nat
    BY <1>1, TopFacts DEF Cut
  <1>3. \A i \in 1 .. n : Continues(stack[i], stack'[i])
    BY <1>1, <1>2 DEF Continues
  <1>4. Declares(stack'[j]) /\ stack'[j].first < p
    BY <1>3 DEF Continues, Declares
  <1>5. ASSUME NEW i \in j + 1 .. n, stack'[i].type = "pipeline"
        PROVE  p <= stack'[i].first
    <2>1. i \in 1 .. n
      BY <1>2
    <2>2. Continues(stack[i], stack'[i])
      BY <1>3, <2>1
    <2>3. stack[i].type = "pipeline" /\ stack'[i].first = stack[i].first
      BY <1>5, <2>2 DEF Continues
    <2>. QED  BY <2>3
  <1>. QED  BY <1>2, <1>4, <1>5 DEF Declared

LEMMA DeclaredStep ==
    ASSUME Shape, StackGoes, NEW p \in 1 .. Len(pipes), Declared(p)
    PROVE  Declared(p)'
  <1>. DEFINE m == Len(stack)
  <1>1. PICK j \in 1 .. m : /\ Declares(stack[j]) /\ stack[j].first < p
                            /\ \A i \in j + 1 .. m : stack[i].type = "pipeline" => p <= stack[i].first
    BY DEF Declared
  <1>2. m \in Nat /\ Top = stack[m]
    BY TopFacts
  <1>3. CASE UNCHANGED stack
    BY <1>1, <1>3 DEF Declared
  <1>4. CASE CutsTo(m)
    BY <1>1, <1>4, DeclaredCut
  <1>5. CASE CutsTo(m - 1) /\ Top.type # "pipeline"
    <2>1. j # m
      BY <1>1, <1>2, <1>5 DEF Declares
    <2>. HIDE DEF m
    <2>2. j \in 1 .. m - 1 /\ \A i \in j + 1 .. m - 1 : i \in j + 1 .. m
      BY <1>2, <2>1
    <2>. QED  BY <1>1, <1>5, <2>2, DeclaredCut
  <1>6. ASSUME StackGrows PROVE Declared(p)'
    <2>1. PICK g, f : Pushed(g, f) /\ Continues(Top, g) /\ (f.type = "pipeline" => f.first = Len(pipes))
      BY <1>6 DEF StackGrows
    <2>2. Len(stack') = m + 1 /\ stack'[m] = g /\ stack'[m + 1] = f
          /\ \A i \in 1 .. m - 1 : stack'[i] = stack[i]
      BY <2>1 DEF Pushed
    <2>. HIDE DEF m
    <2>3. \A i \in 1 .. m : Continues(stack[i], stack'[i])
      BY <1>2, <2>1, <2>2 DEF Continues
    <2>4. Declares(stack'[j]) /\ stack'[j].first < p /\ j \in 1 .. Len(stack')
      BY <1>1, <1>2, <2>2, <2>3 DEF Continues, Declares
    <2>5. ASSUME NEW i \in j + 1 .. m + 1, stack'[i].type = "pipeline"
          PROVE  p <= stack'[i].first
      <3>1. CASE i = m + 1
        BY <2>1, <2>2, <2>5, <3>1
      <3>2. CASE i # m + 1
        <4>1. i \in 1 .. m /\ i \in j + 1 .. m
          BY <1>2, <3>2
        <4>2. Continues(stack[i], stack'[i])
          BY <2>3, <4>1
        <4>3. stack[i].type = "pipeline" /\ stack'[i].first = stack[i].first
          BY <2>5, <4>2 DEF Continues
        <4>. QED  BY <1>1, <4>1, <4>3
      <3>. QED  BY <3>1, <3>2
    <2>. QED  BY <2>2, <2>4, <2>5 DEF Declared
  <1>. QED  BY <1>3, <1>4, <1>5, <1>6 DEF StackGoes

LeaksFrom ==
    \A x \in Fd : (x \in Leaked)' =>
        (x \in Leaked /\ fds'[x].file = fds[x].file) \/ Spent(fds[x].file)'

LEMMA LeaksStep ==
    ASSUME Shape, Held, Ended, LeaksSpent, Ok, [Next]_vars, EndsKept, Moved, LeaksFrom,
           \A p \in 1 .. Len(pipes) : Declared(p) => Declared(p)' \/ Muted(p)'
    PROVE  LeaksSpent'
  <1>1. ASSUME NEW x \in Fd, x \in Leaked, fds'[x].file = fds[x].file
        PROVE  Spent(fds[x].file)'
    <2>1. Spent(fds[x].file)
      BY <1>1 DEF LeaksSpent
    <2>2. ASSUME NEW p \in Nat, fds[x].file = Reader(p), Muted(p) \/ Declared(p)
          PROVE  (Muted(p) \/ Declared(p))'
      <3>1. p \in 1 .. Len(pipes) /\ shell = "alive"
        BY <2>2, PipeOfFile DEF Ok
      <3>. QED  BY <2>2, <3>1, MutedStep
    <2>. QED  BY <1>1, <2>1, <2>2 DEF Spent
  <1>2. \A x : (x \in Leaked)' => x \in Fd
    BY DEF Leaked
  <1>. QED  BY <1>1, <1>2 DEF LeaksSpent, LeaksFrom


LEMMA UptoClosed == \A m : Upto(Closed.file, m) /\ \A x \in Fd : Upto(NoTable[x].file, m)
  <1>1. \A x \in Fd : NoTable[x] = Closed
    BY DEF NoTable, Fd
  <1>. QED  BY <1>1 DEF Closed, Upto

\* A process uses no newer file than it did.
LEMMA PastProc ==
    ASSUME Shape, Ended, [Next]_vars, NEW c \in DOMAIN procs, NEW m,
           \A x \in Fd : Upto(procs[c].fds[x].file, m)
    PROVE  \A x \in Fd : Upto(procs'[c].fds[x].file, m)
  <1>1. CASE UNCHANGED procs
    BY <1>1
  <1>2. CASE Fork
    BY <1>2, ForkAt
  <1>3. ASSUME NEW r \in DOMAIN procs, Reap(r) PROVE procs'[c].fds = procs[c].fds
    BY <1>3, ReapKeeps, ReapAt
  <1>4. ASSUME NEW r \in DOMAIN procs, ProcStep(r), NEW x \in Fd
        PROVE  Upto(procs'[c].fds[x].file, m)
    <2>1. \/ procs'[c] = procs[c]
          \/ BecomesEnded(c, procs'[c]) \/ BecomesRunning(c, procs'[c]) \/ GoesOn(c, procs'[c])
      BY <1>4, ProcStepAt
    <2>2. CASE BecomesRunning(c, procs'[c])
      <3>1. DOMAIN procs[c].fds = Fd
        BY ProcAt DEF Process, Table
      <3>2. procs'[c].fds[x] = IF procs[c].fds[x].cloexec THEN Closed ELSE procs[c].fds[x]
        BY <2>2, <3>1 DEF BecomesRunning, Executed
      <3>. QED  BY <3>2, UptoClosed
    <2>. QED  BY <2>1, <2>2, UptoClosed DEF BecomesEnded, GoesOn
  <1>. QED  BY <1>1, <1>2, <1>3, <1>4, ProcsChange

LEMMA ChildOf ==
    ASSUME NEW f, NEW np, NEW nq, PipelineOK(f, np, nq), NEW j \in 1 .. Len(f.cmds)
    PROVE  f.cmds[j].child \in Nat /\ f.cmds[j].child <= np
  <1>1. f \in PipelineFrame /\ NodeOK(f, j, np)
    BY DEF PipelineOK
  <1>2. f.cmds \in Seq(NodeSet)
    BY <1>1, FieldsOf
  <1>3. f.cmds[j] \in NodeSet
    BY <1>2
  <1>. QED  BY <1>1, <1>3 DEF NodeOK, NodeSet

\* What is below the top is as old as it was.
LEMMA PastKept ==
    ASSUME Shape, Held, Ended, shell = "alive", OnlyTop, [Next]_vars,
           NEW i \in 1 .. Len(stack), i # Len(stack), NEW m, Past(stack[i], m),
           NEW f, f = stack[i]
    PROVE  Past(f, m)'
  <1>1. \A x \in HeldBy(f) : fds'[x] = fds[x]
    BY HeldAt, SoundKept
  <1>2. ASSUME f.type = "pipeline", NEW j \in 1 .. Len(f.cmds), f.cmds[j].child # 0, NEW x \in Fd
        PROVE  Upto(procs'[f.cmds[j].child].fds[x].file, m)
    <2>1. FrameOK(f, Len(procs), Len(pipes))
      BY DEF Shape, Stacked
    <2>2. PipelineOK(f, Len(procs), Len(pipes))
      BY <1>2, <2>1 DEF FrameOK
    <2>. DEFINE c == f.cmds[j].child
    <2>3. c \in Nat /\ c <= Len(procs) /\ c # 0
      BY <1>2, <2>2, ChildOf
    <2>4. \A y \in Fd : Upto(procs[c].fds[y].file, m)
      BY <1>2 DEF Past
    <2>. HIDE DEF c
    <2>5. c \in DOMAIN procs
      BY <2>3, ProcsDomain
    <2>6. \A y \in Fd : Upto(procs'[c].fds[y].file, m)
      BY <2>4, <2>5, PastProc
    <2>. QED  BY <2>6 DEF c
  <1>3. f.type # "pipeline" => \A x \in 0 .. 2 : Upto(f.std[x], m)
    BY DEF Past
  <1>4. \A x \in HeldBy(f) : Upto(fds'[x].file, m)
    BY <1>1 DEF Past
  <1>. QED  BY <1>2, <1>3, <1>4 DEF Past

LEMMA UptoNow ==
    ASSUME NEW n \in Nat, NEW t \in Table(n), NEW x \in Fd
    PROVE  Upto(t[x].file, n)
  <1>1. t[x].file \in Files(n) \cup {NoFile}
    BY FileOf
  <1>. QED  BY <1>1 DEF Upto, Files, Tty, File, NoFile

\* No file is newer than the newest pipe.
LEMMA PastNow ==
    ASSUME Shape, Held, Kept, Ok, NEW i \in 1 .. Len(stack), i = Len(stack) => InList
    PROVE  Past(stack[i], Len(pipes))
  <1>. DEFINE f == stack[i]
              m == Len(pipes)
  <1>1. fds \in Table(m) /\ m \in Nat /\ FrameSound(fds, f) /\ shell = "alive"
    BY HeldAt, FrameAt, Counts DEF Ok
  <1>2. FrameOK(f, Len(procs), m)
    BY DEF Shape, Stacked
  <1>3. ASSUME NEW x \in HeldBy(f) PROVE Upto(fds[x].file, m)
    BY <1>1, UptoNow DEF FrameSound, HeldFd
  <1>4. ASSUME f.type = "pipeline", NEW j \in 1 .. Len(f.cmds), f.cmds[j].child # 0, NEW x \in Fd
        PROVE  Upto(procs[f.cmds[j].child].fds[x].file, m)
    <2>1. PipelineOK(f, Len(procs), m)
      BY <1>2, <1>4 DEF FrameOK
    <2>. DEFINE c == f.cmds[j].child
    <2>2. c \in Nat /\ c <= Len(procs) /\ c # 0
      BY <1>4, <2>1, ChildOf
    <2>. HIDE DEF c
    <2>3. c \in DOMAIN procs
      BY <2>2, ProcsDomain
    <2>4. procs[c].fds \in Table(m)
      BY <2>3, ProcAt DEF Process
    <2>5. Upto(procs[c].fds[x].file, m)
      BY <1>1, <2>4, UptoNow
    <2>. QED  BY <2>5 DEF c
  <1>5. ASSUME f.type # "pipeline", NEW x \in 0 .. 2
        PROVE  Upto(f.std[x], m)
    <2>1. x \in Fd
      BY StdFds
    <2>2. CASE i = Len(stack)
      <3>1. f = Top /\ f.phase = "run" /\ shell = "alive" /\ ~failed
        BY <2>2 DEF Top, InList, Ok
      <3>2. fds[x].file = f.std[x]
        BY <1>5, <3>1 DEF Kept, Begun
      <3>. QED  BY <1>1, <2>1, <3>2, UptoNow
    <2>3. CASE i # Len(stack)
      <3>. DEFINE j == i + 1
                  g == stack[j]
      <3>1. j \in 2 .. Len(stack) /\ j \in 1 .. Len(stack) /\ i = j - 1 /\ i \in 1 .. Len(stack) - 1
        BY <2>3, TopFacts
      <3>2. Under(f, g)
        BY <3>1 DEF Shape, Stacked
      <3>3. g.type = "pipeline"
        BY <1>5, <3>2 DEF Under
      <3>4. Original(fds, g, x) = f.std[x]
        BY <3>1, <3>3 DEF Kept, Keeps, Ok
      <3>5. FrameSound(fds, g)
        BY <1>1, <3>1, FrameAt
      <3>6. PipelineOK(g, Len(procs), m)
        BY <3>1, <3>3 DEF Shape, Stacked, FrameOK
      <3>7. Len(g.saved) \in Nat
        BY <3>6, FieldsOf DEF PipelineOK
      <3>8. ASSUME x < Len(g.saved) PROVE g.saved[x + 1] \in Fd
        <4>1. x + 1 \in 1 .. Len(g.saved)
          BY <3>7, <3>8
        <4>2. g.saved[x + 1] \in HeldBy(g)
          BY <3>3, <4>1 DEF HeldBy
        <4>. QED  BY <3>5, <4>2 DEF FrameSound, HeldFd
      <3>9. \E y \in Fd : f.std[x] = fds[y].file
        BY <2>1, <3>4, <3>8 DEF Original
      <3>. QED  BY <1>1, <3>9, UptoNow
    <2>. QED  BY <2>2, <2>3
  <1>. QED  BY <1>3, <1>4, <1>5 DEF Past


LEMMA OlderCut ==
    ASSUME Shape, Held, Ended, Older, Ok, OnlyTop, [Next]_vars, NEW n, CutsTo(n)
    PROVE  Older'
  <1>1. PICK g : Cut(n, g) /\ Continues(stack[n], g)
    BY DEF CutsTo
  <1>2. n \in 1 .. Len(stack) /\ Len(stack') = n /\ stack'[n] = g
        /\ (\A i \in 1 .. n - 1 : stack'[i] = stack[i]) /\ Len(stack) \in Nat /\ n \in Nat
    BY <1>1, TopFacts DEF Cut
  <1>3. ASSUME NEW j \in 1 .. n, stack'[j].type = "pipeline", NEW i \in 1 .. j - 1
        PROVE  Past(stack[i], stack[j].first)'
    <2>1. i \in 1 .. Len(stack) /\ i # Len(stack) /\ stack'[i] = stack[i] /\ j \in 1 .. Len(stack)
      BY <1>2
    <2>2. stack[j].type = "pipeline" /\ stack'[j].first = stack[j].first
      BY <1>1, <1>2, <1>3 DEF Continues
    <2>3. Past(stack[i], stack[j].first)
      BY <1>3, <2>1, <2>2 DEF Older
    <2>4. PICK f, k : f = stack[i] /\ k = stack[j].first
      OBVIOUS
    <2>5. Past(f, k)
      BY <2>3, <2>4
    <2>6. Past(f, k)'
      BY <2>1, <2>4, <2>5, PastKept DEF Ok
    <2>. QED  BY <2>1, <2>2, <2>4, <2>6
  <1>. QED  BY <1>2, <1>3 DEF Older


LEMMA SameCuts == ASSUME Shape, UNCHANGED stack PROVE CutsTo(Len(stack))
  <1>1. Cut(Len(stack), Top) /\ Top = stack[Len(stack)]
    BY TopFacts DEF Cut
  <1>2. Continues(Top, Top)
    BY DEF Continues
  <1>. QED  BY <1>1, <1>2 DEF CutsTo

\* Everything below the top is on files of today.
OldBelow == \A i \in 1 .. Len(stack) - 1 : Past(stack[i], Len(pipes))

LEMMA OlderGrows ==
    ASSUME Shape, Held, Ended, Older, Ok, [Next]_vars, NEW g, NEW f, Pushed(g, f), OnlyTop,
           f.type = "pipeline" => OldBelow' /\ f.first = Len(pipes'),
           g.type = Top.type, g.type = "pipeline" => g.first = Top.first
    PROVE  Older'
  <1>0. PICK m : m = Len(stack)
    OBVIOUS
  <1>1. m \in Nat /\ Top = stack[m] /\ m = Len(stack) /\ m \in 1 .. m
    BY <1>0, TopFacts
  <1>2. Len(stack') = m + 1 /\ stack'[m] = g /\ stack'[m + 1] = f
        /\ \A i \in 1 .. m - 1 : stack'[i] = stack[i]
    BY <1>0 DEF Pushed
  <1>3. ASSUME NEW j \in 1 .. m, stack'[j].type = "pipeline", NEW i \in 1 .. j - 1
        PROVE  Past(stack[i], stack[j].first)'
    <2>1. i \in 1 .. m /\ i # m /\ stack'[i] = stack[i]
      BY <1>1, <1>2
    <2>2. stack[j].type = "pipeline" /\ stack'[j].first = stack[j].first
      BY <1>1, <1>2, <1>3
    <2>3. Past(stack[i], stack[j].first)
      BY <1>1, <1>3, <2>1, <2>2 DEF Older
    <2>4. PICK h, k : h = stack[i] /\ k = stack[j].first
      OBVIOUS
    <2>5. Past(h, k)
      BY <2>3, <2>4
    <2>6. Past(h, k)'
      BY <1>1, <2>1, <2>4, <2>5, PastKept DEF Ok
    <2>. QED  BY <2>1, <2>2, <2>4, <2>6
  <1>4. ASSUME f.type = "pipeline", NEW i \in 1 .. m
        PROVE  Past(stack[i], stack[m + 1].first)'
    <2>1. Past(stack[i], Len(pipes))'
      BY <1>1, <1>2, <1>4 DEF OldBelow
    <2>2. stack'[m + 1].first = Len(pipes')
      BY <1>2, <1>4
    <2>. QED  BY <2>1, <2>2
  <1>. QED  BY <1>1, <1>2, <1>3, <1>4 DEF Older


\* Everything that is said of what is left open.
Open == Older /\ LastMuted /\ LeaksSpent /\ InOwn

\* The frame on top goes on, or the list on top ends and the pipeline below
\* goes on.
GoesTo(n, g) ==
    /\ Cut(n, g) /\ Continues(stack[n], g)
    /\ n = Len(stack) \/ (n = Len(stack) - 1 /\ Top.type # "pipeline")

LEMMA OpenCut ==
    ASSUME Shape, Held, Ended, Open, Ok, OnlyTop, [Next]_vars, NEW n, NEW g, GoesTo(n, g),
           EndsKept, EndsFrom, Moved, LeaksFrom, InOwn'
    PROVE  Open'
  <1>1. CutsTo(n) /\ StackGoes
    BY DEF GoesTo, CutsTo, StackGoes
  <1>2. Older' /\ LastMuted'
    BY <1>1, OlderCut, LastMutedStep DEF Open
  <1>3. LeaksSpent'
    BY <1>1, LeaksStep, DeclaredStep DEF Open
  <1>. QED  BY <1>2, <1>3 DEF Open

LEMMA NotEndList == ASSUME NEW f, f.type # "pipeline" PROVE ~LastHeld(f)
  BY DEF LastHeld

\* The ends are those there were.
LEMMA EndsCut ==
    ASSUME Shape, Held, shell = "alive", OnlyTop, NEW n, NEW g, GoesTo(n, g),
           LastHeld(g) <=> LastHeld(stack[n]),
           LastHeld(g) => g.fd[2] = stack[n].fd[2] /\ fds'[g.fd[2]].file = fds[g.fd[2]].file
    PROVE  EndsKept /\ EndsFrom
  <1>1. n \in 1 .. Len(stack) /\ Len(stack') = n /\ stack'[n] = g
        /\ (\A i \in 1 .. n - 1 : stack'[i] = stack[i]) /\ Len(stack) \in Nat /\ n \in Nat
        /\ Top = stack[Len(stack)] /\ (n = Len(stack) \/ (n = Len(stack) - 1 /\ Top.type # "pipeline"))
    BY TopFacts DEF GoesTo, Cut
  <1>2. ASSUME NEW i \in 1 .. n
        PROVE  /\ LastHeld(stack'[i]) <=> LastHeld(stack[i])
               /\ LastHeld(stack[i]) => stack'[i].fd[2] = stack[i].fd[2]
                                        /\ fds'[stack[i].fd[2]].file = fds[stack[i].fd[2]].file
    <2>1. CASE i = n
      BY <1>1, <2>1
    <2>2. CASE i # n
      <3>1. stack'[i] = stack[i] /\ i \in 1 .. Len(stack) /\ i # Len(stack)
        BY <1>1, <2>2
      <3>2. \A x \in HeldBy(stack[i]) : fds'[x] = fds[x]
        BY <3>1, HeldAt, SoundKept
      <3>3. LastHeld(stack[i]) => stack[i].fd[2] \in HeldBy(stack[i])
        BY DEF LastHeld, HeldBy
      <3>. QED  BY <3>1, <3>2, <3>3
    <2>. QED  BY <2>1, <2>2
  <1>3. ASSUME NEW i \in 1 .. Len(stack), LastHeld(stack[i])
        PROVE  i \in 1 .. n
    <2>1. i = Len(stack) => n = Len(stack)
      BY <1>1, <1>3, NotEndList
    <2>. QED  BY <1>1, <2>1
  <1>4. EndsKept
    BY <1>1, <1>2, <1>3 DEF EndsKept, IsEnd
  <1>5. ASSUME NEW x \in Fd, IsEnd(x)'
        PROVE  IsEnd(x) /\ fds'[x].file = fds[x].file
    <2>1. PICK i \in 1 .. n : LastHeld(stack'[i]) /\ x = stack'[i].fd[2]
      BY <1>1, <1>5 DEF IsEnd
    <2>2. LastHeld(stack[i]) /\ x = stack[i].fd[2] /\ fds'[x].file = fds[x].file
      BY <1>2, <2>1
    <2>3. i \in 1 .. Len(stack)
      BY <1>1
    <2>. QED  BY <2>2, <2>3 DEF IsEnd
  <1>. QED  BY <1>4, <1>5 DEF EndsFrom

LEMMA LeaksCut ==
    ASSUME Shape, Held, shell = "alive", OnlyTop, NEW n, NEW g, GoesTo(n, g),
           \A x \in Fd :
               x > 2 /\ fds'[x] # Closed /\ x \notin HeldBy(g)
               /\ (x \in Free(fds) \/ x \in HeldBy(Top) \/ x \in HeldBy(stack[n]))
                 => Spent(fds[x].file)'
    PROVE  LeaksFrom
  <1>1. n \in 1 .. Len(stack) /\ Len(stack') = n /\ stack'[n] = g
        /\ (\A i \in 1 .. n - 1 : stack'[i] = stack[i]) /\ Len(stack) \in Nat /\ n \in Nat
        /\ Top = stack[Len(stack)] /\ (n = Len(stack) \/ n = Len(stack) - 1)
    BY TopFacts DEF GoesTo, Cut
  <1>2. fds \in Table(Len(pipes))
    BY HeldAt
  <1>3. ASSUME NEW x \in Fd, (x \in Leaked)', ~(Spent(fds[x].file)')
        PROVE  x \in Leaked /\ fds'[x].file = fds[x].file
    <2>1. x > 2 /\ fds'[x] # Closed /\ \A i \in 1 .. n : x \notin HeldBy(stack'[i])
      BY <1>1, <1>3 DEF Leaked
    <2>2. x \notin Free(fds) /\ x \notin HeldBy(Top) /\ x \notin HeldBy(stack[n])
      BY <1>1, <1>3, <2>1
    <2>3. ASSUME NEW i \in 1 .. Len(stack) PROVE x \notin HeldBy(stack[i])
      <3>1. i = n \/ i = Len(stack) \/ i \in 1 .. n - 1
        BY <1>1
      <3>. QED  BY <1>1, <2>1, <2>2, <3>1
    <2>4. fds[x] # Closed /\ fds'[x] = fds[x]
      BY <1>2, <2>1, <2>2, ClosedIsFree DEF OnlyTop
    <2>. QED  BY <2>1, <2>3, <2>4 DEF Leaked
  <1>. QED  BY <1>3 DEF LeaksFrom

\* Pipelines that have not begun to wait for their processes.
Busy(f) == f.type = "pipeline" /\ f.phase # "wait"
Going   == {i \in 1 .. Len(stack) : Busy(stack[i])}

SameLeaks == Leaked' = Leaked /\ Going' = Going

\* A pipeline begins to wait, and leaves one descriptor open.
LeavesOne ==
    /\ \E x : x \notin Leaked /\ Leaked' = Leaked \cup {x}
    /\ \E m \in Going : Going' = Going \ {m}

\* What is left open is what was, and the descriptors E the frame on top held.
LEMMA LeakedCut ==
    ASSUME Shape, Held, shell = "alive", OnlyTop, NEW n, NEW g, Cut(n, g),
           n = Len(stack) \/ n = Len(stack) - 1,
           NEW E, \A x \in E : x \in HeldBy(Top) /\ fds'[x] # Closed /\ x \notin HeldBy(g),
           \A x \in Fd :
               x > 2 /\ fds'[x] # Closed /\ x \notin HeldBy(g) =>
                   x \in E \/ (x \notin Free(fds) /\ x \notin HeldBy(Top) /\ x \notin HeldBy(stack[n])),
           \A x \in HeldBy(g) : x \in Free(fds) \/ x \in HeldBy(Top) \/ x \in HeldBy(stack[n])
    PROVE  Leaked' = Leaked \cup E
  <1>1. n \in 1 .. Len(stack) /\ Len(stack') = n /\ stack'[n] = g
        /\ (\A i \in 1 .. n - 1 : stack'[i] = stack[i]) /\ Len(stack) \in Nat /\ n \in Nat
        /\ Top = stack[Len(stack)] /\ Len(stack) \in 1 .. Len(stack)
    BY TopFacts DEF Cut
  <1>2. fds \in Table(Len(pipes)) /\ Apart /\ \A x \in HeldBy(Top) : x \in Fd /\ x > 2
    BY HeldAt DEF FrameSound, HeldFd
  <1>3. ASSUME NEW x \in Fd, (x \in Leaked)', x \notin E
        PROVE  x \in Leaked
    <2>1. x > 2 /\ fds'[x] # Closed /\ \A i \in 1 .. n : x \notin HeldBy(stack'[i])
      BY <1>1, <1>3 DEF Leaked
    <2>2. x \notin Free(fds) /\ x \notin HeldBy(Top) /\ x \notin HeldBy(stack[n])
      BY <1>1, <1>3, <2>1
    <2>3. ASSUME NEW i \in 1 .. Len(stack) PROVE x \notin HeldBy(stack[i])
      <3>1. i = n \/ i = Len(stack) \/ (i \in 1 .. n - 1 /\ i \in 1 .. n)
        BY <1>1
      <3>. QED  BY <1>1, <2>1, <2>2, <3>1
    <2>4. fds[x] # Closed
      BY <1>2, <2>2, ClosedIsFree
    <2>. QED  BY <2>1, <2>3, <2>4 DEF Leaked
  <1>4. ASSUME NEW x \in Fd, x \in Leaked
        PROVE  (x \in Leaked)'
    <2>1. x > 2 /\ fds[x] # Closed /\ \A i \in 1 .. Len(stack) : x \notin HeldBy(stack[i])
      BY <1>4 DEF Leaked
    <2>2. x \notin Free(fds) /\ x \notin HeldBy(Top) /\ x \notin HeldBy(stack[n])
      BY <1>1, <1>2, <2>1, ClosedIsFree
    <2>3. fds'[x] = fds[x] /\ x \notin HeldBy(g)
      BY <2>1, <2>2 DEF OnlyTop
    <2>4. ASSUME NEW i \in 1 .. n PROVE x \notin HeldBy(stack'[i])
      <3>1. i = n \/ (i \in 1 .. n - 1 /\ i \in 1 .. Len(stack))
        BY <1>1
      <3>. QED  BY <1>1, <2>1, <2>3, <3>1
    <2>. QED  BY <1>1, <2>1, <2>3, <2>4 DEF Leaked
  <1>5. ASSUME NEW x \in E
        PROVE  (x \in Leaked)'
    <2>1. x \in HeldBy(Top) /\ x \in Fd /\ x > 2 /\ fds'[x] # Closed /\ x \notin HeldBy(g)
      BY <1>2
    <2>2. ASSUME NEW i \in 1 .. n PROVE x \notin HeldBy(stack'[i])
      <3>1. i = n \/ (i \in 1 .. n - 1 /\ i \in 1 .. Len(stack) /\ i # Len(stack))
        BY <1>1
      <3>2. CASE i # n
        BY <1>1, <1>2, <2>1, <3>1, <3>2 DEF Apart
      <3>. QED  BY <1>1, <2>1, <3>2
    <2>. QED  BY <1>1, <2>1, <2>2 DEF Leaked
  <1>6. Leaked \subseteq Fd /\ Leaked' \subseteq Fd
    BY DEF Leaked
  <1>. QED  BY <1>3, <1>4, <1>5, <1>6

LEMMA GoingCut ==
    ASSUME Shape, NEW n, NEW g, Cut(n, g), Busy(g) <=> Busy(stack[n]),
           n = Len(stack) \/ (n = Len(stack) - 1 /\ ~Busy(Top))
    PROVE  Going' = Going
  <1>1. n \in 1 .. Len(stack) /\ Len(stack') = n /\ stack'[n] = g
        /\ (\A i \in 1 .. n - 1 : stack'[i] = stack[i]) /\ Len(stack) \in Nat /\ n \in Nat
        /\ Top = stack[Len(stack)]
    BY TopFacts DEF Cut
  <1>2. ASSUME NEW i \in 1 .. n PROVE i \in 1 .. Len(stack) /\ (Busy(stack'[i]) <=> Busy(stack[i]))
    <2>1. i = n \/ i \in 1 .. n - 1
      BY <1>1
    <2>. QED  BY <1>1, <2>1
  <1>3. ASSUME NEW i \in 1 .. Len(stack), Busy(stack[i]) PROVE i \in 1 .. n
    <2>1. i # Len(stack) \/ n = Len(stack)
      BY <1>1, <1>3
    <2>. QED  BY <1>1, <2>1
  <1>. QED  BY <1>1, <1>2, <1>3 DEF Going

\* Each pipeline that was started is going, or has left one descriptor open.
Counted == Ok => Cardinality(Leaked) + Cardinality(Going) = started

LEMMA GoingEnds ==
    ASSUME Shape, NEW g, Cut(Len(stack), g), Busy(Top), ~Busy(g)
    PROVE  Going' = Going \ {Len(stack)} /\ Len(stack) \in Going
  <1>0. PICK m : m = Len(stack)
    OBVIOUS
  <1>1. m \in Nat /\ m \in 1 .. m /\ Len(stack') = m /\ stack'[m] = g /\ Top = stack[m]
        /\ (\A i \in 1 .. m - 1 : stack'[i] = stack[i]) /\ \A i \in 1 .. m : i = m \/ i \in 1 .. m - 1
    BY <1>0, TopFacts DEF Cut
  <1>2. \A i \in 1 .. m : Busy(stack'[i]) <=> Busy(stack[i]) /\ i # m
    BY <1>1
  <1>. QED  BY <1>0, <1>1, <1>2 DEF Going

LEMMA SameLeaksCut ==
    ASSUME Shape, Held, shell = "alive", OnlyTop, NEW n, NEW g, GoesTo(n, g),
           Busy(g) <=> Busy(stack[n]),
           \A x \in Fd :
               x > 2 /\ fds'[x] # Closed /\ x \notin HeldBy(g) =>
                   x \notin Free(fds) /\ x \notin HeldBy(Top) /\ x \notin HeldBy(stack[n]),
           \A x \in HeldBy(g) : x \in Free(fds) \/ x \in HeldBy(Top) \/ x \in HeldBy(stack[n])
    PROVE  SameLeaks
  <1>1. Cut(n, g) /\ (n = Len(stack) \/ (n = Len(stack) - 1 /\ ~Busy(Top)))
    BY DEF GoesTo, Busy
  <1>2. Going' = Going
    BY <1>1, GoingCut
  <1>. DEFINE E == {}
  <1>3. \A x \in E : x \in HeldBy(Top) /\ fds'[x] # Closed /\ x \notin HeldBy(g)
    OBVIOUS
  <1>4. E = {}
    OBVIOUS
  <1>. HIDE DEF E
  <1>5. Leaked' = Leaked \cup E
    BY <1>1, <1>3, LeakedCut
  <1>. QED  BY <1>2, <1>4, <1>5 DEF SameLeaks

LEMMA LeaksPush ==
    ASSUME Shape, Held, shell = "alive", NEW g, NEW f, Pushed(g, f), Busy(g) <=> Busy(Top),
           HeldBy(g) = HeldBy(Top), HeldBy(f) \subseteq Free(fds),
           \A x \in Fd : x > 2 /\ x \notin Free(fds) => fds'[x] = fds[x],
           \A x \in Free(fds) : fds'[x] = Closed \/ x \in HeldBy(f)
    PROVE  /\ Leaked' = Leaked
           /\ Going' = Going \cup {i \in {Len(stack) + 1} : Busy(f)}
           /\ Len(stack) + 1 \notin Going
  <1>0. PICK m : m = Len(stack)
    OBVIOUS
  <1>1. m \in Nat /\ Top = stack[m] /\ m = Len(stack) /\ m \in 1 .. m
    BY <1>0, TopFacts
  <1>2. Len(stack') = m + 1 /\ stack'[m] = g /\ stack'[m + 1] = f
        /\ (\A i \in 1 .. m - 1 : stack'[i] = stack[i]) /\ 1 .. m + 1 = (1 .. m) \cup {m + 1}
        /\ m + 1 \notin 1 .. m
    BY <1>0, <1>1 DEF Pushed
  <1>3. fds \in Table(Len(pipes))
    BY HeldAt
  <1>4. \A i \in 1 .. m : HeldBy(stack'[i]) = HeldBy(stack[i]) /\ (Busy(stack'[i]) <=> Busy(stack[i]))
    BY <1>1, <1>2
  <1>5. ASSUME NEW x \in Fd PROVE (x \in Leaked)' <=> x \in Leaked
    <2>1. (x \in Leaked)' <=> /\ x > 2 /\ fds'[x] # Closed /\ x \notin HeldBy(f)
                             /\ \A i \in 1 .. m : x \notin HeldBy(stack[i])
      BY <1>2, <1>4 DEF Leaked
    <2>2. x \in Free(fds) <=> fds[x] = Closed
      BY <1>3, ClosedIsFree
    <2>. QED  BY <1>1, <2>1, <2>2 DEF Leaked
  <1>6. Leaked \subseteq Fd /\ Leaked' \subseteq Fd
    BY DEF Leaked
  <1>7. Going' = Going \cup {i \in {m + 1} : Busy(f)}
    BY <1>1, <1>2, <1>4 DEF Going
  <1>. QED  BY <1>0, <1>1, <1>2, <1>5, <1>6, <1>7 DEF Going

\* The descriptors stay as they are.
LEMMA OpenSame ==
    ASSUME Shape, Held, Ended, Open, Ok, [Next]_vars, UNCHANGED fds, NEW n, NEW g, GoesTo(n, g),
           LastHeld(g) <=> LastHeld(stack[n]), LastHeld(g) => g.fd = stack[n].fd,
           HeldBy(stack[n]) \subseteq HeldBy(g), HeldBy(Top) \subseteq HeldBy(g), InOwn',
           HeldBy(g) \subseteq HeldBy(stack[n]) \cup HeldBy(Top), Busy(g) <=> Busy(stack[n])
    PROVE  Open' /\ SameLeaks
  <1>1. OnlyTop /\ Moved /\ shell = "alive"
    BY DEF OnlyTop, Moved, Ok
  <1>2. EndsKept /\ EndsFrom
    BY <1>1, EndsCut
  <1>3. fds \in Table(Len(pipes))
    BY <1>1, HeldAt
  <1>4. LeaksFrom
    BY <1>1, <1>3, LeaksCut, ClosedIsFree
  <1>5. SameLeaks
    BY <1>1, <1>3, SameLeaksCut, ClosedIsFree
  <1>. QED  BY <1>1, <1>2, <1>4, <1>5, OpenCut


----------------------------------------------------------------------------
(* Each action of the shell keeps what is said of what is left open *)

SameKinds(f, g) ==
    Len(g.cmds) = Len(f.cmds) /\ \A j \in 1 .. Len(f.cmds) : g.cmds[j].kind = f.cmds[j].kind

LEMMA PipelineGoes ==
    ASSUME Shape, Shape', NEW n, NEW g, Cut(n, g), stack[n].type = "pipeline",
           g.type = "pipeline", SameKinds(stack[n], g), g.first = stack[n].first
    PROVE  Continues(stack[n], g)
  <1>1. n \in 1 .. Len(stack) /\ n \in 1 .. Len(stack') /\ stack'[n] = g
    BY TopFacts DEF Cut
  <1>2. PipelineOK(stack[n], Len(procs), Len(pipes)) /\ PipelineOK(g, Len(procs'), Len(pipes'))
    BY <1>1 DEF Shape, Stacked, FrameOK
  <1>3. DOMAIN stack[n].cmds = 1 .. Len(stack[n].cmds) /\ DOMAIN g.cmds = 1 .. Len(g.cmds)
    BY <1>2, CmdsDomain
  <1>4. Declares(g) <=> Declares(stack[n])
    BY <1>3, DeclaresSame DEF SameKinds
  <1>. QED  BY <1>4 DEF Continues

LEMMA RunsTo ==
    ASSUME Shape, RunsOn, NEW n, NEW g, Cut(n, g)
    PROVE  SameRun(stack[n], g)
  BY DEF RunsOn, Cut

LEMMA SetTopGoes ==
    ASSUME Shape, NEW g, SetTop(g), Continues(Top, g)
    PROVE  GoesTo(Len(stack), g) /\ Top' = g /\ stack[Len(stack)] = Top
  <1>1. Cut(Len(stack), g) /\ Top = stack[Len(stack)]
    BY TopFacts, SetTopCuts
  <1>. QED  BY <1>1, CutTop DEF GoesTo

LEMMA KindsRun ==
    ASSUME Shape, RunsOn, Top.type = "pipeline", NEW g, SetTop(g)
    PROVE  SameKinds(Top, g)
  <1>1. Cut(Len(stack), g) /\ Top = stack[Len(stack)]
    BY TopFacts, SetTopCuts
  <1>2. SameRun(Top, g)
    BY <1>1, RunsTo
  <1>. QED  BY <1>2 DEF SameRun, SameKinds

LEMMA KindsFork ==
    ASSUME Shape, Fork, NEW g, SetTop(g)
    PROVE  SameKinds(Top, g)
  <1>. DEFINE n == Len(procs) + 1
              h == [Top EXCEPT !.phase = "restore", !.cmds[Top.k].pid = n, !.cmds[Top.k].child = n]
  <1>1. InPipeline("args") /\ SetTop(h)
    BY DEF Fork
  <1>2. Top \in PipelineFrame /\ Top.k \in 1 .. Len(Top.cmds)
    BY <1>1, PipelineAt
  <1>3. h.cmds = [Top.cmds EXCEPT ![Top.k].pid = n, ![Top.k].child = n]
    BY <1>2 DEF PipelineFrame
  <1>. HIDE DEF h
  <1>4. g = h
    <2>1. Top' = h /\ Top' = g
      BY <1>1, TopFacts, SetTopCuts, CutTop
    <2>. QED  BY <2>1
  <1>5. Top.cmds \in Seq(NodeSet) /\ n \in Nat
    BY <1>2, FieldsOf, Counts
  <1>. HIDE DEF n
  <1>. DEFINE d == [Top.cmds[Top.k] EXCEPT !.pid = n, !.child = n]
  <1>6. d.kind = Top.cmds[Top.k].kind /\ d \in NodeSet
    <2>1. Top.cmds[Top.k] \in NodeSet
      BY <1>2, <1>5
    <2>. QED  BY <1>5, <2>1, ForkedAs
  <1>7. g.cmds = [Top.cmds EXCEPT ![Top.k] = d]
    BY <1>2, <1>3, <1>4, <1>5, ForkedNode
  <1>. HIDE DEF d
  <1>8. Len(g.cmds) = Len(Top.cmds) /\ g.cmds[Top.k] = d
        /\ \A j \in 1 .. Len(Top.cmds) : j # Top.k => g.cmds[j] = Top.cmds[j]
    BY <1>2, <1>5, <1>6, <1>7, SeqSet
  <1>. QED  BY <1>6, <1>8 DEF SameKinds

LEMMA CommandOpen ==
    ASSUME Shape, Shape', Held, Ended, Open, Ok, [Next]_vars, Runs
    PROVE  Open' /\ SameLeaks
  <1>1. UNCHANGED fds /\ Top.type = "pipeline" /\ Top.phase \in {"args", "builtin"}
        /\ PipelineOK(Top, Len(procs), Len(pipes))
    BY CommandAs, TopFacts
  <1>2. PICK g : RunsAs(g)
    BY CommandAs
  <1>3. SetTop(g) /\ g.type = "pipeline" /\ g.fd = Top.fd /\ g.saved = Top.saved /\ g.k = Top.k
        /\ g.in = Top.in /\ g.phase \in {"builtin", "restore"} /\ g.first = Top.first
    BY <1>2 DEF RunsAs
  <1>4. (HoldsIn(Top) <=> HoldsIn(g)) /\ (HoldsPipe(Top) <=> HoldsPipe(g)) /\ ~HoldsIn(g)
    BY <1>1, <1>3 DEF HoldsIn, HoldsPipe
  <1>5. HeldBy(g) = HeldBy(Top)
    BY <1>1, <1>3, <1>4, SameHolder
  <1>6. SameKinds(Top, g)
    <2>1. CASE Fork
      BY <1>3, <2>1, KindsFork
    <2>2. CASE ~Fork
      <3>1. RunsOn
        BY <2>2, BuiltinRuns, RunStep DEF Runs
      <3>. QED  BY <1>1, <1>3, <3>1, KindsRun
    <2>. QED  BY <2>1, <2>2
  <1>7. Continues(Top, g)
    <2>1. Cut(Len(stack), g) /\ Top = stack[Len(stack)]
      BY <1>3, TopFacts, SetTopCuts
    <2>. QED  BY <1>1, <1>3, <1>6, <2>1, PipelineGoes
  <1>8. GoesTo(Len(stack), g) /\ Top' = g /\ stack[Len(stack)] = Top
    BY <1>3, <1>7, SetTopGoes
  <1>9. LastHeld(g) <=> LastHeld(Top)
    BY <1>1, <1>3, <1>4, <1>6 DEF LastHeld, SameKinds
  <1>10. InOwn'
    BY <1>4, <1>8 DEF InOwn
  <1>11. Busy(g) /\ Busy(Top)
    BY <1>1, <1>3 DEF Busy
  <1>. QED  BY <1>1, <1>3, <1>5, <1>8, <1>9, <1>10, <1>11, OpenSame


LEMMA EndGroupOpen ==
    ASSUME Shape, Shape', Held, Ended, Open, Ok, [Next]_vars, EndGroup
    PROVE  Open' /\ SameLeaks
  <1>. DEFINE n == Len(stack) - 1
              f == stack[n]
              g == [f EXCEPT !.phase = "restore", !.cmds[f.k].status = EndStatus]
  <1>1. shell = "alive" /\ UNCHANGED fds /\ stack' = Append(SubSeq(stack, 1, n - 1), g)
        /\ Top.type \in {"group", "subshell", "loop"}
    BY EndGroupAs
  <1>2. n \in 1 .. Len(stack) /\ f \in PipelineFrame /\ f.type = "pipeline" /\ f.phase = "args"
        /\ n \in 1 .. Len(stack) - 1
    BY <1>1, BelowList, TopFacts
  <1>3. g.type = "pipeline" /\ g.in = f.in /\ g.fd = f.fd /\ g.saved = f.saved /\ g.phase = "restore"
        /\ g.first = f.first /\ g.k = f.k
    BY <1>2 DEF PipelineFrame
  <1>4. f = stack[n] /\ n = Len(stack) - 1
    OBVIOUS
  <1>. HIDE DEF g, f, n
  <1>5. Cut(n, g)
    BY <1>1, <1>2, TopFacts, AppendCuts
  <1>6. (HoldsIn(f) <=> HoldsIn(g)) /\ (HoldsPipe(f) <=> HoldsPipe(g)) /\ ~HoldsIn(g)
    BY <1>2, <1>3 DEF HoldsIn, HoldsPipe
  <1>7. HeldBy(g) = HeldBy(f) /\ HeldBy(Top) = {}
    BY <1>1, <1>2, <1>3, <1>6, SameHolder DEF HeldBy
  <1>8. SameKinds(f, g)
    <2>1. SameRun(f, g)
      BY <1>4, <1>5, EndGroupRuns, RunsTo
    <2>. QED  BY <1>2, <2>1 DEF SameRun, SameKinds
  <1>9. Continues(f, g)
    BY <1>2, <1>3, <1>4, <1>5, <1>8, PipelineGoes
  <1>10. GoesTo(n, g)
    BY <1>1, <1>4, <1>5, <1>9 DEF GoesTo
  <1>11. LastHeld(g) <=> LastHeld(f)
    BY <1>2, <1>3, <1>6, <1>8 DEF LastHeld, SameKinds
  <1>12. InOwn'
    BY <1>5, <1>6, CutTop DEF InOwn
  <1>13. Busy(g) /\ Busy(f)
    BY <1>2, <1>3 DEF Busy
  <1>. QED  BY <1>1, <1>3, <1>4, <1>7, <1>10, <1>11, <1>12, <1>13, OpenSame

\* Neither the stack nor the descriptors change.
LEMMA StillOpen ==
    ASSUME Shape, Held, Ended, Open, Ok, [Next]_vars, UNCHANGED <<stack, fds>>
    PROVE  Open' /\ SameLeaks
  <1>1. Cut(Len(stack), Top) /\ Top = stack[Len(stack)]
    BY TopFacts DEF Cut
  <1>2. GoesTo(Len(stack), Top)
    BY <1>1 DEF GoesTo, Continues
  <1>3. InOwn'
    BY DEF Open, InOwn, Top, Ok
  <1>. QED  BY <1>1, <1>2, <1>3, OpenSame

LEMMA OpenPush ==
    ASSUME Shape, Held, Ended, Open, Ok, [Next]_vars, NEW g, NEW f, Pushed(g, f), Continues(Top, g),
           f.type = "pipeline" => OldBelow' /\ f.first = Len(pipes) /\ UNCHANGED pipes,
           LastHeld(g) <=> LastHeld(Top), LastHeld(g) => g.fd = Top.fd, ~LastHeld(f),
           \A x \in Fd : x > 2 /\ x \notin Free(fds) => fds'[x] = fds[x],
           HeldBy(g) = HeldBy(Top), Moved, Busy(g) <=> Busy(Top), HeldBy(f) \subseteq Free(fds),
           \A x \in Free(fds) : fds'[x] = Closed \/ x \in HeldBy(f), InOwn'
    PROVE  /\ Open' /\ Leaked' = Leaked
           /\ Going' = Going \cup {i \in {Len(stack) + 1} : Busy(f)}
           /\ Len(stack) + 1 \notin Going
  <1>0. PICK m : m = Len(stack)
    OBVIOUS
  <1>1. m \in Nat /\ Top = stack[m] /\ m = Len(stack) /\ m \in 1 .. m /\ shell = "alive"
    BY <1>0, TopFacts DEF Ok
  <1>2. Len(stack') = m + 1 /\ stack'[m] = g /\ stack'[m + 1] = f
        /\ \A i \in 1 .. m - 1 : stack'[i] = stack[i]
    BY <1>0 DEF Pushed
  <1>3. OnlyTop
    BY DEF OnlyTop
  <1>4. StackGrows /\ StackGoes
    BY DEF StackGrows, StackGoes
  <1>5. Older'
    BY <1>3, OlderGrows DEF Open, Continues
  <1>6. \A i \in 1 .. m : /\ LastHeld(stack'[i]) <=> LastHeld(stack[i])
                          /\ LastHeld(stack[i]) => stack'[i].fd = stack[i].fd
                          /\ HeldBy(stack[i]) \subseteq HeldBy(stack'[i])
    BY <1>1, <1>2
  <1>7. ASSUME NEW x \in Fd PROVE IsEnd(x)' <=> IsEnd(x)
    <2>1. IsEnd(x) => IsEnd(x)'
      BY <1>1, <1>2, <1>6 DEF IsEnd
    <2>2. ASSUME NEW i \in 1 .. m + 1, LastHeld(stack'[i]), x = stack'[i].fd[2]
          PROVE  IsEnd(x)
      <3>1. i \in 1 .. m
        BY <1>1, <1>2, <2>2
      <3>. QED  BY <1>1, <1>6, <2>2, <3>1 DEF IsEnd
    <2>3. IsEnd(x)' => IsEnd(x)
      BY <1>2, <2>2 DEF IsEnd
    <2>. QED  BY <2>1, <2>3
  <1>8. fds \in Table(Len(pipes))
    BY <1>1, HeldAt
  <1>9. EndsKept /\ EndsFrom
    <2>1. ASSUME NEW x \in Fd, IsEnd(x) PROVE fds'[x] = fds[x]
      <3>1. HeldFd(fds, x)
        BY <1>1, <2>1, EndHeld
      <3>. QED  BY <1>8, <3>1, ClosedIsFree DEF HeldFd
    <2>. QED  BY <1>7, <2>1 DEF EndsKept, EndsFrom
  <1>10. ASSUME NEW x \in Fd, (x \in Leaked)'
         PROVE  x \in Leaked /\ fds'[x] = fds[x]
    <2>1. x > 2 /\ fds'[x] # Closed /\ \A i \in 1 .. m + 1 : x \notin HeldBy(stack'[i])
      BY <1>2, <1>10 DEF Leaked
    <2>2. x \notin Free(fds)
      BY <1>1, <1>2, <2>1
    <2>3. \A i \in 1 .. m : x \notin HeldBy(stack[i])
      BY <1>1, <1>6, <2>1
    <2>. QED  BY <1>1, <1>8, <2>1, <2>2, <2>3, ClosedIsFree DEF Leaked
  <1>11. LeaksFrom
    BY <1>10 DEF LeaksFrom
  <1>12. LastMuted'
    BY <1>9, LastMutedStep DEF Open
  <1>13. LeaksSpent'
    BY <1>4, <1>9, <1>11, LeaksStep, DeclaredStep DEF Open
  <1>14. /\ Leaked' = Leaked
         /\ Going' = Going \cup {i \in {Len(stack) + 1} : Busy(f)}
         /\ Len(stack) + 1 \notin Going
    BY <1>1, LeaksPush
  <1>. QED  BY <1>5, <1>12, <1>13, <1>14 DEF Open


LEMMA StartPipelineOpen ==
    ASSUME Shape, Shape', Held, Ended, Kept, Open, Ok, [Next]_vars,
           NEW n \in 1 .. MaxCmds, NEW kinds \in [1 .. n -> Kind], NEW negate \in Negations,
           StartPipeline(kinds, negate)
    PROVE  /\ Open' /\ Leaked' = Leaked
           /\ Going' = Going \cup {Len(stack) + 1} /\ Len(stack) + 1 \notin Going
  <1>. DEFINE g == [Top EXCEPT !.ran = TRUE]
              f == PipelineOf(kinds, negate)
  <1>1. InList /\ UNCHANGED <<shell, fds, procs, pipes, failed>> /\ Top.type # "pipeline"
    BY DEF StartPipeline, InList
  <1>2. /\ g.type = Top.type /\ g.phase = "run" /\ g.std = Top.std /\ g.reader = Top.reader
        /\ g.saved = Top.saved /\ negate \in BOOLEAN /\ Pushed(g, f)
    BY StartPipelineAs
  <1>3. Top.phase = "run"
    BY <1>1 DEF InList
  <1>4. f.type = "pipeline" /\ f.phase = "pipe" /\ f.in = 0 /\ f.first = Len(pipes) /\ f.saved = <<>>
    BY <1>2, NewPipeline
  <1>. HIDE DEF f, g
  <1>5. HeldBy(g) = HeldBy(Top) /\ Continues(Top, g) /\ ~LastHeld(g) /\ ~LastHeld(Top) /\ ~LastHeld(f)
    BY <1>1, <1>2, <1>3, <1>4 DEF HeldBy, Continues, LastHeld, HoldsPipe
  <1>6. OldBelow'
    <2>0. PICK m : m = Len(stack)
      OBVIOUS
    <2>1. m \in Nat /\ Top = stack[m] /\ Len(stack') = m + 1 /\ stack'[m] = g /\ m \in 1 .. m
          /\ \A i \in 1 .. m - 1 : stack'[i] = stack[i]
      BY <1>2, <2>0, TopFacts DEF Pushed
    <2>2. ASSUME NEW i \in 1 .. m
          PROVE  Past(stack[i], Len(pipes))'
      <3>1. Past(stack[i], Len(pipes))
        BY <1>1, <2>0, <2>2, PastNow
      <3>2. CASE i = m
        BY <1>1, <1>2, <1>5, <2>1, <3>1, <3>2 DEF Past
      <3>3. CASE i # m
        <4>1. stack'[i] = stack[i]
          BY <2>1, <3>3
        <4>. QED  BY <1>1, <3>1, <4>1 DEF Past
      <3>. QED  BY <3>2, <3>3
    <2>3. Len(stack') - 1 = m
      BY <2>1
    <2>. QED  BY <2>2, <2>3 DEF OldBelow
  <1>7. InOwn'
    <2>1. Top' = f
      BY <1>2 DEF Top, Pushed
    <2>. QED  BY <1>4, <2>1 DEF InOwn, HoldsIn
  <1>8. Moved /\ fds \in Table(Len(pipes))
    BY <1>1, HeldAt DEF Moved, Ok
  <1>9. \A x \in Free(fds) : fds'[x] = Closed
    BY <1>1 DEF Free
  <1>10. Busy(f) /\ ~Busy(g) /\ ~Busy(Top)
    BY <1>1, <1>2, <1>4 DEF Busy
  <1>11. HeldBy(f) = {}
    <2>1. Len(f.saved) = 0 /\ 1 .. 0 = {} /\ ~HoldsIn(f) /\ ~HoldsPipe(f)
      BY <1>4 DEF HoldsIn, HoldsPipe
    <2>. QED  BY <1>4, <2>1 DEF HeldBy
  <1>12. {i \in {Len(stack) + 1} : Busy(f)} = {Len(stack) + 1}
    BY <1>10
  <1>. QED  BY <1>1, <1>2, <1>4, <1>5, <1>6, <1>7, <1>8, <1>9, <1>10, <1>11, <1>12, OpenPush

LEMMA EnterGroupOpen ==
    ASSUME Shape, Shape', Held, Ended, Open, Ok, [Next]_vars, EnterGroup
    PROVE  Open' /\ SameLeaks
  <1>0. PICK f : /\ Push(f) /\ f.type \in {"group", "subshell", "loop"} /\ f.type # "pipeline"
                 /\ f.type # "subst" /\ f.std = Std(fds) /\ InPipeline("args") /\ shell = "alive"
                 /\ UNCHANGED <<shell, fds, procs, pipes, started, failed>>
    BY EnterGroupAs
  <1>1. UNCHANGED fds /\ Push(f)
    BY <1>0
  <1>2. Pushed(Top, f)
    BY <1>1, TopFacts, PushPushes
  <1>3. f.type # "pipeline" /\ f.type # "subst"
    BY <1>0
  <1>4. Continues(Top, Top) /\ ~LastHeld(f)
    BY <1>3 DEF Continues, LastHeld
  <1>5. Top' = f
    BY <1>2 DEF Top, Pushed
  <1>6. InOwn'
    BY <1>3, <1>5 DEF InOwn
  <1>7. Moved /\ \A x \in Free(fds) : fds'[x] = Closed
    BY <1>1 DEF Moved, Free
  <1>8. HeldBy(f) = {} /\ ~Busy(f)
    BY <1>3 DEF HeldBy, Busy
  <1>. QED  BY <1>1, <1>2, <1>3, <1>4, <1>6, <1>7, <1>8, OpenPush DEF SameLeaks

\* The descriptors 0, 1 and 2 hold no end that waits to be closed.
LEMMA NotEndStd ==
    ASSUME Shape, Held, shell = "alive", NEW x \in 0 .. 2
    PROVE  ~IsEnd(x) /\ x \in Fd
  BY EndHeld, StdFds, FdNumbers DEF HeldFd

LEMMA BeginSubstitutionOpen ==
    ASSUME Shape, Shape', Held, Ended, Open, Ok, [Next]_vars, BeginSubstitution
    PROVE  Open' /\ SameLeaks
  <1>1. PICK r \in Free(fds), w \in Free(fds), n \in Free(fds) \cup {-1} : Substitutes(r, w, n)
    BY BeginSubstitutionAt
  <1>. DEFINE f == [List("subst", Std(fds')) EXCEPT !.reader = r, !.saved = n]
  <1>2. shell = "alive" /\ fds \in Table(Len(pipes)) /\ Len(pipes) \in Nat
    BY HeldAt, Counts DEF Ok
  <1>3. f.type = "subst" /\ f.phase = "run" /\ f.reader = r /\ f.saved = n
    BY DEF List
  <1>4. Push(f)
    BY <1>1 DEF Substitutes
  <1>5. \A x \in Fd :
          fds'[x] = IF x = r THEN [file |-> Reader(Len(pipes) + 1), cloexec |-> TRUE]
                    ELSE IF x = w THEN Closed
                    ELSE IF x = 1 THEN [file |-> Writer(Len(pipes) + 1), cloexec |-> FALSE]
                    ELSE IF x = n THEN [file |-> fds[1].file, cloexec |-> TRUE]
                    ELSE fds[x]
    BY <1>1, Zenon DEF Substitutes
  <1>. HIDE DEF f
  <1>6. Pushed(Top, f)
    BY <1>4, TopFacts, PushPushes
  <1>7. Continues(Top, Top) /\ ~LastHeld(f)
    BY <1>3 DEF Continues, LastHeld
  <1>8. InOwn'
    <2>1. Top' = f
      BY <1>6 DEF Top, Pushed
    <2>. QED  BY <1>3, <2>1 DEF InOwn
  <1>9. r \in HeldBy(f) /\ (n # -1 => n \in HeldBy(f))
    BY <1>3 DEF HeldBy
  <1>10. \A x \in Free(fds) : x \in Fd /\ x > 2 /\ fds[x] = Closed
    BY <1>2, HeldAt, FreeAbove
  <1>11. \A x \in Fd : x # -1
    BY FdNumbers
  <1>12. \A x \in Free(fds) : fds'[x] = Closed \/ x \in HeldBy(f)
    BY <1>5, <1>9, <1>10, <1>11
  <1>13. \A x \in Fd : x > 2 /\ x \notin Free(fds) => fds'[x] = fds[x]
    BY <1>1, <1>5, <1>11
  <1>14. ASSUME NEW x \in Fd, NEW p \in 1 .. Len(pipes), fds'[x].file = Writer(p)
         PROVE  fds[x].file = Writer(p) \/ fds[1].file = Writer(p)
    <2>1. Reader(Len(pipes) + 1) # Writer(p) /\ Writer(Len(pipes) + 1) # Writer(p)
      BY <1>2 DEF Reader, Writer
    <2>. QED  BY <1>5, <1>14, <2>1, WriterIsOpen
  <1>15. Moved
    BY <1>2, <1>14, NotEndStd DEF Moved
  <1>16. HeldBy(f) \subseteq Free(fds) /\ ~Busy(f)
    BY <1>1, <1>3 DEF HeldBy, Busy
  <1>. QED  BY <1>3, <1>6, <1>7, <1>8, <1>12, <1>13, <1>15, <1>16, OpenPush DEF SameLeaks


LEMMA NotEndTop ==
    ASSUME Shape, Held, shell = "alive", NEW y \in HeldBy(Top), LastHeld(Top) => y # Top.fd[2]
    PROVE  ~IsEnd(y) /\ y \in Fd
  <1>1. Top = stack[Len(stack)] /\ Len(stack) \in 1 .. Len(stack) /\ Apart
    BY TopFacts, HeldAt
  <1>2. y \in Fd
    BY HeldAt DEF FrameSound, HeldFd
  <1>3. ASSUME NEW i \in 1 .. Len(stack), LastHeld(stack[i]), y = stack[i].fd[2]
        PROVE  FALSE
    <2>1. y \in HeldBy(stack[i])
      BY <1>3 DEF LastHeld, HeldBy
    <2>2. i = Len(stack)
      BY <1>1, <2>1 DEF Apart
    <2>. QED  BY <1>1, <1>3, <2>2
  <1>. QED  BY <1>2, <1>3 DEF IsEnd

LEMMA EndSubstitutionOpen ==
    ASSUME Shape, Shape', Held, Ended, Open, Ok, [Next]_vars, EndSubstitution
    PROVE  Open' /\ SameLeaks
  <1>. DEFINE g == [Top EXCEPT !.phase = "read"]
              s == Top.saved
  <1>1. /\ SetTop(g) /\ Top.type = "subst" /\ Top.phase = "run" /\ shell = "alive"
        /\ s = -1 => UNCHANGED fds
        /\ s # -1 => \A x \in Fd :
             fds'[x] = IF x = s THEN Closed
                       ELSE IF x = 1 THEN [file |-> fds[s].file, cloexec |-> FALSE]
                       ELSE fds[x]
    BY EndSubstitutionAt DEF EndSubstitution, Ok
  <1>2. Top \in ListFrame
    BY <1>1, TopFacts
  <1>3. g.type = Top.type /\ g.phase = "read" /\ g.reader = Top.reader /\ g.saved = Top.saved
    BY <1>2 DEF ListFrame
  <1>4. s # -1 => s \in HeldBy(Top)
    BY EndSubstitutionAt
  <1>. HIDE DEF g
  <1>5. HeldBy(g) = {Top.reader} /\ HeldBy(Top) \subseteq {Top.reader, s}
        /\ (s = -1 => HeldBy(Top) = {Top.reader})
    BY <1>1, <1>3 DEF HeldBy
  <1>6. Continues(Top, g) /\ ~LastHeld(Top) /\ ~LastHeld(g)
    BY <1>1, <1>3 DEF Continues, LastHeld
  <1>. HIDE DEF s
  <1>7. GoesTo(Len(stack), g) /\ Top' = g /\ stack[Len(stack)] = Top
    BY <1>1, <1>6, SetTopGoes
  <1>8. InOwn'
    BY <1>1, <1>3, <1>7 DEF InOwn
  <1>9. OnlyTop
    BY <1>1, <1>4 DEF OnlyTop
  <1>10. EndsKept /\ EndsFrom
    BY <1>1, <1>6, <1>7, <1>9, EndsCut
  <1>11. Moved
    <2>1. s # -1 => ~IsEnd(s) /\ s \in Fd
      BY <1>1, <1>4, <1>6, NotEndTop
    <2>. QED  BY <1>1, <2>1, WriterIsOpen DEF Moved
  <1>12. \A x \in Free(fds) : x \in Fd /\ x > 2 /\ fds[x] = Closed
    BY <1>1, HeldAt, FreeAbove
  <1>13. LeaksFrom /\ SameLeaks
    <2>1. ASSUME NEW x \in Fd, x > 2, fds'[x] # Closed, x \notin HeldBy(g),
                 x \in Free(fds) \/ x \in HeldBy(Top)
          PROVE  FALSE
      BY <1>1, <1>5, <1>12, <2>1
    <2>2. HeldBy(g) \subseteq HeldBy(Top) /\ ~Busy(g) /\ ~Busy(Top)
      BY <1>1, <1>3 DEF HeldBy, Busy
    <2>. QED  BY <1>1, <1>7, <1>9, <2>1, <2>2, LeaksCut, SameLeaksCut
  <1>. QED  BY <1>7, <1>8, <1>9, <1>10, <1>11, <1>13, OpenCut

LEMMA ReadEndOpen ==
    ASSUME Shape, Shape', Held, Ended, Open, Ok, [Next]_vars, ReadEnd
    PROVE  Open' /\ SameLeaks
  <1>. DEFINE n == Len(stack) - 1
              g == stack[n]
  <1>1. /\ n \in 1 .. Len(stack) /\ n # 0 /\ n # Len(stack) /\ Cut(n, g) /\ Top.type = "subst"
        /\ Top.reader \in HeldBy(Top) /\ HeldFd(fds, Top.reader)
        /\ \A x \in Fd : fds'[x] = IF x = Top.reader THEN Closed ELSE fds[x]
    BY ReadEndAt
  <1>2. shell = "alive" /\ Top.phase = "read"
    BY DEF ReadEnd, Reading
  <1>3. Under(g, Top)
    BY <1>1, TopFacts
  <1>4. n = Len(stack) - 1 /\ g = stack[n]
    OBVIOUS
  <1>. HIDE DEF g, n
  <1>5. HeldBy(Top) = {Top.reader}
    BY <1>1, <1>2 DEF HeldBy
  <1>6. GoesTo(n, g)
    BY <1>1, <1>4 DEF GoesTo, Continues
  <1>7. InOwn'
    <2>1. Top' = g
      BY <1>1, CutTop
    <2>. QED  BY <1>1, <1>3, <2>1 DEF Under, InOwn, HoldsIn
  <1>8. OnlyTop
    BY <1>1 DEF OnlyTop
  <1>9. n \in 1 .. Len(stack) - 1
    BY <1>1, <1>4, TopFacts
  <1>10. LastHeld(g) => fds'[g.fd[2]] = fds[g.fd[2]]
    <2>1. LastHeld(g) => g.fd[2] \in HeldBy(g)
      BY DEF LastHeld, HeldBy
    <2>2. \A x \in HeldBy(g) : fds'[x] = fds[x]
      BY <1>1, <1>2, <1>4, <1>8, HeldAt, SoundKept
    <2>. QED  BY <2>1, <2>2
  <1>11. EndsKept /\ EndsFrom
    BY <1>2, <1>4, <1>6, <1>8, <1>10, EndsCut
  <1>12. Moved
    BY <1>1, WriterIsOpen DEF Moved
  <1>13. \A x \in Free(fds) : x \in Fd /\ x > 2 /\ fds[x] = Closed
    BY <1>2, HeldAt, FreeAbove
  <1>14. LeaksFrom /\ SameLeaks
    <2>1. ASSUME NEW x \in Fd, x > 2, fds'[x] # Closed, x \notin HeldBy(g),
                 x \in Free(fds) \/ x \in HeldBy(Top) \/ x \in HeldBy(stack[n])
          PROVE  FALSE
      BY <1>1, <1>4, <1>5, <1>13, <2>1
    <2>. QED  BY <1>2, <1>4, <1>6, <1>8, <2>1, LeaksCut, SameLeaksCut
  <1>. QED  BY <1>6, <1>7, <1>8, <1>11, <1>12, <1>14, OpenCut

LEMMA RedirectionOpen ==
    ASSUME Shape, Shape', Held, Ended, Open, Ok, [Next]_vars, InputRedirection \/ OutputRedirection
    PROVE  Open' /\ ("input" \notin Feature => SameLeaks)
  <1>1. shell = "alive" /\ UNCHANGED stack /\ Top.type = "pipeline" /\ Top.phase = "args"
    BY DEF InputRedirection, OutputRedirection, InPipeline
  <1>2. Cut(Len(stack), Top) /\ Top = stack[Len(stack)]
    BY <1>1, TopFacts DEF Cut
  <1>3. GoesTo(Len(stack), Top)
    BY <1>2 DEF GoesTo, Continues
  <1>4. ~HoldsIn(Top) /\ Top' = Top
    BY <1>1 DEF HoldsIn, Top
  <1>5. InOwn'
    BY <1>4 DEF InOwn
  <1>6. \A x \in Free(fds) : x \in Fd /\ x > 2 /\ fds[x] = Closed
    BY <1>1, HeldAt, FreeAbove
  <1>7. \A x \in Fd : \/ fds'[x] = fds[x]
                      \/ fds'[x].file = File /\ (x \in Free(fds) \/ x = 0 \/ x = 1)
    <2>1. CASE InputRedirection
      BY <2>1, InputRedirectionAt
    <2>2. CASE OutputRedirection
      BY <2>2, OutputRedirectionAt
    <2>. QED  BY <2>1, <2>2
  <1>8. OnlyTop
    BY <1>7 DEF OnlyTop
  <1>9. Moved
    <2>1. \A p : File # Writer(p)
      BY DEF File, Writer
    <2>. QED  BY <1>7, <2>1 DEF Moved
  <1>10. EndsKept /\ EndsFrom
    <2>1. LastHeld(Top) => Top.fd[2] \in HeldBy(Top)
      BY DEF LastHeld, HeldBy
    <2>2. \A x \in HeldBy(Top) : x \in Fd /\ x > 2 /\ fds[x] # Closed
      BY <1>1, HeldAt DEF FrameSound, HeldFd
    <2>3. LastHeld(Top) => fds'[Top.fd[2]] = fds[Top.fd[2]]
      BY <1>6, <1>7, <2>1, <2>2
    <2>. QED  BY <1>1, <1>2, <1>3, <1>8, <2>3, EndsCut
  <1>11. ASSUME NEW x \in Fd, x > 2, fds'[x] # Closed, x \in Free(fds)
         PROVE  "input" \in Feature /\ fds'[x].file = File
    <2>1. fds'[x] # fds[x] /\ x # 1
      BY <1>6, <1>11
    <2>2. InputRedirection
      BY <1>11, <2>1, OutputRedirectionAt
    <2>. QED  BY <1>6, <1>7, <1>11, <2>1, <2>2 DEF InputRedirection
  <1>12. LeaksFrom /\ ("input" \notin Feature => SameLeaks)
    <2>1. ASSUME NEW x \in Fd, x > 2, fds'[x] # Closed, x \notin HeldBy(Top), x \in Free(fds)
          PROVE  Spent(fds[x].file)'
      BY <1>11, <2>1 DEF Spent
    <2>. QED  BY <1>1, <1>2, <1>3, <1>8, <1>11, <2>1, LeaksCut, SameLeaksCut
  <1>. QED  BY <1>3, <1>5, <1>8, <1>9, <1>10, <1>12, OpenCut


\* The pipeline on top goes on.
LEMMA TopGoes ==
    ASSUME Shape, Shape', RunsOn, Top.type = "pipeline", NEW g, SetTop(g), g.type = "pipeline",
           g.first = Top.first
    PROVE  GoesTo(Len(stack), g) /\ SameKinds(Top, g) /\ Top' = g /\ stack[Len(stack)] = Top
  <1>1. SameKinds(Top, g)
    BY KindsRun
  <1>2. Cut(Len(stack), g) /\ Top = stack[Len(stack)]
    BY TopFacts, SetTopCuts
  <1>3. Continues(Top, g)
    BY <1>1, <1>2, PipelineGoes
  <1>. QED  BY <1>1, <1>3, SetTopGoes

LEMMA RestoreDescriptorsOpen ==
    ASSUME Shape, Shape', Held, Ended, Open, Ok, [Next]_vars, RestoreDescriptors
    PROVE  Open' /\ SameLeaks
  <1>. DEFINE g == [Top EXCEPT !.phase = "next", !.saved = <<>>]
              S == {Top.saved[1], Top.saved[2], Top.saved[3]}
  <1>1. InPipeline("restore") /\ shell = "alive" /\ SetTop(g)
    BY DEF RestoreDescriptors, InPipeline
  <1>2. fds \in Table(Len(pipes)) /\ FrameSound(fds, Top)
    BY <1>1, HeldAt
  <1>3. Top \in PipelineFrame /\ Top.type = "pipeline" /\ Top.phase = "restore" /\ Len(Top.saved) = 3
    BY <1>1, PipelineAt, TopFields
  <1>4. g.type = "pipeline" /\ g.phase = "next" /\ g.saved = <<>> /\ g.fd = Top.fd
        /\ g.first = Top.first /\ g.k = Top.k
    BY <1>3 DEF PipelineFrame
  <1>. HIDE DEF g
  <1>5. HoldsPipe(Top) /\ HoldsPipe(g) /\ ~HoldsIn(g)
    BY <1>3, <1>4 DEF HoldsPipe, HoldsIn
  <1>6. /\ \A j \in 1 .. 3 : Top.saved[j] \in Fd /\ Top.saved[j] > 2 /\ fds[Top.saved[j]] # Closed
                             /\ Top.saved[j] \in HeldBy(Top)
        /\ \A x \in Fd :
             fds'[x] = IF x \in S THEN Closed
                       ELSE IF x = 0 THEN [file |-> fds[Top.saved[1]].file, cloexec |-> FALSE]
                       ELSE IF x = 1 THEN [file |-> fds[Top.saved[2]].file, cloexec |-> FALSE]
                       ELSE IF x = 2 THEN [file |-> fds[Top.saved[3]].file, cloexec |-> FALSE]
                       ELSE fds[x]
    BY RestoreDescriptorsAt
  <1>7. /\ \A j \in 1 .. 3 : Top.saved[j] \notin {Top.fd[1], Top.fd[2]}
        /\ Top.fd[1] \in HeldBy(Top) /\ Top.fd[2] \in HeldBy(Top)
    BY <1>2, <1>3, <1>5, SavedHeld
  <1>8. 1 \in 1 .. 3 /\ 2 \in 1 .. 3 /\ 3 \in 1 .. 3
    OBVIOUS
  <1>9. \A x \in S : x \in Fd /\ x > 2 /\ x \in HeldBy(Top) /\ x \notin {Top.fd[1], Top.fd[2]}
    BY <1>6, <1>7, <1>8
  <1>10. \A x \in Fd : \/ x \in S /\ fds'[x] = Closed
                       \/ x \notin S /\ fds'[x] = fds[x]
                       \/ x \in 0 .. 2 /\ \E y \in S : fds'[x].file = fds[y].file
    BY <1>6, StdFds
  <1>11. HeldBy(g) = {Top.fd[1], Top.fd[2]} /\ HeldBy(Top) \subseteq {Top.fd[1], Top.fd[2]} \cup S
    <2>1. \A j \in 1 .. 3 : j = 1 \/ j = 2 \/ j = 3
      OBVIOUS
    <2>2. ~HoldsIn(Top)
      BY <1>3 DEF HoldsIn
    <2>. QED  BY <1>3, <1>4, <2>1, <2>2, HeldByPipeline DEF HeldBy
  <1>. HIDE DEF S
  <1>12. OnlyTop
    <2>1. \A x \in Fd : x > 2 => x \notin 0 .. 2
      BY FdNumbers
    <2>. QED  BY <1>9, <1>10, <2>1 DEF OnlyTop
  <1>13. GoesTo(Len(stack), g) /\ SameKinds(Top, g) /\ Top' = g /\ stack[Len(stack)] = Top
    <2>1. RunsOn
      BY RunStep
    <2>. QED  BY <1>1, <1>3, <1>4, <2>1, TopGoes
  <1>14. LastHeld(g) <=> LastHeld(Top)
    BY <1>3, <1>4, <1>5, <1>13 DEF LastHeld, SameKinds
  <1>15. fds'[Top.fd[2]] = fds[Top.fd[2]]
    <2>1. Top.fd[2] \in Fd /\ Top.fd[2] \notin S /\ Top.fd[2] > 2
      BY <1>2, <1>7, <1>9 DEF FrameSound, HeldFd
    <2>2. Top.fd[2] \notin 0 .. 2
      BY <2>1, FdNumbers
    <2>. QED  BY <1>10, <2>1, <2>2
  <1>16. EndsKept /\ EndsFrom
    BY <1>1, <1>4, <1>12, <1>13, <1>14, <1>15, EndsCut
  <1>17. Moved
    <2>1. \A y \in S : ~IsEnd(y) /\ y \in Fd
      BY <1>1, <1>9, NotEndTop
    <2>. QED  BY <1>10, <2>1, WriterIsOpen DEF Moved
  <1>18. \A x \in Free(fds) : x \in Fd /\ x > 2 /\ fds[x] = Closed
    BY <1>1, HeldAt, FreeAbove
  <1>19. LeaksFrom /\ SameLeaks
    <2>1. ASSUME NEW x \in Fd, x > 2, fds'[x] # Closed, x \notin HeldBy(g),
                 x \in Free(fds) \/ x \in HeldBy(Top)
          PROVE  FALSE
      <3>1. x \notin 0 .. 2
        BY <2>1, FdNumbers
      <3>. QED  BY <1>10, <1>11, <1>18, <2>1, <3>1
    <2>2. HeldBy(g) \subseteq HeldBy(Top) /\ Busy(g) /\ Busy(Top)
      BY <1>3, <1>4, <1>7, <1>11 DEF Busy
    <2>. QED  BY <1>1, <1>12, <1>13, <2>1, <2>2, LeaksCut, SameLeaksCut
  <1>20. InOwn'
    BY <1>5, <1>13 DEF InOwn
  <1>. QED  BY <1>12, <1>13, <1>16, <1>17, <1>19, <1>20, OpenCut


LEMMA SavesMore ==
    ASSUME Top.type = "pipeline", HoldsPipe(Top), Len(Top.saved) \in Nat, NEW g, NEW n, Saves(g, n)
    PROVE  /\ n \in HeldBy(g)
           /\ \A x \in HeldBy(Top) : x \in HeldBy(g) \/ (x = Top.in /\ HoldsIn(Top))
           /\ \A x \in HeldBy(g) : x = n \/ x \in HeldBy(Top)
  <1>. DEFINE i == Len(Top.saved)
  <1>1. /\ g.type = "pipeline" /\ g.fd = Top.fd /\ HoldsPipe(g) /\ ~HoldsIn(g)
        /\ Len(g.saved) = i + 1 /\ g.saved[i + 1] = n
        /\ \A j \in 1 .. i : g.saved[j] = Top.saved[j]
    BY DEF Saves
  <1>2. i \in Nat
    OBVIOUS
  <1>3. \A x \in HeldBy(Top) : \/ x = Top.in /\ HoldsIn(Top)
                               \/ x \in {Top.fd[1], Top.fd[2]}
                               \/ \E j \in 1 .. i : x = Top.saved[j]
    BY DEF HeldBy
  <1>. HIDE DEF i
  <1>4. i + 1 \in 1 .. i + 1 /\ \A j \in 1 .. i : j \in 1 .. i + 1
    BY <1>2
  <1>5. \A j \in 1 .. i + 1 : g.saved[j] \in HeldBy(g)
    BY <1>1 DEF HeldBy
  <1>6. g.fd[1] \in HeldBy(g) /\ g.fd[2] \in HeldBy(g)
    BY <1>1 DEF HeldBy
  <1>7. \A j \in 1 .. i : Top.saved[j] \in HeldBy(g)
    BY <1>1, <1>4, <1>5
  <1>8. ASSUME NEW x \in HeldBy(g), x # n PROVE x \in HeldBy(Top)
    <2>1. x \in {Top.fd[1], Top.fd[2]} \/ \E j \in 1 .. i + 1 : x = g.saved[j]
      BY <1>1 DEF HeldBy
    <2>2. \A j \in 1 .. i + 1 : j \in 1 .. i \/ j = i + 1
      BY <1>2
    <2>3. \A j \in 1 .. i : Top.saved[j] \in HeldBy(Top)
      BY DEF HeldBy, i
    <2>4. Top.fd[1] \in HeldBy(Top) /\ Top.fd[2] \in HeldBy(Top)
      BY DEF HeldBy
    <2>. QED  BY <1>1, <1>8, <2>1, <2>2, <2>3, <2>4
  <1>. QED  BY <1>1, <1>3, <1>4, <1>5, <1>6, <1>7, <1>8

LEMMA SaveDescriptorOpen ==
    ASSUME Shape, Shape', Held, Ended, Open, Ok, [Next]_vars, SaveDescriptor
    PROVE  Open' /\ SameLeaks
  <1>. DEFINE i  == Len(Top.saved)
              n  == Lowest(Free(fds))
              to == Target(Top, i)
              g  == [Top EXCEPT !.saved = Append(@, n),
                                !.phase = IF i = 2 THEN "args" ELSE "save"]
  <1>1. InPipeline("save") /\ shell = "alive"
    BY DEF SaveDescriptor, InPipeline
  <1>2. fds \in Table(Len(pipes)) /\ StdOpen(fds) /\ FrameSound(fds, Top)
    BY <1>1, HeldAt
  <1>3. Top.type = "pipeline" /\ Top.phase = "save" /\ Top.fd[1] \in Fd /\ Top.fd[2] \in Fd
        /\ i \in 0 .. 2 /\ Top \in PipelineFrame
    BY <1>1, TopFields, PipelineAt
  <1>4. /\ n \in Free(fds) /\ to \in Fd
        /\ to = i \/ (to \in HeldBy(Top) /\ to > 2)
        /\ i = 0 /\ to # 0 => to = Top.in /\ HoldsIn(Top)
        /\ i # 0 => to = i \/ to = Top.fd[2]
        /\ \A x \in Fd :
             fds'[x] = IF x = n THEN [file |-> fds[i].file, cloexec |-> TRUE]
                       ELSE IF x = i /\ to # i
                         THEN [file |-> fds[to].file, cloexec |-> FALSE]
                       ELSE IF x = to /\ to # i /\ i = 0 THEN Closed
                       ELSE fds[x]
    BY SaveAt
  <1>5. /\ i = 0 => to = Top.in
        /\ i = 1 /\ to # 1 => Top.k < Len(Top.cmds)
        /\ i = 2 => to = 2
    BY DEF Target
  <1>6. Saves(g, n)
    BY SaveAs
  <1>7. g.k = Top.k
    BY <1>3 DEF PipelineFrame
  <1>8. HoldsPipe(Top) /\ i = Len(Top.saved) /\ i \in Nat
    BY <1>3 DEF HoldsPipe
  <1>9. i = 0 \/ i = 1 \/ i = 2
    BY <1>3
  <1>10. HoldsIn(Top) => i = 0 /\ Top.in # 0
    BY <1>3 DEF HoldsIn
  <1>. HIDE DEF g, n, to, i
  <1>11. /\ SetTop(g) /\ g.type = "pipeline" /\ g.fd = Top.fd /\ g.first = Top.first
         /\ HoldsPipe(g) /\ ~HoldsIn(g)
    BY <1>6 DEF Saves
  <1>12. /\ n \in HeldBy(g)
         /\ \A x \in HeldBy(Top) : x \in HeldBy(g) \/ (x = Top.in /\ HoldsIn(Top))
         /\ \A x \in HeldBy(g) : x = n \/ x \in HeldBy(Top)
    BY <1>3, <1>6, <1>8, SavesMore
  <1>13. /\ \A x \in Free(fds) : x \in Fd /\ x > 2 /\ fds[x] = Closed
         /\ \A x \in HeldBy(Top) : x \in Fd /\ x > 2 /\ fds[x] # Closed
    BY <1>1, <1>2, HeldAt, FreeAbove DEF FrameSound, HeldFd
  <1>14. Top.fd[2] \in HeldBy(Top) /\ (HoldsIn(Top) => Top.in # Top.fd[2])
    BY <1>2, <1>3, <1>8 DEF HeldBy, FrameSound, Distinct
  <1>15. OnlyTop
    BY <1>4, <1>9 DEF OnlyTop
  <1>16. GoesTo(Len(stack), g) /\ SameKinds(Top, g) /\ Top' = g /\ stack[Len(stack)] = Top
    <2>1. RunsOn
      BY RunStep
    <2>. QED  BY <1>3, <1>11, <2>1, TopGoes
  <1>17. LastHeld(g) <=> LastHeld(Top)
    BY <1>3, <1>7, <1>8, <1>11, <1>16 DEF LastHeld, SameKinds
  <1>18. fds'[Top.fd[2]] = fds[Top.fd[2]]
    <2>1. Top.fd[2] # n /\ Top.fd[2] > 2
      BY <1>4, <1>13, <1>14
    <2>2. ~(Top.fd[2] = to /\ to # i /\ i = 0)
      BY <1>4, <1>14
    <2>. QED  BY <1>3, <1>4, <1>9, <2>1, <2>2
  <1>19. EndsKept /\ EndsFrom
    BY <1>1, <1>11, <1>15, <1>16, <1>17, <1>18, EndsCut
  <1>20. to # i => ~IsEnd(to)
    <2>1. SUFFICES ASSUME to # i PROVE LastHeld(Top) => to # Top.fd[2]
      BY <1>1, <1>4, NotEndTop
    <2>2. CASE i = 0
      BY <1>4, <1>14, <2>1, <2>2
    <2>3. CASE i = 1
      BY <1>3, <1>5, <2>1, <2>3 DEF LastHeld, PipelineFrame
    <2>. QED  BY <1>5, <1>9, <2>1, <2>2, <2>3
  <1>21. Moved
    <2>1. ~IsEnd(i) /\ i \in Fd
      BY <1>1, <1>3, NotEndStd
    <2>. QED  BY <1>4, <1>20, <2>1, WriterIsOpen DEF Moved
  <1>22. LeaksFrom /\ SameLeaks
    <2>1. ASSUME NEW x \in Fd, x > 2, fds'[x] # Closed, x \notin HeldBy(g),
                 x \in Free(fds) \/ x \in HeldBy(Top)
          PROVE  FALSE
      <3>1. x # n /\ x # i
        BY <1>9, <1>12, <2>1
      <3>2. x \in HeldBy(Top)
        BY <1>4, <1>13, <2>1, <3>1
      <3>3. x = to /\ i = 0 /\ to # i
        BY <1>5, <1>10, <1>12, <2>1, <3>2
      <3>. QED  BY <1>4, <2>1, <3>1, <3>3
    <2>2. Busy(g) /\ Busy(Top)
      BY <1>3, <1>6 DEF Busy, Saves
    <2>. QED  BY <1>1, <1>4, <1>12, <1>15, <1>16, <2>1, <2>2, LeaksCut, SameLeaksCut
  <1>23. InOwn'
    BY <1>11, <1>16 DEF InOwn
  <1>. QED  BY <1>15, <1>16, <1>19, <1>21, <1>22, <1>23, OpenCut


\* The ends of the frames from n on are closed, and a new one is muted.
LEMMA EndsChange ==
    ASSUME Shape, Held, shell = "alive", OnlyTop, NEW n, NEW g, Cut(n, g),
           \A i \in n .. Len(stack) : LastHeld(stack[i]) => fds'[stack[i].fd[2]] = Closed,
           LastHeld(g) => \E p \in Nat : fds'[g.fd[2]].file = Writer(p) /\ Muted(p)'
    PROVE  EndsKept /\ EndsFrom
  <1>1. n \in 1 .. Len(stack) /\ Len(stack') = n /\ stack'[n] = g
        /\ (\A i \in 1 .. n - 1 : stack'[i] = stack[i]) /\ Len(stack) \in Nat /\ n \in Nat
    BY TopFacts DEF Cut
  <1>2. ASSUME NEW i \in 1 .. n - 1, LastHeld(stack[i])
        PROVE  fds'[stack[i].fd[2]] = fds[stack[i].fd[2]] /\ i \in 1 .. Len(stack)
    <2>1. i \in 1 .. Len(stack) /\ i # Len(stack)
      BY <1>1
    <2>2. stack[i].fd[2] \in HeldBy(stack[i])
      BY <1>2 DEF LastHeld, HeldBy
    <2>. QED  BY <2>1, <2>2, HeldAt, SoundKept
  <1>3. ASSUME NEW x \in Fd, IsEnd(x), fds'[x] # Closed
        PROVE  IsEnd(x)'
    <2>1. PICK i \in 1 .. Len(stack) : LastHeld(stack[i]) /\ x = stack[i].fd[2]
      BY <1>3 DEF IsEnd
    <2>2. i \in 1 .. n - 1
      BY <1>1, <1>3, <2>1
    <2>3. i \in 1 .. n /\ stack'[i] = stack[i]
      BY <1>1, <2>2
    <2>. QED  BY <1>1, <2>1, <2>3 DEF IsEnd
  <1>4. ASSUME NEW x \in Fd, IsEnd(x)'
        PROVE  \/ IsEnd(x) /\ fds'[x].file = fds[x].file
               \/ \E p \in Nat : fds'[x].file = Writer(p) /\ Muted(p)'
    <2>1. PICK i \in 1 .. n : LastHeld(stack'[i]) /\ x = stack'[i].fd[2]
      BY <1>1, <1>4 DEF IsEnd
    <2>2. CASE i = n
      BY <1>1, <2>1, <2>2
    <2>3. CASE i # n
      <3>1. i \in 1 .. n - 1 /\ stack'[i] = stack[i]
        BY <1>1, <2>3
      <3>. QED  BY <1>2, <2>1, <3>1 DEF IsEnd
    <2>. QED  BY <2>2, <2>3
  <1>. QED  BY <1>3, <1>4 DEF EndsKept, EndsFrom

LEMMA NextCommandOpen ==
    ASSUME Shape, Shape', Held, Ended, Heard, Open, Ok, [Next]_vars, NextCommand
    PROVE  Open' /\ (SameLeaks \/ LeavesOne)
  <1>1. InPipeline("next") /\ shell = "alive"
    BY DEF NextCommand, InPipeline
  <1>2. /\ Top.fd[1] \in Fd /\ Top.fd[2] \in Fd
        /\ Top.fd[1] \in HeldBy(Top) /\ Top.fd[2] \in HeldBy(Top) /\ Top.fd[1] # Top.fd[2]
        /\ HeldFd(fds, Top.fd[1]) /\ HeldFd(fds, Top.fd[2])
        /\ \A x \in Fd : fds'[x] = IF x = Top.fd[2] THEN Closed ELSE fds[x]
    BY NextCommandAt
  <1>3. PICK g : /\ SetTop(g) /\ g.type = "pipeline" /\ g.saved = <<>> /\ g.first = Top.first
                 /\ \/ g.phase = "wait" /\ Top.k = Len(Top.cmds)
                    \/ g.phase = "pipe" /\ g.in = Top.fd[1]
    BY NextCommandAt
  <1>4. Top.type = "pipeline" /\ Top.phase = "next" /\ Top.saved = <<>>
    BY <1>1, TopFields
  <1>5. HoldsPipe(Top) /\ ~LastHeld(g) /\ HeldBy(Top) = {Top.fd[1], Top.fd[2]}
    BY <1>3, <1>4, HeldByPipeline DEF HoldsPipe, LastHeld
  <1>6. PICK p \in Nat : p > Top.first /\ fds[Top.fd[1]].file = Reader(p)
                         /\ fds[Top.fd[2]].file = Writer(p)
    BY <1>1, <1>4, <1>5, TopKept
  <1>7. OnlyTop /\ fds'[Top.fd[2]] = Closed /\ fds'[Top.fd[1]] = fds[Top.fd[1]]
    BY <1>2 DEF OnlyTop
  <1>8. GoesTo(Len(stack), g) /\ Top' = g /\ stack[Len(stack)] = Top
    <2>1. RunsOn
      BY RunStep
    <2>. QED  BY <1>3, <1>4, <2>1, TopGoes
  <1>9. EndsKept /\ EndsFrom
    <2>1. Cut(Len(stack), g) /\ \A i \in Len(stack) .. Len(stack) : stack[i] = Top
      BY <1>8, TopFacts DEF GoesTo
    <2>. QED  BY <1>1, <1>5, <1>7, <2>1, EndsChange
  <1>10. Moved
    BY <1>2, WriterIsOpen DEF Moved
  <1>11. g.phase = "pipe" => HoldsIn(g) /\ Top.fd[1] \in HeldBy(g)
    <2>1. Top.fd[1] # 0
      BY <1>2 DEF HeldFd
    <2>. QED  BY <1>3, <2>1 DEF HoldsIn, HeldBy
  <1>12. g.phase = "wait" => Muted(p)'
    <2>1. ASSUME g.phase = "wait" PROVE Muted(p)
      <3>1. LastHeld(Top)
        BY <1>3, <1>4, <1>5, <2>1 DEF LastHeld
      <3>2. IsEnd(Top.fd[2])
        BY <1>8, <3>1, TopFacts DEF IsEnd
      <3>. QED  BY <1>2, <1>6, <3>2 DEF Open, LastMuted
    <2>2. p \in 1 .. Len(pipes)
      BY <1>2, <1>6, PipeOfFile
    <2>. QED  BY <1>1, <1>9, <1>10, <2>1, <2>2, MutedStep
  <1>13. \A x \in Free(fds) : x \in Fd /\ fds[x] = Closed
    BY <1>1, HeldAt, FreeAbove
  <1>14. LeaksFrom
    <2>1. ASSUME NEW x \in Fd, x > 2, fds'[x] # Closed, x \notin HeldBy(g),
                 x \in Free(fds) \/ x \in HeldBy(Top)
          PROVE  Spent(fds[x].file)'
      <3>1. x = Top.fd[1] /\ g.phase = "wait"
        BY <1>2, <1>3, <1>5, <1>7, <1>11, <1>13, <2>1
      <3>2. fds'[x].file = Reader(p) /\ Muted(p)'
        BY <1>6, <1>7, <1>12, <3>1
      <3>. QED  BY <3>2 DEF Spent
    <2>. QED  BY <1>1, <1>7, <1>8, <2>1, LeaksCut
  <1>15. SameLeaks \/ LeavesOne
    <2>1. Busy(Top) /\ (Busy(g) <=> g.phase = "pipe")
      BY <1>3, <1>4 DEF Busy
    <2>2. g.phase = "pipe" => HeldBy(g) = {Top.fd[1]}
      BY <1>3, <1>11, HeldByPipeline
    <2>3. CASE g.phase = "pipe"
      <3>1. ASSUME NEW x \in Fd, x > 2, fds'[x] # Closed, x \notin HeldBy(g)
            PROVE  x \notin Free(fds) /\ x \notin HeldBy(Top)
        BY <1>2, <1>5, <1>7, <1>13, <2>2, <2>3, <3>1
      <3>. QED  BY <1>1, <1>5, <1>7, <1>8, <2>1, <2>2, <2>3, <3>1, SameLeaksCut
    <2>4. CASE g.phase = "wait"
      <3>1. HeldBy(g) = {} /\ ~Busy(g)
        BY <1>3, <2>1, <2>4, HeldByPipeline
      <3>. DEFINE E == {Top.fd[1]}
      <3>2. \A x \in E : x \in HeldBy(Top) /\ fds'[x] # Closed /\ x \notin HeldBy(g)
        BY <1>2, <1>7, <3>1 DEF HeldFd
      <3>3. ASSUME NEW x \in Fd, x > 2, fds'[x] # Closed, x \notin E
            PROVE  x \notin Free(fds) /\ x \notin HeldBy(Top)
        BY <1>2, <1>5, <1>7, <1>13, <3>3
      <3>4. E = {Top.fd[1]}
        OBVIOUS
      <3>. HIDE DEF E
      <3>5. Cut(Len(stack), g)
        BY <1>8 DEF GoesTo
      <3>6. Leaked' = Leaked \cup E
        BY <1>1, <1>7, <1>8, <3>1, <3>2, <3>3, <3>5, LeakedCut
      <3>7. Top.fd[1] \notin Leaked
        BY <1>2, <1>8, TopFacts DEF Leaked
      <3>8. Going' = Going \ {Len(stack)} /\ Len(stack) \in Going
        BY <2>1, <3>1, <3>5, <1>8, GoingEnds
      <3>. QED  BY <3>4, <3>6, <3>7, <3>8 DEF LeavesOne
    <2>. QED  BY <1>3, <2>3, <2>4
  <1>16. InOwn'
    <2>1. HoldsIn(g) => g.phase = "pipe"
      BY <1>3 DEF HoldsIn
    <2>2. HoldsIn(g) => g.in = Top.fd[1]
      BY <1>3, <2>1
    <2>. QED  BY <1>3, <1>6, <1>7, <1>8, <2>2 DEF InOwn
  <1>. QED  BY <1>7, <1>8, <1>9, <1>10, <1>14, <1>15, <1>16, OpenCut


LEMMA MakePipeOpen ==
    ASSUME Shape, Shape', Held, Ended, Open, Ok, [Next]_vars, MakePipe
    PROVE  Open' /\ ("fundec" \notin Kind => SameLeaks)
  <1>. DEFINE r == Lowest(Free(fds))
              w == Lowest(Free(fds) \ {r})
              m == Len(pipes) + 1
              g == [Top EXCEPT !.fd = <<r, w>>,
                               !.phase = IF Cmd.kind = "fundec" THEN "next" ELSE "save"]
  <1>1. InPipeline("pipe") /\ shell = "alive" /\ SetTop(g) /\ UNCHANGED procs
    BY DEF MakePipe, InPipeline
  <1>2. /\ r \in Free(fds) /\ w \in Free(fds) /\ r # w
        /\ \A x \in Fd :
             fds'[x] = IF x = w THEN [file |-> Writer(m), cloexec |-> TRUE]
                       ELSE IF x = r THEN [file |-> Reader(m), cloexec |-> TRUE] ELSE fds[x]
    BY MakePipeAt
  <1>3. fds \in Table(Len(pipes)) /\ FrameSound(fds, Top) /\ Len(pipes) \in Nat
    BY <1>1, HeldAt, Counts
  <1>4. /\ Top \in PipelineFrame /\ Top.type = "pipeline" /\ Top.phase = "pipe" /\ Top.saved = <<>>
        /\ Top.k \in 1 .. Len(Top.cmds) /\ Cmd = Top.cmds[Top.k]
    BY <1>1, PipelineAt, TopFields
  <1>5. /\ g.type = "pipeline" /\ g.first = Top.first /\ g.fd = <<r, w>> /\ g.saved = <<>>
        /\ g.in = Top.in /\ g.k = Top.k
        /\ g.phase = IF Cmd.kind = "fundec" THEN "next" ELSE "save"
    BY <1>4 DEF PipelineFrame
  <1>6. g.fd[1] = r /\ g.fd[2] = w
    BY <1>5
  <1>7. \A x \in Free(fds) : x \in Fd /\ x > 2 /\ fds[x] = Closed
    BY <1>1, HeldAt, FreeAbove
  <1>. HIDE DEF g, w, r
  <1>8. \A x \in HeldBy(Top) : x = Top.in /\ HoldsIn(Top) /\ x \in Fd /\ fds[x] # Closed
    <2>1. Len(Top.saved) = 0 /\ 1 .. 0 = {}
      BY <1>4
    <2>2. ~HoldsPipe(Top)
      BY <1>4 DEF HoldsPipe
    <2>3. HeldBy(Top) \subseteq {x \in {Top.in} : HoldsIn(Top)}
      BY <1>4, <2>1, <2>2 DEF HeldBy
    <2>. QED  BY <1>3, <2>3 DEF FrameSound, HeldFd
  <1>9. r \in HeldBy(g) /\ w \in HeldBy(g) /\ HoldsPipe(g)
    <2>1. HoldsPipe(g)
      BY <1>5 DEF HoldsPipe
    <2>. QED  BY <1>5, <1>6, <2>1 DEF HeldBy
  <1>10. HoldsIn(g) => HoldsIn(Top)
    BY <1>4, <1>5 DEF HoldsIn
  <1>11. HoldsIn(Top) => Cmd.kind = "fundec" \/ Top.in \in HeldBy(g)
    <2>1. HoldsIn(Top) /\ Cmd.kind # "fundec" => HoldsIn(g)
      BY <1>4, <1>5 DEF HoldsIn
    <2>. QED  BY <1>5, <2>1 DEF HeldBy
  <1>12. OnlyTop
    BY <1>2 DEF OnlyTop
  <1>13. GoesTo(Len(stack), g) /\ Top' = g /\ stack[Len(stack)] = Top
    <2>1. RunsOn
      BY RunStep
    <2>. QED  BY <1>1, <1>4, <1>5, <2>1, TopGoes
  <1>14. LastHeld(g) => \E p \in Nat : fds'[g.fd[2]].file = Writer(p) /\ Muted(p)'
    <2>1. SUFFICES ASSUME LastHeld(g)
                   PROVE  \E p \in Nat : fds'[w].file = Writer(p) /\ Muted(p)'
      BY <1>6
    <2>0. PICK p, v : p = m /\ v = w
      OBVIOUS
    <2>2. fds'[v].file = Writer(p)
      BY <1>2, <1>7, <2>0
    <2>3. ASSUME NEW q \in DOMAIN procs, NEW x \in Fd
          PROVE  procs[q].fds[x].file # Writer(p)
      <3>1. procs[q].fds \in Table(Len(pipes))
        BY ProcAt DEF Process
      <3>2. procs[q].fds[x].file \in Files(Len(pipes)) \cup {NoFile}
        BY <3>1, FileOf
      <3>. QED  BY <1>3, <2>0, <3>2 DEF Files, Tty, File, NoFile, Writer
    <2>4. MutedIn(procs', p)
      BY <1>1, <2>3 DEF MutedIn
    <2>5. ASSUME NEW x \in Fd, fds'[x].file = Writer(p)
          PROVE  x = v
      <3>1. fds[x].file # Writer(p)
        BY <1>3, <2>0, PipeOfFile
      <3>2. Reader(p) # Writer(p)
        BY DEF Reader, Writer
      <3>. QED  BY <1>2, <2>0, <2>5, <3>1, <3>2
    <2>6. IsEnd(v)'
      <3>1. Len(stack') = Len(stack) /\ stack'[Len(stack)] = g /\ Len(stack) \in 1 .. Len(stack)
        BY <1>13, TopFacts DEF GoesTo, Cut
      <3>. QED  BY <1>6, <2>0, <2>1, <3>1 DEF IsEnd
    <2>7. Muted(p)'
      BY <2>4, <2>5, <2>6 DEF Muted
    <2>. QED  BY <1>3, <2>0, <2>2, <2>7
  <1>15. EndsKept /\ EndsFrom
    <2>1. Cut(Len(stack), g) /\ \A i \in Len(stack) .. Len(stack) : stack[i] = Top
      BY <1>13, TopFacts DEF GoesTo
    <2>2. ~LastHeld(Top)
      BY <1>4 DEF LastHeld, HoldsPipe
    <2>. QED  BY <1>1, <1>12, <1>14, <2>1, <2>2, EndsChange
  <1>16. Moved
    <2>1. \A p \in 1 .. Len(pipes) : Reader(m) # Writer(p) /\ Writer(m) # Writer(p)
      BY <1>3 DEF Reader, Writer
    <2>. QED  BY <1>2, <2>1 DEF Moved
  <1>17. LeaksFrom
    <2>1. ASSUME NEW x \in Fd, x > 2, fds'[x] # Closed, x \notin HeldBy(g),
                 x \in Free(fds) \/ x \in HeldBy(Top)
          PROVE  Spent(fds[x].file)'
      <3>1. x # r /\ x # w /\ fds'[x] = fds[x]
        BY <1>2, <1>9, <2>1
      <3>2. x = Top.in /\ HoldsIn(Top) /\ Cmd.kind = "fundec"
        BY <1>7, <1>8, <1>11, <2>1, <3>1
      <3>3. PICK q \in Nat : q > Top.first /\ fds[x].file = Reader(q)
        BY <1>4, <3>2 DEF Open, InOwn
      <3>4. Declares(Top)
        <4>1. DOMAIN Top.cmds = 1 .. Len(Top.cmds)
          BY <1>4, FieldsOf
        <4>. QED  BY <1>4, <3>2, <4>1 DEF Declares
      <3>5. Declared(q)'
        <4>1. CutsTo(Len(stack)) /\ Len(stack) \in 1 .. Len(stack) /\ Len(stack) \in Nat
          BY <1>13, TopFacts DEF GoesTo, CutsTo
        <4>2. Top.first < q
          BY <1>4, <3>3, FieldsOf
        <4>. QED  BY <1>13, <3>4, <4>1, <4>2, DeclaredCut
      <3>6. fds'[x].file = Reader(q)
        BY <3>1, <3>3
      <3>. QED  BY <3>5, <3>6 DEF Spent
    <2>. QED  BY <1>1, <1>12, <1>13, <2>1, LeaksCut
  <1>18. ASSUME "fundec" \notin Kind PROVE SameLeaks
    <2>1. Cmd.kind # "fundec"
      <3>1. Top.cmds \in Seq(NodeSet)
        BY <1>4, FieldsOf
      <3>2. Top.cmds[Top.k] \in NodeSet
        BY <1>4, <3>1
      <3>. QED  BY <1>4, <1>18, <3>2 DEF NodeSet
    <2>2. ASSUME NEW x \in Fd, x > 2, fds'[x] # Closed, x \notin HeldBy(g)
          PROVE  x \notin Free(fds) /\ x \notin HeldBy(Top)
      BY <1>2, <1>7, <1>8, <1>9, <1>11, <2>1, <2>2
    <2>3. \A x \in HeldBy(g) : x \in Free(fds) \/ x \in HeldBy(Top)
      <3>1. Len(g.saved) = 0 /\ 1 .. 0 = {}
        BY <1>5
      <3>2. HeldBy(g) = {x \in {Top.in} : HoldsIn(g)} \cup {r, w}
        BY <1>5, <1>6, <1>9, <3>1 DEF HeldBy
      <3>3. HoldsIn(Top) => Top.in \in HeldBy(Top)
        BY <1>4 DEF HeldBy
      <3>. QED  BY <1>2, <1>10, <3>2, <3>3
    <2>4. Busy(g) /\ Busy(Top)
      BY <1>4, <1>5 DEF Busy
    <2>. QED  BY <1>1, <1>12, <1>13, <2>2, <2>3, <2>4, SameLeaksCut
  <1>19. InOwn'
    <2>1. HoldsIn(Top) => Top.in \in Fd /\ Top.in # r /\ Top.in # w
      <3>1. HoldsIn(Top) => Top.in \in HeldBy(Top)
        BY <1>4 DEF HeldBy
      <3>. QED  BY <1>2, <1>7, <1>8, <3>1
    <2>2. HoldsIn(Top) => fds'[Top.in] = fds[Top.in]
      BY <1>2, <2>1
    <2>. QED  BY <1>4, <1>5, <1>10, <1>13, <2>2 DEF Open, InOwn
  <1>. QED  BY <1>12, <1>13, <1>15, <1>16, <1>17, <1>18, <1>19, OpenCut


\* While the shell waits, an end of a pipe of the pipeline is at a descriptor
\* that no frame will use.
LEMMA NewIsLeaked ==
    ASSUME Shape, Held, Kept, Older, Ok, InPipeline("wait"), NEW p \in Nat, p > Top.first,
           NEW x \in Fd, fds[x].file = Reader(p) \/ fds[x].file = Writer(p)
    PROVE  x \in Leaked
  <1>. DEFINE m == Len(stack)
              n == m - 1
  <1>1. Top.type = "pipeline" /\ Top.phase = "wait" /\ Top.saved = <<>> /\ Top \in PipelineFrame
        /\ shell = "alive" /\ ~failed
    BY TopFields, PipelineAt DEF Ok
  <1>2. m \in Nat /\ Top = stack[m] /\ m \in 1 .. m /\ Top.first \in Nat
    BY <1>1, TopFacts, FieldsOf
  <1>3. \A i \in 1 .. m - 1 : Past(stack[i], Top.first)
    BY <1>1, <1>2 DEF Older
  <1>4. ~Upto(fds[x].file, Top.first)
    BY <1>2 DEF Upto, Reader, Writer
  <1>5. x > 2
    <2>1. SUFFICES ASSUME x \in 0 .. 2 PROVE FALSE
      BY FdNumbers
    <2>2. n \in 1 .. m /\ n \in 1 .. m - 1 /\ Original(fds, Top, x) = stack[n].std[x]
      BY <1>1, <1>2, <2>1, TopKeeps
    <2>3. Original(fds, Top, x) = fds[x].file
      BY <1>1, <2>1, OriginalNow
    <2>4. stack[n].type # "pipeline"
      BY <1>1, <1>2, <2>2, TopFacts DEF Under
    <2>5. Upto(stack[n].std[x], Top.first)
      BY <1>3, <2>1, <2>2, <2>4 DEF Past
    <2>. QED  BY <1>4, <2>2, <2>3, <2>5
  <1>6. fds[x] # Closed
    BY DEF Closed, Reader, Writer
  <1>7. ASSUME NEW i \in 1 .. m, x \in HeldBy(stack[i])
        PROVE  FALSE
    <2>1. HeldBy(Top) = {}
      BY <1>1, HeldByPipeline
    <2>2. i \in 1 .. m - 1
      BY <1>2, <1>7, <2>1
    <2>. QED  BY <1>3, <1>4, <1>7, <2>2 DEF Past
  <1>. QED  BY <1>5, <1>6, <1>7 DEF Leaked

LEMMA NoWriter ==
    ASSUME Shape, Held, Kept, Open, Ok, InPipeline("wait"), NEW p \in Nat, p > Top.first,
           NEW x \in Fd
    PROVE  fds[x].file # Writer(p)
  <1>1. SUFFICES ASSUME fds[x].file = Writer(p) PROVE FALSE
    OBVIOUS
  <1>2. x \in Leaked
    BY <1>1, NewIsLeaked DEF Open
  <1>3. Spent(fds[x].file)
    BY <1>2 DEF Open, LeaksSpent
  <1>. QED  BY <1>1, <1>3 DEF Spent, File, Reader, Writer

\* A process that is left when a pipeline ends has none of its pipes.
LEMMA OlderChild ==
    ASSUME Shape, Ended, Older, Ok, [Next]_vars, Ended', Owned', Top.type = "pipeline",
           NEW n, n = Len(stack) - 1, NEW g, Cut(n, g), g.type # "pipeline",
           DOMAIN procs' = DOMAIN procs,
           NEW q \in DOMAIN procs, NEW x \in Fd
    PROVE  Upto(procs'[q].fds[x].file, Top.first)
  <1>1. n \in 1 .. Len(stack) /\ Len(stack') = n /\ stack'[n] = g
        /\ (\A i \in 1 .. n - 1 : stack'[i] = stack[i]) /\ Len(stack) \in Nat
        /\ Top = stack[Len(stack)] /\ Len(stack) \in 1 .. Len(stack)
    BY TopFacts DEF Cut
  <1>2. CASE procs'[q].state \in {"exited", "reaped"}
    <2>1. procs'[q].fds = NoTable
      BY <1>2 DEF Ended
    <2>. QED  BY <2>1, UptoClosed
  <1>3. CASE procs'[q].state \notin {"exited", "reaped"}
    <2>1. q \in Live'
      BY <1>3 DEF Live
    <2>2. PICK i \in 1 .. Len(stack') : Owns(stack'[i], q)
      BY <2>1 DEF Owned
    <2>3. i \in 1 .. n - 1 /\ stack'[i] = stack[i] /\ i \in 1 .. Len(stack) - 1
      BY <1>1, <2>2 DEF Owns
    <2>4. PICK j \in 1 .. Len(stack[i].cmds) : stack[i].cmds[j].child = q
      BY <2>2, <2>3 DEF Owns
    <2>5. stack[i].type = "pipeline" /\ q # 0
      BY <2>2, <2>3, ProcsDomain DEF Owns
    <2>6. Past(stack[i], Top.first)
      BY <1>1, <2>3 DEF Older
    <2>7. \A y \in Fd : Upto(procs[q].fds[y].file, Top.first)
      BY <2>4, <2>5, <2>6 DEF Past
    <2>. QED  BY <2>7, PastProc
  <1>. QED  BY <1>2, <1>3


LEMMA WaitsOpen ==
    ASSUME Shape, Shape', Held, Ended, Ended', Owned', Kept, Open, Ok, [Next]_vars, Waits
    PROVE  Open' /\ SameLeaks
  <1>1. InPipeline("wait") /\ shell = "alive" /\ UNCHANGED fds
        /\ \E status \in Status : Waited(status)
    <2>1. InPipeline("wait") /\ \E status \in Status : Waited(status)
      BY WaitsAs
    <2>2. UNCHANGED fds
      BY DEF Waits, WaitChild, WaitAny, NoWait
    <2>. QED  BY <2>1, <2>2 DEF InPipeline
  <1>2. PICK status \in Status : Waited(status)
    BY <1>1
  <1>3. Top.saved = <<>> /\ Top.type = "pipeline" /\ Top \in PipelineFrame /\ Top.phase = "wait"
    BY <1>1, TopFields, PipelineAt
  <1>4. HeldBy(Top) = {} /\ ~LastHeld(Top)
    BY <1>3, HeldByPipeline DEF LastHeld, HoldsPipe
  <1>5. DOMAIN procs' = DOMAIN procs
    BY WaitsReap, ReapKeeps
  <1>6. CASE \E g : SetTop(g) /\ WaitsOn(g, status)
    <2>1. PICK g : SetTop(g) /\ WaitsOn(g, status)
      BY <1>6
    <2>2. g.type = "pipeline" /\ g.phase = "wait" /\ SameKinds(Top, g)
      BY <1>1, <2>1, WaitsOnAs DEF SameKinds
    <2>3. g.first = Top.first
      BY <2>1 DEF WaitsOn
    <2>4. Cut(Len(stack), g) /\ Top = stack[Len(stack)]
      BY <2>1, TopFacts, SetTopCuts
    <2>5. Continues(Top, g)
      BY <1>3, <2>2, <2>3, <2>4, PipelineGoes
    <2>6. GoesTo(Len(stack), g) /\ Top' = g
      BY <2>1, <2>5, SetTopGoes
    <2>7. ~LastHeld(g) /\ ~HoldsIn(g)
      BY <2>2 DEF LastHeld, HoldsPipe, HoldsIn
    <2>8. InOwn'
      BY <2>6, <2>7 DEF InOwn
    <2>9. HeldBy(g) = {} /\ ~Busy(g) /\ ~Busy(Top)
      BY <1>3, <2>1, <2>2, HeldByPipeline DEF WaitsOn, Busy
    <2>. QED  BY <1>1, <1>4, <2>4, <2>6, <2>7, <2>8, <2>9, OpenSame
  <1>7. CASE LET n == Len(stack) - 1 IN
               /\ Top.k = Len(Top.cmds) /\ n \in 1 .. Len(stack) /\ n # 0
               /\ stack[n] \in ListFrame
               /\ stack' = [SubSeq(stack, 1, n) EXCEPT
                              ![n] = [stack[n] EXCEPT !.status = Negated(Top.negate, status)]]
    <2>. DEFINE n == Len(stack) - 1
                f == stack[n]
                g == [f EXCEPT !.status = Negated(Top.negate, status)]
    <2>1. n \in 1 .. Len(stack) /\ f \in ListFrame /\ stack' = [SubSeq(stack, 1, n) EXCEPT ![n] = g]
      BY <1>7
    <2>2. f.type # "pipeline" /\ g.type = f.type /\ g.phase = f.phase /\ g.saved = f.saved
          /\ g.reader = f.reader
      BY <2>1 DEF ListFrame
    <2>3. f = stack[n] /\ n = Len(stack) - 1
      OBVIOUS
    <2>. HIDE DEF g, f, n
    <2>4. Cut(n, g)
      BY <2>1, TopFacts, SubSeqSetCuts
    <2>5. Len(stack') = n /\ stack'[n] = g /\ Top' = g /\ n \in Nat /\ Len(stack) = n + 1
          /\ (\A i \in 1 .. n - 1 : stack'[i] = stack[i]) /\ Top = stack[Len(stack)]
      BY <2>3, <2>4, TopFacts, CutTop DEF Cut
    <2>6. HeldBy(g) = HeldBy(f)
      BY <2>2 DEF HeldBy
    <2>7. CutsTo(n)
      BY <2>2, <2>3, <2>4 DEF CutsTo, Continues
    <2>8. OnlyTop /\ Moved
      BY <1>1 DEF OnlyTop, Moved
    <2>9. Older'
      BY <2>7, <2>8, OlderCut DEF Open
    <2>10. EndsKept /\ EndsFrom
      <3>1. \A i \in n .. Len(stack) : ~LastHeld(stack[i])
        <4>1. \A i \in n .. Len(stack) : i = n \/ i = Len(stack)
          BY <2>5
        <4>2. ~LastHeld(f)
          BY <2>2, NotEndList
        <4>. QED  BY <1>4, <2>3, <2>5, <4>1, <4>2
      <3>2. ~LastHeld(g)
        BY <2>2, NotEndList
      <3>. QED  BY <1>1, <2>4, <2>8, <3>1, <3>2, EndsChange
    <2>11. LastMuted'
      BY <2>8, <2>10, LastMutedStep DEF Open
    <2>12. ASSUME NEW x \in Fd, (x \in Leaked)'
           PROVE  x \in Leaked /\ fds'[x].file = fds[x].file
      <3>1. x > 2 /\ fds[x] # Closed /\ \A i \in 1 .. n : x \notin HeldBy(stack'[i])
        BY <1>1, <2>5, <2>12 DEF Leaked
      <3>2. ASSUME NEW i \in 1 .. Len(stack) PROVE x \notin HeldBy(stack[i])
        <4>1. i = Len(stack) \/ i = n \/ i \in 1 .. n - 1
          BY <2>5
        <4>2. CASE i = n
          <5>1. n \in 1 .. n
            BY <2>5, <4>2
          <5>. QED  BY <2>3, <2>5, <2>6, <3>1, <4>2, <5>1
        <4>3. CASE i \in 1 .. n - 1
          <5>1. i \in 1 .. n /\ stack'[i] = stack[i]
            BY <2>5, <4>3
          <5>. QED  BY <3>1, <5>1
        <4>. QED  BY <1>4, <2>5, <4>1, <4>2, <4>3
      <3>. QED  BY <1>1, <3>1, <3>2 DEF Leaked
    <2>13. LeaksFrom
      BY <2>12 DEF LeaksFrom
    <2>14. ASSUME NEW p \in 1 .. Len(pipes), Declared(p)
           PROVE  Declared(p)' \/ Muted(p)'
      <3>1. PICK j \in 1 .. Len(stack) :
              /\ Declares(stack[j]) /\ stack[j].first < p
              /\ \A i \in j + 1 .. Len(stack) : stack[i].type = "pipeline" => p <= stack[i].first
        BY <2>14 DEF Declared
      <3>2. CASE j = Len(stack)
        <4>1. Top.first < p /\ Top.first \in Nat /\ p \in Nat
          BY <1>3, <2>5, <3>1, <3>2, FieldsOf
        <4>2. \A x \in Fd : fds'[x].file # Writer(p)
          BY <1>1, <4>1, NoWriter
        <4>3. ASSUME NEW q \in DOMAIN procs, NEW x \in Fd
              PROVE  procs'[q].fds[x].file # Writer(p)
          <5>1. Upto(procs'[q].fds[x].file, Top.first)
            BY <1>3, <1>5, <2>2, <2>3, <2>4, OlderChild DEF Open
          <5>. QED  BY <4>1, <5>1 DEF Upto, Writer
        <4>4. MutedIn(procs', p)
          BY <1>5, <4>3 DEF MutedIn
        <4>. QED  BY <4>2, <4>4 DEF Muted
      <3>3. CASE j # Len(stack)
        <4>1. j \in 1 .. n /\ \A i \in j + 1 .. n : i \in j + 1 .. Len(stack)
          BY <2>5, <3>3
        <4>. QED  BY <2>7, <3>1, <4>1, DeclaredCut
      <3>. QED  BY <3>2, <3>3
    <2>15. LeaksSpent'
      BY <2>8, <2>10, <2>13, <2>14, LeaksStep DEF Open
    <2>16. InOwn'
      BY <2>2, <2>5 DEF InOwn
    <2>17. SameLeaks
      <3>1. ~Busy(g) /\ ~Busy(f) /\ ~Busy(Top)
        BY <1>3, <2>2 DEF Busy
      <3>2. Going' = Going
        BY <2>3, <2>4, <3>1, GoingCut
      <3>. DEFINE E == {}
      <3>3. E = {} /\ \A x \in E : x \in HeldBy(Top) /\ fds'[x] # Closed /\ x \notin HeldBy(g)
        OBVIOUS
      <3>. HIDE DEF E
      <3>4. fds \in Table(Len(pipes))
        BY <1>1, HeldAt
      <3>5. ASSUME NEW x \in Fd, fds'[x] # Closed, x \notin HeldBy(g)
            PROVE  x \notin Free(fds) /\ x \notin HeldBy(Top) /\ x \notin HeldBy(stack[n])
        <4>1. x \notin Free(fds)
          BY <1>1, <3>4, <3>5, ClosedIsFree
        <4>. QED  BY <1>4, <2>3, <2>6, <3>5, <4>1
      <3>6. \A x \in HeldBy(g) : x \in HeldBy(stack[n])
        BY <2>3, <2>6
      <3>7. Leaked' = Leaked \cup E
        BY <1>1, <2>3, <2>4, <2>8, <3>3, <3>5, <3>6, LeakedCut
      <3>. QED  BY <3>2, <3>3, <3>7 DEF SameLeaks
    <2>. QED  BY <2>9, <2>11, <2>15, <2>16, <2>17 DEF Open
  <1>. QED  BY <1>1, <1>2, <1>6, <1>7, WaitedStep


----------------------------------------------------------------------------
(* What the shell holds while it waits *)

LEMMA InitOpen == ASSUME Init PROVE Open /\ Counted
  <1>. DEFINE f == List("top", [x \in 0 .. 2 |-> Tty])
  <1>1. stack = <<f>> /\ fds = [NoTable EXCEPT ![0] = Terminal, ![1] = Terminal, ![2] = Terminal]
    BY DEF Init
  <1>2. \A x \in Fd : x > 2 => fds[x] = Closed
    <2>1. NoTable = [x \in Fd |-> Closed]
      BY DEF NoTable, Fd
    <2>2. \A x \in Fd : x > 2 => x \notin {0, 1, 2}
      BY FdNumbers
    <2>. QED  BY <1>1, <2>1, <2>2
  <1>3. f.type = "top"
    BY DEF List
  <1>. HIDE DEF f
  <1>4. Len(stack) = 1 /\ stack[1] = f /\ (\A i \in 1 .. 1 : i = 1) /\ Top = f
    BY <1>1 DEF Top
  <1>5. Older /\ InOwn
    BY <1>3, <1>4 DEF Older, InOwn
  <1>6. \A x : ~IsEnd(x)
    BY <1>3, <1>4 DEF IsEnd, LastHeld
  <1>7. Leaked = {}
    BY <1>2 DEF Leaked
  <1>8. Going = {}
    BY <1>3, <1>4 DEF Going, Busy
  <1>9. Counted
    BY <1>7, <1>8, FS_EmptySet DEF Counted, Init
  <1>. QED  BY <1>5, <1>6, <1>7, <1>9 DEF Open, LastMuted, LeaksSpent

\* Neither the end of the shell nor the lack of a descriptor is forgotten.
LEMMA OkBefore == ASSUME Shape, [Next]_vars, Ok' PROVE Ok
  <1>1. shell' = "alive" /\ ~failed'
    BY DEF Ok
  <1>2. ASSUME NEW n \in 1 .. MaxCmds, NEW kinds \in [1 .. n -> Kind], NEW negate \in Negations,
               StartPipeline(kinds, negate)
        PROVE  Ok
    BY <1>1, <1>2 DEF StartPipeline, Ok
  <1>3. CASE MakePipe \/ PipeFails
    <2>1. (UNCHANGED shell \/ shell' = "aborted") /\ (UNCHANGED failed \/ failed' = TRUE)
      BY <1>3, Zenon DEF MakePipe, PipeFails
    <2>. QED  BY <1>1, <2>1 DEF Ok
  <1>4. CASE SaveDescriptor \/ SaveFails
    <2>1. (UNCHANGED shell \/ shell' = "aborted") /\ (UNCHANGED failed \/ failed' = TRUE)
      BY <1>4, Zenon DEF SaveDescriptor, SaveFails
    <2>. QED  BY <1>1, <2>1 DEF Ok
  <1>5. CASE RestoreDescriptors \/ NextCommand
    BY <1>1, <1>5 DEF RestoreDescriptors, NextCommand, Ok
  <1>6. CASE InputRedirection \/ OutputRedirection \/ RedirectionAborts
    <2>1. (UNCHANGED shell \/ shell' = "aborted") /\ (UNCHANGED failed \/ failed' = TRUE)
      BY <1>6, Zenon DEF InputRedirection, OutputRedirection, RedirectionAborts
    <2>. QED  BY <1>1, <2>1 DEF Ok
  <1>7. CASE Runs
    BY <1>1, <1>7, CommandAs DEF Ok
  <1>8. CASE EnterGroup \/ EndGroup
    BY <1>1, <1>8 DEF EnterGroup, EndGroup, Ok
  <1>9. CASE Waits
    BY <1>1, <1>9 DEF Waits, WaitChild, WaitAny, NoWait, Ok
  <1>10. CASE BeginSubstitution
    BY <1>1, <1>10, BeginSubstitutionAs DEF Ok
  <1>11. CASE SubstitutionAborts \/ EndSubstitution \/ ReadByte \/ ReadEnd
    <2>1. (UNCHANGED shell \/ shell' = "aborted") /\ (UNCHANGED failed \/ failed' = TRUE)
      BY <1>11, Zenon DEF SubstitutionAborts, EndSubstitution, ReadByte, ReadEnd
    <2>. QED  BY <1>1, <2>1 DEF Ok
  <1>12. CASE (\E status \in Code : Exit(status)) \/ Break
    BY <1>1, <1>12, ExitAs, BreakAs DEF Ok, Jumps
  <1>13. ASSUME NEW p \in DOMAIN procs, ProcStep(p)
         PROVE  Ok
    BY <1>1, <1>13, ProcStepAs DEF Ok
  <1>14. CASE UNCHANGED vars
    BY <1>1, <1>14 DEF vars, Ok
  <1>. QED  BY <1>2, <1>3, <1>4, <1>5, <1>6, <1>7, <1>8, <1>9, <1>10, <1>11, <1>12, <1>13, <1>14
       DEF Next, ShellStep, Runs, Waits

LEMMA OpenStep ==
    ASSUME ~jumped', Shape, Shape', Held, Ended, Ended', Owned', Kept, Heard, Open, [Next]_vars
    PROVE  Open'
  <1>0. SUFFICES ASSUME Ok' PROVE Open'
    BY DEF Open, Older, LastMuted, LeaksSpent, InOwn
  <1>. Ok
    BY <1>0, OkBefore
  <1>1. ASSUME NEW n \in 1 .. MaxCmds, NEW kinds \in [1 .. n -> Kind], NEW negate \in Negations,
               StartPipeline(kinds, negate)
        PROVE  Open'
    BY <1>1, StartPipelineOpen
  <1>2. CASE MakePipe \/ SaveDescriptor \/ RestoreDescriptors \/ NextCommand
    BY <1>2, MakePipeOpen, SaveDescriptorOpen, RestoreDescriptorsOpen, NextCommandOpen
  <1>3. CASE PipeFails \/ SaveFails
    BY <1>0, <1>3 DEF PipeFails, SaveFails, Ok
  <1>4. CASE InputRedirection \/ OutputRedirection
    BY <1>4, RedirectionOpen
  <1>5. CASE Runs
    BY <1>5, CommandOpen
  <1>6. CASE EnterGroup \/ EndGroup
    BY <1>6, EnterGroupOpen, EndGroupOpen
  <1>7. CASE Waits
    BY <1>7, WaitsOpen
  <1>8. CASE BeginSubstitution \/ EndSubstitution \/ ReadEnd
    BY <1>8, BeginSubstitutionOpen, EndSubstitutionOpen, ReadEndOpen
  <1>9. CASE RedirectionAborts \/ SubstitutionAborts
    BY <1>0, <1>9 DEF RedirectionAborts, SubstitutionAborts, Ok
  <1>10. CASE (\E status \in Code : Exit(status)) \/ Break
    BY <1>0, <1>10, ExitAs, BreakAs DEF Ok, Jumps
  <1>11. CASE ReadByte
    BY <1>11, StillOpen DEF ReadByte
  <1>12. ASSUME NEW p \in DOMAIN procs, ProcStep(p)
         PROVE  Open'
    BY <1>12, StillOpen, ProcStepAs
  <1>13. CASE UNCHANGED vars
    BY <1>13, StillOpen DEF vars
  <1>. QED  BY <1>1, <1>2, <1>3, <1>4, <1>5, <1>6, <1>7, <1>8, <1>9, <1>10, <1>11, <1>12, <1>13
       DEF Next, ShellStep, Runs, Waits

\* Every part of the invariant together; what a jump leaves undone is true
\* until there is one.
Undisturbed == Owned /\ Kept /\ Open
Invariants  == Descriptors /\ Ended /\ Heard /\ (jumped \/ Undisturbed)

LEMMA InvariantsInit == ASSUME Init PROVE Ended /\ Heard /\ Undisturbed
  BY InitOwned, InitKept, InitHeard, InitOpen DEF Undisturbed

LEMMA InvariantsStep ==
    ASSUME Invariants, Descriptors', [Next]_vars
    PROVE  /\ Ended' /\ Heard' /\ (jumped \/ Undisturbed)'
           /\ ~jumped' => ~jumped /\ Undisturbed
  <1>1. Shape /\ Shape' /\ Held /\ Ended' /\ Heard'
    BY EndedStep, HeardStep DEF Invariants, Descriptors
  <1>2. ~jumped' => ~jumped
    BY JumpedStays
  <1>3. ASSUME ~jumped'
        PROVE  Undisturbed'
    <2>1. Owned /\ Kept /\ Open
      BY <1>2, <1>3 DEF Invariants, Undisturbed
    <2>2. Owned' /\ Kept'
      BY <1>1, <1>3, <2>1, OwnedStep, KeptStep DEF Invariants
    <2>3. Open'
      BY <1>1, <1>3, <2>1, <2>2, OpenStep DEF Invariants
    <2>. QED  BY <2>2, <2>3 DEF Undisturbed
  <1>. QED  BY <1>1, <1>2, <1>3 DEF Invariants

\* While the shell waits for a pipeline (__pipewait) it has no write end of the
\* pipes __piperun made for it, so that every reader sees the end; of the read
\* ends it has, none is of a pipe that a command it executed writes to; until a
\* jump of exit, break or continue skips what would close and put them back.
THEOREM WaitsHoldingNothing == Spec => []WaitHoldsNothing
  <1>1. Init => Ended /\ Heard /\ (jumped \/ Undisturbed)
    BY InvariantsInit
  <1>2. Invariants /\ Descriptors' /\ [Next]_vars
          => Ended' /\ Heard' /\ (jumped \/ Undisturbed)'
    BY InvariantsStep
  <1>3. Invariants => WaitHoldsNothing
    <2>1. SUFFICES ASSUME Invariants, InPipeline("wait"), ~failed, ~jumped, ~Declares(Top),
                          NEW p \in Top.first + 1 .. Len(pipes)
                   PROVE  /\ ~Holds(fds, Writer(p))
                          /\ Holds(fds, Reader(p)) =>
                               \A q \in Holders(Writer(p)) : procs[q].state = "forked"
      BY DEF WaitHoldsNothing
    <2>2. Shape /\ Held /\ Kept /\ Open /\ Ok
      BY <2>1 DEF Invariants, Undisturbed, Descriptors, Ok, InPipeline
    <2>3. Top \in PipelineFrame /\ Top.type = "pipeline" /\ Top.first \in Nat
      BY <2>1, <2>2, PipelineAt, FieldsOf
    <2>4. p \in Nat /\ p > Top.first /\ ~(p <= Top.first)
      BY <2>2, <2>3, Counts
    <2>5. DOMAIN fds = Fd /\ \A q \in DOMAIN procs : DOMAIN procs[q].fds = Fd
      <3>1. fds \in Table(Len(pipes)) /\ \A q \in DOMAIN procs : procs[q].fds \in Table(Len(pipes))
        BY <2>2, ProcAt DEF Shape, Typed, Process
      <3>. QED  BY <3>1 DEF Table
    <2>6. ~Holds(fds, Writer(p))
      BY <2>1, <2>2, <2>4, <2>5, NoWriter DEF Holds
    <2>7. ASSUME Holds(fds, Reader(p)), NEW q \in Holders(Writer(p))
          PROVE  procs[q].state = "forked"
      <3>1. PICK x \in Fd : fds[x].file = Reader(p)
        BY <2>5, <2>7 DEF Holds
      <3>2. x \in Leaked
        BY <2>1, <2>2, <2>4, <3>1, NewIsLeaked DEF Open
      <3>3. Spent(Reader(p))
        BY <2>2, <3>1, <3>2 DEF Open, LeaksSpent
      <3>4. Muted(p) \/ Declared(p)
        BY <3>3 DEF Spent, Reader, File
      <3>5. ~Declared(p)
        <4>1. ASSUME NEW j \in 1 .. Len(stack), Declares(stack[j]),
                     \A i \in j + 1 .. Len(stack) : stack[i].type = "pipeline" => p <= stack[i].first
              PROVE  FALSE
          <5>1. Top = stack[Len(stack)] /\ Len(stack) \in Nat
            BY <2>2, TopFacts
          <5>2. j # Len(stack)
            BY <2>1, <4>1, <5>1
          <5>3. Len(stack) \in j + 1 .. Len(stack)
            BY <5>1, <5>2
          <5>. QED  BY <2>3, <2>4, <4>1, <5>1, <5>3
        <4>. QED  BY <4>1 DEF Declared
      <3>6. MutedIn(procs, p)
        BY <3>4, <3>5 DEF Muted
      <3>. QED  BY <2>5, <2>7, <3>6 DEF Holders, Holds, MutedIn
    <2>. QED  BY <2>6, <2>7
  <1>. QED  BY <1>1, <1>2, <1>3, DescriptorsHold, PTL DEF Spec, Invariants


----------------------------------------------------------------------------
(* What a pipeline leaves open *)

LEMMA FiniteLeaks ==
    ASSUME Shape
    PROVE  /\ IsFiniteSet(Leaked) /\ Cardinality(Leaked) \in Nat
           /\ IsFiniteSet(Going) /\ Cardinality(Going) \in Nat
  <1>1. IsFiniteSet(Fd)
    BY PipelineAssumption, FS_Interval DEF Fd
  <1>2. IsFiniteSet(1 .. Len(stack))
    BY TopFacts, FS_Interval
  <1>3. Leaked \in SUBSET Fd /\ Going \in SUBSET (1 .. Len(stack))
    BY DEF Leaked, Going
  <1>4. IsFiniteSet(Leaked) /\ IsFiniteSet(Going)
    BY <1>1, <1>2, <1>3, FS_Subset
  <1>. QED  BY <1>4, FS_CardinalityType

LEMMA CountedStep ==
    ASSUME ~jumped', "input" \notin Feature, "fundec" \notin Kind, Shape, Shape', Held, Ended, Ended',
           Owned', Kept, Heard, Open, Counted, [Next]_vars
    PROVE  Counted'
  <1>1. SUFFICES ASSUME Ok' PROVE Cardinality(Leaked') + Cardinality(Going') = started'
    BY DEF Counted
  <1>. Ok
    BY <1>1, OkBefore
  <1>2. /\ IsFiniteSet(Leaked) /\ Cardinality(Leaked) \in Nat
        /\ IsFiniteSet(Going) /\ Cardinality(Going) \in Nat
        /\ Cardinality(Leaked) + Cardinality(Going) = started
    BY FiniteLeaks DEF Counted
  <1>3. ASSUME SameLeaks, UNCHANGED started
        PROVE  Cardinality(Leaked') + Cardinality(Going') = started'
    BY <1>2, <1>3 DEF SameLeaks
  <1>4. ASSUME NEW n \in 1 .. MaxCmds, NEW kinds \in [1 .. n -> Kind], NEW negate \in Negations,
               StartPipeline(kinds, negate)
        PROVE  Cardinality(Leaked') + Cardinality(Going') = started'
    <2>. DEFINE m == Len(stack) + 1
    <2>1. Leaked' = Leaked /\ Going' = Going \cup {m} /\ m \notin Going
      BY <1>4, StartPipelineOpen
    <2>2. started' = started + 1
      BY <1>4 DEF StartPipeline
    <2>. HIDE DEF m
    <2>3. Cardinality(Going') = Cardinality(Going) + 1
      BY <1>2, <2>1, FS_AddElement
    <2>. QED  BY <1>2, <2>1, <2>2, <2>3
  <1>5. CASE MakePipe \/ SaveDescriptor \/ RestoreDescriptors
    <2>1. UNCHANGED started
      BY <1>5, Zenon DEF MakePipe, SaveDescriptor, RestoreDescriptors
    <2>. QED  BY <1>3, <1>5, <2>1, MakePipeOpen, SaveDescriptorOpen, RestoreDescriptorsOpen
  <1>6. CASE NextCommand
    <2>1. UNCHANGED started
      BY <1>6 DEF NextCommand
    <2>2. SameLeaks \/ LeavesOne
      BY <1>6, NextCommandOpen
    <2>3. ASSUME NEW x, NEW m \in Going,
                 x \notin Leaked, Leaked' = Leaked \cup {x}, Going' = Going \ {m}
          PROVE  Cardinality(Leaked') + Cardinality(Going') = started'
      <3>1. Cardinality(Leaked') = Cardinality(Leaked) + 1
        BY <1>2, <2>3, FS_AddElement
      <3>2. Cardinality(Going') = Cardinality(Going) - 1
        BY <1>2, <2>3, FS_RemoveElement
      <3>. QED  BY <1>2, <2>1, <3>1, <3>2
    <2>. QED  BY <1>3, <2>1, <2>2, <2>3 DEF LeavesOne
  <1>7. CASE PipeFails \/ SaveFails \/ RedirectionAborts \/ SubstitutionAborts
    BY <1>1, <1>7 DEF PipeFails, SaveFails, RedirectionAborts, SubstitutionAborts, Ok
  <1>8. CASE InputRedirection \/ OutputRedirection
    <2>1. UNCHANGED started
      BY <1>8, Zenon DEF InputRedirection, OutputRedirection
    <2>. QED  BY <1>3, <1>8, <2>1, RedirectionOpen
  <1>9. CASE Runs
    <2>1. UNCHANGED started
      BY <1>9, Zenon DEF Runs, Builtin, BuiltinWrites, BuiltinReturns, Fork
    <2>. QED  BY <1>3, <1>9, <2>1, CommandOpen
  <1>10. CASE EnterGroup \/ EndGroup
    <2>1. UNCHANGED started
      BY <1>10, Zenon DEF EnterGroup, EndGroup
    <2>. QED  BY <1>3, <1>10, <2>1, EnterGroupOpen, EndGroupOpen
  <1>11. CASE Waits
    <2>1. UNCHANGED started
      BY <1>11, Zenon DEF Waits, WaitChild, WaitAny, NoWait
    <2>. QED  BY <1>3, <1>11, <2>1, WaitsOpen
  <1>12. CASE BeginSubstitution \/ EndSubstitution \/ ReadEnd
    <2>1. UNCHANGED started
      BY <1>12, Zenon DEF BeginSubstitution, EndSubstitution, ReadEnd
    <2>. QED  BY <1>3, <1>12, <2>1, BeginSubstitutionOpen, EndSubstitutionOpen, ReadEndOpen
  <1>13. CASE (\E status \in Code : Exit(status)) \/ Break
    BY <1>1, <1>13, ExitAs, BreakAs DEF Ok, Jumps
  <1>14. CASE ReadByte
    <2>1. UNCHANGED started
      BY <1>14 DEF ReadByte
    <2>. QED  BY <1>3, <1>14, <2>1, StillOpen DEF ReadByte
  <1>15. ASSUME NEW p \in DOMAIN procs, ProcStep(p)
         PROVE  Cardinality(Leaked') + Cardinality(Going') = started'
    BY <1>3, <1>15, StillOpen, ProcStepAs
  <1>16. CASE UNCHANGED vars
    BY <1>3, <1>16, StillOpen DEF vars
  <1>. QED  BY <1>4, <1>5, <1>6, <1>7, <1>8, <1>9, <1>10, <1>11, <1>12, <1>13, <1>14, <1>15, <1>16
       DEF Next, ShellStep, Runs, Waits

LEMMA LeftAtTop ==
    ASSUME Shape, Held, Ended, Owned, Open, Counted, Ok, Top.type = "top"
    PROVE  /\ Cardinality(InUse(fds)) = 3 + started
           /\ \A x \in InUse(fds) \ (0 .. 2) :
                "input" \notin Feature =>
                  fds[x].cloexec /\ fds[x].file[1] = "read" /\ ~HasWriter(fds[x].file[2])
  <1>1. Len(stack) = 1 /\ stack[1] = Top /\ (\A i \in 1 .. 1 : i = 1) /\ 1 \in 1 .. 1
    <2>1. Len(stack) = 1 /\ Top = stack[Len(stack)]
      BY TopFacts
    <2>. QED  BY <2>1
  <1>2. HeldBy(Top) = {} /\ ~Busy(Top) /\ ~LastHeld(Top) /\ ~Declares(Top)
    BY DEF HeldBy, Busy, LastHeld, Declares
  <1>3. Going = {}
    BY <1>1, <1>2 DEF Going
  <1>4. fds \in Table(Len(pipes)) /\ StdOpen(fds) /\ HighMarked(fds) /\ shell = "alive"
    BY HeldAt DEF Ok, Held, Tables
  <1>5. DOMAIN fds = Fd
    BY <1>4 DEF Table
  <1>6. \A x \in Fd : x \in Leaked <=> x > 2 /\ fds[x] # Closed
    BY <1>1, <1>2 DEF Leaked
  <1>7. InUse(fds) = ((Leaked \cup {0}) \cup {1}) \cup {2}
    <2>1. Leaked \subseteq InUse(fds)
      BY <1>5, <1>6 DEF Leaked, InUse
    <2>2. \A x \in 0 .. 2 : x \in InUse(fds)
      BY <1>4, <1>5, StdFds DEF InUse, StdOpen
    <2>3. \A x \in InUse(fds) : x \in 0 .. 2 \/ x \in Leaked
      BY <1>5, <1>6, FdNumbers DEF InUse
    <2>. QED  BY <2>1, <2>2, <2>3, StdFds
  <1>8. 0 \notin Leaked /\ 1 \notin Leaked /\ 2 \notin Leaked
    BY DEF Leaked
  <1>9. Cardinality(InUse(fds)) = 3 + started
    <2>1. IsFiniteSet(Leaked) /\ Cardinality(Leaked) \in Nat
      BY FiniteLeaks
    <2>2. Cardinality(Leaked) = started
      BY <1>3, <2>1, FS_EmptySet DEF Counted
    <2>3. IsFiniteSet(Leaked \cup {0}) /\ Cardinality(Leaked \cup {0}) = Cardinality(Leaked) + 1
      BY <1>8, <2>1, FS_AddElement
    <2>. DEFINE S == Leaked \cup {0}
    <2>4. 1 \notin S /\ 2 \notin S
      BY <1>8
    <2>5. IsFiniteSet(S \cup {1}) /\ Cardinality(S \cup {1}) = Cardinality(S) + 1
      BY <2>3, <2>4, FS_AddElement
    <2>. DEFINE T == S \cup {1}
    <2>6. 2 \notin T
      BY <2>4
    <2>7. Cardinality(T \cup {2}) = Cardinality(T) + 1
      BY <2>5, <2>6, FS_AddElement
    <2>. QED  BY <1>7, <2>1, <2>2, <2>3, <2>5, <2>7
  <1>10. ASSUME NEW x \in InUse(fds) \ (0 .. 2), "input" \notin Feature
         PROVE  fds[x].cloexec /\ fds[x].file[1] = "read" /\ ~HasWriter(fds[x].file[2])
    <2>1. x \in Leaked /\ x \in Fd /\ x > 2 /\ fds[x] # Closed
      BY <1>5, <1>6, <1>10, FdNumbers DEF InUse
    <2>2. fds[x].cloexec
      BY <1>4, <1>10, <2>1 DEF HighMarked
    <2>3. PICK p \in Nat : fds[x].file = Reader(p) /\ (Muted(p) \/ Declared(p))
      BY <1>10, <2>1 DEF Open, LeaksSpent, Spent
    <2>4. Muted(p)
      BY <1>1, <1>2, <2>3 DEF Declared
    <2>5. ~Holds(fds, Writer(p))
      BY <1>1, <1>2, <1>5, <2>4 DEF Muted, IsEnd, Holds
    <2>6. ASSUME NEW q \in Holders(Writer(p)) PROVE FALSE
      <3>1. q \in DOMAIN procs /\ Holds(procs[q].fds, Writer(p))
        BY <2>6 DEF Holders
      <3>2. DOMAIN procs[q].fds = Fd
        BY <3>1, ProcAt DEF Process, Table
      <3>3. procs[q].state = "forked"
        BY <2>4, <3>1, <3>2 DEF Holds, Muted, MutedIn
      <3>4. q \in Live
        BY <3>1, <3>3 DEF Live
      <3>. QED  BY <1>1, <3>4 DEF Owned, Owns
    <2>7. Reader(p)[1] = "read" /\ Reader(p)[2] = p
      BY DEF Reader
    <2>. QED  BY <2>2, <2>3, <2>5, <2>6, <2>7 DEF HasWriter
  <1>. QED  BY <1>9, <1>10

\* Every pipeline leaves one descriptor open, the read end of its last pipe, and
\* nothing else does: __piperun (rl_pipeline.c) takes p->fd[0] for the next
\* command, and after the last there is none.  This is so until a jump, which
\* keeps what the pipelines it leaves have saved, and without what leaves more
\* open: a redirection of standard input, and the declaration of a function,
\* which does not close its fdin.
THEOREM OneLeftPerPipeline ==
    ASSUME "input" \notin Feature, "fundec" \notin Kind
    PROVE  Spec => []LeaksOnePerPipeline
  <1>1. Init => Ended /\ Heard /\ (jumped \/ Undisturbed) /\ (jumped \/ Counted)
    BY InvariantsInit, InitOpen
  <1>2. Invariants /\ (jumped \/ Counted) /\ Descriptors' /\ [Next]_vars
          => Ended' /\ Heard' /\ (jumped \/ Undisturbed)' /\ (jumped \/ Counted)'
    <2>1. SUFFICES ASSUME Invariants, jumped \/ Counted, Descriptors', [Next]_vars, ~jumped'
                   PROVE  Counted'
      BY InvariantsStep
    <2>2. ~jumped /\ Undisturbed /\ Ended' /\ Undisturbed'
      BY <2>1, InvariantsStep
    <2>3. Kept /\ Open /\ Owned'
      BY <2>2 DEF Undisturbed
    <2>. QED  BY <2>1, <2>2, <2>3, CountedStep DEF Invariants, Descriptors
  <1>3. Invariants /\ (jumped \/ Counted) => LeaksOnePerPipeline
    <2>1. SUFFICES ASSUME Invariants, Counted, InList, Top.type = "top", ~failed, ~jumped
                   PROVE  /\ Cardinality(InUse(fds)) = 3 + started
                          /\ \A x \in InUse(fds) \ (0 .. 2) :
                               fds[x].cloexec /\ fds[x].file[1] = "read"
                               /\ ~HasWriter(fds[x].file[2])
      BY DEF LeaksOnePerPipeline
    <2>2. Shape /\ Held /\ Ended /\ Owned /\ Open /\ Ok
      BY <2>1 DEF Invariants, Undisturbed, Descriptors, Ok, InList
    <2>. QED  BY <2>1, <2>2, LeftAtTop
  <1>. QED  BY <1>1, <1>2, <1>3, DescriptorsHold, PTL DEF Spec, Invariants

=============================================================================
