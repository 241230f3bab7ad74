# A formal model of 42sh

42sh is a POSIX-like shell: it reads complete commands from a terminal, a file
or a string, parses each to a tree, and walks the tree. This directory holds
TLA+ modules translated from its C source, the TLC configurations that check
them on small instances, and proofs checked by TLAPS. Source paths below are
relative to the repository's root (`src/rl_pipeline.c`); `PROJECT.json` gives
the lines each definition translates.

## 1. The system

| Component | Source | State it keeps | Operations | Correct when |
|---|---|---|---|---|
| Main | `42sh.c` | flags, stream, exit status | loop over `parser()` | ends with the last status, or 2 after a syntax error |
| Parser | `parser.c`, `rl_*.c` (parse half) | current token, one pushed-back word, flags | `rl_accept`, `rl_expect`, one function per grammar rule | accepts what `doc/42sh-grammar.md` describes |
| Lexer | `lexer.c`, `lexer_dfa.c`, `token.*` | word, quoting mode | `lexer` | longest match; quotes protect |
| Streams | `io/` | one character of lookahead, current line, `interrupted` | `peek`, `pop`, `reset` | every character delivered once; Ctrl+C seen |
| Tree walker | `rl_*.c` (exec half) | the C stack | `rl_exec_*` | runs commands in order, gives back what it takes |
| Execution context | `include/ctx.h`, `bi_continue.c`, `bi_exit.c`, `bi_source.c` | chain of loops, chain of allocations, exit jump | `ctx_new`, `ctx_add_jump`, `ctx_add_alloc`, `ctx_free_allocated_memory` | a jump lands in the right frame and leaks nothing |
| Symbol table | `symtab_*.c` | hash chains, size, capacity | add, lookup, del, realloc, clone | is a map from (name, type) to value |
| Pipelines | `rl_pipeline.c` | pipes, per-command pid and status | `__piperun`, `__pipewait` | no deadlock, every child reaped, status of the last |
| Redirections | `rl_redirection.c`, `rl_simple_cmd.c`, `rl_shell_cmd.c` | descriptors 0, 1, 2 and their saved copies | `__redirect` | put back after each command |
| Expansion | `symexp.c`, `list.c` | expansion buffer, list of words | `symexp_word`, command substitution | words as POSIX splits them |
| cd | `bi_cd.c` | kernel's directory, C environment, PWD and OLDPWD of the symbol table | `__join_dirs`, `__chdir` | the path is the resolved one; the copies agree |
| Other builtins | `bi_*.c` | symbols, aliases | one function each | |
| Printers, utilities | `ast_dot.c`, `utils/` | none | | |

How they interact. Everything is one thread and one process, except external
commands, which are forked. Compound commands, functions, subshells `( )` and
command substitutions `$( )` run *in the shell's own process*; a subshell is a
clone of the symbol table plus a `setjmp`. `break`, `continue`, `exit` and a
failing `source` are `longjmp`s across any number of C frames. The shell moves
its own descriptors 0, 1, 2 onto pipes and files around each command and moves
them back. Those facts, and a parser without backtracking, make the hard behaviours:

* **cleanup across jumps**: nothing between the jump and its target runs;
* **one table of descriptors for all roles**: the shell is at once a member of
  the pipeline and the parent that waits for it;
* **mutation while iterating**: the symbol table grows in place, is purged
  while it is walked, and is cloned into a table that grows meanwhile;
* **a signal between any two steps**: SIGINT meets the loop around `select`, the
  line being typed and a token half collected; its handler is installed for one
  interrupt and again at one place only;
* **two readers of the same quotes**: the lexer finds the end of a word with a
  recursion over modes, `symexp.c` reads that word with flags of its own;
* **classification by state**: whether a word is reserved depends on a flag the
  parser sets before it asks for the token, and the parser looks one token
  ahead; alternatives are tried in the state their predecessors left.

`PROJECT.json` lists each hazard at its line with the property that covers it.

## 2. The modules

| Module | Models | State |
|---|---|---|
| `ExecContext` | tree walker as a stack machine, contexts, jumps | `frames`, `heap`, `out`, `jump` |
| `MCExecContext` | small instances of it | |
| `ExecContextProofs` | theorems about it: heap, pointers, barriers; where jumps land, standard output | |
| `SymtabMap` | abstract: a stack of maps | `scopes` |
| `Symtab` | hash table, step by step | `tables`, cursors of growth, clone and purge |
| `MCSymtab` | small instances of it | |
| `SymtabProofs` | theorems about it, and that it implements `SymtabMap` | |
| `Grammar` | abstract: the rules of `doc/42sh-grammar.md` as data, and derivation | |
| `Parser` | the recursive descent, token by token, and the loop of `main` | `input`, `s`, `midline`, `loop`, `derivations` |
| `MCParser` | families of inputs for it | |
| `Pipeline` | shell, forked processes, pipes, descriptors, jumps out of a pipeline | `shell`, `fds`, `stack`, `procs`, `pipes`, `started`, `failed`, `jumped` |
| `PipelineProofs` | theorems about it: the shape of the stack, statuses, processes | |
| `DescriptorProofs` | theorems about it: the tables of descriptors | |
| `PipeEndProofs` | theorems about it: the ends of the pipes | |
| `LineEditor` | abstract: lines typed, entered and dropped | `typed`, `editing`, `entered`, `mode`, `late` |
| `Terminal` | SIGINT, `select`, readline, the stream, the lexer's side of an interrupt; implements `LineEditor` | `disp`, `interrupted`, `tty`, `shell`, `edit`, `line`, `ahead`, `lex`, `cmd` |
| `TerminalProofs` | theorems about it | |
| `Chars` | the characters that mean something to lexer and expansion | |
| `Lexer` | one token, character by character, with a reader of quotes beside it | `text`, `token`, `frames`, `phase`, `next`, `reader` |
| `Expansion` | `symexp_word`, character by character | `word`, `exp`, `doing`, `outputs` |
| `PosixFields` | abstract: the fields of a word, by POSIX 2.2 and 2.6 | |
| `Words` | composes `Lexer` and `Expansion`, compares with `PosixFields` | |
| `MCWords` | families of inputs for it | |
| `WordsProofs` | theorems about it | |
| `Cd` | the path made in place, and the four places that name the directory | `cwd`, `env`, `tables`, `call`, `was` |
| `MCCd` | a small tree and its paths | |
| `CdProofs` | theorems about `Cd` | |

### ExecContext

A frame of the stack is a live C call of `rl_exec_*`, `parser` or
`rl_exec_subshell`, with its context, the heap block it owns, the nodes it
declares as local variables (`ctx_jmp`, `ctx_allocation_list`) and the standard
output it saved. A pointer to a node is the index of the frame that holds it.
One action per step of the C code that changes any of these: entering each kind
of command, registering a list, beginning and ending a loop body, returning.
A jump takes several steps: the walk of `__stop_loop` over the loops, one step
per block that `ctx_free_allocated_memory` frees, and the `longjmp`. Which
command comes next is the script's choice, hence nondeterministic. Abstracted:
words, statuses, the contents of lists; descriptors other than 1 (they are in
`Pipeline`). Interrupts of the terminal are no jumps; they are in `Terminal`.

### Symtab

`symtab_add` on a new symbol is `Insert` followed, when the table is
overloaded, by the loop of `symtab_realloc` as one step per pair (`GrowKeep`,
`GrowMove`, `GrowNext`, `GrowEnd`): the array is doubled and the chains are
relinked while the cursor walks them. `unalias -a` and `symtab_clone` are loops
of their own; the clone calls `symtab_add`, so it may grow in the middle.
`size` keeps its width by `SizeLimit` (the code's `size_t`, made small). The
hash is a constant, so that collisions can be chosen. `SymtabMap` is what the
table promises: a map per subshell. `Symtab` implements it: in the middle of a
call the abstract map already has the value the call will leave (`Promised`),
so the effect takes place at the call's first step. Refinement alone would
allow a call to change another symbol than its own; `EffectOfCalls` ties each
operation to its counterpart on the map, with the same arguments.

### Pipeline

Tables of descriptors are functions from numbers to files; `dup`, `pipe` and
`open` take the lowest free numbers, `fork` copies the table, `exec` drops what
is close-on-exec. `__piperun` and the saving loop of `rl_exec_simple_cmd` are
taken step by step (`MakePipe`, three `SaveDescriptor`, the command,
`RestoreDescriptors`, `NextCommand`), interleaved with every process already
forked. A forked process executes, writes, reads, is killed by a broken pipe or
exits; a write blocks on a full pipe and a read on an empty one that still has
a writer anywhere, the shell included. Lists (top level, group, subshell, loop,
substitution) and pipelines nest on a stack. `exit` jumps back to the innermost
`rl_exec_subshell`, that of `( )` or of `$( )`, and `break` and `continue` to a
loop (`Exit`, `Break`, `JumpTo`): the frames on the way are gone, and what they
had still to do, putting descriptors back, closing the ends of pipes and waiting
for processes, is not done. `jumped` remembers that this has happened. A list
that `exit` or `break` has ended is `over`. Abstracted: what is written (only how
many bytes), arguments, environment, functions (which are groups), `if`, `case`
(groups too) and `for`, which differs from `while` in its status only. A loop
that is run again makes new nodes. Redirections
of standard error, `<>`, `>&` and substitutions inside the environment of a
forked child are not in the model.

### Parser

A state is the parser waiting for a token, or done with a command. `s` is
`struct rl_state`: the current token, the two flags `LEX_COLLECT` and
`LEX_CMDSTART`, the pushed-back word, the error, and the node. The rules are
operators from a state to the state in which they return, under the names of
the C functions; `Parse` is the call of one rule by another. The C stack of a
parser that waits is not stored: it is what the rules compute from the tokens
given so far, and `blocked` says that they ran out of them. Three kinds of
return are kept apart, as the code does: true, false (0) and a negative error,
because `return -s->err` is false when no one set `err`, and the caller then
goes on to its next alternative. The tree is abstracted to the set of words it
holds; its shape and who frees it are not modelled, nor are prompts. Ctrl+C is
in `Terminal`, an unterminated quote in `Lexer`. `Classify` is what the lexer
makes of a lexeme given the flag.

`derivations` runs beside the parser: what `Grammar` leaves to derive after the
tokens read, a set of sentential forms. It is the reference, and shares nothing
with the parser but the spelling of tokens. It is fed the tokens as the lexer
classified them, so a word that should have been reserved is compared as a
word; `ReservedAfterSeparators` and `ReservedBeginCommands` are about that.
`abandoned` marks inputs on which a rule took tokens and then returned false
without an error; `AcceptedIsDerivable` and `WaitingIsOpen` do not speak of
them, since there the code departs from the grammar (see 5). `RejectedIsWrong`
holds of all.

### Terminal and LineEditor

One thread whose place is `shell`, and SIGINT between any two of its steps. The
loop of `interruptible_readline` is `Ask`, then `Select`, `ReadKey` or an
interrupt that wakes `select` (`Sigint` when `Asleep`), then `NotInterrupted` or
`DropLine` and `Rearm`. `disp` is the disposition of SIGINT: `signal()` of the
build is the one of System V (`c_std=c99`), so the handler is there for one
interrupt, and only `check_interrupt` puts it back. The stream gives the line a
character at a time with one of lookahead (`Peek`); the lexer takes characters
(`SkipBlank`, `Collect`, ...), and `rl_accept` lexes anew the token that an
interrupt cut (`Rearm`). readline itself is external: a key makes the line
longer, ends it, or ends the input. A token is abstracted to the set of the
lines its characters come from (`lex.word`: the count of dropped lines when each
was typed), which is what its property is about; what the parser makes of tokens
is its choice (`TakeWord`, `GoOn`, `Run`, `Reject`).

`LineEditor` is what the lexer is promised: keys reach the reader in order, each
once, a line at a time; Ctrl+C drops the line being typed and nothing else; a
line entered is read to its end. `Terminal` implements it with the refinement
mapping `Entered`, `Mode`, `Late`. The abstract editor may forget an interrupt
that came before a line was begun (`Forget`) since the code clears the flag
when it asks for a line.

### Lexer, Expansion, PosixFields and Words

`frames` are the live calls of `__lexaux`, each with its mode (`__lexmode`) and
the state of its automaton, which is the text it has read of a fixed token. The
`reader` beside it is a stack of the quotes and brackets that are open, written
from what quotes mean and not from the modes; the two are compared at every
character (`FramesAreOpen`). A substitution whose brackets stand directly in
another one is where `__lexmode` takes the inner bracket for the end of the
outer one: the reader marks it `doubt`, and the properties do not speak of it.

`Expansion` takes the turns of the loop of `symexp_word` in the order of its
tests (`Branch`), one action for each branch, with the key and its length as the
code keeps them from one parameter to the next. What a substitution writes, a
letter, a blank or a newline at a time, is chosen by the environment and read by
`__read_stream_into_list`. The positional parameters belong to the call
(`exp.args`): a function, a script or neither may have none or several, with
blanks in them or empty. In `Words` the word that `Lexer` collected is expanded,
and its fields are those of `PosixFields`, which reads it from left to right and
shares only `Chars` with the code's model.

`PosixFields` splits what POSIX 2.6.5 splits: the values of parameters and the
output of substitutions outside of double quotes. The words on which the code
departs from POSIX are marked `odd` there, one line for each departure; all
other words agree. Among them: a value with blanks is never split; newlines of
an output in double quotes become blanks, several become one, and those at its
beginning vanish; after `$1` no other parameter is expanded.

`symexp.c` does not look for the end of a substitution in the word: it has the
text parsed as a command from the bracket on. So the model is of words in which
whatever it may take for a command is one: `body` and `hard` of the reader mark
the text after `$(`, `${(` and backquotes, which must be of names and blanks and
be closed, and `Expand` takes no other word. A quote in the braces of a
parameter in double quotes (`"${'"'}"`) is left out too: there the two readers
of quotes do disagree. What runs in a substitution is in `Pipeline`.

### Cd

`call.dest` is the one buffer in which `__join_dirs` squeezes out `//`, `/./`
and `/../`, a step for each turn of its loop. The reference, `Names`, reads the
path once from left to right, in no buffer, and keeps the list of the names
entered and not left (`Enter`); `Spelt` writes that list out. `cwd` and `env` belong to the
process, and `tables` has a PWD and OLDPWD for each live subshell, because a
subshell is a clone of the symbols and no process. `behind` marks a table whose
directory was changed by a subshell, or whose PWD or OLDPWD a command has set or
unset (`SetByHand`: an assignment, `export`, `unset`): the code leaves it so.

The shell takes PWD and OLDPWD from its environment, and `bi_cd.c` trusts them:
in the model PWD is inherited unset, right or stale, and OLDPWD unset or
anything. A stale PWD is where the first relative `cd` starts from, and
`PathIsResolved` says so (`Origin`); `PlaceAgrees` speaks from the first move on.
What is taken for granted: an inherited PWD is an absolute path (an empty one
fails an assertion, and with a relative one the search for a slash in
`__join_dirs` would leave the buffer), paths are shorter than `PATH_MAX`, and no
directory is a symbolic link. `cd -` without OLDPWD prints a null pointer: in the
model nothing happens, or the shell dies.

## 3. The runs

| Run | What it asks | Bounds, and why they are enough |
|---|---|---|
| `jumps_and_heap` | heap, loop pointer, landing of jumps, barriers, standard output across jumps | six frames: two nested loops in a substitution of a loop, or a function in a loop with a loop of its own; `break` 0 to 3 passes both sides of the loop count; one block per frame, the allocator returns the lowest free block (an action constraint: blocks are interchangeable) |
| `symtab` | map refinement, effect of each call, placement, uniqueness, termination | three names, two types, two values; capacity 2 doubled once, with a chain that splits and one that moves whole; two tables, so that a clone may grow during the copy |
| `pipeline` | deadlock, reaping, status, broken pipes | three commands have a first, a middle and a last one; pipes of one byte block at the second; function declarations and `!` included |
| `nesting` | descriptors across groups, subshells, loops and substitutions, with `exit` and `break` | a pipeline inside a member of another one, each of two commands, three processes; after a jump `InheritStdOnly` still speaks, the others no more |
| `exhausted` | the same shell with ten descriptors | every failure of `dup` and `pipe`, at every point of a nested pipeline |
| `parser` | accepts what is derivable, with all of its words; refuses only what cannot be completed; waits only for what can | fourteen families, one for each group of rules: every sequence of their lexemes up to 5 to 9 tokens, or after a fixed opening up to 14, which holds a complete `if` with `elif`, with `else`, every form of `for`, a `case` with `(` and `\|`; at most two words in a row (`MaxWords`), as a third is read like the second |
| `terminal` | refinement of `LineEditor`, tokens whole, the handler | five keys (a letter, a blank, a quote, newline, Ctrl+D) and two interrupts, which may come at any step: a quoted token over two lines, an interrupt in it, and one that finds the shell deaf; 516 thousand states |
| `words` | modes against open quotes, longest token, fields against POSIX | thirteen sets of characters, one of them of twelve, and every text of them of four to six characters (`MCWords`); substitutions write up to three bytes, with blanks and newlines in front, between and behind; no argument, one, three, and three with a blank in one and an empty one; a value with a blank; 78 550 expansions are compared, and 15 232 odd ones are not |
| `cd` | the path is the resolved one, the copies of the directory agree | every path of up to three characters over `a b . /` and those of six over `a . /` with `../`; two calls of `cd`, with subshells and PWD or OLDPWD set or unset by hand between them; PWD inherited unset, of another directory, or with dots; OLDPWD also relative; three directories |
| `reserved_words`, `substitution_exit`, `sigint` | expected violations, see 5 | |

`CHECK_DEADLOCK FALSE` everywhere: a shell stops at the end of its input, and
the bounds on pipelines and pairs stop a behaviour too. Bounds that a guard
uses: `MaxDepth` in `ExecContext` (a push needs room; returns and jumps never
do), `MaxPairs`, `MaxCapacity`, `MaxTables` in `Symtab`, `MaxPipelines`,
`MaxDepth`, `MaxProcs`, `MaxOut`, `MaxBuiltin` in `Pipeline`, `Scopes` and
`MaxWords` in `Parser`, `MaxKeys` and `MaxSignals` in `Terminal` (they bound
the user only), the length of a scope in `Lexer`, `MaxOutput` in `Expansion`,
`MaxCalls` and `MaxDepth` in `Cd`. In `Pipeline` a pipeline is started only
when it fits with the list of one of its commands, so the bounds never block
what has begun.

`nesting` needs 20 descriptors: with fewer, `dup` fails in every substitution
and the run says nothing (`failed` is then set; the properties that only hold
when no call ran out of descriptors say so).

`PipelineEnds` assumes that what is written before its reader starts fits in
the pipe: `MaxBuiltin` is at most `Capacity`. Beyond that the shell does block
on itself, since it runs builtins, groups and substitutions before it forks or
becomes the reader; no text of the repository promises otherwise, so this is an
assumption of the property and no finding.

**Fairness.** `ExecContext`: weak fairness of the steps of a jump; the shell is
one thread, so once a jump has begun nothing else can run. `Symtab`: weak
fairness of the loop of the call in progress. `Pipeline`: weak fairness of the
shell and of each process, as the scheduler of the system gives; a process that
has output left goes on writing it, and one that drains its input goes on
reading it. A program that never ends is outside of `PipelineEnds`. `Terminal`:
weak fairness of the thread's own steps, which assumes that the commands the
user runs end; nothing is assumed of the user, so the shell may sleep in
`select` for ever. With it `Terminal` has the fairness of `LineEditor`: keys are
read while they are waited for, a line entered is taken to its end, and an
interrupt that found the editor waiting drops the line. `Parser`, `Words` and
`Cd` have no liveness property and no fairness.

Every property has at least one mutant, an operator beside the definition it
alters, under which TLC finds the property violated: a field not reset, a walk
that goes one loop too far, a descriptor not closed, a status kept from the
wrong command.

## 4. What is proved

`ExecContextProofs`, for every set of blocks, every depth and every argument of
`break`, from `ContextAssumption` alone (the null block is no block, the
terminal is a possible output, arguments are integers, the depth is a natural):

| Theorem | States |
|---|---|
| `TypeCorrect` | `Spec => []TypeOK` |
| `HeapIsExact` | `Spec => []HeapExact`: a jump frees the blocks of the frames it skips, all and no other |
| `LoopPointersAreExact` | `Spec => []LoopPointerExact` |
| `JumpsKeepBarriers` | `Spec => BarriersReturn` |

`HeapExact` is not inductive: it says nothing of why the levels on the chain of
allocations select the frames a jump skips. The inductive invariant is

    Inv == TypeOK /\ WellFormed(frames) /\ HeapExact /\ JumpConsistent

`WellFormed` says, of every frame, what it looks like given its caller's
context (one predicate per kind of frame), what each pointer of its context
names (`RegionAt`, `LoopAt`, `AllocAt`), that levels grow along the stack
between two barriers (`LevelAt`), and that a block has one owner.
`JumpConsistent` describes a jump in progress: its target encloses the command,
and the heap lacks exactly the registered blocks above the cursor. The proof
has a lemma per action (`ReadCommand`, `OpenCompound`, ... `LongJump`), from
three groups of lemmas: what pushing, replacing and dropping frames does to a
sequence; how the pointers of a pushed frame follow from its caller's; and how
the chain that `FreeRegistered` walks enumerates the registered frames of a
region. `LongJump` is the heart: frames above the target are gone, the freed
ones are exactly those registered above it, and every frame above it that owns a
block is registered, because a subshell or parser cannot be above it.

In the same module, with the same invariant:

| Theorem | States |
|---|---|
| `JumpsStopRightLoop` | `Spec => []StopsRightLoop`: `break n` leaves n loops, or all there are |
| `ScriptsKeepOutput` | `Spec => []ScriptOutput` |

`Counted` relates the walk of `__stop_loop` to what it has passed: the loops
around the command from the target up, and the levels still to go, make one more
than the argument. `OutputKept` is what makes `ScriptOutput` inductive: in a
script the command below the parser has saved the shell's own output, so that
returning to the parser puts it back, and `InterKept` that a jump goes back to
the prompt, which puts nothing back, in an interactive shell only.

`TerminalProofs`, for any number of keys and of interrupts, from
`TerminalAssumption` alone (the keys are among the five, the bounds are
naturals):

| Theorem | States |
|---|---|
| `TerminalTypeCorrect` | `Spec => []TypeOK` |
| `TokensAreWhole` | `Spec => []WordsWhole`: no word joins what was typed before and after Ctrl+C |
| `HandlerIsThere` | `Spec => []DeafOnlyIfMissed` |
| `ShellIsAnEditor` | every step of `Terminal` is one of `LineEditor` or a stutter |

    Inv == Types /\ Waits /\ Signals /\ Tokens

`WordsWhole` is not inductive: a token is whole because, when the loop around
`select` runs, nothing is left of an earlier line (`Waits`), and because between
`DropLine` and `Rearm` the token still belongs to the line just dropped, so that
`Tokens` says two things, one in that place and one elsewhere. `Signals` ties
the flag to the disposition: a flag that is set means a handler that is gone,
and a thread that was woken has both. The simulation is a lemma per group of
steps; its heart is `ReadKeySimulated`, which needs `Waits` to see that a line
is entered whole, and `PeekInv` with `EnteredPeeked`, that moving a character to
the lookahead changes nothing for the reader. The liveness half of
`ImplementsEditor` is model-checked.

`SymtabProofs`, for every hash function, initial capacity, width of `size_t`
and number of subshells, from `SymtabAssumption` (the hash gives naturals, the
types are among three, the bounds are naturals):

| Theorem | States |
|---|---|
| `InvHolds` | `Spec => []Inv`, the inductive invariant |
| `TypeCorrect` | `Spec => []TypeOK` |
| `EveryPairIsPlaced` | `Spec => []Placed`, also in the middle of a growth |
| `SymbolsAreUnique` | `Spec => []Unique` |
| `CallsHaveTheirEffect` | `Spec => EffectOfCalls` |
| `TableImplementsMap` | `Spec => ImplementsMap`: initial states and every step of `SymtabMap` |

    Inv == Stack /\ Calls /\ Purged /\ Copied

Neither `Unique` nor the refinement is inductive alone: `symtab_lookup` reads one
bucket only, so that it finds a symbol at all depends on every pair being
placed, and while `symtab_realloc` runs, on the place of its cursor: behind it
pairs are in the bucket of the doubled capacity, ahead of it in the old one
(`DivMod`: these differ by the old capacity or not at all). `Stack` says this of
every table (`TableOK`), `Calls` which calls can be in progress together,
`Purged` that no alias is left behind the cursor of `unalias -a`, `Copied` that
the clone has exactly the pairs already passed in its source. A growing table
has its map unchanged at each step, which is what lets the abstract call take
effect at its first step.

`CdProofs`, for every tree of directories, any characters, any argument and any
number of calls and subshells, from `CdAssumption` (the tree has the parents of
its directories and no name with a slash or `.`, `HOME` is absolute, paths are
of `Chars`, to which the end of the buffer does not belong):

| Theorem | States |
|---|---|
| `InvHolds` | `Spec => []Inv` |
| `PlacesAgree` | `Spec => []PlaceAgrees` |
| `ResolvesHolds` | `Spec => []Resolves` |
| `PathResolved` | `Spec => []PathIsResolved` |

    Inv == Shaped /\ EnvTrue /\ CallRemembers /\ TablesTrue

`PlaceAgrees` is not inductive: it speaks of the running table only, while
leaving a subshell brings back the one below (`TablesTrue`), and the path a call
of `cd` stores in `OLDPWD` is the working directory it took before `__join_dirs`
(`CallRemembers`), which is the true one once `cd` has moved the shell
(`EnvTrue`), whatever was inherited. Nothing is used for it of what `__join_dirs` makes of a path,
only that `chdir` succeeds on a path that names a directory.

`PathIsResolved` speaks of the text at the end of the loop. While it runs,
`Resolving(dest, seek, names)` says that the buffer begins and ends with a
slash, that read from the left it leads to `names`, those of the argument, and
that no slash before `seek` is followed by `/`, `./` or `../` (`Normal`). The
three cases of the loop are one operation, `Cut`: the text between two slashes
is taken out. A text with a cut leads to the same names when both slashes lead
to the same (`Spliced`), which is immediate for `//` and `/./`
(`ResolvingShortens`); for `/../` it takes `Normal`, which makes the name before
it one that was entered, so that leaving it gives what the slash before it led
to, or else the slash is the first and the root its own parent
(`ResolvingGoesUp`). `Normal` survives a cut because what follows the slash that
stays is not seen from before it (`SplicedNormal`). When the loop ends, a text
that is `Normal` throughout is the one its names spell (`Spelled`,
`ResolvingEnds`). The reference and `FlattenSeq` are recursive functions: that
they exist, and what they do at each step, is proved by the least position at
which it fails (`ReadExists`, `FlatExists`).

`PipelineProofs`, `DescriptorProofs` and `PipeEndProofs`, each extending the one
before, for any number of commands, processes, pipes, descriptors, nested
lists and bytes, from `PipelineAssumption` (descriptors 0 to 4 at least, a
pipe holds at least a byte, a pipeline has room for a command, statuses are
those of `exit`, `MaxDepth` counts the top level):

| Theorem | States | Provided |
|---|---|---|
| `ShapeHolds` | the stack is lists and pipelines in turn, each pipeline at a line of `__piperun` or `__pipewait`, with what it knows there | |
| `StatusIsOfLast` | `Spec => StatusOfLast` | |
| `NoneOutlives` | `Spec => []AllReaped` | |
| `DescriptorsHold` | what frames remember is open, close-on-exec, above 2, and theirs alone | |
| `TypeCorrect` | `Spec => []TypeOK` | |
| `ChildrenInheritStd` | `Spec => []InheritStdOnly` | no `<` |
| `StdIsRestored` | `Spec => []StdRestored` | |
| `ShellIsHeard` | `Spec => []ShellSurvives` | |
| `WaitsHoldingNothing` | `Spec => []WaitHoldsNothing` | |
| `OneLeftPerPipeline` | `Spec => []LeaksOnePerPipeline` | no `<`, no declaration |

No `<` is `"input" \notin Feature`, for the leak in section 5. No declaration is
`"fundec" \notin Kind`: a function declared after a `|` leaves the read end it was
given open.

No theorem excludes jumps. `StatusOfLast`, `AllReaped`, `StdRestored`,
`WaitHoldsNothing` and `LeaksOnePerPipeline` speak until one has left a pipeline
(`~jumped`), since after it the code does break them: `exit` in `( )` or `$( )`,
`break` and `continue` go over the restoring of descriptors and over
`__pipewait` (`(exit 1) | cat`; finding `substitution_exit`). So does
`PipelineEnds`. The lemma `JumpedStays` is why an invariant may be one of the
states before a jump. `InheritStdOnly` and `ShellSurvives` hold through all
jumps, whatever these leave open: what a jump forgets is close-on-exec, and a
write end that stays standard output has its reader beside it.

The argument goes through these parts, each with a lemma per action:

* `Shape` (with `TypeOK` inside) and `Held`: two frames never remember one
  descriptor (`Apart`), so what a command does above a pipeline cannot touch
  what the pipeline will use. `StdOpen`, that 0, 1 and 2 are open between any two
  steps, is why `dup` and `pipe`, which take the lowest free number, never give
  one of them.
* `LastAlive`, `Ended`, `Owned`: the last process of a pipeline is reaped by its
  own `waitpid` only; one that ended has no descriptor; one that lives has a
  node in a pipeline on the stack that is still to wait for it.
* `TablesOK`: above 2 everything a forked process has is close-on-exec.
* `Kept`: a pipeline can put back what its list began with. `StdRestored` alone
  says nothing while a pipeline runs, when 0, 1 and 2 are elsewhere.
* `Heard`: a write end that is standard output of the shell, or that a frame will
  put there, has its read end open above 2, in a descriptor that no frame above
  will close.
* `Open`, for `WaitHoldsNothing`: `Older` says that frames below a pipeline, and
  their processes, know older pipes only, so that its own pipes are open
  nowhere else; `LastMuted` that nothing is written to the last pipe, whose
  write end is not standard output of any command; `LeaksSpent` that a
  descriptor which no frame will close (the code leaves one for each pipeline)
  is the read end of a pipe that is muted or was made under a declaration.
* `Counted`, for `LeaksOnePerPipeline`: the descriptors no frame will close and
  the pipelines that do not wait yet are together as many as were started. Each
  action keeps both (`SameLeaks`), but for the start of a pipeline and the end
  of its last command, where one descriptor stays and the pipeline begins to
  wait (`LeavesOne`). The property itself counts at the top level only, where
  no pipeline is going.

`WordsProofs`, for every text over any set of characters, from nothing:

| Theorem | States |
|---|---|
| `FramesFollowQuotes` | `Spec => []FramesAreOpen`: a live call of `__lexaux` for every open quote and bracket |
| `LongestToken` | `Spec => []TokenIsLongest` |
| `QuotesFollowed` | `Spec => []QuotesAgree`: `symexp.c` ends every word outside of quotes, as the lexer did |
| `WordsTyped` | `Spec => []TypeOK` |

    Following == Longest /\ \E h : Steps(h) /\ Expanding(h)
    Longest   == Modal /\ Reading /\ TokenIsLongest
    Modal     == Nested /\ ReaderOK /\ Agrees

`FramesAreOpen` is not inductive: it does not say that the call on top remembers
a `$` exactly when the reader does (`Agrees`), that no other call does, and that
each has one kind, the outermost none (`Nested`). With that, `ModeStep` reads off
`__lexmode` whether a character ends the call, has another one made or neither,
and `ReaderStep` the same of the reader, so that `PushAgrees` compares the two.
`TokenIsLongest` speaks of tokens that have ended; `Reading` is what makes it
true while one is read: unless it is a word already, the automaton has read the
whole text, in the outermost call and without a mode, and a word is no fixed
token nor the beginning of one, but for keywords that cannot be one where they
stand. `Longer` lists how tokens of `token.def` go on, `DfaTakes` that the
automaton refuses a character only if no token does.

`QuotesAgree` compares two walks over one text that follow each other in time,
and the state does not keep the first. So the invariant says that there is a
record `h` of the reader after each character (`Steps`, which grows as the lexer
reads), and that at every turn of `symexp_word` its flags are those of
`h[exp.pos - 1]` (`Follows`): single quotes are what is open last, double
quotes are open somewhere, and a backslash is open only where the character
after it can change nothing. `CleanStep` is what a character does to that, with
the shape (`Layered`, `Clean`) that quotes and brackets have in a word that can
be followed; then there is one lemma for each action. Where `symexp.c` jumps over
a command, `BodyEnds` shows that it is closed and that as many quotes are open
there, and `SubstitutionEnds` that `Closing` is that place. That a text of
backquotes is not empty is used: `symexp.c` would meet the closing one again and
start another command. Induction over positions is by the least counterexample
(`LeastExists`, `GoesOn`).

The refinements are proved for initial states and steps; the fairness of
`LineEditor` is model-checked.

Only model-checked:

* liveness under fairness, which TLAPS does not reach: `JumpLands`,
  `CallsReturn`, `PipelineEnds`, the fairness of `LineEditor`;
* all of `Parser`, whose rules are recursive operators, which the provers cannot
  use;
* `FieldsAsPosix` of `Words`, whose reference reads a text with a fold of the
  community modules, whose operator argument the provers cannot instantiate.


## 5. Findings

* `substitution_exit`: `exit` inside `$( )` makes the shell wait for itself: the
  copy of the write end that the command of `exit` had saved stays open. The same
  leak comes of `exit` in `( )` and of `break` and `continue` in a loop, so that
  `(exit 1) | cat` does not end either.
* `sigint`: the handler of SIGINT is gone after the first one, and put back only
  by `check_interrupt`, after `select` or a key. Two interrupts while a command
  runs, or between two lines, kill the shell.
* `reserved_words`: after `|` (and `&`, `do` of a `for`, `{` of a function body,
  `)` of a case item) a reserved word is an ordinary word: `rl_accept` sets
  `LEX_CMDSTART` after four tokens only, and the loop that skips newlines has
  lexed the next token before `rl_cmd` sets it.
* `rl_list` and `rl_compound_list` take a command that was begun and abandoned
  for the end of the list: `echo a; !` is accepted, `echo a; ( echo b` prints an
  error and runs `echo a`. (`abandoned` in `Parser`; no run.)
* An interactive shell ends on `a && )` or `echo a > ;`, though the comment in
  `parser()` has only scripts stop at a syntax error. (Seen while modelling
  `Reject`; no run.)

* `size` of a symbol table is documented as the space used, but `symtab_del`
  decrements it for each pair while `symtab_add` counts buckets; it wraps.
  (`Symtab` counts as the code does; no run.)
* `<` leaks its descriptor into every later command, because the flag that
  should spare `<&` is zero for `O_RDONLY` too. (With `input` among the features
  of `Pipeline`, `InheritStdOnly` fails; no run.)
* After a positional parameter the next one is not expanded: `$1$x` gives the
  value of `$1` and the text `$x`, because the key of digits is still there.
  (Marked odd in `PosixFields`; no run.)
* An unquoted parameter is never split, newlines of `"$(seq 1 3)"` become blanks
  (the tests expect that, `tests/functional_tests/e2etest.py:973`), and others
  like them. (Each is a line marked odd in `PosixFields`; no run.)
* `cd -` without OLDPWD prints a null pointer before `__chdir` refuses it. (Both
  outcomes are in `CdMinus`; no run.)
* `(cd /tmp)` moves the shell itself, whose PWD is then wrong. (`behind` in
  `Cd`; no run.)
* After Ctrl+C the command keeps the tokens before it, and the token that is
  lexed anew has lost `LEX_CMDSTART`: `a=1` or `if` may then be an ordinary
  word. `cstream_reset`, which should discard the input, is called by nothing.
  (`Terminal` has both; no run.)

## 6. Not modelled, and the plan

Not modelled: escapes of `echo`, messages of errors, prompts, printers of the
tree, option parsing and exit codes of `main`, `utils/`: formatting, or
sequential code of a few lines. Streams on files and strings are a read each.
`$#`, `$RANDOM` and `$UID` print numbers. `>&`, `<>` and here-documents. Signals
are in `Terminal` only: that SIGINT also ends `waitpid` early, in
`rl_pipeline.c`, is in no module. The buffer of stdio, into which `export`
prints without a flush, is not in `Pipeline`.

Left for later, in this order:

1. the ownership of the tree in the parser: `s->node` can name a node its rule
   has already freed (`a=b >`); and the shape of the tree;
2. the nodes of the tree with `Pipeline`: a jump out of a pipeline is there, but
   the next iteration of a loop runs the same nodes, which keep the pid of the
   process that was never waited for; likewise the table of functions with
   `ExecContext`, so that one can be redefined while it runs;
3. `ExecStatus`: `&&`, `||`, `!`, `if`, `while` and functions, against the
   statuses POSIX composes.

Two things stay out of reach of the installed provers: recursive operators and
folds that take an operator (the library's induction theorems take operators as
parameters, too; `WordsProofs` goes by the least counterexample instead), and
`ENABLED`.
