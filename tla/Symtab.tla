------------------------------- MODULE Symtab -------------------------------
(***************************************************************************)
(* The table of symbols (symtab_alloc.c, symtab_ops.c, symtab_utils.c): a  *)
(* hash table with chained buckets, which holds the variables, functions   *)
(* and aliases.  A subshell works on a clone, so there is a stack of       *)
(* tables and the last one is in use.                                      *)
(*                                                                         *)
(* The three operations that walk a table while they change one -- growing *)
(* it (symtab_realloc), cloning it (symtab_clone) and deleting every alias *)
(* (unalias -a) -- take one step per pair.  A chain of pairs is a          *)
(* sequence, and a pointer into it a position.                             *)
(***************************************************************************)
EXTENDS Naturals, Sequences, FiniteSets

CONSTANTS
    Name,            \* keys
    Type,            \* kinds of symbol: word, func, alias
    Value,           \* contents of a word, of an alias, tree of a function
    Hash,            \* the hash of every key
    DefaultCapacity, \* DEFAULT_CAPACITY
    SizeLimit,       \* size_t counts modulo this
    MaxCapacity,     \* bound on the capacity of a table
    MaxPairs,        \* bound on the pairs of a table
    MaxTables        \* bound on the tables: the shell's and its subshells'

ASSUME SymtabAssumption ==
    /\ Hash \in [Name -> Nat]
    /\ Type \subseteq {"word", "func", "alias"}
    /\ {DefaultCapacity, SizeLimit, MaxCapacity, MaxTables} \subseteq Nat \ {0}
    /\ MaxPairs \in Nat

VARIABLES
    tables,  \* the shell's table, then those of the live subshells
    adding,  \* the call of symtab_add in progress
    grow,    \* cursor of symtab_realloc in the last table
    clone,   \* cursor of symtab_clone in the last table but one
    purge    \* cursor of __delete_all_aliases in the last table

vars == <<tables, adding, grow, clone, purge>>

----------------------------------------------------------------------------
(* Tables *)

Unset  == "unset"  \* the value of a pair before __setkv
Pair   == [key : Name, type : Type, value : Value \cup {Unset}, exported : BOOLEAN]
Cursor == [active : BOOLEAN, bucket : Nat, pos : Nat]

Idle    == [active |-> FALSE, bucket |-> 0, pos |-> 1]
Started == [active |-> TRUE, bucket |-> 0, pos |-> 1]
NoAdd   == [active |-> FALSE]

Last == Len(tables)
Tab  == tables[Last]

Buckets(t) == 0 .. t.capacity - 1
Bucket(t, key) == Hash[key] % t.capacity

EmptyTable ==
    [capacity |-> DefaultCapacity, size |-> 0,
     data |-> [i \in 0 .. DefaultCapacity - 1 |-> <<>>]]

\* Mutants of Matches: the kind is not compared; only the head is looked at.
MatchesAnyType(t, key, type) ==
    LET chain == t.data[Bucket(t, key)] IN {p \in DOMAIN chain : chain[p].key = key}
MatchesHead(t, key, type) ==
    LET chain == t.data[Bucket(t, key)] IN
    {p \in DOMAIN chain \cap {1} : chain[p].key = key /\ chain[p].type = type}

\* The positions of a chain where a symbol is found; symtab_lookup returns the
\* first one.
Matches(t, key, type) ==
    LET chain == t.data[Bucket(t, key)] IN
    {p \in DOMAIN chain : chain[p].key = key /\ chain[p].type = type}

Found(t, key, type) == Matches(t, key, type) # {}

Position(t, key, type) ==
    CHOOSE p \in Matches(t, key, type) :
        \A q \in Matches(t, key, type) : p <= q

Remove(chain, p) == SubSeq(chain, 1, p - 1) \o SubSeq(chain, p + 1, Len(chain))

SetTable(t) == tables' = [tables EXCEPT ![Last] = t]

\* Mutant of CountDown: a signed counter.
CountDownSigned(size) == size - 1

\* One more or one less bucket in use, as the code counts them.
CountUp(size)   == (size + 1) % SizeLimit
CountDown(size) == (size + SizeLimit - 1) % SizeLimit

\* 100 * st->size / st->capacity > 75
Overloaded(t) == ((100 * t.size) % SizeLimit) \div t.capacity > 75

\* symtab_add on a new key, up to the test of the load.
PushPair(t, kv) ==
    LET i == Bucket(t, kv.key) IN
    [t EXCEPT !.data[i] = <<kv>> \o @,
              !.size = IF t.data[i] = <<>> THEN CountUp(@) ELSE @]

\* symtab_del of the pair at position p of bucket i.
DeletePair(t, i, p) ==
    [t EXCEPT !.data[i] = Remove(@, p), !.size = CountDown(@)]

Pairs(t) == UNION {{t.data[i][p] : p \in DOMAIN t.data[i]} : i \in DOMAIN t.data}
Room(t)  == Cardinality(Pairs(t)) < MaxPairs

----------------------------------------------------------------------------
Init ==
    /\ tables = <<EmptyTable>>
    /\ adding = NoAdd
    /\ grow = Idle /\ clone = Idle /\ purge = Idle

\* No call on the table is in progress.
Ready == ~adding.active /\ ~clone.active /\ ~purge.active

----------------------------------------------------------------------------
(* symtab_add *)

\* The symbol is in the table: __setkv, and the caller may mark it exported.
Update(key, type, v, export) ==
    /\ Ready /\ Found(Tab, key, type)
    /\ LET i == Bucket(Tab, key)
           p == Position(Tab, key, type)
       IN SetTable([Tab EXCEPT !.data[i][p].value = v,
                               !.data[i][p].exported = @ \/ export])
    /\ UNCHANGED <<adding, grow, clone, purge>>

\* A new pair is linked, and the table may have to grow before the value is set.
Link(key, type, v, export) ==
    LET t == PushPair(Tab, [key |-> key, type |-> type, value |-> Unset,
                            exported |-> FALSE])
    IN /\ adding' = [active |-> TRUE, key |-> key, type |-> type, value |-> v,
                     export |-> export]
       /\ Overloaded(t) => 2 * t.capacity <= MaxCapacity
       /\ IF Overloaded(t)
            THEN /\ SetTable([t EXCEPT !.data = [i \in 0 .. 2 * t.capacity - 1 |->
                                IF i < t.capacity THEN t.data[i] ELSE <<>>]])
                 /\ grow' = Started
            ELSE SetTable(t) /\ UNCHANGED grow

Insert(key, type, v, export) ==
    /\ Ready /\ ~Found(Tab, key, type) /\ Room(Tab)
    /\ Link(key, type, v, export)
    /\ UNCHANGED <<clone, purge>>

\* __setkv on the new pair, through the pointer the call holds; it is in the
\* bucket that the capacity of the moment selects.
SetValue ==
    /\ adding.active /\ ~grow.active
    /\ LET i == Bucket(Tab, adding.key)
           p == Position(Tab, adding.key, adding.type)
       IN SetTable([Tab EXCEPT !.data[i][p].value = adding.value,
                               !.data[i][p].exported = adding.export])
    /\ adding' = NoAdd
    /\ clone' = IF clone.active THEN [clone EXCEPT !.pos = @ + 1] ELSE clone
    /\ UNCHANGED <<grow, purge>>

\* export without a value, on a variable that exists.
ExportOnly(key) ==
    /\ Ready /\ Found(Tab, key, "word")
    /\ SetTable([Tab EXCEPT
         !.data[Bucket(Tab, key)][Position(Tab, key, "word")].exported = TRUE])
    /\ UNCHANGED <<adding, grow, clone, purge>>

----------------------------------------------------------------------------
(* symtab_realloc, to twice the capacity *)

NewBucket(kv) == Hash[kv.key] % (2 * Tab.capacity)
Visited       == Tab.data[grow.bucket]

\* Mutant of GrowKeep: the cursor stays on the pair.
GrowKeepStays ==
    /\ grow.active /\ grow.bucket < Tab.capacity /\ grow.pos <= Len(Visited)
    /\ NewBucket(Visited[grow.pos]) = grow.bucket
    /\ UNCHANGED vars

\* The pair stays: kvp = &(*kvp)->next.
GrowKeep ==
    /\ grow.active /\ grow.bucket < Tab.capacity /\ grow.pos <= Len(Visited)
    /\ NewBucket(Visited[grow.pos]) = grow.bucket
    /\ grow' = [grow EXCEPT !.pos = @ + 1]
    /\ UNCHANGED <<tables, adding, clone, purge>>

\* Mutant of GrowMove: the cursor also moves on, past the next pair.
GrowMoveSkips ==
    /\ grow.active /\ grow.bucket < Tab.capacity /\ grow.pos <= Len(Visited)
    /\ LET i    == grow.bucket
           kv   == Visited[grow.pos]
           j    == NewBucket(kv)
       IN /\ i # j
          /\ SetTable([Tab EXCEPT !.data[i] = Remove(Visited, grow.pos),
                                  !.data[j] = <<kv>> \o @])
    /\ grow' = [grow EXCEPT !.pos = @ + 1]
    /\ UNCHANGED <<adding, clone, purge>>

\* The pair is unlinked, then linked at the head of its new bucket.
GrowMove ==
    /\ grow.active /\ grow.bucket < Tab.capacity /\ grow.pos <= Len(Visited)
    /\ LET i    == grow.bucket
           kv   == Visited[grow.pos]
           j    == NewBucket(kv)
           rest == Remove(Visited, grow.pos)
       IN /\ i # j
          /\ SetTable([Tab EXCEPT
               !.data[i] = rest,
               !.data[j] = <<kv>> \o @,
               !.size = IF rest = <<>> /\ Tab.data[j] # <<>> THEN CountDown(@) ELSE @])
    /\ UNCHANGED <<adding, grow, clone, purge>>

GrowNext ==
    /\ grow.active /\ grow.bucket < Tab.capacity /\ grow.pos > Len(Visited)
    /\ grow' = [grow EXCEPT !.bucket = @ + 1, !.pos = 1]
    /\ UNCHANGED <<tables, adding, clone, purge>>

GrowEnd ==
    /\ grow.active /\ grow.bucket = Tab.capacity
    /\ SetTable([Tab EXCEPT !.capacity = 2 * @])
    /\ grow' = Idle
    /\ UNCHANGED <<adding, clone, purge>>

----------------------------------------------------------------------------
(* symtab_del: unset, unalias; unalias -a *)

Delete(key, type) ==
    /\ Ready /\ Found(Tab, key, type)
    /\ SetTable(DeletePair(Tab, Bucket(Tab, key), Position(Tab, key, type)))
    /\ UNCHANGED <<adding, grow, clone, purge>>

PurgeStart ==
    /\ Ready /\ purge' = Started
    /\ UNCHANGED <<tables, adding, grow, clone>>

Purging == purge.active /\ purge.bucket \in Buckets(Tab)

\* kv->next is read before symtab_del frees kv: in the chain that is left, the
\* next pair is at the position of the deleted one.
PurgeDelete ==
    /\ Purging
    /\ LET chain == Tab.data[purge.bucket] IN
         /\ purge.pos <= Len(chain) /\ chain[purge.pos].type = "alias"
         /\ SetTable(DeletePair(Tab, purge.bucket, purge.pos))
    /\ UNCHANGED <<adding, grow, clone, purge>>

PurgeKeep ==
    /\ Purging
    /\ LET chain == Tab.data[purge.bucket] IN
         purge.pos <= Len(chain) /\ chain[purge.pos].type # "alias"
    /\ purge' = [purge EXCEPT !.pos = @ + 1]
    /\ UNCHANGED <<tables, adding, grow, clone>>

PurgeNext ==
    /\ Purging /\ purge.pos > Len(Tab.data[purge.bucket])
    /\ purge' = [purge EXCEPT !.bucket = @ + 1, !.pos = 1]
    /\ UNCHANGED <<tables, adding, grow, clone>>

PurgeEnd ==
    /\ purge.active /\ purge.bucket = Tab.capacity
    /\ purge' = Idle
    /\ UNCHANGED <<tables, adding, grow, clone>>

----------------------------------------------------------------------------
(* symtab_clone, and the subshell that uses it *)

CloneStart ==
    /\ Ready /\ Last < MaxTables
    /\ tables' = Append(tables, EmptyTable)
    /\ clone' = Started
    /\ UNCHANGED <<adding, grow, purge>>

Source  == tables[Last - 1]
Cloning == clone.active /\ ~adding.active /\ clone.bucket \in Buckets(Source)

\* Mutant of ClonePair: the export mark is lost.
ClonePairUnmarked ==
    /\ Cloning /\ clone.pos <= Len(Source.data[clone.bucket])
    /\ LET kv == Source.data[clone.bucket][clone.pos] IN
         /\ ~Found(Tab, kv.key, kv.type)
         /\ Link(kv.key, kv.type, kv.value, FALSE)
    /\ UNCHANGED <<clone, purge>>

\* symtab_add finds no pair of that symbol in the clone yet.
ClonePair ==
    /\ Cloning /\ clone.pos <= Len(Source.data[clone.bucket])
    /\ LET kv == Source.data[clone.bucket][clone.pos] IN
         /\ ~Found(Tab, kv.key, kv.type)
         /\ Link(kv.key, kv.type, kv.value, kv.exported)
    /\ UNCHANGED <<clone, purge>>

CloneNext ==
    /\ Cloning /\ clone.pos > Len(Source.data[clone.bucket])
    /\ clone' = [clone EXCEPT !.bucket = @ + 1, !.pos = 1]
    /\ UNCHANGED <<tables, adding, grow, purge>>

CloneEnd ==
    /\ clone.active /\ ~adding.active /\ clone.bucket = Source.capacity
    /\ clone' = Idle
    /\ UNCHANGED <<tables, adding, grow, purge>>

\* rl_exec_subshell frees the clone.
LeaveSubshell ==
    /\ Ready /\ Last > 1
    /\ tables' = SubSeq(tables, 1, Last - 1)
    /\ UNCHANGED <<adding, grow, clone, purge>>

----------------------------------------------------------------------------
\* Only variables can be exported: export and cd.
Call ==
    \/ \E key \in Name, type \in Type, v \in Value, export \in BOOLEAN :
         /\ export => type = "word"
         /\ Update(key, type, v, export) \/ Insert(key, type, v, export)
    \/ \E key \in Name : ExportOnly(key)
    \/ \E key \in Name, type \in Type : Delete(key, type)
    \/ PurgeStart
    \/ CloneStart
    \/ LeaveSubshell

Work ==
    \/ SetValue
    \/ GrowKeep \/ GrowMove \/ GrowNext \/ GrowEnd
    \/ PurgeDelete \/ PurgeKeep \/ PurgeNext \/ PurgeEnd
    \/ ClonePair \/ CloneNext \/ CloneEnd

Next == Call \/ Work

\* A call runs to its end: nothing blocks in it.
Spec == Init /\ [][Next]_vars /\ WF_vars(Work)

----------------------------------------------------------------------------
(* Properties *)

\* The values the variables take.
TypeOK ==
    /\ \A i \in 1 .. Last :
         LET t == tables[i] IN
         /\ t.capacity \in Nat \ {0} /\ t.size \in 0 .. SizeLimit - 1
         /\ t.data \in [0 .. (IF i = Last /\ grow.active THEN 2 ELSE 1) * t.capacity - 1
                           -> Seq(Pair)]
    /\ {grow, clone, purge} \subseteq Cursor

\* Bucket in which the pairs of bucket i at position p must be, for the table
\* in use while it grows.
Home(n, i, p) ==
    LET t == tables[n]
        moved == \/ i < grow.bucket
                 \/ i = grow.bucket /\ p < grow.pos
                 \/ i >= t.capacity
    IN IF n = Last /\ grow.active /\ moved
         THEN Hash[t.data[i][p].key] % (2 * t.capacity)
         ELSE Hash[t.data[i][p].key] % t.capacity

\* Every pair is in the bucket where symtab_lookup will search for it, at every
\* step of symtab_realloc: behind its cursor, the bucket of the new capacity.
Placed ==
    \A n \in 1 .. Last : \A i \in DOMAIN tables[n].data :
        \A p \in DOMAIN tables[n].data[i] : Home(n, i, p) = i

\* A symbol has one pair: no sequence of calls leaves a stale one that would
\* come back when the first is deleted.
Unique ==
    \A n \in 1 .. Last : \A i, j \in DOMAIN tables[n].data :
        \A p \in DOMAIN tables[n].data[i], q \in DOMAIN tables[n].data[j] :
            LET x == tables[n].data[i][p]
                y == tables[n].data[j][q]
            IN x.key = y.key /\ x.type = y.type => i = j /\ p = q

\* The map that the pairs of a table make.
Contents(t) ==
    [s \in {<<kv.key, kv.type>> : kv \in Pairs(t)} |->
        LET kv == CHOOSE x \in Pairs(t) : x.key = s[1] /\ x.type = s[2]
        IN [value |-> kv.value, exported |-> kv.exported]]

Plus(m, s, e) == [x \in DOMAIN m \cup {s} |-> IF x = s THEN e ELSE m[x]]

\* What the last table will be once the call in progress returns.
Promised ==
    CASE clone.active  -> Contents(tables[Last - 1])
      [] purge.active  -> LET m == Contents(Tab) IN
                          [s \in {x \in DOMAIN m : x[2] # "alias"} |-> m[s]]
      [] adding.active /\ ~clone.active ->
                          Plus(Contents(Tab), <<adding.key, adding.type>>,
                               [value |-> adding.value, exported |-> adding.export])
      [] OTHER         -> Contents(Tab)

\* What SymtabMap speaks of.
Scopes == [i \in 1 .. Last |-> IF i = Last THEN Promised ELSE Contents(tables[i])]

Map == INSTANCE SymtabMap WITH scopes <- Scopes

\* The hash table is the map it stands for: a call has the effect it has on the
\* map and no other, whatever growth it sets off, and the clone of a subshell
\* equals its original (symtab_add, symtab_del, symtab_clone, unalias -a).
ImplementsMap == Map!Spec

\* A call has on the map the effect of its own arguments: symbols that share a
\* bucket, or a name with another type, are left alone (symtab_lookup).
EffectOfCalls ==
    [][/\ \A key \in Name, type \in Type :
            /\ \A v \in Value, export \in BOOLEAN :
                 Update(key, type, v, export) \/ Insert(key, type, v, export)
                   => Map!Put(<<key, type>>, v, export)
            /\ Delete(key, type) => Map!Remove({<<key, type>>})
       /\ \A key \in Name : ExportOnly(key) => Map!Export(<<key, "word">>)
       /\ CloneStart => Map!EnterSubshell
       /\ LeaveSubshell => Map!LeaveSubshell]_vars

\* Every call on the table returns.
CallsReturn == ~Ready ~> Ready

=============================================================================
