---------------------------- MODULE SymtabProofs ----------------------------
(***************************************************************************)
(* What holds of the table of symbols for every hash function, capacity    *)
(* and stack of subshells.                                                 *)
(*                                                                         *)
(* Inv is inductive.  Of every table it says TableOK: the array has the    *)
(* size the capacity asks for, every pair is in its bucket (behind the     *)
(* cursor of symtab_realloc, its bucket in the doubled table), a symbol    *)
(* has one pair, and only the pair that symtab_add is adding lacks a       *)
(* value.  Placed and Unique support each other: a lookup that looks in    *)
(* one bucket sees every pair of its symbol only because of Placed.        *)
(* Purged and Copied say what the cursors of unalias -a and symtab_clone   *)
(* have done; without them the end of those walks could not be related to  *)
(* the map.                                                                *)
(*                                                                         *)
(* The lemmas go from the data outwards: buckets and their arithmetic,     *)
(* chains, whole tables, lookups, the map a table stands for, then one     *)
(* lemma for each action, and the refinement.                              *)
(***************************************************************************)
EXTENDS Symtab, SequenceTheorems, TLAPS

----------------------------------------------------------------------------
(* The inductive invariant *)

Data  == UNION {[0 .. n - 1 -> Seq(Pair)] : n \in Nat}
Table == [capacity : Nat \ {0}, size : 0 .. SizeLimit - 1, data : Data]

Symbol(kv) == <<kv.key, kv.type>>

\* The slots a cursor has passed.
Behind(g, i, p) == i < g.bucket \/ (i = g.bucket /\ p < g.pos)

\* The bucket of a pair that is at position p of bucket i, while g grows t.
HomeIn(t, g, i, p) ==
    IF g.active /\ (Behind(g, i, p) \/ i >= t.capacity)
      THEN Hash[t.data[i][p].key] % (2 * t.capacity)
      ELSE Hash[t.data[i][p].key] % t.capacity

Sized(t, g) ==
    /\ t \in Table
    /\ t.data \in [0 .. (IF g.active THEN 2 ELSE 1) * t.capacity - 1 -> Seq(Pair)]
PlacedIn(t, g) ==
    \A i \in DOMAIN t.data : \A p \in DOMAIN t.data[i] : HomeIn(t, g, i, p) = i
UniqueIn(t) ==
    \A i, j \in DOMAIN t.data : \A p \in DOMAIN t.data[i], q \in DOMAIN t.data[j] :
        Symbol(t.data[i][p]) = Symbol(t.data[j][q]) => i = j /\ p = q
\* Only the symbols of S may have a pair without a value.
ValuedIn(t, S) ==
    \A i \in DOMAIN t.data : \A p \in DOMAIN t.data[i] :
        t.data[i][p].value \in Value \/ Symbol(t.data[i][p]) \in S

TableOK(t, g, S) ==
    Sized(t, g) /\ PlacedIn(t, g) /\ UniqueIn(t) /\ ValuedIn(t, S)

\* Pairs in the slots that g has passed.
Passed(t, g) ==
    UNION {{t.data[i][p] : p \in {q \in DOMAIN t.data[i] : Behind(g, i, q)}} : i \in DOMAIN t.data}

\* The symbol symtab_add is adding.
Pending == IF adding.active THEN {<<adding.key, adding.type>>} ELSE {}

Request == [active : {TRUE}, key : Name, type : Type, value : Value, export : BOOLEAN]

Stack ==
    /\ tables \in Seq(Table) /\ tables # <<>>
    /\ \A n \in 1 .. Last - 1 : TableOK(tables[n], Idle, {})
    /\ TableOK(Tab, grow, Pending)

Calls ==
    /\ adding = NoAdd \/ adding \in Request
    /\ {grow, clone, purge} \subseteq Cursor
    /\ grow.pos > 0 /\ clone.pos > 0 /\ purge.pos > 0
    /\ grow.active => adding.active
    /\ purge.active => ~adding.active /\ ~clone.active
    /\ adding.active =>
         \E kv \in Pairs(Tab) : Symbol(kv) = <<adding.key, adding.type>>

\* What unalias -a has passed is no alias.
Purged == purge.active => \A kv \in Passed(Tab, purge) : kv.type # "alias"

\* The copy holds the pairs of the original that the cursor has passed, and the
\* one at the cursor while it is added.
Copied ==
    clone.active =>
        /\ Last > 1
        /\ Passed(Source, clone) \subseteq Pairs(Tab)
        /\ \A kv \in Pairs(Tab) : Symbol(kv) \in Pending \/ kv \in Passed(Source, clone)
        /\ adding.active =>
             /\ clone.bucket \in DOMAIN Source.data
             /\ clone.pos \in DOMAIN Source.data[clone.bucket]
             /\ Source.data[clone.bucket][clone.pos] =
                  [key |-> adding.key, type |-> adding.type, value |-> adding.value,
                   exported |-> adding.export]

Inv == Stack /\ Calls /\ Purged /\ Copied

----------------------------------------------------------------------------
(* The bucket of a key when the capacity doubles *)

LEMMA DivMod ==
    ASSUME NEW h \in Nat, NEW c \in Nat \ {0}
    PROVE  /\ h % c \in 0 .. c - 1
           /\ h \div c \in Nat
           /\ h = c * (h \div c) + (h % c)
  OBVIOUS

LEMMA DivisionIsUnique ==
    ASSUME NEW c \in Nat \ {0}, NEW a \in Int, NEW b \in Int,
           NEW x \in 0 .. c - 1, NEW y \in 0 .. c - 1, c * a + x = c * b + y
    PROVE  a = b /\ x = y
  <1>1. CASE a < b
    <2>1. c * (b - a) >= c
      BY <1>1
    <2>. QED  BY <2>1
  <1>2. CASE b < a
    <2>1. c * (a - b) >= c
      BY <1>2
    <2>. QED  BY <2>1
  <1>. QED  BY <1>1, <1>2

LEMMA ModDouble ==
    ASSUME NEW h \in Nat, NEW c \in Nat \ {0}
    PROVE  /\ h % (2 * c) \in {h % c, (h % c) + c}
           /\ h % c \in 0 .. c - 1
  <1>. DEFINE q == h \div (2 * c)
              r == h % (2 * c)
              s == h \div c
              t == h % c
  <1>1. q \in Nat /\ r \in 0 .. 2 * c - 1 /\ h = (2 * c) * q + r
    <2>1. 2 * c \in Nat \ {0}
      OBVIOUS
    <2>. QED  BY <2>1, DivMod
  <1>2. s \in Nat /\ t \in 0 .. c - 1 /\ h = c * s + t
    BY DivMod
  <1>3. r = t \/ r = t + c
    <2>. HIDE DEF q, r, s, t
    <2>1. CASE r < c
      <3>. DEFINE a == 2 * q
      <3>1. a \in Int /\ r \in 0 .. c - 1 /\ c * a + r = c * s + t
        BY <1>1, <1>2, <2>1
      <3>. HIDE DEF a
      <3>. QED  BY <3>1, <1>2, DivisionIsUnique
    <2>2. CASE r >= c
      <3>. DEFINE a == 2 * q + 1
                  d == r - c
      <3>1. a \in Int /\ d \in 0 .. c - 1 /\ c * a + d = c * s + t
        BY <1>1, <1>2, <2>2
      <3>. HIDE DEF a, d
      <3>2. d = t
        BY <3>1, <1>2, DivisionIsUnique
      <3>. QED  BY <3>2, <1>1, <1>2 DEF d
    <2>. QED  BY <1>1, <2>1, <2>2
  <1>. QED  BY <1>2, <1>3

----------------------------------------------------------------------------
(* Chains *)

LEMMA ConsChain ==
    ASSUME NEW S, NEW e \in S, NEW c \in Seq(S)
    PROVE  /\ <<e>> \o c \in Seq(S)
           /\ DOMAIN (<<e>> \o c) = 1 .. Len(c) + 1
           /\ (<<e>> \o c)[1] = e
           /\ \A p \in 1 .. Len(c) : (<<e>> \o c)[p + 1] = c[p]
           /\ \A p \in 1 .. Len(c) + 1 : p # 1 => (<<e>> \o c)[p] = c[p - 1]
  <1>1. <<e>> \in Seq(S) /\ Len(<<e>>) = 1 /\ <<e>>[1] = e /\ Len(c) \in Nat
    BY LenProperties
  <1>2. /\ <<e>> \o c \in Seq(S)
        /\ Len(<<e>> \o c) = 1 + Len(c)
        /\ \A p \in 1 .. 1 + Len(c) : (<<e>> \o c)[p] = IF p <= 1 THEN e ELSE c[p - 1]
    BY <1>1, ConcatProperties
  <1>. QED  BY <1>1, <1>2, LenProperties

LEMMA RemoveChain ==
    ASSUME NEW S, NEW c \in Seq(S), NEW p \in DOMAIN c
    PROVE  /\ Remove(c, p) \in Seq(S)
           /\ DOMAIN Remove(c, p) = 1 .. Len(c) - 1
           /\ \A q \in 1 .. Len(c) - 1 :
                Remove(c, p)[q] = IF q < p THEN c[q] ELSE c[q + 1]
  <1>. DEFINE n == Len(c)
              a == SubSeq(c, 1, p - 1)
              b == SubSeq(c, p + 1, n)
              d == a \o b
  <1>1. n \in Nat /\ p \in 1 .. n /\ \A q \in 1 .. n : c[q] \in S
    BY LenProperties, ElementOfSeq
  <1>2. a \in Seq(S) /\ Len(a) = p - 1 /\ \A q \in 1 .. p - 1 : a[q] = c[q]
    BY <1>1, SubSeqProperties
  <1>3. b \in Seq(S) /\ Len(b) = n - p /\ \A q \in 1 .. n - p : b[q] = c[p + q]
    BY <1>1, SubSeqProperties
  <1>. HIDE DEF a, b, n
  <1>4. /\ d \in Seq(S) /\ Len(d) = n - 1
        /\ \A q \in 1 .. n - 1 : d[q] = IF q <= p - 1 THEN a[q] ELSE b[q - (p - 1)]
    BY <1>1, <1>2, <1>3, ConcatProperties
  <1>5. Remove(c, p) = d
    BY DEF Remove, a, b, n
  <1>. HIDE DEF d
  <1>6. ASSUME NEW q \in 1 .. n - 1
        PROVE  d[q] = IF q < p THEN c[q] ELSE c[q + 1]
    <2>1. CASE q < p
      <3>1. q <= p - 1 /\ q \in 1 .. p - 1
        BY <1>1, <2>1
      <3>. QED  BY <1>2, <1>4, <2>1, <3>1
    <2>2. CASE ~(q < p)
      <3>1. q - (p - 1) \in 1 .. n - p /\ p + (q - (p - 1)) = q + 1 /\ ~(q <= p - 1)
        BY <1>1, <2>2
      <3>. QED  BY <1>3, <1>4, <2>2, <3>1
    <2>. QED  BY <2>1, <2>2
  <1>. QED  BY <1>1, <1>4, <1>5, <1>6, LenProperties DEF n

----------------------------------------------------------------------------
(* Slots and pairs *)

LEMMA SlotType ==
    ASSUME NEW t, NEW g, Sized(t, g), NEW i \in DOMAIN t.data
    PROVE  /\ i \in Nat /\ t.data[i] \in Seq(Pair)
           /\ Len(t.data[i]) \in Nat /\ DOMAIN t.data[i] = 1 .. Len(t.data[i])
           /\ \A p \in DOMAIN t.data[i] : t.data[i][p] \in Pair
  <1>1. t.capacity \in Nat /\ i \in Nat /\ t.data[i] \in Seq(Pair)
    BY DEF Sized, Table
  <1>. QED  BY <1>1, LenProperties, ElementOfSeq

LEMMA PairSlot ==
    ASSUME NEW t, NEW kv
    PROVE  kv \in Pairs(t) <=>
             \E i \in DOMAIN t.data : \E p \in DOMAIN t.data[i] : kv = t.data[i][p]
  BY DEF Pairs

LEMMA PassedSlot ==
    ASSUME NEW t, NEW g, NEW kv
    PROVE  kv \in Passed(t, g) <=>
             \E i \in DOMAIN t.data : \E p \in DOMAIN t.data[i] :
                 Behind(g, i, p) /\ kv = t.data[i][p]
  BY DEF Passed

LEMMA SymbolKey ==
    \A x, y : Symbol(x) = Symbol(y) <=> x.key = y.key /\ x.type = y.type
  BY DEF Symbol

\* u is t with another chain at bucket i.
Rewrites(u, t, i, c) == u.capacity = t.capacity /\ u.data = [t.data EXCEPT ![i] = c]

LEMMA RewriteSized ==
    ASSUME NEW t, NEW g, Sized(t, g), NEW i \in DOMAIN t.data, NEW c \in Seq(Pair),
           NEW z \in 0 .. SizeLimit - 1
    PROVE  /\ LET u == [t EXCEPT !.data[i] = c, !.size = z] IN
                Sized(u, g) /\ Rewrites(u, t, i, c)
           /\ LET u == [t EXCEPT !.data[i] = c] IN
                Sized(u, g) /\ Rewrites(u, t, i, c)
  <1>. DEFINE d == [t.data EXCEPT ![i] = c]
              n == (IF g.active THEN 2 ELSE 1) * t.capacity
  <1>1. t.capacity \in Nat \ {0} /\ t.size \in 0 .. SizeLimit - 1 /\ n \in Nat
        /\ t \in [capacity : Nat \ {0}, size : 0 .. SizeLimit - 1, data : Data]
    BY DEF Sized, Table
  <1>2. d \in [0 .. n - 1 -> Seq(Pair)]
    BY DEF Sized
  <1>3. d \in Data
    BY <1>1, <1>2 DEF Data
  <1>. HIDE DEF d
  <1>4. \A y \in 0 .. SizeLimit - 1 :
          LET u == [t EXCEPT !.data = d, !.size = y] IN
          u \in Table /\ u.capacity = t.capacity /\ u.data = d
    BY <1>1, <1>3 DEF Table
  <1>5. LET u == [t EXCEPT !.data = d] IN
          u \in Table /\ u.capacity = t.capacity /\ u.data = d
    BY <1>1, <1>3 DEF Table
  <1>. QED  BY <1>1, <1>2, <1>4, <1>5 DEF Sized, Rewrites, d

LEMMA RewriteChains ==
    ASSUME NEW t, NEW u, NEW i \in DOMAIN t.data, NEW c, Rewrites(u, t, i, c)
    PROVE  /\ u.capacity = t.capacity /\ DOMAIN u.data = DOMAIN t.data
           /\ u.data[i] = c
           /\ \A j \in DOMAIN t.data : j # i => u.data[j] = t.data[j]
  BY DEF Rewrites

----------------------------------------------------------------------------
(* What the operations do to a table *)

\* A chain with x at position p.
Substitute(chain, p, x) == [chain EXCEPT ![p] = x]

\* Another pair for the same symbol in the same place.
LEMMA ReplacePair ==
    ASSUME NEW t, NEW u, NEW g, NEW S, NEW S2, TableOK(t, g, S),
           NEW i \in DOMAIN t.data, NEW p \in DOMAIN t.data[i], NEW x \in Pair,
           Symbol(x) = Symbol(t.data[i][p]),
           Sized(u, g), Rewrites(u, t, i, Substitute(t.data[i], p, x)),
           x.value \in Value \/ Symbol(x) \in S2, S \subseteq S2 \cup {Symbol(x)}
    PROVE  /\ TableOK(u, g, S2)
           /\ Pairs(u) = (Pairs(t) \ {t.data[i][p]}) \cup {x}
  <1>. DEFINE c == Substitute(t.data[i], p, x)
  <1>1. DOMAIN c = DOMAIN t.data[i] /\ c[p] = x
        /\ \A q \in DOMAIN t.data[i] : q # p => c[q] = t.data[i][q]
    BY DEF Substitute
  <1>. HIDE DEF c
  <1>2. /\ u.capacity = t.capacity /\ DOMAIN u.data = DOMAIN t.data
        /\ u.data[i] = c
        /\ \A j \in DOMAIN t.data : j # i => u.data[j] = t.data[j]
    <2>1. Rewrites(u, t, i, c)
      BY DEF c
    <2>. QED  BY <2>1, RewriteChains
  <1>3. \A j \in DOMAIN t.data : DOMAIN u.data[j] = DOMAIN t.data[j]
    BY <1>1, <1>2
  <1>4. \A j \in DOMAIN t.data : \A q \in DOMAIN t.data[j] :
          /\ Symbol(u.data[j][q]) = Symbol(t.data[j][q])
          /\ u.data[j][q] = IF j = i /\ q = p THEN x ELSE t.data[j][q]
    BY <1>1, <1>2
  <1>5. UniqueIn(u)
    BY <1>2, <1>3, <1>4 DEF TableOK, UniqueIn
  <1>6. PlacedIn(u, g)
    <2>1. \A j \in DOMAIN t.data : \A q \in DOMAIN t.data[j] :
            u.data[j][q].key = t.data[j][q].key
      BY <1>4, SymbolKey
    <2>. QED  BY <1>2, <1>3, <2>1 DEF TableOK, PlacedIn, HomeIn
  <1>7. ValuedIn(u, S2)
    <2>. SUFFICES ASSUME NEW j \in DOMAIN t.data, NEW q \in DOMAIN t.data[j],
                         u.data[j][q].value \notin Value
                  PROVE  Symbol(u.data[j][q]) \in S2
      BY <1>2, <1>3 DEF ValuedIn
    <2>1. CASE j = i /\ q = p
      BY <1>4, <2>1
    <2>2. CASE ~(j = i /\ q = p)
      <3>1. Symbol(t.data[j][q]) \in S
        BY <1>4, <2>2 DEF TableOK, ValuedIn
      <3>2. Symbol(t.data[j][q]) # Symbol(x)
        BY <2>2 DEF TableOK, UniqueIn
      <3>. QED  BY <1>4, <3>1, <3>2
    <2>. QED  BY <2>1, <2>2
  <1>8. ASSUME NEW kv PROVE kv \in Pairs(u) <=> kv \in (Pairs(t) \ {t.data[i][p]}) \cup {x}
    <2>1. ASSUME NEW j \in DOMAIN t.data, NEW q \in DOMAIN t.data[j], kv = u.data[j][q]
          PROVE  kv \in (Pairs(t) \ {t.data[i][p]}) \cup {x}
      <3>1. CASE ~(j = i /\ q = p)
        <4>1. kv = t.data[j][q] /\ kv \in Pairs(t)
          BY <1>4, <2>1, <3>1, PairSlot
        <4>2. t.data[j][q] # t.data[i][p]
          BY <3>1 DEF TableOK, UniqueIn
        <4>. QED  BY <4>1, <4>2
      <3>. QED  BY <1>4, <2>1, <3>1
    <2>2. ASSUME kv \in Pairs(t), kv # t.data[i][p] PROVE kv \in Pairs(u)
      <3>1. PICK j \in DOMAIN t.data : \E q \in DOMAIN t.data[j] : kv = t.data[j][q]
        BY <2>2, PairSlot
      <3>2. PICK q \in DOMAIN t.data[j] : kv = t.data[j][q]
        BY <3>1
      <3>3. kv = u.data[j][q]
        BY <1>4, <2>2, <3>2
      <3>. QED  BY <1>2, <1>3, <3>3, PairSlot
    <2>3. x \in Pairs(u)
      BY <1>2, <1>3, <1>4, PairSlot
    <2>. QED  BY <1>2, <1>3, <2>1, <2>2, <2>3, PairSlot
  <1>. QED  BY <1>5, <1>6, <1>7, <1>8 DEF TableOK

\* A new pair at the head of its chain.
LEMMA AddPair ==
    ASSUME NEW t, NEW u, NEW S, NEW S2, TableOK(t, Idle, S),
           NEW x \in Pair, \A kv \in Pairs(t) : Symbol(kv) # Symbol(x),
           NEW i \in DOMAIN t.data, Hash[x.key] % t.capacity = i,
           Sized(u, Idle), Rewrites(u, t, i, <<x>> \o t.data[i]),
           S \subseteq S2, Symbol(x) \in S2
    PROVE  TableOK(u, Idle, S2) /\ Pairs(u) = Pairs(t) \cup {x}
  <1>. DEFINE c == <<x>> \o t.data[i]
              n == Len(t.data[i])
  <1>1. n \in Nat /\ DOMAIN t.data[i] = 1 .. n /\ t.data[i] \in Seq(Pair)
    BY SlotType DEF TableOK
  <1>2. /\ DOMAIN c = 1 .. n + 1 /\ c[1] = x
        /\ \A q \in 1 .. n : c[q + 1] = t.data[i][q]
        /\ \A q \in 1 .. n + 1 : q # 1 => c[q] = t.data[i][q - 1]
    BY <1>1, ConsChain
  <1>. HIDE DEF c, n
  <1>3. /\ u.capacity = t.capacity /\ DOMAIN u.data = DOMAIN t.data
        /\ u.data[i] = c
        /\ \A j \in DOMAIN t.data : j # i => u.data[j] = t.data[j]
    <2>1. Rewrites(u, t, i, c)
      BY DEF c
    <2>. QED  BY <2>1, RewriteChains
  \* Where the pair in a slot of u comes from.
  <1>. DEFINE At(j, q) == IF j = i THEN q - 1 ELSE q
              New(j, q) == j = i /\ q = 1
  <1>4. ASSUME NEW j \in DOMAIN t.data, NEW q \in DOMAIN u.data[j], ~New(j, q)
        PROVE  At(j, q) \in DOMAIN t.data[j] /\ u.data[j][q] = t.data[j][At(j, q)]
    <2>1. CASE j = i
      BY <1>1, <1>2, <1>3, <1>4, <2>1
    <2>. QED  BY <1>3, <2>1
  <1>5. 1 \in DOMAIN u.data[i] /\ u.data[i][1] = x
    BY <1>1, <1>2, <1>3
  <1>6. ASSUME NEW j \in DOMAIN t.data, NEW q \in DOMAIN u.data[j], ~New(j, q)
        PROVE  u.data[j][q] \in Pairs(t) /\ Symbol(u.data[j][q]) # Symbol(x)
    BY <1>4, <1>6, PairSlot
  <1>7. UniqueIn(u)
    <2>. SUFFICES ASSUME NEW j \in DOMAIN t.data, NEW k \in DOMAIN t.data,
                         NEW q \in DOMAIN u.data[j], NEW r \in DOMAIN u.data[k],
                         Symbol(u.data[j][q]) = Symbol(u.data[k][r])
                  PROVE  j = k /\ q = r
      BY <1>3 DEF UniqueIn
    <2>1. CASE ~New(j, q) /\ ~New(k, r)
      <3>1. j = k /\ At(j, q) = At(k, r)
        BY <1>4, <2>1 DEF TableOK, UniqueIn
      <3>2. CASE j = i
        BY <1>1, <1>2, <1>3, <3>1, <3>2
      <3>. QED  BY <3>1, <3>2
    <2>. QED  BY <1>5, <1>6, <2>1
  <1>8. PlacedIn(u, Idle)
    <2>. SUFFICES ASSUME NEW j \in DOMAIN t.data, NEW q \in DOMAIN u.data[j]
                  PROVE  Hash[u.data[j][q].key] % u.capacity = j
      BY <1>3 DEF PlacedIn, HomeIn, Idle
    <2>1. CASE New(j, q)
      BY <1>3, <1>5, <2>1
    <2>2. CASE ~New(j, q)
      BY <1>3, <1>4, <2>2 DEF TableOK, PlacedIn, HomeIn, Idle
    <2>. QED  BY <2>1, <2>2
  <1>9. ValuedIn(u, S2)
    <2>. SUFFICES ASSUME NEW j \in DOMAIN t.data, NEW q \in DOMAIN u.data[j]
                  PROVE  u.data[j][q].value \in Value \/ Symbol(u.data[j][q]) \in S2
      BY <1>3 DEF ValuedIn
    <2>1. CASE New(j, q)
      BY <1>5, <2>1
    <2>2. CASE ~New(j, q)
      BY <1>4, <2>2 DEF TableOK, ValuedIn
    <2>. QED  BY <2>1, <2>2
  <1>10. ASSUME NEW kv \in Pairs(t) PROVE kv \in Pairs(u)
    <2>1. PICK j \in DOMAIN t.data : \E q \in DOMAIN t.data[j] : kv = t.data[j][q]
      BY PairSlot
    <2>2. PICK q \in DOMAIN t.data[j] : kv = t.data[j][q]
      BY <2>1
    <2>3. CASE j = i
      <3>1. q + 1 \in DOMAIN u.data[i] /\ u.data[i][q + 1] = kv
        BY <1>1, <1>2, <1>3, <2>2, <2>3
      <3>. QED  BY <1>3, <3>1, PairSlot
    <2>. QED  BY <1>3, <2>2, <2>3, PairSlot
  <1>11. Pairs(u) = Pairs(t) \cup {x}
    BY <1>3, <1>5, <1>6, <1>10, PairSlot
  <1>. QED  BY <1>7, <1>8, <1>9, <1>11 DEF TableOK

\* A pair leaves its chain; a cursor on it is then on the pair after it.
LEMMA DropPair ==
    ASSUME NEW t, NEW u, NEW S, TableOK(t, Idle, S),
           NEW i \in DOMAIN t.data, NEW p \in DOMAIN t.data[i],
           Sized(u, Idle), Rewrites(u, t, i, Remove(t.data[i], p))
    PROVE  /\ TableOK(u, Idle, S)
           /\ Pairs(u) = Pairs(t) \ {t.data[i][p]}
           /\ \A h : h.bucket = i /\ h.pos = p => Passed(u, h) \subseteq Passed(t, h)
  <1>. DEFINE c == Remove(t.data[i], p)
              n == Len(t.data[i])
  <1>1. n \in Nat /\ DOMAIN t.data[i] = 1 .. n /\ t.data[i] \in Seq(Pair)
    BY SlotType DEF TableOK
  <1>2. /\ DOMAIN c = 1 .. n - 1
        /\ \A q \in 1 .. n - 1 : c[q] = IF q < p THEN t.data[i][q] ELSE t.data[i][q + 1]
    BY <1>1, RemoveChain
  <1>. HIDE DEF c, n
  <1>3. /\ u.capacity = t.capacity /\ DOMAIN u.data = DOMAIN t.data
        /\ u.data[i] = c
        /\ \A j \in DOMAIN t.data : j # i => u.data[j] = t.data[j]
    <2>1. Rewrites(u, t, i, c)
      BY DEF c
    <2>. QED  BY <2>1, RewriteChains
  \* Where the pair in a slot of u comes from.
  <1>. DEFINE At(j, q) == IF j = i /\ ~(q < p) THEN q + 1 ELSE q
  <1>4. ASSUME NEW j \in DOMAIN t.data, NEW q \in DOMAIN u.data[j]
        PROVE  /\ At(j, q) \in DOMAIN t.data[j] /\ u.data[j][q] = t.data[j][At(j, q)]
               /\ ~(j = i /\ At(j, q) = p)
    <2>1. CASE j = i
      <3>1. q \in 1 .. n - 1 /\ p \in 1 .. n
        BY <1>1, <1>2, <1>3, <2>1
      <3>2. CASE q < p
        BY <1>1, <1>2, <1>3, <2>1, <3>1, <3>2
      <3>3. CASE ~(q < p)
        BY <1>1, <1>2, <1>3, <2>1, <3>1, <3>3
      <3>. QED  BY <3>2, <3>3
    <2>. QED  BY <1>3, <2>1
  <1>5. UniqueIn(u)
    <2>. SUFFICES ASSUME NEW j \in DOMAIN t.data, NEW k \in DOMAIN t.data,
                         NEW q \in DOMAIN u.data[j], NEW r \in DOMAIN u.data[k],
                         Symbol(u.data[j][q]) = Symbol(u.data[k][r])
                  PROVE  j = k /\ q = r
      BY <1>3 DEF UniqueIn
    <2>1. j = k /\ At(j, q) = At(k, r)
      BY <1>4 DEF TableOK, UniqueIn
    <2>2. CASE j = i
      <3>1. q \in Nat /\ r \in Nat /\ p \in Nat
        BY <1>1, <1>2, <1>3, <2>1, <2>2
      <3>. QED  BY <2>1, <2>2, <3>1
    <2>. QED  BY <2>1, <2>2
  <1>6. PlacedIn(u, Idle)
    BY <1>3, <1>4 DEF TableOK, PlacedIn, HomeIn, Idle
  <1>7. ValuedIn(u, S)
    BY <1>3, <1>4 DEF TableOK, ValuedIn
  <1>8. ASSUME NEW kv \in Pairs(t), kv # t.data[i][p] PROVE kv \in Pairs(u)
    <2>1. PICK j \in DOMAIN t.data : \E q \in DOMAIN t.data[j] : kv = t.data[j][q]
      BY PairSlot
    <2>2. PICK q \in DOMAIN t.data[j] : kv = t.data[j][q]
      BY <2>1
    <2>3. CASE j = i
      <3>1. q \in 1 .. n /\ p \in 1 .. n /\ q # p
        BY <1>1, <1>8, <2>2, <2>3
      <3>. DEFINE r == IF q < p THEN q ELSE q - 1
      <3>2. r \in 1 .. n - 1 /\ u.data[i][r] = kv
        <4>1. CASE q < p
          BY <1>1, <1>2, <1>3, <2>2, <2>3, <3>1, <4>1
        <4>2. CASE ~(q < p)
          <5>1. r = q - 1 /\ ~(r < p) /\ r \in 1 .. n - 1 /\ r + 1 = q
            BY <1>1, <3>1, <4>2
          <5>. QED  BY <1>2, <1>3, <2>2, <2>3, <5>1
        <4>. QED  BY <4>1, <4>2
      <3>3. r \in DOMAIN u.data[i]
        BY <1>2, <1>3, <3>2
      <3>. QED  BY <1>3, <3>2, <3>3, PairSlot
    <2>. QED  BY <1>3, <2>2, <2>3, PairSlot
  <1>9. ASSUME NEW kv \in Pairs(u) PROVE kv \in Pairs(t) /\ kv # t.data[i][p]
    <2>1. PICK j \in DOMAIN t.data : \E q \in DOMAIN u.data[j] : kv = u.data[j][q]
      BY <1>3, PairSlot
    <2>2. PICK q \in DOMAIN u.data[j] : kv = u.data[j][q]
      BY <2>1
    <2>3. kv = t.data[j][At(j, q)] /\ At(j, q) \in DOMAIN t.data[j]
          /\ ~(j = i /\ At(j, q) = p)
      BY <1>4, <2>2
    <2>. HIDE DEF At
    <2>. QED  BY <2>3, PairSlot DEF TableOK, UniqueIn
  <1>10. Pairs(u) = Pairs(t) \ {t.data[i][p]}
    BY <1>8, <1>9
  <1>11. ASSUME NEW h, h.bucket = i, h.pos = p, NEW kv \in Passed(u, h)
         PROVE  kv \in Passed(t, h)
    <2>1. PICK j \in DOMAIN t.data : \E q \in DOMAIN u.data[j] :
                 Behind(h, j, q) /\ kv = u.data[j][q]
      BY <1>3, PassedSlot
    <2>2. PICK q \in DOMAIN u.data[j] : Behind(h, j, q) /\ kv = u.data[j][q]
      BY <2>1
    <2>3. At(j, q) = q
      BY <1>1, <1>11, <2>2, SlotType DEF Behind, TableOK
    <2>4. q \in DOMAIN t.data[j] /\ kv = t.data[j][q]
      BY <1>4, <2>2, <2>3
    <2>. QED  BY <2>2, <2>4, PassedSlot
  <1>. QED  BY <1>5, <1>6, <1>7, <1>10, <1>11 DEF TableOK

\* A pair is unlinked at position p of bucket i, and linked at the head of j.
Moves(u, t, i, p, j) ==
    u.data = [t.data EXCEPT ![i] = Remove(t.data[i], p),
                            ![j] = <<t.data[i][p]>> \o t.data[j]]

LEMMA MoveChains ==
    ASSUME NEW t, NEW g, Sized(t, g), NEW i \in DOMAIN t.data, NEW j \in DOMAIN t.data, i # j,
           NEW p \in DOMAIN t.data[i], NEW u, Moves(u, t, i, p, j)
    PROVE  LET n == Len(t.data[i])
               m == Len(t.data[j])
           IN /\ n \in Nat /\ DOMAIN t.data[i] = 1 .. n
              /\ m \in Nat /\ DOMAIN t.data[j] = 1 .. m
              /\ DOMAIN u.data[i] = 1 .. n - 1
              /\ \A q \in 1 .. n - 1 :
                   u.data[i][q] = IF q < p THEN t.data[i][q] ELSE t.data[i][q + 1]
              /\ DOMAIN u.data[j] = 1 .. m + 1 /\ u.data[j][1] = t.data[i][p]
              /\ \A q \in 1 .. m : u.data[j][q + 1] = t.data[j][q]
              /\ \A q \in 1 .. m + 1 : q # 1 => u.data[j][q] = t.data[j][q - 1]
              /\ DOMAIN u.data = DOMAIN t.data
              /\ \A k \in DOMAIN t.data : k # i /\ k # j => u.data[k] = t.data[k]
  <1>. DEFINE c == Remove(t.data[i], p)
              d == <<t.data[i][p]>> \o t.data[j]
              n == Len(t.data[i])
              m == Len(t.data[j])
  <1>1. n \in Nat /\ DOMAIN t.data[i] = 1 .. n /\ t.data[i] \in Seq(Pair)
        /\ t.data[i][p] \in Pair
    BY SlotType
  <1>2. m \in Nat /\ DOMAIN t.data[j] = 1 .. m /\ t.data[j] \in Seq(Pair)
    BY SlotType
  <1>3. /\ DOMAIN c = 1 .. n - 1
        /\ \A q \in 1 .. n - 1 : c[q] = IF q < p THEN t.data[i][q] ELSE t.data[i][q + 1]
    BY <1>1, RemoveChain
  <1>4. /\ DOMAIN d = 1 .. m + 1 /\ d[1] = t.data[i][p]
        /\ \A q \in 1 .. m : d[q + 1] = t.data[j][q]
        /\ \A q \in 1 .. m + 1 : q # 1 => d[q] = t.data[j][q - 1]
    BY <1>1, <1>2, ConsChain
  <1>. HIDE DEF c, d, n, m
  <1>5. u.data = [t.data EXCEPT ![i] = c, ![j] = d]
    BY DEF Moves, c, d
  <1>6. /\ DOMAIN u.data = DOMAIN t.data /\ u.data[i] = c /\ u.data[j] = d
        /\ \A k \in DOMAIN t.data : k # i /\ k # j => u.data[k] = t.data[k]
    BY <1>5
  <1>. QED  BY <1>1, <1>2, <1>3, <1>4, <1>6 DEF n, m

LEMMA MoveKeepsPairs ==
    ASSUME NEW t, NEW g, Sized(t, g), UniqueIn(t), NEW S, ValuedIn(t, S),
           NEW i \in DOMAIN t.data, NEW j \in DOMAIN t.data, i # j,
           NEW p \in DOMAIN t.data[i], NEW u, Moves(u, t, i, p, j)
    PROVE  UniqueIn(u) /\ ValuedIn(u, S) /\ Pairs(u) = Pairs(t)
  <1>. DEFINE n == Len(t.data[i])
              m == Len(t.data[j])
  <1>1. i \in DOMAIN t.data
    OBVIOUS
  <1>4. j \in DOMAIN t.data
    OBVIOUS
  <1>2. n \in Nat /\ DOMAIN t.data[i] = 1 .. n
    BY MoveChains
  <1>5. m \in Nat /\ DOMAIN t.data[j] = 1 .. m
    BY MoveChains
  <1>6. /\ DOMAIN u.data[i] = 1 .. n - 1
        /\ \A q \in 1 .. n - 1 :
             u.data[i][q] = IF q < p THEN t.data[i][q] ELSE t.data[i][q + 1]
    BY MoveChains
  <1>7. /\ DOMAIN u.data[j] = 1 .. m + 1 /\ u.data[j][1] = t.data[i][p]
        /\ \A q \in 1 .. m : u.data[j][q + 1] = t.data[j][q]
        /\ \A q \in 1 .. m + 1 : q # 1 => u.data[j][q] = t.data[j][q - 1]
    BY MoveChains
  <1>8. /\ DOMAIN u.data = DOMAIN t.data
        /\ \A k \in DOMAIN t.data : k # i /\ k # j => u.data[k] = t.data[k]
    BY MoveChains
  <1>. HIDE DEF n, m
  \* Where the pair in a slot of u comes from.
  <1>. DEFINE B(k, q) == IF k = j /\ q = 1 THEN i ELSE k
              A(k, q) == IF k = i /\ ~(q < p) THEN q + 1
                         ELSE IF k = j THEN (IF q = 1 THEN p ELSE q - 1) ELSE q
  <1>9. ASSUME NEW k \in DOMAIN t.data, NEW q \in DOMAIN u.data[k]
        PROVE  /\ B(k, q) \in DOMAIN t.data /\ A(k, q) \in DOMAIN t.data[B(k, q)]
               /\ u.data[k][q] = t.data[B(k, q)][A(k, q)]
               /\ ~(k = j /\ q = 1) => ~(B(k, q) = i /\ A(k, q) = p)
    <2>1. CASE k = i
      <3>1. q \in 1 .. n - 1 /\ p \in 1 .. n
        BY <1>2, <1>6, <1>8, <2>1
      <3>2. CASE q < p
        BY <1>1, <1>2, <1>6, <1>8, <2>1, <3>1, <3>2
      <3>3. CASE ~(q < p)
        BY <1>1, <1>2, <1>6, <1>8, <2>1, <3>1, <3>3
      <3>. QED  BY <3>2, <3>3
    <2>2. CASE k = j
      <3>1. q \in 1 .. m + 1
        BY <1>7, <1>8, <2>2
      <3>2. CASE q = 1
        BY <1>1, <1>7, <1>8, <2>2, <3>2
      <3>3. CASE q # 1
        <4>1. q - 1 \in 1 .. m /\ u.data[j][q] = t.data[j][q - 1]
          BY <1>5, <1>7, <1>8, <3>1, <3>3
        <4>. QED  BY <1>4, <1>5, <2>2, <3>3, <4>1
      <3>. QED  BY <3>2, <3>3
    <2>. QED  BY <1>8, <2>1, <2>2
  <1>10. UniqueIn(u)
    <2>. SUFFICES ASSUME NEW k \in DOMAIN t.data, NEW l \in DOMAIN t.data,
                         NEW q \in DOMAIN u.data[k], NEW r \in DOMAIN u.data[l],
                         Symbol(u.data[k][q]) = Symbol(u.data[l][r])
                  PROVE  k = l /\ q = r
      BY <1>8 DEF UniqueIn
    <2>1. B(k, q) = B(l, r) /\ A(k, q) = A(l, r)
      <3>1. Symbol(t.data[B(k, q)][A(k, q)]) = Symbol(t.data[B(l, r)][A(l, r)])
        BY <1>9
      <3>2. /\ B(k, q) \in DOMAIN t.data /\ A(k, q) \in DOMAIN t.data[B(k, q)]
            /\ B(l, r) \in DOMAIN t.data /\ A(l, r) \in DOMAIN t.data[B(l, r)]
        BY <1>9
      <3>. HIDE DEF A, B
      <3>. QED  BY <3>1, <3>2 DEF UniqueIn
    <2>2. CASE k = j /\ q = 1
      BY <1>9, <2>1, <2>2
    <2>3. CASE l = j /\ r = 1
      BY <1>9, <2>1, <2>3
    <2>4. CASE ~(k = j /\ q = 1) /\ ~(l = j /\ r = 1)
      <3>1. k = l
        BY <2>1, <2>4
      <3>2. p \in Nat
        BY <1>2
      <3>3. k = i \/ k = j => q \in Nat /\ r \in Nat
        BY <1>6, <1>7, <1>8, <1>2, <1>5, <3>1
      <3>. QED  BY <2>1, <2>4, <3>1, <3>2, <3>3
    <2>. QED  BY <2>2, <2>3, <2>4
  <1>11. ValuedIn(u, S)
    <2>. SUFFICES ASSUME NEW k \in DOMAIN t.data, NEW q \in DOMAIN u.data[k]
                  PROVE  u.data[k][q].value \in Value \/ Symbol(u.data[k][q]) \in S
      BY <1>8 DEF ValuedIn
    <2>1. /\ B(k, q) \in DOMAIN t.data /\ A(k, q) \in DOMAIN t.data[B(k, q)]
          /\ u.data[k][q] = t.data[B(k, q)][A(k, q)]
      BY <1>9
    <2>. HIDE DEF A, B
    <2>. QED  BY <2>1 DEF ValuedIn
  <1>12. ASSUME NEW kv \in Pairs(u) PROVE kv \in Pairs(t)
    <2>1. PICK k \in DOMAIN t.data : \E q \in DOMAIN u.data[k] : kv = u.data[k][q]
      BY <1>8, PairSlot
    <2>2. PICK q \in DOMAIN u.data[k] : kv = u.data[k][q]
      BY <2>1
    <2>3. /\ B(k, q) \in DOMAIN t.data /\ A(k, q) \in DOMAIN t.data[B(k, q)]
          /\ u.data[k][q] = t.data[B(k, q)][A(k, q)]
      BY <1>9
    <2>. HIDE DEF A, B
    <2>. QED  BY <2>2, <2>3, PairSlot
  <1>13. ASSUME NEW kv \in Pairs(t) PROVE kv \in Pairs(u)
    <2>1. PICK k \in DOMAIN t.data : \E q \in DOMAIN t.data[k] : kv = t.data[k][q]
      BY PairSlot
    <2>2. PICK q \in DOMAIN t.data[k] : kv = t.data[k][q]
      BY <2>1
    <2>. SUFFICES \E l \in DOMAIN t.data : \E r \in DOMAIN u.data[l] : kv = u.data[l][r]
      BY <1>8, PairSlot
    <2>3. CASE k = i
      <3>1. q \in 1 .. n /\ p \in 1 .. n
        BY <1>2, <2>3
      <3>2. CASE q < p
        <4>1. q \in DOMAIN u.data[i] /\ u.data[i][q] = kv
          BY <1>2, <1>6, <1>8, <2>2, <2>3, <3>1, <3>2
        <4>. QED  BY <1>1, <4>1
      <3>3. CASE q = p
        <4>1. 1 \in DOMAIN u.data[j] /\ u.data[j][1] = kv
          BY <1>5, <1>7, <1>8, <2>2, <2>3, <3>3
        <4>. QED  BY <1>4, <4>1
      <3>4. CASE q > p
        <4>1. q - 1 \in 1 .. n - 1 /\ ~(q - 1 < p) /\ (q - 1) + 1 = q
          BY <1>2, <3>1, <3>4
        <4>2. q - 1 \in DOMAIN u.data[i] /\ u.data[i][q - 1] = kv
          BY <1>6, <1>8, <2>2, <2>3, <4>1
        <4>. QED  BY <1>1, <4>2
      <3>. QED  BY <3>1, <3>2, <3>3, <3>4
    <2>4. CASE k = j
      <3>1. q + 1 \in DOMAIN u.data[j] /\ u.data[j][q + 1] = kv
        BY <1>5, <1>7, <1>8, <2>2, <2>4
      <3>. QED  BY <1>4, <3>1
    <2>. QED  BY <1>8, <2>2, <2>3, <2>4
  <1>. QED  BY <1>10, <1>11, <1>12, <1>13

\* The bucket of a pair when the capacity has doubled.
MovesTo(kv, t, j) == Hash[kv.key] % (2 * t.capacity) = j

\* The pair at the cursor moves to the bucket it has when the capacity doubles.
LEMMA MovePlaced ==
    ASSUME NEW t, NEW g, Sized(t, g), PlacedIn(t, g), g.active, g.pos \in Nat,
           NEW i \in DOMAIN t.data, i = g.bucket, i < t.capacity,
           NEW p \in DOMAIN t.data[i], p = g.pos, NEW j, i # j,
           MovesTo(t.data[i][p], t, j), Hash \in [Name -> Nat],
           NEW u, u.capacity = t.capacity, Moves(u, t, i, p, j)
    PROVE  j \in DOMAIN t.data /\ PlacedIn(u, g)
  <1>. DEFINE n == Len(t.data[i])
              m == Len(t.data[j])
              h == Hash[t.data[i][p].key]
              c == t.capacity
  <1>1. c \in Nat \ {0} /\ h \in Nat /\ DOMAIN t.data = 0 .. 2 * c - 1
    <2>1. t.data[i][p] \in Pair
      BY SlotType
    <2>. QED  BY <2>1 DEF Sized, Table, Pair
  <1>2. h % c = i
    <2>1. ~Behind(g, i, p)
      BY <1>1 DEF Behind
    <2>2. HomeIn(t, g, i, p) = i
      BY DEF PlacedIn
    <2>3. ~(i >= c)
      BY <1>1
    <2>. QED  BY <2>1, <2>2, <2>3 DEF HomeIn
  <1>3. h % (2 * c) = j
    BY DEF MovesTo
  <1>4. j = i + c /\ j \in DOMAIN t.data /\ j >= c
    <2>1. h % (2 * c) \in {h % c, (h % c) + c} /\ h % c \in 0 .. c - 1
      BY <1>1, ModDouble
    <2>. HIDE DEF h, c
    <2>. DEFINE x == h % c
                y == h % (2 * c)
    <2>2. y \in {x, x + c} /\ x \in 0 .. c - 1 /\ x = i /\ y = j
      BY <1>2, <1>3, <2>1
    <2>. HIDE DEF x, y
    <2>. QED  BY <1>1, <2>2
  <1>10. j \in DOMAIN t.data
    BY <1>4
  <1>5. n \in Nat /\ DOMAIN t.data[i] = 1 .. n /\ m \in Nat /\ DOMAIN t.data[j] = 1 .. m
    BY <1>10, MoveChains
  <1>6. /\ DOMAIN u.data[i] = 1 .. n - 1
        /\ \A q \in 1 .. n - 1 :
             u.data[i][q] = IF q < p THEN t.data[i][q] ELSE t.data[i][q + 1]
    BY <1>10, MoveChains
  <1>7. /\ DOMAIN u.data[j] = 1 .. m + 1 /\ u.data[j][1] = t.data[i][p]
        /\ \A q \in 1 .. m + 1 : q # 1 => u.data[j][q] = t.data[j][q - 1]
    BY <1>10, MoveChains
  <1>8. /\ DOMAIN u.data = DOMAIN t.data
        /\ \A k \in DOMAIN t.data : k # i /\ k # j => u.data[k] = t.data[k]
    BY <1>10, MoveChains
  <1>. HIDE DEF n, m
  <1>9. ASSUME NEW k \in DOMAIN t.data, NEW q \in DOMAIN u.data[k]
        PROVE  HomeIn(u, g, k, q) = k
    <2>1. CASE k = i
      <3>1. q \in 1 .. n - 1 /\ p \in 1 .. n
        BY <1>5, <1>6, <2>1
      <3>2. CASE q < p
        <4>1. q \in DOMAIN t.data[i] /\ u.data[i][q] = t.data[i][q]
          BY <1>5, <1>6, <3>1, <3>2
        <4>2. HomeIn(t, g, i, q) = i
          BY <4>1 DEF PlacedIn
        <4>. QED  BY <2>1, <4>1, <4>2 DEF HomeIn
      <3>3. CASE ~(q < p)
        <4>1. /\ ~Behind(g, i, q) /\ ~Behind(g, i, q + 1)
          <5>1. i \in Nat /\ ~(i < i) /\ p \in Nat /\ q \in Nat /\ ~(q + 1 < p)
            BY <1>1, <3>1, <3>3
          <5>. QED  BY <3>3, <5>1 DEF Behind
        <4>2. q + 1 \in DOMAIN t.data[i] /\ u.data[i][q] = t.data[i][q + 1]
          BY <1>5, <1>6, <3>1, <3>3
        <4>3. HomeIn(t, g, i, q + 1) = i
          BY <4>2 DEF PlacedIn
        <4>. QED  BY <2>1, <4>1, <4>2, <4>3 DEF HomeIn
      <3>. QED  BY <3>2, <3>3
    <2>2. CASE k = j
      <3>1. HomeIn(u, g, k, q) = Hash[u.data[k][q].key] % (2 * t.capacity)
        BY <1>4, <2>2 DEF HomeIn
      <3>2. CASE q = 1
        BY <1>3, <1>7, <2>2, <3>1, <3>2
      <3>3. CASE q # 1
        <4>1. u.data[k][q] = t.data[j][q - 1] /\ q - 1 \in DOMAIN t.data[j]
          BY <1>5, <1>7, <2>2, <3>3
        <4>2. HomeIn(t, g, j, q - 1) = j
          BY <1>4, <4>1 DEF PlacedIn
        <4>3. HomeIn(t, g, j, q - 1) = Hash[t.data[j][q - 1].key] % (2 * t.capacity)
          BY <1>4 DEF HomeIn
        <4>. QED  BY <2>2, <3>1, <4>1, <4>2, <4>3
      <3>. QED  BY <3>2, <3>3
    <2>3. CASE k # i /\ k # j
      <3>1. u.data[k] = t.data[k]
        BY <1>8, <2>3
      <3>2. HomeIn(t, g, k, q) = k
        BY <3>1 DEF PlacedIn
      <3>. QED  BY <3>1, <3>2 DEF HomeIn
    <2>. QED  BY <2>1, <2>2, <2>3
  <1>. QED  BY <1>4, <1>8, <1>9 DEF PlacedIn

\* u is t with as many empty buckets as it has.
Widens(u, t) ==
    /\ u.capacity = t.capacity
    /\ u.data = [i \in 0 .. 2 * t.capacity - 1 |-> IF i < t.capacity THEN t.data[i] ELSE <<>>]

\* A table is widened, and the cursor starts.
LEMMA WidenTable ==
    ASSUME NEW t, NEW u, NEW S, TableOK(t, Idle, S), Widens(u, t), u \in Table
    PROVE  TableOK(u, Started, S) /\ Pairs(u) = Pairs(t)
  <1>. DEFINE c == t.capacity
  <1>1. c \in Nat \ {0} /\ t.data \in [0 .. c - 1 -> Seq(Pair)]
    BY DEF TableOK, Sized, Table, Idle
  <1>2. DOMAIN u.data = 0 .. 2 * c - 1 /\ DOMAIN t.data = 0 .. c - 1 /\ u.capacity = c
    BY <1>1 DEF Widens
  <1>3. \A i \in DOMAIN t.data : i \in DOMAIN u.data /\ u.data[i] = t.data[i] /\ ~(i >= c)
    BY <1>1, <1>2 DEF Widens
  <1>4. \A i \in DOMAIN u.data : i \notin DOMAIN t.data => u.data[i] = <<>>
    BY <1>1, <1>2 DEF Widens
  <1>5. \A i \in DOMAIN u.data : \A p \in DOMAIN u.data[i] :
          i \in DOMAIN t.data /\ p \in DOMAIN t.data[i]
    BY <1>3, <1>4
  <1>. HIDE DEF c
  <1>6. Sized(u, Started)
    <2>1. u.data \in [0 .. 2 * c - 1 -> Seq(Pair)]
      <3>1. <<>> \in Seq(Pair)
        OBVIOUS
      <3>. QED  BY <1>1, <3>1 DEF c, Widens
    <2>. QED  BY <1>2, <2>1 DEF Sized, Started, c
  <1>7. UniqueIn(u) /\ ValuedIn(u, S)
    BY <1>3, <1>5 DEF TableOK, UniqueIn, ValuedIn
  <1>8. ASSUME NEW i \in DOMAIN u.data, NEW p \in DOMAIN u.data[i]
        PROVE  HomeIn(u, Started, i, p) = i
    <2>1. i \in DOMAIN t.data /\ p \in DOMAIN t.data[i] /\ u.data[i] = t.data[i]
          /\ ~(i >= t.capacity)
      BY <1>3, <1>5 DEF c
    <2>2. ~Behind(Started, i, p)
      <3>1. i \in Nat /\ DOMAIN t.data[i] = 1 .. Len(t.data[i]) /\ Len(t.data[i]) \in Nat
        BY <2>1, SlotType DEF TableOK
      <3>2. p \in Nat /\ p >= 1 /\ ~(i < 0)
        BY <2>1, <3>1
      <3>. QED  BY <3>2 DEF Behind, Started
    <2>3. HomeIn(t, Idle, i, p) = i
      BY <2>1 DEF TableOK, PlacedIn
    <2>4. u.capacity = t.capacity /\ ~(i >= u.capacity)
      BY <2>1 DEF Widens
    <2>5. HomeIn(u, Started, i, p) = Hash[u.data[i][p].key] % u.capacity
      BY <2>2, <2>4 DEF HomeIn
    <2>6. HomeIn(t, Idle, i, p) = Hash[t.data[i][p].key] % t.capacity
      BY DEF HomeIn, Idle
    <2>. QED  BY <2>1, <2>3, <2>4, <2>5, <2>6
  <1>9. ASSUME NEW kv PROVE kv \in Pairs(u) <=> kv \in Pairs(t)
    BY <1>3, <1>5, PairSlot
  <1>. QED  BY <1>6, <1>7, <1>8, <1>9 DEF TableOK, PlacedIn

\* g is on the pair at position p of bucket i of t, whose new bucket is j.
OnPair(t, g, i, p, j) ==
    /\ g.active /\ g.pos \in Nat
    /\ i \in DOMAIN t.data /\ i = g.bucket /\ i < t.capacity
    /\ p \in DOMAIN t.data[i] /\ p = g.pos
    /\ i # j /\ MovesTo(t.data[i][p], t, j)

LEMMA MovePair ==
    ASSUME NEW t, NEW g, NEW S, TableOK(t, g, S), NEW i, NEW p, NEW j, OnPair(t, g, i, p, j),
           Hash \in [Name -> Nat],
           NEW u, u \in Table, u.capacity = t.capacity, Moves(u, t, i, p, j)
    PROVE  TableOK(u, g, S) /\ Pairs(u) = Pairs(t)
  <1>. g.active /\ g.pos \in Nat /\ i \in DOMAIN t.data /\ i = g.bucket /\ i < t.capacity
       /\ p \in DOMAIN t.data[i] /\ p = g.pos /\ i # j /\ MovesTo(t.data[i][p], t, j)
    BY DEF OnPair
  <1>1. j \in DOMAIN t.data /\ PlacedIn(u, g)
    BY MovePlaced DEF TableOK
  <1>2. UniqueIn(u) /\ ValuedIn(u, S) /\ Pairs(u) = Pairs(t)
    BY <1>1, MoveKeepsPairs DEF TableOK
  <1>3. Sized(u, g)
    <2>1. t.data[i] \in Seq(Pair) /\ t.data[j] \in Seq(Pair) /\ t.data[i][p] \in Pair
      BY <1>1, SlotType DEF TableOK
    <2>2. Remove(t.data[i], p) \in Seq(Pair) /\ <<t.data[i][p]>> \o t.data[j] \in Seq(Pair)
      BY <2>1, RemoveChain, ConsChain
    <2>. DEFINE n == (IF g.active THEN 2 ELSE 1) * t.capacity
    <2>3. t.data \in [0 .. n - 1 -> Seq(Pair)]
      BY DEF TableOK, Sized
    <2>. DEFINE c == Remove(t.data[i], p)
                d == <<t.data[i][p]>> \o t.data[j]
    <2>. HIDE DEF n, c, d
    <2>5. u.data = [t.data EXCEPT ![i] = c, ![j] = d] /\ c \in Seq(Pair) /\ d \in Seq(Pair)
      BY <2>2 DEF Moves, c, d
    <2>4. u.data \in [0 .. n - 1 -> Seq(Pair)]
      BY <2>3, <2>5
    <2>. QED  BY <2>4 DEF Sized, n
  <1>. QED  BY <1>1, <1>2, <1>3 DEF TableOK

----------------------------------------------------------------------------
(* Cursors *)

Advanced(g)   == [g EXCEPT !.pos = @ + 1]
NextBucket(g) == [g EXCEPT !.bucket = @ + 1, !.pos = 1]

LEMMA CursorMoves ==
    ASSUME NEW g \in Cursor
    PROVE  /\ Advanced(g) \in Cursor /\ Advanced(g).pos > 0
           /\ NextBucket(g) \in Cursor /\ NextBucket(g).pos > 0
           /\ Advanced(g).active = g.active /\ NextBucket(g).active = g.active
           /\ Idle \in Cursor /\ Idle.pos > 0 /\ ~Idle.active
           /\ Started \in Cursor /\ Started.pos > 0 /\ Started.active
  <1>1. Advanced(g) \in Cursor /\ Advanced(g).pos > 0 /\ Advanced(g).active = g.active
    BY DEF Cursor, Advanced
  <1>2. /\ NextBucket(g) \in Cursor /\ NextBucket(g).pos > 0
        /\ NextBucket(g).active = g.active
    <2>. DEFINE h == [g EXCEPT !.bucket = @ + 1]
    <2>1. h \in Cursor /\ h.active = g.active
      BY DEF Cursor
    <2>2. NextBucket(g) = [h EXCEPT !.pos = 1]
      BY DEF NextBucket
    <2>. HIDE DEF h
    <2>. QED  BY <2>1, <2>2 DEF Cursor
  <1>3. Idle \in Cursor /\ Idle.pos > 0 /\ ~Idle.active
    BY DEF Cursor, Idle
  <1>4. Started \in Cursor /\ Started.pos > 0 /\ Started.active
    BY DEF Cursor, Started
  <1>. QED  BY <1>1, <1>2, <1>3, <1>4

LEMMA BehindAdvanced ==
    ASSUME NEW g \in Cursor, NEW i \in Nat, NEW p \in Nat
    PROVE  /\ Advanced(g).active = g.active
           /\ Behind(Advanced(g), i, p) <=> Behind(g, i, p) \/ (i = g.bucket /\ p = g.pos)
  BY DEF Cursor, Advanced, Behind

LEMMA BehindNextBucket ==
    ASSUME NEW g \in Cursor, NEW i \in Nat, NEW p \in Nat \ {0}, i = g.bucket => p < g.pos
    PROVE  /\ NextBucket(g).active = g.active
           /\ Behind(NextBucket(g), i, p) <=> Behind(g, i, p)
  BY DEF Cursor, NextBucket, Behind

\* The pair at the cursor has the same bucket in both capacities.
LEMMA CursorAdvances ==
    ASSUME NEW t, NEW g \in Cursor, NEW S, TableOK(t, g, S), g.active,
           g.bucket \in DOMAIN t.data, g.pos \in DOMAIN t.data[g.bucket],
           MovesTo(t.data[g.bucket][g.pos], t, g.bucket)
    PROVE  TableOK(t, Advanced(g), S)
  <1>1. Advanced(g).active = g.active
    BY BehindAdvanced
  <1>2. ASSUME NEW i \in DOMAIN t.data, NEW p \in DOMAIN t.data[i]
        PROVE  HomeIn(t, Advanced(g), i, p) = i
    <2>1. i \in Nat /\ p \in Nat
      BY SlotType DEF TableOK
    <2>2. HomeIn(t, g, i, p) = i
      BY DEF TableOK, PlacedIn
    <2>3. CASE i = g.bucket /\ p = g.pos
      <3>1. Behind(Advanced(g), i, p)
        BY <2>1, <2>3, BehindAdvanced
      <3>. QED  BY <1>1, <2>3, <3>1 DEF HomeIn, MovesTo
    <2>4. CASE ~(i = g.bucket /\ p = g.pos)
      <3>1. Behind(Advanced(g), i, p) <=> Behind(g, i, p)
        BY <2>1, <2>4, BehindAdvanced
      <3>. QED  BY <1>1, <2>2, <3>1 DEF HomeIn
    <2>. QED  BY <2>3, <2>4
  <1>. QED  BY <1>1, <1>2 DEF TableOK, Sized, PlacedIn

LEMMA CursorToNextBucket ==
    ASSUME NEW t, NEW g \in Cursor, NEW S, TableOK(t, g, S), g.active,
           g.bucket \in DOMAIN t.data, g.pos > Len(t.data[g.bucket])
    PROVE  TableOK(t, NextBucket(g), S)
  <1>1. NextBucket(g).active = g.active
    BY DEF NextBucket, Cursor
  <1>2. ASSUME NEW i \in DOMAIN t.data, NEW p \in DOMAIN t.data[i]
        PROVE  HomeIn(t, NextBucket(g), i, p) = i
    <2>1. i \in Nat /\ Len(t.data[i]) \in Nat /\ DOMAIN t.data[i] = 1 .. Len(t.data[i])
      BY SlotType DEF TableOK
    <2>2. p \in Nat \ {0} /\ (i = g.bucket => p < g.pos)
      BY <2>1 DEF Cursor
    <2>3. HomeIn(t, g, i, p) = i
      BY DEF TableOK, PlacedIn
    <2>4. Behind(NextBucket(g), i, p) <=> Behind(g, i, p)
      BY <2>1, <2>2, BehindNextBucket
    <2>. QED  BY <1>1, <2>3, <2>4 DEF HomeIn
  <1>. QED  BY <1>1, <1>2 DEF TableOK, Sized, PlacedIn

\* When the cursor is past the old buckets, every pair is where the new
\* capacity puts it.
LEMMA CursorEnds ==
    ASSUME NEW t, NEW g \in Cursor, NEW S, TableOK(t, g, S), g.active,
           g.bucket = t.capacity, NEW u, u = [t EXCEPT !.capacity = 2 * @]
    PROVE  TableOK(u, Idle, S) /\ Pairs(u) = Pairs(t)
  <1>1. /\ t.capacity \in Nat \ {0} /\ t.data \in [0 .. 2 * t.capacity - 1 -> Seq(Pair)]
        /\ t.size \in 0 .. SizeLimit - 1 /\ t.data \in Data
        /\ t \in [capacity : Nat \ {0}, size : 0 .. SizeLimit - 1, data : Data]
    BY DEF TableOK, Sized, Table
  <1>2. u.data = t.data /\ u.capacity = 2 * t.capacity /\ u \in Table
    BY <1>1 DEF Table
  <1>3. Sized(u, Idle)
    <2>1. 2 * t.capacity = (IF Idle.active THEN 2 ELSE 1) * (2 * t.capacity)
      BY <1>1 DEF Idle
    <2>2. u.data \in [0 .. (IF Idle.active THEN 2 ELSE 1) * u.capacity - 1 -> Seq(Pair)]
      BY <1>1, <1>2, <2>1
    <2>. QED  BY <1>2, <2>2 DEF Sized
  <1>4. ASSUME NEW i \in DOMAIN t.data, NEW p \in DOMAIN t.data[i]
        PROVE  HomeIn(u, Idle, i, p) = i
    <2>1. HomeIn(t, g, i, p) = i
      BY DEF TableOK, PlacedIn
    <2>2. Behind(g, i, p) \/ i >= t.capacity
      BY <1>1 DEF Behind
    <2>3. Hash[t.data[i][p].key] % (2 * t.capacity) = i
      BY <2>1, <2>2 DEF HomeIn
    <2>4. HomeIn(u, Idle, i, p) = Hash[u.data[i][p].key] % u.capacity
      BY DEF HomeIn, Idle
    <2>. QED  BY <1>2, <2>3, <2>4
  <1>. QED  BY <1>2, <1>3, <1>4 DEF TableOK, PlacedIn, UniqueIn, ValuedIn, Pairs

LEMMA PassedStarted ==
    ASSUME NEW t, Sized(t, Idle)
    PROVE  Passed(t, Started) = {}
  <1>. SUFFICES ASSUME NEW i \in DOMAIN t.data, NEW p \in DOMAIN t.data[i],
                       Behind(Started, i, p)
                PROVE  FALSE
    BY PassedSlot
  <1>1. i \in Nat /\ Len(t.data[i]) \in Nat /\ DOMAIN t.data[i] = 1 .. Len(t.data[i])
    BY SlotType
  <1>2. p \in Nat /\ p >= 1
    BY <1>1
  <1>. QED  BY <1>1, <1>2 DEF Behind, Started

LEMMA PassedAdvanced ==
    ASSUME NEW t, Sized(t, Idle), NEW g \in Cursor, g.bucket \in DOMAIN t.data,
           g.pos \in DOMAIN t.data[g.bucket]
    PROVE  Passed(t, Advanced(g)) = Passed(t, g) \cup {t.data[g.bucket][g.pos]}
  <1>1. ASSUME NEW i \in DOMAIN t.data, NEW p \in DOMAIN t.data[i]
        PROVE  Behind(Advanced(g), i, p) <=> Behind(g, i, p) \/ (i = g.bucket /\ p = g.pos)
    <2>1. i \in Nat /\ p \in Nat
      BY SlotType
    <2>. QED  BY <2>1, BehindAdvanced
  <1>2. ASSUME NEW kv PROVE kv \in Passed(t, Advanced(g)) <=>
                              kv \in Passed(t, g) \/ kv = t.data[g.bucket][g.pos]
    BY <1>1, PassedSlot
  <1>. QED  BY <1>2

LEMMA PassedNextBucket ==
    ASSUME NEW t, Sized(t, Idle), NEW g \in Cursor, g.bucket \in DOMAIN t.data,
           g.pos > Len(t.data[g.bucket])
    PROVE  Passed(t, NextBucket(g)) = Passed(t, g)
  <1>1. ASSUME NEW i \in DOMAIN t.data, NEW p \in DOMAIN t.data[i]
        PROVE  Behind(NextBucket(g), i, p) <=> Behind(g, i, p)
    <2>1. i \in Nat /\ Len(t.data[i]) \in Nat /\ DOMAIN t.data[i] = 1 .. Len(t.data[i])
      BY SlotType
    <2>2. p \in Nat \ {0} /\ (i = g.bucket => p < g.pos)
      BY <2>1 DEF Cursor
    <2>. QED  BY <2>1, <2>2, BehindNextBucket
  <1>2. ASSUME NEW kv PROVE kv \in Passed(t, NextBucket(g)) <=> kv \in Passed(t, g)
    BY <1>1, PassedSlot
  <1>. QED  BY <1>2

LEMMA PassedEnd ==
    ASSUME NEW t, Sized(t, Idle), NEW g, g.bucket = t.capacity
    PROVE  Passed(t, g) = Pairs(t)
  <1>1. \A i \in DOMAIN t.data : i < g.bucket
    BY DEF Sized, Table, Idle
  <1>2. ASSUME NEW kv PROVE kv \in Passed(t, g) <=> kv \in Pairs(t)
    BY <1>1, PassedSlot, PairSlot DEF Behind
  <1>. QED  BY <1>2

\* A pair that the cursor is on has not been passed, nor has its symbol.
LEMMA NotPassed ==
    ASSUME NEW t, Sized(t, Idle), UniqueIn(t), NEW g \in Cursor, g.bucket \in DOMAIN t.data,
           g.pos \in DOMAIN t.data[g.bucket], NEW kv \in Passed(t, g)
    PROVE  Symbol(kv) # Symbol(t.data[g.bucket][g.pos])
  <1>1. PICK i \in DOMAIN t.data : \E p \in DOMAIN t.data[i] :
               Behind(g, i, p) /\ kv = t.data[i][p]
    BY PassedSlot
  <1>2. PICK p \in DOMAIN t.data[i] : Behind(g, i, p) /\ kv = t.data[i][p]
    BY <1>1
  <1>3. ~(i = g.bucket /\ p = g.pos)
    BY <1>2 DEF Behind, Cursor
  <1>. QED  BY <1>2, <1>3 DEF UniqueIn

----------------------------------------------------------------------------
(* Searching a table that is not growing *)

\* symtab_lookup finds the pair of a symbol, and no other.
LEMMA Lookup ==
    ASSUME NEW t, NEW S, TableOK(t, Idle, S), NEW key \in Name, NEW type,
           Hash \in [Name -> Nat]
    PROVE  /\ Bucket(t, key) \in DOMAIN t.data
           /\ Found(t, key, type) <=> \E kv \in Pairs(t) : Symbol(kv) = <<key, type>>
           /\ Found(t, key, type) =>
                /\ Position(t, key, type) \in DOMAIN t.data[Bucket(t, key)]
                /\ Symbol(t.data[Bucket(t, key)][Position(t, key, type)]) = <<key, type>>
  <1>. DEFINE i == Bucket(t, key)
              M == Matches(t, key, type)
  <1>1. i \in DOMAIN t.data
    <2>1. t.capacity \in Nat \ {0} /\ DOMAIN t.data = 0 .. t.capacity - 1
      BY DEF TableOK, Sized, Table, Idle
    <2>2. Hash[key] \in Nat
      OBVIOUS
    <2>3. Hash[key] % t.capacity \in 0 .. t.capacity - 1
      BY <2>1, <2>2, DivMod
    <2>. QED  BY <2>1, <2>3 DEF Bucket
  <1>2. ASSUME NEW p PROVE p \in M <=> p \in DOMAIN t.data[i] /\ Symbol(t.data[i][p]) = <<key, type>>
    BY DEF Matches, Symbol
  <1>3. ASSUME NEW j \in DOMAIN t.data, NEW p \in DOMAIN t.data[j],
               Symbol(t.data[j][p]) = <<key, type>>
        PROVE  j = i
    <2>1. HomeIn(t, Idle, j, p) = j
      BY DEF TableOK, PlacedIn
    <2>2. t.data[j][p].key = key
      BY <1>3 DEF Symbol
    <2>. QED  BY <2>1, <2>2 DEF HomeIn, Idle, Bucket
  <1>. HIDE DEF i, M
  <1>4. Found(t, key, type) <=> \E p : p \in M
    BY DEF Found, M
  <1>5. (\E p : p \in M) <=> \E kv \in Pairs(t) : Symbol(kv) = <<key, type>>
    <2>1. ASSUME NEW p \in M PROVE \E kv \in Pairs(t) : Symbol(kv) = <<key, type>>
      BY <1>1, <1>2, PairSlot
    <2>2. ASSUME NEW kv \in Pairs(t), Symbol(kv) = <<key, type>> PROVE \E p : p \in M
      <3>1. PICK j \in DOMAIN t.data : \E p \in DOMAIN t.data[j] : kv = t.data[j][p]
        BY PairSlot
      <3>2. PICK p \in DOMAIN t.data[j] : kv = t.data[j][p]
        BY <3>1
      <3>. QED  BY <1>2, <1>3, <2>2, <3>2
    <2>. QED  BY <2>1, <2>2
  <1>6. ASSUME NEW m \in M PROVE Position(t, key, type) \in M
    <2>1. \A q \in M : q = m
      <3>1. UniqueIn(t)
        BY DEF TableOK
      <3>. QED  BY <1>1, <1>2, <3>1 DEF UniqueIn
    <2>2. m \in Nat
      BY <1>1, <1>2, SlotType DEF TableOK
    <2>3. \A q \in M : m <= q
      BY <2>1, <2>2
    <2>4. Position(t, key, type) = CHOOSE p \in M : \A q \in M : p <= q
      BY DEF Position, M
    <2>. QED  BY <2>3, <2>4
  <1>. QED  BY <1>1, <1>2, <1>4, <1>5, <1>6 DEF i

LEMMA Inactive ==
    ASSUME NEW t, NEW g, NEW S, ~g.active
    PROVE  TableOK(t, g, S) <=> TableOK(t, Idle, S)
  BY DEF TableOK, Sized, PlacedIn, HomeIn, Idle

LEMMA Counts ==
    ASSUME SizeLimit \in Nat \ {0}, NEW n \in Nat
    PROVE  CountUp(n) \in 0 .. SizeLimit - 1 /\ CountDown(n) \in 0 .. SizeLimit - 1
  <1>1. (n + 1) % SizeLimit \in 0 .. SizeLimit - 1
    BY DivMod
  <1>2. n + SizeLimit - 1 \in Nat
    OBVIOUS
  <1>3. (n + SizeLimit - 1) % SizeLimit \in 0 .. SizeLimit - 1
    BY <1>2, DivMod
  <1>. QED  BY <1>1, <1>3 DEF CountUp, CountDown

LEMMA EmptyTableOK ==
    ASSUME DefaultCapacity \in Nat \ {0}, SizeLimit \in Nat \ {0}
    PROVE  EmptyTable \in Table /\ TableOK(EmptyTable, Idle, {}) /\ Pairs(EmptyTable) = {}
  <1>. DEFINE d == [i \in 0 .. DefaultCapacity - 1 |-> <<>>]
  <1>1. <<>> \in Seq(Pair) /\ DOMAIN <<>> = {}
    BY EmptySeq
  <1>2. d \in [0 .. DefaultCapacity - 1 -> Seq(Pair)] /\ DefaultCapacity \in Nat
    BY <1>1
  <1>3. d \in Data
    BY <1>2 DEF Data
  <1>4. \A i \in DOMAIN d : DOMAIN d[i] = {}
    BY <1>1
  <1>. HIDE DEF d
  <1>5. EmptyTable = [capacity |-> DefaultCapacity, size |-> 0, data |-> d]
    BY DEF EmptyTable, d
  <1>6. EmptyTable \in Table /\ EmptyTable.data = d /\ EmptyTable.capacity = DefaultCapacity
    BY <1>3, <1>5 DEF Table
  <1>. HIDE DEF EmptyTable
  <1>7. Sized(EmptyTable, Idle)
    BY <1>2, <1>6 DEF Sized, Idle
  <1>. QED  BY <1>4, <1>6, <1>7 DEF TableOK, PlacedIn, UniqueIn, ValuedIn, Pairs

\* What an assignment through the pointer to a pair does to the table.
LEMMA AssignPair ==
    ASSUME NEW t, NEW g, Sized(t, g), NEW i \in DOMAIN t.data, NEW p \in DOMAIN t.data[i],
           NEW x \in Pair, NEW u, u.capacity = t.capacity, u.size = t.size,
           DOMAIN u = DOMAIN t, u = [f \in DOMAIN u |-> u[f]],
           u.data = [t.data EXCEPT ![i] = Substitute(t.data[i], p, x)]
    PROVE  u \in Table /\ Sized(u, g) /\ Rewrites(u, t, i, Substitute(t.data[i], p, x))
  <1>. DEFINE c == Substitute(t.data[i], p, x)
              d == [t.data EXCEPT ![i] = c]
              n == (IF g.active THEN 2 ELSE 1) * t.capacity
  <1>1. c \in Seq(Pair)
    BY SlotType, ExceptSeq DEF Substitute
  <1>2. t.data \in [0 .. n - 1 -> Seq(Pair)] /\ n \in Nat /\ t.capacity \in Nat \ {0}
        /\ t.size \in 0 .. SizeLimit - 1 /\ DOMAIN t = {"capacity", "size", "data"}
    BY DEF Sized, Table
  <1>. HIDE DEF c
  <1>3. d \in [0 .. n - 1 -> Seq(Pair)]
    BY <1>1, <1>2
  <1>4. u.data = d
    BY DEF c
  <1>. HIDE DEF d, n
  <1>5. u.data \in Data
    BY <1>2, <1>3, <1>4 DEF Data
  <1>6. u \in Table
    BY <1>2, <1>5 DEF Table
  <1>. QED  BY <1>3, <1>4, <1>6 DEF Sized, Rewrites, d, c, n

NewPair(y, v, e) == [y EXCEPT !.value = v, !.exported = e]
SetKv(t, i, p, v, e) == [t EXCEPT !.data[i][p].value = v, !.data[i][p].exported = e]

LEMMA AssignedValue ==
    ASSUME NEW t, NEW g, Sized(t, g), NEW i \in DOMAIN t.data, NEW p \in DOMAIN t.data[i],
           NEW v \in Value, NEW e \in BOOLEAN
    PROVE  LET x == NewPair(t.data[i][p], v, e)
               u == SetKv(t, i, p, v, e)
           IN /\ x \in Pair /\ Symbol(x) = Symbol(t.data[i][p])
              /\ x.value = v /\ x.exported = e
              /\ u \in Table /\ Sized(u, g) /\ Rewrites(u, t, i, Substitute(t.data[i], p, x))
  <1>. DEFINE y == t.data[i][p]
              x == [y EXCEPT !.value = v, !.exported = e]
              u == [t EXCEPT !.data[i][p].value = v, !.data[i][p].exported = e]
  <1>1. y \in Pair /\ t.data[i] \in Seq(Pair) /\ DOMAIN t = {"capacity", "size", "data"}
        /\ "data" \in DOMAIN t
    BY SlotType DEF Sized, Table
  <1>2. x \in Pair /\ x.key = y.key /\ x.type = y.type /\ x.value = v /\ x.exported = e
    <2>. HIDE DEF y
    <2>. QED  BY <1>1 DEF Pair
  <1>3. u.data = [t.data EXCEPT ![i] = Substitute(t.data[i], p, x)]
    BY <1>1 DEF Substitute, NewPair, SetKv
  <1>4. u.capacity = t.capacity /\ u.size = t.size /\ DOMAIN u = DOMAIN t
        /\ u = [f \in DOMAIN u |-> u[f]]
    BY <1>1
  <1>5. u \in Table /\ Sized(u, g) /\ Rewrites(u, t, i, Substitute(t.data[i], p, x))
    <2>. HIDE DEF x, u, y
    <2>. QED  BY <1>2, <1>3, <1>4, AssignPair
  <1>. QED  BY <1>2, <1>5 DEF Symbol, NewPair, SetKv

----------------------------------------------------------------------------
(* The map that a table makes *)

LEMMA UniquePairs ==
    ASSUME NEW t, UniqueIn(t), NEW x \in Pairs(t), NEW y \in Pairs(t), Symbol(x) = Symbol(y)
    PROVE  x = y
  <1>1. PICK i \in DOMAIN t.data : \E p \in DOMAIN t.data[i] : x = t.data[i][p]
    BY PairSlot
  <1>2. PICK p \in DOMAIN t.data[i] : x = t.data[i][p]
    BY <1>1
  <1>3. PICK j \in DOMAIN t.data : \E q \in DOMAIN t.data[j] : y = t.data[j][q]
    BY PairSlot
  <1>4. PICK q \in DOMAIN t.data[j] : y = t.data[j][q]
    BY <1>3
  <1>. QED  BY <1>2, <1>4 DEF UniqueIn

LEMMA ContentsAre ==
    ASSUME NEW t, UniqueIn(t)
    PROVE  /\ \A s : s \in DOMAIN Contents(t) <=> \E kv \in Pairs(t) : s = Symbol(kv)
           /\ \A kv \in Pairs(t) :
                Contents(t)[Symbol(kv)] = [value |-> kv.value, exported |-> kv.exported]
  <1>1. ASSUME NEW x \in Pairs(t), NEW y \in Pairs(t), Symbol(x) = Symbol(y)
        PROVE  x = y
    BY <1>1, UniquePairs
  <1>. DEFINE D == {<<kv.key, kv.type>> : kv \in Pairs(t)}
              E(s) == CHOOSE x \in Pairs(t) : x.key = s[1] /\ x.type = s[2]
  <1>2. Contents(t) = [s \in D |-> [value |-> E(s).value, exported |-> E(s).exported]]
    BY DEF Contents
  <1>3. ASSUME NEW kv \in Pairs(t) PROVE Symbol(kv) \in D /\ E(Symbol(kv)) = kv
    <2>1. kv.key = Symbol(kv)[1] /\ kv.type = Symbol(kv)[2]
      BY DEF Symbol
    <2>2. \A x \in Pairs(t) : x.key = Symbol(kv)[1] /\ x.type = Symbol(kv)[2] => x = kv
      BY <1>1, <2>1, SymbolKey
    <2>3. E(Symbol(kv)) = kv
      BY <2>1, <2>2
    <2>. QED  BY <2>3 DEF Symbol
  <1>4. \A s : s \in D <=> \E kv \in Pairs(t) : s = Symbol(kv)
    BY DEF Symbol
  <1>. HIDE DEF D, E
  <1>. QED  BY <1>2, <1>3, <1>4

EntryOf(kv) == [value |-> kv.value, exported |-> kv.exported]

\* Giving a symbol a pair of its own puts one entry in the map.
LEMMA ContentsPut ==
    ASSUME NEW t, NEW u, UniqueIn(t), UniqueIn(u), NEW x, NEW Old,
           Pairs(u) = (Pairs(t) \ Old) \cup {x}, \A kv \in Old : Symbol(kv) = Symbol(x)
    PROVE  Contents(u) = Plus(Contents(t), Symbol(x), EntryOf(x))
  <1>. DEFINE F == Plus(Contents(t), Symbol(x), EntryOf(x))
  <1>1. DOMAIN Contents(u) = DOMAIN Contents(t) \cup {Symbol(x)}
    <2>1. \A s : (\E kv \in Pairs(u) : s = Symbol(kv))
                   <=> (\E kv \in Pairs(t) : s = Symbol(kv)) \/ s = Symbol(x)
      OBVIOUS
    <2>2. \A s : s \in DOMAIN Contents(u) <=> s \in DOMAIN Contents(t) \/ s = Symbol(x)
      <3>1. \A s : s \in DOMAIN Contents(u) <=> \E kv \in Pairs(u) : s = Symbol(kv)
        BY ContentsAre
      <3>2. \A s : s \in DOMAIN Contents(t) <=> \E kv \in Pairs(t) : s = Symbol(kv)
        BY ContentsAre
      <3>. QED  BY <2>1, <3>1, <3>2
    <2>. QED  BY <2>2
  <1>2. ASSUME NEW kv \in Pairs(u) PROVE Contents(u)[Symbol(kv)] = F[Symbol(kv)]
    <2>1. Contents(u)[Symbol(kv)] = EntryOf(kv) /\ Symbol(kv) \in DOMAIN Contents(u)
      BY ContentsAre DEF EntryOf
    <2>2. CASE Symbol(kv) = Symbol(x)
      <3>1. Contents(u)[Symbol(x)] = EntryOf(x)
        BY ContentsAre DEF EntryOf
      <3>. QED  BY <2>2, <3>1 DEF Plus
    <2>3. CASE Symbol(kv) # Symbol(x)
      <3>1. kv \in Pairs(t)
        BY <2>3
      <3>2. Contents(t)[Symbol(kv)] = EntryOf(kv) /\ Symbol(kv) \in DOMAIN Contents(t)
        BY <3>1, ContentsAre DEF EntryOf
      <3>. QED  BY <2>1, <2>3, <3>2 DEF Plus
    <2>. QED  BY <2>2, <2>3
  <1>3. \A s \in DOMAIN Contents(u) : Contents(u)[s] = F[s]
    <2>. HIDE DEF F
    <2>1. \A s : s \in DOMAIN Contents(u) <=> \E kv \in Pairs(u) : s = Symbol(kv)
      BY ContentsAre
    <2>. QED  BY <1>2, <2>1
  <1>4. DOMAIN F = DOMAIN Contents(u)
    BY <1>1 DEF Plus
  <1>. QED  BY <1>3, <1>4 DEF Contents, Plus

\* Taking pairs away takes their symbols away.
LEMMA ContentsDrop ==
    ASSUME NEW t, NEW u, UniqueIn(t), UniqueIn(u), NEW y \in Pairs(t),
           Pairs(u) = Pairs(t) \ {y}
    PROVE  Contents(u) = [s \in DOMAIN Contents(t) \ {Symbol(y)} |-> Contents(t)[s]]
  <1>. DEFINE F == [s \in DOMAIN Contents(t) \ {Symbol(y)} |-> Contents(t)[s]]
  <1>1. ASSUME NEW kv \in Pairs(t), kv # y PROVE Symbol(kv) # Symbol(y)
    BY <1>1, UniquePairs
  <1>2. DOMAIN Contents(u) = DOMAIN Contents(t) \ {Symbol(y)}
    <2>1. \A s : s \in DOMAIN Contents(u) <=> \E kv \in Pairs(u) : s = Symbol(kv)
      BY ContentsAre
    <2>2. \A s : s \in DOMAIN Contents(t) <=> \E kv \in Pairs(t) : s = Symbol(kv)
      BY ContentsAre
    <2>3. ASSUME NEW s PROVE s \in DOMAIN Contents(u) <=> s \in DOMAIN Contents(t) /\ s # Symbol(y)
      BY <1>1, <2>1, <2>2
    <2>. QED  BY <2>3
  <1>3. ASSUME NEW kv \in Pairs(u) PROVE Contents(u)[Symbol(kv)] = F[Symbol(kv)]
    <2>1. kv \in Pairs(t) /\ Symbol(kv) # Symbol(y)
      BY <1>1
    <2>2. Contents(u)[Symbol(kv)] = EntryOf(kv)
      BY ContentsAre DEF EntryOf
    <2>3. Contents(t)[Symbol(kv)] = EntryOf(kv) /\ Symbol(kv) \in DOMAIN Contents(t)
      BY <2>1, ContentsAre DEF EntryOf
    <2>. QED  BY <2>1, <2>2, <2>3
  <1>4. \A s \in DOMAIN Contents(u) : Contents(u)[s] = F[s]
    <2>. HIDE DEF F
    <2>1. \A s : s \in DOMAIN Contents(u) <=> \E kv \in Pairs(u) : s = Symbol(kv)
      BY ContentsAre
    <2>. QED  BY <1>3, <2>1
  <1>. QED  BY <1>2, <1>4 DEF Contents

----------------------------------------------------------------------------
(* Steps that change the last table, or no table *)

\* The last table becomes u and the others stay.
Becomes(u) ==
    /\ tables' \in Seq(Table) /\ Len(tables') = Last
    /\ tables'[Last] = u
    /\ \A n \in 1 .. Last - 1 : tables'[n] = tables[n]

LEMMA StackFacts ==
    ASSUME Stack
    PROVE  /\ Last \in Nat \ {0} /\ DOMAIN tables = 1 .. Last
           /\ \A n \in 1 .. Last : tables[n] \in Table
           /\ Tab \in Table
  <1>1. Last \in Nat \ {0} /\ DOMAIN tables = 1 .. Last
    BY EmptySeq, LenProperties DEF Stack, Last
  <1>2. \A n \in 1 .. Last : tables[n] \in Table
    BY ElementOfSeq DEF Stack, Last
  <1>. QED  BY <1>1, <1>2 DEF Tab

LEMMA Assigned ==
    ASSUME Stack, NEW u \in Table, SetTable(u)
    PROVE  Becomes(u)
  <1>1. tables \in Seq(Table) /\ Last \in 1 .. Len(tables)
    BY StackFacts DEF Stack, Last
  <1>2. tables' = [tables EXCEPT ![Last] = u]
    BY DEF SetTable
  <1>. HIDE DEF Last
  <1>3. /\ tables' \in Seq(Table) /\ Len(tables') = Len(tables)
        /\ \A j \in 1 .. Len(tables) : tables'[j] = IF j = Last THEN u ELSE tables[j]
    BY <1>1, <1>2, ExceptSeq
  <1>4. Last \in Nat \ {0} /\ Last = Len(tables)
    BY StackFacts DEF Last
  <1>. QED  BY <1>3, <1>4 DEF Becomes

LEMMA Unassigned ==
    ASSUME Stack, UNCHANGED tables
    PROVE  Becomes(Tab)
  BY DEF Becomes, Stack, Last, Tab

LEMMA StackKept ==
    ASSUME Stack, NEW u, Becomes(u), TableOK(u, grow', Pending')
    PROVE  Stack'
  <1>1. Len(tables') = Len(tables) /\ Len(tables) \in Nat \ {0} /\ Last' = Last
    BY StackFacts DEF Becomes, Last
  <1>2. tables' # <<>>
    BY <1>1
  <1>3. Tab' = u
    BY <1>1 DEF Becomes, Tab
  <1>4. \A n \in 1 .. Last' - 1 : TableOK(tables'[n], Idle, {})
    BY <1>1 DEF Stack, Becomes
  <1>. QED  BY <1>2, <1>3, <1>4 DEF Stack, Becomes

LEMMA ReadyTable ==
    ASSUME Inv, ~adding.active
    PROVE  /\ ~grow.active /\ Pending = {} /\ adding = NoAdd
           /\ TableOK(Tab, Idle, {})
  <1>1. ~grow.active /\ Pending = {} /\ adding = NoAdd
    BY DEF Inv, Calls, Pending, Request
  <1>. QED  BY <1>1, Inactive DEF Inv, Stack

\* A call that takes one step.
LEMMA OneStepCall ==
    ASSUME Inv, Ready, NEW u \in Table, SetTable(u), TableOK(u, Idle, {}),
           UNCHANGED <<adding, grow, clone, purge>>
    PROVE  Inv'
  <1>1. ~adding.active /\ ~clone.active /\ ~purge.active /\ ~grow.active /\ Pending = {}
    BY ReadyTable DEF Ready
  <1>2. Pending' = Pending
    BY DEF Pending
  <1>3. TableOK(u, grow', Pending')
    BY <1>1, <1>2, Inactive
  <1>4. Stack'
    BY <1>3, Assigned, StackKept DEF Inv
  <1>5. Calls'
    BY <1>1 DEF Inv, Calls
  <1>. QED  BY <1>1, <1>4, <1>5 DEF Inv, Purged, Copied

\* A step of symtab_realloc: the pairs of the table are the same.
LEMMA GrowthStep ==
    ASSUME Inv, adding.active, NEW u, Becomes(u), TableOK(u, grow', Pending),
           Pairs(u) = Pairs(Tab), grow' \in Cursor, grow'.pos > 0,
           UNCHANGED <<adding, clone, purge>>
    PROVE  Inv'
  <1>1. Pending' = Pending
    BY DEF Pending
  <1>2. Stack'
    BY <1>1, StackKept DEF Inv
  <1>3. Last' = Last /\ Last \in Nat \ {0} /\ Tab' = u
    BY StackFacts DEF Becomes, Last, Tab, Inv
  <1>4. Pairs(Tab') = Pairs(Tab)
    BY <1>3
  <1>5. Calls'
    BY <1>4 DEF Inv, Calls
  <1>6. Purged'
    BY DEF Inv, Calls, Purged
  <1>7. Copied'
    <2>. SUFFICES ASSUME clone.active PROVE Copied'
      BY DEF Copied
    <2>1. Last > 1
      BY DEF Inv, Copied
    <2>2. Source' = Source
      BY <1>3, <2>1 DEF Source, Becomes
    <2>. QED  BY <1>1, <1>3, <1>4, <2>2 DEF Inv, Copied
  <1>. QED  BY <1>2, <1>5, <1>6, <1>7 DEF Inv

----------------------------------------------------------------------------
(* What a call does to a table and to its map *)

LEMMA MarkedValue ==
    ASSUME NEW t, NEW g, Sized(t, g), NEW i \in DOMAIN t.data, NEW p \in DOMAIN t.data[i]
    PROVE  LET x == [t.data[i][p] EXCEPT !.exported = TRUE]
               u == [t EXCEPT !.data[i][p].exported = TRUE]
           IN /\ x \in Pair /\ Symbol(x) = Symbol(t.data[i][p])
              /\ x.value = t.data[i][p].value /\ x.exported = TRUE
              /\ u \in Table /\ Sized(u, g) /\ Rewrites(u, t, i, Substitute(t.data[i], p, x))
  <1>. DEFINE y == t.data[i][p]
              x == [y EXCEPT !.exported = TRUE]
              u == [t EXCEPT !.data[i][p].exported = TRUE]
  <1>1. y \in Pair /\ t.data[i] \in Seq(Pair) /\ DOMAIN t = {"capacity", "size", "data"}
        /\ "data" \in DOMAIN t
    BY SlotType DEF Sized, Table
  <1>2. x \in Pair /\ x.key = y.key /\ x.type = y.type /\ x.value = y.value /\ x.exported = TRUE
    <2>. HIDE DEF y
    <2>. QED  BY <1>1 DEF Pair
  <1>3. u.data = [t.data EXCEPT ![i] = Substitute(t.data[i], p, x)]
    BY <1>1 DEF Substitute, NewPair, SetKv
  <1>4. u.capacity = t.capacity /\ u.size = t.size /\ DOMAIN u = DOMAIN t
        /\ u = [f \in DOMAIN u |-> u[f]]
    BY <1>1
  <1>5. u \in Table /\ Sized(u, g) /\ Rewrites(u, t, i, Substitute(t.data[i], p, x))
    <2>. HIDE DEF x, u, y
    <2>. QED  BY <1>2, <1>3, <1>4, AssignPair
  <1>. QED  BY <1>2, <1>5 DEF Symbol

\* u is t with x in the place of the pair of a symbol.
Replaces(u, t, key, type, x) ==
    LET i == Bucket(t, key)
        p == Position(t, key, type)
    IN /\ u \in Table /\ Sized(u, Idle)
       /\ Rewrites(u, t, i, Substitute(t.data[i], p, x))

PairOf(t, key, type) == t.data[Bucket(t, key)][Position(t, key, type)]

LEMMA ReplacedPair ==
    ASSUME NEW t, NEW key \in Name, NEW type, NEW S, TableOK(t, Idle, S),
           S \subseteq {<<key, type>>}, Found(t, key, type), Hash \in [Name -> Nat],
           NEW x \in Pair, x.value \in Value, Symbol(x) = <<key, type>>,
           NEW u, Replaces(u, t, key, type, x)
    PROVE  /\ TableOK(u, Idle, {})
           /\ PairOf(t, key, type) \in Pairs(t) /\ Symbol(PairOf(t, key, type)) = <<key, type>>
           /\ Pairs(u) = (Pairs(t) \ {PairOf(t, key, type)}) \cup {x}
           /\ Contents(u) = Plus(Contents(t), <<key, type>>, EntryOf(x))
           /\ <<key, type>> \in DOMAIN Contents(t)
           /\ Contents(t)[<<key, type>>] = EntryOf(PairOf(t, key, type))
  <1>. DEFINE i == Bucket(t, key)
              p == Position(t, key, type)
              y == t.data[i][p]
  <1>1. i \in DOMAIN t.data /\ p \in DOMAIN t.data[i] /\ Symbol(y) = <<key, type>>
    BY Lookup
  <1>2. Sized(u, Idle) /\ Rewrites(u, t, i, Substitute(t.data[i], p, x))
    BY DEF Replaces
  <1>. HIDE DEF i, p
  <1>3. TableOK(u, Idle, {}) /\ Pairs(u) = (Pairs(t) \ {y}) \cup {x}
    <2>. DEFINE S2 == {}
    <2>1. S \subseteq S2 \cup {Symbol(x)}
      OBVIOUS
    <2>. HIDE DEF S2
    <2>2. TableOK(u, Idle, S2) /\ Pairs(u) = (Pairs(t) \ {y}) \cup {x}
      BY <1>1, <1>2, <2>1, ReplacePair
    <2>. QED  BY <2>2 DEF S2
  <1>4. y \in Pairs(t)
    BY <1>1, PairSlot
  <1>. HIDE DEF y
  <1>5. UniqueIn(t) /\ UniqueIn(u)
    BY <1>3 DEF TableOK
  <1>6. Contents(u) = Plus(Contents(t), Symbol(x), EntryOf(x))
    <2>1. \A kv \in {y} : Symbol(kv) = Symbol(x)
      BY <1>1
    <2>. QED  BY <1>3, <1>5, <2>1, ContentsPut
  <1>7. Symbol(y) \in DOMAIN Contents(t) /\ Contents(t)[Symbol(y)] = EntryOf(y)
    BY <1>4, <1>5, ContentsAre DEF EntryOf
  <1>8. y = PairOf(t, key, type)
    BY DEF y, i, p, PairOf
  <1>. QED  BY <1>1, <1>3, <1>4, <1>6, <1>7, <1>8

LEMMA ValueReplaces ==
    ASSUME NEW t, NEW key \in Name, NEW type, NEW S, TableOK(t, Idle, S),
           Found(t, key, type), Hash \in [Name -> Nat], NEW v \in Value, NEW e \in BOOLEAN
    PROVE  LET i == Bucket(t, key)
               p == Position(t, key, type)
               x == NewPair(PairOf(t, key, type), v, e)
           IN /\ Replaces(SetKv(t, i, p, v, e), t, key, type, x)
              /\ x \in Pair /\ x.value = v /\ x.exported = e /\ Symbol(x) = <<key, type>>
  <1>. DEFINE i == Bucket(t, key)
              p == Position(t, key, type)
              x == NewPair(t.data[i][p], v, e)
              u == SetKv(t, i, p, v, e)
  <1>1. i \in DOMAIN t.data /\ p \in DOMAIN t.data[i] /\ Symbol(t.data[i][p]) = <<key, type>>
    BY Lookup
  <1>2. Sized(t, Idle)
    BY DEF TableOK
  <1>. HIDE DEF i, p
  <1>3. /\ x \in Pair /\ Symbol(x) = Symbol(t.data[i][p]) /\ x.value = v /\ x.exported = e
        /\ u \in Table /\ Sized(u, Idle) /\ Rewrites(u, t, i, Substitute(t.data[i], p, x))
    BY <1>1, <1>2, AssignedValue
  <1>. HIDE DEF x, u
  <1>4. Replaces(u, t, key, type, x)
    BY <1>3 DEF Replaces, i, p
  <1>. QED  BY <1>1, <1>3, <1>4 DEF x, u, i, p, PairOf

LEMMA MarkReplaces ==
    ASSUME NEW t, NEW key \in Name, NEW type, TableOK(t, Idle, {}),
           Found(t, key, type), Hash \in [Name -> Nat]
    PROVE  LET i == Bucket(t, key)
               p == Position(t, key, type)
               y == PairOf(t, key, type)
               x == [y EXCEPT !.exported = TRUE]
           IN /\ Replaces([t EXCEPT !.data[i][p].exported = TRUE], t, key, type, x)
              /\ x \in Pair /\ x.value = y.value /\ x.value \in Value
              /\ x.exported = TRUE /\ Symbol(x) = <<key, type>>
  <1>. DEFINE i == Bucket(t, key)
              p == Position(t, key, type)
              x == [t.data[i][p] EXCEPT !.exported = TRUE]
              u == [t EXCEPT !.data[i][p].exported = TRUE]
  <1>1. i \in DOMAIN t.data /\ p \in DOMAIN t.data[i] /\ Symbol(t.data[i][p]) = <<key, type>>
    BY Lookup
  <1>2. Sized(t, Idle) /\ t.data[i][p].value \in Value
    BY <1>1 DEF TableOK, ValuedIn
  <1>. HIDE DEF i, p
  <1>3. /\ x \in Pair /\ Symbol(x) = Symbol(t.data[i][p])
        /\ x.value = t.data[i][p].value /\ x.exported = TRUE
        /\ u \in Table /\ Sized(u, Idle) /\ Rewrites(u, t, i, Substitute(t.data[i], p, x))
    BY <1>1, <1>2, MarkedValue
  <1>. HIDE DEF x, u
  <1>4. Replaces(u, t, key, type, x)
    BY <1>3 DEF Replaces, i, p
  <1>. QED  BY <1>1, <1>2, <1>3, <1>4 DEF x, u, i, p, PairOf

\* symtab_del of a pair.
LEMMA DeletedPair ==
    ASSUME NEW t, TableOK(t, Idle, {}), SizeLimit \in Nat \ {0},
           NEW i \in DOMAIN t.data, NEW p \in DOMAIN t.data[i]
    PROVE  LET u == DeletePair(t, i, p)
               y == t.data[i][p]
           IN /\ u \in Table /\ TableOK(u, Idle, {})
              /\ Contents(u) = [s \in DOMAIN Contents(t) \ {Symbol(y)} |-> Contents(t)[s]]
              /\ \A h : h.bucket = i /\ h.pos = p => Passed(u, h) \subseteq Passed(t, h)
  <1>. DEFINE u == DeletePair(t, i, p)
              y == t.data[i][p]
              c == Remove(t.data[i], p)
              z == CountDown(t.size)
  <1>1. c \in Seq(Pair)
    BY SlotType, RemoveChain DEF TableOK
  <1>2. z \in 0 .. SizeLimit - 1
    <2>1. t.size \in Nat
      BY DEF TableOK, Sized, Table
    <2>. QED  BY <2>1, Counts
  <1>3. u = [t EXCEPT !.data[i] = c, !.size = z]
    BY DEF DeletePair, TableOK, Sized, Table
  <1>. HIDE DEF c, z, u
  <1>4. Sized(u, Idle) /\ Rewrites(u, t, i, c)
    BY <1>1, <1>2, <1>3, RewriteSized DEF TableOK
  <1>5. /\ TableOK(u, Idle, {}) /\ Pairs(u) = Pairs(t) \ {y}
        /\ \A h : h.bucket = i /\ h.pos = p => Passed(u, h) \subseteq Passed(t, h)
    <2>1. Rewrites(u, t, i, Remove(t.data[i], p))
      BY <1>4 DEF c
    <2>. DEFINE S == {}
    <2>2. TableOK(t, Idle, S) /\ Sized(u, Idle)
      BY <1>4
    <2>. HIDE DEF S
    <2>3. TableOK(u, Idle, S)
      BY <2>1, <2>2, DropPair
    <2>4. Pairs(u) = Pairs(t) \ {t.data[i][p]}
      BY <2>1, <2>2, DropPair
    <2>5. \A h : h.bucket = i /\ h.pos = p => Passed(u, h) \subseteq Passed(t, h)
      BY <2>1, <2>2, DropPair
    <2>. QED  BY <2>3, <2>4, <2>5 DEF S
  <1>6. y \in Pairs(t)
    BY PairSlot
  <1>. HIDE DEF y
  <1>7. Contents(u) = [s \in DOMAIN Contents(t) \ {Symbol(y)} |-> Contents(t)[s]]
    BY <1>5, <1>6, ContentsDrop DEF TableOK
  <1>. QED  BY <1>4, <1>5, <1>7 DEF Sized, u, y

Blank(key, type) == [key |-> key, type |-> type, value |-> Unset, exported |-> FALSE]
Widened(t) ==
    [t EXCEPT !.data = [i \in 0 .. 2 * t.capacity - 1 |->
                          IF i < t.capacity THEN t.data[i] ELSE <<>>]]

LEMMA BlankPair ==
    ASSUME NEW key \in Name, NEW type \in Type
    PROVE  /\ Blank(key, type) \in Pair /\ Symbol(Blank(key, type)) = <<key, type>>
           /\ EntryOf(Blank(key, type)) = [value |-> Unset, exported |-> FALSE]
           /\ Blank(key, type).key = key
  BY DEF Blank, Pair, Symbol, EntryOf

\* symtab_add of a symbol that has no pair, before the table may grow.
LEMMA PushedPair ==
    ASSUME NEW t, TableOK(t, Idle, {}), SizeLimit \in Nat \ {0}, Hash \in [Name -> Nat],
           NEW key \in Name, NEW type \in Type, ~Found(t, key, type)
    PROVE  LET u == PushPair(t, Blank(key, type)) IN
           /\ u \in Table /\ TableOK(u, Idle, {<<key, type>>})
           /\ Pairs(u) = Pairs(t) \cup {Blank(key, type)}
  <1>. DEFINE x == Blank(key, type)
              u == PushPair(t, x)
              i == Bucket(t, key)
              c == <<x>> \o t.data[i]
              z == IF t.data[i] = <<>> THEN CountUp(t.size) ELSE t.size
              S == {}
              S2 == {<<key, type>>}
  <1>1. x \in Pair /\ Symbol(x) = <<key, type>> /\ x.key = key
    BY BlankPair
  <1>2. i \in DOMAIN t.data /\ \A kv \in Pairs(t) : Symbol(kv) # <<key, type>>
    BY Lookup
  <1>3. c \in Seq(Pair)
    BY <1>1, <1>2, SlotType, ConsChain DEF TableOK
  <1>4. z \in 0 .. SizeLimit - 1
    <2>1. t.size \in 0 .. SizeLimit - 1 /\ t.size \in Nat
      BY DEF TableOK, Sized, Table
    <2>. QED  BY <2>1, Counts
  <1>5. u = [t EXCEPT !.data[i] = c, !.size = z]
    BY <1>1 DEF PushPair, TableOK, Sized, Table
  <1>6. Hash[x.key] % t.capacity = i
    BY <1>1 DEF Bucket
  <1>. HIDE DEF c, z, u, i, x
  <1>7. Sized(u, Idle) /\ Rewrites(u, t, i, c)
    BY <1>2, <1>3, <1>4, <1>5, RewriteSized DEF TableOK
  <1>8. Rewrites(u, t, i, <<x>> \o t.data[i])
    BY <1>7 DEF c
  <1>9. TableOK(t, Idle, S) /\ S \subseteq S2 /\ Symbol(x) \in S2
    BY <1>1
  <1>10. \A kv \in Pairs(t) : Symbol(kv) # Symbol(x)
    BY <1>1, <1>2
  <1>. HIDE DEF S, S2
  <1>11. TableOK(u, Idle, S2) /\ Pairs(u) = Pairs(t) \cup {x}
    BY <1>1, <1>2, <1>6, <1>7, <1>8, <1>9, <1>10, AddPair
  <1>. QED  BY <1>7, <1>11 DEF Sized, S2, u, x

LEMMA WidenedTable ==
    ASSUME NEW t, NEW S, TableOK(t, Idle, S)
    PROVE  /\ Widened(t) \in Table /\ TableOK(Widened(t), Started, S)
           /\ Pairs(Widened(t)) = Pairs(t)
  <1>. DEFINE d == [i \in 0 .. 2 * t.capacity - 1 |->
                      IF i < t.capacity THEN t.data[i] ELSE <<>>]
              n == 2 * t.capacity
  <1>1. t.capacity \in Nat \ {0} /\ t.data \in [0 .. t.capacity - 1 -> Seq(Pair)]
        /\ t.size \in 0 .. SizeLimit - 1
        /\ t \in [capacity : Nat \ {0}, size : 0 .. SizeLimit - 1, data : Data]
    BY DEF TableOK, Sized, Table, Idle
  <1>2. d \in [0 .. n - 1 -> Seq(Pair)] /\ n \in Nat
    <2>1. <<>> \in Seq(Pair)
      OBVIOUS
    <2>. QED  BY <1>1, <2>1
  <1>3. Widened(t) = [t EXCEPT !.data = d]
    BY DEF Widened
  <1>. HIDE DEF d, n
  <1>4. d \in Data
    BY <1>2 DEF Data
  <1>5. Widened(t) \in Table /\ Widened(t).capacity = t.capacity /\ Widened(t).data = d
    BY <1>1, <1>3, <1>4 DEF Table
  <1>6. Widens(Widened(t), t)
    BY <1>5 DEF Widens, d
  <1>. QED  BY <1>5, <1>6, WidenTable

\* The first step of symtab_add on a new symbol, for a caller or for the clone.
LEMMA LinkStep ==
    ASSUME Inv, ~adding.active, NEW key \in Name, NEW type \in Type,
           NEW v \in Value, NEW export \in BOOLEAN,
           ~Found(Tab, key, type), Link(key, type, v, export)
    PROVE  /\ Stack' /\ Last' = Last
           /\ \A n \in 1 .. Last - 1 : tables'[n] = tables[n]
           /\ TableOK(Tab', grow', {<<key, type>>})
           /\ Pairs(Tab') = Pairs(Tab) \cup {Blank(key, type)}
           /\ grow' \in Cursor /\ grow'.pos > 0
           /\ adding' = [active |-> TRUE, key |-> key, type |-> type, value |-> v,
                         export |-> export]
           /\ adding' \in Request /\ Pending' = {<<key, type>>}
  <1>. DEFINE w == PushPair(Tab, Blank(key, type))
              S == {<<key, type>>}
  <1>1. TableOK(Tab, Idle, {}) /\ ~grow.active /\ grow \in Cursor /\ grow.pos > 0
    BY ReadyTable DEF Inv, Calls
  <1>2. w \in Table /\ TableOK(w, Idle, S) /\ Pairs(w) = Pairs(Tab) \cup {Blank(key, type)}
    BY <1>1, PushedPair, SymtabAssumption
  <1>3. adding' = [active |-> TRUE, key |-> key, type |-> type, value |-> v,
                   export |-> export]
    BY DEF Link
  <1>4. adding' \in Request /\ Pending' = S
    BY <1>3 DEF Request, Pending
  <1>5. IF Overloaded(w) THEN SetTable(Widened(w)) /\ grow' = Started
                         ELSE SetTable(w) /\ grow' = grow
    BY DEF Link, Blank, Widened
  <1>. HIDE DEF w, S
  <1>6. \E u \in Table : /\ SetTable(u) /\ TableOK(u, grow', S)
                         /\ Pairs(u) = Pairs(Tab) \cup {Blank(key, type)}
                         /\ grow' \in Cursor /\ grow'.pos > 0
    <2>1. CASE Overloaded(w)
      <3>1. Started \in Cursor /\ Started.pos > 0
        BY DEF Started, Cursor
      <3>. QED  BY <1>2, <1>5, <2>1, <3>1, WidenedTable
    <2>2. CASE ~Overloaded(w)
      BY <1>1, <1>2, <1>5, <2>2, Inactive
    <2>. QED  BY <2>1, <2>2
  <1>7. PICK u \in Table : /\ SetTable(u) /\ TableOK(u, grow', S)
                           /\ Pairs(u) = Pairs(Tab) \cup {Blank(key, type)}
                           /\ grow' \in Cursor /\ grow'.pos > 0
    BY <1>6
  <1>8. Becomes(u) /\ Stack'
    BY <1>4, <1>7, Assigned, StackKept DEF Inv
  <1>9. Last' = Last /\ Tab' = u /\ \A n \in 1 .. Last - 1 : tables'[n] = tables[n]
    BY <1>8 DEF Becomes, Last, Tab
  <1>. QED  BY <1>3, <1>4, <1>7, <1>8, <1>9 DEF S

----------------------------------------------------------------------------
(* Every step keeps the invariant, and what it does to the map of its table *)

OnlyLast == Last' = Last /\ \A n \in 1 .. Last - 1 : tables'[n] = tables[n]

LEMMA SetTableStep ==
    ASSUME Stack, NEW u \in Table, SetTable(u)
    PROVE  OnlyLast /\ Tab' = u
  BY Assigned DEF Becomes, OnlyLast, Last, Tab

SetOr(t, i, p, v, export) ==
    [t EXCEPT !.data[i][p].value = v, !.data[i][p].exported = @ \/ export]

LEMMA MarkedOr ==
    ASSUME NEW t, NEW i, NEW p, i \in DOMAIN t.data, p \in DOMAIN t.data[i],
           t.data[i][p] \in Pair, t \in Table, NEW v, NEW export \in BOOLEAN
    PROVE  /\ SetOr(t, i, p, v, export) = SetKv(t, i, p, v, t.data[i][p].exported \/ export)
           /\ t.data[i][p].exported \/ export \in BOOLEAN
  <1>. DEFINE w == [t EXCEPT !.data[i][p].value = v]
  <1>1. w.data[i][p].exported = t.data[i][p].exported
    BY DEF Pair, Table
  <1>2. SetOr(t, i, p, v, export)
          = [w EXCEPT !.data[i][p].exported = w.data[i][p].exported \/ export]
    BY DEF SetOr
  <1>3. SetKv(t, i, p, v, t.data[i][p].exported \/ export)
          = [w EXCEPT !.data[i][p].exported = t.data[i][p].exported \/ export]
    BY DEF SetKv
  <1>4. t.data[i][p].exported \/ export \in BOOLEAN
    BY DEF Pair
  <1>. HIDE DEF w
  <1>. QED  BY <1>1, <1>2, <1>3, <1>4

LEMMA UpdateStep ==
    ASSUME Inv, NEW key \in Name, NEW type \in Type, NEW v \in Value,
           NEW export \in BOOLEAN, Update(key, type, v, export)
    PROVE  /\ Inv' /\ OnlyLast
           /\ <<key, type>> \in DOMAIN Contents(Tab)
           /\ Contents(Tab') = Plus(Contents(Tab), <<key, type>>,
                [value |-> v, exported |-> Contents(Tab)[<<key, type>>].exported \/ export])
  <1>. DEFINE i == Bucket(Tab, key)
              p == Position(Tab, key, type)
              y == PairOf(Tab, key, type)
              e == y.exported \/ export
              x == NewPair(y, v, e)
              u == SetKv(Tab, i, p, v, e)
  <1>1. Ready /\ Found(Tab, key, type) /\ UNCHANGED <<adding, grow, clone, purge>>
        /\ SetTable(SetOr(Tab, i, p, v, export))
    BY DEF Update, SetOr
  <1>2. TableOK(Tab, Idle, {}) /\ Tab \in Table /\ Stack
    BY <1>1, ReadyTable, StackFacts DEF Ready, Inv
  <1>3. i \in DOMAIN Tab.data /\ p \in DOMAIN Tab.data[i] /\ y = Tab.data[i][p]
    BY <1>1, <1>2, Lookup, SymtabAssumption DEF PairOf
  <1>4. y \in Pair
    BY <1>2, <1>3, SlotType DEF TableOK
  <1>. HIDE DEF i, p, y
  <1>5. SetTable(u) /\ e \in BOOLEAN
    BY <1>1, <1>2, <1>3, <1>4, MarkedOr
  <1>. HIDE DEF e
  <1>6. Replaces(u, Tab, key, type, x) /\ x \in Pair /\ x.value = v /\ x.exported = e
        /\ Symbol(x) = <<key, type>>
    BY <1>1, <1>2, <1>5, ValueReplaces, SymtabAssumption DEF i, p, y
  <1>. HIDE DEF u, x
  <1>7. /\ TableOK(u, Idle, {})
        /\ Contents(u) = Plus(Contents(Tab), <<key, type>>, EntryOf(x))
        /\ <<key, type>> \in DOMAIN Contents(Tab)
        /\ Contents(Tab)[<<key, type>>] = EntryOf(y)
    <2>. DEFINE S == {}
    <2>1. TableOK(Tab, Idle, S) /\ S \subseteq {<<key, type>>} /\ x.value \in Value
      BY <1>2, <1>6
    <2>. HIDE DEF S
    <2>. QED  BY <1>1, <1>6, <2>1, ReplacedPair, SymtabAssumption DEF y
  <1>8. u \in Table
    BY <1>6 DEF Replaces
  <1>9. EntryOf(x) = [value |-> v, exported |-> Contents(Tab)[<<key, type>>].exported \/ export]
    BY <1>6, <1>7 DEF EntryOf, e
  <1>10. Inv' /\ OnlyLast /\ Tab' = u
    BY <1>1, <1>2, <1>5, <1>7, <1>8, OneStepCall, SetTableStep
  <1>. QED  BY <1>7, <1>9, <1>10

LEMMA ExportStep ==
    ASSUME Inv, NEW key \in Name, ExportOnly(key)
    PROVE  /\ Inv' /\ OnlyLast
           /\ <<key, "word">> \in DOMAIN Contents(Tab)
           /\ Contents(Tab') = Plus(Contents(Tab), <<key, "word">>,
                [value |-> Contents(Tab)[<<key, "word">>].value, exported |-> TRUE])
  <1>. DEFINE i == Bucket(Tab, key)
              p == Position(Tab, key, "word")
              y == PairOf(Tab, key, "word")
              x == [y EXCEPT !.exported = TRUE]
              u == [Tab EXCEPT !.data[i][p].exported = TRUE]
  <1>1. Ready /\ Found(Tab, key, "word") /\ UNCHANGED <<adding, grow, clone, purge>>
        /\ SetTable(u)
    BY DEF ExportOnly
  <1>2. TableOK(Tab, Idle, {}) /\ Tab \in Table /\ Stack
    BY <1>1, ReadyTable, StackFacts DEF Ready, Inv
  <1>3. Replaces(u, Tab, key, "word", x) /\ x \in Pair /\ x.value = y.value
        /\ x.value \in Value /\ x.exported = TRUE /\ Symbol(x) = <<key, "word">>
    BY <1>1, <1>2, MarkReplaces, SymtabAssumption
  <1>. HIDE DEF u, x, i, p, y
  <1>4. /\ TableOK(u, Idle, {})
        /\ Contents(u) = Plus(Contents(Tab), <<key, "word">>, EntryOf(x))
        /\ <<key, "word">> \in DOMAIN Contents(Tab)
        /\ Contents(Tab)[<<key, "word">>] = EntryOf(y)
    <2>. DEFINE S == {}
    <2>1. TableOK(Tab, Idle, S) /\ S \subseteq {<<key, "word">>}
      BY <1>2
    <2>. HIDE DEF S
    <2>. QED  BY <1>1, <1>3, <2>1, ReplacedPair, SymtabAssumption DEF y
  <1>5. u \in Table
    BY <1>3 DEF Replaces
  <1>6. EntryOf(x) = [value |-> Contents(Tab)[<<key, "word">>].value, exported |-> TRUE]
    <2>1. EntryOf(y).value = y.value
      BY DEF EntryOf
    <2>2. EntryOf(x) = [value |-> y.value, exported |-> TRUE]
      BY <1>3, Zenon DEF EntryOf
    <2>. QED  BY <1>4, <2>1, <2>2
  <1>7. Inv' /\ OnlyLast /\ Tab' = u
    BY <1>1, <1>2, <1>4, <1>5, OneStepCall, SetTableStep
  <1>. QED  BY <1>4, <1>6, <1>7

LEMMA DeleteStep ==
    ASSUME Inv, NEW key \in Name, NEW type \in Type, Delete(key, type)
    PROVE  /\ Inv' /\ OnlyLast
           /\ Contents(Tab') = [s \in DOMAIN Contents(Tab) \ {<<key, type>>} |-> Contents(Tab)[s]]
  <1>. DEFINE i == Bucket(Tab, key)
              p == Position(Tab, key, type)
              u == DeletePair(Tab, i, p)
  <1>1. Ready /\ Found(Tab, key, type) /\ UNCHANGED <<adding, grow, clone, purge>>
        /\ SetTable(u)
    BY DEF Delete
  <1>2. TableOK(Tab, Idle, {}) /\ Stack
    BY <1>1, ReadyTable DEF Ready, Inv
  <1>3. i \in DOMAIN Tab.data /\ p \in DOMAIN Tab.data[i]
        /\ Symbol(Tab.data[i][p]) = <<key, type>>
    BY <1>1, <1>2, Lookup, SymtabAssumption
  <1>. HIDE DEF i, p
  <1>4. /\ u \in Table /\ TableOK(u, Idle, {})
        /\ Contents(u) = [s \in DOMAIN Contents(Tab) \ {Symbol(Tab.data[i][p])} |-> Contents(Tab)[s]]
    BY <1>2, <1>3, DeletedPair, SymtabAssumption
  <1>. HIDE DEF u
  <1>5. Inv' /\ OnlyLast /\ Tab' = u
    BY <1>1, <1>2, <1>4, OneStepCall, SetTableStep
  <1>. QED  BY <1>3, <1>4, <1>5

\* A pair with a symbol that the table had not.
LEMMA ContentsAdd ==
    ASSUME NEW t, NEW u, UniqueIn(t), UniqueIn(u), NEW key \in Name, NEW type \in Type,
           Pairs(u) = Pairs(t) \cup {Blank(key, type)}
    PROVE  Contents(u) = Plus(Contents(t), <<key, type>>, [value |-> Unset, exported |-> FALSE])
  <1>. DEFINE x == Blank(key, type)
              Old == {}
  <1>1. Pairs(u) = (Pairs(t) \ Old) \cup {x} /\ \A kv \in Old : Symbol(kv) = Symbol(x)
    OBVIOUS
  <1>. HIDE DEF x, Old
  <1>2. Contents(u) = Plus(Contents(t), Symbol(x), EntryOf(x))
    BY <1>1, ContentsPut
  <1>. QED  BY <1>2, BlankPair DEF x

LEMMA InsertStep ==
    ASSUME Inv, NEW key \in Name, NEW type \in Type, NEW v \in Value,
           NEW export \in BOOLEAN, Insert(key, type, v, export)
    PROVE  /\ Inv' /\ OnlyLast
           /\ <<key, type>> \notin DOMAIN Contents(Tab)
           /\ Contents(Tab') = Plus(Contents(Tab), <<key, type>>,
                                    [value |-> Unset, exported |-> FALSE])
           /\ adding' = [active |-> TRUE, key |-> key, type |-> type, value |-> v,
                         export |-> export]
  <1>1. /\ Ready /\ ~Found(Tab, key, type) /\ UNCHANGED <<clone, purge>>
        /\ Link(key, type, v, export)
    BY DEF Insert
  <1>2. ~adding.active /\ ~clone.active /\ ~purge.active /\ ~clone'.active /\ ~purge'.active
    BY <1>1 DEF Ready
  <1>3. /\ Stack' /\ Last' = Last
        /\ \A n \in 1 .. Last - 1 : tables'[n] = tables[n]
        /\ TableOK(Tab', grow', {<<key, type>>})
        /\ Pairs(Tab') = Pairs(Tab) \cup {Blank(key, type)}
        /\ grow' \in Cursor /\ grow'.pos > 0
        /\ adding' = [active |-> TRUE, key |-> key, type |-> type, value |-> v,
                      export |-> export]
        /\ adding' \in Request /\ Pending' = {<<key, type>>}
    BY <1>1, <1>2, LinkStep
  <1>4. Calls'
    <2>1. adding'.active /\ adding'.key = key /\ adding'.type = type
      BY <1>3
    <2>2. Blank(key, type) \in Pairs(Tab') /\ Symbol(Blank(key, type)) = <<key, type>>
      BY <1>3, BlankPair
    <2>3. \E kv \in Pairs(Tab') : Symbol(kv) = <<adding'.key, adding'.type>>
      BY <2>1, <2>2
    <2>4. {clone', purge'} \subseteq Cursor /\ clone'.pos > 0 /\ purge'.pos > 0
      BY <1>1 DEF Inv, Calls
    <2>. QED  BY <1>2, <1>3, <2>1, <2>3, <2>4 DEF Calls
  <1>5. Inv'
    BY <1>2, <1>3, <1>4 DEF Inv, Purged, Copied
  <1>6. TableOK(Tab, Idle, {})
    BY <1>2, ReadyTable
  <1>7. <<key, type>> \notin DOMAIN Contents(Tab)
    <2>1. \A kv \in Pairs(Tab) : Symbol(kv) # <<key, type>>
      BY <1>1, <1>6, Lookup, SymtabAssumption
    <2>2. \A s : s \in DOMAIN Contents(Tab) <=> \E kv \in Pairs(Tab) : s = Symbol(kv)
      BY <1>6, ContentsAre DEF TableOK
    <2>. QED  BY <2>1, <2>2
  <1>8. Contents(Tab') = Plus(Contents(Tab), <<key, type>>, [value |-> Unset, exported |-> FALSE])
    BY <1>3, <1>6, ContentsAdd DEF TableOK
  <1>. QED  BY <1>3, <1>5, <1>7, <1>8 DEF OnlyLast

\* While a table is cloned, the original and its table stay as they are.
LEMMA CopyFacts ==
    ASSUME Inv, clone.active
    PROVE  /\ Last > 1 /\ Last - 1 \in 1 .. Last - 1 /\ TableOK(Source, Idle, {})
           /\ ~purge.active /\ clone \in Cursor
  <1>1. Last > 1 /\ Last \in Nat
    BY StackFacts DEF Inv, Copied
  <1>. QED  BY <1>1 DEF Inv, Stack, Calls, Source

LEMMA SetValueStep ==
    ASSUME Inv, SetValue
    PROVE  /\ Inv' /\ OnlyLast
           /\ Contents(Tab') = Plus(Contents(Tab), <<adding.key, adding.type>>,
                                [value |-> adding.value, exported |-> adding.export])
  <1>. DEFINE key == adding.key
              type == adding.type
              i == Bucket(Tab, key)
              p == Position(Tab, key, type)
              y == PairOf(Tab, key, type)
              x == NewPair(y, adding.value, adding.export)
              u == SetKv(Tab, i, p, adding.value, adding.export)
  <1>1. /\ adding.active /\ ~grow.active /\ adding' = NoAdd /\ UNCHANGED <<grow, purge>>
        /\ SetTable(u)
        /\ clone' = IF clone.active THEN Advanced(clone) ELSE clone
    BY DEF SetValue, SetKv, Advanced
  <1>2. adding \in Request /\ key \in Name /\ adding.value \in Value /\ adding.export \in BOOLEAN
    <2>1. adding # NoAdd
      BY <1>1 DEF NoAdd
    <2>2. adding \in Request
      BY <2>1 DEF Inv, Calls
    <2>. QED  BY <2>2 DEF Request
  <1>3. Pending = {<<key, type>>} /\ Pending' = {} /\ ~adding'.active
    BY <1>1 DEF Pending, NoAdd
  <1>4. Stack /\ TableOK(Tab, Idle, Pending)
    BY <1>1, Inactive DEF Inv, Stack
  <1>5. Found(Tab, key, type)
    <2>1. \E kv \in Pairs(Tab) : Symbol(kv) = <<key, type>>
      BY <1>1 DEF Inv, Calls
    <2>. QED  BY <1>2, <1>4, <2>1, Lookup, SymtabAssumption
  <1>6. Replaces(u, Tab, key, type, x) /\ x \in Pair /\ x.value = adding.value
        /\ x.exported = adding.export /\ Symbol(x) = <<key, type>>
    BY <1>2, <1>4, <1>5, ValueReplaces, SymtabAssumption
  <1>. HIDE DEF u, x, i, p
  <1>7. /\ TableOK(u, Idle, {})
        /\ y \in Pairs(Tab) /\ Symbol(y) = <<key, type>>
        /\ Pairs(u) = (Pairs(Tab) \ {y}) \cup {x}
        /\ Contents(u) = Plus(Contents(Tab), <<key, type>>, EntryOf(x))
    <2>1. Pending \subseteq {<<key, type>>} /\ x.value \in Value
      BY <1>2, <1>3, <1>6
    <2>. QED  BY <1>2, <1>4, <1>5, <1>6, <2>1, ReplacedPair, SymtabAssumption
  <1>. HIDE DEF y
  <1>8. u \in Table
    BY <1>6 DEF Replaces
  <1>9. OnlyLast /\ Tab' = u /\ Becomes(u)
    BY <1>1, <1>4, <1>8, SetTableStep, Assigned
  <1>10. Stack'
    <2>1. TableOK(u, grow', Pending')
      BY <1>1, <1>3, <1>7, Inactive
    <2>. QED  BY <1>4, <1>9, <2>1, StackKept
  <1>11. clone' \in Cursor /\ clone'.pos > 0 /\ clone'.active = clone.active
    BY <1>1 DEF Inv, Calls, Cursor, Advanced
  <1>12. Calls'
    <2>1. adding' = NoAdd /\ ~adding'.active /\ ~grow'.active /\ ~purge'.active
      BY <1>1, <1>3 DEF Inv, Calls
    <2>. QED  BY <1>1, <1>11, <2>1 DEF Inv, Calls
  <1>13. Purged'
    BY <1>1 DEF Inv, Calls, Purged
  <1>14. Copied'
    <2>. SUFFICES ASSUME clone.active PROVE Copied'
      BY <1>11 DEF Copied
    <2>1. Last > 1 /\ Last - 1 \in 1 .. Last - 1 /\ TableOK(Source, Idle, {})
          /\ clone \in Cursor
      BY CopyFacts
    <2>2. Source' = Source /\ Last' = Last
      BY <1>9, <2>1 DEF OnlyLast, Source
    <2>. DEFINE kv0 == Source.data[clone.bucket][clone.pos]
    <2>3. /\ clone.bucket \in DOMAIN Source.data /\ clone.pos \in DOMAIN Source.data[clone.bucket]
          /\ kv0 = [key |-> key, type |-> type, value |-> adding.value,
                    exported |-> adding.export]
      BY <1>1 DEF Inv, Copied
    <2>4. x = kv0
      <3>1. x = [key |-> x.key, type |-> x.type, value |-> x.value, exported |-> x.exported]
        BY <1>6 DEF Pair
      <3>2. x.key = key /\ x.type = type
        BY <1>6 DEF Symbol
      <3>. QED  BY <1>6, <2>3, <3>1, <3>2
    <2>5. Passed(Source, clone') = Passed(Source, clone) \cup {x}
      <3>1. clone' = Advanced(clone)
        BY <1>1
      <3>. QED  BY <2>1, <2>3, <2>4, <3>1, PassedAdvanced DEF TableOK
    <2>6. \A kv \in Passed(Source, clone) : Symbol(kv) # Symbol(x)
      <3>. HIDE DEF kv0
      <3>1. Sized(Source, Idle) /\ UniqueIn(Source)
        BY <2>1 DEF TableOK
      <3>2. x = Source.data[clone.bucket][clone.pos]
        BY <2>4 DEF kv0
      <3>. QED  BY <2>1, <2>3, <3>1, <3>2, NotPassed
    <2>7. Passed(Source, clone) \subseteq Pairs(Tab)
          /\ \A kv \in Pairs(Tab) : Symbol(kv) \in Pending \/ kv \in Passed(Source, clone)
      BY DEF Inv, Copied
    <2>8. \A kv \in Pairs(Tab) : Symbol(kv) = Symbol(y) => kv = y
      <3>1. UniqueIn(Tab)
        BY <1>4 DEF TableOK
      <3>. QED  BY <1>7, <3>1, UniquePairs
    <2>9. Passed(Source, clone') \subseteq Pairs(u)
      BY <1>6, <1>7, <2>5, <2>6, <2>7
    <2>10. \A kv \in Pairs(u) : kv \in Passed(Source, clone')
      BY <1>3, <1>6, <1>7, <2>5, <2>7, <2>8
    <2>. QED  BY <1>3, <1>9, <2>1, <2>2, <2>9, <2>10 DEF Copied
  <1>15. EntryOf(x) = [value |-> adding.value, exported |-> adding.export]
    BY <1>6 DEF EntryOf
  <1>. QED  BY <1>7, <1>9, <1>10, <1>12, <1>13, <1>14, <1>15 DEF Inv

----------------------------------------------------------------------------
(* The steps of symtab_realloc *)

LEMMA GrowStep ==
    ASSUME Inv, grow.active, NEW u, Becomes(u), TableOK(u, grow', Pending),
           Pairs(u) = Pairs(Tab), grow' \in Cursor, grow'.pos > 0,
           UNCHANGED <<adding, clone, purge>>
    PROVE  Inv' /\ OnlyLast /\ Contents(Tab') = Contents(Tab)
  <1>1. adding.active
    BY DEF Inv, Calls
  <1>2. Inv'
    BY <1>1, GrowthStep
  <1>3. OnlyLast /\ Tab' = u
    BY DEF Becomes, OnlyLast, Last, Tab
  <1>4. \A t, w : Pairs(t) = Pairs(w) => Contents(t) = Contents(w)
    BY DEF Contents
  <1>. QED  BY <1>2, <1>3, <1>4

\* The slot at the cursor.
LEMMA GrowSlot ==
    ASSUME Inv, grow.active, grow.bucket < Tab.capacity
    PROVE  /\ TableOK(Tab, grow, Pending) /\ grow \in Cursor /\ grow.pos \in Nat /\ Stack
           /\ Tab.capacity \in Nat \ {0}
           /\ DOMAIN Tab.data = 0 .. 2 * Tab.capacity - 1
           /\ grow.bucket \in DOMAIN Tab.data
           /\ grow.pos <= Len(Visited) => grow.pos \in DOMAIN Visited
  <1>1. /\ TableOK(Tab, grow, Pending) /\ grow \in Cursor /\ Stack
        /\ grow.pos \in Nat /\ grow.pos > 0 /\ grow.bucket \in Nat
    BY DEF Inv, Calls, Stack, Cursor
  <1>2. Tab.capacity \in Nat \ {0} /\ DOMAIN Tab.data = 0 .. 2 * Tab.capacity - 1
    BY <1>1 DEF TableOK, Sized, Table
  <1>3. grow.bucket \in DOMAIN Tab.data
    BY <1>1, <1>2
  <1>4. Len(Visited) \in Nat /\ DOMAIN Visited = 1 .. Len(Visited)
    BY <1>1, <1>3, SlotType DEF TableOK, Visited
  <1>. QED  BY <1>1, <1>2, <1>3, <1>4

LEMMA GrowKeepStep ==
    ASSUME Inv, GrowKeep
    PROVE  Inv' /\ OnlyLast /\ Contents(Tab') = Contents(Tab)
  <1>1. /\ grow.active /\ grow.bucket < Tab.capacity /\ grow.pos <= Len(Visited)
        /\ MovesTo(Visited[grow.pos], Tab, grow.bucket)
        /\ grow' = Advanced(grow) /\ UNCHANGED <<tables, adding, clone, purge>>
    BY DEF GrowKeep, NewBucket, MovesTo, Advanced
  <1>2. /\ TableOK(Tab, grow, Pending) /\ grow \in Cursor /\ Stack
        /\ grow.bucket \in DOMAIN Tab.data /\ grow.pos \in DOMAIN Tab.data[grow.bucket]
    BY <1>1, GrowSlot DEF Visited
  <1>3. TableOK(Tab, grow', Pending)
    BY <1>1, <1>2, CursorAdvances DEF Visited
  <1>4. grow' \in Cursor /\ grow'.pos > 0
    BY <1>1, <1>2, CursorMoves
  <1>. QED  BY <1>1, <1>2, <1>3, <1>4, Unassigned, GrowStep

LEMMA GrowNextStep ==
    ASSUME Inv, GrowNext
    PROVE  Inv' /\ OnlyLast /\ Contents(Tab') = Contents(Tab)
  <1>1. /\ grow.active /\ grow.bucket < Tab.capacity /\ grow.pos > Len(Visited)
        /\ grow' = NextBucket(grow) /\ UNCHANGED <<tables, adding, clone, purge>>
    BY DEF GrowNext, NextBucket
  <1>2. /\ TableOK(Tab, grow, Pending) /\ grow \in Cursor /\ Stack
        /\ grow.bucket \in DOMAIN Tab.data
    BY <1>1, GrowSlot
  <1>3. TableOK(Tab, grow', Pending)
    BY <1>1, <1>2, CursorToNextBucket DEF Visited
  <1>4. grow' \in Cursor /\ grow'.pos > 0
    BY <1>1, <1>2, CursorMoves
  <1>. QED  BY <1>1, <1>2, <1>3, <1>4, Unassigned, GrowStep

LEMMA GrowEndStep ==
    ASSUME Inv, GrowEnd
    PROVE  Inv' /\ OnlyLast /\ Contents(Tab') = Contents(Tab)
  <1>. DEFINE u == [Tab EXCEPT !.capacity = 2 * @]
  <1>1. /\ grow.active /\ grow.bucket = Tab.capacity /\ SetTable(u)
        /\ grow' = Idle /\ UNCHANGED <<adding, clone, purge>>
    BY DEF GrowEnd
  <1>2. TableOK(Tab, grow, Pending) /\ grow \in Cursor /\ Stack
    BY DEF Inv, Calls, Stack
  <1>3. TableOK(u, Idle, Pending) /\ Pairs(u) = Pairs(Tab)
    BY <1>1, <1>2, CursorEnds
  <1>. HIDE DEF u
  <1>4. Becomes(u)
    BY <1>1, <1>2, <1>3, Assigned DEF TableOK, Sized
  <1>5. Idle \in Cursor /\ Idle.pos > 0
    BY DEF Idle, Cursor
  <1>. QED  BY <1>1, <1>3, <1>4, <1>5, GrowStep

LEMMA GrowMoveStep ==
    ASSUME Inv, GrowMove
    PROVE  Inv' /\ OnlyLast /\ Contents(Tab') = Contents(Tab)
  <1>. DEFINE t == Tab
              i == grow.bucket
              p == grow.pos
              kv == t.data[i][p]
              j == NewBucket(kv)
              c == Remove(t.data[i], p)
              d == <<kv>> \o t.data[j]
              z == IF c = <<>> /\ t.data[j] # <<>> THEN CountDown(t.size) ELSE t.size
              u == [t EXCEPT !.data[i] = c, !.data[j] = <<kv>> \o @,
                             !.size = IF c = <<>> /\ t.data[j] # <<>> THEN CountDown(@) ELSE @]
  <1>1. /\ grow.active /\ i < t.capacity /\ p <= Len(Visited) /\ i # j
        /\ SetTable(u) /\ UNCHANGED <<adding, grow, clone, purge>>
    BY DEF GrowMove, Visited
  <1>2. /\ TableOK(t, grow, Pending) /\ grow \in Cursor /\ Stack /\ p \in Nat
        /\ t.capacity \in Nat \ {0} /\ DOMAIN t.data = 0 .. 2 * t.capacity - 1
        /\ i \in DOMAIN t.data /\ p \in DOMAIN t.data[i] /\ grow.pos > 0
    BY <1>1, GrowSlot DEF Visited, Inv, Calls
  <1>3. t.data[i] \in Seq(Pair) /\ kv \in Pair
    BY <1>2, SlotType DEF TableOK
  <1>4. j \in DOMAIN t.data /\ MovesTo(kv, t, j)
    <2>. HIDE DEF kv, c, d, z, u
    <2>3. kv.key \in Name
      BY <1>3 DEF Pair
    <2>1. Hash[kv.key] \in Nat /\ 2 * t.capacity \in Nat \ {0}
      BY <1>2, <2>3, SymtabAssumption
    <2>2. Hash[kv.key] % (2 * t.capacity) \in 0 .. 2 * t.capacity - 1
      BY <2>1, DivMod
    <2>4. j = Hash[kv.key] % (2 * t.capacity)
      BY DEF NewBucket
    <2>. HIDE DEF j
    <2>. QED  BY <1>2, <2>2, <2>4 DEF MovesTo
  <1>5. c \in Seq(Pair) /\ d \in Seq(Pair)
    <2>1. t.data[j] \in Seq(Pair)
      BY <1>2, <1>4, SlotType DEF TableOK
    <2>. QED  BY <1>2, <1>3, <2>1, RemoveChain, ConsChain
  <1>6. z \in 0 .. SizeLimit - 1
    <2>1. t.size \in 0 .. SizeLimit - 1 /\ t.size \in Nat
      BY <1>2, SymtabAssumption DEF TableOK, Sized, Table
    <2>. QED  BY <2>1, Counts, SymtabAssumption
  <1>7. t \in [capacity : Nat \ {0}, size : 0 .. SizeLimit - 1, data : Data]
        /\ t.data \in [0 .. 2 * t.capacity - 1 -> Seq(Pair)]
    BY <1>1, <1>2 DEF TableOK, Sized, Table
  <1>. DEFINE e == [t.data EXCEPT ![i] = c, ![j] = d]
  <1>8. u = [t EXCEPT !.data = e, !.size = z]
    <2>. HIDE DEF t, i, j, c
    <2>. QED  BY <1>1, <1>4, <1>7
  <1>. HIDE DEF u, z, c, d, kv, j
  <1>9. e \in [0 .. 2 * t.capacity - 1 -> Seq(Pair)] /\ 2 * t.capacity \in Nat
    <2>1. e \in [0 .. 2 * t.capacity - 1 -> Seq(Pair)]
      BY <1>5, <1>7
    <2>. HIDE DEF e, t
    <2>2. 2 * t.capacity \in Nat
      BY <1>2
    <2>. QED  BY <2>1, <2>2
  <1>. HIDE DEF e
  <1>10. e \in Data
    BY <1>9 DEF Data
  <1>11. u \in Table /\ u.capacity = t.capacity /\ u.data = e
    <2>. HIDE DEF t
    <2>. QED  BY <1>6, <1>7, <1>8, <1>10 DEF Table
  <1>12. Moves(u, t, i, p, j)
    BY <1>11 DEF Moves, e, c, d, kv
  <1>13. TableOK(u, grow, Pending) /\ Pairs(u) = Pairs(t)
    <2>1. MovesTo(t.data[i][p], t, j)
      BY <1>4 DEF kv
    <2>2. Hash \in [Name -> Nat]
      BY SymtabAssumption
    <2>. HIDE DEF t, i, p
    <2>3. OnPair(t, grow, i, p, j)
      BY <1>1, <1>2, <2>1 DEF OnPair, i, p
    <2>4. TableOK(t, grow, Pending)
      BY <1>2
    <2>5. u \in Table /\ u.capacity = t.capacity
      BY <1>11
    <2>. QED  BY <1>12, <2>2, <2>3, <2>4, <2>5, MovePair
  <1>14. Becomes(u)
    BY <1>1, <1>2, <1>11, Assigned
  <1>. QED  BY <1>1, <1>2, <1>13, <1>14, GrowStep

----------------------------------------------------------------------------
(* The steps of unalias -a *)

LEMMA SameStack ==
    ASSUME Inv, UNCHANGED <<tables, adding, grow>>
    PROVE  Stack' /\ Pending' = Pending /\ Last' = Last /\ Tab' = Tab /\ OnlyLast
  BY DEF Inv, Stack, Last, Tab, Pending, OnlyLast

LEMMA PurgeFacts ==
    ASSUME Inv, purge.active
    PROVE  /\ ~adding.active /\ ~clone.active /\ ~grow.active
           /\ TableOK(Tab, Idle, {}) /\ Stack /\ Calls
           /\ purge \in Cursor /\ purge.pos > 0 /\ purge.pos \in Nat
           /\ \A kv \in Passed(Tab, purge) : kv.type # "alias"
  <1>1. ~adding.active /\ ~clone.active /\ Stack /\ Calls
        /\ purge \in Cursor /\ purge.pos > 0 /\ purge.pos \in Nat
    BY DEF Inv, Calls, Cursor
  <1>. QED  BY <1>1, ReadyTable DEF Inv, Purged

LEMMA PurgeSlot ==
    ASSUME Inv, Purging
    PROVE  /\ purge.bucket \in DOMAIN Tab.data
           /\ purge.pos <= Len(Tab.data[purge.bucket]) => purge.pos \in DOMAIN Tab.data[purge.bucket]
  <1>1. purge.active /\ purge.bucket \in 0 .. Tab.capacity - 1
    BY DEF Purging, Buckets
  <1>2. TableOK(Tab, Idle, {}) /\ purge.pos > 0 /\ purge.pos \in Nat
    BY <1>1, PurgeFacts
  <1>3. purge.bucket \in DOMAIN Tab.data
    BY <1>1, <1>2 DEF TableOK, Sized, Table, Idle
  <1>4. Len(Tab.data[purge.bucket]) \in Nat
        /\ DOMAIN Tab.data[purge.bucket] = 1 .. Len(Tab.data[purge.bucket])
    BY <1>2, <1>3, SlotType DEF TableOK
  <1>. QED  BY <1>2, <1>3, <1>4

\* A step that only moves the cursor of unalias -a.
LEMMA PurgeCursorStep ==
    ASSUME Inv, ~adding.active, ~clone.active, UNCHANGED <<tables, adding, grow, clone>>,
           purge' \in Cursor, purge'.pos > 0,
           purge'.active => \A kv \in Passed(Tab, purge') : kv.type # "alias"
    PROVE  Inv'
  <1>1. Stack' /\ Tab' = Tab
    BY SameStack
  <1>2. Calls'
    BY <1>1 DEF Inv, Calls
  <1>. QED  BY <1>1, <1>2 DEF Inv, Purged, Copied

LEMMA PurgeStartStep ==
    ASSUME Inv, PurgeStart
    PROVE  Inv'
  <1>1. ~adding.active /\ ~clone.active /\ purge' = Started
        /\ UNCHANGED <<tables, adding, grow, clone>>
    BY DEF PurgeStart, Ready
  <1>2. Passed(Tab, Started) = {}
    BY <1>1, ReadyTable, PassedStarted DEF TableOK
  <1>3. Started \in Cursor /\ Started.pos > 0
    BY DEF Started, Cursor
  <1>. QED  BY <1>1, <1>2, <1>3, PurgeCursorStep

LEMMA PurgeDeleteStep ==
    ASSUME Inv, PurgeDelete
    PROVE  /\ Inv' /\ OnlyLast
           /\ \E s : /\ s[2] = "alias"
                     /\ Contents(Tab') = [x \in DOMAIN Contents(Tab) \ {s} |-> Contents(Tab)[x]]
  <1>. DEFINE i == purge.bucket
              p == purge.pos
              y == Tab.data[i][p]
              u == DeletePair(Tab, i, p)
  <1>1. /\ Purging /\ purge.active /\ p <= Len(Tab.data[i]) /\ y.type = "alias" /\ SetTable(u)
        /\ UNCHANGED <<adding, grow, clone, purge>>
    BY DEF PurgeDelete, Purging
  <1>2. /\ ~adding.active /\ ~clone.active /\ ~grow.active /\ TableOK(Tab, Idle, {})
        /\ Stack /\ Calls /\ \A kv \in Passed(Tab, purge) : kv.type # "alias"
    BY <1>1, PurgeFacts
  <1>3. i \in DOMAIN Tab.data /\ p \in DOMAIN Tab.data[i]
    BY <1>1, PurgeSlot
  <1>4. /\ u \in Table /\ TableOK(u, Idle, {})
        /\ Contents(u) = [s \in DOMAIN Contents(Tab) \ {Symbol(y)} |-> Contents(Tab)[s]]
        /\ Passed(u, purge) \subseteq Passed(Tab, purge)
    BY <1>2, <1>3, DeletedPair, SymtabAssumption
  <1>. HIDE DEF u, y
  <1>5. OnlyLast /\ Tab' = u /\ Becomes(u)
    BY <1>1, <1>2, <1>4, SetTableStep, Assigned
  <1>6. Pending' = {}
    BY <1>1, <1>2 DEF Pending
  <1>7. Stack'
    <2>1. TableOK(u, grow', Pending')
      BY <1>1, <1>2, <1>4, <1>6, Inactive
    <2>. QED  BY <1>2, <1>5, <2>1, StackKept
  <1>8. Calls' /\ Purged' /\ Copied'
    BY <1>1, <1>2, <1>4, <1>5 DEF Calls, Purged, Copied
  <1>9. Symbol(y)[2] = "alias"
    BY <1>1 DEF Symbol
  <1>. QED  BY <1>4, <1>5, <1>7, <1>8, <1>9 DEF Inv

LEMMA PurgeKeepStep ==
    ASSUME Inv, PurgeKeep
    PROVE  Inv'
  <1>1. /\ Purging /\ purge.active /\ purge.pos <= Len(Tab.data[purge.bucket])
        /\ Tab.data[purge.bucket][purge.pos].type # "alias"
        /\ purge' = Advanced(purge) /\ UNCHANGED <<tables, adding, grow, clone>>
    BY DEF PurgeKeep, Purging, Advanced
  <1>2. /\ ~adding.active /\ ~clone.active /\ TableOK(Tab, Idle, {}) /\ purge \in Cursor
        /\ \A kv \in Passed(Tab, purge) : kv.type # "alias"
    BY <1>1, PurgeFacts
  <1>3. purge.bucket \in DOMAIN Tab.data /\ purge.pos \in DOMAIN Tab.data[purge.bucket]
    BY <1>1, PurgeSlot
  <1>4. Passed(Tab, purge') = Passed(Tab, purge) \cup {Tab.data[purge.bucket][purge.pos]}
    BY <1>1, <1>2, <1>3, PassedAdvanced DEF TableOK
  <1>. QED  BY <1>1, <1>2, <1>4, CursorMoves, PurgeCursorStep

LEMMA PurgeNextStep ==
    ASSUME Inv, PurgeNext
    PROVE  Inv'
  <1>1. /\ Purging /\ purge.active /\ purge.pos > Len(Tab.data[purge.bucket])
        /\ purge' = NextBucket(purge) /\ UNCHANGED <<tables, adding, grow, clone>>
    BY DEF PurgeNext, Purging, NextBucket
  <1>2. /\ ~adding.active /\ ~clone.active /\ TableOK(Tab, Idle, {}) /\ purge \in Cursor
        /\ \A kv \in Passed(Tab, purge) : kv.type # "alias"
    BY <1>1, PurgeFacts
  <1>3. purge.bucket \in DOMAIN Tab.data
    BY <1>1, PurgeSlot
  <1>4. Passed(Tab, purge') = Passed(Tab, purge)
    BY <1>1, <1>2, <1>3, PassedNextBucket DEF TableOK
  <1>. QED  BY <1>1, <1>2, <1>4, CursorMoves, PurgeCursorStep

LEMMA PurgeEndStep ==
    ASSUME Inv, PurgeEnd
    PROVE  Inv' /\ \A s \in DOMAIN Contents(Tab) : s[2] # "alias"
  <1>1. /\ purge.active /\ purge.bucket = Tab.capacity /\ purge' = Idle
        /\ UNCHANGED <<tables, adding, grow, clone>>
    BY DEF PurgeEnd
  <1>2. /\ ~adding.active /\ ~clone.active /\ TableOK(Tab, Idle, {})
        /\ \A kv \in Passed(Tab, purge) : kv.type # "alias"
    BY <1>1, PurgeFacts
  <1>3. Idle \in Cursor /\ Idle.pos > 0 /\ ~Idle.active
    BY DEF Idle, Cursor
  <1>4. Passed(Tab, purge) = Pairs(Tab)
    BY <1>1, <1>2, PassedEnd DEF TableOK
  <1>5. \A s \in DOMAIN Contents(Tab) : s[2] # "alias"
    <2>1. \A s : s \in DOMAIN Contents(Tab) <=> \E kv \in Pairs(Tab) : s = Symbol(kv)
      BY <1>2, ContentsAre DEF TableOK
    <2>. QED  BY <1>2, <1>4, <2>1 DEF Symbol
  <1>. QED  BY <1>1, <1>2, <1>3, <1>5, PurgeCursorStep

----------------------------------------------------------------------------
(* The steps of symtab_clone, and the end of a subshell *)

LEMMA CloneStartStep ==
    ASSUME Inv, CloneStart
    PROVE  /\ Inv' /\ Last' = Last + 1 /\ Tab' = EmptyTable
           /\ \A n \in 1 .. Last : tables'[n] = tables[n]
  <1>1. Ready /\ tables' = Append(tables, EmptyTable) /\ clone' = Started
        /\ UNCHANGED <<adding, grow, purge>>
    BY DEF CloneStart
  <1>2. /\ ~adding.active /\ ~purge.active /\ ~grow.active /\ TableOK(Tab, Idle, {})
        /\ Pending = {}
    BY <1>1, ReadyTable DEF Ready
  <1>3. /\ EmptyTable \in Table /\ TableOK(EmptyTable, Idle, {}) /\ Pairs(EmptyTable) = {}
    BY EmptyTableOK, SymtabAssumption
  <1>4. /\ tables' \in Seq(Table) /\ tables' # <<>> /\ Len(tables') = Len(tables) + 1
        /\ \A n \in 1 .. Len(tables) : tables'[n] = tables[n]
        /\ tables'[Len(tables) + 1] = EmptyTable
    BY <1>1, <1>3, AppendProperties DEF Inv, Stack
  <1>5. Last \in Nat \ {0}
    BY StackFacts DEF Inv
  <1>6. Last' = Last + 1 /\ Tab' = EmptyTable /\ \A n \in 1 .. Last : tables'[n] = tables[n]
    BY <1>4 DEF Last, Tab
  <1>7. Pending' = {} /\ TableOK(Tab', grow', {})
    BY <1>1, <1>2, <1>3, <1>6, Inactive DEF Pending
  <1>8. ASSUME NEW n \in 1 .. Last' - 1 PROVE TableOK(tables'[n], Idle, {})
    <2>1. n \in 1 .. Last /\ (n \in 1 .. Last - 1 \/ n = Last)
      BY <1>5, <1>6
    <2>2. tables'[n] = tables[n]
      BY <1>6, <2>1
    <2>. QED  BY <1>2, <2>1, <2>2 DEF Inv, Stack, Tab
  <1>9. Stack'
    BY <1>4, <1>7, <1>8 DEF Stack
  <1>10. Started \in Cursor /\ Started.pos > 0 /\ Started.active
    BY DEF Started, Cursor
  <1>11. Calls'
    <2>1. ~purge'.active /\ ~adding'.active /\ ~grow'.active
      BY <1>1, <1>2
    <2>2. {grow', clone', purge'} \subseteq Cursor /\ grow'.pos > 0 /\ clone'.pos > 0
          /\ purge'.pos > 0 /\ (adding' = NoAdd \/ adding' \in Request)
      BY <1>1, <1>10 DEF Inv, Calls
    <2>. QED  BY <2>1, <2>2 DEF Calls
  <1>12. Copied'
    <2>1. Source' = Tab
      <3>1. Last' - 1 = Last /\ Last \in 1 .. Last
        BY <1>5, <1>6
      <3>2. Source' = tables'[Last]
        BY <3>1 DEF Source
      <3>. QED  BY <1>6, <3>1, <3>2 DEF Tab
    <2>2. Passed(Source', clone') = {}
      BY <1>1, <1>2, <2>1, PassedStarted DEF TableOK
    <2>3. Last' > 1 /\ Pairs(Tab') = {} /\ ~adding'.active
      BY <1>1, <1>2, <1>3, <1>5, <1>6
    <2>. QED  BY <2>2, <2>3 DEF Copied
  <1>13. Purged'
    BY <1>1, <1>2 DEF Purged
  <1>. QED  BY <1>6, <1>9, <1>11, <1>12, <1>13 DEF Inv

LEMMA CloneSlot ==
    ASSUME Inv, Cloning
    PROVE  /\ clone.bucket \in DOMAIN Source.data
           /\ clone.pos <= Len(Source.data[clone.bucket])
                => clone.pos \in DOMAIN Source.data[clone.bucket]
  <1>1. clone.active /\ clone.bucket \in 0 .. Source.capacity - 1
    BY DEF Cloning, Buckets
  <1>2. TableOK(Source, Idle, {}) /\ clone.pos > 0 /\ clone.pos \in Nat
    BY <1>1, CopyFacts DEF Inv, Calls, Cursor
  <1>3. clone.bucket \in DOMAIN Source.data
    BY <1>1, <1>2 DEF TableOK, Sized, Table, Idle
  <1>4. Len(Source.data[clone.bucket]) \in Nat
        /\ DOMAIN Source.data[clone.bucket] = 1 .. Len(Source.data[clone.bucket])
    BY <1>2, <1>3, SlotType DEF TableOK
  <1>. QED  BY <1>2, <1>3, <1>4

LEMMA ClonePairStep ==
    ASSUME Inv, ClonePair
    PROVE  Inv' /\ OnlyLast
  <1>. DEFINE kv == Source.data[clone.bucket][clone.pos]
              key == kv.key
              type == kv.type
  <1>1. /\ Cloning /\ clone.active /\ ~adding.active
        /\ clone.pos <= Len(Source.data[clone.bucket]) /\ ~Found(Tab, key, type)
        /\ Link(key, type, kv.value, kv.exported) /\ UNCHANGED <<clone, purge>>
    BY DEF ClonePair, Cloning
  <1>2. /\ Last > 1 /\ Last - 1 \in 1 .. Last - 1 /\ TableOK(Source, Idle, {})
        /\ ~purge.active /\ clone \in Cursor
    BY <1>1, CopyFacts
  <1>3. clone.bucket \in DOMAIN Source.data /\ clone.pos \in DOMAIN Source.data[clone.bucket]
    BY <1>1, CloneSlot
  <1>4. kv \in Pair /\ kv.value \in Value
    BY <1>2, <1>3, SlotType DEF TableOK, ValuedIn
  <1>. HIDE DEF kv
  <1>5. /\ key \in Name /\ type \in Type /\ kv.exported \in BOOLEAN
        /\ kv = [key |-> key, type |-> type, value |-> kv.value, exported |-> kv.exported]
    BY <1>4 DEF Pair
  <1>. HIDE DEF key, type
  <1>6. /\ Stack' /\ Last' = Last
        /\ \A n \in 1 .. Last - 1 : tables'[n] = tables[n]
        /\ Pairs(Tab') = Pairs(Tab) \cup {Blank(key, type)}
        /\ grow' \in Cursor /\ grow'.pos > 0
        /\ adding' = [active |-> TRUE, key |-> key, type |-> type, value |-> kv.value,
                      export |-> kv.exported]
        /\ adding' \in Request /\ Pending' = {<<key, type>>}
    BY <1>1, <1>4, <1>5, LinkStep
  <1>7. Pending = {}
    BY <1>1 DEF Pending
  <1>8. Blank(key, type) \in Pairs(Tab') /\ Symbol(Blank(key, type)) = <<key, type>>
    BY <1>5, <1>6, BlankPair
  <1>9. /\ adding'.active /\ adding'.key = key /\ adding'.type = type
        /\ adding'.value = kv.value /\ adding'.export = kv.exported
    BY <1>6
  <1>10. Calls'
    <2>1. \E x \in Pairs(Tab') : Symbol(x) = <<adding'.key, adding'.type>>
      BY <1>8, <1>9
    <2>2. ~purge'.active /\ {clone', purge'} \subseteq Cursor /\ clone'.pos > 0 /\ purge'.pos > 0
      BY <1>1, <1>2 DEF Inv, Calls
    <2>. QED  BY <1>6, <1>9, <2>1, <2>2 DEF Calls
  <1>11. Copied'
    <2>1. Source' = Source
      BY <1>2, <1>6 DEF Source
    <2>2. /\ Passed(Source, clone) \subseteq Pairs(Tab)
          /\ \A x \in Pairs(Tab) : Symbol(x) \in Pending \/ x \in Passed(Source, clone)
      BY <1>1 DEF Inv, Copied
    <2>3. Passed(Source, clone) \subseteq Pairs(Tab')
      BY <1>6, <2>2
    <2>4. \A x \in Pairs(Tab') : Symbol(x) \in Pending' \/ x \in Passed(Source, clone)
      BY <1>6, <1>7, <1>8, <2>2
    <2>5. Source.data[clone.bucket][clone.pos] =
            [key |-> adding'.key, type |-> adding'.type, value |-> adding'.value,
             exported |-> adding'.export]
      BY <1>5, <1>9 DEF kv
    <2>. QED  BY <1>1, <1>2, <1>3, <1>6, <2>1, <2>3, <2>4, <2>5 DEF Copied
  <1>12. Purged'
    BY <1>1, <1>2 DEF Purged
  <1>. QED  BY <1>6, <1>10, <1>11, <1>12 DEF Inv, OnlyLast

\* A step that only moves the cursor of symtab_clone, or ends it.
LEMMA CloneCursorStep ==
    ASSUME Inv, clone.active, ~adding.active, UNCHANGED <<tables, adding, grow, purge>>,
           clone' \in Cursor, clone'.pos > 0,
           clone'.active => Passed(Source, clone') = Passed(Source, clone)
    PROVE  Inv'
  <1>1. Stack' /\ Tab' = Tab /\ Last' = Last /\ Pending' = Pending
    BY SameStack
  <1>2. ~purge.active /\ Last > 1
    BY CopyFacts
  <1>3. Source' = Source
    BY DEF Source, Last
  <1>4. Calls'
    BY <1>1, <1>2 DEF Inv, Calls
  <1>5. Copied'
    BY <1>1, <1>3 DEF Inv, Copied
  <1>. QED  BY <1>1, <1>2, <1>4, <1>5 DEF Inv, Purged

LEMMA CloneNextStep ==
    ASSUME Inv, CloneNext
    PROVE  Inv'
  <1>1. /\ Cloning /\ clone.active /\ ~adding.active
        /\ clone.pos > Len(Source.data[clone.bucket])
        /\ clone' = NextBucket(clone) /\ UNCHANGED <<tables, adding, grow, purge>>
    BY DEF CloneNext, Cloning, NextBucket
  <1>2. TableOK(Source, Idle, {}) /\ clone \in Cursor /\ clone.bucket \in DOMAIN Source.data
    BY <1>1, CopyFacts, CloneSlot
  <1>3. Passed(Source, clone') = Passed(Source, clone)
    BY <1>1, <1>2, PassedNextBucket DEF TableOK
  <1>. QED  BY <1>1, <1>2, <1>3, CursorMoves, CloneCursorStep

LEMMA CloneEndStep ==
    ASSUME Inv, CloneEnd
    PROVE  Inv' /\ Contents(Tab) = Contents(Source)
  <1>1. /\ clone.active /\ ~adding.active /\ clone.bucket = Source.capacity
        /\ clone' = Idle /\ UNCHANGED <<tables, adding, grow, purge>>
    BY DEF CloneEnd
  <1>2. TableOK(Source, Idle, {}) /\ Pending = {}
    BY <1>1, CopyFacts DEF Pending
  <1>3. Idle \in Cursor /\ Idle.pos > 0 /\ ~Idle.active
    BY DEF Idle, Cursor
  <1>4. Pairs(Tab) = Pairs(Source)
    <2>1. Passed(Source, clone) = Pairs(Source)
      BY <1>1, <1>2, PassedEnd DEF TableOK
    <2>. QED  BY <1>1, <1>2, <2>1 DEF Inv, Copied
  <1>5. Contents(Tab) = Contents(Source)
    BY <1>4 DEF Contents
  <1>. QED  BY <1>1, <1>3, <1>5, CloneCursorStep

LEMMA LeaveStep ==
    ASSUME Inv, LeaveSubshell
    PROVE  /\ Inv' /\ Last > 1 /\ Last' = Last - 1
           /\ \A n \in 1 .. Last - 1 : tables'[n] = tables[n]
  <1>1. Ready /\ Last > 1 /\ tables' = SubSeq(tables, 1, Last - 1)
        /\ UNCHANGED <<adding, grow, clone, purge>>
    BY DEF LeaveSubshell
  <1>2. /\ ~adding.active /\ ~purge.active /\ ~clone.active /\ ~grow.active
    BY <1>1, ReadyTable DEF Ready
  <1>3. Last \in Nat /\ \A n \in 1 .. Last : tables[n] \in Table
    BY StackFacts DEF Inv
  <1>4. /\ tables' \in Seq(Table) /\ Len(tables') = Last - 1
        /\ \A n \in 1 .. Last - 1 : tables'[n] = tables[n]
    <2>1. \A n \in 1 .. Last - 1 : tables[n] \in Table
      BY <1>3
    <2>2. /\ SubSeq(tables, 1, Last - 1) \in Seq(Table)
          /\ Len(SubSeq(tables, 1, Last - 1)) = Last - 1
          /\ \A n \in 1 .. Last - 1 : SubSeq(tables, 1, Last - 1)[n] = tables[n]
      <3>. HIDE DEF Last
      <3>. QED  BY <1>1, <1>3, <2>1, SubSeqProperties
    <2>. QED  BY <1>1, <2>2
  <1>5. Last' = Last - 1
    BY <1>4 DEF Last
  <1>6. Pending' = {}
    BY <1>1, <1>2 DEF Pending
  <1>7. \A n \in 1 .. Last' : TableOK(tables'[n], Idle, {})
    BY <1>4, <1>5 DEF Inv, Stack
  <1>8. Last' \in 1 .. Last' /\ tables' # <<>>
    <2>1. Last' \in Nat \ {0}
      <3>. HIDE DEF Last
      <3>. QED  BY <1>1, <1>3, <1>5
    <2>2. Len(tables') = Last'
      BY DEF Last
    <2>. QED  BY <2>1, <2>2
  <1>9. Tab' = tables'[Last']
    BY DEF Tab
  <1>10. TableOK(Tab', grow', Pending')
    BY <1>1, <1>2, <1>6, <1>7, <1>8, <1>9, Inactive
  <1>11. \A n \in 1 .. Last' - 1 : TableOK(tables'[n], Idle, {})
    BY <1>3, <1>5, <1>7
  <1>12. Stack'
    BY <1>4, <1>8, <1>10, <1>11 DEF Stack
  <1>13. Calls' /\ Purged' /\ Copied'
    BY <1>1, <1>2 DEF Inv, Calls, Purged, Copied
  <1>. QED  BY <1>1, <1>4, <1>5, <1>12, <1>13 DEF Inv

----------------------------------------------------------------------------
(* Safety *)

LEMMA InitInv == Init => Inv
  <1>. SUFFICES ASSUME Init PROVE Inv
    OBVIOUS
  <1>1. tables = <<EmptyTable>> /\ adding = NoAdd /\ grow = Idle /\ clone = Idle /\ purge = Idle
    BY DEF Init
  <1>2. EmptyTable \in Table /\ TableOK(EmptyTable, Idle, {})
    BY EmptyTableOK, SymtabAssumption
  <1>3. Last = 1 /\ Tab = EmptyTable /\ tables \in Seq(Table) /\ tables # <<>>
    <2>. HIDE DEF EmptyTable
    <2>. QED  BY <1>1, <1>2 DEF Last, Tab
  <1>4. Pending = {} /\ ~adding.active
    BY <1>1 DEF Pending, NoAdd
  <1>5. Stack
    <2>1. \A n \in 1 .. Last - 1 : TableOK(tables[n], Idle, {})
      BY <1>3
    <2>. QED  BY <1>1, <1>2, <1>3, <1>4, <2>1 DEF Stack
  <1>6. Idle \in Cursor /\ Idle.pos > 0 /\ ~Idle.active
    BY DEF Idle, Cursor
  <1>7. Calls /\ Purged /\ Copied
    BY <1>1, <1>4, <1>6 DEF Calls, Purged, Copied
  <1>. QED  BY <1>5, <1>7 DEF Inv

LEMMA NextInv == Inv /\ [Next]_vars => Inv'
  <1>. SUFFICES ASSUME Inv, [Next]_vars PROVE Inv'
    OBVIOUS
  <1>1. CASE UNCHANGED vars
    BY <1>1 DEF vars, Inv, Stack, Calls, Purged, Copied, Last, Tab, Source, Pending
  <1>2. CASE Call
    <2>1. ASSUME NEW key \in Name, NEW type \in Type, NEW v \in Value, NEW export \in BOOLEAN,
                 Update(key, type, v, export) \/ Insert(key, type, v, export)
          PROVE  Inv'
      BY <2>1, UpdateStep, InsertStep
    <2>2. ASSUME NEW key \in Name, ExportOnly(key) PROVE Inv'
      BY <2>2, ExportStep
    <2>3. ASSUME NEW key \in Name, NEW type \in Type, Delete(key, type) PROVE Inv'
      BY <2>3, DeleteStep
    <2>4. CASE PurgeStart
      BY <2>4, PurgeStartStep
    <2>5. CASE CloneStart
      BY <2>5, CloneStartStep
    <2>6. CASE LeaveSubshell
      BY <2>6, LeaveStep
    <2>. QED  BY <1>2, <2>1, <2>2, <2>3, <2>4, <2>5, <2>6 DEF Call
  <1>3. CASE SetValue
    BY <1>3, SetValueStep
  <1>4. CASE GrowKeep \/ GrowMove \/ GrowNext \/ GrowEnd
    BY <1>4, GrowKeepStep, GrowMoveStep, GrowNextStep, GrowEndStep
  <1>5. CASE PurgeDelete \/ PurgeKeep \/ PurgeNext \/ PurgeEnd
    BY <1>5, PurgeDeleteStep, PurgeKeepStep, PurgeNextStep, PurgeEndStep
  <1>6. CASE ClonePair \/ CloneNext \/ CloneEnd
    BY <1>6, ClonePairStep, CloneNextStep, CloneEndStep
  <1>. QED  BY <1>1, <1>2, <1>3, <1>4, <1>5, <1>6 DEF Next, Work

\* The inductive invariant holds in every state.
THEOREM InvHolds == Spec => []Inv
  BY InitInv, NextInv, PTL DEF Spec

\* The table in use and the others, as Placed and Unique speak of them.
LEMMA TablesOK ==
    ASSUME Inv, NEW n \in 1 .. Last
    PROVE  /\ n = Last => TableOK(tables[n], grow, Pending)
           /\ n # Last => TableOK(tables[n], Idle, {})
  <1>1. Last \in Nat
    BY StackFacts DEF Inv
  <1>2. n # Last => n \in 1 .. Last - 1
    BY <1>1
  <1>. QED  BY <1>2 DEF Inv, Stack, Tab

\* The capacity is never 0 and the count of buckets never leaves size_t, the
\* array has twice the capacity while symtab_realloc runs, and the cursors are
\* cursors (symtab_add, symtab_del, symtab_realloc).
THEOREM TypeCorrect == Spec => []TypeOK
  <1>1. ASSUME Inv PROVE TypeOK
    <2>1. {grow, clone, purge} \subseteq Cursor
      BY <1>1 DEF Inv, Calls
    <2>2. ASSUME NEW n \in 1 .. Last
          PROVE  LET t == tables[n] IN
                 /\ t.capacity \in Nat \ {0} /\ t.size \in 0 .. SizeLimit - 1
                 /\ t.data \in [0 .. (IF n = Last /\ grow.active THEN 2 ELSE 1) * t.capacity - 1
                                  -> Seq(Pair)]
      <3>. DEFINE t == tables[n]
      <3>1. t \in Table
        BY <1>1, StackFacts DEF Inv
      <3>2. t.capacity \in Nat \ {0} /\ t.size \in 0 .. SizeLimit - 1
        BY <3>1 DEF Table
      <3>3. CASE n = Last
        BY <1>1, <3>2, <3>3, TablesOK DEF TableOK, Sized
      <3>4. CASE n # Last
        BY <1>1, <3>2, <3>4, TablesOK DEF TableOK, Sized, Idle
      <3>. QED  BY <3>3, <3>4
    <2>. QED  BY <2>1, <2>2 DEF TypeOK
  <1>. QED  BY <1>1, InvHolds, PTL

\* At every step, also between two pairs of symtab_realloc, a pair is in the
\* bucket where symtab_lookup would look for it: the walk of symtab_realloc
\* misses no pair and moves none twice, whatever the hash function.
THEOREM EveryPairIsPlaced == Spec => []Placed
  <1>1. ASSUME Inv PROVE Placed
    <2>. SUFFICES ASSUME NEW n \in 1 .. Last, NEW i \in DOMAIN tables[n].data,
                         NEW p \in DOMAIN tables[n].data[i]
                  PROVE  Home(n, i, p) = i
      BY DEF Placed
    <2>1. CASE n = Last
      <3>1. HomeIn(tables[n], grow, i, p) = i
        BY <1>1, <2>1, TablesOK DEF TableOK, PlacedIn
      <3>. QED  BY <2>1, <3>1 DEF HomeIn, Home, Behind
    <2>2. CASE n # Last
      <3>1. HomeIn(tables[n], Idle, i, p) = i
        BY <1>1, <2>2, TablesOK DEF TableOK, PlacedIn
      <3>. QED  BY <2>2, <3>1 DEF HomeIn, Home, Idle
    <2>. QED  BY <2>1, <2>2
  <1>. QED  BY <1>1, InvHolds, PTL

\* No sequence of calls leaves two pairs for one symbol: an old value never
\* comes back when symtab_del takes the new one (symtab_add, symtab_realloc).
THEOREM SymbolsAreUnique == Spec => []Unique
  <1>1. ASSUME Inv PROVE Unique
    <2>. SUFFICES ASSUME NEW n \in 1 .. Last,
                         NEW i \in DOMAIN tables[n].data, NEW j \in DOMAIN tables[n].data,
                         NEW p \in DOMAIN tables[n].data[i], NEW q \in DOMAIN tables[n].data[j],
                         tables[n].data[i][p].key = tables[n].data[j][q].key,
                         tables[n].data[i][p].type = tables[n].data[j][q].type
                  PROVE  i = j /\ p = q
      BY DEF Unique
    <2>1. UniqueIn(tables[n])
      BY <1>1, TablesOK DEF TableOK
    <2>2. Symbol(tables[n].data[i][p]) = Symbol(tables[n].data[j][q])
      BY SymbolKey
    <2>. QED  BY <2>1, <2>2 DEF UniqueIn
  <1>. QED  BY <1>1, InvHolds, PTL

----------------------------------------------------------------------------
(* The map that the table implements *)

\* What Promised and Scopes are, for given values of the variables.
KeptByPurge(m) == [s \in {x \in DOMAIN m : x[2] # "alias"} |-> m[s]]
PromisedBy(T, a, c, g) ==
    CASE c.active -> Contents(T[Len(T) - 1])
      [] g.active -> KeptByPurge(Contents(T[Len(T)]))
      [] a.active /\ ~c.active ->
           Plus(Contents(T[Len(T)]), <<a.key, a.type>>,
                [value |-> a.value, exported |-> a.export])
      [] OTHER    -> Contents(T[Len(T)])
ScopesBy(T, m) == [i \in 1 .. Len(T) |-> IF i = Len(T) THEN m ELSE Contents(T[i])]

LEMMA ByValues ==
    /\ Promised = PromisedBy(tables, adding, clone, purge)
    /\ Promised' = PromisedBy(tables', adding', clone', purge')
    /\ Scopes = ScopesBy(tables, Promised)
    /\ Scopes' = ScopesBy(tables', Promised')
  <1>1. Promised = PromisedBy(tables, adding, clone, purge)
    BY DEF Promised, PromisedBy, KeptByPurge, Tab, Last
  <1>2. Promised' = PromisedBy(tables', adding', clone', purge')
    BY DEF Promised, PromisedBy, KeptByPurge, Tab, Last
  <1>3. Scopes = ScopesBy(tables, Promised)
    BY DEF Scopes, ScopesBy, Last
  <1>4. Scopes' = ScopesBy(tables', Promised')
    BY DEF Scopes, ScopesBy, Last
  <1>. QED  BY <1>1, <1>2, <1>3, <1>4

LEMMA PromisedCases ==
    ASSUME NEW T, NEW a, NEW c, NEW g, g.active => ~a.active /\ ~c.active
    PROVE  /\ c.active => PromisedBy(T, a, c, g) = Contents(T[Len(T) - 1])
           /\ g.active => PromisedBy(T, a, c, g) = KeptByPurge(Contents(T[Len(T)]))
           /\ a.active /\ ~c.active =>
                PromisedBy(T, a, c, g) = Plus(Contents(T[Len(T)]), <<a.key, a.type>>,
                                              [value |-> a.value, exported |-> a.export])
           /\ ~a.active /\ ~c.active /\ ~g.active =>
                PromisedBy(T, a, c, g) = Contents(T[Len(T)])
  BY DEF PromisedBy

LEMMA ScopesLength ==
    ASSUME NEW T, Len(T) \in Nat \ {0}, NEW m
    PROVE  /\ Len(ScopesBy(T, m)) = Len(T) /\ DOMAIN ScopesBy(T, m) = 1 .. Len(T)
           /\ ScopesBy(T, m) \in Seq({ScopesBy(T, m)[i] : i \in 1 .. Len(T)})
           /\ ScopesBy(T, m)[Len(T)] = m
           /\ \A i \in 1 .. Len(T) - 1 : ScopesBy(T, m)[i] = Contents(T[i])
  <1>. DEFINE n == Len(T)
              f == ScopesBy(T, m)
              R == {f[i] : i \in 1 .. n}
  <1>1. f = [i \in 1 .. n |-> IF i = n THEN m ELSE Contents(T[i])]
    BY DEF ScopesBy
  <1>. HIDE DEF n, f
  <1>2. n \in Nat \ {0}
    BY DEF n
  <1>3. DOMAIN f = 1 .. n /\ f = [i \in 1 .. n |-> f[i]]
    BY <1>1
  <1>4. f \in [1 .. n -> R]
    BY <1>3
  <1>. HIDE DEF R
  <1>5. f \in Seq(R)
    BY <1>2, <1>4, SeqDef
  <1>6. Len(f) \in Nat /\ DOMAIN f = 1 .. Len(f)
    BY <1>5, LenProperties
  <1>7. Len(f) = n
    BY <1>2, <1>3, <1>6
  <1>8. f[n] = m /\ \A i \in 1 .. n - 1 : f[i] = Contents(T[i])
    BY <1>1, <1>2
  <1>. QED  BY <1>3, <1>5, <1>7, <1>8 DEF n, f, R

LEMMA ScopesSeq ==
    ASSUME NEW T, Len(T) \in Nat \ {0}, NEW m, NEW R,
           \A i \in 1 .. Len(T) : ScopesBy(T, m)[i] \in R
    PROVE  ScopesBy(T, m) \in Seq(R)
  <1>. DEFINE n == Len(T)
              f == ScopesBy(T, m)
  <1>1. f = [i \in 1 .. n |-> f[i]]
    BY DEF ScopesBy
  <1>. HIDE DEF n, f
  <1>2. n \in Nat /\ \A i \in 1 .. n : f[i] \in R
    BY DEF n, f
  <1>3. f \in [1 .. n -> R]
    BY <1>1, <1>2
  <1>4. f \in Seq(R)
    BY <1>2, <1>3, SeqDef
  <1>. QED  BY <1>4 DEF f

\* The promise between two calls, and after a step that leaves none in progress.
LEMMA PromisedReady ==
    /\ Ready => Promised = Contents(Tab)
    /\ ~adding'.active /\ ~clone'.active /\ ~purge'.active => Promised' = Contents(Tab')
  <1>1. Ready => Promised = Contents(Tab)
    BY ByValues, PromisedCases DEF Ready, Tab, Last
  <1>2. ~adding'.active /\ ~clone'.active /\ ~purge'.active => Promised' = Contents(Tab')
    BY ByValues, PromisedCases DEF Tab, Last
  <1>. QED  BY <1>1, <1>2

\* A step on the last table changes the last map only.
LEMMA ScopesSet ==
    ASSUME Stack, OnlyLast
    PROVE  /\ Map!Current = Promised
           /\ Map!SetCurrent(Promised')
           /\ Promised' = Promised => Scopes' = Scopes
  <1>1. Len(tables) \in Nat \ {0} /\ Len(tables') = Len(tables)
        /\ \A n \in 1 .. Len(tables) - 1 : tables'[n] = tables[n]
    BY StackFacts DEF OnlyLast, Last
  <1>. DEFINE n == Len(tables)
              f == ScopesBy(tables, Promised)
              g == ScopesBy(tables', Promised')
  <1>2. Len(f) = n /\ DOMAIN f = 1 .. n /\ f[n] = Promised
    BY <1>1, ScopesLength
  <1>3. g = [f EXCEPT ![n] = Promised']
    <2>1. DOMAIN g = 1 .. n /\ DOMAIN f = 1 .. n /\ g[n] = Promised'
      BY <1>1, ScopesLength
    <2>2. ASSUME NEW i \in 1 .. n, i # n PROVE g[i] = f[i]
      <3>1. i \in 1 .. n - 1
        BY <1>1, <2>2
      <3>2. f[i] = Contents(tables[i])
        BY <1>1, <3>1, ScopesLength
      <3>3. i \in 1 .. Len(tables') - 1 /\ Len(tables') \in Nat \ {0}
        BY <1>1, <3>1
      <3>4. g[i] = Contents(tables'[i])
        BY <3>3, ScopesLength
      <3>. QED  BY <1>1, <3>1, <3>2, <3>4
    <2>3. f = [i \in DOMAIN f |-> f[i]] /\ g = [i \in DOMAIN g |-> g[i]]
      BY DEF ScopesBy
    <2>. HIDE DEF f, g, n
    <2>. QED  BY <2>1, <2>2, <2>3
  <1>4. f = [i \in DOMAIN f |-> f[i]]
    BY DEF ScopesBy
  <1>5. Scopes = f /\ Scopes' = g
    BY ByValues
  <1>. HIDE DEF f, g, n
  <1>6. Promised' = Promised => g = f
    BY <1>2, <1>3, <1>4
  <1>. QED  BY <1>2, <1>3, <1>5, <1>6 DEF Map!Current, Map!SetCurrent

\* The map after Put and after Export.
PutEntry(m, s, v, export) ==
    [x \in DOMAIN m \cup {s} |->
        IF x # s THEN m[x]
        ELSE [value |-> v, exported |-> export \/ (s \in DOMAIN m /\ m[s].exported)]]
MarkEntry(m, s) == [m EXCEPT ![s].exported = TRUE]

LEMMA PutIsPlus ==
    ASSUME NEW m, NEW s, NEW v, NEW export \in BOOLEAN
    PROVE  /\ s \in DOMAIN m =>
                PutEntry(m, s, v, export)
                  = Plus(m, s, [value |-> v, exported |-> m[s].exported \/ export])
           /\ s \notin DOMAIN m =>
                PutEntry(m, s, v, export) = Plus(m, s, [value |-> v, exported |-> export])
  <1>1. ASSUME s \in DOMAIN m
        PROVE  (export \/ (s \in DOMAIN m /\ m[s].exported)) = (m[s].exported \/ export)
    BY <1>1
  <1>2. ASSUME s \notin DOMAIN m
        PROVE  (export \/ (s \in DOMAIN m /\ m[s].exported)) = export
    BY <1>2
  <1>. QED  BY <1>1, <1>2 DEF Plus, PutEntry

LEMMA MarkedEntry ==
    ASSUME NEW kv
    PROVE  /\ [EntryOf(kv) EXCEPT !.exported = TRUE] = [value |-> kv.value, exported |-> TRUE]
           /\ EntryOf(kv).value = kv.value
  <1>. DEFINE d == EntryOf(kv)
              r == [d EXCEPT !.exported = TRUE]
              e == [value |-> kv.value, exported |-> TRUE]
  <1>1. DOMAIN d = {"value", "exported"} /\ d.value = kv.value
    BY DEF EntryOf
  <1>. HIDE DEF d
  <1>2. DOMAIN r = {"value", "exported"} /\ r = [f \in DOMAIN r |-> r[f]]
        /\ r["value"] = kv.value /\ r["exported"] = TRUE
    BY <1>1
  <1>3. DOMAIN e = {"value", "exported"} /\ e = [f \in DOMAIN e |-> e[f]]
        /\ e["value"] = kv.value /\ e["exported"] = TRUE
    OBVIOUS
  <1>. HIDE DEF r, e
  <1>4. r = e
    BY <1>2, <1>3
  <1>. QED  BY <1>1, <1>4 DEF r, e, d

LEMMA MarkIsPlus ==
    ASSUME NEW m, m = [x \in DOMAIN m |-> m[x]], NEW s \in DOMAIN m, NEW kv, m[s] = EntryOf(kv)
    PROVE  MarkEntry(m, s) = Plus(m, s, [value |-> m[s].value, exported |-> TRUE])
  <1>1. [m[s] EXCEPT !.exported = TRUE] = [value |-> kv.value, exported |-> TRUE]
        /\ m[s].value = kv.value
    BY MarkedEntry, Zenon
  <1>2. MarkEntry(m, s) = [m EXCEPT ![s] = [m[s] EXCEPT !.exported = TRUE]]
    BY DEF MarkEntry
  <1>3. [m EXCEPT ![s] = [value |-> kv.value, exported |-> TRUE]]
          = Plus(m, s, [value |-> kv.value, exported |-> TRUE])
    <2>. DEFINE e == [value |-> kv.value, exported |-> TRUE]
    <2>. HIDE DEF e
    <2>1. [m EXCEPT ![s] = e] = Plus(m, s, e)
      BY DEF Plus
    <2>. QED  BY <2>1 DEF e
  <1>. QED  BY <1>1, <1>2, <1>3

LEMMA PlusTwice ==
    ASSUME NEW m, NEW s, NEW d, NEW e
    PROVE  Plus(Plus(m, s, d), s, e) = Plus(m, s, e)
  <1>1. DOMAIN Plus(m, s, d) = DOMAIN m \cup {s}
    BY DEF Plus
  <1>2. \A x \in DOMAIN m : x # s => Plus(m, s, d)[x] = m[x]
    BY DEF Plus
  <1>. QED  BY <1>1, <1>2 DEF Plus

LEMMA UpdateIsPut ==
    ASSUME Inv, NEW key \in Name, NEW type \in Type, NEW v \in Value,
           NEW export \in BOOLEAN, Update(key, type, v, export)
    PROVE  Map!Put(<<key, type>>, v, export)
  <1>. DEFINE s == <<key, type>>
              m == Contents(Tab)
  <1>1. Ready /\ ~adding'.active /\ ~clone'.active /\ ~purge'.active
    BY DEF Update, Ready
  <1>2. OnlyLast /\ s \in DOMAIN m /\ Stack
        /\ Contents(Tab') = Plus(m, s, [value |-> v, exported |-> m[s].exported \/ export])
    BY UpdateStep DEF Inv
  <1>3. Promised = m /\ Promised' = Contents(Tab')
    BY <1>1, PromisedReady
  <1>. HIDE DEF s, m
  <1>4. Map!Current = m /\ Map!SetCurrent(Contents(Tab'))
    BY <1>2, <1>3, ScopesSet
  <1>5. Map!SetCurrent(PutEntry(m, s, v, export))
    BY <1>2, <1>4, PutIsPlus
  <1>. QED  BY <1>4, <1>5 DEF Map!Put, PutEntry, s

LEMMA InsertIsPut ==
    ASSUME Inv, NEW key \in Name, NEW type \in Type, NEW v \in Value,
           NEW export \in BOOLEAN, Insert(key, type, v, export)
    PROVE  Map!Put(<<key, type>>, v, export)
  <1>. DEFINE s == <<key, type>>
              m == Contents(Tab)
              d == [value |-> Unset, exported |-> FALSE]
              e == [value |-> v, exported |-> export]
  <1>1. Ready /\ ~clone'.active /\ ~purge'.active
    BY DEF Insert, Ready
  <1>2. OnlyLast /\ s \notin DOMAIN m /\ Stack /\ Contents(Tab') = Plus(m, s, d)
        /\ adding' = [active |-> TRUE, key |-> key, type |-> type, value |-> v,
                      export |-> export]
    BY InsertStep DEF Inv
  <1>3. adding'.active /\ s = <<adding'.key, adding'.type>>
        /\ e = [value |-> adding'.value, exported |-> adding'.export]
    BY <1>2
  <1>4. Promised = m /\ Promised' = Plus(Contents(Tab'), s, e)
    BY <1>1, <1>3, PromisedReady, ByValues, PromisedCases DEF Tab, Last
  <1>5. Promised' = Plus(m, s, e)
    <2>. HIDE DEF d, e, m, s
    <2>. QED  BY <1>2, <1>4, PlusTwice
  <1>. HIDE DEF s, m
  <1>6. Map!Current = m /\ Map!SetCurrent(Plus(m, s, e))
    BY <1>2, <1>4, <1>5, ScopesSet
  <1>7. Map!SetCurrent(PutEntry(m, s, v, export))
    BY <1>2, <1>6, PutIsPlus
  <1>. QED  BY <1>6, <1>7 DEF Map!Put, PutEntry, s

LEMMA ExportIsExport ==
    ASSUME Inv, NEW key \in Name, ExportOnly(key)
    PROVE  Map!Export(<<key, "word">>)
  <1>. DEFINE s == <<key, "word">>
              m == Contents(Tab)
  <1>1. Ready /\ ~adding'.active /\ ~clone'.active /\ ~purge'.active
    BY DEF ExportOnly, Ready
  <1>2. OnlyLast /\ s \in DOMAIN m /\ Stack
        /\ Contents(Tab') = Plus(m, s, [value |-> m[s].value, exported |-> TRUE])
    BY ExportStep DEF Inv
  <1>3. Promised = m /\ Promised' = Contents(Tab')
    BY <1>1, PromisedReady
  <1>4. m = [x \in DOMAIN m |-> m[x]] /\ \E kv : m[s] = EntryOf(kv)
    BY <1>2 DEF Contents, EntryOf
  <1>. HIDE DEF s, m
  <1>5. Map!Current = m /\ Map!SetCurrent(Contents(Tab'))
    BY <1>2, <1>3, ScopesSet
  <1>6. Map!SetCurrent(MarkEntry(m, s))
    BY <1>2, <1>4, <1>5, MarkIsPlus
  <1>. QED  BY <1>2, <1>5, <1>6 DEF Map!Export, MarkEntry, s

LEMMA DeleteIsRemove ==
    ASSUME Inv, NEW key \in Name, NEW type \in Type, Delete(key, type)
    PROVE  Map!Remove({<<key, type>>})
  <1>. DEFINE m == Contents(Tab)
              M == [x \in DOMAIN m \ {<<key, type>>} |-> m[x]]
  <1>1. Ready /\ ~adding'.active /\ ~clone'.active /\ ~purge'.active
    BY DEF Delete, Ready
  <1>2. OnlyLast /\ Stack /\ Contents(Tab') = M
    BY DeleteStep DEF Inv
  <1>3. Promised = m /\ Promised' = M
    BY <1>1, <1>2, PromisedReady
  <1>. HIDE DEF m, M
  <1>4. Map!Current = m /\ Map!SetCurrent(M)
    BY <1>2, <1>3, ScopesSet
  <1>. QED  BY <1>4 DEF Map!Remove, M

LEMMA PurgeIsRemove ==
    ASSUME Inv, PurgeStart
    PROVE  Map!Remove({s \in Map!Symbol : s[2] = "alias"})
  <1>. DEFINE m == Contents(Tab)
              A == {s \in Map!Symbol : s[2] = "alias"}
              M == [x \in DOMAIN m \ A |-> m[x]]
  <1>1. Ready /\ purge' = Started /\ UNCHANGED <<tables, adding, grow, clone>>
    BY DEF PurgeStart
  <1>2. OnlyLast /\ Tab' = Tab /\ Stack
    BY <1>1, SameStack DEF Inv
  <1>3. purge'.active /\ ~adding'.active /\ ~clone'.active
    BY <1>1 DEF Ready, Started
  <1>4. Promised = m /\ Promised' = KeptByPurge(m)
    <2>1. Promised' = KeptByPurge(Contents(Tab'))
      BY <1>3, ByValues, PromisedCases DEF Tab, Last
    <2>. QED  BY <1>1, <1>2, <2>1, PromisedReady
  <1>5. KeptByPurge(m) = M
    <2>1. \A s \in DOMAIN m : s \in Map!Symbol
      <3>1. TableOK(Tab, Idle, {})
        BY <1>1, ReadyTable DEF Ready
      <3>2. \A s : s \in DOMAIN m <=> \E kv \in Pairs(Tab) : s = Symbol(kv)
        BY <3>1, ContentsAre DEF TableOK
      <3>3. \A kv \in Pairs(Tab) : kv \in Pair
        BY <3>1, PairSlot, SlotType DEF TableOK
      <3>. QED  BY <3>2, <3>3 DEF Symbol, Pair, Map!Symbol
    <2>. HIDE DEF m
    <2>2. {x \in DOMAIN m : x[2] # "alias"} = DOMAIN m \ A
      BY <2>1
    <2>. HIDE DEF A
    <2>. QED  BY <2>2 DEF KeptByPurge
  <1>. HIDE DEF m, M
  <1>6. Map!Current = m /\ Map!SetCurrent(M)
    BY <1>2, <1>4, <1>5, ScopesSet
  <1>. QED  BY <1>6 DEF Map!Remove, M

\* Two stacks of maps with the same maps.
LEMMA ScopesEqual ==
    ASSUME NEW n \in Nat, NEW f, NEW g, DOMAIN f = 1 .. n, DOMAIN g = 1 .. n,
           f = [i \in DOMAIN f |-> f[i]], g = [i \in DOMAIN g |-> g[i]],
           \A i \in 1 .. n : f[i] = g[i]
    PROVE  f = g
  OBVIOUS

LEMMA CloneIsEnter ==
    ASSUME Inv, CloneStart
    PROVE  Map!EnterSubshell
  <1>. DEFINE n == Len(tables)
              m == Promised
              f == ScopesBy(tables, m)
              g == ScopesBy(tables', Promised')
              R == {f[i] : i \in 1 .. n}
              h == Append(f, m)
  <1>1. Ready /\ clone' = Started /\ UNCHANGED <<adding, grow, purge>>
    BY DEF CloneStart
  <1>2. n \in Nat \ {0} /\ Len(tables') = n + 1 /\ \A i \in 1 .. n : tables'[i] = tables[i]
    BY CloneStartStep, StackFacts DEF Inv, Last
  <1>3. Promised = Contents(tables[n])
    BY <1>1, PromisedReady DEF Tab, Last
  <1>4. Promised' = Contents(tables[n])
    <2>1. clone'.active /\ ~adding'.active /\ ~purge'.active
      BY <1>1 DEF Ready, Started
    <2>2. Promised' = Contents(tables'[Len(tables') - 1])
      BY <2>1, ByValues, PromisedCases
    <2>3. Len(tables') - 1 = n /\ n \in 1 .. n
      BY <1>2
    <2>. QED  BY <1>2, <2>2, <2>3
  <1>. HIDE DEF n
  <1>5. Len(tables) = n
    BY DEF n
  <1>6. /\ Len(f) = n /\ DOMAIN f = 1 .. n /\ f \in Seq(R) /\ f[n] = m
        /\ \A i \in 1 .. n - 1 : f[i] = Contents(tables[i])
    <2>1. Len(tables) \in Nat \ {0}
      BY <1>2, <1>5
    <2>2. /\ Len(f) = Len(tables) /\ DOMAIN f = 1 .. Len(tables)
          /\ f[Len(tables)] = m
          /\ \A i \in 1 .. Len(tables) - 1 : f[i] = Contents(tables[i])
      <3>. HIDE DEF m
      <3>. QED  BY <2>1, ScopesLength, Zenon
    <2>3. f \in Seq(R)
      <3>1. \A i \in 1 .. Len(tables) : f[i] \in R
        BY <1>5
      <3>. HIDE DEF R, m
      <3>. QED  BY <2>1, <3>1, ScopesSeq
    <2>. QED  BY <1>5, <2>2, <2>3
  <1>7. DOMAIN g = 1 .. n + 1 /\ g[n + 1] = Promised' /\ \A i \in 1 .. n : g[i] = Contents(tables'[i])
    <2>1. Len(tables') \in Nat \ {0} /\ Len(tables') - 1 = n
      BY <1>2
    <2>2. DOMAIN g = 1 .. Len(tables') /\ g[Len(tables')] = Promised'
          /\ \A i \in 1 .. Len(tables') - 1 : g[i] = Contents(tables'[i])
      BY <2>1, ScopesLength
    <2>. QED  BY <1>2, <2>1, <2>2
  <1>8. m \in R
    BY <1>2, <1>6
  <1>9. g = [i \in DOMAIN g |-> g[i]]
    BY DEF ScopesBy
  <1>10. Scopes = f /\ Scopes' = g
    BY ByValues
  <1>. HIDE DEF f, g, R, m
  <1>11. /\ h \in Seq(R) /\ Len(h) = n + 1 /\ \A i \in 1 .. n : h[i] = f[i]
         /\ h[n + 1] = m
    BY <1>6, <1>8, AppendProperties
  <1>. HIDE DEF h
  <1>12. DOMAIN h = 1 .. n + 1 /\ h = [i \in DOMAIN h |-> h[i]]
    BY <1>11, LenProperties
  <1>13. ASSUME NEW i \in 1 .. n + 1 PROVE g[i] = h[i]
    <2>1. CASE i = n + 1
      BY <1>3, <1>4, <1>7, <1>11, <2>1 DEF m
    <2>2. CASE i = n
      <3>1. n \in 1 .. n
        BY <1>2
      <3>. QED  BY <1>2, <1>3, <1>6, <1>7, <1>11, <2>2, <3>1 DEF m
    <2>3. CASE i # n /\ i # n + 1
      <3>1. i \in 1 .. n /\ i \in 1 .. n - 1
        BY <1>2, <2>3
      <3>. QED  BY <1>2, <1>6, <1>7, <1>11, <3>1
    <2>. QED  BY <2>1, <2>2, <2>3
  <1>14. g = h
    <2>1. n + 1 \in Nat
      BY <1>2
    <2>. QED  BY <1>7, <1>9, <1>12, <1>13, <2>1, ScopesEqual
  <1>15. Map!Current = m
    BY <1>6, <1>10 DEF Map!Current
  <1>. QED  BY <1>10, <1>14, <1>15 DEF Map!EnterSubshell, h

LEMMA LeaveIsLeave ==
    ASSUME Inv, LeaveSubshell
    PROVE  Map!LeaveSubshell
  <1>. DEFINE n == Len(tables)
              f == ScopesBy(tables, Promised)
              g == ScopesBy(tables', Promised')
              R == {f[i] : i \in 1 .. n}
              h == SubSeq(f, 1, n - 1)
  <1>1. ~adding'.active /\ ~clone'.active /\ ~purge'.active
    BY DEF LeaveSubshell, Ready
  <1>2. n \in Nat \ {0} /\ n > 1 /\ Len(tables') = n - 1
        /\ \A i \in 1 .. n - 1 : tables'[i] = tables[i]
    BY LeaveStep, StackFacts DEF Inv, Last
  <1>. HIDE DEF n
  <1>3. Len(tables) = n
    BY DEF n
  <1>4. n - 1 \in Nat \ {0} /\ n - 1 \in 1 .. n - 1
    BY <1>2
  <1>5. Promised' = Contents(tables[n - 1])
    <2>1. Promised' = Contents(tables'[n - 1])
      BY <1>1, <1>2, PromisedReady DEF Tab, Last
    <2>. QED  BY <1>2, <1>4, <2>1
  <1>6. /\ Len(f) = n /\ DOMAIN f = 1 .. n /\ f \in Seq(R)
        /\ \A i \in 1 .. n - 1 : f[i] = Contents(tables[i])
    <2>1. Len(tables) \in Nat \ {0}
      BY <1>2, <1>3
    <2>2. /\ Len(f) = Len(tables) /\ DOMAIN f = 1 .. Len(tables)
          /\ \A i \in 1 .. Len(tables) - 1 : f[i] = Contents(tables[i])
      BY <2>1, ScopesLength, Zenon
    <2>3. f \in Seq(R)
      <3>1. \A i \in 1 .. Len(tables) : f[i] \in R
        BY <1>3
      <3>. HIDE DEF R
      <3>. QED  BY <2>1, <3>1, ScopesSeq
    <2>. QED  BY <1>3, <2>2, <2>3
  <1>7. DOMAIN g = 1 .. n - 1 /\ g[n - 1] = Promised'
        /\ \A i \in 1 .. (n - 1) - 1 : g[i] = Contents(tables'[i])
    <2>1. Len(tables') \in Nat \ {0} /\ Len(tables') = n - 1
      BY <1>2, <1>4
    <2>2. DOMAIN g = 1 .. Len(tables') /\ g[Len(tables')] = Promised'
          /\ \A i \in 1 .. Len(tables') - 1 : g[i] = Contents(tables'[i])
      BY <2>1, ScopesLength
    <2>. QED  BY <2>1, <2>2
  <1>8. g = [i \in DOMAIN g |-> g[i]]
    BY DEF ScopesBy
  <1>9. Scopes = f /\ Scopes' = g
    BY ByValues
  <1>. HIDE DEF f, g, R
  <1>10. /\ h \in Seq(R) /\ Len(h) = n - 1
         /\ \A i \in 1 .. n - 1 : h[i] = f[i]
    <2>1. \A i \in 1 .. n - 1 : f[i] \in R
      BY <1>2, <1>6, ElementOfSeq
    <2>. QED  BY <1>2, <1>4, <2>1, SubSeqProperties
  <1>. HIDE DEF h
  <1>11. DOMAIN h = 1 .. n - 1 /\ h = [i \in DOMAIN h |-> h[i]]
    BY <1>10, LenProperties
  <1>12. ASSUME NEW i \in 1 .. n - 1 PROVE g[i] = h[i]
    <2>1. CASE i = n - 1
      BY <1>4, <1>5, <1>6, <1>7, <1>10, <2>1
    <2>2. CASE i # n - 1
      <3>1. i \in 1 .. (n - 1) - 1
        BY <1>2, <2>2
      <3>. QED  BY <1>2, <1>6, <1>7, <1>10, <3>1
    <2>. QED  BY <2>1, <2>2
  <1>13. g = h
    BY <1>4, <1>7, <1>8, <1>11, <1>12, ScopesEqual
  <1>. QED  BY <1>2, <1>6, <1>9, <1>13 DEF Map!LeaveSubshell, h

\* What a call has promised, by the call.
LEMMA PromisedNow ==
    ASSUME Inv
    PROVE  /\ clone.active => Promised = Contents(Source)
           /\ purge.active => Promised = KeptByPurge(Contents(Tab))
           /\ adding.active /\ ~clone.active =>
                Promised = Plus(Contents(Tab), <<adding.key, adding.type>>,
                                [value |-> adding.value, exported |-> adding.export])
  <1>1. purge.active => ~adding.active /\ ~clone.active
    BY DEF Inv, Calls
  <1>. QED  BY <1>1, ByValues, PromisedCases DEF Tab, Source, Last

LEMMA PromisedNext ==
    ASSUME Inv'
    PROVE  /\ clone'.active => Promised' = Contents(Source')
           /\ purge'.active => Promised' = KeptByPurge(Contents(Tab'))
           /\ adding'.active /\ ~clone'.active =>
                Promised' = Plus(Contents(Tab'), <<adding'.key, adding'.type>>,
                                 [value |-> adding'.value, exported |-> adding'.export])
  <1>1. purge'.active => ~adding'.active /\ ~clone'.active
    BY DEF Inv, Calls
  <1>. QED  BY <1>1, ByValues, PromisedCases DEF Tab, Source, Last

LEMMA SourceKept ==
    ASSUME Inv, clone.active, OnlyLast
    PROVE  Source' = Source
  BY CopyFacts DEF OnlyLast, Source, Last

LEMMA KeptAfterDelete ==
    ASSUME NEW m, NEW s, s[2] = "alias"
    PROVE  KeptByPurge([x \in DOMAIN m \ {s} |-> m[x]]) = KeptByPurge(m)
  <1>. DEFINE d == [x \in DOMAIN m \ {s} |-> m[x]]
  <1>1. {x \in DOMAIN d : x[2] # "alias"} = {x \in DOMAIN m : x[2] # "alias"}
    OBVIOUS
  <1>2. \A x \in {x \in DOMAIN m : x[2] # "alias"} : d[x] = m[x]
    BY <1>1
  <1>. HIDE DEF d
  <1>. QED  BY <1>1, <1>2 DEF KeptByPurge

LEMMA KeptWithoutAlias ==
    ASSUME NEW m, m = [x \in DOMAIN m |-> m[x]], \A s \in DOMAIN m : s[2] # "alias"
    PROVE  KeptByPurge(m) = m
  <1>1. {x \in DOMAIN m : x[2] # "alias"} = DOMAIN m
    OBVIOUS
  <1>. QED  BY <1>1 DEF KeptByPurge

\* No step of a call changes what the call has promised: the map takes its new
\* value when the call starts.
LEMMA WorkLeavesScopes ==
    ASSUME Inv, Work
    PROVE  Scopes' = Scopes
  <1>. SUFFICES OnlyLast /\ Promised' = Promised
    BY ScopesSet DEF Inv
  <1>1. CASE SetValue
    <2>1. /\ Inv' /\ OnlyLast
          /\ Contents(Tab') = Plus(Contents(Tab), <<adding.key, adding.type>>,
                                   [value |-> adding.value, exported |-> adding.export])
      BY <1>1, SetValueStep
    <2>2. adding.active /\ ~adding'.active /\ purge' = purge
      BY <1>1 DEF SetValue, NoAdd
    <2>3. ~purge.active /\ clone'.active = clone.active
      BY <1>1, <2>2 DEF SetValue, Inv, Calls, Cursor
    <2>4. CASE clone.active
      BY <2>1, <2>3, <2>4, PromisedNow, PromisedNext, SourceKept
    <2>5. CASE ~clone.active
      <3>1. Promised' = Contents(Tab')
        BY <2>2, <2>3, <2>5, PromisedReady
      <3>. QED  BY <2>1, <2>2, <2>5, <3>1, PromisedNow
    <2>. QED  BY <2>1, <2>4, <2>5
  <1>2. CASE GrowKeep \/ GrowMove \/ GrowNext \/ GrowEnd
    <2>1. Inv' /\ OnlyLast /\ Contents(Tab') = Contents(Tab)
      BY <1>2, GrowKeepStep, GrowMoveStep, GrowNextStep, GrowEndStep
    <2>2. grow.active /\ UNCHANGED <<adding, clone, purge>>
      BY <1>2 DEF GrowKeep, GrowMove, GrowNext, GrowEnd
    <2>3. adding.active
      BY <2>2 DEF Inv, Calls
    <2>4. CASE clone.active
      BY <2>1, <2>2, <2>4, PromisedNow, PromisedNext, SourceKept
    <2>5. CASE ~clone.active
      BY <2>1, <2>2, <2>3, <2>5, PromisedNow, PromisedNext
    <2>. QED  BY <2>1, <2>4, <2>5
  <1>3. CASE PurgeDelete
    <2>1. Inv' /\ OnlyLast
      BY <1>3, PurgeDeleteStep
    <2>2. PICK s : /\ s[2] = "alias"
                   /\ Contents(Tab') = [x \in DOMAIN Contents(Tab) \ {s} |-> Contents(Tab)[x]]
      BY <1>3, PurgeDeleteStep
    <2>3. purge.active /\ purge' = purge
      BY <1>3 DEF PurgeDelete, Purging
    <2>4. KeptByPurge(Contents(Tab')) = KeptByPurge(Contents(Tab))
      BY <2>2, KeptAfterDelete
    <2>. QED  BY <2>1, <2>3, <2>4, PromisedNow, PromisedNext
  <1>4. CASE PurgeKeep \/ PurgeNext
    <2>1. Inv' /\ UNCHANGED <<tables, adding, grow, clone>> /\ purge.active /\ purge'.active
      <3>1. purge \in Cursor
        BY DEF Inv, Calls
      <3>. QED  BY <1>4, <3>1, PurgeKeepStep, PurgeNextStep DEF PurgeKeep, PurgeNext, Purging, Cursor
    <2>2. OnlyLast /\ Tab' = Tab
      BY <2>1, SameStack
    <2>. QED  BY <2>1, <2>2, PromisedNow, PromisedNext
  <1>5. CASE PurgeEnd
    <2>1. /\ UNCHANGED <<tables, adding, grow, clone>> /\ purge.active /\ ~purge'.active
          /\ \A s \in DOMAIN Contents(Tab) : s[2] # "alias"
      BY <1>5, PurgeEndStep DEF PurgeEnd, Idle
    <2>2. OnlyLast /\ Tab' = Tab
      BY <2>1, SameStack
    <2>3. ~adding'.active /\ ~clone'.active
      BY <2>1, PurgeFacts
    <2>4. Promised' = Contents(Tab)
      BY <2>1, <2>2, <2>3, PromisedReady
    <2>5. Promised = KeptByPurge(Contents(Tab))
      BY <2>1, PromisedNow
    <2>6. Contents(Tab) = [s \in DOMAIN Contents(Tab) |-> Contents(Tab)[s]]
      BY DEF Contents
    <2>7. KeptByPurge(Contents(Tab)) = Contents(Tab)
      BY <2>1, <2>6, KeptWithoutAlias
    <2>. QED  BY <2>2, <2>4, <2>5, <2>7
  <1>6. CASE ClonePair
    <2>1. Inv' /\ OnlyLast
      BY <1>6, ClonePairStep
    <2>2. clone.active /\ clone' = clone
      BY <1>6 DEF ClonePair, Cloning
    <2>. QED  BY <2>1, <2>2, PromisedNow, PromisedNext, SourceKept
  <1>7. CASE CloneNext
    <2>1. Inv' /\ UNCHANGED <<tables, adding, grow>> /\ clone.active /\ clone'.active
      <3>1. clone \in Cursor
        BY DEF Inv, Calls
      <3>. QED  BY <1>7, <3>1, CloneNextStep DEF CloneNext, Cloning, Cursor
    <2>2. OnlyLast
      BY <2>1, SameStack
    <2>. QED  BY <2>1, <2>2, PromisedNow, PromisedNext, SourceKept
  <1>8. CASE CloneEnd
    <2>1. /\ UNCHANGED <<tables, adding, grow, purge>> /\ clone.active /\ ~clone'.active
          /\ ~adding.active /\ Contents(Tab) = Contents(Source)
      BY <1>8, CloneEndStep DEF CloneEnd, Idle
    <2>2. OnlyLast /\ Tab' = Tab
      BY <2>1, SameStack
    <2>3. ~adding'.active /\ ~purge'.active
      BY <2>1, CopyFacts
    <2>4. Promised' = Contents(Tab)
      BY <2>1, <2>2, <2>3, PromisedReady
    <2>. QED  BY <2>1, <2>2, <2>4, PromisedNow
  <1>. QED  BY <1>1, <1>2, <1>3, <1>4, <1>5, <1>6, <1>7, <1>8 DEF Work

\* A call has on the map the effect of its arguments, and no other, whatever
\* keys share its bucket and however far the table grows (symtab_add,
\* symtab_del, symtab_clone; export; the frees of a subshell).
THEOREM CallsHaveTheirEffect == Spec => EffectOfCalls
  <1>1. ASSUME Inv, NEW key \in Name, NEW type \in Type, NEW v \in Value, NEW export \in BOOLEAN,
               Update(key, type, v, export) \/ Insert(key, type, v, export)
        PROVE  Map!Put(<<key, type>>, v, export)
    BY <1>1, UpdateIsPut, InsertIsPut
  <1>2. ASSUME Inv, NEW key \in Name, NEW type \in Type, Delete(key, type)
        PROVE  Map!Remove({<<key, type>>})
    BY <1>2, DeleteIsRemove
  <1>3. ASSUME Inv, NEW key \in Name, ExportOnly(key)
        PROVE  Map!Export(<<key, "word">>)
    BY <1>3, ExportIsExport
  <1>4. ASSUME Inv
        PROVE  /\ \A key \in Name, type \in Type :
                    /\ \A v \in Value, export \in BOOLEAN :
                         Update(key, type, v, export) \/ Insert(key, type, v, export)
                           => Map!Put(<<key, type>>, v, export)
                    /\ Delete(key, type) => Map!Remove({<<key, type>>})
               /\ \A key \in Name : ExportOnly(key) => Map!Export(<<key, "word">>)
               /\ CloneStart => Map!EnterSubshell
               /\ LeaveSubshell => Map!LeaveSubshell
    BY <1>1, <1>2, <1>3, <1>4, CloneIsEnter, LeaveIsLeave
  <1>. QED  BY <1>4, InvHolds, PTL DEF EffectOfCalls

\* The refinement, initial states and steps.
LEMMA InitIsEmpty == Init => Map!Init
  <1>. SUFFICES ASSUME Init PROVE Scopes = << <<>> >>
    BY DEF Map!Init
  <1>1. tables = <<EmptyTable>> /\ Ready
    BY DEF Init, Ready, NoAdd, Idle
  <1>2. Last = 1 /\ Tab = EmptyTable
    <2>. HIDE DEF EmptyTable
    <2>. QED  BY <1>1 DEF Last, Tab
  <1>3. Pairs(EmptyTable) = {}
    BY DEF Pairs, EmptyTable
  <1>4. DOMAIN Contents(EmptyTable) = {}
    BY <1>3 DEF Contents
  <1>5. Contents(EmptyTable) = [s \in {} |-> Contents(EmptyTable)[s]]
    BY <1>4 DEF Contents
  <1>6. Contents(EmptyTable) = <<>>
    <2>. HIDE DEF EmptyTable
    <2>. QED  BY <1>5
  <1>7. Promised = <<>>
    BY <1>1, <1>2, <1>6, PromisedReady
  <1>8. Scopes = [i \in 1 .. 1 |-> <<>>]
    BY <1>2, <1>7 DEF Scopes
  <1>. QED  BY <1>8

LEMMA StepIsStep == Inv /\ [Next]_vars => [Map!Next]_Scopes
  <1>. SUFFICES ASSUME Inv, [Next]_vars PROVE Map!Next \/ Scopes' = Scopes
    OBVIOUS
  <1>1. CASE UNCHANGED vars
    BY <1>1 DEF vars, Scopes, Promised, Contents, Tab, Last
  <1>2. ASSUME NEW key \in Name, NEW type \in Type, NEW v \in Value, NEW export \in BOOLEAN,
               Update(key, type, v, export) \/ Insert(key, type, v, export)
        PROVE  Map!Next
    <2>1. <<key, type>> \in Map!Symbol
      BY DEF Map!Symbol
    <2>2. Map!Put(<<key, type>>, v, export)
      BY <1>2, UpdateIsPut, InsertIsPut
    <2>. QED  BY <2>1, <2>2 DEF Map!Next
  <1>3. ASSUME NEW key \in Name, ExportOnly(key) PROVE Map!Next
    <2>1. <<key, "word">> \in Map!Symbol
      <3>1. TableOK(Tab, Idle, {})
        <4>1. ~adding.active
          BY <1>3 DEF ExportOnly, Ready
        <4>. QED  BY <4>1, ReadyTable
      <3>2. <<key, "word">> \in DOMAIN Contents(Tab)
        BY <1>3, ExportStep
      <3>3. PICK kv \in Pairs(Tab) : <<key, "word">> = Symbol(kv)
        BY <3>1, <3>2, ContentsAre DEF TableOK
      <3>4. kv \in Pair
        BY <3>1, PairSlot, SlotType DEF TableOK
      <3>. QED  BY <3>3, <3>4 DEF Symbol, Pair, Map!Symbol
    <2>2. Map!Export(<<key, "word">>)
      BY <1>3, ExportIsExport
    <2>. QED  BY <2>1, <2>2 DEF Map!Next
  <1>4. ASSUME NEW key \in Name, NEW type \in Type, Delete(key, type) PROVE Map!Next
    <2>1. <<key, type>> \in Map!Symbol
      BY DEF Map!Symbol
    <2>2. Map!Remove({<<key, type>>})
      BY <1>4, DeleteIsRemove
    <2>. QED  BY <2>1, <2>2 DEF Map!Next
  <1>5. CASE PurgeStart
    BY <1>5, PurgeIsRemove DEF Map!Next
  <1>6. CASE CloneStart
    BY <1>6, CloneIsEnter DEF Map!Next
  <1>7. CASE LeaveSubshell
    BY <1>7, LeaveIsLeave DEF Map!Next
  <1>8. CASE Work
    BY <1>8, WorkLeavesScopes
  <1>9. CASE Call
    BY <1>2, <1>3, <1>4, <1>5, <1>6, <1>7, <1>9 DEF Call
  <1>. QED  BY <1>1, <1>8, <1>9 DEF Next

\* The hash table is the map: every behaviour of the table, seen through what
\* its calls have promised, is one of SymtabMap, for every hash function, load
\* and stack of subshells (symtab_add, symtab_del, symtab_clone, unalias -a).
THEOREM TableImplementsMap == Spec => ImplementsMap
  BY InitIsEmpty, StepIsStep, InvHolds, PTL DEF Spec, ImplementsMap, Map!Spec

=============================================================================
