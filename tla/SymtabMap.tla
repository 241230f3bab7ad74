----------------------------- MODULE SymtabMap -----------------------------
(***************************************************************************)
(* What the table of symbols promises to the rest of the shell: one value  *)
(* for each name and kind of symbol, and a copy of its own for a subshell. *)
(* The hash table of Symtab implements it.                                 *)
(***************************************************************************)
EXTENDS Naturals, Sequences

CONSTANTS Name, Type, Value

VARIABLE scopes  \* the map of the shell, then of each live subshell

Symbol == Name \X Type
Entry  == [value : Value, exported : BOOLEAN]

Current == scopes[Len(scopes)]
SetCurrent(m) == scopes' = [scopes EXCEPT ![Len(scopes)] = m]

Init == scopes = << <<>> >>

\* Giving a value to a symbol keeps its export mark, and may set it.
Put(s, v, export) ==
    SetCurrent([x \in DOMAIN Current \cup {s} |->
        IF x # s THEN Current[x]
        ELSE [value    |-> v,
              exported |-> export \/ (s \in DOMAIN Current /\ Current[s].exported)]])

Export(s) ==
    /\ s \in DOMAIN Current
    /\ SetCurrent([Current EXCEPT ![s].exported = TRUE])

Remove(S) == SetCurrent([x \in DOMAIN Current \ S |-> Current[x]])

EnterSubshell == scopes' = Append(scopes, Current)

LeaveSubshell ==
    /\ Len(scopes) > 1
    /\ scopes' = SubSeq(scopes, 1, Len(scopes) - 1)

Next ==
    \/ \E s \in Symbol, v \in Value, export \in BOOLEAN : Put(s, v, export)
    \/ \E s \in Symbol : Export(s) \/ Remove({s})
    \/ Remove({s \in Symbol : s[2] = "alias"})
    \/ EnterSubshell
    \/ LeaveSubshell

Spec == Init /\ [][Next]_scopes

=============================================================================
