----------------------------- MODULE MCSymtab ------------------------------
(***************************************************************************)
(* A small table of symbols.  With two buckets to start from, a and b      *)
(* share one; when there are four, a moves and b stays, and a word and an  *)
(* alias of the same name move together.                                   *)
(***************************************************************************)
EXTENDS Symtab

CONSTANTS
    a, b, c, v,
    SubshellPairs  \* <<type, value>> of the symbols a shell with a subshell has

MCSubshellPairs == {<<"word", v>>}

MCHash ==
    [n \in Name |-> CASE n = a -> 2 [] n = b -> 4 [] n = c -> 1]

\* symtab_clone does not look at types, values and the size of the original,
\* so subshells are entered from tables with few of them.
FewKinds ==
    Len(tables') > 1 =>
        /\ \A n \in DOMAIN tables' : \A kv \in Pairs(tables'[n]) :
             kv.value = Unset \/ <<kv.type, kv.value>> \in SubshellPairs
        /\ tables'[1].size = Cardinality({i \in DOMAIN tables'[1].data :
                                             tables'[1].data[i] # <<>>})
        /\ adding'.active => <<adding'.type, adding'.value>> \in SubshellPairs

=============================================================================
