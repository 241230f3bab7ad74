------------------------------- MODULE MCCd -------------------------------
(* Every path of a few characters, in a tree of three directories.         *)
EXTENDS Cd, FiniteSets

Paths(chars, length) == UNION {[1 .. n -> chars] : n \in 0 .. length}

MCChars == {"a", "b", ".", Slash}
MCDirs == {<<>>, <<"a">>, <<"a", "b">>}
MCHome == <<Slash, "a">>

\* Of a directory that exists or not, with dots, or relative.
MCInherited == {<<Slash, "b">>, <<Slash, "a", Slash, ".", ".">>, <<"a">>}
MCGiven == {<<>>, <<Slash, "b">>}

\* All the short ones, and longer ones that go down and up.
MCArgs ==
    Paths(MCChars, 3) \cup
    {p \in [1 .. 6 -> {"a", ".", Slash}] :
        \E i \in 1 .. Len(p) - 2 : SubSeq(p, i, i + 2) = Up}

=============================================================================
