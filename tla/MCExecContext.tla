--------------------------- MODULE MCExecContext ---------------------------
(***************************************************************************)
(* ExecContext on small instances.                                         *)
(***************************************************************************)
EXTENDS ExecContext

\* Redirections are looked at in stacks of up to this many frames; deeper
\* ones keep standard output on the terminal.
CONSTANT RedirectDepth

\* Blocks are interchangeable, so it is enough to look at the allocator that
\* always returns the lowest free one.
LowestFree(b) == \A c \in Block : c < b => c \in heap

FirstFit == \A b \in heap' \ heap : LowestFree(b)

Redirected ==
    out' # Terminal \/ \E i \in DOMAIN frames' : frames'[i].saved # Terminal

FewTargets == Len(frames') > RedirectDepth => ~Redirected

=============================================================================
