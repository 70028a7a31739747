------------------------------- MODULE Arena -------------------------------
(***************************************************************************)
(* What a heap promises its callers: memory that is handed out is disjoint *)
(* from everything handed out and not yet reclaimed, and reclaiming is all *)
(* or nothing.  HeapAllocator implements this with two bump pointers;      *)
(* StateHeap builds on it, with one arena for frames and one for constants.*)
(***************************************************************************)
EXTENDS Integers

VARIABLE held   \* the extents in the callers' hands

Disjoint(a, b) ==
    \/ a.block # b.block
    \/ a.hi <= b.lo
    \/ b.hi <= a.lo

Init == held = {}

\* One more extent is handed out.
Give ==
    \E e \in held' :
        /\ held' = held \cup {e}
        /\ \A x \in held : Disjoint(e, x)

\* Everything comes back at once.
Reclaim == held' = {}

Next == Give \/ Reclaim

Spec == Init /\ [][Next]_held
=============================================================================
