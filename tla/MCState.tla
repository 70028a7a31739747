------------------------------ MODULE MCState ------------------------------
(***************************************************************************)
(* What a State keeps, for TLC: the allocator of a heap, its two heaps,    *)
(* the boundaries and scopes of the calls that run, and the functions it   *)
(* knows by name.  A behaviour is one of the four.  Blocks have 8 bytes,   *)
(* and the alignment is 4 instead of 16.                                   *)
(***************************************************************************)
EXTENDS HeapAllocator, StateHeap, JitDispatch, VmRegistry, TLC

CONSTANTS
    Parts,                  \* which of "allocator", "heaps", "calls" and "registry"
    u1, u2, u3, v1, v2

\* Sizes below, at and above the alignment, a whole block, and one byte too many.
MCSizes == {1, 4, 5, 8, 9}

\* Every native function, but no table.sort in GCC code.
AllFlavors ==
    [e \in {"TCC", "GCC", "INTERP"} |-> {"plain", "pcall", "tick", "load"} \cup IF e = "GCC" THEN {} ELSE {"sort"}]
SortFlavors == [e \in {"TCC", "GCC", "INTERP"} |-> {"plain", "pcall", "sort"}]

\* A file that defines a part of what another one does, and compilations for one engine and for two.
MCFiles == {{"f"}, {"f", "g"}}
MCPlans == {<<"TCC", "INTERP">>, <<"TCC">>}

VARIABLE part

allVars == <<part, vars, heapVars, callVars, regVars>>

MCInit == part \in Parts /\ Init /\ HeapsInit /\ CallsInit /\ RegInit

MCNext ==
    \/ part = "allocator" /\ Next /\ UNCHANGED <<part, heapVars, callVars, regVars>>
    \/ part = "heaps" /\ HeapsNext /\ UNCHANGED <<part, vars, callVars, regVars>>
    \/ part = "calls" /\ CallsNext /\ UNCHANGED <<part, vars, heapVars, regVars>>
    \/ part = "registry" /\ RegNext /\ UNCHANGED <<part, vars, heapVars, callVars>>

MCSpec == MCInit /\ [][MCNext]_allVars

\* Values are interchangeable; units are not, since Jit may name some of them.
Perms == Permutations(Values) \cup Permutations({u2, u3})
=============================================================================
