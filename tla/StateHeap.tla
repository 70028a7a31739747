----------------------------- MODULE StateHeap -----------------------------
(***************************************************************************)
(* The two heaps of a State and the rule that decides which one a value    *)
(* goes to.  Host calls reclaim the temporary heap; file-level variables   *)
(* outlive calls, so whatever __fakelua_init creates must go to the        *)
(* constant heap.  The rule is kept in two places: State keeps             *)
(* interp_const_alloc_ (used by the interpreter and by native functions),  *)
(* and every C unit that the JIT generates keeps its own static            *)
(* __fakelua_init_flag__ (used by FlFastAlloc).                            *)
(*                                                                         *)
(* Each heap is an Arena (module HeapAllocator shows that a HeapAllocator  *)
(* is one); here only which values each one holds matters.                 *)
(***************************************************************************)
EXTENDS Integers, Sequences, FiniteSets

CONSTANTS
    Units,      \* compiled files
    Jit,        \* the units compiled to C; the others run in the interpreter
    Values,     \* heap values
    MaxFrames   \* bound: nested frames

VARIABLES
    status,       \* per unit: "absent", "init", "ready", or "failed" (init threw)
    globals,      \* per unit: the values its file-level variables refer to
    heap,         \* where a value lives: "temp", "const", or "free"
    constAlloc,   \* State::interp_const_alloc_
    reentrant,    \* State::reentrant_count_
    frames        \* the frames that run, last one on top

heapVars == <<status, globals, heap, constAlloc, reentrant, frames>>

\* kind "call" is a Call() of the host or of a native function, "init" a run of
\* __fakelua_init, "fn" a Lua-to-Lua call.  prev is ConstAllocScope::prev_.
HeapFrame == [kind : {"call", "init", "fn"}, unit : Units, prev : BOOLEAN, locals : SUBSET Values]

HeapsInit ==
    /\ status = [u \in Units |-> "absent"]
    /\ globals = [u \in Units |-> {}]
    /\ heap = [v \in Values |-> "free"]
    /\ constAlloc = FALSE
    /\ reentrant = 0
    /\ frames = <<>>

Innermost == frames[Len(frames)]
Below == SubSeq(frames, 1, Len(frames) - 1)
Registered(u) == status[u] # "absent"

\* __fakelua_init_flag__ of a C unit: set by the last statement of its init.
InitFlag(u) == status[u] = "ready"

Enter(kind, u) ==
    /\ Len(frames) < MaxFrames
    /\ frames' = Append(frames, [kind |-> kind, unit |-> u, prev |-> constAlloc, locals |-> {}])

Referenced == UNION ({globals[u] : u \in Units} \cup {frames[i].locals : i \in DOMAIN frames})

Reclaimed == [v \in Values |-> IF heap[v] = "temp" THEN "free" ELSE heap[v]]

-----------------------------------------------------------------------------

\* Mutant: Call resets the temporary heap on every entry.
HeapAfterCallEntryAlways == Reclaimed

\* Heap::Reset at the entry of the outermost Call only.
HeapAfterCallEntry == IF reentrant = 0 THEN Reclaimed ELSE heap

\* Call(s, type, name, ...): by the host, or by a native function that the script calls.
Call(u) ==
    /\ Registered(u)
    /\ Enter("call", u)
    /\ heap' = HeapAfterCallEntry
    /\ reentrant' = reentrant + 1
    /\ UNCHANGED <<status, globals, constAlloc>>

\* A function of u is called from Lua code of the same backend (FakeluaCallByName).
CallByName(u) ==
    /\ frames # <<>>
    /\ Registered(u)
    /\ u \in Jit <=> Innermost.unit \in Jit
    /\ Enter("fn", u)
    /\ UNCHANGED <<status, globals, heap, constAlloc, reentrant>>

\* A file is compiled, by the host or by load() in a script: its functions are
\* registered and __fakelua_init runs inside a ConstAllocScope.
StartInit(u) ==
    /\ status[u] = "absent"
    /\ Enter("init", u)
    /\ status' = [status EXCEPT ![u] = "init"]
    /\ constAlloc' = TRUE
    /\ UNCHANGED <<globals, heap, reentrant>>

\* Mutant: ~ConstAllocScope clears the flag instead of restoring the enclosing scope's.
ConstAllocAfterCleared == IF Innermost.kind = "init" THEN FALSE ELSE constAlloc

\* ~ConstAllocScope restores the flag of the enclosing scope.
ConstAllocAfter == IF Innermost.kind = "init" THEN Innermost.prev ELSE constAlloc

\* ~ReentryCounter, on a return as well as on a throw.
ReentrantAfter(outcome) == IF Innermost.kind = "call" THEN reentrant - 1 ELSE reentrant

\* The top frame ends; the scopes it holds are unwound.
Leave(result, outcome) ==
    /\ frames # <<>>
    /\ frames' = IF Below = <<>> THEN <<>>
                ELSE [Below EXCEPT ![Len(Below)].locals = @ \cup result]
    /\ reentrant' = ReentrantAfter(outcome)
    /\ constAlloc' = ConstAllocAfter
    /\ status' = IF Innermost.kind = "init" THEN [status EXCEPT ![Innermost.unit] = outcome] ELSE status
    /\ UNCHANGED <<globals, heap>>

\* The top frame returns.  A Lua function may hand one of its values to its caller; the
\* result of a Call() is converted to a native value, and an init has no result.
ReturnFrom ==
    /\ frames # <<>>
    /\ \/ Leave({}, "ready")
       \/ \E v \in Innermost.locals : Innermost.kind = "fn" /\ Leave({v}, "ready")

\* The top frame throws; the frame below goes on (pcall) or throws in its turn.
Throw == Leave({}, "failed")

-----------------------------------------------------------------------------

\* FlFastAlloc on its fast path: the unit's own flag decides.
FastHeap(u) == IF InitFlag(u) THEN "temp" ELSE "const"

\* FakeluaAlloc, reached by FlFastAlloc when the slot is full.
SlowHeap(u) == IF ~InitFlag(u) \/ constAlloc THEN "const" ELSE "temp"

\* Mutant: the allocators of the interpreter and of native functions ignore the scope.
ValueHeapTemp == "temp"

\* State::GetValueAllocator, used by native functions and by the interpreter.
ValueHeap == IF constAlloc THEN "const" ELSE "temp"

AllocHeaps(u) == {ValueHeap} \cup (IF u \in Jit THEN {FastHeap(u), SlowHeap(u)} ELSE {})

\* The running code creates a value.
NewValue(v) ==
    /\ frames # <<>>
    /\ heap[v] = "free"
    /\ v \notin Referenced
    /\ \E h \in AllocHeaps(Innermost.unit) : heap' = [heap EXCEPT ![v] = h]
    /\ frames' = [frames EXCEPT ![Len(frames)].locals = @ \cup {v}]
    /\ UNCHANGED <<status, globals, constAlloc, reentrant>>

\* __fakelua_init assigns a file-level variable; nothing else can.
SetGlobal(v) ==
    /\ frames # <<>>
    /\ Innermost.kind = "init"
    /\ v \in Innermost.locals
    /\ globals' = [globals EXCEPT ![Innermost.unit] = @ \cup {v}]
    /\ UNCHANGED <<status, heap, constAlloc, reentrant, frames>>

HeapsNext ==
    \/ \E u \in Units : Call(u) \/ CallByName(u) \/ StartInit(u)
    \/ ReturnFrom
    \/ Throw
    \/ \E v \in Values : NewValue(v) \/ SetGlobal(v)

HeapsSpec == HeapsInit /\ [][HeapsNext]_heapVars

-----------------------------------------------------------------------------

\* A file-level variable never refers to memory that was reclaimed: what
\* __fakelua_init stores survives every later Call (state.h:161).
GlobalsSurvive == \A u \in Units : \A v \in globals[u] : heap[v] # "free"

\* Nothing that a running function refers to is reclaimed under it, however Calls,
\* native functions and compilations nest (fakelua.h:715-718).
LocalsSurvive == \A i \in DOMAIN frames : \A v \in frames[i].locals : heap[v] # "free"

\* What the scopes keep in State is exact, in whatever order Calls and nested compilations return or throw:
\* reentrant_count_ counts the Calls that run, and interp_const_alloc_ is set while some __fakelua_init runs.
ScopesExact ==
    /\ reentrant = Cardinality({i \in DOMAIN frames : frames[i].kind = "call"})
    /\ constAlloc <=> \E i \in DOMAIN frames : frames[i].kind = "init"
=============================================================================
