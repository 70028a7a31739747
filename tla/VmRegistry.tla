----------------------------- MODULE VmRegistry -----------------------------
(***************************************************************************)
(* The functions that a State knows by name, and the code they live in.    *)
(* Compiling a file makes one piece of code per engine.  Each name keeps,  *)
(* per engine, an address in that code and a share of the handle that owns *)
(* it; when a later file defines the name again the entry is overwritten,  *)
(* and code that no entry and no running call holds is released.  While it *)
(* is initialised a C unit tells the State where it writes the line that   *)
(* it executes, and its handle takes that address back when it goes.       *)
(***************************************************************************)
EXTENDS Integers, Sequences, SequencesExt

CONSTANTS
    Files,      \* per file, the names it defines
    Plans,      \* the engines that a compilation uses, in order
    MaxCodes,   \* bound: pieces of code made
    MaxRuns     \* bound: nested calls and initialisations

VARIABLES
    code,       \* every piece made: its engine, its handle's lua_loc_, and spoiled (history)
    fn,         \* Vm::vm_functions_
    locs,       \* State::lua_locs_, per engine: the units that registered their location, each once and in
                \* the order that they are numbered in
    runs        \* what runs: calls by name, and compilations during their __fakelua_init

regVars == <<code, fn, locs, runs>>

InitName == "__fakelua_init"   \* every unit has one, registered like the others
Names == UNION Files \cup {InitName}
Engines == UNION {Range(p) : p \in Plans}
InC(e) == e \in {"TCC", "GCC"}
NoFn == [addr |-> [e \in Engines |-> 0], handle |-> [e \in Engines |-> 0]]

RegInit ==
    /\ code = <<>>
    /\ fn = [n \in Names |-> NoFn]
    /\ locs = [e \in Engines |-> {}]
    /\ runs = <<>>

\* Code that an entry or a running call has a share of.
HeldBy(f, rs) == {f[n].handle[e] : n \in Names, e \in Engines} \cup {rs[i].code : i \in DOMAIN rs}
HeldCode == HeldBy(fn, runs)

\* Mutant: the address is taken over, the handle is not.
MergeAddressOnly(old, e, c) ==
    [old EXCEPT !.addr[e] = c, !.handle[e] = IF old = NoFn THEN c ELSE @]

\* VmFunction::Merge with a function that has code for one engine.
Merge(old, e, c) == [old EXCEPT !.addr[e] = c, !.handle[e] = c]

\* What every step ends with: handles that nobody shares any more are destroyed.
Become(newCode, newFn, newRuns, newLocs) ==
    LET gone == HeldCode \ HeldBy(newFn, newRuns)
        returned == {newCode[c].loc : c \in gone \ {0}}
    IN  /\ code' = newCode
        /\ fn' = newFn
        /\ runs' = newRuns
        /\ locs' = [e \in Engines |-> newLocs[e] \ returned]

\* The units of engine e whose initialisation is under way.
Initialising(e) == {runs[i].code : i \in {j \in DOMAIN runs : runs[j].kind = "init" /\ code[runs[j].code].jit = e}}

\* A jitter has built the unit: its functions are registered, and __fakelua_init registers its location.
LoadUnit(names, plan, below, made) ==
    LET e == Head(plan)
        c == Len(made) + 1
        shadowed == [d \in DOMAIN made |-> IF InC(e) /\ d \in Initialising(e) THEN [made[d] EXCEPT !.spoiled = TRUE] ELSE made[d]]
        unit == [jit |-> e, loc |-> 0, spoiled |-> FALSE]
    IN  Become(Append(shadowed, unit),
               [n \in Names |-> IF n \in names \cup {InitName} THEN Merge(fn[n], e, c) ELSE fn[n]],
               Append(below, [kind |-> "init", code |-> c, names |-> names, rest |-> Tail(plan)]),
               [locs EXCEPT ![e] = IF InC(e) THEN @ \cup {c} ELSE @])

\* CompileFile or CompileString, by the host or by running code (load).
CompileFile(names, plan) ==
    /\ Len(runs) < MaxRuns
    /\ Len(code) < MaxCodes
    /\ LoadUnit(names, plan, runs, code)

\* A call by name keeps a copy of the entry while it runs.
CallByNameImpl(n, e) ==
    /\ Len(runs) < MaxRuns
    /\ fn[n].addr[e] # 0
    /\ Become(code, fn, Append(runs, [kind |-> "call", code |-> fn[n].handle[e], names |-> {}, rest |-> <<>>]), locs)

Run == Last(runs)
OnTop(kind) == runs # <<>> /\ Run.kind = kind

\* A function returns or throws.
EndCall == OnTop("call") /\ Become(code, fn, Front(runs), locs)

\* After its init the handle takes the location that was registered last to be its own.
LocTaken(e) == IF locs[e] = {} THEN 0 ELSE Max(locs[e])

\* The init returns; the next engine follows, or its compiler fails.
EndInit ==
    /\ OnTop("init")
    /\ LET e == code[Run.code].jit
           made == IF InC(e) THEN [code EXCEPT ![Run.code].loc = LocTaken(e)] ELSE code
       IN  \/ Become(made, fn, Front(runs), locs)
           \/ /\ Run.rest # <<>>
              /\ Len(code) < MaxCodes
              /\ LoadUnit(Run.names, Run.rest, Front(runs), made)

\* The init throws: nothing is taken back, and the other engines are not reached.
InitThrows ==
    /\ OnTop("init")
    /\ Become([code EXCEPT ![Run.code].spoiled = TRUE], fn, Front(runs), locs)

RegNext ==
    \/ \E names \in Files, plan \in Plans : CompileFile(names, plan)
    \/ \E n \in Names, e \in Engines : CallByNameImpl(n, e)
    \/ EndCall \/ EndInit \/ InitThrows

-----------------------------------------------------------------------------

\* Whatever is compiled again while whatever runs, and however it fails: a call by name never reaches
\* code that was released (vm_function.h:66-69), and the State writes a line (LuaLocScope) only to code
\* that exists - except for a unit whose init threw, or compiled another unit for its engine, which
\* nobody ever takes back.
CodeAlive ==
    /\ \A n \in Names, e \in Engines : fn[n].addr[e] \in HeldCode
    /\ \A e \in Engines : \A c \in locs[e] : c \in HeldCode \/ code[c].spoiled
=============================================================================
