---------------------------- MODULE JitDispatch ----------------------------
(***************************************************************************)
(* How errors travel through a stack that mixes C++ frames, frames of C    *)
(* code generated by TCC or GCC, and interpreter frames.                   *)
(*                                                                         *)
(* C++ exceptions cannot pass TCC frames (no unwind tables), so DispatchCall*)
(* plants a setjmp boundary below them and every C++ function that         *)
(* generated code calls directly (GuardJitEntry) turns an exception into a *)
(* longjmp to the boundary on top of State's chain.  A longjmp skips the   *)
(* destructors and handlers of what it crosses.                            *)
(*                                                                         *)
(* The model is the stack, the chain of boundaries (each owner remembers   *)
(* the one below it), State::current_jit_ and IoContext::dispatch_depth_.  *)
(***************************************************************************)
EXTENDS Integers, Sequences, FiniteSets

CONSTANTS
    Hosts,      \* the engines that the host calls functions in
    Foreign,    \* engines whose closures also reach code of other engines
    Callbacks,  \* engines that named callbacks (timers, events, sockets, ...) run in
    Flavors,    \* per engine, the native functions its code uses: see NativeFlavor
    MaxStack    \* bound: frames on the stack

Engine == {"TCC", "GCC", "INTERP"}

\* error and other functions that only run or throw; pcall; table.sort and xpcall's
\* handler, which dispatch as JIT_TCC; runtime.tick, which runs named callbacks of sockets
\* and databases in a DispatchScope; and calling what load() returned.
NativeFlavor == {"plain", "pcall", "sort", "tick", "load"}

VARIABLES
    stack,      \* the frames, last one on top
    boundary,   \* State's top JitErrorBoundary: the index of the frame that owns it, or 0
    curJit,     \* State::current_jit_
    mode,       \* "run", "throw" (a C++ exception is at the top frame) or "dead"
    depth       \* IoContext::dispatch_depth_

callVars == <<stack, boundary, curJit, mode, depth>>

\* kind "code" is a function of engine jit; "dispatch" is DispatchCall; "entry" is
\* GuardJitEntry around CallByNameImpl or FakeluaInterpCall; "native" is a native
\* function; "load" is FlEvalLoadClosure.  owner: it holds a JitErrorBoundaryScope;
\* prevB and prevJit are what its scopes restore; flavor says which native it is.
Frame == [kind : {"code", "dispatch", "entry", "native", "load"},
          jit : Engine, owner : BOOLEAN, prevB : Nat, prevJit : Engine, flavor : NativeFlavor]

CallsInit ==
    /\ stack = <<>>
    /\ boundary = 0
    /\ curJit = "TCC"
    /\ mode = "run"
    /\ depth = 0

Top == stack[Len(stack)]
Running(kind) == mode = "run" /\ stack # <<>> /\ Top.kind = kind

\* A function of engine e; jit is what CurrentJit must be again when it returns.
Code(e, jit) == [kind |-> "code", jit |-> e, owner |-> FALSE, prevB |-> boundary,
                 prevJit |-> jit, flavor |-> "plain"]

\* Mutant: interpreter closures get a boundary like TCC code, and GCC code none.
NeedsBoundaryAnyEngine(callee, type) == type # "GCC"

\* DispatchCall's choice: no boundary around the interpreter, nor when told JIT_GCC.
NeedsBoundary(callee, type) == callee # "INTERP" /\ type # "GCC"

Dispatch(callee, type) ==
    [kind |-> "dispatch", jit |-> type, owner |-> NeedsBoundary(callee, type),
     prevB |-> boundary, prevJit |-> curJit, flavor |-> "plain"]

Entry == [kind |-> "entry", jit |-> curJit, owner |-> FALSE, prevB |-> boundary,
          prevJit |-> curJit, flavor |-> "plain"]

Native(fl) == [Entry EXCEPT !.kind = "native", !.flavor = fl]

\* FlEvalLoadClosure holds a boundary of its own around FakeluaCallByName.
Load == [Entry EXCEPT !.kind = "load", !.owner = TRUE, !.flavor = "load"]

Push(frames) ==
    /\ Len(stack) + Len(frames) <= MaxStack
    /\ stack' = stack \o frames

\* The boundary after DispatchCall is entered with one frame or more below it.
BoundaryFor(callee, type, at) == IF NeedsBoundary(callee, type) THEN at ELSE boundary

-----------------------------------------------------------------------------
(* Calls.                                                                  *)

\* Call(s, e, ...) by the host.
HostCall(e) ==
    /\ mode = "run" /\ stack = <<>>
    /\ e \in Hosts
    /\ Push(<<Dispatch(e, e), Code(e, e)>>)
    /\ boundary' = BoundaryFor(e, e, 1)
    /\ curJit' = e
    /\ UNCHANGED <<mode, depth>>

\* Generated code or the interpreter calls a Lua function by name.
CallLuaByName ==
    /\ Running("code")
    /\ Push(<<Entry, [Dispatch(Top.jit, Top.jit) EXCEPT !.prevJit = Top.jit],
              Code(Top.jit, Top.jit)>>)
    /\ boundary' = BoundaryFor(Top.jit, Top.jit, Len(stack) + 2)
    /\ curJit' = Top.jit
    /\ UNCHANGED <<mode, depth>>

\* Generated code or the interpreter calls a native function.
CallNative(fl) ==
    /\ Running("code")
    /\ fl \in Flavors[Top.jit] \ {"load"}
    /\ Push(<<Entry, Native(fl)>>)
    /\ curJit' = Top.jit
    /\ depth' = IF fl = "tick" THEN depth + 1 ELSE depth
    /\ UNCHANGED <<boundary, mode>>

\* FlCallClosure: generated C code calls a closure directly, pushing its own engine,
\* or enters the interpreter through FakeluaInterpCall.
CallClosureFromC(e) ==
    /\ Running("code")
    /\ Top.jit # "INTERP"
    /\ e \in {Top.jit} \cup Foreign
    /\ IF e = "INTERP"
       THEN Push(<<Entry, Code(e, curJit)>>) /\ UNCHANGED curJit
       ELSE Push(<<Code(e, curJit)>>) /\ curJit' = Top.jit
    /\ UNCHANGED <<boundary, mode, depth>>

\* The interpreter's CALL: DispatchCallClosure(..., JIT_INTERP).
CallClosureFromInterp(e) ==
    /\ Running("code")
    /\ Top.jit = "INTERP"
    /\ e \in {"INTERP"} \cup Foreign
    /\ Push(<<Dispatch(e, "INTERP"), Code(e, "INTERP")>>)
    /\ boundary' = BoundaryFor(e, "INTERP", Len(stack) + 1)
    /\ curJit' = "INTERP"
    /\ UNCHANGED <<mode, depth>>

\* The engine a native function claims for the closure it dispatches: pcall the current
\* one, table.sort TCC, a named callback the engine its address belongs to.
DispatchType(fl, callee) ==
    CASE fl = "pcall" -> curJit
      [] fl = "sort"  -> "TCC"
      [] fl = "tick"  -> callee

\* A native function calls back into Lua.
NativeDispatch(e) ==
    /\ Running("native")
    /\ Top.flavor \in {"pcall", "sort", "tick"}
    /\ e \in IF Top.flavor = "tick" THEN Callbacks ELSE {curJit} \cup Foreign
    /\ LET type == DispatchType(Top.flavor, e)
       IN /\ Push(<<Dispatch(e, type), Code(e, type)>>)
          /\ boundary' = BoundaryFor(e, type, Len(stack) + 1)
          /\ curJit' = type
    /\ UNCHANGED <<mode, depth>>

\* Code calls a source closure made by load(): it is compiled, and run with TCC.
CallLoaded ==
    /\ Running("code")
    /\ "load" \in Flavors[Top.jit]
    /\ LET b == Len(stack) + 1
       IN /\ Push(<<Load, [Entry EXCEPT !.prevB = b],
                    [Dispatch("TCC", "TCC") EXCEPT !.prevB = b, !.prevJit = "TCC"],
                    Code("TCC", "TCC")>>)
          /\ boundary' = b + 2
    /\ curJit' = "TCC"
    /\ UNCHANGED <<mode, depth>>

-----------------------------------------------------------------------------
(* Leaving frames.                                                         *)

\* Mutant: the scope of a boundary empties the chain instead of restoring it.
PopScopesNoChain(f) ==
    /\ boundary' = IF f.owner THEN 0 ELSE boundary
    /\ curJit' = IF f.kind \in {"dispatch", "entry"} THEN f.prevJit ELSE curJit
    /\ depth' = IF f.flavor = "tick" THEN depth - 1 ELSE depth

\* The effect of a frame's destructors.
PopScopes(f) ==
    /\ boundary' = IF f.owner THEN f.prevB ELSE boundary
    /\ curJit' = IF f.kind \in {"dispatch", "entry"} THEN f.prevJit ELSE curJit
    /\ depth' = IF f.flavor = "tick" THEN depth - 1 ELSE depth

Pop == stack' = SubSeq(stack, 1, Len(stack) - 1)

\* A normal return.  A C frame that FlCallClosure entered is followed by
\* FakeluaJitContextPop; it has no destructors.
Return ==
    /\ mode = "run" /\ stack # <<>>
    /\ Pop
    /\ IF Top.kind = "code"
       THEN curJit' = Top.prevJit /\ UNCHANGED <<boundary, depth>>
       ELSE PopScopes(Top)
    /\ UNCHANGED mode

\* JumpToJitErrorBoundary: everything above the owner of the boundary is gone, and the
\* owner throws.
Longjmp ==
    /\ stack' = SubSeq(stack, 1, boundary)
    /\ mode' = "throw"
    /\ UNCHANGED <<boundary, depth>>

\* FakeluaThrowError, or a failing FakeluaAlloc, called by generated code.
ThrowFromC ==
    /\ Running("code")
    /\ Top.jit # "INTERP"
    /\ IF boundary # 0
       THEN Longjmp /\ UNCHANGED curJit
       ELSE mode' = "throw" /\ UNCHANGED <<stack, boundary, curJit, depth>>

\* The interpreter or a native function throws.
ThrowFromCpp ==
    /\ Running("code") \/ Running("native")
    /\ Top.kind = "code" => Top.jit = "INTERP"
    /\ mode' = "throw"
    /\ UNCHANGED <<stack, boundary, curJit, depth>>

\* The exception reaches a frame of generated code: fine for GCC, fatal for TCC.
UnwindCode ==
    /\ mode = "throw" /\ stack # <<>> /\ Top.kind = "code"
    /\ IF Top.jit = "TCC"
       THEN mode' = "dead" /\ UNCHANGED stack
       ELSE Pop /\ UNCHANGED mode
    /\ UNCHANGED <<boundary, curJit, depth>>

\* Mutant: GuardJitEntry always rethrows.
GuardRethrows == TRUE

\* GuardJitEntry rethrows when no boundary is on the chain, and jumps otherwise.
GuardThrows == boundary = 0

\* The exception reaches GuardJitEntry.
UnwindEntry ==
    /\ mode = "throw" /\ stack # <<>> /\ Top.kind = "entry"
    /\ IF GuardThrows
       THEN Pop /\ PopScopes(Top) /\ UNCHANGED mode
       ELSE Longjmp /\ curJit' = Top.prevJit

\* The exception passes another C++ frame.  pcall catches it and runs on; so does
\* FlEvalLoadClosure, which then returns nil.
UnwindCpp ==
    /\ mode = "throw" /\ stack # <<>> /\ Top.kind \in {"dispatch", "native", "load"}
    /\ IF Top.flavor = "pcall"
       THEN mode' = "run" /\ UNCHANGED <<stack, boundary, curJit, depth>>
       ELSE /\ Pop
            /\ PopScopes(Top)
            /\ mode' = IF Top.kind = "load" THEN "run" ELSE "throw"

\* The exception reaches the host's own handler.
HostCatches ==
    /\ mode = "throw" /\ stack = <<>>
    /\ mode' = "run"
    /\ UNCHANGED <<stack, boundary, curJit, depth>>

CallsNext ==
    \/ \E e \in Engine : \/ HostCall(e)
                         \/ CallClosureFromC(e)
                         \/ CallClosureFromInterp(e)
                         \/ NativeDispatch(e)
    \/ \E fl \in NativeFlavor : CallNative(fl)
    \/ CallLuaByName
    \/ CallLoaded
    \/ Return
    \/ ThrowFromC
    \/ ThrowFromCpp
    \/ UnwindCode
    \/ UnwindEntry
    \/ UnwindCpp
    \/ HostCatches

CallsSpec == CallsInit /\ [][CallsNext]_callVars

-----------------------------------------------------------------------------

\* State's boundary is the one owned by the topmost owner on the stack, and every owner
\* remembers the owner below it: a longjmp never targets a frame that is gone
\* (jit_error_boundary.h:47-48).
BoundaryOnStack ==
    LET Owners(n) == {i \in 1..n : stack[i].owner}
        IsTop(b, n) == /\ b = 0 \/ b \in Owners(n)
                       /\ \A i \in Owners(n) : i <= b
    IN /\ IsTop(boundary, Len(stack))
       /\ \A i \in DOMAIN stack : stack[i].owner => IsTop(stack[i].prevB, i - 1)

\* No C++ exception ever reaches a TCC frame, which would end the process
\* (jit_error_boundary.h:21-27).
NoTerminate == mode # "dead"

\* A longjmp crosses generated C frames only: no destructor and no handler (pcall's,
\* among others) is skipped (jit_error_boundary.h:28-30).  The top frame is the one that jumps.
IsC(f) == f.kind = "code" /\ f.jit # "INTERP"
LongjmpCrossesOnlyC ==
    [][\A i \in (Len(stack') + 1)..(Len(stack) - 1) : IsC(stack[i])]_callVars

\* Whatever returned, threw or jumped before, a native function that runs sees the
\* engine of its caller in CurrentJit (state.h:190-195), and DispatchScope counts the
\* dispatches that run.
ContextExact ==
    /\ (mode = "run" /\ stack # <<>> /\ Top.kind = "native") =>
          curJit = stack[Len(stack) - 2].jit
    /\ depth = Cardinality({i \in DOMAIN stack : stack[i].flavor = "tick"})
    /\ stack = <<>> => curJit = "TCC"

\* What the scopes keep in State is exact, on whatever way out of a call.
DispatchExact == BoundaryOnStack /\ ContextExact
=============================================================================
