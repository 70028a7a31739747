------------------------------ MODULE Compiler ------------------------------
(***************************************************************************)
(* compile/compiler.cpp: a file goes through the preprocessor, the         *)
(* analyses, the type inference and the C generator; the C is loaded and   *)
(* main is called.  Three of the steps walk an unordered_map, of functions *)
(* or of table shapes, in an order that is not known: one order and its    *)
(* reverse are tried.                                                      *)
(***************************************************************************)
EXTENDS CRuntime

CONSTANT Programs   \* the files

VARIABLES file,     \* the source tree
          stage,    \* what has been done
          tree,     \* the resolved tree
          ar,       \* AnalysisResult
          ir,       \* InferResult
          unit,     \* GenResult
          store,    \* what the loaded code has in memory
          result
vars == <<file, stage, tree, ar, ir, unit, store, result>>

None == [t |-> "none"]
NoResult == [t |-> "none", v |-> <<>>]
Error == [t |-> "error", v |-> <<>>]
Rejected == [t |-> "rejected", v |-> <<>>]
NotDefined == [t |-> "undef", v |-> <<>>]
WrongShape == [t |-> "shape", v |-> <<>>]
Returned(v) == [t |-> "values", v |-> v]

WalkOrders(S) == {SomeOrder(S), Reverse(SomeOrder(S))}

Reject == stage' = "done" /\ result' = Rejected

Init ==
    /\ file \in Programs
    /\ stage = "parsed"
    /\ tree = <<>> /\ ar = None /\ ir = None /\ unit = None /\ store = None
    /\ result = NoResult

HasError(t) == \E n \in WalkBlock(t, <<>>) : n[2][1] = "error"

Process ==
    /\ stage = "parsed"
    /\ tree' = ResolveScopes(file)
    /\ IF HasError(tree') THEN Reject ELSE stage' = "resolved" /\ UNCHANGED result
    /\ UNCHANGED <<file, ar, ir, unit, store>>

Analyze ==
    /\ stage = "resolved"
    /\ IF ~Accepts(tree) THEN Reject /\ UNCHANGED ar
       ELSE /\ \E order \in WalkOrders({f.at : f \in NamedFuncs(tree, 0)}) : ar' = AnalyzeFunctionReturnCounts(tree, order)
            /\ stage' = "analyzed"
            /\ UNCHANGED result
    /\ UNCHANGED <<file, tree, ir, unit, store>>

Infer ==
    /\ stage = "analyzed"
    /\ \E types \in {InferTypes(tree, ar)} : \E order \in WalkOrders(DOMAIN types.shapes) :
           ir' = types @@ [metadata |-> ComputeSpecTypeMetadata(types.shapes, order)]
    /\ IF ir'.ok THEN stage' = "inferred" /\ UNCHANGED result ELSE Reject
    /\ UNCHANGED <<file, tree, ar, unit, store>>

GenerateC ==
    /\ stage = "inferred"
    /\ unit' = Generate(tree, ar, ir)
    /\ IF unit'.ok THEN stage' = "generated" /\ UNCHANGED result ELSE Reject
    /\ UNCHANGED <<file, tree, ar, ir, store>>

\* How a call ended.  What is not C is rejected by the C compiler.
Outcome(r) ==
    CASE r.s.bad = "form" -> Rejected
      [] r.s.bad = "undef" -> NotDefined
      [] r.s.bad = "shape" -> WrongShape
      [] r.s.bad = "" -> IF r.s.err THEN Error ELSE Returned(Expand(r.v))

\* The C compiler, then the init function.
LoadUnit ==
    /\ stage = "generated"
    /\ \E r \in {CallNamed(unit, InitFunction, Loaded(unit))} :
           /\ store' = [r.s EXCEPT !.init = FALSE]
           /\ IF Stopped(r.s) THEN stage' = "done" /\ result' = Outcome(r) ELSE stage' = "ready" /\ UNCHANGED result
    /\ UNCHANGED <<file, tree, ar, ir, unit>>

CallMain ==
    /\ stage = "ready"
    /\ result' = Outcome(CallNamed(unit, "main", store))
    /\ stage' = "done"
    /\ UNCHANGED <<file, tree, ar, ir, unit, store>>

Finished == stage = "done" /\ UNCHANGED vars

Next == Process \/ Analyze \/ Infer \/ GenerateC \/ LoadUnit \/ CallMain \/ Finished

Spec == Init /\ [][Next]_vars
=============================================================================
