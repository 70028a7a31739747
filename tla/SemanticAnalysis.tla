-------------------------- MODULE SemanticAnalysis --------------------------
(***************************************************************************)
(* compile/semantic_analysis.cpp: which files are rejected, and            *)
(* ReturnCountGraph, how many values each function of a file returns.  Its *)
(* walk collects, per function, the return statements with a known count   *)
(* and the returns that end in a call of another function; Solve           *)
(* propagates the counts along those calls, round after round, in the      *)
(* order of an unordered_map.                                              *)
(*                                                                         *)
(* Trees are those of Preprocessor after ResolveScopes.  A function is     *)
(* named by its place.                                                     *)
(***************************************************************************)
EXTENDS Integers, FiniteSets, Sequences, SequencesExt, Preprocessor

GetCalleeName(e) == IF e[2][1] = "var" THEN e[2][2] ELSE ""

Tainted == -2
Unknown == -1

(***************************************************************************)
(* The walk.  Function expressions are not entered.                        *)
(***************************************************************************)
RECURSIVE NamedFuncs(_, _)
NamedFuncs(block, level) ==
    UNION {LET s == block[i]
               inner == UNION {NamedFuncs(b, level) : b \in SubBlocks(s)}
           IN  IF s[1] \notin {"localfn", "function"} THEN inner
               ELSE {[name |-> IF s[1] = "function" THEN s[2] ELSE s[2].name, node |-> s[3],
                      at |-> s[3][2], file |-> level = 0, local |-> s[1] = "localfn"]}
                        \cup NamedFuncs(s[3][5], level + 1)
           : i \in DOMAIN block}

\* The lists that the return statements of a block return.
RECURSIVE CollectReturnsForBlock(_)
CollectReturnsForBlock(block) ==
    UNION {LET s == block[i]
           IN  IF s[1] = "return" THEN {s[2]} ELSE UNION {CollectReturnsForBlock(b) : b \in SubBlocks(s)}
           : i \in DOMAIN block}

FileCount(name, fns) == Cardinality({f \in fns : f.file /\ f.name = name})

\* The function that a call in function "at" surely reaches, as a set of at most one place.
ResolveCall(call, at, fns) ==
    LET name == GetCalleeName(call)
        def == IF name = "" THEN NoDef ELSE call[2][3]
        globals == {f \in fns : f.file /\ ~f.local /\ f.name = name}
    IN  IF name = "" \/ FileCount(name, fns) > 1 THEN {}
        ELSE IF def = NoDef THEN {f.at : f \in globals}
        ELSE IF ~def.lf \/ (def.fn = at /\ def.fn # <<>> /\ FileCount(name, fns) > 0) THEN {}
        ELSE {def.at}

\* What one return statement tells: an exact count, a call with values before it, or nothing.
NoteReturn(exps, at, fns) ==
    IF exps = <<>> THEN [t |-> "exact", n |-> 0, callee |-> <<>>]
    ELSE IF IsVarargExp(Last(exps)) THEN [t |-> "taint", n |-> 0, callee |-> <<>>]
    ELSE IF ~IsFunctionCallExp(Last(exps)) THEN [t |-> "exact", n |-> Len(exps), callee |-> <<>>]
    ELSE LET callee == ResolveCall(Last(exps), at, fns)
         IN  IF callee = {} THEN [t |-> "taint", n |-> 0, callee |-> <<>>]
             ELSE [t |-> "tail", n |-> Len(exps) - 1, callee |-> CHOOSE c \in callee : TRUE]

AddFunc(f, fns) == {NoteReturn(exps, f.at, fns) : exps \in CollectReturnsForBlock(f.node[5])}

MaxReturns(body) ==
    LET rets == CollectReturnsForBlock(body)
        Dynamic(es) == es # <<>> /\ (IsVarargExp(Last(es)) \/ IsFunctionCallExp(Last(es)))
        counts == {Len(es) : es \in rets}
    IN  IF \E es \in rets : Dynamic(es) THEN -1
        ELSE IF rets = {} THEN 0 ELSE CHOOSE n \in counts : \A m \in counts : m <= n

(***************************************************************************)
(* Solve.                                                                  *)
(***************************************************************************)
StartEffective(notes) ==
    LET exact == {x.n : x \in {y \in notes : y.t = "exact"}}
    IN  IF (\E x \in notes : x.t = "taint") \/ Cardinality(exact) > 1 THEN Tainted
        ELSE IF exact # {} THEN CHOOSE n \in exact : TRUE
        ELSE IF \E x \in notes : x.t = "tail" THEN Unknown ELSE 0

\* One function's turn: the calls it ends in, against its count so far.
MergeTails(cur, tails, eff) ==
    LET totals == {x.n + eff[x.callee] : x \in {y \in tails : eff[y.callee] >= 0}}
    IN  IF cur = Tainted \/ \E x \in tails : eff[x.callee] = Tainted THEN Tainted
        ELSE IF totals = {} THEN cur
        ELSE IF Cardinality(totals \cup (IF cur = Unknown THEN {} ELSE {cur})) > 1 THEN Tainted
        ELSE CHOOSE n \in totals : TRUE

SolveRound(eff, tails, order) ==
    InTurn(LAMBDA e, i : [e EXCEPT ![order[i]] = MergeTails(e[order[i]], tails[order[i]], e)], eff, Len(order))

RECURSIVE SolveFrom(_, _, _, _)
SolveFrom(eff, tails, order, rounds) ==
    LET next == SolveRound(eff, tails, order)
    IN  IF rounds = 0 \/ next = eff THEN next ELSE SolveFrom(next, tails, order, rounds - 1)

(***************************************************************************)
(* The analysis of a file whose functions the map holds in this order.     *)
(***************************************************************************)
AnalyzeFunctionReturnCounts(tree, order) ==
    LET fns == NamedFuncs(tree, 0)
        Info(at) == AddFunc(CHOOSE f \in fns : f.at = at, fns)
        places == {f.at : f \in fns}
        notes == [at \in places |-> Info(at)]
        tails == [at \in places |-> {x \in notes[at] : x.t = "tail"}]
        eff == SolveFrom([at \in places |-> StartEffective(notes[at])], tails, order, Len(order))
        named == {f.name : f \in {g \in fns : g.file}}
        Node(x) == (CHOOSE f \in fns : f.file /\ f.name = x).node
    IN  [fns |-> fns,
         effective |-> eff,
         maxReturns |-> [x \in named |-> MaxReturns(Node(x)[5])]]

\* return_call_effective_returns: the values of a call that is the whole of a return.
CallReturns(call, at, ar) ==
    LET callee == ResolveCall(call, at, ar.fns)
    IN  IF callee = {} THEN -1
        ELSE LET n == ar.effective[CHOOSE c \in callee : TRUE] IN IF n < 0 THEN -1 ELSE n

(***************************************************************************)
(* Jumps.  visible: the labels of the enclosing blocks; depth: how many    *)
(* loops of the function are around.  Function expressions are not looked  *)
(* into.                                                                   *)
(***************************************************************************)
RECURSIVE CollectGotosInStmt(_)
CollectGotosInStmt(s) ==
    IF s[1] = "goto" THEN {s[2]}
    ELSE UNION {UNION {CollectGotosInStmt(b[i]) : i \in DOMAIN b} : b \in SubBlocks(s)}

IsLoop(s) == s[1] \in {"while", "repeat", "for", "forin"}

RECURSIVE ValidateGotoInBlock(_, _, _)
ValidateGotoInBlock(block, visible, depth) ==
    LET LabelAt(i) == block[i][1] = "label"
        mine == {block[i][2] : i \in {j \in DOMAIN block : LabelAt(j)}}
        seen == visible \cup mine
        locals == {i \in DOMAIN block : block[i][1] \in {"local", "localfn"}}
        Position(l) == CHOOSE i \in DOMAIN block : LabelAt(i) /\ block[i][2] = l
        SkipsLocals(i, l) == l \in mine /\ \E p \in locals : i < p /\ p <= Position(l)
        StmtOk(i) ==
            CASE block[i][1] = "goto" -> block[i][2] \in seen /\ ~SkipsLocals(i, block[i][2])
              [] block[i][1] = "continue" -> depth > 0 /\ \A p \in locals : p < i
              [] OTHER -> \A l \in CollectGotosInStmt(block[i]) : ~SkipsLocals(i, l)
        InnerOk(s) ==
            IF s[1] \in {"function", "localfn"} THEN ValidateGotoInBlock(s[3][5], {}, 0)
            ELSE \A b \in SubBlocks(s) : ValidateGotoInBlock(b, seen, IF IsLoop(s) THEN depth + 1 ELSE depth)
    IN  /\ \A i, j \in DOMAIN block : LabelAt(i) /\ LabelAt(j) /\ block[i][2] = block[j][2] => i = j
        /\ \A i \in DOMAIN block : StmtOk(i) /\ InnerOk(block[i])

(***************************************************************************)
(* Names.  A name that is called may be a native function; any other must  *)
(* be declared before it is used, or at file level.                        *)
(***************************************************************************)
DeclaredNames(s) ==
    CASE s[1] = "local" -> {s[2][i].name : i \in DOMAIN s[2]}
      [] s[1] = "localfn" -> {s[2].name}
      [] OTHER -> {}
LoopNames(s) ==
    CASE s[1] = "for" -> {s[2].name}
      [] s[1] = "forin" -> {s[2][i].name : i \in DOMAIN s[2]}
      [] OTHER -> {}
DeclaredIn(block) == UNION {DeclaredNames(block[i]) : i \in DOMAIN block}
AnalyzeGlobalConstNames(tree) == UNION {IF tree[i][1] = "local" THEN DeclaredNames(tree[i]) ELSE {} : i \in DOMAIN tree}
FileLevelNames(tree) == DeclaredIn(tree) \cup {tree[i][2] : i \in {j \in DOMAIN tree : tree[j][1] = "function"}}

\* f and a.b.f where they are called.
RECURSIVE IsExemptVar(_)
IsExemptVar(e) == e[1] = "var" \/ (e[1] = "index" /\ e[3][1] = "str" /\ IsExemptVar(e[2]))

RECURSIVE CheckExpScopes(_, _), CheckVarScopes(_, _)
CheckFuncScopes(f, names) == CheckVarScopes(f[5], names \cup {f[3][i].name : i \in DOMAIN f[3]})
CheckExpScopes(e, names) ==
    LET exempt == IF e[1] = "call" /\ IsExemptVar(e[2]) THEN {2} ELSE {}
    IN  /\ e[1] = "var" => e[2] \in names
        /\ e[1] = "func" => CheckFuncScopes(e, names)
        /\ \A i \in SubExps(e) \ exempt : CheckExpScopes(e[i], names)
        /\ \A i \in SubLists(e) : \A j \in DOMAIN e[i] : CheckExpScopes(e[i][j], names)

\* The condition of a repeat sees the locals of the body.
CheckStmtScopes(s, names) ==
    LET outer == names \cup (IF s[1] = "repeat" THEN DeclaredIn(s[2]) ELSE {})
    IN  /\ CheckExpScopes(s, outer)
        /\ s[1] = "assign" => CheckExpScopes(s[2][1], names)
        /\ \A b \in SubBlocks(s) : CheckVarScopes(b, names \cup LoopNames(s))
        /\ s[1] \in {"function", "localfn"} => CheckFuncScopes(s[3], names \cup DeclaredNames(s))

CheckVarScopes(block, names) ==
    \A i \in DOMAIN block : CheckStmtScopes(block[i], names \cup DeclaredIn(SubSeq(block, 1, i - 1)))

(***************************************************************************)
(* The other checks, on every block and every function.                    *)
(***************************************************************************)
CheckParList(f, consts) ==
    LET names == [i \in DOMAIN f[3] |-> f[3][i].name]
    IN  Cardinality(Range(names)) = Len(names) /\ Range(names) \cap consts = {}

RECURSIVE IsZeroLiteral(_)
IsZeroLiteral(e) == e \in {<<"num", 0>>, <<"flt", 0>>} \/ (e[1] = "un" /\ e[2] = "UNM" /\ IsZeroLiteral(e[3]))

CheckBlockReturnPosition(block) == \A i \in 1..(Len(block) - 1) : block[i][1] # "return"

RECURSIVE CheckExp(_, _), CheckBlock(_, _, _)
CheckFunc(f, consts) == CheckParList(f, consts) /\ CheckBlock(f[5], consts, FALSE)
CheckExp(e, consts) ==
    /\ e[1] = "func" => CheckFunc(e, consts)
    /\ \A i \in SubExps(e) : CheckExp(e[i], consts)
    /\ \A i \in SubLists(e) : \A j \in DOMAIN e[i] : CheckExp(e[i][j], consts)
CheckNode(s, consts, top) ==
    /\ CheckExp(s, consts)
    /\ s[1] = "local" /\ ~top => DeclaredNames(s) \cap consts = {}
    /\ s[1] = "function" => top
    /\ s[1] = "for" => ~IsZeroLiteral(s[5])
    /\ s[1] \in {"function", "localfn"} => CheckFunc(s[3], consts)
    /\ \A b \in SubBlocks(s) : CheckBlock(b, consts, FALSE)
CheckBlock(block, consts, top) ==
    CheckBlockReturnPosition(block) /\ \A i \in DOMAIN block : CheckNode(block[i], consts, top)

\* A file-level local has a value for every name, or a last call that gives the rest.
CheckFileLocal(s) ==
    /\ s[3] # <<>>
    /\ Len(s[2]) = Len(s[3]) \/ (IsFunctionCallExp(Last(s[3])) /\ Len(s[2]) > Len(s[3]))

UniqueConsts(tree) ==
    \A i, j \in DOMAIN tree : /\ tree[i][1] = "local" => Cardinality(DeclaredNames(tree[i])) = Len(tree[i][2])
                              /\ i # j /\ tree[i][1] = "local" /\ tree[j][1] = "local"
                                     => DeclaredNames(tree[i]) \cap DeclaredNames(tree[j]) = {}

CheckUnsupportedSyntax(tree) ==
    /\ \A i \in DOMAIN tree : tree[i][1] = "local" => CheckFileLocal(tree[i])
    /\ CheckBlock(tree, AnalyzeGlobalConstNames(tree), TRUE)
    /\ ValidateGotoInBlock(tree, {}, 0)

CheckUndeclaredVars(tree) == CheckVarScopes(tree, FileLevelNames(tree))

Accepts(tree) == UniqueConsts(tree) /\ CheckUnsupportedSyntax(tree) /\ CheckUndeclaredVars(tree)
=============================================================================
