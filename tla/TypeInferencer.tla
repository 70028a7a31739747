--------------------------- MODULE TypeInferencer ---------------------------
(***************************************************************************)
(* compile/type_inferencer.cpp: which expressions of a file are integers,  *)
(* which are floats, and which parameters of its functions are worth a     *)
(* specialised version per number type ("math parameters").                *)
(*                                                                         *)
(* A node of the tree is named by its place, as in Preprocessor: child i   *)
(* of the node at p is at p \o <<i>>, element j of its list i at           *)
(* p \o <<i, j>>, statement i of the block of p at p \o <<100 + i>>.       *)
(* types is EvalTypeSnapshot, def is var_define_nodes (the node of a       *)
(* variable to the node of its initial value), env is TypeEnvironment.     *)
(***************************************************************************)
EXTENDS Naming, SemanticAnalysis, VmOps, TLC

CONSTANTS
    kMaxSpecIterations,          \* rounds of a fixed point computation
    kMaxMathSpecializedParams    \* math parameters that a function may have

T_UNKNOWN == "T_UNKNOWN"
T_INT == "T_INT"
T_FLOAT == "T_FLOAT"
T_DYNAMIC == "T_DYNAMIC"
IsNumericInferredType(ty) == ty \in {T_INT, T_FLOAT}

NoNode == <<0>>

(***************************************************************************)
(* TypeEnvironment: scopes, each from names to a type and an initial node. *)
(***************************************************************************)
EmptyScope == [x \in {} |-> [type |-> T_DYNAMIC, init |-> NoNode]]

EnterScope(st) == [st EXCEPT !.env = Append(@, EmptyScope)]
ExitScope(st) == [st EXCEPT !.env = IF Len(@) > 1 THEN Front(@) ELSE @]

Define(st, x, ty, init) ==
    [st EXCEPT !.env[Len(st.env)] = (x :> [type |-> ty, init |-> init]) @@ @]

Has(st, x) == \E i \in DOMAIN st.env : x \in DOMAIN st.env[i]
ScopeOf(st, x) == CHOOSE i \in DOMAIN st.env :
                      x \in DOMAIN st.env[i] /\ \A j \in DOMAIN st.env : j > i => x \notin DOMAIN st.env[j]

Lookup(st, x) == IF Has(st, x) THEN st.env[ScopeOf(st, x)][x].type ELSE T_DYNAMIC
LookupInitNode(st, x) == IF Has(st, x) THEN st.env[ScopeOf(st, x)][x].init ELSE NoNode

MergeType(old, new) ==
    IF T_DYNAMIC \in {old, new} THEN T_DYNAMIC
    ELSE IF old = new THEN old
    ELSE IF {old, new} = {T_INT, T_FLOAT} THEN T_FLOAT ELSE T_DYNAMIC

RecordType(st, at, ty) == [st EXCEPT !.types = (at :> ty) @@ @]

\* An assignment widens the variable; one that becomes dynamic takes its initial node along.
Update(st, x, ty) ==
    IF ~Has(st, x) THEN st
    ELSE LET i == ScopeOf(st, x)
             old == st.env[i][x]
             merged == MergeType(old.type, ty)
             next == [st EXCEPT !.env[i][x].type = merged]
         IN  IF merged = T_DYNAMIC /\ old.type # T_DYNAMIC /\ old.init # NoNode
             THEN RecordType(next, old.init, T_DYNAMIC) ELSE next

IsAtFileScope(st) == Len(st.env) <= 2

(***************************************************************************)
(* Contexts.  A trial run knows the math parameters and return types found *)
(* so far and pins the parameters it assumes a number type for.            *)
(***************************************************************************)
NoNames == [x \in {} |-> <<>>]
MainContext == [trial |-> FALSE, positions |-> NoNames, ret |-> NoNames, pinned |-> {}, skip |-> FALSE]

Bit(mask, i) == (mask \div 2 ^ (i - 1)) % 2

\* The specialised version that argument types select, or -1.
BitmaskOf(positions, argType) ==
    LET k == Len(positions)
        BitOf(i) == IF argType[positions[i]] = T_FLOAT THEN 2 ^ (i - 1) ELSE 0
    IN  IF \A i \in 1..k : positions[i] \in DOMAIN argType /\ IsNumericInferredType(argType[positions[i]])
        THEN FoldLeftDomain(LAMBDA acc, i : acc + BitOf(i), 0, positions) ELSE -1

ResolveCallReturnType(e, at, st, cx) ==
    IF ~cx.trial \/ e[1] # "call" \/ GetCalleeName(e) \notin DOMAIN cx.ret THEN T_DYNAMIC
    ELSE LET mask == BitmaskOf(cx.positions[e[2][2]], [j \in DOMAIN e[3] |-> st.types[at \o <<3, j>>]])
         IN  IF mask = -1 THEN T_DYNAMIC ELSE cx.ret[e[2][2]][mask + 1]

BinopType(op, l, r) ==
    IF T_DYNAMIC \in {l, r} THEN T_DYNAMIC
    ELSE CASE op \in {"ADD", "SUB", "MUL", "IDIV", "MOD"} -> IF l = T_INT /\ r = T_INT THEN T_INT ELSE T_FLOAT
           [] op \in {"DIV", "POW"} -> T_FLOAT
           [] op \in {"BAND", "BOR", "BXOR", "SHL", "SHR"} -> T_INT
           [] op = "and" -> r
           [] OTHER -> T_DYNAMIC

UnopType(op, ty) ==
    CASE op = "UNM" /\ IsNumericInferredType(ty) -> ty
      [] op = "BNOT" /\ IsNumericInferredType(ty) -> T_INT
      [] op = "LEN" -> T_INT
      [] OTHER -> T_DYNAMIC

\* "c and v1 or v2" with two numbers is a number; otherwise "or" has the type of its left side.
OrType(left, leftType, thenType, r) ==
    IF left[1] = "and" /\ IsNumericInferredType(thenType) /\ IsNumericInferredType(r)
    THEN IF thenType = r THEN r ELSE T_FLOAT
    ELSE IF IsNumericInferredType(leftType) THEN leftType ELSE T_DYNAMIC

(***************************************************************************)
(* InferNode, for expressions and for statements.                          *)
(***************************************************************************)
\* The recursion goes through InferExp alone: a block is the node <<"body", block>>.
RECURSIVE InferExp(_, _, _, _), InferStmts(_, _, _, _)
InferBlock(block, at, st, cx) == InferExp(<<"body", block>>, at, st, cx)

InferList(list, at, st, cx) == InTurn(LAMBDA s, j : InferExp(list[j], at \o <<j>>, s, cx), st, Len(list))

InferFuncBody(f, st, cx) ==
    LET inner == FoldLeft(LAMBDA s, d : Define(s, d.name, T_DYNAMIC, NoNode), EnterScope(st), f[3])
    IN  ExitScope(InferBlock(f[5], f[2], inner, cx))

InferVar(x, at, st) ==
    LET init == LookupInitNode(st, x)
        next == RecordType(st, at, Lookup(st, x))
    IN  IF init = NoNode THEN next ELSE [next EXCEPT !.def = (at :> init) @@ @]

InferExp(e, at, st, cx) ==
    LET Sub(i, s) == InferExp(e[i], at \o <<i>>, s, cx)
        TypeAt(s, i) == s.types[at \o <<i>>]
        Dynamic(s) == RecordType(s, at, T_DYNAMIC)
    IN  CASE e[1] = "num" -> RecordType(st, at, T_INT)
          [] e[1] = "flt" -> RecordType(st, at, T_FLOAT)
          [] e[1] = "var" -> InferVar(e[2], at, st)
          [] e[1] = "paren" -> LET s == Sub(2, st) IN RecordType(s, at, TypeAt(s, 2))
          [] e[1] = "bin" ->
               LET s == Sub(4, Sub(3, st)) IN RecordType(s, at, BinopType(e[2], TypeAt(s, 3), TypeAt(s, 4)))
          [] e[1] = "and" ->
               LET s == Sub(3, Sub(2, st)) IN RecordType(s, at, BinopType("and", TypeAt(s, 2), TypeAt(s, 3)))
          [] e[1] = "or" ->
               LET s == Sub(3, Sub(2, st))
                   then == IF e[2][1] = "and" THEN s.types[at \o <<2, 3>>] ELSE T_DYNAMIC
               IN  RecordType(s, at, OrType(e[2], TypeAt(s, 2), then, TypeAt(s, 3)))
          [] e[1] = "un" -> LET s == Sub(3, st) IN RecordType(s, at, UnopType(e[2], TypeAt(s, 3)))
          [] e[1] = "index" -> Dynamic(Sub(3, Sub(2, st)))
          [] e[1] = "call" ->
               LET s == InferList(e[3], at \o <<3>>, Sub(2, st), cx)
               IN  RecordType(s, at, ResolveCallReturnType(e, at, s, cx))
          [] e[1] = "method" -> Dynamic(InferList(e[4], at \o <<4>>, Sub(2, st), cx))
          [] e[1] = "func" -> Dynamic(InferFuncBody(e, st, cx))
          [] e[1] = "table" ->
               Dynamic(InTurn(
                   LAMBDA s, j : LET f == e[2][j]
                                     p == at \o <<2, j>>
                                 IN  IF f[1] = "item" THEN InferExp(f[2], p \o <<2>>, s, cx)
                                     ELSE InferExp(f[3], p \o <<3>>, InferExp(f[2], p \o <<2>>, s, cx), cx),
                   st, Len(e[2])))
          [] e[1] = "body" -> InferStmts(e[2], at, st, cx)
          [] OTHER -> Dynamic(st)

\* A file-level name is a constant: its type is remembered, and so is where it starts.
NoteFileLevel(st, x, ty, init) ==
    LET typed == IF IsNumericInferredType(ty) THEN [st EXCEPT !.fileTypes = (x :> ty) @@ @] ELSE st
    IN  IF init = NoNode THEN typed ELSE [typed EXCEPT !.constInits = @ \cup {init}]

InferLocalVar(s, at, st, cx) ==
    LET One(acc, i) ==
            LET some == i <= Len(s[3])
                init == IF some THEN at \o <<3, i>> ELSE NoNode
                hides == IF Has(acc, s[2][i].name) THEN [acc EXCEPT !.shadowed = @ \cup {<<at, s[2][i].name>>}] ELSE acc
                next == IF some THEN InferExp(s[3][i], init, hides, cx) ELSE hides
                ty == IF some THEN next.types[init] ELSE T_DYNAMIC
                defined == Define(next, s[2][i].name, ty, init)
            IN  IF cx.trial \/ ~IsAtFileScope(st) THEN defined
                ELSE NoteFileLevel(defined, s[2][i].name, ty, init)
        named == InTurn(One, st, Len(s[2]))
        extra == SubSeq(s[3], Len(s[2]) + 1, Len(s[3]))
    IN  InTurn(LAMBDA acc, j : InferExp(extra[j], at \o <<3, Len(s[2]) + j>>, acc, cx), named, Len(extra))

\* Mutant: an assignment does not widen the variable that it changes.
InferAssignKeeping(s, at, st, cx) == InferExp(s[3][1], at \o <<3, 1>>, st, cx)

InferAssign(s, at, st, cx) ==
    LET x == s[2][1][2]
        rhs == InferExp(s[3][1], at \o <<3, 1>>, st, cx)
    IN  Given(IF x \in cx.pinned THEN rhs ELSE Update(rhs, x, rhs.types[at \o <<3, 1>>]), LAMBDA next :
        LET init == LookupInitNode(next, x)
            bound == IF init = NoNode THEN next ELSE [next EXCEPT !.def = (at \o <<2>> :> init) @@ @]
            reassigns == init \in st.constInits \/ (~Has(st, x) /\ x \in st.funcNames)
        IN  IF reassigns /\ ~st.inInit THEN [bound EXCEPT !.err = TRUE] ELSE bound)

LoopVarType(begin, end, step) ==
    IF begin = T_INT /\ step = T_INT /\ IsNumericInferredType(end) THEN T_INT
    ELSE IF {begin, end, step} \subseteq {T_INT, T_FLOAT} THEN T_FLOAT ELSE T_DYNAMIC

InferForLoop(s, at, st, cx) ==
    LET bounds == InferExp(s[5], at \o <<5>>, InferExp(s[4], at \o <<4>>, InferExp(s[3], at \o <<3>>, st, cx), cx), cx)
        ty == LoopVarType(bounds.types[at \o <<3>>], bounds.types[at \o <<4>>], bounds.types[at \o <<5>>])
        body == InferBlock(s[6], at \o <<6>>, Define(EnterScope(bounds), s[2].name, ty, at), cx)
    IN  RecordType(ExitScope(body), at, Lookup(body, s[2].name))

InferScoped(block, at, st, cx) == ExitScope(InferBlock(block, at, EnterScope(st), cx))

InferIf(s, at, st, cx) ==
    LET branch(acc, i) == InferScoped(s[3][i], at \o <<3, i>>, InferExp(s[2][i], at \o <<2, i>>, acc, cx), cx)
    IN  InferScoped(s[4], at \o <<4>>, InTurn(branch, st, Len(s[3])), cx)

InferFunction(name, f, st, cx) ==
    LET file == ~cx.trial /\ IsAtFileScope(st)
        known == IF file THEN [st EXCEPT !.funcNames = @ \cup {name}] ELSE st
        body == InferFuncBody(f, [known EXCEPT !.inInit = @ \/ name = InitFunction], cx)
    IN  [body EXCEPT !.inInit = st.inInit]

InferNode(s, at, st, cx) ==
    CASE s[1] = "local" -> InferLocalVar(s, at, st, cx)
      [] s[1] = "assign" -> InferAssign(s, at, st, cx)
      [] s[1] = "settab" -> InTurn(LAMBDA acc, i : InferExp(s[i + 1], at \o <<i + 1>>, acc, cx), st, 3)
      [] s[1] = "callst" -> InferExp(s[2], at \o <<2>>, st, cx)
      [] s[1] = "return" -> InferList(s[2], at \o <<2>>, st, cx)
      [] s[1] = "block" -> InferScoped(s[2], at, st, cx)
      [] s[1] = "while" -> InferScoped(s[3], at, InferExp(s[2], at \o <<2>>, st, cx), cx)
      [] s[1] = "repeat" ->
           ExitScope(InferExp(s[3], at \o <<3>>, InferBlock(s[2], at, EnterScope(st), cx), cx))
      [] s[1] = "if" -> InferIf(s, at, st, cx)
      [] s[1] = "for" -> InferForLoop(s, at, st, cx)
      [] s[1] = "forin" ->
           LET inner == FoldLeft(LAMBDA acc, d : Define(acc, d.name, T_DYNAMIC, NoNode),
                                 EnterScope(InferList(s[3], at \o <<3>>, st, cx)), s[2])
           IN  ExitScope(InferBlock(s[4], at \o <<4>>, inner, cx))
      [] s[1] = "localfn" -> InferFunction(s[2].name, s[3], st, cx)
      [] s[1] = "function" -> InferFunction(s[2], s[3], st, cx)
      [] OTHER -> st

\* At the end of a block the initial value of each local gets the type the local ended with.
PostProcess(block, at, st) ==
    LET inits == UNION {{<<i, j>> : j \in DOMAIN block[i][2] \cap DOMAIN block[i][3]}
                        : i \in {k \in DOMAIN block : block[k][1] = "local"}}
        place(n) == at \o <<100 + n[1], 3, n[2]>>
    IN  [st EXCEPT !.types = [p \in {place(n) : n \in inits} |->
                                  LET n == CHOOSE m \in inits : place(m) = p
                                  IN  Lookup(st, block[n[1]][2][n[2]].name)] @@ @]

InferStmts(block, at, st, cx) ==
    Given(InTurn(LAMBDA acc, i : InferNode(block[i], at \o <<100 + i>>, acc, cx), st, Len(block)), LAMBDA done :
    IF cx.skip THEN done ELSE PostProcess(block, at, done))

StartState(fileTypes) ==
    [types |-> [p \in {} |-> T_UNKNOWN], def |-> [p \in {} |-> NoNode], env |-> <<EmptyScope>>,
     fileTypes |-> fileTypes, shadowed |-> {}, constInits |-> {}, funcNames |-> {}, inInit |-> FALSE, err |-> FALSE]

\* The first pass over the file, and the file-level names with their types.
InferFile(tree) == InferBlock(tree, <<>>, EnterScope(StartState([x \in {} |-> T_UNKNOWN])), MainContext)

CollectGlobalConstVars(tree, types) ==
    LET vars == UNION {{<<i, j>> : j \in DOMAIN tree[i][2]} : i \in {k \in DOMAIN tree : tree[k][1] = "local"}}
        Init(v) == <<100 + v[1], 3, v[2]>>
        Last1(x) == CHOOSE v \in vars : /\ tree[v[1]][2][v[2]].name = x
                                        /\ \A w \in vars : tree[w[1]][2][w[2]].name = x => w[1] <= v[1]
    IN  [x \in {tree[v[1]][2][v[2]].name : v \in vars} |->
            IF Init(Last1(x)) \in DOMAIN types THEN types[Init(Last1(x))] ELSE T_DYNAMIC]

(***************************************************************************)
(* Trial runs over the body of one function.                               *)
(***************************************************************************)
RunTrialInference(f, assumed, positions, ret, skip, fileTypes) ==
    LET cx == [trial |-> TRUE, positions |-> positions, ret |-> ret, skip |-> skip,
               pinned |-> {x \in DOMAIN assumed : IsNumericInferredType(assumed[x])}]
        file == [StartState(fileTypes) EXCEPT !.env = <<[x \in DOMAIN fileTypes |-> [type |-> fileTypes[x], init |-> NoNode]]>>]
        st == FoldLeft(LAMBDA s, d : Define(s, d.name, assumed[d.name], NoNode), file, f[3])
    IN  InferBlock(f[5], f[2], st, cx).types

MakeAssumedParamTypes(f, special, specialType, default) ==
    [x \in {f[3][i].name : i \in DOMAIN f[3]} |-> IF x = special THEN specialType ELSE default]

MakeSpecializedParamTypes(f, indices, mask) ==
    [x \in {f[3][i].name : i \in DOMAIN f[3]} |->
        LET math == {i \in DOMAIN indices : f[3][indices[i]].name = x}
        IN  IF math = {} THEN T_DYNAMIC
            ELSE IF Bit(mask, CHOOSE i \in math : \A j \in math : j <= i) = 1 THEN T_FLOAT ELSE T_INT]

\* The nodes of a block, with their places; nested functions are walked too.
RECURSIVE WalkExp(_, _), WalkBlock(_, _)
WalkExp(e, at) ==
    {<<at, e>>}
        \cup UNION {WalkExp(e[i], at \o <<i>>) : i \in SubExps(e)}
        \cup UNION {UNION {WalkExp(e[i][j], at \o <<i, j>>) : j \in DOMAIN e[i]} : i \in SubLists(e)}
        \cup (IF e[1] = "func" THEN WalkBlock(e[5], e[2]) ELSE {})
WalkStmt(s, at) ==
    WalkExp(s, at)
        \cup (CASE s[1] \in {"block", "repeat"} -> WalkBlock(s[2], at)
                [] s[1] = "while" -> WalkBlock(s[3], at)
                [] s[1] = "if" -> UNION {WalkBlock(s[3][i], at \o <<3, i>>) : i \in DOMAIN s[3]}
                                      \cup WalkBlock(s[4], at \o <<4>>)
                [] s[1] = "for" -> WalkBlock(s[6], at \o <<6>>)
                [] s[1] = "forin" -> WalkBlock(s[4], at \o <<4>>)
                [] s[1] \in {"localfn", "function"} -> WalkBlock(s[3][5], s[3][2])
                [] OTHER -> {})
WalkBlock(block, at) == UNION {WalkStmt(block[i], at \o <<100 + i>>) : i \in DOMAIN block}

TypeIn(types, p) == IF p \in DOMAIN types THEN types[p] ELSE T_UNKNOWN

IsArithmeticExpr(e) ==
    \/ e[1] = "bin" /\ e[2] \in {"ADD", "SUB", "MUL", "DIV", "IDIV", "POW", "MOD", "BAND", "BXOR", "BOR", "SHL", "SHR"}
    \/ e[1] = "un" /\ e[2] \in {"UNM", "BNOT"}
IsNativeComparisonExpr(e) == e[1] = "bin" /\ e[2] \in {"LT", "LE", "GT", "GE"}

CheckNodeChange(at, typed, compare, improvement) ==
    /\ IsNumericInferredType(TypeIn(typed, at))
    /\ IF improvement THEN TypeIn(compare, at) = T_DYNAMIC ELSE TypeIn(compare, at) # TypeIn(typed, at)

CheckComparisonNodeChange(at, typed, compare, improvement) ==
    LET sides == {at \o <<3>>, at \o <<4>>}
    IN  /\ \A p \in sides : IsNumericInferredType(TypeIn(typed, p))
        /\ \E p \in sides : CheckNodeChange(p, typed, compare, improvement)

CheckCallNodeChange(e, at, typed, compare, positions) ==
    /\ GetCalleeName(e) \in DOMAIN positions
    /\ \E i \in DOMAIN positions[e[2][2]] :
           /\ \A j \in 1..i : positions[e[2][2]][j] <= Len(e[3])
           /\ CheckNodeChange(at \o <<3, positions[e[2][2]][i]>>, typed, compare, FALSE)

CheckArithmeticTypeChanges(f, typed, compare, improvement, positions) ==
    \E n \in WalkBlock(f[5], f[2]) :
        LET at == n[1]
            e == n[2]
        IN  CASE IsArithmeticExpr(e) \/ e[1] = "for" -> CheckNodeChange(at, typed, compare, improvement)
              [] IsNativeComparisonExpr(e) -> CheckComparisonNodeChange(at, typed, compare, improvement)
              [] e[1] = "call" -> CheckCallNodeChange(e, at, typed, compare, positions)
              [] OTHER -> FALSE

(***************************************************************************)
(* Math parameters, from the differences between trial runs.               *)
(***************************************************************************)
\* Only one value comes back from a specialised version.
RECURSIVE IsEligibleForMathSpec(_, _, _)
IsEligibleForMathSpec(block, at, ar) ==
    \A i \in DOMAIN block :
        LET s == block[i]
            only == s[2][1]
        IN  IF s[1] # "return" THEN \A b \in SubBlocks(s) : IsEligibleForMathSpec(b, at, ar)
            ELSE s[2] = <<>> \/ (/\ Len(s[2]) = 1
                                 /\ ~IsVarargExp(only)
                                 /\ IsFunctionCallExp(only) => CallReturns(only, at, ar) = 1)

\* What a trial run finds if parameter "special" (none if it is "") is dynamic and the others have type default.
Trial(f, special, default, fileTypes) ==
    RunTrialInference(f, MakeAssumedParamTypes(f, special, T_DYNAMIC, default), NoNames, NoNames, TRUE, fileTypes)

FindMathParamIndices(f, positions, fileTypes) ==
    Given(Trial(f, "", T_INT, fileTypes), LAMBDA allInt :
    IF ~CheckArithmeticTypeChanges(f, allInt, Trial(f, "", T_DYNAMIC, fileTypes), TRUE, positions) THEN <<>>
    ELSE SelectSeq([i \in DOMAIN f[3] |-> i],
                   LAMBDA i : CheckArithmeticTypeChanges(f, allInt, Trial(f, f[3][i].name, T_INT, fileTypes), FALSE, positions)))

\* The file's functions with parameters, in the order of the file.
CollectFunctionSpecInfos(tree) ==
    LET fns == SelectSeq(tree, LAMBDA s : s[1] \in {"function", "localfn"} /\ s[3][3] # <<>>)
    IN  [i \in DOMAIN fns |-> [name |-> IF fns[i][1] = "function" THEN fns[i][2] ELSE fns[i][2].name, f |-> fns[i][3]]]

MathPass(infos, positions, ar, fileTypes) ==
    InTurn(LAMBDA acc, i :
               LET name == infos[i].name
                   f == infos[i].f
               IN  Given(FindMathParamIndices(f, acc, fileTypes), LAMBDA idx :
                   IF \/ name \in DOMAIN acc
                      \/ ~IsEligibleForMathSpec(f[5], f[2], ar)
                      \/ idx = <<>> \/ Len(idx) > kMaxMathSpecializedParams
                   THEN acc ELSE (name :> idx) @@ acc),
           positions, Len(infos))

RECURSIVE MathPasses(_, _, _, _, _)
MathPasses(infos, positions, ar, fileTypes, passes) ==
    Given(MathPass(infos, positions, ar, fileTypes), LAMBDA next :
    IF passes = 1 \/ next = positions THEN next ELSE MathPasses(infos, next, ar, fileTypes, passes - 1))

IdentifyMathParams(tree, ar, fileTypes) ==
    MathPasses(CollectFunctionSpecInfos(tree), NoNames, ar, fileTypes, kMaxSpecIterations)

(***************************************************************************)
(* The specialised versions: their snapshots and what they return.         *)
(***************************************************************************)
RECURSIVE AllPathsReturn(_)
AllPathsReturn(block) ==
    LET last == Last(block)
    IN  /\ block # <<>>
        /\ CASE last[1] = "return" -> TRUE
             [] last[1] = "block" -> AllPathsReturn(last[2])
             [] last[1] = "if" -> /\ \A i \in DOMAIN last[3] : AllPathsReturn(last[3][i])
                                  /\ AllPathsReturn(last[4])
             [] OTHER -> FALSE

\* The statements of a body that are not in a nested function, with their places.
OwnStmts(f) ==
    {n \in WalkBlock(f[5], f[2]) :
        ~\E m \in WalkBlock(f[5], f[2]) :
            /\ m[2][1] \in {"func", "localfn", "function"}
            /\ Len(m[1]) < Len(n[1]) /\ SubSeq(n[1], 1, Len(m[1])) = m[1]}

\* CollectReturnExps knows no "continue".
CollectFails(f) == \E n \in OwnStmts(f) : n[2][1] = "continue"

ReturnPlaces(f) == {IF n[2][2] = <<>> THEN NoNode ELSE n[1] \o <<2, 1>> : n \in {m \in OwnStmts(f) : m[2][1] = "return"}}

ComputeReturnTypeFromSnapshot(f, types) ==
    LET rets == {TypeIn(types, p) : p \in ReturnPlaces(f)}
    IN  IF ~AllPathsReturn(f[5]) \/ rets = {} \/ ~(rets \subseteq {T_INT, T_FLOAT}) THEN T_DYNAMIC
        ELSE IF T_FLOAT \in rets THEN T_FLOAT ELSE T_INT

FuncNamed(tree, x) ==
    LET s == tree[CHOOSE i \in DOMAIN tree :
                     \/ tree[i][1] = "function" /\ tree[i][2] = x
                     \/ tree[i][1] = "localfn" /\ tree[i][2].name = x]
    IN  s[3]

Masks(positions, x) == 1 .. 2 ^ Len(positions[x])

\* The types of the nodes of the versions of function x.
Snapshots(tree, positions, ret, fileTypes, x) ==
    LET f == FuncNamed(tree, x)
    IN  [m \in Masks(positions, x) |->
            RunTrialInference(f, MakeSpecializedParamTypes(f, positions[x], m - 1), positions, ret, FALSE, fileTypes)]

\* One round: every version of every function is inferred again with the return types so far.
ReturnRound(tree, positions, ret, fileTypes, order) ==
    LET Version(r, x, m) ==
            [r EXCEPT ![x][m] = ComputeReturnTypeFromSnapshot(FuncNamed(tree, x), Snapshots(tree, positions, r, fileTypes, x)[m])]
    IN  InTurn(LAMBDA acc, i : InTurn(LAMBDA r, m : Version(r, order[i], m), acc, 2 ^ Len(positions[order[i]])), ret, Len(order))

RECURSIVE ReturnRounds(_, _, _, _, _, _)
ReturnRounds(tree, positions, ret, fileTypes, order, rounds) ==
    Given(ReturnRound(tree, positions, ret, fileTypes, order), LAMBDA next :
    IF rounds = 1 \/ next = ret THEN next
    ELSE ReturnRounds(tree, positions, next, fileTypes, order, rounds - 1))

OptimisticReturns(positions) == [x \in DOMAIN positions |-> [m \in Masks(positions, x) |-> T_INT]]

InferSpecializationReturnTypes(tree, positions, fileTypes, order) ==
    ReturnRounds(tree, positions, OptimisticReturns(positions), fileTypes, order, kMaxSpecIterations)

\* The map of math functions is walked in some order.
RECURSIVE SomeOrder(_)
SomeOrder(S) == IF S = {} THEN <<>> ELSE LET x == CHOOSE x \in S : TRUE IN <<x>> \o SomeOrder(S \ {x})

(***************************************************************************)
(* Table shapes.  A constructor whose keys are all literals makes a table  *)
(* with a C struct, a field for each key; the type of the struct is the    *)
(* set of its keys.  A variable that is assigned several constructors      *)
(* gives them all the fields of all of them.                               *)
(***************************************************************************)
\* A number literal, perhaps negated.
RECURSIVE ClassifyConstNumberExp(_)
ClassifyConstNumberExp(e) ==
    e[1] \in {"num", "flt"} \/ (e[1] = "un" /\ e[2] = "UNM" /\ ClassifyConstNumberExp(e[3]))
RECURSIVE ConstNumber(_)
ConstNumber(e) == CASE e[1] = "num" -> Number(e[2]) [] e[1] = "flt" -> Float(e[2]) [] OTHER -> Unop("UNM", ConstNumber(e[3]))

ClassifyLiteralKey(e) == ClassifyConstNumberExp(e) \/ e[1] \in {"str", "true", "false"}
LiteralKey(e) == CASE ClassifyConstNumberExp(e) -> ConstNumber(e) [] e[1] = "str" -> Str(e[2]) [] OTHER -> Bool(e[1] = "true")

\* The keys of a constructor in its order, or none if one is not known; a key that is there twice is an error.
BuildCtorFields(e) ==
    LET fields == e[2]
        Item(i) == fields[i][1] = "item"
        Static(i) == IF Item(i) THEN ~IsFunctionCallExp(fields[i][2]) /\ ~IsVarargExp(fields[i][2])
                     ELSE ClassifyLiteralKey(fields[i][2])
        Key(i) == IF Item(i) THEN Number(Cardinality({j \in 1..i : Item(j)})) ELSE LiteralKey(fields[i][2])
        known == {i \in DOMAIN fields : \A j \in 1..i : Static(j)}
    IN  [keys |-> IF known = DOMAIN fields THEN [i \in known |-> Key(i)] ELSE <<>>,
         twice |-> \E i, j \in known : i # j /\ Key(i) = Key(j)]

\* The order in which a walk over the tree comes to places.
Before(p, q) ==
    \E i \in DOMAIN q : i <= Len(p) + 1 /\ SubSeq(q, 1, i - 1) = SubSeq(p, 1, i - 1) /\ (i > Len(p) \/ p[i] < q[i])

\* The constructors that variables are assigned, as <<place, frame, variable>>.  A frame begins with each function that has a
\* name and does not end with it; the names that the preprocessor makes up carry a number of their own.
PendingVarCtors(nodes) ==
    LET frame(p) == Cardinality({n \in nodes : n[2][1] \in {"localfn", "function"} /\ Before(n[1], p)})
        madeUp == Range(TmpName) \cup Range(BaseName) \cup Range(KeyName)
        Key(x, p) == <<x, IF x \in madeUp THEN p ELSE <<>>>>
        Found(s, p) ==
            CASE s[1] = "local" -> {<<p \o <<3, i>>, frame(p), Key(s[2][i].name, p)>> : i \in DOMAIN s[2] \cap DOMAIN s[3]}
              [] s[1] = "assign" /\ s[2][1][1] = "var" -> {<<p \o <<3, 1>>, frame(p), Key(s[2][1][2], p)>>}
              [] OTHER -> {}
    IN  UNION {Found(n[2], n[1]) : n \in nodes}

MergeFieldsInto(dst, src) == dst \o SelectSeq(src, LAMBDA k : k \notin Range(dst))

\* table_spec_infos: the fields of each constructor that is specialised, with those that it gives no value.
AnalyzeTableShapes(nodes) ==
    LET ctors == {n \in nodes : n[2][1] = "table" /\ BuildCtorFields(n[2]).keys # <<>>}
        own == [p \in {n[1] : n \in ctors} |-> BuildCtorFields((CHOOSE n \in ctors : n[1] = p)[2]).keys]
        pending == {w \in PendingVarCtors(nodes) : w[1] \in DOMAIN own}
        Union(frame, x) == FoldLeft(LAMBDA acc, w : MergeFieldsInto(acc, own[w[1]]), <<>>,
                                    SetToSortSeq({w \in pending : w[2] = frame /\ w[3] = x}, LAMBDA v, w : Before(v[1], w[1])))
        Fields(p) == IF \E w \in pending : w[1] = p THEN LET w == CHOOSE w \in pending : w[1] = p IN Union(w[2], w[3]) ELSE own[p]
    IN  [p \in DOMAIN own |-> Given(Fields(p), LAMBDA keys :
            [i \in DOMAIN keys |-> [key |-> keys[i], optional |-> keys[i] \notin Range(own[p])]])]

FieldKeys(layout) == [i \in DOMAIN layout |-> layout[i].key]
ComputeTableSpecName(layout) == Range(FieldKeys(layout))

\* spec_type_metadata: the order of the fields of a type is that of the first constructor of it that the map of shapes holds.
ComputeSpecTypeMetadata(shapes, order) ==
    [type \in {ComputeTableSpecName(shapes[p]) : p \in DOMAIN shapes} |->
        FieldKeys(shapes[order[CHOOSE i \in DOMAIN order :
            /\ ComputeTableSpecName(shapes[order[i]]) = type
            /\ \A j \in 1..(i - 1) : ComputeTableSpecName(shapes[order[j]]) # type]])]

(***************************************************************************)
(* The types of the variables at each point of the program: st.local and   *)
(* st.global, and st.ann for the variables that are indexed.  The body of  *)
(* a loop is gone through once; what is in a do block or in a nested       *)
(* function is not looked at.                                              *)
(***************************************************************************)
Dynamic_ == {}
LookupSpec(st, x) ==
    CASE x \in DOMAIN st.local -> st.local[x]
      [] x \notin DOMAIN st.local /\ x \in DOMAIN st.global -> st.global[x]
      [] OTHER -> Dynamic_

SpecFromRhs(e, at, st, shapes) ==
    CASE e[1] = "table" /\ at \in DOMAIN shapes -> ComputeTableSpecName(shapes[at])
      [] e[1] = "var" -> LookupSpec(st, e[2])
      [] OTHER -> Dynamic_

\* What a variable is known to hold after an assignment; top: file-level variables are assigned.
SetSpec(st, x, type, top) ==
    LET Without(f) == Restrict(f, DOMAIN f \ {x})
    IN  IF type = Dynamic_ THEN [st EXCEPT !.local = Without(@), !.global = Without(@)]
        ELSE [st EXCEPT !.local = (x :> type) @@ @, !.global = IF top THEN (x :> type) @@ @ ELSE @]

\* The variables that an expression indexes, with their places.
RECURSIVE Receivers(_, _)
Receivers(e, at) ==
    (IF e[1] = "index" /\ e[2][1] = "var" THEN {<<at \o <<2>>, e[2][2]>>} ELSE {})
        \cup UNION {Receivers(e[i], at \o <<i>>) : i \in SubExps(e)}
        \cup UNION {UNION {Receivers(e[i][j], at \o <<i, j>>) : j \in DOMAIN e[i]} : i \in SubLists(e)}

AnnotateExprs(s, at, st) ==
    LET read == IF s[1] # "settab" THEN Receivers(s, at) ELSE IF s[2][1] = "var" THEN {<<at \o <<2>>, s[2][2]>>} ELSE {}
        typed == {r \in read : LookupSpec(st, r[2]) # Dynamic_}
    IN  [st EXCEPT !.ann = [p \in {r[1] : r \in typed} |-> LookupSpec(st, (CHOOSE r \in typed : r[1] = p)[2])] @@ @]

\* Mutant: a variable keeps what one of the branches knows of it.
JoinFlowStatesAnyBranch(branches) ==
    [local |-> FoldLeft(LAMBDA acc, b : b.local @@ acc, branches[1].local, branches),
     global |-> FoldLeft(LAMBDA acc, b : b.global @@ acc, branches[1].global, branches),
     ann |-> FoldLeft(LAMBDA acc, b : b.ann @@ acc, branches[1].ann, branches)]

\* After branches a variable has a type if they all agree on it.
JoinFlowStates(branches) ==
    LET Agreed(maps) == Restrict(maps[1], {x \in DOMAIN maps[1] : \A i \in DOMAIN maps : x \in DOMAIN maps[i] /\ maps[i][x] = maps[1][x]})
    IN  [local |-> Agreed([i \in DOMAIN branches |-> branches[i].local]),
         global |-> Agreed([i \in DOMAIN branches |-> branches[i].global]),
         ann |-> FoldLeft(LAMBDA acc, b : b.ann @@ acc, branches[1].ann, branches)]

RECURSIVE FlowBlock(_, _, _, _, _)
FlowStmt(s, at, st, shapes, top) ==
    LET read == AnnotateExprs(s, at, st)
        Into(i, from) == FlowBlock(s[i], at \o <<i>>, from, shapes, top)
        Value(acc, i) == IF i > Len(s[3]) \/ (Len(s[2]) > Len(s[3]) /\ i = Len(s[3])) THEN Dynamic_
                         ELSE SpecFromRhs(s[3][i], at \o <<3, i>>, acc, shapes)
    IN  CASE s[1] = "local" -> InTurn(LAMBDA acc, i : SetSpec(acc, s[2][i].name, Value(acc, i), top), read, Len(s[2]))
          [] s[1] = "assign" -> SetSpec(read, s[2][1][2], SpecFromRhs(s[3][1], at \o <<3, 1>>, read, shapes), top)
          [] s[1] = "if" -> JoinFlowStates([i \in DOMAIN s[3] |-> FlowBlock(s[3][i], at \o <<3, i>>, read, shapes, top)]
                                               \o <<Into(4, read)>>)
          [] s[1] = "while" -> FlowBlock(s[3], at, read, shapes, top)
          [] s[1] = "repeat" -> AnnotateExprs(s, at, FlowBlock(s[2], at, st, shapes, top))
          [] s[1] = "for" -> Into(6, read)
          [] s[1] = "forin" -> Into(4, read)
          [] OTHER -> read
FlowBlock(block, at, st, shapes, top) ==
    InTurn(LAMBDA acc, i : FlowStmt(block[i], at \o <<100 + i>>, acc, shapes, top), st, Len(block))

\* var_spec_annotations.  The init function comes after the file's statements; the other functions know what both left.
ComputeVarSpecAnnotations(tree, shapes) ==
    LET IsFn(i) == tree[i][1] \in {"localfn", "function"}
        IsInit(i) == tree[i][1] = "function" /\ tree[i][2] = InitFunction
        Nothing == Restrict(<<>>, {})
        Top(acc, i) == IF IsFn(i) THEN acc ELSE FlowStmt(tree[i], <<100 + i>>, acc, shapes, TRUE)
        Body(acc, i, init) == IF ~IsFn(i) \/ IsInit(i) # init THEN acc
                              ELSE FlowBlock(tree[i][3][5], tree[i][3][2], [acc EXCEPT !.local = Nothing], shapes, init)
    IN  Given(InTurn(Top, [local |-> Nothing, global |-> Nothing, ann |-> Nothing], Len(tree)), LAMBDA file :
        Given(InTurn(LAMBDA acc, i : Body(acc, i, TRUE), file, Len(tree)), LAMBDA start :
        InTurn(LAMBDA acc, i : [Body(acc, i, FALSE) EXCEPT !.global = start.global], start, Len(tree)).ann))

\* The whole analysis.
InferTypes(tree, ar) ==
    Given(InferFile(tree), LAMBDA st :
    Given(IdentifyMathParams(tree, ar, st.fileTypes), LAMBDA positions :
    Given(InferSpecializationReturnTypes(tree, positions, st.fileTypes, SomeOrder(DOMAIN positions)), LAMBDA ret :
    Given(WalkBlock(tree, <<>>), LAMBDA nodes :
    Given(AnalyzeTableShapes(nodes), LAMBDA shapes :
        [ok |-> /\ ~st.err
                /\ \A x \in DOMAIN positions : ~CollectFails(FuncNamed(tree, x))
                /\ \A n \in nodes : n[2][1] = "table" => ~BuildCtorFields(n[2]).twice,
         types |-> st.types,
         def |-> st.def,
         shadowed |-> st.shadowed,
         globals |-> CollectGlobalConstVars(tree, st.types),
         positions |-> positions,
         ret |-> ret,
         snapshots |-> [x \in DOMAIN positions |-> Snapshots(tree, positions, ret, st.fileTypes, x)],
         shapes |-> shapes,
         ann |-> ComputeVarSpecAnnotations(tree, shapes)])))))
=============================================================================
