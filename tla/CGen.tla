-------------------------------- MODULE CGen --------------------------------
(***************************************************************************)
(* compile/c_gen.cpp: from a resolved tree with its inferred types to C.   *)
(*                                                                         *)
(* A C expression is a tuple: <<"lit", v>>; <<"id", x>>, the C variable of *)
(* the Lua name x; <<"tmp", p, k>>, a variable at the top of the function  *)
(* (a name that the node at place p takes); <<"box", x>> and <<"up", i>>,  *)
(* a captured variable; <<"cvar", ty, e>>, a native number boxed;          *)
(* <<"raw", ty, e>>, the number read out of a CVar unchecked;              *)
(* <<"cast", ty, e>>; <<"nat", op, ty, a, b>> and <<"cmp", op, a, b>> on   *)
(* native numbers; <<"op", op, a, b>> and <<"unop", op, a>> on CVars;      *)
(* <<"istrue", e>>, <<"not", c>>; <<"get", t, k>>, <<"unbox", e, i>>,      *)
(* <<"slice", e, i>>, <<"multi", es>>, <<"combine", es, e>>, <<"len", e>>, *)
(* <<"newtab">>, <<"closure", f, n, vararg, ups>>; <<"call", f, args>> for *)
(* a C function and <<"dyn", f, args>> for a closure; <<"byname", x>>.     *)
(*                                                                         *)
(* A C statement is <<"set", tmp, ty, e>>, <<"decl", x, ty, e>>,           *)
(* <<"newbox", x>>, <<"asg", place, e>>, <<"do", e>>, <<"settab", t, k,    *)
(* v>>, <<"expand", t, i, e>>, <<"if", c, a, b>>, <<"loop", pre, c,        *)
(* body, step>>, <<"block", b>>, <<"ret", e>>, <<"break">>, <<"continue">>,      *)
(* <<"goto", l>>, <<"label", l>>, <<"throw", c>> and <<"unclosed">>, a     *)
(* brace that is never closed.                                             *)
(*                                                                         *)
(* Tables with a struct, whose type is given as the order of its fields:   *)
(* <<"newspec", order>> makes one, <<"spec", order, t, f>> reads field f,  *)
(* and the statement <<"setspec", order, t, f, i, k, v>> sets it, with k   *)
(* and v as entry i of what a loop over the table sees.                    *)
(***************************************************************************)
EXTENDS Naming, TypeInferencer, VmOps

CONSTANT StepUnit   \* what six decimals can tell apart, in units of 1/Grain

(***************************************************************************)
(* What a step of the generator gives: the statements it wrote, the text   *)
(* it returns, and whether it threw ("miss": SpecMiss, "error": an error). *)
(* What was written before a throw stays written.                          *)
(***************************************************************************)
NoText == <<"">>
Text(x) == [s |-> <<>>, x |-> x, ok |-> "ok"]
Wrote(stmts, x) == [s |-> stmts, x |-> x, ok |-> "ok"]
ThrowSpecMiss == [s |-> <<>>, x |-> NoText, ok |-> "miss"]
ThrowError == [s |-> <<>>, x |-> NoText, ok |-> "error"]

Then(a, B(_)) == IF a.ok # "ok" THEN a ELSE LET b == B(a.x) IN [b EXCEPT !.s = a.s \o @]

\* Texts of several nodes, one after the other, up to the first that throws.
ThenAll(n, Each(_)) ==
    LET rs == [i \in 1..n |-> Each(i)]
        thrown == {i \in 1..n : rs[i].ok # "ok"}
        last == IF thrown = {} THEN n ELSE CHOOSE i \in thrown : \A j \in thrown : i <= j
    IN  [s |-> FlattenSeq([i \in 1..last |-> rs[i].s]),
         x |-> IF thrown = {} THEN [i \in 1..n |-> rs[i].x] ELSE NoText,
         ok |-> IF thrown = {} THEN "ok" ELSE rs[last].ok]

Catch(a) == IF a.ok = "ok" THEN a ELSE [a EXCEPT !.x = NoText, !.ok = "ok"]

\* What is written inside braces; a throw leaves them open.
Braced(a, Wrap1(_)) ==
    IF a.ok # "ok" THEN [a EXCEPT !.s = Append(@, <<"unclosed">>)] ELSE [a EXCEPT !.s = Wrap1(@)]

(***************************************************************************)
(* Names and types.  The context cx holds the unit u (the analyses, the    *)
(* captured variables, the functions of the file), the place fn of the     *)
(* function, the version (spec: its bit mask, or -1) and where "continue"  *)
(* goes.                                                                   *)
(***************************************************************************)
LookupNodeType(at, cx) ==
    IF cx.spec >= 0 /\ at \in DOMAIN cx.snapshot THEN cx.snapshot[at] ELSE TypeIn(cx.u.ir.types, at)

GetSpecReturnType(x, mask, cx) == cx.u.ir.ret[x][mask + 1]

IsCaptured(def, cx) == def \in cx.u.captured

GetNativeVarType(e, at, cx) ==
    IF IsCaptured(e[3], cx) THEN T_DYNAMIC
    ELSE IF e[2] \in DOMAIN cx.paramTypes THEN cx.paramTypes[e[2]]
    ELSE IF at \in DOMAIN cx.u.ir.def THEN LookupNodeType(cx.u.ir.def[at], cx)
    ELSE T_DYNAMIC
IsTypedNativeVar(e, at, cx) == IsNumericInferredType(GetNativeVarType(e, at, cx))

IsNumericGlobal(x, cx) == x \in DOMAIN cx.u.ir.globals /\ IsNumericInferredType(cx.u.ir.globals[x])

GetType(e, at, cx) ==
    IF e[1] = "var"
    THEN IF IsTypedNativeVar(e, at, cx) THEN GetNativeVarType(e, at, cx)
         ELSE IF IsNumericGlobal(e[2], cx) THEN cx.u.ir.globals[e[2]] ELSE T_DYNAMIC
    ELSE IF LookupNodeType(at, cx) = T_UNKNOWN THEN T_DYNAMIC ELSE LookupNodeType(at, cx)

\* A file-level local function does not hide the file's function of that name.
BindsLocalValue(e) == e[3] # NoDef /\ ~(e[3].fn = <<>> /\ e[3].lf)
IsFileFunction(e, cx) == e[1] = "var" /\ ~BindsLocalValue(e) /\ e[2] \in DOMAIN cx.u.funcs

\* The bit mask of the version that the arguments select: bits up to the first argument that is no number.
MathCallBits(x, args, at, cx) ==
    LET pos == cx.u.ir.positions[x]
        Ty(i) == IF pos[i] > Len(args) THEN T_DYNAMIC ELSE GetType(args[pos[i]], at \o <<3, pos[i]>>, cx)
        Known(i) == \A j \in 1..i : Ty(j) # T_DYNAMIC
    IN  [ok |-> Known(Len(pos)),
         mask |-> FoldLeftDomain(LAMBDA acc, i : acc + IF Known(i) /\ Ty(i) = T_FLOAT THEN 2 ^ (i - 1) ELSE 0, 0, pos)]

NativeLit(v) == <<"lit", [v EXCEPT !.t = IF v.t = "int" THEN "i64" ELSE "f64"]>>
Int64(n) == NativeLit(Number(n))
kNil == <<"lit", Nil>>

\* The type of the table in the variable at a place, and the order of the fields of a type.
GetSpecTypeForVar(at, cx) == IF at \in DOMAIN cx.u.ir.ann THEN cx.u.ir.ann[at] ELSE Dynamic_
FieldOrder(type, cx) == cx.u.ir.metadata[type]
TryMatchSpecKey(k, type) == ClassifyLiteralKey(k) /\ LiteralKey(k) \in type

BoxNativeValue(x, ty) == <<"cvar", ty, x>>

\* A call that is known to give one value, by the name it is written with.
IsSingleReturnLocal(e, cx) ==
    GetCalleeName(e) \in DOMAIN cx.u.ar.maxReturns /\ cx.u.ar.maxReturns[GetCalleeName(e)] = 1

Expands(e) == IsFunctionCallExp(e) \/ IsVarargExp(e)

CmpOps == {"LT", "LE", "GT", "GE", "EQ", "NE"}
NativeArithOps == {"ADD", "SUB", "MUL", "DIV", "IDIV", "POW", "MOD"} \cup BitOps

\* Whether the native text of e is written without statements, so that a loop can test it anew.
RECURSIVE IsPureNativeNumericExp(_, _, _)
IsPureNativeNumericExp(e, at, cx) ==
    LET Pure(i) == IsPureNativeNumericExp(e[i], at \o <<i>>, cx)
        IsInt(i) == GetType(e[i], at \o <<i>>, cx) = T_INT
    IN  CASE ClassifyConstNumberExp(e) -> TRUE
          [] e[1] = "var" -> TRUE
          [] e[1] = "paren" -> Pure(2)
          [] e[1] = "bin" ->
               /\ \/ e[2] \in {"ADD", "SUB", "MUL", "DIV", "POW"}
                  \/ e[2] = "IDIV" /\ LookupNodeType(at, cx) # T_INT
                  \/ e[2] \in {"BAND", "BOR", "BXOR"} /\ IsInt(3) /\ IsInt(4)
               /\ Pure(3) /\ Pure(4)
          [] e[1] = "un" /\ ~ClassifyConstNumberExp(e) -> (e[2] = "UNM" \/ (e[2] = "BNOT" /\ IsInt(3))) /\ Pure(3)
          [] OTHER -> FALSE

(***************************************************************************)
(* The recursion of the generator goes through CompileNode alone; kind is  *)
(* what a node is compiled to.                                             *)
(***************************************************************************)
RECURSIVE CompileNode(_, _, _, _)
CompileExp(e, at, preserve, cx) == CompileNode(IF preserve THEN "values" ELSE "value", e, at, cx)
CompileNumericExp(e, at, cx) == CompileNode("number", e, at, cx)
TryCompileNativeBoolExpr(e, at, pure, cx) == CompileNode(IF pure THEN "pure" ELSE "truth", e, at, cx)
CompileCondBoolExpr(e, at, cx) == CompileNode("cond", e, at, cx)
CompileStmtBlock(block, at, cx) == CompileNode("block", block, at, cx)

TryCompileNativeExpr(e, at, cx) == Catch(CompileNumericExp(e, at, cx))

(***************************************************************************)
(* Native numbers.                                                         *)
(***************************************************************************)
\* An operation whose text is a variable that a statement sets.
Stored(tmp, ty, x) == Wrote(<<<<"set", tmp, ty, x>>>>, tmp)

ToIntOperand(e, at, x, cx) ==
    LET ty == GetType(e, at, cx)
    IN  CASE ty = T_INT -> Text(<<"cast", T_INT, x>>)
          [] ty = T_FLOAT -> Stored(<<"tmp", at, "toint">>, T_INT, <<"toint", x>>)
          [] OTHER -> ThrowSpecMiss

CompileRawNativeArithBinop(e, at, ty, cx) ==
    LET op == e[2]
        result == IF ty = T_INT THEN T_INT ELSE T_FLOAT
        Out(type, a, b) == Stored(<<"tmp", at, "native">>, type, <<"nat", op, type, a, b>>)
        Bits(a, b) == IF op \in {"SHL", "SHR"} THEN Out(T_INT, a, b) ELSE Text(<<"nat", op, T_INT, a, b>>)
    IN  Then(CompileNumericExp(e[3], at \o <<3>>, cx), LAMBDA l :
        Then(CompileNumericExp(e[4], at \o <<4>>, cx), LAMBDA r :
            CASE op \notin NativeArithOps -> ThrowSpecMiss
              [] op \in BitOps ->
                   Then(ToIntOperand(e[3], at \o <<3>>, l, cx), LAMBDA a :
                   Then(ToIntOperand(e[4], at \o <<4>>, r, cx), LAMBDA b : Bits(a, b)))
              [] op = "MOD" \/ (op = "IDIV" /\ result = T_INT) -> Out(result, l, r)
              [] OTHER -> Text(<<"nat", op, result, l, r>>)))

CompileRawNativeUnop(e, at, ty, cx) ==
    IF e[2] \notin {"UNM", "BNOT"} \/ ~IsNumericInferredType(ty) THEN ThrowSpecMiss
    ELSE Then(CompileNumericExp(e[3], at \o <<3>>, cx), LAMBDA x :
             CASE e[2] = "UNM" /\ ty = T_INT -> Text(<<"nat", "SUB", T_INT, Int64(0), x>>)
               [] e[2] = "UNM" /\ ty = T_FLOAT -> Text(<<"neg", x>>)
               [] e[2] = "BNOT" /\ ty = T_INT -> Text(<<"bnot", <<"cast", T_INT, x>>>>)
               [] OTHER -> Then(Stored(<<"tmp", at, "toint">>, T_INT, <<"toint", x>>), LAMBDA i : Text(<<"bnot", i>>)))

FormatNativeNumericComparison(op, l, r) == <<"cmp", op, l, r>>

CompileTruth(e, at, pure, cx) ==
    LET Numeric(i) == IsNumericInferredType(GetType(e[i], at \o <<i>>, cx))
        Pure(i) == IsPureNativeNumericExp(e[i], at \o <<i>>, cx)
    IN  CASE e[1] = "paren" -> TryCompileNativeBoolExpr(e[2], at \o <<2>>, pure, cx)
          [] e[1] = "un" /\ e[2] = "NOT" ->
               Then(TryCompileNativeBoolExpr(e[3], at \o <<3>>, pure, cx), LAMBDA x :
                    Text(IF x = NoText THEN NoText ELSE <<"not", x>>))
          [] e[1] = "bin" /\ e[2] \in CmpOps /\ Numeric(3) /\ Numeric(4) /\ (pure => Pure(3) /\ Pure(4)) ->
               Then(TryCompileNativeExpr(e[3], at \o <<3>>, cx), LAMBDA l :
               Then(TryCompileNativeExpr(e[4], at \o <<4>>, cx), LAMBDA r : Text(FormatNativeNumericComparison(e[2], l, r))))
          [] OTHER -> Text(NoText)

\* The texts of a direct call: the math arguments natively, then the others.
CompileSpecArgs(x, args, at, cx) ==
    LET pos == cx.u.ir.positions[x]
        math == {pos[i] : i \in DOMAIN pos}
        rest == SelectSeq([i \in DOMAIN args |-> i], LAMBDA i : i \notin math)
        IndexIn(s, i) == CHOOSE k \in DOMAIN s : s[k] = i
    IN  Then(ThenAll(Len(pos), LAMBDA i : TryCompileNativeExpr(args[pos[i]], at \o <<3, pos[i]>>, cx)), LAMBDA native :
        Then(ThenAll(Len(rest), LAMBDA i : CompileExp(args[rest[i]], at \o <<3, rest[i]>>, FALSE, cx)), LAMBDA boxed :
             Text([i \in DOMAIN args |-> IF i \in math THEN native[IndexIn(pos, i)] ELSE boxed[IndexIn(rest, i)]])))

SpecFunc(x, mask, cx) == <<"spec", cx.u.funcs[x].at, mask>>

TryCompileNativeSpecCallExpr(e, at, cx) ==
    LET x == GetCalleeName(e)
        mask == MathCallBits(x, e[3], at, cx).mask
    IN  IF e[1] # "call" \/ x = "" \/ BindsLocalValue(e[2]) \/ x \notin DOMAIN cx.u.ir.positions THEN ThrowSpecMiss
        ELSE Then(CompileSpecArgs(x, e[3], at, cx), LAMBDA args :
                  Stored(<<"tmp", at, "native">>, GetSpecReturnType(x, mask, cx), <<"call", SpecFunc(x, mask, cx), args>>))

\* "c and v1 or v2" with numbers v1 and v2.
CompileTernary(e, at, cx) ==
    LET tmp == <<"tmp", at, "ternary">>
        ty == LookupNodeType(at, cx)
        Arm(a, p) == Then(CompileNumericExp(a, p, cx), LAMBDA x : Wrote(<<<<"set", tmp, ty, x>>>>, tmp))
        Cond == Then(TryCompileNativeBoolExpr(e[2][2], at \o <<2, 2>>, FALSE, cx), LAMBDA b :
                     IF b # NoText THEN Text(b)
                     ELSE Then(CompileExp(e[2][2], at \o <<2, 2>>, FALSE, cx), LAMBDA c : Text(<<"istrue", c>>)))
        yes == Arm(e[2][3], at \o <<2, 3>>)
        no == Arm(e[3], at \o <<3>>)
    IN  Then(Cond, LAMBDA c :
             IF yes.ok # "ok" THEN Braced(yes, LAMBDA s : s)
             ELSE Braced(no, LAMBDA s : <<<<"if", c, yes.s, s>>>>))

CompileNumericVar(e, at, cx) ==
    LET ty == IF LookupNodeType(at, cx) = T_FLOAT THEN T_FLOAT ELSE T_INT
    IN  IF IsTypedNativeVar(e, at, cx) \/ IsNumericGlobal(e[2], cx) THEN Text(<<"id", e[2]>>)
        ELSE IF IsCaptured(e[3], cx)
             THEN Then(CompileExp(e, at, TRUE, cx), LAMBDA x : Text(<<"raw", ty, x>>))
             ELSE Text(<<"raw", ty, <<"id", e[2]>>>>)

CompileNumber(e, at, cx) ==
    CASE ClassifyConstNumberExp(e) -> Text(NativeLit(ConstNumber(e)))
      [] e[1] = "var" -> CompileNumericVar(e, at, cx)
      [] e[1] = "paren" -> CompileNumericExp(e[2], at \o <<2>>, cx)
      [] e[1] \in {"call", "method"} ->
           IF GetType(e, at, cx) = T_DYNAMIC THEN ThrowSpecMiss ELSE TryCompileNativeSpecCallExpr(e, at, cx)
      [] e[1] = "and" ->
           Then(CompileNumericExp(e[2], at \o <<2>>, cx), LAMBDA dropped : CompileNumericExp(e[3], at \o <<3>>, cx))
      [] e[1] = "or" -> IF e[2][1] = "and" THEN CompileTernary(e, at, cx) ELSE CompileNumericExp(e[2], at \o <<2>>, cx)
      [] e[1] = "bin" -> CompileRawNativeArithBinop(e, at, LookupNodeType(at, cx), cx)
      [] e[1] = "un" /\ e[2] = "LEN" ->
           Then(CompileExp(e[3], at \o <<3>>, FALSE, cx), LAMBDA x : Stored(<<"tmp", at, "native">>, T_INT, <<"len", x>>))
      [] e[1] = "un" /\ e[2] # "LEN" /\ ~ClassifyConstNumberExp(e) ->
           CompileRawNativeUnop(e, at, GetType(e[3], at \o <<3>>, cx), cx)
      [] OTHER -> ThrowSpecMiss

(***************************************************************************)
(* Boxed values.                                                           *)
(***************************************************************************)
IndexOf(seq, x) == CHOOSE i \in DOMAIN seq : seq[i] = x

CompileUpvaluePointer(def, cx) ==
    IF def.fn = cx.fn THEN <<"box", def.name>> ELSE <<"up", IndexOf(cx.u.ups[cx.fn], def)>>

MakeClosure(f, cx) ==
    <<"closure", <<"fn", f[2]>>, Len(f[3]), f[4], [i \in DOMAIN cx.u.ups[f[2]] |-> CompileUpvaluePointer(cx.u.ups[f[2]][i], cx)]>>

CompileSimpleVar(e, at, cx) ==
    LET x == e[2]
        fn == cx.u.funcs[x]
    IN  CASE IsCaptured(e[3], cx) -> CompileUpvaluePointer(e[3], cx)
          [] ~IsCaptured(e[3], cx) /\ IsFileFunction(e, cx) -> <<"closure", <<"fn", fn.at>>, fn.n, fn.vararg, <<>>>>
          [] OTHER -> IF GetNativeVarType(e, at, cx) # T_DYNAMIC THEN BoxNativeValue(<<"id", x>>, GetNativeVarType(e, at, cx))
                      ELSE IF IsNumericGlobal(x, cx) THEN BoxNativeValue(<<"id", x>>, cx.u.ir.globals[x])
                      ELSE IF e[3] = NoDef THEN kNil ELSE <<"id", x>>

\* A key as a CVar: a literal, a native integer, or any value.
CompileKey(e, at, cx) ==
    IF ClassifyConstNumberExp(e) THEN Text(<<"lit", ConstNumber(e)>>)
    ELSE IF GetType(e, at, cx) # T_INT THEN CompileExp(e, at, FALSE, cx)
    ELSE Then(TryCompileNativeExpr(e, at, cx), LAMBDA k :
              IF k = NoText THEN CompileExp(e, at, FALSE, cx) ELSE Text(BoxNativeValue(k, T_INT)))

\* A field of a table of a known type is read from its struct.
CompileVar(e, at, cx) ==
    IF e[1] = "var" THEN Text(CompileSimpleVar(e, at, cx))
    ELSE LET type == GetSpecTypeForVar(at \o <<2>>, cx)
         IN  Then(CompileExp(e[2], at \o <<2>>, FALSE, cx), LAMBDA t :
             IF TryMatchSpecKey(e[3], type) THEN Text(<<"spec", FieldOrder(type, cx), t, LiteralKey(e[3])>>)
             ELSE Then(CompileKey(e[3], at \o <<3>>, cx), LAMBDA k : Text(<<"get", t, k>>)))

\* Arguments as CVars; one more for a last argument that may give several values.
CompileCallArgs(args, at, cx) ==
    LET n == Len(args)
        expands == n > 0 /\ Expands(args[n]) /\ (IsFunctionCallExp(args[n]) => ~IsSingleReturnLocal(args[n], cx))
        tmp == <<"tmp", at, "call_res">>
        Arg(i) == CompileExp(args[i], at \o <<i>>, FALSE, cx)
    IN  IF ~expands THEN Then(ThenAll(n, Arg), LAMBDA xs : Text([args |-> xs, more |-> NoText]))
        ELSE Then(ThenAll(n - 1, Arg), LAMBDA xs :
             Then(CompileExp(args[n], at \o <<n>>, TRUE, cx), LAMBDA x :
                  Wrote(<<<<"set", tmp, T_DYNAMIC, x>>>>, [args |-> xs, more |-> tmp])))

AllArgs(a) == IF a.more = NoText THEN a.args ELSE Append(a.args, a.more)

\* The arguments of a call of a function of the file, one per parameter.
BuildLocalFunctionCall(x, a, cx) ==
    LET fn == cx.u.funcs[x]
        given == Len(a.args)
        fixed == IF fn.vararg THEN fn.n - 1 ELSE fn.n
        More(i) == <<"unbox", a.more, i - given - 1>>
        Fixed(i) == IF i <= given THEN a.args[i] ELSE IF a.more # NoText THEN More(i) ELSE kNil
        rest == SubSeq(a.args, fixed + 1, given)
        Packed == CASE a.more = NoText -> IF rest = <<>> THEN kNil ELSE <<"multi", rest>>
                    [] a.more # NoText /\ given < fixed -> <<"slice", a.more, fixed - given>>
                    [] a.more # NoText /\ given = fixed -> a.more
                    [] OTHER -> <<"combine", rest, a.more>>
    IN  <<"call", <<"fn", fn.at>>, [i \in 1..fixed |-> Fixed(i)] \o IF fn.vararg THEN <<Packed>> ELSE <<>>>>

WrongArity(x, a, cx) ==
    /\ ~cx.u.funcs[x].vararg
    /\ IF a.more = NoText THEN Len(a.args) # cx.u.funcs[x].n ELSE Len(a.args) > cx.u.funcs[x].n

TryCompileSpecDirectCall(e, at, cx) ==
    LET x == e[2][2]
    IN  Given(MathCallBits(x, e[3], at, cx).mask, LAMBDA mask :
        LET ret == GetSpecReturnType(x, mask, cx)
            tmp == <<"tmp", at, "call">>
            native == <<"tmp", at, "native">>
        IN  Then(CompileSpecArgs(x, e[3], at, cx), LAMBDA args :
                 LET call == <<"call", SpecFunc(x, mask, cx), args>>
                 IN  IF ~IsNumericInferredType(ret) THEN Stored(tmp, T_DYNAMIC, call)
                     ELSE Wrote(<<<<"set", native, ret, call>>, <<"set", tmp, T_DYNAMIC, BoxNativeValue(native, ret)>>>>, tmp)))

IsSpecDirectCall(e, at, cx) ==
    /\ e[1] = "call" /\ IsFileFunction(e[2], cx)
    /\ e[2][2] \in DOMAIN cx.u.ir.positions
    /\ Len(e[3]) = cx.u.funcs[e[2][2]].n
    /\ MathCallBits(e[2][2], e[3], at, cx).ok

\* obj:m(args): the receiver, the arguments, then the method.
CompileMethodCall(e, at, cx) ==
    LET obj == <<"tmp", at, "obj">>
        method == <<"tmp", at, "method">>
    IN  Then(CompileExp(e[2], at \o <<2>>, FALSE, cx), LAMBDA o :
        Then(Wrote(<<<<"set", obj, T_DYNAMIC, o>>>>, obj), LAMBDA ob :
        Then(CompileCallArgs(e[4], at \o <<4>>, cx), LAMBDA a :
        Then(Wrote(<<<<"set", method, T_DYNAMIC, <<"get", obj, <<"lit", Str(e[3])>>>>>>>>, method), LAMBDA m :
             Stored(<<"tmp", at, "call">>, T_DYNAMIC, <<"dyn", m, <<obj>> \o AllArgs(a)>>)))))

CompileFunctioncall(e, at, cx) ==
    LET tmp == <<"tmp", at, "call">>
    IN  CASE e[1] = "method" -> CompileMethodCall(e, at, cx)
          [] e[1] = "call" /\ IsSpecDirectCall(e, at, cx) -> TryCompileSpecDirectCall(e, at, cx)
          [] OTHER ->
               Then(CompileCallArgs(e[3], at \o <<3>>, cx), LAMBDA a :
                    CASE IsFileFunction(e[2], cx) ->
                           IF WrongArity(e[2][2], a, cx) THEN ThrowError
                           ELSE Stored(tmp, T_DYNAMIC, BuildLocalFunctionCall(e[2][2], a, cx))
                      [] e[2][1] = "var" /\ ~IsFileFunction(e[2], cx) /\ ~BindsLocalValue(e[2]) ->
                           Stored(tmp, T_DYNAMIC, <<"byname", e[2][2]>>)
                      [] OTHER -> Then(CompileExp(e[2], at \o <<2>>, FALSE, cx), LAMBDA f :
                                       Stored(tmp, T_DYNAMIC, <<"dyn", f, AllArgs(a)>>)))

CompilePrefixexp(e, at, preserve, cx) ==
    CASE e[1] \in {"var", "index"} ->
           Then(CompileVar(e, at, cx), LAMBDA x :
                Text(IF ~preserve /\ IsVarargExp(e) THEN <<"unbox", x, 0>> ELSE x))
      [] e[1] \in {"call", "method"} ->
           Then(CompileFunctioncall(e, at, cx), LAMBDA x :
                Text(IF preserve \/ IsSingleReturnLocal(e, cx) THEN x ELSE <<"unbox", x, 0>>))
      [] e[1] = "paren" -> CompileExp(e[2], at \o <<2>>, preserve, cx)

\* One field: the value is compiled before the key; the last array field may give several values.
CompileField(f, at, i, expand, tbl, cx) ==
    LET v == CompileExp(f[Len(f)], at \o <<Len(f)>>, expand, cx)
    IN  Then(v, LAMBDA x :
             IF f[1] = "item"
             THEN Wrote(<<IF expand THEN <<"expand", tbl, i, x>> ELSE <<"settab", tbl, <<"lit", Number(i)>>, x>>>>, tbl)
             ELSE Then(CompileKey(f[2], at \o <<2>>, cx), LAMBDA k : Wrote(<<<<"settab", tbl, k, x>>>>, tbl)))

\* A table with a struct: its own fields as any assignment makes them, then nil for the fields it has for others.
CompileSpecTable(e, at, cx) ==
    LET tbl == <<"tmp", at, "tbl">>
        layout == cx.u.ir.shapes[at]
        order == FieldOrder(ComputeTableSpecName(layout), cx)
        keys == BuildCtorFields(e).keys
        Field(i) == LET f == e[2][i]
                    IN  Then(CompileExp(Last(f), at \o <<2, i, Len(f)>>, FALSE, cx), LAMBDA x :
                             Wrote(<<<<"settab", tbl, <<"lit", keys[i]>>, x>>>>, tbl))
        optional == SelectSeq([i \in DOMAIN layout |-> i], LAMBDA i : layout[i].optional)
    IN  Then(Stored(tbl, T_DYNAMIC, <<"newspec", order>>), LAMBDA new :
        Then(ThenAll(Len(e[2]), Field), LAMBDA xs :
             Wrote([i \in DOMAIN optional |-> <<"setspec", order, tbl, layout[optional[i]].key, optional[i], kNil, kNil>>], tbl)))

CompileHashTable(e, at, cx) ==
    LET tbl == <<"tmp", at, "tbl">>
        fields == e[2]
        items == {i \in DOMAIN fields : fields[i][1] = "item"}
        IsExpand(i) == i \in items /\ (\A j \in items : j <= i) /\ Expands(fields[i][2])
        Slot(i) == Cardinality({j \in items : j <= i})
    IN  InTurn(
            LAMBDA acc, i : Then(acc, LAMBDA x : CompileField(fields[i], at \o <<2, i>>, Slot(i), IsExpand(i), tbl, cx)),
            Wrote(<<<<"set", tbl, T_DYNAMIC, <<"newtab">>>>>>, tbl), Len(fields))

CompileTableconstructor(e, at, cx) ==
    IF at \in DOMAIN cx.u.ir.shapes THEN CompileSpecTable(e, at, cx) ELSE CompileHashTable(e, at, cx)

CompileAndOr(e, at, cx) ==
    LET left == <<"tmp", at, "left">>
        tmp == <<"tmp", at, "op">>
        right == Then(CompileExp(e[3], at \o <<3>>, FALSE, cx), LAMBDA r : Stored(tmp, T_DYNAMIC, r))
        test == IF e[1] = "and" THEN <<"not", <<"istrue", left>>>> ELSE <<"istrue", left>>
    IN  Then(CompileExp(e[2], at \o <<2>>, FALSE, cx), LAMBDA l :
        Then(Wrote(<<<<"set", left, T_DYNAMIC, l>>>>, left), LAMBDA same :
             Braced(right, LAMBDA s : <<<<"if", test, <<<<"set", tmp, T_DYNAMIC, left>>>>, s>>>>)))

CompileNativeCmpBinop(e, at, cx) ==
    Then(TryCompileNativeExpr(e[3], at \o <<3>>, cx), LAMBDA l :
    Then(TryCompileNativeExpr(e[4], at \o <<4>>, cx), LAMBDA r :
         IF l = NoText \/ r = NoText THEN Text(NoText)
         ELSE Stored(<<"tmp", at, "op">>, T_DYNAMIC, <<"cbool", FormatNativeNumericComparison(e[2], l, r)>>)))

BinopResultType(op, l, r) ==
    IF op \in {"DIV", "POW"} THEN T_FLOAT
    ELSE IF op \in BitOps \/ (l = T_INT /\ r = T_INT) THEN T_INT ELSE T_FLOAT

CompileBinop(e, at, cx) ==
    LET l == GetType(e[3], at \o <<3>>, cx)
        r == GetType(e[4], at \o <<4>>, cx)
        ty == BinopResultType(e[2], l, r)
        tmp == <<"tmp", at, "op">>
        Slow == Then(CompileExp(e[3], at \o <<3>>, FALSE, cx), LAMBDA a :
                Then(CompileExp(e[4], at \o <<4>>, FALSE, cx), LAMBDA b : Stored(tmp, T_DYNAMIC, <<"op", e[2], a, b>>)))
    IN  IF l = T_DYNAMIC \/ r = T_DYNAMIC THEN Slow
        ELSE IF e[2] \in NativeArithOps
             THEN Then(CompileRawNativeArithBinop(e, at, ty, cx), LAMBDA x : Stored(tmp, T_DYNAMIC, BoxNativeValue(x, ty)))
             ELSE Then(CompileNativeCmpBinop(e, at, cx), LAMBDA x : IF x = NoText THEN Slow ELSE Text(x))

\* The operand is compiled once to see that it can be, and again for its text.
CompileUnop(e, at, cx) ==
    LET rt == GetType(e[3], at \o <<3>>, cx)
        ty == CASE e[2] = "UNM" -> rt [] e[2] = "BNOT" /\ rt # T_DYNAMIC -> T_INT [] OTHER -> T_DYNAMIC
        tmp == <<"tmp", at, "op">>
        Slow == Then(CompileExp(e[3], at \o <<3>>, FALSE, cx), LAMBDA x : Stored(tmp, T_DYNAMIC, <<"unop", e[2], x>>))
    IN  IF ~IsNumericInferredType(ty) THEN Slow
        ELSE Then(TryCompileNativeExpr(e[3], at \o <<3>>, cx), LAMBDA once :
                  IF once = NoText THEN Slow
                  ELSE Then(CompileRawNativeUnop(e, at, ty, cx), LAMBDA x : Stored(tmp, T_DYNAMIC, BoxNativeValue(x, ty))))

CompileValue(e, at, preserve, cx) ==
    CASE e[1] = "nil" -> Text(kNil)
      [] e[1] \in {"true", "false"} -> Text(<<"lit", Bool(e[1] = "true")>>)
      [] e[1] = "num" -> Text(<<"lit", Number(e[2])>>)
      [] e[1] = "flt" -> Text(<<"lit", Float(e[2])>>)
      [] e[1] = "str" -> Text(<<"lit", Str(e[2])>>)
      [] e[1] = "func" -> Text(MakeClosure(e, cx))
      [] e[1] = "table" -> CompileTableconstructor(e, at, cx)
      [] e[1] \in {"and", "or"} -> CompileAndOr(e, at, cx)
      [] e[1] = "bin" -> CompileBinop(e, at, cx)
      [] e[1] = "un" -> CompileUnop(e, at, cx)
      [] OTHER -> CompilePrefixexp(e, at, preserve, cx)


(***************************************************************************)
(* Statements.  cx also holds where "continue" goes (cont: a label, or     *)
(* NoText for C's own continue) and the labels in sight.  A throw out of a *)
(* statement fails the file.                                               *)
(***************************************************************************)
Truth(b) == [t |-> "truth", v |-> IF b THEN 1 ELSE 0, s |-> <<>>]
T_TRUTH == "truth"
CTrue == <<"lit", Truth(TRUE)>>
CFalse == <<"lit", Truth(FALSE)>>

\* A statement made of compiled parts.
Made(parts, stmts) == IF \E i \in DOMAIN parts : parts[i].ok # "ok" THEN ThrowError ELSE Wrote(stmts, NoText)
Straight(r, stmts) == Made(<<r>>, r.s \o stmts)

\* The C variable of a definition: a fresh box if a closure captures it.
DeclareVar(def, ty, x, cx) ==
    IF IsCaptured(def, cx) THEN <<<<"newbox", def.name>>, <<"asg", <<"box", def.name>>, x>>>>
    ELSE <<<<"decl", def.name, ty, x>>>>

\* Whether the last of several expressions may give several values.
LastExpands(es, cx) ==
    es # <<>> /\ Expands(Last(es)) /\ (IsFunctionCallExp(Last(es)) => ~IsSingleReturnLocal(Last(es), cx))

CompileStmtReturn(s, at, cx) ==
    LET es == s[2]
        n == Len(es)
        native == cx.spec >= 0 /\ IsNumericInferredType(GetSpecReturnType(cx.name, cx.spec, cx))
        one == IF native THEN CompileNumericExp(es[1], at \o <<2, 1>>, cx) ELSE CompileExp(es[1], at \o <<2, 1>>, TRUE, cx)
        more == LastExpands(es, cx)
        xs == ThenAll(IF more THEN n - 1 ELSE n, LAMBDA i : CompileExp(es[i], at \o <<2, i>>, FALSE, cx))
        last == CompileExp(es[n], at \o <<2, n>>, TRUE, cx)
    IN  CASE n = 0 -> IF native THEN ThrowSpecMiss ELSE Wrote(<<<<"ret", kNil>>>>, NoText)
          [] n = 1 -> Straight(one, <<<<"ret", one.x>>>>)
          [] n > 1 -> IF ~more THEN Straight(xs, <<<<"ret", <<"multi", xs.x>>>>>>)
                      ELSE Made(<<xs, last>>, xs.s \o last.s \o <<<<"ret", <<"combine", xs.x, last.x>>>>>>)

\* A local with an initial value of its own; a native one that hides a name is set through a temporary.
CompileLocal(def, e, p, at, cx) ==
    LET ty == LookupNodeType(p, cx)
        tmp == <<"tmp", p, "local">>
        boxed == CompileExp(e, p, FALSE, cx)
        native == CompileNumericExp(e, p, cx)
    IN  IF IsCaptured(def, cx) \/ ~IsNumericInferredType(ty) THEN Straight(boxed, DeclareVar(def, T_DYNAMIC, boxed.x, cx))
        ELSE Straight(native, IF <<at, def.name>> \notin cx.u.ir.shadowed THEN <<<<"decl", def.name, ty, native.x>>>>
                              ELSE <<<<"set", tmp, ty, native.x>>, <<"decl", def.name, ty, tmp>>>>)

CompileStmtLocalVar(s, at, cx) ==
    LET defs == s[2]
        es == s[3]
        more == Len(defs) > Len(es) /\ LastExpands(es, cx)
        own == IF more THEN Len(es) - 1 ELSE Len(es)
        tmp == <<"tmp", at, "call_res">>
        Dropped(i) == LET x == CompileExp(es[i], at \o <<3, i>>, FALSE, cx) IN Straight(x, <<<<"do", x.x>>>>)
        inits == ThenAll(own, LAMBDA i : IF i > Len(defs) THEN Dropped(i) ELSE CompileLocal(defs[i], es[i], at \o <<3, i>>, at, cx))
        last == IF more THEN CompileExp(es[own + 1], at \o <<3, own + 1>>, TRUE, cx) ELSE Text(kNil)
        Rest(i) == DeclareVar(defs[own + i], T_DYNAMIC, IF more THEN <<"unbox", tmp, i - 1>> ELSE kNil, cx)
    IN  IF \E i \in DOMAIN defs : defs[i].name \in DOMAIN cx.u.ir.globals THEN ThrowError
        ELSE Made(<<inits, last>>, inits.s \o last.s \o (IF more THEN <<<<"set", tmp, T_DYNAMIC, last.x>>>> ELSE <<>>)
                                     \o FlattenSeq([i \in 1..(Len(defs) - own) |-> Rest(i)]))

CompileStmtAssign(s, at, cx) ==
    LET v == s[2][1]
        e == s[3][1]
        p == at \o <<3, 1>>
        ty == GetNativeVarType(v, at \o <<2>>, cx)
        tmp == <<"tmp", at, "assign">>
        native == TryCompileNativeExpr(e, p, cx)
        boxed == CompileExp(e, p, FALSE, cx)
    IN  IF ~IsTypedNativeVar(v, at \o <<2>>, cx)
        THEN Straight(boxed, <<<<"asg", CompileSimpleVar(v, at \o <<2>>, cx), boxed.x>>>>)
        ELSE IF native.x # NoText
        THEN Straight(native, <<<<"asg", <<"id", v[2]>>, IF GetType(e, p, cx) \in {ty, T_DYNAMIC} THEN native.x ELSE <<"cast", ty, native.x>>>>>>)
        ELSE Made(<<boxed>>, native.s \o boxed.s \o <<<<"set", tmp, T_DYNAMIC, boxed.x>>, <<"asg", <<"id", v[2]>>, <<"tonum", ty, tmp>>>>>>)

CompileCond(e, at, cx) ==
    Then(TryCompileNativeBoolExpr(e, at, FALSE, cx), LAMBDA b :
        CASE b # NoText -> Text(b)
          [] b = NoText /\ e[1] = "paren" -> CompileCondBoolExpr(e[2], at \o <<2>>, cx)
          [] b = NoText /\ e[1] = "un" /\ e[2] = "NOT" ->
               Then(CompileCondBoolExpr(e[3], at \o <<3>>, cx), LAMBDA x : Text(<<"not", x>>))
          [] b = NoText /\ e[1] = "bin" /\ e[2] \in CmpOps ->
               Then(CompileExp(e[3], at \o <<3>>, FALSE, cx), LAMBDA l :
               Then(CompileExp(e[4], at \o <<4>>, FALSE, cx), LAMBDA r : Text(<<"istrue", <<"op", e[2], l, r>>>>)))
          [] OTHER -> Then(CompileExp(e, at, FALSE, cx), LAMBDA x : Text(<<"istrue", x>>)))

CompileBody(block, at, label, cx) == CompileStmtBlock(block, at, [cx EXCEPT !.cont = label])

\* A native condition is tested as it stands, another one is computed in each round.
CompileStmtWhile(s, at, cx) ==
    LET native == TryCompileNativeBoolExpr(s[2], at \o <<2>>, TRUE, cx)
        cond == CompileCondBoolExpr(s[2], at \o <<2>>, cx)
        body == CompileBody(s[3], at, NoText, cx)
    IN  IF native.x # NoText THEN Made(<<body>>, native.s \o <<<<"loop", <<>>, native.x, body.s, <<>>>>>>)
        ELSE Made(<<cond, body>>, native.s \o <<<<"loop", cond.s, cond.x, body.s, <<>>>>>>)

CompileStmtRepeat(s, at, cx) ==
    LET until == <<"until", at>>
        body == CompileBody(s[2], at, until, cx)
        cond == CompileCondBoolExpr(s[3], at \o <<3>>, cx)
        test == <<"if", cond.x, <<<<"break">>>>, <<>>>>
    IN  Made(<<body, cond>>, <<<<"loop", <<>>, CTrue, body.s \o <<<<"label", until>>>> \o cond.s \o <<test>>, <<>>>>>>)

\* The arms from i on.
RECURSIVE CompileStmtIf(_, _, _, _)
CompileStmtIf(s, at, i, cx) ==
    LET cond == CompileCondBoolExpr(s[2][i], at \o <<2, i>>, cx)
        arm == CompileStmtBlock(s[3][i], at \o <<3, i>>, cx)
        rest == CompileStmtIf(s, at, i + 1, cx)
    IN  IF i > Len(s[2]) THEN CompileStmtBlock(s[4], at \o <<4>>, cx)
        ELSE Made(<<cond, arm, rest>>, cond.s \o <<<<"if", cond.x, arm.s, rest.s>>>>)

CompileStmtContinue(cx) == Wrote(<<IF cx.cont = NoText THEN <<"continue">> ELSE <<"goto", cx.cont>>>>, NoText)

CompileStmtGoto(l, cx) == IF l \notin DOMAIN cx.labels THEN ThrowError ELSE Wrote(<<<<"goto", cx.labels[l]>>>>, NoText)


(***************************************************************************)
(* Loops over numbers.                                                     *)
(***************************************************************************)
\* std::to_string of a constant step other than 1 and -1: six decimals, here multiples of StepUnit/Grain.
PrintedStep(q) == IF q \in {Grain, -Grain} THEN q ELSE ((2 * q + StepUnit) \div (2 * StepUnit)) * StepUnit

CompileTypedNumericForLoop(s, at, ty, cx) ==
    LET Tmp(k) == <<"tmp", at, k>>
        ctrl == Tmp("ctrl")
        end == Tmp("end")
        stop == Tmp("stop")
        go == Tmp("go")
        const == ClassifyConstNumberExp(s[5])
    IN  Given(ConstNumber(s[5]), LAMBDA value :
        LET step == IF ~const THEN Tmp("step")
                    ELSE NativeLit(IF ty = T_INT THEN value ELSE Float(PrintedStep(ToDouble(value))))
            toInt == ty = T_INT /\ LookupNodeType(at \o <<4>>, cx) = T_FLOAT
            bound == [i \in 3..5 |-> CompileNumericExp(s[i], at \o <<i>>, cx)]
            body == CompileBody(s[6], at \o <<6>>, NoText, cx)
            Dir(up, down) == IF ~const THEN <<"cond", <<"cmp", "GT", step, Int64(0)>>, up, down>> ELSE IF value.v > 0 THEN up ELSE down
            Put(v, x) == <<"set", v, ty, x>>
            readStep == IF const THEN <<>>
                        ELSE bound[5].s \o <<Put(step, bound[5].x), <<"if", <<"cmp", "EQ", step, Int64(0)>>, <<<<"throw">>>>, <<>>>>>>
            begin == bound[3].s \o <<Put(ctrl, bound[3].x)>> \o bound[4].s
                         \o (IF toInt THEN readStep \o <<<<"forlimit", Tmp("skip"), end, bound[4].x, step>>>>
                             ELSE <<Put(end, bound[4].x)>> \o readStep)
            next == Put(ctrl, <<"nat", "ADD", ty, ctrl, step>>)
            atEdge == IF value.v > 0 THEN <<"cmp", "GE", ctrl, Int64(MaxInt - (value.v - 1))>>
                      ELSE <<"cmp", "LE", ctrl, Int64(MinInt - (value.v + 1))>>
            advance == IF const THEN <<"if", atEdge, <<<<"set", stop, T_TRUTH, CTrue>>>>, <<next>>>> ELSE <<"advance", stop, ctrl, step>>
            inferred == LookupNodeType(at, cx)
            native == inferred = ty \/ (ty = T_INT /\ inferred = T_FLOAT)
            round == (IF native /\ ~IsCaptured(s[2], cx) THEN <<<<"decl", s[2].name, ty, ctrl>>>>
                      ELSE DeclareVar(s[2], T_DYNAMIC, BoxNativeValue(ctrl, ty), cx)) \o <<<<"block", body.s>>>>
            intLoop == <<<<"set", stop, T_TRUTH, CFalse>>,
                         <<"loop", <<>>, <<"and", Dir(<<"cmp", "LE", ctrl, end>>, <<"cmp", "GE", ctrl, end>>), <<"not", stop>>>>, round, <<advance>>>>>>
            floatLoop == <<<<"set", stop, T_TRUTH, CFalse>>,   \* "started"
                           <<"loop", <<<<"set", go, T_TRUTH, <<"not", Dir(<<"cmp", "LT", end, ctrl>>, <<"cmp", "LT", ctrl, end>>)>>>>,
                                       <<"if", <<"and", go, stop>>,
                                         <<next, <<"set", go, T_TRUTH, Dir(<<"cmp", "LE", ctrl, end>>, <<"cmp", "LE", end, ctrl>>)>>>>, <<>>>>>>,
                             go, round, <<<<"set", stop, T_TRUTH, CTrue>>>>>>>>
            loop == IF ty = T_INT THEN intLoop ELSE floatLoop
        IN  IF const /\ value.v = 0 THEN ThrowError
            ELSE Made(<<bound[3], bound[4], bound[5], body>>,
                      begin \o IF toInt THEN <<<<"if", Tmp("skip"), <<>>, loop>>>> ELSE loop))

\* The kind of the loop is found out when it starts; "continue" goes to the step.
CompileDynamicForLoop(s, at, cx) ==
    LET Tmp(k) == <<"tmp", at, k>>
        label == <<"for_cont", at>>
        bound == [i \in 3..5 |-> CompileExp(s[i], at \o <<i>>, FALSE, cx)]
        body == CompileBody(s[6], at \o <<6>>, label, cx)
        Set1(i, k) == bound[i].s \o <<<<"set", Tmp(k), T_DYNAMIC, bound[i].x>>>>
        round == DeclareVar(s[2], T_DYNAMIC, Tmp("ctrl"), cx) \o <<<<"block", body.s>>, <<"label", label>>, <<"fornext", at>>>>
    IN  Made(<<bound[3], bound[4], bound[5], body>>,
             Set1(3, "ctrl") \o Set1(4, "end") \o Set1(5, "step")
                 \o <<<<"forprep", at>>, <<"if", Tmp("skip"), <<>>, <<<<"loop", <<>>, CTrue, round, <<>>>>>>>>>>)

CompileStmtForLoop(s, at, cx) ==
    LET ty == LoopVarType(LookupNodeType(at \o <<3>>, cx), LookupNodeType(at \o <<4>>, cx), LookupNodeType(at \o <<5>>, cx))
    IN  IF IsNumericInferredType(ty) THEN CompileTypedNumericForLoop(s, at, ty, cx) ELSE CompileDynamicForLoop(s, at, cx)

(***************************************************************************)
(* Loops over tables and iterators.                                        *)
(***************************************************************************)
TryMatchPairsIpairs(s) ==
    LET e == s[3][1]
    IN  IF /\ Len(s[3]) = 1 /\ Len(s[2]) <= 2
           /\ e[1] = "call" /\ e[2][1] = "var" /\ e[2][2] \in {"pairs", "ipairs"} /\ e[2][3] = NoDef
           /\ Len(e[3]) = 1
        THEN e[2][2] ELSE "none"

\* The variables of a round from the values that name them, then the body in braces of its own.
HandleLoopVars(defs, xs, body, cx) ==
    FlattenSeq([i \in DOMAIN defs |-> DeclareVar(defs[i], T_DYNAMIC, xs[i], cx)]) \o <<<<"block", body.s>>>>

CompileForTable(s, at, kind, body, cx) ==
    LET Tmp(k) == <<"tmp", at, k>>
        tbl == CompileExp(s[3][1][3][1], at \o <<3, 1, 3, 1>>, FALSE, cx)
        start == tbl.s \o <<<<"set", Tmp("tbl"), T_DYNAMIC, tbl.x>>, <<"if", <<"is", "table", Tmp("tbl")>>, <<>>, <<<<"throw">>>>>>,
                            <<"set", Tmp("idx"), T_INT, Int64(IF kind = "pairs" THEN 0 ELSE 1)>>,
                            <<"set", Tmp("size"), T_INT, <<"count", Tmp("tbl")>>>>>>
        next == <<<<"set", Tmp("idx"), T_INT, <<"nat", "ADD", T_INT, Tmp("idx"), Int64(1)>>>>>>
        key == BoxNativeValue(Tmp("idx"), T_INT)
        index == <<"loop", <<<<"set", Tmp("v"), T_DYNAMIC, <<"get", Tmp("tbl"), key>>>>>>, <<"not", <<"is", "nil", Tmp("v")>>>>,
                   HandleLoopVars(s[2], <<key, Tmp("v")>>, body, cx), next>>
        entry == <<"loop", <<>>, <<"cmp", "LT", Tmp("idx"), Tmp("size")>>,
                   <<<<"entry", Tmp("k"), Tmp("v"), Tmp("tbl"), Tmp("idx")>>, <<"if", <<"is", "nil", Tmp("v")>>, <<<<"continue">>>>, <<>>>>>>
                       \o HandleLoopVars(s[2], <<Tmp("k"), Tmp("v")>>, body, cx), next>>
    IN  Made(<<tbl, body>>, start \o <<IF kind = "pairs" THEN entry ELSE index>>)

CompileForIterator(s, at, body, cx) ==
    LET Tmp(k) == <<"tmp", at, k>>
        es == s[3]
        n == Len(es)
        xs == ThenAll(n, LAMBDA i : CompileExp(es[i], at \o <<3, i>>, i = n, cx))
        last == Tmp("last")
        From(i) == IF n <= 2 /\ i >= n THEN <<"unbox", last, i - n>> ELSE <<"unbox", xs.x[i], 0>>
        names == <<"f", "s", "var">>
        start == (IF n > 2 THEN <<>> ELSE <<<<"set", last, T_DYNAMIC, xs.x[n]>>>>)
                     \o [i \in 1..3 |-> <<"set", Tmp(names[i]), T_DYNAMIC, From(i)>>]
                     \o [i \in 1..(n - 3) |-> <<"do", xs.x[i + 3]>>]
        values == [i \in DOMAIN s[2] |-> <<"unbox", Tmp("res"), i - 1>>]
        round == <<<<"set", Tmp("res"), T_DYNAMIC, <<"dyn", Tmp("f"), <<Tmp("s"), Tmp("var")>>>>>>,
                   <<"if", <<"is", "nil", values[1]>>, <<<<"break">>>>, <<>>>>, <<"set", Tmp("var"), T_DYNAMIC, values[1]>>>>
                     \o HandleLoopVars(s[2], values, body, cx)
    IN  Made(<<xs, body>>, xs.s \o start \o <<<<"loop", <<>>, CTrue, round, <<>>>>>>)

CompileStmtForIn(s, at, cx) ==
    LET body == CompileBody(s[4], at \o <<4>>, NoText, cx)
        kind == TryMatchPairsIpairs(s)
    IN  IF kind = "none" THEN CompileForIterator(s, at, body, cx) ELSE CompileForTable(s, at, kind, body, cx)


(***************************************************************************)
(* t[k] = v.  A value is compiled once as a CVar and once more natively    *)
(* when the key is a literal integer; a native key comes before the table. *)
(***************************************************************************)
TryCompileSetTableCall(s, at, cx) ==
    LET t == CompileExp(s[2], at \o <<2>>, FALSE, cx)
        k == CompileExp(s[3], at \o <<3>>, FALSE, cx)
        v == CompileExp(s[4], at \o <<4>>, FALSE, cx)
        keyType == GetType(s[3], at \o <<3>>, cx)
        valType == GetType(s[4], at \o <<4>>, cx)
        nativeKey == IF keyType = T_INT THEN TryCompileNativeExpr(s[3], at \o <<3>>, cx) ELSE Text(NoText)
        nativeVal == IF IsNumericInferredType(valType) THEN TryCompileNativeExpr(s[4], at \o <<4>>, cx) ELSE Text(NoText)
        asNative == nativeVal.x # NoText
        value == IF asNative THEN BoxNativeValue(nativeVal.x, valType) ELSE v.x
        intKey == ClassifyConstNumberExp(s[3]) /\ ConstNumber(s[3]).t = "int"
        type == GetSpecTypeForVar(at \o <<2>>, cx)
        order == FieldOrder(type, cx)
        field == LiteralKey(s[3])
        tmp == <<"tmp", at, "spec_val">>
    IN  CASE TryMatchSpecKey(s[3], type) ->
               Made(<<t, v>>, t.s \o v.s \o <<<<"set", tmp, T_DYNAMIC, v.x>>,
                                             <<"setspec", order, t.x, field, IndexOf(order, field), <<"lit", field>>, tmp>>>>)
          [] ClassifyLiteralKey(s[3]) /\ ~TryMatchSpecKey(s[3], type) ->
               Made(<<t, v>>, t.s \o v.s \o (IF intKey THEN nativeVal.s ELSE <<>>)
                                \o <<<<"settab", t.x, k.x, IF intKey THEN value ELSE v.x>>>>)
          [] ~ClassifyLiteralKey(s[3]) /\ nativeKey.x # NoText ->
               Made(<<t, IF asNative THEN t ELSE v>>,
                    nativeKey.s \o t.s \o nativeVal.s \o (IF asNative THEN <<>> ELSE v.s)
                        \o <<<<"settab", t.x, BoxNativeValue(nativeKey.x, T_INT), value>>>>)
          [] OTHER -> Made(<<t, k, v>>, nativeKey.s \o t.s \o k.s \o v.s \o <<<<"settab", t.x, k.x, v.x>>>>)

CompileStmtLocalFunction(s, cx) == Wrote(DeclareVar(s[2], T_DYNAMIC, MakeClosure(s[3], cx), cx), NoText)

CompileStmt(s, at, cx) ==
    CASE s[1] = "return" -> CompileStmtReturn(s, at, cx)
      [] s[1] = "local" -> CompileStmtLocalVar(s, at, cx)
      [] s[1] = "assign" -> CompileStmtAssign(s, at, cx)
      [] s[1] = "settab" -> TryCompileSetTableCall(s, at, cx)
      [] s[1] = "callst" -> Straight(CompileFunctioncall(s[2], at \o <<2>>, cx), <<>>)
      [] s[1] = "block" -> LET b == CompileStmtBlock(s[2], at, cx) IN Made(<<b>>, <<<<"block", b.s>>>>)
      [] s[1] = "while" -> CompileStmtWhile(s, at, cx)
      [] s[1] = "repeat" -> CompileStmtRepeat(s, at, cx)
      [] s[1] = "if" -> CompileStmtIf(s, at, 1, cx)
      [] s[1] = "for" -> CompileStmtForLoop(s, at, cx)
      [] s[1] = "forin" -> CompileStmtForIn(s, at, cx)
      [] s[1] = "localfn" -> CompileStmtLocalFunction(s, cx)
      [] s[1] = "break" -> Wrote(<<<<"break">>>>, NoText)
      [] s[1] = "continue" -> CompileStmtContinue(cx)
      [] s[1] = "goto" -> CompileStmtGoto(s[2], cx)
      [] s[1] = "label" -> Wrote(<<<<"label", cx.labels[s[2]]>>>>, NoText)
      [] OTHER -> ThrowError

CompileStmts(block, at, cx) ==
    LET marks == {i \in DOMAIN block : block[i][1] = "label"}
        names == {block[i][2] : i \in marks}
        inner == [cx EXCEPT !.labels = [l \in names |-> <<"label", at, l>>] @@ @]
    IN  IF Cardinality(names) # Cardinality(marks) THEN ThrowError
        ELSE ThenAll(Len(block), LAMBDA i : CompileStmt(block[i], at \o <<100 + i>>, inner))

CompileNode(kind, e, at, cx) ==
    CASE kind \in {"value", "values"} -> CompileValue(e, at, kind = "values", cx)
      [] kind = "number" -> CompileNumber(e, at, cx)
      [] kind \in {"truth", "pure"} -> CompileTruth(e, at, kind = "pure", cx)
      [] kind = "cond" -> CompileCond(e, at, cx)
      [] kind = "block" -> CompileStmts(e, at, cx)

(***************************************************************************)
(* Functions.  The code of a unit maps the name of a C function to its     *)
(* parameters with their types, the type it returns and its body.          *)
(***************************************************************************)
BlockEndsWithReturn(block) == block # <<>> /\ Last(block)[1] = "return"

\* Captured parameters are boxed first.
CompileFuncBody(f, name, mask, u) ==
    LET math == IF mask < 0 THEN <<>> ELSE u.ir.positions[name]
        TypeOf(i) == IF (mask \div 2 ^ (i - 1)) % 2 = 1 THEN T_FLOAT ELSE T_INT
        paramTypes == [x \in {f[3][math[i]].name : i \in DOMAIN math} |-> TypeOf(CHOOSE i \in DOMAIN math : f[3][math[i]].name = x)]
        cx == [u |-> u, fn |-> f[2], name |-> name, spec |-> mask, paramTypes |-> paramTypes, cont |-> NoText,
               labels |-> [l \in {} |-> NoText],
               snapshot |-> IF mask < 0 THEN [p \in {} |-> T_UNKNOWN] ELSE u.ir.snapshots[name][mask + 1]]
        Arg(x) == IF x \in DOMAIN paramTypes THEN BoxNativeValue(<<"id", x>>, paramTypes[x]) ELSE <<"id", x>>
        boxes == FlattenSeq([i \in DOMAIN f[3] |-> IF f[3][i] \notin u.captured THEN <<>>
                                                   ELSE DeclareVar(f[3][i], T_DYNAMIC, Arg(f[3][i].name), cx)])
        ret == IF mask < 0 THEN T_DYNAMIC ELSE GetSpecReturnType(name, mask, cx)
        fall == CASE ret = T_INT -> Int64(0) [] ret = T_FLOAT -> NativeLit(Float(0)) [] OTHER -> kNil
    IN  Given(CompileStmtBlock(f[5], f[2], cx), LAMBDA body :
        [ok |-> body.ok = "ok",
         fn |-> [params |-> [i \in DOMAIN f[3] |-> f[3][i].name],
                 types |-> [i \in DOMAIN f[3] |-> IF f[3][i].name \in DOMAIN paramTypes THEN paramTypes[f[3][i].name] ELSE T_DYNAMIC],
                 ret |-> IF IsNumericInferredType(ret) THEN ret ELSE T_DYNAMIC,
                 body |-> boxes \o body.s \o IF BlockEndsWithReturn(f[5]) THEN <<>> ELSE <<<<"ret", fall>>>>]])

\* The entry of a function with versions: by the types of the math arguments.
GenerateEntryDispatcher(f, name, u) ==
    LET pos == u.ir.positions[name]
        Arg(i) == <<"id", f[3][i].name>>
        math == {pos[i] : i \in DOMAIN pos}
        all == [i \in DOMAIN f[3] |-> Arg(i)]
        TypeIn1(i, m) == IF (m \div 2 ^ (i - 1)) % 2 = 1 THEN T_FLOAT ELSE T_INT
        IndexIn(i) == CHOOSE k \in DOMAIN pos : pos[k] = i
        Raw(m) == [i \in DOMAIN f[3] |-> IF i \in math THEN <<"raw", TypeIn1(IndexIn(i), m), Arg(i)>> ELSE Arg(i)]
        Boxed(m, x) == IF IsNumericInferredType(u.ir.ret[name][m + 1]) THEN BoxNativeValue(x, u.ir.ret[name][m + 1]) ELSE x
        Case(m) == <<"ret", Boxed(m, <<"call", <<"spec", f[2], m>>, Raw(m)>>)>>
    IN  [params |-> [i \in DOMAIN f[3] |-> f[3][i].name], types |-> [i \in DOMAIN f[3] |-> T_DYNAMIC], ret |-> T_DYNAMIC,
         body |-> <<<<"switch", [i \in DOMAIN pos |-> Arg(pos[i])], [m \in 1 .. 2 ^ Len(pos) |-> <<Case(m - 1)>>],
                      <<<<"ret", <<"call", <<"dyn", f[2]>>, all>>>>>>>>>>]

\* Every function of a file, nested ones included.
AllFuncs(tree) ==
    LET nodes == {n[2] : n \in WalkBlock(tree, <<>>)}
    IN  {n \in nodes : n[1] = "func"} \cup {n[3] : n \in {m \in nodes : m[1] \in {"localfn", "function"}}}

FileFuncs(tree) ==
    LET fns == {i \in DOMAIN tree : tree[i][1] \in {"localfn", "function"}}
        NameAt(i) == IF tree[i][1] = "function" THEN tree[i][2] ELSE tree[i][2].name
        F(x) == tree[CHOOSE i \in fns : NameAt(i) = x][3]
    IN  [x \in {NameAt(i) : i \in fns} |-> [at |-> F(x)[2], n |-> Len(F(x)[3]), vararg |-> F(x)[4]]]

\* The variables of enclosing functions that a function or one inside it uses.
CapturedVars(uses, f) ==
    LET inside(g) == Len(g) >= Len(f) /\ SubSeq(g, 1, Len(f)) = f
    IN  SetToSeq({u[2] : u \in {w \in uses : inside(w[1]) /\ w[2].fn # <<>> /\ ~inside(w[2].fn)}})

GenerateUnit(tree, ar, ir) ==
    LET funcs == AllFuncs(tree)
        uses == UNION {Uses(tree[i], <<>>) : i \in DOMAIN tree}
    IN  [ar |-> ar, ir |-> ir, funcs |-> FileFuncs(tree),
         captured |-> {w[2] : w \in {y \in uses : y[2].fn # <<>> /\ y[1] # y[2].fn}},
         ups |-> [p \in {f[2] : f \in funcs} |-> CapturedVars(uses, p)]]

\* A file-level number is a native constant, any other value a CVar.
GenerateGlobal(tree, u) ==
    LET cx == [u |-> u, fn |-> <<>>, name |-> "", spec |-> -1, paramTypes |-> NoNames, cont |-> NoText,
               labels |-> [l \in {} |-> NoText], snapshot |-> [p \in {} |-> T_UNKNOWN]]
    IN  ThenAll(Len(tree), LAMBDA i :
            IF tree[i][1] # "local" THEN Wrote(<<>>, NoText)
            ELSE ThenAll(Len(tree[i][2]), LAMBDA j :
                     LET e == tree[i][3][j]
                         x == tree[i][2][j].name
                         ty == u.ir.globals[x]
                         numeric == IsNumericInferredType(ty)
                         zero == IF ty = T_INT THEN Int64(0) ELSE NativeLit(Float(0))
                     IN  Given(IF j > Len(tree[i][3]) \/ e[1] = "nil" THEN Text(IF numeric THEN zero ELSE kNil)
                               ELSE CompileNode(IF numeric THEN "number" ELSE "value", e, <<100 + i, 3, j>>, cx), LAMBDA r :
                         Straight(r, <<<<"decl", x, IF numeric THEN ty ELSE T_DYNAMIC, r.x>>>>))))

CompileParList(f, u) ==
    LET names == [i \in DOMAIN f[3] |-> f[3][i].name]
    IN  Cardinality(Range(names)) = Len(names) /\ Range(names) \cap DOMAIN u.ir.globals = {}

\* Generate: the code of every function, the file-level variables, and whether the file compiles.
Generate(tree, ar, ir) ==
    Given(GenerateUnit(tree, ar, ir), LAMBDA u :
    LET funcs == AllFuncs(tree)
        Node(p) == CHOOSE f \in funcs : f[2] = p
    IN  Given([p \in {u.funcs[x].at : x \in DOMAIN ir.positions} |-> CHOOSE x \in DOMAIN ir.positions : u.funcs[x].at = p], LAMBDA mathAt :
        LET plain == {<<"fn", f[2]>> : f \in {g \in funcs : g[2] \notin DOMAIN mathAt}}
            entries == {<<"fn", p>> : p \in DOMAIN mathAt}
            dyns == {<<"dyn", p>> : p \in DOMAIN mathAt}
            specs == UNION {{<<"spec", p, m - 1>> : m \in Masks(ir.positions, mathAt[p])} : p \in DOMAIN mathAt}
            NameOf(p) == IF p \in DOMAIN mathAt THEN mathAt[p] ELSE ""
        IN  Given([d \in plain \cup dyns \cup specs |->
                      CompileFuncBody(Node(d[2]), NameOf(d[2]), IF d \in specs THEN d[3] ELSE -1, u)], LAMBDA bodies :
            Given(GenerateGlobal(tree, u), LAMBDA globals :
            [ok |-> /\ globals.ok = "ok"
                    /\ \A d \in DOMAIN bodies : bodies[d].ok
                    /\ \A f \in funcs : CompileParList(f, u),
             code |-> [d \in DOMAIN bodies \cup entries |->
                          IF d \in entries THEN GenerateEntryDispatcher(Node(d[2]), mathAt[d[2]], u) ELSE bodies[d].fn],
             globals |-> globals.s,
             funcs |-> u.funcs]))))

=============================================================================
