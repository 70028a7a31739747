------------------------------ MODULE CRuntime ------------------------------
(***************************************************************************)
(* What the C that CGen writes does, with the functions of                 *)
(* compile/c_runtime_header.h that it calls.  The store s holds            *)
(*   mem   the variables, each with its C type (no value: uninitialized)   *)
(*   tmp   the temporaries of the running function                         *)
(*   up    the boxes of the closure that runs                              *)
(*   tabs, clos   the tables and closures                                  *)
(*   init  whether the init function runs: what it makes is constant       *)
(*   err   whether an error was raised                                     *)
(*   bad   "form": no C compiler accepts this; "undef": a number was read  *)
(*         out of a CVar that holds none of its type, a variable was read  *)
(*         before it was set, or a float was converted out of range;       *)
(*         "shape": a value was taken for a table with a struct of a type  *)
(*         that it does not have                                           *)
(*   code, globals   the C functions, the places of file-level variables   *)
(* An expression gives [v, s]; a statement [env, sig, v, s].  A native     *)
(* number has type "i64" or "f64", a condition "truth".                    *)
(***************************************************************************)
EXTENDS Naming, CGen

NoValue == [t |-> "none", v |-> 0, s |-> <<>>]
I64(n) == [t |-> "i64", v |-> n, s |-> <<>>]
F64(q) == [t |-> "f64", v |-> q, s |-> <<>>]

Stopped(s) == s.err \/ s.bad # ""
Raise(s) == [s EXCEPT !.err = TRUE]
Undefined(s) == [s EXCEPT !.bad = "undef"]
Misshapen(s) == [s EXCEPT !.bad = "shape"]
NotC(s) == [s EXCEPT !.bad = "form"]
Gives(v, s) == [v |-> v, s |-> s]
OrRaise(v, s) == IF v = Failed THEN Gives(Nil, Raise(s)) ELSE Gives(v, s)

IsNative(v) == v.t \in {"i64", "f64"}
IsCVar(v) == v.t \notin {"i64", "f64", "truth", "none"}
Units(v) == IF v.t = "i64" THEN v.v * Grain ELSE v.v

\* C's conversion of a value to a type.
ToType(v, ty, s) ==
    CASE ty = T_DYNAMIC /\ IsCVar(v) -> Gives(v, s)
      [] ty = T_TRUTH /\ v.t = "truth" -> Gives(v, s)
      [] ty = T_FLOAT /\ IsNative(v) -> Gives(F64(Units(v)), s)
      [] ty = T_INT /\ v.t = "i64" -> Gives(v, s)
      [] ty = T_INT /\ v.t = "f64" ->
           IF CDiv(v.v, Grain) \in MinInt..MaxInt THEN Gives(I64(CDiv(v.v, Grain)), s) ELSE Gives(v, Undefined(s))
      [] OTHER -> Gives(v, NotC(s))

Boxed(v) == IF v.t = "i64" THEN Number(v.v) ELSE Float(v.v)
Native(v) == IF v.t = "int" THEN I64(v.v) ELSE F64(v.v)
Relates(op, x, y) ==
    CASE op = "LT" -> x < y [] op = "LE" -> x <= y [] op = "GT" -> x > y
      [] op = "GE" -> x >= y [] op = "EQ" -> x = y [] op = "NE" -> x # y

(***************************************************************************)
(* Operations on CVars and on native numbers.                              *)
(***************************************************************************)
\* OpAdd .. OpRightShift and FlCmp: VmOps has LT, LE and EQ of the comparisons.
RuntimeOp(op, x, y) ==
    CASE op \in {"GT", "GE"} -> Binop(IF op = "GT" THEN "LT" ELSE "LE", y, x)
      [] op = "NE" -> Bool(~VarEqual(x, y))
      [] OTHER -> Binop(op, x, y)

\* FL_INT_ADD, FlFloorDivInt, FlModInt, FlModFloat, FlShiftIntImpl and C's operators.
NativeOp(op, ty, x, y, s) ==
    LET a == ToType(x, ty, s)
        b == ToType(y, ty, a.s)
    IN  Given(CASE ty = T_INT -> IF op \in BitOps THEN BitOp(op, a.v.v, b.v.v) ELSE IntOp(op, a.v.v, b.v.v)
                [] OTHER -> FloatOp(op, a.v.v, b.v.v), LAMBDA r :
        IF Stopped(b.s) THEN b ELSE IF r = Failed THEN Gives(x, Raise(b.s)) ELSE Gives(Native(r), b.s))

(***************************************************************************)
(* Tables.  A table made with a struct has, besides its entries, the       *)
(* fields of the struct in the order of its type and, for loops over the   *)
(* table, an array of their keys and one of their values (spec_keys,       *)
(* spec_vals).  What has no value yet is uninitialised memory.             *)
(***************************************************************************)
NewTable(order, s) ==
    LET unset == [i \in DOMAIN order |-> NoValue]
    IN  Gives(Table(Len(s.tabs) + 1),
              [s EXCEPT !.tabs = Append(@, [e |-> <<>>, const |-> s.init, order |-> order, fields |-> unset, keys |-> unset, vals |-> unset])])

\* The field that the functions of the type (EmitSpecAccessorBody) select for a key, or 0.
SpecField(tab, k) ==
    LET order == tab.order
        same == {i \in DOMAIN order : order[i] = NormalizeKey(k)}
        alike == {i \in DOMAIN order : VarEqual(order[i], k)}
    IN  IF same # {} THEN CHOOSE i \in same : TRUE ELSE IF alike # {} THEN CHOOSE i \in alike : TRUE ELSE 0

RawGet(tab, k) == IF SpecField(tab, k) # 0 THEN tab.fields[SpecField(tab, k)] ELSE TableGet(tab, k)

OpLen(x, s) ==
    IF x.t # "table" THEN Failed
    ELSE LET tab == s.tabs[x.v]
             Holds(n) == RawGet(tab, Number(n)) # Nil
         IN  Number(CHOOSE n \in 0..(Len(tab.e) + Len(tab.order)) : (\A i \in 1..n : Holds(i)) /\ ~Holds(n + 1))

FlCombineMulti(xs, last) == Multi([i \in DOMAIN xs |-> UnboxMulti(xs[i], 0)] \o Expand(last))

FlSliceMulti(x, i) ==
    IF x.t # "multi" THEN IF i = 0 THEN x ELSE Nil
    ELSE IF i >= Len(x.s) THEN Nil ELSE Multi(SubSeq(x.s, i + 1, Len(x.s)))

Read(v, s) == IF v = NoValue THEN Gives(Nil, Undefined(s)) ELSE Gives(v, s)

FlGetTable(t, k, s) == IF t.t # "table" \/ k = Nil THEN Gives(Nil, Raise(s)) ELSE Read(RawGet(s.tabs[t.v], k), s)

\* The value of a field, and entry i of a loop.
SetField(tab, field, i, k, v) == [tab EXCEPT !.fields[field] = v, !.keys[i] = k, !.vals[i] = v]

FlSetTable(t, k, v, s) ==
    IF t.t # "table" \/ k = Nil \/ (s.tabs[t.v].const /\ ~s.init) THEN Raise(s)
    ELSE LET field == SpecField(s.tabs[t.v], k)
         IN  [s EXCEPT !.tabs[t.v] = IF field = 0 THEN TableSet(@, k, v) ELSE SetField(@, field, field, NormalizeKey(k), v)]

\* The value is taken for a table with a struct of this type, unchecked.
HasShape(t, order, s) == t.t = "table" /\ s.tabs[t.v].order = order
FL_SPEC(t, order, k, s) ==
    IF ~HasShape(t, order, s) THEN Gives(Nil, Misshapen(s)) ELSE Read(s.tabs[t.v].fields[IndexOf(order, k)], s)
FL_SET_SPEC(t, order, f, i, k, v, s) ==
    CASE ~HasShape(t, order, s) -> Misshapen(s)
      [] HasShape(t, order, s) /\ s.tabs[t.v].const /\ ~s.init -> Raise(s)
      [] OTHER -> [s EXCEPT !.tabs[t.v] = SetField(@, IndexOf(order, f), i, k, v)]

\* The entries that a loop over a table goes through: those of the struct come first.
TABLE_SIZE(t, s) == Len(s.tabs[t.v].e) + Len(s.tabs[t.v].order)
GET_TABLE_ENTRY(t, i, s) ==
    LET tab == s.tabs[t.v]
        n == Len(tab.order)
    IN  IF i < n THEN <<tab.keys[i + 1], tab.vals[i + 1]>> ELSE IF i - n < Len(tab.e) THEN tab.e[i - n + 1] ELSE <<Nil, Nil>>

FlTableExpandMulti(t, i, v, s) ==
    InTurn(LAMBDA acc, j : IF acc.err THEN acc ELSE FlSetTable(t, Number(i + j - 1), Expand(v)[j], acc), s, Len(Expand(v)))

FlMakeClosure(e, env, s) ==
    LET Place(u) == IF u[1] = "box" THEN env[u] ELSE s.up[u[2]]
    IN  Gives(Closure(Len(s.clos) + 1),
              [s EXCEPT !.clos = Append(@, [f |-> e[2], n |-> e[3], vararg |-> e[4], ups |-> [i \in DOMAIN e[5] |-> Place(e[5][i])]])])

\* The arguments a closure's function gets: the last Multi expanded, then cut or padded to the parameters.
ClosureArgs(c, args) ==
    LET flat == IF args = <<>> THEN <<>> ELSE [i \in 1..(Len(args) - 1) |-> UnboxMulti(args[i], 0)] \o Expand(Last(args))
        fixed == IF c.vararg THEN c.n - 1 ELSE c.n
        Fixed(i) == IF i <= Len(flat) THEN flat[i] ELSE Nil
    IN  [i \in 1..fixed |-> Fixed(i)] \o IF c.vararg THEN <<Multi(SubSeq(flat, fixed + 1, Len(flat)))>> ELSE <<>>

(***************************************************************************)
(* Expressions.                                                            *)
(***************************************************************************)
RECURSIVE Ev(_, _, _), Run(_, _, _, _, _)

\* The statements of a list run from the first; the recursion of the runtime goes through Ev alone.
RunAll(ss, env, s) == Ev(<<"stmts", ss>>, env, s)

\* Several expressions, from left to right: [v |-> values, s].
EvAll(es, env, s) ==
    InTurn(LAMBDA acc, i : LET r == Ev(es[i], env, acc.s) IN Gives(Append(acc.v, r.v), r.s), Gives(<<>>, s), Len(es))

ReadCell(loc, s) == IF s.mem[loc].v = NoValue THEN Gives(Nil, Undefined(s)) ELSE Gives(s.mem[loc].v, s)

\* The function named d called with values: parameters and temporaries of its own.
Invoke(d, args, ups, s) ==
    LET f == s.code[d]
        n == Len(f.params)
        Pass(acc, i) == LET a == ToType(args[i], f.types[i], acc.s) IN Gives(Append(acc.v, [ty |-> f.types[i], v |-> a.v]), a.s)
    IN  Given(InTurn(Pass, Gives(<<>>, s), n), LAMBDA in :
        LET env == s.globals @@ [k \in {} |-> 0]
            bound == [k \in DOMAIN env \cup {<<"id", f.params[i]>> : i \in 1..n} |->
                         IF \E i \in 1..n : k = <<"id", f.params[i]>>
                         THEN Len(s.mem) + CHOOSE i \in 1..n : k = <<"id", f.params[i]>> ELSE env[k]]
        IN  Given(RunAll(f.body, bound, [in.s EXCEPT !.mem = @ \o in.v, !.tmp = [k \in {} |-> Nil], !.up = ups]), LAMBDA r :
            LET out == ToType(r.v, f.ret, r.s)
                Back(st) == [st EXCEPT !.tmp = s.tmp, !.up = s.up]
            IN  IF Len(args) # n THEN Gives(Nil, NotC(s))
                ELSE IF Stopped(in.s) THEN Gives(Nil, in.s)
                ELSE IF Stopped(r.s) THEN Gives(Nil, r.s)
                ELSE IF r.sig # "return" THEN Gives(Nil, Undefined(r.s))
                ELSE Gives(out.v, Back(out.s))))

FlCallClosure(f, args, s) ==
    IF f.t # "closure" THEN Gives(Nil, Raise(s))
    ELSE LET c == s.clos[f.v] IN Invoke(c.f, ClosureArgs(c, args), c.ups, s)

\* One operand, then what F makes of its value; "kind" is what the operand must be.
With(e, env, s, kind, F(_, _)) ==
    LET r == Ev(e, env, s)
        fits == CASE kind = "native" -> IsNative(r.v) [] kind = "truth" -> r.v.t = "truth" [] OTHER -> IsCVar(r.v)
    IN  IF Stopped(r.s) THEN r ELSE IF ~fits THEN Gives(Nil, NotC(r.s)) ELSE F(r.v, r.s)
With2(a, b, env, s, kind, F(_, _, _)) ==
    With(a, env, s, kind, LAMBDA x, s1 : With(b, env, s1, kind, LAMBDA y, s2 : F(x, y, s2)))
WithAll(es, env, s, F(_, _)) ==
    LET r == EvAll(es, env, s)
    IN  IF Stopped(r.s) THEN Gives(Nil, r.s) ELSE F(r.v, r.s)
CVarsOnly(xs, s, F(_)) == IF \E i \in DOMAIN xs : ~IsCVar(xs[i]) THEN Gives(Nil, NotC(s)) ELSE Gives(F(xs), s)

EvNumber(e, env, s) ==
    CASE e[1] = "cvar" -> With(e[3], env, s, "native", LAMBDA v, t : LET c == ToType(v, e[2], t) IN Gives(Boxed(c.v), c.s))
      [] e[1] = "raw" -> With(e[3], env, s, "cvar", LAMBDA v, t :
                              IF v.t = (IF e[2] = T_INT THEN "int" ELSE "float") THEN Gives(Native(v), t) ELSE Gives(v, Undefined(t)))
      [] e[1] = "cast" -> With(e[3], env, s, "native", LAMBDA v, t : ToType(v, e[2], t))
      [] e[1] = "toint" -> With(e[2], env, s, "native", LAMBDA v, t :
                                IF DoubleFitsInt64(Units(v)) THEN Gives(I64(Units(v) \div Grain), t) ELSE Gives(v, Raise(t)))
      [] e[1] = "tonum" -> With(e[3], env, s, "cvar", LAMBDA v, t :
                                IF ~CheckNum(v) THEN Gives(v, Raise(t)) ELSE ToType(Native(v), e[2], t))
      [] e[1] = "nat" -> With2(e[4], e[5], env, s, "native", LAMBDA x, y, t : NativeOp(e[2], e[3], x, y, t))
      [] e[1] = "neg" -> With(e[2], env, s, "native", LAMBDA v, t : Gives([v EXCEPT !.v = -@], t))
      [] e[1] = "bnot" -> With(e[2], env, s, "native", LAMBDA v, t : IF v.t = "i64" THEN Gives(I64(-1 - v.v), t) ELSE Gives(v, NotC(t)))
      [] e[1] = "len" -> With(e[2], env, s, "cvar", LAMBDA v, t :
                              IF OpLen(v, t) = Failed THEN Gives(v, Raise(t)) ELSE Gives(Native(OpLen(v, t)), t))
      [] e[1] = "count" -> With(e[2], env, s, "cvar", LAMBDA v, t : Gives(I64(TABLE_SIZE(v, t)), t))

EvCondition(e, env, s) ==
    CASE e[1] = "cmp" -> With2(e[3], e[4], env, s, "native", LAMBDA x, y, t : Gives(Truth(Relates(e[2], Units(x), Units(y))), t))
      [] e[1] = "istrue" -> With(e[2], env, s, "cvar", LAMBDA v, t : Gives(Truth(IsTrue(v)), t))
      [] e[1] = "is" -> With(e[3], env, s, "cvar", LAMBDA v, t : Gives(Truth(v.t = e[2]), t))
      [] e[1] = "not" -> With(e[2], env, s, "truth", LAMBDA v, t : Gives(Truth(v.v = 0), t))
      [] e[1] = "and" -> With(e[2], env, s, "truth", LAMBDA v, t : IF v.v = 0 THEN Gives(v, t) ELSE Ev(e[3], env, t))
      [] e[1] = "cond" -> With(e[2], env, s, "truth", LAMBDA v, t : Ev(IF v.v = 1 THEN e[3] ELSE e[4], env, t))

EvValue(e, env, s) ==
    CASE e[1] = "cbool" -> With(e[2], env, s, "truth", LAMBDA v, t : Gives(Bool(v.v = 1), t))
      [] e[1] = "op" -> With2(e[3], e[4], env, s, "cvar", LAMBDA x, y, t : OrRaise(RuntimeOp(e[2], x, y), t))
      [] e[1] = "unop" -> With(e[3], env, s, "cvar", LAMBDA v, t : OrRaise(IF e[2] = "LEN" THEN OpLen(v, t) ELSE Unop(e[2], v), t))
      [] e[1] = "get" -> With2(e[2], e[3], env, s, "cvar", FlGetTable)
      [] e[1] = "spec" -> With(e[3], env, s, "cvar", LAMBDA v, t : FL_SPEC(v, e[2], e[4], t))
      [] e[1] = "unbox" -> With(e[2], env, s, "cvar", LAMBDA v, t : Gives(UnboxMulti(v, e[3]), t))
      [] e[1] = "slice" -> With(e[2], env, s, "cvar", LAMBDA v, t : Gives(FlSliceMulti(v, e[3]), t))
      [] e[1] = "multi" -> WithAll(e[2], env, s, LAMBDA xs, t : CVarsOnly(xs, t, Multi))
      [] e[1] = "combine" -> WithAll(Append(e[2], e[3]), env, s, LAMBDA xs, t :
                                     CVarsOnly(xs, t, LAMBDA ys : FlCombineMulti(Front(ys), Last(ys))))
      [] e[1] \in {"newtab", "newspec"} -> NewTable(IF e[1] = "newtab" THEN <<>> ELSE e[2], s)
      [] e[1] = "closure" -> FlMakeClosure(e, env, s)

Ev(e, env, s) ==
    IF e[1] = "stmts" THEN Run(e[2], 1, env, s, <<>>)
    ELSE IF Stopped(s) THEN Gives(Nil, s)
    ELSE CASE e[1] = "lit" -> Gives(e[2], s)
           [] e[1] \in {"id", "box"} -> IF e \notin DOMAIN env THEN Gives(Nil, NotC(s)) ELSE ReadCell(env[e], s)
           [] e[1] = "up" -> ReadCell(s.up[e[2]], s)
           [] e[1] = "tmp" -> IF e \in DOMAIN s.tmp THEN Gives(s.tmp[e], s) ELSE Gives(Nil, Undefined(s))
           [] e[1] = "call" -> WithAll(e[3], env, s, LAMBDA xs, t : Invoke(e[2], xs, <<>>, t))
           [] e[1] = "dyn" -> With(e[2], env, s, "cvar", LAMBDA f, s1 :
                                   WithAll(e[3], env, s1, LAMBDA xs, t : FlCallClosure(f, xs, t)))
           [] e[1] = "byname" -> Gives(Nil, Raise(s))
           [] e[1] \in {"cvar", "raw", "cast", "toint", "tonum", "nat", "neg", "bnot", "len", "count"} -> EvNumber(e, env, s)
           [] e[1] \in {"cmp", "istrue", "is", "not", "and", "cond"} -> EvCondition(e, env, s)
           [] e[1] \in {"cbool", "op", "unop", "get", "unbox", "slice", "multi", "combine", "newtab", "newspec", "spec", "closure"} -> EvValue(e, env, s)
           [] OTHER -> Gives(Nil, NotC(s))

(***************************************************************************)
(* Statements.                                                             *)
(***************************************************************************)
Goes(env, s) == [env |-> env, sig |-> "ok", v |-> Nil, s |-> s]
Leaves(env, sig, v, s) == [env |-> env, sig |-> sig, v |-> v, s |-> s]
SetTmp(s, p, v) == [s EXCEPT !.tmp = (p :> v) @@ @]
Store(loc, v, s) == LET c == ToType(v, s.mem[loc].ty, s) IN IF Stopped(c.s) THEN c.s ELSE [c.s EXCEPT !.mem[loc].v = c.v]

\* A declaration: the name is in scope in its own initializer.
Declare(key, ty, env, s) ==
    [env |-> (key :> Len(s.mem) + 1) @@ env, s |-> [s EXCEPT !.mem = Append(@, [ty |-> ty, v |-> NoValue])]]

AssignTo(place, v, env, s) ==
    CASE place[1] \in {"id", "box"} /\ place \in DOMAIN env -> Store(env[place], v, s)
      [] place[1] = "up" -> Store(s.up[place[2]], v, s)
      [] OTHER -> NotC(s)

\* The start and the step of a loop whose kind is known when it runs.
ForPrepare(at, s) ==
    LET T(k) == s.tmp[<<"tmp", at, k>>]
        int == T("ctrl").t = "int" /\ T("step").t = "int"
        lim == ForLimitToInt(T("end"), T("step").v)
        up == T("step").v > 0
        skips == IF up THEN Binop("LT", T("end"), T("ctrl")) ELSE Binop("LT", T("ctrl"), T("end"))
        Put(st, k, v) == SetTmp(st, <<"tmp", at, k>>, v)
        skip == lim.skip \/ ForSkips(T("ctrl").v, lim.v, T("step").v)
        Double(st, k) == Put(st, k, Float(ToDouble(T(k))))
    IN  IF ~CheckNum(T("step")) \/ T("step").v = 0 THEN Raise(s)
        ELSE IF int THEN IF ~CheckNum(T("end")) THEN Raise(s)
                         ELSE Put(IF lim.skip THEN s ELSE Put(s, "end", Number(lim.v)), "skip", Truth(skip))
        ELSE IF skips = Failed THEN Raise(s)
        ELSE Double(Double(Double(Put(s, "skip", Truth(IsTrue(skips))), "ctrl"), "end"), "step")

\* FlForIntAdvance: whether the next value is an integer.
FlForIntAdvance(n, step) == n + step \in MinInt..MaxInt

ForNext(at, env, s) ==
    LET T(k) == s.tmp[<<"tmp", at, k>>]
        int == T("ctrl").t = "int"
        next == T("ctrl").v + T("step").v
        past == IF T("step").v > 0 THEN next > T("end").v ELSE next < T("end").v
        stop == past \/ (int /\ ~FlForIntAdvance(T("ctrl").v, T("step").v))
    IN  IF stop THEN Leaves(env, "break", Nil, s)
        ELSE Goes(env, SetTmp(s, <<"tmp", at, "ctrl">>, [T("ctrl") EXCEPT !.v = next]))

\* Rounds of a loop: "continue" goes to the step.
RECURSIVE Rounds(_, _, _)
Rounds(st, env, s) ==
    LET pre == RunAll(st[2], env, s)
        c == Ev(st[3], env, pre.s)
        body == RunAll(st[4], env, c.s)
        step == RunAll(st[5], env, body.s)
    IN  IF Stopped(c.s) THEN Goes(env, c.s)
        ELSE IF c.v.t # "truth" THEN Goes(env, NotC(c.s))
        ELSE IF c.v.v = 0 \/ body.sig = "break" THEN Goes(env, IF c.v.v = 0 THEN c.s ELSE body.s)
        ELSE IF body.sig \in {"return", "goto"} THEN [body EXCEPT !.env = env]
        ELSE IF Stopped(step.s) THEN Goes(env, step.s) ELSE Rounds(st, env, step.s)

Braces(b, env, s) == [RunAll(b, env, s) EXCEPT !.env = env]

\* A statement on the values of expressions.
After(es, env, s, F(_, _)) ==
    LET r == EvAll(es, env, s) IN IF Stopped(r.s) THEN Goes(env, r.s) ELSE F(r.v, r.s)

RunStmt(st, env, s) ==
    CASE st[1] = "set" -> After(<<st[4]>>, env, s, LAMBDA v, t : LET c == ToType(v[1], st[3], t) IN Goes(env, SetTmp(c.s, st[2], c.v)))
      [] st[1] = "decl" -> LET d == Declare(<<"id", st[2]>>, st[3], env, s)
                           IN  After(<<st[4]>>, d.env, d.s, LAMBDA v, t : Goes(d.env, Store(Len(s.mem) + 1, v[1], t)))
      [] st[1] = "newbox" -> LET d == Declare(<<"box", st[2]>>, T_DYNAMIC, env, s) IN Goes(d.env, d.s)
      [] st[1] = "asg" -> After(<<st[3]>>, env, s, LAMBDA v, t : Goes(env, AssignTo(st[2], v[1], env, t)))
      [] st[1] = "do" -> After(<<st[2]>>, env, s, LAMBDA v, t : Goes(env, t))
      [] st[1] = "settab" -> After(<<st[2], st[3], st[4]>>, env, s, LAMBDA v, t :
                                   Goes(env, IF \A i \in 1..3 : IsCVar(v[i]) THEN FlSetTable(v[1], v[2], v[3], t) ELSE NotC(t)))
      [] st[1] = "expand" -> After(<<st[2], st[4]>>, env, s, LAMBDA v, t : Goes(env, FlTableExpandMulti(v[1], st[3], v[2], t)))
      [] st[1] = "setspec" -> After(<<st[3], st[6], st[7]>>, env, s, LAMBDA v, t :
                                    Goes(env, FL_SET_SPEC(v[1], st[2], st[4], st[5], v[2], v[3], t)))
      [] st[1] = "entry" -> After(<<st[4], st[5]>>, env, s, LAMBDA v, t :
                                  LET pair == GET_TABLE_ENTRY(v[1], v[2].v, t)
                                  IN  Goes(env, IF NoValue \in Range(pair) THEN Undefined(t)
                                                ELSE SetTmp(SetTmp(t, st[2], pair[1]), st[3], pair[2])))
      [] st[1] = "if" -> After(<<st[2]>>, env, s, LAMBDA v, t :
                               IF v[1].t # "truth" THEN Goes(env, NotC(t)) ELSE Braces(IF v[1].v = 1 THEN st[3] ELSE st[4], env, t))
      [] st[1] = "loop" -> Rounds(st, env, s)
      [] st[1] = "block" -> Braces(st[2], env, s)
      [] st[1] = "switch" -> After(st[2], env, s, LAMBDA v, t :
                                   LET mask == FoldLeftDomain(LAMBDA acc, i : acc + IF v[i].t = "float" THEN 2 ^ (i - 1) ELSE 0, 0, v)
                                   IN  Braces(IF \A i \in DOMAIN v : CheckNum(v[i]) THEN st[3][mask + 1] ELSE st[4], env, t))
      [] st[1] = "forlimit" -> After(<<st[4], st[5]>>, env, s, LAMBDA v, t :
                                     LET lim == ForLimitToInt(Float(Units(v[1])), v[2].v)
                                     IN  Goes(env, SetTmp(SetTmp(t, st[2], Truth(lim.skip)), st[3], I64(lim.v))))
      [] st[1] = "advance" -> After(<<st[3], st[4]>>, env, s, LAMBDA v, t :
                                    Goes(env, IF FlForIntAdvance(v[1].v, v[2].v) THEN SetTmp(t, st[3], I64(v[1].v + v[2].v))
                                              ELSE SetTmp(t, st[2], Truth(TRUE))))
      [] st[1] = "forprep" -> Goes(env, ForPrepare(st[2], s))
      [] st[1] = "fornext" -> ForNext(st[2], env, s)
      [] st[1] = "ret" -> After(<<st[2]>>, env, s, LAMBDA v, t : Leaves(env, "return", v[1], t))
      [] st[1] \in {"break", "continue"} -> Leaves(env, st[1], Nil, s)
      [] st[1] = "goto" -> Leaves(env, "goto", st[2], s)
      [] st[1] = "label" -> Goes(env, s)
      [] st[1] = "throw" -> Goes(env, Raise(s))
      [] st[1] = "unclosed" -> Goes(env, NotC(s))

\* The names that a jump from statement i to a later one brings into scope: no initializer has run.
JumpOver(ss, i, target, env, s) ==
    LET Skip(acc, k) ==
            LET st == ss[i + k]
            IN  CASE st[1] = "decl" -> Declare(<<"id", st[2]>>, st[3], acc.env, acc.s)
                  [] st[1] = "newbox" -> Declare(<<"box", st[2]>>, T_DYNAMIC, acc.env, acc.s)
                  [] OTHER -> acc
    IN  InTurn(Skip, [env |-> env, s |-> s], target - i)

\* Statements from i on; marks: the scope at each label passed; at: the statement that left the block.
Run(ss, i, env, s, marks) ==
    LET start == [env |-> env, sig |-> "ok", v |-> Nil, s |-> s, at |-> i, marks |-> marks]
    IN  Given(InTurn(LAMBDA acc, k :
                         IF acc.sig # "ok" \/ Stopped(acc.s) THEN acc
                         ELSE LET st == ss[i + k - 1]
                              IN  Given(RunStmt(st, acc.env, acc.s), LAMBDA r :
                                  [env |-> r.env, sig |-> r.sig, v |-> r.v, s |-> r.s, at |-> i + k - 1,
                                   marks |-> IF st[1] = "label" THEN (st[2] :> acc.env) @@ acc.marks ELSE acc.marks]),
                     start, IF i > Len(ss) THEN 0 ELSE Len(ss) + 1 - i), LAMBDA end :
        LET targets == IF end.sig # "goto" THEN {} ELSE {j \in DOMAIN ss : ss[j] = <<"label", end.v>>}
            target == CHOOSE j \in targets : TRUE
            there == IF end.v \in DOMAIN end.marks THEN [env |-> end.marks[end.v], s |-> end.s]
                     ELSE JumpOver(ss, end.at, target, end.env, end.s)
        IN  IF targets = {} THEN end ELSE Run(ss, target, there.env, there.s, end.marks))

(***************************************************************************)
(* What a C compiler checks: a name is declared once in a block, a break is in a loop.  The      *)
(* names that the preprocessor makes up carry a number of their own.       *)
(***************************************************************************)
RECURSIVE WellFormedBlock(_, _, _)
WellFormedBlock(ss, taken, inLoop) ==
    LET IsDecl(i) == ss[i][1] \in {"decl", "newbox"} /\ ss[i][2] \notin Range(TmpName) \cup Range(BaseName) \cup Range(KeyName)
        Key(i) == <<IF ss[i][1] = "decl" THEN "id" ELSE "box", ss[i][2]>>
        Inner(st) == CASE st[1] = "if" -> {st[3], st[4]}
                       [] st[1] = "loop" -> {st[2] \o st[4], st[5]}
                       [] st[1] = "block" -> {st[2]}
                       [] st[1] = "switch" -> Range(st[3]) \cup {st[4]}
                       [] OTHER -> {}
    IN  /\ \A i \in DOMAIN ss : IsDecl(i) => Key(i) \notin taken /\ \A j \in 1..(i - 1) : IsDecl(j) => Key(j) # Key(i)
        /\ \A i \in DOMAIN ss : \A b \in Inner(ss[i]) : WellFormedBlock(b, {}, inLoop \/ ss[i][1] = "loop")
        /\ \A i \in DOMAIN ss : ss[i][1] \in {"break", "continue"} => inLoop

WellFormed(code) ==
    \A d \in DOMAIN code : WellFormedBlock(code[d].body, {<<"id", code[d].params[i]>> : i \in DOMAIN code[d].params}, FALSE)

(***************************************************************************)
(* A unit: its file-level variables, the init function, main.              *)
(***************************************************************************)
Loaded(unit) ==
    LET empty == [mem |-> <<>>, tmp |-> [k \in {} |-> Nil], up |-> <<>>, tabs |-> <<>>, clos |-> <<>>, init |-> TRUE, err |-> FALSE,
                  bad |-> IF WellFormed(unit.code) THEN "" ELSE "form", code |-> unit.code, globals |-> [k \in {} |-> 0]]
    IN  Given(RunAll(unit.globals, empty.globals, empty), LAMBDA r :
        [r.s EXCEPT !.globals = r.env])

CallNamed(unit, name, s) == Invoke(<<"fn", unit.funcs[name].at>>, <<>>, <<>>, s)
=============================================================================
