---------------------------- MODULE LuaReference ----------------------------
(***************************************************************************)
(* What a program means: an evaluator of the source tree of Preprocessor,  *)
(* written from the rules of the language and from nothing of the          *)
(* compiler.  A name stands for a place in mem, a new one each time its    *)
(* declaration is reached; a closure keeps the places of the names it      *)
(* sees.  Three rules are the dialect's: a call by name of a function of   *)
(* the file needs as many arguments as it has parameters and a multiple    *)
(* assignment as many values as variables, unless the last one expands,    *)
(* and a function that returns nothing returns nil.                        *)
(*                                                                         *)
(* The store s is [mem, tabs, clos, init, err]; an expression gives        *)
(* [v, s], its values and the store; a statement gives [env, sig, v, s].   *)
(***************************************************************************)
EXTENDS Naming, VmOps, SequencesExt

Bind(env, x, loc) == [y \in DOMAIN env \cup {x} |-> IF y = x THEN loc ELSE env[y]]
New(s, v) == [s EXCEPT !.mem = Append(@, v)]
Fail(s) == [s EXCEPT !.err = TRUE]
Result(v, s) == [v |-> v, s |-> s]
First(vals) == IF vals = <<>> THEN Nil ELSE vals[1]
Nth(vals, i) == IF i <= Len(vals) THEN vals[i] ELSE Nil

\* Names bound to new places that hold vals: [env, s].
Declared(names, vals, env, s) ==
    FoldLeftDomain(LAMBDA acc, i : [env |-> Bind(acc.env, names[i], Len(acc.s.mem) + 1), s |-> New(acc.s, Nth(vals, i))],
                   [env |-> env, s |-> s], names)

\* Numbers, in units of 1/Grain; a key that is a float with an integral value is the integer.
IsNum(x) == x.t \in {"int", "float"}
Units(x) == IF x.t = "int" THEN Grain * x.v ELSE x.v
Integral(x) == x.t = "int" \/ (x.v % Grain = 0 /\ x.v \div Grain \in MinInt..MaxInt)
Key(k) == IF IsNum(k) /\ Integral(k) THEN Number(Units(k) \div Grain) ELSE k
Lookup(tab, k) == IF \E p \in tab.e : p[1] = Key(k) THEN (CHOOSE p \in tab.e : p[1] = Key(k))[2] ELSE Nil
Store(s, t, k, v) ==
    IF t.t # "table" \/ k = Nil THEN Fail(s)
    ELSE IF s.tabs[t.v].const /\ ~s.init THEN Fail(s)
    ELSE [s EXCEPT !.tabs[t.v].e = {p \in @ : p[1] # Key(k)} \cup IF v = Nil THEN {} ELSE {<<Key(k), v>>}]

RECURSIVE Eval(_, _, _), Apply(_, _, _), Exec(_, _, _, _, _), Loop_(_, _, _), NumericFor(_, _, _, _, _, _, _),
          EachPair(_, _, _, _), Iterate(_, _, _, _, _, _)

\* A list of statements in a scope of its own; the recursion of the evaluator goes through Eval alone.
Chunk(ss, env, s) == Eval(<<"chunk", ss>>, env, s)

EvalList(es, env, s) ==
    FoldLeftDomain(LAMBDA acc, i : LET c == Eval(es[i], env, acc.s)
                                   IN  Result(acc.v \o IF i = Len(es) THEN c.v ELSE <<First(c.v)>>, c.s),
                   Result(<<>>, s), es)
Eval1(e, env, s) == LET c == Eval(e, env, s) IN [v |-> First(c.v), s |-> c.s]

MakeFunc(f, env, s) ==
    Result(<<Closure(Len(s.clos) + 1)>>,
           [s EXCEPT !.clos = Append(@, [params |-> f[2], body |-> f[3], env |-> env])])

IsVararg(params) == params # <<>> /\ Last(params) = "..."

Apply(f, args, s) ==
    IF s.err \/ f.t # "closure" THEN Result(<<Nil>>, Fail(s))
    ELSE LET c == s.clos[f.v]
             fixed == Len(c.params) - 1
             vals == IF IsVararg(c.params)
                     THEN [i \in 1..fixed |-> Nth(args, i)] \o <<Multi(SubSeq(args, fixed + 1, Len(args)))>>
                     ELSE args
             in == Declared(c.params, vals, c.env, s)
         IN  Given(Chunk(c.body, in.env, in.s), LAMBDA r :
             IF r.sig \in {"break", "continue", "goto"} THEN Result(<<Nil>>, Fail(r.s))
             ELSE Result(IF r.sig = "return" THEN r.v ELSE <<Nil>>, r.s))

EvalCall(e, env, s) ==
    LET obj == Eval1(e[2], env, s)
        method == e[1] = "method"
        args == EvalList(e[Len(e)], env, obj.s)
        Callee == IF ~method THEN obj.v
                  ELSE IF obj.v.t = "table" THEN Lookup(args.s.tabs[obj.v.v], Str(e[3])) ELSE Nil
        ByName == ~method /\ e[2][1] = "var" /\ e[2][2] \in DOMAIN s.file /\ e[2][2] \in DOMAIN env
                      /\ env[e[2][2]] = s.file[e[2][2]]
        Fixed == e[3] = <<>> \/ Last(e[3])[1] \notin {"call", "method", "vararg"}
        Arity == ByName /\ Fixed /\ ~IsVararg(s.clos[obj.v.v].params)
                     => Len(args.v) = Len(s.clos[obj.v.v].params)
    IN  IF args.s.err \/ ~Arity THEN Result(<<Nil>>, Fail(args.s))
        ELSE Apply(Callee, (IF method THEN <<obj.v>> ELSE <<>>) \o args.v, args.s)

EvalTable(e, env, s) ==
    LET t == Table(Len(s.tabs) + 1)
        Items(i) == Len(SelectSeq(SubSeq(e[2], 1, i), LAMBDA f : f[1] = "item"))
        Field(acc, i) ==
            LET f == e[2][i]
                k == IF f[1] = "pair" THEN Eval1(f[2], env, acc) ELSE [v |-> Number(Items(i)), s |-> acc]
                c == Eval(Last(f), env, k.s)
                vals == IF i = Len(e[2]) /\ f[1] = "item" THEN c.v ELSE <<First(c.v)>>
            IN  FoldLeftDomain(LAMBDA a, j : Store(a, t, IF j = 1 THEN k.v ELSE Number(k.v.v + j - 1), vals[j]), c.s, vals)
    IN  Result(<<t>>, FoldLeftDomain(Field, [s EXCEPT !.tabs = Append(@, [e |-> {}, const |-> s.init])], e[2]))

Border(tab) == CHOOSE n \in 0..100 : (\A i \in 1..n : Lookup(tab, Number(i)) # Nil) /\ Lookup(tab, Number(n + 1)) = Nil

\* Arithmetic from its mathematical definition: floor division, and words of Width bits.
Floor(a, b) == IF b > 0 THEN a \div b ELSE (-a) \div (-b)
Shift(a, n) == IF n >= 0 THEN Unsigned(a) * 2 ^ n ELSE Unsigned(a) \div 2 ^ (-n)
Bit(a, i) == (a \div 2 ^ i) % 2
Bitwise(a, b, Both(_, _)) ==
    Wrap(FoldLeftDomain(LAMBDA acc, i : acc + 2 ^ (i - 1) * Both(Bit(Unsigned(a), i - 1), Bit(Unsigned(b), i - 1)),
                        0, [i \in 1..Width |-> i]))
OnInts(op, a, b) ==
    CASE op = "SHL" -> Number(Wrap(Shift(a, b)))
      [] op = "SHR" -> Number(Wrap(Shift(a, -b)))
      [] op = "BAND" -> Number(Bitwise(a, b, LAMBDA x, y : x * y))
      [] op = "BOR" -> Number(Bitwise(a, b, LAMBDA x, y : IF x + y = 0 THEN 0 ELSE 1))
      [] op = "BXOR" -> Number(Bitwise(a, b, LAMBDA x, y : (x + y) % 2))
\* Two numbers in units of 1/u: integers if u is 1.
Arith(op, a, b, Num(_), u) ==
    CASE op = "ADD" -> Num(a + b)
      [] op = "SUB" -> Num(a - b)
      [] op = "MUL" -> Num((a * b) \div u)
      [] op = "IDIV" -> Num(u * Floor(a, b))
      [] op = "MOD" -> Num(a - b * Floor(a, b))
      [] op = "DIV" -> Num(Floor(u * a, b))
      [] op = "POW" -> Num((u * a ^ (b \div u)) \div u ^ (b \div u))
      [] op = "LT" -> Bool(a < b)
      [] op = "LE" -> Bool(a <= b)
      [] op = "GT" -> Bool(a > b)
      [] op = "GE" -> Bool(a >= b)

\* An integer loop ends at the last integer.
Within(q, step) == IF step > 0 /\ q > MaxInt * Grain THEN MaxInt * Grain
                   ELSE IF step < 0 /\ q < MinInt * Grain THEN MinInt * Grain ELSE q
Same(x, y) == IF IsNum(x) /\ IsNum(y) THEN Units(x) = Units(y) ELSE x = y
Operator(op, x, y) ==
    CASE op \in {"EQ", "NE"} -> Bool(Same(x, y) = (op = "EQ"))
      [] op \notin {"EQ", "NE"} /\ (~IsNum(x) \/ ~IsNum(y)) -> Failed
      [] op \in {"SHL", "SHR", "BAND", "BOR", "BXOR"} /\ IsNum(x) /\ IsNum(y) ->
           IF Integral(x) /\ Integral(y) THEN OnInts(op, Units(x) \div Grain, Units(y) \div Grain) ELSE Failed
      [] OTHER ->
           IF {x.t, y.t} = {"int"} /\ op \notin {"DIV", "POW"}
           THEN IF op \in {"IDIV", "MOD"} /\ y.v = 0 THEN Failed ELSE Arith(op, x.v, y.v, LAMBDA n : Number(Wrap(n)), 1)
           ELSE Arith(op, Units(x), Units(y), Float, Grain)
OneOrFail(v, s) == IF v = Failed THEN Result(<<Nil>>, Fail(s)) ELSE Result(<<v>>, s)

Eval(e, env, s) ==
    IF e[1] = "chunk" THEN Exec(e[2], 1, env, s, <<>>)
    ELSE IF s.err THEN Result(<<Nil>>, s)
    ELSE CASE e[1] = "nil" -> Result(<<Nil>>, s)
           [] e[1] \in {"true", "false"} -> Result(<<Bool(e[1] = "true")>>, s)
           [] e[1] = "num" -> Result(<<Number(e[2])>>, s)
           [] e[1] = "flt" -> Result(<<Float(e[2])>>, s)
           [] e[1] = "str" -> Result(<<Str(e[2])>>, s)
           [] e[1] = "vararg" -> Result(s.mem[env["..."]].s, s)
           [] e[1] = "var" -> Result(<<IF e[2] \in DOMAIN env THEN s.mem[env[e[2]]] ELSE Nil>>, s)
           [] e[1] = "func" -> MakeFunc(e, env, s)
           [] e[1] = "paren" -> LET c == Eval1(e[2], env, s) IN Result(<<c.v>>, c.s)
           [] e[1] \in {"call", "method"} -> EvalCall(e, env, s)
           [] e[1] = "table" -> EvalTable(e, env, s)
           [] e[1] = "index" ->
                LET t == Eval1(e[2], env, s)
                    k == Eval1(e[3], env, t.s)
                IN  IF t.v.t # "table" \/ k.v = Nil THEN Result(<<Nil>>, Fail(k.s))
                    ELSE Result(<<Lookup(k.s.tabs[t.v.v], k.v)>>, k.s)
           [] e[1] \in {"and", "or"} ->
                LET a == Eval1(e[2], env, s)
                IN  IF IsTrue(a.v) = (e[1] = "or") THEN Result(<<a.v>>, a.s)
                    ELSE LET b == Eval1(e[3], env, a.s) IN Result(<<b.v>>, b.s)
           [] e[1] = "bin" ->
                LET a == Eval1(e[3], env, s)
                    b == Eval1(e[4], env, a.s)
                IN  OneOrFail(Operator(e[2], a.v, b.v), b.s)
           [] e[1] = "un" ->
                LET a == Eval1(e[3], env, s)
                IN  IF e[2] # "LEN" THEN OneOrFail(Unop(e[2], a.v), a.s)
                    ELSE OneOrFail(IF a.v.t = "table" THEN Number(Border(a.s.tabs[a.v.v])) ELSE Failed, a.s)

(***************************************************************************)
(* Statements.  sig is "ok", "break", "continue", "return" or "goto"; the  *)
(* label of a goto is in v.                                                *)
(***************************************************************************)
Done(env, s) == [env |-> env, sig |-> "ok", v |-> <<>>, s |-> s]
Leave(env, sig, v, s) == [env |-> env, sig |-> sig, v |-> v, s |-> s]
Block(b, env, s) == [Chunk(b, env, s) EXCEPT !.env = env]

Assign(vs, es, env, s) ==
    LET Base(acc, i) ==   \* tables and keys of the left sides first
            IF vs[i][1] # "index" THEN [v |-> Append(acc.v, <<>>), s |-> acc.s]
            ELSE LET t == Eval1(vs[i][2], env, acc.s)
                     k == Eval1(vs[i][3], env, t.s)
                 IN  [v |-> Append(acc.v, <<t.v, k.v>>), s |-> k.s]
    IN  Given(FoldLeftDomain(Base, Result(<<>>, s), vs), LAMBDA lhs :
        LET rhs == EvalList(es, env, lhs.s)
            Write(acc, i) ==
                IF vs[i][1] = "index" THEN Store(acc, lhs.v[i][1], lhs.v[i][2], Nth(rhs.v, i))
                ELSE [acc EXCEPT !.mem[env[vs[i][2]]] = Nth(rhs.v, i)]
            expands == Len(vs) > Len(es) /\ Last(es)[1] \in {"call", "method", "vararg"}
        IN  IF rhs.s.err THEN rhs.s
            ELSE IF Len(vs) # Len(es) /\ ~expands THEN Fail(rhs.s)
            ELSE FoldLeftDomain(Write, rhs.s, vs))

\* While c holds, the body; st is the whole statement, a repeat tests with the names of its body.
Loop_(st, env, s) ==
    LET repeat == st[1] = "repeat"
        before == IF repeat THEN [v |-> Bool(TRUE), s |-> s] ELSE Eval1(st[2], env, s)
        body == Chunk(IF repeat THEN st[2] ELSE st[3], env, before.s)
        after == IF repeat /\ body.sig \in {"ok", "continue"} THEN Eval1(st[3], body.env, body.s)
                 ELSE [v |-> Bool(FALSE), s |-> body.s]
    IN  IF before.s.err \/ ~IsTrue(before.v) THEN Done(env, before.s)
        ELSE IF body.sig = "break" \/ after.s.err THEN Done(env, after.s)
        ELSE IF body.sig \in {"return", "goto"} THEN [body EXCEPT !.env = env]
        ELSE IF IsTrue(after.v) THEN Done(env, after.s)
        ELSE Loop_(st, env, after.s)

\* One iteration of a for loop with new places for its variables, then the rest.
Body(names, vals, b, env, s) == Given(Declared(names, vals, env, s), LAMBDA in : Chunk(b, in.env, in.s))

\* From i to limit, in units of 1/Grain, over the floats or over the integers.
NumericFor(st, i, limit, step, float, env, s) ==
    IF s.err \/ (step > 0 /\ i > limit) \/ (step < 0 /\ i < limit) THEN Done(env, s)
    ELSE LET r == Body(<<st[2]>>, <<IF float THEN Float(i) ELSE Number(i \div Grain)>>, st[6], env, s)
         IN  CASE r.sig \in {"ok", "continue"} -> NumericFor(st, i + step, limit, step, float, env, r.s)
               [] r.sig = "break" -> Done(env, r.s)
               [] OTHER -> [r EXCEPT !.env = env]

EachPair(st, pairs, env, s) ==
    IF s.err \/ pairs = <<>> THEN Done(env, s)
    ELSE LET r == Body(st[2], pairs[1], st[4], env, s)
         IN  CASE r.sig \in {"ok", "continue"} -> EachPair(st, Tail(pairs), env, r.s)
               [] r.sig = "break" -> Done(env, r.s)
               [] OTHER -> [r EXCEPT !.env = env]

Iterate(st, f, state, ctl, env, s) ==
    Given(Apply(f, <<state, ctl>>, s), LAMBDA c :
    LET r == Body(st[2], c.v, st[4], env, c.s)
    IN  IF c.s.err \/ First(c.v) = Nil THEN Done(env, c.s)
        ELSE CASE r.sig \in {"ok", "continue"} -> Iterate(st, f, state, First(c.v), env, r.s)
               [] r.sig = "break" -> Done(env, r.s)
               [] OTHER -> [r EXCEPT !.env = env])

ForIn(st, env, s) ==
    LET e == st[3][1]
        builtin == e[1] = "call" /\ e[2][1] = "var" /\ e[2][2] \in {"pairs", "ipairs"} /\ e[2][2] \notin DOMAIN env
        t == Eval1(e[3][1], env, s)
        tab == t.s.tabs[t.v.v]
        pairs == IF e[2][2] = "pairs" THEN SetToSeq(tab.e)
                 ELSE [i \in 1..Border(tab) |-> <<Number(i), Lookup(tab, Number(i))>>]
        it == EvalList(st[3], env, s)
    IN  IF ~builtin THEN Iterate(st, First(it.v), Nth(it.v, 2), Nth(it.v, 3), env, it.s)
        ELSE IF t.v.t # "table" THEN Done(env, Fail(t.s)) ELSE EachPair(st, pairs, env, t.s)

Stmt(st, env, s) ==
    CASE st[1] = "local" ->
           Given(EvalList(st[3], env, s), LAMBDA c :
           LET d == Declared(st[2], c.v, env, c.s)
           IN  Done(d.env, d.s))
      [] st[1] = "assign" -> Done(env, Assign(st[2], st[3], env, s))
      [] st[1] = "callst" -> Done(env, Eval(st[2], env, s).s)
      [] st[1] = "block" -> Block(st[2], env, s)
      [] st[1] \in {"while", "repeat"} -> Loop_(st, env, s)
      [] st[1] = "if" ->
           LET Test(acc, i) == IF acc.taken # 0 THEN acc
                               ELSE LET c == Eval1(st[2][i], env, acc.s)
                                    IN  [s |-> c.s, taken |-> IF IsTrue(c.v) THEN i ELSE 0]
               t == FoldLeftDomain(Test, [s |-> s, taken |-> 0], st[2])
           IN  Block(IF t.taken = 0 THEN st[4] ELSE st[3][t.taken], env, t.s)
      [] st[1] = "for" ->
           LET c == EvalList(<<st[3], st[4], st[5]>>, env, s)
           IN  IF c.s.err \/ (\E i \in 1..3 : ~IsNum(c.v[i])) \/ c.v[3].v = 0 THEN Done(env, Fail(c.s))
               ELSE LET n == [i \in 1..3 |-> Units(c.v[i])]
                        float == {c.v[1].t, c.v[3].t} # {"int"}
                    IN  NumericFor(st, n[1], IF float THEN n[2] ELSE Within(n[2], n[3]), n[3], float, env, c.s)
      [] st[1] = "forin" -> ForIn(st, env, s)
      [] st[1] = "localfn" ->
           LET in == Bind(env, st[2], Len(s.mem) + 1)
               f == MakeFunc(st[3], in, New(s, Nil))
           IN  Done(in, [f.s EXCEPT !.mem[in[st[2]]] = f.v[1]])
      [] st[1] = "return" -> LET c == EvalList(st[2], env, s) IN Leave(env, "return", IF st[2] = <<>> THEN <<Nil>> ELSE c.v, c.s)
      [] st[1] = "goto" -> Leave(env, "goto", <<st[2]>>, s)
      [] st[1] \in {"break", "continue"} -> Leave(env, st[1], <<>>, s)
      [] st[1] = "label" -> Done(env, s)

\* Statements i and on; marks holds the names in scope at the labels passed so far.
Exec(ss, i, env, s, marks) ==
    IF i > Len(ss) \/ s.err THEN Done(env, s)
    ELSE Given(Stmt(ss[i], env, s), LAMBDA r :
         LET seen == IF ss[i][1] = "label" THEN Append(marks, <<ss[i][2], env>>) ELSE marks
             labels == {j \in DOMAIN ss : ss[j][1] = "label" /\ r.sig = "goto" /\ <<ss[j][2]>> = r.v}
             target == CHOOSE j \in labels : TRUE
             at == IF \E m \in DOMAIN marks : marks[m][1] = ss[target][2]
                   THEN marks[CHOOSE m \in DOMAIN marks : marks[m][1] = ss[target][2]][2] ELSE env
         IN  IF r.s.err \/ r.sig = "ok" THEN Exec(ss, i + 1, r.env, r.s, seen)
             ELSE IF labels # {} THEN Exec(ss, target, at, r.s, marks)
             ELSE r)

(***************************************************************************)
(* A file: its functions see each other and every file-level variable; the *)
(* variables are initialized in order, then main runs.                     *)
(***************************************************************************)
Meaning(chunk) ==
    LET IsFn(st) == st[1] \in {"function", "localfn"} \/ (st[1] = "local" /\ Len(st[3]) = 1 /\ st[3][1][1] = "func")
        fns == SelectSeq(chunk, IsFn)
        Name(st) == IF st[1] = "local" THEN st[2][1] ELSE st[2]
        decls == SelectSeq(chunk, LAMBDA st : ~IsFn(st))
        names == FlattenSeq([i \in DOMAIN decls |-> decls[i][2]]) \o [i \in DOMAIN fns |-> Name(fns[i])]
        start == Declared(names, <<>>, <<>>, [mem |-> <<>>, tabs |-> <<>>, clos |-> <<>>, file |-> <<>>,
                                              init |-> TRUE, err |-> FALSE])
        env == start.env
        Func(acc, i) == LET f == MakeFunc(IF fns[i][1] = "local" THEN fns[i][3][1] ELSE fns[i][3], env, acc)
                        IN  [f.s EXCEPT !.mem[env[Name(fns[i])]] = f.v[1]]
        funcs == FoldLeftDomain(Func, start.s, fns)
        known == [funcs EXCEPT !.file = [x \in {Name(fns[i]) : i \in DOMAIN fns} |-> env[x]]]
        Initializer(st) == <<"assign", [j \in DOMAIN st[2] |-> <<"var", st[2][j]>>], st[3]>>
    IN  Given(Chunk([i \in DOMAIN decls |-> Initializer(decls[i])], env, known).s, LAMBDA ready :
        Given(Apply(ready.mem[env["main"]], <<>>, [ready EXCEPT !.init = FALSE]), LAMBDA r :
        IF r.s.err THEN [t |-> "error", v |-> <<>>] ELSE [t |-> "values", v |-> r.v]))
=============================================================================
