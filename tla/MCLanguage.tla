----------------------------- MODULE MCLanguage -----------------------------
(***************************************************************************)
(* The language: the interpreter, the C compiler and the tables that both  *)
(* use.  A behaviour runs one program in one engine, or one table.  The    *)
(* programs are written as the source trees of Preprocessor.               *)
(***************************************************************************)
EXTENDS VmOps, TLC

CONSTANTS Parts,    \* which of "interp", "c" and "table"
          Suite,    \* "language": programs of every construct; "boxes": captured names and temporaries;
                    \* "shadow": a local that hides its initial value
          Lengths   \* how many statements of the pool a generated body has

(***************************************************************************)
(* Ways to write a program.                                                *)
(***************************************************************************)
V(x) == <<"var", x>>
N(n) == <<"num", n>>
K(n) == <<"str", n>>
C(f, args) == <<"call", V(f), args>>
Fn(params, body) == <<"func", params, body>>
Index(o, k) == <<"index", o, k>>
Bin(op, a, b) == <<"bin", op, a, b>>
Item(e) == <<"item", e>>
Tab(es) == <<"table", [i \in DOMAIN es |-> Item(es[i])]>>
Let(x, e) == <<"local", <<x>>, <<e>>>>
Set(x, e) == <<"assign", <<V(x)>>, <<e>>>>
SetAt(t, k, e) == <<"assign", <<Index(t, k)>>, <<e>>>>
Ret1(e) == <<"return", <<e>>>>
Do(f, args) == <<"callst", C(f, args)>>
If(c, b) == <<"if", <<c>>, <<b>>, <<>>>>
IfElse(c, a, b) == <<"if", <<c>>, <<a>>, b>>
Inc(x) == Set(x, Bin("ADD", V(x), N(1)))
Main(body) == <<"function", "main", Fn(<<>>, body)>>
Proc(name, params, body) == <<"function", name, Fn(params, body)>>
Local(name, params, body) == <<"localfn", name, Fn(params, body)>>

(***************************************************************************)
(* Functions that the programs share: two values, its arguments, a counter *)
(* and an iterator.                                                        *)
(***************************************************************************)
Library == <<
    Proc("two", <<>>, <<<<"return", <<N(1), N(2)>>>>>>),
    Proc("one", <<>>, <<Ret1(N(3))>>),
    Proc("id", <<"...">>, <<Ret1(<<"vararg">>)>>),
    Proc("pad", <<"a", "b", "...">>, <<<<"return", <<V("b"), <<"vararg">>>>>>>>),
    Proc("counter", <<"n">>, <<Ret1(Fn(<<>>, <<Inc("n"), Ret1(V("n"))>>))>>),
    Proc("upto", <<"n", "i">>, <<If(Bin("LT", V("i"), V("n")), <<Ret1(Bin("ADD", V("i"), N(1)))>>), Ret1(<<"nil">>)>>) >>

Start == <<<<"local", <<"x", "y">>, <<N(1), N(2)>>>>, Let("t", Tab(<<N(3), N(2)>>)), Let("f", C("counter", <<N(0)>>))>>
Finish == <<Let("r", C("f", <<>>)),
            <<"return", <<V("x"), V("y"), Index(V("t"), N(1)), Index(V("t"), N(2)), <<"un", "LEN", V("t")>>, V("r")>>>>>>

\* Statements over x, y, t and f.
Pool == <<
    <<"assign", <<V("x"), V("y")>>, <<V("y"), V("x")>>>>,
    <<"assign", <<V("x"), Index(V("t"), V("x"))>>, <<Bin("ADD", V("x"), N(1)), V("y")>>>>,
    <<"assign", <<V("x"), V("y")>>, <<C("two", <<>>)>>>>,
    Set("f", C("counter", <<V("x")>>)),
    Set("x", <<"and", Bin("LT", V("x"), V("y")), <<"or", <<"nil">>, C("f", <<>>)>>>>),
    SetAt(V("t"), N(2), C("f", <<>>)),
    <<"while", Bin("LT", V("y"), N(4)), <<Inc("y"), If(Bin("EQ", V("y"), V("x")), <<<<"break">>>>)>>>>,
    <<"repeat", <<Let("z", V("y")), Inc("y"), If(Bin("EQ", V("z"), N(2)), <<<<"continue">>>>), Set("x", C("f", <<>>))>>, Bin("GE", V("z"), N(3))>>,
    <<"for", "i", V("y"), N(1), N(-1), <<SetAt(V("t"), V("i"), V("i")), Set("f", Fn(<<>>, <<Ret1(V("i"))>>))>>>>,
    <<"forin", <<"k", "v">>, <<C("ipairs", <<V("t")>>)>>, <<Set("f", Fn(<<>>, <<Set("k", Bin("ADD", V("k"), V("v"))), Ret1(V("k"))>>))>>>>,
    <<"forin", <<"i">>, <<V("upto_"), N(3), N(0)>>, <<<<"goto", "next">>, Set("x", N(7)), <<"label", "next">>, Set("y", V("i"))>>>>,
    <<"block", <<Let("x", V("y")), Set("f", Fn(<<>>, <<Inc("x"), Ret1(V("x"))>>)), Set("y", C("f", <<>>))>>>>,
    Set("t", <<"table", <<Item(C("two", <<>>)), Item(C("two", <<>>))>>>>),
    Set("f", Fn(<<>>, <<Inc("x"), Ret1(Bin("ADD", V("x"), V("y")))>>)) >>

Generated(stmts) ==
    Library \o <<Main(Start \o <<Let("upto_", V("upto"))>> \o [i \in DOMAIN stmts |-> Pool[stmts[i]]] \o Finish)>>

GeneratedPrograms(lengths) == {Generated(g) : g \in UNION {[1..n -> DOMAIN Pool] : n \in lengths}}

(***************************************************************************)
(* Programs of one construct each.                                         *)
(***************************************************************************)
Words == {MinInt, -1, 0, 2, MaxInt}
W(n) == IF n < 0 THEN Bin("SUB", N(n + 1), N(1)) ELSE N(n)
ArithPrograms == {<<Main(<<Ret1(Bin(op, W(a), W(b)))>>)>> :
                      op \in {"ADD", "SUB", "MUL", "IDIV", "MOD", "SHL", "SHR", "LT", "GE", "NE"}, a \in Words, b \in Words}

\* Both kinds of number; no float is divided by zero, and exponents are small.
Numbers == {N(2), W(-3), <<"flt", 6>>, <<"flt", 8>>, <<"un", "UNM", <<"flt", 5>>>>}
FloatPrograms ==
    {<<Main(<<Ret1(Bin(op, a, b))>>)>> : op \in {"ADD", "MUL", "DIV", "IDIV", "MOD", "LT", "LE", "EQ", "BAND", "BXOR", "SHL"},
                                        a \in Numbers, b \in Numbers}
    \cup {<<Main(<<Ret1(Bin(op, a, b))>>)>> : op \in {"BAND", "BOR", "BXOR"}, a \in {N(5), W(-3)}, b \in {N(3), W(-8)}}
    \cup {<<Main(<<Ret1(Bin("POW", a, b))>>)>> : a \in Numbers, b \in {N(0), N(2), <<"flt", 12>>}}

ForOf(a, b, c) == <<Main(<<<<"local", <<"n", "last">>, <<N(0)>>>>,
                           <<"for", "i", a, b, c, <<Inc("n"), Set("last", V("i"))>>>>,
                           <<"return", <<V("n"), V("last")>>>>>>)>>
ForPrograms(steps) == {ForOf(W(a), W(b), W(c)) : a \in Words, b \in Words, c \in {-3, -1, 0, 2, 5, MaxInt}}
    \cup {ForOf(a, b, c) : a \in {N(1), <<"flt", 6>>}, b \in {N(4), <<"flt", 14>>, <<"flt", 40>>, <<"un", "UNM", <<"flt", 6>>>>, <<"nil">>},
                           c \in steps}

\* Where a call with several values stands decides how many of them count.
Spread(e) == {
    <<Ret1(e)>>, <<<<"return", <<e, e>>>>>>, <<<<"return", <<N(5), e>>>>>>,
    <<<<"local", <<"a", "b", "c">>, <<e, e>>>>, <<"return", <<V("a"), V("b"), V("c")>>>>>>,
    <<<<"local", <<"a", "b", "c">>, <<e>>>>, <<"return", <<V("c"), V("b"), V("a")>>>>>>,
    <<<<"local", <<"a">>, <<e, e>>>>, Ret1(V("a"))>>,
    <<Let("t", Tab(<<e, e>>)), <<"return", <<<<"un", "LEN", V("t")>>, Index(V("t"), N(2))>>>>>>,
    <<<<"return", <<C("pad", <<e, e>>)>>>>>>, <<<<"return", <<C("pad", <<e>>)>>>>>>,
    <<Let("g", Fn(<<"a", "b">>, <<<<"return", <<V("b"), V("a")>>>>>>)), Ret1(C("g", <<e>>))>>,
    <<Ret1(Bin("ADD", e, e))>>, <<If(e, <<Ret1(N(6))>>)>> }
SpreadPrograms == {Library \o <<Main(b)>> : b \in UNION {Spread(e) :
    e \in {C("two", <<>>), C("one", <<>>), C("id", <<>>), C("id", <<N(4), C("two", <<>>)>>), <<"paren", N(2)>>}}}

OtherPrograms == {
    \* file-level tables are constant after the file is loaded; initializers run in order
    <<<<"local", <<"g", "h">>, <<Tab(<<N(1)>>), C("one", <<>>)>>>>>> \o Library
        \o <<Main(<<<<"return", <<Index(V("g"), N(1)), V("h")>>>>>>)>>,
    <<Let("g", Tab(<<N(1)>>)), Main(<<SetAt(V("g"), N(1), N(2)), Ret1(Index(V("g"), N(1)))>>)>>,
    <<<<"local", <<"ga", "gb", "gc">>, <<C("two", <<>>)>>>>>> \o Library \o <<Main(<<<<"return", <<V("gc"), V("gb"), V("ga")>>>>>>)>>,
    <<Let("add", Fn(<<"a", "b">>, <<Ret1(Bin("ADD", V("a"), V("b")))>>)), Main(<<Ret1(C("add", <<N(2), N(3)>>))>>)>>,
    \* wrong number of arguments; errors
    Library \o <<Main(<<Ret1(C("counter", <<>>))>>)>>,
    Library \o <<Main(<<Let("h", V("counter")), Let("g", C("h", <<>>)), Ret1(<<"un", "NOT", V("g")>>)>>)>>,
    Library \o <<Main(<<Ret1(<<"un", "NOT", C("counter", <<C("id", <<>>)>>)>>)>>)>>,
    <<Main(<<Let("t", N(1)), Ret1(Index(V("t"), N(1)))>>)>>,
    <<Main(<<Let("t", Tab(<<>>)), SetAt(V("t"), <<"nil">>, N(1)), Ret1(N(1))>>)>>,
    <<Main(<<Let("t", N(1)), <<"callst", <<"call", V("t"), <<>>>>>>, Ret1(N(1))>>)>>,
    <<Main(<<<<"forin", <<"k">>, <<C("pairs", <<N(1)>>)>>, <<>>>>, Ret1(N(1))>>)>>,
    <<Main(<<<<"local", <<"a", "b">>, <<>>>>, <<"assign", <<V("a"), V("b")>>, <<N(1)>>>>, Ret1(V("a"))>>)>>,
    <<Main(<<<<"goto", "nowhere">>>>)>>, <<Main(<<<<"break">>>>)>>,
    \* recursion, nested captures, methods, "..." seen from a nested function
    <<Proc("fact", <<"n">>, <<If(Bin("LE", V("n"), N(1)), <<Ret1(N(1))>>), Ret1(Bin("MUL", V("n"), C("fact", <<Bin("SUB", V("n"), N(1))>>)))>>),
      Main(<<Ret1(C("fact", <<N(3)>>))>>)>>,
    <<Main(<<Let("n", N(0)), Local("up", <<"k">>, <<If(Bin("GT", V("k"), N(0)), <<Inc("n"), Do("up", <<Bin("SUB", V("k"), N(1))>>)>>)>>),
             Do("up", <<N(3)>>), Ret1(V("n"))>>)>>,
    <<Main(<<Let("n", N(1)), Let("get", Fn(<<>>, <<Ret1(Fn(<<>>, <<Ret1(V("n"))>>))>>)), Let("set", Fn(<<"v">>, <<Set("n", V("v"))>>)),
             Let("g", C("get", <<>>)), Do("set", <<N(5)>>), <<"return", <<C("g", <<>>), V("n")>>>>>>)>>,
    <<Main(<<Let("o", <<"table", <<<<"pair", K(1), N(4)>>,
                                  <<"pair", K(2), Fn(<<"self", "a">>, <<Ret1(Bin("SUB", Index(V("self"), K(1)), V("a")))>>)>>>>>>),
             Ret1(<<"method", V("o"), 2, <<N(3)>>>>)>>)>>,
    Library \o <<Proc("wrap", <<"...">>, <<Let("g", Fn(<<>>, <<Ret1(C("id", <<<<"vararg">>>>))>>)), Ret1(C("g", <<>>))>>),
                 Main(<<Ret1(C("wrap", <<N(3), N(4)>>))>>)>>,
    \* loops: a function per iteration, a backward goto, break and continue at two levels, pairs
    <<Main(<<Let("fs", Tab(<<>>)), <<"for", "i", N(1), N(3), N(1), <<SetAt(V("fs"), V("i"), Fn(<<>>, <<Inc("i"), Ret1(V("i"))>>))>>>>,
             Let("g", Index(V("fs"), N(2))), Let("h", Index(V("fs"), N(3))),
             <<"return", <<C("g", <<>>), C("g", <<>>), C("h", <<>>)>>>>>>)>>,
    <<Main(<<Let("n", N(0)), <<"label", "top">>, <<"block", <<Let("m", Bin("ADD", V("n"), N(1))), Set("n", V("m"))>>>>,
             If(Bin("LT", V("n"), N(3)), <<<<"goto", "top">>>>), Ret1(V("n"))>>)>>,
    <<Main(<<Let("n", N(0)), <<"for", "i", N(1), N(3), N(1), <<
                <<"for", "j", N(1), N(3), N(1), <<If(Bin("EQ", V("j"), N(2)), <<<<"continue">>>>), Inc("n"),
                                                  If(Bin("EQ", V("i"), N(2)), <<<<"break">>>>)>>>>,
                If(Bin("EQ", V("n"), N(3)), <<<<"goto", "out">>>>)>>>>,
             <<"label", "out">>, Ret1(V("n"))>>)>>,
    <<Main(<<Let("t", <<"table", <<<<"pair", K(1), N(2)>>, Item(N(3)), <<"pair", N(7), <<"nil">>>>>>>>), Let("n", N(0)),
             <<"forin", <<"k", "v">>, <<C("pairs", <<V("t")>>)>>, <<If(Bin("EQ", V("v"), N(3)), <<<<"continue">>>>), Set("n", Bin("ADD", V("n"), V("v")))>>>>,
             <<"return", <<V("n"), <<"true">>, <<"un", "BNOT", V("n")>>, <<"un", "UNM", V("n")>>, <<"un", "NOT", <<"nil">>>>>>>>>>)>>,
    <<Main(<<Let("x", N(1)), IfElse(Bin("LT", N(2), V("x")), <<Set("x", N(5))>>, <<Set("x", N(6))>>), Ret1(V("x"))>>)>> }

(***************************************************************************)
(* Functions of numbers, called with both kinds of number and with others. *)
(***************************************************************************)
F(q) == <<"flt", q>>
NumericBodies == {
    <<Ret1(Bin("ADD", V("a"), V("b")))>>,
    <<Ret1(Bin("IDIV", V("a"), Bin("SUB", V("b"), N(1))))>>,
    <<Ret1(Bin("MOD", V("a"), V("b")))>>,
    <<Ret1(Bin("BAND", V("a"), <<"un", "BNOT", V("b")>>))>>,
    <<Let("s", V("a")), <<"for", "i", N(1), V("b"), N(1), <<Set("s", Bin("ADD", V("s"), V("i")))>>>>, Ret1(V("s"))>>,
    <<<<"while", Bin("LT", V("a"), V("b")), <<Inc("a")>>>>, Ret1(V("a"))>>,
    <<Let("x", V("a")), Set("x", Bin("DIV", V("x"), V("b"))), Ret1(V("x"))>>,
    <<Let("x", Bin("MUL", V("a"), N(2))), Let("y", V("x")), Set("x", Bin("DIV", V("x"), V("b"))), Ret1(V("y"))>>,
    <<Ret1(<<"un", "UNM", Bin("SUB", V("a"), V("b"))>>)>>,
    <<Let("g", Fn(<<>>, <<Inc("a"), Ret1(Bin("ADD", V("a"), V("b")))>>)), Ret1(C("g", <<>>))>>,
    <<Ret1(C("h", <<V("b"), V("a")>>))>>,
    <<Let("x", C("h", <<V("a"), N(1)>>)), Ret1(Bin("ADD", V("x"), V("b")))>>,
    <<If(Bin("LE", V("a"), N(0)), <<Ret1(V("b"))>>), Ret1(C("f", <<Bin("SUB", V("a"), N(1)), Bin("ADD", V("b"), V("a"))>>))>>,
    <<Let("t", Tab(<<V("a")>>)), SetAt(V("t"), V("b"), Bin("ADD", V("a"), N(1))), Ret1(Index(V("t"), N(1)))>> }

\* Values that are of the one kind of number or of the other.
MixedBodies == {
    <<Ret1(<<"or", <<"and", Bin("GT", V("a"), V("b")), V("a")>>, Bin("MUL", V("b"), N(1))>>)>>,
    <<If(Bin("LT", V("a"), V("b")), <<Ret1(V("a"))>>), Ret1(Bin("ADD", V("b"), N(0)))>>,
    <<Let("x", Bin("ADD", V("a"), N(0))), If(Bin("LT", V("a"), V("b")), <<Set("x", V("b"))>>), Ret1(V("x"))>> }

NumericProgram(body, args) ==
    <<Proc("h", <<"x", "y">>, <<Ret1(Bin("SUB", V("x"), V("y")))>>), Proc("f", <<"a", "b">>, body), Main(<<Ret1(C("f", args))>>)>>
SameKind == {<<N(2), N(3)>>, <<F(6), F(8)>>, <<<<"nil">>, N(1)>>}
BothKinds == {<<N(2), F(12)>>, <<F(6), N(2)>>}
NumericPrograms == {NumericProgram(b, args) : b \in NumericBodies \cup MixedBodies, args \in SameKind \cup BothKinds}
    \cup {<<Main(<<Let("x", N(1)), Set("x", <<"or", <<"and", Bin("LT", V("x"), c), N(2)>>, F(6)>>), Ret1(V("x"))>>)>> : c \in {N(1), N(2)}}

(***************************************************************************)
(* Tables whose constructors have literal keys: the keys that a variable's *)
(* tables have, and what is known of it, change on the way.                *)
(***************************************************************************)
Rec(pairs) == <<"table", [i \in DOMAIN pairs |-> <<"pair", pairs[i][1], pairs[i][2]>>]>>
Field(t, k) == Index(V(t), K(k))
Sum(t) == <<"forin", <<"k", "v">>, <<C("pairs", <<V(t)>>)>>, <<Set("n", Bin("ADD", V("n"), V("v")))>>>>
One == Rec(<<<<K(1), N(3)>>, <<N(1), N(4)>>>>)
Other == Rec(<<<<K(2), N(5)>>, <<K(1), N(6)>>>>)
Turned == Rec(<<<<K(1), N(7)>>, <<K(2), N(-8)>>>>)
TableStart == <<<<"local", <<"n", "t">>, <<N(1), One>>>>, Let("u", Other)>>
TableFinish == <<Sum("t"), <<"return", <<V("n"), Field("t", 1), Field("t", 2), Index(V("t"), N(1)), Index(V("u"), <<"flt", Grain>>), Field("u", 2),
                                        <<"un", "LEN", V("t")>>>>>>>>

\* Statements over n, t and u.  The last three assign where the compiler does not follow the assignments.
TablePool == <<
    Set("t", Other), Set("t", Turned), Set("u", V("t")), Set("t", V("u")),
    IfElse(Bin("LT", V("n"), N(2)), <<Set("t", One)>>, <<Set("t", V("u"))>>),
    If(Bin("LT", V("n"), N(9)), <<Set("u", One), Sum("t")>>),
    SetAt(V("t"), K(1), Field("u", 2)), SetAt(V("t"), K(2), N(2)), SetAt(V("u"), K(1), <<"nil">>),
    SetAt(V("t"), V("n"), V("n")), SetAt(V("t"), <<"flt", 2 * Grain>>, N(3)),
    Set("t", <<"table", <<Item(N(5)), <<"pair", K(2), Field("t", 1)>>, Item(V("n"))>>>>),
    Set("t", Rec(<<<<K(1), N(2)>>, <<V("n"), N(3)>>>>)),
    <<"block", <<Set("t", V("u"))>>>>,
    <<"while", Bin("LT", V("n"), N(3)), <<Inc("n"), SetAt(V("u"), K(2), Field("t", 1)), Set("t", Other)>>>>,
    <<"callst", <<"call", <<"paren", Fn(<<>>, <<Set("u", One)>>)>>, <<>>>>>> >>

TableProgram(stmts) == <<Main(TableStart \o [i \in DOMAIN stmts |-> TablePool[stmts[i]]] \o TableFinish)>>

TablePrograms == {TableProgram(g) : g \in UNION {[1..n -> DOMAIN TablePool] : n \in Lengths}} \cup {
    \* tables of the file are constant after it is loaded
    <<Let("g", Other), Main(<<<<"return", <<Field("g", 1), Field("g", 3)>>>>>>)>>,
    <<Let("g", Other), Main(<<SetAt(V("g"), K(1), N(1)), Ret1(N(1))>>)>>,
    <<Let("g", Rec(<<<<K(1), Other>>>>)), Let("h", V("g")),
      Proc("f", <<"t">>, <<SetAt(V("t"), K(3), Field("t", 2)), Ret1(V("t"))>>),
      Main(<<Let("t", C("f", <<Turned>>)), <<"return", <<Index(Field("h", 1), K(2)), Field("t", 3)>>>>>>)>>,
    \* a loop variable that has the name of a table; a table in a loop; keys that are the same number, or the same
    <<Main(<<Let("t", Other), <<"forin", <<"k", "t">>, <<C("pairs", <<V("t")>>)>>, <<If(Bin("EQ", V("k"), N(0)), <<Ret1(Field("t", 1))>>)>>>>,
             Ret1(Field("t", 1))>>)>>,
    <<Main(<<Let("t", Other), Let("u", Tab(<<Turned, One>>)),
             <<"forin", <<"k", "t">>, <<C("ipairs", <<V("u")>>)>>, <<Ret1(Field("t", 2))>>>>, Ret1(N(1))>>)>>,
    <<Main(<<Let("n", N(0)), <<"for", "i", N(1), N(2), N(1), <<Let("t", Rec(<<<<K(1), V("i")>>>>)), SetAt(V("t"), K(2), V("n")), Sum("t")>>>>,
             Ret1(V("n"))>>)>>,
    <<Main(<<Let("n", N(0)), Let("t", Rec(<<<<N(1), N(2)>>, <<<<"flt", Grain>>, N(3)>>>>)), Sum("t"), <<"return", <<V("n"), Index(V("t"), N(1))>>>>>>)>>,
    <<Main(<<Let("t", Rec(<<<<K(1), N(2)>>, <<K(1), N(3)>>>>)), Ret1(Field("t", 1))>>)>> }

(***************************************************************************)
(* Jumps over, into and out of blocks; each is taken at most twice.        *)
(***************************************************************************)
\* The label of the inner block has the name `inner': if that is the name of the outer label, it hides it.
JumpPieces(i, inner) ==
    LET jumpTo(label) == If(Bin("LT", V("n"), N(2)), <<Inc("n"), <<"goto", label>>>>)
        jump == jumpTo("l")
        name == <<"v1", "v2", "v3">>[i]
    IN  { <<jump>>, <<<<"label", "l">>>>, <<Let(name, V("n")), Set("m", Bin("ADD", V("m"), V(name)))>>,
          <<<<"block", <<jump, Inc("m")>>>>>>, <<<<"block", <<jumpTo(inner), <<"label", inner>>, Inc("m")>>>>>>,
          <<<<"while", Bin("LT", V("n"), N(2)), <<Inc("n"), If(Bin("EQ", V("m"), N(1)), <<Inc("m"), <<"continue">>>>), Inc("m")>>>>>>,
          <<Inc("n"), If(Bin("GT", V("n"), N(3)), <<Ret1(V("m"))>>), <<"goto", "l">>>> }
JumpPrograms(inner) == {<<Main(<<<<"local", <<"n", "m">>, <<N(0), N(1)>>>>>> \o a \o b \o c \o <<<<"return", <<V("n"), V("m")>>>>>>)>> :
                     a \in JumpPieces(1, inner), b \in JumpPieces(2, inner), c \in JumpPieces(3, inner)}

\* A closure made in each iteration of a while loop keeps its own variable.
BoxPrograms == {
    <<Main(<<<<"local", <<"i", "fs">>, <<N(0), Tab(<<>>)>>>>,
             <<"while", Bin("LT", V("i"), N(2)), <<
                 Let("x", V("i")), SetAt(V("fs"), Bin("ADD", V("i"), N(1)), Fn(<<>>, <<Ret1(V("x"))>>)), Inc("i")>>>>,
             Let("g", Index(V("fs"), N(1))), Ret1(C("g", <<>>))>>)>> }

\* The initial value of a local is computed before the local exists.
ShadowPrograms == {
    <<Main(<<Let("t", Tab(<<N(1)>>)), <<"block", <<Let("t", V("t")), Ret1(Index(V("t"), N(1)))>>>>>>)>> }

(***************************************************************************)
(* The parts, and the programs of each.                                    *)
(***************************************************************************)
VARIABLES part, file, stage, result,
          unit, frames, boxes, tables, closures, globals,   \* of Interpreter
          tree, ar, ir, cunit, store,                       \* of Compiler
          tab, map, walk, ops                               \* of VarTable

Common ==
    ArithPrograms \cup FloatPrograms \cup SpreadPrograms \cup OtherPrograms \cup NumericPrograms \cup TablePrograms
        \cup GeneratedPrograms(Lengths) \cup ForPrograms({N(1), N(-1), F(2), F(3), F(0)})

InterpPrograms ==
    IF Suite = "boxes" THEN BoxPrograms
    ELSE Common \cup JumpPrograms("k")

CPrograms ==
    IF Suite = "shadow" THEN ShadowPrograms
    ELSE Common \cup BoxPrograms \cup JumpPrograms("l")

Interp == INSTANCE Interpreter WITH MaxRegister <- 255, Programs <- InterpPrograms
Comp == INSTANCE Compiler WITH
            kMaxSpecIterations <- 16, kMaxMathSpecializedParams <- 4, StepUnit <- 2, Programs <- CPrograms, unit <- cunit

TableOps == 4

\* A string and a float that collide with each other and with integers.
StringN == <<"str", 1>>
Half == <<"flt", 1>>
VTab == INSTANCE VarTable WITH
           QuickSize <- 2, OtherHash <- StringN :> 1 @@ Half :> 1, MaxInt <- 3, Sparse <- {9}, Others <- {StringN, Half},
           Values <- {1, 2}, NKey <- StringN, MaxOps <- TableOps, t <- tab

Ref == INSTANCE LuaReference

interpVars == <<unit, frames, boxes, tables, closures, globals>>
cVars == <<tree, ar, ir, cunit, store>>
tableVars == <<tab, map, walk, ops>>
vars == <<part, file, stage, result, interpVars, cVars, tableVars>>

NoProgram == file = <<>> /\ stage = "-" /\ result = <<>>
NoInterp == unit = 0 /\ frames = <<>> /\ boxes = 0 /\ tables = 0 /\ closures = 0 /\ globals = 0
NoC == tree = <<>> /\ ar = 0 /\ ir = 0 /\ cunit = 0 /\ store = 0
NoTable == tab = 0 /\ map = 0 /\ walk = 0 /\ ops = 0

Init ==
    /\ part \in Parts
    /\ CASE part = "interp" -> Interp!Init /\ NoC /\ NoTable
         [] part = "c" -> Comp!Init /\ NoInterp /\ NoTable
         [] part = "table" -> VTab!Init /\ NoProgram /\ NoInterp /\ NoC

Next ==
    \/ part = "interp" /\ Interp!Next /\ UNCHANGED <<part, cVars, tableVars>>
    \/ part = "c" /\ Comp!Next /\ UNCHANGED <<part, interpVars, tableVars>>
    \/ part = "table" /\ VTab!Next /\ UNCHANGED <<part, file, stage, result, interpVars, cVars>>
    \/ part = "table" /\ ops = TableOps /\ UNCHANGED vars

\* The interpreter goes on with the program it runs.
Runs == part = "interp" /\ stage # "source" /\ Interp!Step /\ UNCHANGED <<part, cVars, tableVars>>

Spec == Init /\ [][Next]_vars /\ WF_<<stage, result, interpVars>>(Runs)

\* A program that compiles computes what its source means: the registers the code generator shares between temporaries and
\* variables, its jumps and its boxes do not show.  A program is rejected only by the rules of the semantic analysis, or if
\* it cannot work.
ExecMatchesSource ==
    part = "interp" /\ stage = "done" =>
        LET rejected == result = Interp!Rejected
        IN  \/ rejected /\ ~Interp!Accepts(Interp!ResolveScopes(file))
            \/ Ref!Meaning(file) \in {result} \cup (IF rejected THEN {Interp!Error} ELSE {})

\* The code of every loop ends: a program that runs comes to its end.
Terminates == part = "interp" /\ stage = "init" ~> stage = "done"

\* Values up to nils at the end: an empty "..." is nil in the code that C is generated for.
RECURSIVE Trimmed(_)
Trimmed(vals) == IF vals # <<>> /\ vals[Len(vals)] = Nil THEN Trimmed(SubSeq(vals, 1, Len(vals) - 1)) ELSE vals
SameResult(a, b) == a.t = b.t /\ Trimmed(a.v) = Trimmed(b.v)

(***************************************************************************)
(* Where the C does not compute what the file means.                       *)
(***************************************************************************)
Nodes == Comp!WalkBlock(tree, <<>>)

\* A constant float step is printed with six decimals, so that the loop takes the step that was printed.
AsPrinted(s) == IF s[1] = "for" /\ s[5][1] = "flt" THEN [s EXCEPT ![5] = <<"flt", Comp!PrintedStep(s[5][2])>>] ELSE s
WithPrintedSteps(f) ==
    [i \in DOMAIN f |-> IF f[i][1] # "function" THEN f[i]
                        ELSE [f[i] EXCEPT ![3] = [@ EXCEPT ![3] = [j \in DOMAIN @ |-> AsPrinted(@[j])]]]]

\* What is an int or a float, by the path that is taken, is always a float: the value of "c and v1 or v2", what a
\* specialised version returns, a variable that is assigned both kinds.
MixesKinds(types, nodes) ==
    LET both == {Comp!T_INT, Comp!T_FLOAT}
        TypeAt(p) == Comp!TypeIn(types, p)
    IN  \/ \E n \in nodes : n[2][1] = "or" /\ n[2][2][1] = "and" /\ {TypeAt(n[1] \o <<2, 3>>), TypeAt(n[1] \o <<3>>)} = both
        \/ {TypeAt(n[1] \o <<2, 1>>) : n \in {m \in nodes : m[2][1] = "return"}} = both
        \/ \E n \in nodes : /\ n[2][1] = "assign" /\ (n[1] \o <<2>>) \in DOMAIN ir.def
                             /\ TypeAt(n[1] \o <<3, 1>>) = Comp!T_INT /\ TypeAt(ir.def[n[1] \o <<2>>]) = Comp!T_FLOAT
FloatsInts ==
    \/ MixesKinds(ir.types, Nodes)
    \/ \E x \in DOMAIN ir.positions : \E i \in DOMAIN ir.snapshots[x] :
           MixesKinds(ir.snapshots[x][i], LET f == Comp!FuncNamed(tree, x) IN Comp!WalkBlock(f[5], f[2]))
SameNumbers(a, b) ==
    /\ a.t = "values" /\ b.t = "values" /\ Len(a.v) = Len(b.v)
    /\ \A i \in DOMAIN a.v : a.v[i] = b.v[i] \/ (a.v[i].t = "float" /\ VarEqual(a.v[i], b.v[i]))

\* A variable whose tables are taken to be of one type is also assigned in a loop, in a do block or in a nested function,
\* where the types are not followed, or names a variable of a loop.
Assigns(s, x) ==
    CASE s[1] = "local" -> \E i \in DOMAIN s[2] : s[2][i].name = x
      [] s[1] = "assign" -> s[2][1][1] = "var" /\ s[2][1][2] = x
      [] s[1] = "for" -> s[2].name = x
      [] s[1] = "forin" -> \E i \in DOMAIN s[2] : s[2][i].name = x
      [] OTHER -> FALSE
Unfollowed(x) ==
    \E n \in Nodes : /\ Assigns(n[2], x)
                     /\ \/ n[2][1] \in {"for", "forin"}
                        \/ \E m \in Nodes : /\ m[2][1] \in {"block", "while", "repeat", "for", "forin", "func"}
                                             /\ LET at == IF m[2][1] = "func" THEN m[2][2] ELSE m[1]
                                                IN  Len(n[1]) > Len(at) /\ SubSeq(n[1], 1, Len(at)) = at
LosesType == \E n \in Nodes : n[1] \in DOMAIN ir.ann /\ n[2][1] = "var" /\ Unfollowed(n[2][2])

\* A field that a table has for others is set to nil at its place in the table's own order, which may be the place of
\* another field in the order of the type; a field whose key is a float beside the same integer is never set.
MixesFields ==
    \E p, q \in DOMAIN ir.shapes :
        LET a == Comp!FieldKeys(ir.shapes[p])
            b == Comp!FieldKeys(ir.shapes[q])
        IN  \/ a # b /\ Comp!ComputeTableSpecName(ir.shapes[p]) = Comp!ComputeTableSpecName(ir.shapes[q]) /\ \E i \in DOMAIN a : ir.shapes[p][i].optional
            \/ \E i, j \in DOMAIN a : i # j /\ VarEqual(a[i], a[j])

HasKeyTwice == \E n \in Nodes : n[2][1] = "table" /\ Comp!BuildCtorFields(n[2]).twice

\* The C that a file is compiled to computes what the file means: the specialised versions of its functions, native
\* variables, the structs of its tables, boxes, Multi values and jumps do not show, no uninitialised variable is read, and
\* the C compiler accepts it.  A file is rejected only by the rules of the semantic analysis, for a key that a constructor
\* has twice, or if it cannot work (a call of a function of the file with a wrong number of arguments).  The code has the
\* exceptions above: a float step as it is printed, an int that becomes a float, a table read with a struct of a type that
\* it does not have, and the fields of tables with the same keys in several orders.
CMatchesSource ==
    part = "c" /\ stage = "done" =>
        LET rejected == result = Comp!Rejected
        IN  \/ rejected /\ (~Comp!Accepts(tree) \/ HasKeyTwice)
            \/ \E meant \in {Ref!Meaning(file)} :
                   \/ SameResult(result, meant) \/ (rejected /\ meant = Comp!Error)
                   \/ SameNumbers(result, meant) /\ FloatsInts
            \/ SameResult(result, Ref!Meaning(WithPrintedSteps(file)))
            \/ result = Comp!NotDefined /\ MixesFields
            \/ result = Comp!WrongShape /\ LosesType

\* The properties of tables; the module states and explains them.
IsTheMap == part = "table" => VTab!IsTheMap
WalkSound == part = "table" => VTab!WalkSound
=============================================================================
