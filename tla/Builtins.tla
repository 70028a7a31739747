------------------------------ MODULE Builtins ------------------------------
(***************************************************************************)
(* Library functions that the C generator writes into the code instead of  *)
(* calling them (TryCompileBuiltin*Call in c_gen.cpp, with the helpers of  *)
(* c_runtime_header.h), beside the registered native functions that every  *)
(* other call reaches through FakeluaCallByName.                           *)
(*                                                                         *)
(* Values are those of VmOps with two more floats, NaN and Huge (infinity).*)
(* A string is the sequence of its characters, which are numbers: 0 to 9   *)
(* the digits, then Dot, Minus, Plus, Space and the letters A and a; Dot   *)
(* stands for all that only the native number parser reads (a hexadecimal  *)
(* prefix, an exponent).  A table is the function from its integer keys to *)
(* their values.  Results of libm are terms: the name of the function and  *)
(* its argument.                                                           *)
(***************************************************************************)
EXTENDS Naming, VmOps, SequencesExt

CONSTANTS MaxByte,     \* the highest character (255)
          MaxString,   \* the longest string string.rep makes (1 GiB)
          MaxItems,    \* the longest table table.create fills (10000000)
          MaxUnpack,   \* the most values table.unpack returns
          MaxExp,      \* the largest exponent ldexp takes (INT_MAX)
          Args,        \* the single values that arguments are taken from
          Multis,      \* what a call or "..." may give as the last argument
          Places,      \* positions, counts and limits for calls with more arguments
          TabArgs,     \* what is passed as a table
          TabPairs     \* contents of the two tables before the call

VARIABLES call, inlined, called

NaN == Float(1003)
Huge == Float(1001)
IsNaN(x) == x = NaN

Dot == 10
Minus == 11
Plus == 12
Space == 13
BigA == 14
SmallA == 15
HashSign == 16
\* The names of types and what tostring puts before a value, as one character each.
Word(t) == CHOOSE i \in 17..22 : <<"nil", "bool", "int", "float", "table", "multi">>[i - 16] = t

Chars(cs) == [t |-> "str", v |-> 0, s |-> cs]
TwoValues(a, b) == Multi(<<a, b>>)
Libm(f, p, q) == [t |-> "float", v |-> q, s |-> <<f, p>>]

\* What a function returns, and the tables after it.
Returns(v, tabs) == [ret |-> v, tabs |-> tabs]
Throws(tabs) == Returns(Failed, tabs)

(***************************************************************************)
(* Conversions.                                                            *)
(***************************************************************************)
IsDigit(c) == c \in 0..9
Digits(n) == IF n < 10 THEN <<n>> ELSE <<n \div 10, n % 10>>

\* FlFastItoA, std::to_string, "%lld": decimal digits, of the unsigned magnitude when negative.
FlFastItoA(n) == IF n < 0 THEN <<Minus>> \o Digits(Unsigned(-n)) ELSE Digits(n)
Value(ds) == FoldLeft(LAMBDA acc, d : acc * 10 + d, 0, ds)

Unsigned1(cs) == IF cs # <<>> /\ Head(cs) = Minus THEN Tail(cs) ELSE cs
AllDigits(cs) == cs # <<>> /\ \A i \in DOMAIN cs : IsDigit(cs[i])
Negative(cs) == cs # <<>> /\ Head(cs) = Minus
SignedValue(cs) == IF Negative(cs) THEN -Value(Tail(cs)) ELSE Value(cs)
Trimmed(cs) ==
    LET keep == {i \in DOMAIN cs : cs[i] # Space}
    IN  IF keep = {} THEN <<>> ELSE SubSeq(cs, CHOOSE i \in keep : \A j \in keep : i <= j, CHOOSE i \in keep : \A j \in keep : j <= i)

\* charconv: an optional minus, digits and at most one point.
PointFree(cs) == SelectSeq(cs, LAMBDA c : c # Dot)
IsFloatText(cs) ==
    /\ Cardinality({i \in DOMAIN cs : cs[i] = Dot}) <= 1
    /\ AllDigits(PointFree(Unsigned1(cs)))
FloatText(cs) ==
    Given(Unsigned1(cs), LAMBDA body :
    Given({i \in DOMAIN body : body[i] = Dot}, LAMBDA at :
    LET whole == IF at = {} THEN body ELSE SubSeq(body, 1, (CHOOSE i \in at : TRUE) - 1)
        part == IF at = {} THEN <<>> ELSE SubSeq(body, (CHOOSE i \in at : TRUE) + 1, Len(body))
    IN  Given(Value(whole) * Grain + (Value(part) * Grain) \div 10 ^ Len(part), LAMBDA units :
        IF Negative(cs) THEN -units ELSE units)))

\* std::stod: leading blanks and either sign, and nothing behind the number.
StodText(cs) ==
    LET first == {i \in DOMAIN cs : cs[i] # Space}
    IN  Given(IF first = {} THEN <<>> ELSE SubSeq(cs, CHOOSE i \in first : \A j \in first : i <= j, Len(cs)), LAMBDA body :
        IF body # <<>> /\ Head(body) = Plus /\ ~Negative(Tail(body)) THEN Tail(body) ELSE body)
CVarToNumber(x, default) ==
    IF CheckNum(x) THEN ToDouble(x)
    ELSE IF x.t = "str" /\ IsFloatText(StodText(x.s)) THEN FloatText(StodText(x.s)) ELSE default

\* Lua's pushnumint: an integer when it fits, otherwise still a float.
FlPushNumInt(q) == IF DoubleFitsInt64(q) THEN Number(q \div Grain) ELSE Float(q)
IsFinite(q) == q \notin {NaN.v, Huge.v}
FloorOf(q) == IF IsFinite(q) THEN (q \div Grain) * Grain ELSE q
CeilOf(q) == IF IsFinite(q) THEN -(((-q) \div Grain) * Grain) ELSE q

\* native_common.h.
CheckNumberArg(x) == x.t \notin {"bool", "table", "nil"}
CheckMathNumberArg(x) == CheckNumberArg(x) /\ (x.t = "str" => CVarToNumber(x, NaN.v) # NaN.v)
IntegerArg(x) == CVarToNumber(x, NaN.v)
CheckIntegerArg(x) == x.t = "int" \/ (x.t \in {"float", "str"} /\ DoubleFitsInt64(IntegerArg(x)))
IntegerOf(x) == IF x.t = "int" THEN x.v ELSE IntegerArg(x) \div Grain
CheckStringArg(x) == x.t \notin {"bool", "table", "nil"}
GetStringArgView(x) ==
    CASE x.t = "str" -> x.s
      [] x.t = "int" -> FlFastItoA(x.v)
      [] x.t = "float" -> FlFastItoA(x.v \div Grain) \o <<Dot>> \o FlFastItoA(x.v % Grain)
LuaPosRelat(pos, len) == IF pos >= 0 THEN pos ELSE IF -pos > len THEN 0 ELSE len + pos + 1

(***************************************************************************)
(* math: the native functions.                                             *)
(***************************************************************************)
Arg(args, i) == IF i <= Len(args) THEN args[i] ELSE Nil
AsNumber(q) == IF DoubleFitsInt64(q) THEN Number(q \div Grain) ELSE Float(q)

NativeAbs(x) ==
    LET q == CVarToNumber(x, NaN.v) IN
    CASE ~CheckMathNumberArg(x) -> Failed
      [] CheckMathNumberArg(x) /\ x.t = "int" -> Number(Wrap(Abs(x.v)))
      [] CheckMathNumberArg(x) /\ x.t = "float" -> IF IsFinite(x.v) THEN Float(Abs(x.v)) ELSE x
      [] CheckMathNumberArg(x) /\ x.t = "str" -> IF DoubleFitsInt64(q) THEN Number(Wrap(Abs(q \div Grain))) ELSE Float(Abs(q))

NativeRound(f, x) ==
    IF ~CheckMathNumberArg(x) THEN Failed
    ELSE IF x.t = "int" THEN x
    ELSE LET q == CVarToNumber(x, NaN.v) IN FlPushNumInt(IF f = "math.floor" THEN FloorOf(q) ELSE CeilOf(q))

\* NaN compares as equal to everything.
CompareNumbers(a, b) ==
    LET p == CVarToNumber(a, NaN.v)
        q == CVarToNumber(b, NaN.v)
    IN  IF p = NaN.v \/ q = NaN.v \/ p = q THEN 0 ELSE IF p < q THEN -1 ELSE 1
Wins(f, best, x) == IF f = "math.max" THEN CompareNumbers(best, x) < 0 ELSE CompareNumbers(best, x) > 0
NativeExtreme(f, args) ==
    Given(FoldLeft(LAMBDA acc, x : IF Wins(f, acc, x) THEN x ELSE acc, Head(args), Tail(args)), LAMBDA best :
    IF args = <<>> \/ \E i \in DOMAIN args : ~CheckMathNumberArg(args[i]) THEN Failed
    ELSE IF best.t = "str" THEN AsNumber(CVarToNumber(best, NaN.v)) ELSE best)

NativeUnary(f, x) == IF CheckMathNumberArg(x) THEN Libm(f, 0, CVarToNumber(x, 0)) ELSE Failed
NativePow(x, y) ==
    IF CheckMathNumberArg(x) /\ CheckMathNumberArg(y) THEN Libm("pow", CVarToNumber(x, 0), CVarToNumber(y, 0)) ELSE Failed
CRem(a, b) == a - b * CDiv(a, b)
NativeFmod(x, y) ==
    IF ~CheckMathNumberArg(x) \/ ~CheckMathNumberArg(y) THEN Failed
    ELSE IF x.t = "int" /\ y.t = "int" THEN
        IF y.v = 0 THEN Failed ELSE Number(IF y.v = -1 THEN 0 ELSE CRem(x.v, y.v))
    ELSE Libm("fmod", CVarToNumber(x, 0), CVarToNumber(y, 0))
Clamped(e) == IF e > MaxExp THEN MaxExp ELSE IF e < -MaxExp - 1 THEN -MaxExp - 1 ELSE e
NativeLdexp(x, y) ==
    IF CheckMathNumberArg(x) /\ CheckIntegerArg(y) THEN Libm("ldexp", CVarToNumber(x, 0), Clamped(IntegerOf(y))) ELSE Failed
NativeMathType(x) == CASE x.t = "int" -> Chars(<<Word("int")>>) [] x.t = "float" -> Chars(<<Word("float")>>) [] OTHER -> Nil
NativeTointeger(x) ==
    IF ~CheckNumberArg(x) THEN Failed ELSE IF x.t = "int" THEN x
    ELSE IF DoubleFitsInt64(CVarToNumber(x, NaN.v)) THEN Number(CVarToNumber(x, NaN.v) \div Grain) ELSE Nil
NativeUlt(x, y) ==
    IF CheckIntegerArg(x) /\ CheckIntegerArg(y) THEN Bool(Unsigned(IntegerOf(x)) < Unsigned(IntegerOf(y))) ELSE Failed

\* rand() gives r, which also stands for the words that several calls make up.
InRange(l, u, r) ==
    IF l > u THEN Failed ELSE IF l = u THEN Number(l)
    ELSE LET range == Unsigned(Unsigned(u) - Unsigned(l) + 1)
         IN  Number(IF range = 0 THEN Wrap(r) ELSE Wrap(Unsigned(l) + (r % range)))
NativeRandom(args, r) ==
    CASE Len(args) = 0 -> Libm("random", 0, r)
      [] Len(args) = 1 ->
           LET u == IntegerOf(args[1]) IN
           IF ~CheckIntegerArg(args[1]) THEN Failed ELSE IF u = 0 THEN Number(Wrap(r)) ELSE IF u < 0 THEN Failed
           ELSE Number(1 + (r % u))
      [] Len(args) > 1 ->
           IF CheckIntegerArg(args[1]) /\ CheckIntegerArg(args[2]) THEN InRange(IntegerOf(args[1]), IntegerOf(args[2]), r) ELSE Failed
NativeRandomseed(args) == IF args # <<>> /\ ~CheckIntegerArg(args[1]) THEN Failed ELSE Nil

ModfParts(q) ==
    LET ip == IF q < 0 THEN CeilOf(q) ELSE FloorOf(q)
    IN  TwoValues(FlPushNumInt(ip), IF q = NaN.v THEN NaN ELSE Float(IF q = ip THEN 0 ELSE q - ip))
NativeModf(x) ==
    IF ~CheckMathNumberArg(x) THEN Failed ELSE IF x.t = "int" THEN TwoValues(x, Float(0)) ELSE ModfParts(CVarToNumber(x, 0))
NativeFrexp(x) ==
    IF CheckMathNumberArg(x) THEN TwoValues(Libm("frexp", 0, CVarToNumber(x, 0)), Libm("exp", 0, CVarToNumber(x, 0))) ELSE Failed

(***************************************************************************)
(* math: what c_gen.cpp writes instead.                                    *)
(***************************************************************************)
InlineAbs(x) ==
    CASE x.t = "int" -> Number(Wrap(IF x.v < 0 THEN Unsigned(-x.v) ELSE x.v))
      [] x.t = "float" -> IF IsFinite(x.v) THEN Float(Abs(x.v)) ELSE x
      [] OTHER -> NativeAbs(x)

FlMathFloor(x) == IF x.t = "int" THEN x ELSE FlPushNumInt(FloorOf(x.v))
FlMathCeil(x) == IF x.t = "int" THEN x ELSE FlPushNumInt(CeilOf(x.v))
InlineRound(f, x) == IF ~CheckNum(x) THEN NativeRound(f, x) ELSE IF f = "math.floor" THEN FlMathFloor(x) ELSE FlMathCeil(x)

\* OpGe and OpLe: only numbers, and false for NaN.
FlCmpGe(a, b) == ~IsNaN(a) /\ ~IsNaN(b) /\ ToDouble(a) >= ToDouble(b)
InlineExtreme(f, a, b) ==
    IF ~CheckNum(a) \/ ~CheckNum(b) THEN Failed
    ELSE IF f = "math.max" THEN IF FlCmpGe(a, b) THEN a ELSE b
    ELSE IF FlCmpGe(b, a) THEN a ELSE b

EmitGuardedUnary(f, x) == IF CheckNum(x) THEN Libm(f, 0, ToDouble(x)) ELSE NativeUnary(f, x)
InlinePow(x, y) == IF CheckNum(x) /\ CheckNum(y) THEN Libm("pow", ToDouble(x), ToDouble(y)) ELSE NativePow(x, y)

FlMathFmod(x, y) ==
    IF x.t = "int" /\ y.t = "int" THEN IF y.v = 0 THEN Failed ELSE Number(IF y.v = -1 THEN 0 ELSE CRem(x.v, y.v))
    ELSE Libm("fmod", ToDouble(x), ToDouble(y))
InlineFmod(x, y) == IF CheckNum(x) /\ CheckNum(y) THEN FlMathFmod(x, y) ELSE NativeFmod(x, y)

FlMathLdexp(q, e) == Libm("ldexp", q, IF e > MaxExp THEN MaxExp ELSE IF e < -MaxExp - 1 THEN -MaxExp - 1 ELSE e)
InlineLdexp(x, y) ==
    IF ~CheckNum(x) \/ ~CheckNum(y) THEN NativeLdexp(x, y) ELSE IF CheckInt(y) THEN FlMathLdexp(ToDouble(x), AsInt(y)) ELSE Failed

InlineMathType(x) == CASE x.t = "int" -> Chars(<<Word("int")>>) [] x.t = "float" -> Chars(<<Word("float")>>) [] OTHER -> Nil
InlineTointeger(x) ==
    IF x.t = "int" THEN x ELSE IF x.t = "float" /\ DoubleFitsInt64(x.v) THEN Number(x.v \div Grain) ELSE NativeTointeger(x)
InlineUlt(x, y) == IF x.t = "int" /\ y.t = "int" THEN Bool(Unsigned(x.v) < Unsigned(y.v)) ELSE NativeUlt(x, y)

\* More than two arguments: the others are dropped.
InlineRandom(args, r) ==
    CASE args = <<>> -> Libm("random", 0, r)
      [] Len(args) = 1 ->
           IF ~CheckNum(args[1]) THEN NativeRandom(args, r) ELSE IF ~CheckInt(args[1]) THEN Failed
           ELSE LET u == AsInt(args[1]) IN IF u = 0 THEN Number(Wrap(r)) ELSE IF u < 0 THEN Failed ELSE Number(1 + (r % u))
      [] Len(args) > 1 ->
           LET two == <<args[1], args[2]>> IN
           IF ~CheckNum(two[1]) \/ ~CheckNum(two[2]) THEN NativeRandom(two, r)
           ELSE IF ~CheckInt(two[1]) \/ ~CheckInt(two[2]) THEN Failed
           ELSE LET l == AsInt(two[1])
                    u == AsInt(two[2])
                    range == Unsigned(Unsigned(u) - Unsigned(l) + 1)
                IN  IF l > u THEN Failed ELSE IF l = u THEN Number(l)
                    ELSE Number(Wrap(IF range = 0 THEN r ELSE l + (r % range)))
InlineRandomseed(args) ==
    IF args = <<>> THEN Nil ELSE IF args[1].t = "int" THEN Nil ELSE NativeRandomseed(<<args[1]>>)

FlMathModf(x) == IF x.t = "int" THEN TwoValues(x, Float(0)) ELSE ModfParts(x.v)
InlineModf(x) == IF CheckNum(x) THEN FlMathModf(x) ELSE NativeModf(x)
InlineFrexp(x) == IF CheckNum(x) THEN TwoValues(Libm("frexp", 0, ToDouble(x)), Libm("exp", 0, ToDouble(x))) ELSE NativeFrexp(x)

(***************************************************************************)
(* string: native, and inline.                                             *)
(***************************************************************************)
IsStr(x) == x.t = "str"
Lowered(cs) == [i \in DOMAIN cs |-> IF cs[i] = BigA THEN SmallA ELSE cs[i]]
Raised(cs) == [i \in DOMAIN cs |-> IF cs[i] = SmallA THEN BigA ELSE cs[i]]
Repeated(cs, n) == FlattenSeq([i \in 1..n |-> cs])

NativeLen(x) == IF CheckStringArg(x) THEN Number(Len(GetStringArgView(x))) ELSE Failed
NativeCase(f, x) ==
    IF ~CheckStringArg(x) THEN Failed
    ELSE Chars(IF f = "string.lower" THEN Lowered(GetStringArgView(x)) ELSE Raised(GetStringArgView(x)))
NativeReverse(x) == IF CheckStringArg(x) THEN Chars(Reverse(GetStringArgView(x))) ELSE Failed
NativeRep(args) ==
    LET s == Arg(args, 1)
        n == IntegerOf(args[2])
        sep == IF Arg(args, 3) = Nil THEN <<>> ELSE GetStringArgView(args[3])
        unit == IF CheckStringArg(s) THEN GetStringArgView(s) ELSE <<>>
    IN  CASE Len(args) < 2 \/ ~CheckStringArg(s) \/ ~CheckIntegerArg(Arg(args, 2)) -> Failed
          [] OTHER ->
               IF n <= 0 THEN Chars(<<>>)
               ELSE IF Arg(args, 3) # Nil /\ ~CheckStringArg(args[3]) THEN Failed
               ELSE IF unit \o sep = <<>> THEN Chars(<<>>)
               ELSE IF n > MaxString \div Len(unit \o sep) THEN Failed
               ELSE Chars(Repeated(unit \o sep, n - 1) \o unit)
NativeByte(args) ==
    LET view == GetStringArgView(args[1])
        i == IF Arg(args, 2) = Nil THEN 1 ELSE IntegerOf(args[2])
        j == IF Arg(args, 3) = Nil THEN i ELSE IntegerOf(args[3])
        from == LuaPosRelat(i, Len(view))
        to == LuaPosRelat(j, Len(view))
    IN  Given([k \in 1..((IF to > Len(view) THEN Len(view) ELSE to) - from + 1) |-> Number(view[from + k - 1])], LAMBDA bytes :
        IF args = <<>> \/ ~CheckStringArg(Arg(args, 1)) THEN Failed
        ELSE IF \E k \in {2, 3} : Arg(args, k) # Nil /\ ~CheckIntegerArg(args[k]) THEN Failed
        ELSE IF from < 1 \/ from > Len(view) \/ to < from THEN Multi(<<>>)
        ELSE IF Len(bytes) = 1 THEN bytes[1] ELSE Multi(bytes))
NativeChar(args) ==
    IF \E i \in DOMAIN args : ~CheckInt(args[i]) \/ AsInt(args[i]) \notin 0..MaxByte THEN Failed
    ELSE Chars([i \in DOMAIN args |-> AsInt(args[i])])
\* string.format("%d", x).
NativeFormatD(args) == IF CheckIntegerArg(Arg(args, 1)) THEN Chars(FlFastItoA(IntegerOf(args[1]))) ELSE Failed
FindText(s, p) == {i \in 1..(Len(s) - Len(p) + 1) : SubSeq(s, i, i + Len(p) - 1) = p}
\* string.find(s, p, 1, true).
NativeFindPlain(x, y) ==
    LET at == FindText(GetStringArgView(x), GetStringArgView(y))
        first == CHOOSE i \in at : \A j \in at : i <= j
    IN  IF ~CheckStringArg(x) \/ ~CheckStringArg(y) THEN Failed ELSE IF at = {} THEN Nil
        ELSE TwoValues(Number(first), Number(first + Len(GetStringArgView(y)) - 1))

FlStringChar1(n) == IF n < 0 \/ n > MaxByte THEN Failed ELSE Chars(<<n>>)
InlineChar(x) == IF x.t = "int" THEN FlStringChar1(x.v) ELSE NativeChar(<<x>>)
FlStringLower(x) == Chars(Lowered(x.s))
FlStringUpper(x) == Chars(Raised(x.s))
InlineCase(f, x) == IF ~IsStr(x) THEN NativeCase(f, x) ELSE IF f = "string.lower" THEN FlStringLower(x) ELSE FlStringUpper(x)
\* Outside the string the inline form gives one nil.
FlStringByte1(x, i) ==
    LET at == IF i < 0 THEN Len(x.s) + i + 1 ELSE i
    IN  IF at < 1 \/ at > Len(x.s) THEN Nil ELSE Number(x.s[at])
InlineByte(args) ==
    IF ~IsStr(args[1]) \/ (Len(args) = 2 /\ args[2].t # "int") THEN NativeByte(args)
    ELSE FlStringByte1(args[1], IF Len(args) = 2 THEN args[2].v ELSE 1)
InlineFormatD(x) == IF x.t = "int" THEN Chars(FlFastItoA(x.v)) ELSE NativeFormatD(<<x>>)
InlineLen(x) == IF IsStr(x) THEN Number(Len(x.s)) ELSE NativeLen(x)
FlStringRep(x, n) ==
    IF n <= 0 \/ x.s = <<>> THEN Chars(<<>>)
    ELSE IF n > MaxString \div Len(x.s) THEN NativeRep(<<x, Number(n)>>) ELSE Chars(Repeated(x.s, n))
InlineRep(x, y) == IF IsStr(x) /\ y.t = "int" THEN FlStringRep(x, y.v) ELSE NativeRep(<<x, y>>)
FlStringReverse(x) == Chars([i \in DOMAIN x.s |-> x.s[Len(x.s) + 1 - i]])
InlineReverse(x) == IF IsStr(x) THEN FlStringReverse(x) ELSE NativeReverse(x)
FlStringFindPlain(x, y) ==
    LET at == FindText(x.s, y.s)
    IN  IF y.s = <<>> THEN Number(1) ELSE IF at = {} THEN Nil ELSE Number(CHOOSE i \in at : \A j \in at : i <= j)
InlineFindPlain(x, y) ==
    LET at == FlStringFindPlain(x, y)
    IN  IF ~IsStr(x) \/ ~IsStr(y) THEN NativeFindPlain(x, y) ELSE IF at = Nil THEN Nil
        ELSE TwoValues(at, Number(at.v + Len(y.s) - 1))

(***************************************************************************)
(* select, tonumber, tostring.                                             *)
(***************************************************************************)
Hash == Chars(<<HashSign>>)
From(vals, i) == LET rest == SubSeq(vals, i, Len(vals)) IN IF Len(rest) = 1 THEN rest[1] ELSE Multi(rest)
Selected(i, vals) ==
    LET at == IF i < 0 THEN Len(vals) + i + 1 ELSE i
    IN  IF at < 1 THEN Failed ELSE From(vals, at)
NativeSelect(args) ==
    IF args = <<>> THEN Failed
    ELSE IF args[1] = Hash THEN Number(Len(args) - 1)
    ELSE IF ~CheckIntegerArg(args[1]) THEN Failed ELSE Selected(IntegerOf(args[1]), Tail(args))
Decimal(text) ==
    LET body == IF text # <<>> /\ Head(text) = Plus THEN Tail(text) ELSE text
    IN  IF AllDigits(Unsigned1(body)) /\ SignedValue(body) \in MinInt..MaxInt THEN Number(SignedValue(body))
        ELSE IF IsFloatText(body) THEN Float(FloatText(body)) ELSE Nil
\* A base other than ten: digits only, and nil when the number does not fit.
DigitIn(c) == CASE IsDigit(c) -> c [] c \in {BigA, SmallA} -> 10 [] OTHER -> 36
InBase(text, base) ==
    LET body == IF Head(text) \in {Plus, Minus} THEN Tail(text) ELSE text
        acc == FoldLeft(LAMBDA n, c : n * base + DigitIn(c), 0, body)
    IN  IF body = <<>> \/ \E i \in DOMAIN body : DigitIn(body[i]) >= base THEN Nil
        ELSE IF Head(text) = Minus THEN IF acc > MaxInt + 1 THEN Nil ELSE Number(-acc)
        ELSE IF acc > MaxInt THEN Nil ELSE Number(acc)
NativeTonumber(args) ==
    LET text == Trimmed(args[1].s)
        y == Arg(args, 2)
        base == IF y = Nil THEN 10 ELSE IntegerOf(y)
    IN  IF args = <<>> THEN Failed ELSE IF CheckNum(args[1]) THEN args[1] ELSE IF ~IsStr(args[1]) \/ text = <<>> THEN Nil
        ELSE IF y # Nil /\ (~CheckNumberArg(y) \/ (IsStr(y) /\ ~IsFinite(IntegerArg(y)))) THEN Failed
        ELSE IF (y # Nil /\ ~CheckIntegerArg(y)) \/ base \notin 2..36 THEN Nil
        ELSE IF base = 10 THEN Decimal(text) ELSE InBase(text, base)
NativeTostring(args) ==
    IF args = <<>> THEN Failed ELSE IF IsStr(args[1]) THEN args[1]
    ELSE IF args[1].t = "int" THEN Chars(FlFastItoA(args[1].v)) ELSE Chars(<<Word(args[1].t), args[1].v>>)

\* A single nil is taken for "..." without values.
FlSelectHash(x) == Number(IF x.t = "multi" THEN Len(x.s) ELSE IF x = Nil THEN 0 ELSE 1)
FlSelectIndex(i, x) == Selected(i, IF x = Nil THEN <<>> ELSE Expand(x))
InlineSelect(x, rest) ==
    IF x = Hash THEN FlSelectHash(rest) ELSE IF x.t = "int" THEN FlSelectIndex(x.v, rest) ELSE NativeSelect(<<x>> \o Expand(rest))
FlTonumber(x) ==
    LET text == Trimmed(x.s)
        body == IF text # <<>> /\ Head(text) \in {Plus, Minus} THEN Tail(text) ELSE text
    IN  IF CheckNum(x) THEN x ELSE IF ~IsStr(x) \/ body = <<>> THEN Nil
        ELSE LET odd == {i \in DOMAIN body : ~IsDigit(body[i])}
             IN  IF odd # {} THEN IF body[CHOOSE i \in odd : \A j \in odd : i <= j] = Dot THEN NativeTonumber(<<x>>) ELSE Nil
                 ELSE IF Value(body) > MaxInt THEN NativeTonumber(<<x>>)
                 ELSE Number(IF Head(text) = Minus THEN -Value(body) ELSE Value(body))
InlineTostring(x) == IF IsStr(x) THEN x ELSE IF x.t = "int" THEN Chars(FlFastItoA(x.v)) ELSE NativeTostring(<<x>>)

(***************************************************************************)
(* table: native, and inline.  The tables are a sequence, a table value    *)
(* holds its place in it.                                                  *)
(***************************************************************************)
IsTable(x) == x.t = "table"
GetTableInt(tab, k) == IF k \in DOMAIN tab THEN tab[k] ELSE Nil
SetTableInt(tab, k, v) ==
    IF v = Nil THEN [i \in DOMAIN tab \ {k} |-> tab[i]] ELSE (k :> v) @@ tab
GetTableLen(tab) == CHOOSE n \in 0..Cardinality(DOMAIN tab) : (1..n) \subseteq DOMAIN tab /\ n + 1 \notin DOMAIN tab
\* Copies in the order of the offsets.
CopyEach(tabs, src, f, dst, t, order) ==
    FoldLeft(LAMBDA acc, i : [acc EXCEPT ![dst] = SetTableInt(@, Wrap(t + i), GetTableInt(acc[src], Wrap(f + i)))], tabs, order)
Up(n) == [i \in 1..n |-> i - 1]

NativeInsert(args, tabs) ==
    LET o == args[1].v
        len == GetTableLen(tabs[o])
        pos == IntegerOf(args[2])
        moved == CopyEach(tabs, o, pos, o, pos + 1, Reverse(Up(len - pos + 1)))
    IN  IF args = <<>> \/ ~IsTable(Arg(args, 1)) \/ Len(args) \notin {2, 3} THEN Throws(tabs)
        ELSE IF Len(args) = 2 THEN Returns(Nil, [tabs EXCEPT ![o] = SetTableInt(@, len + 1, args[2])])
        ELSE IF ~CheckIntegerArg(args[2]) \/ pos \notin 1..(len + 1) THEN Throws(tabs)
        ELSE Returns(Nil, [moved EXCEPT ![o] = SetTableInt(@, pos, args[3])])

\* Only a position that is given is checked; the last place visited is cleared.
NativeRemove(args, tabs) ==
    LET o == args[1].v
        len == GetTableLen(tabs[o])
        given == Arg(args, 2) # Nil
        pos == IF given THEN IntegerOf(args[2]) ELSE len
        moved == CopyEach(tabs, o, pos + 1, o, pos, Up(len - pos))
    IN  IF args = <<>> \/ ~IsTable(Arg(args, 1)) THEN Throws(tabs)
        ELSE IF given /\ (~CheckIntegerArg(args[2]) \/ pos \notin 1..(len + 1)) THEN Throws(tabs)
        ELSE Returns(GetTableInt(tabs[o], pos), [moved EXCEPT ![o] = SetTableInt(@, IF pos < len THEN len ELSE pos, Nil)])

Unpacked(tab, i, j) ==
    LET count == Unsigned(Unsigned(j) - Unsigned(i) + 1)
    IN  IF i > j THEN Multi(<<>>) ELSE IF count = 0 \/ count > MaxUnpack THEN Failed
        ELSE Multi([k \in 1..count |-> GetTableInt(tab, Wrap(i + k - 1))])
NativeUnpack(args, tabs) ==
    IF args = <<>> \/ ~IsTable(Arg(args, 1)) THEN Throws(tabs)
    ELSE IF \E k \in {2, 3} : Arg(args, k) # Nil /\ ~CheckIntegerArg(args[k]) THEN Throws(tabs)
    ELSE LET tab == tabs[args[1].v]
             i == IF Arg(args, 2) = Nil THEN 1 ELSE IntegerOf(args[2])
             j == IF Arg(args, 3) = Nil THEN GetTableLen(tab) ELSE IntegerOf(args[3])
         IN  Returns(Unpacked(tab, i, j), tabs)

MoveFails(f, e, t) ==
    LET count == Unsigned(Unsigned(e) - Unsigned(f) + 1)
    IN  e >= f /\ (count = 0 \/ count > MaxInt \/ (t > 0 /\ t > MaxInt - (count - 1)))
NativeMove(args, tabs) ==
    LET to == IF Arg(args, 5) = Nil THEN args[1] ELSE args[5]
        f == IntegerOf(args[2])
        e == IntegerOf(args[3])
        t == IntegerOf(args[4])
        up == to # args[1] \/ t <= f \/ t > e
    IN  IF Len(args) < 4 THEN Throws(tabs)
        ELSE IF ~IsTable(args[1]) \/ ~IsTable(to) \/ \E k \in 2..4 : ~CheckIntegerArg(args[k]) THEN Throws(tabs)
        ELSE IF MoveFails(f, e, t) THEN Throws(tabs)
        ELSE Returns(to, CopyEach(tabs, args[1].v, f, to.v, t, IF up THEN Up(e - f + 1) ELSE Reverse(Up(e - f + 1))))

Filled(n, v) == [i \in 1..n |-> v]
NativeCreate(args, tabs) ==
    LET n == IntegerOf(args[1])
        count == IF n < 0 THEN 0 ELSE n
        new == Table(Len(tabs) + 1)
    IN  IF args = <<>> THEN Returns(new, Append(tabs, <<>>))
        ELSE IF ~CheckIntegerArg(args[1]) THEN Throws(tabs)
        ELSE IF Arg(args, 2) = Nil THEN Returns(new, Append(tabs, <<>>))
        ELSE IF count > MaxItems THEN Throws(tabs) ELSE Returns(new, Append(tabs, Filled(count, args[2])))

\* FlLenInt also measures a string; what comes after it tells the two apart.
FlLenInt(x, tabs) == IF IsStr(x) THEN Len(x.s) ELSE GetTableLen(tabs[x.v])
HasLength(x) == IsStr(x) \/ IsTable(x)

InlineInsert(args, tabs) ==
    LET x == args[1]
        len == FlLenInt(x, tabs)
        pos == args[2].v
        moved == CopyEach(tabs, x.v, pos, x.v, pos + 1, Reverse(Up(len - pos + 1)))
    IN  CASE Len(args) = 2 ->
               IF IsTable(x) THEN Returns(Nil, [tabs EXCEPT ![x.v] = SetTableInt(@, len + 1, args[2])]) ELSE Throws(tabs)
          [] Len(args) > 3 -> Throws(tabs)
          [] Len(args) = 3 ->
               IF args[2].t # "int" THEN NativeInsert(args, tabs)
               ELSE IF ~HasLength(x) \/ pos \notin 1..(len + 1) \/ ~IsTable(x) THEN Throws(tabs)
               ELSE Returns(Nil, [moved EXCEPT ![x.v] = SetTableInt(@, pos, args[3])])

InlineRemove(args, tabs) ==
    LET x == args[1]
        at == Arg(args, 2)
        len == FlLenInt(x, tabs)
        pos == IF at = Nil THEN len ELSE at.v
        moved == CopyEach(tabs, x.v, pos + 1, x.v, pos, Up(len - pos))
    IN  IF at.t \notin {"nil", "int"} THEN NativeRemove(args, tabs)
        ELSE IF ~HasLength(x) \/ (at # Nil /\ pos \notin 1..(len + 1)) THEN Throws(tabs)
        ELSE IF pos \notin 1..len THEN Returns(Nil, tabs)
        ELSE IF ~IsTable(x) THEN Throws(tabs)
        ELSE Returns(GetTableInt(tabs[x.v], pos), [moved EXCEPT ![x.v] = SetTableInt(@, len, Nil)])

FlTableUnpack(tab, i, j) ==
    LET count == Unsigned(Unsigned(j) - Unsigned(i) + 1)
    IN  IF i > j THEN Multi(<<>>) ELSE IF count = 0 \/ count > MaxUnpack THEN Failed
        ELSE Multi([k \in 1..count |-> GetTableInt(tab, Wrap(i + k - 1))])
InlineUnpack(args, tabs) ==
    LET tab == tabs[args[1].v]
        i == IF Arg(args, 2) = Nil THEN 1 ELSE args[2].v
        j == IF Arg(args, 3) = Nil THEN GetTableLen(tab) ELSE args[3].v
    IN  IF ~IsTable(args[1]) \/ Arg(args, 2).t \notin {"nil", "int"} \/ Arg(args, 3).t \notin {"nil", "int"}
        THEN NativeUnpack(args, tabs) ELSE Returns(FlTableUnpack(tab, i, j), tabs)

\* Mutant: an overlapping range is copied upwards too.
FlTableMoveUp(src, f, e, t, dst, tabs) ==
    IF MoveFails(f, e, t) THEN Throws(tabs) ELSE Returns(dst, CopyEach(tabs, src.v, f, dst.v, t, Up(e - f + 1)))

FlTableMove(src, f, e, t, dst, tabs) ==
    LET up == src # dst \/ t <= f \/ t > e
    IN  IF MoveFails(f, e, t) THEN Throws(tabs)
        ELSE Returns(dst, CopyEach(tabs, src.v, f, dst.v, t, IF up THEN Up(e - f + 1) ELSE Reverse(Up(e - f + 1))))
InlineMove(args, tabs) ==
    LET dst == IF Arg(args, 5) = Nil THEN args[1] ELSE args[5]
    IN  IF ~IsTable(args[1]) \/ ~IsTable(dst) \/ \E k \in 2..4 : args[k].t # "int" THEN NativeMove(args, tabs)
        ELSE FlTableMove(args[1], args[2].v, args[3].v, args[4].v, dst, tabs)

InlineCreate(args, tabs) ==
    LET new == Table(Len(tabs) + 1)
        n == args[1].v
    IN  IF args[1].t # "int" THEN NativeCreate(IF Len(args) > 2 THEN SubSeq(args, 1, 2) ELSE args, tabs)
        ELSE IF Arg(args, 2) = Nil THEN Returns(new, Append(tabs, <<>>))
        ELSE IF Unsigned(n) > MaxItems THEN Throws(tabs) ELSE Returns(new, Append(tabs, Filled(n, args[2])))

(***************************************************************************)
(* The two ways to call.                                                   *)
(***************************************************************************)
Unary == {"math.sqrt", "math.sin", "math.cos", "math.tan", "math.asin", "math.acos", "math.atan", "math.exp", "math.log",
          "math.log10", "math.sinh", "math.cosh", "math.tanh", "math.deg", "math.rad"}
OneArg == {"math.abs", "math.floor", "math.ceil", "math.modf", "math.frexp", "math.type", "math.tointeger",
           "string.len", "string.lower", "string.upper", "string.reverse", "tostring"} \cup (Unary \ {"math.atan", "math.log"})
TwoArgs == {"math.pow", "math.fmod", "math.ldexp", "math.ult"}
TableFunctions == {"table.insert", "table.remove", "table.unpack", "table.move", "table.create"}
OtherFunctions == {"math.max", "math.min", "math.random", "math.randomseed", "string.rep", "string.byte", "string.char",
                   "string.format", "string.find", "select", "tonumber"}
BuiltinNames == OneArg \cup TwoArgs \cup Unary \cup OtherFunctions \cup TableFunctions

\* The registered function, on the arguments it is given (string.format with "%d", string.find with 1 and true).
Native(f, args, r, tabs) ==
    LET x == Arg(args, 1)
        y == Arg(args, 2)
    IN  CASE f = "table.insert" -> NativeInsert(args, tabs)
          [] f = "table.remove" -> NativeRemove(args, tabs)
          [] f = "table.unpack" -> NativeUnpack(args, tabs)
          [] f = "table.move" -> NativeMove(args, tabs)
          [] f = "table.create" -> NativeCreate(args, tabs)
          [] f = "math.abs" -> Returns(NativeAbs(x), tabs)
          [] f \in {"math.floor", "math.ceil"} -> Returns(NativeRound(f, x), tabs)
          [] f \in {"math.max", "math.min"} -> Returns(NativeExtreme(f, args), tabs)
          [] f \in Unary -> Returns(NativeUnary(f, x), tabs)
          [] f = "math.pow" -> Returns(NativePow(x, y), tabs)
          [] f = "math.fmod" -> Returns(NativeFmod(x, y), tabs)
          [] f = "math.ldexp" -> Returns(NativeLdexp(x, y), tabs)
          [] f = "math.type" -> Returns(NativeMathType(x), tabs)
          [] f = "math.tointeger" -> Returns(NativeTointeger(x), tabs)
          [] f = "math.ult" -> Returns(NativeUlt(x, y), tabs)
          [] f = "math.random" -> Returns(NativeRandom(args, r), tabs)
          [] f = "math.randomseed" -> Returns(NativeRandomseed(args), tabs)
          [] f = "math.modf" -> Returns(NativeModf(x), tabs)
          [] f = "math.frexp" -> Returns(NativeFrexp(x), tabs)
          [] f = "string.len" -> Returns(NativeLen(x), tabs)
          [] f \in {"string.lower", "string.upper"} -> Returns(NativeCase(f, x), tabs)
          [] f = "string.reverse" -> Returns(NativeReverse(x), tabs)
          [] f = "string.rep" -> Returns(NativeRep(args), tabs)
          [] f = "string.byte" -> Returns(NativeByte(args), tabs)
          [] f = "string.char" -> Returns(NativeChar(args), tabs)
          [] f = "string.format" -> Returns(NativeFormatD(args), tabs)
          [] f = "string.find" -> Returns(NativeFindPlain(x, y), tabs)
          [] f = "select" -> Returns(NativeSelect(args), tabs)
          [] f = "tonumber" -> Returns(NativeTonumber(args), tabs)
          [] f = "tostring" -> Returns(NativeTostring(args), tabs)

\* CallByNameImpl: the last argument is expanded, the others give one value; a fixed
\* number of parameters is only enforced when the last argument is a single value.
CallByName(f, raw, r, tabs) ==
    LET n == Len(raw)
        flat == FlattenSeq([i \in DOMAIN raw |-> IF i = n THEN Expand(raw[i]) ELSE <<UnboxMulti(raw[i], 0)>>])
        arity == IF f \in OneArg THEN 1 ELSE 2
    IN  IF f \in OneArg \cup TwoArgs /\ ~(n > 0 /\ raw[n].t = "multi") /\ Len(flat) # arity THEN Throws(tabs)
        ELSE Native(f, flat, r, tabs)

\* The argument counts, as written, that are inlined; other calls are general ones.
Inlined(f, n) ==
    CASE f \in OneArg \cup Unary \cup {"string.char", "string.format", "tonumber"} -> n = 1
      [] f \in TwoArgs -> n >= 2
      [] f \in {"math.max", "math.min", "string.rep", "string.find", "select"} -> n = 2
      [] f = "string.byte" -> n \in {1, 2}
      [] f \in {"math.random", "math.randomseed"} -> TRUE
      [] f = "table.insert" -> n >= 2
      [] f \in {"table.remove", "table.create"} -> n >= 1
      [] f = "table.unpack" -> n \in 1..3
      [] f = "table.move" -> n \in {4, 5}

\* CompileExp gives each argument one value; only select keeps the values of its last.
CompiledCall(f, raw, r, tabs) ==
    LET args == [i \in DOMAIN raw |-> UnboxMulti(raw[i], 0)]
        x == Arg(args, 1)
        y == Arg(args, 2)
    IN  CASE ~Inlined(f, Len(raw)) -> CallByName(f, raw, r, tabs)
          [] Inlined(f, Len(raw)) /\ f \in TableFunctions ->
               (CASE f = "table.insert" -> InlineInsert(args, tabs)
                  [] f = "table.remove" -> InlineRemove(args, tabs)
                  [] f = "table.unpack" -> InlineUnpack(args, tabs)
                  [] f = "table.move" -> InlineMove(args, tabs)
                  [] f = "table.create" -> InlineCreate(args, tabs))
          [] Inlined(f, Len(raw)) /\ f \notin TableFunctions ->
               Returns(CASE f = "math.abs" -> InlineAbs(x)
                         [] f \in {"math.floor", "math.ceil"} -> InlineRound(f, x)
                         [] f \in {"math.max", "math.min"} -> InlineExtreme(f, x, y)
                         [] f \in Unary -> EmitGuardedUnary(f, x)
                         [] f = "math.pow" -> InlinePow(x, y)
                         [] f = "math.fmod" -> InlineFmod(x, y)
                         [] f = "math.ldexp" -> InlineLdexp(x, y)
                         [] f = "math.type" -> InlineMathType(x)
                         [] f = "math.tointeger" -> InlineTointeger(x)
                         [] f = "math.ult" -> InlineUlt(x, y)
                         [] f = "math.random" -> InlineRandom(args, r)
                         [] f = "math.randomseed" -> InlineRandomseed(args)
                         [] f = "math.modf" -> InlineModf(x)
                         [] f = "math.frexp" -> InlineFrexp(x)
                         [] f = "string.len" -> InlineLen(x)
                         [] f \in {"string.lower", "string.upper"} -> InlineCase(f, x)
                         [] f = "string.reverse" -> InlineReverse(x)
                         [] f = "string.rep" -> InlineRep(x, y)
                         [] f = "string.byte" -> InlineByte(args)
                         [] f = "string.char" -> InlineChar(x)
                         [] f = "string.format" -> InlineFormatD(x)
                         [] f = "string.find" -> InlineFindPlain(x, y)
                         [] f = "select" -> InlineSelect(x, raw[2])
                         [] f = "tonumber" -> FlTonumber(x)
                         [] f = "tostring" -> InlineTostring(x), tabs)

builtinVars == <<call, inlined, called>>
NoCall == [f |-> "none", raw |-> <<>>, tabs |-> <<>>, r |-> 0]
BuiltinInit == call = NoCall /\ inlined = Throws(<<>>) /\ called = Throws(<<>>)

\* The same call, as the C generator compiles it and as it is made by name.
CallBuiltin(f, raw, r, tabs) == call' = [f |-> f, raw |-> raw, tabs |-> tabs, r |-> r]
Outcomes ==
    /\ inlined' = CompiledCall(call'.f, call'.raw, call'.r, call'.tabs)
    /\ called' = CallByName(call'.f, call'.raw, call'.r, call'.tabs)

Plain == BuiltinNames \ TableFunctions
ThreeArgs == {"math.pow", "math.ult", "math.random", "math.max", "string.rep", "string.byte", "select"}
BuiltinNext ==
    /\ call = NoCall
    /\ \/ \E f \in Plain, n \in 0..2 : \E raw \in [1..n -> Args] : CallBuiltin(f, raw, 5, <<>>)
       \/ \E r \in {0, 40}, n \in 0..2 : \E raw \in [1..n -> Args] : CallBuiltin("math.random", raw, r, <<>>)
       \/ \E f \in Plain, m \in Multis : CallBuiltin(f, <<m>>, 5, <<>>)
       \/ \E f \in Plain, x \in Args, m \in Multis : CallBuiltin(f, <<x, m>>, 5, <<>>)
       \/ \E f \in ThreeArgs, x \in Args, y, z \in Places : CallBuiltin(f, <<x, y, z>>, 5, <<>>)
       \/ \E f \in TableFunctions \ {"table.move"}, x \in TabArgs, tabs \in TabPairs, n \in 0..2 :
              \E rest \in [1..n -> Places] : CallBuiltin(f, <<x>> \o rest, 5, tabs)
       \/ \E f \in TableFunctions, x \in TabArgs, tabs \in TabPairs, m \in Multis : CallBuiltin(f, <<x, m>>, 5, tabs)
       \/ \E n \in Args \cup Places, v \in Args : CallBuiltin("table.create", <<n, v>>, 5, <<>>)
       \/ \E x, y \in TabArgs, tabs \in TabPairs, raw \in [1..3 -> Places], n \in {4, 5} :
              CallBuiltin("table.move", SubSeq(<<x>> \o raw \o <<y>>, 1, n), 5, tabs)
       \/ \E x \in TabArgs, tabs \in TabPairs, v \in Places : CallBuiltin("table.insert", <<x, v, v, v>>, 5, tabs)
    /\ Outcomes

(***************************************************************************)
(* Properties.                                                             *)
(***************************************************************************)
SameOutcome == inlined = called

\* Apart from a last argument that is cut to one value, the two forms differ in these
\* calls and in no other.
\*   math.max and min  take NaN for the result instead of for equal, and refuse numerals
\*   math.pow, fmod... drop arguments that the registered function refuses
\*   select            counts a nil as no value
\*   string.byte       gives nil instead of nothing outside the string
\*   tonumber          refuses a second sign
\*   table.create      refuses a negative count when there is a value
\*   table.remove      leaves t[0] of an empty sequence, accepts an empty string
KnownDifference(f, args, tabs) ==
    LET x == Arg(args, 1)
        y == Arg(args, 2)
        numeral(v) == IsStr(v) /\ CheckMathNumberArg(v)
        number(v) == CheckMathNumberArg(v)
    IN  \/ f \in {"math.max", "math.min"} /\ Len(args) = 2 /\ number(x) /\ number(y) /\ x # y
           /\ \E v \in {x, y} : IsNaN(v) \/ numeral(v)
        \/ f \in {"math.max", "math.min"} /\ Len(args) = 2 /\ x = y /\ numeral(x)
        \/ f \in TwoArgs /\ Len(args) > 2 /\ inlined.ret # Failed
        \/ f = "select" /\ Len(args) = 2 /\ y = Nil /\ (x = Hash \/ (x.t = "int" /\ x.v \in {-1, 1}))
        \/ f = "string.byte" /\ IsStr(x)
              /\ \/ Len(args) = 1 /\ x.s = <<>>
                 \/ Len(args) = 2 /\ y.t = "int" /\ ~(Abs(y.v) \in 1..Len(x.s))
        \/ f = "tonumber" /\ Len(args) = 1 /\ IsStr(x) /\ Len(x.s) > 2 /\ SubSeq(x.s, 1, 2) = <<Plus, Minus>>
        \/ f = "table.create" /\ x.t = "int" /\ x.v < 0 /\ y # Nil
        \/ f = "table.remove" /\ x = Chars(<<>>) /\ y \in {Nil, Number(1)}
        \/ f = "table.remove" /\ IsTable(x) /\ y = Nil /\ GetTableLen(tabs[x.v]) = 0 /\ 0 \in DOMAIN tabs[x.v]

\* A call that the C generator inlines (c_gen.cpp:3648-4784) has the outcome, error or
\* result and effect on the tables, of the registered function, but for the known cases.
InlineMatchesUnlessKnown ==
    (\A i \in DOMAIN call.raw : call.raw[i].t # "multi") =>
        (SameOutcome <=> ~KnownDifference(call.f, call.raw, call.tabs))
=============================================================================
