------------------------------- MODULE VmOps -------------------------------
(***************************************************************************)
(* Values of the interpreter and the operations of interp/vm_ops.h on      *)
(* them.  Integers are two's complement words of Width bits, floats are    *)
(* multiples of 1/Grain (a quotient between two of them is cut to the      *)
(* lower one; there is no infinity and no NaN).  A value is a record       *)
(* [t, v, s]: its type, an integer (a number, in units of 1/Grain for a    *)
(* float, a truth value, a string or an object index) and, for a Multi,    *)
(* the values it holds.                                                    *)
(***************************************************************************)
EXTENDS Integers, Sequences

LOCAL INSTANCE Bitwise

CONSTANT Width

ASSUME WidthAssumption == Width \in Nat \ {0, 1}

Modulus == 2 ^ Width
MinInt == -(2 ^ (Width - 1))
MaxInt == 2 ^ (Width - 1) - 1

\* The word that an unbounded integer is cut to.
Wrap(n) == ((n - MinInt) % Modulus) + MinInt
Unsigned(n) == n % Modulus

Nil == [t |-> "nil", v |-> 0, s |-> <<>>]
Number(n) == [t |-> "int", v |-> n, s |-> <<>>]
Float(q) == [t |-> "float", v |-> q, s |-> <<>>]
Bool(b) == [t |-> "bool", v |-> IF b THEN 1 ELSE 0, s |-> <<>>]
Str(n) == [t |-> "str", v |-> n, s |-> <<>>]
Table(i) == [t |-> "table", v |-> i, s |-> <<>>]
Closure(i) == [t |-> "closure", v |-> i, s |-> <<>>]
Multi(vals) == [t |-> "multi", v |-> 0, s |-> vals]

IsTrue(x) == x.t # "nil" /\ (x.t = "bool" => x.v = 1)

\* Element i, from 0, of what a call or "..." gave.
UnboxMulti(x, i) ==
    IF x.t # "multi" THEN IF i = 0 THEN x ELSE Nil
    ELSE IF i < Len(x.s) THEN x.s[i + 1] ELSE Nil

Expand(x) == IF x.t = "multi" THEN x.s ELSE <<x>>

(***************************************************************************)
(* Arithmetic.  An operation that raises an error returns Failed.          *)
(***************************************************************************)
Failed == [t |-> "failed", v |-> 0, s |-> <<>>]

Grain == 4

CheckNum(x) == x.t \in {"int", "float"}
ToDouble(x) == IF x.t = "int" THEN x.v * Grain ELSE x.v
DoubleFitsInt64(q) == q % Grain = 0 /\ q \div Grain \in MinInt..MaxInt
CheckInt(x) == x.t = "int" \/ (x.t = "float" /\ DoubleFitsInt64(x.v))
AsInt(x) == IF x.t = "int" THEN x.v ELSE x.v \div Grain

\* C's division and remainder truncate towards zero.
Sign(n) == IF n < 0 THEN -1 ELSE 1
Abs(n) == IF n < 0 THEN -n ELSE n
CDiv(a, b) == Sign(a) * Sign(b) * (Abs(a) \div Abs(b))

FloorDivQuotient(a, b) ==
    IF b = -1 THEN Wrap(-a)
    ELSE IF Sign(a) # Sign(b) /\ Abs(a) % Abs(b) # 0 THEN CDiv(a, b) - 1 ELSE CDiv(a, b)

BinMod(a, b) == IF b = -1 THEN 0 ELSE Wrap(a - b * FloorDivQuotient(a, b))

BinShl(a, b) ==
    IF b >= Width \/ b <= -Width THEN 0
    ELSE IF b >= 0 THEN Wrap(Unsigned(a) * 2 ^ b) ELSE Wrap(Unsigned(a) \div 2 ^ (-b))

BinShr(a, b) ==
    IF b >= Width \/ b <= -Width THEN 0
    ELSE IF b >= 0 THEN Wrap(Unsigned(a) \div 2 ^ b) ELSE Wrap(Unsigned(a) * 2 ^ (-b))

FloorQuotient(a, b) == IF b > 0 THEN a \div b ELSE (-a) \div (-b)
BinPow(a, b) == IF b % Grain # 0 \/ b < 0 THEN Failed ELSE Float((Grain * a ^ (b \div Grain)) \div Grain ^ (b \div Grain))

IntOp(op, a, b) ==
    CASE op = "ADD" -> Number(Wrap(a + b))
      [] op = "SUB" -> Number(Wrap(a - b))
      [] op = "MUL" -> Number(Wrap(a * b))
      [] op = "IDIV" -> IF b = 0 THEN Failed ELSE Number(FloorDivQuotient(a, b))
      [] op = "MOD" -> IF b = 0 THEN Failed ELSE Number(BinMod(a, b))
      [] op = "LT" -> Bool(a < b)
      [] op = "LE" -> Bool(a <= b)

BitOps == {"SHL", "SHR", "BAND", "BOR", "BXOR"}
BitOp(op, a, b) ==
    CASE op = "SHL" -> Number(BinShl(a, b))
      [] op = "SHR" -> Number(BinShr(a, b))
      [] op = "BAND" -> Number(Wrap(Unsigned(a) & Unsigned(b)))
      [] op = "BOR" -> Number(Wrap(Unsigned(a) | Unsigned(b)))
      [] op = "BXOR" -> Number(Wrap(Unsigned(a) ^^ Unsigned(b)))

FloatOp(op, a, b) ==
    CASE op = "ADD" -> Float(a + b)
      [] op = "SUB" -> Float(a - b)
      [] op = "MUL" -> Float((a * b) \div Grain)
      [] op = "DIV" -> Float(FloorQuotient(a * Grain, b))
      [] op = "POW" -> BinPow(a, b)
      [] op = "IDIV" -> Float(FloorQuotient(a, b) * Grain)
      [] op = "MOD" -> Float(a - b * FloorQuotient(a, b))
      [] op = "LT" -> Bool(a < b)
      [] op = "LE" -> Bool(a <= b)

VarEqual(x, y) == IF CheckNum(x) /\ CheckNum(y) THEN ToDouble(x) = ToDouble(y) ELSE x = y

\* EQ compares any two values, the others only numbers.
Binop(op, x, y) ==
    IF op = "EQ" THEN Bool(VarEqual(x, y))
    ELSE IF ~CheckNum(x) \/ ~CheckNum(y) THEN Failed
    ELSE IF op \in BitOps THEN IF CheckInt(x) /\ CheckInt(y) THEN BitOp(op, AsInt(x), AsInt(y)) ELSE Failed
    ELSE IF x.t = "int" /\ y.t = "int" /\ op \notin {"DIV", "POW"} THEN IntOp(op, x.v, y.v)
    ELSE FloatOp(op, ToDouble(x), ToDouble(y))

Unop(op, x) ==
    CASE op = "NOT" -> Bool(~IsTrue(x))
      [] op = "UNM" -> IF ~CheckNum(x) THEN Failed ELSE IF x.t = "int" THEN Number(Wrap(-x.v)) ELSE Float(-x.v)
      [] op = "BNOT" -> IF CheckInt(x) THEN Number(-1 - AsInt(x)) ELSE Failed

(***************************************************************************)
(* Numeric for: the number of iterations after the first is computed once, *)
(* in unsigned arithmetic, so that the index cannot overflow past limit.   *)
(***************************************************************************)
ForSkips(init, limit, step) == IF step > 0 THEN init > limit ELSE init < limit

ForCount(init, limit, step) ==
    IF step > 0 THEN Unsigned(Unsigned(limit) - Unsigned(init)) \div step
    ELSE Unsigned(Unsigned(init) - Unsigned(limit)) \div Unsigned(Unsigned(-(step + 1)) + 1)

\* The limit of an integer loop as an integer: cut to the range of integers, rounded towards init.
ForLimitToInt(limit, step) ==
    LET q == limit.v
        down == q \div Grain
        n == IF step > 0 \/ q % Grain = 0 THEN down ELSE down + 1
    IN  IF limit.t = "int" THEN [skip |-> FALSE, v |-> limit.v]
        ELSE IF q >= (MaxInt + 1) * Grain THEN [skip |-> step < 0, v |-> MaxInt]
        ELSE IF q < MinInt * Grain THEN [skip |-> step > 0, v |-> MinInt]
        ELSE [skip |-> FALSE, v |-> n]

(***************************************************************************)
(* Tables, by what they hold: [e, const], the entries in the order of      *)
(* their insertion and whether the table is constant.                      *)
(***************************************************************************)
\* A float key with the value of an integer is that integer.
NormalizeKey(k) == IF k.t = "float" /\ DoubleFitsInt64(k.v) THEN Number(k.v \div Grain) ELSE k
EntryOf(t, k) == {i \in DOMAIN t.e : t.e[i][1] = NormalizeKey(k)}
TableGet(t, k) == IF EntryOf(t, k) = {} THEN Nil ELSE t.e[CHOOSE i \in EntryOf(t, k) : TRUE][2]
TableSet(t, k, v) ==
    IF EntryOf(t, k) # {}
    THEN LET i == CHOOSE i \in EntryOf(t, k) : TRUE
         IN  IF v = Nil THEN [t EXCEPT !.e = SubSeq(@, 1, i - 1) \o SubSeq(@, i + 1, Len(@))]
             ELSE [t EXCEPT !.e[i][2] = v]
    ELSE IF v = Nil THEN t ELSE [t EXCEPT !.e = Append(@, <<NormalizeKey(k), v>>)]
TableLen(t) == CHOOSE n \in 0..Len(t.e) : /\ \A i \in 1..n : EntryOf(t, Number(i)) # {}
                                          /\ EntryOf(t, Number(n + 1)) = {}
=============================================================================
