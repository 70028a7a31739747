------------------------------ MODULE TableMap ------------------------------
(***************************************************************************)
(* What a Lua table promises: a map from keys to values, in which nil is   *)
(* absence, and operations of the table library that act on 1..n at once.  *)
(***************************************************************************)
EXTENDS Integers, FiniteSets, SequencesExt

CONSTANTS Keys,     \* normalized: <<"int", n>>, <<"flt", q>>, <<"str", n>>
          Values,
          NKey      \* the key "n" that table.pack sets

IntOf(n) == <<"int", n>>
At(m, n) == IF IntOf(n) \in DOMAIN m THEN m[IntOf(n)] ELSE 0

\* The border: 1..n are present and n + 1 is not.
Border(m) == CHOOSE n \in 0..Cardinality(DOMAIN m) : (\A i \in 1..n : At(m, i) # 0) /\ At(m, n + 1) = 0

\* The map with what F says of its integer keys.
WithInts(m, F(_)) == [k \in DOMAIN m |-> IF k[1] = "int" THEN F(k[2]) ELSE m[k]]

Empty == [k \in Keys |-> 0]

\* What a call leaves, given its arguments a, b and c.
After(m, op, a, b, c) ==
    LET n == Border(m)
    IN  CASE op = "set" -> [m EXCEPT ![a] = b]
          [] op = "insert" ->
                WithInts(m, LAMBDA i : IF i = a THEN b ELSE IF i \in (a + 1)..(n + 1) THEN At(m, i - 1) ELSE At(m, i))
          [] op = "remove" ->
                WithInts(m, LAMBDA i : IF i \in a..(n - 1) THEN At(m, i + 1)
                                       ELSE IF i \in {a, n} /\ i >= a THEN 0 ELSE At(m, i))
          [] op = "move" -> WithInts(m, LAMBDA i : IF i \in c..(c + b - a) THEN At(m, a + i - c) ELSE At(m, i))
          [] op = "movein" ->
                WithInts(m, LAMBDA i : IF i \in b..(b + Len(a) - 1) THEN a[i - b + 1] ELSE At(m, i))
          [] op = "sort" ->
                LET sorted == SortSeq([i \in 1..n |-> At(m, i)], <)
                IN  WithInts(m, LAMBDA i : IF i \in 1..n THEN sorted[i] ELSE At(m, i))
          [] op = "pack" ->
                [WithInts(Empty, LAMBDA i : IF i \in DOMAIN a THEN a[i] ELSE 0) EXCEPT ![NKey] = Len(a)]
          [] OTHER -> m
=============================================================================
