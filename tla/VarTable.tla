------------------------------ MODULE VarTable ------------------------------
(***************************************************************************)
(* A table in use: the host, the interpreter and generated code write, the *)
(* table library moves elements, and a pairs loop walks over the table     *)
(* while its body writes to it.  Every operation runs to its end before    *)
(* the next one.                                                           *)
(***************************************************************************)
EXTENDS TableLayout, TLC

CONSTANTS MaxInt,       \* integer keys are 1..MaxInt, and Sparse
          Sparse,       \* other integers
          Others,       \* keys that are no integers
          Values,       \* what is stored: positive numbers
          NKey,         \* the string "n"
          MaxOps        \* bound: operations on the table before a loop (one that changes nothing counts)

VARIABLES t,            \* the table, as TableLayout has it
          map,          \* what the same operations make of the map of TableMap
          walk,         \* the pairs loop, if one is running
          ops           \* operations so far

vars == <<t, map, walk, ops>>

Ints == 1..MaxInt \cup Sparse
Keys == {IntKey(n) : n \in Ints} \cup Others

M == INSTANCE TableMap

Idle == [how |-> "idle", body |-> "none", at |-> 0, size |-> 0, last |-> NoKey, seen |-> <<>>, over |-> FALSE,
         full |-> FALSE, loose |-> 0]

Init == t = EmptyTable /\ map = M!Empty /\ walk = Idle /\ ops = 0

\* An operation outside a loop, with what it makes of the map.
Does(u, m) == walk = Idle /\ ops < MaxOps /\ ops' = ops + 1 /\ t' = u /\ map' = m /\ UNCHANGED walk

\* A float key with an integer value is the integer.
Spelled(k) == {k} \cup IF k[1] = "int" THEN {<<"flt", 2 * k[2]>>} ELSE {}

Set ==
    \E k \in Keys, v \in Values \cup {Nil} : \E s \in Spelled(k) :
        Does(SetTable(t, s, v), M!After(map, "set", k, v, 0))

JitSetInt ==
    \E n \in Ints, v \in Values \cup {Nil} : Does(FlSetTableInt(t, n, v), M!After(map, "set", IntKey(n), v, 0))

LibInsert ==
    /\ GetTableLen(t) < MaxInt
    /\ \E pos \in 1..(GetTableLen(t) + 1), v \in Values :
          Does(TableInsert(t, pos, v), M!After(map, "insert", pos, v, 0))

LibRemove ==
    \E pos \in 1..(GetTableLen(t) + 1) : Does(TableRemove(t, pos), M!After(map, "remove", pos, 0, 0))

Move ==
    \E f, e, to \in 1..MaxInt :
        f <= e /\ to # f /\ to + e - f <= MaxInt /\ Does(TableMoveSame(t, f, e, to), M!After(map, "move", f, e, to))

MoveIn ==
    \E n \in 1..MaxInt : \E to \in 1..(MaxInt - n + 1), v \in Values :
        LET src == [i \in 1..n |-> v]
            m == M!After(map, "movein", src, to, 0)
        IN  Does(TableMoveFrom(t, src, to), m) \/ Does(FlTableMoveFrom(t, src, to), m)

Sort == GetTableLen(t) > 1 /\ Does(TableSort(t), M!After(map, "sort", 0, 0, 0))

Pack ==
    /\ ops = 0
    /\ \E args \in UNION {[1..n -> Values \cup {Nil}] : n \in 0..2} :
          Does(TablePack(args, NKey), M!After(map, "pack", args, 0, 0))

(***************************************************************************)
(* pairs.  "index": compiled in place, with the number of entries taken    *)
(* before the first pass. "key": the iterator function, which looks for    *)
(* the key it gave last.                                                   *)
(***************************************************************************)
\* Mutant: the entries of the array part are not counted.
BeginHashOnly ==
    /\ walk = Idle /\ ops = MaxOps /\ ForEachKV(t) # <<>>
    /\ \E how \in {"index", "key"}, body \in {"update", "clear"} :
          walk' = [Idle EXCEPT !.how = how, !.body = body, !.size = Count(t),
                               !.full = t.buckets > 0 /\ HashFull(t), !.loose = Count(t)]
    /\ UNCHANGED <<t, map, ops>>

Begin ==
    /\ walk = Idle /\ ops = MaxOps /\ ForEachKV(t) # <<>>
    /\ \E how \in {"index", "key"}, body \in {"update", "clear"} :
          walk' = [Idle EXCEPT !.how = how, !.body = body, !.size = Len(t.arr) + Count(t),
                               !.full = t.buckets > 0 /\ HashFull(t), !.loose = Count(t)]
    /\ UNCHANGED <<t, map, ops>>

\* The body runs with the entry e: t[k] = v or t[k] = nil.
Body(e, w) ==
    LET val == IF walk.body = "update" THEN e.val ELSE Nil
    IN  /\ walk' = [w EXCEPT !.seen = Append(@, e.key)]
        /\ t' = SetTable(t, e.key, val)
        /\ map' = M!After(map, "set", e.key, val, 0)

StepIndex ==
    /\ walk.how = "index" /\ ~walk.over
    /\ LET e == GetTableEntry(t, walk.at)
           w == [walk EXCEPT !.at = @ + 1]
       IN  IF walk.at = walk.size THEN walk' = [walk EXCEPT !.over = TRUE] /\ UNCHANGED <<t, map>>
           ELSE IF e.val = Nil THEN walk' = w /\ UNCHANGED <<t, map>>
           ELSE Body(e, w)
    /\ UNCHANGED ops

StepKey ==
    /\ walk.how = "key" /\ ~walk.over
    /\ LET e == BasicPairsIterator(t, walk.last)
       IN  IF e.val = Nil THEN walk' = [walk EXCEPT !.over = TRUE] /\ UNCHANGED <<t, map>>
           ELSE Body(e, [walk EXCEPT !.last = e.key])
    /\ UNCHANGED ops

End == walk.over /\ walk' = Idle /\ UNCHANGED <<t, map, ops>>

Next ==
    \/ Set \/ JitSetInt \/ LibInsert \/ LibRemove \/ Move \/ MoveIn \/ Sort \/ Pack
    \/ Begin \/ StepIndex \/ StepKey \/ End

Spec == Init /\ [][Next]_vars

(***************************************************************************)
(* Properties.                                                             *)
(***************************************************************************)
Present == {e.key : e \in Range(ForEachKV(t))}

\* Whatever the layout, a table is the map: a lookup under any spelling of a key finds what was last stored, the length
\* (cached, and kept by every write that fills or opens a gap) is the border, and a traversal lists every entry once.
IsTheMap ==
    LET entries == ForEachKV(t)
    IN  /\ \A k \in Keys : \A s \in Spelled(k) : GetTable(t, s) = map[k]
        /\ Len(entries) = Cardinality({k \in Keys : map[k] # Nil})
        /\ \A e \in Range(entries) : map[e.key] = e.val
        /\ GetTableLen(t) = M!Border(map)

\* A loop over pairs meets every entry once, if its body only assigns to the entry it is given, unless the buckets were
\* full when the loop began: then an assignment to an entry that is there moves the entries about (TableSetNonNil makes
\* room before it looks for the key).
WalkSeesAllUnlessFull ==
    walk.over /\ walk.body = "update" /\ ~walk.full => Range(walk.seen) = Present /\ IsInjective(walk.seen)

\* And a loop by index that sets every entry it meets to nil empties the table, if the hash part had at most one entry
\* (an entry removed there is replaced by the last one, which the loop has passed).
WalkSound ==
    /\ WalkSeesAllUnlessFull
    /\ walk.over /\ walk.body = "clear" /\ walk.how = "index" /\ walk.loose <= 1 => Present = {}
=============================================================================
