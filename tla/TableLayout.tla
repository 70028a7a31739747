---------------------------- MODULE TableLayout ----------------------------
(***************************************************************************)
(* How a table is kept in memory (var/var_table.h), and the operations on  *)
(* it that native_table.cpp has for the host and c_runtime_header.h for    *)
(* generated code; both work on the same tables.                           *)
(*                                                                         *)
(* A table is a record                                                     *)
(*   quick    the entries, while they are few (buckets = 0)                *)
(*   buckets  the number of main positions, a power of two, or 0           *)
(*   nodes    buckets main positions, then half as many overflow nodes:    *)
(*            [key, val, next, pos]                                        *)
(*   active   the nodes in use, by position                                *)
(*   free     the first free overflow node                                 *)
(*   arr, cap the values of 1..Len(arr), and the room for more             *)
(*   len      the length, kept by every write of an integer key            *)
(* A key is <<"int", n>>, <<"flt", q>> (q halves) or <<"str", n>>; a value *)
(* is a natural number and nil is 0.                                       *)
(***************************************************************************)
EXTENDS Naming, Integers, FiniteSets, SequencesExt

CONSTANTS QuickSize,    \* QUICK_DATA_SIZE; table.move looks for as many elements before it makes room
          OtherHash     \* the hash of a key that is no integer

Nil == 0
NoKey == <<"nil", 0>>
INVALID_INDEX == -1

EmptyTable == [quick |-> <<>>, buckets |-> 0, nodes |-> <<>>, active |-> <<>>, free |-> INVALID_INDEX,
               arr |-> <<>>, cap |-> 0, len |-> 0]

IntKey(n) == <<"int", n>>

\* k ^ (k >> 32) of a small integer.
VarKeyHash(key) ==
    IF key[1] = "int" THEN IF key[2] >= 0 THEN key[2] ELSE -key[2] - 1
    ELSE OtherHash[key]

NormalizeTableKey(key) == IF key[1] = "flt" /\ key[2] % 2 = 0 THEN IntKey(key[2] \div 2) ELSE key

Count(t) == IF t.buckets = 0 THEN Len(t.quick) ELSE Len(t.active)

\* Entry i, from 0, in the order of a traversal of the hash part.
EntryAt(t, i) == IF t.buckets = 0 THEN t.quick[i + 1] ELSE t.nodes[t.active[i + 1]]

NextPowerOfTwo(n) == CHOOSE p \in {2 ^ i : i \in 0..n} : p >= n /\ (p = 1 \/ p \div 2 < n)

(***************************************************************************)
(* Chains.                                                                 *)
(***************************************************************************)
Main(t, key) == VarKeyHash(key) % t.buckets

RECURSIVE ChainFrom(_, _)
ChainFrom(t, n) == IF n = INVALID_INDEX THEN <<>> ELSE <<n>> \o ChainFrom(t, t.nodes[n].next)
Chain(t, key) == ChainFrom(t, Main(t, key))

\* The node of a key in its chain: none if the chain does not have it.
NodeOf(t, key) == {n \in Range(Chain(t, key)) : t.nodes[n].key = key}
QuickOf(t, key) == {i \in DOMAIN t.quick : t.quick[i].key = key}

HashGet(t, key) ==
    IF t.buckets = 0
    THEN Given(QuickOf(t, key), LAMBDA at : IF at = {} THEN Nil ELSE t.quick[CHOOSE i \in at : TRUE].val)
    ELSE Given(NodeOf(t, key), LAMBDA at : IF at = {} THEN Nil ELSE t.nodes[CHOOSE n \in at : TRUE].val)

\* FALSE: the chain needs an overflow node and there is none.
TableInsertRaw(t, key, val) ==
    LET main == Main(t, key)
        Placed(nodes, n, next) ==
            [nodes EXCEPT ![n] = [key |-> key, val |-> val, next |-> next, pos |-> Len(t.active)]]
    IN  IF t.nodes[main].key = NoKey
        THEN [ok |-> TRUE, t |-> [t EXCEPT !.nodes = Placed(@, main, INVALID_INDEX), !.active = Append(@, main)]]
        ELSE IF NodeOf(t, key) # {}
        THEN [ok |-> TRUE, t |-> [t EXCEPT !.nodes[CHOOSE n \in NodeOf(t, key) : TRUE].val = val]]
        ELSE IF t.free = INVALID_INDEX THEN [ok |-> FALSE, t |-> t]
        ELSE [ok |-> TRUE,
              t |-> [t EXCEPT !.free = t.nodes[t.free].next,
                              !.active = Append(@, t.free),
                              !.nodes = [Placed(@, t.free, t.nodes[main].next) EXCEPT ![main].next = t.free]]]

(***************************************************************************)
(* Growing the hash part.  Entries move in the order of the old buckets;   *)
(* if they do not fit, twice as many buckets are tried.                    *)
(***************************************************************************)
EmptyNodes(buckets) ==
    LET over == buckets \div 2
    IN  [n \in 0..(buckets + over - 1) |->
            [key |-> NoKey, val |-> Nil, pos |-> INVALID_INDEX,
             next |-> IF n < buckets \/ n = buckets + over - 1 THEN INVALID_INDEX ELSE n + 1]]

OldEntries(t) ==
    IF t.buckets = 0 THEN t.quick
    ELSE LET chains == [i \in 1..t.buckets |-> SelectSeq(ChainFrom(t, i - 1), LAMBDA n : t.nodes[n].key # NoKey)]
         IN  [i \in 1..Len(FlattenSeq(chains)) |-> t.nodes[FlattenSeq(chains)[i]]]

RECURSIVE InsertAll(_, _), RehashAt(_, _)
InsertAll(t, entries) ==
    IF entries = <<>> THEN [ok |-> TRUE, t |-> t]
    ELSE Given(TableInsertRaw(t, Head(entries).key, Head(entries).val), LAMBDA r :
         IF r.ok THEN InsertAll(r.t, Tail(entries)) ELSE r)
RehashAt(t, buckets) ==
    Given(InsertAll([t EXCEPT !.nodes = EmptyNodes(buckets), !.active = <<>>, !.buckets = buckets,
                              !.free = IF buckets > 1 THEN buckets ELSE INVALID_INDEX], OldEntries(t)), LAMBDA r :
    IF r.ok THEN [r.t EXCEPT !.quick = <<>>] ELSE RehashAt(t, buckets * 2))

TableRehashTo(t, least) ==
    LET wanted == NextPowerOfTwo(Count(t) + 1)
        grown == IF wanted <= t.buckets THEN t.buckets * 2 ELSE wanted
    IN  RehashAt(t, IF least > grown THEN NextPowerOfTwo(least) ELSE grown)
TableRehash(t) == TableRehashTo(t, 0)

(***************************************************************************)
(* Removing an entry: the last entry takes its position.                   *)
(***************************************************************************)
UnlinkFromActive(t, n) ==
    LET pos == t.nodes[n].pos
    IN  Given(Last(t.active), LAMBDA last :
        LET moved == IF n = last THEN t ELSE [t EXCEPT !.active[pos + 1] = last, !.nodes[last].pos = pos]
        IN  [moved EXCEPT !.active = Front(@), !.nodes[n].pos = INVALID_INDEX])

Freed(t, n) == [t EXCEPT !.nodes[n].next = t.free, !.nodes[n].key = NoKey, !.nodes[n].val = Nil, !.free = n]

\* A main position is never left empty before its chain is.
DeleteMain(t, main) ==
    LET next == t.nodes[main].next
    IN  Given(UnlinkFromActive(t, next), LAMBDA u :
        IF next = INVALID_INDEX
        THEN [UnlinkFromActive(t, main) EXCEPT !.nodes[main].key = NoKey, !.nodes[main].val = Nil]
        ELSE Freed([u EXCEPT !.nodes[main].key = u.nodes[next].key, !.nodes[main].val = u.nodes[next].val,
                             !.nodes[main].next = u.nodes[next].next], next))

DeleteInner(t, key, n) ==
    LET prev == CHOOSE p \in Range(Chain(t, key)) : t.nodes[p].next = n
    IN  Freed([UnlinkFromActive(t, n) EXCEPT !.nodes[prev].next = t.nodes[n].next], n)

TableDelete(t, key) ==
    IF t.buckets = 0
    THEN Given(QuickOf(t, key), LAMBDA at :
         LET i == CHOOSE j \in at : TRUE
         IN  IF at = {} THEN t ELSE [t EXCEPT !.quick = Front([t.quick EXCEPT ![i] = Last(t.quick)])])
    ELSE Given(NodeOf(t, key), LAMBDA at :
         LET n == CHOOSE m \in at : TRUE
         IN  IF at = {} THEN t ELSE IF n = Main(t, key) THEN DeleteMain(t, n) ELSE DeleteInner(t, key, n))

(***************************************************************************)
(* The array part.  What follows its end moves over from the hash part.    *)
(***************************************************************************)
Pushed(t, val) ==
    [t EXCEPT !.arr = Append(@, val),
              !.cap = IF Len(t.arr) < t.cap THEN t.cap ELSE IF t.cap = 0 THEN 4 ELSE t.cap * 2]

RECURSIVE FlArrMigrate(_)
FlArrMigrate(t) ==
    LET next == IntKey(Len(t.arr) + 1)
        val == HashGet(t, next)
    IN  IF val = Nil THEN t ELSE FlArrMigrate(Pushed(TableDelete(t, next), val))

TableArrSetInt(t, k, val) ==
    IF k \in 1..Len(t.arr) THEN [ok |-> TRUE, t |-> [t EXCEPT !.arr[k] = val]]
    ELSE IF k # Len(t.arr) + 1 \/ val = Nil THEN [ok |-> FALSE, t |-> t]
    ELSE [ok |-> TRUE, t |-> FlArrMigrate(Pushed(t, val))]

IntKeys(t) ==
    {k \in 1..Len(t.arr) : t.arr[k] # Nil} \cup {EntryAt(t, i).key[2] : i \in {j \in 0..(Count(t) - 1) : EntryAt(t, j).key[1] = "int"}}

\* The largest power of two of which more than half are keys. nk counts once more, even if it is a key already.
OptimalSize(t, nk) ==
    LET keys == IntKeys(t)
        Upto(p) == Cardinality(keys \cap 1..p) + IF nk \in 1..p THEN 1 ELSE 0
        sizes == {p \in {2 ^ i : i \in 0..(Cardinality(keys) + 1)} : 2 * Upto(p) > p}
    IN  IF sizes = {} THEN 0 ELSE CHOOSE p \in sizes : \A q \in sizes : q <= p

RECURSIVE TakeOver(_, _)
TakeOver(t, j) ==
    IF j > Len(t.arr) THEN t
    ELSE LET val == HashGet(t, IntKey(j))
         IN  TakeOver(IF val = Nil THEN t ELSE [TableDelete(t, IntKey(j)) EXCEPT !.arr[j] = val], j + 1)

TableArrTryResize(t, nk) ==
    Given(OptimalSize(t, nk), LAMBDA size :
    LET old == Len(t.arr)
        grown == [t EXCEPT !.arr = @ \o [i \in 1..(size - old) |-> Nil], !.cap = size]
    IN  IF size <= old THEN [ok |-> FALSE, t |-> t]
        ELSE [ok |-> TRUE, t |-> FlArrMigrate(TakeOver(grown, old + 1))])

HashFull(t) == IF t.buckets = 0 THEN Len(t.quick) >= QuickSize ELSE Count(t) >= t.buckets \/ t.free = INVALID_INDEX

AppendQuick(t, key, val) == [t EXCEPT !.quick = Append(@, [key |-> key, val |-> val])]

TableArrResizeInsert(t, k, val) ==
    Given(TableArrTryResize(t, k), LAMBDA r :
    Given(TableArrSetInt(r.t, k, val), LAMBDA a :
    IF ~r.ok THEN r
    ELSE IF a.ok THEN a
    ELSE IF HashFull(r.t) THEN [ok |-> FALSE, t |-> r.t]
    ELSE [ok |-> TRUE,
          t |-> IF r.t.buckets = 0 THEN AppendQuick(r.t, IntKey(k), val) ELSE TableInsertRaw(r.t, IntKey(k), val).t]))

(***************************************************************************)
(* Setting.                                                                *)
(***************************************************************************)
\* Before an entry is added to a full hash part: an integer may find its place in the array part.
MakeRoom(t, key, val) ==
    Given(IF key[1] = "int" THEN TableArrResizeInsert(t, key[2], val) ELSE [ok |-> FALSE, t |-> t], LAMBDA r :
    IF r.ok THEN r ELSE [ok |-> FALSE, t |-> TableRehash(r.t)])

\* The entries of a table without buckets go to its first buckets, which may be full again.
RECURSIVE MakeRooms(_, _, _)
MakeRooms(t, key, val) ==
    IF ~HashFull(t) THEN [ok |-> FALSE, t |-> t]
    ELSE Given(MakeRoom(t, key, val), LAMBDA r : IF r.ok \/ t.buckets # 0 THEN r ELSE MakeRooms(r.t, key, val))

TableSetNonNil(t, key, val) ==
    LET at == QuickOf(t, key)
    IN  IF t.buckets = 0 /\ at # {} THEN [t EXCEPT !.quick[CHOOSE i \in at : TRUE].val = val]
        ELSE IF t.buckets = 0 /\ ~HashFull(t) THEN AppendQuick(t, key, val)
        ELSE Given(MakeRooms(t, key, val), LAMBDA r : IF r.ok THEN r.t ELSE TableInsertRaw(r.t, key, val).t)

FlHashSet(t, key, val) == IF val = Nil THEN TableDelete(t, key) ELSE TableSetNonNil(t, key, val)

(***************************************************************************)
(* Length: how many of 1, 2, ... are keys.  It is kept up to date by every *)
(* write of an integer key.                                                *)
(***************************************************************************)
GetInt(t, k) == IF k \in 1..Len(t.arr) THEN t.arr[k] ELSE HashGet(t, IntKey(k))

RECURSIVE SeqScanFrom(_, _)
SeqScanFrom(t, base) == IF GetInt(t, base + 1) = Nil THEN base ELSE SeqScanFrom(t, base + 1)

SeqNoteIntSet(t, k, isNil) ==
    IF isNil THEN IF k \in 1..t.len THEN [t EXCEPT !.len = k - 1] ELSE t
    ELSE IF k = t.len + 1 THEN [t EXCEPT !.len = SeqScanFrom(t, k)] ELSE t

GetTableLen(t) == t.len

(***************************************************************************)
(* What the host and generated code call.                                  *)
(***************************************************************************)
GetTable(t, key) ==
    LET k == NormalizeTableKey(key) IN IF k[1] = "int" THEN GetInt(t, k[2]) ELSE HashGet(t, k)

SetTableInt(t, k, val) ==
    Given(TableArrSetInt(t, k, val), LAMBDA a :
    SeqNoteIntSet(IF a.ok THEN a.t ELSE FlHashSet(t, IntKey(k), val), k, val = Nil))

SetTable(t, key, val) ==
    LET k == NormalizeTableKey(key) IN IF k[1] = "int" THEN SetTableInt(t, k[2], val) ELSE FlHashSet(t, k, val)

\* Generated code: the length does not change if a value replaces a value in the array part.
FlSetTableInt(t, k, val) ==
    IF k \in 1..Len(t.arr) /\ val # Nil /\ t.arr[k] # Nil THEN [t EXCEPT !.arr[k] = val] ELSE SetTableInt(t, k, val)

(***************************************************************************)
(* table.insert, table.remove and table.move, one element after the other. *)
(***************************************************************************)
\* The elements come from another table, or from t itself as it is being changed.
Self == <<>>
Element(t, src, k) == IF src = Self THEN GetInt(t, k) ELSE src[k]

RECURSIVE CopyUp(_, _, _, _, _), CopyDown(_, _, _, _, _)
CopyUp(t, src, from, to, n) ==
    IF n <= 0 THEN t ELSE CopyUp(SetTableInt(t, to, Element(t, src, from)), src, from + 1, to + 1, n - 1)
CopyDown(t, src, from, to, n) ==
    IF n <= 0 THEN t
    ELSE CopyDown(SetTableInt(t, to + n - 1, Element(t, src, from + n - 1)), src, from, to, n - 1)

TableInsert(t, pos, val) == SetTableInt(CopyDown(t, Self, pos, pos + 1, GetTableLen(t) - pos + 1), pos, val)

TableRemove(t, pos) ==
    LET n == GetTableLen(t)
    IN  SetTableInt(IF pos < n THEN CopyUp(t, Self, pos + 1, pos, n - pos) ELSE t, IF pos < n THEN n ELSE pos, Nil)

\* The elements are read, sorted and written back.
TableSort(t) ==
    LET n == GetTableLen(t)
    IN  IF n <= 1 THEN t ELSE CopyUp(t, SortSeq([i \in 1..n |-> GetInt(t, i)], <), 1, 1, n)

\* table.pack: an element may be nil.
TablePack(args, nKey) == SetTable(CopyUp(EmptyTable, args, 1, 1, Len(args)), nKey, Len(args))

\* Mutant: an overlapping move copies upwards.
MoveUpwards(t, f, e, to) == IF e < f THEN t ELSE CopyUp(t, Self, f, to, e - f + 1)

TableMoveSame(t, f, e, to) ==
    IF e < f THEN t
    ELSE IF to <= f \/ to > e THEN CopyUp(t, Self, f, to, e - f + 1)
    ELSE CopyDown(t, Self, f, to, e - f + 1)

\* From another table, whose element at k is src[k]; the room is made at once.
Presizes(t, n, to) == Count(t) = 0 /\ n > QuickSize /\ to # Len(t.arr) + 1
TableMoveFrom(t, src, to) ==
    LET n == Len(src)
    IN  CopyUp(IF Presizes(t, n, to) THEN TableRehashTo(t, n) ELSE t, src, 1, to, n)

\* Generated code doubles the buckets until they are enough.
RECURSIVE FlEnsureTableBuckets(_, _)
FlEnsureTableBuckets(t, need) ==
    IF t.buckets >= NextPowerOfTwo(need) THEN t ELSE FlEnsureTableBuckets(TableRehash(t), need)
FlTableMoveFrom(t, src, to) ==
    LET n == Len(src)
    IN  CopyUp(IF Presizes(t, n, to) THEN FlEnsureTableBuckets(t, n) ELSE t, src, 1, to, n)

(***************************************************************************)
(* Traversal.                                                              *)
(***************************************************************************)
\* GET_TABLE_ENTRY, TABENT: entry i of the array part, then of the hash part.
GetTableEntry(t, i) ==
    IF i < Len(t.arr) THEN [key |-> IntKey(i + 1), val |-> t.arr[i + 1]]
    ELSE IF i - Len(t.arr) < Count(t)
    THEN LET e == EntryAt(t, i - Len(t.arr)) IN [key |-> e.key, val |-> e.val]
    ELSE [key |-> NoKey, val |-> Nil]

ForEachKV(t) ==
    SelectSeq([i \in 1..(Len(t.arr) + Count(t)) |-> GetTableEntry(t, i - 1)], LAMBDA e : e.val # Nil)

\* The entry after a key: the first one after NoKey, none after a key that is no longer there.
BasicPairsIterator(t, last) ==
    LET entries == ForEachKV(t)
        at == {i \in DOMAIN entries : entries[i].key = last}
        next == IF last = NoKey THEN 1 ELSE IF at = {} THEN Len(entries) + 1 ELSE (CHOOSE i \in at : TRUE) + 1
    IN  IF next > Len(entries) THEN [key |-> NoKey, val |-> Nil] ELSE entries[next]
=============================================================================
