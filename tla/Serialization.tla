--------------------------- MODULE Serialization ---------------------------
(***************************************************************************)
(* The serialize library: the wire format (wire_codec.cpp), which also     *)
(* carries the bound arguments of an asynchronous callback from the call   *)
(* that starts it to the frame that runs it, and the tree that its text    *)
(* and xml forms archive (native_serialize.cpp).                           *)
(*                                                                         *)
(* A byte has GroupBits bits and a continuation bit, an integer Width      *)
(* bits, a double is one byte.  Tables live in a heap, [id -> sequence of  *)
(* pairs], and a decoder fills a heap of its own: the tables encoded are   *)
(* gone by the time a callback runs.                                       *)
(***************************************************************************)
EXTENDS Naming, Integers, Sequences, SequencesExt

CONSTANTS GroupBits, Width,
          NaN, Fraction,   \* the codes of the doubles that are not integers; the others stand for themselves
          MaxDepth,        \* kWireMaxDepth and kSerMaxDepth
          Values, Heaps,   \* what scripts encode
          Inputs           \* what they decode

VARIABLES ser,     \* the call: its operation, arguments and heap
          coded,   \* what the encoder gave: [ok, out]
          back     \* what the decoder made of it: [ok, v, heap]

Group == 2 ^ GroupBits

TagNil == 0
TagFalse == 1
TagTrue == 2
TagInt == 3
TagDouble == 4
TagStrNew == 5
TagStrRef == 6
TagTable == 7

Value(k, n) == [k |-> k, n |-> n, s |-> <<>>]
Nil == Value("nil", 0)
Str(s) == [k |-> "str", n |-> 0, s |-> s]

IsSupported(v) == v.k # "closure"

\* The pairs that a table's encoding keeps.
Kept(pairs) == SelectSeq(pairs, LAMBDA p : IsSupported(p.key) /\ IsSupported(p.val))

------------------------------------------------------------------------------
(* Encoding.  st is the EncodeState and the bytes written so far. *)

RECURSIVE WriteVarint(_)
WriteVarint(n) == IF n < Group THEN <<n>> ELSE <<Group + (n % Group)>> \o WriteVarint(n \div Group)

ZigzagEncode(n) == IF n >= 0 THEN 2 * n ELSE -2 * n - 1
ZigzagDecode(u) == IF u % 2 = 0 THEN u \div 2 ELSE -((u + 1) \div 2)

EncodeStart == [ok |-> TRUE, out |-> <<>>, dict |-> <<>>, visited |-> {}, depth |-> 0]
Emit(st, bytes) == [st EXCEPT !.out = @ \o bytes]
Fail(st) == [st EXCEPT !.ok = FALSE]

EncodeStringFromOne(s, st) ==
    LET at == {i \in DOMAIN st.dict : st.dict[i] = s}
    IN IF at # {} THEN Emit(st, <<TagStrRef>> \o WriteVarint(CHOOSE i \in at : TRUE))
       ELSE [Emit(st, <<TagStrNew>> \o WriteVarint(Len(s)) \o s) EXCEPT !.dict = Append(@, s)]

\* A string already written is a reference to its place in the dictionary.
EncodeString(s, st) ==
    LET at == {i \in DOMAIN st.dict : st.dict[i] = s}
    IN IF at # {} THEN Emit(st, <<TagStrRef>> \o WriteVarint((CHOOSE i \in at : TRUE) - 1))
       ELSE [Emit(st, <<TagStrNew>> \o WriteVarint(Len(s)) \o s) EXCEPT !.dict = Append(@, s)]

RECURSIVE EncodeValue(_, _, _)
EncodeValue(v, heap, st) ==
    CASE ~st.ok \/ ~IsSupported(v) -> Fail(st)
      [] st.ok /\ v.k = "nil" -> Emit(st, <<TagNil>>)
      [] st.ok /\ v.k = "bool" -> Emit(st, <<IF v.n = 1 THEN TagTrue ELSE TagFalse>>)
      [] st.ok /\ v.k = "int" -> Emit(st, <<TagInt>> \o WriteVarint(ZigzagEncode(v.n)))
      [] st.ok /\ v.k = "float" -> Emit(st, <<TagDouble, v.n>>)
      [] st.ok /\ v.k = "str" -> EncodeString(v.s, st)
      [] st.ok /\ v.k = "table" ->
           IF st.depth >= MaxDepth \/ v.n \in st.visited THEN Fail(st)
           ELSE LET kept == Kept(heap[v.n])
                    inside == Emit([st EXCEPT !.depth = @ + 1, !.visited = @ \cup {v.n}],
                                   <<TagTable>> \o WriteVarint(Len(kept)))
                    after == FoldLeft(LAMBDA a, p : EncodeValue(p.val, heap, EncodeValue(p.key, heap, a)), inside, kept)
                IN [after EXCEPT !.depth = st.depth, !.visited = st.visited]

WireEncode(v, heap) == EncodeValue(v, heap, EncodeStart)

\* ValidateStrict: nothing that the encoder would refuse, and nothing that it would leave out.
RECURSIVE ValidateStrict(_, _, _)
ValidateStrict(v, heap, visited) ==
    /\ IsSupported(v)
    /\ v.k = "table" =>
           /\ Cardinality(visited) < MaxDepth /\ v.n \notin visited
           /\ \A i \in DOMAIN heap[v.n] :
                  /\ ValidateStrict(heap[v.n][i].key, heap, visited \cup {v.n})
                  /\ ValidateStrict(heap[v.n][i].val, heap, visited \cup {v.n})

\* The arguments bound to a callback: a count, then the values, with one dictionary for all of them.
WireEncodeCallbackArgs(args, heap) ==
    IF \E i \in DOMAIN args : ~ValidateStrict(args[i], heap, {}) THEN Fail(EncodeStart)
    ELSE FoldLeft(LAMBDA st, v : EncodeValue(v, heap, st), Emit(EncodeStart, WriteVarint(Len(args))), args)

------------------------------------------------------------------------------
(* Decoding.  st is the DecodeState, the position in the input, the tables made and the value read last. *)

DecodeStart == [ok |-> TRUE, pos |-> 1, dict |-> <<>>, depth |-> 0, heap |-> <<>>, v |-> Nil]

\* [ok, pos, n]; bits beyond the width are shifted out.
RECURSIVE ReadVarintFrom(_, _, _, _)
ReadVarintFrom(in, pos, shift, acc) ==
    IF pos > Len(in) THEN [ok |-> FALSE, pos |-> pos, n |-> 0]
    ELSE LET b == in[pos]
             n == (acc + (b % Group) * 2 ^ shift) % 2 ^ Width
         IN CASE b < Group -> [ok |-> TRUE, pos |-> pos + 1, n |-> n]
              [] b >= Group /\ shift + GroupBits >= Width -> [ok |-> FALSE, pos |-> pos + 1, n |-> 0]
              [] OTHER -> ReadVarintFrom(in, pos + 1, shift + GroupBits, n)

ReadVarint(in, pos) == ReadVarintFrom(in, pos, 0, 0)

NormalizeTableKey(key) == IF key.k = "float" /\ key.n \notin {NaN, Fraction} THEN Value("int", key.n) ELSE key

\* TableHelper::SetTable: a nil key is ignored, a nil value deletes, a NaN key raises.
SetTable(st, id, key0, val) ==
    LET key == NormalizeTableKey(key0)
        others == SelectSeq(st.heap[id], LAMBDA p : p.key # key)
    IN CASE key = Nil -> st
         [] key = Value("float", NaN) -> Fail(st)
         [] OTHER -> [st EXCEPT !.heap[id] = IF val = Nil THEN others ELSE Append(others, [key |-> key, val |-> val])]

RECURSIVE DecodeValue(_, _), DecodePairs(_, _, _, _)

DecodePairs(in, st, id, count) ==
    IF count = 0 \/ ~st.ok THEN st
    ELSE LET key == DecodeValue(in, st)
             val == DecodeValue(in, key)
         IN IF ~val.ok THEN val ELSE DecodePairs(in, SetTable(val, id, key.v, val.v), id, count - 1)

DecodeTable(in, st) ==
    LET r == ReadVarint(in, st.pos)
        id == Len(st.heap) + 1
        after == DecodePairs(in, [st EXCEPT !.pos = r.pos, !.depth = @ + 1, !.heap = Append(@, <<>>)], id, r.n)
    IN IF st.depth >= MaxDepth \/ ~r.ok \/ r.n > (Len(in) + 1 - r.pos) \div 2 THEN Fail(st)
       ELSE [after EXCEPT !.depth = st.depth, !.v = Value("table", id)]

DecodeValue(in, st0) ==
    LET tag == in[st0.pos]
        st == [st0 EXCEPT !.pos = @ + 1]
    IN  Given(ReadVarint(in, st.pos), LAMBDA r :
        LET Give(v, pos) == [st EXCEPT !.v = v, !.pos = pos]
        IN  IF ~st0.ok \/ st0.pos > Len(in) THEN Fail(st0)
            ELSE CASE tag = TagNil -> Give(Nil, st.pos)
                   [] tag = TagFalse -> Give(Value("bool", 0), st.pos)
                   [] tag = TagTrue -> Give(Value("bool", 1), st.pos)
                   [] tag = TagInt -> IF r.ok THEN Give(Value("int", ZigzagDecode(r.n)), r.pos) ELSE Fail(st)
                   [] tag = TagDouble -> IF st.pos > Len(in) THEN Fail(st) ELSE Give(Value("float", in[st.pos]), st.pos + 1)
                   [] tag = TagStrNew ->
                        IF ~r.ok \/ r.n > Len(in) + 1 - r.pos THEN Fail(st)
                        ELSE LET s == SubSeq(in, r.pos, r.pos + r.n - 1)
                             IN [Give(Str(s), r.pos + r.n) EXCEPT !.dict = Append(@, s)]
                   [] tag = TagStrRef ->
                        IF ~r.ok \/ r.n >= Len(st.dict) THEN Fail(st) ELSE Give(Str(st.dict[r.n + 1]), r.pos)
                   [] tag = TagTable -> DecodeTable(in, st))

\* A value is the whole input.
WireDecode(in) == Given(DecodeValue(in, DecodeStart), LAMBDA r : IF r.ok /\ r.pos # Len(in) + 1 THEN Fail(r) ELSE r)

RECURSIVE DecodeArgs(_, _, _, _)
DecodeArgs(in, st, count, vs) ==
    IF count = 0 \/ ~st.ok THEN [ok |-> st.ok /\ st.pos = Len(in) + 1, vs |-> vs, heap |-> st.heap]
    ELSE LET next == DecodeValue(in, st) IN DecodeArgs(in, next, count - 1, Append(vs, next.v))

WireDecodeCallbackArgs(in) ==
    LET r == ReadVarint(in, 1)
    IN IF in = <<>> THEN [ok |-> TRUE, vs |-> <<>>, heap |-> <<>>]
       ELSE IF ~r.ok THEN [ok |-> FALSE, vs |-> <<>>, heap |-> <<>>]
       ELSE DecodeArgs(in, [DecodeStart EXCEPT !.pos = r.pos], r.n, <<>>)

------------------------------------------------------------------------------
(* The tree of the text and xml forms; boost's archives give back the tree they were given. *)

Leaf(v) == [ok |-> TRUE, v |-> v, keys |-> <<>>, vals |-> <<>>]
BadNode == [Leaf(Nil) EXCEPT !.ok = FALSE]

RECURSIVE CVarToSerNode(_, _, _)
CVarToSerNode(v, heap, visited) ==
    CASE ~IsSupported(v) -> BadNode
      [] IsSupported(v) /\ v.k # "table" -> Leaf(v)
      [] v.k = "table" ->
           IF Cardinality(visited) >= MaxDepth \/ v.n \in visited THEN BadNode
           ELSE LET kept == Kept(heap[v.n])
                    Sub(x) == CVarToSerNode(x, heap, visited \cup {v.n})
                IN [ok |-> \A i \in DOMAIN kept : Sub(kept[i].key).ok /\ Sub(kept[i].val).ok,
                    v |-> Value("table", 0),
                    keys |-> [i \in DOMAIN kept |-> Sub(kept[i].key)],
                    vals |-> [i \in DOMAIN kept |-> Sub(kept[i].val)]]

\* The depth is looked at before the kind, for a leaf too.
RECURSIVE SerNodeToCVar(_, _, _)
SerNodeToCVar(n, st, depth) ==
    CASE ~st.ok \/ depth >= MaxDepth -> Fail(st)
      [] st.ok /\ depth < MaxDepth /\ n.v.k # "table" -> [st EXCEPT !.v = n.v]
      [] st.ok /\ depth < MaxDepth /\ n.v.k = "table" ->
           LET id == Len(st.heap) + 1
               AddPair(a, i) ==
                   LET key == SerNodeToCVar(n.keys[i], a, depth + 1)
                       val == SerNodeToCVar(n.vals[i], key, depth + 1)
                   IN IF val.ok THEN SetTable(val, id, key.v, val.v) ELSE val
               after == FoldLeft(AddPair, [st EXCEPT !.heap = Append(@, <<>>)], [i \in DOMAIN n.keys |-> i])
           IN [after EXCEPT !.v = Value("table", id)]

------------------------------------------------------------------------------
(* The calls: what is encoded is decoded after the frame that owned it. *)

NoCall == [op |-> "-", args |-> <<>>, heap |-> <<>>]
SerInit == ser = NoCall /\ coded = Fail(EncodeStart) /\ back = Fail(DecodeStart)

\* serialize.encode, then serialize.decode.
Encode ==
    /\ ser = NoCall
    /\ \E v \in Values, h \in Heaps :
           /\ ser' = [op |-> "encode", args |-> <<v>>, heap |-> h]
           /\ coded' = WireEncode(v, h)
           /\ back' = IF coded'.ok THEN WireDecode(coded'.out) ELSE Fail(DecodeStart)

\* A query binds arguments to its callback; the callback runs.
BindArgs ==
    /\ ser = NoCall
    /\ \E v, w \in Values, h \in Heaps :
           /\ ser' = [op |-> "args", args |-> <<v, w>>, heap |-> h]
           /\ coded' = WireEncodeCallbackArgs(<<v, w>>, h)
           /\ back' = IF coded'.ok THEN WireDecodeCallbackArgs(coded'.out) ELSE Fail(DecodeStart)

\* serialize.text_encode and text_decode, or xml_encode and xml_decode.
TextEncode ==
    /\ ser = NoCall
    /\ \E v \in Values, h \in Heaps :
           /\ ser' = [op |-> "text", args |-> <<v>>, heap |-> h]
           /\ coded' = CVarToSerNode(v, h, {})
           /\ back' = IF coded'.ok THEN SerNodeToCVar(coded', DecodeStart, 0) ELSE Fail(DecodeStart)

\* serialize.decode of bytes that no encoder made.
Decode ==
    /\ ser = NoCall
    /\ \E in \in Inputs :
           /\ ser' = [op |-> "decode", args |-> in, heap |-> <<>>]
           /\ back' = WireDecode(in)
    /\ UNCHANGED coded

SerNext == Encode \/ BindArgs \/ TextEncode \/ Decode

------------------------------------------------------------------------------
(* What a value is to its reader: its tree, without the fields that cannot be serialized. *)

RECURSIVE Tree(_, _)
Tree(v, heap) ==
    IF v.k # "table" THEN [v |-> v, of |-> {}]
    ELSE LET kept == Kept(heap[v.n])
         IN [v |-> Value("table", 0), of |-> {<<Tree(kept[i].key, heap), Tree(kept[i].val, heap)>> : i \in DOMAIN kept}]

\* Tables nested more than n deep; a cycle is.
RECURSIVE TooDeep(_, _, _)
TooDeep(v, heap, n) ==
    /\ v.k = "table"
    /\ \/ n = 0
       \/ n > 0 /\ \E i \in DOMAIN Kept(heap[v.n]) :
              LET p == Kept(heap[v.n])[i] IN TooDeep(p.key, heap, n - 1) \/ TooDeep(p.val, heap, n - 1)

\* A value n tables down.
RECURSIVE Reaches(_, _, _)
Reaches(v, heap, n) ==
    \/ n = 0
    \/ n > 0 /\ v.k = "table" /\ \E i \in DOMAIN Kept(heap[v.n]) :
           LET p == Kept(heap[v.n])[i] IN Reaches(p.key, heap, n - 1) \/ Reaches(p.val, heap, n - 1)

\* Something that cannot be serialized, at most n tables down.
RECURSIVE HasUnsupported(_, _, _)
HasUnsupported(v, heap, n) ==
    \/ ~IsSupported(v)
    \/ v.k = "table" /\ n > 0 /\ \E i \in DOMAIN heap[v.n] :
           HasUnsupported(heap[v.n][i].key, heap, n - 1) \/ HasUnsupported(heap[v.n][i].val, heap, n - 1)

Encodable(v, heap) == IsSupported(v) /\ ~TooDeep(v, heap, MaxDepth)

(* Whatever was encoded comes back, when the tables it was made of are gone: encode and decode agree on the dictionary, the
   counts and the depth, whatever a table holds and however often it is reached (wire_codec.cpp:149-295); only a closure,
   a cycle or a nesting beyond the limit is refused.  Arguments bound to a callback come back whole or the query raises,
   whatever the code says about skipped fields (:298-379).  The text forms also refuse a value at the limit itself, though
   they encode it: SerNodeToCVar counts a leaf as a level (native_serialize.cpp:137-140). *)
RoundTrips ==
    LET v == ser.args[1]
        tree == Tree(v, ser.heap)
    IN CASE ser.op = "encode" ->
              /\ back.ok <=> Encodable(v, ser.heap)
              /\ back.ok => Tree(back.v, back.heap) = tree
         [] ser.op = "text" ->
              /\ coded.ok <=> Encodable(v, ser.heap)
              /\ back.ok <=> coded.ok /\ ~Reaches(v, ser.heap, MaxDepth)
              /\ back.ok => Tree(back.v, back.heap) = tree
         [] ser.op = "args" ->
              /\ back.ok <=> \A i \in {1, 2} :
                     Encodable(ser.args[i], ser.heap) /\ ~HasUnsupported(ser.args[i], ser.heap, MaxDepth)
              /\ back.ok => /\ Len(back.vs) = 2
                            /\ \A i \in {1, 2} : Tree(back.vs[i], back.heap) = Tree(ser.args[i], ser.heap)
         [] OTHER -> TRUE

(* Bytes that decode accepts stand for a value that can be encoded again, and that is the value read back: no input leaves a
   table the encoder would refuse, or one that a second trip changes (wire_codec.cpp:232-295, 332-340). *)
DecodedIsSound ==
    ser.op = "decode" /\ back.ok =>
        LET again == WireEncode(back.v, back.heap)
            read == WireDecode(again.out)
        IN again.ok /\ read.ok /\ Tree(read.v, read.heap) = Tree(back.v, back.heap)

\* Both directions of the codec.
CodecSound == RoundTrips /\ DecodedIsSound
=============================================================================
