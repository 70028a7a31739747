------------------------------ MODULE MCAsync ------------------------------
(***************************************************************************)
(* The asynchronous libraries, for TLC: the state space is the disjoint    *)
(* union of theirs.  The libraries that theorems are about are extended,   *)
(* and the variables of a library stay in one first state in the           *)
(* behaviours of the others; the rest has instances.                       *)
(***************************************************************************)
EXTENDS NativeEvent, MysqlPool, RedisConnection, NetObject, HttpLibrary, NativeObjects, NetFraming

CONSTANT Parts   \* which ones

VARIABLES part,
          call, inlined, called,
          job, prev, out,
          ser, coded, back

\* The messages of the http library.
Tok(k, n) == [k |-> k, n |-> n]
MCResponses ==
    {<<Tok("len", 1), Tok("b", 1)>>, <<Tok("none", 0), Tok("b", 1)>>,
     <<Tok("chunked", 0), Tok("size", 2), Tok("b", 1), Tok("b", 1), Tok("size", 2), Tok("b", 1), Tok("b", 1), Tok("size", 0), Tok("end", 0)>>}
MCRequests ==
    {<<Tok("none", 0), Tok("len", 1), Tok("b", 3)>>,
     <<Tok("chunked", 0), Tok("size", 1), Tok("b", 1), Tok("size", 0), Tok("end", 0)>>}

\* The ids that scripts give to objects: an automatic one, and one that is not.
MCIds == {-1, 7}

\* The payloads: nothing, a carriage return, a line feed inside, and more than a packet may have.
MCPayloads == {<<>>, <<2, 13>>, <<10, 3, 5>>, <<1, 1, 1, 1>>}

\* The built-in functions on words of 6 bits; floats are quarters, 1001 infinity and 1003 NaN.
V == INSTANCE VmOps WITH Width <- 6
Str(cs) == [t |-> "str", v |-> 0, s |-> cs]
Args ==
    {V!Nil, V!Bool(TRUE), V!Table(1)} \cup {V!Float(q) : q \in {2, 4, -6, 1001, 1003}}
    \cup {V!Number(n) : n \in {-32, -1, 0, 1, 2, 16, 31}}
    \cup {Str(cs) : cs \in {<<>>, <<1>>, <<16>>, <<11>>, <<12, 11, 1>>, <<11, 3, 2>>, <<3, 2>>, <<1, 10>>, <<13, 2>>, <<15, 14>>}}
Multis == {V!Multi(vs) : vs \in {<<>>, <<V!Nil>>, <<V!Number(2)>>, <<V!Number(1), V!Number(-1)>>}}
Places == {V!Nil, V!Float(4), Str(<<2>>)} \cup {V!Number(n) : n \in {-32, 0, 1, 2, 3, 31}}
TabPairs ==
    {<<<<>>, <<V!Number(7)>>>>, <<<<V!Number(1), V!Number(2), V!Number(3)>>, <<>>>>, <<[i \in {0} |-> V!Number(9)], <<>>>>}
B == INSTANCE Builtins WITH
         Width <- 6, MaxByte <- 15, MaxString <- 6, MaxItems <- 8, MaxUnpack <- 8, MaxExp <- 4,
         TabArgs <- {V!Table(1), V!Table(2), Str(<<>>), V!Nil}

\* Patterns over two letters, a digit, a zero and the characters with a meaning.
Letters == {"a", "b", "A", "z", "f", "d"}
Codes == <<"nul", "$", "%", "(", ")", "*", "+", "-", ".", "0", "1", "2", "3", "4", "5", "?", "A", "[", "]", "^", "a", "b", "d", "f", "z">>
CharSet == {Codes[i] : i \in DOMAIN Codes}
Bits ==
    {<<"(", "a", "*", ")">>, <<"(", "a", "-", ")">>, <<"a", "?">>, <<"b">>, <<".", "+">>, <<"%", "1">>, <<"(", ")">>, <<"$">>,
     <<"%", "b", "a", "b">>, <<"%", "b", "a", "a">>, <<"[", "^", "a", "]">>, <<"[", "a", "-", "]", "*">>, <<"(">>, <<")">>,
     <<"^">>, <<"%", "f", "[", "a", "]">>, <<"%", "A", "-">>, <<"%">>, <<"[", "]", "%", "d", "]">>, <<"[", "1", "-", "b">>,
     <<"[", "$", "-", "%", "]", "]">>}
Token(cs) == [k |-> "text", n |-> 0, s |-> cs]
L == INSTANCE LuaPattern WITH
         Chars <- CharSet, Ord <- [c \in CharSet |-> CHOOSE i \in DOMAIN Codes : Codes[i] = c], Alphas <- Letters, Nul <- "nul",
         MaxCaptures <- 2, MaxDepth <- 12, MaxYields <- 6,
         Subjects <- {<<>>, <<"a", "]">>, <<"a", "a", "b", "a">>, <<"b", "a", "nul">>},
         Patterns <- {b \o c \o d : b \in Bits, c \in Bits \cup {<<>>}, d \in {<<>>, <<"%", "1">>}},
         Inits <- {1, -1}, Limits <- {-9, 1},
         Repls <- {[k |-> "string", s |-> <<"%", "1", "b">>], [k |-> "string", s |-> <<"%", "0", "%", "%">>],
                   [k |-> "function", keys |-> {Token(<<"a">>)}, v |-> Token(<<"b", "b">>)],
                   [k |-> "table", keys |-> {Token(<<"b", "a">>)}, v |-> [Token(<<>>) EXCEPT !.k = "true"]]}

\* Two tables that may hold each other and a third, bytes of 2 bits, integers of 5.
Val(k, n) == [k |-> k, n |-> n, s |-> <<>>]
Quad == [k |-> "str", n |-> 0, s |-> <<1, 1, 1, 1>>]
Pairs1 == {[key |-> k, val |-> v] : k \in {Val("int", 1), Val("table", 2), Quad},
                                   v \in {Val("int", -16), Val("closure", 0), Val("table", 1), Val("table", 2), Val("table", 3)}}
Pairs2 == {[key |-> Val("bool", 1), val |-> v] : v \in {Val("float", 7), Val("table", 1), Val("table", 3), Quad}}
W == INSTANCE Serialization WITH
         GroupBits <- 2, Width <- 5, NaN <- 6, Fraction <- 7, MaxDepth <- 2,
         Values <- {Val("nil", 0), Val("int", 15), Val("closure", 0), Val("table", 1), [Quad EXCEPT !.s = <<2>>]},
         Heaps <- {<<a, b, c>> : a \in {<<>>} \cup {<<p>> : p \in Pairs1} \cup {<<p[1], p[2]>> : p \in {r \in Pairs1 \X Pairs1 : r[1].key # r[2].key}},
                                 b \in {<<>>} \cup {<<p>> : p \in Pairs2}, c \in {<<>>}},
         Inputs <- UNION {[1..n -> 0..7] : n \in 0..4} \cup {<<7, 1>> \o in : in \in [1..4 -> 0..7]}
                   \cup {<<7, 1, 7, 1, 7>> \o in : in \in [1..3 -> 0..7]}

builtinVars == <<call, inlined, called>>
patternVars == <<job, prev, out>>
serVars == <<ser, coded, back>>

NoBuiltin == call = 0 /\ inlined = 0 /\ called = 0
NoPattern == job = 0 /\ prev = 0 /\ out = 0
NoSer == ser = 0 /\ coded = 0 /\ back = 0

\* Each library starts as its module says; where that leaves a choice it is fixed in the behaviours of the others.
Init ==
    /\ part \in Parts
    /\ EventInit /\ PoolInit /\ HttpInit /\ ObjInit
    /\ RedisInit /\ (part # "redis" => rc.connecting)
    /\ NetInit /\ (part # "net" => net.kind = "udp")
    /\ FrameInit /\ (part # "frame" => framer = "raw")
    /\ IF part = "builtins" THEN B!BuiltinInit ELSE NoBuiltin
    /\ IF part = "pattern" THEN L!PatternInit ELSE NoPattern
    /\ IF part = "wire" THEN W!SerInit ELSE NoSer

\* The http library has clients only, or a server only.
Next ==
    \/ part = "event" /\ EventNext /\ UNCHANGED <<part, redisVars, netVars, poolVars, frameVars, httpVars, objVars, builtinVars, patternVars, serVars>>
    \/ part = "redis" /\ RedisNext /\ UNCHANGED <<part, eventVars, netVars, poolVars, frameVars, httpVars, objVars, builtinVars, patternVars, serVars>>
    \/ part = "net" /\ NetNext /\ UNCHANGED <<part, eventVars, redisVars, poolVars, frameVars, httpVars, objVars, builtinVars, patternVars, serVars>>
    \/ part = "pool" /\ PoolNext /\ UNCHANGED <<part, eventVars, redisVars, netVars, frameVars, httpVars, objVars, builtinVars, patternVars, serVars>>
    \/ part = "frame" /\ FrameNext /\ UNCHANGED <<part, eventVars, redisVars, netVars, poolVars, httpVars, objVars, builtinVars, patternVars, serVars>>
    \/ part = "client" /\ HttpNext /\ UNCHANGED hconn /\ UNCHANGED <<part, eventVars, redisVars, netVars, poolVars, frameVars, objVars, builtinVars, patternVars, serVars>>
    \/ part = "server" /\ HttpNext /\ UNCHANGED op /\ UNCHANGED <<part, eventVars, redisVars, netVars, poolVars, frameVars, objVars, builtinVars, patternVars, serVars>>
    \/ part = "objects" /\ ObjNext /\ UNCHANGED <<part, eventVars, redisVars, netVars, poolVars, frameVars, httpVars, builtinVars, patternVars, serVars>>
    \/ part = "builtins" /\ B!BuiltinNext /\ UNCHANGED <<part, eventVars, redisVars, netVars, poolVars, frameVars, httpVars, objVars, patternVars, serVars>>
    \/ part = "pattern" /\ L!PatternNext /\ UNCHANGED <<part, eventVars, redisVars, netVars, poolVars, frameVars, httpVars, objVars, builtinVars, serVars>>
    \/ part = "wire" /\ W!SerNext /\ UNCHANGED <<part, eventVars, redisVars, netVars, poolVars, frameVars, httpVars, objVars, builtinVars, patternVars>>

vars == <<part, eventVars, redisVars, netVars, poolVars, frameVars, httpVars, objVars, builtinVars, patternVars, serVars>>

\* The host keeps calling runtime.tick, and callbacks return.
LibraryTicks ==
    \/ part = "redis" /\ TickStep /\ UNCHANGED <<part, eventVars, netVars, poolVars, frameVars, httpVars, objVars, builtinVars, patternVars, serVars>>
    \/ part = "net" /\ NetTick /\ UNCHANGED <<part, eventVars, redisVars, poolVars, frameVars, httpVars, objVars, builtinVars, patternVars, serVars>>
    \/ part = "pool" /\ PoolTick /\ UNCHANGED <<part, eventVars, redisVars, netVars, frameVars, httpVars, objVars, builtinVars, patternVars, serVars>>
    \/ part = "client" /\ HttpTick /\ UNCHANGED hconn /\ UNCHANGED <<part, eventVars, redisVars, netVars, poolVars, frameVars, objVars, builtinVars, patternVars, serVars>>

\* In some Poll the server has answered, or the connection is broken.
Answers ==
    \/ part = "redis" /\ Hiredis /\ UNCHANGED <<part, eventVars, netVars, poolVars, frameVars, httpVars, objVars, builtinVars, patternVars, serVars>>
    \/ part = "pool" /\ PoolAnswers /\ UNCHANGED <<part, eventVars, redisVars, netVars, frameVars, httpVars, objVars, builtinVars, patternVars, serVars>>
    \/ part = "client" /\ HttpTimeouts /\ UNCHANGED <<part, eventVars, redisVars, netVars, poolVars, frameVars, objVars, builtinVars, patternVars, serVars>>

Spec == Init /\ [][Next]_vars /\ WF_vars(LibraryTicks) /\ SF_vars(Answers)

\* The properties of the instances; the modules state and explain them.
StreamsIntact == StreamIntact /\ ResponseWhole
InlineMatchesUnlessKnown == part = "builtins" => B!InlineMatchesUnlessKnown
PatternsAsLua == part = "pattern" => L!PatternsAsLua
CodecSound == part = "wire" => W!CodecSound
=============================================================================
