---------------------------- MODULE Interpreter ----------------------------
(***************************************************************************)
(* interp/interpreter.cpp: the execution of the bytecode, one action per   *)
(* instruction.  Nested calls of InterpreterExecute are the stack frames.  *)
(* A frame has its function, the next instruction, its registers r, the    *)
(* box attached to each register (0: none), the closure it runs (0: none)  *)
(* and where its result goes: a register of the caller, and whether only   *)
(* the first value is wanted.  A table is its entries in the order pairs   *)
(* meets them, a closure its function and the boxes of its upvalues.       *)
(***************************************************************************)
EXTENDS InterpCodegen

CONSTANT Programs   \* a set of files

VARIABLES file, unit, stage, frames, boxes, tables, closures, globals, result

vars == <<file, unit, stage, frames, boxes, tables, closures, globals, result>>

NoResult == [t |-> "none", v |-> <<>>]
Error == [t |-> "error", v |-> <<>>]
Rejected == [t |-> "rejected", v |-> <<>>]
Returned(v) == [t |-> "values", v |-> Expand(v)]

(***************************************************************************)
(* Frames and registers.                                                   *)
(***************************************************************************)
Slack == 8

FrameOf(protos, id, args, cl, dest, first) ==
    LET p == protos[id]
        regs == 0..(Larger(p.max, p.params) + Slack - 1)
    IN  [id |-> id, pc |-> 1, cl |-> cl, dest |-> dest, first |-> first,
         r |-> [i \in regs |-> IF i < Len(args) /\ i < p.params THEN args[i + 1] ELSE Nil],
         b |-> [i \in regs |-> 0]]
NewFrame(id, args, cl, dest, first) == FrameOf(unit.protos, id, args, cl, dest, first)

Depth == Len(frames)
Top == frames[Depth]
I == unit.protos[Top.id].code[Top.pc]

VmSlot(i) == IF Top.b[i] # 0 THEN boxes[Top.b[i]] ELSE Top.r[i]
Regs(from, n) == [i \in 1..n |-> VmSlot(from + i - 1)]

At(op) == stage \in {"init", "main"} /\ I.op = op
Next1 == [frames EXCEPT ![Depth].pc = @ + 1]

\* Boxes and registers after value v is written to register i of frame f.
BoxWrite(f, i, v) == IF f.b[i] # 0 THEN [boxes EXCEPT ![f.b[i]] = v] ELSE boxes
VmWrite(i, v) ==
    /\ frames' = [Next1 EXCEPT ![Depth].r[i] = v]
    /\ boxes' = BoxWrite(Top, i, v)

Throw ==
    /\ stage' = "done"
    /\ result' = Error
    /\ frames' = <<>>
    /\ UNCHANGED <<file, unit, boxes, tables, closures, globals>>

Heap == <<tables, closures, globals>>
Run == <<file, unit, stage, result>>

(***************************************************************************)
(* Values, names and upvalues.                                             *)
(***************************************************************************)
Move == At("MOVE") /\ VmWrite(I.a, VmSlot(I.b)) /\ UNCHANGED <<Heap, Run>>
LoadK == At("LOADK") /\ VmWrite(I.a, I.x) /\ UNCHANGED <<Heap, Run>>
LoadNil == At("LOADNIL") /\ VmWrite(I.a, Nil) /\ UNCHANGED <<Heap, Run>>
LoadBool == At("LOADBOOL") /\ VmWrite(I.a, Bool(I.b # 0)) /\ UNCHANGED <<Heap, Run>>

GetGlobal ==
    /\ At("GETGLOBAL")
    /\ VmWrite(I.a, IF I.x \in DOMAIN globals THEN globals[I.x] ELSE Nil)
    /\ UNCHANGED <<Heap, Run>>

SetGlobal ==
    /\ At("SETGLOBAL")
    /\ globals' = [x \in DOMAIN globals \cup {I.x} |-> IF x = I.x THEN VmSlot(I.a) ELSE globals[x]]
    /\ frames' = Next1
    /\ UNCHANGED <<boxes, tables, closures, Run>>

\* The box of upvalue d in the running closure, or 0.
UpBox(d) == IF Top.cl # 0 /\ d \in DOMAIN closures[Top.cl].ups THEN closures[Top.cl].ups[d] ELSE 0

GetUpval ==
    /\ At("GETUPVAL")
    /\ VmWrite(I.a, IF UpBox(I.x) = 0 THEN Nil ELSE boxes[UpBox(I.x)])
    /\ UNCHANGED <<Heap, Run>>

SetUpval ==
    /\ At("SETUPVAL")
    /\ boxes' = IF UpBox(I.x) = 0 THEN boxes ELSE [boxes EXCEPT ![UpBox(I.x)] = VmSlot(I.a)]
    /\ frames' = Next1
    /\ UNCHANGED <<Heap, Run>>

NewBox ==
    /\ At("NEWBOX")
    /\ IF ~unit.protos[Top.id].boxes THEN Throw
       ELSE /\ boxes' = Append(boxes, VmSlot(I.a))
            /\ frames' = [Next1 EXCEPT ![Depth].b[I.a] = Len(boxes) + 1]
            /\ UNCHANGED <<Heap, Run>>

(***************************************************************************)
(* A closure takes the boxes of the captured registers, and makes the ones *)
(* that are missing.                                                       *)
(***************************************************************************)
MakeClosure ==
    /\ At("CLOSURE")
    /\ LET ups == I.x.ups
           missing == {ups[d].reg : d \in {d \in DOMAIN ups : ups[d].inStack /\ Top.b[ups[d].reg] = 0}}
           fresh == SetToSortSeq(missing, <)
           Boxed(i) == IF i \in missing THEN Len(boxes) + (CHOOSE k \in DOMAIN fresh : fresh[k] = i) ELSE Top.b[i]
           ids == [d \in DOMAIN ups |-> IF ups[d].inStack THEN Boxed(ups[d].reg) ELSE UpBox(d)]
           filled == boxes \o [k \in DOMAIN fresh |-> Top.r[fresh[k]]]
           cl == Closure(Len(closures) + 1)
       IN  IF missing # {} /\ ~unit.protos[Top.id].boxes THEN Throw
           ELSE /\ closures' = Append(closures, [id |-> I.x.id, ups |-> ids])
                /\ frames' = [Next1 EXCEPT ![Depth].r[I.a] = cl,
                                           ![Depth].b = [i \in DOMAIN @ |-> Boxed(i)]]
                /\ boxes' = IF Boxed(I.a) = 0 THEN filled ELSE [filled EXCEPT ![Boxed(I.a)] = cl]
                /\ UNCHANGED <<tables, globals, Run>>

(***************************************************************************)
(* Tables.  A table made by the init function is constant afterwards.      *)
(***************************************************************************)
CanSet(t, k) == t.t = "table" /\ k # Nil /\ (tables[t.v].const => stage = "init")

GetTable ==
    /\ At("GETTABLE")
    /\ LET t == VmSlot(I.b)
           k == VmSlot(I.c)
       IN  IF t.t # "table" \/ k = Nil THEN Throw
           ELSE VmWrite(I.a, TableGet(tables[t.v], k)) /\ UNCHANGED <<Heap, Run>>

SetTable ==
    /\ At("SETTABLE")
    /\ LET t == VmSlot(I.a)
           k == VmSlot(I.b)
       IN  IF ~CanSet(t, k) THEN Throw
           ELSE /\ tables' = [tables EXCEPT ![t.v] = TableSet(@, k, VmSlot(I.c))]
                /\ frames' = Next1
                /\ UNCHANGED <<boxes, closures, globals, Run>>

NewTable ==
    /\ At("NEWTABLE")
    /\ tables' = Append(tables, [e |-> <<>>, const |-> stage = "init"])
    /\ VmWrite(I.a, Table(Len(tables) + 1))
    /\ UNCHANGED <<closures, globals, Run>>

SetList ==
    /\ At("SETLIST")
    /\ LET t == VmSlot(I.a)
           vals == Expand(VmSlot(I.c))
           Put(acc, i) == TableSet(acc, Number(I.x + i - 1), vals[i])
       IN  IF vals # <<>> /\ ~CanSet(t, Number(I.x)) THEN Throw
           ELSE /\ tables' = [tables EXCEPT ![t.v] = FoldLeftDomain(Put, @, vals)]
                /\ frames' = Next1
                /\ UNCHANGED <<boxes, closures, globals, Run>>

TabCount ==
    /\ At("TABCOUNT")
    /\ LET t == VmSlot(I.b)
       IN  IF t.t # "table" THEN Throw
           ELSE VmWrite(I.a, Number(Len(tables[t.v].e))) /\ UNCHANGED <<Heap, Run>>

TabEnt ==
    /\ At("TABENT")
    /\ LET t == VmSlot(I.a)
           i == VmSlot(I.x).v + 1
           entry == IF t.t = "table" /\ i \in DOMAIN tables[t.v].e THEN tables[t.v].e[i] ELSE <<Nil, Nil>>
           atK == BoxWrite(Top, I.b, entry[1])
       IN  /\ frames' = [Next1 EXCEPT ![Depth].r = [@ EXCEPT ![I.b] = entry[1], ![I.c] = entry[2]]]
           /\ boxes' = IF Top.b[I.c] # 0 THEN [atK EXCEPT ![Top.b[I.c]] = entry[2]] ELSE atK
           /\ UNCHANGED <<Heap, Run>>

(***************************************************************************)
(* Operators and jumps.                                                    *)
(***************************************************************************)
WriteOrThrow(v) == IF v = Failed THEN Throw ELSE VmWrite(I.a, v) /\ UNCHANGED <<Heap, Run>>

BinaryOps == {"ADD", "SUB", "MUL", "DIV", "POW", "IDIV", "MOD", "EQ", "LT", "LE"} \cup BitOps

Binary == \E op \in BinaryOps : At(op) /\ WriteOrThrow(Binop(op, VmSlot(I.b), VmSlot(I.c)))
Unary == \E op \in {"NOT", "UNM", "BNOT"} : At(op) /\ WriteOrThrow(Unop(op, VmSlot(I.b)))

Length ==
    /\ At("LEN")
    /\ LET t == VmSlot(I.b) IN WriteOrThrow(IF t.t = "table" THEN Number(TableLen(tables[t.v])) ELSE Failed)

Goto(pc) == frames' = [frames EXCEPT ![Depth].pc = pc] /\ UNCHANGED <<boxes, Heap, Run>>
TestJmp == At("TESTJMP") /\ Goto(IF IsTrue(VmSlot(I.a)) = (I.b # 0) THEN I.x ELSE Top.pc + 1)
Jmp == At("JMP") /\ Goto(I.x)

\* The loop variable is register a + 3, and it leaves its box behind.
Boxless(f, i, pc, writes) == [f EXCEPT !.pc = pc, !.r = writes, !.b[i] = 0]

\* Registers a to a + 2 hold vals, and so do the boxes attached to them.
BoxesWith(vals) ==
    [n \in DOMAIN boxes |-> IF \E j \in DOMAIN vals : Top.b[I.a + j - 1] = n
                           THEN vals[CHOOSE j \in DOMAIN vals : Top.b[I.a + j - 1] = n] ELSE boxes[n]]
RegsWith(vals, var) ==
    [i \in DOMAIN Top.r |-> IF i \in I.a..(I.a + Len(vals) - 1) THEN vals[i - I.a + 1]
                           ELSE IF i = I.a + 3 THEN var ELSE Top.r[i]]

ForPrep ==
    /\ At("FORPREP")
    /\ LET init == VmSlot(I.a)
           limit == VmSlot(I.a + 1)
           step == VmSlot(I.a + 2)
           ints == init.t = "int" /\ step.t = "int"
           lim == ForLimitToInt(limit, step.v)
           F(x) == Float(ToDouble(x))
           skips == IF ints THEN lim.skip \/ ForSkips(init.v, lim.v, step.v)
                    ELSE ForSkips(ToDouble(init), ToDouble(limit), ToDouble(step))
           vals == IF ints THEN <<init, Number(Wrap(ForCount(init.v, lim.v, step.v))), step>> ELSE <<F(init), F(limit), F(step)>>
       IN  IF ~CheckNum(init) \/ ~CheckNum(limit) \/ ~CheckNum(step) \/ step.v = 0 THEN Throw
           ELSE /\ frames' = [frames EXCEPT ![Depth] =
                                IF skips THEN Boxless(@, I.a + 3, I.x, RegsWith(<<>>, vals[1]))
                                ELSE Boxless(@, I.a + 3, @.pc + 1, RegsWith(vals, vals[1]))]
                /\ boxes' = IF skips THEN boxes ELSE BoxesWith(vals)
                /\ UNCHANGED <<Heap, Run>>

ForLoop ==
    /\ At("FORLOOP")
    /\ LET step == VmSlot(I.a + 2)
           limit == VmSlot(I.a + 1)
           count == Unsigned(limit.v)
       IN  \E index \in {Binop("ADD", VmSlot(I.a), step)} :
           LET vals == IF step.t = "int" THEN <<index, Number(Wrap(count - 1))>> ELSE <<index>>
           IN  IF step.t = "int" /\ count = 0 THEN Goto(Top.pc + 1)
               ELSE /\ frames' = [frames EXCEPT ![Depth] =
                                    IF step.t = "int" \/ ~ForSkips(index.v, limit.v, step.v)
                                    THEN Boxless(@, I.a + 3, I.x, RegsWith(vals, index))
                                    ELSE [@ EXCEPT !.pc = @ + 1, !.r[I.a] = index]]
                    /\ boxes' = BoxesWith(vals)
                    /\ UNCHANGED <<Heap, Run>>

(***************************************************************************)
(* Calls and several values.  DispatchCallClosure pads and cuts the        *)
(* arguments; CallByNameImpl does so only when the last one is a Multi.    *)
(***************************************************************************)
FirstOf(vals) == [i \in DOMAIN vals |-> UnboxMulti(vals[i], 0)]
Flatten(vals) == IF vals = <<>> THEN <<>> ELSE FirstOf(Front(vals)) \o Expand(Last(vals))

Fit(p, args) ==
    IF ~p.vararg THEN args
    ELSE LET fixed == p.params - 1
         IN  [i \in 1..fixed |-> IF i <= Len(args) THEN args[i] ELSE Nil]
                 \o <<Multi(SubSeq(args, fixed + 1, Len(args)))>>

Push(id, args, cl) ==
    /\ frames' = Append(Next1, NewFrame(id, Fit(unit.protos[id], args), cl, I.a, I.c # 0))
    /\ UNCHANGED <<boxes, Heap, Run>>

Call ==
    /\ At("CALL")
    /\ LET fn == VmSlot(I.a)
           args == Flatten(Regs(I.a + 1, I.b))
       IN  IF fn.t # "closure" THEN Throw ELSE Push(closures[fn.v].id, args, fn.v)

CallName ==
    /\ At("CALLNAME")
    /\ LET raw == Regs(I.a, I.b)
           args == Flatten(raw)
           p == unit.protos[unit.named[I.x]]
           lastIsMulti == raw # <<>> /\ Last(raw).t = "multi"
       IN  IF I.x \notin DOMAIN unit.named THEN Throw
           ELSE IF ~p.vararg /\ ~lastIsMulti /\ Len(args) # p.params THEN Throw
           ELSE Push(unit.named[I.x], args, 0)

\* The result goes to the caller; the init function is followed by main, and main ends the run.
Return ==
    /\ At("RETURN")
    /\ LET ret == IF I.b = 0 THEN VmSlot(I.a) ELSE UnboxMulti(VmSlot(I.a), 0)
           val == IF Top.first THEN UnboxMulti(ret, 0) ELSE ret
           caller == frames[Depth - 1]
       IN  \/ /\ Depth > 1
              /\ frames' = [Front(frames) EXCEPT ![Depth - 1].r[Top.dest] = val]
              /\ boxes' = BoxWrite(caller, Top.dest, val)
              /\ UNCHANGED <<Heap, Run>>
           \/ /\ Depth = 1 /\ stage = "init"
              /\ stage' = "main"
              /\ frames' = <<NewFrame(unit.named["main"], <<>>, 0, 0, FALSE)>>
              /\ UNCHANGED <<boxes, Heap, file, unit, result>>
           \/ /\ Depth = 1 /\ stage = "main"
              /\ stage' = "done"
              /\ result' = Returned(ret)
              /\ frames' = <<>>
              /\ UNCHANGED <<boxes, Heap, file, unit>>

Unbox == At("UNBOX") /\ VmWrite(I.a, UnboxMulti(VmSlot(I.b), I.c)) /\ UNCHANGED <<Heap, Run>>
MakeMulti == At("MAKEMULTI") /\ VmWrite(I.a, Multi(FirstOf(Regs(I.a, I.b)))) /\ UNCHANGED <<Heap, Run>>
Combine == At("COMBINE") /\ VmWrite(I.a, Multi(Flatten(Regs(I.a, I.b + 1)))) /\ UNCHANGED <<Heap, Run>>

(***************************************************************************)
(* Specification.                                                          *)
(***************************************************************************)
Halted == stage = "done" /\ UNCHANGED vars

Init ==
    /\ file \in Programs
    /\ stage = "source"
    /\ unit = [ok |-> FALSE, protos |-> <<>>, named |-> <<>>, globals |-> <<>>]
    /\ frames = <<>> /\ boxes = <<>> /\ tables = <<>> /\ closures = <<>> /\ globals = <<>>
    /\ result = NoResult

\* CompileFile with the interpreter as its engine, and the call of the function of the file's initializers.
Load ==
    /\ stage = "source"
    /\ unit' = Generate(file)
    /\ globals' = unit'.globals
    /\ IF unit'.ok
       THEN /\ stage' = "init"
            /\ frames' = <<FrameOf(unit'.protos, unit'.named[InitFunction], <<>>, 0, 0, FALSE)>>
            /\ UNCHANGED result
       ELSE /\ stage' = "done"
            /\ result' = Rejected
            /\ UNCHANGED frames
    /\ UNCHANGED <<file, boxes, tables, closures>>

\* One instruction.
Step ==
    \/ Move \/ LoadK \/ LoadNil \/ LoadBool \/ GetGlobal \/ SetGlobal \/ GetUpval \/ SetUpval \/ NewBox
    \/ MakeClosure \/ GetTable \/ SetTable \/ NewTable \/ SetList \/ TabCount \/ TabEnt
    \/ Binary \/ Unary \/ Length \/ TestJmp \/ Jmp \/ ForPrep \/ ForLoop
    \/ Call \/ CallName \/ Return \/ Unbox \/ MakeMulti \/ Combine

Next == Load \/ Step \/ Halted

Spec == Init /\ [][Next]_vars /\ WF_vars(Step)

(***************************************************************************)
(* Properties.                                                             *)
(***************************************************************************)

\* The program ends: the trip count of a numeric for is computed before the loop, so a loop up to the
\* largest integer ends too.
Terminates == stage = "init" ~> stage = "done"
=============================================================================
