--------------------------- MODULE InterpCodegen ---------------------------
(***************************************************************************)
(* interp/codegen.cpp: the register bytecode of a file.                    *)
(*                                                                         *)
(* The state of the generator in one function is a record: the code so     *)
(* far, stack_top_ (top), local_top_ (ltop), max_stack (max), the register *)
(* of each definition, the open loops and label scopes, the functions      *)
(* compiled so far, uses_boxes (boxes) and whether no error was thrown     *)
(* (ok).  An instruction is [op, a, b, c, x]; x is the constant, the child *)
(* function or, for a jump, its target: PatchSbx and the interpreter's     *)
(* pc += sbx make it relative and absolute again.  Instructions are        *)
(* numbered from 1, registers from 0.  A compiled expression is [s, r]:    *)
(* the state after it and the register that holds its value.               *)
(***************************************************************************)
EXTENDS Naming, VmOps, SemanticAnalysis

CONSTANT MaxRegister

Inst(op, a, b, c, x) == [op |-> op, a |-> a, b |-> b, c |-> c, x |-> x]
Larger(a, b) == IF a < b THEN b ELSE a
Ret(s, r) == [s |-> s, r |-> r]

(***************************************************************************)
(* Registers and instructions.                                             *)
(***************************************************************************)
Grown(st, top) == [st EXCEPT !.top = top, !.max = Larger(@, top)]

AllocReg(st) ==
    Computed(Larger(st.top, st.ltop), LAMBDA r :
    Ret([Grown(st, r + 1) EXCEPT !.ok = @ /\ r <= MaxRegister], r))

AllocLocal(st) ==
    LET r == Larger(st.top, st.ltop)
    IN  Ret([Grown(st, r + 1) EXCEPT !.ltop = r + 1, !.ok = @ /\ r <= MaxRegister], r)

FreeTo(st, top) == [st EXCEPT !.top = Larger(top, st.ltop)]
EnsureStack(st, n) == Grown(st, Larger(st.top, n))

Here(st) == Len(st.code) + 1
Emit(st, inst) == [st EXCEPT !.code = Append(@, inst), !.boxes = @ \/ inst.op = "NEWBOX"]
PatchSbx(st, ip, dest) == [st EXCEPT !.code[ip].x = dest]
PatchAll(st, ips, dest) ==
    [st EXCEPT !.code = [i \in DOMAIN @ |-> IF i \in ips THEN [@[i] EXCEPT !.x = dest] ELSE @[i]]]

\* dest, or a new register when there is none.
Target(st, dest) == IF dest >= 0 THEN Ret(st, dest) ELSE AllocReg(st)

LoadConstTo(st, dest, v) ==
    Emit(st, CASE v.t = "nil" -> Inst("LOADNIL", dest, 0, 0, 0)
               [] v.t = "bool" -> Inst("LOADBOOL", dest, v.v, 0, 0)
               [] OTHER -> Inst("LOADK", dest, 0, 0, v))

MoveTo(st, dest, src) == IF dest = src THEN st ELSE Emit(st, Inst("MOVE", dest, src, 0, 0))
MoveAll(st, base, srcs) == FoldLeftDomain(LAMBDA s, i : MoveTo(s, base + i - 1, srcs[i]), st, srcs)
CommitDest(c, dest) == IF dest >= 0 THEN Ret(MoveTo(c.s, dest, c.r), dest) ELSE c

(***************************************************************************)
(* Names.  captured_vars of a function: what it or a function in it uses   *)
(* of an enclosing function.                                               *)
(***************************************************************************)
CapturedVars(st, fn) ==
    {d \in {u[2] : u \in st.unit.uses} : d.fn # <<>> /\ ~IsPrefix(fn, d.fn)
         /\ \E u \in st.unit.uses : u[2] = d /\ IsPrefix(fn, u[1])}
IsCaptured(st, d) == \E u \in st.unit.uses : u[2] = d /\ d.fn # <<>> /\ u[1] # d.fn

NewBoxIf(st, d, r) == IF IsCaptured(st, d) THEN Emit(st, Inst("NEWBOX", r, 0, 0, 0)) ELSE st

ResolveSimpleName(v, st) ==
    LET d == v[3]
        new == AllocReg(st)
    IN  IF d.fn # <<>>
        THEN IF d.fn = st.fn THEN Ret(st, st.regs[d])
             ELSE Ret(Emit(new.s, Inst("GETUPVAL", new.r, 0, 0, d)), new.r)
        ELSE IF v[2] \in DOMAIN st.unit.named /\ st.unit.named[v[2]][1] <= st.unit.index
             THEN Ret(Emit(new.s, Inst("CLOSURE", new.r, 0, 0,
                                       [id |-> st.unit.named[v[2]][2], ups |-> <<>>])), new.r)
             ELSE Ret(Emit(new.s, Inst("GETGLOBAL", new.r, 0, 0, v[2])), new.r)

AssignToVar(v, src, st) ==
    LET d == v[3]
    IN  IF d.fn = <<>> THEN Emit(st, Inst("SETGLOBAL", src, 0, 0, v[2]))
        ELSE IF d.fn = st.fn THEN MoveTo(st, st.regs[d], src)
        ELSE Emit(st, Inst("SETUPVAL", src, 0, 0, d))

LocalAssignDest(v, st) == IF v[3].fn # <<>> /\ v[3].fn = st.fn THEN st.regs[v[3]] ELSE -1

(***************************************************************************)
(* Which last expression keeps all of its values: "..." and calls, except  *)
(* a call of a name whose file-level function returns one value at most.   *)
(***************************************************************************)
LastPreservesMulti(e, st) ==
    \/ IsVarargExp(e)
    \/ /\ IsFunctionCallExp(e)
       /\ ~(GetCalleeName(e) \in DOMAIN st.unit.maxReturns /\ st.unit.maxReturns[GetCalleeName(e)] = 1)

(***************************************************************************)
(* Expressions.                                                            *)
(***************************************************************************)
IsConst(e) ==
    \/ e[1] \in {"nil", "true", "false", "num", "flt", "str"}
    \/ e[1] = "un" /\ e[2] = "UNM" /\ e[3][1] \in {"num", "flt"}
ConstOf(e) ==
    CASE e[1] = "nil" -> Nil
      [] e[1] \in {"true", "false"} -> Bool(e[1] = "true")
      [] e[1] = "num" -> Number(e[2])
      [] e[1] = "str" -> Str(e[2])
      [] e[1] = "flt" -> Float(e[2])
      [] e[1] = "un" -> IF e[3][1] = "flt" THEN Float(-e[3][2]) ELSE Number(Wrap(-e[3][2]))

\* The recursion of the generator goes through CompileExp alone: the block b is the node <<"body", b>>.
RECURSIVE CompileExp(_, _, _, _), CompileFunctioncall(_, _, _), CompileStmts(_, _), LiteralFromExp(_)
CompileStmtBlock(block, st) == Computed(st, LAMBDA now : CompileExp(<<"body", block>>, FALSE, -1, now).s)

LiteralFromExp(e) ==
    IF IsConst(e) THEN ConstOf(e) ELSE IF e[1] = "paren" THEN LiteralFromExp(e[2]) ELSE Nil

\* A list of expressions, the last one with its values if keep: [s, rs].
CompileExps(es, keep, st) ==
    FoldLeftDomain(LAMBDA acc, i : LET c == CompileExp(es[i], keep /\ i = Len(es), -1, acc.s)
                                   IN  [s |-> c.s, rs |-> Append(acc.rs, c.r)],
                   [s |-> st, rs |-> <<>>], es)

CompileFunction(f, st) ==
    LET start == [st EXCEPT !.fn = f[2], !.code = <<>>, !.top = Len(f[3]), !.ltop = Len(f[3]), !.max = Len(f[3]),
                            !.regs = [d \in {f[3][i] : i \in DOMAIN f[3]} |->
                                         (CHOOSE i \in DOMAIN f[3] : f[3][i] = d) - 1],
                            !.loops = <<>>, !.labels = <<>>, !.boxes = FALSE]
        params == FoldLeftDomain(LAMBDA s, i : NewBoxIf(s, f[3][i], i - 1), start, f[3])
    IN  Computed(CompileStmtBlock(f[5], params), LAMBDA body :
        LET last == AllocReg(body)
            done == IF f[5] # <<>> /\ Last(f[5])[1] = "return" THEN body
                    ELSE Emit(Emit(last.s, Inst("LOADNIL", last.r, 0, 0, 0)), Inst("RETURN", last.r, 1, 0, 0))
            proto == [params |-> Len(f[3]), vararg |-> f[4], max |-> done.max, boxes |-> done.boxes, code |-> done.code]
        IN  [st EXCEPT !.ok = done.ok,
                       !.protos = [id \in DOMAIN done.protos \cup {f[2]} |->
                                      IF id = f[2] THEN proto ELSE done.protos[id]]])

EmitClosure(f, st) ==
    LET s == CompileFunction(f, st)
        caps == CapturedVars(st, f[2])
        InStack(d) == d.fn = st.fn
        ups == [d \in caps |-> [inStack |-> InStack(d), reg |-> IF InStack(d) THEN s.regs[d] ELSE 0]]
        new == AllocReg([s EXCEPT !.boxes = @ \/ \E d \in caps : InStack(d)])
    IN  Ret(Emit(new.s, Inst("CLOSURE", new.r, 0, 0, [id |-> f[2], ups |-> ups])), new.r)

CompileVar(v, st) ==
    IF v[1] = "var" THEN ResolveSimpleName(v, st)
    ELSE LET t == CompileExp(v[2], FALSE, -1, st)
             k == CompileExp(v[3], FALSE, -1, t.s)
             new == AllocReg(k.s)
         IN  Ret(Emit(new.s, Inst("GETTABLE", new.r, t.r, k.r, 0)), new.r)

CompileTableconstructor(e, st) ==
    LET fields == e[2]
        items == {i \in DOMAIN fields : fields[i][1] = "item"}
        tbl == AllocReg(st)
        Expands(i) == /\ i \in items /\ \A j \in items : j <= i
                      /\ LastPreservesMulti(fields[i][2], st)
        Index(i) == Len(SelectSeq(SubSeq(fields, 1, i), LAMBDA f : f[1] = "item"))
        Field(s, i) ==
            LET f == fields[i]
                val == CompileExp(Last(f), Expands(i), -1, s)
                k == IF f[1] = "pair" THEN CompileExp(f[2], FALSE, -1, val.s)
                     ELSE LET new == AllocReg(val.s) IN Ret(LoadConstTo(new.s, new.r, Number(Index(i))), new.r)
            IN  FreeTo(IF Expands(i) THEN Emit(val.s, Inst("SETLIST", tbl.r, 0, val.r, Index(i)))
                       ELSE Emit(k.s, Inst("SETTABLE", tbl.r, k.r, val.r, 0)), s.top)
    IN  Ret(FoldLeftDomain(Field, Emit(tbl.s, Inst("NEWTABLE", tbl.r, 0, 0, 0)), fields), tbl.r)

CompileLogical(e, dest, st) ==
    LET res == Target(st, dest)
        left == CompileExp(e[2], FALSE, -1, res.s)
        test == Emit(left.s, Inst("TESTJMP", left.r, IF e[1] = "and" THEN 0 ELSE 1, 0, 0))
        right == CompileExp(e[3], FALSE, -1, test)
        jmp == Emit(MoveTo(right.s, res.r, right.r), Inst("JMP", 0, 0, 0, 0))
        short == MoveTo(PatchSbx(jmp, Here(left.s), Here(jmp)), res.r, left.r)
    IN  Ret(PatchSbx(short, Len(jmp.code), Here(short)), res.r)

CompileBinop(e, dest, st) ==
    LET left == CompileExp(e[3], FALSE, -1, st)
        right == CompileExp(e[4], FALSE, -1, left.s)
        res == Target(right.s, dest)
        Op(op, b, c) == Emit(res.s, Inst(op, res.r, b, c, 0))
    IN  Ret(CASE e[2] = "GT" -> Op("LT", right.r, left.r)
              [] e[2] = "GE" -> Op("LE", right.r, left.r)
              [] e[2] = "NE" -> Emit(Op("EQ", left.r, right.r), Inst("NOT", res.r, res.r, 0, 0))
              [] OTHER -> Op(e[2], left.r, right.r), res.r)

CompileUnop(e, dest, st) ==
    LET c == CompileExp(e[3], FALSE, -1, st)
        res == Target(c.s, dest)
    IN  Ret(Emit(res.s, Inst(e[2], res.r, c.r, 0, 0)), res.r)

CompileExp(e, keep, dest, st) ==
    CASE IsConst(e) -> LET res == Target(st, dest) IN Ret(LoadConstTo(res.s, res.r, ConstOf(e)), res.r)
      [] e[1] \in {"var", "index"} ->
           LET c == CompileVar(e, st)
               res == Target(c.s, dest)
           IN  IF ~keep /\ IsVarargExp(e) THEN Ret(Emit(res.s, Inst("UNBOX", res.r, c.r, 0, 0)), res.r)
               ELSE CommitDest(c, dest)
      [] e[1] \in {"call", "method"} -> CommitDest(CompileFunctioncall(e, keep, st), dest)
      [] e[1] = "paren" -> CompileExp(e[2], keep, dest, st)
      [] e[1] = "table" -> CommitDest(CompileTableconstructor(e, st), dest)
      [] e[1] = "func" -> CommitDest(EmitClosure(e, st), dest)
      [] e[1] \in {"and", "or"} -> CompileLogical(e, dest, st)
      [] e[1] = "bin" -> CompileBinop(e, dest, st)
      [] e[1] = "un" -> CompileUnop(e, dest, st)
      [] e[1] = "body" -> Ret(CompileStmts(e[2], st), -1)

(***************************************************************************)
(* Calls.  The arguments move to the registers above the temporaries; the  *)
(* result replaces the first of them.                                      *)
(***************************************************************************)
PlaceCallname(name, args, keep, expand, st) ==
    LET n == Len(args)
        sig == st.unit.sigs[name]
        arity == expand \/ name \notin DOMAIN st.unit.sigs \/ sig.vararg \/ sig.params = n
        new == AllocReg(st)
        base == IF n = 0 THEN new.r ELSE st.top
        placed == IF n = 0 THEN new.s ELSE MoveAll(EnsureStack(st, base + n), base, args)
    IN  Ret([Emit(placed, Inst("CALLNAME", base, n, IF keep THEN 0 ELSE 1, name))
                EXCEPT !.top = base + 1, !.ok = @ /\ arity], base)

PlaceCall(fn, args, keep, st) ==
    LET n == Len(args)
        base == st.top
        placed == MoveAll(MoveTo(EnsureStack(st, base + 1 + n), base, fn), base + 1, args)
    IN  Ret([Emit(placed, Inst("CALL", base, n, IF keep THEN 0 ELSE 1, 0)) EXCEPT !.top = base + 1], base)

CompileFunctioncall(e, keep, st) ==
    LET Expand_(es) == es # <<>> /\ LastPreservesMulti(Last(es), st)
    IN  IF e[1] = "method"
        THEN LET obj == IF e[2][1] \in {"var", "index"} THEN CompileVar(e[2], st) ELSE CompileExp(e[2], FALSE, -1, st)
             IN  Computed(CompileExps(e[4], Expand_(e[4]), obj.s), LAMBDA args :
                 LET k == AllocReg(args.s)
                     fn == AllocReg(LoadConstTo(k.s, k.r, Str(e[3])))
                 IN  PlaceCall(fn.r, <<obj.r>> \o args.rs, keep, Emit(fn.s, Inst("GETTABLE", fn.r, obj.r, k.r, 0))))
        ELSE LET args == CompileExps(e[3], Expand_(e[3]), st)
                 byName == e[2][1] = "var" /\ (e[2][3] = NoDef \/ (e[2][3].fn = <<>> /\ e[2][3].lf))
                 fn == CompileExp(e[2], FALSE, -1, args.s)
             IN  IF byName THEN PlaceCallname(e[2][2], args.rs, keep, Expand_(e[3]), args.s)
                 ELSE PlaceCall(fn.r, args.rs, keep, fn.s)

(***************************************************************************)
(* Jumps out of a statement.  A loop holds its continue target (0 while    *)
(* unknown) and the jumps to patch; a label scope the labels it defines    *)
(* and the gotos that found none yet, as pairs of a label and an           *)
(* instruction.                                                            *)
(***************************************************************************)
Loop(cont) == [cont |-> cont, brk |-> {}, cnt |-> {}]
Jump(st) == Emit(st, Inst("JMP", 0, 0, 0, 0))
InnerLoop(st) == st.loops[Len(st.loops)]
PushLoop(st, cont) == [st EXCEPT !.loops = Append(@, Loop(cont))]
\* Leaves the inner loop: its continues go to cont, its breaks to the next instruction.
PopLoop(st, cont) ==
    [PatchAll(PatchAll(st, InnerLoop(st).cnt, cont), InnerLoop(st).brk, Here(st)) EXCEPT !.loops = Front(@)]
JumpBack(st, dest) == Emit(st, Inst("JMP", 0, 0, 0, dest))

CompileStmtBreak(st) ==
    IF st.loops = <<>> THEN [st EXCEPT !.ok = FALSE]
    ELSE [Jump(st) EXCEPT !.loops[Len(st.loops)].brk = @ \cup {Here(st)}]

CompileStmtContinue(st) ==
    IF st.loops = <<>> THEN [st EXCEPT !.ok = FALSE]
    ELSE IF InnerLoop(st).cont > 0 THEN JumpBack(st, InnerLoop(st).cont)
    ELSE [Jump(st) EXCEPT !.loops[Len(st.loops)].cnt = @ \cup {Here(st)}]

\* The instruction that label l stands for in the innermost of the first n scopes that define it, or 0.
LabelTarget(st, l, n) ==
    LET found == {i \in 1..n : \E p \in st.labels[i].def : p[1] = l}
    IN  IF found = {} THEN 0
        ELSE (CHOOSE p \in st.labels[CHOOSE i \in found : \A j \in found : j <= i].def : p[1] = l)[2]

CompileStmtGoto(s, st) ==
    LET target == LabelTarget(st, s[2], Len(st.labels))
    IN  IF target # 0 THEN JumpBack(st, target)
        ELSE [Jump(st) EXCEPT !.labels[Len(st.labels)].pend = @ \cup {<<s[2], Here(st)>>}]

CompileStmtLabel(s, st) ==
    LET n == Len(st.labels)
        mine == {p \in st.labels[n].pend : p[1] = s[2]}
    IN  [PatchAll(st, {p[2] : p \in mine}, Here(st))
            EXCEPT !.labels[n].def = @ \cup {<<s[2], Here(st)>>},
                   !.labels[n].pend = @ \ mine,
                   !.ok = @ /\ ~\E p \in st.labels[n].def : p[1] = s[2]]

\* The end of a block: its open gotos go to an enclosing label, or wait in the enclosing scope.
CloseLabels(st) ==
    LET n == Len(st.labels)
        pend == st.labels[n].pend
        open == {p \in pend : LabelTarget(st, p[1], n - 1) = 0}
        code == [i \in DOMAIN st.code |->
                    IF \E p \in pend \ open : p[2] = i
                    THEN [st.code[i] EXCEPT !.x = LabelTarget(st, (CHOOSE p \in pend : p[2] = i)[1], n - 1)]
                    ELSE st.code[i]]
        popped == [st EXCEPT !.code = code, !.labels = Front(@)]
    IN  IF n = 1 THEN [popped EXCEPT !.ok = @ /\ pend = {}]
        ELSE [popped EXCEPT !.labels[n - 1].pend = @ \cup open]

(***************************************************************************)
(* Statements.                                                             *)
(***************************************************************************)
CompileStmtReturn(s, st) ==
    LET es == s[2]
        new == AllocReg(st)
        one == CompileExp(es[1], TRUE, -1, st)
        multi == LastPreservesMulti(Last(es), st)
        c == CompileExps(es, multi, st)
        base == c.s.top
        placed == MoveAll(EnsureStack(c.s, base + Len(es)), base, c.rs)
        joined == Emit(placed, IF multi THEN Inst("COMBINE", base, Len(es) - 1, 0, 0)
                               ELSE Inst("MAKEMULTI", base, Len(es), 0, 0))
    IN  CASE es = <<>> -> Emit(Emit(new.s, Inst("LOADNIL", new.r, 0, 0, 0)), Inst("RETURN", new.r, 1, 0, 0))
          [] Len(es) = 1 -> Emit(one.s, Inst("RETURN", one.r, 0, 0, 0))
          [] OTHER -> Emit(joined, Inst("RETURN", base, 0, 0, 0))

Declare(st, d) == LET new == AllocLocal(st) IN [new.s EXCEPT !.regs = [x \in DOMAIN @ \cup {d} |-> IF x = d THEN new.r ELSE @[x]]]
DeclareBoxed(st, d) == LET s == Declare(st, d) IN NewBoxIf(s, d, s.regs[d])

CompileStmtLocalVar(s, st) ==
    LET defs == s[2]
        exps == s[3]
    IN  Computed(FoldLeft(DeclareBoxed, st, defs), LAMBDA declared :
        LET Reg(i) == declared.regs[defs[i]]
            multi == exps # <<>> /\ LastPreservesMulti(Last(exps), st) /\ Len(defs) > Len(exps)
            Store(acc, i) == LET c == CompileExp(exps[i], FALSE, -1, acc) IN MoveTo(c.s, Reg(i), c.r)
            call == CompileExp(Last(exps), TRUE, -1, FoldLeft(Store, declared, [i \in 1..(Len(exps) - 1) |-> i]))
            Unbox(acc, i) == LET new == AllocReg(acc)
                             IN  MoveTo(Emit(new.s, Inst("UNBOX", new.r, call.r, i - Len(exps), 0)), Reg(i), new.r)
            One(acc, i) == IF i > Len(defs) THEN CompileExp(exps[i], FALSE, -1, acc).s
                           ELSE IF i > Len(exps) THEN Emit(acc, Inst("LOADNIL", Reg(i), 0, 0, 0))
                           ELSE LET c == CompileExp(exps[i], FALSE, Reg(i), acc) IN MoveTo(c.s, Reg(i), c.r)
        IN  IF multi THEN FoldLeft(Unbox, call.s, [i \in 1..(Len(defs) - Len(exps) + 1) |-> Len(exps) + i - 1])
            ELSE FoldLeft(One, declared, [i \in 1..Larger(Len(defs), Len(exps)) |-> i]))

CompileStmtAssign(s, st) ==
    LET dest == LocalAssignDest(s[2][1], st)
        c == CompileExp(s[3][1], FALSE, dest, st)
    IN  IF dest < 0 THEN AssignToVar(s[2][1], c.r, c.s) ELSE MoveTo(c.s, dest, c.r)

CompileSetTable(s, st) ==
    LET t == CompileExp(s[2], FALSE, -1, st)
        k == CompileExp(s[3], FALSE, -1, t.s)
        v == CompileExp(s[4], FALSE, -1, k.s)
        new == AllocReg(Emit(v.s, Inst("SETTABLE", t.r, k.r, v.r, 0)))
    IN  Emit(new.s, Inst("LOADNIL", new.r, 0, 0, 0))

CompileStmtWhile(s, st) ==
    LET cond == CompileExp(s[2], FALSE, -1, st)
        test == FreeTo(Emit(cond.s, Inst("TESTJMP", cond.r, 0, 0, 0)), st.top)
        body == JumpBack(CompileStmtBlock(s[3], PushLoop(test, Here(st))), Here(st))
    IN  PopLoop(PatchSbx(body, Here(cond.s), Here(body)), Here(st))

CompileStmtRepeat(s, st) ==
    LET body == CompileStmtBlock(s[2], PushLoop(st, 0))
        cond == CompileExp(s[3], FALSE, -1, body)
        test == Emit(cond.s, Inst("TESTJMP", cond.r, 1, 0, 0))
        back == JumpBack(test, Here(st))
    IN  FreeTo(PopLoop(PatchSbx(back, Len(test.code), Here(back)), Here(body)), body.top)

CompileStmtIf(s, st) ==
    LET Branch(acc, i) ==
            LET cond == CompileExp(s[2][i], FALSE, -1, acc.s)
                test == FreeTo(Emit(cond.s, Inst("TESTJMP", cond.r, 0, 0, 0)), acc.s.top)
                body == CompileStmtBlock(s[3][i], test)
                jmp == Jump(body)
            IN  [s |-> PatchSbx(jmp, Len(test.code), Here(jmp)), ends |-> acc.ends \cup {Len(jmp.code)}]
        branches == FoldLeftDomain(Branch, [s |-> st, ends |-> {}], s[2])
        all == IF s[4] = <<>> THEN branches.s ELSE CompileStmtBlock(s[4], branches.s)
    IN  PatchAll(all, branches.ends, Here(all))

CompileStmtForLoop(s, st) ==
    LET ctrl == AllocReg(st)
        limit == AllocReg(ctrl.s)
        step == AllocReg(limit.s)
        vars == Declare(step.s, s[2])
        from == CompileExp(s[3], FALSE, ctrl.r, vars)
        to == CompileExp(s[4], FALSE, limit.r, from.s)
        by == CompileExp(s[5], FALSE, step.r, to.s)
        prep == Emit(by.s, Inst("FORPREP", ctrl.r, 0, 0, 0))
        body == CompileStmtBlock(s[6], PushLoop(NewBoxIf(prep, s[2], vars.regs[s[2]]), 0))
        loop == Emit(body, Inst("FORLOOP", ctrl.r, 0, 0, Here(prep)))
        done == PopLoop(PatchSbx(loop, Len(prep.code), Here(loop)), Here(body))
    IN  [FreeTo(done, st.top) EXCEPT !.ok = @ /\ vars.regs[s[2]] = ctrl.r + 3]

(***************************************************************************)
(* for ... in.  pairs and ipairs of one argument are expanded in place;    *)
(* anything else calls the iterator with two arguments.                    *)
(***************************************************************************)
TryMatchPairsIpairs(exps) ==
    IF /\ Len(exps) = 1 /\ exps[1][1] = "call" /\ exps[1][2][1] = "var"
       /\ exps[1][2][2] \in {"pairs", "ipairs"} /\ exps[1][2][3] = NoDef /\ Len(exps[1][3]) = 1
    THEN exps[1][2][2] ELSE "none"

BindLoopVar(st, d, src) == MoveTo(NewBoxIf(st, d, st.regs[d]), st.regs[d], src)
BindLoopVars(st, defs, k, v) ==
    LET first == BindLoopVar(st, defs[1], k) IN IF Len(defs) >= 2 THEN BindLoopVar(first, defs[2], v) ELSE first

\* Mutant: continue jumps to the head of the loop, past the increment.
CountedBodyContinueAtHead(s, st, idx, head, exits, skips) ==
    LET body == CompileStmtBlock(s[4], PushLoop(st, 0))
        one == AllocReg(body)
        back == JumpBack(Emit(LoadConstTo(one.s, one.r, Number(1)), Inst("ADD", idx, idx, one.r, 0)), head)
    IN  PopLoop(PatchAll(PatchAll(back, exits, Here(back)), skips, Here(body)), head)

\* The body, the increment of idx and the jump back to head; jumps out of the loop leave from exits.
CountedBody(s, st, idx, head, exits, skips) ==
    LET body == CompileStmtBlock(s[4], PushLoop(st, 0))
        one == AllocReg(body)
        back == JumpBack(Emit(LoadConstTo(one.s, one.r, Number(1)), Inst("ADD", idx, idx, one.r, 0)), head)
    IN  PopLoop(PatchAll(PatchAll(back, exits, Here(back)), skips, Here(body)), Here(body))

CompileIpairs(s, st) ==
    LET tbl == CompileExp(s[3][1][3][1], FALSE, -1, st)
        idx == AllocReg(tbl.s)
        init == LoadConstTo(idx.s, idx.r, Number(1))
        v == AllocReg(init)
    IN  Computed(AllocReg(Emit(v.s, Inst("GETTABLE", v.r, tbl.r, idx.r, 0))), LAMBDA nlit :
        LET vnil == AllocReg(Emit(nlit.s, Inst("LOADNIL", nlit.r, 0, 0, 0)))
            exit == Emit(Emit(vnil.s, Inst("EQ", vnil.r, v.r, nlit.r, 0)), Inst("TESTJMP", vnil.r, 1, 0, 0))
        IN  CountedBody(s, BindLoopVars(exit, s[2], idx.r, v.r), idx.r, Here(init), {Len(exit.code)}, {}))

CompilePairs(s, st) ==
    LET tbl == CompileExp(s[3][1][3][1], FALSE, -1, st)
        size == AllocReg(tbl.s)
        idx == AllocReg(Emit(size.s, Inst("TABCOUNT", size.r, tbl.r, 0, 0)))
        init == LoadConstTo(idx.s, idx.r, Number(0))
        cmp == AllocReg(init)
    IN  Computed(Emit(Emit(cmp.s, Inst("LT", cmp.r, idx.r, size.r, 0)), Inst("TESTJMP", cmp.r, 0, 0, 0)), LAMBDA exit :
        LET k == AllocReg(exit)
            v == AllocReg(k.s)
            vnil == AllocReg(Emit(v.s, Inst("TABENT", tbl.r, k.r, v.r, idx.r)))
            nlit == AllocReg(vnil.s)
            test == Emit(Emit(nlit.s, Inst("LOADNIL", nlit.r, 0, 0, 0)), Inst("EQ", vnil.r, v.r, nlit.r, 0))
            skip == Emit(test, Inst("TESTJMP", vnil.r, 1, 0, 0))
        IN  CountedBody(s, BindLoopVars(skip, s[2], k.r, v.r), idx.r, Here(init), {Len(exit.code)}, {Len(skip.code)}))

\* The iterator function, its state and its control variable in three locals from base.
CompileIterator(exps, base, st) ==
    LET Unbox(s, dest, src, i) == Emit(s, Inst("UNBOX", dest, src, i, 0))
        e1 == CompileExp(exps[1], Len(exps) = 1, -1, st)
        f == MoveTo(e1.s, base, e1.r)
        e2 == CompileExp(exps[2], Len(exps) = 2, -1, f)
        s2 == MoveTo(e2.s, base + 1, e2.r)
        e3 == CompileExp(exps[3], Len(exps) = 3, -1, s2)
    IN  CASE Len(exps) = 1 -> Unbox(Unbox(Unbox(e1.s, base, e1.r, 0), base + 1, e1.r, 1), base + 2, e1.r, 2)
          [] Len(exps) = 2 -> Unbox(Unbox(Unbox(e2.s, base, base, 0), base + 1, e2.r, 0), base + 2, e2.r, 1)
          [] OTHER -> CompileExps(SubSeq(exps, 4, Len(exps)), TRUE,
                                  Unbox(Unbox(Unbox(e3.s, base, base, 0), base + 1, base + 1, 0), base + 2, e3.r, 0)).s

CompileGenericFor(s, st) ==
    LET defs == s[2]
        f == AllocLocal(st)
        locals == AllocLocal(AllocLocal(f.s).s)
    IN  Computed(CompileIterator(s[3], f.r, locals.s), LAMBDA head :
        LET base == head.top
            call == Emit(MoveAll(EnsureStack(head, base + 3), base, <<f.r, f.r + 1, f.r + 2>>), Inst("CALL", base, 2, 0, 0))
            Bind(acc, i) == LET new == AllocReg(acc)
                            IN  BindLoopVar(Emit(new.s, Inst("UNBOX", new.r, base, i - 1, 0)), defs[i], new.r)
        IN  Computed(FoldLeftDomain(Bind, [call EXCEPT !.top = base + 1], defs), LAMBDA bound :
            LET nlit == AllocReg(bound)
                isnil == AllocReg(Emit(nlit.s, Inst("LOADNIL", nlit.r, 0, 0, 0)))
                first == bound.regs[defs[1]]
                exit == Emit(Emit(isnil.s, Inst("EQ", isnil.r, first, nlit.r, 0)), Inst("TESTJMP", isnil.r, 1, 0, 0))
                body == CompileStmtBlock(s[4], PushLoop(MoveTo(exit, f.r + 2, first), Here(head)))
                back == JumpBack(body, Here(head))
            IN  PopLoop(PatchSbx(back, Len(exit.code), Here(back)), Here(body))))

CompileStmtForIn(s, st) ==
    LET declared == FoldLeft(Declare, st, s[2])
    IN  CASE TryMatchPairsIpairs(s[3]) = "ipairs" -> CompileIpairs(s, declared)
          [] TryMatchPairsIpairs(s[3]) = "pairs" -> CompilePairs(s, declared)
          [] OTHER -> CompileGenericFor(s, declared)

CompileStmtLocalFunction(s, st) ==
    LET declared == DeclareBoxed(st, s[2])
        c == EmitClosure(s[3], declared)
    IN  MoveTo(c.s, declared.regs[s[2]], c.r)

CompileStmt(st, s) ==
    CASE s[1] = "return" -> CompileStmtReturn(s, st)
      [] s[1] = "local" -> CompileStmtLocalVar(s, st)
      [] s[1] = "assign" -> CompileStmtAssign(s, st)
      [] s[1] = "settab" -> FreeTo(CompileSetTable(s, st), st.top)
      [] s[1] = "callst" -> FreeTo(CompileFunctioncall(s[2], FALSE, st).s, st.top)
      [] s[1] = "block" -> CompileStmtBlock(s[2], st)
      [] s[1] = "while" -> CompileStmtWhile(s, st)
      [] s[1] = "repeat" -> CompileStmtRepeat(s, st)
      [] s[1] = "if" -> CompileStmtIf(s, st)
      [] s[1] = "break" -> CompileStmtBreak(st)
      [] s[1] = "continue" -> CompileStmtContinue(st)
      [] s[1] = "for" -> CompileStmtForLoop(s, st)
      [] s[1] = "forin" -> CompileStmtForIn(s, st)
      [] s[1] = "localfn" -> CompileStmtLocalFunction(s, st)
      [] s[1] = "goto" -> CompileStmtGoto(s, st)
      [] s[1] = "label" -> CompileStmtLabel(s, st)
      [] s[1] = "error" -> [st EXCEPT !.ok = FALSE]

CompileStmts(block, st) ==
    CloseLabels(FoldLeft(LAMBDA acc, s : Computed(acc, LAMBDA now : CompileStmt(now, s)), [st EXCEPT !.labels = Append(@, [def |-> {}, pend |-> {}])], block))

(***************************************************************************)
(* The file.  Every signature is known before the first function is        *)
(* compiled, but a name stands for a function value only once its function *)
(* has been reached (named_protos_).                                       *)
(***************************************************************************)
Generate(chunk) ==
    Computed(ResolveScopes(chunk), LAMBDA tree :
    LET fns == SelectSeq(tree, LAMBDA s : s[1] \in {"function", "localfn"})
        Name(i) == IF fns[i][1] = "function" THEN fns[i][2] ELSE fns[i][2].name
        names == {Name(i) : i \in DOMAIN fns}
        Nth(x) == CHOOSE i \in DOMAIN fns : Name(i) = x
        locals == SelectSeq(tree, LAMBDA s : s[1] = "local")
        vars == UNION {{<<d, j>> : j \in DOMAIN locals[d][2]} : d \in DOMAIN locals}
        VarName(v) == locals[v[1]][2][v[2]].name
        Value(v) == LET exps == locals[v[1]][3] IN IF v[2] > Len(exps) THEN Nil ELSE LiteralFromExp(exps[v[2]])
        unit == [uses |-> UNION {Uses(tree[i], <<>>) : i \in DOMAIN tree},
                 sigs |-> [x \in names |-> [params |-> Len(fns[Nth(x)][3][3]), vararg |-> fns[Nth(x)][3][4]]],
                 maxReturns |-> [x \in names |-> MaxReturns(fns[Nth(x)][3][5])],
                 named |-> [x \in names |-> <<Nth(x), fns[Nth(x)][3][2]>>],
                 index |-> 0]
        start == [fn |-> <<>>, code |-> <<>>, top |-> 0, ltop |-> 0, max |-> 0, regs |-> <<>>, loops |-> <<>>,
                  labels |-> <<>>, protos |-> <<>>, boxes |-> FALSE, ok |-> TRUE, unit |-> unit]
    IN  Computed(FoldLeftDomain(LAMBDA acc, i : Computed(acc, LAMBDA s : CompileFunction(fns[i][3], [s EXCEPT !.unit.index = i])), start, fns), LAMBDA st :
        [ok |-> Accepts(tree) /\ st.ok,
         protos |-> st.protos,
         named |-> [x \in names |-> fns[Nth(x)][3][2]],
         globals |-> [x \in {VarName(v) : v \in vars} |-> Value(CHOOSE v \in vars : VarName(v) = x)]]))
=============================================================================
