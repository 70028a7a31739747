---------------------------- MODULE Preprocessor ----------------------------
(***************************************************************************)
(* compile/preprocessor.cpp and the scope resolution of interp/codegen.cpp: *)
(* from the syntax tree of a file to a tree in which every name is bound.   *)
(*                                                                         *)
(* Expressions are tuples <<"nil">>, <<"true">>, <<"false">>, <<"num", n>>, *)
(* <<"flt", q>> (in units of 1/Grain), <<"str", n>>, <<"vararg">>, <<"var", x>>, <<"index", o, k>>,             *)
(* <<"call", f, args>>, <<"method", o, m, args>>, <<"func", params, body>>, *)
(* <<"and" or "or", a, b>>, <<"bin", op, a, b>>, <<"un", op, a>>,           *)
(* <<"paren", e>> and <<"table", fields>> with fields <<"item", e>> and     *)
(* <<"pair", k, e>>.  The last parameter of a vararg function is "...".     *)
(* Statements: <<"local", names, exps>>, <<"assign", vars, exps>>,          *)
(* <<"callst", call>>, <<"block", b>>, <<"while", c, b>>,                   *)
(* <<"repeat", b, c>>, <<"if", conds, blocks, else>>,                       *)
(* <<"for", x, from, to, step, b>>, <<"forin", names, exps, b>>,            *)
(* <<"localfn", name, func>>, <<"return", exps>>, <<"break">>,              *)
(* <<"continue">>, <<"goto", l>>, <<"label", l>>.  A file is a sequence of  *)
(* "local", "localfn" and <<"function", name, func>>.  <<"error">> stands   *)
(* for a statement that the preprocessor rejects.                           *)
(***************************************************************************)
EXTENDS Naming, Integers, Sequences, SequencesExt

InitFunction == "__fakelua_init"

\* Op for 1, ..., n in turn, from start on: a fold that is evaluated from the left.
InTurn(Op(_, _), start, n) ==
    LET after[i \in 0..n] == IF i = 0 THEN start ELSE CHOOSE v \in {Op(x, i) : x \in {after[i - 1]}} : TRUE
    IN  after[n]

IsFunctionCallExp(e) == e[1] \in {"call", "method"}
IsVarargExp(e) == e[1] = "vararg" \/ (e[1] = "var" /\ e[2] = "...")

(***************************************************************************)
(* The file: function values become functions, and initializers that are   *)
(* not literals become assignments of an init function.                    *)
(***************************************************************************)
PreprocessFunctiondefLocalVars(stmt) ==
    IF stmt[1] = "local" /\ Len(stmt[2]) = 1 /\ Len(stmt[3]) = 1 /\ stmt[3][1][1] = "func"
    THEN <<"localfn", stmt[2][1], stmt[3][1]>> ELSE stmt

IsComplexExp(e) == e[1] \in {"table", "bin", "and", "or", "un", "var", "index", "call", "method"}

HasComplex(exps) == \E i \in DOMAIN exps : IsComplexExp(exps[i])

\* What a file-level "local" leaves behind, and what moves to the init function.
WithoutComplex(stmt) ==
    IF stmt[1] # "local" \/ ~HasComplex(stmt[3]) THEN stmt
    ELSE <<"local", stmt[2],
           [i \in DOMAIN stmt[2] |-> IF Len(stmt[3]) # Len(stmt[2]) \/ IsComplexExp(stmt[3][i])
                                     THEN <<"nil">> ELSE stmt[3][i]]>>

InitAssigns(stmt) ==
    LET names == stmt[2]
        exps == stmt[3]
        Assign(i) == <<"assign", <<<<"var", names[i]>>>>, <<exps[i]>>>>
    IN  IF stmt[1] # "local" \/ ~HasComplex(exps) THEN <<>>
        ELSE IF Len(names) # Len(exps)
             THEN <<<<"assign", [i \in DOMAIN names |-> <<"var", names[i]>>], exps>>>>
             ELSE FoldLeftDomain(LAMBDA acc, i : IF IsComplexExp(exps[i]) THEN Append(acc, Assign(i)) ELSE acc,
                                 <<>>, exps)

PreprocessGlobalInitializers(chunk) ==
    [i \in DOMAIN chunk |-> WithoutComplex(chunk[i])]
        \o <<<<"function", InitFunction, <<"func", <<>>, FlattenSeq([i \in DOMAIN chunk |-> InitAssigns(chunk[i])])>>>>>>

PreprocessChunk(chunk) ==
    PreprocessGlobalInitializers([i \in DOMAIN chunk |-> PreprocessFunctiondefLocalVars(chunk[i])])

(***************************************************************************)
(* One block: multiple assignments are split after the tables and keys of  *)
(* their left sides are captured; an assignment to a table is "settab".    *)
(***************************************************************************)
TmpName == <<"__fakelua_tmp_1", "__fakelua_tmp_2", "__fakelua_tmp_3">>
BaseName == <<"__fakelua_lhs_base_1", "__fakelua_lhs_base_2", "__fakelua_lhs_base_3">>
KeyName == <<"__fakelua_lhs_key_1", "__fakelua_lhs_key_2", "__fakelua_lhs_key_3">>

CaptureLhs(v, i) ==
    IF v[1] # "index" THEN <<>>
    ELSE <<<<"local", <<BaseName[i]>>, <<v[2]>>>>, <<"local", <<KeyName[i]>>, <<v[3]>>>>>>

CapturedLhs(v, i) == IF v[1] # "index" THEN v ELSE <<"index", <<"var", BaseName[i]>>, <<"var", KeyName[i]>>>>

\* Mutant: the parts of a multiple assignment are stored one after the other.
SplitAssignInPlace(stmt) ==
    IF stmt[1] # "assign" \/ Len(stmt[2]) # Len(stmt[3]) THEN <<stmt>>
    ELSE [i \in DOMAIN stmt[2] |-> <<"assign", <<stmt[2][i]>>, <<stmt[3][i]>>>>]

\* As many expressions as variables, or fewer of which the last expands.
CountsMatch(vars, exps) ==
    \/ Len(vars) = Len(exps)
    \/ Len(vars) > Len(exps) /\ exps # <<>> /\ (IsFunctionCallExp(Last(exps)) \/ IsVarargExp(Last(exps)))

PreprocessSplitAssign(stmt) ==
    IF stmt[1] # "assign" THEN <<stmt>>
    ELSE IF ~CountsMatch(stmt[2], stmt[3]) THEN <<<<"error">>>>
    ELSE IF Len(stmt[2]) = 1 THEN <<stmt>>
    ELSE LET vars == stmt[2]
             tmps == [i \in DOMAIN vars |-> TmpName[i]]
         IN  FlattenSeq([i \in DOMAIN vars |-> CaptureLhs(vars[i], i)])
                 \o <<<<"local", tmps, stmt[3]>>>>
                 \o [i \in DOMAIN vars |-> <<"assign", <<CapturedLhs(vars[i], i)>>, <<<<"var", tmps[i]>>>>>>]

PreprocessTableAssign(stmt) ==
    IF stmt[1] = "assign" /\ stmt[2][1][1] = "index"
    THEN <<"settab", stmt[2][1][2], stmt[2][1][3], stmt[3][1]>> ELSE stmt

PreprocessBlock(stmts) ==
    Given(FlattenSeq([i \in DOMAIN stmts |-> PreprocessSplitAssign(stmts[i])]), LAMBDA split :
    [i \in DOMAIN split |-> PreprocessTableAssign(split[i])])

(***************************************************************************)
(* Scopes.  A definition is the function that declares it (<<>> at file    *)
(* level), the place of its statement, its name, and whether that is a     *)
(* local function.  A function is named by its place.  PreprocessVarargs   *)
(* is the scoping of "...": a nested function without "..." of its own     *)
(* sees that of the enclosing one.                                         *)
(***************************************************************************)
VarDef(fn, at, x, lf) == [fn |-> fn, at |-> at, name |-> x, lf |-> lf]
NoDef == VarDef(<<>>, <<>>, "", FALSE)

DefineVars(env, defs) ==
    [x \in DOMAIN env \cup {defs[i].name : i \in DOMAIN defs} |->
        IF \E i \in DOMAIN defs : defs[i].name = x
        THEN defs[CHOOSE i \in DOMAIN defs : defs[i].name = x] ELSE env[x]]

\* The places of a tuple that hold expressions, and those that hold lists of them.
SubExps(n) ==
    CASE n[1] \in {"index", "and", "or", "pair"} -> {2, 3}
      [] n[1] = "bin" -> {3, 4}
      [] n[1] = "un" -> {3}
      [] n[1] \in {"call", "method", "item", "paren", "while", "callst"} -> {2}
      [] n[1] = "repeat" -> {3}
      [] n[1] = "settab" -> {2, 3, 4}
      [] n[1] = "for" -> {3, 4, 5}
      [] OTHER -> {}
SubLists(n) ==
    CASE n[1] \in {"call", "local", "forin", "assign"} -> {3}
      [] n[1] = "method" -> {4}
      [] n[1] \in {"table", "return", "if"} -> {2}
      [] OTHER -> {}

RECURSIVE ResolveExp(_, _, _, _), ResolveStmts(_, _, _, _, _)

ResolveFunc(f, env, at) ==
    LET defs == [i \in DOMAIN f[2] |-> VarDef(at, at, f[2][i], FALSE)]
        vararg == defs # <<>> /\ f[2][Len(f[2])] = "..."
    IN  <<"func", at, defs, vararg, ResolveStmts(PreprocessBlock(f[3]), 1, DefineVars(env, defs), at, at).t>>

ResolveName(x, env) == <<"var", x, IF x \in DOMAIN env THEN env[x] ELSE NoDef>>

ResolveExp(e, env, fn, at) ==
    CASE e[1] = "var" -> ResolveName(e[2], env)
      [] e[1] = "vararg" -> ResolveName("...", env)
      [] e[1] = "func" -> ResolveFunc(e, env, at)
      [] OTHER ->
           [i \in DOMAIN e |->
               IF i \in SubExps(e) THEN ResolveExp(e[i], env, fn, at \o <<i>>)
               ELSE IF i \in SubLists(e) THEN [j \in DOMAIN e[i] |-> ResolveExp(e[i][j], env, fn, at \o <<i, j>>)]
               ELSE e[i]]

ResolveBlock(b, env, fn, at) == ResolveStmts(PreprocessBlock(b), 1, env, fn, at)

ResolveStmt(s, env, fn, at) ==
    LET n == ResolveExp(s, env, fn, at)
        Defs(names) == [i \in DOMAIN names |-> VarDef(fn, at, names[i], FALSE)]
    IN  CASE s[1] = "local" -> [t |-> [n EXCEPT ![2] = Defs(s[2])], env |-> DefineVars(env, Defs(s[2]))]
          [] s[1] = "localfn" ->
               LET def == <<VarDef(fn, at, s[2], TRUE)>>
                   inner == DefineVars(env, def)
               IN  [t |-> <<"localfn", def[1], ResolveFunc(s[3], inner, at)>>, env |-> inner]
          [] s[1] = "function" -> [t |-> <<"function", s[2], ResolveFunc(s[3], env, at)>>, env |-> env]
          [] s[1] = "assign" -> [t |-> [n EXCEPT ![2] = <<ResolveExp(s[2][1], env, fn, at)>>], env |-> env]
          [] s[1] = "block" -> [t |-> <<"block", ResolveBlock(s[2], env, fn, at).t>>, env |-> env]
          [] s[1] = "while" -> [t |-> [n EXCEPT ![3] = ResolveBlock(s[3], env, fn, at).t], env |-> env]
          [] s[1] = "repeat" ->
               LET b == ResolveBlock(s[2], env, fn, at)
               IN  [t |-> <<"repeat", b.t, ResolveExp(s[3], b.env, fn, at)>>, env |-> env]
          [] s[1] = "if" ->
               [t |-> [n EXCEPT ![3] = [i \in DOMAIN s[3] |-> ResolveBlock(s[3][i], env, fn, at \o <<3, i>>).t],
                                ![4] = ResolveBlock(s[4], env, fn, at \o <<4>>).t],
                env |-> env]
          [] s[1] = "for" ->
               LET def == Defs(<<s[2]>>)
               IN  [t |-> [n EXCEPT ![2] = def[1], ![6] = ResolveBlock(s[6], DefineVars(env, def), fn, at \o <<6>>).t],
                    env |-> env]
          [] s[1] = "forin" ->
               LET defs == Defs(s[2])
               IN  [t |-> [n EXCEPT ![2] = defs, ![4] = ResolveBlock(s[4], DefineVars(env, defs), fn, at \o <<4>>).t],
                    env |-> env]
          [] OTHER -> [t |-> n, env |-> env]

ResolveStmts(ss, i, env, fn, at) ==
    IF i > Len(ss) THEN [t |-> <<>>, env |-> env]
    ELSE Given(ResolveStmt(ss[i], env, fn, at \o <<100 + i>>), LAMBDA s :
         LET rest == ResolveStmts(ss, i + 1, s.env, fn, at)
         IN  [t |-> <<s.t>> \o rest.t, env |-> rest.env])

ResolveScopes(chunk) == ResolveStmts(PreprocessChunk(chunk), 1, [x \in {} |-> NoDef], <<>>, <<>>).t

(***************************************************************************)
(* The uses of names in a resolved tree: pairs of the function that uses a *)
(* definition and the definition.                                          *)
(***************************************************************************)
SubBlocks(n) ==
    CASE n[1] = "func" -> {n[5]}
      [] n[1] \in {"block", "repeat"} -> {n[2]}
      [] n[1] = "while" -> {n[3]}
      [] n[1] = "if" -> {n[3][i] : i \in DOMAIN n[3]} \cup {n[4]}
      [] n[1] = "for" -> {n[6]}
      [] n[1] = "forin" -> {n[4]}
      [] OTHER -> {}
SubFuncs(n) == IF n[1] \in {"localfn", "function"} THEN {n[3]} ELSE {}

RECURSIVE Uses(_, _)
Uses(n, fn) ==
    LET in == IF n[1] = "func" THEN n[2] ELSE fn
        All(list) == UNION {Uses(list[j], in) : j \in DOMAIN list}
    IN  (IF n[1] = "var" /\ n[3] # NoDef THEN {<<fn, n[3]>>} ELSE {})
            \cup (IF n[1] = "assign" THEN Uses(n[2][1], in) ELSE {})
            \cup UNION {Uses(n[i], in) : i \in SubExps(n)}
            \cup UNION {All(n[i]) : i \in SubLists(n)}
            \cup UNION {All(b) : b \in SubBlocks(n)}
            \cup UNION {Uses(f, in) : f \in SubFuncs(n)}
=============================================================================
