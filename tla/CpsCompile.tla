----------------------------- MODULE CpsCompile -----------------------------
(***************************************************************************)
(* From expressions to terms (cps/compile.rs). An expression is compiled at a   *)
(* place p, from which the names that it needs are made, and with a             *)
(* meta-continuation: what to build around the local that holds the compiled     *)
(* expression. All of them apply that local to a continuation, some under more  *)
(* bindings.                                                                *)
(***************************************************************************)
EXTENDS CpsTerms

CONSTANTS
    True, False, Undefined,  \* constants with a meaning of their own
    PrimOpOf,                \* the immutable globals that are primitive operators: name, required, variadic
    KnownOf                  \* the immutable globals that are known functions: their arguments and results

Sub(p, i) == p \o <<i>>

MetaCont(binds, k) == [binds |-> binds, k |-> k]
ApplyTo(k) == MetaCont(<<>>, k)
MetaApply(meta, val) ==
    LET app == App(Local(val), <<Local(meta.k)>>)
    IN IF meta.binds = <<>> THEN app ELSE Fix(meta.binds, app)

Continuation(val, args, body) == Lambda(val, <<>>, args, FALSE, body)

\* The closure of one argument, its continuation, that most expressions become.
Suspended(p, body, meta) ==
    Fix(<<Continuation(Gensym(p, 1), <<Gensym(p, 2)>>, body)>>, MetaApply(meta, Gensym(p, 1)))

\* Constants, variables and the empty sequence pass what they are to the continuation.
Returned(p, vals, meta) == Suspended(p, App(Local(Gensym(p, 2)), vals), meta)

-----------------------------------------------------------------------------
IsPrimOp(e, n) ==
    /\ e.exp = "var" /\ e.var.kind = "global" /\ e.var.name \in DOMAIN PrimOpOf
    /\ LET info == PrimOpOf[e.var.name]
       IN IF info.variadic THEN n >= info.required ELSE n = info.required

IsKnown(e, n) ==
    /\ e.exp = "var" /\ e.var.kind = "global" /\ e.var.name \in DOMAIN KnownOf
    /\ KnownOf[e.var.name].args = n

\* The letrec bindings that become a Fix; the others are assigned to cells.
IsUnassignedLambda(binding, mutable) == binding[2].exp = "lambda" /\ binding[1] \notin mutable

RECURSIVE Compile(_, _, _, _), CompileSeq(_, _, _, _), CompileLet(_, _, _, _, _), CompileComplex(_, _, _, _, _),
          CompileArgs(_, _, _, _, _), CompilePrimOp(_, _, _, _, _, _), CompileTest(_, _, _, _, _),
          CompileRules(_, _, _, _, _)

\* The value of e is bound to arg, then body goes on.
BoundTo(e, p, k, arg, body, mut) ==
    Fix(<<Continuation(k, <<arg>>, body)>>, Compile(e, Sub(p, 1), ApplyTo(k), mut))

\* A procedure with arguments and a body; its own continuation is Gensym(p, 3).
Procedure(val, e, p, mut) ==
    Lambda(val, <<Gensym(p, 3)>>, e.args, e.variadic, Compile(e.body, Sub(p, 1), ApplyTo(Gensym(p, 3)), mut))

CompileLambda(e, p, meta, mut) ==
    Suspended(p, Fix(<<Procedure(Gensym(p, 4), e, p, mut)>>,
                     App(Local(Gensym(p, 2)), <<Local(Gensym(p, 4))>>)), meta)

\* Mutant of CompileLet: the initial value is bound as it is, a variable is not read.
CompileLet_NoRead(binds, body, p, meta, mut) ==
    IF binds = <<>> THEN Compile(body, p, meta, mut)
    ELSE LET k2 == Gensym(p, 2)
             k3 == Gensym(p, 3)
         IN Suspended(p, BoundTo(Head(binds)[2], p, k3, Head(binds)[1],
               CompileLet(Tail(binds), body, Sub(p, 2), ApplyTo(k2), mut), mut), meta)

\* The variable is bound to a copy of the initial value.
CompileLet(binds, body, p, meta, mut) ==
    IF binds = <<>> THEN Compile(body, p, meta, mut)
    ELSE LET k2 == Gensym(p, 2)
             k3 == Gensym(p, 3)
             raw == Gensym(p, 4)
         IN Suspended(p, BoundTo(Head(binds)[2], p, k3, raw,
               PrimOp("Read", <<Local(raw)>>, Head(binds)[1],
                  CompileLet(Tail(binds), body, Sub(p, 2), ApplyTo(k2), mut)), mut), meta)

\* letrec: lambdas that are never assigned form a Fix, the rest is assigned to cells in order.
CompileLetRec(e, p, meta, mut) ==
    LET lambdas == SelectSeq(e.binds, LAMBDA b : IsUnassignedLambda(b, mut))
        complex == SelectSeq(e.binds, LAMBDA b : ~IsUnassignedLambda(b, mut))
        fix == Fix([i \in DOMAIN lambdas |-> Procedure(lambdas[i][1], lambdas[i][2], Sub(p, 10 + i), mut)],
                   CompileComplex(complex, e.body, Sub(p, 2), meta, mut))
    IN FoldLeft(LAMBDA inner, b : PrimOp("AllocCell", <<>>, b[1], inner), fix, Reverse(complex))

CompileComplex(binds, body, p, meta, mut) ==
    IF binds = <<>> THEN Compile(body, p, meta, mut)
    ELSE LET result == Gensym(p, 4)
         IN Suspended(p, BoundTo(Head(binds)[2], p, Gensym(p, 3), result,
               PrimOp("Set", <<Local(Head(binds)[1]), Local(result)>>, Gensym(p, 5),
                  CompileComplex(Tail(binds), body, Sub(p, 2), ApplyTo(Gensym(p, 2)), mut)), mut), meta)

CompileSet(e, p, meta, mut) ==
    Suspended(p, BoundTo(e.val, p, Gensym(p, 3), Gensym(p, 4),
       PrimOp("Set", <<e.var, Local(Gensym(p, 4))>>, Gensym(p, 5), App(Local(Gensym(p, 2)), <<>>)), mut), meta)

\* A sequence ignores whatever values all but its last expression return.
CompileSeq(exprs, p, meta, mut) ==
    CASE exprs = <<>> -> Returned(p, <<>>, meta)
      [] Len(exprs) = 1 -> Compile(Head(exprs), Sub(p, 1), meta, mut)
      [] OTHER -> Fix(<<Lambda(Gensym(p, 2), <<>>, <<Gensym(p, 1)>>, TRUE,
                               CompileSeq(Tail(exprs), Sub(p, 2), meta, mut))>>,
                      Compile(Head(exprs), Sub(p, 1), ApplyTo(Gensym(p, 2)), mut))

CompileApply(e, p, meta, mut) ==
    LET n == Len(e.args)
        k2 == Local(Gensym(p, 2))
        k3 == Gensym(p, 3)
        k4 == Gensym(p, 4)
        rest == Continuation(k4, <<k3>>, CompileArgs(Local(k3), <<k2>>, e.args, Sub(p, 2), mut))
    IN Suspended(p,
          CASE IsPrimOp(e.op, n) -> CompilePrimOp(k2, PrimOpOf[e.op.var.name].op, <<>>, e.args, Sub(p, 2), mut)
            [] IsKnown(e.op, n) ->
                  CompilePrimOp(k2, IF KnownOf[e.op.var.name].returns THEN "CallKnown1" ELSE "CallKnown0",
                                <<Const(e.op.var.name)>>, e.args, Sub(p, 2), mut)
            [] OTHER -> Compile(e.op, Sub(p, 1), MetaCont(<<rest>>, k4), mut),
          meta)

\* The arguments from left to right, each bound to a name.
CompileArgs(op, collected, args, p, mut) ==
    IF args = <<>> THEN App(op, collected)
    ELSE LET k2 == Gensym(p, 2)
         IN BoundTo(Head(args), p, Gensym(p, 1), k2,
               CompileArgs(op, Append(collected, Local(k2)), Tail(args), Sub(p, 2), mut), mut)

CompilePrimOp(cont, op, collected, args, p, mut) ==
    IF args = <<>> THEN PrimOp(op, collected, Gensym(p, 1), App(cont, <<Local(Gensym(p, 1))>>))
    ELSE LET k2 == Gensym(p, 2)
         IN BoundTo(Head(args), p, Gensym(p, 1), k2,
               CompilePrimOp(cont, op, Append(collected, Local(k2)), Tail(args), Sub(p, 2), mut), mut)

\* A branch returns to k.
Branch(e, p, k, mut) == Compile(e, p, ApplyTo(k), mut)

CompileIf(e, p, meta, mut) ==
    LET k == Gensym(p, 2)
        arg == Gensym(p, 4)
        test == If(Local(arg), Branch(e.success, Sub(p, 2), k, mut),
                   IF e.failure = <<>> THEN App(Local(k), <<>>) ELSE Branch(e.failure[1], Sub(p, 3), k, mut))
    IN Suspended(p, Compile(e.cond, Sub(p, 1),
          MetaCont(<<Continuation(Gensym(p, 3), <<arg>>, test)>>, Gensym(p, 3)), mut), meta)

\* and, or: all but the last expression are tested.
CompileTest(isAnd, exprs, p, meta, mut) ==
    LET k == Gensym(p, 2)
        arg == Gensym(p, 4)
        next == CompileTest(isAnd, Tail(exprs), Sub(p, 2), ApplyTo(k), mut)
        test == IF isAnd THEN If(Local(arg), next, App(Local(k), <<Const(False)>>))
                         ELSE If(Local(arg), App(Local(k), <<Local(arg)>>), next)
    IN CASE exprs = <<>> -> Returned(p, <<Const(IF isAnd THEN True ELSE False)>>, meta)
         [] Len(exprs) = 1 -> Suspended(p, Branch(Head(exprs), Sub(p, 1), k, mut), meta)
         [] OTHER -> Suspended(p, Compile(Head(exprs), Sub(p, 1),
               MetaCont(<<Continuation(Gensym(p, 3), <<arg>>, test)>>, Gensym(p, 3)), mut), meta)

\* syntax: the template is expanded with the bindings that its variables came from.
CompileSyntaxQuote(e, p, meta) ==
    Suspended(p, PrimOp("ExpandTemplate", <<Const(e.template)>> \o [i \in DOMAIN e.expansions |-> Local(e.expansions[i])],
                        Gensym(p, 3), App(Local(Gensym(p, 2)), <<Local(Gensym(p, 3))>>)), meta)

CompileSyntaxCase(e, p, meta, mut) ==
    LET arg == Gensym(p, 4)
    IN Suspended(p, Compile(e.arg, Sub(p, 1),
          MetaCont(<<Continuation(Gensym(p, 3), <<arg>>,
                        CompileRules(e.rules, arg, Sub(p, 2), ApplyTo(Gensym(p, 2)), mut))>>,
                   Gensym(p, 3)), mut), meta)

\* The rules in order: a pattern binds its variables, a fender may still refuse it.
CompileRules(rules, arg, p, meta, mut) ==
    LET k2 == Gensym(p, 2)
        k3 == Gensym(p, 3)
        rule == Head(rules)
        matched == IF rule.fender = <<>> THEN rule.binds ELSE Gensym(p, 4)
        inner == If(Local(matched), Branch(rule.output, Sub(p, 1), k2, mut),
                    CompileRules(Tail(rules), arg, Sub(p, 2), ApplyTo(k2), mut))
        fended == Fix(<<Continuation(k3, <<matched>>, inner)>>,
                      If(Local(rule.binds), Branch(rule.fender[1], Sub(p, 3), k3, mut),
                         App(Local(k3), <<Const(False)>>)))
    IN Suspended(p,
          IF rules = <<>>
          THEN PrimOp("ErrorNoPatternsMatch", <<>>, Gensym(p, 3), App(Local(k2), <<>>))
          ELSE PrimOp("Matches", <<Const(rule.pattern), Local(arg)>>, rule.binds,
                      IF rule.fender = <<>> THEN inner ELSE fended),
          meta)

Compile(e, p, meta, mut) ==
    CASE e.exp = "lit" -> Returned(p, <<Const(e.val)>>, meta)
      [] e.exp = "undefined" -> Returned(p, <<Const(Undefined)>>, meta)
      [] e.exp = "var" -> Returned(p, <<e.var>>, meta)
      [] e.exp = "apply" -> CompileApply(e, p, meta, mut)
      [] e.exp = "let" -> CompileLet(e.binds, e.body, p, meta, mut)
      [] e.exp = "letrec" -> CompileLetRec(e, p, meta, mut)
      [] e.exp = "if" -> CompileIf(e, p, meta, mut)
      [] e.exp \in {"and", "or"} -> CompileTest(e.exp = "and", e.args, p, meta, mut)
      [] e.exp = "lambda" -> CompileLambda(e, p, meta, mut)
      [] e.exp = "set" -> CompileSet(e, p, meta, mut)
      [] e.exp = "begin" -> CompileSeq(e.exprs, p, meta, mut)
      [] e.exp = "syntax" -> CompileSyntaxQuote(e, p, meta)
      [] e.exp = "syntax-case" -> CompileSyntaxCase(e, p, meta, mut)

\* The whole program returns to a continuation that halts with the list of values.
CompileProgram(e, mut) ==
    LET k == Gensym(<<0>>, 1)
        result == Gensym(<<0>>, 2)
    IN Fix(<<Lambda(k, <<>>, <<result>>, TRUE, Halt(Local(result)))>>, Compile(e, <<0, 1>>, ApplyTo(k), mut))

-----------------------------------------------------------------------------
\* The name now stands for a cell, which begins with the argument under a new name.
ValToCell(name, body) ==
    PrimOp("AllocCell", <<>>, name,
       PrimOp("Set", <<Local(name), Local(Gensym(name, 1))>>, Gensym(name, 2), body))

\* vals_to_cells: arguments and let variables that the program assigns.
RECURSIVE ValsToCells(_, _)
ValsToCells(t, mut) ==
    LET Raw(name) == IF name \in mut THEN Gensym(name, 1) ELSE name
        Boxed(b) ==
            [b EXCEPT !.args = [i \in DOMAIN b.args |-> Raw(b.args[i])],
                      !.body = FoldLeft(LAMBDA body, a : IF a \in mut THEN ValToCell(a, body) ELSE body,
                                        ValsToCells(b.body, mut), b.args)]
    IN CASE t.inst = "primop" /\ t.op = "Read" ->
               LET body == ValsToCells(t.body, mut)
               IN PrimOp("Read", t.args, Raw(t.res), IF t.res \in mut THEN ValToCell(t.res, body) ELSE body)
         [] t.inst = "primop" -> [t EXCEPT !.body = ValsToCells(@, mut)]
         [] t.inst = "if" -> If(t.cond, ValsToCells(t.success, mut), ValsToCells(t.failure, mut))
         [] t.inst = "fix" -> Fix([i \in DOMAIN t.bindings |-> Boxed(t.bindings[i])], ValsToCells(t.body, mut))
         [] OTHER -> t
=============================================================================
