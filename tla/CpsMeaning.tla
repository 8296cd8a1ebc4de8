----------------------------- MODULE CpsMeaning -----------------------------
(***************************************************************************)
(* What programs do: expressions evaluated directly, as the reference, and      *)
(* terms run instruction by instruction as the code generated for them does.     *)
(* Both work on a store of cells and of the assignable globals, and record the    *)
(* calls of procedures whose effects can be seen from outside.                 *)
(***************************************************************************)
EXTENDS CpsCompile

CONSTANTS
    Observed,    \* the global procedures that record their arguments and return them
    Initial,     \* the assignable globals and their values
    AnyPattern   \* a pattern that matches everything

(* Values at run time. *)
Datum(x) == [type |-> "datum", of |-> x]
ListOf(vals) == [type |-> "list", of |-> vals]
Closure(x) == [type |-> "closure", of |-> x]
Builtin(name) == [type |-> "builtin", of |-> name]
Cell(at) == [type |-> "cell", of |-> at]
Truth(b) == Datum(IF b THEN True ELSE False)
IsTrue(v) == v # Datum(False)

Builtins == Observed \cup DOMAIN PrimOpOf \cup DOMAIN KnownOf
InitialStore == [cells |-> <<>>, globals |-> [g \in DOMAIN Initial |-> Datum(Initial[g])], trace |-> <<>>]
GlobalValue(g, st) == IF g \in Builtins THEN Builtin(g) ELSE st.globals[g]

\* What an outside observer sees of a value.
RECURSIVE Shown(_)
Shown(v) ==
    CASE v.type = "list" -> ListOf([i \in DOMAIN v.of |-> Shown(v.of[i])])
      [] v.type \in {"closure", "builtin"} -> Datum("procedure")
      [] OTHER -> v

Records(st, name, vals) ==
    [st EXCEPT !.trace = Append(@, <<name, [i \in DOMAIN vals |-> Shown(vals[i])]>>)]

Returns(vals, st) == [end |-> "values", vals |-> vals, st |-> st]
Raises(what, st) == [end |-> what, vals |-> <<>>, st |-> st]

\* A known function converts its arguments before anything else; those here take no procedures.
Refuses(shown) == Datum("procedure") \in Range(shown)
CallKnownFunc(name, vals, st) ==
    IF Refuses([i \in DOMAIN vals |-> Shown(vals[i])]) THEN Raises("wrong type", st)
    ELSE Returns(IF KnownOf[name].returns THEN <<ListOf(vals)>> ELSE <<>>, Records(st, name, vals))

\* The operators that are not about cells.
Operate(op, vals, st) ==
    CASE op = "List" -> Returns(<<ListOf(vals)>>, st)
      [] op = "Not" -> Returns(<<Truth(vals[1] = Datum(False))>>, st)
      [] op = "Car" -> IF vals[1].type = "list" /\ vals[1].of # <<>>
                       THEN Returns(<<Head(vals[1].of)>>, st) ELSE Raises("not a pair", st)
      [] op \in {"CallKnown0", "CallKnown1"} ->
            LET r == CallKnownFunc(vals[1].of, Tail(vals), st)
            IN IF r.end = "values" /\ op = "CallKnown0" THEN Returns(<<ListOf(<<>>)>>, r.st) ELSE r
      [] op = "ExpandTemplate" -> Returns(<<ListOf(vals)>>, st)
      [] op = "Matches" -> Returns(<<IF vals[1] \in {Datum(AnyPattern), vals[2]}
                                     THEN ListOf(<<vals[2]>>) ELSE Datum(False)>>, st)
      [] OTHER -> Raises("no pattern matches", st)

\* A procedure of the runtime called as a value.
CallBuiltin(name, vals, st) ==
    CASE name \in Observed -> Returns(vals, Records(st, name, vals))
      [] name \in DOMAIN PrimOpOf ->
            LET info == PrimOpOf[name]
            IN IF Len(vals) = info.required \/ (info.variadic /\ Len(vals) > info.required)
               THEN Operate(info.op, vals, st) ELSE Raises("arity", st)
      [] OTHER ->
            IF Len(vals) # KnownOf[name].args THEN Raises("arity", st)
            ELSE CallKnownFunc(name, vals, st)

\* The arguments as they are bound: the rest in a list.
Bound(params, variadic, vals) ==
    LET n == IF variadic THEN Len(params) - 1 ELSE Len(params)
    IN IF variadic THEN SubSeq(vals, 1, n) \o <<ListOf(SubSeq(vals, n + 1, Len(vals)))>> ELSE vals
Accepts(params, variadic, n) == IF variadic THEN n >= Len(params) - 1 ELSE n = Len(params)

-----------------------------------------------------------------------------
(* The reference: every variable is a cell, operator and operands from left to right. *)

Fresh(st, n) == [i \in 1..n |-> Len(st.cells) + i]
Filled(st, vals) == [st EXCEPT !.cells = @ \o vals]
BindAll(env, names, at) == [x \in Range(names) |-> at[CHOOSE i \in DOMAIN names : names[i] = x]] @@ env
Uninitialized == Datum(Undefined)

RECURSIVE Eval(_, _, _), EvalOne(_, _, _), EvalArgs(_, _, _), EvalSeq(_, _, _), EvalRules(_, _, _, _),
          EvalBindings(_, _, _), CallValue(_, _, _)

\* One value is needed.
EvalOne(e, env, st) ==
    LET r == Eval(e, env, st) IN IF r.end = "values" /\ Len(r.vals) # 1 THEN Raises("arity", r.st) ELSE r

EvalArgs(exprs, env, st) ==
    IF exprs = <<>> THEN Returns(<<>>, st)
    ELSE LET r == EvalOne(Head(exprs), env, st)
             rest == EvalArgs(Tail(exprs), env, r.st)
         IN IF r.end # "values" THEN r ELSE IF rest.end # "values" THEN rest
            ELSE Returns(r.vals \o rest.vals, rest.st)

EvalSeq(exprs, env, st) ==
    IF exprs = <<>> THEN Returns(<<>>, st)
    ELSE LET r == Eval(Head(exprs), env, st)
         IN IF Len(exprs) = 1 \/ r.end # "values" THEN r ELSE EvalSeq(Tail(exprs), env, r.st)

\* The bindings of a letrec, in order, into cells that exist.
EvalBindings(binds, env, st) ==
    IF binds = <<>> THEN Returns(<<>>, st)
    ELSE LET r == EvalOne(Head(binds)[2], env, st)
         IN IF r.end # "values" THEN r
            ELSE EvalBindings(Tail(binds), env, [r.st EXCEPT !.cells[env[Head(binds)[1]]] = r.vals[1]])

CallValue(f, vals, st) ==
    CASE f.type = "builtin" -> CallBuiltin(f.of, vals, st)
      [] f.type = "closure" ->
            LET e == f.of.lambda
            IN IF ~Accepts(e.args, e.variadic, Len(vals)) THEN Raises("arity", st)
               ELSE Eval(e.body, BindAll(f.of.env, e.args, Fresh(st, Len(e.args))),
                         Filled(st, Bound(e.args, e.variadic, vals)))
      [] OTHER -> Raises("not a procedure", st)

EvalRules(rules, val, env, st) ==
    IF rules = <<>> THEN Raises("no pattern matches", st)
    ELSE LET rule == Head(rules)
             match == Operate("Matches", <<Datum(rule.pattern), val>>, st).vals[1]
             inner == BindAll(env, <<rule.binds>>, Fresh(st, 1))
             bound == Filled(st, <<match>>)
             fender == IF rule.fender = <<>> THEN Returns(<<Datum(True)>>, bound)
                       ELSE EvalOne(rule.fender[1], inner, bound)
         IN CASE ~IsTrue(match) -> EvalRules(Tail(rules), val, env, st)
              [] IsTrue(match) /\ fender.end # "values" -> fender
              [] IsTrue(match) /\ fender.end = "values" ->
                    IF IsTrue(fender.vals[1]) THEN Eval(rule.output, inner, fender.st)
                    ELSE EvalRules(Tail(rules), val, env, fender.st)

Eval(e, env, st) ==
    CASE e.exp = "lit" -> Returns(<<Datum(e.val)>>, st)
      [] e.exp = "undefined" -> Returns(<<Uninitialized>>, st)
      [] e.exp = "var" ->
            LET v == IF e.var.kind = "global" THEN GlobalValue(e.var.name, st) ELSE st.cells[env[e.var.name]]
            IN IF v = Uninitialized THEN Raises("undefined variable", st) ELSE Returns(<<v>>, st)
      [] e.exp = "lambda" -> Returns(<<Closure([lambda |-> e, env |-> env])>>, st)
      [] e.exp = "apply" ->
            LET r == EvalArgs(<<e.op>> \o e.args, env, st)
            IN IF r.end # "values" THEN r ELSE CallValue(Head(r.vals), Tail(r.vals), r.st)
      [] e.exp = "let" ->
            IF e.binds = <<>> THEN Eval(e.body, env, st)
            ELSE LET r == EvalOne(Head(e.binds)[2], env, st)
                 IN IF r.end # "values" THEN r
                    ELSE Eval([e EXCEPT !.binds = Tail(@)],
                              BindAll(env, <<Head(e.binds)[1]>>, Fresh(r.st, 1)), Filled(r.st, r.vals))
      [] e.exp = "letrec" ->
            LET n == Len(e.binds)
                inner == BindAll(env, [i \in 1..n |-> e.binds[i][1]], Fresh(st, n))
                r == EvalBindings(e.binds, inner, Filled(st, [i \in 1..n |-> Uninitialized]))
            IN IF r.end # "values" THEN r ELSE Eval(e.body, inner, r.st)
      [] e.exp = "if" ->
            LET r == EvalOne(e.cond, env, st)
            IN CASE r.end # "values" -> r
                 [] r.end = "values" /\ IsTrue(r.vals[1]) -> Eval(e.success, env, r.st)
                 [] OTHER -> IF e.failure = <<>> THEN Returns(<<>>, r.st) ELSE Eval(e.failure[1], env, r.st)
      [] e.exp \in {"and", "or"} ->
            IF e.args = <<>> THEN Returns(<<Truth(e.exp = "and")>>, st)
            ELSE IF Len(e.args) = 1 THEN Eval(Head(e.args), env, st)
            ELSE LET r == EvalOne(Head(e.args), env, st)
                 IN IF r.end # "values" \/ IsTrue(r.vals[1]) # (e.exp = "and") THEN r
                    ELSE Eval([e EXCEPT !.args = Tail(@)], env, r.st)
      [] e.exp = "set" ->
            LET r == EvalOne(e.val, env, st)
            IN CASE r.end # "values" -> r
                 [] r.end = "values" /\ e.var.kind = "global" ->
                       Returns(<<>>, [r.st EXCEPT !.globals[e.var.name] = r.vals[1]])
                 [] OTHER -> Returns(<<>>, [r.st EXCEPT !.cells[env[e.var.name]] = r.vals[1]])
      [] e.exp = "begin" -> EvalSeq(e.exprs, env, st)
      [] e.exp = "syntax" ->
            Operate("ExpandTemplate",
                    <<Datum(e.template)>> \o [i \in DOMAIN e.expansions |-> st.cells[env[e.expansions[i]]]], st)
      [] e.exp = "syntax-case" ->
            LET r == EvalOne(e.arg, env, st)
            IN IF r.end # "values" THEN r ELSE EvalRules(e.rules, r.vals[1], env, r.st)

-----------------------------------------------------------------------------
(* Terms. An environment gives each local its value or its cell, which is read when the local is used. *)

IsBound(v, env) == v.kind = "local" => v.name \in DOMAIN env
Fetch(v, env, st) ==
    CASE v.kind = "const" -> IF v.name \in Builtins THEN Builtin(v.name) ELSE Datum(v.name)
      [] v.kind = "global" -> GlobalValue(v.name, st)
      [] OTHER -> IF env[v.name].type = "cell" THEN st.cells[env[v.name].of] ELSE env[v.name]
FetchAll(vals, env, st) == [i \in DOMAIN vals |-> Fetch(vals[i], env, st)]

\* Why the values cannot be read, if so.
Unreadable(vals, env, st) ==
    CASE \E i \in DOMAIN vals : ~IsBound(vals[i], env) -> "out of phase"
      [] OTHER -> IF \E i \in DOMAIN vals : vals[i].kind # "const" /\ Fetch(vals[i], env, st) = Uninitialized
                  THEN "undefined variable" ELSE "no"

\* The closures of a group know each other.
Group(bindings, env) ==
    [x \in {b.val : b \in Range(bindings)} |->
       Closure([bindings |-> bindings, at |-> CHOOSE i \in DOMAIN bindings : bindings[i].val = x, env |-> env])]

RECURSIVE Run(_, _, _), Call(_, _, _)

Call(f, vals, st) ==
    CASE f.type = "closure" ->
            LET b == f.of.bindings[f.of.at]
                env == Group(f.of.bindings, f.of.env) @@ f.of.env
                bound == Bound(Params(b), b.variadic, vals)
            IN IF ~Accepts(Params(b), b.variadic, Len(vals)) THEN Raises("arity", st)
               ELSE Run(b.body, [i \in Range(Params(b)) |-> bound[CHOOSE n \in DOMAIN bound : Params(b)[n] = i]]
                                @@ env, st)
      [] f.type = "builtin" ->
            LET r == CallBuiltin(f.of, Tail(vals), st)
            IN IF r.end # "values" THEN r ELSE Call(Head(vals), r.vals, r.st)
      [] OTHER -> Raises("not a procedure", st)

Run(t, env, st) ==
    LET why == Unreadable(CASE t.inst = "primop" -> IF t.op = "Set" THEN Tail(t.args) ELSE t.args
                            [] t.inst = "app" -> <<t.op>> \o t.args
                            [] t.inst = "if" -> <<t.cond>>
                            [] t.inst = "halt" -> <<t.val>>
                            [] OTHER -> <<>>, env, st)
        vals == FetchAll(t.args, env, st)
    IN CASE why # "no" -> Raises(why, st)
         [] why = "no" /\ t.inst = "primop" ->
            (CASE t.op = "AllocCell" -> Run(t.body, (t.res :> Cell(Len(st.cells) + 1)) @@ env, Filled(st, <<Uninitialized>>))
              [] t.op = "Read" -> Run(t.body, (t.res :> vals[1]) @@ env, st)
              [] t.op = "Set" ->
                    LET val == Fetch(t.args[2], env, st)
                        to == t.args[1].name
                    IN CASE ~IsBound(t.args[1], env) -> Raises("out of phase", st)
                         [] t.args[1].kind = "global" -> Run(t.body, env, [st EXCEPT !.globals[to] = val])
                         [] t.args[1].kind = "local" /\ IsBound(t.args[1], env) /\ env[to].type = "cell" ->
                               Run(t.body, env, [st EXCEPT !.cells[env[to].of] = val])
                         [] OTHER -> Raises("not a cell", st)
              [] OTHER ->
                    LET r == Operate(t.op, vals, st)
                    IN IF r.end # "values" THEN r ELSE Run(t.body, (t.res :> r.vals[1]) @@ env, r.st))
         [] why = "no" /\ t.inst = "app" -> Call(Fetch(t.op, env, st), vals, st)
         [] why = "no" /\ t.inst = "if" ->
               IF IsTrue(Fetch(t.cond, env, st)) THEN Run(t.success, env, st) ELSE Run(t.failure, env, st)
         [] why = "no" /\ t.inst = "fix" -> Run(t.body, Group(t.bindings, env) @@ env, st)
         [] OTHER -> Returns(Fetch(t.val, env, st).of, st)  \* Halt: the list of values

\* The observable part.
Observable(r) == <<r.end, [i \in DOMAIN r.vals |-> Shown(r.vals[i])], r.st.trace>>

MeaningOf(e) == Observable(Eval(e, <<>>, InitialStore))
MeaningOfTerm(t) == Observable(Run(t, <<>>, InitialStore))
=============================================================================
