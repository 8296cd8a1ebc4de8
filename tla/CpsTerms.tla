------------------------------ MODULE CpsTerms ------------------------------
(***************************************************************************)
(* Terms in continuation-passing style (cps/mod.rs): what the compiler makes of *)
(* an expression, reduces and hands to the code generator. Every call passes   *)
(* its continuation as the first argument, and every binder has a name of its   *)
(* own. A name is a sequence: a variable of the program is <<v>>, a name that     *)
(* gensym makes is made from the place in the program that needed it.           *)
(***************************************************************************)
EXTENDS Integers, SequencesExt, FiniteSetsExt, BagsExt, TLC

\* The i-th name made at a place.
Gensym(p, i) == p \o <<-i>>

(* Values: a local variable, a global one, or a constant. *)
Local(name) == [kind |-> "local", name |-> name]
Global(name) == [kind |-> "global", name |-> name]
Const(name) == [kind |-> "const", name |-> name]

LocalsOf(vals) == {v.name : v \in {w \in Range(vals) : w.kind = "local"}}

(* Instructions. *)
PrimOp(op, args, res, body) == [inst |-> "primop", op |-> op, args |-> args, res |-> res, body |-> body]
App(op, args) == [inst |-> "app", op |-> op, args |-> args]
If(cond, success, failure) == [inst |-> "if", cond |-> cond, success |-> success, failure |-> failure]
Fix(bindings, body) == [inst |-> "fix", bindings |-> bindings, body |-> body]
Halt(val) == [inst |-> "halt", val |-> val]

\* A lambda: a function takes a continuation, cont is empty in a continuation. The last argument of a
\* variadic one takes the rest.
Lambda(val, cont, args, variadic, body) ==
    [val |-> val, cont |-> cont, args |-> args, variadic |-> variadic, body |-> body]

IsFunc(b) == b.cont # <<>>
IsContinuation(b) == b.cont = <<>>
Params(b) == b.cont \o b.args
NumRequired(b) == IF b.variadic THEN Len(b.args) - 1 ELSE Len(b.args)

\* Whether an application with n arguments, the continuation one of them, fits a lambda.
MatchesArgs(b, n) == IF b.variadic THEN n > Len(Params(b)) ELSE n = Len(Params(b))

-----------------------------------------------------------------------------
\* All lambdas of a term.
RECURSIVE Bindings(_)
Bindings(t) ==
    CASE t.inst = "primop" -> Bindings(t.body)
      [] t.inst = "if" -> Bindings(t.success) \cup Bindings(t.failure)
      [] t.inst = "fix" -> Range(t.bindings) \cup Bindings(t.body) \cup
                           UNION {Bindings(b.body) : b \in Range(t.bindings)}
      [] OTHER -> {}

\* The names under which the uses of a part of the term are remembered.
RECURSIVE Keys(_)
Keys(t) ==
    CASE t.inst = "primop" -> {t.res} \cup Keys(t.body)
      [] t.inst = "if" -> Keys(t.success) \cup Keys(t.failure)
      [] t.inst = "fix" -> {b.val : b \in Range(t.bindings)} \cup Keys(t.body) \cup
                           UNION {Keys(b.body) : b \in Range(t.bindings)}
      [] OTHER -> {}

SubstituteValue(v, sub) == IF v.kind = "local" /\ v.name \in DOMAIN sub THEN sub[v.name] ELSE v
SubstituteValues(vals, sub) == [i \in DOMAIN vals |-> SubstituteValue(vals[i], sub)]

\* substitute: binders are not looked at, names are unique.
RECURSIVE Substitute(_, _)
Substitute(t, sub) ==
    CASE t.inst = "primop" -> [t EXCEPT !.args = SubstituteValues(@, sub), !.body = Substitute(@, sub)]
      [] t.inst = "app" -> App(SubstituteValue(t.op, sub), SubstituteValues(t.args, sub))
      [] t.inst = "if" ->
            If(SubstituteValue(t.cond, sub), Substitute(t.success, sub), Substitute(t.failure, sub))
      [] t.inst = "fix" ->
            Fix([i \in DOMAIN t.bindings |-> [t.bindings[i] EXCEPT !.body = Substitute(@, sub)]],
                Substitute(t.body, sub))
      [] OTHER -> Halt(SubstituteValue(t.val, sub))

\* free_vars: a function's own name is free in its body, bound by the Fix.
RECURSIVE FreeVariables(_)
FreeVariables(t) ==
    CASE t.inst = "primop" -> (FreeVariables(t.body) \ {t.res}) \cup LocalsOf(t.args)
      [] t.inst = "app" -> LocalsOf(<<t.op>> \o t.args)
      [] t.inst = "if" -> FreeVariables(t.success) \cup FreeVariables(t.failure) \cup LocalsOf(<<t.cond>>)
      [] t.inst = "fix" ->
            (FreeVariables(t.body) \cup
             UNION {FreeVariables(b.body) \ Range(Params(b)) : b \in Range(t.bindings)})
            \ {b.val : b \in Range(t.bindings)}
      [] OTHER -> LocalsOf(<<t.val>>)

\* Every occurrence of a name as a binder.
RECURSIVE Binders(_)
Binders(t) ==
    CASE t.inst = "primop" -> <<t.res>> \o Binders(t.body)
      [] t.inst = "if" -> Binders(t.success) \o Binders(t.failure)
      [] t.inst = "fix" ->
            FlattenSeq([i \in DOMAIN t.bindings |->
               <<t.bindings[i].val>> \o Params(t.bindings[i]) \o Binders(t.bindings[i].body)])
            \o Binders(t.body)
      [] OTHER -> <<>>
=============================================================================
