------------------------------ MODULE CpsReduce -----------------------------
(***************************************************************************)
(* Reduction of terms (cps/reduce.rs, cps/analysis.rs). Counting the uses of    *)
(* names is costly, so the counts of the term under each binder are remembered   *)
(* in a cache, which every change of a term has to keep right.                  *)
(***************************************************************************)
EXTENDS CpsTerms

\* The counts of a value or of a sequence of them.
UsesOfValues(vals) ==
    FoldLeft(LAMBDA bag, v : IF v.kind = "local" THEN bag (+) SetToBag({v.name}) ELSE bag, EmptyBag, vals)

Forget(cache, names) == [x \in DOMAIN cache \ names |-> cache[x]]

\* find_uses: the counts of a term, and the cache after it.
RECURSIVE FindUses(_, _)
FindUses(t, cache) ==
    CASE t.inst = "primop" ->
            IF t.res \in DOMAIN cache THEN [uses |-> cache[t.res], cache |-> cache]
            ELSE LET r == FindUses(t.body, cache)
                     uses == UsesOfValues(t.args) (+) r.uses
                 IN [uses |-> uses, cache |-> (t.res :> uses) @@ r.cache]
      [] t.inst = "if" ->
            LET s == FindUses(t.success, cache)
                f == FindUses(t.failure, s.cache)
            IN [uses |-> s.uses (+) f.uses (+) UsesOfValues(<<t.cond>>), cache |-> f.cache]
      [] t.inst = "fix" ->
            LET AddBody(acc, b) ==
                    IF b.val \in DOMAIN acc.cache THEN [acc EXCEPT !.uses = @ (+) acc.cache[b.val]]
                    ELSE LET r == FindUses(b.body, acc.cache)
                         IN [uses |-> acc.uses (+) r.uses, cache |-> (b.val :> r.uses) @@ r.cache]
                bodies == FoldLeft(AddBody, [uses |-> EmptyBag, cache |-> cache], t.bindings)
                rest == FindUses(t.body, bodies.cache)
            IN [uses |-> bodies.uses (+) rest.uses, cache |-> rest.cache]
      [] t.inst = "app" -> [uses |-> UsesOfValues(<<t.op>> \o t.args), cache |-> cache]
      [] OTHER -> [uses |-> UsesOfValues(<<t.val>>), cache |-> cache]

-----------------------------------------------------------------------------
\* A pass over a term gives the new term, the cache, and whether anything changed.
Pass(t, cache, modified) == [term |-> t, cache |-> cache, modified |-> modified]

\* The compiler panics: there are fewer arguments than a variadic lambda requires.
Panicked == Halt(Const("panic"))

\* The body of lambda b with the values applied to it. Names are not renamed, there is one copy.
Inline(b, body, vals) ==
    LET n == NumRequired(b) + Len(b.cont)
        rest == Gensym(b.val, 1)
        Bind(given) == [x \in Range(Params(b)) |-> given[CHOOSE i \in DOMAIN given : Params(b)[i] = x]]
    IN CASE b.variadic /\ Len(vals) < n -> Panicked
         [] b.variadic /\ Len(vals) >= n ->
               PrimOp("List", SubSeq(vals, n + 1, Len(vals)), rest,
                      Substitute(body, Bind(SubSeq(vals, 1, n) \o <<Local(rest)>>)))
         [] OTHER -> Substitute(body, Bind(vals))

\* beta_reduce_function: the first application of b in t becomes b's body. A call with a wrong number of
\* arguments is left to fail when it is made.
RECURSIVE ReduceFunction(_, _, _, _)
ReduceFunction(t, b, body, cache) ==
    CASE t.inst = "primop" ->
            LET r == ReduceFunction(t.body, b, body, cache)
            IN IF r.modified THEN Pass([t EXCEPT !.body = r.term], Forget(r.cache, {t.res}), TRUE)
               ELSE Pass(t, cache, FALSE)
      [] t.inst = "if" ->
            LET s == ReduceFunction(t.success, b, body, cache)
                f == ReduceFunction(t.failure, b, body, cache)
            IN CASE s.modified -> Pass([t EXCEPT !.success = s.term], s.cache, TRUE)
                 [] ~s.modified /\ f.modified -> Pass([t EXCEPT !.failure = f.term], f.cache, TRUE)
                 [] OTHER -> Pass(t, cache, FALSE)
      [] t.inst = "fix" ->
            LET inBody(i) == ReduceFunction(t.bindings[i].body, b, body, cache)
                hits == {i \in DOMAIN t.bindings : inBody(i).modified}
                first == Min(hits)
                rest == ReduceFunction(t.body, b, body, cache)
            IN CASE hits # {} -> Pass([t EXCEPT !.bindings[first].body = inBody(first).term],
                                      Forget(inBody(first).cache, {t.bindings[first].val}), TRUE)
                 [] hits = {} /\ rest.modified -> Pass([t EXCEPT !.body = rest.term], rest.cache, TRUE)
                 [] OTHER -> Pass(t, cache, FALSE)
      [] t.inst = "app" /\ t.op = Local(b.val) ->
            IF (IsFunc(b) /\ t.args = <<>>) \/ (~b.variadic /\ Len(t.args) # Len(Params(b)))
            THEN Pass(t, cache, FALSE)
            ELSE Pass(Inline(b, body, t.args), Forget(cache, Keys(body)), TRUE)
      [] OTHER -> Pass(t, cache, FALSE)

\* beta_reduction at a Fix: a function that is not recursive and has one use, as an operator, is inlined there.
BetaFix(r) ==
    LET b == r.term.bindings[1]
        own == FindUses(b.body, r.cache)
        used == FindUses(r.term.body, own.cache)
        reduced == ReduceFunction(r.term.body, b, b.body, used.cache)
    IN IF ~BagIn(b.val, own.uses) /\ CopiesIn(b.val, used.uses) = 1 /\ reduced.modified
       THEN reduced ELSE [r EXCEPT !.cache = used.cache]

\* A continuation that passes just its arguments to another procedure.
Forwards(b, body) ==
    /\ ~b.variadic /\ IsContinuation(b)
    /\ body.inst = "app" /\ body.op # Local(b.val)
    /\ body.args = [i \in DOMAIN b.args |-> Local(b.args[i])]

\* eta_reduction at a Fix: such a continuation is replaced by that procedure.
EtaFix(r) ==
    LET b == r.term.bindings[1]
    IN IF Forwards(b, b.body)
       THEN Pass(Substitute(r.term.body, b.val :> b.body.op), Forget(r.cache, Keys(r.term.body)), TRUE)
       ELSE r

\* One reduction at every Fix of a single lambda, from the inside out.
RECURSIVE Everywhere(_, _, _)
Everywhere(how, t, cache) ==
    CASE t.inst = "primop" ->
            LET r == Everywhere(how, t.body, cache) IN [r EXCEPT !.term = [t EXCEPT !.body = r.term]]
      [] t.inst = "if" ->
            LET s == Everywhere(how, t.success, cache)
                f == Everywhere(how, t.failure, s.cache)
            IN Pass(If(t.cond, s.term, f.term), f.cache, s.modified \/ f.modified)
      [] t.inst = "fix" ->
            LET Step(acc, b) == LET r == Everywhere(how, b.body, acc.cache)
                                IN Pass(Append(acc.term, [b EXCEPT !.body = r.term]), r.cache,
                                        acc.modified \/ r.modified)
                bodies == FoldLeft(Step, Pass(<<>>, cache, FALSE), t.bindings)
                rest == Everywhere(how, t.body, bodies.cache)
                inside == Pass(Fix(bodies.term, rest.term), rest.cache, bodies.modified \/ rest.modified)
            IN IF Len(t.bindings) # 1 THEN inside ELSE IF how = "beta" THEN BetaFix(inside) ELSE EtaFix(inside)
      [] OTHER -> Pass(t, cache, FALSE)

BetaReduction(t, cache) == Everywhere("beta", t, cache)
EtaReduction(t, cache) == Everywhere("eta", t, cache)

\* The names that are used, also by the functions that are used, and the cache.
GrowLive(live, bindings) ==
    LET AddBody(acc, b) ==
            LET r == FindUses(b.body, acc.cache)
            IN IF b.val \in acc.names THEN [names |-> acc.names \cup BagToSet(r.uses), cache |-> r.cache] ELSE acc
    IN FoldLeft(AddBody, live, bindings)

RECURSIVE Live(_, _, _)
Live(before, live, bindings) ==
    IF live.names = before THEN live ELSE Live(live.names, GrowLive(live, bindings), bindings)

LiveFrom(used, bindings) == Live({}, [names |-> BagToSet(used.uses), cache |-> used.cache], bindings)

\* dead_code_elimination: unused cells and functions.
RECURSIVE DeadCode(_, _), DeadFunctions(_, _, _)
DeadCode(t, cache) ==
    CASE t.inst = "primop" /\ t.op = "AllocCell" ->
            LET used == FindUses(t.body, cache)
                r == DeadCode(t.body, used.cache)
            IN [r EXCEPT !.term = IF BagIn(t.res, used.uses) THEN [t EXCEPT !.body = r.term] ELSE @]
      [] t.inst = "primop" /\ t.op # "AllocCell" ->
            LET r == DeadCode(t.body, cache) IN [r EXCEPT !.term = [t EXCEPT !.body = r.term]]
      [] t.inst = "if" ->
            LET s == DeadCode(t.success, cache)
                f == DeadCode(t.failure, s.cache)
            IN Pass(If(t.cond, s.term, f.term), f.cache, FALSE)
      [] t.inst = "fix" ->
            LET rest == DeadCode(t.body, cache)
            IN DeadFunctions(t.bindings, rest.term, LiveFrom(FindUses(rest.term, rest.cache), t.bindings))
      [] OTHER -> Pass(t, cache, FALSE)

\* At a Fix: the functions that are not live are dropped, and the Fix when none is left.
DeadFunctions(bindings, rest, live) ==
    LET Step(acc, b) == LET r == DeadCode(b.body, acc.cache)
                        IN Pass(Append(acc.term, [b EXCEPT !.body = r.term]), r.cache, FALSE)
        kept == FoldLeft(Step, Pass(<<>>, live.cache, FALSE), SelectSeq(bindings, LAMBDA b : b.val \in live.names))
    IN [kept EXCEPT !.term = IF @ = <<>> THEN rest ELSE Fix(@, rest)]
=============================================================================
