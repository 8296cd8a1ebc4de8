----------------------------- MODULE CpsContify -----------------------------
(***************************************************************************)
(* Contification (cps/contify.rs): a function that never escapes and always      *)
(* returns to the same place becomes a continuation of that place. Who returns    *)
(* to whom is a graph whose nodes are the lambdas and a root; the place is found   *)
(* from its dominators.                                                    *)
(***************************************************************************)
EXTENDS CpsReduce

CONSTANT Root  \* the unknown context

(* Escape analysis (cps/analysis.rs). *)

\* The functions that escape at one instruction: used as a value, called with a wrong number of
\* arguments, or variadic.
Escapes(t, procs) ==
    CASE t.inst = "app" ->
            (LocalsOf(t.args) \cap DOMAIN procs) \cup
            {f \in LocalsOf(<<t.op>>) \cap DOMAIN procs : ~MatchesArgs(procs[f], Len(t.args))}
      [] t.inst = "primop" -> LocalsOf(t.args) \cap DOMAIN procs
      [] t.inst = "if" -> LocalsOf(<<t.cond>>) \cap DOMAIN procs
      [] t.inst = "fix" -> {b.val : b \in {c \in Range(t.bindings) : c.variadic}}
      [] OTHER -> LocalsOf(<<t.val>>) \cap DOMAIN procs

\* The terms within a term.
RECURSIVE Subterms(_)
Subterms(t) ==
    {t} \cup CASE t.inst = "primop" -> Subterms(t.body)
               [] t.inst = "if" -> Subterms(t.success) \cup Subterms(t.failure)
               [] t.inst = "fix" -> Subterms(t.body) \cup UNION {Subterms(b.body) : b \in Range(t.bindings)}
               [] OTHER -> {}

\* What is free in a function that escapes, escapes.
RECURSIVE CloseEscaping(_, _)
CloseEscaping(names, procs) ==
    LET more == names \cup (UNION {FreeVariables(procs[f].body) : f \in names} \cap DOMAIN procs)
    IN IF more = names THEN names ELSE CloseEscaping(more, procs)

Procs(t) ==
    LET all == Bindings(t) IN [f \in {b.val : b \in all} |-> CHOOSE b \in all : b.val = f]

FindEscaping(t, procs) == CloseEscaping(UNION {Escapes(u, procs) : u \in Subterms(t)}, procs)

-----------------------------------------------------------------------------
(* The graph of returns: an edge from where control goes next to the function that goes there. *)

\* Where a call with this continuation returns to.
ReturnsTo(args, procs) ==
    LET k == Head(args).name
        owners == {f \in DOMAIN procs : procs[f].cont = <<k>>}
    IN CASE args = <<>> \/ Head(args).kind # "local" -> Root
         [] args # <<>> /\ Head(args).kind = "local" /\ k \in DOMAIN procs /\ IsContinuation(procs[k]) -> k
         [] OTHER -> IF owners # {} THEN CHOOSE f \in owners : TRUE ELSE Root

Edges(t, procs) ==
    LET funcs == {f \in DOMAIN procs : IsFunc(procs[f])}
        Used(u) == CASE u.inst \in {"app", "primop"} -> LocalsOf(u.args)
                     [] u.inst = "if" -> LocalsOf(<<u.cond>>)
                     [] u.inst = "halt" -> LocalsOf(<<u.val>>)
                     [] OTHER -> {}
        Calls(u) == IF u.inst = "app" THEN LocalsOf(<<u.op>>) \cap funcs ELSE {}
    IN {<<Root, k>> : k \in DOMAIN procs \ funcs} \cup
       UNION {{<<Root, f>> : f \in Used(u) \cap funcs} \cup {<<ReturnsTo(u.args, procs), f>> : f \in Calls(u)}
              : u \in Subterms(t)}

RECURSIVE Postorder(_, _, _)
Postorder(node, edges, order) ==
    LET next == {e[2] : e \in {d \in edges : d[1] = node}}
        Visit(n, acc) == IF n \in Range(acc) THEN acc ELSE Postorder(n, edges, acc)
        below == FoldSet(Visit, <<node>> \o order, next)
    IN Tail(below) \o <<node>>

\* intersect: the nearest common dominator, by climbing from the lower position in the order.
RECURSIVE Intersect(_, _, _)
Intersect(i, j, idoms) ==
    CASE i = j -> i
      [] i < j -> Intersect(idoms[i], j, idoms)
      [] OTHER -> Intersect(i, idoms[j], idoms)

\* One pass over all nodes in reverse postorder; 0 is a dominator not known yet.
ImproveDominators(idoms, order, edges) ==
    LET Improve(acc, back) ==
            LET i == Len(order) - back
                preds == {p \in 1..Len(order) : <<order[p], order[i]>> \in edges /\ acc[p] # 0}
            IN IF preds = {} THEN acc
               ELSE [acc EXCEPT ![i] = FoldSet(LAMBDA p, d : Intersect(p, d, acc), Min(preds), preds)]
    IN FoldLeft(Improve, idoms, [back \in 1..(Len(order) - 1) |-> back])

RECURSIVE FixDominators(_, _, _)
FixDominators(idoms, order, edges) ==
    LET better == ImproveDominators(idoms, order, edges)
    IN IF better = idoms THEN idoms ELSE FixDominators(better, order, edges)

\* find_dominators: the immediate dominator of each lambda that can be reached from the root.
FindDominators(t, procs) ==
    LET edges == Edges(t, procs)
        order == Postorder(Root, edges, <<>>)
        n == Len(order)
        idoms == FixDominators([i \in 1..n |-> IF i = n THEN n ELSE 0], order, edges)
    IN [f \in Range(order) \ {Root} |-> order[idoms[CHOOSE i \in 1..n : order[i] = f]]]

-----------------------------------------------------------------------------
\* What contification goes by: the lambdas before it, what escapes and the dominators.
Analysis(t) ==
    LET procs == Procs(t)
    IN [procs |-> procs, escaping |-> FindEscaping(t, procs), idoms |-> FindDominators(t, procs)]

\* f does not escape and always returns to one lambda.
Contifiable(f, a) == f \notin a.escaping /\ f \in DOMAIN a.idoms /\ a.idoms[f] # Root

\* Mutant of TargetCont: the dominator itself, which may be about to become a continuation.
TargetCont_Nearest(f, a) ==
    LET d == a.idoms[f] IN IF IsFunc(a.procs[d]) THEN a.procs[d].cont[1] ELSE d

\* target_cont: the continuation that f returns to, through the functions that become continuations.
TargetCont(f, a) ==
    LET target[g \in DOMAIN a.idoms] ==
            LET d == a.idoms[g]
            IN IF Contifiable(d, a) THEN target[d] ELSE IF IsFunc(a.procs[d]) THEN a.procs[d].cont[1] ELSE d
    IN target[f]

\* Binding b made a continuation that goes to k.
Redirected(b, k) == [b EXCEPT !.cont = <<>>, !.body = Substitute(@, b.cont[1] :> Local(k))]

\* flip_in_place_contifiables: those whose target is in scope stay where they are. Calls of all of
\* them lose their continuation.
RECURSIVE FlipInPlace(_, _, _)
FlipInPlace(t, a, scope) ==
    CASE t.inst = "fix" ->
            LET here == scope \cup {b.val : b \in Range(t.bindings)}
                Flip(b) ==
                    LET f == [b EXCEPT !.body = FlipInPlace(@, a, here \cup Range(b.cont))]
                    IN IF IsFunc(b) /\ Contifiable(b.val, a) /\ TargetCont(b.val, a) \in here
                       THEN Redirected(f, TargetCont(b.val, a)) ELSE f
            IN Fix([i \in DOMAIN t.bindings |-> Flip(t.bindings[i])], FlipInPlace(t.body, a, here))
      [] t.inst = "if" -> If(t.cond, FlipInPlace(t.success, a, scope), FlipInPlace(t.failure, a, scope))
      [] t.inst = "primop" -> [t EXCEPT !.body = FlipInPlace(@, a, scope)]
      [] t.inst = "app" /\ t.op.kind = "local" /\ Contifiable(t.op.name, a) -> App(t.op, Tail(t.args))
      [] OTHER -> t

\* collect_relocatable_contifiables: the others are taken out, to be placed at their dominator.
RECURSIVE Collected(_, _)
Collected(t, a) ==
    CASE t.inst = "fix" ->
            LET Moves(b) == IsFunc(b) /\ Contifiable(b.val, a)
                inner == [i \in DOMAIN t.bindings |-> Collected(t.bindings[i].body, a)]
                bodies == [i \in DOMAIN t.bindings |-> [t.bindings[i] EXCEPT !.body = inner[i].term]]
                kept == SelectSeq(bodies, LAMBDA b : ~Moves(b))
                rest == Collected(t.body, a)
                moved == FlattenSeq([i \in DOMAIN bodies |->
                            inner[i].moved \o IF Moves(bodies[i]) THEN <<bodies[i]>> ELSE <<>>])
            IN [term |-> IF kept = <<>> THEN rest.term ELSE Fix(kept, rest.term), moved |-> moved \o rest.moved]
      [] t.inst = "if" ->
            LET s == Collected(t.success, a)
                f == Collected(t.failure, a)
            IN [term |-> If(t.cond, s.term, f.term), moved |-> s.moved \o f.moved]
      [] t.inst = "primop" ->
            LET r == Collected(t.body, a) IN [r EXCEPT !.term = [t EXCEPT !.body = r.term]]
      [] OTHER -> [term |-> t, moved |-> <<>>]

\* relocate_and_contify: a function moves to the beginning of the function, or beside the
\* continuation, that dominates it.
RECURSIVE Relocated(_, _, _), Contified(_, _, _)
Relocated(t, a, moved) ==
    CASE t.inst = "fix" ->
            LET At(b) == LET here == SelectSeq(moved, LAMBDA f : a.idoms[f.val] = b.val)
                         IN [i \in DOMAIN here |-> Contified(here[i], a, moved)]
                Place(b) == LET body == Relocated(b.body, a, moved)
                            IN [b EXCEPT !.body = IF IsFunc(b) /\ At(b) # <<>> THEN Fix(At(b), body) ELSE body]
                beside == FlattenSeq([i \in DOMAIN t.bindings |->
                             IF IsFunc(t.bindings[i]) THEN <<>> ELSE At(t.bindings[i])])
            IN Fix([i \in DOMAIN t.bindings |-> Place(t.bindings[i])] \o beside, Relocated(t.body, a, moved))
      [] t.inst = "if" -> If(t.cond, Relocated(t.success, a, moved), Relocated(t.failure, a, moved))
      [] t.inst = "primop" -> [t EXCEPT !.body = Relocated(@, a, moved)]
      [] OTHER -> t

\* contify: also the functions that move into this one.
Contified(b, a, moved) ==
    LET f == Redirected([b EXCEPT !.body = Relocated(@, a, moved)], TargetCont(b.val, a))
        here == SelectSeq(moved, LAMBDA g : a.idoms[g.val] = b.val)
    IN IF here = <<>> THEN f
       ELSE [f EXCEPT !.body = Fix([i \in DOMAIN here |-> Contified(here[i], a, moved)], @)]

\* A function that neither escapes nor is reached from the root has no dominator: the compiler panics.
Contify(t) ==
    LET a == Analysis(t)
        lost == {f \in DOMAIN a.procs \ a.escaping : IsFunc(a.procs[f]) /\ f \notin DOMAIN a.idoms}
        flipped == Collected(FlipInPlace(t, a, {}), a)
    IN IF lost # {} THEN Panicked ELSE Relocated(flipped.term, a, flipped.moved)
=============================================================================
