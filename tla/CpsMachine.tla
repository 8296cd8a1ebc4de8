----------------------------- MODULE CpsMachine -----------------------------
(***************************************************************************)
(* The code generated for a term (cps/codegen.rs) on the runtime (runtime.rs),    *)
(* instruction by instruction. Compiled code counts references itself: the        *)
(* generator knows for each local whether the code owns its value, has borrowed    *)
(* it or holds a cell, moves an owned value where it is used for the last time,     *)
(* clones it elsewhere, and drops what the rest of the code does not need.        *)
(***************************************************************************)
EXTENDS CpsCompiler

CONSTANT MaxDirectArgs  \* MAX_DIRECT_ARGS: further arguments are passed in a list

VARIABLES
    code,     \* what was found out about the whole term
    live,     \* LiveValues: the locals that have a value
    scopes,   \* local_cont_scopes: the local continuations of this procedure
    stack,    \* cont_stack: the continuations that have been pushed
    heap,     \* closures, pairs and cells with their counts
    globals,  \* the values of the assignable globals
    trace,    \* the calls that can be seen from outside
    result    \* how the program ended, and its values

machineVars == <<code, live, scopes, stack, heap, globals, trace, result>>

(* Values, and what compiled code knows of them (IrValue). *)
Null == ListOf(<<>>)
Ref(at) == [type |-> "ref", at |-> at]
Owned(v) == [is |-> "owned", val |-> v]
Borrowed(v) == [is |-> "ref", val |-> v]
InCell(v) == [is |-> "cell", val |-> v]

\* The values that a procedure has to drop: cells too.
OwnedLocals(l) == {x \in DOMAIN l : l[x].is # "ref"}
Without(l, names) == [x \in DOMAIN l \ names |-> l[x]]

\* The closure a procedure runs from is one of its locals.
Self == <<>>

-----------------------------------------------------------------------------
(* The heap. An object that is freed keeps its place, with no references. *)

Object(kind, parts, of) == [kind |-> kind, parts |-> parts, of |-> of, refs |-> 1]
Pair(car, cdr) == Object("pair", <<car, cdr>>, "pair")

Clone(h, v) == IF v.type = "ref" THEN [h EXCEPT ![v.at].refs = @ + 1] ELSE h
CloneAll(h, vals) == FoldLeft(Clone, h, vals)

\* dropv: the last reference takes the object's own references with it.
RECURSIVE Drop(_, _)
Drop(h, v) ==
    IF v.type # "ref" THEN h
    ELSE IF h[v.at].refs # 1 THEN [h EXCEPT ![v.at].refs = @ - 1]
    ELSE LET parts == h[v.at].parts
             DropPart(i, acc) == Drop(acc, parts[i])
         IN FoldSet(DropPart, [h EXCEPT ![v.at].refs = 0, ![v.at].parts = <<>>], DOMAIN parts)

\* drop_all_codegen.
DropAll(h, l) == LET DropLocal(x, acc) == Drop(acc, l[x].val) IN FoldSet(DropLocal, h, OwnedLocals(l))

\* The list of the values, which keep their owners.
MakeList(h, vals) ==
    FoldLeft(LAMBDA acc, v : [val |-> Ref(Len(acc.heap) + 1), heap |-> Append(Clone(acc.heap, v), Pair(v, acc.val))],
             [val |-> Null, heap |-> h], Reverse(vals))

\* The elements of a list, and what follows the first n.
RECURSIVE Elements(_, _), Rest(_, _, _)
Elements(h, v) == IF v = Null THEN <<>> ELSE <<h[v.at].parts[1]>> \o Elements(h, h[v.at].parts[2])
Rest(h, v, n) == IF n = 0 THEN v ELSE Rest(h, h[v.at].parts[2], n - 1)

\* What can be seen of a value from outside.
RECURSIVE Seen(_, _)
Seen(h, v) ==
    CASE v.type = "ref" -> IF h[v.at].kind # "pair" THEN Datum("procedure")
                           ELSE LET vals == Elements(h, v) IN ListOf([i \in DOMAIN vals |-> Seen(h, vals[i])])
      [] v.type = "builtin" -> Datum("procedure")
      [] OTHER -> v
SeenAll(h, vals) == [i \in DOMAIN vals |-> Seen(h, vals[i])]

-----------------------------------------------------------------------------
(* Liveness (cps/analysis.rs): the locals a term needs, and those that a local continuation it may *)
(* jump to needs. *)

Expand(names, contLive) == names \cup UNION {contLive[k] : k \in names \cap DOMAIN contLive}

RECURSIVE FixContLive(_, _), ContLives(_, _, _)
FixContLive(conts, contLive) ==
    LET Needs(b) == Expand(FreeVariables(b.body), contLive) \ Range(b.args)
        better == [k \in {b.val : b \in conts} |-> Needs(CHOOSE b \in conts : b.val = k)] @@ contLive
    IN IF better = contLive THEN contLive ELSE FixContLive(conts, better)

ContLives(t, escaping, known) ==
    CASE t.inst = "primop" -> ContLives(t.body, escaping, known)
      [] t.inst = "if" -> ContLives(t.failure, escaping, ContLives(t.success, escaping, known))
      [] t.inst = "fix" ->
            LET conts == {b \in Range(t.bindings) : IsContinuation(b) /\ b.val \notin escaping}
                here == FixContLive(conts, [k \in {b.val : b \in conts} |-> {}] @@ known)
            IN ContLives(t.body, escaping,
                         FoldLeft(LAMBDA acc, b : ContLives(b.body, escaping, acc), here, t.bindings))
      [] OTHER -> known

Cells(t) == {u.res : u \in {s \in Subterms(t) : s.inst = "primop" /\ s.op = "AllocCell"}}

\* The continuations that are not values of the generated code but on the stack.
StackConts(t, escaping) ==
    UNION {Range(b.cont) \cup IF IsContinuation(b) /\ b.val \in escaping THEN {b.val} ELSE {} : b \in Bindings(t)}

Analyzed(t, escaping) ==
    [escaping |-> escaping, contLive |-> ContLives(t, escaping, <<>>), cells |-> Cells(t),
     conts |-> StackConts(t, escaping)]

LiveIn(t) == Expand(FreeVariables(t), code.contLive)

\* drop_dead_codegen.
DropDead(l, h, names) ==
    LET dead == OwnedLocals(l) \ (names \cup {Self})
        DropLocal(x, acc) == Drop(acc, l[x].val)
    IN [live |-> Without(l, dead), heap |-> FoldSet(DropLocal, h, dead)]

\* cps_codegen: the code goes on with t, and drops what t does not need.
Continue(t, l, h) ==
    /\ term' = t
    /\ \E m \in {DropDead(l, h, LiveIn(t))} : live' = m.live /\ heap' = m.heap
    /\ UNCHANGED <<program, uses, code>>

\* The program ends, with values or an exception that nothing handles.
End(how, vals, h) ==
    /\ stage' = "ended" /\ result' = [end |-> how, vals |-> vals]
    /\ heap' = h /\ live' = <<>>
    /\ UNCHANGED <<program, term, uses, code, scopes>>

\* What an instruction within a procedure leaves alone.
outside == <<stage, scopes, stack, globals, trace, result>>

Raise(what, l, h) == End(what, <<>>, DropAll(h, l)) /\ UNCHANGED <<stack, globals, trace>>

-----------------------------------------------------------------------------
(* Operands. *)

\* value_codegen: what an operand is; the code gets no reference to it.
Get(v) ==
    CASE v.kind = "const" -> IF v.name \in Builtins THEN Builtin(v.name) ELSE Datum(v.name)
      [] v.kind = "global" -> IF v.name \in Builtins THEN Builtin(v.name) ELSE globals[v.name]
      [] OTHER -> IF live[v.name].is = "cell" THEN heap[live[v.name].val.at].parts[1] ELSE live[v.name].val
GetAll(vals) == [i \in DOMAIN vals |-> Get(vals[i])]

\* Mutant of TakeArgs: every occurrence of such a local is moved.
TakeArgs_MoveAll(args, after) ==
    LET moved == {i \in DOMAIN args : /\ args[i].kind = "local" /\ args[i].name \notin after
                                      /\ live[args[i].name].is = "owned"}
        vals == GetAll(args)
    IN [vals |-> vals, live |-> Without(live, {args[i].name : i \in moved}),
        heap |-> FoldSet(LAMBDA i, h : Clone(h, vals[i]), heap, DOMAIN args \ moved)]

\* take_args: the last occurrence of an owned local that is not needed afterwards is moved, all others
\* are cloned.
TakeArgs(args, after) ==
    LET moved == {i \in DOMAIN args :
                     /\ args[i].kind = "local"
                     /\ args[i] \notin Range(SubSeq(args, i + 1, Len(args)))
                     /\ args[i].name \notin after
                     /\ live[args[i].name].is = "owned"}
        vals == GetAll(args)
    IN [vals |-> vals, live |-> Without(live, {args[i].name : i \in moved}),
        heap |-> FoldSet(LAMBDA i, h : Clone(h, vals[i]), heap, DOMAIN args \ moved)]

\* arg_slots_codegen: the first arguments go in slots, a list takes the others.
Slots(args) ==
    LET n == Min({MaxDirectArgs, Len(args)})
        direct == TakeArgs(SubSeq(args, 1, n), {})
        rest == MakeList(direct.heap, GetAll(SubSeq(args, n + 1, Len(args))))
    IN [direct |-> direct.vals, rest |-> rest.val, live |-> direct.live, heap |-> rest.heap]
Passed(slots, h) == slots.direct \o Elements(h, slots.rest)

\* A list of the values that takes them over.
Gather(h, vals, rest) ==
    FoldLeft(LAMBDA acc, v : [val |-> Ref(Len(acc.heap) + 1), heap |-> Append(acc.heap, Pair(v, acc.val))],
             [val |-> rest, heap |-> h], Reverse(vals))

\* Args::pack.
PackedIn(vals, h) ==
    LET n == Min({MaxDirectArgs, Len(vals)})
        rest == Gather(h, SubSeq(vals, n + 1, Len(vals)), Null)
    IN [direct |-> SubSeq(vals, 1, n), rest |-> rest.val, heap |-> rest.heap]

\* The prologue of a procedure (ProcedureBundle::codegen): the arguments, owned. The required ones that
\* are in the list are cloned out of it.
Unpack(b, slots, h) ==
    LET n == NumRequired(b)
        d == Len(slots.direct)
        rest == Gather(h, SubSeq(slots.direct, n + 1, d), slots.rest)
        after == Rest(h, slots.rest, n - d)
        taken == SubSeq(Passed(slots, h), d + 1, n)
    IN CASE n <= MaxDirectArgs /\ b.variadic -> [vals |-> SubSeq(slots.direct, 1, n) \o <<rest.val>>, heap |-> rest.heap]
         [] n <= MaxDirectArgs /\ ~b.variadic -> [vals |-> slots.direct, heap |-> h]
         [] OTHER -> [vals |-> slots.direct \o taken \o IF b.variadic THEN <<after>> ELSE <<>>,
                      heap |-> Drop(CloneAll(Clone(h, after), taken), slots.rest)]

DropSlots(h, slots) == Drop(FoldLeft(Drop, h, slots.direct), slots.rest)

\* Procedure b runs, with l its environment.
Enter(b, l, slots, h) ==
    IF ~Accepts(b.args, b.variadic, Len(Passed(slots, h))) THEN End("arity", <<>>, DropSlots(DropAll(h, l), slots))
    ELSE /\ \E args \in {Unpack(b, slots, h)} :
               Continue(b.body, [x \in Range(b.args) |-> Owned(args.vals[CHOOSE i \in DOMAIN b.args : b.args[i] = x])] @@ l,
                        args.heap)
         /\ scopes' = <<>>
         /\ UNCHANGED <<stage, result>>

\* An assigned variable is in the environment as its cell.
FromEnv(env, how) == [x \in DOMAIN env |-> [is |-> IF x \in code.cells THEN "cell" ELSE how, val |-> env[x]]]

\* pop_jit_continuation: the topmost continuation gets the values. It owns what pop_env gives it.
ReturnTo(slots, h) ==
    /\ stack' = Front(stack)
    /\ Enter(Last(stack).b, FromEnv(Last(stack).env, "owned"), slots, h)

-----------------------------------------------------------------------------
(* Instructions. *)

Vals(t) == CASE t.inst = "primop" -> IF t.op = "Set" THEN Tail(t.args) ELSE t.args
             [] t.inst = "app" -> IF t.op.kind = "local" /\ t.op.name \in DOMAIN scopes \cup code.conts THEN t.args
                                  ELSE <<t.op>> \o SelectSeq(t.args, LAMBDA v : v.kind # "local" \/ v.name \notin code.conts)
             [] t.inst = "if" -> <<t.cond>>
             [] t.inst = "halt" -> <<t.val>>
             [] OTHER -> <<>>

\* A cell or a global without a value; one operand after the other is looked at.
Unread(t) == {v \in Range(Vals(t)) : v.kind = "global" \/ (v.kind = "local" /\ live[v.name].is = "cell")}
IsReadable(t) == \A v \in Unread(t) : Get(v) # Uninitialized

At(inst) == stage = "running" /\ term.inst = inst /\ IsReadable(term)
AtPrimOp(ops) == At("primop") /\ term.op \in ops

\* The names of a procedure that it finds in its environment. A continuation of the same group is known
\* only if it comes before.
EnvOf(bindings, i) ==
    LET later == {b.val : b \in Range(SubSeq(bindings, i, Len(bindings)))}
    IN FreeVariables(bindings[i].body) \ (Range(Params(bindings[i])) \cup (code.conts \ later))

-----------------------------------------------------------------------------
Load ==
    /\ stage = "done"
    /\ stage' = "running"
    /\ code' = Analyzed(term, FindEscaping(term, Procs(term)))
    /\ UNCHANGED <<program, term, uses, live, scopes, stack, heap, globals, trace, result>>

ErrorUnboundVariable ==
    /\ stage = "running" /\ ~IsReadable(term)
    /\ Raise("undefined variable", live, heap)

AllocCell ==
    /\ AtPrimOp({"AllocCell"})
    /\ Continue(term.body, (term.res :> InCell(Ref(Len(heap) + 1))) @@ live,
                Append(heap, Object("cell", <<Uninitialized>>, "cell")))
    /\ UNCHANGED outside

ReadCell ==
    /\ AtPrimOp({"Read"})
    /\ \E v \in {Get(term.args[1])} : Continue(term.body, (term.res :> Owned(v)) @@ live, Clone(heap, v))
    /\ UNCHANGED outside

\* store: the new value is cloned, what the cell held is dropped.
StoreLocal ==
    /\ AtPrimOp({"Set"}) /\ term.args[1].kind = "local"
    /\ \E v \in {Get(term.args[2])}, at \in {live[term.args[1].name].val.at} :
          Continue(term.body, live, Drop([Clone(heap, v) EXCEPT ![at].parts[1] = v], heap[at].parts[1]))
    /\ UNCHANGED outside

StoreGlobal ==
    /\ AtPrimOp({"Set"}) /\ term.args[1].kind = "global"
    /\ \E v \in {Get(term.args[2])}, g \in {term.args[1].name} :
          /\ globals' = [globals EXCEPT ![g] = v]
          /\ Continue(term.body, live, Drop(Clone(heap, v), globals[g]))
    /\ UNCHANGED <<stage, scopes, stack, trace, result>>

\* Operators whose result the code owns.
BuildList ==
    /\ AtPrimOp({"List", "ExpandTemplate"})
    /\ \E r \in {MakeList(heap, GetAll(term.args))} : Continue(term.body, (term.res :> Owned(r.val)) @@ live, r.heap)
    /\ UNCHANGED outside

Matches ==
    /\ AtPrimOp({"Matches"})
    /\ \E v \in {Get(term.args[2])} :
       \E r \in {IF Get(term.args[1]) \in {Datum(AnyPattern), v} THEN MakeList(heap, <<v>>)
                 ELSE [val |-> Datum(False), heap |-> heap]} :
          Continue(term.body, (term.res :> Owned(r.val)) @@ live, r.heap)
    /\ UNCHANGED outside

Not ==
    /\ AtPrimOp({"Not"})
    /\ Continue(term.body, (term.res :> Borrowed(Truth(~IsTrue(Get(term.args[1]))))) @@ live, heap)
    /\ UNCHANGED outside

IsPair(h, v) == v.type = "ref" /\ h[v.at].kind = "pair"

Car ==
    /\ AtPrimOp({"Car"})
    /\ \E v \in {Get(term.args[1])} :
          IF ~IsPair(heap, v) THEN Raise("not a pair", live, heap)
          ELSE /\ \E car \in {heap[v.at].parts[1]} :
                     Continue(term.body, (term.res :> Owned(car)) @@ live, Clone(heap, car))
               /\ UNCHANGED outside

\* A known function that the code calls itself takes its arguments over. When it raises, the others are dropped.
CallKnown ==
    /\ AtPrimOp({"CallKnown0", "CallKnown1"})
    /\ \E name \in {Get(term.args[1]).of}, r \in {TakeArgs(Tail(term.args), LiveIn(term.body))} :
       \E dropped \in {FoldLeft(Drop, r.heap, r.vals)}, l \in {Gather(r.heap, r.vals, Null)} :
          IF Refuses(SeenAll(heap, r.vals)) THEN Raise("wrong type", r.live, dropped)
          ELSE /\ trace' = Append(trace, <<name, SeenAll(heap, r.vals)>>)
               /\ IF term.op = "CallKnown0"
                  THEN Continue(term.body, (term.res :> Borrowed(Null)) @@ r.live, dropped)
                  ELSE Continue(term.body, (term.res :> Owned(l.val)) @@ r.live, l.heap)
               /\ UNCHANGED <<stage, scopes, stack, globals, result>>

ErrorNoPatternsMatch ==
    /\ AtPrimOp({"ErrorNoPatternsMatch"})
    /\ Raise("no pattern matches", live, heap)

Branches ==
    /\ At("if")
    /\ Continue(IF IsTrue(Get(term.cond)) THEN term.success ELSE term.failure, live, heap)
    /\ UNCHANGED outside

-----------------------------------------------------------------------------
(* Lambdas. *)

\* alloc_procedure_codegen for the functions of a group, which get no references to each other yet.
AllocProcedures(bindings, group) ==
    LET Alloc(acc, i) ==
            LET env == EnvOf(bindings, i)
                parts == [x \in env |-> IF x \in group THEN Uninitialized ELSE acc.live[x].val]
                at == Len(acc.heap) + 1
                Keep(x, h) == Clone(h, parts[x])
            IN IF IsContinuation(bindings[i]) THEN acc
               ELSE [live |-> (bindings[i].val :> Owned(Ref(at))) @@ acc.live,
                     heap |-> Append(FoldSet(Keep, acc.heap, env), Object("closure", parts, bindings[i]))]
    IN FoldLeft(Alloc, [live |-> live, heap |-> heap], [i \in DOMAIN bindings |-> i])

\* patch_env_codegen: then they do.
PatchEnvs(made, group) ==
    LET Patch(acc, f) ==
            LET at == made.live[f].val.at
                Knows(x, h) == [Clone(h, made.live[x].val) EXCEPT ![at].parts[x] = made.live[x].val]
            IN FoldSet(Knows, acc, DOMAIN made.heap[at].parts \cap group)
    IN FoldSet(LAMBDA f, acc : Patch(acc, f), made.heap, group)

\* push_continuation for the continuations that escape.
PushConts(bindings, l, h) ==
    LET Push(acc, i) ==
            LET b == bindings[i]
                env == [x \in EnvOf(bindings, i) |-> l[x].val]
                Keep(x, g) == Clone(g, env[x])
            IN IF IsFunc(b) \/ b.val \notin code.escaping THEN acc
               ELSE [stack |-> Append(acc.stack, [b |-> b, env |-> env]),
                     heap |-> FoldSet(Keep, acc.heap, DOMAIN env)]
    IN FoldLeft(Push, [stack |-> stack, heap |-> h], [i \in DOMAIN bindings |-> i])

\* fix_codegen: the other continuations are blocks of this procedure.
BindFix ==
    /\ At("fix")
    /\ \E group \in {{b.val : b \in {c \in Range(term.bindings) : IsFunc(c)}}} :
       \E made \in {AllocProcedures(term.bindings, group)} :
       \E pushed \in {PushConts(term.bindings, made.live, PatchEnvs(made, group))} :
          /\ Continue(term.body, made.live, pushed.heap)
          /\ stack' = pushed.stack
          /\ scopes' = [k \in {b.val : b \in {c \in Range(term.bindings) : IsContinuation(c) /\ c.val \notin code.escaping}} |->
                           [live |-> made.live, b |-> CHOOSE b \in Range(term.bindings) : b.val = k]] @@ scopes
    /\ UNCHANGED <<stage, globals, trace, result>>

IsLocalCont(v) == v.kind = "local" /\ v.name \in DOMAIN scopes
IsStackCont(v) == v.kind = "local" /\ v.name \in code.conts

\* jump_codegen, and the state local_cont_codegen begins with: what its scope owned and it still needs.
Jump ==
    /\ At("app") /\ IsLocalCont(term.op)
    /\ \E after \in {code.contLive[term.op.name]}, b \in {scopes[term.op.name].b}, scope \in {scopes[term.op.name].live} :
       \E r \in {TakeArgs(term.args, after)} :
       \E kept \in {Without(scope, OwnedLocals(scope) \ (LiveIn(b.body) \cup {Self}))} :
          Continue(b.body, [x \in Range(b.args) |-> Owned(r.vals[CHOOSE i \in DOMAIN b.args : b.args[i] = x])] @@ kept,
                   DropDead(r.live, r.heap, after).heap)
    /\ UNCHANGED outside

\* The continuation on the stack is called; a tail call.
Return ==
    /\ At("app") /\ ~IsLocalCont(term.op) /\ IsStackCont(term.op)
    /\ \E s \in {Slots(term.args)} : ReturnTo(s, DropAll(s.heap, s.live))
    /\ UNCHANGED <<globals, trace>>

\* What a call passes: its continuation is on the stack already.
ArgsOf(t) == IF t.args # <<>> /\ IsStackCont(t.args[1]) THEN Tail(t.args) ELSE t.args
IsCall == At("app") /\ ~IsLocalCont(term.op) /\ ~IsStackCont(term.op)
IsClosure(v) == v.type = "ref" /\ heap[v.at].kind = "closure"

\* A tail call of a compiled procedure, which owns itself from then on and borrows its environment.
CallProcedure ==
    /\ IsCall /\ IsClosure(Get(term.op))
    /\ \E op \in {Get(term.op)}, s \in {Slots(ArgsOf(term))} :
       \E moves \in {term.op.kind = "local" /\ term.op.name \in DOMAIN s.live /\ s.live[term.op.name].is = "owned"} :
       \E h \in {IF moves THEN DropAll(s.heap, Without(s.live, {term.op.name})) ELSE DropAll(Clone(s.heap, op), s.live)} :
          Enter(h[op.at].of, (Self :> Owned(op)) @@ FromEnv(h[op.at].parts, "ref"), s, h)
    /\ UNCHANGED <<stack, globals, trace>>

\* What a procedure of the runtime returns; it takes the values over.
Gives(vals, h) == [end |-> "values", vals |-> vals, heap |-> h]
BuiltinResult(name, vals, h) ==
    LET dropped == FoldLeft(Drop, h, vals)
        l == Gather(h, vals, Null)
        fits == CASE name \in Observed -> TRUE
                  [] name \in DOMAIN KnownOf -> Len(vals) = KnownOf[name].args
                  [] OTHER -> Len(vals) = PrimOpOf[name].required \/ PrimOpOf[name].variadic
        op == IF name \in DOMAIN PrimOpOf THEN PrimOpOf[name].op ELSE "none"
    IN CASE ~fits -> [end |-> "arity", vals |-> <<>>, heap |-> dropped]
         [] fits /\ name \in Observed -> Gives(vals, h)
         [] fits /\ name \in DOMAIN KnownOf /\ Refuses(SeenAll(h, vals)) -> [end |-> "wrong type", vals |-> <<>>, heap |-> dropped]
         [] fits /\ name \in DOMAIN KnownOf -> IF KnownOf[name].returns THEN Gives(<<l.val>>, l.heap) ELSE Gives(<<>>, dropped)
         [] fits /\ op = "List" -> Gives(<<l.val>>, l.heap)
         [] fits /\ op = "Not" -> Gives(<<Truth(~IsTrue(vals[1]))>>, dropped)
         [] OTHER -> IF ~IsPair(h, vals[1]) THEN [end |-> "not a pair", vals |-> <<>>, heap |-> dropped]
                     ELSE LET part == h[vals[1].at].parts[1] IN Gives(<<part>>, Drop(Clone(h, part), vals[1]))

\* apply: the application goes to the trampoline, and what the procedure returns to the continuation.
CallBuiltinProcedure ==
    /\ IsCall /\ Get(term.op).type = "builtin"
    /\ \E name \in {Get(term.op).of}, s \in {Slots(ArgsOf(term))} :
       \E vals \in {Passed(s, s.heap)}, h \in {DropAll(s.heap, s.live)} :
       \E owned \in {Drop(CloneAll(h, Elements(h, s.rest)), s.rest)} :
       \E r \in {BuiltinResult(name, vals, owned)} :
          /\ trace' = IF r.end = "values" /\ name \notin DOMAIN PrimOpOf THEN Append(trace, <<name, SeenAll(owned, vals)>>) ELSE trace
          /\ IF r.end # "values" THEN End(r.end, <<>>, r.heap) /\ UNCHANGED stack
             ELSE \E back \in {PackedIn(r.vals, r.heap)} : ReturnTo(back, back.heap)
    /\ UNCHANGED globals

CallNoProcedure ==
    /\ IsCall /\ ~IsClosure(Get(term.op)) /\ Get(term.op).type # "builtin"
    /\ \E s \in {Slots(ArgsOf(term))} : Raise("not a procedure", s.live, DropSlots(s.heap, s))

\* halt: the values in the list are the result.
Stop ==
    /\ At("halt")
    /\ \E vals \in {Elements(heap, Get(term.val))} : End("values", vals, DropAll(CloneAll(heap, vals), live))
    /\ UNCHANGED <<stack, globals, trace>>

-----------------------------------------------------------------------------
MachineInit ==
    /\ Init
    /\ code = <<>> /\ live = <<>> /\ scopes = <<>> /\ stack = <<>> /\ heap = <<>>
    /\ globals = [g \in DOMAIN Initial |-> Datum(Initial[g])]
    /\ trace = <<>> /\ result = <<>>

Execute ==
    \/ Load \/ ErrorUnboundVariable
    \/ AllocCell \/ ReadCell \/ StoreLocal \/ StoreGlobal
    \/ BuildList \/ Matches \/ Not \/ Car \/ CallKnown \/ ErrorNoPatternsMatch
    \/ Branches \/ BindFix \/ Jump \/ Return
    \/ CallProcedure \/ CallBuiltinProcedure \/ CallNoProcedure \/ Stop

MachineNext == (Next /\ UNCHANGED machineVars) \/ Execute

MachineSpec == MachineInit /\ [][MachineNext]_<<vars, machineVars>>

-----------------------------------------------------------------------------
\* The generated code does what the program says: the same calls and the same values or error.
SameOutcome == stage = "ended" => <<result.end, SeenAll(heap, result.vals), trace>> = MeaningOf(program)

\* How many places keep a reference to the object.
Kept(f, at) == Cardinality({x \in DOMAIN f : f[x] = Ref(at)})
Owners(at) ==
    Cardinality({x \in OwnedLocals(live) : live[x].val = Ref(at)})
    + Kept(globals, at) + (IF stage = "ended" THEN Kept(result.vals, at) ELSE 0)
    + FoldLeft(LAMBDA n, frame : n + Kept(frame.env, at), 0, stack)
    + FoldLeft(LAMBDA n, object : n + Kept(object.parts, at), 0, heap)

\* Each instruction leaves every count at the number of places that keep the object (a value moved twice or
\* not dropped on some path, an argument cloned for nothing), and borrowed values are kept by someone.
CountsExact ==
    /\ \A at \in DOMAIN heap : heap[at].refs = Owners(at)
    /\ \A x \in DOMAIN live : live[x].val.type = "ref" => heap[live[x].val.at].refs > 0
=============================================================================
