------------------------------- MODULE Hygiene -------------------------------
(***************************************************************************)
(* What a program with macros means, said without scopes: a name that a macro       *)
(* inserts is a new name, made of the old one and the number of the expansion. It     *)
(* denotes what binds exactly it, or else what the old name denotes where the macro    *)
(* was defined. A definition holds in the whole body it is in, from there on.           *)
(*                                                                         *)
(* The state, st, has the frames that bind names, the frame in which the macro of each    *)
(* expansion was defined, and the next number of a local variable.                        *)
(***************************************************************************)
EXTENDS AbstractSyntax

RECURSIVE Named(_)
Named(s) ==
    CASE s.t = "ident" -> [t |-> "ident", sym |-> s.sym, name |-> <<s.sym>>]
      [] s.t \in {"list", "vector"} -> [s EXCEPT !.items = [i \in DOMAIN s.items |-> Named(s.items[i])]]
      [] OTHER -> s

RECURSIVE InFrames(_, _, _), Denotes(_, _, _)
InFrames(name, f, st) ==
    IF name \in DOMAIN st.frames[f].names THEN st.frames[f].names[name]
    ELSE IF f = 1 THEN Nothing
    ELSE InFrames(name, st.frames[f].up, st)

Denotes(name, f, st) ==
    LET Or(found) == IF found # Nothing \/ Len(name) = 1 THEN found ELSE Denotes(Front(name), st.places[Last(name)], st)
    IN Or(InFrames(name, f, st))

DenotedBy(s, f, st) == IF IsIdent(s) THEN Denotes(s.name, f, st) ELSE Nothing

Frame(f, st) == [st EXCEPT !.frames = Append(@, [up |-> f, names |-> <<>>])]
Innermost(st) == Len(st.frames)
BindName(name, meaning, f, st) == [st EXCEPT !.frames[f].names = (name :> meaning) @@ @]
BindLocal(s, f, st) ==
    BindName(s.name, [is |-> "local", local |-> st.nextLocal], f, [st EXCEPT !.nextLocal = @ + 1])
RECURSIVE BindLocals(_, _, _)
BindLocals(ids, f, st) == IF ids = <<>> THEN st ELSE BindLocals(Tail(ids), f, BindLocal(ids[1], f, st))

-----------------------------------------------------------------------------
(* Patterns and templates. *)

\* The items of a list and what it ends in.
ItemsOf(s) == IF IsList(s) THEN Front(s.items) ELSE <<>>
EndOf(s) == IF IsList(s) THEN Last(s.items) ELSE s
From(items, i) == SubSeq(items, i, Len(items))

\* A literal stands for an identifier that denotes the same, where the macro was defined and where it is used.
SameDenotation(p, s, macro, f, st) ==
    LET Same(a, b) == a = b /\ (b = Nothing => p.sym = s.sym)
    IN IsIdent(s) /\ Same(DenotedBy(p, macro.frame, st), DenotedBy(s, f, st))

RECURSIVE NamesIn(_)
NamesIn(p) ==
    CASE p.t = "ident" -> {p.name}
      [] p.t \in {"list", "vector"} -> UNION {NamesIn(p.items[i]) : i \in DOMAIN p.items}
      [] OTHER -> {}

\* What each round binds, put in columns.
ColumnsOf(rounds, names) ==
    IF \E i \in DOMAIN rounds : ~rounds[i].ok THEN Failed
    ELSE Matched([n \in names |-> Sequence([i \in DOMAIN rounds |-> rounds[i].binds[n]])])

RECURSIVE Fits(_, _, _, _, _), FitsItems(_, _, _, _, _, _, _)
Fits(p, s, macro, f, st) ==
    CASE IsIdent(p) /\ p.name \in macro.literals ->
            IF SameDenotation(p, s, macro, f, st) THEN Matched(<<>>) ELSE Failed
      [] IsIdent(p) /\ p.name \notin macro.literals -> Matched(IF p.sym = "_" THEN <<>> ELSE p.name :> Leaf(s))
      [] p.t = "wrapped" -> IF s = p THEN Matched(<<>>) ELSE Failed
      [] p.t = "vector" -> IF s.t = "vector" THEN FitsItems(p.items, Nil, s.items, Nil, macro, f, st) ELSE Failed
      [] p.t = "list" -> IF s.t = "list" \/ s = Nil
                         THEN FitsItems(ItemsOf(p), EndOf(p), ItemsOf(s), EndOf(s), macro, f, st)
                         ELSE Failed

\* What is repeated takes as many forms as leave one for each pattern after it; the end takes what is left.
FitsItems(ps, end, forms, last, macro, f, st) ==
    LET more == Len(ps) > 1 /\ IsEllipsis(ps[2])
        taken == IF more THEN Len(forms) - (Len(ps) - 2) ELSE 1
        names == {v \in NamesIn(ps[1]) : v \notin macro.literals /\ v[1] \notin {"_", Ellipsis}}
        First(rounds) == IF more THEN ColumnsOf(rounds, names) ELSE rounds[1]
    IN IF ps = <<>> THEN Fits(end, Improper(Append(forms, last)), macro, f, st)
       ELSE IF taken \notin 0 .. Len(forms) THEN Failed
       ELSE Both(First([i \in 1 .. taken |-> Fits(ps[1], forms[i], macro, f, st)]),
                 FitsItems(From(ps, IF more THEN 3 ELSE 2), end, From(forms, taken + 1), last, macro, f, st))

\* The form of a template, in which k numbers the names that are new.
RECURSIVE Filled(_, _, _), FilledItems(_, _, _)
Filled(t, binds, k) ==
    CASE IsIdent(t) -> IF t.name \in DOMAIN binds THEN binds[t.name].of ELSE [t EXCEPT !.name = Append(@, k)]
      [] t.t = "list" -> Improper(FilledItems(t.items, binds, k))
      [] t.t = "vector" -> Vector(FilledItems(t.items, binds, k))
      [] OTHER -> t

FilledItems(ts, binds, k) ==
    LET Round(columns, i) == [v \in DOMAIN binds |-> IF v \in columns THEN binds[v].of[i] ELSE binds[v]]
        Rounds(columns, n) == [i \in 1 .. n |-> Filled(ts[1], Round(columns, i), k)]
        Repeated(columns) == Rounds(columns, CHOOSE n \in {Len(binds[v].of) : v \in columns} : TRUE)
        more == Len(ts) > 1 /\ IsEllipsis(ts[2])
    IN IF ts = <<>> THEN <<>>
       ELSE (IF more THEN Repeated({v \in NamesIn(ts[1]) \cap DOMAIN binds : binds[v].m = "seq"}) ELSE <<Filled(ts[1], binds, k)>>)
              \o FilledItems(From(ts, IF more THEN 3 ELSE 2), binds, k)

-----------------------------------------------------------------------------
(* Expressions. *)

Macro(s, f) ==
    [is |-> "macro", literals |-> {i.name : i \in ToSet(ItemsOf(s.items[2]))}, rules |-> From(ItemsOf(s), 3), frame |-> f]

\* The first rule that fits; the word that stands for the macro is no part of a rule.
RECURSIVE Rewritten(_, _, _, _, _)
Rewritten(rules, s, macro, f, st) ==
    LET Try(fit) == IF fit.ok THEN Filled(rules[1].items[2], fit.binds, Len(st.places) + 1)
                    ELSE Rewritten(Tail(rules), s, macro, f, st)
    IN IF ~IsList(s) \/ rules = <<>> THEN NoMatch
       ELSE Try(Fits(Improper(Tail(rules[1].items[1].items)), Improper(Tail(s.items)), macro, f, st))

RECURSIVE Simplest(_, _, _)
Simplest(s, f, st) ==
    LET By(d) == IF d.is # "macro" THEN [form |-> s, st |-> st]
                 ELSE Simplest(Rewritten(d.rules, s, d, f, st), f, [st EXCEPT !.places = Append(@, d.frame)])
    IN IF s = NoMatch THEN [form |-> s, st |-> st] ELSE By(DenotedBy(HeadOf(s), f, st))

Meant(expr, st) == [expr |-> expr, st |-> st]
AllMeant(kind, all) == Meant(Operation(kind, all.exprs), all.st)
NameOf(s, f, st) ==
    LET Name(d) == IF d.is = "primitive" THEN d.name ELSE "none" IN IF IsList(s) THEN Name(DenotedBy(s.items[1], f, st)) ELSE "none"
NamesKeywords(bindings) == \A i \in DOMAIN bindings : IsIdent(bindings[i].items[1])

\* The frame of let-syntax; its macros are defined outside it, those of letrec-syntax inside.
RECURSIVE BindMacros(_, _, _, _)
BindMacros(bindings, g, f, st) ==
    IF bindings = <<>> THEN st
    ELSE BindMacros(Tail(bindings), g, f, BindName(bindings[1].items[1].name, Macro(bindings[1].items[2], f), g, st))

SyntaxFrame(name, bindings, f, st) ==
    LET In(inner) == BindMacros(bindings, Innermost(inner), IF name = "letrec-syntax" THEN Innermost(inner) ELSE f, inner)
    IN In(Frame(f, st))

RECURSIVE Means(_, _, _), MeansForm(_, _, _), MeansEach(_, _, _), MeansOf(_, _, _, _), MeansScope(_, _, _, _),
          MeansLet(_, _, _, _), MeansNamedLet(_, _, _, _), MeansLetRec(_, _, _, _), Take(_, _, _, _), TakeForm(_, _, _, _),
          TakeEach(_, _, _, _), MeansBody(_, _, _), MeansInits(_, _), MeansExprs(_, _)

Means(s, f, st) ==
    LET After(simple) == MeansForm(simple.form, f, simple.st) IN After(Simplest(s, f, st))

MeansForm(form, f, st) ==
    CASE form \in {NoMatch, Nil} -> Meant(Bad, st)
      [] IsIdent(form) -> Meant(Reference(DenotedBy(form, f, st)), st)
      [] form.t \in {"wrapped", "vector"} /\ form # Nil -> Meant(Literal(form), st)
      [] IsList(form) -> MeansOf(NameOf(form, f, st), ItemsOf(form), f, st)

MeansEach(forms, f, st) ==
    LET Add(first, rest) == [exprs |-> <<first.expr>> \o rest.exprs, st |-> rest.st]
        After(first) == Add(first, MeansEach(Tail(forms), f, first.st))
    IN IF forms = <<>> THEN [exprs |-> <<>>, st |-> st] ELSE After(Means(forms[1], f, st))

MeansOf(name, items, f, st) ==
    LET first == items[2]
        body == From(items, 3)
        Set(value) == Meant(Operation("set", <<Reference(DenotedBy(first, f, st)), value.expr>>), value.st)
        Inner(inner) == AllMeant("begin", MeansEach(body, Innermost(inner), inner))
    IN CASE name = "none" -> AllMeant("apply", MeansEach(items, f, st))
         [] name \in {"begin", "if", "and", "or"} -> AllMeant(name, MeansEach(Tail(items), f, st))
         [] name = "quote" -> Meant(Literal(first), st)
         [] name = "set!" -> Set(Means(body[1], f, st))
         [] name = "lambda" -> MeansScope(FormalsOf(first), body, f, st)
         [] name = "let" -> IF IsIdent(first) THEN MeansNamedLet(first, body, f, st) ELSE MeansLet(ItemsOf(first), body, f, st)
         [] name = "letrec" -> MeansLetRec(ItemsOf(first), body, f, st)
         [] name \in {"let-syntax", "letrec-syntax"} ->
               IF NamesKeywords(ItemsOf(first)) THEN Inner(SyntaxFrame(name, ItemsOf(first), f, st)) ELSE Meant(Bad, st)
         [] OTHER -> Meant(Bad, st)

IdsOf(bindings) == [i \in DOMAIN bindings |-> bindings[i].items[1]]
ValuesOf(bindings) == [i \in DOMAIN bindings |-> bindings[i].items[2]]

\* A procedure: a frame for its arguments, around a body.
MeansScope(formals, body, f, st) ==
    LET Made(inner) == Meant(Binder("lambda", LocalsFrom(st.nextLocal, Len(formals)), <<>>, inner.expr), inner.st)
        In(inside) == MeansBody(body, Innermost(inside), inside)
        New(frame) == Made(In(BindLocals(formals, Innermost(frame), frame)))
    IN IF LegalFormals(formals) THEN New(Frame(f, st)) ELSE Meant(Bad, st)

\* A let is the application of a procedure.
MeansLet(bindings, body, f, st) ==
    LET Made(inits, lambda) ==
            Meant(IF lambda.expr = Bad THEN Bad ELSE Binder("let", lambda.expr.locals, inits, lambda.expr.body), lambda.st)
        After(inits) == Made(inits.exprs, MeansScope(IdsOf(bindings), body, f, inits.st))
    IN After(MeansEach(ValuesOf(bindings), f, st))

\* A named let applies a procedure that its name denotes in the procedure's body.
MeansNamedLet(id, tail, f, st) ==
    LET bindings == ItemsOf(tail[1])
        Made(lambda, inits) ==
            Meant(Binder("letrec", <<st.nextLocal>>, <<lambda>>, Operation("apply", <<Local(st.nextLocal)>> \o inits.exprs)), inits.st)
        After(lambda) == Made(lambda.expr, MeansEach(ValuesOf(bindings), f, lambda.st))
        In(inside) == After(MeansScope(IdsOf(bindings), Tail(tail), Innermost(inside), inside))
        New(frame) == In(BindLocal(id, Innermost(frame), frame))
    IN New(Frame(f, st))

MeansLetRec(bindings, body, f, st) ==
    LET Made(inits, inner) ==
            Meant(Binder("letrec", LocalsFrom(st.nextLocal, Len(bindings)), inits, inner.expr), inner.st)
        After(inits, g) == Made(inits.exprs, MeansBody(body, g, inits.st))
        In(inside) == After(MeansEach(ValuesOf(bindings), Innermost(inside), inside), Innermost(inside))
        New(frame) == In(BindLocals(IdsOf(bindings), Innermost(frame), frame))
    IN IF LegalFormals(IdsOf(bindings)) THEN New(Frame(f, st)) ELSE Meant(Bad, st)

-----------------------------------------------------------------------------
(* Bodies: a definition binds its name in the frame b of the body as soon as it is seen. *)

TakeEach(forms, f, b, acc) == IF forms = <<>> THEN acc ELSE TakeEach(Tail(forms), f, b, Take(forms[1], f, b, acc))

Take(s, f, b, acc) ==
    LET After(simple) == TakeForm(simple.form, f, b, [acc EXCEPT !.st = simple.st]) IN After(Simplest(s, f, acc.st))

TakeForm(form, f, b, acc) ==
    LET name == NameOf(form, f, acc.st)
        tail == Tail(ItemsOf(form))
        Defined(id) ==
            [acc EXCEPT !.defs = Append(@, [id |-> id, tail |-> tail, frame |-> f]),
                        !.st = IF b = 1 THEN BindName(id.name, [is |-> "global", sym |-> id.sym], 1, @) ELSE BindLocal(id, b, @)]
        Inner(inner) == TakeEach(Tail(tail), Innermost(inner), b, [acc EXCEPT !.st = inner])
    IN CASE name = "begin" -> TakeEach(tail, f, b, acc)
         [] name = "define" -> Defined(IF IsList(tail[1]) THEN tail[1].items[1] ELSE tail[1])
         [] name = "define-syntax" -> [acc EXCEPT !.st = BindName(tail[1].name, Macro(tail[2], f), b, @)]
         [] name \in {"let-syntax", "letrec-syntax"} /\ NamesKeywords(ItemsOf(tail[1])) ->
               Inner(SyntaxFrame(name, ItemsOf(tail[1]), f, acc.st))
         [] OTHER -> [acc EXCEPT !.exprs = Append(@, [form |-> form, frame |-> f])]

MeansInits(defs, st) ==
    LET Add(first, rest) == [exprs |-> <<first.expr>> \o rest.exprs, st |-> rest.st]
        After(first) == Add(first, MeansInits(Tail(defs), first.st))
        Of(def) == IF IsList(def.tail[1])
                   THEN MeansScope(FormalsOf(Improper(Tail(def.tail[1].items))), Tail(def.tail), def.frame, st)
                   ELSE Means(def.tail[2], def.frame, st)
    IN IF defs = <<>> THEN [exprs |-> <<>>, st |-> st] ELSE After(Of(defs[1]))

MeansExprs(items, st) ==
    LET Add(first, rest) == [exprs |-> <<first.expr>> \o rest.exprs, st |-> rest.st]
        After(first) == Add(first, MeansExprs(Tail(items), first.st))
    IN IF items = <<>> THEN [exprs |-> <<>>, st |-> st] ELSE After(MeansForm(items[1].form, items[1].frame, st))

MeansBody(forms, b, st) ==
    LET Vars(defs, s) == [i \in DOMAIN defs |-> Reference(DenotedBy(defs[i].id, b, s))]
        Sets(vars, inits) == [i \in DOMAIN vars |-> Operation("set", <<vars[i], inits[i]>>)]
        Locals(vars) == [i \in DOMAIN vars |-> vars[i].local]
        Made(vars, inits, exprs) ==
            IF b = 1 \/ vars = <<>> THEN Operation("body", Sets(vars, inits) \o exprs)
            ELSE Binder("letrec", Locals(vars), inits, Operation("body", exprs))
        All(defs, inits, exprs) == Meant(Made(Vars(defs, exprs.st), inits.exprs, exprs.exprs), exprs.st)
        Inits(taken, inits) == All(taken.defs, inits, MeansExprs(taken.exprs, inits.st))
        Taken(taken) == Inits(taken, MeansInits(taken.defs, taken.st))
    IN IF forms = <<>> THEN Meant(Bad, st) ELSE Taken(TakeEach(forms, b, b, [defs |-> <<>>, exprs |-> <<>>, st |-> st]))

TopState ==
    [frames |-> <<[up |-> 1, names |-> [name \in {<<Primitives[i]>> : i \in DOMAIN Primitives} |->
                                          [is |-> "primitive", name |-> name[1]]]]>>,
     places |-> <<>>,
     nextLocal |-> 1]

MeaningOf(forms) == MeansBody([i \in DOMAIN forms |-> Named(forms[i])], 1, TopState).expr

\* Two expressions are alike if they differ only in the numbers of their local variables; pairs has those that correspond.
RECURSIVE Alike(_, _, _)
Alike(a, b, pairs) ==
    /\ a.e = b.e
    /\ CASE a.e = "local" -> <<a.local, b.local>> \in pairs
         [] a.e = "global" -> a.sym = b.sym
         [] a.e = "operation" ->
               /\ a.kind = b.kind /\ Len(a.parts) = Len(b.parts)
               /\ \A i \in DOMAIN a.parts : Alike(a.parts[i], b.parts[i], pairs)
         [] a.e = "binder" ->
               LET all == pairs \cup {<<a.locals[i], b.locals[i]>> : i \in DOMAIN a.locals}
               IN /\ a.kind = b.kind /\ Len(a.locals) = Len(b.locals) /\ Len(a.inits) = Len(b.inits)
                  /\ \A i \in DOMAIN a.inits : Alike(a.inits[i], b.inits[i], all)
                  /\ Alike(a.body, b.body, all)
         [] OTHER -> TRUE
=============================================================================
