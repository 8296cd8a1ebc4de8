--------------------------- MODULE AbstractSyntax ---------------------------
(***************************************************************************)
(* The macro expander and the parser of expressions and bodies (ast.rs,            *)
(* syntax/mod.rs). A transformer is what syntax-rules makes of its rules: each has   *)
(* a pattern and a template; the parameter of the procedure around them is left out.  *)
(* Each binding form has a contour and a scope; the scope is added to the names it      *)
(* binds and to its body.                                                          *)
(*                                                                         *)
(* A step takes the context and gives it back changed, with an expression: a variable, *)
(* a literal, an operation on others, or a form that binds local variables. What is     *)
(* refused anywhere is Bad as a whole.                                             *)
(***************************************************************************)
EXTENDS SyntaxCase

Bad == [e |-> "bad"]
Local(local) == [e |-> "local", local |-> local]
Global(sym) == [e |-> "global", sym |-> sym]
Literal(value) == [e |-> "literal", value |-> value]
Undefined == [e |-> "undefined"]

\* An operation, bad if a part of it is.
Operation(kind, parts) ==
    IF \E i \in DOMAIN parts : parts[i] = Bad THEN Bad ELSE [e |-> "operation", kind |-> kind, parts |-> parts]

\* A form that binds local variables: "lambda", "let" or "letrec".
Binder(kind, locals, inits, body) ==
    IF body = Bad \/ \E i \in DOMAIN inits : inits[i] = Bad THEN Bad
    ELSE [e |-> "binder", kind |-> kind, locals |-> locals, inits |-> inits, body |-> body]

Result(expr, cx) == [expr |-> expr, cx |-> cx]
Refused(cx) == Result(Bad, cx)
Results(exprs, cx) == [exprs |-> exprs, cx |-> cx]

AllIdents(forms) == \A i \in DOMAIN forms : IsIdent(forms[i])
Distinct(forms) == Cardinality({forms[i] : i \in DOMAIN forms}) = Len(forms)

NewScope(cx) == [cx EXCEPT !.nextScope = @ + 1]
KeywordOf(s, env, cx) == IF IsIdent(s) THEN Meaning(s, env, cx) ELSE Nothing
IsPrimitive(s, name, env, cx) == KeywordOf(s, env, cx) = [is |-> "primitive", name |-> name]

-----------------------------------------------------------------------------
(* Transformers: the rules of a syntax-rules form, and their application. *)

\* SyntaxRule::compile: the pattern in a scope of its own, which the template gets too.
CompileRule(rule, keywords, cx) ==
    LET scope == cx.nextScope
        Made(compiled, template) ==
            [pattern |-> compiled.pattern,
             template |-> CompileTemplate(template, FALSE, compiled.vars, compiled.cx),
             legal |-> compiled.legal /\ LegalTemplate(template, compiled.vars, compiled.cx),
             cx |-> compiled.cx]
        arguments == Tail(rule.items[1].items)
        pattern == List(<<Ident("_", {})>> \o arguments)
    IN Made(CompilePattern(pattern, keywords, 0, scope, NewScope(cx)), AddScope(rule.items[2], scope))

RECURSIVE CompileRules(_, _, _)
CompileRules(rules, keywords, cx) ==
    LET Add(first, rest) ==
            [rules |-> <<[pattern |-> first.pattern, template |-> first.template]>> \o rest.rules,
             legal |-> first.legal /\ rest.legal,
             cx |-> rest.cx]
        After(first) == Add(first, CompileRules(Tail(rules), keywords, first.cx))
    IN IF rules = <<>> THEN [rules |-> <<>>, legal |-> TRUE, cx |-> cx]
       ELSE After(CompileRule(rules[1], keywords, cx))

IsRule(s) == IsProper(s) /\ Len(Items(s)) = 2 /\ IsList(s.items[1])

\* The transformer of an expression, nothing if it is none.
Transformer(s, env, cx) ==
    LET literals == ToSet(Items(s.items[2]))
        rules == SubSeq(Items(s), 3, Len(Items(s)))
        Made(compiled) ==
            [meaning |-> IF compiled.legal THEN [is |-> "keyword", rules |-> compiled.rules] ELSE Nothing, cx |-> compiled.cx]
    IN IF /\ IsProper(s) /\ Len(Items(s)) >= 2
          /\ IsPrimitive(s.items[1], "syntax-rules", env, cx)
          /\ s.items[2] = Nil \/ IsProper(s.items[2])
          /\ \A literal \in literals : IsIdent(literal)
          /\ \A i \in DOMAIN rules : IsRule(rules[i])
       THEN Made(CompileRules(rules, literals, cx))
       ELSE [meaning |-> Nothing, cx |-> cx]

NoMatch == [t |-> "none"]

\* The first rule that matches.
RECURSIVE ApplyRules(_, _, _)
ApplyRules(rules, s, cx) ==
    LET Try(match) == IF match.ok THEN Expand(rules[1].template, match.binds) ELSE ApplyRules(Tail(rules), s, cx)
    IN IF rules = <<>> THEN NoMatch ELSE Try(Matches(rules[1].pattern, s, cx))

\* What the transformer inserts has the scope of this expansion; what was in the input has not.
ApplyTransformer(transformer, s, cx) ==
    LET After(output) == IF output = NoMatch THEN output ELSE FlipScope(output, cx.nextScope)
    IN [form |-> After(ApplyRules(transformer.rules, AddScope(s, cx.nextScope), cx)), cx |-> NewScope(cx)]

\* The identifier that makes a form the use of a macro.
HeadOf(s) == IF IsList(s) THEN s.items[1] ELSE s

\* A macro may not be assigned to.
AssignsMacro(s, env, cx) ==
    IsList(s) /\ IsPrimitive(s.items[1], "set!", env, cx) /\ KeywordOf(s.items[2], env, cx).is = "keyword"

\* expand: as long as the form is the use of a macro.
RECURSIVE ExpandForm(_, _, _)
ExpandForm(s, env, cx) ==
    LET After(once) == ExpandForm(once.form, env, once.cx)
        By(meaning) ==
            IF meaning.is = "keyword" THEN After(ApplyTransformer(meaning, s, cx))
            ELSE [form |-> IF AssignsMacro(s, env, cx) THEN NoMatch ELSE s, cx |-> cx]
    IN IF s = NoMatch THEN [form |-> s, cx |-> cx] ELSE By(KeywordOf(HeadOf(s), env, cx))

-----------------------------------------------------------------------------
(* Expressions and bodies. *)

\* add_binding and def_var of a local variable, which is the one before the context's next.
DefLocal(id, env, cx) ==
    Define(env, cx.nextBinding, [is |-> "local", local |-> cx.nextLocal], [NewBind(id, cx) EXCEPT !.nextLocal = @ + 1])

RECURSIVE DefLocals(_, _, _)
DefLocals(ids, env, cx) == IF ids = <<>> THEN cx ELSE DefLocals(Tail(ids), env, DefLocal(ids[1], env, cx))

LocalsFrom(first, n) == [i \in 1 .. n |-> first + i - 1]

Reference(meaning) ==
    CASE meaning.is = "local" -> Local(meaning.local)
      [] meaning.is = "global" -> Global(meaning.sym)
      [] meaning = [is |-> "primitive", name |-> "undefined"] -> Undefined
      [] OTHER -> Bad

IsBindings(s) == s = Nil \/ IsProper(s)
IsBinding(s) == IsProper(s) /\ Len(Items(s)) = 2 /\ IsIdent(s.items[1])

\* The arguments of a procedure: the last may be one for all that are left.
FormalsOf(s) ==
    CASE s = Nil -> <<>>
      [] IsIdent(s) -> <<s>>
      [] IsProper(s) -> Items(s)
      [] IsList(s) /\ ~IsProper(s) -> s.items
      [] OTHER -> <<Nil>>

\* name_previously_bound is a comparison of symbols and scopes.
LegalFormals(formals) == AllIdents(formals) /\ Distinct(formals)

\* The primitive that a form begins with.
PrimitiveOf(s, env, cx) ==
    LET Name(meaning) == IF meaning.is = "primitive" THEN meaning.name ELSE "none"
    IN IF IsProper(s) THEN Name(KeywordOf(s.items[1], env, cx)) ELSE "none"

FirstAndRest(first, rest) == Results(<<first.expr>> \o rest.exprs, rest.cx)

-----------------------------------------------------------------------------
RECURSIVE Parse(_, _, _), ParseExpanded(_, _, _), ParseEach(_, _, _), ParseSpecial(_, _, _, _),
          ParseLambda(_, _, _, _), ParseBindings(_, _, _, _, _, _), ParseLet(_, _, _, _), ParseNamedLet(_, _, _, _, _),
          ParseLetRec(_, _, _, _), ParseSet(_, _, _, _), LetSyntax(_, _, _, _, _), LetSyntaxBindings(_, _, _, _, _, _),
          Splice(_, _, _, _), SpliceForm(_, _, _, _), SpliceExpanded(_, _, _, _), ParseDefinition(_, _, _), ParseDefinitions(_, _),
          ParseExprs(_, _), ParseBody(_, _, _, _)

Parse(form, env, cx) ==
    LET After(expanded) == ParseExpanded(expanded.form, env, expanded.cx) IN After(ExpandForm(form, env, cx))

ParseEach(forms, env, cx) ==
    LET After(first) == FirstAndRest(first, ParseEach(Tail(forms), env, first.cx))
    IN IF forms = <<>> THEN Results(<<>>, cx) ELSE After(Parse(forms[1], env, cx))

ParseExpanded(form, env, cx) ==
    CASE form \in {NoMatch, Nil} -> Refused(cx)
      [] IsIdent(form) -> Result(Reference(Meaning(form, env, cx)), cx)
      [] form.t = "wrapped" /\ form # Nil -> Result(Literal(form.value), cx)
      [] form.t = "vector" -> Result(Literal(form), cx)
      [] IsList(form) ->
            IF ~IsProper(form) THEN Refused(cx) ELSE ParseSpecial(PrimitiveOf(form, env, cx), Items(form), env, cx)

\* The form of a primitive, or the application of what the first item denotes.
ParseSpecial(name, items, env, cx) ==
    LET first == items[2]
        tail == Tail(items)
        body == SubSeq(items, 3, Len(items))
        All(kind, results) == Result(Operation(kind, results.exprs), results.cx)
        Inner(inner) ==
            IF inner.legal THEN All("begin", ParseEach(inner.forms, inner.env, inner.cx)) ELSE Refused(cx)
    IN CASE name = "none" -> All("apply", ParseEach(items, env, cx))
         [] name \in {"begin", "and", "or"} \/ (name = "if" /\ Len(tail) \in {2, 3}) -> All(name, ParseEach(tail, env, cx))
         [] name = "quote" /\ Len(tail) = 1 -> Result(Literal(first), cx)
         [] name = "set!" /\ Len(tail) = 2 -> IF IsIdent(first) THEN ParseSet(first, tail[2], env, cx) ELSE Refused(cx)
         [] name = "lambda" /\ tail # <<>> -> ParseLambda(FormalsOf(first), body, env, cx)
         [] name = "let" /\ tail # <<>> ->
               IF ~IsIdent(first) THEN ParseLet(first, body, env, cx)
               ELSE IF body = <<>> THEN Refused(cx)
               ELSE ParseNamedLet(first, body[1], Tail(body), env, cx)
         [] name = "letrec" /\ tail # <<>> -> ParseLetRec(first, body, env, cx)
         [] name \in {"let-syntax", "letrec-syntax"} /\ tail # <<>> ->
               Inner(LetSyntax(name = "letrec-syntax", first, body, env, cx))
         [] OTHER -> Refused(cx)

\* A local variable that is assigned to is noted for the compiler.
ParseSet(id, form, env, cx) ==
    LET Noted(meaning) == IF meaning.is = "local" THEN [cx EXCEPT !.mutable = @ \cup {meaning.local}] ELSE cx
        Assign(meaning, value) == Result(Operation("set", <<Reference(meaning), value.expr>>), value.cx)
        To(meaning) ==
            IF meaning.is \in {"local", "global"} THEN Assign(meaning, Parse(form, env, Noted(meaning))) ELSE Refused(cx)
    IN To(Meaning(id, env, cx))

ParseLambda(formals, body, env, cx) ==
    LET scope == cx.nextScope
        Body(start) ==
            ParseBody(AddScopes(body, {scope}), FALSE, Newest(start), DefLocals(AddScopes(formals, {scope}), Newest(start), start))
        Made(inner) == Result(Binder("lambda", LocalsFrom(cx.nextLocal, Len(formals)), <<>>, inner.expr), inner.cx)
    IN IF LegalFormals(formals) THEN Made(Body(NewContour(env, NewScope(cx)))) ELSE Refused(cx)

\* The bindings of a let: each value is parsed outside, then its name is bound in the contour.
ParseBindings(bindings, seen, env, contour, scopes, cx) ==
    LET name == bindings[1].items[1]
        Add(init, rest) ==
            [locals |-> <<init.cx.nextLocal>> \o rest.locals, inits |-> <<init.expr>> \o rest.inits, cx |-> rest.cx]
        After(init) ==
            Add(init, ParseBindings(Tail(bindings), seen \cup {name}, env, contour, scopes,
                                    DefLocal(AddScopes(<<name>>, scopes)[1], contour, init.cx)))
    IN IF bindings = <<>> THEN [locals |-> <<>>, inits |-> <<>>, cx |-> cx]
       ELSE IF ~IsBinding(bindings[1]) \/ name \in seen THEN [locals |-> <<>>, inits |-> <<Bad>>, cx |-> cx]
       ELSE After(Parse(bindings[1].items[2], env, cx))

ParseLet(bindings, body, env, cx) ==
    LET scopes == {cx.nextScope}
        Made(bound, inner) == Result(Binder("let", bound.locals, bound.inits, inner.expr), inner.cx)
        Body(bound, contour) == Made(bound, ParseBody(AddScopes(body, scopes), FALSE, contour, bound.cx))
        Start(start) == Body(ParseBindings(Items(bindings), {}, env, Newest(start), scopes, start), Newest(start))
    IN IF IsBindings(bindings) THEN Start(NewContour(env, NewScope(cx))) ELSE Refused(cx)

\* The name has a scope and a contour around those of the arguments.
ParseNamedLet(name, bindings, body, env, cx) ==
    LET scopes == {cx.nextScope, cx.nextScope + 1}
        Made(bound, inner) ==
            Result(Binder("letrec", <<cx.nextLocal>>, <<Binder("lambda", bound.locals, <<>>, inner.expr)>>,
                          Operation("apply", <<Local(cx.nextLocal)>> \o bound.inits)), inner.cx)
        Body(bound, contour) == Made(bound, ParseBody(AddScopes(body, scopes), FALSE, contour, bound.cx))
        Start(start) == Body(ParseBindings(Items(bindings), {}, env, Newest(start), scopes, start), Newest(start))
        Outer(outer) == Start(NewContour(Newest(outer), DefLocal(AddScope(name, cx.nextScope), Newest(outer), outer)))
    IN IF IsBindings(bindings) THEN Outer(NewContour(env, NewScope(NewScope(cx)))) ELSE Refused(cx)

\* All names are bound before any value is parsed.
ParseLetRec(bindings, body, env, cx) ==
    LET scopes == {cx.nextScope}
        items == Items(bindings)
        names == [i \in DOMAIN items |-> items[i].items[1]]
        values == [i \in DOMAIN items |-> items[i].items[2]]
        Made(inits, inner) ==
            Result(Binder("letrec", LocalsFrom(cx.nextLocal, Len(items)), inits.exprs, inner.expr), inner.cx)
        Body(inits, contour) == Made(inits, ParseBody(AddScopes(body, scopes), FALSE, contour, inits.cx))
        Start(start) ==
            Body(ParseEach(AddScopes(values, scopes), Newest(start), DefLocals(AddScopes(names, scopes), Newest(start), start)),
                 Newest(start))
    IN IF IsBindings(bindings) /\ (\A i \in DOMAIN items : IsBinding(items[i])) /\ Distinct(names)
       THEN Start(NewContour(env, NewScope(cx)))
       ELSE Refused(cx)

-----------------------------------------------------------------------------
(* Definitions of keywords. *)

\* define_syntax: the transformer may itself be the use of a macro.
DefineSyntax(binding, form, env, cx) ==
    LET Made(made) == [legal |-> made.meaning # Nothing, cx |-> Define(env, binding, made.meaning, made.cx)]
        After(expanded) == Made(Transformer(expanded.form, env, expanded.cx))
    IN After(ExpandForm(form, env, cx))

LetSyntaxBindings(bindings, recursive, scope, env, legal, cx) ==
    LET name == AddScope(bindings[1].items[1], scope)
        form == bindings[1].items[2]
        After(made) == LetSyntaxBindings(Tail(bindings), recursive, scope, env, made.legal, made.cx)
    IN IF bindings = <<>> \/ ~legal THEN [legal |-> legal, cx |-> cx]
       ELSE IF ~IsBinding(bindings[1]) THEN [legal |-> FALSE, cx |-> cx]
       ELSE After(DefineSyntax(cx.nextBinding, IF recursive THEN AddScope(form, scope) ELSE form, env, NewBind(name, cx)))

\* Mutant of BodyScopes: the body has no scope that the transformers have not.
BodyScopes_One(recursive, scope, next) == {scope}

\* The body of letrec-syntax is told from the transformers, which have the first scope too.
BodyScopes(recursive, scope, next) == IF recursive THEN {scope, next} ELSE {scope}

\* parse_let_syntax: the body with the new scopes, and the contour it is in.
LetSyntax(recursive, bindings, forms, env, cx) ==
    LET scope == cx.nextScope
        Plain(start) == [forms |-> forms, env |-> Newest(start), introduced |-> {}, legal |-> IsBindings(bindings), cx |-> start]
        Scoped(plain, bound, scopes) ==
            [plain EXCEPT !.forms = AddScopes(@, scopes),
                          !.introduced = scopes,
                          !.legal = bound.legal,
                          !.cx = IF recursive THEN NewScope(bound.cx) ELSE bound.cx]
        Inside(plain, bound) == Scoped(plain, bound, BodyScopes(recursive, scope, bound.cx.nextScope))
        Start(plain) ==
            IF ~IsProper(bindings) THEN plain
            ELSE Inside(plain, LetSyntaxBindings(Items(bindings), recursive, scope, plain.env, TRUE, plain.cx))
    IN Start(Plain(NewContour(env, NewScope(cx))))

-----------------------------------------------------------------------------
(* Bodies. *)

Spliced(cx) == [defs |-> <<>>, exprs |-> <<>>, introduced |-> {}, legal |-> TRUE, cx |-> cx]
Illegal(acc) == [acc EXCEPT !.legal = FALSE]

\* Splice: each form is expanded, what begin and the like hold is taken for forms of the body.
Splice(forms, permissive, env, acc) ==
    IF forms = <<>> \/ ~acc.legal THEN acc
    ELSE Splice(Tail(forms), permissive, env, SpliceForm(forms[1], permissive, env, acc))

SpliceForm(form, permissive, env, before) ==
    LET Expanded(expanded) == SpliceExpanded(expanded.form, permissive, env, [before EXCEPT !.cx = expanded.cx])
    IN Expanded(ExpandForm(form, env, before.cx))

SpliceExpanded(s, permissive, env, acc) ==
    LET name == PrimitiveOf(s, env, acc.cx)
        tail == Tail(Items(s))
        Defined(made) == IF made.legal THEN [acc EXCEPT !.cx = made.cx] ELSE Illegal(acc)
        Inner(inner) ==
            IF ~inner.legal THEN Illegal(acc)
            ELSE Splice(inner.forms, permissive, inner.env,
                        [acc EXCEPT !.introduced = @ \cup inner.introduced, !.cx = inner.cx])
    IN CASE s = NoMatch -> Illegal(acc)
         [] name = "begin" -> Splice(tail, permissive, env, acc)
         [] name = "define-syntax" ->
               IF Len(tail) # 2 \/ ~IsIdent(tail[1]) THEN Illegal(acc)
               ELSE Defined(DefineSyntax(BindingOf(tail[1], acc.cx), tail[2], env, Bind(tail[1], acc.cx)))
         [] name \in {"let-syntax", "letrec-syntax"} /\ tail # <<>> ->
               Inner(LetSyntax(name = "letrec-syntax", tail[1], Tail(tail), env, acc.cx))
         [] name = "define" ->
               IF ~permissive /\ acc.exprs # <<>> THEN Illegal(acc)
               ELSE [acc EXCEPT !.defs = Append(@, [form |-> s, env |-> env])]
         [] OTHER -> [acc EXCEPT !.exprs = Append(@, [form |-> s, env |-> env])]

\* The name that a definition binds: of a variable, or of a procedure with its arguments.
DefinedName(s) == IF IsList(s.items[2]) THEN s.items[2].items[1] ELSE s.items[2]

\* The definition of a body is of the binding its name has already, or of a new one.
MarkDefined(id, env, cx) ==
    LET bound == Bind(id, cx)
    IN IF env = 1 THEN Define(env, BindingOf(id, cx), [is |-> "global", sym |-> id.sym], bound)
       ELSE Define(env, BindingOf(id, cx), [is |-> "local", local |-> cx.nextLocal], [bound EXCEPT !.nextLocal = @ + 1])

RECURSIVE MarkAll(_, _, _, _)
MarkAll(defs, introduced, env, cx) ==
    IF defs = <<>> THEN cx
    ELSE MarkAll(Tail(defs), introduced, env, MarkDefined(RemoveScopes(DefinedName(defs[1].form), introduced), env, cx))

ParseDefinition(s, env, cx) ==
    LET name == DefinedName(s)
        tail == Tail(Items(s))
        bound == Bind(name, cx)
        Made(value) ==
            [var |-> Reference(Lookup(env, BindingOf(name, cx), cx)), init |-> value.expr, cx |-> value.cx]
    IN Made(CASE Len(tail) > 1 /\ IsList(tail[1]) ->
                    ParseLambda(FormalsOf(Improper(Tail(tail[1].items))), Tail(tail), env, bound)
              [] Len(tail) = 2 /\ IsIdent(tail[1]) -> Parse(tail[2], env, bound)
              [] OTHER -> Refused(cx))

ParseDefinitions(defs, cx) ==
    LET Add(first, rest) ==
            [vars |-> <<first.var>> \o rest.vars, inits |-> <<first.init>> \o rest.inits, cx |-> rest.cx]
        After(first) == Add(first, ParseDefinitions(Tail(defs), first.cx))
    IN IF defs = <<>> THEN [vars |-> <<>>, inits |-> <<>>, cx |-> cx]
       ELSE After(ParseDefinition(defs[1].form, defs[1].env, cx))

ParseExprs(items, cx) ==
    LET After(first) == FirstAndRest(first, ParseExprs(Tail(items), first.cx))
    IN IF items = <<>> THEN Results(<<>>, cx) ELSE After(ParseExpanded(items[1].form, items[1].env, cx))

\* parse_helper: the names of all definitions are marked before any is parsed; those of globals are assignments.
ParseBody(forms, permissive, env, cx) ==
    LET Assignments(defined) ==
            [i \in DOMAIN defined.vars |-> Operation("set", <<defined.vars[i], defined.inits[i]>>)]
        Locals(defined) == [i \in DOMAIN defined.vars |-> defined.vars[i].local]
        Made(defined, exprs) ==
            IF defined.vars = <<>> \/ env = 1
            THEN Result(Operation("body", Assignments(defined) \o exprs.exprs), exprs.cx)
            ELSE Result(Binder("letrec", Locals(defined), defined.inits, Operation("body", exprs.exprs)), exprs.cx)
        Exprs(defined, exprs) == Made(defined, ParseExprs(exprs, defined.cx))
        Marked(spliced) ==
            Exprs(ParseDefinitions(spliced.defs, MarkAll(spliced.defs, spliced.introduced, env, spliced.cx)), spliced.exprs)
        After(spliced) ==
            IF spliced.legal /\ \A i \in DOMAIN spliced.defs : IsIdent(DefinedName(spliced.defs[i].form))
            THEN Marked(spliced) ELSE Refused(cx)
    IN IF forms = <<>> THEN Refused(cx) ELSE After(Splice(forms, permissive, env, Spliced(cx)))

-----------------------------------------------------------------------------
(* A program: the keywords are bound in the scope of the top level, which every identifier of it has. *)

TopScope == 0
Primitives ==
    <<"begin", "lambda", "let", "letrec", "if", "and", "or", "quote", "set!", "define", "define-syntax",
      "let-syntax", "letrec-syntax", "syntax-rules">>

TopContext ==
    [table |-> [sym \in {Primitives[i] : i \in DOMAIN Primitives} |->
                  <<[scopes |-> {TopScope}, binding |-> CHOOSE i \in DOMAIN Primitives : Primitives[i] = sym]>>],
     contours |-> <<[up |-> 1, bindings |-> [i \in DOMAIN Primitives |-> [is |-> "primitive", name |-> Primitives[i]]]]>>,
     nextBinding |-> Len(Primitives) + 1,
     nextScope |-> TopScope + 1,
     nextLocal |-> 1,
     mutable |-> {}]

ParseProgram(forms) == ParseBody(AddScopes(forms, {TopScope}), TRUE, 1, TopContext).expr
=============================================================================
