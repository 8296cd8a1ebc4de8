----------------------------- MODULE SyntaxCase -----------------------------
(***************************************************************************)
(* Patterns and templates of syntax-case (expand.rs). A pattern is compiled, and    *)
(* its variables are bound in a scope of their own; matching it against a form       *)
(* binds them to parts of the form, in sequences below an ellipsis; expanding a       *)
(* template puts them in its place.                                                *)
(***************************************************************************)
EXTENDS Syntax

Ellipsis == "..."
IsEllipsis(s) == IsIdent(s) /\ s.sym = Ellipsis

-----------------------------------------------------------------------------
(* Pattern::compile. The result: the pattern, the depth of its variables, the context, and whether it is legal. *)

Compiled(pattern, vars, cx) == [pattern |-> pattern, vars |-> vars, cx |-> cx, legal |-> TRUE]

RECURSIVE CompilePattern(_, _, _, _, _), CompileSlice(_, _, _, _, _, _)
CompilePattern(s, keywords, depth, scope, cx) ==
    LET Whole(slice) == [slice EXCEPT !.pattern = [p |-> s.t, items |-> @]]
    IN CASE IsIdent(s) /\ s \in keywords -> Compiled([p |-> "keyword", ident |-> s], <<>>, cx)
         [] IsIdent(s) /\ s \notin keywords /\ s.sym = "_" -> Compiled([p |-> "underscore"], <<>>, cx)
         [] IsIdent(s) /\ s \notin keywords /\ s.sym # "_" ->
               Compiled([p |-> "variable", binding |-> cx.nextBinding], cx.nextBinding :> depth, NewBind(AddScope(s, scope), cx))
         [] s.t = "wrapped" -> Compiled([p |-> "literal", value |-> s.value], <<>>, cx)
         [] OTHER -> Whole(CompileSlice(s.items, FALSE, keywords, depth, scope, cx))

CompileSlice(items, seen, keywords, depth, scope, cx) ==
    LET more == Len(items) > 1 /\ IsEllipsis(items[2])
        Add(first, rest) ==
            [pattern |-> <<IF more THEN [p |-> "ellipsis", of |-> first.pattern] ELSE first.pattern>> \o rest.pattern,
             vars |-> first.vars @@ rest.vars,
             cx |-> rest.cx,
             legal |-> first.legal /\ rest.legal]
        After(first) ==
            Add(first, CompileSlice(SubSeq(items, IF more THEN 3 ELSE 2, Len(items)), seen \/ more, keywords, depth, scope, first.cx))
    IN IF items = <<>> THEN Compiled(<<>>, <<>>, cx)
       ELSE IF seen /\ more THEN [Compiled(<<>>, <<>>, cx) EXCEPT !.legal = FALSE]
       ELSE After(CompilePattern(items[1], keywords, IF more THEN depth + 1 ELSE depth, scope, cx))

RECURSIVE Variables(_)
Variables(p) ==
    CASE p.p = "variable" -> {p.binding}
      [] p.p = "ellipsis" -> Variables(p.of)
      [] p.p \in {"list", "vector"} -> UNION {Variables(p.items[i]) : i \in DOMAIN p.items}
      [] OTHER -> {}

-----------------------------------------------------------------------------
(* Pattern::matches. A match is a form, or the sequence of the matches below an ellipsis. *)

Leaf(s) == [m |-> "leaf", of |-> s]
Sequence(ms) == [m |-> "seq", of |-> ms]
Matched(binds) == [ok |-> TRUE, binds |-> binds]
Failed == [ok |-> FALSE, binds |-> <<>>]
\* Both match; what comes second is not tried if the first fails.
Both(a, b) == IF a.ok /\ b.ok THEN Matched(a.binds @@ b.binds) ELSE Failed

HasEllipsis(patterns) == \E i \in DOMAIN patterns : patterns[i].p = "ellipsis"

RECURSIVE Matches(_, _, _), MatchEach(_, _, _), MatchEllipsis(_, _, _), MatchList(_, _, _)
Matches(p, s, cx) ==
    CASE p.p = "underscore" -> IF s = Nil THEN Failed ELSE Matched(<<>>)
      [] p.p = "variable" -> Matched(p.binding :> Leaf(s))
      [] p.p = "literal" -> IF s = Wrapped(p.value) THEN Matched(<<>>) ELSE Failed
      [] p.p = "keyword" -> IF IsIdent(s) /\ FreeIdentifierEqual(p.ident, s, cx) THEN Matched(<<>>) ELSE Failed
      [] p.p = "list" -> MatchList(p.items, s, cx)
      [] p.p = "vector" ->
            IF s.t # "vector" THEN Failed
            ELSE IF HasEllipsis(p.items) THEN MatchEllipsis(p.items, s.items, cx)
            ELSE IF Len(p.items) # Len(s.items) THEN Failed
            ELSE MatchEach(p.items, s.items, cx)

MatchEach(patterns, forms, cx) ==
    IF patterns = <<>> \/ forms = <<>> THEN Matched(<<>>)
    ELSE Both(Matches(patterns[1], forms[1], cx), MatchEach(Tail(patterns), Tail(forms), cx))

\* Mutant of Extra: the place of the ellipsis is taken for a form.
Extra_Less(patterns, forms) == Len(forms) - Len(patterns)

\* What is left for the ellipsis.
Extra(patterns, forms) == Len(forms) + 1 - Len(patterns)

MatchEllipsis(patterns, forms, cx) ==
    LET extra == Extra(patterns, forms)
        k == CHOOSE i \in DOMAIN patterns : patterns[i].p = "ellipsis"
        Columns(rounds) ==
            IF \E i \in DOMAIN rounds : ~rounds[i].ok THEN Failed
            ELSE Matched([b \in Variables(patterns[k].of) |-> Sequence([i \in DOMAIN rounds |-> rounds[i].binds[b]])])
        Others ==
            MatchEach(RemoveAt(patterns, k), SubSeq(forms, 1, k - 1) \o SubSeq(forms, k + extra, Len(forms)), cx)
    IN IF extra < 0 THEN Failed
       ELSE Both(Columns([i \in 1 .. extra |-> Matches(patterns[k].of, forms[k - 1 + i], cx)]), Others)

\* Without an ellipsis the last pattern is matched with what is left of the list. The empty list is a list of itself.
MatchList(patterns, s, cx) ==
    LET forms == IF s = Nil THEN <<s>> ELSE s.items
        rest == SubSeq(forms, Len(patterns), Len(forms))
    IN IF s # Nil /\ ~IsList(s) THEN Failed
       ELSE IF HasEllipsis(patterns) THEN MatchEllipsis(patterns, forms, cx)
       ELSE IF rest = <<>> THEN Failed
       ELSE Both(MatchEach(Front(patterns), forms, cx), Matches(Last(patterns), IF Len(rest) = 1 THEN rest[1] ELSE List(rest), cx))

-----------------------------------------------------------------------------
(* Template::compile. depths are those of the pattern variables that are visible. *)

Escaped(s) == IsList(s) /\ Len(s.items) = 3 /\ IsEllipsis(s.items[1])

RECURSIVE CompileTemplate(_, _, _, _), CompileSubtemplates(_, _, _, _)
CompileTemplate(s, escaped, depths, cx) ==
    LET Identifier(binding) == IF binding \in DOMAIN depths THEN [p |-> "variable", binding |-> binding] ELSE [p |-> "wrapped", of |-> s]
    IN CASE IsIdent(s) -> Identifier(Resolve(s, cx))
         [] s.t = "wrapped" -> [p |-> "wrapped", of |-> s]
         [] OTHER -> IF Escaped(s) /\ ~escaped THEN CompileTemplate(s.items[2], TRUE, depths, cx)
                     ELSE [p |-> s.t, items |-> CompileSubtemplates(s.items, escaped, depths, cx)]

RECURSIVE Nested(_, _)
Nested(template, n) == IF n = 0 THEN template ELSE Nested([p |-> "ellipsis", of |-> template], n - 1)

\* How many ellipses follow the first item.
Following(items) ==
    CHOOSE n \in 0 .. Len(items) - 1 :
        /\ \A i \in 2 .. n + 1 : IsEllipsis(items[i])
        /\ n + 2 <= Len(items) => ~IsEllipsis(items[n + 2])

\* Each item, with the ellipses that follow it if they are not escaped.
CompileSubtemplates(items, escaped, depths, cx) ==
    LET With(n) == <<Nested(CompileTemplate(items[1], escaped, depths, cx), n)>>
                     \o CompileSubtemplates(SubSeq(items, n + 2, Len(items)), escaped, depths, cx)
    IN IF items = <<>> THEN <<>> ELSE With(IF escaped THEN 0 ELSE Following(items))

\* check_template: the depths of the variables, less the ellipses behind each. An ellipsis alone, or behind what
\* has no variable, is as wrong as a variable with too few of them.
Misplaced == 99

RECURSIVE DepthsLeft(_, _, _, _), DepthsLeftOf(_, _, _, _)
DepthsLeft(s, escaped, depths, cx) ==
    LET Identifier(binding) ==
            IF binding \in DOMAIN depths THEN {depths[binding]} ELSE IF IsEllipsis(s) /\ ~escaped THEN {Misplaced} ELSE {}
    IN CASE IsIdent(s) -> Identifier(Resolve(s, cx))
         [] s.t = "wrapped" -> {}
         [] OTHER -> IF Escaped(s) /\ ~escaped THEN DepthsLeft(s.items[2], TRUE, depths, cx)
                     ELSE DepthsLeftOf(s.items, escaped, depths, cx)

DepthsLeftOf(items, escaped, depths, cx) ==
    LET Less(n, first) == IF n > 0 /\ first = {} THEN {Misplaced} ELSE {d - n : d \in first}
        With(n) == Less(n, DepthsLeft(items[1], escaped, depths, cx))
                     \cup DepthsLeftOf(SubSeq(items, n + 2, Len(items)), escaped, depths, cx)
    IN IF items = <<>> THEN {} ELSE With(IF escaped THEN 0 ELSE Following(items))

\* check_ellipsis: too many ellipses are let pass where another variable has as many as it needs.
LegalTemplate(s, depths, cx) ==
    LET Right(left) == (\A d \in left : d <= 0) /\ ((\E d \in left : d < 0) => 0 \in left)
    IN Right(DepthsLeft(s, FALSE, depths, cx))

-----------------------------------------------------------------------------
(* Template::expand. A sequence where a form is needed cannot go on. *)

Panic == [t |-> "panic"]
Mismatch == [t |-> "mismatch"]

RECURSIVE TemplateVariables(_)
TemplateVariables(t) ==
    CASE t.p = "variable" -> {t.binding}
      [] t.p = "ellipsis" -> TemplateVariables(t.of)
      [] t.p \in {"list", "vector"} -> UNION {TemplateVariables(t.items[i]) : i \in DOMAIN t.items}
      [] OTHER -> {}

RECURSIVE Expand(_, _), ExpandItem(_, _), ExpandEach(_, _)
Expand(t, binds) ==
    CASE t.p = "variable" -> IF t.binding \in DOMAIN binds /\ binds[t.binding].m = "leaf" THEN binds[t.binding].of ELSE Panic
      [] t.p = "wrapped" -> t.of
      [] t.p = "list" -> Improper(ExpandEach(t.items, binds))
      [] t.p = "vector" -> Vector(ExpandEach(t.items, binds))

\* The variables that an ellipsis behind the template goes through.
Controlled(t, binds) == {v \in TemplateVariables(t) : v \in DOMAIN binds /\ binds[v].m = "seq"}

ExpandItem(t, binds) ==
    LET Round(through, i) == [v \in DOMAIN binds |-> IF v \in through THEN binds[v].of[i] ELSE binds[v]]
        Repeat(through, lengths) ==
            IF Cardinality(lengths) > 1 THEN <<Mismatch>>
            ELSE FlattenSeq([i \in 1 .. (IF lengths = {} THEN 0 ELSE CHOOSE n \in lengths : TRUE) |-> ExpandItem(t.of, Round(through, i))])
        Over(through) == Repeat(through, {Len(binds[v].of) : v \in through})
    IN IF t.p # "ellipsis" THEN <<Expand(t, binds)>> ELSE Over(Controlled(t.of, binds))

ExpandEach(items, binds) == FlattenSeq([i \in DOMAIN items |-> ExpandItem(items[i], binds)])
=============================================================================
