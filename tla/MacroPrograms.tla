---------------------------- MODULE MacroPrograms ----------------------------
(***************************************************************************)
(* Programs with macros, and patterns with forms to match, as Expansion and its   *)
(* runs take them: a program defines a macro m and uses it among forms that bind   *)
(* the names that it inserts and is given. Libraries and import forms, as            *)
(* Interfaces takes them.                                                          *)
(***************************************************************************)
EXTENDS SyntaxCase

I(sym) == Ident(sym, {})
L(items) == Proper(items)
One == Wrapped("1")
x == I("x")
y == I("y")
e == I("e")
m == I("m")
n == I("n")
dots == I(Ellipsis)

(* Programs: where the macro is defined, of which sort it is, two forms around its use, and the use. *)

SyntaxRules(rules) == L(<<I("syntax-rules"), Nil>> \o rules)
Rule(arguments, template) == L(<<L(<<I("_")>> \o arguments), template>>)
Let(id, value, body) == L(<<I("let"), L(<<L(<<id, value>>)>>), body>>)
Begin(forms) == L(<<I("begin")>> \o forms)
Lambda(formals, body) == L(<<I("lambda"), L(formals), body>>)
LetMacro(how, name, transformer, body) == L(<<I(how), L(<<L(<<name, transformer>>)>>), body>>)
DefineForm(id, value) == L(<<I("define"), id, value>>)

TransformerOf(sort) ==
    CASE sort = "refers" -> SyntaxRules(<<Rule(<<>>, x), Rule(<<e>>, Begin(<<e, x>>))>>)
      [] sort = "binds" -> SyntaxRules(<<Rule(<<e>>, Let(x, e, Begin(<<e, x>>))), Rule(<<>>, Lambda(<<x>>, x))>>)
      [] sort = "binds given" ->
            SyntaxRules(<<Rule(<<e, y>>, Let(e, x, Begin(<<y, x, e>>))), Rule(<<e>>, Lambda(<<x, e>>, Begin(<<x, e>>)))>>)
      [] sort = "recurs" ->
            SyntaxRules(<<Rule(<<>>, x), Rule(<<e>>, Let(x, e, L(<<m>>))), Rule(<<e, y>>, L(<<m, Let(y, e, y)>>))>>)
      [] sort = "repeats" -> SyntaxRules(<<Rule(<<e, dots>>, Lambda(<<e, dots>>, Begin(<<x, e, dots>>)))>>)
      [] sort = "pairs" ->
            SyntaxRules(<<Rule(<<e, y, dots>>, L(<<I("let"), L(<<L(<<y, e>>), dots>>), Begin(<<y, dots, e, x>>)>>))>>)
      [] sort = "defines macro" ->
            SyntaxRules(<<Rule(<<e>>, LetMacro("let-syntax", n, SyntaxRules(<<Rule(<<>>, Begin(<<e, x>>))>>),
                                               Let(x, One, Begin(<<x, L(<<n>>)>>))))>>)
      [] sort = "defines given" ->
            SyntaxRules(<<Rule(<<e>>, LetMacro("letrec-syntax", e,
                                               SyntaxRules(<<Rule(<<>>, x), Rule(<<y>>, Let(x, y, L(<<e>>)))>>), L(<<e, x>>)))>>)
      [] sort = "literal" -> L(<<I("syntax-rules"), L(<<x>>), Rule(<<x>>, One), Rule(<<e>>, Begin(<<e, x>>))>>)
      [] sort = "assigns" -> SyntaxRules(<<Rule(<<e>>, L(<<I("set!"), x, e>>)), Rule(<<e, y>>, L(<<I("set!"), e, y>>))>>)
      [] sort = "loops" ->
            SyntaxRules(<<Rule(<<e>>, L(<<I("let"), x, L(<<L(<<y, e>>), L(<<e, x>>)>>), L(<<x, y, e>>)>>))>>)

Around(how, form) ==
    CASE how = "nothing" -> form
      [] how = "lambda" -> Lambda(<<x>>, form)
      [] how = "let" -> Let(x, x, form)
      [] how = "letrec" -> L(<<I("letrec"), L(<<L(<<x, Lambda(<<>>, x)>>), L(<<y, x>>)>>), form>>)
      [] how = "loop" -> L(<<I("let"), x, L(<<L(<<y, x>>)>>), form>>)
      [] how = "definition" ->
            L(<<I("lambda"), Nil, DefineForm(L(<<n, y>>), x), Begin(<<DefineForm(I("z"), L(<<n, y>>))>>), L(<<n, I("z")>>), form>>)
      [] how = "argument" -> L(<<m, form>>)
      [] how = "given" -> L(<<m, x, form>>)
      [] how = "variable" -> Lambda(<<m>>, form)
      [] how = "syntax" -> LetMacro("let-syntax", x, SyntaxRules(<<Rule(<<>>, One)>>), form)
      [] how = "other macro" ->
            LetMacro("let-syntax", m, SyntaxRules(<<Rule(<<>>, L(<<m, x>>)), Rule(<<e>>, L(<<m, e, x>>))>>), form)

Use(how) ==
    CASE how = "alone" -> L(<<m>>)
      [] how = "x" -> L(<<m, x>>)
      [] how = "both" -> L(<<m, x, y>>)
      [] how = "name" -> m

WithMacro(place, transformer, form) ==
    CASE place = "top" -> <<L(<<I("define-syntax"), m, transformer>>), form>>
      [] place = "body" -> <<L(<<I("define"), L(<<I("f")>>), L(<<I("define-syntax"), m, transformer>>), form>>)>>
      [] OTHER -> <<LetMacro(place, m, transformer, form)>>

ProgramOf(c) ==
    <<DefineForm(y, One), DefineForm(x, y)>> \o WithMacro(c[1], TransformerOf(c[2]), Around(c[3], Around(c[4], Use(c[5]))))

\* The shapes: <<place, sort, outer form, inner form, use>>.
Sorts ==
    {"refers", "binds", "binds given", "recurs", "repeats", "pairs", "defines macro", "defines given", "literal", "assigns", "loops"}
Ways ==
    {"nothing", "lambda", "let", "letrec", "loop", "definition", "argument", "given", "variable", "syntax", "other macro"}
Uses == {"alone", "x", "both", "name"}

\* A macro that puts what it is given in a binding position, and is used where it is defined, is not hygienic.
BindsItsArgument == {"binds given", "defines given", "repeats", "loops"}

NestedPrograms == {"let-syntax", "letrec-syntax"} \X Sorts \X {"nothing", "lambda", "given", "other macro"} \X Ways \X Uses
BodyPrograms ==
    {"top", "body"} \X (Sorts \ BindsItsArgument) \X {"nothing", "lambda", "given", "other macro"} \X Ways \X Uses
HygienicPrograms == NestedPrograms \cup BodyPrograms
UnhygienicPrograms == {"top", "body"} \X {"binds given"} \X {"nothing"} \X Ways \X Uses

-----------------------------------------------------------------------------
(* Patterns of up to two parts, one of them repeated or none, and forms of up to three. *)

Keyword == I("k")

Parts(i) ==
    LET a == I(<<"a", "b">>[i])
        b == I(<<"c", "d">>[i])
    IN {a, Keyword, L(<<a, dots>>), Improper(<<a, b>>)}

Repeated(parts) == {parts} \cup {InsertAt(parts, i + 1, dots) : i \in {j \in DOMAIN parts : parts[j] # Keyword}}

SmallPatterns ==
    LET parts == {<<>>} \cup {<<p>> : p \in Parts(1)} \cup (Parts(1) \X Parts(2))
    IN {Improper(Append(s, end)) : s \in UNION {Repeated(q) : q \in parts}, end \in {Nil, I("t")}}

SmallForms ==
    LET elements == {I("g"), Keyword, L(<<I("g"), Keyword>>)}
    IN {Improper(Append(s, end)) : s \in UNION {[1 .. k -> elements] : k \in 0 .. 3}, end \in {Nil, I("g")}}

-----------------------------------------------------------------------------
(* Two libraries: A defines a and b, B imports it and defines d; what a session imports. *)

Import(imports) == L(<<I("import")>> \o imports)
LibraryForm(name, exports, imports, body) ==
    L(<<I("library"), name, L(<<I("export")>> \o exports), Import(imports)>> \o body)
Pair(from, to) == L(<<I(from), I(to)>>)
RenameForm(set, pairs) == L(<<I("rename")>> \o set \o pairs)
Only(set, names) == L(<<I("only"), set>> \o names)
Prefix(set) == L(<<I("prefix"), set, I("p")>>)
LibraryNamed(name) == L(<<I(name)>>)
VersionedA(version) == L(<<I("A"), version>>)
Versions(numbers) == L([i \in DOMAIN numbers |-> Wrapped(ToString(numbers[i]))])

ImportsOf(name) ==
    {LibraryNamed(name), Only(LibraryNamed(name), <<I("a")>>), L(<<I("except"), LibraryNamed(name), I("a")>>), Prefix(LibraryNamed(name)),
     RenameForm(<<LibraryNamed(name)>>, <<Pair("a", "b"), Pair("b", "a")>>), RenameForm(<<LibraryNamed(name)>>, <<Pair("a", "c")>>),
     RenameForm(<<Only(LibraryNamed(name), <<I("a")>>)>>, <<Pair("a", "b")>>), RenameForm(<<Prefix(LibraryNamed(name))>>, <<Pair("pa", "c")>>)}

\* References to versions of A, one to a library that is not there, and forms that are refused.
OtherImports ==
    {VersionedA(Versions(<<1>>)), VersionedA(Versions(<<1, 2, 0>>)), VersionedA(L(<<L(<<I(">="), Wrapped("2")>>)>>)),
     VersionedA(L(<<I("not"), Versions(<<2>>)>>)),
     VersionedA(L(<<I("or"), Versions(<<2>>), L(<<Wrapped("1"), L(<<I("<="), Wrapped("1")>>)>>)>>)),
     L(<<I("for"), LibraryNamed("A"), I("run")>>), L(<<I("library"), LibraryNamed("A")>>), LibraryNamed("C"), VersionedA(Nil), I("A")}

ExportsOfA ==
    {<<I("a"), I("b")>>, <<I("a"), RenameForm(<<>>, <<Pair("b", "c")>>)>>, <<RenameForm(<<>>, <<Pair("a", "b"), Pair("b", "a")>>)>>}

ExportsOfB ==
    {<<>>, <<I("a")>>, <<RenameForm(<<>>, <<Pair("a", "b")>>)>>, <<Import(<<LibraryNamed("A")>>)>>,
     <<I("b"), Import(<<Only(LibraryNamed("A"), <<I("a")>>)>>)>>, <<I("d"), Import(<<Prefix(LibraryNamed("A"))>>)>>}

ShelfA ==
    {LibraryForm(VersionedA(Versions(<<1, 2>>)), exports, <<>>, <<DefineForm(I("a"), One), DefineForm(I("b"), One)>>) :
        exports \in ExportsOfA}

ShelfB ==
    {LibraryForm(LibraryNamed("B"), exports, <<set>>, <<DefineForm(I("d"), One)>>) : exports \in ExportsOfB, set \in ImportsOf("A")}
    \cup {LibraryForm(LibraryNamed("B"), <<I("a")>>, <<LibraryNamed("A"), set>>, <<DefineForm(I("d"), One)>>) : set \in ImportsOf("A")}
    \cup {LibraryForm(LibraryNamed("B"), <<I("a")>>, <<set>>, body) : set \in OtherImports, body \in {<<>>, <<DefineForm(I("a"), One)>>}}

SessionImports ==
    {Import(<<p, LibraryNamed("B")>>) : p \in ImportsOf("A")}
    \cup {Import(<<LibraryNamed("A"), q>>) : q \in {Prefix(LibraryNamed("B")), RenameForm(<<LibraryNamed("B")>>, <<Pair("a", "c")>>)}}
    \cup {Import(<<LibraryNamed("B"), I("A")>>)}
=============================================================================
