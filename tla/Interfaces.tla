----------------------------- MODULE Interfaces -----------------------------
(***************************************************************************)
(* What libraries export and import, and what names then mean (ast.rs,             *)
(* registry.rs, env.rs). Every library has a scope, in which it binds the names it    *)
(* imports and defines; a binding is one variable, whatever its names. A library is    *)
(* loaded when its first import set needs it (see Registry; here they are loaded in    *)
(* order, and import earlier ones only) and expanded when one of its names is looked    *)
(* up (see Libraries; here at any time). A session imports them, set by set.           *)
(***************************************************************************)
EXTENDS Syntax

CONSTANTS
    Paths,      \* where the libraries are, a sequence of names
    Shelves,    \* the forms that each of them may have
    Requests,   \* the import forms that a session may evaluate
    MaxRequests,
    Policies,   \* what an AllowList may contain
    Alphabet    \* the names that NamesDenote is about

VARIABLES
    specs,      \* what was read from the form of each library
    requests,   \* how many forms the session has evaluated
    sets,       \* the import sets of its form that it has still to import
    cx,         \* the table of bindings, as in Syntax
    top,        \* TOP_LEVEL_BINDINGS: a library that is not expanded, or a variable
    current,    \* the call of from_spec_with_scope, and the clauses it has still to see
    spaces,     \* the environment of each library, and of the session, whose number is their scope
    imported    \* the sets the session has imported (history)

ifaceVars == <<specs, requests, sets, cx, top, current, spaces, imported>>

Bad == [is |-> "bad"]
Library == DOMAIN Paths
Session == Len(Paths) + 1
NotLoading == [lib |-> 0]

-----------------------------------------------------------------------------
(* Forms: what is read from them, or Bad. *)

Digits == "0" :> 0 @@ "1" :> 1 @@ "2" :> 2
IsNumber(s) == s.t = "wrapped" /\ s.value \in DOMAIN Digits
Number(s) == Digits[s.value]
HasCar(s, keyword) == IsList(s) /\ IsIdent(s.items[1]) /\ s.items[1].sym = keyword
Is(s, keyword) == IsProper(s) /\ HasCar(s, keyword)
Args(s) == Tail(Items(s))
AllIdents(forms) == \A i \in DOMAIN forms : IsIdent(forms[i])
Symbols(idents) == [i \in DOMAIN idents |-> idents[i].sym]

\* A form with parts, all of which must be good.
Whole(is, parts) == IF Bad \in Range(parts) THEN Bad ELSE [is |-> is, parts |-> parts]

RECURSIVE SubVersionReference(_)
SubVersionReference(s) ==
    LET Parts == [i \in DOMAIN Args(s) |-> SubVersionReference(Args(s)[i])]
        Compares(keyword) == Is(s, keyword) /\ Len(Args(s)) = 1 /\ IsNumber(Args(s)[1])
    IN CASE IsNumber(s) -> [is |-> "=", number |-> Number(s)]
         [] Compares(">=") -> [is |-> ">=", number |-> Number(Args(s)[1])]
         [] Compares("<=") -> [is |-> "<=", number |-> Number(Args(s)[1])]
         [] Is(s, "and") -> Whole("and", Parts)
         [] Is(s, "or") -> Whole("or", Parts)
         [] Is(s, "not") /\ Len(Args(s)) = 1 -> Whole("not", Parts)
         [] OTHER -> Bad

RECURSIVE VersionReference(_)
VersionReference(s) ==
    LET Parts == [i \in DOMAIN Args(s) |-> VersionReference(Args(s)[i])]
    IN CASE Is(s, "and") -> Whole("and", Parts)
         [] Is(s, "or") -> Whole("or", Parts)
         [] Is(s, "not") /\ Len(Args(s)) = 1 -> Whole("not", Parts)
         [] IsProper(s) -> Whole("each", [i \in DOMAIN Items(s) |-> SubVersionReference(Items(s)[i])])
         [] OTHER -> Bad

RECURSIVE SubVersionMatches(_, _)
SubVersionMatches(ref, number) ==
    CASE ref.is = "=" -> number = ref.number
      [] ref.is = ">=" -> number >= ref.number
      [] ref.is = "<=" -> number <= ref.number
      [] ref.is = "and" -> \A part \in Range(ref.parts) : SubVersionMatches(part, number)
      [] ref.is = "or" -> \E part \in Range(ref.parts) : SubVersionMatches(part, number)
      [] ref.is = "not" -> ~SubVersionMatches(ref.parts[1], number)

RECURSIVE VersionMatches(_, _)
VersionMatches(ref, version) ==
    CASE ref.is = "each" ->
            Len(version) >= Len(ref.parts) /\ \A i \in DOMAIN ref.parts : SubVersionMatches(ref.parts[i], version[i])
      [] ref.is = "and" -> \A part \in Range(ref.parts) : VersionMatches(part, version)
      [] ref.is = "or" -> \E part \in Range(ref.parts) : VersionMatches(part, version)
      [] ref.is = "not" -> ~VersionMatches(ref.parts[1], version)

\* The version, if there is one, is a list at the end.
Versioned(s) == IsProper(s) /\ IsList(Last(Items(s)))
NameOf(s) == IF Versioned(s) THEN Front(Items(s)) ELSE Items(s)

LibraryReference(s) ==
    IF ~IsProper(s) \/ ~AllIdents(NameOf(s)) THEN Bad
    ELSE LET With(ref) == IF ref = Bad THEN Bad ELSE [is |-> "library", name |-> Symbols(NameOf(s)), version |-> ref]
         IN With(IF Versioned(s) THEN VersionReference(Last(Items(s))) ELSE Whole("each", <<>>))

VersionOf(s) ==
    IF IsProper(s) /\ \A i \in DOMAIN Items(s) : IsNumber(Items(s)[i])
    THEN [is |-> "version", numbers |-> [i \in DOMAIN Items(s) |-> Number(Items(s)[i])]]
    ELSE Bad

\* The name a library gives itself; what finds it is its path.
LibraryName(s) ==
    IF ~IsProper(s) \/ ~AllIdents(NameOf(s)) THEN Bad
    ELSE IF Versioned(s) THEN VersionOf(Last(Items(s))) ELSE [is |-> "version", numbers |-> <<>>]

Pairs(forms) == \A i \in DOMAIN forms : IsProper(forms[i]) /\ Len(Items(forms[i])) = 2 /\ AllIdents(Items(forms[i]))

\* Of two renames of a name the last is kept.
RECURSIVE RenamesIn(_)
RenamesIn(pairs) ==
    IF pairs = <<>> THEN <<>>
    ELSE LET last == Symbols(Items(Last(pairs))) IN (last[1] :> last[2]) @@ RenamesIn(Front(pairs))

RECURSIVE ImportSet(_)
ImportSet(s) ==
    LET args == Args(s)
        rest == Tail(args)
        Over(set, is, what) == IF set = Bad THEN Bad ELSE [is |-> is, set |-> set, what |-> what]
        Filter(is) == IF AllIdents(rest) THEN Over(ImportSet(args[1]), is, Range(Symbols(rest))) ELSE Bad
    IN CASE Is(s, "library") /\ Len(args) = 1 -> LibraryReference(args[1])
         [] Is(s, "only") /\ args # <<>> -> Filter("only")
         [] Is(s, "except") /\ args # <<>> -> Filter("except")
         [] Is(s, "prefix") /\ Len(args) = 2 /\ AllIdents(rest) -> Over(ImportSet(args[1]), "prefix", rest[1].sym)
         [] Is(s, "rename") /\ args # <<>> -> IF Pairs(rest) THEN Over(ImportSet(args[1]), "rename", RenamesIn(rest)) ELSE Bad
         [] OTHER -> LibraryReference(s)

RECURSIVE LibraryOf(_)
LibraryOf(set) == IF set.is = "library" THEN set.name ELSE LibraryOf(set.set)

\* The levels of an import are ignored.
DiscardFor(s) == IF Is(s, "for") /\ Args(s) # <<>> THEN Args(s)[1] ELSE s

ImportSpec(s) ==
    IF IsProper(s) THEN [i \in DOMAIN Args(s) |-> ImportSet(DiscardFor(Args(s)[i]))] ELSE <<Bad>>

Clauses(is, some) == [i \in DOMAIN some |-> IF some[i] = Bad THEN Bad ELSE [is |-> is, set |-> some[i]]]

ExportSet(s) ==
    LET Renamed(pair) == [is |-> "internal", name |-> pair[1].sym, rename |-> pair[2].sym]
    IN CASE IsIdent(s) -> <<Renamed(<<s, s>>)>>
         [] Is(s, "rename") -> IF Pairs(Args(s)) THEN [i \in DOMAIN Args(s) |-> Renamed(Items(Args(s)[i]))] ELSE <<Bad>>
         [] Is(s, "import") -> Clauses("external", ImportSpec(s))
         [] OTHER -> <<Bad>>

ExportSpec(s) == IF IsProper(s) THEN FlattenSeq([i \in DOMAIN Args(s) |-> ExportSet(Args(s)[i])]) ELSE <<Bad>>

\* The names that the definitions of a body bind.
DefinedIn(body) ==
    LET definitions == SelectSeq(body, LAMBDA form : Is(form, "define"))
    IN [i \in DOMAIN definitions |-> Args(definitions[i])[1].sym]

\* The body begins with the first form that is neither an export nor an import; imports are seen first.
LibrarySpec(s) ==
    LET forms == Tail(Args(s))
        IsClause(form) == HasCar(form, "export") \/ HasCar(form, "import")
        body == SelectSeq([i \in DOMAIN forms |-> i], LAMBDA i : \E j \in 1 .. i : ~IsClause(forms[j]))
        headed == SubSeq(forms, 1, Len(forms) - Len(body))
        Of(keyword) == SelectSeq(headed, LAMBDA spec : HasCar(spec, keyword))
        imports == FlattenSeq([i \in DOMAIN Of("import") |-> Clauses("import", ImportSpec(Of("import")[i]))])
        exports == FlattenSeq([i \in DOMAIN Of("export") |-> ExportSpec(Of("export")[i])])
        Spec(name) ==
            IF name = Bad \/ Bad \in Range(imports \o exports) THEN Bad
            ELSE [is |-> "spec", version |-> name.numbers, clauses |-> imports \o exports,
                  defines |-> DefinedIn([i \in DOMAIN body |-> forms[body[i]]])]
    IN IF Is(s, "library") /\ Args(s) # <<>> THEN Spec(LibraryName(Args(s)[1])) ELSE Bad

-----------------------------------------------------------------------------
(* What an import set brings. *)

At(name) == IF name \in Range(Paths) THEN CHOOSE l \in Library : Paths[l] = name ELSE 0

Loaded(l) == spaces[l].state \in {"unexpanded", "expanded"}

RECURSIVE ReferenceOf(_)
ReferenceOf(set) == IF set.is = "library" THEN set.version ELSE ReferenceOf(set.set)

Importable(set) ==
    LET l == At(LibraryOf(set)) IN l # 0 /\ Loaded(l) /\ VersionMatches(ReferenceOf(set), spaces[l].version)

\* A rename is used up by the first import of its name, in the order of a hash table.
Renamed(found, renames) ==
    LET of(some) == {import.name : import \in some}
        named == {import \in found : import.name \in DOMAIN renames}
        firsts == {some \in SUBSET named : of(some) = of(named) /\ Cardinality(some) = Cardinality(of(named))}
    IN {{[import EXCEPT !.name = renames[@]] : import \in some} \cup (found \ some) : some \in firsts}

\* What import_inner may return: names, each with a binding and the library that is expanded for it.
RECURSIVE Outcomes(_)
Outcomes(set) ==
    CASE set.is = "library" ->
            LET l == At(set.name)
                exports == spaces[l].exports
            IN {{[name |-> n, binding |-> exports[n].binding,
                  origin |-> IF exports[n].origin = 0 THEN l ELSE exports[n].origin] : n \in DOMAIN exports}}
      [] set.is = "only" -> {{import \in found : import.name \in set.what} : found \in Outcomes(set.set)}
      [] set.is = "except" -> {{import \in found : import.name \notin set.what} : found \in Outcomes(set.set)}
      [] set.is = "prefix" ->
            {{[import EXCEPT !.name = set.what \o @] : import \in found} : found \in Outcomes(set.set)}
      [] set.is = "rename" -> UNION {Renamed(found, set.what) : found \in Outcomes(set.set)}

-----------------------------------------------------------------------------
(* Bindings. *)

AddBindings(found, scope) ==
    LET names == {import.name : import \in found}
        Of(n) == SetToSeq({[scopes |-> {scope}, binding |-> import.binding] : import \in {i \in found : i.name = n}})
        old(n) == IF n \in DOMAIN cx.table THEN cx.table[n] ELSE <<>>
    IN [cx EXCEPT !.table = [n \in names |-> old(n) \o Of(n)] @@ @]

OriginsOf(found) ==
    [b \in {import.binding : import \in found} |-> (CHOOSE import \in found : import.binding = b).origin]

\* What is there stays.
AddPendingTopLevelBindings(found) ==
    top @@ [b \in DOMAIN OriginsOf(found) |-> [is |-> "unexpanded", lib |-> OriginsOf(found)[b]]]

RECURSIVE BindAll(_, _, _)
BindAll(names, scope, context) ==
    IF names = <<>> THEN context
    ELSE BindAll(Tail(names), scope, Bind(Ident(names[1], {scope}), context))

-----------------------------------------------------------------------------
(* Loading a library. *)

Absent == [state |-> "absent", version |-> <<>>, exports |-> <<>>, imports |-> <<>>]
AllLoaded == current = NotLoading /\ \A l \in Library : spaces[l].state # "absent"

BeginLoad(l) ==
    /\ current = NotLoading
    /\ spaces[l].state = "absent" /\ \A earlier \in 1 .. l - 1 : spaces[earlier].state # "absent"
    /\ LET Parsed(spec) ==
               /\ specs' = [specs EXCEPT ![l] = spec]
               /\ IF spec = Bad
                  THEN spaces' = [spaces EXCEPT ![l].state = "refused"] /\ UNCHANGED current
                  ELSE /\ current' = [lib |-> l, clauses |-> spec.clauses,
                                      names |-> <<>>, imports |-> <<>>, exports |-> <<>>]
                       /\ UNCHANGED spaces
       IN \E form \in Shelves[l] : Parsed(LibrarySpec(form))
    /\ UNCHANGED <<requests, sets, cx, top, imported>>

NextIs(kinds) == current # NotLoading /\ current.clauses # <<>> /\ Head(current.clauses).is \in kinds

\* Mutant of BoundTwice: only the names of one import set are compared.
BoundTwice_WithinSet(found) == \E a, b \in found : a.name = b.name /\ a.binding # b.binding

\* A name may be bound once, or again to the same binding.
BoundTwice(found) ==
    \/ \E a, b \in found : a.name = b.name /\ a.binding # b.binding
    \/ \E a \in found : a.name \in DOMAIN current.names /\ current.names[a.name] # a.binding

NamesIn(found) ==
    [n \in {import.name : import \in found} |-> (CHOOSE import \in found : import.name = n).binding]

ImportClause ==
    /\ NextIs({"import", "external"})
    /\ LET clause == Head(current.clauses) IN
       /\ Importable(clause.set)
       /\ \E found \in Outcomes(clause.set) :
            /\ ~BoundTwice(found)
            /\ cx' = AddBindings(found, current.lib)
            /\ top' = AddPendingTopLevelBindings(found)
            /\ current' = [current EXCEPT
                               !.clauses = Tail(@),
                               !.names = NamesIn(found) @@ @,
                               !.imports = OriginsOf(found) @@ @,
                               !.exports = IF clause.is = "external"
                                           THEN [n \in DOMAIN NamesIn(found) |-> n] @@ @ ELSE @]
    /\ UNCHANGED <<specs, requests, sets, spaces, imported>>

\* What a refused library has bound is in a scope that nobody has.
RefuseClause ==
    /\ NextIs({"import", "external"})
    /\ LET set == Head(current.clauses).set IN Importable(set) => \E found \in Outcomes(set) : BoundTwice(found)
    /\ spaces' = [spaces EXCEPT ![current.lib].state = "refused"]
    /\ current' = NotLoading
    /\ UNCHANGED <<specs, requests, sets, cx, top, imported>>

\* The exports are kept by the names they have inside.
ExportClause ==
    /\ NextIs({"internal"})
    /\ LET clause == Head(current.clauses) IN
       current' = [current EXCEPT !.clauses = Tail(@), !.exports = (clause.name :> clause.rename) @@ @]
    /\ UNCHANGED <<specs, requests, sets, cx, top, spaces, imported>>

\* Of the exports under one name one is kept, in the order of a hash table.
EndLoad ==
    /\ current # NotLoading /\ current.clauses = <<>>
    /\ LET l == current.lib
           inside == DOMAIN current.exports
           context == BindAll(SetToSeq(inside), l, cx)
           kept == {some \in [Range(current.exports) -> inside] : \A n \in DOMAIN some : current.exports[some[n]] = n}
           Export(binding) ==
               [binding |-> binding,
                origin |-> IF binding \in DOMAIN current.imports THEN current.imports[binding] ELSE 0]
       IN /\ cx' = context
          /\ \E some \in kept :
                spaces' = [spaces EXCEPT ![l] =
                              [state |-> "unexpanded", version |-> specs[l].version, imports |-> current.imports,
                               exports |-> [n \in DOMAIN some |-> Export(Resolve(Ident(some[n], {l}), context))]]]
    /\ current' = NotLoading
    /\ UNCHANGED <<specs, requests, sets, top, imported>>

-----------------------------------------------------------------------------
(* Expanding a library: def_var of the names it defines. *)

RECURSIVE DefineAll(_, _, _)
DefineAll(names, l, defined) ==
    IF names = <<>> THEN defined
    ELSE LET id == Ident(names[1], {l})
             binding == BindingOf(id, defined.cx)
             known == binding \in DOMAIN defined.top /\ defined.top[binding].is = "variable"
             variable == [is |-> "variable", lib |-> l, name |-> names[1]]
         IN DefineAll(Tail(names), l,
                [cx |-> Bind(id, defined.cx), top |-> IF known THEN defined.top ELSE (binding :> variable) @@ defined.top])

Expand(l) ==
    /\ current = NotLoading /\ spaces[l].state = "unexpanded"
    /\ LET Done(defined) == cx' = defined.cx /\ top' = defined.top
       IN Done(DefineAll(specs[l].defines, l, [cx |-> cx, top |-> top]))
    /\ spaces' = [spaces EXCEPT ![l].state = "expanded"]
    /\ UNCHANGED <<specs, requests, sets, current, imported>>

-----------------------------------------------------------------------------
(* The session. *)

IsAllowed(set, policy) == LibraryOf(set) \in policy

\* All sets of a form are parsed and allowed before the first is imported.
TakeForm ==
    /\ AllLoaded /\ requests < MaxRequests /\ sets = <<>>
    /\ LET Good(found, policy) == Bad \notin Range(found) /\ \A i \in DOMAIN found : IsAllowed(found[i], policy)
           Parsed(found) == \E policy \in Policies : sets' = IF Good(found, policy) THEN found ELSE <<>>
       IN \E form \in Requests : Parsed(ImportSpec(form))
    /\ requests' = requests + 1
    /\ UNCHANGED <<specs, cx, top, current, spaces, imported>>

\* A binding that is imported already gets no second name; of two at once the first one is kept,
\* in the order of a hash table.
SessionImport ==
    /\ sets # <<>> /\ Importable(Head(sets))
    /\ \E found \in Outcomes(Head(sets)) :
        LET vacant == {import \in found : import.binding \notin DOMAIN spaces[Session].imports}
            Bindings(some) == {import.binding : import \in some}
        IN \E new \in SUBSET vacant :
            /\ Bindings(new) = Bindings(vacant) /\ Cardinality(new) = Cardinality(Bindings(new))
            /\ cx' = AddBindings(new, Session)
            /\ top' = AddPendingTopLevelBindings(new)
            /\ spaces' = [spaces EXCEPT ![Session].imports = OriginsOf(new) @@ @]
    /\ sets' = Tail(sets)
    /\ imported' = imported \cup {Head(sets)}
    /\ UNCHANGED <<specs, requests, current>>

\* The error ends the form.
SessionRefuse ==
    /\ sets # <<>> /\ ~Importable(Head(sets))
    /\ sets' = <<>>
    /\ UNCHANGED <<specs, requests, cx, top, current, spaces, imported>>

Finished == AllLoaded /\ requests = MaxRequests /\ sets = <<>> /\ \A l \in Library : spaces[l].state # "unexpanded"
Rest == Finished /\ UNCHANGED ifaceVars

Init ==
    /\ specs = [l \in Library |-> Bad]
    /\ requests = 0
    /\ sets = <<>> /\ imported = {}
    /\ cx = [table |-> <<>>, nextBinding |-> 1]
    /\ top = <<>>
    /\ current = NotLoading
    /\ spaces = [l \in Library \cup {Session} |-> IF l = Session THEN [Absent EXCEPT !.state = "session"] ELSE Absent]

Next ==
    \/ \E l \in Library : BeginLoad(l) \/ Expand(l)
    \/ ImportClause \/ RefuseClause \/ ExportClause \/ EndLoad
    \/ TakeForm \/ SessionImport \/ SessionRefuse
    \/ Rest

Spec == Init /\ [][Next]_ifaceVars

-----------------------------------------------------------------------------
(* What the report says that a name denotes: follow it inwards. *)

Variable(l, n) == [lib |-> l, name |-> n]
ClausesOf(l) == IF specs[l] = Bad THEN {} ELSE Range(specs[l].clauses)
Defines(l) == IF specs[l] = Bad THEN {} ELSE Range(specs[l].defines)

RECURSIVE Exported(_, _), Brought(_, _)

\* The variables that library l means by the name n of an import, definition or export.
Inside(l, n) ==
    UNION {Brought(c.set, n) : c \in {c \in ClausesOf(l) : c.is # "internal"}}
        \cup {Variable(l, m) : m \in {n} \cap Defines(l)}

Exported(l, n) ==
    UNION {Inside(l, c.name) : c \in {c \in ClausesOf(l) : c.is = "internal" /\ c.rename = n}}
        \cup UNION {Brought(c.set, n) : c \in {c \in ClausesOf(l) : c.is = "external"}}

Brought(set, n) ==
    CASE set.is = "library" -> IF At(set.name) = 0 THEN {} ELSE Exported(At(set.name), n)
      [] set.is = "only" -> IF n \in set.what THEN Brought(set.set, n) ELSE {}
      [] set.is = "except" -> IF n \in set.what THEN {} ELSE Brought(set.set, n)
      [] set.is = "prefix" -> UNION {Brought(set.set, m) : m \in {m \in Alphabet : set.what \o m = n}}
      [] set.is = "rename" ->
            UNION {Brought(set.set, m) : m \in {m \in DOMAIN set.what : set.what[m] = n}}
                \cup (IF n \in DOMAIN set.what THEN {} ELSE Brought(set.set, n))

\* No set within an import set gives a name to two variables.
RECURSIVE Clear(_)
Clear(set) ==
    set.is = "library" \/ (Clear(set.set) /\ \A n \in Alphabet : Cardinality(Brought(set.set, n)) <= 1)

\* Libraries that keep the report's rules where the code does not see that they are broken, and
\* that export a name once.
Conforms(l) ==
    LET internal == {c \in ClausesOf(l) : c.is = "internal"}
        imports == {c.set : c \in ClausesOf(l) \ internal}
    IN /\ \A c, d \in internal : (c.name = d.name <=> c.rename = d.rename)
       /\ \A c \in internal : Inside(l, c.name) # {} /\ Exported(l, c.rename) = Inside(l, c.name)
       /\ \A n \in Defines(l), set \in imports : Brought(set, n) = {}
       /\ \A set \in imports : Clear(set)

\* The session gives each variable one name, and each name to one variable.
InSession(n) == UNION {Brought(set, n) : set \in imported}
SessionConforms ==
    /\ \A set \in imported : Clear(set)
    /\ \A a, b \in Alphabet : Cardinality(InSession(a)) <= 1 /\ (a # b => InSession(a) \cap InSession(b) = {})

-----------------------------------------------------------------------------
\* In a library that has been loaded, or a session, a name denotes the variable that the import
\* sets, renames and exports lead to: under whatever names and through whatever libraries it
\* came, both are one binding, and the library expanded for it is the one that defines it. A
\* library is refused only if an import of it cannot be, or a name would denote two variables.
NamesDenote ==
    LET Denotes(space, n, v) ==
            LET b == Resolve(Ident(n, {space}), cx) IN
            /\ b \in DOMAIN top
            /\ top[b].lib = v.lib /\ (top[b].is = "variable" => top[b].name = v.name)
            /\ b \in DOMAIN spaces[space].imports => spaces[space].imports[b] = v.lib
        NameDenotes(space, n, variables) ==
            IF variables = {} THEN Resolve(Ident(n, {space}), cx) = Unbound
            ELSE \A v \in variables : (v.lib = space /\ spaces[space].state = "unexpanded") \/ Denotes(space, n, v)
        Ambiguous(l) ==
            \E n \in Alphabet : Cardinality(UNION {Brought(c.set, n) : c \in {c \in ClausesOf(l) : c.is # "internal"}}) > 1
        Unavailable(l) == \E c \in ClausesOf(l) : c.is # "internal" /\ ~Importable(c.set)
        Right(l) ==
            CASE Loaded(l) -> \A n \in Alphabet : NameDenotes(l, n, Inside(l, n))
              [] spaces[l].state = "refused" -> specs[l] = Bad \/ Unavailable(l) \/ Ambiguous(l)
              [] OTHER -> TRUE
    IN current = NotLoading /\ sets = <<>> /\ (\A l \in Library : Conforms(l)) =>
            /\ \A l \in Library : Right(l)
            /\ SessionConforms => \A n \in Alphabet : NameDenotes(Session, n, InSession(n))
=============================================================================
