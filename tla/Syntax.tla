------------------------------- MODULE Syntax -------------------------------
(***************************************************************************)
(* Syntax objects, and how an identifier finds its binding (syntax/mod.rs,       *)
(* env.rs). An identifier is a symbol with a set of scopes; the table of all      *)
(* bindings has a set of scopes for each; an identifier denotes the binding whose  *)
(* scopes are the largest subset of its own. What a binding stands for is looked    *)
(* up in the contours around the identifier, the top level last.                    *)
(*                                                                         *)
(* An expansion context, cx, has the table, the contours and the next number of a     *)
(* binding, a scope and a local variable.                                          *)
(***************************************************************************)
EXTENDS Integers, SequencesExt, FiniteSetsExt, TLC

Ident(sym, scopes) == [t |-> "ident", sym |-> sym, scopes |-> scopes]
List(items) == [t |-> "list", items |-> items]
Vector(items) == [t |-> "vector", items |-> items]
Wrapped(value) == [t |-> "wrapped", value |-> value]
Nil == Wrapped("()")

\* A list ends with the empty list if it is proper.
Proper(items) == IF items = <<>> THEN Nil ELSE List(Append(items, Nil))

IsIdent(s) == s.t = "ident"
IsList(s) == s.t = "list"
IsProper(s) == IsList(s) /\ Last(s.items) = Nil
Items(s) == IF s = Nil THEN <<>> ELSE Front(s.items)

\* vec_to_improper_list and Syntax::wrap: the items of a list whose tail is a list are those of both.
Improper(items) ==
    CASE items = <<>> -> Nil
      [] Len(items) = 1 -> items[1]
      [] OTHER -> List(IF IsList(Last(items)) THEN Front(items) \o Last(items).items ELSE items)

\* adjust_scope, for some scopes at once.
RECURSIVE AdjustScopes(_, _, _)
AdjustScopes(s, scopes, how) ==
    CASE s.t = "ident" ->
            [s EXCEPT !.scopes = CASE how = "add" -> @ \cup scopes
                                   [] how = "remove" -> @ \ scopes
                                   [] how = "flip" -> (@ \ scopes) \cup (scopes \ @)]
      [] s.t \in {"list", "vector"} -> [s EXCEPT !.items = [i \in DOMAIN @ |-> AdjustScopes(@[i], scopes, how)]]
      [] OTHER -> s

AddScope(s, scope) == AdjustScopes(s, {scope}, "add")
FlipScope(s, scope) == AdjustScopes(s, {scope}, "flip")
RemoveScopes(s, scopes) == AdjustScopes(s, scopes, "remove")
AddScopes(forms, scopes) == [i \in DOMAIN forms |-> AdjustScopes(forms[i], scopes, "add")]

-----------------------------------------------------------------------------
(* The table of bindings. *)

Unbound == 0

Candidates(id, cx) ==
    IF id.sym \in DOMAIN cx.table
    THEN SelectSeq(cx.table[id.sym], LAMBDA entry : entry.scopes \subseteq id.scopes)
    ELSE <<>>

\* The last of those with most scopes; none if another one is not a part of it.
Resolve(id, cx) ==
    LET Size(entry) == Cardinality(entry.scopes)
        Most(found) ==
            CHOOSE i \in DOMAIN found :
                \A j \in DOMAIN found : Size(found[j]) < Size(found[i]) \/ (Size(found[j]) = Size(found[i]) /\ j <= i)
        Unambiguous(found, best) == IF \A j \in DOMAIN found : found[j].scopes \subseteq best.scopes THEN best.binding ELSE Unbound
        Of(found) == IF found = <<>> THEN Unbound ELSE Unambiguous(found, found[Most(found)])
    IN Of(Candidates(id, cx))

FreeIdentifierEqual(a, b, cx) ==
    LET Same(p, q) == IF p = Unbound /\ q = Unbound THEN a.sym = b.sym ELSE p = q
    IN Same(Resolve(a, cx), Resolve(b, cx))

\* A new binding of an identifier is the one before cx'.nextBinding.
NewBind(id, cx) ==
    LET entry == [scopes |-> id.scopes, binding |-> cx.nextBinding]
        old == IF id.sym \in DOMAIN cx.table THEN cx.table[id.sym] ELSE <<>>
    IN [cx EXCEPT !.table = (id.sym :> Append(old, entry)) @@ @, !.nextBinding = @ + 1]

\* bind: the binding that the identifier has already, or a new one.
BindingOf(id, cx) ==
    LET Or(binding) == IF binding = Unbound THEN cx.nextBinding ELSE binding IN Or(Resolve(id, cx))
Bind(id, cx) == IF Resolve(id, cx) # Unbound THEN cx ELSE NewBind(id, cx)

-----------------------------------------------------------------------------
(* Contours. The first one is the top level; the others have one around them. *)

NewContour(up, cx) == [cx EXCEPT !.contours = Append(@, [up |-> up, bindings |-> <<>>])]
Newest(cx) == Len(cx.contours)

Define(env, binding, meaning, cx) ==
    [cx EXCEPT !.contours[env].bindings = (binding :> meaning) @@ @]

Nothing == [is |-> "nothing"]

RECURSIVE Lookup(_, _, _)
Lookup(env, binding, cx) ==
    LET here == cx.contours[env] IN
    IF binding \in DOMAIN here.bindings THEN here.bindings[binding]
    ELSE IF env = 1 THEN Nothing
    ELSE Lookup(here.up, binding, cx)

Meaning(id, env, cx) == Lookup(env, Resolve(id, cx), cx)
=============================================================================
