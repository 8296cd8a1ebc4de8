----------------------------- MODULE Libraries -----------------------------
(***************************************************************************)
(* Expanding and running the bodies of loaded libraries                     *)
(* (src/src/env.rs: maybe_expand, maybe_invoke, lookup_var, lookup_keyword; *)
(* src/src/ast.rs: parse_lib_body).  Nothing of a library is expanded or    *)
(* run when it is imported, only when some code that is being expanded      *)
(* first names one of its bindings; threads do this concurrently, under one *)
(* lock per library, which is kept (upgradable) while its body is expanded  *)
(* or run.  The exported bindings of a library that others name are one: it *)
(* is defined by the body, or (in gaps) it is not; a body names each library *)
(* once as a keyword and once as a variable.  The libraries have been       *)
(* loaded, so by OriginsLoaded of Registry their imports are loaded too; an *)
(* environment only imports those that were there before it, so they form   *)
(* no cycle.                                                                *)
(***************************************************************************)
EXTENDS Naturals, Sequences

CONSTANTS
    Lib,          \* libraries the registry has loaded
    Graphs,       \* what each of them may import
    None,         \* no thread
    Thread,       \* threads that evaluate code
    Names,        \* <<l, do, m>>: the body of l may name a binding of m
    Faulty,       \* libraries with a wrong form or a body that raises
    BodyImports,  \* <<l, m>>: the body of l may hold an (import m) form
    CallsItself,  \* libraries with a top level form that starts with a variable
                  \* they export
    Gaps          \* which libraries may export a name their bodies do not define

ASSUME LibrariesAssumption ==
    /\ Names \subseteq Lib \X {"keyword", "variable"} \X Lib
    /\ BodyImports \subseteq Lib \X Lib
    /\ Faulty \subseteq Lib /\ CallsItself \subseteq Lib
    /\ Gaps \subseteq SUBSET Lib
    /\ None \notin Thread
    /\ Graphs \subseteq [Lib -> SUBSET Lib]
    /\ \A g \in Graphs : \A S \in SUBSET Lib :
          S # {} => \E x \in S : g[x] \cap S = {}

VARIABLES
    gaps,     \* the libraries of which others name an export that is not defined
    imports,  \* TopLevelEnvironment.imports: the origins of its imported bindings
    state,    \* TopLevelEnvironmentInner.state of each library
    holder,   \* the thread that holds the upgradable lock on it, or None
    bound,    \* TOP_LEVEL_BINDINGS: is the exported binding a Global yet
    calls,    \* the calls of each thread, outermost first
    named,    \* the lookups made while a library was expanded
    runs      \* ghost: how often the body of a library was started

vars == <<gaps, imports, state, holder, bound, calls, named, runs>>

\* A call on library lib: a lookup of its binding ("keyword", "resolve" or
\* "variable"), maybe_expand or maybe_invoke waiting for the lock ("expand",
\* "invoke"), or holding it: splice_in ("splice"), the rest of parse_lib_body
\* ("parse"), the compiled body ("run").
Call(do, l) == [do |-> do, lib |-> l]
Holding == {"splice", "parse", "run"}

Current(t) == calls[t][Len(calls[t])]
Callers(t) == SubSeq(calls[t], 1, Len(calls[t]) - 1)
Doing(t, do, l) == calls[t] # <<>> /\ Current(t) = Call(do, l)

\* The innermost call becomes the calls in s: <<>> returns from it.
Continue(t, s) == calls' = [calls EXCEPT ![t] = Callers(t) \o s]

\* The libraries whose bindings the body of l can name: its imports, and what
\* the macros they export refer to.
Visible(l) ==
    {m \in Lib :
        \A S \in SUBSET Lib :
            (imports[l] \subseteq S /\ \A x \in S : imports[x] \subseteq S) => m \in S}

\* An expansion that failed leaves Expanding, a body that failed Invalid.
Broken(l) == state[l] \in {"expanding", "invalid"} /\ holder[l] = None

TypeOK ==
    /\ gaps \subseteq Lib
    /\ imports \in [Lib -> SUBSET Lib]
    /\ state \in [Lib -> {"unexpanded", "expanding", "expanded", "invalid", "invoked"}]
    /\ holder \in [Lib -> Thread \union {None}]
    /\ bound \in [Lib -> BOOLEAN]
    /\ \A l \in Lib : holder[l] # None <=>
          \E t \in Thread : \E n \in DOMAIN calls[t] :
              calls[t][n].lib = l /\ calls[t][n].do \in Holding

Init ==
    /\ gaps \in Gaps
    /\ imports \in Graphs
    /\ state = [l \in Lib |-> "unexpanded"]
    /\ holder = [l \in Lib |-> None]
    /\ bound = [l \in Lib |-> FALSE]
    /\ calls = [t \in Thread |-> <<>>]
    /\ named = [l \in Lib |-> {}]
    /\ runs = [l \in Lib |-> 0]

----------------------------------------------------------------------------
(* Lookups.                                                                 *)

\* A program expands code that names library l.
Use(t, l, do) ==
    /\ calls[t] = <<>>
    /\ calls' = [calls EXCEPT ![t] = <<Call(do, l)>>]
    /\ UNCHANGED <<gaps, imports, state, holder, bound, named, runs>>

\* lookup_keyword of an imported binding: the origin is expanded first, then
\* asked; it is asked again for as long as the binding is pending.
LookupKeyword(t, l) ==
    /\ \/ /\ Doing(t, "keyword", l)
          /\ Continue(t, <<Call("resolve", l), Call("expand", l)>>)
       \/ /\ Doing(t, "resolve", l) /\ ~bound[l]
          /\ Continue(t, <<Call("resolve", l), Call("expand", l)>>)
       \/ /\ Doing(t, "resolve", l) /\ bound[l]
          /\ Continue(t, <<>>)
    /\ UNCHANGED <<gaps, imports, state, holder, bound, named, runs>>

\* Mutant of LookupVar: only a pending binding needs its library invoked.
LookupVar_Ready(t, l) ==
    /\ Doing(t, "variable", l)
    /\ IF bound[l] THEN Continue(t, <<>>)
       ELSE Continue(t, <<Call("invoke", l), Call("expand", l)>>)
    /\ UNCHANGED <<gaps, imports, state, holder, bound, named, runs>>

\* lookup_var: a pending binding has its origin expanded and is looked up again,
\* a Global has its origin invoked.
LookupVar(t, l) ==
    /\ Doing(t, "variable", l)
    /\ IF bound[l]
       THEN Continue(t, <<Call("invoke", l), Call("expand", l)>>)
       ELSE Continue(t, <<Call("variable", l), Call("expand", l)>>)
    /\ UNCHANGED <<gaps, imports, state, holder, bound, named, runs>>

----------------------------------------------------------------------------
(* maybe_expand and maybe_invoke.                                           *)

BeginExpand(t, l) ==
    /\ Doing(t, "expand", l)
    /\ holder[l] = None
    /\ IF state[l] = "unexpanded"
       THEN /\ state' = [state EXCEPT ![l] = "expanding"]
            /\ holder' = [holder EXCEPT ![l] = t]
            /\ Continue(t, <<Call("splice", l)>>)
       ELSE /\ Continue(t, <<>>)
            /\ UNCHANGED <<state, holder>>
    /\ UNCHANGED <<gaps, imports, bound, named, runs>>

\* Mutant of BodyNames: a body names what it does not import.
BodyNames_Unimported(t, l, m, do) ==
    /\ Doing(t, "splice", l) \/ Doing(t, "parse", l)
    /\ <<l, do, m>> \in Names /\ <<do, m>> \notin named[l]
    /\ named' = [named EXCEPT ![l] = @ \union {<<do, m>>}]
    /\ calls' = [calls EXCEPT ![t] = Append(@, Call(do, m))]
    /\ UNCHANGED <<gaps, imports, state, holder, bound, runs>>

\* The body names a binding of another library m: before its definitions are marked a
\* variable is only looked up for the transformer of a define-syntax.
BodyNames(t, l, m, do) ==
    /\ Doing(t, "splice", l) \/ Doing(t, "parse", l)
    /\ <<l, do, m>> \in Names
    /\ m \in Visible(l) \ {l}
    /\ <<do, m>> \notin named[l]
    /\ named' = [named EXCEPT ![l] = @ \union {<<do, m>>}]
    /\ calls' = [calls EXCEPT ![t] = Append(@, Call(do, m))]
    /\ UNCHANGED <<gaps, imports, state, holder, bound, runs>>

\* A form of the body starts with a variable of the library itself.
BodyCallsItself(t, l) ==
    /\ Doing(t, "splice", l)
    /\ l \in CallsItself
    /\ calls' = [calls EXCEPT ![t] = Append(@, Call("resolve", l))]
    /\ UNCHANGED <<gaps, imports, state, holder, bound, named, runs>>

\* An (import m) form in the body of l: the registry loads m if it has to, and
\* dep_graph is not told that l imports it.
BodyImport(t, l, m) ==
    /\ Doing(t, "splice", l)
    /\ <<l, m>> \in BodyImports
    /\ imports' = [imports EXCEPT ![l] = @ \union {m}]
    /\ UNCHANGED <<gaps, state, holder, bound, calls, named, runs>>

\* Mutant of MarkDefinitions: the definitions are not marked before they are parsed.
MarkDefinitions_Pending(t, l) ==
    /\ Doing(t, "splice", l)
    /\ Continue(t, <<Call("parse", l)>>)
    /\ UNCHANGED <<gaps, imports, state, holder, bound, named, runs>>

\* parse_helper marks the definitions: their bindings become Globals.  An export
\* that the body does not define stays pending.
MarkDefinitions(t, l) ==
    /\ Doing(t, "splice", l)
    /\ bound' = [bound EXCEPT ![l] = l \notin gaps]
    /\ Continue(t, <<Call("parse", l)>>)
    /\ UNCHANGED <<gaps, imports, state, holder, named, runs>>

EndExpand(t, l) ==
    /\ Doing(t, "parse", l)
    /\ state' = [state EXCEPT ![l] = "expanded"]
    /\ holder' = [holder EXCEPT ![l] = None]
    /\ Continue(t, <<>>)
    /\ UNCHANGED <<gaps, imports, bound, named, runs>>

\* Mutant of BeginInvoke: the body stays in the state while it runs.
BeginInvoke_Kept(t, l) ==
    /\ Doing(t, "invoke", l)
    /\ holder[l] = None
    /\ IF state[l] = "expanded"
       THEN /\ holder' = [holder EXCEPT ![l] = t]
            /\ runs' = [runs EXCEPT ![l] = @ + 1]
            /\ Continue(t, <<Call("run", l)>>)
       ELSE Continue(t, <<>>) /\ UNCHANGED <<holder, runs>>
    /\ UNCHANGED <<gaps, imports, state, bound, named>>

\* Invalid takes the place of the body before the body runs.
BeginInvoke(t, l) ==
    /\ Doing(t, "invoke", l)
    /\ holder[l] = None
    /\ IF state[l] = "expanded"
       THEN /\ state' = [state EXCEPT ![l] = "invalid"]
            /\ holder' = [holder EXCEPT ![l] = t]
            /\ runs' = [runs EXCEPT ![l] = @ + 1]
            /\ Continue(t, <<Call("run", l)>>)
       ELSE /\ Continue(t, <<>>)
            /\ UNCHANGED <<state, holder, runs>>
    /\ UNCHANGED <<gaps, imports, bound, named>>

EndInvoke(t, l) ==
    /\ Doing(t, "run", l)
    /\ state' = [state EXCEPT ![l] = "invoked"]
    /\ holder' = [holder EXCEPT ![l] = None]
    /\ Continue(t, <<>>)
    /\ UNCHANGED <<gaps, imports, bound, named, runs>>

\* A form is wrong or the body raises: the error leaves every call of the thread
\* and the guards release the locks; the states stay as they are.
Fail(t) ==
    /\ calls[t] # <<>> /\ Current(t).do \in Holding
    /\ Current(t).lib \in Faulty
    /\ holder' = [l \in Lib |-> IF holder[l] = t THEN None ELSE holder[l]]
    /\ calls' = [calls EXCEPT ![t] = <<>>]
    /\ UNCHANGED <<gaps, imports, state, bound, named, runs>>

----------------------------------------------------------------------------

\* What a thread does next, once it has begun.
Run(t, l) ==
    \/ LookupKeyword(t, l) \/ LookupVar(t, l)
    \/ BeginExpand(t, l) \/ MarkDefinitions(t, l) \/ EndExpand(t, l)
    \/ BeginInvoke(t, l) \/ EndInvoke(t, l)

Next ==
    \E t \in Thread :
        \/ \E l \in Lib :
            \/ Run(t, l)
            \/ Use(t, l, "keyword") \/ Use(t, l, "variable")
            \/ \E m \in Lib : BodyNames(t, l, m, "keyword") \/ BodyNames(t, l, m, "variable")
            \/ BodyCallsItself(t, l)
            \/ \E m \in Lib : BodyImport(t, l, m)
        \/ Fail(t)

Spec == Init /\ [][Next]_vars

\* A thread that can go on does, and library bodies end.
Fairness == \A t \in Thread : WF_vars(\E l \in Lib : Run(t, l))
FairSpec == Spec /\ Fairness

----------------------------------------------------------------------------
(* Properties.                                                              *)

\* The body of a library runs at most once, however many threads need it.
RunsOnce == \A l \in Lib : runs[l] <= 1

\* While a body runs, every library it names a variable of has run to its end: none
\* is still being expanded or run by another thread.  The one exception is a library
\* whose expansion or body has failed, and it fails only for a wrong form or a body
\* that raises, its own or one of a library it can see.
ImportsRanFirst ==
    \A l \in Lib, m \in Lib :
        state[l] = "invalid" /\ holder[l] # None /\ <<"variable", m>> \in named[l]
            => \/ state[m] = "invoked"
               \/ Broken(m) /\ (Visible(m) \union {m}) \cap Faulty # {}

\* A thread that waits for a library holds only libraries that import it, or that
\* library itself when it calls itself: threads never wait for each other in a
\* circle.
WaitsFollowImports ==
    \A t \in Thread, l \in Lib :
        holder[l] = t /\ calls[t] # <<>> /\ Current(t).do \notin Holding
            => LET m == Current(t).lib IN
               \/ m \in Visible(l) /\ l \notin Visible(m)
               \/ m = l /\ l \in CallsItself

\* Thread t waits for a lock that u holds.
WaitsFor(t, u) ==
    \E l \in Lib : holder[l] = u /\ (Doing(t, "expand", l) \/ Doing(t, "invoke", l))

\* Thread t looks up, over and over, a binding that stays pending: the expansion of
\* its library has failed, or has ended without a definition of it.
Circling(t) ==
    /\ calls[t] # <<>> /\ Current(t).do \notin Holding
    /\ LET l == Current(t).lib IN
        /\ ~bound[l] /\ holder[l] = None
        /\ \/ state[l] = "expanding"
           \/ l \in gaps /\ state[l] = "expanded"

\* The body that thread t expands calls a variable of its own library before the
\* definitions are marked: the thread waits for the lock it holds.
WaitsForItself(t) ==
    \E l \in CallsItself : holder[l] = t /\ Doing(t, "expand", l)

\* A lookup returns unless it, or a thread that it waits for, directly or not, is
\* in one of these three cases: failures and lookups that never return stop nobody
\* else, and no threads wait for each other in a circle.
LookupsReturn ==
    \A t \in Thread :
        calls[t] # <<>> ~>
            \/ calls[t] = <<>>
            \/ \E u \in Thread :
                /\ Circling(u) \/ WaitsForItself(u)
                /\ \A S \in SUBSET Thread :
                      (t \in S /\ \A x \in S, y \in Thread : WaitsFor(x, y) => y \in S) => u \in S
=============================================================================
