----------------------------- MODULE MCRegistry -----------------------------
(***************************************************************************)
(* The library registry, what imports and exports mean, the collector beside        *)
(* running mutators up to the first cycle it frees, and the expander, in one run: a   *)
(* behaviour is about one of them, the others stay as they begin.                    *)
(***************************************************************************)
EXTENDS Registry, TLC

CONSTANTS Obj, Slot, Null, Thread, MaxHandles, MaxLocks, MinAllocs, Concurrent, A, B, D

VARIABLES
    part,   \* what this behaviour is about
    allocated, rc, handles, slots, locked, epochRc, crc, color, buffered, fresh, newAllocs, force,
    waiting, pc, mine, toSweep, roots, cycles, freedObjs, iter, taken, work,
    case, outcome,
    specs, requests, sets, cx, top, current, spaces, imported

\* Objects only point to older ones.
Downward == {e \in Obj \X Slot \X Obj : e[1] > e[3]}

C == INSTANCE GcCollector WITH MayPoint <- Downward

Macros == INSTANCE MacroPrograms

X == INSTANCE Expansion WITH
        Programs <- Macros!HygienicPrograms, Patterns <- Macros!SmallPatterns, Forms <- Macros!SmallForms

N == INSTANCE Interfaces WITH
        Paths <- <<<<"A">>, <<"B">>>>, Shelves <- <<Macros!ShelfA, Macros!ShelfB>>,
        Requests <- Macros!SessionImports, MaxRequests <- 1, Policies <- {{<<"A">>, <<"B">>}, {<<"B">>}},
        Alphabet <- {"a", "b", "c", "d", "pa", "pb", "pc", "pd"}

nameVars == <<specs, requests, sets, cx, top, current, spaces, imported>>

gcVars ==
    <<allocated, rc, handles, slots, locked, epochRc, crc, color, buffered, fresh, newAllocs, force,
      waiting, pc, mine, toSweep, roots, cycles, freedObjs, iter, taken, work>>

\* A file is missing, malformed or a library, which imports any libraries.
Absent == {s \in Sources : s.file # "library"}
Text(name) == {s \in Sources : s.file = "library" /\ s.name = name}

\* Every file declares the name it is found under, or those of A and B declare either
\* name and import each other or themselves.
WellNamed == {d \in [Lib -> Sources] : \A l \in Lib : d[l] \in Absent \cup Text(l)}
Misnaming ==
    {d \in [Lib -> Sources] :
        /\ d[D].file = "missing"
        /\ \A l \in {A, B} : d[l].file = "library" /\ d[l].name # D /\ D \notin d[l].imports}
SomeDisks == WellNamed \cup Misnaming

\* Files are changed to what declares their own name.
WellNamedChanges == UNION {{l} \X (Absent \cup Text(l)) : l \in Lib}

SwapAB == Permutations({A, B})

NoCase == [of |-> "none"]

AllInit ==
    /\ part \in {"registry", "interfaces", "collector", "expander"}
    /\ Init /\ C!Init /\ N!Init
    /\ part # "registry" => \A l \in Lib : source[l].file = "missing"
    /\ IF part = "expander" THEN X!Init ELSE case = NoCase /\ outcome = X!Waiting

AllNext ==
    \/ part = "registry" /\ Next /\ UNCHANGED <<part, nameVars, gcVars, case, outcome>>
    \/ part = "interfaces" /\ N!Next /\ UNCHANGED <<part, vars, gcVars, case, outcome>>
    \/ part = "collector" /\ C!CountingNext /\ UNCHANGED <<part, vars, nameVars, case, outcome>>
    \/ part = "expander" /\ X!Next /\ UNCHANGED <<part, vars, nameVars, gcVars>>

AllSpec == AllInit /\ [][AllNext]_<<part, vars, nameVars, gcVars, case, outcome>>

\* See GcCollector.
CountingIsSafe == part = "collector" => C!ReleasesAreSafe

\* See Interfaces.
NamesDenote == part = "interfaces" => N!NamesDenote

\* See Expansion.
Hygienic == part = "expander" => X!Hygienic
MatchIsWhole == part = "expander" => X!MatchIsWhole
=============================================================================
