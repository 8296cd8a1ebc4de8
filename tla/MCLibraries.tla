----------------------------- MODULE MCLibraries ----------------------------
(***************************************************************************)
(* Threads that expand and run libraries, and the compiler and the code of bodies, *)
(* in one run: a behaviour is about one of them, the other stays as it begins.         *)
(***************************************************************************)
EXTENDS Libraries, TLC

CONSTANTS
    LA, LB, LC,                        \* libraries
    X, Y, F, G, M, Glob,               \* variables of the programs that are compiled
    out, list, isnot, car, kn0, kn1,   \* global procedures
    one, two, tmpl, True, False, Undefined, AnyPattern, Root, MaxDirectArgs

VARIABLES
    part,  \* what this behaviour is about
    program, stage, term, uses,
    code, live, scopes, stack, heap, globals, trace, result

\* LB imports LA, LC imports LB; the body of LC imports LA.
Chain == {LA :> {} @@ LB :> {LA} @@ LC :> {LB}}

\* The body of LA may leave undefined what it exports.
MayLack == {{}, {LA}}
CImportsA == {<<LC, LA>>}

\* LA names LB, which it does not import: such a name is not bound.
FewNames == {<<LB, "variable", LA>>, <<LC, "variable", LB>>, <<LA, "variable", LB>>}

P == INSTANCE CpsPrograms
K == INSTANCE CpsMachine WITH
        PrimOpOf <- P!SomePrimOps, KnownOf <- P!SomeKnown, Initial <- P!SomeGlobals, Observed <- {out},
        Mutable <- P!SomeMutable, Programs <- P!SamplePrograms \cup P!Captured

compilerVars == <<program, stage, term, uses, code, live, scopes, stack, heap, globals, trace, result>>

AllInit ==
    /\ part \in {"libraries", "compiler"}
    /\ Init /\ K!MachineInit /\ program \in P!SamplePrograms
    /\ part = "libraries" => program = P!begin(<<>>)

AllNext ==
    \/ part = "libraries" /\ Next /\ UNCHANGED <<part, compilerVars>>
    \/ part = "compiler" /\ K!MachineNext /\ UNCHANGED <<part, vars>>

AllSpec == AllInit /\ [][AllNext]_<<part, vars, compilerVars>> /\ Fairness

\* Programs that capture an assigned variable and call the closure.
CapturedInit == part = "compiler" /\ Init /\ K!MachineInit /\ program \in P!Captured
CapturedSpec == CapturedInit /\ [][AllNext]_<<part, vars, compilerVars>>

\* See CpsCompiler and CpsMachine: the compiled term, and then what its code does, mean what the program means.
SameMeaning == part = "compiler" => K!SameMeaning /\ K!SameOutcome
WellScoped == part = "compiler" => K!WellScoped
CountsExact == part = "compiler" => K!CountsExact
=============================================================================
