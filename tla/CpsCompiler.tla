----------------------------- MODULE CpsCompiler ----------------------------
(***************************************************************************)
(* The compiler (Compiler::compile in cps/compile.rs, reduce in cps/reduce.rs): *)
(* an expression is translated, assigned variables become cells, reductions are   *)
(* repeated until nothing changes, and functions become continuations. What comes *)
(* out has to do what the expression says.                                    *)
(***************************************************************************)
EXTENDS CpsMeaning, CpsContify

CONSTANTS
    Programs,  \* the expressions that are compiled
    Mutable    \* their variables that are assigned somewhere

VARIABLES
    program,  \* the expression
    stage,    \* how far it is compiled
    term,     \* what it has become
    uses      \* the cache of counted uses

vars == <<program, stage, term, uses>>

Init ==
    /\ program \in Programs
    /\ stage = "parsed" /\ term = Halt(Const(Undefined)) /\ uses = <<>>

\* Translation, with the assigned variables in cells.
Translate ==
    /\ stage = "parsed"
    /\ term' = ValsToCells(CompileProgram(program, Mutable), Mutable)
    /\ stage' = "translated"
    /\ UNCHANGED <<program, uses>>

\* A round of reductions, beta reduction then eta reduction; the cache lives through all rounds.
Beta ==
    /\ stage = "translated"
    /\ \E r \in {BetaReduction(term, uses)} :
          term' = r.term /\ uses' = r.cache /\ stage' = IF r.modified THEN "beta changed" ELSE "beta"
    /\ UNCHANGED program

\* Another round follows one that changed anything.
Eta ==
    /\ stage \in {"beta", "beta changed"}
    /\ \E r \in {EtaReduction(term, uses)} :
          /\ term' = r.term /\ uses' = r.cache
          /\ stage' = IF r.modified \/ stage = "beta changed" THEN "translated" ELSE "reduced"
    /\ UNCHANGED program

EliminateDeadCode ==
    /\ stage = "reduced"
    /\ term' = DeadCode(term, uses).term
    /\ stage' = "cleaned"
    /\ uses' = <<>>
    /\ UNCHANGED program

\* A term with free variables is refused, as a reference to out of phase identifiers.
Finish ==
    /\ stage = "cleaned"
    /\ IF FreeVariables(term) = {} THEN stage' = "done" /\ term' = Contify(term)
       ELSE stage' = "refused" /\ UNCHANGED term
    /\ UNCHANGED <<program, uses>>

Next == Translate \/ Beta \/ Eta \/ EliminateDeadCode \/ Finish

Spec == Init /\ [][Next]_vars

-----------------------------------------------------------------------------
\* The term stands for the whole program: it is translated and does not run yet.
IsWhole == stage \notin {"parsed", "running", "ended"}

\* At every stage the term does what the program says: the same calls in the same order, and the same
\* values or the same error (stale counts, a body moved past an effect, a call whose arity is wrong).
SameMeaning == IsWhole => MeaningOfTerm(term) = MeaningOf(program)

\* A name is bound once and used only where it is bound, although bodies are moved without renaming:
\* reductions and contification neither capture a name nor leave one behind.
WellScoped ==
    IsWhole =>
       /\ FreeVariables(term) = {}
       /\ IsInjective(Binders(term))
=============================================================================
