------------------------------ MODULE Expansion ------------------------------
(***************************************************************************)
(* Programs with macros, expanded, and patterns, matched: a case at a time. A     *)
(* program is given by its shape (see MacroPrograms), a case of the other kind is  *)
(* a pattern and a form.                                                           *)
(***************************************************************************)
EXTENDS Hygiene, MacroPrograms

CONSTANTS Programs, Patterns, Forms

VARIABLES case, outcome

vars == <<case, outcome>>

-----------------------------------------------------------------------------
(* A pattern, matched with a form; used as a template it gives the form back. *)

PatternScope == 1

MatchOf(pattern, form) ==
    LET scoped == AddScope(pattern, PatternScope)
        Made(compiled, match) ==
            [e |-> "match",
             legal |-> compiled.legal /\ LegalTemplate(scoped, compiled.vars, compiled.cx),
             ok |-> match.ok,
             back |-> IF match.ok
                      THEN RemoveScopes(Expand(CompileTemplate(scoped, FALSE, compiled.vars, compiled.cx), match.binds), {PatternScope})
                      ELSE Nil]
        With(compiled) == Made(compiled, Matches(compiled.pattern, form, compiled.cx))
    IN With(CompilePattern(pattern, {Keyword}, 0, PatternScope, NewScope(TopContext)))

Waiting == [e |-> "waiting"]

Init ==
    /\ \/ \E c \in Programs : case = [of |-> "program", shape |-> c, program |-> ProgramOf(c)]
       \/ case \in [of : {"pattern"}, pattern : Patterns, form : Forms]
    /\ outcome = Waiting

ExpandProgram ==
    /\ case.of = "program" /\ outcome = Waiting
    /\ outcome' = ParseProgram(case.program)
    /\ UNCHANGED case

MatchPattern ==
    /\ case.of = "pattern" /\ outcome = Waiting
    /\ outcome' = MatchOf(case.pattern, case.form)
    /\ UNCHANGED case

\* A case ends with its outcome.
Stay == outcome # Waiting /\ UNCHANGED vars

Next == ExpandProgram \/ MatchPattern \/ Stay

Spec == Init /\ [][Next]_vars

\* A macro is hygienic: in the expanded program every variable is the one that the same name means where the macro was
\* defined, for what it inserts, and where it was used, for what it was given.
Hygienic ==
    case.of = "program" /\ outcome # Waiting => Alike(outcome, MeaningOf(case.program), {})

\* A pattern matches the forms that the report says it does (what is repeated takes all but what the patterns behind it
\* need), and what it binds is all of the form: the pattern as a template is the form again.
MatchIsWhole ==
    case.of = "pattern" /\ outcome # Waiting =>
        /\ outcome.legal
        /\ outcome.ok = Fits(Named(case.pattern), Named(case.form), [literals |-> {<<Keyword.sym>>}, frame |-> 1], 1, TopState).ok
        /\ outcome.ok => outcome.back = case.form
=============================================================================
