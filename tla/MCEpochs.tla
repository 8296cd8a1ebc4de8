------------------------------ MODULE MCEpochs ------------------------------
(***************************************************************************)
(* The epochs of the collector, and equal? on values that may be cyclic, in one   *)
(* run: a behaviour is about one of them, the other stays as it begins.           *)
(***************************************************************************)
EXTENDS GcCollector

CONSTANTS Node, Graphs, K0, KB, A, OtherThread

VARIABLES
    part,   \* what this behaviour is about
    node, todo, budget, boxOf, box, verdict

\* A value of MayPoint: any cycles of two objects, and a second field by which a
\* cycle of 1 alone can keep a cycle of 2 alone.
AnyCycles == (Obj \X {"a"} \X Obj) \union {<<1, "b", 2>>}

E == INSTANCE Equality

\* Objects without fields, and programs that go on during epochs.
R == INSTANCE GcCollector WITH
        Concurrent <- TRUE, MayPoint <- {}, Thread <- Thread \union {OtherThread}

ASSUME CollectorAssumption
ASSUME E!BudgetAssumption

equalVars == <<node, todo, budget, boxOf, box, verdict>>

-----------------------------------------------------------------------------
\* Values of up to four nodes: rings and trees that share parts, two lists that
\* share their tails, and pairs of lists that end in themselves.
Pair(x, y) == [kind |-> "pair", kids |-> <<x, y>>]
Vector(s) == [kind |-> "vector", kids |-> s]
Kid == Node \cup {A}
Pairs == {Pair(x, y) : x \in {1, 2, 3, A}, y \in {1, 2, 3, A}}
Vectors == {Vector(s) : s \in {<<>>, <<A>>, <<1>>, <<3>>}}
Tangled == {<<p, q, r, Pair(A, A)>> : p \in Pairs, q \in Pairs, r \in Pairs \cup Vectors}
Lists ==
    {<<Pair(A, p), Pair(A, q), Pair(A, r), s>> :
        p \in Kid, q \in Kid, r \in Kid, s \in {Pair(A, x) : x \in Kid} \cup {Vector(<<A, x>>) : x \in Kid}}
Twins == {<<Pair(x, 3), Pair(y, 4), Pair(A, z), Pair(A, w)>> : x \in {1, 2}, y \in {1, 2}, z \in Kid, w \in Kid}
MCGraphs == Tangled \cup Lists \cup Twins

-----------------------------------------------------------------------------
AllInit ==
    /\ part \in {"epochs", "requests", "equal"}
    /\ Init /\ E!Init
    /\ part # "equal" => node = [n \in Node |-> Pair(A, A)]

CollectorStep == part # "equal" /\ Collector /\ UNCHANGED <<part, equalVars>>
MutatorStep ==
    /\ \/ part = "epochs" /\ Mutator
       \/ part = "requests" /\ R!Mutator
    /\ UNCHANGED <<part, equalVars>>
EqualStep == part = "equal" /\ E!Next /\ UNCHANGED <<part, vars>>

\* The collector thread is always scheduled again, and so is a thread that runs
\* equal?; nothing is assumed of programs.
AllSpec ==
    /\ AllInit /\ [][CollectorStep \/ MutatorStep \/ EqualStep]_<<part, vars, equalVars>>
    /\ Fairness /\ WF_equalVars(part = "equal" /\ E!Next)

\* See Equality.
EqualReturnsRight == part = "equal" => E!EqualIsRight
=============================================================================
