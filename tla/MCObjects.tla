----------------------------- MODULE MCObjects ------------------------------
(***************************************************************************)
(* The heap of Gc pointers, hash tables and the queue of compilations, in one    *)
(* run: a behaviour is about one of them, the others stay as they begin.        *)
(***************************************************************************)
EXTENDS RefHeap, HashTables, TLC

CONSTANTS
    Requesters, Places, MaxRequests, None,
    t1, t2, h1, h2, k1, k2, k3

VARIABLES
    part,   \* what this behaviour is about
    queue, compiling, alive, asked, wants, sent, answered, failed

Q == INSTANCE CompileQueue

ASSUME Q!QueueAssumption

queueVars == <<queue, compiling, alive, asked, wants, sent, answered, failed>>

-----------------------------------------------------------------------------
\* k1 and k2 are equivalent; all hashes collide. The procedures of h1 use h2.
MCClass == k1 :> 1 @@ k2 :> 1 @@ k3 :> 2
MCHash == [k \in Keys |-> 0]
MCUses == h1 :> {h2} @@ h2 :> {}
MCProgram ==
    {<<t1, 0, h1, "set", k1>>, <<t1, 0, h1, "update", k2>>, <<t1, 1, h2, "update", k1>>,
     <<t2, 0, h1, "set", k3>>, <<t2, 0, h1, "delete", k3>>, <<t2, 0, h1, "ref", k2>>, <<t2, 0, h2, "contains", k1>>}

-----------------------------------------------------------------------------
AllInit ==
    /\ part \in {"heap", "tables", "queue"}
    /\ Init /\ TableInit /\ Q!Init

AllNext ==
    \/ part = "heap" /\ Next /\ UNCHANGED <<part, tableVars, queueVars>>
    \/ part = "tables" /\ TableNext /\ UNCHANGED <<part, vars, queueVars>>
    \/ part = "queue" /\ Q!Next /\ UNCHANGED <<part, vars, tableVars>>

AllSpec == AllInit /\ [][AllNext]_<<part, vars, tableVars, queueVars>> /\ TableFairness /\ Q!Fairness

\* See CompileQueue.
CompilationsReturn == Q!CompilationsReturn
=============================================================================
