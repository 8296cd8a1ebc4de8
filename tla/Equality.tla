------------------------------ MODULE Equality ------------------------------
(***************************************************************************)
(* equal? on graphs of pairs and vectors that may share parts and be cyclic      *)
(* (value.rs). The comparison goes through both graphs in step. A budget decides  *)
(* how: while it is positive parts are compared directly, below zero every two     *)
(* parts that meet are also put in one class, and parts of one class are not        *)
(* compared again, which ends the comparison of cycles.                            *)
(***************************************************************************)
EXTENDS Integers, SequencesExt, FiniteSetsExt, TLC

CONSTANTS
    Node,     \* pairs and vectors
    Graphs,   \* what they may hold: functions from Node to [kind, kids]
    K0, KB    \* the budget at first, and how far below zero it is renewed

\* Below zero there is room for comparisons that use classes.
BudgetAssumption == K0 \in Nat \ {0} /\ KB \in Nat /\ KB > 2

VARIABLES
    node,     \* the contents of the nodes; whatever is no node is a constant
    todo,     \* what is still to be compared, first comes first
    budget,        \* the budget
    boxOf,    \* ht: the box of a node
    box,      \* boxes: the size of a class, or the box it was merged into
    verdict

vars == <<node, todo, budget, boxOf, box, verdict>>

Roots == CHOOSE p \in Node \X Node : p[1] # p[2]

Init ==
    /\ node \in Graphs
    /\ todo = <<Roots>>
    /\ budget = K0
    /\ boxOf = <<>> /\ box = <<>>
    /\ verdict = "pending"

-----------------------------------------------------------------------------
(* Classes of nodes: union_find with path halving. *)

RECURSIVE Halve(_, _, _)
Halve(b, n, boxes) ==
    IF boxes[n].into = 0 THEN [root |-> n, boxes |-> boxes]
    ELSE Halve(n, boxes[n].into, [boxes EXCEPT ![b].into = boxes[n].into])

Find(b, boxes) == IF boxes[b].into = 0 THEN [root |-> b, boxes |-> boxes] ELSE Halve(b, boxes[b].into, boxes)

Merge(from, to, boxes) ==
    [boxes EXCEPT ![from].into = to, ![to].size = @ + boxes[from].size]

\* Mutant of UnionFind: whatever has been met on both sides counts as the same.
UnionFind_Seen(x, y) ==
    [same |-> {x, y} \subseteq DOMAIN boxOf, boxOf |-> (x :> 1 @@ y :> 1) @@ boxOf, box |-> box]

\* Whether x and y are in one class already, and the classes once they are.
UnionFind(x, y) ==
    LET known == {x, y} \cap DOMAIN boxOf
        new == Len(box) + 1
    IN CASE known = {} ->
              [same |-> FALSE, boxOf |-> (x :> new @@ y :> new) @@ boxOf,
               box |-> Append(box, [into |-> 0, size |-> 1])]
         [] Cardinality(known) = 1 ->
              LET z == CHOOSE z \in known : TRUE
                  r == Find(boxOf[z], box)
              IN [same |-> FALSE, boxOf |-> boxOf @@ (x :> r.root @@ y :> r.root), box |-> r.boxes]
         [] OTHER ->
              LET rx == Find(boxOf[x], box)
                  ry == Find(boxOf[y], rx.boxes)
                  larger == ry.boxes[rx.root].size > ry.boxes[ry.root].size
              IN [same |-> rx.root = ry.root, boxOf |-> boxOf,
                  box |-> IF rx.root = ry.root THEN ry.boxes
                          ELSE IF larger THEN Merge(ry.root, rx.root, ry.boxes)
                          ELSE Merge(rx.root, ry.root, ry.boxes)]

-----------------------------------------------------------------------------
(* One comparison: e, fast and slow. *)

\* The budget is renewed after KB comparisons below zero.
IsKB == budget = -KB
IsFast == budget > 0 \/ IsKB

\* fast takes one off the budget, whatever it finds; a new one is random.
Budgets == IF IsKB THEN 0 .. 2 * K0 - 1 ELSE {budget}
Left == IF IsFast THEN {b - 1 : b \in Budgets} ELSE {budget}

SameShape(x, y) ==
    /\ {x, y} \subseteq Node
    /\ node[x].kind = node[y].kind
    /\ Len(node[x].kids) = Len(node[y].kids)

\* pair_eq, vector_eq: the parts come next, with one less.
Parts(x, y) == [i \in DOMAIN node[x].kids |-> <<node[x].kids[i], node[y].kids[i]>>]
Enter(x, y, left) ==
    IF SameShape(x, y) THEN todo' = Parts(x, y) \o Tail(todo) /\ budget' = left - 1 /\ UNCHANGED verdict
    ELSE verdict' = "different" /\ UNCHANGED <<todo, budget>>

Same(x, y) ==
    /\ x = y
    /\ budget' \in Left
    /\ todo' = Tail(todo)
    /\ UNCHANGED <<node, boxOf, box, verdict>>

Fast(x, y) ==
    /\ x # y /\ IsFast
    /\ \E left \in Left : Enter(x, y, left)
    /\ UNCHANGED <<node, boxOf, box>>

Slow(x, y) ==
    /\ x # y /\ ~IsFast
    /\ IF {x, y} \subseteq Node /\ node[x].kind = node[y].kind
       THEN LET u == UnionFind(x, y)
            IN /\ boxOf' = u.boxOf /\ box' = u.box
               /\ IF u.same THEN todo' = Tail(todo) /\ budget' = 0 /\ UNCHANGED verdict
                  ELSE Enter(x, y, budget)
       ELSE verdict' = "different" /\ UNCHANGED <<todo, budget, boxOf, box>>
    /\ UNCHANGED node

Compare ==
    /\ verdict = "pending" /\ todo # <<>>
    /\ LET x == todo[1][1]  y == todo[1][2] IN Same(x, y) \/ Fast(x, y) \/ Slow(x, y)

Finish ==
    /\ verdict = "pending" /\ todo = <<>>
    /\ verdict' = "equal"
    /\ UNCHANGED <<node, todo, budget, boxOf, box>>

Next == Compare \/ Finish
Fairness == WF_vars(Next)
Spec == Init /\ [][Next]_vars /\ Fairness

-----------------------------------------------------------------------------
\* Two values are the same tree, unfolded for ever: pairs of nodes are struck out until none has to be.
RECURSIVE Strike(_)
Strike(r) ==
    LET Related(x, y) == x = y \/ <<x, y>> \in r
        kept == {p \in r : /\ SameShape(p[1], p[2])
                          /\ \A i \in DOMAIN node[p[1]].kids : Related(node[p[1]].kids[i], node[p[2]].kids[i])}
    IN IF kept = r THEN r ELSE Strike(kept)

\* equal? returns, and tells whether two values are the same tree, whatever they share, however long their
\* cycles are and wherever the budget runs out.
EqualIsRight == <>(verdict # "pending" /\ (verdict = "equal" <=> Roots \in Strike(Node \X Node)))
=============================================================================
