--------------------------- MODULE AbstractTables ---------------------------
(***************************************************************************)
(* What the hash tables of the program promise (hashtables.rs): each is a map   *)
(* from classes of equivalent keys to the key inserted first and a value, and   *)
(* every operation takes effect at once, when it answers.                     *)
(***************************************************************************)
CONSTANTS Tables, Keys, Values, Class, Default, Done, Refused, Raised, NoAnswer

VARIABLES
    map,       \* map[h][c]: <<key, value>> of the class c in the table h
    mutable,   \* mutable[h]
    answer     \* the answer given by the last step, or NoAnswer

vars == <<map, mutable, answer>>

Init ==
    /\ map = [h \in Tables |-> <<>>]
    /\ mutable = [h \in Tables |-> TRUE]
    /\ answer = NoAnswer

Has(h, k) == Class[k] \in DOMAIN map[h]

\* The map of h with the value v for k; the first key of a class stays.
With(h, k, v) ==
    [c \in DOMAIN map[h] \cup {Class[k]} |->
        IF c # Class[k] THEN map[h][c]
        ELSE IF Has(h, k) THEN <<map[h][c][1], v>> ELSE <<k, v>>]

Without(h, k) == [c \in DOMAIN map[h] \ {Class[k]} |-> map[h][c]]

Answers(op, h, k, r) == answer' = [op |-> op, table |-> h, key |-> k, result |-> r]

Refuse(op, h, k) == ~mutable[h] /\ Answers(op, h, k, Refused) /\ UNCHANGED <<map, mutable>>

Fail(op, h, k) == Answers(op, h, k, Raised) /\ UNCHANGED <<map, mutable>>

Ref(h, k) ==
    /\ Answers("ref", h, k, IF Has(h, k) THEN map[h][Class[k]][2] ELSE Default)
    /\ UNCHANGED <<map, mutable>>

Contains(h, k) ==
    Answers("contains", h, k, IF Has(h, k) THEN TRUE ELSE FALSE) /\ UNCHANGED <<map, mutable>>

Set(op, h, k, v) ==
    /\ mutable[h]
    /\ map' = [map EXCEPT ![h] = With(h, k, v)]
    /\ Answers(op, h, k, Done)
    /\ UNCHANGED mutable

Delete(h, k) ==
    /\ mutable[h]
    /\ map' = [map EXCEPT ![h] = Without(h, k)]
    /\ Answers("delete", h, k, Done)
    /\ UNCHANGED mutable

Clear(h) ==
    /\ mutable[h]
    /\ map' = [map EXCEPT ![h] = <<>>]
    /\ answer' = NoAnswer
    /\ UNCHANGED mutable

Copy(h, g, m) ==
    /\ map' = [map EXCEPT ![g] = map[h]]
    /\ mutable' = [mutable EXCEPT ![g] = m]
    /\ answer' = NoAnswer

Quiet == answer' = NoAnswer /\ UNCHANGED <<map, mutable>>

Next ==
    \/ Quiet
    \/ \E h \in Tables, k \in Keys :
          \/ Ref(h, k) \/ Contains(h, k) \/ Delete(h, k)
          \/ \E op \in {"set", "update"}, v \in Values : Set(op, h, k, v)
          \/ \E op \in {"set", "update", "delete"} : Refuse(op, h, k)
          \/ \E op \in {"ref", "contains", "set", "update", "delete"} : Fail(op, h, k)
    \/ \E h, g \in Tables, m \in BOOLEAN : Copy(h, g, m)
    \/ \E h \in Tables : Clear(h)

Spec == Init /\ [][Next]_vars
=============================================================================
