----------------------------- MODULE HashTables -----------------------------
(***************************************************************************)
(* Hash tables (hashtables.rs): a bucket table under a reader-writer lock, whose *)
(* operations call the hash and the equivalence procedure of the table, and     *)
(* hashtable-update! a third one, with the lock held. These are procedures of   *)
(* the program: they may use other tables, raise, or return no value.          *)
(*                                                                         *)
(* The lock is parking_lot's: a writer first claims it, which keeps new readers  *)
(* out, and then waits for the readers to leave.                              *)
(***************************************************************************)
EXTENDS Naturals, Sequences, SequencesExt

CONSTANTS
    Threads, Tables, Keys, Values,
    Class,      \* Class[k]: keys of one class are equivalent
    Hash,       \* Hash[k]: equal on a class
    Uses,       \* Uses[h]: the tables that the procedures of h, and those passed to it, use
    Program,    \* the calls that are made, as <<thread, depth, table, operation, key>>
    Default,    \* the default of hashtable-ref
    Done, Refused, Raised, NoAnswer

ASSUME HashFitsClass == \A j, k \in Keys : Class[j] = Class[k] => Hash[j] = Hash[k]

VARIABLES
    entries,   \* entries[h]: the entries of the table, as [key, val, hash]
    mutable,   \* mutable[h]
    calls,     \* calls[t]: the operations under way in t, one inside the procedures of another
    answer     \* the answer given by the last step, or NoAnswer

tableVars == <<entries, mutable, calls, answer>>

ReadOps == {"ref"}
WriteOps == {"set", "delete", "contains", "update"}
Changing == WriteOps \ {"contains"}

\* A call asks for the lock, drains the readers (writers only), then runs user procedures.
Phases == {"ask", "drain", "hash", "eq", "proc"}

TableInit ==
    /\ entries = [h \in Tables |-> {}]
    /\ mutable = [h \in Tables |-> TRUE]
    /\ calls = [t \in Threads |-> <<>>]
    /\ answer = NoAnswer

-----------------------------------------------------------------------------
(* The lock, as the calls hold it. *)

\* Some call on h of one of ops is in one of phases.
Working(h, ops, phases) ==
    \E t \in Threads : \E i \in DOMAIN calls[t] :
        calls[t][i].table = h /\ calls[t][i].op \in ops /\ calls[t][i].phase \in phases

Held == Phases \ {"ask", "drain"}
Claimed(h) == Working(h, WriteOps, Held \cup {"drain"})

MayRead(h) == ~Claimed(h)
MayClaim(h) == ~Claimed(h)

\* Mutant of MayWrite: the writers that have claimed the lock wait for each other, and for themselves.
MayWrite_Claimed(h) == ~Working(h, ReadOps \cup WriteOps, Held \cup {"drain"})

MayWrite(h) == ~Working(h, ReadOps, Held)

-----------------------------------------------------------------------------
Top(t) == Last(calls[t])
SetTop(t, c) == calls' = [calls EXCEPT ![t] = Append(Front(@), c)]
In(t, phase) == calls[t] # <<>> /\ Top(t).phase = phase

\* The operation of the top call ends with the result r.
Return(t, r) ==
    /\ calls' = [calls EXCEPT ![t] = Front(@)]
    /\ answer' = [op |-> Top(t).op, table |-> Top(t).table, key |-> Top(t).key, result |-> r]

Quietly == answer' = NoAnswer

\* A thread may call when it runs the program, or a procedure that may use h.
MayCall(t, h, op, k) ==
    /\ <<t, Len(calls[t]), h, op, k>> \in Program
    /\ calls[t] # <<>> =>
          Top(t).phase \in {"hash", "eq", "proc"} /\ h \in Uses[Top(t).table]

\* An operation that changes a table looks at mutable before it locks.
Refuse(t, h, op, k) ==
    /\ MayCall(t, h, op, k) /\ op \in Changing /\ ~mutable[h]
    /\ answer' = [op |-> op, table |-> h, key |-> k, result |-> Refused]
    /\ UNCHANGED <<entries, mutable, calls>>

Call(t, h, op, k, v) ==
    /\ MayCall(t, h, op, k)
    /\ op \in Changing => mutable[h]
    /\ op # "set" => v = CHOOSE w \in Values : TRUE
    /\ calls' = [calls EXCEPT ![t] = Append(@,
          [op |-> op, table |-> h, key |-> k, val |-> v, phase |-> "ask", left |-> {}, found |-> {}])]
    /\ Quietly /\ UNCHANGED <<entries, mutable>>

Lock(t) ==
    /\ \/ /\ In(t, "ask") /\ Top(t).op \in ReadOps /\ MayRead(Top(t).table)
          /\ SetTop(t, [Top(t) EXCEPT !.phase = "hash"])
       \/ /\ In(t, "ask") /\ Top(t).op \in WriteOps /\ MayClaim(Top(t).table)
          /\ SetTop(t, [Top(t) EXCEPT !.phase = "drain"])
       \/ /\ In(t, "drain") /\ MayWrite(Top(t).table)
          /\ SetTop(t, [Top(t) EXCEPT !.phase = "hash"])
    /\ Quietly /\ UNCHANGED <<entries, mutable>>

Bucket(h, hash) == {e \in entries[h] : e.hash = hash}

\* Mutant of HashReturns: only the first entry of the bucket is compared.
HashReturns_First(t) ==
    /\ In(t, "hash")
    /\ LET b == Bucket(Top(t).table, Hash[Top(t).key]) IN
       SetTop(t, [Top(t) EXCEPT !.phase = "eq", !.left = IF b = {} THEN {} ELSE {CHOOSE e \in b : TRUE}])
    /\ Quietly /\ UNCHANGED <<entries, mutable>>

\* The hash procedure returns; the entries of that hash are left to compare.
HashReturns(t) ==
    /\ In(t, "hash")
    /\ SetTop(t, [Top(t) EXCEPT !.phase = "eq", !.left = Bucket(Top(t).table, Hash[Top(t).key])])
    /\ Quietly /\ UNCHANGED <<entries, mutable>>

\* The equivalence procedure returns: the entry is the one looked for, or is left.
EqReturns(t) ==
    /\ In(t, "eq") /\ Top(t).found = {}
    /\ \E e \in Top(t).left :
          IF Class[e.key] = Class[Top(t).key]
          THEN SetTop(t, [Top(t) EXCEPT !.found = {e}, !.left = {},
                                        !.phase = IF Top(t).op = "update" THEN "proc" ELSE "eq"])
          ELSE SetTop(t, [Top(t) EXCEPT !.left = @ \ {e}])
    /\ Quietly /\ UNCHANGED <<entries, mutable>>

Searched(t, op) == In(t, "eq") /\ Top(t).op = op /\ Top(t).left = {}

Replace(h, old, new) == entries' = [entries EXCEPT ![h] = (@ \ old) \cup new]

NewEntry(c, v) ==
    [key |-> IF c.found = {} THEN c.key ELSE (CHOOSE e \in c.found : TRUE).key,
     val |-> v, hash |-> Hash[c.key]]

EndRef(t) ==
    /\ Searched(t, "ref")
    /\ Return(t, IF Top(t).found = {} THEN Default ELSE (CHOOSE e \in Top(t).found : TRUE).val)
    /\ UNCHANGED <<entries, mutable>>

EndContains(t) ==
    Searched(t, "contains") /\ Return(t, Top(t).found # {}) /\ UNCHANGED <<entries, mutable>>

EndSet(t) ==
    /\ Searched(t, "set")
    /\ Replace(Top(t).table, Top(t).found, {NewEntry(Top(t), Top(t).val)})
    /\ Return(t, Done) /\ UNCHANGED mutable

EndDelete(t) ==
    /\ Searched(t, "delete")
    /\ Replace(Top(t).table, Top(t).found, {})
    /\ Return(t, Done) /\ UNCHANGED mutable

\* hashtable-update! runs its procedure on the value found or on the default.
BeginProc(t) ==
    /\ Searched(t, "update")
    /\ SetTop(t, [Top(t) EXCEPT !.phase = "proc"])
    /\ Quietly /\ UNCHANGED <<entries, mutable>>

ProcReturns(t, v) ==
    /\ In(t, "proc")
    /\ Replace(Top(t).table, Top(t).found, {NewEntry(Top(t), v)})
    /\ Return(t, Done) /\ UNCHANGED mutable

\* A user procedure raises (or, for update, returns no value, which panics): the lock is released.
Raise(t) ==
    /\ \/ In(t, "hash") \/ In(t, "proc")
       \/ In(t, "eq") /\ Top(t).left # {}
    /\ Return(t, Raised)
    /\ UNCHANGED <<entries, mutable>>

-----------------------------------------------------------------------------
\* Operations that run no user code wait for the lock and are done.
Clear(t, h) ==
    /\ calls[t] = <<>> /\ mutable[h] /\ MayClaim(h) /\ MayWrite(h)
    /\ entries' = [entries EXCEPT ![h] = {}]
    /\ Quietly /\ UNCHANGED <<mutable, calls>>

\* hashtable-copy; the new table is one that nothing uses yet.
Copy(t, h, g, m) ==
    /\ calls[t] = <<>> /\ MayRead(h)
    /\ g # h /\ entries[g] = {} /\ mutable[g]
    /\ \A u \in Threads : \A i \in DOMAIN calls[u] : g \notin {calls[u][i].table} \cup Uses[calls[u][i].table]
    /\ entries' = [entries EXCEPT ![g] = entries[h]]
    /\ mutable' = [mutable EXCEPT ![g] = m]
    /\ Quietly /\ UNCHANGED calls

-----------------------------------------------------------------------------
Continue(t) ==
    \/ Lock(t) \/ HashReturns(t) \/ EqReturns(t)
    \/ EndRef(t) \/ EndContains(t) \/ EndSet(t) \/ EndDelete(t) \/ BeginProc(t)
    \/ \E v \in Values : ProcReturns(t, v)

TableNext == \E t \in Threads :
    \/ Continue(t)
    \/ Raise(t)
    \/ \E h \in Tables :
          \/ Clear(t, h)
          \/ \E k \in Keys, op \in ReadOps \cup WriteOps :
                Refuse(t, h, op, k) \/ \E v \in Values : Call(t, h, op, k, v)
          \/ \E g \in Tables, m \in BOOLEAN : Copy(t, h, g, m)

\* Threads run; a user procedure returns after finitely many calls; the lock is handed to a thread
\* that waits for it (parking_lot is fair in the long run).
TableFairness == \A t \in Threads :
    /\ WF_tableVars(Continue(t))
    /\ SF_tableVars(Len(calls[t]) = 1 /\ Continue(t))
    /\ SF_tableVars(Lock(t))

TableSpec == TableInit /\ [][TableNext]_tableVars /\ TableFairness

-----------------------------------------------------------------------------
\* The map that a set of entries stands for.
MapOf(E) == [c \in {Class[e.key] : e \in E} |->
                LET e == CHOOSE e \in E : Class[e.key] = c IN <<e.key, e.val>>]

M == INSTANCE AbstractTables WITH map <- [h \in Tables |-> MapOf(entries[h])]

\* An operation takes effect at once and on the whole class of its key, and answers what the map holds
\* then, whatever other threads and the user's own procedures do meanwhile (HashTableInner).
ImplementsMap == M!Spec

\* Every operation answers, as long as the procedures of tables use each other's tables in no circle:
\* readers do not keep a writer out for ever, and a procedure that raises leaves no lock behind.
OperationsEnd == \A t \in Threads : calls[t] # <<>> ~> calls[t] = <<>>
=============================================================================
