------------------------------ MODULE Threads ------------------------------
(***************************************************************************)
(* spawn and join of the (threads) library (src/src/threads.rs).  A join     *)
(* handle is a cell, a Gc<Mutex<Result>> born with an empty list of values:  *)
(* the new thread locks it for as long as its thunk runs and leaves the      *)
(* result in it, join locks it and copies what it finds: no values at all    *)
(* if it comes before the new thread has the lock.                           *)
(***************************************************************************)

CONSTANTS
    Main,        \* the thread that exists at the start
    Spawned,     \* the threads that may be spawned
    Result,      \* what a thunk returns, or the exception it raises
    NoValues,    \* Ok([]): what a cell holds at first
    NoThread

Thread == Spawned \union {Main}

ASSUME ThreadsAssumption ==
    /\ Main \notin Spawned /\ NoThread \notin Thread
    /\ NoValues \notin Result

VARIABLES
    phase,       \* "unborn", "started", "running" (its thunk) or "done"
    holder,      \* holder[u]: the thread that has the cell of u locked
    cell,        \* cell[u]: the result stored for u
    joining,     \* joining[t]: the thread whose cell t waits to lock
    returned,    \* history: what the thunk of u has returned, or NoValues
    joined       \* history: joined[u], what the joins that found u begun have returned

vars == <<phase, holder, cell, joining, returned, joined>>

TypeOK ==
    /\ phase \in [Spawned -> {"unborn", "started", "running", "done"}]
    /\ holder \in [Spawned -> Spawned \union {NoThread}]
    /\ cell \in [Spawned -> Result \union {NoValues}]
    /\ joining \in [Thread -> Spawned \union {NoThread}]
    /\ returned \in [Spawned -> Result \union {NoValues}]
    /\ joined \in [Spawned -> SUBSET (Result \union {NoValues})]

Init ==
    /\ phase = [u \in Spawned |-> "unborn"]
    /\ holder = [u \in Spawned |-> NoThread]
    /\ cell = [u \in Spawned |-> NoValues]
    /\ joining = [t \in Thread |-> NoThread]
    /\ returned = [u \in Spawned |-> NoValues]
    /\ joined = [u \in Spawned |-> {}]

\* Scheme code runs in t.
Runs(t) ==
    /\ joining[t] = NoThread
    /\ t = Main \/ (t \in Spawned /\ phase[t] = "running")

\* spawn: the cell and the thread exist, the thread has not locked the cell.
Spawn(t, u) ==
    /\ Runs(t) /\ phase[u] = "unborn"
    /\ phase' = [phase EXCEPT ![u] = "started"]
    /\ UNCHANGED <<holder, cell, joining, returned, joined>>

\* The closure passed to thread::spawn locks the cell and calls the thunk.
Begin(u) ==
    /\ phase[u] = "started" /\ holder[u] = NoThread
    /\ holder' = [holder EXCEPT ![u] = u]
    /\ phase' = [phase EXCEPT ![u] = "running"]
    /\ UNCHANGED <<cell, joining, returned, joined>>

\* The thunk returns, or raises: store the result, then drop the guard.
Finish(u, r) ==
    /\ Runs(u)
    /\ returned' = [returned EXCEPT ![u] = r]
    /\ cell' = [cell EXCEPT ![u] = r]
    /\ holder' = [holder EXCEPT ![u] = NoThread]
    /\ phase' = [phase EXCEPT ![u] = "done"]
    /\ UNCHANGED <<joining, joined>>

\* join: a thread's own handle is refused, any other cell is locked.
Join(t, u) ==
    /\ Runs(t) /\ phase[u] # "unborn" /\ t # u
    /\ joining' = [joining EXCEPT ![t] = u]
    /\ UNCHANGED <<phase, holder, cell, returned, joined>>

\* Mutant of JoinReturns: the result is taken out of the cell.
JoinReturns_Take(t) ==
    LET u == joining[t] IN
    /\ u # NoThread /\ holder[u] = NoThread
    /\ joined' = [joined EXCEPT ![u] = IF phase[u] = "started" THEN @ ELSE @ \union {cell[u]}]
    /\ cell' = [cell EXCEPT ![u] = NoValues]
    /\ joining' = [joining EXCEPT ![t] = NoThread]
    /\ UNCHANGED <<phase, holder, returned>>

\* The lock is free: copy the result under it.
JoinReturns(t) ==
    LET u == joining[t] IN
    /\ u # NoThread /\ holder[u] = NoThread
    /\ joined' = [joined EXCEPT ![u] = IF phase[u] = "started" THEN @ ELSE @ \union {cell[u]}]
    /\ joining' = [joining EXCEPT ![t] = NoThread]
    /\ UNCHANGED <<phase, holder, cell, returned>>

Next ==
    \/ \E t \in Thread, u \in Spawned : Spawn(t, u) \/ Join(t, u)
    \/ \E u \in Spawned : Begin(u) \/ \E r \in Result : Finish(u, r)
    \/ \E t \in Thread : JoinReturns(t)

Spec == Init /\ [][Next]_vars

----------------------------------------------------------------------------
\* The result of a thread is only ever seen whole and unchanged: while the
\* thunk runs the cell is locked, and once it has returned the cell holds what it
\* returned, which is what every join returns that does not come before the thread
\* has begun, however often and by however many threads it is joined.
CellHoldsResult ==
    \A u \in Spawned :
        /\ phase[u] = "done" => cell[u] = returned[u] /\ cell[u] \in Result
        /\ phase[u] = "running" <=> holder[u] = u
        /\ joined[u] \subseteq {returned[u]} \ {NoValues}

\* What is known of the cell before the thunk has returned.
Pending ==
    \A u \in Spawned :
        /\ phase[u] # "done" => cell[u] = NoValues /\ returned[u] = NoValues /\ joined[u] = {}
        /\ holder[u] \in {u, NoThread}

\* A thread that is joined has been spawned.
Joinable == \A t \in Thread : joining[t] # NoThread => phase[joining[t]] # "unborn"

Inv == TypeOK /\ CellHoldsResult /\ Pending /\ Joinable

\* "Takes a join handle and blocks until the thread returns": a join returns
\* only once the thunk has (docs/Standard Libraries/threads.md, join).  It does not
\* hold: a join that locks the cell before the new thread does returns at once.
JoinWaits ==
    [][\A t \in Thread : joining[t] # NoThread /\ joining'[t] = NoThread
           => phase[joining[t]] = "done"]_vars
=============================================================================
