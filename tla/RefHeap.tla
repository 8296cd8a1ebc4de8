------------------------------ MODULE RefHeap ------------------------------
(***************************************************************************)
(* What the garbage collected heap of scheme-rs promises to the programs    *)
(* that use Gc<T> (src/src/gc/mod.rs): a reference count that is exact, and  *)
(* no reference that outlives the object it points to.  The module says what *)
(* mutators do to counts (Clone, Drop, reads and writes of the fields of an  *)
(* object) and what a collector may do, not how the collector finds garbage; *)
(* GcCollector is the algorithm of gc/collection.rs and implements it.       *)
(***************************************************************************)
EXTENDS Integers, FiniteSets

CONSTANTS
    Obj,         \* addresses of heap objects; an address is reused once freed
    Slot,        \* names of the Gc fields of an object
    Null,        \* the content of an empty field
    MaxHandles   \* bound: Gc values held on mutator stacks, per object

ASSUME RefHeapAssumption ==
    /\ IsFiniteSet(Obj)
    /\ IsFiniteSet(Slot)
    /\ Null \notin Obj
    /\ MaxHandles \in Nat \ {0}

VARIABLES
    status,      \* "free", "live", or "dying": condemned, its fields being dropped
    rc,          \* GcHeader.shared_rc
    handles,     \* number of Gc values to the object held outside the heap
    slots        \* the fields: slots[p][k] is an object or Null

vars == <<status, rc, handles, slots>>

Empty == [k \in Slot |-> Null]

\* The fields of heap h that hold a reference to o.
RefsTo(h, o) == {e \in Obj \X Slot : h[e[1]][e[2]] = o}

\* Heap h after v is written to a field.
Write(h, p, k, v) == [h EXCEPT ![p][k] = v]

TypeOK ==
    /\ status \in [Obj -> {"free", "live", "dying"}]
    /\ rc \in [Obj -> Int]
    /\ handles \in [Obj -> Nat]
    /\ slots \in [Obj -> [Slot -> Obj \union {Null}]]

Init ==
    /\ status = [o \in Obj |-> "free"]
    /\ rc = [o \in Obj |-> 0]
    /\ handles = [o \in Obj |-> 0]
    /\ slots = [o \in Obj |-> Empty]

----------------------------------------------------------------------------
(* The operations of a program on Gc<T>.                                    *)

\* Gc::new: the header is born with shared_rc = 1, the Gc value returned.
Alloc(o) ==
    /\ status[o] = "free"
    /\ status' = [status EXCEPT ![o] = "live"]
    /\ rc' = [rc EXCEPT ![o] = 1]
    /\ handles' = [handles EXCEPT ![o] = 1]
    /\ slots' = [slots EXCEPT ![o] = Empty]

\* Clone for Gc: inc_rc.
Clone(o) ==
    /\ handles[o] \in 1 .. MaxHandles - 1
    /\ rc' = [rc EXCEPT ![o] = @ + 1]
    /\ handles' = [handles EXCEPT ![o] = @ + 1]
    /\ UNCHANGED <<status, slots>>

\* Drop for Gc: dec_rc, which never frees anything itself.
Drop(o) ==
    /\ handles[o] > 0
    /\ rc' = [rc EXCEPT ![o] = @ - 1]
    /\ handles' = [handles EXCEPT ![o] = @ - 1]
    /\ UNCHANGED <<status, slots>>

\* Mutant of Load: the reference is copied without counting it.
Load_Uncounted(p, k) ==
    /\ handles[p] > 0
    /\ slots[p][k] # Null
    /\ handles[slots[p][k]] < MaxHandles
    /\ handles' = [handles EXCEPT ![slots[p][k]] = @ + 1]
    /\ UNCHANGED <<status, rc, slots>>

\* Read a field and clone the reference found there.
Load(p, k) ==
    /\ handles[p] > 0
    /\ slots[p][k] # Null
    /\ handles[slots[p][k]] < MaxHandles
    /\ rc' = [rc EXCEPT ![slots[p][k]] = @ + 1]
    /\ handles' = [handles EXCEPT ![slots[p][k]] = @ + 1]
    /\ UNCHANGED <<status, slots>>

\* Handles after the value v moved into a field and old moved out of it.
Exchanged(v, old) ==
    [o \in Obj |-> handles[o] + (IF o = old THEN 1 ELSE 0)
                              - (IF o = v THEN 1 ELSE 0)]

\* mem::replace on a field: moves, so no count changes.
Swap(p, k, v) ==
    /\ handles[p] > 0
    /\ v # Null => handles[v] > 0
    /\ handles' = Exchanged(v, slots[p][k])
    /\ slots' = Write(slots, p, k, v)
    /\ UNCHANGED <<status, rc>>

----------------------------------------------------------------------------
(* What a collector may do.                                                 *)

\* Mutant of Garbage: references from outside S are overlooked.
Garbage_HandlesOnly(S) == \A o \in S : handles[o] = 0

\* S is unreachable from outside S.
Garbage(S) ==
    \A o \in S : handles[o] = 0 /\ \A e \in RefsTo(slots, o) : e[1] \in S

\* Condemn a set of garbage; the references inside it vanish with it.
Condemn(S) ==
    /\ \A o \in S : status[o] = "live"
    /\ Garbage(S)
    /\ status' = [o \in Obj |-> IF o \in S THEN "dying" ELSE status[o]]
    /\ slots' = [p \in Obj |-> [k \in Slot |->
                    IF p \in S /\ slots[p][k] \in S THEN Null ELSE slots[p][k]]]
    /\ UNCHANGED <<rc, handles>>

\* Drop one field of a condemned object.  The collector that drops the last
\* reference may condemn the child in the same step.
Decrement(p, k) ==
    /\ status[p] = "dying"
    /\ slots[p][k] # Null
    /\ rc' = [rc EXCEPT ![slots[p][k]] = @ - 1]
    /\ slots' = Write(slots, p, k, Null)
    /\ \/ status' = status
       \/ /\ rc[slots[p][k]] = 1
          /\ status' = [status EXCEPT ![slots[p][k]] = "dying"]
    /\ UNCHANGED handles

\* Finalize and deallocate.
Free(p) ==
    /\ status[p] = "dying"
    /\ slots[p] = Empty
    /\ status' = [status EXCEPT ![p] = "free"]
    /\ rc' = [rc EXCEPT ![p] = 0]
    /\ UNCHANGED <<handles, slots>>

Next ==
    \/ \E o \in Obj : Alloc(o) \/ Clone(o) \/ Drop(o) \/ Free(o)
    \/ \E p \in Obj, k \in Slot : Load(p, k) \/ Decrement(p, k)
    \/ \E p \in Obj, k \in Slot, v \in Obj \union {Null} : Swap(p, k, v)
    \/ \E S \in SUBSET Obj : S # {} /\ Condemn(S)

Spec == Init /\ [][Next]_vars

----------------------------------------------------------------------------
\* The shared count of an object that is not condemned is the number of
\* references to it: handles on stacks and fields of objects, the fields a
\* condemned object has not dropped yet included (inc_rc and dec_rc of
\* gc/mod.rs, dec_shared_rc of gc/collection.rs).
RcExact ==
    \A o \in Obj : status[o] = "live" =>
        rc[o] = handles[o] + Cardinality(RefsTo(slots, o))

\* A reference never outlives its target: what a stack or a field refers to is
\* allocated and not condemned (the deref of a Gc in gc/mod.rs).
NoDangling ==
    \A o \in Obj : status[o] # "live" => handles[o] = 0 /\ RefsTo(slots, o) = {}

\* A free address holds no references.
FreeIsEmpty ==
    \A o \in Obj : status[o] = "free" => slots[o] = Empty

Inv == TypeOK /\ RcExact /\ NoDangling /\ FreeIsEmpty
=============================================================================
