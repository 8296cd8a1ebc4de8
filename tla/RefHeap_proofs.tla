-------------------------- MODULE RefHeap_proofs --------------------------
(***************************************************************************)
(* The promises of RefHeap hold for every finite set of objects and fields  *)
(* and every bound on handles.                                              *)
(***************************************************************************)
EXTENDS RefHeap, FiniteSetTheorems, TLAPS

(***************************************************************************)
(* Facts about RefsTo, the set that the counts are compared with.           *)
(***************************************************************************)

\* The references to an object form a finite set; its size is 0 when empty only.
LEMMA RefsToFinite ==
    ASSUME NEW h, NEW o
    PROVE  /\ IsFiniteSet(RefsTo(h, o))
           /\ Cardinality(RefsTo(h, o)) \in Nat
           /\ Cardinality(RefsTo(h, o)) = 0 <=> RefsTo(h, o) = {}
<1>1. IsFiniteSet(Obj \X Slot)
    BY RefHeapAssumption, FS_Product
<1>2. RefsTo(h, o) \subseteq Obj \X Slot
    BY DEF RefsTo
<1>3. QED
    BY <1>1, <1>2, FS_Subset, FS_CardinalityType, FS_EmptySet

\* Writing one field moves one reference from the old target to the new one.
LEMMA WriteField ==
    ASSUME NEW h \in [Obj -> [Slot -> Obj \union {Null}]],
           NEW p \in Obj, NEW k \in Slot, NEW v \in Obj \union {Null}, NEW o
    PROVE  /\ o = v /\ o # h[p][k] =>
                Cardinality(RefsTo(Write(h, p, k, v), o)) = Cardinality(RefsTo(h, o)) + 1
           /\ o # v /\ o = h[p][k] =>
                Cardinality(RefsTo(Write(h, p, k, v), o)) = Cardinality(RefsTo(h, o)) - 1
           /\ (o = v <=> o = h[p][k]) => RefsTo(Write(h, p, k, v), o) = RefsTo(h, o)
<1> DEFINE e == <<p, k>>
           g == Write(h, p, k, v)
<1>1. \A f \in Obj \X Slot : g[f[1]][f[2]] = (IF f = e THEN v ELSE h[f[1]][f[2]])
    BY DEF Write
<1> HIDE DEF g
<1>2. ASSUME o = v, o # h[p][k]
      PROVE  RefsTo(g, o) = RefsTo(h, o) \union {e} /\ e \notin RefsTo(h, o)
    BY <1>1, <1>2 DEF RefsTo
<1>3. ASSUME o # v, o = h[p][k]
      PROVE  RefsTo(g, o) = RefsTo(h, o) \ {e} /\ e \in RefsTo(h, o)
    BY <1>1, <1>3 DEF RefsTo
<1>4. ASSUME o = v <=> o = h[p][k]
      PROVE  RefsTo(g, o) = RefsTo(h, o)
    BY <1>1, <1>4 DEF RefsTo
<1>5. ASSUME o = v, o # h[p][k]
      PROVE  Cardinality(RefsTo(g, o)) = Cardinality(RefsTo(h, o)) + 1
    BY <1>2, <1>5, RefsToFinite, FS_AddElement
<1>6. ASSUME o # v, o = h[p][k]
      PROVE  Cardinality(RefsTo(g, o)) = Cardinality(RefsTo(h, o)) - 1
    BY <1>3, <1>6, RefsToFinite, FS_RemoveElement
<1>7. QED
    BY <1>4, <1>5, <1>6 DEF g

\* A field is one of the references to what it holds.
LEMMA FieldIsRef ==
    ASSUME NEW h, NEW p \in Obj, NEW k \in Slot
    PROVE  RefsTo(h, h[p][k]) # {}
<1>1. <<p, k>> \in RefsTo(h, h[p][k])
    BY DEF RefsTo
<1>2. QED
    BY <1>1

(***************************************************************************)
(* The inductive invariant.                                                 *)
(***************************************************************************)

\* Nothing is allocated and every field is empty: Inv holds at the start.
LEMMA InitInv == Init => Inv
<1> SUFFICES ASSUME Init PROVE Inv
    OBVIOUS
<1>1. TypeOK
    BY RefHeapAssumption DEF Init, TypeOK, Empty
<1>2. \A o \in Obj : RefsTo(slots, o) = {}
    BY RefHeapAssumption DEF Init, RefsTo, Empty
<1>3. QED
    BY <1>1, <1>2 DEF Init, Inv, RcExact, NoDangling, FreeIsEmpty

\* Gc::new preserves Inv: nothing refers to the free address it takes.
LEMMA AllocInv ==
    ASSUME Inv, NEW o \in Obj, Alloc(o)
    PROVE  Inv'
<1> USE DEF Inv
<1>1. slots' = slots
    BY DEF Alloc, FreeIsEmpty, TypeOK
<1>2. \A x \in Obj : RefsTo(slots', x) = RefsTo(slots, x)
    BY <1>1 DEF RefsTo
<1>3. RefsTo(slots, o) = {} /\ Cardinality(RefsTo(slots, o)) = 0
    BY FS_EmptySet DEF Alloc, NoDangling
<1>4. TypeOK'
    BY <1>1 DEF Alloc, TypeOK
<1>5. RcExact'
  <2> SUFFICES ASSUME NEW x \in Obj, status'[x] = "live"
               PROVE  rc'[x] = handles'[x] + Cardinality(RefsTo(slots', x))
      BY DEF RcExact
  <2>1. CASE x = o
    <3>1. rc'[o] = 1 /\ handles'[o] = 1
        BY DEF Alloc, TypeOK
    <3>2. Cardinality(RefsTo(slots', o)) = 0
        BY <1>2, <1>3
    <3>3. QED
        BY <2>1, <3>1, <3>2
  <2>2. CASE x # o
      BY <1>2, <2>2 DEF Alloc, RcExact, TypeOK
  <2>3. QED
      BY <2>1, <2>2
<1>6. NoDangling'
    BY <1>2 DEF Alloc, NoDangling, TypeOK
<1>7. FreeIsEmpty'
    BY <1>1 DEF Alloc, FreeIsEmpty, TypeOK
<1>8. QED
    BY <1>4, <1>5, <1>6, <1>7

\* Clone, Drop and Load change one count and the handles on the same object.
LEMMA HandleInv ==
    ASSUME Inv, NEW o \in Obj, NEW d \in {-1, 1},
           handles[o] + d \in Nat, status[o] = "live",
           rc' = [rc EXCEPT ![o] = @ + d],
           handles' = [handles EXCEPT ![o] = @ + d],
           UNCHANGED <<status, slots>>
    PROVE  Inv'
<1> USE DEF Inv
<1>1. \A x \in Obj : RefsTo(slots', x) = RefsTo(slots, x)
    BY DEF RefsTo
<1>2. TypeOK'
    BY DEF TypeOK
<1>3. RcExact'
    BY <1>1, RefsToFinite DEF RcExact, TypeOK
<1>4. NoDangling'
    BY <1>1 DEF NoDangling, TypeOK
<1>5. FreeIsEmpty'
    BY DEF FreeIsEmpty
<1>6. QED
    BY <1>2, <1>3, <1>4, <1>5

\* Replacing the content of a field moves a reference each way.
LEMMA SwapInv ==
    ASSUME Inv, NEW p \in Obj, NEW k \in Slot, NEW v \in Obj \union {Null},
           Swap(p, k, v)
    PROVE  Inv'
<1> USE DEF Inv
<1> DEFINE old == slots[p][k]
<1>1. \A o \in Obj : handles'[o] = handles[o] + (IF o = old THEN 1 ELSE 0)
                                            - (IF o = v THEN 1 ELSE 0)
    BY DEF Swap, Exchanged
<1>2. TypeOK'
  <2>1. \A o \in Obj : handles'[o] \in Nat
      BY <1>1, RefHeapAssumption DEF Swap, TypeOK
  <2>2. QED
      BY <2>1 DEF Swap, Exchanged, Write, TypeOK
<1>3. RcExact'
  <2> SUFFICES ASSUME NEW o \in Obj, status[o] = "live"
               PROVE  rc[o] = handles'[o] + Cardinality(RefsTo(slots', o))
      BY DEF RcExact, Swap
  <2>1. rc[o] = handles[o] + Cardinality(RefsTo(slots, o))
      BY DEF RcExact
  <2>2. handles[o] \in Nat /\ Cardinality(RefsTo(slots, o)) \in Nat
      BY RefsToFinite DEF TypeOK
  <2>3. /\ slots' = Write(slots, p, k, v)
        /\ slots \in [Obj -> [Slot -> Obj \union {Null}]]
      BY DEF Swap, TypeOK
  <2>4. /\ o = v /\ o # old => Cardinality(RefsTo(slots', o)) = Cardinality(RefsTo(slots, o)) + 1
        /\ o # v /\ o = old => Cardinality(RefsTo(slots', o)) = Cardinality(RefsTo(slots, o)) - 1
        /\ (o = v <=> o = old) => RefsTo(slots', o) = RefsTo(slots, o)
      BY <2>3, WriteField
  <2>5. handles'[o] = handles[o] + (IF o = old THEN 1 ELSE 0) - (IF o = v THEN 1 ELSE 0)
      BY <1>1
  <2>6. QED
      BY <2>1, <2>2, <2>4, <2>5
<1>4. NoDangling'
  <2> SUFFICES ASSUME NEW o \in Obj, status[o] # "live"
               PROVE  handles'[o] = 0 /\ RefsTo(slots', o) = {}
      BY DEF NoDangling, Swap
  <2>1. handles[o] = 0 /\ RefsTo(slots, o) = {}
      BY DEF NoDangling
  <2>2. o # v /\ o # old
    <3>1. o # old
        BY <2>1, FieldIsRef
    <3>2. o # v
        BY <2>1, RefHeapAssumption DEF Swap, TypeOK
    <3>3. QED
        BY <3>1, <3>2
  <2>3. RefsTo(slots', o) = RefsTo(slots, o)
    <3>1. slots' = Write(slots, p, k, v)
        BY DEF Swap
    <3>2. slots \in [Obj -> [Slot -> Obj \union {Null}]]
        BY DEF TypeOK
    <3>3. QED
        BY <2>2, <3>1, <3>2, WriteField
  <2>4. QED
      BY <1>1, <2>1, <2>2, <2>3
<1>5. FreeIsEmpty'
    BY DEF Swap, Write, FreeIsEmpty, NoDangling, TypeOK
<1>6. QED
    BY <1>2, <1>3, <1>4, <1>5

\* Condemning garbage drops only references inside the condemned set.
LEMMA CondemnInv ==
    ASSUME Inv, NEW S \in SUBSET Obj, Condemn(S)
    PROVE  Inv'
<1> USE DEF Inv
<1>1. TypeOK'
    BY DEF Condemn, TypeOK
<1>2. \A o \in Obj \ S : RefsTo(slots', o) = RefsTo(slots, o)
    BY RefHeapAssumption DEF Condemn, RefsTo
<1>3. \A o \in S : RefsTo(slots', o) = {}
    BY RefHeapAssumption DEF Condemn, Garbage, RefsTo
<1>4. RcExact'
    BY <1>2 DEF Condemn, RcExact
<1>5. NoDangling'
    BY <1>2, <1>3 DEF Condemn, Garbage, NoDangling
<1>6. FreeIsEmpty'
  <2> SUFFICES ASSUME NEW o \in Obj, status'[o] = "free"
               PROVE  slots'[o] = Empty
      BY DEF FreeIsEmpty
  <2>1. o \notin S /\ slots[o] = Empty
      BY DEF Condemn, FreeIsEmpty
  <2>2. QED
      BY <2>1 DEF Condemn, Empty
<1>7. QED
    BY <1>1, <1>4, <1>5, <1>6

\* Dropping a field of a condemned object removes one reference and one count.
LEMMA DecrementInv ==
    ASSUME Inv, NEW p \in Obj, NEW k \in Slot, Decrement(p, k)
    PROVE  Inv'
<1> USE DEF Inv
<1> DEFINE c == slots[p][k]
<1>1. c \in Obj /\ status[c] = "live"
    BY FieldIsRef DEF Decrement, NoDangling, TypeOK
<1>2. /\ rc[c] = handles[c] + Cardinality(RefsTo(slots, c))
      /\ Cardinality(RefsTo(slots, c)) >= 1
      /\ handles[c] \in Nat /\ Cardinality(RefsTo(slots, c)) \in Nat
    BY <1>1, FieldIsRef, RefsToFinite DEF RcExact, TypeOK
<1>3. /\ Cardinality(RefsTo(slots', c)) = Cardinality(RefsTo(slots, c)) - 1
      /\ \A o \in Obj \ {c} : RefsTo(slots', o) = RefsTo(slots, o)
  <2>1. /\ slots' = Write(slots, p, k, Null)
        /\ slots \in [Obj -> [Slot -> Obj \union {Null}]]
      BY DEF Decrement, TypeOK
  <2>2. c # Null /\ \A o \in Obj : o # Null
      BY RefHeapAssumption DEF Decrement
  <2>3. QED
      BY <1>1, <2>1, <2>2, WriteField
<1>4. TypeOK'
    BY <1>1 DEF Decrement, Write, TypeOK
<1>5. RcExact'
  <2> SUFFICES ASSUME NEW o \in Obj, status'[o] = "live"
               PROVE  rc'[o] = handles[o] + Cardinality(RefsTo(slots', o))
      BY DEF RcExact, Decrement
  <2>1. status[o] = "live" /\ rc[o] = handles[o] + Cardinality(RefsTo(slots, o))
      BY <1>1 DEF Decrement, RcExact, TypeOK
  <2>2. handles[o] \in Nat /\ Cardinality(RefsTo(slots, o)) \in Nat
      BY RefsToFinite DEF TypeOK
  <2>3. CASE o = c
    <3>1. rc'[c] = rc[c] - 1
        BY <1>1 DEF Decrement, TypeOK
    <3>2. QED
        BY <1>2, <1>3, <2>3, <3>1
  <2>4. CASE o # c
    <3>1. rc'[o] = rc[o] /\ RefsTo(slots', o) = RefsTo(slots, o)
        BY <1>1, <1>3, <2>4 DEF Decrement, TypeOK
    <3>2. QED
        BY <2>1, <3>1
  <2>5. QED
      BY <2>3, <2>4
<1>6. NoDangling'
  <2>1. ASSUME status'[c] # "live"
        PROVE  handles[c] = 0 /\ RefsTo(slots', c) = {}
    <3>1. rc[c] = 1
        BY <1>1, <2>1 DEF Decrement
    <3>2. handles[c] = 0 /\ Cardinality(RefsTo(slots, c)) = 1
        BY <1>2, <3>1
    <3>3. Cardinality(RefsTo(slots', c)) = 0
        BY <1>3, <3>2
    <3>4. QED
        BY <3>2, <3>3, RefsToFinite
  <2>2. ASSUME NEW o \in Obj \ {c}, status'[o] # "live"
        PROVE  handles[o] = 0 /\ RefsTo(slots', o) = {}
      BY <1>1, <1>3, <2>2 DEF Decrement, NoDangling, TypeOK
  <2>3. \A o \in Obj : status'[o] # "live" => handles[o] = 0 /\ RefsTo(slots', o) = {}
      BY <2>1, <2>2
  <2>4. handles' = handles
      BY DEF Decrement
  <2>5. QED
      BY <2>3, <2>4 DEF NoDangling
<1>7. FreeIsEmpty'
    BY <1>1 DEF Decrement, Write, FreeIsEmpty, TypeOK
<1>8. QED
    BY <1>4, <1>5, <1>6, <1>7

\* Deallocating an object whose fields were all dropped changes no reference.
LEMMA FreeInv ==
    ASSUME Inv, NEW p \in Obj, Free(p)
    PROVE  Inv'
<1> USE DEF Inv
<1>1. \A o \in Obj : RefsTo(slots', o) = RefsTo(slots, o)
    BY DEF Free, RefsTo
<1>2. QED
    BY <1>1 DEF Free, TypeOK, RcExact, NoDangling, FreeIsEmpty

\* Every step preserves Inv.
LEMMA NextInv == Inv /\ [Next]_vars => Inv'
<1> SUFFICES ASSUME Inv, [Next]_vars PROVE Inv'
    OBVIOUS
<1>0. \A o \in Obj : handles[o] > 0 => status[o] = "live"
    BY DEF Inv, NoDangling, TypeOK
<1>1. ASSUME NEW o \in Obj, Alloc(o) PROVE Inv'
    BY <1>1, AllocInv
<1>2. ASSUME NEW o \in Obj, Clone(o) PROVE Inv'
  <2>1. status[o] = "live" /\ handles[o] + 1 \in Nat
      BY <1>0, <1>2, RefHeapAssumption DEF Clone, Inv, TypeOK
  <2>2. QED
      BY <1>2, <2>1, HandleInv DEF Clone
<1>3. ASSUME NEW o \in Obj, Drop(o) PROVE Inv'
  <2>1. status[o] = "live" /\ handles[o] + (-1) \in Nat
      BY <1>0, <1>3 DEF Drop, Inv, TypeOK
  <2>2. /\ rc' = [rc EXCEPT ![o] = @ + (-1)]
        /\ handles' = [handles EXCEPT ![o] = @ + (-1)]
      BY <1>3 DEF Drop, Inv, TypeOK
  <2>3. QED
      BY <1>3, <2>1, <2>2, HandleInv DEF Drop
<1>4. ASSUME NEW o \in Obj, Free(o) PROVE Inv'
    BY <1>4, FreeInv
<1>5. ASSUME NEW p \in Obj, NEW k \in Slot, Load(p, k) PROVE Inv'
  <2>1. slots[p][k] \in Obj /\ RefsTo(slots, slots[p][k]) # {}
    <3>1. RefsTo(slots, slots[p][k]) # {}
        BY FieldIsRef
    <3>2. slots[p][k] \in Obj
        BY <1>5 DEF Load, Inv, TypeOK
    <3>3. QED
        BY <3>1, <3>2
  <2>2. status[slots[p][k]] = "live" /\ handles[slots[p][k]] + 1 \in Nat
      BY <2>1 DEF Inv, NoDangling, TypeOK
  <2>3. QED
      BY <1>5, <2>1, <2>2, HandleInv DEF Load
<1>6. ASSUME NEW p \in Obj, NEW k \in Slot, Decrement(p, k) PROVE Inv'
    BY <1>6, DecrementInv
<1>7. ASSUME NEW p \in Obj, NEW k \in Slot, NEW v \in Obj \union {Null}, Swap(p, k, v)
      PROVE  Inv'
    BY <1>7, SwapInv
<1>8. ASSUME NEW S \in SUBSET Obj, Condemn(S) PROVE Inv'
    BY <1>8, CondemnInv
<1>9. CASE UNCHANGED vars
  <2>1. \A o \in Obj : RefsTo(slots', o) = RefsTo(slots, o)
      BY <1>9 DEF vars, RefsTo
  <2>2. QED
      BY <1>9, <2>1 DEF vars, Inv, TypeOK, RcExact, NoDangling, FreeIsEmpty
<1>10. QED
    BY <1>1, <1>2, <1>3, <1>4, <1>5, <1>6, <1>7, <1>8, <1>9 DEF Next

----------------------------------------------------------------------------
\* The invariant of the abstract heap holds in every reachable state.
THEOREM HeapInvariant == Spec => []Inv
BY InitInv, NextInv, PTL DEF Spec

\* The type invariant of the abstract heap.
THEOREM TypeCorrect == Spec => []TypeOK
<1>1. Inv => TypeOK
    BY DEF Inv
<1>2. QED
    BY <1>1, HeapInvariant, PTL

\* shared_rc of a heap object is the number of references to it, for any
\* number of objects, fields and handles (gc/mod.rs inc_rc and dec_rc).
THEOREM CountsAreExact == Spec => []RcExact
<1>1. Inv => RcExact
    BY DEF Inv
<1>2. QED
    BY <1>1, HeapInvariant, PTL

\* No stack and no field of an object refers to memory that was condemned or
\* deallocated: the promise a Gc value makes to the code that dereferences it.
THEOREM ReferencesStayValid == Spec => []NoDangling
<1>1. Inv => NoDangling
    BY DEF Inv
<1>2. QED
    BY <1>1, HeapInvariant, PTL
=============================================================================
