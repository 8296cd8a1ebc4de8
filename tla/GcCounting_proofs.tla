------------------------- MODULE GcCounting_proofs -------------------------
(***************************************************************************)
(* Counting beside running programs.  As long as no cycle is freed, the     *)
(* collector implements the abstract heap while programs allocate, drop and *)
(* write during its epochs, for any objects, fields, threads and bounds and *)
(* whatever may point at what: an object is released by its count, and the  *)
(* count alone is right at any time.  What the traversals for cycles read    *)
(* meanwhile may be stale, which does no harm before a cycle is freed: see   *)
(* the run gc_lost_reference for what happens then.                          *)
(*                                                                         *)
(* A traversal either reads, or is a release by the sweep (Stacked).  What a *)
(* release condemns is on the list of the epoch, so the sweep has seen it    *)
(* (Ledger), and no program holds it, so none can lock it or write to it     *)
(* (HeldLocks).  Marks left by an interrupted count do not matter, but for   *)
(* Red ones, which a release would skip (Painted).                           *)
(***************************************************************************)
EXTENDS GcCollector_proofs

\* The traversals that only read counts and fields.
Reading == {"ScanBlack", "MarkGray", "Scan", "CollectWhite", "SubKids", "Paint"}

\* Without a cycle to free, a traversal reads or is a release of the sweep.
Stacked ==
    \/ Plain(Reading)
    \/ pc = "sweep" /\ Releasing /\ Condemned \subseteq mine

\* Red objects wait for the third loop of sigma_preparation.
Painted == Coloured({"Red"}) \subseteq Doing("Paint")

\* Where objects are listed while programs go on allocating.
Ledger ==
    /\ fresh \intersect mine = {} /\ fresh \union mine = allocated
    /\ pc = "await" => mine = {}
    /\ pc = "sweep" => \A o \in fresh : buffered[o]
    /\ roots \subseteq allocated /\ iter \subseteq allocated
    /\ pc \notin {"mark", "scan", "collect"} => iter = {}
    /\ pc \notin {"free", "sigma"} => taken = <<>>
    /\ Parked(taken) \subseteq allocated
    /\ Parked(cycles) \subseteq allocated \union (IF pc = "sweep" THEN freedObjs ELSE {})

\* Programs hold what they lock, whatever the collector does.
HeldLocks == \A p \in locked : handles[p] > 0

\* What is true in every step before the first cycle is freed.
CountingInv == TypeOK /\ H!Inv /\ HeldLocks /\ Stacked /\ Painted /\ Ledger

\* A release of the sweep is about counts alone.
LEMMA ReleaseHasNoRed ==
    ASSUME Releasing, Painted
    PROVE  \A o \in Obj : color[o] # "Red"
<1>1. SUFFICES ASSUME NEW o \in Obj, color[o] = "Red" PROVE FALSE
    OBVIOUS
<1>2. Do("Paint", o) \in Entries
    BY <1>1 DEF Painted, Coloured, Doing
<1>3. Do("Paint", o).op = "Paint"
    BY DEF Do
<1>4. Do("Paint", o).op \in {"Free", "CycleKids", "Decrement", "CyclicDecrement"}
    BY <1>2, DueOp
<1> QED
    BY <1>3, <1>4

\* The same after a step.
LEMMA ReleaseHasNoRedNext ==
    ASSUME Releasing', Painted'
    PROVE  \A o \in Obj : color'[o] # "Red"
<1>1. SUFFICES ASSUME NEW o \in Obj, color'[o] = "Red" PROVE FALSE
    OBVIOUS
<1>2. Do("Paint", o) \in Entries'
    BY <1>1 DEF Painted, Coloured, Doing
<1>3. Do("Paint", o).op = "Paint"
    BY DEF Do
<1>4. Due(Do("Paint", o))'
    BY <1>2 DEF Releasing
<1> QED
    BY <1>3, <1>4 DEF Due, Do, DoField

\* Every field still holds the reference that it is counted for.
LEMMA CountingBars ==
    ASSUME TypeOK, Stacked, Painted
    PROVE  SlotsBar = slots
<1>1. CASE Plain(Reading)
    <2>1. Condemned = {}
        BY <1>1, PlainIsCalm DEF Reading
    <2> QED
        BY <2>1, CalmBars
<1>2. CASE Releasing
    <2>1. ASSUME NEW p \in Obj, NEW k \in Slot PROVE SlotsBar[p][k] = slots[p][k]
        <3>1. color[p] # "Red"
            BY <1>2, ReleaseHasNoRed
        <3>2. SlotsBar[p][k] = Bar(p, k)
            BY <1>2, ReleaseBar
        <3> QED
            BY <3>1, <3>2 DEF Bar
    <2>2. SlotsBar = [p \in Obj |-> [k \in Slot |-> SlotsBar[p][k]]]
        BY DEF SlotsBar
    <2>3. slots = [p \in Obj |-> [k \in Slot |-> slots[p][k]]]
        BY DEF TypeOK
    <2> QED
        BY <2>1, <2>2, <2>3
<1> QED
    BY <1>1, <1>2 DEF Stacked

\* The same after a step.
LEMMA CountingBarsNext ==
    ASSUME TypeOK', Stacked', Painted'
    PROVE  SlotsBar' = slots'
<1>1. CASE Plain(Reading)'
    <2>1. Condemned' = {}
        BY <1>1 DEF Plain, Condemned, Do, Reading
    <2> QED
        BY <2>1, CalmBarsNext
<1>2. CASE Releasing'
    <2>1. ASSUME NEW p \in Obj, NEW k \in Slot PROVE SlotsBar'[p][k] = slots'[p][k]
        <3>1. color'[p] # "Red"
            BY <1>2, ReleaseHasNoRedNext
        <3>2. SlotsBar'[p][k] = Bar(p, k)'
            BY <1>2, ReleaseBarNext
        <3> QED
            BY <3>1, <3>2 DEF Bar
    <2>2. SlotsBar' = [p \in Obj |-> [k \in Slot |-> SlotsBar'[p][k]]]
        BY DEF SlotsBar
    <2>3. slots' = [p \in Obj |-> [k \in Slot |-> slots'[p][k]]]
        BY DEF TypeOK
    <2> QED
        BY <2>1, <2>2, <2>3
<1> QED
    BY <1>1, <1>2 DEF Stacked

\* What counting knows of the heap: no program holds what is condemned, and
\* fields name objects that are neither freed nor condemned.
LEMMA CountingHeap ==
    ASSUME CollectorAssumption, TypeOK, H!Inv, Stacked, Painted
    PROVE  /\ SlotsBar = slots
           /\ Condemned \subseteq allocated
           /\ \A e \in Entries : e.obj \in allocated
           /\ \A o \in Condemned : handles[o] = 0
           /\ \A o \in Obj : o \notin allocated => handles[o] = 0 /\ slots[o] = Empty
           /\ \A p \in Obj, k \in Slot :
                 slots[p][k] # Null => slots[p][k] \in allocated /\ slots[p][k] \notin Condemned
           /\ \A o \in allocated : o \notin Condemned => rc[o] = handles[o] + Cardinality(From(slots, Obj, o))
<1>1. SlotsBar = slots
    BY CountingBars
<1>2. Condemned \subseteq allocated /\ \A e \in Entries : e.obj \in allocated
    <2>1. CASE Plain(Reading)
        <3>1. Condemned = {}
            BY <2>1, PlainIsCalm DEF Reading
        <3> QED
            BY <2>1, <3>1, PlainOp
    <2>2. CASE Releasing
        BY <2>2, ReleaseIs
    <2> QED
        BY <2>1, <2>2 DEF Stacked
<1>3. allocated \subseteq Obj
    BY DEF TypeOK
<1>4. \A o \in Condemned : handles[o] = 0
    BY <1>2, <1>3, HeapIs
<1>5. \A o \in Obj : o \notin allocated => handles[o] = 0 /\ slots[o] = Empty
    BY <1>1, HeapIs
<1>6. ASSUME NEW p \in Obj, NEW k \in Slot, slots[p][k] # Null
      PROVE  slots[p][k] \in allocated /\ slots[p][k] \notin Condemned
    <2>1. slots[p][k] \in Obj
        BY <1>6 DEF TypeOK
    <2> QED
        BY <1>1, <2>1, HeapIs
<1>7. \A o \in allocated : o \notin Condemned => rc[o] = handles[o] + Cardinality(From(slots, Obj, o))
    BY <1>1, HeapIs
<1> QED
    BY <1>1, <1>2, <1>4, <1>5, <1>6, <1>7

\* A program changes no stack and no list but the heap's own, makes nothing
\* Red, and leaves the fields of what is condemned alone.
LEMMA ProgramKeeps ==
    ASSUME CollectorAssumption, CountingInv, TypeOK', allocated \subseteq allocated',
           UNCHANGED <<work, pc, iter, taken, mine, toSweep, roots, cycles, freedObjs>>,
           \A o \in Obj : color'[o] = "Red" => color[o] = "Red",
           \A o \in Condemned : slots'[o] = slots[o],
           fresh' \intersect mine = {}, fresh' \union mine = allocated',
           pc = "sweep" => \A o \in fresh' : buffered'[o]
    PROVE  /\ Stacked' /\ Painted' /\ Ledger'
           /\ Condemned' = Condemned
           /\ SlotsBar = slots /\ SlotsBar' = slots'
<1>1. TypeOK /\ H!Inv /\ Stacked /\ Painted /\ Ledger
    BY DEF CountingInv
<1>2. Entries' = Entries /\ Condemned' = Condemned
    BY DEF Entries, Condemned
<1>3. Painted'
    BY <1>1, <1>2 DEF Painted, Coloured, Doing
<1>4. Stacked'
    <2>1. CASE Plain(Reading)
        BY <1>2, <2>1 DEF Stacked, Plain
    <2>2. CASE pc = "sweep" /\ Releasing /\ Condemned \subseteq mine
        <3>1. \A o \in Obj : color[o] # "Red"
            BY <1>1, <2>2, ReleaseHasNoRed
        <3>2. \A o \in Obj : color'[o] # "Red"
            BY <3>1
        <3>3. \A e \in Entries : Due(e) /\ e.obj \in Condemned
            BY <1>1, <2>2, ReleaseIs
        <3>4. ASSUME NEW e \in Entries PROVE Due(e)'
            <4>1. CASE \E p \in allocated : e = Do("Free", p)
                BY <4>1 DEF Due
            <4>2. CASE \E p \in Obj, k \in Slot : slots[p][k] # Null /\ color[p] # "Red" /\ e = DoField("Decrement", p, k)
                <5>1. PICK p \in Obj, k \in Slot : slots[p][k] # Null /\ e = DoField("Decrement", p, k)
                    BY <4>2
                <5>2. p \in Condemned
                    BY <3>3, <5>1 DEF DoField
                <5>3. slots'[p][k] # Null /\ color'[p] # "Red"
                    BY <3>2, <5>1, <5>2
                <5> QED
                    BY <5>1, <5>3 DEF Due
            <4> QED
                BY <3>1, <3>3, <4>1, <4>2 DEF Due
        <3>5. Nested(work')
            BY <2>2 DEF Releasing
        <3>6. RedLast(work', color')
            <4>1. work \in Seq(Entry)
                BY <1>1 DEF TypeOK
            <4>2. \A i \in 1 .. Len(work) : work[i] \in Entry
                BY <4>1, ElementOfSeq
            <4>3. \A e \in Entry : e.obj \in Obj
                BY DEF Entry
            <4>4. \A i \in 1 .. Len(work) : work[i].obj \in Obj
                BY ONLY <4>2, <4>3
            <4> QED
                BY <3>2, <4>4 DEF RedLast
        <3>7. \A p \in Obj, k \in Slot : Do("CycleKids", p) \in Entries' => DoField("CyclicDecrement", p, k) \notin Entries'
            BY <1>2, <2>2 DEF Releasing
        <3>8. \A p \in Condemned', k \in Slot : slots'[p][k] # Null => DoField("Decrement", p, k) \in Entries'
            <4>1. \A p \in Condemned, k \in Slot : slots[p][k] # Null => DoField("Decrement", p, k) \in Entries
                <5>1. Condemned \subseteq Obj
                    BY <1>1, <2>2, ReleaseIs
                <5> QED
                    BY <2>2, <3>1, <5>1 DEF Releasing
            <4> QED
                BY <1>2, <4>1
        <3>9. Coloured({"Red"})' = {}
            BY <3>2 DEF Coloured
        <3>10. Releasing'
            BY <1>2, <3>4, <3>5, <3>6, <3>7, <3>8, <3>9 DEF Releasing
        <3> QED
            BY <1>2, <2>2, <3>10 DEF Stacked
    <2> QED
        BY <1>1, <2>1, <2>2 DEF Stacked
<1>5. Ledger'
    BY <1>1 DEF Ledger
<1>6. SlotsBar = slots
    BY <1>1, CountingBars
<1>7. SlotsBar' = slots'
    BY <1>3, <1>4, CountingBarsNext
<1> QED
    BY <1>2, <1>3, <1>4, <1>5, <1>6, <1>7

\* A new object is on the heap list, and buffered.
LEMMA CountingAlloc ==
    ASSUME CollectorAssumption, CountingInv, NEW o \in Obj, Alloc(o)
    PROVE  CountingInv' /\ H!Next
<1>1. TypeOK /\ H!Inv /\ HeldLocks /\ Stacked /\ Painted /\ Ledger
    BY DEF CountingInv
<1>2. UNCHANGED <<slots, locked, force, waiting, pc, iter, taken, mine, toSweep, roots, cycles, freedObjs, work>>
    BY DEF Alloc, loopVars, listVars, setVars
<1>3. TypeOK'
    <2>1. newAllocs' \in 0 .. MinAllocs
        BY <1>1, AllocCounts
    <2>2. /\ allocated' \subseteq Obj /\ fresh' \subseteq Obj
          /\ rc' \in [Obj -> Int] /\ handles' \in [Obj -> Nat]
          /\ epochRc' \in [Obj -> Int] /\ crc' \in [Obj -> Int]
          /\ color' \in [Obj -> Color] /\ buffered' \in [Obj -> BOOLEAN]
        BY <1>1 DEF Alloc, TypeOK, Color
    <2> QED
        BY <1>1, <1>2, <2>1, <2>2 DEF TypeOK
<1>4. o \notin allocated /\ handles[o] = 0 /\ slots[o] = Empty
    BY <1>1, CountingHeap DEF Alloc
<1>5. /\ allocated' = allocated \union {o} /\ fresh' = fresh \union {o}
      /\ \A x \in Obj : color'[x] = IF x = o THEN "Black" ELSE color[x]
      /\ \A x \in Obj : buffered'[x] = IF x = o THEN TRUE ELSE buffered[x]
      /\ \A x \in Obj : handles'[x] = IF x = o THEN 1 ELSE handles[x]
    BY <1>1 DEF Alloc, TypeOK
<1>6. Stacked' /\ Painted' /\ Ledger' /\ Condemned' = Condemned /\ SlotsBar = slots /\ SlotsBar' = slots'
    <2>1. fresh' \intersect mine = {} /\ fresh' \union mine = allocated' /\ allocated \subseteq allocated'
        BY <1>1, <1>4, <1>5 DEF Ledger
    <2>2. pc = "sweep" => \A x \in fresh' : buffered'[x]
        BY <1>1, <1>5 DEF Ledger, TypeOK
    <2>3. \A x \in Obj : color'[x] = "Red" => color[x] = "Red"
        BY <1>5
    <2> QED
        BY <1>2, <1>3, <2>1, <2>2, <2>3, ProgramKeeps
<1>7. H!Alloc(o)
    <2>1. o \notin Condemned
        BY <1>1, <1>4, CountingHeap
    <2>2. StatusBar' = [StatusBar EXCEPT ![o] = "live"] /\ StatusBar[o] = "free"
        BY <1>4, <1>5, <1>6, <2>1 DEF StatusBar
    <2>3. slots' = [slots EXCEPT ![o] = H!Empty]
        BY <1>1, <1>2, <1>4 DEF TypeOK, Empty, H!Empty
    <2> QED
        BY <1>6, <2>2, <2>3 DEF Alloc, H!Alloc
<1>8. H!Next
    BY <1>7 DEF H!Next
<1>9. H!Inv'
    BY <1>1, <1>8, HeapStep
<1>10. HeldLocks'
    <2>1. locked' = locked /\ locked \subseteq Obj
        BY <1>1, <1>2 DEF TypeOK
    <2> QED
        BY ONLY <1>1, <1>5, <2>1 DEF HeldLocks
<1> QED
    BY <1>3, <1>6, <1>8, <1>9, <1>10 DEF CountingInv

\* The other steps of programs allocate nothing and touch no header.
LEMMA ProgramStep ==
    ASSUME CollectorAssumption, CountingInv, TypeOK', HeldLocks',
           UNCHANGED <<allocated, header, fresh, loopVars, listVars, setVars, work>>,
           \A o \in Condemned : slots'[o] = slots[o]
    PROVE  /\ (H!Inv' => CountingInv')
           /\ SlotsBar = slots /\ SlotsBar' = slots' /\ StatusBar' = StatusBar
<1>1. Ledger
    BY DEF CountingInv
<1>2. UNCHANGED <<allocated, color, buffered, fresh, pc, iter, taken, mine, toSweep, roots, cycles, freedObjs, work>>
    BY DEF header, loopVars, listVars, setVars
<1>3. Stacked' /\ Painted' /\ Ledger' /\ Condemned' = Condemned /\ SlotsBar = slots /\ SlotsBar' = slots'
    <2>1. fresh' \intersect mine = {} /\ fresh' \union mine = allocated' /\ (pc = "sweep" => \A x \in fresh' : buffered'[x])
        BY <1>1, <1>2 DEF Ledger
    <2> QED
        BY <1>2, <2>1, ProgramKeeps
<1>4. StatusBar' = StatusBar
    BY <1>2, <1>3 DEF StatusBar
<1> QED
    BY <1>3, <1>4 DEF CountingInv

\* Clone and Drop.
LEMMA CountingHandle ==
    ASSUME CollectorAssumption, CountingInv, NEW o \in Obj, Clone(o) \/ Drop(o)
    PROVE  CountingInv' /\ H!Next
<1>1. TypeOK /\ H!Inv /\ HeldLocks
    BY DEF CountingInv
<1>2. UNCHANGED <<allocated, slots, locked, header, heapVars, loopVars, listVars, setVars, work>>
    BY DEF Clone, Drop
<1>3. UNCHANGED fresh
    BY <1>2 DEF heapVars
<1>4. CASE Clone(o)
    <2>1. handles[o] \in Nat /\ handles[o] > 0 /\ handles[o] + 1 \in Nat /\ rc[o] + 1 \in Int
        BY <1>1, <1>4 DEF Clone, TypeOK, CollectorAssumption
    <2>2. TypeOK'
        BY <1>1, <1>2, <1>4, <2>1 DEF Clone, TypeOK, header, heapVars, loopVars, listVars, setVars
    <2>3. HeldLocks'
        BY <1>1, <1>2, <1>4, <2>1 DEF Clone, HeldLocks, TypeOK
    <2>4. (H!Inv' => CountingInv') /\ SlotsBar = slots /\ SlotsBar' = slots' /\ StatusBar' = StatusBar
        BY <1>2, <1>3, <2>2, <2>3, ProgramStep
    <2>5. H!Clone(o)
        BY <1>2, <1>4, <2>4 DEF H!Clone, Clone
    <2>6. H!Next
        BY <2>5 DEF H!Next
    <2> QED
        BY <1>1, <2>4, <2>6, HeapStep
<1>5. CASE Drop(o)
    <2>1. handles[o] \in Nat /\ handles[o] > 0 /\ handles[o] - 1 \in Nat /\ rc[o] - 1 \in Int
        BY <1>1, <1>5 DEF Drop, Spare, TypeOK
    <2>2. TypeOK'
        BY <1>1, <1>2, <1>5, <2>1 DEF Drop, TypeOK, header, heapVars, loopVars, listVars, setVars
    <2>3. HeldLocks'
        BY <1>1, <1>2, <1>5, <2>1 DEF Drop, HeldLocks, TypeOK, Spare
    <2>4. (H!Inv' => CountingInv') /\ SlotsBar = slots /\ SlotsBar' = slots' /\ StatusBar' = StatusBar
        BY <1>2, <1>3, <2>2, <2>3, ProgramStep
    <2>5. H!Drop(o)
        BY <1>2, <1>5, <2>1, <2>4 DEF H!Drop, Drop
    <2>6. H!Next
        BY <2>5 DEF H!Next
    <2> QED
        BY <1>1, <2>4, <2>6, HeapStep
<1> QED
    BY <1>4, <1>5

\* A field is read while the collector may be reading it too.
LEMMA CountingLoad ==
    ASSUME CollectorAssumption, CountingInv, NEW p \in Obj, NEW k \in Slot, Load(p, k)
    PROVE  CountingInv' /\ H!Next
<1>1. TypeOK /\ H!Inv /\ HeldLocks
    BY DEF CountingInv
<1>2. PICK c : c = slots[p][k]
    OBVIOUS
<1>3. c \in Obj /\ c # Null /\ handles[c] < MaxHandles /\ handles[p] > 0
    BY <1>1, <1>2 DEF Load, TypeOK
<1>4. rc' = [rc EXCEPT ![c] = @ + 1] /\ handles' = [handles EXCEPT ![c] = @ + 1]
    BY <1>2 DEF Load
<1>5. handles[c] \in Nat /\ handles[c] + 1 \in Nat /\ rc[c] + 1 \in Int
    BY <1>1, <1>3 DEF TypeOK
<1>6. UNCHANGED <<allocated, slots, locked, header, heapVars, loopVars, listVars, setVars, work>>
    BY DEF Load
<1>7. UNCHANGED fresh
    BY <1>6 DEF heapVars
<1>8. TypeOK'
    BY <1>1, <1>4, <1>5, <1>6 DEF TypeOK, header, heapVars, loopVars, listVars, setVars
<1>9. HeldLocks'
    BY <1>1, <1>4, <1>5, <1>6 DEF HeldLocks, TypeOK
<1>10. (H!Inv' => CountingInv') /\ SlotsBar = slots /\ SlotsBar' = slots' /\ StatusBar' = StatusBar
    BY <1>6, <1>7, <1>8, <1>9, ProgramStep
<1>11. H!Load(p, k)
    BY <1>2, <1>3, <1>4, <1>6, <1>10, Zenon DEF H!Load
<1>12. H!Next
    BY <1>11 DEF H!Next
<1> QED
    BY <1>1, <1>10, <1>12, HeapStep

\* Locks and requests for a collection.
LEMMA CountingLock ==
    ASSUME CollectorAssumption, CountingInv,
           \/ \E p \in Obj : WriteLock(p) \/ WriteUnlock(p)
           \/ \E t \in Thread : CollectGarbage(t)
    PROVE  CountingInv' /\ UNCHANGED H!vars
<1>1. TypeOK /\ H!Inv /\ HeldLocks
    BY DEF CountingInv
<1>2. UNCHANGED <<allocated, rc, handles, slots, header, fresh, newAllocs, loopVars, listVars, setVars, work>>
    BY DEF WriteLock, WriteUnlock, CollectGarbage, mutVars, heapVars
<1>3. TypeOK'
    BY <1>1, <1>2 DEF WriteLock, WriteUnlock, CollectGarbage, TypeOK, mutVars, header, heapVars, loopVars, listVars, setVars
<1>4. HeldLocks'
    BY <1>1, <1>2 DEF WriteLock, WriteUnlock, CollectGarbage, HeldLocks, TypeOK, mutVars
<1>5. (H!Inv' => CountingInv') /\ SlotsBar = slots /\ SlotsBar' = slots' /\ StatusBar' = StatusBar
    BY <1>2, <1>3, <1>4, ProgramStep
<1>6. UNCHANGED H!vars
    BY <1>2, <1>5 DEF H!vars
<1> QED
    BY <1>1, <1>5, <1>6, HeapStep

\* A field is swapped under a lock, so its object is held and not condemned.
LEMMA CountingSwap ==
    ASSUME CollectorAssumption, CountingInv,
           NEW p \in Obj, NEW k \in Slot, NEW v \in Obj \union {Null}, Swap(p, k, v)
    PROVE  CountingInv' /\ H!Next
<1>1. TypeOK /\ H!Inv /\ HeldLocks /\ Stacked /\ Painted
    BY DEF CountingInv
<1>2. PICK old : old = slots[p][k]
    OBVIOUS
<1>3. UNCHANGED <<allocated, rc, locked, header, heapVars, loopVars, listVars, setVars, work>>
    BY DEF Swap
<1>4. /\ handles' = [o \in Obj |-> handles[o] + (IF o = old THEN 1 ELSE 0) - (IF o = v THEN 1 ELSE 0)]
      /\ slots' = [slots EXCEPT ![p][k] = v]
      /\ v # old
    BY <1>2 DEF Swap
<1>5. handles[p] > 0 /\ p \in locked
    BY <1>1 DEF Swap, HeldLocks
<1>6. v # Null => v \in Obj /\ handles[v] \in Nat /\ handles[v] > 0 /\ (v \in locked => handles[v] > 1)
    <2>1. v # Null => Spare(v) > 0 /\ v \in Obj
        BY DEF Swap
    <2>2. v \in Obj => handles[v] \in Nat
        BY <1>1 DEF TypeOK
    <2> QED
        BY ONLY <2>1, <2>2 DEF Spare
<1>7. \A o \in Obj : /\ handles[o] \in Nat
                    /\ handles'[o] = handles[o] + (IF o = old THEN 1 ELSE 0) - (IF o = v THEN 1 ELSE 0)
    BY <1>1, <1>4 DEF TypeOK
<1>8. \A o \in Obj : o # Null
    BY DEF CollectorAssumption
<1>9. \A o \in Obj : handles'[o] \in Nat /\ (o \in locked => handles'[o] > 0)
    BY <1>1, <1>4, <1>6, <1>7, <1>8 DEF HeldLocks
<1>10. handles' \in [Obj -> Nat]
    BY <1>4, <1>9
<1>11. slots' \in [Obj -> [Slot -> Obj \union {Null}]]
    BY <1>1, <1>4 DEF TypeOK
<1>12. TypeOK'
    BY <1>1, <1>3, <1>10, <1>11 DEF TypeOK, header, heapVars, loopVars, listVars, setVars
<1>13. HeldLocks'
    BY <1>1, <1>3, <1>9 DEF HeldLocks, TypeOK
<1>14. p \notin Condemned
    <2>1. \A o \in Condemned : handles[o] = 0
        BY <1>1, CountingHeap
    <2> QED
        BY <1>5, <2>1
<1>15. \A o \in Condemned : slots'[o] = slots[o]
    <2>1. Condemned \subseteq Obj
        BY <1>1, CountingHeap DEF TypeOK
    <2> QED
        BY <1>1, <1>4, <1>14, <2>1 DEF TypeOK
<1>16. UNCHANGED fresh
    BY <1>3 DEF heapVars
<1>17. (H!Inv' => CountingInv') /\ SlotsBar = slots /\ SlotsBar' = slots' /\ StatusBar' = StatusBar
    BY <1>3, <1>12, <1>13, <1>15, <1>16, ProgramStep
<1>18. H!Swap(p, k, v)
    BY <1>2, <1>3, <1>4, <1>5, <1>6, <1>17 DEF H!Swap, H!Write, H!Exchanged
<1>19. H!Next
    BY <1>18 DEF H!Next
<1> QED
    BY <1>1, <1>17, <1>19, HeapStep

\* Every step of a program, at any time.
LEMMA CountingMutator ==
    ASSUME CollectorAssumption, CountingInv, Mutator
    PROVE  CountingInv' /\ [H!Next]_H!vars
BY CountingAlloc, CountingHandle, CountingLoad, CountingLock, CountingSwap DEF Mutator

\* A step that reads counts and fields keeps the heap as it is.
LEMMA ReadKeeps ==
    ASSUME CollectorAssumption, CountingInv, Plain(Reading), UNCHANGED mutVars,
           TypeOK', Plain(Reading)', Painted', Ledger'
    PROVE  CountingInv' /\ UNCHANGED H!vars
<1>1. TypeOK /\ H!Inv /\ HeldLocks
    BY DEF CountingInv
<1>2. Condemned = {}
    BY PlainIsCalm DEF Reading
<1>3. Condemned' = {}
    BY DEF Plain, Condemned, Do, Reading
<1>4. UNCHANGED H!vars
    BY <1>1, <1>2, <1>3, CalmStep DEF mutVars
<1>5. H!Inv'
    BY <1>1, <1>4, HeapStep
<1>6. HeldLocks'
    BY <1>1 DEF HeldLocks, mutVars
<1>7. Stacked'
    BY DEF Stacked
<1> QED
    BY <1>4, <1>5, <1>6, <1>7 DEF CountingInv

\* The entries of a traversal that reads are about allocated objects.
ReadList(es) == es \in Seq(Entry) /\ \A e \in ToSet(es) : \E op \in Reading, o \in allocated : e = Do(op, o)

\* What a traversal that reads pops, and what pops a release.
LEMMA ReadTop ==
    ASSUME CountingInv, NEW op, NEW s, Popping(op, s)
    PROVE  /\ op \in Reading => Plain(Reading)
           /\ op \notin Reading => pc = "sweep" /\ Releasing /\ Condemned \subseteq mine
           /\ op \in {"Free", "Decrement"} \union Reading
<1>1. Head(work) \in Entries /\ Head(work).op = op
    BY HeadIn DEF Popping, CountingInv, TypeOK, Entries
<1>2. CASE Plain(Reading)
    <2>1. op \in Reading
        BY <1>1, <1>2, PlainOp
    <2> QED
        BY <1>2, <2>1
<1>3. CASE pc = "sweep" /\ Releasing /\ Condemned \subseteq mine
    <2>1. \A o \in Obj : color[o] # "Red"
        BY <1>3, ReleaseHasNoRed DEF CountingInv
    <2>2. Due(Head(work))
        BY <1>1, <1>3 DEF Releasing
    <2>3. op \in {"Free", "Decrement"}
        BY <1>1, <2>1, <2>2 DEF Due, Do, DoField
    <2> QED
        BY <1>3, <2>3 DEF Reading
<1> QED
    BY <1>2, <1>3 DEF CountingInv, Stacked

\* One visit of a traversal that reads.
LEMMA ReadVisit ==
    ASSUME CollectorAssumption, CountingInv, NEW op \in Reading, NEW s \in Obj, Popping(op, s),
           NEW es, Push(es), ReadList(es),
           UNCHANGED <<mutVars, epochRc, buffered, heapVars, loopVars, listVars, roots, freedObjs>>,
           color' \in [Obj -> Color], crc' \in [Obj -> Int], cycles' \in Seq(Seq(Obj)),
           \A o \in Obj : color'[o] = "Red" => color[o] = "Red" /\ (op = "Paint" => o # s),
           Parked(cycles') \subseteq Parked(cycles) \union {s}
    PROVE  CountingInv' /\ UNCHANGED H!vars
<1>1. TypeOK /\ Painted /\ Ledger
    BY DEF CountingInv
<1>2. Plain(Reading)
    BY ReadTop
<1>3. /\ work' \in Seq(Entry) /\ Plain(Reading)' /\ s \in allocated
      /\ \A e \in Entries : e # Do(op, s) => e \in Entries'
    <2>1. allocated' = allocated /\ "Free" \notin Reading
        BY DEF mutVars, Reading
    <2>2. es \in Seq(Entry) /\ \A e \in ToSet(es) : \E oq \in Reading, o \in allocated : e = Do(oq, o)
        BY DEF ReadList
    <2> QED
        BY ONLY <1>1, <1>2, <2>1, <2>2, op \in Reading, s \in Obj, Popping(op, s), Push(es), PlainPop
<1>4. UNCHANGED <<allocated, rc, handles, slots, locked, fresh, newAllocs, force, waiting, pc, iter, taken,
                  mine, toSweep>>
    BY DEF mutVars, heapVars, loopVars, listVars
<1>5. TypeOK'
    BY <1>1, <1>3, <1>4 DEF TypeOK
<1>6. Painted'
    <2>1. SUFFICES ASSUME NEW o \in Obj, color'[o] = "Red" PROVE Do("Paint", o) \in Entries'
        BY DEF Painted, Coloured, Doing
    <2>2. Do("Paint", o) \in Entries
        BY <1>1, <2>1 DEF Painted, Coloured, Doing
    <2>3. Do("Paint", o) # Do(op, s)
        BY <2>1 DEF Do
    <2> QED
        BY <1>3, <2>2, <2>3
<1>7. Ledger'
    BY <1>1, <1>3, <1>4 DEF Ledger
<1> QED
    BY <1>2, <1>3, <1>5, <1>6, <1>7, ReadKeeps

\* What a traversal pushes for the children that it can see.
LEMMA KidsRead ==
    ASSUME CollectorAssumption, CountingInv, NEW s \in Obj, NEW op \in Reading, NEW es, es = KidEntries(op, s)
    PROVE  ReadList(es)
<1>1. TypeOK /\ H!Inv /\ Stacked /\ Painted
    BY DEF CountingInv
<1>2. IsFiniteSet(Visited(s)) /\ \A k \in Visited(s) : k \in Slot /\ slots[s][k] # Null
    <2>1. Visited(s) \subseteq Slot /\ \A k \in Visited(s) : k \in Slot /\ slots[s][k] # Null
        BY DEF Visited
    <2> QED
        BY <2>1, FS_Subset DEF CollectorAssumption
<1>3. PICK ks \in Seq(Visited(s)) : ks = SetToSeq(Visited(s))
    BY <1>2, SetToSeqIs
<1>4. Len(ks) \in Nat /\ \A i \in 1 .. Len(ks) : ks[i] \in Visited(s)
    BY LenProperties, ElementOfSeq
<1>5. \A i \in 1 .. Len(ks) : slots[s][ks[i]] \in allocated
    BY <1>1, <1>2, <1>4, CountingHeap
<1>6. PICK x : x = [i \in 1 .. Len(ks) |-> Do(op, slots[s][ks[i]])]
    OBVIOUS
<1>7. es = x
    BY <1>3, <1>6, Zenon DEF KidEntries
<1>8. \A o \in allocated : Do(op, o) \in Entry
    BY <1>1 DEF Do, Entry, Op, Reading, TypeOK
<1>9. x \in Seq(Entry) /\ Len(x) = Len(ks) /\ \A i \in 1 .. Len(ks) : x[i] = Do(op, slots[s][ks[i]])
    <2>1. x \in [1 .. Len(ks) -> Entry]
        BY <1>5, <1>6, <1>8
    <2> QED
        BY <1>4, <1>6, <2>1
<1>10. ToSet(x) = {x[i] : i \in 1 .. Len(x)}
    BY <1>9, ToSetIs
<1>11. ReadList(x)
    BY <1>5, <1>9, <1>10 DEF ReadList
<1> QED
    BY <1>7, <1>11, Zenon

\* An entry about an allocated object, or none.
LEMMA OneRead ==
    ASSUME TypeOK
    PROVE  /\ ReadList(<<>>)
           /\ \A op \in Reading, o \in allocated : ReadList(<<Do(op, o)>>)
<1>1. ReadList(<<>>)
    BY NoEntries DEF ReadList
<1>2. ASSUME NEW op \in Reading, NEW o \in allocated PROVE ReadList(<<Do(op, o)>>)
    <2>1. op \in Op /\ o \in Obj
        BY DEF Reading, Op, TypeOK
    <2>2. <<Do(op, o)>> \in Seq(Entry) /\ ToSet(<<Do(op, o)>>) = {Do(op, o)}
        BY <2>1, OneEntry
    <2> QED
        BY <2>2 DEF ReadList
<1> QED
    BY <1>1, <1>2

\* The top of the stack is about an allocated object.
LEMMA ReadObject ==
    ASSUME CollectorAssumption, CountingInv, NEW op, NEW s, Popping(op, s)
    PROVE  s \in allocated
<1>1. Head(work) \in Entries /\ Head(work).obj = s
    BY HeadIn DEF Popping, CountingInv, TypeOK, Entries
<1> QED
    BY <1>1, CountingHeap DEF CountingInv

\* scan_black and mark_gray.
LEMMA CountingBlackGray ==
    ASSUME CollectorAssumption, CountingInv, NEW s \in Obj, ScanBlack(s) \/ MarkGray(s)
    PROVE  CountingInv' /\ UNCHANGED H!vars
<1>1. TypeOK
    BY DEF CountingInv
<1>2. "ScanBlack" \in Reading /\ "MarkGray" \in Reading
    BY DEF Reading
<1>3. ReadList(<<>>) /\ ReadList(KidEntries("ScanBlack", s)) /\ ReadList(KidEntries("MarkGray", s))
    BY <1>1, <1>2, KidsRead, OneRead
<1>4. cycles \in Seq(Seq(Obj))
    BY <1>1 DEF TypeOK
<1>5. CASE ScanBlack(s)
    <2>1. PICK es : es = IF color[s] # "Black" THEN KidEntries("ScanBlack", s) ELSE <<>>
        OBVIOUS
    <2>2. Push(es)
        BY <1>5, <2>1, Zenon DEF ScanBlack
    <2>3. ReadList(es)
        BY <1>3, <2>1, Zenon
    <2>4. /\ Popping("ScanBlack", s)
          /\ color' = [color EXCEPT ![s] = "Black"]
          /\ UNCHANGED <<mutVars, epochRc, crc, buffered, heapVars, loopVars, listVars, setVars>>
        BY <1>5 DEF ScanBlack
    <2>5. color' \in [Obj -> Color] /\ \A o \in Obj : color'[o] = "Red" => color[o] = "Red"
        BY <1>1, <2>4 DEF TypeOK, Color
    <2>6. crc' \in [Obj -> Int]
        BY <1>1, <2>4 DEF TypeOK
    <2>7. UNCHANGED <<mutVars, epochRc, buffered, heapVars, loopVars, listVars, roots, freedObjs, cycles>>
        BY <2>4 DEF setVars
    <2> QED
        BY <1>2, <1>4, <2>2, <2>3, <2>4, <2>5, <2>6, <2>7, ReadVisit
<1>6. CASE MarkGray(s)
    <2>1. PICK es : es = IF color[s] # "Gray" THEN KidEntries("MarkGray", s) ELSE <<>>
        OBVIOUS
    <2>2. Push(es)
        BY <1>6, <2>1, Zenon DEF MarkGray
    <2>3. ReadList(es)
        BY <1>3, <2>1, Zenon
    <2>4. /\ Popping("MarkGray", s)
          /\ color' = [color EXCEPT ![s] = "Gray"]
          /\ crc' = [crc EXCEPT ![s] = Lowered(IF color[s] = "Gray" THEN @ ELSE epochRc[s])]
          /\ UNCHANGED <<mutVars, epochRc, buffered, heapVars, loopVars, listVars, setVars>>
        BY <1>6 DEF MarkGray
    <2>5. color' \in [Obj -> Color] /\ \A o \in Obj : color'[o] = "Red" => color[o] = "Red"
        BY <1>1, <2>4 DEF TypeOK, Color
    <2>6. crc' \in [Obj -> Int]
        BY <1>1, <2>4 DEF TypeOK, Lowered
    <2>7. UNCHANGED <<mutVars, epochRc, buffered, heapVars, loopVars, listVars, roots, freedObjs, cycles>>
        BY <2>4 DEF setVars
    <2> QED
        BY <1>2, <1>4, <2>2, <2>3, <2>4, <2>5, <2>6, <2>7, ReadVisit
<1> QED
    BY <1>5, <1>6

\* scan.
LEMMA CountingScan ==
    ASSUME CollectorAssumption, CountingInv, NEW s \in Obj, Scan(s)
    PROVE  CountingInv' /\ UNCHANGED H!vars
<1>1. TypeOK
    BY DEF CountingInv
<1>2. "Scan" \in Reading /\ "ScanBlack" \in Reading
    BY DEF Reading
<1>3. /\ Popping("Scan", s)
      /\ UNCHANGED <<mutVars, epochRc, crc, buffered, heapVars, loopVars, listVars, setVars>>
      /\ color' = color \/ color' = [color EXCEPT ![s] = "White"]
    BY DEF Scan
<1>4. s \in allocated
    BY <1>3, ReadObject
<1>5. PICK kids : kids = KidEntries("Scan", s)
    OBVIOUS
<1>6. PICK back : back = <<Do("ScanBlack", s)>>
    OBVIOUS
<1>7. PICK none : none = <<>>
    OBVIOUS
<1>8. ReadList(none) /\ ReadList(back) /\ ReadList(kids)
    BY <1>1, <1>2, <1>4, <1>5, <1>6, <1>7, KidsRead, OneRead
<1>9. Push(kids) \/ Push(back) \/ Push(none)
    BY <1>5, <1>6, <1>7, Zenon DEF Scan
<1> HIDE <1>5, <1>6, <1>7
<1>10. PICK es : Push(es) /\ ReadList(es)
    BY <1>8, <1>9
<1>11. color' \in [Obj -> Color] /\ \A o \in Obj : color'[o] = "Red" => color[o] = "Red"
    BY <1>1, <1>3 DEF TypeOK, Color
<1>12. crc' \in [Obj -> Int] /\ cycles \in Seq(Seq(Obj))
    BY <1>1, <1>3 DEF TypeOK
<1>13. UNCHANGED <<mutVars, epochRc, buffered, heapVars, loopVars, listVars, roots, freedObjs, cycles>>
    BY <1>3 DEF setVars
<1> QED
    BY <1>2, <1>3, <1>10, <1>11, <1>12, <1>13, ReadVisit

\* collect_white: the member gathered is allocated.
LEMMA CountingWhite ==
    ASSUME CollectorAssumption, CountingInv, NEW s \in Obj, CollectWhite(s)
    PROVE  CountingInv' /\ UNCHANGED H!vars
<1>1. TypeOK
    BY DEF CountingInv
<1>2. "CollectWhite" \in Reading
    BY DEF Reading
<1>3. /\ Popping("CollectWhite", s)
      /\ UNCHANGED <<mutVars, epochRc, crc, buffered, heapVars, loopVars, listVars, roots, freedObjs>>
    BY DEF CollectWhite
<1>4. \/ /\ color' = [color EXCEPT ![s] = "Orange"]
         /\ cycles' = [cycles EXCEPT ![Len(cycles)] = Append(@, s)]
      \/ UNCHANGED <<color, cycles>>
    BY DEF CollectWhite
<1>5. PICK kids : kids = KidEntries("CollectWhite", s)
    OBVIOUS
<1>6. PICK none : none = <<>>
    OBVIOUS
<1>7. ReadList(none) /\ ReadList(kids)
    BY <1>1, <1>2, <1>5, <1>6, KidsRead, OneRead
<1>8. Push(kids) \/ Push(none)
    BY <1>5, <1>6, Zenon DEF CollectWhite
<1> HIDE <1>5, <1>6
<1>9. PICK es : Push(es) /\ ReadList(es)
    BY <1>7, <1>8
<1>10. color' \in [Obj -> Color] /\ \A o \in Obj : color'[o] = "Red" => color[o] = "Red"
    BY <1>1, <1>4 DEF TypeOK, Color
<1>11. crc' \in [Obj -> Int]
    BY <1>1, <1>3 DEF TypeOK
<1>12. cycles' \in Seq(Seq(Obj)) /\ Parked(cycles') \subseteq Parked(cycles) \union {s}
    <2>1. cycles \in Seq(Seq(Obj))
        BY <1>1 DEF TypeOK
    <2>2. CASE cycles' = cycles
        BY <2>1, <2>2
    <2>3. CASE cycles' = [cycles EXCEPT ![Len(cycles)] = Append(@, s)] /\ cycles # <<>>
        <3>1. PICK c, e : Grown(cycles', cycles, s, c, e)
            BY <2>1, <2>3, AppendGrows
        <3>2. Members(e) \subseteq Members(c) \union {s}
            <4>1. Len(c) \in Nat /\ Len(e) = Len(c) + 1
                BY <3>1, LenProperties DEF Grown
            <4>2. \A i \in 1 .. Len(e) : i \in 1 .. Len(c) \/ i = Len(c) + 1
                BY <4>1
            <4> QED
                BY <3>1, <4>2 DEF Members, Grown
        <3>3. \A i \in 1 .. Len(cycles') : i \in 1 .. Len(cycles) /\ Members(cycles'[i]) \subseteq Members(cycles[i]) \union {s}
            BY <3>1, <3>2 DEF Grown
        <3>4. Parked(cycles') \subseteq Parked(cycles) \union {s}
            BY <3>3 DEF Parked
        <3> QED
            BY <3>1, <3>4 DEF Grown
    <2>4. CASE cycles' = [cycles EXCEPT ![Len(cycles)] = Append(@, s)] /\ cycles = <<>>
        <3>1. cycles' = cycles
            BY <2>4
        <3> QED
            BY <2>1, <3>1
    <2> QED
        BY <1>4, <2>2, <2>3, <2>4
<1> QED
    BY <1>2, <1>3, <1>9, <1>10, <1>11, <1>12, ReadVisit

\* The second and third loop of sigma_preparation.
LEMMA CountingPaint ==
    ASSUME CollectorAssumption, CountingInv, NEW s \in Obj, SubKids(s) \/ Paint(s)
    PROVE  CountingInv' /\ UNCHANGED H!vars
<1>1. TypeOK
    BY DEF CountingInv
<1>2. "SubKids" \in Reading /\ "Paint" \in Reading
    BY DEF Reading
<1>3. PICK none : none = <<>>
    OBVIOUS
<1>4. ReadList(none) /\ Push(none)
    BY <1>1, <1>3, OneRead, Zenon DEF SubKids, Paint
<1> HIDE <1>3
<1>5. cycles \in Seq(Seq(Obj))
    BY <1>1 DEF TypeOK
<1>6. CASE SubKids(s)
    <2>1. /\ Popping("SubKids", s)
          /\ UNCHANGED <<mutVars, epochRc, color, buffered, heapVars, loopVars, listVars, setVars>>
        BY <1>6 DEF SubKids
    <2>2. crc' \in [Obj -> Int]
        <3>1. IsFiniteSet(Visited(s))
            <4>1. Visited(s) \subseteq Slot
                BY DEF Visited
            <4> QED
                BY <4>1, FS_Subset DEF CollectorAssumption
        <3>2. ASSUME NEW m \in Obj PROVE Cardinality({k \in Visited(s) : slots[s][k] = m}) \in Nat
            <4>1. IsFiniteSet({k \in Visited(s) : slots[s][k] = m})
                BY <3>1, FS_Subset
            <4> QED
                BY <4>1, FS_CardinalityType
        <3>3. crc' = [m \in Obj |->
                 IF color[m] # "Red" \/ crc[m] <= 0 THEN crc[m]
                 ELSE IF crc[m] > Cardinality({k \in Visited(s) : slots[s][k] = m})
                      THEN crc[m] - Cardinality({k \in Visited(s) : slots[s][k] = m}) ELSE 0]
            BY <1>6, Zenon DEF SubKids
        <3>4. \A m \in Obj : crc[m] \in Int
            BY <1>1 DEF TypeOK
        <3> QED
            BY <3>2, <3>3, <3>4
    <2>3. color' \in [Obj -> Color] /\ \A o \in Obj : color'[o] = "Red" => color[o] = "Red"
        BY <1>1, <2>1 DEF TypeOK
    <2>4. UNCHANGED <<mutVars, epochRc, buffered, heapVars, loopVars, listVars, roots, freedObjs, cycles>>
        BY <2>1 DEF setVars
    <2> QED
        BY <1>2, <1>4, <1>5, <2>1, <2>2, <2>3, <2>4, ReadVisit
<1>7. CASE Paint(s)
    <2>1. /\ Popping("Paint", s)
          /\ color' = [color EXCEPT ![s] = "Orange"]
          /\ UNCHANGED <<mutVars, epochRc, crc, buffered, heapVars, loopVars, listVars, setVars>>
        BY <1>7 DEF Paint
    <2>2. color' \in [Obj -> Color] /\ \A o \in Obj : color'[o] = "Red" => color[o] = "Red" /\ o # s
        BY <1>1, <2>1 DEF TypeOK, Color
    <2>3. crc' \in [Obj -> Int]
        BY <1>1, <2>1 DEF TypeOK
    <2>4. UNCHANGED <<mutVars, epochRc, buffered, heapVars, loopVars, listVars, roots, freedObjs, cycles>>
        BY <2>1 DEF setVars
    <2> QED
        BY <1>2, <1>4, <1>5, <2>1, <2>2, <2>3, <2>4, ReadVisit
<1> QED
    BY <1>6, <1>7

\* A release of the sweep, after one of its steps.
LEMMA SweepKeeps ==
    ASSUME CountingInv, pc = "sweep", pc' = "sweep", TypeOK', H!Inv', HeldLocks', Releasing', Condemned' \subseteq mine',
           \A o \in Obj : color'[o] # "Red", Ledger'
    PROVE  CountingInv'
<1>1. Painted'
    BY DEF Painted, Coloured
<1>2. Stacked'
    BY DEF Stacked
<1> QED
    BY <1>1, <1>2 DEF CountingInv

\* The sweep comes to an object without references: no program can lock it.
LEMMA CountingDead ==
    ASSUME CollectorAssumption, CountingInv, NEW o \in Obj, Sweep(o), rc[o] = 0,
           work' = DropChildren(o), UNCHANGED <<epochRc, color, roots>>
    PROVE  CountingInv' /\ H!Next
<1>1. TypeOK /\ H!Inv /\ HeldLocks /\ Painted /\ Ledger
    BY DEF CountingInv
<1>2. pc = "sweep" /\ work = <<>> /\ o \in toSweep /\ o \in mine /\ o \in allocated
    BY <1>1 DEF Sweep, At, TypeOK, Ledger
<1>3. /\ toSweep' = toSweep \ {o} /\ buffered' = [buffered EXCEPT ![o] = FALSE]
      /\ UNCHANGED <<allocated, rc, handles, slots, locked, pc, iter, taken, fresh, newAllocs, force, waiting,
                     crc, mine, cycles, freedObjs, epochRc, color, roots>>
    BY DEF Sweep, mutVars, heapVars, loopVars
<1>4. Condemned = {} /\ Entries = {}
    BY <1>2, EmptyIsCalm
<1>5. Coloured({"Red"}) = {}
    BY <1>1, <1>4 DEF Painted, Doing
<1>6. work' \in Seq(Entry) /\ Condemned' = {o} /\ Releasing' /\ H!Condemn({o}) /\ H!Inv'
    <2>1. \A p \in locked : handles[p] > 0
        BY <1>1 DEF HeldLocks
    <2>2. UNCHANGED <<mutVars, color>>
        BY <1>3 DEF mutVars
    <2> QED
        BY <1>1, <1>2, <1>4, <1>5, <2>1, <2>2, DeadIs
<1>7. TypeOK'
    <2>1. toSweep' \subseteq mine' /\ buffered' \in [Obj -> BOOLEAN]
        BY <1>1, <1>3 DEF TypeOK
    <2> QED
        BY <1>1, <1>3, <1>6, <2>1 DEF TypeOK
<1>8. Ledger'
    <2>1. \A x \in fresh : buffered'[x] = buffered[x]
        BY <1>1, <1>2, <1>3 DEF Ledger, TypeOK
    <2> QED
        BY <1>1, <1>2, <1>3, <2>1 DEF Ledger
<1>9. HeldLocks'
    BY <1>1, <1>3 DEF HeldLocks
<1>10. \A x \in Obj : color'[x] # "Red"
    BY <1>3, <1>5 DEF Coloured
<1>11. CountingInv'
    BY <1>2, <1>3, <1>6, <1>7, <1>8, <1>9, <1>10, SweepKeeps
<1>12. {o} \in SUBSET Obj /\ {o} # {}
    OBVIOUS
<1> QED
    BY <1>6, <1>11, <1>12 DEF H!Next

\* It comes to one that is referred to: nothing is condemned.
LEMMA CountingSwept ==
    ASSUME CollectorAssumption, CountingInv, NEW o \in Obj, Sweep(o), rc[o] # 0
    PROVE  CountingInv' /\ UNCHANGED H!vars
<1>1. TypeOK /\ Painted /\ Ledger
    BY DEF CountingInv
<1>2. pc = "sweep" /\ work = <<>> /\ o \in toSweep /\ o \in mine /\ o \in allocated
    BY <1>1 DEF Sweep, At, TypeOK, Ledger
<1>3. /\ toSweep' = toSweep \ {o} /\ buffered' = [buffered EXCEPT ![o] = FALSE]
      /\ UNCHANGED <<mutVars, allocated, pc, iter, taken, fresh, newAllocs, force, waiting, crc, mine, cycles, freedObjs>>
    BY DEF Sweep, mutVars, heapVars, loopVars
<1>4. epochRc' = [epochRc EXCEPT ![o] = rc[o]]
    BY DEF Sweep
<1>5. \/ UNCHANGED <<color, roots>>
      \/ color' = [color EXCEPT ![o] = "Purple"] /\ roots' = roots \union {o}
    BY DEF Sweep
<1>6. PICK back : back = <<Do("ScanBlack", o)>>
    OBVIOUS
<1>7. PICK none : none = <<>>
    OBVIOUS
<1>8. ReadList(none) /\ ReadList(back)
    <2>1. "ScanBlack" \in Reading
        BY DEF Reading
    <2> QED
        BY <1>1, <1>2, <1>6, <1>7, <2>1, OneRead
<1>9. work' = back \/ work' = none
    BY <1>6, <1>7, Zenon DEF Sweep
<1> HIDE <1>6, <1>7
<1>10. ReadList(work')
    BY <1>8, <1>9, Zenon
<1>11. Entries = {} /\ Plain(Reading)
    BY <1>2, EmptyIsCalm DEF Plain
<1>12. Plain(Reading)' /\ work' \in Seq(Entry)
    BY <1>3, <1>10 DEF ReadList, Plain, Entries
<1>13. \A x \in Obj : color'[x] # "Red"
    BY <1>1, <1>5, <1>11 DEF Painted, Coloured, Doing, TypeOK
<1>14. TypeOK'
    <2>1. /\ toSweep' \subseteq mine' /\ buffered' \in [Obj -> BOOLEAN] /\ epochRc' \in [Obj -> Int]
          /\ color' \in [Obj -> Color] /\ roots' \subseteq Obj
        BY <1>1, <1>3, <1>4, <1>5 DEF TypeOK, Color
    <2> QED
        BY <1>1, <1>3, <1>12, <2>1 DEF TypeOK, mutVars
<1>15. Painted'
    BY <1>13 DEF Painted, Coloured
<1>16. Ledger'
    <2>1. \A x \in fresh : buffered'[x] = buffered[x]
        BY <1>1, <1>2, <1>3 DEF Ledger, TypeOK
    <2>2. roots' \subseteq allocated
        BY <1>1, <1>2, <1>5 DEF Ledger
    <2> QED
        BY <1>1, <1>2, <1>3, <2>1, <2>2 DEF Ledger
<1> QED
    BY <1>3, <1>11, <1>12, <1>14, <1>15, <1>16, ReadKeeps

\* The last reference to an object that the sweep has seen is dropped: the
\* object is on the list of the epoch, and neither held nor locked.
LEMMA CountingLast ==
    ASSUME CollectorAssumption, CountingInv, pc = "sweep", NEW s \in Obj, NEW k \in Slot, NEW m \in Obj,
           slots[s][k] = m, LastReference(m)
    PROVE  m \in mine /\ m \notin locked /\ handles[m] = 0
<1>1. TypeOK /\ H!Inv /\ HeldLocks /\ Stacked /\ Painted /\ Ledger
    BY DEF CountingInv
<1>2. m \in allocated /\ m \notin Condemned
    <2>1. m # Null
        BY DEF CollectorAssumption
    <2> QED
        BY <1>1, <2>1, CountingHeap
<1>3. m \in mine
    BY <1>1, <1>2 DEF LastReference, Ledger
<1>4. rc[m] = 1 /\ rc[m] = handles[m] + Cardinality(From(slots, Obj, m)) /\ handles[m] \in Nat
    BY <1>1, <1>2, CountingHeap DEF LastReference, TypeOK
<1>5. Cardinality(From(slots, Obj, m)) \in Nat /\ Cardinality(From(slots, Obj, m)) # 0
    <2>1. <<s, k>> \in From(slots, Obj, m)
        BY DEF From
    <2>2. /\ Cardinality(From(slots, Obj, m)) \in Nat
          /\ Cardinality(From(slots, Obj, m)) = 0 => From(slots, Obj, m) = {}
        BY FromIs
    <2> QED
        BY <2>1, <2>2
<1>6. handles[m] = 0
    BY <1>4, <1>5
<1> QED
    BY <1>1, <1>3, <1>6 DEF HeldLocks

\* A decrement of the sweep.
LEMMA CountingDecrement ==
    ASSUME CollectorAssumption, CountingInv, NEW s \in Obj, Decrement(s)
    PROVE  CountingInv' /\ H!Next
<1>1. TypeOK /\ H!Inv /\ HeldLocks /\ Stacked /\ Painted /\ Ledger
    BY DEF CountingInv
<1>2. Popping("Decrement", s) /\ work # <<>>
    BY DEF Decrement, Popping
<1>3. pc = "sweep" /\ Releasing /\ Condemned \subseteq mine
    BY <1>2, ReadTop DEF Reading
<1>4. \A o \in Obj : color[o] # "Red"
    BY <1>1, <1>3, ReleaseHasNoRed
<1>5. PICK e : e = Head(work)
    OBVIOUS
<1>6. /\ Head(work).field \in Slot
      /\ slots[s][Head(work).field] \in Obj
      /\ Dropping(Head(work), s, Head(work).field, slots[s][Head(work).field])
    BY <1>1, <1>2, <1>3, <1>4, DroppingIs
<1>7. PICK k \in Slot : k = Head(work).field
    BY <1>6
<1>8. PICK m \in Obj : m = slots[s][k]
    BY <1>6, <1>7
<1>9. Dropping(e, s, k, m)
    BY <1>5, <1>6, <1>7, <1>8, Zenon
<1>10. PICK es : es = IF LastReference(m) THEN DropChildren(m) ELSE <<>>
    OBVIOUS
<1>11. /\ rc' = [rc EXCEPT ![m] = @ - 1] /\ slots' = [slots EXCEPT ![s][k] = Null] /\ Push(es)
       /\ UNCHANGED <<allocated, handles, locked, header, heapVars, loopVars, listVars, setVars>>
    <2>1. DropField(s, k)
        BY <1>7, Zenon DEF Decrement
    <2>2. UNCHANGED <<allocated, handles, locked, header, heapVars, loopVars, listVars, setVars>>
        BY DEF Decrement
    <2>3. rc' = [rc EXCEPT ![m] = @ - 1] /\ slots' = [slots EXCEPT ![s][k] = Null]
        BY <1>8, <2>1 DEF DropField
    <2>4. Push(es)
        BY <1>8, <1>10, <2>1, Zenon DEF DropField
    <2> QED
        BY <2>2, <2>3, <2>4
<1>12. UNCHANGED <<allocated, handles, locked, epochRc, crc, color, buffered, fresh, newAllocs, force, waiting,
                   pc, iter, taken, mine, toSweep, roots, cycles, freedObjs>>
    BY <1>11 DEF header, heapVars, loopVars, listVars, setVars
<1>13. LastReference(m) => m \in mine /\ m \notin locked
    BY <1>3, <1>8, CountingLast
<1>14. Dropped(e, s, k, m, es) /\ slots' \in [Obj -> [Slot -> Obj \union {Null}]]
    BY <1>1, <1>2, <1>8, <1>10, <1>11, <1>12, <1>13, DropFieldIs
<1>15. Len(es) # 0 => m \in mine
    <2>1. ~LastReference(m) => Len(es) = 0
        BY <1>10
    <2> QED
        BY <1>13, <2>1
<1> HIDE <1>10
<1>16. Releasing' /\ Condemned' \subseteq mine'
    <2>1. Releasing'
        BY <1>1, <1>3, <1>9, <1>14, DroppedReleasing
    <2>2. Condemned' = Condemned \union (IF Len(es) = 0 THEN {} ELSE {m})
        BY <1>1, <1>3, <1>9, <1>14, DroppedEntries
    <2> QED
        BY <1>3, <1>12, <1>15, <2>1, <2>2
<1>17. H!Decrement(s, k) /\ H!Inv'
    BY <1>1, <1>3, <1>9, <1>11, <1>14, DroppedHeap
<1>18. TypeOK'
    <2>1. rc' \in [Obj -> Int]
        BY <1>1, <1>11 DEF TypeOK
    <2>2. work' \in Seq(Entry)
        BY <1>14 DEF Dropped
    <2> QED
        BY <1>1, <1>12, <1>14, <2>1, <2>2 DEF TypeOK
<1>19. Ledger' /\ HeldLocks'
    BY <1>1, <1>12 DEF Ledger, HeldLocks
<1>20. CountingInv'
    BY <1>3, <1>4, <1>12, <1>16, <1>17, <1>18, <1>19, SweepKeeps
<1> QED
    BY <1>17, <1>20, DropIs

\* An object of the list is freed: it leaves the list, the roots and, once
\* purged, the parked cycles.
LEMMA CountingFree ==
    ASSUME CollectorAssumption, CountingInv, NEW s \in Obj, Free(s)
    PROVE  CountingInv' /\ H!Next
<1>1. TypeOK /\ H!Inv /\ HeldLocks /\ Stacked /\ Painted /\ Ledger
    BY DEF CountingInv
<1>2. pc = "sweep" /\ Releasing /\ Condemned \subseteq mine
    BY ReadTop DEF Reading, Free
<1>3. \A o \in Obj : color[o] # "Red"
    BY <1>1, <1>2, ReleaseHasNoRed
<1>4. s \in allocated /\ s \in Condemned /\ handles[s] = 0 /\ work' \in Seq(Entry) /\ Condemned' = Condemned \ {s}
    BY <1>1, <1>2, FreeTop
<1>5. Freed(s) /\ TypeOK'
    BY <1>1, <1>4, FreedIs
<1>6. Releasing'
    BY <1>1, <1>2, FreedReleasing
<1>7. H!Free(s) /\ H!Inv'
    BY <1>1, <1>2, FreedHeap
<1>8. /\ allocated' = allocated \ {s} /\ mine' = mine \ {s} /\ roots' = roots \ {s}
      /\ freedObjs' = freedObjs \union {s}
      /\ UNCHANGED <<handles, locked, buffered, fresh, pc, iter, taken, cycles>>
      /\ \A o \in Obj : color'[o] = IF o = s THEN "Black" ELSE color[o]
    BY <1>5 DEF Freed, heapVars, loopVars
<1>9. Condemned' \subseteq mine'
    BY <1>2, <1>4, <1>8
<1>10. \A o \in Obj : color'[o] # "Red"
    BY <1>3, <1>8
<1>11. HeldLocks'
    BY <1>1, <1>8 DEF HeldLocks
<1>12. Ledger'
    <2>1. s \in mine /\ s \notin fresh
        BY <1>1, <1>2, <1>4 DEF Ledger
    <2>2. iter = {} /\ taken = <<>>
        BY <1>1, <1>2 DEF Ledger
    <2>3. Parked(taken') \subseteq allocated'
        BY <1>8, <2>2 DEF Parked
    <2>4. fresh' \intersect mine' = {} /\ fresh' \union mine' = allocated' /\ roots' \subseteq allocated'
        BY <1>1, <1>8, <2>1 DEF Ledger
    <2>5. Parked(cycles') \subseteq allocated' \union freedObjs'
        BY <1>1, <1>2, <1>8 DEF Ledger
    <2> QED
        BY <1>1, <1>2, <1>8, <2>2, <2>3, <2>4, <2>5 DEF Ledger
<1>13. CountingInv'
    BY <1>2, <1>5, <1>6, <1>7, <1>8, <1>9, <1>10, <1>11, <1>12, SweepKeeps
<1> QED
    BY <1>7, <1>13 DEF H!Next

\* With no traversal under way, nothing is condemned and nothing is Red.
LEMMA CountingRests ==
    ASSUME CountingInv, work = <<>>
    PROVE  TypeOK /\ Ledger /\ Plain(Reading) /\ \A o \in Obj : color[o] # "Red"
<1>1. Entries = {}
    BY EmptyIsCalm
<1> QED
    BY <1>1 DEF CountingInv, Plain, Painted, Coloured, Doing

\* What EndSweep leaves of the parked cycles.
PurgedCycles(cs, K) == Kept([i \in 1 .. Len(cs) |-> Kept(cs[i], K)], Seq(Obj) \ {<<>>})

\* A sequence made by a function on 1 .. n.
LEMMA MadeSeq ==
    ASSUME NEW S, NEW n \in Nat, NEW x \in [1 .. n -> S]
    PROVE  x \in Seq(S) /\ Len(x) = n
OBVIOUS

\* The cycles left when freed objects are purged have no other members than before.
LEMMA PurgedWithin ==
    ASSUME NEW cs \in Seq(Seq(Obj)), NEW K,
           NEW t, t = PurgedCycles(cs, K)
    PROVE  t \in Seq(Seq(Obj)) /\ Parked(t) \subseteq Parked(cs) \intersect K
<1>1. PICK x : x = [i \in 1 .. Len(cs) |-> Kept(cs[i], K)]
    OBVIOUS
<1>2. Len(cs) \in Nat /\ \A i \in 1 .. Len(cs) : cs[i] \in Seq(Obj)
    BY LenProperties, ElementOfSeq
<1>3. ASSUME NEW i \in 1 .. Len(cs)
      PROVE  x[i] \in Seq(Obj) /\ Members(x[i]) \subseteq Members(cs[i]) \intersect K
    <2>1. PICK c \in Seq(Obj) : c = cs[i]
        BY <1>2
    <2>2. PICK q : q = Kept(c, K)
        OBVIOUS
    <2>3. q \in Seq(Obj) /\ Members(q) = Members(c) \intersect K
        BY <2>2, KeptMembers
    <2>4. x[i] = q
        BY <1>1, <2>1, <2>2
    <2> QED
        BY <2>1, <2>3, <2>4
<1>4. x \in Seq(Seq(Obj)) /\ Len(x) = Len(cs)
    <2>1. x \in [1 .. Len(cs) -> Seq(Obj)]
        <3>1. \A i \in 1 .. Len(cs) : x[i] \in Seq(Obj)
            BY <1>3
        <3> QED
            BY <1>1, <3>1
    <2>2. PICK S : S = Seq(Obj)
        OBVIOUS
    <2>3. x \in [1 .. Len(cs) -> S]
        BY <2>1, <2>2
    <2>4. x \in Seq(S) /\ Len(x) = Len(cs)
        BY ONLY <1>2, <2>3, MadeSeq
    <2> QED
        BY <2>2, <2>4
<1>5. PICK y : y = Kept(x, Seq(Obj) \ {<<>>})
    OBVIOUS
<1>6. t = y
    BY <1>1, <1>5, Zenon DEF PurgedCycles
<1> HIDE <1>1
<1>7. y \in Seq(Seq(Obj)) /\ Members(y) \subseteq Members(x)
    <2>1. PICK S : S = Seq(Obj)
        OBVIOUS
    <2>2. PICK L : L = Seq(Obj) \ {<<>>}
        OBVIOUS
    <2>3. x \in Seq(S)
        BY <1>4, <2>1
    <2>4. y = Kept(x, L)
        BY <1>5, <2>2, Zenon
    <2>5. y \in Seq(S) /\ Members(y) = Members(x) \intersect L
        BY ONLY <2>3, <2>4, KeptMembers
    <2> QED
        BY <2>1, <2>5
<1>8. Parked(y) \subseteq Parked(cs) \intersect K
    <2>1. ASSUME NEW i \in 1 .. Len(y) PROVE Members(y[i]) \subseteq Parked(cs) \intersect K
        <3>1. y[i] \in Members(x)
            BY <1>7 DEF Members
        <3>2. PICK j \in 1 .. Len(x) : y[i] = x[j]
            BY <3>1 DEF Members
        <3>3. j \in 1 .. Len(cs) /\ Members(x[j]) \subseteq Members(cs[j]) \intersect K
            BY <1>3, <1>4, <3>2
        <3> QED
            BY <3>2, <3>3 DEF Parked
    <2> QED
        BY <2>1 DEF Parked
<1> QED
    BY <1>6, <1>7, <1>8, Zenon

\* The epoch begins with the whole heap list, and the sweep ends.
LEMMA CountingEdges ==
    ASSUME CollectorAssumption, CountingInv, AwaitEpoch \/ EndSweep
    PROVE  CountingInv' /\ UNCHANGED H!vars
<1>1. TypeOK /\ Painted /\ Ledger
    BY DEF CountingInv
<1>2. UNCHANGED <<mutVars, header, work>> /\ Entries' = Entries
    BY DEF AwaitEpoch, EndSweep, Entries
<1>3. Painted'
    BY <1>1, <1>2 DEF Painted, Coloured, Doing, header
<1>4. CASE AwaitEpoch
    <2>1. /\ pc = "await" /\ pc' = "sweep" /\ mine' = fresh /\ toSweep' = fresh /\ fresh' = {}
          /\ newAllocs' = 0 /\ force' = FALSE
          /\ UNCHANGED <<waiting, iter, taken, roots, cycles, freedObjs>>
        BY <1>4 DEF AwaitEpoch, setVars
    <2>2. Plain(Reading)
        BY <2>1 DEF CountingInv, Stacked
    <2>3. Plain(Reading)'
        BY <1>2, <2>2 DEF Plain, mutVars
    <2>4. TypeOK'
        <3>1. newAllocs' \in 0 .. MinAllocs
            BY <2>1 DEF CollectorAssumption
        <3> QED
            BY <1>1, <1>2, <2>1, <3>1 DEF TypeOK, mutVars, header, Phase
    <2>5. Ledger'
        BY <1>1, <1>2, <2>1 DEF Ledger, mutVars
    <2> QED
        BY <1>2, <1>3, <2>2, <2>3, <2>4, <2>5, ReadKeeps
<1>5. CASE EndSweep
    <2>1. /\ pc = "sweep" /\ work = <<>> /\ cycles' = <<>> /\ pc' = "free"
          /\ UNCHANGED <<fresh, newAllocs, force, waiting, iter, mine, toSweep, roots, freedObjs>>
        BY <1>5 DEF EndSweep, At, heapVars, listVars
    <2>2. Plain(Reading)
        BY <2>1, CountingRests
    <2>3. Plain(Reading)'
        BY <1>2, <2>2 DEF Plain, mutVars
    <2>4. PICK K : K = Obj \ freedObjs
        OBVIOUS
    <2>5. PICK t : t = PurgedCycles(cycles, K)
        OBVIOUS
    <2>6. taken' = t
        BY <1>5, <2>4, <2>5, Zenon DEF EndSweep, Purged, PurgedCycles
    <2>7. t \in Seq(Seq(Obj)) /\ Parked(t) \subseteq Parked(cycles) \intersect K
        <3>1. cycles \in Seq(Seq(Obj))
            BY <1>1 DEF TypeOK
        <3> QED
            BY ONLY <2>5, <3>1, PurgedWithin, Zenon
    <2> HIDE <2>5
    <2>8. Parked(t) \subseteq allocated
        BY <1>1, <2>1, <2>4, <2>7 DEF Ledger
    <2>9. TypeOK'
        BY <1>1, <1>2, <2>1, <2>6, <2>7 DEF TypeOK, mutVars, header, Phase
    <2>10. Ledger'
        <3>1. Parked(cycles') = {}
            BY <2>1 DEF Parked
        <3> QED
            BY <1>1, <1>2, <2>1, <2>6, <2>8, <3>1 DEF Ledger, mutVars
    <2> QED
        BY <1>2, <1>3, <2>2, <2>3, <2>9, <2>10, ReadKeeps
<1> QED
    BY <1>4, <1>5

\* Cycles that fail their tests are given up, and cycles are prepared.
LEMMA CountingTaken ==
    ASSUME CollectorAssumption, CountingInv, Refurbish \/ SigmaCycle
    PROVE  CountingInv' /\ UNCHANGED H!vars
<1>1. work = <<>> /\ taken # <<>> /\ pc \in {"free", "sigma"}
    BY DEF Refurbish, SigmaCycle, At
<1>2. TypeOK /\ Ledger /\ Plain(Reading) /\ \A o \in Obj : color[o] # "Red"
    BY <1>1, CountingRests
<1>3. taken \in Seq(Seq(Obj)) /\ Parked(taken) \subseteq allocated
    BY <1>2 DEF TypeOK, Ledger
<1>4. CASE Refurbish
    <2>1. PICK c : c = Last(taken)
        OBVIOUS
    <2>2. PICK x : x = Front(taken)
        OBVIOUS
    <2>3. PICK again : again = {c[i] : i \in {j \in 1 .. Len(c) :
                    \/ j = 1 /\ color[c[j]] = "Orange"
                    \/ color[c[j]] = "Purple"}}
        OBVIOUS
    <2>4. /\ color' = [o \in Obj |-> IF o \in again THEN "Purple" ELSE IF o \in Members(c) THEN "Black" ELSE color[o]]
          /\ roots' = roots \union again
        BY <1>4, <2>1, <2>3, Zenon DEF Refurbish
    <2>5. taken' = x
        BY <1>4, <2>2, Zenon DEF Refurbish
    <2>6. UNCHANGED <<mutVars, epochRc, crc, buffered, heapVars, pc, iter, listVars, cycles, freedObjs, work>>
        BY <1>4 DEF Refurbish
    <2>7. Ends(taken, x, c)
        BY <1>1, <1>3, <2>1, <2>2, FrontEnds
    <2> HIDE <2>1, <2>2
    <2>8. Members(c) \subseteq Parked(taken) /\ Parked(x) \subseteq Parked(taken)
        <3>1. Len(taken) \in 1 .. Len(taken) /\ c = taken[Len(taken)]
            BY <2>7 DEF Ends
        <3>2. \A i \in 1 .. Len(x) : i \in 1 .. Len(taken) /\ x[i] = taken[i]
            BY <2>7 DEF Ends
        <3> QED
            BY <3>1, <3>2 DEF Parked
    <2>9. again \subseteq Members(c)
        BY <2>3 DEF Members
    <2> HIDE <2>3
    <2>10. color' \in [Obj -> Color] /\ \A o \in Obj : color'[o] # "Red"
        BY <1>2, <2>4 DEF TypeOK, Color
    <2>11. roots' \subseteq allocated /\ roots' \subseteq Obj
        BY <1>2, <1>3, <2>4, <2>8, <2>9 DEF Ledger, TypeOK
    <2>12. x \in Seq(Seq(Obj))
        BY <2>7 DEF Ends
    <2>13. TypeOK'
        BY <1>2, <2>5, <2>6, <2>10, <2>11, <2>12 DEF TypeOK, mutVars, heapVars, listVars
    <2>14. Painted'
        BY <2>10 DEF Painted, Coloured
    <2>15. UNCHANGED <<allocated, fresh, mine, buffered, pc, iter, cycles, freedObjs>>
        BY <2>6 DEF mutVars, heapVars, listVars
    <2>16. Ledger'
        BY <1>1, <1>2, <1>3, <2>5, <2>8, <2>11, <2>15 DEF Ledger
    <2>17. Plain(Reading)'
        BY <1>2, <2>6 DEF Plain, Entries, mutVars
    <2> QED
        BY <1>2, <2>6, <2>13, <2>14, <2>16, <2>17, ReadKeeps
<1>5. CASE SigmaCycle
    <2>1. PICK c : c = Head(taken)
        OBVIOUS
    <2>2. PICK t : t = Tail(taken)
        OBVIOUS
    <2>3. PICK x : x = MemberEntries("SubKids", c) \o MemberEntries("Paint", c)
        OBVIOUS
    <2>4. /\ color' = [o \in Obj |-> IF o \in Members(c) THEN "Red" ELSE color[o]]
          /\ crc' = [o \in Obj |-> IF o \in Members(c) THEN epochRc[o] ELSE crc[o]]
          /\ UNCHANGED <<mutVars, epochRc, buffered, heapVars, pc, iter, listVars, setVars>>
        BY <1>5, <2>1 DEF SigmaCycle
    <2>5. taken' = t
        BY <1>5, <2>2, Zenon DEF SigmaCycle
    <2>6. work' = x
        BY <1>5, <2>1, <2>3, Zenon DEF SigmaCycle
    <2>7. c = taken[1] /\ 1 \in 1 .. Len(taken) /\ c \in Seq(Obj)
        <3>1. c = taken[1] /\ 1 \in 1 .. Len(taken)
            BY <1>1, <1>3, <2>1, HeadIn
        <3> QED
            BY <1>3, <3>1, ElementOfSeq
    <2>8. t \in Seq(Seq(Obj)) /\ Len(t) = Len(taken) - 1 /\ \A i \in 1 .. Len(t) : t[i] = taken[i + 1]
        <3>1. PICK S : S = Seq(Obj)
            OBVIOUS
        <3>2. taken \in Seq(S)
            BY <1>3, <3>1
        <3>3. t \in Seq(S) /\ Len(t) = Len(taken) - 1 /\ \A i \in 1 .. Len(t) : t[i] = taken[i + 1]
            BY ONLY <1>1, <2>2, <3>2, HeadTailProperties
        <3> QED
            BY <3>1, <3>3
    <2>9. Members(c) \subseteq Parked(taken) /\ Parked(t) \subseteq Parked(taken)
        <3>1. Members(c) \subseteq Parked(taken)
            BY <2>7 DEF Parked
        <3>2. Len(taken) \in Nat
            BY <1>3, LenProperties
        <3>3. \A i \in 1 .. Len(t) : i + 1 \in 1 .. Len(taken) /\ t[i] = taken[i + 1]
            BY <2>8, <3>2
        <3>4. Parked(t) \subseteq Parked(taken)
            BY <3>3 DEF Parked
        <3> QED
            BY <3>1, <3>4
    <2>10. Passes(x, c, "SubKids", "Paint")
        <3>1. "SubKids" \in Op /\ "Paint" \in Op
            BY DEF Op
        <3> QED
            BY <2>3, <2>7, <3>1, PassesIs
    <2> HIDE <2>1, <2>2, <2>3
    <2>11. x \in Seq(Entry)
        BY <2>10 DEF Passes
    <2>12. /\ \A e \in ToSet(x) : \E o \in Members(c) : e = Do("SubKids", o) \/ e = Do("Paint", o)
           /\ \A o \in Members(c) : Do("Paint", o) \in ToSet(x)
        BY <2>10, PassSet
    <2>13. Entries' = ToSet(x)
        BY <2>6 DEF Entries
    <2>14. Plain(Reading)'
        <3>1. \A e \in ToSet(x) : \E op \in Reading, o \in allocated : e = Do(op, o)
            BY <1>3, <2>9, <2>12 DEF Reading
        <3> QED
            BY <2>4, <2>13, <3>1 DEF Plain, mutVars
    <2>15. Painted'
        <3>1. \A o \in Obj : color'[o] = "Red" => o \in Members(c)
            BY <1>2, <2>4
        <3> QED
            BY <2>12, <2>13, <3>1 DEF Painted, Coloured, Doing
    <2>16. color' \in [Obj -> Color] /\ crc' \in [Obj -> Int]
        BY <1>2, <2>4 DEF TypeOK, Color
    <2>17. TypeOK'
        BY <1>2, <2>4, <2>5, <2>6, <2>8, <2>11, <2>16 DEF TypeOK, mutVars, heapVars, listVars, setVars
    <2>18. UNCHANGED <<allocated, fresh, mine, buffered, pc, iter, roots, cycles, freedObjs>>
        BY <2>4 DEF mutVars, heapVars, listVars, setVars
    <2>19. Ledger'
        BY <1>1, <1>2, <1>3, <2>5, <2>9, <2>18 DEF Ledger
    <2> QED
        BY <1>2, <2>4, <2>14, <2>15, <2>17, <2>19, ReadKeeps
<1> QED
    BY <1>4, <1>5

\* mark_roots visits what is still Purple.
LEMMA CountingMarkRoot ==
    ASSUME CollectorAssumption, CountingInv, NEW s \in Obj, MarkRoot(s)
    PROVE  CountingInv' /\ UNCHANGED H!vars
<1>1. work = <<>> /\ pc = "mark" /\ s \in iter
    BY DEF MarkRoot, At
<1>2. TypeOK /\ Ledger /\ Plain(Reading) /\ \A o \in Obj : color[o] # "Red"
    BY <1>1, CountingRests
<1>3. /\ iter' = iter \ {s} /\ roots' \subseteq roots
      /\ UNCHANGED <<mutVars, epochRc, buffered, heapVars, pc, taken, listVars, cycles, freedObjs>>
      /\ \/ color' = [color EXCEPT ![s] = "Gray"] /\ crc' = [crc EXCEPT ![s] = epochRc[s]]
         \/ UNCHANGED <<color, crc>>
    BY DEF MarkRoot
<1>4. PICK kids : kids = KidEntries("MarkGray", s)
    OBVIOUS
<1>5. PICK none : none = <<>>
    OBVIOUS
<1>6. ReadList(none) /\ ReadList(kids)
    <2>1. "MarkGray" \in Reading
        BY DEF Reading
    <2> QED
        BY <1>2, <1>4, <1>5, <2>1, KidsRead, OneRead
<1>7. work' = kids \/ work' = none
    BY <1>1, <1>4, <1>5, Zenon DEF MarkRoot
<1> HIDE <1>4, <1>5
<1>8. ReadList(work')
    BY <1>6, <1>7, Zenon
<1>9. Plain(Reading)' /\ work' \in Seq(Entry)
    <2>1. allocated' = allocated /\ pc' = pc
        BY <1>3 DEF mutVars
    <2> QED
        BY ONLY <1>8, <2>1 DEF ReadList, Plain, Entries
<1>10. /\ color' \in [Obj -> Color] /\ crc' \in [Obj -> Int]
       /\ \A o \in Obj : color'[o] # "Red"
    <2>1. /\ color \in [Obj -> Color] /\ crc \in [Obj -> Int] /\ epochRc[s] \in Int
          /\ "Gray" \in Color
        BY <1>2 DEF TypeOK, Color
    <2>2. CASE color' = [color EXCEPT ![s] = "Gray"] /\ crc' = [crc EXCEPT ![s] = epochRc[s]]
        BY <1>2, <2>1, <2>2
    <2>3. CASE UNCHANGED <<color, crc>>
        BY <1>2, <2>1, <2>3
    <2> QED
        BY <1>3, <2>2, <2>3
<1>11. Painted'
    BY <1>10 DEF Painted, Coloured
<1>12. TypeOK'
    BY <1>2, <1>3, <1>9, <1>10 DEF TypeOK, mutVars, heapVars, listVars
<1>13. Ledger'
    BY <1>1, <1>2, <1>3 DEF Ledger, mutVars, heapVars, listVars
<1> QED
    BY <1>2, <1>3, <1>9, <1>11, <1>12, <1>13, ReadKeeps

\* The roots are scanned and drained; a White one begins a cycle.
LEMMA CountingRoot ==
    ASSUME CollectorAssumption, CountingInv, NEW s \in Obj, ScanRoot(s) \/ CollectRoot(s)
    PROVE  CountingInv' /\ UNCHANGED H!vars
<1>1. work = <<>> /\ pc \in {"scan", "collect"} /\ s \in iter
    BY DEF ScanRoot, CollectRoot, At
<1>2. TypeOK /\ Ledger /\ Plain(Reading) /\ \A o \in Obj : color[o] # "Red"
    BY <1>1, CountingRests
<1>3. /\ iter' = iter \ {s} /\ roots' \subseteq roots
      /\ UNCHANGED <<mutVars, header, heapVars, pc, taken, listVars, freedObjs>>
    BY DEF ScanRoot, CollectRoot, setVars
<1>4. s \in allocated
    BY <1>1, <1>2 DEF Ledger
<1>5. PICK scan : scan = <<Do("Scan", s)>>
    OBVIOUS
<1>6. PICK gather : gather = <<Do("CollectWhite", s)>>
    OBVIOUS
<1>7. PICK none : none = <<>>
    OBVIOUS
<1>8. ReadList(none) /\ ReadList(scan) /\ ReadList(gather)
    <2>1. "Scan" \in Reading /\ "CollectWhite" \in Reading
        BY DEF Reading
    <2> QED
        BY <1>2, <1>4, <1>5, <1>6, <1>7, <2>1, OneRead
<1>9. work' = scan \/ work' = gather \/ work' = none
    BY <1>1, <1>5, <1>6, <1>7, Zenon DEF ScanRoot, CollectRoot
<1> HIDE <1>5, <1>6, <1>7
<1>10. ReadList(work')
    BY <1>8, <1>9, Zenon
<1>11. Plain(Reading)' /\ work' \in Seq(Entry)
    BY <1>3, <1>10 DEF ReadList, Plain, Entries, mutVars
<1>12. Painted'
    BY <1>2, <1>3 DEF Painted, Coloured, header
<1>13. cycles' \in Seq(Seq(Obj)) /\ Parked(cycles') \subseteq Parked(cycles)
    <2>1. cycles \in Seq(Seq(Obj))
        BY <1>2 DEF TypeOK
    <2>2. cycles' = cycles \/ cycles' = Append(cycles, <<>>)
        BY DEF ScanRoot, CollectRoot, setVars
    <2>3. CASE cycles' = Append(cycles, <<>>)
        <3>1. Begun(cycles', cycles)
            BY <2>1, <2>3, AppendBegins
        <3>2. /\ cycles' \in Seq(Seq(Obj)) /\ Len(cycles') = Len(cycles) + 1
              /\ \A i \in 1 .. Len(cycles) : cycles'[i] = cycles[i]
              /\ Len(cycles'[Len(cycles) + 1]) = 0
            BY <3>1 DEF Begun
        <3>3. Len(cycles) \in Nat
            BY <2>1, LenProperties
        <3>4. \A i \in 1 .. Len(cycles') : i \in 1 .. Len(cycles) \/ i = Len(cycles) + 1
            BY <3>2, <3>3
        <3>5. Members(cycles'[Len(cycles) + 1]) = {}
            BY <3>2 DEF Members
        <3> QED
            BY <3>2, <3>4, <3>5 DEF Parked
    <2> QED
        BY <2>1, <2>2, <2>3
<1>14. TypeOK'
    BY <1>2, <1>3, <1>11, <1>13 DEF TypeOK, mutVars, header, heapVars, listVars
<1>15. Ledger'
    BY <1>1, <1>2, <1>3, <1>13 DEF Ledger, mutVars, header, heapVars, listVars
<1> QED
    BY <1>2, <1>3, <1>11, <1>12, <1>14, <1>15, ReadKeeps

\* One part of the epoch ends and the next begins.
LEMMA CountingTurn ==
    ASSUME CollectorAssumption, CountingInv,
           EndFree \/ EndMark \/ EndScan \/ EndCollect \/ EndSigma \/ Splice
    PROVE  CountingInv' /\ UNCHANGED H!vars
<1>1. TypeOK /\ Painted /\ Ledger
    BY DEF CountingInv
<1>2. UNCHANGED <<mutVars, header, newAllocs, force, roots, cycles, work>> /\ Entries' = Entries
    BY DEF EndFree, EndMark, EndScan, EndCollect, EndSigma, Splice, heapVars, setVars, Entries
<1>3. Plain(Reading)
    <2>1. pc # "sweep"
        BY DEF EndFree, EndMark, EndScan, EndCollect, EndSigma, Splice, At
    <2> QED
        BY <2>1 DEF CountingInv, Stacked
<1>4. Plain(Reading)' /\ Painted'
    BY <1>1, <1>2, <1>3 DEF Plain, Painted, Coloured, Doing, mutVars, header
<1>5. TypeOK' /\ Ledger'
    <2>1. CASE EndFree \/ EndMark \/ EndScan
        <3>1. /\ pc' \in {"mark", "scan", "collect"} /\ iter' = roots /\ pc \in {"free", "mark", "scan"}
              /\ UNCHANGED <<fresh, waiting, taken, mine, toSweep, freedObjs>>
              /\ taken = <<>>
            BY <1>1, <2>1 DEF EndFree, EndMark, EndScan, At, heapVars, listVars, setVars, Ledger
        <3>2. TypeOK'
            BY <1>1, <1>2, <3>1 DEF TypeOK, mutVars, header, Phase
        <3> QED
            BY <1>1, <1>2, <3>1, <3>2 DEF Ledger, mutVars, header
    <2>2. CASE EndCollect
        <3>1. /\ pc' = "sigma" /\ taken' = cycles /\ pc = "collect" /\ iter = {}
              /\ UNCHANGED <<fresh, waiting, iter, mine, toSweep, freedObjs>>
            BY <2>2 DEF EndCollect, At, heapVars, listVars, setVars
        <3>2. TypeOK'
            BY <1>1, <1>2, <3>1 DEF TypeOK, mutVars, header, Phase
        <3> QED
            BY <1>1, <1>2, <3>1, <3>2 DEF Ledger, mutVars, header
    <2>3. CASE EndSigma
        <3>1. /\ pc' = "splice" /\ freedObjs' = {} /\ pc = "sigma" /\ taken = <<>>
              /\ UNCHANGED <<fresh, waiting, iter, taken, mine, toSweep>>
            BY <2>3 DEF EndSigma, At, heapVars, listVars
        <3>2. TypeOK'
            BY <1>1, <1>2, <3>1 DEF TypeOK, mutVars, header, Phase
        <3> QED
            BY <1>1, <1>2, <3>1, <3>2 DEF Ledger, mutVars, header
    <2>4. CASE Splice
        <3>1. /\ pc' = "await" /\ pc = "splice" /\ fresh' = fresh \union mine /\ mine' = {} /\ toSweep' = {} /\ waiting' = {}
              /\ UNCHANGED <<iter, taken, freedObjs>>
            BY <2>4 DEF Splice, At, setVars
        <3>2. TypeOK'
            BY <1>1, <1>2, <3>1 DEF TypeOK, mutVars, header, Phase
        <3> QED
            BY <1>1, <1>2, <3>1, <3>2 DEF Ledger, mutVars, header
    <2> QED
        BY <2>1, <2>2, <2>3, <2>4
<1> QED
    BY <1>2, <1>3, <1>4, <1>5, ReadKeeps

\* Every step of the collector that frees no cycle.
LEMMA CountingCollector ==
    ASSUME CollectorAssumption, CountingInv, Collector, ~FreeCycle
    PROVE  CountingInv' /\ [H!Next]_H!vars
<1>1. CASE \E s \in Obj : CycleKids(s) \/ CyclicDecrement(s)
    <2>1. PICK s \in Obj, op \in {"CycleKids", "CyclicDecrement"} : Popping(op, s)
        BY <1>1 DEF CycleKids, CyclicDecrement
    <2>2. op \in {"Free", "Decrement"} \union Reading
        BY <2>1, ReadTop
    <2> QED
        BY <2>2 DEF Reading
<1>2. CASE \E s \in Obj : Decrement(s) \/ Free(s)
    BY <1>2, CountingDecrement, CountingFree
<1>3. CASE \E s \in Obj : ScanBlack(s) \/ MarkGray(s) \/ Scan(s) \/ CollectWhite(s) \/ SubKids(s) \/ Paint(s)
    BY <1>3, CountingBlackGray, CountingScan, CountingWhite, CountingPaint
<1>4. CASE \E s \in Obj : Sweep(s)
    <2>1. PICK s \in Obj : Sweep(s)
        BY <1>4
    <2>2. CASE rc[s] = 0
        <3>1. work' = DropChildren(s) /\ UNCHANGED <<epochRc, color, roots>>
            BY <2>1, <2>2 DEF Sweep
        <3> QED
            BY <2>1, <2>2, <3>1, CountingDead
    <2> QED
        BY <2>1, <2>2, CountingSwept
<1>5. CASE \E s \in Obj : MarkRoot(s) \/ ScanRoot(s) \/ CollectRoot(s)
    BY <1>5, CountingMarkRoot, CountingRoot
<1>6. CASE AwaitEpoch \/ EndSweep \/ Refurbish \/ SigmaCycle \/ EndFree \/ EndMark \/ EndScan \/ EndCollect \/ EndSigma \/ Splice
    BY <1>6, CountingEdges, CountingTaken, CountingTurn
<1> QED
    BY <1>1, <1>2, <1>3, <1>4, <1>5, <1>6 DEF Collector, Traverse

\* Every step of CountingSpec.
LEMMA CountingStep ==
    ASSUME CollectorAssumption, CountingInv, [CountingNext]_vars
    PROVE  CountingInv' /\ [H!Next]_H!vars
<1>1. CASE CountingNext
    BY <1>1, CountingMutator, CountingCollector DEF CountingNext, Next
<1>2. CASE UNCHANGED vars
    <2>1. UNCHANGED <<allocated, rc, handles, slots, locked, epochRc, crc, color, buffered, fresh, newAllocs, force, waiting,
                      pc, iter, taken, mine, toSweep, roots, cycles, freedObjs, work>>
        BY <1>2 DEF vars, mutVars, header, heapVars, loopVars, listVars, setVars
    <2>2. Entries' = Entries /\ Condemned' = Condemned
        BY <2>1 DEF Entries, Condemned
    <2>3. Stacked' /\ Painted' /\ Ledger' /\ HeldLocks' /\ TypeOK' /\ SlotsBar' = SlotsBar /\ StatusBar' = StatusBar
        <3>1. TypeOK' /\ HeldLocks' /\ Ledger'
            BY <2>1 DEF CountingInv, TypeOK, HeldLocks, Ledger
        <3>2. SlotsBar' = SlotsBar /\ StatusBar' = StatusBar
            BY <2>1, <2>2 DEF SlotsBar, StatusBar, Pending
        <3>3. Painted'
            BY <2>1, <2>2 DEF CountingInv, Painted, Coloured, Doing
        <3>4. Stacked'
            BY <2>1, <2>2 DEF CountingInv, Stacked, Plain, Releasing, Due, Coloured
        <3> QED
            BY <3>1, <3>2, <3>3, <3>4
    <2>4. UNCHANGED H!vars
        BY <2>1, <2>3 DEF H!vars
    <2>5. H!Inv'
        BY <2>4, HeapStep DEF CountingInv
    <2> QED
        BY <2>3, <2>4, <2>5 DEF CountingInv
<1> QED
    BY <1>1, <1>2

\* The first state.
LEMMA CountingInit ==
    ASSUME CollectorAssumption, Init
    PROVE  CountingInv /\ H!Init
<1>1. TypeOK /\ H!Inv /\ H!Init
    BY InitStep DEF IInv
<1>2. /\ allocated = {} /\ locked = {} /\ fresh = {} /\ mine = {} /\ roots = {} /\ iter = {} /\ freedObjs = {}
      /\ cycles = <<>> /\ taken = <<>> /\ work = <<>> /\ pc = "await"
      /\ color = [o \in Obj |-> "Black"]
    BY DEF Init
<1>3. Parked(<<>>) = {}
    BY DEF Parked
<1>4. Ledger /\ HeldLocks
    BY <1>2, <1>3 DEF Ledger, HeldLocks
<1>5. Painted
    BY <1>2 DEF Painted, Coloured
<1>6. Entries = {}
    BY <1>2, EmptyIsCalm
<1>7. Stacked
    BY <1>6 DEF Stacked, Plain
<1> QED
    BY <1>1, <1>4, <1>5, <1>7 DEF CountingInv

\* What the collector keeps is allocated, before the first cycle is freed.
LEMMA CountingPointers ==
    ASSUME CollectorAssumption, CountingInv
    PROVE  CollectorPointersValid
<1>1. TypeOK /\ Ledger
    BY DEF CountingInv
<1>2. \A e \in Entries : e.obj \in allocated
    BY CountingHeap DEF CountingInv
<1>3. fresh \union mine \union roots \subseteq allocated
    BY <1>1 DEF Ledger
<1>4. taken \in Seq(Seq(Obj)) /\ cycles \in Seq(Seq(Obj))
    BY <1>1 DEF TypeOK
<1>5. ASSUME NEW cs \in Seq(Seq(Obj)), NEW c \in ToSet(cs) PROVE Members(c) \subseteq Parked(cs)
    <2>1. PICK i \in 1 .. Len(cs) : c = cs[i]
        BY ToSetIs
    <2> QED
        BY <2>1 DEF Parked
<1>6. \A c \in ToSet(taken) : Members(c) \subseteq allocated
    BY <1>1, <1>4, <1>5 DEF Ledger
<1>7. \A c \in ToSet(cycles) : Members(c) \subseteq allocated \union freedObjs
    BY <1>1, <1>4, <1>5 DEF Ledger
<1> QED
    BY <1>2, <1>3, <1>6, <1>7 DEF CollectorPointersValid

----------------------------------------------------------------------------
(* Theorems.                                                                *)

\* Counting keeps its invariant, whether programs run beside the collector or
\* not and whatever their objects may point at.
THEOREM CountingInvariant ==
    ASSUME CollectorAssumption
    PROVE  CountingSpec => []CountingInv
<1>1. Init => CountingInv
    BY CountingInit
<1>2. CountingInv /\ [CountingNext]_vars => CountingInv'
    BY CountingStep
<1> QED
    BY <1>1, <1>2, PTL DEF CountingSpec

\* As long as no cycle is freed, what the collector releases beside running
\* programs is garbage, and what it keeps is not freed.
THEOREM CountingIsSafeHolds ==
    ASSUME CollectorAssumption
    PROVE  CountingSpec => []ReleasesAreSafe
<1>1. CountingInv => ReleasesAreSafe
    BY ReachIsLive, CountingPointers DEF CountingInv, ReleasesAreSafe
<1> QED
    BY <1>1, CountingInvariant, PTL

\* The same collector implements the abstract heap beside running programs, up
\* to the first cycle that it frees.
THEOREM CountingImplementsHeap ==
    ASSUME CollectorAssumption
    PROVE  CountingSpec => ImplementsRefHeap
<1>1. Init => Abstract!Init
    BY CountingInit, HeapIsAbstract
<1>2. CountingInv /\ [CountingNext]_vars => [Abstract!Next]_Abstract!vars
    BY CountingStep, HeapIsAbstract
<1> QED
    BY <1>1, <1>2, CountingInvariant, PTL DEF CountingSpec, ImplementsRefHeap, Abstract!Spec

=============================================================================
