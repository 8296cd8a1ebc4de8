---------------------------- MODULE GcCollector ----------------------------
(***************************************************************************)
(* The collector thread of scheme-rs (src/src/gc/collection.rs), a concurrent *)
(* cycle collector after Bacon and Rajan, together with the mutators that    *)
(* change counts and fields under its feet (src/src/gc/mod.rs).              *)
(*                                                                         *)
(* Every traversal of the code keeps an explicit stack; so does the model:  *)
(* `work' is that stack, and one pop is one step, so mutators interleave     *)
(* with every visit.  `pc' is the part of Collector::epoch that is running.  *)
(* The intrusive lists are sets here: their links are left out.             *)
(***************************************************************************)
EXTENDS Integers, Sequences, FiniteSets, SequencesExt

CONSTANTS
    Obj, Slot, Null,
    Thread,       \* mutator threads, the callers of collect_garbage
    MayPoint,     \* the triples <<p, k, c>> such that field k of p may hold c
    MaxHandles,   \* bound: Gc values on the stacks of mutators, per object
    MaxLocks,     \* bound: write locks held at a time
    MinAllocs,    \* MIN_ALLOCS_TO_COLLECT
    Concurrent    \* do mutators run while an epoch is in progress?

\* What a module that instantiates this one assumes of the constants.
CollectorAssumption ==
    /\ IsFiniteSet(Obj) /\ IsFiniteSet(Slot) /\ Null \notin Obj
    /\ MayPoint \subseteq Obj \X Slot \X Obj
    /\ MaxHandles \in Nat \ {0} /\ MaxLocks \in Nat \ {0}
    /\ MinAllocs \in Nat \ {0}
    /\ Concurrent \in BOOLEAN

VARIABLES
    allocated,    \* addresses that hold an object
    rc,           \* GcHeader.shared_rc
    handles,      \* number of Gc values held on mutator stacks
    slots,        \* the Gc fields of every object
    locked,       \* objects whose RwLock a mutator holds for writing
    epochRc, crc, color, buffered,          \* the rest of GcHeader
    fresh,        \* the list HEAP.head .. HEAP.tail: allocated since the epoch began
    newAllocs, force,                       \* Heap.new_allocs, Heap.force_collection
    waiting,      \* threads blocked in collect_garbage_sync
    pc,           \* the phase of Collector::epoch
    mine,         \* the list self.head .. self.tail
    toSweep,      \* the part of it from self.next on
    roots, cycles, freedObjs,               \* the fields of Collector
    iter,         \* roots the running loop has not visited
    taken,        \* cycles the running loop has not visited
    work          \* the explicit stack of the running traversal, top first

mutVars == <<allocated, rc, handles, slots, locked>>
header == <<epochRc, crc, color, buffered>>
heapVars == <<fresh, newAllocs, force, waiting>>
loopVars == <<pc, iter, taken>>
listVars == <<mine, toSweep>>
setVars == <<roots, cycles, freedObjs>>
vars == <<mutVars, header, heapVars, loopVars, listVars, setVars, work>>

Color == {"Black", "Gray", "White", "Purple", "Red", "Orange"}
Phase == {"await", "sweep", "free", "mark", "scan", "collect", "sigma", "splice"}
Op == {"Decrement", "Free", "ScanBlack", "MarkGray", "Scan", "CollectWhite",
       "CycleKids", "CyclicDecrement", "SubKids", "Paint"}

\* An entry of the stack: what to do with object o; for a decrement, the
\* field k of o whose reference is dropped.
Do(op, o) == [op |-> op, obj |-> o, field |-> Null]
DoField(op, o, k) == [op |-> op, obj |-> o, field |-> k]
Entry == [op : Op, obj : Obj, field : Slot \union {Null}]

Empty == [k \in Slot |-> Null]

TypeOK ==
    /\ allocated \subseteq Obj /\ locked \subseteq Obj
    /\ rc \in [Obj -> Int] /\ handles \in [Obj -> Nat]
    /\ slots \in [Obj -> [Slot -> Obj \union {Null}]]
    /\ epochRc \in [Obj -> Int] /\ crc \in [Obj -> Int]
    /\ color \in [Obj -> Color] /\ buffered \in [Obj -> BOOLEAN]
    /\ fresh \subseteq Obj /\ newAllocs \in 0 .. MinAllocs
    /\ force \in BOOLEAN /\ waiting \subseteq Thread
    /\ pc \in Phase
    /\ mine \subseteq Obj /\ toSweep \subseteq mine
    /\ roots \subseteq Obj /\ freedObjs \subseteq Obj /\ iter \subseteq Obj
    /\ cycles \in Seq(Seq(Obj)) /\ taken \in Seq(Seq(Obj))
    /\ work \in Seq(Entry)

Init ==
    /\ allocated = {} /\ locked = {}
    /\ rc = [o \in Obj |-> 0] /\ handles = [o \in Obj |-> 0]
    /\ slots = [o \in Obj |-> Empty]
    /\ epochRc = [o \in Obj |-> 0] /\ crc = [o \in Obj |-> 0]
    /\ color = [o \in Obj |-> "Black"] /\ buffered = [o \in Obj |-> FALSE]
    /\ fresh = {} /\ newAllocs = 0 /\ force = FALSE /\ waiting = {}
    /\ pc = "await" /\ mine = {} /\ toSweep = {}
    /\ roots = {} /\ cycles = <<>> /\ freedObjs = {}
    /\ iter = {} /\ taken = <<>> /\ work = <<>>

----------------------------------------------------------------------------
(* Mutators.                                                                *)

ShouldCollect == newAllocs >= MinAllocs \/ force

\* Some mutator thread is not blocked; with ~Concurrent, mutators are idle
\* from the moment a collection is due until its epoch has ended.
MutatorRuns ==
    /\ waiting # Thread
    /\ Concurrent \/ (pc = "await" /\ ~ShouldCollect)

\* Handles of o that may be given up: a write guard borrows one.
Spare(o) == handles[o] - (IF o \in locked THEN 1 ELSE 0)

\* With ~Concurrent, a thread that waits for a collection holds no lock.
NoLockAcrossEpoch == Concurrent \/ locked = {}

\* Gc::new: a header from GcHeader::new, pushed on the heap list by unroot,
\* which wakes the collector when enough has been allocated.
Alloc(o) ==
    /\ MutatorRuns /\ NoLockAcrossEpoch
    /\ o \notin allocated
    /\ allocated' = allocated \union {o}
    /\ rc' = [rc EXCEPT ![o] = 1]
    /\ handles' = [handles EXCEPT ![o] = 1]
    /\ epochRc' = [epochRc EXCEPT ![o] = 1]
    /\ crc' = [crc EXCEPT ![o] = 1]
    /\ color' = [color EXCEPT ![o] = "Black"]
    /\ buffered' = [buffered EXCEPT ![o] = TRUE]
    /\ fresh' = fresh \union {o}
    /\ newAllocs' = IF newAllocs < MinAllocs THEN newAllocs + 1 ELSE newAllocs
    /\ UNCHANGED <<slots, locked, force, waiting, loopVars, listVars, setVars, work>>

Clone(o) ==
    /\ MutatorRuns
    /\ handles[o] \in 1 .. MaxHandles - 1
    /\ rc' = [rc EXCEPT ![o] = @ + 1]
    /\ handles' = [handles EXCEPT ![o] = @ + 1]
    /\ UNCHANGED <<allocated, slots, locked, header, heapVars, loopVars,
                   listVars, setVars, work>>

Drop(o) ==
    /\ MutatorRuns
    /\ Spare(o) > 0
    /\ rc' = [rc EXCEPT ![o] = @ - 1]
    /\ handles' = [handles EXCEPT ![o] = @ - 1]
    /\ UNCHANGED <<allocated, slots, locked, header, heapVars, loopVars,
                   listVars, setVars, work>>

\* Read a field under the read lock and clone what it holds.
Load(p, k) ==
    LET c == slots[p][k] IN
    /\ MutatorRuns
    /\ handles[p] > 0 /\ p \notin locked
    /\ c # Null /\ handles[c] < MaxHandles
    /\ rc' = [rc EXCEPT ![c] = @ + 1]
    /\ handles' = [handles EXCEPT ![c] = @ + 1]
    /\ UNCHANGED <<allocated, slots, locked, header, heapVars, loopVars,
                   listVars, setVars, work>>

WriteLock(p) ==
    /\ MutatorRuns
    /\ handles[p] > 0 /\ p \notin locked /\ Cardinality(locked) < MaxLocks
    /\ locked' = locked \union {p}
    /\ UNCHANGED <<allocated, rc, handles, slots, header, heapVars, loopVars,
                   listVars, setVars, work>>

\* Under the write lock, move v into a field and the old value out of it.
Swap(p, k, v) ==
    /\ MutatorRuns
    /\ p \in locked
    /\ v # Null => Spare(v) > 0 /\ <<p, k, v>> \in MayPoint
    /\ v # slots[p][k]
    /\ handles' = [o \in Obj |-> handles[o] + (IF o = slots[p][k] THEN 1 ELSE 0)
                                            - (IF o = v THEN 1 ELSE 0)]
    /\ slots' = [slots EXCEPT ![p][k] = v]
    /\ UNCHANGED <<allocated, rc, locked, header, heapVars, loopVars,
                   listVars, setVars, work>>

WriteUnlock(p) ==
    /\ MutatorRuns
    /\ p \in locked
    /\ locked' = locked \ {p}
    /\ UNCHANGED <<allocated, rc, handles, slots, header, heapVars, loopVars,
                   listVars, setVars, work>>

\* collect_garbage_sync: ask for a collection and wait for the next epoch to
\* end.  The target is one epoch ahead, so the end of any epoch is enough.
CollectGarbage(t) ==
    /\ MutatorRuns /\ NoLockAcrossEpoch
    /\ t \notin waiting
    /\ waiting' = waiting \union {t}
    /\ force' = TRUE
    /\ UNCHANGED <<mutVars, header, fresh, newAllocs, loopVars, listVars,
                   setVars, work>>

----------------------------------------------------------------------------
(* The collector: traversals.                                               *)

\* The fields of s that for_each_child visits: visit_children of a locked
\* object takes the lock with try_read and skips the object if that fails.
Visited(s) == IF s \in locked THEN {} ELSE {k \in Slot : slots[s][k] # Null}

\* Stack entries that apply op to every child of s.
KidEntries(op, s) ==
    LET ks == SetToSeq(Visited(s)) IN
    [i \in 1 .. Len(ks) |-> Do(op, slots[s][ks[i]])]

\* Stack entries that drop every field of s.
FieldEntries(op, s) ==
    LET ks == SetToSeq(Visited(s)) IN
    [i \in 1 .. Len(ks) |-> DoField(op, s, ks[i])]

\* The same operation on every member of a cycle.
MemberEntries(op, c) == [i \in 1 .. Len(c) |-> Do(op, c[i])]

\* Mutant of DropChildren: the parent is finalized before its children.
DropChildren_ParentFirst(s) == <<Do("Free", s)>> \o FieldEntries("Decrement", s)

\* drop_children: free s below the decrements of its children.
DropChildren(s) == FieldEntries("Decrement", s) \o <<Do("Free", s)>>

\* Mutant of Lowered: internal references are not taken off.
Lowered_Kept(n) == n

\* A circular count with one reference taken off, never below zero.
Lowered(n) == IF n > 0 THEN n - 1 ELSE n

\* The running traversal pops an entry of kind op about object s.
Popping(op, s) == work # <<>> /\ Head(work).op = op /\ Head(work).obj = s

Push(entries) == work' = entries \o Tail(work)

\* Mutant of LastReference: the list that c may still be on is forgotten.
LastReference_Listed(c) == rc[c] = 1

\* The reference being dropped is the last one and the sweep has seen c; an
\* object that is still buffered is left to its own sweep.
LastReference(c) == rc[c] = 1 /\ ~buffered[c]

\* Drop the reference in a field, and release its target at once if that was
\* the last one.
DropField(p, k) ==
    LET c == slots[p][k] IN
    /\ rc' = [rc EXCEPT ![c] = @ - 1]
    /\ slots' = [slots EXCEPT ![p][k] = Null]
    /\ Push(IF LastReference(c) THEN DropChildren(c) ELSE <<>>)

\* DropAction::Decrement
Decrement(s) ==
    /\ Popping("Decrement", s)
    /\ DropField(s, Head(work).field)
    /\ UNCHANGED <<allocated, handles, locked, header, heapVars, loopVars,
                   listVars, setVars>>

\* What is left to sweep once s is freed: the cursor moves on (self.next).
SweepWithout(s) == toSweep \ {s}

\* Collector::free: unlink, forget as a root, remember as freed, finalize
\* (drops no field), deallocate.
Free(s) ==
    /\ Popping("Free", s)
    /\ allocated' = allocated \ {s}
    /\ rc' = [rc EXCEPT ![s] = 0]
    /\ slots' = [slots EXCEPT ![s] = Empty]
    /\ epochRc' = [epochRc EXCEPT ![s] = 0]
    /\ crc' = [crc EXCEPT ![s] = 0]
    /\ color' = [color EXCEPT ![s] = "Black"]
    /\ mine' = mine \ {s}
    /\ toSweep' = SweepWithout(s)
    /\ roots' = roots \ {s}
    /\ freedObjs' = freedObjs \union {s}
    /\ Push(<<>>)
    /\ UNCHANGED <<handles, locked, buffered, heapVars, loopVars, cycles>>

\* scan_black
ScanBlack(s) ==
    /\ Popping("ScanBlack", s)
    /\ color' = [color EXCEPT ![s] = "Black"]
    /\ Push(IF color[s] # "Black" THEN KidEntries("ScanBlack", s) ELSE <<>>)
    /\ UNCHANGED <<mutVars, epochRc, crc, buffered, heapVars, loopVars,
                   listVars, setVars>>

\* mark_gray below its root: visit, then take one internal reference off.
\* The SetCrc entry is on top of the children, so it runs at once.
MarkGray(s) ==
    /\ Popping("MarkGray", s)
    /\ color' = [color EXCEPT ![s] = "Gray"]
    /\ crc' = [crc EXCEPT ![s] = Lowered(IF color[s] = "Gray" THEN @ ELSE epochRc[s])]
    /\ Push(IF color[s] # "Gray" THEN KidEntries("MarkGray", s) ELSE <<>>)
    /\ UNCHANGED <<mutVars, epochRc, buffered, heapVars, loopVars, listVars, setVars>>

\* scan
Scan(s) ==
    /\ Popping("Scan", s)
    /\ \/ /\ color[s] = "Gray" /\ crc[s] = 0
          /\ color' = [color EXCEPT ![s] = "White"]
          /\ Push(KidEntries("Scan", s))
       \/ /\ color[s] = "Gray" /\ crc[s] # 0
          /\ color' = color
          /\ Push(<<Do("ScanBlack", s)>>)
       \/ /\ color[s] # "Gray"
          /\ color' = color
          /\ Push(<<>>)
    /\ UNCHANGED <<mutVars, epochRc, crc, buffered, heapVars, loopVars,
                   listVars, setVars>>

\* collect_white: the cycle being gathered is the last of cycles.
CollectWhite(s) ==
    /\ Popping("CollectWhite", s)
    /\ IF color[s] = "White"
       THEN /\ color' = [color EXCEPT ![s] = "Orange"]
            /\ cycles' = [cycles EXCEPT ![Len(cycles)] = Append(@, s)]
            /\ Push(KidEntries("CollectWhite", s))
       ELSE /\ UNCHANGED <<color, cycles>>
            /\ Push(<<>>)
    /\ UNCHANGED <<mutVars, epochRc, crc, buffered, heapVars, loopVars,
                   listVars, roots, freedObjs>>

\* sigma_preparation, second loop: take off the references inside the cycle.
SubKids(s) ==
    LET inside(m) == Cardinality({k \in Visited(s) : slots[s][k] = m}) IN
    /\ Popping("SubKids", s)
    /\ crc' = [m \in Obj |->
                 IF color[m] # "Red" \/ crc[m] <= 0 THEN crc[m]
                 ELSE IF crc[m] > inside(m) THEN crc[m] - inside(m) ELSE 0]
    /\ Push(<<>>)
    /\ UNCHANGED <<mutVars, epochRc, color, buffered, heapVars, loopVars,
                   listVars, setVars>>

\* Mutant of Paint: the third loop is missing.
Paint_Skipped(s) ==
    /\ Popping("Paint", s)
    /\ Push(<<>>)
    /\ UNCHANGED <<mutVars, header, heapVars, loopVars, listVars, setVars>>

\* sigma_preparation, third loop.
Paint(s) ==
    /\ Popping("Paint", s)
    /\ color' = [color EXCEPT ![s] = "Orange"]
    /\ Push(<<>>)
    /\ UNCHANGED <<mutVars, epochRc, crc, buffered, heapVars, loopVars,
                   listVars, setVars>>

\* free_cycle, second loop: visit the fields of one member.
CycleKids(s) ==
    /\ Popping("CycleKids", s)
    /\ Push(FieldEntries("CyclicDecrement", s))
    /\ UNCHANGED <<mutVars, header, heapVars, loopVars, listVars, setVars>>

\* cyclic_decrement: members of this cycle are skipped, members of another
\* parked cycle lose a count and a crc, anything else is decremented.
CyclicDecrement(s) ==
    LET k == Head(work).field
        m == slots[s][k] IN
    /\ Popping("CyclicDecrement", s)
    /\ \/ /\ color[m] = "Red"
          /\ Push(<<>>)
          /\ UNCHANGED <<rc, slots, crc>>
       \/ /\ color[m] = "Orange"
          /\ rc' = [rc EXCEPT ![m] = @ - 1]
          /\ crc' = [crc EXCEPT ![m] = @ - 1]
          /\ slots' = [slots EXCEPT ![s][k] = Null]
          /\ Push(<<>>)
       \/ /\ color[m] \notin {"Red", "Orange"}
          /\ DropField(s, k)
          /\ crc' = crc
    /\ UNCHANGED <<allocated, handles, locked, epochRc, color, buffered,
                   heapVars, loopVars, listVars, setVars>>

Traverse ==
    \E s \in Obj :
        \/ Decrement(s) \/ Free(s) \/ ScanBlack(s) \/ MarkGray(s) \/ Scan(s)
        \/ CollectWhite(s) \/ SubKids(s) \/ Paint(s) \/ CycleKids(s)
        \/ CyclicDecrement(s)

----------------------------------------------------------------------------
(* The collector: Collector::epoch.                                         *)

\* The running loop may take its next step: its traversal is finished.
At(phase) == pc = phase /\ work = <<>>

\* await_epoch: take the whole heap list.
AwaitEpoch ==
    /\ pc = "await" /\ ShouldCollect
    /\ mine' = fresh /\ toSweep' = fresh /\ fresh' = {}
    /\ newAllocs' = 0 /\ force' = FALSE
    /\ pc' = "sweep"
    /\ UNCHANGED <<mutVars, header, waiting, iter, taken, setVars, work>>

\* One object of the sweep: release it, note an increment, or make it a root.
Sweep(o) ==
    /\ At("sweep") /\ o \in toSweep
    /\ toSweep' = toSweep \ {o}
    /\ buffered' = [buffered EXCEPT ![o] = FALSE]
    /\ \/ /\ rc[o] = 0
          /\ work' = DropChildren(o)
          /\ UNCHANGED <<epochRc, color, roots>>
       \/ /\ rc[o] # 0 /\ rc[o] > epochRc[o]
          /\ epochRc' = [epochRc EXCEPT ![o] = rc[o]]
          /\ work' = <<Do("ScanBlack", o)>>
          /\ UNCHANGED <<color, roots>>
       \/ /\ rc[o] # 0 /\ rc[o] <= epochRc[o]
          /\ epochRc' = [epochRc EXCEPT ![o] = rc[o]]
          /\ IF color[o] = "Black"
             THEN /\ color' = [color EXCEPT ![o] = "Purple"]
                  /\ roots' = roots \union {o}
             ELSE UNCHANGED <<color, roots>>
          /\ work' = <<>>
    /\ UNCHANGED <<mutVars, crc, heapVars, loopVars, mine, cycles, freedObjs>>

\* The elements of c that are in K, in their order (retain).
Kept(c, K) ==
    LET kept[i \in 0 .. Len(c)] ==
          IF i = 0 THEN <<>>
          ELSE IF c[i] \in K THEN Append(kept[i - 1], c[i]) ELSE kept[i - 1]
    IN  kept[Len(c)]

\* A parked cycle without the members freed since it was parked.
Purged(c) == Kept(c, Obj \ freedObjs)

\* The sweep is over: purge freed objects from the parked cycles, drop the
\* cycles left empty, and take them all (mem::take in free_cycles).
EndSweep ==
    /\ At("sweep") /\ toSweep = {}
    /\ taken' = Kept([i \in 1 .. Len(cycles) |-> Purged(cycles[i])], Seq(Obj) \ {<<>>})
    /\ cycles' = <<>>
    /\ pc' = "free"
    /\ UNCHANGED <<mutVars, header, heapVars, iter, listVars, roots, freedObjs, work>>

\* No member was recoloured since the cycle was parked.
DeltaTest(c) == \A i \in 1 .. Len(c) : color[c[i]] = "Orange"

\* No count is left once the references inside the cycle are taken off.
SigmaTest(c) ==
    LET sum[i \in 0 .. Len(c)] == IF i = 0 THEN 0 ELSE sum[i - 1] + crc[c[i]]
    IN  sum[Len(c)] = 0

\* Members of c, an operator to keep quantifiers readable.
Members(c) == {c[i] : i \in 1 .. Len(c)}

\* The second and third loop of free_cycle.
FreeCycleWork(c) == MemberEntries("CycleKids", c) \o MemberEntries("Free", c)

\* The last parked cycle passes both tests: free it.
FreeCycle ==
    LET c == Last(taken) IN
    /\ At("free") /\ taken # <<>>
    /\ DeltaTest(c) /\ SigmaTest(c)
    /\ taken' = Front(taken)
    /\ color' = [o \in Obj |-> IF o \in Members(c) THEN "Red" ELSE color[o]]
    /\ work' = FreeCycleWork(c)
    /\ UNCHANGED <<mutVars, epochRc, crc, buffered, heapVars, pc, iter,
                   listVars, setVars>>

\* It fails one: its first member, and any that is Purple, is a root again.
Refurbish ==
    LET c == Last(taken)
        again == {c[i] : i \in {j \in 1 .. Len(c) :
                    \/ j = 1 /\ color[c[j]] = "Orange"
                    \/ color[c[j]] = "Purple"}} IN
    /\ At("free") /\ taken # <<>>
    /\ ~(DeltaTest(c) /\ SigmaTest(c))
    /\ taken' = Front(taken)
    /\ color' = [o \in Obj |-> IF o \in again THEN "Purple"
                               ELSE IF o \in Members(c) THEN "Black" ELSE color[o]]
    /\ roots' = roots \union again
    /\ UNCHANGED <<mutVars, epochRc, crc, buffered, heapVars, pc, iter,
                   listVars, cycles, freedObjs, work>>

EndFree ==
    /\ At("free") /\ taken = <<>>
    /\ pc' = "mark" /\ iter' = roots
    /\ UNCHANGED <<mutVars, header, heapVars, taken, listVars, setVars, work>>

\* mark_roots: mark_gray from every root that is still Purple.
MarkRoot(s) ==
    /\ At("mark") /\ s \in iter
    /\ iter' = iter \ {s}
    /\ IF color[s] = "Purple"
       THEN /\ color' = [color EXCEPT ![s] = "Gray"]
            /\ crc' = [crc EXCEPT ![s] = epochRc[s]]
            /\ work' = KidEntries("MarkGray", s)
            /\ roots' = roots
       ELSE /\ roots' = roots \ {s}
            /\ UNCHANGED <<color, crc, work>>
    /\ UNCHANGED <<mutVars, epochRc, buffered, heapVars, pc, taken, listVars,
                   cycles, freedObjs>>

EndMark ==
    /\ At("mark") /\ iter = {}
    /\ pc' = "scan" /\ iter' = roots
    /\ UNCHANGED <<mutVars, header, heapVars, taken, listVars, setVars, work>>

ScanRoot(s) ==
    /\ At("scan") /\ s \in iter
    /\ iter' = iter \ {s}
    /\ work' = <<Do("Scan", s)>>
    /\ UNCHANGED <<mutVars, header, heapVars, pc, taken, listVars, setVars>>

EndScan ==
    /\ At("scan") /\ iter = {}
    /\ pc' = "collect" /\ iter' = roots
    /\ UNCHANGED <<mutVars, header, heapVars, taken, listVars, setVars, work>>

\* collect_roots: drain the roots, gathering a cycle from each White one.
CollectRoot(s) ==
    /\ At("collect") /\ s \in iter
    /\ iter' = iter \ {s}
    /\ roots' = roots \ {s}
    /\ IF color[s] = "White"
       THEN /\ cycles' = Append(cycles, <<>>)
            /\ work' = <<Do("CollectWhite", s)>>
       ELSE UNCHANGED <<cycles, work>>
    /\ UNCHANGED <<mutVars, header, heapVars, pc, taken, listVars, freedObjs>>

EndCollect ==
    /\ At("collect") /\ iter = {}
    /\ pc' = "sigma" /\ taken' = cycles
    /\ UNCHANGED <<mutVars, header, heapVars, iter, listVars, setVars, work>>

\* sigma_preparation of one cycle: first loop at once, then the other two.
SigmaCycle ==
    LET c == Head(taken) IN
    /\ At("sigma") /\ taken # <<>>
    /\ taken' = Tail(taken)
    /\ color' = [o \in Obj |-> IF o \in Members(c) THEN "Red" ELSE color[o]]
    /\ crc' = [o \in Obj |-> IF o \in Members(c) THEN epochRc[o] ELSE crc[o]]
    /\ work' = MemberEntries("SubKids", c) \o MemberEntries("Paint", c)
    /\ UNCHANGED <<mutVars, epochRc, buffered, heapVars, pc, iter, listVars, setVars>>

\* freed_objs is cleared before the heap lock is taken again.
EndSigma ==
    /\ At("sigma") /\ taken = <<>>
    /\ pc' = "splice" /\ freedObjs' = {}
    /\ UNCHANGED <<mutVars, header, heapVars, iter, taken, listVars, roots,
                   cycles, work>>

\* Mutant of Splice: a request made during the epoch counts as answered.
Splice_Unforced ==
    /\ At("splice")
    /\ fresh' = fresh \union mine
    /\ mine' = {} /\ toSweep' = {}
    /\ waiting' = {} /\ force' = FALSE
    /\ pc' = "await"
    /\ UNCHANGED <<mutVars, header, newAllocs, iter, taken, setVars, work>>

\* Give the survivors back to the heap list, end the epoch, wake the callers.
Splice ==
    /\ At("splice")
    /\ fresh' = fresh \union mine
    /\ mine' = {} /\ toSweep' = {}
    /\ waiting' = {}
    /\ pc' = "await"
    /\ UNCHANGED <<mutVars, header, newAllocs, force, iter, taken, setVars, work>>

Collector ==
    \/ AwaitEpoch \/ EndSweep \/ FreeCycle \/ Refurbish \/ EndFree
    \/ EndMark \/ EndScan \/ EndCollect \/ SigmaCycle \/ EndSigma \/ Splice
    \/ \E s \in Obj : Sweep(s) \/ MarkRoot(s) \/ ScanRoot(s) \/ CollectRoot(s)
    \/ Traverse

Mutator ==
    \/ \E o \in Obj : Alloc(o) \/ Clone(o) \/ Drop(o) \/ WriteLock(o) \/ WriteUnlock(o)
    \/ \E p \in Obj, k \in Slot : Load(p, k) \/ \E v \in Obj \union {Null} : Swap(p, k, v)
    \/ \E t \in Thread : CollectGarbage(t)

Next == Mutator \/ Collector

Spec == Init /\ [][Next]_vars

\* Behaviours up to the first cycle that the collector frees: counting alone
\* finds garbage.
CountingNext == Next /\ ~FreeCycle
CountingSpec == Init /\ [][CountingNext]_vars

\* The collector thread is always scheduled again; nothing is assumed of
\* programs.
Fairness == WF_vars(Collector)
FairSpec == Spec /\ Fairness

----------------------------------------------------------------------------
\* A value of MayPoint: any object may point to any other.
AnyToAny == Obj \X Slot \X Obj

----------------------------------------------------------------------------
(* Refinement.                                                              *)

Entries == ToSet(work)

\* Condemned objects are those the collector is committed to free.
Condemned == {e.obj : e \in {f \in Entries : f.op = "Free"}}

\* The field k of a condemned object p still has to give up its reference.
Pending(p, k) ==
    \/ DoField("Decrement", p, k) \in Entries
    \/ /\ {Do("CycleKids", p), DoField("CyclicDecrement", p, k)} \cap Entries # {}
       /\ slots[p][k] # Null
       /\ color[slots[p][k]] # "Red"

StatusBar ==
    [o \in Obj |-> IF o \notin allocated THEN "free"
                   ELSE IF o \in Condemned THEN "dying" ELSE "live"]

SlotsBar ==
    [p \in Obj |-> [k \in Slot |->
        IF p \in Condemned /\ ~Pending(p, k) THEN Null ELSE slots[p][k]]]

Abstract == INSTANCE RefHeap WITH status <- StatusBar, slots <- SlotsBar

\* The collector implements the abstract heap: every object it condemns is
\* garbage at that moment, it drops each field of a condemned object exactly
\* once, and it deallocates an object only after all of them (drop_children,
\* free_cycle and free of collection.rs).
ImplementsRefHeap == Abstract!Spec

----------------------------------------------------------------------------
(* Safety.                                                                  *)

\* S and what the fields of its objects hold.
WithFields(S) == S \union ({slots[p][k] : p \in S, k \in Slot} \ {Null})

\* Objects a program can get at: held by a handle, or by a field of such.
Reach ==
    LET step[n \in 0 .. Cardinality(Obj)] ==
          IF n = 0 THEN {o \in Obj : handles[o] > 0} ELSE WithFields(step[n - 1])
    IN  step[Cardinality(Obj)]

\* What Collector::free deallocates is garbage: no program can get at it.
FreedIsGarbage == Reach \subseteq allocated

\* The collector never follows a pointer to deallocated memory: its stack,
\* the two heap lists, its roots and the cycles it is freeing name allocated objects, and a cycle
\* parked for the next epoch names a freed one only if freed_objs will purge it.
CollectorPointersValid ==
    /\ \A e \in Entries : e.obj \in allocated
    /\ fresh \union mine \union roots \subseteq allocated
    /\ pc # "sigma" => \A c \in ToSet(taken) : Members(c) \subseteq allocated
    /\ \A c \in ToSet(cycles) : Members(c) \subseteq allocated \union freedObjs

\* No object is freed too early: neither a program nor the collector itself
\* can come across deallocated memory.
ReleasesAreSafe == FreedIsGarbage /\ CollectorPointersValid

\* Between epochs every object can become a candidate again: it is Black, or
\* Orange and parked in exactly one cycle.  A Gray, White, Purple or Red
\* object would be skipped by every later sweep (its test is for Black).
NoneStranded ==
    pc = "await" =>
        \A o \in allocated :
            LET parked == {i \in 1 .. Len(cycles) : o \in Members(cycles[i])} IN
            \/ color[o] = "Black" /\ parked = {}
            \/ color[o] = "Orange" /\ Cardinality(parked) = 1

----------------------------------------------------------------------------
(* Liveness.                                                                *)

\* Every call of collect_garbage returns, and an epoch begins after it, also when another one is
\* under way at the call (await_epoch, collect_garbage_sync).
CollectReturns ==
    /\ \A t \in Thread : t \in waiting ~> t \notin waiting
    /\ force ~> pc = "sweep" /\ ~force

\* If epochs keep being run, no object stays allocated for ever after programs
\* lose it, whatever cycles it is part of.
GarbageIsFreed ==
    []<>(pc = "splice") =>
        \A o \in Obj : (o \in allocated /\ o \notin Reach) ~> o \notin allocated
=============================================================================
