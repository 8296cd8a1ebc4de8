------------------------- MODULE GcCollector_proofs -------------------------
(***************************************************************************)
(* When programs pause during epochs, the collector implements the abstract *)
(* heap, for any objects, fields, threads and bounds: what it frees is      *)
(* garbage, no count is lost, no object is stranded and no pointer it       *)
(* follows is stale.  Programs that run during an epoch can break this: see  *)
(* the run gc_lost_reference.                                               *)
(*                                                                         *)
(* The invariant says what is true in every phase of an epoch.  What is     *)
(* parked between epochs is closed: nothing outside refers to it, so no     *)
(* program can get at it (Resting).  Marking counts the references that do   *)
(* not come from Gray objects, scanning spreads what is alive, so White      *)
(* objects are closed when the scan ends (Spreading), and each cycle is      *)
(* gathered whole, no cycle referring to a later one (Ordered).  Circular    *)
(* counts cover the references from outside their cycle (Covers), so a sum   *)
(* of 0 means that there are none, and freeing goes from the last cycle to   *)
(* the first.  A release gives up every field of an object before it frees   *)
(* the object (Nested, Due).                                                *)
(***************************************************************************)
EXTENDS GcCollector, FiniteSetTheorems, SequenceTheorems, WellFoundedInduction, TLAPS

\* The heap that the collector implements, and what is proved of it.
H == INSTANCE RefHeap_proofs WITH status <- StatusBar, slots <- SlotsBar

----------------------------------------------------------------------------
(* The invariant.                                                           *)

\* What the fields of s hold in heap h.
Kids(h, s) == {h[s][k] : k \in Slot} \ {Null}
Coloured(cs) == {o \in Obj : color[o] \in cs}
Doing(op) == {o \in Obj : Do(op, o) \in Entries}
Plain(ops) == Entries \subseteq {Do(op, o) : op \in ops, o \in allocated}

\* Programs hold what they lock, and nothing is locked once a collection is due.
Quiet ==
    /\ \A p \in locked : handles[p] > 0
    /\ pc # "await" \/ ShouldCollect => locked = {}

\* Where objects are listed, and what is empty outside its phase.
Lists ==
    /\ IF pc = "await" THEN mine = {} /\ fresh = allocated ELSE fresh = {} /\ mine = allocated
    /\ pc # "sweep" => toSweep = {}
    /\ roots \subseteq allocated /\ iter \subseteq roots
    /\ pc \in {"await", "sigma", "splice"} => roots = {}
    /\ pc \notin {"mark", "scan", "collect"} => iter = {}
    /\ freedObjs \intersect allocated = {}
    /\ pc \in {"await", "splice"} => freedObjs = {} /\ work = <<>>
    /\ pc \notin {"free", "sigma"} => taken = <<>>
    /\ pc \in {"free", "mark", "scan"} => cycles = <<>>
    /\ \A o \in Obj \ allocated : color[o] = "Black"

\* No count grows behind the back of the collector.
Counted ==
    pc # "await" => \A o \in allocated \ toSweep : o \notin Condemned => rc[o] <= epochRc[o]

\* An entry of a release.
Due(e) ==
    \/ \E p \in allocated : e = Do("Free", p)
    \/ \E p \in Obj : color[p] = "Red" /\ e = Do("CycleKids", p)
    \/ \E p \in Obj, k \in Slot :
          slots[p][k] # Null /\ color[p] # "Red" /\ e = DoField("Decrement", p, k)
    \/ \E p \in Obj, k \in Slot :
          slots[p][k] # Null /\ color[p] = "Red" /\ e = DoField("CyclicDecrement", p, k)

\* No entry occurs twice, and an object is freed below everything else about it.
Nested(w) ==
    /\ \A i, j \in 1 .. Len(w) : w[i] = w[j] => i = j
    /\ \A i \in 1 .. Len(w) : w[i].op # "Free" =>
          \E j \in i + 1 .. Len(w) : w[j] = Do("Free", w[i].obj)

\* The members of a cycle are freed when all their fields have been visited.
RedLast(w, col) ==
    \A i, j \in 1 .. Len(w) :
        i < j /\ w[i].op = "Free" /\ w[j].op \in {"CycleKids", "CyclicDecrement"}
            => col[w[i].obj] # "Red"

\* What a release has still to do.
Releasing ==
    /\ \A e \in Entries : Due(e)
    /\ Nested(work)
    /\ RedLast(work, color)
    /\ \A p \in Obj, k \in Slot :
          Do("CycleKids", p) \in Entries => DoField("CyclicDecrement", p, k) \notin Entries
    /\ \A p \in Condemned, k \in Slot :
          color[p] # "Red" /\ slots[p][k] # Null => DoField("Decrement", p, k) \in Entries
    /\ Coloured({"Red"}) \subseteq Condemned

\* Nothing outside W refers to W.
Closed(W) ==
    \A o \in W : handles[o] = 0 /\ \A p \in Obj, k \in Slot : slots[p][k] = o => p \in W

Parked(cs) == UNION {Members(cs[i]) : i \in 1 .. Len(cs)}

\* No object is in two cycles, or twice in one.
Simple(cs) ==
    \A i, j \in 1 .. Len(cs) : \A a \in 1 .. Len(cs[i]), b \in 1 .. Len(cs[j]) :
        cs[i][a] = cs[j][b] => i = j /\ a = b

\* A cycle refers to no member of W gathered after it.
Ordered(cs, W) ==
    \A i \in 1 .. Len(cs) : \A p \in Members(cs[i]), k \in Slot :
        slots[p][k] \in W => \E j \in 1 .. i : slots[p][k] \in Members(cs[j])

\* The references to m from S in heap h.
From(h, S, m) == {e \in Obj \X Slot : h[e[1]][e[2]] = m /\ e[1] \in S}

\* The circular counts of c cover the references from outside it.
Covers(c) == \A m \in Members(c) : Cardinality(From(slots, Obj \ Members(c), m)) <= crc[m]

\* Cycles gathered, to be freed by the next epoch.
Resting ==
    /\ Simple(cycles)
    /\ Closed(Parked(cycles))
    /\ Ordered(cycles, Parked(cycles))
    /\ \A i \in 1 .. Len(cycles) : Covers(cycles[i])
    /\ Parked(cycles) \subseteq allocated \union freedObjs
    /\ \A o \in Parked(cycles) \intersect allocated :
          color[o] = "Orange" /\ (o \notin Condemned => rc[o] <= epochRc[o])
    /\ Coloured({"Orange"}) \subseteq Parked(cycles)

AtRest == Resting /\ Coloured({"Black", "Orange"}) = Obj

Sweeping ==
    /\ Resting
    /\ Coloured({"Black", "Orange", "Purple"}) = Obj
    /\ Coloured({"Purple"}) \subseteq roots
    /\ \/ Plain({"ScanBlack"}) /\ Doing("ScanBlack") \intersect Parked(cycles) = {}
       \/ Releasing

\* W is garbage when an epoch begins to free cycles.
Lost(W) ==
    /\ Closed(W) /\ Ordered(taken, W)
    /\ Coloured({"Orange", "Red"}) \subseteq W
    /\ \A o \in Coloured({"Red"}) : Kids(slots, o) \intersect W \subseteq Coloured({"Orange", "Red"})
    /\ Condemned \intersect W \subseteq Coloured({"Red"})

Freeing ==
    /\ Coloured({"Black", "Orange", "Purple", "Red"}) = Obj
    /\ Coloured({"Purple"}) \subseteq roots
    /\ Coloured({"Orange"}) = Parked(taken)
    /\ Simple(taken)
    /\ \A i \in 1 .. Len(taken) : Covers(taken[i])
    /\ Releasing
    /\ \E W \in SUBSET Obj : Lost(W)

\* The entries of w about g.
Visits(w, g) == Cardinality({i \in 1 .. Len(w) : w[i].obj = g})

\* S is reached from T along references inside S.
Reached(h, S, T) ==
    \A U \in SUBSET Obj :
        T \subseteq U /\ (\A s \in S \intersect U : Kids(h, s) \intersect S \subseteq U) => S \subseteq U

Marking ==
    /\ Coloured({"Black", "Purple", "Gray"}) = Obj
    /\ Coloured({"Purple"}) \subseteq iter
    /\ Plain({"MarkGray"})
    /\ \A g \in Coloured({"Gray"}) :
          handles[g] + Cardinality(From(slots, Obj \ Coloured({"Gray"}), g)) + Visits(work, g) <= crc[g]
    /\ \A g \in Obj \ Coloured({"Gray"}) : Visits(work, g) <= Cardinality(From(slots, Coloured({"Gray"}), g))
    /\ Reached(slots, Coloured({"Gray"}), roots \ iter)

\* G has been marked: the counts of what is left of it cover the references
\* from outside G, and what has been found alive is being spread.
Spreading(G) ==
    /\ Coloured({"Gray", "White"}) \subseteq G
    /\ \A g \in Coloured({"Gray", "White"}) :
          /\ handles[g] + Cardinality(From(slots, Obj \ G, g)) <= crc[g]
          /\ \A p \in G \intersect Coloured({"Black"}) : g \in Kids(slots, p) => g \in Doing("ScanBlack")

Scanning ==
    /\ Coloured({"Black", "Gray", "White"}) = Obj
    /\ Plain({"Scan", "ScanBlack"})
    /\ \A w \in Coloured({"White"}) : crc[w] = 0
    /\ Reached(slots, Coloured({"Gray"}), iter \union Doing("Scan") \union Doing("ScanBlack"))
    /\ Reached(slots, Coloured({"Gray", "White"}), roots \union Doing("ScanBlack"))
    /\ \E G \in SUBSET Obj : Spreading(G)

Collecting ==
    /\ roots = iter
    /\ Coloured({"Black", "White", "Orange"}) = Obj
    /\ Plain({"CollectWhite"})
    /\ Simple(cycles)
    /\ Parked(cycles) = Coloured({"Orange"})
    /\ Closed(Coloured({"White", "Orange"}))
    /\ Ordered(cycles, Coloured({"Orange"}))
    /\ \A p \in Coloured({"Orange"}) : \A w \in Kids(slots, p) \intersect Coloured({"White"}) :
          p \in Members(Last(cycles)) /\ w \in Doing("CollectWhite")
    /\ work # <<>> => cycles # <<>>
    /\ Reached(slots, Coloured({"White"}), iter \union Doing("CollectWhite"))

\* The internal references of c are being taken off its circular counts.
Balancing(c) ==
    /\ Plain({"SubKids", "Paint"})
    /\ \A e \in Entries : e.obj \in Members(c)
    /\ \A i, j \in 1 .. Len(work) : work[i] = work[j] => i = j
    /\ \A i, j \in 1 .. Len(work) : i < j /\ work[i].op = "Paint" => work[j].op = "Paint"
    /\ Coloured({"Red"}) \subseteq Doing("Paint")
    /\ Doing("SubKids") # {} => Members(c) \subseteq Coloured({"Red"})
    /\ \A m \in Members(c) :
          Cardinality(From(slots, (Obj \ Members(c)) \union Doing("SubKids"), m)) <= crc[m]

Preparing ==
    /\ Simple(cycles)
    /\ Closed(Parked(cycles))
    /\ Ordered(cycles, Parked(cycles))
    /\ Coloured({"Black", "Orange", "Red"}) = Obj
    /\ Parked(cycles) = Coloured({"Orange", "Red"})
    /\ \E n \in 0 .. Len(cycles) :
        /\ taken = SubSeq(cycles, n + 1, Len(cycles))
        /\ \A i \in 1 .. n : Covers(cycles[i]) \/ (i = n /\ work # <<>>)
        /\ work = <<>> => Coloured({"Red"}) = {}
        /\ work # <<>> => n > 0 /\ Balancing(cycles[n])

IInv ==
    /\ TypeOK /\ H!Inv /\ Quiet /\ Lists /\ Counted
    /\ pc \in {"await", "splice"} => AtRest
    /\ pc = "sweep" => Sweeping
    /\ pc = "free" => Freeing
    /\ pc = "mark" => Marking
    /\ pc = "scan" => Scanning
    /\ pc = "collect" => Collecting
    /\ pc = "sigma" => Preparing

----------------------------------------------------------------------------
(* Sequences.                                                               *)

\* A set of numbers that is not empty has a least element.
LEMMA MinOf ==
    ASSUME NEW S, S \subseteq Nat, S # {}
    PROVE  \E x \in S : \A y \in S : x <= y
<1>1. PICK x \in S : \A y \in S : ~ (<<y, x>> \in OpToRel(<, Nat))
    BY NatLessThanWellFounded, WFMin, Zenon
<1>2. \A y \in S : ~(y < x)
    BY <1>1 DEF OpToRel
<1> QED
    BY <1>2

\* A finite set is listed once.
LEMMA SetToSeqIs ==
    ASSUME NEW S, IsFiniteSet(S)
    PROVE  \E q \in Seq(S) : /\ q = SetToSeq(S)
                             /\ \A i, j \in 1 .. Len(q) : q[i] = q[j] => i = j
                             /\ \A x \in S : \E i \in 1 .. Len(q) : q[i] = x
<1>1. Cardinality(S) \in Nat /\ ExistsBijection(1 .. Cardinality(S), S)
    BY FS_CardinalityType
<1>2. PICK n \in Nat : n = Cardinality(S)
    BY <1>1
<1>3. \E f \in [1 .. n -> S] : IsInjective(f)
    BY <1>1, <1>2 DEF ExistsBijection, Bijection, Injection
<1>4. PICK q : q = SetToSeq(S)
    OBVIOUS
<1>5. q \in [1 .. n -> S] /\ IsInjective(q)
    BY <1>2, <1>3, <1>4 DEF SetToSeq
<1>6. q \in Seq(S) /\ Len(q) = n
    BY <1>5
<1>7. \A i, j \in 1 .. Len(q) : q[i] = q[j] => i = j
    BY <1>5, <1>6 DEF IsInjective
<1>8. q \in Surjection(1 .. n, S)
    <2>1. q \in Injection(1 .. n, S)
        BY <1>5 DEF Injection
    <2>2. IsFiniteSet(1 .. n) /\ Cardinality(1 .. n) = n
        BY FS_Interval
    <2> QED
        BY <2>1, <2>2, <1>2, FS_Injection
<1>9. \A x \in S : \E i \in 1 .. Len(q) : q[i] = x
    BY <1>6, <1>8 DEF Surjection
<1> QED
    BY <1>4, <1>6, <1>7, <1>9

\* x is what is left of stack w when es is put in the place of its top.
IsPush(x, es, w) ==
    /\ Len(x) = Len(es) + Len(w) - 1
    /\ \A i \in 1 .. Len(es) : i \in 1 .. Len(x) /\ x[i] = es[i]
    /\ \A i \in 2 .. Len(w) : Len(es) + i - 1 \in 1 .. Len(x) /\ x[Len(es) + i - 1] = w[i]

\* What the stack is after the entry on top is replaced by others.
LEMMA PushIs ==
    ASSUME NEW S, NEW es \in Seq(S), NEW w \in Seq(S), w # <<>>, NEW x, x = es \o Tail(w)
    PROVE  x \in Seq(S) /\ IsPush(x, es, w)
<1>1. PICK t \in Seq(S) : t = Tail(w)
    BY HeadTailProperties
<1>2. Len(t) = Len(w) - 1 /\ \A i \in 1 .. Len(t) : t[i] = w[i + 1]
    BY <1>1, HeadTailProperties
<1>3. x = es \o t
    BY <1>1, Zenon
<1>4. x \in Seq(S)
    BY <1>1, <1>3, ConcatProperties
<1>5. Len(x) = Len(es) + Len(t)
    BY <1>1, <1>3, ConcatProperties
<1>6. \A i \in 1 .. Len(es) + Len(t) : x[i] = IF i <= Len(es) THEN es[i] ELSE t[i - Len(es)]
    BY <1>1, <1>3, ConcatProperties
<1>7. Len(es) \in Nat /\ Len(t) \in Nat /\ Len(w) \in Nat
    BY <1>1, LenProperties
<1>8. ASSUME NEW i \in 1 .. Len(es) PROVE i \in 1 .. Len(x) /\ x[i] = es[i]
    BY <1>5, <1>6, <1>7
<1>9. ASSUME NEW i \in 2 .. Len(w)
      PROVE  Len(es) + i - 1 \in 1 .. Len(x) /\ x[Len(es) + i - 1] = w[i]
    <2>1. i - 1 \in 1 .. Len(t) /\ Len(es) + i - 1 \in 1 .. Len(es) + Len(t)
        BY <1>2, <1>7
    <2>2. ~(Len(es) + i - 1 <= Len(es)) /\ Len(es) + i - 1 - Len(es) = i - 1
        BY <1>7
    <2>3. x[Len(es) + i - 1] = t[i - 1]
        <3>1. PICK j \in 1 .. Len(es) + Len(t) : j = Len(es) + i - 1
            BY <2>1
        <3>2. x[j] = t[j - Len(es)]
            BY <1>6, <1>7, <2>2, <3>1
        <3>3. j - Len(es) = i - 1
            BY <2>2, <3>1
        <3>4. x[j] = t[i - 1]
            BY <3>2, <3>3, Zenon
        <3> QED
            BY <3>1, <3>4, Zenon
    <2>4. t[i - 1] = w[i - 1 + 1] /\ i - 1 + 1 = i
        BY <1>2, <2>1
    <2> QED
        BY <1>5, <2>1, <2>3, <2>4
<1>10. Len(x) = Len(es) + Len(w) - 1
    BY <1>2, <1>5, <1>7
<1> QED
    BY <1>4, <1>8, <1>9, <1>10, Zenon DEF IsPush

\* A position of the new stack is a new entry or an old one further down.
LEMMA PushAt ==
    ASSUME NEW S, NEW es \in Seq(S), NEW w \in Seq(S), NEW x, IsPush(x, es, w),
           NEW i \in 1 .. Len(x)
    PROVE  \/ i \in 1 .. Len(es) /\ x[i] = es[i]
           \/ \E j \in 2 .. Len(w) : i = Len(es) + j - 1 /\ x[i] = w[j]
<1>1. /\ Len(x) = Len(es) + Len(w) - 1
      /\ \A a \in 1 .. Len(es) : a \in 1 .. Len(x) /\ x[a] = es[a]
      /\ \A a \in 2 .. Len(w) : Len(es) + a - 1 \in 1 .. Len(x) /\ x[Len(es) + a - 1] = w[a]
    BY DEF IsPush
<1>2. Len(es) \in Nat /\ Len(w) \in Nat
    BY LenProperties
<1>5. Len(x) \in Int
    BY <1>1, <1>2
<1>6. i \in Int
    BY <1>5
<1>3. CASE i <= Len(es)
    BY <1>1, <1>2, <1>3
<1>4. CASE ~(i <= Len(es))
    <2>0. i - Len(es) + 1 \in Int
        BY <1>2, <1>6
    <2>1. PICK j \in Int : j = i - Len(es) + 1
        BY <2>0, Zenon
    <2>2. j \in 2 .. Len(w) /\ i = Len(es) + j - 1
        BY <1>1, <1>2, <1>4, <2>1
    <2>3. x[Len(es) + j - 1] = w[j]
        BY <1>1, <2>2
    <2> QED
        BY <2>2, <2>3
<1> QED
    BY <1>3, <1>4

\* The elements of a sequence are what it holds at its indices.
LEMMA ToSetIs ==
    ASSUME NEW S, NEW w \in Seq(S)
    PROVE  ToSet(w) = {w[i] : i \in 1 .. Len(w)}
BY LenProperties DEF ToSet

\* The head of a sequence is its first element.
LEMMA HeadIn ==
    ASSUME NEW S, NEW w \in Seq(S), w # <<>>
    PROVE  /\ 1 \in 1 .. Len(w)
           /\ Head(w) = w[1]
           /\ Head(w) \in ToSet(w)
<1>1. Len(w) \in Nat \ {0}
    BY EmptySeq
<1>2. Head(w) = w[1]
    BY <1>1
<1>3. 1 \in 1 .. Len(w)
    BY <1>1
<1>4. Head(w) \in ToSet(w)
    BY <1>2, <1>3, ToSetIs
<1> QED
    BY <1>2, <1>3, <1>4

\* The elements of a sequence over S are in S.
LEMMA ToSetIn ==
    ASSUME NEW S, NEW w \in Seq(S)
    PROVE  ToSet(w) \subseteq S
BY ToSetIs, ElementOfSeq

\* A sequence is empty when it has no elements.
LEMMA ToSetEmpty ==
    ASSUME NEW S, NEW w \in Seq(S)
    PROVE  w = <<>> <=> ToSet(w) = {}
<1>1. ASSUME w = <<>> PROVE ToSet(w) = {}
    <2>1. 1 .. Len(w) = {}
        BY <1>1
    <2> QED
        BY <2>1, ToSetIs
<1> QED
    BY <1>1, HeadIn

\* The same, as sets.
LEMMA PushSet ==
    ASSUME NEW S, NEW es \in Seq(S), NEW w \in Seq(S), w # <<>>, NEW x \in Seq(S), IsPush(x, es, w)
    PROVE  /\ ToSet(x) \subseteq ToSet(es) \union ToSet(w)
           /\ ToSet(es) \subseteq ToSet(x)
           /\ \A e \in ToSet(w) : e # Head(w) => e \in ToSet(x)
<1>3. ToSet(x) = {x[i] : i \in 1 .. Len(x)}
    BY ToSetIs
<1>4. ToSet(es) = {es[i] : i \in 1 .. Len(es)}
    BY ToSetIs
<1>5. ToSet(w) = {w[i] : i \in 1 .. Len(w)}
    BY ToSetIs
<1>6. Head(w) = w[1]
    BY HeadIn
<1>7. ToSet(x) \subseteq ToSet(es) \union ToSet(w)
    <2>1. SUFFICES ASSUME NEW i \in 1 .. Len(x) PROVE x[i] \in ToSet(es) \union ToSet(w)
        BY <1>3
    <2>2. CASE i \in 1 .. Len(es) /\ x[i] = es[i]
        BY <1>4, <2>2
    <2>3. CASE \E j \in 2 .. Len(w) : i = Len(es) + j - 1 /\ x[i] = w[j]
        <3>1. PICK j \in 2 .. Len(w) : x[i] = w[j]
            BY <2>3
        <3>2. j \in 1 .. Len(w)
            BY LenProperties
        <3> QED
            BY <1>5, <3>1, <3>2
    <2> QED
        BY <2>2, <2>3, PushAt
<1>8. ToSet(es) \subseteq ToSet(x)
    BY <1>3, <1>4 DEF IsPush
<1>9. ASSUME NEW e \in ToSet(w), e # Head(w) PROVE e \in ToSet(x)
    <2>1. PICK i \in 1 .. Len(w) : e = w[i]
        BY <1>5
    <2>2. i \in 2 .. Len(w)
        BY <1>6, <1>9, <2>1, LenProperties
    <2>3. Len(es) + i - 1 \in 1 .. Len(x) /\ x[Len(es) + i - 1] = w[i]
        BY <2>2 DEF IsPush
    <2> QED
        BY <1>3, <2>1, <2>3
<1> QED
    BY <1>7, <1>8, <1>9

\* If no entry occurs twice, the top one is gone when it is popped.
LEMMA PopGone ==
    ASSUME NEW S, NEW es \in Seq(S), NEW w \in Seq(S), w # <<>>,
           NEW x \in Seq(S), IsPush(x, es, w),
           \A i, j \in 1 .. Len(w) : w[i] = w[j] => i = j
    PROVE  ToSet(x) = ToSet(es) \union (ToSet(w) \ {Head(w)})
<1>3. ToSet(x) = {x[i] : i \in 1 .. Len(x)}
    BY ToSetIs
<1>4. ToSet(es) = {es[i] : i \in 1 .. Len(es)}
    BY ToSetIs
<1>5. ToSet(w) = {w[i] : i \in 1 .. Len(w)}
    BY ToSetIs
<1>6. Head(w) = w[1] /\ 1 \in 1 .. Len(w)
    BY HeadIn
<1>7. ASSUME NEW i \in 1 .. Len(x)
      PROVE  x[i] \in ToSet(es) \union (ToSet(w) \ {Head(w)})
    <2>1. CASE i \in 1 .. Len(es) /\ x[i] = es[i]
        BY <1>4, <2>1
    <2>2. CASE \E j \in 2 .. Len(w) : i = Len(es) + j - 1 /\ x[i] = w[j]
        <3>1. PICK j \in 2 .. Len(w) : x[i] = w[j]
            BY <2>2
        <3>2. j \in 1 .. Len(w) /\ j # 1
            BY LenProperties
        <3>3. w[j] # w[1]
            BY <1>6, <3>2
        <3> QED
            BY <1>5, <1>6, <3>1, <3>2, <3>3
    <2> QED
        BY <2>1, <2>2, PushAt
<1>8. ToSet(es) \union (ToSet(w) \ {Head(w)}) \subseteq ToSet(x)
    BY PushSet
<1> QED
    BY <1>3, <1>7, <1>8

\* The same of the stack of the collector.
LEMMA EntriesGone ==
    ASSUME NEW es, es \in Seq(Entry), work \in Seq(Entry), work # <<>>,
           work' \in Seq(Entry), IsPush(work', es, work),
           \A i, j \in 1 .. Len(work) : work[i] = work[j] => i = j
    PROVE  ToSet(work') = ToSet(es) \union (ToSet(work) \ {Head(work)})
<1>2. PICK w, x : w = work /\ x = work'
    OBVIOUS
<1>3. /\ w \in Seq(Entry) /\ w # <<>> /\ x \in Seq(Entry) /\ es \in Seq(Entry) /\ IsPush(x, es, w)
      /\ \A i, j \in 1 .. Len(w) : w[i] = w[j] => i = j
    BY ONLY <1>2, es \in Seq(Entry), work \in Seq(Entry), work # <<>>, work' \in Seq(Entry), IsPush(work', es, work),
            \A i, j \in 1 .. Len(work) : work[i] = work[j] => i = j, Zenon
<1>4. ToSet(x) = ToSet(es) \union (ToSet(w) \ {Head(w)})
    BY ONLY <1>3, PopGone
<1> QED
    BY ONLY <1>2, <1>4, Zenon

----------------------------------------------------------------------------
(* Counting.                                                                *)

\* Two sets of the same size.
LEMMA SameSize ==
    ASSUME NEW A, NEW B, IsFiniteSet(A), NEW f \in [A -> B],
           \A x, y \in A : f[x] = f[y] => x = y,
           \A y \in B : \E x \in A : f[x] = y
    PROVE  IsFiniteSet(B) /\ Cardinality(B) = Cardinality(A)
<1>1. f \in Bijection(A, B)
    BY DEF Bijection, Injection, Surjection, IsInjective
<1>2. ExistsBijection(A, B)
    BY <1>1 DEF ExistsBijection
<1> QED
    BY <1>2, FS_Bijection

\* Sizes of disjoint sets add up.
LEMMA DisjointSize ==
    ASSUME NEW A, NEW B, IsFiniteSet(A), IsFiniteSet(B), A \intersect B = {}
    PROVE  /\ IsFiniteSet(A \union B)
           /\ Cardinality(A) \in Nat
           /\ Cardinality(B) \in Nat
           /\ Cardinality(A \union B) = Cardinality(A) + Cardinality(B)
<1>1. Cardinality(A) \in Nat /\ Cardinality(B) \in Nat
    BY FS_CardinalityType
<1>2. /\ IsFiniteSet(A \union B)
      /\ Cardinality(A \union B) = Cardinality(A) + Cardinality(B) - Cardinality(A \intersect B)
    BY FS_Union
<1>3. Cardinality(A \intersect B) = 0
    BY FS_EmptySet
<1> QED
    BY <1>1, <1>2, <1>3

\* One element more.
LEMMA OneMore ==
    ASSUME NEW A, NEW x, IsFiniteSet(A), x \notin A
    PROVE  /\ IsFiniteSet(A \union {x})
           /\ Cardinality(A) \in Nat
           /\ Cardinality(A \union {x}) = Cardinality(A) + 1
<1>1. IsFiniteSet({x}) /\ Cardinality({x}) = 1
    BY FS_Singleton
<1>2. A \intersect {x} = {}
    OBVIOUS
<1> QED
    BY <1>1, <1>2, DisjointSize

\* The references to an object are finitely many, and none if their number is 0.
LEMMA FromIs ==
    ASSUME CollectorAssumption, NEW h, NEW S, NEW m
    PROVE  /\ IsFiniteSet(From(h, S, m))
           /\ Cardinality(From(h, S, m)) \in Nat
           /\ Cardinality(From(h, S, m)) = 0 <=> From(h, S, m) = {}
<1>1. IsFiniteSet(Obj \X Slot)
    BY FS_Product DEF CollectorAssumption
<1>2. From(h, S, m) \subseteq Obj \X Slot
    BY DEF From
<1>3. IsFiniteSet(From(h, S, m))
    BY <1>1, <1>2, FS_Subset
<1> QED
    BY <1>3, FS_CardinalityType, FS_EmptySet

\* The references from two sets.
LEMMA FromSplit ==
    ASSUME CollectorAssumption, NEW h, NEW S, NEW T, NEW U, S \intersect T = {}, U = S \union T, NEW m
    PROVE  Cardinality(From(h, U, m)) = Cardinality(From(h, S, m)) + Cardinality(From(h, T, m))
<1>1. PICK A : A = From(h, S, m)
    OBVIOUS
<1>2. PICK B : B = From(h, T, m)
    OBVIOUS
<1>3. From(h, U, m) = A \union B /\ A \intersect B = {}
    BY <1>1, <1>2 DEF From
<1>4. IsFiniteSet(A) /\ IsFiniteSet(B)
    BY <1>1, <1>2, FromIs
<1>5. Cardinality(A \union B) = Cardinality(A) + Cardinality(B)
    BY <1>3, <1>4, DisjointSize
<1> QED
    BY <1>1, <1>2, <1>3, <1>5, Zenon

\* Fewer references, counted in one heap or another.
LEMMA FromLess ==
    ASSUME CollectorAssumption, NEW h, NEW S, NEW m, NEW g, NEW T, NEW n,
           From(h, S, m) \subseteq From(g, T, n)
    PROVE  Cardinality(From(h, S, m)) <= Cardinality(From(g, T, n))
BY FromIs, FS_Subset

\* A field is written: the references to others are the same.
LEMMA VisitsIs ==
    ASSUME NEW w \in Seq(Entry), NEW g
    PROVE  /\ IsFiniteSet({i \in 1 .. Len(w) : w[i].obj = g})
           /\ Visits(w, g) \in Nat
<1>1. Len(w) \in Nat
    BY LenProperties
<1>2. IsFiniteSet(1 .. Len(w))
    BY <1>1, FS_Interval
<1>3. IsFiniteSet({i \in 1 .. Len(w) : w[i].obj = g})
    BY <1>2, FS_Subset
<1> QED
    BY <1>3, FS_CardinalityType DEF Visits

\* Replacing the entry on top moves the number of entries about an object by those that
\* come less the one that goes.
LEMMA VisitsPush ==
    ASSUME NEW es \in Seq(Entry), NEW w \in Seq(Entry), w # <<>>, NEW x \in Seq(Entry), IsPush(x, es, w), NEW g
    PROVE  Visits(w, g) + Visits(es, g) = Visits(x, g) + (IF Head(w).obj = g THEN 1 ELSE 0)
<1> DEFINE B == {i \in 2 .. Len(w) : w[i].obj = g}
           W == {i \in 1 .. Len(w) : w[i].obj = g}
           E == {i \in 1 .. Len(es) : es[i].obj = g}
           X == {i \in 1 .. Len(x) : x[i].obj = g}
           C == {i \in X : i > Len(es)}
           f == [i \in B |-> Len(es) + i - 1]
<1>1. Len(w) \in Nat \ {0} /\ Len(es) \in Nat /\ Len(x) \in Nat /\ Head(w) = w[1]
    BY EmptySeq, LenProperties, HeadIn
<1>2. /\ Len(x) = Len(es) + Len(w) - 1
      /\ \A i \in 1 .. Len(es) : i \in 1 .. Len(x) /\ x[i] = es[i]
      /\ \A i \in 2 .. Len(w) : Len(es) + i - 1 \in 1 .. Len(x) /\ x[Len(es) + i - 1] = w[i]
    BY DEF IsPush
<1>3. IsFiniteSet(W) /\ IsFiniteSet(E) /\ IsFiniteSet(X)
    BY VisitsIs
<1>4. IsFiniteSet(B)
    <2>1. B \subseteq W
        BY <1>1
    <2> QED
        BY <1>3, <2>1, FS_Subset
<1>5. X = E \union C
    <2>1. E \subseteq X
        BY <1>2
    <2>2. ASSUME NEW i \in X, ~(i > Len(es)) PROVE i \in E
        <3>1. i \in 1 .. Len(es)
            BY <1>1, <2>2
        <3>2. x[i] = es[i]
            BY <1>2, <3>1
        <3> QED
            BY <3>1, <3>2
    <2> QED
        BY <2>1, <2>2
<1>6. E \intersect C = {}
    BY <1>1
<1>7. f \in [B -> C]
    <2>1. SUFFICES ASSUME NEW i \in B PROVE Len(es) + i - 1 \in C
        OBVIOUS
    <2>2. Len(es) + i - 1 \in 1 .. Len(x) /\ x[Len(es) + i - 1] = w[i]
        BY <1>2
    <2>3. Len(es) + i - 1 > Len(es)
        BY <1>1
    <2> QED
        BY <2>2, <2>3
<1>8. \A i, j \in B : f[i] = f[j] => i = j
    BY <1>1
<1>9. ASSUME NEW y \in C PROVE \E i \in B : f[i] = y
    <2>1. y \in 1 .. Len(x) /\ y > Len(es) /\ x[y].obj = g
        OBVIOUS
    <2>2. y - Len(es) + 1 \in Int
        BY <1>1, <2>1
    <2>3. PICK i \in Int : i = y - Len(es) + 1
        BY <2>2, Zenon
    <2>4. i \in 2 .. Len(w) /\ Len(es) + i - 1 = y
        BY <1>1, <1>2, <2>1, <2>3
    <2>5. x[y] = w[i]
        BY <1>2, <2>4
    <2> QED
        BY <2>1, <2>4, <2>5
<1>10. IsFiniteSet(C) /\ Cardinality(C) = Cardinality(B)
    <2> HIDE DEF B, C, f
    <2> QED
        BY <1>4, <1>7, <1>8, <1>9, SameSize
<1>11. Cardinality(X) = Cardinality(E) + Cardinality(C)
    <2> HIDE DEF E, C, X
    <2>1. Cardinality(E \union C) = Cardinality(E) + Cardinality(C)
        BY <1>3, <1>6, <1>10, DisjointSize
    <2> QED
        BY <1>5, <2>1, Zenon
<1>12. W = IF w[1].obj = g THEN B \union {1} ELSE B
    BY <1>1
<1>13. 1 \notin B
    OBVIOUS
<1>14. Cardinality(W) = Cardinality(B) + (IF w[1].obj = g THEN 1 ELSE 0)
    <2> HIDE DEF B, W
    <2>1. Cardinality(B \union {1}) = Cardinality(B) + 1 /\ Cardinality(B) \in Nat
        BY <1>4, <1>13, OneMore
    <2>2. CASE w[1].obj = g
        <3>1. W = B \union {1}
            BY <1>12, <2>2
        <3> QED
            BY <2>1, <2>2, <3>1
    <2>3. CASE w[1].obj # g
        <3>1. W = B
            BY <1>12, <2>3
        <3> QED
            BY <2>1, <2>3, <3>1
    <2> QED
        BY <2>2, <2>3
<1>15. Cardinality(B) \in Nat /\ Cardinality(E) \in Nat
    <2> HIDE DEF B, E
    <2> QED
        BY <1>3, <1>4, FS_CardinalityType
<1>16. Visits(w, g) = Cardinality(W) /\ Visits(es, g) = Cardinality(E) /\ Visits(x, g) = Cardinality(X)
    BY DEF Visits
<1> HIDE DEF B, W, E, X, C
<1> QED
    BY <1>1, <1>10, <1>11, <1>14, <1>15, <1>16

----------------------------------------------------------------------------
(* Stack entries.                                                           *)

\* No element occurs twice.
Distinct(w) == \A i, j \in 1 .. Len(w) : w[i] = w[j] => i = j

\* es applies op to every child of s.
KidList(es, op, s) ==
    /\ es \in Seq(Entry)
    /\ \A i \in 1 .. Len(es) : \E c \in Kids(slots, s) : es[i] = Do(op, c)
    /\ \A c \in Kids(slots, s) : Do(op, c) \in ToSet(es)
    /\ \A g \in Obj : Visits(es, g) = Cardinality(From(slots, {s}, g))

\* es applies op to every field of s.
FieldList(es, op, s) ==
    /\ es \in Seq(Entry)
    /\ \A i \in 1 .. Len(es) : \E k \in Slot : slots[s][k] # Null /\ es[i] = DoField(op, s, k)
    /\ \A k \in Slot : slots[s][k] # Null => DoField(op, s, k) \in ToSet(es)
    /\ Distinct(es)

\* es drops every field of s, then frees s.
DropList(es, s) ==
    /\ es \in Seq(Entry)
    /\ Len(es) \in 1 .. Len(es) /\ es[Len(es)] = Do("Free", s)
    /\ \A i \in 1 .. Len(es) : i # Len(es) =>
          \E k \in Slot : slots[s][k] # Null /\ es[i] = DoField("Decrement", s, k)
    /\ \A k \in Slot : slots[s][k] # Null => DoField("Decrement", s, k) \in ToSet(es)
    /\ Distinct(es)

\* es applies op to every member of c.
MemberList(es, op, c) ==
    /\ es \in Seq(Entry)
    /\ Len(es) = Len(c)
    /\ \A i \in 1 .. Len(c) : es[i] = Do(op, c[i])

\* A traversal visits every field of an object that is not locked.
LEMMA VisitedIs ==
    ASSUME CollectorAssumption, TypeOK, NEW s \in Obj, s \notin locked
    PROVE  /\ Visited(s) = {k \in Slot : slots[s][k] # Null}
           /\ IsFiniteSet(Visited(s))
           /\ \A k \in Visited(s) : k \in Slot /\ slots[s][k] \in Obj
<1>1. Visited(s) = {k \in Slot : slots[s][k] # Null}
    BY DEF Visited
<1>2. IsFiniteSet(Visited(s))
    BY <1>1, FS_Subset DEF CollectorAssumption
<1>3. \A k \in Slot : slots[s][k] \in Obj \union {Null}
    BY DEF TypeOK
<1> QED
    BY <1>1, <1>2, <1>3

\* What KidEntries pushes.
LEMMA KidEntriesIs ==
    ASSUME CollectorAssumption, TypeOK, NEW s \in Obj, s \notin locked, NEW op \in Op
    PROVE  KidList(KidEntries(op, s), op, s)
<1>1. PICK ks \in Seq(Visited(s)) :
          /\ ks = SetToSeq(Visited(s))
          /\ \A i, j \in 1 .. Len(ks) : ks[i] = ks[j] => i = j
          /\ \A k \in Visited(s) : \E i \in 1 .. Len(ks) : ks[i] = k
    BY VisitedIs, SetToSeqIs
<1>2. PICK es : es = [i \in 1 .. Len(ks) |-> Do(op, slots[s][ks[i]])]
    OBVIOUS
<1>3. KidEntries(op, s) = es
    BY <1>1, <1>2, Zenon DEF KidEntries
<1>4. Len(ks) \in Nat /\ \A i \in 1 .. Len(ks) : ks[i] \in Visited(s)
    BY LenProperties, ElementOfSeq
<1>5. \A c \in Obj : Do(op, c) \in Entry /\ Do(op, c).obj = c
    BY DEF Do, Entry
<1>6. \A i \in 1 .. Len(ks) : slots[s][ks[i]] \in Kids(slots, s) /\ slots[s][ks[i]] \in Obj
    BY <1>4, VisitedIs DEF Kids
<1>7. es \in Seq(Entry) /\ Len(es) = Len(ks) /\ \A i \in 1 .. Len(ks) : es[i] = Do(op, slots[s][ks[i]])
    <2>1. \A i \in 1 .. Len(ks) : Do(op, slots[s][ks[i]]) \in Entry
        BY <1>5, <1>6
    <2>2. es \in [1 .. Len(ks) -> Entry]
        BY <1>2, <2>1
    <2> QED
        BY <1>2, <1>4, <2>2
<1>8. ToSet(es) = {es[i] : i \in 1 .. Len(es)}
    BY <1>7, ToSetIs
<1>9. \A i \in 1 .. Len(es) : \E c \in Kids(slots, s) : es[i] = Do(op, c)
    BY <1>6, <1>7
<1>10. ASSUME NEW c \in Kids(slots, s) PROVE Do(op, c) \in ToSet(es)
    <2>1. PICK k \in Slot : slots[s][k] = c /\ c # Null
        BY DEF Kids
    <2>2. k \in Visited(s)
        BY <2>1, VisitedIs
    <2>3. PICK i \in 1 .. Len(ks) : ks[i] = k
        BY <1>1, <2>2
    <2> QED
        BY <1>7, <1>8, <2>1, <2>3
<1>11. ASSUME NEW g \in Obj PROVE Visits(es, g) = Cardinality(From(slots, {s}, g))
    <2> DEFINE A == {i \in 1 .. Len(es) : es[i].obj = g}
               B == From(slots, {s}, g)
               f == [i \in A |-> <<s, ks[i]>>]
    <2>1. IsFiniteSet(A)
        BY <1>7, VisitsIs
    <2>2. \A i \in A : ks[i] \in Slot /\ slots[s][ks[i]] = g
        BY <1>4, <1>5, <1>6, <1>7, VisitedIs
    <2>3. f \in [A -> B]
        BY <2>2 DEF From
    <2>4. \A i, j \in A : f[i] = f[j] => i = j
        BY <1>1, <1>7
    <2>5. ASSUME NEW y \in B PROVE \E i \in A : f[i] = y
        <3>1. PICK k \in Slot : y = <<s, k>> /\ slots[s][k] = g
            BY DEF From
        <3>2. k \in Visited(s)
            BY <3>1, VisitedIs DEF CollectorAssumption
        <3>3. PICK i \in 1 .. Len(ks) : ks[i] = k
            BY <1>1, <3>2
        <3>4. i \in A
            BY <1>5, <1>6, <1>7, <3>1, <3>3
        <3> QED
            BY <3>1, <3>3, <3>4
    <2>6. Cardinality(B) = Cardinality(A)
        <3> HIDE DEF A, B, f
        <3> QED
            BY <2>1, <2>3, <2>4, <2>5, SameSize
    <2> QED
        BY <2>6 DEF Visits
<1>12. KidList(es, op, s)
    BY <1>7, <1>9, <1>10, <1>11 DEF KidList
<1> QED
    BY <1>3, <1>12, Zenon

\* What FieldEntries pushes.
LEMMA FieldEntriesIs ==
    ASSUME CollectorAssumption, TypeOK, NEW s \in Obj, s \notin locked, NEW op \in Op
    PROVE  FieldList(FieldEntries(op, s), op, s)
<1>1. PICK ks \in Seq(Visited(s)) :
          /\ ks = SetToSeq(Visited(s))
          /\ \A i, j \in 1 .. Len(ks) : ks[i] = ks[j] => i = j
          /\ \A k \in Visited(s) : \E i \in 1 .. Len(ks) : ks[i] = k
    BY VisitedIs, SetToSeqIs
<1>2. PICK es : es = [i \in 1 .. Len(ks) |-> DoField(op, s, ks[i])]
    OBVIOUS
<1>3. FieldEntries(op, s) = es
    BY <1>1, <1>2, Zenon DEF FieldEntries
<1>4. Len(ks) \in Nat /\ \A i \in 1 .. Len(ks) : ks[i] \in Visited(s)
    BY LenProperties, ElementOfSeq
<1>5. \A k \in Slot : DoField(op, s, k) \in Entry /\ DoField(op, s, k).field = k
    BY DEF DoField, Entry
<1>6. \A i \in 1 .. Len(ks) : ks[i] \in Slot /\ slots[s][ks[i]] # Null
    BY <1>4, VisitedIs
<1>7. es \in Seq(Entry) /\ Len(es) = Len(ks) /\ \A i \in 1 .. Len(ks) : es[i] = DoField(op, s, ks[i])
    <2>1. \A i \in 1 .. Len(ks) : DoField(op, s, ks[i]) \in Entry
        BY <1>5, <1>6
    <2>2. es \in [1 .. Len(ks) -> Entry]
        BY <1>2, <2>1
    <2> QED
        BY <1>2, <1>4, <2>2
<1>8. ToSet(es) = {es[i] : i \in 1 .. Len(es)}
    BY <1>7, ToSetIs
<1>9. \A i \in 1 .. Len(es) : \E k \in Slot : slots[s][k] # Null /\ es[i] = DoField(op, s, k)
    BY <1>6, <1>7
<1>10. ASSUME NEW k \in Slot, slots[s][k] # Null PROVE DoField(op, s, k) \in ToSet(es)
    <2>1. k \in Visited(s)
        BY <1>10, VisitedIs
    <2>2. PICK i \in 1 .. Len(ks) : ks[i] = k
        BY <1>1, <2>1
    <2> QED
        BY <1>7, <1>8, <2>2
<1>11. Distinct(es)
    <2>1. SUFFICES ASSUME NEW i \in 1 .. Len(es), NEW j \in 1 .. Len(es), es[i] = es[j] PROVE i = j
        BY DEF Distinct
    <2>2. ks[i] = ks[j]
        BY <1>5, <1>6, <1>7, <2>1
    <2> QED
        BY <1>1, <1>7, <2>2
<1>12. FieldList(es, op, s)
    BY <1>7, <1>9, <1>10, <1>11 DEF FieldList
<1> QED
    BY <1>3, <1>12, Zenon

\* What drop_children pushes.
LEMMA DropChildrenIs ==
    ASSUME CollectorAssumption, TypeOK, NEW s \in Obj, s \notin locked
    PROVE  DropList(DropChildren(s), s)
<1>1. PICK fs : fs = FieldEntries("Decrement", s)
    OBVIOUS
<1>2. FieldList(fs, "Decrement", s)
    BY <1>1, FieldEntriesIs DEF Op
<1>3. PICK es : es = fs \o <<Do("Free", s)>>
    OBVIOUS
<1>4. DropChildren(s) = es
    BY <1>1, <1>3, Zenon DEF DropChildren
<1>5. fs \in Seq(Entry) /\ Len(fs) \in Nat
    BY <1>2, LenProperties DEF FieldList
<1>6. Do("Free", s) \in Entry /\ Do("Free", s).op = "Free"
    BY DEF Do, Entry, Op
<1>7. /\ es \in Seq(Entry) /\ Len(es) = Len(fs) + 1
      /\ \A i \in 1 .. Len(fs) : es[i] = fs[i]
      /\ es[Len(fs) + 1] = Do("Free", s)
    BY <1>3, <1>5, <1>6
<1>8. \A k \in Slot : DoField("Decrement", s, k).op = "Decrement"
    BY DEF DoField
<1>9. ToSet(es) = {es[i] : i \in 1 .. Len(es)} /\ ToSet(fs) = {fs[i] : i \in 1 .. Len(fs)}
    BY <1>5, <1>7, ToSetIs
<1>10. ASSUME NEW i \in 1 .. Len(es), i # Len(es)
       PROVE  \E k \in Slot : slots[s][k] # Null /\ es[i] = DoField("Decrement", s, k)
    <2>1. i \in 1 .. Len(fs)
        BY <1>5, <1>7, <1>10
    <2> QED
        BY <1>2, <1>7, <2>1 DEF FieldList
<1>11. ASSUME NEW k \in Slot, slots[s][k] # Null PROVE DoField("Decrement", s, k) \in ToSet(es)
    <2>1. PICK i \in 1 .. Len(fs) : fs[i] = DoField("Decrement", s, k)
        BY <1>2, <1>9, <1>11 DEF FieldList
    <2>2. i \in 1 .. Len(es) /\ es[i] = fs[i]
        BY <1>5, <1>7
    <2> QED
        BY <1>9, <2>1, <2>2
<1>12. Distinct(es)
    <2>1. SUFFICES ASSUME NEW i \in 1 .. Len(es), NEW j \in 1 .. Len(es), es[i] = es[j] PROVE i = j
        BY DEF Distinct
    <2>2. \A a \in 1 .. Len(fs) : es[a].op = "Decrement"
        BY <1>2, <1>7, <1>8 DEF FieldList
    <2>3. \A a \in 1 .. Len(es) : a \in 1 .. Len(fs) \/ a = Len(fs) + 1
        BY <1>5, <1>7
    <2>4. es[Len(fs) + 1].op = "Free"
        BY <1>6, <1>7
    <2>5. CASE i \in 1 .. Len(fs) /\ j \in 1 .. Len(fs)
        BY <1>2, <1>7, <2>1, <2>5 DEF FieldList, Distinct
    <2> QED
        BY <2>1, <2>2, <2>3, <2>4, <2>5
<1>13. Len(es) \in 1 .. Len(es) /\ es[Len(es)] = Do("Free", s)
    BY <1>5, <1>7
<1>14. DropList(es, s)
    BY <1>7, <1>10, <1>11, <1>12, <1>13 DEF DropList
<1> QED
    BY <1>4, <1>14, Zenon

\* What a loop over a cycle pushes.
LEMMA MemberEntriesIs ==
    ASSUME NEW c \in Seq(Obj), NEW op \in Op
    PROVE  MemberList(MemberEntries(op, c), op, c)
<1>1. Len(c) \in Nat /\ \A i \in 1 .. Len(c) : c[i] \in Obj
    BY LenProperties, ElementOfSeq
<1>2. \A i \in 1 .. Len(c) : Do(op, c[i]) \in Entry
    BY <1>1 DEF Do, Entry
<1>3. PICK es : es = [i \in 1 .. Len(c) |-> Do(op, c[i])]
    OBVIOUS
<1>4. es \in [1 .. Len(c) -> Entry]
    BY <1>2, <1>3
<1>5. MemberList(es, op, c)
    BY <1>1, <1>3, <1>4 DEF MemberList
<1> QED
    BY <1>3, <1>5, Zenon DEF MemberEntries

\* The members of c, under one operation and then under another.
\* x is a followed by b.
IsJoin(x, a, b) ==
    /\ Len(x) = Len(a) + Len(b)
    /\ \A i \in 1 .. Len(a) : x[i] = a[i]
    /\ \A i \in 1 .. Len(b) : x[Len(a) + i] = b[i]

\* A concatenation holds its parts one after the other.
LEMMA Joined ==
    ASSUME NEW S, NEW a \in Seq(S), NEW b \in Seq(S), NEW x, x = a \o b
    PROVE  x \in Seq(S) /\ IsJoin(x, a, b)
<1>1. x \in Seq(S) /\ Len(x) = Len(a) + Len(b)
    BY ConcatProperties
<1>2. \A i \in 1 .. Len(a) + Len(b) : x[i] = IF i <= Len(a) THEN a[i] ELSE b[i - Len(a)]
    BY ConcatProperties
<1>3. Len(a) \in Nat /\ Len(b) \in Nat
    BY LenProperties
<1>4. \A i \in 1 .. Len(a) : x[i] = a[i]
    BY <1>2, <1>3
<1>5. ASSUME NEW i \in 1 .. Len(b) PROVE x[Len(a) + i] = b[i]
    <2>1. Len(a) + i \in 1 .. Len(a) + Len(b) /\ ~(Len(a) + i <= Len(a)) /\ Len(a) + i - Len(a) = i
        BY <1>3
    <2>2. PICK n \in 1 .. Len(a) + Len(b) : n = Len(a) + i
        BY <2>1
    <2>3. x[n] = b[n - Len(a)]
        BY <1>2, <1>3, <2>1, <2>2
    <2>4. n - Len(a) = i
        BY <2>1, <2>2
    <2> QED
        BY <2>2, <2>3, <2>4, Zenon
<1> QED
    BY <1>1, <1>4, <1>5 DEF IsJoin

\* The stack x visits the members of c twice.
Passes(x, c, op, oq) ==
    /\ x \in Seq(Entry)
    /\ Len(x) = Len(c) + Len(c)
    /\ Len(c) \in Nat
    /\ \A i \in 1 .. Len(c) : x[i] = Do(op, c[i])
    /\ \A i \in 1 .. Len(c) : x[Len(c) + i] = Do(oq, c[i])

\* Two loops over a cycle, one after the other.
LEMMA TwoPasses ==
    ASSUME NEW c \in Seq(Obj), NEW op \in Op, NEW oq \in Op,
           NEW a, a = MemberEntries(op, c), NEW b, b = MemberEntries(oq, c), NEW x, x = a \o b
    PROVE  Passes(x, c, op, oq)
<1>3. MemberList(a, op, c) /\ MemberList(b, oq, c)
    BY MemberEntriesIs
<1>5. a \in Seq(Entry) /\ b \in Seq(Entry) /\ Len(a) = Len(c) /\ Len(b) = Len(c) /\ Len(c) \in Nat
    BY <1>3, LenProperties DEF MemberList
<1>6. /\ x \in Seq(Entry)
      /\ Len(x) = Len(a) + Len(b)
      /\ \A i \in 1 .. Len(a) : x[i] = a[i]
      /\ \A i \in 1 .. Len(b) : x[Len(a) + i] = b[i]
    <2>1. x \in Seq(Entry) /\ IsJoin(x, a, b)
        BY <1>5, Joined
    <2> QED
        BY <2>1 DEF IsJoin
<1>7. /\ \A i \in 1 .. Len(c) : a[i] = Do(op, c[i])
      /\ \A i \in 1 .. Len(c) : b[i] = Do(oq, c[i])
    BY <1>3 DEF MemberList
<1>8. PICK n \in Nat : n = Len(c)
    BY <1>5
<1>9. Len(a) = n /\ Len(b) = n
    BY <1>5, <1>8
<1>10. \A i \in 1 .. n : x[i] = Do(op, c[i]) /\ x[n + i] = Do(oq, c[i])
    BY <1>6, <1>7, <1>8, <1>9, Zenon
<1>11. Len(x) = n + n
    BY <1>6, <1>9, Zenon
<1> QED
    BY <1>6, <1>8, <1>10, <1>11, Zenon DEF Passes

----------------------------------------------------------------------------
(* The abstract heap.                                                       *)

\* The constants are what RefHeap assumes.
LEMMA Assumed == CollectorAssumption => H!RefHeapAssumption
<1>1. \A S : IsFiniteSet(S) => H!IsFiniteSet(S)
    BY Zenon DEF H!IsFiniteSet, IsFiniteSet
<1> QED
    BY <1>1 DEF CollectorAssumption, H!RefHeapAssumption

\* The instance counts as this module does.
LEMMA SameCardinality == \A S : H!Cardinality(S) = Cardinality(S)
BY Zenon DEF H!Cardinality, Cardinality

\* An object is condemned when an entry frees it.
LEMMA CondemnedIs ==
    /\ \A o \in Obj : Do("Free", o) \in Entries => o \in Condemned
    /\ TypeOK => \A o \in Condemned : \E e \in Entries : e.op = "Free" /\ e.obj = o /\ o \in Obj
<1>1. \A o \in Obj : Do("Free", o) \in Entries => o \in Condemned
    BY DEF Condemned, Do
<1>2. ASSUME TypeOK, NEW o \in Condemned PROVE \E e \in Entries : e.op = "Free" /\ e.obj = o /\ o \in Obj
    <2>1. PICK e \in Entries : e.op = "Free" /\ e.obj = o
        BY DEF Condemned
    <2>2. e \in Entry
        BY <1>2, <2>1, ToSetIn DEF TypeOK, Entries
    <2> QED
        BY <2>1, <2>2 DEF Entry
<1> QED
    BY <1>1, <1>2

\* A field of a condemned object counts as empty once it has been given up.
LEMMA SlotsBarIs ==
    ASSUME NEW p \in Obj, NEW k \in Slot
    PROVE  SlotsBar[p][k] = IF p \in Condemned /\ ~Pending(p, k) THEN Null ELSE slots[p][k]
BY DEF SlotsBar

\* What the invariant of RefHeap says of the objects of the collector: exact counts, and no
\* reference to an object that is condemned or not allocated.
LEMMA HeapIs ==
    ASSUME CollectorAssumption, TypeOK, H!Inv
    PROVE  /\ \A o \in allocated \ Condemned : rc[o] = handles[o] + Cardinality(From(SlotsBar, Obj, o))
           /\ \A o \in Obj : o \notin allocated \/ o \in Condemned => handles[o] = 0
           /\ \A o \in Obj : o \notin allocated \/ o \in Condemned =>
                 \A p \in Obj, k \in Slot : SlotsBar[p][k] # o
           /\ \A o \in Obj : o \notin allocated => SlotsBar[o] = Empty
<1>1. \A o \in Obj : StatusBar[o] = IF o \notin allocated THEN "free" ELSE IF o \in Condemned THEN "dying" ELSE "live"
    BY DEF StatusBar
<1>2. \A h, o : H!RefsTo(h, o) = From(h, Obj, o)
    BY DEF H!RefsTo, From
<1>3. ASSUME NEW o \in allocated \ Condemned
      PROVE  rc[o] = handles[o] + Cardinality(From(SlotsBar, Obj, o))
    <2>1. o \in Obj /\ StatusBar[o] = "live"
        BY <1>1 DEF TypeOK
    <2>2. rc[o] = handles[o] + H!Cardinality(H!RefsTo(SlotsBar, o))
        BY <2>1 DEF H!Inv, H!RcExact
    <2>3. H!Cardinality(H!RefsTo(SlotsBar, o)) = Cardinality(From(SlotsBar, Obj, o))
        BY <1>2, SameCardinality, Zenon
    <2> QED
        BY <2>2, <2>3, Zenon
<1>4. ASSUME NEW o \in Obj, o \notin allocated \/ o \in Condemned
      PROVE  handles[o] = 0 /\ From(SlotsBar, Obj, o) = {}
    <2>1. StatusBar[o] # "live"
        BY <1>1, <1>4
    <2> QED
        BY <1>2, <2>1 DEF H!Inv, H!NoDangling
<1>5. ASSUME NEW o \in Obj, o \notin allocated PROVE SlotsBar[o] = Empty
    <2>1. StatusBar[o] = "free"
        BY <1>1, <1>5
    <2> QED
        BY <2>1 DEF H!Inv, H!FreeIsEmpty, H!Empty, Empty
<1>6. ASSUME NEW o \in Obj, o \notin allocated \/ o \in Condemned, NEW p \in Obj, NEW k \in Slot
      PROVE  SlotsBar[p][k] # o
    <2>1. From(SlotsBar, Obj, o) = {}
        BY <1>4, <1>6
    <2>2. SlotsBar[p][k] = o => <<p, k>> \in From(SlotsBar, Obj, o)
        BY DEF From
    <2> QED
        BY <2>1, <2>2
<1> QED
    BY <1>3, <1>4, <1>5, <1>6

\* Nothing is condemned.
LEMMA CalmBars ==
    ASSUME TypeOK, Condemned = {}
    PROVE  SlotsBar = slots
<1>1. \A p \in Obj : [k \in Slot |-> IF p \in Condemned /\ ~Pending(p, k) THEN Null ELSE slots[p][k]] = slots[p]
    BY DEF TypeOK
<1>2. SlotsBar = [p \in Obj |-> slots[p]]
    BY <1>1 DEF SlotsBar
<1> QED
    BY <1>2 DEF TypeOK

\* The same after a step.
LEMMA CalmBarsNext ==
    ASSUME TypeOK', Condemned' = {}
    PROVE  SlotsBar' = slots'
<1>1. \A p \in Obj : [k \in Slot |-> IF p \in Condemned' /\ ~Pending(p, k)' THEN Null ELSE slots'[p][k]] = slots'[p]
    BY DEF TypeOK
<1>2. SlotsBar' = [p \in Obj |-> slots'[p]]
    BY <1>1 DEF SlotsBar
<1> QED
    BY <1>2 DEF TypeOK

\* With nothing condemned, counts are exact and fields name allocated objects.
LEMMA CalmHeap ==
    ASSUME CollectorAssumption, TypeOK, H!Inv, Condemned = {}
    PROVE  /\ \A o \in allocated : rc[o] = handles[o] + Cardinality(From(slots, Obj, o))
           /\ \A o \in Obj : o \notin allocated => handles[o] = 0
           /\ \A p \in Obj, k \in Slot : slots[p][k] # Null => slots[p][k] \in allocated
           /\ \A o \in Obj : o \notin allocated => slots[o] = Empty
<1>1. SlotsBar = slots
    BY CalmBars
<1>2. \A o \in allocated : rc[o] = handles[o] + Cardinality(From(slots, Obj, o))
    BY <1>1, HeapIs
<1>3. \A o \in Obj : o \notin allocated => handles[o] = 0
    BY HeapIs
<1>4. \A o \in Obj : o \notin allocated => slots[o] = Empty
    BY <1>1, HeapIs
<1>5. ASSUME NEW p \in Obj, NEW k \in Slot, slots[p][k] # Null PROVE slots[p][k] \in allocated
    <2>1. slots[p][k] \in Obj
        BY <1>5 DEF TypeOK
    <2> QED
        BY <1>1, <2>1, HeapIs
<1> QED
    BY <1>2, <1>3, <1>4, <1>5

\* The counts of the references are natural numbers.
LEMMA CalmCounts ==
    ASSUME CollectorAssumption, TypeOK, H!Inv, Condemned = {}, NEW S, S \subseteq Obj, NEW o \in allocated
    PROVE  /\ rc[o] = handles[o] + Cardinality(From(slots, S, o)) + Cardinality(From(slots, Obj \ S, o))
           /\ Cardinality(From(slots, S, o)) \in Nat
           /\ Cardinality(From(slots, Obj \ S, o)) \in Nat
           /\ handles[o] \in Nat
<1>1. rc[o] = handles[o] + Cardinality(From(slots, Obj, o))
    BY CalmHeap
<1>2. Cardinality(From(slots, Obj, o)) = Cardinality(From(slots, S, o)) + Cardinality(From(slots, Obj \ S, o))
    <2>1. PICK T : T = Obj \ S
        OBVIOUS
    <2>2. S \intersect T = {} /\ Obj = S \union T
        BY <2>1
    <2>3. Cardinality(From(slots, Obj, o)) = Cardinality(From(slots, S, o)) + Cardinality(From(slots, T, o))
        BY <2>2, FromSplit
    <2> QED
        BY <2>1, <2>3, Zenon
<1>3. Cardinality(From(slots, S, o)) \in Nat /\ Cardinality(From(slots, Obj \ S, o)) \in Nat
    BY FromIs
<1>4. handles[o] \in Nat
    BY DEF TypeOK
<1>5. PICK a, b : a = Cardinality(From(slots, S, o)) /\ b = Cardinality(From(slots, Obj \ S, o))
    OBVIOUS
<1>6. rc[o] = handles[o] + (a + b)
    BY <1>1, <1>2, <1>5, Zenon
<1>7. rc[o] = handles[o] + a + b
    BY <1>3, <1>4, <1>5, <1>6
<1> QED
    BY <1>3, <1>4, <1>5, <1>7

\* A step that condemns nothing and changes nothing that programs see.
LEMMA CalmStep ==
    ASSUME TypeOK, TypeOK', Condemned = {}, Condemned' = {}, UNCHANGED <<allocated, rc, handles, slots>>
    PROVE  UNCHANGED H!vars
<1>1. SlotsBar = slots
    BY CalmBars
<1>2. SlotsBar' = slots'
    BY CalmBarsNext
<1>3. StatusBar' = StatusBar
    BY DEF StatusBar
<1> QED
    BY <1>1, <1>2, <1>3 DEF H!vars

\* A step of the heap keeps its invariant.
LEMMA HeapStep ==
    ASSUME CollectorAssumption, H!Inv, [H!Next]_H!vars
    PROVE  H!Inv'
BY Assumed, H!NextInv

\* A traversal that frees nothing condemns nothing.
LEMMA PlainIsCalm ==
    ASSUME NEW ops, Plain(ops), "Free" \notin ops
    PROVE  Condemned = {}
BY DEF Plain, Condemned, Do

\* Without a traversal nothing is condemned.
LEMMA EmptyIsCalm ==
    ASSUME work = <<>>
    PROVE  Entries = {} /\ Condemned = {}
<1>1. work \in Seq(Entry)
    OBVIOUS
<1>2. Entries = {}
    BY <1>1, ToSetEmpty DEF Entries
<1> QED
    BY <1>2 DEF Condemned

----------------------------------------------------------------------------
(* Programs.                                                                *)

\* The members of parked cycles are objects.
LEMMA ParkedIn ==
    ASSUME NEW cs \in Seq(Seq(Obj))
    PROVE  /\ Len(cs) \in Nat
           /\ \A i \in 1 .. Len(cs) : cs[i] \in Seq(Obj) /\ Members(cs[i]) \subseteq Parked(cs)
           /\ \A i \in 1 .. Len(cs) : Len(cs[i]) \in Nat /\ \A a \in 1 .. Len(cs[i]) : cs[i][a] \in Obj
           /\ \A o \in Parked(cs) : \E i \in 1 .. Len(cs) : o \in Members(cs[i])
           /\ Parked(cs) \subseteq Obj
<1>1. Len(cs) \in Nat /\ \A i \in 1 .. Len(cs) : cs[i] \in Seq(Obj)
    BY LenProperties, ElementOfSeq
<1>2. \A i \in 1 .. Len(cs) : Len(cs[i]) \in Nat /\ \A a \in 1 .. Len(cs[i]) : cs[i][a] \in Obj
    BY <1>1, LenProperties, ElementOfSeq
<1>3. \A i \in 1 .. Len(cs) : Members(cs[i]) \subseteq Obj
    BY <1>2 DEF Members
<1>4. \A i \in 1 .. Len(cs) : Members(cs[i]) \subseteq Parked(cs)
    BY DEF Parked
<1>5. \A o \in Parked(cs) : \E i \in 1 .. Len(cs) : o \in Members(cs[i])
    BY DEF Parked
<1> QED
    BY <1>1, <1>2, <1>3, <1>4, <1>5

\* Cycles at rest are left alone: no reference to them comes into being, and
\* their counts stay unless they are freed.
LEMMA RestKept ==
    ASSUME CollectorAssumption, TypeOK, TypeOK', Resting, cycles' = cycles,
           \A p \in Obj, k \in Slot : slots'[p][k] \in Parked(cycles) => slots'[p][k] = slots[p][k],
           \A o \in Parked(cycles) : handles'[o] = 0,
           \A o \in Parked(cycles) :
              crc'[o] = crc[o] \/ (crc'[o] = 0 /\ \A p \in Obj, k \in Slot : slots'[p][k] # o),
           Parked(cycles) \subseteq allocated' \union freedObjs',
           \A o \in Parked(cycles) \intersect allocated' :
              color'[o] = "Orange" /\ (o \notin Condemned' => rc'[o] <= epochRc'[o]),
           \A o \in Obj : color'[o] = "Orange" => o \in Parked(cycles)
    PROVE  Resting'
<1>1. cycles \in Seq(Seq(Obj))
    BY DEF TypeOK
<1>2. \A i \in 1 .. Len(cycles) : Members(cycles[i]) \subseteq Parked(cycles)
    BY <1>1, ParkedIn
<1>3. Closed(Parked(cycles))'
    BY DEF Closed, Resting
<1>4. Ordered(cycles, Parked(cycles))'
    <2>1. Ordered(cycles, Parked(cycles))
        BY DEF Resting
    <2>2. SUFFICES ASSUME NEW i \in 1 .. Len(cycles), NEW p \in Members(cycles[i]), NEW k \in Slot,
                          slots'[p][k] \in Parked(cycles)
                   PROVE  \E j \in 1 .. i : slots'[p][k] \in Members(cycles[j])
        BY DEF Ordered
    <2>3. p \in Obj
        BY <1>1, <1>2, ParkedIn
    <2>4. slots'[p][k] = slots[p][k]
        BY <2>2, <2>3
    <2> QED
        BY <2>1, <2>2, <2>4 DEF Ordered
<1>5. ASSUME NEW i \in 1 .. Len(cycles) PROVE Covers(cycles[i])'
    <2>1. SUFFICES ASSUME NEW m \in Members(cycles[i])
                   PROVE  Cardinality(From(slots', Obj \ Members(cycles[i]), m)) <= crc'[m]
        BY DEF Covers
    <2>2. m \in Parked(cycles)
        BY <1>2
    <2>3. CASE crc'[m] = crc[m]
        <3>1. From(slots', Obj \ Members(cycles[i]), m) \subseteq From(slots, Obj \ Members(cycles[i]), m)
            BY <2>2 DEF From
        <3>2. Cardinality(From(slots, Obj \ Members(cycles[i]), m)) <= crc[m]
            BY DEF Resting, Covers
        <3>3. PICK a \in Nat : a = Cardinality(From(slots', Obj \ Members(cycles[i]), m))
            BY FromIs
        <3>4. PICK b \in Nat : b = Cardinality(From(slots, Obj \ Members(cycles[i]), m))
            BY FromIs
        <3>5. a <= b
            BY <3>1, <3>3, <3>4, FromLess
        <3>6. crc[m] \in Int
            BY <1>1, <2>2, ParkedIn DEF TypeOK
        <3>7. a <= crc[m]
            BY <3>2, <3>4, <3>5, <3>6
        <3> QED
            BY <2>3, <3>3, <3>7
    <2>4. CASE crc'[m] = 0 /\ \A p \in Obj, k \in Slot : slots'[p][k] # m
        <3>1. From(slots', Obj \ Members(cycles[i]), m) = {}
            BY <2>4 DEF From
        <3>2. Cardinality(From(slots', Obj \ Members(cycles[i]), m)) = 0
            BY <3>1, FS_EmptySet
        <3> QED
            BY <2>4, <3>2
    <2> QED
        BY <2>2, <2>3, <2>4
<1>6. Coloured({"Orange"})' \subseteq Parked(cycles)
    BY DEF Coloured
<1>7. Simple(cycles)'
    BY DEF Resting, Simple
<1> QED
    BY <1>3, <1>4, <1>5, <1>6, <1>7 DEF Resting

\* When programs run, the collector is at rest and what is parked is garbage.
LEMMA Programs ==
    ASSUME CollectorAssumption, ~Concurrent, IInv, MutatorRuns
    PROVE  /\ pc = "await" /\ ~ShouldCollect /\ work = <<>> /\ freedObjs = {}
           /\ Condemned = {}
           /\ fresh = allocated
           /\ TypeOK /\ H!Inv /\ Quiet /\ Lists /\ AtRest /\ Resting
           /\ Parked(cycles) \subseteq allocated
           /\ SlotsBar = slots
           /\ \A o \in Parked(cycles) : o \in Obj /\ handles[o] = 0
           /\ \A p \in Obj, k \in Slot : slots[p][k] \in Parked(cycles) => p \in Parked(cycles)
<1>1. pc = "await" /\ ~ShouldCollect
    BY DEF MutatorRuns
<1>2. TypeOK /\ H!Inv /\ Quiet /\ Lists /\ AtRest
    BY <1>1 DEF IInv
<1>3. work = <<>> /\ freedObjs = {} /\ fresh = allocated
    BY <1>1, <1>2 DEF Lists
<1>4. Condemned = {}
    BY <1>3, EmptyIsCalm
<1>5. Resting /\ Parked(cycles) \subseteq allocated
    BY <1>2, <1>3 DEF AtRest, Resting
<1>6. SlotsBar = slots
    BY <1>2, <1>4, CalmBars
<1>7. \A o \in Parked(cycles) : o \in Obj /\ handles[o] = 0
    BY <1>2, <1>5 DEF Resting, Closed, TypeOK
<1>8. \A p \in Obj, k \in Slot : slots[p][k] \in Parked(cycles) => p \in Parked(cycles)
    BY <1>5 DEF Resting, Closed
<1> QED
    BY <1>1, <1>2, <1>3, <1>4, <1>5, <1>6, <1>7, <1>8

\* What there is to show after a step of a program.
LEMMA AwaitIs ==
    ASSUME TypeOK', H!Inv', Quiet', Lists', Resting', pc' = "await",
           \A o \in Obj : color'[o] \in {"Black", "Orange"}
    PROVE  IInv'
<1>1. AtRest'
    BY DEF AtRest, Coloured
<1>2. Counted'
    BY DEF Counted
<1> QED
    BY <1>1, <1>2 DEF IInv

\* The count of new objects stops at the bound.
LEMMA AllocCounts ==
    ASSUME CollectorAssumption, TypeOK, NEW o \in Obj, Alloc(o)
    PROVE  newAllocs' \in 0 .. MinAllocs
<1>1. newAllocs' = IF newAllocs < MinAllocs THEN newAllocs + 1 ELSE newAllocs
    BY DEF Alloc
<1>2. newAllocs \in 0 .. MinAllocs /\ MinAllocs \in Nat
    BY DEF TypeOK, CollectorAssumption
<1> QED
    BY ONLY <1>1, <1>2

\* A new object is in no cycle.
LEMMA AllocStep ==
    ASSUME CollectorAssumption, ~Concurrent, IInv, NEW o \in Obj, Alloc(o)
    PROVE  IInv' /\ [H!Next]_H!vars
<1>1. MutatorRuns
    BY DEF Alloc
<1> USE <1>1, Programs
<1>2. TypeOK'
    <2>1. newAllocs' \in 0 .. MinAllocs
        BY AllocCounts
    <2>2. /\ allocated' \subseteq Obj /\ fresh' \subseteq Obj
          /\ rc' \in [Obj -> Int] /\ handles' \in [Obj -> Nat]
          /\ epochRc' \in [Obj -> Int] /\ crc' \in [Obj -> Int]
          /\ color' \in [Obj -> Color] /\ buffered' \in [Obj -> BOOLEAN]
        BY DEF Alloc, TypeOK, Color
    <2>3. UNCHANGED <<slots, locked, force, waiting, pc, iter, taken, mine, toSweep, roots, cycles,
                      freedObjs, work>>
        BY DEF Alloc, loopVars, listVars, setVars
    <2> QED
        BY <2>1, <2>2, <2>3 DEF TypeOK
<1>3. Condemned' = {}
    BY DEF Alloc, Condemned, Entries
<1>4. slots[o] = Empty
    BY CalmHeap DEF Alloc
<1>5. H!Alloc(o)
    <2>1. SlotsBar' = slots' /\ slots' = slots
        BY <1>2, <1>3, CalmBarsNext DEF Alloc
    <2>2. StatusBar' = [StatusBar EXCEPT ![o] = "live"] /\ StatusBar[o] = "free"
        BY <1>3 DEF StatusBar, Alloc
    <2>3. slots' = [slots EXCEPT ![o] = H!Empty]
        BY <1>4, <2>1 DEF TypeOK, Empty, H!Empty
    <2> QED
        BY <2>1, <2>2, <2>3 DEF Alloc, H!Alloc
<1>6. H!Next
    BY <1>5 DEF H!Next
<1>7. H!Inv'
    BY <1>6, HeapStep
<1>8. o \notin Parked(cycles) /\ color[o] = "Black" /\ color' = color
    BY DEF Alloc, Lists, TypeOK
<1>9. Resting'
    <2>1. cycles' = cycles /\ slots' = slots /\ freedObjs' = freedObjs /\ allocated \subseteq allocated'
        BY DEF Alloc, setVars
    <2>2. \A x \in Obj : x # o => handles'[x] = handles[x] /\ crc'[x] = crc[x] /\ rc'[x] = rc[x] /\ epochRc'[x] = epochRc[x]
        BY DEF Alloc, TypeOK
    <2>3. \A x \in Parked(cycles) : color[x] = "Orange" /\ rc[x] <= epochRc[x]
        BY DEF Resting
    <2>4. \A x \in Obj : color[x] = "Orange" => x \in Parked(cycles)
        BY DEF Resting, Coloured
    <2> QED
        BY <1>2, <1>8, <2>1, <2>2, <2>3, <2>4, RestKept
<1>10. Quiet'
    BY DEF Quiet, Alloc, NoLockAcrossEpoch
<1>11. Lists'
    BY <1>8 DEF Lists, Alloc, loopVars, listVars, setVars
<1>12. \A x \in Obj : color'[x] \in {"Black", "Orange"}
    BY <1>8 DEF AtRest, Coloured
<1>13. pc' = "await"
    BY DEF Alloc, loopVars
<1>14. IInv'
    BY <1>2, <1>7, <1>9, <1>10, <1>11, <1>12, <1>13, AwaitIs
<1> QED
    BY <1>6, <1>14

\* Clone, Drop and Load: o is held before, or a field of what is held.
LEMMA HandleStep ==
    ASSUME CollectorAssumption, ~Concurrent, IInv, MutatorRuns, NEW o \in Obj, o \notin Parked(cycles),
           TypeOK', \A x \in Obj \ {o} : handles'[x] = handles[x] /\ rc'[x] = rc[x],
           \A p \in locked : handles'[p] > 0,
           UNCHANGED <<allocated, slots, locked, header, heapVars, loopVars, listVars, setVars, work>>
    PROVE  /\ (H!Inv' => IInv')
           /\ Condemned' = {}
           /\ SlotsBar' = slots
           /\ StatusBar' = StatusBar
<1> USE Programs
<1>1. Condemned' = {}
    BY DEF Condemned, Entries
<1>2. Resting'
    <2>1. UNCHANGED <<allocated, slots, cycles, freedObjs, crc, color, epochRc>>
        BY DEF header, setVars
    <2>2. \A x \in Parked(cycles) : color[x] = "Orange" /\ rc[x] <= epochRc[x]
        BY DEF Resting
    <2>3. \A x \in Obj : color[x] = "Orange" => x \in Parked(cycles)
        BY DEF Resting, Coloured
    <2> QED
        BY <2>1, <2>2, <2>3, RestKept
<1>3. Quiet'
    BY DEF Quiet, loopVars, heapVars, ShouldCollect
<1>4. Lists'
    BY DEF Lists, loopVars, listVars, setVars, header, heapVars
<1>5. \A x \in Obj : color'[x] \in {"Black", "Orange"}
    BY DEF AtRest, Coloured, header
<1>6. pc' = "await"
    BY DEF loopVars
<1>7. H!Inv' => IInv'
    BY <1>2, <1>3, <1>4, <1>5, <1>6, AwaitIs
<1>8. SlotsBar' = slots
    BY <1>1, CalmBarsNext
<1>9. StatusBar' = StatusBar
    BY <1>1 DEF StatusBar
<1> QED
    BY <1>1, <1>7, <1>8, <1>9

\* A reference that is cloned is not to a parked object: those have no handles.
LEMMA CloneStep ==
    ASSUME CollectorAssumption, ~Concurrent, IInv, NEW o \in Obj, Clone(o)
    PROVE  IInv' /\ [H!Next]_H!vars
<1>1. MutatorRuns
    BY DEF Clone
<1> USE <1>1, Programs
<1>2. handles[o] \in Nat /\ handles[o] > 0 /\ handles[o] + 1 \in Nat /\ rc[o] + 1 \in Int
    BY DEF Clone, TypeOK, CollectorAssumption
<1>3. TypeOK'
    BY <1>2 DEF Clone, TypeOK, header, heapVars, loopVars, listVars, setVars
<1>4. o \notin Parked(cycles)
    BY <1>2
<1>5. \A x \in Obj \ {o} : handles'[x] = handles[x] /\ rc'[x] = rc[x]
    BY DEF Clone, TypeOK
<1>6. \A p \in locked : handles'[p] > 0
    BY <1>2 DEF Clone, Quiet, TypeOK
<1>7. UNCHANGED <<allocated, slots, locked, header, heapVars, loopVars, listVars, setVars, work>>
    BY DEF Clone
<1>8. (H!Inv' => IInv') /\ SlotsBar' = slots /\ StatusBar' = StatusBar
    BY <1>3, <1>4, <1>5, <1>6, <1>7, HandleStep
<1>9. H!Clone(o)
    BY <1>8 DEF H!Clone, Clone
<1>10. H!Next
    BY <1>9 DEF H!Next
<1> QED
    BY <1>8, <1>10, HeapStep

\* A reference that is dropped is not to a parked object.
LEMMA DropStep ==
    ASSUME CollectorAssumption, ~Concurrent, IInv, NEW o \in Obj, Drop(o)
    PROVE  IInv' /\ [H!Next]_H!vars
<1>1. MutatorRuns
    BY DEF Drop
<1> USE <1>1, Programs
<1>2. handles[o] \in Nat /\ handles[o] > 0 /\ handles[o] - 1 \in Nat /\ rc[o] - 1 \in Int
    BY DEF Drop, Spare, TypeOK
<1>3. TypeOK'
    BY <1>2 DEF Drop, TypeOK, header, heapVars, loopVars, listVars, setVars
<1>4. o \notin Parked(cycles)
    BY <1>2
<1>5. \A x \in Obj \ {o} : handles'[x] = handles[x] /\ rc'[x] = rc[x]
    BY DEF Drop, TypeOK
<1>6. \A p \in locked : handles'[p] > 0
    BY <1>2 DEF Drop, Quiet, TypeOK, Spare
<1>7. UNCHANGED <<allocated, slots, locked, header, heapVars, loopVars, listVars, setVars, work>>
    BY DEF Drop
<1>8. (H!Inv' => IInv') /\ SlotsBar' = slots /\ StatusBar' = StatusBar
    BY <1>3, <1>4, <1>5, <1>6, <1>7, HandleStep
<1>9. H!Drop(o)
    BY <1>2, <1>8 DEF H!Drop, Drop
<1>10. H!Next
    BY <1>9 DEF H!Next
<1> QED
    BY <1>8, <1>10, HeapStep

\* A field that a program reads is not one of a parked object, and nothing outside refers to one.
LEMMA LoadStep ==
    ASSUME CollectorAssumption, ~Concurrent, IInv, NEW p \in Obj, NEW k \in Slot, Load(p, k)
    PROVE  IInv' /\ [H!Next]_H!vars
<1>1. MutatorRuns
    BY DEF Load
<1> USE <1>1, Programs
<1>2. PICK c : c = slots[p][k]
    OBVIOUS
<1>3. c \in Obj /\ c # Null /\ handles[c] < MaxHandles /\ handles[p] > 0
    BY <1>2 DEF Load, TypeOK
<1>4. rc' = [rc EXCEPT ![c] = @ + 1] /\ handles' = [handles EXCEPT ![c] = @ + 1]
    BY <1>2 DEF Load
<1>5. handles[c] \in Nat /\ handles[c] + 1 \in Nat /\ rc[c] + 1 \in Int
    BY <1>3 DEF TypeOK
<1>6. UNCHANGED <<allocated, slots, locked, header, heapVars, loopVars, listVars, setVars, work>>
    BY DEF Load
<1>7. TypeOK'
    BY <1>4, <1>5, <1>6 DEF TypeOK, header, heapVars, loopVars, listVars, setVars
<1>8. c \notin Parked(cycles)
    <2>1. p \notin Parked(cycles)
        BY <1>3
    <2> QED
        BY <1>2, <2>1
<1>9. \A x \in Obj \ {c} : handles'[x] = handles[x] /\ rc'[x] = rc[x]
    BY <1>3, <1>4 DEF TypeOK
<1>10. \A x \in locked : handles'[x] > 0
    BY <1>4, <1>5 DEF Quiet, TypeOK
<1>11. (H!Inv' => IInv') /\ SlotsBar' = slots /\ StatusBar' = StatusBar
    BY <1>3, <1>6, <1>7, <1>8, <1>9, <1>10, HandleStep
<1>12. H!Load(p, k)
    BY <1>2, <1>3, <1>4, <1>6, <1>11, Zenon DEF H!Load
<1>13. H!Next
    BY <1>12 DEF H!Next
<1> QED
    BY <1>11, <1>13, HeapStep

\* Locks change nothing that the collector sees at rest.
LEMMA LockStep ==
    ASSUME CollectorAssumption, ~Concurrent, IInv, NEW p \in Obj, WriteLock(p) \/ WriteUnlock(p)
    PROVE  IInv' /\ [H!Next]_H!vars
<1>1. MutatorRuns
    BY DEF WriteLock, WriteUnlock
<1> USE <1>1, Programs
<1>2. UNCHANGED <<allocated, rc, handles, slots, header, heapVars, loopVars, listVars, setVars, work>>
    BY DEF WriteLock, WriteUnlock
<1>3. TypeOK'
    BY <1>2 DEF WriteLock, WriteUnlock, TypeOK, header, heapVars, loopVars, listVars, setVars
<1>4. Condemned' = {}
    BY <1>2 DEF Condemned, Entries
<1>5. UNCHANGED H!vars
    BY <1>2, <1>3, <1>4, CalmStep
<1>6. H!Inv'
    BY <1>5, HeapStep
<1>7. \A x \in locked' : handles'[x] > 0
    BY <1>2 DEF WriteLock, WriteUnlock, Quiet, TypeOK
<1>8. Quiet'
    BY <1>2, <1>7 DEF Quiet, loopVars, heapVars, ShouldCollect
<1>9. Lists'
    BY <1>2 DEF Lists, loopVars, listVars, setVars, header, heapVars
<1>10. \A x \in Obj : color'[x] \in {"Black", "Orange"}
    BY <1>2 DEF AtRest, Coloured, header
<1>11. pc' = "await"
    BY <1>2 DEF loopVars
<1>12. Resting'
    <2>1. UNCHANGED <<allocated, rc, handles, slots, cycles, freedObjs, crc, color, epochRc>>
        BY <1>2 DEF header, setVars
    <2>2. \A x \in Parked(cycles) : color[x] = "Orange" /\ rc[x] <= epochRc[x]
        BY DEF Resting
    <2>3. \A x \in Obj : color[x] = "Orange" => x \in Parked(cycles)
        BY DEF Resting, Coloured
    <2> QED
        BY <1>3, <2>1, <2>2, <2>3, RestKept
<1> QED
    BY <1>3, <1>5, <1>6, <1>8, <1>9, <1>10, <1>11, <1>12, AwaitIs

\* Nor does a request for a collection.
LEMMA AskStep ==
    ASSUME CollectorAssumption, ~Concurrent, IInv, NEW t \in Thread, CollectGarbage(t)
    PROVE  IInv' /\ [H!Next]_H!vars
<1>1. MutatorRuns
    BY DEF CollectGarbage
<1> USE <1>1, Programs
<1>2. UNCHANGED <<mutVars, header, fresh, newAllocs, loopVars, listVars, setVars, work>>
    BY DEF CollectGarbage
<1>3. TypeOK'
    BY <1>2 DEF CollectGarbage, TypeOK, mutVars, header, loopVars, listVars, setVars
<1>4. Condemned' = {}
    BY <1>2 DEF Condemned, Entries
<1>5. UNCHANGED H!vars
    BY <1>2, <1>3, <1>4, CalmStep DEF mutVars
<1>6. H!Inv'
    BY <1>5, HeapStep
<1>7. Quiet'
    BY <1>2 DEF Quiet, CollectGarbage, NoLockAcrossEpoch, mutVars
<1>8. Lists'
    BY <1>2 DEF Lists, loopVars, listVars, setVars, header, mutVars
<1>9. \A x \in Obj : color'[x] \in {"Black", "Orange"}
    BY <1>2 DEF AtRest, Coloured, header
<1>10. pc' = "await"
    BY <1>2 DEF loopVars
<1>11. Resting'
    <2>1. UNCHANGED <<allocated, rc, handles, slots, cycles, freedObjs, crc, color, epochRc>>
        BY <1>2 DEF header, setVars, mutVars
    <2>2. \A x \in Parked(cycles) : color[x] = "Orange" /\ rc[x] <= epochRc[x]
        BY DEF Resting
    <2>3. \A x \in Obj : color[x] = "Orange" => x \in Parked(cycles)
        BY DEF Resting, Coloured
    <2> QED
        BY <1>3, <2>1, <2>2, <2>3, RestKept
<1> QED
    BY <1>3, <1>5, <1>6, <1>7, <1>8, <1>9, <1>10, <1>11, AwaitIs

\* Swap moves a reference between a handle and a field; neither end is parked.
LEMMA SwapStep ==
    ASSUME CollectorAssumption, ~Concurrent, IInv,
           NEW p \in Obj, NEW k \in Slot, NEW v \in Obj \union {Null}, Swap(p, k, v)
    PROVE  IInv' /\ [H!Next]_H!vars
<1>1. MutatorRuns
    BY DEF Swap
<1> USE <1>1, Programs
<1>2. PICK old : old = slots[p][k]
    OBVIOUS
<1>3. UNCHANGED <<allocated, rc, locked, header, heapVars, loopVars, listVars, setVars, work>>
    BY DEF Swap
<1>4. /\ handles' = [o \in Obj |-> handles[o] + (IF o = old THEN 1 ELSE 0) - (IF o = v THEN 1 ELSE 0)]
      /\ slots' = [slots EXCEPT ![p][k] = v]
      /\ v # old
    BY <1>2 DEF Swap
<1>5. handles[p] > 0
    BY DEF Swap, Quiet
<1>6. v # Null => v \in Obj /\ handles[v] \in Nat /\ handles[v] > 0 /\ (v \in locked => handles[v] > 1)
    <2>1. v # Null => Spare(v) > 0 /\ v \in Obj
        BY DEF Swap
    <2>2. v \in Obj => handles[v] \in Nat
        BY DEF TypeOK
    <2> QED
        BY ONLY <2>1, <2>2 DEF Spare
<1>7. \A o \in Obj : /\ handles[o] \in Nat
                    /\ handles'[o] = handles[o] + (IF o = old THEN 1 ELSE 0) - (IF o = v THEN 1 ELSE 0)
    BY <1>4 DEF TypeOK
<1>8. \A o \in Obj : o # Null
    BY DEF CollectorAssumption
<1>9. \A o \in Obj : handles'[o] \in Nat /\ (o \in locked => handles'[o] > 0)
    BY <1>4, <1>6, <1>7, <1>8 DEF Quiet
<1>10. handles' \in [Obj -> Nat]
    BY <1>4, <1>9
<1>11. slots' \in [Obj -> [Slot -> Obj \union {Null}]]
    BY <1>4 DEF TypeOK
<1>12. TypeOK'
    BY <1>3, <1>10, <1>11 DEF TypeOK, header, heapVars, loopVars, listVars, setVars
<1>13. Condemned' = {}
    BY <1>3 DEF Condemned, Entries
<1>14. SlotsBar' = slots' /\ StatusBar' = StatusBar
    BY <1>3, <1>12, <1>13, CalmBarsNext DEF StatusBar
<1>15. H!Swap(p, k, v)
    BY <1>2, <1>3, <1>4, <1>5, <1>6, <1>14 DEF H!Swap, H!Write, H!Exchanged
<1>16. H!Next
    BY <1>15 DEF H!Next
<1>17. H!Inv'
    BY <1>16, HeapStep
<1>18. v \notin Parked(cycles) /\ old \notin Parked(cycles)
    <2>1. p \notin Parked(cycles)
        BY <1>5
    <2> QED
        BY <1>2, <1>6, <1>8, <2>1
<1>19. \A x \in Obj, j \in Slot : slots'[x][j] = slots[x][j] \/ slots'[x][j] = v
    BY <1>4 DEF TypeOK
<1>20. Resting'
    <2>1. UNCHANGED <<allocated, rc, cycles, freedObjs, crc, color, epochRc>>
        BY <1>3 DEF header, setVars
    <2>2. \A x \in Parked(cycles) : color[x] = "Orange" /\ rc[x] <= epochRc[x]
        BY DEF Resting
    <2>3. \A x \in Obj : color[x] = "Orange" => x \in Parked(cycles)
        BY DEF Resting, Coloured
    <2>4. \A x \in Parked(cycles) : handles'[x] = 0
        BY <1>7, <1>18
    <2>5. \A x \in Obj, j \in Slot : slots'[x][j] \in Parked(cycles) => slots'[x][j] = slots[x][j]
        BY <1>18, <1>19
    <2> QED
        BY <1>12, <2>1, <2>2, <2>3, <2>4, <2>5, RestKept
<1>21. Quiet'
    BY <1>3, <1>9 DEF Quiet, TypeOK, loopVars, heapVars, ShouldCollect
<1>22. Lists'
    BY <1>3 DEF Lists, loopVars, listVars, setVars, header, heapVars
<1>23. \A x \in Obj : color'[x] \in {"Black", "Orange"}
    BY <1>3 DEF AtRest, Coloured, header
<1>24. pc' = "await"
    BY <1>3 DEF loopVars
<1> QED
    BY <1>12, <1>16, <1>17, <1>20, <1>21, <1>22, <1>23, <1>24, AwaitIs

\* Every step of a program.
LEMMA MutatorStep ==
    ASSUME CollectorAssumption, ~Concurrent, IInv, Mutator
    PROVE  IInv' /\ [H!Next]_H!vars
BY AllocStep, CloneStep, DropStep, LoadStep, LockStep, AskStep, SwapStep DEF Mutator

----------------------------------------------------------------------------
(* Traversals that change neither counts nor fields.                        *)

\* The phases in which the epoch looks for garbage cycles.
Traversing == pc \in {"mark", "scan", "collect", "sigma"}

\* While it does, nothing is condemned, and no count exceeds the one noted by the sweep.
LEMMA Calm ==
    ASSUME CollectorAssumption, IInv, Traversing
    PROVE  /\ TypeOK /\ H!Inv /\ Lists
           /\ locked = {} /\ Condemned = {} /\ toSweep = {}
           /\ allocated \subseteq Obj
           /\ \A o \in allocated : rc[o] <= epochRc[o]
           /\ \A p \in Obj, k \in Slot : slots[p][k] # Null => slots[p][k] \in allocated
<1>1. TypeOK /\ H!Inv /\ Lists /\ Quiet /\ Counted
    BY DEF IInv
<1>2. locked = {} /\ toSweep = {}
    BY <1>1 DEF Traversing, Quiet, Lists
<1>3. Condemned = {}
    <2>1. CASE pc = "mark"
        <3>1. Plain({"MarkGray"})
            BY <2>1 DEF IInv, Marking
        <3> QED
            BY <3>1, PlainIsCalm
    <2>2. CASE pc = "scan"
        <3>1. Plain({"Scan", "ScanBlack"})
            BY <2>2 DEF IInv, Scanning
        <3> QED
            BY <3>1, PlainIsCalm
    <2>3. CASE pc = "collect"
        <3>1. Plain({"CollectWhite"})
            BY <2>3 DEF IInv, Collecting
        <3> QED
            BY <3>1, PlainIsCalm
    <2>4. CASE pc = "sigma"
        <3>1. work = <<>> \/ Plain({"SubKids", "Paint"})
            BY <2>4 DEF IInv, Preparing, Balancing
        <3> QED
            BY <3>1, PlainIsCalm, EmptyIsCalm
    <2> QED
        BY <2>1, <2>2, <2>3, <2>4 DEF Traversing
<1>4. \A o \in allocated : rc[o] <= epochRc[o]
    BY <1>1, <1>2, <1>3 DEF Counted, Traversing
<1>5. \A p \in Obj, k \in Slot : slots[p][k] # Null => slots[p][k] \in allocated
    BY <1>1, <1>3, CalmHeap
<1> QED
    BY <1>1, <1>2, <1>3, <1>4, <1>5 DEF TypeOK

\* A step that changes neither counts nor fields then changes nothing of the heap.
LEMMA CalmFrame ==
    ASSUME CollectorAssumption, IInv, Traversing, TypeOK', Condemned' = {},
           UNCHANGED <<mutVars, epochRc, mine, toSweep>>, pc' # "await"
    PROVE  UNCHANGED H!vars /\ H!Inv' /\ Quiet' /\ Counted'
<1>1. UNCHANGED H!vars
    BY Calm, CalmStep DEF mutVars
<1>2. H!Inv'
    BY <1>1, Calm, HeapStep
<1>3. Quiet'
    BY Calm DEF Quiet, mutVars
<1>4. Counted'
    BY Calm DEF Counted, mutVars
<1> QED
    BY <1>1, <1>2, <1>3, <1>4

\* What there is to show after a step of these phases.
LEMMA TraverseIs ==
    ASSUME TypeOK', H!Inv', Quiet', Lists', Counted',
           \/ pc' = "mark" /\ Marking'
           \/ pc' = "scan" /\ Scanning'
           \/ pc' = "collect" /\ Collecting'
           \/ pc' = "sigma" /\ Preparing'
           \/ pc' = "splice" /\ AtRest'
    PROVE  IInv'
BY DEF IInv

\* The entries of a plain stack after a pop.
LEMMA PlainPop ==
    ASSUME TypeOK, NEW ops, Plain(ops), "Free" \notin ops, allocated' = allocated,
           NEW op, NEW s \in Obj, Popping(op, s),
           NEW es \in Seq(Entry), Push(es),
           \A e \in ToSet(es) : \E oq \in ops, o \in allocated : e = Do(oq, o)
    PROVE  /\ work' \in Seq(Entry)
           /\ IsPush(work', es, work)
           /\ Plain(ops)' /\ Condemned' = {}
           /\ s \in allocated /\ op \in ops /\ Head(work) = Do(op, s)
           /\ Do(op, s) \in Entries
           /\ ToSet(es) \subseteq Entries'
           /\ \A e \in Entries : e # Do(op, s) => e \in Entries'
<1>1. work # <<>> /\ Head(work).op = op /\ Head(work).obj = s /\ work' = es \o Tail(work)
    BY DEF Popping, Push
<1>2. work \in Seq(Entry)
    BY DEF TypeOK
<1>3. PICK x : x = es \o Tail(work)
    OBVIOUS
<1>4. x \in Seq(Entry) /\ IsPush(x, es, work)
    BY <1>1, <1>2, <1>3, PushIs
<1>5. work' = x
    BY <1>1, <1>3, Zenon
<1>6. work' \in Seq(Entry) /\ IsPush(work', es, work)
    BY <1>4, <1>5, Zenon
<1>7. Head(work) \in Entries
    BY <1>1, <1>2, HeadIn DEF Entries
<1>8. PICK oq \in ops, o \in allocated : Head(work) = Do(oq, o)
    BY <1>7 DEF Plain
<1>9. oq = op /\ o = s
    BY <1>1, <1>8 DEF Do
<1>10. /\ ToSet(work') \subseteq ToSet(es) \union ToSet(work)
       /\ ToSet(es) \subseteq ToSet(work')
       /\ \A e \in ToSet(work) : e # Head(work) => e \in ToSet(work')
    <2> HIDE <1>3
    <2>1. /\ ToSet(x) \subseteq ToSet(es) \union ToSet(work)
          /\ ToSet(es) \subseteq ToSet(x)
          /\ \A e \in ToSet(work) : e # Head(work) => e \in ToSet(x)
        BY <1>1, <1>2, <1>4, PushSet
    <2> QED
        BY <1>5, <2>1, Zenon
<1>11. Plain(ops)'
    BY <1>10 DEF Plain, Entries
<1>12. Condemned' = {}
    BY <1>11 DEF Plain, Condemned, Do
<1> QED
    BY <1>6, <1>7, <1>8, <1>9, <1>10, <1>11, <1>12 DEF Entries

\* The empty stack is about nothing.
LEMMA NoEntries ==
    /\ <<>> \in Seq(Entry)
    /\ ToSet(<<>>) = {}
    /\ \A g : Visits(<<>>, g) = 0
<1>1. <<>> \in Seq(Entry)
    OBVIOUS
<1>2. ToSet(<<>>) = {}
    BY <1>1, ToSetEmpty
<1>3. ASSUME NEW g PROVE Visits(<<>>, g) = 0
    <2>1. {i \in 1 .. Len(<<>>) : <<>>[i].obj = g} = {}
        OBVIOUS
    <2> QED
        BY <2>1, FS_EmptySet DEF Visits
<1> QED
    BY <1>1, <1>2, <1>3

\* Children are allocated.
LEMMA KidsPlain ==
    ASSUME TypeOK, NEW s \in Obj, NEW ops, NEW op \in ops, NEW es, KidList(es, op, s),
           \A p \in Obj, k \in Slot : slots[p][k] # Null => slots[p][k] \in allocated
    PROVE  /\ es \in Seq(Entry)
           /\ \A e \in ToSet(es) : \E oq \in ops, o \in allocated : e = Do(oq, o)
<1>1. es \in Seq(Entry)
    BY DEF KidList
<1>2. \A c \in Kids(slots, s) : c \in allocated
    BY DEF Kids
<1>3. ToSet(es) = {es[i] : i \in 1 .. Len(es)}
    BY <1>1, ToSetIs
<1> QED
    BY <1>1, <1>2, <1>3 DEF KidList

\* An entry of a plain traversal is about an allocated object.
LEMMA PlainOp ==
    ASSUME NEW ops, Plain(ops), NEW e \in Entries
    PROVE  e.op \in ops /\ e.obj \in allocated /\ e = Do(e.op, e.obj)
BY DEF Plain, Do

\* The kinds of entries of a release.
LEMMA DueOp ==
    ASSUME Releasing, NEW e \in Entries
    PROVE  e.op \in {"Free", "CycleKids", "Decrement", "CyclicDecrement"}
BY DEF Releasing, Due, Do, DoField

\* What runs in which phase.
LEMMA PopPhase ==
    ASSUME CollectorAssumption, IInv, NEW op, NEW s, Popping(op, s)
    PROVE  /\ op = "MarkGray" => pc = "mark"
           /\ op = "Scan" => pc = "scan"
           /\ op = "ScanBlack" => pc \in {"scan", "sweep"}
           /\ op = "CollectWhite" => pc = "collect"
           /\ op \in {"SubKids", "Paint"} => pc = "sigma"
           /\ op \in {"Free", "CycleKids", "Decrement", "CyclicDecrement"} =>
                 pc \in {"sweep", "free"} /\ Releasing
<1>1. TypeOK /\ Lists
    BY DEF IInv
<1>2. work # <<>> /\ work \in Seq(Entry) /\ Head(work).op = op
    BY <1>1 DEF Popping, TypeOK
<1>3. Head(work) \in Entries
    BY <1>2, HeadIn DEF Entries
<1>4. pc \notin {"await", "splice"}
    BY <1>1, <1>2 DEF Lists
<1>5. CASE pc = "mark"
    <2>1. Plain({"MarkGray"})
        BY <1>5 DEF IInv, Marking
    <2>2. op \in {"MarkGray"}
        BY <1>2, <1>3, <2>1, PlainOp
    <2> QED
        BY <1>5, <2>2
<1>6. CASE pc = "scan"
    <2>1. Plain({"Scan", "ScanBlack"})
        BY <1>6 DEF IInv, Scanning
    <2>2. op \in {"Scan", "ScanBlack"}
        BY <1>2, <1>3, <2>1, PlainOp
    <2> QED
        BY <1>6, <2>2
<1>7. CASE pc = "collect"
    <2>1. Plain({"CollectWhite"})
        BY <1>7 DEF IInv, Collecting
    <2>2. op \in {"CollectWhite"}
        BY <1>2, <1>3, <2>1, PlainOp
    <2> QED
        BY <1>7, <2>2
<1>8. CASE pc = "sigma"
    <2>1. Plain({"SubKids", "Paint"})
        BY <1>2, <1>8 DEF IInv, Preparing, Balancing
    <2>2. op \in {"SubKids", "Paint"}
        BY <1>2, <1>3, <2>1, PlainOp
    <2> QED
        BY <1>8, <2>2
<1>9. CASE pc = "free"
    <2>1. Releasing
        BY <1>9 DEF IInv, Freeing
    <2>2. op \in {"Free", "CycleKids", "Decrement", "CyclicDecrement"}
        BY <1>2, <1>3, <2>1, DueOp
    <2> QED
        BY <1>9, <2>1, <2>2
<1>10. CASE pc = "sweep"
    <2>1. Plain({"ScanBlack"}) \/ Releasing
        BY <1>10 DEF IInv, Sweeping
    <2>2. CASE Plain({"ScanBlack"})
        <3>1. op \in {"ScanBlack"}
            BY <1>2, <1>3, <2>2, PlainOp
        <3> QED
            BY <1>10, <3>1
    <2>3. CASE Releasing
        <3>1. op \in {"Free", "CycleKids", "Decrement", "CyclicDecrement"}
            BY <1>2, <1>3, <2>3, DueOp
        <3> QED
            BY <1>10, <2>3, <3>1
    <2> QED
        BY <2>1, <2>2, <2>3
<1> QED
    BY <1>1, <1>4, <1>5, <1>6, <1>7, <1>8, <1>9, <1>10 DEF TypeOK, Phase

----------------------------------------------------------------------------
(* mark_roots.                                                              *)

\* The entry on top counts.
LEMMA VisitsHead ==
    ASSUME NEW w \in Seq(Entry), w # <<>>, NEW g, Head(w).obj = g
    PROVE  Visits(w, g) >= 1
<1>1. 1 \in {i \in 1 .. Len(w) : w[i].obj = g}
    BY HeadIn
<1>2. IsFiniteSet({i \in 1 .. Len(w) : w[i].obj = g})
    BY VisitsIs
<1>3. Cardinality({i \in 1 .. Len(w) : w[i].obj = g}) # 0
    BY <1>1, <1>2, FS_EmptySet
<1>4. Visits(w, g) # 0
    BY <1>3 DEF Visits
<1>5. PICK v \in Nat : v = Visits(w, g)
    BY VisitsIs
<1> QED
    BY <1>4, <1>5

\* The references to g from G, and from outside, when s joins G and makes it U.
Joins(G, U, s, g) ==
    /\ Cardinality(From(slots, Obj \ G, g)) = Cardinality(From(slots, Obj \ U, g)) + Cardinality(From(slots, {s}, g))
    /\ Cardinality(From(slots, U, g)) = Cardinality(From(slots, G, g)) + Cardinality(From(slots, {s}, g))

\* References are counted from outside U = G and s, or from inside.
LEMMA JoinGray ==
    ASSUME CollectorAssumption, NEW G, NEW s \in Obj, s \notin G, NEW U, U = G \union {s}, NEW g
    PROVE  Joins(G, U, s, g)
<1>1. PICK A : A = Obj \ G
    OBVIOUS
<1>2. PICK B : B = Obj \ U
    OBVIOUS
<1>3. B \intersect {s} = {} /\ A = B \union {s} /\ G \intersect {s} = {}
    BY <1>1, <1>2
<1>4. Cardinality(From(slots, A, g)) = Cardinality(From(slots, B, g)) + Cardinality(From(slots, {s}, g))
    BY <1>3, FromSplit
<1>5. Cardinality(From(slots, U, g)) = Cardinality(From(slots, G, g)) + Cardinality(From(slots, {s}, g))
    BY <1>3, FromSplit
<1> QED
    BY <1>1, <1>2, <1>4, <1>5, Zenon DEF Joins

\* What holds while marking.
LEMMA MarkFrame ==
    ASSUME CollectorAssumption, IInv, pc = "mark"
    PROVE  /\ Traversing /\ Marking
           /\ \A o \in Obj : color[o] = "Gray" => o \in allocated
           /\ roots \subseteq allocated /\ iter \subseteq roots
<1>1. Traversing /\ Marking
    BY DEF Traversing, IInv
<1>2. \A o \in Obj : color[o] = "Gray" => o \in allocated
    BY DEF IInv, Lists
<1> QED
    BY <1>1, <1>2 DEF IInv, Lists

\* s turns gray, and its children are to be visited.
LEMMA MarkVisit ==
    ASSUME CollectorAssumption, IInv, pc = "mark", NEW s \in allocated, color[s] # "Gray",
           NEW es, KidList(es, "MarkGray", s),
           color' = [color EXCEPT ![s] = "Gray"], slots' = slots, handles' = handles,
           NEW n \in {0, 1}, NEW m \in Int, epochRc[s] - n <= m, crc' = [crc EXCEPT ![s] = m],
           work' \in Seq(Entry),
           \A g \in Obj : Visits(work', g) + (IF g = s THEN n ELSE 0) = Visits(work, g) + Visits(es, g)
    PROVE  /\ \A g \in Coloured({"Gray"})' :
                handles'[g] + Cardinality(From(slots', Obj \ Coloured({"Gray"})', g)) + Visits(work', g) <= crc'[g]
           /\ \A g \in Obj \ Coloured({"Gray"})' :
                Visits(work', g) <= Cardinality(From(slots', Coloured({"Gray"})', g))
<1>1. PICK G : G = Coloured({"Gray"})
    OBVIOUS
<1>2. PICK U : U = Coloured({"Gray"})'
    OBVIOUS
<1>3. TypeOK /\ H!Inv /\ Condemned = {} /\ allocated \subseteq Obj /\ Traversing
    BY MarkFrame, Calm
<1>4. s \in Obj /\ s \notin G /\ U = G \union {s} /\ G \subseteq allocated /\ U \subseteq Obj
    BY <1>1, <1>2, <1>3, MarkFrame DEF Coloured, TypeOK
<1>5. /\ \A g \in G : handles[g] + Cardinality(From(slots, Obj \ G, g)) + Visits(work, g) <= crc[g]
      /\ \A g \in Obj \ G : Visits(work, g) <= Cardinality(From(slots, G, g))
    BY <1>1, MarkFrame, Zenon DEF Marking
<1>6. ASSUME NEW g \in Obj
      PROVE  /\ g \in U => handles[g] + Cardinality(From(slots, Obj \ U, g)) + Visits(work', g) <= crc'[g]
             /\ g \notin U => Visits(work', g) <= Cardinality(From(slots, U, g))
    <2>1. PICK a \in Nat : a = Cardinality(From(slots, Obj \ G, g))
        BY FromIs
    <2>2. PICK b \in Nat : b = Cardinality(From(slots, Obj \ U, g))
        BY FromIs
    <2>3. PICK c \in Nat : c = Cardinality(From(slots, {s}, g))
        BY FromIs
    <2>4. PICK d \in Nat : d = Cardinality(From(slots, G, g))
        BY FromIs
    <2>5. PICK e \in Nat : e = Cardinality(From(slots, U, g))
        BY FromIs
    <2>6. a = b + c /\ e = d + c
        <3>1. Joins(G, U, s, g)
            BY <1>4, JoinGray
        <3> QED
            BY <2>1, <2>2, <2>3, <2>4, <2>5, <3>1, Zenon DEF Joins
    <2>7. Visits(es, g) = c
        BY <2>3, <1>3 DEF KidList
    <2>8. PICK v \in Nat : v = Visits(work, g)
        BY <1>3, VisitsIs DEF TypeOK
    <2>9. PICK w \in Nat : w = Visits(work', g)
        BY VisitsIs
    <2>10. w + (IF g = s THEN n ELSE 0) = v + c
        BY <2>7, <2>8, <2>9
    <2>11. handles[g] \in Nat /\ crc[g] \in Int
        BY <1>3 DEF TypeOK
    <2>12. CASE g \in G
        <3>1. g # s /\ crc'[g] = crc[g]
            BY <1>3, <1>4, <2>12 DEF TypeOK
        <3>2. handles[g] + a + v <= crc[g]
            BY <1>5, <2>1, <2>8, <2>12
        <3>3. handles[g] + b + w <= crc'[g]
            BY <2>6, <2>10, <2>11, <3>1, <3>2
        <3> QED
            BY <1>4, <2>2, <2>9, <2>12, <3>3
    <2>13. CASE g = s
        <3>1. rc[g] = handles[g] + e + b /\ rc[g] <= epochRc[g]
            BY <1>3, <1>4, <2>2, <2>5, <2>13, CalmCounts, Calm
        <3>2. v <= d
            BY <1>4, <1>5, <2>4, <2>8, <2>13
        <3>3. crc'[g] = m /\ epochRc[g] \in Int
            BY <1>3, <1>4, <2>13 DEF TypeOK
        <3>4. epochRc[g] - n <= m
            BY <2>13
        <3>5. handles[g] + b + w <= crc'[g]
            <4>1. w + n = v + c
                BY <2>10, <2>13
            <4>2. PICK h, x, y, z : h = handles[g] /\ x = crc'[g] /\ y = rc[g] /\ z = epochRc[g]
                OBVIOUS
            <4>3. h \in Nat /\ x = m /\ y = h + e + b /\ y <= z /\ z - n <= m /\ z \in Int
                BY ONLY <2>11, <3>1, <3>3, <3>4, <4>2, Zenon
            <4>4. /\ a \in Nat /\ b \in Nat /\ c \in Nat /\ d \in Nat /\ e \in Nat /\ v \in Nat /\ w \in Nat
                  /\ m \in Int /\ n \in Nat
                BY <2>13
            <4>5. h + b + w <= x
                BY ONLY <2>6, <3>2, <4>1, <4>3, <4>4
            <4> QED
                BY ONLY <4>2, <4>5, Zenon
        <3> QED
            BY <1>4, <2>2, <2>9, <2>13, <3>5
    <2>14. CASE g \notin G /\ g # s
        <3>1. v <= d
            BY <1>5, <2>4, <2>8, <2>14
        <3>2. w <= e
            BY <2>6, <2>10, <2>14, <3>1
        <3> QED
            BY <1>4, <2>5, <2>9, <2>14, <3>2
    <2> QED
        BY <2>12, <2>13, <2>14
<1>7. \A g \in U : handles'[g] + Cardinality(From(slots', Obj \ U, g)) + Visits(work', g) <= crc'[g]
    BY <1>4, <1>6
<1>8. \A g \in Obj \ U : Visits(work', g) <= Cardinality(From(slots', U, g))
    BY <1>6
<1> QED
    BY <1>2, <1>7, <1>8, Zenon

\* mark_gray of a root: its circular count begins at the count noted, which the handles and
\* all references, from outside Gray objects and about to be visited, do not exceed.
LEMMA MarkRootStep ==
    ASSUME CollectorAssumption, IInv, NEW s \in Obj, MarkRoot(s)
    PROVE  IInv' /\ UNCHANGED H!vars
<1>1. pc = "mark" /\ work = <<>> /\ s \in iter
    BY DEF MarkRoot, At
<1> USE <1>1, MarkFrame, Calm
<1>2. s \in allocated
    OBVIOUS
<1>3. PICK es : es = KidEntries("MarkGray", s)
    OBVIOUS
<1>4. KidList(es, "MarkGray", s)
    BY <1>3, KidEntriesIs DEF Op
<1>5. /\ es \in Seq(Entry)
      /\ \A e \in ToSet(es) : \E oq \in {"MarkGray"}, o \in allocated : e = Do(oq, o)
    <2>1. PICK ops : ops = {"MarkGray"}
        OBVIOUS
    <2>2. "MarkGray" \in ops
        BY <2>1
    <2>3. es \in Seq(Entry) /\ \A e \in ToSet(es) : \E oq \in ops, o \in allocated : e = Do(oq, o)
        BY <1>4, <2>2, KidsPlain
    <2> QED
        BY <2>1, <2>3
<1>6. CASE color[s] = "Purple"
    <2>1. /\ color' = [color EXCEPT ![s] = "Gray"]
          /\ crc' = [crc EXCEPT ![s] = epochRc[s]]
          /\ work' = es
          /\ roots' = roots /\ iter' = iter \ {s}
          /\ UNCHANGED <<mutVars, epochRc, buffered, heapVars, pc, taken, listVars, cycles, freedObjs>>
        BY <1>3, <1>6, Zenon DEF MarkRoot
    <2>2. TypeOK'
        BY <1>5, <2>1 DEF TypeOK, mutVars, heapVars, listVars, Color
    <2>3. Plain({"MarkGray"})'
        BY <1>5, <2>1 DEF Plain, Entries, mutVars
    <2>4. Condemned' = {}
        BY <2>3 DEF Plain, Condemned, Do
    <2>5. UNCHANGED H!vars /\ H!Inv' /\ Quiet' /\ Counted'
        BY <2>1, <2>2, <2>4, CalmFrame DEF listVars
    <2>6. Lists'
        BY <1>2, <2>1 DEF Lists, TypeOK, mutVars, heapVars, listVars
    <2>7. Marking'
        <3>1. Coloured({"Black", "Purple", "Gray"})' = Obj
            BY <2>1, <2>2 DEF Marking, Coloured, TypeOK
        <3>2. Coloured({"Purple"})' \subseteq iter'
            BY <2>1 DEF Marking, Coloured, TypeOK
        <3>3. \A g \in Obj : Visits(work', g) + (IF g = s THEN 0 ELSE 0) = Visits(work, g) + Visits(es, g)
            <4>1. ASSUME NEW g \in Obj PROVE Visits(work', g) + (IF g = s THEN 0 ELSE 0) = Visits(work, g) + Visits(es, g)
                <5>1. Visits(work, g) = 0
                    BY NoEntries
                <5>2. Visits(work', g) = Visits(es, g) /\ Visits(es, g) \in Nat
                    BY <1>5, <2>1, VisitsIs
                <5> QED
                    BY <5>1, <5>2
            <4> QED
                BY <4>1
        <3>4. epochRc[s] \in Int /\ epochRc[s] - 0 <= epochRc[s]
            BY DEF TypeOK
        <3>5. color[s] # "Gray" /\ slots' = slots /\ handles' = handles /\ work' \in Seq(Entry)
            BY <1>5, <1>6, <2>1 DEF mutVars
        <3>6. 0 \in {0, 1} /\ color' = [color EXCEPT ![s] = "Gray"] /\ crc' = [crc EXCEPT ![s] = epochRc[s]]
            BY <2>1
        <3>7. /\ \A g \in Coloured({"Gray"})' :
                    handles'[g] + Cardinality(From(slots', Obj \ Coloured({"Gray"})', g)) + Visits(work', g) <= crc'[g]
              /\ \A g \in Obj \ Coloured({"Gray"})' :
                    Visits(work', g) <= Cardinality(From(slots', Coloured({"Gray"})', g))
            BY <1>2, <1>4, <3>3, <3>4, <3>5, <3>6, MarkVisit
        <3>8. Reached(slots, Coloured({"Gray"}), roots \ iter)'
            <4>1. Reached(slots, Coloured({"Gray"}), roots \ iter)
                BY DEF Marking
            <4>2. s \in roots' \ iter' /\ roots \ iter \subseteq roots' \ iter'
                BY <2>1
            <4>3. Coloured({"Gray"})' = Coloured({"Gray"}) \union {s}
                BY <2>1 DEF Coloured, TypeOK
            <4>4. slots' = slots
                BY <2>1 DEF mutVars
            <4>5. PICK G : G = Coloured({"Gray"})
                OBVIOUS
            <4>6. PICK T : T = roots' \ iter'
                OBVIOUS
            <4>7. Reached(slots, G \union {s}, T)
                <5>1. SUFFICES ASSUME NEW U \in SUBSET Obj, T \subseteq U,
                                  \A x \in (G \union {s}) \intersect U : Kids(slots, x) \intersect (G \union {s}) \subseteq U
                               PROVE  G \union {s} \subseteq U
                    BY DEF Reached
                <5>2. G \subseteq U
                    BY <4>1, <4>2, <4>5, <4>6, <5>1 DEF Reached
                <5> QED
                    BY <4>2, <4>6, <5>1, <5>2
            <4> QED
                BY <4>3, <4>4, <4>5, <4>6, <4>7, Zenon
        <3> QED
            BY <2>3, <3>1, <3>2, <3>7, <3>8 DEF Marking
    <2> QED
        BY <2>1, <2>2, <2>5, <2>6, <2>7, TraverseIs
<1>7. CASE color[s] # "Purple"
    <2>1. /\ roots' = roots \ {s} /\ iter' = iter \ {s}
          /\ UNCHANGED <<color, crc, work, mutVars, epochRc, buffered, heapVars, pc, taken, listVars, cycles, freedObjs>>
        BY <1>7 DEF MarkRoot
    <2>2. TypeOK'
        BY <2>1 DEF TypeOK, mutVars, heapVars, listVars
    <2>3. Entries' = Entries /\ Condemned' = {}
        BY <2>1 DEF Condemned, Entries
    <2>4. UNCHANGED H!vars /\ H!Inv' /\ Quiet' /\ Counted'
        BY <2>1, <2>2, <2>3, CalmFrame DEF listVars
    <2>5. Lists'
        BY <2>1 DEF Lists, TypeOK, mutVars, heapVars, listVars
    <2>6. Marking'
        <3>1. Coloured({"Purple"}) \subseteq iter'
            BY <1>7, <2>1 DEF Marking, Coloured
        <3>2. roots' \ iter' = roots \ iter
            BY <2>1
        <3>3. UNCHANGED <<color, slots, handles, crc, work, allocated>>
            BY <2>1 DEF mutVars
        <3>4. ASSUME NEW cs PROVE Coloured(cs)' = Coloured(cs)
            BY <3>3 DEF Coloured
        <3>5. Plain({"MarkGray"})'
            BY <2>3, <3>3 DEF Marking, Plain
        <3>6. Reached(slots, Coloured({"Gray"}), roots \ iter)'
            BY <3>2, <3>3, <3>4, Zenon DEF Marking
        <3> QED
            BY <3>1, <3>3, <3>4, <3>5, <3>6 DEF Marking
    <2> QED
        BY <2>1, <2>2, <2>4, <2>5, <2>6, TraverseIs
<1> QED
    BY <1>6, <1>7

\* mark_gray of a child: one reference visited is one count less.
LEMMA MarkGrayStep ==
    ASSUME CollectorAssumption, IInv, NEW s \in Obj, MarkGray(s)
    PROVE  IInv' /\ UNCHANGED H!vars
<1>1. Popping("MarkGray", s)
    BY DEF MarkGray
<1>2. pc = "mark"
    BY <1>1, PopPhase
<1> USE <1>2, MarkFrame, Calm
<1>3. PICK ops : ops = {"MarkGray"}
    OBVIOUS
<1>4. Plain(ops) /\ "Free" \notin ops /\ "MarkGray" \in ops
    BY <1>3 DEF Marking
<1>5. /\ color' = [color EXCEPT ![s] = "Gray"]
      /\ UNCHANGED <<mutVars, epochRc, buffered, heapVars, loopVars, listVars, setVars>>
    BY DEF MarkGray
<1>6. PICK es : es = IF color[s] # "Gray" THEN KidEntries("MarkGray", s) ELSE <<>>
    OBVIOUS
<1>7. Push(es)
    BY <1>6, Zenon DEF MarkGray
<1>8. /\ es \in Seq(Entry)
      /\ \A e \in ToSet(es) : \E oq \in ops, o \in allocated : e = Do(oq, o)
      /\ color[s] # "Gray" => KidList(es, "MarkGray", s)
      /\ color[s] = "Gray" => es = <<>>
    <2>1. CASE color[s] # "Gray"
        <3>1. KidList(es, "MarkGray", s)
            BY <1>6, <2>1, KidEntriesIs DEF Op
        <3>2. es \in Seq(Entry) /\ \A e \in ToSet(es) : \E oq \in ops, o \in allocated : e = Do(oq, o)
            BY <1>4, <3>1, KidsPlain
        <3> QED
            BY <2>1, <3>1, <3>2
    <2>2. CASE color[s] = "Gray"
        BY <1>6, <2>2, NoEntries
    <2> QED
        BY <2>1, <2>2
<1>9. allocated' = allocated /\ slots' = slots /\ handles' = handles
    BY <1>5 DEF mutVars
<1>10. /\ work' \in Seq(Entry) /\ IsPush(work', es, work)
       /\ Plain(ops)' /\ Condemned' = {}
       /\ s \in allocated
    BY <1>1, <1>4, <1>7, <1>8, <1>9, PlainPop
<1>11. work # <<>> /\ Head(work).obj = s /\ work \in Seq(Entry)
    BY <1>1 DEF Popping, TypeOK
<1>12. ASSUME NEW g \in Obj
       PROVE  Visits(work', g) + (IF g = s THEN 1 ELSE 0) = Visits(work, g) + Visits(es, g)
    <2>1. Visits(work, g) + Visits(es, g) = Visits(work', g) + (IF Head(work).obj = g THEN 1 ELSE 0)
        BY <1>8, <1>10, <1>11, VisitsPush
    <2> QED
        BY <1>11, <2>1
<1>13. Visits(work, s) \in Nat /\ Visits(work, s) >= 1
    BY <1>11, VisitsIs, VisitsHead
<1>14. crc' = [crc EXCEPT ![s] = Lowered(IF color[s] = "Gray" THEN crc[s] ELSE epochRc[s])]
    BY DEF MarkGray
<1>15. crc[s] \in Int /\ epochRc[s] \in Int
    BY DEF TypeOK
<1>16. TypeOK'
    <2>1. Lowered(IF color[s] = "Gray" THEN crc[s] ELSE epochRc[s]) \in Int
        BY <1>15 DEF Lowered
    <2> QED
        BY <1>5, <1>10, <1>14, <2>1 DEF TypeOK, mutVars, heapVars, loopVars, listVars, setVars, Color
<1>17. UNCHANGED H!vars /\ H!Inv' /\ Quiet' /\ Counted'
    BY <1>5, <1>10, <1>16, CalmFrame DEF listVars, loopVars
<1>18. Lists'
    BY <1>5, <1>10 DEF Lists, TypeOK, mutVars, heapVars, listVars, loopVars, setVars
<1>19. Plain({"MarkGray"})'
    BY <1>3, <1>10 DEF Plain
<1>20. Coloured({"Black", "Purple", "Gray"})' = Obj /\ Coloured({"Purple"})' \subseteq iter'
    BY <1>5 DEF Marking, Coloured, TypeOK, loopVars
<1>21. UNCHANGED <<roots, iter, pc>>
    BY <1>5 DEF setVars, loopVars
<1>22. Reached(slots, Coloured({"Gray"}), roots \ iter)
    BY DEF Marking
<1>23. CASE color[s] # "Gray"
    <2>1. \A g \in Coloured({"Gray"}) :
             handles[g] + Cardinality(From(slots, Obj \ Coloured({"Gray"}), g)) + Visits(work, g) <= crc[g]
        BY DEF Marking
    <2>2. \A g \in Obj \ Coloured({"Gray"}) : Visits(work, g) <= Cardinality(From(slots, Coloured({"Gray"}), g))
        BY DEF Marking
    <2>3. Visits(work, s) <= Cardinality(From(slots, Coloured({"Gray"}), s))
        BY <1>23, <2>2 DEF Coloured
    <2>4. PICK G : G = Coloured({"Gray"})
        OBVIOUS
    <2>5. PICK d \in Nat : d = Cardinality(From(slots, G, s))
        BY FromIs
    <2>6. From(slots, G, s) # {}
        <3>1. d # 0
            BY <1>13, <2>3, <2>4, <2>5
        <3> QED
            BY <2>5, <3>1, FromIs
    <2>7. PICK p \in G : s \in Kids(slots, p)
        <3>1. PICK e \in Obj \X Slot : slots[e[1]][e[2]] = s /\ e[1] \in G
            BY <2>6 DEF From
        <3> QED
            BY <3>1 DEF Kids, CollectorAssumption
    <2>8. epochRc[s] >= 1
        <3>1. PICK a, b : a = Cardinality(From(slots, G, s)) /\ b = Cardinality(From(slots, Obj \ G, s))
            OBVIOUS
        <3>2. G \subseteq Obj
            BY <2>4 DEF Coloured
        <3>3. rc[s] = handles[s] + a + b /\ a \in Nat /\ b \in Nat /\ handles[s] \in Nat
            BY <1>10, <3>1, <3>2, CalmCounts
        <3>4. rc[s] <= epochRc[s]
            BY <1>10
        <3>5. a >= 1
            BY <1>13, <2>3, <2>4, <3>1, <3>3
        <3> QED
            BY <1>15, <3>3, <3>4, <3>5
    <2>9. PICK m \in Int : m = epochRc[s] - 1
        BY <1>15
    <2>10. crc' = [crc EXCEPT ![s] = m] /\ epochRc[s] - 1 <= m
        <3>1. Lowered(IF color[s] = "Gray" THEN crc[s] ELSE epochRc[s]) = m
            BY <1>15, <1>23, <2>8, <2>9 DEF Lowered
        <3>2. crc' = [crc EXCEPT ![s] = m]
            BY <1>14, <3>1, Zenon
        <3> QED
            BY <1>15, <2>9, <3>2
    <2>11. KidList(es, "MarkGray", s) /\ 1 \in {0, 1}
        BY <1>8, <1>23
    <2>12. /\ \A g \in Coloured({"Gray"})' :
                 handles'[g] + Cardinality(From(slots', Obj \ Coloured({"Gray"})', g)) + Visits(work', g) <= crc'[g]
           /\ \A g \in Obj \ Coloured({"Gray"})' :
                 Visits(work', g) <= Cardinality(From(slots', Coloured({"Gray"})', g))
        BY <1>5, <1>9, <1>10, <1>12, <1>23, <2>10, <2>11, MarkVisit
    <2>13. Reached(slots, Coloured({"Gray"}), roots \ iter)'
        <3>1. Coloured({"Gray"})' = G \union {s}
            BY <1>5, <2>4 DEF Coloured, TypeOK
        <3>2. PICK T : T = roots \ iter
            OBVIOUS
        <3>3. Reached(slots, G, T)
            BY <1>22, <2>4, <3>2, Zenon
        <3>4. Reached(slots, G \union {s}, T)
            <4>1. SUFFICES ASSUME NEW U \in SUBSET Obj, T \subseteq U,
                              \A x \in (G \union {s}) \intersect U : Kids(slots, x) \intersect (G \union {s}) \subseteq U
                           PROVE  G \union {s} \subseteq U
                BY DEF Reached
            <4>2. G \subseteq U
                BY <3>3, <4>1 DEF Reached
            <4>3. s \in U
                BY <2>7, <4>1, <4>2
            <4> QED
                BY <4>2, <4>3
        <3> QED
            BY <1>9, <1>21, <3>1, <3>2, <3>4, Zenon
    <2>14. Marking'
        BY <1>19, <1>20, <2>12, <2>13 DEF Marking
    <2> QED
        BY <1>16, <1>17, <1>18, <1>21, <2>14, TraverseIs
<1>24. CASE color[s] = "Gray"
    <2>1. color' = color
        BY <1>5, <1>24 DEF TypeOK
    <2>2. ASSUME NEW cs PROVE Coloured(cs)' = Coloured(cs)
        BY <2>1 DEF Coloured
    <2>3. PICK G : G = Coloured({"Gray"})
        OBVIOUS
    <2>4. s \in G
        BY <1>24, <2>3 DEF Coloured
    <2>5. /\ \A g \in G : handles[g] + Cardinality(From(slots, Obj \ G, g)) + Visits(work, g) <= crc[g]
          /\ \A g \in Obj \ G : Visits(work, g) <= Cardinality(From(slots, G, g))
        BY <2>3, Zenon DEF Marking
    <2>6. ASSUME NEW g \in Obj
          PROVE  /\ g \in G => handles[g] + Cardinality(From(slots, Obj \ G, g)) + Visits(work', g) <= crc'[g]
                 /\ g \notin G => Visits(work', g) <= Cardinality(From(slots, G, g))
        <3>1. PICK a \in Nat : a = Cardinality(From(slots, Obj \ G, g))
            BY FromIs
        <3>2. PICK v \in Nat : v = Visits(work, g)
            BY <1>11, VisitsIs
        <3>3. PICK w \in Nat : w = Visits(work', g)
            BY <1>10, VisitsIs
        <3>4. w + (IF g = s THEN 1 ELSE 0) = v
            BY <1>8, <1>12, <1>24, <3>2, <3>3, NoEntries
        <3>5. handles[g] \in Nat /\ crc[g] \in Int
            BY DEF TypeOK
        <3>6. CASE g = s
            <4>1. handles[g] + a + v <= crc[g] /\ v >= 1
                BY <1>13, <2>4, <2>5, <3>1, <3>2, <3>6
            <4>2. crc'[g] = crc[g] - 1
                BY <1>14, <1>15, <1>24, <3>5, <3>6, <4>1 DEF Lowered, TypeOK
            <4>3. handles[g] + a + w <= crc'[g]
                BY <3>4, <3>5, <3>6, <4>1, <4>2
            <4> QED
                BY <2>4, <3>1, <3>3, <3>6, <4>3
        <3>7. CASE g # s
            <4>1. crc'[g] = crc[g] /\ w = v
                BY <1>14, <3>4, <3>7 DEF TypeOK
            <4> QED
                BY <2>5, <3>2, <3>3, <4>1
        <3> QED
            BY <3>6, <3>7
    <2>7. /\ \A g \in G : handles'[g] + Cardinality(From(slots', Obj \ G, g)) + Visits(work', g) <= crc'[g]
          /\ \A g \in Obj \ G : Visits(work', g) <= Cardinality(From(slots', G, g))
        <3>1. G \subseteq Obj
            BY <2>3 DEF Coloured
        <3> QED
            BY <1>9, <2>6, <3>1
    <2>8. Coloured({"Gray"})' = G
        BY <2>2, <2>3
    <2>9. Reached(slots, Coloured({"Gray"}), roots \ iter)'
        BY <1>9, <1>21, <1>22, <2>2, Zenon
    <2>10. /\ \A g \in Coloured({"Gray"})' :
                 handles'[g] + Cardinality(From(slots', Obj \ Coloured({"Gray"})', g)) + Visits(work', g) <= crc'[g]
           /\ \A g \in Obj \ Coloured({"Gray"})' :
                 Visits(work', g) <= Cardinality(From(slots', Coloured({"Gray"})', g))
        BY <2>7, <2>8, Zenon
    <2>11. Marking'
        BY <1>19, <1>20, <2>9, <2>10 DEF Marking
    <2> QED
        BY <1>16, <1>17, <1>18, <1>21, <2>11, TraverseIs
<1> QED
    BY <1>23, <1>24

\* With the stack empty, the circular counts of Gray objects cover all that is not from Gray
\* objects; every Gray object is reached from a root.
LEMMA EndMarkStep ==
    ASSUME CollectorAssumption, IInv, EndMark
    PROVE  IInv' /\ UNCHANGED H!vars
<1>1. pc = "mark" /\ work = <<>> /\ iter = {}
    BY DEF EndMark, At
<1> USE <1>1, MarkFrame, Calm
<1>2. /\ pc' = "scan" /\ iter' = roots
      /\ UNCHANGED <<mutVars, header, heapVars, taken, listVars, setVars, work>>
    BY DEF EndMark
<1>3. TypeOK'
    BY <1>2 DEF TypeOK, mutVars, header, heapVars, listVars, setVars, Phase
<1>4. Entries = {} /\ Entries' = {} /\ Condemned' = {}
    BY <1>2, EmptyIsCalm DEF Condemned, Entries
<1>5. UNCHANGED H!vars /\ H!Inv' /\ Quiet' /\ Counted'
    BY <1>2, <1>3, <1>4, CalmFrame DEF listVars, header
<1>6. Lists'
    BY <1>2 DEF Lists, mutVars, header, heapVars, listVars, setVars
<1>7. UNCHANGED <<slots, handles, crc, color, roots, allocated>>
    BY <1>2 DEF mutVars, header, setVars
<1>8. ASSUME NEW cs PROVE Coloured(cs)' = Coloured(cs)
    BY <1>7 DEF Coloured
<1>9. Coloured({"White"}) = {} /\ Coloured({"Black", "Gray", "White"}) = Obj /\ Coloured({"Gray", "White"}) = Coloured({"Gray"})
    BY DEF Marking, Coloured
<1>10. ASSUME NEW op PROVE Doing(op)' = {}
    BY <1>4 DEF Doing
<1>11. PICK G : G = Coloured({"Gray"})
    OBVIOUS
<1>12. Reached(slots, G, roots)
    <2>1. roots \ iter = roots
        OBVIOUS
    <2> QED
        BY <1>11, <2>1, Zenon DEF Marking
<1>13. Reached(slots, Coloured({"Gray"}), iter \union Doing("Scan") \union Doing("ScanBlack"))'
    <2>1. (iter \union Doing("Scan") \union Doing("ScanBlack"))' = roots
        BY <1>2, <1>10
    <2>2. Coloured({"Gray"})' = G /\ slots' = slots
        BY <1>7, <1>8, <1>11
    <2> QED
        BY <1>12, <2>1, <2>2, Zenon
<1>14. Reached(slots, Coloured({"Gray", "White"}), roots \union Doing("ScanBlack"))'
    <2>1. (roots \union Doing("ScanBlack"))' = roots
        BY <1>7, <1>10
    <2>2. Coloured({"Gray", "White"})' = G /\ slots' = slots
        BY <1>7, <1>8, <1>9, <1>11
    <2> QED
        BY <1>12, <2>1, <2>2, Zenon
<1>15. Spreading(G)'
    <2>1. Coloured({"Gray", "White"})' = G
        BY <1>8, <1>9, <1>11
    <2>2. G \intersect Coloured({"Black"})' = {}
        BY <1>7, <1>11 DEF Coloured
    <2>3. ASSUME NEW g \in G PROVE handles[g] + Cardinality(From(slots, Obj \ G, g)) <= crc[g]
        <3>1. g \in Obj
            BY <1>11 DEF Coloured
        <3>2. handles[g] + Cardinality(From(slots, Obj \ G, g)) + Visits(work, g) <= crc[g]
            BY <1>11, Zenon DEF Marking
        <3>3. Visits(work, g) = 0
            BY NoEntries
        <3>4. PICK a \in Nat : a = Cardinality(From(slots, Obj \ G, g))
            BY FromIs
        <3>5. handles[g] \in Nat
            BY <3>1 DEF TypeOK
        <3> QED
            BY <3>2, <3>3, <3>4, <3>5
    <2> QED
        BY <1>7, <2>1, <2>2, <2>3 DEF Spreading
<1>16. Scanning'
    <2>1. Coloured({"Black", "Gray", "White"})' = Obj
        BY <1>8, <1>9
    <2>2. Plain({"Scan", "ScanBlack"})'
        BY <1>4 DEF Plain
    <2>3. \A w \in Coloured({"White"})' : crc'[w] = 0
        BY <1>8, <1>9
    <2>4. G \in SUBSET Obj
        BY <1>11 DEF Coloured
    <2> QED
        BY <1>13, <1>14, <1>15, <2>1, <2>2, <2>3, <2>4 DEF Scanning
<1> QED
    BY <1>2, <1>3, <1>5, <1>6, <1>16, TraverseIs

----------------------------------------------------------------------------
(* scan_roots.                                                              *)

\* What is reached from a set is reached from a larger one.
LEMMA ReachedMore ==
    ASSUME NEW h, NEW S, NEW T, NEW T2, Reached(h, S, T), T \subseteq T2
    PROVE  Reached(h, S, T2)
BY DEF Reached

\* What s was needed for is needed of its children.
LEMMA ReachedPop ==
    ASSUME NEW h, NEW S, NEW T, NEW S2, NEW T2, NEW s \in Obj,
           Reached(h, S, T), S2 = S \ {s}, T \subseteq T2 \union {s},
           s \in S => Kids(h, s) \intersect S \subseteq T2 \union {s}
    PROVE  Reached(h, S2, T2)
<1>1. SUFFICES ASSUME NEW U \in SUBSET Obj, T2 \subseteq U,
                      \A x \in S2 \intersect U : Kids(h, x) \intersect S2 \subseteq U
               PROVE  S2 \subseteq U
    BY DEF Reached
<1>2. PICK V : V = U \union {s}
    OBVIOUS
<1>3. V \in SUBSET Obj /\ T \subseteq V
    BY <1>1, <1>2
<1>4. ASSUME NEW x \in S \intersect V PROVE Kids(h, x) \intersect S \subseteq V
    <2>1. CASE x = s
        BY <1>1, <1>2, <2>1
    <2>2. CASE x # s
        <3>1. x \in S2 \intersect U
            BY <1>2, <2>2
        <3>2. Kids(h, x) \intersect S2 \subseteq U
            BY <1>1, <3>1
        <3> QED
            BY <1>2, <3>2
    <2> QED
        BY <2>1, <2>2
<1>5. S \subseteq V
    BY <1>3, <1>4 DEF Reached
<1> QED
    BY <1>2, <1>5

\* What holds while scanning.
LEMMA ScanFrame ==
    ASSUME CollectorAssumption, IInv, pc = "scan"
    PROVE  /\ Traversing /\ Scanning
           /\ roots \subseteq allocated /\ iter \subseteq roots
           /\ \A o \in Obj : color[o] \in {"Black", "Gray", "White"}
           /\ \A o \in Obj : color[o] # "Black" => o \in allocated
<1>1. Traversing /\ Scanning
    BY DEF Traversing, IInv
<1>2. \A o \in Obj : color[o] # "Black" => o \in allocated
    BY DEF IInv, Lists
<1>3. \A o \in Obj : color[o] \in {"Black", "Gray", "White"}
    BY <1>1 DEF Scanning, Coloured
<1> QED
    BY <1>1, <1>2, <1>3 DEF IInv, Lists

\* The parts of a step of scan_roots.
LEMMA ScanKept ==
    ASSUME CollectorAssumption, IInv, pc = "scan",
           UNCHANGED <<mutVars, epochRc, crc, buffered, heapVars, pc, taken, listVars, setVars>>,
           iter' \subseteq iter, work' \in Seq(Entry), Plain({"Scan", "ScanBlack"})',
           color' \in [Obj -> {"Black", "Gray", "White"}],
           \A o \in Obj : color'[o] = "White" => crc[o] = 0,
           \A o \in Obj : color'[o] # "Black" => color[o] # "Black",
           Reached(slots, Coloured({"Gray"})', iter' \union Doing("Scan")' \union Doing("ScanBlack")'),
           Reached(slots, Coloured({"Gray", "White"})', roots \union Doing("ScanBlack")'),
           \A g \in Obj : color'[g] # "Black" /\ g \in Doing("ScanBlack") => g \in Doing("ScanBlack")',
           \A p, g \in Obj : color[p] # "Black" /\ color'[p] = "Black" /\ g \in Kids(slots, p) /\ color'[g] # "Black"
                => g \in Doing("ScanBlack")'
    PROVE  IInv' /\ UNCHANGED H!vars
<1> USE ScanFrame, Calm
<1>1. TypeOK'
    BY DEF TypeOK, mutVars, heapVars, listVars, setVars, Color
<1>2. Condemned' = {}
    BY DEF Plain, Condemned, Do
<1>3. UNCHANGED H!vars /\ H!Inv' /\ Quiet' /\ Counted'
    BY <1>1, <1>2, CalmFrame DEF listVars
<1>4. Lists'
    BY DEF Lists, mutVars, heapVars, listVars, setVars
<1>5. UNCHANGED <<slots, handles, crc, roots, allocated>>
    BY DEF mutVars, setVars
<1>6. PICK G \in SUBSET Obj : Spreading(G)
    BY DEF Scanning
<1>7. Coloured({"Gray", "White"})' \subseteq Coloured({"Gray", "White"})
    <2>1. ASSUME NEW g \in Coloured({"Gray", "White"})' PROVE g \in Coloured({"Gray", "White"})
        <3>1. g \in Obj /\ color'[g] # "Black"
            BY DEF Coloured
        <3>2. color[g] \in {"Gray", "White"}
            BY <3>1
        <3> QED
            BY <3>1, <3>2 DEF Coloured
    <2> QED
        BY <2>1
<1>8. Spreading(G)'
    <2>1. Coloured({"Gray", "White"})' \subseteq G
        BY <1>6, <1>7 DEF Spreading
    <2>2. ASSUME NEW g \in Coloured({"Gray", "White"})'
          PROVE  handles'[g] + Cardinality(From(slots', Obj \ G, g)) <= crc'[g]
        BY <1>5, <1>6, <1>7 DEF Spreading
    <2>3. ASSUME NEW g \in Coloured({"Gray", "White"})', NEW p \in G \intersect Coloured({"Black"})', g \in Kids(slots', p)
          PROVE  g \in Doing("ScanBlack")'
        <3>1. g \in Obj /\ color'[g] # "Black" /\ p \in Obj /\ color'[p] = "Black" /\ g \in Kids(slots, p)
            BY <1>5, <2>3 DEF Coloured
        <3>2. CASE color[p] = "Black"
            <4>1. g \in Doing("ScanBlack")
                BY <1>6, <1>7, <3>1, <3>2 DEF Spreading, Coloured
            <4> QED
                BY <3>1, <4>1
        <3> QED
            BY <3>1, <3>2
    <2> QED
        BY <2>1, <2>2, <2>3 DEF Spreading
<1>9. Scanning'
    <2>1. Coloured({"Black", "Gray", "White"})' = Obj
        BY DEF Coloured
    <2>2. \A w \in Coloured({"White"})' : crc'[w] = 0
        BY <1>5 DEF Coloured
    <2>3. Reached(slots, Coloured({"Gray"}), iter \union Doing("Scan") \union Doing("ScanBlack"))'
        BY <1>5, Zenon
    <2>4. Reached(slots, Coloured({"Gray", "White"}), roots \union Doing("ScanBlack"))'
        BY <1>5, Zenon
    <2> QED
        BY <1>6, <1>8, <2>1, <2>2, <2>3, <2>4 DEF Scanning
<1> QED
    BY <1>1, <1>3, <1>4, <1>9, TraverseIs

\* A stack of one entry.
LEMMA OneEntry ==
    ASSUME NEW op \in Op, NEW s \in Obj
    PROVE  /\ <<Do(op, s)>> \in Seq(Entry)
           /\ ToSet(<<Do(op, s)>>) = {Do(op, s)}
<1>1. PICK e \in Entry : e = Do(op, s)
    BY DEF Do, Entry
<1>2. PICK w : w = <<e>>
    OBVIOUS
<1>3. w \in Seq(Entry) /\ Len(w) = 1 /\ w[1] = e
    BY <1>2
<1>4. ToSet(w) = {w[i] : i \in 1 .. Len(w)}
    BY <1>3, ToSetIs
<1>5. ToSet(w) = {e}
    BY <1>3, <1>4
<1> QED
    BY <1>1, <1>2, <1>3, <1>5, Zenon

\* The scan of the next root.
LEMMA ScanRootStep ==
    ASSUME CollectorAssumption, IInv, NEW s \in Obj, ScanRoot(s)
    PROVE  IInv' /\ UNCHANGED H!vars
<1>1. pc = "scan" /\ work = <<>> /\ s \in iter
    BY DEF ScanRoot, At
<1> USE <1>1, ScanFrame, Calm
<1>2. /\ iter' = iter \ {s} /\ work' = <<Do("Scan", s)>>
      /\ UNCHANGED <<mutVars, header, heapVars, pc, taken, listVars, setVars>>
    BY DEF ScanRoot
<1>3. UNCHANGED <<color, crc, epochRc, buffered, slots, roots, allocated>>
    BY <1>2 DEF header, mutVars, setVars
<1>4. work' \in Seq(Entry) /\ Entries' = {Do("Scan", s)}
    BY <1>2, OneEntry, Zenon DEF Op, Entries
<1>5. Plain({"Scan", "ScanBlack"})'
    BY <1>3, <1>4 DEF Plain
<1>6. Entries = {} /\ \A op : Doing(op) = {}
    BY EmptyIsCalm DEF Doing
<1>7. ASSUME NEW cs PROVE Coloured(cs)' = Coloured(cs)
    BY <1>3 DEF Coloured
<1>8. s \in Doing("Scan")'
    BY <1>4 DEF Doing
<1>9. Reached(slots, Coloured({"Gray"})', iter' \union Doing("Scan")' \union Doing("ScanBlack")')
    <2>1. PICK T2 : T2 = iter' \union Doing("Scan")' \union Doing("ScanBlack")'
        OBVIOUS
    <2>2. PICK T : T = iter \union Doing("Scan") \union Doing("ScanBlack")
        OBVIOUS
    <2>3. Reached(slots, Coloured({"Gray"}), T)
        BY <2>2, Zenon DEF Scanning
    <2>4. T \subseteq T2
        BY <1>2, <1>6, <1>8, <2>1, <2>2
    <2>5. Reached(slots, Coloured({"Gray"}), T2)
        BY <2>3, <2>4, ReachedMore
    <2> QED
        BY <1>7, <2>1, <2>5, Zenon
<1>10. Reached(slots, Coloured({"Gray", "White"})', roots \union Doing("ScanBlack")')
    <2>1. PICK T2 : T2 = roots \union Doing("ScanBlack")'
        OBVIOUS
    <2>2. PICK T : T = roots \union Doing("ScanBlack")
        OBVIOUS
    <2>3. Reached(slots, Coloured({"Gray", "White"}), T)
        BY <2>2, Zenon DEF Scanning
    <2>4. T \subseteq T2
        BY <1>6, <2>1, <2>2
    <2>5. Reached(slots, Coloured({"Gray", "White"}), T2)
        BY <2>3, <2>4, ReachedMore
    <2> QED
        BY <1>7, <2>1, <2>5, Zenon
<1>11. color' \in [Obj -> {"Black", "Gray", "White"}]
    BY <1>3 DEF TypeOK
<1>12. \A o \in Obj : color'[o] = "White" => crc[o] = 0
    BY <1>3 DEF Scanning, Coloured
<1>13. /\ \A o \in Obj : color'[o] # "Black" => color[o] # "Black"
       /\ \A g \in Obj : color'[g] # "Black" /\ g \in Doing("ScanBlack") => g \in Doing("ScanBlack")'
       /\ \A p, g \in Obj : color[p] # "Black" /\ color'[p] = "Black" /\ g \in Kids(slots, p) /\ color'[g] # "Black"
                => g \in Doing("ScanBlack")'
    BY <1>3, <1>6
<1>14. iter' \subseteq iter
    BY <1>2
<1> QED
    BY <1>2, <1>3, <1>4, <1>5, <1>9, <1>10, <1>11, <1>12, <1>13, <1>14, ScanKept

\* scan: a Gray object with no count left is White for now, any other one is alive.
LEMMA ScanStep ==
    ASSUME CollectorAssumption, IInv, NEW s \in Obj, Scan(s)
    PROVE  IInv' /\ UNCHANGED H!vars
<1>1. Popping("Scan", s)
    BY DEF Scan
<1>2. pc = "scan"
    BY <1>1, PopPhase
<1> USE <1>2, ScanFrame, Calm
<1>3. PICK ops : ops = {"Scan", "ScanBlack"}
    OBVIOUS
<1>4. Plain(ops) /\ "Free" \notin ops /\ "Scan" \in ops /\ "ScanBlack" \in ops
    BY <1>3 DEF Scanning
<1>5. UNCHANGED <<mutVars, epochRc, crc, buffered, heapVars, loopVars, listVars, setVars>>
    BY DEF Scan
<1>6. UNCHANGED <<slots, allocated, pc, iter, taken, roots>>
    BY <1>5 DEF mutVars, loopVars, setVars
<1>7. s \in allocated
    <2>1. Head(work) \in Entries /\ Head(work).obj = s
        BY <1>1, HeadIn DEF Popping, TypeOK, Entries
    <2> QED
        BY <1>4, <2>1, PlainOp
\* What a step that replaces the entry of s by es has to show.
<1>8. ASSUME NEW es \in Seq(Entry), Push(es),
             \A e \in ToSet(es) : \E oq \in ops, o \in allocated : e = Do(oq, o)
      PROVE  /\ work' \in Seq(Entry) /\ Plain({"Scan", "ScanBlack"})'
             /\ \A g \in Doing("ScanBlack") : g \in Doing("ScanBlack")'
             /\ \A g \in Doing("Scan") : g \in Doing("Scan")' \/ g = s
             /\ \A op, o : Do(op, o) \in ToSet(es) /\ o \in Obj => o \in Doing(op)'
             /\ Reached(slots, Coloured({"Gray", "White"}), roots \union Doing("ScanBlack")')
    <2>1. /\ work' \in Seq(Entry) /\ Plain(ops)'
          /\ ToSet(es) \subseteq Entries'
          /\ \A e \in Entries : e # Do("Scan", s) => e \in Entries'
        BY <1>1, <1>4, <1>6, <1>8, PlainPop
    <2>2. Plain({"Scan", "ScanBlack"})'
        BY <1>3, <2>1 DEF Plain
    <2>3. \A g \in Doing("ScanBlack") : g \in Doing("ScanBlack")'
        BY <2>1 DEF Doing, Do
    <2>4. \A g \in Doing("Scan") : g \in Doing("Scan")' \/ g = s
        BY <2>1 DEF Doing, Do
    <2>5. \A op, o : Do(op, o) \in ToSet(es) /\ o \in Obj => o \in Doing(op)'
        BY <2>1 DEF Doing
    <2>6. PICK T : T = roots \union Doing("ScanBlack")
        OBVIOUS
    <2>7. PICK T2 : T2 = roots \union Doing("ScanBlack")'
        OBVIOUS
    <2>8. Reached(slots, Coloured({"Gray", "White"}), T)
        BY <2>6, Zenon DEF Scanning
    <2>9. T \subseteq T2
        BY <2>3, <2>6, <2>7
    <2>10. Reached(slots, Coloured({"Gray", "White"}), T2)
        BY <2>8, <2>9, ReachedMore
    <2>11. Reached(slots, Coloured({"Gray", "White"}), roots \union Doing("ScanBlack")')
        BY <2>7, <2>10, Zenon
    <2> QED
        BY <2>1, <2>2, <2>3, <2>4, <2>5, <2>11
<1>9. PICK T : T = iter \union Doing("Scan") \union Doing("ScanBlack")
    OBVIOUS
<1>10. PICK T2 : T2 = iter \union Doing("Scan")' \union Doing("ScanBlack")'
    OBVIOUS
<1>11. Reached(slots, Coloured({"Gray"}), T)
    BY <1>9, Zenon DEF Scanning
<1>12. \A o \in Obj : color[o] = "White" => crc[o] = 0
    BY DEF Scanning, Coloured
<1>13. CASE color[s] = "Gray" /\ crc[s] = 0
    <2>1. color' = [color EXCEPT ![s] = "White"] /\ Push(KidEntries("Scan", s))
        BY <1>13 DEF Scan
    <2>2. PICK es : es = KidEntries("Scan", s)
        OBVIOUS
    <2>3. KidList(es, "Scan", s)
        BY <2>2, KidEntriesIs DEF Op
    <2>4. Push(es)
        BY <2>1, <2>2, Zenon
    <2>5. /\ es \in Seq(Entry)
          /\ \A e \in ToSet(es) : \E oq \in ops, o \in allocated : e = Do(oq, o)
        BY <1>4, <2>3, KidsPlain
    <2>6. /\ work' \in Seq(Entry) /\ Plain({"Scan", "ScanBlack"})'
          /\ \A g \in Doing("ScanBlack") : g \in Doing("ScanBlack")'
          /\ \A g \in Doing("Scan") : g \in Doing("Scan")' \/ g = s
          /\ \A op, o : Do(op, o) \in ToSet(es) /\ o \in Obj => o \in Doing(op)'
          /\ Reached(slots, Coloured({"Gray", "White"}), roots \union Doing("ScanBlack")')
        BY <1>8, <2>4, <2>5
    <2>7. Coloured({"Gray", "White"})' = Coloured({"Gray", "White"}) /\ Coloured({"Gray"})' = Coloured({"Gray"}) \ {s}
        BY <1>13, <2>1 DEF Coloured, TypeOK
    <2>8. \A c \in Kids(slots, s) : c \in Doing("Scan")'
        <3>1. \A c \in Kids(slots, s) : c \in Obj /\ Do("Scan", c) \in ToSet(es)
            BY <2>3 DEF KidList, Kids, TypeOK
        <3> QED
            BY <2>6, <3>1
    <2>9. Reached(slots, Coloured({"Gray"})', T2)
        <3>1. T \subseteq T2 \union {s} /\ Kids(slots, s) \subseteq T2
            BY <1>9, <1>10, <2>6, <2>8
        <3> QED
            BY <1>11, <2>7, <3>1, ReachedPop
    <2>10. Reached(slots, Coloured({"Gray"})', iter' \union Doing("Scan")' \union Doing("ScanBlack")')
        BY <1>6, <1>10, <2>9, Zenon
    <2>11. Reached(slots, Coloured({"Gray", "White"})', roots \union Doing("ScanBlack")')
        BY <2>6, <2>7, Zenon
    <2>12. color' \in [Obj -> {"Black", "Gray", "White"}] /\ \A o \in Obj : color'[o] = "White" => crc[o] = 0
        BY <1>12, <1>13, <2>1 DEF TypeOK
    <2>13. \A o \in Obj : color'[o] = "Black" <=> color[o] = "Black"
        BY <1>13, <2>1 DEF TypeOK
    <2> QED
        BY <1>5, <1>6, <2>6, <2>10, <2>11, <2>12, <2>13, ScanKept
<1>14. CASE color[s] = "Gray" /\ crc[s] # 0
    <2>1. color' = color /\ Push(<<Do("ScanBlack", s)>>)
        BY <1>14 DEF Scan
    <2>2. PICK es : es = <<Do("ScanBlack", s)>>
        OBVIOUS
    <2>3. es \in Seq(Entry) /\ ToSet(es) = {Do("ScanBlack", s)}
        BY <2>2, OneEntry, Zenon DEF Op
    <2>4. Push(es)
        BY <2>1, <2>2, Zenon
    <2>5. \A e \in ToSet(es) : \E oq \in ops, o \in allocated : e = Do(oq, o)
        BY <1>4, <1>7, <2>3
    <2>6. /\ work' \in Seq(Entry) /\ Plain({"Scan", "ScanBlack"})'
          /\ \A g \in Doing("ScanBlack") : g \in Doing("ScanBlack")'
          /\ \A g \in Doing("Scan") : g \in Doing("Scan")' \/ g = s
          /\ \A op, o : Do(op, o) \in ToSet(es) /\ o \in Obj => o \in Doing(op)'
          /\ Reached(slots, Coloured({"Gray", "White"}), roots \union Doing("ScanBlack")')
        BY <1>8, <2>3, <2>4, <2>5
    <2>7. ASSUME NEW cs PROVE Coloured(cs)' = Coloured(cs)
        BY <2>1 DEF Coloured
    <2>8. s \in Doing("ScanBlack")'
        BY <2>3, <2>6
    <2>9. Reached(slots, Coloured({"Gray"}), T2)
        <3>1. T \subseteq T2
            BY <1>9, <1>10, <2>6, <2>8
        <3> QED
            BY <1>11, <3>1, ReachedMore
    <2>10. Reached(slots, Coloured({"Gray"})', iter' \union Doing("Scan")' \union Doing("ScanBlack")')
        BY <1>6, <1>10, <2>7, <2>9, Zenon
    <2>11. Reached(slots, Coloured({"Gray", "White"})', roots \union Doing("ScanBlack")')
        BY <2>6, <2>7, Zenon
    <2>12. color' \in [Obj -> {"Black", "Gray", "White"}] /\ \A o \in Obj : color'[o] = "White" => crc[o] = 0
        BY <1>12, <2>1 DEF TypeOK
    <2>13. \A o \in Obj : color'[o] = "Black" <=> color[o] = "Black"
        BY <2>1
    <2> QED
        BY <1>5, <1>6, <2>6, <2>10, <2>11, <2>12, <2>13, ScanKept
<1>15. CASE color[s] # "Gray"
    <2>1. color' = color /\ Push(<<>>)
        BY <1>15 DEF Scan
    <2>2. PICK es : es = <<>>
        OBVIOUS
    <2>3. es \in Seq(Entry) /\ ToSet(es) = {}
        BY <2>2, NoEntries, Zenon
    <2>4. Push(es)
        BY <2>1, <2>2, Zenon
    <2>5. \A e \in ToSet(es) : \E oq \in ops, o \in allocated : e = Do(oq, o)
        BY <2>3
    <2>6. /\ work' \in Seq(Entry) /\ Plain({"Scan", "ScanBlack"})'
          /\ \A g \in Doing("ScanBlack") : g \in Doing("ScanBlack")'
          /\ \A g \in Doing("Scan") : g \in Doing("Scan")' \/ g = s
          /\ Reached(slots, Coloured({"Gray", "White"}), roots \union Doing("ScanBlack")')
        BY <1>8, <2>3, <2>4, <2>5
    <2>7. ASSUME NEW cs PROVE Coloured(cs)' = Coloured(cs)
        BY <2>1 DEF Coloured
    <2>8. s \notin Coloured({"Gray"}) /\ Coloured({"Gray"})' = Coloured({"Gray"}) \ {s}
        BY <1>15, <2>7 DEF Coloured
    <2>9. Reached(slots, Coloured({"Gray"})', T2)
        <3>1. T \subseteq T2 \union {s}
            BY <1>9, <1>10, <2>6
        <3> QED
            BY <1>11, <2>8, <3>1, ReachedPop
    <2>10. Reached(slots, Coloured({"Gray"})', iter' \union Doing("Scan")' \union Doing("ScanBlack")')
        BY <1>6, <1>10, <2>9, Zenon
    <2>11. Reached(slots, Coloured({"Gray", "White"})', roots \union Doing("ScanBlack")')
        BY <2>6, <2>7, Zenon
    <2>12. color' \in [Obj -> {"Black", "Gray", "White"}] /\ \A o \in Obj : color'[o] = "White" => crc[o] = 0
        BY <1>12, <2>1 DEF TypeOK
    <2>13. \A o \in Obj : color'[o] = "Black" <=> color[o] = "Black"
        BY <2>1
    <2> QED
        BY <1>5, <1>6, <2>6, <2>10, <2>11, <2>12, <2>13, ScanKept
<1> QED
    BY <1>13, <1>14, <1>15

\* scan_black, below a root that scan found alive.
LEMMA ScanBlackStep ==
    ASSUME CollectorAssumption, IInv, NEW s \in Obj, ScanBlack(s), pc = "scan"
    PROVE  IInv' /\ UNCHANGED H!vars
<1>1. Popping("ScanBlack", s)
    BY DEF ScanBlack
<1> USE ScanFrame, Calm
<1>3. PICK ops : ops = {"Scan", "ScanBlack"}
    OBVIOUS
<1>4. Plain(ops) /\ "Free" \notin ops /\ "ScanBlack" \in ops
    BY <1>3 DEF Scanning
<1>5. /\ UNCHANGED <<mutVars, epochRc, crc, buffered, heapVars, loopVars, listVars, setVars>>
      /\ color' = [color EXCEPT ![s] = "Black"]
    BY DEF ScanBlack
<1>6. UNCHANGED <<slots, allocated, pc, iter, taken, roots>>
    BY <1>5 DEF mutVars, loopVars, setVars
<1>7. PICK es : es = IF color[s] # "Black" THEN KidEntries("ScanBlack", s) ELSE <<>>
    OBVIOUS
<1>8. Push(es)
    BY <1>7, Zenon DEF ScanBlack
<1>9. /\ es \in Seq(Entry)
      /\ \A e \in ToSet(es) : \E oq \in ops, o \in allocated : e = Do(oq, o)
      /\ color[s] # "Black" => KidList(es, "ScanBlack", s)
    <2>1. CASE color[s] # "Black"
        <3>1. KidList(es, "ScanBlack", s)
            BY <1>7, <2>1, KidEntriesIs DEF Op
        <3>2. es \in Seq(Entry) /\ \A e \in ToSet(es) : \E oq \in ops, o \in allocated : e = Do(oq, o)
            BY <1>4, <3>1, KidsPlain
        <3> QED
            BY <2>1, <3>1, <3>2
    <2>2. CASE color[s] = "Black"
        <3>1. es = <<>>
            BY <1>7, <2>2
        <3> QED
            BY <2>2, <3>1, NoEntries
    <2> QED
        BY <2>1, <2>2
<1>10. /\ work' \in Seq(Entry) /\ Plain(ops)'
       /\ ToSet(es) \subseteq Entries'
       /\ \A e \in Entries : e # Do("ScanBlack", s) => e \in Entries'
    BY <1>1, <1>4, <1>6, <1>8, <1>9, PlainPop
<1>11. Plain({"Scan", "ScanBlack"})'
    BY <1>3, <1>10 DEF Plain
<1>12. \A g \in Doing("ScanBlack") : g \in Doing("ScanBlack")' \/ g = s
    BY <1>10 DEF Doing, Do
<1>13. \A g \in Doing("Scan") : g \in Doing("Scan")'
    BY <1>10 DEF Doing, Do
<1>14. color[s] # "Black" => \A c \in Kids(slots, s) : c \in Doing("ScanBlack")'
    <2>1. ASSUME color[s] # "Black", NEW c \in Kids(slots, s) PROVE c \in Doing("ScanBlack")'
        <3>1. c \in Obj /\ Do("ScanBlack", c) \in ToSet(es)
            BY <1>9, <2>1 DEF KidList, Kids, TypeOK
        <3> QED
            BY <1>10, <3>1 DEF Doing
    <2> QED
        BY <2>1
<1>15. \A o \in Obj : color'[o] = IF o = s THEN "Black" ELSE color[o]
    BY <1>5 DEF TypeOK
<1>16. /\ Coloured({"Gray"})' = Coloured({"Gray"}) \ {s}
       /\ Coloured({"Gray", "White"})' = Coloured({"Gray", "White"}) \ {s}
    BY <1>15 DEF Coloured
<1>17. /\ s \in Coloured({"Gray"}) => color[s] # "Black"
       /\ s \in Coloured({"Gray", "White"}) => color[s] # "Black"
    BY DEF Coloured
<1>18. Reached(slots, Coloured({"Gray"})', iter' \union Doing("Scan")' \union Doing("ScanBlack")')
    <2>1. PICK T2 : T2 = iter \union Doing("Scan")' \union Doing("ScanBlack")'
        OBVIOUS
    <2>2. PICK T : T = iter \union Doing("Scan") \union Doing("ScanBlack")
        OBVIOUS
    <2>3. Reached(slots, Coloured({"Gray"}), T)
        BY <2>2, Zenon DEF Scanning
    <2>4. T \subseteq T2 \union {s} /\ (color[s] # "Black" => Kids(slots, s) \subseteq T2)
        BY <1>12, <1>13, <1>14, <2>1, <2>2
    <2>5. Reached(slots, Coloured({"Gray"})', T2)
        BY <1>16, <1>17, <2>3, <2>4, ReachedPop
    <2> QED
        BY <1>6, <2>1, <2>5, Zenon
<1>19. Reached(slots, Coloured({"Gray", "White"})', roots \union Doing("ScanBlack")')
    <2>1. PICK T2 : T2 = roots \union Doing("ScanBlack")'
        OBVIOUS
    <2>2. PICK T : T = roots \union Doing("ScanBlack")
        OBVIOUS
    <2>3. Reached(slots, Coloured({"Gray", "White"}), T)
        BY <2>2, Zenon DEF Scanning
    <2>4. T \subseteq T2 \union {s} /\ (color[s] # "Black" => Kids(slots, s) \subseteq T2)
        BY <1>12, <1>14, <2>1, <2>2
    <2>5. Reached(slots, Coloured({"Gray", "White"})', T2)
        BY <1>16, <1>17, <2>3, <2>4, ReachedPop
    <2> QED
        BY <2>1, <2>5, Zenon
<1>20. color' \in [Obj -> {"Black", "Gray", "White"}]
    BY <1>5 DEF TypeOK
<1>21. \A o \in Obj : color'[o] = "White" => crc[o] = 0
    BY <1>15 DEF Scanning, Coloured
<1>22. \A o \in Obj : color'[o] # "Black" => color[o] # "Black"
    BY <1>15
<1>23. \A g \in Obj : color'[g] # "Black" /\ g \in Doing("ScanBlack") => g \in Doing("ScanBlack")'
    BY <1>12, <1>15
<1>24. \A p, g \in Obj : color[p] # "Black" /\ color'[p] = "Black" /\ g \in Kids(slots, p) /\ color'[g] # "Black"
                => g \in Doing("ScanBlack")'
    BY <1>14, <1>15
<1> QED
    BY <1>5, <1>6, <1>10, <1>11, <1>18, <1>19, <1>20, <1>21, <1>22, <1>23, <1>24, ScanKept

\* With the stack empty, White objects are closed: a reference to one from outside, or from an
\* object found alive, would have left it a count or a visit of scan_black.
LEMMA EndScanStep ==
    ASSUME CollectorAssumption, IInv, EndScan
    PROVE  IInv' /\ UNCHANGED H!vars
<1>1. pc = "scan" /\ work = <<>> /\ iter = {}
    BY DEF EndScan, At
<1> USE <1>1, ScanFrame, Calm
<1>2. /\ pc' = "collect" /\ iter' = roots
      /\ UNCHANGED <<mutVars, header, heapVars, taken, listVars, setVars, work>>
    BY DEF EndScan
<1>3. TypeOK'
    BY <1>2 DEF TypeOK, mutVars, header, heapVars, listVars, setVars, Phase
<1>4. Entries = {} /\ Entries' = {} /\ Condemned' = {}
    BY <1>2, EmptyIsCalm DEF Condemned, Entries
<1>5. UNCHANGED H!vars /\ H!Inv' /\ Quiet' /\ Counted'
    BY <1>2, <1>3, <1>4, CalmFrame DEF listVars, header
<1>6. Lists'
    BY <1>2 DEF Lists, mutVars, header, heapVars, listVars, setVars
<1>7. UNCHANGED <<slots, handles, crc, color, roots, cycles, allocated, work>>
    BY <1>2 DEF mutVars, header, setVars
<1>8. \A op : Doing(op) = {} /\ Doing(op)' = {}
    BY <1>4 DEF Doing
<1>9. \A o \in Obj : color[o] # "Gray"
    <2>1. iter \union Doing("Scan") \union Doing("ScanBlack") = {}
        BY <1>8
    <2>2. Reached(slots, Coloured({"Gray"}), {})
        BY <2>1, Zenon DEF Scanning
    <2>3. Coloured({"Gray"}) \subseteq {}
        BY <2>2 DEF Reached
    <2> QED
        BY <2>3 DEF Coloured
<1>10. \A o \in Obj : color[o] \in {"Black", "White"}
    BY <1>9
<1>11. PICK G \in SUBSET Obj : Spreading(G)
    BY DEF Scanning
<1>12. PICK W : W = Coloured({"White"})
    OBVIOUS
<1>13. /\ \A o : o \in W <=> o \in Obj /\ color[o] = "White"
       /\ W \subseteq G
    BY <1>11, <1>12 DEF Coloured, Spreading
<1>14. Closed(W)
    <2>1. SUFFICES ASSUME NEW o \in W
                   PROVE  handles[o] = 0 /\ \A p \in Obj, k \in Slot : slots[p][k] = o => p \in W
        BY DEF Closed
    <2>2. o \in Obj /\ o \in Coloured({"Gray", "White"}) /\ crc[o] = 0
        BY <1>13 DEF Coloured, Scanning
    <2>3. /\ handles[o] + Cardinality(From(slots, Obj \ G, o)) <= crc[o]
          /\ \A p \in G \intersect Coloured({"Black"}) : o \in Kids(slots, p) => o \in Doing("ScanBlack")
        BY <1>11, <2>2 DEF Spreading
    <2>4. PICK a \in Nat : a = Cardinality(From(slots, Obj \ G, o))
        BY FromIs
    <2>5. handles[o] = 0 /\ a = 0
        BY <2>2, <2>3, <2>4 DEF TypeOK
    <2>6. From(slots, Obj \ G, o) = {}
        BY <2>4, <2>5, FromIs
    <2>7. ASSUME NEW p \in Obj, NEW k \in Slot, slots[p][k] = o PROVE p \in W
        <3>1. p \in G
            <4>1. PICK e : e = <<p, k>>
                OBVIOUS
            <4>2. e \in Obj \X Slot /\ e[1] = p /\ e[2] = k
                BY <4>1
            <4>3. p \notin G => e \in From(slots, Obj \ G, o)
                BY <2>7, <4>2 DEF From
            <4> QED
                BY <2>6, <4>3
        <3>2. o \in Kids(slots, p)
            BY <2>2, <2>7 DEF Kids, CollectorAssumption
        <3>3. p \notin Coloured({"Black"})
            BY <1>8, <2>3, <3>1, <3>2
        <3> QED
            BY <1>10, <1>13, <3>3 DEF Coloured
    <2> QED
        BY <2>5, <2>7
<1>15. cycles = <<>>
    BY DEF Lists
<1>16. Parked(cycles') = {} /\ Len(cycles') = 0
    BY <1>7, <1>15 DEF Parked
<1>17. Coloured({"Orange"})' = {} /\ Coloured({"White", "Orange"})' = W /\ Coloured({"White"})' = W
    BY <1>7, <1>10, <1>13 DEF Coloured
<1>18. Reached(slots, Coloured({"White"}), iter \union Doing("CollectWhite"))'
    <2>1. roots \union Doing("ScanBlack") = roots /\ (iter \union Doing("CollectWhite"))' = roots
        BY <1>2, <1>8
    <2>2. Coloured({"Gray", "White"}) = W
        BY <1>9, <1>13 DEF Coloured
    <2>3. Reached(slots, W, roots)
        BY <2>1, <2>2, Zenon DEF Scanning
    <2> QED
        BY <1>7, <1>17, <2>1, <2>3, Zenon
<1>19. Collecting'
    <2>1. roots' = iter' /\ Plain({"CollectWhite"})'
        BY <1>2, <1>4, <1>7 DEF Plain
    <2>2. Coloured({"Black", "White", "Orange"})' = Obj
        BY <1>7, <1>10 DEF Coloured
    <2>3. Simple(cycles)' /\ Ordered(cycles, Coloured({"Orange"}))'
        BY <1>16 DEF Simple, Ordered
    <2>4. Closed(Coloured({"White", "Orange"}))'
        <3>1. Closed(W)'
            BY <1>7, <1>14 DEF Closed
        <3> QED
            BY <1>17, <3>1 DEF Closed
    <2> QED
        BY <1>1, <1>7, <1>16, <1>17, <1>18, <2>1, <2>2, <2>3, <2>4 DEF Collecting
<1> QED
    BY <1>2, <1>3, <1>5, <1>6, <1>19, TraverseIs

----------------------------------------------------------------------------
(* collect_roots.                                                           *)

\* An object is in one cycle only.
LEMMA SimpleApart ==
    ASSUME NEW cs, Simple(cs), NEW i \in 1 .. Len(cs), NEW j \in 1 .. Len(cs),
           NEW o \in Members(cs[i]), o \in Members(cs[j])
    PROVE  i = j
BY DEF Simple, Members

\* x is cs with an empty cycle at its end.
Begun(x, cs) ==
    /\ x \in Seq(Seq(Obj)) /\ Len(x) = Len(cs) + 1
    /\ \A i \in 1 .. Len(cs) : x[i] = cs[i]
    /\ Len(x[Len(cs) + 1]) = 0

\* What collect_roots does to the cycles when it meets a White root.
LEMMA AppendBegins ==
    ASSUME NEW cs \in Seq(Seq(Obj)), NEW x, x = Append(cs, <<>>)
    PROVE  Begun(x, cs)
<1>1. <<>> \in Seq(Obj)
    OBVIOUS
<1>2. /\ x \in Seq(Seq(Obj)) /\ Len(x) = Len(cs) + 1
      /\ \A i \in 1 .. Len(cs) : x[i] = cs[i]
      /\ x[Len(cs) + 1] = <<>>
    BY <1>1, AppendProperties
<1> QED
    BY <1>2 DEF Begun

\* An empty cycle adds no member.
LEMMA BeginCycle ==
    ASSUME NEW cs \in Seq(Seq(Obj)), Simple(cs), NEW x, Begun(x, cs)
    PROVE  /\ x # <<>>
           /\ Members(x[Len(x)]) = {}
           /\ Parked(x) = Parked(cs)
           /\ Simple(x)
<1>1. /\ x \in Seq(Seq(Obj)) /\ Len(x) = Len(cs) + 1
      /\ \A i \in 1 .. Len(cs) : x[i] = cs[i]
      /\ Len(x[Len(cs) + 1]) = 0
    BY DEF Begun
<1>2. Len(cs) \in Nat
    BY LenProperties
<1>3. Members(x[Len(cs) + 1]) = {}
    BY <1>1 DEF Members
<1>4. \A i \in 1 .. Len(x) : i \in 1 .. Len(cs) \/ i = Len(cs) + 1
    BY <1>1, <1>2
<1>5. \A i \in 1 .. Len(cs) : i \in 1 .. Len(x)
    BY <1>1, <1>2
<1>6. Parked(x) = Parked(cs)
    <2>1. Parked(x) \subseteq Parked(cs)
        BY <1>1, <1>3, <1>4 DEF Parked
    <2>2. Parked(cs) \subseteq Parked(x)
        BY <1>1, <1>5 DEF Parked
    <2> QED
        BY <2>1, <2>2
<1>7. Simple(x)
    <2>1. SUFFICES ASSUME NEW i \in 1 .. Len(x), NEW j \in 1 .. Len(x), NEW a \in 1 .. Len(x[i]), NEW b \in 1 .. Len(x[j]),
                          x[i][a] = x[j][b]
                   PROVE  i = j /\ a = b
        BY DEF Simple
    <2>2. 1 .. Len(x[Len(cs) + 1]) = {}
        BY <1>1
    <2>3. i # Len(cs) + 1 /\ j # Len(cs) + 1
        BY ONLY <2>2, a \in 1 .. Len(x[i]), b \in 1 .. Len(x[j])
    <2>4. i \in 1 .. Len(cs) /\ j \in 1 .. Len(cs) /\ x[i] = cs[i] /\ x[j] = cs[j]
        BY ONLY <1>1, <1>4, <2>3, i \in 1 .. Len(x), j \in 1 .. Len(x)
    <2>5. a \in 1 .. Len(cs[i]) /\ b \in 1 .. Len(cs[j]) /\ cs[i][a] = cs[j][b]
        BY ONLY <2>1, <2>4, a \in 1 .. Len(x[i]), b \in 1 .. Len(x[j])
    <2> QED
        BY ONLY <2>4, <2>5, Simple(cs) DEF Simple
<1>8. x # <<>> /\ Members(x[Len(x)]) = {}
    BY <1>1, <1>2, <1>3
<1> QED
    BY <1>6, <1>7, <1>8

\* x is cs with s at the end of its last cycle, c before and e after.
Grown(x, cs, s, c, e) ==
    /\ x \in Seq(Seq(Obj)) /\ Len(x) = Len(cs)
    /\ Len(cs) \in 1 .. Len(cs)
    /\ \A i \in 1 .. Len(cs) : i # Len(cs) => x[i] = cs[i]
    /\ cs[Len(cs)] = c /\ x[Len(cs)] = e
    /\ c \in Seq(Obj) /\ Len(e) = Len(c) + 1
    /\ \A i \in 1 .. Len(c) : e[i] = c[i]
    /\ e[Len(c) + 1] = s

\* What collect_white does to the cycles.
LEMMA AppendGrows ==
    ASSUME NEW cs \in Seq(Seq(Obj)), cs # <<>>, NEW s \in Obj,
           NEW x, x = [cs EXCEPT ![Len(cs)] = Append(@, s)]
    PROVE  \E c, e : Grown(x, cs, s, c, e)
<1>1. PICK n \in Nat : n = Len(cs)
    BY LenProperties
<1>2. n \in 1 .. n
    BY <1>1, EmptySeq
<1>3. PICK c \in Seq(Obj) : c = cs[n]
    BY <1>1, <1>2, ElementOfSeq
<1>4. PICK e : e = Append(c, s)
    OBVIOUS
<1>5. x = [cs EXCEPT ![n] = e]
    BY <1>1, <1>3, <1>4, Zenon
<1>6. /\ e \in Seq(Obj) /\ Len(e) = Len(c) + 1
      /\ \A i \in 1 .. Len(c) : e[i] = c[i]
      /\ e[Len(c) + 1] = s
    BY <1>4, AppendProperties
<1>7. PICK y : y = [cs EXCEPT ![n] = e]
    OBVIOUS
<1>8. /\ y \in Seq(Seq(Obj)) /\ Len(y) = n /\ y[n] = e
      /\ \A i \in 1 .. n : i # n => y[i] = cs[i]
    <2> HIDE <1>5
    <2>1. cs \in [1 .. n -> Seq(Obj)]
        BY <1>1
    <2>2. y \in [1 .. n -> Seq(Obj)]
        BY <1>6, <1>7, <2>1
    <2> QED
        BY <1>2, <1>7, <2>1, <2>2
<1>9. Grown(y, cs, s, c, e)
    BY <1>1, <1>2, <1>3, <1>6, <1>8 DEF Grown
<1> QED
    BY <1>5, <1>7, <1>9, Zenon

\* It adds one member, once.
LEMMA GrowCycle ==
    ASSUME NEW cs \in Seq(Seq(Obj)), Simple(cs), NEW s \in Obj, s \notin Parked(cs),
           NEW x, NEW c, NEW e, Grown(x, cs, s, c, e)
    PROVE  /\ x # <<>>
           /\ Members(x[Len(cs)]) = Members(cs[Len(cs)]) \union {s}
           /\ Parked(x) = Parked(cs) \union {s}
           /\ Simple(x)
<1>1. PICK n \in Nat : n = Len(cs)
    BY LenProperties
<1>2. n \in 1 .. n /\ Len(x) = n /\ x[n] = e /\ cs[n] = c
    BY <1>1 DEF Grown
<1>3. \A i \in 1 .. n : i # n => x[i] = cs[i]
    BY <1>1 DEF Grown
<1>4. /\ Len(e) = Len(c) + 1 /\ Len(c) \in Nat
      /\ \A i \in 1 .. Len(c) : e[i] = c[i]
      /\ e[Len(c) + 1] = s
    BY LenProperties DEF Grown
<1>5. \A i \in 1 .. Len(e) : i \in 1 .. Len(c) \/ i = Len(c) + 1
    BY <1>4
<1>6. \A i \in 1 .. Len(c) : i \in 1 .. Len(e)
    BY <1>4
<1>7. Len(c) + 1 \in 1 .. Len(e)
    BY <1>4
<1>8. Members(e) = Members(c) \union {s}
    BY <1>4, <1>5, <1>6, <1>7 DEF Members
<1>9. \A i \in 1 .. n : Members(cs[i]) \subseteq Members(x[i]) /\ Members(x[i]) \subseteq Members(cs[i]) \union {s}
    BY <1>2, <1>3, <1>8
<1>10. Parked(x) = Parked(cs) \union {s}
    <2>1. s \in Members(x[n])
        BY <1>2, <1>8
    <2>2. ASSUME NEW o \in Parked(x) PROVE o \in Parked(cs) \union {s}
        <3>1. PICK i \in 1 .. n : o \in Members(x[i])
            BY <1>2 DEF Parked
        <3> QED
            BY <1>1, <1>9, <3>1 DEF Parked
    <2>3. ASSUME NEW o \in Parked(cs) PROVE o \in Parked(x)
        <3>1. PICK i \in 1 .. n : o \in Members(cs[i])
            BY <1>1 DEF Parked
        <3> QED
            BY <1>2, <1>9, <3>1 DEF Parked
    <2>4. s \in Parked(x)
        BY <1>2, <2>1 DEF Parked
    <2> QED
        BY <2>2, <2>3, <2>4
<1>11. ASSUME NEW l \in 1 .. n, NEW d \in 1 .. Len(cs[l]) PROVE cs[l][d] # s
    <2>1. cs[l][d] \in Members(cs[l])
        BY DEF Members
    <2>2. cs[l][d] \in Parked(cs)
        BY <1>1, <2>1 DEF Parked
    <2> QED
        BY <2>2
<1>12. Simple(x)
    <2>1. SUFFICES ASSUME NEW i \in 1 .. n, NEW j \in 1 .. n, NEW a \in 1 .. Len(x[i]), NEW b \in 1 .. Len(x[j]),
                          x[i][a] = x[j][b]
                   PROVE  i = j /\ a = b
        BY <1>2 DEF Simple
    <2>2. ASSUME NEW l \in 1 .. n, NEW d \in 1 .. Len(x[l])
          PROVE  \/ l = n /\ d = Len(c) + 1 /\ x[l][d] = s
                 \/ d \in 1 .. Len(cs[l]) /\ x[l][d] = cs[l][d] /\ x[l][d] # s
        <3>1. CASE l = n
            <4>1. CASE d = Len(c) + 1
                BY <1>2, <1>4, <3>1, <4>1
            <4>2. CASE d \in 1 .. Len(c)
                <5>1. x[l][d] = c[d] /\ cs[l] = c
                    BY <1>2, <1>4, <3>1, <4>2
                <5> QED
                    BY <1>11, <4>2, <5>1
            <4> QED
                BY <1>2, <1>5, <3>1, <4>1, <4>2
        <3>2. CASE l # n
            <4>1. x[l] = cs[l]
                BY <1>3, <3>2
            <4> QED
                BY <1>11, <4>1
        <3> QED
            BY <3>1, <3>2
    <2>3. CASE i = n /\ a = Len(c) + 1 /\ x[i][a] = s
        BY <2>1, <2>2, <2>3
    <2>4. CASE j = n /\ b = Len(c) + 1 /\ x[j][b] = s
        BY <2>1, <2>2, <2>4
    <2>5. CASE a \in 1 .. Len(cs[i]) /\ x[i][a] = cs[i][a] /\ b \in 1 .. Len(cs[j]) /\ x[j][b] = cs[j][b]
        <3>1. cs[i][a] = cs[j][b]
            BY <2>1, <2>5
        <3> QED
            BY <1>1, <2>5, <3>1 DEF Simple
    <2> QED
        BY <2>2, <2>3, <2>4, <2>5
<1>13. x # <<>>
    BY <1>2
<1> QED
    BY <1>1, <1>2, <1>8, <1>10, <1>12, <1>13

\* The last element of a sequence.
LEMMA LastIs ==
    ASSUME NEW S, NEW cs \in Seq(S), cs # <<>>
    PROVE  Last(cs) = cs[Len(cs)] /\ Len(cs) \in 1 .. Len(cs)
BY EmptySeq DEF Last

\* What holds while cycles are gathered.
LEMMA CollectFrame ==
    ASSUME CollectorAssumption, IInv, pc = "collect"
    PROVE  /\ Traversing /\ Collecting
           /\ roots \subseteq allocated /\ iter = roots
           /\ \A o \in Obj : color[o] \in {"Black", "White", "Orange"}
           /\ \A o \in Obj : color[o] # "Black" => o \in allocated
           /\ \A o : o \in Parked(cycles) <=> o \in Obj /\ color[o] = "Orange"
           /\ cycles \in Seq(Seq(Obj))
           /\ \A o \in Obj : color[o] = "Orange" => \A k \in Slot :
                 slots[o][k] \in Obj /\ color[slots[o][k]] = "White" =>
                    cycles # <<>> /\ o \in Members(cycles[Len(cycles)]) /\ slots[o][k] \in Doing("CollectWhite")
<1>1. Traversing /\ Collecting
    BY DEF Traversing, IInv
<1>2. \A o \in Obj : color[o] # "Black" => o \in allocated
    BY DEF IInv, Lists
<1>3. \A o \in Obj : color[o] \in {"Black", "White", "Orange"}
    BY <1>1 DEF Collecting, Coloured
<1>4. \A o : o \in Parked(cycles) <=> o \in Obj /\ color[o] = "Orange"
    BY <1>1 DEF Collecting, Coloured
<1>5. cycles \in Seq(Seq(Obj))
    BY DEF IInv, TypeOK
<1>6. ASSUME NEW o \in Obj, color[o] = "Orange", NEW k \in Slot, slots[o][k] \in Obj, color[slots[o][k]] = "White"
      PROVE  cycles # <<>> /\ o \in Members(cycles[Len(cycles)]) /\ slots[o][k] \in Doing("CollectWhite")
    <2>1. o \in Coloured({"Orange"}) /\ slots[o][k] \in Kids(slots, o) \intersect Coloured({"White"})
        BY <1>6 DEF Coloured, Kids, CollectorAssumption
    <2>2. o \in Members(Last(cycles)) /\ slots[o][k] \in Doing("CollectWhite")
        BY <1>1, <2>1 DEF Collecting
    <2>3. work # <<>>
        BY <2>2, EmptyIsCalm DEF Doing
    <2>4. cycles # <<>>
        BY <1>1, <2>3 DEF Collecting
    <2> QED
        BY <1>5, <2>2, <2>4, LastIs
<1> QED
    BY <1>1, <1>2, <1>3, <1>4, <1>5, <1>6 DEF IInv, Lists, Collecting

\* The parts of a step of collect_roots.
LEMMA CollectKept ==
    ASSUME CollectorAssumption, IInv, pc = "collect",
           UNCHANGED <<mutVars, epochRc, crc, buffered, heapVars, pc, taken, listVars, freedObjs>>,
           iter' \subseteq iter, roots' = iter', work' \in Seq(Entry), Plain({"CollectWhite"})',
           cycles' \in Seq(Seq(Obj)), Simple(cycles'),
           color' \in [Obj -> {"Black", "White", "Orange"}],
           \A o : o \in Parked(cycles') <=> o \in Obj /\ color'[o] = "Orange",
           \A o \in Obj : color'[o] = "Black" <=> color[o] = "Black",
           Ordered(cycles', Coloured({"Orange"})'),
           \A o \in Obj : color'[o] = "Orange" => \A k \in Slot :
                 slots[o][k] \in Obj /\ color'[slots[o][k]] = "White" =>
                    cycles' # <<>> /\ o \in Members(cycles'[Len(cycles')]) /\ slots[o][k] \in Doing("CollectWhite")',
           work' # <<>> => cycles' # <<>>,
           Reached(slots, Coloured({"White"})', iter' \union Doing("CollectWhite")')
    PROVE  IInv' /\ UNCHANGED H!vars
<1> USE CollectFrame, Calm
<1>1. TypeOK'
    BY DEF TypeOK, mutVars, heapVars, listVars, Color
<1>2. Condemned' = {}
    BY DEF Plain, Condemned, Do
<1>3. UNCHANGED H!vars /\ H!Inv' /\ Quiet' /\ Counted'
    BY <1>1, <1>2, CalmFrame DEF listVars
<1>4. Lists'
    BY DEF Lists, mutVars, heapVars, listVars
<1>5. UNCHANGED <<slots, handles, crc, allocated>>
    BY DEF mutVars
<1>6. Coloured({"White", "Orange"})' = Coloured({"White", "Orange"})
    <2>1. \A o \in Obj : color'[o] \in {"White", "Orange"} <=> color[o] \in {"White", "Orange"}
        BY CollectFrame
    <2> QED
        BY <2>1 DEF Coloured
<1>7. Closed(Coloured({"White", "Orange"}))'
    BY <1>5, <1>6 DEF Closed, Collecting
<1>8. Ordered(cycles, Coloured({"Orange"}))'
    BY <1>5 DEF Ordered
<1>9. \A p \in Coloured({"Orange"})' : \A w \in Kids(slots', p) \intersect Coloured({"White"})' :
          p \in Members(Last(cycles')) /\ w \in Doing("CollectWhite")'
    <2>1. SUFFICES ASSUME NEW p \in Coloured({"Orange"})', NEW w \in Kids(slots', p) \intersect Coloured({"White"})'
                   PROVE  p \in Members(Last(cycles')) /\ w \in Doing("CollectWhite")'
        OBVIOUS
    <2>2. p \in Obj /\ color'[p] = "Orange" /\ w \in Obj /\ color'[w] = "White"
        BY DEF Coloured
    <2>3. PICK k \in Slot : w = slots[p][k]
        BY <1>5 DEF Kids
    <2>4. cycles' # <<>> /\ p \in Members(cycles'[Len(cycles')]) /\ w \in Doing("CollectWhite")'
        BY <2>2, <2>3
    <2>5. Last(cycles') = cycles'[Len(cycles')]
        BY <2>4, LastIs
    <2> QED
        BY <2>4, <2>5
<1>10. Collecting'
    <2>1. Coloured({"Black", "White", "Orange"})' = Obj
        BY DEF Coloured
    <2>2. Parked(cycles') = Coloured({"Orange"})'
        BY DEF Coloured
    <2>3. Simple(cycles)'
        BY DEF Simple
    <2>4. Reached(slots, Coloured({"White"}), iter \union Doing("CollectWhite"))'
        BY <1>5, Zenon
    <2> QED
        BY <1>7, <1>8, <1>9, <2>1, <2>2, <2>3, <2>4 DEF Collecting
<1> QED
    BY <1>1, <1>3, <1>4, <1>10, TraverseIs

\* A White root begins a cycle; any other root has nothing to gather.
LEMMA CollectRootStep ==
    ASSUME CollectorAssumption, IInv, NEW s \in Obj, CollectRoot(s)
    PROVE  IInv' /\ UNCHANGED H!vars
<1>1. pc = "collect" /\ work = <<>> /\ s \in iter
    BY DEF CollectRoot, At
<1> USE <1>1, CollectFrame, Calm
<1>2. /\ iter' = iter \ {s} /\ roots' = roots \ {s} /\ color' = color
      /\ UNCHANGED <<mutVars, epochRc, crc, buffered, heapVars, pc, taken, listVars, freedObjs>>
    BY DEF CollectRoot, header
<1>3. roots' = iter' /\ iter' \subseteq iter
    BY <1>2
<1>4. Entries = {} /\ Doing("CollectWhite") = {}
    BY EmptyIsCalm DEF Doing
<1>5. ASSUME NEW cs PROVE Coloured(cs)' = Coloured(cs)
    BY <1>2 DEF Coloured
<1>6. PICK T : T = iter \union Doing("CollectWhite")
    OBVIOUS
<1>7. Reached(slots, Coloured({"White"}), T)
    BY <1>6, Zenon DEF Collecting
<1>8. /\ color' \in [Obj -> {"Black", "White", "Orange"}]
      /\ \A o \in Obj : color'[o] = "Black" <=> color[o] = "Black"
    BY <1>2 DEF TypeOK
<1>9. \A o \in Obj : color[o] = "Orange" => \A k \in Slot : slots[o][k] \in Obj => color[slots[o][k]] # "White"
    BY <1>4
<1>10. slots' = slots
    BY <1>2 DEF mutVars
<1>11. CASE color[s] = "White"
    <2>1. cycles' = Append(cycles, <<>>) /\ work' = <<Do("CollectWhite", s)>>
        BY <1>11 DEF CollectRoot
    <2>2. work' \in Seq(Entry) /\ Entries' = {Do("CollectWhite", s)}
        BY <2>1, OneEntry, Zenon DEF Op, Entries
    <2>3. Plain({"CollectWhite"})'
        BY <1>2, <2>2 DEF Plain, mutVars
    <2>4. PICK ds : ds = Append(cycles, <<>>)
        OBVIOUS
    <2>5. Begun(ds, cycles)
        BY <2>4, AppendBegins
    <2>6. Simple(cycles)
        BY DEF Collecting
    <2>7. cycles' = ds
        BY <2>1, <2>4, Zenon
    <2>8. ds # <<>> /\ Members(ds[Len(ds)]) = {} /\ Parked(ds) = Parked(cycles) /\ Simple(ds) /\ ds \in Seq(Seq(Obj))
        <3> HIDE <2>4
        <3>1. ds # <<>> /\ Members(ds[Len(ds)]) = {} /\ Parked(ds) = Parked(cycles) /\ Simple(ds)
            BY <2>5, <2>6, BeginCycle
        <3> QED
            BY <2>5, <3>1 DEF Begun
    <2>9. Ordered(ds, Coloured({"Orange"}))
        <3> HIDE <2>4
        <3>1. Ordered(cycles, Coloured({"Orange"}))
            BY DEF Collecting
        <3>2. SUFFICES ASSUME NEW i \in 1 .. Len(ds), NEW p \in Members(ds[i]), NEW k \in Slot,
                              slots[p][k] \in Coloured({"Orange"})
                       PROVE  \E j \in 1 .. i : slots[p][k] \in Members(ds[j])
            BY DEF Ordered
        <3>3. Len(cycles) \in Nat /\ Len(ds) = Len(cycles) + 1
            BY <2>5, LenProperties DEF Begun
        <3>4. i \in 1 .. Len(cycles)
            <4>1. ASSUME i = Len(ds) PROVE FALSE
                <5>1. Members(ds[i]) = {}
                    BY <2>8, <4>1, Zenon
                <5> QED
                    BY <5>1
            <4> QED
                BY <3>3, <4>1
        <3>5. ds[i] = cycles[i]
            BY <2>5, <3>4 DEF Begun
        <3>6. PICK j \in 1 .. i : slots[p][k] \in Members(cycles[j])
            BY <3>1, <3>2, <3>4, <3>5 DEF Ordered
        <3>7. j \in 1 .. Len(cycles)
            BY <3>3, <3>4
        <3>8. ds[j] = cycles[j]
            BY <2>5, <3>7 DEF Begun
        <3> QED
            BY <3>6, <3>8
    <2>10. Ordered(cycles', Coloured({"Orange"})')
        BY <1>5, <2>7, <2>9, Zenon
    <2>11. Reached(slots, Coloured({"White"})', iter' \union Doing("CollectWhite")')
        <3>1. s \in Doing("CollectWhite")'
            BY <2>2 DEF Doing
        <3>2. PICK T2 : T2 = iter' \union Doing("CollectWhite")'
            OBVIOUS
        <3>3. T \subseteq T2
            BY <1>2, <1>4, <1>6, <3>1, <3>2
        <3>4. Reached(slots, Coloured({"White"}), T2)
            BY <1>7, <3>3, ReachedMore
        <3> QED
            BY <1>5, <3>2, <3>4, Zenon
    <2>12. /\ cycles' \in Seq(Seq(Obj)) /\ Simple(cycles') /\ cycles' # <<>>
           /\ \A o : o \in Parked(cycles') <=> o \in Obj /\ color'[o] = "Orange"
        <3>1. \A o : o \in Parked(ds) <=> o \in Obj /\ color[o] = "Orange"
            BY <2>8
        <3> QED
            BY <1>2, <2>7, <2>8, <3>1, Zenon
    <2>13. \A o \in Obj : color'[o] = "Orange" => \A k \in Slot :
                 slots[o][k] \in Obj /\ color'[slots[o][k]] = "White" =>
                    cycles' # <<>> /\ o \in Members(cycles'[Len(cycles')]) /\ slots[o][k] \in Doing("CollectWhite")'
        BY <1>2, <1>9, Zenon
    <2> QED
        BY <1>2, <1>3, <1>8, <2>2, <2>3, <2>10, <2>11, <2>12, <2>13, CollectKept
<1>12. CASE color[s] # "White"
    <2>1. UNCHANGED <<cycles, work>>
        BY <1>12 DEF CollectRoot
    <2>2. work' \in Seq(Entry) /\ Entries' = {} /\ Doing("CollectWhite")' = {}
        BY <1>4, <2>1 DEF TypeOK, Entries, Doing
    <2>3. Plain({"CollectWhite"})'
        BY <2>2 DEF Plain
    <2>4. Ordered(cycles', Coloured({"Orange"})')
        BY <1>5, <2>1, Zenon DEF Collecting
    <2>5. Reached(slots, Coloured({"White"})', iter' \union Doing("CollectWhite")')
        <3>1. PICK T2 : T2 = iter' \union Doing("CollectWhite")'
            OBVIOUS
        <3>2. T \subseteq T2 \union {s} /\ s \notin Coloured({"White"}) /\ Coloured({"White"}) = Coloured({"White"}) \ {s}
            BY <1>2, <1>4, <1>6, <1>12, <3>1 DEF Coloured
        <3>3. Reached(slots, Coloured({"White"}), T2)
            BY <1>7, <3>2, ReachedPop
        <3> QED
            BY <1>5, <3>1, <3>3, Zenon
    <2>6. cycles' \in Seq(Seq(Obj)) /\ Simple(cycles')
        BY <2>1 DEF Collecting
    <2>7. \A o : o \in Parked(cycles') <=> o \in Obj /\ color'[o] = "Orange"
        BY <1>2, <2>1
    <2>8. \A o \in Obj : color'[o] = "Orange" => \A k \in Slot :
                 slots[o][k] \in Obj /\ color'[slots[o][k]] = "White" =>
                    cycles' # <<>> /\ o \in Members(cycles'[Len(cycles')]) /\ slots[o][k] \in Doing("CollectWhite")'
        BY <1>2, <1>9, Zenon
    <2> QED
        BY <1>2, <1>3, <1>8, <2>1, <2>2, <2>3, <2>4, <2>5, <2>6, <2>7, <2>8, CollectKept
<1> QED
    BY <1>11, <1>12

\* A White object joins the cycle being gathered, and its White children are visited before
\* any other cycle begins: so cycles come in an order in which none refers to a later one.
LEMMA CollectWhiteStep ==
    ASSUME CollectorAssumption, IInv, NEW s \in Obj, CollectWhite(s)
    PROVE  IInv' /\ UNCHANGED H!vars
<1>1. pc = "collect" /\ Popping("CollectWhite", s)
    BY PopPhase DEF CollectWhite
<1> USE <1>1, CollectFrame, Calm
<1>2. /\ iter' = iter /\ roots' = roots
      /\ UNCHANGED <<mutVars, epochRc, crc, buffered, heapVars, pc, taken, listVars, freedObjs>>
    BY DEF CollectWhite, loopVars
<1>3. allocated' = allocated /\ slots' = slots
    BY <1>2 DEF mutVars
<1>4. work # <<>> /\ cycles # <<>>
    BY DEF Popping, Collecting
<1>5. Plain({"CollectWhite"}) /\ Simple(cycles) /\ Ordered(cycles, Coloured({"Orange"}))
    BY DEF Collecting
<1>6. PICK T : T = iter \union Doing("CollectWhite")
    OBVIOUS
<1>7. Reached(slots, Coloured({"White"}), T)
    BY <1>6, Zenon DEF Collecting
<1>8. roots' = iter' /\ iter' \subseteq iter
    BY <1>2
<1>9. Len(cycles) \in 1 .. Len(cycles) /\ Len(cycles) \in Nat
    BY <1>4, LastIs, LenProperties
<1>10. CASE color[s] # "White"
    <2>1. UNCHANGED <<color, cycles>> /\ Push(<<>>)
        BY <1>10 DEF CollectWhite
    <2>2. /\ work' \in Seq(Entry) /\ Plain({"CollectWhite"})'
          /\ \A e \in Entries : e # Do("CollectWhite", s) => e \in Entries'
        BY <1>3, <1>5, <2>1, NoEntries, PlainPop
    <2>3. \A o \in Obj : o \in Doing("CollectWhite") /\ o # s => o \in Doing("CollectWhite")'
        BY <2>2 DEF Doing, Do
    <2>4. ASSUME NEW cs PROVE Coloured(cs)' = Coloured(cs)
        BY <2>1 DEF Coloured
    <2>5. Ordered(cycles', Coloured({"Orange"})')
        BY <1>5, <2>1, <2>4, Zenon
    <2>6. Reached(slots, Coloured({"White"})', iter' \union Doing("CollectWhite")')
        <3>1. PICK T2 : T2 = iter' \union Doing("CollectWhite")'
            OBVIOUS
        <3>2. T \subseteq T2 \union {s} /\ s \notin Coloured({"White"}) /\ Coloured({"White"}) = Coloured({"White"}) \ {s}
            BY <1>2, <1>6, <1>10, <2>3, <3>1 DEF Coloured, Doing
        <3>3. Reached(slots, Coloured({"White"}), T2)
            BY <1>7, <3>2, ReachedPop
        <3> QED
            BY <2>4, <3>1, <3>3, Zenon
    <2>7. /\ cycles' \in Seq(Seq(Obj)) /\ Simple(cycles') /\ cycles' # <<>>
          /\ color' \in [Obj -> {"Black", "White", "Orange"}]
          /\ \A o \in Obj : color'[o] = "Black" <=> color[o] = "Black"
          /\ \A o : o \in Parked(cycles') <=> o \in Obj /\ color'[o] = "Orange"
        BY <1>4, <1>5, <2>1 DEF TypeOK
    <2>8. \A o \in Obj : color'[o] = "Orange" => \A k \in Slot :
                 slots[o][k] \in Obj /\ color'[slots[o][k]] = "White" =>
                    cycles' # <<>> /\ o \in Members(cycles'[Len(cycles')]) /\ slots[o][k] \in Doing("CollectWhite")'
        <3>1. SUFFICES ASSUME NEW o \in Obj, color[o] = "Orange", NEW k \in Slot, slots[o][k] \in Obj, color[slots[o][k]] = "White"
                       PROVE  o \in Members(cycles[Len(cycles)]) /\ slots[o][k] \in Doing("CollectWhite")'
            BY <1>4, <2>1
        <3>2. o \in Members(cycles[Len(cycles)]) /\ slots[o][k] \in Doing("CollectWhite")
            BY <3>1
        <3>3. slots[o][k] # s
            BY <1>10, <3>1
        <3> QED
            BY <2>3, <3>1, <3>2, <3>3
    <2> QED
        BY <1>2, <1>8, <2>2, <2>5, <2>6, <2>7, <2>8, CollectKept
<1>11. CASE color[s] = "White"
    <2>1. /\ color' = [color EXCEPT ![s] = "Orange"]
          /\ cycles' = [cycles EXCEPT ![Len(cycles)] = Append(@, s)]
          /\ Push(KidEntries("CollectWhite", s))
        BY <1>11 DEF CollectWhite
    <2>2. PICK es : es = KidEntries("CollectWhite", s)
        OBVIOUS
    <2>3. KidList(es, "CollectWhite", s)
        <3>1. "CollectWhite" \in Op
            BY DEF Op
        <3> QED
            BY <2>2, <3>1, KidEntriesIs
    <2>4. Push(es)
        BY <2>1, <2>2, Zenon
    <2>5. PICK ds : ds = [cycles EXCEPT ![Len(cycles)] = Append(@, s)]
        OBVIOUS
    <2>6. cycles' = ds
        BY <2>1, <2>5, Zenon
    <2>7. PICK c, e : Grown(ds, cycles, s, c, e)
        BY <1>4, <2>5, AppendGrows
    <2> HIDE <2>1, <2>2, <2>5
    <2>8. color' = [color EXCEPT ![s] = "Orange"]
        BY <2>1, Zenon
    <2>9. s \notin Parked(cycles)
        BY <1>11
    <2>10. /\ ds # <<>> /\ Simple(ds)
           /\ Members(ds[Len(cycles)]) = Members(cycles[Len(cycles)]) \union {s}
           /\ Parked(ds) = Parked(cycles) \union {s}
        BY <1>5, <2>7, <2>9, GrowCycle
    <2>11. ds \in Seq(Seq(Obj)) /\ Len(ds) = Len(cycles) /\ \A i \in 1 .. Len(cycles) : i # Len(cycles) => ds[i] = cycles[i]
        BY <2>7 DEF Grown
    <2>12. es \in Seq(Entry) /\ \A x \in ToSet(es) : \E oq \in {"CollectWhite"}, o \in allocated : x = Do(oq, o)
        <3>1. PICK ops : ops = {"CollectWhite"}
            OBVIOUS
        <3>2. PICK op \in ops : op = "CollectWhite"
            BY <3>1
        <3>3. TypeOK /\ KidList(es, op, s) /\ \A p \in Obj, k \in Slot : slots[p][k] # Null => slots[p][k] \in allocated
            BY <2>3, <3>2
        <3>4. es \in Seq(Entry) /\ \A x \in ToSet(es) : \E oq \in ops, o \in allocated : x = Do(oq, o)
            BY ONLY <3>3, KidsPlain
        <3> QED
            BY <3>1, <3>4, Zenon
    <2>13. /\ work' \in Seq(Entry) /\ Plain({"CollectWhite"})'
           /\ ToSet(es) \subseteq Entries'
           /\ \A x \in Entries : x # Do("CollectWhite", s) => x \in Entries'
        <3>1. TypeOK /\ Popping("CollectWhite", s) /\ s \in Obj
            BY <1>1
        <3>2. PICK ops : ops = {"CollectWhite"}
            OBVIOUS
        <3>3. Plain(ops) /\ "Free" \notin ops /\ \A x \in ToSet(es) : \E oq \in ops, o \in allocated : x = Do(oq, o)
            BY <1>5, <2>12, <3>2
        <3>4. /\ work' \in Seq(Entry) /\ Plain(ops)'
              /\ ToSet(es) \subseteq Entries'
              /\ \A x \in Entries : x # Do("CollectWhite", s) => x \in Entries'
            BY ONLY <1>3, <2>4, <2>12, <3>1, <3>3, PlainPop
        <3> QED
            BY ONLY <3>2, <3>4 DEF Plain
    <2>14. \A o \in Obj : o \in Doing("CollectWhite") /\ o # s => o \in Doing("CollectWhite")'
        BY <2>13 DEF Doing, Do
    <2>15. \A o \in Kids(slots, s) : o \in Obj => o \in Doing("CollectWhite")'
        BY <2>3, <2>13 DEF Doing, KidList
    <2>16. /\ color' \in [Obj -> {"Black", "White", "Orange"}]
           /\ \A o \in Obj : color'[o] = IF o = s THEN "Orange" ELSE color[o]
        BY <2>8 DEF TypeOK
    <2>17. \A o \in Obj : color'[o] = "Black" <=> color[o] = "Black"
        BY <1>11, <2>16
    <2>18. \A o : o \in Parked(ds) <=> o \in Obj /\ color'[o] = "Orange"
        BY <2>10, <2>16
    <2>19. Coloured({"Orange"})' = Coloured({"Orange"}) \union {s}
        BY <2>16 DEF Coloured
    <2>20. Coloured({"White"})' = Coloured({"White"}) \ {s}
        BY <2>16 DEF Coloured
    <2>21. ASSUME NEW i \in 1 .. Len(cycles), NEW p \in Members(cycles[i]), NEW k \in Slot, slots[p][k] = s
           PROVE  i = Len(cycles)
        <3>1. p \in Obj /\ color[p] = "Orange"
            <4>1. p \in Parked(cycles)
                BY DEF Parked
            <4> QED
                BY <4>1
        <3>2. p \in Members(cycles[Len(cycles)])
            <4>1. slots[p][k] \in Obj /\ color[slots[p][k]] = "White"
                BY <1>11, <2>21
            <4> QED
                BY <3>1, <4>1
        <3> QED
            BY <1>5, <1>9, <3>2, SimpleApart
    <2>22. ASSUME NEW i \in 1 .. Len(cycles)
           PROVE  Members(cycles[i]) \subseteq Members(ds[i])
        BY <2>10, <2>11
    <2>23. \A p : p \in Members(cycles[Len(cycles)]) => p \in Members(ds[Len(cycles)])
        BY <2>10
    <2>24. s \in Members(ds[Len(cycles)])
        BY <2>10
    <2>25. Ordered(ds, Coloured({"Orange"})')
        <3>1. SUFFICES ASSUME NEW i \in 1 .. Len(ds), NEW p \in Members(ds[i]), NEW k \in Slot,
                              slots[p][k] \in Coloured({"Orange"})'
                       PROVE  \E j \in 1 .. i : slots[p][k] \in Members(ds[j])
            BY DEF Ordered
        <3>2. i \in 1 .. Len(cycles) /\ i \in 1 .. i
            BY <1>9, <2>11
        <3>3. CASE p \in Members(cycles[i]) /\ slots[p][k] # s
            <4>1. slots[p][k] \in Coloured({"Orange"})
                BY <2>19, <3>1, <3>3
            <4>2. PICK j \in 1 .. i : slots[p][k] \in Members(cycles[j])
                BY <1>5, <3>2, <3>3, <4>1 DEF Ordered
            <4>3. j \in 1 .. Len(cycles)
                BY <1>9, <3>2
            <4> QED
                BY <2>22, <4>2, <4>3
        <3>4. CASE p \in Members(cycles[i]) /\ slots[p][k] = s
            <4>1. i = Len(cycles)
                BY <2>21, <3>2, <3>4
            <4>2. slots[p][k] \in Members(ds[i])
                BY <2>24, <3>4, <4>1, Zenon
            <4> QED
                BY <3>2, <4>2
        <3>5. CASE p \notin Members(cycles[i])
            <4>1. i = Len(cycles)
                BY <2>11, <3>2, <3>5
            <4>2. p = s
                BY <2>10, <3>1, <3>5, <4>1
            <4>3. PICK o : o = slots[p][k]
                OBVIOUS
            <4>4. o \in Parked(ds)
                BY <2>18, <3>1, <4>3 DEF Coloured
            <4>5. PICK j \in 1 .. Len(ds) : o \in Members(ds[j])
                BY <4>4 DEF Parked
            <4>6. j \in 1 .. i
                BY <2>11, <4>1, <4>5
            <4> QED
                BY <4>3, <4>5, <4>6, Zenon
        <3> QED
            BY <3>3, <3>4, <3>5
    <2>26. Ordered(cycles', Coloured({"Orange"})')
        BY <2>6, <2>25, Zenon
    <2>27. Reached(slots, Coloured({"White"})', iter' \union Doing("CollectWhite")')
        <3>1. PICK T2 : T2 = iter' \union Doing("CollectWhite")'
            OBVIOUS
        <3>2. T \subseteq T2 \union {s} /\ Kids(slots, s) \intersect Coloured({"White"}) \subseteq T2 \union {s}
            BY <1>2, <1>6, <2>14, <2>15, <3>1 DEF Coloured, Doing
        <3>3. Reached(slots, Coloured({"White"})', T2)
            BY <1>7, <2>20, <3>2, ReachedPop
        <3> QED
            BY <3>1, <3>3, Zenon
    <2>28. /\ cycles' \in Seq(Seq(Obj)) /\ Simple(cycles') /\ cycles' # <<>> /\ Len(cycles') = Len(cycles)
           /\ \A o : o \in Parked(cycles') <=> o \in Obj /\ color'[o] = "Orange"
           /\ cycles'[Len(cycles')] = ds[Len(cycles)]
        BY <2>6, <2>10, <2>11, <2>18, Zenon
    <2>29. \A o \in Obj : color'[o] = "Orange" => \A k \in Slot :
                 slots[o][k] \in Obj /\ color'[slots[o][k]] = "White" =>
                    cycles' # <<>> /\ o \in Members(cycles'[Len(cycles')]) /\ slots[o][k] \in Doing("CollectWhite")'
        <3>1. SUFFICES ASSUME NEW o \in Obj, color'[o] = "Orange", NEW k \in Slot, slots[o][k] \in Obj, color'[slots[o][k]] = "White"
                       PROVE  o \in Members(cycles'[Len(cycles')]) /\ slots[o][k] \in Doing("CollectWhite")'
            BY <2>28
        <3>2. color[slots[o][k]] = "White" /\ slots[o][k] # s
            BY <2>16, <3>1
        <3>3. o \in Members(ds[Len(cycles)]) /\ slots[o][k] \in Doing("CollectWhite")'
            <4>1. CASE o = s
                <5>1. slots[o][k] \in Kids(slots, s)
                    BY <3>1, <4>1 DEF Kids, CollectorAssumption
                <5> QED
                    BY <2>15, <2>24, <3>1, <4>1, <5>1
            <4>2. CASE o # s
                <5>1. color[o] = "Orange"
                    BY <2>16, <3>1, <4>2
                <5>2. o \in Members(cycles[Len(cycles)]) /\ slots[o][k] \in Doing("CollectWhite")
                    BY <3>1, <3>2, <5>1
                <5> QED
                    BY <2>14, <2>23, <3>1, <3>2, <5>2
            <4> QED
                BY <4>1, <4>2
        <3> QED
            BY <2>28, <3>3, Zenon
    <2> QED
        BY <1>2, <1>8, <2>13, <2>16, <2>17, <2>26, <2>27, <2>28, <2>29, CollectKept
<1> QED
    BY <1>10, <1>11

----------------------------------------------------------------------------
(* sigma_preparation.                                                       *)

\* The first n cycles have their circular counts, or are getting them.
Prepared(n) ==
    /\ n \in 0 .. Len(cycles)
    /\ taken = SubSeq(cycles, n + 1, Len(cycles))
    /\ \A i \in 1 .. n : Covers(cycles[i]) \/ (i = n /\ work # <<>>)
    /\ work = <<>> => Coloured({"Red"}) = {}
    /\ work # <<>> => n > 0 /\ Balancing(cycles[n])

\* What holds while circular counts are prepared.
LEMMA SigmaFrame ==
    ASSUME CollectorAssumption, IInv, pc = "sigma"
    PROVE  /\ Traversing /\ Preparing
           /\ Simple(cycles) /\ cycles \in Seq(Seq(Obj)) /\ Len(cycles) \in Nat
           /\ \E n : Prepared(n)
           /\ \A o \in Obj : color[o] \in {"Black", "Orange", "Red"}
           /\ \A o \in Obj : color[o] # "Black" => o \in allocated
           /\ \A o : o \in Parked(cycles) <=> o \in Obj /\ color[o] # "Black"
           /\ roots = {} /\ iter = {}
<1>1. Preparing /\ TypeOK /\ Lists
    BY DEF IInv
<1>2. \E n : Prepared(n)
    BY <1>1 DEF Preparing, Prepared
<1>3. \A o \in Obj : color[o] \in {"Black", "Orange", "Red"}
    BY <1>1 DEF Preparing, Coloured
<1>4. \A o : o \in Parked(cycles) <=> o \in Obj /\ color[o] # "Black"
    BY <1>1, <1>3 DEF Preparing, Coloured
<1>5. \A o \in Obj : color[o] # "Black" => o \in allocated
    BY <1>1 DEF Lists
<1>6. cycles \in Seq(Seq(Obj)) /\ Len(cycles) \in Nat
    BY <1>1, LenProperties DEF TypeOK
<1> QED
    BY <1>1, <1>2, <1>3, <1>4, <1>5, <1>6 DEF Traversing, Preparing, Lists

\* Preparing frees nothing.
LEMMA PreparedIsCalm ==
    ASSUME NEW n, Prepared(n)'
    PROVE  Condemned' = {}
<1>1. CASE work' = <<>>
    <2>1. work' \in Seq(Entry)
        BY <1>1
    <2>2. Entries' = {}
        BY <1>1, <2>1, ToSetEmpty DEF Entries
    <2> QED
        BY <2>2 DEF Condemned
<1>2. CASE work' # <<>>
    <2>1. Plain({"SubKids", "Paint"})'
        BY <1>2 DEF Prepared, Balancing
    <2> QED
        BY <2>1 DEF Plain, Condemned, Do
<1> QED
    BY <1>1, <1>2

\* The parts of a step of sigma_preparation.
LEMMA SigmaKept ==
    ASSUME CollectorAssumption, IInv, pc = "sigma",
           UNCHANGED <<mutVars, epochRc, buffered, heapVars, pc, iter, listVars, setVars>>,
           work' \in Seq(Entry), taken' \in Seq(Seq(Obj)), crc' \in [Obj -> Int],
           color' \in [Obj -> {"Black", "Orange", "Red"}],
           \A o \in Obj : color'[o] = "Black" <=> color[o] = "Black",
           NEW n, Prepared(n)'
    PROVE  IInv' /\ UNCHANGED H!vars
<1> USE SigmaFrame, Calm
<1>1. TypeOK'
    BY DEF TypeOK, mutVars, heapVars, listVars, setVars, Color
<1>2. Condemned' = {}
    BY PreparedIsCalm
<1>3. UNCHANGED H!vars /\ H!Inv' /\ Quiet' /\ Counted'
    BY <1>1, <1>2, CalmFrame DEF listVars
<1>4. Lists'
    BY DEF Lists, mutVars, heapVars, listVars, setVars
<1>5. UNCHANGED <<slots, handles, cycles, allocated>>
    BY DEF mutVars, setVars
<1>6. Closed(Parked(cycles))' /\ Ordered(cycles, Parked(cycles))' /\ Simple(cycles)'
    BY <1>5 DEF Closed, Ordered, Simple, Preparing
<1>7. Coloured({"Black", "Orange", "Red"})' = Obj
    BY DEF Coloured
<1>8. Parked(cycles') = Coloured({"Orange", "Red"})'
    <2>1. \A o : o \in Parked(cycles) <=> o \in Obj /\ color'[o] \in {"Orange", "Red"}
        OBVIOUS
    <2> QED
        BY <1>5, <2>1 DEF Coloured
<1>9. Preparing'
    BY <1>6, <1>7, <1>8, Zenon DEF Preparing, Prepared
<1> QED
    BY <1>1, <1>3, <1>4, <1>9, TraverseIs

\* With the stack and the roots empty no White object is left: all of them are parked.
LEMMA EndCollectStep ==
    ASSUME CollectorAssumption, IInv, EndCollect
    PROVE  IInv' /\ UNCHANGED H!vars
<1>1. pc = "collect" /\ work = <<>> /\ iter = {}
    BY DEF EndCollect, At
<1> USE <1>1, CollectFrame, Calm
<1>2. /\ pc' = "sigma" /\ taken' = cycles
      /\ UNCHANGED <<mutVars, header, heapVars, iter, listVars, setVars, work>>
    BY DEF EndCollect
<1>3. TypeOK'
    BY <1>2 DEF TypeOK, mutVars, header, heapVars, listVars, setVars, Phase
<1>4. Entries = {} /\ Entries' = {} /\ Condemned' = {}
    BY <1>2, EmptyIsCalm DEF Condemned, Entries
<1>5. UNCHANGED H!vars /\ H!Inv' /\ Quiet' /\ Counted'
    BY <1>2, <1>3, <1>4, CalmFrame DEF listVars, header
<1>6. Lists'
    BY <1>2 DEF Lists, mutVars, header, heapVars, listVars, setVars
<1>7. UNCHANGED <<slots, handles, crc, color, cycles, allocated, work>>
    BY <1>2 DEF mutVars, header, setVars
<1>8. \A o \in Obj : color[o] # "White"
    <2>1. iter \union Doing("CollectWhite") = {}
        BY <1>4 DEF Doing
    <2>2. Reached(slots, Coloured({"White"}), {})
        BY <2>1, Zenon DEF Collecting
    <2>3. Coloured({"White"}) \subseteq {}
        BY <2>2 DEF Reached
    <2> QED
        BY <2>3 DEF Coloured
<1>9. \A o \in Obj : color[o] \in {"Black", "Orange"}
    BY <1>8
<1>10. Coloured({"White", "Orange"}) = Parked(cycles) /\ Coloured({"Orange"}) = Parked(cycles)
    BY <1>9 DEF Coloured
<1>11. Closed(Parked(cycles))' /\ Ordered(cycles, Parked(cycles))' /\ Simple(cycles)'
    <2>1. Closed(Parked(cycles)) /\ Ordered(cycles, Parked(cycles)) /\ Simple(cycles)
        BY <1>10, Zenon DEF Collecting
    <2> QED
        BY <1>7, <2>1 DEF Closed, Ordered, Simple
<1>12. Coloured({"Black", "Orange", "Red"})' = Obj /\ Parked(cycles') = Coloured({"Orange", "Red"})' /\ Coloured({"Red"})' = {}
    BY <1>7, <1>9 DEF Coloured
<1>13. Len(cycles') \in Nat /\ SubSeq(cycles', 0 + 1, Len(cycles')) = cycles'
    BY <1>7, SubSeqFull, LenProperties
<1>14. Prepared(0)'
    BY <1>1, <1>2, <1>7, <1>12, <1>13 DEF Prepared
<1>15. Preparing'
    BY <1>11, <1>12, <1>14, Zenon DEF Preparing, Prepared
<1> QED
    BY <1>2, <1>3, <1>5, <1>6, <1>15, TraverseIs

\* Every parked cycle is Orange, and its circular counts cover the references from outside it.
LEMMA EndSigmaStep ==
    ASSUME CollectorAssumption, IInv, EndSigma
    PROVE  IInv' /\ UNCHANGED H!vars
<1>1. pc = "sigma" /\ work = <<>> /\ taken = <<>>
    BY DEF EndSigma, At
<1> USE <1>1, SigmaFrame, Calm
<1>2. /\ pc' = "splice" /\ freedObjs' = {}
      /\ UNCHANGED <<mutVars, header, heapVars, iter, taken, listVars, roots, cycles, work>>
    BY DEF EndSigma
<1>3. TypeOK'
    BY <1>2 DEF TypeOK, mutVars, header, heapVars, listVars, setVars, Phase
<1>4. Condemned' = {}
    BY <1>2, EmptyIsCalm DEF Condemned, Entries
<1>5. UNCHANGED H!vars /\ H!Inv' /\ Quiet' /\ Counted'
    BY <1>2, <1>3, <1>4, CalmFrame DEF listVars, header
<1>6. Lists'
    BY <1>2 DEF Lists, mutVars, header, heapVars, listVars, setVars
<1>7. UNCHANGED <<slots, handles, crc, color, cycles, allocated, rc, epochRc>>
    BY <1>2 DEF mutVars, header, setVars
<1>8. PICK n : Prepared(n)
    OBVIOUS
<1>9. n = Len(cycles)
    <2>1. PICK t : t = SubSeq(cycles, n + 1, Len(cycles))
        OBVIOUS
    <2>2. n \in 0 .. Len(cycles) /\ t = <<>>
        BY <1>8, <2>1 DEF Prepared
    <2>3. Len(t) = IF n + 1 <= Len(cycles) THEN Len(cycles) - (n + 1) + 1 ELSE 0
        <3>1. \A i \in n + 1 .. Len(cycles) : cycles[i] \in Seq(Obj)
            <4>1. \A i \in n + 1 .. Len(cycles) : i \in 1 .. Len(cycles)
                BY <2>2
            <4> QED
                BY <4>1, ElementOfSeq
        <3>2. n + 1 \in Int /\ Len(cycles) \in Int
            BY <2>2
        <3> QED
            BY <2>1, <3>1, <3>2, SubSeqProperties
    <2>4. Len(t) = 0
        BY <2>2
    <2> QED
        BY <2>2, <2>3, <2>4
<1>10. \A o \in Obj : color[o] \in {"Black", "Orange"}
    BY <1>8 DEF Prepared, Coloured
<1>11. \A i \in 1 .. Len(cycles) : Covers(cycles[i])'
    <2>1. \A i \in 1 .. Len(cycles) : Covers(cycles[i])
        BY <1>8, <1>9 DEF Prepared
    <2> QED
        BY <1>7, <2>1 DEF Covers
<1>12. Closed(Parked(cycles))' /\ Ordered(cycles, Parked(cycles))' /\ Simple(cycles)'
    BY <1>7 DEF Closed, Ordered, Simple, Preparing
<1>13. Parked(cycles') \subseteq allocated'
    BY <1>7
<1>14. \A o \in Parked(cycles') \intersect allocated' : color'[o] = "Orange" /\ (o \notin Condemned' => rc'[o] <= epochRc'[o])
    BY <1>7, <1>10
<1>15. Coloured({"Orange"})' \subseteq Parked(cycles') /\ Coloured({"Black", "Orange"})' = Obj
    BY <1>7, <1>10 DEF Coloured
<1>16. Resting'
    BY <1>7, <1>11, <1>12, <1>13, <1>14, <1>15 DEF Resting
<1>17. AtRest'
    BY <1>15, <1>16 DEF AtRest
<1> QED
    BY <1>2, <1>3, <1>5, <1>6, <1>17, TraverseIs

\* The first m cycles without the last of them.
Advanced(n, m, t) ==
    /\ n + 1 \in 1 .. Len(cycles) /\ m = n + 1
    /\ Head(taken) = cycles[m] /\ taken # <<>>
    /\ t = SubSeq(cycles, m + 1, Len(cycles)) /\ t \in Seq(Seq(Obj))

\* The loop takes the next cycle.
LEMMA Advances ==
    ASSUME TypeOK, taken # <<>>, NEW n, n \in 0 .. Len(cycles), Len(cycles) \in Nat,
           taken = SubSeq(cycles, n + 1, Len(cycles)), NEW t, t = Tail(taken)
    PROVE  Advanced(n, n + 1, t)
<1>1. cycles \in Seq(Seq(Obj)) /\ taken \in Seq(Seq(Obj))
    BY DEF TypeOK
<1>2. n + 1 \in 1 .. Len(cycles)
    <2>1. ASSUME Len(cycles) < n + 1 PROVE FALSE
        <3>1. n + 1 \in Int /\ Len(cycles) \in Int
            OBVIOUS
        <3>2. SubSeq(cycles, n + 1, Len(cycles)) = <<>>
            BY <2>1, <3>1, SubSeqEmpty
        <3> QED
            BY <3>2, Zenon
    <2> QED
        BY <2>1
<1>3. PICK m \in 1 .. Len(cycles) : m = n + 1
    BY <1>2
<1>4. PICK l \in m .. Len(cycles) : l = Len(cycles)
    BY <1>3
<1>5. /\ Head(SubSeq(cycles, m, l)) = cycles[m]
      /\ Tail(SubSeq(cycles, m, l)) = SubSeq(cycles, m + 1, l)
    BY <1>1, <1>4, HeadTailOfSubSeq
<1>6. taken = SubSeq(cycles, m, l)
    BY <1>3, <1>4, Zenon
<1>7. Head(taken) = cycles[m] /\ t = SubSeq(cycles, m + 1, Len(cycles))
    BY <1>4, <1>5, <1>6, Zenon
<1>8. t \in Seq(Seq(Obj))
    BY <1>1, HeadTailProperties
<1>9. Advanced(n, m, t)
    BY <1>2, <1>3, <1>7, <1>8 DEF Advanced
<1> QED
    BY <1>3, <1>9, Zenon

\* Two loops over a cycle, one after the other.
LEMMA PassesIs ==
    ASSUME NEW c \in Seq(Obj), NEW op \in Op, NEW oq \in Op,
           NEW x, x = MemberEntries(op, c) \o MemberEntries(oq, c)
    PROVE  Passes(x, c, op, oq)
<1>1. PICK a : a = MemberEntries(op, c)
    OBVIOUS
<1>2. PICK b : b = MemberEntries(oq, c)
    OBVIOUS
<1>3. PICK y : y = a \o b
    OBVIOUS
<1>4. x = y
    BY <1>1, <1>2, <1>3, Zenon
<1>5. c \in Seq(Obj) /\ op \in Op /\ oq \in Op
    OBVIOUS
<1>7. Passes(y, c, op, oq)
    BY <1>1, <1>2, <1>3, <1>5, TwoPasses
<1> QED
    BY <1>4, <1>7, Zenon

\* A position of it is in the first pass or in the second.
LEMMA PassAt ==
    ASSUME NEW x, NEW c, NEW op, NEW oq, Passes(x, c, op, oq), NEW i \in 1 .. Len(x)
    PROVE  \/ i \in 1 .. Len(c) /\ x[i] = Do(op, c[i])
           \/ \E j \in 1 .. Len(c) : i = Len(c) + j /\ x[i] = Do(oq, c[j])
<1>1. Len(c) \in Nat /\ Len(x) = Len(c) + Len(c)
    BY DEF Passes
<1>2. i \in Int
    BY <1>1
<1>3. CASE i <= Len(c)
    <2>1. i \in 1 .. Len(c)
        BY <1>1, <1>2, <1>3
    <2> QED
        BY <2>1 DEF Passes
<1>4. CASE ~(i <= Len(c))
    <2>1. i - Len(c) \in Int
        BY <1>1, <1>2
    <2>2. PICK j \in Int : j = i - Len(c)
        BY <2>1, Zenon
    <2>3. j \in 1 .. Len(c) /\ i = Len(c) + j
        BY <1>1, <1>2, <1>4, <2>2
    <2>4. x[Len(c) + j] = Do(oq, c[j])
        BY <2>3 DEF Passes
    <2> QED
        BY <2>3, <2>4
<1> QED
    BY <1>3, <1>4

\* The entries of two loops: both operations for every member, and nothing else.
LEMMA PassSet ==
    ASSUME NEW x, NEW c, NEW op, NEW oq, Passes(x, c, op, oq)
    PROVE  /\ \A e \in ToSet(x) : \E o \in Members(c) : e = Do(op, o) \/ e = Do(oq, o)
           /\ \A o \in Members(c) : Do(op, o) \in ToSet(x) /\ Do(oq, o) \in ToSet(x)
<1>1. x \in Seq(Entry) /\ Len(c) \in Nat /\ Len(x) = Len(c) + Len(c)
    BY DEF Passes
<1>2. ToSet(x) = {x[i] : i \in 1 .. Len(x)}
    BY <1>1, ToSetIs
<1>3. ASSUME NEW e \in ToSet(x) PROVE \E o \in Members(c) : e = Do(op, o) \/ e = Do(oq, o)
    <2>1. PICK i \in 1 .. Len(x) : e = x[i]
        BY <1>2
    <2>2. \E j \in 1 .. Len(c) : x[i] = Do(op, c[j]) \/ x[i] = Do(oq, c[j])
        BY PassAt
    <2> QED
        BY <2>1, <2>2 DEF Members
<1>4. ASSUME NEW o \in Members(c) PROVE Do(op, o) \in ToSet(x) /\ Do(oq, o) \in ToSet(x)
    <2>1. PICK i \in 1 .. Len(c) : o = c[i]
        BY DEF Members
    <2>2. i \in 1 .. Len(x) /\ Len(c) + i \in 1 .. Len(x)
        BY <1>1
    <2>3. x[i] = Do(op, o) /\ x[Len(c) + i] = Do(oq, o)
        BY <2>1 DEF Passes
    <2> QED
        BY <1>2, <2>2, <2>3
<1> QED
    BY <1>3, <1>4

\* No entry occurs twice if no member does.
LEMMA PassDistinct ==
    ASSUME NEW x, NEW c, NEW op, NEW oq, Passes(x, c, op, oq), op # oq,
           \A a, b \in 1 .. Len(c) : c[a] = c[b] => a = b
    PROVE  \A i, j \in 1 .. Len(x) : x[i] = x[j] => i = j
<1>1. SUFFICES ASSUME NEW i \in 1 .. Len(x), NEW j \in 1 .. Len(x), x[i] = x[j] PROVE i = j
    OBVIOUS
<1>2. CASE i \in 1 .. Len(c) /\ x[i] = Do(op, c[i])
    <2>1. \A b \in 1 .. Len(c) : x[j] # Do(oq, c[b])
        BY <1>1, <1>2 DEF Do
    <2>2. j \in 1 .. Len(c) /\ x[j] = Do(op, c[j])
        BY <2>1, PassAt
    <2>3. Do(op, c[i]).obj = c[i] /\ Do(op, c[j]).obj = c[j]
        BY DEF Do
    <2>4. Do(op, c[i]) = Do(op, c[j])
        BY <1>1, <1>2, <2>2, Zenon
    <2>5. c[i] = c[j]
        BY <2>3, <2>4, Zenon
    <2> QED
        BY <1>2, <2>2, <2>5
<1>3. CASE \E a \in 1 .. Len(c) : i = Len(c) + a /\ x[i] = Do(oq, c[a])
    <2>1. PICK a \in 1 .. Len(c) : i = Len(c) + a /\ x[i] = Do(oq, c[a])
        BY <1>3
    <2>2. x[j] # Do(op, c[j])
        BY <1>1, <2>1 DEF Do
    <2>3. PICK b \in 1 .. Len(c) : j = Len(c) + b /\ x[j] = Do(oq, c[b])
        BY <2>2, PassAt
    <2>4. c[a] = c[b]
        BY <1>1, <2>1, <2>3 DEF Do
    <2> QED
        BY <2>1, <2>3, <2>4
<1> QED
    BY <1>2, <1>3, PassAt

\* The first loop of sigma_preparation: every member Red, its circular count the count noted.
LEMMA SigmaCycleStep ==
    ASSUME CollectorAssumption, IInv, SigmaCycle
    PROVE  IInv' /\ UNCHANGED H!vars
<1>1. pc = "sigma" /\ work = <<>> /\ taken # <<>>
    BY DEF SigmaCycle, At
<1> USE <1>1, SigmaFrame, Calm
<1>2. PICK n : Prepared(n)
    OBVIOUS
<1>3. PICK c : c = Head(taken)
    OBVIOUS
<1>4. /\ color' = [o \in Obj |-> IF o \in Members(c) THEN "Red" ELSE color[o]]
      /\ crc' = [o \in Obj |-> IF o \in Members(c) THEN epochRc[o] ELSE crc[o]]
      /\ UNCHANGED <<mutVars, epochRc, buffered, heapVars, pc, iter, listVars, setVars>>
    BY <1>3 DEF SigmaCycle
<1>5. PICK t : t = Tail(taken)
    OBVIOUS
<1>6. taken' = t
    BY <1>5 DEF SigmaCycle
<1>7. PICK x : x = MemberEntries("SubKids", c) \o MemberEntries("Paint", c)
    OBVIOUS
<1>8. work' = x
    BY <1>3, <1>7, Zenon DEF SigmaCycle
<1>9. PICK m : m = n + 1
    OBVIOUS
<1>10. n \in 0 .. Len(cycles) /\ taken = SubSeq(cycles, n + 1, Len(cycles))
    BY <1>2 DEF Prepared
<1>11. Advanced(n, m, t)
    BY <1>5, <1>9, <1>10, Advances
<1> HIDE <1>5, <1>7
<1>12. m \in 1 .. Len(cycles) /\ m = n + 1 /\ c = cycles[m] /\ t \in Seq(Seq(Obj))
    BY <1>3, <1>9, <1>11 DEF Advanced
<1>13. t = SubSeq(cycles, m + 1, Len(cycles))
    BY <1>11 DEF Advanced
<1>14. c \in Seq(Obj) /\ Members(c) \subseteq Parked(cycles)
    BY <1>12, ParkedIn
<1>15. Passes(x, c, "SubKids", "Paint")
    <2>1. "SubKids" \in Op /\ "Paint" \in Op
        BY DEF Op
    <2> QED
        BY <1>7, <1>14, <2>1, PassesIs
<1>16. \A o \in Members(c) : o \in Obj /\ color[o] # "Black" /\ o \in allocated
    BY <1>14
<1>17. /\ color' \in [Obj -> {"Black", "Orange", "Red"}]
       /\ \A o \in Obj : color'[o] = "Black" <=> color[o] = "Black"
       /\ \A o \in Obj : color'[o] = IF o \in Members(c) THEN "Red" ELSE color[o]
       /\ crc' \in [Obj -> Int]
       /\ \A o \in Obj : crc'[o] = IF o \in Members(c) THEN epochRc[o] ELSE crc[o]
    BY <1>4, <1>16 DEF TypeOK
<1>18. \A o \in Obj : color[o] # "Red"
    BY <1>2 DEF Prepared, Coloured
<1>19. x \in Seq(Entry) /\ work' \in Seq(Entry)
    BY <1>8, <1>15 DEF Passes
<1>20. UNCHANGED <<slots, cycles, allocated, handles>>
    BY <1>4 DEF mutVars, setVars
<1>21. ASSUME NEW i \in 1 .. n PROVE Covers(cycles[i])'
    <2>1. Covers(cycles[i])
        BY <1>2 DEF Prepared
    <2>2. i \in 1 .. Len(cycles) /\ i # m
        BY <1>10, <1>12
    <2>3. \A o \in Members(cycles[i]) : o \in Obj /\ o \notin Members(c)
        <3>1. \A o \in Members(cycles[i]) : o \in Obj
            BY <2>2, ParkedIn
        <3> QED
            BY <1>12, <2>2, <3>1, SimpleApart
    <2> QED
        BY <1>17, <1>20, <2>1, <2>3 DEF Covers
<1>22. \A a, b \in 1 .. Len(c) : c[a] = c[b] => a = b
    BY <1>12 DEF Simple
<1>23. Entries' = ToSet(x)
    BY <1>8, Zenon DEF Entries
<1>24. CASE x = <<>>
    <2>1. Len(c) = 0
        BY <1>15, <1>24 DEF Passes
    <2>2. Members(c) = {}
        BY <2>1 DEF Members
    <2>3. Covers(cycles[m])'
        BY <1>12, <1>20, <2>2 DEF Covers
    <2>4. \A i \in 1 .. m : Covers(cycles[i])'
        BY <1>10, <1>12, <1>21, <2>3
    <2>5. Coloured({"Red"})' = {}
        BY <1>17, <1>18, <2>2 DEF Coloured
    <2>6. m \in 0 .. Len(cycles)
        BY <1>12
    <2>7. Prepared(m)'
        BY <1>6, <1>8, <1>13, <1>20, <1>24, <2>4, <2>5, <2>6 DEF Prepared
    <2> QED
        BY <1>4, <1>6, <1>12, <1>17, <1>19, <2>7, SigmaKept
<1>25. CASE x # <<>>
    <2>1. Plain({"SubKids", "Paint"})' /\ \A e \in Entries' : e.obj \in Members(c)
        <3>1. \A e \in Entries' : \E o \in Members(c) : e = Do("SubKids", o) \/ e = Do("Paint", o)
            BY <1>15, <1>23, PassSet
        <3> QED
            BY <1>16, <1>20, <3>1 DEF Plain, Do
    <2>2. \A i, j \in 1 .. Len(work') : work'[i] = work'[j] => i = j
        <3>1. "SubKids" # "Paint"
            OBVIOUS
        <3>2. \A i, j \in 1 .. Len(x) : x[i] = x[j] => i = j
            BY <1>15, <1>22, <3>1, PassDistinct
        <3> QED
            BY <1>8, <3>2
    <2>3. \A i, j \in 1 .. Len(work') : i < j /\ work'[i].op = "Paint" => work'[j].op = "Paint"
        <3>1. SUFFICES ASSUME NEW i \in 1 .. Len(x), NEW j \in 1 .. Len(x), i < j, x[i].op = "Paint" PROVE x[j].op = "Paint"
            BY <1>8
        <3>2. x[i] # Do("SubKids", c[i])
            BY <3>1 DEF Do
        <3>3. PICK a \in 1 .. Len(c) : i = Len(c) + a
            BY <1>15, <3>2, PassAt
        <3>4. j \notin 1 .. Len(c)
            BY <1>15, <3>1, <3>3 DEF Passes
        <3>5. PICK b \in 1 .. Len(c) : x[j] = Do("Paint", c[b])
            BY <1>15, <3>4, PassAt
        <3> QED
            BY <3>5 DEF Do
    <2>4. \A o \in Members(c) : o \in Doing("SubKids")' /\ o \in Doing("Paint")'
        BY <1>15, <1>16, <1>23, PassSet DEF Doing
    <2>5. Coloured({"Red"})' = Members(c)
        BY <1>16, <1>17, <1>18 DEF Coloured
    <2>6. ASSUME NEW o \in Members(c)
          PROVE  Cardinality(From(slots, (Obj \ Members(c)) \union Doing("SubKids")', o)) <= crc'[o]
        <3>1. o \in allocated /\ rc[o] <= epochRc[o] /\ crc'[o] = epochRc[o]
            BY <1>16, <1>17
        <3>2. /\ rc[o] = handles[o] + Cardinality(From(slots, Obj, o))
              /\ handles[o] \in Nat /\ rc[o] \in Int /\ epochRc[o] \in Int
            BY <3>1, CalmHeap DEF TypeOK
        <3>3. PICK a \in Nat : a = Cardinality(From(slots, Obj, o))
            BY FromIs
        <3>4. PICK b \in Nat : b = Cardinality(From(slots, (Obj \ Members(c)) \union Doing("SubKids")', o))
            BY FromIs
        <3>5. From(slots, (Obj \ Members(c)) \union Doing("SubKids")', o) \subseteq From(slots, Obj, o)
            BY DEF From
        <3>6. b <= a
            BY <3>3, <3>4, <3>5, FromLess
        <3>7. rc[o] = handles[o] + a
            BY <3>2, <3>3, Zenon
        <3>8. b <= epochRc[o]
            BY <3>1, <3>2, <3>6, <3>7
        <3> QED
            BY <3>1, <3>4, <3>8, Zenon
    <2>7. Balancing(c)'
        <3>1. Members(c)' = Members(c)
            BY DEF Members
        <3>2. Coloured({"Red"})' \subseteq Doing("Paint")'
            BY <2>4, <2>5
        <3> QED
            BY <1>20, <2>1, <2>2, <2>3, <2>5, <2>6, <3>2 DEF Balancing, Members
    <2>8. \A i \in 1 .. m : Covers(cycles[i])' \/ i = m
        <3>1. \A i \in 1 .. m : i \in 1 .. n \/ i = m
            BY <1>10, <1>12
        <3> QED
            BY <1>21, <3>1
    <2>9. m \in 0 .. Len(cycles) /\ m > 0
        BY <1>12
    <2>10. Balancing(cycles[m])'
        BY <1>12, <1>20, <2>7, Zenon
    <2>11. Prepared(m)'
        BY <1>6, <1>8, <1>13, <1>20, <1>25, <2>8, <2>9, <2>10 DEF Prepared
    <2> QED
        BY <1>4, <1>6, <1>12, <1>17, <1>19, <2>11, SigmaKept
<1> QED
    BY <1>24, <1>25

\* The references of s to m are as many as the fields in which a traversal meets m.
LEMMA InsideIs ==
    ASSUME CollectorAssumption, TypeOK, locked = {}, NEW s \in Obj, NEW m \in Obj
    PROVE  Cardinality({k \in Visited(s) : slots[s][k] = m}) = Cardinality(From(slots, {s}, m))
<1>1. PICK A : A = {k \in Visited(s) : slots[s][k] = m}
    OBVIOUS
<1>2. PICK B : B = From(slots, {s}, m)
    OBVIOUS
<1>3. IsFiniteSet(A)
    <2>1. A \subseteq Visited(s) /\ IsFiniteSet(Visited(s))
        BY <1>1, VisitedIs
    <2> QED
        BY <2>1, FS_Subset
<1>4. \A k : k \in A <=> k \in Slot /\ slots[s][k] = m
    BY <1>1, VisitedIs DEF CollectorAssumption
<1>5. \A e : e \in B <=> e \in Obj \X Slot /\ e[1] = s /\ slots[s][e[2]] = m
    BY <1>2 DEF From
<1>6. PICK f : f = [k \in A |-> <<s, k>>]
    OBVIOUS
<1>7. f \in [A -> B]
    BY <1>4, <1>5, <1>6
<1>8. \A x, y \in A : f[x] = f[y] => x = y
    BY <1>6
<1>9. \A y \in B : \E x \in A : f[x] = y
    BY <1>4, <1>5, <1>6
<1>10. Cardinality(B) = Cardinality(A)
    <2> HIDE <1>6
    <2> QED
        BY <1>3, <1>7, <1>8, <1>9, SameSize
<1> QED
    BY <1>1, <1>2, <1>10, Zenon

\* x is w without its top.
Popped(x, w) == Len(x) = Len(w) - 1 /\ \A i \in 1 .. Len(x) : i + 1 \in 1 .. Len(w) /\ x[i] = w[i + 1]

\* Pushing nothing pops.
LEMMA PoppedIs ==
    ASSUME NEW S, NEW es \in Seq(S), Len(es) = 0, NEW w \in Seq(S), NEW x, IsPush(x, es, w)
    PROVE  Popped(x, w)
<1>1. Len(w) \in Nat /\ Len(x) = Len(w) - 1
    BY LenProperties DEF IsPush
<1>2. ASSUME NEW i \in 1 .. Len(x) PROVE i + 1 \in 1 .. Len(w) /\ x[i] = w[i + 1]
    <2>1. i + 1 \in 2 .. Len(w) /\ Len(es) + (i + 1) - 1 = i
        BY <1>1
    <2>2. \A j \in 2 .. Len(w) : x[Len(es) + j - 1] = w[j]
        BY DEF IsPush
    <2>3. x[Len(es) + (i + 1) - 1] = w[i + 1]
        BY <2>1, <2>2
    <2> QED
        BY <1>1, <2>1, <2>3
<1> QED
    BY <1>1, <1>2 DEF Popped

\* One step of the passes over cycle c.
LEMMA BalancePop ==
    ASSUME CollectorAssumption, IInv, pc = "sigma", NEW c, Balancing(c),
           NEW op, NEW s \in Obj, Popping(op, s), Push(<<>>), allocated' = allocated
    PROVE  /\ work' \in Seq(Entry)
           /\ s \in Members(c) /\ Do(op, s) \in Entries
           /\ Plain({"SubKids", "Paint"})'
           /\ \A e \in Entries' : e.obj \in Members(c)
           /\ \A i, j \in 1 .. Len(work') : work'[i] = work'[j] => i = j
           /\ \A i, j \in 1 .. Len(work') : i < j /\ work'[i].op = "Paint" => work'[j].op = "Paint"
           /\ Entries' = Entries \ {Do(op, s)}
           /\ op = "Paint" => Doing("SubKids") = {}
<1> USE SigmaFrame, Calm
<1>1. PICK ops : ops = {"SubKids", "Paint"}
    OBVIOUS
<1>2. Plain(ops) /\ "Free" \notin ops
    BY <1>1 DEF Balancing
<1>3. PICK es \in Seq(Entry) : es = <<>>
    BY NoEntries
<1>4. Push(es) /\ ToSet(es) = {} /\ Len(es) = 0
    BY <1>3, NoEntries
<1>5. TypeOK
    OBVIOUS
<1>6. /\ work' \in Seq(Entry) /\ IsPush(work', es, work) /\ Plain(ops)'
      /\ Head(work) = Do(op, s) /\ Do(op, s) \in Entries
    <2>1. \A e \in ToSet(es) : \E oq \in ops, o \in allocated : e = Do(oq, o)
        BY <1>4
    <2> QED
        BY <1>2, <1>4, <1>5, <2>1, PlainPop
<1>7. work \in Seq(Entry) /\ work # <<>>
    BY <1>5 DEF TypeOK, Popping
<1>8. Popped(work', work)
    BY <1>4, <1>6, <1>7, PoppedIs
<1>9. \A i \in 1 .. Len(work') : i + 1 \in 1 .. Len(work) /\ work'[i] = work[i + 1]
    BY <1>8 DEF Popped
<1>10. \A i, j \in 1 .. Len(work) : work[i] = work[j] => i = j
    BY DEF Balancing
<1>11. \A i, j \in 1 .. Len(work) : i < j /\ work[i].op = "Paint" => work[j].op = "Paint"
    BY DEF Balancing
<1>12. Len(work') \in Nat
    BY <1>6, LenProperties
<1>13. ASSUME NEW i \in 1 .. Len(work'), NEW j \in 1 .. Len(work'), work'[i] = work'[j] PROVE i = j
    <2>1. i + 1 = j + 1
        BY <1>9, <1>10, <1>13
    <2> QED
        BY <1>12, <2>1
<1>14. ASSUME NEW i \in 1 .. Len(work'), NEW j \in 1 .. Len(work'), i < j, work'[i].op = "Paint" PROVE work'[j].op = "Paint"
    <2>1. i + 1 < j + 1
        BY <1>12, <1>14
    <2>2. work[i + 1].op = "Paint" /\ i + 1 \in 1 .. Len(work) /\ j + 1 \in 1 .. Len(work)
        BY <1>9, <1>14
    <2>3. work[j + 1].op = "Paint"
        BY <1>11, <2>1, <2>2
    <2> QED
        BY <1>9, <2>3
<1>15. ToSet(work') = ToSet(es) \union (ToSet(work) \ {Head(work)})
    <2>1. es \in Seq(Entry)
        OBVIOUS
    <2> QED
        BY ONLY <2>1, <1>6, <1>7, <1>10, EntriesGone, Zenon
<1>16. Entries' = Entries \ {Do(op, s)}
    BY <1>4, <1>6, <1>15 DEF Entries
<1>17. \A e \in Entries : e.obj \in Members(c)
    BY DEF Balancing
<1>18. s \in Members(c)
    BY <1>6, <1>17 DEF Do
<1>19. ASSUME op = "Paint", NEW o \in Doing("SubKids") PROVE FALSE
    <2>1. ToSet(work) = {work[i] : i \in 1 .. Len(work)}
        BY <1>7, ToSetIs
    <2>2. PICK j \in 1 .. Len(work) : work[j] = Do("SubKids", o)
        BY <2>1 DEF Doing, Entries
    <2>3. work[1] = Do(op, s) /\ 1 \in 1 .. Len(work) /\ Len(work) \in Nat
        BY <1>6, <1>7, HeadIn, LenProperties
    <2>4. work[1].op = "Paint" /\ work[j].op = "SubKids"
        BY <1>19, <2>2, <2>3 DEF Do
    <2>5. j # 1
        BY <2>4
    <2>6. 1 < j
        BY <2>3, <2>5
    <2> QED
        BY <1>11, <2>3, <2>4, <2>6
<1>20. \A e \in Entries' : e.obj \in Members(c)
    BY <1>16, <1>17
<1>21. Plain({"SubKids", "Paint"})'
    BY <1>1, <1>6, Zenon
<1> QED
    BY <1>6, <1>13, <1>14, <1>16, <1>18, <1>19, <1>20, <1>21

\* The second loop takes exactly the references of one member to others off their circular counts.
LEMMA SubKidsStep ==
    ASSUME CollectorAssumption, IInv, NEW s \in Obj, SubKids(s)
    PROVE  IInv' /\ UNCHANGED H!vars
<1>1. pc = "sigma" /\ Popping("SubKids", s) /\ work # <<>>
    BY PopPhase DEF SubKids, Popping
<1> USE <1>1, SigmaFrame, Calm
<1>2. PICK n : Prepared(n)
    OBVIOUS
<1>3. PICK c : c = cycles[n]
    OBVIOUS
<1>4. n \in 1 .. Len(cycles) /\ Balancing(c)
    BY <1>2, <1>3 DEF Prepared
<1>5. /\ UNCHANGED <<mutVars, epochRc, buffered, heapVars, pc, iter, taken, listVars, setVars, color>>
      /\ Push(<<>>)
    BY DEF SubKids, loopVars
<1>6. UNCHANGED <<allocated, slots, cycles, handles>>
    BY <1>5 DEF mutVars, setVars
<1>7. PICK in : in = [m \in Obj |-> Cardinality({k \in Visited(s) : slots[s][k] = m})]
    OBVIOUS
<1>8. \A m \in Obj : in[m] = Cardinality(From(slots, {s}, m)) /\ in[m] \in Nat
    <2>1. \A m \in Obj : in[m] = Cardinality({k \in Visited(s) : slots[s][k] = m})
        BY <1>7, Zenon
    <2>2. TypeOK /\ locked = {}
        BY <1>1, Calm
    <2>3. \A m \in Obj : Cardinality({k \in Visited(s) : slots[s][k] = m}) = Cardinality(From(slots, {s}, m))
        BY <2>2, InsideIs, Zenon
    <2>4. \A m \in Obj : Cardinality(From(slots, {s}, m)) \in Nat
        BY FromIs, Zenon
    <2> QED
        BY <2>1, <2>3, <2>4, Zenon
<1>9. crc' = [m \in Obj |->
                 IF color[m] # "Red" \/ crc[m] <= 0 THEN crc[m]
                 ELSE IF crc[m] > in[m] THEN crc[m] - in[m] ELSE 0]
    BY <1>7 DEF SubKids
<1> HIDE <1>7
<1>10. /\ work' \in Seq(Entry)
       /\ s \in Members(c) /\ Do("SubKids", s) \in Entries
       /\ Plain({"SubKids", "Paint"})'
       /\ \A e \in Entries' : e.obj \in Members(c)
       /\ \A i, j \in 1 .. Len(work') : work'[i] = work'[j] => i = j
       /\ \A i, j \in 1 .. Len(work') : i < j /\ work'[i].op = "Paint" => work'[j].op = "Paint"
       /\ Entries' = Entries \ {Do("SubKids", s)}
    BY <1>4, <1>5, <1>6, BalancePop
<1>11. c \in Seq(Obj) /\ Members(c) \subseteq Obj /\ Members(c) \subseteq Parked(cycles)
    BY <1>3, <1>4, ParkedIn
<1>12. crc' \in [Obj -> Int] /\ crc \in [Obj -> Int]
    BY <1>8, <1>9 DEF TypeOK
<1>13. s \in Doing("SubKids")
    BY <1>10 DEF Doing
<1>14. Members(c) \subseteq Coloured({"Red"}) /\ Coloured({"Red"}) \subseteq Doing("Paint")
    BY <1>4, <1>13 DEF Balancing
<1>15. Doing("SubKids")' = Doing("SubKids") \ {s} /\ Doing("Paint")' = Doing("Paint")
    BY <1>10 DEF Doing, Do
<1>16. work' # <<>>
    <2>1. Do("Paint", s) \in Entries'
        BY <1>10, <1>14, <1>15 DEF Doing
    <2>2. ToSet(work') # {}
        BY <2>1 DEF Entries
    <2> QED
        BY <1>10, <2>2, ToSetEmpty
<1>17. ASSUME NEW m \in Members(c)
       PROVE  Cardinality(From(slots, (Obj \ Members(c)) \union Doing("SubKids")', m)) <= crc'[m]
    <2>1. m \in Obj /\ color[m] = "Red"
        BY <1>11, <1>14 DEF Coloured
    <2>2. PICK T : T = (Obj \ Members(c)) \union Doing("SubKids")'
        OBVIOUS
    <2>3. PICK U : U = (Obj \ Members(c)) \union Doing("SubKids")
        OBVIOUS
    <2>4. T \intersect {s} = {} /\ U = T \union {s}
        BY <1>10, <1>13, <1>15, <2>2, <2>3
    <2>5. Cardinality(From(slots, U, m)) = Cardinality(From(slots, T, m)) + Cardinality(From(slots, {s}, m))
        BY <2>4, FromSplit
    <2>6. PICK a \in Nat : a = Cardinality(From(slots, T, m))
        BY FromIs
    <2>7. Cardinality(From(slots, U, m)) <= crc[m]
        BY <1>4, <2>3, Zenon DEF Balancing
    <2>8. a + in[m] <= crc[m]
        BY <1>8, <2>1, <2>5, <2>6, <2>7, Zenon
    <2>9. a <= crc'[m]
        <3>1. crc'[m] = IF crc[m] <= 0 THEN crc[m] ELSE IF crc[m] > in[m] THEN crc[m] - in[m] ELSE 0
            BY <1>9, <2>1
        <3> QED
            BY <1>8, <1>12, <2>1, <2>8, <3>1
    <2> QED
        BY <2>2, <2>6, <2>9, Zenon
<1>18. \A cs : Coloured(cs)' = Coloured(cs)
    BY <1>5 DEF Coloured
<1>19. Balancing(c)'
    <2>1. Coloured({"Red"})' \subseteq Doing("Paint")'
        BY <1>14, <1>15, <1>18
    <2>2. Members(c) \subseteq Coloured({"Red"})'
        BY <1>14, <1>18
    <2> QED
        BY <1>6, <1>10, <1>17, <2>1, <2>2 DEF Balancing, Members
<1>20. ASSUME NEW i \in 1 .. n PROVE Covers(cycles[i])' \/ i = n
    <2>1. SUFFICES ASSUME i # n PROVE Covers(cycles[i])'
        OBVIOUS
    <2>2. Covers(cycles[i]) /\ i \in 1 .. Len(cycles)
        BY <1>2, <1>4, <2>1 DEF Prepared
    <2>3. \A o \in Members(cycles[i]) : o \in Obj /\ color[o] # "Red"
        <3>1. \A o \in Members(cycles[i]) : o \in Obj
            BY <2>2, ParkedIn
        <3>2. \A o \in Doing("Paint") : o \in Members(c)
            BY <1>4 DEF Doing, Balancing, Do
        <3>3. \A o \in Obj : color[o] = "Red" => o \in Members(c)
            BY <1>14, <3>2 DEF Coloured
        <3>4. \A o \in Members(cycles[i]) : o \notin Members(c)
            BY <1>3, <1>4, <2>1, <2>2, SimpleApart
        <3> QED
            BY <3>1, <3>3, <3>4
    <2>4. \A o \in Members(cycles[i]) : crc'[o] = crc[o]
        BY <1>9, <2>3
    <2> QED
        BY <1>6, <2>2, <2>4 DEF Covers
<1>21. Prepared(n)'
    <2>1. n \in 0 .. Len(cycles) /\ n > 0
        BY <1>4
    <2>2. taken' = SubSeq(cycles', n + 1, Len(cycles'))
        BY <1>2, <1>5, <1>6 DEF Prepared
    <2>3. Balancing(cycles[n])'
        BY <1>3, <1>6, <1>19, Zenon
    <2> QED
        BY <1>6, <1>16, <1>20, <2>1, <2>2, <2>3 DEF Prepared
<1>22. /\ color' \in [Obj -> {"Black", "Orange", "Red"}]
       /\ \A o \in Obj : color'[o] = "Black" <=> color[o] = "Black"
       /\ taken' \in Seq(Seq(Obj))
    BY <1>5 DEF TypeOK
<1> QED
    BY <1>5, <1>10, <1>12, <1>21, <1>22, SigmaKept

\* The third loop paints the cycle Orange again.
LEMMA PaintStep ==
    ASSUME CollectorAssumption, IInv, NEW s \in Obj, Paint(s)
    PROVE  IInv' /\ UNCHANGED H!vars
<1>1. pc = "sigma" /\ Popping("Paint", s) /\ work # <<>>
    BY PopPhase DEF Paint, Popping
<1> USE <1>1, SigmaFrame, Calm
<1>2. PICK n : Prepared(n)
    OBVIOUS
<1>3. PICK c : c = cycles[n]
    OBVIOUS
<1>4. n \in 1 .. Len(cycles) /\ Balancing(c)
    BY <1>2, <1>3 DEF Prepared
<1>5. /\ UNCHANGED <<mutVars, epochRc, buffered, heapVars, pc, iter, taken, listVars, setVars, crc>>
      /\ Push(<<>>) /\ color' = [color EXCEPT ![s] = "Orange"]
    BY DEF Paint, loopVars
<1>6. UNCHANGED <<allocated, slots, cycles, handles>>
    BY <1>5 DEF mutVars, setVars
<1>7. /\ work' \in Seq(Entry)
      /\ s \in Members(c) /\ Do("Paint", s) \in Entries
      /\ Plain({"SubKids", "Paint"})'
      /\ \A e \in Entries' : e.obj \in Members(c)
      /\ \A i, j \in 1 .. Len(work') : work'[i] = work'[j] => i = j
      /\ \A i, j \in 1 .. Len(work') : i < j /\ work'[i].op = "Paint" => work'[j].op = "Paint"
      /\ Entries' = Entries \ {Do("Paint", s)}
      /\ Doing("SubKids") = {}
    BY <1>4, <1>5, <1>6, BalancePop
<1>8. c \in Seq(Obj) /\ Members(c) \subseteq Obj /\ Members(c) \subseteq Parked(cycles)
    BY <1>3, <1>4, ParkedIn
<1>9. /\ color' \in [Obj -> {"Black", "Orange", "Red"}]
      /\ \A o \in Obj : color'[o] = IF o = s THEN "Orange" ELSE color[o]
    BY <1>5 DEF TypeOK
<1>10. \A o \in Obj : color'[o] = "Black" <=> color[o] = "Black"
    BY <1>7, <1>8, <1>9
<1>11. Doing("SubKids")' = {} /\ Doing("Paint")' = Doing("Paint") \ {s}
    BY <1>7 DEF Doing, Do
<1>12. Coloured({"Red"})' \subseteq Doing("Paint")'
    BY <1>4, <1>9, <1>11 DEF Coloured, Balancing
<1>13. ASSUME NEW m \in Members(c)
       PROVE  Cardinality(From(slots, (Obj \ Members(c)), m)) <= crc[m]
    <2>1. Cardinality(From(slots, (Obj \ Members(c)) \union Doing("SubKids"), m)) <= crc[m]
        BY <1>4 DEF Balancing
    <2>2. (Obj \ Members(c)) \union Doing("SubKids") = Obj \ Members(c)
        BY <1>7
    <2> QED
        BY <2>1, <2>2, Zenon
<1>14. Covers(c)'
    BY <1>5, <1>6, <1>13 DEF Covers, Members
<1>15. Balancing(c)'
    <2>1. (Obj \ Members(c)) \union Doing("SubKids")' = Obj \ Members(c)
        BY <1>11
    <2>2. \A m \in Members(c) : Cardinality(From(slots', (Obj \ Members(c)) \union Doing("SubKids")', m)) <= crc'[m]
        BY <1>5, <1>6, <1>13, <2>1, Zenon
    <2> QED
        BY <1>7, <1>11, <1>12, <2>2 DEF Balancing, Members
<1>16. \A i \in 1 .. n : Covers(cycles[i])'
    <2>1. \A i \in 1 .. n : i # n => Covers(cycles[i])
        BY <1>2 DEF Prepared
    <2>2. \A i \in 1 .. n : i # n => Covers(cycles[i])'
        BY <1>5, <1>6, <2>1 DEF Covers
    <2>3. Covers(cycles[n])'
        BY <1>3, <1>6, <1>14, Zenon
    <2> QED
        BY <2>2, <2>3
<1>17. work' = <<>> => Coloured({"Red"})' = {}
    <2>1. SUFFICES ASSUME work' = <<>> PROVE Coloured({"Red"})' = {}
        OBVIOUS
    <2>2. Entries' = {}
        BY <1>7, <2>1, ToSetEmpty DEF Entries
    <2> QED
        BY <1>12, <2>2 DEF Doing
<1>18. Prepared(n)'
    <2>1. n \in 0 .. Len(cycles) /\ n > 0
        BY <1>4
    <2>2. taken' = SubSeq(cycles', n + 1, Len(cycles'))
        BY <1>2, <1>5, <1>6 DEF Prepared
    <2>3. Balancing(cycles[n])'
        BY <1>3, <1>6, <1>15, Zenon
    <2> QED
        BY <1>6, <1>16, <1>17, <2>1, <2>2, <2>3 DEF Prepared
<1>19. taken' \in Seq(Seq(Obj)) /\ crc' \in [Obj -> Int]
    BY <1>5 DEF TypeOK
<1> QED
    BY <1>5, <1>7, <1>9, <1>10, <1>18, <1>19, SigmaKept

----------------------------------------------------------------------------
(* Between epochs.                                                          *)

\* What is parked stays so when nothing of it changes.
LEMMA RestStays ==
    ASSUME Resting, Condemned' = Condemned,
           UNCHANGED <<allocated, rc, handles, slots, crc, color, epochRc, cycles, freedObjs>>
    PROVE  Resting'
<1>1. Simple(cycles)' /\ Closed(Parked(cycles))' /\ Ordered(cycles, Parked(cycles))'
    BY DEF Resting, Simple, Closed, Ordered
<1>2. \A i \in 1 .. Len(cycles) : Covers(cycles[i])'
    BY DEF Resting, Covers
<1>3. Coloured({"Orange"})' = Coloured({"Orange"})
    BY DEF Coloured
<1> QED
    BY <1>1, <1>2, <1>3 DEF Resting

\* What holds between epochs.
LEMMA AtRestIs ==
    ASSUME CollectorAssumption, IInv, pc \in {"await", "splice"}
    PROVE  /\ TypeOK /\ H!Inv /\ Lists /\ Quiet
           /\ Resting /\ work = <<>> /\ Condemned = {}
           /\ taken = <<>> /\ roots = {} /\ iter = {} /\ freedObjs = {} /\ toSweep = {}
           /\ \A o \in Obj : color[o] \in {"Black", "Orange"}
<1>1. TypeOK /\ H!Inv /\ Lists /\ Quiet /\ AtRest
    BY DEF IInv
<1>2. work = <<>> /\ taken = <<>> /\ roots = {} /\ iter = {} /\ freedObjs = {} /\ toSweep = {}
    BY <1>1 DEF Lists
<1>3. Condemned = {}
    BY <1>2, EmptyIsCalm
<1> QED
    BY <1>1, <1>2, <1>3 DEF AtRest, Coloured

\* The survivors are given back to the heap list.
LEMMA SpliceStep ==
    ASSUME CollectorAssumption, IInv, Splice
    PROVE  IInv' /\ UNCHANGED H!vars
<1>1. pc = "splice"
    BY DEF Splice, At
<1> USE <1>1, AtRestIs
<1>2. /\ fresh' = fresh \union mine /\ mine' = {} /\ toSweep' = {} /\ waiting' = {} /\ pc' = "await"
      /\ UNCHANGED <<mutVars, header, newAllocs, force, iter, taken, setVars, work>>
    BY DEF Splice
<1>3. TypeOK'
    BY <1>2 DEF TypeOK, mutVars, header, setVars, Phase
<1>4. Condemned' = {}
    BY <1>2 DEF Condemned, Entries
<1>5. UNCHANGED <<allocated, rc, handles, slots, crc, color, epochRc, cycles, freedObjs, roots, locked>>
    BY <1>2 DEF mutVars, header, setVars
<1>6. UNCHANGED H!vars
    BY <1>3, <1>4, <1>5, CalmStep
<1>7. H!Inv'
    BY <1>6, HeapStep
<1>8. locked = {}
    BY DEF Quiet
<1>9. Quiet'
    BY <1>5, <1>8 DEF Quiet
<1>10. Lists'
    <2>1. fresh' = allocated
        BY <1>2 DEF Lists
    <2>2. \A o \in Obj \ allocated : color[o] = "Black"
        BY DEF Lists
    <2> QED
        BY <1>2, <1>5, <2>1, <2>2 DEF Lists
<1>11. Resting'
    BY <1>4, <1>5, RestStays
<1> QED
    BY <1>2, <1>3, <1>5, <1>6, <1>7, <1>9, <1>10, <1>11, AwaitIs

\* An epoch begins: programs hold no lock, and every object is to be swept.
LEMMA AwaitEpochStep ==
    ASSUME CollectorAssumption, IInv, AwaitEpoch
    PROVE  IInv' /\ UNCHANGED H!vars
<1>1. pc = "await" /\ ShouldCollect
    BY DEF AwaitEpoch
<1> USE <1>1, AtRestIs
<1>2. /\ mine' = fresh /\ toSweep' = fresh /\ fresh' = {} /\ newAllocs' = 0 /\ force' = FALSE /\ pc' = "sweep"
      /\ UNCHANGED <<mutVars, header, waiting, iter, taken, setVars, work>>
    BY DEF AwaitEpoch
<1>3. TypeOK'
    <2>1. newAllocs' \in 0 .. MinAllocs
        BY <1>2 DEF CollectorAssumption
    <2> QED
        BY <1>2, <2>1 DEF TypeOK, mutVars, header, setVars, Phase
<1>4. Entries' = {} /\ Condemned' = {}
    BY <1>2, EmptyIsCalm DEF Condemned, Entries
<1>5. UNCHANGED <<allocated, rc, handles, slots, crc, color, epochRc, cycles, freedObjs, roots, locked>>
    BY <1>2 DEF mutVars, header, setVars
<1>6. UNCHANGED H!vars
    BY <1>3, <1>4, <1>5, CalmStep
<1>7. H!Inv'
    BY <1>6, HeapStep
<1>8. locked = {}
    BY DEF Quiet
<1>9. Quiet'
    BY <1>5, <1>8 DEF Quiet
<1>10. fresh = allocated /\ \A o \in Obj \ allocated : color[o] = "Black"
    BY DEF Lists
<1>11. Lists'
    BY <1>2, <1>5, <1>10 DEF Lists
<1>12. Counted'
    BY <1>2, <1>5, <1>10 DEF Counted
<1>13. Resting'
    BY <1>4, <1>5, RestStays
<1>14. Sweeping'
    <2>1. Plain({"ScanBlack"})' /\ Doing("ScanBlack")' = {}
        BY <1>4 DEF Plain, Doing
    <2>2. Coloured({"Black", "Orange", "Purple"})' = Obj /\ Coloured({"Purple"})' = {}
        BY <1>5 DEF Coloured
    <2> QED
        BY <1>13, <2>1, <2>2 DEF Sweeping
<1> QED
    BY <1>2, <1>3, <1>6, <1>7, <1>9, <1>11, <1>12, <1>14 DEF IInv

----------------------------------------------------------------------------
(* What recursion computes.                                                 *)

\* One step of the recursion of Kept.
NextKept(q, x, K) == IF x \in K THEN Append(q, x) ELSE q

\* kept solves the recursion of Kept for the first n elements.
Keeping(kept, c, K, n) ==
    kept = [i \in 0 .. n |-> IF i = 0 THEN <<>> ELSE NextKept(kept[i - 1], c[i], K)]

\* The recursion of Kept has a solution.
LEMMA KeepingExists ==
    ASSUME NEW c, NEW K, NEW n \in Nat
    PROVE  \E kept : Keeping(kept, c, K, n)
<1> DEFINE Bad == {m \in Nat : ~\E kept : Keeping(kept, c, K, m)}
<1> SUFFICES ASSUME Bad # {} PROVE FALSE
    OBVIOUS
<1>1. PICK m \in Bad : \A y \in Bad : m <= y
    <2>1. Bad \subseteq Nat
        OBVIOUS
    <2> HIDE DEF Bad
    <2> QED
        BY <2>1, MinOf
<1>2. m # 0
    <2> DEFINE kept == [i \in 0 .. 0 |-> <<>>]
    <2>1. Keeping(kept, c, K, 0)
        BY DEF Keeping
    <2> QED
        BY <2>1
<1>3. m \in Nat /\ m - 1 \in Nat /\ m - 1 \notin Bad
    BY <1>1, <1>2
<1>4. PICK old : Keeping(old, c, K, m - 1)
    BY <1>3
<1> DEFINE new == [i \in 0 .. m |-> IF i = 0 THEN <<>> ELSE NextKept(old[i - 1], c[i], K)]
<1>5. ASSUME NEW i \in 0 .. m, i # 0 PROVE new[i - 1] = old[i - 1]
    <2>1. i - 1 \in 0 .. m - 1 /\ i - 1 \in 0 .. m
        BY <1>3, <1>5
    <2>2. old[i - 1] = IF i - 1 = 0 THEN <<>> ELSE NextKept(old[i - 1 - 1], c[i - 1], K)
        BY <1>4, <2>1, Zenon DEF Keeping
    <2>3. new[i - 1] = IF i - 1 = 0 THEN <<>> ELSE NextKept(old[i - 1 - 1], c[i - 1], K)
        BY <2>1, Zenon
    <2> QED
        BY <2>2, <2>3, Zenon
<1>6. Keeping(new, c, K, m)
    BY <1>5, Zenon DEF Keeping
<1> QED
    BY <1>1, <1>6

\* q lists the first m elements of c that are in K, in their order.
Picks(f, q, n, c, K, m) ==
    /\ \A i \in 1 .. n : f[i] \in 1 .. m /\ q[i] = c[f[i]] /\ q[i] \in K
    /\ \A i, j \in 1 .. n : i < j => f[i] < f[j]
    /\ \A l \in 1 .. m : c[l] \in K => \E i \in 1 .. n : f[i] = l

\* Some such choice of indices gives q.
Selects(q, c, K, m) == \E f : Picks(f, q, Len(q), c, K, m)

\* One step keeps the next element or leaves it out.
LEMMA SelectsNext ==
    ASSUME NEW S, NEW q \in Seq(S), NEW c, NEW K, NEW m \in Nat, c[m + 1] \in S, Selects(q, c, K, m),
           NEW r, r = NextKept(q, c[m + 1], K)
    PROVE  r \in Seq(S) /\ Selects(r, c, K, m + 1)
<1>0. PICK f : Picks(f, q, Len(q), c, K, m)
    BY DEF Selects
<1>1. /\ \A i \in 1 .. Len(q) : f[i] \in 1 .. m /\ q[i] = c[f[i]] /\ q[i] \in K
      /\ \A i, j \in 1 .. Len(q) : i < j => f[i] < f[j]
      /\ \A l \in 1 .. m : c[l] \in K => \E i \in 1 .. Len(q) : f[i] = l
    BY <1>0 DEF Picks
<1>2. Len(q) \in Nat /\ \A l \in 1 .. m + 1 : l \in 1 .. m \/ l = m + 1
    BY LenProperties
<1>3. CASE c[m + 1] \notin K
    <2>1. r = q
        BY <1>3, Zenon DEF NextKept
    <2>2. \A i \in 1 .. Len(q) : f[i] \in 1 .. m + 1 /\ q[i] = c[f[i]] /\ q[i] \in K
        BY <1>1
    <2>3. \A l \in 1 .. m + 1 : c[l] \in K => \E i \in 1 .. Len(q) : f[i] = l
        BY <1>1, <1>2, <1>3
    <2>4. Picks(f, q, Len(q), c, K, m + 1)
        BY <1>1, <2>2, <2>3 DEF Picks
    <2> QED
        BY <2>1, <2>4, Zenon DEF Selects
<1>4. CASE c[m + 1] \in K
    <2>1. r = Append(q, c[m + 1])
        BY <1>4, Zenon DEF NextKept
    <2>2. /\ r \in Seq(S) /\ Len(r) = Len(q) + 1 /\ r[Len(q) + 1] = c[m + 1]
          /\ \A i \in 1 .. Len(q) : r[i] = q[i]
        BY <2>1, AppendProperties
    <2> HIDE <2>1
    <2>3. PICK n \in Nat : n = Len(q)
        BY <1>2
    <2>4. \A i \in 1 .. n + 1 : i \in 1 .. n \/ i = n + 1
        BY <2>3
    <2>5. PICK g : g = [i \in 1 .. n + 1 |-> IF i = n + 1 THEN m + 1 ELSE f[i]]
        OBVIOUS
    <2>6. /\ g[n + 1] = m + 1
          /\ \A i \in 1 .. n : g[i] = f[i] /\ f[i] \in 1 .. m /\ i \in 1 .. n + 1
          /\ n + 1 \in 1 .. n + 1
        BY <1>1, <2>3, <2>5
    <2> HIDE <2>5
    <2>7. ASSUME NEW i \in 1 .. n + 1 PROVE g[i] \in 1 .. m + 1 /\ r[i] = c[g[i]] /\ r[i] \in K
        <3>1. CASE i = n + 1
            BY <1>4, <2>2, <2>3, <2>6, <3>1
        <3>2. CASE i \in 1 .. n
            <4>1. r[i] = c[g[i]] /\ r[i] \in K
                BY <1>1, <2>2, <2>3, <2>6, <3>2
            <4>2. g[i] \in 1 .. m
                BY <2>6, <3>2
            <4> QED
                BY <4>1, <4>2
        <3> QED
            BY <2>4, <3>1, <3>2
    <2>8. ASSUME NEW i \in 1 .. n + 1, NEW j \in 1 .. n + 1, i < j PROVE g[i] < g[j]
        <3>1. i \in 1 .. n
            BY <2>3, <2>8
        <3>2. CASE j = n + 1
            <4>1. g[i] \in 1 .. m /\ g[j] = m + 1
                BY <2>6, <3>1, <3>2
            <4> QED
                BY <4>1
        <3>3. CASE j \in 1 .. n
            BY <1>1, <2>3, <2>6, <2>8, <3>1, <3>3
        <3> QED
            BY <2>4, <3>2, <3>3
    <2>9. ASSUME NEW l \in 1 .. m + 1, c[l] \in K PROVE \E i \in 1 .. n + 1 : g[i] = l
        <3>1. CASE l = m + 1
            BY <2>6, <3>1
        <3>2. CASE l \in 1 .. m
            <4>1. PICK i \in 1 .. n : f[i] = l
                BY <1>1, <2>3, <2>9, <3>2
            <4> QED
                BY <2>6, <4>1
        <3> QED
            BY <1>2, <3>1, <3>2
    <2>10. Len(r) = n + 1
        BY <2>2, <2>3
    <2>11. Selects(r, c, K, m + 1)
        <3>1. PICK len : len = n + 1
            OBVIOUS
        <3>2. Picks(g, r, len, c, K, m + 1)
            BY <2>7, <2>8, <2>9, <3>1, Zenon DEF Picks
        <3>3. len = Len(r)
            BY <2>10, <3>1, Zenon
        <3> QED
            BY <3>2, <3>3, Zenon DEF Selects
    <2> QED
        BY <2>2, <2>11
<1> QED
    BY <1>3, <1>4

\* Kept lists the elements that are in K, in their order.
LEMMA KeptIs ==
    ASSUME NEW S, NEW c \in Seq(S), NEW K, NEW q, q = Kept(c, K)
    PROVE  q \in Seq(S) /\ Selects(q, c, K, Len(c))
<1>1. PICK n \in Nat : n = Len(c)
    BY LenProperties
<1>2. \E kept : Keeping(kept, c, K, n)
    BY KeepingExists
<1>3. PICK kept : kept = CHOOSE w : Keeping(w, c, K, n)
    OBVIOUS
<1>4. Keeping(kept, c, K, n)
    BY <1>2, <1>3, Zenon
<1>5. q = kept[n]
    BY <1>1, <1>3, Zenon DEF Kept, Keeping, NextKept
<1> HIDE <1>3
<1>6. \A i \in 0 .. n : kept[i] = IF i = 0 THEN <<>> ELSE NextKept(kept[i - 1], c[i], K)
    BY <1>4, Zenon DEF Keeping
<1>7. kept[0] = <<>> /\ \A i \in 1 .. n : kept[i] = NextKept(kept[i - 1], c[i], K)
    <2>1. 0 \in 0 .. n /\ \A i \in 1 .. n : i \in 0 .. n /\ i # 0
        OBVIOUS
    <2> QED
        BY <1>6, <2>1, Zenon
<1> DEFINE Good(i) == kept[i] \in Seq(S) /\ Selects(kept[i], c, K, i)
           Bad == {i \in 0 .. n : ~Good(i)}
<1>8. Bad = {}
    <2> SUFFICES ASSUME Bad # {} PROVE FALSE
        OBVIOUS
    <2>1. PICK i \in Bad : \A y \in Bad : i <= y
        <3>1. Bad \subseteq Nat
            OBVIOUS
        <3> HIDE DEF Bad
        <3> QED
            BY <3>1, MinOf
    <2>2. Good(0)
        <3>1. <<>> \in Seq(S) /\ Len(<<>>) = 0
            OBVIOUS
        <3>2. Picks(c, <<>>, Len(<<>>), c, K, 0)
            BY <3>1 DEF Picks
        <3>3. Selects(<<>>, c, K, 0)
            BY <3>2 DEF Selects
        <3> QED
            BY <1>7, <3>1, <3>3, Zenon
    <2>3. i \in 0 .. n /\ ~Good(i)
        OBVIOUS
    <2>4. i # 0
        BY <2>2, <2>3, Zenon
    <2>5. i - 1 \in 0 .. n /\ i - 1 < i /\ i \in 1 .. n /\ i - 1 \in Nat /\ i - 1 + 1 = i
        BY <2>3, <2>4
    <2>6. Good(i - 1)
        BY <2>1, <2>5
    <2>7. c[i] \in S /\ kept[i] = NextKept(kept[i - 1], c[i], K)
        BY <1>1, <1>7, <2>5, ElementOfSeq
    <2> HIDE DEF Bad
    <2>8. PICK m \in Nat : m = i - 1
        BY <2>5
    <2>9. m + 1 = i
        BY <2>5, <2>8
    <2>10. PICK o : o = kept[m]
        OBVIOUS
    <2>11. PICK r : r = kept[i]
        OBVIOUS
    <2>12. o \in Seq(S) /\ Selects(o, c, K, m) /\ c[m + 1] \in S /\ r = NextKept(o, c[m + 1], K)
        BY <2>6, <2>7, <2>8, <2>9, <2>10, <2>11, Zenon
    <2>13. r \in Seq(S) /\ Selects(r, c, K, m + 1)
        BY <2>12, SelectsNext
    <2> QED
        BY <2>3, <2>9, <2>11, <2>13, Zenon
<1>9. n \in 0 .. n
    OBVIOUS
<1>10. Good(n)
    BY <1>8, <1>9
<1> QED
    BY <1>1, <1>5, <1>10, Zenon

\* Its members are those in K, each once if each was there once.
LEMMA KeptMembers ==
    ASSUME NEW S, NEW c \in Seq(S), NEW K, NEW q, q = Kept(c, K)
    PROVE  /\ q \in Seq(S)
           /\ Members(q) = Members(c) \intersect K
           /\ (\A a, b \in 1 .. Len(c) : c[a] = c[b] => a = b)
                => \A a, b \in 1 .. Len(q) : q[a] = q[b] => a = b
<1>1. q \in Seq(S) /\ Selects(q, c, K, Len(c))
    BY KeptIs
<1>2. PICK f : Picks(f, q, Len(q), c, K, Len(c))
    BY <1>1 DEF Selects
<1>3. /\ \A i \in 1 .. Len(q) : f[i] \in 1 .. Len(c) /\ q[i] = c[f[i]] /\ q[i] \in K
      /\ \A i, j \in 1 .. Len(q) : i < j => f[i] < f[j]
      /\ \A l \in 1 .. Len(c) : c[l] \in K => \E i \in 1 .. Len(q) : f[i] = l
    BY <1>2 DEF Picks
<1>4. Members(q) = Members(c) \intersect K
    <2>1. Members(q) \subseteq Members(c) \intersect K
        BY <1>3 DEF Members
    <2>2. ASSUME NEW o \in Members(c), o \in K PROVE o \in Members(q)
        <3>1. PICK l \in 1 .. Len(c) : o = c[l]
            BY DEF Members
        <3>2. PICK i \in 1 .. Len(q) : f[i] = l
            BY <1>3, <2>2, <3>1
        <3>3. q[i] = o
            BY <1>3, <3>1, <3>2
        <3> QED
            BY <3>3 DEF Members
    <2> QED
        BY <2>1, <2>2
<1>5. ASSUME \A a, b \in 1 .. Len(c) : c[a] = c[b] => a = b,
             NEW a \in 1 .. Len(q), NEW b \in 1 .. Len(q), q[a] = q[b]
      PROVE  a = b
    <2>1. f[a] = f[b] /\ f[a] \in 1 .. Len(c)
        BY <1>3, <1>5
    <2>2. Len(c) \in Nat /\ Len(q) \in Nat
        BY <1>1, LenProperties
    <2>3. ~(f[a] < f[b]) /\ ~(f[b] < f[a])
        BY <2>1, <2>2
    <2>4. ~(a < b) /\ ~(b < a)
        BY <1>3, <2>3
    <2> QED
        BY <2>2, <2>4
<1> QED
    BY <1>1, <1>4, <1>5

\* t is what is left of the cycles cs when only K is kept, in their order.
Purges(t, cs, K, f) ==
    /\ \A i \in 1 .. Len(t) : f[i] \in 1 .. Len(cs) /\ Members(t[i]) = Members(cs[f[i]]) \intersect K
    /\ \A i, j \in 1 .. Len(t) : i < j => f[i] < f[j]
    /\ \A l \in 1 .. Len(cs) : \A o \in Members(cs[l]) : o \in K => \E i \in 1 .. Len(t) : f[i] = l

\* What is left of the parked cycles when freed objects are purged.
LEMMA PurgesIs ==
    ASSUME NEW cs \in Seq(Seq(Obj)), Simple(cs), NEW K,
           NEW t, t = Kept([i \in 1 .. Len(cs) |-> Kept(cs[i], K)], Seq(Obj) \ {<<>>})
    PROVE  /\ t \in Seq(Seq(Obj))
           /\ Simple(t)
           /\ \E f : Purges(t, cs, K, f)
<1>1. PICK ds : ds = [i \in 1 .. Len(cs) |-> Kept(cs[i], K)]
    OBVIOUS
<1>2. PICK full : full = Seq(Obj) \ {<<>>}
    OBVIOUS
<1>3. PICK t0 : t0 = Kept(ds, full)
    OBVIOUS
<1>4. t = t0
    BY <1>1, <1>2, <1>3, Zenon
<1>5. PICK n \in Nat : n = Len(cs)
    BY LenProperties
<1>6. \A i \in 1 .. n : ds[i] = Kept(cs[i], K) /\ cs[i] \in Seq(Obj)
    BY <1>1, <1>5, ElementOfSeq
<1>7. ASSUME NEW i \in 1 .. n
      PROVE  /\ ds[i] \in Seq(Obj)
             /\ Members(ds[i]) = Members(cs[i]) \intersect K
             /\ \A a, b \in 1 .. Len(ds[i]) : ds[i][a] = ds[i][b] => a = b
    <2>1. PICK c \in Seq(Obj) : c = cs[i]
        BY <1>6
    <2>2. PICK q : q = ds[i]
        OBVIOUS
    <2>3. q = Kept(c, K)
        BY <1>6, <2>1, <2>2, Zenon
    <2>4. \A a, b \in 1 .. Len(c) : c[a] = c[b] => a = b
        BY <1>5, <2>1 DEF Simple
    <2>5. /\ q \in Seq(Obj)
          /\ Members(q) = Members(c) \intersect K
          /\ \A a, b \in 1 .. Len(q) : q[a] = q[b] => a = b
        BY <2>3, <2>4, KeptMembers
    <2> QED
        BY <2>1, <2>2, <2>5, Zenon
<1>8. ds \in Seq(Seq(Obj)) /\ Len(ds) = n
    <2>1. ds \in [1 .. n -> Seq(Obj)]
        BY <1>1, <1>5, <1>7
    <2> QED
        BY <2>1
<1> HIDE <1>1, <1>2
<1>9. t0 \in Seq(Seq(Obj)) /\ Selects(t0, ds, full, n)
    BY <1>3, <1>8, KeptIs
<1>10. PICK f : Picks(f, t0, Len(t0), ds, full, n)
    BY <1>9 DEF Selects
<1>11. /\ \A i \in 1 .. Len(t0) : f[i] \in 1 .. n /\ t0[i] = ds[f[i]]
       /\ \A i, j \in 1 .. Len(t0) : i < j => f[i] < f[j]
       /\ \A l \in 1 .. n : ds[l] \in full => \E i \in 1 .. Len(t0) : f[i] = l
    BY <1>10 DEF Picks
<1>12. \A i \in 1 .. Len(t0) : f[i] \in 1 .. n /\ Members(t0[i]) = Members(cs[f[i]]) \intersect K
    <2>1. SUFFICES ASSUME NEW i \in 1 .. Len(t0) PROVE f[i] \in 1 .. n /\ Members(t0[i]) = Members(cs[f[i]]) \intersect K
        OBVIOUS
    <2>2. f[i] \in 1 .. n /\ t0[i] = ds[f[i]]
        BY <1>11
    <2>3. Members(ds[f[i]]) = Members(cs[f[i]]) \intersect K
        BY <1>7, <2>2
    <2> QED
        BY <2>2, <2>3, Zenon
<1>13. ASSUME NEW l \in 1 .. n, NEW o \in Members(cs[l]), o \in K PROVE \E i \in 1 .. Len(t0) : f[i] = l
    <2>1. o \in Members(ds[l]) /\ ds[l] \in Seq(Obj)
        BY <1>7, <1>13
    <2>2. ds[l] # <<>>
        <3>1. SUFFICES ASSUME ds[l] = <<>> PROVE FALSE
            OBVIOUS
        <3>2. PICK a \in 1 .. Len(ds[l]) : o = ds[l][a]
            BY <2>1 DEF Members
        <3>3. Len(ds[l]) = 0
            BY <3>1
        <3> QED
            BY <3>2, <3>3
    <2>3. ds[l] \in full
        BY <1>2, <2>1, <2>2
    <2> QED
        BY <1>11, <2>3
<1>14. Purges(t0, cs, K, f)
    BY <1>5, <1>11, <1>12, <1>13, Zenon DEF Purges
<1>15. Simple(t0)
    <2>1. SUFFICES ASSUME NEW i \in 1 .. Len(t0), NEW j \in 1 .. Len(t0), NEW a \in 1 .. Len(t0[i]), NEW b \in 1 .. Len(t0[j]),
                          t0[i][a] = t0[j][b]
                   PROVE  i = j /\ a = b
        BY DEF Simple
    <2>2. t0[i][a] \in Members(t0[i]) /\ t0[i][a] \in Members(t0[j])
        BY <2>1 DEF Members
    <2>3. f[i] \in 1 .. n /\ f[j] \in 1 .. n /\ t0[i][a] \in Members(cs[f[i]]) /\ t0[i][a] \in Members(cs[f[j]])
        BY <1>12, <2>2
    <2>4. f[i] = f[j]
        BY <1>5, <2>3, SimpleApart
    <2>5. Len(t0) \in Nat
        BY <1>9, LenProperties
    <2>6. ~(f[i] < f[j]) /\ ~(f[j] < f[i])
        BY <2>3, <2>4
    <2>7. i = j
        <3>1. ~(i < j) /\ ~(j < i)
            BY <1>11, <2>6
        <3> QED
            BY <2>5, <3>1
    <2>8. PICK d : d = ds[f[i]]
        OBVIOUS
    <2>9. \A x, y \in 1 .. Len(d) : d[x] = d[y] => x = y
        BY <1>7, <2>3, <2>8, Zenon
    <2>10. t0[i] = d
        BY <1>11, <2>8
    <2>11. a \in 1 .. Len(d) /\ b \in 1 .. Len(d) /\ d[a] = d[b]
        BY <2>1, <2>7, <2>10
    <2> QED
        BY <2>7, <2>9, <2>11
<1> QED
    BY <1>4, <1>9, <1>14, <1>15, Zenon

\* Natural numbers with sum zero.
NextSum(x, o) == x + crc[o]

\* sum solves the recursion of SigmaTest for the first n members.
Summing(sum, c, n) == sum = [i \in 0 .. n |-> IF i = 0 THEN 0 ELSE NextSum(sum[i - 1], c[i])]

\* The recursion of SigmaTest has a solution.
LEMMA SummingExists ==
    ASSUME NEW c, NEW n \in Nat
    PROVE  \E sum : Summing(sum, c, n)
<1> DEFINE Bad == {m \in Nat : ~\E sum : Summing(sum, c, m)}
<1> SUFFICES ASSUME Bad # {} PROVE FALSE
    OBVIOUS
<1>1. PICK m \in Bad : \A y \in Bad : m <= y
    <2>1. Bad \subseteq Nat
        OBVIOUS
    <2> HIDE DEF Bad
    <2> QED
        BY <2>1, MinOf
<1>2. m # 0
    <2> DEFINE sum == [i \in 0 .. 0 |-> 0]
    <2>1. Summing(sum, c, 0)
        BY DEF Summing
    <2> QED
        BY <2>1
<1>3. m \in Nat /\ m - 1 \in Nat /\ m - 1 \notin Bad
    BY <1>1, <1>2
<1>4. PICK old : Summing(old, c, m - 1)
    BY <1>3
<1> DEFINE new == [i \in 0 .. m |-> IF i = 0 THEN 0 ELSE NextSum(old[i - 1], c[i])]
<1>5. ASSUME NEW i \in 0 .. m, i # 0 PROVE new[i - 1] = old[i - 1]
    <2>1. i - 1 \in 0 .. m - 1 /\ i - 1 \in 0 .. m
        BY <1>3, <1>5
    <2>2. old[i - 1] = IF i - 1 = 0 THEN 0 ELSE NextSum(old[i - 1 - 1], c[i - 1])
        BY <1>4, <2>1, Zenon DEF Summing
    <2>3. new[i - 1] = IF i - 1 = 0 THEN 0 ELSE NextSum(old[i - 1 - 1], c[i - 1])
        BY <2>1, Zenon
    <2> QED
        BY <2>2, <2>3, Zenon
<1>6. Summing(new, c, m)
    BY <1>5, Zenon DEF Summing
<1> QED
    BY <1>1, <1>6

\* A sum of counts none of which is negative is 0 only if all are.
LEMMA SigmaTestIs ==
    ASSUME NEW c \in Seq(Obj), SigmaTest(c), crc \in [Obj -> Int], \A o \in Members(c) : crc[o] >= 0
    PROVE  \A o \in Members(c) : crc[o] = 0
<1>1. PICK n \in Nat : n = Len(c)
    BY LenProperties
<1>2. \E sum : Summing(sum, c, n)
    BY SummingExists
<1>3. PICK sum : sum = CHOOSE w : Summing(w, c, n)
    OBVIOUS
<1>4. Summing(sum, c, n)
    BY <1>2, <1>3, Zenon
<1>5. sum[n] = 0
    BY <1>1, <1>3, Zenon DEF SigmaTest, Summing, NextSum
<1> HIDE <1>3
<1>6. \A i \in 0 .. n : sum[i] = IF i = 0 THEN 0 ELSE NextSum(sum[i - 1], c[i])
    BY <1>4, Zenon DEF Summing
<1>7. sum[0] = 0 /\ \A i \in 1 .. n : sum[i] = sum[i - 1] + crc[c[i]]
    <2>1. 0 \in 0 .. n /\ \A i \in 1 .. n : i \in 0 .. n /\ i # 0
        OBVIOUS
    <2> QED
        BY <1>6, <2>1, Zenon DEF NextSum
<1>8. \A i \in 1 .. n : crc[c[i]] \in Int /\ crc[c[i]] >= 0
    <2>1. \A i \in 1 .. n : c[i] \in Obj /\ c[i] \in Members(c)
        BY <1>1, ElementOfSeq DEF Members
    <2> QED
        BY <2>1
<1> DEFINE Good(i) == sum[i] \in Nat /\ (sum[i] = 0 => \A j \in 1 .. i : crc[c[j]] = 0)
           Bad == {i \in 0 .. n : ~Good(i)}
<1>9. Bad = {}
    <2> SUFFICES ASSUME Bad # {} PROVE FALSE
        OBVIOUS
    <2>1. PICK i \in Bad : \A y \in Bad : i <= y
        <3>1. Bad \subseteq Nat
            OBVIOUS
        <3> HIDE DEF Bad
        <3> QED
            BY <3>1, MinOf
    <2>2. Good(0)
        BY <1>7
    <2>3. i \in 0 .. n /\ ~Good(i)
        OBVIOUS
    <2>4. i # 0
        BY <2>2, <2>3, Zenon
    <2>5. i - 1 \in 0 .. n /\ i - 1 < i /\ i \in 1 .. n
        BY <2>3, <2>4
    <2>6. Good(i - 1)
        BY <2>1, <2>5
    <2>7. sum[i] = sum[i - 1] + crc[c[i]] /\ crc[c[i]] \in Int /\ crc[c[i]] >= 0
        BY <1>7, <1>8, <2>5
    <2>8. sum[i] \in Nat /\ (sum[i] = 0 => sum[i - 1] = 0 /\ crc[c[i]] = 0)
        BY <2>6, <2>7
    <2>9. \A j \in 1 .. i : j \in 1 .. i - 1 \/ j = i
        BY <2>5
    <2>10. Good(i)
        BY <2>6, <2>8, <2>9
    <2> QED
        BY <2>3, <2>10
<1>10. n \in 0 .. n
    OBVIOUS
<1>11. Good(n)
    BY <1>9, <1>10
<1> QED
    BY <1>1, <1>5, <1>11 DEF Members

----------------------------------------------------------------------------
(* The sweep.                                                               *)

\* What holds while the new objects and the survivors are swept.
LEMMA SweepFrame ==
    ASSUME CollectorAssumption, IInv, pc = "sweep"
    PROVE  /\ TypeOK /\ H!Inv /\ Lists /\ Counted
           /\ locked = {} /\ mine = allocated /\ fresh = {}
           /\ roots \subseteq allocated /\ iter = {} /\ taken = <<>>
           /\ freedObjs \intersect allocated = {}
           /\ Resting
           /\ cycles \in Seq(Seq(Obj)) /\ Parked(cycles) \subseteq Obj
           /\ \A o \in Obj : color[o] \in {"Black", "Orange", "Purple"}
           /\ \A o \in Obj : color[o] # "Black" => o \in allocated
           /\ \A o \in Obj : color[o] = "Purple" => o \in roots
           /\ \A o \in Obj : color[o] = "Orange" <=> o \in Parked(cycles) \intersect allocated
           /\ \/ Plain({"ScanBlack"}) /\ Doing("ScanBlack") \intersect Parked(cycles) = {}
              \/ Releasing
<1>1. TypeOK /\ H!Inv /\ Lists /\ Quiet /\ Sweeping /\ Counted
    BY DEF IInv
<1>2. locked = {}
    BY <1>1 DEF Quiet
<1>3. Resting
    BY <1>1 DEF Sweeping
<1>4. cycles \in Seq(Seq(Obj)) /\ Parked(cycles) \subseteq Obj
    BY <1>1, ParkedIn DEF TypeOK
<1>5. \A o \in Obj : color[o] \in {"Black", "Orange", "Purple"}
    BY <1>1 DEF Sweeping, Coloured
<1>6. \A o \in Obj : color[o] # "Black" => o \in allocated
    BY <1>1 DEF Lists
<1>7. \A o \in Obj : color[o] = "Purple" => o \in roots
    BY <1>1 DEF Sweeping, Coloured
<1>8. \A o \in Obj : color[o] = "Orange" <=> o \in Parked(cycles) \intersect allocated
    BY <1>3, <1>6 DEF Resting, Coloured
<1>9. mine = allocated /\ fresh = {} /\ roots \subseteq allocated /\ iter = {} /\ taken = <<>> /\ freedObjs \intersect allocated = {}
    BY <1>1 DEF Lists
<1> QED
    BY <1>1, <1>2, <1>3, <1>4, <1>5, <1>6, <1>7, <1>8, <1>9 DEF Sweeping

\* An empty stack releases nothing.
LEMMA EmptyReleases ==
    ASSUME work = <<>>, Coloured({"Red"}) = {}
    PROVE  Releasing
<1>1. Entries = {} /\ Condemned = {}
    BY EmptyIsCalm
<1>2. Len(work) = 0
    OBVIOUS
<1>3. Nested(work)
    BY <1>2 DEF Nested
<1>4. RedLast(work, color)
    BY <1>2 DEF RedLast
<1> QED
    BY <1>1, <1>3, <1>4 DEF Releasing

\* Parked cycles are purged of the objects the sweep has freed and taken to be freed: what was
\* parked is what they lose when the first of them is freed.
LEMMA EndSweepStep ==
    ASSUME CollectorAssumption, IInv, EndSweep
    PROVE  IInv' /\ UNCHANGED H!vars
<1>1. pc = "sweep" /\ work = <<>> /\ toSweep = {}
    BY DEF EndSweep, At
<1> USE <1>1, SweepFrame
<1>2. /\ cycles' = <<>> /\ pc' = "free"
      /\ UNCHANGED <<mutVars, header, heapVars, iter, listVars, roots, freedObjs, work>>
    BY DEF EndSweep
<1>3. PICK K : K = Obj \ freedObjs
    OBVIOUS
<1>4. PICK t : t = Kept([i \in 1 .. Len(cycles) |-> Kept(cycles[i], K)], Seq(Obj) \ {<<>>})
    OBVIOUS
<1>5. taken' = t
    BY <1>3, <1>4, Zenon DEF EndSweep, Purged
<1>6. t \in Seq(Seq(Obj)) /\ Simple(t) /\ \E f : Purges(t, cycles, K, f)
    BY <1>4, PurgesIs DEF Resting
<1> HIDE <1>4
<1>7. PICK f : Purges(t, cycles, K, f)
    BY <1>6
<1>8. /\ \A i \in 1 .. Len(t) : f[i] \in 1 .. Len(cycles) /\ Members(t[i]) = Members(cycles[f[i]]) \intersect K
      /\ \A i, j \in 1 .. Len(t) : i < j => f[i] < f[j]
      /\ \A l \in 1 .. Len(cycles) : \A o \in Members(cycles[l]) : o \in K => \E i \in 1 .. Len(t) : f[i] = l
    BY <1>7 DEF Purges
<1>9. UNCHANGED <<allocated, rc, handles, slots, crc, color, epochRc, locked, work, roots, freedObjs>>
    BY <1>2 DEF mutVars, header
<1>10. TypeOK'
    BY <1>2, <1>5, <1>6 DEF TypeOK, mutVars, header, heapVars, listVars, Phase
<1>11. Entries = {} /\ Entries' = {} /\ Condemned = {} /\ Condemned' = {}
    BY <1>2, EmptyIsCalm DEF Condemned, Entries
<1>12. UNCHANGED H!vars
    BY <1>9, <1>10, <1>11, CalmStep
<1>13. H!Inv'
    BY <1>12, HeapStep
<1>14. Quiet'
    BY <1>9 DEF Quiet
<1>15. Lists'
    BY <1>2, <1>9 DEF Lists, heapVars, listVars
<1>16. Counted'
    BY <1>2, <1>9, <1>11 DEF Counted, listVars
<1>17. \A p \in Obj, k \in Slot : slots[p][k] # Null => p \in allocated /\ slots[p][k] \in allocated
    BY <1>11, CalmHeap DEF Empty
<1>18. \A o \in Parked(cycles) : o \in K <=> o \in allocated
    BY <1>3 DEF Resting
<1>19. ASSUME NEW o PROVE o \in Parked(t) <=> o \in Parked(cycles) /\ o \in allocated
    <2>1. ASSUME o \in Parked(t) PROVE o \in Parked(cycles) /\ o \in allocated
        <3>1. PICK i \in 1 .. Len(t) : o \in Members(t[i])
            BY <2>1 DEF Parked
        <3>2. f[i] \in 1 .. Len(cycles) /\ o \in Members(cycles[f[i]]) /\ o \in K
            BY <1>8, <3>1
        <3> QED
            BY <1>18, <3>2 DEF Parked
    <2>2. ASSUME o \in Parked(cycles), o \in allocated PROVE o \in Parked(t)
        <3>1. PICK l \in 1 .. Len(cycles) : o \in Members(cycles[l])
            BY <2>2 DEF Parked
        <3>2. o \in K
            BY <1>18, <2>2
        <3>3. PICK i \in 1 .. Len(t) : f[i] = l
            BY <1>8, <3>1, <3>2
        <3>4. o \in Members(t[i])
            BY <1>8, <3>1, <3>2, <3>3
        <3> QED
            BY <3>4 DEF Parked
    <2> QED
        BY <2>1, <2>2
<1>20. Coloured({"Orange"})' = Parked(taken')
    <2>1. \A o : o \in Parked(t) <=> o \in Obj /\ color[o] = "Orange"
        BY <1>19
    <2> QED
        BY <1>5, <1>9, <2>1 DEF Coloured
<1>21. Coloured({"Black", "Orange", "Purple", "Red"})' = Obj /\ Coloured({"Purple"})' \subseteq roots' /\ Coloured({"Red"})' = {}
    BY <1>9 DEF Coloured
<1>22. ASSUME NEW i \in 1 .. Len(t) PROVE Covers(t[i])'
    <2>1. SUFFICES ASSUME NEW m \in Members(t[i]) PROVE Cardinality(From(slots, Obj \ Members(t[i]), m)) <= crc[m]
        BY <1>9 DEF Covers
    <2>2. f[i] \in 1 .. Len(cycles) /\ Members(t[i]) = Members(cycles[f[i]]) \intersect K
        BY <1>8
    <2>3. Cardinality(From(slots, Obj \ Members(cycles[f[i]]), m)) <= crc[m] /\ m \in Obj
        <3>1. Covers(cycles[f[i]])
            BY <2>2 DEF Resting
        <3>2. m \in Parked(cycles)
            BY <2>2 DEF Parked
        <3> QED
            BY <2>2, <3>1, <3>2 DEF Covers
    <2>4. From(slots, Obj \ Members(t[i]), m) \subseteq From(slots, Obj \ Members(cycles[f[i]]), m)
        <3>1. SUFFICES ASSUME NEW p \in Obj, NEW k \in Slot, slots[p][k] = m, p \notin Members(t[i])
                       PROVE  p \notin Members(cycles[f[i]])
            BY DEF From
        <3>2. p \in allocated
            BY <1>17, <2>3, <3>1 DEF CollectorAssumption
        <3>3. p \in K
            BY <1>3, <3>2
        <3> QED
            BY <2>2, <3>1, <3>3
    <2>5. PICK a \in Nat : a = Cardinality(From(slots, Obj \ Members(t[i]), m))
        BY FromIs
    <2>6. PICK b \in Nat : b = Cardinality(From(slots, Obj \ Members(cycles[f[i]]), m))
        BY FromIs
    <2>7. a <= b /\ b <= crc[m] /\ crc[m] \in Int
        <3>1. a <= b
            BY <2>4, <2>5, <2>6, FromLess
        <3> QED
            BY <2>3, <2>6, <3>1 DEF TypeOK
    <2>8. a <= crc[m]
        BY <2>7
    <2> QED
        BY <2>5, <2>8
<1>23. PICK W : W = Parked(cycles)
    OBVIOUS
<1>24. Closed(W)'
    BY <1>9, <1>23 DEF Closed, Resting
<1>25. Ordered(taken, W)'
    <2>1. SUFFICES ASSUME NEW i \in 1 .. Len(t), NEW p \in Members(t[i]), NEW k \in Slot, slots[p][k] \in W
                   PROVE  \E j \in 1 .. i : slots[p][k] \in Members(t[j])
        BY <1>5, <1>9 DEF Ordered
    <2>2. PICK o : o = slots[p][k]
        OBVIOUS
    <2>3. f[i] \in 1 .. Len(cycles) /\ p \in Members(cycles[f[i]])
        BY <1>8
    <2>4. Ordered(cycles, W)
        BY <1>23 DEF Resting
    <2>5. PICK l \in 1 .. f[i] : o \in Members(cycles[l])
        BY <2>1, <2>2, <2>3, <2>4 DEF Ordered
    <2>6. p \in Obj /\ o \in W /\ o \in Obj
        <3>1. p \in Parked(cycles)
            BY <2>3 DEF Parked
        <3> QED
            BY <1>23, <2>1, <2>2, <3>1
    <2>7. o \in allocated
        BY <1>17, <2>2, <2>6 DEF CollectorAssumption
    <2>8. o \in K
        BY <1>18, <1>23, <2>6, <2>7
    <2>9. l \in 1 .. Len(cycles)
        BY <2>3
    <2>10. PICK j \in 1 .. Len(t) : f[j] = l
        BY <1>8, <2>5, <2>8, <2>9
    <2>11. o \in Members(t[j])
        BY <1>8, <2>5, <2>8, <2>10
    <2>12. Len(t) \in Nat
        BY <1>6, LenProperties
    <2>13. ~(f[i] < f[j])
        BY <2>3, <2>5, <2>10
    <2>14. ~(i < j)
        BY <1>8, <2>13
    <2>15. j \in 1 .. i
        BY <2>12, <2>14
    <2> QED
        BY <2>2, <2>11, <2>15
<1>26. Lost(W)'
    <2>1. Coloured({"Orange", "Red"})' \subseteq W
        BY <1>9, <1>23 DEF Coloured
    <2> QED
        BY <1>11, <1>21, <1>24, <1>25, <2>1 DEF Lost
<1>27. Releasing'
    <2>1. work' = <<>> /\ Coloured({"Red"})' = {}
        BY <1>9, <1>21
    <2>2. Len(work') = 0
        BY <2>1
    <2>3. Nested(work')
        BY <2>2 DEF Nested
    <2>4. RedLast(work', color')
        BY <2>2 DEF RedLast
    <2> QED
        BY <1>11, <2>1, <2>3, <2>4 DEF Releasing
<1>28. Freeing'
    <2>1. W \in SUBSET Obj
        BY <1>23
    <2>2. Simple(taken)'
        BY <1>5, <1>6 DEF Simple
    <2>3. (\A i \in 1 .. Len(taken) : Covers(taken[i]))'
        BY <1>5, <1>22 DEF Covers
    <2>4. \E X \in SUBSET Obj : Lost(X)'
        BY <1>26, <2>1
    <2> QED
        BY <1>20, <1>21, <1>27, <2>2, <2>3, <2>4 DEF Freeing
<1> QED
    BY <1>2, <1>10, <1>12, <1>13, <1>14, <1>15, <1>16, <1>28 DEF IInv

\* What there is to show after a step of the sweep.
LEMMA SweepIs ==
    ASSUME TypeOK', H!Inv', Quiet', Lists', Counted', pc' = "sweep", Sweeping'
    PROVE  IInv'
BY DEF IInv

\* A step of the sweep that releases nothing.
LEMMA CalmSweep ==
    ASSUME CollectorAssumption, IInv, pc = "sweep", Condemned = {},
           UNCHANGED <<mutVars, crc, heapVars, loopVars, mine, cycles, freedObjs>>,
           toSweep' \subseteq toSweep, roots \subseteq roots', roots' \subseteq allocated,
           work' \in Seq(Entry), buffered' \in [Obj -> BOOLEAN], epochRc' \in [Obj -> Int],
           color' \in [Obj -> {"Black", "Orange", "Purple"}],
           \A o \in Obj : color'[o] = "Orange" <=> color[o] = "Orange",
           \A o \in Obj : color'[o] = "Purple" => o \in roots',
           \A o \in allocated : epochRc'[o] = epochRc[o] \/ epochRc'[o] = rc[o],
           \A o \in toSweep : o \in toSweep' \/ rc[o] <= epochRc'[o],
           Plain({"ScanBlack"})', Doing("ScanBlack")' \intersect Parked(cycles) = {}
    PROVE  IInv' /\ UNCHANGED H!vars
<1> USE SweepFrame
<1>1. UNCHANGED <<allocated, rc, handles, slots, locked, pc, iter, taken, fresh, newAllocs, force, waiting>>
    BY DEF mutVars, heapVars, loopVars
<1>2. TypeOK'
    <2>1. toSweep' \subseteq mine'
        BY DEF TypeOK
    <2>2. roots' \subseteq Obj
        BY DEF TypeOK
    <2>3. color' \in [Obj -> Color]
        BY DEF Color
    <2> QED
        BY <1>1, <2>1, <2>2, <2>3 DEF TypeOK
<1>3. Condemned' = {}
    BY DEF Plain, Condemned, Do
<1>4. UNCHANGED H!vars
    BY <1>1, <1>2, <1>3, CalmStep
<1>5. H!Inv'
    BY <1>4, HeapStep
<1>6. Quiet'
    BY <1>1 DEF Quiet
<1>7. \A o \in Obj : color'[o] # "Black" => o \in allocated
    <2>1. \A o \in Obj : color'[o] \in {"Black", "Orange", "Purple"}
        OBVIOUS
    <2> QED
        BY <2>1
<1>8. Lists'
    <2>1. \A o \in Obj \ allocated' : color'[o] = "Black"
        BY <1>1, <1>7
    <2> QED
        BY <1>1, <2>1 DEF Lists
<1>9. \A o \in allocated : rc[o] \in Int /\ epochRc[o] \in Int /\ epochRc'[o] \in Int
    BY DEF TypeOK
<1>10. Counted'
    <2>1. SUFFICES ASSUME NEW o \in allocated, o \notin toSweep' PROVE rc[o] <= epochRc'[o]
        BY <1>1 DEF Counted
    <2>2. CASE o \in toSweep
        BY <2>1, <2>2
    <2>3. CASE o \notin toSweep
        <3>1. rc[o] <= epochRc[o]
            BY <2>3 DEF Counted
        <3>2. epochRc'[o] = epochRc[o] \/ epochRc'[o] = rc[o]
            OBVIOUS
        <3> QED
            BY ONLY <1>9, <3>1, <3>2
    <2> QED
        BY <2>2, <2>3
<1>11. Resting'
    <2>1. \A o \in Parked(cycles) : handles[o] = 0
        BY DEF Resting, Closed
    <2>2. Parked(cycles) \subseteq allocated' \union freedObjs'
        BY <1>1 DEF Resting
    <2>3. ASSUME NEW o \in Parked(cycles) \intersect allocated'
          PROVE  color'[o] = "Orange" /\ rc'[o] <= epochRc'[o]
        <3>1. o \in allocated /\ color[o] = "Orange" /\ rc[o] <= epochRc[o]
            BY <1>1, <2>3 DEF Resting
        <3>2. rc[o] <= epochRc'[o]
            <4>1. epochRc'[o] = epochRc[o] \/ epochRc'[o] = rc[o]
                BY <3>1
            <4>2. rc[o] \in Int
                BY <1>9, <3>1
            <4> QED
                BY ONLY <3>1, <4>1, <4>2
        <3>3. color'[o] = "Orange"
            BY <3>1, <2>3
        <3> QED
            BY <1>1, <3>2, <3>3
    <2>4. \A o \in Obj : color'[o] = "Orange" => o \in Parked(cycles)
        OBVIOUS
    <2>5. cycles' = cycles /\ crc' = crc /\ TypeOK /\ Resting
        OBVIOUS
    <2> QED
        BY <1>1, <1>2, <2>1, <2>2, <2>3, <2>4, <2>5, RestKept
<1>12. Sweeping'
    <2>1. Coloured({"Black", "Orange", "Purple"})' = Obj /\ Coloured({"Purple"})' \subseteq roots'
        BY DEF Coloured
    <2> QED
        BY <1>11, <2>1 DEF Sweeping
<1> QED
    BY <1>1, <1>2, <1>4, <1>5, <1>6, <1>8, <1>10, <1>12, SweepIs

\* scan_black of an object whose count has grown never meets a parked object: those are closed.
LEMMA ScanBlackSweepStep ==
    ASSUME CollectorAssumption, IInv, NEW s \in Obj, ScanBlack(s), pc = "sweep"
    PROVE  IInv' /\ UNCHANGED H!vars
<1> USE SweepFrame
<1>1. Popping("ScanBlack", s) /\ work # <<>>
    BY DEF ScanBlack, Popping
<1>2. PICK ops : ops = {"ScanBlack"}
    OBVIOUS
<1>3. Plain(ops) /\ Doing("ScanBlack") \intersect Parked(cycles) = {}
    <2>1. ASSUME Releasing PROVE FALSE
        <3>1. Head(work) \in Entries
            BY <1>1, HeadIn DEF Entries, TypeOK
        <3> QED
            BY <1>1, <2>1, <3>1, DueOp DEF Popping
    <2> QED
        BY <1>2, <2>1, Zenon
<1>4. Condemned = {}
    BY <1>2, <1>3, PlainIsCalm
<1>5. UNCHANGED <<mutVars, epochRc, crc, buffered, heapVars, loopVars, listVars, setVars>>
    BY DEF ScanBlack
<1>6. PICK es : es = IF color[s] # "Black" THEN KidEntries("ScanBlack", s) ELSE <<>>
    OBVIOUS
<1>7. Push(es)
    BY <1>6, Zenon DEF ScanBlack
<1>8. color' = [color EXCEPT ![s] = "Black"]
    BY DEF ScanBlack
<1>9. \A p \in Obj, k \in Slot : slots[p][k] # Null => slots[p][k] \in allocated
    BY <1>4, CalmHeap
<1>10. PICK op \in ops : op = "ScanBlack"
    BY <1>2
<1>11. es \in Seq(Entry) /\ \A e \in ToSet(es) : \E oq \in ops, o \in allocated : e = Do(oq, o) /\ o \in Kids(slots, s)
    <2>1. CASE color[s] # "Black"
        <3>1. "ScanBlack" \in Op
            BY DEF Op
        <3>2. KidList(KidEntries("ScanBlack", s), "ScanBlack", s)
            BY <3>1, KidEntriesIs
        <3>3. KidList(es, op, s)
            BY <1>6, <1>10, <2>1, <3>2, Zenon
        <3>4. es \in Seq(Entry) /\ ToSet(es) = {es[i] : i \in 1 .. Len(es)}
            BY <3>3, ToSetIs DEF KidList
        <3>5. ASSUME NEW i \in 1 .. Len(es) PROVE \E oq \in ops, o \in allocated : es[i] = Do(oq, o) /\ o \in Kids(slots, s)
            <4>1. PICK c \in Kids(slots, s) : es[i] = Do(op, c)
                BY <3>3 DEF KidList
            <4>2. c \in allocated
                BY <1>9 DEF Kids
            <4> QED
                BY <4>1, <4>2
        <3> QED
            BY <3>4, <3>5
    <2>2. CASE color[s] = "Black"
        BY <1>6, <2>2, NoEntries
    <2> QED
        BY <2>1, <2>2
<1> HIDE <1>6
<1>12. \A e \in ToSet(es) : \E oq \in ops, o \in allocated : e = Do(oq, o)
    BY <1>11
<1>13. allocated' = allocated /\ TypeOK /\ "Free" \notin ops
    BY <1>2, <1>5 DEF mutVars
<1>14. /\ work' \in Seq(Entry) /\ IsPush(work', es, work) /\ Plain(ops)' /\ s \in allocated
       /\ Do(op, s) \in Entries
    BY <1>1, <1>3, <1>7, <1>10, <1>11, <1>12, <1>13, PlainPop
<1>15. Entries' \subseteq ToSet(es) \union Entries
    <2>1. work \in Seq(Entry)
        BY DEF TypeOK
    <2> QED
        BY <1>1, <1>11, <1>14, <2>1, PushSet DEF Entries
<1>16. s \notin Parked(cycles)
    BY <1>3, <1>10, <1>14 DEF Doing
<1>17. Kids(slots, s) \intersect Parked(cycles) = {}
    <2>1. Closed(Parked(cycles))
        BY DEF Resting
    <2> QED
        BY <1>16, <2>1 DEF Closed, Kids
<1>18. Doing("ScanBlack")' \intersect Parked(cycles) = {}
    <2>1. SUFFICES ASSUME NEW o \in Parked(cycles), Do("ScanBlack", o) \in Entries' PROVE FALSE
        BY DEF Doing
    <2>2. CASE Do("ScanBlack", o) \in Entries
        BY <1>3, <2>2 DEF Doing
    <2>3. CASE Do("ScanBlack", o) \in ToSet(es)
        <3>1. PICK oq \in ops, g \in allocated : Do("ScanBlack", o) = Do(oq, g) /\ g \in Kids(slots, s)
            BY <1>11, <2>3
        <3>2. Do("ScanBlack", o).obj = o /\ Do(oq, g).obj = g
            BY DEF Do
        <3>3. o = g
            BY <3>1, <3>2, Zenon
        <3> QED
            BY <1>17, <3>1, <3>3
    <2> QED
        BY <1>15, <2>1, <2>2, <2>3
<1>19. /\ color' \in [Obj -> {"Black", "Orange", "Purple"}]
       /\ \A o \in Obj : color'[o] = IF o = s THEN "Black" ELSE color[o]
    BY <1>8 DEF TypeOK
<1>20. \A o \in Obj : color'[o] = "Orange" <=> color[o] = "Orange"
    BY <1>16, <1>19
<1>21. roots' = roots /\ \A o \in Obj : color'[o] = "Purple" => o \in roots'
    BY <1>5, <1>19 DEF setVars
<1>22. toSweep' = toSweep /\ \A o \in toSweep : o \in toSweep'
    BY <1>5 DEF listVars
<1>23. Plain({"ScanBlack"})'
    BY <1>2, <1>14, Zenon
<1>24. epochRc' = epochRc /\ epochRc' \in [Obj -> Int] /\ buffered' \in [Obj -> BOOLEAN]
    BY <1>5 DEF TypeOK
<1>25. UNCHANGED <<mutVars, crc, heapVars, loopVars, mine, cycles, freedObjs>>
    BY <1>5 DEF listVars, setVars
<1> QED
    BY <1>4, <1>14, <1>18, <1>19, <1>20, <1>21, <1>22, <1>23, <1>24, <1>25, CalmSweep

----------------------------------------------------------------------------
(* The stack of a release.                                                  *)

\* New entries above the others keep the order of a release if what they are about is freed
\* below them.
LEMMA NestedPush ==
    ASSUME NEW es \in Seq(Entry), NEW w \in Seq(Entry), w # <<>>, NEW x \in Seq(Entry), IsPush(x, es, w),
           NEW col, Nested(w), RedLast(w, col), Distinct(es),
           \A i \in 1 .. Len(es), j \in 2 .. Len(w) : es[i] # w[j],
           \A i \in 1 .. Len(es) : es[i].op # "Free" =>
              \/ \E j \in i + 1 .. Len(es) : es[j] = Do("Free", es[i].obj)
              \/ \E j \in 2 .. Len(w) : w[j] = Do("Free", es[i].obj),
           \A i \in 1 .. Len(es) : es[i].op = "Free" => col[es[i].obj] # "Red"
    PROVE  Nested(x) /\ RedLast(x, col)
<1>1. Len(es) \in Nat /\ Len(w) \in Nat /\ Len(x) \in Nat /\ Len(x) = Len(es) + Len(w) - 1
    BY LenProperties DEF IsPush
<1>2. /\ \A i \in 1 .. Len(es) : i \in 1 .. Len(x) /\ x[i] = es[i]
      /\ \A i \in 2 .. Len(w) : Len(es) + i - 1 \in 1 .. Len(x) /\ x[Len(es) + i - 1] = w[i]
    BY DEF IsPush
<1>3. ASSUME NEW i \in 1 .. Len(x)
      PROVE  \/ i \in 1 .. Len(es) /\ x[i] = es[i]
             \/ \E a \in 2 .. Len(w) : i = Len(es) + a - 1 /\ x[i] = w[a] /\ a \in 1 .. Len(w)
    <2>1. \/ i \in 1 .. Len(es) /\ x[i] = es[i]
          \/ \E a \in 2 .. Len(w) : i = Len(es) + a - 1 /\ x[i] = w[a]
        BY PushAt
    <2>2. \A a \in 2 .. Len(w) : a \in 1 .. Len(w)
        BY <1>1
    <2> QED
        BY <2>1, <2>2
<1>4. \A i, j \in 1 .. Len(w) : w[i] = w[j] => i = j
    BY DEF Nested
<1>5. ASSUME NEW i \in 1 .. Len(x), NEW j \in 1 .. Len(x), x[i] = x[j] PROVE i = j
    <2>1. CASE i \in 1 .. Len(es) /\ x[i] = es[i]
        <3>1. \A a \in 2 .. Len(w) : x[j] # w[a]
            BY <1>5, <2>1
        <3>2. j \in 1 .. Len(es) /\ x[j] = es[j]
            BY <1>3, <3>1
        <3> QED
            BY <1>5, <2>1, <3>2 DEF Distinct
    <2>2. CASE \E a \in 2 .. Len(w) : i = Len(es) + a - 1 /\ x[i] = w[a] /\ a \in 1 .. Len(w)
        <3>1. PICK a \in 2 .. Len(w) : i = Len(es) + a - 1 /\ x[i] = w[a] /\ a \in 1 .. Len(w)
            BY <2>2
        <3>2. \A b \in 1 .. Len(es) : x[j] # es[b]
            BY <1>5, <3>1
        <3>3. PICK b \in 2 .. Len(w) : j = Len(es) + b - 1 /\ x[j] = w[b] /\ b \in 1 .. Len(w)
            BY <1>3, <3>2
        <3>4. a = b
            BY <1>4, <1>5, <3>1, <3>3
        <3> QED
            BY <3>1, <3>3, <3>4
    <2> QED
        BY <1>3, <2>1, <2>2
<1>6. ASSUME NEW o, NEW a \in 2 .. Len(w), w[a] = Do("Free", o), NEW i \in Int, i < Len(es) + a - 1
      PROVE  \E j \in i + 1 .. Len(x) : x[j] = Do("Free", o)
    <2>1. Len(es) + a - 1 \in 1 .. Len(x) /\ x[Len(es) + a - 1] = w[a]
        BY <1>2
    <2>2. Len(es) + a - 1 \in i + 1 .. Len(x)
        BY <1>1, <1>6, <2>1
    <2> QED
        BY <1>6, <2>1, <2>2
<1>7. ASSUME NEW i \in 1 .. Len(x), x[i].op # "Free"
      PROVE  \E j \in i + 1 .. Len(x) : x[j] = Do("Free", x[i].obj)
    <2>1. CASE i \in 1 .. Len(es) /\ x[i] = es[i]
        <3>1. CASE \E j \in i + 1 .. Len(es) : es[j] = Do("Free", es[i].obj)
            <4>1. PICK j \in i + 1 .. Len(es) : es[j] = Do("Free", es[i].obj)
                BY <3>1
            <4>2. j \in 1 .. Len(es) /\ j \in i + 1 .. Len(x)
                BY <1>1, <1>2, <2>1
            <4>3. x[j] = es[j]
                BY <1>2, <4>2
            <4> QED
                BY <2>1, <4>1, <4>2, <4>3
        <3>2. CASE \E j \in 2 .. Len(w) : w[j] = Do("Free", es[i].obj)
            <4>1. PICK j \in 2 .. Len(w) : w[j] = Do("Free", es[i].obj)
                BY <3>2
            <4>2. i \in Int /\ i < Len(es) + j - 1
                BY <1>1, <2>1
            <4>3. \E l \in i + 1 .. Len(x) : x[l] = Do("Free", es[i].obj)
                BY <1>6, <4>1, <4>2
            <4> QED
                BY <2>1, <4>3
        <3> QED
            BY <1>7, <2>1, <3>1, <3>2
    <2>2. CASE \E a \in 2 .. Len(w) : i = Len(es) + a - 1 /\ x[i] = w[a] /\ a \in 1 .. Len(w)
        <3>1. PICK a \in 2 .. Len(w) : i = Len(es) + a - 1 /\ x[i] = w[a] /\ a \in 1 .. Len(w)
            BY <2>2
        <3>2. PICK b \in a + 1 .. Len(w) : w[b] = Do("Free", w[a].obj)
            BY <1>7, <3>1 DEF Nested
        <3>3. b \in 2 .. Len(w) /\ i \in Int /\ i < Len(es) + b - 1
            BY <1>1, <3>1
        <3>4. \E l \in i + 1 .. Len(x) : x[l] = Do("Free", w[a].obj)
            BY <1>6, <3>2, <3>3
        <3> QED
            BY <3>1, <3>4
    <2> QED
        BY <1>3, <2>1, <2>2
<1>8. ASSUME NEW i \in 1 .. Len(x), NEW j \in 1 .. Len(x), i < j,
             x[i].op = "Free", x[j].op \in {"CycleKids", "CyclicDecrement"}
      PROVE  col[x[i].obj] # "Red"
    <2>1. CASE i \in 1 .. Len(es) /\ x[i] = es[i]
        BY <1>8, <2>1
    <2>2. CASE \E a \in 2 .. Len(w) : i = Len(es) + a - 1 /\ x[i] = w[a] /\ a \in 1 .. Len(w)
        <3>1. PICK a \in 2 .. Len(w) : i = Len(es) + a - 1 /\ x[i] = w[a] /\ a \in 1 .. Len(w)
            BY <2>2
        <3>2. j \notin 1 .. Len(es)
            BY <1>1, <1>8, <3>1
        <3>3. PICK b \in 2 .. Len(w) : j = Len(es) + b - 1 /\ x[j] = w[b] /\ b \in 1 .. Len(w)
            BY <1>3, <3>2
        <3>4. a < b
            BY <1>1, <1>8, <3>1, <3>3
        <3>5. w[a].op = "Free" /\ w[b].op \in {"CycleKids", "CyclicDecrement"}
            BY <1>8, <3>1, <3>3
        <3>6. col[w[a].obj] # "Red"
            BY <3>1, <3>3, <3>4, <3>5 DEF RedLast
        <3> QED
            BY <3>1, <3>6
    <2> QED
        BY <1>3, <2>1, <2>2
<1>9. Nested(x)
    BY <1>5, <1>7 DEF Nested
<1>10. RedLast(x, col)
    BY <1>8 DEF RedLast
<1> QED
    BY <1>9, <1>10

\* The top of the stack of a release.
LEMMA NestedTop ==
    ASSUME NEW w \in Seq(Entry), w # <<>>, NEW col, Nested(w), RedLast(w, col)
    PROVE  /\ \A i, j \in 1 .. Len(w) : w[i] = w[j] => i = j
           /\ Head(w).op # "Free" => \E j \in 2 .. Len(w) : w[j] = Do("Free", Head(w).obj)
           /\ Head(w).op = "Free" => \A e \in ToSet(w) : e.op # "Free" => e.obj # Head(w).obj \/ Head(w) # Do("Free", Head(w).obj)
           /\ Head(w).op = "Free" /\ col[Head(w).obj] = "Red" =>
                 \A e \in ToSet(w) : e.op \notin {"CycleKids", "CyclicDecrement"}
<1>1. Head(w) = w[1] /\ 1 \in 1 .. Len(w) /\ Len(w) \in Nat
    BY HeadIn, LenProperties
<1>2. \A i, j \in 1 .. Len(w) : w[i] = w[j] => i = j
    BY DEF Nested
<1>3. ASSUME Head(w).op # "Free" PROVE \E j \in 2 .. Len(w) : w[j] = Do("Free", Head(w).obj)
    <2>1. \E j \in 1 + 1 .. Len(w) : w[j] = Do("Free", w[1].obj)
        BY <1>1, <1>3 DEF Nested
    <2> QED
        BY <1>1, <2>1
<1>4. ToSet(w) = {w[i] : i \in 1 .. Len(w)}
    BY ToSetIs
<1>5. ASSUME Head(w).op = "Free", NEW e \in ToSet(w), e.op # "Free", e.obj = Head(w).obj, Head(w) = Do("Free", Head(w).obj)
      PROVE  FALSE
    <2>1. PICK i \in 1 .. Len(w) : e = w[i]
        BY <1>4
    <2>2. PICK j \in i + 1 .. Len(w) : w[j] = Do("Free", w[i].obj)
        BY <1>5, <2>1 DEF Nested
    <2>3. w[j] = w[1]
        BY <1>1, <1>5, <2>1, <2>2, Zenon
    <2>4. j \in 1 .. Len(w) /\ j # 1
        BY <1>1
    <2> QED
        BY <1>1, <1>2, <2>3, <2>4
<1>6. ASSUME Head(w).op = "Free", col[Head(w).obj] = "Red", NEW e \in ToSet(w), e.op \in {"CycleKids", "CyclicDecrement"}
      PROVE  FALSE
    <2>1. PICK j \in 1 .. Len(w) : e = w[j]
        BY <1>4
    <2>2. j # 1
        BY <1>1, <1>6, <2>1
    <2>3. 1 < j
        BY <1>1, <2>2
    <2> QED
        BY <1>1, <1>6, <2>1, <2>3 DEF RedLast
<1> QED
    BY <1>2, <1>3, <1>5, <1>6

\* drop_children frees its object below the drops of its fields.
LEMMA DropNested ==
    ASSUME NEW s, NEW es, DropList(es, s), NEW col
    PROVE  Nested(es) /\ RedLast(es, col)
<1>1. es \in Seq(Entry) /\ Len(es) \in 1 .. Len(es) /\ es[Len(es)] = Do("Free", s) /\ Len(es) \in Nat
    BY LenProperties DEF DropList
<1>2. \A i \in 1 .. Len(es) : i # Len(es) => es[i].op = "Decrement" /\ es[i].obj = s
    <2>1. SUFFICES ASSUME NEW i \in 1 .. Len(es), i # Len(es) PROVE es[i].op = "Decrement" /\ es[i].obj = s
        OBVIOUS
    <2>2. PICK k \in Slot : es[i] = DoField("Decrement", s, k)
        BY <2>1 DEF DropList
    <2> QED
        BY <2>2 DEF DoField
<1>3. es[Len(es)].op = "Free" /\ es[Len(es)].obj = s
    BY <1>1 DEF Do
<1>4. Nested(es)
    <2>1. ASSUME NEW i \in 1 .. Len(es), es[i].op # "Free" PROVE \E j \in i + 1 .. Len(es) : es[j] = Do("Free", es[i].obj)
        <3>1. i # Len(es)
            BY <1>3, <2>1
        <3>2. Len(es) \in i + 1 .. Len(es)
            BY <1>1, <3>1
        <3> QED
            BY <1>1, <1>2, <3>1, <3>2
    <2> QED
        BY <2>1 DEF Nested, DropList, Distinct
<1>5. RedLast(es, col)
    <2>1. \A i \in 1 .. Len(es) : es[i].op \notin {"CycleKids", "CyclicDecrement"}
        BY <1>2, <1>3
    <2> QED
        BY <2>1 DEF RedLast
<1> QED
    BY <1>4, <1>5

\* free_cycle frees the members of a cycle below the visits of all of them.
LEMMA CycleNested ==
    ASSUME NEW c \in Seq(Obj), NEW x, Passes(x, c, "CycleKids", "Free"), NEW col,
           \A a, b \in 1 .. Len(c) : c[a] = c[b] => a = b
    PROVE  Nested(x) /\ RedLast(x, col)
<1>1. Len(c) \in Nat /\ Len(x) = Len(c) + Len(c)
    BY DEF Passes
<1>2. \A i, j \in 1 .. Len(x) : x[i] = x[j] => i = j
    <2>1. "CycleKids" # "Free"
        OBVIOUS
    <2> QED
        BY <2>1, PassDistinct
<1>3. ASSUME NEW i \in 1 .. Len(x), x[i].op # "Free" PROVE \E j \in i + 1 .. Len(x) : x[j] = Do("Free", x[i].obj)
    <2>1. \A j \in 1 .. Len(c) : x[i] # Do("Free", c[j])
        BY <1>3 DEF Do
    <2>2. i \in 1 .. Len(c) /\ x[i] = Do("CycleKids", c[i])
        BY <2>1, PassAt
    <2>3. x[Len(c) + i] = Do("Free", c[i]) /\ x[i].obj = c[i]
        BY <2>2 DEF Passes, Do
    <2>4. Len(c) + i \in i + 1 .. Len(x)
        BY <1>1, <2>2
    <2> QED
        BY <2>3, <2>4
<1>4. Nested(x)
    BY <1>2, <1>3 DEF Nested
<1>5. RedLast(x, col)
    <2>1. SUFFICES ASSUME NEW i \in 1 .. Len(x), NEW j \in 1 .. Len(x), i < j, x[i].op = "Free", x[j].op \in {"CycleKids", "CyclicDecrement"}
                   PROVE  FALSE
        BY DEF RedLast
    <2>2. x[i] # Do("CycleKids", c[i])
        BY <2>1 DEF Do
    <2>3. PICK a \in 1 .. Len(c) : i = Len(c) + a
        BY <2>2, PassAt
    <2>4. \A b \in 1 .. Len(c) : x[j] # Do("Free", c[b])
        BY <2>1 DEF Do
    <2>5. j \in 1 .. Len(c)
        BY <2>4, PassAt
    <2> QED
        BY <1>1, <2>1, <2>3, <2>5
<1> QED
    BY <1>4, <1>5

----------------------------------------------------------------------------
(* What a release holds.                                                    *)

\* An entry of a release names its object, and the field for a decrement.
LEMMA DueIs ==
    ASSUME NEW e, Due(e)
    PROVE  /\ e.op \in {"Free", "CycleKids", "Decrement", "CyclicDecrement"}
           /\ e.op = "Free" => e.obj \in allocated /\ e = Do("Free", e.obj)
           /\ e.op = "CycleKids" => e.obj \in Obj /\ color[e.obj] = "Red" /\ e = Do("CycleKids", e.obj)
           /\ e.op \in {"Decrement", "CyclicDecrement"} =>
                 /\ e.obj \in Obj /\ e.field \in Slot /\ slots[e.obj][e.field] # Null
                 /\ e = DoField(e.op, e.obj, e.field)
                 /\ e.op = "CyclicDecrement" <=> color[e.obj] = "Red"
<1>1. \A op, o : Do(op, o).op = op /\ Do(op, o).obj = o
    BY DEF Do
<1>2. \A op, o, k : DoField(op, o, k).op = op /\ DoField(op, o, k).obj = o /\ DoField(op, o, k).field = k
    BY DEF DoField
<1>3. CASE \E p \in allocated : e = Do("Free", p)
    BY <1>1, <1>3
<1>4. CASE \E p \in Obj : color[p] = "Red" /\ e = Do("CycleKids", p)
    BY <1>1, <1>4
<1>5. CASE \E p \in Obj, k \in Slot : slots[p][k] # Null /\ color[p] # "Red" /\ e = DoField("Decrement", p, k)
    BY <1>2, <1>5
<1>6. CASE \E p \in Obj, k \in Slot : slots[p][k] # Null /\ color[p] = "Red" /\ e = DoField("CyclicDecrement", p, k)
    BY <1>2, <1>6
<1> QED
    BY <1>3, <1>4, <1>5, <1>6 DEF Due

\* What is still referred to by an entry is condemned and not yet freed.
LEMMA ReleaseIs ==
    ASSUME TypeOK, Releasing
    PROVE  /\ work \in Seq(Entry) /\ Entries = {work[i] : i \in 1 .. Len(work)}
           /\ \A e \in Entries : Due(e) /\ e.obj \in Condemned
           /\ \A o \in Obj : o \in Condemned <=> Do("Free", o) \in Entries
           /\ Condemned \subseteq allocated /\ Condemned \subseteq Obj
<1>1. work \in Seq(Entry) /\ Entries = {work[i] : i \in 1 .. Len(work)}
    BY ToSetIs DEF TypeOK, Entries
<1>2. \A e \in Entries : Due(e)
    BY DEF Releasing
<1>3. ASSUME NEW o \in Condemned PROVE o \in allocated /\ o \in Obj /\ Do("Free", o) \in Entries
    <2>1. PICK e \in Entries : e.op = "Free" /\ e.obj = o
        BY DEF Condemned
    <2>2. e.obj \in allocated /\ e = Do("Free", e.obj)
        BY <1>2, <2>1, DueIs
    <2> QED
        BY <2>1, <2>2 DEF TypeOK
<1>4. \A o \in Obj : Do("Free", o) \in Entries => o \in Condemned
    BY CondemnedIs
<1>5. ASSUME NEW e \in Entries PROVE e.obj \in Condemned
    <2>1. CASE e.op = "Free"
        BY <2>1 DEF Condemned
    <2>2. CASE e.op # "Free"
        <3>1. PICK i \in 1 .. Len(work) : e = work[i]
            BY <1>1
        <3>2. PICK j \in i + 1 .. Len(work) : work[j] = Do("Free", e.obj)
            BY <2>2, <3>1 DEF Releasing, Nested
        <3>3. Len(work) \in Nat
            BY <1>1, LenProperties
        <3>4. j \in 1 .. Len(work)
            BY <3>2, <3>3
        <3>5. Do("Free", e.obj) \in Entries
            BY <1>1, <3>2, <3>4
        <3>6. Do("Free", e.obj).op = "Free" /\ Do("Free", e.obj).obj = e.obj
            BY DEF Do
        <3> QED
            BY <3>5, <3>6 DEF Condemned
    <2> QED
        BY <2>1, <2>2
<1> QED
    BY <1>1, <1>2, <1>3, <1>4, <1>5

\* The reference in field k of a member p of the cycle being freed has not
\* been dropped.
Held(p, k) == Do("CycleKids", p) \in Entries \/ DoField("CyclicDecrement", p, k) \in Entries

\* The field k of p as programs would see it during a release.
Bar(p, k) ==
    IF color[p] = "Red" /\ ~(Held(p, k) /\ slots[p][k] # Null /\ color[slots[p][k]] # "Red")
    THEN Null ELSE slots[p][k]

\* During a release a field counts as empty when it leads from a Red object to a Red one, or has
\* been visited.
LEMMA ReleaseBar ==
    ASSUME Releasing, NEW p \in Obj, NEW k \in Slot
    PROVE  SlotsBar[p][k] = Bar(p, k)
<1>1. SlotsBar[p][k] = IF p \in Condemned /\ ~Pending(p, k) THEN Null ELSE slots[p][k]
    BY DEF SlotsBar
<1>2. CASE color[p] # "Red"
    <2>1. p \in Condemned /\ slots[p][k] # Null => Pending(p, k)
        BY <1>2 DEF Releasing, Pending
    <2> QED
        BY <1>1, <1>2, <2>1 DEF Bar
<1>3. CASE color[p] = "Red"
    <2>1. p \in Condemned
        BY <1>3 DEF Releasing, Coloured
    <2>2. DoField("Decrement", p, k) \notin Entries
        <3>1. SUFFICES ASSUME Due(DoField("Decrement", p, k)) PROVE FALSE
            BY DEF Releasing
        <3>2. DoField("Decrement", p, k).op = "Decrement" /\ DoField("Decrement", p, k).obj = p
            BY DEF DoField
        <3> QED
            BY <1>3, <3>1, <3>2, DueIs
    <2>3. Pending(p, k) <=> Held(p, k) /\ slots[p][k] # Null /\ color[slots[p][k]] # "Red"
        BY <2>2 DEF Pending, Held
    <2> QED
        BY <1>1, <1>3, <2>1, <2>3 DEF Bar
<1> QED
    BY <1>2, <1>3

\* The same after a step.
LEMMA ReleaseBarNext ==
    ASSUME Releasing', NEW p \in Obj, NEW k \in Slot
    PROVE  SlotsBar'[p][k] = Bar(p, k)'
<1>1. SlotsBar'[p][k] = IF p \in Condemned' /\ ~Pending(p, k)' THEN Null ELSE slots'[p][k]
    BY DEF SlotsBar
<1>2. CASE color'[p] # "Red"
    <2>1. p \in Condemned' /\ slots'[p][k] # Null => Pending(p, k)'
        BY <1>2 DEF Releasing, Pending
    <2> QED
        BY <1>1, <1>2, <2>1 DEF Bar
<1>3. CASE color'[p] = "Red"
    <2>1. p \in Condemned'
        BY <1>3 DEF Releasing, Coloured
    <2>2. DoField("Decrement", p, k) \notin Entries'
        <3>1. SUFFICES ASSUME Due(DoField("Decrement", p, k))' PROVE FALSE
            BY DEF Releasing
        <3>2. \A op, o, j : DoField(op, o, j).op = op /\ DoField(op, o, j).obj = o
            BY DEF DoField
        <3>3. \A op, o : Do(op, o).op = op
            BY DEF Do
        <3> QED
            BY <1>3, <3>1, <3>2, <3>3 DEF Due
    <2>3. Pending(p, k)' <=> Held(p, k)' /\ slots'[p][k] # Null /\ color'[slots'[p][k]] # "Red"
        BY <2>2 DEF Pending, Held
    <2> QED
        BY <1>1, <1>3, <2>1, <2>3 DEF Bar
<1> QED
    BY <1>2, <1>3

----------------------------------------------------------------------------
(* Dropping one reference of a condemned object.                            *)

\* The entry e on top of the stack drops the reference to m in field k of s.
Dropping(e, s, k, m) ==
    /\ work # <<>> /\ e = Head(work) /\ e \in Entries
    /\ s \in Condemned /\ s \in allocated /\ s \in Obj /\ k \in Slot
    /\ m \in allocated /\ m \in Obj /\ m \notin Condemned
    /\ slots[s][k] = m /\ SlotsBar[s][k] = m /\ color[m] # "Red"
    /\ e.op \in {"Decrement", "CyclicDecrement"} /\ e = DoField(e.op, s, k)
    /\ e.op = "CyclicDecrement" <=> color[s] = "Red"

\* What is dropped is a reference to a live object, as RefHeap sees it too.
LEMMA DroppingIs ==
    ASSUME CollectorAssumption, TypeOK, H!Inv, Releasing, NEW s \in Obj,
           NEW op \in {"Decrement", "CyclicDecrement"}, Popping(op, s)
    PROVE  /\ Head(work).field \in Slot
           /\ slots[s][Head(work).field] \in Obj
           /\ color[slots[s][Head(work).field]] # "Red" =>
                Dropping(Head(work), s, Head(work).field, slots[s][Head(work).field])
<1>1. PICK e : e = Head(work)
    OBVIOUS
<1>2. work # <<>> /\ e.op = op /\ e.obj = s /\ e \in Entries
    BY <1>1, HeadIn DEF Popping, TypeOK, Entries
<1>3. Due(e) /\ s \in Condemned /\ s \in allocated
    BY <1>2, ReleaseIs
<1>4. e.field \in Slot /\ slots[s][e.field] # Null /\ e = DoField(op, s, e.field) /\ (op = "CyclicDecrement" <=> color[s] = "Red")
    BY <1>2, <1>3, DueIs
<1>5. PICK k \in Slot : k = e.field
    BY <1>4
<1>6. PICK m \in Obj : m = slots[s][k]
    BY <1>4, <1>5 DEF TypeOK
<1>7. ASSUME color[m] # "Red" PROVE Dropping(e, s, k, m)
    <2>1. SlotsBar[s][k] = Bar(s, k)
        BY ReleaseBar
    <2>2. color[s] = "Red" => Held(s, k)
        BY <1>2, <1>4, <1>5 DEF Held
    <2>3. SlotsBar[s][k] = m
        BY <1>4, <1>5, <1>6, <1>7, <2>1, <2>2 DEF Bar
    <2>4. m \in allocated /\ m \notin Condemned
        BY <2>3, HeapIs
    <2> QED
        BY <1>1, <1>2, <1>3, <1>4, <1>5, <1>6, <1>7, <2>3, <2>4 DEF Dropping
<1> QED
    BY <1>1, <1>4, <1>5, <1>6, <1>7

\* What the drop changes, and what it pushes when the reference was the last.
Dropped(e, s, k, m, es) ==
    /\ es \in Seq(Entry) /\ work' \in Seq(Entry) /\ IsPush(work', es, work)
    /\ Len(es) = 0 \/ DropList(es, m)
    /\ Len(es) # 0 => rc[m] = 1
    /\ UNCHANGED <<allocated, handles, color>>
    /\ \A p \in Obj, j \in Slot : slots'[p][j] = IF p = s /\ j = k THEN Null ELSE slots[p][j]

\* The entries after a drop.
LEMMA DroppedEntries ==
    ASSUME TypeOK, Releasing, NEW e, NEW s, NEW k, NEW m, Dropping(e, s, k, m), NEW es, Dropped(e, s, k, m, es)
    PROVE  /\ Entries' = ToSet(es) \union (Entries \ {e})
           /\ \A f \in ToSet(es) : f.obj = m /\ f.op \in {"Free", "Decrement"}
           /\ \A f \in ToSet(es) : f = Do("Free", m) \/ \E j \in Slot : slots[m][j] # Null /\ f = DoField("Decrement", m, j)
           /\ Len(es) # 0 => /\ Do("Free", m) \in ToSet(es)
                             /\ \A j \in Slot : slots[m][j] # Null => DoField("Decrement", m, j) \in ToSet(es)
           /\ Condemned' = Condemned \union (IF Len(es) = 0 THEN {} ELSE {m})
<1>1. work \in Seq(Entry) /\ work # <<>> /\ Distinct(work)
    BY DEF TypeOK, Dropping, Releasing, Nested, Distinct
<1>2. Entries' = ToSet(es) \union (Entries \ {e})
    <2>1. /\ es \in Seq(Entry) /\ work' \in Seq(Entry) /\ IsPush(work', es, work)
          /\ \A i, j \in 1 .. Len(work) : work[i] = work[j] => i = j
        BY <1>1, Zenon DEF Dropped, Distinct
    <2>2. ToSet(work') = ToSet(es) \union (ToSet(work) \ {Head(work)})
        BY ONLY <1>1, <2>1, EntriesGone, Zenon
    <2> QED
        BY <2>2 DEF Entries, Dropping
<1>3. es \in Seq(Entry) /\ ToSet(es) = {es[i] : i \in 1 .. Len(es)}
    BY ToSetIs DEF Dropped
<1>4. ASSUME NEW f \in ToSet(es)
      PROVE  f = Do("Free", m) \/ \E j \in Slot : slots[m][j] # Null /\ f = DoField("Decrement", m, j)
    <2>1. PICK i \in 1 .. Len(es) : f = es[i]
        BY <1>3
    <2>2. DropList(es, m)
        BY <1>3, <2>1 DEF Dropped
    <2> QED
        BY <2>1, <2>2 DEF DropList
<1>5. ASSUME NEW f \in ToSet(es) PROVE f.obj = m /\ f.op \in {"Free", "Decrement"}
    BY <1>4, <1>5 DEF Do, DoField
<1>6. ASSUME Len(es) # 0
      PROVE  /\ Do("Free", m) \in ToSet(es)
             /\ \A j \in Slot : slots[m][j] # Null => DoField("Decrement", m, j) \in ToSet(es)
    <2>1. DropList(es, m)
        BY <1>6 DEF Dropped
    <2>2. Len(es) \in 1 .. Len(es) /\ es[Len(es)] = Do("Free", m)
        BY <2>1 DEF DropList
    <2> QED
        BY <1>3, <2>1, <2>2 DEF DropList
<1>7. Condemned' = Condemned \union (IF Len(es) = 0 THEN {} ELSE {m})
    <2>1. e.op # "Free"
        BY DEF Dropping
    <2>2. Condemned = {f.obj : f \in {g \in Entries : g.op = "Free"}}
        BY DEF Condemned
    <2>3. Condemned' = {f.obj : f \in {g \in Entries' : g.op = "Free"}}
        BY DEF Condemned
    <2>4. ASSUME Len(es) = 0 PROVE ToSet(es) = {}
        BY <1>3, <2>4
    <2>5. CASE Len(es) = 0
        BY <1>2, <2>1, <2>2, <2>3, <2>4, <2>5
    <2>6. CASE Len(es) # 0
        <3>1. Do("Free", m).op = "Free" /\ Do("Free", m).obj = m
            BY DEF Do
        <3>2. Condemned' \subseteq Condemned \union {m}
            BY <1>2, <1>5, <2>2, <2>3
        <3>3. Condemned \subseteq Condemned'
            BY <1>2, <2>1, <2>2, <2>3
        <3>4. m \in Condemned'
            BY <1>2, <1>6, <2>3, <2>6, <3>1
        <3> QED
            BY <2>6, <3>2, <3>3, <3>4
    <2> QED
        BY <2>5, <2>6
<1> QED
    BY <1>2, <1>4, <1>5, <1>6, <1>7

\* A drop keeps a release going.
LEMMA DroppedReleasing ==
    ASSUME TypeOK, Releasing, NEW e, NEW s, NEW k, NEW m, Dropping(e, s, k, m), NEW es, Dropped(e, s, k, m, es)
    PROVE  Releasing'
<1> USE DroppedEntries
<1>1. /\ work \in Seq(Entry) /\ work # <<>> /\ e = Head(work)
      /\ m \notin Condemned /\ s \in Condemned /\ m \in allocated /\ m \in Obj /\ color[m] # "Red"
      /\ e = DoField(e.op, s, k) /\ e.op \in {"Decrement", "CyclicDecrement"}
      /\ e.op = "CyclicDecrement" <=> color[s] = "Red"
    BY DEF TypeOK, Dropping
<1>2. /\ color' = color /\ allocated' = allocated
      /\ \A p \in Obj, j \in Slot : slots'[p][j] = IF p = s /\ j = k THEN Null ELSE slots[p][j]
    BY DEF Dropped
<1>3. /\ es \in Seq(Entry) /\ work' \in Seq(Entry) /\ IsPush(work', es, work)
      /\ Len(es) = 0 \/ DropList(es, m)
    BY DEF Dropped
<1>4. \A f \in Entries : Due(f) /\ f.obj \in Condemned
    BY ReleaseIs
<1>5. m # s
    BY <1>1
<1>6. \A j \in Slot : slots'[m][j] = slots[m][j]
    BY <1>1, <1>2, <1>5
<1>7. ASSUME NEW f \in Entries, f # e PROVE Due(f)'
    <2>1. Due(f)
        BY <1>4
    <2>2. CASE \E p \in allocated : f = Do("Free", p)
        BY <1>2, <2>2 DEF Due
    <2>3. CASE \E p \in Obj : color[p] = "Red" /\ f = Do("CycleKids", p)
        BY <1>2, <2>3 DEF Due
    <2>4. CASE \E p \in Obj, j \in Slot : slots[p][j] # Null /\ color[p] # "Red" /\ f = DoField("Decrement", p, j)
        <3>1. PICK p \in Obj, j \in Slot : slots[p][j] # Null /\ color[p] # "Red" /\ f = DoField("Decrement", p, j)
            BY <2>4
        <3>2. ~(p = s /\ j = k)
            BY <1>1, <1>7, <3>1
        <3>3. slots'[p][j] # Null /\ color'[p] # "Red"
            BY <1>2, <3>1, <3>2
        <3> QED
            BY <3>1, <3>3 DEF Due
    <2>5. CASE \E p \in Obj, j \in Slot : slots[p][j] # Null /\ color[p] = "Red" /\ f = DoField("CyclicDecrement", p, j)
        <3>1. PICK p \in Obj, j \in Slot : slots[p][j] # Null /\ color[p] = "Red" /\ f = DoField("CyclicDecrement", p, j)
            BY <2>5
        <3>2. ~(p = s /\ j = k)
            BY <1>1, <1>7, <3>1
        <3>3. slots'[p][j] # Null /\ color'[p] = "Red"
            BY <1>2, <3>1, <3>2
        <3> QED
            BY <3>1, <3>3 DEF Due
    <2> QED
        BY <2>1, <2>2, <2>3, <2>4, <2>5 DEF Due
<1>8. ASSUME NEW f \in ToSet(es) PROVE Due(f)'
    <2>1. CASE f = Do("Free", m)
        BY <1>1, <1>2, <2>1 DEF Due
    <2>2. CASE \E j \in Slot : slots[m][j] # Null /\ f = DoField("Decrement", m, j)
        <3>1. PICK j \in Slot : slots[m][j] # Null /\ f = DoField("Decrement", m, j)
            BY <2>2
        <3>2. slots'[m][j] # Null /\ color'[m] # "Red"
            BY <1>1, <1>2, <1>6, <3>1
        <3> QED
            BY <1>1, <3>1, <3>2 DEF Due
    <2> QED
        BY <2>1, <2>2
<1>9. \A f \in Entries' : Due(f)'
    BY <1>7, <1>8
<1>10. Nested(work') /\ RedLast(work', color')
    <2>1. Nested(work) /\ RedLast(work, color)
        BY DEF Releasing
    <2>2. es \in Seq(Entry) /\ ToSet(es) = {es[i] : i \in 1 .. Len(es)}
        BY <1>3, ToSetIs
    <2>3. ToSet(work) = {work[i] : i \in 1 .. Len(work)} /\ Entries = ToSet(work)
        BY <1>1, ToSetIs DEF Entries
    <2>4. ASSUME NEW i \in 1 .. Len(es), NEW j \in 2 .. Len(work) PROVE es[i] # work[j]
        <3>1. j \in 1 .. Len(work)
            OBVIOUS
        <3>2. work[j].obj \in Condemned
            BY <1>4, <2>3, <3>1
        <3>3. es[i].obj = m
            BY <2>2
        <3> QED
            BY <1>1, <3>2, <3>3
    <2>5. Distinct(es) /\ \A i \in 1 .. Len(es) : es[i].op # "Free" => \E j \in i + 1 .. Len(es) : es[j] = Do("Free", es[i].obj)
        <3>1. CASE Len(es) = 0
            BY <3>1 DEF Distinct
        <3>2. CASE Len(es) # 0
            <4>1. DropList(es, m)
                BY <1>3, <3>2
            <4>2. Nested(es)
                BY <4>1, DropNested
            <4> QED
                BY <4>2 DEF Nested, Distinct
        <3> QED
            BY <3>1, <3>2
    <2>6. \A i \in 1 .. Len(es) : es[i].op = "Free" => color[es[i].obj] # "Red"
        BY <1>1, <2>2
    <2>7. Nested(work') /\ RedLast(work', color)
        BY <1>1, <1>3, <2>1, <2>4, <2>5, <2>6, NestedPush
    <2> QED
        BY <1>2, <2>7, Zenon
<1>11. ASSUME NEW p \in Obj, NEW j \in Slot, Do("CycleKids", p) \in Entries', DoField("CyclicDecrement", p, j) \in Entries' PROVE FALSE
    <2>1. Do("CycleKids", p).op = "CycleKids" /\ DoField("CyclicDecrement", p, j).op = "CyclicDecrement"
        BY DEF Do, DoField
    <2>2. Do("CycleKids", p) \in Entries /\ DoField("CyclicDecrement", p, j) \in Entries
        BY <1>11, <2>1
    <2> QED
        BY <2>2 DEF Releasing
<1>12. ASSUME NEW p \in Condemned', NEW j \in Slot, color'[p] # "Red", slots'[p][j] # Null
       PROVE  DoField("Decrement", p, j) \in Entries'
    <2>0. p \in Obj
        BY <1>1, ReleaseIs
    <2>1. CASE p \in Condemned
        <3>1. slots[p][j] # Null /\ ~(p = s /\ j = k) /\ color[p] # "Red"
            BY <1>2, <1>12, <2>0
        <3>2. DoField("Decrement", p, j) \in Entries
            BY <2>1, <3>1 DEF Releasing
        <3>3. DoField("Decrement", p, j).obj = p /\ DoField("Decrement", p, j).field = j /\ e.obj = s /\ e.field = k
            BY <1>1 DEF DoField
        <3>4. DoField("Decrement", p, j) # e
            BY <3>1, <3>3
        <3> QED
            BY <3>2, <3>4
    <2>2. CASE p \notin Condemned
        <3>1. p = m /\ Len(es) # 0
            BY <2>2
        <3>2. slots[m][j] # Null
            BY <1>6, <1>12, <3>1
        <3> QED
            BY <3>1, <3>2
    <2> QED
        BY <2>1, <2>2
<1>13. Coloured({"Red"})' \subseteq Condemned'
    <2>1. Coloured({"Red"})' = Coloured({"Red"})
        BY <1>2 DEF Coloured
    <2> QED
        BY <2>1 DEF Releasing
<1> QED
    BY <1>9, <1>10, <1>11, <1>12, <1>13 DEF Releasing

\* The step is a Decrement of the abstract heap.
LEMMA DroppedHeap ==
    ASSUME CollectorAssumption, TypeOK, H!Inv, Releasing,
           NEW e, NEW s, NEW k, NEW m, Dropping(e, s, k, m), NEW es, Dropped(e, s, k, m, es),
           rc' = [rc EXCEPT ![m] = @ - 1]
    PROVE  H!Decrement(s, k) /\ H!Inv'
<1>1. Releasing'
    BY DroppedReleasing
<1>2. /\ m \notin Condemned /\ s \in Condemned /\ m \in allocated /\ m \in Obj /\ s \in allocated /\ s \in Obj /\ k \in Slot
      /\ e = DoField(e.op, s, k) /\ e.op \in {"Decrement", "CyclicDecrement"}
      /\ SlotsBar[s][k] = m
    BY DEF Dropping
<1>3. /\ color' = color /\ allocated' = allocated /\ handles' = handles
      /\ \A p \in Obj, j \in Slot : slots'[p][j] = IF p = s /\ j = k THEN Null ELSE slots[p][j]
    BY DEF Dropped
<1>4. ASSUME NEW p \in Obj, NEW j \in Slot PROVE Held(p, j)' <=> Held(p, j) /\ DoField("CyclicDecrement", p, j) # e
    <2>1. Do("CycleKids", p) \in Entries' <=> Do("CycleKids", p) \in Entries
        <3>1. Do("CycleKids", p).op = "CycleKids"
            BY DEF Do
        <3> QED
            BY <1>2, <3>1, DroppedEntries
    <2>2. DoField("CyclicDecrement", p, j) \in Entries' <=> DoField("CyclicDecrement", p, j) \in Entries /\ DoField("CyclicDecrement", p, j) # e
        <3>1. DoField("CyclicDecrement", p, j).op = "CyclicDecrement"
            BY DEF DoField
        <3> QED
            BY <3>1, DroppedEntries
    <2>3. DoField("CyclicDecrement", p, j) = e => Do("CycleKids", p) \notin Entries
        BY DEF Releasing, Dropping
    <2> QED
        BY <2>1, <2>2, <2>3 DEF Held
<1>5. ASSUME NEW p \in Obj, NEW j \in Slot
      PROVE  SlotsBar'[p][j] = IF p = s /\ j = k THEN Null ELSE SlotsBar[p][j]
    <2>1. SlotsBar'[p][j] = Bar(p, j)' /\ SlotsBar[p][j] = Bar(p, j)
        BY <1>1, ReleaseBar, ReleaseBarNext
    <2>2. CASE p = s /\ j = k
        BY <1>3, <2>1, <2>2 DEF Bar
    <2>3. CASE ~(p = s /\ j = k)
        <3>1. slots'[p][j] = slots[p][j]
            BY <1>3, <2>3
        <3>2. DoField("CyclicDecrement", p, j).obj = p /\ DoField("CyclicDecrement", p, j).field = j /\ e.obj = s /\ e.field = k
            BY <1>2 DEF DoField
        <3>3. Held(p, j)' <=> Held(p, j)
            BY <1>4, <2>3, <3>2
        <3>4. Bar(p, j)' = Bar(p, j)
            BY <1>3, <3>1, <3>3 DEF Bar
        <3> QED
            BY <2>1, <2>3, <3>4
    <2> QED
        BY <2>2, <2>3
<1>6. SlotsBar \in [Obj -> [Slot -> Obj \union {Null}]]
    BY DEF H!Inv, H!TypeOK
<1>7. SlotsBar' = [SlotsBar EXCEPT ![s][k] = Null]
    <2>1. PICK h : h = [SlotsBar EXCEPT ![s][k] = Null]
        OBVIOUS
    <2>2. h \in [Obj -> [Slot -> Obj \union {Null}]] /\ \A p \in Obj, j \in Slot : h[p][j] = IF p = s /\ j = k THEN Null ELSE SlotsBar[p][j]
        BY <1>2, <1>6, <2>1
    <2>3. ASSUME NEW p \in Obj PROVE SlotsBar'[p] = h[p]
        <3>1. SlotsBar'[p] = [j \in Slot |-> SlotsBar'[p][j]]
            BY DEF SlotsBar
        <3>2. h[p] = [j \in Slot |-> h[p][j]]
            BY <2>2
        <3>3. \A j \in Slot : h[p][j] = SlotsBar'[p][j]
            BY <1>5, <2>2
        <3> QED
            BY <3>1, <3>2, <3>3
    <2>4. SlotsBar' = [p \in Obj |-> SlotsBar'[p]]
        BY DEF SlotsBar
    <2>5. h = [p \in Obj |-> h[p]]
        BY <2>2
    <2> QED
        BY <2>1, <2>3, <2>4, <2>5
<1>8. \A o \in Obj : StatusBar[o] = IF o \notin allocated THEN "free" ELSE IF o \in Condemned THEN "dying" ELSE "live"
    BY DEF StatusBar
<1>9. \A o \in Obj : StatusBar'[o] = IF o \notin allocated THEN "free" ELSE IF o \in Condemned' THEN "dying" ELSE "live"
    BY <1>3 DEF StatusBar
<1>10. StatusBar[s] = "dying"
    BY <1>2, <1>8
<1>11. StatusBar \in [Obj -> {"free", "dying", "live"}] /\ StatusBar' \in [Obj -> {"free", "dying", "live"}]
    BY DEF StatusBar
<1>12. StatusBar' = StatusBar \/ (rc[m] = 1 /\ StatusBar' = [StatusBar EXCEPT ![m] = "dying"])
    <2>1. CASE Len(es) = 0
        <3>1. \A o \in Obj : StatusBar'[o] = StatusBar[o]
            BY <1>8, <1>9, <2>1, DroppedEntries
        <3> QED
            BY <1>11, <3>1
    <2>2. CASE Len(es) # 0
        <3>1. rc[m] = 1
            BY <2>2 DEF Dropped
        <3>2. \A o \in Obj : StatusBar'[o] = IF o = m THEN "dying" ELSE StatusBar[o]
            BY <1>2, <1>8, <1>9, <2>2, DroppedEntries
        <3> QED
            BY <1>11, <3>1, <3>2
    <2> QED
        BY <2>1, <2>2
<1>13. H!Decrement(s, k)
    <2>1. m # Null
        BY <1>2 DEF CollectorAssumption
    <2>2. SlotsBar' = H!Write(SlotsBar, s, k, Null)
        BY <1>7 DEF H!Write
    <2> QED
        BY <1>2, <1>3, <1>10, <1>12, <2>1, <2>2, Zenon DEF H!Decrement
<1>14. H!Inv'
    <2>1. H!Next
        BY <1>2, <1>13 DEF H!Next
    <2> QED
        BY <2>1, HeapStep
<1> QED
    BY <1>13, <1>14

\* What a release knows of its phase.
LEMMA ReleaseFrame ==
    ASSUME CollectorAssumption, IInv, pc \in {"sweep", "free"}
    PROVE  /\ TypeOK /\ H!Inv /\ Lists /\ Counted /\ Quiet /\ locked = {}
           /\ pc = "sweep" => Sweeping
           /\ pc = "free" => Freeing
    BY DEF IInv, Quiet

\* What a drop keeps in either phase.
LEMMA DropFrame ==
    ASSUME CollectorAssumption, IInv, pc \in {"sweep", "free"}, Releasing,
           NEW e, NEW s, NEW k, NEW m, Dropping(e, s, k, m), NEW es, Dropped(e, s, k, m, es),
           rc' = [rc EXCEPT ![m] = @ - 1],
           slots' \in [Obj -> [Slot -> Obj \union {Null}]], crc' \in [Obj -> Int],
           UNCHANGED <<allocated, handles, locked, epochRc, color, buffered, heapVars,
                       loopVars, listVars, setVars>>
    PROVE  /\ TypeOK' /\ H!Inv' /\ Quiet' /\ Lists' /\ Counted' /\ Releasing'
           /\ H!Decrement(s, k)
<1> USE ReleaseFrame
<1>1. H!Decrement(s, k) /\ H!Inv' /\ Releasing'
    BY DroppedHeap, DroppedReleasing
<1>2. m \in Obj /\ s \in Obj /\ k \in Slot
    BY DEF Dropping
<1>3. work' \in Seq(Entry)
    BY DEF Dropped
<1>4. TypeOK'
    <2>1. rc' \in [Obj -> Int]
        BY <1>2 DEF TypeOK
    <2> QED
        BY <1>3, <2>1 DEF TypeOK, heapVars, loopVars, listVars, setVars
<1>5. Quiet' /\ pc' = pc
    BY DEF Quiet, loopVars
<1>6. Lists'
    BY DEF Lists, heapVars, loopVars, listVars, setVars
<1>7. Counted'
    <2>1. SUFFICES ASSUME NEW o \in allocated', o \notin toSweep', o \notin Condemned' PROVE rc'[o] <= epochRc'[o]
        BY DEF Counted
    <2>2. o \in allocated /\ o \notin toSweep /\ o \in Obj
        BY <2>1 DEF listVars, TypeOK
    <2>3. o \notin Condemned
        BY <2>1, DroppedEntries
    <2>4. rc[o] <= epochRc[o]
        BY <2>2, <2>3 DEF Counted
    <2>5. rc[o] \in Int /\ epochRc[o] \in Int /\ (rc'[o] = rc[o] \/ rc'[o] = rc[o] - 1)
        BY <1>2, <2>2 DEF TypeOK
    <2>6. epochRc'[o] = epochRc[o]
        OBVIOUS
    <2> QED
        BY ONLY <2>4, <2>5, <2>6
<1> QED
    BY <1>1, <1>4, <1>5, <1>6, <1>7

\* A drop during the sweep.
LEMMA SweepDropped ==
    ASSUME CollectorAssumption, IInv, pc = "sweep", Releasing,
           NEW e, NEW s, NEW k, NEW m, Dropping(e, s, k, m), NEW es, Dropped(e, s, k, m, es),
           rc' = [rc EXCEPT ![m] = @ - 1],
           slots' \in [Obj -> [Slot -> Obj \union {Null}]], crc' = crc,
           UNCHANGED <<allocated, handles, locked, epochRc, color, buffered, heapVars,
                       loopVars, listVars, setVars>>
    PROVE  IInv' /\ H!Decrement(s, k)
<1> USE SweepFrame
<1>1. crc' \in [Obj -> Int]
    BY DEF TypeOK
<1>2. /\ TypeOK' /\ H!Inv' /\ Quiet' /\ Lists' /\ Counted' /\ Releasing' /\ H!Decrement(s, k)
    BY <1>1, DropFrame
<1>3. UNCHANGED <<allocated, handles, epochRc, color, crc, pc, cycles, freedObjs, roots>>
    BY DEF loopVars, setVars
<1>4. \A p \in Obj, j \in Slot : slots'[p][j] = IF p = s /\ j = k THEN Null ELSE slots[p][j]
    BY DEF Dropped
<1>5. \A p \in Obj, j \in Slot : slots'[p][j] \in Parked(cycles) => slots'[p][j] = slots[p][j]
    BY <1>4 DEF CollectorAssumption
<1>6. \A o \in Parked(cycles) : handles'[o] = 0
    BY <1>3 DEF Resting, Closed
<1>7. Parked(cycles) \subseteq allocated' \union freedObjs'
    BY <1>3 DEF Resting
<1>8. ASSUME NEW o \in Parked(cycles) \intersect allocated'
      PROVE  color'[o] = "Orange" /\ (o \notin Condemned' => rc'[o] <= epochRc'[o])
    <2>1. o \in Obj /\ color[o] = "Orange" /\ (o \notin Condemned => rc[o] <= epochRc[o])
        BY <1>3 DEF Resting
    <2>2. o \notin Condemned' => o \notin Condemned
        BY DroppedEntries
    <2>3. rc[o] \in Int /\ epochRc[o] \in Int /\ (rc'[o] = rc[o] \/ rc'[o] = rc[o] - 1)
        BY <2>1 DEF TypeOK, Dropping
    <2>4. epochRc'[o] = epochRc[o] /\ color'[o] = color[o]
        BY <1>3
    <2> QED
        BY ONLY <2>1, <2>2, <2>3, <2>4
<1>9. \A o \in Obj : color'[o] = "Orange" => o \in Parked(cycles)
    BY <1>3
<1>10. Resting'
    BY <1>2, <1>3, <1>5, <1>6, <1>7, <1>8, <1>9, RestKept
<1>11. Sweeping'
    <2>1. Coloured({"Black", "Orange", "Purple"})' = Obj /\ Coloured({"Purple"})' \subseteq roots'
        BY <1>3 DEF Coloured
    <2> QED
        BY <1>2, <1>10, <2>1 DEF Sweeping
<1> QED
    BY <1>2, <1>3, <1>11, SweepIs

\* What there is to show after a step that frees cycles.
LEMMA FreeIs ==
    ASSUME TypeOK', H!Inv', Quiet', Lists', Counted', pc' = "free", Freeing'
    PROVE  IInv'
    BY DEF IInv

\* A reference taken away from those to m.
LEMMA FromDrop ==
    ASSUME CollectorAssumption, NEW h, NEW g, NEW S, NEW m, NEW s \in Obj, NEW k \in Slot,
           s \in S, h[s][k] = m, From(g, S, m) \subseteq From(h, S, m), g[s][k] # m
    PROVE  Cardinality(From(g, S, m)) + 1 <= Cardinality(From(h, S, m))
<1>1. <<s, k>> \in From(h, S, m) /\ <<s, k>> \notin From(g, S, m)
    BY DEF From
<1>2. IsFiniteSet(From(h, S, m)) /\ IsFiniteSet(From(g, S, m))
    BY FromIs
<1>3. PICK A : A = From(g, S, m)
    OBVIOUS
<1>4. PICK B : B = From(h, S, m)
    OBVIOUS
<1>5. Cardinality(A \union {<<s, k>>}) = Cardinality(A) + 1 /\ A \union {<<s, k>>} \subseteq B
    BY <1>1, <1>2, <1>3, <1>4, OneMore
<1>6. Cardinality(A \union {<<s, k>>}) <= Cardinality(B)
    BY <1>2, <1>4, <1>5, FS_Subset
<1> QED
    BY <1>3, <1>4, <1>5, <1>6

\* A drop while cycles are freed.
LEMMA FreeDropped ==
    ASSUME CollectorAssumption, IInv, pc = "free",
           NEW e, NEW s, NEW k, NEW m, Dropping(e, s, k, m), NEW es, Dropped(e, s, k, m, es),
           rc' = [rc EXCEPT ![m] = @ - 1],
           slots' \in [Obj -> [Slot -> Obj \union {Null}]], crc' \in [Obj -> Int],
           \A o \in Obj : crc'[o] = crc[o] \/ (o = m /\ color[m] = "Orange" /\ color[s] = "Red" /\ crc'[m] = crc[m] - 1),
           color[s] = "Red" /\ color[m] = "Orange" => Len(es) = 0,
           UNCHANGED <<allocated, handles, locked, epochRc, color, buffered, heapVars,
                       loopVars, listVars, setVars>>
    PROVE  IInv' /\ H!Decrement(s, k)
<1> USE ReleaseFrame
<1>1. Freeing /\ Releasing
    BY DEF Freeing
<1>2. /\ TypeOK' /\ H!Inv' /\ Quiet' /\ Lists' /\ Counted' /\ Releasing' /\ H!Decrement(s, k)
    BY <1>1, DropFrame
<1>3. UNCHANGED <<allocated, handles, color, pc, taken, roots>>
    BY DEF loopVars, setVars
<1>4. \A p \in Obj, j \in Slot : slots'[p][j] = IF p = s /\ j = k THEN Null ELSE slots[p][j]
    BY DEF Dropped
<1>5. \A cs : Coloured(cs)' = Coloured(cs)
    BY <1>3 DEF Coloured
<1>6. /\ s \in Obj /\ k \in Slot /\ m \in Obj /\ slots[s][k] = m /\ m \notin Condemned /\ s \in Condemned
      /\ color[m] # "Red"
    BY DEF Dropping
<1>7. Null \notin Obj
    BY DEF CollectorAssumption
<1>8. taken \in Seq(Seq(Obj)) /\ Parked(taken) = Coloured({"Orange"})
    BY <1>1 DEF Freeing, TypeOK
<1>9. ASSUME NEW i \in 1 .. Len(taken), NEW o \in Members(taken[i])
      PROVE  Cardinality(From(slots', Obj \ Members(taken[i]), o)) <= crc'[o]
    <2>1. o \in Obj /\ color[o] = "Orange"
        BY <1>8, ParkedIn DEF Coloured
    <2>2. PICK S : S = Obj \ Members(taken[i])
        OBVIOUS
    <2>3. Cardinality(From(slots, S, o)) <= crc[o]
        BY <1>1, <2>2 DEF Freeing, Covers
    <2>4. From(slots', S, o) \subseteq From(slots, S, o)
        <3>1. SUFFICES ASSUME NEW f \in Obj \X Slot, slots'[f[1]][f[2]] = o PROVE slots[f[1]][f[2]] = o
            BY ONLY <3>1 DEF From
        <3>2. f[1] \in Obj /\ f[2] \in Slot
            BY ONLY f \in Obj \X Slot
        <3> QED
            BY <1>4, <1>7, <2>1, <3>1, <3>2
    <2>5. Cardinality(From(slots', S, o)) <= Cardinality(From(slots, S, o))
        BY <2>4, FromLess
    <2>6. Cardinality(From(slots', S, o)) \in Nat /\ Cardinality(From(slots, S, o)) \in Nat /\ crc[o] \in Int
        BY <2>1, FromIs DEF TypeOK
    <2>7. CASE crc'[o] = crc[o]
        BY ONLY <2>2, <2>3, <2>5, <2>6, <2>7
    <2>8. CASE o = m /\ color[s] = "Red" /\ crc'[o] = crc[o] - 1
        <3>1. s \notin Members(taken[i])
            <4>1. \A p \in Members(taken[i]) : color[p] = "Orange"
                BY <1>8, ParkedIn DEF Coloured
            <4> QED
                BY <2>8, <4>1
        <3>2. s \in S /\ slots[s][k] = o /\ slots'[s][k] # o
            BY <1>4, <1>6, <1>7, <2>1, <2>2, <2>8, <3>1
        <3>3. Cardinality(From(slots', S, o)) + 1 <= Cardinality(From(slots, S, o))
            BY <1>6, <2>4, <3>2, FromDrop
        <3> QED
            BY ONLY <2>2, <2>3, <2>6, <2>8, <3>3
    <2> QED
        BY <2>1, <2>7, <2>8
<1>10. \A i \in 1 .. Len(taken) : Covers(taken[i])'
    BY <1>3, <1>9 DEF Covers
<1>11. PICK W \in SUBSET Obj : Lost(W)
    BY <1>1 DEF Freeing
<1>12. Closed(W)'
    <2>1. Closed(W)
        BY <1>11 DEF Lost
    <2> QED
        BY <1>3, <1>4, <1>7, <2>1 DEF Closed
<1>13. Ordered(taken, W)'
    <2>1. SUFFICES ASSUME NEW i \in 1 .. Len(taken), NEW p \in Members(taken[i]), NEW j \in Slot, slots'[p][j] \in W
                   PROVE  \E n \in 1 .. i : slots'[p][j] \in Members(taken[n])
        BY <1>3 DEF Ordered
    <2>2. p \in Obj
        BY <1>8, ParkedIn
    <2>3. slots'[p][j] = slots[p][j]
        BY <1>4, <1>7, <2>1, <2>2
    <2> QED
        BY <1>11, <2>1, <2>3 DEF Lost, Ordered
<1>14. ASSUME NEW o \in Coloured({"Red"})'
       PROVE  Kids(slots', o) \intersect W \subseteq Coloured({"Orange", "Red"})'
    <2>1. o \in Obj /\ o \in Coloured({"Red"})
        BY <1>5 DEF Coloured
    <2>2. Kids(slots', o) \subseteq Kids(slots, o)
        BY <1>4, <2>1 DEF Kids
    <2>3. Kids(slots, o) \intersect W \subseteq Coloured({"Orange", "Red"})
        BY <1>11, <2>1 DEF Lost
    <2>4. Coloured({"Orange", "Red"})' = Coloured({"Orange", "Red"})
        BY <1>5
    <2> QED
        BY <2>2, <2>3, <2>4
<1>15. Condemned' \intersect W \subseteq Coloured({"Red"})'
    <2>1. Condemned \intersect W \subseteq Coloured({"Red"}) /\ Closed(W)
        BY <1>11 DEF Lost
    <2>2. ASSUME Len(es) # 0, m \in W PROVE FALSE
        <3>1. CASE color[s] # "Red"
            <4>1. s \notin W
                BY <1>6, <2>1, <3>1 DEF Coloured
            <4> QED
                BY <1>6, <2>1, <2>2, <4>1 DEF Closed
        <3>2. CASE color[s] = "Red"
            <4>1. m \in Kids(slots, s) /\ s \in Coloured({"Red"})
                BY <1>6, <1>7, <3>2 DEF Kids, Coloured
            <4>2. m \in Coloured({"Orange", "Red"})
                BY <1>11, <2>2, <4>1 DEF Lost
            <4> QED
                BY <1>6, <2>2, <3>2, <4>2 DEF Coloured
        <3> QED
            BY <3>1, <3>2
    <2>3. Condemned' \intersect W \subseteq Condemned \intersect W
        BY <1>1, <2>2, DroppedEntries
    <2>4. Coloured({"Red"})' = Coloured({"Red"})
        BY <1>5
    <2> QED
        BY <2>1, <2>3, <2>4
<1>16. Lost(W)'
    <2>1. Coloured({"Orange", "Red"})' = Coloured({"Orange", "Red"}) /\ Coloured({"Orange", "Red"}) \subseteq W
        BY <1>5, <1>11 DEF Lost
    <2> QED
        BY <1>12, <1>13, <1>14, <1>15, <2>1 DEF Lost
<1>17. Freeing'
    <2>1. Simple(taken)' /\ Parked(taken)' = Parked(taken)
        BY <1>1, <1>3 DEF Freeing, Simple, Parked, Members
    <2>2. /\ Coloured({"Black", "Orange", "Purple", "Red"})' = Coloured({"Black", "Orange", "Purple", "Red"})
          /\ Coloured({"Purple"})' = Coloured({"Purple"}) /\ Coloured({"Orange"})' = Coloured({"Orange"})
        BY <1>5
    <2>3. Coloured({"Black", "Orange", "Purple", "Red"}) = Obj /\ Coloured({"Purple"}) \subseteq roots
        BY <1>1 DEF Freeing
    <2> QED
        BY <1>2, <1>3, <1>8, <1>10, <1>16, <2>1, <2>2, <2>3 DEF Freeing
<1> QED
    BY <1>2, <1>3, <1>17, FreeIs

\* The entries that DropField pushes.
LEMMA DropFieldIs ==
    ASSUME CollectorAssumption, TypeOK, work # <<>>,
           NEW s \in Obj, NEW k \in Slot, NEW m \in Obj, m = slots[s][k],
           LastReference(m) => m \notin locked,
           NEW es, es = IF LastReference(m) THEN DropChildren(m) ELSE <<>>,
           Push(es), slots' = [slots EXCEPT ![s][k] = Null],
           UNCHANGED <<allocated, handles, color>>, NEW e
    PROVE  Dropped(e, s, k, m, es) /\ slots' \in [Obj -> [Slot -> Obj \union {Null}]]
<1>1. (es = <<>> /\ es \in Seq(Entry)) \/ (rc[m] = 1 /\ DropList(es, m))
    <2>1. CASE LastReference(m)
        <3>1. DropList(DropChildren(m), m)
            BY <2>1, DropChildrenIs
        <3>2. DropList(es, m)
            BY <2>1, <3>1, Zenon
        <3>3. rc[m] = 1
            BY <2>1 DEF LastReference
        <3> QED
            BY <3>2, <3>3
    <2>2. CASE ~LastReference(m)
        <3>1. es = <<>>
            BY <2>2, Zenon
        <3> QED
            BY <3>1, NoEntries
    <2> QED
        BY <2>1, <2>2
<1>2. es \in Seq(Entry) /\ (Len(es) = 0 \/ DropList(es, m)) /\ (Len(es) # 0 => rc[m] = 1)
    <2>1. CASE es = <<>>
        BY <1>1, <2>1 DEF DropList
    <2>2. CASE rc[m] = 1 /\ DropList(es, m)
        BY <2>2 DEF DropList
    <2> QED
        BY <1>1, <2>1, <2>2
<1>3. work' \in Seq(Entry) /\ IsPush(work', es, work)
    BY <1>2, PushIs DEF Push, TypeOK
<1>4. /\ slots' \in [Obj -> [Slot -> Obj \union {Null}]]
      /\ \A p \in Obj, j \in Slot : slots'[p][j] = IF p = s /\ j = k THEN Null ELSE slots[p][j]
    BY DEF TypeOK
<1> QED
    BY <1>2, <1>3, <1>4 DEF Dropped

\* A drop of a field is a step of the heap.
LEMMA DropIs ==
    ASSUME NEW s \in Obj, NEW k \in Slot, H!Decrement(s, k)
    PROVE  H!Next
    BY DEF H!Next

\* Decrement, in the sweep or while cycles are freed.
LEMMA DecrementStep ==
    ASSUME CollectorAssumption, IInv, NEW s \in Obj, Decrement(s)
    PROVE  IInv' /\ [H!Next]_H!vars
<1>1. Popping("Decrement", s) /\ work # <<>>
    BY DEF Decrement, Popping
<1>2. pc \in {"sweep", "free"} /\ Releasing
    BY <1>1, PopPhase
<1>3. TypeOK /\ H!Inv /\ locked = {}
    BY <1>2, ReleaseFrame
<1>4. PICK e : e = Head(work)
    OBVIOUS
<1>5. "Decrement" \in {"Decrement", "CyclicDecrement"}
    OBVIOUS
<1>6. Head(work).field \in Slot /\ slots[s][Head(work).field] \in Obj
    BY <1>1, <1>2, <1>3, <1>5, DroppingIs
<1>7. PICK k \in Slot : k = Head(work).field
    BY <1>6
<1>8. PICK m \in Obj : m = slots[s][k]
    BY <1>6, <1>7
<1>9. color[m] # "Red"
    <2>1. e \in Entries /\ e.op = "Decrement" /\ e.obj = s
        BY <1>1, <1>3, <1>4, HeadIn DEF Popping, TypeOK, Entries
    <2>2. color[s] # "Red"
        BY <1>2, <1>3, <2>1, ReleaseIs, DueIs
    <2>3. SlotsBar[s][k] = m
        BY <1>2, <1>8, <2>2, ReleaseBar DEF Bar
    <2>4. m \notin Condemned
        BY <1>3, <2>3, HeapIs
    <2> QED
        BY <1>2, <2>4 DEF Releasing, Coloured
<1>10. Dropping(e, s, k, m)
    <2>1. Dropping(Head(work), s, Head(work).field, slots[s][Head(work).field])
        BY <1>1, <1>2, <1>3, <1>5, <1>7, <1>8, <1>9, DroppingIs
    <2> QED
        BY <1>4, <1>7, <1>8, <2>1, Zenon
<1>11. PICK es : es = IF LastReference(m) THEN DropChildren(m) ELSE <<>>
    OBVIOUS
<1>12. /\ rc' = [rc EXCEPT ![m] = @ - 1] /\ slots' = [slots EXCEPT ![s][k] = Null] /\ Push(es)
       /\ UNCHANGED <<allocated, handles, locked, header, heapVars, loopVars, listVars, setVars>>
    <2>1. DropField(s, k)
        BY <1>7, Zenon DEF Decrement
    <2>2. UNCHANGED <<allocated, handles, locked, header, heapVars, loopVars, listVars, setVars>>
        BY DEF Decrement
    <2>3. rc' = [rc EXCEPT ![m] = @ - 1] /\ slots' = [slots EXCEPT ![s][k] = Null]
        BY <1>8, <2>1 DEF DropField
    <2>4. Push(es)
        BY <1>8, <1>11, <2>1, Zenon DEF DropField
    <2> QED
        BY <2>2, <2>3, <2>4
<1>13. UNCHANGED <<allocated, handles, locked, epochRc, crc, color, buffered, heapVars, loopVars, listVars, setVars>>
    BY <1>12 DEF header
<1>14. Dropped(e, s, k, m, es) /\ slots' \in [Obj -> [Slot -> Obj \union {Null}]]
    BY <1>1, <1>3, <1>8, <1>11, <1>12, <1>13, DropFieldIs
<1> HIDE <1>11
<1>15. IInv' /\ H!Decrement(s, k)
    <2>1. CASE pc = "sweep"
        BY <1>2, <1>10, <1>12, <1>13, <1>14, <2>1, SweepDropped
    <2>2. CASE pc = "free"
        <3>1. crc' \in [Obj -> Int] /\ \A o \in Obj : crc'[o] = crc[o]
            BY <1>3, <1>13 DEF TypeOK
        <3>2. color[s] # "Red"
            BY <1>1, <1>4, <1>10 DEF Dropping, Popping
        <3> QED
            BY <1>10, <1>12, <1>13, <1>14, <2>2, <3>1, <3>2, FreeDropped
    <2> QED
        BY <1>2, <2>1, <2>2
<1> QED
    BY <1>15, DropIs

\* Nothing but the stack changes while cycles are freed.
LEMMA FreeStays ==
    ASSUME CollectorAssumption, IInv, pc = "free", Condemned' = Condemned, Releasing', work' \in Seq(Entry),
           UNCHANGED <<mutVars, header, heapVars, loopVars, listVars, setVars>>,
           \A p \in Obj, j \in Slot : Bar(p, j)' = Bar(p, j)
    PROVE  IInv' /\ UNCHANGED H!vars
<1> USE ReleaseFrame
<1>1. UNCHANGED <<allocated, rc, handles, slots, locked, epochRc, crc, color, buffered, fresh, newAllocs, force,
                  waiting, pc, iter, taken, mine, toSweep, roots, cycles, freedObjs>>
    BY DEF mutVars, header, heapVars, loopVars, listVars, setVars
<1>2. Freeing /\ Releasing
    BY DEF Freeing
<1>3. SlotsBar' = SlotsBar
    <2>1. ASSUME NEW p \in Obj PROVE [j \in Slot |-> SlotsBar'[p][j]] = [j \in Slot |-> SlotsBar[p][j]]
        <3>1. \A j \in Slot : SlotsBar'[p][j] = SlotsBar[p][j]
            BY <1>2, ReleaseBar, ReleaseBarNext
        <3> QED
            BY <3>1
    <2>2. SlotsBar' = [p \in Obj |-> [j \in Slot |-> SlotsBar'[p][j]]]
        BY DEF SlotsBar
    <2>3. SlotsBar = [p \in Obj |-> [j \in Slot |-> SlotsBar[p][j]]]
        BY DEF SlotsBar
    <2> QED
        BY <2>1, <2>2, <2>3
<1>4. StatusBar' = StatusBar
    BY <1>1 DEF StatusBar
<1>5. UNCHANGED H!vars
    BY <1>1, <1>3, <1>4 DEF H!vars
<1>6. H!Inv'
    BY <1>5, HeapStep
<1>7. TypeOK' /\ Quiet' /\ Lists' /\ Counted'
    <2>1. TypeOK'
        BY <1>1 DEF TypeOK
    <2>2. Quiet'
        BY <1>1 DEF Quiet
    <2>3. Lists'
        BY <1>1 DEF Lists
    <2>4. Counted'
        BY <1>1 DEF Counted
    <2> QED
        BY <2>1, <2>2, <2>3, <2>4
<1>8. \A cs : Coloured(cs)' = Coloured(cs)
    BY <1>1 DEF Coloured
<1>9. PICK W \in SUBSET Obj : Lost(W)
    BY <1>2 DEF Freeing
<1>10. Lost(W)'
    <2>1. Closed(W)' /\ Ordered(taken, W)'
        BY <1>1, <1>9 DEF Lost, Closed, Ordered
    <2>2. Coloured({"Orange", "Red"})' = Coloured({"Orange", "Red"}) /\ Coloured({"Red"})' = Coloured({"Red"})
        BY <1>8
    <2>3. \A o \in Coloured({"Red"}) : Kids(slots', o) \intersect W \subseteq Coloured({"Orange", "Red"})
        BY <1>1, <1>9 DEF Lost
    <2>4. Coloured({"Orange", "Red"}) \subseteq W /\ Condemned' \intersect W \subseteq Coloured({"Red"})
        BY <1>9 DEF Lost
    <2> QED
        BY <2>1, <2>2, <2>3, <2>4 DEF Lost
<1>11. Freeing'
    <2>1. Simple(taken)' /\ Parked(taken)' = Parked(taken)
        BY <1>1, <1>2 DEF Freeing, Simple, Parked, Members
    <2>2. /\ Coloured({"Black", "Orange", "Purple", "Red"})' = Coloured({"Black", "Orange", "Purple", "Red"})
          /\ Coloured({"Purple"})' = Coloured({"Purple"}) /\ Coloured({"Orange"})' = Coloured({"Orange"})
        BY <1>8
    <2>3. \A i \in 1 .. Len(taken) : Covers(taken[i])'
        BY <1>1, <1>2 DEF Freeing, Covers
    <2>4. /\ Coloured({"Black", "Orange", "Purple", "Red"}) = Obj /\ Coloured({"Purple"}) \subseteq roots
          /\ Parked(taken) = Coloured({"Orange"})
        BY <1>2 DEF Freeing
    <2> QED
        BY <1>1, <1>10, <2>1, <2>2, <2>3, <2>4 DEF Freeing
<1> QED
    BY <1>1, <1>5, <1>6, <1>7, <1>11, FreeIs

\* The entry e about the member s of the cycle being freed is replaced.
Replaced(e, s, es) ==
    /\ work # <<>> /\ e = Head(work) /\ e \in Entries /\ s \in Obj
    /\ e.obj = s /\ e.op \in {"CycleKids", "CyclicDecrement"}
    /\ es \in Seq(Entry) /\ work' \in Seq(Entry) /\ IsPush(work', es, work) /\ Distinct(es)
    /\ Len(es) # 0 => e = Do("CycleKids", s)
    /\ \A i \in 1 .. Len(es) : \E j \in Slot : slots[s][j] # Null /\ es[i] = DoField("CyclicDecrement", s, j)

\* A visit replaced by visits of fields keeps a release going.
LEMMA ReplacedReleasing ==
    ASSUME TypeOK, Releasing, NEW e, NEW s, NEW es, Replaced(e, s, es), color[s] = "Red",
           UNCHANGED <<allocated, slots, color>>
    PROVE  /\ Releasing' /\ Condemned' = Condemned
           /\ Entries' = ToSet(es) \union (Entries \ {e})
<1>1. /\ work \in Seq(Entry) /\ work # <<>> /\ e = Head(work) /\ e \in Entries
      /\ es \in Seq(Entry) /\ work' \in Seq(Entry) /\ IsPush(work', es, work)
      /\ e.obj = s /\ e.op # "Free" /\ e.op # "Decrement"
    BY DEF TypeOK, Replaced
<1>2. ToSet(es) = {es[i] : i \in 1 .. Len(es)}
    BY <1>1, ToSetIs
<1>3. Nested(work) /\ RedLast(work, color) /\ \A i, j \in 1 .. Len(work) : work[i] = work[j] => i = j
    BY DEF Releasing, Nested
<1>4. Entries' = ToSet(es) \union (Entries \ {e})
    <2>1. ToSet(work') = ToSet(es) \union (ToSet(work) \ {Head(work)})
        BY ONLY <1>1, <1>3, EntriesGone, Zenon
    <2> QED
        BY <1>1, <2>1 DEF Entries
<1>5. ASSUME NEW f \in ToSet(es)
      PROVE  /\ \E j \in Slot : slots[s][j] # Null /\ f = DoField("CyclicDecrement", s, j)
             /\ f.op = "CyclicDecrement" /\ f.obj = s /\ f \notin Entries /\ e = Do("CycleKids", s)
    <2>1. PICK i \in 1 .. Len(es) : f = es[i]
        BY <1>2
    <2>2. PICK j \in Slot : slots[s][j] # Null /\ f = DoField("CyclicDecrement", s, j)
        BY <2>1 DEF Replaced
    <2>3. e = Do("CycleKids", s)
        BY <2>1 DEF Replaced
    <2>4. f \notin Entries
        BY <1>1, <2>2, <2>3 DEF Releasing, Replaced
    <2> QED
        BY <2>2, <2>3, <2>4 DEF DoField
<1>6. Condemned' = Condemned
    <2>1. {f \in Entries' : f.op = "Free"} = {f \in Entries : f.op = "Free"}
        BY <1>1, <1>4, <1>5
    <2> QED
        BY <2>1 DEF Condemned
<1>7. ASSUME NEW f \in Entries' PROVE Due(f)'
    <2>1. CASE f \in ToSet(es)
        BY <1>5, <2>1 DEF Due, Replaced
    <2>2. CASE f \in Entries
        <3>1. Due(f)
            BY <2>2 DEF Releasing
        <3> QED
            BY <3>1 DEF Due
    <2> QED
        BY <1>4, <2>1, <2>2
<1>8. Nested(work') /\ RedLast(work', color')
    <2>1. ToSet(work) = {work[i] : i \in 1 .. Len(work)} /\ Entries = ToSet(work)
        BY <1>1, ToSetIs DEF Entries
    <2>2. ASSUME NEW i \in 1 .. Len(es), NEW j \in 2 .. Len(work) PROVE es[i] # work[j]
        <3>1. work[j] \in Entries
            BY <2>1
        <3>2. es[i] \notin Entries
            BY <1>2, <1>5
        <3> QED
            BY <3>1, <3>2
    <2>3. PICK j \in 2 .. Len(work) : work[j] = Do("Free", s)
        BY <1>1, <1>3, NestedTop
    <2>4. \A i \in 1 .. Len(es) : es[i].obj = s /\ es[i].op # "Free"
        BY <1>2, <1>5
    <2>5. \A i \in 1 .. Len(es) : \E l \in 2 .. Len(work) : work[l] = Do("Free", es[i].obj)
        BY <2>3, <2>4
    <2>6. Distinct(es)
        BY DEF Replaced
    <2>7. Nested(work') /\ RedLast(work', color)
        BY <1>1, <1>3, <2>2, <2>4, <2>5, <2>6, NestedPush
    <2> QED
        BY <2>7, Zenon
<1>9. ASSUME NEW p \in Obj, NEW j \in Slot, Do("CycleKids", p) \in Entries', DoField("CyclicDecrement", p, j) \in Entries' PROVE FALSE
    <2>1. Do("CycleKids", p).op = "CycleKids" /\ DoField("CyclicDecrement", p, j).obj = p
        BY DEF Do, DoField
    <2>2. Do("CycleKids", p) \in Entries /\ Do("CycleKids", p) # e
        BY <1>4, <1>5, <1>9, <2>1
    <2>3. CASE DoField("CyclicDecrement", p, j) \in ToSet(es)
        BY <1>5, <2>1, <2>2, <2>3
    <2>4. CASE DoField("CyclicDecrement", p, j) \in Entries
        BY <2>2, <2>4 DEF Releasing
    <2> QED
        BY <1>4, <1>9, <2>3, <2>4
<1>10. ASSUME NEW p \in Condemned', NEW j \in Slot, color'[p] # "Red", slots'[p][j] # Null
       PROVE  DoField("Decrement", p, j) \in Entries'
    <2>1. DoField("Decrement", p, j) \in Entries
        BY <1>6, <1>10 DEF Releasing
    <2>2. DoField("Decrement", p, j).op = "Decrement"
        BY DEF DoField
    <2> QED
        BY <1>1, <1>4, <2>1, <2>2
<1>11. Coloured({"Red"})' \subseteq Condemned'
    BY <1>6 DEF Coloured, Releasing
<1> QED
    BY <1>4, <1>6, <1>7, <1>8, <1>9, <1>10, <1>11 DEF Releasing

\* Members of a cycle are visited only while cycles are freed.
LEMMA CyclicPop ==
    ASSUME CollectorAssumption, IInv, NEW s \in Obj, NEW op \in {"CycleKids", "CyclicDecrement"}, Popping(op, s)
    PROVE  /\ pc = "free" /\ Releasing /\ TypeOK /\ H!Inv /\ locked = {}
           /\ work # <<>> /\ Head(work) \in Entries /\ color[s] = "Red"
           /\ Head(work).op = op /\ Head(work).obj = s
<1>1. pc \in {"sweep", "free"} /\ Releasing
    BY PopPhase
<1>2. TypeOK /\ H!Inv /\ locked = {}
    BY <1>1, ReleaseFrame
<1>3. work # <<>> /\ Head(work) \in Entries /\ Head(work).op = op /\ Head(work).obj = s
    BY <1>2, HeadIn DEF Popping, TypeOK, Entries
<1>4. color[s] = "Red"
    <2>1. Due(Head(work))
        BY <1>1, <1>2, <1>3, ReleaseIs
    <2> QED
        BY <1>3, <2>1, DueIs
<1>5. pc # "sweep"
    BY <1>4, SweepFrame
<1> QED
    BY <1>1, <1>2, <1>3, <1>4, <1>5

\* The second loop of free_cycle only makes a list of fields.
LEMMA CycleKidsStep ==
    ASSUME CollectorAssumption, IInv, NEW s \in Obj, CycleKids(s)
    PROVE  IInv' /\ UNCHANGED H!vars
<1>1. PICK op \in {"CycleKids", "CyclicDecrement"} : op = "CycleKids"
    OBVIOUS
<1>2. Popping(op, s)
    BY <1>1 DEF CycleKids
<1>3. /\ pc = "free" /\ Releasing /\ TypeOK /\ H!Inv /\ locked = {}
      /\ work # <<>> /\ Head(work) \in Entries /\ color[s] = "Red"
      /\ Head(work).op = op /\ Head(work).obj = s
    BY <1>2, CyclicPop
<1>4. PICK e : e = Head(work)
    OBVIOUS
<1>5. e = Do("CycleKids", s)
    <2>1. Due(e)
        BY <1>3, <1>4, ReleaseIs
    <2> QED
        BY <1>1, <1>3, <1>4, <2>1, DueIs
<1>6. PICK es : es = FieldEntries("CyclicDecrement", s)
    OBVIOUS
<1>7. FieldList(es, "CyclicDecrement", s)
    <2>1. "CyclicDecrement" \in Op
        BY DEF Op
    <2>2. FieldList(FieldEntries("CyclicDecrement", s), "CyclicDecrement", s)
        BY <1>3, <2>1, FieldEntriesIs
    <2> QED
        BY <1>6, <2>2, Zenon
<1>8. Push(es)
    BY <1>6, Zenon DEF CycleKids
<1> HIDE <1>6
<1>9. UNCHANGED <<mutVars, header, heapVars, loopVars, listVars, setVars>>
    BY DEF CycleKids
<1>10. es \in Seq(Entry) /\ Distinct(es)
    BY <1>7 DEF FieldList
<1>11. work' \in Seq(Entry) /\ IsPush(work', es, work)
    BY <1>3, <1>8, <1>10, PushIs DEF Push, TypeOK
<1>12. Replaced(e, s, es)
    <2>1. \A i \in 1 .. Len(es) : \E j \in Slot : slots[s][j] # Null /\ es[i] = DoField("CyclicDecrement", s, j)
        BY <1>7 DEF FieldList
    <2> QED
        BY <1>1, <1>3, <1>4, <1>5, <1>10, <1>11, <2>1 DEF Replaced
<1>13. UNCHANGED <<allocated, slots, color>>
    BY <1>9 DEF mutVars, header
<1>14. Releasing' /\ Condemned' = Condemned /\ Entries' = ToSet(es) \union (Entries \ {e})
    BY <1>3, <1>12, <1>13, ReplacedReleasing
<1>15. ASSUME NEW p \in Obj, NEW j \in Slot PROVE Bar(p, j)' = Bar(p, j)
    <2>1. ASSUME slots[p][j] # Null PROVE Held(p, j)' <=> Held(p, j)
        <3>1. Do("CycleKids", p).op = "CycleKids" /\ Do("CycleKids", p).obj = p /\ e.op = "CycleKids" /\ e.obj = s
            BY <1>5 DEF Do
        <3>2. DoField("CyclicDecrement", p, j).op = "CyclicDecrement" /\ DoField("CyclicDecrement", p, j).obj = p
            BY DEF DoField
        <3>3. ASSUME NEW f \in ToSet(es) PROVE f.op = "CyclicDecrement" /\ f.obj = s
            <4>1. ToSet(es) = {es[i] : i \in 1 .. Len(es)}
                BY <1>10, ToSetIs
            <4>2. PICK i \in 1 .. Len(es) : f = es[i]
                BY <4>1
            <4>3. PICK l \in Slot : es[i] = DoField("CyclicDecrement", s, l)
                BY <1>7 DEF FieldList
            <4> QED
                BY <4>2, <4>3 DEF DoField
        <3>4. CASE p = s
            <4>1. Held(p, j)
                BY <1>3, <1>4, <1>5, <3>4 DEF Held
            <4>2. DoField("CyclicDecrement", p, j) \in ToSet(es)
                BY <1>7, <2>1, <3>4 DEF FieldList
            <4> QED
                BY <1>14, <4>1, <4>2 DEF Held
        <3>5. CASE p # s
            <4>1. Do("CycleKids", p) \in Entries' <=> Do("CycleKids", p) \in Entries
                BY <1>14, <3>1, <3>3, <3>5
            <4>2. DoField("CyclicDecrement", p, j) \in Entries' <=> DoField("CyclicDecrement", p, j) \in Entries
                BY <1>14, <3>1, <3>2, <3>3, <3>5
            <4> QED
                BY <4>1, <4>2 DEF Held
        <3> QED
            BY <3>4, <3>5
    <2> QED
        BY <1>13, <2>1 DEF Bar
<1> QED
    BY <1>3, <1>9, <1>11, <1>14, <1>15, FreeStays

\* cyclic_decrement: nothing inside the cycle, a count and a circular count of a member of
\* another cycle, whose circular counts still cover what refers to it; otherwise a drop.
LEMMA CyclicDecrementStep ==
    ASSUME CollectorAssumption, IInv, NEW s \in Obj, CyclicDecrement(s)
    PROVE  IInv' /\ [H!Next]_H!vars
<1>1. PICK op \in {"CycleKids", "CyclicDecrement"} : op = "CyclicDecrement"
    OBVIOUS
<1>2. Popping(op, s)
    BY <1>1 DEF CyclicDecrement
<1>3. /\ pc = "free" /\ Releasing /\ TypeOK /\ H!Inv /\ locked = {}
      /\ work # <<>> /\ Head(work) \in Entries /\ color[s] = "Red"
      /\ Head(work).op = op /\ Head(work).obj = s
    BY <1>2, CyclicPop
<1>4. PICK e : e = Head(work)
    OBVIOUS
<1>5. op \in {"Decrement", "CyclicDecrement"}
    BY <1>1
<1>6. Head(work).field \in Slot /\ slots[s][Head(work).field] \in Obj
    BY <1>2, <1>3, <1>5, DroppingIs
<1>7. PICK k \in Slot : k = Head(work).field
    BY <1>6
<1>8. PICK m \in Obj : m = slots[s][k]
    BY <1>6, <1>7
<1>9. color[m] # "Red" => Dropping(e, s, k, m)
    <2>1. color[m] # "Red" => Dropping(Head(work), s, Head(work).field, slots[s][Head(work).field])
        BY <1>2, <1>3, <1>5, <1>7, <1>8, DroppingIs
    <2> QED
        BY <1>4, <1>7, <1>8, <2>1, Zenon
<1>10. UNCHANGED <<allocated, handles, locked, epochRc, color, buffered, heapVars, loopVars, listVars, setVars>>
    BY DEF CyclicDecrement
<1>11. \/ color[m] = "Red" /\ Push(<<>>) /\ rc' = rc /\ slots' = slots /\ crc' = crc
       \/ /\ color[m] = "Orange" /\ Push(<<>>)
          /\ rc' = [rc EXCEPT ![m] = @ - 1] /\ crc' = [crc EXCEPT ![m] = @ - 1]
          /\ slots' = [slots EXCEPT ![s][k] = Null]
       \/ /\ color[m] \notin {"Red", "Orange"} /\ crc' = crc /\ DropField(s, k)
    BY <1>7, <1>8 DEF CyclicDecrement
<1>12. CASE color[m] = "Red" /\ Push(<<>>) /\ rc' = rc /\ slots' = slots /\ crc' = crc
    <2>1. PICK es : es = <<>>
        OBVIOUS
    <2>2. es \in Seq(Entry) /\ Len(es) = 0 /\ ToSet(es) = {} /\ Push(es)
        BY <1>12, <2>1, NoEntries
    <2> HIDE <2>1
    <2>3. work' \in Seq(Entry) /\ IsPush(work', es, work)
        BY <1>3, <2>2, PushIs DEF Push, TypeOK
    <2>4. Replaced(e, s, es)
        BY <1>3, <1>4, <2>2, <2>3 DEF Replaced, Distinct
    <2>5. UNCHANGED <<allocated, slots, color>>
        BY <1>10, <1>12
    <2>6. Releasing' /\ Condemned' = Condemned /\ Entries' = ToSet(es) \union (Entries \ {e})
        BY <1>3, <2>4, <2>5, ReplacedReleasing
    <2>7. e = DoField("CyclicDecrement", s, k)
        <3>1. Due(e)
            BY <1>3, <1>4, ReleaseIs
        <3> QED
            BY <1>1, <1>3, <1>4, <1>7, <3>1, DueIs
    <2>8. ASSUME NEW p \in Obj, NEW j \in Slot PROVE Bar(p, j)' = Bar(p, j)
        <3>1. CASE p = s /\ j = k
            BY <1>3, <1>8, <1>12, <2>5, <3>1 DEF Bar
        <3>2. CASE ~(p = s /\ j = k)
            <4>1. Do("CycleKids", p).op = "CycleKids" /\ e.op = "CyclicDecrement" /\ e.obj = s /\ e.field = k
                BY <2>7 DEF Do, DoField
            <4>2. DoField("CyclicDecrement", p, j).obj = p /\ DoField("CyclicDecrement", p, j).field = j
                BY DEF DoField
            <4>3. Do("CycleKids", p) # e /\ DoField("CyclicDecrement", p, j) # e
                BY <3>2, <4>1, <4>2
            <4>4. Held(p, j)' <=> Held(p, j)
                BY <2>2, <2>6, <4>3 DEF Held
            <4> QED
                BY <2>5, <4>4 DEF Bar
        <3> QED
            BY <3>1, <3>2
    <2>9. UNCHANGED <<mutVars, header, heapVars, loopVars, listVars, setVars>>
        BY <1>10, <1>12 DEF mutVars, header
    <2> QED
        BY <1>3, <2>3, <2>6, <2>8, <2>9, FreeStays
<1>13. CASE /\ color[m] = "Orange" /\ Push(<<>>)
            /\ rc' = [rc EXCEPT ![m] = @ - 1] /\ crc' = [crc EXCEPT ![m] = @ - 1]
            /\ slots' = [slots EXCEPT ![s][k] = Null]
    <2>1. PICK es : es = <<>>
        OBVIOUS
    <2>2. es \in Seq(Entry) /\ Len(es) = 0 /\ Push(es)
        BY <1>13, <2>1, NoEntries
    <2> HIDE <2>1
    <2>3. work' \in Seq(Entry) /\ IsPush(work', es, work)
        BY <1>3, <2>2, PushIs DEF Push, TypeOK
    <2>4. /\ slots' \in [Obj -> [Slot -> Obj \union {Null}]]
          /\ \A p \in Obj, j \in Slot : slots'[p][j] = IF p = s /\ j = k THEN Null ELSE slots[p][j]
        BY <1>3, <1>13 DEF TypeOK
    <2>5. Dropped(e, s, k, m, es)
        BY <1>10, <2>2, <2>3, <2>4 DEF Dropped
    <2>6. crc' \in [Obj -> Int] /\ \A o \in Obj : crc'[o] = crc[o] \/ (o = m /\ crc'[m] = crc[m] - 1)
        <3>1. crc \in [Obj -> Int] /\ crc' = [crc EXCEPT ![m] = @ - 1]
            BY <1>3, <1>13, Zenon DEF TypeOK
        <3> QED
            BY ONLY <3>1
    <2>7. \A o \in Obj : crc'[o] = crc[o] \/ (o = m /\ color[m] = "Orange" /\ color[s] = "Red" /\ crc'[m] = crc[m] - 1)
        BY <1>3, <1>13, <2>6
    <2>8. Dropping(e, s, k, m) /\ rc' = [rc EXCEPT ![m] = @ - 1]
        BY <1>9, <1>13
    <2>9. crc' \in [Obj -> Int] /\ slots' \in [Obj -> [Slot -> Obj \union {Null}]] /\ pc = "free"
        BY <1>3, <2>4, <2>6
    <2>10. color[s] = "Red" /\ color[m] = "Orange" => Len(es) = 0
        BY <2>2
    <2>11. IInv' /\ H!Decrement(s, k)
        BY <1>10, <2>5, <2>7, <2>8, <2>9, <2>10, FreeDropped, Zenon
    <2> QED
        BY <2>11, DropIs
<1>14. CASE color[m] \notin {"Red", "Orange"} /\ crc' = crc /\ DropField(s, k)
    <2>1. PICK es : es = IF LastReference(m) THEN DropChildren(m) ELSE <<>>
        OBVIOUS
    <2>2. Push(es)
        BY <1>8, <1>14, <2>1, Zenon DEF DropField
    <2>3. rc' = [rc EXCEPT ![m] = @ - 1] /\ slots' = [slots EXCEPT ![s][k] = Null]
        BY <1>8, <1>14 DEF DropField
    <2>4. Dropped(e, s, k, m, es) /\ slots' \in [Obj -> [Slot -> Obj \union {Null}]]
        BY <1>3, <1>8, <1>10, <2>1, <2>2, <2>3, DropFieldIs
    <2> HIDE <2>1
    <2>5. crc' \in [Obj -> Int] /\ \A o \in Obj : crc'[o] = crc[o]
        BY <1>3, <1>14 DEF TypeOK
    <2>6. Dropping(e, s, k, m) /\ ~(color[m] = "Orange")
        BY <1>9, <1>14
    <2>7. IInv' /\ H!Decrement(s, k)
        BY <1>3, <1>10, <2>3, <2>4, <2>5, <2>6, FreeDropped
    <2> QED
        BY <2>7, DropIs
<1> QED
    BY <1>11, <1>12, <1>13, <1>14

\* What is on top of the stack when s is freed, and what is left of s.
LEMMA FreeTop ==
    ASSUME CollectorAssumption, TypeOK, H!Inv, Releasing, NEW s \in Obj, Free(s)
    PROVE  /\ s \in allocated /\ s \in Condemned /\ handles[s] = 0
           /\ work' \in Seq(Entry)
           /\ Entries' = Entries \ {Do("Free", s)}
           /\ Condemned' = Condemned \ {s}
           /\ \A f \in Entries : f.op # "Free" => f.obj # s
           /\ color[s] = "Red" => \A f \in Entries : f.op \notin {"CycleKids", "CyclicDecrement"}
           /\ (Nested(work) /\ RedLast(work, color))'
<1>1. Popping("Free", s) /\ work # <<>>
    BY DEF Free, Popping
<1>2. Releasing
    OBVIOUS
<1>3. TypeOK /\ H!Inv
    OBVIOUS
<1>4. PICK e : e = Head(work)
    OBVIOUS
<1>5. e \in Entries /\ e.op = "Free" /\ e.obj = s /\ work \in Seq(Entry) /\ Entries = ToSet(work)
    BY <1>1, <1>3, <1>4, HeadIn DEF Popping, TypeOK, Entries
<1>6. s \in allocated /\ s \in Condemned /\ e = Do("Free", s)
    BY <1>2, <1>3, <1>5, ReleaseIs, DueIs
<1>7. Nested(work) /\ RedLast(work, color) /\ \A i, j \in 1 .. Len(work) : work[i] = work[j] => i = j
    BY <1>2 DEF Releasing, Nested
<1>8. /\ \A f \in Entries : f.op # "Free" => f.obj # s
      /\ color[s] = "Red" => \A f \in Entries : f.op \notin {"CycleKids", "CyclicDecrement"}
    BY <1>1, <1>4, <1>5, <1>6, <1>7, NestedTop
<1>9. PICK es : es = <<>>
    OBVIOUS
<1>10. es \in Seq(Entry) /\ Len(es) = 0 /\ ToSet(es) = {} /\ Push(es)
    BY <1>9, NoEntries, Zenon DEF Free
<1> HIDE <1>9
<1>11. work' \in Seq(Entry) /\ IsPush(work', es, work)
    BY <1>1, <1>5, <1>10, PushIs DEF Push
<1>12. Entries' = Entries \ {e}
    <2>1. work # <<>>
        BY <1>1 DEF Popping
    <2>2. ToSet(work') = ToSet(es) \union (ToSet(work) \ {Head(work)})
        BY ONLY <1>5, <1>7, <1>10, <1>11, <2>1, EntriesGone, Zenon
    <2> QED
        BY <1>4, <1>5, <1>10, <2>2 DEF Entries
<1>13. Condemned' = Condemned \ {s}
    <2>1. \A f \in Entries : f.op = "Free" => (f.obj = s <=> f = e)
        BY <1>2, <1>3, <1>5, <1>6, ReleaseIs, DueIs
    <2>2. Condemned = {f.obj : f \in {g \in Entries : g.op = "Free"}}
        BY DEF Condemned
    <2>3. Condemned' = {f.obj : f \in {g \in Entries' : g.op = "Free"}}
        BY DEF Condemned
    <2> QED
        BY <1>12, <2>1, <2>2, <2>3
<1>14. Nested(work') /\ RedLast(work', color)
    <2>1. Distinct(es)
        BY <1>10 DEF Distinct
    <2>2. PICK x : x = work'
        OBVIOUS
    <2>3. x \in Seq(Entry) /\ IsPush(x, es, work)
        BY <1>11, <2>2
    <2>4. \A i \in 1 .. Len(es) : FALSE
        BY <1>10
    <2>5. Nested(work) /\ RedLast(work, color)
        BY <1>7
    <2>6. Nested(x) /\ RedLast(x, color)
        BY ONLY <1>1, <1>5, <1>10, <2>1, <2>3, <2>4, <2>5, NestedPush
    <2> QED
        BY <2>2, <2>6
<1>15. RedLast(work', color')
    <2>1. \A o \in Obj : color'[o] = IF o = s THEN "Black" ELSE color[o]
        BY <1>3 DEF Free, TypeOK
    <2>2. \A i \in 1 .. Len(work') : work'[i].obj \in Obj
        <3>1. \A f \in Entry : f.obj \in Obj
            BY DEF Entry
        <3>2. \A i \in 1 .. Len(work') : work'[i] \in Entry
            BY <1>11
        <3> QED
            BY <3>1, <3>2
    <2> QED
        BY <1>14, <2>1, <2>2 DEF RedLast
<1>16. handles[s] = 0
    BY <1>3, <1>6, HeapIs
<1> QED
    BY <1>2, <1>3, <1>6, <1>8, <1>11, <1>12, <1>13, <1>14, <1>15, <1>16

\* The phases in which objects are freed.
LEMMA FreePop ==
    ASSUME CollectorAssumption, IInv, NEW s \in Obj, Free(s)
    PROVE  /\ pc \in {"sweep", "free"} /\ Releasing /\ TypeOK /\ H!Inv /\ Lists /\ Counted /\ locked = {}
           /\ s \in allocated /\ s \in Condemned /\ handles[s] = 0
           /\ work' \in Seq(Entry)
           /\ Entries' = Entries \ {Do("Free", s)}
           /\ Condemned' = Condemned \ {s}
           /\ \A f \in Entries : f.op # "Free" => f.obj # s
           /\ color[s] = "Red" => \A f \in Entries : f.op \notin {"CycleKids", "CyclicDecrement"}
<1>1. Popping("Free", s)
    BY DEF Free
<1>2. pc \in {"sweep", "free"} /\ Releasing
    BY <1>1, PopPhase
<1>3. TypeOK /\ H!Inv /\ Lists /\ Counted /\ locked = {}
    BY <1>2, ReleaseFrame
<1> QED
    BY <1>2, <1>3, FreeTop

\* What freeing s changes.
Freed(s) ==
    /\ allocated' = allocated \ {s}
    /\ \A o \in Obj : /\ rc'[o] = IF o = s THEN 0 ELSE rc[o]
                      /\ crc'[o] = IF o = s THEN 0 ELSE crc[o]
                      /\ epochRc'[o] = IF o = s THEN 0 ELSE epochRc[o]
                      /\ color'[o] = IF o = s THEN "Black" ELSE color[o]
                      /\ \A j \in Slot : slots'[o][j] = IF o = s THEN Null ELSE slots[o][j]
    /\ mine' = mine \ {s} /\ toSweep' = toSweep \ {s} /\ roots' = roots \ {s}
    /\ freedObjs' = freedObjs \union {s}
    /\ UNCHANGED <<handles, locked, buffered, heapVars, loopVars, cycles>>

\* What Collector::free changes.
LEMMA FreedIs ==
    ASSUME CollectorAssumption, TypeOK, NEW s \in Obj, Free(s), work' \in Seq(Entry)
    PROVE  Freed(s) /\ TypeOK'
<1>1. /\ slots' = [slots EXCEPT ![s] = Empty] /\ rc' = [rc EXCEPT ![s] = 0] /\ crc' = [crc EXCEPT ![s] = 0]
      /\ epochRc' = [epochRc EXCEPT ![s] = 0] /\ color' = [color EXCEPT ![s] = "Black"]
      /\ allocated' = allocated \ {s} /\ mine' = mine \ {s} /\ toSweep' = toSweep \ {s}
      /\ roots' = roots \ {s} /\ freedObjs' = freedObjs \union {s}
      /\ UNCHANGED <<handles, locked, buffered, heapVars, loopVars, cycles>>
    BY DEF Free, SweepWithout
<1>2. Empty \in [Slot -> Obj \union {Null}] /\ \A j \in Slot : Empty[j] = Null
    BY DEF Empty
<1>3. /\ slots' \in [Obj -> [Slot -> Obj \union {Null}]]
      /\ \A o \in Obj : \A j \in Slot : slots'[o][j] = IF o = s THEN Null ELSE slots[o][j]
    BY <1>1, <1>2 DEF TypeOK
<1>4. /\ rc' \in [Obj -> Int] /\ crc' \in [Obj -> Int] /\ epochRc' \in [Obj -> Int]
      /\ \A o \in Obj : /\ rc'[o] = IF o = s THEN 0 ELSE rc[o]
                        /\ crc'[o] = IF o = s THEN 0 ELSE crc[o]
                        /\ epochRc'[o] = IF o = s THEN 0 ELSE epochRc[o]
    BY <1>1 DEF TypeOK
<1>5. color' \in [Obj -> Color] /\ \A o \in Obj : color'[o] = IF o = s THEN "Black" ELSE color[o]
    BY <1>1 DEF TypeOK, Color
<1>6. Freed(s)
    BY <1>1, <1>3, <1>4, <1>5 DEF Freed
<1>7. TypeOK'
    BY <1>1, <1>3, <1>4, <1>5 DEF TypeOK, heapVars, loopVars
<1> QED
    BY <1>6, <1>7

\* It keeps a release going: the entries left are not about s.
LEMMA FreedReleasing ==
    ASSUME CollectorAssumption, TypeOK, H!Inv, Releasing, NEW s \in Obj, Free(s)
    PROVE  Releasing'
<1> USE FreeTop
<1>1. Freed(s) /\ TypeOK'
    BY FreedIs
<1>2. /\ allocated' = allocated \ {s}
      /\ \A o \in Obj : color'[o] = IF o = s THEN "Black" ELSE color[o]
      /\ \A o \in Obj, j \in Slot : slots'[o][j] = IF o = s THEN Null ELSE slots[o][j]
    BY <1>1 DEF Freed
<1>3. Entries' = Entries \ {Do("Free", s)} /\ Condemned' = Condemned \ {s}
    OBVIOUS
<1>4. \A f \in Entries : Due(f) /\ (f.op # "Free" => f.obj # s)
    BY DEF Releasing
<1>5. ASSUME NEW f \in Entries' PROVE Due(f)'
    <2>1. f \in Entries /\ f # Do("Free", s) /\ Due(f)
        BY <1>3, <1>4
    <2>2. CASE \E p \in allocated : f = Do("Free", p)
        BY <1>2, <2>1, <2>2 DEF Due
    <2>3. CASE \E p \in Obj : color[p] = "Red" /\ f = Do("CycleKids", p)
        <3>1. PICK p \in Obj : color[p] = "Red" /\ f = Do("CycleKids", p)
            BY <2>3
        <3>2. p # s
            BY <1>4, <2>1, <3>1 DEF Do
        <3> QED
            BY <1>2, <3>1, <3>2 DEF Due
    <2>4. CASE \E p \in Obj, j \in Slot : slots[p][j] # Null /\ color[p] # "Red" /\ f = DoField("Decrement", p, j)
        <3>1. PICK p \in Obj, j \in Slot : slots[p][j] # Null /\ color[p] # "Red" /\ f = DoField("Decrement", p, j)
            BY <2>4
        <3>2. p # s
            BY <1>4, <2>1, <3>1 DEF DoField
        <3>3. slots'[p][j] # Null /\ color'[p] # "Red"
            BY <1>2, <3>1, <3>2
        <3> QED
            BY <3>1, <3>3 DEF Due
    <2>5. CASE \E p \in Obj, j \in Slot : slots[p][j] # Null /\ color[p] = "Red" /\ f = DoField("CyclicDecrement", p, j)
        <3>1. PICK p \in Obj, j \in Slot : slots[p][j] # Null /\ color[p] = "Red" /\ f = DoField("CyclicDecrement", p, j)
            BY <2>5
        <3>2. p # s
            BY <1>4, <2>1, <3>1 DEF DoField
        <3>3. slots'[p][j] # Null /\ color'[p] = "Red"
            BY <1>2, <3>1, <3>2
        <3> QED
            BY <3>1, <3>3 DEF Due
    <2> QED
        BY <2>1, <2>2, <2>3, <2>4, <2>5 DEF Due
<1>6. Nested(work') /\ RedLast(work', color')
    OBVIOUS
<1>7. ASSUME NEW p \in Obj, NEW j \in Slot, Do("CycleKids", p) \in Entries', DoField("CyclicDecrement", p, j) \in Entries' PROVE FALSE
    BY <1>3, <1>7 DEF Releasing
<1>8. ASSUME NEW p \in Condemned', NEW j \in Slot, color'[p] # "Red", slots'[p][j] # Null
      PROVE  DoField("Decrement", p, j) \in Entries'
    <2>1. p \in Condemned /\ p # s /\ p \in Obj
        BY <1>3, ReleaseIs
    <2>2. DoField("Decrement", p, j) \in Entries
        BY <1>2, <1>8, <2>1 DEF Releasing
    <2>3. DoField("Decrement", p, j).op = "Decrement" /\ Do("Free", s).op = "Free"
        BY DEF Do, DoField
    <2> QED
        BY <1>3, <2>2, <2>3
<1>9. Coloured({"Red"})' \subseteq Condemned'
    <2>1. Coloured({"Red"})' \subseteq Coloured({"Red"}) \ {s}
        BY <1>2 DEF Coloured
    <2> QED
        BY <1>3, <2>1 DEF Releasing
<1> QED
    BY <1>5, <1>6, <1>7, <1>8, <1>9 DEF Releasing

\* The step is a Free of the abstract heap.
LEMMA FreedHeap ==
    ASSUME CollectorAssumption, TypeOK, H!Inv, Releasing, NEW s \in Obj, Free(s)
    PROVE  H!Free(s) /\ H!Inv'
<1> USE FreeTop
<1>1. Freed(s) /\ TypeOK' /\ Releasing'
    BY FreedIs, FreedReleasing
<1>2. /\ allocated' = allocated \ {s} /\ handles' = handles
      /\ \A o \in Obj : color'[o] = IF o = s THEN "Black" ELSE color[o]
      /\ \A o \in Obj, j \in Slot : slots'[o][j] = IF o = s THEN Null ELSE slots[o][j]
      /\ \A o \in Obj : rc'[o] = IF o = s THEN 0 ELSE rc[o]
    BY <1>1 DEF Freed
<1>3. Entries' = Entries \ {Do("Free", s)} /\ Condemned' = Condemned \ {s} /\ s \in Condemned /\ s \in allocated
    OBVIOUS
<1>4. ASSUME NEW p \in Obj, NEW j \in Slot PROVE Held(p, j)' <=> Held(p, j)
    <2>1. Do("CycleKids", p).op = "CycleKids" /\ DoField("CyclicDecrement", p, j).op = "CyclicDecrement" /\ Do("Free", s).op = "Free"
        BY DEF Do, DoField
    <2> QED
        BY <1>3, <2>1 DEF Held
<1>5. ASSUME NEW j \in Slot PROVE SlotsBar[s][j] = Null
    <2>1. SlotsBar[s][j] = Bar(s, j)
        BY ReleaseBar
    <2>2. DoField("Decrement", s, j) \notin Entries /\ ~Held(s, j)
        <3>1. DoField("Decrement", s, j).op = "Decrement" /\ DoField("Decrement", s, j).obj = s
            BY DEF DoField
        <3>2. DoField("CyclicDecrement", s, j).op = "CyclicDecrement" /\ DoField("CyclicDecrement", s, j).obj = s
            BY DEF DoField
        <3>3. Do("CycleKids", s).op = "CycleKids" /\ Do("CycleKids", s).obj = s
            BY DEF Do
        <3>4. \A f \in Entries : f.op # "Free" => f.obj # s
            OBVIOUS
        <3> QED
            BY <3>1, <3>2, <3>3, <3>4 DEF Held
    <2>3. color[s] # "Red" => slots[s][j] = Null
        BY <1>3, <2>2 DEF Releasing
    <2> QED
        BY <2>1, <2>2, <2>3 DEF Bar
<1>6. ASSUME NEW p \in Obj, NEW j \in Slot PROVE SlotsBar'[p][j] = SlotsBar[p][j]
    <2>1. SlotsBar'[p][j] = Bar(p, j)' /\ SlotsBar[p][j] = Bar(p, j)
        BY <1>1, ReleaseBar, ReleaseBarNext
    <2>2. CASE p = s
        <3>1. color'[s] = "Black" /\ slots'[s][j] = Null
            BY <1>2
        <3> QED
            BY <1>5, <2>1, <2>2, <3>1 DEF Bar
    <2>3. CASE p # s
        <3>1. slots'[p][j] = slots[p][j] /\ color'[p] = color[p]
            BY <1>2, <2>3
        <3>2. slots[p][j] # Null => slots[p][j] \in Obj
            BY DEF TypeOK
        <3>3. CASE slots[p][j] = s /\ color[p] = "Red"
            <4>1. Bar(p, j) # s
                BY <1>3, <2>1, HeapIs
            <4>2. ~(Held(p, j) /\ color[s] # "Red")
                BY <3>2, <3>3, <4>1 DEF Bar, CollectorAssumption
            <4>3. color[s] = "Red" => ~Held(p, j)
                <5>1. Do("CycleKids", p).op = "CycleKids" /\ DoField("CyclicDecrement", p, j).op = "CyclicDecrement"
                    BY DEF Do, DoField
                <5> QED
                    BY <5>1 DEF Held
            <4>4. ~Held(p, j)
                BY <4>2, <4>3
            <4> QED
                BY <1>4, <2>1, <3>1, <3>3, <4>4 DEF Bar
        <3>4. CASE slots[p][j] # s
            <4>1. slots[p][j] # Null => color'[slots[p][j]] = color[slots[p][j]]
                BY <1>2, <3>2, <3>4
            <4>2. Bar(p, j)' = Bar(p, j)
                BY <1>4, <3>1, <4>1 DEF Bar
            <4> QED
                BY <2>1, <4>2
        <3>5. CASE color[p] # "Red"
            BY <2>1, <3>1, <3>5 DEF Bar
        <3> QED
            BY <3>3, <3>4, <3>5
    <2> QED
        BY <2>2, <2>3
<1>7. SlotsBar' = SlotsBar
    <2>1. ASSUME NEW p \in Obj PROVE [j \in Slot |-> SlotsBar'[p][j]] = [j \in Slot |-> SlotsBar[p][j]]
        BY <1>6
    <2>2. SlotsBar' = [p \in Obj |-> [j \in Slot |-> SlotsBar'[p][j]]]
        BY DEF SlotsBar
    <2>3. SlotsBar = [p \in Obj |-> [j \in Slot |-> SlotsBar[p][j]]]
        BY DEF SlotsBar
    <2> QED
        BY <2>1, <2>2, <2>3
<1>8. SlotsBar[s] = H!Empty
    <2>1. SlotsBar[s] = [j \in Slot |-> SlotsBar[s][j]]
        BY DEF SlotsBar
    <2>2. [j \in Slot |-> SlotsBar[s][j]] = [j \in Slot |-> Null]
        BY <1>5
    <2> QED
        BY <2>1, <2>2 DEF H!Empty
<1>9. StatusBar[s] = "dying" /\ StatusBar' = [StatusBar EXCEPT ![s] = "free"]
    <2>1. \A o \in Obj : StatusBar[o] = IF o \notin allocated THEN "free" ELSE IF o \in Condemned THEN "dying" ELSE "live"
        BY DEF StatusBar
    <2>2. \A o \in Obj : StatusBar'[o] = IF o \notin allocated' THEN "free" ELSE IF o \in Condemned' THEN "dying" ELSE "live"
        BY DEF StatusBar
    <2>3. StatusBar \in [Obj -> {"free", "dying", "live"}] /\ StatusBar' \in [Obj -> {"free", "dying", "live"}]
        BY DEF StatusBar
    <2>4. \A o \in Obj : StatusBar'[o] = IF o = s THEN "free" ELSE StatusBar[o]
        BY <1>2, <1>3, <2>1, <2>2
    <2> QED
        BY <1>3, <2>1, <2>3, <2>4
<1>10. rc' = [rc EXCEPT ![s] = 0]
    BY DEF Free
<1>11. H!Free(s)
    BY <1>2, <1>7, <1>8, <1>9, <1>10 DEF H!Free
<1>12. H!Inv'
    <2>1. H!Next
        BY <1>11 DEF H!Next
    <2> QED
        BY <2>1, HeapStep
<1> QED
    BY <1>11, <1>12

\* What freeing keeps in either phase.
LEMMA FreedFrame ==
    ASSUME CollectorAssumption, IInv, NEW s \in Obj, Free(s)
    PROVE  TypeOK' /\ H!Inv' /\ Quiet' /\ Lists' /\ Counted' /\ Releasing' /\ Freed(s)
<1> USE FreePop
<1>1. Freed(s) /\ TypeOK' /\ Releasing' /\ H!Inv'
    BY FreedIs, FreedReleasing, FreedHeap
<1>2. /\ allocated' = allocated \ {s}
      /\ \A o \in Obj : /\ rc'[o] = IF o = s THEN 0 ELSE rc[o]
                        /\ epochRc'[o] = IF o = s THEN 0 ELSE epochRc[o]
                        /\ color'[o] = IF o = s THEN "Black" ELSE color[o]
      /\ mine' = mine \ {s} /\ toSweep' = toSweep \ {s} /\ roots' = roots \ {s}
      /\ freedObjs' = freedObjs \union {s}
      /\ UNCHANGED <<handles, locked, buffered, heapVars, loopVars, cycles>>
    BY <1>1 DEF Freed
<1>3. pc' = pc /\ fresh' = fresh /\ iter' = iter /\ taken' = taken
    BY <1>2 DEF heapVars, loopVars
<1>4. Quiet'
    BY <1>2 DEF Quiet
<1>5. Lists'
    <2>1. fresh = {} /\ mine = allocated /\ iter = {} /\ roots \subseteq allocated /\ freedObjs \intersect allocated = {}
        BY DEF Lists
    <2>2. \A o \in Obj \ allocated' : color'[o] = "Black"
        BY <1>2 DEF Lists
    <2>3. /\ pc # "sweep" => toSweep = {}
          /\ pc \notin {"free", "sigma"} => taken = <<>>
          /\ pc \in {"free", "mark", "scan"} => cycles = <<>>
        BY DEF Lists
    <2>4. fresh' = {} /\ mine' = allocated' /\ iter' = {} /\ roots' \subseteq allocated' /\ freedObjs' \intersect allocated' = {}
        BY <1>2, <1>3, <2>1
    <2>5. /\ pc' # "sweep" => toSweep' = {}
          /\ pc' \notin {"free", "sigma"} => taken' = <<>>
          /\ pc' \in {"free", "mark", "scan"} => cycles' = <<>>
        BY <1>2, <1>3, <2>3
    <2>6. pc' \in {"sweep", "free"}
        BY <1>3
    <2> QED
        BY <2>2, <2>4, <2>5, <2>6 DEF Lists
<1>6. Counted'
    <2>1. SUFFICES ASSUME NEW o \in allocated', o \notin toSweep', o \notin Condemned' PROVE rc'[o] <= epochRc'[o]
        BY DEF Counted
    <2>2. o \in allocated /\ o # s /\ o \in Obj /\ o \notin toSweep /\ o \notin Condemned
        BY <1>2, <2>1 DEF TypeOK
    <2>3. rc[o] <= epochRc[o]
        BY <2>2 DEF Counted
    <2> QED
        BY <1>2, <2>2, <2>3
<1> QED
    BY <1>1, <1>4, <1>5, <1>6

\* An object freed in the sweep may have been parked: freed_objs remembers it.
LEMMA SweepFreed ==
    ASSUME CollectorAssumption, IInv, NEW s \in Obj, Free(s), pc = "sweep"
    PROVE  IInv'
<1> USE SweepFrame, FreePop
<1>1. TypeOK' /\ H!Inv' /\ Quiet' /\ Lists' /\ Counted' /\ Releasing' /\ Freed(s)
    BY FreedFrame
<1>2. /\ allocated' = allocated \ {s}
      /\ \A o \in Obj : /\ rc'[o] = IF o = s THEN 0 ELSE rc[o]
                        /\ crc'[o] = IF o = s THEN 0 ELSE crc[o]
                        /\ epochRc'[o] = IF o = s THEN 0 ELSE epochRc[o]
                        /\ color'[o] = IF o = s THEN "Black" ELSE color[o]
      /\ \A o \in Obj, j \in Slot : slots'[o][j] = IF o = s THEN Null ELSE slots[o][j]
      /\ roots' = roots \ {s}
      /\ freedObjs' = freedObjs \union {s}
      /\ handles' = handles /\ cycles' = cycles /\ pc' = pc
    BY <1>1 DEF Freed, loopVars
<1>3. Null \notin Obj
    BY DEF CollectorAssumption
<1>4. \A p \in Obj, j \in Slot : slots'[p][j] \in Parked(cycles) => slots'[p][j] = slots[p][j]
    BY <1>2, <1>3
<1>5. \A o \in Parked(cycles) : handles'[o] = 0
    BY <1>2 DEF Resting, Closed
<1>6. ASSUME NEW p \in Obj, NEW j \in Slot PROVE slots'[p][j] # s
    <2>1. SlotsBar[p][j] # s
        BY HeapIs
    <2>2. SlotsBar[p][j] = slots[p][j]
        BY ReleaseBar DEF Bar
    <2> QED
        BY <1>2, <1>3, <2>1, <2>2
<1>7. \A o \in Parked(cycles) :
          crc'[o] = crc[o] \/ (crc'[o] = 0 /\ \A p \in Obj, j \in Slot : slots'[p][j] # o)
    BY <1>2, <1>6
<1>8. Parked(cycles) \subseteq allocated' \union freedObjs'
    BY <1>2 DEF Resting
<1>9. ASSUME NEW o \in Parked(cycles) \intersect allocated'
      PROVE  color'[o] = "Orange" /\ (o \notin Condemned' => rc'[o] <= epochRc'[o])
    <2>1. o \in Obj /\ o # s /\ color[o] = "Orange" /\ (o \notin Condemned => rc[o] <= epochRc[o])
        BY <1>2 DEF Resting
    <2> QED
        BY <1>2, <2>1
<1>10. \A o \in Obj : color'[o] = "Orange" => o \in Parked(cycles)
    BY <1>2
<1>11. Resting'
    BY <1>1, <1>2, <1>4, <1>5, <1>7, <1>8, <1>9, <1>10, RestKept
<1>12. Sweeping'
    <2>1. Coloured({"Black", "Orange", "Purple"})' = Obj
        BY <1>2 DEF Coloured
    <2>2. Coloured({"Purple"})' \subseteq roots'
        BY <1>2 DEF Coloured
    <2> QED
        BY <1>1, <1>11, <2>1, <2>2 DEF Sweeping
<1> QED
    BY <1>1, <1>2, <1>12, SweepIs

\* An object freed while cycles are freed is in none of the cycles left.
LEMMA FreeFreed ==
    ASSUME CollectorAssumption, IInv, NEW s \in Obj, Free(s), pc = "free"
    PROVE  IInv'
<1> USE FreePop
<1>1. TypeOK' /\ H!Inv' /\ Quiet' /\ Lists' /\ Counted' /\ Releasing' /\ Freed(s)
    BY FreedFrame
<1>2. /\ \A o \in Obj : /\ crc'[o] = IF o = s THEN 0 ELSE crc[o]
                        /\ color'[o] = IF o = s THEN "Black" ELSE color[o]
      /\ \A o \in Obj, j \in Slot : slots'[o][j] = IF o = s THEN Null ELSE slots[o][j]
      /\ roots' = roots \ {s}
      /\ handles' = handles /\ taken' = taken /\ pc' = pc
    BY <1>1 DEF Freed, loopVars
<1>3. Null \notin Obj
    BY DEF CollectorAssumption
<1>4. Freeing
    BY ReleaseFrame
<1>5. PICK W \in SUBSET Obj : Lost(W)
    BY <1>4 DEF Freeing
<1>6. taken \in Seq(Seq(Obj)) /\ Parked(taken) = Coloured({"Orange"})
    BY <1>4 DEF Freeing, TypeOK
<1>7. color[s] # "Orange"
    <2>1. Coloured({"Orange", "Red"}) \subseteq W /\ Condemned \intersect W \subseteq Coloured({"Red"})
        BY <1>5 DEF Lost
    <2> QED
        BY <2>1 DEF Coloured
<1>8. ASSUME NEW i \in 1 .. Len(taken), NEW o \in Members(taken[i])
      PROVE  Cardinality(From(slots', Obj \ Members(taken[i]), o)) <= crc'[o]
    <2>1. o \in Obj /\ color[o] = "Orange"
        BY <1>6, ParkedIn DEF Coloured
    <2>2. PICK S : S = Obj \ Members(taken[i])
        OBVIOUS
    <2>3. Cardinality(From(slots, S, o)) <= crc[o]
        BY <1>4, <2>2 DEF Freeing, Covers
    <2>4. From(slots', S, o) \subseteq From(slots, S, o)
        <3>1. SUFFICES ASSUME NEW f \in Obj \X Slot, slots'[f[1]][f[2]] = o PROVE slots[f[1]][f[2]] = o
            BY ONLY <3>1 DEF From
        <3>2. f[1] \in Obj /\ f[2] \in Slot
            BY ONLY f \in Obj \X Slot
        <3> QED
            BY <1>2, <1>3, <2>1, <3>1, <3>2
    <2>5. Cardinality(From(slots', S, o)) <= Cardinality(From(slots, S, o))
        BY <2>4, FromLess
    <2>6. Cardinality(From(slots', S, o)) \in Nat /\ Cardinality(From(slots, S, o)) \in Nat /\ crc[o] \in Int
        BY <2>1, FromIs DEF TypeOK
    <2>7. crc'[o] = crc[o]
        BY <1>2, <1>7, <2>1
    <2> QED
        BY ONLY <2>2, <2>3, <2>5, <2>6, <2>7
<1>9. \A i \in 1 .. Len(taken) : Covers(taken[i])'
    BY <1>2, <1>8 DEF Covers
<1>10. PICK V \in SUBSET Obj : V = W \ {s}
    OBVIOUS
<1>11. Closed(V)'
    <2>1. Closed(W)
        BY <1>5 DEF Lost
    <2>2. ASSUME NEW o \in V, NEW p \in Obj, NEW j \in Slot, slots'[p][j] = o PROVE p \in V
        <3>1. p # s /\ slots[p][j] = o /\ o \in W
            BY <1>2, <1>3, <1>10, <2>2
        <3> QED
            BY <1>10, <2>1, <3>1 DEF Closed
    <2>3. \A o \in V : handles'[o] = 0
        BY <1>2, <1>10, <2>1 DEF Closed
    <2> QED
        BY <2>2, <2>3 DEF Closed
<1>12. Ordered(taken, V)'
    <2>1. SUFFICES ASSUME NEW i \in 1 .. Len(taken), NEW p \in Members(taken[i]), NEW j \in Slot, slots'[p][j] \in V
                   PROVE  \E n \in 1 .. i : slots'[p][j] \in Members(taken[n])
        BY <1>2 DEF Ordered
    <2>2. p \in Obj
        BY <1>6, ParkedIn
    <2>3. slots'[p][j] = slots[p][j] /\ slots'[p][j] \in W
        BY <1>2, <1>3, <1>10, <2>1, <2>2
    <2> QED
        BY <1>5, <2>1, <2>3 DEF Lost, Ordered
<1>14. /\ Coloured({"Red"})' = Coloured({"Red"}) \ {s}
       /\ Coloured({"Orange", "Red"})' = Coloured({"Orange", "Red"}) \ {s}
       /\ Coloured({"Purple"})' = Coloured({"Purple"}) \ {s}
       /\ Coloured({"Orange"})' = Coloured({"Orange"})
    <2>2. Coloured({"Red"})' = Coloured({"Red"}) \ {s} /\ Coloured({"Purple"})' = Coloured({"Purple"}) \ {s}
        BY <1>2 DEF Coloured
    <2>3. Coloured({"Orange", "Red"})' = Coloured({"Orange", "Red"}) \ {s}
        BY <1>2 DEF Coloured
    <2>4. Coloured({"Orange"})' = Coloured({"Orange"})
        BY <1>2, <1>7 DEF Coloured
    <2> QED
        BY ONLY <2>2, <2>3, <2>4
<1>15. ASSUME NEW o \in Coloured({"Red"})'
       PROVE  Kids(slots', o) \intersect V \subseteq Coloured({"Orange", "Red"})'
    <2>1. o \in Obj /\ o \in Coloured({"Red"})
        BY <1>14 DEF Coloured
    <2>2. Kids(slots', o) \subseteq Kids(slots, o)
        BY <1>2, <2>1 DEF Kids
    <2>3. Kids(slots, o) \intersect W \subseteq Coloured({"Orange", "Red"})
        BY <1>5, <2>1 DEF Lost
    <2> QED
        BY <1>10, <1>14, <2>2, <2>3
<1>16. Lost(V)'
    <2>1. Coloured({"Orange", "Red"}) \subseteq W /\ Condemned \intersect W \subseteq Coloured({"Red"})
        BY <1>5 DEF Lost
    <2>2. Condemned' = Condemned \ {s}
        OBVIOUS
    <2>3. Coloured({"Orange", "Red"})' \subseteq V /\ Condemned' \intersect V \subseteq Coloured({"Red"})'
        BY <1>10, <1>14, <2>1, <2>2
    <2> QED
        BY <1>11, <1>12, <1>15, <2>3 DEF Lost
<1>17. Freeing'
    <2>1. Simple(taken)' /\ Parked(taken)' = Parked(taken)
        BY <1>2, <1>4 DEF Freeing, Simple, Parked, Members
    <2>2. Coloured({"Black", "Orange", "Purple", "Red"})' = Obj
        <3>1. Coloured({"Black", "Orange", "Purple", "Red"}) = Obj
            BY <1>4 DEF Freeing
        <3> QED
            BY <1>2, <3>1 DEF Coloured
    <2>3. Coloured({"Purple"})' \subseteq roots'
        BY <1>2, <1>4, <1>14 DEF Freeing
    <2> QED
        BY <1>1, <1>2, <1>6, <1>9, <1>14, <1>16, <2>1, <2>2, <2>3 DEF Freeing
<1> QED
    BY <1>1, <1>2, <1>17, FreeIs

\* Free, in the sweep or while cycles are freed, is a step of the heap.
LEMMA FreeStep ==
    ASSUME CollectorAssumption, IInv, NEW s \in Obj, Free(s)
    PROVE  IInv' /\ [H!Next]_H!vars
<1>1. IInv'
    <2>1. pc \in {"sweep", "free"}
        BY FreePop
    <2> QED
        BY <2>1, SweepFreed, FreeFreed
<1>2. H!Next
    <2>1. H!Free(s)
        BY FreePop, FreedHeap
    <2> QED
        BY <2>1 DEF H!Next
<1> QED
    BY <1>1, <1>2

\* What holds when the sweep comes to an object.
LEMMA SweepObject ==
    ASSUME CollectorAssumption, IInv, NEW o \in Obj, Sweep(o)
    PROVE  /\ pc = "sweep" /\ work = <<>> /\ Condemned = {} /\ Entries = {}
           /\ o \in toSweep /\ o \in allocated /\ roots \subseteq allocated
           /\ toSweep' = toSweep \ {o} /\ buffered' = [buffered EXCEPT ![o] = FALSE]
           /\ UNCHANGED <<mutVars, crc, heapVars, loopVars, mine, cycles, freedObjs>>
           /\ toSweep' \subseteq toSweep /\ buffered' \in [Obj -> BOOLEAN]
<1>1. pc = "sweep" /\ work = <<>> /\ o \in toSweep
    BY DEF Sweep, At
<1>2. Condemned = {} /\ Entries = {}
    BY <1>1, EmptyIsCalm
<1>3. o \in allocated /\ roots \subseteq allocated
    BY <1>1, SweepFrame DEF TypeOK
<1>4. toSweep' = toSweep \ {o} /\ buffered' = [buffered EXCEPT ![o] = FALSE]
      /\ UNCHANGED <<mutVars, crc, heapVars, loopVars, mine, cycles, freedObjs>>
    BY DEF Sweep
<1>5. buffered' \in [Obj -> BOOLEAN]
    BY <1>1, <1>4, SweepFrame DEF TypeOK
<1> QED
    BY <1>1, <1>2, <1>3, <1>4, <1>5

\* The count of o has grown since the last epoch.
LEMMA SweepGrown ==
    ASSUME CollectorAssumption, IInv, NEW o \in Obj, Sweep(o), rc[o] > epochRc[o],
           epochRc' = [epochRc EXCEPT ![o] = rc[o]], work' = <<Do("ScanBlack", o)>>, UNCHANGED <<color, roots>>
    PROVE  IInv' /\ UNCHANGED H!vars
<1> USE SweepFrame, SweepObject
<1>1. "ScanBlack" \in Op
    BY DEF Op
<1>2. work' \in Seq(Entry) /\ ToSet(work') = {Do("ScanBlack", o)}
    BY <1>1, OneEntry, Zenon
<1>3. Plain({"ScanBlack"})' /\ Doing("ScanBlack")' = {o}
    <2>1. Entries' = {Do("ScanBlack", o)} /\ allocated' = allocated
        BY <1>2 DEF Entries, mutVars
    <2>2. Plain({"ScanBlack"})'
        BY <2>1 DEF Plain
    <2>3. \A x : Do("ScanBlack", x).obj = x
        BY DEF Do
    <2> QED
        BY <2>1, <2>2, <2>3 DEF Doing
<1>4. o \notin Parked(cycles)
    <2>1. ASSUME o \in Parked(cycles) PROVE rc[o] <= epochRc[o]
        BY <2>1 DEF Resting
    <2>2. rc[o] \in Int /\ epochRc[o] \in Int
        BY DEF TypeOK
    <2> QED
        BY <2>1, <2>2
<1>5. epochRc' \in [Obj -> Int] /\ \A x \in Obj : epochRc'[x] = IF x = o THEN rc[o] ELSE epochRc[x]
    BY DEF TypeOK
<1>6. \A x \in allocated : epochRc'[x] = epochRc[x] \/ epochRc'[x] = rc[x]
    BY <1>5 DEF TypeOK
<1>7. \A x \in toSweep : x \in toSweep' \/ rc[x] <= epochRc'[x]
    BY <1>5 DEF TypeOK
<1>8. color' \in [Obj -> {"Black", "Orange", "Purple"}]
    BY DEF TypeOK
<1>9. Doing("ScanBlack")' \intersect Parked(cycles) = {}
    BY <1>3, <1>4
<1>10. /\ \A x \in Obj : color'[x] = "Orange" <=> color[x] = "Orange"
       /\ \A x \in Obj : color'[x] = "Purple" => x \in roots'
       /\ roots \subseteq roots' /\ roots' \subseteq allocated
    OBVIOUS
<1>11. /\ pc = "sweep" /\ Condemned = {} /\ toSweep' \subseteq toSweep /\ buffered' \in [Obj -> BOOLEAN]
       /\ UNCHANGED <<mutVars, crc, heapVars, loopVars, mine, cycles, freedObjs>>
    OBVIOUS
<1> QED
    BY ONLY CollectorAssumption, IInv, <1>2, <1>3, <1>5, <1>6, <1>7, <1>8, <1>9, <1>10, <1>11, CalmSweep

\* It has not, so o becomes a root.
LEMMA SweepRoot ==
    ASSUME CollectorAssumption, IInv, NEW o \in Obj, Sweep(o), rc[o] <= epochRc[o],
           epochRc' = [epochRc EXCEPT ![o] = rc[o]], work' = <<>>,
           IF color[o] = "Black"
             THEN color' = [color EXCEPT ![o] = "Purple"] /\ roots' = roots \union {o}
             ELSE UNCHANGED <<color, roots>>
    PROVE  IInv' /\ UNCHANGED H!vars
<1> USE SweepFrame, SweepObject
<1>2. work' \in Seq(Entry) /\ ToSet(work') = {}
    BY NoEntries, Zenon
<1>3. Plain({"ScanBlack"})' /\ Doing("ScanBlack")' \intersect Parked(cycles) = {}
    BY <1>2 DEF Entries, Plain, Doing
<1>5. epochRc' \in [Obj -> Int] /\ \A x \in Obj : epochRc'[x] = IF x = o THEN rc[o] ELSE epochRc[x]
    BY DEF TypeOK
<1>6. \A x \in allocated : epochRc'[x] = epochRc[x] \/ epochRc'[x] = rc[x]
    BY <1>5 DEF TypeOK
<1>7. \A x \in toSweep : x \in toSweep' \/ rc[x] <= epochRc'[x]
    BY <1>5 DEF TypeOK
<1>8. /\ color' \in [Obj -> {"Black", "Orange", "Purple"}]
      /\ \A x \in Obj : color'[x] = "Orange" <=> color[x] = "Orange"
      /\ \A x \in Obj : color'[x] = "Purple" => x \in roots'
      /\ roots \subseteq roots' /\ roots' \subseteq allocated
    <2>1. color \in [Obj -> {"Black", "Orange", "Purple"}]
        BY DEF TypeOK
    <2>2. CASE color[o] = "Black"
        <3>1. color' = [color EXCEPT ![o] = "Purple"] /\ roots' = roots \union {o}
            BY <2>2
        <3> QED
            BY <2>1, <2>2, <3>1
    <2>3. CASE color[o] # "Black"
        BY <2>1, <2>3
    <2> QED
        BY <2>2, <2>3
<1>11. /\ pc = "sweep" /\ Condemned = {} /\ toSweep' \subseteq toSweep /\ buffered' \in [Obj -> BOOLEAN]
       /\ UNCHANGED <<mutVars, crc, heapVars, loopVars, mine, cycles, freedObjs>>
    OBVIOUS
<1> QED
    BY ONLY CollectorAssumption, IInv, <1>2, <1>3, <1>5, <1>6, <1>7, <1>8, <1>11, CalmSweep

\* Nothing refers to o: it is condemned.
LEMMA DeadIs ==
    ASSUME CollectorAssumption, TypeOK, H!Inv, Condemned = {}, NEW o \in allocated, rc[o] = 0,
           \A p \in locked : handles[p] > 0, Coloured({"Red"}) = {},
           work' = DropChildren(o), UNCHANGED <<mutVars, color>>
    PROVE  /\ work' \in Seq(Entry) /\ Condemned' = {o}
           /\ Releasing' /\ SlotsBar' = slots
           /\ H!Condemn({o}) /\ H!Inv'
<1>1. o \in Obj /\ \A x \in Obj : color[x] # "Red"
    BY DEF Coloured, TypeOK
<1>2. handles[o] = 0 /\ \A p \in Obj, k \in Slot : slots[p][k] # o
    <2>1. /\ rc[o] = handles[o] + Cardinality(From(slots, Obj, o))
        BY CalmHeap
    <2>2. Cardinality(From(slots, Obj, o)) \in Nat /\ (Cardinality(From(slots, Obj, o)) = 0 => From(slots, Obj, o) = {})
        BY FromIs
    <2>3. handles[o] \in Nat
        BY DEF TypeOK
    <2>4. handles[o] = 0 /\ From(slots, Obj, o) = {}
        BY <2>1, <2>2, <2>3
    <2>5. ASSUME NEW p \in Obj, NEW k \in Slot, slots[p][k] = o PROVE FALSE
        <3>1. <<p, k>> \in From(slots, Obj, o)
            BY <2>5 DEF From
        <3> QED
            BY <2>4, <3>1
    <2> QED
        BY <2>4, <2>5
<1>3. DropList(work', o)
    <2>1. DropList(DropChildren(o), o)
        <3>1. o \notin locked
            BY <1>2 DEF TypeOK
        <3> QED
            BY <1>1, <3>1, DropChildrenIs
    <2> QED
        BY <2>1, Zenon
<1>4. UNCHANGED <<allocated, rc, handles, slots, color>>
    BY DEF mutVars
<1>5. work' \in Seq(Entry) /\ Entries' = {work'[i] : i \in 1 .. Len(work')}
    BY <1>3, ToSetIs DEF DropList, Entries
<1>6. /\ \A e \in Entries' : e = Do("Free", o) \/ \E k \in Slot : slots[o][k] # Null /\ e = DoField("Decrement", o, k)
      /\ Do("Free", o) \in Entries'
      /\ \A k \in Slot : slots[o][k] # Null => DoField("Decrement", o, k) \in Entries'
    <2>1. \A i \in 1 .. Len(work') : work'[i] = Do("Free", o) \/ \E k \in Slot : slots[o][k] # Null /\ work'[i] = DoField("Decrement", o, k)
        BY <1>3 DEF DropList
    <2>2. Do("Free", o) \in Entries'
        <3>1. Len(work') \in 1 .. Len(work') /\ work'[Len(work')] = Do("Free", o)
            BY <1>3 DEF DropList
        <3> QED
            BY <1>5, <3>1
    <2>3. \A k \in Slot : slots[o][k] # Null => DoField("Decrement", o, k) \in Entries'
        BY <1>3 DEF DropList, Entries
    <2> QED
        BY <1>5, <2>1, <2>2, <2>3
<1>7. \A e \in Entries' : e.obj = o /\ e.op \in {"Free", "Decrement"}
    BY <1>6 DEF Do, DoField
<1>8. Condemned' = {o}
    <2>1. Condemned' \subseteq {o}
        BY <1>7 DEF Condemned
    <2>2. Do("Free", o).op = "Free" /\ Do("Free", o).obj = o
        BY DEF Do
    <2>3. o \in Condemned'
        BY <1>6, <2>2 DEF Condemned
    <2> QED
        BY <2>1, <2>3
<1>9. Releasing'
    <2>1. ASSUME NEW e \in Entries' PROVE Due(e)'
        <3>1. CASE e = Do("Free", o)
            BY <1>4, <3>1 DEF Due
        <3>2. CASE \E k \in Slot : slots[o][k] # Null /\ e = DoField("Decrement", o, k)
            <4>1. color'[o] # "Red"
                BY <1>1, <1>4
            <4> QED
                BY <1>1, <1>4, <3>2, <4>1 DEF Due
        <3> QED
            BY <1>6, <3>1, <3>2
    <2>2. Nested(work') /\ RedLast(work', color')
        BY <1>3, DropNested
    <2>3. \A p \in Obj, k \in Slot : Do("CycleKids", p) \notin Entries'
        <3>1. \A p : Do("CycleKids", p).op = "CycleKids"
            BY DEF Do
        <3> QED
            BY <1>7, <3>1
    <2>4. \A p \in Condemned', k \in Slot : slots'[p][k] # Null => DoField("Decrement", p, k) \in Entries'
        BY <1>4, <1>6, <1>8
    <2>5. Coloured({"Red"})' = {}
        BY <1>4 DEF Coloured
    <2> QED
        BY <2>1, <2>2, <2>3, <2>4, <2>5 DEF Releasing
<1>10. SlotsBar = slots /\ SlotsBar' = slots
    <2>1. SlotsBar = slots
        BY CalmBars
    <2>2. ASSUME NEW p \in Obj, NEW k \in Slot PROVE SlotsBar'[p][k] = slots[p][k]
        <3>1. color'[p] # "Red"
            BY <1>1, <1>4
        <3>2. SlotsBar'[p][k] = Bar(p, k)'
            BY <1>9, ReleaseBarNext
        <3> QED
            BY <1>4, <3>1, <3>2 DEF Bar
    <2>3. SlotsBar' = [p \in Obj |-> [k \in Slot |-> SlotsBar'[p][k]]]
        BY DEF SlotsBar
    <2>4. slots = [p \in Obj |-> [k \in Slot |-> slots[p][k]]]
        BY DEF TypeOK
    <2> QED
        BY <2>1, <2>2, <2>3, <2>4
<1>11. H!Condemn({o})
    <2>1. StatusBar[o] = "live" /\ StatusBar' = [x \in Obj |-> IF x \in {o} THEN "dying" ELSE StatusBar[x]]
        BY <1>1, <1>4, <1>8 DEF StatusBar
    <2>2. H!Garbage({o})
        <3>1. H!RefsTo(SlotsBar, o) = {}
            BY <1>2, <1>10 DEF H!RefsTo
        <3> QED
            BY <1>2, <3>1 DEF H!Garbage
    <2>3. SlotsBar' = [p \in Obj |-> [k \in Slot |-> IF p \in {o} /\ SlotsBar[p][k] \in {o} THEN Null ELSE SlotsBar[p][k]]]
        <3>1. \A p \in Obj, k \in Slot : ~(p \in {o} /\ SlotsBar[p][k] \in {o})
            BY <1>2, <1>10
        <3>2. SlotsBar = [p \in Obj |-> [k \in Slot |-> SlotsBar[p][k]]]
            BY <1>10 DEF TypeOK
        <3>3. SlotsBar' = SlotsBar
            BY <1>10
        <3> QED
            BY <3>1, <3>2, <3>3
    <2> QED
        BY <1>4, <2>1, <2>2, <2>3 DEF H!Condemn
<1>12. H!Inv'
    <2>1. {o} \in SUBSET Obj /\ {o} # {}
        BY <1>1
    <2>2. H!Next
        BY <1>11, <2>1 DEF H!Next
    <2> QED
        BY <2>2, HeapStep
<1> QED
    BY <1>5, <1>8, <1>9, <1>10, <1>11, <1>12

\* The sweep comes to such an object.
LEMMA SweepDead ==
    ASSUME CollectorAssumption, IInv, NEW o \in Obj, Sweep(o), rc[o] = 0,
           work' = DropChildren(o), UNCHANGED <<epochRc, color, roots>>
    PROVE  IInv' /\ H!Condemn({o})
<1> USE SweepFrame, SweepObject
<1>2. UNCHANGED <<allocated, rc, handles, slots, locked, pc, iter, taken, fresh, newAllocs, force, waiting,
                  crc, mine, cycles, freedObjs, epochRc, color, roots>>
    BY DEF mutVars, heapVars, loopVars
<1>8. work' \in Seq(Entry) /\ Condemned' = {o} /\ Releasing' /\ H!Condemn({o}) /\ H!Inv'
    <2>1. Coloured({"Red"}) = {}
        BY DEF Coloured
    <2>2. \A p \in locked : handles[p] > 0
        OBVIOUS
    <2> QED
        BY <1>2, <2>1, <2>2, DeadIs DEF mutVars
<1>4. TypeOK'
    <2>1. toSweep' \subseteq mine'
        BY <1>2 DEF TypeOK
    <2> QED
        BY <1>2, <1>8, <2>1 DEF TypeOK
<1>13. Quiet' /\ Lists'
    <2>1. Quiet'
        BY <1>2 DEF Quiet
    <2>2. Lists'
        BY <1>2 DEF Lists
    <2> QED
        BY <2>1, <2>2
<1>14. Counted'
    <2>1. SUFFICES ASSUME NEW x \in allocated, x \notin toSweep', x \notin Condemned' PROVE rc[x] <= epochRc[x]
        BY <1>2 DEF Counted
    <2>2. x \notin toSweep
        BY <1>8, <2>1
    <2> QED
        BY <2>1, <2>2 DEF Counted
<1>15. Resting'
    <2>1. \A p \in Obj, k \in Slot : slots'[p][k] \in Parked(cycles) => slots'[p][k] = slots[p][k]
        BY <1>2
    <2>2. \A x \in Parked(cycles) : handles'[x] = 0 /\ crc'[x] = crc[x]
        BY <1>2 DEF Resting, Closed
    <2>3. Parked(cycles) \subseteq allocated' \union freedObjs'
        BY <1>2 DEF Resting
    <2>4. \A x \in Parked(cycles) \intersect allocated' :
              color'[x] = "Orange" /\ (x \notin Condemned' => rc'[x] <= epochRc'[x])
        BY <1>2 DEF Resting
    <2>5. \A x \in Obj : color'[x] = "Orange" => x \in Parked(cycles)
        BY <1>2
    <2> QED
        BY <1>2, <1>4, <2>1, <2>2, <2>3, <2>4, <2>5, RestKept
<1>16. Sweeping'
    <2>1. Coloured({"Black", "Orange", "Purple"})' = Obj /\ Coloured({"Purple"})' \subseteq roots'
        BY <1>2 DEF Coloured
    <2> QED
        BY <1>8, <1>15, <2>1 DEF Sweeping
<1> QED
    BY <1>2, <1>4, <1>8, <1>13, <1>14, <1>16, SweepIs

\* The sweep of an object, by the count it finds.
LEMMA SweepStep ==
    ASSUME CollectorAssumption, IInv, NEW o \in Obj, Sweep(o)
    PROVE  IInv' /\ [H!Next]_H!vars
<1>1. CASE rc[o] = 0 /\ work' = DropChildren(o) /\ UNCHANGED <<epochRc, color, roots>>
    <2>1. IInv' /\ H!Condemn({o})
        BY <1>1, SweepDead
    <2>2. {o} \in SUBSET Obj /\ {o} # {}
        OBVIOUS
    <2> QED
        BY <2>1, <2>2 DEF H!Next
<1>2. CASE rc[o] > epochRc[o] /\ epochRc' = [epochRc EXCEPT ![o] = rc[o]] /\ work' = <<Do("ScanBlack", o)>> /\ UNCHANGED <<color, roots>>
    BY <1>2, SweepGrown
<1>3. CASE /\ rc[o] <= epochRc[o] /\ epochRc' = [epochRc EXCEPT ![o] = rc[o]] /\ work' = <<>>
           /\ IF color[o] = "Black"
                THEN color' = [color EXCEPT ![o] = "Purple"] /\ roots' = roots \union {o}
                ELSE UNCHANGED <<color, roots>>
    BY <1>3, SweepRoot
<1> QED
    BY <1>1, <1>2, <1>3 DEF Sweep

----------------------------------------------------------------------------
(* The parked cycles, taken one at a time.                                  *)

\* cs is x with the cycle c after it.
Ends(cs, x, c) ==
    /\ cs \in Seq(Seq(Obj)) /\ x \in Seq(Seq(Obj)) /\ c \in Seq(Obj)
    /\ Len(cs) \in Nat /\ Len(cs) > 0 /\ Len(x) = Len(cs) - 1
    /\ c = cs[Len(cs)]
    /\ \A i \in 1 .. Len(x) : x[i] = cs[i]

\* free_cycles takes the last cycle.
LEMMA FrontEnds ==
    ASSUME NEW cs \in Seq(Seq(Obj)), cs # <<>>, NEW x, x = Front(cs), NEW c, c = Last(cs)
    PROVE  Ends(cs, x, c)
<1>1. x = SubSeq(cs, 1, Len(cs) - 1)
    BY DEF Front
<1>2. Len(cs) \in Nat /\ Len(cs) > 0 /\ \A i \in 1 .. Len(cs) : cs[i] \in Seq(Obj)
    BY EmptySeq, LenProperties, ElementOfSeq
<1>3. c = cs[Len(cs)]
    BY <1>2 DEF Last
<1>4. x \in Seq(Seq(Obj)) /\ Len(x) = Len(cs) - 1 /\ \A i \in 1 .. Len(x) : x[i] = cs[i]
    <2>1. PICK S : S = Seq(Obj)
        OBVIOUS
    <2>2. Len(cs) - 1 \in Int /\ 1 \in Int /\ Len(cs) \in Nat /\ Len(cs) > 0
        BY ONLY <1>2
    <2>3. \A i \in 1 .. Len(cs) - 1 : i \in 1 .. Len(cs) /\ cs[i] \in S
        BY ONLY <1>2, <2>1
    <2>7. Len(x) = IF 1 <= Len(cs) - 1 THEN Len(cs) - 1 - 1 + 1 ELSE 0
        BY ONLY <1>1, <2>2, <2>3, SubSeqProperties
    <2>4. /\ x \in Seq(S)
          /\ Len(x) = IF 1 <= Len(cs) - 1 THEN Len(cs) - 1 - 1 + 1 ELSE 0
          /\ \A i \in 1 .. Len(cs) - 1 - 1 + 1 : x[i] = cs[1 + i - 1]
        BY ONLY <1>1, <2>2, <2>3, SubSeqProperties
    <2>5. Len(x) = Len(cs) - 1
        <3>1. PICK n : n = Len(cs)
            OBVIOUS
        <3>2. PICK l : l = Len(x)
            OBVIOUS
        <3>3. n \in Nat /\ n > 0 /\ l = IF 1 <= n - 1 THEN n - 1 - 1 + 1 ELSE 0
            BY ONLY <2>2, <2>7, <3>1, <3>2
        <3>4. l = n - 1
            BY ONLY <3>3
        <3> QED
            BY ONLY <3>1, <3>2, <3>4
    <2>6. \A i \in 1 .. Len(x) : x[i] = cs[i]
        <3>1. SUFFICES ASSUME NEW i \in 1 .. Len(x) PROVE x[i] = cs[i]
            OBVIOUS
        <3>2. i \in 1 .. Len(cs) - 1 - 1 + 1 /\ 1 + i - 1 = i
            BY ONLY <2>2, <2>5, i \in 1 .. Len(x)
        <3> QED
            BY ONLY <2>4, <3>2
    <2> QED
        BY ONLY <2>1, <2>4, <2>5, <2>6
<1> QED
    BY <1>2, <1>3, <1>4 DEF Ends

\* What is parked is the last cycle and the others, and they share nothing.
LEMMA EndsParked ==
    ASSUME NEW cs, NEW x, NEW c, Ends(cs, x, c), Simple(cs)
    PROVE  /\ Parked(cs) = Parked(x) \union Members(c)
           /\ Parked(x) \intersect Members(c) = {}
           /\ Members(c) \subseteq Obj
           /\ Simple(x)
           /\ \A a, b \in 1 .. Len(c) : c[a] = c[b] => a = b
           /\ \A i \in 1 .. Len(x) : i \in 1 .. Len(cs) /\ x[i] = cs[i]
<1>1. /\ cs \in Seq(Seq(Obj)) /\ c \in Seq(Obj) /\ Len(cs) \in Nat /\ Len(cs) > 0 /\ Len(x) = Len(cs) - 1
      /\ c = cs[Len(cs)] /\ Len(cs) \in 1 .. Len(cs)
      /\ \A i \in 1 .. Len(x) : x[i] = cs[i]
    BY DEF Ends
<1>2. \A i \in 1 .. Len(x) : i \in 1 .. Len(cs) /\ x[i] = cs[i] /\ i # Len(cs)
    BY <1>1
<1>3. \A i \in 1 .. Len(cs) : i = Len(cs) \/ i \in 1 .. Len(x)
    BY <1>1
<1>4. Parked(cs) = Parked(x) \union Members(c)
    <2>1. ASSUME NEW o \in Parked(cs) PROVE o \in Parked(x) \union Members(c)
        <3>1. PICK i \in 1 .. Len(cs) : o \in Members(cs[i])
            BY DEF Parked
        <3> QED
            BY <1>1, <1>2, <1>3, <3>1 DEF Parked
    <2>2. ASSUME NEW o \in Parked(x) PROVE o \in Parked(cs)
        <3>1. PICK i \in 1 .. Len(x) : o \in Members(x[i])
            BY DEF Parked
        <3> QED
            BY <1>2, <3>1 DEF Parked
    <2>3. ASSUME NEW o \in Members(c) PROVE o \in Parked(cs)
        BY <1>1 DEF Parked
    <2> QED
        BY <2>1, <2>2, <2>3
<1>5. Parked(x) \intersect Members(c) = {}
    <2>1. SUFFICES ASSUME NEW i \in 1 .. Len(x), NEW o \in Members(x[i]), o \in Members(c) PROVE FALSE
        BY DEF Parked
    <2>2. i \in 1 .. Len(cs) /\ o \in Members(cs[i]) /\ o \in Members(cs[Len(cs)]) /\ i # Len(cs)
        BY <1>1, <1>2, <2>1
    <2> QED
        BY <1>1, <2>2, SimpleApart
<1>6. Simple(x)
    <2>1. SUFFICES ASSUME NEW i \in 1 .. Len(x), NEW j \in 1 .. Len(x), NEW a \in 1 .. Len(x[i]), NEW b \in 1 .. Len(x[j]),
                          x[i][a] = x[j][b]
                   PROVE  i = j /\ a = b
        BY DEF Simple
    <2>2. i \in 1 .. Len(cs) /\ j \in 1 .. Len(cs) /\ x[i] = cs[i] /\ x[j] = cs[j]
        BY ONLY <1>2, i \in 1 .. Len(x), j \in 1 .. Len(x)
    <2>3. a \in 1 .. Len(cs[i]) /\ b \in 1 .. Len(cs[j]) /\ cs[i][a] = cs[j][b]
        BY ONLY <2>1, <2>2, a \in 1 .. Len(x[i]), b \in 1 .. Len(x[j])
    <2> QED
        BY <2>2, <2>3 DEF Simple
<1>7. \A a, b \in 1 .. Len(c) : c[a] = c[b] => a = b
    BY <1>1 DEF Simple
<1>8. Members(c) \subseteq Obj
    <2>1. \A a \in 1 .. Len(c) : c[a] \in Obj
        BY <1>1
    <2> QED
        BY <2>1 DEF Members
<1> QED
    BY <1>2, <1>4, <1>5, <1>6, <1>7, <1>8

\* Between cycles nothing is condemned and nothing is Red.
LEMMA FreeRests ==
    ASSUME CollectorAssumption, IInv, At("free")
    PROVE  /\ pc = "free" /\ work = <<>> /\ Entries = {} /\ Condemned = {}
           /\ TypeOK /\ H!Inv /\ Lists /\ Counted /\ Quiet /\ locked = {} /\ Freeing
           /\ \A o \in Obj : color[o] \in {"Black", "Orange", "Purple"}
           /\ \A o \in Obj : color[o] # "Black" => o \in allocated
           /\ \A o \in Obj : color[o] = "Purple" => o \in roots
           /\ \A o \in Obj : color[o] = "Orange" <=> o \in Parked(taken)
           /\ taken \in Seq(Seq(Obj)) /\ Simple(taken)
           /\ \A i \in 1 .. Len(taken) : Covers(taken[i])
           /\ roots \subseteq allocated /\ iter = {} /\ cycles = <<>> /\ toSweep = {}
<1>1. pc = "free" /\ work = <<>>
    BY DEF At
<1>2. Entries = {} /\ Condemned = {}
    BY <1>1, EmptyIsCalm
<1>3. TypeOK /\ H!Inv /\ Lists /\ Counted /\ Quiet /\ locked = {} /\ Freeing
    BY <1>1, ReleaseFrame
<1>4. Coloured({"Red"}) = {}
    BY <1>2, <1>3 DEF Freeing, Releasing
<1>5. \A o \in Obj : color[o] \in {"Black", "Orange", "Purple"}
    <2>1. \A o \in Obj : color[o] \in {"Black", "Orange", "Purple", "Red"}
        BY <1>3 DEF Freeing, Coloured
    <2> QED
        BY <1>4, <2>1 DEF Coloured
<1>6. \A o \in Obj : color[o] # "Black" => o \in allocated
    BY <1>3 DEF Lists
<1>7. \A o \in Obj : color[o] = "Purple" => o \in roots
    BY <1>3 DEF Freeing, Coloured
<1>8. taken \in Seq(Seq(Obj)) /\ Simple(taken) /\ \A i \in 1 .. Len(taken) : Covers(taken[i])
    BY <1>3 DEF Freeing, TypeOK
<1>9. \A o \in Obj : color[o] = "Orange" <=> o \in Parked(taken)
    BY <1>3 DEF Freeing, Coloured
<1>10. roots \subseteq allocated /\ iter = {} /\ cycles = <<>> /\ toSweep = {}
    BY <1>1, <1>3 DEF Lists
<1> QED
    BY <1>1, <1>2, <1>3, <1>5, <1>6, <1>7, <1>8, <1>9, <1>10

\* Nothing runs and no reference changes between two cycles.
LEMMA FreeCalm ==
    ASSUME CollectorAssumption, IInv, At("free"), TypeOK', Condemned' = {}, UNCHANGED mutVars
    PROVE  UNCHANGED H!vars /\ H!Inv'
<1>1. UNCHANGED <<allocated, rc, handles, slots>>
    BY DEF mutVars
<1>2. UNCHANGED H!vars
    BY <1>1, FreeRests, CalmStep
<1> QED
    BY <1>2, FreeRests, HeapStep

\* A cycle that fails a test is no longer parked; what is left of it is a candidate again.
LEMMA RefurbishStep ==
    ASSUME CollectorAssumption, IInv, Refurbish
    PROVE  IInv' /\ UNCHANGED H!vars
<1>1. At("free") /\ taken # <<>>
    BY DEF Refurbish
<1> USE <1>1, FreeRests
<1>2. PICK c : c = Last(taken)
    OBVIOUS
<1>3. PICK x : x = Front(taken)
    OBVIOUS
<1>4. PICK again : again = {c[i] : i \in {j \in 1 .. Len(c) :
                    \/ j = 1 /\ color[c[j]] = "Orange"
                    \/ color[c[j]] = "Purple"}}
    OBVIOUS
<1>5. /\ color' = [o \in Obj |-> IF o \in again THEN "Purple" ELSE IF o \in Members(c) THEN "Black" ELSE color[o]]
      /\ roots' = roots \union again
    BY <1>2, <1>4, Zenon DEF Refurbish
<1>6. taken' = x
    BY <1>3, Zenon DEF Refurbish
<1>7. Ends(taken, x, c)
    BY <1>2, <1>3, FrontEnds
<1> HIDE <1>2, <1>3
<1>8. UNCHANGED <<mutVars, epochRc, crc, buffered, heapVars, pc, iter, listVars, cycles, freedObjs, work>>
    BY DEF Refurbish
<1>9. /\ Parked(taken) = Parked(x) \union Members(c)
      /\ Parked(x) \intersect Members(c) = {}
      /\ Members(c) \subseteq Obj
      /\ Simple(x)
      /\ \A i \in 1 .. Len(x) : i \in 1 .. Len(taken) /\ x[i] = taken[i]
    BY <1>7, EndsParked
<1>10. again \subseteq Members(c)
    BY <1>4 DEF Members
<1> HIDE <1>4
<1>11. UNCHANGED <<allocated, rc, handles, slots, crc, epochRc, locked, work, pc, toSweep>>
    BY <1>8 DEF mutVars, listVars
<1>12. Members(c) \subseteq allocated
    <2>1. \A o \in Members(c) : color[o] = "Orange"
        BY <1>9
    <2> QED
        BY <1>9, <2>1
<1>13. /\ color' \in [Obj -> Color]
       /\ \A o \in Obj : color'[o] = IF o \in again THEN "Purple" ELSE IF o \in Members(c) THEN "Black" ELSE color[o]
    BY <1>5 DEF TypeOK, Color
<1>14. roots' \subseteq allocated
    BY <1>5, <1>10, <1>12
<1>15. TypeOK'
    <2>1. x \in Seq(Seq(Obj)) /\ roots' \subseteq Obj
        BY <1>7, <1>14 DEF Ends, TypeOK
    <2> QED
        BY <1>6, <1>8, <1>13, <2>1 DEF TypeOK, mutVars, heapVars, listVars
<1>16. Entries' = {} /\ Condemned' = {}
    BY <1>11 DEF Condemned, Entries
<1>17. UNCHANGED H!vars /\ H!Inv'
    BY <1>8, <1>15, <1>16, FreeCalm
<1>18. Quiet'
    BY <1>11 DEF Quiet
<1>19. Lists'
    <2>1. \A o \in Obj \ allocated : color'[o] = "Black"
        BY <1>10, <1>12, <1>13
    <2> QED
        BY <1>8, <1>11, <1>14, <2>1 DEF Lists, heapVars, listVars
<1>20. Counted'
    BY <1>11, <1>16 DEF Counted
<1>21. Coloured({"Black", "Orange", "Purple", "Red"})' = Obj /\ Coloured({"Purple"})' \subseteq roots' /\ Coloured({"Red"})' = {}
    <2>1. \A o \in Obj : color'[o] \in {"Black", "Orange", "Purple"} /\ (color'[o] = "Purple" => o \in roots')
        BY <1>5, <1>13
    <2> QED
        BY <2>1 DEF Coloured
<1>22. Coloured({"Orange"})' = Parked(x)
    <2>1. \A o \in Obj : color'[o] = "Orange" <=> o \in Parked(x)
        BY <1>9, <1>10, <1>13
    <2>2. Parked(x) \subseteq Obj
        BY <1>7, ParkedIn DEF Ends
    <2> QED
        BY <2>1, <2>2 DEF Coloured
<1>23. Releasing'
    <2>1. work' = <<>> /\ Coloured({"Red"})' = {}
        BY <1>11, <1>21
    <2>2. Len(work') = 0
        BY <2>1
    <2>3. Nested(work') /\ RedLast(work', color')
        BY <2>2 DEF Nested, RedLast
    <2> QED
        BY <1>16, <2>1, <2>3 DEF Releasing
<1>24. PICK W \in SUBSET Obj : Lost(W)
    BY DEF Freeing
<1>25. Lost(W)'
    <2>1. Closed(W)'
        BY <1>11, <1>24 DEF Lost, Closed
    <2>2. Ordered(taken, W)'
        <3>1. SUFFICES ASSUME NEW i \in 1 .. Len(x), NEW p \in Members(x[i]), NEW j \in Slot, slots[p][j] \in W
                       PROVE  \E n \in 1 .. i : slots[p][j] \in Members(x[n])
            BY <1>6, <1>11 DEF Ordered
        <3>2. Ordered(taken, W)
            BY <1>24 DEF Lost
        <3>3. PICK n \in 1 .. i : slots[p][j] \in Members(taken[n])
            BY <1>9, <3>1, <3>2 DEF Ordered
        <3>4. n \in 1 .. Len(x)
            BY <1>7, <3>1, <3>3 DEF Ends
        <3> QED
            BY <1>9, <3>3, <3>4
    <2>3. Coloured({"Orange", "Red"})' \subseteq Coloured({"Orange", "Red"})
        BY <1>10, <1>13, <1>21 DEF Coloured
    <2> QED
        BY <1>16, <1>21, <1>24, <2>1, <2>2, <2>3 DEF Lost
<1>26. Freeing'
    <2>1. (\A i \in 1 .. Len(taken) : Covers(taken[i]))'
        BY <1>6, <1>9, <1>11 DEF Covers
    <2>2. Simple(taken)' /\ Parked(taken)' = Parked(x)
        BY <1>6, <1>9 DEF Simple, Parked, Members
    <2> QED
        BY <1>21, <1>22, <1>23, <1>25, <2>1, <2>2 DEF Freeing
<1> QED
    BY <1>11, <1>15, <1>17, <1>18, <1>19, <1>20, <1>26, FreeIs

\* With every cycle freed or given up, no object is Orange or Red.
LEMMA EndFreeStep ==
    ASSUME CollectorAssumption, IInv, EndFree
    PROVE  IInv' /\ UNCHANGED H!vars
<1>1. At("free") /\ taken = <<>>
    BY DEF EndFree
<1> USE <1>1, FreeRests
<1>2. /\ pc' = "mark" /\ iter' = roots
      /\ UNCHANGED <<mutVars, header, heapVars, taken, listVars, setVars, work>>
    BY DEF EndFree
<1>3. UNCHANGED <<allocated, rc, handles, slots, crc, epochRc, color, locked, work, toSweep, roots, cycles, freedObjs, mine, fresh>>
    BY <1>2 DEF mutVars, header, listVars, setVars, heapVars
<1>4. TypeOK'
    BY <1>2 DEF TypeOK, mutVars, header, heapVars, listVars, setVars, Phase
<1>5. Entries' = {} /\ Condemned' = {}
    BY <1>3 DEF Condemned, Entries
<1>6. UNCHANGED H!vars /\ H!Inv'
    BY <1>2, <1>4, <1>5, FreeCalm
<1>7. Quiet' /\ Lists' /\ Counted'
    <2>1. Quiet'
        BY <1>3 DEF Quiet
    <2>2. Lists'
        BY <1>2, <1>3 DEF Lists
    <2>3. Counted'
        BY <1>3, <1>5 DEF Counted
    <2> QED
        BY <2>1, <2>2, <2>3
<1>8. \A o \in Obj : color[o] \in {"Black", "Purple"} /\ (color[o] = "Purple" => o \in roots)
    <2>1. Parked(taken) = {}
        <3>1. Len(taken) = 0
            OBVIOUS
        <3> QED
            BY <3>1 DEF Parked
    <2> QED
        BY <2>1
<1>9. Coloured({"Black", "Purple", "Gray"})' = Obj /\ Coloured({"Purple"})' \subseteq iter' /\ Coloured({"Gray"})' = {}
    BY <1>2, <1>3, <1>8 DEF Coloured
<1>10. Marking'
    <2>1. Plain({"MarkGray"})'
        BY <1>5 DEF Plain
    <2>2. ASSUME NEW g \in Obj PROVE Visits(work', g) <= Cardinality(From(slots', {}, g))
        <3>1. Visits(work', g) = 0
            BY <1>3, NoEntries
        <3>2. Cardinality(From(slots', {}, g)) \in Nat
            BY FromIs
        <3> QED
            BY <3>1, <3>2
    <2>3. Reached(slots', {}, roots' \ iter')
        BY DEF Reached
    <2> QED
        BY <1>9, <2>1, <2>2, <2>3 DEF Marking
<1> QED
    BY <1>2, <1>4, <1>6, <1>7, <1>10, TraverseIs

\* The entries that free the cycle of S.
LEMMA CycleEntries ==
    ASSUME NEW w, NEW c, Passes(w, c, "CycleKids", "Free"), NEW S, S = Members(c), S \subseteq Obj
    PROVE  /\ \A e \in ToSet(w) : e.op \in {"CycleKids", "Free"} /\ e.obj \in S
           /\ \A e \in ToSet(w) : \E o \in S : e = Do("CycleKids", o) \/ e = Do("Free", o)
           /\ \A o \in S : Do("CycleKids", o) \in ToSet(w) /\ Do("Free", o) \in ToSet(w)
           /\ {e.obj : e \in {f \in ToSet(w) : f.op = "Free"}} = S
<1>1. /\ \A e \in ToSet(w) : \E o \in S : e = Do("CycleKids", o) \/ e = Do("Free", o)
      /\ \A o \in S : Do("CycleKids", o) \in ToSet(w) /\ Do("Free", o) \in ToSet(w)
    BY PassSet
<1>2. \A op, o : Do(op, o).op = op /\ Do(op, o).obj = o
    BY DEF Do
<1>3. \A e \in ToSet(w) : e.op \in {"CycleKids", "Free"} /\ e.obj \in S
    BY <1>1, <1>2
<1>4. {e.obj : e \in {f \in ToSet(w) : f.op = "Free"}} = S
    BY <1>1, <1>2, <1>3
<1> QED
    BY <1>1, <1>3, <1>4

\* The last parked cycle is unreachable from outside it.
LEMMA CycleIsGarbage ==
    ASSUME CollectorAssumption, IInv, At("free"), NEW x, NEW c, Ends(taken, x, c), SigmaTest(c),
           NEW o \in Members(c)
    PROVE  handles[o] = 0 /\ \A p \in Obj, k \in Slot : slots[p][k] = o => p \in Members(c)
<1> USE FreeRests
<1>1. Members(c) \subseteq Parked(taken) /\ Members(c) \subseteq Obj /\ c \in Seq(Obj)
    <2>1. Simple(taken)
        OBVIOUS
    <2>2. Parked(taken) = Parked(x) \union Members(c) /\ Members(c) \subseteq Obj
        BY <2>1, EndsParked
    <2>3. c \in Seq(Obj)
        BY DEF Ends
    <2> QED
        BY <2>2, <2>3
<1>2. Covers(c)
    BY DEF Ends
<1>3. \A m \in Members(c) : Cardinality(From(slots, Obj \ Members(c), m)) <= crc[m]
    BY <1>2 DEF Covers
<1>4. ASSUME NEW m \in Members(c) PROVE crc[m] >= 0
    <2>1. Cardinality(From(slots, Obj \ Members(c), m)) \in Nat
        BY FromIs
    <2>2. crc[m] \in Int
        BY <1>1 DEF TypeOK
    <2> QED
        BY <1>3, <2>1, <2>2
<1>5. crc[o] = 0
    BY <1>1, <1>4, SigmaTestIs DEF TypeOK
<1>6. From(slots, Obj \ Members(c), o) = {}
    <2>1. /\ Cardinality(From(slots, Obj \ Members(c), o)) \in Nat
          /\ Cardinality(From(slots, Obj \ Members(c), o)) = 0 => From(slots, Obj \ Members(c), o) = {}
        BY FromIs
    <2>2. Cardinality(From(slots, Obj \ Members(c), o)) <= 0
        BY <1>3, <1>5
    <2>3. PICK n : n = Cardinality(From(slots, Obj \ Members(c), o))
        OBVIOUS
    <2>4. n = 0
        BY ONLY <2>1, <2>2, <2>3
    <2> QED
        BY ONLY <2>1, <2>3, <2>4
<1>7. ASSUME NEW p \in Obj, NEW k \in Slot, slots[p][k] = o, p \notin Members(c) PROVE FALSE
    <2>1. <<p, k>> \in From(slots, Obj \ Members(c), o)
        BY <1>7 DEF From
    <2> QED
        BY <1>6, <2>1
<1>8. handles[o] = 0
    <2>1. PICK W \in SUBSET Obj : Lost(W)
        BY DEF Freeing
    <2>2. o \in Obj /\ color[o] = "Orange"
        BY <1>1
    <2>3. o \in W
        BY <2>1, <2>2 DEF Lost, Coloured
    <2> QED
        BY <2>1, <2>3 DEF Lost, Closed
<1> QED
    BY <1>7, <1>8

\* The cycle c begins to be freed.
Begins(x, c, S, w) ==
    /\ At("free") /\ Ends(taken, x, c) /\ S = Members(c) /\ SigmaTest(c)
    /\ Passes(w, c, "CycleKids", "Free")
    /\ taken' = x /\ work' = w
    /\ \A o \in Obj : color'[o] = IF o \in S THEN "Red" ELSE color[o]
    /\ color' \in [Obj -> Color]
    /\ UNCHANGED <<mutVars, epochRc, crc, buffered, heapVars, pc, iter, listVars, setVars>>

\* What FreeCycle does.
LEMMA FreeCycleBegins ==
    ASSUME CollectorAssumption, IInv, FreeCycle
    PROVE  \E x, c, S, w : Begins(x, c, S, w)
<1>1. At("free") /\ taken # <<>>
    BY DEF FreeCycle
<1> USE <1>1, FreeRests
<1>2. PICK c : c = Last(taken)
    OBVIOUS
<1>3. PICK x : x = Front(taken)
    OBVIOUS
<1>4. PICK w : w = FreeCycleWork(c)
    OBVIOUS
<1>5. Ends(taken, x, c)
    BY <1>2, <1>3, FrontEnds
<1>6. Passes(w, c, "CycleKids", "Free")
    <2>1. "CycleKids" \in Op /\ "Free" \in Op /\ c \in Seq(Obj)
        BY <1>5 DEF Op, Ends
    <2>2. w = MemberEntries("CycleKids", c) \o MemberEntries("Free", c)
        BY <1>4 DEF FreeCycleWork
    <2> QED
        BY <2>1, <2>2, PassesIs
<1>7. PICK S : S = Members(c)
    OBVIOUS
<1>8. taken' = x /\ work' = w /\ SigmaTest(c)
    BY <1>2, <1>3, <1>4, Zenon DEF FreeCycle
<1>9. color' = [o \in Obj |-> IF o \in S THEN "Red" ELSE color[o]]
    BY <1>2, <1>7, Zenon DEF FreeCycle
<1>10. UNCHANGED <<mutVars, epochRc, crc, buffered, heapVars, pc, iter, listVars, setVars>>
    BY DEF FreeCycle
<1> HIDE <1>2, <1>3, <1>4
<1>11. color' \in [Obj -> Color] /\ \A o \in Obj : color'[o] = IF o \in S THEN "Red" ELSE color[o]
    BY <1>9 DEF TypeOK, Color
<1> QED
    BY <1>5, <1>6, <1>7, <1>8, <1>10, <1>11 DEF Begins

\* A release begins, and the references inside the cycle no longer count.
LEMMA CycleReleasing ==
    ASSUME CollectorAssumption, IInv, NEW x, NEW c, NEW S, NEW w, Begins(x, c, S, w)
    PROVE  /\ Releasing' /\ Condemned' = S
           /\ \A p \in Obj, k \in Slot :
                 SlotsBar'[p][k] = IF p \in S /\ slots[p][k] \in S THEN Null ELSE slots[p][k]
<1>1. /\ At("free") /\ Ends(taken, x, c) /\ S = Members(c)
      /\ Passes(w, c, "CycleKids", "Free") /\ work' = w
      /\ \A o \in Obj : color'[o] = IF o \in S THEN "Red" ELSE color[o]
      /\ UNCHANGED <<allocated, slots>>
    BY DEF Begins, mutVars
<1> USE FreeRests
<1>2. S \subseteq Obj /\ S \subseteq Parked(taken) /\ \A a, b \in 1 .. Len(c) : c[a] = c[b] => a = b
    BY <1>1, EndsParked
<1>3. \A o \in S : color[o] = "Orange" /\ o \in allocated
    BY <1>1, <1>2
<1>4. /\ \A e \in Entries' : e.op \in {"CycleKids", "Free"} /\ e.obj \in S
      /\ \A e \in Entries' : \E o \in S : e = Do("CycleKids", o) \/ e = Do("Free", o)
      /\ \A o \in S : Do("CycleKids", o) \in Entries' /\ Do("Free", o) \in Entries'
      /\ Condemned' = S
    <2>1. Entries' = ToSet(w)
        BY <1>1 DEF Entries
    <2>2. Condemned' = {e.obj : e \in {f \in ToSet(w) : f.op = "Free"}}
        BY <2>1 DEF Condemned
    <2> QED
        BY <1>1, <1>2, <2>1, <2>2, CycleEntries
<1>5. ASSUME NEW e \in Entries' PROVE Due(e)'
    <2>1. PICK o \in S : e = Do("CycleKids", o) \/ e = Do("Free", o)
        BY <1>4
    <2>2. o \in Obj /\ o \in allocated' /\ color'[o] = "Red"
        BY <1>1, <1>2, <1>3
    <2> QED
        BY <2>1, <2>2 DEF Due
<1>6. Nested(work') /\ RedLast(work', color')
    <2>1. c \in Seq(Obj)
        BY <1>1 DEF Ends
    <2> QED
        BY <1>1, <1>2, <2>1, CycleNested
<1>7. \A p \in Obj, k \in Slot : DoField("CyclicDecrement", p, k) \notin Entries'
    <2>1. \A p, k : DoField("CyclicDecrement", p, k).op = "CyclicDecrement"
        BY DEF DoField
    <2> QED
        BY <1>4, <2>1
<1>8. \A p \in Condemned' : color'[p] = "Red"
    BY <1>1, <1>2, <1>4
<1>9. \A o \in Obj : color'[o] = "Red" <=> o \in S
    BY <1>1
<1>10. Coloured({"Red"})' \subseteq Condemned'
    BY <1>4, <1>9 DEF Coloured
<1>11. Releasing'
    BY <1>5, <1>6, <1>7, <1>8, <1>10 DEF Releasing
<1>12. ASSUME NEW p \in Obj, NEW k \in Slot
       PROVE  SlotsBar'[p][k] = IF p \in S /\ slots[p][k] \in S THEN Null ELSE slots[p][k]
    <2>1. SlotsBar'[p][k] = Bar(p, k)'
        BY <1>11, ReleaseBarNext
    <2>2. CASE p \in S
        <3>1. Held(p, k)' /\ color'[p] = "Red"
            BY <1>4, <1>9, <2>2 DEF Held
        <3>2. slots[p][k] # Null => slots[p][k] \in Obj
            BY <1>1 DEF TypeOK
        <3>3. slots[p][k] # Null => (color'[slots[p][k]] = "Red" <=> slots[p][k] \in S)
            BY <1>9, <3>2
        <3>4. Bar(p, k)' = IF slots[p][k] # Null /\ color'[slots[p][k]] # "Red" THEN slots[p][k] ELSE Null
            BY <1>1, <3>1 DEF Bar
        <3> QED
            BY <1>2, <2>1, <2>2, <3>3, <3>4 DEF CollectorAssumption
    <2>3. CASE p \notin S
        <3>1. color'[p] # "Red"
            BY <1>9, <2>3
        <3> QED
            BY <1>1, <2>1, <2>3, <3>1 DEF Bar
    <2> QED
        BY <2>2, <2>3
<1> QED
    BY <1>4, <1>11, <1>12

\* So the cycle is condemned as a whole, which is a step of the heap.
LEMMA CycleHeap ==
    ASSUME CollectorAssumption, IInv, NEW x, NEW c, NEW S, NEW w, Begins(x, c, S, w)
    PROVE  [H!Next]_H!vars /\ H!Inv'
<1>1. /\ At("free") /\ Ends(taken, x, c) /\ S = Members(c) /\ SigmaTest(c)
      /\ UNCHANGED <<allocated, rc, handles, slots>>
    BY DEF Begins, mutVars
<1> USE FreeRests
<1>2. S \subseteq Obj /\ S \subseteq Parked(taken)
    BY <1>1, EndsParked
<1>3. \A o \in S : o \in allocated
    BY <1>1, <1>2
<1>4. /\ Condemned' = S
      /\ \A p \in Obj, k \in Slot :
            SlotsBar'[p][k] = IF p \in S /\ slots[p][k] \in S THEN Null ELSE slots[p][k]
    BY CycleReleasing
<1>5. SlotsBar = slots
    BY <1>1, CalmBars
<1>6. SlotsBar' = [p \in Obj |-> [k \in Slot |-> IF p \in S /\ SlotsBar[p][k] \in S THEN Null ELSE SlotsBar[p][k]]]
    <2>1. SlotsBar' = [p \in Obj |-> [k \in Slot |-> SlotsBar'[p][k]]]
        BY DEF SlotsBar
    <2>2. [p \in Obj |-> [k \in Slot |-> SlotsBar'[p][k]]]
             = [p \in Obj |-> [k \in Slot |-> IF p \in S /\ slots[p][k] \in S THEN Null ELSE slots[p][k]]]
        BY <1>4
    <2> QED
        BY <1>5, <2>1, <2>2, Zenon
<1>7. \A o \in S : StatusBar[o] = "live"
    BY <1>1, <1>2, <1>3 DEF StatusBar
<1>8. StatusBar' = [o \in Obj |-> IF o \in S THEN "dying" ELSE StatusBar[o]]
    <2>1. \A o \in Obj : StatusBar[o] = IF o \notin allocated THEN "free" ELSE "live"
        BY <1>1 DEF StatusBar
    <2>2. StatusBar' = [o \in Obj |-> IF o \notin allocated THEN "free" ELSE IF o \in S THEN "dying" ELSE "live"]
        BY <1>1, <1>4 DEF StatusBar
    <2> QED
        BY <1>3, <2>1, <2>2
<1>9. H!Garbage(S)
    <2>1. SUFFICES ASSUME NEW o \in S, NEW e \in Obj \X Slot, SlotsBar[e[1]][e[2]] = o PROVE e[1] \in S
        <3>1. \A o \in S : handles[o] = 0
            BY <1>1, CycleIsGarbage
        <3> QED
            BY <2>1, <3>1 DEF H!Garbage, H!RefsTo
    <2>2. PICK p \in Obj, k \in Slot : p = e[1] /\ k = e[2]
        OBVIOUS
    <2>3. slots[p][k] = o
        BY <1>5, <2>1, <2>2
    <2> QED
        BY <1>1, <2>2, <2>3, CycleIsGarbage
<1>10. H!Condemn(S)
    BY <1>1, <1>6, <1>7, <1>8, <1>9 DEF H!Condemn
<1>11. CASE S = {}
    <2>1. StatusBar' = [o \in Obj |-> StatusBar[o]]
        BY <1>8, <1>11
    <2>2. StatusBar = [o \in Obj |-> StatusBar[o]]
        BY DEF StatusBar
    <2>3. SlotsBar' = [p \in Obj |-> [k \in Slot |-> SlotsBar[p][k]]]
        BY <1>6, <1>11
    <2>4. SlotsBar = [p \in Obj |-> [k \in Slot |-> SlotsBar[p][k]]]
        BY DEF SlotsBar
    <2>5. UNCHANGED H!vars
        BY <1>1, <2>1, <2>2, <2>3, <2>4 DEF H!vars
    <2> QED
        BY <1>1, <2>5, HeapStep
<1>12. CASE S # {}
    <2>1. H!Next
        BY <1>2, <1>10, <1>12 DEF H!Next
    <2> QED
        BY <1>1, <2>1, HeapStep
<1> QED
    BY <1>11, <1>12

\* The last cycle passes both tests: nothing outside it refers to it, and it is freed.
LEMMA FreeCycleStep ==
    ASSUME CollectorAssumption, IInv, FreeCycle
    PROVE  IInv' /\ [H!Next]_H!vars
<1>1. PICK x, c, S, w : Begins(x, c, S, w)
    BY FreeCycleBegins
<1>2. /\ At("free") /\ Ends(taken, x, c) /\ S = Members(c)
      /\ Passes(w, c, "CycleKids", "Free")
      /\ taken' = x /\ work' = w
      /\ \A o \in Obj : color'[o] = IF o \in S THEN "Red" ELSE color[o]
      /\ color' \in [Obj -> Color]
      /\ UNCHANGED <<mutVars, epochRc, crc, buffered, heapVars, pc, iter, listVars, setVars>>
    BY <1>1 DEF Begins
<1> USE FreeRests
<1>3. Releasing' /\ Condemned' = S
    BY <1>1, CycleReleasing
<1>4. [H!Next]_H!vars /\ H!Inv'
    BY <1>1, CycleHeap
<1>5. UNCHANGED <<allocated, rc, handles, slots, crc, epochRc, locked, pc, toSweep, roots>>
    BY <1>2 DEF mutVars, listVars, setVars
<1>6. /\ Parked(taken) = Parked(x) \union S
      /\ Parked(x) \intersect S = {}
      /\ S \subseteq Obj
      /\ Simple(x)
      /\ \A i \in 1 .. Len(x) : i \in 1 .. Len(taken) /\ x[i] = taken[i]
    BY <1>2, EndsParked
<1>7. \A o \in S : color[o] = "Orange" /\ o \in allocated
    BY <1>2, <1>6
<1>8. TypeOK'
    <2>1. x \in Seq(Seq(Obj)) /\ w \in Seq(Entry)
        BY <1>2 DEF Ends, Passes
    <2> QED
        BY <1>2, <2>1 DEF TypeOK, mutVars, heapVars, listVars, setVars
<1>9. Quiet'
    BY <1>2, <1>5 DEF Quiet
<1>10. Lists'
    <2>1. \A o \in Obj \ allocated : color'[o] = "Black"
        BY <1>2, <1>7
    <2> QED
        BY <1>2, <1>5, <2>1 DEF Lists, heapVars, listVars, setVars
<1>11. Counted'
    BY <1>2, <1>5 DEF Counted
<1>12. /\ Coloured({"Black", "Orange", "Purple", "Red"})' = Obj /\ Coloured({"Purple"})' \subseteq roots'
       /\ Coloured({"Red"})' = S /\ Coloured({"Orange", "Red"})' = Coloured({"Orange", "Red"})
    <2>1. \A o \in Obj : color'[o] = IF o \in S THEN "Red" ELSE color[o]
        BY <1>2
    <2>2. /\ \A o \in Obj : color[o] \in {"Black", "Orange", "Purple"}
          /\ \A o \in Obj : color[o] = "Purple" => o \in roots'
        BY <1>2, <1>5
    <2> QED
        BY <1>6, <1>7, <2>1, <2>2 DEF Coloured
<1>13. Coloured({"Orange"})' = Parked(x)
    <2>1. \A o \in Obj : color'[o] = "Orange" <=> o \in Parked(x)
        BY <1>2, <1>6
    <2>2. Parked(x) \subseteq Obj
        BY <1>2, ParkedIn DEF Ends
    <2> QED
        BY <2>1, <2>2 DEF Coloured
<1>14. PICK W \in SUBSET Obj : Lost(W)
    BY <1>2 DEF Freeing
<1>15. Ordered(taken, W)'
    <2>1. SUFFICES ASSUME NEW i \in 1 .. Len(x), NEW p \in Members(x[i]), NEW j \in Slot, slots[p][j] \in W
                   PROVE  \E n \in 1 .. i : slots[p][j] \in Members(x[n])
        BY <1>2, <1>5 DEF Ordered
    <2>2. Ordered(taken, W)
        BY <1>14 DEF Lost
    <2>3. PICK n \in 1 .. i : slots[p][j] \in Members(taken[n])
        BY <1>6, <2>1, <2>2 DEF Ordered
    <2>4. n \in 1 .. Len(x)
        BY <1>2, <2>1, <2>3 DEF Ends
    <2> QED
        BY <1>6, <2>3, <2>4
<1>16. ASSUME NEW o \in S PROVE Kids(slots', o) \intersect W \subseteq Coloured({"Orange", "Red"})
    <2>1. SUFFICES ASSUME NEW j \in Slot, slots[o][j] \in W PROVE slots[o][j] \in Coloured({"Orange", "Red"})
        BY <1>5 DEF Kids
    <2>2. Ordered(taken, W)
        BY <1>14 DEF Lost
    <2>3. PICK i \in 1 .. Len(taken) : o \in Members(taken[i]) /\ i = Len(taken)
        BY <1>2 DEF Ends
    <2>4. PICK n \in 1 .. i : slots[o][j] \in Members(taken[n])
        BY <2>1, <2>2, <2>3 DEF Ordered
    <2>5. n \in 1 .. Len(taken)
        BY <2>3, <2>4
    <2>6. slots[o][j] \in Parked(taken) /\ slots[o][j] \in Obj
        BY <2>1, <2>4, <2>5 DEF Parked
    <2> QED
        BY <1>2, <2>6 DEF Coloured
<1>17. Lost(W)'
    <2>1. Closed(W)'
        BY <1>5, <1>14 DEF Lost, Closed
    <2>2. Coloured({"Orange", "Red"})' \subseteq W /\ Coloured({"Orange", "Red"})' = Coloured({"Orange", "Red"}) /\ Coloured({"Red"})' = S
        BY <1>12, <1>14 DEF Lost
    <2> QED
        BY <1>3, <1>15, <1>16, <2>1, <2>2 DEF Lost
<1>18. Freeing'
    <2>1. (\A i \in 1 .. Len(taken) : Covers(taken[i]))'
        BY <1>2, <1>5, <1>6 DEF Covers
    <2>2. Simple(taken)' /\ Parked(taken)' = Parked(x)
        BY <1>2, <1>6 DEF Simple, Parked, Members
    <2> QED
        BY <1>3, <1>12, <1>13, <1>17, <2>1, <2>2 DEF Freeing
<1> QED
    BY <1>2, <1>4, <1>5, <1>8, <1>9, <1>10, <1>11, <1>18, FreeIs

\* A step of the collector keeps the invariant and is a step of the heap.
LEMMA CollectorStep ==
    ASSUME CollectorAssumption, IInv, Collector
    PROVE  IInv' /\ [H!Next]_H!vars
<1>1. CASE AwaitEpoch \/ EndSweep \/ FreeCycle \/ Refurbish \/ EndFree
    BY <1>1, AwaitEpochStep, EndSweepStep, FreeCycleStep, RefurbishStep, EndFreeStep
<1>2. CASE EndMark \/ EndScan \/ EndCollect \/ SigmaCycle \/ EndSigma \/ Splice
    BY <1>2, EndMarkStep, EndScanStep, EndCollectStep, SigmaCycleStep, EndSigmaStep, SpliceStep
<1>3. CASE \E s \in Obj : Sweep(s) \/ MarkRoot(s) \/ ScanRoot(s) \/ CollectRoot(s)
    BY <1>3, SweepStep, MarkRootStep, ScanRootStep, CollectRootStep
<1>4. ASSUME NEW s \in Obj, ScanBlack(s)
      PROVE  IInv' /\ [H!Next]_H!vars
  <2>1. Popping("ScanBlack", s)
      BY <1>4 DEF ScanBlack
  <2>2. pc \in {"scan", "sweep"}
      BY <2>1, PopPhase
  <2>3. QED
      BY <1>4, <2>2, ScanBlackStep, ScanBlackSweepStep
<1>5. CASE Traverse
    BY <1>4, <1>5, DecrementStep, FreeStep, MarkGrayStep, ScanStep, CollectWhiteStep, SubKidsStep,
       PaintStep, CycleKidsStep, CyclicDecrementStep DEF Traverse
<1>6. QED
    BY <1>1, <1>2, <1>3, <1>5 DEF Collector

\* Every step keeps the invariant and is a step of the heap, or none.
LEMMA NextStep ==
    ASSUME CollectorAssumption, ~Concurrent, IInv, [Next]_vars
    PROVE  IInv' /\ [H!Next]_H!vars
<1>1. CASE Mutator
    BY <1>1, MutatorStep
<1>2. CASE Collector
    BY <1>2, CollectorStep
<1>3. CASE UNCHANGED vars
  <2>1. /\ UNCHANGED <<allocated, rc, handles, slots, locked>>
        /\ UNCHANGED <<epochRc, crc, color, buffered>>
        /\ UNCHANGED <<fresh, newAllocs, force, waiting>>
        /\ UNCHANGED <<pc, iter, taken, mine, toSweep, roots, cycles, freedObjs, work>>
      BY <1>3 DEF vars, mutVars, header, heapVars, loopVars, listVars, setVars
  <2>2. Entries' = Entries
      BY <2>1 DEF Entries
  <2>3. Condemned' = Condemned
      BY <2>2 DEF Condemned
  <2>4. UNCHANGED H!vars
    <3>1. StatusBar' = StatusBar
        BY <2>1, <2>3 DEF StatusBar
    <3>2. \A p \in Obj, k \in Slot : Pending(p, k)' = Pending(p, k)
        BY <2>1, <2>2 DEF Pending
    <3>3. SlotsBar' = SlotsBar
        BY <2>1, <2>3, <3>2 DEF SlotsBar
    <3>4. QED
        BY <2>1, <3>1, <3>3 DEF H!vars
  <2>5. IInv' = IInv
    <3>1. TypeOK' = TypeOK
        BY <2>1 DEF TypeOK
    <3>2. H!Inv'
        BY <2>4, HeapStep DEF IInv
    <3>3. (Quiet /\ Lists /\ Counted)' = (Quiet /\ Lists /\ Counted)
        BY <2>1, <2>3 DEF Quiet, Lists, Counted, ShouldCollect
    <3>4. AtRest' = AtRest
        BY <2>1, <2>3 DEF AtRest, Resting, Simple, Closed, Parked, Ordered, Covers, From, Coloured, Members
    <3>5. Releasing' = Releasing
        BY <2>1, <2>2, <2>3 DEF Releasing, Due, Nested, RedLast, Coloured
    <3>6. Sweeping' = Sweeping
        BY <2>1, <2>2, <2>3, <3>5
           DEF Sweeping, Plain, Doing, Resting, Simple, Closed, Parked, Ordered, Covers, From, Coloured, Members
    <3>7. Freeing' = Freeing
        BY <2>1, <2>3, <3>5 DEF Freeing, Lost, Kids, Simple, Closed, Parked, Ordered, Covers, From, Coloured, Members
    <3>8. Marking' = Marking
        BY <2>1, <2>2 DEF Marking, Plain, Reached, Visits, Kids, From, Coloured
    <3>9. Scanning' = Scanning
        BY <2>1, <2>2 DEF Scanning, Spreading, Plain, Doing, Reached, Kids, From, Coloured
    <3>10. Collecting' = Collecting
        BY <2>1, <2>2 DEF Collecting, Plain, Doing, Simple, Closed, Parked, Ordered, Reached, Kids, Coloured, Members
    <3>11. Preparing' = Preparing
        BY <2>1, <2>2 DEF Preparing, Balancing, Plain, Doing, Simple, Closed, Parked, Ordered, Covers, From,
                          Coloured, Members
    <3>12. QED
        BY <2>1, <3>1, <3>2, <3>3, <3>4, <3>6, <3>7, <3>8, <3>9, <3>10, <3>11 DEF IInv
  <2>6. QED
      BY <2>4, <2>5
<1>4. QED
    BY <1>1, <1>2, <1>3 DEF Next

\* Nothing is allocated and the collector waits: the invariant holds at the
\* start, where the heap is in its initial state.
LEMMA InitStep ==
    ASSUME CollectorAssumption, Init
    PROVE  IInv /\ H!Init
<1>1. /\ allocated = {} /\ locked = {} /\ fresh = {} /\ mine = {} /\ toSweep = {}
      /\ roots = {} /\ cycles = <<>> /\ freedObjs = {} /\ iter = {} /\ taken = <<>> /\ work = <<>>
      /\ newAllocs = 0 /\ force = FALSE /\ waiting = {} /\ pc = "await"
      /\ rc = [o \in Obj |-> 0] /\ handles = [o \in Obj |-> 0] /\ slots = [o \in Obj |-> Empty]
      /\ epochRc = [o \in Obj |-> 0] /\ crc = [o \in Obj |-> 0]
      /\ color = [o \in Obj |-> "Black"] /\ buffered = [o \in Obj |-> FALSE]
    BY DEF Init
<1>2. TypeOK
  <2>1. Empty \in [Slot -> Obj \union {Null}]
      BY DEF Empty
  <2>2. /\ slots \in [Obj -> [Slot -> Obj \union {Null}]]
        /\ color \in [Obj -> Color] /\ buffered \in [Obj -> BOOLEAN]
      BY <1>1, <2>1 DEF Color
  <2>3. cycles \in Seq(Seq(Obj)) /\ taken \in Seq(Seq(Obj)) /\ work \in Seq(Entry)
      BY <1>1
  <2>4. newAllocs \in 0 .. MinAllocs
      BY <1>1 DEF CollectorAssumption
  <2>5. /\ rc \in [Obj -> Int] /\ handles \in [Obj -> Nat]
        /\ epochRc \in [Obj -> Int] /\ crc \in [Obj -> Int]
      BY <1>1
  <2>6. /\ allocated \subseteq Obj /\ locked \subseteq Obj /\ fresh \subseteq Obj
        /\ force \in BOOLEAN /\ waiting \subseteq Thread /\ pc \in Phase
        /\ mine \subseteq Obj /\ toSweep \subseteq mine
        /\ roots \subseteq Obj /\ freedObjs \subseteq Obj /\ iter \subseteq Obj
      BY <1>1 DEF Phase
  <2>7. QED
      BY <2>2, <2>3, <2>4, <2>5, <2>6 DEF TypeOK
<1>3. Condemned = {} /\ SlotsBar = slots
    BY <1>1, <1>2, EmptyIsCalm, CalmBars
<1>4. StatusBar = [o \in Obj |-> "free"]
    BY <1>1 DEF StatusBar
<1>5. H!Init
    BY <1>1, <1>3, <1>4 DEF H!Init, H!Empty, Empty
<1>6. H!Inv
    BY <1>5, Assumed, H!InitInv
<1>7. Quiet /\ Lists /\ Counted
    BY <1>1 DEF Quiet, Lists, Counted, ShouldCollect, CollectorAssumption
<1>8. AtRest
  <2>1. Parked(cycles) = {}
      BY <1>1 DEF Parked
  <2>2. Coloured({"Orange"}) = {} /\ Coloured({"Black", "Orange"}) = Obj
      BY <1>1 DEF Coloured
  <2>3. Simple(cycles) /\ Closed({}) /\ Ordered(cycles, {})
      BY <1>1 DEF Simple, Closed, Ordered
  <2>4. \A i \in 1 .. Len(cycles) : Covers(cycles[i])
      BY <1>1
  <2>5. QED
      BY <2>1, <2>2, <2>3, <2>4 DEF AtRest, Resting
<1>9. QED
    BY <1>1, <1>2, <1>5, <1>6, <1>7, <1>8 DEF IInv

----------------------------------------------------------------------------
(* What the invariant says.                                                 *)

\* Between epochs no object is left with a colour that a sweep would skip.
LEMMA StrandedNone ==
    ASSUME CollectorAssumption, IInv
    PROVE  NoneStranded
<1> SUFFICES ASSUME pc = "await", NEW o \in allocated,
                    NEW parked, parked = {i \in 1 .. Len(cycles) : o \in Members(cycles[i])}
             PROVE  \/ color[o] = "Black" /\ parked = {}
                    \/ color[o] = "Orange" /\ Cardinality(parked) = 1
    BY DEF NoneStranded
<1>1. /\ TypeOK /\ Resting /\ \A x \in Obj : color[x] \in {"Black", "Orange"}
      /\ o \in Obj
    BY AtRestIs DEF TypeOK
<1>2. \A i \in parked : i \in 1 .. Len(cycles) /\ o \in Members(cycles[i])
    OBVIOUS
<1>3. o \in Parked(cycles) => color[o] = "Orange"
    BY <1>1 DEF Resting
<1>4. color[o] = "Orange" => o \in Parked(cycles)
    BY <1>1 DEF Resting, Coloured
<1>5. parked = {} <=> o \notin Parked(cycles)
    BY DEF Parked
<1>6. ASSUME NEW i \in parked, NEW j \in parked PROVE i = j
  <2>1. PICK a \in 1 .. Len(cycles[i]) : cycles[i][a] = o
      BY <1>2 DEF Members
  <2>2. PICK b \in 1 .. Len(cycles[j]) : cycles[j][b] = o
      BY <1>2 DEF Members
  <2>3. Simple(cycles)
      BY <1>1 DEF Resting
  <2>4. i \in 1 .. Len(cycles) /\ j \in 1 .. Len(cycles) /\ cycles[i][a] = cycles[j][b]
      BY <1>2, <2>1, <2>2, Zenon
  <2>5. QED
      BY <2>3, <2>4, Zenon DEF Simple
<1>7. ASSUME parked # {} PROVE Cardinality(parked) = 1
  <2>1. PICK i : i \in parked
      BY <1>7
  <2>2. parked = {i}
      BY <1>6, <2>1
  <2>3. QED
      BY <2>2, FS_Singleton
<1>8. QED
    BY <1>1, <1>3, <1>4, <1>5, <1>7

\* The collector only follows pointers to allocated objects.
LEMMA PointersValid ==
    ASSUME CollectorAssumption, IInv
    PROVE  CollectorPointersValid
<1>1. TypeOK /\ Lists /\ cycles \in Seq(Seq(Obj)) /\ taken \in Seq(Seq(Obj)) /\ pc \in Phase
    BY DEF IInv, TypeOK
<1>2. \A o \in Obj : color[o] # "Black" => o \in allocated
    BY <1>1 DEF Lists
<1>3. ASSUME NEW e \in Entries PROVE e.obj \in allocated
  <2>1. CASE Releasing
      BY <1>1, <2>1, ReleaseIs
  <2>2. ASSUME NEW ops, Plain(ops) PROVE e.obj \in allocated
      BY <2>2, PlainOp
  <2>3. work # <<>>
      BY EmptyIsCalm
  <2>4. pc \notin {"await", "splice"}
      BY <1>1, <2>3 DEF Lists
  <2>5. CASE pc = "sweep"
      BY <2>1, <2>2, <2>5 DEF IInv, Sweeping
  <2>6. CASE pc = "free"
      BY <2>1, <2>6 DEF IInv, Freeing
  <2>7. CASE pc \in {"mark", "scan", "collect"}
      BY <2>2, <2>7 DEF IInv, Marking, Scanning, Collecting
  <2>8. CASE pc = "sigma"
    <3>1. PICK n \in 0 .. Len(cycles) : Balancing(cycles[n])
        BY <2>3, <2>8 DEF IInv, Preparing
    <3>2. QED
        BY <2>2, <3>1 DEF Balancing
  <2>9. QED
      BY <1>1, <2>4, <2>5, <2>6, <2>7, <2>8 DEF Phase
<1>4. fresh \union mine \union roots \subseteq allocated
    BY <1>1 DEF Lists
<1>5. ASSUME NEW cs \in Seq(Seq(Obj)), NEW S, Parked(cs) \subseteq S
      PROVE  \A c \in ToSet(cs) : Members(c) \subseteq S
    BY <1>5, ToSetIs, ParkedIn
<1>6. ASSUME pc # "sigma" PROVE \A c \in ToSet(taken) : Members(c) \subseteq allocated
  <2>1. CASE pc = "free"
    <3>1. Parked(taken) = Coloured({"Orange"})
        BY <2>1 DEF IInv, Freeing
    <3>2. Parked(taken) \subseteq allocated
        BY <1>2, <3>1 DEF Coloured
    <3>3. QED
        BY <1>1, <1>5, <3>2
  <2>2. CASE pc # "free"
    <3>1. taken = <<>>
        BY <1>1, <1>6, <2>2 DEF Lists
    <3>2. Parked(taken) = {}
        BY <3>1 DEF Parked
    <3>3. QED
        BY <1>1, <1>5, <3>2
  <2>3. QED
      BY <2>1, <2>2
<1>7. Parked(cycles) \subseteq allocated \union freedObjs
  <2>1. CASE pc \in {"await", "splice", "sweep"}
      BY <2>1 DEF IInv, AtRest, Sweeping, Resting
  <2>2. CASE pc \in {"free", "mark", "scan"}
    <3>1. cycles = <<>>
        BY <1>1, <2>2 DEF Lists
    <3>2. QED
        BY <3>1 DEF Parked
  <2>3. CASE pc = "collect"
    <3>1. Parked(cycles) = Coloured({"Orange"})
        BY <2>3 DEF IInv, Collecting
    <3>2. QED
        BY <1>2, <3>1 DEF Coloured
  <2>4. CASE pc = "sigma"
    <3>1. Parked(cycles) = Coloured({"Orange", "Red"})
        BY <2>4 DEF IInv, Preparing
    <3>2. QED
        BY <1>2, <3>1 DEF Coloured
  <2>5. QED
      BY <1>1, <2>1, <2>2, <2>3, <2>4 DEF Phase
<1>8. \A c \in ToSet(cycles) : Members(c) \subseteq allocated \union freedObjs
    BY <1>1, <1>5, <1>7
<1>9. QED
    BY <1>3, <1>4, <1>6, <1>8 DEF CollectorPointersValid

\* The steps of Reach, up to n.
Reaching(step, n) ==
    step = [i \in 0 .. n |-> IF i = 0 THEN {o \in Obj : handles[o] > 0} ELSE WithFields(step[i - 1])]

\* The recursion of Reach has a solution.
LEMMA ReachingExists ==
    ASSUME NEW n \in Nat
    PROVE  \E step : Reaching(step, n)
<1> DEFINE Held0 == {o \in Obj : handles[o] > 0}
           Bad == {m \in Nat : ~\E step : Reaching(step, m)}
<1> SUFFICES ASSUME Bad # {} PROVE FALSE
    OBVIOUS
<1>1. PICK m \in Bad : \A y \in Bad : m <= y
    <2>1. Bad \subseteq Nat
        OBVIOUS
    <2> HIDE DEF Bad
    <2> QED
        BY <2>1, MinOf
<1>2. m # 0
    <2> DEFINE step == [i \in 0 .. 0 |-> Held0]
    <2>1. Reaching(step, 0)
        BY DEF Reaching
    <2> QED
        BY <2>1
<1>3. m \in Nat /\ m - 1 \in Nat /\ m - 1 \notin Bad
    BY <1>1, <1>2
<1>4. PICK old : Reaching(old, m - 1)
    BY <1>3
<1> DEFINE new == [i \in 0 .. m |-> IF i = 0 THEN Held0 ELSE WithFields(old[i - 1])]
<1>5. ASSUME NEW i \in 0 .. m, i # 0 PROVE new[i - 1] = old[i - 1]
    <2>1. i - 1 \in 0 .. m - 1 /\ i - 1 \in 0 .. m
        BY <1>3, <1>5
    <2>2. old[i - 1] = IF i - 1 = 0 THEN Held0 ELSE WithFields(old[i - 1 - 1])
        BY <1>4, <2>1, Zenon DEF Reaching
    <2>3. new[i - 1] = IF i - 1 = 0 THEN Held0 ELSE WithFields(old[i - 1 - 1])
        BY <2>1, Zenon
    <2> QED
        BY <2>2, <2>3, Zenon
<1>6. Reaching(new, m)
    BY <1>5, Zenon DEF Reaching
<1> QED
    BY <1>1, <1>6

\* A set that holds every object with a handle and is closed under fields
\* contains what programs can reach.
LEMMA ReachWithin ==
    ASSUME CollectorAssumption, NEW L, \A o \in Obj : handles[o] > 0 => o \in L,
           \A p \in L, k \in Slot : slots[p][k] # Null => slots[p][k] \in L
    PROVE  Reach \subseteq L
<1>1. PICK n \in Nat : n = Cardinality(Obj)
    BY FS_CardinalityType DEF CollectorAssumption
<1>2. PICK step : step = CHOOSE s : Reaching(s, n)
    OBVIOUS
<1>3. Reaching(step, n)
    BY <1>2, ReachingExists, Zenon
<1>4. Reach = step[n]
  <2>1. step = CHOOSE s : Reaching(s, Cardinality(Obj))
      BY <1>1, <1>2, Zenon
  <2>2. Reach = (CHOOSE s : Reaching(s, Cardinality(Obj)))[Cardinality(Obj)]
      BY Zenon DEF Reach, Reaching
  <2>3. QED
      BY <1>1, <2>1, <2>2, Zenon
<1> HIDE <1>2
<1>5. \A i \in 0 .. n : step[i] = IF i = 0 THEN {o \in Obj : handles[o] > 0} ELSE WithFields(step[i - 1])
    BY <1>3, Zenon DEF Reaching
<1> DEFINE Bad == {i \in 0 .. n : ~(step[i] \subseteq L)}
<1>6. Bad = {}
  <2> SUFFICES ASSUME Bad # {} PROVE FALSE
      OBVIOUS
  <2>1. PICK i \in Bad : \A y \in Bad : i <= y
    <3>1. Bad \subseteq Nat
        OBVIOUS
    <3> HIDE DEF Bad
    <3>2. QED
        BY <3>1, MinOf
  <2>2. i \in 0 .. n /\ ~(step[i] \subseteq L)
      OBVIOUS
  <2>3. i # 0
    <3>1. 0 \in 0 .. n
        OBVIOUS
    <3>2. step[0] = {o \in Obj : handles[o] > 0}
        BY <1>5, <3>1
    <3>3. step[0] \subseteq L
        BY <3>2
    <3>4. QED
        BY <2>2, <3>3
  <2>4. i - 1 \in 0 .. n /\ i - 1 < i
      BY <2>2, <2>3
  <2>5. step[i - 1] \subseteq L
      BY <2>1, <2>4
  <2>6. step[i] = WithFields(step[i - 1])
      BY <1>5, <2>2, <2>3
  <2>7. WithFields(step[i - 1]) \subseteq L
      BY <2>5 DEF WithFields
  <2>8. QED
      BY <2>2, <2>6, <2>7
<1>7. n \in 0 .. n
    OBVIOUS
<1>8. QED
    BY <1>4, <1>6, <1>7

\* What programs can reach is allocated, and not condemned either.
LEMMA ReachIsLive ==
    ASSUME CollectorAssumption, TypeOK, H!Inv
    PROVE  FreedIsGarbage
<1> DEFINE L == allocated \ Condemned
<1>1. /\ TypeOK /\ handles \in [Obj -> Nat] /\ allocated \subseteq Obj
      /\ slots \in [Obj -> [Slot -> Obj \union {Null}]]
    BY DEF TypeOK
<1>2. /\ \A o \in Obj : o \notin allocated \/ o \in Condemned => handles[o] = 0
      /\ \A o \in Obj : o \notin allocated \/ o \in Condemned =>
            \A p \in Obj, k \in Slot : SlotsBar[p][k] # o
    BY HeapIs
<1>3. \A o \in Obj : handles[o] > 0 => o \in L
    BY <1>1, <1>2
<1>4. ASSUME NEW p \in L, NEW k \in Slot, slots[p][k] # Null
      PROVE  slots[p][k] \in L
  <2>1. p \in Obj /\ slots[p][k] \in Obj
      BY <1>1, <1>4
  <2>2. SlotsBar[p][k] = slots[p][k]
      BY <1>4, <2>1, SlotsBarIs
  <2>3. QED
      BY <1>2, <2>1, <2>2
<1>5. Reach \subseteq L
    BY <1>3, <1>4, ReachWithin
<1>6. QED
    BY <1>5 DEF FreedIsGarbage

----------------------------------------------------------------------------
(* Theorems.                                                                *)

\* When programs pause during epochs, the invariant holds in every state.
THEOREM CollectorInvariant ==
    ASSUME CollectorAssumption, ~Concurrent
    PROVE  Spec => []IInv
<1>1. Init => IInv
    BY InitStep
<1>2. IInv /\ [Next]_vars => IInv'
    BY NextStep
<1>3. QED
    BY <1>1, <1>2, PTL DEF Spec

\* See NoneStranded: between epochs every object is one that a sweep can make
\* a candidate again, or parked in exactly one cycle.
THEOREM NoneStrandedHolds ==
    ASSUME CollectorAssumption, ~Concurrent
    PROVE  Spec => []NoneStranded
<1>1. IInv => NoneStranded
    BY StrandedNone
<1>2. QED
    BY <1>1, CollectorInvariant, PTL

\* See CollectorPointersValid: the collector never follows a pointer to memory
\* it has given back.
THEOREM PointersValidHolds ==
    ASSUME CollectorAssumption, ~Concurrent
    PROVE  Spec => []CollectorPointersValid
<1>1. IInv => CollectorPointersValid
    BY PointersValid
<1>2. QED
    BY <1>1, CollectorInvariant, PTL

\* See FreedIsGarbage: no object that a program can get at is deallocated.
THEOREM FreedIsGarbageHolds ==
    ASSUME CollectorAssumption, ~Concurrent
    PROVE  Spec => []FreedIsGarbage
<1>1. IInv => FreedIsGarbage
    BY ReachIsLive DEF IInv
<1>2. QED
    BY <1>1, CollectorInvariant, PTL

\* See ReleasesAreSafe: neither a program nor the collector comes across memory
\* that was given back.
THEOREM ReleasesAreSafeHolds ==
    ASSUME CollectorAssumption, ~Concurrent
    PROVE  Spec => []ReleasesAreSafe
<1>1. FreedIsGarbage /\ CollectorPointersValid => ReleasesAreSafe
    BY DEF ReleasesAreSafe
<1>2. QED
    BY <1>1, FreedIsGarbageHolds, PointersValidHolds, PTL

\* The renamed heap of this module and the abstract heap are the same.
LEMMA HeapIsAbstract ==
    /\ H!Init <=> Abstract!Init
    /\ [H!Next]_H!vars => [Abstract!Next]_Abstract!vars
<1>1. H!Init <=> Abstract!Init
    BY DEF H!Init, Abstract!Init, H!Empty, Abstract!Empty
<1>2. UNCHANGED H!vars => UNCHANGED Abstract!vars
    BY DEF H!vars, Abstract!vars
<1>3. H!Next => Abstract!Next
    <2>1. ASSUME NEW o \in Obj, H!Alloc(o) \/ H!Clone(o) \/ H!Drop(o) \/ H!Free(o)
          PROVE  Abstract!Alloc(o) \/ Abstract!Clone(o) \/ Abstract!Drop(o) \/ Abstract!Free(o)
        BY <2>1, Zenon DEF H!Alloc, H!Clone, H!Drop, H!Free, H!Empty,
           Abstract!Alloc, Abstract!Clone, Abstract!Drop, Abstract!Free, Abstract!Empty
    <2>2. ASSUME NEW p \in Obj, NEW k \in Slot, H!Load(p, k) \/ H!Decrement(p, k)
          PROVE  Abstract!Load(p, k) \/ Abstract!Decrement(p, k)
        BY <2>2, Zenon DEF H!Load, H!Decrement, H!Write, Abstract!Load, Abstract!Decrement, Abstract!Write
    <2>3. ASSUME NEW p \in Obj, NEW k \in Slot, NEW v \in Obj \union {Null}, H!Swap(p, k, v)
          PROVE  Abstract!Swap(p, k, v)
        BY <2>3, Zenon DEF H!Swap, H!Exchanged, H!Write, Abstract!Swap, Abstract!Exchanged, Abstract!Write
    <2>4. ASSUME NEW S \in SUBSET Obj, S # {}, H!Condemn(S)
          PROVE  Abstract!Condemn(S)
        BY <2>4, Zenon DEF H!Condemn, H!Garbage, H!RefsTo, Abstract!Condemn, Abstract!Garbage, Abstract!RefsTo
    <2> QED
        BY <2>1, <2>2, <2>3, <2>4, Zenon DEF H!Next, Abstract!Next
<1> QED
    BY <1>1, <1>2, <1>3

\* The collector, mark and scan, sigma and delta tests, parked cycles and
\* drops of fields, implements the abstract heap.
THEOREM CollectorImplementsHeap ==
    ASSUME CollectorAssumption, ~Concurrent
    PROVE  Spec => ImplementsRefHeap
<1>1. Init => Abstract!Init
    BY InitStep, HeapIsAbstract
<1>2. IInv /\ [Next]_vars => [Abstract!Next]_Abstract!vars
    BY NextStep, HeapIsAbstract
<1>3. QED
    BY <1>1, <1>2, CollectorInvariant, PTL DEF Spec, ImplementsRefHeap, Abstract!Spec

=============================================================================
