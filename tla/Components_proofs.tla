-------------------------- MODULE Components_proofs --------------------------
(***************************************************************************)
(* Proofs about the components that stand alone: Threads, AtomicBox,       *)
(* Records, Numbers, Ports and CompileQueue, for any threads, values,      *)
(* addresses, types, records, operands, widths of the machine's integers,  *)
(* files, sizes of buffers, characters and queues. Ports, whatever lengths *)
(* the device reads: the decoder never looks beyond the read buffer, unless*)
(* the port converts "\r\n", where the code does panic; and buffers do not *)
(* show, a port implements FilePort.                                       *)
(***************************************************************************)
EXTENDS Threads, Ports, AtomicBox, Records, Numbers, SequenceTheorems, WellFoundedInduction, TLAPS

(* Threads.                                                                 *)

\* The invariant holds at the start.
LEMMA InitInv == Init => Inv
  BY ThreadsAssumption DEF Init, Inv, TypeOK, CellHoldsResult, Pending, Joinable, Thread

\* spawn disturbs nothing: the new cell is as it was born.
LEMMA SpawnInv ==
  ASSUME Inv, NEW t \in Thread, NEW u \in Spawned, Spawn(t, u)
  PROVE  Inv'
  BY DEF Inv, TypeOK, CellHoldsResult, Pending, Joinable, Spawn

\* A thread that starts takes the lock of its own cell.
LEMMA BeginInv ==
  ASSUME Inv, NEW u \in Spawned, Begin(u)
  PROVE  Inv'
  BY ThreadsAssumption DEF Inv, TypeOK, CellHoldsResult, Pending, Joinable, Begin, Thread

\* The result is stored before the lock is dropped, and no join that found the
\* thread begun has returned so far.
LEMMA FinishInv ==
  ASSUME Inv, NEW u \in Spawned, NEW r \in Result, Finish(u, r)
  PROVE  Inv'
<1>1. phase[u] = "running" /\ joined[u] = {}
  BY ThreadsAssumption DEF Inv, CellHoldsResult, Pending, Joinable, Finish, Runs
<1>2. TypeOK' BY DEF Inv, TypeOK, Finish
<1>3. CellHoldsResult'
  BY <1>1, ThreadsAssumption DEF Inv, TypeOK, CellHoldsResult, Pending, Joinable, Finish, Thread
<1>4. Pending'
  BY <1>1, ThreadsAssumption DEF Inv, TypeOK, Pending, Finish, Thread
<1>5. Joinable' BY <1>1 DEF Inv, TypeOK, Joinable, Finish
<1> QED BY <1>2, <1>3, <1>4, <1>5 DEF Inv

\* Waiting changes no cell.
LEMMA JoinInv ==
  ASSUME Inv, NEW t \in Thread, NEW u \in Spawned, Join(t, u)
  PROVE  Inv'
  BY DEF Inv, TypeOK, CellHoldsResult, Pending, Joinable, Join

\* A join reads the cell of a thread that is not running its thunk: the result
\* if the thread has returned, otherwise the thread has not begun.
LEMMA JoinReturnsInv ==
  ASSUME Inv, NEW t \in Thread, JoinReturns(t)
  PROVE  Inv'
<1> DEFINE u == joining[t]
<1>1. u \in Spawned /\ holder[u] = NoThread
  BY DEF Inv, TypeOK, JoinReturns
<1>2. phase[u] # "running"
  BY <1>1, ThreadsAssumption DEF Inv, CellHoldsResult, Thread
<1>3. /\ joined' = [joined EXCEPT ![u] = IF phase[u] = "started" THEN @ ELSE @ \union {cell[u]}]
      /\ UNCHANGED <<phase, holder, cell, returned>>
  BY DEF JoinReturns
<1>4. \A v \in Spawned : joined'[v] = joined[v] \/ (phase[v] = "done" /\ joined'[v] = joined[v] \union {cell[v]})
      \/ (phase[v] = "unborn" /\ v = u)
  BY <1>1, <1>2, <1>3 DEF Inv, TypeOK
<1>5. phase[u] # "unborn"
  BY <1>1 DEF Inv, Joinable, JoinReturns
<1>6. TypeOK' BY <1>1 DEF Inv, TypeOK, JoinReturns
<1>7. CellHoldsResult'
  BY <1>3, <1>4, <1>5, ThreadsAssumption DEF Inv, TypeOK, CellHoldsResult
<1>8. Pending' BY <1>3, <1>4, <1>5 DEF Inv, Pending
<1>9. Joinable' BY <1>3 DEF Inv, TypeOK, Joinable, JoinReturns
<1> QED BY <1>6, <1>7, <1>8, <1>9 DEF Inv

\* Every step keeps the invariant.
LEMMA NextInv == Inv /\ [Next]_vars => Inv'
<1> SUFFICES ASSUME Inv, [Next]_vars PROVE Inv'
  OBVIOUS
<1>1. CASE Next
  BY <1>1, SpawnInv, BeginInv, FinishInv, JoinInv, JoinReturnsInv DEF Next
<1>2. CASE UNCHANGED vars
  BY <1>2 DEF vars, Inv, TypeOK, CellHoldsResult, Pending, Joinable
<1> QED BY <1>1, <1>2

\* The invariant holds in every behaviour.
THEOREM Invariance == Spec => []Inv
<1> QED BY InitInv, NextInv, PTL DEF Spec

\* For any number of threads and any results: a cell is locked exactly while
\* its thunk runs, holds what the thunk returned for ever after, and a join that
\* does not come before the thread has begun returns that and nothing else (spawn
\* and join of threads.rs).  A join that does come before returns no values at once.
THEOREM ResultsAreStable == Spec => []CellHoldsResult
<1>1. Inv => CellHoldsResult BY DEF Inv
<1> QED BY <1>1, Invariance, PTL

-----------------------------------------------------------------------------
(* Atomic boxes.                                                            *)

Allocation == [at : Addresses, val : BoxValues]

\* The addresses of allocations that somebody still holds name one allocation each.
BoxInv ==
    /\ inner \in Allocation
    /\ swapping \in [BoxThreads ->
          [expected : BoxValues, desired : Allocation, current : Allocation] \cup {None}]
    /\ \A t \in Busy :
          /\ swapping[t].current.at = inner.at => swapping[t].current = inner
          /\ swapping[t].desired.at # inner.at
    /\ \A t, u \in Busy :
          /\ swapping[t].desired.at # swapping[u].current.at
          /\ swapping[t].desired.at = swapping[u].desired.at => t = u

\* Others leave what they have loaded and allocated alone.
LEMMA BusyOthers ==
  ASSUME BoxInv, NEW t \in BoxThreads, NEW s, swapping' = [swapping EXCEPT ![t] = s]
  PROVE  /\ \A u \in BoxThreads \ {t} : swapping'[u] = swapping[u] /\ (u \in Busy' <=> u \in Busy)
         /\ swapping'[t] = s
  BY DEF BoxInv, Busy

\* An address that is allocated now has no value yet.
LEMMA NewIsUnused ==
  ASSUME NEW v \in BoxValues, NEW d \in New(v)
  PROVE  /\ d \in Allocation /\ d.val = v /\ d.at # inner.at
         /\ \A t \in Busy : d.at # swapping[t].current.at /\ d.at # swapping[t].desired.at
  BY DEF New, InUse, Allocation

LEMMA BoxStore ==
  ASSUME BoxInv, NEW v \in BoxValues, inner' \in New(v), UNCHANGED swapping
  PROVE  BoxInv'
<1>1. /\ inner' \in Allocation /\ inner'.val = v /\ inner'.at # inner.at
      /\ \A t \in Busy : inner'.at # swapping[t].current.at /\ inner'.at # swapping[t].desired.at
  BY NewIsUnused
<1> QED BY <1>1 DEF BoxInv, Busy

LEMMA BoxBegin ==
  ASSUME BoxInv, NEW t \in BoxThreads, NEW v \in BoxValues, NEW w \in BoxValues,
         BeginCompareAndSwap(t, v, w)
  PROVE  BoxInv'
<1>1. PICK d \in New(w) : swapping' = [swapping EXCEPT ![t] = [expected |-> v, desired |-> d, current |-> inner]]
  BY DEF BeginCompareAndSwap
<1> DEFINE s == [expected |-> v, desired |-> d, current |-> inner]
<1>2. /\ d \in Allocation /\ d.at # inner.at
      /\ \A u \in Busy : d.at # swapping[u].current.at /\ d.at # swapping[u].desired.at
  BY NewIsUnused
<1>3. /\ \A u \in BoxThreads \ {t} : swapping'[u] = swapping[u] /\ (u \in Busy' <=> u \in Busy)
      /\ swapping'[t] = s
  BY <1>1, BusyOthers
<1>4. s.desired = d /\ s.current = inner /\ s \in [expected : BoxValues, desired : Allocation, current : Allocation]
  BY <1>2 DEF BoxInv
<1>5. inner' = inner BY DEF BeginCompareAndSwap
<1>6. swapping' \in [BoxThreads -> [expected : BoxValues, desired : Allocation, current : Allocation] \cup {None}]
  BY <1>1, <1>4 DEF BoxInv
<1> HIDE DEF s
<1>7. \A u \in Busy' : u = t \/ (u # t /\ u \in Busy /\ swapping'[u] = swapping[u])
  BY <1>3 DEF Busy
<1> QED BY <1>2, <1>3, <1>4, <1>5, <1>6, <1>7 DEF BoxInv

LEMMA BoxEnd ==
  ASSUME BoxInv, NEW t \in BoxThreads, EndCompareAndSwap(t)
  PROVE  /\ BoxInv'
         /\ swapping[t].current = inner /\ t \in Busy
         /\ swapping[t] \in [expected : BoxValues, desired : Allocation, current : Allocation]
<1>1. /\ t \in Busy /\ inner.at = swapping[t].current.at
      /\ inner' = Successor(swapping[t]) /\ swapping' = [swapping EXCEPT ![t] = None]
  BY DEF EndCompareAndSwap, Unmoved
<1>2. swapping[t].current = inner BY <1>1 DEF BoxInv
<1>3. swapping[t] \in [expected : BoxValues, desired : Allocation, current : Allocation]
  BY <1>1 DEF BoxInv, Busy
<1>4. inner' = inner \/ inner' = swapping[t].desired BY <1>1, <1>2 DEF Successor
<1>5. inner' \in Allocation BY <1>3, <1>4 DEF BoxInv
<1>6. \A u \in Busy' : u # t /\ u \in Busy /\ swapping'[u] = swapping[u]
  BY <1>1, BusyOthers DEF Busy
<1>7. swapping' \in [BoxThreads -> [expected : BoxValues, desired : Allocation, current : Allocation] \cup {None}]
  BY <1>1 DEF BoxInv
<1>8. \A u \in Busy' :
        /\ swapping'[u].current.at = inner'.at => swapping'[u].current = inner'
        /\ swapping'[u].desired.at # inner'.at
  BY <1>1, <1>4, <1>6 DEF BoxInv
<1>9. BoxInv' BY <1>5, <1>6, <1>7, <1>8 DEF BoxInv
<1> QED BY <1>1, <1>2, <1>3, <1>9

LEMMA BoxRetry ==
  ASSUME BoxInv, NEW t \in BoxThreads, Retry(t)
  PROVE  BoxInv'
<1> DEFINE s == [swapping[t] EXCEPT !.current = inner]
<1>1. t \in Busy /\ swapping' = [swapping EXCEPT ![t] = s] /\ inner' = inner
  BY DEF Retry
<1>2. swapping[t] \in [expected : BoxValues, desired : Allocation, current : Allocation]
  BY <1>1 DEF BoxInv, Busy
<1>3. /\ s \in [expected : BoxValues, desired : Allocation, current : Allocation]
      /\ s.current = inner /\ s.desired = swapping[t].desired
  BY <1>2 DEF BoxInv
<1> HIDE DEF s
<1>4. /\ \A u \in BoxThreads \ {t} : swapping'[u] = swapping[u] /\ (u \in Busy' <=> u \in Busy)
      /\ swapping'[t] = s
  BY <1>1, BusyOthers
<1>5. \A u \in Busy' : u \in Busy /\ (u = t \/ swapping'[u] = swapping[u])
  BY <1>1, <1>4 DEF Busy
<1>6. swapping' \in [BoxThreads -> [expected : BoxValues, desired : Allocation, current : Allocation] \cup {None}]
  BY <1>1, <1>3 DEF BoxInv
<1> QED BY <1>1, <1>3, <1>4, <1>5, <1>6 DEF BoxInv

LEMMA BoxKept == BoxInv /\ [BoxNext]_boxVars => BoxInv'
<1> SUFFICES ASSUME BoxInv, [BoxNext]_boxVars PROVE BoxInv'
  OBVIOUS
<1>1. ASSUME NEW t \in BoxThreads, NEW v \in BoxValues, Set(t, v) \/ Swap(t, v) PROVE BoxInv'
  BY <1>1, BoxStore DEF Set, Swap
<1>2. ASSUME NEW t \in BoxThreads, Ref(t) PROVE BoxInv'
  BY <1>2 DEF Ref, BoxInv, Busy
<1>3. CASE UNCHANGED boxVars BY <1>3 DEF boxVars, BoxInv, Busy
<1> QED BY <1>1, <1>2, <1>3, BoxBegin, BoxEnd, BoxRetry DEF BoxNext

\* The step that answers reads and writes the box at once.
LEMMA BoxAnswers ==
  ASSUME BoxInv, BoxNext
  PROVE  LET old == inner.val
             new == inner'.val
         IN IF answer' = None THEN new = old
            ELSE CASE answer'.op = "ref"  -> answer'.result = old /\ new = old
                   [] answer'.op = "set"  -> new = answer'.new
                   [] answer'.op = "swap" -> new = answer'.new /\ answer'.result = old
                   [] answer'.op = "cas"  -> /\ answer'.result = old
                                             /\ new = IF old = answer'.expected THEN answer'.new ELSE old
<1>0. inner.val \in BoxValues BY DEF BoxInv, Allocation
<1>1. ASSUME NEW t \in BoxThreads, Ref(t)
      PROVE  answer' \in Answers /\ answer'.op = "ref" /\ answer'.result = inner.val /\ inner'.val = inner.val
  BY <1>0, <1>1 DEF Ref, Answers
<1>2. ASSUME NEW t \in BoxThreads, NEW v \in BoxValues, Set(t, v)
      PROVE  answer' \in Answers /\ answer'.op = "set" /\ inner'.val = answer'.new
  BY <1>2, NewIsUnused DEF Set, Answers
<1>3. ASSUME NEW t \in BoxThreads, NEW v \in BoxValues, Swap(t, v)
      PROVE  answer' \in Answers /\ answer'.op = "swap" /\ inner'.val = answer'.new /\ answer'.result = inner.val
  BY <1>0, <1>3, NewIsUnused DEF Swap, Answers
<1>4. ASSUME NEW t \in BoxThreads, EndCompareAndSwap(t)
      PROVE  /\ answer' \in Answers /\ answer'.op = "cas" /\ answer'.result = inner.val
             /\ inner'.val = IF inner.val = answer'.expected THEN answer'.new ELSE inner.val
  <2>1. /\ swapping[t].current = inner
        /\ swapping[t] \in [expected : BoxValues, desired : Allocation, current : Allocation]
    BY <1>4, BoxEnd
  <2>2. /\ inner' = Successor(swapping[t])
        /\ answer' = [op |-> "cas", expected |-> swapping[t].expected, new |-> swapping[t].desired.val,
                      result |-> swapping[t].current.val]
    BY <1>4 DEF EndCompareAndSwap
  <2>3. swapping[t].expected \in BoxValues /\ swapping[t].desired.val \in BoxValues
    BY <2>1 DEF Allocation
  <2>4. answer' \in Answers BY <1>0, <2>1, <2>2, <2>3 DEF Answers
  <2> QED BY <2>1, <2>2, <2>4 DEF Successor
<1>5. ASSUME NEW t \in BoxThreads,
             Retry(t) \/ \E v, w \in BoxValues : BeginCompareAndSwap(t, v, w)
      PROVE  answer' = None /\ inner' = inner
  BY <1>5 DEF Retry, BeginCompareAndSwap
<1>6. \A a \in Answers : a # None BY BoxAssumption
<1>7. PICK t \in BoxThreads :
        \/ Ref(t) \/ EndCompareAndSwap(t) \/ Retry(t)
        \/ \E v \in BoxValues : Set(t, v) \/ Swap(t, v) \/ \E w \in BoxValues : BeginCompareAndSwap(t, v, w)
  BY DEF BoxNext
<1>8. CASE Ref(t) BY <1>1, <1>6, <1>8
<1>9. CASE EndCompareAndSwap(t) BY <1>4, <1>6, <1>9
<1>10. CASE Retry(t) BY <1>5, <1>10
<1>11. ASSUME NEW v \in BoxValues, Set(t, v)
       PROVE  answer' # None /\ answer'.op = "set" /\ inner'.val = answer'.new
  BY <1>2, <1>6, <1>11
<1>12. ASSUME NEW v \in BoxValues, Swap(t, v)
       PROVE  answer' # None /\ answer'.op = "swap" /\ inner'.val = answer'.new /\ answer'.result = inner.val
  BY <1>3, <1>6, <1>12
<1>13. ASSUME NEW v \in BoxValues, NEW w \in BoxValues, BeginCompareAndSwap(t, v, w)
       PROVE  answer' = None /\ inner' = inner
  BY <1>5, <1>13
<1> QED BY <1>7, <1>8, <1>9, <1>10, <1>11, <1>12, <1>13

\* Compare-and-swap is one step, for any number of threads, values and addresses: the
\* exchange compares addresses, and no address in use is given to a new allocation.
THEOREM AnswersAreAtomicHolds == BoxSpec => AnswersAreAtomic
<1> DEFINE Answered ==
        LET old == inner.val
            new == inner'.val
        IN IF answer' = None THEN new = old
           ELSE CASE answer'.op = "ref"  -> answer'.result = old /\ new = old
                  [] answer'.op = "set"  -> new = answer'.new
                  [] answer'.op = "swap" -> new = answer'.new /\ answer'.result = old
                  [] answer'.op = "cas"  -> /\ answer'.result = old
                                            /\ new = IF old = answer'.expected THEN answer'.new ELSE old
<1>1. BoxInit => BoxInv BY DEF BoxInit, BoxInv, Busy, Allocation
<1>2. BoxInv /\ [BoxNext]_boxVars => BoxInv' BY BoxKept
<1>3. BoxInv /\ [BoxNext]_boxVars => [Answered]_boxVars BY BoxAnswers
<1>4. BoxSpec => [][Answered]_boxVars BY <1>1, <1>2, <1>3, PTL DEF BoxSpec
<1> QED BY <1>4 DEF AnswersAreAtomic

-----------------------------------------------------------------------------
(* Records.                                                                 *)

\* A uid has a type in the store as soon as a type has been returned for it; a definition of it that
\* is still under way began before each of these types was made.
RecordInv ==
    /\ types \in Seq(Definition)
    /\ nongenerative \in [Uids -> Nat \cup {NoType}]
    /\ defining \in [Definers -> Definition \cup {NotDefining}]
    /\ \A d \in Definers : defining[d] # NotDefining => defining[d].since <= Len(types)
    /\ \A m \in made : m \in Uids \X Nat /\ m[2] \in 1 .. Len(types) /\ nongenerative[m[1]] # NoType
    /\ \A u \in Uids : nongenerative[u] # NoType => <<u, nongenerative[u]>> \in made
    /\ \A d \in Definers, m \in made :
          defining[d] # NotDefining /\ defining[d].uid = m[1] => defining[d].since < m[2]
    /\ OneTypePerUid

LEMMA RecordStart == RecordInit => RecordInv
  BY RecordsAssumption DEF RecordInit, RecordInv, OneTypePerUid

\* What is found has been returned before.
LEMMA FindTypeKept ==
  ASSUME RecordInv, NEW d \in Definers, NEW u \in Uids, FindType(d, u)
  PROVE  RecordInv'
<1>1. <<u, nongenerative[u]>> \in made BY DEF RecordInv, FindType
<1>2. UNCHANGED <<types, nongenerative, defining, made>> BY <1>1 DEF FindType
<1> QED BY <1>2 DEF RecordInv, OneTypePerUid

\* A definition only begins when no type of its uid has been returned.
LEMMA BeginTypeKept ==
  ASSUME RecordInv, NEW d \in Definers, NEW parent \in DOMAIN types \cup {NoType},
         NEW fields \in Shapes, NEW u \in Uids \cup {NoUid}, BeginType(d, parent, fields, u)
  PROVE  RecordInv'
<1> DEFINE new == [parent |-> parent, fields |-> fields, uid |-> u, since |-> Len(types),
                   rust |-> IF parent = NoType THEN NoType ELSE types[parent].rust]
<1>0. Len(types) \in Nat BY DEF RecordInv
<1>1. new \in Definition /\ new.uid = u /\ new.since = Len(types)
  <2>1. parent \in Nat \cup {NoType} BY DEF RecordInv
  <2>2. parent # NoType => types[parent] \in Definition BY DEF RecordInv
  <2>3. parent # NoType => types[parent].rust \in Nat \cup {NoType} BY <2>2 DEF Definition
  <2>4. fields \in Seq(BOOLEAN) BY RecordsAssumption
  <2> QED BY <1>0, <2>1, <2>3, <2>4 DEF Definition
<1>2. /\ defining' = [defining EXCEPT ![d] = new]
      /\ u # NoUid => nongenerative[u] = NoType
      /\ UNCHANGED <<types, nongenerative, made>>
  BY DEF BeginType
<1> HIDE DEF new
<1>3. defining' \in [Definers -> Definition \cup {NotDefining}] BY <1>1, <1>2 DEF RecordInv
<1>4. \A c \in Definers : defining'[c] = IF c = d THEN new ELSE defining[c]
  BY <1>2 DEF RecordInv
<1>5. \A c \in Definers : defining'[c] # NotDefining => defining'[c].since <= Len(types)
  BY <1>0, <1>1, <1>4 DEF RecordInv
<1>6. ASSUME NEW c \in Definers, NEW m \in made, defining'[c] # NotDefining, defining'[c].uid = m[1]
      PROVE  defining'[c].since < m[2]
  <2>1. m[1] \in Uids /\ nongenerative[m[1]] # NoType BY DEF RecordInv
  <2>2. CASE c = d BY <1>1, <1>2, <1>4, <1>6, <2>1, <2>2, RecordsAssumption
  <2>3. CASE c # d BY <1>4, <1>6, <2>3 DEF RecordInv
  <2> QED BY <2>2, <2>3
<1> QED BY <1>2, <1>3, <1>5, <1>6 DEF RecordInv, OneTypePerUid

\* The type that is made is later than all that have been returned for its uid.
LEMMA EndTypeKept ==
  ASSUME RecordInv, NEW d \in Definers, EndType(d)
  PROVE  RecordInv'
<1> DEFINE u == defining[d].uid
           N == Len(types)
           T == Len(types) + 1
<1>1. defining[d] \in Definition /\ u \in Uids \cup {NoUid} /\ defining[d].since \in Nat
  BY DEF RecordInv, EndType, Definition
<1>2. N \in Nat /\ T \in Nat /\ T = N + 1 BY DEF RecordInv
<1>3. /\ types' \in Seq(Definition) /\ Len(types') = T /\ types'[T] = defining[d]
      /\ \A n \in 1 .. N : types'[n] = types[n]
  BY <1>1 DEF RecordInv, EndType
<1>4. defining' = [defining EXCEPT ![d] = NotDefining] BY DEF EndType
<1>5. defining' \in [Definers -> Definition \cup {NotDefining}] BY <1>4 DEF RecordInv
<1>6. \A c \in Definers : defining'[c] # NotDefining => c # d /\ defining'[c] = defining[c]
  BY <1>4 DEF RecordInv
<1>7. \A c \in Definers : defining'[c] # NotDefining => defining'[c].since \in Nat /\ defining'[c].since <= N
  BY <1>6 DEF RecordInv, Definition
<1>8. \A m \in made : m[2] \in 1 .. N BY DEF RecordInv
<1>9. OneTypePerUid /\ \A m \in made : m \in Uids \X Nat BY DEF RecordInv
<1>10. CASE u = NoUid
  <2>1. UNCHANGED <<nongenerative, made>> BY <1>10 DEF EndType
  <2> HIDE DEF u, T, N
  <2>2. OneTypePerUid' BY <1>3, <1>8, <1>9, <2>1 DEF OneTypePerUid
  <2>3. \A c \in Definers, m \in made' :
          defining'[c] # NotDefining /\ defining'[c].uid = m[1] => defining'[c].since < m[2]
    BY <1>6, <2>1 DEF RecordInv
  <2>4. \A m \in made' : m \in Uids \X Nat /\ m[2] \in 1 .. Len(types') /\ nongenerative'[m[1]] # NoType
    BY <1>2, <1>3, <1>8, <2>1 DEF RecordInv
  <2>5. \A c \in Definers : defining'[c] # NotDefining => defining'[c].since <= Len(types')
    BY <1>2, <1>3, <1>7
  <2>6. /\ nongenerative' \in [Uids -> Nat \cup {NoType}]
        /\ \A v \in Uids : nongenerative'[v] # NoType => <<v, nongenerative'[v]>> \in made'
    BY <2>1 DEF RecordInv
  <2> QED BY <1>3, <1>5, <2>2, <2>3, <2>4, <2>5, <2>6 DEF RecordInv
<1>11. CASE u # NoUid
  <2>1. nongenerative' = [nongenerative EXCEPT ![u] = T] /\ made' = made \cup {<<u, T>>}
    BY <1>11 DEF EndType
  <2>2. u \in Uids BY <1>1, <1>11
  <2>3. \A m \in made : m[1] = u => defining[d].since < m[2]
    BY DEF RecordInv, EndType
  <2> HIDE DEF u, T, N
  <2>4. /\ nongenerative' \in [Uids -> Nat \cup {NoType}] /\ nongenerative'[u] = T
        /\ \A v \in Uids : v # u => nongenerative'[v] = nongenerative[v]
        /\ T # NoType
    BY <1>2, <2>1, <2>2, RecordsAssumption DEF RecordInv
  <2>5. \A m \in made' : m \in Uids \X Nat /\ m[2] \in 1 .. Len(types') /\ nongenerative'[m[1]] # NoType
    <3> SUFFICES ASSUME NEW m \in made'
                 PROVE  m \in Uids \X Nat /\ m[2] \in 1 .. Len(types') /\ nongenerative'[m[1]] # NoType
      OBVIOUS
    <3>1. CASE m = <<u, T>> BY <1>2, <1>3, <2>2, <2>4, <3>1
    <3>2. CASE m \in made
      <4>1. m \in Uids \X Nat /\ nongenerative[m[1]] # NoType BY <3>2 DEF RecordInv
      <4>2. m[2] \in 1 .. T BY <1>2, <1>8, <3>2
      <4> QED BY <1>3, <2>4, <4>1, <4>2
    <3> QED BY <2>1, <3>1, <3>2
  <2>6. \A v \in Uids : nongenerative'[v] # NoType => <<v, nongenerative'[v]>> \in made'
    BY <2>1, <2>4 DEF RecordInv
  <2>7. ASSUME NEW c \in Definers, NEW m \in made', defining'[c] # NotDefining, defining'[c].uid = m[1]
        PROVE  defining'[c].since < m[2]
    <3>1. CASE m = <<u, T>> BY <1>2, <1>7, <2>7, <3>1
    <3>2. CASE m \in made BY <1>6, <2>7, <3>2 DEF RecordInv
    <3> QED BY <2>1, <3>1, <3>2
  <2>8. ASSUME NEW m \in made', NEW n \in made', m[1] = n[1], m[2] < n[2]
        PROVE  types'[n[2]].since < m[2]
    <3>1. CASE n = <<u, T>>
      <4>1. m \in made BY <1>2, <2>1, <2>8, <3>1
      <4>2. defining[d].since < m[2] BY <2>3, <2>8, <3>1, <4>1
      <4> QED BY <1>3, <3>1, <4>2
    <3>2. CASE n \in made
      <4>1. n[2] \in 1 .. N BY <1>8, <3>2
      <4>2. m \in made BY <1>2, <2>1, <2>8, <4>1
      <4>3. types[n[2]].since < m[2] BY <1>9, <2>8, <3>2, <4>2 DEF OneTypePerUid
      <4> QED BY <1>3, <4>1, <4>3
    <3> QED BY <2>1, <3>1, <3>2
  <2>9. OneTypePerUid' BY <2>8 DEF OneTypePerUid
  <2>10. \A c \in Definers : defining'[c] # NotDefining => defining'[c].since <= Len(types')
    BY <1>2, <1>3, <1>7
  <2> QED BY <1>3, <1>5, <2>4, <2>5, <2>6, <2>7, <2>9, <2>10 DEF RecordInv
<1> QED BY <1>10, <1>11

LEMMA RecordKept == RecordInv /\ [RecordNext]_recordVars => RecordInv'
<1> SUFFICES ASSUME RecordInv, [RecordNext]_recordVars PROVE RecordInv'
  OBVIOUS
<1>1. ASSUME UNCHANGED <<types, nongenerative, defining, made>> PROVE RecordInv'
  BY <1>1 DEF RecordInv, OneTypePerUid
<1>2. ASSUME NEW T, NEW byDefault, Construct(T, byDefault) PROVE RecordInv'
  BY <1>1, <1>2 DEF Construct
<1>3. ASSUME NEW r, NEW T, NEW i, Mutate(r, T, i) PROVE RecordInv'
  <2>1. UNCHANGED <<types, nongenerative, defining, made>> BY <1>3, Zenon DEF Mutate
  <2> QED BY <1>1, <2>1
<1>4. CASE UNCHANGED recordVars BY <1>1, <1>4 DEF recordVars
<1> QED BY <1>2, <1>3, <1>4, FindTypeKept, BeginTypeKept, EndTypeKept DEF RecordNext

\* For any threads, types, fields and parents: two definitions of a nongenerative type
\* return different types only if they overlapped; make_record_type_descriptor unlocks
\* the store between the lookup and the insertion, so overlapping ones may.
THEOREM OneTypePerUidHolds == RecordSpec => []OneTypePerUid
<1>1. RecordInv => OneTypePerUid BY DEF RecordInv
<1>2. RecordInit => RecordInv BY RecordStart
<1>3. RecordInv /\ [RecordNext]_recordVars => RecordInv' BY RecordKept
<1> QED BY <1>1, <1>2, <1>3, PTL DEF RecordSpec

-----------------------------------------------------------------------------
(* The fields of records. The recursive functions of Records have values for  *)
(* every hierarchy of types, and what they say of a type follows from what    *)
(* they say of its parent.                                                    *)

\* A set of numbers has a least one.
LEMMA Least ==
  ASSUME NEW S, S \subseteq Nat, S # {}
  PROVE  \E x \in S : \A y \in S : x <= y
<1>1. PICK x \in S : \A y \in S : ~(<<y, x>> \in OpToRel(<, Nat))
  BY NatLessThanWellFounded, WFMin, Zenon
<1>2. \A y \in S : ~(y < x) BY <1>1 DEF OpToRel
<1>3. \A y \in S : x <= y BY <1>2
<1> QED BY <1>3

\* A type is defined after its parent.
Fine(ty) ==
    /\ ty \in Seq(Definition)
    /\ \A T \in DOMAIN ty : ty[T].parent \in {NoType} \cup 1 .. (T - 1)

\* A type is a definition, with a sequence of fields.
LEMMA FieldsIs ==
  ASSUME NEW ty, Fine(ty), NEW T \in DOMAIN ty
  PROVE  ty[T] \in Definition /\ ty[T].fields \in Seq(BOOLEAN) /\ Len(ty[T].fields) \in Nat
<1>1. ty[T] \in Definition BY ElementOfSeq, LenProperties DEF Fine
<1>2. ty[T].fields \in Seq(BOOLEAN) BY <1>1 DEF Definition
<1> QED BY <1>1, <1>2, LenProperties

\* What is said of a type by what is said of its parent: a function on the types p (0 for no parent).
FromParent(f, p, b, s, n) == \A T \in 1 .. n : f[T] = IF p[T] = 0 THEN b[T] ELSE s[T][f[p[T]]]

\* There is such a function: the least type without a value would have a parent with one.
LEMMA FromParentExists ==
  ASSUME NEW n \in Nat, NEW p \in [1 .. n -> Nat], \A T \in 1 .. n : p[T] < T,
         NEW V, NEW b \in [1 .. n -> V], NEW s \in [1 .. n -> [V -> V]]
  PROVE  \E f \in [1 .. n -> V] : FromParent(f, p, b, s, n)
<1> DEFINE Upto(m) == \E f \in [1 .. m -> V] : FromParent(f, p, b, s, m)
           Bad == {m \in 0 .. n : ~Upto(m)}
<1> SUFFICES ASSUME Bad # {} PROVE FALSE OBVIOUS
<1>1. PICK m \in Bad : \A i \in Bad : m <= i
  <2>1. Bad \subseteq Nat OBVIOUS
  <2> QED BY <2>1, Least
<1>2. m \in 0 .. n /\ ~Upto(m) OBVIOUS
<1>3. m # 0
  <2>1. <<>> \in [1 .. 0 -> V] /\ FromParent(<<>>, p, b, s, 0) BY DEF FromParent
  <2> QED BY <1>2, <2>1
<1>4. m - 1 \in 0 .. n /\ m - 1 \notin Bad
  <2>1. m - 1 \in 0 .. n /\ m - 1 < m BY <1>2, <1>3
  <2>2. m - 1 \in Bad => m <= m - 1 BY <1>1
  <2> HIDE DEF Bad
  <2> QED BY <1>2, <2>1, <2>2
<1>5. PICK f \in [1 .. m - 1 -> V] : FromParent(f, p, b, s, m - 1) BY <1>4
<1> DEFINE last == IF p[m] = 0 THEN b[m] ELSE s[m][f[p[m]]]
           g == [T \in 1 .. m |-> IF T = m THEN last ELSE f[T]]
<1>6. m \in 1 .. n BY <1>2, <1>3
<1>7. last \in V
  <2>1. p[m] \in Nat /\ p[m] < m BY <1>6
  <2>2. p[m] # 0 => p[m] \in 1 .. m - 1 BY <2>1, <1>6
  <2>3. b[m] \in V /\ s[m] \in [V -> V] BY <1>6
  <2> QED BY <2>2, <2>3
<1> HIDE DEF last
<1>8. g \in [1 .. m -> V] BY <1>6, <1>7
<1>9. ASSUME NEW T \in 1 .. m PROVE g[T] = IF p[T] = 0 THEN b[T] ELSE s[T][g[p[T]]]
  <2>1. T \in 1 .. n BY <1>6
  <2>2. p[T] \in Nat /\ p[T] < T BY <2>1
  <2>3. p[T] # 0 => p[T] \in 1 .. m - 1 /\ p[T] \in 1 .. m /\ p[T] # m BY <2>2, <1>6
  <2>4. p[T] # 0 => g[p[T]] = f[p[T]] BY <2>3
  <2>5. CASE T = m BY <2>4, <2>5 DEF last
  <2>6. CASE T # m
    <3>1. T \in 1 .. m - 1 BY <1>6, <2>6
    <3>2. g[T] = f[T] BY <2>6
    <3>3. f[T] = IF p[T] = 0 THEN b[T] ELSE s[T][f[p[T]]] BY <1>5, <3>1 DEF FromParent
    <3> QED BY <2>4, <3>2, <3>3
  <2> QED BY <2>5, <2>6
<1>10. FromParent(g, p, b, s, m) BY <1>9 DEF FromParent
<1> QED BY <1>2, <1>8, <1>10

\* The parents of ty as numbers.
ParentOf(ty) == [T \in 1 .. Len(ty) |-> IF ty[T].parent = NoType THEN 0 ELSE ty[T].parent]

\* Fine types have parents of smaller numbers.
LEMMA ParentOfIs ==
  ASSUME NEW ty, Fine(ty)
  PROVE  /\ Len(ty) \in Nat /\ DOMAIN ty = 1 .. Len(ty)
         /\ ParentOf(ty) \in [1 .. Len(ty) -> Nat]
         /\ \A T \in 1 .. Len(ty) :
              /\ ParentOf(ty)[T] < T
              /\ ParentOf(ty)[T] = 0 <=> ty[T].parent = NoType
              /\ ty[T].parent # NoType => ParentOf(ty)[T] = ty[T].parent /\ ty[T].parent \in 1 .. (T - 1)
<1>1. Len(ty) \in Nat /\ DOMAIN ty = 1 .. Len(ty) BY LenProperties DEF Fine
<1>2. ASSUME NEW T \in 1 .. Len(ty)
      PROVE  ty[T].parent # NoType => ty[T].parent \in 1 .. (T - 1) /\ ty[T].parent \in Nat /\ ty[T].parent < T
  <2>1. T \in Nat BY <1>1
  <2>2. ty[T].parent \in {NoType} \cup 1 .. (T - 1) BY <1>1 DEF Fine
  <2>3. SUFFICES ASSUME ty[T].parent # NoType
                 PROVE ty[T].parent \in 1 .. (T - 1) /\ ty[T].parent \in Nat /\ ty[T].parent < T
    OBVIOUS
  <2>4. PICK x : x = ty[T].parent OBVIOUS
  <2>5. x \in 1 .. (T - 1) BY <2>2, <2>3, <2>4
  <2>6. x \in Nat /\ x < T BY <2>1, <2>5
  <2> QED BY <2>4, <2>5, <2>6
<1>3. ASSUME NEW T \in 1 .. Len(ty) PROVE ty[T].parent # NoType => ty[T].parent # 0
  <2>1. T \in Nat BY <1>1
  <2> QED BY <1>2, <2>1
<1> QED BY <1>1, <1>2, <1>3 DEF ParentOf

-----------------------------------------------------------------------------
LineageEq(f, ty) ==
    f = [T \in DOMAIN ty |-> IF ty[T].parent = NoType THEN <<T>> ELSE Append(f[ty[T].parent], T)]

InheritedEq(g, ty) ==
    g = [T \in DOMAIN ty |-> IF ty[T].parent = NoType THEN 0 ELSE g[ty[T].parent] + Len(ty[ty[T].parent].fields)]

\* The names of fields, as values that a program puts into them.
Args == Seq(Nat \X Nat)

\* How many fields a type has, by the sum g.
Total(ty, g, T) == Len(ty[T].fields) + g[T]

SplitEq(h, ty, g) ==
    h = [T \in DOMAIN ty |-> [args \in Args |->
           IF ty[T].parent = NoType THEN <<args>>
           ELSE IF Len(args) < Total(ty, g, ty[T].parent) THEN <<>>
           ELSE Append(h[ty[T].parent][SubSeq(args, 1, Total(ty, g, ty[T].parent))],
                       SubSeq(args, Total(ty, g, ty[T].parent) + 1, Len(args)))]]

\* Some function satisfies the equation of Lineage.
LEMMA LineageExists ==
  ASSUME NEW ty, Fine(ty)
  PROVE  \E f : LineageEq(f, ty)
<1> DEFINE n == Len(ty)
           p == ParentOf(ty)
           b == [T \in 1 .. n |-> <<T>>]
           s == [T \in 1 .. n |-> [q \in Seq(Nat) |-> Append(q, T)]]
<1>1. n \in Nat /\ DOMAIN ty = 1 .. n /\ p \in [1 .. n -> Nat] /\ \A T \in 1 .. n : p[T] < T BY ParentOfIs
<1>2. b \in [1 .. n -> Seq(Nat)] BY <1>1
<1>3. s \in [1 .. n -> [Seq(Nat) -> Seq(Nat)]]
  <2>1. ASSUME NEW T \in 1 .. n, NEW q \in Seq(Nat) PROVE Append(q, T) \in Seq(Nat)
    BY <1>1, AppendProperties
  <2> QED BY <2>1
<1> HIDE DEF n, p, b, s
<1>4. PICK f \in [1 .. n -> Seq(Nat)] : FromParent(f, p, b, s, n) BY <1>1, <1>2, <1>3, FromParentExists
<1>5. ASSUME NEW T \in 1 .. n
      PROVE  f[T] = IF ty[T].parent = NoType THEN <<T>> ELSE Append(f[ty[T].parent], T)
  <2>1. /\ p[T] = 0 <=> ty[T].parent = NoType
        /\ ty[T].parent # NoType => p[T] = ty[T].parent /\ ty[T].parent \in 1 .. (T - 1)
    BY ParentOfIs DEF n, p
  <2>2. f[T] = IF p[T] = 0 THEN b[T] ELSE s[T][f[p[T]]] BY <1>4 DEF FromParent
  <2>3. CASE ty[T].parent = NoType BY <2>1, <2>2, <2>3 DEF b
  <2>4. CASE ty[T].parent # NoType
    <3>1. ty[T].parent \in 1 .. n BY <1>1, <2>1, <2>4
    <3>2. f[ty[T].parent] \in Seq(Nat) BY <3>1
    <3>3. s[T][f[ty[T].parent]] = Append(f[ty[T].parent], T) BY <3>2 DEF s
    <3> QED BY <2>1, <2>2, <2>4, <3>3
  <2> QED BY <2>3, <2>4
<1>6. LineageEq(f, ty) BY <1>1, <1>5 DEF LineageEq
<1> QED BY <1>6

\* Some function satisfies the equation of NumInherited.
LEMMA InheritedExists ==
  ASSUME NEW ty, Fine(ty)
  PROVE  \E g : InheritedEq(g, ty)
<1> DEFINE n == Len(ty)
           p == ParentOf(ty)
           b == [T \in 1 .. n |-> 0]
           own(T) == Len(ty[p[T]].fields)
           s == [T \in 1 .. n |-> [q \in Nat |-> IF p[T] = 0 THEN 0 ELSE q + own(T)]]
<1>1. n \in Nat /\ DOMAIN ty = 1 .. n /\ p \in [1 .. n -> Nat] /\ \A T \in 1 .. n : p[T] < T BY ParentOfIs
<1>2. b \in [1 .. n -> Nat] OBVIOUS
<1>3. s \in [1 .. n -> [Nat -> Nat]]
  <2>1. ASSUME NEW T \in 1 .. n, p[T] # 0 PROVE own(T) \in Nat
    <3>1. p[T] \in Nat /\ p[T] < T BY <1>1
    <3>2. p[T] \in DOMAIN ty BY <1>1, <2>1, <3>1
    <3> QED BY <3>2, FieldsIs
  <2> HIDE DEF own
  <2>2. ASSUME NEW T \in 1 .. n, NEW q \in Nat PROVE (IF p[T] = 0 THEN 0 ELSE q + own(T)) \in Nat
    BY <2>1
  <2> QED BY <2>2
<1> HIDE DEF n, p, b, s
<1>4. PICK f \in [1 .. n -> Nat] : FromParent(f, p, b, s, n) BY <1>1, <1>2, <1>3, FromParentExists
<1>5. ASSUME NEW T \in 1 .. n
      PROVE  f[T] = IF ty[T].parent = NoType THEN 0 ELSE f[ty[T].parent] + Len(ty[ty[T].parent].fields)
  <2>1. /\ p[T] = 0 <=> ty[T].parent = NoType
        /\ ty[T].parent # NoType => p[T] = ty[T].parent /\ ty[T].parent \in 1 .. (T - 1)
    BY ParentOfIs DEF n, p
  <2>2. f[T] = IF p[T] = 0 THEN b[T] ELSE s[T][f[p[T]]] BY <1>4 DEF FromParent
  <2>3. CASE ty[T].parent = NoType BY <2>1, <2>2, <2>3 DEF b
  <2>4. CASE ty[T].parent # NoType
    <3>1. ty[T].parent \in 1 .. n BY <1>1, <2>1, <2>4
    <3>2. f[ty[T].parent] \in Nat BY <3>1
    <3>3. s[T][f[ty[T].parent]] = f[ty[T].parent] + own(T) BY <2>1, <2>4, <3>2 DEF s
    <3> QED BY <2>1, <2>2, <2>4, <3>3
  <2> QED BY <2>3, <2>4
<1>6. InheritedEq(f, ty) BY <1>1, <1>5 DEF InheritedEq
<1> QED BY <1>6

\* A function on 1 .. m is a sequence of m elements.
LEMMA SeqOfFunction ==
  ASSUME NEW A, NEW m \in Nat, NEW q \in [1 .. m -> A]
  PROVE  q \in Seq(A) /\ Len(q) = m
OBVIOUS

\* The first m elements and the others.
LEMMA PartIsSeq ==
  ASSUME NEW A, NEW q \in Seq(A), NEW m \in Nat, m <= Len(q)
  PROVE  /\ SubSeq(q, 1, m) \in Seq(A) /\ Len(SubSeq(q, 1, m)) = m
         /\ SubSeq(q, m + 1, Len(q)) \in Seq(A) /\ Len(SubSeq(q, m + 1, Len(q))) = Len(q) - m
<1>1. Len(q) \in Nat /\ \A i \in 1 .. Len(q) : q[i] \in A BY LenProperties, ElementOfSeq
<1>2. PICK n \in Nat : n = Len(q) BY <1>1
<1>3. (\A i \in 1 .. m : q[i] \in A) /\ (\A i \in m + 1 .. n : q[i] \in A) BY <1>1, <1>2
<1>4. SubSeq(q, 1, m) \in Seq(A) /\ Len(SubSeq(q, 1, m)) = m BY <1>3, SubSeqProperties
<1>5. SubSeq(q, m + 1, n) \in Seq(A) /\ Len(SubSeq(q, m + 1, n)) = n - m BY <1>2, <1>3, SubSeqProperties
<1> QED BY <1>2, <1>4, <1>5

\* Some function satisfies the equation of Split.
LEMMA SplitExists ==
  ASSUME NEW ty, Fine(ty), NEW g, \A T \in DOMAIN ty : g[T] \in Nat
  PROVE  \E h : SplitEq(h, ty, g)
<1> DEFINE n == Len(ty)
           p == ParentOf(ty)
           V == [Args -> Seq(Args)]
           m(T) == Total(ty, g, p[T])
           b == [T \in 1 .. n |-> [args \in Args |-> <<args>>]]
           s == [T \in 1 .. n |-> [q \in V |-> [args \in Args |->
                    IF p[T] = 0 THEN <<args>> ELSE IF Len(args) < m(T) THEN <<>>
                    ELSE Append(q[SubSeq(args, 1, m(T))], SubSeq(args, m(T) + 1, Len(args)))]]]
<1>1. n \in Nat /\ DOMAIN ty = 1 .. n /\ p \in [1 .. n -> Nat] /\ \A T \in 1 .. n : p[T] < T BY ParentOfIs
<1>2. b \in [1 .. n -> V]
  <2>1. ASSUME NEW args \in Args PROVE <<args>> \in Seq(Args) OBVIOUS
  <2> QED BY <2>1
<1>3. s \in [1 .. n -> [V -> V]]
  <2>1. ASSUME NEW T \in 1 .. n, NEW q \in V, NEW args \in Args, p[T] # 0, ~(Len(args) < m(T))
        PROVE  Append(q[SubSeq(args, 1, m(T))], SubSeq(args, m(T) + 1, Len(args))) \in Seq(Args)
    <3>1. p[T] \in Nat /\ p[T] < T BY <1>1
    <3>2. p[T] \in DOMAIN ty BY <1>1, <2>1, <3>1
    <3>3. m(T) \in Nat BY <3>2, FieldsIs DEF Total
    <3>4. Len(args) \in Nat /\ args \in Seq(Nat \X Nat) BY LenProperties DEF Args
    <3> HIDE DEF m
    <3>5. SubSeq(args, 1, m(T)) \in Args /\ SubSeq(args, m(T) + 1, Len(args)) \in Args
      <4>1. m(T) <= Len(args) BY <2>1, <3>3, <3>4
      <4> QED BY ONLY <3>3, <3>4, <4>1, PartIsSeq, Zenon DEF Args
    <3>6. q[SubSeq(args, 1, m(T))] \in Seq(Args) BY <3>5
    <3> QED BY <3>5, <3>6, AppendProperties
  <2> HIDE DEF m
  <2>2. ASSUME NEW args \in Args PROVE <<args>> \in Seq(Args) OBVIOUS
  <2>3. ASSUME NEW T \in 1 .. n, NEW q \in V
        PROVE  [args \in Args |->
                    IF p[T] = 0 THEN <<args>> ELSE IF Len(args) < m(T) THEN <<>>
                    ELSE Append(q[SubSeq(args, 1, m(T))], SubSeq(args, m(T) + 1, Len(args)))] \in V
    BY <2>1, <2>2
  <2> HIDE DEF V
  <2> QED BY <2>3
<1> HIDE DEF n, p, b, s, V
<1>4. PICK f \in [1 .. n -> V] : FromParent(f, p, b, s, n) BY <1>1, <1>2, <1>3, FromParentExists
<1>5. ASSUME NEW T \in 1 .. n
      PROVE  f[T] = [args \in Args |->
                 IF ty[T].parent = NoType THEN <<args>>
                 ELSE IF Len(args) < Total(ty, g, ty[T].parent) THEN <<>>
                 ELSE Append(f[ty[T].parent][SubSeq(args, 1, Total(ty, g, ty[T].parent))],
                             SubSeq(args, Total(ty, g, ty[T].parent) + 1, Len(args)))]
  <2>1. /\ p[T] = 0 <=> ty[T].parent = NoType
        /\ ty[T].parent # NoType => p[T] = ty[T].parent /\ ty[T].parent \in 1 .. (T - 1)
    BY ParentOfIs DEF n, p
  <2>2. f[T] = IF p[T] = 0 THEN b[T] ELSE s[T][f[p[T]]] BY <1>4 DEF FromParent
  <2>3. CASE ty[T].parent = NoType
    <3>1. f[T] = b[T] BY <2>1, <2>2, <2>3
    <3>2. b[T] = [args \in Args |-> <<args>>] BY DEF b
    <3> QED BY <2>3, <3>1, <3>2
  <2>4. CASE ty[T].parent # NoType
    <3> DEFINE q == ty[T].parent
    <3>1. q \in 1 .. n /\ p[T] = q /\ p[T] # 0 BY <1>1, <2>1, <2>4
    <3>2. f[q] \in V /\ m(T) = Total(ty, g, q) BY <3>1
    <3>3. f[T] = s[T][f[q]] BY <2>2, <3>1
    <3> HIDE DEF m, q
    <3>4. s[T][f[q]] = [args \in Args |->
                    IF p[T] = 0 THEN <<args>> ELSE IF Len(args) < m(T) THEN <<>>
                    ELSE Append(f[q][SubSeq(args, 1, m(T))], SubSeq(args, m(T) + 1, Len(args)))]
      BY <3>2, Zenon DEF s
    <3>5. s[T][f[q]] = [args \in Args |->
                    IF q = NoType THEN <<args>> ELSE IF Len(args) < m(T) THEN <<>>
                    ELSE Append(f[q][SubSeq(args, 1, m(T))], SubSeq(args, m(T) + 1, Len(args)))]
      BY <2>4, <3>1, <3>4 DEF q
    <3> QED BY <3>2, <3>3, <3>5, Zenon DEF q
  <2> QED BY <2>3, <2>4
<1>6. DOMAIN f = 1 .. n OBVIOUS
<1> DEFINE Step(T) == [args \in Args |->
                 IF ty[T].parent = NoType THEN <<args>>
                 ELSE IF Len(args) < Total(ty, g, ty[T].parent) THEN <<>>
                 ELSE Append(f[ty[T].parent][SubSeq(args, 1, Total(ty, g, ty[T].parent))],
                             SubSeq(args, Total(ty, g, ty[T].parent) + 1, Len(args)))]
<1>7. \A T \in 1 .. n : f[T] = Step(T) BY <1>5
<1>8. f = [T \in 1 .. n |-> Step(T)]
  <2> HIDE DEF Step
  <2> QED BY <1>7
<1>9. SplitEq(f, ty, g) BY <1>1, <1>8, Zenon DEF SplitEq
<1> QED BY <1>9

-----------------------------------------------------------------------------
(* What is written one type behind the other.                                *)

LEMMA ToSetSingle == \A x : ToSet(<<x>>) = {x}
  BY DEF ToSet

\* An element more.
LEMMA ToSetAppend ==
  ASSUME NEW A, NEW q \in Seq(A), NEW x \in A
  PROVE  ToSet(Append(q, x)) = ToSet(q) \cup {x}
<1>1. Len(q) \in Nat /\ DOMAIN q = 1 .. Len(q) BY LenProperties
<1>2. /\ DOMAIN Append(q, x) = 1 .. Len(q) + 1
      /\ \A i \in 1 .. Len(q) : Append(q, x)[i] = q[i]
      /\ Append(q, x)[Len(q) + 1] = x
  BY <1>1, AppendProperties
<1> QED BY <1>1, <1>2 DEF ToSet

\* q[1] \o ... \o q[i], for every i up to m.
Flattening(f, q, m) == f = [i \in 1 .. m |-> IF i = 1 THEN q[i] ELSE f[i - 1] \o q[i]]

\* The partial results of FlattenSeq exist for every sequence.
LEMMA FlatteningExists ==
  ASSUME NEW q, NEW n \in Nat
  PROVE  \E f : Flattening(f, q, n)
<1> DEFINE Bad == {m \in Nat : ~\E f : Flattening(f, q, m)}
<1> SUFFICES ASSUME Bad # {} PROVE FALSE OBVIOUS
<1>1. PICK m \in Bad : \A i \in Bad : m <= i BY Least
<1>2. m # 0
  <2>1. Flattening(<<>>, q, 0) BY DEF Flattening
  <2> QED BY <2>1
<1>3. m - 1 \in Nat /\ m - 1 \notin Bad BY <1>1, <1>2
<1>4. PICK f : Flattening(f, q, m - 1) BY <1>3
<1> DEFINE g == [i \in 1 .. m |-> IF i = 1 THEN q[i] ELSE f[i - 1] \o q[i]]
<1>5. ASSUME NEW i \in 1 .. m, i # 1 PROVE g[i - 1] = f[i - 1]
  <2>1. i - 1 \in 1 .. m - 1 /\ i - 1 \in 1 .. m BY <1>3, <1>5
  <2>2. f[i - 1] = IF i - 1 = 1 THEN q[i - 1] ELSE f[i - 1 - 1] \o q[i - 1] BY <1>4, <2>1, Zenon DEF Flattening
  <2>3. g[i - 1] = IF i - 1 = 1 THEN q[i - 1] ELSE f[i - 1 - 1] \o q[i - 1] BY <2>1, Zenon
  <2> QED BY <2>2, <2>3
<1>6. g = [i \in 1 .. m |-> IF i = 1 THEN q[i] ELSE g[i - 1] \o q[i]]
  BY <1>5, Zenon
<1>7. Flattening(g, q, m) BY <1>6, Zenon DEF Flattening
<1> QED BY <1>7

\* The same partial results for a sequence and for the longer one.
LEMMA FlatteningAgrees ==
  ASSUME NEW X, NEW q \in Seq(X), NEW x \in X, NEW f, NEW g,
         Flattening(f, q, Len(q)), Flattening(g, Append(q, x), Len(q) + 1)
  PROVE  /\ \A i \in 1 .. Len(q) : g[i] = f[i]
         /\ g[Len(q) + 1] = IF Len(q) = 0 THEN x ELSE f[Len(q)] \o x
<1>1. Len(q) \in Nat BY LenProperties
<1>2. /\ \A i \in 1 .. Len(q) : Append(q, x)[i] = q[i]
      /\ Append(q, x)[Len(q) + 1] = x
  BY <1>1, AppendProperties
<1> DEFINE Bad == {i \in 1 .. Len(q) : g[i] # f[i]}
<1>3. Bad = {}
  <2> SUFFICES ASSUME Bad # {} PROVE FALSE OBVIOUS
  <2>1. PICK i \in Bad : \A j \in Bad : i <= j
    <3>1. Bad \subseteq Nat OBVIOUS
    <3> QED BY <3>1, Least
  <2>2. i \in 1 .. Len(q) /\ i \in 1 .. Len(q) + 1 /\ g[i] # f[i] BY <1>1
  <2>3. f[i] = IF i = 1 THEN q[i] ELSE f[i - 1] \o q[i] BY <2>2, Zenon DEF Flattening
  <2>4. g[i] = IF i = 1 THEN Append(q, x)[i] ELSE g[i - 1] \o Append(q, x)[i] BY <2>2, Zenon DEF Flattening
  <2>5. Append(q, x)[i] = q[i] BY <1>2, <2>2
  <2>6. i # 1 => g[i - 1] = f[i - 1]
    <3> SUFFICES ASSUME i # 1 PROVE g[i - 1] = f[i - 1] OBVIOUS
    <3>1. i - 1 \in 1 .. Len(q) /\ i - 1 < i BY <1>1, <2>2
    <3>2. i - 1 \in Bad => i <= i - 1 BY <2>1
    <3>3. i - 1 \notin Bad
      <4> HIDE DEF Bad
      <4> QED BY <2>2, <3>1, <3>2
    <3> QED BY <3>1, <3>3
  <2> QED BY <2>2, <2>3, <2>4, <2>5, <2>6
<1> DEFINE n == Len(q) + 1
<1>4. n \in 1 .. Len(q) + 1 /\ (n = 1 <=> Len(q) = 0) /\ n - 1 = Len(q) BY <1>1
<1>5. g[n] = IF n = 1 THEN Append(q, x)[n] ELSE g[n - 1] \o Append(q, x)[n] BY <1>4, Zenon DEF Flattening
<1>6. Len(q) # 0 => g[n - 1] = f[Len(q)]
  <2>1. Len(q) # 0 => Len(q) \in 1 .. Len(q) BY <1>1
  <2> QED BY <1>3, <1>4, <2>1
<1> QED BY <1>2, <1>3, <1>4, <1>5, <1>6

\* A sequence of one.
One(v) == <<v>>

Flat(r) == CHOOSE f : Flattening(f, r, Len(r))

\* FlattenSeq is the last of the partial results.
LEMMA FlattenIs ==
  ASSUME NEW r, Len(r) \in Nat, Len(r) # 0
  PROVE  Flattening(Flat(r), r, Len(r)) /\ FlattenSeq(r) = Flat(r)[Len(r)]
<1>2. \E f : Flattening(f, r, Len(r)) BY FlatteningExists
<1>3. FlattenSeq(r) = (CHOOSE f : Flattening(f, r, Len(r)))[Len(r)] BY Zenon DEF FlattenSeq, Flattening
<1> QED BY <1>2, <1>3, Zenon DEF Flat

\* FlattenSeq of one sequence, and with one more behind the others.
LEMMA FlattenAppend ==
  ASSUME NEW X, NEW q \in Seq(Seq(X)), NEW x \in Seq(X)
  PROVE  /\ FlattenSeq(One(x)) = x
         /\ Len(q) # 0 => FlattenSeq(Append(q, x)) = FlattenSeq(q) \o x
<1>0. Len(q) \in Nat BY LenProperties
<1>1. FlattenSeq(One(x)) = x
  <2> DEFINE r == <<x>>
  <2>1. r \in Seq(Seq(X)) /\ Len(r) = 1 /\ r[1] = x OBVIOUS
  <2> HIDE DEF r
  <2>2. Flattening(Flat(r), r, Len(r)) /\ FlattenSeq(r) = Flat(r)[Len(r)]
    <3>1. Len(r) \in Nat /\ Len(r) # 0 BY <2>1
    <3> QED BY <3>1, FlattenIs
  <2>3. 1 \in 1 .. Len(r) BY <2>1
  <2>4. Flat(r)[1] = r[1] BY <2>2, <2>3 DEF Flattening
  <2>5. FlattenSeq(r) = x BY <2>1, <2>2, <2>4
  <2> QED BY <2>5, Zenon DEF r, One
<1>2. ASSUME Len(q) # 0 PROVE FlattenSeq(Append(q, x)) = FlattenSeq(q) \o x
  <2>1. PICK r : r = Append(q, x) OBVIOUS
  <2>2. r \in Seq(Seq(X)) /\ Len(r) = Len(q) + 1 /\ Len(r) # 0 BY <1>0, <2>1, AppendProperties
  <2>3. Flattening(Flat(q), q, Len(q)) /\ FlattenSeq(q) = Flat(q)[Len(q)] BY <1>0, <1>2, FlattenIs
  <2>4. Flattening(Flat(r), r, Len(r)) /\ FlattenSeq(r) = Flat(r)[Len(r)] BY <1>0, <2>2, FlattenIs
  <2>5. Flattening(Flat(r), Append(q, x), Len(q) + 1) BY <2>1, <2>2, <2>4
  <2>6. Flat(r)[Len(q) + 1] = Flat(q)[Len(q)] \o x
    <3>1. PICK Y : Y = Seq(X) OBVIOUS
    <3>2. q \in Seq(Y) /\ x \in Y BY <3>1
    <3>3. Flat(r)[Len(q) + 1] = IF Len(q) = 0 THEN x ELSE Flat(q)[Len(q)] \o x
      <4>1. Flattening(Flat(q), q, Len(q)) /\ Flattening(Flat(r), Append(q, x), Len(q) + 1) BY <2>3, <2>5
      <4> QED BY <3>2, <4>1, FlatteningAgrees, ZenonT(60)
    <3> QED BY ONLY <1>2, <3>3, Zenon
  <2> QED BY <2>1, <2>2, <2>3, <2>4, <2>6
<1> QED BY <1>1, <1>2

-----------------------------------------------------------------------------
(* Along the lineage of a type.                                              *)

\* What x says of each type of the lineage f[T], the root first, and in one sequence.
Lines(x, f, T) == [i \in DOMAIN f[T] |-> x[f[T][i]]]
Along(x, f, T) == FlattenSeq(Lines(x, f, T))

\* A lineage is a sequence of types that ends in the type itself.
LEMMA LineageShape ==
  ASSUME NEW ty, Fine(ty), NEW f, LineageEq(f, ty), NEW T \in DOMAIN ty
  PROVE  f[T] \in Seq(DOMAIN ty) /\ Len(f[T]) # 0 /\ T \in ToSet(f[T])
<1> DEFINE D == DOMAIN ty
           Good(t) == f[t] \in Seq(D) /\ Len(f[t]) # 0 /\ t \in ToSet(f[t])
           Bad == {t \in D : ~Good(t)}
<1> SUFFICES Bad = {} OBVIOUS
<1> SUFFICES ASSUME Bad # {} PROVE FALSE OBVIOUS
<1>1. D \subseteq Nat BY ParentOfIs
<1>2. PICK t \in Bad : \A u \in Bad : t <= u
  <2>1. Bad \subseteq Nat BY <1>1
  <2> QED BY <2>1, Least
<1>3. t \in D /\ ~Good(t) OBVIOUS
<1> DEFINE p == ty[t].parent
<1>4. f[t] = IF p = NoType THEN <<t>> ELSE Append(f[p], t) BY <1>3 DEF LineageEq
<1>5. CASE p = NoType
  <2>1. f[t] = <<t>> BY <1>4, <1>5
  <2>2. ToSet(<<t>>) = {t} BY ToSetSingle
  <2> QED BY <1>3, <2>1, <2>2
<1>6. CASE p # NoType
  <2>1. p \in D /\ p \in Nat /\ p < t
    <3>1. p \in 1 .. (t - 1) /\ t \in 1 .. Len(ty) /\ Len(ty) \in Nat /\ D = 1 .. Len(ty) BY <1>3, <1>6, ParentOfIs
    <3> HIDE DEF p, D
    <3> QED BY <3>1
  <2>2. Good(p)
    <3>1. p \in Bad => t <= p BY <1>2
    <3>2. p \notin Bad
      <4> HIDE DEF Bad, p
      <4> QED BY <1>1, <1>3, <2>1, <3>1
    <3> QED BY <2>1, <3>2
  <2>3. f[t] = Append(f[p], t) BY <1>4, <1>6
  <2> HIDE DEF p, D
  <2>4. f[t] \in Seq(D) /\ Len(f[t]) # 0
    <3>1. Len(f[p]) \in Nat BY <2>2, LenProperties
    <3> QED BY <1>3, <2>2, <2>3, <3>1, AppendProperties
  <2>5. t \in ToSet(f[t])
    <3>1. PICK q : q = f[p] OBVIOUS
    <3>2. q \in Seq(D) /\ t \in D BY <1>3, <2>2, <3>1
    <3>3. ToSet(Append(q, t)) = ToSet(q) \cup {t} BY <3>2, ToSetAppend
    <3> QED BY <2>3, <3>1, <3>3
  <2> QED BY <1>3, <2>4, <2>5
<1> QED BY <1>5, <1>6

LineageFrom(ty, f, T) ==
    /\ ToSet(f[T]) \subseteq DOMAIN ty /\ T \in ToSet(f[T])
    /\ ty[T].parent = NoType => ToSet(f[T]) = {T}
    /\ ty[T].parent # NoType =>
         ty[T].parent \in DOMAIN ty /\ ty[T].parent < T /\ ToSet(f[T]) = ToSet(f[ty[T].parent]) \cup {T}

\* The types of a lineage are those of the parent's lineage and the type itself.
LEMMA LineageSet ==
  ASSUME NEW ty, Fine(ty), NEW f, LineageEq(f, ty), NEW T \in DOMAIN ty
  PROVE  LineageFrom(ty, f, T)
<1>1. f[T] \in Seq(DOMAIN ty) /\ T \in ToSet(f[T]) BY LineageShape
<1>2. ToSet(f[T]) \subseteq DOMAIN ty
  <2>1. \A i \in DOMAIN f[T] : f[T][i] \in DOMAIN ty BY <1>1, ElementOfSeq, LenProperties
  <2> QED BY <2>1 DEF ToSet
<1>3. f[T] = IF ty[T].parent = NoType THEN <<T>> ELSE Append(f[ty[T].parent], T) BY DEF LineageEq
<1>4. ASSUME ty[T].parent = NoType PROVE ToSet(f[T]) = {T}
  <2>3. ToSet(<<T>>) = {T} BY ToSetSingle
  <2> QED BY <1>3, <1>4, <2>3
<1>5. ASSUME ty[T].parent # NoType
      PROVE  ty[T].parent \in DOMAIN ty /\ ty[T].parent < T /\ ToSet(f[T]) = ToSet(f[ty[T].parent]) \cup {T}
  <2>1. PICK p : p = ty[T].parent OBVIOUS
  <2>2. p \in 1 .. (T - 1) /\ T \in 1 .. Len(ty) /\ Len(ty) \in Nat /\ DOMAIN ty = 1 .. Len(ty)
    BY <1>5, <2>1, ParentOfIs
  <2>3. p \in DOMAIN ty /\ p < T BY <2>2
  <2>4. f[p] \in Seq(DOMAIN ty) BY <2>3, LineageShape
  <2>5. f[T] = Append(f[p], T) BY <1>3, <1>5, <2>1
  <2>6. ToSet(Append(f[p], T)) = ToSet(f[p]) \cup {T}
    <3>1. PICK A : A = DOMAIN ty OBVIOUS
    <3>2. PICK q : q = f[p] OBVIOUS
    <3>3. q \in Seq(A) /\ T \in A BY <2>4, <3>1, <3>2
    <3>4. ToSet(Append(q, T)) = ToSet(q) \cup {T} BY <3>3, ToSetAppend
    <3> QED BY <3>2, <3>4
  <2> QED BY <2>1, <2>3, <2>5, <2>6
<1> QED BY <1>1, <1>2, <1>4, <1>5 DEF LineageFrom

LinesAre(ty, f, X, x, T) ==
    /\ Lines(x, f, T) \in Seq(X) /\ Len(Lines(x, f, T)) = Len(f[T]) /\ Len(f[T]) # 0
    /\ ty[T].parent = NoType => Lines(x, f, T) = One(x[T])
    /\ ty[T].parent # NoType => Lines(x, f, T) = Append(Lines(x, f, ty[T].parent), x[T])

\* What x says of the lineage is what it says of the parent's, with the type's own behind it.
LEMMA LinesStep ==
  ASSUME NEW ty, Fine(ty), NEW f, LineageEq(f, ty), NEW X, NEW x \in [DOMAIN ty -> X], NEW T \in DOMAIN ty
  PROVE  LinesAre(ty, f, X, x, T)
<1>1. ASSUME NEW U \in DOMAIN ty
      PROVE  /\ Lines(x, f, U) \in Seq(X) /\ Len(Lines(x, f, U)) = Len(f[U]) /\ Len(f[U]) # 0 /\ Len(f[U]) \in Nat
             /\ DOMAIN f[U] = 1 .. Len(f[U])
  <2>1. f[U] \in Seq(DOMAIN ty) /\ Len(f[U]) # 0 BY LineageShape
  <2>2. Len(f[U]) \in Nat /\ DOMAIN f[U] = 1 .. Len(f[U]) BY <2>1, LenProperties
  <2>3. \A i \in 1 .. Len(f[U]) : f[U][i] \in DOMAIN ty BY <2>1, ElementOfSeq
  <2>4. Lines(x, f, U) = [i \in 1 .. Len(f[U]) |-> x[f[U][i]]] BY <2>2, Zenon DEF Lines
  <2>5. Lines(x, f, U) \in [1 .. Len(f[U]) -> X] BY <2>3, <2>4
  <2> QED BY <2>1, <2>2, <2>5
<1>2. f[T] = IF ty[T].parent = NoType THEN <<T>> ELSE Append(f[ty[T].parent], T) BY DEF LineageEq
<1>3. ASSUME ty[T].parent = NoType PROVE Lines(x, f, T) = One(x[T])
  <2>1. f[T] = <<T>> BY <1>2, <1>3
  <2>2. DOMAIN <<T>> = {1} /\ <<T>>[1] = T OBVIOUS
  <2>3. Lines(x, f, T) = [i \in {1} |-> x[<<T>>[i]]] BY <2>1, <2>2, Zenon DEF Lines
  <2>4. [i \in {1} |-> x[<<T>>[i]]] = <<x[T]>> BY <2>2
  <2> QED BY <2>3, <2>4, Zenon DEF One
<1>4. ASSUME ty[T].parent # NoType PROVE Lines(x, f, T) = Append(Lines(x, f, ty[T].parent), x[T])
  <2>1. PICK p : p = ty[T].parent OBVIOUS
  <2>2. p \in DOMAIN ty BY <1>4, <2>1, LineageSet DEF LineageFrom
  <2>3. f[T] = Append(f[p], T) BY <1>2, <1>4, <2>1
  <2>4. f[p] \in Seq(DOMAIN ty) BY <2>2, LineageShape
  <2> DEFINE n == Len(f[p])
             a == Lines(x, f, T)
             b == Append(Lines(x, f, p), x[T])
  <2>5. /\ n \in Nat /\ DOMAIN f[p] = 1 .. n
        /\ Lines(x, f, p) \in Seq(X) /\ Len(Lines(x, f, p)) = n
        /\ a \in Seq(X) /\ Len(a) = Len(f[T]) /\ DOMAIN f[T] = 1 .. Len(f[T])
    BY <1>1, <2>2
  <2>6. Len(f[T]) = n + 1 /\ f[T][n + 1] = T /\ \A i \in 1 .. n : f[T][i] = f[p][i]
    BY <2>3, <2>4, <2>5, AppendProperties
  <2>7. b \in Seq(X) /\ Len(b) = n + 1 /\ b[n + 1] = x[T] /\ \A i \in 1 .. n : b[i] = Lines(x, f, p)[i]
    <3>1. x[T] \in X OBVIOUS
    <3> QED BY <2>5, <3>1, AppendProperties
  <2>8. ASSUME NEW i \in 1 .. n + 1 PROVE a[i] = b[i]
    <3>1. a[i] = x[f[T][i]] BY <2>5, <2>6 DEF Lines
    <3>2. CASE i = n + 1 BY <2>6, <2>7, <3>1, <3>2
    <3>3. CASE i # n + 1
      <4>1. i \in 1 .. n BY <2>5, <3>3
      <4>2. Lines(x, f, p)[i] = x[f[p][i]] BY <2>5, <4>1 DEF Lines
      <4> QED BY <2>6, <2>7, <3>1, <4>1, <4>2
    <3> QED BY <3>2, <3>3
  <2> HIDE DEF a, b, n
  <2>9. a = b BY <2>5, <2>6, <2>7, <2>8, SeqEqual
  <2> QED BY <2>1, <2>9 DEF a, b
<1> QED BY <1>1, <1>3, <1>4 DEF LinesAre

AlongFrom(ty, f, x, T) ==
    /\ ty[T].parent = NoType => Along(x, f, T) = x[T]
    /\ ty[T].parent # NoType => Along(x, f, T) = Along(x, f, ty[T].parent) \o x[T]

\* The same in one sequence.
LEMMA AlongStep ==
  ASSUME NEW ty, Fine(ty), NEW f, LineageEq(f, ty), NEW X, NEW x \in [DOMAIN ty -> Seq(X)], NEW T \in DOMAIN ty
  PROVE  AlongFrom(ty, f, x, T)
<1>1. PICK Y : Y = Seq(X) OBVIOUS
<1>2. x \in [DOMAIN ty -> Y] /\ x[T] \in Seq(X) BY <1>1
<1>a. ASSUME NEW U \in DOMAIN ty PROVE LinesAre(ty, f, Y, x, U)
  BY <1>2, LinesStep
<1>3. ASSUME ty[T].parent = NoType PROVE Along(x, f, T) = x[T]
  <2>1. Lines(x, f, T) = One(x[T]) BY <1>a, <1>3 DEF LinesAre
  <2>2. <<>> \in Seq(Seq(X)) OBVIOUS
  <2>3. FlattenSeq(One(x[T])) = x[T] BY <1>2, <2>2, FlattenAppend
  <2> QED BY <2>1, <2>3 DEF Along
<1>4. ASSUME ty[T].parent # NoType PROVE Along(x, f, T) = Along(x, f, ty[T].parent) \o x[T]
  <2>1. ty[T].parent \in DOMAIN ty BY <1>4, LineageSet DEF LineageFrom
  <2>2. Lines(x, f, T) = Append(Lines(x, f, ty[T].parent), x[T]) BY <1>a, <1>4 DEF LinesAre
  <2>3. Lines(x, f, ty[T].parent) \in Seq(Y) /\ Len(Lines(x, f, ty[T].parent)) # 0
    <3>1. PICK p : p = ty[T].parent OBVIOUS
    <3>2. p \in DOMAIN ty BY <2>1, <3>1
    <3>3. Lines(x, f, p) \in Seq(Y) /\ Len(Lines(x, f, p)) = Len(f[p]) /\ Len(f[p]) # 0 BY <1>a, <3>2 DEF LinesAre
    <3> QED BY <3>1, <3>3
  <2>4. Lines(x, f, ty[T].parent) \in Seq(Seq(X)) BY <1>1, <2>3
  <2>5. FlattenSeq(Append(Lines(x, f, ty[T].parent), x[T])) = FlattenSeq(Lines(x, f, ty[T].parent)) \o x[T]
    BY <1>2, <2>3, <2>4, FlattenAppend
  <2> QED BY <2>2, <2>5 DEF Along
<1> QED BY <1>3, <1>4 DEF AlongFrom

\* A field of a type of the lineage stands behind the fields of the type's parents.
AlongAt(ty, f, g, X, x, T) ==
    /\ Along(x, f, T) \in Seq(X) /\ Len(Along(x, f, T)) = Total(ty, g, T) /\ g[T] \in Nat
    /\ \A U \in ToSet(f[T]) :
          /\ g[U] \in Nat /\ Total(ty, g, U) <= Total(ty, g, T)
          /\ \A i \in 1 .. Len(ty[U].fields) : Along(x, f, T)[g[U] + i] = x[U][i]

\* Every field has its place, from the root on.
LEMMA AlongIs ==
  ASSUME NEW ty, Fine(ty), NEW f, LineageEq(f, ty), NEW g, InheritedEq(g, ty),
         NEW X, NEW x \in [DOMAIN ty -> Seq(X)], \A U \in DOMAIN ty : Len(x[U]) = Len(ty[U].fields)
  PROVE  \A T \in DOMAIN ty : AlongAt(ty, f, g, X, x, T)
<1> DEFINE D == DOMAIN ty
           Good(t) == AlongAt(ty, f, g, X, x, t)
           Bad == {t \in D : ~Good(t)}
<1> SUFFICES Bad = {} OBVIOUS
<1> SUFFICES ASSUME Bad # {} PROVE FALSE OBVIOUS
<1>1. D \subseteq Nat BY ParentOfIs
<1>2. PICK t \in Bad : \A u \in Bad : t <= u
  <2>1. Bad \subseteq Nat BY <1>1
  <2> QED BY <2>1, Least
<1>3. t \in D /\ ~Good(t) OBVIOUS
<1>4. /\ x[t] \in Seq(X) /\ Len(x[t]) = Len(ty[t].fields) /\ Len(ty[t].fields) \in Nat
      /\ g[t] = IF ty[t].parent = NoType THEN 0 ELSE g[ty[t].parent] + Len(ty[ty[t].parent].fields)
      /\ Total(ty, g, t) = Len(ty[t].fields) + g[t]
  BY <1>3, FieldsIs DEF InheritedEq, Total
<1>a. AlongFrom(ty, f, x, t) BY <1>3, AlongStep
<1>b. LineageFrom(ty, f, t) BY <1>3, LineageSet
<1>5. CASE ty[t].parent = NoType
  <2>1. Along(x, f, t) = x[t] /\ ToSet(f[t]) = {t} BY <1>5, <1>a, <1>b DEF AlongFrom, LineageFrom
  <2>2. g[t] = 0 BY <1>4, <1>5
  <2> QED BY <1>3, <1>4, <2>1, <2>2 DEF AlongAt
<1>6. CASE ty[t].parent # NoType
  <2>1. PICK p : p = ty[t].parent OBVIOUS
  <2>2. p \in D /\ p < t /\ ToSet(f[t]) = ToSet(f[p]) \cup {t} /\ Along(x, f, t) = Along(x, f, p) \o x[t]
    BY <1>6, <1>a, <1>b, <2>1 DEF AlongFrom, LineageFrom
  <2>3. Good(p)
    <3>1. p \in Bad => t <= p BY <1>2
    <3>2. p \notin Bad
      <4> HIDE DEF Bad
      <4> QED BY <1>1, <1>3, <2>2, <3>1
    <3> QED BY <2>2, <3>2
  <2>4. PICK a : a = Along(x, f, p) OBVIOUS
  <2>5. PICK b : b = Along(x, f, t) OBVIOUS
  <2>6. Len(ty[p].fields) \in Nat /\ g[p] \in Nat /\ Total(ty, g, p) = Len(ty[p].fields) + g[p]
    BY <2>2, <2>3, FieldsIs DEF AlongAt, Total
  <2>7. g[t] = Total(ty, g, p) /\ g[t] \in Nat
    <3>1. g[t] = g[p] + Len(ty[p].fields) BY ONLY <1>4, <1>6, <2>1, Zenon
    <3>2. PICK k \in Nat, m \in Nat : k = Len(ty[p].fields) /\ m = g[p] BY ONLY <2>6, Zenon
    <3>3. g[t] = m + k /\ Total(ty, g, p) = k + m BY ONLY <2>6, <3>1, <3>2, Zenon
    <3>4. m \in Nat /\ k \in Nat OBVIOUS
    <3>5. m + k = k + m /\ m + k \in Nat BY ONLY <3>4
    <3> QED BY ONLY <3>3, <3>5, Zenon
  <2>8. a \in Seq(X) /\ Len(a) = g[t] BY <2>3, <2>4, <2>7 DEF AlongAt
  <2>9. b = a \o x[t] BY <2>2, <2>4, <2>5
  <2>10. /\ b \in Seq(X) /\ Len(b) = g[t] + Len(ty[t].fields)
         /\ \A i \in 1 .. g[t] : b[i] = a[i]
         /\ \A i \in 1 .. Len(ty[t].fields) : b[g[t] + i] = x[t][i]
    <3>1. /\ a \o x[t] \in Seq(X)
          /\ Len(a \o x[t]) = Len(a) + Len(x[t])
          /\ \A i \in 1 .. Len(a) + Len(x[t]) : (a \o x[t])[i] = IF i <= Len(a) THEN a[i] ELSE x[t][i - Len(a)]
      <4>1. a \in Seq(X) /\ x[t] \in Seq(X) BY ONLY <1>4, <2>8, Zenon
      <4> QED BY ONLY <4>1, ConcatProperties, Zenon
    <3>2. PICK n \in Nat : n = Len(ty[t].fields) BY <1>4
    <3>3. \A i \in 1 .. g[t] : i \in 1 .. g[t] + n /\ i <= g[t] BY <2>7, <3>2
    <3>4. \A i \in 1 .. n : g[t] + i \in 1 .. g[t] + n /\ ~(g[t] + i <= g[t]) /\ g[t] + i - g[t] = i BY <2>7, <3>2
    <3>5. Len(a) = g[t] /\ Len(x[t]) = n BY <1>4, <2>8, <3>2
    <3>6. \A i \in 1 .. g[t] : b[i] = a[i] BY <2>9, <3>1, <3>3, <3>5
    <3>7. ASSUME NEW i \in 1 .. n PROVE b[g[t] + i] = x[t][i]
      <4>1. PICK j : j = g[t] + i OBVIOUS
      <4>2. j \in 1 .. g[t] + n /\ ~(j <= g[t]) /\ j - g[t] = i BY <2>7, <4>1
      <4>c. PICK c : c = a \o x[t] OBVIOUS
      <4>d. PICK d : d = x[t] OBVIOUS
      <4>3. c = a \o x[t] /\ d = x[t] BY <4>c, <4>d
      <4>4. \A l \in 1 .. Len(a) + Len(d) : c[l] = IF l <= Len(a) THEN a[l] ELSE d[l - Len(a)]
        BY <3>1, <4>3
      <4>5. \A l \in 1 .. g[t] + n : c[l] = IF l <= g[t] THEN a[l] ELSE d[l - g[t]] BY <3>5, <4>3, <4>4
      <4>6. b[j] = x[t][j - g[t]] BY <2>9, <4>2, <4>3, <4>5
      <4> QED BY <4>1, <4>2, <4>6
    <3> QED BY <2>9, <3>1, <3>2, <3>5, <3>6, <3>7
  <2>11. ASSUME NEW U \in ToSet(f[t])
         PROVE  /\ g[U] \in Nat /\ Total(ty, g, U) <= Total(ty, g, t)
                /\ \A i \in 1 .. Len(ty[U].fields) : b[g[U] + i] = x[U][i]
    <3>1. CASE U = t
      <4>1. Total(ty, g, t) \in Nat BY <1>4, <2>7
      <4>2. Total(ty, g, t) <= Total(ty, g, t) BY <4>1
      <4> QED BY <2>7, <2>10, <3>1, <4>2
    <3>2. CASE U \in ToSet(f[p])
      <4>1. g[U] \in Nat /\ Total(ty, g, U) <= Total(ty, g, p)
            /\ \A i \in 1 .. Len(ty[U].fields) : a[g[U] + i] = x[U][i]
        BY <2>3, <2>4, <3>2 DEF AlongAt
      <4>2. U \in D BY <2>2, <3>2, LineageSet DEF LineageFrom
      <4>3. Len(ty[U].fields) \in Nat /\ Total(ty, g, U) = Len(ty[U].fields) + g[U] BY <4>2, FieldsIs DEF Total
      <4>4. PICK n \in Nat : n = Len(ty[U].fields) BY <4>3
      <4>5. n + g[U] <= g[t] BY <2>7, <4>1, <4>3, <4>4
      <4>6. \A i \in 1 .. n : g[U] + i \in 1 .. g[t] BY <2>7, <4>1, <4>5
      <4>7. Total(ty, g, U) <= Total(ty, g, t)
        <5>1. PICK k \in Nat, m \in Nat : k = g[t] /\ m = Len(ty[t].fields) BY <1>4, <2>7
        <5>2. PICK l \in Nat : l = g[U] BY <4>1
        <5>3. n + l <= k BY <4>5, <5>1, <5>2
        <5>4. n + l <= m + k BY <5>3
        <5> QED BY <1>4, <4>3, <4>4, <5>1, <5>2, <5>4
      <4>8. ASSUME NEW i \in 1 .. n PROVE b[g[U] + i] = x[U][i]
        <5>1. b[g[U] + i] = a[g[U] + i] BY <2>10, <4>6
        <5>2. a[g[U] + i] = x[U][i] BY <4>1, <4>4
        <5> QED BY <5>1, <5>2
      <4> QED BY <4>1, <4>4, <4>7, <4>8
    <3> QED BY <2>2, <3>1, <3>2
  <2>12. Good(t)
    <3>1. Along(x, f, t) \in Seq(X) /\ Len(Along(x, f, t)) = Total(ty, g, t) BY <1>4, <2>5, <2>7, <2>10
    <3> QED BY <2>5, <2>7, <2>11, <3>1 DEF AlongAt
  <2> QED BY <1>3, <2>12
<1> QED BY <1>5, <1>6

\* A concatenation is split where it was joined.
LEMMA ConcatParts ==
  ASSUME NEW X, NEW a \in Seq(X), NEW b \in Seq(X)
  PROVE  /\ SubSeq(a \o b, 1, Len(a)) = a
         /\ SubSeq(a \o b, Len(a) + 1, Len(a \o b)) = b
         /\ Len(a) <= Len(a \o b)
<1>1. PICK m \in Nat, n \in Nat : m = Len(a) /\ n = Len(b) BY LenProperties
<1>2. PICK c : c = a \o b OBVIOUS
<1>3. /\ c \in Seq(X) /\ Len(c) = m + n
      /\ \A i \in 1 .. m + n : c[i] = IF i <= m THEN a[i] ELSE b[i - m]
  BY <1>1, <1>2, ConcatProperties
<1>4. \A i \in 1 .. m + n : c[i] \in X BY <1>3, ElementOfSeq
<1>5. /\ SubSeq(c, 1, m) \in Seq(X) /\ Len(SubSeq(c, 1, m)) = m
      /\ \A i \in 1 .. m : SubSeq(c, 1, m)[i] = c[i]
  <2>1. \A i \in 1 .. m : c[i] \in X BY <1>4
  <2>2. /\ SubSeq(c, 1, m) \in Seq(X) /\ Len(SubSeq(c, 1, m)) = IF 1 <= m THEN m - 1 + 1 ELSE 0
        /\ \A i \in 1 .. m - 1 + 1 : SubSeq(c, 1, m)[i] = c[1 + i - 1]
    BY <2>1, SubSeqProperties
  <2>3. (IF 1 <= m THEN m - 1 + 1 ELSE 0) = m /\ m - 1 + 1 = m OBVIOUS
  <2>4. \A i \in 1 .. m : 1 + i - 1 = i OBVIOUS
  <2> QED BY <2>2, <2>3, <2>4
<1>6. /\ SubSeq(c, m + 1, m + n) \in Seq(X) /\ Len(SubSeq(c, m + 1, m + n)) = n
      /\ \A i \in 1 .. n : SubSeq(c, m + 1, m + n)[i] = c[m + i]
  <2>1. PICK p \in Int, q \in Int : p = m + 1 /\ q = m + n OBVIOUS
  <2>2. p \in Int /\ q \in Int /\ \A i \in p .. q : c[i] \in X BY <1>4, <2>1
  <2>3. /\ SubSeq(c, p, q) \in Seq(X)
        /\ Len(SubSeq(c, p, q)) = IF p <= q THEN q - p + 1 ELSE 0
        /\ \A i \in 1 .. q - p + 1 : SubSeq(c, p, q)[i] = c[p + i - 1]
    BY ONLY <2>2, SubSeqProperties
  <2>4. (IF p <= q THEN q - p + 1 ELSE 0) = n /\ q - p + 1 = n BY <2>1
  <2>5. \A i \in 1 .. n : p + i - 1 = m + i BY <2>1
  <2>6. /\ SubSeq(c, p, q) \in Seq(X) /\ Len(SubSeq(c, p, q)) = n
        /\ \A i \in 1 .. n : SubSeq(c, p, q)[i] = c[m + i]
    BY ONLY <2>3, <2>4, <2>5
  <2> QED BY ONLY <2>1, <2>6, Zenon
<1>7. SubSeq(c, 1, m) = a
  <2>1. \A i \in 1 .. m : i \in 1 .. m + n /\ i <= m OBVIOUS
  <2>2. \A i \in 1 .. m : SubSeq(c, 1, m)[i] = a[i] BY <1>3, <1>5, <2>1
  <2> QED BY <1>1, <1>5, <2>2, SeqEqual
<1>8. SubSeq(c, m + 1, m + n) = b
  <2>1. \A i \in 1 .. n : m + i \in 1 .. m + n /\ ~(m + i <= m) /\ m + i - m = i OBVIOUS
  <2>2. ASSUME NEW i \in 1 .. n PROVE SubSeq(c, m + 1, m + n)[i] = b[i]
    <3>1. PICK j : j = m + i OBVIOUS
    <3>2. c[j] = b[j - m] BY <1>3, <2>1, <3>1
    <3> QED BY <1>6, <2>1, <3>1, <3>2
  <2> QED BY <1>1, <1>6, <2>2, SeqEqual
<1>9. m <= m + n /\ Len(c) = m + n BY <1>3
<1> QED BY ONLY <1>1, <1>2, <1>7, <1>8, <1>9, Zenon

\* The constructors of the default protocols give each type its own arguments.
LEMMA SplitIs ==
  ASSUME NEW ty, Fine(ty), NEW f, LineageEq(f, ty), NEW g, InheritedEq(g, ty), NEW h, SplitEq(h, ty, g),
         NEW x \in [DOMAIN ty -> Args], \A U \in DOMAIN ty : Len(x[U]) = Len(ty[U].fields)
  PROVE  \A T \in DOMAIN ty : h[T][Along(x, f, T)] = Lines(x, f, T)
<1> DEFINE D == DOMAIN ty
           Good(t) == h[t][Along(x, f, t)] = Lines(x, f, t)
           Bad == {t \in D : ~Good(t)}
<1> SUFFICES Bad = {} OBVIOUS
<1> SUFFICES ASSUME Bad # {} PROVE FALSE OBVIOUS
<1>1. D \subseteq Nat BY ParentOfIs
<1>2. PICK t \in Bad : \A u \in Bad : t <= u
  <2>1. Bad \subseteq Nat BY <1>1
  <2> QED BY <2>1, Least
<1>3. t \in D /\ ~Good(t) OBVIOUS
<1>4. PICK X : X = Nat \X Nat OBVIOUS
<1>5. x \in [DOMAIN ty -> Seq(X)] /\ Args = Seq(X) BY <1>4 DEF Args
<1>6. \A U \in DOMAIN ty : AlongAt(ty, f, g, X, x, U) BY <1>5, AlongIs
<1>7. \A U \in DOMAIN ty : AlongFrom(ty, f, x, U) BY <1>5, AlongStep
<1>8. \A U \in DOMAIN ty : LinesAre(ty, f, Args, x, U) BY LinesStep
<1>9. Along(x, f, t) \in Args BY <1>3, <1>5, <1>6 DEF AlongAt
<1> DEFINE args == Along(x, f, t)
           q == ty[t].parent
<1>10. h[t][args] = IF q = NoType THEN <<args>>
                    ELSE IF Len(args) < Total(ty, g, q) THEN <<>>
                    ELSE Append(h[q][SubSeq(args, 1, Total(ty, g, q))], SubSeq(args, Total(ty, g, q) + 1, Len(args)))
  <2> HIDE DEF args
  <2>1. h[t] = [a \in Args |->
           IF ty[t].parent = NoType THEN <<a>>
           ELSE IF Len(a) < Total(ty, g, ty[t].parent) THEN <<>>
           ELSE Append(h[ty[t].parent][SubSeq(a, 1, Total(ty, g, ty[t].parent))],
                       SubSeq(a, Total(ty, g, ty[t].parent) + 1, Len(a)))]
    BY <1>3, Zenon DEF SplitEq
  <2> QED BY <1>9, <2>1 DEF args
<1>11. CASE q = NoType
  <2>1. args = x[t] BY <1>3, <1>7, <1>11 DEF AlongFrom
  <2>2. Lines(x, f, t) = One(x[t]) BY <1>3, <1>8, <1>11 DEF LinesAre
  <2>3. h[t][args] = One(args) BY <1>10, <1>11 DEF One
  <2> QED BY <1>3, <2>1, <2>2, <2>3
<1>12. CASE q # NoType
  <2>1. q \in D /\ q < t BY <1>3, <1>12, LineageSet DEF LineageFrom
  <2>2. Good(q)
    <3>1. q \in Bad => t <= q BY <1>2
    <3>2. q \notin Bad
      <4> HIDE DEF Bad, q
      <4> QED BY <1>1, <1>3, <2>1, <3>1
    <3> QED BY <2>1, <3>2
  <2>3. args = Along(x, f, q) \o x[t] BY <1>3, <1>7, <1>12 DEF AlongFrom
  <2>4. PICK a, b : a = Along(x, f, q) /\ b = x[t] OBVIOUS
  <2>5. a \in Seq(X) /\ Len(a) = Total(ty, g, q) BY <1>6, <2>1, <2>4 DEF AlongAt
  <2>6. b \in Seq(X) BY <1>3, <1>5, <2>4
  <2>7. /\ SubSeq(a \o b, 1, Len(a)) = a
        /\ SubSeq(a \o b, Len(a) + 1, Len(a \o b)) = b
        /\ Len(a) <= Len(a \o b)
    BY <2>5, <2>6, ConcatParts
  <2>8. Len(a) \in Nat /\ Len(a \o b) \in Nat BY <2>5, <2>6, ConcatProperties, LenProperties
  <2>9. h[t][args] = Append(h[q][a], b)
    <3>1. ~(Len(args) < Total(ty, g, q)) BY <2>3, <2>4, <2>5, <2>7, <2>8
    <3> HIDE DEF args, q
    <3> QED BY <1>10, <1>12, <2>3, <2>4, <2>5, <2>7, <3>1
  <2>10. Lines(x, f, t) = Append(Lines(x, f, q), x[t]) BY <1>3, <1>8, <1>12 DEF LinesAre
  <2> QED BY <1>3, <2>2, <2>4, <2>9, <2>10
<1> QED BY <1>11, <1>12

-----------------------------------------------------------------------------
(* Types over Rust types.                                                    *)

RustOK(ty) ==
    \A T \in DOMAIN ty :
        ty[T].rust = IF T <= Len(RustTypes) THEN T
                     ELSE IF ty[T].parent = NoType THEN NoType ELSE ty[ty[T].parent].rust

\* The Rust type of T is one of its parents, whose own parents are Rust types; the other types of the
\* lineage have their fields behind those of it.
RustIs(ty, f, g, T) ==
    /\ T <= Len(RustTypes) => \A U \in ToSet(f[T]) : ty[U].rust = U
    /\ ty[T].rust # NoType =>
          /\ ty[T].rust \in ToSet(f[T]) /\ ty[T].rust \in DOMAIN ty
          /\ \A U \in ToSet(f[T]) :
                \/ ty[U].rust = U /\ U \in ToSet(f[ty[T].rust])
                \/ Total(ty, g, ty[T].rust) <= g[U]

\* Rust types are at the root of every lineage that has any.
LEMMA RustAt ==
  ASSUME NEW ty, Fine(ty), RustOK(ty), NEW f, LineageEq(f, ty), NEW g, InheritedEq(g, ty),
         NEW X, NEW x \in [DOMAIN ty -> Seq(X)], \A U \in DOMAIN ty : Len(x[U]) = Len(ty[U].fields)
  PROVE  \A T \in DOMAIN ty : RustIs(ty, f, g, T)
<1> DEFINE D == DOMAIN ty
           Good(t) == RustIs(ty, f, g, t)
           Bad == {t \in D : ~Good(t)}
<1> SUFFICES Bad = {} OBVIOUS
<1> SUFFICES ASSUME Bad # {} PROVE FALSE OBVIOUS
<1>1. D \subseteq Nat /\ Len(RustTypes) \in Nat BY ParentOfIs, RecordsAssumption, LenProperties
<1>2. PICK t \in Bad : \A u \in Bad : t <= u
  <2>1. Bad \subseteq Nat BY <1>1
  <2> QED BY <2>1, Least
<1>3. t \in D /\ ~Good(t) /\ t \in Nat BY <1>1
<1>4. LineageFrom(ty, f, t) BY <1>3, LineageSet
<1>5. ty[t].rust = IF t <= Len(RustTypes) THEN t
                   ELSE IF ty[t].parent = NoType THEN NoType ELSE ty[ty[t].parent].rust
  BY <1>3 DEF RustOK
<1>6. ty[t].parent # NoType => ty[t].parent \in D /\ ty[t].parent < t /\ Good(ty[t].parent)
  <2> SUFFICES ASSUME ty[t].parent # NoType PROVE ty[t].parent \in D /\ ty[t].parent < t /\ Good(ty[t].parent)
    OBVIOUS
  <2>1. ty[t].parent \in D /\ ty[t].parent < t BY <1>4 DEF LineageFrom
  <2>2. PICK p : p = ty[t].parent OBVIOUS
  <2>3. p \in Bad => t <= p BY <1>2
  <2>4. p \notin Bad
    <3> HIDE DEF Bad
    <3> QED BY <1>1, <1>3, <2>1, <2>2, <2>3
  <2> QED BY <2>1, <2>2, <2>4
<1>7. CASE t <= Len(RustTypes)
  <2>1. \A U \in ToSet(f[t]) : ty[U].rust = U
    <3>1. CASE ty[t].parent = NoType BY <1>4, <1>5, <1>7, <3>1 DEF LineageFrom
    <3>2. CASE ty[t].parent # NoType
      <4>1. PICK p : p = ty[t].parent OBVIOUS
      <4>2. p \in Nat /\ p <= Len(RustTypes) BY <1>1, <1>3, <1>6, <1>7, <3>2, <4>1
      <4>3. \A U \in ToSet(f[p]) : ty[U].rust = U BY <1>6, <3>2, <4>1, <4>2 DEF RustIs
      <4>4. ToSet(f[t]) = ToSet(f[p]) \cup {t} BY <1>4, <3>2, <4>1 DEF LineageFrom
      <4> QED BY <1>5, <1>7, <4>3, <4>4
    <3> QED BY <3>1, <3>2
  <2>2. ty[t].rust = t BY <1>5, <1>7
  <2> QED BY <1>3, <1>4, <2>1, <2>2 DEF RustIs, LineageFrom
<1>8. CASE ~(t <= Len(RustTypes))
  <2>1. CASE ty[t].parent = NoType
    <3>1. ty[t].rust = NoType BY <1>5, <1>8, <2>1
    <3> QED BY <1>3, <1>8, <3>1 DEF RustIs
  <2>2. CASE ty[t].parent # NoType
    <3>1. PICK p : p = ty[t].parent OBVIOUS
    <3>2. PICK r : r = ty[p].rust OBVIOUS
    <3>3. ty[t].rust = r BY <1>5, <1>8, <2>2, <3>1, <3>2
    <3>4. ToSet(f[t]) = ToSet(f[p]) \cup {t} /\ p \in D BY <1>4, <2>2, <3>1 DEF LineageFrom
    <3>5. ASSUME r # NoType
          PROVE  /\ r \in ToSet(f[p]) /\ r \in D
                 /\ \A U \in ToSet(f[p]) : (ty[U].rust = U /\ U \in ToSet(f[r])) \/ Total(ty, g, r) <= g[U]
      BY <1>6, <2>2, <3>1, <3>2, <3>5 DEF RustIs
    <3>6. ASSUME r # NoType PROVE Total(ty, g, r) <= g[t]
      <4>1. AlongAt(ty, f, g, X, x, p) BY <3>4, AlongIs
      <4>2. Total(ty, g, r) <= Total(ty, g, p) /\ g[p] \in Nat BY <3>5, <3>6, <4>1 DEF AlongAt
      <4>3. g[t] = g[p] + Len(ty[p].fields) BY <1>3, <2>2, <3>1 DEF InheritedEq
      <4>4. Total(ty, g, p) = g[t]
        <5>1. Len(ty[p].fields) \in Nat BY <3>4, FieldsIs
        <5> QED BY <4>2, <4>3, <5>1 DEF Total
      <4> QED BY <4>2, <4>4
    <3>7. RustIs(ty, f, g, t)
      <4>1. r # NoType => r \in ToSet(f[t]) /\ r \in D BY <3>4, <3>5
      <4>2. ASSUME r # NoType, NEW U \in ToSet(f[t])
            PROVE  (ty[U].rust = U /\ U \in ToSet(f[r])) \/ Total(ty, g, r) <= g[U]
        BY <3>4, <3>5, <3>6, <4>2
      <4> QED BY <1>8, <3>3, <4>1, <4>2 DEF RustIs
    <3> QED BY <1>3, <3>7
  <2> QED BY <2>1, <2>2
<1> QED BY <1>7, <1>8

-----------------------------------------------------------------------------
(* Records.                                                                  *)

Name(U, i) == <<U, i>>
Values == (Nat \X Nat) \cup (Nat \X Nat \X {"new"})

OwnNames(ty) == [U \in DOMAIN ty |-> [i \in 1 .. Len(ty[U].fields) |-> <<U, i>>]]
OwnFields(ty) == [U \in DOMAIN ty |-> ty[U].fields]
Embedded(ty, g, T) == IF ty[T].rust = NoType THEN 0 ELSE Total(ty, g, ty[T].rust)

\* The field i of the type U is where the types before U end, in the Rust value or behind it.
FieldLaid(ty, e, rec, val, U, i, at) ==
    IF at <= e THEN rec.inside[at] = val[Name(U, i)]
    ELSE rec.slots[at - e] = [cell |-> ty[U].fields[i], val |-> val[Name(U, i)]]

\* The record rec holds what val says, each value in the place of its field.
Laid(ty, f, g, rec, val) ==
    /\ rec \in [rtd : DOMAIN ty, inside : Seq(Values), slots : Seq([cell : BOOLEAN, val : Values])]
    /\ val \in [ToSet(Along(OwnNames(ty), f, rec.rtd)) -> Values]
    /\ Embedded(ty, g, rec.rtd) \in Nat /\ Len(rec.inside) = Embedded(ty, g, rec.rtd)
    /\ Len(rec.slots) = Total(ty, g, rec.rtd) - Embedded(ty, g, rec.rtd)
    /\ \A U \in ToSet(f[rec.rtd]) : \A i \in 1 .. Len(ty[U].fields) :
          FieldLaid(ty, Embedded(ty, g, rec.rtd), rec, val, U, i, g[U] + i)

\* The names and the mutability of a type's own fields, one for each.
LEMMA OwnTyped ==
  ASSUME NEW ty, Fine(ty)
  PROVE  /\ OwnNames(ty) \in [DOMAIN ty -> Args]
         /\ \A U \in DOMAIN ty : Len(OwnNames(ty)[U]) = Len(ty[U].fields)
         /\ \A U \in DOMAIN ty : \A i \in 1 .. Len(ty[U].fields) : OwnNames(ty)[U][i] = Name(U, i)
         /\ OwnFields(ty) \in [DOMAIN ty -> Seq(BOOLEAN)]
         /\ \A U \in DOMAIN ty : Len(OwnFields(ty)[U]) = Len(ty[U].fields)
<1>1. DOMAIN ty \subseteq Nat BY ParentOfIs
<1>2. ASSUME NEW U \in DOMAIN ty
      PROVE  OwnNames(ty)[U] \in Args /\ Len(OwnNames(ty)[U]) = Len(ty[U].fields)
             /\ \A i \in 1 .. Len(ty[U].fields) : OwnNames(ty)[U][i] = Name(U, i)
  <2>1. PICK n \in Nat : n = Len(ty[U].fields) BY FieldsIs
  <2>2. OwnNames(ty)[U] = [i \in 1 .. n |-> Name(U, i)] BY <2>1, Zenon DEF OwnNames, Name
  <2>3. \A i \in 1 .. n : Name(U, i) \in Nat \X Nat BY <1>1 DEF Name
  <2> DEFINE q == [i \in 1 .. n |-> Name(U, i)]
  <2>4. q \in [1 .. n -> Nat \X Nat] BY <2>3
  <2>5. q \in Args /\ Len(q) = n BY <2>4 DEF Args
  <2> QED BY <2>1, <2>2, <2>5
<1>3. OwnNames(ty) \in [DOMAIN ty -> Args]
  <2>1. OwnNames(ty) = [U \in DOMAIN ty |-> OwnNames(ty)[U]] BY Zenon DEF OwnNames
  <2> QED BY <1>2, <2>1
<1>4. OwnFields(ty) \in [DOMAIN ty -> Seq(BOOLEAN)] BY FieldsIs DEF OwnFields
<1>5. \A U \in DOMAIN ty : Len(OwnFields(ty)[U]) = Len(ty[U].fields) BY DEF OwnFields
<1> QED BY <1>2, <1>3, <1>4, <1>5

\* A new record.
LEMMA MadeIsLaid ==
  ASSUME NEW ty, Fine(ty), RustOK(ty), NEW f, LineageEq(f, ty), NEW g, InheritedEq(g, ty), NEW T \in DOMAIN ty,
         NEW all, all = Along(OwnNames(ty), f, T), NEW e, e = Embedded(ty, g, T),
         NEW inline, inline = SubSeq(all, e + 1, Len(all)),
         NEW cells, cells = Along(OwnFields(ty), f, T),
         NEW rec, rec = [rtd |-> T, inside |-> SubSeq(all, 1, e),
                         slots |-> [i \in DOMAIN inline |-> [cell |-> cells[e + i], val |-> inline[i]]]]
  PROVE  Laid(ty, f, g, rec, [n \in ToSet(all) |-> n])
<1>1. PICK X : X = Nat \X Nat OBVIOUS
<1>2. OwnNames(ty) \in [DOMAIN ty -> Seq(X)] /\ OwnFields(ty) \in [DOMAIN ty -> Seq(BOOLEAN)]
  BY <1>1, OwnTyped DEF Args
<1>3. AlongAt(ty, f, g, X, OwnNames(ty), T) BY <1>2, AlongIs, OwnTyped
<1>4. AlongAt(ty, f, g, BOOLEAN, OwnFields(ty), T) BY <1>2, AlongIs, OwnTyped
<1>5. RustIs(ty, f, g, T) BY <1>2, RustAt, OwnTyped
<1>6. PICK n : n = Total(ty, g, T) OBVIOUS
<1>7. all \in Seq(X) /\ Len(all) = n /\ cells \in Seq(BOOLEAN) /\ Len(cells) = n /\ n \in Nat
  BY <1>3, <1>4, <1>6, LenProperties DEF AlongAt
<1>8. e \in Nat /\ e <= n
  <2>1. CASE ty[T].rust = NoType BY <1>7, <2>1 DEF Embedded
  <2>2. CASE ty[T].rust # NoType
    <3>1. ty[T].rust \in ToSet(f[T]) /\ ty[T].rust \in DOMAIN ty BY <1>5, <2>2 DEF RustIs
    <3>2. PICK r : r = ty[T].rust OBVIOUS
    <3>3. g[r] \in Nat /\ Total(ty, g, r) <= n BY <1>3, <1>6, <3>1, <3>2 DEF AlongAt
    <3>4. Total(ty, g, r) \in Nat BY <3>1, <3>2, <3>3, FieldsIs DEF Total
    <3> QED BY <2>2, <3>2, <3>3, <3>4 DEF Embedded
  <2> QED BY <2>1, <2>2
<1>9. /\ SubSeq(all, 1, e) \in Seq(X) /\ Len(SubSeq(all, 1, e)) = e
      /\ \A i \in 1 .. e : SubSeq(all, 1, e)[i] = all[i]
  <2>1. \A i \in 1 .. e : all[i] \in X BY <1>7, <1>8, ElementOfSeq
  <2>2. \A i \in 1 .. e : 1 + i - 1 = i BY <1>8
  <2>3. /\ SubSeq(all, 1, e) \in Seq(X) /\ Len(SubSeq(all, 1, e)) = IF 1 <= e THEN e - 1 + 1 ELSE 0
        /\ \A i \in 1 .. e - 1 + 1 : SubSeq(all, 1, e)[i] = all[1 + i - 1]
    BY <1>8, <2>1, SubSeqProperties
  <2>4. (IF 1 <= e THEN e - 1 + 1 ELSE 0) = e /\ e - 1 + 1 = e BY <1>8
  <2> QED BY <2>2, <2>3, <2>4
<1>10. /\ inline \in Seq(X) /\ Len(inline) = n - e /\ DOMAIN inline = 1 .. n - e
       /\ \A i \in 1 .. n - e : inline[i] = all[e + i]
  <2>1. \A i \in e + 1 .. n : all[i] \in X BY <1>7, <1>8, ElementOfSeq
  <2>2. \A i \in 1 .. n - e : e + 1 + i - 1 = e + i BY <1>7, <1>8
  <2>3. /\ SubSeq(all, e + 1, n) \in Seq(X)
        /\ Len(SubSeq(all, e + 1, n)) = IF e + 1 <= n THEN n - (e + 1) + 1 ELSE 0
        /\ \A i \in 1 .. n - (e + 1) + 1 : SubSeq(all, e + 1, n)[i] = all[e + 1 + i - 1]
    BY <1>7, <1>8, <2>1, SubSeqProperties
  <2>4. (IF e + 1 <= n THEN n - (e + 1) + 1 ELSE 0) = n - e /\ n - (e + 1) + 1 = n - e BY <1>7, <1>8
  <2>5. inline = SubSeq(all, e + 1, n) BY <1>7
  <2>6. inline \in Seq(X) /\ Len(inline) = n - e BY <2>3, <2>4, <2>5
  <2> QED BY <2>2, <2>3, <2>4, <2>5, <2>6, LenProperties
<1> DEFINE slots == [i \in 1 .. n - e |-> [cell |-> cells[e + i], val |-> inline[i]]]
           val == [a \in ToSet(all) |-> a]
<1>11. X \subseteq Values BY <1>1 DEF Values
<1>12. rec.rtd = T /\ rec.inside = SubSeq(all, 1, e) /\ rec.slots = slots BY <1>10
<1>13. slots \in Seq([cell : BOOLEAN, val : Values]) /\ Len(slots) = n - e
  <2>1. ASSUME NEW i \in 1 .. n - e
        PROVE  [cell |-> cells[e + i], val |-> inline[i]] \in [cell : BOOLEAN, val : Values]
    <3>1. e + i \in 1 .. n BY <1>7, <1>8
    <3>2. cells[e + i] \in BOOLEAN BY <1>7, <3>1, ElementOfSeq
    <3>3. inline[i] \in X BY <1>10, ElementOfSeq
    <3> QED BY <1>11, <3>2, <3>3
  <2>2. PICK R : R = [cell : BOOLEAN, val : Values] OBVIOUS
  <2>3. PICK m \in Nat : m = n - e BY <1>7, <1>8
  <2>4. slots \in [1 .. m -> R] BY <2>1, <2>2, <2>3
  <2> HIDE DEF slots
  <2>5. slots \in Seq(R) /\ Len(slots) = m BY <2>4, SeqOfFunction
  <2> QED BY <2>2, <2>3, <2>5
<1>14. rec.inside \in Seq(Values)
  <2>1. rec.inside \in [1 .. e -> X] BY <1>9, <1>12, LenProperties
  <2>2. rec.inside \in [1 .. e -> Values] BY <1>11, <2>1
  <2>3. PICK q : q = rec.inside OBVIOUS
  <2>4. q \in Seq(Values) BY <1>8, <2>2, <2>3, SeqOfFunction
  <2> QED BY <2>3, <2>4
<1>15. rec \in [rtd : DOMAIN ty, inside : Seq(Values), slots : Seq([cell : BOOLEAN, val : Values])]
  <2>1. rec = [rtd |-> T, inside |-> rec.inside, slots |-> slots] BY <1>12
  <2> HIDE DEF slots
  <2> QED BY <1>13, <1>14, <2>1
<1>16. val \in [ToSet(all) -> Values]
  <2>1. ToSet(all) \subseteq X
    <3>1. \A i \in DOMAIN all : all[i] \in X BY <1>7, ElementOfSeq, LenProperties
    <3> QED BY <3>1 DEF ToSet
  <2> QED BY <1>11, <2>1
<1>17. ASSUME NEW U \in ToSet(f[T]), NEW i \in 1 .. Len(ty[U].fields)
       PROVE  FieldLaid(ty, e, rec, val, U, i, g[U] + i)
  <2>1. U \in DOMAIN ty BY LineageSet DEF LineageFrom
  <2>2. /\ g[U] \in Nat /\ Total(ty, g, U) <= n
        /\ all[g[U] + i] = OwnNames(ty)[U][i] /\ cells[g[U] + i] = OwnFields(ty)[U][i]
    BY <1>3, <1>4, <1>6 DEF AlongAt
  <2>3. OwnNames(ty)[U][i] = Name(U, i) /\ OwnFields(ty)[U][i] = ty[U].fields[i] BY <2>1, OwnTyped DEF OwnFields
  <2>4. PICK at : at = g[U] + i OBVIOUS
  <2>5. at \in 1 .. n /\ at \in Nat
    <3>1. PICK m \in Nat : m = Len(ty[U].fields) BY <2>1, FieldsIs
    <3>2. Total(ty, g, U) = m + g[U] BY <3>1 DEF Total
    <3> QED BY <1>7, <2>2, <2>4, <3>1, <3>2
  <2>6. Name(U, i) \in ToSet(all) /\ val[Name(U, i)] = Name(U, i)
    <3>1. at \in DOMAIN all /\ all[at] = Name(U, i) BY <1>7, <2>2, <2>3, <2>4, <2>5, LenProperties
    <3>2. Name(U, i) \in ToSet(all) BY <3>1 DEF ToSet
    <3> QED BY <3>2
  <2>7. CASE at <= e
    <3>1. at \in 1 .. e BY <1>8, <2>5, <2>7
    <3> HIDE DEF val
    <3>2. rec.inside[at] = val[Name(U, i)] BY <1>9, <1>12, <2>2, <2>3, <2>4, <2>6, <3>1
    <3> QED BY <2>4, <2>7, <3>2 DEF FieldLaid
  <2>8. CASE ~(at <= e)
    <3>1. PICK k : k = at - e OBVIOUS
    <3>2. k \in 1 .. n - e /\ e + k = at BY <1>7, <1>8, <2>5, <2>8, <3>1
    <3>3. rec.slots[k] = [cell |-> cells[at], val |-> all[at]] BY <1>10, <1>12, <3>2
    <3> HIDE DEF val
    <3>4. cells[at] = ty[U].fields[i] /\ all[at] = val[Name(U, i)] BY <2>2, <2>3, <2>4, <2>6
    <3>5. rec.slots[at - e] = [cell |-> ty[U].fields[i], val |-> val[Name(U, i)]] BY <3>1, <3>3, <3>4, Zenon
    <3>6. FieldLaid(ty, e, rec, val, U, i, at) BY <2>8, <3>5, Zenon DEF FieldLaid
    <3> QED BY <2>4, <3>6, Zenon
  <2> QED BY <2>7, <2>8
<1> HIDE DEF slots, val
<1>18. /\ Len(rec.inside) = e /\ Len(rec.slots) = Total(ty, g, rec.rtd) - e
       /\ e = Embedded(ty, g, rec.rtd) /\ val \in [ToSet(Along(OwnNames(ty), f, rec.rtd)) -> Values]
  BY <1>6, <1>9, <1>12, <1>13, <1>16
<1>19. \A U \in ToSet(f[rec.rtd]) : \A i \in 1 .. Len(ty[U].fields) :
          FieldLaid(ty, e, rec, val, U, i, g[U] + i)
  BY <1>12, <1>17, Zenon
<1>20. Laid(ty, f, g, rec, val)
  BY <1>8, <1>12, <1>15, <1>18, <1>19, Zenon DEF Laid
<1> QED BY <1>20, Zenon DEF val

\* The recursive functions of Records satisfy their equations.
TypesUnfolded ==
    LineageEq(Lineage, types) /\ InheritedEq(NumInherited, types) /\ SplitEq(Split, types, NumInherited)

\* Numbers of inherited fields are numbers.
LEMMA InheritedIsNat ==
  ASSUME NEW ty, Fine(ty), NEW g, InheritedEq(g, ty)
  PROVE  \A T \in DOMAIN ty : g[T] \in Nat
<1>1. PICK f : LineageEq(f, ty) BY LineageExists
<1>2. PICK x : x = OwnFields(ty) OBVIOUS
<1>3. x \in [DOMAIN ty -> Seq(BOOLEAN)] /\ \A U \in DOMAIN ty : Len(x[U]) = Len(ty[U].fields)
  BY <1>2, OwnTyped
<1>4. \A T \in DOMAIN ty : AlongAt(ty, f, g, BOOLEAN, x, T) BY <1>1, <1>3, AlongIs
<1> QED BY <1>4 DEF AlongAt

\* Lineage, NumInherited and Split are the functions that exist.
LEMMA Unfolds ==
  ASSUME Fine(types)
  PROVE  TypesUnfolded
<1>1. LineageEq(Lineage, types)
  <2>1. \E f : LineageEq(f, types) BY LineageExists
  <2>2. Lineage = CHOOSE f : LineageEq(f, types) BY Zenon DEF Lineage, LineageEq, Parent
  <2> QED BY <2>1, <2>2, Zenon
<1>2. InheritedEq(NumInherited, types)
  <2>1. \E g : InheritedEq(g, types) BY InheritedExists
  <2>2. NumInherited = CHOOSE g : InheritedEq(g, types) BY Zenon DEF NumInherited, InheritedEq, Parent, Own
  <2> QED BY <2>1, <2>2, Zenon
<1>3. SplitEq(Split, types, NumInherited)
  <2>1. \A T \in DOMAIN types : NumInherited[T] \in Nat BY <1>2, InheritedIsNat
  <2>2. \E h : SplitEq(h, types, NumInherited) BY <2>1, SplitExists
  <2>3. Split = CHOOSE h : SplitEq(h, types, NumInherited)
    BY Zenon DEF Split, SplitEq, Args, Total, NumFields, Parent, Own
  <2> QED BY <2>2, <2>3, Zenon
<1> QED BY <1>1, <1>2, <1>3 DEF TypesUnfolded

\* The same of the types after a step.
LEMMA UnfoldsNext ==
  ASSUME Fine(types')
  PROVE  LineageEq(Lineage', types') /\ InheritedEq(NumInherited', types')
<1>1. LineageEq(Lineage', types')
  <2>1. \E f : LineageEq(f, types') BY LineageExists
  <2>2. Lineage' = CHOOSE f : LineageEq(f, types') BY Zenon DEF Lineage, LineageEq, Parent
  <2> QED BY <2>1, <2>2, Zenon
<1>2. InheritedEq(NumInherited', types')
  <2>1. \E g : InheritedEq(g, types') BY InheritedExists
  <2>2. NumInherited' = CHOOSE g : InheritedEq(g, types') BY Zenon DEF NumInherited, InheritedEq, Parent, Own
  <2> QED BY <2>1, <2>2, Zenon
<1> QED BY <1>1, <1>2

\* What Records says of the types, in the terms of the lemmas.
TypesSaid(T) ==
    /\ AllNames(T) = Along(OwnNames(types), Lineage, T)
    /\ Mutability(T) = Along(OwnFields(types), Lineage, T)
    /\ [i \in DOMAIN Lineage[T] |-> NamesOf(Lineage[T][i])] = Lines(OwnNames(types), Lineage, T)
    /\ Split[T][AllNames(T)] = Lines(OwnNames(types), Lineage, T)
    /\ NumFields(T) = Total(types, NumInherited, T)
    /\ NumEmbedded(T) = Embedded(types, NumInherited, T)

\* The default constructor hands each type its own names, so both protocols build the same lists.
LEMMA TypesSay ==
  ASSUME Fine(types), NEW T \in DOMAIN types
  PROVE  TypesSaid(T)
<1>1. LineageEq(Lineage, types) /\ InheritedEq(NumInherited, types) /\ SplitEq(Split, types, NumInherited)
  BY Unfolds DEF TypesUnfolded
<1>2. \A i \in DOMAIN Lineage[T] : Lineage[T][i] \in DOMAIN types
  <2>1. Lineage[T] \in Seq(DOMAIN types) BY <1>1, LineageShape
  <2> QED BY <2>1, ElementOfSeq, LenProperties
<1>3. [i \in DOMAIN Lineage[T] |-> NamesOf(Lineage[T][i])] = Lines(OwnNames(types), Lineage, T)
  <2>1. ASSUME NEW i \in DOMAIN Lineage[T] PROVE NamesOf(Lineage[T][i]) = OwnNames(types)[Lineage[T][i]]
    <3>1. PICK U : U = Lineage[T][i] OBVIOUS
    <3>2. U \in DOMAIN types BY <1>2, <3>1
    <3>3. NamesOf(U) = OwnNames(types)[U] BY <3>2, Zenon DEF NamesOf, OwnNames, Own
    <3> QED BY <3>1, <3>3
  <2> QED BY <2>1, Zenon DEF Lines
<1>4. AllNames(T) = Along(OwnNames(types), Lineage, T) BY <1>3, Zenon DEF AllNames, Along
<1>5. Mutability(T) = Along(OwnFields(types), Lineage, T)
  <2>1. ASSUME NEW i \in DOMAIN Lineage[T] PROVE types[Lineage[T][i]].fields = OwnFields(types)[Lineage[T][i]]
    BY <1>2, Zenon DEF OwnFields
  <2>2. [i \in DOMAIN Lineage[T] |-> types[Lineage[T][i]].fields] = Lines(OwnFields(types), Lineage, T)
    BY <2>1, Zenon DEF Lines
  <2> QED BY <2>2, Zenon DEF Mutability, Along
<1>6. Split[T][AllNames(T)] = Lines(OwnNames(types), Lineage, T)
  <2>1. PICK x : x = OwnNames(types) OBVIOUS
  <2>2. x \in [DOMAIN types -> Args] /\ \A U \in DOMAIN types : Len(x[U]) = Len(types[U].fields)
    BY <2>1, OwnTyped
  <2>3. Split[T][Along(x, Lineage, T)] = Lines(x, Lineage, T) BY <1>1, <2>2, SplitIs
  <2> QED BY <1>4, <2>1, <2>3
<1>7. \A U : NumFields(U) = Total(types, NumInherited, U) BY Zenon DEF NumFields, Total, Own
<1>8. NumEmbedded(T) = Embedded(types, NumInherited, T) BY <1>7, Zenon DEF NumEmbedded, Embedded
<1> QED BY <1>3, <1>4, <1>5, <1>6, <1>7, <1>8, Zenon DEF TypesSaid

\* Every field of the lineage has a place of its own.
LEMMA PlacesDiffer ==
  ASSUME NEW ty, Fine(ty), NEW f, LineageEq(f, ty), NEW g, InheritedEq(g, ty), NEW T \in DOMAIN ty
  PROVE  /\ Total(ty, g, T) \in Nat
         /\ \A U \in ToSet(f[T]) : \A i \in 1 .. Len(ty[U].fields) :
              /\ U \in DOMAIN ty /\ g[U] \in Nat /\ g[U] + i \in 1 .. Total(ty, g, T) /\ i \in Nat
              /\ Name(U, i) \in ToSet(Along(OwnNames(ty), f, T))
              /\ \A V \in ToSet(f[T]) : \A j \in 1 .. Len(ty[V].fields) :
                    g[U] + i = g[V] + j <=> Name(U, i) = Name(V, j)
<1>1. PICK x : x = OwnNames(ty) OBVIOUS
<1>2. PICK X : X = Nat \X Nat OBVIOUS
<1>3. x \in [DOMAIN ty -> Seq(X)] /\ \A U \in DOMAIN ty : Len(x[U]) = Len(ty[U].fields)
  BY <1>1, <1>2, OwnTyped DEF Args
<1>4. AlongAt(ty, f, g, X, x, T) BY <1>3, AlongIs
<1>5. PICK all : all = Along(x, f, T) OBVIOUS
<1>6. PICK n \in Nat : n = Total(ty, g, T)
  <2>1. all \in Seq(X) /\ Len(all) = Total(ty, g, T) BY <1>4, <1>5 DEF AlongAt
  <2> QED BY <2>1, LenProperties
<1>7. all \in Seq(X) /\ DOMAIN all = 1 .. n
  <2>1. all \in Seq(X) /\ Len(all) = n BY <1>4, <1>5, <1>6 DEF AlongAt
  <2> QED BY <2>1, LenProperties
<1>8. ASSUME NEW U \in ToSet(f[T]), NEW i \in 1 .. Len(ty[U].fields)
      PROVE  /\ U \in DOMAIN ty /\ g[U] \in Nat /\ g[U] + i \in 1 .. n /\ i \in Nat
             /\ all[g[U] + i] = Name(U, i)
  <2>1. U \in DOMAIN ty BY LineageSet DEF LineageFrom
  <2>2. g[U] \in Nat /\ Total(ty, g, U) <= n /\ all[g[U] + i] = x[U][i] BY <1>4, <1>5, <1>6 DEF AlongAt
  <2>3. PICK m \in Nat : m = Len(ty[U].fields) BY <2>1, FieldsIs
  <2>4. m + g[U] <= n BY <2>2, <2>3 DEF Total
  <2>5. x[U][i] = Name(U, i) BY <1>1, <2>1, OwnTyped
  <2> QED BY <2>1, <2>2, <2>3, <2>4, <2>5
<1>9. ASSUME NEW U \in ToSet(f[T]), NEW i \in 1 .. Len(ty[U].fields)
      PROVE  Name(U, i) \in ToSet(all)
  <2>1. PICK at : at = g[U] + i OBVIOUS
  <2>2. at \in DOMAIN all /\ all[at] = Name(U, i) BY <1>7, <1>8, <2>1
  <2> QED BY <2>2 DEF ToSet
<1>10. ASSUME NEW U \in ToSet(f[T]), NEW i \in 1 .. Len(ty[U].fields),
              NEW V \in ToSet(f[T]), NEW j \in 1 .. Len(ty[V].fields)
       PROVE  g[U] + i = g[V] + j <=> Name(U, i) = Name(V, j)
  <2>1. all[g[U] + i] = Name(U, i) /\ all[g[V] + j] = Name(V, j) BY <1>8
  <2>2. Name(U, i) = Name(V, j) => U = V /\ i = j BY DEF Name
  <2>3. PICK a, b : a = g[U] + i /\ b = g[V] + j OBVIOUS
  <2> QED BY <2>1, <2>2, <2>3
<1> QED BY <1>1, <1>5, <1>6, <1>8, <1>9, <1>10

\* A new value for a field.
LEMMA ChangedIsLaid ==
  ASSUME NEW ty, Fine(ty), NEW f, LineageEq(f, ty), NEW g, InheritedEq(g, ty),
         NEW rec, NEW val, Laid(ty, f, g, rec, val),
         NEW T \in ToSet(f[rec.rtd]), NEW i \in 1 .. Len(ty[T].fields), NEW new \in Values,
         NEW at, at = g[T] + i, NEW e, e = Embedded(ty, g, rec.rtd),
         NEW rec2, rec2 = IF at <= e THEN [rec EXCEPT !.inside[at] = new]
                          ELSE [rec EXCEPT !.slots[at - e].val = new],
         NEW val2, val2 = [val EXCEPT ![Name(T, i)] = new]
  PROVE  Laid(ty, f, g, rec2, val2)
<1> DEFINE S == [cell : BOOLEAN, val : Values]
           R == rec.rtd
<1>1. rec \in [rtd : DOMAIN ty, inside : Seq(Values), slots : Seq(S)] /\ R \in DOMAIN ty BY DEF Laid
<1>2. PICK n \in Nat : n = Total(ty, g, R) BY <1>1, PlacesDiffer
<1>3. e \in Nat /\ Len(rec.inside) = e /\ Len(rec.slots) = n - e BY <1>2 DEF Laid
<1>4. /\ at \in 1 .. n /\ Name(T, i) \in ToSet(Along(OwnNames(ty), f, R)) /\ at \in Nat
      /\ \A U \in ToSet(f[R]) : \A j \in 1 .. Len(ty[U].fields) :
            /\ g[U] + j \in 1 .. n /\ Name(U, j) \in ToSet(Along(OwnNames(ty), f, R))
            /\ at = g[U] + j <=> Name(T, i) = Name(U, j)
  <2>1. \A U \in ToSet(f[R]) : \A l \in 1 .. Len(ty[U].fields) :
          /\ g[U] + l \in 1 .. n /\ Name(U, l) \in ToSet(Along(OwnNames(ty), f, R))
          /\ \A V \in ToSet(f[R]) : \A j \in 1 .. Len(ty[V].fields) :
                g[U] + l = g[V] + j <=> Name(U, l) = Name(V, j)
    <3> HIDE DEF R
    <3>1. R \in DOMAIN ty BY <1>1
    <3>2. n = Total(ty, g, R) BY <1>2
    <3> QED BY ONLY <3>1, <3>2, Fine(ty), LineageEq(f, ty), InheritedEq(g, ty), PlacesDiffer
  <2>2. at \in 1 .. n /\ Name(T, i) \in ToSet(Along(OwnNames(ty), f, R)) BY <2>1, Zenon
  <2>3. at \in Nat BY ONLY <2>2, n \in Nat
  <2>4. \A U \in ToSet(f[R]) : \A j \in 1 .. Len(ty[U].fields) : at = g[U] + j <=> Name(T, i) = Name(U, j)
    BY <2>1, Zenon
  <2> QED BY ONLY <2>1, <2>2, <2>3, <2>4, Zenon
<1>5. val \in [ToSet(Along(OwnNames(ty), f, R)) -> Values] BY DEF Laid
<1>6. val2 \in [ToSet(Along(OwnNames(ty), f, R)) -> Values] BY <1>5
<1>7. \A U \in ToSet(f[R]) : \A j \in 1 .. Len(ty[U].fields) :
         val2[Name(U, j)] = IF at = g[U] + j THEN new ELSE val[Name(U, j)]
  BY <1>4, <1>5
<1>8. \A U \in ToSet(f[R]) : \A j \in 1 .. Len(ty[U].fields) : FieldLaid(ty, e, rec, val, U, j, g[U] + j)
  BY DEF Laid
<1> HIDE DEF R
<1>9. CASE at <= e
  <2>1. rec2 = [rec EXCEPT !.inside = [rec.inside EXCEPT ![at] = new]] BY <1>9
  <2>2. PICK q : q = [rec.inside EXCEPT ![at] = new] OBVIOUS
  <2>3. rec.inside \in [1 .. e -> Values] BY <1>1, <1>3, LenProperties
  <2>4. q \in [1 .. e -> Values] BY <2>2, <2>3
  <2>5. q \in Seq(Values) /\ Len(q) = e BY <1>3, <2>4, SeqOfFunction
  <2>6. \A k \in 1 .. e : q[k] = IF k = at THEN new ELSE rec.inside[k] BY <2>2, <2>3
  <2>7. /\ rec2 \in [rtd : DOMAIN ty, inside : Seq(Values), slots : Seq(S)]
        /\ rec2.rtd = R /\ rec2.inside = q /\ rec2.slots = rec.slots
    <3> HIDE DEF S
    <3> QED BY <1>1, <2>1, <2>2, <2>5 DEF R
  <2>8. ASSUME NEW U \in ToSet(f[R]), NEW j \in 1 .. Len(ty[U].fields)
        PROVE  FieldLaid(ty, e, rec2, val2, U, j, g[U] + j)
    <3>1. PICK k : k = g[U] + j OBVIOUS
    <3>2. k \in 1 .. n /\ val2[Name(U, j)] = IF at = k THEN new ELSE val[Name(U, j)] BY <1>4, <1>7, <3>1
    <3>3. FieldLaid(ty, e, rec, val, U, j, k) BY <1>8, <3>1
    <3>4. CASE k <= e
      <4>1. k \in 1 .. e BY <1>3, <3>2, <3>4
      <4>2. rec.inside[k] = val[Name(U, j)] BY <3>3, <3>4 DEF FieldLaid
      <4>3. rec2.inside[k] = val2[Name(U, j)] BY <2>6, <2>7, <3>2, <4>1, <4>2
      <4> QED BY <3>1, <3>4, <4>3 DEF FieldLaid
    <3>5. CASE ~(k <= e)
      <4>1. at # k BY <1>9, <3>5
      <4>2. rec.slots[k - e] = [cell |-> ty[U].fields[j], val |-> val[Name(U, j)]] BY <3>3, <3>5, Zenon DEF FieldLaid
      <4>3. rec2.slots[k - e] = [cell |-> ty[U].fields[j], val |-> val2[Name(U, j)]]
        BY <2>7, <3>2, <4>1, <4>2, Zenon
      <4>4. FieldLaid(ty, e, rec2, val2, U, j, k) BY <3>5, <4>3, Zenon DEF FieldLaid
      <4> QED BY <3>1, <4>4, Zenon
    <3> QED BY <3>4, <3>5
  <2>9. /\ e = Embedded(ty, g, rec2.rtd) /\ val2 \in [ToSet(Along(OwnNames(ty), f, rec2.rtd)) -> Values]
        /\ Embedded(ty, g, rec2.rtd) \in Nat /\ Len(rec2.inside) = Embedded(ty, g, rec2.rtd)
        /\ Len(rec2.slots) = Total(ty, g, rec2.rtd) - Embedded(ty, g, rec2.rtd)
    BY <1>2, <1>3, <1>6, <2>5, <2>7 DEF R
  <2>10. \A U \in ToSet(f[rec2.rtd]) : \A j \in 1 .. Len(ty[U].fields) :
           FieldLaid(ty, Embedded(ty, g, rec2.rtd), rec2, val2, U, j, g[U] + j)
    BY <2>7, <2>8, <2>9, Zenon
  <2> QED BY <2>7, <2>9, <2>10, Zenon DEF Laid, S
<1>10. CASE ~(at <= e)
  <2>1. PICK a : a = at - e OBVIOUS
  <2>2. a \in 1 .. n - e BY <1>3, <1>4, <1>10, <2>1
  <2>3. PICK s : s = rec.slots[a] OBVIOUS
  <2>4. PICK t : t = [s EXCEPT !.val = new] OBVIOUS
  <2>5. PICK q : q = [rec.slots EXCEPT ![a] = t] OBVIOUS
  <2>6. rec2 = [rec EXCEPT !.slots = q]
    <3>1. rec2 = [rec EXCEPT !.slots[a].val = new] BY <1>10, <2>1
    <3> QED BY <2>3, <2>4, <2>5, <3>1
  <2>7. PICK m \in Nat : m = n - e BY <1>3, <1>4, <1>10
  <2>8. rec.slots \in [1 .. m -> S]
    <3> HIDE DEF S
    <3> QED BY <1>1, <1>3, <2>7, LenProperties
  <2>9. s \in S BY <2>2, <2>3, <2>7, <2>8
  <2>10. t \in S /\ t.cell = s.cell /\ t.val = new BY <2>4, <2>9
  <2>11. q \in [1 .. m -> S] /\ \A k \in 1 .. m : q[k] = IF k = a THEN t ELSE rec.slots[k]
    <3> HIDE DEF S
    <3> QED BY <2>5, <2>8, <2>10
  <2>12. q \in Seq(S) /\ Len(q) = m
    <3> HIDE DEF S
    <3> QED BY <2>11, SeqOfFunction
  <2>13. /\ rec2 \in [rtd : DOMAIN ty, inside : Seq(Values), slots : Seq(S)]
         /\ rec2.rtd = R /\ rec2.inside = rec.inside /\ rec2.slots = q
    <3> HIDE DEF S
    <3> QED BY <1>1, <2>6, <2>12 DEF R
  <2>14. ASSUME NEW U \in ToSet(f[R]), NEW j \in 1 .. Len(ty[U].fields)
         PROVE  FieldLaid(ty, e, rec2, val2, U, j, g[U] + j)
    <3>1. PICK k : k = g[U] + j OBVIOUS
    <3>2. k \in 1 .. n /\ val2[Name(U, j)] = IF at = k THEN new ELSE val[Name(U, j)] BY <1>4, <1>7, <3>1
    <3>3. FieldLaid(ty, e, rec, val, U, j, k) BY <1>8, <3>1
    <3>4. CASE k <= e
      <4>1. at # k BY <1>10, <3>4
      <4>2. rec.inside[k] = val[Name(U, j)] BY <3>3, <3>4 DEF FieldLaid
      <4>3. rec2.inside[k] = val2[Name(U, j)] BY <2>13, <3>2, <4>1, <4>2
      <4> QED BY <3>1, <3>4, <4>3 DEF FieldLaid
    <3>5. CASE ~(k <= e)
      <4>1. rec.slots[k - e] = [cell |-> ty[U].fields[j], val |-> val[Name(U, j)]] BY <3>3, <3>5, Zenon DEF FieldLaid
      <4>2. PICK b : b = k - e OBVIOUS
      <4>3. b \in 1 .. m /\ (b = a <=> k = at)
        <5>1. k \in 1 .. n /\ at \in 1 .. n /\ e \in Nat /\ n \in Nat BY ONLY <1>3, <1>4, <3>2, n \in Nat, Zenon
        <5> QED BY ONLY <5>1, <2>1, <2>7, <3>5, <4>2
      <4>4. q[b] = [cell |-> ty[U].fields[j], val |-> val2[Name(U, j)]]
        <5>1. CASE b = a
          <6>1. q[b] = t /\ val2[Name(U, j)] = new BY <2>11, <3>2, <4>3, <5>1
          <6>2. s = [cell |-> ty[U].fields[j], val |-> val[Name(U, j)]] BY <2>3, <4>1, <4>2, <5>1
          <6>3. t = [cell |-> ty[U].fields[j], val |-> new] BY <2>4, <6>2
          <6> QED BY <6>1, <6>3, Zenon
        <5>2. CASE b # a
          <6>1. q[b] = rec.slots[b] /\ val2[Name(U, j)] = val[Name(U, j)] BY <2>11, <3>2, <4>3, <5>2
          <6> QED BY <4>1, <4>2, <6>1, Zenon
        <5> QED BY <5>1, <5>2
      <4>5. FieldLaid(ty, e, rec2, val2, U, j, k) BY <2>13, <3>5, <4>2, <4>4, Zenon DEF FieldLaid
      <4> QED BY <3>1, <4>5, Zenon
    <3> QED BY <3>4, <3>5
  <2>15. /\ e = Embedded(ty, g, rec2.rtd) /\ val2 \in [ToSet(Along(OwnNames(ty), f, rec2.rtd)) -> Values]
        /\ Embedded(ty, g, rec2.rtd) \in Nat /\ Len(rec2.inside) = Embedded(ty, g, rec2.rtd)
        /\ Len(rec2.slots) = Total(ty, g, rec2.rtd) - Embedded(ty, g, rec2.rtd)
    BY <1>2, <1>3, <1>6, <2>7, <2>12, <2>13 DEF R
  <2>16. \A U \in ToSet(f[rec2.rtd]) : \A j \in 1 .. Len(ty[U].fields) :
           FieldLaid(ty, Embedded(ty, g, rec2.rtd), rec2, val2, U, j, g[U] + j)
    BY <2>13, <2>14, <2>15, Zenon
  <2> QED BY <2>13, <2>15, <2>16, Zenon DEF Laid, S
<1> QED BY <1>9, <1>10

\* A further type leaves the earlier ones as they were.
LEMMA NewTypeKeepsOld ==
  ASSUME NEW ty, Fine(ty), NEW uy, Fine(uy),
         DOMAIN ty \subseteq DOMAIN uy, \A T \in DOMAIN ty : uy[T] = ty[T],
         NEW f, LineageEq(f, ty), NEW g, InheritedEq(g, ty), NEW f2, LineageEq(f2, uy), NEW g2, InheritedEq(g2, uy)
  PROVE  \A T \in DOMAIN ty : f2[T] = f[T] /\ g2[T] = g[T]
<1> DEFINE Bad == {t \in DOMAIN ty : ~(f2[t] = f[t] /\ g2[t] = g[t])}
<1> SUFFICES ASSUME Bad # {} PROVE FALSE OBVIOUS
<1>1. DOMAIN ty \subseteq Nat BY ParentOfIs
<1>2. PICK t \in Bad : \A u \in Bad : t <= u
  <2>1. Bad \subseteq Nat BY <1>1
  <2> QED BY <2>1, Least
<1>3. t \in DOMAIN ty /\ t \in DOMAIN uy /\ uy[t] = ty[t] /\ ~(f2[t] = f[t] /\ g2[t] = g[t]) OBVIOUS
<1> DEFINE p == ty[t].parent
<1>4. /\ f[t] = IF p = NoType THEN <<t>> ELSE Append(f[p], t)
      /\ f2[t] = IF p = NoType THEN <<t>> ELSE Append(f2[p], t)
  BY <1>3 DEF LineageEq
<1>5. /\ g[t] = IF p = NoType THEN 0 ELSE g[p] + Len(ty[p].fields)
      /\ g2[t] = IF p = NoType THEN 0 ELSE g2[p] + Len(uy[p].fields)
  BY <1>3 DEF InheritedEq
<1>6. p # NoType => p \in DOMAIN ty /\ uy[p] = ty[p] /\ f2[p] = f[p] /\ g2[p] = g[p]
  <2> SUFFICES ASSUME p # NoType PROVE p \in DOMAIN ty /\ uy[p] = ty[p] /\ f2[p] = f[p] /\ g2[p] = g[p]
    OBVIOUS
  <2>1. p \in DOMAIN ty /\ p < t BY <1>3, LineageSet DEF LineageFrom
  <2>2. p \in Bad => t <= p BY <1>2
  <2>3. p \notin Bad
    <3> HIDE DEF Bad, p
    <3> QED BY <1>1, <1>3, <2>1, <2>2
  <2> QED BY <2>1, <2>3
<1> HIDE DEF p
<1> QED BY <1>3, <1>4, <1>5, <1>6

\* A record that is laid out stays so when a type is added.
LEMMA NewTypeKeepsLaid ==
  ASSUME NEW ty, Fine(ty), RustOK(ty), NEW uy, Fine(uy),
         DOMAIN ty \subseteq DOMAIN uy, \A T \in DOMAIN ty : uy[T] = ty[T],
         NEW f, LineageEq(f, ty), NEW g, InheritedEq(g, ty), NEW f2, LineageEq(f2, uy), NEW g2, InheritedEq(g2, uy),
         NEW rec, NEW val, Laid(ty, f, g, rec, val)
  PROVE  Laid(uy, f2, g2, rec, val)
<1> DEFINE S == [cell : BOOLEAN, val : Values]
<1>1. \A T \in DOMAIN ty : f2[T] = f[T] /\ g2[T] = g[T] BY NewTypeKeepsOld
<1>2. PICK R : R = rec.rtd OBVIOUS
<1>3. R \in DOMAIN ty /\ R \in DOMAIN uy /\ f2[R] = f[R] /\ uy[R] = ty[R] BY <1>1, <1>2 DEF Laid
<1>4. rec \in [rtd : DOMAIN uy, inside : Seq(Values), slots : Seq(S)]
  <2>1. rec \in [rtd : DOMAIN ty, inside : Seq(Values), slots : Seq(S)] BY Zenon DEF Laid
  <2> HIDE DEF S
  <2> QED BY <2>1
<1>5. Along(OwnNames(uy), f2, R) = Along(OwnNames(ty), f, R)
  <2>1. ASSUME NEW i \in DOMAIN f[R] PROVE OwnNames(uy)[f[R][i]] = OwnNames(ty)[f[R][i]]
    <3>1. PICK U : U = f[R][i] OBVIOUS
    <3>2. f[R] \in Seq(DOMAIN ty) BY <1>3, LineageShape
    <3>3. U \in DOMAIN ty BY <3>1, <3>2, ElementOfSeq, LenProperties
    <3>4. U \in DOMAIN uy /\ uy[U] = ty[U] BY <3>3
    <3>5. OwnNames(uy)[U] = OwnNames(ty)[U] BY <3>3, <3>4, Zenon DEF OwnNames
    <3> QED BY <3>1, <3>5
  <2>2. Lines(OwnNames(uy), f2, R) = Lines(OwnNames(ty), f, R) BY <1>3, <2>1, Zenon DEF Lines
  <2> QED BY <2>2, Zenon DEF Along
<1>6. Total(uy, g2, R) = Total(ty, g, R) BY <1>1, <1>3 DEF Total
<1>7. Embedded(uy, g2, R) = Embedded(ty, g, R)
  <2>1. PICK x : x = OwnFields(ty) OBVIOUS
  <2>2. x \in [DOMAIN ty -> Seq(BOOLEAN)] /\ \A U \in DOMAIN ty : Len(x[U]) = Len(ty[U].fields)
    BY <2>1, OwnTyped
  <2>3. RustIs(ty, f, g, R) BY <1>3, <2>2, RustAt
  <2>4. ty[R].rust # NoType => ty[R].rust \in DOMAIN ty BY <2>3 DEF RustIs
  <2>5. ty[R].rust # NoType => Total(uy, g2, ty[R].rust) = Total(ty, g, ty[R].rust) BY <1>1, <2>4 DEF Total
  <2> QED BY <1>3, <2>5 DEF Embedded
<1>8. ASSUME NEW U \in ToSet(f2[R]), NEW i \in 1 .. Len(uy[U].fields)
      PROVE  FieldLaid(uy, Embedded(uy, g2, R), rec, val, U, i, g2[U] + i)
  <2>1. U \in ToSet(f[R]) BY <1>3
  <2>2. U \in DOMAIN ty BY <1>3, <2>1, LineageSet DEF LineageFrom
  <2>3. uy[U] = ty[U] /\ g2[U] = g[U] /\ i \in 1 .. Len(ty[U].fields) BY <1>1, <2>2
  <2>4. FieldLaid(ty, Embedded(ty, g, R), rec, val, U, i, g[U] + i) BY <1>2, <2>1, <2>3 DEF Laid
  <2> QED BY <1>7, <2>3, <2>4, Zenon DEF FieldLaid
<1>9. /\ val \in [ToSet(Along(OwnNames(uy), f2, R)) -> Values]
      /\ Embedded(uy, g2, R) \in Nat /\ Len(rec.inside) = Embedded(uy, g2, R)
      /\ Len(rec.slots) = Total(uy, g2, R) - Embedded(uy, g2, R)
  BY <1>2, <1>5, <1>6, <1>7, Zenon DEF Laid
<1> QED BY <1>2, <1>4, <1>8, <1>9, Zenon DEF Laid, S

-----------------------------------------------------------------------------
(* Accessors find what is laid.                                              *)

InsidePlace(at) == <<"inside", at>>
SlotPlace(a) == <<"slot", a>>
PlaceIs(rec, U, i, at, e) ==
    /\ at <= e => Place(rec, U, i) = InsidePlace(at)
    /\ ~(at <= e) => Place(rec, U, i) = SlotPlace(at - e)

\* Place finds the place where a field is laid.
LEMMA LaidPlace ==
  ASSUME Fine(types), RustOK(types), NEW rec, NEW val, Laid(types, Lineage, NumInherited, rec, val),
         NEW U \in ToSet(Lineage[rec.rtd]), NEW i \in 1 .. Len(types[U].fields),
         NEW at, at = NumInherited[U] + i, NEW e, e = Embedded(types, NumInherited, rec.rtd)
  PROVE  PlaceIs(rec, U, i, at, e)
<1>1. LineageEq(Lineage, types) /\ InheritedEq(NumInherited, types) BY Unfolds DEF TypesUnfolded
<1>2. PICK R : R = rec.rtd OBVIOUS
<1>3. R \in DOMAIN types BY <1>2 DEF Laid
<1>4. NumEmbedded(R) = e BY <1>2, <1>3, TypesSay DEF TypesSaid
<1>5. Place(rec, U, i) =
        IF at <= e
        THEN <<"inside", InRust(IF types[U].rust = types[R].rust THEN types[R].rust ELSE U, i)>>
        ELSE <<"slot", at - e>>
  BY <1>2, <1>4, Zenon DEF Place
<1>6. ASSUME at <= e PROVE (IF types[U].rust = types[R].rust THEN types[R].rust ELSE U) = U
  <2>1. PICK x : x = OwnFields(types) OBVIOUS
  <2>2. x \in [DOMAIN types -> Seq(BOOLEAN)] /\ \A V \in DOMAIN types : Len(x[V]) = Len(types[V].fields)
    BY <2>1, OwnTyped
  <2>3. RustIs(types, Lineage, NumInherited, R) BY <1>1, <1>3, <2>2, RustAt
  <2>4. U \in DOMAIN types /\ NumInherited[U] \in Nat /\ i \in Nat /\ i # 0 /\ at \in Nat
    <3>1. U \in DOMAIN types /\ NumInherited[U] \in Nat /\ i \in Nat BY <1>1, <1>2, <1>3, PlacesDiffer
    <3> QED BY <3>1
  <2>5. types[R].rust # NoType BY <1>2, <1>6, <2>4 DEF Embedded
  <2>6. e = Total(types, NumInherited, types[R].rust) BY <1>2, <2>5 DEF Embedded
  <2>7. e \in Nat BY DEF Laid
  <2>8. ~(e <= NumInherited[U]) BY <1>6, <2>4, <2>7
  <2>9. types[U].rust = U BY <1>2, <2>3, <2>5, <2>6, <2>8 DEF RustIs
  <2> QED BY <2>9
<1>7. at <= e => Place(rec, U, i) = InsidePlace(at) BY <1>5, <1>6, Zenon DEF InsidePlace, InRust
<1>8. ~(at <= e) => Place(rec, U, i) = SlotPlace(at - e) BY <1>5, Zenon DEF SlotPlace
<1> QED BY <1>7, <1>8 DEF PlaceIs

\* What FieldsKept says of one field.
FieldKept(rec, val, U, i) ==
    /\ Access(rec, U, i) = val[<<U, i>>]
    /\ types[U].fields[i] => MayMutate(rec, U, i)
    /\ Place(rec, U, i)[1] = "slot" => rec.slots[Place(rec, U, i)[2]].cell = types[U].fields[i]

\* What is laid can be read, and mutated if it is mutable.
LEMMA LaidIsKept ==
  ASSUME Fine(types), RustOK(types), NEW rec, NEW val, Laid(types, Lineage, NumInherited, rec, val),
         NEW U \in ToSet(Lineage[rec.rtd]), NEW i \in 1 .. Len(types[U].fields)
  PROVE  FieldKept(rec, val, U, i)
<1>1. PICK at : at = NumInherited[U] + i OBVIOUS
<1>2. PICK e : e = Embedded(types, NumInherited, rec.rtd) OBVIOUS
<1>3. PlaceIs(rec, U, i, at, e) BY <1>1, <1>2, LaidPlace
<1>4. FieldLaid(types, e, rec, val, U, i, at) BY <1>1, <1>2 DEF Laid
<1>5. PICK p : p = Place(rec, U, i) OBVIOUS
<1>6. CASE at <= e
  <2>1. p = InsidePlace(at) BY <1>3, <1>5, <1>6 DEF PlaceIs
  <2>2. p[1] = "inside" /\ p[1] # "slot" /\ p[2] = at BY <2>1 DEF InsidePlace
  <2>3. rec.inside[at] = val[Name(U, i)] BY <1>4, <1>6, Zenon DEF FieldLaid
  <2>4. Access(rec, U, i) = val[<<U, i>>] BY <1>5, <2>2, <2>3, Zenon DEF Access, Name
  <2>5. MayMutate(rec, U, i) BY <1>5, <2>2, Zenon DEF MayMutate
  <2> QED BY <1>5, <2>2, <2>4, <2>5, Zenon DEF FieldKept
<1>7. CASE ~(at <= e)
  <2>1. p = SlotPlace(at - e) BY <1>3, <1>5, <1>7 DEF PlaceIs
  <2>2. p[1] = "slot" /\ p[1] # "inside" /\ p[2] = at - e BY <2>1 DEF SlotPlace
  <2>3. rec.slots[at - e] = [cell |-> types[U].fields[i], val |-> val[Name(U, i)]] BY <1>4, <1>7, Zenon DEF FieldLaid
  <2>4. rec.slots[p[2]].cell = types[U].fields[i] /\ rec.slots[p[2]].val = val[Name(U, i)] BY <2>2, <2>3
  <2>5. Access(rec, U, i) = val[<<U, i>>] BY <1>5, <2>2, <2>4, Zenon DEF Access, Name
  <2>6. types[U].fields[i] => MayMutate(rec, U, i) BY <1>5, <2>4, Zenon DEF MayMutate
  <2> QED BY <1>5, <2>4, <2>5, <2>6, Zenon DEF FieldKept
<1> QED BY <1>6, <1>7

RecordSet == [rtd : Nat, inside : Seq(Values), slots : Seq([cell : BOOLEAN, val : Values])]
GivenSet == UNION {[S -> Values] : S \in SUBSET (Nat \X Nat)}

\* A definition whose parent has been made.
DefinitionOK(ty, d) ==
    /\ d \in Definition
    /\ d.parent \in {NoType} \cup DOMAIN ty
    /\ d.rust = IF d.parent = NoType THEN NoType ELSE ty[d.parent].rust

TypesOK ==
    /\ Fine(types) /\ RustOK(types) /\ Len(RustTypes) <= Len(types)
    /\ DOMAIN defining = Definers
    /\ \A d \in Definers : defining[d] # NotDefining => DefinitionOK(types, defining[d])

AllLaid ==
    /\ records \in Seq(RecordSet) /\ given \in Seq(GivenSet) /\ Len(given) = Len(records)
    /\ \A r \in 1 .. Len(records) : Laid(types, Lineage, NumInherited, records[r], given[r])

FieldInv == TypesOK /\ AllLaid

\* The invariant holds at the start.
LEMMA FieldInit == RecordInit => FieldInv
<1> SUFFICES ASSUME RecordInit PROVE FieldInv OBVIOUS
<1>1. types = RustTypes /\ records = <<>> /\ given = <<>> /\ defining = [d \in Definers |-> NotDefining]
  BY DEF RecordInit
<1>2. RustTypes \in Seq(Definition) /\ Len(RustTypes) \in Nat /\ DOMAIN RustTypes = 1 .. Len(RustTypes)
  BY RecordsAssumption, LenProperties
<1>3. Fine(types) BY <1>1, RecordsAssumption DEF Fine
<1>4. RustOK(types)
  <2>1. \A T \in DOMAIN RustTypes : RustTypes[T].rust = T /\ T <= Len(RustTypes) BY <1>2, RecordsAssumption
  <2> QED BY <1>1, <2>1 DEF RustOK
<1>5. TypesOK BY <1>1, <1>2, <1>3, <1>4 DEF TypesOK
<1>6. AllLaid
  <2>1. records \in Seq(RecordSet) /\ given \in Seq(GivenSet) /\ Len(given) = 0 /\ Len(records) = 0 BY <1>1
  <2> QED BY <2>1 DEF AllLaid
<1> QED BY <1>5, <1>6 DEF FieldInv

\* Without a new type the lineages are the same.
LEMMA SameTypes ==
  ASSUME types' = types
  PROVE  Lineage' = Lineage /\ NumInherited' = NumInherited
<1>1. Lineage' = Lineage BY Zenon DEF Lineage, Parent
<1>2. NumInherited' = NumInherited BY Zenon DEF NumInherited, Parent, Own
<1> QED BY <1>1, <1>2

\* Steps that touch neither types nor records keep the layout.
LEMMA LaidUnchanged ==
  ASSUME AllLaid, UNCHANGED <<types, records, given>>
  PROVE  AllLaid'
<1>1. types' = types /\ records' = records /\ given' = given OBVIOUS
<1>2. Lineage' = Lineage /\ NumInherited' = NumInherited BY <1>1, SameTypes
<1> QED BY <1>1, <1>2 DEF AllLaid

\* A definition that is begun has a parent that exists.
LEMMA BeginTypeFields ==
  ASSUME FieldInv, NEW d \in Definers, NEW parent \in DOMAIN types \cup {NoType}, NEW fields \in Shapes,
         NEW u \in Uids \cup {NoUid}, BeginType(d, parent, fields, u)
  PROVE  FieldInv'
<1> DEFINE new == [parent |-> parent, fields |-> fields, uid |-> u, since |-> Len(types),
                   rust |-> IF parent = NoType THEN NoType ELSE types[parent].rust]
<1>1. UNCHANGED <<types, records, given>> /\ defining' = [defining EXCEPT ![d] = new] BY DEF BeginType
<1>2. AllLaid' BY <1>1, LaidUnchanged DEF FieldInv
<1>3. DOMAIN types \subseteq Nat /\ types \in Seq(Definition) /\ Fine(types)
  BY ParentOfIs DEF FieldInv, TypesOK, Fine
<1>4. parent # NoType => types[parent].rust \in Nat \cup {NoType}
  <2> SUFFICES ASSUME parent # NoType PROVE types[parent].rust \in Nat \cup {NoType} OBVIOUS
  <2>1. parent \in DOMAIN types OBVIOUS
  <2>2. types[parent] \in Definition BY <1>3, <2>1, FieldsIs
  <2> QED BY <2>2 DEF Definition
<1>5. DefinitionOK(types, new)
  <2>1. new \in Definition
    <3>1. fields \in Seq(BOOLEAN) BY RecordsAssumption
    <3>2. parent \in Nat \cup {NoType} BY <1>3
    <3>3. Len(types) \in Nat BY <1>3, LenProperties
    <3> QED BY <1>4, <3>1, <3>2, <3>3 DEF Definition
  <2>2. new.parent = parent /\ new.rust = IF parent = NoType THEN NoType ELSE types[parent].rust OBVIOUS
  <2> HIDE DEF new
  <2> QED BY <2>1, <2>2 DEF DefinitionOK
<1> HIDE DEF new
<1>6. ASSUME NEW c \in Definers, defining'[c] # NotDefining PROVE DefinitionOK(types', defining'[c])
  <2>1. types' = types BY <1>1
  <2>2. CASE c = d
    <3>1. defining'[c] = new BY <1>1, <2>2 DEF FieldInv, TypesOK
    <3> QED BY <1>5, <2>1, <3>1
  <2>3. CASE c # d
    <3>1. defining'[c] = defining[c] BY <1>1, <2>3 DEF FieldInv, TypesOK
    <3>2. DefinitionOK(types, defining[c]) BY <1>6, <3>1 DEF FieldInv, TypesOK
    <3> QED BY <2>1, <3>1, <3>2
  <2> QED BY <2>2, <2>3
<1>7. types' = types /\ DOMAIN defining' = Definers BY <1>1 DEF FieldInv, TypesOK
<1>8. TypesOK' BY <1>6, <1>7 DEF FieldInv, TypesOK
<1> QED BY <1>2, <1>8 DEF FieldInv

\* A definition that ends adds a fine type.
LEMMA EndTypeFields ==
  ASSUME FieldInv, NEW d \in Definers, EndType(d)
  PROVE  FieldInv'
<1>1. PICK new : new = defining[d] OBVIOUS
<1>2. /\ new # NotDefining /\ types' = Append(types, new) /\ defining' = [defining EXCEPT ![d] = NotDefining]
      /\ records' = records /\ given' = given
  BY <1>1 DEF EndType
<1>3. Fine(types) /\ RustOK(types) /\ DefinitionOK(types, new) /\ types \in Seq(Definition)
  BY <1>1, <1>2 DEF FieldInv, TypesOK, Fine
<1>4. PICK n \in Nat : n = Len(types) BY <1>3, LenProperties
<1>5. DOMAIN types = 1 .. n BY <1>3, <1>4, LenProperties
<1>6. PICK uy : uy = types' OBVIOUS
<1>7. /\ uy \in Seq(Definition) /\ Len(uy) = n + 1 /\ DOMAIN uy = 1 .. n + 1
      /\ uy[n + 1] = new /\ \A T \in 1 .. n : uy[T] = types[T]
  <2>1. new \in Definition BY <1>3 DEF DefinitionOK
  <2>2. /\ uy \in Seq(Definition) /\ Len(uy) = n + 1
        /\ uy[n + 1] = new /\ \A T \in 1 .. n : uy[T] = types[T]
    BY <1>2, <1>3, <1>4, <1>6, <2>1, AppendProperties
  <2> QED BY <2>2, LenProperties
<1>8. DOMAIN types \subseteq DOMAIN uy BY <1>5, <1>7
<1>9. Fine(uy)
  <2>1. ASSUME NEW T \in 1 .. n + 1 PROVE uy[T].parent \in {NoType} \cup 1 .. (T - 1)
    <3>1. CASE T = n + 1
      <4>1. new.parent \in {NoType} \cup 1 .. n BY <1>3, <1>5 DEF DefinitionOK
      <4>2. T - 1 = n BY <3>1
      <4> QED BY <1>7, <3>1, <4>1, <4>2
    <3>2. CASE T # n + 1
      <4>1. T \in 1 .. n BY <3>2
      <4> QED BY <1>3, <1>5, <1>7, <4>1 DEF Fine
    <3> QED BY <3>1, <3>2
  <2> QED BY <1>7, <2>1 DEF Fine
<1>10. Len(RustTypes) <= n /\ Len(RustTypes) \in Nat
  BY <1>4, RecordsAssumption, LenProperties DEF FieldInv, TypesOK
<1>11. RustOK(uy)
  <2>1. ASSUME NEW T \in 1 .. n + 1
        PROVE  uy[T].rust = IF T <= Len(RustTypes) THEN T
                            ELSE IF uy[T].parent = NoType THEN NoType ELSE uy[uy[T].parent].rust
    <3>1. CASE T = n + 1
      <4>1. ~(T <= Len(RustTypes)) BY <1>10, <3>1
      <4>2. new.rust = IF new.parent = NoType THEN NoType ELSE types[new.parent].rust BY <1>3 DEF DefinitionOK
      <4>3. new.parent # NoType => uy[new.parent] = types[new.parent] BY <1>3, <1>5, <1>7 DEF DefinitionOK
      <4> QED BY <1>7, <3>1, <4>1, <4>2, <4>3
    <3>2. CASE T # n + 1
      <4>1. T \in 1 .. n BY <3>2
      <4>2. types[T].rust = IF T <= Len(RustTypes) THEN T
                            ELSE IF types[T].parent = NoType THEN NoType ELSE types[types[T].parent].rust
        BY <1>3, <1>5, <4>1 DEF RustOK
      <4>3. PICK p : p = types[T].parent OBVIOUS
      <4>4. p # NoType => p \in 1 .. n
        <5>1. p # NoType => p \in 1 .. (T - 1) BY <1>3, <1>5, <4>1, <4>3 DEF Fine
        <5> QED BY <4>1, <5>1
      <4> QED BY <1>7, <4>1, <4>2, <4>3, <4>4
    <3> QED BY <3>1, <3>2
  <2> QED BY <1>7, <2>1 DEF RustOK
<1>12. TypesOK'
  <2>1. DOMAIN defining' = Definers BY <1>2 DEF FieldInv, TypesOK
  <2>2. ASSUME NEW c \in Definers, defining'[c] # NotDefining PROVE DefinitionOK(uy, defining'[c])
    <3>1. c # d /\ defining'[c] = defining[c] BY <1>2, <2>2 DEF FieldInv, TypesOK
    <3>2. PICK e : e = defining[c] OBVIOUS
    <3>3. DefinitionOK(types, e) BY <2>2, <3>1, <3>2 DEF FieldInv, TypesOK
    <3>4. e.parent # NoType => e.parent \in DOMAIN uy /\ uy[e.parent] = types[e.parent]
      BY <1>5, <1>7, <1>8, <3>3 DEF DefinitionOK
    <3>5. DefinitionOK(uy, e) BY <3>3, <3>4 DEF DefinitionOK
    <3> QED BY <3>1, <3>2, <3>5
  <2>3. Len(RustTypes) <= Len(uy) BY <1>7, <1>10
  <2> QED BY <1>6, <1>9, <1>11, <2>1, <2>2, <2>3 DEF TypesOK
<1>13. AllLaid'
  <2>1. LineageEq(Lineage, types) /\ InheritedEq(NumInherited, types) BY <1>3, Unfolds DEF TypesUnfolded
  <2>2. LineageEq(Lineage', uy) /\ InheritedEq(NumInherited', uy)
    <3>1. Fine(types') BY <1>6, <1>9
    <3>2. LineageEq(Lineage', types') /\ InheritedEq(NumInherited', types') BY <3>1, UnfoldsNext
    <3> QED BY <1>6, <3>2
  <2>3. PICK f2, g2 : f2 = Lineage' /\ g2 = NumInherited' OBVIOUS
  <2>4. LineageEq(f2, uy) /\ InheritedEq(g2, uy) BY <2>2, <2>3
  <2>5. \A T \in DOMAIN types : uy[T] = types[T] BY <1>5, <1>7
  <2>6. ASSUME NEW r \in 1 .. Len(records) PROVE Laid(uy, f2, g2, records[r], given[r])
    <3>1. Laid(types, Lineage, NumInherited, records[r], given[r]) BY DEF FieldInv, AllLaid
    <3> QED BY <1>3, <1>8, <1>9, <2>1, <2>4, <2>5, <3>1, NewTypeKeepsLaid
  <2> QED BY <1>2, <1>6, <2>3, <2>6 DEF FieldInv, AllLaid
<1> QED BY <1>12, <1>13 DEF FieldInv

\* What is laid is a record and what it has been given.
LEMMA LaidTyped ==
  ASSUME NEW ty, Fine(ty), NEW f, LineageEq(f, ty), NEW g, InheritedEq(g, ty),
         NEW rec, NEW val, Laid(ty, f, g, rec, val)
  PROVE  rec \in RecordSet /\ val \in GivenSet
<1> DEFINE S == [cell : BOOLEAN, val : Values]
<1>1. rec \in [rtd : DOMAIN ty, inside : Seq(Values), slots : Seq(S)] BY Zenon DEF Laid
<1>2. rec.rtd \in DOMAIN ty
  <2> HIDE DEF S
  <2> QED BY <1>1
<1>3. DOMAIN ty \subseteq Nat BY ParentOfIs
<1>4. rec \in RecordSet
  <2>1. rec \in [rtd : Nat, inside : Seq(Values), slots : Seq(S)]
    <3> HIDE DEF S
    <3> QED BY <1>1, <1>3
  <2> QED BY <2>1, Zenon DEF RecordSet
<1>5. PICK x : x = OwnNames(ty) OBVIOUS
<1>6. PICK X : X = Nat \X Nat OBVIOUS
<1>7. x \in [DOMAIN ty -> Seq(X)] /\ \A U \in DOMAIN ty : Len(x[U]) = Len(ty[U].fields)
  BY <1>5, <1>6, OwnTyped DEF Args
<1>8. PICK all : all = Along(x, f, rec.rtd) OBVIOUS
<1>9. all \in Seq(X)
  <2>1. PICK R : R = rec.rtd OBVIOUS
  <2>2. AlongAt(ty, f, g, X, x, R) BY <1>2, <1>7, <2>1, AlongIs
  <2> QED BY <1>8, <2>1, <2>2 DEF AlongAt
<1>10. ToSet(all) \subseteq X
  <2>1. \A k \in DOMAIN all : all[k] \in X BY <1>9, ElementOfSeq, LenProperties
  <2> QED BY <2>1 DEF ToSet
<1>11. val \in [ToSet(all) -> Values] BY <1>5, <1>8, Zenon DEF Laid
<1>12. val \in GivenSet
  <2>1. ToSet(all) \in SUBSET X BY <1>10
  <2> QED BY <1>6, <1>11, <2>1, Zenon DEF GivenSet
<1> QED BY <1>4, <1>12

\* The constructors of all protocols collect the names of all fields, the root's first.
LEMMA ConstructIs ==
  ASSUME Fine(types), RustOK(types), NEW T \in DOMAIN types,
         NEW lists, lists = Lines(OwnNames(types), Lineage, T)
  PROVE  Laid(types, Lineage, NumInherited, MakeRecord(T, lists), [n \in ToSet(AllNames(T)) |-> n])
<1>1. LineageEq(Lineage, types) /\ InheritedEq(NumInherited, types) BY Unfolds DEF TypesUnfolded
<1>2. TypesSaid(T) BY TypesSay
<1>3. PICK all : all = Along(OwnNames(types), Lineage, T) OBVIOUS
<1>4. PICK e : e = Embedded(types, NumInherited, T) OBVIOUS
<1>5. PICK inline : inline = SubSeq(all, e + 1, Len(all)) OBVIOUS
<1>6. PICK cells : cells = Along(OwnFields(types), Lineage, T) OBVIOUS
<1>7. PICK rec : rec = [rtd |-> T, inside |-> SubSeq(all, 1, e),
                        slots |-> [i \in DOMAIN inline |-> [cell |-> cells[e + i], val |-> inline[i]]]]
  OBVIOUS
<1>8. Laid(types, Lineage, NumInherited, rec, [n \in ToSet(all) |-> n])
  BY <1>1, <1>3, <1>4, <1>5, <1>6, <1>7, MadeIsLaid
<1>9. FlattenSeq(lists) = all BY <1>3, Zenon DEF Along
<1>10. NumEmbedded(T) = e /\ Mutability(T) = cells /\ AllNames(T) = all
  BY <1>2, <1>3, <1>4, <1>6, Zenon DEF TypesSaid
<1>11. MakeRecord(T, lists) =
         [rtd |-> T, inside |-> SubSeq(all, 1, e),
          slots |-> [i \in DOMAIN SubSeq(all, e + 1, Len(all)) |->
                        [cell |-> cells[e + i], val |-> SubSeq(all, e + 1, Len(all))[i]]]]
  BY <1>9, <1>10, Zenon DEF MakeRecord
<1>12. MakeRecord(T, lists) = rec BY <1>5, <1>7, <1>11, Zenon
<1> QED BY <1>8, <1>10, <1>12, Zenon

\* A record of any protocol is laid out.
LEMMA ConstructFields ==
  ASSUME FieldInv, NEW T \in DOMAIN types, NEW byDefault \in BOOLEAN, Construct(T, byDefault)
  PROVE  FieldInv'
<1> DEFINE lists == IF byDefault THEN Split[T][AllNames(T)]
                    ELSE [i \in DOMAIN Lineage[T] |-> NamesOf(Lineage[T][i])]
<1>1. PICK rec : rec = MakeRecord(T, lists) OBVIOUS
<1>2. PICK val : val = [n \in ToSet(AllNames(T)) |-> n] OBVIOUS
<1>3. records' = Append(records, rec) BY <1>1, Zenon DEF Construct
<1>4. given' = Append(given, val) BY <1>2, Zenon DEF Construct
<1>5. types' = types /\ defining' = defining BY DEF Construct
<1>6. Fine(types) /\ RustOK(types) BY DEF FieldInv, TypesOK
<1>7. lists = Lines(OwnNames(types), Lineage, T) BY <1>6, TypesSay, Zenon DEF TypesSaid
<1>8. Laid(types, Lineage, NumInherited, rec, val)
  <2> HIDE DEF lists
  <2>1. Laid(types, Lineage, NumInherited, MakeRecord(T, lists), [n \in ToSet(AllNames(T)) |-> n])
    BY <1>6, <1>7, ConstructIs
  <2> QED BY <1>1, <1>2, <2>1, Zenon
<1>9. LineageEq(Lineage, types) /\ InheritedEq(NumInherited, types) BY <1>6, Unfolds DEF TypesUnfolded
<1>10. rec \in RecordSet /\ val \in GivenSet BY <1>6, <1>8, <1>9, LaidTyped
<1>11. PICK n \in Nat : n = Len(records) /\ n = Len(given) BY LenProperties DEF FieldInv, AllLaid
<1>12. records \in Seq(RecordSet) /\ given \in Seq(GivenSet) BY DEF FieldInv, AllLaid
<1>13. /\ records' \in Seq(RecordSet) /\ Len(records') = n + 1
       /\ records'[n + 1] = rec /\ \A r \in 1 .. n : records'[r] = records[r]
  <2>1. PICK S, q : S = RecordSet /\ q = records OBVIOUS
  <2>2. q \in Seq(S) /\ rec \in S /\ Len(q) = n BY <1>10, <1>11, <1>12, <2>1
  <2>3. /\ Append(q, rec) \in Seq(S) /\ Len(Append(q, rec)) = n + 1
        /\ Append(q, rec)[n + 1] = rec /\ \A r \in 1 .. n : Append(q, rec)[r] = q[r]
    BY <2>2, AppendProperties
  <2> QED BY <1>3, <2>1, <2>3
<1>14. /\ given' \in Seq(GivenSet) /\ Len(given') = n + 1
       /\ given'[n + 1] = val /\ \A r \in 1 .. n : given'[r] = given[r]
  BY <1>4, <1>10, <1>11, <1>12, AppendProperties
<1>15. Lineage' = Lineage /\ NumInherited' = NumInherited BY <1>5, SameTypes
<1>16. ASSUME NEW r \in 1 .. n + 1 PROVE Laid(types', Lineage', NumInherited', records'[r], given'[r])
  <2>1. CASE r = n + 1 BY <1>5, <1>8, <1>13, <1>14, <1>15, <2>1
  <2>2. CASE r # n + 1
    <3>1. r \in 1 .. n BY <2>2
    <3>2. Laid(types, Lineage, NumInherited, records[r], given[r]) BY <1>11, <3>1 DEF FieldInv, AllLaid
    <3> QED BY <1>5, <1>13, <1>14, <1>15, <3>1, <3>2
  <2> QED BY <2>1, <2>2
<1>17. AllLaid' BY <1>13, <1>14, <1>16 DEF AllLaid
<1>18. TypesOK' BY <1>5 DEF FieldInv, TypesOK
<1> QED BY <1>17, <1>18 DEF FieldInv

\* A mutator changes the field of its name and no other.
LEMMA MutateFields ==
  ASSUME FieldInv, NEW r \in DOMAIN records, NEW T \in DOMAIN types, NEW i \in DOMAIN types[T].fields,
         Mutate(r, T, i)
  PROVE  FieldInv'
<1>1. PICK rec : rec = records[r] OBVIOUS
<1>2. PICK val : val = given[r] OBVIOUS
<1>3. PICK new : new = <<T, i, "new">> OBVIOUS
<1>4. PICK p : p = Place(rec, T, i) OBVIOUS
<1>5. Fine(types) /\ RustOK(types) BY DEF FieldInv, TypesOK
<1>6. PICK n \in Nat : n = Len(records) /\ n = Len(given) BY LenProperties DEF FieldInv, AllLaid
<1>7. records \in Seq(RecordSet) /\ given \in Seq(GivenSet) BY DEF FieldInv, AllLaid
<1>8. r \in 1 .. n BY <1>6, <1>7, LenProperties
<1>9. Laid(types, Lineage, NumInherited, rec, val) BY <1>1, <1>2, <1>6, <1>8 DEF FieldInv, AllLaid
<1>10. LineageEq(Lineage, types) /\ InheritedEq(NumInherited, types) BY <1>5, Unfolds DEF TypesUnfolded
<1>11. T \in ToSet(Lineage[rec.rtd]) BY <1>1, Zenon DEF Mutate, IsSubtype
<1>12. i \in 1 .. Len(types[T].fields) /\ i \in Nat /\ T \in Nat
  <2>1. types[T].fields \in Seq(BOOLEAN) BY <1>5, FieldsIs
  <2>2. DOMAIN types[T].fields = 1 .. Len(types[T].fields) BY <2>1, LenProperties
  <2>3. DOMAIN types \subseteq Nat BY <1>5, ParentOfIs
  <2> QED BY <2>2, <2>3
<1>13. new \in Values BY <1>3, <1>12 DEF Values
<1>14. PICK at : at = NumInherited[T] + i OBVIOUS
<1>15. PICK e : e = Embedded(types, NumInherited, rec.rtd) OBVIOUS
<1>16. PlaceIs(rec, T, i, at, e) BY <1>5, <1>9, <1>11, <1>12, <1>14, <1>15, LaidPlace
<1>17. PICK rec2 : rec2 = IF at <= e THEN [rec EXCEPT !.inside[at] = new]
                          ELSE [rec EXCEPT !.slots[at - e].val = new]
  OBVIOUS
<1>18. PICK val2 : val2 = [val EXCEPT ![Name(T, i)] = new] OBVIOUS
<1>19. Laid(types, Lineage, NumInherited, rec2, val2)
  BY <1>5, <1>9, <1>10, <1>11, <1>12, <1>13, <1>14, <1>15, <1>17, <1>18, ChangedIsLaid
<1>20. rec2 \in RecordSet /\ val2 \in GivenSet BY <1>5, <1>10, <1>19, LaidTyped
<1>21. records' = IF p[1] = "inside" THEN [records EXCEPT ![r].inside[p[2]] = new]
                  ELSE [records EXCEPT ![r].slots[p[2]].val = new]
  BY <1>1, <1>3, <1>4, Zenon DEF Mutate
<1>22. records' = [records EXCEPT ![r] = rec2]
  <2>1. CASE at <= e
    <3>1. p = InsidePlace(at) BY <1>4, <1>16, <2>1 DEF PlaceIs
    <3>2. p[1] = "inside" /\ p[2] = at BY <3>1 DEF InsidePlace
    <3>3. records' = [records EXCEPT ![r].inside[at] = new] BY <1>21, <3>2
    <3>4. rec2 = [rec EXCEPT !.inside[at] = new] BY <1>17, <2>1
    <3> QED BY <1>1, <3>3, <3>4
  <2>2. CASE ~(at <= e)
    <3>1. p = SlotPlace(at - e) BY <1>4, <1>16, <2>2 DEF PlaceIs
    <3>2. p[1] # "inside" /\ p[2] = at - e BY <3>1 DEF SlotPlace
    <3>3. records' = [records EXCEPT ![r].slots[at - e].val = new] BY <1>21, <3>2
    <3>4. rec2 = [rec EXCEPT !.slots[at - e].val = new] BY <1>17, <2>2
    <3> QED BY <1>1, <3>3, <3>4
  <2> QED BY <2>1, <2>2
<1>23. given' = [given EXCEPT ![r] = val2]
  <2>1. given' = [given EXCEPT ![r][<<T, i>>] = <<T, i, "new">>] BY Zenon DEF Mutate
  <2> QED BY <1>2, <1>3, <1>18, <2>1 DEF Name
<1>24. types' = types /\ defining' = defining BY DEF Mutate
<1>25. /\ records' \in Seq(RecordSet) /\ Len(records') = n
       /\ \A q \in 1 .. n : records'[q] = IF q = r THEN rec2 ELSE records[q]
  <2>1. PICK S, s : S = RecordSet /\ s = records OBVIOUS
  <2>2. s \in Seq(S) /\ rec2 \in S /\ Len(s) = n /\ r \in 1 .. Len(s) BY <1>6, <1>7, <1>8, <1>20, <2>1
  <2>3. PICK t : t = [s EXCEPT ![r] = rec2] OBVIOUS
  <2>4. t \in Seq(S) /\ Len(t) = n /\ \A q \in 1 .. n : t[q] = IF q = r THEN rec2 ELSE s[q]
    BY <2>2, <2>3, ExceptSeq
  <2>5. records' = t BY <1>22, <2>1, <2>3
  <2> QED BY <2>1, <2>4, <2>5
<1>26. /\ given' \in Seq(GivenSet) /\ Len(given') = n
       /\ \A q \in 1 .. n : given'[q] = IF q = r THEN val2 ELSE given[q]
  BY <1>6, <1>7, <1>8, <1>20, <1>23, ExceptSeq
<1>27. Lineage' = Lineage /\ NumInherited' = NumInherited BY <1>24, SameTypes
<1>28. ASSUME NEW q \in 1 .. n PROVE Laid(types', Lineage', NumInherited', records'[q], given'[q])
  <2>1. Laid(types, Lineage, NumInherited, records[q], given[q]) BY <1>6 DEF FieldInv, AllLaid
  <2>2. CASE q = r BY <1>19, <1>24, <1>25, <1>26, <1>27, <2>2
  <2>3. CASE q # r BY <1>24, <1>25, <1>26, <1>27, <2>1, <2>3
  <2> QED BY <2>2, <2>3
<1>29. AllLaid' BY <1>25, <1>26, <1>28 DEF AllLaid
<1>30. TypesOK' BY <1>24 DEF FieldInv, TypesOK
<1> QED BY <1>29, <1>30 DEF FieldInv

\* Every step keeps the invariant.
LEMMA FieldStep == FieldInv /\ [RecordNext]_recordVars => FieldInv'
<1> SUFFICES ASSUME FieldInv, [RecordNext]_recordVars PROVE FieldInv' OBVIOUS
<1>1. ASSUME UNCHANGED <<types, defining, records, given>> PROVE FieldInv'
  <2>1. types' = types /\ defining' = defining BY <1>1
  <2>2. TypesOK' BY <2>1 DEF FieldInv, TypesOK
  <2>3. AllLaid' BY <1>1, LaidUnchanged DEF FieldInv
  <2> QED BY <2>2, <2>3 DEF FieldInv
<1>2. ASSUME NEW d \in Definers, NEW u \in Uids, FindType(d, u) PROVE FieldInv'
  BY <1>1, <1>2 DEF FindType
<1>3. ASSUME NEW d \in Definers, NEW parent \in DOMAIN types \cup {NoType}, NEW fields \in Shapes,
             NEW u \in Uids \cup {NoUid}, BeginType(d, parent, fields, u)
      PROVE  FieldInv'
  BY <1>3, BeginTypeFields
<1>4. ASSUME NEW d \in Definers, EndType(d) PROVE FieldInv' BY <1>4, EndTypeFields
<1>5. ASSUME NEW T \in DOMAIN types, NEW byDefault \in BOOLEAN, Construct(T, byDefault) PROVE FieldInv'
  BY <1>5, ConstructFields
<1>6. ASSUME NEW r \in DOMAIN records, NEW T \in DOMAIN types, NEW i \in DOMAIN types[T].fields, Mutate(r, T, i)
      PROVE  FieldInv'
  BY <1>6, MutateFields
<1>7. CASE UNCHANGED recordVars BY <1>1, <1>7 DEF recordVars
<1> QED BY <1>2, <1>3, <1>4, <1>5, <1>6, <1>7 DEF RecordNext

\* Every accessor reads its own field in every record of every subtype, and exactly the mutable fields
\* can be mutated, whatever types Rust and the program define (constructor, record_accessor_fn,
\* record_mutator_fn).
THEOREM FieldsKeptHolds == RecordSpec => []FieldsKept
<1>1. FieldInv => FieldsKept
  <2> SUFFICES ASSUME FieldInv, NEW r \in DOMAIN records,
                      NEW U \in ToSet(Lineage[records[r].rtd]), NEW i \in 1 .. Own(U)
               PROVE  FieldKept(records[r], given[r], U, i)
    BY Zenon DEF FieldsKept, FieldKept
  <2>1. Fine(types) /\ RustOK(types) BY DEF FieldInv, TypesOK
  <2>2. r \in 1 .. Len(records) BY LenProperties DEF FieldInv, AllLaid
  <2>3. Laid(types, Lineage, NumInherited, records[r], given[r]) BY <2>2 DEF FieldInv, AllLaid
  <2>4. i \in 1 .. Len(types[U].fields) BY Zenon DEF Own
  <2> QED BY <2>1, <2>3, <2>4, LaidIsKept
<1> QED BY <1>1, FieldInit, FieldStep, PTL DEF RecordSpec

(* Exact numbers. First the rationals: every pair of integers has one pair in *)
(* lowest terms.                                                            *)

\* Products of integers and the order.
LEMMA ProductOrder ==
  ASSUME NEW m \in Int, NEW n \in Int, NEW k \in Int, k > 0
  PROVE  /\ m * k \in Int /\ n * k \in Int
         /\ m < n <=> m * k < n * k
         /\ m <= n <=> m * k <= n * k
         /\ m = n <=> m * k = n * k
  OBVIOUS

\* Division leaves a remainder below the divisor.
LEMMA Division ==
  ASSUME NEW n \in Int, NEW g \in Int, g > 0
  PROVE  /\ n \div g \in Int /\ n % g \in Int /\ n = g * (n \div g) + (n % g)
         /\ 0 <= n % g /\ n % g < g
  OBVIOUS

\* The quotient is the only one with such a remainder.
LEMMA QuotientUnique ==
  ASSUME NEW g \in Int, g > 0, NEW x \in Int, NEW r \in Int, 0 <= r, r < g
  PROVE  (g * x + r) \div g = x /\ (g * x + r) % g = r
<1> DEFINE n == g * x + r
           k == n \div g
           s == n % g
<1>1. n \in Int /\ n = x * g + r OBVIOUS
<1>2. k \in Int /\ s \in Int /\ n = g * k + s /\ 0 <= s /\ s < g BY <1>1, Division
<1>3. n = k * g + s BY <1>2
<1> HIDE DEF n, k, s
<1>4. ~(x < k)
  <2> SUFFICES ASSUME x + 1 <= k PROVE FALSE BY <1>2
  <2>1. (x + 1) * g <= k * g BY <1>2, ProductOrder
  <2>2. (x + 1) * g = x * g + g OBVIOUS
  <2>3. x * g \in Int /\ k * g \in Int BY <1>2
  <2> QED BY <1>1, <1>2, <1>3, <2>1, <2>2, <2>3
<1>5. ~(k < x)
  <2> SUFFICES ASSUME k + 1 <= x PROVE FALSE BY <1>2
  <2>1. (k + 1) * g <= x * g BY <1>2, ProductOrder
  <2>2. (k + 1) * g = k * g + g BY <1>2
  <2>3. x * g \in Int /\ k * g \in Int BY <1>2
  <2> QED BY <1>1, <1>2, <1>3, <2>1, <2>2, <2>3
<1>6. x = k BY <1>2, <1>4, <1>5
<1>7. r = s
  <2>1. x * g = k * g /\ x * g \in Int BY <1>6
  <2> QED BY <1>1, <1>2, <1>3, <2>1
<1> QED BY <1>6, <1>7 DEF n, k, s

\* The integers that g divides are its multiples.
LEMMA MultiplesOf ==
  ASSUME NEW n \in Int, NEW g \in Int, g > 0
  PROVE  /\ n % g = 0 => n = g * (n \div g)
         /\ \A x \in Int : n = g * x => n % g = 0 /\ n \div g = x
<1>1. n % g = 0 => n = g * (n \div g) BY Division
<1>2. ASSUME NEW x \in Int, n = g * x PROVE n % g = 0 /\ n \div g = x
  <2>1. n = g * x + 0 BY <1>2
  <2>2. g \in Int /\ g > 0 /\ x \in Int /\ 0 \in Int /\ 0 <= 0 /\ 0 < g OBVIOUS
  <2>3. (g * x + 0) \div g = x /\ (g * x + 0) % g = 0 BY ONLY <2>2, QuotientUnique, Zenon
  <2> QED BY ONLY <2>1, <2>3, Zenon
<1> QED BY <1>1, <1>2

\* A common divisor.
LEMMA Commons ==
  ASSUME NEW n \in Int, NEW d \in Int, d # 0, NEW g \in Int, g > 0
  PROVE  g \in CommonDivisors(n, d) <=> n % g = 0 /\ d % g = 0
<1> SUFFICES ASSUME d % g = 0 PROVE g <= Magnitude(d) BY DEF CommonDivisors
<1>1. PICK x \in Int : d = g * x BY MultiplesOf, Division
<1>2. x # 0 BY <1>1
<1>3. CASE x > 0
  <2>1. 1 * g <= x * g BY <1>3, ProductOrder
  <2> QED BY <1>1, <2>1 DEF Magnitude
<1>4. CASE x < 0
  <2>1. x * g <= (-1) * g BY <1>4, ProductOrder
  <2> QED BY <1>1, <2>1 DEF Magnitude
<1> QED BY <1>2, <1>3, <1>4

\* The greatest common divisor is one, and none is greater.
LEMMA GcdIs ==
  ASSUME NEW n \in Int, NEW d \in Int, d # 0
  PROVE  /\ Gcd(n, d) \in Int /\ Gcd(n, d) > 0 /\ n % Gcd(n, d) = 0 /\ d % Gcd(n, d) = 0
         /\ \A h \in CommonDivisors(n, d) : h <= Gcd(n, d)
<1> DEFINE C == CommonDivisors(n, d)
           S == {Magnitude(d) - h : h \in C}
<1>1. Magnitude(d) \in Nat \ {0} BY DEF Magnitude
<1>2. C \subseteq 1 .. Magnitude(d) BY DEF CommonDivisors
<1>3. 1 \in C
  <2>1. n % 1 = 0 /\ d % 1 = 0 BY MultiplesOf
  <2> QED BY <2>1, Commons
<1> HIDE DEF C
<1>4. S \subseteq Nat /\ S # {} BY <1>1, <1>2, <1>3
<1>5. PICK m \in S : \A k \in S : m <= k BY <1>4, Least
<1>6. PICK g \in C : m = Magnitude(d) - g OBVIOUS
<1>7. \A h \in C : h <= g BY <1>1, <1>2, <1>5, <1>6
<1>8. Gcd(n, d) \in C /\ \A h \in C : h <= Gcd(n, d) BY <1>7 DEF Gcd, C
<1>9. Gcd(n, d) \in Int /\ Gcd(n, d) > 0
  <2>1. Gcd(n, d) \in 1 .. Magnitude(d) BY ONLY <1>2, <1>8
  <2> QED BY ONLY <1>1, <2>1
<1> QED BY <1>8, <1>9 DEF C, CommonDivisors

\* Of two integers without a common divisor, some combination is one.
LEMMA Bezout ==
  ASSUME NEW n \in Int, NEW d \in Int, d # 0, CommonDivisors(n, d) = {1}
  PROVE  \E x, y \in Int : n * x + d * y = 1
<1> DEFINE S == {c \in Nat \ {0} : \E x, y \in Int : c = n * x + d * y}
<1>0. \A c \in Int : c \in S <=> c > 0 /\ \E x, y \in Int : c = n * x + d * y
  <2>1. \A c \in Int : c \in Nat \ {0} <=> c > 0 OBVIOUS
  <2> QED BY ONLY <2>1, Zenon
<1>s. S \subseteq Nat OBVIOUS
<1> HIDE DEF S
<1>1. S # {}
  <2>1. CASE d > 0
    <3>1. d = n * 0 + d * 1 OBVIOUS
    <3>2. d \in S BY <1>0, <2>1, <3>1
    <3> QED BY <3>2
  <2>2. CASE d < 0
    <3>1. -d = n * 0 + d * (-1) OBVIOUS
    <3>2. -d \in S BY <1>0, <2>2, <3>1
    <3> QED BY <3>2
  <2> QED BY <2>1, <2>2
<1>2. PICK g \in S : \A c \in S : g <= c
  BY <1>1, <1>s, Least
<1>3. g \in Int /\ g > 0 BY <1>0, <1>s
<1>4. PICK x \in Int, y \in Int : g = n * x + d * y BY <1>0, <1>3
<1>5. ASSUME NEW m \in Int, NEW u \in Int, NEW v \in Int, m = n * u + d * v
      PROVE  m % g = 0
  <2> DEFINE k == m \div g
             r == m % g
  <2>1. k \in Int /\ r \in Int /\ m = g * k + r /\ 0 <= r /\ r < g BY <1>3, Division
  <2> HIDE DEF k, r
  <2>2. r = n * (u - x * k) + d * (v - y * k)
    <3>1. g * k = (n * x + d * y) * k BY <1>4
    <3>2. (n * x + d * y) * k = n * (x * k) + d * (y * k) BY <2>1
    <3>3. n * (u - x * k) = n * u - n * (x * k) BY <2>1
    <3>4. d * (v - y * k) = d * v - d * (y * k) BY <2>1
    <3>5. n * u \in Int /\ d * v \in Int /\ n * (x * k) \in Int /\ d * (y * k) \in Int BY <2>1
    <3> QED BY <1>5, <2>1, <3>1, <3>2, <3>3, <3>4, <3>5
  <2>3. u - x * k \in Int /\ v - y * k \in Int BY <2>1
  <2>4. r # 0 => r \in S
    <3>1. r # 0 => r > 0 BY <2>1
    <3> QED BY ONLY <1>0, <2>1, <2>2, <2>3, <3>1
  <2>5. r = 0 BY <1>2, <1>3, <2>1, <2>4
  <2> QED BY <2>5 DEF r
<1>6. n % g = 0
  <2>1. n = n * 1 + d * 0 OBVIOUS
  <2>2. 1 \in Int /\ 0 \in Int OBVIOUS
  <2> QED BY ONLY <1>5, <2>1, <2>2, n \in Int
<1>7. d % g = 0
  <2>1. d = n * 0 + d * 1 OBVIOUS
  <2>2. 1 \in Int /\ 0 \in Int OBVIOUS
  <2> QED BY ONLY <1>5, <2>1, <2>2, d \in Int
<1>8. g = 1 BY <1>3, <1>6, <1>7, Commons
<1> QED BY <1>4, <1>8

\* The parts of a rational.
LEMMA RationalParts ==
  ASSUME NEW q \in Rationals
  PROVE  q = <<q[1], q[2]>> /\ q[1] \in Int /\ q[2] \in Int /\ q[2] > 0 /\ CommonDivisors(q[1], q[2]) = {1}
  BY DEF Rationals

\* A denominator divides another of the same number.
LEMMA DenominatorDivides ==
  ASSUME NEW a \in Int, NEW b \in Int, NEW c \in Int, NEW d \in Int, b > 0, d > 0,
         CommonDivisors(a, b) = {1}, a * d = c * b
  PROVE  b <= d
<1>0. b # 0 OBVIOUS
<1>1. PICK x \in Int, y \in Int : a * x + b * y = 1 BY <1>0, Bezout, Zenon
<1> DEFINE u == c * x + d * y
<1>2. u \in Int OBVIOUS
<1>3. d = u * b
  <2>1. d = d * (a * x + b * y) BY <1>1
  <2>2. d * (a * x + b * y) = (a * d) * x + (d * y) * b OBVIOUS
  <2>3. (a * d) * x = (c * x) * b BY SMT
  <2>4. (c * x) * b + (d * y) * b = u * b OBVIOUS
  <2> QED BY <2>1, <2>2, <2>3, <2>4
<1> HIDE DEF u
<1>4. u > 0
  <2> SUFFICES ASSUME u <= 0 PROVE FALSE BY <1>2
  <2>1. u * b <= 0 * b BY <1>2, ProductOrder
  <2> QED BY <1>3, <2>1
<1>5. 1 * b <= u * b BY <1>2, <1>4, ProductOrder
<1> QED BY <1>3, <1>5

\* Two rationals in lowest terms that are equal as fractions are the same pair.
LEMMA RationalUnique ==
  ASSUME NEW p \in Rationals, NEW q \in Rationals, p[1] * q[2] = q[1] * p[2]
  PROVE  p = q
<1>1. p[2] <= q[2] BY RationalParts, DenominatorDivides
<1>2. q[2] <= p[2] BY RationalParts, DenominatorDivides
<1>3. p[2] = q[2] BY <1>1, <1>2, RationalParts
<1>4. p[1] = q[1] BY <1>3, RationalParts, ProductOrder
<1> QED BY <1>3, <1>4, RationalParts, Zenon

\* Lowest finds the pair in lowest terms.
LEMMA LowestIs ==
  ASSUME NEW n \in Int, NEW d \in Int, d # 0
  PROVE  Lowest(n, d) \in Rationals /\ Lowest(n, d)[1] * d = n * Lowest(n, d)[2]
<1> DEFINE g == Gcd(n, d)
           a == n \div g
           b == d \div g
           s == Sign(d)
           e == Magnitude(d) \div g
<1>1. /\ g \in Int /\ g > 0 /\ n % g = 0 /\ d % g = 0
      /\ \A h \in CommonDivisors(n, d) : h <= g
  BY GcdIs
<1>2. Lowest(n, d) = <<s * a, e>> BY DEF Lowest
<1>3. s \in Int /\ s * s = 1 /\ Magnitude(d) = s * d /\ Magnitude(d) \in Int /\ Magnitude(d) > 0 BY DEF Sign, Magnitude
<1> HIDE DEF g, s
<1>4. a \in Int /\ b \in Int /\ n = g * a /\ d = g * b BY <1>1, MultiplesOf, Division
<1>5. e = s * b
  <2>1. Magnitude(d) = g * (s * b) BY <1>1, <1>3, <1>4
  <2>2. s * b \in Int BY <1>3, <1>4
  <2> QED BY <1>1, <1>3, <2>1, <2>2, MultiplesOf
<1> HIDE DEF a, b, e
<1>6. e \in Int /\ e > 0
  <2>1. e \in Int /\ e * g = Magnitude(d) BY <1>1, <1>3, <1>4, <1>5
  <2> SUFFICES ASSUME e <= 0 PROVE FALSE BY <2>1
  <2>2. e * g <= 0 * g BY <1>1, <2>1, ProductOrder
  <2> QED BY <1>1, <1>3, <2>1, <2>2
<1>7. s * a \in Int BY <1>3, <1>4
<1>8. ASSUME NEW h \in CommonDivisors(s * a, e) PROVE h = 1
  <2>1. h \in Int /\ h > 0 /\ (s * a) % h = 0 /\ e % h = 0 BY <1>6, <1>7 DEF CommonDivisors, Magnitude
  <2>2. PICK u \in Int : s * a = h * u
    <3> DEFINE m == s * a
    <3>1. m \in Int /\ m % h = 0 BY <1>7, <2>1
    <3> HIDE DEF m
    <3>2. m = h * (m \div h) /\ m \div h \in Int BY <2>1, <3>1, MultiplesOf, Division
    <3> QED BY <3>2 DEF m
  <2>3. PICK v \in Int : e = h * v BY <1>6, <2>1, MultiplesOf, Division
  <2>4. n = (g * h) * (s * u)
    <3>1. a = s * (s * a) BY <1>3, <1>4
    <3>2. a = s * (h * u) BY <3>1, <2>2
    <3> QED BY <1>1, <1>3, <1>4, <2>1, <3>2
  <2>5. d = (g * h) * (s * v)
    <3>1. b = s * e BY <1>3, <1>4, <1>5
    <3>2. b = s * (h * v) BY <3>1, <2>3
    <3> QED BY <1>1, <1>3, <1>4, <2>1, <3>2
  <2>6. g * h \in Int /\ g * h > 0
    <3>1. 0 * h < g * h BY <1>1, <2>1, ProductOrder
    <3> QED BY <1>1, <2>1, <3>1
  <2>7. s * u \in Int /\ s * v \in Int BY <1>3
  <2>8. n % (g * h) = 0 /\ d % (g * h) = 0 BY <2>4, <2>5, <2>6, <2>7, MultiplesOf
  <2>9. g * h <= g BY <1>1, <2>6, <2>8, Commons
  <2>10. h * g <= 1 * g BY <1>1, <2>1, <2>9
  <2> QED BY <1>1, <2>1, <2>10, ProductOrder
<1>9. 1 \in CommonDivisors(s * a, e)
  <2>1. (s * a) % 1 = 0 /\ e % 1 = 0 BY <1>6, <1>7, MultiplesOf
  <2> QED BY <1>6, <1>7, <2>1, Commons
<1>10. <<s * a, e>> \in Rationals
  <2>1. CommonDivisors(s * a, e) = {1} BY <1>8, <1>9
  <2> QED BY <1>6, <1>7, <2>1 DEF Rationals
<1>11. (s * a) * d = n * e BY <1>1, <1>3, <1>4, <1>5
<1> QED BY <1>2, <1>10, <1>11

\* Whatever fraction stands for a rational, Lowest finds it.
LEMMA LowestOf ==
  ASSUME NEW q \in Rationals, NEW n \in Int, NEW d \in Int, d # 0, q[1] * d = n * q[2]
  PROVE  Lowest(n, d) = q
<1> DEFINE r == Lowest(n, d)
<1>1. r \in Rationals /\ r[1] * d = n * r[2] BY LowestIs
<1> HIDE DEF r
<1>2. r[1] \in Int /\ r[2] \in Int /\ q[1] \in Int /\ q[2] \in Int BY <1>1, RationalParts
<1>3. (r[1] * q[2]) * d = (q[1] * r[2]) * d
  <2>1. (r[1] * q[2]) * d = (r[1] * d) * q[2] BY <1>2
  <2>2. (q[1] * r[2]) * d = (q[1] * d) * r[2] BY <1>2
  <2>3. (n * r[2]) * q[2] = (n * q[2]) * r[2] BY <1>2
  <2> QED BY <1>1, <2>1, <2>2, <2>3
<1>4. r[1] * q[2] = q[1] * r[2]
  <2> DEFINE m == r[1] * q[2]
             k == q[1] * r[2]
  <2>1. m \in Int /\ k \in Int /\ m * d = k * d BY <1>2, <1>3
  <2> HIDE DEF m, k
  <2>2. CASE d > 0 BY <2>1, <2>2, ProductOrder DEF m, k
  <2>3. CASE d < 0
    <3>1. m * (-d) = k * (-d) BY <2>1
    <3>2. m = k BY <2>1, <2>3, <3>1, ProductOrder
    <3> QED BY <3>2 DEF m, k
  <2> QED BY <2>2, <2>3
<1>5. r = q BY <1>1, <1>4, RationalUnique
<1> QED BY <1>5 DEF r

\* A factor other than zero can be cancelled.
LEMMA Cancel ==
  ASSUME NEW m \in Int, NEW n \in Int, NEW k \in Int, k # 0, m * k = n * k
  PROVE  m = n
<1>1. CASE k > 0 BY <1>1, ProductOrder
<1>2. CASE k < 0
  <2>1. m * (-k) = n * (-k) OBVIOUS
  <2> QED BY <1>2, <2>1, ProductOrder
<1> QED BY <1>1, <1>2

\* q is the rational that the fraction n / d stands for.
Frac(q, n, d) == q \in Rationals /\ n \in Int /\ d \in Int /\ d # 0 /\ q[1] * d = n * q[2]

\* A rational is the fraction of its own parts.
LEMMA FracSelf ==
  ASSUME NEW q \in Rationals
  PROVE  Frac(q, q[1], q[2])
  BY RationalParts DEF Frac

\* Lowest gives the rational that a fraction stands for.
LEMMA FracLowest ==
  ASSUME NEW n \in Int, NEW d \in Int, d # 0
  PROVE  Frac(Lowest(n, d), n, d)
  BY LowestIs DEF Frac

\* An integer is a rational with denominator 1.
LEMMA WholeIs ==
  ASSUME NEW n \in Int
  PROVE  Whole(n) \in Rationals /\ Whole(n)[1] = n /\ Whole(n)[2] = 1 /\ Frac(Whole(n), n, 1)
<1>1. CommonDivisors(n, 1) = {1}
  <2>1. 1 \in CommonDivisors(n, 1)
    <3>1. n % 1 = 0 /\ 1 % 1 = 0 BY MultiplesOf
    <3> QED BY <3>1, Commons
  <2>2. CommonDivisors(n, 1) \subseteq 1 .. 1 BY DEF CommonDivisors, Magnitude
  <2> QED BY <2>1, <2>2
<1>2. Whole(n) \in Rationals BY <1>1 DEF Whole, Rationals
<1> QED BY <1>2 DEF Whole, Frac

\* Two rationals for fractions that are equal crosswise are one.
LEMMA FracSame ==
  ASSUME NEW p, NEW q, NEW a, NEW b, NEW c, NEW d, Frac(p, a, b), Frac(q, c, d), a * d = c * b
  PROVE  p = q
<1>1. /\ p[1] \in Int /\ p[2] \in Int /\ p[2] > 0 /\ q[1] \in Int /\ q[2] \in Int /\ q[2] > 0
      /\ a \in Int /\ b \in Int /\ c \in Int /\ d \in Int /\ b # 0 /\ d # 0
      /\ p[1] * b = a * p[2] /\ q[1] * d = c * q[2]
  BY RationalParts DEF Frac
<1>2. \A p1, p2, q1, q2 \in Int :
         p1 * b = a * p2 /\ q1 * d = c * q2 => (p1 * q2) * (b * d) = (q1 * p2) * (b * d)
  <2> SUFFICES ASSUME NEW p1 \in Int, NEW p2 \in Int, NEW q1 \in Int, NEW q2 \in Int,
                      p1 * b = a * p2, q1 * d = c * q2
               PROVE  (p1 * q2) * (b * d) = (q1 * p2) * (b * d)
    OBVIOUS
  <2>1. (p1 * q2) * (b * d) = (p1 * b) * (q2 * d) BY <1>1
  <2>2. (q1 * p2) * (b * d) = (q1 * d) * (p2 * b) BY <1>1
  <2>3. (a * p2) * (q2 * d) = (a * d) * (p2 * q2) BY <1>1
  <2>4. (c * q2) * (p2 * b) = (c * b) * (p2 * q2) BY <1>1
  <2> QED BY <2>1, <2>2, <2>3, <2>4
<1>3. (p[1] * q[2]) * (b * d) = (q[1] * p[2]) * (b * d) BY <1>1, <1>2
<1>4. b * d # 0 /\ b * d \in Int
  <2> SUFFICES ASSUME b * d = 0 * d PROVE FALSE BY <1>1
  <2> QED BY <1>1, Cancel
<1>5. p[1] * q[2] \in Int /\ q[1] * p[2] \in Int BY <1>1
<1>6. p[1] * q[2] = q[1] * p[2] BY <1>3, <1>4, <1>5, Cancel
<1> QED BY <1>6, RationalUnique DEF Frac

\* The operations on rationals are the ones on fractions.
LEMMA FracArithmetic ==
  ASSUME NEW p, NEW q, NEW a, NEW b, NEW c, NEW d, Frac(p, a, b), Frac(q, c, d)
  PROVE  /\ Frac(Plus(p, q), a * d + c * b, b * d)
         /\ Frac(Minus(p, q), a * d - c * b, b * d)
         /\ Frac(Times(p, q), a * c, b * d)
         /\ c # 0 => Frac(Over(p, q), a * d, b * c)
<1>1. PICK p1 \in Int, p2 \in Int, q1 \in Int, q2 \in Int :
         /\ p = <<p1, p2>> /\ q = <<q1, q2>> /\ p2 > 0 /\ q2 > 0
         /\ a \in Int /\ b \in Int /\ c \in Int /\ d \in Int /\ b # 0 /\ d # 0
         /\ p1 * b = a * p2 /\ q1 * d = c * q2
  <2>1. /\ p = <<p[1], p[2]>> /\ q = <<q[1], q[2]>>
        /\ p[1] \in Int /\ p[2] \in Int /\ p[2] > 0 /\ q[1] \in Int /\ q[2] \in Int /\ q[2] > 0
    BY RationalParts DEF Frac
  <2> QED BY <2>1 DEF Frac
<1>2. ASSUME NEW n \in Int, NEW e \in Int, e # 0, NEW m \in Int, NEW f \in Int, f # 0, n * f = m * e
      PROVE  Frac(Lowest(n, e), m, f)
  <2> DEFINE r == Lowest(n, e)
  <2>1. r \in Rationals /\ r[1] * e = n * r[2] BY <1>2, LowestIs
  <2>2. r[1] \in Int /\ r[2] \in Int BY <2>1, RationalParts
  <2> HIDE DEF r
  <2>3. (r[1] * f) * e = (m * r[2]) * e
    <3>1. (r[1] * f) * e = (r[1] * e) * f BY <2>2
    <3>2. (n * r[2]) * f = (n * f) * r[2] BY <2>2
    <3>3. (m * e) * r[2] = (m * r[2]) * e BY <2>2
    <3> QED BY <1>2, <2>1, <3>1, <3>2, <3>3
  <2>4. r[1] * f = m * r[2]
    <3>1. r[1] * f \in Int /\ m * r[2] \in Int BY <2>2
    <3> QED BY <1>2, <2>3, <3>1, Cancel
  <2> QED BY <1>2, <2>1, <2>4 DEF Frac, r
<1>3. ASSUME NEW x \in Int, NEW y \in Int, x # 0, y # 0 PROVE x * y # 0 /\ x * y \in Int
  <2> SUFFICES ASSUME x * y = 0 * y PROVE FALSE OBVIOUS
  <2> QED BY <1>3, Cancel
<1>4. p2 * q2 # 0 /\ b * d # 0 BY <1>1, <1>3
<1>5. (p1 * q2) * (b * d) = (a * d) * (p2 * q2)
  <2>1. (p1 * q2) * (b * d) = (p1 * b) * (q2 * d) BY <1>1
  <2>2. (a * p2) * (q2 * d) = (a * d) * (p2 * q2) BY <1>1
  <2> QED BY <1>1, <2>1, <2>2
<1>6. (q1 * p2) * (b * d) = (c * b) * (p2 * q2)
  <2>1. (q1 * p2) * (b * d) = (q1 * d) * (p2 * b) BY <1>1
  <2>2. (c * q2) * (p2 * b) = (c * b) * (p2 * q2) BY <1>1
  <2> QED BY <1>1, <2>1, <2>2
<1>7. Frac(Plus(p, q), a * d + c * b, b * d)
  <2>1. (p1 * q2 + q1 * p2) * (b * d) = (p1 * q2) * (b * d) + (q1 * p2) * (b * d) BY <1>1
  <2>2. (a * d + c * b) * (p2 * q2) = (a * d) * (p2 * q2) + (c * b) * (p2 * q2) BY <1>1
  <2>3. (p1 * q2 + q1 * p2) * (b * d) = (a * d + c * b) * (p2 * q2) BY ONLY <1>5, <1>6, <2>1, <2>2, Zenon
  <2>4. p1 * q2 + q1 * p2 \in Int /\ p2 * q2 \in Int /\ a * d + c * b \in Int /\ b * d \in Int BY <1>1
  <2>5. Frac(Lowest(p1 * q2 + q1 * p2, p2 * q2), a * d + c * b, b * d)
    BY ONLY <1>2, <1>4, <2>3, <2>4, Zenon
  <2> QED BY <1>1, <2>5 DEF Plus
<1>8. Frac(Minus(p, q), a * d - c * b, b * d)
  <2>1. (p1 * q2 - q1 * p2) * (b * d) = (p1 * q2) * (b * d) - (q1 * p2) * (b * d) BY <1>1
  <2>2. (a * d - c * b) * (p2 * q2) = (a * d) * (p2 * q2) - (c * b) * (p2 * q2) BY <1>1
  <2>3. (p1 * q2 - q1 * p2) * (b * d) = (a * d - c * b) * (p2 * q2) BY ONLY <1>5, <1>6, <2>1, <2>2, Zenon
  <2>4. p1 * q2 - q1 * p2 \in Int /\ p2 * q2 \in Int /\ a * d - c * b \in Int /\ b * d \in Int BY <1>1
  <2>5. Frac(Lowest(p1 * q2 - q1 * p2, p2 * q2), a * d - c * b, b * d)
    BY ONLY <1>2, <1>4, <2>3, <2>4, Zenon
  <2> QED BY <1>1, <2>5 DEF Minus
<1>9. Frac(Times(p, q), a * c, b * d)
  <2>1. (p1 * q1) * (b * d) = (p1 * b) * (q1 * d) BY <1>1
  <2>2. (a * p2) * (c * q2) = (a * c) * (p2 * q2) BY <1>1
  <2>3. (p1 * q1) * (b * d) = (a * c) * (p2 * q2) BY ONLY <1>1, <2>1, <2>2, Zenon
  <2>4. p1 * q1 \in Int /\ p2 * q2 \in Int /\ a * c \in Int /\ b * d \in Int BY <1>1
  <2>5. Frac(Lowest(p1 * q1, p2 * q2), a * c, b * d) BY ONLY <1>2, <1>4, <2>3, <2>4, Zenon
  <2> QED BY <1>1, <2>5 DEF Times
<1>10. ASSUME c # 0 PROVE Frac(Over(p, q), a * d, b * c)
  <2>0. q1 # 0
    <3> SUFFICES ASSUME c * q2 = 0 * q2 PROVE FALSE BY <1>1
    <3> QED BY <1>1, <1>10, Cancel
  <2>1. p2 * q1 # 0 /\ b * c # 0 BY <1>1, <1>3, <1>10, <2>0
  <2>2. (p1 * q2) * (b * c) = (p1 * b) * (c * q2) BY <1>1
  <2>3. (a * p2) * (q1 * d) = (a * d) * (p2 * q1) BY <1>1
  <2>4. (p1 * q2) * (b * c) = (a * d) * (p2 * q1) BY ONLY <1>1, <2>2, <2>3, Zenon
  <2>5. p1 * q2 \in Int /\ p2 * q1 \in Int /\ a * d \in Int /\ b * c \in Int BY <1>1
  <2>6. Frac(Lowest(p1 * q2, p2 * q1), a * d, b * c) BY ONLY <1>2, <2>1, <2>4, <2>5, Zenon
  <2> QED BY <1>1, <2>6 DEF Over
<1> QED BY <1>7, <1>8, <1>9, <1>10

\* The order of rationals is the one of fractions.
LEMMA FracOrder ==
  ASSUME NEW p, NEW q, NEW a, NEW b, NEW c, NEW d, Frac(p, a, b), Frac(q, c, d), b > 0, d > 0
  PROVE  /\ Below(p, q) <=> a * d < c * b
         /\ p[1] < 0 <=> a < 0
         /\ p[1] = 0 <=> a = 0
<1>1. PICK p1 \in Int, p2 \in Int, q1 \in Int, q2 \in Int :
         /\ p = <<p1, p2>> /\ q = <<q1, q2>> /\ p2 > 0 /\ q2 > 0
         /\ a \in Int /\ b \in Int /\ c \in Int /\ d \in Int
         /\ p1 * b = a * p2 /\ q1 * d = c * q2
  <2>1. /\ p = <<p[1], p[2]>> /\ q = <<q[1], q[2]>>
        /\ p[1] \in Int /\ p[2] \in Int /\ p[2] > 0 /\ q[1] \in Int /\ q[2] \in Int /\ q[2] > 0
    BY RationalParts DEF Frac
  <2> QED BY <2>1 DEF Frac
<1>2. ASSUME NEW x \in Int, NEW y \in Int, x > 0, y > 0 PROVE x * y > 0 /\ x * y \in Int
  <2>1. 0 * y < x * y BY <1>2, ProductOrder
  <2> QED BY <2>1
<1>3. b * d > 0 /\ p2 * q2 > 0 /\ b * d \in Int /\ p2 * q2 \in Int BY <1>1, <1>2
<1>4. (p1 * q2) * (b * d) = (a * d) * (p2 * q2)
  <2>1. (p1 * q2) * (b * d) = (p1 * b) * (q2 * d) BY <1>1
  <2>2. (a * p2) * (q2 * d) = (a * d) * (p2 * q2) BY <1>1
  <2> QED BY <1>1, <2>1, <2>2
<1>5. (q1 * p2) * (b * d) = (c * b) * (p2 * q2)
  <2>1. (q1 * p2) * (b * d) = (q1 * d) * (p2 * b) BY <1>1
  <2>2. (c * q2) * (p2 * b) = (c * b) * (p2 * q2) BY <1>1
  <2> QED BY <1>1, <2>1, <2>2
<1>6. p1 * q2 < q1 * p2 <=> (p1 * q2) * (b * d) < (q1 * p2) * (b * d)
  <2>1. p1 * q2 \in Int /\ q1 * p2 \in Int BY <1>1
  <2> QED BY <1>3, <2>1, ProductOrder
<1>7. a * d < c * b <=> (a * d) * (p2 * q2) < (c * b) * (p2 * q2)
  <2>1. a * d \in Int /\ c * b \in Int BY <1>1
  <2> QED BY <1>3, <2>1, ProductOrder
<1>8. Below(p, q) <=> a * d < c * b
  <2>1. p1 * q2 < q1 * p2 <=> a * d < c * b BY ONLY <1>4, <1>5, <1>6, <1>7, Zenon
  <2> QED BY <1>1, <2>1 DEF Below
<1>9. p1 < 0 <=> a < 0
  <2>1. p1 < 0 <=> p1 * b < 0 * b BY <1>1, ProductOrder
  <2>2. a < 0 <=> a * p2 < 0 * p2 BY <1>1, ProductOrder
  <2> QED BY <1>1, <2>1, <2>2
<1>10. p1 = 0 <=> a = 0
  <2>1. p1 = 0 <=> p1 * b = 0 * b BY <1>1, ProductOrder
  <2>2. a = 0 <=> a * p2 = 0 * p2 BY <1>1, ProductOrder
  <2> QED BY <1>1, <2>1, <2>2
<1>11. p[1] = p1 BY <1>1
<1> QED BY <1>8, <1>9, <1>10, <1>11

\* Sums, differences, products and quotients of rationals are rationals.
LEMMA RationalClosed ==
  ASSUME NEW p \in Rationals, NEW q \in Rationals
  PROVE  /\ Plus(p, q) \in Rationals /\ Minus(p, q) \in Rationals /\ Times(p, q) \in Rationals
         /\ q[1] # 0 => Over(p, q) \in Rationals
<1>1. Frac(p, p[1], p[2]) /\ Frac(q, q[1], q[2]) BY FracSelf
<1>2. /\ Frac(Plus(p, q), p[1] * q[2] + q[1] * p[2], p[2] * q[2])
      /\ Frac(Minus(p, q), p[1] * q[2] - q[1] * p[2], p[2] * q[2])
      /\ Frac(Times(p, q), p[1] * q[1], p[2] * q[2])
      /\ q[1] # 0 => Frac(Over(p, q), p[1] * q[2], p[2] * q[1])
  BY <1>1, FracArithmetic, Zenon
<1> QED BY <1>2 DEF Frac

\* Sums, differences and products of integers.
LEMMA WholeArithmetic ==
  ASSUME NEW m \in Int, NEW n \in Int
  PROVE  /\ Plus(Whole(m), Whole(n)) = Whole(m + n) /\ Minus(Whole(m), Whole(n)) = Whole(m - n)
         /\ Times(Whole(m), Whole(n)) = Whole(m * n)
<1>1. Frac(Whole(m), m, 1) /\ Frac(Whole(n), n, 1) BY WholeIs
<1>2. /\ Frac(Plus(Whole(m), Whole(n)), m * 1 + n * 1, 1 * 1)
      /\ Frac(Minus(Whole(m), Whole(n)), m * 1 - n * 1, 1 * 1)
      /\ Frac(Times(Whole(m), Whole(n)), m * n, 1 * 1)
  BY <1>1, FracArithmetic, Zenon
<1>3. m + n \in Int /\ m - n \in Int /\ m * n \in Int OBVIOUS
<1>4. Frac(Whole(m + n), m + n, 1) /\ Frac(Whole(m - n), m - n, 1) /\ Frac(Whole(m * n), m * n, 1)
  BY <1>3, WholeIs, Zenon
<1>5. /\ (m * 1 + n * 1) * 1 = (m + n) * (1 * 1) /\ (m * 1 - n * 1) * 1 = (m - n) * (1 * 1)
      /\ (m * n) * 1 = (m * n) * (1 * 1)
  OBVIOUS
<1> QED BY <1>2, <1>4, <1>5, FracSame, Zenon

\* Zero and one.
LEMMA RationalUnits ==
  ASSUME NEW p \in Rationals
  PROVE  /\ Plus(Whole(0), p) = p /\ Plus(p, Whole(0)) = p /\ Minus(p, Whole(0)) = p
         /\ Times(Whole(1), p) = p /\ Times(p, Whole(0)) = Whole(0) /\ Times(Whole(0), p) = Whole(0)
         /\ Minus(p, p) = Whole(0)
<1> DEFINE a == p[1]
           b == p[2]
<1>1. a \in Int /\ b \in Int /\ b > 0 BY RationalParts
<1>2. Frac(p, a, b) BY FracSelf
<1> HIDE DEF a, b
<1>3. Frac(Whole(0), 0, 1) /\ Frac(Whole(1), 1, 1) BY WholeIs
<1>4. /\ Frac(Plus(Whole(0), p), 0 * b + a * 1, 1 * b) /\ Frac(Plus(p, Whole(0)), a * 1 + 0 * b, b * 1)
      /\ Frac(Minus(p, Whole(0)), a * 1 - 0 * b, b * 1) /\ Frac(Times(Whole(1), p), 1 * a, 1 * b)
      /\ Frac(Times(p, Whole(0)), a * 0, b * 1) /\ Frac(Times(Whole(0), p), 0 * a, 1 * b)
      /\ Frac(Minus(p, p), a * b - a * b, b * b)
  BY <1>2, <1>3, FracArithmetic, Zenon
<1>5. /\ (0 * b + a * 1) * b = a * (1 * b) /\ (a * 1 + 0 * b) * b = a * (b * 1)
      /\ (a * 1 - 0 * b) * b = a * (b * 1) /\ (1 * a) * b = a * (1 * b)
      /\ (a * 0) * 1 = 0 * (b * 1) /\ (0 * a) * 1 = 0 * (1 * b) /\ (a * b - a * b) * 1 = 0 * (b * b)
  BY <1>1
<1>6. Plus(Whole(0), p) = p /\ Plus(p, Whole(0)) = p /\ Minus(p, Whole(0)) = p
  <2>1. Plus(Whole(0), p) = p BY ONLY <1>2, <1>4, <1>5, FracSame, Zenon
  <2>2. Plus(p, Whole(0)) = p BY ONLY <1>2, <1>4, <1>5, FracSame, Zenon
  <2>3. Minus(p, Whole(0)) = p BY ONLY <1>2, <1>4, <1>5, FracSame, Zenon
  <2> QED BY <2>1, <2>2, <2>3
<1>7. Times(Whole(1), p) = p BY <1>2, <1>4, <1>5, FracSame, Zenon
<1>8. Times(p, Whole(0)) = Whole(0) BY <1>3, <1>4, <1>5, FracSame, Zenon
<1>9. Times(Whole(0), p) = Whole(0) BY <1>3, <1>4, <1>5, FracSame, Zenon
<1>10. Minus(p, p) = Whole(0) BY <1>3, <1>4, <1>5, FracSame, Zenon
<1> QED BY <1>6, <1>7, <1>8, <1>9, <1>10

\* The order of the operands.
LEMMA RationalCommute ==
  ASSUME NEW p \in Rationals, NEW q \in Rationals
  PROVE  Plus(p, q) = Plus(q, p) /\ Times(p, q) = Times(q, p)
<1> DEFINE a == p[1]
           b == p[2]
           c == q[1]
           d == q[2]
<1>1. a \in Int /\ b \in Int /\ c \in Int /\ d \in Int BY RationalParts
<1>2. Frac(p, a, b) /\ Frac(q, c, d) BY FracSelf
<1> HIDE DEF a, b, c, d
<1>3. /\ Frac(Plus(p, q), a * d + c * b, b * d) /\ Frac(Plus(q, p), c * b + a * d, d * b)
      /\ Frac(Times(p, q), a * c, b * d) /\ Frac(Times(q, p), c * a, d * b)
  BY <1>2, FracArithmetic, Zenon
<1>4. (a * d + c * b) * (d * b) = (c * b + a * d) * (b * d) /\ (a * c) * (d * b) = (c * a) * (b * d)
  BY <1>1
<1> QED BY <1>3, <1>4, FracSame, Zenon

\* The opposite of a factor.
LEMMA RationalSigns ==
  ASSUME NEW p \in Rationals, NEW q \in Rationals, NEW r \in Rationals
  PROVE  /\ Minus(p, Times(q, Minus(Whole(0), r))) = Plus(p, Times(q, r))
         /\ Plus(Times(q, Minus(Whole(0), r)), p) = Minus(p, Times(q, r))
<1> DEFINE a == p[1]
           b == p[2]
           c == q[1]
           d == q[2]
           e == r[1]
           f == r[2]
           n == 0 * f - e * 1
           g == 1 * f
<1>1. a \in Int /\ b \in Int /\ c \in Int /\ d \in Int /\ e \in Int /\ f \in Int BY RationalParts
<1>2. Frac(p, a, b) /\ Frac(q, c, d) /\ Frac(r, e, f) BY FracSelf
<1>3. Frac(Whole(0), 0, 1) BY WholeIs
<1> HIDE DEF a, b, c, d, e, f
<1>4. Frac(Minus(Whole(0), r), n, g) BY <1>2, <1>3, FracArithmetic, Zenon
<1>5. n = -e /\ g = f /\ n \in Int /\ g \in Int BY <1>1
<1> HIDE DEF n, g
<1>6. Frac(Times(q, Minus(Whole(0), r)), c * n, d * g) /\ Frac(Times(q, r), c * e, d * f)
  BY <1>2, <1>4, FracArithmetic, Zenon
<1>7. /\ Frac(Minus(p, Times(q, Minus(Whole(0), r))), a * (d * g) - (c * n) * b, b * (d * g))
      /\ Frac(Plus(Times(q, Minus(Whole(0), r)), p), (c * n) * b + a * (d * g), (d * g) * b)
      /\ Frac(Plus(p, Times(q, r)), a * (d * f) + (c * e) * b, b * (d * f))
      /\ Frac(Minus(p, Times(q, r)), a * (d * f) - (c * e) * b, b * (d * f))
  BY <1>2, <1>6, FracArithmetic, Zenon
<1>8. (c * n) * b = -((c * e) * b)
  <2>1. (c * (-e)) * b = -((c * e) * b) BY <1>1
  <2> QED BY <1>5, <2>1
<1>9. /\ (a * (d * g) - (c * n) * b) * (b * (d * f)) = (a * (d * f) + (c * e) * b) * (b * (d * g))
      /\ ((c * n) * b + a * (d * g)) * (b * (d * f)) = (a * (d * f) - (c * e) * b) * ((d * g) * b)
  BY <1>1, <1>5, <1>8
<1> QED BY <1>7, <1>9, FracSame, Zenon

\* A common factor of the operands of a division.
LEMMA RationalScale ==
  ASSUME NEW p \in Rationals, NEW q \in Rationals, q[1] # 0
  PROVE  Over(Times(p, q), Times(q, q)) = Over(p, q)
<1> DEFINE a == p[1]
           b == p[2]
           c == q[1]
           d == q[2]
<1>1. a \in Int /\ b \in Int /\ c \in Int /\ d \in Int /\ c # 0 BY RationalParts
<1>2. Frac(p, a, b) /\ Frac(q, c, d) BY FracSelf
<1> HIDE DEF a, b, c, d
<1>3. Frac(Over(p, q), a * d, b * c) BY <1>1, <1>2, FracArithmetic, Zenon
<1>4. Frac(Times(p, q), a * c, b * d) /\ Frac(Times(q, q), c * c, d * d) BY <1>2, FracArithmetic, Zenon
<1>5. c * c # 0
  <2> SUFFICES ASSUME c * c = 0 * c PROVE FALSE BY <1>1
  <2> QED BY <1>1, Cancel
<1>6. Frac(Over(Times(p, q), Times(q, q)), (a * c) * (d * d), (b * d) * (c * c))
  BY <1>4, <1>5, FracArithmetic, Zenon
<1>7. ((a * c) * (d * d)) * (b * c) = (a * d) * ((b * d) * (c * c)) BY <1>1
<1> QED BY <1>3, <1>6, <1>7, FracSame, Zenon

\* Zero is the rational whose numerator is zero, and integers those whose denominator is one.
LEMMA RationalKinds ==
  ASSUME NEW q \in Rationals
  PROVE  (q = Whole(0) <=> q[1] = 0) /\ (q[2] = 1 <=> q = Whole(q[1]))
<1>1. q[1] = 0 => q = Whole(0)
  <2>1. ASSUME q[1] = 0 PROVE q[1] * 1 = 0 * q[2] BY <2>1, RationalParts
  <2>2. Frac(Whole(0), 0, 1) /\ Frac(q, q[1], q[2]) BY WholeIs, FracSelf
  <2> QED BY <2>1, <2>2, FracSame, Zenon
<1>2. q = Whole(0) => q[1] = 0 BY DEF Whole
<1>3. q[2] = 1 => q = Whole(q[1])
  <2>1. q = <<q[1], q[2]>> BY RationalParts
  <2>2. q[2] = 1 => <<q[1], q[2]>> = <<q[1], 1>> OBVIOUS
  <2> QED BY ONLY <2>1, <2>2, Zenon DEF Whole
<1>4. q = Whole(q[1]) => q[2] = 1 BY DEF Whole
<1> QED BY <1>1, <1>2, <1>3, <1>4

-----------------------------------------------------------------------------
(* Representations. What an operation returns is a number, and the number it  *)
(* stands for depends on the numbers the operands stand for alone.            *)

\* A simple number.
LEMMA SimpleIs ==
  ASSUME NEW x \in Simple
  PROVE  /\ x.q \in Rationals /\ IsSimple(x) /\ x.rep \in {"fixed", "big", "rational"}
         /\ x.rep # "rational" => x.q[2] = 1
  BY DEF Simple, IsSimple

\* The three representations of simple numbers.
LEMMA RepresentationIs ==
  ASSUME NEW n \in Int, NEW q \in Rationals
  PROVE  /\ Fixed(n) \in Simple /\ Fixed(n).q = Whole(n) /\ Fixed(n).rep = "fixed"
         /\ Big(n) \in Simple /\ Big(n).q = Whole(n) /\ Big(n).rep = "big"
         /\ Rational(q) \in Simple /\ Rational(q).q = q /\ Rational(q).rep = "rational"
<1>1. Whole(n) \in Rationals /\ Whole(n)[2] = 1 BY WholeIs
<1> QED BY <1>1 DEF Simple, Fixed, Big, Rational

\* x is a simple number and stands for q.
StandsFor(x, q) == x \in Simple /\ x.q = q

\* Whatever representation is chosen for a result that is an integer when the operands are, it stands for it.
LEMMA ArithmeticIs ==
  ASSUME NEW x \in Simple, NEW y \in Simple, NEW v \in Rationals,
         x.rep # "rational" /\ y.rep # "rational" => v[2] = 1
  PROVE  StandsFor(Arithmetic(x, y, v), v)
<1>1. v[1] \in Int BY RationalParts
<1>2. CASE "rational" \in {x.rep, y.rep}
  <2>1. Arithmetic(x, y, v) = Rational(v) BY <1>2 DEF Arithmetic
  <2> QED BY <1>1, <2>1, RepresentationIs DEF StandsFor
<1>3. CASE "rational" \notin {x.rep, y.rep}
  <2>1. v = Whole(v[1]) BY <1>3, RationalKinds
  <2>2. Arithmetic(x, y, v) \in {Big(v[1]), Fixed(v[1])} BY <1>3 DEF Arithmetic
  <2> QED BY <1>1, <2>1, <2>2, RepresentationIs DEF StandsFor
<1> QED BY <1>2, <1>3

\* Addition, subtraction and multiplication of simple numbers.
LEMMA SimpleOperations ==
  ASSUME NEW x \in Simple, NEW y \in Simple
  PROVE  /\ StandsFor(SimpleAdd(x, y), Plus(x.q, y.q))
         /\ StandsFor(SimpleSub(x, y), Minus(x.q, y.q))
         /\ StandsFor(SimpleMul(x, y), Times(x.q, y.q))
<1>1. x.q \in Rationals /\ y.q \in Rationals BY SimpleIs
<1>2. Plus(x.q, y.q) \in Rationals /\ Minus(x.q, y.q) \in Rationals /\ Times(x.q, y.q) \in Rationals
  BY <1>1, RationalClosed
<1>3. ASSUME x.rep # "rational", y.rep # "rational"
      PROVE  Plus(x.q, y.q)[2] = 1 /\ Minus(x.q, y.q)[2] = 1 /\ Times(x.q, y.q)[2] = 1
  <2> DEFINE m == x.q[1]
             n == y.q[1]
  <2>1. m \in Int /\ n \in Int BY <1>1, RationalParts
  <2>2. x.q = Whole(m) /\ y.q = Whole(n) BY <1>1, <1>3, SimpleIs, RationalKinds
  <2> HIDE DEF m, n
  <2>3. Plus(x.q, y.q) = Whole(m + n) /\ Minus(x.q, y.q) = Whole(m - n) /\ Times(x.q, y.q) = Whole(m * n)
    BY <2>1, <2>2, WholeArithmetic, Zenon
  <2>4. m + n \in Int /\ m - n \in Int /\ m * n \in Int BY <2>1
  <2>5. Whole(m + n)[2] = 1 /\ Whole(m - n)[2] = 1 /\ Whole(m * n)[2] = 1 BY <2>4, WholeIs, Zenon
  <2> QED BY <2>3, <2>5, Zenon
<1> QED BY <1>2, <1>3, ArithmeticIs, Zenon DEF SimpleAdd, SimpleSub, SimpleMul

\* Division.
LEMMA SimpleDivIs ==
  ASSUME NEW x \in Simple, NEW y \in Simple, y.q # Whole(0)
  PROVE  StandsFor(SimpleDiv(x, y), Over(x.q, y.q))
<1>1. x.q \in Rationals /\ y.q \in Rationals BY SimpleIs
<1>2. Over(x.q, y.q) \in Rationals BY <1>1, RationalClosed, RationalKinds
<1>3. 0 \in Int OBVIOUS
<1> QED BY <1>2, <1>3, RepresentationIs, Zenon DEF StandsFor, SimpleDiv

\* The opposite: of the smallest machine integer it is big.
LEMMA SimpleNegIs ==
  ASSUME NEW x \in Simple
  PROVE  StandsFor(SimpleNeg(x), Minus(Whole(0), x.q))
<1> DEFINE v == Minus(Whole(0), x.q)
           n == x.q[1]
<1>1. x.q \in Rationals /\ Whole(0) \in Rationals /\ n \in Int BY SimpleIs, WholeIs, RationalParts
<1>2. v \in Rationals BY <1>1, RationalClosed
<1>3. x.rep # "rational" => v = Whole(v[1])
  <2> SUFFICES ASSUME x.rep # "rational" PROVE v = Whole(v[1]) OBVIOUS
  <2>1. x.q = Whole(n) BY <1>1, SimpleIs, RationalKinds
  <2>2. v = Whole(0 - n)
    <3>1. Minus(Whole(0), Whole(n)) = Whole(0 - n)
      <4>1. 0 \in Int OBVIOUS
      <4> QED BY <1>1, <4>1, WholeArithmetic, Zenon
    <3> QED BY ONLY <2>1, <3>1, Zenon
  <2>3. 0 - n \in Int BY <1>1
  <2>4. Whole(0 - n)[1] = 0 - n BY <2>3, WholeIs, Zenon
  <2> QED BY <2>2, <2>4, Zenon
<1>4. v[1] \in Int BY <1>2, RationalParts
<1>5. CASE x.rep = "fixed"
  <2>1. SimpleNeg(x) \in {Fixed(v[1]), Big(v[1])} BY <1>5 DEF SimpleNeg
  <2>2. v = Whole(v[1]) BY <1>3, <1>5
  <2> QED BY <1>1, <1>4, <2>1, <2>2, RepresentationIs DEF StandsFor
<1>6. CASE x.rep = "big"
  <2>1. SimpleNeg(x) = [x EXCEPT !.q = v] BY <1>6 DEF SimpleNeg
  <2>2. v[2] = 1
    <3>1. v = Whole(v[1]) BY <1>3, <1>6
    <3> QED BY <1>2, <3>1, RationalKinds
  <2> HIDE DEF v
  <2>3. x \in [rep : {"big"}, q : Rationals] BY <1>6 DEF Simple
  <2>4. [x EXCEPT !.q = v] = [rep |-> "big", q |-> v] BY <2>3
  <2> QED BY <1>2, <2>1, <2>2, <2>4 DEF StandsFor, Simple, v
<1>7. CASE x.rep = "rational"
  <2>1. SimpleNeg(x) = [x EXCEPT !.q = v] BY <1>7 DEF SimpleNeg
  <2> HIDE DEF v
  <2>2. x \in [rep : {"rational"}, q : Rationals] BY <1>7 DEF Simple
  <2>3. [x EXCEPT !.q = v] = [rep |-> "rational", q |-> v] BY <2>2
  <2> QED BY <1>2, <2>1, <2>3 DEF StandsFor, Simple, v
<1> QED BY <1>5, <1>6, <1>7, SimpleIs

\* The powers of p up to the one with exponent e.
PowersOf(f, p, e) == f = [i \in 0..e |-> IF i = 0 THEN Whole(1) ELSE Times(f[i - 1], p)]

\* They exist.
LEMMA PowersExist ==
  ASSUME NEW p \in Rationals, NEW e \in Nat
  PROVE  \E f \in [0..e -> Rationals] : PowersOf(f, p, e)
<1> DEFINE Has(m) == \E f \in [0..m -> Rationals] : PowersOf(f, p, m)
           Bad == {m \in Nat : ~Has(m)}
<1>0. \A m \in Nat : m \notin Bad => Has(m) OBVIOUS
<1> SUFFICES ASSUME Bad # {} PROVE FALSE BY <1>0
<1>1. PICK m \in Bad : \A i \in Bad : m <= i
  <2>1. Bad \subseteq Nat OBVIOUS
  <2> QED BY <2>1, Least
<1>2. m \in Nat /\ ~Has(m) OBVIOUS
<1>3. Whole(1) \in Rationals BY WholeIs
<1>4. m # 0
  <2> DEFINE f == [i \in 0..0 |-> Whole(1)]
  <2>1. f \in [0..0 -> Rationals] BY <1>3
  <2>2. PowersOf(f, p, 0) BY DEF PowersOf
  <2> QED BY <1>2, <2>1, <2>2
<1>5. m - 1 \in Nat /\ m - 1 \notin Bad
  <2>1. m - 1 \in Nat /\ m - 1 < m BY <1>2, <1>4
  <2> QED BY <1>1, <2>1
<1>6. PICK f \in [0..(m - 1) -> Rationals] : PowersOf(f, p, m - 1) BY <1>5
<1> DEFINE g == [i \in 0..m |-> IF i = m THEN Times(f[m - 1], p) ELSE f[i]]
<1>7. f[m - 1] \in Rationals /\ Times(f[m - 1], p) \in Rationals
  <2>1. f[m - 1] \in Rationals BY <1>2, <1>4
  <2> QED BY <2>1, RationalClosed
<1>8. g \in [0..m -> Rationals]
  <2>1. \A i \in 0..m : i # m => i \in 0..(m - 1) BY <1>2, <1>4
  <2> QED BY <1>7, <2>1
<1>9. \A i \in 0..m : g[i] = IF i = 0 THEN Whole(1) ELSE Times(g[i - 1], p)
  <2> SUFFICES ASSUME NEW i \in 0..m PROVE g[i] = IF i = 0 THEN Whole(1) ELSE Times(g[i - 1], p)
    OBVIOUS
  <2>1. CASE i = m
    <3>1. m - 1 \in 0..m /\ m - 1 # m BY <1>2, <1>4
    <3>2. g[m - 1] = f[m - 1] /\ g[m] = Times(f[m - 1], p) BY <1>2, <3>1
    <3> QED BY <1>4, <2>1, <3>2
  <2>2. CASE i # m
    <3>1. i \in 0..(m - 1) /\ (i # 0 => i - 1 \in 0..m /\ i - 1 # m) BY <1>2, <2>2
    <3>2. f[i] = IF i = 0 THEN Whole(1) ELSE Times(f[i - 1], p) BY <1>6, <3>1, Zenon DEF PowersOf
    <3>3. g[i] = f[i] /\ (i # 0 => g[i - 1] = f[i - 1]) BY <2>2, <3>1
    <3> HIDE DEF g
    <3> QED BY <3>2, <3>3
  <2> QED BY <2>1, <2>2
<1>10. PowersOf(g, p, m)
  <2>1. g = [i \in 0..m |-> g[i]] BY <1>8
  <2> HIDE DEF g
  <2>2. [i \in 0..m |-> g[i]] = [i \in 0..m |-> IF i = 0 THEN Whole(1) ELSE Times(g[i - 1], p)] BY <1>9
  <2> QED BY ONLY <2>1, <2>2, Zenon DEF PowersOf
<1> QED BY <1>2, <1>8, <1>10

\* Powers with different last exponents agree.
LEMMA PowersAgree ==
  ASSUME NEW p, NEW e \in Nat, NEW d \in Nat, NEW f, NEW g, PowersOf(f, p, e), PowersOf(g, p, d),
         NEW k \in Nat, k <= e, k <= d
  PROVE  f[k] = g[k]
<1> DEFINE Bad == {i \in Nat : i <= k /\ f[i] # g[i]}
<1> SUFFICES ASSUME Bad # {} PROVE FALSE OBVIOUS
<1>1. PICK i \in Bad : \A j \in Bad : i <= j
  <2>1. Bad \subseteq Nat OBVIOUS
  <2> QED BY <2>1, Least
<1>2. i \in Nat /\ i <= k /\ f[i] # g[i] OBVIOUS
<1>3. i \in 0..e /\ i \in 0..d BY <1>2
<1>4. f[i] = (IF i = 0 THEN Whole(1) ELSE Times(f[i - 1], p)) /\ g[i] = (IF i = 0 THEN Whole(1) ELSE Times(g[i - 1], p))
  BY <1>3, Zenon DEF PowersOf
<1>5. i # 0 BY <1>2, <1>4
<1>6. i - 1 \in Nat /\ i - 1 <= k /\ i - 1 < i BY <1>2, <1>5
<1>7. f[i - 1] = g[i - 1] BY <1>1, <1>6
<1> QED BY <1>2, <1>4, <1>5, <1>7, Zenon

\* A power is a product of the base and a smaller power.
LEMMA PowerIs ==
  ASSUME NEW p \in Rationals, NEW e \in Nat
  PROVE  /\ Power(p, e) \in Rationals
         /\ Power(p, 0) = Whole(1)
         /\ Power(p, e + 1) = Times(Power(p, e), p)
<1>1. ASSUME NEW m \in Nat
      PROVE  \E f \in [0..m -> Rationals] : PowersOf(f, p, m) /\ Power(p, m) = f[m]
  <2> DEFINE t == CHOOSE f : PowersOf(f, p, m)
  <2>1. PICK f \in [0..m -> Rationals] : PowersOf(f, p, m) BY PowersExist
  <2>2. PowersOf(t, p, m) BY <2>1, Zenon
  <2>3. Power(p, m) = t[m] BY Zenon DEF Power, PowersOf
  <2> HIDE DEF t
  <2>4. m \in Nat /\ m <= m BY <1>1
  <2>5. t[m] = f[m] BY <2>1, <2>2, <2>4, PowersAgree
  <2> QED BY <2>1, <2>3, <2>5
<1>2. PICK f \in [0..e -> Rationals] : PowersOf(f, p, e) /\ Power(p, e) = f[e] BY <1>1
<1>3. e + 1 \in Nat /\ e \in 0..e /\ e <= e + 1 /\ e <= e OBVIOUS
<1>4. PICK g \in [0..(e + 1) -> Rationals] : PowersOf(g, p, e + 1) /\ Power(p, e + 1) = g[e + 1] BY <1>1, <1>3
<1>5. PICK h \in [0..0 -> Rationals] : PowersOf(h, p, 0) /\ Power(p, 0) = h[0]
  <2>1. 0 \in Nat OBVIOUS
  <2> QED BY <1>1, <2>1
<1>6. f[e] = g[e] BY <1>2, <1>3, <1>4, PowersAgree
<1>7. g[e + 1] = Times(g[e], p)
  <2>1. e + 1 \in 0..(e + 1) /\ e + 1 # 0 /\ (e + 1) - 1 = e OBVIOUS
  <2>2. g[e + 1] = IF e + 1 = 0 THEN Whole(1) ELSE Times(g[(e + 1) - 1], p)
    BY <1>4, <2>1, Zenon DEF PowersOf
  <2> QED BY ONLY <2>1, <2>2, Zenon
<1>8. h[0] = Whole(1)
  <2>1. 0 \in 0..0 OBVIOUS
  <2> QED BY <1>5, <2>1, Zenon DEF PowersOf
<1> QED BY <1>2, <1>3, <1>4, <1>5, <1>6, <1>7, <1>8, Zenon

\* What holds of the first power and of every next one holds of all.
LEMMA PowersOfIntegers ==
  ASSUME NEW n \in Int, NEW e \in Nat
  PROVE  /\ Power(Whole(n), e)[2] = 1
         /\ n # 0 => Power(Whole(n), e) # Whole(0)
         /\ n # 0 => Power(Over(Whole(1), Whole(n)), e) = Over(Whole(1), Power(Whole(n), e))
<1> DEFINE w == Whole(n)
           o == Over(Whole(1), w)
           P(k) == \E m \in Int : /\ Power(w, k) = Whole(m)
                                  /\ n # 0 => m # 0 /\ Power(o, k) = Over(Whole(1), Whole(m))
           Bad == {k \in Nat : ~P(k)}
<1>1. w \in Rationals /\ w[1] = n /\ Frac(w, n, 1) /\ Frac(Whole(1), 1, 1) /\ Whole(1) \in Rationals
  BY WholeIs
<1>2. n # 0 => o \in Rationals /\ Frac(o, 1 * 1, 1 * n)
  <2>1. n # 0 => Frac(o, 1 * 1, 1 * n) BY <1>1, FracArithmetic, Zenon
  <2> QED BY <2>1 DEF Frac
<1> HIDE DEF w, o
<1>3. P(0)
  <2>1. Power(w, 0) = Whole(1) /\ (n # 0 => Power(o, 0) = Whole(1))
    <3>1. 0 \in Nat OBVIOUS
    <3> QED BY <1>1, <1>2, <3>1, PowerIs, Zenon
  <2>2. Over(Whole(1), Whole(1)) = Whole(1)
    <3>1. 1 # 0 /\ (1 * 1) * 1 = 1 * (1 * 1) OBVIOUS
    <3>2. Frac(Over(Whole(1), Whole(1)), 1 * 1, 1 * 1) BY <1>1, <3>1, FracArithmetic, Zenon
    <3> QED BY <1>1, <3>1, <3>2, FracSame, Zenon
  <2>3. 1 \in Int /\ 1 # 0 OBVIOUS
  <2> QED BY <2>1, <2>2, <2>3, Zenon
<1>4. ASSUME NEW k \in Nat, P(k) PROVE P(k + 1)
  <2>1. PICK m \in Int : /\ Power(w, k) = Whole(m)
                         /\ n # 0 => m # 0 /\ Power(o, k) = Over(Whole(1), Whole(m))
    BY <1>4
  <2>2. m * n \in Int /\ (n # 0 /\ m # 0 => m * n # 0)
    <3>1. ASSUME n # 0, m # 0, m * n = 0 * n PROVE FALSE BY <3>1, Cancel
    <3> QED BY <3>1
  <2>3. Power(w, k + 1) = Whole(m * n)
    <3>1. Power(w, k + 1) = Times(Whole(m), w) BY <1>1, <2>1, PowerIs, Zenon
    <3>2. Times(Whole(m), Whole(n)) = Whole(m * n) BY WholeArithmetic
    <3> QED BY <3>1, <3>2, Zenon DEF w
  <2>4. ASSUME n # 0 PROVE Power(o, k + 1) = Over(Whole(1), Whole(m * n))
    <3>1. Power(o, k + 1) = Times(Over(Whole(1), Whole(m)), o) BY <1>2, <2>1, <2>4, PowerIs, Zenon
    <3>2. Frac(Whole(m), m, 1) /\ Frac(Whole(m * n), m * n, 1) BY <2>2, WholeIs, Zenon
    <3>3. m # 0 /\ m * n # 0 BY <2>1, <2>2, <2>4
    <3>4. Frac(Over(Whole(1), Whole(m)), 1 * 1, 1 * m) /\ Frac(Over(Whole(1), Whole(m * n)), 1 * 1, 1 * (m * n))
      BY <1>1, <3>2, <3>3, FracArithmetic, Zenon
    <3>5. Frac(Times(Over(Whole(1), Whole(m)), o), (1 * 1) * (1 * 1), (1 * m) * (1 * n))
      BY <1>2, <2>4, <3>4, FracArithmetic, Zenon
    <3>6. ((1 * 1) * (1 * 1)) * (1 * (m * n)) = (1 * 1) * ((1 * m) * (1 * n)) BY <2>2
    <3>7. Times(Over(Whole(1), Whole(m)), o) = Over(Whole(1), Whole(m * n)) BY <3>4, <3>5, <3>6, FracSame, Zenon
    <3> QED BY <3>1, <3>7, Zenon
  <2> QED BY <2>2, <2>1, <2>3, <2>4, Zenon
<1>5. P(e)
  <2> SUFFICES ASSUME Bad # {} PROVE FALSE OBVIOUS
  <2>1. PICK k \in Bad : \A i \in Bad : k <= i
    <3>1. Bad \subseteq Nat OBVIOUS
    <3> QED BY <3>1, Least
  <2>2. k \in Nat /\ ~P(k) OBVIOUS
  <2>3. \A i \in Nat : i \notin Bad => P(i) OBVIOUS
  <2> HIDE DEF P
  <2>4. k # 0 BY <1>3, <2>2
  <2>5. k - 1 \in Nat /\ k - 1 < k /\ (k - 1) + 1 = k BY <2>2, <2>4
  <2>6. k - 1 \notin Bad BY <2>1, <2>5
  <2>7. P(k - 1) BY <2>3, <2>5, <2>6
  <2> QED BY <1>4, <2>2, <2>5, <2>7
<1>6. PICK m \in Int : /\ Power(w, e) = Whole(m)
                       /\ n # 0 => m # 0 /\ Power(o, e) = Over(Whole(1), Whole(m))
  BY <1>5
<1>7. Whole(m)[2] = 1 /\ (m # 0 => Whole(m) # Whole(0))
  <2>1. Whole(m)[1] = m /\ Whole(m)[2] = 1 /\ Whole(0)[1] = 0 BY WholeIs
  <2> QED BY <2>1
<1> QED BY <1>6, <1>7, Zenon DEF w, o

\* The sign of a numerator does not matter to its divisors.
LEMMA MagnitudeIs ==
  ASSUME NEW r \in Rationals
  PROVE  /\ <<Magnitude(r[1]), r[2]>> \in Rationals
         /\ Frac(<<Magnitude(r[1]), r[2]>>, Magnitude(r[1]), r[2])
<1> DEFINE n == r[1]
           d == r[2]
<1>1. n \in Int /\ d \in Int /\ d > 0 /\ CommonDivisors(n, d) = {1} /\ r = <<n, d>> BY RationalParts
<1> HIDE DEF n, d
<1>2. ASSUME NEW g \in Int, g > 0 PROVE (-n) % g = 0 => n % g = 0
  <2> SUFFICES ASSUME (-n) % g = 0 PROVE n % g = 0 OBVIOUS
  <2> DEFINE m == -n
             k == m \div g
  <2>1. m \in Int BY <1>1
  <2>2. k \in Int /\ m = g * k BY <1>2, <2>1, MultiplesOf, Division
  <2> HIDE DEF k
  <2>3. n = g * (-k) /\ -k \in Int BY <1>1, <2>2
  <2> QED BY <1>1, <1>2, <2>3, MultiplesOf
<1>3. CommonDivisors(-n, d) = {1}
  <2>1. CommonDivisors(-n, d) \subseteq CommonDivisors(n, d) BY <1>1, <1>2 DEF CommonDivisors, Magnitude
  <2>2. 1 \in CommonDivisors(-n, d)
    <3>1. -n \in Int BY <1>1
    <3>2. (-n) % 1 = 0 /\ d % 1 = 0 BY <1>1, <3>1, MultiplesOf
    <3> QED BY <1>1, <3>1, <3>2, Commons
  <2> QED BY <1>1, <2>1, <2>2
<1>4. <<-n, d>> \in Rationals
  <2>1. -n \in Int /\ d \in Nat \ {0} BY <1>1
  <2> QED BY <1>3, <2>1 DEF Rationals
<1>5. Magnitude(n) \in {n, -n} BY DEF Magnitude
<1>6. <<Magnitude(n), d>> \in Rationals BY <1>1, <1>4, <1>5
<1>7. Frac(<<Magnitude(n), d>>, Magnitude(n), d)
  <2>1. <<Magnitude(n), d>>[1] = Magnitude(n) /\ <<Magnitude(n), d>>[2] = d OBVIOUS
  <2> QED BY ONLY <1>6, <2>1, FracSelf, Zenon
<1> QED BY <1>6, <1>7 DEF n, d

\* What is left of p when q times r is taken off, and what the quotient has to be.
Rest(p, r, q) == Minus(p, Times(Whole(q), r))
IsQuotient(p, r, q) == Rest(p, r, q)[1] >= 0 /\ Below(Rest(p, r, q), <<Magnitude(r[1]), r[2]>>)

\* The same in integers.
LEMMA QuotientInIntegers ==
  ASSUME NEW p \in Rationals, NEW r \in Rationals, NEW q \in Int, r[1] # 0
  PROVE  IsQuotient(p, r, q) <=> /\ 0 <= p[1] * r[2] - q * (p[2] * r[1])
                                 /\ p[1] * r[2] - q * (p[2] * r[1]) < Magnitude(p[2] * r[1])
<1> DEFINE a == p[1]
           b == p[2]
           c == r[1]
           d == r[2]
<1>1. a \in Int /\ b \in Int /\ c \in Int /\ d \in Int /\ b > 0 /\ d > 0 /\ c # 0 BY RationalParts
<1>2. Frac(p, a, b) /\ Frac(r, c, d) /\ Frac(<<Magnitude(c), d>>, Magnitude(c), d)
  BY FracSelf, MagnitudeIs
<1> HIDE DEF a, b, c, d
<1>3. Frac(Whole(q), q, 1) BY WholeIs
<1>4. Frac(Times(Whole(q), r), q * c, 1 * d) BY <1>2, <1>3, FracArithmetic, Zenon
<1> DEFINE n == a * (1 * d) - (q * c) * b
           e == b * (1 * d)
           t == a * d - q * (b * c)
<1>5. Frac(Rest(p, r, q), n, e) BY <1>2, <1>4, FracArithmetic, Zenon DEF Rest
<1>6. n = t /\ t \in Int /\ e = b * d /\ e \in Int BY <1>1
<1>7. e > 0
  <2>1. 0 * d < b * d BY <1>1, ProductOrder
  <2> QED BY <1>1, <1>6, <2>1
<1> HIDE DEF n, e, t
<1>8. /\ Below(Rest(p, r, q), <<Magnitude(c), d>>) <=> n * d < Magnitude(c) * e
      /\ Rest(p, r, q)[1] < 0 <=> n < 0
  BY <1>1, <1>2, <1>5, <1>7, FracOrder, Zenon
<1>9. Magnitude(c) * b = Magnitude(b * c) /\ Magnitude(c) * b \in Int
  <2>1. CASE c > 0
    <3>1. 0 * b < c * b BY <1>1, <2>1, ProductOrder
    <3> QED BY <1>1, <2>1, <3>1 DEF Magnitude
  <2>2. CASE c < 0
    <3>1. c * b < 0 * b BY <1>1, <2>2, ProductOrder
    <3> QED BY <1>1, <2>2, <3>1 DEF Magnitude
  <2> QED BY <1>1, <2>1, <2>2
<1>10. n * d < Magnitude(c) * e <=> t < Magnitude(b * c)
  <2>1. Magnitude(c) \in Int BY <1>1 DEF Magnitude
  <2>2. Magnitude(c) * e = (Magnitude(c) * b) * d BY <1>1, <1>6, <2>1
  <2>3. t < Magnitude(c) * b <=> t * d < (Magnitude(c) * b) * d BY <1>1, <1>6, <1>9, ProductOrder
  <2> QED BY ONLY <1>6, <1>9, <2>2, <2>3, Zenon
<1>11. Rest(p, r, q)[1] \in Int BY <1>5, RationalParts DEF Frac
<1>12. Rest(p, r, q)[1] >= 0 <=> 0 <= t BY <1>6, <1>8, <1>11
<1>13. IsQuotient(p, r, q) <=> 0 <= t /\ t < Magnitude(b * c)
  BY ONLY <1>8, <1>10, <1>12, Zenon DEF IsQuotient, c, d
<1> QED BY ONLY <1>13, Zenon DEF t, a, b, c, d

\* The reference quotient is the floor of the fraction, or its ceiling when the divisor is negative.
LEMMA RefQuotientIs ==
  ASSUME NEW p \in Rationals, NEW r \in Rationals, r[1] # 0
  PROVE  /\ RefQuotient(p, r) \in Int /\ IsQuotient(p, r, RefQuotient(p, r))
         /\ RefQuotient(p, r) = IF r[1] > 0 THEN FloorOf(Over(p, r)) ELSE CeilingOf(Over(p, r))
<1> DEFINE a == p[1]
           b == p[2]
           c == r[1]
           d == r[2]
           N == a * d
           D == b * c
           u == Over(p, r)
           v == u[1]
           w == u[2]
           f == v \div w
           h == -((-v) \div w)
<1>1. a \in Int /\ b \in Int /\ c \in Int /\ d \in Int /\ b > 0 /\ d > 0 /\ c # 0 BY RationalParts
<1>2. Frac(u, N, D) BY FracSelf, FracArithmetic
<1>3. N \in Int /\ D \in Int /\ D # 0 /\ v \in Int /\ w \in Int /\ w > 0 /\ v * D = N * w
  BY <1>2, RationalParts DEF Frac
<1>4. D > 0 <=> c > 0
  <2>1. CASE c > 0
    <3>1. 0 * b < c * b BY <1>1, <2>1, ProductOrder
    <3> QED BY <1>1, <2>1, <3>1
  <2>2. CASE c < 0
    <3>1. c * b < 0 * b BY <1>1, <2>2, ProductOrder
    <3> QED BY <1>1, <2>2, <3>1
  <2> QED BY <1>1, <2>1, <2>2
<1>5. \A q \in Int : IsQuotient(p, r, q) <=> 0 <= N - q * D /\ N - q * D < Magnitude(D)
  BY <1>1, QuotientInIntegers
<1> DEFINE Q(q) == 0 <= N - q * D /\ N - q * D < Magnitude(D)
<1>6. FloorOf(u) = f /\ CeilingOf(u) = h BY DEF FloorOf, CeilingOf
<1> HIDE DEF a, b, c, d, N, D, u, v, w
<1>7. PICK s \in Int, z \in Int :
         /\ f \in Int /\ h \in Int
         /\ v = w * f + s /\ 0 <= s /\ s < w /\ v = w * h - z /\ 0 <= z /\ z < w
  <2> DEFINE m == -v
             k == m \div w
  <2>1. f \in Int /\ v % w \in Int /\ v = w * f + (v % w) /\ 0 <= v % w /\ v % w < w BY <1>3, Division
  <2>2. m \in Int BY <1>3
  <2>3. k \in Int /\ m % w \in Int /\ m = w * k + (m % w) /\ 0 <= m % w /\ m % w < w BY <1>3, <2>2, Division
  <2>4. h = -k OBVIOUS
  <2> HIDE DEF f, h, k
  <2>5. v = -m BY <1>3
  <2> HIDE DEF m
  <2>6. v = w * h - (m % w) BY <1>3, <2>2, <2>3, <2>4, <2>5
  <2>7. h \in Int BY <2>3, <2>4
  <2> QED BY <2>1, <2>3, <2>6, <2>7
<1> HIDE DEF f, h
<1>8. h \in (f - 1)..((f - 1) + 2) /\ f \in (f - 1)..((f - 1) + 2)
  <2>1. w * (h - f) = s + z
    <3>1. w * (h - f) = w * h - w * f BY <1>3, <1>7
    <3>2. w * h \in Int /\ w * f \in Int BY <1>3, <1>7
    <3> QED BY <1>3, <1>7, <3>1, <3>2
  <2>2. (h - f) * w = s + z /\ h - f \in Int BY <1>3, <1>7, <2>1
  <2>3. ~(h - f <= -1)
    <3> SUFFICES ASSUME h - f <= -1 PROVE FALSE OBVIOUS
    <3>1. (h - f) * w <= (-1) * w BY <1>3, <2>2, ProductOrder
    <3> QED BY <1>3, <1>7, <2>2, <3>1
  <2>4. ~(2 <= h - f)
    <3> SUFFICES ASSUME 2 <= h - f PROVE FALSE OBVIOUS
    <3>1. 2 * w <= (h - f) * w BY <1>3, <2>2, ProductOrder
    <3> QED BY <1>3, <1>7, <2>2, <3>1
  <2> QED BY <1>7, <2>3, <2>4
<1>9. ASSUME D > 0 PROVE Q(f)
  <2>1. (N - f * D) * w = s * D
    <3>1. (N - f * D) * w = N * w - (f * w) * D BY <1>3, <1>7
    <3>2. (w * f + s) * D = (f * w) * D + s * D BY <1>3, <1>7
    <3>3. (f * w) * D \in Int /\ s * D \in Int BY <1>3, <1>7
    <3> QED BY <1>3, <1>7, <3>1, <3>2, <3>3
  <2>2. N - f * D \in Int BY <1>3, <1>7
  <2>3. 0 * D <= s * D /\ s * D < w * D BY <1>3, <1>7, <1>9, ProductOrder
  <2>4. 0 * w <= (N - f * D) * w /\ (N - f * D) * w < D * w BY <1>3, <2>1, <2>3
  <2>5. 0 <= N - f * D /\ N - f * D < D BY <1>3, <2>2, <2>4, ProductOrder
  <2> QED BY <1>3, <1>9, <2>5 DEF Magnitude
<1>10. ASSUME D < 0 PROVE Q(h)
  <2> DEFINE E == -D
  <2>1. E \in Int /\ E > 0 /\ D = -E BY <1>3, <1>10
  <2>2. (N - h * D) * w = z * E
    <3>1. (N - h * D) * w = N * w - (h * w) * D BY <1>3, <1>7
    <3>2. (w * h - z) * D = (h * w) * D - z * D BY <1>3, <1>7
    <3>3. (h * w) * D \in Int /\ z * D \in Int /\ z * E = -(z * D) BY <1>3, <1>7
    <3> QED BY <1>3, <1>7, <3>1, <3>2, <3>3
  <2> HIDE DEF E
  <2>3. N - h * D \in Int BY <1>3, <1>7
  <2>4. 0 * E <= z * E /\ z * E < w * E BY <1>3, <1>7, <2>1, ProductOrder
  <2>5. 0 * w <= (N - h * D) * w /\ (N - h * D) * w < E * w BY <1>3, <2>1, <2>2, <2>4
  <2>6. 0 <= N - h * D /\ N - h * D < E BY <1>3, <2>1, <2>3, <2>5, ProductOrder
  <2> QED BY <1>3, <2>1, <2>6 DEF Magnitude
<1>11. ASSUME NEW x \in Int, NEW y \in Int, Q(x), Q(y) PROVE x = y
  <2> DEFINE M == Magnitude(D)
             j == x * D
             k == y * D
  <2>1. M \in Int /\ M > 0 /\ M \in {D, -D} BY <1>3 DEF Magnitude
  <2>2. j \in Int /\ k \in Int BY <1>3
  <2>3. 0 <= N - j /\ N - j < M /\ 0 <= N - k /\ N - k < M BY <1>11
  <2>4. (x - y) * D = j - k BY <1>3
  <2> HIDE DEF M, j, k
  <2>5. (x - y) * D < M /\ -M < (x - y) * D BY <1>3, <2>1, <2>2, <2>3, <2>4
  <2>6. (x - y) * M < 1 * M /\ (-1) * M < (x - y) * M
    <3>1. CASE M = D BY <2>1, <2>5, <3>1
    <3>2. CASE M = -D
      <4>1. (x - y) * (-D) = -((x - y) * D) /\ (x - y) * D \in Int BY <1>3
      <4> QED BY <2>1, <2>5, <3>2, <4>1
    <3> QED BY <2>1, <3>1, <3>2
  <2>7. x - y \in Int OBVIOUS
  <2>8. x - y < 1 /\ -1 < x - y BY <2>1, <2>6, <2>7, ProductOrder
  <2> QED BY <2>8
<1> DEFINE best == IF c > 0 THEN f ELSE h
           S == (f - 1)..((f - 1) + 2)
<1>12. best \in S /\ best \in Int /\ Q(best)
  <2>1. CASE c > 0
    <3>1. D > 0 BY <1>4, <2>1
    <3> QED BY <1>7, <1>8, <1>9, <2>1, <3>1
  <2>2. CASE ~(c > 0)
    <3>1. D < 0 BY <1>3, <1>4, <2>2
    <3> QED BY <1>7, <1>8, <1>10, <2>2, <3>1
  <2> QED BY <2>1, <2>2
<1> HIDE DEF best, Q
<1>13. \A q \in S : IsQuotient(p, r, q) <=> q = best
  <2>1. S \subseteq Int BY <1>7
  <2> HIDE DEF S
  <2>2. \A q \in Int : IsQuotient(p, r, q) <=> Q(q) BY ONLY <1>5, Zenon DEF Q
  <2> QED BY ONLY <1>11, <1>12, <2>1, <2>2, Zenon
<1>14. RefQuotient(p, r) = CHOOSE q \in S : IsQuotient(p, r, q)
  BY ONLY <1>6, Zenon DEF RefQuotient, IsQuotient, Rest, u
<1>15. RefQuotient(p, r) = best
  <2> HIDE DEF S
  <2>1. \E q \in S : IsQuotient(p, r, q) BY ONLY <1>12, <1>13, Zenon
  <2>2. (CHOOSE q \in S : IsQuotient(p, r, q)) = best BY ONLY <1>13, <2>1, Zenon
  <2> QED BY ONLY <1>14, <2>2, Zenon
<1>16. IsQuotient(p, r, best) BY ONLY <1>12, <1>13, Zenon
<1>17. best = IF r[1] > 0 THEN FloorOf(Over(p, r)) ELSE CeilingOf(Over(p, r))
  BY ONLY <1>6, Zenon DEF best, c, u
<1> QED BY ONLY <1>12, <1>15, <1>16, <1>17, Zenon

\* div of simple numbers, whatever their signs.
LEMMA DivEuclidIs ==
  ASSUME NEW x \in Simple, NEW y \in Simple, y.q # Whole(0)
  PROVE  StandsFor(DivEuclid(x, y), Whole(RefQuotient(x.q, y.q)))
<1> DEFINE o == Over(x.q, y.q)
<1>1. x.q \in Rationals /\ y.q \in Rationals /\ y.q[1] \in Int /\ y.q[1] # 0
  BY SimpleIs, RationalParts, RationalKinds
<1>2. o \in Rationals BY <1>1, RationalClosed
<1>3. /\ RefQuotient(x.q, y.q) \in Int
      /\ RefQuotient(x.q, y.q) = IF y.q[1] > 0 THEN FloorOf(o) ELSE CeilingOf(o)
  BY <1>1, RefQuotientIs
<1>4. IsPositive(y) <=> y.q[1] > 0 BY <1>1 DEF IsPositive
<1>5. SimpleDiv(x, y) = Rational(o) BY DEF SimpleDiv
<1>6. Rational(o).rep = "rational" /\ Rational(o).q = o BY DEF Rational
<1> HIDE DEF o
<1>7. \A n : ToInteger(Rational(o), n) = Big(n) BY <1>6 DEF ToInteger
<1>8. DivEuclid(x, y) = Big(RefQuotient(x.q, y.q))
  <2>1. CASE IsPositive(y)
    <3>1. DivEuclid(x, y) = ToInteger(Rational(o), FloorOf(o)) BY ONLY <1>5, <1>6, <2>1, Zenon DEF DivEuclid
    <3> QED BY <1>3, <1>4, <1>7, <2>1, <3>1
  <2>2. CASE ~IsPositive(y)
    <3>1. DivEuclid(x, y) = ToInteger(Rational(o), CeilingOf(o)) BY ONLY <1>5, <1>6, <2>2, Zenon DEF DivEuclid
    <3> QED BY <1>3, <1>4, <1>7, <2>2, <3>1
  <2> QED BY <2>1, <2>2
<1> QED BY <1>2, <1>3, <1>8, RepresentationIs, Zenon DEF StandsFor

\* mod: the difference that is not negative.
LEMMA ModuloIs ==
  ASSUME NEW x \in Simple, NEW y \in Simple, y.q # Whole(0)
  PROVE  StandsFor(Modulo(x, y), Minus(x.q, Times(Whole(RefQuotient(x.q, y.q)), y.q)))
<1> DEFINE p == x.q
           r == y.q
           q == RefQuotient(p, r)
           t == Times(Whole(q), r)
           product == SimpleMul(y, DivEuclid(x, y))
<1>1. p \in Rationals /\ r \in Rationals /\ r[1] # 0 BY SimpleIs, RationalKinds
<1>2. q \in Int /\ IsQuotient(p, r, q) BY <1>1, RefQuotientIs
<1>3. StandsFor(DivEuclid(x, y), Whole(q)) BY DivEuclidIs
<1>4. Whole(q) \in Rationals BY <1>2, WholeIs
<1>5. StandsFor(product, Times(r, Whole(q)))
  <2> DEFINE d == DivEuclid(x, y)
  <2>1. d \in Simple /\ d.q = Whole(q) BY ONLY <1>3, Zenon DEF StandsFor
  <2> HIDE DEF d
  <2>2. StandsFor(SimpleMul(y, d), Times(y.q, d.q)) BY <2>1, SimpleOperations
  <2>3. StandsFor(SimpleMul(y, d), Times(y.q, Whole(q))) BY ONLY <2>1, <2>2, Zenon
  <2> QED BY <2>3 DEF d
<1>6. Times(r, Whole(q)) = t /\ t \in Rationals BY <1>1, <1>4, RationalCommute, RationalClosed
<1>7. product \in Simple /\ product.q = t BY ONLY <1>5, <1>6, Zenon DEF StandsFor
<1>8. Minus(p, t)[1] >= 0 BY <1>2 DEF IsQuotient, Rest
<1>9. Modulo(x, y) = IF Below(t, p) THEN SimpleSub(x, product) ELSE SimpleSub(product, x)
  BY ONLY <1>7, Zenon DEF Modulo, SimpleLess
<1>10. StandsFor(SimpleSub(x, product), Minus(p, t)) /\ StandsFor(SimpleSub(product, x), Minus(t, p))
  BY ONLY <1>7, SimpleOperations, x \in Simple, Zenon
<1> HIDE DEF p, r, t, product
<1>11. ASSUME ~Below(t, p) PROVE t = p
  <2> DEFINE a == p[1]
             b == p[2]
             c == t[1]
             d == t[2]
  <2>1. a \in Int /\ b \in Int /\ c \in Int /\ d \in Int /\ b > 0 /\ d > 0 BY <1>1, <1>6, RationalParts
  <2>2. Frac(p, a, b) /\ Frac(t, c, d) BY <1>1, <1>6, FracSelf
  <2>3. ~(c * b < a * d) BY <1>11 DEF Below
  <2> HIDE DEF a, b, c, d
  <2>4. Frac(Minus(p, t), a * d - c * b, b * d) BY <2>2, FracArithmetic, Zenon
  <2>5. b * d > 0
    <3>1. 0 * d < b * d BY <2>1, ProductOrder
    <3> QED BY <2>1, <3>1
  <2>6. Minus(p, t)[1] < 0 <=> a * d - c * b < 0 BY ONLY <2>4, <2>5, FracOrder, Zenon
  <2>7. Minus(p, t)[1] \in Int BY <2>4, RationalParts DEF Frac
  <2>8. a * d = c * b BY <1>8, <2>1, <2>3, <2>6, <2>7
  <2> QED BY <2>2, <2>8, FracSame, Zenon
<1>12. StandsFor(Modulo(x, y), Minus(p, t)) BY ONLY <1>9, <1>10, <1>11, Zenon
<1> QED BY ONLY <1>12, Zenon DEF p, t, r, q

\* Small powers, as the norm of a complex number needs.
LEMMA SquareIs ==
  ASSUME NEW x \in Simple
  PROVE  StandsFor(Powi(x, 2), Times(x.q, x.q))
<1> DEFINE v == Power(x.q, 2)
<1>1. x.q \in Rationals BY SimpleIs
<1>2. v = Times(x.q, x.q)
  <2>1. 0 \in Nat /\ 1 \in Nat /\ 0 + 1 = 1 /\ 1 + 1 = 2 OBVIOUS
  <2>2. Power(x.q, 0 + 1) = Times(Power(x.q, 0), x.q) /\ Power(x.q, 0) = Whole(1) BY <1>1, <2>1, PowerIs, Zenon
  <2>3. Power(x.q, 1 + 1) = Times(Power(x.q, 1), x.q) BY <1>1, <2>1, PowerIs, Zenon
  <2>4. Times(Whole(1), x.q) = x.q BY <1>1, RationalUnits, Zenon
  <2> QED BY ONLY <2>1, <2>2, <2>3, <2>4, Zenon DEF v
<1>3. v \in Rationals /\ v[1] \in Int BY <1>1, <1>2, RationalClosed, RationalParts
<1>4. x.rep # "rational" => v = Whole(v[1])
  <2> SUFFICES ASSUME x.rep # "rational" PROVE v = Whole(v[1]) OBVIOUS
  <2> DEFINE n == x.q[1]
  <2>1. n \in Int /\ x.q = Whole(n) BY <1>1, SimpleIs, RationalParts, RationalKinds
  <2> HIDE DEF n, v
  <2>2. v = Whole(n * n) BY ONLY <1>2, <2>1, WholeArithmetic, Zenon
  <2>3. n * n \in Int BY <2>1
  <2>4. Whole(n * n)[1] = n * n BY <2>3, WholeIs, Zenon
  <2> QED BY ONLY <2>2, <2>4, Zenon
<1> HIDE DEF v
<1>5. CASE x.rep = "rational"
  <2>1. Powi(x, 2) = Rational(v) BY <1>5 DEF Powi, v
  <2> QED BY <1>2, <1>3, <2>1, RepresentationIs DEF StandsFor
<1>6. CASE x.rep # "rational"
  <2>1. Powi(x, 2) \in {Fixed(v[1]), Big(v[1])} BY <1>6 DEF Powi, v
  <2> QED BY <1>2, <1>3, <1>4, <1>6, <2>1, RepresentationIs DEF StandsFor
<1> QED BY <1>5, <1>6

\* expt, when it is exact.
LEMMA PowIs ==
  ASSUME NEW x \in Simple, NEW y \in Simple
  PROVE  Pow(x, y) = Inexact \/ StandsFor(Pow(x, y), RefPower(x.q, y.q[1]))
<1> DEFINE p == x.q
           e == y.q[1]
<1>1. p \in Rationals /\ e \in Int /\ y.q \in Rationals BY SimpleIs, RationalParts
<1>2. (IsZero(x) <=> p = Whole(0)) /\ (IsZero(y) <=> e = 0) BY <1>1, RationalKinds DEF IsZero
<1>3. p # Whole(0) => p[1] # 0 BY <1>1, RationalKinds
<1>4. RefPower(p, e) = IF e >= 0 THEN Power(p, e) ELSE Power(Over(Whole(1), p), -e) BY DEF RefPower
<1>5. Whole(1) \in Rationals BY WholeIs
<1>6. p # Whole(0) => Over(Whole(1), p) \in Rationals BY <1>1, <1>3, <1>5, RationalClosed
<1>7. e >= 0 => e \in Nat BY <1>1
<1>8. ~(e >= 0) => -e \in Nat BY <1>1
<1> HIDE DEF p, e
<1>9. CASE IsZero(x) /\ IsZero(y)
  <2>1. Pow(x, y) = Fixed(1) BY <1>9 DEF Pow
  <2>2. RefPower(p, e) = Whole(1) BY <1>1, <1>2, <1>4, <1>9, PowerIs
  <2>3. 1 \in Int OBVIOUS
  <2> QED BY <1>5, <2>1, <2>2, <2>3, RepresentationIs, Zenon DEF StandsFor, p, e
<1>10. CASE IsZero(x) /\ ~IsZero(y) /\ IsPositive(y)
  <2>1. Pow(x, y) = Fixed(0) BY <1>10 DEF Pow
  <2>2. e > 0 BY <1>1, <1>2, <1>10 DEF IsPositive, e
  <2>3. Power(p, e) = Whole(0)
    <3>1. e - 1 \in Nat /\ (e - 1) + 1 = e BY <1>1, <2>2
    <3>2. Power(p, (e - 1) + 1) = Times(Power(p, e - 1), p) /\ Power(p, e - 1) \in Rationals
      BY <1>1, <3>1, PowerIs, Zenon
    <3>3. Times(Power(p, e - 1), Whole(0)) = Whole(0) BY <3>2, RationalUnits, Zenon
    <3> QED BY ONLY <1>2, <1>10, <3>1, <3>2, <3>3, Zenon
  <2>4. RefPower(p, e) = Whole(0) BY <1>1, <1>4, <2>2, <2>3
  <2>5. 0 \in Int OBVIOUS
  <2> QED BY <1>5, <2>1, <2>4, <2>5, RepresentationIs, Zenon DEF StandsFor, p, e
<1>11. CASE IsZero(x) /\ ~IsZero(y) /\ ~IsPositive(y) BY <1>11 DEF Pow
<1>12. CASE ~IsZero(x) /\ y.rep # "rational" /\ (x.rep = "rational" => y.rep = "fixed")
  <2>1. Pow(x, y) = IF x.rep = "rational"
                    THEN Rational(IF e >= 0 THEN Power(p, e) ELSE Power(Over(Whole(1), p), -e))
                    ELSE IF e >= 0 THEN Big(Power(p, e)[1])
                         ELSE Rational(Over(Whole(1), Power(p, -e)))
    BY <1>12, Zenon DEF Pow, p, e
  <2>2. RefPower(p, e) \in Rationals BY <1>1, <1>2, <1>4, <1>6, <1>7, <1>8, <1>12, PowerIs
  <2>3. CASE x.rep = "rational"
    <3>1. Pow(x, y) = Rational(RefPower(p, e)) BY ONLY <1>4, <2>1, <2>3, Zenon
    <3>2. 0 \in Int OBVIOUS
    <3> QED BY <2>2, <3>1, <3>2, RepresentationIs, Zenon DEF StandsFor, p, e
  <2>4. CASE x.rep # "rational"
    <3> DEFINE n == p[1]
    <3>1. n \in Int /\ p = Whole(n) /\ n # 0
      BY <1>1, <1>2, <1>3, <1>12, <2>4, SimpleIs, RationalParts, RationalKinds DEF p
    <3> HIDE DEF n
    <3>2. ASSUME e >= 0 PROVE StandsFor(Pow(x, y), RefPower(p, e))
      <4> DEFINE v == Power(p, e)
      <4>1. v \in Rationals /\ v[2] = 1 BY <1>1, <1>7, <3>1, <3>2, PowerIs, PowersOfIntegers
      <4>2. RefPower(p, e) = v /\ Pow(x, y) = Big(v[1]) BY ONLY <1>4, <2>1, <2>4, <3>2, Zenon
      <4> HIDE DEF v
      <4>3. v = Whole(v[1]) /\ v[1] \in Int BY <4>1, RationalKinds, RationalParts
      <4>4. Big(v[1]) \in Simple /\ Big(v[1]).q = Whole(v[1]) BY <1>5, <4>3, RepresentationIs, Zenon
      <4> QED BY ONLY <4>2, <4>3, <4>4, Zenon DEF StandsFor
    <3>3. ASSUME ~(e >= 0) PROVE StandsFor(Pow(x, y), RefPower(p, e))
      <4>1. Power(Over(Whole(1), p), -e) = Over(Whole(1), Power(p, -e))
        BY <1>8, <3>1, <3>3, PowersOfIntegers, Zenon
      <4>2. RefPower(p, e) = Over(Whole(1), Power(p, -e)) BY ONLY <1>4, <3>3, <4>1, Zenon
      <4>3. Pow(x, y) = Rational(RefPower(p, e)) BY ONLY <2>1, <2>4, <3>3, <4>2, Zenon
      <4>4. 0 \in Int OBVIOUS
      <4> QED BY <2>2, <4>3, <4>4, RepresentationIs, Zenon DEF StandsFor
    <3> QED BY <3>2, <3>3, Zenon DEF p, e
  <2> QED BY <2>3, <2>4
<1>13. CASE ~IsZero(x) /\ ~(y.rep # "rational" /\ (x.rep = "rational" => y.rep = "fixed"))
  BY <1>13 DEF Pow
<1> QED BY <1>9, <1>10, <1>11, <1>12, <1>13

\* Rounding gives an integer, and an integer itself.
LEMMA RoundIs ==
  ASSUME NEW q \in Rationals
  PROVE  /\ FloorOf(q) \in Int /\ CeilingOf(q) \in Int /\ TruncateOf(q) \in Int /\ NearestOf(q) \in Int
         /\ q[2] = 1 => /\ FloorOf(q) = q[1] /\ CeilingOf(q) = q[1] /\ TruncateOf(q) = q[1]
                        /\ NearestOf(q) = q[1]
<1> DEFINE n == q[1]
           d == q[2]
           m == -n
<1>1. n \in Int /\ d \in Int /\ d > 0 /\ m \in Int BY RationalParts
<1> HIDE DEF n, d
<1>2. n \div d \in Int /\ n % d \in Int BY <1>1, Division
<1>3. m \div d \in Int BY <1>1, Division
<1>4. FloorOf(q) = n \div d /\ CeilingOf(q) = -(m \div d) BY DEF FloorOf, CeilingOf, n, d
<1>5. FloorOf(q) \in Int /\ CeilingOf(q) \in Int BY <1>2, <1>3, <1>4
<1>6. TruncateOf(q) \in {FloorOf(q), CeilingOf(q)} BY DEF TruncateOf
<1>7. NearestOf(q) \in {FloorOf(q), FloorOf(q) + 1} BY DEF NearestOf
<1>8. ASSUME d = 1
      PROVE  FloorOf(q) = n /\ CeilingOf(q) = n /\ NearestOf(q) = n
  <2>1. n = 1 * n /\ m = 1 * m BY <1>1
  <2>2. n % 1 = 0 /\ n \div 1 = n /\ m \div 1 = m BY <1>1, <2>1, MultiplesOf
  <2>3. FloorOf(q) = n /\ CeilingOf(q) = n BY <1>1, <1>4, <1>8, <2>2
  <2>4. q[1] % q[2] = 0 /\ q[2] = 1 BY <1>8, <2>2 DEF n, d
  <2>5. NearestOf(q) = FloorOf(q)
    <3>1. 2 * (q[1] % q[2]) < q[2] BY <2>4
    <3> QED BY <3>1, Zenon DEF NearestOf
  <2> QED BY <2>3, <2>5
<1> QED BY <1>5, <1>6, <1>7, <1>8 DEF n, d

\* An integer keeps its representation when it is rounded.
LEMMA ToIntegerIs ==
  ASSUME NEW x \in Simple, NEW n \in Int, x.q[2] = 1 => n = x.q[1]
  PROVE  StandsFor(ToInteger(x, n), Whole(n))
<1>1. x.q \in Rationals BY SimpleIs
<1>2. CASE x.rep = "rational"
  <2>1. ToInteger(x, n) = Big(n) BY <1>2 DEF ToInteger
  <2> QED BY <1>1, <2>1, RepresentationIs DEF StandsFor
<1>3. CASE x.rep # "rational"
  <2>1. ToInteger(x, n) = x BY <1>3 DEF ToInteger
  <2>2. x.q = Whole(n) BY <1>1, <1>3, SimpleIs, RationalKinds
  <2> QED BY <2>1, <2>2 DEF StandsFor
<1> QED BY <1>2, <1>3

\* Every natural number has a root.
LEMMA RootIs ==
  ASSUME NEW n \in Nat
  PROVE  RootOf(n) \in Nat /\ RootOf(n) * RootOf(n) <= n /\ n < (RootOf(n) + 1) * (RootOf(n) + 1)
<1> DEFINE S == {s \in Nat : n < s * s}
<1>1. n + 1 \in S
  <2>1. (n + 1) * (n + 1) = n * n + 2 * n + 1 /\ n * n \in Int OBVIOUS
  <2>2. 0 * n <= n * n
    <3>1. CASE n = 0 BY <3>1
    <3>2. CASE n > 0 BY <3>2, ProductOrder
    <3> QED BY <3>1, <3>2
  <2>3. n < (n + 1) * (n + 1) BY <2>1, <2>2
  <2> QED BY <2>3
<1>2. PICK s \in S : \A k \in S : s <= k
  <2>1. S \subseteq Nat /\ S # {} BY <1>1
  <2> QED BY <2>1, Least
<1>3. s \in Nat /\ n < s * s OBVIOUS
<1>4. s # 0 BY <1>3
<1> DEFINE r == s - 1
<1>5. r \in Nat /\ r + 1 = s /\ r < s BY <1>3, <1>4
<1>6. r \notin S BY <1>2, <1>3, <1>5
<1>7. r * r <= n
  <2>1. r * r \in Int BY <1>5
  <2> QED BY <1>5, <1>6, <2>1
<1> HIDE DEF r
<1>8. r <= n
  <2>1. CASE r = 0 BY <2>1
  <2>2. CASE r > 0
    <3>1. 1 * r <= r * r BY <1>5, <2>2, ProductOrder
    <3>2. r * r \in Int BY <1>5
    <3> QED BY <1>5, <1>7, <3>1, <3>2
  <2> QED BY <1>5, <2>1, <2>2
<1>9. r \in 0..n /\ r * r <= n /\ n < (r + 1) * (r + 1)
  <2>1. n < (r + 1) * (r + 1) BY ONLY <1>3, <1>5, Zenon
  <2> QED BY <1>5, <1>7, <1>8, <2>1
<1>10. /\ RootOf(n) \in 0..n /\ RootOf(n) * RootOf(n) <= n
       /\ n < (RootOf(n) + 1) * (RootOf(n) + 1)
  BY ONLY <1>9, Zenon DEF RootOf
<1>11. 0..n \subseteq Nat OBVIOUS
<1> QED BY ONLY <1>10, <1>11, Zenon

-----------------------------------------------------------------------------
(* Complex numbers.                                                         *)

\* The pair of rationals that x stands for.
Denotes(x, v) == x \in Exact /\ Exactly(x) = v

\* A simple number stands for a pair with no imaginary part.
LEMMA SimpleDenotes ==
  ASSUME NEW x, NEW q, StandsFor(x, q)
  PROVE  Denotes(x, <<q, Whole(0)>>) /\ q \in Rationals
<1>1. x \in Simple /\ x.q = q BY DEF StandsFor
<1>2. IsSimple(x) /\ x.q \in Rationals BY <1>1, SimpleIs
<1>3. Exactly(x) = <<x.q, Whole(0)>> BY <1>2 DEF Exactly, IsSimple
<1>4. x \in Exact BY <1>1 DEF Exact
<1> QED BY ONLY <1>1, <1>2, <1>3, <1>4, Zenon DEF Denotes

\* A complex number stands for the pair of its parts.
LEMMA ComplexDenotes ==
  ASSUME NEW x \in Simple, NEW y \in Simple
  PROVE  /\ Denotes(Complex(x, y), <<x.q, y.q>>)
         /\ Complex(x, y).re = x /\ Complex(x, y).im = y /\ Complex(x, y).rep = "complex" /\ ~IsSimple(Complex(x, y))
<1>1. Complex(x, y).re = x /\ Complex(x, y).im = y /\ Complex(x, y).rep = "complex" BY DEF Complex
<1>2. ~IsSimple(Complex(x, y)) BY <1>1 DEF IsSimple
<1>3. Exactly(Complex(x, y)) = <<x.q, y.q>> BY <1>1, <1>2, Zenon DEF Exactly
<1>4. Complex(x, y) \in Exact BY DEF Complex, Exact
<1> QED BY <1>1, <1>2, <1>3, <1>4 DEF Denotes

\* A number is simple or complex.
LEMMA ExactIs ==
  ASSUME NEW x \in Exact
  PROVE  \/ x \in Simple /\ IsSimple(x) /\ Exactly(x) = <<x.q, Whole(0)>>
         \/ /\ ~IsSimple(x) /\ x.rep = "complex" /\ x.re \in Simple /\ x.im \in Simple
            /\ Exactly(x) = <<x.re.q, x.im.q>>
<1>1. CASE x \in Simple
  <2>1. StandsFor(x, x.q) BY <1>1 DEF StandsFor
  <2>2. Denotes(x, <<x.q, Whole(0)>>) BY <2>1, SimpleDenotes
  <2> QED BY <1>1, <2>2, SimpleIs DEF Denotes
<1>2. CASE x \notin Simple
  <2>1. x.rep = "complex" /\ x.re \in Simple /\ x.im \in Simple BY <1>2 DEF Exact
  <2>2. ~IsSimple(x) BY <2>1 DEF IsSimple
  <2>3. Exactly(x) = <<x.re.q, x.im.q>> BY <2>1, <2>2, Zenon DEF Exactly
  <2> QED BY <2>1, <2>2, <2>3
<1> QED BY <1>1, <1>2

\* The two parts of a number.
LEMMA ExactParts ==
  ASSUME NEW x \in Exact
  PROVE  /\ AsComplex(x).re \in Simple /\ AsComplex(x).im \in Simple
         /\ Exactly(x) = <<AsComplex(x).re.q, AsComplex(x).im.q>>
         /\ IsSimple(x) => x \in Simple /\ AsComplex(x).re = x /\ AsComplex(x).im.q = Whole(0)
         /\ Exactly(x)[1] \in Rationals /\ Exactly(x)[2] \in Rationals
<1>1. AsComplex(x).re \in Simple /\ AsComplex(x).im \in Simple /\ Exactly(x) = <<AsComplex(x).re.q, AsComplex(x).im.q>>
      /\ (IsSimple(x) => x \in Simple /\ AsComplex(x).re = x /\ AsComplex(x).im.q = Whole(0))
  <2>1. CASE IsSimple(x)
    <3>1. x \in Simple /\ Exactly(x) = <<x.q, Whole(0)>> BY <2>1, ExactIs
    <3>2. 0 \in Int /\ Whole(0) \in Rationals BY WholeIs
    <3>3. Fixed(0) \in Simple /\ Fixed(0).q = Whole(0) BY <3>2, RepresentationIs, Zenon
    <3>4. AsComplex(x) = Complex(x, Fixed(0)) BY <2>1 DEF AsComplex
    <3>5. AsComplex(x).re = x /\ AsComplex(x).im = Fixed(0) BY <3>1, <3>3, <3>4, ComplexDenotes
    <3> QED BY ONLY <3>1, <3>3, <3>5, Zenon
  <2>2. CASE ~IsSimple(x)
    <3>1. AsComplex(x) = x BY <2>2 DEF AsComplex
    <3>2. x.re \in Simple /\ x.im \in Simple /\ Exactly(x) = <<x.re.q, x.im.q>> BY <2>2, ExactIs
    <3> QED BY ONLY <2>2, <3>1, <3>2, Zenon
  <2> QED BY <2>1, <2>2
<1>2. AsComplex(x).re.q \in Rationals /\ AsComplex(x).im.q \in Rationals BY <1>1, SimpleIs
<1> QED BY <1>1, <1>2

\* Addition and subtraction go part by part.
LEMMA NumberAddIs ==
  ASSUME NEW x \in Exact, NEW y \in Exact
  PROVE  Denotes(NumberAdd(x, y), <<Plus(Exactly(x)[1], Exactly(y)[1]), Plus(Exactly(x)[2], Exactly(y)[2])>>)
<1> DEFINE a == AsComplex(x)
           b == AsComplex(y)
<1>1. /\ a.re \in Simple /\ a.im \in Simple /\ Exactly(x) = <<a.re.q, a.im.q>>
      /\ b.re \in Simple /\ b.im \in Simple /\ Exactly(y) = <<b.re.q, b.im.q>>
  BY ExactParts
<1>2. Exactly(x)[1] = a.re.q /\ Exactly(x)[2] = a.im.q /\ Exactly(y)[1] = b.re.q /\ Exactly(y)[2] = b.im.q
  BY <1>1
<1>3. CASE IsSimple(x) /\ IsSimple(y)
  <2>1. /\ x \in Simple /\ y \in Simple /\ a.re = x /\ b.re = y /\ a.im.q = Whole(0) /\ b.im.q = Whole(0)
    BY <1>3, ExactParts
  <2>2. NumberAdd(x, y) = SimpleAdd(x, y) BY <1>3 DEF NumberAdd
  <2>3. Denotes(SimpleAdd(x, y), <<Plus(x.q, y.q), Whole(0)>>) BY <2>1, SimpleOperations, SimpleDenotes, Zenon
  <2>4. Plus(Whole(0), Whole(0)) = Whole(0)
    <3>1. Whole(0) \in Rationals BY WholeIs
    <3> QED BY <3>1, RationalUnits, Zenon
  <2> HIDE DEF a, b
  <2> QED BY ONLY <1>2, <2>1, <2>2, <2>3, <2>4, Zenon
<1>4. CASE ~(IsSimple(x) /\ IsSimple(y))
  <2>1. NumberAdd(x, y) = Complex(SimpleAdd(a.re, b.re), SimpleAdd(a.im, b.im)) BY <1>4 DEF NumberAdd, ComplexAdd
  <2> HIDE DEF a, b
  <2>2. StandsFor(SimpleAdd(a.re, b.re), Plus(a.re.q, b.re.q)) /\ StandsFor(SimpleAdd(a.im, b.im), Plus(a.im.q, b.im.q))
    BY <1>1, SimpleOperations, Zenon
  <2>3. Denotes(Complex(SimpleAdd(a.re, b.re), SimpleAdd(a.im, b.im)), <<Plus(a.re.q, b.re.q), Plus(a.im.q, b.im.q)>>)
    BY ONLY <2>2, ComplexDenotes, Zenon DEF StandsFor
  <2> QED BY ONLY <1>2, <2>1, <2>3, Zenon
<1> QED BY <1>3, <1>4

\* A difference likewise.
LEMMA NumberSubIs ==
  ASSUME NEW x \in Exact, NEW y \in Exact
  PROVE  Denotes(NumberSub(x, y), <<Minus(Exactly(x)[1], Exactly(y)[1]), Minus(Exactly(x)[2], Exactly(y)[2])>>)
<1> DEFINE a == AsComplex(x)
           b == AsComplex(y)
<1>1. /\ a.re \in Simple /\ a.im \in Simple /\ Exactly(x) = <<a.re.q, a.im.q>>
      /\ b.re \in Simple /\ b.im \in Simple /\ Exactly(y) = <<b.re.q, b.im.q>>
  BY ExactParts
<1>2. Exactly(x)[1] = a.re.q /\ Exactly(x)[2] = a.im.q /\ Exactly(y)[1] = b.re.q /\ Exactly(y)[2] = b.im.q
  BY <1>1
<1>3. CASE IsSimple(x) /\ IsSimple(y)
  <2>1. /\ x \in Simple /\ y \in Simple /\ a.re = x /\ b.re = y /\ a.im.q = Whole(0) /\ b.im.q = Whole(0)
    BY <1>3, ExactParts
  <2>2. NumberSub(x, y) = SimpleSub(x, y) BY <1>3 DEF NumberSub
  <2>3. Denotes(SimpleSub(x, y), <<Minus(x.q, y.q), Whole(0)>>) BY <2>1, SimpleOperations, SimpleDenotes, Zenon
  <2>4. Minus(Whole(0), Whole(0)) = Whole(0)
    <3>1. Whole(0) \in Rationals BY WholeIs
    <3> QED BY <3>1, RationalUnits, Zenon
  <2> HIDE DEF a, b
  <2> QED BY ONLY <1>2, <2>1, <2>2, <2>3, <2>4, Zenon
<1>4. CASE ~(IsSimple(x) /\ IsSimple(y))
  <2>1. NumberSub(x, y) = Complex(SimpleSub(a.re, b.re), SimpleSub(a.im, b.im)) BY <1>4 DEF NumberSub, ComplexSub
  <2> HIDE DEF a, b
  <2>2. StandsFor(SimpleSub(a.re, b.re), Minus(a.re.q, b.re.q)) /\ StandsFor(SimpleSub(a.im, b.im), Minus(a.im.q, b.im.q))
    BY <1>1, SimpleOperations, Zenon
  <2>3. Denotes(Complex(SimpleSub(a.re, b.re), SimpleSub(a.im, b.im)), <<Minus(a.re.q, b.re.q), Minus(a.im.q, b.im.q)>>)
    BY ONLY <2>2, ComplexDenotes, Zenon DEF StandsFor
  <2> QED BY ONLY <1>2, <2>1, <2>3, Zenon
<1> QED BY <1>3, <1>4

\* The product of two pairs.
LEMMA RefMulIs ==
  ASSUME NEW a, NEW b, NEW c, NEW d
  PROVE  RefMul(<<a, b>>, <<c, d>>) = <<Minus(Times(a, c), Times(b, d)), Plus(Times(a, d), Times(b, c))>>
  BY DEF RefMul

\* Multiplication is the one of complex numbers, also for operands that are real.
LEMMA NumberMulIs ==
  ASSUME NEW x \in Exact, NEW y \in Exact
  PROVE  Denotes(NumberMul(x, y), RefMul(Exactly(x), Exactly(y)))
<1> DEFINE a == AsComplex(x)
           b == AsComplex(y)
<1>1. /\ a.re \in Simple /\ a.im \in Simple /\ Exactly(x) = <<a.re.q, a.im.q>>
      /\ b.re \in Simple /\ b.im \in Simple /\ Exactly(y) = <<b.re.q, b.im.q>>
  BY ExactParts
<1>2. RefMul(Exactly(x), Exactly(y)) = <<Minus(Times(a.re.q, b.re.q), Times(a.im.q, b.im.q)),
                                         Plus(Times(a.re.q, b.im.q), Times(a.im.q, b.re.q))>>
  <2> HIDE DEF a, b
  <2>1. RefMul(<<a.re.q, a.im.q>>, <<b.re.q, b.im.q>>) =
           <<Minus(Times(a.re.q, b.re.q), Times(a.im.q, b.im.q)), Plus(Times(a.re.q, b.im.q), Times(a.im.q, b.re.q))>>
    BY RefMulIs
  <2> QED BY ONLY <1>1, <2>1, Zenon
<1>3. CASE IsSimple(x) /\ IsSimple(y)
  <2>1. /\ x \in Simple /\ y \in Simple /\ a.re = x /\ b.re = y /\ a.im.q = Whole(0) /\ b.im.q = Whole(0)
    BY <1>3, ExactParts
  <2>2. NumberMul(x, y) = SimpleMul(x, y) BY <1>3 DEF NumberMul
  <2>3. Denotes(SimpleMul(x, y), <<Times(x.q, y.q), Whole(0)>>) BY <2>1, SimpleOperations, SimpleDenotes, Zenon
  <2> HIDE DEF a, b
  <2>4. /\ x.q \in Rationals /\ y.q \in Rationals /\ Whole(0) \in Rationals /\ Times(x.q, y.q) \in Rationals
    <3>1. x.q \in Rationals /\ y.q \in Rationals BY <2>1, SimpleIs
    <3>2. Whole(0) \in Rationals BY WholeIs
    <3> QED BY <3>1, <3>2, RationalClosed
  <2>5. /\ Times(Whole(0), Whole(0)) = Whole(0) /\ Times(x.q, Whole(0)) = Whole(0) /\ Times(Whole(0), y.q) = Whole(0)
        /\ Minus(Times(x.q, y.q), Whole(0)) = Times(x.q, y.q) /\ Plus(Whole(0), Whole(0)) = Whole(0)
    BY <2>4, RationalUnits, Zenon
  <2>6. RefMul(Exactly(x), Exactly(y)) = <<Times(x.q, y.q), Whole(0)>> BY ONLY <1>2, <2>1, <2>5, Zenon
  <2> QED BY ONLY <2>2, <2>3, <2>6, Zenon
<1>4. CASE ~(IsSimple(x) /\ IsSimple(y))
  <2> DEFINE m == SimpleMul(a.re, b.re)
             n == SimpleMul(a.im, b.im)
             o == SimpleMul(a.re, b.im)
             p == SimpleMul(a.im, b.re)
  <2>1. NumberMul(x, y) = Complex(SimpleSub(m, n), SimpleAdd(o, p)) BY <1>4 DEF NumberMul, ComplexMul
  <2> HIDE DEF a, b
  <2>2. /\ StandsFor(m, Times(a.re.q, b.re.q)) /\ StandsFor(n, Times(a.im.q, b.im.q))
        /\ StandsFor(o, Times(a.re.q, b.im.q)) /\ StandsFor(p, Times(a.im.q, b.re.q))
    BY <1>1, SimpleOperations, Zenon
  <2> HIDE DEF m, n, o, p
  <2>3. /\ StandsFor(SimpleSub(m, n), Minus(Times(a.re.q, b.re.q), Times(a.im.q, b.im.q)))
        /\ StandsFor(SimpleAdd(o, p), Plus(Times(a.re.q, b.im.q), Times(a.im.q, b.re.q)))
    <3>1. m \in Simple /\ n \in Simple /\ o \in Simple /\ p \in Simple BY ONLY <2>2, Zenon DEF StandsFor
    <3>2. StandsFor(SimpleSub(m, n), Minus(m.q, n.q)) /\ StandsFor(SimpleAdd(o, p), Plus(o.q, p.q))
      BY ONLY <3>1, SimpleOperations, Zenon
    <3>3. /\ m.q = Times(a.re.q, b.re.q) /\ n.q = Times(a.im.q, b.im.q)
          /\ o.q = Times(a.re.q, b.im.q) /\ p.q = Times(a.im.q, b.re.q)
      BY ONLY <2>2, Zenon DEF StandsFor
    <3> QED BY ONLY <3>2, <3>3, Zenon
  <2>4. Denotes(Complex(SimpleSub(m, n), SimpleAdd(o, p)),
                <<Minus(Times(a.re.q, b.re.q), Times(a.im.q, b.im.q)), Plus(Times(a.re.q, b.im.q), Times(a.im.q, b.re.q))>>)
    BY ONLY <2>3, ComplexDenotes, Zenon DEF StandsFor
  <2> QED BY ONLY <1>2, <2>1, <2>4, Zenon
<1> QED BY <1>3, <1>4

\* A fraction is zero when its numerator is.
LEMMA FracZero ==
  ASSUME NEW p, NEW a, NEW b, Frac(p, a, b), b > 0
  PROVE  p[1] = 0 <=> a = 0
<1>1. p[1] \in Int /\ p[2] \in Int /\ p[2] > 0 /\ a \in Int /\ b \in Int /\ p[1] * b = a * p[2]
  BY RationalParts DEF Frac
<1>2. p[1] = 0 <=> p[1] * b = 0 * b BY <1>1, ProductOrder
<1>3. a = 0 <=> a * p[2] = 0 * p[2] BY <1>1, ProductOrder
<1> QED BY <1>1, <1>2, <1>3

\* A square is not negative, and zero only of zero.
LEMMA NormIs ==
  ASSUME NEW c \in Rationals, NEW d \in Rationals
  PROVE  /\ Plus(Times(c, c), Times(d, d)) \in Rationals
         /\ c # Whole(0) \/ d # Whole(0) => Plus(Times(c, c), Times(d, d)) # Whole(0)
<1> DEFINE m == c[1]
           e == c[2]
           n == d[1]
           f == d[2]
           norm == Plus(Times(c, c), Times(d, d))
<1>1. m \in Int /\ e \in Int /\ e > 0 /\ n \in Int /\ f \in Int /\ f > 0 BY RationalParts
<1>2. Frac(c, m, e) /\ Frac(d, n, f) BY FracSelf
<1>3. (c # Whole(0) => m # 0) /\ (d # Whole(0) => n # 0) BY RationalKinds
<1> HIDE DEF m, e, n, f
<1> DEFINE A == m * m
           E == e * e
           B == n * n
           H == f * f
<1>4. ASSUME NEW k \in Int PROVE k * k \in Int /\ k * k >= 0 /\ (k # 0 => k * k > 0)
  <2>1. CASE k > 0
    <3>1. 0 * k < k * k BY <2>1, ProductOrder
    <3> QED BY <2>1, <3>1
  <2>2. CASE k < 0
    <3>1. k * (-k) < 0 * (-k) BY <2>2, ProductOrder
    <3>2. k * (-k) = -(k * k) /\ k * k \in Int OBVIOUS
    <3> QED BY <2>2, <3>1, <3>2
  <2>3. CASE k = 0 BY <2>3
  <2> QED BY <2>1, <2>2, <2>3
<1>5. /\ A \in Int /\ A >= 0 /\ (m # 0 => A > 0) /\ B \in Int /\ B >= 0 /\ (n # 0 => B > 0)
      /\ E \in Int /\ E > 0 /\ H \in Int /\ H > 0
  BY <1>1, <1>4
<1>6. Frac(Times(c, c), A, E) /\ Frac(Times(d, d), B, H) BY <1>2, FracArithmetic, Zenon
<1> HIDE DEF A, E, B, H
<1>7. Frac(norm, A * H + B * E, E * H) BY <1>6, FracArithmetic, Zenon
<1>8. /\ 0 * H <= A * H /\ (A > 0 => 0 * H < A * H) /\ 0 * E <= B * E /\ (B > 0 => 0 * E < B * E) /\ 0 * H < E * H
  BY <1>5, ProductOrder
<1>9. A * H \in Int /\ B * E \in Int /\ E * H \in Int BY <1>5
<1>10. E * H > 0 /\ (m # 0 \/ n # 0 => A * H + B * E # 0) BY <1>5, <1>8, <1>9
<1>11. norm[1] = 0 <=> A * H + B * E = 0
  <2> DEFINE g == A * H + B * E
             h == E * H
  <2>1. Frac(norm, g, h) BY <1>7
  <2>3. h > 0 BY <1>10
  <2> HIDE DEF norm, g, h
  <2>2. norm[1] = 0 <=> g = 0 BY <2>1, <2>3, FracZero
  <2> QED BY <2>2 DEF g
<1>12. norm \in Rationals BY <1>7 DEF Frac
<1>13. Whole(0)[1] = 0 BY WholeIs
<1> QED BY <1>3, <1>10, <1>11, <1>12, <1>13

\* The quotient of two pairs.
LEMMA RefDivIs ==
  ASSUME NEW a \in Rationals, NEW b \in Rationals, NEW c \in Rationals, NEW d \in Rationals
  PROVE  RefDiv(<<a, b>>, <<c, d>>) =
            <<Over(Plus(Times(a, c), Times(b, d)), Plus(Times(c, c), Times(d, d))),
              Over(Minus(Times(b, c), Times(a, d)), Plus(Times(c, c), Times(d, d)))>>
<1> DEFINE e == Minus(Whole(0), d)
           norm == Plus(Times(c, c), Times(d, d))
           m == RefMul(<<a, b>>, <<c, e>>)
<1>1. m = <<Minus(Times(a, c), Times(b, e)), Plus(Times(a, e), Times(b, c))>> BY RefMulIs
<1>2. Times(a, c) \in Rationals /\ Times(b, c) \in Rationals BY RationalClosed
<1>3. /\ Minus(Times(a, c), Times(b, e)) = Plus(Times(a, c), Times(b, d))
      /\ Plus(Times(a, e), Times(b, c)) = Minus(Times(b, c), Times(a, d))
  <2>1. Minus(Times(a, c), Times(b, e)) = Plus(Times(a, c), Times(b, d)) BY <1>2, RationalSigns
  <2>2. Plus(Times(a, e), Times(b, c)) = Minus(Times(b, c), Times(a, d)) BY <1>2, RationalSigns
  <2> QED BY <2>1, <2>2
<1>4. m = <<Plus(Times(a, c), Times(b, d)), Minus(Times(b, c), Times(a, d))>> BY ONLY <1>1, <1>3, Zenon
<1>5. m[1] = Plus(Times(a, c), Times(b, d)) /\ m[2] = Minus(Times(b, c), Times(a, d))
  <2> HIDE DEF m
  <2> QED BY ONLY <1>4
<1>6. RefDiv(<<a, b>>, <<c, d>>) = [i \in 1..2 |-> Over(m[i], norm)] BY DEF RefDiv
<1> HIDE DEF m, norm
<1>7. [i \in 1..2 |-> Over(m[i], norm)] = <<Over(m[1], norm), Over(m[2], norm)>> OBVIOUS
<1>8. RefDiv(<<a, b>>, <<c, d>>) = <<Over(m[1], norm), Over(m[2], norm)>> BY ONLY <1>6, <1>7, Zenon
<1> QED BY ONLY <1>5, <1>8, Zenon DEF norm

\* Division is the one of complex numbers, also for operands that are real.
LEMMA NumberDivIs ==
  ASSUME NEW x \in Exact, NEW y \in Exact, ~NumberIsZero(y)
  PROVE  Denotes(NumberDiv(x, y), RefDiv(Exactly(x), Exactly(y)))
<1> DEFINE a == AsComplex(x)
           b == AsComplex(y)
<1>1. /\ a.re \in Simple /\ a.im \in Simple /\ Exactly(x) = <<a.re.q, a.im.q>>
      /\ b.re \in Simple /\ b.im \in Simple /\ Exactly(y) = <<b.re.q, b.im.q>>
  BY ExactParts
<1>2. a.re.q \in Rationals /\ a.im.q \in Rationals /\ b.re.q \in Rationals /\ b.im.q \in Rationals
  BY <1>1, SimpleIs
<1>3. b.re.q # Whole(0) \/ b.im.q # Whole(0)
  <2>1. CASE IsSimple(y)
    <3>1. b.re = y BY <2>1, ExactParts
    <3>2. y.q # Whole(0) BY <2>1 DEF NumberIsZero, IsZero
    <3> QED BY <3>1, <3>2
  <2>2. CASE ~IsSimple(y)
    <3>1. b = y BY <2>2 DEF AsComplex
    <3>2. y.re.q # Whole(0) \/ y.im.q # Whole(0) BY <2>2 DEF NumberIsZero, IsZero
    <3> QED BY <3>1, <3>2
  <2> QED BY <2>1, <2>2
<1>4. IsSimple(x) => x \in Simple /\ a.re = x /\ a.im.q = Whole(0) BY ExactParts
<1>5. IsSimple(y) => y \in Simple /\ b.re = y /\ b.im.q = Whole(0) BY ExactParts
<1>6. ~(IsSimple(x) /\ IsSimple(y)) => NumberDiv(x, y) = ComplexDiv(a, b) BY DEF NumberDiv
<1> HIDE DEF a, b
<1> DEFINE p == a.re.q
           q == a.im.q
           r == b.re.q
           s == b.im.q
           norm == Plus(Times(r, r), Times(s, s))
<1>7. norm \in Rationals /\ norm # Whole(0) BY <1>2, <1>3, NormIs
<1>8. RefDiv(Exactly(x), Exactly(y)) = <<Over(Plus(Times(p, r), Times(q, s)), norm), Over(Minus(Times(q, r), Times(p, s)), norm)>>
  <2>1. RefDiv(<<p, q>>, <<r, s>>) = <<Over(Plus(Times(p, r), Times(q, s)), norm), Over(Minus(Times(q, r), Times(p, s)), norm)>>
    BY <1>2, RefDivIs
  <2> QED BY ONLY <1>1, <2>1, Zenon
<1>9. CASE IsSimple(x) /\ IsSimple(y)
  <2>1. x \in Simple /\ y \in Simple /\ x.q = p /\ y.q = r /\ q = Whole(0) /\ s = Whole(0)
    BY <1>4, <1>5, <1>9
  <2>2. NumberDiv(x, y) = SimpleDiv(x, y) BY <1>9 DEF NumberDiv
  <2>3. r # Whole(0) BY <1>3, <2>1
  <2>4. StandsFor(SimpleDiv(x, y), Over(x.q, y.q))
    <3>1. y.q # Whole(0) BY ONLY <2>1, <2>3, Zenon
    <3> QED BY <2>1, <3>1, SimpleDivIs, Zenon
  <2>5. Denotes(NumberDiv(x, y), <<Over(p, r), Whole(0)>>) BY ONLY <2>1, <2>2, <2>4, SimpleDenotes, Zenon
  <2>6. /\ Times(q, s) = Whole(0) /\ Plus(Times(p, r), Whole(0)) = Times(p, r) /\ Times(s, s) = Whole(0)
        /\ Plus(Times(r, r), Whole(0)) = Times(r, r) /\ Times(q, r) = Whole(0) /\ Times(p, s) = Whole(0)
        /\ Minus(Whole(0), Whole(0)) = Whole(0)
    <3>1. Whole(0) \in Rationals /\ Times(p, r) \in Rationals /\ Times(r, r) \in Rationals
      <4>1. Whole(0) \in Rationals BY WholeIs
      <4> QED BY <1>2, <4>1, RationalClosed
    <3>2. p \in Rationals /\ r \in Rationals BY <1>2
    <3> HIDE DEF p, q, r, s
    <3>3. /\ Times(Whole(0), Whole(0)) = Whole(0) /\ Plus(Times(p, r), Whole(0)) = Times(p, r)
          /\ Plus(Times(r, r), Whole(0)) = Times(r, r) /\ Times(Whole(0), r) = Whole(0) /\ Times(p, Whole(0)) = Whole(0)
          /\ Minus(Whole(0), Whole(0)) = Whole(0)
      BY ONLY <3>1, <3>2, RationalUnits, Zenon
    <3> QED BY ONLY <2>1, <3>3, Zenon
  <2>7. Over(Whole(0), norm) = Whole(0)
    <3>1. norm[1] # 0 /\ Frac(norm, norm[1], norm[2]) /\ norm[1] \in Int /\ norm[2] \in Int
      BY <1>7, RationalKinds, FracSelf, RationalParts
    <3>2. Frac(Whole(0), 0, 1) BY WholeIs
    <3> DEFINE n == norm[1]
               d == norm[2]
    <3> HIDE DEF norm
    <3>3. Frac(norm, n, d) /\ n # 0 BY <3>1
    <3>4. Frac(Over(Whole(0), norm), 0 * d, 1 * n) BY <3>2, <3>3, FracArithmetic, Zenon
    <3>5. (0 * d) * 1 = 0 * (1 * n) BY <3>1
    <3> QED BY <3>2, <3>4, <3>5, FracSame, Zenon
  <2>8. Over(Times(p, r), Times(r, r)) = Over(p, r)
    <3>1. p \in Rationals /\ r \in Rationals /\ r[1] # 0 BY <1>2, <2>3, RationalKinds
    <3> HIDE DEF p, r
    <3> QED BY ONLY <3>1, RationalScale, Zenon
  <2>9. RefDiv(Exactly(x), Exactly(y)) = <<Over(p, r), Whole(0)>>
    <3>1. norm = Times(r, r) BY ONLY <2>6, Zenon DEF norm
    <3> HIDE DEF p, q, r, s, norm
    <3> QED BY ONLY <1>8, <2>6, <2>7, <2>8, <3>1, Zenon
  <2> QED BY ONLY <2>5, <2>9, Zenon
<1>10. CASE ~(IsSimple(x) /\ IsSimple(y))
  <2> DEFINE m == SimpleMul(a.re, b.re)
             n == SimpleMul(a.im, b.im)
             i == SimpleMul(a.im, b.re)
             j == SimpleMul(a.re, b.im)
             f == Powi(b.re, 2)
             g == Powi(b.im, 2)
  <2>1. /\ StandsFor(m, Times(p, r)) /\ StandsFor(n, Times(q, s)) /\ StandsFor(i, Times(q, r))
        /\ StandsFor(j, Times(p, s)) /\ StandsFor(f, Times(r, r)) /\ StandsFor(g, Times(s, s))
    BY <1>1, SimpleOperations, SquareIs, Zenon
  <2> DEFINE re == SimpleAdd(m, n)
             im == SimpleSub(i, j)
             w == SimpleAdd(f, g)
  <2>2. ComplexDiv(a, b) = Complex(SimpleDiv(re, w), SimpleDiv(im, w)) BY DEF ComplexDiv
  <2> HIDE DEF m, n, i, j, f, g, p, q, r, s
  <2>3. /\ StandsFor(re, Plus(Times(p, r), Times(q, s))) /\ StandsFor(im, Minus(Times(q, r), Times(p, s)))
        /\ StandsFor(w, norm)
    <3>1. m \in Simple /\ n \in Simple /\ i \in Simple /\ j \in Simple /\ f \in Simple /\ g \in Simple
      BY ONLY <2>1, Zenon DEF StandsFor
    <3>2. StandsFor(re, Plus(m.q, n.q)) /\ StandsFor(im, Minus(i.q, j.q)) /\ StandsFor(w, Plus(f.q, g.q))
      BY ONLY <3>1, SimpleOperations, Zenon
    <3>3. /\ m.q = Times(p, r) /\ n.q = Times(q, s) /\ i.q = Times(q, r) /\ j.q = Times(p, s)
          /\ f.q = Times(r, r) /\ g.q = Times(s, s)
      BY ONLY <2>1, Zenon DEF StandsFor
    <3> QED BY ONLY <3>2, <3>3, Zenon DEF norm
  <2> HIDE DEF re, im, w, norm
  <2>4. re \in Simple /\ im \in Simple /\ w \in Simple /\ w.q # Whole(0) BY ONLY <1>7, <2>3, Zenon DEF StandsFor
  <2>5. StandsFor(SimpleDiv(re, w), Over(re.q, w.q)) /\ StandsFor(SimpleDiv(im, w), Over(im.q, w.q))
    BY ONLY <2>4, SimpleDivIs, Zenon
  <2>6. /\ re.q = Plus(Times(p, r), Times(q, s)) /\ im.q = Minus(Times(q, r), Times(p, s)) /\ w.q = norm
    BY ONLY <2>3, Zenon DEF StandsFor
  <2>7. Denotes(Complex(SimpleDiv(re, w), SimpleDiv(im, w)), <<Over(re.q, w.q), Over(im.q, w.q)>>)
    BY ONLY <2>5, ComplexDenotes, Zenon DEF StandsFor
  <2> QED BY ONLY <1>6, <1>8, <1>10, <2>2, <2>6, <2>7, Zenon
<1> QED BY <1>9, <1>10

-----------------------------------------------------------------------------
(* The operations of the program.                                           *)

\* What is converted to a simple number stands for what it stood for.
LEMMA AsSimpleIs ==
  ASSUME NEW x \in Exact, AsSimple(x) # Failed
  PROVE  AsSimple(x) \in Simple /\ Exactly(x) = <<AsSimple(x).q, Whole(0)>>
<1>1. CASE IsSimple(x)
  <2>1. AsSimple(x) = x BY <1>1 DEF AsSimple
  <2> QED BY <1>1, <2>1, ExactIs
<1>2. CASE ~IsSimple(x)
  <2>1. AsSimple(x) = x.re /\ x.im.q = Whole(0) BY <1>2 DEF AsSimple, IsZero
  <2>2. x.re \in Simple /\ Exactly(x) = <<x.re.q, x.im.q>> BY <1>2, ExactIs
  <2> QED BY ONLY <2>1, <2>2, Zenon
<1> QED BY <1>1, <1>2

\* Neither an exception nor an inexact number is an exact one.
LEMMA NoNumber ==
  /\ Failed.rep = "error" /\ Inexact.rep = "real" /\ Failed # Inexact
  /\ ~IsSimple(Failed) /\ ~IsSimple(Inexact) /\ Exactly(Failed) = <<>>
<1>1. Failed.rep = "error" /\ Inexact.rep = "real" /\ Failed # Inexact BY DEF Failed, Inexact
<1>2. ~IsSimple(Failed) /\ ~IsSimple(Inexact) BY <1>1 DEF IsSimple
<1>3. Exactly(Failed) = <<>> BY <1>1, <1>2 DEF Exactly
<1> QED BY <1>1, <1>2, <1>3

\* A sum starts from zero.
LEMMA SumIs ==
  ASSUME NEW x \in Exact, NEW y \in Exact
  PROVE  Denotes(NumberAdd(NumberAdd(Fixed(0), x), y), [i \in 1..2 |-> Plus(Exactly(x)[i], Exactly(y)[i])])
<1> DEFINE v == Exactly(x)
           w == Exactly(y)
           z == NumberAdd(Fixed(0), x)
<1>1. 0 \in Int /\ Whole(0) \in Rationals BY WholeIs
<1>2. Fixed(0) \in Simple /\ Fixed(0).q = Whole(0) BY <1>1, RepresentationIs, Zenon
<1>3. Fixed(0) \in Exact /\ Exactly(Fixed(0)) = <<Whole(0), Whole(0)>>
  <2>1. StandsFor(Fixed(0), Whole(0)) BY <1>2 DEF StandsFor
  <2> QED BY <2>1, SimpleDenotes, Zenon DEF Denotes
<1>4. v[1] \in Rationals /\ v[2] \in Rationals BY ExactParts
<1>5. Exactly(Fixed(0))[1] = Whole(0) /\ Exactly(Fixed(0))[2] = Whole(0) BY <1>3
<1>6. v = <<v[1], v[2]>> BY ExactIs
<1>7. Denotes(z, <<Plus(Whole(0), v[1]), Plus(Whole(0), v[2])>>) BY ONLY <1>3, <1>5, NumberAddIs, Zenon
<1>8. z \in Exact /\ Exactly(z) = v
  <2>1. Plus(Whole(0), v[1]) = v[1] /\ Plus(Whole(0), v[2]) = v[2] BY <1>4, RationalUnits
  <2> QED BY ONLY <1>6, <1>7, <2>1, Zenon DEF Denotes
<1>9. Denotes(NumberAdd(z, y), <<Plus(v[1], w[1]), Plus(v[2], w[2])>>) BY ONLY <1>8, NumberAddIs, Zenon
<1> HIDE DEF v, w, z
<1>10. [i \in 1..2 |-> Plus(v[i], w[i])] = <<Plus(v[1], w[1]), Plus(v[2], w[2])>> OBVIOUS
<1>11. Denotes(NumberAdd(z, y), [i \in 1..2 |-> Plus(v[i], w[i])]) BY ONLY <1>9, <1>10, Zenon
<1> QED BY <1>11 DEF v, w, z

\* A difference goes part by part.
LEMMA DifferenceIs ==
  ASSUME NEW x \in Exact, NEW y \in Exact
  PROVE  Denotes(NumberSub(x, y), [i \in 1..2 |-> Minus(Exactly(x)[i], Exactly(y)[i])])
<1> DEFINE v == Exactly(x)
           w == Exactly(y)
<1>1. Denotes(NumberSub(x, y), <<Minus(v[1], w[1]), Minus(v[2], w[2])>>) BY NumberSubIs
<1> HIDE DEF v, w
<1>2. [i \in 1..2 |-> Minus(v[i], w[i])] = <<Minus(v[1], w[1]), Minus(v[2], w[2])>> OBVIOUS
<1>3. Denotes(NumberSub(x, y), [i \in 1..2 |-> Minus(v[i], w[i])]) BY ONLY <1>1, <1>2, Zenon
<1> QED BY <1>3 DEF v, w

\* A product starts from one.
LEMMA ProductIs ==
  ASSUME NEW x \in Exact, NEW y \in Exact
  PROVE  Denotes(NumberMul(NumberMul(Fixed(1), x), y), RefMul(Exactly(x), Exactly(y)))
<1> DEFINE v == Exactly(x)
           z == NumberMul(Fixed(1), x)
<1>1. 1 \in Int /\ 0 \in Int /\ Whole(0) \in Rationals /\ Whole(1) \in Rationals BY WholeIs
<1>2. Fixed(1) \in Simple /\ Fixed(1).q = Whole(1) BY <1>1, RepresentationIs, Zenon
<1>3. Fixed(1) \in Exact /\ Exactly(Fixed(1)) = <<Whole(1), Whole(0)>>
  <2>1. StandsFor(Fixed(1), Whole(1)) BY <1>2 DEF StandsFor
  <2> QED BY <2>1, SimpleDenotes, Zenon DEF Denotes
<1>4. v[1] \in Rationals /\ v[2] \in Rationals BY ExactParts
<1>5. v = <<v[1], v[2]>> BY ExactIs
<1>6. RefMul(<<Whole(1), Whole(0)>>, <<v[1], v[2]>>) = <<v[1], v[2]>>
  <2> DEFINE a == v[1]
             b == v[2]
  <2>1. a \in Rationals /\ b \in Rationals BY <1>4
  <2> HIDE DEF a, b
  <2>2. /\ Times(Whole(1), a) = a /\ Times(Whole(0), b) = Whole(0) /\ Minus(a, Whole(0)) = a
        /\ Times(Whole(1), b) = b /\ Times(Whole(0), a) = Whole(0) /\ Plus(b, Whole(0)) = b
    BY <2>1, RationalUnits
  <2>3. RefMul(<<Whole(1), Whole(0)>>, <<a, b>>) =
           <<Minus(Times(Whole(1), a), Times(Whole(0), b)), Plus(Times(Whole(1), b), Times(Whole(0), a))>>
    BY RefMulIs
  <2>4. RefMul(<<Whole(1), Whole(0)>>, <<a, b>>) = <<a, b>> BY ONLY <2>2, <2>3, Zenon
  <2> QED BY <2>4 DEF a, b
<1>7. Denotes(z, RefMul(Exactly(Fixed(1)), v)) BY ONLY <1>3, NumberMulIs, Zenon
<1>8. z \in Exact /\ Exactly(z) = v
  <2> HIDE DEF v, z
  <2>1. RefMul(Exactly(Fixed(1)), v) = v BY ONLY <1>3, <1>5, <1>6, Zenon
  <2> QED BY ONLY <1>7, <2>1, Zenon DEF Denotes
<1>9. Denotes(NumberMul(z, y), RefMul(Exactly(z), Exactly(y))) BY ONLY <1>8, NumberMulIs, Zenon
<1> QED BY ONLY <1>8, <1>9, Zenon

\* A number is negated part by part.
LEMMA NegativeIs ==
  ASSUME NEW x \in Exact
  PROVE  Denotes(IF IsSimple(x) THEN SimpleNeg(x) ELSE ComplexNeg(x), [i \in 1..2 |-> Minus(Whole(0), Exactly(x)[i])])
<1> DEFINE v == Exactly(x)
           n == IF IsSimple(x) THEN SimpleNeg(x) ELSE ComplexNeg(x)
<1>1. Denotes(n, <<Minus(Whole(0), v[1]), Minus(Whole(0), v[2])>>)
  <2>1. CASE IsSimple(x)
    <3>1. x \in Simple /\ v[1] = x.q /\ v[2] = Whole(0) BY <2>1, ExactIs
    <3>2. StandsFor(SimpleNeg(x), Minus(Whole(0), x.q)) BY <3>1, SimpleNegIs
    <3>3. Denotes(SimpleNeg(x), <<Minus(Whole(0), x.q), Whole(0)>>) BY <3>2, SimpleDenotes, Zenon
    <3>4. Minus(Whole(0), Whole(0)) = Whole(0)
      <4>1. Whole(0) \in Rationals BY WholeIs
      <4> QED BY <4>1, RationalUnits
    <3>5. n = SimpleNeg(x) BY <2>1
    <3> QED BY ONLY <3>1, <3>3, <3>4, <3>5, Zenon
  <2>2. CASE ~IsSimple(x)
    <3>1. x.re \in Simple /\ x.im \in Simple /\ v[1] = x.re.q /\ v[2] = x.im.q BY <2>2, ExactIs
    <3>2. StandsFor(SimpleNeg(x.re), Minus(Whole(0), x.re.q)) /\ StandsFor(SimpleNeg(x.im), Minus(Whole(0), x.im.q))
      BY <3>1, SimpleNegIs
    <3>3. n = Complex(SimpleNeg(x.re), SimpleNeg(x.im)) BY <2>2 DEF ComplexNeg
    <3>4. Denotes(Complex(SimpleNeg(x.re), SimpleNeg(x.im)), <<SimpleNeg(x.re).q, SimpleNeg(x.im).q>>)
      BY ONLY <3>2, ComplexDenotes, Zenon DEF StandsFor
    <3> QED BY ONLY <3>1, <3>2, <3>3, <3>4, Zenon DEF StandsFor
  <2> QED BY <2>1, <2>2
<1> HIDE DEF v
<1>2. [i \in 1..2 |-> Minus(Whole(0), v[i])] = <<Minus(Whole(0), v[1]), Minus(Whole(0), v[2])>> OBVIOUS
<1>3. Denotes(n, [i \in 1..2 |-> Minus(Whole(0), v[i])])
  <2> HIDE DEF n
  <2> QED BY ONLY <1>1, <1>2, Zenon
<1> QED BY <1>3 DEF v

\* v is what x stands for, or x is no exact number and v none either.
Sound(x, v) ==
    \/ Denotes(x, v)
    \/ x \in {Failed, Inexact} /\ v = <<>>

\* The accumulator stands for the number it should be.
NumberInv == Sound(acc, value)

\* An action that returns a number with what it stands for leaves them so.
LEMMA ReturnsSound ==
  ASSUME NEW x, NEW v, Sound(x, v), Returns(x, v)
  PROVE  NumberInv'
<1>1. acc' = x /\ value' = v BY DEF Returns
<1>2. NumberInv' = Sound(acc', value') BY DEF NumberInv, Sound, Denotes
<1> QED BY ONLY <1>1, <1>2, Sound(x, v), Zenon

\* A simple result that stands for the rational q.
LEMMA ReturnsSimple ==
  ASSUME NEW x, NEW q, StandsFor(x, q), Returns(x, <<q, Whole(0)>>)
  PROVE  NumberInv'
<1>1. Denotes(x, <<q, Whole(0)>>) BY SimpleDenotes
<1> QED BY <1>1, ReturnsSound DEF Sound

\* The sum of the accumulator and an operand.
LEMMA AddToSound ==
  ASSUME Denotes(acc, value), NEW y \in Exact, AddTo(y)
  PROVE  NumberInv'
<1> DEFINE x == NumberAdd(NumberAdd(Fixed(0), acc), y)
           v == [i \in 1..2 |-> Plus(value[i], Exactly(y)[i])]
<1>1. acc \in Exact /\ Exactly(acc) = value BY DEF Denotes
<1>2. Denotes(x, [i \in 1..2 |-> Plus(Exactly(acc)[i], Exactly(y)[i])]) BY <1>1, SumIs
<1>3. Denotes(x, v) BY <1>1, <1>2
<1>4. Returns(x, v) BY DEF AddTo
<1> HIDE DEF x, v
<1> QED BY ONLY <1>3, <1>4, ReturnsSound, Zenon DEF Sound

\* Their product.
LEMMA MultiplyBySound ==
  ASSUME Denotes(acc, value), NEW y \in Exact, MultiplyBy(y)
  PROVE  NumberInv'
<1> DEFINE x == NumberMul(NumberMul(Fixed(1), acc), y)
           v == RefMul(value, Exactly(y))
<1>1. acc \in Exact /\ Exactly(acc) = value BY DEF Denotes
<1>2. Denotes(x, RefMul(Exactly(acc), Exactly(y))) BY <1>1, ProductIs
<1>3. Denotes(x, v) BY <1>1, <1>2
<1>4. Returns(x, v) BY DEF MultiplyBy
<1> HIDE DEF x, v
<1> QED BY ONLY <1>3, <1>4, ReturnsSound, Zenon DEF Sound

\* The difference of an operand and the accumulator.
LEMMA SubtractFromSound ==
  ASSUME Denotes(acc, value), NEW y \in Exact, SubtractFrom(y)
  PROVE  NumberInv'
<1> DEFINE x == NumberSub(y, acc)
           v == [i \in 1..2 |-> Minus(Exactly(y)[i], value[i])]
<1>1. acc \in Exact /\ Exactly(acc) = value BY DEF Denotes
<1>2. Denotes(x, [i \in 1..2 |-> Minus(Exactly(y)[i], Exactly(acc)[i])]) BY <1>1, DifferenceIs
<1>3. Denotes(x, v) BY <1>1, <1>2
<1>4. Returns(x, v) BY DEF SubtractFrom
<1> HIDE DEF x, v
<1> QED BY ONLY <1>3, <1>4, ReturnsSound, Zenon DEF Sound

\* The accumulator negated.
LEMMA NegateSound ==
  ASSUME Denotes(acc, value), Negate
  PROVE  NumberInv'
<1> DEFINE x == IF IsSimple(acc) THEN SimpleNeg(acc) ELSE ComplexNeg(acc)
           v == [i \in 1..2 |-> Minus(Whole(0), value[i])]
<1>1. acc \in Exact /\ Exactly(acc) = value BY DEF Denotes
<1>2. Denotes(x, [i \in 1..2 |-> Minus(Whole(0), Exactly(acc)[i])]) BY <1>1, NegativeIs
<1>3. Denotes(x, v) BY ONLY <1>1, <1>2
<1>4. Returns(x, v) BY DEF Negate
<1> HIDE DEF x, v
<1> QED BY ONLY <1>3, <1>4, ReturnsSound, Zenon DEF Sound

\* A quotient, or an exception when the divisor is zero.
LEMMA DivideBySound ==
  ASSUME Denotes(acc, value), NEW y \in Exact, DivideBy(y)
  PROVE  NumberInv'
<1>1. CASE NumberIsZero(y)
  <2>1. Returns(Failed, <<>>) BY <1>1 DEF DivideBy
  <2>2. Sound(Failed, <<>>) BY DEF Sound
  <2> QED BY ONLY <2>1, <2>2, ReturnsSound, Zenon
<1>2. CASE ~NumberIsZero(y)
  <2> DEFINE x == NumberDiv(acc, y)
             v == RefDiv(value, Exactly(y))
  <2>1. acc \in Exact /\ Exactly(acc) = value BY DEF Denotes
  <2>2. Denotes(x, RefDiv(Exactly(acc), Exactly(y))) BY <1>2, <2>1, NumberDivIs
  <2>3. Denotes(x, v) BY ONLY <2>1, <2>2, Zenon
  <2>4. Returns(x, v) BY <1>2 DEF DivideBy
  <2> HIDE DEF x, v
  <2> QED BY ONLY <2>3, <2>4, ReturnsSound, Zenon DEF Sound
<1> QED BY <1>1, <1>2

\* The real number that the accumulator is converted to.
LEMMA Converted ==
  ASSUME Denotes(acc, value), AsSimple(acc) # Failed
  PROVE  /\ AsSimple(acc) \in Simple /\ AsSimple(acc).q \in Rationals
         /\ value = <<AsSimple(acc).q, Whole(0)>> /\ value[1] = AsSimple(acc).q
<1>1. acc \in Exact /\ Exactly(acc) = value BY DEF Denotes
<1>2. AsSimple(acc) \in Simple /\ Exactly(acc) = <<AsSimple(acc).q, Whole(0)>> BY <1>1, AsSimpleIs
<1>3. AsSimple(acc).q \in Rationals BY <1>2, SimpleIs
<1> QED BY <1>1, <1>2, <1>3

\* The quotient and the rest.
LEMMA IntegerDivideBySound ==
  ASSUME Denotes(acc, value), NEW y \in Exact, IntegerDivideBy(y)
  PROVE  NumberInv'
<1> DEFINE x == AsSimple(acc)
           z == AsSimple(y)
           q == Whole(RefQuotient(value[1], z.q))
<1>1. x # Failed /\ z # Failed /\ ~NumberIsZero(y) BY DEF IntegerDivideBy
<1>2. x \in Simple /\ value[1] = x.q BY <1>1, Converted
<1>3. z \in Simple /\ Exactly(y) = <<z.q, Whole(0)>> BY <1>1, AsSimpleIs
<1>4. z.q # Whole(0)
  <2>1. CASE IsSimple(y) BY <1>1, <2>1 DEF NumberIsZero, IsZero, AsSimple
  <2>2. CASE ~IsSimple(y) BY <1>1, <2>2 DEF NumberIsZero, IsZero, AsSimple
  <2> QED BY <2>1, <2>2
<1>5. \/ Returns(DivEuclid(x, z), <<q, Whole(0)>>)
      \/ Returns(Modulo(x, z), <<Minus(value[1], Times(q, z.q)), Whole(0)>>)
  BY DEF IntegerDivideBy
<1> HIDE DEF x, z
<1>6. StandsFor(DivEuclid(x, z), Whole(RefQuotient(x.q, z.q))) BY ONLY <1>2, <1>3, <1>4, DivEuclidIs, Zenon
<1>7. StandsFor(Modulo(x, z), Minus(x.q, Times(Whole(RefQuotient(x.q, z.q)), z.q)))
  BY ONLY <1>2, <1>3, <1>4, ModuloIs, Zenon
<1>8. StandsFor(DivEuclid(x, z), q) /\ StandsFor(Modulo(x, z), Minus(value[1], Times(q, z.q)))
  BY ONLY <1>2, <1>6, <1>7, Zenon DEF q
<1> HIDE DEF q
<1>9. CASE Returns(DivEuclid(x, z), <<q, Whole(0)>>) BY ONLY <1>8, <1>9, ReturnsSimple, Zenon
<1>10. CASE Returns(Modulo(x, z), <<Minus(value[1], Times(q, z.q)), Whole(0)>>)
  BY ONLY <1>8, <1>10, ReturnsSimple, Zenon
<1> QED BY ONLY <1>5, <1>9, <1>10, Zenon

\* A power, exact or not.
LEMMA RaiseToSound ==
  ASSUME Denotes(acc, value), NEW y \in Exact, RaiseTo(y)
  PROVE  NumberInv'
<1> DEFINE power == Pow(acc, y)
           p == RefPower(value[1], y.q[1])
<1>1. acc \in Simple /\ value[1] = acc.q
  <2>1. IsSimple(acc) /\ acc \in Exact /\ Exactly(acc) = value BY DEF RaiseTo, Denotes
  <2> QED BY <2>1, ExactIs
<1>2. y \in Simple
  <2>1. IsSimple(y) BY DEF RaiseTo
  <2> QED BY <2>1, ExactIs
<1>3. Returns(power, IF power = Inexact THEN <<>> ELSE <<p, Whole(0)>>) BY DEF RaiseTo
<1>4. power = Inexact \/ StandsFor(power, RefPower(acc.q, y.q[1])) BY <1>1, <1>2, PowIs
<1>5. power = Inexact \/ StandsFor(power, p) BY ONLY <1>1, <1>4, Zenon
<1> HIDE DEF power, p
<1>6. CASE power = Inexact
  <2>1. Returns(power, <<>>) BY ONLY <1>3, <1>6, Zenon
  <2>2. Sound(power, <<>>) BY <1>6 DEF Sound
  <2> QED BY ONLY <2>1, <2>2, ReturnsSound, Zenon
<1>7. CASE power # Inexact
  <2>1. Returns(power, <<p, Whole(0)>>) BY ONLY <1>3, <1>7, Zenon
  <2>2. StandsFor(power, p) BY ONLY <1>5, <1>7, Zenon
  <2> QED BY ONLY <2>1, <2>2, ReturnsSimple, Zenon
<1> QED BY ONLY <1>6, <1>7, Zenon

\* The integers around a real number, its numerator and its denominator.
LEMMA PartSound ==
  ASSUME Denotes(acc, value), Part
  PROVE  NumberInv'
<1> DEFINE x == AsSimple(acc)
           q == x.q
<1>1. x # Failed BY DEF Part
<1>2. x \in Simple /\ q \in Rationals /\ value[1] = q BY <1>1, Converted
<1>3. \/ \E n \in {FloorOf(q), CeilingOf(q), TruncateOf(q), NearestOf(q)} :
            Returns(ToInteger(x, n), <<Whole(n), Whole(0)>>)
      \/ Returns(IF x.rep = "rational" THEN Big(q[1]) ELSE x, <<Whole(q[1]), Whole(0)>>)
      \/ Returns(IF x.rep = "rational" THEN Big(q[2]) ELSE Fixed(1), <<Whole(q[2]), Whole(0)>>)
  BY <1>2 DEF Part
<1> HIDE DEF x
<1>4. ASSUME NEW n \in {FloorOf(q), CeilingOf(q), TruncateOf(q), NearestOf(q)}
      PROVE  StandsFor(ToInteger(x, n), Whole(n))
  <2>1. n \in Int /\ (x.q[2] = 1 => n = x.q[1]) BY <1>2, RoundIs
  <2> QED BY ONLY <1>2, <2>1, ToIntegerIs, Zenon
<1>5. StandsFor(IF x.rep = "rational" THEN Big(q[1]) ELSE x, Whole(q[1]))
  <2>1. q[1] \in Int BY <1>2, RationalParts
  <2>2. Big(q[1]) \in Simple /\ Big(q[1]).q = Whole(q[1]) BY <1>2, <2>1, RepresentationIs
  <2>3. x.rep # "rational" => q = Whole(q[1]) BY <1>2, SimpleIs, RationalKinds
  <2> QED BY <1>2, <2>2, <2>3 DEF StandsFor
<1>6. StandsFor(IF x.rep = "rational" THEN Big(q[2]) ELSE Fixed(1), Whole(q[2]))
  <2>1. q[2] \in Int /\ 1 \in Int BY <1>2, RationalParts
  <2>2. Big(q[2]) \in Simple /\ Big(q[2]).q = Whole(q[2]) /\ Fixed(1) \in Simple /\ Fixed(1).q = Whole(1)
    BY <1>2, <2>1, RepresentationIs
  <2>3. x.rep # "rational" => q[2] = 1 BY <1>2, SimpleIs
  <2> QED BY <2>2, <2>3 DEF StandsFor
<1> HIDE DEF q
<1>7. CASE \E n \in {FloorOf(q), CeilingOf(q), TruncateOf(q), NearestOf(q)} :
              Returns(ToInteger(x, n), <<Whole(n), Whole(0)>>)
  BY ONLY <1>4, <1>7, ReturnsSimple, Zenon
<1>8. CASE Returns(IF x.rep = "rational" THEN Big(q[1]) ELSE x, <<Whole(q[1]), Whole(0)>>)
  BY <1>5, <1>8, ReturnsSimple
<1>9. CASE Returns(IF x.rep = "rational" THEN Big(q[2]) ELSE Fixed(1), <<Whole(q[2]), Whole(0)>>)
  BY <1>6, <1>9, ReturnsSimple
<1> QED BY ONLY <1>3, <1>7, <1>8, <1>9, Zenon

\* The root of an integer and what is left.
LEMMA RootSound ==
  ASSUME Denotes(acc, value), Root
  PROVE  NumberInv'
<1> DEFINE x == AsSimple(acc)
           n == x.q[1]
           root == RootOf(n)
<1>1. AsInteger(acc) # Failed /\ AsInteger(acc).q[1] >= 0 BY DEF Root
<1>2. x # Failed /\ IsInteger(x) BY <1>1 DEF AsInteger
<1>3. x \in Simple /\ x.q \in Rationals /\ value[1] = x.q BY <1>2, Converted
<1>4. n \in Int /\ x.q = Whole(n) BY <1>2, <1>3, RationalKinds, RationalParts DEF IsInteger
<1>5. AsInteger(acc) = Big(n) BY <1>2 DEF AsInteger
<1>6. AsInteger(acc).q[1] = n /\ n \in Nat
  <2>1. Big(n).q = Whole(n) BY DEF Big
  <2>2. Whole(n)[1] = n BY <1>4, WholeIs
  <2>3. AsInteger(acc).q[1] = n
    <3> HIDE DEF n
    <3> QED BY ONLY <1>5, <2>1, <2>2, Zenon
  <2> QED BY <1>1, <1>4, <2>3
<1>7. value[1][1] = n BY <1>3
<1>8. \/ Returns(Big(root), <<Whole(root), Whole(0)>>)
      \/ Returns(Big(n - root * root), <<Minus(value[1], Times(Whole(root), Whole(root))), Whole(0)>>)
  <2> DEFINE m == AsInteger(acc).q[1]
  <2>1. \/ Returns(Big(RootOf(m)), <<Whole(RootOf(value[1][1])), Whole(0)>>)
        \/ Returns(Big(m - RootOf(m) * RootOf(m)),
                   <<Minus(value[1], Times(Whole(RootOf(m)), Whole(RootOf(m)))), Whole(0)>>)
    BY DEF Root
  <2>2. m = n BY <1>6
  <2> HIDE DEF m, n
  <2> QED BY ONLY <1>7, <2>1, <2>2, Zenon DEF root
<1>9. root \in Nat /\ root \in Int
  <2> HIDE DEF n
  <2>1. RootOf(n) \in Nat BY <1>6, RootIs
  <2> QED BY <2>1
<1> HIDE DEF x, n, root
<1>10. StandsFor(Big(root), Whole(root)) BY <1>3, <1>9, RepresentationIs DEF StandsFor
<1>11. StandsFor(Big(n - root * root), Minus(value[1], Times(Whole(root), Whole(root))))
  <2> DEFINE s == root * root
             d == n - s
  <2>1. s \in Int /\ d \in Int BY <1>4, <1>9
  <2>2. Times(Whole(root), Whole(root)) = Whole(s) BY <1>9, WholeArithmetic
  <2>3. Minus(Whole(n), Whole(s)) = Whole(d) BY <1>4, <2>1, WholeArithmetic
  <2>4. StandsFor(Big(d), Whole(d)) BY <1>3, <2>1, RepresentationIs DEF StandsFor
  <2> HIDE DEF s, d
  <2>5. StandsFor(Big(d), Minus(value[1], Times(Whole(root), Whole(root))))
    BY ONLY <1>3, <1>4, <2>2, <2>3, <2>4, Zenon
  <2> QED BY <2>5 DEF s, d
<1>12. CASE Returns(Big(root), <<Whole(root), Whole(0)>>) BY <1>10, <1>12, ReturnsSimple
<1>13. CASE Returns(Big(n - root * root), <<Minus(value[1], Times(Whole(root), Whole(root))), Whole(0)>>)
  BY ONLY <1>11, <1>13, ReturnsSimple, Zenon
<1> QED BY ONLY <1>8, <1>12, <1>13, Zenon

\* A complex number made of two real ones.
LEMMA MakeRectangularSound ==
  ASSUME Denotes(acc, value), NEW y \in Exact, MakeRectangular(y)
  PROVE  NumberInv'
<1> DEFINE x == AsSimple(acc)
           z == AsSimple(y)
<1>1. x # Failed /\ z # Failed BY DEF MakeRectangular
<1>2. x \in Simple /\ value[1] = x.q BY <1>1, Converted
<1>3. z \in Simple /\ Exactly(y)[1] = z.q
  <2>1. z \in Simple /\ Exactly(y) = <<z.q, Whole(0)>> BY <1>1, AsSimpleIs
  <2> QED BY <2>1
<1>4. Returns(Complex(x, z), <<value[1], Exactly(y)[1]>>) BY DEF MakeRectangular
<1> HIDE DEF x, z
<1>5. Denotes(Complex(x, z), <<x.q, z.q>>) BY <1>2, <1>3, ComplexDenotes
<1>6. Denotes(Complex(x, z), <<value[1], Exactly(y)[1]>>) BY ONLY <1>2, <1>3, <1>5, Zenon
<1> QED BY ONLY <1>4, <1>6, ReturnsSound, Zenon DEF Sound

\* The real part and the imaginary part.
LEMMA PartsOfSound ==
  ASSUME Denotes(acc, value), RealPartOf \/ ImagPartOf
  PROVE  NumberInv'
<1>1. acc \in Exact /\ Exactly(acc) = value BY DEF Denotes
<1>2. CASE RealPartOf
  <2>1. RealPart(acc) \in Simple /\ value[1] = RealPart(acc).q BY <1>1, ExactIs DEF RealPart
  <2>2. StandsFor(RealPart(acc), value[1]) BY <2>1 DEF StandsFor
  <2>3. Returns(RealPart(acc), <<value[1], Whole(0)>>) BY <1>2 DEF RealPartOf
  <2> QED BY ONLY <2>2, <2>3, ReturnsSimple, Zenon
<1>3. CASE ImagPartOf
  <2>1. acc.rep = "complex" /\ Returns(acc.im, <<value[2], Whole(0)>>) BY <1>3 DEF ImagPartOf
  <2>2. ~IsSimple(acc) BY <2>1 DEF IsSimple
  <2>3. acc.im \in Simple /\ value[2] = acc.im.q BY <1>1, <2>2, ExactIs
  <2>4. StandsFor(acc.im, value[2]) BY <2>3 DEF StandsFor
  <2> QED BY ONLY <2>1, <2>4, ReturnsSimple, Zenon
<1> QED BY <1>2, <1>3

\* A conversion to a narrower integer keeps the number or raises an exception.
LEMMA ThroughNarrowSound ==
  ASSUME Denotes(acc, value), ThroughNarrow
  PROVE  NumberInv'
<1> DEFINE x == AsSimple(acc)
           fits == x # Failed /\ x.rep # "rational" /\ x.q[1] \in 0..(2 ^ (Width - 2) - 1)
<1>1. IF fits THEN Returns(Fixed(x.q[1]), value) ELSE Returns(Failed, <<>>) BY DEF ThroughNarrow
<1>2. CASE fits
  <2>1. x # Failed /\ x.rep # "rational" BY <1>2
  <2>2. x \in Simple /\ x.q \in Rationals /\ value = <<x.q, Whole(0)>> BY <2>1, Converted
  <2>3. x.q[1] \in Int /\ x.q = Whole(x.q[1]) BY <2>1, <2>2, SimpleIs, RationalKinds, RationalParts
  <2>4. StandsFor(Fixed(x.q[1]), x.q) BY <2>2, <2>3, RepresentationIs DEF StandsFor
  <2>5. Returns(Fixed(x.q[1]), value) BY <1>1, <1>2
  <2>6. Returns(Fixed(x.q[1]), <<x.q, Whole(0)>>) BY ONLY <2>2, <2>5, Zenon
  <2> HIDE DEF x
  <2> QED BY ONLY <2>4, <2>6, ReturnsSimple, Zenon
<1>3. CASE ~fits
  <2>1. Returns(Failed, <<>>) BY <1>1, <1>3
  <2>2. Sound(Failed, <<>>) BY DEF Sound
  <2> QED BY ONLY <2>1, <2>2, ReturnsSound, Zenon
<1> QED BY <1>2, <1>3

\* Every action keeps the invariant: it computes only with an accumulator that is a number.
LEMMA NumberStep == NumberInv /\ NumberNext => NumberInv'
<1> SUFFICES ASSUME NumberInv, NumberNext PROVE NumberInv' OBVIOUS
<1>1. Denotes(acc, value)
  <2>1. IsSimple(acc) \/ acc.rep = "complex" BY DEF NumberNext, Going
  <2>2. acc # Failed /\ acc # Inexact BY <2>1, NoNumber
  <2> QED BY <2>2 DEF NumberInv, Sound
<1>2. ASSUME NEW y \in Operands PROVE y \in Exact BY NumbersAssumption
<1>3. CASE Negate BY <1>1, <1>3, NegateSound
<1>4. CASE Part BY <1>1, <1>4, PartSound
<1>5. CASE Root BY <1>1, <1>5, RootSound
<1>6. CASE RealPartOf \/ ImagPartOf BY <1>1, <1>6, PartsOfSound
<1>7. CASE ThroughNarrow BY <1>1, <1>7, ThroughNarrowSound
<1>8. ASSUME NEW y \in Operands,
             \/ AddTo(y) \/ MultiplyBy(y) \/ SubtractFrom(y) \/ DivideBy(y)
             \/ IntegerDivideBy(y) \/ RaiseTo(y) \/ MakeRectangular(y)
      PROVE  NumberInv'
  <2>1. y \in Exact BY <1>2
  <2>2. CASE AddTo(y) BY <1>1, <2>1, <2>2, AddToSound
  <2>3. CASE MultiplyBy(y) BY <1>1, <2>1, <2>3, MultiplyBySound
  <2>4. CASE SubtractFrom(y) BY <1>1, <2>1, <2>4, SubtractFromSound
  <2>5. CASE DivideBy(y) BY <1>1, <2>1, <2>5, DivideBySound
  <2>6. CASE IntegerDivideBy(y) BY <1>1, <2>1, <2>6, IntegerDivideBySound
  <2>7. CASE RaiseTo(y) BY <1>1, <2>1, <2>7, RaiseToSound
  <2>8. CASE MakeRectangular(y) BY <1>1, <2>1, <2>8, MakeRectangularSound
  <2> QED BY <1>8, <2>2, <2>3, <2>4, <2>5, <2>6, <2>7, <2>8
<1> QED BY <1>3, <1>4, <1>5, <1>6, <1>7, <1>8 DEF NumberNext

\* The accumulator always stands for the number it should be.
LEMMA NumberInvariant == NumberSpec => []NumberInv
<1>1. NumberInit => NumberInv
  <2> SUFFICES ASSUME NumberInit PROVE NumberInv OBVIOUS
  <2>1. acc \in Operands /\ value = Exactly(acc) BY DEF NumberInit
  <2>2. acc \in Exact BY <2>1, NumbersAssumption
  <2> QED BY <2>1, <2>2 DEF NumberInv, Sound, Denotes
<1>2. NumberInv /\ [NumberNext]_numberVars => NumberInv'
  <2>1. CASE NumberNext BY <2>1, NumberStep
  <2>2. CASE UNCHANGED numberVars BY <2>2 DEF numberVars, NumberInv, Sound, Denotes
  <2> QED BY <2>1, <2>2
<1> QED BY <1>1, <1>2, PTL DEF NumberSpec

\* Exact arithmetic: whatever operations a program applies to exact numbers, in whichever of the
\* representations of num.rs they are and however large the results, the result stands for the number that
\* arithmetic on pairs of rationals gives, in lowest terms. Only a power may be inexact.
THEOREM ResultsExactHolds == NumberSpec => []ResultsExact
<1>1. NumberInv => ResultsExact
  <2> SUFFICES ASSUME NumberInv, acc # Inexact PROVE Exactly(acc) = value BY DEF ResultsExact
  <2>1. CASE Denotes(acc, value) BY <2>1 DEF Denotes
  <2>2. CASE acc = Failed /\ value = <<>> BY <2>2, NoNumber
  <2> QED BY <2>1, <2>2 DEF NumberInv, Sound
<1> QED BY <1>1, NumberInvariant, PTL

\* =, < and eqv? see the numbers and not their representations, and two simple numbers that are the same to
\* eqv? have the same eqv-hash: the tables of objects with numbers for keys rest on it.
THEOREM ComparisonsAgreeHolds == NumberSpec => []ComparisonsAgree
<1>1. NumberInv => ComparisonsAgree
  <2> SUFFICES ASSUME NumberInv, NEW y \in Operands, IsSimple(acc), IsSimple(y)
               PROVE  /\ NumberEqual(acc, y) <=> value = Exactly(y)
                      /\ NumberLess(acc, y) <=> Below(value[1], y.q)
                      /\ Eqv(acc, y) => SimpleHash(acc) = SimpleHash(y)
    BY DEF ComparisonsAgree
  <2>1. Denotes(acc, value) BY NoNumber DEF NumberInv, Sound
  <2>2. value = <<acc.q, Whole(0)>>
    <3>1. acc \in Exact /\ Exactly(acc) = value BY <2>1 DEF Denotes
    <3> QED BY <3>1, ExactIs
  <2>3. Exactly(y) = <<y.q, Whole(0)>>
    <3>1. y \in Exact BY NumbersAssumption
    <3> QED BY <3>1, ExactIs
  <2>4. NumberEqual(acc, y) <=> acc.q = y.q BY DEF NumberEqual, IsReal, RealPart, SimpleEqual
  <2>5. value = Exactly(y) <=> acc.q = y.q BY <2>2, <2>3
  <2>6. NumberLess(acc, y) <=> Below(value[1], y.q)
    <3>1. value[1] = acc.q BY <2>2
    <3>2. NumberLess(acc, y) <=> Below(acc.q, y.q) BY DEF NumberLess, RealPart, SimpleLess
    <3> QED BY ONLY <3>1, <3>2, Zenon
  <2>7. acc.q = y.q => SimpleHash(acc) = SimpleHash(y) BY DEF SimpleHash, IsInteger
  <2> QED BY ONLY <2>4, <2>5, <2>6, <2>7, Zenon DEF Eqv
<1> QED BY <1>1, NumberInvariant, PTL

----------------------------------------------------------------------------
(* Ports.                                                                   *)

\* How much room a character, or a byte, needs behind input_pos.
Need == IF IsText(info) THEN CharBytes ELSE 1

Room == info.reads => Len(inputBuffer) - inputPos >= Need

Bounds ==
    /\ \E S : inputBuffer \in Seq(S)
    /\ inputPos \in Nat /\ bytesRead \in Nat
    /\ inputPos <= bytesRead /\ bytesRead <= Len(inputBuffer)

Roomy ==
    /\ info.eol # "crlf"
    /\ op # Idle => info.reads
    /\ op.line => info.mode = "line"
    /\ op \in [do : {"idle", "get", "look"}, at : Nat, line : BOOLEAN, eof : BOOLEAN]
    /\ Bounds
    /\ Room

NoCrlf == \A o \in Openings : o[1].eol # "crlf"

\* A sequence written as a function.
LEMMA FunctionIsSeq ==
  ASSUME NEW n \in Nat, NEW S, NEW f, f \in [1 .. n -> S]
  PROVE  f \in Seq(S) /\ Len(f) = n
  BY SMT

\* Unread holds what lies between the two positions.
LEMMA UnreadLength ==
  ASSUME Bounds
  PROVE  Len(Unread) = bytesRead - inputPos
<1>1. PICK S : inputBuffer \in Seq(S)
  BY DEF Bounds
<1>2. inputPos + 1 \in 1 .. Len(inputBuffer) + 1 /\ bytesRead \in inputPos .. Len(inputBuffer)
  BY <1>1, LenProperties DEF Bounds
<1> QED BY <1>1, <1>2, SubSeqProperties DEF Unread, Bounds

\* A character is asked for only where less than Need bytes are unread, and it is never
\* longer than what is unread.
LEMMA NextCharBounds ==
  ASSUME info.eol # "crlf", NEW s, Len(s) \in Nat, NEW eof
  PROVE  /\ NextChar(s, eof).len \in 0 .. Len(s)
         /\ NextChar(s, FALSE).len = 0 => Len(s) < Need
<1>1. Decoded(s, 0).len \in 0 .. Len(s)
  BY CharBytesAssumption DEF Decoded, More
<1>2. Decoded(s, 0).len = 0 => Len(s) < Need
  BY CharBytesAssumption DEF Decoded, More, Need, IsText
<1>3. Decoded(s, 0).len > 0 => Len(s) >= 1
  BY <1>1
<1> QED BY <1>1, <1>2, <1>3 DEF NextChar, More

THEOREM RoomAtFirst ==
  ASSUME NoCrlf
  PROVE  PortInit => Roomy
<1> SUFFICES ASSUME PortInit PROVE Roomy
  OBVIOUS
<1> DEFINE size == IF ~info.reads THEN 0
                   ELSE IF info.mode # "none" THEN BufferSize
                   ELSE IF IsText(info) THEN CharBytes ELSE 1
<1>1. size \in Nat /\ (info.reads => size >= Need)
  BY CharBytesAssumption, PortsAssumption DEF Need
<1>2. inputBuffer \in [1 .. size -> {"zero"}]
  BY DEF PortInit, NewBuffer
<1>3. inputBuffer \in Seq({"zero"}) /\ Len(inputBuffer) = size
  BY <1>1, <1>2, FunctionIsSeq
<1>4. info.eol # "crlf" /\ op = Idle /\ inputPos = 0 /\ bytesRead = 0
  BY DEF PortInit, NoCrlf
<1> QED BY <1>1, <1>3, <1>4 DEF Roomy, Bounds, Room, Idle

\* The only step that moves the positions forward.
LEMMA ConsumeKeepsInv ==
  ASSUME Roomy, NEW n \in Nat, n <= bytesRead - inputPos, Consume(n),
         UNCHANGED info
  PROVE  Bounds' /\ Room'
<1> DEFINE size == Len(inputBuffer)
           p == inputPos + n
<1>1. PICK S : inputBuffer \in Seq(S)
  BY DEF Roomy, Bounds
<1>2. /\ size \in Nat /\ p \in Nat /\ p <= bytesRead /\ bytesRead <= size
      /\ bytesRead \in Nat /\ CharBytes \in Nat
  BY <1>1, CharBytesAssumption DEF Roomy, Bounds
<1>3. Need' = Need /\ Need \in Nat
  BY CharBytesAssumption DEF Need, IsText
<1>4. CASE p >= size
  <2>1. inputPos' = 0 /\ bytesRead' = 0 /\ inputBuffer' = inputBuffer
    BY <1>2, <1>4 DEF Consume
  <2>2. info.reads => size >= Need
    BY <1>2, <1>3 DEF Roomy, Room, Bounds
  <2> QED BY <2>1, <2>2, <1>1, <1>2, <1>3 DEF Bounds, Room
<1>5. CASE p < size /\ IsText(info) /\ size - p < CharBytes
  <2>1. /\ inputPos' = 0 /\ bytesRead' = bytesRead - p
        /\ inputBuffer' = SubSeq(inputBuffer, p + 1, size) \o SubSeq(inputBuffer, size - p + 1, size)
    <3>1. ~(p >= size) /\ IsText(info) /\ size - p < CharBytes
      BY <1>2, <1>5
    <3> QED BY <3>1, Zenon DEF Consume
  <2>2. /\ SubSeq(inputBuffer, p + 1, size) \in Seq(S)
        /\ Len(SubSeq(inputBuffer, p + 1, size)) = size - p
    BY <1>1, <1>2, <1>5, SubSeqProperties
  <2>3. /\ SubSeq(inputBuffer, size - p + 1, size) \in Seq(S)
        /\ Len(SubSeq(inputBuffer, size - p + 1, size)) = p
    BY <1>1, <1>2, <1>5, SubSeqProperties
  <2>4. inputBuffer' \in Seq(S) /\ Len(inputBuffer') = size
    <3> DEFINE tail == SubSeq(inputBuffer, p + 1, size)
               rest == SubSeq(inputBuffer, size - p + 1, size)
    <3>1. inputBuffer' = tail \o rest
      BY <2>1
    <3>2. tail \in Seq(S) /\ Len(tail) = size - p
      BY <2>2
    <3>3. rest \in Seq(S) /\ Len(rest) = p
      BY <2>3
    <3> HIDE DEF tail, rest
    <3>4. tail \o rest \in Seq(S) /\ Len(tail \o rest) = Len(tail) + Len(rest)
      BY <3>2, <3>3, ConcatProperties
    <3> QED BY <3>1, <3>2, <3>3, <3>4, <1>2
  <2>5. info.reads => size >= Need
    BY <1>2, <1>3 DEF Roomy, Room, Bounds
  <2>6. Bounds'
    <3>1. \E T : inputBuffer' \in Seq(T)
      BY <2>4
    <3>2. inputPos' \in Nat /\ bytesRead' \in Nat /\ inputPos' <= bytesRead' /\ bytesRead' <= size
      BY <2>1, <1>2
    <3> QED BY <3>1, <3>2, <2>4 DEF Bounds
  <2>7. Room'
    BY <2>1, <2>4, <2>5, <1>2, <1>3 DEF Room
  <2> QED BY <2>6, <2>7
<1>6. CASE p < size /\ ~(IsText(info) /\ size - p < CharBytes)
  <2>1. inputPos' = p /\ bytesRead' = bytesRead /\ inputBuffer' = inputBuffer
    BY <1>2, <1>6 DEF Consume
  <2>2. size - p >= Need
    BY <1>2, <1>6, CharBytesAssumption DEF Need
  <2> QED BY <2>1, <2>2, <1>1, <1>2, <1>3 DEF Bounds, Room
<1> QED BY <1>2, <1>4, <1>5, <1>6

\* A reader that is asked for more has room for it.
LEMMA InvFits ==
  ASSUME Roomy
  PROVE  LookaheadFits
<1> SUFFICES ASSUME Wants, ~op.line PROVE bytesRead < Len(inputBuffer)
  BY DEF LookaheadFits, Fits
<1>1. Len(Unread) = bytesRead - inputPos
  BY UnreadLength DEF Roomy
<1>2. bytesRead \in Nat /\ inputPos \in Nat /\ inputPos <= bytesRead /\ Len(inputBuffer) \in Nat
  BY LenProperties DEF Roomy, Bounds
<1>3. NextChar(Unread, FALSE).len = 0
  BY DEF Wants
<1>4. Len(Unread) < Need
  <2>1. Len(Unread) \in Nat /\ info.eol # "crlf"
    BY <1>1, <1>2 DEF Roomy
  <2> QED BY <2>1, <1>3, NextCharBounds
<1>5. Len(inputBuffer) - inputPos >= Need /\ Need \in Nat
  BY CharBytesAssumption DEF Wants, Roomy, Room, Need
<1> QED BY <1>1, <1>2, <1>4, <1>5

\* Calls that leave the read buffer alone and forget what was read ahead, or do not.
LEMMA OtherStepsKeepInv ==
  ASSUME Roomy, UNCHANGED <<info, inputBuffer>>,
         \/ inputPos' = inputPos /\ bytesRead' = bytesRead
         \/ inputPos' = 0 /\ bytesRead' = 0
  PROVE  Bounds' /\ Room'
<1>1. Need' = Need /\ Need \in Nat
  BY CharBytesAssumption DEF Need, IsText
<1>2. Len(inputBuffer) \in Nat
  BY LenProperties DEF Roomy, Bounds
<1> QED BY <1>1, <1>2 DEF Roomy, Bounds, Room

LEMMA FillKeepsInv ==
  ASSUME Roomy, NEW k \in Nat, Fill(k)
  PROVE  Roomy'
<1> DEFINE size == Len(inputBuffer)
           chunk == SubSeq(disk, devPos + 1, devPos + k)
           more == ByLine /\ LineEnds(chunk) = {}
           longer == size + (IF k > 0 /\ more THEN BufferSize ELSE 0)
           byte(n) == IF n \in bytesRead + 1 .. bytesRead + k THEN chunk[n - bytesRead]
                      ELSE IF n <= size THEN inputBuffer[n] ELSE "zero"
<1>1. /\ size \in Nat /\ bytesRead \in Nat /\ inputPos \in Nat
      /\ inputPos <= bytesRead /\ bytesRead <= size
  BY LenProperties DEF Roomy, Bounds
<1>2. longer \in Nat /\ longer >= size
  BY <1>1, PortsAssumption
<1>3. /\ inputBuffer' = [n \in 1 .. longer |-> byte(n)]
      /\ bytesRead' = bytesRead + k /\ inputPos' = inputPos
      /\ op' = [op EXCEPT !.eof = k = 0, !.line = k > 0 /\ more,
                          !.at = IF op.line THEN @ ELSE Len(Unread)]
      /\ info' = info
  BY DEF Fill
<1>4. bytesRead + k <= size
  <2>1. k <= Asked /\ (op.line \/ bytesRead < size)
    BY DEF Fill, Fits
  <2> QED BY <2>1, <1>1 DEF Asked, Roomy
<1>5. (\E S : inputBuffer' \in Seq(S)) /\ Len(inputBuffer') = longer
  <2> DEFINE S == {byte(n) : n \in 1 .. longer}
  <2>1. inputBuffer' \in [1 .. longer -> S]
    BY <1>3
  <2> HIDE DEF S, longer
  <2> QED BY <2>1, <1>2, FunctionIsSeq
<1> HIDE DEF longer, byte
<1>6. Bounds'
  <2>1. bytesRead' \in Nat /\ inputPos' \in Nat /\ inputPos' <= bytesRead' /\ bytesRead' <= longer
    BY <1>1, <1>2, <1>3, <1>4
  <2> QED BY <2>1, <1>5 DEF Bounds
<1>7. Room'
  BY <1>1, <1>2, <1>3, <1>5, CharBytesAssumption DEF Roomy, Room, Need, IsText
<1>8. op' \in [do : {"idle", "get", "look"}, at : Nat, line : BOOLEAN, eof : BOOLEAN]
  <2>1. Len(Unread) \in Nat
    BY <1>1, UnreadLength DEF Roomy
  <2> QED BY <2>1, <1>3 DEF Roomy
<1>9. op'.line => info.mode = "line"
  BY <1>3 DEF Roomy, ByLine
<1>10. info.reads
  BY DEF Fill, Wants, Roomy
<1> QED BY <1>3, <1>6, <1>7, <1>8, <1>9, <1>10 DEF Roomy

LEMMA EndReadKeepsInv ==
  ASSUME Roomy, EndRead
  PROVE  Roomy'
<1> DEFINE n == NextChar(Unread, op.eof).len
<1>1. Len(Unread) = bytesRead - inputPos /\ Len(Unread) \in Nat
  BY UnreadLength DEF Roomy, Bounds
<1>2. n \in Nat /\ n <= bytesRead - inputPos
  <2>1. n \in 0 .. Len(Unread)
    BY <1>1, NextCharBounds DEF Roomy
  <2> QED BY <2>1, <1>1
<1>3. UNCHANGED info /\ op' = Idle
  BY DEF EndRead
<1>4. Bounds' /\ Room'
  <2>1. CASE Consume(n)
    <3> HIDE DEF n
    <3> QED BY <2>1, <1>2, <1>3, ConsumeKeepsInv
  <2>2. CASE UNCHANGED <<inputPos, bytesRead, inputBuffer>>
    BY <2>2, <1>3, OtherStepsKeepInv
  <2> QED BY <2>1, <2>2 DEF EndRead
<1> QED BY <1>3, <1>4 DEF Roomy, Idle

THEOREM NextKeepsInv ==
  Roomy /\ [PortNext]_portVars => Roomy'
<1> SUFFICES ASSUME Roomy, [PortNext]_portVars PROVE Roomy'
  OBVIOUS
<1>1. ASSUME NEW do \in {"get", "look"}, BeginRead(do) PROVE Roomy'
  <2>1. /\ UNCHANGED <<info, inputBuffer, inputPos, bytesRead>> /\ info.reads
        /\ op' = [Idle EXCEPT !.do = do]
    BY <1>1 DEF BeginRead
  <2>2. Bounds' /\ Room'
    BY <2>1, OtherStepsKeepInv
  <2> QED BY <2>1, <2>2 DEF Roomy, Idle
<1>2. ASSUME NEW k \in 0 .. Len(inputBuffer), Fill(k) PROVE Roomy'
  <2>1. k \in Nat
    BY LenProperties DEF Roomy, Bounds
  <2> QED BY <1>2, <2>1, FillKeepsInv
<1>3. ASSUME EndRead PROVE Roomy'
  BY <1>3, EndReadKeepsInv
<1>4. ASSUME NEW s \in Puts, Put(s) PROVE Roomy'
  <2>1. /\ UNCHANGED <<info, inputBuffer, op>>
        /\ \/ inputPos' = inputPos /\ bytesRead' = bytesRead
           \/ inputPos' = 0 /\ bytesRead' = 0
    BY <1>4 DEF Put
  <2>2. Bounds' /\ Room'
    BY <2>1, OtherStepsKeepInv
  <2> QED BY <2>1, <2>2 DEF Roomy
<1>5. ASSUME NEW p \in Positions, SetPos(p) PROVE Roomy'
  <2>1. UNCHANGED <<info, inputBuffer, op>> /\ inputPos' = 0 /\ bytesRead' = 0
    BY <1>5 DEF SetPos
  <2>2. Bounds' /\ Room'
    BY <2>1, OtherStepsKeepInv
  <2> QED BY <2>1, <2>2 DEF Roomy
<1>6. ASSUME Flush \/ Close \/ UNCHANGED portVars PROVE Roomy'
  <2>1. UNCHANGED <<info, inputBuffer, inputPos, bytesRead, op>>
    BY <1>6 DEF Flush, Close, portVars
  <2>2. Bounds' /\ Room'
    BY <2>1, OtherStepsKeepInv
  <2> QED BY <2>1, <2>2 DEF Roomy
<1> QED BY <1>1, <1>2, <1>3, <1>4, <1>5, <1>6 DEF PortNext

\* A read never needs a byte that its buffer has no room for (the panic of peekn_bytes),
\* whatever is read, peeked, written and sought in whatever order.
THEOREM LookaheadNeverFails ==
  ASSUME NoCrlf
  PROVE  PortSpec => []LookaheadFits
<1>1. PortInit => Roomy
  BY RoomAtFirst
<1>2. Roomy /\ [PortNext]_portVars => Roomy'
  BY NextKeepsInv
<1>3. Roomy => LookaheadFits
  BY InvFits
<1> QED BY <1>1, <1>2, <1>3, PTL DEF PortSpec

-----------------------------------------------------------------------------
(* What programs write.                                                    *)

LEMMA FlattenIsBytes ==
  ASSUME NEW q \in Seq(Seq(Byte))
  PROVE  FlattenSeq(q) \in Seq(Byte)
<1>1. Len(q) \in Nat BY LenProperties
<1>2. CASE Len(q) = 0
  <2>1. FlattenSeq(q) = q BY <1>2, Zenon DEF FlattenSeq
  <2>2. q = <<>> BY <1>2, EmptySeq
  <2> QED BY <2>1, <2>2, EmptySeq
<1>3. CASE Len(q) # 0
  <2> DEFINE f == CHOOSE f : Flattening(f, q, Len(q))
  <2>1. FlattenSeq(q) = f[Len(q)] BY <1>3, Zenon DEF FlattenSeq, Flattening
  <2>2. Flattening(f, q, Len(q)) BY <1>1, FlatteningExists
  <2> HIDE DEF f
  <2> DEFINE Bad == {i \in 1 .. Len(q) : f[i] \notin Seq(Byte)}
  <2>3. Bad = {}
    <3> SUFFICES ASSUME Bad # {} PROVE FALSE OBVIOUS
    <3>1. PICK i \in Bad : \A j \in Bad : i <= j
      <4>1. Bad \subseteq Nat OBVIOUS
      <4> QED BY <4>1, Least
    <3>2. i \in 1 .. Len(q) /\ f[i] = IF i = 1 THEN q[i] ELSE f[i - 1] \o q[i]
      BY <2>2, Zenon DEF Flattening
    <3>3. q[i] \in Seq(Byte) BY <3>2, ElementOfSeq
    <3>4. CASE i = 1 BY <3>2, <3>3, <3>4
    <3>5. CASE i # 1
      <4>1. i - 1 \in 1 .. Len(q) /\ i - 1 < i BY <1>1, <3>2, <3>5
      <4>2. f[i - 1] \in Seq(Byte) BY <3>1, <4>1
      <4>3. f[i - 1] \o q[i] \in Seq(Byte) BY <3>3, <4>2, ConcatProperties
      <4> QED BY <3>2, <3>5, <4>3
    <3> QED BY <3>4, <3>5
  <2>4. Len(q) \in 1 .. Len(q) BY <1>1, <1>3
  <2> QED BY <2>1, <2>3, <2>4
<1> QED BY <1>2, <1>3

\* What programs write is made of bytes and wide characters.
Char == Byte \union {"wide"}

LEMMA EncodedIsBytes ==
  ASSUME NEW i, i.eol \in DOMAIN EolBytes, NEW s \in Seq(Char)
  PROVE  Encoded(i, s) \in Seq(Byte)
<1> DEFINE piece(j) == IF IsText(i) /\ s[j] = "lf" /\ i.eol # "none" THEN EolBytes[i.eol]
                       ELSE IF s[j] = "wide" THEN Wide
                       ELSE <<s[j]>>
           q == [j \in DOMAIN s |-> piece(j)]
<1>1. Len(s) \in Nat /\ DOMAIN s = 1 .. Len(s) BY LenProperties
<1>2. Wide \in Seq(Byte)
  <2>1. Wide \in [1 .. CharBytes -> Byte] BY DEF Wide, Byte
  <2> QED BY <2>1, CharBytesAssumption, FunctionIsSeq
<1>3. EolBytes[i.eol] \in Seq(Byte)
  <2>1. <<>> \in Seq(Byte) /\ <<"lf">> \in Seq(Byte) /\ <<"cr">> \in Seq(Byte) /\ <<"cr", "lf">> \in Seq(Byte)
    BY DEF Byte, Single
  <2>2. i.eol \in {"none", "lf", "cr", "crlf"} BY DEF EolBytes
  <2>3. /\ EolBytes["none"] = <<>> /\ EolBytes["lf"] = <<"lf">>
        /\ EolBytes["cr"] = <<"cr">> /\ EolBytes["crlf"] = <<"cr", "lf">>
    BY DEF EolBytes
  <2>4. CASE i.eol = "none" BY <2>1, <2>3, <2>4
  <2>5. CASE i.eol = "lf" BY <2>1, <2>3, <2>5
  <2>6. CASE i.eol = "cr" BY <2>1, <2>3, <2>6
  <2>7. CASE i.eol = "crlf" BY <2>1, <2>3, <2>7
  <2> QED BY <2>2, <2>4, <2>5, <2>6, <2>7
<1>4. ASSUME NEW j \in 1 .. Len(s) PROVE piece(j) \in Seq(Byte)
  <2>1. s[j] \in Char BY ElementOfSeq
  <2>2. s[j] # "wide" => <<s[j]>> \in Seq(Byte) BY <2>1 DEF Char
  <2> QED BY <1>2, <1>3, <2>2
<1>5. Encoded(i, s) = FlattenSeq(q) BY Zenon DEF Encoded
<1> HIDE DEF piece
<1>6. q \in [1 .. Len(s) -> Seq(Byte)] BY <1>1, <1>4
<1>7. q \in Seq(Seq(Byte)) BY <1>1, <1>6, FunctionIsSeq
<1> QED BY <1>5, <1>7, FlattenIsBytes

-----------------------------------------------------------------------------
(* Bytes written over a file.                                               *)

OverlayLen(f, p, s) == IF s = <<>> \/ Len(f) > p + Len(s) THEN Len(f) ELSE p + Len(s)

\* g is f with s written over it from p on.
Written(g, f, p, s) ==
    /\ g \in Seq(Byte)
    /\ Len(g) = OverlayLen(f, p, s)
    /\ \A i \in 1 .. Len(g) : g[i] = IF i \in p + 1 .. p + Len(s) THEN s[i - p]
                                     ELSE IF i <= Len(f) THEN f[i] ELSE "zero"

LEMMA OverlayIs ==
  ASSUME NEW f \in Seq(Byte), NEW p \in Nat, NEW s \in Seq(Byte)
  PROVE  Written(Overlay(f, p, s), f, p, s)
<1> DEFINE n == OverlayLen(f, p, s)
           byte(i) == IF i \in p + 1 .. p + Len(s) THEN s[i - p]
                      ELSE IF i <= Len(f) THEN f[i] ELSE "zero"
           g == [i \in 1 .. n |-> byte(i)]
<1>1. n \in Nat
  BY LenProperties DEF OverlayLen
<1>2. ASSUME NEW i \in 1 .. n PROVE byte(i) \in Byte
  <2>1. "zero" \in Byte BY DEF Byte
  <2>2. CASE i \in p + 1 .. p + Len(s)
    <3>1. i - p \in 1 .. Len(s) BY <2>2, LenProperties
    <3> QED BY <3>1, <2>2, ElementOfSeq
  <2>3. CASE i \notin p + 1 .. p + Len(s) /\ i <= Len(f)
    <3>1. i \in 1 .. Len(f) BY <2>3, LenProperties
    <3> QED BY <3>1, <2>3, ElementOfSeq
  <2> QED BY <2>1, <2>2, <2>3
<1>3. Overlay(f, p, s) = g BY DEF Overlay, OverlayLen
<1> HIDE DEF n, byte
<1>4. g \in [1 .. n -> Byte] BY <1>2
<1>5. g \in Seq(Byte) /\ Len(g) = n BY <1>1, <1>4, FunctionIsSeq
<1>6. \A i \in 1 .. n : g[i] = byte(i) OBVIOUS
<1>7. Written(g, f, p, s) BY <1>5, <1>6 DEF n, byte, Written
<1> QED BY <1>3, <1>7

\* Nothing written changes nothing.
LEMMA OverlayNone ==
  ASSUME NEW f \in Seq(Byte), NEW p \in Nat
  PROVE  Overlay(f, p, <<>>) = f
<1>1. <<>> \in Seq(Byte) /\ Len(<<>>) = 0 BY EmptySeq
<1>2. OverlayLen(f, p, <<>>) = Len(f) BY DEF OverlayLen
<1>3. /\ Overlay(f, p, <<>>) \in Seq(Byte)
      /\ Len(Overlay(f, p, <<>>)) = Len(f)
      /\ \A i \in 1 .. Len(f) : Overlay(f, p, <<>>)[i] = f[i]
  <2>1. \A i \in 1 .. Len(f) : i \notin p + 1 .. p + 0 /\ i <= Len(f)
    BY LenProperties
  <2>2. Written(Overlay(f, p, <<>>), f, p, <<>>) BY <1>1, OverlayIs
  <2> QED BY <1>1, <1>2, <2>1, <2>2 DEF Written
<1> QED BY <1>3, SeqEqual

\* Two writes, one behind the other, are one.
LEMMA OverlayJoin ==
  ASSUME NEW f \in Seq(Byte), NEW p \in Nat, NEW s \in Seq(Byte), NEW t \in Seq(Byte)
  PROVE  Overlay(Overlay(f, p, s), p + Len(s), t) = Overlay(f, p, s \o t)
<1> DEFINE g == Overlay(f, p, s)
           h == Overlay(g, p + Len(s), t)
           k == Overlay(f, p, s \o t)
<1>1. /\ s \o t \in Seq(Byte) /\ Len(s \o t) = Len(s) + Len(t)
      /\ \A i \in 1 .. Len(s) + Len(t) : (s \o t)[i] = IF i <= Len(s) THEN s[i] ELSE t[i - Len(s)]
  BY ConcatProperties
<1>2. /\ Len(f) \in Nat /\ Len(s) \in Nat /\ Len(t) \in Nat
      /\ (s = <<>> <=> Len(s) = 0) /\ (t = <<>> <=> Len(t) = 0) /\ (s \o t = <<>> <=> Len(s) + Len(t) = 0)
  BY <1>1, EmptySeq, LenProperties
<1>3. Written(g, f, p, s) BY OverlayIs
<1>4. Len(g) \in Nat /\ g \in Seq(Byte) BY <1>3, LenProperties DEF Written
<1> HIDE DEF g
<1>5. Written(h, g, p + Len(s), t) BY <1>2, <1>4, OverlayIs
<1>6. Written(k, f, p, s \o t) BY <1>1, OverlayIs
<1> HIDE DEF h, k
<1> USE DEF Written
<1>7. Len(h) = Len(k) /\ Len(k) \in Nat
  BY <1>1, <1>2, <1>3, <1>5, <1>6, LenProperties DEF OverlayLen
<1>8. ASSUME NEW i \in 1 .. Len(k) PROVE h[i] = k[i]
  <2>1. CASE i <= p
    <3>1. k[i] = IF i <= Len(f) THEN f[i] ELSE "zero" BY <1>6, <1>2, <2>1
    <3>2. h[i] = IF i <= Len(g) THEN g[i] ELSE "zero" BY <1>5, <1>7, <1>2, <2>1
    <3>3. i <= Len(g) => g[i] = IF i <= Len(f) THEN f[i] ELSE "zero" BY <1>3, <1>4, <1>2, <2>1
    <3>4. i > Len(g) => i > Len(f) BY <1>3, <1>2 DEF OverlayLen
    <3> QED BY <3>1, <3>2, <3>3, <3>4, <1>2, <1>4
  <2>2. CASE p < i /\ i <= p + Len(s)
    <3>1. k[i] = s[i - p]
      <4>1. i - p \in 1 .. Len(s) + Len(t) /\ i - p <= Len(s) BY <2>2, <1>2
      <4> QED BY <4>1, <1>1, <1>2, <1>6, <2>2
    <3>2. i \in 1 .. Len(g) BY <1>2, <1>3, <2>2 DEF OverlayLen
    <3>3. h[i] = g[i] BY <3>2, <1>2, <1>4, <1>5, <1>7, <2>2
    <3>4. g[i] = s[i - p] BY <3>2, <1>2, <1>3, <2>2
    <3> QED BY <3>1, <3>3, <3>4
  <2>3. CASE p + Len(s) < i /\ i <= p + Len(s) + Len(t)
    <3>1. k[i] = t[i - p - Len(s)]
      <4>1. i - p \in 1 .. Len(s) + Len(t) /\ ~(i - p <= Len(s)) BY <2>3, <1>2
      <4> QED BY <4>1, <1>1, <1>2, <1>6, <2>3
    <3>2. h[i] = t[i - (p + Len(s))] BY <1>2, <1>5, <1>7, <2>3
    <3>3. i - (p + Len(s)) = i - p - Len(s) BY <1>2
    <3> QED BY <3>1, <3>2, <3>3
  <2>4. CASE i > p + Len(s) + Len(t)
    <3>1. k[i] = IF i <= Len(f) THEN f[i] ELSE "zero" BY <1>6, <1>2, <2>4
    <3>2. h[i] = IF i <= Len(g) THEN g[i] ELSE "zero" BY <1>5, <1>7, <1>2, <2>4
    <3>3. i <= Len(g) => g[i] = IF i <= Len(f) THEN f[i] ELSE "zero" BY <1>3, <1>4, <1>2, <2>4
    <3>4. i > Len(g) => i > Len(f) BY <1>3, <1>2 DEF OverlayLen
    <3> QED BY <3>1, <3>2, <3>3, <3>4, <1>2, <1>4
  <2> QED BY <2>1, <2>2, <2>3, <2>4, <1>2, <1>7
<1>9. h = k BY <1>5, <1>6, <1>7, <1>8, SeqEqual
<1> QED BY <1>9 DEF g, h, k

-----------------------------------------------------------------------------
(* Characters.                                                              *)

Infos ==
    [mode : {"none", "line", "block"}, codec : {"binary", "latin-1", "utf-8"}, eol : DOMAIN EolBytes,
     reads : BOOLEAN, writes : BOOLEAN, seeks : BOOLEAN]

\* B holds the positions of f between characters of UTF-8, from any of its members on.
Boundaries(f, B) ==
    /\ B \subseteq 0 .. Len(f)
    /\ \A b \in B : b < Len(f) =>
          \/ f[b + 1] \in Single /\ b + 1 \in B
          \/ b + CharBytes \in B /\ \A i \in 1 .. CharBytes : f[b + i] = Wide[i]

\* What a program finds at the position p of a file f, as FilePort says.
CharAt(f, p) ==
    LET rest == SubSeq(f, p + 1, Len(f))
        eol == EolBytes[info.eol]
    IN IF rest = <<>> THEN [chr |-> Eof, len |-> 0]
       ELSE IF IsText(info) /\ eol # <<>> /\ IsPrefix(eol, rest)
       THEN [chr |-> "lf", len |-> Len(eol)]
       ELSE IF info.codec = "utf-8" /\ IsPrefix(Wide, rest)
       THEN [chr |-> "wide", len |-> CharBytes]
       ELSE [chr |-> Head(rest), len |-> 1]

LEMMA SubIs ==
  ASSUME NEW f \in Seq(Byte), NEW p \in Nat, NEW n \in 0 .. Len(f)
  PROVE  /\ SubSeq(f, p + 1, n) \in Seq(Byte)
         /\ Len(SubSeq(f, p + 1, n)) = IF p < n THEN n - p ELSE 0
         /\ \A i \in 1 .. n - p : SubSeq(f, p + 1, n)[i] = f[p + i]
<1>1. Len(f) \in Nat BY LenProperties
<1>2. \A i \in p + 1 .. n : f[i] \in Byte BY <1>1, ElementOfSeq
<1>3. p + 1 \in Int /\ n \in Int BY <1>1
<1>4. /\ SubSeq(f, p + 1, n) \in Seq(Byte)
      /\ Len(SubSeq(f, p + 1, n)) = IF p + 1 <= n THEN n - (p + 1) + 1 ELSE 0
      /\ \A i \in 1 .. n - (p + 1) + 1 : SubSeq(f, p + 1, n)[i] = f[(p + 1) + i - 1]
  BY <1>2, <1>3, SubSeqProperties
<1>5. /\ n - (p + 1) + 1 = n - p
      /\ \A i \in Int : (p + 1) + i - 1 = p + i
      /\ p + 1 <= n <=> p < n
  BY <1>1
<1> QED BY <1>4, <1>5

LEMMA PrefixIs ==
  ASSUME NEW s \in Seq(Byte), NEW t \in Seq(Byte)
  PROVE  IsPrefix(s, t) <=> Len(s) <= Len(t) /\ \A i \in 1 .. Len(s) : s[i] = t[i]
<1>1. Len(s) \in Nat /\ Len(t) \in Nat BY LenProperties
<1>2. SubSeq(s, 1, Len(s)) = s BY SubSeqFull
<1> SUFFICES ASSUME Len(s) <= Len(t)
             PROVE  s = SubSeq(t, 1, Len(s)) <=> \A i \in 1 .. Len(s) : s[i] = t[i]
  BY <1>2 DEF IsPrefix
<1>3. /\ SubSeq(t, 1, Len(s)) \in Seq(Byte)
      /\ Len(SubSeq(t, 1, Len(s))) = Len(s)
      /\ \A i \in 1 .. Len(s) : SubSeq(t, 1, Len(s))[i] = t[i]
  <2>1. Len(s) \in 0 .. Len(t) BY <1>1
  <2>2. /\ SubSeq(t, 0 + 1, Len(s)) \in Seq(Byte)
        /\ Len(SubSeq(t, 0 + 1, Len(s))) = IF 0 < Len(s) THEN Len(s) - 0 ELSE 0
        /\ \A i \in 1 .. Len(s) - 0 : SubSeq(t, 0 + 1, Len(s))[i] = t[0 + i]
    BY <2>1, SubIs
  <2>3. 0 + 1 = 1 /\ Len(s) - 0 = Len(s) /\ (\A i \in Int : 0 + i = i) BY <1>1
  <2> QED BY <2>2, <2>3, <1>1
<1>4. (\A i \in 1 .. Len(s) : s[i] = t[i]) => s = SubSeq(t, 1, Len(s))
  BY <1>3, SeqEqual
<1> QED BY <1>3, <1>4

\* The line endings.
LEMMA Endings ==
  /\ DOMAIN EolBytes = {"none", "lf", "cr", "crlf"}
  /\ EolBytes["none"] = <<>> /\ EolBytes["lf"] = <<"lf">>
  /\ EolBytes["cr"] = <<"cr">> /\ EolBytes["crlf"] = <<"cr", "lf">>
  BY DEF EolBytes

LEMMA WideIs ==
  /\ Wide \in Seq(Byte) /\ Len(Wide) = CharBytes
  /\ Wide[1] = "lead" /\ "lead" \notin Single
<1>1. Wide \in [1 .. CharBytes -> Byte] BY DEF Wide, Byte
<1>2. Wide[1] = "lead" BY CharBytesAssumption DEF Wide
<1> QED BY <1>1, <1>2, CharBytesAssumption, FunctionIsSeq DEF Single

\* The character behind position p, byte by byte.
LEMMA CharAtIs ==
  ASSUME info \in Infos, ~IsText(info) => info.eol = "none",
         NEW f \in Seq(Byte), NEW p \in Nat
  PROVE  LET has(i) == p + i <= Len(f) IN
         CharAt(f, p) =
           IF p >= Len(f) THEN [chr |-> Eof, len |-> 0]
           ELSE IF info.eol = "lf" /\ f[p + 1] = "lf" THEN [chr |-> "lf", len |-> 1]
           ELSE IF info.eol = "cr" /\ f[p + 1] = "cr" THEN [chr |-> "lf", len |-> 1]
           ELSE IF info.eol = "crlf" /\ f[p + 1] = "cr" /\ has(2) /\ f[p + 2] = "lf"
           THEN [chr |-> "lf", len |-> 2]
           ELSE IF info.codec = "utf-8" /\ has(CharBytes) /\ \A i \in 1 .. CharBytes : f[p + i] = Wide[i]
           THEN [chr |-> "wide", len |-> CharBytes]
           ELSE [chr |-> f[p + 1], len |-> 1]
<1> DEFINE rest == SubSeq(f, p + 1, Len(f))
<1>1. Len(f) \in Nat /\ Len(f) \in 0 .. Len(f) BY LenProperties
<1>2. /\ rest \in Seq(Byte)
      /\ Len(rest) = IF p < Len(f) THEN Len(f) - p ELSE 0
      /\ \A i \in 1 .. Len(f) - p : rest[i] = f[p + i]
  BY <1>1, SubIs
<1> HIDE DEF rest
<1>3. CASE p >= Len(f)
  <2>1. rest = <<>> BY <1>1, <1>2, <1>3, EmptySeq
  <2> QED BY <1>3, <2>1 DEF CharAt, rest
<1>4. CASE p < Len(f)
  <2>1. rest # <<>> /\ rest[1] = f[p + 1] BY <1>1, <1>2, <1>4
  <2>2. Head(rest) = f[p + 1] BY <1>2, <2>1
  <2>3. IsPrefix(Wide, rest) <=> p + CharBytes <= Len(f) /\ \A i \in 1 .. CharBytes : f[p + i] = Wide[i]
    <3>1. IsPrefix(Wide, rest) <=> CharBytes <= Len(rest) /\ \A i \in 1 .. CharBytes : Wide[i] = rest[i]
      BY <1>2, WideIs, PrefixIs
    <3>2. CharBytes <= Len(rest) <=> p + CharBytes <= Len(f) BY <1>1, <1>2, <1>4, CharBytesAssumption
    <3>3. p + CharBytes <= Len(f) => \A i \in 1 .. CharBytes : rest[i] = f[p + i]
      BY <1>1, <1>2, CharBytesAssumption
    <3> QED BY <3>1, <3>2, <3>3
  <2>4. IsPrefix(<<"lf">>, rest) <=> f[p + 1] = "lf"
    <3>1. <<"lf">> \in Seq(Byte) BY DEF Byte, Single
    <3>2. IsPrefix(<<"lf">>, rest) <=> 1 <= Len(rest) /\ \A i \in 1 .. 1 : <<"lf">>[i] = rest[i]
      BY <3>1, <1>2, PrefixIs
    <3> QED BY <3>2, <2>1, <1>1, <1>2, <1>4
  <2>5. IsPrefix(<<"cr">>, rest) <=> f[p + 1] = "cr"
    <3>1. <<"cr">> \in Seq(Byte) BY DEF Byte, Single
    <3>2. IsPrefix(<<"cr">>, rest) <=> 1 <= Len(rest) /\ \A i \in 1 .. 1 : <<"cr">>[i] = rest[i]
      BY <3>1, <1>2, PrefixIs
    <3> QED BY <3>2, <2>1, <1>1, <1>2, <1>4
  <2>6. IsPrefix(<<"cr", "lf">>, rest) <=> f[p + 1] = "cr" /\ p + 2 <= Len(f) /\ f[p + 2] = "lf"
    <3>1. <<"cr", "lf">> \in Seq(Byte) BY DEF Byte, Single
    <3>2. IsPrefix(<<"cr", "lf">>, rest) <=> 2 <= Len(rest) /\ \A i \in 1 .. 2 : <<"cr", "lf">>[i] = rest[i]
      BY <3>1, <1>2, PrefixIs
    <3>3. IsPrefix(<<"cr", "lf">>, rest) <=> 2 <= Len(rest) /\ "cr" = rest[1] /\ "lf" = rest[2]
      BY <3>2
    <3>4. 2 <= Len(rest) <=> p + 2 <= Len(f) BY <1>1, <1>2, <1>4
    <3>5. p + 2 <= Len(f) => rest[2] = f[p + 2] BY <1>1, <1>2
    <3> QED BY <3>3, <3>4, <3>5, <2>1
  <2>7. info.eol \in {"none", "lf", "cr", "crlf"} BY Endings DEF Infos
  <2>8. ~(p >= Len(f)) BY <1>1, <1>4
  <2> DEFINE e == EolBytes[info.eol]
  <2>9. CharAt(f, p) = IF IsText(info) /\ e # <<>> /\ IsPrefix(e, rest)
                       THEN [chr |-> "lf", len |-> Len(e)]
                       ELSE IF info.codec = "utf-8" /\ IsPrefix(Wide, rest)
                       THEN [chr |-> "wide", len |-> CharBytes]
                       ELSE [chr |-> f[p + 1], len |-> 1]
    BY <2>1, <2>2 DEF CharAt, rest
  <2>10. CASE info.eol = "none"
    <3>1. e = <<>> BY <2>10, Endings
    <3> HIDE DEF e
    <3> QED BY <3>1, <2>3, <2>8, <2>9, <2>10
  <2>11. CASE info.eol = "lf"
    <3>1. e = <<"lf">> BY <2>11, Endings
    <3> HIDE DEF e
    <3>2. IsText(info) /\ Len(<<"lf">>) = 1 /\ <<"lf">> # <<>> BY <2>11
    <3> QED BY <3>1, <3>2, <2>3, <2>4, <2>8, <2>9, <2>11
  <2>12. CASE info.eol = "cr"
    <3>1. e = <<"cr">> BY <2>12, Endings
    <3> HIDE DEF e
    <3>2. IsText(info) /\ Len(<<"cr">>) = 1 /\ <<"cr">> # <<>> BY <2>12
    <3> QED BY <3>1, <3>2, <2>3, <2>5, <2>8, <2>9, <2>12
  <2>13. CASE info.eol = "crlf"
    <3>1. e = <<"cr", "lf">> BY <2>13, Endings
    <3> HIDE DEF e
    <3>2. IsText(info) /\ Len(<<"cr", "lf">>) = 2 /\ <<"cr", "lf">> # <<>> BY <2>13
    <3> QED BY <3>1, <3>2, <2>3, <2>6, <2>8, <2>9, <2>13
  <2> QED BY <2>7, <2>10, <2>11, <2>12, <2>13
<1> QED BY <1>1, <1>3, <1>4

\* In a text of UTF-8, the character behind a boundary ends at one.
LEMMA NextBoundary ==
  ASSUME info \in Infos, ~IsText(info) => info.eol = "none", info.codec = "utf-8",
         NEW f \in Seq(Byte), NEW B, Boundaries(f, B), NEW p \in B
  PROVE  p + CharAt(f, p).len \in B
<1>1. Len(f) \in Nat /\ p \in Nat /\ p <= Len(f)
  BY LenProperties DEF Boundaries
<1>2. CASE p >= Len(f)
  <2>1. CharAt(f, p).len = 0 BY <1>1, <1>2, CharAtIs
  <2> QED BY <1>1, <2>1
<1>3. CASE p < Len(f) /\ f[p + 1] \in Single /\ p + 1 \in B
  <2>1. f[p + 1] # Wide[1] BY <1>3, WideIs
  <2>2. 1 \in 1 .. CharBytes BY CharBytesAssumption
  <2>3. ~ \A i \in 1 .. CharBytes : f[p + i] = Wide[i] BY <2>1, <2>2
  <2>4. CASE info.eol = "crlf" /\ f[p + 1] = "cr" /\ p + 2 <= Len(f) /\ f[p + 2] = "lf"
    <3>1. CharAt(f, p).len = 2 BY <1>1, <1>3, <2>4, CharAtIs
    <3>2. p + 1 < Len(f) /\ p + 1 + 1 = p + 2 BY <1>1, <2>4
    <3>3. f[p + 1 + 1] # Wide[1] /\ p + 1 + 1 = p + 2 BY <3>2, <2>4, WideIs DEF Single
    <3>4. p + 2 \in B BY <1>3, <2>2, <3>2, <3>3 DEF Boundaries
    <3> QED BY <3>1, <3>4
  <2>5. CASE ~(info.eol = "crlf" /\ f[p + 1] = "cr" /\ p + 2 <= Len(f) /\ f[p + 2] = "lf")
    <3>1. CharAt(f, p).len = 1 BY <1>1, <1>3, <2>3, <2>5, CharAtIs
    <3> QED BY <1>3, <3>1
  <2> QED BY <2>4, <2>5
<1>4. CASE p < Len(f) /\ p + CharBytes \in B /\ \A i \in 1 .. CharBytes : f[p + i] = Wide[i]
  <2>1. f[p + 1] = "lead" BY <1>4, WideIs, CharBytesAssumption
  <2>2. p + CharBytes <= Len(f)
    <3>1. p + CharBytes \in 0 .. Len(f) BY <1>4 DEF Boundaries
    <3> QED BY <3>1, <1>1, CharBytesAssumption
  <2>3. CharAt(f, p).len = CharBytes BY <1>1, <1>4, <2>1, <2>2, CharAtIs
  <2> QED BY <1>4, <2>3
<1> QED BY <1>1, <1>2, <1>3, <1>4 DEF Boundaries

\* The decoder, when it does not ask for more or there is no more, finds the character that
\* is there, however few of the bytes behind it have been read.
LEMMA DecodesHere ==
  ASSUME info \in Infos, ~IsText(info) => info.eol = "none",
         NEW f \in Seq(Byte), NEW p \in Nat, NEW u \in Seq(Byte),
         Len(u) > 0 => p + Len(u) <= Len(f),
         \A j \in 1 .. Len(u) : u[j] = f[p + j],
         info.codec = "utf-8" => \E B \in SUBSET (0 .. Len(f)) : Boundaries(f, B) /\ p \in B,
         NEW eof \in BOOLEAN, eof => p + Len(u) >= Len(f),
         eof \/ NextChar(u, FALSE).len # 0
  PROVE  NextChar(u, eof) = CharAt(f, p)
<1> DEFINE c == Decoded(u, 0)
           after == Decoded(u, c.len)
<1>1. Len(f) \in Nat /\ Len(u) \in Nat BY LenProperties
<1>2. NextChar(u, eof) =
        IF c.len = 0 THEN IF eof THEN [chr |-> Eof, len |-> 0] ELSE More
        ELSE IF info.eol = "cr" /\ c.chr = "cr" THEN [chr |-> "lf", len |-> 1]
        ELSE IF info.eol = "crlf" /\ c.chr = "cr" /\ after.chr = "lf" THEN [chr |-> "lf", len |-> 2]
        ELSE IF info.eol = "crlf" /\ c.chr = "cr" /\ after.len = 0 /\ ~eof THEN More
        ELSE c
  BY DEF NextChar
<1>3. ~eof => c.len # 0 /\ ~(info.eol = "crlf" /\ c.chr = "cr" /\ after.chr # "lf" /\ after.len = 0)
  BY DEF NextChar, More
<1>4. CASE Len(u) = 0
  <2>1. c.len = 0 BY <1>1, <1>4 DEF Decoded, More
  <2>2. eof /\ p >= Len(f) BY <1>1, <1>3, <1>4, <2>1
  <2>3. CharAt(f, p) = [chr |-> Eof, len |-> 0] BY <1>1, <2>2, CharAtIs
  <2> QED BY <1>2, <2>1, <2>2, <2>3
<1>5. CASE Len(u) > 0
  <2>1. 1 \in 1 .. Len(u) /\ u[1] = f[p + 1] /\ p < Len(f) BY <1>1, <1>5
  <2>2. ~(0 >= Len(u)) /\ 0 + 1 = 1 /\ 0 + CharBytes = CharBytes BY <1>1, <1>5, CharBytesAssumption
  <2>3. CASE info.codec = "utf-8" /\ u[1] \notin Single
    <3>1. p + CharBytes <= Len(f) /\ \A i \in 1 .. CharBytes : f[p + i] = Wide[i]
      <4>1. PICK B \in SUBSET (0 .. Len(f)) : Boundaries(f, B) /\ p \in B BY <2>3
      <4>2. p + CharBytes \in B /\ \A i \in 1 .. CharBytes : f[p + i] = Wide[i]
        BY <2>1, <2>3, <4>1 DEF Boundaries
      <4>3. p + CharBytes \in 0 .. Len(f) BY <4>1, <4>2
      <4> QED BY <4>2, <4>3, <1>1, CharBytesAssumption
    <3>2. u[1] = "lead" BY <2>1, <3>1, WideIs, CharBytesAssumption
    <3>3. c = IF CharBytes > Len(u) THEN More ELSE [chr |-> "wide", len |-> CharBytes]
      BY <2>2, <2>3 DEF Decoded
    <3>4. CharBytes <= Len(u)
      <4>1. SUFFICES ASSUME CharBytes > Len(u) PROVE FALSE BY <1>1, CharBytesAssumption
      <4>2. c.len = 0 BY <3>3, <4>1 DEF More
      <4>3. eof BY <1>3, <4>2
      <4> QED BY <1>1, <3>1, <4>1, <4>3, CharBytesAssumption
    <3>5. c = [chr |-> "wide", len |-> CharBytes] BY <1>1, <3>3, <3>4, CharBytesAssumption
    <3>6. NextChar(u, eof) = c BY <1>2, <3>5, CharBytesAssumption
    <3>7. CharAt(f, p) = [chr |-> "wide", len |-> CharBytes]
      BY <1>1, <2>1, <2>3, <3>1, <3>2, CharAtIs
    <3> QED BY <3>5, <3>6, <3>7
  <2>4. CASE ~(info.codec = "utf-8" /\ u[1] \notin Single)
    <3>1. c = [chr |-> u[1], len |-> 1] BY <2>2, <2>4 DEF Decoded
    <3>2. ~(info.codec = "utf-8" /\ p + CharBytes <= Len(f) /\ \A i \in 1 .. CharBytes : f[p + i] = Wide[i])
      BY <2>1, <2>4, WideIs, CharBytesAssumption
    <3>3. CharAt(f, p) = IF info.eol = "lf" /\ u[1] = "lf" THEN [chr |-> "lf", len |-> 1]
                         ELSE IF info.eol = "cr" /\ u[1] = "cr" THEN [chr |-> "lf", len |-> 1]
                         ELSE IF info.eol = "crlf" /\ u[1] = "cr" /\ p + 2 <= Len(f) /\ f[p + 2] = "lf"
                         THEN [chr |-> "lf", len |-> 2]
                         ELSE [chr |-> u[1], len |-> 1]
      BY <1>1, <2>1, <3>2, CharAtIs
    <3>4. CASE ~(info.eol = "crlf" /\ u[1] = "cr")
      BY <1>2, <3>1, <3>3, <3>4
    <3>5. CASE info.eol = "crlf" /\ u[1] = "cr"
      <4>1. after = Decoded(u, 1) BY <3>1
      <4>2. after.chr = "lf" <=> Len(u) > 1 /\ u[2] = "lf"
        BY <1>1, <4>1, CharBytesAssumption DEF Decoded, More, Single
      <4>3. CASE Len(u) > 1 /\ u[2] = "lf"
        <5>1. p + 2 <= Len(f) /\ f[p + 2] = "lf" BY <1>1, <4>3
        <5> QED BY <1>2, <3>1, <3>3, <3>5, <4>2, <4>3, <5>1
      <4>4. CASE ~(Len(u) > 1 /\ u[2] = "lf")
        <5>1. ~(after.len = 0 /\ ~eof) BY <1>3, <3>1, <3>5, <4>2, <4>4
        <5>2. ~(p + 2 <= Len(f) /\ f[p + 2] = "lf")
          <6>1. SUFFICES ASSUME p + 2 <= Len(f), f[p + 2] = "lf" PROVE FALSE OBVIOUS
          <6>2. Len(u) = 1
            <7>1. Len(u) > 1 => u[2] = f[p + 2] BY <1>1
            <7>2. ~(Len(u) > 1) BY <4>4, <6>1, <7>1, Zenon
            <7>3. PICK m \in Nat : m = Len(u) BY <1>1
            <7>4. m > 0 /\ ~(m > 1) BY <1>5, <7>2, <7>3, Zenon
            <7>5. m = 1 BY <7>4
            <7> QED BY <7>3, <7>5, Zenon
          <6>3. after.len = 0 BY <4>1, <6>2 DEF Decoded, More
          <6>4. eof BY <5>1, <6>3, Zenon
          <6>5. p + Len(u) >= Len(f) BY <6>4
          <6> QED BY <1>1, <6>1, <6>2, <6>5
        <5>3. NextChar(u, eof) = c
          <6> HIDE DEF c, after
          <6> QED BY <1>2, <3>1, <3>5, <4>2, <4>4, <5>1
        <5> QED BY <3>1, <3>3, <3>5, <5>2, <5>3
      <4> QED BY <4>3, <4>4
    <3> QED BY <3>4, <3>5
  <2> QED BY <2>3, <2>4
<1> QED BY <1>1, <1>4, <1>5

-----------------------------------------------------------------------------
(* Reading ahead.                                                           *)

IsUtf8(f) == \E B \in SUBSET (0 .. Len(f)) : Boundaries(f, B) /\ 0 \in B

\* A program writes a port it reads only if it can seek in it, seeks in bytes only, reads texts that
\* are well-formed, and reads by lines only what ends in a line ending of one byte.
KindOK(i) ==
    /\ i \in Infos
    /\ i.reads /\ i.writes => i.seeks
    /\ i.seeks => ~IsText(i)
    /\ ~IsText(i) => i.eol = "none"

LinesOK(i, f) ==
    i.reads /\ i.mode = "line" /\ IsText(i) =>
        i.eol \in {"lf", "cr"} /\ (f = <<>> \/ f[Len(f)] = i.eol)

PortSound ==
    /\ Openings \subseteq Infos \X Seq(Byte)
    /\ \A o \in Openings :
          /\ KindOK(o[1]) /\ LinesOK(o[1], o[2])
          /\ o[1].reads /\ o[1].codec = "utf-8" => IsUtf8(o[2])
    /\ Puts \subseteq Seq(Char) /\ Positions \subseteq Nat

\* How many bytes have been read and not consumed.
Count == bytesRead - inputPos

StreamShapes ==
    /\ KindOK(info)
    /\ disk \in Seq(Byte) /\ devPos \in Nat
    /\ inputBuffer \in Seq(Byte) /\ outputBuffer \in Seq(Byte)
    /\ inputPos \in Nat /\ bytesRead \in Nat
    /\ inputPos <= bytesRead /\ bytesRead <= Len(inputBuffer)
    /\ op \in [do : {"idle", "get", "look"}, at : Int, line : BOOLEAN, eof : BOOLEAN]
    /\ open \in BOOLEAN

\* What is read ahead and what is buffered for output are not there at the same time.
Sides ==
    /\ ~info.reads => bytesRead = 0
    /\ ~info.writes => outputBuffer = <<>>
    /\ outputBuffer # <<>> => bytesRead = 0
    /\ op # Idle => open /\ info.reads /\ outputBuffer = <<>>

\* What is read ahead are the last bytes before the position of the device.
Ahead ==
    /\ Count <= devPos
    /\ Count > 0 => devPos <= Len(disk)
    /\ \A j \in 1 .. Count : inputBuffer[inputPos + j] = disk[devPos - Count + j]

\* A read has seen the end of the file only where it is, and a line that goes on is not at the end.
Ends ==
    /\ op.eof => devPos >= Len(disk) /\ op.at = Count
    /\ op.line => ByLine /\ devPos < Len(disk)

\* A program reads characters where they begin, and lines that end.
Texts ==
    /\ info.reads /\ info.codec = "utf-8" =>
          \E B \in SUBSET (0 .. Len(disk)) : Boundaries(disk, B) /\ devPos - Count \in B
    /\ LinesOK(info, disk)

BufferInv == StreamShapes /\ Sides /\ Ahead /\ Ends /\ Texts

LEMMA CountIs == ASSUME StreamShapes PROVE Count \in Nat /\ Len(inputBuffer) \in Nat /\ Len(disk) \in Nat
  BY LenProperties DEF StreamShapes, Count

LEMMA UnreadIs ==
  ASSUME StreamShapes
  PROVE  /\ Unread \in Seq(Byte) /\ Len(Unread) = Count
         /\ \A j \in 1 .. Count : Unread[j] = inputBuffer[inputPos + j]
<1>1. bytesRead \in 0 .. Len(inputBuffer) /\ inputPos \in Nat /\ inputBuffer \in Seq(Byte) /\ inputPos <= bytesRead
  BY CountIs DEF StreamShapes
<1>2. /\ SubSeq(inputBuffer, inputPos + 1, bytesRead) \in Seq(Byte)
      /\ Len(SubSeq(inputBuffer, inputPos + 1, bytesRead)) = IF inputPos < bytesRead THEN bytesRead - inputPos ELSE 0
      /\ \A i \in 1 .. bytesRead - inputPos : SubSeq(inputBuffer, inputPos + 1, bytesRead)[i] = inputBuffer[inputPos + i]
  BY <1>1, SubIs
<1>3. (IF inputPos < bytesRead THEN bytesRead - inputPos ELSE 0) = Count BY <1>1 DEF Count
<1> QED BY <1>2, <1>3 DEF Unread, Count

LEMMA BufferInit == ASSUME PortSound PROVE PortInit => BufferInv
<1> SUFFICES ASSUME PortInit PROVE BufferInv OBVIOUS
<1>1. PICK o \in Openings : info = o[1] /\ disk = o[2] BY DEF PortInit
<1>2. /\ devPos = 0 /\ open = TRUE /\ inputPos = 0 /\ bytesRead = 0
      /\ inputBuffer = NewBuffer(info) /\ outputBuffer = <<>> /\ op = Idle
  BY DEF PortInit
<1>3. KindOK(info) /\ disk \in Seq(Byte) /\ info \in Infos BY <1>1 DEF PortSound, KindOK
<1> DEFINE size == IF ~info.reads THEN 0
                   ELSE IF info.mode # "none" THEN BufferSize
                   ELSE IF IsText(info) THEN CharBytes ELSE 1
<1>4. size \in Nat BY CharBytesAssumption, PortsAssumption
<1>5. inputBuffer \in [1 .. size -> Byte] BY <1>2 DEF NewBuffer, Byte
<1>6. inputBuffer \in Seq(Byte) /\ Len(inputBuffer) \in Nat BY <1>4, <1>5, FunctionIsSeq
<1>7. outputBuffer \in Seq(Byte) BY <1>2, EmptySeq
<1>8. StreamShapes BY <1>2, <1>3, <1>6, <1>7 DEF StreamShapes, Idle
<1>9. Count = 0 BY <1>2 DEF Count
<1>10. Sides /\ Ahead /\ Ends BY <1>2, <1>9 DEF Sides, Ahead, Ends, Idle
<1>11. Texts
  <2>1. LinesOK(info, disk) BY <1>1 DEF PortSound
  <2>2. info.reads /\ info.codec = "utf-8" => IsUtf8(disk) BY <1>1 DEF PortSound
  <2>3. devPos - Count = 0 BY <1>2, <1>9
  <2> QED BY <2>1, <2>2, <2>3 DEF Texts, IsUtf8
<1> QED BY <1>8, <1>10, <1>11 DEF BufferInv

\* Steps that consume n of the bytes read ahead, or forget all of them.
LEMMA ConsumeIs ==
  ASSUME StreamShapes, NEW n \in Nat, n <= Count, Consume(n)
  PROVE  /\ inputPos' \in Nat /\ bytesRead' \in Nat /\ inputPos' <= bytesRead'
         /\ inputBuffer' \in Seq(Byte) /\ Len(inputBuffer') = Len(inputBuffer)
         /\ bytesRead' <= bytesRead
         /\ bytesRead' - inputPos' = Count - n
         /\ \A j \in 1 .. Count - n : inputBuffer'[inputPos' + j] = inputBuffer[inputPos + (n + j)]
<1> DEFINE size == Len(inputBuffer)
           p == inputPos + n
           d == inputBuffer'
<1>1. /\ size \in Nat /\ p \in Nat /\ p <= bytesRead /\ bytesRead <= size
      /\ bytesRead \in Nat /\ CharBytes \in Nat /\ inputPos \in Nat /\ inputBuffer \in Seq(Byte)
      /\ Count = bytesRead - inputPos
  BY CharBytesAssumption, CountIs DEF StreamShapes, Count
<1>2. CASE p >= size
  <2>1. inputPos' = 0 /\ bytesRead' = 0 /\ inputBuffer' = inputBuffer BY <1>1, <1>2 DEF Consume
  <2>2. Count - n = 0 BY <1>1, <1>2
  <2> QED BY <1>1, <2>1, <2>2
<1>3. CASE p < size /\ IsText(info) /\ size - p < CharBytes
  <2>1. /\ inputPos' = 0 /\ bytesRead' = bytesRead - p
        /\ inputBuffer' = SubSeq(inputBuffer, p + 1, size) \o SubSeq(inputBuffer, size - p + 1, size)
    <3>1. ~(p >= size) /\ IsText(info) /\ size - p < CharBytes BY <1>1, <1>3
    <3> QED BY <3>1, Zenon DEF Consume
  <2> DEFINE tail == SubSeq(inputBuffer, p + 1, size)
             rest == SubSeq(inputBuffer, size - p + 1, size)
  <2>2. size \in 0 .. Len(inputBuffer) /\ size - p \in Nat BY <1>1, <1>3
  <2>3. /\ tail \in Seq(Byte) /\ Len(tail) = size - p
        /\ \A j \in 1 .. size - p : tail[j] = inputBuffer[p + j]
    BY <1>1, <1>3, <2>2, SubIs
  <2>4. rest \in Seq(Byte) /\ Len(rest) = p
    <3>1. /\ rest \in Seq(Byte) /\ Len(rest) = IF size - p < size THEN size - (size - p) ELSE 0
      BY <1>1, <2>2, SubIs
    <3>2. (IF size - p < size THEN size - (size - p) ELSE 0) = p BY <1>1
    <3> QED BY <3>1, <3>2
  <2>5. d = tail \o rest BY <2>1
  <2> HIDE DEF tail, rest
  <2>6. /\ tail \o rest \in Seq(Byte) /\ Len(tail \o rest) = Len(tail) + Len(rest)
        /\ \A j \in 1 .. Len(tail) + Len(rest) :
              (tail \o rest)[j] = IF j <= Len(tail) THEN tail[j] ELSE rest[j - Len(tail)]
    BY <2>3, <2>4, ConcatProperties
  <2>7. d \in Seq(Byte) /\ Len(d) = size BY <1>1, <2>3, <2>4, <2>5, <2>6
  <2>8. ASSUME NEW j \in 1 .. Count - n PROVE d[inputPos' + j] = inputBuffer[inputPos + (n + j)]
    <3>1. j \in 1 .. size - p BY <1>1
    <3>2. d[j] = tail[j] BY <1>1, <2>3, <2>4, <2>5, <2>6, <3>1
    <3>3. tail[j] = inputBuffer[p + j] BY <2>3, <3>1
    <3>4. p + j = inputPos + (n + j) /\ inputPos' + j = j BY <1>1, <2>1, <3>1
    <3> QED BY <3>2, <3>3, <3>4
  <2>9. bytesRead' - inputPos' = Count - n /\ bytesRead' \in Nat /\ inputPos' \in Nat
        /\ inputPos' <= bytesRead' /\ bytesRead' <= bytesRead
    BY <1>1, <2>1
  <2> QED BY <2>7, <2>8, <2>9
<1>4. CASE p < size /\ ~(IsText(info) /\ size - p < CharBytes)
  <2>1. inputPos' = p /\ bytesRead' = bytesRead /\ inputBuffer' = inputBuffer
    <3>1. ~(p >= size) /\ ~(IsText(info) /\ size - p < CharBytes) BY <1>1, <1>4
    <3> QED BY <3>1, Zenon DEF Consume
  <2>2. \A j \in 1 .. Count - n : p + j = inputPos + (n + j) BY <1>1
  <2> QED BY <1>1, <2>1, <2>2
<1>5. p >= size \/ p < size BY <1>1
<1> QED BY <1>5, <1>2, <1>3, <1>4, Zenon

-----------------------------------------------------------------------------
(* Steps.                                                                  *)

LEMMA TextReaders ==
  ASSUME StreamShapes, Sides, info.reads, IsText(info)
  PROVE  ~info.writes /\ ~info.seeks /\ outputBuffer = <<>>
  BY DEF StreamShapes, Sides, KindOK

\* Contents and position of a port that has nothing buffered for output.
LEMMA NothingHeld ==
  ASSUME StreamShapes, outputBuffer = <<>>
  PROVE  Contents = disk /\ Position = devPos - Count
<1>1. Overlay(disk, devPos, outputBuffer) = disk BY OverlayNone DEF StreamShapes
<1>2. Len(outputBuffer) = 0 BY EmptySeq
<1>3. bytesRead \in Nat /\ inputPos \in Nat /\ devPos \in Nat BY DEF StreamShapes
<1> QED BY <1>1, <1>2, <1>3 DEF Contents, Position, Count

\* What is buffered goes to the device.
LEMMA WriteOutKeeps ==
  ASSUME BufferInv, open, WriteOut(outputBuffer), outputBuffer' = <<>> \/ (open' = FALSE /\ outputBuffer' = outputBuffer),
         UNCHANGED <<info, inputPos, bytesRead, inputBuffer>>, open' \in BOOLEAN,
         outputBuffer' = <<>> => open' = open
  PROVE  /\ disk' \in Seq(Byte) /\ devPos' \in Nat /\ outputBuffer' \in Seq(Byte)
         /\ outputBuffer = <<>> => disk' = disk /\ devPos' = devPos
         /\ outputBuffer # <<>> => Count' = 0
         /\ Ahead' /\ Texts'
         /\ Contents' = Contents /\ Position' = Position
<1>1. /\ disk \in Seq(Byte) /\ devPos \in Nat /\ outputBuffer \in Seq(Byte) /\ Len(outputBuffer) \in Nat
      /\ inputPos \in Nat /\ bytesRead \in Nat /\ inputPos <= bytesRead
  BY LenProperties DEF BufferInv, StreamShapes
<1>2. disk' = Overlay(disk, devPos, outputBuffer) /\ devPos' = devPos + Len(outputBuffer)
  BY DEF WriteOut
<1>3. disk' \in Seq(Byte)
  <2>1. Written(Overlay(disk, devPos, outputBuffer), disk, devPos, outputBuffer) BY <1>1, OverlayIs
  <2> QED BY <1>2, <2>1 DEF Written
<1>4. devPos' \in Nat BY <1>1, <1>2
<1>5. outputBuffer' \in Seq(Byte) BY <1>1, EmptySeq
<1>6. outputBuffer = <<>> => disk' = disk /\ devPos' = devPos
  BY <1>1, <1>2, OverlayNone, EmptySeq
<1>7. Count' = Count BY DEF Count
<1>8. outputBuffer # <<>> => Count = 0 /\ bytesRead = 0 BY <1>1 DEF BufferInv, Sides, Count
<1>9. Ahead'
  <2>1. CASE outputBuffer = <<>> BY <2>1, <1>6, <1>7 DEF BufferInv, Ahead
  <2>2. CASE outputBuffer # <<>>
    <3>1. Count' = 0 BY <2>2, <1>7, <1>8
    <3> QED BY <3>1, <1>4 DEF Ahead
  <2> QED BY <2>1, <2>2
<1>10. Texts'
  <2>1. CASE outputBuffer = <<>> BY <2>1, <1>6, <1>7 DEF BufferInv, Texts, LinesOK
  <2>2. CASE outputBuffer # <<>>
    <3>1. ~(info.reads /\ IsText(info)) BY <2>2, TextReaders DEF BufferInv
    <3>2. info.codec = "utf-8" => IsText(info) BY DEF IsText
    <3> QED BY <3>1, <3>2 DEF Texts, LinesOK
  <2> QED BY <2>1, <2>2
<1>11. Contents = disk' BY <1>2 DEF Contents
<1>12. Contents' = disk'
  <2>1. CASE open' = FALSE BY <2>1 DEF Contents
  <2>2. CASE outputBuffer' = <<>>
    <3>1. Overlay(disk', devPos', <<>>) = disk' BY <1>3, <1>4, OverlayNone
    <3> QED BY <3>1, <2>2 DEF Contents
  <2> QED BY <2>1, <2>2
<1>13. Position = devPos' - Count BY <1>1, <1>2 DEF Position, Count
<1>14. Position' = devPos' - Count'
  <2>1. CASE open' = FALSE BY <2>1 DEF Position, Count
  <2>2. CASE outputBuffer' = <<>>
    <3>1. Len(<<>>) = 0 BY EmptySeq
    <3> QED BY <3>1, <2>2, <1>1, <1>4 DEF Position, Count
  <2> QED BY <2>1, <2>2
<1> QED BY <1>3, <1>4, <1>5, <1>6, <1>7, <1>8, <1>9, <1>10, <1>11, <1>12, <1>13, <1>14

\* A text whose last byte is c ends in the line ending <<c>>.
LEMMA EndsInOne ==
  ASSUME NEW c \in Byte, NEW t \in Seq(Byte), Len(t) > 0, t[Len(t)] = c
  PROVE  IsSuffix(<<c>>, t)
<1>1. Len(t) \in Nat BY LenProperties
<1> DEFINE r == Reverse(t)
           q == Reverse(<<c>>)
<1>2. r \in [1 .. Len(t) -> Byte]
  <2>1. \A i \in 1 .. Len(t) : (Len(t) - i) + 1 \in 1 .. Len(t) BY <1>1
  <2>2. \A i \in 1 .. Len(t) : t[(Len(t) - i) + 1] \in Byte BY <2>1, ElementOfSeq
  <2> QED BY <2>2 DEF Reverse
<1>3. r \in Seq(Byte) /\ Len(r) = Len(t) BY <1>1, <1>2, FunctionIsSeq
<1>4. r[1] = c
  <2>1. 1 \in 1 .. Len(t) /\ (Len(t) - 1) + 1 = Len(t) BY <1>1
  <2> QED BY <2>1 DEF Reverse
<1>5. q \in [1 .. 1 -> Byte] /\ q[1] = c BY DEF Reverse
<1>6. q \in Seq(Byte) /\ Len(q) = 1 BY <1>5, FunctionIsSeq
<1> HIDE DEF r, q
<1>7. IsPrefix(q, r) <=> Len(q) <= Len(r) /\ \A i \in 1 .. Len(q) : q[i] = r[i]
  BY <1>3, <1>6, PrefixIs
<1>8. 1 <= Len(r) /\ \A i \in 1 .. 1 : q[i] = r[i] BY <1>1, <1>3, <1>4, <1>5
<1>9. IsPrefix(q, r) BY <1>6, <1>7, <1>8
<1> QED BY <1>9 DEF IsSuffix, q, r

LEMMA FillStep ==
  ASSUME BufferInv, NEW k \in Nat, Fill(k)
  PROVE  BufferInv' /\ Contents' = Contents /\ Position' = Position /\ UNCHANGED <<info, open, result>>
<1> DEFINE size == Len(inputBuffer)
           chunk == SubSeq(disk, devPos + 1, devPos + k)
           more == ByLine /\ LineEnds(chunk) = {}
           longer == size + (IF k > 0 /\ more THEN BufferSize ELSE 0)
           byte(n) == IF n \in bytesRead + 1 .. bytesRead + k THEN chunk[n - bytesRead]
                      ELSE IF n <= size THEN inputBuffer[n] ELSE "zero"
           new == inputBuffer'
<1>1. /\ disk \in Seq(Byte) /\ devPos \in Nat /\ inputBuffer \in Seq(Byte) /\ Len(disk) \in Nat
      /\ inputPos \in Nat /\ bytesRead \in Nat /\ inputPos <= bytesRead /\ size \in Nat /\ bytesRead <= size
      /\ Count = bytesRead - inputPos /\ Count \in Nat
  BY CountIs DEF BufferInv, StreamShapes, Count
<1>2. /\ new = [n \in 1 .. longer |-> byte(n)]
      /\ bytesRead' = bytesRead + k /\ inputPos' = inputPos /\ devPos' = devPos + k
      /\ UNCHANGED <<info, disk, open, outputBuffer, result>>
  BY DEF Fill
<1>3. op' = [op EXCEPT !.eof = k = 0, !.line = k > 0 /\ more, !.at = IF op.line THEN @ ELSE Len(Unread)]
  BY DEF Fill
<1>4. op # Idle /\ ~op.eof /\ open /\ info.reads /\ outputBuffer = <<>>
  BY DEF Fill, Wants, BufferInv, Sides
<1>5. op \in [do : {"idle", "get", "look"}, at : Int, line : BOOLEAN, eof : BOOLEAN]
  BY DEF BufferInv, StreamShapes
<1>6. op.line => ByLine /\ devPos < Len(disk) BY DEF BufferInv, Ends
<1>7. bytesRead + k <= size
  <2>1. k <= Asked /\ (op.line \/ bytesRead < size) BY DEF Fill, Fits
  <2>2. op.line => info.mode # "none" BY <1>6 DEF ByLine
  <2> QED BY <2>1, <2>2, <1>1 DEF Asked
<1>8. IF k = 0 THEN devPos >= Len(disk) ELSE devPos + k <= Len(disk)
  BY DEF Fill
<1>9. k > 0 => /\ chunk \in Seq(Byte) /\ Len(chunk) = k
               /\ \A i \in 1 .. k : chunk[i] = disk[devPos + i]
  <2> SUFFICES ASSUME k > 0
               PROVE  /\ chunk \in Seq(Byte) /\ Len(chunk) = k
                      /\ \A i \in 1 .. k : chunk[i] = disk[devPos + i]
    OBVIOUS
  <2>1. devPos + k \in 0 .. Len(disk) BY <1>1, <1>8
  <2>2. /\ chunk \in Seq(Byte)
        /\ Len(chunk) = IF devPos < devPos + k THEN devPos + k - devPos ELSE 0
        /\ \A i \in 1 .. devPos + k - devPos : chunk[i] = disk[devPos + i]
    BY <1>1, <2>1, SubIs
  <2>3. devPos + k - devPos = k /\ devPos < devPos + k BY <1>1
  <2> QED BY <2>2, <2>3
<1>10. longer \in Nat /\ longer >= size BY <1>1, PortsAssumption
<1>11. \A n \in 1 .. longer : byte(n) \in Byte
  <2> SUFFICES ASSUME NEW n \in 1 .. longer PROVE byte(n) \in Byte OBVIOUS
  <2> HIDE DEF longer, chunk
  <2>1. CASE n \in bytesRead + 1 .. bytesRead + k
    <3>1. n - bytesRead \in 1 .. k /\ k > 0 BY <1>1, <2>1
    <3>2. chunk[n - bytesRead] \in Byte BY <1>9, <3>1, ElementOfSeq
    <3> QED BY <2>1, <3>2
  <2>2. CASE n \notin bytesRead + 1 .. bytesRead + k /\ n <= size
    <3>1. n \in 1 .. size BY <1>1, <1>10, <2>2
    <3> QED BY <1>1, <2>2, <3>1, ElementOfSeq
  <2>3. "zero" \in Byte BY DEF Byte
  <2> QED BY <2>1, <2>2, <2>3
<1>12. new \in Seq(Byte) /\ Len(new) = longer
  <2>1. new \in [1 .. longer -> Byte] BY <1>2, <1>11
  <2> HIDE DEF longer, new
  <2> QED BY <2>1, <1>10, FunctionIsSeq
<1>13. \A n \in 1 .. longer : new[n] = byte(n) BY <1>2
<1>22. ASSUME NEW n, n \in bytesRead + 1 .. bytesRead + k PROVE byte(n) = chunk[n - bytesRead]
  BY <1>22, Zenon
<1> HIDE DEF longer, byte, new
<1>14. Count' = Count + k BY <1>1, <1>2 DEF Count
<1>15. StreamShapes'
  <2>1. Len(Unread) \in Int BY <1>1, UnreadIs DEF BufferInv
  <2>2. op' \in [do : {"idle", "get", "look"}, at : Int, line : BOOLEAN, eof : BOOLEAN]
    BY <1>3, <1>5, <2>1
  <2>3. inputBuffer' \in Seq(Byte) /\ bytesRead' <= Len(inputBuffer') BY <1>1, <1>2, <1>7, <1>10, <1>12 DEF new
  <2> QED BY <2>2, <2>3, <1>1, <1>2 DEF BufferInv, StreamShapes
<1>16. Sides' BY <1>2, <1>4 DEF BufferInv, Sides
<1>17. Ahead'
  <2>1. Count' <= devPos' BY <1>1, <1>2, <1>14 DEF BufferInv, Ahead
  <2>2. Count' > 0 => devPos' <= Len(disk')
    <3>1. CASE k = 0 BY <1>1, <1>2, <1>14, <3>1 DEF BufferInv, Ahead
    <3>2. CASE k # 0 BY <1>1, <1>2, <1>8, <3>2
    <3> QED BY <3>1, <3>2
  <2>3. ASSUME NEW j \in 1 .. Count' PROVE new[inputPos' + j] = disk'[devPos' - Count' + j]
    <3>1. inputPos' + j = inputPos + j /\ inputPos + j \in 1 .. longer
      BY <1>1, <1>2, <1>7, <1>10, <1>14
    <3>2. devPos' - Count' + j = devPos - Count + j BY <1>1, <1>2, <1>14
    <3>3. new[inputPos + j] = byte(inputPos + j) BY <1>13, <3>1
    <3>4. CASE j <= Count
      <4>1. inputPos + j \notin bytesRead + 1 .. bytesRead + k /\ inputPos + j <= size
        BY <1>1, <1>14, <3>4
      <4>2. byte(inputPos + j) = inputBuffer[inputPos + j] BY <4>1 DEF byte
      <4>3. inputBuffer[inputPos + j] = disk[devPos - Count + j]
        <5>1. j \in 1 .. Count BY <1>1, <1>14, <3>4
        <5> QED BY <5>1 DEF BufferInv, Ahead
      <4> QED BY <1>2, <3>1, <3>2, <3>3, <4>2, <4>3
    <3>5. CASE j > Count
      <4>1. inputPos + j \in bytesRead + 1 .. bytesRead + k BY <1>1, <1>14, <3>5
      <4>2. byte(inputPos + j) = chunk[(inputPos + j) - bytesRead] BY <4>1, <1>22
      <4>3. (inputPos + j) - bytesRead \in 1 .. k /\ k > 0 BY <1>1, <4>1
      <4>4. chunk[(inputPos + j) - bytesRead] = disk[devPos + ((inputPos + j) - bytesRead)]
        BY <1>9, <4>3
      <4>5. devPos + ((inputPos + j) - bytesRead) = devPos - Count + j BY <1>1, <1>14
      <4> QED BY <1>2, <3>1, <3>2, <3>3, <4>2, <4>4, <4>5
    <3> QED BY <1>1, <1>14, <3>4, <3>5
  <2> QED BY <2>1, <2>2, <2>3 DEF Ahead, new
<1>18. Ends'
  <2>1. op'.eof => devPos' >= Len(disk') /\ op'.at = Count'
    <3> SUFFICES ASSUME op'.eof PROVE devPos' >= Len(disk') /\ op'.at = Count' OBVIOUS
    <3>1. k = 0 BY <1>3, <1>5
    <3>2. devPos >= Len(disk) BY <1>8, <3>1
    <3>3. ~op.line BY <1>1, <1>6, <3>2
    <3>4. op'.at = Len(Unread) BY <1>3, <1>5, <3>3
    <3>5. Len(Unread) = Count BY UnreadIs DEF BufferInv
    <3> QED BY <1>1, <1>2, <1>14, <3>1, <3>2, <3>4, <3>5
  <2>2. op'.line => ByLine' /\ devPos' < Len(disk')
    <3> SUFFICES ASSUME op'.line PROVE ByLine' /\ devPos' < Len(disk') OBVIOUS
    <3>1. k > 0 /\ more BY <1>3, <1>5
    <3>2. ByLine /\ ByLine' BY <1>2, <3>1 DEF ByLine
    <3>3. devPos + k <= Len(disk) BY <1>8, <3>1
    <3>4. devPos + k # Len(disk)
      <4> SUFFICES ASSUME devPos + k = Len(disk) PROVE FALSE OBVIOUS
      <4>1. disk # <<>> BY <1>1, <3>1, EmptySeq
      <4>2. info.eol \in {"lf", "cr"} /\ disk[Len(disk)] = info.eol
        BY <1>4, <3>2, <4>1 DEF BufferInv, Texts, LinesOK, ByLine
      <4>3. EolBytes[info.eol] = <<info.eol>> /\ <<info.eol>> # <<>> /\ info.eol \in Byte
        BY <4>2, Endings DEF Byte, Single
      <4>4. chunk[k] = info.eol BY <1>9, <3>1, <4>2
      <4>5. SubSeq(chunk, 1, k) = chunk BY <1>9, <3>1, SubSeqFull
      <4>6. chunk \in Seq(Byte) /\ Len(chunk) = k BY <1>9, <3>1
      <4> HIDE DEF chunk
      <4>7. IsSuffix(<<info.eol>>, chunk) BY <3>1, <4>3, <4>4, <4>6, EndsInOne
      <4>8. k \in LineEnds(chunk)
        <5>1. k \in 1 .. Len(chunk) BY <3>1, <4>6
        <5>2. EolBytes[info.eol] # <<>> /\ IsSuffix(EolBytes[info.eol], SubSeq(chunk, 1, k))
          BY <4>3, <4>5, <4>7, Zenon
        <5> QED BY <5>1, <5>2, Zenon DEF LineEnds
      <4> QED BY <3>1, <4>8
    <3> QED BY <1>1, <1>2, <3>2, <3>3, <3>4
  <2> QED BY <2>1, <2>2 DEF Ends
<1>19. Texts'
  <2>1. devPos' - Count' = devPos - Count BY <1>1, <1>2, <1>14
  <2> QED BY <2>1, <1>2 DEF BufferInv, Texts
<1>20. Contents' = Contents
  <2>1. Contents = disk BY <1>4, NothingHeld DEF BufferInv
  <2>2. Overlay(disk, devPos', outputBuffer') = disk
    <3>1. devPos' \in Nat BY <1>1, <1>2
    <3> QED BY <3>1, <1>1, <1>2, <1>4, OverlayNone
  <2> QED BY <2>1, <2>2, <1>2, <1>4 DEF Contents
<1>21. Position' = Position
  <2>1. Len(outputBuffer) = 0 BY <1>4, EmptySeq
  <2> QED BY <2>1, <1>1, <1>2, <1>4 DEF Position
<1> QED BY <1>2, <1>15, <1>16, <1>17, <1>18, <1>19, <1>20, <1>21 DEF BufferInv

\* FilePort reads and writes bytes as Ports does.
LEMMA SameReading ==
  /\ F!EolBytes = EolBytes /\ F!Wide = Wide
  /\ \A i : F!IsText(i) = IsText(i)
  /\ \A s, t : F!IsPrefix(s, t) = IsPrefix(s, t)
<1>1. F!EolBytes = EolBytes BY DEF F!EolBytes, EolBytes
<1>2. F!Wide = Wide BY DEF F!Wide, Wide
<1>3. ASSUME NEW i PROVE F!IsText(i) = IsText(i) BY DEF F!IsText, IsText
<1>4. ASSUME NEW s, NEW t PROVE F!IsPrefix(s, t) = IsPrefix(s, t) BY DEF F!IsPrefix, IsPrefix
<1> QED BY <1>1, <1>2, <1>3, <1>4

LEMMA SameWriting ==
  /\ \A f, p, s : F!Overlay(f, p, s) = Overlay(f, p, s)
  /\ \A i, s : F!Encoded(i, s) = Encoded(i, s)
<1>1. ASSUME NEW f, NEW p, NEW s PROVE F!Overlay(f, p, s) = Overlay(f, p, s)
  BY Zenon DEF F!Overlay, Overlay
<1>2. ASSUME NEW q PROVE F!FlattenSeq(q) = FlattenSeq(q)
  BY Zenon DEF F!FlattenSeq, FlattenSeq
<1>3. ASSUME NEW i, NEW s PROVE F!Encoded(i, s) = Encoded(i, s)
  <2>1. F!IsText(i) = IsText(i) /\ F!EolBytes = EolBytes /\ F!Wide = Wide BY SameReading
  <2> QED BY <1>2, <2>1, Zenon DEF F!Encoded, Encoded
<1> QED BY <1>1, <1>3

\* What FilePort finds at the position of the port is what is there in its file.
LEMMA HereIs == F!Here = CharAt(Contents, Position)
<1> DEFINE rest == SubSeq(Contents, Position + 1, Len(Contents))
           eol == EolBytes[info.eol]
<1>1. /\ F!IsText(info) = IsText(info) /\ F!EolBytes = EolBytes /\ F!Wide = Wide
      /\ F!IsPrefix(eol, rest) = IsPrefix(eol, rest) /\ F!IsPrefix(Wide, rest) = IsPrefix(Wide, rest)
  BY SameReading
<1> QED BY <1>1, Zenon DEF F!Here, CharAt

\* The decoder never finds more than there is.
LEMMA NextCharFits ==
  ASSUME NEW s, Len(s) \in Nat, NEW eof
  PROVE  NextChar(s, eof).len \in 0 .. Len(s)
<1>1. Decoded(s, 0).len \in 0 .. Len(s)
  BY CharBytesAssumption DEF Decoded, More
<1>2. Decoded(s, 0).len > 0 => Len(s) >= 1
  BY <1>1
<1>3. Decoded(s, 0).chr = "cr" => Decoded(s, 0).len = 1
  BY DEF Decoded, More
<1>4. Decoded(s, 1).chr = "lf" => Len(s) >= 2
  BY DEF Decoded, More
<1> QED BY <1>1, <1>2, <1>3, <1>4 DEF NextChar, More

LEMMA EndReadStep ==
  ASSUME BufferInv, EndRead
  PROVE  BufferInv' /\ UNCHANGED <<info, open>> /\ Contents' = Contents
         /\ F!Read(op.do = "get")
<1> DEFINE p == devPos - Count
           c == CharAt(disk, p)
<1>1. /\ disk \in Seq(Byte) /\ devPos \in Nat /\ inputBuffer \in Seq(Byte) /\ Len(disk) \in Nat
      /\ Len(inputBuffer) \in Nat
      /\ inputPos \in Nat /\ bytesRead \in Nat /\ inputPos <= bytesRead /\ bytesRead <= Len(inputBuffer)
      /\ Count = bytesRead - inputPos /\ Count \in Nat /\ p \in Nat
      /\ info \in Infos /\ (~IsText(info) => info.eol = "none")
  BY CountIs DEF BufferInv, StreamShapes, Count, Ahead, KindOK
<1>2. /\ op # Idle /\ op' = Idle /\ open /\ info.reads /\ outputBuffer = <<>>
      /\ UNCHANGED <<info, disk, devPos, open, outputBuffer>>
  BY DEF EndRead, BufferInv, Sides
<1>3. op \in [do : {"idle", "get", "look"}, at : Int, line : BOOLEAN, eof : BOOLEAN]
  BY DEF BufferInv, StreamShapes
<1>4. /\ Unread \in Seq(Byte) /\ Len(Unread) = Count
      /\ \A j \in 1 .. Count : Unread[j] = inputBuffer[inputPos + j]
  BY UnreadIs DEF BufferInv
<1>5. op.eof => devPos >= Len(disk) /\ op.at = Count BY DEF BufferInv, Ends
<1>6. op.eof \/ NextChar(Unread, FALSE).len # 0 BY <1>2 DEF EndRead, Wants
<1>7. info.codec = "utf-8" => \E B \in SUBSET (0 .. Len(disk)) : Boundaries(disk, B) /\ p \in B
  BY <1>2 DEF BufferInv, Texts
<1> HIDE DEF p
<1>8. NextChar(Unread, op.eof) = CharAt(disk, p)
  <2>1. Len(Unread) > 0 => p + Len(Unread) <= Len(disk) BY <1>1, <1>4 DEF BufferInv, Ahead, p
  <2>2. \A j \in 1 .. Len(Unread) : Unread[j] = disk[p + j] BY <1>1, <1>4 DEF BufferInv, Ahead, p
  <2>3. op.eof \in BOOLEAN /\ (op.eof => p + Len(Unread) >= Len(disk)) BY <1>1, <1>3, <1>4, <1>5 DEF p
  <2> DEFINE u == Unread
             e == op.eof
  <2>4. /\ u \in Seq(Byte) /\ e \in BOOLEAN
        /\ Len(u) > 0 => p + Len(u) <= Len(disk)
        /\ \A j \in 1 .. Len(u) : u[j] = disk[p + j]
        /\ e => p + Len(u) >= Len(disk)
        /\ e \/ NextChar(u, FALSE).len # 0
    BY <1>4, <1>6, <2>1, <2>2, <2>3
  <2> HIDE DEF u, e
  <2>5. NextChar(u, e) = CharAt(disk, p)
    <3>1. disk \in Seq(Byte) /\ p \in Nat /\ info \in Infos /\ (~IsText(info) => info.eol = "none") BY ONLY <1>1
    <3>2. /\ Len(u) > 0 => p + Len(u) <= Len(disk)
          /\ \A j \in 1 .. Len(u) : u[j] = disk[p + j]
          /\ e => p + Len(u) >= Len(disk)
          /\ e \/ NextChar(u, FALSE).len # 0
          /\ u \in Seq(Byte) /\ e \in BOOLEAN
      BY ONLY <2>4
    <3> QED BY ONLY <3>1, <3>2, <1>7, DecodesHere
  <2> QED BY <2>5 DEF u, e
<1>9. (IF op.eof THEN SubSeq(Unread, 1, op.at) ELSE Unread) = Unread
  BY <1>4, <1>5, SubSeqFull
<1>10. /\ result' = c.chr
       /\ IF op.do = "get" /\ c.chr # Eof THEN Consume(c.len)
          ELSE UNCHANGED <<inputPos, bytesRead, inputBuffer>>
  BY <1>8, <1>9 DEF EndRead
<1>11. c.chr = Eof => c.len = 0
  <2>1. p < Len(disk) => disk[p + 1] # Eof
    <3>1. p < Len(disk) => p + 1 \in 1 .. Len(disk) BY <1>1
    <3> QED BY <1>1, <3>1, ElementOfSeq, PortsAssumption
  <2>2. Eof # "lf" /\ Eof # "wide" BY PortsAssumption DEF Byte, Single
  <2> QED BY <1>1, <2>1, <2>2, CharAtIs
<1>12. c.len \in Nat /\ c.len <= Count
  <2>1. NextChar(Unread, op.eof).len \in 0 .. Len(Unread) BY <1>1, <1>4, NextCharFits
  <2> QED BY <1>1, <1>4, <1>8, <2>1
<1> DEFINE n == IF op.do = "get" THEN c.len ELSE 0
<1>13. n \in Nat /\ n <= Count BY <1>1, <1>12
<1>14. info.codec = "utf-8" => \E B \in SUBSET (0 .. Len(disk)) : Boundaries(disk, B) /\ p + n \in B
  <2> SUFFICES ASSUME info.codec = "utf-8"
               PROVE  \E B \in SUBSET (0 .. Len(disk)) : Boundaries(disk, B) /\ p + n \in B
    OBVIOUS
  <2>1. PICK B \in SUBSET (0 .. Len(disk)) : Boundaries(disk, B) /\ p \in B BY <1>7
  <2>2. p + c.len \in B BY <1>1, <2>1, NextBoundary
  <2>3. p + 0 \in B BY <1>1, <2>1
  <2> QED BY <2>1, <2>2, <2>3
<1>15. /\ inputPos' \in Nat /\ bytesRead' \in Nat /\ inputPos' <= bytesRead'
       /\ inputBuffer' \in Seq(Byte) /\ bytesRead' <= Len(inputBuffer')
       /\ bytesRead' <= bytesRead
       /\ bytesRead' - inputPos' = Count - n
       /\ \A j \in 1 .. Count - n : inputBuffer'[inputPos' + j] = inputBuffer[inputPos + (n + j)]
  <2>1. CASE op.do = "get" /\ c.chr # Eof
    <3>1. n = c.len BY <2>1
    <3>2. Consume(n) BY <1>10, <2>1, <3>1
    <3> HIDE DEF n, c
    <3>3. StreamShapes BY DEF BufferInv
    <3>4. /\ inputPos' \in Nat /\ bytesRead' \in Nat /\ inputPos' <= bytesRead'
          /\ inputBuffer' \in Seq(Byte) /\ Len(inputBuffer') = Len(inputBuffer)
          /\ bytesRead' <= bytesRead
          /\ bytesRead' - inputPos' = Count - n
          /\ \A j \in 1 .. Count - n : inputBuffer'[inputPos' + j] = inputBuffer[inputPos + (n + j)]
      BY <1>13, <3>2, <3>3, ConsumeIs
    <3>5. bytesRead' <= Len(inputBuffer') BY <1>1, <3>4
    <3> QED BY <3>4, <3>5
  <2>2. CASE ~(op.do = "get" /\ c.chr # Eof)
    <3>1. inputPos' = inputPos /\ bytesRead' = bytesRead /\ inputBuffer' = inputBuffer BY <1>10, <2>2
    <3>2. n = 0 BY <1>11, <2>2
    <3>3. \A j \in Int : 0 + j = j OBVIOUS
    <3> HIDE DEF n, c
    <3> QED BY <1>1, <3>1, <3>2, <3>3
  <2> QED BY <2>1, <2>2
<1> HIDE DEF n
<1>16. Count' = Count - n BY <1>15 DEF Count
<1>17. devPos' - Count' = p + n BY <1>1, <1>2, <1>13, <1>16 DEF p
<1>18. StreamShapes' BY <1>1, <1>2, <1>15 DEF BufferInv, StreamShapes, Idle
<1>19. Sides'
  <2>1. ~info.reads => bytesRead' = 0 BY <1>2
  <2> QED BY <2>1, <1>2 DEF BufferInv, Sides
<1>20. Ahead'
  <2>1. Count' <= devPos' BY <1>1, <1>2, <1>13, <1>16 DEF BufferInv, Ahead
  <2>2. Count' > 0 => devPos' <= Len(disk') BY <1>1, <1>2, <1>13, <1>16 DEF BufferInv, Ahead
  <2> DEFINE new == inputBuffer'
  <2>3. ASSUME NEW j \in 1 .. Count' PROVE new[inputPos' + j] = disk'[devPos' - Count' + j]
    <3>1. j \in 1 .. Count - n /\ n + j \in 1 .. Count BY <1>1, <1>13, <1>16
    <3>2. new[inputPos' + j] = inputBuffer[inputPos + (n + j)] BY <1>15, <3>1
    <3>3. inputBuffer[inputPos + (n + j)] = disk[devPos - Count + (n + j)] BY <3>1 DEF BufferInv, Ahead
    <3>4. devPos - Count + (n + j) = devPos' - Count' + j BY <1>1, <1>2, <1>13, <1>16, <3>1
    <3> QED BY <1>2, <3>2, <3>3, <3>4
  <2> QED BY <2>1, <2>2, <2>3 DEF Ahead
<1>21. Ends' BY <1>2 DEF Ends, Idle
<1>22. Texts'
  <2>1. LinesOK(info', disk') BY <1>2 DEF BufferInv, Texts
  <2> QED BY <2>1, <1>2, <1>14, <1>17 DEF Texts
<1>23. Contents = disk /\ Position = p BY <1>2, NothingHeld DEF BufferInv, p
<1>24. Contents' = disk
  <2>1. Overlay(disk, devPos, outputBuffer) = disk BY <1>1, <1>2, OverlayNone
  <2> QED BY <2>1, <1>2 DEF Contents
<1>25. Position' = p + n
  <2>1. Len(outputBuffer) = 0 BY <1>2, EmptySeq
  <2> QED BY <2>1, <1>1, <1>2, <1>15, <1>16, <1>17 DEF Position, Count
<1>26. F!Here = c BY <1>23, HereIs, Zenon
<1>27. F!Read(op.do = "get")
  <2>1. result' = F!Here.chr BY <1>10, <1>26
  <2>2. Position' = IF op.do = "get" THEN Position + F!Here.len ELSE Position
    <3>1. p + 0 = p BY <1>1
    <3> QED BY <3>1, <1>23, <1>25, <1>26 DEF n
  <2> QED BY <2>1, <2>2, <1>2, <1>23, <1>24 DEF F!Read
<1> QED BY <1>2, <1>18, <1>19, <1>20, <1>21, <1>22, <1>23, <1>24, <1>27 DEF BufferInv

LEMMA Most ==
  ASSUME NEW n \in Nat, NEW S, S \subseteq 1 .. n, S # {}
  PROVE  Max(S) \in 1 .. n
<1> DEFINE T == {i \in 0 .. n : n - i \in S}
<1>1. T \subseteq Nat /\ T # {}
  <2>1. PICK x \in S : TRUE OBVIOUS
  <2>2. n - x \in 0 .. n /\ n - (n - x) = x BY <2>1
  <2>3. n - x \in T BY <2>1, <2>2
  <2>4. T \subseteq Nat OBVIOUS
  <2> QED BY <2>3, <2>4, Zenon
<1>2. PICK m \in T : \A i \in T : m <= i BY <1>1, Least
<1>3. n - m \in S BY <1>2
<1>4. ASSUME NEW y \in S PROVE n - m >= y
  <2>1. y \in 1 .. n BY <1>4
  <2>2. n - y \in 0 .. n /\ n - (n - y) = y BY <2>1
  <2>3. n - y \in T BY <1>4, <2>2
  <2>4. m <= n - y /\ m \in 0 .. n BY <1>2, <2>3
  <2> QED BY <2>1, <2>4
<1>5. \E x \in S : \A y \in S : x >= y BY <1>3, <1>4
<1>6. Max(S) \in S BY <1>5, Zenon DEF Max
<1> QED BY <1>6

\* What stays in the buffer is some of what was in it or was added.
LEMMA HeldBounds ==
  ASSUME info \in Infos, NEW total \in Nat, NEW bytes \in Seq(Byte), Len(bytes) <= total
  PROVE  Held(total, bytes) \in 0 .. total
<1>1. Len(bytes) \in Nat BY LenProperties
<1>2. total % BufferSize \in 0 .. total
  <2>1. BufferSize \in Nat /\ BufferSize > 0 BY PortsAssumption, CharBytesAssumption
  <2>2. PICK b \in Nat : b = BufferSize BY <2>1
  <2>3. b > 0 BY <2>1, <2>2
  <2>4. total % b \in 0 .. b - 1 BY <2>3
  <2>5. total < b => total % b = total BY <2>3
  <2>6. total % b \in 0 .. total BY <2>3, <2>4, <2>5
  <2> QED BY <2>2, <2>6
<1>3. LineEnds(bytes) # {} => Len(bytes) - Max(LineEnds(bytes)) \in 0 .. total
  <2> SUFFICES ASSUME LineEnds(bytes) # {} PROVE Len(bytes) - Max(LineEnds(bytes)) \in 0 .. total OBVIOUS
  <2>1. LineEnds(bytes) \subseteq 1 .. Len(bytes) BY DEF LineEnds
  <2>2. Max(LineEnds(bytes)) \in 1 .. Len(bytes) BY <1>1, <2>1, Most
  <2>3. PICK m \in 1 .. Len(bytes) : m = Max(LineEnds(bytes)) BY <2>2
  <2>4. Len(bytes) - m \in 0 .. total BY <1>1, <2>3
  <2> QED BY <2>3, <2>4
<1>4. total \in 0 .. total /\ 0 \in 0 .. total OBVIOUS
<1> QED BY <1>2, <1>3, <1>4, Zenon DEF Held

LEMMA PutStep ==
  ASSUME PortSound, BufferInv, NEW s \in Puts, Put(s)
  PROVE  BufferInv' /\ F!Put(s)
<1> DEFINE bytes == Encoded(info, s)
           all == outputBuffer \o bytes
           out == Len(all) - Held(Len(all), bytes)
           start == devPos - Count
           first == SubSeq(all, 1, out)
           second == SubSeq(all, out + 1, Len(all))
<1>1. /\ disk \in Seq(Byte) /\ devPos \in Nat /\ outputBuffer \in Seq(Byte) /\ Len(outputBuffer) \in Nat
      /\ inputPos \in Nat /\ bytesRead \in Nat /\ inputPos <= bytesRead
      /\ Count = bytesRead - inputPos /\ Count \in Nat /\ start \in Nat
      /\ info \in Infos
  BY CountIs, LenProperties DEF BufferInv, StreamShapes, Count, Ahead, KindOK
<1>2. /\ op = Idle /\ open /\ info.writes /\ UNCHANGED <<info, open, inputBuffer, op, result>>
  BY DEF Put
<1>3. inputPos' = 0 /\ bytesRead' = 0
  <2>1. info.seeks \/ ~info.reads BY <1>2 DEF BufferInv, StreamShapes, KindOK
  <2>2. info.seeks /\ bytesRead > 0 => inputPos' = 0 /\ bytesRead' = 0 BY DEF Put
  <2>3. ~(info.seeks /\ bytesRead > 0) => inputPos' = inputPos /\ bytesRead' = bytesRead BY DEF Put
  <2>4. ~info.reads => bytesRead = 0 BY DEF BufferInv, Sides
  <2> QED BY <1>1, <2>1, <2>2, <2>3, <2>4
<1>4. (IF info.seeks /\ bytesRead > 0 THEN devPos - (bytesRead - inputPos) ELSE devPos) = start
  <2>1. info.seeks \/ ~info.reads BY <1>2 DEF BufferInv, StreamShapes, KindOK
  <2>2. ~info.reads => bytesRead = 0 BY DEF BufferInv, Sides
  <2> QED BY <1>1, <2>1, <2>2
<1>5. /\ disk' = Overlay(disk, start, first) /\ devPos' = start + out /\ outputBuffer' = second
  BY <1>4, Zenon DEF Put
<1>6. bytes \in Seq(Byte)
  <2>1. info.eol \in DOMAIN EolBytes BY <1>1 DEF Infos
  <2>2. s \in Seq(Char) BY DEF PortSound
  <2> QED BY <2>1, <2>2, EncodedIsBytes
<1>7. all \in Seq(Byte) /\ Len(all) = Len(outputBuffer) + Len(bytes) /\ Len(bytes) \in Nat
  <2> HIDE DEF bytes
  <2> QED BY <1>1, <1>6, ConcatProperties, LenProperties
<1> HIDE DEF all, bytes, start
<1>8. out \in 0 .. Len(all) /\ Len(all) \in Nat
  <2>1. Len(all) \in Nat /\ Len(bytes) <= Len(all) BY <1>1, <1>7
  <2>2. Held(Len(all), bytes) \in 0 .. Len(all) BY <1>1, <1>6, <2>1, HeldBounds
  <2>3. PICK h \in 0 .. Len(all) : h = Held(Len(all), bytes) BY <2>2
  <2>4. Len(all) - h \in 0 .. Len(all) BY <2>1, <2>3
  <2> QED BY <2>1, <2>3, <2>4
<1> HIDE DEF out
<1>9. /\ first \in Seq(Byte) /\ Len(first) = out
      /\ \A i \in 1 .. out : first[i] = all[i]
  <2>1. /\ SubSeq(all, 0 + 1, out) \in Seq(Byte)
        /\ Len(SubSeq(all, 0 + 1, out)) = IF 0 < out THEN out - 0 ELSE 0
        /\ \A i \in 1 .. out - 0 : SubSeq(all, 0 + 1, out)[i] = all[0 + i]
    BY <1>7, <1>8, SubIs
  <2>2. 0 + 1 = 1 /\ out - 0 = out /\ (\A i \in Int : 0 + i = i) /\ (IF 0 < out THEN out - 0 ELSE 0) = out
    BY <1>8
  <2> QED BY <2>1, <2>2
<1>10. /\ second \in Seq(Byte) /\ Len(second) = Len(all) - out
       /\ \A i \in 1 .. Len(all) - out : second[i] = all[out + i]
  <2>1. Len(all) \in 0 .. Len(all) /\ out \in Nat BY <1>8
  <2>2. /\ second \in Seq(Byte) /\ Len(second) = IF out < Len(all) THEN Len(all) - out ELSE 0
        /\ \A i \in 1 .. Len(all) - out : second[i] = all[out + i]
    BY <1>7, <2>1, SubIs
  <2>3. (IF out < Len(all) THEN Len(all) - out ELSE 0) = Len(all) - out BY <1>8
  <2> QED BY <2>2, <2>3
<1> HIDE DEF first, second
<1>11. first \o second = all
  <2>1. /\ first \o second \in Seq(Byte) /\ Len(first \o second) = Len(first) + Len(second)
        /\ \A i \in 1 .. Len(first) + Len(second) :
              (first \o second)[i] = IF i <= Len(first) THEN first[i] ELSE second[i - Len(first)]
    BY <1>9, <1>10, ConcatProperties
  <2>2. Len(first) + Len(second) = Len(all) BY <1>8, <1>9, <1>10
  <2>3. ASSUME NEW i \in 1 .. Len(all) PROVE (first \o second)[i] = all[i]
    <3>1. CASE i <= out BY <1>8, <1>9, <2>1, <2>2, <3>1
    <3>2. CASE i > out
      <4>1. i - out \in 1 .. Len(all) - out /\ out + (i - out) = i /\ ~(i <= out) BY <1>8, <3>2
      <4>2. second[i - out] = all[i] BY <1>10, <4>1
      <4> QED BY <1>9, <2>1, <2>2, <4>1, <4>2
    <3>3. i <= out \/ i > out BY <1>8
    <3> QED BY <3>1, <3>2, <3>3, Zenon
  <2> QED BY <1>7, <2>1, <2>2, <2>3, SeqEqual
<1>12. disk' \in Seq(Byte) /\ devPos' \in Nat
  <2>1. Written(Overlay(disk, start, first), disk, start, first) BY <1>1, <1>9, OverlayIs
  <2> QED BY <2>1, <1>1, <1>5, <1>8 DEF Written
<1>13. Contents' = Overlay(disk, start, all)
  <2>1. Overlay(Overlay(disk, start, first), start + Len(first), second) = Overlay(disk, start, first \o second)
    <3>1. disk \in Seq(Byte) /\ start \in Nat /\ first \in Seq(Byte) /\ second \in Seq(Byte)
      BY <1>1, <1>9, <1>10
    <3> QED BY <3>1, OverlayJoin, Zenon
  <2>2. Contents' = Overlay(disk', devPos', outputBuffer') BY <1>2 DEF Contents
  <2> QED BY <2>1, <2>2, <1>5, <1>9, <1>11
<1>14. Contents = Overlay(disk, start, outputBuffer)
  <2>1. CASE outputBuffer = <<>>
    <3>1. Contents = disk BY <2>1, NothingHeld DEF BufferInv
    <3>2. Overlay(disk, start, <<>>) = disk BY <1>1, OverlayNone
    <3> QED BY <2>1, <3>1, <3>2
  <2>2. CASE outputBuffer # <<>>
    <3>1. Count = 0 BY <1>1, <2>2 DEF BufferInv, Sides
    <3>2. start = devPos BY <1>1, <3>1 DEF start
    <3> QED BY <1>2, <3>2 DEF Contents
  <2> QED BY <2>1, <2>2
<1>15. Position = start + Len(outputBuffer) BY <1>1, <1>2 DEF Position, start
<1>16. Overlay(Contents, Position, bytes) = Contents'
  <2>1. Overlay(Overlay(disk, start, outputBuffer), start + Len(outputBuffer), bytes) = Overlay(disk, start, outputBuffer \o bytes)
    BY <1>1, <1>6, OverlayJoin DEF bytes
  <2> QED BY <2>1, <1>13, <1>14, <1>15 DEF all
<1>17. Position' = Position + Len(bytes)
  <2>1. Position' = devPos' + Len(outputBuffer') - (bytesRead' - inputPos') BY <1>2 DEF Position
  <2> QED BY <2>1, <1>1, <1>3, <1>5, <1>7, <1>8, <1>10, <1>15
<1>18. Count' = 0 BY <1>3 DEF Count
<1>19. ~(info.reads /\ IsText(info)) BY <1>2, TextReaders DEF BufferInv
<1>20. StreamShapes'
  <2>1. bytesRead' <= Len(inputBuffer') /\ inputBuffer' \in Seq(Byte) BY <1>2, <1>3, CountIs DEF BufferInv, StreamShapes
  <2> QED BY <2>1, <1>2, <1>3, <1>5, <1>10, <1>12 DEF BufferInv, StreamShapes
<1>21. Sides' BY <1>2, <1>3 DEF Sides
<1>22. Ahead' BY <1>12, <1>18 DEF Ahead
<1>23. Ends' BY <1>2 DEF Ends, Idle
<1>24. Texts'
  <2>1. info.codec = "utf-8" => IsText(info) BY DEF IsText
  <2> QED BY <2>1, <1>2, <1>19 DEF Texts, LinesOK
<1>25. F!Put(s)
  <2>1. F!Encoded(info, s) = bytes BY SameWriting DEF bytes
  <2>2. F!Overlay(Contents, Position, bytes) = Overlay(Contents, Position, bytes) BY SameWriting
  <2> QED BY <2>1, <2>2, <1>2, <1>16, <1>17, Zenon DEF F!Put
<1> QED BY <1>20, <1>21, <1>22, <1>23, <1>24, <1>25 DEF BufferInv

LEMMA SetPosStep ==
  ASSUME PortSound, BufferInv, NEW p \in Positions, SetPos(p)
  PROVE  BufferInv' /\ F!SetPos(p)
<1>1. /\ op = Idle /\ open /\ info.seeks /\ UNCHANGED <<info, open, inputBuffer, op, result>>
      /\ disk' = Overlay(disk, devPos, outputBuffer) /\ outputBuffer' = <<>>
      /\ inputPos' = 0 /\ bytesRead' = 0 /\ devPos' = p
  BY DEF SetPos
<1>2. /\ disk \in Seq(Byte) /\ devPos \in Nat /\ outputBuffer \in Seq(Byte) /\ p \in Nat
      /\ <<>> \in Seq(Byte) /\ Len(<<>>) = 0
  BY EmptySeq DEF BufferInv, StreamShapes, PortSound
<1>3. disk' \in Seq(Byte)
  <2>1. Written(Overlay(disk, devPos, outputBuffer), disk, devPos, outputBuffer) BY <1>2, OverlayIs
  <2> QED BY <1>1, <2>1 DEF Written
<1>4. Contents' = Contents
  <2>1. Overlay(disk', p, <<>>) = disk' BY <1>2, <1>3, OverlayNone
  <2> QED BY <2>1, <1>1 DEF Contents
<1>5. Position' = p BY <1>1, <1>2 DEF Position
<1>6. Count' = 0 BY <1>1 DEF Count
<1>7. ~IsText(info) BY <1>1 DEF BufferInv, StreamShapes, KindOK
<1>8. StreamShapes'
  <2>1. bytesRead' <= Len(inputBuffer') /\ inputBuffer' \in Seq(Byte) BY <1>1, CountIs DEF BufferInv, StreamShapes
  <2> QED BY <2>1, <1>1, <1>2, <1>3 DEF BufferInv, StreamShapes
<1>9. Sides' BY <1>1 DEF Sides
<1>10. Ahead' BY <1>1, <1>2, <1>6 DEF Ahead
<1>11. Ends' BY <1>1 DEF Ends, Idle
<1>12. Texts'
  <2>1. info.codec = "utf-8" => IsText(info) BY DEF IsText
  <2> QED BY <2>1, <1>1, <1>7 DEF Texts, LinesOK
<1>13. F!SetPos(p) BY <1>1, <1>4, <1>5, Zenon DEF F!SetPos
<1> QED BY <1>8, <1>9, <1>10, <1>11, <1>12, <1>13 DEF BufferInv

\* Steps that do nothing but write out: the start of a read, flush and close.
LEMMA OutSteps ==
  ASSUME BufferInv, Flush \/ Close \/ \E do \in {"get", "look"} : BeginRead(do)
  PROVE  /\ BufferInv' /\ Contents' = Contents /\ Position' = Position /\ UNCHANGED <<info, result>>
         /\ open' = open \/ Close
<1>1. /\ op = Idle /\ open /\ WriteOut(outputBuffer)
      /\ UNCHANGED <<info, inputPos, bytesRead, inputBuffer, result>>
  BY DEF Flush, Close, BeginRead
<1>2. \/ open' = open /\ outputBuffer' = <<>>
      \/ Close /\ open' = FALSE /\ outputBuffer' = outputBuffer
  BY DEF Flush, Close, BeginRead
<1>3. open \in BOOLEAN /\ open' \in BOOLEAN BY <1>2 DEF BufferInv, StreamShapes
<1>4. \/ op' = Idle
      \/ info.reads /\ open' = open /\ outputBuffer' = <<>> /\ \E do \in {"get", "look"} : op' = [Idle EXCEPT !.do = do]
  BY <1>1 DEF Flush, Close, BeginRead
<1>5. CASE Close /\ open' = FALSE /\ outputBuffer' = outputBuffer /\ outputBuffer = <<>>
  <2>1. /\ disk' \in Seq(Byte) /\ devPos' \in Nat /\ outputBuffer' \in Seq(Byte)
        /\ disk' = disk /\ devPos' = devPos
    <3>1. Overlay(disk, devPos, <<>>) = disk /\ devPos + Len(<<>>) = devPos
      BY OverlayNone, EmptySeq DEF BufferInv, StreamShapes
    <3> QED BY <1>1, <1>5, <3>1 DEF WriteOut, BufferInv, StreamShapes
  <2>2. op' = Idle BY <1>1, <1>5 DEF Close
  <2>3. Count' = Count BY <1>1 DEF Count
  <2>4. StreamShapes' BY <1>1, <1>3, <2>1, <2>2 DEF BufferInv, StreamShapes, Idle
  <2>5. Sides' BY <1>1, <1>5, <2>2 DEF BufferInv, Sides
  <2>6. Ahead' BY <1>1, <2>1, <2>3 DEF BufferInv, Ahead
  <2>7. Ends' BY <2>2 DEF Ends, Idle
  <2>8. Texts' BY <1>1, <2>1, <2>3 DEF BufferInv, Texts
  <2>9. Contents = disk /\ Position = devPos - Count BY <1>5, NothingHeld DEF BufferInv
  <2>10. Contents' = disk /\ Position' = devPos - Count
    BY <1>1, <1>5, <2>1 DEF Contents, Position, Count
  <2> QED BY <1>1, <1>5, <2>4, <2>5, <2>6, <2>7, <2>8, <2>9, <2>10 DEF BufferInv
<1>6. CASE \/ outputBuffer' = <<>> /\ open' = open
           \/ Close /\ open' = FALSE /\ outputBuffer' = outputBuffer /\ outputBuffer # <<>>
  <2>0. outputBuffer' = <<>> => open' = open BY <1>6
  <2>1. /\ disk' \in Seq(Byte) /\ devPos' \in Nat /\ outputBuffer' \in Seq(Byte)
        /\ Ahead' /\ Texts' /\ Contents' = Contents /\ Position' = Position
    BY <1>1, <1>3, <1>6, <2>0, WriteOutKeeps
  <2>2. op' \in [do : {"idle", "get", "look"}, at : Int, line : BOOLEAN, eof : BOOLEAN]
        /\ ~op'.eof /\ ~op'.line
    <3>1. CASE op' = Idle BY <3>1 DEF Idle
    <3>2. ASSUME NEW do \in {"get", "look"}, op' = [Idle EXCEPT !.do = do]
          PROVE  /\ op' \in [do : {"idle", "get", "look"}, at : Int, line : BOOLEAN, eof : BOOLEAN]
                 /\ ~op'.eof /\ ~op'.line
      <4>1. op' = [do |-> do, at |-> 0, line |-> FALSE, eof |-> FALSE] BY <3>2 DEF Idle
      <4> QED BY <4>1
    <3> QED BY <1>4, <3>1, <3>2
  <2>3. StreamShapes' BY <1>1, <1>3, <2>1, <2>2 DEF BufferInv, StreamShapes
  <2>4. Sides'
    <3>1. (~info.reads => bytesRead = 0) /\ (~info.writes => outputBuffer = <<>>) /\ (outputBuffer # <<>> => bytesRead = 0)
      BY DEF BufferInv, Sides
    <3>2. op' # Idle => open' /\ info.reads /\ outputBuffer' = <<>> BY <1>1, <1>4
    <3> QED BY <1>1, <1>6, <3>1, <3>2 DEF Sides
  <2>5. Ends' BY <2>2 DEF Ends
  <2> QED BY <1>1, <1>6, <2>1, <2>3, <2>4, <2>5 DEF BufferInv
<1>7. CASE open' = open /\ outputBuffer' = <<>> BY <1>6, <1>7
<1>8. CASE Close /\ open' = FALSE /\ outputBuffer' = outputBuffer
  <2>1. CASE outputBuffer = <<>> BY <1>5, <1>8, <2>1
  <2>2. CASE outputBuffer # <<>> BY <1>6, <1>8, <2>2
  <2> QED BY <2>1, <2>2
<1> QED BY <1>2, <1>7, <1>8

LEMMA BufferNext ==
  ASSUME PortSound
  PROVE  BufferInv /\ [PortNext]_portVars => BufferInv' /\ [F!Next]_(F!vars)
<1> SUFFICES ASSUME BufferInv, [PortNext]_portVars PROVE BufferInv' /\ [F!Next]_(F!vars) OBVIOUS
<1>1. ASSUME Flush \/ \E do \in {"get", "look"} : BeginRead(do) PROVE BufferInv' /\ [F!Next]_(F!vars)
  <2>1. open' = open BY <1>1 DEF Flush, BeginRead
  <2>2. BufferInv' /\ Contents' = Contents /\ Position' = Position /\ UNCHANGED <<info, result>>
    BY <1>1, OutSteps
  <2> QED BY <2>1, <2>2 DEF F!vars
<1>2. ASSUME Close PROVE BufferInv' /\ [F!Next]_(F!vars)
  <2>1. BufferInv' /\ Contents' = Contents /\ Position' = Position /\ UNCHANGED <<info, result>>
    BY <1>2, OutSteps
  <2>2. open' = FALSE BY <1>2 DEF Close
  <2> QED BY <2>1, <2>2 DEF F!Next, F!Close
<1>3. ASSUME NEW k \in 0 .. Len(inputBuffer), Fill(k) PROVE BufferInv' /\ [F!Next]_(F!vars)
  <2>1. k \in Nat BY CountIs DEF BufferInv
  <2>2. BufferInv' /\ Contents' = Contents /\ Position' = Position /\ UNCHANGED <<info, open, result>>
    BY <1>3, <2>1, FillStep
  <2> QED BY <2>2 DEF F!vars
<1>4. ASSUME EndRead PROVE BufferInv' /\ [F!Next]_(F!vars)
  <2>1. BufferInv' /\ F!Read(op.do = "get") BY <1>4, EndReadStep
  <2> QED BY <2>1 DEF F!Next
<1>5. ASSUME NEW s \in Puts, Put(s) PROVE BufferInv' /\ [F!Next]_(F!vars)
  BY <1>5, PutStep DEF F!Next
<1>6. ASSUME NEW p \in Positions, SetPos(p) PROVE BufferInv' /\ [F!Next]_(F!vars)
  BY <1>6, SetPosStep DEF F!Next
<1>7. ASSUME UNCHANGED portVars PROVE BufferInv' /\ [F!Next]_(F!vars)
  <2>1. BufferInv'
    BY <1>7 DEF portVars, BufferInv, StreamShapes, Sides, Ahead, Ends, Texts, Count, ByLine
  <2>2. UNCHANGED F!vars BY <1>7 DEF portVars, F!vars, Contents, Position
  <2> QED BY <2>1, <2>2
<1> QED BY <1>1, <1>2, <1>3, <1>4, <1>5, <1>6, <1>7 DEF PortNext

LEMMA FileInit ==
  ASSUME PortSound
  PROVE  PortInit => F!Init
<1> SUFFICES ASSUME PortInit PROVE F!Init OBVIOUS
<1>1. PICK o \in Openings : info = o[1] /\ disk = o[2] BY DEF PortInit
<1>2. o = <<info, disk>> BY <1>1 DEF PortSound
<1>3. StreamShapes BY BufferInit DEF BufferInv
<1>4. /\ open = TRUE /\ outputBuffer = <<>> /\ devPos = 0 /\ inputPos = 0 /\ bytesRead = 0 /\ result = Eof
  BY DEF PortInit
<1>5. Contents = disk /\ Position = devPos - Count BY <1>3, <1>4, NothingHeld
<1>6. Position = 0 BY <1>4, <1>5 DEF Count
<1> QED BY <1>1, <1>2, <1>4, <1>5, <1>6 DEF F!Init

\* Buffers do not show: for every size of buffers, every file and every length of the device's reads, a port
\* acts on one sequence of bytes at one position (FilePort), if it is opened as PortSound says.
THEOREM PortsImplementFiles == ASSUME PortSound PROVE PortSpec => ImplementsFile
<1>1. PortInit => BufferInv BY BufferInit
<1>2. BufferInv /\ [PortNext]_portVars => BufferInv' BY BufferNext
<1>3. PortSpec => []BufferInv BY <1>1, <1>2, PTL DEF PortSpec
<1>4. PortInit => F!Init BY FileInit
<1>5. BufferInv /\ [PortNext]_portVars => [F!Next]_(F!vars) BY BufferNext
<1>6. PortSpec => F!Spec BY <1>3, <1>4, <1>5, PTL DEF PortSpec, F!Spec
<1> QED BY <1>6 DEF ImplementsFile

(* The compile queue.                                                       *)

CONSTANTS Requesters, Places, MaxRequests
VARIABLES queue, compiling, alive, asked, wants, sent, answered, failed
Q == INSTANCE CompileQueue

Requests == Q!Tasks

\* A task is in one place: it is compiled once and answered once.
CompiledOnce ==
  /\ \A i, j \in 1 .. Len(queue) : queue[i] = queue[j] => i = j
  /\ compiling \notin Q!ToSet(queue) \union answered /\ Q!ToSet(queue) \intersect answered = {}

QueueInv ==
  /\ queue \in Seq(Requests) /\ compiling \in Requests \union {None} /\ alive \in BOOLEAN
  /\ asked \in [Requesters -> Nat] /\ wants \in [Requesters -> Requests \union {None}]
  /\ sent \in [Requesters -> BOOLEAN] /\ answered \subseteq Requests
  /\ \A t \in Requesters : wants[t] = None \/ wants[t][1] = t
  /\ \A t \in Requesters : sent[t] => wants[t] # None
  /\ ~alive => queue = <<>> /\ compiling = None
  /\ Q!RequestsAreKept /\ CompiledOnce

\* The tasks in the channel.
LEMMA InChannel ==
  ASSUME NEW X, NEW s \in Seq(X)
  PROVE  Q!ToSet(s) = {s[i] : i \in 1 .. Len(s)} /\ Len(s) \in Nat
  BY LenProperties DEF Q!ToSet

\* A task at the end of the channel.
LEMMA ChannelGrows ==
  ASSUME NEW X, NEW s \in Seq(X), NEW k \in X, k \notin Q!ToSet(s),
         \A i, j \in 1 .. Len(s) : s[i] = s[j] => i = j
  PROVE  /\ Append(s, k) \in Seq(X) /\ Q!ToSet(Append(s, k)) = Q!ToSet(s) \union {k}
         /\ \A i, j \in 1 .. Len(Append(s, k)) : Append(s, k)[i] = Append(s, k)[j] => i = j
<1>0. PICK s2 : s2 = Append(s, k) OBVIOUS
<1>1. /\ s2 \in Seq(X) /\ Len(s2) = Len(s) + 1
      /\ \A i \in 1 .. Len(s) : s2[i] = s[i]
      /\ s2[Len(s) + 1] = k
  BY <1>0, AppendProperties
<1>2. PICK n \in Nat : n = Len(s) BY LenProperties
<1>3. Q!ToSet(s) = {s[i] : i \in 1 .. n} /\ Q!ToSet(s2) = {s2[i] : i \in 1 .. n + 1}
  <2>1. s \in Seq(X) /\ s2 \in Seq(X) /\ Len(s2) = n + 1 BY <1>1, <1>2
  <2> QED BY ONLY <2>1, <1>2, InChannel, Zenon
<1>4. \A i : i \in 1 .. n + 1 <=> i \in 1 .. n \/ i = n + 1 BY <1>2
<1>5. \A i \in 1 .. n : s2[i] = s[i] /\ i # n + 1 BY <1>1, <1>2
<1>6. s2[n + 1] = k BY <1>1, <1>2
<1>7. Q!ToSet(s2) = Q!ToSet(s) \union {k} BY ONLY <1>3, <1>4, <1>5, <1>6
<1>8. ASSUME NEW i \in 1 .. Len(s2), NEW j \in 1 .. Len(s2), s2[i] = s2[j] PROVE i = j
  BY <1>1, <1>2, <1>3, <1>4, <1>5, <1>6, <1>8
<1> QED BY <1>0, <1>1, <1>7, <1>8

\* A task at the head of the channel is taken out.
LEMMA ChannelShrinks ==
  ASSUME NEW X, NEW s \in Seq(X), s # <<>>, \A i, j \in 1 .. Len(s) : s[i] = s[j] => i = j
  PROVE  /\ Tail(s) \in Seq(X) /\ Head(s) \in X
         /\ Q!ToSet(s) = Q!ToSet(Tail(s)) \union {Head(s)} /\ Head(s) \notin Q!ToSet(Tail(s))
         /\ \A i, j \in 1 .. Len(Tail(s)) : Tail(s)[i] = Tail(s)[j] => i = j
<1>1. PICK w : w = Tail(s) OBVIOUS
<1>2. PICK n \in Nat : n = Len(s) BY LenProperties
<1>3. w \in Seq(X) /\ Len(w) = n - 1 /\ n > 0 /\ \A i \in 1 .. n - 1 : w[i] = s[i + 1]
  BY <1>1, <1>2, HeadTailProperties, EmptySeq
<1>4. Head(s) = s[1] /\ Head(s) \in X BY HeadTailProperties
<1>5. Q!ToSet(s) = {s[i] : i \in 1 .. n} /\ Q!ToSet(w) = {w[i] : i \in 1 .. n - 1} BY <1>2, <1>3, InChannel
<1>6. /\ \A i \in 1 .. n - 1 : i + 1 \in 1 .. n /\ i + 1 # 1
      /\ \A i \in 1 .. n : i = 1 \/ (i - 1 \in 1 .. n - 1 /\ (i - 1) + 1 = i)
      /\ 1 \in 1 .. n
  BY <1>3
<1>7. Head(s) \notin Q!ToSet(w) BY <1>2, <1>3, <1>4, <1>5, <1>6
<1>8. Q!ToSet(s) = Q!ToSet(w) \union {Head(s)}
  <2>1. \A i \in 1 .. n : s[i] \in Q!ToSet(w) \union {Head(s)}
    <3>1. ASSUME NEW i \in 1 .. n PROVE s[i] \in Q!ToSet(w) \union {Head(s)}
      <4>1. CASE i = 1 BY <1>4, <4>1
      <4>2. CASE i # 1
        <5>1. PICK j \in 1 .. n - 1 : j + 1 = i BY <1>6, <4>2
        <5>2. w[j] = s[i] BY <1>3, <5>1
        <5> QED BY <1>5, <5>2
      <4> QED BY <4>1, <4>2
    <3> QED BY <3>1
  <2>2. \A i \in 1 .. n - 1 : w[i] \in Q!ToSet(s) BY <1>3, <1>5, <1>6
  <2> QED BY <1>4, <1>5, <1>6, <2>1, <2>2
<1>9. ASSUME NEW i \in 1 .. Len(w), NEW j \in 1 .. Len(w), w[i] = w[j] PROVE i = j
  <2>1. i \in 1 .. n - 1 /\ j \in 1 .. n - 1 BY <1>3
  <2>2. i + 1 = j + 1 BY <1>2, <1>3, <1>6, <1>9, <2>1
  <2> QED BY <2>1, <2>2
<1> QED BY <1>1, <1>3, <1>4, <1>7, <1>8, <1>9

\* What every step needs.
LEMMA QueueParts ==
  ASSUME Q!QueueAssumption, QueueInv
  PROVE  /\ queue \in Seq(Requests) /\ compiling \in Requests \union {None} /\ alive \in BOOLEAN
         /\ asked \in [Requesters -> Nat] /\ wants \in [Requesters -> Requests \union {None}]
         /\ sent \in [Requesters -> BOOLEAN] /\ answered \subseteq Requests
         /\ None \notin Requests /\ Q!ToSet(queue) \subseteq Requests
<1>1. Q!ToSet(queue) \subseteq Requests
  <2>1. queue \in Seq(Requests) BY DEF QueueInv
  <2>2. \A i \in 1 .. Len(queue) : queue[i] \in Requests BY <2>1, ElementOfSeq
  <2> QED BY <2>1, <2>2, InChannel
<1> QED BY <1>1 DEF QueueInv, Q!QueueAssumption, Requests

\* Nothing is asked for at the start.
LEMMA QueueInit == ASSUME Q!QueueAssumption, Q!Init PROVE QueueInv
<1>1. queue \in Seq(Requests) /\ Len(queue) = 0 BY EmptySeq DEF Q!Init
<1>2. Q!ToSet(queue) = {}
  <2>1. Q!ToSet(queue) = {queue[i] : i \in 1 .. 0} BY <1>1, InChannel, Zenon
  <2> QED BY ONLY <2>1
<1>3. Q!UnderWay = {} BY <1>2 DEF Q!UnderWay, Q!Init
<1>4. CompiledOnce BY <1>1, <1>2 DEF CompiledOnce, Q!Init
<1>5. Q!RequestsAreKept BY <1>3 DEF Q!RequestsAreKept, Q!Init
<1> QED BY <1>1, <1>4, <1>5 DEF QueueInv, Q!Init

\* A thread that asks waits for nothing, so nothing of its own is under way.
LEMMA AskKeeps ==
  ASSUME Q!QueueAssumption, QueueInv, NEW t \in Requesters, Q!Ask(t)
  PROVE  QueueInv'
<1>1. /\ wants[t] = None /\ asked' = [asked EXCEPT ![t] = @ + 1]
      /\ wants' = [wants EXCEPT ![t] = <<t, asked[t] + 1>>]
      /\ UNCHANGED <<queue, compiling, alive, sent, answered>>
  BY DEF Q!Ask
<1>2. <<t, asked[t] + 1>> \in Requests /\ asked[t] + 1 \in Nat BY QueueParts DEF Requests, Q!Tasks
<1>3. Q!UnderWay' = Q!UnderWay BY <1>1 DEF Q!UnderWay, Q!ToSet
<1>4. sent[t] = FALSE BY <1>1, QueueParts DEF QueueInv
<1>5. ASSUME NEW k \in Q!UnderWay PROVE k \in Requests /\ sent'[k[1]] /\ wants'[k[1]] = k
  <2>1. k \in Requests /\ sent[k[1]] /\ wants[k[1]] = k BY DEF QueueInv, Q!RequestsAreKept, Requests
  <2>2. k[1] \in Requesters /\ k[1] # t BY <2>1, <1>4 DEF Requests, Q!Tasks
  <2> QED BY <1>1, <2>1, <2>2, QueueParts
<1>6. ASSUME NEW u \in Requesters
      PROVE  /\ alive /\ sent[u] => wants'[u] \in Q!UnderWay
             /\ wants'[u] = None \/ wants'[u][1] = u
             /\ sent[u] => wants'[u] # None
  <2>1. CASE u = t BY <1>1, <1>4, <2>1, QueueParts
  <2>2. CASE u # t
    <3>1. wants'[u] = wants[u] BY <1>1, <2>2, QueueParts
    <3> QED BY <3>1 DEF QueueInv, Q!RequestsAreKept
  <2> QED BY <2>1, <2>2
<1>7. Q!RequestsAreKept' BY <1>1, <1>3, <1>5, <1>6 DEF Q!RequestsAreKept, Requests
<1>8. CompiledOnce' BY <1>1 DEF QueueInv, CompiledOnce, Q!ToSet
<1>9. asked' \in [Requesters -> Nat] /\ wants' \in [Requesters -> Requests \union {None}] BY <1>1, <1>2, QueueParts
<1> QED BY <1>1, <1>6, <1>7, <1>8, <1>9, QueueParts DEF QueueInv, Requests

\* What is sent was not under way, since its thread had not sent anything.
LEMMA SendKeeps ==
  ASSUME Q!QueueAssumption, QueueInv, NEW t \in Requesters, Q!Send(t)
  PROVE  QueueInv'
<1>1. /\ wants[t] # None /\ ~sent[t] /\ alive /\ queue' = Append(queue, wants[t])
      /\ sent' = [sent EXCEPT ![t] = TRUE] /\ UNCHANGED <<compiling, alive, asked, wants, answered>>
  BY DEF Q!Send
<1>2. PICK k : k = wants[t] OBVIOUS
<1>3. k \in Requests /\ k[1] = t BY <1>1, <1>2, QueueParts DEF QueueInv
<1>4. k \notin Q!UnderWay
  <2>1. k \in Q!UnderWay => sent[k[1]] BY DEF QueueInv, Q!RequestsAreKept
  <2> QED BY <1>1, <1>3, <2>1
<1>5. k \notin Q!ToSet(queue) /\ k \notin answered /\ k # compiling
  BY <1>3, <1>4, QueueParts DEF Q!UnderWay
<1>6. /\ queue' \in Seq(Requests) /\ Q!ToSet(queue') = Q!ToSet(queue) \union {k}
      /\ \A i, j \in 1 .. Len(queue') : queue'[i] = queue'[j] => i = j
  <2>1. queue \in Seq(Requests) /\ \A i, j \in 1 .. Len(queue) : queue[i] = queue[j] => i = j
    BY DEF QueueInv, CompiledOnce
  <2>2. queue' = Append(queue, k) BY <1>1, <1>2
  <2>4. k \in Requests /\ k \notin Q!ToSet(queue) BY <1>3, <1>5
  <2>5. /\ Append(queue, k) \in Seq(Requests) /\ Q!ToSet(Append(queue, k)) = Q!ToSet(queue) \union {k}
        /\ \A i, j \in 1 .. Len(Append(queue, k)) : Append(queue, k)[i] = Append(queue, k)[j] => i = j
    BY ONLY <2>1, <2>4, ChannelGrows
  <2> QED BY ONLY <2>2, <2>5, Zenon
<1>7. Q!UnderWay' = Q!UnderWay \union {k} BY <1>1, <1>6 DEF Q!UnderWay, Q!ToSet
<1>8. sent' \in [Requesters -> BOOLEAN] /\ \A u \in Requesters : sent'[u] = IF u = t THEN TRUE ELSE sent[u]
  BY <1>1, QueueParts
<1>9. ASSUME NEW l \in Q!UnderWay \union {k} PROVE l \in Requests /\ sent'[l[1]] /\ wants[l[1]] = l
  <2>1. CASE l = k BY <1>2, <1>3, <1>8, <2>1
  <2>2. CASE l \in Q!UnderWay
    <3>1. l \in Requests /\ sent[l[1]] /\ wants[l[1]] = l BY <2>2 DEF QueueInv, Q!RequestsAreKept, Requests
    <3>2. l[1] \in Requesters BY <3>1 DEF Requests, Q!Tasks
    <3> QED BY <1>8, <3>1, <3>2
  <2> QED BY <2>1, <2>2
<1>10. ASSUME NEW u \in Requesters, sent'[u] PROVE wants[u] \in Q!UnderWay \union {k} /\ wants[u] # None
  <2>1. CASE u = t BY <1>1, <1>2, <2>1
  <2>2. CASE u # t
    <3>1. sent[u] BY <1>8, <1>10, <2>2
    <3> QED BY <1>1, <3>1 DEF QueueInv, Q!RequestsAreKept
  <2> QED BY <2>1, <2>2
<1>11. Q!RequestsAreKept' BY <1>1, <1>7, <1>9, <1>10 DEF Q!RequestsAreKept, Requests
<1>12. CompiledOnce'
  <2>1. Q!ToSet(queue)' = Q!ToSet(queue') BY DEF Q!ToSet
  <2>2. compiling \notin Q!ToSet(queue') \union answered /\ Q!ToSet(queue') \intersect answered = {}
    BY <1>5, <1>6 DEF QueueInv, CompiledOnce
  <2> QED BY <1>1, <1>6, <2>1, <2>2 DEF CompiledOnce
<1> QED BY <1>1, <1>6, <1>8, <1>10, <1>11, <1>12, QueueParts DEF QueueInv, Requests

\* Without the compilation thread the task is dropped.
LEMMA SendToDeadKeeps ==
  ASSUME Q!QueueAssumption, QueueInv, NEW t \in Requesters, Q!SendToDead(t)
  PROVE  QueueInv'
<1>1. /\ wants[t] # None /\ ~alive /\ sent' = [sent EXCEPT ![t] = TRUE]
      /\ UNCHANGED <<queue, compiling, alive, asked, wants, answered>>
  BY DEF Q!SendToDead
<1>2. sent' \in [Requesters -> BOOLEAN] /\ \A u \in Requesters : sent'[u] = IF u = t THEN TRUE ELSE sent[u]
  BY <1>1, QueueParts
<1>3. Q!UnderWay' = Q!UnderWay BY <1>1 DEF Q!UnderWay, Q!ToSet
<1>4. ASSUME NEW l \in Q!UnderWay PROVE l \in Requests /\ sent'[l[1]] /\ wants[l[1]] = l
  <2>1. l \in Requests /\ sent[l[1]] /\ wants[l[1]] = l BY DEF QueueInv, Q!RequestsAreKept, Requests
  <2>2. l[1] \in Requesters BY <2>1 DEF Requests, Q!Tasks
  <2> QED BY <1>2, <2>1, <2>2
<1>5. \A u \in Requesters : sent'[u] => wants[u] # None BY <1>1, <1>2 DEF QueueInv
<1>6. Q!RequestsAreKept' BY <1>1, <1>3, <1>4 DEF Q!RequestsAreKept, Requests
<1>7. CompiledOnce' BY <1>1 DEF QueueInv, CompiledOnce, Q!ToSet
<1> QED BY <1>1, <1>2, <1>5, <1>6, <1>7, QueueParts DEF QueueInv, Requests

\* A task that is received stays under way.
LEMMA ReceiveKeeps ==
  ASSUME Q!QueueAssumption, QueueInv, Q!Receive
  PROVE  QueueInv'
<1>1. /\ alive /\ compiling = None /\ queue # <<>> /\ compiling' = Head(queue) /\ queue' = Tail(queue)
      /\ UNCHANGED <<alive, asked, wants, sent, answered>>
  BY DEF Q!Receive
<1>2. PICK q, h : q = queue' /\ h = compiling' OBVIOUS
<1>3. /\ q \in Seq(Requests) /\ h \in Requests
      /\ Q!ToSet(queue) = Q!ToSet(q) \union {h} /\ h \notin Q!ToSet(q)
      /\ \A i, j \in 1 .. Len(q) : q[i] = q[j] => i = j
  <2>1. queue \in Seq(Requests) /\ queue # <<>> /\ \A i, j \in 1 .. Len(queue) : queue[i] = queue[j] => i = j
    BY <1>1 DEF QueueInv, CompiledOnce
  <2>2. /\ Tail(queue) \in Seq(Requests) /\ Head(queue) \in Requests
        /\ Q!ToSet(queue) = Q!ToSet(Tail(queue)) \union {Head(queue)} /\ Head(queue) \notin Q!ToSet(Tail(queue))
        /\ \A i, j \in 1 .. Len(Tail(queue)) : Tail(queue)[i] = Tail(queue)[j] => i = j
    BY ONLY <2>1, ChannelShrinks
  <2>3. q = Tail(queue) /\ h = Head(queue) BY <1>1, <1>2
  <2> QED BY ONLY <2>2, <2>3, Zenon
<1>4. Q!ToSet(queue)' = Q!ToSet(q) BY <1>2 DEF Q!ToSet
<1>5. Q!UnderWay' = Q!UnderWay
  <2>1. None # h BY <1>3, QueueParts
  <2>2. Q!UnderWay' = Q!ToSet(q) \union answered \union ({h} \ {None}) BY <1>1, <1>2, <1>4 DEF Q!UnderWay
  <2>3. Q!UnderWay = Q!ToSet(queue) \union answered BY <1>1 DEF Q!UnderWay
  <2> QED BY <1>3, <2>1, <2>2, <2>3
<1>6. Q!RequestsAreKept' BY <1>1, <1>5 DEF QueueInv, Q!RequestsAreKept, Q!Tasks
<1>7. CompiledOnce'
  <2>1. Q!ToSet(queue) \intersect answered = {} BY DEF QueueInv, CompiledOnce
  <2>2. h \notin Q!ToSet(q) \union answered /\ Q!ToSet(q) \intersect answered = {} BY <1>3, <2>1
  <2> QED BY <1>1, <1>2, <1>3, <1>4, <2>2 DEF CompiledOnce
<1> QED BY <1>1, <1>2, <1>3, <1>6, <1>7, QueueParts DEF QueueInv, Requests

\* The compiled code takes the place of its task.
LEMMA CompleteKeeps ==
  ASSUME Q!QueueAssumption, QueueInv, Q!Complete
  PROVE  QueueInv'
<1>1. /\ compiling # None /\ answered' = answered \union {compiling} /\ compiling' = None
      /\ UNCHANGED <<queue, alive, asked, wants, sent>>
  BY DEF Q!Complete
<1>2. compiling \in Requests /\ alive BY <1>1, QueueParts DEF QueueInv
<1>3. Q!ToSet(queue)' = Q!ToSet(queue) BY <1>1 DEF Q!ToSet
<1>4. Q!UnderWay' = Q!UnderWay BY <1>1, <1>3 DEF Q!UnderWay
<1>5. Q!RequestsAreKept' BY <1>1, <1>4 DEF QueueInv, Q!RequestsAreKept, Q!Tasks
<1>6. CompiledOnce'
  <2>1. /\ \A i, j \in 1 .. Len(queue) : queue[i] = queue[j] => i = j
        /\ compiling \notin Q!ToSet(queue) /\ Q!ToSet(queue) \intersect answered = {}
    BY DEF QueueInv, CompiledOnce
  <2>2. None \notin Q!ToSet(queue) \union answered \union {compiling} BY <1>1, QueueParts
  <2> QED BY <1>1, <1>3, <2>1, <2>2 DEF CompiledOnce
<1> QED BY <1>1, <1>2, <1>5, <1>6, QueueParts DEF QueueInv, Requests

\* The channel is dropped with its tasks: only answers remain.
LEMMA CrashKeeps ==
  ASSUME Q!QueueAssumption, QueueInv, Q!Crash
  PROVE  QueueInv'
<1>1. /\ alive' = FALSE /\ compiling' = None /\ queue' = <<>> /\ UNCHANGED <<asked, wants, sent, answered>>
  BY DEF Q!Crash
<1>2. PICK q : q = queue' OBVIOUS
<1>3. q \in Seq(Requests) /\ Len(q) = 0 BY <1>1, <1>2, EmptySeq
<1>4. Q!ToSet(q) = {}
  <2>1. Q!ToSet(q) = {q[i] : i \in 1 .. 0} BY <1>3, InChannel, Zenon
  <2> QED BY ONLY <2>1
<1>5. Q!ToSet(queue)' = Q!ToSet(q) BY <1>2 DEF Q!ToSet
<1>6. Q!UnderWay' \subseteq Q!UnderWay BY <1>1, <1>4, <1>5 DEF Q!UnderWay
<1>7. Q!RequestsAreKept' BY <1>1, <1>6 DEF QueueInv, Q!RequestsAreKept, Q!Tasks
<1>8. CompiledOnce' BY <1>1, <1>2, <1>3, <1>4, <1>5, QueueParts DEF CompiledOnce
<1> QED BY <1>1, <1>2, <1>3, <1>7, <1>8, QueueParts DEF QueueInv, Requests

\* A thread that waits for nothing more, and whose task is gone.
LEMMA WaitEnds ==
  ASSUME Q!QueueAssumption, QueueInv, NEW t \in Requesters, sent[t],
         wants' = [wants EXCEPT ![t] = None], sent' = [sent EXCEPT ![t] = FALSE],
         Q!UnderWay' = Q!UnderWay \ {wants[t]}, alive' = alive
  PROVE  /\ Q!RequestsAreKept' /\ wants' \in [Requesters -> Requests \union {None}] /\ sent' \in [Requesters -> BOOLEAN]
         /\ \A u \in Requesters : (wants'[u] = None \/ wants'[u][1] = u) /\ (sent'[u] => wants'[u] # None)
<1>1. /\ sent' \in [Requesters -> BOOLEAN] /\ \A u \in Requesters : sent'[u] = IF u = t THEN FALSE ELSE sent[u]
      /\ wants' \in [Requesters -> Requests \union {None}]
      /\ \A u \in Requesters : wants'[u] = IF u = t THEN None ELSE wants[u]
  BY QueueParts
<1>2. ASSUME NEW l \in Q!UnderWay, l # wants[t] PROVE l \in Requests /\ sent'[l[1]] /\ wants'[l[1]] = l
  <2>1. l \in Requests /\ sent[l[1]] /\ wants[l[1]] = l BY DEF QueueInv, Q!RequestsAreKept, Requests
  <2>2. l[1] \in Requesters /\ l[1] # t BY <1>2, <2>1 DEF Requests, Q!Tasks
  <2> QED BY <1>1, <2>1, <2>2
<1>3. ASSUME NEW u \in Requesters, sent'[u]
      PROVE  wants'[u] # None /\ (alive => wants'[u] \in Q!UnderWay \ {wants[t]})
  <2>1. u # t /\ sent[u] /\ wants'[u] = wants[u] BY <1>1, <1>3
  <2>2. wants[u][1] = u /\ wants[t][1] = t BY <2>1 DEF QueueInv
  <2>3. wants[u] # wants[t] BY <2>1, <2>2
  <2> QED BY <2>1, <2>3 DEF QueueInv, Q!RequestsAreKept
<1>4. \A u \in Requesters : wants'[u] = None \/ wants'[u][1] = u BY <1>1 DEF QueueInv
<1>5. Q!RequestsAreKept' BY <1>2, <1>3 DEF Q!RequestsAreKept, Requests
<1> QED BY <1>1, <1>3, <1>4, <1>5

\* The thread that asked takes the code.
LEMMA TakeKeeps ==
  ASSUME Q!QueueAssumption, QueueInv, NEW t \in Requesters, Q!Take(t)
  PROVE  QueueInv'
<1>1. /\ sent[t] /\ wants[t] \in answered /\ answered' = answered \ {wants[t]}
      /\ wants' = [wants EXCEPT ![t] = None] /\ sent' = [sent EXCEPT ![t] = FALSE]
      /\ UNCHANGED <<queue, compiling, alive, asked>>
  BY DEF Q!Take
<1>2. Q!ToSet(queue)' = Q!ToSet(queue) BY <1>1 DEF Q!ToSet
<1>3. wants[t] \notin Q!ToSet(queue) /\ wants[t] # compiling BY <1>1 DEF QueueInv, CompiledOnce
<1>4. Q!UnderWay' = Q!UnderWay \ {wants[t]} BY <1>1, <1>2, <1>3 DEF Q!UnderWay
<1>5. CompiledOnce'
  <2>1. /\ \A i, j \in 1 .. Len(queue) : queue[i] = queue[j] => i = j
        /\ compiling \notin Q!ToSet(queue) \union answered /\ Q!ToSet(queue) \intersect answered = {}
    BY DEF QueueInv, CompiledOnce
  <2> QED BY <1>1, <1>2, <2>1 DEF CompiledOnce
<1>6. /\ Q!RequestsAreKept' /\ wants' \in [Requesters -> Requests \union {None}] /\ sent' \in [Requesters -> BOOLEAN]
      /\ \A u \in Requesters : (wants'[u] = None \/ wants'[u][1] = u) /\ (sent'[u] => wants'[u] # None)
  BY <1>1, <1>4, WaitEnds
<1> QED BY <1>1, <1>5, <1>6, QueueParts DEF QueueInv, Requests

\* A thread whose task is gone panics.
LEMMA PanicKeeps ==
  ASSUME Q!QueueAssumption, QueueInv, NEW t \in Requesters, Q!Panic(t)
  PROVE  QueueInv'
<1>1. /\ sent[t] /\ Q!Dropped(wants[t])
      /\ wants' = [wants EXCEPT ![t] = None] /\ sent' = [sent EXCEPT ![t] = FALSE]
      /\ UNCHANGED <<queue, compiling, alive, asked, answered>>
  BY DEF Q!Panic
<1>2. Q!ToSet(queue)' = Q!ToSet(queue) BY <1>1 DEF Q!ToSet
<1>3. wants[t] \notin Q!UnderWay BY <1>1 DEF Q!UnderWay, Q!Dropped
<1>4. Q!UnderWay' = Q!UnderWay \ {wants[t]} BY <1>1, <1>2, <1>3 DEF Q!UnderWay
<1>5. CompiledOnce' BY <1>1, <1>2 DEF QueueInv, CompiledOnce
<1>6. /\ Q!RequestsAreKept' /\ wants' \in [Requesters -> Requests \union {None}] /\ sent' \in [Requesters -> BOOLEAN]
      /\ \A u \in Requesters : (wants'[u] = None \/ wants'[u][1] = u) /\ (sent'[u] => wants'[u] # None)
  BY <1>1, <1>4, WaitEnds
<1> QED BY <1>1, <1>5, <1>6, QueueParts DEF QueueInv, Requests

\* Every step keeps the invariant.
LEMMA QueueStep ==
  ASSUME Q!QueueAssumption, QueueInv, [Q!Next]_Q!vars
  PROVE  QueueInv'
<1>1. CASE UNCHANGED Q!vars
  <2>1. UNCHANGED <<queue, compiling, alive, asked, wants, sent, answered>> BY <1>1 DEF Q!vars
  <2>2. Q!ToSet(queue)' = Q!ToSet(queue) BY <2>1 DEF Q!ToSet
  <2>3. Q!UnderWay' = Q!UnderWay BY <2>1, <2>2 DEF Q!UnderWay
  <2>4. Q!RequestsAreKept' BY <2>1, <2>3 DEF QueueInv, Q!RequestsAreKept, Q!Tasks
  <2>5. CompiledOnce' BY <2>1, <2>2 DEF QueueInv, CompiledOnce
  <2> QED BY <2>1, <2>4, <2>5, QueueParts DEF QueueInv, Requests
<1>2. CASE Q!Receive BY <1>2, ReceiveKeeps
<1>3. CASE Q!Complete BY <1>3, CompleteKeeps
<1>4. CASE Q!Crash BY <1>4, CrashKeeps
<1>5. ASSUME NEW t \in Requesters,
             Q!Ask(t) \/ Q!Send(t) \/ Q!SendToDead(t) \/ Q!Take(t) \/ Q!Panic(t)
      PROVE  QueueInv'
  BY <1>5, AskKeeps, SendKeeps, SendToDeadKeeps, TakeKeeps, PanicKeeps
<1> QED BY <1>1, <1>2, <1>3, <1>4, <1>5 DEF Q!Next

\* Compilations are answered to the thread that asked, once, and none is lost while the compilation thread lives.
THEOREM RequestsAreKeptHolds ==
  ASSUME Q!QueueAssumption
  PROVE  Q!Spec => [](Q!RequestsAreKept /\ CompiledOnce)
<1>1. Q!Init => QueueInv BY QueueInit
<1>2. QueueInv /\ [Q!Next]_Q!vars => QueueInv' BY QueueStep
<1>3. QueueInv => Q!RequestsAreKept /\ CompiledOnce BY DEF QueueInv
<1> QED BY <1>1, <1>2, <1>3, PTL DEF Q!Spec
=============================================================================
