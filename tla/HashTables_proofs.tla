-------------------------- MODULE HashTables_proofs --------------------------
(***************************************************************************)
(* Hash tables implement maps: proofs about HashTables, for any tables, keys,   *)
(* hashes, threads and programs.                                            *)
(***************************************************************************)
EXTENDS HashTables, SequenceTheorems, TLAPS

Entry == [key : Keys, val : Values, hash : {Hash[k] : k \in Keys}]
Frame == [op : ReadOps \cup WriteOps, table : Tables, key : Keys, val : Values,
          phase : Phases, left : SUBSET Entry, found : SUBSET Entry]

Typed ==
    /\ entries \in [Tables -> SUBSET Entry]
    /\ mutable \in [Tables -> BOOLEAN]
    /\ calls \in [Threads -> Seq(Frame)]

\* A table has one entry for a class, in the bucket of its hash.
OneEntry ==
    \A h \in Tables : \A e \in entries[h] :
        /\ e.hash = Hash[e.key]
        /\ \A f \in entries[h] : Class[e.key] = Class[f.key] => e = f

Claims(c) == c.op \in WriteOps /\ c.phase \in {"drain", "hash", "eq", "proc"}
Writes(c) == c.op \in WriteOps /\ c.phase \in {"hash", "eq", "proc"}
Reads(c) == c.op \in ReadOps /\ c.phase \in {"hash", "eq", "proc"}

\* One writer claims a table, and when it writes no one reads.
Locked ==
    \A t, u \in Threads : \A i \in DOMAIN calls[t], j \in DOMAIN calls[u] :
        calls[t][i].table = calls[u][j].table =>
            /\ Claims(calls[t][i]) /\ Claims(calls[u][j]) => t = u /\ i = j
            /\ ~(Writes(calls[t][i]) /\ Reads(calls[u][j]))

\* What a call has found out about its table: its entry, or that it is among those left.
Knows(c) ==
    \/ /\ c.found = {}
       /\ c.left \subseteq entries[c.table]
       /\ \A e \in entries[c.table] : Class[e.key] = Class[c.key] => e \in c.left
    \/ \E e \in entries[c.table] :
          c.found = {e} /\ Class[e.key] = Class[c.key] /\ c.left = {}

\* A call that changes its table may do so, and what it has found stays true.
Sound(c) ==
    /\ c.op \in Changing => mutable[c.table]
    /\ c.phase \in {"eq", "proc"} => Knows(c)
    /\ c.phase = "drain" => c.op \in WriteOps
    /\ c.phase = "proc" => c.op = "update" /\ c.left = {}
    /\ c.phase \in {"ask", "drain", "hash"} => c.found = {}

AllSound == \A t \in Threads : \A i \in DOMAIN calls[t] : Sound(calls[t][i])

Inv == Typed /\ OneEntry /\ Locked /\ AllSound

-----------------------------------------------------------------------------
(* The calls of a thread, as a sequence.                                    *)

LEMMA CallTyped ==
  ASSUME Typed
  PROVE  \A u \in Threads : \A i \in DOMAIN calls[u] : calls[u][i] \in Frame
<1> TAKE u \in Threads
<1> TAKE i \in DOMAIN calls[u]
<1> DEFINE q == calls[u]
<1>1. q \in Seq(Frame) BY DEF Typed
<1>2. \A n \in DOMAIN q : q[n] \in Frame
  <2> HIDE DEF q
  <2> QED BY <1>1
<1> QED BY <1>2

LEMMA TopCall ==
  ASSUME Typed, NEW t \in Threads, calls[t] # <<>>
  PROVE  LET N == Len(calls[t]) IN
         /\ N \in Nat \ {0} /\ DOMAIN calls[t] = 1 .. N /\ N \in DOMAIN calls[t]
         /\ calls[t] \in Seq(Frame)
         /\ Top(t) = calls[t][N] /\ Top(t) \in Frame
<1>1. calls[t] \in Seq(Frame) BY DEF Typed
<1>2. Len(calls[t]) \in Nat \ {0} /\ DOMAIN calls[t] = 1 .. Len(calls[t]) BY <1>1, EmptySeq
<1>3. Len(calls[t]) \in DOMAIN calls[t] BY <1>2
<1>4. Top(t) = calls[t][Len(calls[t])] BY DEF Top, Last
<1>5. calls[t][Len(calls[t])] \in Frame
  <2> DEFINE q == calls[t]
  <2>1. q \in Seq(Frame) /\ Len(q) \in DOMAIN q BY <1>1, <1>3
  <2> HIDE DEF q
  <2>2. q[Len(q)] \in Frame BY <2>1
  <2> QED BY <2>2, Zenon DEF q
<1> QED BY <1>1, <1>2, <1>3, <1>4, <1>5

LEMMA FrontCalls ==
  ASSUME NEW q \in Seq(Frame), q # <<>>
  PROVE  /\ Front(q) \in Seq(Frame) /\ Len(Front(q)) = Len(q) - 1
         /\ \A n \in 1 .. Len(q) - 1 : Front(q)[n] = q[n]
<1>1. Len(q) \in Nat \ {0} BY EmptySeq
<1>2. Front(q) = SubSeq(q, 1, Len(q) - 1) BY Zenon DEF Front
<1> DEFINE m == Len(q) - 1
           f == SubSeq(q, 1, m)
<1>3. m \in Nat /\ \A n \in 1 .. m : q[n] \in Frame BY <1>1
<1> HIDE DEF m
<1>4. m - 1 + 1 = m /\ (~(1 <= m) => m = 0) BY <1>3
<1>7. \A n \in 1 .. m : n \in Int /\ 1 + n - 1 = n OBVIOUS
<1>5. /\ f \in Seq(Frame)
      /\ Len(f) = IF 1 <= m THEN m - 1 + 1 ELSE 0
      /\ \A n \in 1 .. m - 1 + 1 : f[n] = q[1 + n - 1]
  BY <1>3, SubSeqProperties
<1> HIDE DEF f
<1>6. Len(f) = m /\ \A n \in 1 .. m : f[n] = q[n] BY <1>3, <1>4, <1>5, <1>7
<1> QED BY <1>2, <1>5, <1>6 DEF f, m

\* The innermost call of t becomes c.
LEMMA TopReplaced ==
  ASSUME Typed, NEW t \in Threads, calls[t] # <<>>, NEW c \in Frame, SetTop(t, c)
  PROVE  LET N == Len(calls[t]) IN
         /\ calls' \in [Threads -> Seq(Frame)]
         /\ \A u \in Threads \ {t} : calls'[u] = calls[u]
         /\ DOMAIN calls'[t] = DOMAIN calls[t]
         /\ \A n \in DOMAIN calls[t] : n # N => calls'[t][n] = calls[t][n]
         /\ calls'[t][N] = c
<1> DEFINE q == calls[t]
           r == Append(Front(q), c)
           N == Len(q)
<1>1. q \in Seq(Frame) /\ N \in Nat \ {0} /\ DOMAIN q = 1 .. N BY TopCall
<1>2. Front(q) \in Seq(Frame) /\ Len(Front(q)) = N - 1 /\ \A n \in 1 .. N - 1 : Front(q)[n] = q[n]
  <2> HIDE DEF q
  <2>1. q \in Seq(Frame) /\ q # <<>> BY <1>1 DEF q
  <2> QED BY <2>1, FrontCalls
<1>3. calls' = [calls EXCEPT ![t] = r] BY DEF SetTop
<1>4. r \in Seq(Frame) /\ DOMAIN r = 1 .. N /\ r[N] = c /\ \A n \in 1 .. N : n # N => r[n] = q[n]
  <2> DEFINE f == Front(q)
  <2>1. f \in Seq(Frame) /\ Len(f) = N - 1 /\ \A n \in 1 .. N - 1 : f[n] = q[n] BY <1>2
  <2> HIDE DEF f, q, N
  <2>2. Append(f, c) \in Seq(Frame) /\ Len(Append(f, c)) = N /\ Append(f, c)[N] = c
    BY <1>1, <2>1
  <2>3. \A n \in 1 .. N : n # N => Append(f, c)[n] = q[n]
    BY <1>1, <2>1
  <2> QED BY <1>1, <2>2, <2>3 DEF f
<1> HIDE DEF r
<1>5. calls' \in [Threads -> Seq(Frame)] BY <1>3, <1>4 DEF Typed
<1>6. calls'[t] = r /\ \A u \in Threads \ {t} : calls'[u] = calls[u] BY <1>3 DEF Typed
<1> QED BY <1>1, <1>4, <1>5, <1>6

\* The innermost call of t ends.
LEMMA TopRemoved ==
  ASSUME Typed, NEW t \in Threads, calls[t] # <<>>, calls' = [calls EXCEPT ![t] = Front(@)]
  PROVE  LET N == Len(calls[t]) IN
         /\ calls' \in [Threads -> Seq(Frame)]
         /\ \A u \in Threads \ {t} : calls'[u] = calls[u]
         /\ \A n \in DOMAIN calls'[t] : n \in DOMAIN calls[t] /\ n # N /\ calls'[t][n] = calls[t][n]
<1> DEFINE q == calls[t]
           r == Front(q)
           N == Len(q)
<1>1. q \in Seq(Frame) /\ N \in Nat \ {0} /\ DOMAIN q = 1 .. N BY TopCall
<1>2. r \in Seq(Frame) /\ Len(r) = N - 1 /\ \A n \in 1 .. N - 1 : r[n] = q[n]
  <2> HIDE DEF q
  <2>1. q \in Seq(Frame) /\ q # <<>> BY <1>1 DEF q
  <2> QED BY <2>1, FrontCalls
<1>3. calls' = [calls EXCEPT ![t] = r] OBVIOUS
<1> HIDE DEF r
<1>4. calls' \in [Threads -> Seq(Frame)] BY <1>2, <1>3 DEF Typed
<1>5. calls'[t] = r /\ \A u \in Threads \ {t} : calls'[u] = calls[u] BY <1>3 DEF Typed
<1>6. DOMAIN r = 1 .. N - 1 BY <1>2
<1>7. \A n \in 1 .. N - 1 : n \in 1 .. N /\ n # N BY <1>1
<1> QED BY <1>1, <1>2, <1>4, <1>5, <1>6, <1>7

\* A call of t begins.
LEMMA CallAdded ==
  ASSUME Typed, NEW t \in Threads, NEW c \in Frame, calls' = [calls EXCEPT ![t] = Append(@, c)]
  PROVE  /\ calls' \in [Threads -> Seq(Frame)]
         /\ \A u \in Threads \ {t} : calls'[u] = calls[u]
         /\ \A n \in DOMAIN calls'[t] :
               \/ n \in DOMAIN calls[t] /\ calls'[t][n] = calls[t][n]
               \/ n = Len(calls[t]) + 1 /\ calls'[t][n] = c
<1> DEFINE q == calls[t]
           r == Append(q, c)
<1>1. q \in Seq(Frame) BY DEF Typed
<1>2. calls' = [calls EXCEPT ![t] = r] OBVIOUS
<1>3. r \in Seq(Frame) /\ DOMAIN r = 1 .. Len(q) + 1 /\ r[Len(q) + 1] = c
      /\ \A n \in 1 .. Len(q) : r[n] = q[n]
  <2> HIDE DEF q
  <2> QED BY <1>1
<1>4. \A n \in 1 .. Len(q) + 1 : n \in 1 .. Len(q) \/ n = Len(q) + 1
  <2> HIDE DEF q
  <2> QED BY <1>1
<1>5. DOMAIN q = 1 .. Len(q) BY <1>1
<1> HIDE DEF r
<1>6. calls' \in [Threads -> Seq(Frame)] BY <1>2, <1>3 DEF Typed
<1>7. calls'[t] = r /\ \A u \in Threads \ {t} : calls'[u] = calls[u] BY <1>2 DEF Typed
<1> QED BY <1>3, <1>4, <1>5, <1>6, <1>7

-----------------------------------------------------------------------------
(* Steps that change no table.                                              *)

\* What is sound stays so as long as its table does not change.
LEMMA SoundStays ==
  ASSUME NEW c, Sound(c), entries'[c.table] = entries[c.table], mutable'[c.table] = mutable[c.table]
  PROVE  Sound(c)'
  BY DEF Sound, Knows

LEMMA TopStep ==
  ASSUME Inv, NEW t \in Threads, calls[t] # <<>>, NEW c \in Frame, SetTop(t, c),
         c.op = Top(t).op, c.table = Top(t).table,
         Sound(c),
         Claims(c) => Claims(Top(t)) \/ ~Claimed(c.table),
         Writes(c) => Writes(Top(t)) \/ MayWrite(c.table),
         Reads(c) => Reads(Top(t)) \/ ~Claimed(c.table),
         UNCHANGED <<entries, mutable>>
  PROVE  Inv'
<1> DEFINE N == Len(calls[t])
<1>0. Typed /\ OneEntry /\ Locked /\ AllSound BY DEF Inv
<1>1. N \in DOMAIN calls[t] /\ Top(t) = calls[t][N] BY <1>0, TopCall
<1>2. /\ calls' \in [Threads -> Seq(Frame)]
      /\ \A u \in Threads \ {t} : calls'[u] = calls[u]
      /\ DOMAIN calls'[t] = DOMAIN calls[t]
      /\ \A n \in DOMAIN calls[t] : n # N => calls'[t][n] = calls[t][n]
      /\ calls'[t][N] = c
  BY <1>0, TopReplaced
<1> HIDE DEF N
<1>3. \A u \in Threads : \A i \in DOMAIN calls'[u] :
        /\ i \in DOMAIN calls[u]
        /\ \/ u = t /\ i = N /\ calls'[u][i] = c
           \/ ~(u = t /\ i = N) /\ calls'[u][i] = calls[u][i]
  BY <1>2
<1>4. Typed' BY <1>0, <1>2 DEF Typed
<1>5. OneEntry' BY <1>0 DEF OneEntry
<1>6. AllSound'
  <2>1. \A d \in Frame : Sound(d) => Sound(d)' BY DEF Sound, Knows
  <2>2. \A u \in Threads : \A i \in DOMAIN calls'[u] : calls'[u][i] \in Frame /\ Sound(calls'[u][i])
    BY <1>0, <1>3, CallTyped DEF AllSound
  <2> QED BY <2>1, <2>2 DEF AllSound
<1>7. \A u \in Threads : \A i \in DOMAIN calls[u] :
        /\ ~Claimed(calls[u][i].table) => ~Claims(calls[u][i])
        /\ MayWrite(calls[u][i].table) => ~Reads(calls[u][i])
  BY DEF Claimed, MayWrite, Working, Claims, Reads, Held, Phases
<1>8. \A d : Writes(d) => Claims(d) BY DEF Writes, Claims
<1>9. Locked'
  <2> SUFFICES ASSUME NEW u \in Threads, NEW v \in Threads,
                      NEW i \in DOMAIN calls'[u], NEW j \in DOMAIN calls'[v],
                      calls'[u][i].table = calls'[v][j].table
               PROVE  /\ Claims(calls'[u][i]) /\ Claims(calls'[v][j]) => u = v /\ i = j
                      /\ ~(Writes(calls'[u][i]) /\ Reads(calls'[v][j]))
    BY DEF Locked, Claims, Writes, Reads
  <2>1. CASE u = t /\ i = N /\ v = t /\ j = N
    BY <1>3, <2>1 DEF Writes, Reads, ReadOps, WriteOps
  <2>2. CASE ~(u = t /\ i = N) /\ ~(v = t /\ j = N)
    BY <1>0, <1>3, <2>2 DEF Locked
  <2>3. CASE u = t /\ i = N /\ ~(v = t /\ j = N)
    <3>1. calls'[v][j] = calls[v][j] /\ j \in DOMAIN calls[v] /\ calls'[u][i] = c BY <1>3, <2>3
    <3>2. calls[v][j].table = calls[t][N].table BY <1>1, <2>3, <3>1
    <3>3. /\ Claims(calls[t][N]) /\ Claims(calls[v][j]) => t = v /\ N = j
          /\ ~(Writes(calls[t][N]) /\ Reads(calls[v][j]))
      BY <1>0, <1>1, <3>1, <3>2 DEF Locked
    <3>4. Claims(c) => ~Claims(calls[v][j])
      BY <1>1, <1>7, <2>3, <3>1, <3>2, <3>3
    <3>5. Writes(c) => ~Reads(calls[v][j])
      BY <1>1, <1>7, <2>3, <3>1, <3>2, <3>3
    <3> QED BY <3>1, <3>4, <3>5
  <2>4. CASE ~(u = t /\ i = N) /\ v = t /\ j = N
    <3>1. calls'[u][i] = calls[u][i] /\ i \in DOMAIN calls[u] /\ calls'[v][j] = c BY <1>3, <2>4
    <3>2. calls[u][i].table = calls[t][N].table BY <1>1, <2>4, <3>1
    <3>3. /\ Claims(calls[t][N]) /\ Claims(calls[u][i]) => t = u /\ N = i
          /\ ~(Writes(calls[u][i]) /\ Reads(calls[t][N]))
      BY <1>0, <1>1, <3>1, <3>2 DEF Locked
    <3>4. Claims(c) => ~Claims(calls[u][i])
      BY <1>1, <1>7, <2>4, <3>1, <3>2, <3>3
    <3>5. Reads(c) => ~Writes(calls[u][i])
      BY <1>1, <1>7, <1>8, <2>4, <3>1, <3>2, <3>3
    <3> QED BY <3>1, <3>4, <3>5
  <2> QED BY <2>1, <2>2, <2>3, <2>4
<1> QED BY <1>4, <1>5, <1>6, <1>9 DEF Inv

\* Calls that are there after the step were there before: one that ends, or none.
LEMMA FewerCalls ==
  ASSUME Typed, Locked, calls' \in [Threads -> Seq(Frame)],
         \A u \in Threads : \A i \in DOMAIN calls'[u] :
            i \in DOMAIN calls[u] /\ calls'[u][i] = calls[u][i]
  PROVE  Locked'
<1> SUFFICES ASSUME NEW u \in Threads, NEW v \in Threads,
                    NEW i \in DOMAIN calls'[u], NEW j \in DOMAIN calls'[v],
                    calls'[u][i].table = calls'[v][j].table
             PROVE  /\ Claims(calls'[u][i]) /\ Claims(calls'[v][j]) => u = v /\ i = j
                    /\ ~(Writes(calls'[u][i]) /\ Reads(calls'[v][j]))
  BY DEF Locked, Claims, Writes, Reads
<1> QED BY DEF Locked

LEMMA PopStep ==
  ASSUME Inv, NEW t \in Threads, calls[t] # <<>>, calls' = [calls EXCEPT ![t] = Front(@)],
         UNCHANGED <<entries, mutable>>
  PROVE  Inv'
<1>0. Typed /\ OneEntry /\ Locked /\ AllSound BY DEF Inv
<1>1. /\ calls' \in [Threads -> Seq(Frame)]
      /\ \A u \in Threads \ {t} : calls'[u] = calls[u]
      /\ \A n \in DOMAIN calls'[t] : n \in DOMAIN calls[t] /\ calls'[t][n] = calls[t][n]
  BY <1>0, TopRemoved
<1>2. \A u \in Threads : \A i \in DOMAIN calls'[u] : i \in DOMAIN calls[u] /\ calls'[u][i] = calls[u][i]
  BY <1>1
<1>3. Locked' BY <1>0, <1>1, <1>2, FewerCalls
<1>4. Typed' BY <1>0, <1>1 DEF Typed
<1>5. OneEntry' BY <1>0 DEF OneEntry
<1>6. AllSound'
  <2>1. \A d \in Frame : Sound(d) => Sound(d)' BY DEF Sound, Knows
  <2>2. \A u \in Threads : \A i \in DOMAIN calls'[u] : calls'[u][i] \in Frame /\ Sound(calls'[u][i])
    BY <1>0, <1>2, CallTyped DEF AllSound
  <2> QED BY <2>1, <2>2 DEF AllSound
<1> QED BY <1>3, <1>4, <1>5, <1>6 DEF Inv

-----------------------------------------------------------------------------
(* Steps that change a table.                                               *)

\* h and its entries change when no call on h has the lock; no call begins.
LEMMA ChangeStep ==
  ASSUME Inv, calls' \in [Threads -> Seq(Frame)],
         \A u \in Threads : \A i \in DOMAIN calls'[u] :
            i \in DOMAIN calls[u] /\ calls'[u][i] = calls[u][i],
         NEW h \in Tables, NEW E \in SUBSET Entry, entries' = [entries EXCEPT ![h] = E],
         \A e \in E : e.hash = Hash[e.key] /\ \A f \in E : Class[e.key] = Class[f.key] => e = f,
         mutable' \in [Tables -> BOOLEAN], \A g \in Tables \ {h} : mutable'[g] = mutable[g],
         \A u \in Threads : \A i \in DOMAIN calls'[u] : calls[u][i].table = h =>
            calls[u][i].phase \in {"ask", "drain"} /\ (calls[u][i].op \in Changing => mutable'[h])
  PROVE  Inv'
<1>0. Typed /\ OneEntry /\ Locked /\ AllSound BY DEF Inv
<1>1. Locked' BY <1>0, FewerCalls
<1>2. entries' \in [Tables -> SUBSET Entry] BY <1>0 DEF Typed
<1>3. /\ entries'[h] = E
      /\ \A g \in Tables : g # h => entries'[g] = entries[g] /\ mutable'[g] = mutable[g]
  BY <1>0 DEF Typed
<1>4. Typed' BY <1>2 DEF Typed
<1>5. OneEntry' BY <1>0, <1>3 DEF OneEntry
<1>6. AllSound'
  <2>1. \A d \in Frame : Sound(d) /\ d.table # h => Sound(d)'
    BY <1>3 DEF Sound, Knows, Frame
  <2>2. \A d \in Frame : Sound(d) /\ d.table = h /\ d.phase \in {"ask", "drain"}
                         /\ (d.op \in Changing => mutable'[h])
                         => Sound(d)'
    BY <1>3 DEF Sound, Frame
  <2>3. \A u \in Threads : \A i \in DOMAIN calls'[u] :
          /\ calls'[u][i] \in Frame /\ Sound(calls'[u][i])
          /\ calls'[u][i].table = h =>
                calls'[u][i].phase \in {"ask", "drain"} /\ (calls'[u][i].op \in Changing => mutable'[h])
    BY <1>0, CallTyped DEF AllSound
  <2> QED BY <2>1, <2>2, <2>3 DEF AllSound
<1> QED BY <1>1, <1>4, <1>5, <1>6 DEF Inv

\* Among the entries that a search did not find, none is of the class it looked for.
LEMMA OthersDiffer ==
  ASSUME OneEntry, NEW c \in Frame, Knows(c), c.left = {}
  PROVE  /\ \A e \in entries[c.table] \ c.found : Class[e.key] # Class[c.key]
         /\ c.found \subseteq entries[c.table]
         /\ \A e \in c.found : Class[e.key] = Class[c.key] /\ c.found = {e}
<1>1. c.table \in Tables BY DEF Frame
<1> QED BY <1>1 DEF OneEntry, Knows

\* The entry that a call makes.
LEMMA EntryMade ==
  ASSUME OneEntry, entries \in [Tables -> SUBSET Entry], NEW c \in Frame, Knows(c), c.left = {},
         NEW v \in Values
  PROVE  LET e == NewEntry(c, v) IN
         /\ e \in Entry /\ e.val = v /\ e.hash = Hash[e.key] /\ Class[e.key] = Class[c.key]
         /\ c.found = {} => e.key = c.key
         /\ \A f \in c.found : e.key = f.key
<1>1. c.key \in Keys /\ c.table \in Tables BY DEF Frame
<1>2. CASE c.found = {}
  BY <1>1, <1>2, Zenon DEF NewEntry, Entry
<1>3. ASSUME NEW f \in c.found PROVE
         /\ f \in Entry /\ Class[f.key] = Class[c.key] /\ c.found = {f}
  BY <1>1, <1>3, OthersDiffer
<1>4. CASE c.found # {}
  <2>1. PICK f \in c.found : TRUE BY <1>4
  <2>2. f \in Entry /\ Class[f.key] = Class[c.key] /\ c.found = {f} BY <1>3
  <2>3. (CHOOSE e \in c.found : TRUE) = f BY <2>2
  <2>4. f.key \in Keys /\ Hash[f.key] = Hash[c.key] BY <1>1, <2>2, HashFitsClass DEF Entry
  <2>5. NewEntry(c, v) = [key |-> f.key, val |-> v, hash |-> Hash[c.key]] BY <1>4, <2>3 DEF NewEntry
  <2>6. [key |-> f.key, val |-> v, hash |-> Hash[c.key]] \in Entry BY <1>1, <2>4 DEF Entry
  <2> QED BY <1>4, <2>2, <2>4, <2>5, <2>6
<1> QED BY <1>2, <1>4

\* The innermost call of t puts new in the place of what it has found, and ends.
LEMMA WriteStep ==
  ASSUME Inv, NEW t \in Threads, calls[t] # <<>>, Writes(Top(t)), Knows(Top(t)), Top(t).left = {},
         NEW new \in SUBSET Entry,
         \A e \in new : e.hash = Hash[e.key] /\ Class[e.key] = Class[Top(t).key] /\ new = {e},
         Replace(Top(t).table, Top(t).found, new),
         calls' = [calls EXCEPT ![t] = Front(@)], UNCHANGED mutable
  PROVE  Inv'
<1> DEFINE c == Top(t)
           h == c.table
           N == Len(calls[t])
           E == (entries[h] \ c.found) \cup new
<1>0. Typed /\ OneEntry /\ Locked /\ AllSound BY DEF Inv
<1>1. c \in Frame /\ N \in DOMAIN calls[t] /\ c = calls[t][N] BY <1>0, TopCall
<1>2. h \in Tables BY <1>1 DEF Frame
<1>3. /\ calls' \in [Threads -> Seq(Frame)]
      /\ \A u \in Threads \ {t} : calls'[u] = calls[u]
      /\ \A n \in DOMAIN calls'[t] : n \in DOMAIN calls[t] /\ n # N /\ calls'[t][n] = calls[t][n]
  BY <1>0, TopRemoved
<1>4. Writes(c) /\ Knows(c) /\ c.left = {} OBVIOUS
<1>5. entries' = [entries EXCEPT ![h] = E] BY DEF Replace
<1>6. \A e \in new : e.hash = Hash[e.key] /\ Class[e.key] = Class[c.key] /\ new = {e} OBVIOUS
<1> HIDE DEF c, N
<1>7. E \in SUBSET Entry
  <2>1. entries[h] \in SUBSET Entry BY <1>0, <1>2 DEF Typed
  <2> QED BY <2>1
<1>8. \A e \in E : e.hash = Hash[e.key] /\ \A f \in E : Class[e.key] = Class[f.key] => e = f
  <2>1. \A e \in entries[h] \ c.found : Class[e.key] # Class[c.key]
    BY <1>0, <1>1, <1>4, OthersDiffer
  <2>2. \A e \in entries[h] : e.hash = Hash[e.key]
                            /\ \A f \in entries[h] : Class[e.key] = Class[f.key] => e = f
    BY <1>0, <1>2 DEF OneEntry
  <2> QED BY <1>6, <2>1, <2>2
<1>9. \A u \in Threads : \A i \in DOMAIN calls'[u] :
        i \in DOMAIN calls[u] /\ ~(u = t /\ i = N) /\ calls'[u][i] = calls[u][i]
  BY <1>3
<1>10. \A u \in Threads : \A i \in DOMAIN calls'[u] : calls[u][i].table = h =>
          calls[u][i].phase \in {"ask", "drain"} /\ (calls[u][i].op \in Changing => mutable[h])
  <2> SUFFICES ASSUME NEW u \in Threads, NEW i \in DOMAIN calls'[u], calls[u][i].table = h
               PROVE  calls[u][i].phase \in {"ask", "drain"}
                      /\ (calls[u][i].op \in Changing => mutable[h])
    OBVIOUS
  <2>1. i \in DOMAIN calls[u] /\ ~(u = t /\ i = N) BY <1>9
  <2>2. calls[u][i] \in Frame /\ Sound(calls[u][i]) BY <1>0, <2>1, CallTyped DEF AllSound
  <2>3. Claims(calls[t][N]) BY <1>1, <1>4 DEF Claims, Writes
  <2>4. ~Claims(calls[u][i]) /\ ~Reads(calls[u][i])
    BY <1>0, <1>1, <1>4, <2>1, <2>3 DEF Locked
  <2>5. calls[u][i].phase \in {"ask", "drain"}
    BY <2>2, <2>4 DEF Frame, Phases, Claims, Reads
  <2>6. calls[u][i].op \in Changing => mutable[h] BY <2>2 DEF Sound
  <2> QED BY <2>5, <2>6
<1>11. mutable' \in [Tables -> BOOLEAN] /\ \A g \in Tables : mutable'[g] = mutable[g]
  BY <1>0 DEF Typed
<1>12. \A u \in Threads : \A i \in DOMAIN calls'[u] :
          i \in DOMAIN calls[u] /\ calls'[u][i] = calls[u][i]
  BY <1>9
<1>13. calls' \in [Threads -> Seq(Frame)] BY <1>3
<1> HIDE DEF E, h
<1>14. \A u \in Threads : \A i \in DOMAIN calls'[u] : calls[u][i].table = h =>
          calls[u][i].phase \in {"ask", "drain"} /\ (calls[u][i].op \in Changing => mutable'[h])
  BY <1>2, <1>10, <1>11
<1>15. mutable' \in [Tables -> BOOLEAN] /\ \A g \in Tables \ {h} : mutable'[g] = mutable[g]
  BY <1>11
<1>16. /\ \A u \in Threads : \A i \in DOMAIN calls'[u] :
            i \in DOMAIN calls[u] /\ calls'[u][i] = calls[u][i]
       /\ \A e \in E : e.hash = Hash[e.key] /\ \A f \in E : Class[e.key] = Class[f.key] => e = f
       /\ \A u \in Threads : \A i \in DOMAIN calls'[u] : calls[u][i].table = h =>
            calls[u][i].phase \in {"ask", "drain"} /\ (calls[u][i].op \in Changing => mutable'[h])
  BY <1>8, <1>12, <1>14
<1> QED BY <1>2, <1>5, <1>7, <1>13, <1>15, <1>16, ChangeStep, ZenonT(30)

-----------------------------------------------------------------------------
(* The invariant.                                                           *)

LEMMA InvInit == TableInit => Inv
<1> SUFFICES ASSUME TableInit PROVE Inv OBVIOUS
<1>1. \A t \in Threads : calls[t] = <<>> /\ DOMAIN calls[t] = {} BY DEF TableInit
<1>2. calls \in [Threads -> Seq(Frame)] BY DEF TableInit
<1>3. \A h \in Tables : entries[h] = {} BY DEF TableInit
<1> QED BY <1>1, <1>2, <1>3 DEF TableInit, Inv, Typed, OneEntry, Locked, AllSound

LEMMA InvUnchanged == Inv /\ UNCHANGED <<entries, mutable, calls>> => Inv'
<1> SUFFICES ASSUME Inv, UNCHANGED <<entries, mutable, calls>> PROVE Inv' OBVIOUS
<1>1. \A d : Sound(d) => Sound(d)' BY DEF Sound, Knows
<1>2. AllSound' BY <1>1 DEF Inv, AllSound
<1> QED BY <1>2 DEF Inv, Typed, OneEntry, Locked, Claims, Writes, Reads

LEMMA CallStep ==
  ASSUME Inv, NEW t \in Threads, NEW h \in Tables, NEW op \in ReadOps \cup WriteOps,
         NEW k \in Keys, NEW v \in Values, Call(t, h, op, k, v)
  PROVE  Inv'
<1> DEFINE c == [op |-> op, table |-> h, key |-> k, val |-> v, phase |-> "ask", left |-> {}, found |-> {}]
<1>0. Typed /\ OneEntry /\ Locked /\ AllSound BY DEF Inv
<1>1. c \in Frame BY DEF Frame, Phases
<1>2. calls' = [calls EXCEPT ![t] = Append(@, c)] /\ UNCHANGED <<entries, mutable>> BY DEF Call
<1>3. Sound(c) /\ ~Claims(c) /\ ~Writes(c) /\ ~Reads(c)
  BY DEF Sound, Claims, Writes, Reads, Call
<1> HIDE DEF c
<1>4. /\ calls' \in [Threads -> Seq(Frame)]
      /\ \A u \in Threads : \A i \in DOMAIN calls'[u] :
            \/ i \in DOMAIN calls[u] /\ calls'[u][i] = calls[u][i]
            \/ calls'[u][i] = c
  <2>1. /\ calls' \in [Threads -> Seq(Frame)]
        /\ \A u \in Threads \ {t} : calls'[u] = calls[u]
        /\ \A n \in DOMAIN calls'[t] :
              \/ n \in DOMAIN calls[t] /\ calls'[t][n] = calls[t][n]
              \/ n = Len(calls[t]) + 1 /\ calls'[t][n] = c
    BY <1>0, <1>1, <1>2, CallAdded
  <2> QED BY <2>1
<1>5. Typed' BY <1>0, <1>2, <1>4 DEF Typed
<1>6. OneEntry' BY <1>0, <1>2 DEF OneEntry
<1>7. AllSound'
  <2>1. \A d \in Frame : Sound(d) => Sound(d)' BY <1>2 DEF Sound, Knows
  <2>2. \A u \in Threads : \A i \in DOMAIN calls'[u] : calls'[u][i] \in Frame /\ Sound(calls'[u][i])
    BY <1>0, <1>1, <1>3, <1>4, CallTyped DEF AllSound
  <2> QED BY <2>1, <2>2 DEF AllSound
<1>8. Locked'
  <2> SUFFICES ASSUME NEW u \in Threads, NEW w \in Threads,
                      NEW i \in DOMAIN calls'[u], NEW j \in DOMAIN calls'[w],
                      calls'[u][i].table = calls'[w][j].table
               PROVE  /\ Claims(calls'[u][i]) /\ Claims(calls'[w][j]) => u = w /\ i = j
                      /\ ~(Writes(calls'[u][i]) /\ Reads(calls'[w][j]))
    BY DEF Locked, Claims, Writes, Reads
  <2>1. CASE calls'[u][i] = c \/ calls'[w][j] = c BY <1>3, <2>1
  <2>2. CASE calls'[u][i] # c /\ calls'[w][j] # c
    <3>1. /\ i \in DOMAIN calls[u] /\ calls'[u][i] = calls[u][i]
          /\ j \in DOMAIN calls[w] /\ calls'[w][j] = calls[w][j]
      BY <1>4, <2>2
    <3> QED BY <1>0, <3>1 DEF Locked
  <2> QED BY <2>1, <2>2
<1> QED BY <1>5, <1>6, <1>7, <1>8 DEF Inv

LEMMA LockStep == ASSUME Inv, NEW t \in Threads, Lock(t) PROVE Inv'
<1>0. Typed /\ OneEntry /\ Locked /\ AllSound BY DEF Inv
<1>1. calls[t] # <<>> /\ UNCHANGED <<entries, mutable>> BY DEF Lock, In
<1> DEFINE c == Top(t)
<1>2. c \in Frame /\ Sound(c) BY <1>0, <1>1, TopCall DEF AllSound
<1>3. CASE In(t, "ask") /\ Top(t).op \in ReadOps /\ MayRead(Top(t).table)
           /\ SetTop(t, [Top(t) EXCEPT !.phase = "hash"])
  <2> DEFINE d == [c EXCEPT !.phase = "hash"]
  <2>1. d \in Frame BY <1>2 DEF Frame, Phases
  <2>2. d.op = c.op /\ d.table = c.table /\ d.phase = "hash" /\ d.found = c.found BY <1>2 DEF Frame
  <2>3. Sound(d) BY <1>2, <1>3, <2>2 DEF Sound, In
  <2>4. ~Claims(d) /\ ~Writes(d) /\ ~Claimed(d.table)
    BY <1>3, <2>2 DEF Claims, Writes, ReadOps, WriteOps, MayRead
  <2>5. SetTop(t, d) BY <1>3
  <2> HIDE DEF d
  <2> QED BY <1>1, <2>1, <2>2, <2>3, <2>4, <2>5, TopStep
<1>4. CASE In(t, "ask") /\ Top(t).op \in WriteOps /\ MayClaim(Top(t).table)
           /\ SetTop(t, [Top(t) EXCEPT !.phase = "drain"])
  <2> DEFINE d == [c EXCEPT !.phase = "drain"]
  <2>1. d \in Frame BY <1>2 DEF Frame, Phases
  <2>2. d.op = c.op /\ d.table = c.table /\ d.phase = "drain" /\ d.found = c.found BY <1>2 DEF Frame
  <2>3. Sound(d) BY <1>2, <1>4, <2>2 DEF Sound, In
  <2>4. ~Writes(d) /\ ~Reads(d) /\ ~Claimed(d.table)
    BY <1>4, <2>2 DEF Writes, Reads, MayClaim
  <2>5. SetTop(t, d) BY <1>4
  <2> HIDE DEF d
  <2> QED BY <1>1, <2>1, <2>2, <2>3, <2>4, <2>5, TopStep
<1>5. CASE In(t, "drain") /\ MayWrite(Top(t).table)
           /\ SetTop(t, [Top(t) EXCEPT !.phase = "hash"])
  <2> DEFINE d == [c EXCEPT !.phase = "hash"]
  <2>1. d \in Frame BY <1>2 DEF Frame, Phases
  <2>2. d.op = c.op /\ d.table = c.table /\ d.phase = "hash" /\ d.found = c.found BY <1>2 DEF Frame
  <2>3. Sound(d) BY <1>2, <1>5, <2>2 DEF Sound, In
  <2>4. MayWrite(d.table) BY <1>5, <2>2
  <2>5. SetTop(t, d) BY <1>5
  <2>6. Claims(d) => Claims(c) BY <1>5, <2>2 DEF Claims, In
  <2>7. ~Reads(d) BY <1>2, <1>5, <2>2 DEF Sound, Reads, ReadOps, WriteOps, In
  <2> HIDE DEF d
  <2> QED BY <1>1, <2>1, <2>2, <2>3, <2>4, <2>5, <2>6, <2>7, TopStep
<1> QED BY <1>3, <1>4, <1>5 DEF Lock

LEMMA HashReturnsStep == ASSUME Inv, NEW t \in Threads, HashReturns(t) PROVE Inv'
<1>0. Typed /\ OneEntry /\ Locked /\ AllSound BY DEF Inv
<1>1. calls[t] # <<>> /\ UNCHANGED <<entries, mutable>> BY DEF HashReturns, In
<1> DEFINE c == Top(t)
           b == Bucket(c.table, Hash[c.key])
           d == [c EXCEPT !.phase = "eq", !.left = b]
<1>2. c \in Frame /\ Sound(c) /\ c.phase = "hash" BY <1>0, <1>1, TopCall DEF AllSound, HashReturns, In
<1>3. c.key \in Keys /\ c.table \in Tables BY <1>2 DEF Frame
<1>4. /\ b \subseteq entries[c.table] /\ b \in SUBSET Entry
      /\ \A e \in entries[c.table] : Class[e.key] = Class[c.key] => e \in b
  <2>1. entries[c.table] \in SUBSET Entry BY <1>0, <1>3 DEF Typed
  <2>2. \A e \in entries[c.table] : e.key \in Keys /\ e.hash = Hash[e.key]
    BY <1>0, <1>3, <2>1 DEF OneEntry, Entry
  <2> QED BY <1>3, <2>1, <2>2, HashFitsClass DEF Bucket
<1>5. SetTop(t, d) BY DEF HashReturns
<1> HIDE DEF b
<1>6. d \in Frame BY <1>2, <1>4 DEF Frame, Phases
<1>7. /\ d.op = c.op /\ d.table = c.table /\ d.phase = "eq" /\ d.found = c.found
      /\ d.left = b /\ d.key = c.key
  BY <1>2 DEF Frame
<1>8. Knows(d) BY <1>2, <1>4, <1>7 DEF Knows, Sound
<1>9. Sound(d) BY <1>2, <1>7, <1>8 DEF Sound
<1>10. Claims(d) => Claims(c) BY <1>2, <1>7 DEF Claims
<1>11. Writes(d) => Writes(c) BY <1>2, <1>7 DEF Writes
<1>12. Reads(d) => Reads(c) BY <1>2, <1>7 DEF Reads
<1> HIDE DEF d
<1> QED BY <1>1, <1>5, <1>6, <1>7, <1>9, <1>10, <1>11, <1>12, TopStep

LEMMA EqReturnsStep == ASSUME Inv, NEW t \in Threads, EqReturns(t) PROVE Inv'
<1>0. Typed /\ OneEntry /\ Locked /\ AllSound BY DEF Inv
<1>1. calls[t] # <<>> /\ UNCHANGED <<entries, mutable>> BY DEF EqReturns, In
<1> DEFINE c == Top(t)
<1>2. c \in Frame /\ Sound(c) /\ c.phase = "eq" /\ c.found = {}
  BY <1>0, <1>1, TopCall DEF AllSound, EqReturns, In
<1>3. Knows(c) BY <1>2 DEF Sound
<1>4. PICK e \in c.left :
          IF Class[e.key] = Class[c.key]
          THEN SetTop(t, [c EXCEPT !.found = {e}, !.left = {},
                                   !.phase = IF c.op = "update" THEN "proc" ELSE "eq"])
          ELSE SetTop(t, [c EXCEPT !.left = @ \ {e}])
  BY DEF EqReturns
<1>5. e \in Entry /\ c.left \subseteq Entry BY <1>2, <1>4 DEF Frame
<1>6. c.left \subseteq entries[c.table]
      /\ \A f \in entries[c.table] : Class[f.key] = Class[c.key] => f \in c.left
  BY <1>2, <1>3 DEF Knows
<1>7. CASE Class[e.key] = Class[c.key]
  <2> DEFINE p == IF c.op = "update" THEN "proc" ELSE "eq"
             d == [c EXCEPT !.found = {e}, !.left = {}, !.phase = p]
  <2>1. p \in {"eq", "proc"} /\ (p = "proc" => c.op = "update") OBVIOUS
  <2>2. SetTop(t, d) BY <1>4, <1>7
  <2> HIDE DEF p
  <2>3. d \in Frame BY <1>2, <1>5, <2>1 DEF Frame, Phases
  <2>4. /\ d.op = c.op /\ d.table = c.table /\ d.phase = p /\ d.found = {e}
        /\ d.left = {} /\ d.key = c.key
    BY <1>2 DEF Frame
  <2>5. Knows(d) BY <1>4, <1>6, <1>7, <2>4 DEF Knows
  <2>6. Sound(d) BY <1>2, <2>1, <2>4, <2>5 DEF Sound
  <2>8. Claims(d) => Claims(c) BY <1>2, <2>4 DEF Claims
  <2>9. Writes(d) => Writes(c) BY <1>2, <2>4 DEF Writes
  <2>10. Reads(d) => Reads(c) BY <1>2, <2>4 DEF Reads
  <2> HIDE DEF d
  <2> QED BY <1>1, <2>2, <2>3, <2>4, <2>6, <2>8, <2>9, <2>10, TopStep
<1>8. CASE Class[e.key] # Class[c.key]
  <2> DEFINE d == [c EXCEPT !.left = c.left \ {e}]
  <2>1. SetTop(t, d) BY <1>2, <1>4, <1>8 DEF Frame
  <2>2. d \in Frame BY <1>2, <1>5 DEF Frame
  <2>3. /\ d.op = c.op /\ d.table = c.table /\ d.phase = c.phase /\ d.found = c.found
        /\ d.left = c.left \ {e} /\ d.key = c.key
    BY <1>2 DEF Frame
  <2>4. Knows(d) BY <1>2, <1>6, <1>8, <2>3 DEF Knows
  <2>5. Sound(d) BY <1>2, <2>3, <2>4 DEF Sound
  <2>6. Claims(d) => Claims(c) BY <2>3 DEF Claims
  <2>7. Writes(d) => Writes(c) BY <2>3 DEF Writes
  <2>8. Reads(d) => Reads(c) BY <2>3 DEF Reads
  <2> HIDE DEF d
  <2> QED BY <1>1, <2>1, <2>2, <2>3, <2>5, <2>6, <2>7, <2>8, TopStep
<1> QED BY <1>7, <1>8

LEMMA BeginProcStep == ASSUME Inv, NEW t \in Threads, BeginProc(t) PROVE Inv'
<1>0. Typed /\ OneEntry /\ Locked /\ AllSound BY DEF Inv
<1>1. calls[t] # <<>> /\ UNCHANGED <<entries, mutable>> BY DEF BeginProc, Searched, In
<1> DEFINE c == Top(t)
           d == [c EXCEPT !.phase = "proc"]
<1>2. c \in Frame /\ Sound(c) /\ c.phase = "eq" /\ c.op = "update" /\ c.left = {}
  BY <1>0, <1>1, TopCall DEF AllSound, BeginProc, Searched, In
<1>3. SetTop(t, d) BY DEF BeginProc
<1>4. d \in Frame BY <1>2 DEF Frame, Phases
<1>5. /\ d.op = c.op /\ d.table = c.table /\ d.phase = "proc" /\ d.found = c.found
      /\ d.left = c.left /\ d.key = c.key
  BY <1>2 DEF Frame
<1>6. Knows(d) BY <1>2, <1>5 DEF Sound, Knows
<1>7. Sound(d) BY <1>2, <1>5, <1>6 DEF Sound
<1>8. Claims(d) => Claims(c) BY <1>2, <1>5 DEF Claims
<1>9. Writes(d) => Writes(c) BY <1>2, <1>5 DEF Writes
<1>10. Reads(d) => Reads(c) BY <1>2, <1>5 DEF Reads
<1> HIDE DEF d
<1> QED BY <1>1, <1>3, <1>4, <1>5, <1>7, <1>8, <1>9, <1>10, TopStep

\* What holds of the innermost call when it has searched, or when its last procedure returns.
LEMMA SearchDone ==
  ASSUME Inv, NEW t \in Threads, (In(t, "eq") /\ Top(t).left = {}) \/ In(t, "proc")
  PROVE  /\ calls[t] # <<>> /\ Top(t) \in Frame /\ Sound(Top(t)) /\ Knows(Top(t)) /\ Top(t).left = {}
         /\ Top(t).op \in WriteOps => Writes(Top(t))
         /\ In(t, "proc") => Top(t).op = "update"
<1>0. Typed /\ AllSound BY DEF Inv
<1>1. calls[t] # <<>> /\ Top(t).phase \in {"eq", "proc"} BY DEF In
<1>2. Top(t) \in Frame /\ Sound(Top(t)) BY <1>0, <1>1, TopCall DEF AllSound
<1>3. Knows(Top(t)) /\ Top(t).left = {} BY <1>2 DEF In, Sound
<1>4. Top(t).op \in WriteOps => Writes(Top(t)) BY <1>1 DEF Writes
<1>5. In(t, "proc") => Top(t).op = "update" BY <1>2 DEF In, Sound
<1> QED BY <1>1, <1>2, <1>3, <1>4, <1>5

\* The innermost call of t ends, having put new in the place of what it has found.
LEMMA WritesEnd ==
  ASSUME Inv, NEW t \in Threads, NEW v \in Values,
         \/ EndSet(t) /\ v = Top(t).val
         \/ EndDelete(t)
         \/ In(t, "proc") /\ Replace(Top(t).table, Top(t).found, {NewEntry(Top(t), v)})
            /\ Return(t, Done) /\ UNCHANGED mutable
  PROVE  Inv'
<1> DEFINE c == Top(t)
           e == NewEntry(c, v)
<1>0. OneEntry /\ entries \in [Tables -> SUBSET Entry] BY DEF Inv, Typed
<1>1. (In(t, "eq") /\ Top(t).left = {}) \/ In(t, "proc") BY DEF EndSet, EndDelete, Searched
<1>2. /\ calls[t] # <<>> /\ c \in Frame /\ Sound(c) /\ Knows(c) /\ c.left = {}
      /\ c.op \in WriteOps => Writes(c)
      /\ In(t, "proc") => c.op = "update"
  BY <1>1, SearchDone
<1>3. Writes(c) BY <1>2 DEF EndSet, EndDelete, Searched, WriteOps
<1>4. e \in Entry /\ e.hash = Hash[e.key] /\ Class[e.key] = Class[c.key]
  BY <1>0, <1>2, EntryMade
<1>5. calls' = [calls EXCEPT ![t] = Front(@)] /\ UNCHANGED mutable BY DEF EndSet, EndDelete, Return
<1>6. Replace(c.table, c.found, {e}) \/ Replace(c.table, c.found, {}) BY DEF EndSet, EndDelete
<1> DEFINE one == {e}
<1>7. one \in SUBSET Entry
      /\ \A f \in one : f.hash = Hash[f.key] /\ Class[f.key] = Class[c.key] /\ one = {f}
  BY <1>4
<1> HIDE DEF e
<1>8. CASE Replace(c.table, c.found, one)
  <2> HIDE DEF one
  <2> QED BY <1>2, <1>3, <1>5, <1>7, <1>8, WriteStep
<1>9. CASE Replace(c.table, c.found, {})
  <2>1. {} \in SUBSET Entry
        /\ \A f \in {} : f.hash = Hash[f.key] /\ Class[f.key] = Class[c.key] /\ {} = {f}
    OBVIOUS
  <2> QED BY <1>2, <1>3, <1>5, <1>9, <2>1, WriteStep
<1> QED BY <1>6, <1>8, <1>9

LEMMA ClearStep == ASSUME Inv, NEW t \in Threads, NEW h \in Tables, Clear(t, h) PROVE Inv'
<1>0. Typed /\ OneEntry /\ Locked /\ AllSound BY DEF Inv
<1>1. entries' = [entries EXCEPT ![h] = {}] /\ calls' = calls /\ mutable' = mutable /\ mutable[h]
  BY DEF Clear
<1>2. /\ calls' \in [Threads -> Seq(Frame)]
      /\ mutable' \in [Tables -> BOOLEAN] /\ \A g \in Tables \ {h} : mutable'[g] = mutable[g]
      /\ \A u \in Threads : \A i \in DOMAIN calls'[u] :
            i \in DOMAIN calls[u] /\ calls'[u][i] = calls[u][i]
  BY <1>0, <1>1 DEF Typed
<1>3. \A u \in Threads : \A i \in DOMAIN calls'[u] : calls[u][i].table = h =>
          calls[u][i].phase \in {"ask", "drain"} /\ (calls[u][i].op \in Changing => mutable'[h])
  <2> SUFFICES ASSUME NEW u \in Threads, NEW i \in DOMAIN calls[u], calls[u][i].table = h
               PROVE  calls[u][i].phase \in {"ask", "drain"}
    BY <1>1
  <2>1. calls[u][i] \in Frame BY <1>0, CallTyped
  <2>2. /\ ~(calls[u][i].op \in WriteOps /\ calls[u][i].phase \in Held)
        /\ ~(calls[u][i].op \in ReadOps /\ calls[u][i].phase \in Held)
    BY DEF Clear, MayClaim, MayWrite, Claimed, Working
  <2> QED BY <2>1, <2>2 DEF Frame, Held
<1>4. {} \in SUBSET Entry
      /\ \A e \in {} : e.hash = Hash[e.key] /\ \A f \in {} : Class[e.key] = Class[f.key] => e = f
  OBVIOUS
<1> QED BY <1>1, <1>2, <1>3, <1>4, ChangeStep

LEMMA CopyStep ==
  ASSUME Inv, NEW t \in Threads, NEW h \in Tables, NEW g \in Tables, NEW m \in BOOLEAN, Copy(t, h, g, m)
  PROVE  Inv'
<1> DEFINE E == entries[h]
<1>0. Typed /\ OneEntry BY DEF Inv
<1>1. entries' = [entries EXCEPT ![g] = E] /\ calls' = calls /\ mutable' = [mutable EXCEPT ![g] = m]
  BY DEF Copy
<1>2. E \in SUBSET Entry
      /\ \A e \in E : e.hash = Hash[e.key] /\ \A f \in E : Class[e.key] = Class[f.key] => e = f
  BY <1>0 DEF Typed, OneEntry
<1>3. /\ calls' \in [Threads -> Seq(Frame)]
      /\ \A u \in Threads : \A i \in DOMAIN calls'[u] :
            i \in DOMAIN calls[u] /\ calls'[u][i] = calls[u][i]
  BY <1>0, <1>1 DEF Typed
<1>4. mutable' \in [Tables -> BOOLEAN] /\ \A k \in Tables \ {g} : mutable'[k] = mutable[k]
  BY <1>0, <1>1 DEF Typed
<1>5. \A u \in Threads : \A i \in DOMAIN calls'[u] : calls[u][i].table = g =>
          calls[u][i].phase \in {"ask", "drain"} /\ (calls[u][i].op \in Changing => mutable'[g])
  BY <1>1 DEF Copy
<1> HIDE DEF E
<1> QED BY <1>1, <1>2, <1>3, <1>4, <1>5, ChangeStep

\* Every step keeps the invariant.
LEMMA InvNext == Inv /\ [TableNext]_tableVars => Inv'
<1> SUFFICES ASSUME Inv, [TableNext]_tableVars PROVE Inv' OBVIOUS
<1>1. ASSUME UNCHANGED tableVars PROVE Inv' BY <1>1, InvUnchanged DEF tableVars
<1>2. ASSUME NEW t \in Threads, Continue(t) PROVE Inv'
  <2>1. CASE Lock(t) BY <2>1, LockStep
  <2>2. CASE HashReturns(t) BY <2>2, HashReturnsStep
  <2>3. CASE EqReturns(t) BY <2>3, EqReturnsStep
  <2>4. CASE EndRef(t)
    BY <2>4, PopStep DEF EndRef, Searched, In, Return
  <2>5. CASE EndContains(t)
    BY <2>5, PopStep DEF EndContains, Searched, In, Return
  <2>6. CASE EndSet(t)
    <3>1. Top(t) \in Frame BY <2>6, SearchDone DEF EndSet, Searched
    <3>2. Top(t).val \in Values BY <3>1 DEF Frame
    <3> QED BY <2>6, <3>2, WritesEnd
  <2>7. CASE EndDelete(t)
    <3>1. Top(t) \in Frame BY <2>7, SearchDone DEF EndDelete, Searched
    <3>2. Top(t).val \in Values BY <3>1 DEF Frame
    <3> QED BY <2>7, <3>2, WritesEnd
  <2>8. CASE BeginProc(t) BY <2>8, BeginProcStep
  <2>9. ASSUME NEW v \in Values, ProcReturns(t, v) PROVE Inv'
    BY <2>9, WritesEnd DEF ProcReturns
  <2> QED BY <1>2, <2>1, <2>2, <2>3, <2>4, <2>5, <2>6, <2>7, <2>8, <2>9 DEF Continue
<1>3. ASSUME NEW t \in Threads, Raise(t) PROVE Inv'
  BY <1>3, PopStep DEF Raise, In, Return
<1>4. ASSUME NEW t \in Threads, NEW h \in Tables, Clear(t, h) PROVE Inv'
  BY <1>4, ClearStep
<1>5. ASSUME NEW t \in Threads, NEW h \in Tables, NEW k \in Keys, NEW op \in ReadOps \cup WriteOps,
             Refuse(t, h, op, k)
      PROVE  Inv'
  BY <1>5, InvUnchanged DEF Refuse
<1>6. ASSUME NEW t \in Threads, NEW h \in Tables, NEW k \in Keys, NEW op \in ReadOps \cup WriteOps,
             NEW v \in Values, Call(t, h, op, k, v)
      PROVE  Inv'
  BY <1>6, CallStep
<1>7. ASSUME NEW t \in Threads, NEW h \in Tables, NEW g \in Tables, NEW m \in BOOLEAN, Copy(t, h, g, m)
      PROVE  Inv'
  BY <1>7, CopyStep
<1> QED BY <1>1, <1>2, <1>3, <1>4, <1>5, <1>6, <1>7 DEF TableNext

-----------------------------------------------------------------------------
(* The map that the entries of a table stand for.                           *)

OnePerClass(E) == \A e, f \in E : Class[e.key] = Class[f.key] => e = f

LEMMA MapOfIsFunction ==
  ASSUME NEW E
  PROVE  MapOf(E) = [d \in DOMAIN MapOf(E) |-> MapOf(E)[d]]
<1> DEFINE S == {Class[e.key] : e \in E}
           V(c) == LET e == CHOOSE e \in E : Class[e.key] = c IN <<e.key, e.val>>
           f == [c \in S |-> V(c)]
<1>1. MapOf(E) = f BY DEF MapOf
<1>2. f = [d \in DOMAIN f |-> f[d]]
  <2> HIDE DEF S, V
  <2> QED OBVIOUS
<1> HIDE DEF f
<1> QED BY <1>1, <1>2

LEMMA MapOfEntries ==
  ASSUME NEW E, OnePerClass(E)
  PROVE  /\ DOMAIN MapOf(E) = {Class[e.key] : e \in E}
         /\ \A e \in E : MapOf(E)[Class[e.key]] = <<e.key, e.val>>
<1>1. DOMAIN MapOf(E) = {Class[e.key] : e \in E} BY DEF MapOf
<1>2. ASSUME NEW e \in E PROVE MapOf(E)[Class[e.key]] = <<e.key, e.val>>
  <2> DEFINE f == CHOOSE f \in E : Class[f.key] = Class[e.key]
  <2>1. f \in E /\ Class[f.key] = Class[e.key] OBVIOUS
  <2>2. f = e BY <2>1 DEF OnePerClass
  <2>3. MapOf(E)[Class[e.key]] = <<f.key, f.val>> BY DEF MapOf
  <2> QED BY <2>2, <2>3
<1> QED BY <1>1, <1>2

LEMMA MapOfTable ==
  ASSUME Inv, NEW h \in Tables
  PROVE  /\ OnePerClass(entries[h])
         /\ DOMAIN MapOf(entries[h]) = {Class[e.key] : e \in entries[h]}
         /\ \A e \in entries[h] : MapOf(entries[h])[Class[e.key]] = <<e.key, e.val>>
<1>1. OnePerClass(entries[h]) BY DEF Inv, OneEntry, OnePerClass
<1> QED BY <1>1, MapOfEntries

\* A call that has searched knows what the map holds for its key.
LEMMA SearchFinds ==
  ASSUME Inv, NEW c \in Frame, Knows(c), c.left = {}
  PROVE  LET m == MapOf(entries[c.table]) IN
         /\ c.found = {} <=> Class[c.key] \notin DOMAIN m
         /\ \A e \in c.found : m[Class[c.key]] = <<e.key, e.val>> /\ c.found = {e}
<1>1. c.table \in Tables BY DEF Frame
<1>2. OneEntry BY DEF Inv
<1>3. /\ \A e \in entries[c.table] \ c.found : Class[e.key] # Class[c.key]
      /\ c.found \subseteq entries[c.table]
      /\ \A e \in c.found : Class[e.key] = Class[c.key] /\ c.found = {e}
  BY <1>2, OthersDiffer
<1> DEFINE E == entries[c.table]
           m == MapOf(E)
<1>4. DOMAIN m = {Class[e.key] : e \in E} /\ \A e \in E : m[Class[e.key]] = <<e.key, e.val>>
  BY <1>1, MapOfTable
<1> HIDE DEF m, E
<1>5. CASE c.found = {}
  <2>1. Class[c.key] \notin DOMAIN m BY <1>3, <1>4, <1>5 DEF E
  <2> QED BY <1>5, <2>1 DEF m, E
<1>6. CASE c.found # {}
  <2>1. PICK e \in c.found : TRUE BY <1>6
  <2>2. e \in E /\ Class[e.key] = Class[c.key] /\ c.found = {e} BY <1>3, <2>1 DEF E
  <2>3. Class[c.key] \in DOMAIN m /\ m[Class[c.key]] = <<e.key, e.val>> BY <1>4, <2>2
  <2> QED BY <2>2, <2>3 DEF m, E
<1> QED BY <1>5, <1>6

\* Replacing what a search found by an entry of its class is assignment in the map.
LEMMA MapOfReplaced ==
  ASSUME Inv, NEW c \in Frame, Knows(c), c.left = {}, NEW v \in Values
  PROVE  LET m == MapOf(entries[c.table])
             k == c.key
         IN  MapOf((entries[c.table] \ c.found) \cup {NewEntry(c, v)}) =
                [d \in DOMAIN m \cup {Class[k]} |->
                    IF d # Class[k] THEN m[d]
                    ELSE IF Class[k] \in DOMAIN m THEN <<m[Class[k]][1], v>> ELSE <<k, v>>]
<1> DEFINE E == entries[c.table]
           m == MapOf(E)
           k == c.key
           n == NewEntry(c, v)
           F == (E \ c.found) \cup {n}
           r == [d \in DOMAIN m \cup {Class[k]} |->
                    IF d # Class[k] THEN m[d]
                    ELSE IF Class[k] \in DOMAIN m THEN <<m[Class[k]][1], v>> ELSE <<k, v>>]
<1>0. OneEntry /\ entries \in [Tables -> SUBSET Entry] /\ c.table \in Tables BY DEF Inv, Typed, Frame
<1>1. /\ \A e \in E \ c.found : Class[e.key] # Class[k]
      /\ c.found \subseteq E
      /\ \A e \in c.found : Class[e.key] = Class[k] /\ c.found = {e}
  BY <1>0, OthersDiffer
<1>2. /\ n.val = v /\ Class[n.key] = Class[k]
      /\ c.found = {} => n.key = k
      /\ \A f \in c.found : n.key = f.key
  BY <1>0, EntryMade
<1>3. /\ OnePerClass(E) /\ DOMAIN m = {Class[e.key] : e \in E}
      /\ \A e \in E : m[Class[e.key]] = <<e.key, e.val>>
  BY <1>0, MapOfTable
<1>4. /\ c.found = {} <=> Class[k] \notin DOMAIN m
      /\ \A e \in c.found : m[Class[k]] = <<e.key, e.val>>
  BY SearchFinds
<1> HIDE DEF n, E
<1>5. OnePerClass(F) BY <1>1, <1>2, <1>3 DEF OnePerClass
<1>6. DOMAIN MapOf(F) = {Class[e.key] : e \in F} /\ \A e \in F : MapOf(F)[Class[e.key]] = <<e.key, e.val>>
  <2> HIDE DEF F
  <2> QED BY <1>5, MapOfEntries
<1>7. {Class[e.key] : e \in F} = DOMAIN m \cup {Class[k]}
  <2> HIDE DEF m
  <2> QED BY <1>1, <1>2, <1>3
<1>8. \A d \in DOMAIN m \cup {Class[k]} : MapOf(F)[d] = r[d]
  <2> SUFFICES ASSUME NEW d \in DOMAIN m \cup {Class[k]} PROVE MapOf(F)[d] = r[d] OBVIOUS
  <2>1. CASE d = Class[k]
    <3>1. MapOf(F)[d] = <<n.key, v>> BY <1>2, <1>6, <2>1
    <3>2. CASE c.found = {}
      <4>1. r[d] = <<k, v>> BY <1>4, <2>1, <3>2
      <4> QED BY <1>2, <3>1, <3>2, <4>1
    <3>3. CASE c.found # {}
      <4>1. PICK f \in c.found : TRUE BY <3>3
      <4>2. m[Class[k]] = <<f.key, f.val>> /\ n.key = f.key /\ Class[k] \in DOMAIN m
        BY <1>2, <1>4, <3>3, <4>1
      <4>3. m[Class[k]][1] = f.key BY <4>2
      <4>4. r[d] = <<m[Class[k]][1], v>> BY <2>1, <4>2
      <4> QED BY <3>1, <4>2, <4>3, <4>4
    <3> QED BY <3>2, <3>3
  <2>2. CASE d # Class[k]
    <3>1. PICK e \in E : d = Class[e.key] BY <1>3, <2>2
    <3>2. e \in F BY <1>1, <2>2, <3>1
    <3>3. m[d] = <<e.key, e.val>> BY <1>3, <3>1
    <3>4. MapOf(F)[d] = <<e.key, e.val>> BY <1>6, <3>1, <3>2
    <3>5. r[d] = m[d] BY <2>2
    <3> QED BY <3>3, <3>4, <3>5
  <2> QED BY <2>1, <2>2
<1>9. MapOf(F) = [d \in DOMAIN MapOf(F) |-> MapOf(F)[d]] BY MapOfIsFunction
<1>10. MapOf(F) = r
  <2> DEFINE g == MapOf(F)
  <2>1. g = [d \in DOMAIN g |-> g[d]] /\ DOMAIN g = DOMAIN m \cup {Class[k]}
        /\ \A d \in DOMAIN m \cup {Class[k]} : g[d] = r[d]
    BY <1>6, <1>7, <1>8, <1>9, Zenon
  <2>2. r = [d \in DOMAIN m \cup {Class[k]} |-> r[d]] OBVIOUS
  <2>3. g = r
    <3> HIDE DEF g, r, m
    <3> QED BY <2>1, <2>2
  <2> QED BY <2>3
<1> QED BY <1>10 DEF E, n

\* Removing what a search found is removal from the map.
LEMMA MapOfRemoved ==
  ASSUME Inv, NEW c \in Frame, Knows(c), c.left = {}
  PROVE  LET m == MapOf(entries[c.table])
         IN  MapOf((entries[c.table] \ c.found) \cup {}) = [d \in DOMAIN m \ {Class[c.key]} |-> m[d]]
<1> DEFINE E == entries[c.table]
           m == MapOf(E)
           k == c.key
           F == (E \ c.found) \cup {}
           r == [d \in DOMAIN m \ {Class[k]} |-> m[d]]
<1>0. OneEntry /\ c.table \in Tables BY DEF Inv, Frame
<1>1. /\ \A e \in E \ c.found : Class[e.key] # Class[k]
      /\ c.found \subseteq E
      /\ \A e \in c.found : Class[e.key] = Class[k] /\ c.found = {e}
  BY <1>0, OthersDiffer
<1>2. /\ OnePerClass(E) /\ DOMAIN m = {Class[e.key] : e \in E}
      /\ \A e \in E : m[Class[e.key]] = <<e.key, e.val>>
  BY <1>0, MapOfTable
<1> HIDE DEF E
<1>3. OnePerClass(F) BY <1>2 DEF OnePerClass
<1>4. DOMAIN MapOf(F) = {Class[e.key] : e \in F} /\ \A e \in F : MapOf(F)[Class[e.key]] = <<e.key, e.val>>
  <2> HIDE DEF F
  <2> QED BY <1>3, MapOfEntries
<1>5. {Class[e.key] : e \in F} = DOMAIN m \ {Class[k]}
  <2> HIDE DEF m
  <2> QED BY <1>1, <1>2
<1>6. \A d \in DOMAIN m \ {Class[k]} : MapOf(F)[d] = m[d]
  <2> SUFFICES ASSUME NEW d \in DOMAIN m \ {Class[k]} PROVE MapOf(F)[d] = m[d] OBVIOUS
  <2>1. PICK e \in F : d = Class[e.key] BY <1>5
  <2> QED BY <1>2, <1>4, <2>1
<1>7. MapOf(F) = [d \in DOMAIN MapOf(F) |-> MapOf(F)[d]] BY MapOfIsFunction
<1>8. MapOf(F) = r
  <2> DEFINE g == MapOf(F)
  <2>1. g = [d \in DOMAIN g |-> g[d]] /\ DOMAIN g = DOMAIN m \ {Class[k]}
        /\ \A d \in DOMAIN m \ {Class[k]} : g[d] = m[d]
    BY <1>4, <1>5, <1>6, <1>7, Zenon
  <2>2. g = r
    <3> HIDE DEF g, m
    <3> QED BY <2>1
  <2> QED BY <2>2
<1> QED BY <1>8 DEF E

-----------------------------------------------------------------------------
(* Each step is one of the abstract tables, or none.                        *)

Maps == [h \in Tables |-> MapOf(entries[h])]

LEMMA MapsChange ==
  ASSUME Typed, NEW h \in Tables, NEW E, entries' = [entries EXCEPT ![h] = E]
  PROVE  Maps' = [Maps EXCEPT ![h] = MapOf(E)]
<1>1. entries'[h] = E /\ \A g \in Tables \ {h} : entries'[g] = entries[g] BY DEF Typed
<1>2. \A g \in Tables : MapOf(entries'[g]) = IF g = h THEN MapOf(E) ELSE MapOf(entries[g])
  BY <1>1
<1>3. Maps' = [g \in Tables |-> MapOf(entries'[g])] BY DEF Maps
<1> QED BY <1>2, <1>3 DEF Maps

LEMMA MapsStay == UNCHANGED entries => UNCHANGED Maps
  BY DEF Maps

LEMMA MapsAt == \A h \in Tables : Maps[h] = MapOf(entries[h])
  BY DEF Maps

LEMMA AbstractInit == TableInit => M!Init
<1> SUFFICES ASSUME TableInit PROVE M!Init OBVIOUS
<1>1. MapOf({}) = <<>>
  <2>1. {Class[e.key] : e \in {}} = {} OBVIOUS
  <2>2. DOMAIN MapOf({}) = {} BY <2>1 DEF MapOf
  <2>3. MapOf({}) = [d \in {} |-> MapOf({})[d]] BY <2>2, MapOfIsFunction
  <2> QED BY <2>3
<1>2. \A h \in Tables : entries[h] = {} BY DEF TableInit
<1>3. [h \in Tables |-> MapOf(entries[h])] = [h \in Tables |-> <<>>] BY <1>1, <1>2
<1> QED BY <1>3 DEF TableInit, M!Init

LEMMA QuietStep == Quietly /\ UNCHANGED <<entries, mutable>> => M!Quiet
  BY MapsStay DEF Quietly, M!Quiet, Maps

\* The answers of a call.
LEMMA RefStep == ASSUME Inv, NEW t \in Threads, EndRef(t) PROVE M!Next
<1> DEFINE c == Top(t)
           k == c.key
           m == MapOf(entries[c.table])
<1>1. c \in Frame /\ Knows(c) /\ c.left = {} /\ c.op = "ref"
  BY SearchDone DEF EndRef, Searched
<1>2. c.table \in Tables /\ k \in Keys BY <1>1 DEF Frame
<1>3. /\ c.found = {} <=> Class[k] \notin DOMAIN m
      /\ \A e \in c.found : m[Class[k]] = <<e.key, e.val>> /\ c.found = {e}
  BY <1>1, SearchFinds
<1>4. (IF c.found = {} THEN Default ELSE (CHOOSE e \in c.found : TRUE).val)
      = (IF Class[k] \in DOMAIN m THEN m[Class[k]][2] ELSE Default)
  <2>1. CASE c.found = {} BY <1>3, <2>1
  <2>2. CASE c.found # {}
    <3>1. PICK e \in c.found : TRUE BY <2>2
    <3>2. m[Class[k]] = <<e.key, e.val>> /\ c.found = {e} BY <1>3, <3>1
    <3>3. (CHOOSE f \in c.found : TRUE) = e BY <3>2
    <3>4. m[Class[k]][2] = e.val BY <3>2
    <3> QED BY <1>3, <2>2, <3>3, <3>4
  <2> QED BY <2>1, <2>2
<1>5. answer' = [op |-> "ref", table |-> c.table, key |-> k,
                 result |-> IF Class[k] \in DOMAIN m THEN m[Class[k]][2] ELSE Default]
  BY <1>1, <1>4 DEF EndRef, Return
<1>6. UNCHANGED <<Maps, mutable>> BY MapsStay DEF EndRef
<1>7. M!Ref(c.table, k) BY <1>2, <1>5, <1>6, MapsAt DEF M!Ref, M!Has, M!Answers, Maps
<1> QED BY <1>2, <1>7 DEF M!Next

LEMMA ContainsStep == ASSUME Inv, NEW t \in Threads, EndContains(t) PROVE M!Next
<1> DEFINE c == Top(t)
           k == c.key
           m == MapOf(entries[c.table])
<1>1. c \in Frame /\ Knows(c) /\ c.left = {} /\ c.op = "contains"
  BY SearchDone DEF EndContains, Searched
<1>2. c.table \in Tables /\ k \in Keys BY <1>1 DEF Frame
<1>3. c.found = {} <=> Class[k] \notin DOMAIN m BY <1>1, SearchFinds
<1>4. (c.found # {}) = (IF Class[k] \in DOMAIN m THEN TRUE ELSE FALSE) BY <1>3
<1>5. answer' = [op |-> "contains", table |-> c.table, key |-> k,
                 result |-> IF Class[k] \in DOMAIN m THEN TRUE ELSE FALSE]
  BY <1>1, <1>4 DEF EndContains, Return
<1>6. UNCHANGED <<Maps, mutable>> BY MapsStay DEF EndContains
<1>7. M!Contains(c.table, k)
  BY <1>2, <1>5, <1>6, MapsAt DEF M!Contains, M!Has, M!Answers, Maps
<1> QED BY <1>2, <1>7 DEF M!Next

LEMMA AssignStep ==
  ASSUME Inv, NEW t \in Threads, NEW v \in Values, Knows(Top(t)), Top(t).left = {}, Top(t) \in Frame,
         Top(t).op \in {"set", "update"}, mutable[Top(t).table],
         Replace(Top(t).table, Top(t).found, {NewEntry(Top(t), v)}), Return(t, Done), UNCHANGED mutable
  PROVE  M!Next
<1> DEFINE c == Top(t)
           h == c.table
           k == c.key
           m == MapOf(entries[h])
           n == [d \in DOMAIN m \cup {Class[k]} |->
                    IF d # Class[k] THEN m[d]
                    ELSE IF Class[k] \in DOMAIN m THEN <<m[Class[k]][1], v>> ELSE <<k, v>>]
<1>0. Typed BY DEF Inv
<1>1. h \in Tables /\ k \in Keys /\ c.op \in {"set", "update"} BY DEF Frame
<1>2. entries' = [entries EXCEPT ![h] = (entries[h] \ c.found) \cup {NewEntry(c, v)}]
  BY DEF Replace
<1>3. MapOf((entries[h] \ c.found) \cup {NewEntry(c, v)}) = n BY MapOfReplaced
<1>4. Maps' = [Maps EXCEPT ![h] = n] BY <1>0, <1>1, <1>2, <1>3, MapsChange
<1>5. answer' = [op |-> c.op, table |-> h, key |-> k, result |-> Done] BY DEF Return
<1>6. Maps[h] = m BY <1>1, MapsAt
<1> HIDE DEF m
<1>7. M!Set(c.op, h, k, v)
  BY <1>1, <1>4, <1>5, <1>6 DEF M!Set, M!With, M!Has, M!Answers, Maps
<1> QED BY <1>1, <1>7 DEF M!Next

LEMMA DeleteStep == ASSUME Inv, NEW t \in Threads, EndDelete(t) PROVE M!Next
<1> DEFINE c == Top(t)
           h == c.table
           k == c.key
           m == MapOf(entries[h])
           n == [d \in DOMAIN m \ {Class[k]} |-> m[d]]
<1>0. Typed BY DEF Inv
<1>1. c \in Frame /\ Knows(c) /\ c.left = {} /\ c.op = "delete" /\ Sound(c)
  BY SearchDone DEF EndDelete, Searched
<1>2. h \in Tables /\ k \in Keys /\ mutable[h]
  BY <1>1 DEF Frame, Sound, Changing, WriteOps
<1>3. entries' = [entries EXCEPT ![h] = (entries[h] \ c.found) \cup {}] BY DEF EndDelete, Replace
<1>4. MapOf((entries[h] \ c.found) \cup {}) = n BY <1>1, MapOfRemoved
<1>5. Maps' = [Maps EXCEPT ![h] = n] BY <1>0, <1>2, <1>3, <1>4, MapsChange
<1>6. answer' = [op |-> "delete", table |-> h, key |-> k, result |-> Done] /\ UNCHANGED mutable
  BY <1>1 DEF EndDelete, Return
<1>7. Maps[h] = m BY <1>2, MapsAt
<1> HIDE DEF m
<1>8. M!Delete(h, k) BY <1>2, <1>5, <1>6, <1>7 DEF M!Delete, M!Without, M!Answers, Maps
<1> QED BY <1>2, <1>8 DEF M!Next

LEMMA RaiseStep == ASSUME Inv, NEW t \in Threads, Raise(t) PROVE M!Next
<1> DEFINE c == Top(t)
<1>1. calls[t] # <<>> BY DEF Raise, In
<1>2. c \in Frame BY <1>1, TopCall DEF Inv
<1>3. c.table \in Tables /\ c.key \in Keys /\ c.op \in {"ref", "contains", "set", "update", "delete"}
  BY <1>2 DEF Frame, ReadOps, WriteOps
<1>4. M!Fail(c.op, c.table, c.key)
  BY MapsStay DEF Raise, Return, M!Fail, M!Answers, Maps
<1> QED BY <1>3, <1>4 DEF M!Next

LEMMA AbstractClear == ASSUME Inv, NEW t \in Threads, NEW h \in Tables, Clear(t, h) PROVE M!Next
<1>1. MapOf({}) = <<>>
  <2>1. DOMAIN MapOf({}) = {} BY DEF MapOf
  <2>2. MapOf({}) = [d \in {} |-> MapOf({})[d]] BY <2>1, MapOfIsFunction
  <2> QED BY <2>2
<1>2. Maps' = [Maps EXCEPT ![h] = <<>>] BY <1>1, MapsChange DEF Clear, Inv
<1>3. M!Clear(h) BY <1>2 DEF Clear, Quietly, M!Clear, Maps
<1> QED BY <1>3 DEF M!Next

LEMMA AbstractCopy ==
  ASSUME Inv, NEW t \in Threads, NEW h \in Tables, NEW g \in Tables, NEW m \in BOOLEAN, Copy(t, h, g, m)
  PROVE  M!Next
<1>1. Maps' = [Maps EXCEPT ![g] = MapOf(entries[h])] BY MapsChange DEF Copy, Inv
<1>2. Maps' = [Maps EXCEPT ![g] = Maps[h]] BY <1>1, MapsAt
<1>3. M!Copy(h, g, m) BY <1>2 DEF Copy, Quietly, M!Copy, Maps
<1> QED BY <1>3 DEF M!Next

LEMMA AbstractNext == Inv /\ [TableNext]_tableVars => [M!Next]_(M!vars)
<1> SUFFICES ASSUME Inv, [TableNext]_tableVars PROVE [M!Next]_(M!vars) OBVIOUS
<1>1. CASE UNCHANGED tableVars BY <1>1, MapsStay DEF tableVars, M!vars, Maps
<1>2. ASSUME NEW t \in Threads, Continue(t) PROVE M!Next
  <2>1. CASE Lock(t) BY <2>1, QuietStep DEF Lock, M!Next
  <2>2. CASE HashReturns(t) BY <2>2, QuietStep DEF HashReturns, M!Next
  <2>3. CASE EqReturns(t) BY <2>3, QuietStep DEF EqReturns, M!Next
  <2>4. CASE EndRef(t) BY <2>4, RefStep
  <2>5. CASE EndContains(t) BY <2>5, ContainsStep
  <2>6. CASE EndSet(t)
    <3>1. /\ Top(t) \in Frame /\ Knows(Top(t)) /\ Top(t).left = {} /\ Sound(Top(t))
          /\ Top(t).op = "set"
      BY <2>6, SearchDone DEF EndSet, Searched
    <3>2. Top(t).val \in Values /\ mutable[Top(t).table]
      BY <3>1 DEF Frame, Sound, Changing, WriteOps
    <3> QED BY <2>6, <3>1, <3>2, AssignStep DEF EndSet
  <2>7. CASE EndDelete(t) BY <2>7, DeleteStep
  <2>8. CASE BeginProc(t) BY <2>8, QuietStep DEF BeginProc, M!Next
  <2>9. ASSUME NEW v \in Values, ProcReturns(t, v) PROVE M!Next
    <3>1. /\ Top(t) \in Frame /\ Knows(Top(t)) /\ Top(t).left = {} /\ Sound(Top(t))
          /\ Top(t).op = "update"
      BY <2>9, SearchDone DEF ProcReturns
    <3>2. mutable[Top(t).table] BY <3>1 DEF Sound, Changing, WriteOps
    <3> QED BY <2>9, <3>1, <3>2, AssignStep DEF ProcReturns
  <2> QED BY <1>2, <2>1, <2>2, <2>3, <2>4, <2>5, <2>6, <2>7, <2>8, <2>9 DEF Continue
<1>3. ASSUME NEW t \in Threads, Raise(t) PROVE M!Next BY <1>3, RaiseStep
<1>4. ASSUME NEW t \in Threads, NEW h \in Tables, Clear(t, h) PROVE M!Next BY <1>4, AbstractClear
<1>5. ASSUME NEW t \in Threads, NEW h \in Tables, NEW k \in Keys, NEW op \in ReadOps \cup WriteOps,
             Refuse(t, h, op, k)
      PROVE  M!Next
  <2>1. op \in {"set", "update", "delete"} BY <1>5 DEF Refuse, Changing, WriteOps
  <2>2. M!Refuse(op, h, k) BY <1>5, MapsStay DEF Refuse, M!Refuse, M!Answers, Maps
  <2> QED BY <2>1, <2>2 DEF M!Next
<1>6. ASSUME NEW t \in Threads, NEW h \in Tables, NEW k \in Keys, NEW op \in ReadOps \cup WriteOps,
             NEW v \in Values, Call(t, h, op, k, v)
      PROVE  M!Next
  BY <1>6, QuietStep DEF Call, M!Next
<1>7. ASSUME NEW t \in Threads, NEW h \in Tables, NEW g \in Tables, NEW m \in BOOLEAN, Copy(t, h, g, m)
      PROVE  M!Next
  BY <1>7, AbstractCopy
<1> QED BY <1>1, <1>2, <1>3, <1>4, <1>5, <1>6, <1>7 DEF TableNext

-----------------------------------------------------------------------------
\* Hash tables implement maps (HashTableInner): whatever the threads do, and whatever the hash and
\* equivalence procedures of the tables do while the lock is held, an operation takes effect at
\* once, when it answers, on the whole class of its key.
THEOREM TablesImplementMaps == TableSpec => ImplementsMap
<1>1. TableInit => Inv BY InvInit
<1>2. Inv /\ [TableNext]_tableVars => Inv' BY InvNext
<1>3. TableSpec => []Inv BY <1>1, <1>2, PTL DEF TableSpec
<1>4. TableInit => M!Init BY AbstractInit
<1>5. Inv /\ [TableNext]_tableVars => [M!Next]_(M!vars) BY AbstractNext
<1>6. TableSpec => M!Spec BY <1>3, <1>4, <1>5, PTL DEF TableSpec, M!Spec
<1> QED BY <1>6 DEF ImplementsMap
=============================================================================
