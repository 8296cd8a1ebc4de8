-------------------------- MODULE Registry_proofs ---------------------------
(***************************************************************************)
(* Proofs about Registry, for any set of libraries and any files.           *)
(*                                                                          *)
(* Acyclic alone is inductive: an edge <<a, b>> is only added when some set *)
(* closed under dependencies holds b and not a.  ReentersByMisnamed follows *)
(* from it and Path, the fact that every call has recorded an edge from the *)
(* name its text declares to the library it waits for: where the names that *)
(* are declared are those that were asked for, the calls are a path in      *)
(* dep_graph, and a library that occurred twice would close a cycle.        *)
(***************************************************************************)
EXTENDS Registry, SequenceTheorems, TLAPS

\* The library that the call on l is loading next, if any: the call above it,
\* or the one load_lib has been asked for.
NextUp(n) == IF n < Len(loading) THEN loading[n + 1].lib ELSE wanted

\* Every library being loaded depends on the next one, under the name that its
\* text declares.
Path == \A n \in DOMAIN loading :
            NextUp(n) # None => <<loading[n].name, NextUp(n)>> \in depGraph

\* What a call has followed is loaded, or is being loaded right above it, and
\* has an edge.
Followed ==
    \A n \in DOMAIN loading : \A m \in loading[n].done :
        /\ <<loading[n].name, m>> \in depGraph
        /\ m \in Loaded \/ m = NextUp(n)

\* def_lib is never called by a library that is being loaded, and what it has
\* parsed can be inserted, under the name that it declares.
Definitions ==
    /\ \A n \in DOMAIN loading :
          loading[n].byDefLib => n = 1 /\ loading[n].name = loading[n].lib
    /\ \A d \in defined : \A m \in d.imports : m \in Loaded /\ <<d.lib, m>> \in depGraph

Inv == TypeOK /\ Acyclic /\ Path /\ Followed /\ Definitions /\ OriginsLoaded

\* An edge to a library that does not reach back closes no cycle.
LEMMA EdgeKeepsAcyclic ==
  ASSUME Acyclic, NEW a \in Lib, NEW b \in Lib, ~Reaches(b, a),
         depGraph' = depGraph \union {<<a, b>>}
  PROVE  Acyclic'
<1> SUFFICES ASSUME NEW S \in SUBSET Lib, S # {},
                    \A x \in S : \E y \in S : <<x, y>> \in depGraph'
             PROVE  FALSE
  BY DEF Acyclic
<1>1. PICK x0 \in S : \A y \in S : <<x0, y>> \notin depGraph
  BY DEF Acyclic
<1>2. x0 = a /\ b \in S
  BY <1>1
<1>3. PICK C \in SUBSET Lib :
        /\ b \in C /\ a \notin C
        /\ \A e \in depGraph : e[1] \in C => e[2] \in C
  BY DEF Reaches
<1>4. PICK x \in S \cap C : \A y \in S \cap C : <<x, y>> \notin depGraph
  BY <1>2, <1>3 DEF Acyclic
<1>5. PICK y \in S : <<x, y>> \in depGraph'
  OBVIOUS
<1>6. <<x, y>> \in depGraph
  BY <1>3, <1>4, <1>5
<1>7. y \in C
  BY <1>3, <1>4, <1>6
<1> QED BY <1>4, <1>6, <1>7

\* A path in an acyclic graph meets no library twice: between two calls on the
\* same library there is a text that declares another name.
LEMMA PathHasNoRepeat == TypeOK /\ Acyclic /\ Path => ReentersByMisnamed
<1> SUFFICES ASSUME TypeOK, Acyclic, Path PROVE ReentersByMisnamed
  OBVIOUS
<1>1. loading \in Seq(Frame) BY DEF TypeOK
<1>2. \A n \in DOMAIN loading : loading[n].lib \in Lib
  <2>1. \A n \in DOMAIN loading : loading[n] \in Frame
    BY <1>1, LenProperties, ElementOfSeq
  <2> QED BY <2>1 DEF Frame
<1>3. Len(loading) \in Nat /\ DOMAIN loading = 1 .. Len(loading)
  BY <1>1
<1>4. ASSUME NEW i \in DOMAIN loading, NEW j \in Nat,
             i < j, j <= Len(loading) + 1,
             (IF j <= Len(loading) THEN loading[j].lib ELSE wanted) = loading[i].lib
      PROVE  \E n \in i .. (j - 1) : Misnamed(n)
  <2> SUFFICES ASSUME \A n \in i .. (j - 1) : loading[n].name = loading[n].lib PROVE FALSE
    BY DEF Misnamed
  <2> DEFINE S == {loading[n].lib : n \in i .. (j - 1)}
  <2>1. S \in SUBSET Lib /\ S # {}
    <3>1. i .. (j - 1) \subseteq DOMAIN loading BY <1>3, <1>4
    <3>2. i \in i .. (j - 1) BY <1>3, <1>4
    <3> QED BY <1>2, <3>1, <3>2
  <2>2. ASSUME NEW n \in i .. (j - 1)
        PROVE  \E y \in S : <<loading[n].lib, y>> \in depGraph
    <3>1. n \in DOMAIN loading /\ loading[n].name = loading[n].lib BY <1>3, <1>4
    <3>2. CASE n + 1 < j
      <4>1. n + 1 \in i .. (j - 1) /\ n < Len(loading) BY <1>3, <1>4, <3>2
      <4>2. NextUp(n) = loading[n + 1].lib BY <4>1 DEF NextUp
      <4>3. loading[n + 1].lib \in Lib BY <1>2, <1>3, <4>1
      <4>4. NextUp(n) # None BY <4>2, <4>3, RegistryAssumption
      <4> QED BY <3>1, <4>1, <4>2, <4>4 DEF Path
    <3>3. CASE n + 1 = j
      <4>1. NextUp(n) = loading[i].lib BY <1>3, <1>4, <3>1, <3>3 DEF NextUp
      <4>2. loading[i].lib \in S BY <1>3, <1>4
      <4>3. NextUp(n) # None BY <1>2, <4>1, RegistryAssumption
      <4> QED BY <3>1, <4>1, <4>2, <4>3 DEF Path
    <3>4. n + 1 < j \/ n + 1 = j BY <1>3, <1>4
    <3> QED BY <3>2, <3>3, <3>4
  <2> QED BY <2>1, <2>2 DEF Acyclic
<1>5. ASSUME NEW i \in DOMAIN loading, NEW j \in DOMAIN loading,
             i < j, loading[i].lib = loading[j].lib
      PROVE  \E n \in i .. (j - 1) : Misnamed(n)
  <2>1. j \in Nat /\ j <= Len(loading) /\ j <= Len(loading) + 1 BY <1>3
  <2> QED BY <1>4, <1>5, <2>1
<1>6. ASSUME NEW i \in DOMAIN loading, loading[i].lib = wanted
      PROVE  \E n \in i .. Len(loading) : Misnamed(n)
  <2> DEFINE j == Len(loading) + 1
  <2>1. j \in Nat /\ i < j /\ ~(j <= Len(loading)) /\ j <= Len(loading) + 1 /\ j - 1 = Len(loading)
    BY <1>3
  <2>2. (IF j <= Len(loading) THEN loading[j].lib ELSE wanted) = loading[i].lib
    BY <1>6, <2>1
  <2> HIDE DEF j
  <2>3. \E n \in i .. (j - 1) : Misnamed(n) BY <1>4, <2>1, <2>2
  <2> QED BY <2>1, <2>3
<1> QED BY <1>5, <1>6 DEF ReentersByMisnamed

----------------------------------------------------------------------------
(* The stack of calls.                                                      *)

\* A text declares the name of a library.
LEMMA TextIsNamed ==
  ASSUME NEW l \in Lib, source[l] \in Sources, Parses(l)
  PROVE  source[l].name \in Lib /\ source[l].imports \in SUBSET Lib
BY DEF Sources, Parses

\* What TypeOK says of the stack.
LEMMA StackType ==
  ASSUME TypeOK
  PROVE  /\ loading \in Seq(Frame)
         /\ Len(loading) \in Nat
         /\ DOMAIN loading = 1 .. Len(loading)
         /\ \A n \in 1 .. Len(loading) : loading[n] \in Frame
         /\ loading # <<>> => Len(loading) \in 1 .. Len(loading)
<1>1. loading \in Seq(Frame) BY DEF TypeOK
<1>2. Len(loading) \in Nat /\ DOMAIN loading = 1 .. Len(loading)
  BY <1>1, LenProperties
<1>3. \A n \in 1 .. Len(loading) : loading[n] \in Frame
  BY <1>1, ElementOfSeq
<1>4. loading # <<>> => Len(loading) # 0
  BY <1>1, EmptySeq
<1> QED BY <1>1, <1>2, <1>3, <1>4

\* The stack without the innermost call.
LEMMA Popped ==
  ASSUME TypeOK, loading # <<>>
  PROVE  /\ Below \in Seq(Frame)
         /\ Len(Below) = Len(loading) - 1
         /\ DOMAIN Below = 1 .. Len(loading) - 1
         /\ \A n \in 1 .. Len(loading) - 1 : Below[n] = loading[n]
<1>1. /\ Len(loading) \in Nat \ {0}
      /\ \A n \in 1 .. Len(loading) - 1 : loading[n] \in Frame
  BY StackType
<1> DEFINE k == Len(loading) - 1
           b == SubSeq(loading, 1, k)
<1>2. /\ b \in Seq(Frame)
      /\ Len(b) = IF 1 <= k THEN k - 1 + 1 ELSE 0
      /\ \A n \in 1 .. k - 1 + 1 : b[n] = loading[1 + n - 1]
  <2>1. k \in Int /\ \A n \in 1 .. k : loading[n] \in Frame BY <1>1
  <2> HIDE DEF k
  <2> QED BY <2>1, SubSeqProperties
<1>3. DOMAIN b = 1 .. Len(b)
  BY <1>2, LenProperties
<1>4. b = Below BY DEF Below
<1>5. k \in Nat BY <1>1
<1> HIDE DEF b, k
<1>6. Len(b) = k /\ \A n \in 1 .. k : b[n] = loading[n]
  BY <1>2, <1>5
<1> QED BY <1>2, <1>3, <1>4, <1>6 DEF k

\* The stack with one more call.
LEMMA Pushed ==
  ASSUME TypeOK, NEW f \in Frame
  PROVE  /\ Append(loading, f) \in Seq(Frame)
         /\ Len(Append(loading, f)) = Len(loading) + 1
         /\ DOMAIN Append(loading, f) = 1 .. Len(loading) + 1
         /\ \A n \in 1 .. Len(loading) : Append(loading, f)[n] = loading[n]
         /\ Append(loading, f)[Len(loading) + 1] = f
<1>1. loading \in Seq(Frame) /\ Len(loading) \in Nat BY StackType
<1>2. /\ Append(loading, f) \in Seq(Frame)
      /\ Len(Append(loading, f)) = Len(loading) + 1
      /\ \A n \in 1 .. Len(loading) : Append(loading, f)[n] = loading[n]
      /\ Append(loading, f)[Len(loading) + 1] = f
  BY <1>1, AppendProperties
<1>3. DOMAIN Append(loading, f) = 1 .. Len(Append(loading, f))
  BY <1>2, LenProperties
<1> QED BY <1>2, <1>3

\* The stack with another innermost call.
LEMMA Replaced ==
  ASSUME TypeOK, loading # <<>>, NEW f \in Frame
  PROVE  /\ Append(Below, f) \in Seq(Frame)
         /\ Len(Append(Below, f)) = Len(loading)
         /\ DOMAIN Append(Below, f) = 1 .. Len(loading)
         /\ \A n \in 1 .. Len(loading) - 1 : Append(Below, f)[n] = loading[n]
         /\ Append(Below, f)[Len(loading)] = f
<1>1. Len(loading) \in Nat \ {0} BY StackType
<1>2. /\ Append(Below, f) \in Seq(Frame)
      /\ Len(Append(Below, f)) = Len(Below) + 1
      /\ \A n \in 1 .. Len(Below) : Append(Below, f)[n] = Below[n]
      /\ Append(Below, f)[Len(Below) + 1] = f
  BY Popped, AppendProperties
<1>3. DOMAIN Append(Below, f) = 1 .. Len(Append(Below, f))
  BY <1>2, LenProperties
<1> QED BY <1>1, <1>2, <1>3, Popped

----------------------------------------------------------------------------
(* Every step keeps the invariant.                                          *)

\* The registry starts empty.
LEMMA InitInv == Init => Inv
<1> SUFFICES ASSUME Init PROVE Inv
  OBVIOUS
<1>1. loading \in Seq(Frame) /\ DOMAIN loading = {}
  BY EmptySeq DEF Init
<1>2. TypeOK
  BY <1>1, RegistryAssumption DEF Init, TypeOK
<1> QED BY <1>1, <1>2 DEF Init, Inv, Acyclic, Path, Followed, Definitions, OriginsLoaded

\* A call of load_lib returns a library that is loaded: the call below it has
\* what it asked for.
LEMMA ReturnInv ==
  ASSUME Inv, wanted \in Lib, wanted' = None,
         status' \in [Lib -> {"absent", "bridges", "native", "file"}],
         Loaded \union {wanted} \subseteq Loaded',
         \A l \in Lib : status'[l] = "file" => status[l] = "file",
         UNCHANGED <<source, declared, imports, depGraph, loading, defined, edits>>
  PROVE  Inv'
<1>1. TypeOK' BY DEF Inv, TypeOK
<1>2. \A n \in DOMAIN loading :
        NextUp(n)' = IF n < Len(loading) THEN NextUp(n) ELSE None
  BY DEF NextUp
<1>3. \A n \in DOMAIN loading : NextUp(n) = wanted \/ NextUp(n)' = NextUp(n)
  BY <1>2 DEF NextUp
<1>4. Path'
  BY <1>2 DEF Inv, Path
<1>5. Followed'
  BY <1>3 DEF Inv, Followed
<1>6. Acyclic' /\ Definitions' /\ OriginsLoaded'
  BY DEF Inv, Acyclic, Definitions, OriginsLoaded
<1> QED BY <1>1, <1>4, <1>5, <1>6 DEF Inv

\* The call above the innermost one is the one it was waiting for.
LEMMA LoadFileInv == ASSUME Inv, LoadFile PROVE Inv'
<1> DEFINE f == Frame0(wanted, source[wanted], FALSE)
<1>1. f \in Frame /\ f.lib = wanted /\ f.done = {} /\ f.byDefLib = FALSE
  <2>1. source[wanted] \in Sources /\ Parses(wanted) /\ wanted \in Lib
    BY DEF Inv, TypeOK, LoadFile
  <2>2. source[wanted].imports \in SUBSET Lib /\ source[wanted].name \in Lib
    BY <2>1, TextIsNamed
  <2> QED BY <2>1, <2>2 DEF Frame, Frame0
<1> HIDE DEF f
<1>2. /\ loading' = Append(loading, f) /\ wanted' = None
      /\ UNCHANGED <<source, status, declared, imports, depGraph, defined, edits>>
      /\ Loaded' = Loaded
  BY DEF LoadFile, f, Loaded
<1>3. /\ Len(loading) \in Nat
      /\ DOMAIN loading = 1 .. Len(loading)
      /\ Len(loading') = Len(loading) + 1
      /\ DOMAIN loading' = 1 .. Len(loading) + 1
      /\ \A n \in 1 .. Len(loading) : loading'[n] = loading[n]
      /\ loading'[Len(loading) + 1] = f
      /\ loading' \in Seq(Frame)
  BY <1>1, <1>2, StackType, Pushed DEF Inv
<1>4. TypeOK'
  <2>1. \A n \in DOMAIN loading' : loading'[n].todo \cap loading'[n].done = {}
    BY <1>1, <1>3 DEF Inv, TypeOK
  <2> QED BY <1>2, <1>3, <2>1 DEF Inv, TypeOK
<1>5. /\ \A n \in 1 .. Len(loading) : NextUp(n)' = NextUp(n)
      /\ \A n \in Nat : n = Len(loading) + 1 => NextUp(n)' = None
  BY <1>1, <1>2, <1>3 DEF NextUp
<1>6. Path'
  <2> SUFFICES ASSUME NEW n \in DOMAIN loading', NextUp(n)' # None
               PROVE  <<loading'[n].name, NextUp(n)'>> \in depGraph'
    BY DEF Path
  <2>1. n \in 1 .. Len(loading) BY <1>3, <1>5
  <2>2. <<loading[n].name, NextUp(n)>> \in depGraph
    BY <1>3, <1>5, <2>1 DEF Inv, Path
  <2> QED BY <1>2, <1>3, <1>5, <2>1, <2>2
<1>7. Followed'
  BY <1>1, <1>2, <1>3, <1>5 DEF Inv, Followed
<1>8. Definitions'
  BY <1>1, <1>2, <1>3 DEF Inv, Definitions
<1>9. Acyclic' /\ OriginsLoaded'
  BY <1>2 DEF Inv, Acyclic, OriginsLoaded
<1> QED BY <1>4, <1>6, <1>7, <1>8, <1>9 DEF Inv

\* A failure leaves nothing in progress.
LEMMA AbandonInv == ASSUME Inv, Abandon PROVE Inv'
<1>1. loading' \in Seq(Frame) /\ DOMAIN loading' = {} BY EmptySeq DEF Abandon
<1>2. TypeOK' BY <1>1 DEF Inv, TypeOK, Abandon
<1> QED BY <1>1, <1>2 DEF Inv, Abandon, Acyclic, Path, Followed, Definitions, OriginsLoaded, Loaded

\* The edge that is recorded closes no cycle and leads to the next library.
LEMMA FollowImportInv == ASSUME Inv, NEW i \in Lib, FollowImport(i) PROVE Inv'
<1>0. PICK k \in Nat : k = Len(loading)
  BY StackType DEF Inv
<1> DEFINE f == [Top EXCEPT !.todo = @ \ {i}, !.done = @ \union {i}]
<1>1. k \in Nat \ {0} /\ DOMAIN loading = 1 .. k /\ Top \in Frame
  BY <1>0, StackType DEF Inv, FollowImport, Top
<1>2. /\ f \in Frame /\ f.lib = Top.lib /\ f.name = Top.name /\ f.done = Top.done \union {i}
      /\ f.todo = Top.todo \ {i} /\ f.byDefLib = Top.byDefLib
  BY <1>1 DEF Frame
<1>3. Top = loading[k] BY <1>0 DEF Top
<1> HIDE DEF f
<1>4. /\ loading' = Append(Below, f) /\ wanted = None /\ wanted' = i
      /\ depGraph' = depGraph \union {<<Top.name, i>>}
      /\ UNCHANGED <<source, status, declared, imports, defined, edits>>
      /\ Loaded' = Loaded
  BY DEF FollowImport, f, Loaded
<1>5. /\ loading' \in Seq(Frame) /\ Len(loading') = k /\ DOMAIN loading' = 1 .. k
      /\ \A n \in 1 .. k - 1 : loading'[n] = loading[n]
      /\ loading'[k] = f
  BY <1>0, <1>2, <1>4, Replaced DEF Inv, FollowImport
<1>6. \A n \in 1 .. k : loading'[n].lib = loading[n].lib /\ loading'[n].name = loading[n].name
  BY <1>1, <1>2, <1>3, <1>5
<1>7. NextUp(k)' = i /\ NextUp(k) = None
  <2>1. ~(k < Len(loading')) /\ ~(k < Len(loading)) BY <1>0, <1>1, <1>5
  <2> QED BY <1>4, <2>1 DEF NextUp
<1>8. \A n \in 1 .. k - 1 : NextUp(n)' = NextUp(n)
  BY <1>0, <1>1, <1>5, <1>6 DEF NextUp
<1>9. Acyclic'
  <2>1. Top.name \in Lib BY <1>1 DEF Frame
  <2> QED BY <1>4, <2>1, EdgeKeepsAcyclic DEF Inv, FollowImport
<1>10. TypeOK'
  <2>1. \A n \in 1 .. k : loading'[n].todo \cap loading'[n].done = {}
    <3>1. \A n \in 1 .. k : loading[n].todo \cap loading[n].done = {}
      BY <1>1 DEF Inv, TypeOK
    <3>2. Top.todo \cap Top.done = {} BY <1>1, <1>3, <3>1
    <3>3. f.todo \cap f.done = {} BY <1>2, <3>2
    <3>4. \A n \in 1 .. k : n = k \/ n \in 1 .. k - 1 BY <1>1
    <3> QED BY <1>5, <3>1, <3>3, <3>4
  <2>2. depGraph' \subseteq Lib \X Lib
    BY <1>1, <1>4 DEF Inv, TypeOK, Frame
  <2> QED BY <1>4, <1>5, <2>1, <2>2 DEF Inv, TypeOK
<1>11. Path'
  <2> SUFFICES ASSUME NEW n \in 1 .. k, NextUp(n)' # None
               PROVE  <<loading'[n].name, NextUp(n)'>> \in depGraph'
    BY <1>5 DEF Path
  <2>1. CASE n = k
    BY <1>2, <1>4, <1>5, <1>7, <2>1
  <2>2. CASE n \in 1 .. k - 1
    <3>1. <<loading[n].name, NextUp(n)>> \in depGraph
      BY <1>1, <1>8, <2>2 DEF Inv, Path
    <3> QED BY <1>4, <1>6, <1>8, <2>2, <3>1
  <2>3. n = k \/ n \in 1 .. k - 1 BY <1>1
  <2> QED BY <2>1, <2>2, <2>3
<1>12. Followed'
  <2>1. ASSUME NEW n \in 1 .. k - 1, NEW m \in loading'[n].done
        PROVE  <<loading'[n].name, m>> \in depGraph' /\ (m \in Loaded' \/ m = NextUp(n)')
    <3>1. m \in loading[n].done /\ n \in DOMAIN loading BY <1>1, <1>5, <2>1
    <3>2. <<loading[n].name, m>> \in depGraph /\ (m \in Loaded \/ m = NextUp(n))
      BY <3>1 DEF Inv, Followed
    <3>3. loading'[n].name = loading[n].name /\ NextUp(n)' = NextUp(n)
      BY <1>1, <1>6, <1>8
    <3> QED BY <1>4, <3>2, <3>3
  <2>2. ASSUME NEW m \in Top.done
        PROVE  <<Top.name, m>> \in depGraph /\ m \in Loaded
    <3>1. m \in Lib BY <1>1 DEF Frame
    <3>2. m # NextUp(k) BY <1>7, <3>1, RegistryAssumption
    <3> QED BY <1>1, <1>3, <3>2 DEF Inv, Followed
  <2>3. ASSUME NEW m \in loading'[k].done
        PROVE  <<loading'[k].name, m>> \in depGraph' /\ (m \in Loaded' \/ m = NextUp(k)')
    BY <1>2, <1>4, <1>5, <1>7, <2>2
  <2>4. \A n \in 1 .. k : n = k \/ n \in 1 .. k - 1 BY <1>1
  <2> QED BY <1>5, <2>1, <2>3, <2>4 DEF Followed
<1>13. Definitions'
  BY <1>1, <1>2, <1>3, <1>4, <1>5 DEF Inv, Definitions
<1>14. OriginsLoaded'
  BY <1>4 DEF Inv, OriginsLoaded
<1> QED BY <1>9, <1>10, <1>11, <1>12, <1>13, <1>14 DEF Inv

\* The library that was loaded is what the call below was waiting for.
LEMMA InsertLibraryInv == ASSUME Inv, InsertLibrary PROVE Inv'
<1>0. PICK k \in Nat : k = Len(loading)
  BY StackType DEF Inv
<1>1. k \in Nat \ {0} /\ DOMAIN loading = 1 .. k /\ Top \in Frame /\ Top = loading[k]
  BY <1>0, StackType DEF Inv, InsertLibrary, Top
<1>2. /\ loading' = Below /\ wanted = None /\ wanted' = None
      /\ status' = [status EXCEPT ![Top.lib] = "file"]
      /\ imports' = [imports EXCEPT ![Top.lib] = Top.done]
      /\ declared' = [declared EXCEPT ![Top.lib] = Top.name]
      /\ UNCHANGED <<source, depGraph, defined, edits>>
  BY DEF InsertLibrary
<1>3. /\ loading' \in Seq(Frame) /\ Len(loading') = k - 1 /\ DOMAIN loading' = 1 .. k - 1
      /\ \A n \in 1 .. k - 1 : loading'[n] = loading[n]
  BY <1>0, <1>2, Popped DEF Inv, InsertLibrary
<1>4. Top.lib \in Lib /\ Top.name \in Lib /\ Top.done \subseteq Lib /\ Top.lib # None
  BY <1>1, RegistryAssumption DEF Frame
<1>5. Loaded \union {Top.lib} \subseteq Loaded'
  BY <1>2, <1>4 DEF Inv, TypeOK, Loaded
<1>6. \A m \in Top.done : m \in Loaded /\ <<Top.name, m>> \in depGraph
  <2>1. NextUp(k) = None BY <1>0, <1>2 DEF NextUp
  <2> QED BY <1>1, <1>4, <2>1, RegistryAssumption DEF Inv, Followed
<1>7. \A n \in 1 .. k - 1 : NextUp(n)' = NextUp(n) \/ (NextUp(n)' = None /\ NextUp(n) = Top.lib)
  <2> SUFFICES ASSUME NEW n \in 1 .. k - 1
               PROVE  NextUp(n)' = NextUp(n) \/ (NextUp(n)' = None /\ NextUp(n) = Top.lib)
    OBVIOUS
  <2>1. n \in Nat /\ n < Len(loading) BY <1>0, <1>1
  <2>2. NextUp(n) = loading[n + 1].lib BY <2>1 DEF NextUp
  <2>3. CASE n < k - 1
    <3>1. NextUp(n)' = loading'[n + 1].lib BY <1>3, <2>3 DEF NextUp
    <3>2. n + 1 \in 1 .. k - 1 BY <1>1, <2>1, <2>3
    <3> QED BY <1>3, <2>2, <3>1, <3>2
  <2>4. CASE n = k - 1
    <3>1. NextUp(n)' = None BY <1>2, <1>3, <2>1, <2>4 DEF NextUp
    <3> QED BY <1>1, <2>1, <2>2, <2>4, <3>1
  <2> QED BY <1>1, <2>3, <2>4
<1>8. TypeOK'
  <2>1. \A n \in DOMAIN loading' : loading'[n].todo \cap loading'[n].done = {}
    BY <1>1, <1>3 DEF Inv, TypeOK
  <2>2. status' \in [Lib -> {"absent", "bridges", "native", "file"}]
        /\ imports' \in [Lib -> SUBSET Lib] /\ declared' \in [Lib -> Lib]
    BY <1>2, <1>4 DEF Inv, TypeOK
  <2>3. wanted' \in Lib \union {None} BY <1>2
  <2>4. /\ source' \in [Lib -> Sources] /\ depGraph' \subseteq Lib \X Lib
        /\ defined' \subseteq [lib : Lib, imports : SUBSET Lib] /\ edits' \in 0 .. MaxEdits
    BY <1>2 DEF Inv, TypeOK
  <2> QED BY <1>3, <2>1, <2>2, <2>3, <2>4 DEF TypeOK
<1>9. Path'
  BY <1>1, <1>2, <1>3, <1>7 DEF Inv, Path
<1>10. Followed'
  BY <1>1, <1>2, <1>3, <1>5, <1>7 DEF Inv, Followed
<1>11. Definitions'
  BY <1>1, <1>2, <1>3, <1>5 DEF Inv, Definitions
<1>12. OriginsLoaded'
  BY <1>2, <1>4, <1>5, <1>6 DEF Inv, TypeOK, OriginsLoaded
<1>13. Acyclic' BY <1>2 DEF Inv, Acyclic
<1> QED BY <1>8, <1>9, <1>10, <1>11, <1>12, <1>13 DEF Inv

\* A definition was the only call in progress.
LEMMA DefinitionParsedInv == ASSUME Inv, DefinitionParsed PROVE Inv'
<1>0. PICK k \in Nat : k = Len(loading)
  BY StackType DEF Inv
<1>1. k \in Nat \ {0} /\ DOMAIN loading = 1 .. k /\ Top \in Frame /\ Top = loading[k]
  BY <1>0, StackType DEF Inv, DefinitionParsed, Top
<1>2. /\ loading' = Below /\ wanted = None
      /\ defined' = defined \union {[lib |-> Top.lib, imports |-> Top.done]}
      /\ UNCHANGED <<source, status, declared, imports, depGraph, wanted, edits>>
      /\ Loaded' = Loaded
  BY DEF DefinitionParsed, Loaded
<1>3. k = 1
  BY <1>1 DEF Inv, Definitions, DefinitionParsed
<1>31. Top.name = Top.lib
  BY <1>1 DEF Inv, Definitions, DefinitionParsed
<1>4. loading' \in Seq(Frame) /\ DOMAIN loading' = {}
  BY <1>0, <1>2, <1>3, Popped DEF Inv, DefinitionParsed
<1>5. Top.lib \in Lib /\ Top.done \subseteq Lib
  BY <1>1 DEF Frame
<1>6. \A m \in Top.done : m \in Loaded /\ <<Top.name, m>> \in depGraph
  <2>1. NextUp(k) = None BY <1>0, <1>2 DEF NextUp
  <2> QED BY <1>1, <1>5, <2>1, RegistryAssumption DEF Inv, Followed
<1>7. TypeOK' BY <1>2, <1>4, <1>5 DEF Inv, TypeOK
<1>8. Definitions' BY <1>2, <1>31, <1>4, <1>6 DEF Inv, Definitions
<1>9. Path' /\ Followed' BY <1>4 DEF Path, Followed
<1>10. Acyclic' /\ OriginsLoaded' BY <1>2 DEF Inv, Acyclic, OriginsLoaded
<1> QED BY <1>7, <1>8, <1>9, <1>10 DEF Inv

\* def_lib begins with the one call of from_spec.
LEMMA DefineLibraryInv == ASSUME Inv, NEW l \in Lib, DefineLibrary(l) PROVE Inv'
<1> DEFINE f == Frame0(source[l].name, source[l], TRUE)
<1>1. f \in Frame /\ f.done = {} /\ f.name = f.lib
  <2>1. source[l] \in Sources /\ Parses(l) BY DEF Inv, TypeOK, DefineLibrary
  <2>2. source[l].imports \in SUBSET Lib /\ source[l].name \in Lib
    BY <2>1, TextIsNamed
  <2> QED BY <2>2 DEF Frame, Frame0
<1> HIDE DEF f
<1>2. /\ loading' = <<f>> /\ wanted = None /\ wanted' = None
      /\ UNCHANGED <<source, status, declared, imports, depGraph, defined, edits>>
      /\ Loaded' = Loaded
  BY DEF DefineLibrary, Unlocked, Loaded, f
<1>3. loading' \in Seq(Frame) /\ DOMAIN loading' = {1} /\ loading'[1] = f /\ Len(loading') = 1
  BY <1>1, <1>2
<1>4. TypeOK' BY <1>1, <1>2, <1>3 DEF Inv, TypeOK
<1>5. NextUp(1)' = None BY <1>2, <1>3 DEF NextUp
<1>6. Path' /\ Followed' /\ Definitions'
  BY <1>1, <1>2, <1>3, <1>5 DEF Inv, Path, Followed, Definitions
<1>7. Acyclic' /\ OriginsLoaded' BY <1>2 DEF Inv, Acyclic, OriginsLoaded
<1> QED BY <1>4, <1>6, <1>7 DEF Inv

\* What def_lib inserts imports only what is loaded.
LEMMA InsertDefinedInv == ASSUME Inv, NEW d \in defined, InsertDefined(d) PROVE Inv'
<1>1. d.lib \in Lib /\ d.imports \subseteq Lib /\ loading = <<>> /\ loading' = <<>>
  BY DEF Inv, TypeOK, InsertDefined, Unlocked
<1>2. Loaded \subseteq Loaded'
  BY <1>1 DEF Inv, TypeOK, InsertDefined, Loaded
<1>3. TypeOK' BY <1>1 DEF Inv, TypeOK, InsertDefined
<1>4. Path' /\ Followed' BY <1>1 DEF Path, Followed
<1>5. Definitions' BY <1>1, <1>2 DEF Inv, Definitions, InsertDefined
<1>6. OriginsLoaded'
  BY <1>1, <1>2 DEF Inv, TypeOK, Definitions, OriginsLoaded, InsertDefined
<1>7. Acyclic' BY DEF Inv, Acyclic, InsertDefined
<1> QED BY <1>3, <1>4, <1>5, <1>6, <1>7 DEF Inv

\* Asking for a library and editing a file need the lock to be free.
LEMMA ImportInv == ASSUME Inv, NEW l \in Lib, Import(l) PROVE Inv'
<1>1. DOMAIN loading = {} /\ loading' = loading
  BY StackType, EmptySeq DEF Inv, Import, Unlocked
<1>2. TypeOK' BY DEF Inv, TypeOK, Import
<1> QED BY <1>1, <1>2 DEF Inv, Import, Acyclic, Path, Followed, Definitions, OriginsLoaded, Loaded

LEMMA EditInv == ASSUME Inv, NEW c \in Changes, Edit(c[1], c[2]) PROVE Inv'
<1>1. TypeOK' BY RegistryAssumption DEF Inv, TypeOK, Edit
<1>2. UNCHANGED <<status, declared, imports, depGraph, wanted, loading, defined>> BY DEF Edit
<1> QED BY <1>1, <1>2 DEF Inv, Acyclic, Path, Followed, Definitions, OriginsLoaded, Loaded, NextUp

LEMMA NextInv == Inv /\ [Next]_vars => Inv'
<1> SUFFICES ASSUME Inv, [Next]_vars PROVE Inv'
  OBVIOUS
<1>1. CASE LoadKnown
  BY <1>1, ReturnInv DEF Inv, TypeOK, LoadKnown, Loaded
<1>2. CASE LoadBridges
  BY <1>2, ReturnInv DEF Inv, TypeOK, LoadBridges, Loaded
<1>3. CASE NotFound \/ (\E i \in Lib : RefuseCycle(i)) \/ RefuseBindings
  BY <1>3, AbandonInv DEF NotFound, RefuseCycle, RefuseBindings
<1>4. CASE LoadFile \/ InsertLibrary \/ DefinitionParsed \/ \E i \in Lib : FollowImport(i)
  BY <1>4, LoadFileInv, InsertLibraryInv, DefinitionParsedInv, FollowImportInv
<1>5. CASE \/ \E l \in Lib : Import(l) \/ DefineLibrary(l)
           \/ \E d \in defined : InsertDefined(d)
           \/ \E c \in Changes : Edit(c[1], c[2])
  BY <1>5, ImportInv, DefineLibraryInv, InsertDefinedInv, EditInv
<1>6. CASE UNCHANGED vars
  <2>1. TypeOK' /\ Acyclic' BY <1>6 DEF vars, Inv, TypeOK, Acyclic
  <2>2. Path' /\ Followed' /\ Definitions'
    BY <1>6 DEF vars, Inv, Path, Followed, Definitions, Loaded, NextUp
  <2>3. OriginsLoaded' BY <1>6 DEF vars, Inv, OriginsLoaded, Loaded
  <2> QED BY <2>1, <2>2, <2>3 DEF Inv
<1> QED BY <1>1, <1>2, <1>3, <1>4, <1>5, <1>6 DEF Next, Proceed

\* The invariant holds in every behaviour.
THEOREM Invariance == Spec => []Inv
<1> QED BY InitInv, NextInv, PTL DEF Spec

\* For any libraries and files, however they change: the imports that
\* check_for_circular_dependencies lets through never form a cycle.
THEOREM DependenciesAreAcyclic == Spec => []Acyclic
<1>1. Inv => Acyclic BY DEF Inv
<1> QED BY <1>1, Invariance, PTL

\* For any libraries and files, however they change: between two calls of
\* load_lib on the same library there is a file that declares another name than
\* the one it was found under.  Where there are no such files no library is loaded
\* while it is being loaded, and the recursion is no deeper than there are
\* libraries; where there are, it need not end.
THEOREM LoadingEnds == Spec => []ReentersByMisnamed
<1>1. Inv => ReentersByMisnamed BY PathHasNoRepeat DEF Inv
<1> QED BY <1>1, Invariance, PTL

\* For any libraries and files, whatever names they declare: what a loaded library
\* imports is loaded, and dep_graph knows of it under the name it declares.
THEOREM LoadedIsComplete == Spec => []OriginsLoaded
<1>1. Inv => OriginsLoaded BY DEF Inv
<1> QED BY <1>1, Invariance, PTL

----------------------------------------------------------------------------
(* Circular imports.                                                        *)

\* As long as no file changes, the registry follows and records nothing but
\* what the texts name.
FromFiles ==
    edits = 0 =>
        /\ \A e \in depGraph : TextImports(e[1], e[2])
        /\ \A n \in DOMAIN loading : \A m \in loading[n].todo \union loading[n].done :
              TextImports(loading[n].name, m)

\* A library that reaches t, and is not t, has an edge to one that reaches t.
LEMMA ReachesByEdge ==
  ASSUME depGraph \subseteq Lib \X Lib, NEW t \in Lib, NEW x \in Lib, x # t, Reaches(x, t)
  PROVE  \E y \in Lib : Reaches(y, t) /\ <<x, y>> \in depGraph
<1> SUFFICES ASSUME \A y \in Lib : Reaches(y, t) => <<x, y>> \notin depGraph PROVE FALSE
  OBVIOUS
<1> DEFINE C == {y \in Lib : ~Reaches(y, t)} \union {x}
<1>1. x \in C /\ C \in SUBSET Lib /\ t \notin C
  BY DEF Reaches
<1>2. ASSUME NEW e \in depGraph, e[1] \in C PROVE e[2] \in C
  <2>1. e[1] \in Lib /\ e[2] \in Lib /\ e = <<e[1], e[2]>> OBVIOUS
  <2>2. CASE e[1] = x BY <2>1, <2>2
  <2>3. CASE e[1] # x
    <3>1. ~Reaches(e[1], t) BY <1>2, <2>3
    <3>2. Reaches(e[2], t) => Reaches(e[1], t) BY <2>1 DEF Reaches
    <3> QED BY <2>1, <3>1, <3>2
  <2> QED BY <2>2, <2>3
<1> QED BY <1>1, <1>2 DEF Reaches

\* What is refused as circular is circular: the names that reach the one whose
\* import is followed.
LEMMA RefusedIsCircular ==
  ASSUME TypeOK, FromFiles, edits = 0, NEW i \in Lib, RefuseCycle(i)
  PROVE  \E S \in SUBSET Lib : S # {} /\ \A x \in S : \E m \in S : TextImports(x, m)
<1> DEFINE t == Top.name
           S == {x \in Lib : Reaches(x, t)}
<1>1. Top \in Frame /\ i \in Top.todo /\ Reaches(i, t) /\ Len(loading) \in DOMAIN loading
  <2>1. loading # <<>> /\ i \in Top.todo /\ Reaches(i, t) BY DEF RefuseCycle
  <2>2. Len(loading) \in 1 .. Len(loading) /\ DOMAIN loading = 1 .. Len(loading) BY <2>1, StackType
  <2>3. Top \in Frame BY <2>2, StackType DEF Top
  <2> QED BY <2>1, <2>2, <2>3
<1>2. t \in Lib BY <1>1 DEF Frame
<1>3. TextImports(t, i) BY <1>1 DEF FromFiles, Top
<1>4. t \in S /\ i \in S BY <1>1, <1>2 DEF Reaches
<1>5. ASSUME NEW x \in S PROVE \E m \in S : TextImports(x, m)
  <2>1. CASE x = t BY <1>3, <1>4, <2>1
  <2>2. CASE x # t
    <3>1. PICK y \in Lib : Reaches(y, t) /\ <<x, y>> \in depGraph
      BY <1>2, <2>2, ReachesByEdge DEF TypeOK
    <3>2. TextImports(x, y) BY <3>1 DEF FromFiles
    <3> QED BY <3>1, <3>2
  <2> QED BY <2>1, <2>2
<1> QED BY <1>4, <1>5

\* Calls that are there after a step and name no more than the texts do.
LEMMA FromFilesKept ==
  ASSUME FromFiles, edits' = 0 => edits = 0 /\ source' = source,
         \A e \in depGraph' : e \in depGraph
            \/ \E n \in DOMAIN loading : e[1] = loading[n].name /\ e[2] \in loading[n].todo,
         \A n \in DOMAIN loading' :
            \/ \A m \in loading'[n].todo \union loading'[n].done : TextImports(loading'[n].name, m)
            \/ /\ n \in DOMAIN loading /\ loading'[n].name = loading[n].name
               /\ loading'[n].todo \union loading'[n].done \subseteq loading[n].todo \union loading[n].done
  PROVE  FromFiles'
<1> SUFFICES ASSUME edits' = 0
             PROVE  /\ \A e \in depGraph' : TextImports(e[1], e[2])
                    /\ \A n \in DOMAIN loading' :
                          \A m \in loading'[n].todo \union loading'[n].done :
                             TextImports(loading'[n].name, m)
  BY DEF FromFiles, TextImports, Parses
<1>1. /\ \A e \in depGraph : TextImports(e[1], e[2])
      /\ \A n \in DOMAIN loading : \A m \in loading[n].todo \union loading[n].done :
            TextImports(loading[n].name, m)
  BY DEF FromFiles
<1>2. ASSUME NEW e \in depGraph' PROVE TextImports(e[1], e[2]) BY <1>1
<1>3. ASSUME NEW n \in DOMAIN loading', NEW m \in loading'[n].todo \union loading'[n].done
      PROVE  TextImports(loading'[n].name, m)
  <2>1. CASE /\ n \in DOMAIN loading /\ loading'[n].name = loading[n].name
             /\ loading'[n].todo \union loading'[n].done \subseteq loading[n].todo \union loading[n].done
    BY <1>1, <1>3, <2>1
  <2> QED BY <1>3, <2>1
<1> QED BY <1>2, <1>3

LEMMA FromFilesNext == Inv /\ FromFiles /\ [Next]_vars => FromFiles'
<1> SUFFICES ASSUME Inv, FromFiles, [Next]_vars PROVE FromFiles'
  OBVIOUS
<1>0. TypeOK BY DEF Inv
<1>1. ASSUME loading' = <<>>, UNCHANGED <<source, depGraph, edits>> PROVE FromFiles'
  <2>1. DOMAIN loading' = {} BY <1>1
  <2> QED BY <1>1, <2>1 DEF FromFiles, TextImports, Parses
<1>2. ASSUME loading # <<>>, loading' = Below, UNCHANGED <<source, depGraph, edits>> PROVE FromFiles'
  <2>1. \A n \in DOMAIN loading' : n \in DOMAIN loading /\ loading'[n] = loading[n]
    BY <1>0, <1>2, Popped, StackType
  <2> QED BY <1>2, <2>1 DEF FromFiles, TextImports, Parses
<1>3. ASSUME UNCHANGED <<source, depGraph, edits, loading>> PROVE FromFiles'
  BY <1>3 DEF FromFiles, TextImports, Parses
<1>4. CASE LoadFile
  <2> DEFINE f == Frame0(wanted, source[wanted], FALSE)
  <2>1. /\ f \in Frame /\ f.name = source[wanted].name
        /\ f.todo \union f.done = source[wanted].imports
        /\ wanted \in Lib /\ Parses(wanted)
    <3>1. source[wanted] \in Sources /\ wanted \in Lib /\ Parses(wanted)
      BY <1>0, <1>4 DEF TypeOK, LoadFile
    <3>2. source[wanted].imports \in SUBSET Lib /\ source[wanted].name \in Lib
      BY <3>1, TextIsNamed
    <3> QED BY <3>1, <3>2 DEF Frame, Frame0
  <2>2. loading' = Append(loading, f) /\ UNCHANGED <<source, depGraph, edits>> BY <1>4 DEF LoadFile
  <2>3. \A m \in f.todo \union f.done : TextImports(f.name, m) BY <2>1 DEF TextImports
  <2> HIDE DEF f
  <2>4. \A n \in DOMAIN loading' : (n \in DOMAIN loading /\ loading'[n] = loading[n]) \/ loading'[n] = f
    BY <1>0, <2>1, <2>2, Pushed, StackType
  <2> QED BY <2>2, <2>3, <2>4, FromFilesKept
<1>5. ASSUME NEW i \in Lib, FollowImport(i) PROVE FromFiles'
  <2> DEFINE f == [Top EXCEPT !.todo = @ \ {i}, !.done = @ \union {i}]
  <2>1. /\ Top \in Frame /\ Top = loading[Len(loading)] /\ Len(loading) \in DOMAIN loading
        /\ i \in Top.todo /\ loading # <<>>
    <3>1. loading # <<>> /\ i \in Top.todo BY <1>5 DEF FollowImport
    <3>2. Len(loading) \in 1 .. Len(loading) /\ DOMAIN loading = 1 .. Len(loading)
      BY <1>0, <3>1, StackType
    <3> QED BY <1>0, <3>1, <3>2, StackType DEF Top
  <2>2. f \in Frame /\ f.name = Top.name /\ f.todo \union f.done \subseteq Top.todo \union Top.done
    BY <2>1 DEF Frame
  <2>3. /\ loading' = Append(Below, f) /\ depGraph' = depGraph \union {<<Top.name, i>>}
        /\ UNCHANGED <<source, edits>>
    BY <1>5 DEF FollowImport
  <2> HIDE DEF f
  <2>4. \A n \in DOMAIN loading' :
          n \in DOMAIN loading /\ (loading'[n] = loading[n] \/ (n = Len(loading) /\ loading'[n] = f))
    <3>1. PICK k \in Nat : k = Len(loading) BY <1>0, StackType
    <3>2. DOMAIN loading = 1 .. k BY <1>0, <3>1, StackType
    <3>3. /\ DOMAIN loading' = 1 .. k /\ loading'[k] = f
          /\ \A n \in 1 .. k - 1 : loading'[n] = loading[n]
      BY <1>0, <2>1, <2>2, <2>3, <3>1, Replaced
    <3>4. \A n \in 1 .. k : n = k \/ n \in 1 .. k - 1 OBVIOUS
    <3>5. \A n \in 1 .. k : loading'[n] = loading[n] \/ (n = k /\ loading'[n] = f) BY <3>3, <3>4
    <3> QED BY <3>1, <3>2, <3>3, <3>5
  <2>5. \A n \in DOMAIN loading' :
          /\ n \in DOMAIN loading /\ loading'[n].name = loading[n].name
          /\ loading'[n].todo \union loading'[n].done \subseteq loading[n].todo \union loading[n].done
    BY <2>1, <2>2, <2>4
  <2> QED BY <2>1, <2>3, <2>5, FromFilesKept
<1>6. ASSUME NEW l \in Lib, DefineLibrary(l) PROVE FromFiles'
  <2> DEFINE f == Frame0(source[l].name, source[l], TRUE)
  <2>1. f.name = source[l].name /\ f.todo \union f.done = source[l].imports BY DEF Frame0
  <2>2. loading' = <<f>> /\ Parses(l) /\ UNCHANGED <<source, depGraph, edits>>
    BY <1>6 DEF DefineLibrary
  <2>3. \A m \in f.todo \union f.done : TextImports(f.name, m) BY <2>1, <2>2 DEF TextImports
  <2> HIDE DEF f
  <2>4. \A n \in DOMAIN loading' : loading'[n] = f BY <2>2
  <2> QED BY <2>2, <2>3, <2>4, FromFilesKept
<1>7. ASSUME NEW c \in Changes, Edit(c[1], c[2]) PROVE FromFiles'
  <2>1. edits' = edits + 1 /\ edits \in Nat BY <1>0, <1>7, RegistryAssumption DEF Edit, TypeOK
  <2>2. edits' # 0 BY <2>1
  <2> QED BY <2>2 DEF FromFiles
<1>8. CASE InsertLibrary \/ DefinitionParsed
  BY <1>2, <1>8 DEF InsertLibrary, DefinitionParsed
<1>9. CASE NotFound \/ (\E i \in Lib : RefuseCycle(i)) \/ RefuseBindings
  BY <1>1, <1>9 DEF NotFound, RefuseCycle, RefuseBindings, Abandon
<1>10. CASE LoadKnown \/ LoadBridges \/ (\E l \in Lib : Import(l)) \/ (\E d \in defined : InsertDefined(d))
            \/ UNCHANGED vars
  BY <1>3, <1>10 DEF LoadKnown, LoadBridges, Import, InsertDefined, vars
<1> QED BY <1>4, <1>5, <1>6, <1>7, <1>8, <1>9, <1>10 DEF Next, Proceed

\* For any libraries and files, as long as no file changes: an import is refused
\* as circular (check_for_circular_dependencies) only if the texts, taken by the
\* names that they declare, form a cycle, whatever loads have failed before and
\* left in dep_graph.
THEOREM RefusalsAreRight == Spec => CycleIsReal
<1> DEFINE Real ==
       \A i \in Lib :
          edits = 0 /\ RefuseCycle(i) =>
            \E S \in SUBSET Lib :
                /\ S # {}
                /\ \A x \in S : \E m \in S : TextImports(x, m)
<1>1. Init => FromFiles BY DEF Init, FromFiles
<1>2. Inv /\ FromFiles /\ [Next]_vars => FromFiles' BY FromFilesNext
<1>3. Spec => []FromFiles BY <1>1, <1>2, Invariance, PTL DEF Spec
<1>4. Inv /\ FromFiles => Real BY RefusedIsCircular DEF Inv
<1>5. Inv /\ FromFiles /\ [Next]_vars => [Real]_vars BY <1>4
<1>6. Spec => [][Real]_vars BY <1>3, <1>5, Invariance, PTL DEF Spec
<1> QED BY <1>6 DEF CycleIsReal
=============================================================================
