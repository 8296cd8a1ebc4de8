-------------------------- MODULE Libraries_proofs --------------------------
(***************************************************************************)
(* Proofs about Libraries, for any libraries, bodies and threads.           *)
(***************************************************************************)
EXTENDS Libraries, SequenceTheorems, TLAPS

Looking == {"keyword", "resolve", "variable", "expand", "invoke"}
Frame == [do : Looking \union Holding, lib : Lib]

Typed ==
    /\ imports \in [Lib -> SUBSET Lib]
    /\ state \in [Lib -> {"unexpanded", "expanding", "expanded", "invalid", "invoked"}]
    /\ holder \in [Lib -> Thread \union {None}]
    /\ bound \in [Lib -> BOOLEAN]
    /\ calls \in [Thread -> Seq(Frame)]
    /\ named \in [Lib -> SUBSET ({"keyword", "variable"} \X Lib)]
    /\ runs \in [Lib -> Nat]

\* A library is held by the one call that expands or runs it.
Held ==
    /\ \A t \in Thread : \A n \in DOMAIN calls[t] :
          calls[t][n].do \in Holding => holder[calls[t][n].lib] = t
    /\ \A t \in Thread : \A n, k \in DOMAIN calls[t] :
          calls[t][n].do \in Holding /\ calls[t][k].do \in Holding
             /\ calls[t][n].lib = calls[t][k].lib => n = k
    /\ \A l \in Lib : holder[l] # None =>
          \E n \in DOMAIN calls[holder[l]] :
             calls[holder[l]][n].do \in Holding /\ calls[holder[l]][n].lib = l

\* What the state of a library says of the calls on it, and of how often its body ran.
Stages ==
    /\ \A t \in Thread : \A n \in DOMAIN calls[t] :
          LET l == calls[t][n].lib IN
          /\ calls[t][n].do \in {"splice", "parse"} => state[l] = "expanding"
          /\ calls[t][n].do = "run" => state[l] = "invalid"
          /\ calls[t][n].do = "invoke" => bound[l]
    /\ \A l \in Lib : bound[l] => state[l] # "unexpanded" /\ l \notin gaps
    /\ \A l \in Lib : runs[l] = IF state[l] \in {"invalid", "invoked"} THEN 1 ELSE 0

\* A library's calls are about libraries it can see, or about itself when it calls itself.
Nested ==
    \A t \in Thread : \A n, k \in DOMAIN calls[t] :
        n < k /\ calls[t][n].do \in Holding =>
            \/ calls[t][k].lib \in Visible(calls[t][n].lib)
            \/ /\ calls[t][k].lib = calls[t][n].lib /\ calls[t][k].do \notin Holding
               /\ calls[t][k].lib \in CallsItself

\* The library m has run to its end, or never will.
Settled(m) == state[m] = "invoked" \/ Broken(m)

\* The lookup of a variable of m by the body of l is under way.
LookingUp(l, m) ==
    \E t \in Thread : \E n \in DOMAIN calls[t] :
        /\ calls[t][n].lib = l /\ calls[t][n].do \in {"splice", "parse"}
        /\ n + 1 \in DOMAIN calls[t]
        /\ calls[t][n + 1].lib = m /\ calls[t][n + 1].do \in {"variable", "invoke", "run"}

\* What a body names is settled, unless the lookup goes on or the body has failed.
NamesSettled ==
    \A l, m \in Lib : <<"variable", m>> \in named[l] =>
        Settled(m) \/ LookingUp(l, m) \/ (state[l] = "expanding" /\ holder[l] = None)

Inv == Typed /\ Held /\ Stages /\ Nested /\ NamesSettled

-----------------------------------------------------------------------------
\* The body that imports a library while it is expanded may not close a circle.
BodyGraph(g) == [x \in Lib |-> g[x] \union {m \in Lib : <<x, m>> \in BodyImports}]
NoCircles ==
    \A g \in Graphs : \A S \in SUBSET Lib :
        S # {} => \E x \in S : BodyGraph(g)[x] \cap S = {}

ImportsGrow == \E g \in Graphs : \A x \in Lib : imports[x] \subseteq BodyGraph(g)[x]

-----------------------------------------------------------------------------
\* What is visible to what is visible is visible.
LEMMA VisibleTransitive ==
  ASSUME imports \in [Lib -> SUBSET Lib], NEW l \in Lib,
         NEW m \in Visible(l), NEW k \in Visible(m)
  PROVE  k \in Visible(l)
  BY DEF Visible

\* More imports make nothing invisible.
LEMMA VisibleGrows ==
  ASSUME \A x \in Lib : imports[x] \subseteq imports'[x], NEW l \in Lib
  PROVE  Visible(l) \subseteq Visible(l)'
<1> SUFFICES ASSUME NEW m \in Visible(l), NEW S \in SUBSET Lib,
                    imports'[l] \subseteq S, \A x \in S : imports'[x] \subseteq S
             PROVE  m \in S
  BY DEF Visible
<1> QED BY DEF Visible

\* Every call is about a library.
LEMMA CallTyped ==
  ASSUME Typed
  PROVE  \A u \in Thread : \A n \in DOMAIN calls[u] : calls[u][n] \in Frame
<1> TAKE u \in Thread
<1> TAKE n \in DOMAIN calls[u]
<1>1. calls[u] \in Seq(Frame) BY DEF Typed
<1> DEFINE q == calls[u]
<1>2. \A i \in DOMAIN q : q[i] \in Frame
  <2>1. q \in Seq(Frame) BY <1>1
  <2> HIDE DEF q
  <2> QED BY <2>1
<1> QED BY <1>2

\* The calls of a thread once the innermost one has become those in s.
LEMMA ContinuedCalls ==
  ASSUME Typed, NEW t \in Thread, calls[t] # <<>>, NEW s \in Seq(Frame), Continue(t, s)
  PROVE  /\ calls' \in [Thread -> Seq(Frame)]
         /\ \A u \in Thread \ {t} : calls'[u] = calls[u]
         /\ Len(calls'[t]) = Len(calls[t]) - 1 + Len(s)
         /\ \A n \in 1 .. Len(calls[t]) - 1 : calls'[t][n] = calls[t][n]
         /\ \A n \in 1 .. Len(s) : calls'[t][Len(calls[t]) - 1 + n] = s[n]
         /\ Len(calls[t]) \in Nat \ {0}
         /\ Current(t) \in Frame /\ Current(t) = calls[t][Len(calls[t])]
<1> DEFINE q == calls[t]
           p == SubSeq(q, 1, Len(q) - 1)
<1>1. q \in Seq(Frame) /\ Len(q) \in Nat \ {0}
  BY EmptySeq DEF Typed
<1>2. p \in Seq(Frame) /\ Len(p) = Len(q) - 1 /\ \A n \in 1 .. Len(q) - 1 : p[n] = q[n]
  BY <1>1
<1>3. calls' = [calls EXCEPT ![t] = p \o s]
  BY DEF Continue, Callers
<1> HIDE DEF p
<1>4. calls'[t] = p \o s /\ calls' \in [Thread -> Seq(Frame)]
  BY <1>2, <1>3 DEF Typed
<1>5. /\ Len(p \o s) = Len(q) - 1 + Len(s)
      /\ \A n \in 1 .. Len(q) - 1 : (p \o s)[n] = q[n]
      /\ \A n \in 1 .. Len(s) : (p \o s)[Len(q) - 1 + n] = s[n]
  <2> HIDE DEF q
  <2>0. Len(s) \in Nat
    OBVIOUS
  <2>1. /\ Len(p \o s) = Len(p) + Len(s)
        /\ \A i \in 1 .. Len(p) + Len(s) : (p \o s)[i] = IF i <= Len(p) THEN p[i] ELSE s[i - Len(p)]
    BY <1>2, ConcatProperties, Zenon
  <2>2. ASSUME NEW n \in 1 .. Len(q) - 1 PROVE (p \o s)[n] = q[n]
    BY <2>0, <2>1, <1>1, <1>2
  <2>3. ASSUME NEW n \in 1 .. Len(s) PROVE (p \o s)[Len(q) - 1 + n] = s[n]
    <3>1. Len(q) - 1 + n \in 1 .. Len(p) + Len(s) /\ Len(q) - 1 + n > Len(p) /\ (Len(q) - 1 + n) - Len(p) = n
      BY <2>0, <2>1, <1>1, <1>2
    <3> QED BY <2>0, <2>1, <3>1, <1>1, <1>2
  <2> QED BY <2>1, <2>2, <2>3, <1>1, <1>2
<1>6. Current(t) \in Frame
  BY <1>1 DEF Current, q
<1>7. \A u \in Thread \ {t} : calls'[u] = calls[u]
  BY <1>3 DEF Typed
<1> QED BY <1>1, <1>4, <1>5, <1>6, <1>7 DEF q, Current

\* The same, call by call: those above the innermost one stay, the others are in s.
LEMMA ContinuedCall ==
  ASSUME Typed, NEW t \in Thread, calls[t] # <<>>, NEW s \in Seq(Frame), Continue(t, s)
  PROVE  /\ \A n \in DOMAIN calls'[t] :
              \/ n < Len(calls[t]) /\ n \in DOMAIN calls[t] /\ calls'[t][n] = calls[t][n]
              \/ n >= Len(calls[t]) /\ \E j \in 1 .. Len(s) : n = Len(calls[t]) - 1 + j /\ calls'[t][n] = s[j]
         /\ \A n \in DOMAIN calls[t] : n < Len(calls[t]) => n \in DOMAIN calls'[t] /\ calls'[t][n] = calls[t][n]
         /\ \A n \in DOMAIN calls[t] : n \in Nat /\ n <= Len(calls[t])
         /\ \A n \in DOMAIN calls'[t] : n \in Nat
<1> DEFINE q == calls[t]
           r == calls'[t]
<1>1. /\ q \in Seq(Frame) /\ r \in Seq(Frame)
      /\ Len(r) = Len(q) - 1 + Len(s)
      /\ \A n \in 1 .. Len(q) - 1 : r[n] = q[n]
      /\ \A n \in 1 .. Len(s) : r[Len(q) - 1 + n] = s[n]
      /\ Len(q) \in Nat \ {0} /\ Len(s) \in Nat
  BY ContinuedCalls DEF Typed
<1> HIDE DEF q, r
<1>2. DOMAIN q = 1 .. Len(q) /\ DOMAIN r = 1 .. Len(r)
  BY <1>1
<1>3. ASSUME NEW n \in DOMAIN r, n >= Len(q)
      PROVE  \E j \in 1 .. Len(s) : n = Len(q) - 1 + j /\ r[n] = s[j]
  <2>1. n - Len(q) + 1 \in 1 .. Len(s) /\ n = Len(q) - 1 + (n - Len(q) + 1)
    BY <1>1, <1>2, <1>3
  <2> QED BY <1>1, <2>1
<1>4. ASSUME NEW n \in DOMAIN r, n < Len(q) PROVE n \in DOMAIN q /\ r[n] = q[n]
  <2>1. Len(r) \in Nat BY <1>1
  <2>2. n \in 1 .. Len(q) - 1 /\ n \in 1 .. Len(q) BY <1>1, <1>2, <1>4, <2>1
  <2> QED BY <1>1, <1>2, <2>2
<1>5. ASSUME NEW n \in DOMAIN q, n < Len(q) PROVE n \in DOMAIN r /\ r[n] = q[n]
  <2>1. Len(r) \in Nat BY <1>1
  <2>2. n \in 1 .. Len(q) - 1 /\ n \in 1 .. Len(r) BY <1>1, <1>2, <1>5, <2>1
  <2> QED BY <1>1, <1>2, <2>2
<1>6. \A n \in DOMAIN r : n < Len(q) \/ n >= Len(q)
  BY <1>1, <1>2
<1> QED BY <1>1, <1>2, <1>3, <1>4, <1>5, <1>6 DEF q, r

\* A step that only looks further into what the innermost call is about.
LEMMA LookupStep ==
  ASSUME Inv, NEW t \in Thread, calls[t] # <<>>, Current(t).do \notin Holding,
         NEW s \in Seq(Frame), Continue(t, s),
         \A n \in 1 .. Len(s) :
            /\ s[n].lib = Current(t).lib /\ s[n].do \notin Holding
            /\ s[n].do = "invoke" => bound[s[n].lib],
         Current(t).do \in {"variable", "invoke"} =>
            \/ Len(s) > 0 /\ s[1].do \in {"variable", "invoke"}
            \/ Settled(Current(t).lib),
         UNCHANGED <<gaps, imports, state, holder, bound, named, runs>>
  PROVE  Inv'
<1> DEFINE q == calls[t]
           N == Len(q)
<1>0. Typed BY DEF Inv
<1>1. /\ calls' \in [Thread -> Seq(Frame)]
      /\ \A u \in Thread \ {t} : calls'[u] = calls[u]
      /\ N \in Nat \ {0} /\ N \in DOMAIN calls[t]
      /\ Current(t) = calls[t][N]
  <2>1. calls[t] \in Seq(Frame) BY <1>0 DEF Typed
  <2> QED BY <1>0, <2>1, ContinuedCalls
<1>2. /\ \A n \in DOMAIN calls'[t] :
            \/ n < N /\ n \in DOMAIN calls[t] /\ calls'[t][n] = calls[t][n]
            \/ /\ n >= N /\ calls'[t][n].lib = calls[t][N].lib /\ calls'[t][n].do \notin Holding
               /\ calls'[t][n].do = "invoke" => bound[calls[t][N].lib]
      /\ \A n \in DOMAIN calls[t] : n < N => n \in DOMAIN calls'[t] /\ calls'[t][n] = calls[t][n]
      /\ \A n \in DOMAIN calls[t] : n \in Nat /\ n <= N
      /\ \A n \in DOMAIN calls'[t] : n \in Nat
  <2>1. /\ \A n \in DOMAIN calls'[t] :
              \/ n < N /\ n \in DOMAIN calls[t] /\ calls'[t][n] = calls[t][n]
              \/ n >= N /\ \E j \in 1 .. Len(s) : n = N - 1 + j /\ calls'[t][n] = s[j]
        /\ \A n \in DOMAIN calls[t] : n < N => n \in DOMAIN calls'[t] /\ calls'[t][n] = calls[t][n]
        /\ \A n \in DOMAIN calls[t] : n \in Nat /\ n <= N
        /\ \A n \in DOMAIN calls'[t] : n \in Nat
    BY <1>0, ContinuedCall
  <2>2. \A j \in 1 .. Len(s) :
          /\ s[j].lib = calls[t][N].lib /\ s[j].do \notin Holding
          /\ s[j].do = "invoke" => bound[calls[t][N].lib]
    BY <1>1
  <2> QED BY <2>1, <2>2
<1>3. Typed' BY <1>0, <1>1 DEF Typed
<1>4. Held'
  <2>1. \A u \in Thread : \A n \in DOMAIN calls'[u] :
          calls'[u][n].do \in Holding => n \in DOMAIN calls[u] /\ calls'[u][n] = calls[u][n]
    BY <1>1, <1>2
  <2>2. \A l \in Lib : holder'[l] # None =>
          \E n \in DOMAIN calls'[holder'[l]] :
             calls'[holder'[l]][n].do \in Holding /\ calls'[holder'[l]][n].lib = l
    <3> SUFFICES ASSUME NEW l \in Lib, holder[l] # None
                 PROVE  \E n \in DOMAIN calls'[holder[l]] :
                           calls'[holder[l]][n].do \in Holding /\ calls'[holder[l]][n].lib = l
      OBVIOUS
    <3>1. holder[l] \in Thread BY <1>0 DEF Typed
    <3>2. PICK n \in DOMAIN calls[holder[l]] :
             calls[holder[l]][n].do \in Holding /\ calls[holder[l]][n].lib = l
      BY DEF Inv, Held
    <3>3. holder[l] = t => n < N
      BY <1>1, <1>2, <3>2
    <3> QED BY <1>1, <1>2, <3>1, <3>2, <3>3
  <2> QED BY <2>1, <2>2 DEF Inv, Held
<1>5. Stages'
  BY <1>1, <1>2 DEF Inv, Stages, Holding
<1>6. Nested'
  <2> SUFFICES ASSUME NEW u \in Thread, NEW n \in DOMAIN calls'[u], NEW k \in DOMAIN calls'[u],
                      n < k, calls'[u][n].do \in Holding
               PROVE  \/ calls'[u][k].lib \in Visible(calls'[u][n].lib)
                      \/ /\ calls'[u][k].lib = calls'[u][n].lib /\ calls'[u][k].do \notin Holding
                         /\ calls'[u][k].lib \in CallsItself
    BY DEF Nested, Visible
  <2>1. CASE u # t BY <1>1, <2>1 DEF Inv, Nested
  <2>2. CASE u = t
    <3>1. n < N /\ n \in DOMAIN calls[t] /\ calls'[t][n] = calls[t][n]
      BY <1>2, <2>2
    <3>2. CASE k < N BY <1>2, <2>2, <3>1, <3>2 DEF Inv, Nested
    <3>3. CASE k >= N BY <1>1, <1>2, <2>2, <3>1, <3>3 DEF Inv, Nested
    <3> QED BY <1>1, <1>2, <2>2, <3>2, <3>3
  <2> QED BY <2>1, <2>2
<1>7. NamesSettled'
  <2> SUFFICES ASSUME NEW l \in Lib, NEW m \in Lib, LookingUp(l, m)
               PROVE  Settled(m) \/ LookingUp(l, m)'
    BY DEF Inv, NamesSettled, Settled, Broken
  <2>0. PICK u \in Thread : \E n \in DOMAIN calls[u] :
          /\ calls[u][n].lib = l /\ calls[u][n].do \in {"splice", "parse"}
          /\ n + 1 \in DOMAIN calls[u]
          /\ calls[u][n + 1].lib = m /\ calls[u][n + 1].do \in {"variable", "invoke", "run"}
    BY DEF LookingUp
  <2>1. PICK n \in DOMAIN calls[u] :
          /\ calls[u][n].lib = l /\ calls[u][n].do \in {"splice", "parse"}
          /\ n + 1 \in DOMAIN calls[u]
          /\ calls[u][n + 1].lib = m /\ calls[u][n + 1].do \in {"variable", "invoke", "run"}
    BY <2>0
  <2>2. CASE u # t
    BY <1>1, <2>1, <2>2 DEF LookingUp
  <2>4. CASE u = t /\ n + 1 < N
    <3>1. /\ n \in DOMAIN calls'[t] /\ calls'[t][n] = calls[t][n]
          /\ n + 1 \in DOMAIN calls'[t] /\ calls'[t][n + 1] = calls[t][n + 1]
      BY <1>1, <1>2, <2>1, <2>4
    <3> QED BY <2>1, <2>4, <3>1 DEF LookingUp
  <2>3. CASE u = t /\ n + 1 = N
    <3>1. SUFFICES ASSUME Len(s) > 0, s[1].do \in {"variable", "invoke"}
                   PROVE  LookingUp(l, m)'
      BY <1>1, <2>1, <2>3 DEF Holding
    <3>2. n \in DOMAIN calls'[t] /\ calls'[t][n] = calls[t][n]
      BY <1>2, <2>3
    <3>3. N \in DOMAIN calls'[t] /\ calls'[t][N] = s[1]
      <4>1. /\ Len(calls'[t]) = N - 1 + Len(s) /\ calls'[t] \in Seq(Frame)
            /\ \A j \in 1 .. Len(s) : calls'[t][N - 1 + j] = s[j]
        BY <1>0, <1>1, ContinuedCalls
      <4>2. Len(s) \in Nat /\ 1 \in 1 .. Len(s) BY <3>1
      <4> HIDE DEF N
      <4>3. N \in 1 .. Len(calls'[t]) /\ N - 1 + 1 = N BY <1>1, <4>1, <4>2
      <4>4. calls'[t][N - 1 + 1] = s[1] BY <4>1, <4>2
      <4> QED BY <4>1, <4>3, <4>4
    <3>4. s[1].lib = m
      <4>1. 1 \in 1 .. Len(s) BY <3>1
      <4>2. Current(t).lib = m BY <1>1, <2>1, <2>3
      <4> QED BY <4>1, <4>2
    <3>5. /\ calls'[t][n].lib = l /\ calls'[t][n].do \in {"splice", "parse"}
          /\ n + 1 \in DOMAIN calls'[t]
          /\ calls'[t][n + 1].lib = m /\ calls'[t][n + 1].do \in {"variable", "invoke", "run"}
      BY <2>1, <2>3, <3>1, <3>2, <3>3, <3>4
    <3> QED BY <3>2, <3>5 DEF LookingUp
  <2> QED BY <1>1, <1>2, <2>1, <2>2, <2>3, <2>4
<1> QED BY <1>3, <1>4, <1>5, <1>6, <1>7 DEF Inv

\* The innermost call becomes the call f.
LEMMA ReplacedCall ==
  ASSUME Typed, NEW t \in Thread, calls[t] # <<>>, NEW f \in Frame, Continue(t, <<f>>)
  PROVE  LET N == Len(calls[t]) IN
         /\ calls' \in [Thread -> Seq(Frame)]
         /\ \A u \in Thread \ {t} : calls'[u] = calls[u]
         /\ N \in Nat \ {0} /\ DOMAIN calls[t] = 1 .. N /\ DOMAIN calls'[t] = 1 .. N
         /\ \A n \in 1 .. N : n # N => calls'[t][n] = calls[t][n]
         /\ calls'[t][N] = f
         /\ Current(t) = calls[t][N] /\ Current(t) \in Frame
<1> DEFINE N == Len(calls[t])
<1>1. <<f>> \in Seq(Frame) /\ Len(<<f>>) = 1 /\ <<f>>[1] = f
  OBVIOUS
<1>2. /\ calls' \in [Thread -> Seq(Frame)]
      /\ \A u \in Thread \ {t} : calls'[u] = calls[u]
      /\ Len(calls'[t]) = N - 1 + 1
      /\ \A n \in 1 .. N - 1 : calls'[t][n] = calls[t][n]
      /\ \A n \in 1 .. 1 : calls'[t][N - 1 + n] = <<f>>[n]
      /\ N \in Nat \ {0}
      /\ Current(t) \in Frame /\ Current(t) = calls[t][N]
  BY <1>1, ContinuedCalls
<1>3. calls[t] \in Seq(Frame) BY DEF Typed
<1>4. DOMAIN calls[t] = 1 .. N /\ DOMAIN calls'[t] = 1 .. Len(calls'[t])
  BY <1>2, <1>3
<1> HIDE DEF N
<1>5. N - 1 + 1 = N /\ \A n \in 1 .. N : n # N => n \in 1 .. N - 1
  BY <1>2
<1>6. calls'[t][N] = f BY <1>1, <1>2, <1>5
<1> QED BY <1>2, <1>4, <1>5, <1>6 DEF N

\* The innermost call returns.
LEMMA ReturnedCall ==
  ASSUME Typed, NEW t \in Thread, calls[t] # <<>>, Continue(t, <<>>)
  PROVE  LET N == Len(calls[t]) IN
         /\ calls' \in [Thread -> Seq(Frame)]
         /\ \A u \in Thread \ {t} : calls'[u] = calls[u]
         /\ N \in Nat \ {0} /\ DOMAIN calls[t] = 1 .. N /\ DOMAIN calls'[t] = 1 .. N - 1
         /\ \A n \in 1 .. N : n # N => n \in 1 .. N - 1 /\ calls'[t][n] = calls[t][n]
         /\ \A n \in 1 .. N - 1 : n \in 1 .. N /\ n # N
         /\ Current(t) = calls[t][N] /\ Current(t) \in Frame
<1> DEFINE N == Len(calls[t])
           e == <<>>
<1>1. e \in Seq(Frame) /\ Len(e) = 0
  OBVIOUS
<1>2. /\ calls' \in [Thread -> Seq(Frame)]
      /\ \A u \in Thread \ {t} : calls'[u] = calls[u]
      /\ Len(calls'[t]) = N - 1 + 0
      /\ \A n \in 1 .. N - 1 : calls'[t][n] = calls[t][n]
      /\ N \in Nat \ {0}
      /\ Current(t) \in Frame /\ Current(t) = calls[t][N]
  <2>1. Continue(t, e) OBVIOUS
  <2> HIDE DEF e
  <2> QED BY <1>1, <2>1, ContinuedCalls
<1>3. calls[t] \in Seq(Frame) BY DEF Typed
<1>4. DOMAIN calls[t] = 1 .. N /\ DOMAIN calls'[t] = 1 .. Len(calls'[t])
  BY <1>2, <1>3
<1> HIDE DEF N
<1>5. N - 1 + 0 = N - 1 /\ (\A n \in 1 .. N : n # N => n \in 1 .. N - 1)
      /\ (\A n \in 1 .. N - 1 : n \in 1 .. N /\ n # N)
  BY <1>2
<1> QED BY <1>2, <1>4, <1>5 DEF N

\* A call is added.
LEMMA AddedCall ==
  ASSUME Typed, NEW t \in Thread, NEW f \in Frame, calls' = [calls EXCEPT ![t] = Append(@, f)]
  PROVE  LET N == Len(calls[t]) IN
         /\ calls' \in [Thread -> Seq(Frame)]
         /\ \A u \in Thread \ {t} : calls'[u] = calls[u]
         /\ N \in Nat /\ DOMAIN calls[t] = 1 .. N /\ DOMAIN calls'[t] = 1 .. N + 1
         /\ \A n \in 1 .. N : n \in 1 .. N + 1 /\ calls'[t][n] = calls[t][n]
         /\ \A n \in 1 .. N + 1 : n # N + 1 => n \in 1 .. N
         /\ calls'[t][N + 1] = f
<1> DEFINE N == Len(calls[t])
<1>1. calls[t] \in Seq(Frame) BY DEF Typed
<1>2. calls'[t] = Append(calls[t], f) /\ (\A u \in Thread \ {t} : calls'[u] = calls[u])
      /\ calls' \in [Thread -> Seq(Frame)]
  BY <1>1 DEF Typed
<1>3. N \in Nat /\ DOMAIN calls[t] = 1 .. N BY <1>1
<1>4. DOMAIN calls'[t] = 1 .. N + 1 /\ calls'[t][N + 1] = f
      /\ \A n \in 1 .. N : calls'[t][n] = calls[t][n]
  BY <1>1, <1>2
<1> QED BY <1>2, <1>3, <1>4

\* A call that takes the lock of its library, or goes on with it.
LEMMA HoldingStep ==
  ASSUME Typed, Held, Nested, NEW t \in Thread, calls[t] # <<>>,
         NEW l \in Lib, NEW d \in Holding, Current(t).lib = l, Continue(t, <<Call(d, l)>>),
         \/ holder[l] = None /\ holder' = [holder EXCEPT ![l] = t]
         \/ Current(t).do \in Holding /\ holder' = holder,
         UNCHANGED imports
  PROVE  Held' /\ Nested'
<1> DEFINE N == Len(calls[t])
<1>1. Call(d, l) \in Frame BY DEF Call, Frame
<1>2. /\ \A u \in Thread \ {t} : calls'[u] = calls[u]
      /\ N \in Nat \ {0} /\ DOMAIN calls[t] = 1 .. N /\ DOMAIN calls'[t] = 1 .. N
      /\ \A n \in 1 .. N : n # N => calls'[t][n] = calls[t][n]
      /\ calls'[t][N].do = d /\ calls'[t][N].lib = l
      /\ calls[t][N].lib = l
      /\ N \in 1 .. N
      /\ Current(t) = calls[t][N]
  <2>1. Call(d, l).do = d /\ Call(d, l).lib = l BY DEF Call
  <2> QED BY <1>1, <2>1, ReplacedCall
<1> HIDE DEF N
<1>3. \A n \in 1 .. N : n # N /\ calls[t][n].lib = l => calls[t][n].do \notin Holding
  <2>1. CASE holder[l] = None BY <1>2, <2>1, LibrariesAssumption DEF Held
  <2>2. CASE Current(t).do \in Holding BY <1>2, <2>2 DEF Held
  <2> QED BY <2>1, <2>2
<1>4. holder'[l] = t /\ \A m \in Lib \ {l} : holder'[m] = holder[m]
  BY <1>2 DEF Held, Typed
<1>5. \A u \in Thread \ {t} : \A n \in DOMAIN calls[u] :
        calls[u][n].do \in Holding => calls[u][n].lib # l
  <2>1. CASE holder[l] = None BY <2>1, LibrariesAssumption DEF Held
  <2>2. CASE Current(t).do \in Holding
    <3>1. holder[l] = t BY <1>2, <2>2 DEF Held
    <3> QED BY <3>1 DEF Held
  <2> QED BY <2>1, <2>2
<1>6. \A u \in Thread : \A n \in DOMAIN calls[u] : calls[u][n].lib \in Lib
  BY CallTyped DEF Frame
<1>7. Held'
  <2>1. \A u \in Thread : \A n \in DOMAIN calls'[u] :
          calls'[u][n].do \in Holding => holder'[calls'[u][n].lib] = u
    <3> SUFFICES ASSUME NEW u \in Thread, NEW n \in DOMAIN calls'[u], calls'[u][n].do \in Holding
                 PROVE  holder'[calls'[u][n].lib] = u
      OBVIOUS
    <3>1. CASE u = t /\ n = N BY <1>2, <1>4, <3>1
    <3>2. CASE u = t /\ n # N BY <1>2, <1>3, <1>4, <1>6, <3>2 DEF Held
    <3>3. CASE u # t BY <1>2, <1>4, <1>5, <1>6, <3>3 DEF Held
    <3> QED BY <3>1, <3>2, <3>3
  <2>2. \A u \in Thread : \A n, k \in DOMAIN calls'[u] :
          calls'[u][n].do \in Holding /\ calls'[u][k].do \in Holding
             /\ calls'[u][n].lib = calls'[u][k].lib => n = k
    <3> SUFFICES ASSUME NEW u \in Thread, NEW n \in DOMAIN calls'[u], NEW k \in DOMAIN calls'[u],
                        calls'[u][n].do \in Holding, calls'[u][k].do \in Holding,
                        calls'[u][n].lib = calls'[u][k].lib
                 PROVE  n = k
      OBVIOUS
    <3>1. CASE u # t BY <1>2, <3>1 DEF Held
    <3>2. CASE u = t BY <1>2, <1>3, <3>2 DEF Held
    <3> QED BY <3>1, <3>2
  <2>3. \A m \in Lib : holder'[m] # None =>
          \E n \in DOMAIN calls'[holder'[m]] :
             calls'[holder'[m]][n].do \in Holding /\ calls'[holder'[m]][n].lib = m
    <3> SUFFICES ASSUME NEW m \in Lib, holder'[m] # None
                 PROVE  \E n \in DOMAIN calls'[holder'[m]] :
                           calls'[holder'[m]][n].do \in Holding /\ calls'[holder'[m]][n].lib = m
      OBVIOUS
    <3>1. CASE m = l BY <1>2, <1>4, <3>1
    <3>2. CASE m # l
      <4>1. holder'[m] = holder[m] /\ holder[m] \in Thread BY <1>4, <3>2 DEF Typed
      <4>2. PICK n \in DOMAIN calls[holder[m]] :
               calls[holder[m]][n].do \in Holding /\ calls[holder[m]][n].lib = m
        BY <4>1 DEF Held
      <4>3. holder[m] = t => n \in 1 .. N /\ n # N BY <1>2, <4>2, <3>2
      <4> QED BY <1>2, <4>1, <4>2, <4>3
    <3> QED BY <3>1, <3>2
  <2> QED BY <2>1, <2>2, <2>3 DEF Held
<1>8. Nested'
  <2> SUFFICES ASSUME NEW u \in Thread, NEW n \in DOMAIN calls'[u], NEW k \in DOMAIN calls'[u],
                      n < k, calls'[u][n].do \in Holding
               PROVE  \/ calls'[u][k].lib \in Visible(calls'[u][n].lib)
                      \/ /\ calls'[u][k].lib = calls'[u][n].lib /\ calls'[u][k].do \notin Holding
                         /\ calls'[u][k].lib \in CallsItself
    BY DEF Nested, Visible
  <2>1. CASE u # t BY <1>2, <2>1 DEF Nested
  <2>2. CASE u = t
    <3>1. n \in 1 .. N /\ n # N /\ k \in 1 .. N BY <1>2, <2>2
    <3>2. calls[t][n] = calls'[t][n] BY <1>2, <3>1
    <3>3. CASE k = N
      <4>1. calls[t][n].lib # l BY <1>3, <2>2, <3>1, <3>2
      <4>2. calls[t][k].lib \in Visible(calls[t][n].lib)
        BY <1>2, <2>2, <3>1, <3>2, <3>3, <4>1 DEF Nested
      <4> QED BY <1>2, <2>2, <3>2, <3>3, <4>2
    <3>4. CASE k # N BY <1>2, <2>2, <3>1, <3>2, <3>4 DEF Nested
    <3> QED BY <3>3, <3>4
  <2> QED BY <2>1, <2>2
<1> QED BY <1>7, <1>8

\* A call that releases the lock of its library.
LEMMA ReleaseStep ==
  ASSUME Typed, Held, Nested, NEW t \in Thread, calls[t] # <<>>,
         NEW l \in Lib, Current(t).lib = l, Current(t).do \in Holding, Continue(t, <<>>),
         holder' = [holder EXCEPT ![l] = None],
         UNCHANGED imports
  PROVE  Held' /\ Nested'
<1> DEFINE N == Len(calls[t])
<1>2. /\ \A u \in Thread \ {t} : calls'[u] = calls[u]
      /\ N \in Nat \ {0} /\ DOMAIN calls[t] = 1 .. N /\ DOMAIN calls'[t] = 1 .. N - 1
      /\ \A n \in 1 .. N : n # N => n \in 1 .. N - 1 /\ calls'[t][n] = calls[t][n]
      /\ \A n \in 1 .. N - 1 : n \in 1 .. N /\ n # N
      /\ calls[t][N].lib = l /\ calls[t][N].do \in Holding
      /\ N \in 1 .. N
  BY ReturnedCall
<1> HIDE DEF N
<1>3. \A n \in 1 .. N : n # N /\ calls[t][n].lib = l => calls[t][n].do \notin Holding
  BY <1>2 DEF Held
<1>4. holder'[l] = None /\ \A m \in Lib \ {l} : holder'[m] = holder[m]
  BY DEF Typed
<1>5. \A u \in Thread \ {t} : \A n \in DOMAIN calls[u] :
        calls[u][n].do \in Holding => calls[u][n].lib # l
  BY <1>2 DEF Held
<1>6. \A u \in Thread : \A n \in DOMAIN calls[u] : calls[u][n].lib \in Lib
  BY CallTyped DEF Frame
<1>7. \A u \in Thread : \A n \in DOMAIN calls'[u] :
        n \in DOMAIN calls[u] /\ calls'[u][n] = calls[u][n]
          /\ (calls[u][n].do \in Holding => calls[u][n].lib # l)
  BY <1>2, <1>3, <1>5
<1>8. Held'
  <2>1. \A m \in Lib : holder'[m] # None =>
          \E n \in DOMAIN calls'[holder'[m]] :
             calls'[holder'[m]][n].do \in Holding /\ calls'[holder'[m]][n].lib = m
    <3> SUFFICES ASSUME NEW m \in Lib, holder'[m] # None
                 PROVE  \E n \in DOMAIN calls'[holder'[m]] :
                           calls'[holder'[m]][n].do \in Holding /\ calls'[holder'[m]][n].lib = m
      OBVIOUS
    <3>1. m # l /\ holder'[m] = holder[m] /\ holder[m] \in Thread BY <1>4 DEF Typed
    <3>2. PICK n \in DOMAIN calls[holder[m]] :
             calls[holder[m]][n].do \in Holding /\ calls[holder[m]][n].lib = m
      BY <3>1 DEF Held
    <3>3. holder[m] = t => n \in 1 .. N /\ n # N BY <1>2, <3>1, <3>2
    <3> QED BY <1>2, <3>1, <3>2, <3>3
  <2> QED BY <1>4, <1>6, <1>7, <2>1 DEF Held
<1>9. Nested'
  <2>1. \A l1 \in Lib : Visible(l1)' = Visible(l1) BY DEF Visible
  <2> QED BY <1>6, <1>7, <2>1 DEF Nested
<1> QED BY <1>8, <1>9

\* A lookup stays under way when its innermost call becomes another stage of it.
LEMMA LookingUpReplaced ==
  ASSUME Typed, NEW t \in Thread, calls[t] # <<>>, NEW f \in Frame, Continue(t, <<f>>),
         f.lib = Current(t).lib,
         Current(t).do \in {"variable", "invoke", "run"} => f.do \in {"variable", "invoke", "run"},
         NEW l \in Lib, NEW m \in Lib, LookingUp(l, m)
  PROVE  LookingUp(l, m)'
<1> DEFINE N == Len(calls[t])
<1>1. /\ \A u \in Thread \ {t} : calls'[u] = calls[u]
      /\ N \in Nat \ {0} /\ DOMAIN calls[t] = 1 .. N /\ DOMAIN calls'[t] = 1 .. N
      /\ \A n \in 1 .. N : n # N => calls'[t][n] = calls[t][n]
      /\ calls'[t][N] = f
      /\ Current(t) = calls[t][N]
  BY ReplacedCall
<1> HIDE DEF N
<1>2. PICK u \in Thread : \E n \in DOMAIN calls[u] :
        /\ calls[u][n].lib = l /\ calls[u][n].do \in {"splice", "parse"}
        /\ n + 1 \in DOMAIN calls[u]
        /\ calls[u][n + 1].lib = m /\ calls[u][n + 1].do \in {"variable", "invoke", "run"}
  BY DEF LookingUp
<1>3. PICK n \in DOMAIN calls[u] :
        /\ calls[u][n].lib = l /\ calls[u][n].do \in {"splice", "parse"}
        /\ n + 1 \in DOMAIN calls[u]
        /\ calls[u][n + 1].lib = m /\ calls[u][n + 1].do \in {"variable", "invoke", "run"}
  BY <1>2
<1>4. CASE u # t BY <1>1, <1>3, <1>4 DEF LookingUp
<1>5. CASE u = t
  <2>1. n \in 1 .. N /\ n + 1 \in 1 .. N /\ n # N BY <1>1, <1>3, <1>5
  <2>2. calls'[t][n] = calls[t][n] BY <1>1, <2>1
  <2>3. calls'[t][n + 1].lib = m /\ calls'[t][n + 1].do \in {"variable", "invoke", "run"}
    BY <1>1, <1>3, <1>5, <2>1
  <2> QED BY <1>1, <1>3, <1>5, <2>1, <2>2, <2>3 DEF LookingUp
<1> QED BY <1>4, <1>5

\* When a call returns, only the lookup it was the last stage of has ended.
LEMMA LookingUpReturned ==
  ASSUME Typed, NEW t \in Thread, calls[t] # <<>>, Continue(t, <<>>),
         NEW l \in Lib, NEW m \in Lib, LookingUp(l, m)
  PROVE  LookingUp(l, m)' \/ (Current(t).lib = m /\ Current(t).do \in {"variable", "invoke", "run"})
<1> DEFINE N == Len(calls[t])
<1>1. /\ \A u \in Thread \ {t} : calls'[u] = calls[u]
      /\ N \in Nat \ {0} /\ DOMAIN calls[t] = 1 .. N /\ DOMAIN calls'[t] = 1 .. N - 1
      /\ \A n \in 1 .. N : n # N => n \in 1 .. N - 1 /\ calls'[t][n] = calls[t][n]
      /\ Current(t) = calls[t][N]
  BY ReturnedCall
<1> HIDE DEF N
<1>2. PICK u \in Thread : \E n \in DOMAIN calls[u] :
        /\ calls[u][n].lib = l /\ calls[u][n].do \in {"splice", "parse"}
        /\ n + 1 \in DOMAIN calls[u]
        /\ calls[u][n + 1].lib = m /\ calls[u][n + 1].do \in {"variable", "invoke", "run"}
  BY DEF LookingUp
<1>3. PICK n \in DOMAIN calls[u] :
        /\ calls[u][n].lib = l /\ calls[u][n].do \in {"splice", "parse"}
        /\ n + 1 \in DOMAIN calls[u]
        /\ calls[u][n + 1].lib = m /\ calls[u][n + 1].do \in {"variable", "invoke", "run"}
  BY <1>2
<1>4. CASE u # t BY <1>1, <1>3, <1>4 DEF LookingUp
<1>5. CASE u = t /\ n + 1 = N BY <1>1, <1>3, <1>5
<1>6. CASE u = t /\ n + 1 # N
  <2>1. n \in 1 .. N /\ n + 1 \in 1 .. N /\ n # N BY <1>1, <1>3, <1>6
  <2>2. /\ n \in 1 .. N - 1 /\ calls'[t][n] = calls[t][n]
        /\ n + 1 \in 1 .. N - 1 /\ calls'[t][n + 1] = calls[t][n + 1]
    BY <1>1, <1>6, <2>1
  <2> QED BY <1>1, <1>3, <1>6, <2>2 DEF LookingUp
<1> QED BY <1>4, <1>5, <1>6

\* A call that does not hold its library is added.
LEMMA AddedStep ==
  ASSUME Inv, NEW t \in Thread, NEW f \in Frame, f.do \notin Holding, f.do # "invoke",
         calls' = [calls EXCEPT ![t] = Append(@, f)],
         \A n \in DOMAIN calls[t] : calls[t][n].do \in Holding =>
            \/ f.lib \in Visible(calls[t][n].lib)
            \/ f.lib = calls[t][n].lib /\ f.lib \in CallsItself,
         named' \in [Lib -> SUBSET ({"keyword", "variable"} \X Lib)],
         \A l, m \in Lib : <<"variable", m>> \in named'[l] =>
            <<"variable", m>> \in named[l] \/ LookingUp(l, m)',
         UNCHANGED <<gaps, imports, state, holder, bound, runs>>
  PROVE  Inv'
<1> DEFINE N == Len(calls[t])
<1>0. Typed BY DEF Inv
<1>1. /\ calls' \in [Thread -> Seq(Frame)]
      /\ \A u \in Thread \ {t} : calls'[u] = calls[u]
      /\ N \in Nat /\ DOMAIN calls[t] = 1 .. N /\ DOMAIN calls'[t] = 1 .. N + 1
      /\ \A n \in 1 .. N : n \in 1 .. N + 1 /\ calls'[t][n] = calls[t][n]
      /\ \A n \in 1 .. N + 1 : n # N + 1 => n \in 1 .. N
      /\ calls'[t][N + 1] = f
  BY <1>0, AddedCall
<1> HIDE DEF N
<1>2. \A u \in Thread : \A n \in DOMAIN calls'[u] :
        \/ n \in DOMAIN calls[u] /\ calls'[u][n] = calls[u][n]
        \/ u = t /\ n = N + 1 /\ calls'[u][n] = f
  BY <1>1
<1>3. \A u \in Thread : \A n \in DOMAIN calls[u] : n \in DOMAIN calls'[u] /\ calls'[u][n] = calls[u][n]
  BY <1>1
<1>4. Typed' BY <1>0, <1>1 DEF Typed
<1>5. Held'
  <2>1. \A u \in Thread : \A n \in DOMAIN calls'[u] :
          calls'[u][n].do \in Holding => n \in DOMAIN calls[u] /\ calls'[u][n] = calls[u][n]
    BY <1>2
  <2>2. \A l \in Lib : holder[l] # None => holder[l] \in Thread
    BY <1>0 DEF Typed
  <2> QED BY <1>3, <2>1, <2>2 DEF Inv, Held
<1>6. Stages'
  BY <1>2 DEF Inv, Stages, Holding
<1>7. Nested'
  <2>0. imports' = imports OBVIOUS
  <2>5. \A u \in Thread : \A n \in DOMAIN calls'[u] : calls'[u][n] \in Frame
    <3>1. \A u \in Thread : \A n \in DOMAIN calls[u] : calls[u][n] \in Frame BY <1>0, CallTyped
    <3> QED BY <1>2, <3>1
  <2>6. \A l \in Lib : Visible(l)' = Visible(l) BY <2>0 DEF Visible
  <2> SUFFICES ASSUME NEW u \in Thread, NEW n \in DOMAIN calls'[u], NEW k \in DOMAIN calls'[u],
                      n < k, calls'[u][n].do \in Holding
               PROVE  \/ calls'[u][k].lib \in Visible(calls'[u][n].lib)
                      \/ /\ calls'[u][k].lib = calls'[u][n].lib /\ calls'[u][k].do \notin Holding
                         /\ calls'[u][k].lib \in CallsItself
    BY <2>5, <2>6 DEF Nested, Frame
  <2>1. n \in DOMAIN calls[u] /\ calls'[u][n] = calls[u][n] BY <1>2
  <2>2. CASE k \in DOMAIN calls[u] BY <1>3, <2>1, <2>2 DEF Inv, Nested
  <2>3. CASE k \notin DOMAIN calls[u] BY <1>2, <2>1, <2>3
  <2> QED BY <2>2, <2>3
<1>8. NamesSettled'
  <2> SUFFICES ASSUME NEW l \in Lib, NEW m \in Lib, LookingUp(l, m) PROVE LookingUp(l, m)'
    BY DEF Inv, NamesSettled, Settled, Broken
  <2> QED BY <1>3 DEF LookingUp
<1> QED BY <1>4, <1>5, <1>6, <1>7, <1>8 DEF Inv

-----------------------------------------------------------------------------
(* Every action keeps the invariant.                                        *)

\* What it means that a thread is about to do something.
LEMMA DoingCall ==
  ASSUME Typed, NEW t \in Thread, NEW l \in Lib, NEW do, Doing(t, do, l)
  PROVE  /\ calls[t] # <<>> /\ Len(calls[t]) \in DOMAIN calls[t]
         /\ Len(calls[t]) \in Nat \ {0} /\ DOMAIN calls[t] = 1 .. Len(calls[t])
         /\ Current(t) = calls[t][Len(calls[t])]
         /\ Current(t).do = do /\ Current(t).lib = l
<1>1. calls[t] \in Seq(Frame) /\ calls[t] # <<>> BY DEF Typed, Doing
<1>2. Len(calls[t]) \in Nat \ {0} /\ DOMAIN calls[t] = 1 .. Len(calls[t]) BY <1>1, EmptySeq
<1> QED BY <1>1, <1>2 DEF Doing, Call, Current

LEMMA UseStep ==
  ASSUME Inv, NEW t \in Thread, NEW l \in Lib, NEW do \in {"keyword", "variable"}, Use(t, l, do)
  PROVE  Inv'
<1>1. Call(do, l) \in Frame /\ Call(do, l).do = do BY DEF Call, Frame, Looking
<1>2. calls' = [calls EXCEPT ![t] = Append(@, Call(do, l))] BY DEF Use
<1>3. DOMAIN calls[t] = {} BY DEF Use
<1>4. named' \in [Lib -> SUBSET ({"keyword", "variable"} \X Lib)] BY DEF Use, Inv, Typed
<1> QED BY <1>1, <1>2, <1>3, <1>4, AddedStep DEF Use, Holding

LEMMA LookupKeywordStep ==
  ASSUME Inv, NEW t \in Thread, NEW l \in Lib, LookupKeyword(t, l)
  PROVE  Inv'
<1>0. Typed BY DEF Inv
<1>1. CASE Continue(t, <<Call("resolve", l), Call("expand", l)>>)
  <2> DEFINE s == <<Call("resolve", l), Call("expand", l)>>
  <2>1. PICK do \in {"keyword", "resolve"} : Doing(t, do, l)
    BY DEF LookupKeyword
  <2>2. s \in Seq(Frame) BY DEF Call, Frame, Looking
  <2>3. \A n \in 1 .. Len(s) : s[n].lib = l /\ s[n].do \notin Holding /\ s[n].do # "invoke"
    BY DEF Call, Holding
  <2>4. calls[t] # <<>> /\ Current(t).lib = l /\ Current(t).do = do BY <1>0, <2>1, DoingCall
  <2> HIDE DEF s
  <2> QED BY <1>1, <2>2, <2>3, <2>4, LookupStep DEF s, LookupKeyword, Holding
<1>2. CASE Doing(t, "resolve", l) /\ Continue(t, <<>>)
  <2>1. calls[t] # <<>> /\ Current(t).lib = l /\ Current(t).do = "resolve" BY <1>0, <1>2, DoingCall
  <2> DEFINE s == <<>>
  <2>2. s \in Seq(Frame) /\ Len(s) = 0 /\ Continue(t, s) BY <1>2
  <2>3. \A n \in 1 .. Len(s) : FALSE BY <2>2
  <2>4. UNCHANGED <<gaps, imports, state, holder, bound, named, runs>> BY DEF LookupKeyword
  <2> HIDE DEF s
  <2> QED BY <2>1, <2>2, <2>3, <2>4, LookupStep DEF Holding
<1> QED BY <1>1, <1>2 DEF LookupKeyword

LEMMA LookupVarStep ==
  ASSUME Inv, NEW t \in Thread, NEW l \in Lib, LookupVar(t, l)
  PROVE  Inv'
<1>0. Typed BY DEF Inv
<1>1. calls[t] # <<>> /\ Current(t).lib = l /\ Current(t).do = "variable"
  BY <1>0, DoingCall DEF LookupVar
<1>2. PICK do \in {"variable", "invoke"} :
        (do = "invoke" => bound[l]) /\ Continue(t, <<Call(do, l), Call("expand", l)>>)
  BY DEF LookupVar
<1> DEFINE s == <<Call(do, l), Call("expand", l)>>
<1>3. s \in Seq(Frame) BY DEF Call, Frame, Looking
<1>4. \A n \in 1 .. Len(s) : s[n].lib = l /\ s[n].do \notin Holding /\ (s[n].do = "invoke" => bound[l])
  BY <1>2 DEF Call, Holding
<1>5. Len(s) > 0 /\ s[1].do = do BY DEF Call
<1> HIDE DEF s
<1> QED BY <1>1, <1>2, <1>3, <1>4, <1>5, LookupStep DEF s, LookupVar, Holding

LEMMA MarkDefinitionsStep ==
  ASSUME Inv, NEW t \in Thread, NEW l \in Lib, MarkDefinitions(t, l)
  PROVE  Inv'
<1> DEFINE N == Len(calls[t])
           f == Call("parse", l)
<1>0. Typed /\ Held /\ Stages /\ Nested /\ NamesSettled BY DEF Inv
<1>1. /\ calls[t] # <<>> /\ N \in DOMAIN calls[t]
      /\ Current(t) = calls[t][N] /\ Current(t).do = "splice" /\ Current(t).lib = l
  BY <1>0, DoingCall DEF MarkDefinitions
<1>2. f \in Frame /\ f.do = "parse" /\ f.lib = l BY DEF Call, Frame, Holding
<1>3. Continue(t, <<f>>) BY DEF MarkDefinitions
<1>4. /\ calls' \in [Thread -> Seq(Frame)]
      /\ \A u \in Thread \ {t} : calls'[u] = calls[u]
      /\ DOMAIN calls'[t] = DOMAIN calls[t]
      /\ \A n \in DOMAIN calls[t] : n # N => calls'[t][n] = calls[t][n]
      /\ calls'[t][N] = f
  <2> HIDE DEF f
  <2> QED BY <1>0, <1>1, <1>2, <1>3, ReplacedCall
<1>5. Held' /\ Nested'
  <2>1. "parse" \in Holding BY DEF Holding
  <2>2. Current(t).do \in Holding BY <1>1 DEF Holding
  <2> QED BY <1>0, <1>1, <1>3, <2>1, <2>2, HoldingStep DEF MarkDefinitions
<1>6. bound' = [bound EXCEPT ![l] = l \notin gaps] /\ UNCHANGED <<gaps, imports, state, holder, named, runs>>
  BY DEF MarkDefinitions
<1>7. Typed' BY <1>0, <1>4, <1>6 DEF Typed
<1>8. Stages'
  <2>1. \A m \in Lib : bound'[m] <=> bound[m] \/ (m = l /\ l \notin gaps) BY <1>0, <1>6 DEF Typed, Stages
  <2>2. state[l] = "expanding" BY <1>0, <1>1 DEF Stages
  <2>3. \A u \in Thread : \A n \in DOMAIN calls'[u] :
          \/ calls'[u][n].lib = l /\ calls'[u][n].do = "parse"
          \/ n \in DOMAIN calls[u] /\ calls'[u][n] = calls[u][n]
    BY <1>1, <1>2, <1>4
  <2>4. \A u \in Thread : \A n \in DOMAIN calls[u] : calls[u][n].lib \in Lib
    BY <1>0, CallTyped DEF Frame
  <2> QED BY <1>0, <1>6, <2>1, <2>2, <2>3, <2>4 DEF Stages
<1>9. NamesSettled'
  <2> HIDE DEF f
  <2>1. \A k, m \in Lib : LookingUp(k, m) => LookingUp(k, m)'
    BY <1>0, <1>1, <1>2, <1>3, LookingUpReplaced
  <2> QED BY <1>0, <1>6, <2>1 DEF NamesSettled, Settled, Broken
<1> QED BY <1>5, <1>7, <1>8, <1>9 DEF Inv

LEMMA BeginExpandStep ==
  ASSUME Inv, NEW t \in Thread, NEW l \in Lib, BeginExpand(t, l)
  PROVE  Inv'
<1> DEFINE N == Len(calls[t])
           f == Call("splice", l)
<1>0. Typed /\ Held /\ Stages /\ Nested /\ NamesSettled BY DEF Inv
<1>1. /\ calls[t] # <<>> /\ N \in DOMAIN calls[t]
      /\ Current(t) = calls[t][N] /\ Current(t).do = "expand" /\ Current(t).lib = l
  BY <1>0, DoingCall DEF BeginExpand
<1>2. CASE state[l] = "unexpanded"
  <2>1. f \in Frame /\ f.do = "splice" /\ f.lib = l BY DEF Call, Frame, Holding
  <2>2. /\ Continue(t, <<f>>) /\ holder[l] = None
        /\ state' = [state EXCEPT ![l] = "expanding"] /\ holder' = [holder EXCEPT ![l] = t]
        /\ UNCHANGED <<gaps, imports, bound, named, runs>>
    BY <1>2 DEF BeginExpand
  <2>3. /\ calls' \in [Thread -> Seq(Frame)]
        /\ \A u \in Thread \ {t} : calls'[u] = calls[u]
        /\ DOMAIN calls'[t] = DOMAIN calls[t]
        /\ \A n \in DOMAIN calls[t] : n # N => calls'[t][n] = calls[t][n]
        /\ calls'[t][N] = f
    <3> HIDE DEF f
    <3> QED BY <1>0, <1>1, <2>1, <2>2, ReplacedCall
  <2>4. Held' /\ Nested'
    <3>1. "splice" \in Holding BY DEF Holding
    <3> QED BY <1>0, <1>1, <2>2, <3>1, HoldingStep
  <2>5. Typed' BY <1>0, <2>2, <2>3 DEF Typed
  <2>6. /\ state'[l] = "expanding" /\ \A m \in Lib \ {l} : state'[m] = state[m]
        /\ holder'[l] = t /\ \A m \in Lib \ {l} : holder'[m] = holder[m]
    BY <1>0, <2>2 DEF Typed
  <2>7. Stages'
    <3>1. \A u \in Thread : \A n \in DOMAIN calls'[u] :
            \/ calls'[u][n].lib = l /\ calls'[u][n].do = "splice"
            \/ n \in DOMAIN calls[u] /\ calls'[u][n] = calls[u][n]
      BY <1>1, <2>1, <2>3
    <3>2. \A u \in Thread : \A n \in DOMAIN calls[u] : calls[u][n].lib \in Lib
      BY <1>0, CallTyped DEF Frame
    <3>3. \A u \in Thread : \A n \in DOMAIN calls[u] :
            calls[u][n].lib = l => calls[u][n].do \notin {"splice", "parse", "run", "invoke"}
      BY <1>0, <1>2 DEF Stages
    <3> QED BY <1>0, <1>2, <2>2, <2>6, <3>1, <3>2, <3>3 DEF Stages
  <2>8. NamesSettled'
    <3> HIDE DEF f
    <3>1. \A k, m \in Lib : LookingUp(k, m) => LookingUp(k, m)'
      BY <1>0, <1>1, <2>1, <2>2, LookingUpReplaced
    <3>2. \A m \in Lib : Settled(m) => Settled(m)'
      BY <1>2, <2>6 DEF Settled, Broken
    <3>3. \A k \in Lib : state[k] = "expanding" /\ holder[k] = None => state'[k] = "expanding" /\ holder'[k] = None
      BY <1>2, <2>6
    <3>4. named' = named BY <2>2
    <3> QED BY <1>0, <3>1, <3>2, <3>3, <3>4 DEF NamesSettled
  <2> QED BY <2>4, <2>5, <2>7, <2>8 DEF Inv
<1>3. CASE state[l] # "unexpanded"
  <2> DEFINE s == <<>>
  <2>1. s \in Seq(Frame) /\ Len(s) = 0 /\ Continue(t, s) BY <1>3 DEF BeginExpand
  <2>2. \A n \in 1 .. Len(s) : FALSE BY <2>1
  <2>3. UNCHANGED <<gaps, imports, state, holder, bound, named, runs>> BY <1>3 DEF BeginExpand
  <2> HIDE DEF s
  <2> QED BY <1>1, <2>1, <2>2, <2>3, LookupStep DEF Holding
<1> QED BY <1>2, <1>3

LEMMA BeginInvokeStep ==
  ASSUME Inv, NEW t \in Thread, NEW l \in Lib, BeginInvoke(t, l)
  PROVE  Inv'
<1> DEFINE N == Len(calls[t])
           f == Call("run", l)
<1>0. Typed /\ Held /\ Stages /\ Nested /\ NamesSettled BY DEF Inv
<1>1. /\ calls[t] # <<>> /\ N \in DOMAIN calls[t]
      /\ Current(t) = calls[t][N] /\ Current(t).do = "invoke" /\ Current(t).lib = l
  BY <1>0, DoingCall DEF BeginInvoke
<1>2. CASE state[l] = "expanded"
  <2>1. f \in Frame /\ f.do = "run" /\ f.lib = l BY DEF Call, Frame, Holding
  <2>2. /\ Continue(t, <<f>>) /\ holder[l] = None
        /\ state' = [state EXCEPT ![l] = "invalid"] /\ holder' = [holder EXCEPT ![l] = t]
        /\ runs' = [runs EXCEPT ![l] = @ + 1]
        /\ UNCHANGED <<gaps, imports, bound, named>>
    BY <1>2 DEF BeginInvoke
  <2>3. /\ calls' \in [Thread -> Seq(Frame)]
        /\ \A u \in Thread \ {t} : calls'[u] = calls[u]
        /\ DOMAIN calls'[t] = DOMAIN calls[t]
        /\ \A n \in DOMAIN calls[t] : n # N => calls'[t][n] = calls[t][n]
        /\ calls'[t][N] = f
    <3> HIDE DEF f
    <3> QED BY <1>0, <1>1, <2>1, <2>2, ReplacedCall
  <2>4. Held' /\ Nested'
    <3>1. "run" \in Holding BY DEF Holding
    <3> QED BY <1>0, <1>1, <2>2, <3>1, HoldingStep
  <2>5. Typed' BY <1>0, <2>2, <2>3 DEF Typed
  <2>6. /\ state'[l] = "invalid" /\ \A m \in Lib \ {l} : state'[m] = state[m]
        /\ holder'[l] = t /\ \A m \in Lib \ {l} : holder'[m] = holder[m]
        /\ runs'[l] = runs[l] + 1 /\ \A m \in Lib \ {l} : runs'[m] = runs[m]
    BY <1>0, <2>2 DEF Typed
  <2>7. Stages'
    <3>1. \A u \in Thread : \A n \in DOMAIN calls'[u] :
            \/ calls'[u][n].lib = l /\ calls'[u][n].do = "run"
            \/ n \in DOMAIN calls[u] /\ calls'[u][n] = calls[u][n]
      BY <1>1, <2>1, <2>3
    <3>2. \A u \in Thread : \A n \in DOMAIN calls[u] : calls[u][n].lib \in Lib
      BY <1>0, CallTyped DEF Frame
    <3>3. \A u \in Thread : \A n \in DOMAIN calls[u] :
            calls[u][n].lib = l => calls[u][n].do \notin {"splice", "parse", "run"}
      BY <1>0, <1>2 DEF Stages
    <3>4. runs[l] = 0 BY <1>0, <1>2 DEF Stages
    <3> QED BY <1>0, <1>2, <2>2, <2>6, <3>1, <3>2, <3>3, <3>4 DEF Stages
  <2>8. NamesSettled'
    <3> HIDE DEF f
    <3>1. \A k, m \in Lib : LookingUp(k, m) => LookingUp(k, m)'
      BY <1>0, <1>1, <2>1, <2>2, LookingUpReplaced
    <3>2. \A m \in Lib : Settled(m) => Settled(m)'
      BY <1>2, <2>6 DEF Settled, Broken
    <3>3. \A k \in Lib : state[k] = "expanding" /\ holder[k] = None => state'[k] = "expanding" /\ holder'[k] = None
      BY <1>2, <2>6
    <3>4. named' = named BY <2>2
    <3> QED BY <1>0, <3>1, <3>2, <3>3, <3>4 DEF NamesSettled
  <2> QED BY <2>4, <2>5, <2>7, <2>8 DEF Inv
<1>3. CASE state[l] # "expanded"
  <2> DEFINE s == <<>>
  <2>1. s \in Seq(Frame) /\ Len(s) = 0 /\ Continue(t, s) BY <1>3 DEF BeginInvoke
  <2>2. \A n \in 1 .. Len(s) : FALSE BY <2>1
  <2>3. UNCHANGED <<gaps, imports, state, holder, bound, named, runs>> BY <1>3 DEF BeginInvoke
  <2>4. Settled(l)
    <3>1. bound[l] BY <1>0, <1>1 DEF Stages
    <3>2. state[l] \in {"expanding", "invalid", "invoked"} BY <1>0, <1>3, <3>1 DEF Stages, Typed
    <3> QED BY <3>2 DEF BeginInvoke, Settled, Broken
  <2> HIDE DEF s
  <2> QED BY <1>1, <2>1, <2>2, <2>3, <2>4, LookupStep DEF Holding
<1> QED BY <1>2, <1>3

\* What ends the expansion or the run of a library.
LEMMA EndStep ==
  ASSUME Inv, NEW t \in Thread, NEW l \in Lib,
         \/ Doing(t, "parse", l) /\ state' = [state EXCEPT ![l] = "expanded"]
         \/ Doing(t, "run", l) /\ state' = [state EXCEPT ![l] = "invoked"],
         holder' = [holder EXCEPT ![l] = None], Continue(t, <<>>),
         UNCHANGED <<gaps, imports, bound, named, runs>>
  PROVE  Inv'
<1> DEFINE N == Len(calls[t])
<1>0. Typed /\ Held /\ Stages /\ Nested /\ NamesSettled BY DEF Inv
<1>1. /\ calls[t] # <<>> /\ N \in DOMAIN calls[t] /\ N \in Nat \ {0} /\ DOMAIN calls[t] = 1 .. N
      /\ Current(t) = calls[t][N] /\ Current(t).lib = l
      /\ \/ Current(t).do = "parse" /\ state' = [state EXCEPT ![l] = "expanded"] /\ state[l] = "expanding"
         \/ Current(t).do = "run" /\ state' = [state EXCEPT ![l] = "invoked"] /\ state[l] = "invalid"
  <2>1. CASE Doing(t, "parse", l) /\ state' = [state EXCEPT ![l] = "expanded"]
    <3>1. /\ calls[t] # <<>> /\ N \in DOMAIN calls[t] /\ N \in Nat \ {0} /\ DOMAIN calls[t] = 1 .. N
          /\ Current(t) = calls[t][N] /\ Current(t).lib = l /\ Current(t).do = "parse"
      BY <1>0, <2>1, DoingCall
    <3>2. state[l] = "expanding" BY <1>0, <3>1 DEF Stages
    <3> QED BY <2>1, <3>1, <3>2
  <2>2. CASE Doing(t, "run", l) /\ state' = [state EXCEPT ![l] = "invoked"]
    <3>1. /\ calls[t] # <<>> /\ N \in DOMAIN calls[t] /\ N \in Nat \ {0} /\ DOMAIN calls[t] = 1 .. N
          /\ Current(t) = calls[t][N] /\ Current(t).lib = l /\ Current(t).do = "run"
      BY <1>0, <2>2, DoingCall
    <3>2. state[l] = "invalid" BY <1>0, <3>1 DEF Stages
    <3> QED BY <2>2, <3>1, <3>2
  <2> QED BY <2>1, <2>2
<1>2. Current(t).do \in Holding BY <1>1 DEF Holding
<1>3. holder[l] = t BY <1>0, <1>1, <1>2 DEF Held
<1>4. Held' /\ Nested' BY <1>0, <1>1, <1>2, ReleaseStep
<1>5. /\ calls' \in [Thread -> Seq(Frame)]
      /\ \A u \in Thread \ {t} : calls'[u] = calls[u]
      /\ DOMAIN calls'[t] = 1 .. N - 1
      /\ \A n \in 1 .. N : n # N => calls'[t][n] = calls[t][n]
  BY <1>0, <1>1, ReturnedCall
<1>6. Typed' BY <1>0, <1>1, <1>5 DEF Typed
<1>7. /\ \A m \in Lib \ {l} : state'[m] = state[m] /\ holder'[m] = holder[m]
      /\ holder'[l] = None /\ state'[l] # "unexpanded"
      /\ state'[l] \in {"invalid", "invoked"} <=> state[l] \in {"invalid", "invoked"}
  BY <1>0, <1>1 DEF Typed
<1>8. Stages'
  <2>1. \A u \in Thread : \A n \in DOMAIN calls'[u] :
          n \in DOMAIN calls[u] /\ calls'[u][n] = calls[u][n] /\ ~(u = t /\ n = N)
    <3> HIDE DEF N
    <3>1. \A n \in 1 .. N - 1 : n \in 1 .. N /\ n # N BY <1>1
    <3> QED BY <1>1, <1>5, <3>1
  <2>2. \A u \in Thread : \A n \in DOMAIN calls[u] : calls[u][n].lib \in Lib
    BY <1>0, CallTyped DEF Frame
  <2>3. \A u \in Thread : \A n \in DOMAIN calls'[u] :
          calls[u][n].lib = l => calls[u][n].do \notin Holding
    BY <1>0, <1>1, <1>2, <1>3, <2>1 DEF Held
  <2>4. \A m \in Lib : bound'[m] = bound[m] /\ runs'[m] = runs[m] OBVIOUS
  <2>5. \A m \in Lib : bound'[m] => state'[m] # "unexpanded" BY <1>0, <1>7, <2>4 DEF Stages
  <2>6. \A m \in Lib : runs'[m] = IF state'[m] \in {"invalid", "invoked"} THEN 1 ELSE 0
    BY <1>0, <1>7, <2>4 DEF Stages
  <2> QED BY <1>0, <1>7, <2>1, <2>2, <2>3, <2>4, <2>5, <2>6 DEF Stages, Holding
<1>9. NamesSettled'
  <2>1. \A m \in Lib : Settled(m) => Settled(m)'
    <3>1. holder[l] # None BY <1>3, LibrariesAssumption
    <3> QED BY <1>1, <1>7, <3>1 DEF Settled, Broken
  <2>2. \A k, m \in Lib : LookingUp(k, m) => LookingUp(k, m)' \/ Settled(m)'
    <3> TAKE k, m \in Lib
    <3> HAVE LookingUp(k, m)
    <3>1. LookingUp(k, m)' \/ (Current(t).lib = m /\ Current(t).do \in {"variable", "invoke", "run"})
      BY <1>0, <1>1, LookingUpReturned
    <3>2. CASE Current(t).lib = m /\ Current(t).do \in {"variable", "invoke", "run"}
      BY <1>0, <1>1, <3>2 DEF Settled, Typed
    <3> QED BY <3>1, <3>2
  <2>3. \A k \in Lib : state[k] = "expanding" /\ holder[k] = None => state'[k] = "expanding" /\ holder'[k] = None
    BY <1>3, <1>7, LibrariesAssumption
  <2> QED BY <1>0, <2>1, <2>2, <2>3 DEF NamesSettled
<1> QED BY <1>4, <1>6, <1>8, <1>9 DEF Inv

\* What a body that holds its library can see, every caller of it can see.
LEMMA BodySees ==
  ASSUME Inv, NEW t \in Thread, NEW l \in Lib, calls[t] # <<>>,
         Current(t).do \in Holding, Current(t).lib = l, NEW n \in DOMAIN calls[t],
         calls[t][n].do \in Holding
  PROVE  /\ n # Len(calls[t]) => l \in Visible(calls[t][n].lib)
         /\ n = Len(calls[t]) => l = calls[t][n].lib
<1> DEFINE N == Len(calls[t])
<1>1. calls[t] \in Seq(Frame) BY DEF Inv, Typed
<1>2. N \in Nat \ {0} /\ DOMAIN calls[t] = 1 .. N BY <1>1, EmptySeq
<1>3. Current(t) = calls[t][N] BY DEF Current
<1> HIDE DEF N
<1>4. n # N => n < N BY <1>2
<1>5. N \in DOMAIN calls[t] BY <1>2
<1> QED BY <1>3, <1>4, <1>5 DEF Inv, Nested, N

LEMMA BodyNamesStep ==
  ASSUME Inv, NEW t \in Thread, NEW l \in Lib, NEW m \in Lib, NEW do \in {"keyword", "variable"},
         BodyNames(t, l, m, do)
  PROVE  Inv'
<1> DEFINE N == Len(calls[t])
           f == Call(do, m)
<1>0. Typed BY DEF Inv
<1>1. f \in Frame /\ f.do = do /\ f.lib = m BY DEF Call, Frame, Looking
<1>2. PICK d \in {"splice", "parse"} : Doing(t, d, l) BY DEF BodyNames
<1>3. /\ calls[t] # <<>> /\ N \in DOMAIN calls[t] /\ N \in Nat \ {0}
      /\ Current(t) = calls[t][N] /\ Current(t).do = d /\ Current(t).lib = l
  BY <1>0, <1>2, DoingCall
<1>4. /\ calls' = [calls EXCEPT ![t] = Append(@, f)] /\ m \in Visible(l)
      /\ named' = [named EXCEPT ![l] = @ \union {<<do, m>>}]
      /\ UNCHANGED <<gaps, imports, state, holder, bound, runs>>
  BY DEF BodyNames
<1>5. \A n \in DOMAIN calls[t] : calls[t][n].do \in Holding => f.lib \in Visible(calls[t][n].lib)
  <2> TAKE n \in DOMAIN calls[t]
  <2> HAVE calls[t][n].do \in Holding
  <2>1. \/ n # N /\ l \in Visible(calls[t][n].lib)
        \/ n = N /\ l = calls[t][n].lib
    BY <1>2, <1>3, BodySees DEF Holding
  <2>2. calls[t][n].lib \in Lib BY <1>0, CallTyped DEF Frame
  <2>3. imports \in [Lib -> SUBSET Lib] BY <1>0 DEF Typed
  <2> QED BY <1>1, <1>4, <2>1, <2>2, <2>3, VisibleTransitive
<1>6. LookingUp(l, m)' \/ do # "variable"
  <2>1. /\ DOMAIN calls'[t] = 1 .. N + 1 /\ calls'[t][N] = calls[t][N] /\ calls'[t][N + 1] = f
    <3> HIDE DEF f
    <3>1. N \in 1 .. N BY <1>3
    <3> QED BY <1>0, <1>1, <1>4, <3>1, AddedCall
  <2>2. N \in DOMAIN calls'[t] /\ N + 1 \in DOMAIN calls'[t] BY <1>3, <2>1
  <2> QED BY <1>1, <1>3, <2>1, <2>2 DEF LookingUp
<1>7. named' \in [Lib -> SUBSET ({"keyword", "variable"} \X Lib)]
  <2>1. {<<do, m>>} \subseteq {"keyword", "variable"} \X Lib OBVIOUS
  <2>2. named[l] \union {<<do, m>>} \in SUBSET ({"keyword", "variable"} \X Lib) BY <1>0, <2>1 DEF Typed
  <2> QED BY <1>0, <1>4, <2>2 DEF Typed
<1>8. ASSUME NEW k \in Lib, NEW j \in Lib, <<"variable", j>> \in named'[k]
      PROVE  <<"variable", j>> \in named[k] \/ LookingUp(k, j)'
  <2>1. CASE k # l
    <3>1. named'[k] = named[k] BY <1>0, <1>4, <2>1 DEF Typed
    <3> QED BY <1>8, <3>1
  <2>2. CASE k = l
    <3>1. named'[l] = named[l] \union {<<do, m>>} BY <1>0, <1>4 DEF Typed
    <3>2. <<"variable", j>> \in named[l] \/ (do = "variable" /\ j = m) BY <1>8, <2>2, <3>1
    <3> QED BY <1>6, <2>2, <3>2
  <2> QED BY <2>1, <2>2
<1>9. f.do \notin Holding /\ f.do # "invoke" BY <1>1 DEF Holding
<1> HIDE DEF f
<1> QED BY <1>1, <1>4, <1>5, <1>7, <1>8, <1>9, AddedStep

LEMMA BodyCallsItselfStep ==
  ASSUME Inv, NEW t \in Thread, NEW l \in Lib, BodyCallsItself(t, l)
  PROVE  Inv'
<1> DEFINE N == Len(calls[t])
           f == Call("resolve", l)
<1>0. Typed BY DEF Inv
<1>1. f \in Frame /\ f.do = "resolve" /\ f.lib = l BY DEF Call, Frame, Looking
<1>2. calls[t] # <<>> /\ Current(t).do = "splice" /\ Current(t).lib = l
  BY <1>0, DoingCall DEF BodyCallsItself
<1>3. /\ calls' = [calls EXCEPT ![t] = Append(@, f)] /\ l \in CallsItself
      /\ UNCHANGED <<gaps, imports, state, holder, bound, named, runs>>
  BY DEF BodyCallsItself
<1>4. \A n \in DOMAIN calls[t] : calls[t][n].do \in Holding =>
        l \in Visible(calls[t][n].lib) \/ l = calls[t][n].lib
  BY <1>2, BodySees DEF Holding
<1>5. f.do \notin Holding /\ f.do # "invoke" BY <1>1 DEF Holding
<1>6. named' \in [Lib -> SUBSET ({"keyword", "variable"} \X Lib)] BY <1>0, <1>3 DEF Typed
<1> HIDE DEF f
<1> QED BY <1>1, <1>3, <1>4, <1>5, <1>6, AddedStep

LEMMA BodyImportStep ==
  ASSUME Inv, NEW t \in Thread, NEW l \in Lib, NEW m \in Lib, BodyImport(t, l, m)
  PROVE  Inv'
<1>0. Typed /\ Held /\ Stages /\ Nested /\ NamesSettled BY DEF Inv
<1>1. /\ imports' = [imports EXCEPT ![l] = @ \union {m}]
      /\ UNCHANGED <<gaps, state, holder, bound, calls, named, runs>>
  BY DEF BodyImport
<1>2. Typed' BY <1>0, <1>1 DEF Typed
<1>3. Held' BY <1>0, <1>1 DEF Held
<1>4. Stages' BY <1>0, <1>1 DEF Stages
<1>5. Nested'
  <2>1. \A x \in Lib : imports[x] \subseteq imports'[x] BY <1>0, <1>1 DEF Typed
  <2>2. \A x \in Lib : Visible(x) \subseteq Visible(x)' BY <2>1, VisibleGrows
  <2>3. \A u \in Thread : \A n \in DOMAIN calls[u] : calls[u][n].lib \in Lib
    BY <1>0, CallTyped DEF Frame
  <2> QED BY <1>0, <1>1, <2>2, <2>3 DEF Nested
<1>6. NamesSettled' BY <1>0, <1>1 DEF NamesSettled, Settled, Broken, LookingUp
<1> QED BY <1>2, <1>3, <1>4, <1>5, <1>6 DEF Inv

LEMMA FailStep ==
  ASSUME Inv, NEW t \in Thread, Fail(t)
  PROVE  Inv'
<1>0. Typed /\ Held /\ Stages /\ Nested /\ NamesSettled BY DEF Inv
<1>1. /\ holder' = [l \in Lib |-> IF holder[l] = t THEN None ELSE holder[l]]
      /\ calls' = [calls EXCEPT ![t] = <<>>]
      /\ UNCHANGED <<gaps, imports, state, bound, named, runs>>
  BY DEF Fail
<1>2. /\ \A u \in Thread \ {t} : calls'[u] = calls[u]
      /\ DOMAIN calls'[t] = {}
      /\ \A l \in Lib : holder'[l] = IF holder[l] = t THEN None ELSE holder[l]
  BY <1>0, <1>1 DEF Typed
<1>3. \A u \in Thread : \A n \in DOMAIN calls'[u] : u # t /\ calls'[u] = calls[u]
  BY <1>2
<1>4. \A u \in Thread : \A n \in DOMAIN calls[u] : calls[u][n].lib \in Lib
  BY <1>0, CallTyped DEF Frame
<1>5. Typed' BY <1>0, <1>1 DEF Typed
<1>6. Held'
  <2>1. \A u \in Thread : \A n \in DOMAIN calls'[u] :
          calls'[u][n].do \in Holding => holder'[calls'[u][n].lib] = u
    BY <1>0, <1>2, <1>3, <1>4 DEF Held
  <2>2. \A l \in Lib : holder'[l] # None =>
          \E n \in DOMAIN calls'[holder'[l]] :
             calls'[holder'[l]][n].do \in Holding /\ calls'[holder'[l]][n].lib = l
    <3> TAKE l \in Lib
    <3> HAVE holder'[l] # None
    <3>1. holder'[l] = holder[l] /\ holder[l] \in Thread \ {t} BY <1>0, <1>2 DEF Typed
    <3> QED BY <1>0, <1>2, <3>1 DEF Held
  <2>3. \A u \in Thread : \A n, k \in DOMAIN calls'[u] :
          calls'[u][n].do \in Holding /\ calls'[u][k].do \in Holding
             /\ calls'[u][n].lib = calls'[u][k].lib => n = k
    BY <1>0, <1>3 DEF Held
  <2> QED BY <2>1, <2>2, <2>3 DEF Held
<1>7. Stages' BY <1>0, <1>1, <1>3 DEF Stages
<1>8. Nested'
  <2>1. imports' = imports BY <1>1
  <2>2. \A x \in Lib : Visible(x)' = Visible(x) BY <2>1 DEF Visible
  <2> QED BY <1>0, <1>3, <1>4, <2>2 DEF Nested
<1>9. NamesSettled'
  <2>1. \A m \in Lib : Settled(m) => Settled(m)' BY <1>1, <1>2, LibrariesAssumption DEF Settled, Broken
  <2>2. ASSUME NEW l \in Lib, NEW m \in Lib, LookingUp(l, m)
        PROVE  LookingUp(l, m)' \/ (state'[l] = "expanding" /\ holder'[l] = None)
    <3>1. PICK u \in Thread : \E n \in DOMAIN calls[u] :
            /\ calls[u][n].lib = l /\ calls[u][n].do \in {"splice", "parse"}
            /\ n + 1 \in DOMAIN calls[u]
            /\ calls[u][n + 1].lib = m /\ calls[u][n + 1].do \in {"variable", "invoke", "run"}
      BY <2>2 DEF LookingUp
    <3>2. PICK n \in DOMAIN calls[u] :
            /\ calls[u][n].lib = l /\ calls[u][n].do \in {"splice", "parse"}
            /\ n + 1 \in DOMAIN calls[u]
            /\ calls[u][n + 1].lib = m /\ calls[u][n + 1].do \in {"variable", "invoke", "run"}
      BY <3>1
    <3>3. CASE u # t BY <1>2, <3>2, <3>3 DEF LookingUp
    <3>4. CASE u = t
      <4>1. state[l] = "expanding" BY <1>0, <3>2 DEF Stages
      <4>2. holder[l] = t BY <1>0, <3>2, <3>4 DEF Held, Holding
      <4> QED BY <1>1, <1>2, <4>1, <4>2
    <3> QED BY <3>3, <3>4
  <2>3. \A k \in Lib : state[k] = "expanding" /\ holder[k] = None => state'[k] = "expanding" /\ holder'[k] = None
    BY <1>1, <1>2
  <2>4. named' = named BY <1>1
  <2> QED BY <1>0, <2>1, <2>2, <2>3, <2>4 DEF NamesSettled
<1> QED BY <1>5, <1>6, <1>7, <1>8, <1>9 DEF Inv

-----------------------------------------------------------------------------
LEMMA Initially == Init => Inv
<1> SUFFICES ASSUME Init PROVE Inv
  OBVIOUS
<1>1. \A t \in Thread : calls[t] = <<>> /\ DOMAIN calls[t] = {} BY DEF Init
<1>2. Typed
  <2>1. imports \in [Lib -> SUBSET Lib] BY LibrariesAssumption DEF Init
  <2>2. calls \in [Thread -> Seq(Frame)] BY DEF Init
  <2> QED BY <2>1, <2>2 DEF Init, Typed
<1>3. Held BY <1>1 DEF Held, Init
<1>4. Stages BY <1>1 DEF Stages, Init
<1>5. Nested BY <1>1 DEF Nested
<1>6. NamesSettled BY DEF NamesSettled, Init
<1> QED BY <1>2, <1>3, <1>4, <1>5, <1>6 DEF Inv

LEMMA Kept == Inv /\ [Next]_vars => Inv'
<1> SUFFICES ASSUME Inv, [Next]_vars PROVE Inv'
  OBVIOUS
<1>1. CASE Next
  <2>1. PICK t \in Thread :
          \/ \E l \in Lib :
              \/ Run(t, l)
              \/ Use(t, l, "keyword") \/ Use(t, l, "variable")
              \/ \E m \in Lib : BodyNames(t, l, m, "keyword") \/ BodyNames(t, l, m, "variable")
              \/ BodyCallsItself(t, l)
              \/ \E m \in Lib : BodyImport(t, l, m)
          \/ Fail(t)
    BY <1>1 DEF Next
  <2>2. CASE Fail(t) BY <2>2, FailStep
  <2>3. ASSUME NEW l \in Lib, Run(t, l) PROVE Inv'
    <3>1. CASE LookupKeyword(t, l) BY <3>1, LookupKeywordStep
    <3>2. CASE LookupVar(t, l) BY <3>2, LookupVarStep
    <3>3. CASE BeginExpand(t, l) BY <3>3, BeginExpandStep
    <3>4. CASE MarkDefinitions(t, l) BY <3>4, MarkDefinitionsStep
    <3>5. CASE EndExpand(t, l) BY <3>5, EndStep DEF EndExpand
    <3>6. CASE BeginInvoke(t, l) BY <3>6, BeginInvokeStep
    <3>7. CASE EndInvoke(t, l) BY <3>7, EndStep DEF EndInvoke
    <3> QED BY <2>3, <3>1, <3>2, <3>3, <3>4, <3>5, <3>6, <3>7 DEF Run
  <2>4. ASSUME NEW l \in Lib, Use(t, l, "keyword") \/ Use(t, l, "variable") PROVE Inv'
    BY <2>4, UseStep
  <2>5. ASSUME NEW l \in Lib, NEW m \in Lib,
               BodyNames(t, l, m, "keyword") \/ BodyNames(t, l, m, "variable")
        PROVE  Inv'
    BY <2>5, BodyNamesStep
  <2>6. ASSUME NEW l \in Lib, BodyCallsItself(t, l) PROVE Inv'
    BY <2>6, BodyCallsItselfStep
  <2>7. ASSUME NEW l \in Lib, NEW m \in Lib, BodyImport(t, l, m) PROVE Inv'
    BY <2>7, BodyImportStep
  <2> QED BY <2>1, <2>2, <2>3, <2>4, <2>5, <2>6, <2>7
<1>2. CASE UNCHANGED vars
  <2>0. UNCHANGED <<gaps, imports, state, holder, bound, calls, named, runs>> BY <1>2 DEF vars
  <2>1. Typed /\ Held /\ Stages /\ Nested /\ NamesSettled BY DEF Inv
  <2>2. Typed' BY <2>0, <2>1 DEF Typed
  <2>3. Held' BY <2>0, <2>1 DEF Held
  <2>4. Stages' BY <2>0, <2>1 DEF Stages
  <2>5. Nested' BY <2>0, <2>1 DEF Nested, Visible
  <2>6. NamesSettled' BY <2>0, <2>1 DEF NamesSettled, Settled, Broken, LookingUp
  <2> QED BY <2>2, <2>3, <2>4, <2>5, <2>6 DEF Inv
<1> QED BY <1>1, <1>2

\* The imports of a library are those it was loaded with and those its body asked for.
LEMMA ImportsGrowKept == Spec => []ImportsGrow
<1>1. Init => ImportsGrow BY DEF Init, ImportsGrow, BodyGraph
<1>2. Inv /\ ImportsGrow /\ [Next]_vars => ImportsGrow'
  <2> SUFFICES ASSUME Inv, ImportsGrow, [Next]_vars PROVE ImportsGrow'
    OBVIOUS
  <2>1. PICK g \in Graphs : \A x \in Lib : imports[x] \subseteq BodyGraph(g)[x]
    BY DEF ImportsGrow
  <2>2. CASE imports' = imports BY <2>1, <2>2 DEF ImportsGrow
  <2>3. ASSUME NEW t \in Thread, NEW l \in Lib, NEW m \in Lib, BodyImport(t, l, m) PROVE ImportsGrow'
    <3>1. m \in BodyGraph(g)[l] BY <2>3 DEF BodyImport, BodyGraph
    <3>2. imports' = [imports EXCEPT ![l] = @ \union {m}] /\ imports \in [Lib -> SUBSET Lib]
      BY <2>3 DEF BodyImport, Inv, Typed
    <3>3. \A x \in Lib : imports'[x] \subseteq BodyGraph(g)[x] BY <2>1, <3>1, <3>2
    <3> QED BY <3>3 DEF ImportsGrow
  <2>4. ASSUME NEW t \in Thread, NEW l \in Lib, Run(t, l) PROVE imports' = imports
    BY <2>4 DEF Run, LookupKeyword, LookupVar, BeginExpand, MarkDefinitions, EndExpand,
                BeginInvoke, EndInvoke
  <2>5. ASSUME NEW t \in Thread, NEW l \in Lib, NEW m \in Lib, NEW do,
               Use(t, l, do) \/ BodyNames(t, l, m, do) \/ BodyCallsItself(t, l) \/ Fail(t)
        PROVE  imports' = imports
    BY <2>5 DEF Use, BodyNames, BodyCallsItself, Fail
  <2>6. CASE Next
    <3>1. PICK t \in Thread :
            \/ \E l \in Lib :
                \/ Run(t, l)
                \/ Use(t, l, "keyword") \/ Use(t, l, "variable")
                \/ \E m \in Lib : BodyNames(t, l, m, "keyword") \/ BodyNames(t, l, m, "variable")
                \/ BodyCallsItself(t, l)
                \/ \E m \in Lib : BodyImport(t, l, m)
            \/ Fail(t)
      BY <2>6 DEF Next
    <3>2. CASE Fail(t) BY <2>2, <3>2 DEF Fail
    <3> QED BY <2>2, <2>3, <2>4, <2>5, <3>1, <3>2
  <2>7. CASE UNCHANGED vars BY <2>2, <2>7 DEF vars
  <2> QED BY <2>6, <2>7
<1>3. Spec => []Inv BY Initially, Kept, PTL DEF Spec
<1> QED BY <1>1, <1>2, <1>3, PTL DEF Spec

\* No library sees itself through its imports.
LEMMA VisibleOneWay ==
  ASSUME NoCircles, Typed, ImportsGrow,
         NEW l \in Lib, NEW m \in Visible(l)
  PROVE  l \notin Visible(m)
<1> SUFFICES ASSUME l \in Visible(m) PROVE FALSE
  OBVIOUS
<1>0. imports \in [Lib -> SUBSET Lib] BY DEF Typed
<1>1. \A x \in Lib : imports[x] \subseteq Visible(x) /\ Visible(x) \subseteq Lib
  BY <1>0 DEF Visible
<1>2. ASSUME NEW x \in Lib, NEW y \in Visible(x), NEW z \in Visible(y) PROVE z \in Visible(x)
  BY <1>0, <1>2, VisibleTransitive
<1> DEFINE S == {y \in Lib : y \in Visible(l) /\ l \in Visible(y)}
<1>3. l \in S BY <1>1, <1>2
<1>4. PICK x \in S : imports[x] \cap S = {}
  <2>1. PICK g \in Graphs : \A x \in Lib : imports[x] \subseteq BodyGraph(g)[x]
    BY DEF ImportsGrow
  <2>2. S \in SUBSET Lib /\ S # {} BY <1>3
  <2>3. PICK x \in S : BodyGraph(g)[x] \cap S = {} BY <2>2 DEF NoCircles
  <2>4. x \in Lib OBVIOUS
  <2>5. imports[x] \subseteq BodyGraph(g)[x] BY <2>1, <2>4
  <2> QED BY <2>3, <2>5
<1> DEFINE T == {z \in Lib : l \notin Visible(z) /\ z # l}
<1>5. imports[x] \subseteq T
  <2> SUFFICES ASSUME NEW z \in imports[x] PROVE z \in T
    OBVIOUS
  <2>1. z \in Visible(x) /\ z \in Lib BY <1>1
  <2>2. z \in Visible(l) BY <1>2, <2>1
  <2>3. z \notin S BY <1>4
  <2> QED BY <1>3, <2>1, <2>2, <2>3
<1>6. \A z \in T : imports[z] \subseteq T
  <2> SUFFICES ASSUME NEW z \in T, NEW w \in imports[z] PROVE w \in T
    OBVIOUS
  <2>1. w \in Visible(z) /\ w \in Lib BY <1>1
  <2>2. l \notin Visible(w) BY <1>2, <2>1
  <2> QED BY <2>1, <2>2
<1>7. l \in T
  <2>1. l \in Visible(x) /\ T \in SUBSET Lib OBVIOUS
  <2> HIDE DEF T
  <2> QED BY <1>5, <1>6, <2>1 DEF Visible
<1> QED BY <1>7

-----------------------------------------------------------------------------
\* What the states, the locks and the calls of the libraries always satisfy together:
\* the invariant the theorems below rest on.
THEOREM InvHolds == Spec => []Inv
BY Initially, Kept, PTL DEF Spec

\* However many threads look the bindings of a library up, its body is started once:
\* maybe_invoke takes the body out of the state under the lock before it runs it.
THEOREM RunsOnceHolds == Spec => []RunsOnce
<1>1. ASSUME Inv PROVE RunsOnce
  <2>1. \A l \in Lib : runs[l] = 0 \/ runs[l] = 1 BY <1>1 DEF Inv, Stages
  <2>2. 0 <= 1 /\ 1 <= 1 OBVIOUS
  <2> HIDE DEF RunsOnce
  <2>3. \A l \in Lib : runs[l] <= 1 BY <2>1, <2>2
  <2> QED BY <2>3 DEF RunsOnce
<1> QED BY <1>1, InvHolds, PTL

\* A library that has failed can see one with a wrong form or a body that raises, or
\* is such a library.
CanFail(m) == (Visible(m) \union {m}) \cap Faulty # {}
FailuresHaveCause == \A m \in Lib : Broken(m) => CanFail(m)

\* The error leaves the calls that hold a library, and the call that failed is about
\* that library or one that it sees.
LEMMA FailHasCause ==
  ASSUME Inv, FailuresHaveCause, NEW t \in Thread, Fail(t), NEW m \in Lib, Broken(m)'
  PROVE  CanFail(m)
<1>0. Typed BY DEF Inv
<1>1. /\ holder' = [l \in Lib |-> IF holder[l] = t THEN None ELSE holder[l]]
      /\ state' = state /\ calls[t] # <<>> /\ Current(t).do \in Holding /\ Current(t).lib \in Faulty
  BY DEF Fail
<1>2. CASE holder[m] # t
  <2>1. holder'[m] = holder[m] BY <1>1, <1>2
  <2>2. Broken(m) BY <1>1, <2>1 DEF Broken
  <2> QED BY <2>2 DEF FailuresHaveCause
<1>3. CASE holder[m] = t
  <2> DEFINE N == Len(calls[t])
  <2>1. calls[t] \in Seq(Frame) BY <1>0 DEF Typed
  <2>2. N \in Nat \ {0} /\ DOMAIN calls[t] = 1 .. N BY <1>1, <2>1, EmptySeq
  <2>3. Current(t) = calls[t][N] BY DEF Current
  <2>4. PICK n \in DOMAIN calls[t] : calls[t][n].do \in Holding /\ calls[t][n].lib = m
    BY <1>3, LibrariesAssumption DEF Inv, Held
  <2> HIDE DEF N
  <2>5. N \in DOMAIN calls[t] /\ (n = N \/ n < N) BY <2>2, <2>4
  <2>6. calls[t][N].lib \in Visible(m) \union {m} BY <1>1, <2>3, <2>4, <2>5 DEF Inv, Nested
  <2> QED BY <1>1, <2>3, <2>6 DEF CanFail
<1> QED BY <1>2, <1>3

LEMMA FailuresHaveCauseKept == Inv /\ FailuresHaveCause /\ [Next]_vars => FailuresHaveCause'
<1> SUFFICES ASSUME Inv, FailuresHaveCause, [Next]_vars, NEW m \in Lib, Broken(m)'
             PROVE  CanFail(m)'
  BY DEF FailuresHaveCause
<1>0. Typed BY DEF Inv
<1>1. ASSUME imports' = imports, CanFail(m) PROVE CanFail(m)'
  BY <1>1 DEF CanFail, Visible
<1>2. ASSUME imports' = imports, Broken(m) PROVE CanFail(m)'
  BY <1>1, <1>2 DEF FailuresHaveCause
<1>3. ASSUME NEW t \in Thread, NEW l \in Lib, Run(t, l) PROVE CanFail(m)'
  <2>1. imports' = imports
    BY <1>3 DEF Run, LookupKeyword, LookupVar, BeginExpand, MarkDefinitions, EndExpand,
                BeginInvoke, EndInvoke
  <2>2. CASE UNCHANGED <<state, holder>> BY <1>2, <2>1, <2>2 DEF Broken
  <2>3. ASSUME NEW s, s \in {"expanding", "invalid"},
               state' = [state EXCEPT ![l] = s], holder' = [holder EXCEPT ![l] = t]
        PROVE  Broken(m)
    <3>1. m # l BY <1>0, <2>3, LibrariesAssumption DEF Typed, Broken
    <3> QED BY <1>0, <2>3, <3>1 DEF Typed, Broken
  <2>4. ASSUME NEW s, s \in {"expanded", "invoked"},
               state' = [state EXCEPT ![l] = s], holder' = [holder EXCEPT ![l] = None]
        PROVE  Broken(m)
    <3>1. m # l BY <1>0, <2>4 DEF Typed, Broken
    <3> QED BY <1>0, <2>4, <3>1 DEF Typed, Broken
  <2>5. CASE LookupKeyword(t, l) \/ LookupVar(t, l) \/ MarkDefinitions(t, l)
    BY <2>2, <2>5 DEF LookupKeyword, LookupVar, MarkDefinitions
  <2>6. CASE BeginExpand(t, l) BY <1>2, <2>1, <2>2, <2>3, <2>6 DEF BeginExpand
  <2>7. CASE BeginInvoke(t, l) BY <1>2, <2>1, <2>2, <2>3, <2>7 DEF BeginInvoke
  <2>8. CASE EndExpand(t, l) \/ EndInvoke(t, l)
    BY <1>2, <2>1, <2>4, <2>8 DEF EndExpand, EndInvoke
  <2> QED BY <1>3, <2>5, <2>6, <2>7, <2>8 DEF Run
<1>4. ASSUME NEW t \in Thread, Fail(t) PROVE CanFail(m)'
  <2>1. imports' = imports BY <1>4 DEF Fail
  <2>2. CanFail(m) BY <1>4, FailHasCause
  <2> QED BY <1>1, <2>1, <2>2
<1>5. ASSUME NEW t \in Thread, NEW l \in Lib, NEW k \in Lib, NEW do,
             Use(t, l, do) \/ BodyNames(t, l, k, do) \/ BodyCallsItself(t, l)
      PROVE  CanFail(m)'
  <2>1. UNCHANGED <<imports, state, holder>> BY <1>5 DEF Use, BodyNames, BodyCallsItself
  <2>2. Broken(m) BY <2>1 DEF Broken
  <2> QED BY <1>2, <2>1, <2>2
<1>6. ASSUME NEW t \in Thread, NEW l \in Lib, NEW k \in Lib, BodyImport(t, l, k)
      PROVE  CanFail(m)'
  <2>1. imports' = [imports EXCEPT ![l] = @ \union {k}] /\ UNCHANGED <<state, holder>>
    BY <1>6 DEF BodyImport
  <2>2. CanFail(m) BY <2>1 DEF FailuresHaveCause, Broken
  <2>3. \A x \in Lib : imports[x] \subseteq imports'[x] BY <1>0, <2>1 DEF Typed
  <2>4. Visible(m) \subseteq Visible(m)' BY <2>3, VisibleGrows
  <2> QED BY <2>2, <2>4 DEF CanFail
<1>7. CASE UNCHANGED vars
  <2>1. UNCHANGED <<imports, state, holder>> BY <1>7 DEF vars
  <2>2. Broken(m) BY <2>1 DEF Broken
  <2> QED BY <1>2, <2>1, <2>2
<1>8. CASE Next
  <2>1. PICK t \in Thread :
          \/ \E l \in Lib :
              \/ Run(t, l)
              \/ Use(t, l, "keyword") \/ Use(t, l, "variable")
              \/ \E k \in Lib : BodyNames(t, l, k, "keyword") \/ BodyNames(t, l, k, "variable")
              \/ BodyCallsItself(t, l)
              \/ \E k \in Lib : BodyImport(t, l, k)
          \/ Fail(t)
    BY <1>8 DEF Next
  <2> QED BY <1>3, <1>4, <1>5, <1>6, <2>1
<1> QED BY <1>7, <1>8

\* For any imports and threads: while the body of a library runs, every library it
\* names a variable of has run to its end, except for those whose own expansion or
\* body has failed, for a wrong form or an error that they or what they see hold.
\* Of an import that a body names no variable of it says nothing: nothing runs it.
THEOREM ImportsRanFirstHolds == Spec => []ImportsRanFirst
<1>1. Inv /\ FailuresHaveCause => ImportsRanFirst
  <2> SUFFICES ASSUME Inv, FailuresHaveCause, NEW l \in Lib, NEW m \in Lib,
                      state[l] = "invalid", <<"variable", m>> \in named[l]
               PROVE  state[m] = "invoked" \/ (Broken(m) /\ CanFail(m))
    BY DEF ImportsRanFirst, CanFail
  <2>1. ~LookingUp(l, m) BY DEF Inv, Stages, LookingUp
  <2>2. Settled(m) BY <2>1 DEF Inv, NamesSettled
  <2> QED BY <2>2 DEF Settled, FailuresHaveCause
<1>2. Init => FailuresHaveCause BY DEF Init, FailuresHaveCause, Broken
<1>3. Inv /\ FailuresHaveCause /\ [Next]_vars => FailuresHaveCause' BY FailuresHaveCauseKept
<1> QED BY <1>1, <1>2, <1>3, InvHolds, PTL DEF Spec

\* As long as the imports inside of bodies close no circle, a thread waits only for
\* libraries below those it holds, so no threads wait for each other.
THEOREM WaitsFollowImportsHolds ==
  ASSUME NoCircles
  PROVE  Spec => []WaitsFollowImports
<1>1. Inv /\ ImportsGrow => WaitsFollowImports
  <2> SUFFICES ASSUME Inv, ImportsGrow, NEW t \in Thread, NEW l \in Lib,
                      holder[l] = t, calls[t] # <<>>, Current(t).do \notin Holding
               PROVE  LET m == Current(t).lib IN
                      \/ m \in Visible(l) /\ l \notin Visible(m)
                      \/ m = l /\ l \in CallsItself
    BY DEF WaitsFollowImports
  <2> DEFINE N == Len(calls[t])
  <2>0. Typed BY DEF Inv
  <2>1. calls[t] \in Seq(Frame) BY <2>0 DEF Typed
  <2>2. N \in Nat \ {0} /\ DOMAIN calls[t] = 1 .. N BY <2>1, EmptySeq
  <2>3. Current(t) = calls[t][N] BY DEF Current
  <2>4. PICK n \in DOMAIN calls[t] : calls[t][n].do \in Holding /\ calls[t][n].lib = l
    BY LibrariesAssumption DEF Inv, Held
  <2> HIDE DEF N
  <2>5. n < N /\ N \in DOMAIN calls[t] BY <2>2, <2>3, <2>4
  <2>6. \/ Current(t).lib \in Visible(l)
        \/ Current(t).lib = l /\ l \in CallsItself
    BY <2>3, <2>4, <2>5 DEF Inv, Nested
  <2> QED BY <2>0, <2>6, VisibleOneWay
<1> QED BY <1>1, InvHolds, ImportsGrowKept, PTL
=============================================================================
