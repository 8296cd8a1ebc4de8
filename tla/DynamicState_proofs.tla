------------------------ MODULE DynamicState_proofs ------------------------
(***************************************************************************)
(* Proofs about DynamicState, for any winders, handlers, ports and tags, and    *)
(* any bounds.  Inv says that the stacks are typed, that every continuation ends *)
(* in the frame that halts its own barrier, that nested barriers have different  *)
(* ids, and, when no element is installed twice, that no two frames of a         *)
(* continuation own the same element: the barrier that an abort looks for is the *)
(* only one of its prompt.                                                    *)
(* Arranged says that every continuation is a chain of frames, each above one   *)
(* that it fits and given the dynamic stack that it needs; it is kept when no    *)
(* element is installed twice and no thunk of a jump aborts.                  *)
(***************************************************************************)
EXTENDS DynamicState, FiniteSetTheorems, SequenceTheorems, WellFoundedInduction, TLAPS

----------------------------------------------------------------------------
(* Positions.                                                               *)

LEMMA MinOf ==
    ASSUME NEW S, S \subseteq Nat, S # {}
    PROVE  Min(S) \in S /\ \A y \in S : Min(S) <= y
<1>1. PICK x \in S : \A y \in S : ~ (<<y, x>> \in OpToRel(<, Nat))
    BY NatLessThanWellFounded, WFMin, Zenon
<1>2. \A y \in S : ~(y < x)
    BY <1>1 DEF OpToRel
<1>3. \A y \in S : x <= y
    BY <1>2
<1> QED
    BY <1>3 DEF Min

LEMMA MaxOf ==
    ASSUME NEW n \in Nat, NEW S, S \subseteq 0 .. n, S # {}
    PROVE  Max(S) \in S /\ \A y \in S : y <= Max(S)
<1> DEFINE T == {y \in 0 .. n : n - y \in S}
<1>1. T \subseteq Nat
    OBVIOUS
<1>2. T # {}
    <2>1. PICK y \in S : TRUE
        OBVIOUS
    <2>2. n - y \in T
        OBVIOUS
    <2> QED
        BY <2>2
<1>3. Min(T) \in T /\ \A y \in T : Min(T) <= y
    BY <1>1, <1>2, MinOf, Zenon
<1>4. PICK t \in T : \A y \in T : t <= y
    BY <1>3
<1>5. \A y \in S : n - y \in T
    OBVIOUS
<1>6. \A y \in S : n - t >= y
    <2> TAKE y \in S
    <2>1. t <= n - y
        BY <1>4, <1>5
    <2>2. t \in Nat /\ y \in Nat
        OBVIOUS
    <2> HIDE DEF T
    <2> QED
        BY <2>1, <2>2
<1>7. n - t \in S
    OBVIOUS
<1>8. PICK x \in S : \A y \in S : x >= y
    BY <1>6, <1>7, Zenon
<1>9. Max(S) \in S /\ \A y \in S : Max(S) >= y
    BY <1>8 DEF Max
<1> QED
    BY <1>9

LEMMA LastPosIs ==
    ASSUME NEW n \in Nat, NEW S, S \subseteq 1 .. n
    PROVE  /\ LastPos(S) \in 0 .. n
           /\ LastPos(S) > 0 => LastPos(S) \in S
           /\ \A i \in S : i <= LastPos(S)
<1> DEFINE T == {0} \union S
<1>1. T \subseteq 0 .. n /\ T # {}
    OBVIOUS
<1>2. LastPos(S) = Max(T)
    BY DEF LastPos
<1>3. 0 \in T /\ S \subseteq T /\ \A y \in T : y # 0 => y \in S
    OBVIOUS
<1> HIDE DEF T
<1>4. Max(T) \in T /\ \A y \in T : y <= Max(T)
    BY <1>1, MaxOf, Zenon
<1>5. PICK m \in 0 .. n : m = Max(T)
    BY <1>1, <1>4
<1>6. m \in T /\ \A y \in T : y <= m
    BY <1>4, <1>5, Zenon
<1> QED
    BY <1>2, <1>3, <1>5, <1>6

LEMMA FirstPosIs ==
    ASSUME NEW X, NEW s \in Seq(X), NEW S, S \subseteq 1 .. Len(s)
    PROVE  /\ FirstPos(s, S) \in 1 .. Len(s) + 1
           /\ FirstPos(s, S) <= Len(s) => FirstPos(s, S) \in S
           /\ \A i \in S : i >= FirstPos(s, S)
<1> DEFINE T == {Len(s) + 1} \union S
<1>1. PICK n \in Nat : n = Len(s)
    OBVIOUS
<1>2. \A y \in S : y \in 1 .. n
    BY <1>1
<1>3. FirstPos(s, S) = Min(T)
    BY DEF FirstPos
<1>4. n + 1 \in T /\ S \subseteq T /\ \A y \in T : y # n + 1 => y \in S
    BY <1>1
<1> HIDE DEF T
<1>5. T \subseteq Nat /\ T # {}
    BY <1>2, <1>4
<1>6. Min(T) \in T /\ \A y \in T : Min(T) <= y
    BY <1>5, MinOf, Zenon
<1>7. PICK m \in Nat : m = Min(T)
    BY <1>5, <1>6
<1>8. m \in T /\ \A y \in T : m <= y
    BY <1>6, <1>7, Zenon
<1>9. m \in 1 .. n + 1 /\ (m <= n => m \in S) /\ \A i \in S : i >= m
    BY <1>2, <1>4, <1>8
<1> QED
    BY <1>1, <1>3, <1>7, <1>9

\* An id that Fresh returns is not in use.
LEMMA FreshIsNew ==
    ASSUME NEW used, IsFiniteSet(used)
    PROVE  /\ Fresh(used) \in Nat \ used
           /\ Fresh(used) \in 0 .. Cardinality(used)
<1> DEFINE n == Cardinality(used)
           S == (0 .. n) \ used
<1>1. n \in Nat
    BY FS_CardinalityType
<1>2. S # {}
    <2> SUFFICES ASSUME 0 .. n \subseteq used PROVE FALSE
        OBVIOUS
    <2>1. Cardinality(0 .. n) <= n
        BY FS_Subset
    <2>2. Cardinality(0 .. n) = n + 1
        <3>1. n - 0 + 1 = n + 1 /\ 0 <= n /\ 0 \in Int /\ n \in Int
            BY <1>1
        <3> QED
            BY <3>1, FS_Interval
    <2> QED
        BY <1>1, <2>1, <2>2
<1>3. S \subseteq Nat
    BY <1>1
<1>4. Min(S) \in S
    BY <1>2, <1>3, MinOf, Zenon
<1> QED
    BY <1>1, <1>3, <1>4 DEF Fresh

----------------------------------------------------------------------------
(* Types.                                                                   *)

Elem ==
    {Wind(w) : w \in Winder} \union {Catch(h) : h \in Handler}
    \union {Redirect(p) : p \in Port} \union {Prompt(t, n) : t \in Tag, n \in 0 .. MaxPrompts}

Stack == Seq(Elem)

PlainFrame == {Halt(n) : n \in Nat} \union {Jit, AfterOut, UnwindHandler, Reraise}
OwnerFrame ==
    {AfterIn(w) : w \in Winder} \union {PopDyn(e) : e \in Elem} \union {Barrier(e) : e \in Elem}
JumpFrame ==
    {Unwind(d) : d \in Stack} \union {Rewind(d, w) : d \in Stack, w \in Winder \union {None}}
PromptFrame ==
    {UnwindPrompt(t, d) : t \in Tag, d \in Stack}
    \union {RewindDelim(d, w) : d \in Stack, w \in Winder \union {None}}

Frame == PlainFrame \union OwnerFrame \union JumpFrame \union PromptFrame

Context == [id : Nat, frames : Seq(Frame), dyn : Stack]
Capture == [frames : Seq(Frame), dyn : Stack]

Typed ==
    /\ id \in Nat /\ frames \in Seq(Frame) /\ dyn \in Stack
    /\ pc \in {"user", "return"}
    /\ outer \in Seq(Context)
    /\ conts \in [Cont -> Context \union {None}]
    /\ delims \in [Delim -> Capture \union {None}]

\* A continuation ends in the frame that halts its barrier.
Bottom(fs, n) == fs # <<>> /\ fs[1] = Halt(n)

Bottoms ==
    /\ Bottom(frames, id)
    /\ \A i \in DOMAIN outer : Bottom(outer[i].frames, outer[i].id)
    /\ \A k \in Cont : conts[k] # None => Bottom(conts[k].frames, conts[k].id)

\* Nested barriers have different ids.
Nested ==
    /\ \A i \in DOMAIN outer : outer[i].id # id
    /\ \A i, j \in DOMAIN outer : outer[i].id = outer[j].id => i = j

\* Frames that pop an element, or push it when they are returned to.
Owner(f) == f.kind \in {"AfterIn", "PopDyn", "PromptBarrier"}

\* No two frames of a continuation own the same element.
Unshared(fs) ==
    \A i, j \in DOMAIN fs :
        Owner(fs[i]) /\ Owner(fs[j]) /\ Mentions(fs[i]) = Mentions(fs[j]) => i = j

Apart ==
    /\ Unshared(frames)
    /\ \A i \in DOMAIN outer : Unshared(outer[i].frames)
    /\ \A k \in Cont : conts[k] # None => Unshared(conts[k].frames)
    /\ \A k \in Delim : delims[k] # None => Unshared(delims[k].frames)

Inv == Typed /\ Bottoms /\ Nested /\ (~Shared => Apart)

LEMMA ElemParts ==
    /\ \A e \in Elem : IsWinder(e) => e.name \in Winder /\ e = Wind(e.name)
    /\ \A e \in Elem : e.kind = "Prompt" => e.barrier \in 0 .. MaxPrompts
BY DEF Elem, IsWinder, Wind, Catch, Redirect, Prompt

LEMMA ElemsMade ==
    /\ \A w \in Winder : Wind(w) \in Elem /\ IsWinder(Wind(w))
    /\ \A h \in Handler : Catch(h) \in Elem /\ ~IsWinder(Catch(h))
    /\ \A p \in Port : Redirect(p) \in Elem /\ ~IsWinder(Redirect(p))
    /\ \A t \in Tag, n \in 0 .. MaxPrompts : Prompt(t, n) \in Elem /\ ~IsWinder(Prompt(t, n))
<1>1. /\ \A w \in Winder : Wind(w) \in Elem
      /\ \A h \in Handler : Catch(h) \in Elem
      /\ \A p \in Port : Redirect(p) \in Elem
      /\ \A t \in Tag, n \in 0 .. MaxPrompts : Prompt(t, n) \in Elem
    BY DEF Elem
<1>2. /\ \A w : IsWinder(Wind(w))
      /\ \A h : ~IsWinder(Catch(h))
      /\ \A p : ~IsWinder(Redirect(p))
      /\ \A t, n : ~IsWinder(Prompt(t, n))
    BY DEF IsWinder, Wind, Catch, Redirect, Prompt
<1> QED
    BY <1>1, <1>2

LEMMA FrameParts ==
    ASSUME NEW f \in Frame
    PROVE  /\ f.kind \in {"PopDyn", "PromptBarrier"} => f.elem \in Elem
           /\ f.kind = "AfterIn" => f.name \in Winder
           /\ f.kind = "unwind" => f.dest \in Stack
           /\ f.kind = "wind" => f.dest \in Stack /\ f.winder \in Winder \union {None}
           /\ f.kind = "unwind_to_prompt" => f.name \in Tag /\ f.saved \in Stack
           /\ f.kind = "wind_delim" => f.rest \in Stack /\ f.winder \in Winder \union {None}
<1>1. CASE f \in PlainFrame
    BY <1>1 DEF PlainFrame, Halt, Jit, AfterIn, AfterOut, PopDyn, Barrier, Unwind, Rewind, UnwindPrompt,
           RewindDelim, UnwindHandler, Reraise
<1>2. CASE f \in OwnerFrame
    BY <1>2 DEF OwnerFrame, Halt, Jit, AfterIn, AfterOut, PopDyn, Barrier, Unwind, Rewind, UnwindPrompt,
           RewindDelim, UnwindHandler, Reraise
<1>3. CASE f \in JumpFrame
    BY <1>3 DEF JumpFrame, Halt, Jit, AfterIn, AfterOut, PopDyn, Barrier, Unwind, Rewind, UnwindPrompt,
           RewindDelim, UnwindHandler, Reraise
<1>4. CASE f \in PromptFrame
    BY <1>4 DEF PromptFrame, Halt, Jit, AfterIn, AfterOut, PopDyn, Barrier, Unwind, Rewind, UnwindPrompt,
           RewindDelim, UnwindHandler, Reraise
<1> QED
    BY <1>1, <1>2, <1>3, <1>4 DEF Frame

LEMMA FramesMade ==
    /\ \A n \in Nat : Halt(n) \in Frame
    /\ Jit \in Frame /\ AfterOut \in Frame /\ UnwindHandler \in Frame /\ Reraise \in Frame
    /\ \A w \in Winder : AfterIn(w) \in Frame
    /\ \A e \in Elem : PopDyn(e) \in Frame /\ Barrier(e) \in Frame
    /\ \A d \in Stack : Unwind(d) \in Frame
    /\ \A d \in Stack, w \in Winder \union {None} : Rewind(d, w) \in Frame /\ RewindDelim(d, w) \in Frame
    /\ \A t \in Tag, d \in Stack : UnwindPrompt(t, d) \in Frame
BY DEF Frame, PlainFrame, OwnerFrame, JumpFrame, PromptFrame

LEMMA FrameKinds ==
    /\ \A n : Halt(n).kind = "Halt"
    /\ Jit.kind = "Jit" /\ AfterOut.kind = "AfterOut"
    /\ UnwindHandler.kind = "unwind_to_exception_handler" /\ Reraise.kind = "reraise_exception"
    /\ \A w : AfterIn(w).kind = "AfterIn"
    /\ \A e : PopDyn(e).kind = "PopDyn" /\ Barrier(e).kind = "PromptBarrier"
    /\ \A d : Unwind(d).kind = "unwind"
    /\ \A d, w : Rewind(d, w).kind = "wind" /\ RewindDelim(d, w).kind = "wind_delim"
    /\ \A t, d : UnwindPrompt(t, d).kind = "unwind_to_prompt"
BY DEF Halt, Jit, AfterIn, AfterOut, PopDyn, Barrier, Unwind, Rewind, UnwindPrompt,
       RewindDelim, UnwindHandler, Reraise

LEMMA EnteredTyped ==
    ASSUME NEW d \in Stack, NEW w \in Winder \union {None}
    PROVE  Entered(d, w) \in Stack
<1>1. CASE w = None
    BY <1>1 DEF Entered
<1>2. CASE w # None
    <2>1. Wind(w) \in Elem
        BY <1>2, ElemsMade
    <2> QED
        BY <1>2, <2>1 DEF Entered, Stack
<1> QED
    BY <1>1, <1>2

----------------------------------------------------------------------------
(* Stacks of frames.                                                        *)

LEMMA SplitTop ==
    ASSUME NEW X, NEW s \in Seq(X), s # <<>>
    PROVE  /\ Last(s) \in X /\ Front(s) \in Seq(X)
           /\ Len(s) \in Nat /\ Len(s) >= 1 /\ Len(Front(s)) = Len(s) - 1
           /\ \A i \in 1 .. Len(s) - 1 : Front(s)[i] = s[i]
           /\ Last(s) = s[Len(s)]
<1>1. PICK n \in Nat : n = Len(s) /\ n # 0 /\ DOMAIN s = 1 .. n
    BY EmptySeq
<1>2. s[n] \in X /\ Last(s) = s[n]
    BY <1>1 DEF Last
<1>3. Front(s) = SubSeq(s, 1, n - 1) /\ n - 1 \in Nat /\ n - 1 <= n
    BY <1>1 DEF Front
<1>4. /\ SubSeq(s, 1, n - 1) \in Seq(X) /\ Len(SubSeq(s, 1, n - 1)) = n - 1
      /\ \A i \in 1 .. n - 1 : SubSeq(s, 1, n - 1)[i] = s[i]
    BY <1>1, <1>3
<1> QED
    BY <1>1, <1>2, <1>3, <1>4

\* A frame that halts is not above another one.
LEMMA HaltIsBottom ==
    ASSUME NEW fs \in Seq(Frame), NEW n, Bottom(fs, n), Last(fs).kind # "Halt"
    PROVE  Len(fs) > 1 /\ Bottom(Front(fs), n)
<1>1. fs # <<>> /\ fs[1] = Halt(n)
    BY DEF Bottom
<1>2. Len(fs) \in Nat /\ Len(fs) >= 1 /\ Last(fs) = fs[Len(fs)]
    BY <1>1, SplitTop
<1>3. PICK n1 \in Nat : n1 = Len(fs)
    BY <1>2
<1>4. n1 = Len(fs) /\ n1 > 1
    <2>1. n1 # 1
        BY <1>1, <1>2, <1>3, FrameKinds
    <2>2. n1 >= 1
        BY <1>2, <1>3
    <2> QED
        BY <1>3, <2>1, <2>2
<1>5. Len(Front(fs)) = n1 - 1 /\ \A i \in 1 .. n1 - 1 : Front(fs)[i] = fs[i]
    BY <1>1, <1>4, SplitTop
<1>6. Front(fs)[1] = fs[1] /\ Len(Front(fs)) # 0
    BY <1>4, <1>5
<1>7. Front(fs) # <<>>
    BY <1>6
<1>8. Front(fs) \in Seq(Frame)
    BY <1>1, SplitTop
<1> QED
    BY <1>1, <1>4, <1>6, <1>7 DEF Bottom

LEMMA BottomBelow ==
    ASSUME NEW fs \in Seq(Frame), NEW gs \in Seq(Frame), NEW n, Bottom(fs, n)
    PROVE  Bottom(fs \o gs, n)
BY DEF Bottom

LEMMA UnsharedPart ==
    ASSUME NEW fs \in Seq(Frame), Unshared(fs), NEW m \in Nat \ {0}, NEW n \in Nat, n <= Len(fs)
    PROVE  Unshared(SubSeq(fs, m, n))
<1> DEFINE gs == SubSeq(fs, m, n)
<1>1. \A i \in DOMAIN gs : m + i - 1 \in DOMAIN fs /\ gs[i] = fs[m + i - 1] /\ i \in Nat
    OBVIOUS
<1> HIDE DEF gs
<1>2. Unshared(gs)
    <2> SUFFICES ASSUME NEW i \in DOMAIN gs, NEW j \in DOMAIN gs,
                        Owner(gs[i]), Owner(gs[j]), Mentions(gs[i]) = Mentions(gs[j])
                 PROVE  i = j
        BY DEF Unshared
    <2>1. m + i - 1 = m + j - 1
        BY <1>1 DEF Unshared
    <2> QED
        BY <1>1, <2>1
<1> QED
    BY <1>2 DEF gs

LEMMA MentionsOne ==
    ASSUME NEW f \in Frame, Owner(f)
    PROVE  \E e : Mentions(f) = {e}
<1>1. CASE f.kind \in {"PopDyn", "PromptBarrier"}
    BY <1>1 DEF Mentions
<1>2. CASE f.kind = "AfterIn"
    BY <1>2 DEF Mentions
<1> QED
    BY <1>1, <1>2 DEF Owner

LEMMA OwnedOf ==
    ASSUME NEW fs \in Seq(Frame), NEW i \in DOMAIN fs
    PROVE  Mentions(fs[i]) \subseteq Owned(fs)
BY DEF Owned, ToSet

LEMMA UnsharedJoin ==
    ASSUME NEW fs \in Seq(Frame), NEW gs \in Seq(Frame), Unshared(fs), Unshared(gs),
           \A i \in DOMAIN gs : Owner(gs[i]) => Mentions(gs[i]) \cap Owned(fs) = {}
    PROVE  Unshared(fs \o gs)
<1> DEFINE hs == fs \o gs
<1>1. PICK m \in Nat : m = Len(fs) /\ DOMAIN fs = 1 .. m
    OBVIOUS
<1>2. PICK n \in Nat : n = Len(gs) /\ DOMAIN gs = 1 .. n
    OBVIOUS
<1>3. DOMAIN hs = 1 .. m + n
    BY <1>1, <1>2
<1>4. \A i \in 1 .. m : hs[i] = fs[i]
    BY <1>1, <1>2
<1>5. \A i \in m + 1 .. m + n : hs[i] = gs[i - m] /\ i - m \in 1 .. n
    BY <1>1, <1>2
<1>6. \A i \in 1 .. m, j \in m + 1 .. m + n :
            ~(Owner(hs[i]) /\ Owner(hs[j]) /\ Mentions(hs[i]) = Mentions(hs[j]))
    <2> SUFFICES ASSUME NEW i \in 1 .. m, NEW j \in m + 1 .. m + n, Owner(fs[i]),
                        Owner(gs[j - m]), Mentions(fs[i]) = Mentions(gs[j - m]), j - m \in 1 .. n
                 PROVE  FALSE
        BY <1>4, <1>5
    <2>1. Mentions(fs[i]) \subseteq Owned(fs) /\ fs[i] \in Frame
        BY <1>1, OwnedOf
    <2>2. PICK e : Mentions(fs[i]) = {e}
        BY <2>1, MentionsOne
    <2> QED
        BY <1>2, <2>1, <2>2
<1>7. \A i, j \in 1 .. m : Owner(hs[i]) /\ Owner(hs[j]) /\ Mentions(hs[i]) = Mentions(hs[j]) => i = j
    BY <1>1, <1>4 DEF Unshared
<1>8. \A i, j \in m + 1 .. m + n :
            Owner(hs[i]) /\ Owner(hs[j]) /\ Mentions(hs[i]) = Mentions(hs[j]) => i = j
    <2> SUFFICES ASSUME NEW i \in m + 1 .. m + n, NEW j \in m + 1 .. m + n,
                        Owner(gs[i - m]), Owner(gs[j - m]), Mentions(gs[i - m]) = Mentions(gs[j - m]),
                        i - m \in 1 .. n, j - m \in 1 .. n
                 PROVE  i = j
        BY <1>5
    <2>1. i - m = j - m
        BY <1>2 DEF Unshared
    <2> QED
        BY <2>1
<1> HIDE DEF hs
<1>9. Unshared(hs)
    <2> SUFFICES ASSUME NEW i \in 1 .. m + n, NEW j \in 1 .. m + n,
                        Owner(hs[i]), Owner(hs[j]), Mentions(hs[i]) = Mentions(hs[j])
                 PROVE  i = j
        BY <1>3 DEF Unshared
    <2>1. (i \in 1 .. m \/ i \in m + 1 .. m + n) /\ (j \in 1 .. m \/ j \in m + 1 .. m + n)
        OBVIOUS
    <2> QED
        BY <1>6, <1>7, <1>8, <2>1
<1> QED
    BY <1>9 DEF hs

LEMMA UnsharedPush ==
    ASSUME NEW fs \in Seq(Frame), Unshared(fs), NEW f \in Frame,
           Owner(f) => Mentions(f) \cap Owned(fs) = {}
    PROVE  Unshared(Append(fs, f))
<1>1. <<f>> \in Seq(Frame) /\ DOMAIN <<f>> = {1} /\ <<f>>[1] = f
    OBVIOUS
<1>2. Unshared(<<f>>)
    BY <1>1 DEF Unshared
<1>3. Unshared(fs \o <<f>>)
    BY <1>1, <1>2, UnsharedJoin
<1>4. fs \o <<f>> = Append(fs, f)
    OBVIOUS
<1> QED
    BY <1>3, <1>4

\* A step that only moves the running continuation and its dynamic stack.
Running ==
    /\ pc' \in {"user", "return"}
    /\ UNCHANGED <<id, outer, conts, delims>>

LEMMA RunningStep ==
    ASSUME Inv, Running, frames' \in Seq(Frame), dyn' \in Stack, Bottom(frames', id),
           ~Shared => Unshared(frames')
    PROVE  Inv'
<1> USE DEF Running
<1>1. Typed'
    BY DEF Inv, Typed
<1>2. Bottoms'
    BY DEF Inv, Bottoms
<1>3. Nested'
    BY DEF Inv, Nested
<1>4. ~Shared => Apart'
    BY DEF Inv, Apart
<1> QED
    BY <1>1, <1>2, <1>3, <1>4 DEF Inv

LEMMA RunningTop ==
    ASSUME Inv
    PROVE  /\ Top \in Frame /\ Below \in Seq(Frame)
           /\ Len(frames) \in Nat /\ Len(frames) >= 1 /\ Len(Below) = Len(frames) - 1
           /\ frames # <<>> /\ Bottom(frames, id)
           /\ \A i \in 1 .. Len(frames) - 1 : Below[i] = frames[i]
           /\ Top = frames[Len(frames)]
<1>1. frames \in Seq(Frame) /\ Bottom(frames, id) /\ frames # <<>>
    BY DEF Inv, Typed, Bottoms, Bottom
<1> QED
    BY <1>1, SplitTop DEF Top, Below

\* A frame is pushed.
LEMMA PushStep ==
    ASSUME Inv, Running, NEW f \in Frame, frames' = Append(frames, f), dyn' \in Stack,
           ~Shared /\ Owner(f) => Mentions(f) \cap Owned(frames) = {}
    PROVE  Inv'
<1>1. frames \in Seq(Frame) /\ Bottom(frames, id)
    BY DEF Inv, Typed, Bottoms
<1>2. frames' \in Seq(Frame)
    BY <1>1
<1>3. Append(frames, f) = frames \o <<f>> /\ <<f>> \in Seq(Frame)
    BY <1>1
<1>4. Bottom(frames', id)
    BY <1>1, <1>3, BottomBelow
<1>5. ~Shared => Unshared(frames')
    BY <1>1, UnsharedPush DEF Inv, Apart
<1> QED
    BY <1>2, <1>4, <1>5, RunningStep

\* The top frame is popped.
LEMMA PopStep ==
    ASSUME Inv, Running, Top.kind # "Halt", frames' = Below, dyn' \in Stack
    PROVE  Inv'
<1>1. frames \in Seq(Frame) /\ Bottom(frames, id) /\ frames # <<>>
    BY RunningTop DEF Inv, Typed
<1>2. Bottom(frames', id)
    BY <1>1, HaltIsBottom DEF Top, Below
<1>3. frames' \in Seq(Frame)
    BY RunningTop
<1>4. PICK n \in Nat : n = Len(frames) - 1 /\ Below = SubSeq(frames, 1, n)
    BY RunningTop DEF Below, Front
<1>5. ~Shared => Unshared(frames')
    BY <1>1, <1>4, UnsharedPart DEF Inv, Apart
<1> QED
    BY <1>2, <1>3, <1>5, RunningStep

\* The top frame is replaced by one that owns nothing, or what it owned.
LEMMA ReplaceStep ==
    ASSUME Inv, Running, Top.kind # "Halt", NEW f \in Frame, frames' = Append(Below, f),
           dyn' \in Stack, Owner(f) => Owner(Top) /\ Mentions(f) = Mentions(Top)
    PROVE  Inv'
<1>1. PICK n \in Nat : n = Len(frames) /\ n >= 1 /\ Len(Below) = n - 1
    BY RunningTop
<1>2. frames \in Seq(Frame) /\ Below \in Seq(Frame) /\ DOMAIN frames = 1 .. n
    BY <1>1, RunningTop DEF Inv, Typed
<1>3. frames' \in Seq(Frame) /\ DOMAIN frames' = 1 .. n
    BY <1>1, <1>2
<1>4. frames'[n] = f /\ Top = frames[n] /\ \A i \in 1 .. n - 1 : frames'[i] = frames[i]
    BY <1>1, <1>2, RunningTop
<1>5. Append(Below, f) = Below \o <<f>> /\ <<f>> \in Seq(Frame)
    BY <1>2
<1>6. Bottom(Below, id)
    BY <1>2, RunningTop, HaltIsBottom DEF Top, Below
<1>7. Bottom(frames', id)
    BY <1>2, <1>5, <1>6, BottomBelow
<1>8. ASSUME Unshared(frames) PROVE Unshared(frames')
    <2>1. \A i \in 1 .. n : Owner(frames'[i]) => Owner(frames[i]) /\ Mentions(frames'[i]) = Mentions(frames[i])
        BY <1>1, <1>4
    <2> QED
        BY <1>2, <1>3, <1>8, <2>1 DEF Unshared
<1>9. ~Shared => Unshared(frames')
    BY <1>8 DEF Inv, Apart
<1> QED
    BY <1>3, <1>7, <1>9, RunningStep

----------------------------------------------------------------------------
(* Fresh ids.                                                               *)

LEMMA ImageFinite ==
    ASSUME NEW S, IsFiniteSet(S), NEW f, DOMAIN f = S
    PROVE  IsFiniteSet({f[x] : x \in S})
<1> DEFINE T == {f[x] : x \in S}
           g == [x \in S |-> f[x]]
<1>1. g \in [S -> T] /\ \A t \in T : \E x \in S : g[x] = t
    OBVIOUS
<1>2. g \in Surjection(S, T)
    BY <1>1 DEF Surjection
<1> HIDE DEF g
<1> QED
    BY <1>2, FS_Surjection

LEMMA ToSetFinite ==
    ASSUME NEW X, NEW s \in Seq(X)
    PROVE  IsFiniteSet(ToSet(s))
<1>1. PICK n \in Nat : DOMAIN s = 1 .. n
    OBVIOUS
<1>2. IsFiniteSet(1 .. n)
    BY FS_Interval
<1> QED
    BY <1>1, <1>2, ImageFinite DEF ToSet

LEMMA BarrierIdsFinite ==
    ASSUME Inv
    PROVE  IsFiniteSet(BarrierIds)
<1>1. IsFiniteSet(ToSet(outer))
    BY ToSetFinite DEF Inv, Typed
<1>2. IsFiniteSet({conts[k] : k \in Cont})
    BY DynamicStateAssumption, ImageFinite DEF Inv, Typed
<1>3. IsFiniteSet(Saved)
    BY <1>2, FS_RemoveElement DEF Saved
<1> DEFINE S == ToSet(outer) \union Saved
           f == [b \in S |-> b.id]
<1>4. IsFiniteSet(S)
    BY <1>1, <1>3, FS_Union
<1>5. {f[b] : b \in S} = {b.id : b \in S}
    OBVIOUS
<1>6. DOMAIN f = S
    OBVIOUS
<1> HIDE DEF f
<1>7. IsFiniteSet({f[b] : b \in S})
    BY <1>4, <1>6, ImageFinite
<1>8. IsFiniteSet({id} \union {b.id : b \in S})
    BY <1>5, <1>7, FS_Singleton, FS_Union
<1> QED
    BY <1>8 DEF BarrierIds

LEMMA MentionsTyped ==
    ASSUME NEW f \in Frame
    PROVE  Mentions(f) \subseteq Elem
<1>1. CASE f.kind \in {"PopDyn", "PromptBarrier"}
    BY <1>1, FrameParts DEF Mentions
<1>2. CASE f.kind = "AfterIn"
    BY <1>2, FrameParts, ElemsMade DEF Mentions
<1>3. CASE f.kind \in {"unwind", "wind"}
    <2>1. f.dest \in Stack /\ Mentions(f) = ToSet(f.dest)
        BY <1>3, FrameParts DEF Mentions
    <2> QED
        BY <2>1 DEF ToSet, Stack
<1>4. CASE f.kind = "unwind_to_prompt"
    <2>1. f.saved \in Stack /\ Mentions(f) = ToSet(f.saved)
        BY <1>4, FrameParts DEF Mentions
    <2> QED
        BY <2>1 DEF ToSet, Stack
<1>5. CASE f.kind = "wind_delim"
    <2>1. Entered(f.rest, f.winder) \in Stack /\ Mentions(f) = ToSet(Entered(f.rest, f.winder))
        BY <1>5, FrameParts, EnteredTyped DEF Mentions
    <2> QED
        BY <2>1 DEF ToSet, Stack
<1>6. CASE f.kind \notin {"PopDyn", "PromptBarrier", "AfterIn", "unwind", "wind",
                          "unwind_to_prompt", "wind_delim"}
    BY <1>6 DEF Mentions
<1> QED
    BY <1>1, <1>2, <1>3, <1>4, <1>5, <1>6

LEMMA OwnedTyped ==
    ASSUME NEW fs \in Seq(Frame)
    PROVE  Owned(fs) \subseteq Elem
BY MentionsTyped DEF Owned, ToSet

LEMMA ContextsTyped ==
    ASSUME Inv
    PROVE  /\ \A b \in Contexts \union Captured : b.frames \in Seq(Frame) /\ b.dyn \in Stack
           /\ [frames |-> frames, dyn |-> dyn] \in Contexts
<1>1. \A b \in ToSet(outer) : b \in Context
    BY DEF Inv, Typed, ToSet
<1>2. Saved \subseteq Context
    BY DEF Saved, Inv, Typed
<1>3. Captured \subseteq Capture
    BY DEF Captured, Inv, Typed
<1>4. frames \in Seq(Frame) /\ dyn \in Stack
    BY DEF Inv, Typed
<1> QED
    BY <1>1, <1>2, <1>3, <1>4 DEF Contexts, Context, Capture

\* What a program may install is mentioned nowhere.
LEMMA NotOwned ==
    ASSUME Inv
    PROVE  /\ Owned(frames) \subseteq Installed /\ Installed \subseteq Elements
           /\ Elements \subseteq Elem
<1>1. Owned(frames) \subseteq Installed
    <2>1. Owned(frames) = Owned([frames |-> frames, dyn |-> dyn].frames)
        OBVIOUS
    <2> QED
        BY <2>1, ContextsTyped DEF Installed
<1>2. \A b \in Contexts \union Captured : ToSet(b.dyn) \subseteq Elem /\ Owned(b.frames) \subseteq Elem
    BY ContextsTyped, OwnedTyped DEF ToSet, Stack
<1> QED
    BY <1>1, <1>2 DEF Installed, Elements

LEMMA PromptIsFresh ==
    ASSUME Inv, Cardinality(PromptIds) < MaxPrompts, NEW tag \in Tag
    PROVE  /\ Prompt(tag, Fresh(PromptIds)) \in Elem
           /\ Prompt(tag, Fresh(PromptIds)) \notin Elements
<1>1. PromptIds \subseteq 0 .. MaxPrompts
    BY NotOwned, ElemParts DEF PromptIds
<1>2. MaxPrompts \in Nat /\ IsFiniteSet(0 .. MaxPrompts)
    BY DynamicStateAssumption, FS_Interval
<1>3. IsFiniteSet(PromptIds)
    BY <1>1, <1>2, FS_Subset
<1>4. Fresh(PromptIds) \notin PromptIds /\ Fresh(PromptIds) \in 0 .. Cardinality(PromptIds)
    BY <1>3, FreshIsNew
<1>5. Cardinality(PromptIds) \in Nat
    BY <1>3, FS_CardinalityType
<1>6. Fresh(PromptIds) \in 0 .. MaxPrompts
    BY <1>2, <1>4, <1>5
<1>7. Prompt(tag, Fresh(PromptIds)) \in Elem
    BY <1>6, ElemsMade
<1>8. Prompt(tag, Fresh(PromptIds)).kind = "Prompt" /\ Prompt(tag, Fresh(PromptIds)).barrier = Fresh(PromptIds)
    BY DEF Prompt
<1>9. Prompt(tag, Fresh(PromptIds)) \notin Elements
    BY <1>4, <1>8 DEF PromptIds
<1> QED
    BY <1>7, <1>9

----------------------------------------------------------------------------
(* Every step preserves Inv: what Scheme code calls.                        *)

LEMMA OwnedNot ==
    ASSUME Inv, NEW f \in Frame, NEW e, Mentions(f) = {e}, Installable(e)
    PROVE  ~Shared => Mentions(f) \cap Owned(frames) = {}
BY NotOwned DEF Installable

LEMMA CallNonTailStep == ASSUME Inv, CallNonTail PROVE Inv'
<1>1. Running /\ frames' = Append(frames, Jit) /\ dyn' = dyn
    BY DEF CallNonTail, Calling, Running
<1>2. dyn' \in Stack /\ Jit \in Frame /\ ~Owner(Jit)
    BY <1>1, FramesMade, FrameKinds DEF Inv, Typed, Owner
<1> QED
    BY <1>1, <1>2, PushStep

LEMMA RaiseStep == ASSUME Inv, Raise PROVE Inv'
<1>1. Running /\ frames' = Append(frames, UnwindHandler) /\ dyn' = dyn
    BY DEF Raise, Running
<1>2. dyn' \in Stack /\ UnwindHandler \in Frame /\ ~Owner(UnwindHandler)
    BY <1>1, FramesMade, FrameKinds DEF Inv, Typed, Owner
<1> QED
    BY <1>1, <1>2, PushStep

LEMMA DynamicWindStep == ASSUME Inv, NEW w \in Winder, DynamicWind(w) PROVE Inv'
<1>1. Running /\ frames' = Append(frames, AfterIn(w)) /\ dyn' = dyn /\ Installable(Wind(w))
    BY DEF DynamicWind, Calling, Running
<1>2. dyn' \in Stack /\ AfterIn(w) \in Frame
    BY <1>1, FramesMade DEF Inv, Typed
<1>3. Mentions(AfterIn(w)) = {Wind(w)}
    BY DEF Mentions, AfterIn
<1>4. ~Shared => Mentions(AfterIn(w)) \cap Owned(frames) = {}
    BY <1>1, <1>2, <1>3, OwnedNot
<1> QED
    BY <1>1, <1>2, <1>4, PushStep

LEMMA WithElementStep == ASSUME Inv, NEW e \in Elem, WithElement(e) PROVE Inv'
<1>1. /\ Running /\ frames' = Append(frames, PopDyn(e)) /\ dyn' = Append(dyn, e)
      /\ Installable(e)
    BY DEF WithElement, Calling, Running
<1>2. dyn' \in Stack /\ PopDyn(e) \in Frame
    BY <1>1, FramesMade DEF Inv, Typed, Stack
<1>3. Mentions(PopDyn(e)) = {e}
    BY DEF Mentions, PopDyn
<1>4. ~Shared => Mentions(PopDyn(e)) \cap Owned(frames) = {}
    BY <1>1, <1>2, <1>3, OwnedNot
<1> QED
    BY <1>1, <1>2, <1>4, PushStep

LEMMA CallWithPromptStep == ASSUME Inv, NEW tag \in Tag, CallWithPrompt(tag) PROVE Inv'
<1> DEFINE e == Prompt(tag, Fresh(PromptIds))
<1>1. /\ Running /\ frames' = Append(frames, Barrier(e)) /\ dyn' = Append(dyn, e)
      /\ Cardinality(PromptIds) < MaxPrompts
    BY DEF CallWithPrompt, Calling, Running
<1>2. e \in Elem /\ e \notin Elements
    BY <1>1, PromptIsFresh
<1> HIDE DEF e
<1>3. dyn' \in Stack /\ Barrier(e) \in Frame
    BY <1>1, <1>2, FramesMade DEF Inv, Typed, Stack
<1>4. Mentions(Barrier(e)) = {e}
    BY DEF Mentions, Barrier
<1>5. Mentions(Barrier(e)) \cap Owned(frames) = {}
    BY <1>2, <1>4, NotOwned
<1> QED
    BY <1>1, <1>3, <1>5, PushStep

LEMMA AbortToPromptStep == ASSUME Inv, NEW tag \in Tag, AbortToPrompt(tag) PROVE Inv'
<1>1. Running /\ frames' = Append(frames, UnwindPrompt(tag, dyn)) /\ dyn' = dyn
    BY DEF AbortToPrompt, Running
<1>2. dyn' \in Stack /\ UnwindPrompt(tag, dyn) \in Frame
    BY <1>1, FramesMade DEF Inv, Typed
<1>3. ~Owner(UnwindPrompt(tag, dyn))
    BY FrameKinds DEF Owner
<1> QED
    BY <1>1, <1>2, <1>3, PushStep

LEMMA CallCCStep == ASSUME Inv, NEW k \in Cont, CallCC(k) PROVE Inv'
<1> DEFINE c == [id |-> id, frames |-> frames, dyn |-> dyn]
<1>1. /\ conts' = [conts EXCEPT ![k] = c] /\ pc \in {"user", "return"}
      /\ UNCHANGED <<id, frames, dyn, pc, outer, delims>>
    BY DEF CallCC, Inv, Typed
<1>2. c \in Context /\ c.id = id /\ c.frames = frames
    BY DEF Inv, Typed, Context
<1> HIDE DEF c
<1>3. /\ conts' \in [Cont -> Context \union {None}]
      /\ \A m \in Cont : conts'[m] = IF m = k THEN c ELSE conts[m]
    BY <1>1, <1>2 DEF Inv, Typed
<1>4. Typed'
    BY <1>1, <1>3 DEF Inv, Typed
<1>5. Bottoms'
    BY <1>1, <1>2, <1>3 DEF Inv, Bottoms
<1>6. Nested'
    BY <1>1 DEF Inv, Nested
<1>7. ~Shared => Apart'
    BY <1>1, <1>2, <1>3 DEF Inv, Apart
<1> QED
    BY <1>4, <1>5, <1>6, <1>7 DEF Inv

LEMMA SavedIs ==
    ASSUME Inv, NEW k \in Cont, conts[k] # None
    PROVE  /\ conts[k].frames \in Seq(Frame) /\ conts[k].dyn \in Stack
           /\ Bottom(conts[k].frames, conts[k].id)
           /\ ~Shared => Unshared(conts[k].frames)
<1>1. conts[k] \in Context
    BY DEF Inv, Typed
<1> QED
    BY <1>1 DEF Inv, Bottoms, Apart, Context

LEMMA EscapeStep == ASSUME Inv, NEW k \in Cont, Escape(k) PROVE Inv'
<1>1. Running /\ dyn' = dyn /\ dyn' \in Stack /\ conts[k] # None
    BY DEF Escape, Running, Inv, Typed
<1>2. CASE conts[k].id = id /\ frames' = Append(conts[k].frames, Unwind(conts[k].dyn))
    <2>1. /\ conts[k].frames \in Seq(Frame) /\ conts[k].dyn \in Stack
          /\ Bottom(conts[k].frames, id) /\ (~Shared => Unshared(conts[k].frames))
        BY <1>1, <1>2, SavedIs
    <2> DEFINE f == Unwind(conts[k].dyn)
    <2>2. f \in Frame /\ ~Owner(f)
        BY <2>1, FramesMade, FrameKinds DEF Owner
    <2> HIDE DEF f
    <2>3. frames' = Append(conts[k].frames, f)
        BY <1>2 DEF f
    <2>4. frames' \in Seq(Frame)
        BY <2>1, <2>2, <2>3
    <2>5. frames' = conts[k].frames \o <<f>> /\ <<f>> \in Seq(Frame)
        BY <2>1, <2>2, <2>3
    <2>6. Bottom(frames', id)
        BY <2>1, <2>5, BottomBelow
    <2>7. ~Shared => Unshared(frames')
        BY <2>1, <2>2, <2>3, UnsharedPush
    <2> QED
        BY <1>1, <2>4, <2>6, <2>7, RunningStep
<1>3. CASE frames' = Append(frames, UnwindHandler)
    <2>1. UnwindHandler \in Frame /\ ~Owner(UnwindHandler)
        BY FramesMade, FrameKinds DEF Owner
    <2> QED
        BY <1>1, <1>3, <2>1, PushStep
<1> QED
    BY <1>2, <1>3 DEF Escape

LEMMA CapturedIs ==
    ASSUME Inv, NEW k \in Delim, delims[k] # None
    PROVE  /\ delims[k].frames \in Seq(Frame) /\ delims[k].dyn \in Stack
           /\ ~Shared => Unshared(delims[k].frames)
<1>1. delims[k] \in Capture
    BY DEF Inv, Typed
<1> QED
    BY <1>1 DEF Inv, Apart, Capture

LEMMA ResumeStep == ASSUME Inv, NEW k \in Delim, Resume(k) PROVE Inv'
<1> DEFINE gs == delims[k].frames
           f == RewindDelim(delims[k].dyn, None)
<1>1. /\ Running /\ dyn' = dyn /\ dyn' \in Stack /\ delims[k] # None
      /\ frames' = frames \o gs \o <<f>>
      /\ ~Shared => (ToSet(delims[k].dyn) \union Owned(gs)) \cap Installed = {}
    BY DEF Resume, Calling, Running, Inv, Typed
<1>2. /\ gs \in Seq(Frame) /\ delims[k].dyn \in Stack /\ (~Shared => Unshared(gs))
    BY <1>1, CapturedIs
<1>3. f \in Frame /\ ~Owner(f)
    BY <1>2, FramesMade, FrameKinds DEF Owner
<1> HIDE DEF gs, f
<1>4. frames \in Seq(Frame) /\ Bottom(frames, id) /\ (~Shared => Unshared(frames))
    BY DEF Inv, Typed, Bottoms, Apart
<1>5. frames' = frames \o (gs \o <<f>>) /\ gs \o <<f>> \in Seq(Frame) /\ frames' \in Seq(Frame)
    BY <1>1, <1>2, <1>3, <1>4
<1>6. Bottom(frames', id)
    BY <1>4, <1>5, BottomBelow
<1>7. frames' = Append(frames \o gs, f) /\ frames \o gs \in Seq(Frame)
    BY <1>1, <1>2, <1>3, <1>4
<1>8. ASSUME ~Shared PROVE Unshared(frames')
    <2>1. \A i \in DOMAIN gs : Mentions(gs[i]) \cap Owned(frames) = {}
        BY <1>1, <1>2, <1>8, OwnedOf, NotOwned
    <2>2. Unshared(frames \o gs)
        BY <1>2, <1>4, <1>8, <2>1, UnsharedJoin
    <2> QED
        BY <1>3, <1>7, <2>2, UnsharedPush
<1> QED
    BY <1>1, <1>5, <1>6, <1>8, RunningStep

LEMMA CallFromRustStep == ASSUME Inv, CallFromRust PROVE Inv' /\ id' # id
<1> DEFINE c == [id |-> id, frames |-> frames, dyn |-> dyn]
<1>1. /\ outer' = Append(outer, c) /\ id' = Fresh(BarrierIds)
      /\ frames' = <<Halt(id')>> /\ dyn' = <<>> /\ UNCHANGED <<pc, conts, delims>>
    BY DEF CallFromRust
<1>2. c \in Context /\ c.id = id /\ c.frames = frames
    BY DEF Inv, Typed, Context
<1> HIDE DEF c
<1>3. id' \in Nat /\ id' \notin BarrierIds
    BY <1>1, BarrierIdsFinite, FreshIsNew
<1>4. \A i \in DOMAIN outer : outer[i].id \in BarrierIds
    BY DEF BarrierIds, ToSet
<1>5. id \in BarrierIds
    BY DEF BarrierIds
<1>6. PICK n \in Nat : n = Len(outer) /\ DOMAIN outer = 1 .. n
    BY DEF Inv, Typed
<1>7. /\ DOMAIN outer' = 1 .. n + 1 /\ outer'[n + 1] = c
      /\ \A i \in 1 .. n : outer'[i] = outer[i]
    BY <1>1, <1>2, <1>6 DEF Inv, Typed
<1>8. \A i \in 1 .. n + 1 : i \in 1 .. n \/ i = n + 1
    BY <1>6
<1>9. Typed'
    <2>1. outer' \in Seq(Context)
        BY <1>1, <1>2 DEF Inv, Typed
    <2>2. frames' \in Seq(Frame) /\ dyn' \in Stack
        BY <1>1, <1>3, FramesMade DEF Stack
    <2> QED
        BY <1>1, <1>3, <2>1, <2>2 DEF Inv, Typed
<1>10. Bottom(frames', id')
    BY <1>1 DEF Bottom
<1>11. Bottoms'
    BY <1>1, <1>2, <1>6, <1>7, <1>8, <1>10 DEF Inv, Bottoms
<1>12. Nested'
    BY <1>2, <1>3, <1>4, <1>5, <1>6, <1>7, <1>8 DEF Inv, Nested
<1>13. ASSUME ~Shared PROVE Apart'
    <2>1. Unshared(frames')
        BY <1>1 DEF Unshared
    <2> QED
        BY <1>1, <1>2, <1>6, <1>7, <1>8, <1>13, <2>1 DEF Inv, Apart
<1> QED
    BY <1>3, <1>5, <1>9, <1>11, <1>12, <1>13 DEF Inv

----------------------------------------------------------------------------
(* Every step preserves Inv: what frames do when they are returned to.      *)

LEMMA DynPart ==
    ASSUME NEW d \in Stack, NEW m \in Nat \ {0}, NEW n \in Nat, n <= Len(d)
    PROVE  SubSeq(d, m, n) \in Stack
BY DEF Stack

LEMMA DynFront == ASSUME NEW d \in Stack PROVE Front(d) \in Stack
<1>1. CASE d = <<>>
    <2>1. Front(d) = <<>>
        BY <1>1 DEF Front
    <2> QED
        BY <2>1 DEF Stack
<1>2. CASE d # <<>>
    BY <1>2, SplitTop DEF Stack
<1> QED
    BY <1>1, <1>2

LEMMA ReturnJitStep == ASSUME Inv, ReturnJit PROVE Inv'
<1>1. Running /\ frames' = Below /\ dyn' = dyn /\ Top.kind # "Halt"
    BY DEF ReturnJit, Running
<1>2. dyn' \in Stack
    BY <1>1 DEF Inv, Typed
<1> QED
    BY <1>1, <1>2, PopStep

LEMMA ReturnOutStep == ASSUME Inv, ReturnOut PROVE Inv'
<1>1. Running /\ frames' = Below /\ dyn' = dyn /\ Top.kind # "Halt"
    BY DEF ReturnOut, Running
<1>2. dyn' \in Stack
    BY <1>1 DEF Inv, Typed
<1> QED
    BY <1>1, <1>2, PopStep

LEMMA ReturnInStep == ASSUME Inv, ReturnIn PROVE Inv'
<1> DEFINE e == Wind(Top.name)
<1>1. /\ Running /\ frames' = Append(Below, PopDyn(e)) /\ dyn' = Append(dyn, e)
      /\ Top.kind = "AfterIn"
    BY DEF ReturnIn, Running
<1>2. e \in Elem
    BY <1>1, RunningTop, FrameParts, ElemsMade
<1>3. Mentions(Top) = {e}
    BY <1>1 DEF Mentions
<1> HIDE DEF e
<1>4. dyn' \in Stack /\ PopDyn(e) \in Frame
    BY <1>1, <1>2, FramesMade DEF Inv, Typed, Stack
<1>5. Mentions(PopDyn(e)) = {e}
    BY DEF Mentions, PopDyn
<1>6. Owner(Top)
    BY <1>1 DEF Owner
<1> QED
    BY <1>1, <1>3, <1>4, <1>5, <1>6, ReplaceStep

LEMMA ReturnPopStep == ASSUME Inv, ReturnPop PROVE Inv'
<1>1. Running /\ dyn' = Front(dyn) /\ Top.kind # "Halt"
    BY DEF ReturnPop, Running
<1>2. dyn' \in Stack
    BY <1>1, DynFront DEF Inv, Typed
<1>3. CASE frames' = Append(Below, AfterOut)
    <2>1. AfterOut \in Frame /\ ~Owner(AfterOut)
        BY FramesMade, FrameKinds DEF Owner
    <2> QED
        BY <1>1, <1>2, <1>3, <2>1, ReplaceStep
<1>4. CASE frames' = Below
    BY <1>1, <1>2, <1>4, PopStep
<1> QED
    BY <1>3, <1>4 DEF ReturnPop

\* The frames stay: an out thunk runs.
LEMMA StayStep ==
    ASSUME Inv, Running, frames' = frames, dyn' \in Stack
    PROVE  Inv'
<1>1. frames \in Seq(Frame) /\ Bottom(frames, id) /\ (~Shared => Unshared(frames))
    BY DEF Inv, Typed, Bottoms, Apart
<1> QED
    BY <1>1, RunningStep

\* Where the winders are that unwind and wind look for.
LEMMA WindersIn ==
    ASSUME NEW d \in Stack, NEW n \in Nat
    PROVE  /\ WindersAbove(d, n) \subseteq 1 .. Len(d) /\ Len(d) \in Nat
           /\ \A i \in WindersAbove(d, n) : i > n /\ IsWinder(d[i]) /\ d[i].name \in Winder
                                            /\ d[i] = Wind(d[i].name)
<1>1. PICK m \in Nat : m = Len(d) /\ DOMAIN d = 1 .. m
    BY DEF Stack
<1>2. \A i \in 1 .. m : d[i] \in Elem
    BY <1>1 DEF Stack
<1>3. WindersAbove(d, n) = {i \in n + 1 .. m : IsWinder(d[i])}
    BY <1>1 DEF WindersAbove
<1>4. \A i \in n + 1 .. m : i \in 1 .. m /\ i > n
    OBVIOUS
<1> QED
    BY <1>1, <1>2, <1>3, <1>4, ElemParts

LEMMA LastWinder ==
    ASSUME NEW d \in Stack
    PROVE  LET w == LastPos(WindersAbove(d, 0)) IN
           /\ w \in 0 .. Len(d)
           /\ w > 0 => IsWinder(d[w])
           /\ \A i \in w + 1 .. Len(d) : ~IsWinder(d[i])
<1> DEFINE w == LastPos(WindersAbove(d, 0))
<1>1. PICK m \in Nat : m = Len(d)
    BY WindersIn
<1>2. WindersAbove(d, 0) \subseteq 1 .. m
    BY <1>1, WindersIn
<1>3. /\ w \in 0 .. m
      /\ w > 0 => w \in WindersAbove(d, 0)
      /\ \A i \in WindersAbove(d, 0) : i <= w
    BY <1>2, LastPosIs
<1> HIDE DEF w
<1>4. \A i \in w + 1 .. m : ~IsWinder(d[i])
    <2> SUFFICES ASSUME NEW i \in w + 1 .. m, IsWinder(d[i]) PROVE FALSE
        OBVIOUS
    <2>1. i \in 0 + 1 .. m
        BY <1>3
    <2>2. i \in WindersAbove(d, 0)
        BY <1>1, <2>1 DEF WindersAbove
    <2> QED
        BY <1>3, <2>2
<1>5. w > 0 => IsWinder(d[w])
    BY <1>3, WindersIn
<1> QED
    BY <1>1, <1>3, <1>4, <1>5 DEF w

LEMMA FirstWinder ==
    ASSUME NEW d \in Stack, NEW n \in Nat
    PROVE  LET w == FirstPos(d, WindersAbove(d, n)) IN
           /\ w \in 1 .. Len(d) + 1
           /\ w <= Len(d) => w > n /\ IsWinder(d[w]) /\ d[w].name \in Winder /\ d[w] = Wind(d[w].name)
           /\ \A i \in n + 1 .. w - 1 : ~IsWinder(d[i])
<1> DEFINE w == FirstPos(d, WindersAbove(d, n))
<1>1. PICK m \in Nat : m = Len(d)
    BY WindersIn
<1>2. WindersAbove(d, n) \subseteq 1 .. Len(d) /\ d \in Seq(Elem)
    BY WindersIn DEF Stack
<1>3. /\ w \in 1 .. m + 1
      /\ w <= m => w \in WindersAbove(d, n)
      /\ \A i \in WindersAbove(d, n) : i >= w
    BY <1>1, <1>2, FirstPosIs
<1> HIDE DEF w
<1>4. \A i \in n + 1 .. w - 1 : ~IsWinder(d[i])
    <2> SUFFICES ASSUME NEW i \in n + 1 .. w - 1, IsWinder(d[i]) PROVE FALSE
        OBVIOUS
    <2>1. i \in n + 1 .. m /\ i < w
        BY <1>3
    <2>2. i \in WindersAbove(d, n)
        BY <1>1, <2>1 DEF WindersAbove
    <2> QED
        BY <1>3, <2>1, <2>2
<1>5. w <= m => w > n /\ IsWinder(d[w]) /\ d[w].name \in Winder /\ d[w] = Wind(d[w].name)
    BY <1>3, WindersIn
<1> QED
    BY <1>1, <1>3, <1>4, <1>5 DEF w

LEMMA UnwindToIs ==
    ASSUME NEW d \in Stack, NEW dest
    PROVE  /\ UnwindTo(d, dest) \in 0 .. Len(d)
           /\ Stops(d, dest, UnwindTo(d, dest))
           /\ \A n \in 0 .. Len(d) : Stops(d, dest, n) => n <= UnwindTo(d, dest)
<1>1. PICK m \in Nat : m = Len(d)
    BY DEF Stack
<1> DEFINE S == {n \in 0 .. m : Stops(d, dest, n)}
<1>2. 0 \in S
    BY DEF Stops
<1>3. S \subseteq 0 .. m /\ S # {}
    BY <1>2
<1>4. Max(S) \in S /\ \A y \in S : y <= Max(S)
    BY <1>3, MaxOf
<1>5. UnwindTo(d, dest) = Max(S)
    BY <1>1 DEF UnwindTo
<1>6. Max(S) \in 0 .. m /\ Stops(d, dest, Max(S))
    BY <1>4
<1>7. \A n \in 0 .. m : Stops(d, dest, n) => n <= Max(S)
    BY <1>4
<1> QED
    BY <1>1, <1>5, <1>6, <1>7

LEMMA ReturnUnwindStep == ASSUME Inv, ReturnUnwind PROVE Inv'
<1> DEFINE stop == UnwindTo(dyn, Top.dest)
           w == LastPos(WindersAbove(dyn, 0))
<1>1. Running /\ Top.kind = "unwind" /\ Top.kind # "Halt"
    BY DEF ReturnUnwind, Running
<1>2. Top \in Frame /\ Top.dest \in Stack /\ dyn \in Stack
    BY <1>1, RunningTop, FrameParts DEF Inv, Typed
<1>3. stop \in 0 .. Len(dyn) /\ w \in 0 .. Len(dyn) /\ Len(dyn) \in Nat
    BY <1>2, UnwindToIs, LastWinder, WindersIn
<1>4. \/ w > stop /\ dyn' = Take(dyn, w - 1) /\ frames' = frames
      \/ w <= stop /\ dyn' = Take(dyn, stop) /\ frames' = Append(Below, Rewind(Top.dest, None))
    BY DEF ReturnUnwind
<1> HIDE DEF stop, w
<1>5. CASE w > stop /\ dyn' = Take(dyn, w - 1) /\ frames' = frames
    <2>1. w - 1 \in Nat /\ w - 1 <= Len(dyn)
        BY <1>3, <1>5
    <2>2. dyn' \in Stack
        BY <1>2, <1>5, <2>1, DynPart DEF Take
    <2> QED
        BY <1>1, <1>5, <2>2, StayStep
<1>6. CASE dyn' = Take(dyn, stop) /\ frames' = Append(Below, Rewind(Top.dest, None))
    <2>1. dyn' \in Stack
        BY <1>2, <1>3, <1>6, DynPart DEF Take
    <2>2. Rewind(Top.dest, None) \in Frame /\ ~Owner(Rewind(Top.dest, None))
        BY <1>2, FramesMade, FrameKinds DEF Owner
    <2> QED
        BY <1>1, <1>6, <2>1, <2>2, ReplaceStep
<1> QED
    BY <1>4, <1>5, <1>6

LEMMA StackJoin == ASSUME NEW d \in Stack, NEW e \in Stack PROVE d \o e \in Stack
BY DEF Stack

LEMMA ReturnWindStep == ASSUME Inv, ReturnWind PROVE Inv'
<1> DEFINE dest == Top.dest
           now == Entered(dyn, Top.winder)
           w == FirstPos(dest, WindersAbove(dest, Len(now)))
<1>1. Running /\ Top.kind = "wind" /\ Top.kind # "Halt"
    BY DEF ReturnWind, Running
<1>2. dest \in Stack /\ Top.winder \in Winder \union {None} /\ dyn \in Stack
    BY <1>1, RunningTop, FrameParts DEF Inv, Typed
<1>3. now \in Stack /\ Len(now) \in Nat
    BY <1>2, EnteredTyped DEF Stack
<1>4. /\ dyn' = now \o SubSeq(dest, Len(now) + 1, w - 1)
      /\ \/ w <= Len(dest) /\ frames' = Append(Below, Rewind(dest, dest[w].name))
         \/ frames' = Below
    BY DEF ReturnWind
<1> HIDE DEF dest, now
<1>5. w \in 1 .. Len(dest) + 1 /\ (w <= Len(dest) => dest[w].name \in Winder) /\ Len(dest) \in Nat
    BY <1>2, <1>3, FirstWinder, WindersIn
<1> HIDE DEF w
<1>6. w - 1 \in Nat /\ w - 1 <= Len(dest) /\ Len(now) + 1 \in Nat \ {0}
    BY <1>3, <1>5
<1>7. dyn' \in Stack
    BY <1>2, <1>3, <1>4, <1>6, DynPart, StackJoin
<1>8. CASE frames' = Below
    BY <1>1, <1>7, <1>8, PopStep
<1>9. CASE w <= Len(dest) /\ frames' = Append(Below, Rewind(dest, dest[w].name))
    <2>1. Rewind(dest, dest[w].name) \in Frame /\ ~Owner(Rewind(dest, dest[w].name))
        BY <1>2, <1>5, <1>9, FramesMade, FrameKinds DEF Owner
    <2> QED
        BY <1>1, <1>7, <1>9, <2>1, ReplaceStep
<1> QED
    BY <1>4, <1>8, <1>9

LEMMA ReturnWindDelimStep == ASSUME Inv, ReturnWindDelim PROVE Inv'
<1> DEFINE rest == Top.rest
           now == Entered(dyn, Top.winder)
           w == FirstPos(rest, WindersAbove(rest, 0))
<1>1. Running /\ Top.kind = "wind_delim" /\ Top.kind # "Halt"
    BY DEF ReturnWindDelim, Running
<1>2. rest \in Stack /\ Top.winder \in Winder \union {None} /\ dyn \in Stack
    BY <1>1, RunningTop, FrameParts DEF Inv, Typed
<1>3. now \in Stack
    BY <1>2, EnteredTyped
<1>4. /\ dyn' = now \o Take(rest, w - 1)
      /\ \/ w <= Len(rest) /\ frames' = Append(Below, RewindDelim(From(rest, w + 1), rest[w].name))
         \/ frames' = Below
    BY DEF ReturnWindDelim
<1> HIDE DEF rest, now
<1>5. w \in 1 .. Len(rest) + 1 /\ (w <= Len(rest) => rest[w].name \in Winder) /\ Len(rest) \in Nat
    BY <1>2, <1>3, FirstWinder, WindersIn
<1> HIDE DEF w
<1>6. w - 1 \in Nat /\ w - 1 <= Len(rest) /\ w + 1 \in Nat \ {0}
    BY <1>5
<1>7. dyn' \in Stack
    BY <1>2, <1>3, <1>4, <1>6, DynPart, StackJoin DEF Take
<1>8. CASE frames' = Below
    BY <1>1, <1>7, <1>8, PopStep
<1>9. CASE w <= Len(rest) /\ frames' = Append(Below, RewindDelim(From(rest, w + 1), rest[w].name))
    <2> DEFINE f == RewindDelim(From(rest, w + 1), rest[w].name)
    <2>1. From(rest, w + 1) \in Stack
        BY <1>2, <1>5, <1>6, DynPart DEF From
    <2>2. f \in Frame /\ ~Owner(f)
        BY <1>5, <1>9, <2>1, FramesMade, FrameKinds DEF Owner
    <2> HIDE DEF f
    <2>3. frames' = Append(Below, f)
        BY <1>9 DEF f
    <2> QED
        BY <1>1, <1>7, <2>2, <2>3, ReplaceStep
<1> QED
    BY <1>4, <1>8, <1>9

\* The running barrier ends; the one that is running next has another id.
LEMMA EndBarrierStep ==
    ASSUME Inv, NEW failed \in BOOLEAN, EndBarrier(failed)
    PROVE  Inv' /\ id' # id
<1>1. CASE outer # <<>>
    <2> DEFINE c == Last(outer)
               gs == IF failed THEN <<UnwindHandler>> ELSE <<>>
    <2>1. /\ id' = c.id /\ dyn' = c.dyn /\ frames' = c.frames \o gs
          /\ outer' = Front(outer) /\ pc' = "return" /\ UNCHANGED <<conts, delims>>
        BY <1>1 DEF EndBarrier
    <2>2. outer \in Seq(Context)
        BY DEF Inv, Typed
    <2>3. PICK n \in Nat : n = Len(outer) /\ n >= 1 /\ DOMAIN outer = 1 .. n
        BY <1>1, <2>2, SplitTop
    <2>4. /\ c = outer[n] /\ c \in Context /\ outer' \in Seq(Context) /\ Len(outer') = n - 1
          /\ \A i \in 1 .. n - 1 : outer'[i] = outer[i]
        BY <1>1, <2>1, <2>2, <2>3, SplitTop
    <2>5. DOMAIN outer' = 1 .. n - 1
        BY <2>3, <2>4
    <2>6. n \in 1 .. n /\ \A i \in 1 .. n - 1 : i \in 1 .. n /\ i # n
        BY <2>3
    <2>7. gs \in Seq(Frame) /\ \A i \in DOMAIN gs : ~Owner(gs[i])
        <3>1. CASE failed
            <4>1. gs = <<UnwindHandler>> /\ DOMAIN gs = {1} /\ gs[1] = UnwindHandler
                BY <3>1
            <4> QED
                BY <4>1, FramesMade, FrameKinds DEF Owner
        <3>2. CASE ~failed
            BY <3>2
        <3> QED
            BY <3>1, <3>2
    <2>8. c.frames \in Seq(Frame) /\ c.dyn \in Stack /\ c.id \in Nat
        BY <2>4 DEF Context
    <2>9. Bottom(c.frames, c.id) /\ (~Shared => Unshared(c.frames))
        BY <2>3, <2>4, <2>6 DEF Inv, Bottoms, Apart
    <2> HIDE DEF c, gs
    <2>10. c.frames \o gs \in Seq(Frame) /\ Bottom(c.frames \o gs, c.id)
        BY <2>7, <2>8, <2>9, BottomBelow
    <2>11. ~Shared => Unshared(c.frames \o gs)
        <3>1. Unshared(gs)
            BY <2>7 DEF Unshared
        <3> QED
            BY <2>7, <2>8, <2>9, <3>1, UnsharedJoin
    <2>12. Typed'
        BY <2>1, <2>4, <2>8, <2>10 DEF Inv, Typed
    <2>13. Bottoms'
        BY <2>1, <2>3, <2>4, <2>5, <2>6, <2>10 DEF Inv, Bottoms
    <2>14. \A i, j \in 1 .. n : outer[i].id = outer[j].id => i = j
        BY <2>3 DEF Inv, Nested
    <2>15. Nested'
        <3>1. \A i \in 1 .. n - 1 : outer'[i].id # id'
            BY <2>1, <2>4, <2>6, <2>14
        <3>2. \A i, j \in 1 .. n - 1 : outer'[i].id = outer'[j].id => i = j
            BY <2>4, <2>6, <2>14
        <3> QED
            BY <2>5, <3>1, <3>2 DEF Nested
    <2>16. ~Shared => Apart'
        BY <2>1, <2>3, <2>4, <2>5, <2>6, <2>11 DEF Inv, Apart
    <2>17. id' # id
        BY <2>1, <2>3, <2>4, <2>6 DEF Inv, Nested
    <2> QED
        BY <2>12, <2>13, <2>15, <2>16, <2>17 DEF Inv
<1>2. CASE outer = <<>>
    <2>1. /\ id' = Fresh(BarrierIds) /\ dyn' = <<>> /\ pc' = "user" /\ frames' = <<Halt(id')>>
          /\ UNCHANGED <<outer, conts, delims>>
        BY <1>2 DEF EndBarrier
    <2>2. id' \in Nat /\ id' # id
        BY <2>1, BarrierIdsFinite, FreshIsNew DEF BarrierIds
    <2>3. DOMAIN outer = {}
        BY <1>2
    <2>4. Typed'
        <3>1. frames' \in Seq(Frame) /\ dyn' \in Stack
            BY <2>1, <2>2, FramesMade DEF Stack
        <3> QED
            BY <2>1, <2>2, <3>1 DEF Inv, Typed
    <2>5. Bottom(frames', id') /\ Unshared(frames')
        BY <2>1 DEF Bottom, Unshared
    <2>6. Bottoms' /\ Nested'
        BY <2>1, <2>3, <2>5 DEF Inv, Bottoms, Nested
    <2>7. ~Shared => Apart'
        BY <2>1, <2>5 DEF Inv, Apart
    <2> QED
        BY <2>2, <2>4, <2>6, <2>7 DEF Inv
<1> QED
    BY <1>1, <1>2

\* What an abort captures starts above the barrier of its prompt.
LEMMA SplitAtStep ==
    ASSUME Inv, NEW n \in Nat, n > 0, n <= Len(dyn), Top.kind = "unwind_to_prompt", SplitAt(n)
    PROVE  /\ Inv' /\ Len(dyn') = n - 1 /\ id' = id
           /\ ~Shared => \A k \in Delim : delims'[k] # delims[k] =>
                 Barrier(dyn[n]) \notin ToSet(delims'[k].frames)
<1> DEFINE g == Barrier(dyn[n])
           b == FirstPos(Below, PositionsOf(Below, g))
           saved == Top.saved
<1>1. /\ b <= Len(Below) /\ n <= Len(saved)
      /\ frames' = Take(Below, b - 1) /\ pc' = "user" /\ dyn' = Take(dyn, n - 1)
      /\ UNCHANGED <<id, outer, conts>>
    BY DEF SplitAt
<1>2. PICK k \in Delim :
          delims' = [delims EXCEPT ![k] = [frames |-> From(Below, b + 1), dyn |-> From(saved, n + 1)]]
    BY DEF SplitAt
<1>3. saved \in Stack /\ dyn \in Stack /\ frames \in Seq(Frame) /\ Below \in Seq(Frame)
    BY RunningTop, FrameParts DEF Inv, Typed
<1> HIDE DEF saved
<1>4. PICK m \in Nat : m = Len(Below)
    BY <1>3
<1>5. PositionsOf(Below, g) \subseteq 1 .. Len(Below) /\ \A i \in PositionsOf(Below, g) : Below[i] = g
    BY <1>3 DEF PositionsOf
<1>6. b \in 1 .. m + 1 /\ (b <= m => b \in PositionsOf(Below, g))
    BY <1>3, <1>4, <1>5, FirstPosIs
<1>7. b \in 1 .. m /\ Below[b] = g
    BY <1>1, <1>4, <1>5, <1>6
<1>8. Below = SubSeq(frames, 1, m) /\ m <= Len(frames)
    BY <1>4, RunningTop DEF Below, Front
<1>9. Bottom(Below, id) /\ (~Shared => Unshared(Below))
    <2>1. Bottom(Below, id)
        BY <1>3, RunningTop, HaltIsBottom DEF Top, Below
    <2>2. ~Shared => Unshared(Below)
        BY <1>3, <1>8, UnsharedPart DEF Inv, Apart
    <2> QED
        BY <2>1, <2>2
<1>10. g.kind = "PromptBarrier" /\ Owner(g) /\ Below[1].kind = "Halt"
    BY <1>9, FrameKinds DEF Owner, Bottom
<1> HIDE DEF g, b
<1>11. b # 1 /\ b - 1 \in Nat /\ b - 1 <= m /\ b - 1 >= 1 /\ b + 1 \in Nat \ {0}
    BY <1>7, <1>10
<1>12. frames' \in Seq(Frame) /\ Len(frames') = b - 1 /\ frames'[1] = Below[1]
    BY <1>1, <1>3, <1>4, <1>11 DEF Take
<1>13. Bottom(frames', id)
    <2>1. frames' # <<>>
        BY <1>11, <1>12
    <2> QED
        BY <1>9, <1>12, <2>1 DEF Bottom
<1>14. ~Shared => Unshared(frames')
    BY <1>1, <1>3, <1>4, <1>9, <1>11, UnsharedPart DEF Take
<1>15. n - 1 \in Nat /\ n - 1 <= Len(dyn) /\ Len(dyn) \in Nat /\ Len(saved) \in Nat /\ n + 1 \in Nat \ {0}
    BY <1>3, WindersIn
<1>16. dyn' \in Stack /\ Len(dyn') = n - 1
    BY <1>1, <1>3, <1>15 DEF Take, Stack
<1> DEFINE gs == From(Below, b + 1)
           c == [frames |-> gs, dyn |-> From(saved, n + 1)]
<1>17. From(saved, n + 1) \in Stack
    BY <1>3, <1>15, DynPart DEF From
<1>18. /\ gs \in Seq(Frame) /\ (~Shared => Unshared(gs))
       /\ \A i \in DOMAIN gs : b + i \in 1 .. m /\ gs[i] = Below[b + i] /\ i \in Nat \ {0}
    <2>1. gs = SubSeq(Below, b + 1, m)
        BY <1>4 DEF From
    <2> HIDE DEF gs, c
    <2>2. gs \in Seq(Frame) /\ \A i \in DOMAIN gs : b + i \in 1 .. m /\ gs[i] = Below[b + i] /\ i \in Nat \ {0}
        <3>1. PICK b1 \in 1 .. m : b1 = b
            BY <1>7
        <3>2. gs = SubSeq(Below, b1 + 1, m)
            BY <2>1, <3>1
        <3>3. Below \in Seq(Frame) /\ m = Len(Below)
            BY <1>3, <1>4
        <3>4. gs \in Seq(Frame) /\ \A i \in DOMAIN gs : b1 + i \in 1 .. m /\ gs[i] = Below[b1 + i] /\ i \in Nat \ {0}
            <4>1. gs \in Seq(Frame) /\ Len(gs) = m - b1
                BY <3>2, <3>3
            <4>2. DOMAIN gs = 1 .. m - b1
                BY <4>1
            <4>3. \A i \in 1 .. m - b1 : gs[i] = Below[b1 + i] /\ b1 + i \in 1 .. m
                BY <3>2, <3>3
            <4> QED
                BY <4>1, <4>2, <4>3
        <3> QED
            BY <3>1, <3>4
    <2>3. ~Shared => Unshared(gs)
        <3>1. m \in Nat /\ m <= Len(Below)
            BY <1>4
        <3> QED
            BY <1>3, <1>9, <1>11, <2>1, <3>1, UnsharedPart
    <2> QED
        BY <2>2, <2>3
<1>19. delims' = [delims EXCEPT ![k] = c]
    BY <1>2
<1>20. c \in Capture /\ c.frames = gs
    BY <1>17, <1>18 DEF Capture
<1> HIDE DEF c, gs
<1>21. /\ delims' \in [Delim -> Capture \union {None}]
       /\ \A l \in Delim : delims'[l] = IF l = k THEN c ELSE delims[l]
    BY <1>19, <1>20 DEF Inv, Typed
<1>22. Typed'
    BY <1>1, <1>12, <1>16, <1>21 DEF Inv, Typed
<1>23. Bottoms' /\ Nested'
    BY <1>1, <1>13 DEF Inv, Bottoms, Nested
<1>24. ~Shared => Apart'
    BY <1>1, <1>14, <1>18, <1>20, <1>21 DEF Inv, Apart
<1>25. ASSUME ~Shared PROVE g \notin ToSet(gs)
    <2> SUFFICES ASSUME NEW i \in DOMAIN gs, gs[i] = g PROVE FALSE
        BY DEF ToSet
    <2>1. b + i \in 1 .. m /\ Below[b + i] = g /\ i \in Nat \ {0}
        BY <1>18
    <2>2. DOMAIN Below = 1 .. m
        BY <1>3, <1>4
    <2>3. b + i = b
        BY <1>7, <1>9, <1>10, <1>25, <2>1, <2>2 DEF Unshared
    <2> QED
        BY <1>7, <2>1, <2>3
<1>26. ~Shared => \A l \in Delim : delims'[l] # delims[l] => g \notin ToSet(delims'[l].frames)
    BY <1>20, <1>21, <1>25
<1> QED
    BY <1>1, <1>16, <1>22, <1>23, <1>24, <1>26 DEF g, Inv

LEMMA ReturnHaltStep == ASSUME Inv, ReturnHalt PROVE Inv' /\ id' # id
BY EndBarrierStep DEF ReturnHalt

\* Where unwind_to_prompt and unwind_to_exception_handler stop next.
PromptStop(tag) ==
    LastPos({i \in 1 .. Len(dyn) : IsWinder(dyn[i]) \/ (dyn[i].kind = "Prompt" /\ dyn[i].name = tag)})
HandlerStop ==
    LastPos({i \in 1 .. Len(dyn) : IsWinder(dyn[i]) \/ dyn[i].kind = "ExceptionHandler"})

LEMMA StopIs ==
    ASSUME Inv, NEW S \in SUBSET (1 .. Len(dyn)), WindersAbove(dyn, 0) \subseteq S
    PROVE  /\ LastPos(S) \in 0 .. Len(dyn) /\ Len(dyn) \in Nat
           /\ \A i \in LastPos(S) + 1 .. Len(dyn) : ~IsWinder(dyn[i])
<1>1. PICK m \in Nat : m = Len(dyn)
    BY DEF Inv, Typed, Stack
<1>2. S \subseteq 1 .. m
    BY <1>1
<1>3. PICK w \in 0 .. m : w = LastPos(S) /\ \A i \in S : i <= w
    BY <1>2, LastPosIs
<1>4. ASSUME NEW i \in w + 1 .. m, IsWinder(dyn[i]) PROVE FALSE
    <2>1. i \in 0 + 1 .. m /\ i > w
        OBVIOUS
    <2>2. i \in WindersAbove(dyn, 0)
        BY <1>1, <1>4, <2>1 DEF WindersAbove
    <2> QED
        BY <1>3, <2>1, <2>2
<1> QED
    BY <1>1, <1>3, <1>4

LEMMA PromptStopIs ==
    ASSUME Inv, NEW tag
    PROVE  /\ PromptStop(tag) \in 0 .. Len(dyn) /\ Len(dyn) \in Nat
           /\ \A i \in PromptStop(tag) + 1 .. Len(dyn) : ~IsWinder(dyn[i])
<1> DEFINE S == {i \in 1 .. Len(dyn) : IsWinder(dyn[i]) \/ (dyn[i].kind = "Prompt" /\ dyn[i].name = tag)}
<1>1. S \in SUBSET (1 .. Len(dyn)) /\ WindersAbove(dyn, 0) \subseteq S
    BY DEF WindersAbove, Inv, Typed, Stack
<1>2. PromptStop(tag) = LastPos(S)
    BY DEF PromptStop
<1> HIDE DEF S
<1> QED
    BY <1>1, <1>2, StopIs

LEMMA HandlerStopIs ==
    ASSUME Inv
    PROVE  /\ HandlerStop \in 0 .. Len(dyn) /\ Len(dyn) \in Nat
           /\ \A i \in HandlerStop + 1 .. Len(dyn) : ~IsWinder(dyn[i])
<1> DEFINE S == {i \in 1 .. Len(dyn) : IsWinder(dyn[i]) \/ dyn[i].kind = "ExceptionHandler"}
<1>1. S \in SUBSET (1 .. Len(dyn)) /\ WindersAbove(dyn, 0) \subseteq S
    BY DEF WindersAbove, Inv, Typed, Stack
<1>2. HandlerStop = LastPos(S)
    BY DEF HandlerStop
<1> HIDE DEF S
<1> QED
    BY <1>1, <1>2, StopIs

LEMMA PromptCases ==
    ASSUME ReturnUnwindPrompt
    PROVE  /\ Top.kind = "unwind_to_prompt"
           /\ \/ PromptStop(Top.name) = 0 /\ EndBarrier(TRUE)
              \/ /\ PromptStop(Top.name) > 0 /\ IsWinder(dyn[PromptStop(Top.name)])
                 /\ dyn' = Take(dyn, PromptStop(Top.name) - 1) /\ frames' = frames /\ pc' = "user"
                 /\ UNCHANGED <<id, outer, conts, delims>>
              \/ /\ PromptStop(Top.name) > 0 /\ ~IsWinder(dyn[PromptStop(Top.name)])
                 /\ SplitAt(PromptStop(Top.name))
BY DEF ReturnUnwindPrompt, PromptStop

LEMMA HandlerCases ==
    ASSUME ReturnUnwindHandler
    PROVE  /\ Top.kind = "unwind_to_exception_handler"
           /\ \/ HandlerStop = 0 /\ EndBarrier(TRUE)
              \/ /\ HandlerStop > 0 /\ dyn' = Take(dyn, HandlerStop - 1) /\ pc' = "user"
                 /\ frames' = IF IsWinder(dyn[HandlerStop]) THEN frames ELSE Append(Below, Reraise)
                 /\ UNCHANGED <<id, outer, conts, delims>>
BY DEF ReturnUnwindHandler, HandlerStop

LEMMA ReturnUnwindPromptStep == ASSUME Inv, ReturnUnwindPrompt PROVE Inv'
<1> DEFINE n == PromptStop(Top.name)
<1>1. Top.kind = "unwind_to_prompt" /\ n \in 0 .. Len(dyn) /\ Len(dyn) \in Nat /\ dyn \in Stack
    BY PromptCases, PromptStopIs DEF Inv, Typed
<1>2. CASE EndBarrier(TRUE)
    BY <1>2, EndBarrierStep
<1>3. CASE /\ n > 0 /\ dyn' = Take(dyn, n - 1) /\ frames' = frames /\ pc' = "user"
           /\ UNCHANGED <<id, outer, conts, delims>>
    <2>1. n - 1 \in Nat /\ n - 1 <= Len(dyn)
        BY <1>1, <1>3
    <2>2. dyn' \in Stack
        BY <1>1, <1>3, <2>1, DynPart DEF Take
    <2>3. Running
        BY <1>3 DEF Running
    <2> QED
        BY <1>3, <2>2, <2>3, StayStep
<1>4. CASE n > 0 /\ SplitAt(n)
    <2>1. n \in Nat /\ n <= Len(dyn)
        BY <1>1
    <2> HIDE DEF n
    <2> QED
        BY <1>1, <1>4, <2>1, SplitAtStep
<1> QED
    BY <1>2, <1>3, <1>4, PromptCases

LEMMA ReturnUnwindHandlerStep == ASSUME Inv, ReturnUnwindHandler PROVE Inv'
<1>1. /\ Top.kind = "unwind_to_exception_handler" /\ HandlerStop \in 0 .. Len(dyn) /\ Len(dyn) \in Nat
      /\ dyn \in Stack
    BY HandlerCases, HandlerStopIs DEF Inv, Typed
<1>2. CASE EndBarrier(TRUE)
    BY <1>2, EndBarrierStep
<1>3. CASE /\ HandlerStop > 0 /\ dyn' = Take(dyn, HandlerStop - 1) /\ pc' = "user"
           /\ frames' = IF IsWinder(dyn[HandlerStop]) THEN frames ELSE Append(Below, Reraise)
           /\ UNCHANGED <<id, outer, conts, delims>>
    <2>1. HandlerStop - 1 \in Nat /\ HandlerStop - 1 <= Len(dyn)
        BY <1>1, <1>3
    <2>2. dyn' \in Stack
        BY <1>1, <1>3, <2>1, DynPart DEF Take
    <2>3. Running /\ Top.kind # "Halt"
        BY <1>1, <1>3 DEF Running
    <2>4. CASE frames' = frames
        BY <2>2, <2>3, <2>4, StayStep
    <2>5. CASE frames' = Append(Below, Reraise)
        <3>1. Reraise \in Frame /\ ~Owner(Reraise)
            BY FramesMade, FrameKinds DEF Owner
        <3> QED
            BY <2>2, <2>3, <2>5, <3>1, ReplaceStep
    <2> QED
        BY <1>3, <2>4, <2>5
<1> QED
    BY <1>2, <1>3, HandlerCases

LEMMA ReturnReraiseStep == ASSUME Inv, ReturnReraise PROVE Inv'
<1>1. Running /\ frames' = Append(Below, UnwindHandler) /\ dyn' = dyn /\ Top.kind # "Halt"
    BY DEF ReturnReraise, Running
<1>2. UnwindHandler \in Frame /\ ~Owner(UnwindHandler) /\ dyn' \in Stack
    BY <1>1, FramesMade, FrameKinds DEF Owner, Inv, Typed
<1> QED
    BY <1>1, <1>2, ReplaceStep

LEMMA Initially == Init => Inv
<1> SUFFICES ASSUME Init PROVE Inv
    OBVIOUS
<1>1. Typed
    <2>1. frames \in Seq(Frame)
        BY FramesMade DEF Init
    <2> QED
        BY <2>1 DEF Init, Typed, Stack
<1>2. Bottoms /\ Nested
    BY DEF Init, Bottoms, Bottom, Nested
<1>3. Apart
    BY DEF Init, Apart, Unshared
<1> QED
    BY <1>1, <1>2, <1>3 DEF Inv

LEMMA Kept == Inv /\ [Next]_vars => Inv'
<1> SUFFICES ASSUME Inv, [Next]_vars PROVE Inv'
    OBVIOUS
<1>1. CASE Call
    BY <1>1, CallNonTailStep, RaiseStep, CallFromRustStep, DynamicWindStep, WithElementStep,
       CallWithPromptStep, AbortToPromptStep, CallCCStep, EscapeStep, ResumeStep, ElemsMade DEF Call
<1>2. CASE Return
    BY <1>2, ReturnJitStep, ReturnInStep, ReturnPopStep, ReturnOutStep, ReturnHaltStep,
       ReturnUnwindStep, ReturnWindStep, ReturnWindDelimStep, ReturnUnwindPromptStep,
       ReturnUnwindHandlerStep, ReturnReraiseStep DEF Return
<1>3. CASE UNCHANGED vars
    BY <1>3 DEF vars, Inv, Typed, Bottoms, Nested, Apart
<1> QED
    BY <1>1, <1>2, <1>3 DEF Next

THEOREM InvHolds == Spec => []Inv
BY Initially, Kept, PTL DEF Spec

----------------------------------------------------------------------------
(* What a step does to the dynamic stack.                                   *)

\* The stack is cut, or gets new elements, and one extent at most is left or entered.
Cuts(d, e) ==
    \E n \in 0 .. Len(d) : e = Take(d, n) /\ \A i, j \in WindersAbove(d, n) : i = j
Grows(d, e) ==
    \E g \in Stack : /\ e = d \o g
                     /\ \A i, j \in 1 .. Len(g) : IsWinder(g[i]) /\ IsWinder(g[j]) => i = j

LEMMA GrowsByNone == ASSUME NEW d \in Stack PROVE Grows(d, d)
<1>1. <<>> \in Stack /\ d = d \o <<>> /\ Len(<<>>) = 0
    BY DEF Stack
<1>2. \A i, j \in 1 .. Len(<<>>) : IsWinder(<<>>[i]) /\ IsWinder(<<>>[j]) => i = j
    BY <1>1
<1> QED
    BY <1>1, <1>2, Zenon DEF Grows

LEMMA GrowsByOne == ASSUME NEW d \in Stack, NEW e \in Elem PROVE Grows(d, Append(d, e))
<1>1. <<e>> \in Stack /\ Append(d, e) = d \o <<e>> /\ \A i, j \in 1 .. Len(<<e>>) : i = j
    BY DEF Stack
<1> QED
    BY <1>1, Zenon DEF Grows

\* A winder, then elements that are no winders.
LEMMA GrowsByExtent ==
    ASSUME NEW d \in Stack, NEW w \in Winder \union {None}, NEW g \in Stack,
           \A i \in 1 .. Len(g) : ~IsWinder(g[i])
    PROVE  Grows(d, Entered(d, w) \o g)
<1>1. CASE w = None
    <2>1. Entered(d, w) \o g = d \o g
        BY <1>1 DEF Entered
    <2> QED
        BY <2>1, Zenon DEF Grows
<1>2. CASE w # None
    <2> DEFINE h == <<Wind(w)>> \o g
    <2>1. Wind(w) \in Elem
        BY <1>2, ElemsMade
    <2>2. Entered(d, w) \o g = d \o h /\ h \in Stack
        BY <1>2, <2>1 DEF Entered, Stack
    <2>3. \A i \in 1 .. Len(h) : IsWinder(h[i]) => i = 1
        <3>1. PICK n \in Nat : n = Len(g)
            BY DEF Stack
        <3>2. Len(h) = n + 1 /\ \A i \in 2 .. n + 1 : h[i] = g[i - 1] /\ i - 1 \in 1 .. n
            BY <2>1, <3>1 DEF Stack
        <3> QED
            BY <3>1, <3>2
    <2> HIDE DEF h
    <2> QED
        BY <2>2, <2>3 DEF Grows
<1> QED
    BY <1>1, <1>2

LEMMA CutOrGrown ==
    ASSUME NEW d \in Stack, NEW e, Cuts(d, e) \/ Grows(d, e)
    PROVE  DifferByOneExtent(d, e)
<1>1. PICK m \in Nat : m = Len(d)
    BY DEF Stack
<1>2. CASE Cuts(d, e)
    <2>1. PICK n \in 0 .. m : e = Take(d, n) /\ \A i, j \in WindersAbove(d, n) : i = j
        BY <1>1, <1>2 DEF Cuts
    <2>2. Len(e) = n /\ Take(e, n) = e
        BY <1>1, <2>1 DEF Take, Stack
    <2>3. WindersAbove(e, n) = {}
        BY <2>2 DEF WindersAbove
    <2> QED
        BY <1>1, <2>1, <2>2, <2>3 DEF DifferByOneExtent
<1>3. CASE Grows(d, e)
    <2>1. PICK g \in Stack :
             e = d \o g /\ \A i, j \in 1 .. Len(g) : IsWinder(g[i]) /\ IsWinder(g[j]) => i = j
        BY <1>3 DEF Grows
    <2>2. PICK n \in Nat : n = Len(g)
        BY DEF Stack
    <2>3. Len(e) = m + n /\ \A i \in m + 1 .. m + n : e[i] = g[i - m] /\ i - m \in 1 .. n
        BY <1>1, <2>1, <2>2 DEF Stack
    <2>4. Take(d, m) = d /\ Take(e, m) = d
        BY <1>1, <2>1 DEF Take, Stack
    <2>5. WindersAbove(d, m) = {}
        BY <1>1 DEF WindersAbove
    <2>6. ASSUME NEW i \in WindersAbove(e, m), NEW j \in WindersAbove(e, m) PROVE i = j
        <3>1. i \in m + 1 .. m + n /\ j \in m + 1 .. m + n /\ IsWinder(e[i]) /\ IsWinder(e[j])
            BY <2>3 DEF WindersAbove
        <3>2. i - m = j - m
            BY <2>1, <2>2, <2>3, <3>1
        <3> QED
            BY <3>1, <3>2
    <2> QED
        BY <1>1, <2>3, <2>4, <2>5, <2>6 DEF DifferByOneExtent
<1> QED
    BY <1>2, <1>3

\* Below the highest winder at most, or above all of them.
LEMMA CutsLast ==
    ASSUME NEW d \in Stack, NEW n \in 0 .. Len(d), NEW w \in 0 .. Len(d), n >= w - 1,
           \A i \in w + 1 .. Len(d) : ~IsWinder(d[i])
    PROVE  Cuts(d, Take(d, n))
<1>1. PICK m \in Nat : m = Len(d)
    BY DEF Stack
<1>2. \A i \in WindersAbove(d, n) : i = w
    <2> SUFFICES ASSUME NEW i \in n + 1 .. m, IsWinder(d[i]) PROVE i = w
        BY <1>1 DEF WindersAbove
    <2>1. i \notin w + 1 .. m
        BY <1>1
    <2> QED
        BY <1>1, <2>1
<1> QED
    BY <1>2 DEF Cuts

LEMMA DynIsStack == ASSUME Inv PROVE dyn \in Stack /\ Len(dyn) \in Nat
BY DEF Inv, Typed, Stack

LEMMA CallsGrow == ASSUME Inv, Call, id' = id PROVE Grows(dyn, dyn')
<1>1. CASE UNCHANGED dyn
    BY <1>1, DynIsStack, GrowsByNone
<1>2. CASE \E h \in Handler : WithElement(Catch(h))
    BY <1>2, DynIsStack, ElemsMade, GrowsByOne DEF WithElement
<1>3. CASE \E p \in Port : WithElement(Redirect(p))
    BY <1>3, DynIsStack, ElemsMade, GrowsByOne DEF WithElement
<1>4. CASE \E t \in Tag : CallWithPrompt(t)
    BY <1>4, DynIsStack, PromptIsFresh, GrowsByOne DEF CallWithPrompt
<1>5. CASE CallFromRust
    BY <1>5, CallFromRustStep
<1> QED
    BY <1>1, <1>2, <1>3, <1>4, <1>5 DEF Call, CallNonTail, Raise, DynamicWind, AbortToPrompt, CallCC,
       Escape, Resume

LEMMA WindGrows == ASSUME Inv, ReturnWind PROVE Grows(dyn, dyn')
<1> DEFINE dest == Top.dest
           now == Entered(dyn, Top.winder)
           w == FirstPos(dest, WindersAbove(dest, Len(now)))
           g == SubSeq(dest, Len(now) + 1, w - 1)
<1>1. Top.kind = "wind" /\ dyn' = now \o g
    BY DEF ReturnWind
<1>2. dest \in Stack /\ Top.winder \in Winder \union {None} /\ dyn \in Stack
    BY <1>1, RunningTop, FrameParts, DynIsStack
<1>3. now \in Stack
    BY <1>2, EnteredTyped
<1> HIDE DEF dest, now
<1>4. PICK n \in Nat : n = Len(now)
    BY <1>3 DEF Stack
<1>5. PICK m \in Nat : m = Len(dest)
    BY <1>2 DEF Stack
<1>6. w \in 1 .. m + 1 /\ \A i \in n + 1 .. w - 1 : ~IsWinder(dest[i])
    BY <1>2, <1>4, <1>5, FirstWinder
<1>7. PICK v \in 1 .. m + 1 : v = w
    BY <1>6
<1> HIDE DEF w
<1>8. g = SubSeq(dest, n + 1, v - 1)
    BY <1>4, <1>7
<1> HIDE DEF g
<1>9. g \in Stack /\ Len(g) = (IF n + 1 <= v - 1 THEN v - 1 - n ELSE 0)
    BY <1>2, <1>5, <1>8 DEF Stack
<1>10. \A i \in 1 .. Len(g) : g[i] = dest[n + i] /\ n + i \in n + 1 .. v - 1
    BY <1>2, <1>5, <1>8, <1>9 DEF Stack
<1>11. \A i \in 1 .. Len(g) : ~IsWinder(g[i])
    BY <1>6, <1>7, <1>10
<1> QED
    BY <1>1, <1>2, <1>9, <1>11, GrowsByExtent DEF now

LEMMA WindDelimGrows == ASSUME Inv, ReturnWindDelim PROVE Grows(dyn, dyn')
<1> DEFINE rest == Top.rest
           now == Entered(dyn, Top.winder)
           w == FirstPos(rest, WindersAbove(rest, 0))
           g == Take(rest, w - 1)
<1>1. Top.kind = "wind_delim" /\ dyn' = now \o g
    BY DEF ReturnWindDelim
<1>2. rest \in Stack /\ Top.winder \in Winder \union {None} /\ dyn \in Stack
    BY <1>1, RunningTop, FrameParts, DynIsStack
<1> HIDE DEF rest
<1>3. PICK m \in Nat : m = Len(rest)
    BY <1>2 DEF Stack
<1>4. w \in 1 .. m + 1 /\ \A i \in 0 + 1 .. w - 1 : ~IsWinder(rest[i])
    BY <1>2, <1>3, FirstWinder
<1>5. PICK v \in 1 .. m + 1 : v = w
    BY <1>4
<1> HIDE DEF w
<1>6. g = SubSeq(rest, 1, v - 1)
    BY <1>5 DEF Take
<1> HIDE DEF g
<1>7. g \in Stack /\ Len(g) = v - 1 /\ \A i \in 1 .. v - 1 : g[i] = rest[i]
    BY <1>2, <1>3, <1>6 DEF Stack
<1>8. \A i \in 1 .. Len(g) : ~IsWinder(g[i])
    BY <1>4, <1>5, <1>7
<1> QED
    BY <1>1, <1>2, <1>7, <1>8, GrowsByExtent

LEMMA UnwindCuts ==
    ASSUME Inv, ReturnUnwind
    PROVE  /\ Cuts(dyn, dyn')
           /\ \E n \in 0 .. Len(dyn) : n >= UnwindTo(dyn, Top.dest) /\ dyn' = Take(dyn, n)
           /\ Top.dest \in Stack
<1> DEFINE stop == UnwindTo(dyn, Top.dest)
           w == LastPos(WindersAbove(dyn, 0))
<1>1. Top.kind = "unwind"
    BY DEF ReturnUnwind
<1>2. Top.dest \in Stack /\ dyn \in Stack
    BY <1>1, RunningTop, FrameParts, DynIsStack
<1>3. PICK m \in Nat : m = Len(dyn)
    BY DynIsStack
<1>4. stop \in 0 .. m /\ w \in 0 .. m /\ \A i \in w + 1 .. m : ~IsWinder(dyn[i])
    BY <1>2, <1>3, UnwindToIs, LastWinder
<1>5. (w > stop /\ dyn' = Take(dyn, w - 1)) \/ (w <= stop /\ dyn' = Take(dyn, stop))
    BY DEF ReturnUnwind
<1> HIDE DEF stop, w
<1>6. PICK n \in 0 .. m : n >= stop /\ n >= w - 1 /\ dyn' = Take(dyn, n)
    <2>1. CASE w > stop /\ dyn' = Take(dyn, w - 1)
        <3>1. w - 1 \in 0 .. m /\ w - 1 >= stop /\ w - 1 >= w - 1
            BY <1>4, <2>1
        <3> QED
            BY <2>1, <3>1
    <2>2. CASE w <= stop /\ dyn' = Take(dyn, stop)
        <3>1. stop >= stop /\ stop >= w - 1
            BY <1>4, <2>2
        <3> QED
            BY <1>4, <2>2, <3>1
    <2> QED
        BY <1>5, <2>1, <2>2
<1>7. Cuts(dyn, dyn')
    BY <1>2, <1>3, <1>4, <1>6, CutsLast
<1> QED
    BY <1>2, <1>3, <1>6, <1>7 DEF stop

LEMMA CutToStop ==
    ASSUME Inv, NEW n \in Nat, n > 0, n <= Len(dyn), \A i \in n + 1 .. Len(dyn) : ~IsWinder(dyn[i])
    PROVE  Cuts(dyn, Take(dyn, n - 1))
<1>1. dyn \in Stack /\ Len(dyn) \in Nat
    BY DynIsStack
<1>2. n - 1 \in 0 .. Len(dyn) /\ n \in 0 .. Len(dyn) /\ n - 1 >= n - 1
    BY <1>1
<1> QED
    BY <1>1, <1>2, CutsLast

LEMMA PopCuts == ASSUME NEW d \in Stack PROVE Cuts(d, Front(d))
<1>1. PICK m \in Nat : m = Len(d)
    BY DEF Stack
<1>2. CASE m = 0
    <2>1. d = <<>>
        BY <1>1, <1>2, EmptySeq DEF Stack
    <2>2. Front(d) = <<>> /\ Take(d, 0) = <<>>
        BY <2>1 DEF Front, Take
    <2>3. WindersAbove(d, 0) = {}
        BY <1>1, <1>2 DEF WindersAbove
    <2> QED
        BY <1>1, <2>2, <2>3 DEF Cuts
<1>3. CASE m > 0
    <2>1. Front(d) = Take(d, m - 1) /\ m - 1 \in 0 .. m
        BY <1>1, <1>3 DEF Front, Take
    <2>2. \A i \in WindersAbove(d, m - 1) : i = m
        BY <1>1, <1>3 DEF WindersAbove
    <2> QED
        BY <1>1, <2>1, <2>2 DEF Cuts
<1> QED
    BY <1>2, <1>3

LEMMA ReturnsChange ==
    ASSUME Inv, Return, id' = id
    PROVE  Cuts(dyn, dyn') \/ Grows(dyn, dyn')
<1>1. CASE ReturnJit \/ ReturnOut \/ ReturnReraise
    <2>1. dyn' = dyn
        BY <1>1 DEF ReturnJit, ReturnOut, ReturnReraise
    <2> QED
        BY <2>1, DynIsStack, GrowsByNone
<1>2. CASE ReturnIn
    <2>1. Top.kind = "AfterIn" /\ dyn' = Append(dyn, Wind(Top.name))
        BY <1>2 DEF ReturnIn
    <2>2. Wind(Top.name) \in Elem
        BY <2>1, RunningTop, FrameParts, ElemsMade
    <2> QED
        BY <2>1, <2>2, DynIsStack, GrowsByOne
<1>3. CASE ReturnPop
    BY <1>3, DynIsStack, PopCuts DEF ReturnPop
<1>4. CASE ReturnHalt
    BY <1>4, ReturnHaltStep
<1>5. CASE ReturnUnwind
    BY <1>5, UnwindCuts
<1>6. CASE ReturnWind
    BY <1>6, WindGrows
<1>7. CASE ReturnWindDelim
    BY <1>7, WindDelimGrows
<1>8. CASE ReturnUnwindPrompt
    <2>1. PICK n \in 0 .. Len(dyn) : n = PromptStop(Top.name)
        BY PromptStopIs
    <2>2. Len(dyn) \in Nat /\ \A i \in n + 1 .. Len(dyn) : ~IsWinder(dyn[i])
        BY <2>1, PromptStopIs
    <2>3. CASE EndBarrier(TRUE)
        BY <2>3, EndBarrierStep
    <2>4. CASE n > 0 /\ dyn' = Take(dyn, n - 1)
        BY <2>2, <2>4, CutToStop
    <2>5. CASE SplitAt(n)
        <3>1. n \in Nat /\ dyn' = Take(dyn, n - 1)
            BY <2>2, <2>5 DEF SplitAt
        <3>2. n > 0 \/ n = 0
            BY <3>1
        <3>3. CASE n = 0
            BY <1>8, <2>1, <3>3, <2>3, PromptCases
        <3> QED
            BY <2>4, <3>1, <3>2, <3>3
    <2> QED
        BY <1>8, <2>1, <2>3, <2>4, <2>5, PromptCases
<1>9. CASE ReturnUnwindHandler
    <2>1. HandlerStop \in 0 .. Len(dyn) /\ Len(dyn) \in Nat /\ \A i \in HandlerStop + 1 .. Len(dyn) : ~IsWinder(dyn[i])
        BY HandlerStopIs
    <2>2. CASE EndBarrier(TRUE)
        BY <2>2, EndBarrierStep
    <2>3. CASE HandlerStop > 0 /\ dyn' = Take(dyn, HandlerStop - 1)
        BY <2>1, <2>3, CutToStop
    <2> QED
        BY <1>9, <2>2, <2>3, HandlerCases
<1> QED
    BY <1>1, <1>2, <1>3, <1>4, <1>5, <1>6, <1>7, <1>8, <1>9 DEF Return

\* A program enters and leaves the extents of dynamic-wind one at a time, the
\* innermost first, whatever it calls and returns from (unwind, wind, wind_delim,
\* unwind_to_prompt, unwind_to_exception_handler).
THEOREM OneExtentAtATimeHolds == Spec => OneExtentAtATime
<1> DEFINE A == id' = id => DifferByOneExtent(dyn, dyn')
<1>1. Inv /\ [Next]_vars => [A]_vars
    <2> SUFFICES ASSUME Inv, Next, id' = id PROVE DifferByOneExtent(dyn, dyn')
        OBVIOUS
    <2>1. Cuts(dyn, dyn') \/ Grows(dyn, dyn')
        BY CallsGrow, ReturnsChange DEF Next
    <2> QED
        BY <2>1, DynIsStack, CutOrGrown
<1> HIDE DEF A
<1>2. Spec => [][A]_vars
    BY <1>1, InvHolds, PTL DEF Spec
<1> QED
    BY <1>2 DEF OneExtentAtATime, A

\* What grows keeps every prefix, and so does a stack that is cut where unwind stops.
LEMMA PrefixKept ==
    ASSUME NEW d \in Stack, NEW dest \in Stack, NEW e, NEW n \in Nat, n <= Len(d), n <= Len(dest),
           Take(d, n) = Take(dest, n),
           \/ Grows(d, e)
           \/ \E m \in 0 .. Len(d) : m >= UnwindTo(d, dest) /\ e = Take(d, m)
    PROVE  Len(e) >= n /\ Take(e, n) = Take(dest, n)
<1>1. PICK k \in Nat : k = Len(d)
    BY DEF Stack
<1>2. CASE Grows(d, e)
    <2>1. PICK g \in Stack : e = d \o g
        BY <1>2 DEF Grows
    <2> QED
        BY <1>1, <2>1 DEF Take, Stack
<1>3. CASE \E m \in 0 .. Len(d) : m >= UnwindTo(d, dest) /\ e = Take(d, m)
    <2>1. Stops(d, dest, n)
        <3>1. CASE n = 0
            BY <3>1 DEF Stops
        <3>2. CASE n > 0
            <4>1. Take(d, n)[n] = d[n] /\ Take(dest, n)[n] = dest[n]
                BY <1>1, <3>2 DEF Take, Stack
            <4> QED
                BY <4>1 DEF Stops
        <3> QED
            BY <3>1, <3>2
    <2>2. PICK stop \in 0 .. k : stop = UnwindTo(d, dest) /\ n <= stop
        BY <1>1, <2>1, UnwindToIs
    <2>3. PICK m \in 0 .. k : m >= stop /\ e = Take(d, m)
        BY <1>1, <1>3, <2>2
    <2>4. n <= m
        BY <2>2, <2>3
    <2>5. Len(e) = m /\ Take(e, n) = Take(d, n)
        BY <1>1, <2>3, <2>4 DEF Take, Stack
    <2> QED
        BY <2>4, <2>5
<1> QED
    BY <1>2, <1>3

\* An escape keeps the extents that its source and its destination share.
THEOREM JumpKeepsCommonHolds == Spec => JumpKeepsCommon
<1> DEFINE A == id' = id /\ Top.kind \in {"unwind", "wind"} =>
                  \A n \in 0 .. Min({Len(dyn), Len(Top.dest)}) :
                      Take(dyn, n) = Take(Top.dest, n) =>
                          Len(dyn') >= n /\ Take(dyn', n) = Take(Top.dest, n)
<1>1. Inv /\ [Next]_vars => [A]_vars
    <2> SUFFICES ASSUME Inv, Next, id' = id, Top.kind \in {"unwind", "wind"},
                        NEW n \in 0 .. Min({Len(dyn), Len(Top.dest)}),
                        Take(dyn, n) = Take(Top.dest, n)
                 PROVE  Len(dyn') >= n /\ Take(dyn', n) = Take(Top.dest, n)
        OBVIOUS
    <2>1. Top.dest \in Stack /\ dyn \in Stack
        BY RunningTop, FrameParts, DynIsStack
    <2>2. n \in Nat /\ n <= Len(dyn) /\ n <= Len(Top.dest)
        <3> DEFINE S == {Len(dyn), Len(Top.dest)}
        <3>1. S \subseteq Nat /\ S # {}
            BY <2>1 DEF Stack
        <3>2. Min(S) \in S /\ \A y \in S : Min(S) <= y
            BY <3>1, MinOf, Zenon
        <3>3. PICK x \in Nat : x = Min(S)
            BY <3>1, <3>2
        <3>4. x <= Len(dyn) /\ x <= Len(Top.dest) /\ n \in 0 .. x
            BY <3>2, <3>3
        <3>5. Len(dyn) \in Nat /\ Len(Top.dest) \in Nat
            BY <3>1
        <3> QED
            BY <3>4, <3>5
    <2>3. CASE Call
        <3>1. Grows(dyn, dyn')
            BY <2>3, CallsGrow
        <3> QED
            BY <2>1, <2>2, <3>1, PrefixKept
    <2>4. CASE ReturnUnwind
        BY <2>1, <2>2, <2>4, UnwindCuts, PrefixKept
    <2>5. CASE ReturnWind
        BY <2>1, <2>2, <2>5, WindGrows, PrefixKept
    <2> QED
        BY <2>3, <2>4, <2>5 DEF Next, Return, ReturnJit, ReturnIn, ReturnPop, ReturnOut, ReturnHalt,
           ReturnWindDelim, ReturnUnwindPrompt, ReturnUnwindHandler, ReturnReraise
<1> HIDE DEF A
<1>2. Spec => [][A]_vars
    BY <1>1, InvHolds, PTL DEF Spec
<1> QED
    BY <1>2 DEF JumpKeepsCommon, A

\* When no element is installed twice, what an abort captures does not reach the
\* barrier of its own prompt.
THEOREM CaptureStopsAtPromptHolds == ASSUME ~Shared PROVE Spec => CaptureStopsAtPrompt
<1> DEFINE A == \A k \in Delim : delims'[k] # delims[k] =>
                  Barrier(dyn[Len(dyn') + 1]) \notin ToSet(delims'[k].frames)
<1>1. Inv /\ [Next]_vars => [A]_vars
    <2> SUFFICES ASSUME Inv, Next PROVE A
        OBVIOUS
    <2>1. CASE delims' = delims
        BY <2>1
    <2>2. CASE ReturnUnwindPrompt /\ delims' # delims
        <3>1. PICK n \in 0 .. Len(dyn) : n = PromptStop(Top.name)
            BY PromptStopIs
        <3>2. n > 0 /\ SplitAt(n) /\ Top.kind = "unwind_to_prompt"
            BY <2>2, <3>1, PromptCases DEF EndBarrier
        <3>3. n \in Nat /\ n <= Len(dyn)
            BY <3>1, DynIsStack
        <3>4. /\ Len(dyn') = n - 1
              /\ \A k \in Delim : delims'[k] # delims[k] => Barrier(dyn[n]) \notin ToSet(delims'[k].frames)
            BY <3>2, <3>3, SplitAtStep
        <3>5. Len(dyn') + 1 = n
            BY <3>3, <3>4
        <3> QED
            BY <3>4, <3>5
    <2>3. ReturnUnwindPrompt \/ delims' = delims
        BY DEF Next, Call, Return, CallNonTail, Raise, CallFromRust, DynamicWind, WithElement,
           CallWithPrompt, AbortToPrompt, CallCC, Escape, Resume, ReturnJit, ReturnIn, ReturnPop,
           ReturnOut, ReturnHalt, EndBarrier, ReturnUnwind, ReturnWind, ReturnWindDelim,
           ReturnUnwindHandler, ReturnReraise
    <2> QED
        BY <2>1, <2>2, <2>3
<1> HIDE DEF A
<1>2. Spec => [][A]_vars
    BY <1>1, InvHolds, PTL DEF Spec
<1> QED
    BY <1>2 DEF CaptureStopsAtPrompt, A

----------------------------------------------------------------------------
(* Paths: par maps an element to the dynamic stack it was installed on.      *)

\* Above position m, every element of s lies on the stack it was installed on.
ObeysFrom(par, s, m) == \A i \in m + 1 .. Len(s) : par[s[i]] = Take(s, i - 1)
Obeys(par, s) == ObeysFrom(par, s, 0)

Starts(d, e) == Len(d) <= Len(e) /\ d = Take(e, Len(d))

LEMMA TakeIs ==
    ASSUME NEW d \in Stack, NEW n \in 0 .. Len(d)
    PROVE  /\ Take(d, n) \in Stack /\ Len(Take(d, n)) = n
           /\ \A i \in 1 .. n : Take(d, n)[i] = d[i]
BY DEF Take, Stack

LEMMA StackLen == ASSUME NEW d \in Stack PROVE Len(d) \in Nat /\ \A i \in 1 .. Len(d) : d[i] \in Elem
BY DEF Stack

LEMMA SameStack ==
    ASSUME NEW d \in Stack, NEW e \in Stack, Len(d) = Len(e), \A i \in 1 .. Len(d) : d[i] = e[i]
    PROVE  d = e
BY SeqEqual DEF Stack

LEMMA TakeTake ==
    ASSUME NEW d \in Stack, NEW n \in 0 .. Len(d), NEW m \in 0 .. n
    PROVE  Take(Take(d, n), m) = Take(d, m)
<1>1. PICK k \in Nat : k = Len(d)
    BY StackLen
<1>2. m \in 0 .. k /\ n \in 0 .. k
    BY <1>1
<1>3. /\ Take(d, n) \in Stack /\ Len(Take(d, n)) = n
      /\ \A i \in 1 .. n : Take(d, n)[i] = d[i]
    BY <1>1, <1>2, TakeIs
<1>4. PICK e \in Stack : e = Take(d, n)
    BY <1>3
<1>5. Len(e) = n /\ \A i \in 1 .. n : e[i] = d[i]
    BY <1>3, <1>4
<1>6. /\ Take(e, m) \in Stack /\ Len(Take(e, m)) = m
      /\ \A i \in 1 .. m : Take(e, m)[i] = e[i]
    BY <1>5, TakeIs
<1>7. /\ Take(d, m) \in Stack /\ Len(Take(d, m)) = m
      /\ \A i \in 1 .. m : Take(d, m)[i] = d[i]
    BY <1>1, <1>2, TakeIs
<1>8. \A i \in 1 .. m : i \in 1 .. n
    OBVIOUS
<1>9. \A i \in 1 .. m : Take(e, m)[i] = Take(d, m)[i]
    BY <1>5, <1>6, <1>7, <1>8
<1> QED
    BY <1>4, <1>6, <1>7, <1>9, SameStack

LEMMA TakeAll == ASSUME NEW d \in Stack PROVE Take(d, Len(d)) = d /\ Take(d, 0) = <<>>
BY DEF Take, Stack

\* What a stack grown by some elements keeps.
LEMMA JoinIs ==
    ASSUME NEW c \in Stack, NEW d \in Stack
    PROVE  /\ c \o d \in Stack /\ Len(c \o d) = Len(c) + Len(d)
           /\ \A i \in 1 .. Len(c) : (c \o d)[i] = c[i]
           /\ \A i \in 1 .. Len(d) : (c \o d)[Len(c) + i] = d[i]
BY DEF Stack

LEMMA TakeJoin ==
    ASSUME NEW c \in Stack, NEW d \in Stack
    PROVE  /\ \A n \in 0 .. Len(c) : Take(c \o d, n) = Take(c, n)
           /\ \A n \in 0 .. Len(d) : Take(c \o d, Len(c) + n) = c \o Take(d, n)
<1>1. PICK k \in Nat : k = Len(c)
    BY StackLen
<1>2. PICK m \in Nat : m = Len(d)
    BY StackLen
<1>3. PICK e \in Stack : e = c \o d
    BY JoinIs
<1>4. /\ Len(e) = k + m /\ \A i \in 1 .. k : e[i] = c[i]
      /\ \A i \in 1 .. m : e[k + i] = d[i]
    BY <1>1, <1>2, <1>3, JoinIs
<1>5. ASSUME NEW n \in 0 .. k PROVE Take(e, n) = Take(c, n)
    <2>1. n \in 0 .. Len(e) /\ n \in 0 .. Len(c)
        BY <1>1, <1>4
    <2>2. /\ Take(e, n) \in Stack /\ Len(Take(e, n)) = n
          /\ \A i \in 1 .. n : Take(e, n)[i] = e[i]
        BY <2>1, TakeIs
    <2>3. /\ Take(c, n) \in Stack /\ Len(Take(c, n)) = n
          /\ \A i \in 1 .. n : Take(c, n)[i] = c[i]
        BY <2>1, TakeIs
    <2>4. \A i \in 1 .. n : i \in 1 .. k
        OBVIOUS
    <2>5. \A i \in 1 .. n : Take(e, n)[i] = Take(c, n)[i]
        BY <1>4, <2>2, <2>3, <2>4
    <2> QED
        BY <2>2, <2>3, <2>5, SameStack
<1>6. ASSUME NEW n \in 0 .. m PROVE Take(e, k + n) = c \o Take(d, n)
    <2>1. k + n \in 0 .. Len(e) /\ n \in 0 .. Len(d)
        BY <1>2, <1>4
    <2>2. /\ Take(e, k + n) \in Stack /\ Len(Take(e, k + n)) = k + n
          /\ \A i \in 1 .. k + n : Take(e, k + n)[i] = e[i]
        BY <2>1, TakeIs
    <2>3. /\ Take(d, n) \in Stack /\ Len(Take(d, n)) = n
          /\ \A i \in 1 .. n : Take(d, n)[i] = d[i]
        BY <2>1, TakeIs
    <2>4. PICK g \in Stack : g = Take(d, n)
        BY <2>3
    <2>5. Len(g) = n /\ \A i \in 1 .. n : g[i] = d[i]
        BY <2>3, <2>4
    <2>6. /\ c \o g \in Stack /\ Len(c \o g) = k + n
          /\ \A i \in 1 .. k : (c \o g)[i] = c[i]
          /\ \A i \in 1 .. n : (c \o g)[k + i] = g[i]
        BY <1>1, <2>5, JoinIs
    <2>7. ASSUME NEW i \in 1 .. k + n PROVE Take(e, k + n)[i] = (c \o g)[i]
        <3>1. CASE i \in 1 .. k
            BY <1>4, <2>2, <2>6, <3>1
        <3>2. CASE i \notin 1 .. k
            <4>1. PICK j \in 1 .. n : i = k + j
                <5>1. i - k \in 1 .. n /\ i = k + (i - k)
                    BY <3>2
                <5> QED
                    BY <5>1
            <4>2. j \in 1 .. m
                OBVIOUS
            <4> QED
                BY <1>4, <2>2, <2>5, <2>6, <4>1, <4>2
        <3> QED
            BY <3>1, <3>2
    <2>8. Take(e, k + n) = c \o g
        BY <2>2, <2>6, <2>7, SameStack
    <2> QED
        BY <2>4, <2>8
<1> QED
    BY <1>1, <1>2, <1>3, <1>5, <1>6

LEMMA SplitStack ==
    ASSUME NEW d \in Stack, NEW n \in 0 .. Len(d)
    PROVE  /\ From(d, n + 1) \in Stack /\ Len(From(d, n + 1)) = Len(d) - n
           /\ d = Take(d, n) \o From(d, n + 1)
           /\ \A i \in 1 .. Len(d) - n : From(d, n + 1)[i] = d[n + i]
<1>1. PICK k \in Nat : k = Len(d)
    BY StackLen
<1>2. n \in 0 .. k /\ n \in Nat
    BY <1>1
<1>3. From(d, n + 1) = SubSeq(d, n + 1, k)
    BY <1>1 DEF From
<1>4. PICK m \in Nat : m = k - n
    BY <1>2
<1>5. n + 1 \in Nat \ {0} /\ k <= Len(d)
    BY <1>1, <1>2
<1>6. PICK e \in Stack : e = SubSeq(d, n + 1, k)
    BY <1>5, DynPart
<1>7. k = n + m
    BY <1>2, <1>4
<1>8. Len(e) = m /\ \A i \in 1 .. m : e[i] = d[n + i]
    <2>1. e = SubSeq(d, n + 1, n + m) /\ d \in Seq(Elem) /\ n \in Nat /\ n + m = Len(d)
        BY <1>1, <1>2, <1>6, <1>7 DEF Stack
    <2> QED
        BY <2>1
<1>9. PICK c \in Stack : c = Take(d, n)
    BY TakeIs
<1>10. Len(c) = n /\ \A i \in 1 .. n : c[i] = d[i]
    BY <1>9, TakeIs
<1>11. PICK g \in Stack : g = c \o e
    BY JoinIs
<1>12. /\ Len(g) = n + m /\ \A i \in 1 .. n : g[i] = c[i]
      /\ \A i \in 1 .. m : g[n + i] = e[i]
    <2>1. /\ Len(c \o e) = Len(c) + Len(e)
          /\ \A i \in 1 .. Len(c) : (c \o e)[i] = c[i]
          /\ \A i \in 1 .. Len(e) : (c \o e)[Len(c) + i] = e[i]
        BY JoinIs
    <2> QED
        BY <1>8, <1>10, <1>11, <2>1
<1>13. \A i \in 1 .. k : i \in 1 .. n \/ (i - n \in 1 .. m /\ i = n + (i - n))
    BY <1>2, <1>7
<1>14. ASSUME NEW i \in 1 .. k PROVE g[i] = d[i]
    <2>1. CASE i \in 1 .. n
        BY <1>10, <1>12, <2>1
    <2>2. CASE i \notin 1 .. n
        <3>1. PICK j \in 1 .. m : i = n + j
            BY <1>13, <2>2
        <3> QED
            BY <1>8, <1>12, <3>1
    <2> QED
        BY <2>1, <2>2
<1>15. Len(g) = k
    BY <1>12, <1>7
<1>16. d = g
    BY <1>1, <1>14, <1>15, SameStack
<1> QED
    BY <1>1, <1>3, <1>4, <1>8, <1>9, <1>11, <1>16, <1>6

LEMMA DropJoin ==
    ASSUME NEW c \in Stack, NEW d \in Stack
    PROVE  From(c \o d, Len(c) + 1) = d
<1>1. PICK k \in Nat : k = Len(c)
    BY StackLen
<1>2. PICK m \in Nat : m = Len(d)
    BY StackLen
<1>3. PICK e \in Stack : e = c \o d
    BY JoinIs
<1>4. /\ Len(e) = k + m
      /\ \A i \in 1 .. m : e[k + i] = d[i]
    BY <1>1, <1>2, <1>3, JoinIs
<1>5. k \in 0 .. Len(e)
    BY <1>4
<1>6. /\ From(e, k + 1) \in Stack /\ Len(From(e, k + 1)) = Len(e) - k
      /\ \A i \in 1 .. Len(e) - k : From(e, k + 1)[i] = e[k + i]
    BY <1>5, SplitStack
<1>7. Len(e) - k = m
    BY <1>4
<1>8. Len(From(e, k + 1)) = Len(d) /\ \A i \in 1 .. m : From(e, k + 1)[i] = d[i]
    BY <1>2, <1>4, <1>6, <1>7
<1>9. From(e, k + 1) = d
    BY <1>2, <1>6, <1>8, SameStack
<1> QED
    BY <1>1, <1>3, <1>9

----------------------------------------------------------------------------
LEMMA ObeysTake ==
    ASSUME NEW par, NEW d \in Stack, Obeys(par, d), NEW n \in 0 .. Len(d)
    PROVE  Obeys(par, Take(d, n))
<1>1. PICK k \in Nat : k = Len(d)
    BY StackLen
<1>2. PICK e \in Stack : e = Take(d, n)
    BY TakeIs
<1>3. Len(e) = n /\ \A i \in 1 .. n : e[i] = d[i]
    BY <1>2, TakeIs
<1>4. ASSUME NEW i \in 0 + 1 .. n PROVE par[e[i]] = Take(e, i - 1)
    <2>1. i - 1 \in 0 .. n /\ i \in 1 .. n /\ i \in 0 + 1 .. Len(d)
        BY <1>1
    <2>2. Take(e, i - 1) = Take(d, i - 1)
        BY <1>2, <2>1, TakeTake
    <2>3. par[d[i]] = Take(d, i - 1)
        BY <2>1 DEF Obeys, ObeysFrom
    <2> QED
        BY <1>3, <2>1, <2>2, <2>3
<1>5. Obeys(par, e)
    BY <1>3, <1>4 DEF Obeys, ObeysFrom
<1> QED
    BY <1>2, <1>5

\* Joined stacks.
LEMMA ObeysJoin ==
    ASSUME NEW par, NEW d \in Stack, NEW e \in Stack, Obeys(par, d), ObeysFrom(par, d \o e, Len(d))
    PROVE  Obeys(par, d \o e)
<1>1. PICK k \in Nat : k = Len(d)
    BY StackLen
<1>2. PICK m \in Nat : m = Len(e)
    BY StackLen
<1>3. PICK g \in Stack : g = d \o e
    BY JoinIs
<1>4. Len(g) = k + m /\ \A i \in 1 .. k : g[i] = d[i]
    BY <1>1, <1>2, <1>3, JoinIs
<1>5. ASSUME NEW i \in 0 + 1 .. k + m PROVE par[g[i]] = Take(g, i - 1)
    <2>1. CASE i \in 1 .. k
        <3>1. i - 1 \in 0 .. Len(d) /\ i \in 0 + 1 .. Len(d)
            BY <1>1, <2>1
        <3>2. Take(g, i - 1) = Take(d, i - 1)
            BY <1>3, <3>1, TakeJoin
        <3>3. par[d[i]] = Take(d, i - 1)
            BY <3>1 DEF Obeys, ObeysFrom
        <3> QED
            BY <1>4, <2>1, <3>2, <3>3
    <2>2. CASE i \notin 1 .. k
        <3>1. i \in k + 1 .. k + m
            BY <2>2
        <3>2. ObeysFrom(par, g, k)
            BY <1>1, <1>3
        <3> QED
            BY <1>4, <3>1, <3>2 DEF ObeysFrom
    <2> QED
        BY <2>1, <2>2
<1>6. Obeys(par, g)
    BY <1>4, <1>5 DEF Obeys, ObeysFrom
<1> QED
    BY <1>3, <1>6

LEMMA ObeysPush ==
    ASSUME NEW par, NEW d \in Stack, NEW e \in Elem, Obeys(par, d), par[e] = d
    PROVE  Obeys(par, Append(d, e)) /\ Append(d, e) \in Stack
<1>1. PICK k \in Nat : k = Len(d)
    BY StackLen
<1>2. <<e>> \in Stack /\ Len(<<e>>) = 1 /\ <<e>>[1] = e
    BY DEF Stack
<1>3. Append(d, e) = d \o <<e>>
    BY DEF Stack
<1>4. PICK g \in Stack : g = d \o <<e>>
    BY <1>2, JoinIs
<1>5. Len(g) = k + 1 /\ g[k + 1] = e
    BY <1>1, <1>2, <1>4 DEF Stack
<1>6. Take(g, k) = d
    BY <1>1, <1>4 DEF Take, Stack
<1>7. ObeysFrom(par, g, k)
    <2>1. \A i \in k + 1 .. k + 1 : i = k + 1 /\ i - 1 = k
        OBVIOUS
    <2> QED
        BY <1>5, <1>6, <2>1 DEF ObeysFrom
<1>8. Obeys(par, g)
    BY <1>1, <1>2, <1>4, <1>7, ObeysJoin
<1> QED
    BY <1>3, <1>4, <1>8

LEMMA ObeysDistinct ==
    ASSUME NEW par, NEW d \in Stack, Obeys(par, d), NEW i \in 1 .. Len(d), NEW j \in 1 .. Len(d),
           d[i] = d[j]
    PROVE  i = j
<1>1. PICK k \in Nat : k = Len(d)
    BY StackLen
<1>2. i - 1 \in 0 .. Len(d) /\ j - 1 \in 0 .. Len(d) /\ i \in 0 + 1 .. Len(d) /\ j \in 0 + 1 .. Len(d)
    BY <1>1
<1>3. Take(d, i - 1) = Take(d, j - 1)
    BY <1>2 DEF Obeys, ObeysFrom
<1>4. Len(Take(d, i - 1)) = i - 1 /\ Len(Take(d, j - 1)) = j - 1
    BY <1>2, TakeIs
<1>5. i - 1 = j - 1
    BY <1>3, <1>4
<1> QED
    BY <1>1, <1>5

\* Two stacks that share an element share what lies below it.
LEMMA SamePath ==
    ASSUME NEW par, NEW d \in Stack, NEW e \in Stack, Obeys(par, d), Obeys(par, e),
           NEW n \in 1 .. Len(d), n <= Len(e), d[n] = e[n]
    PROVE  Take(d, n) = Take(e, n)
<1>1. PICK k \in Nat : k = Len(d)
    BY StackLen
<1>2. PICK m \in Nat : m = Len(e)
    BY StackLen
<1>3. n \in 0 + 1 .. Len(d) /\ n \in 0 + 1 .. Len(e)
    BY <1>1, <1>2
<1>4. Take(d, n - 1) = Take(e, n - 1)
    BY <1>3 DEF Obeys, ObeysFrom
<1>5. n - 1 \in 0 .. Len(d) /\ n - 1 \in 0 .. Len(e) /\ n \in 0 .. Len(d) /\ n \in 0 .. Len(e)
    BY <1>1, <1>2
<1>6. /\ \A i \in 1 .. n - 1 : Take(d, n - 1)[i] = d[i]
      /\ \A i \in 1 .. n - 1 : Take(e, n - 1)[i] = e[i]
    BY <1>5, TakeIs
<1>7. \A i \in 1 .. n : d[i] = e[i]
    <2> TAKE i \in 1 .. n
    <2>1. i \in 1 .. n - 1 \/ i = n
        BY <1>1
    <2> QED
        BY <1>4, <1>6, <2>1
<1>8. /\ Take(d, n) \in Stack /\ Len(Take(d, n)) = n /\ \A i \in 1 .. n : Take(d, n)[i] = d[i]
      /\ Take(e, n) \in Stack /\ Len(Take(e, n)) = n /\ \A i \in 1 .. n : Take(e, n)[i] = e[i]
    BY <1>5, TakeIs
<1>9. \A i \in 1 .. n : Take(d, n)[i] = Take(e, n)[i]
    BY <1>7, <1>8
<1> QED
    BY <1>8, <1>9, SameStack

----------------------------------------------------------------------------
(* Chains: the dynamic stacks that the frames of a continuation need.        *)

\* What wind_delim still has to push.
More(f) == Entered(<<>>, f.winder) \o f.rest

\* Frame f takes the dynamic stack hi to the stack lo that the frames below it
\* need.
Link(par, f, lo, hi) ==
    /\ f.kind \in {"Halt", "Jit", "AfterIn", "AfterOut"} => hi = lo
    /\ f.kind = "AfterIn" => par[Wind(f.name)] = hi
    /\ f.kind \in {"PopDyn", "PromptBarrier"} => hi = Append(lo, f.elem)
    /\ f.kind = "PopDyn" => f.elem.kind # "Prompt"
    /\ f.kind \in {"unwind", "wind"} => lo = f.dest /\ Obeys(par, f.dest)
    /\ f.kind = "wind" => Starts(Entered(hi, f.winder), f.dest)
    /\ f.kind = "unwind_to_prompt" => lo = f.saved /\ Obeys(par, f.saved) /\ Starts(hi, f.saved)
    /\ f.kind = "wind_delim" => lo = hi \o More(f) /\ ObeysFrom(par, lo, Len(hi))
    /\ f.kind \in {"unwind_to_exception_handler", "reraise_exception"} => Starts(hi, lo)

\* p[i] is the dynamic stack when frame i is returned to.
Path(par, fs, p) ==
    /\ p[0] = <<>>
    /\ \A i \in 1 .. Len(fs) : Link(par, fs[i], p[i - 1], p[i])

Chain(par, fs, d) ==
    \E p \in [0 .. Len(fs) -> Stack] : Path(par, fs, p) /\ p[Len(fs)] = d

LEMMA ChainPush ==
    ASSUME NEW par, NEW fs \in Seq(Frame), NEW f \in Frame, NEW d \in Stack, NEW e \in Stack,
           Chain(par, fs, d), Link(par, f, d, e)
    PROVE  Chain(par, Append(fs, f), e)
<1>1. PICK n \in Nat : n = Len(fs)
    OBVIOUS
<1>2. PICK p \in [0 .. n -> Stack] : Path(par, fs, p) /\ p[n] = d
    BY <1>1 DEF Chain
<1>3. PICK gs \in Seq(Frame) : gs = Append(fs, f)
    OBVIOUS
<1>4. Len(gs) = n + 1 /\ gs[n + 1] = f /\ \A i \in 1 .. n : gs[i] = fs[i]
    BY <1>1, <1>3
<1> DEFINE q == [i \in 0 .. n + 1 |-> IF i = n + 1 THEN e ELSE p[i]]
<1>5. q \in [0 .. n + 1 -> Stack] /\ q[n + 1] = e
    OBVIOUS
<1>6. \A i \in 0 .. n : q[i] = p[i]
    OBVIOUS
<1> HIDE DEF q
<1>7. q[0] = <<>>
    BY <1>2, <1>6 DEF Path
<1>8. ASSUME NEW i \in 1 .. n + 1 PROVE Link(par, gs[i], q[i - 1], q[i])
    <2>1. CASE i = n + 1
        <3>1. i - 1 = n /\ n \in 0 .. n
            BY <2>1
        <3> QED
            BY <1>2, <1>4, <1>5, <1>6, <2>1, <3>1
    <2>2. CASE i # n + 1
        <3>1. i \in 1 .. n /\ i \in 0 .. n /\ i - 1 \in 0 .. n
            BY <2>2
        <3>2. Link(par, fs[i], p[i - 1], p[i])
            BY <1>1, <1>2, <3>1 DEF Path
        <3> QED
            BY <1>4, <1>6, <3>1, <3>2
    <2> QED
        BY <2>1, <2>2
<1>9. Path(par, gs, q)
    BY <1>4, <1>7, <1>8 DEF Path
<1>10. Chain(par, gs, e)
    BY <1>4, <1>5, <1>9 DEF Chain
<1> QED
    BY <1>3, <1>10

LEMMA ChainPop ==
    ASSUME NEW par, NEW fs \in Seq(Frame), fs # <<>>, NEW d \in Stack, Chain(par, fs, d)
    PROVE  \E lo \in Stack : Chain(par, Front(fs), lo) /\ Link(par, Last(fs), lo, d)
<1>1. PICK n \in Nat : n = Len(fs) /\ n >= 1
    BY SplitTop
<1>2. PICK p \in [0 .. n -> Stack] : Path(par, fs, p) /\ p[n] = d
    BY <1>1 DEF Chain
<1>3. PICK gs \in Seq(Frame) : gs = Front(fs)
    BY SplitTop
<1>4. Len(gs) = n - 1 /\ Last(fs) = fs[n] /\ \A i \in 1 .. n - 1 : gs[i] = fs[i]
    BY <1>1, <1>3, SplitTop
<1>5. n - 1 \in 0 .. n /\ 0 \in 0 .. n - 1 /\ n \in 1 .. n
    BY <1>1
<1> DEFINE q == [i \in 0 .. n - 1 |-> p[i]]
<1>6. q \in [0 .. n - 1 -> Stack] /\ \A i \in 0 .. n - 1 : q[i] = p[i]
    OBVIOUS
<1> HIDE DEF q
<1>7. ASSUME NEW i \in 1 .. n - 1 PROVE Link(par, gs[i], q[i - 1], q[i])
    <2>1. i \in 1 .. n /\ i \in 0 .. n - 1 /\ i - 1 \in 0 .. n - 1
        BY <1>1
    <2>2. Link(par, fs[i], p[i - 1], p[i])
        BY <1>1, <1>2, <2>1 DEF Path
    <2> QED
        BY <1>4, <1>6, <2>1, <2>2
<1>8. q[0] = <<>>
    BY <1>2, <1>5, <1>6 DEF Path
<1>9. Path(par, gs, q)
    BY <1>4, <1>7, <1>8 DEF Path
<1>10. p[n - 1] \in Stack /\ q[n - 1] = p[n - 1]
    BY <1>1, <1>5, <1>6
<1>11. Chain(par, gs, p[n - 1])
    BY <1>4, <1>6, <1>9, <1>10 DEF Chain
<1>12. Link(par, fs[n], p[n - 1], p[n])
    BY <1>1, <1>2, <1>5 DEF Path
<1> QED
    BY <1>2, <1>3, <1>4, <1>10, <1>11, <1>12

\* A chain needs the paths of what its frames mention, and of nothing else.
LEMMA MoreIs ==
    ASSUME NEW f \in Frame, f.kind = "wind_delim"
    PROVE  More(f) \in Stack /\ \A i \in 1 .. Len(More(f)) : More(f)[i] \in Mentions(f)
<1>1. f.rest \in Stack /\ f.winder \in Winder \union {None}
    BY FrameParts
<1>2. PICK r \in Stack : r = f.rest
    BY <1>1
<1>3. Mentions(f) = ToSet(Entered(r, f.winder))
    BY <1>2 DEF Mentions
<1>4. CASE f.winder = None
    <2>1. More(f) = <<>> \o r /\ Mentions(f) = ToSet(r)
        BY <1>2, <1>3, <1>4 DEF More, Entered
    <2>2. <<>> \o r = r
        BY DEF Stack
    <2> QED
        BY <2>1, <2>2, StackLen DEF ToSet, Stack
<1>5. CASE f.winder # None
    <2>1. PICK e \in Elem : e = Wind(f.winder)
        BY <1>1, <1>5, ElemsMade
    <2>2. More(f) = <<e>> \o r /\ Mentions(f) = ToSet(Append(r, e))
        BY <1>2, <1>3, <1>5, <2>1 DEF More, Entered
    <2>3. PICK n \in Nat : n = Len(r)
        BY StackLen
    <2>4. /\ <<e>> \o r \in Stack /\ Len(<<e>> \o r) = n + 1 /\ (<<e>> \o r)[1] = e
          /\ \A i \in 2 .. n + 1 : (<<e>> \o r)[i] = r[i - 1]
        BY <2>3 DEF Stack
    <2>5. /\ Len(Append(r, e)) = n + 1 /\ Append(r, e)[n + 1] = e
          /\ \A i \in 1 .. n : Append(r, e)[i] = r[i]
          /\ DOMAIN Append(r, e) = 1 .. n + 1
        BY <2>3 DEF Stack
    <2>6. e \in ToSet(Append(r, e))
        <3>1. n + 1 \in 1 .. n + 1
            OBVIOUS
        <3> QED
            BY <2>5, <3>1 DEF ToSet
    <2>7. \A i \in 1 .. n : r[i] \in ToSet(Append(r, e))
        <3>1. \A i \in 1 .. n : i \in 1 .. n + 1
            OBVIOUS
        <3> QED
            BY <2>5, <3>1 DEF ToSet
    <2>8. ASSUME NEW i \in 1 .. n + 1 PROVE (<<e>> \o r)[i] \in ToSet(Append(r, e))
        <3>1. CASE i = 1
            BY <2>4, <2>6, <3>1
        <3>2. CASE i # 1
            <4>1. i \in 2 .. n + 1 /\ i - 1 \in 1 .. n
                BY <3>2
            <4> QED
                BY <2>4, <2>7, <4>1
        <3> QED
            BY <3>1, <3>2
    <2>9. Len(More(f)) = n + 1
        BY <2>2, <2>4
    <2> QED
        BY <2>2, <2>4, <2>8, <2>9
<1> QED
    BY <1>4, <1>5

LEMMA RewoundMentioned ==
    ASSUME NEW f \in Frame, f.kind = "wind_delim", NEW hi \in Stack, NEW lo \in Stack, lo = hi \o More(f)
    PROVE  \A i \in Len(hi) + 1 .. Len(lo) : lo[i] \in Mentions(f)
<1>1. PICK g \in Stack : g = More(f) /\ \A i \in 1 .. Len(g) : g[i] \in Mentions(f)
    BY MoreIs
<1>2. PICK n \in Nat : n = Len(hi)
    BY StackLen
<1>3. PICK m \in Nat : m = Len(g)
    BY StackLen
<1>4. Len(lo) = n + m /\ \A i \in 1 .. m : lo[n + i] = g[i]
    BY <1>1, <1>2, <1>3, JoinIs
<1>5. ASSUME NEW i \in n + 1 .. n + m PROVE lo[i] \in Mentions(f)
    <2>1. PICK j \in 1 .. m : i = n + j
        <3>1. i - n \in 1 .. m /\ i = n + (i - n)
            OBVIOUS
        <3> QED
            BY <3>1
    <2> QED
        BY <1>1, <1>3, <1>4, <2>1
<1> QED
    BY <1>2, <1>4, <1>5

LEMMA ObeysAgree ==
    ASSUME NEW par, NEW par2, NEW d \in Stack, \A x \in ToSet(d) : par2[x] = par[x], Obeys(par, d)
    PROVE  Obeys(par2, d)
<1>1. PICK n \in Nat : n = Len(d) /\ DOMAIN d = 1 .. n
    BY DEF Stack
<1>2. \A i \in 0 + 1 .. n : d[i] \in ToSet(d)
    BY <1>1 DEF ToSet
<1>3. \A i \in 0 + 1 .. n : par[d[i]] = Take(d, i - 1)
    BY <1>1 DEF Obeys, ObeysFrom
<1> QED
    BY <1>1, <1>2, <1>3 DEF Obeys, ObeysFrom

LEMMA LinkAgree ==
    ASSUME NEW par, NEW par2, NEW f \in Frame, NEW lo \in Stack, NEW hi \in Stack,
           \A x \in Mentions(f) : par2[x] = par[x], Link(par, f, lo, hi)
    PROVE  Link(par2, f, lo, hi)
<1>1. f.kind = "AfterIn" => par2[Wind(f.name)] = par[Wind(f.name)]
    BY DEF Mentions
<1>2. f.kind \in {"unwind", "wind"} => Obeys(par2, f.dest)
    <2> SUFFICES ASSUME f.kind \in {"unwind", "wind"} PROVE Obeys(par2, f.dest)
        OBVIOUS
    <2>1. f.dest \in Stack /\ Mentions(f) = ToSet(f.dest) /\ Obeys(par, f.dest)
        BY FrameParts DEF Mentions, Link
    <2> QED
        BY <2>1, ObeysAgree
<1>3. f.kind = "unwind_to_prompt" => Obeys(par2, f.saved)
    <2> SUFFICES ASSUME f.kind = "unwind_to_prompt" PROVE Obeys(par2, f.saved)
        OBVIOUS
    <2>1. f.saved \in Stack /\ Mentions(f) = ToSet(f.saved) /\ Obeys(par, f.saved)
        BY FrameParts DEF Mentions, Link
    <2> QED
        BY <2>1, ObeysAgree
<1>4. f.kind = "wind_delim" => ObeysFrom(par2, lo, Len(hi))
    <2> SUFFICES ASSUME f.kind = "wind_delim" PROVE ObeysFrom(par2, lo, Len(hi))
        OBVIOUS
    <2>1. lo = hi \o More(f) /\ ObeysFrom(par, lo, Len(hi))
        BY DEF Link
    <2>2. \A i \in Len(hi) + 1 .. Len(lo) : lo[i] \in Mentions(f)
        BY <2>1, RewoundMentioned
    <2> QED
        BY <2>1, <2>2 DEF ObeysFrom
<1> QED
    BY <1>1, <1>2, <1>3, <1>4, Zenon DEF Link

LEMMA ChainAgree ==
    ASSUME NEW par, NEW par2, NEW fs \in Seq(Frame), NEW d,
           \A x \in Owned(fs) : par2[x] = par[x], Chain(par, fs, d)
    PROVE  Chain(par2, fs, d)
<1>1. PICK n \in Nat : n = Len(fs) /\ DOMAIN fs = 1 .. n
    OBVIOUS
<1>2. PICK p \in [0 .. n -> Stack] : Path(par, fs, p) /\ p[n] = d
    BY <1>1 DEF Chain
<1>3. ASSUME NEW i \in 1 .. n PROVE Link(par2, fs[i], p[i - 1], p[i])
    <2>1. i \in DOMAIN fs /\ fs[i] \in Frame /\ i - 1 \in 0 .. n /\ i \in 0 .. n
        BY <1>1
    <2>2. Mentions(fs[i]) \subseteq Owned(fs)
        BY <2>1, OwnedOf
    <2>3. p[i - 1] \in Stack /\ p[i] \in Stack
        BY <2>1
    <2>4. Link(par, fs[i], p[i - 1], p[i])
        BY <1>1, <1>2 DEF Path
    <2> QED
        BY <2>1, <2>2, <2>3, <2>4, LinkAgree
<1>4. Path(par2, fs, p)
    BY <1>1, <1>2, <1>3 DEF Path
<1> QED
    BY <1>1, <1>2, <1>4 DEF Chain

----------------------------------------------------------------------------
(* Chains that move to another place of the dynamic stack.                   *)

LEMMA JoinCancels ==
    ASSUME NEW c \in Stack, NEW d \in Stack, NEW e \in Stack, c \o d = c \o e
    PROVE  d = e
<1>1. From(c \o d, Len(c) + 1) = d /\ From(c \o e, Len(c) + 1) = e
    BY DropJoin
<1> QED
    BY <1>1

LEMMA JoinJoin ==
    ASSUME NEW c \in Stack, NEW d \in Stack, NEW e \in Stack
    PROVE  c \o (d \o e) = (c \o d) \o e
BY ConcatAssociative DEF Stack

LEMMA PushIsJoin ==
    ASSUME NEW d \in Stack, NEW e \in Elem
    PROVE  Append(d, e) = d \o <<e>> /\ <<e>> \in Stack /\ Append(d, e) \in Stack
BY DEF Stack

LEMMA JoinPush ==
    ASSUME NEW c \in Stack, NEW d \in Stack, NEW e \in Elem
    PROVE  c \o Append(d, e) = Append(c \o d, e) /\ Append(d, e) \in Stack
<1>1. Append(d, e) = d \o <<e>> /\ <<e>> \in Stack /\ Append(d, e) \in Stack
    BY PushIsJoin
<1>2. c \o d \in Stack
    BY JoinIs
<1>3. Append(c \o d, e) = (c \o d) \o <<e>>
    BY <1>2, PushIsJoin
<1>4. c \o (d \o <<e>>) = (c \o d) \o <<e>>
    BY <1>1, JoinJoin
<1> QED
    BY <1>1, <1>3, <1>4, Zenon

LEMMA StartsUnder ==
    ASSUME NEW c \in Stack, NEW d \in Stack, NEW e \in Stack
    PROVE  Starts(d, e) <=> Starts(c \o d, c \o e)
<1>1. PICK k \in Nat : k = Len(c)
    BY StackLen
<1>2. PICK m \in Nat : m = Len(d)
    BY StackLen
<1>3. PICK n \in Nat : n = Len(e)
    BY StackLen
<1>4. Len(c \o d) = k + m /\ Len(c \o e) = k + n
    BY <1>1, <1>2, <1>3, JoinIs
<1>5. CASE m <= n
    <2>1. m \in 0 .. Len(e)
        BY <1>3, <1>5
    <2>2. Take(c \o e, Len(c) + m) = c \o Take(e, m) /\ Take(e, m) \in Stack
        BY <2>1, TakeJoin, TakeIs
    <2>3. Take(c \o e, k + m) = c \o Take(e, m)
        BY <1>1, <2>2
    <2>4. c \o d = c \o Take(e, m) <=> d = Take(e, m)
        BY <2>2, JoinCancels
    <2>5. k + m <= k + n
        BY <1>5
    <2> QED
        BY <1>2, <1>3, <1>4, <1>5, <2>3, <2>4, <2>5 DEF Starts
<1>6. CASE ~(m <= n)
    <2>1. ~(k + m <= k + n)
        BY <1>6
    <2> QED
        BY <1>2, <1>3, <1>4, <1>6, <2>1 DEF Starts
<1> QED
    BY <1>5, <1>6

LEMMA ObeysUnder ==
    ASSUME NEW par, NEW par2, NEW c \in Stack, NEW d \in Stack, NEW m \in 0 .. Len(d),
           ObeysFrom(par, d, m), \A i \in m + 1 .. Len(d) : par2[d[i]] = c \o par[d[i]]
    PROVE  ObeysFrom(par2, c \o d, Len(c) + m)
<1>1. PICK k \in Nat : k = Len(c)
    BY StackLen
<1>2. PICK n \in Nat : n = Len(d)
    BY StackLen
<1>3. PICK g \in Stack : g = c \o d
    BY JoinIs
<1>4. Len(g) = k + n /\ \A i \in 1 .. n : g[k + i] = d[i]
    BY <1>1, <1>2, <1>3, JoinIs
<1>5. m \in Nat /\ m <= n
    BY <1>2
<1>6. ASSUME NEW i \in k + m + 1 .. k + n PROVE par2[g[i]] = Take(g, i - 1)
    <2>1. PICK j \in m + 1 .. n : i = k + j
        <3>1. i - k \in m + 1 .. n /\ i = k + (i - k)
            BY <1>5
        <3> QED
            BY <3>1
    <2>2. j \in 1 .. n /\ j - 1 \in 0 .. n /\ i - 1 = k + (j - 1)
        BY <1>5, <2>1
    <2>3. par2[d[j]] = c \o par[d[j]] /\ par[d[j]] = Take(d, j - 1)
        BY <1>2 DEF ObeysFrom
    <2>4. Take(g, k + (j - 1)) = c \o Take(d, j - 1)
        BY <1>1, <1>2, <1>3, <2>2, TakeJoin
    <2> QED
        BY <1>4, <2>1, <2>2, <2>3, <2>4
<1>7. ObeysFrom(par2, g, k + m)
    BY <1>4, <1>6 DEF ObeysFrom
<1> QED
    BY <1>1, <1>3, <1>7

LEMMA ObeysAbove ==
    ASSUME NEW par, NEW par2, NEW c \in Stack, NEW d \in Stack, NEW m \in 0 .. Len(d),
           ObeysFrom(par, c \o d, Len(c) + m),
           \A i \in m + 1 .. Len(d) : par2[d[i]] = From(par[d[i]], Len(c) + 1)
    PROVE  ObeysFrom(par2, d, m)
<1>1. PICK k \in Nat : k = Len(c)
    BY StackLen
<1>2. PICK n \in Nat : n = Len(d)
    BY StackLen
<1>3. PICK g \in Stack : g = c \o d
    BY JoinIs
<1>4. Len(g) = k + n /\ \A i \in 1 .. n : g[k + i] = d[i]
    BY <1>1, <1>2, <1>3, JoinIs
<1>5. m \in Nat /\ m <= n
    BY <1>2
<1>6. ASSUME NEW j \in m + 1 .. n PROVE par2[d[j]] = Take(d, j - 1)
    <2>1. j \in 1 .. n /\ j - 1 \in 0 .. n /\ k + j \in k + m + 1 .. k + n /\ k + j - 1 = k + (j - 1)
        BY <1>5
    <2>2. ObeysFrom(par, g, k + m)
        BY <1>1, <1>3
    <2>3. par[g[k + j]] = Take(g, k + (j - 1))
        BY <1>4, <2>1, <2>2 DEF ObeysFrom
    <2>4. Take(g, k + (j - 1)) = c \o Take(d, j - 1) /\ Take(d, j - 1) \in Stack
        BY <1>1, <1>2, <1>3, <2>1, TakeJoin, TakeIs
    <2>5. From(c \o Take(d, j - 1), Len(c) + 1) = Take(d, j - 1)
        BY <2>4, DropJoin
    <2>6. par[d[j]] = c \o Take(d, j - 1)
        BY <1>4, <2>1, <2>3, <2>4
    <2>7. par2[d[j]] = From(par[d[j]], Len(c) + 1)
        BY <1>2
    <2> QED
        BY <2>5, <2>6, <2>7
<1> QED
    BY <1>2, <1>6 DEF ObeysFrom

\* Frames that name a whole dynamic stack.
Jumps == {"unwind", "wind", "unwind_to_prompt"}
NoJumps(fs) == \A i \in DOMAIN fs : fs[i].kind \notin Jumps

LEMMA LinkUnder ==
    ASSUME NEW par, NEW par2, NEW c \in Stack, NEW f \in Frame, NEW lo \in Stack, NEW hi \in Stack,
           f.kind \notin Jumps, \A x \in Mentions(f) : par2[x] = c \o par[x], Link(par, f, lo, hi)
    PROVE  Link(par2, f, c \o lo, c \o hi)
<1>1. f.kind \in {"Halt", "Jit", "AfterIn", "AfterOut"} => c \o hi = c \o lo
    BY DEF Link
<1>2. f.kind = "AfterIn" => par2[Wind(f.name)] = c \o hi
    BY DEF Mentions, Link
<1>3. f.kind \in {"PopDyn", "PromptBarrier"} => c \o hi = Append(c \o lo, f.elem)
    <2> SUFFICES ASSUME f.kind \in {"PopDyn", "PromptBarrier"} PROVE c \o hi = Append(c \o lo, f.elem)
        OBVIOUS
    <2>1. hi = Append(lo, f.elem)
        BY DEF Link
    <2>2. f.elem \in Elem
        BY FrameParts
    <2>3. c \o Append(lo, f.elem) = Append(c \o lo, f.elem)
        BY <2>2, JoinPush
    <2> QED
        BY <2>1, <2>3, Zenon
<1>4. f.kind = "PopDyn" => f.elem.kind # "Prompt"
    BY DEF Link
<1>5. f.kind = "wind_delim" => c \o lo = (c \o hi) \o More(f)
    <2> SUFFICES ASSUME f.kind = "wind_delim" PROVE c \o lo = (c \o hi) \o More(f)
        OBVIOUS
    <2>1. lo = hi \o More(f)
        BY DEF Link
    <2>2. More(f) \in Stack
        BY MoreIs
    <2>3. c \o (hi \o More(f)) = (c \o hi) \o More(f)
        BY <2>2, JoinJoin
    <2> QED
        BY <2>1, <2>3, Zenon
<1>6. f.kind = "wind_delim" => ObeysFrom(par2, c \o lo, Len(c \o hi))
    <2> SUFFICES ASSUME f.kind = "wind_delim" PROVE ObeysFrom(par2, c \o lo, Len(c \o hi))
        OBVIOUS
    <2>1. lo = hi \o More(f) /\ ObeysFrom(par, lo, Len(hi)) /\ More(f) \in Stack
        BY MoreIs DEF Link
    <2>2. \A i \in Len(hi) + 1 .. Len(lo) : lo[i] \in Mentions(f)
        BY <2>1, RewoundMentioned
    <2>3. Len(lo) = Len(hi) + Len(More(f)) /\ Len(hi) \in Nat /\ Len(More(f)) \in Nat
        BY <2>1, JoinIs, StackLen
    <2>4. Len(hi) \in 0 .. Len(lo)
        BY <2>3
    <2>5. ObeysFrom(par2, c \o lo, Len(c) + Len(hi))
        BY <2>1, <2>2, <2>4, ObeysUnder
    <2>6. Len(c \o hi) = Len(c) + Len(hi)
        BY JoinIs
    <2> QED
        BY <2>5, <2>6
<1>7. f.kind \in {"unwind_to_exception_handler", "reraise_exception"} => Starts(c \o hi, c \o lo)
    BY StartsUnder DEF Link
<1>8. f.kind \notin {"unwind", "wind", "unwind_to_prompt"}
    BY DEF Jumps
<1> QED
    BY <1>1, <1>2, <1>3, <1>4, <1>5, <1>6, <1>7, <1>8, Zenon DEF Link

LEMMA LinkAbove ==
    ASSUME NEW par, NEW par2, NEW c \in Stack, NEW f \in Frame, NEW lo \in Stack, NEW hi \in Stack,
           f.kind \notin Jumps, \A x \in Mentions(f) : par2[x] = From(par[x], Len(c) + 1),
           Link(par, f, c \o lo, c \o hi)
    PROVE  Link(par2, f, lo, hi)
<1>1. f.kind \in {"Halt", "Jit", "AfterIn", "AfterOut"} => hi = lo
    BY JoinCancels DEF Link
<1>2. f.kind = "AfterIn" => par2[Wind(f.name)] = hi
    BY DropJoin DEF Mentions, Link
<1>3. f.kind \in {"PopDyn", "PromptBarrier"} => hi = Append(lo, f.elem)
    <2> SUFFICES ASSUME f.kind \in {"PopDyn", "PromptBarrier"} PROVE hi = Append(lo, f.elem)
        OBVIOUS
    <2>1. c \o hi = Append(c \o lo, f.elem) /\ f.elem \in Elem
        BY FrameParts DEF Link
    <2>2. c \o Append(lo, f.elem) = Append(c \o lo, f.elem) /\ Append(lo, f.elem) \in Stack
        BY <2>1, JoinPush
    <2> QED
        BY <2>1, <2>2, JoinCancels
<1>4. f.kind = "PopDyn" => f.elem.kind # "Prompt"
    BY DEF Link
<1>5. f.kind = "wind_delim" => lo = hi \o More(f)
    <2> SUFFICES ASSUME f.kind = "wind_delim" PROVE lo = hi \o More(f)
        OBVIOUS
    <2>1. c \o lo = (c \o hi) \o More(f) /\ More(f) \in Stack
        BY MoreIs DEF Link
    <2>3. PICK g \in Stack : g = More(f)
        BY <2>1
    <2>4. c \o (hi \o g) = (c \o hi) \o g
        BY JoinJoin, Zenon
    <2>5. hi \o g \in Stack
        BY JoinIs
    <2>2. (c \o hi) \o More(f) = c \o (hi \o More(f)) /\ hi \o More(f) \in Stack
        BY <2>3, <2>4, <2>5, Zenon
    <2> QED
        BY <2>1, <2>2, JoinCancels
<1>6. f.kind = "wind_delim" => ObeysFrom(par2, lo, Len(hi))
    <2> SUFFICES ASSUME f.kind = "wind_delim" PROVE ObeysFrom(par2, lo, Len(hi))
        OBVIOUS
    <2>1. lo = hi \o More(f) /\ ObeysFrom(par, c \o lo, Len(c \o hi)) /\ More(f) \in Stack
        BY <1>5, MoreIs DEF Link
    <2>2. \A i \in Len(hi) + 1 .. Len(lo) : lo[i] \in Mentions(f)
        BY <2>1, RewoundMentioned
    <2>3. Len(lo) = Len(hi) + Len(More(f)) /\ Len(hi) \in Nat /\ Len(More(f)) \in Nat
        BY <2>1, JoinIs, StackLen
    <2>4. Len(hi) \in 0 .. Len(lo)
        BY <2>3
    <2>5. Len(c \o hi) = Len(c) + Len(hi)
        BY JoinIs
    <2>6. ObeysFrom(par, c \o lo, Len(c) + Len(hi))
        BY <2>1, <2>5
    <2> QED
        BY <2>2, <2>4, <2>6, ObeysAbove
<1>7. f.kind \in {"unwind_to_exception_handler", "reraise_exception"} => Starts(hi, lo)
    BY StartsUnder DEF Link
<1>8. f.kind \notin {"unwind", "wind", "unwind_to_prompt"}
    BY DEF Jumps
<1> QED
    BY <1>1, <1>2, <1>3, <1>4, <1>5, <1>6, <1>7, <1>8, Zenon DEF Link

\* Captured frames go on top of a continuation.
LEMMA ChainJoin ==
    ASSUME NEW par, NEW par2, NEW fs \in Seq(Frame), NEW gs \in Seq(Frame), NEW c \in Stack, NEW d,
           Chain(par2, fs, c), Chain(par, gs, d), NoJumps(gs),
           \A x \in Owned(gs) : par2[x] = c \o par[x]
    PROVE  Chain(par2, fs \o gs, c \o d)
<1>1. PICK n \in Nat : n = Len(fs) /\ DOMAIN fs = 1 .. n
    OBVIOUS
<1>2. PICK m \in Nat : m = Len(gs) /\ DOMAIN gs = 1 .. m
    OBVIOUS
<1>3. PICK p \in [0 .. n -> Stack] : Path(par2, fs, p) /\ p[n] = c
    BY <1>1 DEF Chain
<1>4. PICK q \in [0 .. m -> Stack] : Path(par, gs, q) /\ q[m] = d
    BY <1>2 DEF Chain
<1>19. fs \o gs \in Seq(Frame)
    OBVIOUS
<1>5. PICK hs \in Seq(Frame) : hs = fs \o gs
    BY <1>19
<1>6. /\ Len(hs) = n + m /\ \A i \in 1 .. n : hs[i] = fs[i]
      /\ \A i \in 1 .. m : hs[n + i] = gs[i]
    BY <1>1, <1>2, <1>5
<1> DEFINE r == [i \in 0 .. n + m |-> IF i <= n THEN p[i] ELSE c \o q[i - n]]
<1>7. \A i \in 0 .. m : q[i] \in Stack /\ c \o q[i] \in Stack
    BY JoinIs
<1>8. r \in [0 .. n + m -> Stack]
    <2>1. ASSUME NEW i \in 0 .. n + m PROVE (IF i <= n THEN p[i] ELSE c \o q[i - n]) \in Stack
        <3>1. CASE i <= n
            <4>1. i \in 0 .. n
                BY <3>1
            <4> QED
                BY <3>1, <4>1
        <3>2. CASE ~(i <= n)
            <4>1. i - n \in 0 .. m
                BY <3>2
            <4> QED
                BY <1>7, <3>2, <4>1
        <3> QED
            BY <3>1, <3>2
    <2> QED
        BY <2>1
<1>9. \A i \in 0 .. n : r[i] = p[i]
    OBVIOUS
<1>10. q[0] = <<>> /\ p[0] = <<>>
    BY <1>3, <1>4 DEF Path
<1>11. c \o <<>> = c
    BY DEF Stack
<1>12. \A i \in 0 .. m : r[n + i] = c \o q[i]
    <2> TAKE i \in 0 .. m
    <2>1. CASE i = 0
        <3>1. r[n + i] = p[n]
            BY <2>1
        <3> QED
            BY <1>3, <1>10, <1>11, <2>1, <3>1
    <2>2. CASE i # 0
        <3>1. n + i \in 0 .. n + m /\ ~(n + i <= n) /\ n + i - n = i
            BY <2>2
        <3> QED
            BY <3>1
    <2> QED
        BY <2>1, <2>2
<1> HIDE DEF r
<1>13. ASSUME NEW i \in 1 .. n PROVE Link(par2, hs[i], r[i - 1], r[i])
    <2>1. i \in 0 .. n /\ i - 1 \in 0 .. n
        OBVIOUS
    <2>2. Link(par2, fs[i], p[i - 1], p[i])
        BY <1>1, <1>3 DEF Path
    <2> QED
        BY <1>6, <1>9, <2>1, <2>2
<1>14. ASSUME NEW i \in 1 .. m, NEW l \in Nat, l = n + i PROVE Link(par2, hs[l], r[l - 1], r[l])
    <2>1. i \in 0 .. m /\ i - 1 \in 0 .. m /\ l - 1 = n + (i - 1) /\ i \in DOMAIN gs
        BY <1>2, <1>14
    <2>2. Link(par, gs[i], q[i - 1], q[i])
        BY <1>2, <1>4 DEF Path
    <2>3. q[i] \in Stack /\ q[i - 1] \in Stack /\ gs[i] \in Frame /\ gs[i].kind \notin Jumps
        BY <1>7, <2>1 DEF NoJumps
    <2>4. \A x \in Mentions(gs[i]) : par2[x] = c \o par[x]
        BY <2>1, OwnedOf
    <2>5. Link(par2, gs[i], c \o q[i - 1], c \o q[i])
        BY <2>2, <2>3, <2>4, LinkUnder
    <2>6. r[l] = c \o q[i] /\ r[l - 1] = c \o q[i - 1] /\ hs[l] = gs[i]
        BY <1>6, <1>12, <1>14, <2>1
    <2> QED
        BY <2>5, <2>6, Zenon
<1>15. ASSUME NEW i \in 1 .. n + m PROVE Link(par2, hs[i], r[i - 1], r[i])
    <2>1. CASE i \in 1 .. n
        BY <1>13, <2>1
    <2>2. CASE i \notin 1 .. n
        <3>1. PICK j \in 1 .. m : i = n + j
            <4>1. i - n \in 1 .. m /\ i = n + (i - n)
                BY <2>2
            <4> QED
                BY <4>1
        <3>2. i \in Nat
            OBVIOUS
        <3> QED
            BY <1>14, <3>1, <3>2, Zenon
    <2> QED
        BY <2>1, <2>2
<1>16. r[0] = <<>> /\ r[n + m] = c \o d
    <2>1. 0 \in 0 .. n /\ m \in 0 .. m
        OBVIOUS
    <2> QED
        BY <1>4, <1>9, <1>10, <1>12, <2>1
<1>17. Path(par2, hs, r)
    BY <1>6, <1>15, <1>16 DEF Path
<1>18. Chain(par2, hs, c \o d)
    BY <1>6, <1>8, <1>16, <1>17 DEF Chain
<1> QED
    BY <1>5, <1>18

----------------------------------------------------------------------------
(* The barrier of a prompt on the dynamic stack.                             *)

LEMMA BarrierIs == ASSUME NEW f \in Frame, f.kind = "PromptBarrier" PROVE f = Barrier(f.elem)
<1>1. f \in OwnerFrame
    BY FrameKinds DEF Frame, PlainFrame, JumpFrame, PromptFrame
<1>2. \E e : f = Barrier(e)
    BY <1>1, FrameKinds DEF OwnerFrame
<1> QED
    BY <1>2 DEF Barrier

LEMMA StartsKeeps ==
    ASSUME NEW d \in Stack, NEW e \in Stack, Starts(d, e), NEW n \in 0 .. Len(d)
    PROVE  n <= Len(e) /\ Take(e, n) = Take(d, n)
<1>1. PICK k \in Nat : k = Len(d)
    BY StackLen
<1>2. PICK m \in Nat : m = Len(e)
    BY StackLen
<1>3. k <= m /\ d = Take(e, k)
    BY <1>1, <1>2 DEF Starts
<1>4. k \in 0 .. Len(e) /\ n \in 0 .. k
    BY <1>1, <1>2, <1>3
<1>5. Take(Take(e, k), n) = Take(e, n)
    BY <1>4, TakeTake
<1> QED
    BY <1>2, <1>3, <1>4, <1>5

LEMMA EnteredKeeps ==
    ASSUME NEW d \in Stack, NEW w \in Winder \union {None}, NEW n \in 0 .. Len(d)
    PROVE  n \in 0 .. Len(Entered(d, w)) /\ Take(Entered(d, w), n) = Take(d, n)
<1>1. CASE w = None
    BY <1>1 DEF Entered
<1>2. CASE w # None
    <2>1. PICK e \in Elem : e = Wind(w)
        BY <1>2, ElemsMade
    <2>2. Entered(d, w) = d \o <<e>> /\ <<e>> \in Stack
        BY <1>2, <2>1, PushIsJoin DEF Entered
    <2>3. Len(d \o <<e>>) = Len(d) + 1 /\ Len(d) \in Nat
        BY <2>2, StackLen DEF Stack
    <2>4. Take(d \o <<e>>, n) = Take(d, n)
        BY <2>2, TakeJoin
    <2> QED
        BY <2>2, <2>3, <2>4
<1> QED
    BY <1>1, <1>2

LEMMA KeptBelow ==
    ASSUME NEW par, NEW f \in Frame, NEW lo \in Stack, NEW hi \in Stack, Link(par, f, lo, hi),
           f.kind # "unwind", NEW n \in 1 .. Len(hi), hi[n].kind = "Prompt",
           ~(n <= Len(lo) /\ Take(lo, n) = Take(hi, n))
    PROVE  f = Barrier(hi[n]) /\ hi = Take(hi, n) /\ lo = Take(hi, n - 1)
<1>1. PICK k \in Nat : k = Len(hi)
    BY StackLen
<1>2. n \in 0 .. Len(hi) /\ n \in Nat /\ n >= 1 /\ n <= k
    BY <1>1
<1>3. CASE hi = lo
    BY <1>1, <1>2, <1>3
<1>4. CASE Starts(hi, lo)
    BY <1>2, <1>4, StartsKeeps
<1>5. CASE f.kind = "wind"
    <2>1. f.winder \in Winder \union {None} /\ lo = f.dest /\ Starts(Entered(hi, f.winder), lo)
        BY <1>5, FrameParts DEF Link
    <2>2. n \in 0 .. Len(Entered(hi, f.winder)) /\ Take(Entered(hi, f.winder), n) = Take(hi, n)
        BY <1>2, <2>1, EnteredKeeps
    <2>3. Entered(hi, f.winder) \in Stack
        BY <2>1, EnteredTyped
    <2> QED
        BY <2>1, <2>2, <2>3, StartsKeeps
<1>6. CASE f.kind = "wind_delim"
    <2>1. lo = hi \o More(f) /\ More(f) \in Stack
        BY <1>6, MoreIs DEF Link
    <2>2. Take(lo, n) = Take(hi, n)
        BY <1>2, <2>1, TakeJoin
    <2>3. Len(lo) = Len(hi) + Len(More(f)) /\ Len(More(f)) \in Nat
        BY <2>1, JoinIs, StackLen
    <2>4. n <= Len(lo)
        BY <1>1, <1>2, <2>3
    <2> QED
        BY <2>2, <2>4
<1>7. CASE f.kind \in {"PopDyn", "PromptBarrier"}
    <2>1. PICK e \in Elem : e = f.elem
        BY <1>7, FrameParts
    <2>2. hi = lo \o <<e>> /\ <<e>> \in Stack
        BY <1>7, <2>1, PushIsJoin DEF Link
    <2>3. PICK m \in Nat : m = Len(lo)
        BY StackLen
    <2>4. k = m + 1 /\ hi[m + 1] = e
        BY <1>1, <2>2, <2>3 DEF Stack
    <2>5. n = m + 1
        <3>1. CASE n <= m
            <4>1. n \in 0 .. Len(lo)
                BY <1>2, <2>3, <3>1
            <4>2. Take(hi, n) = Take(lo, n)
                BY <2>2, <4>1, TakeJoin
            <4> QED
                BY <2>3, <3>1, <4>2
        <3>2. CASE ~(n <= m)
            BY <1>2, <2>4, <3>2
        <3> QED
            BY <3>1, <3>2
    <2>6. f.kind = "PromptBarrier"
        BY <1>7, <2>1, <2>4, <2>5 DEF Link
    <2>7. f = Barrier(hi[n])
        BY <2>1, <2>4, <2>5, <2>6, BarrierIs
    <2>8. Take(hi, n) = hi
        BY <1>1, <2>4, <2>5, TakeAll
    <2>9. Take(hi, m) = Take(lo, m) /\ Take(lo, m) = lo
        <3>1. m \in 0 .. Len(lo)
            BY <2>3
        <3> QED
            BY <2>2, <2>3, <3>1, TakeJoin, TakeAll
    <2>10. n - 1 = m
        BY <2>5
    <2> QED
        BY <2>7, <2>8, <2>9, <2>10
<1>8. CASE f.kind = "unwind_to_prompt"
    BY <1>4, <1>8 DEF Link
<1>9. CASE f.kind \in {"unwind_to_exception_handler", "reraise_exception"}
    BY <1>4, <1>9 DEF Link
<1>10. CASE f.kind \in {"Halt", "Jit", "AfterIn", "AfterOut"}
    BY <1>3, <1>10 DEF Link
<1>11. f.kind \in {"Halt", "Jit", "AfterIn", "AfterOut", "PopDyn", "PromptBarrier", "unwind",
                   "wind", "unwind_to_prompt", "wind_delim", "unwind_to_exception_handler",
                   "reraise_exception"}
    BY FrameKinds DEF Frame, PlainFrame, OwnerFrame, JumpFrame, PromptFrame
<1> QED
    BY <1>5, <1>6, <1>7, <1>8, <1>9, <1>10, <1>11

NoUnwind(fs) == \A i \in DOMAIN fs : fs[i].kind # "unwind"

\* Frame b is the barrier of the prompt at position n of s; the frames above it
\* need that prompt, and what is below it, to stay.
FoundAt(fs, p, s, n, b) ==
    /\ fs[b] = Barrier(s[n])
    /\ p[b] = Take(s, n) /\ p[b - 1] = Take(s, n - 1)
    /\ \A j \in b .. Len(fs) : n <= Len(p[j]) /\ Take(p[j], n) = Take(s, n)

LEMMA PromptFound ==
    ASSUME NEW par, NEW fs \in Seq(Frame), NEW p \in [0 .. Len(fs) -> Stack], Path(par, fs, p),
           NoUnwind(fs), NEW s \in Stack, p[Len(fs)] = s, NEW n \in 1 .. Len(s), s[n].kind = "Prompt"
    PROVE  \E b \in 1 .. Len(fs) : FoundAt(fs, p, s, n, b)
<1>1. PICK m \in Nat : m = Len(fs) /\ DOMAIN fs = 1 .. m
    OBVIOUS
<1>2. n \in Nat /\ n >= 1 /\ n <= Len(s) /\ n \in 0 .. Len(s) /\ Len(s) \in Nat
    BY StackLen
<1>3. \A i \in 0 .. m : p[i] \in Stack
    BY <1>1
<1> DEFINE K(i) == n <= Len(p[i]) /\ Take(p[i], n) = Take(s, n)
           B == {i \in 0 .. m : \A j \in i .. m : K(j)}
<1>4. m \in B
    <2>1. \A j \in m .. m : j = m
        BY <1>1
    <2> QED
        BY <1>1, <1>2, <2>1
<1>5. B \subseteq Nat /\ B # {}
    <2>1. \A i \in B : i \in 0 .. m
        BY Zenon
    <2> HIDE DEF B
    <2> QED
        BY <1>4, <2>1
<1>6. Min(B) \in B /\ \A y \in B : Min(B) <= y
    BY <1>5, MinOf, Zenon
<1>7. PICK b \in B : \A y \in B : b <= y
    BY <1>6, Zenon
<1>8. b \in 0 .. m /\ \A j \in b .. m : K(j)
    OBVIOUS
<1>9. b # 0
    <2>1. p[0] = <<>>
        BY DEF Path
    <2>2. ~K(0)
        BY <1>2, <2>1
    <2> QED
        BY <1>8, <2>2
<1>10. b - 1 \in 0 .. m /\ b \in 1 .. m /\ b \in b .. m
    BY <1>8, <1>9
<1>11. ~K(b - 1)
    <2> SUFFICES ASSUME K(b - 1) PROVE FALSE
        OBVIOUS
    <2>1. \A j \in b - 1 .. m : j = b - 1 \/ j \in b .. m
        BY <1>10
    <2>2. b - 1 \in B
        BY <1>8, <1>10, <2>1
    <2> HIDE DEF B, K
    <2>3. b <= b - 1
        BY <1>7, <2>2
    <2>4. b \in Nat
        BY <1>8
    <2> QED
        BY <2>3, <2>4
<1>12. K(b)
    BY <1>8, <1>10
<1> HIDE DEF B
<1>13. PICK hi \in Stack : hi = p[b]
    BY <1>3, <1>8
<1>14. PICK lo \in Stack : lo = p[b - 1]
    BY <1>3, <1>10
<1>15. n <= Len(hi) /\ Take(hi, n) = Take(s, n)
    BY <1>12, <1>13
<1>16. n \in 1 .. Len(hi) /\ n \in 0 .. Len(hi)
    BY <1>2, <1>15, StackLen
<1>17. hi[n] = s[n]
    <2>1. Take(hi, n)[n] = hi[n] /\ Take(s, n)[n] = s[n]
        <3>1. n \in 1 .. n
            BY <1>2
        <3> QED
            BY <1>2, <1>16, <3>1, TakeIs
    <2> QED
        BY <1>15, <2>1
<1>18. ~(n <= Len(lo) /\ Take(lo, n) = Take(hi, n))
    BY <1>11, <1>14, <1>15
<1>19. Link(par, fs[b], lo, hi) /\ fs[b] \in Frame /\ fs[b].kind # "unwind"
    BY <1>1, <1>10, <1>13, <1>14 DEF Path, NoUnwind
<1>20. fs[b] = Barrier(hi[n]) /\ hi = Take(hi, n) /\ lo = Take(hi, n - 1)
    BY <1>16, <1>17, <1>18, <1>19, KeptBelow
<1>21. Take(hi, n - 1) = Take(s, n - 1)
    <2>1. n - 1 \in 0 .. n
        BY <1>2
    <2>2. Take(Take(hi, n), n - 1) = Take(hi, n - 1) /\ Take(Take(s, n), n - 1) = Take(s, n - 1)
        BY <1>2, <1>16, <2>1, TakeTake
    <2> QED
        BY <1>15, <2>2
<1>22. FoundAt(fs, p, s, n, b)
    BY <1>1, <1>8, <1>13, <1>14, <1>15, <1>17, <1>20, <1>21 DEF FoundAt
<1> QED
    BY <1>1, <1>10, <1>22

LEMMA FramesTake ==
    ASSUME NEW fs \in Seq(Frame), NEW n \in 0 .. Len(fs)
    PROVE  /\ Take(fs, n) \in Seq(Frame) /\ Len(Take(fs, n)) = n
           /\ \A i \in 1 .. n : Take(fs, n)[i] = fs[i]
BY DEF Take

LEMMA FramesFrom ==
    ASSUME NEW fs \in Seq(Frame), NEW b \in Nat, NEW m \in Nat, Len(fs) = b + m
    PROVE  /\ From(fs, b + 1) \in Seq(Frame) /\ Len(From(fs, b + 1)) = m
           /\ \A i \in 1 .. m : From(fs, b + 1)[i] = fs[b + i]
<1>1. From(fs, b + 1) = SubSeq(fs, b + 1, b + m)
    BY DEF From
<1>2. /\ SubSeq(fs, b + 1, b + m) \in Seq(Frame)
      /\ Len(SubSeq(fs, b + 1, b + m)) = IF b + 1 <= b + m THEN b + m - (b + 1) + 1 ELSE 0
      /\ \A i \in 1 .. b + m - (b + 1) + 1 : SubSeq(fs, b + 1, b + m)[i] = fs[b + 1 + i - 1]
    <2>1. b + 1 \in 1 .. Len(fs) + 1 /\ b + m \in b + 1 - 1 .. Len(fs)
        OBVIOUS
    <2> QED
        BY <2>1, SubSeqProperties
<1>3. b + m - (b + 1) + 1 = m /\ \A i \in 1 .. m : b + 1 + i - 1 = b + i
    OBVIOUS
<1>4. Len(SubSeq(fs, b + 1, b + m)) = m
    BY <1>2
<1>5. \A i \in 1 .. m : SubSeq(fs, b + 1, b + m)[i] = fs[b + i]
    BY <1>2, <1>3
<1> QED
    BY <1>1, <1>2, <1>4, <1>5

\* What is left of a chain below frame b, and what is captured above it.
LEMMA ChainBelow ==
    ASSUME NEW par, NEW fs \in Seq(Frame), NEW p \in [0 .. Len(fs) -> Stack], Path(par, fs, p),
           NEW b \in 0 .. Len(fs)
    PROVE  Chain(par, Take(fs, b), p[b])
<1>1. PICK n \in Nat : n = Len(fs)
    OBVIOUS
<1>2. PICK gs \in Seq(Frame) : gs = Take(fs, b)
    BY FramesTake
<1>3. Len(gs) = b /\ \A i \in 1 .. b : gs[i] = fs[i]
    BY <1>2, FramesTake
<1> DEFINE q == [i \in 0 .. b |-> p[i]]
<1>4. b \in 0 .. n /\ \A i \in 0 .. b : i \in 0 .. n /\ p[i] \in Stack
    BY <1>1
<1>5. q \in [0 .. b -> Stack] /\ \A i \in 0 .. b : q[i] = p[i]
    BY <1>4
<1> HIDE DEF q
<1>6. ASSUME NEW i \in 1 .. b PROVE Link(par, gs[i], q[i - 1], q[i])
    <2>1. i \in 0 .. b /\ i - 1 \in 0 .. b /\ i \in 1 .. n
        BY <1>4
    <2>2. Link(par, fs[i], p[i - 1], p[i])
        BY <1>1, <2>1 DEF Path
    <2> QED
        BY <1>3, <1>5, <2>1, <2>2
<1>7. 0 \in 0 .. b /\ b \in 0 .. b
    BY <1>4
<1>8. Path(par, gs, q)
    BY <1>3, <1>5, <1>6, <1>7 DEF Path
<1>9. q[b] = p[b]
    BY <1>5, <1>7
<1>10. Chain(par, gs, p[b])
    BY <1>3, <1>5, <1>8, <1>9 DEF Chain
<1> QED
    BY <1>2, <1>10

LEMMA ChainAbove ==
    ASSUME NEW par, NEW par2, NEW fs \in Seq(Frame), NEW p \in [0 .. Len(fs) -> Stack],
           Path(par, fs, p), NoJumps(fs), NEW s \in Stack, p[Len(fs)] = s, NEW n \in 1 .. Len(s),
           NEW b \in 1 .. Len(fs), FoundAt(fs, p, s, n, b),
           \A x \in Elem : par2[x] = From(par[x], n + 1)
    PROVE  Chain(par2, From(fs, b + 1), From(s, n + 1))
<1>1. PICK k \in Nat : k = Len(fs) /\ DOMAIN fs = 1 .. k
    OBVIOUS
<1>2. PICK m \in Nat : k = b + m
    <2>1. k - b \in Nat /\ k = b + (k - b)
        BY <1>1
    <2> QED
        BY <2>1
<1>17. b \in Nat /\ Len(fs) = b + m
    BY <1>1, <1>2
<1>3. PICK gs \in Seq(Frame) : gs = From(fs, b + 1)
    BY <1>17, FramesFrom
<1>4. Len(gs) = m /\ \A i \in 1 .. m : gs[i] = fs[b + i]
    BY <1>3, <1>17, FramesFrom
<1>5. n \in 0 .. Len(s) /\ n \in Nat
    BY StackLen
<1>6. PICK c \in Stack : c = Take(s, n)
    BY <1>5, TakeIs
<1>7. Len(c) = n
    BY <1>5, <1>6, TakeIs
<1> DEFINE q == [i \in 0 .. m |-> From(p[b + i], n + 1)]
<1>8. \A i \in 0 .. m : b + i \in b .. k /\ b + i \in 0 .. k
    BY <1>1, <1>2
<1>9. ASSUME NEW i \in 0 .. m
      PROVE  From(p[b + i], n + 1) \in Stack /\ p[b + i] = c \o From(p[b + i], n + 1)
    <2>1. PICK d \in Stack : d = p[b + i]
        BY <1>1, <1>8
    <2>2. n <= Len(d) /\ Take(d, n) = c
        BY <1>1, <1>6, <1>8, <2>1 DEF FoundAt
    <2>3. n \in 0 .. Len(d)
        BY <1>5, <2>2, StackLen
    <2>4. From(d, n + 1) \in Stack /\ d = Take(d, n) \o From(d, n + 1)
        BY <2>3, SplitStack
    <2> QED
        BY <2>1, <2>2, <2>4
<1>10. q \in [0 .. m -> Stack] /\ \A i \in 0 .. m : q[i] = From(p[b + i], n + 1)
    BY <1>9
<1>11. \A i \in 0 .. m : p[b + i] = c \o q[i] /\ q[i] \in Stack
    BY <1>9, <1>10
<1> HIDE DEF q
<1>12. q[0] = <<>>
    <2>1. 0 \in 0 .. m /\ b + 0 = b
        BY <1>2
    <2>2. c = c \o q[0] /\ q[0] \in Stack
        BY <1>6, <1>11, <2>1 DEF FoundAt
    <2>3. <<>> \in Stack /\ c \o <<>> = c
        BY DEF Stack
    <2> QED
        BY <2>2, <2>3, JoinCancels
<1>13. q[m] = From(s, n + 1)
    <2>1. m \in 0 .. m /\ b + m = Len(fs)
        BY <1>1, <1>2
    <2> QED
        BY <1>10, <2>1
<1>14. ASSUME NEW i \in 1 .. m PROVE Link(par2, gs[i], q[i - 1], q[i])
    <2>1. /\ i \in 0 .. m /\ i - 1 \in 0 .. m /\ b + i \in 1 .. k /\ b + i - 1 = b + (i - 1)
        BY <1>1, <1>2
    <2>2. PICK l \in 1 .. k : l = b + i /\ l - 1 = b + (i - 1)
        BY <2>1
    <2>3. Link(par, fs[l], p[l - 1], p[l])
        BY <1>1 DEF Path
    <2>4. p[l] = c \o q[i] /\ p[l - 1] = c \o q[i - 1] /\ q[i] \in Stack /\ q[i - 1] \in Stack
        BY <1>11, <2>1, <2>2
    <2>5. fs[l] \in Frame /\ fs[l].kind \notin Jumps /\ Mentions(fs[l]) \subseteq Elem
        BY <1>1, MentionsTyped DEF NoJumps
    <2>6. \A x \in Mentions(fs[l]) : par2[x] = From(par[x], Len(c) + 1)
        BY <1>7, <2>5
    <2>7. Link(par, fs[l], c \o q[i - 1], c \o q[i])
        BY <2>3, <2>4, Zenon
    <2>8. Link(par2, fs[l], q[i - 1], q[i])
        BY <2>4, <2>5, <2>6, <2>7, LinkAbove
    <2>9. gs[i] = fs[l]
        BY <1>4, <2>2
    <2> QED
        BY <2>8, <2>9
<1>15. Path(par2, gs, q)
    BY <1>4, <1>12, <1>14 DEF Path
<1>16. Chain(par2, gs, From(s, n + 1))
    BY <1>4, <1>10, <1>13, <1>15 DEF Chain
<1> QED
    BY <1>3, <1>16

----------------------------------------------------------------------------
(* The invariant: some paths explain every continuation that may run.        *)

\* No jump waits below an abort: the out thunks of a jump do not abort.
Quiet(fs) ==
    \A i, j \in DOMAIN fs : i < j /\ fs[j].kind = "unwind_to_prompt" => fs[i].kind \notin Jumps

Sound(par, fs, d) == Chain(par, fs, d) /\ Obeys(par, d) /\ Quiet(fs)

Coherent(par) ==
    /\ Sound(par, frames, dyn)
    /\ \A i \in DOMAIN outer : Sound(par, outer[i].frames, outer[i].dyn)
    /\ \A k \in Cont : conts[k] # None => Sound(par, conts[k].frames, conts[k].dyn)

\* What an abort captured explains itself, whatever it will be resumed on.
Resumable ==
    \A k \in Delim : delims[k] # None =>
        \E par \in [Elem -> Stack] :
            Sound(par, delims[k].frames, delims[k].dyn) /\ NoJumps(delims[k].frames)

Arranged == (\E par \in [Elem -> Stack] : Coherent(par)) /\ Resumable

LEMMA QuietPush ==
    ASSUME NEW fs \in Seq(Frame), NEW f \in Frame, Quiet(fs),
           f.kind = "unwind_to_prompt" => NoJumps(fs)
    PROVE  Quiet(Append(fs, f))
<1>1. PICK n \in Nat : n = Len(fs) /\ DOMAIN fs = 1 .. n
    OBVIOUS
<1>6. Append(fs, f) \in Seq(Frame)
    OBVIOUS
<1>2. PICK gs \in Seq(Frame) : gs = Append(fs, f)
    BY <1>6
<1>3. DOMAIN gs = 1 .. n + 1 /\ gs[n + 1] = f /\ \A i \in 1 .. n : gs[i] = fs[i]
    BY <1>1, <1>2
<1>4. ASSUME NEW i \in 1 .. n + 1, NEW j \in 1 .. n + 1, i < j, gs[j].kind = "unwind_to_prompt"
      PROVE  gs[i].kind \notin Jumps
    <2>1. i \in 1 .. n /\ gs[i] = fs[i]
        BY <1>3, <1>4
    <2>2. CASE j \in 1 .. n
        BY <1>1, <1>3, <1>4, <2>1, <2>2 DEF Quiet
    <2>3. CASE j = n + 1
        BY <1>1, <1>3, <1>4, <2>1, <2>3 DEF NoJumps
    <2>4. j \in 1 .. n \/ j = n + 1
        BY <1>1
    <2> QED
        BY <2>2, <2>3, <2>4
<1>5. Quiet(gs)
    BY <1>3, <1>4 DEF Quiet
<1> QED
    BY <1>2, <1>5

LEMMA QuietPart ==
    ASSUME NEW fs \in Seq(Frame), NEW gs \in Seq(Frame), Quiet(fs), Len(gs) <= Len(fs),
           \A i \in 1 .. Len(gs) : gs[i] = fs[i]
    PROVE  Quiet(gs)
<1>1. PICK n \in Nat : n = Len(fs) /\ DOMAIN fs = 1 .. n
    OBVIOUS
<1>2. PICK m \in Nat : m = Len(gs) /\ DOMAIN gs = 1 .. m
    OBVIOUS
<1>3. \A i \in 1 .. m : i \in 1 .. n /\ gs[i] = fs[i]
    BY <1>1, <1>2
<1> QED
    BY <1>1, <1>2, <1>3 DEF Quiet

LEMMA SoundPush ==
    ASSUME NEW par, NEW fs \in Seq(Frame), NEW f \in Frame, NEW d \in Stack, NEW e \in Stack,
           Chain(par, fs, d), Quiet(fs), Link(par, f, d, e), Obeys(par, e),
           f.kind = "unwind_to_prompt" => NoJumps(fs)
    PROVE  Sound(par, Append(fs, f), e)
BY ChainPush, QuietPush DEF Sound

LEMMA SoundPop ==
    ASSUME NEW par, NEW fs \in Seq(Frame), fs # <<>>, NEW d \in Stack, Sound(par, fs, d)
    PROVE  /\ \E lo \in Stack : Chain(par, Front(fs), lo) /\ Link(par, Last(fs), lo, d)
           /\ Quiet(Front(fs))
           /\ Last(fs).kind = "unwind_to_prompt" => NoJumps(Front(fs))
<1>1. Chain(par, fs, d) /\ Quiet(fs)
    BY DEF Sound
<1>2. PICK n \in Nat : n = Len(fs) /\ n >= 1 /\ DOMAIN fs = 1 .. n
    BY SplitTop
<1>3. PICK gs \in Seq(Frame) : gs = Front(fs)
    BY SplitTop
<1>4. Len(gs) = n - 1 /\ DOMAIN gs = 1 .. n - 1 /\ (\A i \in 1 .. n - 1 : gs[i] = fs[i]) /\ Last(fs) = fs[n]
    BY <1>2, <1>3, SplitTop
<1>5. Quiet(gs)
    BY <1>1, <1>2, <1>4, QuietPart
<1>6. ASSUME Last(fs).kind = "unwind_to_prompt" PROVE NoJumps(gs)
    <2>1. n \in 1 .. n /\ \A i \in 1 .. n - 1 : i \in 1 .. n /\ i < n
        BY <1>2
    <2> QED
        BY <1>1, <1>2, <1>4, <1>6, <2>1 DEF Quiet, NoJumps
<1> QED
    BY <1>1, <1>3, <1>5, <1>6, ChainPop

LEMMA SoundAgree ==
    ASSUME NEW par, NEW par2, NEW fs \in Seq(Frame), NEW d \in Stack, Sound(par, fs, d),
           \A x \in ToSet(d) \union Owned(fs) : par2[x] = par[x]
    PROVE  Sound(par2, fs, d)
BY ChainAgree, ObeysAgree DEF Sound

LEMMA InstalledIs ==
    ASSUME Inv
    PROVE  /\ ToSet(dyn) \union Owned(frames) \subseteq Installed
           /\ \A i \in DOMAIN outer :
                 /\ outer[i].frames \in Seq(Frame) /\ outer[i].dyn \in Stack
                 /\ ToSet(outer[i].dyn) \union Owned(outer[i].frames) \subseteq Installed
           /\ \A k \in Cont : conts[k] # None =>
                 /\ conts[k].frames \in Seq(Frame) /\ conts[k].dyn \in Stack
                 /\ ToSet(conts[k].dyn) \union Owned(conts[k].frames) \subseteq Installed
<1>1. \A b \in Contexts : /\ b.frames \in Seq(Frame) /\ b.dyn \in Stack
                          /\ ToSet(b.dyn) \union Owned(b.frames) \subseteq Installed
    BY ContextsTyped DEF Installed
<1>2. [frames |-> frames, dyn |-> dyn] \in Contexts
    BY ContextsTyped
<1>3. \A i \in DOMAIN outer : outer[i] \in Contexts
    BY DEF Contexts, ToSet
<1>4. \A k \in Cont : conts[k] # None => conts[k] \in Contexts
    BY DEF Contexts, Saved
<1>5. PICK b \in Contexts : b = [frames |-> frames, dyn |-> dyn]
    BY <1>2
<1>6. b.frames = frames /\ b.dyn = dyn
    BY <1>5
<1>7. ToSet(dyn) \union Owned(frames) \subseteq Installed
    BY <1>1, <1>6
<1> QED
    BY <1>1, <1>3, <1>4, <1>7

LEMMA CoherentAgree ==
    ASSUME Inv, NEW par, NEW par2, Coherent(par), \A x \in Installed : par2[x] = par[x]
    PROVE  Coherent(par2)
<1>1. frames \in Seq(Frame) /\ dyn \in Stack
    BY DEF Inv, Typed
<1>2. Sound(par2, frames, dyn)
    BY <1>1, InstalledIs, SoundAgree DEF Coherent
<1>3. ASSUME NEW i \in DOMAIN outer PROVE Sound(par2, outer[i].frames, outer[i].dyn)
    BY InstalledIs, SoundAgree DEF Coherent
<1>4. ASSUME NEW k \in Cont, conts[k] # None PROVE Sound(par2, conts[k].frames, conts[k].dyn)
    BY <1>4, InstalledIs, SoundAgree DEF Coherent
<1> QED
    BY <1>2, <1>3, <1>4 DEF Coherent

\* A step that only moves the running continuation and its dynamic stack.
LEMMA RunningArranged ==
    ASSUME NEW par \in [Elem -> Stack], Coherent(par), Resumable, Running, Sound(par, frames', dyn')
    PROVE  Arranged'
<1>1. Coherent(par)'
    BY DEF Running, Coherent
<1>2. Resumable'
    BY DEF Running, Resumable
<1> QED
    BY <1>1, <1>2 DEF Arranged

LEMMA TopLink ==
    ASSUME Inv, NEW par, Coherent(par)
    PROVE  /\ \E lo \in Stack : Chain(par, Below, lo) /\ Link(par, Top, lo, dyn)
           /\ Quiet(Below) /\ Obeys(par, dyn)
           /\ Top.kind = "unwind_to_prompt" => NoJumps(Below)
<1>1. frames \in Seq(Frame) /\ frames # <<>> /\ dyn \in Stack
    BY RunningTop DEF Inv, Typed
<1>2. Sound(par, frames, dyn)
    BY DEF Coherent
<1>3. Obeys(par, dyn)
    BY <1>2 DEF Sound
<1> QED
    BY <1>1, <1>2, <1>3, SoundPop DEF Top, Below

\* The four ways a step moves the running continuation.
LEMMA PushArranged ==
    ASSUME Inv, NEW par \in [Elem -> Stack], Coherent(par), Resumable, Running, NEW f \in Frame,
           frames' = Append(frames, f), dyn' \in Stack, Link(par, f, dyn, dyn'), Obeys(par, dyn'),
           f.kind = "unwind_to_prompt" => NoJumps(frames)
    PROVE  Arranged'
<1>1. frames \in Seq(Frame) /\ dyn \in Stack
    BY DEF Inv, Typed
<1>2. Chain(par, frames, dyn) /\ Quiet(frames)
    BY DEF Coherent, Sound
<1>3. Sound(par, frames', dyn')
    BY <1>1, <1>2, SoundPush
<1> QED
    BY <1>3, RunningArranged

LEMMA ReplaceArranged ==
    ASSUME Inv, NEW par \in [Elem -> Stack], Coherent(par), Resumable, Running, NEW f \in Frame,
           frames' = Append(Below, f), dyn' \in Stack, NEW lo \in Stack, Chain(par, Below, lo),
           Link(par, f, lo, dyn'), Obeys(par, dyn'), f.kind # "unwind_to_prompt"
    PROVE  Arranged'
<1>1. Below \in Seq(Frame) /\ Quiet(Below)
    BY RunningTop, TopLink
<1>2. Sound(par, frames', dyn')
    BY <1>1, SoundPush
<1> QED
    BY <1>2, RunningArranged

LEMMA PopArranged ==
    ASSUME Inv, NEW par \in [Elem -> Stack], Coherent(par), Resumable, Running,
           frames' = Below, Chain(par, Below, dyn'), Obeys(par, dyn')
    PROVE  Arranged'
<1>1. Quiet(Below)
    BY TopLink
<1>2. Sound(par, frames', dyn')
    BY <1>1 DEF Sound
<1> QED
    BY <1>2, RunningArranged

LEMMA StayArranged ==
    ASSUME Inv, NEW par \in [Elem -> Stack], Coherent(par), Resumable, Running,
           frames' = frames, dyn' \in Stack, NEW lo \in Stack, Chain(par, Below, lo),
           Link(par, Top, lo, dyn'), Obeys(par, dyn')
    PROVE  Arranged'
<1>1. Below \in Seq(Frame) /\ Top \in Frame /\ Quiet(Below) /\ (Top.kind = "unwind_to_prompt" => NoJumps(Below))
    BY RunningTop, TopLink
<1>2. Sound(par, Append(Below, Top), dyn')
    BY <1>1, SoundPush
<1>3. Append(Below, Top) = frames
    <2>1. frames \in Seq(Frame) /\ frames # <<>>
        BY RunningTop DEF Inv, Typed
    <2> QED
        BY <2>1 DEF Below, Top, Front, Last
<1>4. Sound(par, frames', dyn')
    BY <1>2, <1>3
<1> QED
    BY <1>4, RunningArranged

----------------------------------------------------------------------------
(* What Scheme code calls keeps the continuations arranged.                  *)

LEMMA LinkSame ==
    ASSUME NEW par, NEW d
    PROVE  /\ Link(par, Jit, d, d) /\ Link(par, AfterOut, d, d)
           /\ \A n : Link(par, Halt(n), d, d)
BY FrameKinds DEF Link

LEMMA LinkHandler ==
    ASSUME NEW par, NEW lo, NEW hi, Starts(hi, lo)
    PROVE  Link(par, UnwindHandler, lo, hi) /\ Link(par, Reraise, lo, hi)
BY FrameKinds DEF Link

LEMMA LinkIn ==
    ASSUME NEW par, NEW w, NEW d, par[Wind(w)] = d
    PROVE  Link(par, AfterIn(w), d, d)
<1>1. AfterIn(w).kind = "AfterIn" /\ AfterIn(w).name = w
    BY DEF AfterIn
<1> QED
    BY <1>1 DEF Link

LEMMA LinkPop ==
    ASSUME NEW par, NEW e, NEW d, e.kind # "Prompt"
    PROVE  Link(par, PopDyn(e), d, Append(d, e))
<1>1. PopDyn(e).kind = "PopDyn" /\ PopDyn(e).elem = e
    BY DEF PopDyn
<1> QED
    BY <1>1 DEF Link

LEMMA LinkBarrier ==
    ASSUME NEW par, NEW e, NEW d
    PROVE  Link(par, Barrier(e), d, Append(d, e))
<1>1. Barrier(e).kind = "PromptBarrier" /\ Barrier(e).elem = e
    BY DEF Barrier
<1> QED
    BY <1>1 DEF Link

LEMMA LinkUnwind ==
    ASSUME NEW par, NEW dest, NEW hi, Obeys(par, dest)
    PROVE  Link(par, Unwind(dest), dest, hi)
<1>1. Unwind(dest).kind = "unwind" /\ Unwind(dest).dest = dest
    BY DEF Unwind
<1> QED
    BY <1>1 DEF Link

LEMMA LinkWind ==
    ASSUME NEW par, NEW dest, NEW w, NEW hi, Obeys(par, dest), Starts(Entered(hi, w), dest)
    PROVE  Link(par, Rewind(dest, w), dest, hi)
<1>1. Rewind(dest, w).kind = "wind" /\ Rewind(dest, w).dest = dest /\ Rewind(dest, w).winder = w
    BY DEF Rewind
<1> QED
    BY <1>1 DEF Link

LEMMA LinkPrompt ==
    ASSUME NEW par, NEW tag, NEW s, NEW hi, Obeys(par, s), Starts(hi, s)
    PROVE  Link(par, UnwindPrompt(tag, s), s, hi)
<1>1. UnwindPrompt(tag, s).kind = "unwind_to_prompt" /\ UnwindPrompt(tag, s).saved = s
    BY DEF UnwindPrompt
<1> QED
    BY <1>1 DEF Link

LEMMA LinkDelim ==
    ASSUME NEW par, NEW rest, NEW w, NEW hi, NEW lo, lo = hi \o (Entered(<<>>, w) \o rest),
           ObeysFrom(par, lo, Len(hi))
    PROVE  Link(par, RewindDelim(rest, w), lo, hi)
<1> DEFINE f == RewindDelim(rest, w)
<1>1. f.kind = "wind_delim" /\ f.rest = rest /\ f.winder = w
    BY DEF RewindDelim
<1> HIDE DEF f
<1>2. More(f) = Entered(<<>>, w) \o rest
    BY <1>1 DEF More
<1>3. Link(par, f, lo, hi)
    BY <1>1, <1>2 DEF Link
<1> QED
    BY <1>3 DEF f

LEMMA StartsSame == ASSUME NEW d \in Stack PROVE Starts(d, d)
BY TakeAll, StackLen DEF Starts

LEMMA StartsTake == ASSUME NEW d \in Stack, NEW n \in 0 .. Len(d) PROVE Starts(Take(d, n), d)
<1>1. Len(Take(d, n)) = n /\ n <= Len(d)
    BY TakeIs, StackLen
<1> QED
    BY <1>1 DEF Starts

\* A new element is installed on the running dynamic stack.
LEMMA Install ==
    ASSUME Inv, NEW par \in [Elem -> Stack], Coherent(par), NEW e \in Elem, e \notin Elements
    PROVE  \E par2 \in [Elem -> Stack] : Coherent(par2) /\ par2[e] = dyn
<1> DEFINE q == [par EXCEPT ![e] = dyn]
<1>1. dyn \in Stack
    BY DEF Inv, Typed
<1>2. q \in [Elem -> Stack] /\ q[e] = dyn /\ \A x \in Elem : x # e => q[x] = par[x]
    BY <1>1
<1> HIDE DEF q
<1>3. \A x \in Installed : q[x] = par[x]
    BY <1>2, NotOwned
<1>4. Coherent(q)
    BY <1>3, CoherentAgree
<1> QED
    BY <1>2, <1>4

LEMMA RunningIs == ASSUME Inv, NEW par, Coherent(par) PROVE dyn \in Stack /\ Obeys(par, dyn)
BY DEF Inv, Typed, Coherent, Sound

LEMMA CallNonTailArranged ==
    ASSUME Inv, NEW par \in [Elem -> Stack], Coherent(par), Resumable, CallNonTail
    PROVE  Arranged'
<1>1. Running /\ frames' = Append(frames, Jit) /\ dyn' = dyn
    BY DEF CallNonTail, Running, Inv, Typed
<1>2. Jit \in Frame /\ Jit.kind # "unwind_to_prompt" /\ Link(par, Jit, dyn, dyn)
    BY FramesMade, FrameKinds, LinkSame
<1> QED
    BY <1>1, <1>2, RunningIs, PushArranged

\* An exception is raised.
LEMMA RaiseArranged ==
    ASSUME Inv, NEW par \in [Elem -> Stack], Coherent(par), Resumable, Running,
           frames' = Append(frames, UnwindHandler), dyn' = dyn
    PROVE  Arranged'
<1>1. Starts(dyn, dyn)
    BY RunningIs, StartsSame
<1>2. /\ UnwindHandler \in Frame /\ UnwindHandler.kind # "unwind_to_prompt"
      /\ Link(par, UnwindHandler, dyn, dyn)
    BY <1>1, FramesMade, FrameKinds, LinkHandler
<1> QED
    BY <1>2, RunningIs, PushArranged

LEMMA DynamicWindArranged ==
    ASSUME Inv, ~Shared, NEW par \in [Elem -> Stack], Coherent(par), Resumable,
           NEW w \in Winder, DynamicWind(w)
    PROVE  Arranged'
<1>1. Running /\ frames' = Append(frames, AfterIn(w)) /\ dyn' = dyn /\ Wind(w) \notin Elements
    BY DEF DynamicWind, Calling, Running, Installable
<1>2. Wind(w) \in Elem
    BY ElemsMade
<1>3. PICK par2 \in [Elem -> Stack] : Coherent(par2) /\ par2[Wind(w)] = dyn
    BY <1>1, <1>2, Install
<1>4. AfterIn(w) \in Frame /\ AfterIn(w).kind # "unwind_to_prompt" /\ Link(par2, AfterIn(w), dyn, dyn)
    BY <1>3, FramesMade, FrameKinds, LinkIn
<1> QED
    BY <1>1, <1>3, <1>4, RunningIs, PushArranged

\* An element is pushed above a frame that pops it.
LEMMA ElementArranged ==
    ASSUME Inv, NEW par \in [Elem -> Stack], Coherent(par), Resumable, Running,
           NEW e \in Elem, e \notin Elements, dyn' = Append(dyn, e),
           \/ frames' = Append(frames, PopDyn(e)) /\ e.kind # "Prompt"
           \/ frames' = Append(frames, Barrier(e))
    PROVE  Arranged'
<1>1. PICK par2 \in [Elem -> Stack] : Coherent(par2) /\ par2[e] = dyn
    BY Install
<1>2. Obeys(par2, dyn') /\ dyn' \in Stack
    BY <1>1, RunningIs, ObeysPush
<1>3. /\ PopDyn(e) \in Frame /\ PopDyn(e).kind # "unwind_to_prompt"
      /\ Barrier(e) \in Frame /\ Barrier(e).kind # "unwind_to_prompt"
    BY FramesMade, FrameKinds
<1>4. CASE frames' = Append(frames, PopDyn(e)) /\ e.kind # "Prompt"
    <2>1. Link(par2, PopDyn(e), dyn, dyn')
        BY <1>4, LinkPop
    <2> QED
        BY <1>1, <1>2, <1>3, <1>4, <2>1, PushArranged
<1>5. CASE frames' = Append(frames, Barrier(e))
    <2>1. Link(par2, Barrier(e), dyn, dyn')
        BY LinkBarrier
    <2> QED
        BY <1>1, <1>2, <1>3, <1>5, <2>1, PushArranged
<1> QED
    BY <1>4, <1>5

LEMMA WithElementArranged ==
    ASSUME Inv, ~Shared, NEW par \in [Elem -> Stack], Coherent(par), Resumable,
           NEW e \in Elem, e.kind # "Prompt", WithElement(e)
    PROVE  Arranged'
<1>1. /\ Running /\ frames' = Append(frames, PopDyn(e)) /\ dyn' = Append(dyn, e)
      /\ e \notin Elements
    BY DEF WithElement, Calling, Running, Installable
<1> QED
    BY <1>1, ElementArranged

LEMMA CallWithPromptArranged ==
    ASSUME Inv, NEW par \in [Elem -> Stack], Coherent(par), Resumable,
           NEW tag \in Tag, CallWithPrompt(tag)
    PROVE  Arranged'
<1> DEFINE e == Prompt(tag, Fresh(PromptIds))
<1>1. /\ Running /\ frames' = Append(frames, Barrier(e)) /\ dyn' = Append(dyn, e)
      /\ Cardinality(PromptIds) < MaxPrompts
    BY DEF CallWithPrompt, Calling, Running
<1>2. e \in Elem /\ e \notin Elements
    BY <1>1, PromptIsFresh
<1> HIDE DEF e
<1> QED
    BY <1>1, <1>2, ElementArranged

LEMMA AbortToPromptArranged ==
    ASSUME Inv, ~ThunkAborts, NEW par \in [Elem -> Stack], Coherent(par), Resumable,
           NEW tag \in Tag, AbortToPrompt(tag)
    PROVE  Arranged'
<1> DEFINE f == UnwindPrompt(tag, dyn)
<1>1. /\ Running /\ frames' = Append(frames, f) /\ dyn' = dyn
      /\ Kinds(frames) \cap {"unwind", "wind", "unwind_to_prompt"} = {}
    BY DEF AbortToPrompt, Running
<1>2. NoJumps(frames)
    BY <1>1 DEF Kinds, NoJumps, Jumps
<1>3. dyn \in Stack /\ Obeys(par, dyn)
    BY RunningIs
<1>4. f \in Frame /\ Link(par, f, dyn, dyn)
    BY <1>3, StartsSame, LinkPrompt, FramesMade
<1> HIDE DEF f
<1> QED
    BY <1>1, <1>2, <1>3, <1>4, PushArranged

LEMMA CallCCArranged ==
    ASSUME Inv, NEW par \in [Elem -> Stack], Coherent(par), Resumable, NEW k \in Cont, CallCC(k)
    PROVE  Arranged'
<1> DEFINE c == [id |-> id, frames |-> frames, dyn |-> dyn]
<1>1. conts' = [conts EXCEPT ![k] = c] /\ UNCHANGED <<id, frames, dyn, pc, outer, delims>>
    BY DEF CallCC
<1>2. c.frames = frames /\ c.dyn = dyn
    OBVIOUS
<1> HIDE DEF c
<1>3. \A m \in Cont : conts'[m] = IF m = k THEN c ELSE conts[m]
    BY <1>1 DEF Inv, Typed
<1>4. Coherent(par)'
    <2>1. Sound(par, frames, dyn)
        BY DEF Coherent
    <2>2. ASSUME NEW m \in Cont, conts'[m] # None PROVE Sound(par, conts'[m].frames, conts'[m].dyn)
        <3>1. CASE m = k
            BY <1>2, <1>3, <2>1, <3>1
        <3>2. CASE m # k
            BY <1>3, <2>2, <3>2 DEF Coherent
        <3> QED
            BY <3>1, <3>2
    <2> QED
        BY <1>1, <2>2 DEF Coherent
<1>5. Resumable'
    BY <1>1 DEF Resumable
<1> QED
    BY <1>4, <1>5 DEF Arranged

LEMMA EscapeArranged ==
    ASSUME Inv, NEW par \in [Elem -> Stack], Coherent(par), Resumable, NEW k \in Cont, Escape(k)
    PROVE  Arranged'
<1>1. Running /\ dyn' = dyn /\ conts[k] # None
    BY DEF Escape, Running
<1>2. CASE frames' = Append(conts[k].frames, Unwind(conts[k].dyn))
    <2>1. conts[k].frames \in Seq(Frame) /\ conts[k].dyn \in Stack
        BY <1>1, SavedIs
    <2>2. Sound(par, conts[k].frames, conts[k].dyn)
        BY <1>1 DEF Coherent
    <2> DEFINE f == Unwind(conts[k].dyn)
    <2>3. f \in Frame /\ f.kind # "unwind_to_prompt" /\ Link(par, f, conts[k].dyn, dyn)
        BY <2>1, <2>2, FramesMade, FrameKinds, LinkUnwind DEF Sound
    <2> HIDE DEF f
    <2>4. dyn' \in Stack /\ Obeys(par, dyn')
        BY <1>1, RunningIs
    <2>5. frames' = Append(conts[k].frames, f)
        BY <1>2 DEF f
    <2>6. Sound(par, frames', dyn')
        BY <1>1, <2>1, <2>2, <2>3, <2>4, <2>5, SoundPush DEF Sound
    <2> QED
        BY <1>1, <2>6, RunningArranged
<1>3. CASE frames' = Append(frames, UnwindHandler)
    BY <1>1, <1>3, RaiseArranged
<1> QED
    BY <1>2, <1>3 DEF Escape

LEMMA QuietJoin ==
    ASSUME NEW fs \in Seq(Frame), NEW gs \in Seq(Frame), Quiet(fs), NoJumps(gs)
    PROVE  Quiet(fs \o gs)
<1>1. PICK n \in Nat : n = Len(fs) /\ DOMAIN fs = 1 .. n
    OBVIOUS
<1>2. PICK m \in Nat : m = Len(gs) /\ DOMAIN gs = 1 .. m
    OBVIOUS
<1>3. fs \o gs \in Seq(Frame)
    OBVIOUS
<1>4. PICK hs \in Seq(Frame) : hs = fs \o gs
    BY <1>3
<1>5. /\ DOMAIN hs = 1 .. n + m /\ \A i \in 1 .. n : hs[i] = fs[i]
      /\ \A i \in n + 1 .. n + m : hs[i] = gs[i - n] /\ i - n \in 1 .. m
    BY <1>1, <1>2, <1>4
<1>6. \A i \in n + 1 .. n + m : hs[i].kind # "unwind_to_prompt"
    BY <1>2, <1>5 DEF NoJumps, Jumps
<1>7. ASSUME NEW i \in 1 .. n + m, NEW j \in 1 .. n + m, i < j, hs[j].kind = "unwind_to_prompt"
      PROVE  hs[i].kind \notin Jumps
    <2>1. j \in 1 .. n \/ j \in n + 1 .. n + m
        OBVIOUS
    <2>2. j \in 1 .. n
        BY <1>6, <1>7, <2>1
    <2>3. i \in 1 .. n
        BY <1>7, <2>2
    <2> QED
        BY <1>1, <1>5, <1>7, <2>2, <2>3 DEF Quiet
<1>8. Quiet(hs)
    BY <1>5, <1>7 DEF Quiet
<1> QED
    BY <1>4, <1>8

LEMMA ResumeArranged ==
    ASSUME Inv, ~Shared, NEW par \in [Elem -> Stack], Coherent(par), Resumable,
           NEW k \in Delim, Resume(k)
    PROVE  Arranged'
<1>1. /\ Running /\ dyn' = dyn /\ delims[k] # None
      /\ frames' = frames \o delims[k].frames \o <<RewindDelim(delims[k].dyn, None)>>
      /\ (ToSet(delims[k].dyn) \union Owned(delims[k].frames)) \cap Installed = {}
    BY DEF Resume, Calling, Running
<1>2. PICK gs \in Seq(Frame) : gs = delims[k].frames
    BY <1>1, CapturedIs
<1>3. PICK d \in Stack : d = delims[k].dyn
    BY <1>1, CapturedIs
<1>4. PICK rpar \in [Elem -> Stack] : Sound(rpar, gs, d) /\ NoJumps(gs)
    BY <1>1, <1>2, <1>3 DEF Resumable
<1>5. frames \in Seq(Frame) /\ dyn \in Stack /\ Obeys(par, dyn)
    BY RunningIs DEF Inv, Typed
<1> DEFINE C == ToSet(d) \union Owned(gs)
           q == [x \in Elem |-> IF x \in C THEN dyn \o rpar[x] ELSE par[x]]
<1>6. C \cap Installed = {}
    BY <1>1, <1>2, <1>3
<1>7. q \in [Elem -> Stack]
    <2>1. ASSUME NEW x \in Elem PROVE (IF x \in C THEN dyn \o rpar[x] ELSE par[x]) \in Stack
        <3>1. rpar[x] \in Stack /\ par[x] \in Stack
            BY <1>4
        <3>2. dyn \o rpar[x] \in Stack
            BY <1>5, <3>1, JoinIs
        <3> QED
            BY <3>1, <3>2
    <2> QED
        BY <2>1
<1>8. C \subseteq Elem /\ ToSet(d) \subseteq C /\ Owned(gs) \subseteq C
    BY OwnedTyped DEF ToSet, Stack
<1>9. \A x \in C : q[x] = dyn \o rpar[x]
    BY <1>8
<1>10. \A x \in Installed : q[x] = par[x]
    BY <1>6, NotOwned
<1> HIDE DEF q, C
<1>11. Coherent(q)
    BY <1>10, CoherentAgree
<1>12. Chain(q, frames, dyn) /\ Quiet(frames) /\ Obeys(q, dyn)
    BY <1>11 DEF Coherent, Sound
<1>13. \A x \in Owned(gs) : q[x] = dyn \o rpar[x]
    BY <1>8, <1>9
<1>14. Chain(rpar, gs, d) /\ Obeys(rpar, d)
    BY <1>4 DEF Sound
<1>15. Chain(q, frames \o gs, dyn \o d)
    BY <1>4, <1>5, <1>12, <1>13, <1>14, ChainJoin
<1>16. ObeysFrom(q, dyn \o d, Len(dyn))
    <2>1. PICK m \in Nat : m = Len(d) /\ DOMAIN d = 1 .. m
        BY DEF Stack
    <2>2. \A i \in 0 + 1 .. m : d[i] \in ToSet(d)
        BY <2>1 DEF ToSet
    <2>3. \A i \in 0 + 1 .. Len(d) : q[d[i]] = dyn \o rpar[d[i]]
        BY <1>8, <1>9, <2>1, <2>2
    <2>4. ObeysFrom(rpar, d, 0) /\ 0 \in 0 .. Len(d)
        BY <1>14, <2>1 DEF Obeys
    <2>5. ObeysFrom(q, dyn \o d, Len(dyn) + 0)
        BY <1>5, <2>3, <2>4, ObeysUnder
    <2>6. Len(dyn) + 0 = Len(dyn)
        BY <1>5, StackLen
    <2> QED
        BY <2>5, <2>6
<1> DEFINE f == RewindDelim(d, None)
<1>17. f \in Frame /\ f.kind # "unwind_to_prompt"
    BY FramesMade, FrameKinds
<1>18. Link(q, f, dyn \o d, dyn)
    <2>1. Entered(<<>>, None) = <<>>
        BY DEF Entered
    <2>2. <<>> \o d = d
        BY DEF Stack
    <2>3. dyn \o d = dyn \o (Entered(<<>>, None) \o d)
        BY <2>1, <2>2
    <2> QED
        BY <1>16, <2>3, LinkDelim
<1> HIDE DEF f
<1>19. frames \o gs \in Seq(Frame) /\ Quiet(frames \o gs)
    BY <1>4, <1>5, <1>12, QuietJoin
<1>20. frames' = Append(frames \o gs, f)
    BY <1>1, <1>2, <1>3, <1>5, <1>17, <1>19 DEF f
<1>21. dyn \o d \in Stack
    BY <1>5, JoinIs
<1>22. Sound(q, Append(frames \o gs, f), dyn)
    BY <1>5, <1>12, <1>15, <1>17, <1>18, <1>19, <1>21, SoundPush
<1>23. Sound(q, frames', dyn')
    BY <1>1, <1>20, <1>22
<1> QED
    BY <1>1, <1>7, <1>11, <1>23, RunningArranged

LEMMA NewBarrier ==
    ASSUME NEW par, NEW n \in Nat
    PROVE  Sound(par, <<Halt(n)>>, <<>>)
<1>1. <<>> \in Seq(Frame) /\ Len(<<>>) = 0 /\ <<>> \in Stack /\ Halt(n) \in Frame
    BY FramesMade DEF Stack
<1>2. Chain(par, <<>>, <<>>)
    <2> DEFINE p == [i \in 0 .. 0 |-> <<>>]
    <2>1. p \in [0 .. 0 -> Stack] /\ p[0] = <<>>
        BY <1>1
    <2>2. Path(par, <<>>, p)
        BY <1>1, <2>1 DEF Path
    <2> QED
        BY <1>1, <2>1, <2>2 DEF Chain
<1>3. Obeys(par, <<>>)
    BY <1>1 DEF Obeys, ObeysFrom
<1>4. Quiet(<<>>)
    BY DEF Quiet
<1>5. Link(par, Halt(n), <<>>, <<>>) /\ Halt(n).kind # "unwind_to_prompt"
    BY LinkSame, FrameKinds
<1>6. Sound(par, Append(<<>>, Halt(n)), <<>>)
    BY <1>1, <1>2, <1>3, <1>4, <1>5, SoundPush
<1>7. Append(<<>>, Halt(n)) = <<Halt(n)>>
    OBVIOUS
<1> QED
    BY <1>6, <1>7

LEMMA CallFromRustArranged ==
    ASSUME Inv, NEW par \in [Elem -> Stack], Coherent(par), Resumable, CallFromRust
    PROVE  Arranged'
<1> DEFINE c == [id |-> id, frames |-> frames, dyn |-> dyn]
<1>1. /\ outer' = Append(outer, c) /\ frames' = <<Halt(id')>> /\ dyn' = <<>>
      /\ UNCHANGED <<pc, conts, delims>>
    BY DEF CallFromRust
<1>2. c.frames = frames /\ c.dyn = dyn /\ c \in Context
    BY DEF Inv, Typed, Context
<1> HIDE DEF c
<1>3. PICK n \in Nat : n = Len(outer) /\ DOMAIN outer = 1 .. n
    BY DEF Inv, Typed
<1>4. /\ DOMAIN outer' = 1 .. n + 1 /\ outer'[n + 1] = c
      /\ \A i \in 1 .. n : outer'[i] = outer[i]
    BY <1>1, <1>2, <1>3 DEF Inv, Typed
<1>5. id' \in Nat
    BY CallFromRustStep DEF Inv, Typed
<1>6. Sound(par, frames', dyn')
    BY <1>1, <1>5, NewBarrier
<1>7. ASSUME NEW i \in 1 .. n + 1 PROVE Sound(par, outer'[i].frames, outer'[i].dyn)
    <2>1. CASE i \in 1 .. n
        BY <1>3, <1>4, <2>1 DEF Coherent
    <2>2. CASE i = n + 1
        BY <1>2, <1>4, <2>2 DEF Coherent
    <2>3. i \in 1 .. n \/ i = n + 1
        BY <1>3
    <2> QED
        BY <2>1, <2>2, <2>3
<1>8. Coherent(par)'
    BY <1>1, <1>4, <1>6, <1>7 DEF Coherent
<1>9. Resumable'
    BY <1>1 DEF Resumable
<1> QED
    BY <1>8, <1>9 DEF Arranged

----------------------------------------------------------------------------
(* What frames do when they are returned to keeps the continuations arranged. *)

\* Only what the kind of a frame says matters.
LEMMA LinkCases ==
    ASSUME NEW par, NEW f, NEW lo, NEW hi, Link(par, f, lo, hi)
    PROVE  /\ f.kind \in {"Jit", "AfterOut"} => hi = lo
           /\ f.kind = "AfterIn" => hi = lo /\ par[Wind(f.name)] = hi
           /\ f.kind \in {"PopDyn", "PromptBarrier"} => hi = Append(lo, f.elem)
           /\ f.kind = "unwind" => lo = f.dest /\ Obeys(par, lo) /\ \A e : Link(par, f, lo, e)
           /\ f.kind = "wind" => lo = f.dest /\ Obeys(par, lo) /\ Starts(Entered(hi, f.winder), lo)
           /\ f.kind = "unwind_to_prompt" => /\ lo = f.saved /\ Obeys(par, lo) /\ Starts(hi, lo)
                                             /\ \A e : Starts(e, lo) => Link(par, f, lo, e)
           /\ f.kind = "wind_delim" => lo = hi \o More(f) /\ ObeysFrom(par, lo, Len(hi))
           /\ f.kind \in {"unwind_to_exception_handler", "reraise_exception"} =>
                 Starts(hi, lo) /\ \A e : Starts(e, lo) => Link(par, f, lo, e)
BY DEF Link

LEMMA ReturnPlainArranged ==
    ASSUME Inv, NEW par \in [Elem -> Stack], Coherent(par), Resumable, ReturnJit \/ ReturnOut
    PROVE  Arranged'
<1>1. Running /\ frames' = Below /\ dyn' = dyn /\ Top.kind \in {"Jit", "AfterOut"}
    BY DEF ReturnJit, ReturnOut, Running, Inv, Typed
<1>2. PICK lo \in Stack : Chain(par, Below, lo) /\ Link(par, Top, lo, dyn)
    BY TopLink
<1>3. dyn = lo
    BY <1>1, <1>2, LinkCases
<1> QED
    BY <1>1, <1>2, <1>3, RunningIs, PopArranged

LEMMA ReturnInArranged ==
    ASSUME Inv, NEW par \in [Elem -> Stack], Coherent(par), Resumable, ReturnIn
    PROVE  Arranged'
<1> DEFINE e == Wind(Top.name)
<1>1. /\ Running /\ frames' = Append(Below, PopDyn(e)) /\ dyn' = Append(dyn, e)
      /\ Top.kind = "AfterIn"
    BY DEF ReturnIn, Running
<1>2. e \in Elem /\ e.kind # "Prompt"
    BY <1>1, RunningTop, FrameParts, ElemsMade DEF Wind
<1>3. PICK lo \in Stack : Chain(par, Below, lo) /\ Link(par, Top, lo, dyn)
    BY TopLink
<1>4. dyn = lo /\ par[e] = dyn
    BY <1>1, <1>3, LinkCases
<1> HIDE DEF e
<1>5. Obeys(par, dyn') /\ dyn' \in Stack
    BY <1>1, <1>2, <1>4, RunningIs, ObeysPush
<1>6. PopDyn(e) \in Frame /\ PopDyn(e).kind # "unwind_to_prompt" /\ Link(par, PopDyn(e), lo, dyn')
    BY <1>1, <1>2, <1>4, FramesMade, FrameKinds, LinkPop
<1> QED
    BY <1>1, <1>3, <1>5, <1>6, ReplaceArranged

LEMMA ReturnPopArranged ==
    ASSUME Inv, NEW par \in [Elem -> Stack], Coherent(par), Resumable, ReturnPop
    PROVE  Arranged'
<1>1. Running /\ dyn' = Front(dyn) /\ Top.kind \in {"PopDyn", "PromptBarrier"}
    BY DEF ReturnPop, Running
<1>2. frames' = Append(Below, AfterOut) \/ frames' = Below
    BY DEF ReturnPop
<1>3. PICK lo \in Stack : Chain(par, Below, lo) /\ Link(par, Top, lo, dyn)
    BY TopLink
<1>4. PICK e \in Elem : e = Top.elem
    BY <1>1, RunningTop, FrameParts
<1>5. dyn = Append(lo, e)
    BY <1>1, <1>3, <1>4, LinkCases
<1>6. dyn' = lo
    <2>1. Front(Append(lo, e)) = lo
        BY DEF Front, Stack
    <2> QED
        BY <1>1, <1>5, <2>1
<1>7. Obeys(par, lo)
    <2>1. dyn = lo \o <<e>> /\ <<e>> \in Stack /\ dyn \in Stack
        BY <1>5, PushIsJoin
    <2>2. PICK k \in Nat : k = Len(lo)
        BY StackLen
    <2>3. k \in 0 .. Len(lo) /\ k \in 0 .. Len(dyn)
        BY <2>1, <2>2 DEF Stack
    <2>4. Take(dyn, k) = lo
        BY <2>1, <2>2, <2>3, TakeJoin, TakeAll
    <2> QED
        BY <2>1, <2>3, <2>4, RunningIs, ObeysTake
<1>8. CASE frames' = Below
    BY <1>1, <1>3, <1>6, <1>7, <1>8, PopArranged
<1>9. CASE frames' = Append(Below, AfterOut)
    <2>1. AfterOut \in Frame /\ AfterOut.kind # "unwind_to_prompt" /\ Link(par, AfterOut, lo, dyn')
        BY <1>6, FramesMade, FrameKinds, LinkSame
    <2> QED
        BY <1>1, <1>3, <1>6, <1>7, <1>9, <2>1, ReplaceArranged
<1> QED
    BY <1>2, <1>8, <1>9

LEMMA ReturnUnwindArranged ==
    ASSUME Inv, NEW par \in [Elem -> Stack], Coherent(par), Resumable, ReturnUnwind
    PROVE  Arranged'
<1> DEFINE stop == UnwindTo(dyn, Top.dest)
           w == LastPos(WindersAbove(dyn, 0))
<1>1. Running /\ Top.kind = "unwind"
    BY DEF ReturnUnwind, Running
<1>2. Top \in Frame /\ Top.dest \in Stack /\ dyn \in Stack /\ Obeys(par, dyn)
    BY <1>1, RunningTop, FrameParts, RunningIs
<1>3. PICK m \in Nat : m = Len(dyn)
    BY <1>2, StackLen
<1>4. stop \in 0 .. m /\ w \in 0 .. m /\ Stops(dyn, Top.dest, stop)
    BY <1>2, <1>3, UnwindToIs, LastWinder
<1>5. \/ w > stop /\ dyn' = Take(dyn, w - 1) /\ frames' = frames
      \/ w <= stop /\ dyn' = Take(dyn, stop) /\ frames' = Append(Below, Rewind(Top.dest, None))
    BY DEF ReturnUnwind
<1> HIDE DEF stop, w
<1>6. PICK lo \in Stack : Chain(par, Below, lo) /\ Link(par, Top, lo, dyn)
    BY TopLink
<1>7. lo = Top.dest /\ Obeys(par, lo) /\ \A e : Link(par, Top, lo, e)
    BY <1>1, <1>6, LinkCases
<1>8. CASE w > stop /\ dyn' = Take(dyn, w - 1) /\ frames' = frames
    <2>1. w - 1 \in 0 .. Len(dyn)
        BY <1>3, <1>4, <1>8
    <2>2. dyn' \in Stack /\ Obeys(par, dyn')
        BY <1>2, <1>8, <2>1, TakeIs, ObeysTake
    <2> QED
        BY <1>1, <1>6, <1>7, <1>8, <2>2, StayArranged
<1>9. CASE dyn' = Take(dyn, stop) /\ frames' = Append(Below, Rewind(Top.dest, None))
    <2>1. stop \in 0 .. Len(dyn)
        BY <1>3, <1>4
    <2>2. dyn' \in Stack /\ Obeys(par, dyn') /\ Len(dyn') = stop
        BY <1>2, <1>9, <2>1, TakeIs, ObeysTake
    <2>3. stop <= Len(lo) /\ Take(dyn, stop) = Take(lo, stop)
        <3>1. CASE stop = 0
            <4>1. Take(dyn, 0) = <<>> /\ Take(lo, 0) = <<>> /\ 0 <= Len(lo)
                BY <1>2, TakeAll, StackLen
            <4> QED
                BY <3>1, <4>1
        <3>2. CASE stop # 0
            <4>1. stop <= Len(lo) /\ dyn[stop] = lo[stop] /\ stop \in 1 .. Len(dyn)
                BY <1>3, <1>4, <1>7, <3>2 DEF Stops
            <4> QED
                BY <1>2, <1>7, <4>1, SamePath
        <3> QED
            BY <3>1, <3>2
    <2>4. Starts(dyn', lo)
        BY <1>9, <2>2, <2>3 DEF Starts
    <2>5. Entered(dyn', None) = dyn'
        BY DEF Entered
    <2>6. Link(par, Rewind(lo, None), lo, dyn')
        BY <1>7, <2>4, <2>5, LinkWind
    <2>7. Rewind(lo, None) \in Frame /\ Rewind(lo, None).kind # "unwind_to_prompt"
        BY FramesMade, FrameKinds
    <2> QED
        BY <1>1, <1>6, <1>7, <1>9, <2>2, <2>6, <2>7, ReplaceArranged
<1> QED
    BY <1>5, <1>8, <1>9

LEMMA TakeMore ==
    ASSUME NEW d \in Stack, NEW m \in 0 .. Len(d), NEW n \in 0 .. m
    PROVE  Take(d, n) \o SubSeq(d, n + 1, m) = Take(d, m)
<1>1. PICK k \in Nat : k = Len(d)
    BY StackLen
<1>2. m \in 0 .. k /\ n \in Nat /\ m \in Nat /\ n <= m /\ n \in 0 .. Len(d)
    BY <1>1
<1>3. PICK e \in Stack : e = Take(d, m)
    BY TakeIs
<1>4. Len(e) = m /\ \A i \in 1 .. m : e[i] = d[i]
    BY <1>3, TakeIs
<1>5. e = Take(e, n) \o From(e, n + 1)
    BY <1>4, SplitStack
<1>6. Take(e, n) = Take(d, n)
    BY <1>3, TakeTake
<1>7. From(e, n + 1) = SubSeq(d, n + 1, m)
    <2>1. SubSeq(e, n + 1, m) = SubSeq(d, n + 1, m)
        <3>1. n + 1 \in Nat \ {0} /\ m \in Nat /\ m <= Len(d) /\ m <= Len(e)
            BY <1>1, <1>2, <1>4
        <3>2. SubSeq(e, n + 1, m) \in Stack /\ SubSeq(d, n + 1, m) \in Stack
            BY <3>1, DynPart
        <3>3. PICK j \in Nat : m = n + j
            <4>1. m - n \in Nat /\ m = n + (m - n)
                BY <1>2
            <4> QED
                BY <4>1
        <3>4. PICK g \in Stack : g = SubSeq(e, n + 1, m)
            BY <3>2
        <3>5. PICK h \in Stack : h = SubSeq(d, n + 1, m)
            BY <3>2
        <3>6. Len(g) = j /\ \A i \in 1 .. j : g[i] = e[n + i]
            <4>1. g = SubSeq(e, n + 1, n + j) /\ e \in Seq(Elem) /\ n \in Nat /\ n + j = Len(e)
                BY <1>2, <1>4, <3>3, <3>4 DEF Stack
            <4> QED
                BY <4>1
        <3>7. Len(h) = j /\ \A i \in 1 .. j : h[i] = d[n + i]
            <4>1. /\ n + 1 \in Int /\ n + j \in Int
                  /\ \A i \in n + 1 .. n + j : d[i] \in Elem
                BY <1>1, <1>2, <3>3, StackLen
            <4>2. /\ Len(SubSeq(d, n + 1, n + j)) = IF n + 1 <= n + j THEN n + j - (n + 1) + 1 ELSE 0
                  /\ \A i \in 1 .. n + j - (n + 1) + 1 : SubSeq(d, n + 1, n + j)[i] = d[n + 1 + i - 1]
                BY <4>1, SubSeqProperties
            <4>3. n + j - (n + 1) + 1 = j /\ \A i \in 1 .. j : n + 1 + i - 1 = n + i
                BY <1>2
            <4>4. Len(SubSeq(d, n + 1, n + j)) = j
                BY <1>2, <4>2, <4>3
            <4>5. \A i \in 1 .. j : SubSeq(d, n + 1, n + j)[i] = d[n + i]
                BY <4>2, <4>3
            <4> QED
                BY <3>3, <3>5, <4>4, <4>5
        <3>8. \A i \in 1 .. j : n + i \in 1 .. m
            BY <1>2, <3>3
        <3>9. \A i \in 1 .. j : g[i] = h[i]
            BY <1>4, <3>6, <3>7, <3>8
        <3>10. g = h
            BY <3>6, <3>7, <3>9, SameStack
        <3> QED
            BY <3>4, <3>5, <3>10
    <2> QED
        BY <1>4, <2>1 DEF From
<1> QED
    BY <1>3, <1>5, <1>6, <1>7, Zenon

\* The destination up to the next winder is entered; wind is done when there is none.
LEMMA WindTo ==
    ASSUME Inv, NEW par, Coherent(par), ReturnWind
    PROVE  \E lo \in Stack :
              /\ Chain(par, Below, lo) /\ lo = Top.dest /\ Obeys(par, lo)
              /\ \E v \in 1 .. Len(lo) + 1 :
                    /\ dyn' = Take(lo, v - 1)
                    /\ \/ v <= Len(lo) /\ lo[v].name \in Winder /\ lo[v] = Wind(lo[v].name)
                          /\ frames' = Append(Below, Rewind(lo, lo[v].name))
                       \/ v = Len(lo) + 1 /\ frames' = Below
<1> DEFINE dest == Top.dest
           now == Entered(dyn, Top.winder)
           w == FirstPos(dest, WindersAbove(dest, Len(now)))
<1>1. Top.kind = "wind"
    BY DEF ReturnWind
<1>2. Top.winder \in Winder \union {None} /\ dyn \in Stack
    BY <1>1, RunningTop, FrameParts, RunningIs
<1>3. now \in Stack
    BY <1>2, EnteredTyped
<1>4. /\ dyn' = now \o SubSeq(dest, Len(now) + 1, w - 1)
      /\ \/ w <= Len(dest) /\ frames' = Append(Below, Rewind(dest, dest[w].name))
         \/ w > Len(dest) /\ frames' = Below
    BY DEF ReturnWind
<1>5. PICK lo \in Stack : Chain(par, Below, lo) /\ Link(par, Top, lo, dyn)
    BY TopLink
<1>6. lo = dest /\ Obeys(par, lo) /\ Starts(now, lo)
    BY <1>1, <1>5, LinkCases
<1> HIDE DEF dest, now
<1>7. PICK n \in Nat : n = Len(now)
    BY <1>3, StackLen
<1>8. PICK m \in Nat : m = Len(lo)
    BY StackLen
<1>9. n <= m /\ now = Take(lo, n)
    BY <1>6, <1>7, <1>8 DEF Starts
<1>10. /\ w \in 1 .. m + 1
       /\ w <= m => w > n /\ lo[w].name \in Winder /\ lo[w] = Wind(lo[w].name)
    BY <1>6, <1>7, <1>8, FirstWinder
<1>11. PICK v \in 1 .. m + 1 : v = w
    BY <1>10
<1> HIDE DEF w
<1>12. v - 1 \in 0 .. m /\ n \in 0 .. v - 1
    BY <1>9, <1>10, <1>11
<1>13. dyn' = Take(lo, v - 1)
    <2>1. v - 1 \in 0 .. Len(lo)
        BY <1>8, <1>12
    <2>2. Take(lo, n) \o SubSeq(lo, n + 1, v - 1) = Take(lo, v - 1)
        BY <1>12, <2>1, TakeMore
    <2>3. dyn' = now \o SubSeq(lo, n + 1, v - 1)
        BY <1>4, <1>6, <1>7, <1>11
    <2> QED
        BY <1>9, <2>2, <2>3, Zenon
<1>14. v > m => v = m + 1
    OBVIOUS
<1>15. \/ v <= Len(lo) /\ lo[v].name \in Winder /\ lo[v] = Wind(lo[v].name)
          /\ frames' = Append(Below, Rewind(lo, lo[v].name))
       \/ v = Len(lo) + 1 /\ frames' = Below
    BY <1>4, <1>6, <1>8, <1>10, <1>11, <1>14
<1>16. v \in 1 .. Len(lo) + 1
    BY <1>8
<1> QED
    BY <1>5, <1>6, <1>13, <1>15, <1>16, Zenon DEF dest

LEMMA ReturnWindArranged ==
    ASSUME Inv, NEW par \in [Elem -> Stack], Coherent(par), Resumable, ReturnWind
    PROVE  Arranged'
<1>1. Running
    BY DEF ReturnWind, Running
<1>2. PICK lo \in Stack :
          /\ Chain(par, Below, lo) /\ lo = Top.dest /\ Obeys(par, lo)
          /\ \E v \in 1 .. Len(lo) + 1 :
                /\ dyn' = Take(lo, v - 1)
                /\ \/ v <= Len(lo) /\ lo[v].name \in Winder /\ lo[v] = Wind(lo[v].name)
                      /\ frames' = Append(Below, Rewind(lo, lo[v].name))
                   \/ v = Len(lo) + 1 /\ frames' = Below
    BY WindTo
<1>3. PICK v \in 1 .. Len(lo) + 1 :
          /\ dyn' = Take(lo, v - 1)
          /\ \/ v <= Len(lo) /\ lo[v].name \in Winder /\ lo[v] = Wind(lo[v].name)
                /\ frames' = Append(Below, Rewind(lo, lo[v].name))
             \/ v = Len(lo) + 1 /\ frames' = Below
    BY <1>2
<1>4. PICK m \in Nat : m = Len(lo)
    BY StackLen
<1>5. v \in 1 .. m + 1 /\ v - 1 \in 0 .. Len(lo)
    BY <1>4
<1>6. dyn' \in Stack /\ Obeys(par, dyn') /\ Len(dyn') = v - 1
    BY <1>2, <1>3, <1>5, TakeIs, ObeysTake
<1>7. CASE v = Len(lo) + 1 /\ frames' = Below
    <2>1. v - 1 = Len(lo)
        BY <1>4, <1>7
    <2>2. dyn' = lo
        BY <1>3, <2>1, TakeAll
    <2> QED
        BY <1>1, <1>2, <1>6, <1>7, <2>2, PopArranged
<1>8. CASE /\ v <= Len(lo) /\ lo[v].name \in Winder /\ lo[v] = Wind(lo[v].name)
           /\ frames' = Append(Below, Rewind(lo, lo[v].name))
    <2> DEFINE x == lo[v].name
    <2>1. x \in Winder /\ x # None /\ lo[v] = Wind(x) /\ v \in 1 .. m /\ lo[v] \in Elem
        BY <1>4, <1>5, <1>8, StackLen, DynamicStateAssumption
    <2> HIDE DEF x
    <2>2. Entered(dyn', x) = Append(dyn', lo[v])
        BY <2>1 DEF Entered
    <2>3. Append(dyn', lo[v]) = Take(lo, v)
        <3>1. PICK e \in Elem : e = lo[v]
            BY <2>1
        <3>2. PICK d \in Stack : d = dyn'
            BY <1>6
        <3>3. PICK g \in Stack : g = Append(d, e)
            BY PushIsJoin
        <3>4. Len(d) = v - 1 /\ \A i \in 1 .. v - 1 : d[i] = lo[i]
            BY <1>3, <1>5, <1>6, <3>2, TakeIs
        <3>5. Len(g) = v /\ g[v] = e /\ \A i \in 1 .. v - 1 : g[i] = d[i]
            BY <1>5, <3>3, <3>4 DEF Stack
        <3>6. v \in 0 .. Len(lo)
            BY <1>4, <2>1
        <3>7. Take(lo, v) \in Stack /\ Len(Take(lo, v)) = v /\ \A i \in 1 .. v : Take(lo, v)[i] = lo[i]
            BY <3>6, TakeIs
        <3>8. \A i \in 1 .. v : i \in 1 .. v - 1 \/ i = v
            BY <1>5
        <3>9. \A i \in 1 .. v : g[i] = Take(lo, v)[i]
            BY <3>1, <3>4, <3>5, <3>7, <3>8
        <3>10. g = Take(lo, v)
            BY <3>5, <3>7, <3>9, SameStack
        <3> QED
            BY <3>1, <3>2, <3>3, <3>10
    <2>4. Starts(Take(lo, v), lo)
        <3>1. v \in 0 .. Len(lo)
            BY <1>4, <2>1
        <3> QED
            BY <3>1, StartsTake
    <2>5. Starts(Entered(dyn', x), lo)
        BY <2>2, <2>3, <2>4, Zenon
    <2>6. Link(par, Rewind(lo, x), lo, dyn')
        BY <1>2, <2>5, LinkWind
    <2>7. Rewind(lo, x) \in Frame /\ Rewind(lo, x).kind # "unwind_to_prompt"
        BY <2>1, FramesMade, FrameKinds
    <2>8. frames' = Append(Below, Rewind(lo, x))
        BY <1>8 DEF x
    <2> QED
        BY <1>1, <1>2, <1>6, <2>6, <2>7, <2>8, ReplaceArranged
<1> QED
    BY <1>3, <1>7, <1>8

LEMMA TakeNext ==
    ASSUME NEW d \in Stack, NEW v \in 1 .. Len(d)
    PROVE  /\ d[v] \in Elem /\ v - 1 \in 0 .. Len(d) /\ v \in 0 .. Len(d)
           /\ Append(Take(d, v - 1), d[v]) = Take(d, v)
<1>1. PICK m \in Nat : m = Len(d)
    BY StackLen
<1>2. v \in 1 .. m /\ v - 1 \in 0 .. Len(d) /\ v \in 0 .. Len(d)
    BY <1>1
<1>3. PICK e \in Elem : e = d[v]
    BY StackLen
<1>4. PICK c \in Stack : c = Take(d, v - 1)
    BY <1>2, TakeIs
<1>5. Len(c) = v - 1 /\ \A i \in 1 .. v - 1 : c[i] = d[i]
    BY <1>2, <1>4, TakeIs
<1>6. PICK g \in Stack : g = Append(c, e)
    BY PushIsJoin
<1>7. Len(g) = v /\ g[v] = e /\ \A i \in 1 .. v - 1 : g[i] = c[i]
    BY <1>2, <1>5, <1>6 DEF Stack
<1>8. Take(d, v) \in Stack /\ Len(Take(d, v)) = v /\ \A i \in 1 .. v : Take(d, v)[i] = d[i]
    BY <1>2, TakeIs
<1>9. \A i \in 1 .. v : i \in 1 .. v - 1 \/ i = v
    BY <1>2
<1>10. \A i \in 1 .. v : g[i] = Take(d, v)[i]
    BY <1>3, <1>5, <1>7, <1>8, <1>9
<1>11. g = Take(d, v)
    BY <1>7, <1>8, <1>10, SameStack
<1> QED
    BY <1>2, <1>3, <1>4, <1>6, <1>11, Zenon

LEMMA EnteredJoin ==
    ASSUME NEW d \in Stack, NEW w \in Winder \union {None}
    PROVE  Entered(<<>>, w) \in Stack /\ Entered(d, w) = d \o Entered(<<>>, w)
<1>1. <<>> \in Stack
    BY DEF Stack
<1>2. CASE w = None
    <2>1. d \o <<>> = d
        BY DEF Stack
    <2> QED
        BY <1>1, <1>2, <2>1 DEF Entered
<1>3. CASE w # None
    <2>1. PICK e \in Elem : e = Wind(w)
        BY <1>3, ElemsMade
    <2>2. Append(<<>>, e) = <<e>> /\ <<e>> \in Stack /\ Append(d, e) = d \o <<e>>
        BY PushIsJoin
    <2>3. Entered(<<>>, w) = Append(<<>>, e) /\ Entered(d, w) = Append(d, e)
        BY <1>3, <2>1 DEF Entered
    <2> QED
        BY <2>2, <2>3, Zenon
<1> QED
    BY <1>2, <1>3

\* A slice split at an element.
LEMMA SplitOne ==
    ASSUME NEW d \in Stack, NEW v \in 1 .. Len(d)
    PROVE  /\ From(d, v + 1) \in Stack /\ <<d[v]>> \o From(d, v + 1) \in Stack
           /\ d = Take(d, v - 1) \o (<<d[v]>> \o From(d, v + 1))
<1>1. d[v] \in Elem /\ v - 1 \in 0 .. Len(d) /\ v \in 0 .. Len(d)
    BY TakeNext
<1>2. Append(Take(d, v - 1), d[v]) = Take(d, v)
    BY TakeNext
<1>3. PICK e \in Elem : e = d[v]
    BY <1>1
<1>4. PICK c \in Stack : c = Take(d, v - 1)
    BY <1>1, TakeIs
<1>5. From(d, v + 1) \in Stack
    BY <1>1, SplitStack
<1>6. PICK g \in Stack : g = From(d, v + 1)
    BY <1>5
<1>7. d = Take(d, v) \o g
    BY <1>1, <1>6, SplitStack
<1>8. PICK h \in Stack : h = <<e>>
    BY PushIsJoin
<1>9. Append(c, e) = c \o h
    BY <1>8, PushIsJoin
<1>10. d = (c \o h) \o g
    BY <1>2, <1>3, <1>4, <1>7, <1>9, Zenon
<1>11. c \o (h \o g) = (c \o h) \o g
    BY JoinJoin
<1>12. h \o g \in Stack
    BY JoinIs
<1> QED
    BY <1>3, <1>4, <1>5, <1>6, <1>8, <1>10, <1>11, <1>12, Zenon

\* What wind_delim has pushed and has still to push is what its frame promised.
LEMMA DelimTo ==
    ASSUME Inv, NEW par, Coherent(par), ReturnWindDelim
    PROVE  \E lo \in Stack, rest \in Stack :
              /\ Chain(par, Below, lo) /\ Obeys(par, lo) /\ dyn' \in Stack
              /\ \E v \in 1 .. Len(rest) + 1 :
                    \/ v = Len(rest) + 1 /\ dyn' = lo /\ frames' = Below
                    \/ /\ v <= Len(rest) /\ rest[v].name \in Winder /\ rest[v] = Wind(rest[v].name)
                       /\ lo = dyn' \o (<<rest[v]>> \o From(rest, v + 1))
                       /\ frames' = Append(Below, RewindDelim(From(rest, v + 1), rest[v].name))
                       /\ From(rest, v + 1) \in Stack
<1> DEFINE rest == Top.rest
           now == Entered(dyn, Top.winder)
           w == FirstPos(rest, WindersAbove(rest, 0))
<1>1. Top.kind = "wind_delim"
    BY DEF ReturnWindDelim
<1>2. rest \in Stack /\ Top.winder \in Winder \union {None} /\ dyn \in Stack
    BY <1>1, RunningTop, FrameParts, RunningIs
<1>3. now \in Stack
    BY <1>2, EnteredTyped
<1>4. /\ dyn' = now \o Take(rest, w - 1)
      /\ \/ w <= Len(rest) /\ frames' = Append(Below, RewindDelim(From(rest, w + 1), rest[w].name))
         \/ w > Len(rest) /\ frames' = Below
    BY DEF ReturnWindDelim
<1>5. PICK lo \in Stack : Chain(par, Below, lo) /\ Link(par, Top, lo, dyn)
    BY TopLink
<1>6. lo = dyn \o More(Top) /\ ObeysFrom(par, lo, Len(dyn))
    BY <1>1, <1>5, LinkCases
<1>7. PICK r \in Stack : r = rest
    BY <1>2
<1>8. PICK n \in Stack : n = now
    BY <1>3
<1>9. PICK x \in Stack : x = Entered(<<>>, Top.winder)
    BY <1>2, EnteredJoin
<1>10. n = dyn \o x
    BY <1>2, <1>8, <1>9, EnteredJoin
<1>11. lo = dyn \o (x \o r)
    BY <1>6, <1>7, <1>9, Zenon DEF More
<1>12. x \o r \in Stack
    BY JoinIs
<1>13. Obeys(par, lo)
    BY <1>2, <1>6, <1>11, <1>12, ObeysJoin, RunningIs
<1>14. lo = n \o r
    <2>1. dyn \o (x \o r) = (dyn \o x) \o r
        BY <1>2, JoinJoin
    <2> QED
        BY <1>10, <1>11, <2>1, Zenon
<1>15. /\ dyn' = n \o Take(r, w - 1)
       /\ \/ w <= Len(r) /\ frames' = Append(Below, RewindDelim(From(r, w + 1), r[w].name))
          \/ w > Len(r) /\ frames' = Below
    BY <1>4, <1>7, <1>8, Zenon
<1>16. PICK m \in Nat : m = Len(r)
    BY StackLen
<1>17. /\ w \in 1 .. m + 1
       /\ w <= m => r[w].name \in Winder /\ r[w] = Wind(r[w].name)
    BY <1>7, <1>16, FirstWinder
<1>18. PICK v \in 1 .. m + 1 : v = w
    BY <1>17
<1> HIDE DEF rest, now, w
<1>19. v \in 1 .. Len(r) + 1
    BY <1>16
<1>20. dyn' = n \o Take(r, v - 1)
    BY <1>15, <1>18
<1>21. PICK c \in Stack : c = Take(r, v - 1)
    <2>1. v - 1 \in 0 .. Len(r)
        BY <1>16
    <2> QED
        BY <2>1, TakeIs
<1>22. dyn' = n \o c
    BY <1>20, <1>21, Zenon
<1>23. dyn' \in Stack
    BY <1>22, JoinIs
<1>24. CASE w > Len(r) /\ frames' = Below
    <2>1. v = Len(r) + 1 /\ v - 1 = Len(r)
        BY <1>16, <1>18, <1>24
    <2>2. c = r
        BY <1>21, <2>1, TakeAll
    <2>3. dyn' = lo
        BY <1>14, <1>22, <2>2, Zenon
    <2> QED
        BY <1>5, <1>13, <1>19, <1>23, <1>24, <2>1, <2>3
<1>25. CASE w <= Len(r) /\ frames' = Append(Below, RewindDelim(From(r, w + 1), r[w].name))
    <2>1. v \in 1 .. Len(r) /\ v <= Len(r)
        BY <1>16, <1>18, <1>25
    <2>2. r[v].name \in Winder /\ r[v] = Wind(r[v].name)
        BY <1>16, <1>17, <1>18, <2>1
    <2>3. From(r, v + 1) \in Stack
        BY <2>1, SplitOne
    <2>4. PICK y \in Stack : y = <<r[v]>> \o From(r, v + 1)
        BY <2>1, SplitOne
    <2>5. r = c \o y
        <3>1. r = Take(r, v - 1) \o (<<r[v]>> \o From(r, v + 1))
            BY <2>1, SplitOne
        <3> QED
            BY <1>21, <2>4, <3>1, Zenon
    <2>6. n \o (c \o y) = (n \o c) \o y
        BY JoinJoin
    <2>7. lo = dyn' \o y
        BY <1>14, <1>22, <2>5, <2>6, Zenon
    <2>8. lo = dyn' \o (<<r[v]>> \o From(r, v + 1))
        BY <2>4, <2>7, Zenon
    <2>9. frames' = Append(Below, RewindDelim(From(r, v + 1), r[v].name))
        BY <1>18, <1>25
    <2> QED
        BY <1>5, <1>13, <1>19, <1>23, <2>1, <2>2, <2>3, <2>8, <2>9, Zenon
<1> QED
    BY <1>15, <1>24, <1>25

LEMMA ReturnWindDelimArranged ==
    ASSUME Inv, NEW par \in [Elem -> Stack], Coherent(par), Resumable, ReturnWindDelim
    PROVE  Arranged'
<1>1. Running
    BY DEF ReturnWindDelim, Running
<1>2. PICK lo \in Stack, rest \in Stack :
          /\ Chain(par, Below, lo) /\ Obeys(par, lo) /\ dyn' \in Stack
          /\ \E v \in 1 .. Len(rest) + 1 :
                \/ v = Len(rest) + 1 /\ dyn' = lo /\ frames' = Below
                \/ /\ v <= Len(rest) /\ rest[v].name \in Winder /\ rest[v] = Wind(rest[v].name)
                   /\ lo = dyn' \o (<<rest[v]>> \o From(rest, v + 1))
                   /\ frames' = Append(Below, RewindDelim(From(rest, v + 1), rest[v].name))
                   /\ From(rest, v + 1) \in Stack
    BY DelimTo
<1>3. CASE dyn' = lo /\ frames' = Below
    BY <1>1, <1>2, <1>3, PopArranged
<1>4. ASSUME NEW v, rest[v].name \in Winder, rest[v] = Wind(rest[v].name),
             lo = dyn' \o (<<rest[v]>> \o From(rest, v + 1)),
             frames' = Append(Below, RewindDelim(From(rest, v + 1), rest[v].name)),
             From(rest, v + 1) \in Stack
      PROVE  Arranged'
    <2>1. PICK x \in Winder : x = rest[v].name
        BY <1>4
    <2>2. PICK y \in Stack : y = From(rest, v + 1)
        BY <1>4
    <2>3. x # None /\ Wind(x) \in Elem
        BY DynamicStateAssumption, ElemsMade
    <2>4. Entered(<<>>, x) = <<rest[v]>>
        BY <1>4, <2>1, <2>3 DEF Entered
    <2>5. lo = dyn' \o (Entered(<<>>, x) \o y)
        BY <1>4, <2>2, <2>4, Zenon
    <2>6. Entered(<<>>, x) \in Stack
        BY <1>2, EnteredJoin
    <2>7. PICK z \in Stack : z = Entered(<<>>, x) \o y
        BY <2>6, JoinIs
    <2>8. lo = dyn' \o z
        BY <2>5, <2>7, Zenon
    <2>9. PICK m \in Nat : m = Len(dyn')
        BY <1>2, StackLen
    <2>10. m \in 0 .. Len(lo) /\ Take(lo, m) = dyn'
        <3>1. PICK d \in Stack : d = dyn'
            BY <1>2
        <3>2. PICK k \in Nat : k = Len(z)
            BY StackLen
        <3>3. lo = d \o z /\ Len(d) = m
            BY <2>8, <2>9, <3>1
        <3>4. Len(lo) = m + k
            BY <3>2, <3>3, JoinIs
        <3>5. m \in 0 .. Len(d)
            BY <3>3
        <3>6. Take(d \o z, m) = Take(d, m) /\ Take(d, m) = d
            BY <3>3, <3>5, TakeJoin, TakeAll
        <3> QED
            BY <3>1, <3>3, <3>4, <3>6
    <2>11. Obeys(par, dyn')
        BY <1>2, <2>10, ObeysTake
    <2>12. ObeysFrom(par, lo, Len(dyn'))
        BY <1>2, <2>9 DEF Obeys, ObeysFrom
    <2>13. Link(par, RewindDelim(y, x), lo, dyn')
        BY <2>5, <2>12, LinkDelim
    <2>14. RewindDelim(y, x) \in Frame /\ RewindDelim(y, x).kind # "unwind_to_prompt"
        BY FramesMade, FrameKinds
    <2>15. frames' = Append(Below, RewindDelim(y, x))
        BY <1>4, <2>1, <2>2
    <2> QED
        BY <1>1, <1>2, <2>11, <2>13, <2>14, <2>15, ReplaceArranged
<1> QED
    BY <1>2, <1>3, <1>4, Zenon

LEMMA ReturnReraiseArranged ==
    ASSUME Inv, NEW par \in [Elem -> Stack], Coherent(par), Resumable, ReturnReraise
    PROVE  Arranged'
<1>1. /\ Running /\ frames' = Append(Below, UnwindHandler) /\ dyn' = dyn
      /\ Top.kind = "reraise_exception"
    BY DEF ReturnReraise, Running
<1>2. PICK lo \in Stack : Chain(par, Below, lo) /\ Link(par, Top, lo, dyn)
    BY TopLink
<1>3. Starts(dyn, lo)
    BY <1>1, <1>2, LinkCases
<1>4. UnwindHandler \in Frame /\ UnwindHandler.kind # "unwind_to_prompt" /\ Link(par, UnwindHandler, lo, dyn)
    BY <1>3, FramesMade, FrameKinds, LinkHandler
<1> QED
    BY <1>1, <1>2, <1>4, RunningIs, ReplaceArranged

\* A stack that was popped is still the start of what it started.
LEMMA StartsCut ==
    ASSUME NEW d \in Stack, NEW e \in Stack, Starts(d, e), NEW n \in 0 .. Len(d)
    PROVE  Take(d, n) \in Stack /\ Starts(Take(d, n), e)
<1>1. Take(d, n) \in Stack /\ Len(Take(d, n)) = n
    BY TakeIs
<1>2. n <= Len(e) /\ Take(e, n) = Take(d, n)
    BY StartsKeeps
<1> QED
    BY <1>1, <1>2 DEF Starts

\* Control goes back to the barrier below, or to a new one.
LEMMA EndBarrierArranged ==
    ASSUME Inv, NEW par \in [Elem -> Stack], Coherent(par), Resumable,
           NEW failed \in BOOLEAN, EndBarrier(failed)
    PROVE  Arranged'
<1>1. CASE outer # <<>>
    <2> DEFINE c == Last(outer)
    <2>1. /\ id' = c.id /\ dyn' = c.dyn
          /\ frames' = c.frames \o (IF failed THEN <<UnwindHandler>> ELSE <<>>)
          /\ outer' = Front(outer) /\ UNCHANGED <<conts, delims>>
        BY <1>1 DEF EndBarrier
    <2>2. outer \in Seq(Context)
        BY DEF Inv, Typed
    <2>3. PICK n \in Nat : n = Len(outer) /\ n >= 1 /\ DOMAIN outer = 1 .. n
        BY <1>1, <2>2, SplitTop
    <2>4. /\ c = outer[n] /\ c \in Context /\ outer' \in Seq(Context) /\ Len(outer') = n - 1
          /\ \A i \in 1 .. n - 1 : outer'[i] = outer[i]
        BY <1>1, <2>1, <2>2, <2>3, SplitTop
    <2>5. DOMAIN outer' = 1 .. n - 1 /\ n \in 1 .. n /\ \A i \in 1 .. n - 1 : i \in 1 .. n
        BY <2>3, <2>4
    <2>6. c.frames \in Seq(Frame) /\ c.dyn \in Stack
        BY <2>4 DEF Context
    <2>7. Sound(par, c.frames, c.dyn)
        BY <2>3, <2>4, <2>5 DEF Coherent
    <2> HIDE DEF c
    <2>8. Sound(par, frames', dyn')
        <3>1. CASE failed
            <4>1. frames' = Append(c.frames, UnwindHandler)
                <5>1. c.frames \o <<UnwindHandler>> = Append(c.frames, UnwindHandler)
                    BY <2>6, FramesMade
                <5> QED
                    BY <2>1, <3>1, <5>1
            <4>2. UnwindHandler \in Frame /\ UnwindHandler.kind # "unwind_to_prompt"
                BY FramesMade, FrameKinds
            <4>3. Link(par, UnwindHandler, c.dyn, c.dyn)
                BY <2>6, StartsSame, LinkHandler
            <4>4. Sound(par, Append(c.frames, UnwindHandler), c.dyn)
                BY <2>6, <2>7, <4>2, <4>3, SoundPush DEF Sound
            <4> QED
                BY <2>1, <4>1, <4>4
        <3>2. CASE ~failed
            <4>1. c.frames \o <<>> = c.frames
                BY <2>6
            <4> QED
                BY <2>1, <2>7, <3>2, <4>1
        <3> QED
            BY <3>1, <3>2
    <2>9. \A i \in 1 .. n - 1 : Sound(par, outer'[i].frames, outer'[i].dyn)
        BY <2>3, <2>4, <2>5 DEF Coherent
    <2>10. Coherent(par)'
        BY <2>1, <2>5, <2>8, <2>9 DEF Coherent
    <2>11. Resumable'
        BY <2>1 DEF Resumable
    <2> QED
        BY <2>10, <2>11 DEF Arranged
<1>2. CASE outer = <<>>
    <2>1. /\ id' = Fresh(BarrierIds) /\ dyn' = <<>> /\ frames' = <<Halt(id')>>
          /\ UNCHANGED <<outer, conts, delims>>
        BY <1>2 DEF EndBarrier
    <2>2. id' \in Nat
        BY EndBarrierStep DEF Inv, Typed
    <2>3. Sound(par, frames', dyn')
        BY <2>1, <2>2, NewBarrier
    <2>4. Coherent(par)'
        BY <2>1, <2>3 DEF Coherent
    <2>5. Resumable'
        BY <2>1 DEF Resumable
    <2> QED
        BY <2>4, <2>5 DEF Arranged
<1> QED
    BY <1>1, <1>2

LEMMA ReturnHaltArranged ==
    ASSUME Inv, NEW par \in [Elem -> Stack], Coherent(par), Resumable, ReturnHalt
    PROVE  Arranged'
BY EndBarrierArranged DEF ReturnHalt

LEMMA ReturnUnwindHandlerArranged ==
    ASSUME Inv, NEW par \in [Elem -> Stack], Coherent(par), Resumable, ReturnUnwindHandler
    PROVE  Arranged'
<1>1. PICK n \in Nat : n = HandlerStop /\ n \in 0 .. Len(dyn)
    BY HandlerStopIs
<1>2. /\ Top.kind = "unwind_to_exception_handler"
      /\ \/ EndBarrier(TRUE)
         \/ /\ n > 0 /\ dyn' = Take(dyn, n - 1) /\ Running
            /\ frames' = frames \/ frames' = Append(Below, Reraise)
    BY <1>1, HandlerCases DEF Running
<1>3. CASE EndBarrier(TRUE)
    BY <1>3, EndBarrierArranged
<1>4. CASE /\ n > 0 /\ dyn' = Take(dyn, n - 1) /\ Running
           /\ frames' = frames \/ frames' = Append(Below, Reraise)
    <2>1. n - 1 \in 0 .. Len(dyn) /\ dyn \in Stack
        BY <1>1, <1>4, RunningIs, DynIsStack
    <2>2. PICK lo \in Stack : Chain(par, Below, lo) /\ Link(par, Top, lo, dyn)
        BY TopLink
    <2>3. Starts(dyn, lo) /\ \A e : Starts(e, lo) => Link(par, Top, lo, e)
        BY <1>2, <2>2, LinkCases
    <2>4. dyn' \in Stack /\ Starts(dyn', lo)
        BY <1>4, <2>1, <2>3, StartsCut
    <2>5. Obeys(par, dyn')
        BY <1>4, <2>1, RunningIs, ObeysTake
    <2>6. CASE frames' = frames
        BY <1>4, <2>2, <2>3, <2>4, <2>5, <2>6, StayArranged
    <2>7. CASE frames' = Append(Below, Reraise)
        <3>1. Reraise \in Frame /\ Reraise.kind # "unwind_to_prompt" /\ Link(par, Reraise, lo, dyn')
            BY <2>4, FramesMade, FrameKinds, LinkHandler
        <3> QED
            BY <1>4, <2>2, <2>4, <2>5, <2>7, <3>1, ReplaceArranged
    <2> QED
        BY <1>4, <2>6, <2>7
<1> QED
    BY <1>2, <1>3, <1>4

LEMMA FromTyped == ASSUME NEW d \in Stack, NEW n \in Nat PROVE From(d, n + 1) \in Stack
<1>1. PICK k \in Nat : k = Len(d)
    BY StackLen
<1>2. CASE n <= k
    <2>1. n \in 0 .. Len(d)
        BY <1>1, <1>2
    <2> QED
        BY <2>1, SplitStack
<1>3. CASE n > k
    <2>1. n + 1 \in Int /\ k \in Int /\ k < n + 1
        BY <1>3
    <2>2. SubSeq(d, n + 1, k) = <<>>
        BY <2>1, SubSeqEmpty
    <2> QED
        BY <1>1, <2>2 DEF From, Stack
<1> QED
    BY <1>2, <1>3

\* With elements that are installed once, the first barrier of a prompt is the
\* only one.
LEMMA OnlyBarrier ==
    ASSUME NEW fs \in Seq(Frame), Unshared(fs), NEW e, NEW b \in 1 .. Len(fs), fs[b] = Barrier(e)
    PROVE  FirstPos(fs, PositionsOf(fs, Barrier(e))) = b
<1> DEFINE g == Barrier(e)
           S == PositionsOf(fs, g)
<1>1. S \subseteq 1 .. Len(fs) /\ (\A i \in S : fs[i] = g) /\ b \in S
    BY DEF PositionsOf
<1>2. Owner(g)
    BY FrameKinds DEF Owner
<1> HIDE DEF S, g
<1>3. PICK m \in Nat : m = Len(fs) /\ DOMAIN fs = 1 .. m
    OBVIOUS
<1>4. PICK f \in 1 .. m + 1 : /\ f = FirstPos(fs, S) /\ (f <= m => f \in S)
                              /\ \A i \in S : i >= f
    BY <1>1, <1>3, FirstPosIs
<1>5. f \in S /\ f \in 1 .. m
    BY <1>1, <1>3, <1>4
<1>6. fs[f] = g /\ fs[b] = g
    BY <1>1, <1>5
<1>7. f = b
    BY <1>2, <1>3, <1>5, <1>6 DEF Unshared
<1> QED
    BY <1>4, <1>7 DEF g, S

\* unwind_to_prompt splits the continuation at its prompt.
LEMMA SplitAtArranged ==
    ASSUME Inv, ~Shared, NEW par \in [Elem -> Stack], Coherent(par), Resumable,
           NEW n \in 1 .. Len(dyn), dyn[n].kind = "Prompt", Top.kind = "unwind_to_prompt", SplitAt(n)
    PROVE  Arranged'
<1>1. PICK lo \in Stack : Chain(par, Below, lo) /\ Link(par, Top, lo, dyn)
    BY TopLink
<1>2. lo = Top.saved /\ Obeys(par, lo) /\ Starts(dyn, lo)
    BY <1>1, LinkCases
<1>3. Quiet(Below) /\ NoJumps(Below) /\ Below \in Seq(Frame) /\ dyn \in Stack
    BY TopLink, RunningTop, DynIsStack
<1>4. PICK m \in Nat : m = Len(dyn)
    BY <1>3, StackLen
<1>5. PICK l \in Nat : l = Len(lo)
    BY StackLen
<1>6. n \in 1 .. m /\ m <= l /\ n \in 1 .. Len(lo) /\ n - 1 \in 0 .. Len(dyn) /\ n \in 1 .. l
    BY <1>2, <1>4, <1>5 DEF Starts
<1>7. lo[n] = dyn[n]
    <2>1. dyn = Take(lo, m) /\ m \in 0 .. Len(lo)
        BY <1>2, <1>4, <1>5, <1>6 DEF Starts
    <2> QED
        BY <1>6, <2>1, TakeIs
<1>8. Take(lo, n - 1) = Take(dyn, n - 1)
    BY <1>2, <1>3, <1>6, StartsKeeps
<1>9. PICK c \in Nat : c = Len(Below)
    BY <1>3
<1>10. PICK p \in [0 .. c -> Stack] : Path(par, Below, p) /\ p[c] = lo
    BY <1>1, <1>9 DEF Chain
<1>11. NoUnwind(Below)
    BY <1>3 DEF NoJumps, Jumps, NoUnwind
<1>12. PICK b \in 1 .. c : FoundAt(Below, p, lo, n, b)
    BY <1>3, <1>6, <1>7, <1>9, <1>10, <1>11, PromptFound
<1>13. Below[b] = Barrier(dyn[n]) /\ p[b - 1] = Take(lo, n - 1)
    BY <1>7, <1>12 DEF FoundAt
<1>14. Unshared(Below)
    <2>1. Below = SubSeq(frames, 1, c) /\ c <= Len(frames) /\ frames \in Seq(Frame)
        BY <1>9, RunningTop DEF Below, Front, Inv, Typed
    <2> QED
        BY <2>1, UnsharedPart DEF Inv, Apart
<1>15. FirstPos(Below, PositionsOf(Below, Barrier(dyn[n]))) = b
    BY <1>3, <1>9, <1>13, <1>14, OnlyBarrier
<1>16. /\ frames' = Take(Below, b - 1) /\ dyn' = Take(dyn, n - 1)
       /\ UNCHANGED <<id, outer, conts>>
    BY <1>15 DEF SplitAt
<1>17. PICK k \in Delim :
          delims' = [delims EXCEPT ![k] = [frames |-> From(Below, b + 1), dyn |-> From(lo, n + 1)]]
    BY <1>2, <1>15 DEF SplitAt
<1>18. b - 1 \in 0 .. c
    BY <1>9
<1>19. frames' \in Seq(Frame) /\ Len(frames') = b - 1 /\ \A i \in 1 .. b - 1 : frames'[i] = Below[i]
    BY <1>3, <1>9, <1>16, <1>18, FramesTake
<1>20. dyn' = Take(lo, n - 1) /\ dyn' = p[b - 1]
    BY <1>8, <1>13, <1>16
<1>21. Sound(par, frames', dyn')
    <2>1. Chain(par, Take(Below, b - 1), p[b - 1])
        BY <1>3, <1>9, <1>10, <1>18, ChainBelow
    <2>2. Chain(par, frames', dyn')
        BY <1>16, <1>20, <2>1
    <2>3. Obeys(par, Take(lo, n - 1))
        <3>1. n - 1 \in 0 .. Len(lo)
            BY <1>5, <1>6
        <3> QED
            BY <1>2, <3>1, ObeysTake
    <2>4. Quiet(frames')
        <3>1. b - 1 <= Len(Below)
            BY <1>9, <1>18
        <3> QED
            BY <1>3, <1>19, <3>1, QuietPart
    <2> QED
        BY <1>20, <2>2, <2>3, <2>4 DEF Sound
<1>22. Coherent(par)'
    BY <1>16, <1>21 DEF Coherent
<1> DEFINE rpar == [x \in Elem |-> From(par[x], n + 1)]
<1>23. rpar \in [Elem -> Stack] /\ \A x \in Elem : rpar[x] = From(par[x], n + 1)
    BY <1>6, FromTyped
<1> HIDE DEF rpar
<1>24. PICK gs \in Seq(Frame) : gs = From(Below, b + 1) /\ NoJumps(gs)
    <2>1. PICK j \in Nat : c = b + j
        <3>1. c - b \in Nat /\ c = b + (c - b)
            BY <1>9
        <3> QED
            BY <3>1
    <2>2. b \in Nat /\ Len(Below) = b + j /\ Below \in Seq(Frame)
        BY <1>3, <1>9, <2>1
    <2>3. /\ From(Below, b + 1) \in Seq(Frame) /\ Len(From(Below, b + 1)) = j
          /\ \A i \in 1 .. j : From(Below, b + 1)[i] = Below[b + i]
        BY <2>2, FramesFrom
    <2>4. PICK fs \in Seq(Frame) : fs = From(Below, b + 1)
        BY <2>3
    <2>5. DOMAIN fs = 1 .. j /\ \A i \in 1 .. j : fs[i] = Below[b + i]
        <3>1. Len(fs) = j
            BY <2>3, <2>4, Zenon
        <3>2. DOMAIN fs = 1 .. j
            BY <3>1
        <3> QED
            BY <2>3, <2>4, <3>2, Zenon
    <2>6. \A i \in 1 .. j : b + i \in DOMAIN Below
        BY <2>2
    <2>7. NoJumps(fs)
        BY <1>3, <2>5, <2>6 DEF NoJumps
    <2> QED
        BY <2>4, <2>7
<1>25. PICK d \in Stack : d = From(lo, n + 1)
    BY <1>6, FromTyped
<1>26. Chain(rpar, gs, d)
    BY <1>3, <1>6, <1>9, <1>10, <1>12, <1>23, <1>24, <1>25, ChainAbove
<1>27. Obeys(rpar, d)
    <2>1. n \in 0 .. Len(lo)
        BY <1>5, <1>6
    <2>2. PICK a \in Stack : a = Take(lo, n) /\ Len(a) = n
        BY <2>1, TakeIs
    <2>3. lo = a \o d
        BY <1>25, <2>1, <2>2, SplitStack
    <2>4. PICK j \in Nat : j = Len(d)
        BY StackLen
    <2>5. Len(lo) = n + j
        <3>1. Len(a \o d) = Len(a) + Len(d)
            BY JoinIs
        <3> QED
            BY <2>2, <2>3, <2>4, <3>1, Zenon
    <2>6. ObeysFrom(par, a \o d, Len(a) + 0)
        <3>1. \A i \in n + 0 + 1 .. n + j : i \in 0 + 1 .. n + j
            BY <1>6
        <3>2. ObeysFrom(par, lo, n + 0)
            BY <1>2, <2>5, <3>1 DEF Obeys, ObeysFrom
        <3> QED
            BY <2>2, <2>3, <3>2
    <2>7. \A i \in 0 + 1 .. Len(d) : rpar[d[i]] = From(par[d[i]], Len(a) + 1)
        <3>1. \A i \in 0 + 1 .. Len(d) : d[i] \in Elem
            BY <2>4, StackLen
        <3> QED
            BY <1>23, <2>2, <3>1
    <2>8. 0 \in 0 .. Len(d)
        BY <2>4
    <2>9. ObeysFrom(rpar, d, 0)
        BY <2>6, <2>7, <2>8, ObeysAbove
    <2> QED
        BY <2>9 DEF Obeys
<1>28. Quiet(gs)
    BY <1>24 DEF NoJumps, Quiet, Jumps
<1>29. Sound(rpar, gs, d)
    BY <1>26, <1>27, <1>28 DEF Sound
<1>30. Resumable'
    <2>1. delims' = [delims EXCEPT ![k] = [frames |-> gs, dyn |-> d]]
        BY <1>17, <1>24, <1>25, Zenon
    <2>2. ASSUME NEW j \in Delim, delims'[j] # None
          PROVE  \E q \in [Elem -> Stack] :
                    Sound(q, delims'[j].frames, delims'[j].dyn) /\ NoJumps(delims'[j].frames)
        <3>1. CASE j = k
            <4>1. delims'[j].frames = gs /\ delims'[j].dyn = d
                BY <2>1, <3>1 DEF Inv, Typed
            <4> QED
                BY <1>23, <1>24, <1>29, <4>1
        <3>2. CASE j # k
            <4>1. delims'[j] = delims[j]
                BY <2>1, <3>2 DEF Inv, Typed
            <4> QED
                BY <2>2, <4>1 DEF Resumable
        <3> QED
            BY <3>1, <3>2
    <2> QED
        BY <2>2 DEF Resumable
<1> QED
    BY <1>22, <1>30 DEF Arranged

LEMMA ReturnUnwindPromptArranged ==
    ASSUME Inv, ~Shared, NEW par \in [Elem -> Stack], Coherent(par), Resumable, ReturnUnwindPrompt
    PROVE  Arranged'
<1>1. PICK n \in Nat : n = PromptStop(Top.name) /\ n \in 0 .. Len(dyn)
    BY PromptStopIs
<1>2. /\ Top.kind = "unwind_to_prompt"
      /\ \/ EndBarrier(TRUE)
         \/ n > 0 /\ dyn' = Take(dyn, n - 1) /\ frames' = frames /\ Running
         \/ n > 0 /\ ~IsWinder(dyn[n]) /\ SplitAt(n)
    BY <1>1, PromptCases DEF Running
<1>3. CASE EndBarrier(TRUE)
    BY <1>3, EndBarrierArranged
<1>4. CASE n > 0 /\ dyn' = Take(dyn, n - 1) /\ frames' = frames /\ Running
    <2>1. n - 1 \in 0 .. Len(dyn) /\ dyn \in Stack
        BY <1>1, <1>4, DynIsStack
    <2>2. PICK lo \in Stack : Chain(par, Below, lo) /\ Link(par, Top, lo, dyn)
        BY TopLink
    <2>3. Starts(dyn, lo) /\ \A e : Starts(e, lo) => Link(par, Top, lo, e)
        BY <1>2, <2>2, LinkCases
    <2>4. dyn' \in Stack /\ Starts(dyn', lo)
        BY <1>4, <2>1, <2>3, StartsCut
    <2>5. Obeys(par, dyn')
        BY <1>4, <2>1, RunningIs, ObeysTake
    <2> QED
        BY <1>4, <2>2, <2>3, <2>4, <2>5, StayArranged
<1>5. CASE n > 0 /\ ~IsWinder(dyn[n]) /\ SplitAt(n)
    <2> DEFINE S == {i \in 1 .. Len(dyn) : \/ IsWinder(dyn[i])
                                           \/ dyn[i].kind = "Prompt" /\ dyn[i].name = Top.name}
    <2>1. n = LastPos(S) /\ S \subseteq 1 .. Len(dyn) /\ \A i \in S : IsWinder(dyn[i]) \/ dyn[i].kind = "Prompt"
        BY <1>1 DEF PromptStop
    <2> HIDE DEF S
    <2>2. PICK m \in Nat : m = Len(dyn)
        BY DynIsStack
    <2>3. n \in S
        BY <1>5, <2>1, <2>2, LastPosIs
    <2>4. n \in 1 .. Len(dyn) /\ dyn[n].kind = "Prompt"
        BY <1>5, <2>1, <2>3
    <2> QED
        BY <1>2, <1>5, <2>4, SplitAtArranged
<1> QED
    BY <1>2, <1>3, <1>4, <1>5

----------------------------------------------------------------------------
(* Arranged is an invariant when no element is installed twice and no thunk   *)
(* of a jump aborts.                                                         *)

LEMMA InitiallyArranged == Init => Arranged
<1> SUFFICES ASSUME Init PROVE Arranged
    OBVIOUS
<1> DEFINE par == [x \in Elem |-> <<>>]
<1>1. par \in [Elem -> Stack]
    BY DEF Stack
<1> HIDE DEF par
<1>2. Sound(par, frames, dyn)
    BY NewBarrier DEF Init
<1>3. DOMAIN outer = {} /\ \A k \in Cont : conts[k] = None
    BY DEF Init
<1>4. Coherent(par)
    BY <1>2, <1>3 DEF Coherent
<1>5. Resumable
    BY DEF Init, Resumable
<1> QED
    BY <1>1, <1>4, <1>5 DEF Arranged

LEMMA KeptArranged == ~Shared /\ ~ThunkAborts /\ Inv /\ Arranged /\ [Next]_vars => Arranged'
<1> SUFFICES ASSUME ~Shared, ~ThunkAborts, Inv, Arranged, [Next]_vars PROVE Arranged'
    OBVIOUS
<1>1. PICK par \in [Elem -> Stack] : Coherent(par) /\ Resumable
    BY DEF Arranged
<1>2. CASE Call
    <2>1. \A h \in Handler : Catch(h) \in Elem /\ Catch(h).kind # "Prompt"
        <3>1. \A h : Catch(h).kind # "Prompt"
            BY DEF Catch
        <3> QED
            BY <3>1, ElemsMade
    <2>2. \A p \in Port : Redirect(p) \in Elem /\ Redirect(p).kind # "Prompt"
        <3>1. \A p : Redirect(p).kind # "Prompt"
            BY DEF Redirect
        <3> QED
            BY <3>1, ElemsMade
    <2>3. ASSUME Raise PROVE Arranged'
        <3>1. Running /\ frames' = Append(frames, UnwindHandler) /\ dyn' = dyn
            BY <2>3 DEF Raise, Running
        <3> QED
            BY <1>1, <3>1, RaiseArranged
    <2> QED
        BY <1>1, <1>2, <2>1, <2>2, <2>3, CallNonTailArranged, CallFromRustArranged, DynamicWindArranged,
           WithElementArranged, CallWithPromptArranged, AbortToPromptArranged, CallCCArranged,
           EscapeArranged, ResumeArranged DEF Call
<1>3. CASE Return
    BY <1>1, <1>3, ReturnPlainArranged, ReturnInArranged, ReturnPopArranged, ReturnHaltArranged,
       ReturnUnwindArranged, ReturnWindArranged, ReturnWindDelimArranged,
       ReturnUnwindPromptArranged, ReturnUnwindHandlerArranged, ReturnReraiseArranged DEF Return
<1>4. CASE UNCHANGED vars
    BY <1>4 DEF vars, Arranged, Coherent, Resumable
<1> QED
    BY <1>2, <1>3, <1>4 DEF Next

\* In every reachable state each continuation, running, waiting or saved, finds
\* the dynamic stack that its frames need.
THEOREM ArrangedHolds == ASSUME ~Shared, ~ThunkAborts PROVE Spec => [](Inv /\ Arranged)
<1>1. Init => Inv /\ Arranged
    BY Initially, InitiallyArranged
<1>2. Inv /\ Arranged /\ [Next]_vars => (Inv /\ Arranged)'
    BY Kept, KeptArranged
<1> QED
    BY <1>1, <1>2, PTL DEF Spec

----------------------------------------------------------------------------
(* A jump arrives.                                                          *)

LEMMA WindArrives == ASSUME Inv, Arranged, ReturnWind, frames' = Below PROVE dyn' = Top.dest
<1>1. PICK par \in [Elem -> Stack] : Coherent(par)
    BY DEF Arranged
<1>2. PICK lo \in Stack :
          /\ lo = Top.dest
          /\ \E v \in 1 .. Len(lo) + 1 :
                /\ dyn' = Take(lo, v - 1)
                /\ \/ frames' = Append(Below, Rewind(lo, lo[v].name))
                   \/ v = Len(lo) + 1
    BY <1>1, WindTo
<1>3. PICK v \in 1 .. Len(lo) + 1 :
          /\ dyn' = Take(lo, v - 1)
          /\ \/ frames' = Append(Below, Rewind(lo, lo[v].name))
             \/ v = Len(lo) + 1
    BY <1>2
<1>4. frames' # Append(Below, Rewind(lo, lo[v].name))
    <2>1. \A f : Append(Below, f) # Below
        BY RunningTop
    <2> QED
        BY <2>1
<1>5. v - 1 = Len(lo)
    BY <1>3, <1>4, StackLen
<1>6. Take(lo, Len(lo)) = lo
    BY TakeAll
<1> QED
    BY <1>2, <1>3, <1>5, <1>6

\* A jump ends in the dynamic state it was captured in, whatever the thunks on
\* the way did.
THEOREM JumpArrivesHolds == ASSUME ~Shared, ~ThunkAborts PROVE Spec => JumpArrives
<1> DEFINE A == ReturnWind /\ frames' = Below => dyn' = Top.dest
<1>1. (Inv /\ Arranged) /\ [Next]_vars => [A]_vars
    BY WindArrives
<1> HIDE DEF A
<1>2. Spec => [][A]_vars
    BY <1>1, ArrangedHolds, PTL DEF Spec
<1> QED
    BY <1>2 DEF JumpArrives, A

----------------------------------------------------------------------------
(* Barriers match prompts.                                                  *)

LEMMA PromptHasBarrier ==
    ASSUME Inv, Arranged, "unwind" \notin Kinds(frames), NEW e \in ToSet(dyn), e.kind = "Prompt"
    PROVE  Barrier(e) \in ToSet(frames)
<1>1. PICK par \in [Elem -> Stack] : Coherent(par)
    BY DEF Arranged
<1>2. frames \in Seq(Frame) /\ dyn \in Stack
    BY DEF Inv, Typed
<1>3. Chain(par, frames, dyn)
    BY <1>1 DEF Coherent, Sound
<1>4. PICK m \in Nat : m = Len(frames)
    BY <1>2
<1>5. PICK p \in [0 .. m -> Stack] : Path(par, frames, p) /\ p[m] = dyn
    BY <1>3, <1>4 DEF Chain
<1>6. PICK n \in 1 .. Len(dyn) : dyn[n] = e
    BY <1>2 DEF ToSet, Stack
<1>7. NoUnwind(frames)
    BY DEF NoUnwind, Kinds
<1>8. PICK b \in 1 .. m : FoundAt(frames, p, dyn, n, b)
    BY <1>2, <1>4, <1>5, <1>6, <1>7, PromptFound
<1>9. frames[b] = Barrier(e) /\ b \in DOMAIN frames
    BY <1>2, <1>4, <1>6, <1>8 DEF FoundAt
<1> QED
    BY <1>9 DEF ToSet

\* The bottom frame halts the barrier that runs it, and every prompt has its
\* barrier on the continuation stack.
THEOREM BarriersMatchHolds == ASSUME ~Shared, ~ThunkAborts PROVE Spec => []BarriersMatch
<1>1. ASSUME Inv, Arranged PROVE BarriersMatch
    <2>1. frames[1] = Halt(id)
        BY <1>1 DEF Inv, Bottoms, Bottom
    <2>2. \A b \in ToSet(outer) : b.frames[1] = Halt(b.id)
        BY <1>1 DEF Inv, Bottoms, Bottom, ToSet
    <2>3. "unwind" \notin Kinds(frames) =>
              \A e \in ToSet(dyn) : e.kind = "Prompt" => Barrier(e) \in ToSet(frames)
        BY <1>1, PromptHasBarrier
    <2> QED
        BY <2>1, <2>2, <2>3 DEF BarriersMatch
<1>2. Inv /\ Arranged => BarriersMatch
    BY <1>1
<1> QED
    BY <1>2, ArrangedHolds, PTL

----------------------------------------------------------------------------
(* Continuations fit.                                                       *)

\* d ends with e.
Ends(e, d) == \E c \in Stack : d = c \o e

LEMMA ReverseIs ==
    ASSUME NEW d \in Stack, NEW n \in Nat, n = Len(d)
    PROVE  \E g \in Stack : g = Reverse(d) /\ Len(g) = n /\ \A i \in 1 .. n : g[i] = d[n - i + 1]
<1> DEFINE r == [i \in 1 .. n |-> d[n - i + 1]]
<1>1. \A i \in 1 .. n : d[n - i + 1] \in Elem
    <2>1. \A i \in 1 .. n : n - i + 1 \in 1 .. Len(d)
        OBVIOUS
    <2> QED
        BY <2>1, StackLen
<1>2. r \in [1 .. n -> Elem] /\ \A i \in 1 .. n : r[i] = d[n - i + 1]
    BY <1>1
<1>3. Reverse(d) = r
    BY DEF Reverse
<1> HIDE DEF r
<1>4. r \in Stack /\ Len(r) = n
    BY <1>2 DEF Stack
<1> QED
    BY <1>2, <1>3, <1>4

LEMMA EndsIsSuffix ==
    ASSUME NEW d \in Stack, NEW e \in Stack, Ends(e, d)
    PROVE  IsSuffix(e, d)
<1>1. PICK c \in Stack : d = c \o e
    BY DEF Ends
<1>2. PICK k \in Nat : k = Len(c)
    BY StackLen
<1>3. PICK m \in Nat : m = Len(e)
    BY StackLen
<1>4. Len(d) = k + m /\ \A i \in 1 .. m : d[k + i] = e[i]
    BY <1>1, <1>2, <1>3, JoinIs
<1>5. PICK g \in Stack : g = Reverse(e) /\ Len(g) = m /\ \A i \in 1 .. m : g[i] = e[m - i + 1]
    BY <1>3, ReverseIs
<1>6. PICK h \in Stack : h = Reverse(d) /\ Len(h) = k + m /\ \A i \in 1 .. k + m : h[i] = d[k + m - i + 1]
    BY <1>2, <1>3, <1>4, ReverseIs
<1>7. ASSUME NEW i \in 1 .. m PROVE h[i] = g[i]
    <2>1. PICK j \in 1 .. m : j = m - i + 1
        OBVIOUS
    <2>2. i \in 1 .. k + m /\ k + m - i + 1 = k + j
        BY <2>1
    <2>3. h[i] = d[k + j]
        BY <1>6, <2>2
    <2> QED
        BY <1>4, <1>5, <2>1, <2>3
<1>8. m \in 0 .. Len(g) /\ m \in 0 .. Len(h)
    BY <1>5, <1>6
<1>9. /\ Take(g, m) \in Stack /\ Len(Take(g, m)) = m
      /\ \A i \in 1 .. m : Take(g, m)[i] = g[i]
    BY <1>8, TakeIs
<1>10. /\ Take(h, m) \in Stack /\ Len(Take(h, m)) = m
       /\ \A i \in 1 .. m : Take(h, m)[i] = h[i]
    BY <1>8, TakeIs
<1>11. \A i \in 1 .. m : Take(g, m)[i] = Take(h, m)[i]
    BY <1>7, <1>9, <1>10
<1>12. Take(g, m) = Take(h, m)
    BY <1>9, <1>10, <1>11, SameStack
<1>13. IsPrefix(g, h)
    BY <1>5, <1>6, <1>12 DEF IsPrefix, Take
<1> QED
    BY <1>5, <1>6, <1>13 DEF IsSuffix

LEMMA EndsAll == ASSUME NEW d \in Stack PROVE Ends(<<>>, d) /\ Ends(d, d) /\ <<>> \in Stack
<1>1. <<>> \in Stack /\ d \o <<>> = d /\ <<>> \o d = d
    BY DEF Stack
<1> QED
    BY <1>1, Zenon DEF Ends

LEMMA EndsPush ==
    ASSUME NEW d \in Stack, NEW e \in Stack, NEW x \in Elem, Ends(e, d)
    PROVE  Ends(Append(e, x), Append(d, x))
<1>1. PICK c \in Stack : d = c \o e
    BY DEF Ends
<1>2. c \o Append(e, x) = Append(c \o e, x)
    BY JoinPush
<1> QED
    BY <1>1, <1>2, Zenon DEF Ends

LEMMA JoinParts ==
    ASSUME NEW a \in Stack, NEW b \in Stack, NEW c \in Stack, NEW d \in Stack, a \o b = c \o d,
           Len(b) = Len(d)
    PROVE  a = c /\ b = d
<1>1. PICK m \in Nat : m = Len(b)
    BY StackLen
<1>2. PICK n \in Nat : n = Len(a)
    BY StackLen
<1>3. PICK l \in Nat : l = Len(c)
    BY StackLen
<1>4. PICK g \in Stack : g = a \o b
    BY JoinIs
<1>5. Len(g) = n + m /\ Len(g) = l + m
    <2>1. Len(a \o b) = Len(a) + Len(b)
        BY JoinIs
    <2>2. Len(c \o d) = Len(c) + Len(d)
        BY JoinIs
    <2> QED
        BY <1>1, <1>2, <1>3, <1>4, <2>1, <2>2, Zenon
<1>6. n = l
    BY <1>5
<1>7. From(a \o b, Len(a) + 1) = b
    BY DropJoin
<1>8. From(c \o d, Len(c) + 1) = d
    BY DropJoin
<1>9. b = d
    BY <1>2, <1>3, <1>6, <1>7, <1>8, Zenon
<1>10. Len(a) \in 0 .. Len(a) /\ Len(c) \in 0 .. Len(c)
    BY <1>2, <1>3
<1>11. Take(a \o b, Len(a)) = Take(a, Len(a)) /\ Take(a, Len(a)) = a
    BY <1>10, TakeJoin, TakeAll
<1>12. Take(c \o d, Len(c)) = Take(c, Len(c)) /\ Take(c, Len(c)) = c
    BY <1>10, TakeJoin, TakeAll
<1>13. a = c
    BY <1>2, <1>3, <1>6, <1>11, <1>12, Zenon
<1> QED
    BY <1>9, <1>13

\* Two ends of the same stack: one of them is an end of the other.
LEMMA EndsNest ==
    ASSUME NEW d \in Stack, NEW e \in Stack, NEW g \in Stack, Ends(e, d), Ends(g, d), Len(e) <= Len(g)
    PROVE  Ends(e, g)
<1>1. PICK a \in Stack : d = a \o e
    BY DEF Ends
<1>2. PICK b \in Stack : d = b \o g
    BY DEF Ends
<1>3. PICK m \in Nat : m = Len(e)
    BY StackLen
<1>4. PICK j \in Nat : Len(g) = j + m
    <2>1. PICK l \in Nat : l = Len(g)
        BY StackLen
    <2>2. l - m \in Nat /\ l = (l - m) + m
        BY <1>3, <2>1
    <2> QED
        BY <2>1, <2>2
<1>5. PICK k \in Nat : k = Len(b)
    BY StackLen
<1>6. j \in 0 .. Len(g)
    BY <1>4
<1>7. PICK x \in Stack : x = Take(g, j)
    BY <1>6, TakeIs
<1>8. PICK y \in Stack : y = From(g, j + 1)
    BY <1>6, SplitStack
<1>9. g = x \o y
    BY <1>6, <1>7, <1>8, SplitStack
<1>10. Len(y) = m
    <2>1. Len(From(g, j + 1)) = Len(g) - j
        BY <1>6, SplitStack
    <2> QED
        BY <1>4, <1>8, <2>1
<1>11. y = e
    <2>1. b \o (x \o y) = (b \o x) \o y
        BY JoinJoin
    <2>2. PICK c \in Stack : c = b \o x
        BY JoinIs
    <2>3. c \o y = a \o e
        BY <1>1, <1>2, <1>9, <2>1, <2>2, Zenon
    <2>4. Len(y) = Len(e)
        BY <1>3, <1>10
    <2> QED
        BY <2>3, <2>4, JoinParts, Zenon
<1> QED
    BY <1>7, <1>9, <1>11, Zenon DEF Ends

\* Stack d meets the need r.
Meets(d, r) ==
    /\ r \in [any : BOOLEAN, elems : Stack]
    /\ IF r.any THEN Ends(r.elems, d) ELSE d = r.elems

LEMMA MeetsFits == ASSUME NEW d \in Stack, NEW r, Meets(d, r) PROVE Fits(d, r)
BY EndsIsSuffix DEF Meets, Fits

LEMMA FrameKind ==
    ASSUME NEW f \in Frame
    PROVE  f.kind \in {"Halt", "Jit", "AfterIn", "AfterOut", "PopDyn", "PromptBarrier", "unwind",
                       "wind", "unwind_to_prompt", "wind_delim", "unwind_to_exception_handler",
                       "reraise_exception"}
<1>1. CASE f \in PlainFrame
    BY <1>1, FrameKinds DEF PlainFrame
<1>2. CASE f \in OwnerFrame
    BY <1>2, FrameKinds DEF OwnerFrame
<1>3. CASE f \in JumpFrame
    BY <1>3, FrameKinds DEF JumpFrame
<1>4. CASE f \in PromptFrame
    BY <1>4, FrameKinds DEF PromptFrame
<1> QED
    BY <1>1, <1>2, <1>3, <1>4 DEF Frame

LEMMA NextNeedIs ==
    ASSUME NEW f, NEW r
    PROVE  /\ f.kind \in {"PopDyn", "PromptBarrier"} =>
                 NextNeed(f, r) = [r EXCEPT !.elems = Append(r.elems, f.elem)]
           /\ f.kind \in {"unwind", "unwind_to_prompt", "unwind_to_exception_handler",
                          "reraise_exception"} => NextNeed(f, r) = [any |-> TRUE, elems |-> <<>>]
           /\ f.kind = "wind" /\ f.winder = None => NextNeed(f, r) = [any |-> TRUE, elems |-> <<>>]
           /\ f.kind = "wind" /\ f.winder # None =>
                 NextNeed(f, r) =
                     [any |-> FALSE,
                      elems |-> Take(f.dest, FirstPos(f.dest, PositionsOf(f.dest, Wind(f.winder))) - 1)]
           /\ f.kind = "wind_delim" =>
                 NextNeed(f, r) =
                     [r EXCEPT !.elems =
                         Take(r.elems, Max({0, Len(r.elems) - (Len(Entered(<<>>, f.winder)) + Len(f.rest))}))]
           /\ f.kind \in {"Halt", "Jit", "AfterIn", "AfterOut"} => NextNeed(f, r) = r
BY DEF NextNeed

\* The winder that wind entered marks where the stack ends.
LEMMA WindNeed ==
    ASSUME NEW par, NEW dest \in Stack, NEW hi \in Stack, NEW w \in Winder, Obeys(par, dest),
           Starts(Entered(hi, w), dest)
    PROVE  Take(dest, FirstPos(dest, PositionsOf(dest, Wind(w))) - 1) = hi
<1>1. PICK x \in Elem : x = Wind(w)
    BY ElemsMade
<1>2. Entered(hi, w) = Append(hi, x)
    BY <1>1, DynamicStateAssumption DEF Entered
<1>3. PICK k \in Nat : k = Len(hi)
    BY StackLen
<1>4. PICK g \in Stack : g = Append(hi, x)
    BY PushIsJoin
<1>5. Len(g) = k + 1 /\ g[k + 1] = x
    BY <1>3, <1>4 DEF Stack
<1>6. Starts(g, dest)
    BY <1>2, <1>4, Zenon
<1>7. PICK m \in Nat : m = Len(dest)
    BY StackLen
<1>8. k + 1 <= m /\ g = Take(dest, k + 1)
    BY <1>5, <1>6, <1>7 DEF Starts
<1>9. k + 1 \in 0 .. Len(dest) /\ k + 1 \in 1 .. m /\ k \in 0 .. Len(g) /\ k \in 0 .. Len(hi)
    BY <1>3, <1>5, <1>7, <1>8
<1>10. dest[k + 1] = x
    <2>1. \A i \in 1 .. k + 1 : Take(dest, k + 1)[i] = dest[i]
        BY <1>9, TakeIs
    <2> QED
        BY <1>3, <1>5, <1>8, <2>1
<1>11. Take(dest, k) = Take(g, k)
    BY <1>6, <1>9, StartsKeeps
<1>12. Take(g, k) = hi
    <2>1. Append(hi, x) = hi \o <<x>> /\ <<x>> \in Stack
        BY PushIsJoin
    <2>2. Take(hi \o <<x>>, k) = Take(hi, k)
        BY <1>9, <2>1, TakeJoin
    <2>3. Take(hi, k) = hi
        BY <1>3, TakeAll
    <2> QED
        BY <1>4, <2>1, <2>2, <2>3, Zenon
<1> DEFINE S == PositionsOf(dest, x)
<1>13. S \subseteq 1 .. Len(dest) /\ (\A i \in S : dest[i] = x) /\ k + 1 \in S
    BY <1>7, <1>9, <1>10 DEF PositionsOf
<1> HIDE DEF S
<1>14. PICK f \in 1 .. m + 1 : f = FirstPos(dest, S) /\ (f <= m => f \in S) /\ \A i \in S : i >= f
    BY <1>7, <1>13, FirstPosIs DEF Stack
<1>15. f \in S /\ f \in 1 .. Len(dest)
    BY <1>7, <1>9, <1>13, <1>14
<1>16. f = k + 1
    <2>1. dest[f] = dest[k + 1] /\ k + 1 \in 1 .. Len(dest)
        BY <1>7, <1>9, <1>13, <1>15
    <2> QED
        BY <1>15, <2>1, ObeysDistinct
<1>17. f - 1 = k
    BY <1>16
<1>18. Take(dest, f - 1) = hi
    BY <1>11, <1>12, <1>17
<1> QED
    BY <1>1, <1>14, <1>18, Zenon DEF S

LEMMA MaxCut ==
    ASSUME NEW a \in Nat, NEW n \in Nat
    PROVE  /\ n <= a => Max({0, a - n}) = a - n
           /\ n > a => Max({0, a - n}) = 0
<1>1. ASSUME n <= a PROVE Max({0, a - n}) = a - n
    <2>1. PICK j \in Nat : j = a - n
        BY <1>1
    <2>2. {0, j} \subseteq 0 .. j /\ {0, j} # {}
        OBVIOUS
    <2>3. Max({0, j}) \in {0, j} /\ \A y \in {0, j} : y <= Max({0, j})
        BY <2>2, MaxOf
    <2>4. Max({0, j}) = j
        BY <2>3
    <2> QED
        BY <2>1, <2>4
<1>2. ASSUME n > a PROVE Max({0, a - n}) = 0
    <2>1. a - n < 0 /\ a - n \in Int
        BY <1>2
    <2>2. \A x \in {0, a - n} : (\A y \in {0, a - n} : x >= y) <=> x = 0
        BY <2>1
    <2>3. 0 \in {0, a - n}
        OBVIOUS
    <2> QED
        BY <2>2, <2>3 DEF Max
<1> QED
    BY <1>1, <1>2

\* What wind_delim pushes is not needed yet.
LEMMA DelimNeed ==
    ASSUME NEW lo \in Stack, NEW hi \in Stack, NEW more \in Stack, lo = hi \o more,
           NEW r, Meets(lo, r), NEW n \in Nat, n = Len(more)
    PROVE  Meets(hi, [r EXCEPT !.elems = Take(r.elems, Max({0, Len(r.elems) - n}))])
<1>1. PICK e \in Stack : e = r.elems
    BY DEF Meets
<1>2. PICK m \in Nat : m = Len(e)
    BY StackLen
<1>3. PICK j \in 0 .. m : j = Max({0, m - n}) /\ (n <= m => m = j + n) /\ (n > m => j = 0)
    <2> DEFINE x == Max({0, m - n})
    <2>1. (n <= m => x = m - n) /\ (n > m => x = 0)
        BY MaxCut
    <2> HIDE DEF x
    <2>2. x \in 0 .. m /\ (n <= m => m = x + n) /\ (n > m => x = 0)
        BY <2>1
    <2> QED
        BY <2>2 DEF x
<1>4. PICK g \in Stack : g = Take(e, j) /\ Len(g) = j
    <2>1. j \in 0 .. Len(e)
        BY <1>2
    <2> QED
        BY <2>1, TakeIs
<1> DEFINE q == [r EXCEPT !.elems = Take(r.elems, Max({0, Len(r.elems) - n}))]
<1>5. q \in [any : BOOLEAN, elems : Stack] /\ q.any = r.any /\ q.elems = g
    <2>1. q = [r EXCEPT !.elems = g]
        BY <1>1, <1>2, <1>3, <1>4
    <2>2. r \in [any : BOOLEAN, elems : Stack]
        BY DEF Meets
    <2> HIDE DEF q
    <2> QED
        BY <2>1, <2>2
<1> SUFFICES Meets(hi, q)
    OBVIOUS
<1> HIDE DEF q
<1>6. CASE r.any
    <2>1. PICK c \in Stack : lo = c \o e
        BY <1>1, <1>6 DEF Meets, Ends
    <2>2. CASE n > m
        <3>1. g = <<>>
            BY <1>3, <1>4, <2>2, TakeAll
        <3>2. Ends(q.elems, hi)
            BY <1>5, <3>1, EndsAll, Zenon
        <3> QED
            BY <1>5, <1>6, <3>2, Zenon DEF Meets
    <2>3. CASE n <= m
        <3>1. j \in 0 .. Len(e) /\ m = j + n /\ Len(e) - j = n
            BY <1>2, <1>3, <2>3
        <3>2. PICK h \in Stack : h = From(e, j + 1) /\ Len(h) = n
            BY <3>1, SplitStack
        <3>3. e = g \o h
            BY <1>4, <3>1, <3>2, SplitStack
        <3>4. c \o (g \o h) = (c \o g) \o h
            BY JoinJoin
        <3>5. PICK a \in Stack : a = c \o g
            BY JoinIs
        <3>6. hi \o more = a \o h
            BY <2>1, <3>3, <3>4, <3>5, Zenon
        <3>7. Len(more) = Len(h)
            BY <3>2
        <3>8. hi = a
            BY <3>6, <3>7, JoinParts, Zenon
        <3>9. Ends(q.elems, hi)
            BY <1>5, <3>5, <3>8, Zenon DEF Ends
        <3> QED
            BY <1>5, <1>6, <3>9, Zenon DEF Meets
    <2> QED
        BY <2>2, <2>3
<1>7. CASE ~r.any
    <2>1. lo = e
        BY <1>1, <1>7 DEF Meets
    <2>2. PICK k \in Nat : k = Len(hi)
        BY StackLen
    <2>3. m = k + n
        <3>1. Len(hi \o more) = Len(hi) + Len(more)
            BY JoinIs
        <3> QED
            BY <1>2, <2>1, <2>2, <3>1
    <2>4. j = k /\ k \in 0 .. Len(hi)
        BY <1>3, <2>2, <2>3
    <2>5. Take(hi \o more, k) = Take(hi, k)
        BY <2>4, TakeJoin
    <2>6. Take(hi, k) = hi
        BY <2>2, TakeAll
    <2>7. g = hi
        BY <1>4, <2>1, <2>4, <2>5, <2>6, Zenon
    <2> QED
        BY <1>5, <1>7, <2>7, Zenon DEF Meets
<1> QED
    BY <1>6, <1>7

\* What the frames below f need, and f with them.
LEMMA NeedMet ==
    ASSUME NEW par, NEW f \in Frame, NEW lo \in Stack, NEW hi \in Stack, Link(par, f, lo, hi),
           NEW r, Meets(lo, r)
    PROVE  Meets(hi, NextNeed(f, r))
<1>1. r \in [any : BOOLEAN, elems : Stack] /\ r.elems \in Stack
    BY DEF Meets
<1>2. CASE f.kind \in {"PopDyn", "PromptBarrier"}
    <2>1. PICK e \in Elem : e = f.elem
        BY <1>2, FrameParts
    <2>2. PICK g \in Stack : g = Append(r.elems, e)
        BY <1>1, PushIsJoin
    <2>3. hi = Append(lo, e)
        BY <1>2, <2>1, LinkCases
    <2>4. PICK q : q = [r EXCEPT !.elems = g]
        OBVIOUS
    <2>5. q \in [any : BOOLEAN, elems : Stack] /\ q.any = r.any /\ q.elems = g
        BY <1>1, <2>4
    <2>6. IF q.any THEN Ends(q.elems, hi) ELSE hi = q.elems
        <3>1. CASE r.any
            <4>1. Ends(r.elems, lo)
                BY <3>1 DEF Meets
            <4>2. Ends(g, hi)
                <5>1. Ends(Append(r.elems, e), Append(lo, e))
                    BY <1>1, <4>1, EndsPush
                <5> QED
                    BY <2>2, <2>3, <5>1, Zenon
            <4> QED
                BY <2>5, <3>1, <4>2, Zenon
        <3>2. CASE ~r.any
            <4>1. lo = r.elems
                BY <3>2 DEF Meets
            <4> QED
                BY <2>2, <2>3, <2>5, <3>2, <4>1, Zenon
        <3> QED
            BY <3>1, <3>2
    <2>7. NextNeed(f, r) = q
        <3>1. NextNeed(f, r) = [r EXCEPT !.elems = Append(r.elems, f.elem)]
            BY <1>2, NextNeedIs, Zenon
        <3> QED
            BY <2>1, <2>2, <2>4, <3>1, Zenon
    <2> QED
        BY <2>5, <2>6, <2>7, Zenon DEF Meets
<1>3. ASSUME NextNeed(f, r) = [any |-> TRUE, elems |-> <<>>] PROVE Meets(hi, NextNeed(f, r))
    <2>1. PICK q : q = [any |-> TRUE, elems |-> <<>>]
        OBVIOUS
    <2>2. q \in [any : BOOLEAN, elems : Stack] /\ q.any = TRUE /\ q.elems = <<>>
        BY <2>1, EndsAll
    <2>3. Ends(q.elems, hi)
        BY <2>2, EndsAll, Zenon
    <2> QED
        BY <1>3, <2>1, <2>2, <2>3, Zenon DEF Meets
<1>4. CASE f.kind \in {"unwind", "unwind_to_prompt", "unwind_to_exception_handler",
                       "reraise_exception"}
    <2>1. NextNeed(f, r) = [any |-> TRUE, elems |-> <<>>]
        BY <1>4, NextNeedIs, Zenon
    <2> QED
        BY <1>3, <2>1
<1>5. CASE f.kind = "wind" /\ f.winder = None
    <2>1. NextNeed(f, r) = [any |-> TRUE, elems |-> <<>>]
        BY <1>5, NextNeedIs, Zenon
    <2> QED
        BY <1>3, <2>1
<1>6. CASE f.kind = "wind" /\ f.winder # None
    <2>1. f.dest \in Stack /\ f.winder \in Winder
        BY <1>6, FrameParts
    <2>2. lo = f.dest /\ Obeys(par, lo) /\ Starts(Entered(hi, f.winder), lo)
        BY <1>6, LinkCases
    <2>3. Take(lo, FirstPos(lo, PositionsOf(lo, Wind(f.winder))) - 1) = hi
        BY <2>1, <2>2, WindNeed
    <2>4. NextNeed(f, r) =
              [any |-> FALSE,
               elems |-> Take(f.dest, FirstPos(f.dest, PositionsOf(f.dest, Wind(f.winder))) - 1)]
        BY <1>6, NextNeedIs, Zenon
    <2>5. NextNeed(f, r) = [any |-> FALSE, elems |-> hi]
        BY <2>2, <2>3, <2>4, Zenon
    <2> QED
        BY <2>5 DEF Meets
<1>7. CASE f.kind = "wind_delim"
    <2>1. f.rest \in Stack /\ f.winder \in Winder \union {None}
        BY <1>7, FrameParts
    <2>2. PICK x \in Stack : x = Entered(<<>>, f.winder)
        BY <2>1, EndsAll, EnteredJoin
    <2>3. PICK more \in Stack : more = x \o f.rest
        BY <2>1, JoinIs
    <2>4. lo = hi \o more
        <3>1. lo = hi \o More(f)
            BY <1>7, LinkCases
        <3> QED
            BY <2>2, <2>3, <3>1, Zenon DEF More
    <2>5. Len(more) = Len(x) + Len(f.rest) /\ Len(more) \in Nat
        <3>1. Len(x \o f.rest) = Len(x) + Len(f.rest)
            BY <2>1, JoinIs
        <3> QED
            BY <2>3, <3>1, StackLen
    <2>6. PICK n \in Nat : n = Len(x) + Len(f.rest) /\ n = Len(more)
        BY <2>5
    <2>7. Meets(hi, [r EXCEPT !.elems = Take(r.elems, Max({0, Len(r.elems) - n}))])
        BY <2>4, <2>6, DelimNeed
    <2>8. NextNeed(f, r) =
              [r EXCEPT !.elems =
                  Take(r.elems, Max({0, Len(r.elems) - (Len(Entered(<<>>, f.winder)) + Len(f.rest))}))]
        BY <1>7, NextNeedIs, Zenon
    <2> QED
        BY <2>2, <2>6, <2>7, <2>8, Zenon
<1>8. CASE f.kind \in {"Halt", "Jit", "AfterIn", "AfterOut"}
    <2>1. hi = lo
        BY <1>8 DEF Link
    <2>2. NextNeed(f, r) = r
        BY <1>8, NextNeedIs, Zenon
    <2> QED
        BY <2>1, <2>2, Zenon
<1> QED
    BY <1>2, <1>4, <1>5, <1>6, <1>7, <1>8, FrameKind

\* need is what Needs computes for the first n frames.
Needing(need, fs, n) ==
    need = [i \in 0 .. n |-> IF i = 0 THEN [any |-> FALSE, elems |-> <<>>]
                             ELSE NextNeed(fs[i], need[i - 1])]

LEMMA NeedingExists ==
    ASSUME NEW fs, NEW n \in Nat
    PROVE  \E need : Needing(need, fs, n)
<1> DEFINE Bad == {m \in Nat : ~\E need : Needing(need, fs, m)}
<1> SUFFICES ASSUME Bad # {} PROVE FALSE
    OBVIOUS
<1>1. PICK m \in Bad : \A y \in Bad : m <= y
    <2>1. Bad \subseteq Nat
        OBVIOUS
    <2> HIDE DEF Bad
    <2> QED
        BY <2>1, MinOf
<1>2. m # 0
    <2> DEFINE need == [i \in 0 .. 0 |-> [any |-> FALSE, elems |-> <<>>]]
    <2>1. Needing(need, fs, 0)
        BY DEF Needing
    <2> QED
        BY <2>1
<1>3. m \in Nat /\ m - 1 \in Nat /\ m - 1 \notin Bad
    BY <1>1, <1>2
<1>4. PICK old : Needing(old, fs, m - 1)
    BY <1>3
<1> DEFINE new == [i \in 0 .. m |-> IF i = 0 THEN [any |-> FALSE, elems |-> <<>>]
                                    ELSE NextNeed(fs[i], old[i - 1])]
<1>5. ASSUME NEW i \in 0 .. m, i # 0 PROVE new[i - 1] = old[i - 1]
    <2>1. i - 1 \in 0 .. m - 1 /\ i - 1 \in 0 .. m
        BY <1>3, <1>5
    <2>2. old[i - 1] = IF i - 1 = 0 THEN [any |-> FALSE, elems |-> <<>>]
                       ELSE NextNeed(fs[i - 1], old[i - 1 - 1])
        BY <1>4, <2>1, Zenon DEF Needing
    <2>3. new[i - 1] = IF i - 1 = 0 THEN [any |-> FALSE, elems |-> <<>>]
                       ELSE NextNeed(fs[i - 1], old[i - 1 - 1])
        BY <2>1, Zenon
    <2> QED
        BY <2>2, <2>3, Zenon
<1>6. Needing(new, fs, m)
    BY <1>5, Zenon DEF Needing
<1> QED
    BY <1>1, <1>6

LEMMA NeedsIs ==
    ASSUME NEW fs \in Seq(Frame), NEW n \in Nat, n = Len(fs)
    PROVE  /\ Needs(fs)[0] = [any |-> FALSE, elems |-> <<>>]
           /\ \A i \in 1 .. n : Needs(fs)[i] = NextNeed(fs[i], Needs(fs)[i - 1])
<1>1. \E need : Needing(need, fs, n)
    BY NeedingExists
<1>2. Needs(fs) = CHOOSE need : Needing(need, fs, n)
    BY Zenon DEF Needs, Needing
<1>3. PICK need : need = Needs(fs)
    OBVIOUS
<1>4. Needing(need, fs, n)
    BY <1>1, <1>2, <1>3, Zenon
<1>5. \A i \in 0 .. n : need[i] = IF i = 0 THEN [any |-> FALSE, elems |-> <<>>]
                                  ELSE NextNeed(fs[i], need[i - 1])
    BY <1>4, Zenon DEF Needing
<1>6. 0 \in 0 .. n /\ \A i \in 1 .. n : i \in 0 .. n /\ i # 0
    OBVIOUS
<1> QED
    BY <1>3, <1>5, <1>6, Zenon

\* The stacks of a path meet the needs of its frames.
LEMMA PathMeets ==
    ASSUME NEW par, NEW fs \in Seq(Frame), NEW n \in Nat, n = Len(fs),
           NEW p \in [0 .. n -> Stack], Path(par, fs, p)
    PROVE  \A i \in 0 .. n : Meets(p[i], Needs(fs)[i])
<1> DEFINE Bad == {i \in 0 .. n : ~Meets(p[i], Needs(fs)[i])}
<1> SUFFICES ASSUME Bad # {} PROVE FALSE
    OBVIOUS
<1>1. PICK i \in Bad : \A y \in Bad : i <= y
    <2>1. Bad \subseteq Nat
        OBVIOUS
    <2> HIDE DEF Bad
    <2> QED
        BY <2>1, MinOf
<1>2. i \in 0 .. n /\ ~Meets(p[i], Needs(fs)[i])
    OBVIOUS
<1>3. i # 0
    <2>1. p[0] = <<>> /\ Needs(fs)[0] = [any |-> FALSE, elems |-> <<>>]
        BY NeedsIs DEF Path
    <2>2. Meets(<<>>, [any |-> FALSE, elems |-> <<>>])
        BY EndsAll DEF Meets
    <2> QED
        BY <1>2, <2>1, <2>2, Zenon
<1>4. i \in 1 .. n /\ i - 1 \in 0 .. n /\ i - 1 < i
    BY <1>2, <1>3
<1>5. Meets(p[i - 1], Needs(fs)[i - 1])
    <2>1. i - 1 \notin Bad
        <3>1. i - 1 \in Bad => i <= i - 1
            BY <1>1
        <3> HIDE DEF Bad
        <3> QED
            BY <1>2, <1>4, <3>1
    <2> QED
        BY <1>4, <2>1
<1>6. Link(par, fs[i], p[i - 1], p[i]) /\ fs[i] \in Frame /\ p[i - 1] \in Stack /\ p[i] \in Stack
    BY <1>2, <1>4 DEF Path
<1>7. Meets(p[i], NextNeed(fs[i], Needs(fs)[i - 1]))
    BY <1>5, <1>6, NeedMet
<1>8. Needs(fs)[i] = NextNeed(fs[i], Needs(fs)[i - 1])
    BY <1>4, NeedsIs
<1> QED
    BY <1>2, <1>7, <1>8, Zenon

\* A resumed slice and the need below it: one is an end of the other.
LEMMA DelimFits ==
    ASSUME NEW lo \in Stack, NEW hi \in Stack, NEW more \in Stack, lo = hi \o more, NEW r, Meets(lo, r)
    PROVE  \/ IsSuffix(more, r.elems)
           \/ r.any /\ IsSuffix(r.elems, more)
<1>1. PICK e \in Stack : e = r.elems
    BY DEF Meets
<1>2. Ends(more, lo)
    BY DEF Ends
<1>3. CASE ~r.any
    <2>1. lo = e
        BY <1>1, <1>3 DEF Meets
    <2> QED
        BY <1>1, <1>2, <2>1, EndsIsSuffix
<1>4. CASE r.any
    <2>1. Ends(e, lo)
        BY <1>1, <1>4 DEF Meets
    <2>2. Len(e) <= Len(more) \/ Len(more) <= Len(e)
        BY StackLen
    <2>3. Ends(e, more) \/ Ends(more, e)
        BY <1>2, <2>1, <2>2, EndsNest
    <2> QED
        BY <1>1, <1>4, <2>3, EndsIsSuffix
<1> QED
    BY <1>3, <1>4

LEMMA ArrangedFits == ASSUME Inv, Arranged PROVE ContinuationFits
<1>1. PICK par \in [Elem -> Stack] : Coherent(par)
    BY DEF Arranged
<1>2. frames \in Seq(Frame) /\ dyn \in Stack
    BY DEF Inv, Typed
<1>3. PICK n \in Nat : n = Len(frames)
    BY <1>2
<1>4. PICK p \in [0 .. n -> Stack] : Path(par, frames, p) /\ p[n] = dyn
    BY <1>1, <1>3 DEF Coherent, Sound, Chain
<1>5. PICK need : need = Needs(frames)
    OBVIOUS
<1>6. \A i \in 0 .. n : Meets(p[i], need[i])
    BY <1>2, <1>3, <1>4, <1>5, PathMeets
<1>7. Fits(dyn, need[n])
    <2>1. n \in 0 .. n
        BY <1>3
    <2> QED
        BY <1>2, <1>4, <1>6, <2>1, MeetsFits
<1>8. ASSUME NEW i \in 2 .. n
      PROVE  /\ frames[i].kind \in {"unwind", "wind"} => Fits(frames[i].dest, need[i - 1])
             /\ frames[i].kind = "wind_delim" =>
                   LET more == Entered(<<>>, frames[i].winder) \o frames[i].rest IN
                   \/ IsSuffix(more, need[i - 1].elems)
                   \/ need[i - 1].any /\ IsSuffix(need[i - 1].elems, more)
    <2>1. i - 1 \in 0 .. n /\ i \in 0 .. n /\ i \in 1 .. n
        BY <1>3
    <2>2. PICK f \in Frame : f = frames[i]
        BY <1>2, <1>3, <2>1
    <2>3. PICK lo \in Stack : lo = p[i - 1]
        BY <2>1
    <2>4. PICK hi \in Stack : hi = p[i]
        BY <2>1
    <2>5. Link(par, f, lo, hi) /\ Meets(lo, need[i - 1])
        BY <1>3, <1>4, <1>6, <2>1, <2>2, <2>3, <2>4 DEF Path
    <2>6. ASSUME f.kind \in {"unwind", "wind"} PROVE Fits(f.dest, need[i - 1])
        <3>1. lo = f.dest
            BY <2>5, <2>6, LinkCases
        <3> QED
            BY <2>5, <3>1, MeetsFits
    <2>7. ASSUME f.kind = "wind_delim"
          PROVE  \/ IsSuffix(Entered(<<>>, f.winder) \o f.rest, need[i - 1].elems)
                 \/ need[i - 1].any /\ IsSuffix(need[i - 1].elems, Entered(<<>>, f.winder) \o f.rest)
        <3>1. f.rest \in Stack /\ f.winder \in Winder \union {None}
            BY <2>7, FrameParts
        <3>2. PICK x \in Stack : x = Entered(<<>>, f.winder)
            BY <3>1, EndsAll, EnteredJoin
        <3>3. PICK more \in Stack : more = x \o f.rest
            BY <3>1, JoinIs
        <3>4. lo = hi \o more
            <4>1. lo = hi \o More(f)
                BY <2>5, <2>7, LinkCases
            <4> QED
                BY <3>2, <3>3, <4>1, Zenon DEF More
        <3>5. \/ IsSuffix(more, need[i - 1].elems)
              \/ need[i - 1].any /\ IsSuffix(need[i - 1].elems, more)
            BY <2>5, <3>4, DelimFits
        <3> QED
            BY <3>2, <3>3, <3>5, Zenon
    <2> QED
        BY <2>2, <2>6, <2>7, Zenon
<1> QED
    BY <1>3, <1>5, <1>7, <1>8, Zenon DEF ContinuationFits

\* The running continuation fits the dynamic stack: each frame finds the element
\* it pops on top, and each jump rebuilds the stack that the frames below it need.
THEOREM ContinuationFitsHolds == ASSUME ~Shared, ~ThunkAborts PROVE Spec => []ContinuationFits
<1>1. Inv /\ Arranged => ContinuationFits
    BY ArrangedFits
<1> QED
    BY <1>1, ArrangedHolds, PTL
=============================================================================
