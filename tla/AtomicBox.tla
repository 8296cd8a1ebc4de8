----------------------------- MODULE AtomicBox ------------------------------
(***************************************************************************)
(* Atomic boxes (atomic.rs): a shared pointer to an allocated value, exchanged   *)
(* atomically. compare-and-swap is the read-copy-update of ArcSwap: it loads the *)
(* pointer, computes its successor from the value, and exchanges it if the      *)
(* pointer is still the one it loaded; otherwise it goes on with the pointer    *)
(* it found. Allocations are counted references: the address of one that a      *)
(* thread has loaded is not used again until the thread is done.               *)
(***************************************************************************)
EXTENDS Naturals

CONSTANTS BoxThreads, BoxValues, Addresses, None

VARIABLES
    inner,     \* the allocation in the box, as [at, val]
    swapping,  \* swapping[t]: the compare-and-swap under way in t, or None
    answer     \* what the last step answered, or None

\* What operations answer.
Answers ==
    [op : {"ref"}, result : BoxValues] \cup [op : {"set"}, new : BoxValues]
    \cup [op : {"swap"}, new : BoxValues, result : BoxValues]
    \cup [op : {"cas"}, expected : BoxValues, new : BoxValues, result : BoxValues]

ASSUME BoxAssumption == None \notin Answers

boxVars == <<inner, swapping, answer>>

Busy == {t \in BoxThreads : swapping[t] # None}

InUse == {inner.at} \cup {swapping[t].current.at : t \in Busy} \cup {swapping[t].desired.at : t \in Busy}

\* A new allocation of v.
New(v) == {[at |-> a, val |-> v] : a \in Addresses \ InUse}

BoxInit ==
    /\ inner \in [at : Addresses, val : BoxValues]
    /\ swapping = [t \in BoxThreads |-> None]
    /\ answer = None

Ref(t) ==
    /\ t \notin Busy
    /\ answer' = [op |-> "ref", result |-> inner.val]
    /\ UNCHANGED <<inner, swapping>>

Set(t, v) ==
    /\ t \notin Busy
    /\ inner' \in New(v)
    /\ answer' = [op |-> "set", new |-> v]
    /\ UNCHANGED swapping

Swap(t, v) ==
    /\ t \notin Busy
    /\ inner' \in New(v)
    /\ answer' = [op |-> "swap", new |-> v, result |-> inner.val]
    /\ UNCHANGED swapping

BeginCompareAndSwap(t, v, w) ==
    /\ t \notin Busy
    /\ \E d \in New(w) :
          swapping' = [swapping EXCEPT ![t] = [expected |-> v, desired |-> d, current |-> inner]]
    /\ answer' = None
    /\ UNCHANGED inner

\* What the closure of the read-copy-update makes of the allocation it was given.
Successor(s) == IF s.current.val = s.expected THEN s.desired ELSE s.current

\* The exchange: the box still holds the allocation the closure saw, or the closure runs again.
\* The allocation itself is compared, not the value in it.
Unmoved(s) == inner.at = s.current.at

\* Mutant of EndCompareAndSwap: the exchange does not look at what the box holds.
EndCompareAndSwap_Blind(t) ==
    /\ t \in Busy
    /\ inner' = Successor(swapping[t])
    /\ swapping' = [swapping EXCEPT ![t] = None]
    /\ answer' = [op |-> "cas", expected |-> swapping[t].expected, new |-> swapping[t].desired.val,
                  result |-> swapping[t].current.val]

EndCompareAndSwap(t) ==
    /\ t \in Busy /\ Unmoved(swapping[t])
    /\ inner' = Successor(swapping[t])
    /\ swapping' = [swapping EXCEPT ![t] = None]
    /\ answer' = [op |-> "cas", expected |-> swapping[t].expected, new |-> swapping[t].desired.val,
                  result |-> swapping[t].current.val]

Retry(t) ==
    /\ t \in Busy /\ ~Unmoved(swapping[t])
    /\ swapping' = [swapping EXCEPT ![t].current = inner]
    /\ answer' = None
    /\ UNCHANGED inner

BoxNext == \E t \in BoxThreads :
    \/ Ref(t) \/ EndCompareAndSwap(t) \/ Retry(t)
    \/ \E v \in BoxValues : Set(t, v) \/ Swap(t, v) \/ \E w \in BoxValues : BeginCompareAndSwap(t, v, w)

BoxSpec == BoxInit /\ [][BoxNext]_boxVars

-----------------------------------------------------------------------------
\* Every operation reads and writes the box in one step, the one in which it answers: a swap and a
\* compare-and-swap answer the value they replaced, whatever others have stored, and stored again, since the
\* closure ran, and the retries change nothing (atomic_box_compare_and_swap).
AnswersAreAtomic ==
    [][LET old == inner.val
           new == inner'.val
       IN IF answer' = None THEN new = old
          ELSE CASE answer'.op = "ref"  -> answer'.result = old /\ new = old
                 [] answer'.op = "set"  -> new = answer'.new
                 [] answer'.op = "swap" -> new = answer'.new /\ answer'.result = old
                 [] answer'.op = "cas"  -> /\ answer'.result = old
                                           /\ new = IF old = answer'.expected THEN answer'.new ELSE old]_boxVars
=============================================================================
