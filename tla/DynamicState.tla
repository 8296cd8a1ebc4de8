---------------------------- MODULE DynamicState ----------------------------
(***************************************************************************)
(* The evaluation state of a scheme-rs program: the continuation stack and   *)
(* the dynamic stack of a ContBarrier, and every procedure that moves them   *)
(* (src/src/proc.rs and src/src/exceptions.rs): dynamic-wind, call/cc and    *)
(* its escape procedures, prompts and delimited continuations, exception     *)
(* handlers, raise, parameterised ports, and calls from Rust into Scheme.    *)
(*                                                                         *)
(* Scheme code is nondeterministic: while pc = "user" it may call any of     *)
(* these procedures or return.  What it returns to is the top frame, whose   *)
(* Rust function is one action here.                                         *)
(***************************************************************************)
EXTENDS Integers, Sequences, FiniteSets, SequencesExt, FiniteSetsExt

CONSTANTS
    Winder,      \* pairs of in and out thunks passed to dynamic-wind
    Handler,     \* procedures passed to with-exception-handler
    Port,        \* ports opened by with-input-from-file, with-output-to-file
    Tag,         \* prompt tags
    Cont,        \* places where a program keeps an escape procedure
    Delim,       \* places where it keeps a delimited continuation
    None,
    MaxFrames,   \* bound: frames of a continuation stack
    MaxNest,     \* bound: calls from Rust into Scheme in progress
    MaxPrompts,  \* bound: prompts that exist at a time
    Shared,      \* may an element be installed while it is installed already?
    ThunkAborts  \* may an in or out thunk that a jump or an abort runs abort in turn?

ASSUME DynamicStateAssumption ==
    /\ MaxFrames \in Nat \ {0} /\ MaxNest \in Nat /\ MaxPrompts \in Nat
    /\ Shared \in BOOLEAN /\ ThunkAborts \in BOOLEAN
    /\ IsFiniteSet(Cont) /\ IsFiniteSet(Delim)
    /\ None \notin Winder

VARIABLES
    id,          \* ContBarrier.id of the running barrier
    frames,      \* its cont_stack.frames, bottom first
    dyn,         \* its state.dyn_stack, bottom first
    pc,          \* "user": Scheme code runs; "return": call_cont is next
    outer,       \* the barriers whose Rust code waits for this one
    conts,       \* the SavedDynamicState of each escape procedure
    delims       \* the captured frames and elements of each delimited continuation

vars == <<id, frames, dyn, pc, outer, conts, delims>>

----------------------------------------------------------------------------
(* Elements of the dynamic stack and frames of the continuation stack.      *)

Wind(w) == [kind |-> "Winder", name |-> w]
Catch(h) == [kind |-> "ExceptionHandler", name |-> h]
Redirect(p) == [kind |-> "CurrentPort", name |-> p]
Prompt(tag, n) == [kind |-> "Prompt", name |-> tag, barrier |-> n]

\* Frames.  PopDyn stands for the closures that pop the dynamic stack and
\* names the element they were pushed with.
Halt(n) == [kind |-> "Halt", barrier |-> n]
Jit == [kind |-> "Jit"]
AfterIn(w) == [kind |-> "AfterIn", name |-> w]
AfterOut == [kind |-> "AfterOut"]
PopDyn(e) == [kind |-> "PopDyn", elem |-> e]
Barrier(e) == [kind |-> "PromptBarrier", elem |-> e]
Unwind(dest) == [kind |-> "unwind", dest |-> dest]
Rewind(dest, w) == [kind |-> "wind", dest |-> dest, winder |-> w]
UnwindPrompt(tag, saved) == [kind |-> "unwind_to_prompt", name |-> tag, saved |-> saved]
RewindDelim(rest, w) == [kind |-> "wind_delim", rest |-> rest, winder |-> w]
UnwindHandler == [kind |-> "unwind_to_exception_handler"]
Reraise == [kind |-> "reraise_exception"]

Kinds(s) == {s[i].kind : i \in DOMAIN s}

\* The last of some positions of a sequence; 0 if there is none.
LastPos(S) == Max({0} \union S)

\* The first of some positions of s; Len(s) + 1 if there is none.
FirstPos(s, S) == Min({Len(s) + 1} \union S)

Take(s, n) == SubSeq(s, 1, n)
From(s, n) == SubSeq(s, n, Len(s))

IsWinder(e) == e.kind = "Winder"

\* The positions of the winders of d above position n, and of g in s.
WindersAbove(d, n) == {i \in n + 1 .. Len(d) : IsWinder(d[i])}
PositionsOf(s, g) == {i \in 1 .. Len(s) : s[i] = g}

\* The dynamic stack once the in thunk of w has returned, if one was running.
Entered(d, w) == IF w = None THEN d ELSE Append(d, Wind(w))

----------------------------------------------------------------------------
(* What is in use, for fresh ids.                                           *)

Saved == {conts[k] : k \in Cont} \ {None}
Captured == {delims[k] : k \in Delim} \ {None}

\* The elements that a frame will pop, or may push in the course of a jump.
Mentions(f) ==
    CASE f.kind \in {"PopDyn", "PromptBarrier"} -> {f.elem}
      [] f.kind = "AfterIn" -> {Wind(f.name)}
      [] f.kind \in {"unwind", "wind"} -> ToSet(f.dest)
      [] f.kind = "unwind_to_prompt" -> ToSet(f.saved)
      [] f.kind = "wind_delim" -> ToSet(Entered(f.rest, f.winder))
      [] OTHER -> {}

Owned(fs) == UNION {Mentions(f) : f \in ToSet(fs)}

\* The elements of running and saved dynamic states, and all elements.
Contexts == {[frames |-> frames, dyn |-> dyn]} \union ToSet(outer) \union Saved
Installed == UNION {ToSet(b.dyn) \union Owned(b.frames) : b \in Contexts}
Elements == Installed \union UNION {ToSet(b.dyn) \union Owned(b.frames) : b \in Captured}

BarrierIds == {id} \union {b.id : b \in ToSet(outer) \union Saved}
PromptIds == {e.barrier : e \in {f \in Elements : f.kind = "Prompt"}}

\* NEXT_ID and BARRIER_ID only ever grow; ids that nothing mentions any more
\* are taken again here, which no comparison can tell.
Fresh(used) == Min((0 .. Cardinality(used)) \ used)

\* A program may install e: always, or only while nothing installs it or will.
Installable(e) == Shared \/ e \notin Elements

----------------------------------------------------------------------------
TypeOK ==
    LET Elem == {Wind(w) : w \in Winder} \union {Catch(h) : h \in Handler}
                \union {Redirect(p) : p \in Port}
                \union {Prompt(t, n) : t \in Tag, n \in 0 .. MaxPrompts} IN
    /\ id \in Nat /\ pc \in {"user", "return"}
    /\ \A b \in Contexts \union Captured :
          /\ b.dyn \in Seq(Elem)
          /\ Len(b.frames) <= MaxFrames + 1
          /\ Kinds(b.frames) \subseteq
                {"Halt", "Jit", "AfterIn", "AfterOut", "PopDyn", "PromptBarrier", "unwind",
                 "wind", "unwind_to_prompt", "wind_delim", "unwind_to_exception_handler",
                 "reraise_exception"}
    /\ Len(outer) <= MaxNest

Init ==
    /\ id = 0 /\ frames = <<Halt(0)>> /\ dyn = <<>> /\ pc = "user"
    /\ outer = <<>>
    /\ conts = [k \in Cont |-> None]
    /\ delims = [k \in Delim |-> None]

----------------------------------------------------------------------------
(* What Scheme code may call.                                               *)

Top == Last(frames)
Below == Front(frames)

\* Scheme code calls a procedure that pushes n frames.
Calling(n) == pc = "user" /\ Len(frames) + n <= MaxFrames

\* A call that is not in tail position.
CallNonTail ==
    /\ Calling(2) /\ Top # Jit
    /\ frames' = Append(frames, Jit)
    /\ UNCHANGED <<id, dyn, pc, outer, conts, delims>>

\* dynamic-wind: run the in thunk.
DynamicWind(w) ==
    /\ Calling(1) /\ Installable(Wind(w))
    /\ frames' = Append(frames, AfterIn(w))
    /\ UNCHANGED <<id, dyn, pc, outer, conts, delims>>

\* with-exception-handler, with-input-from-file and with-output-to-file: push
\* the element, run the thunk above a frame that pops it.
WithElement(e) ==
    /\ Calling(1) /\ Installable(e)
    /\ dyn' = Append(dyn, e)
    /\ frames' = Append(frames, PopDyn(e))
    /\ UNCHANGED <<id, pc, outer, conts, delims>>

\* call-with-prompt
CallWithPrompt(tag) ==
    LET e == Prompt(tag, Fresh(PromptIds)) IN
    /\ Calling(1) /\ Cardinality(PromptIds) < MaxPrompts
    /\ dyn' = Append(dyn, e)
    /\ frames' = Append(frames, Barrier(e))
    /\ UNCHANGED <<id, pc, outer, conts, delims>>

\* call-with-current-continuation: barrier.save(), kept by the program in k.
CallCC(k) ==
    /\ Calling(0)
    /\ conts' = [conts EXCEPT ![k] = [id |-> id, frames |-> frames, dyn |-> dyn]]
    /\ UNCHANGED <<id, frames, dyn, pc, outer, delims>>

\* Mutant of Escape: the frames are replaced, the dynamic stack is not.
Escape_NoUnwind(k) ==
    /\ pc = "user" /\ conts[k] # None /\ conts[k].id = id
    /\ frames' = conts[k].frames
    /\ pc' = "return"
    /\ UNCHANGED <<id, dyn, outer, conts, delims>>

\* escape_proc: refused in another barrier, which raises an exception.
Escape(k) ==
    /\ pc = "user" /\ conts[k] # None
    /\ \/ /\ conts[k].id = id
          /\ frames' = Append(conts[k].frames, Unwind(conts[k].dyn))
       \/ /\ conts[k].id # id /\ Calling(0)
          /\ frames' = Append(frames, UnwindHandler)
    /\ pc' = "return"
    /\ UNCHANGED <<id, dyn, outer, conts, delims>>

\* abort-to-prompt
AbortToPrompt(tag) ==
    /\ Calling(0)
    /\ ThunkAborts \/ Kinds(frames) \cap {"unwind", "wind", "unwind_to_prompt"} = {}
    /\ frames' = Append(frames, UnwindPrompt(tag, dyn))
    /\ pc' = "return"
    /\ UNCHANGED <<id, dyn, outer, conts, delims>>

\* delimited_continuation: splice the captured frames, then rewind.
Resume(k) ==
    /\ delims[k] # None /\ Calling(Len(delims[k].frames))
    /\ \/ Shared
       \/ (ToSet(delims[k].dyn) \union Owned(delims[k].frames)) \cap Installed = {}
    /\ frames' = frames \o delims[k].frames \o <<RewindDelim(delims[k].dyn, None)>>
    /\ pc' = "return"
    /\ UNCHANGED <<id, dyn, outer, conts, delims>>

\* raise
Raise ==
    /\ Calling(0)
    /\ frames' = Append(frames, UnwindHandler)
    /\ pc' = "return"
    /\ UNCHANGED <<id, dyn, outer, conts, delims>>

\* Rust calls a Scheme procedure in a new barrier: a hash function, a custom
\* port, a transformer.
CallFromRust ==
    /\ Calling(0) /\ Len(outer) < MaxNest
    /\ outer' = Append(outer, [id |-> id, frames |-> frames, dyn |-> dyn])
    /\ id' = Fresh(BarrierIds)
    /\ frames' = <<Halt(id')>> /\ dyn' = <<>>
    /\ UNCHANGED <<pc, conts, delims>>

----------------------------------------------------------------------------
(* call_cont: what the top frame does when it is returned to.  Scheme code   *)
(* may return at any time.                                                  *)

\* A JIT continuation: more Scheme code.
ReturnJit ==
    /\ Top.kind = "Jit"
    /\ frames' = Below /\ pc' = "user"
    /\ UNCHANGED <<id, dyn, outer, conts, delims>>

\* dynamic_wind: the in thunk returned; push the winder, run the body above
\* the frame that pops it.
ReturnIn ==
    /\ Top.kind = "AfterIn"
    /\ dyn' = Append(dyn, Wind(Top.name))
    /\ frames' = Append(Below, PopDyn(Wind(Top.name)))
    /\ pc' = "user"
    /\ UNCHANGED <<id, outer, conts, delims>>

\* The extent of a pushed element ends: a body of dynamic-wind runs its out
\* thunk, the others return.  A prompt barrier is popped the same way.
ReturnPop ==
    /\ Top.kind \in {"PopDyn", "PromptBarrier"}
    /\ dyn' = Front(dyn)
    /\ IF IsWinder(Top.elem)
       THEN frames' = Append(Below, AfterOut) /\ pc' = "user"
       ELSE frames' = Below /\ pc' = "return"
    /\ UNCHANGED <<id, outer, conts, delims>>

ReturnOut ==
    /\ Top.kind = "AfterOut"
    /\ frames' = Below /\ pc' = "return"
    /\ UNCHANGED <<id, dyn, outer, conts, delims>>

\* Mutant of Stops: only the lengths are compared.
Stops_AnyElement(d, dest, n) == n <= Len(dest)

\* Position n of d is where unwinding to dest stops.
Stops(d, dest, n) ==
    n = 0 \/ (n <= Len(dest) /\ d[n] = dest[n])

\* Mutant of UnwindTo: everything is unwound.
UnwindTo_Bottom(d, dest) == 0

\* How far unwind pops d on the way to dest.
UnwindTo(d, dest) == Max({n \in 0 .. Len(d) : Stops(d, dest, n)})

\* Mutant of ReturnUnwind: the stack is cut before the first out thunk runs.
ReturnUnwind_CutFirst ==
    LET dest == Top.dest
        stop == UnwindTo(dyn, dest)
        w == LastPos(WindersAbove(dyn, 0)) IN
    /\ Top.kind = "unwind"
    /\ dyn' = Take(dyn, stop)
    /\ IF w > stop THEN frames' = frames /\ pc' = "user"
       ELSE frames' = Append(Below, Rewind(dest, None)) /\ pc' = "return"
    /\ UNCHANGED <<id, outer, conts, delims>>

\* unwind: pop what the destination does not have, running the out thunk of
\* every winder, then wind.
ReturnUnwind ==
    LET dest == Top.dest
        stop == UnwindTo(dyn, dest)
        w == LastPos(WindersAbove(dyn, 0)) IN
    /\ Top.kind = "unwind"
    /\ \/ /\ w > stop
          /\ dyn' = Take(dyn, w - 1)
          /\ frames' = frames /\ pc' = "user"
       \/ /\ w <= stop
          /\ dyn' = Take(dyn, stop)
          /\ frames' = Append(Below, Rewind(dest, None)) /\ pc' = "return"
    /\ UNCHANGED <<id, outer, conts, delims>>

\* wind: push what the destination has on top, running the in thunk of every
\* winder before it is pushed.
ReturnWind ==
    LET dest == Top.dest
        now == Entered(dyn, Top.winder)
        w == FirstPos(dest, WindersAbove(dest, Len(now))) IN
    /\ Top.kind = "wind"
    /\ dyn' = now \o SubSeq(dest, Len(now) + 1, w - 1)
    /\ \/ /\ w <= Len(dest)
          /\ frames' = Append(Below, Rewind(dest, dest[w].name)) /\ pc' = "user"
       \/ /\ w > Len(dest)
          /\ frames' = Below /\ pc' = "return"
    /\ UNCHANGED <<id, outer, conts, delims>>

\* wind_delim: the same for a captured slice of the dynamic stack.
ReturnWindDelim ==
    LET rest == Top.rest
        now == Entered(dyn, Top.winder)
        w == FirstPos(rest, WindersAbove(rest, 0)) IN
    /\ Top.kind = "wind_delim"
    /\ dyn' = now \o Take(rest, w - 1)
    /\ \/ /\ w <= Len(rest)
          /\ frames' = Append(Below, RewindDelim(From(rest, w + 1), rest[w].name))
          /\ pc' = "user"
       \/ /\ w > Len(rest)
          /\ frames' = Below /\ pc' = "return"
    /\ UNCHANGED <<id, outer, conts, delims>>

\* The evaluation in this barrier is over: go back to the Rust code that
\* started it, which raises the exception if there was one; with none waiting,
\* the next top-level expression is evaluated in a new barrier.
EndBarrier(failed) ==
    IF outer # <<>>
    THEN /\ id' = Last(outer).id /\ dyn' = Last(outer).dyn
         /\ frames' = Last(outer).frames \o (IF failed THEN <<UnwindHandler>> ELSE <<>>)
         /\ outer' = Front(outer) /\ pc' = "return"
         /\ UNCHANGED <<conts, delims>>
    ELSE /\ id' = Fresh(BarrierIds) /\ dyn' = <<>> /\ pc' = "user"
         /\ frames' = <<Halt(id')>>
         /\ UNCHANGED <<outer, conts, delims>>

ReturnHalt ==
    /\ Top.kind = "Halt"
    /\ EndBarrier(FALSE)

\* Mutant of SplitAt: the prompt stays on the dynamic stack.
SplitAt_KeepPrompt(n) ==
    LET b == FirstPos(Below, PositionsOf(Below, Barrier(dyn[n]))) IN
    /\ b <= Len(Below) /\ n <= Len(Top.saved)
    /\ frames' = Take(Below, b - 1) /\ pc' = "user"
    /\ dyn' = Take(dyn, n)
    /\ \E k \in Delim :
          delims' = [delims EXCEPT ![k] = [frames |-> From(Below, b + 1),
                                           dyn |-> From(Top.saved, n + 1)]]
    /\ UNCHANGED <<id, outer, conts>>

\* Mutant of SplitAt: the captured frames start with the barrier.
SplitAt_WithBarrier(n) ==
    LET b == FirstPos(Below, PositionsOf(Below, Barrier(dyn[n]))) IN
    /\ b <= Len(Below) /\ n <= Len(Top.saved)
    /\ frames' = Take(Below, b - 1) /\ pc' = "user"
    /\ dyn' = Take(dyn, n - 1)
    /\ \E k \in Delim :
          delims' = [delims EXCEPT ![k] = [frames |-> From(Below, b),
                                           dyn |-> From(Top.saved, n + 1)]]
    /\ UNCHANGED <<id, outer, conts>>

\* unwind_to_prompt finds its prompt at position n: split the continuation at
\* the first barrier of that prompt and call the handler with the upper part.
\* Without such a frame, or with too short a saved stack, the code panics: no
\* step.
SplitAt(n) ==
    LET b == FirstPos(Below, PositionsOf(Below, Barrier(dyn[n]))) IN
    /\ b <= Len(Below) /\ n <= Len(Top.saved)
    /\ frames' = Take(Below, b - 1) /\ pc' = "user"
    /\ dyn' = Take(dyn, n - 1)
    /\ \E k \in Delim :
          delims' = [delims EXCEPT ![k] = [frames |-> From(Below, b + 1),
                                           dyn |-> From(Top.saved, n + 1)]]
    /\ UNCHANGED <<id, outer, conts>>

ReturnUnwindPrompt ==
    LET n == LastPos({i \in 1 .. Len(dyn) : IsWinder(dyn[i])
                        \/ (dyn[i].kind = "Prompt" /\ dyn[i].name = Top.name)}) IN
    /\ Top.kind = "unwind_to_prompt"
    /\ \/ n = 0 /\ EndBarrier(TRUE)
       \/ /\ n > 0 /\ IsWinder(dyn[n])
          /\ dyn' = Take(dyn, n - 1) /\ frames' = frames /\ pc' = "user"
          /\ UNCHANGED <<id, outer, conts, delims>>
       \/ n > 0 /\ ~IsWinder(dyn[n]) /\ SplitAt(n)

\* unwind_to_exception_handler: out thunks run on the way to the handler,
\* which is called above reraise_exception.
ReturnUnwindHandler ==
    LET n == LastPos({i \in 1 .. Len(dyn) : IsWinder(dyn[i])
                                           \/ dyn[i].kind = "ExceptionHandler"}) IN
    /\ Top.kind = "unwind_to_exception_handler"
    /\ \/ n = 0 /\ EndBarrier(TRUE)
       \/ /\ n > 0
          /\ dyn' = Take(dyn, n - 1) /\ pc' = "user"
          /\ frames' = IF IsWinder(dyn[n]) THEN frames ELSE Append(Below, Reraise)
          /\ UNCHANGED <<id, outer, conts, delims>>

\* reraise_exception: the handler of a non-continuable exception returned.
ReturnReraise ==
    /\ Top.kind = "reraise_exception"
    /\ frames' = Append(Below, UnwindHandler) /\ pc' = "return"
    /\ UNCHANGED <<id, dyn, outer, conts, delims>>

Call ==
    \/ CallNonTail \/ Raise \/ CallFromRust
    \/ \E w \in Winder : DynamicWind(w)
    \/ \E h \in Handler : WithElement(Catch(h))
    \/ \E p \in Port : WithElement(Redirect(p))
    \/ \E t \in Tag : CallWithPrompt(t) \/ AbortToPrompt(t)
    \/ \E k \in Cont : CallCC(k) \/ Escape(k)
    \/ \E k \in Delim : Resume(k)

Return ==
    \/ ReturnJit \/ ReturnIn \/ ReturnPop \/ ReturnOut \/ ReturnHalt
    \/ ReturnUnwind \/ ReturnWind \/ ReturnWindDelim
    \/ ReturnUnwindPrompt \/ ReturnUnwindHandler \/ ReturnReraise

Next == Call \/ Return

Spec == Init /\ [][Next]_vars

----------------------------------------------------------------------------
(* The dynamic stack a continuation needs.                                  *)

\* Frame f above frames that need below.  .elems is what the dynamic stack in
\* force must end with; it must be no longer unless .any.
NextNeed(f, below) ==
    CASE f.kind \in {"PopDyn", "PromptBarrier"} ->
            [below EXCEPT !.elems = Append(@, f.elem)]
      [] f.kind \in {"unwind", "unwind_to_prompt", "unwind_to_exception_handler",
                     "reraise_exception"} -> [any |-> TRUE, elems |-> <<>>]
      [] f.kind = "wind" ->
            IF f.winder = None THEN [any |-> TRUE, elems |-> <<>>]
            ELSE [any |-> FALSE,
                  elems |-> Take(f.dest, FirstPos(f.dest, PositionsOf(f.dest, Wind(f.winder))) - 1)]
      [] f.kind = "wind_delim" ->
            LET n == Len(Entered(<<>>, f.winder)) + Len(f.rest) IN
            [below EXCEPT !.elems = Take(@, Max({0, Len(@) - n}))]
      [] OTHER -> below

\* need[i]: the dynamic stack needed when frame i is returned to.
Needs(fs) ==
    LET need[i \in 0 .. Len(fs)] ==
          IF i = 0 THEN [any |-> FALSE, elems |-> <<>>]
          ELSE NextNeed(fs[i], need[i - 1])
    IN  need

Fits(d, need) ==
    IF need.any THEN IsSuffix(need.elems, d) ELSE d = need.elems

\* The running continuation fits the dynamic stack: every frame that will pop
\* an element finds that element on top when it is returned to (call_cont,
\* dynamic_wind, with_exception_handler), and an escape or a resumed
\* continuation rebuilds the stack that the frames below it need.
ContinuationFits ==
    LET need == Needs(frames) IN
    /\ Fits(dyn, need[Len(frames)])
    /\ \A i \in 2 .. Len(frames) :
          /\ frames[i].kind \in {"unwind", "wind"} => Fits(frames[i].dest, need[i - 1])
          /\ frames[i].kind = "wind_delim" =>
                LET more == Entered(<<>>, frames[i].winder) \o frames[i].rest IN
                \/ IsSuffix(more, need[i - 1].elems)
                \/ need[i - 1].any /\ IsSuffix(need[i - 1].elems, more)

\* A continuation never runs in a barrier other than its own: the bottom frame
\* halts the barrier that is running (the id check of escape_proc). Every prompt
\* on the dynamic stack has its barrier on the continuation stack, so that the
\* search of unwind_to_prompt cannot fail; while an escape is unwinding, the
\* frames are gone before the elements are.
BarriersMatch ==
    /\ frames[1] = Halt(id)
    /\ \A b \in ToSet(outer) : b.frames[1] = Halt(b.id)
    /\ "unwind" \notin Kinds(frames) =>
        \A e \in ToSet(dyn) : e.kind = "Prompt" => Barrier(e) \in ToSet(frames)

\* d and e are the same up to some position, above which one of the two has
\* at most one winder and the other none.
DifferByOneExtent(d, e) ==
    \E n \in 0 .. Len(d) :
        /\ n <= Len(e) /\ Take(d, n) = Take(e, n)
        /\ \/ WindersAbove(d, n) = {} /\ \A i, j \in WindersAbove(e, n) : i = j
           \/ WindersAbove(e, n) = {} /\ \A i, j \in WindersAbove(d, n) : i = j

\* Control enters and leaves the extent of a dynamic-wind one at a time, the
\* innermost first: no step of a jump skips the thunks of an extent, and none
\* replaces what lies below it.
OneExtentAtATime == [][id' = id => DifferByOneExtent(dyn, dyn')]_vars

\* A jump keeps the extents its source and its destination share: unwind never
\* pops an element of their common prefix, and wind adds nothing but the
\* destination's elements.
JumpKeepsCommon ==
    [][id' = id /\ Top.kind \in {"unwind", "wind"} =>
         \A n \in 0 .. Min({Len(dyn), Len(Top.dest)}) :
             Take(dyn, n) = Take(Top.dest, n) =>
                 Len(dyn') >= n /\ Take(dyn', n) = Take(Top.dest, n)]_vars

\* A jump arrives in the dynamic state it was captured in: all the out thunks
\* and in thunks between the two have run ("calls the appropriate winders").
JumpArrives ==
    [][ReturnWind /\ frames' = Below => dyn' = Top.dest]_vars

\* What abort-to-prompt captures does not extend past the prompt: the prompt's
\* own barrier is not in it.
CaptureStopsAtPrompt ==
    [][\A k \in Delim : delims'[k] # delims[k] =>
         Barrier(dyn[Len(dyn') + 1]) \notin ToSet(delims'[k].frames)]_vars
=============================================================================
