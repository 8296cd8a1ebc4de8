--------------------------- MODULE MCDynamicState ---------------------------
(***************************************************************************)
(* Instances of DynamicState for TLC. One is about escape procedures, handlers,   *)
(* ports and calls from Rust, the other about prompts and delimited              *)
(* continuations; a run explores both, a behaviour is about one of them.         *)
(***************************************************************************)
EXTENDS DynamicState

CONSTANTS PromptWinder, PromptTag

VARIABLE part

P == INSTANCE DynamicState WITH
        Winder <- PromptWinder, Handler <- {}, Port <- {}, Tag <- PromptTag, Cont <- {},
        MaxFrames <- 6, MaxNest <- 0, MaxPrompts <- 2

\* Winders are only compared, and so are ports and handlers.
Symmetry == Permutations(Winder)

AllInit ==
    \/ part = "escapes" /\ Init
    \/ part = "prompts" /\ P!Init

AllNext ==
    \/ part = "escapes" /\ Next /\ UNCHANGED part
    \/ part = "prompts" /\ P!Next /\ UNCHANGED part

AllSpec == AllInit /\ [][AllNext]_<<part, vars>>

\* Only escapes.
OneSpec == part = "escapes" /\ Init /\ [][Next /\ UNCHANGED part]_<<part, vars>>

\* Programs whose handlers are installed inside of an extent of dynamic-wind only.
HandlersInExtents ==
    \A i \in DOMAIN dyn : dyn[i].kind = "ExceptionHandler" => WindersAbove(Take(dyn, i), 0) # {}
=============================================================================
