---------------------------- MODULE CompileQueue ----------------------------
(***************************************************************************)
(* Compilations (runtime.rs). One thread owns the JIT; the others send it their *)
(* code through a channel of a few places, each with a channel of its own for    *)
(* the answer, and wait. A compilation that fails panics, which ends the thread  *)
(* and drops whatever is in the channel. Code that runs may compile again.      *)
(***************************************************************************)
EXTENDS Naturals, Sequences, FiniteSets, SequencesExt

CONSTANTS
    Requesters,   \* threads that evaluate code
    Places,       \* MAX_COMPILATION_TASKS
    MaxRequests,  \* bound: compilations a thread asks for
    None

\* What is compiled: the requests of each thread, in their order.
Tasks == Requesters \X Nat

QueueAssumption == Places \in Nat \ {0} /\ None \notin Tasks

VARIABLES
    queue,      \* the tasks in the channel, as <<thread, number>>
    compiling,  \* the task being compiled, or None
    alive,      \* the compilation thread has not panicked
    asked,      \* asked[t]: how many compilations t has asked for
    wants,      \* wants[t]: the task that t is about to send, waits for, or None
    sent,       \* sent[t]: that task has left compile_expr for the channel
    answered,   \* the tasks whose code has not been received yet
    failed      \* the threads that have panicked in recv_continuation

vars == <<queue, compiling, alive, asked, wants, sent, answered, failed>>

Init ==
    /\ queue = <<>> /\ compiling = None /\ alive = TRUE
    /\ asked = [t \in Requesters |-> 0]
    /\ wants = [t \in Requesters |-> None]
    /\ sent = [t \in Requesters |-> FALSE]
    /\ answered = {}
    /\ failed = {}

\* A thread calls compile_expr.
Ask(t) ==
    /\ t \notin failed /\ wants[t] = None /\ asked[t] < MaxRequests
    /\ asked' = [asked EXCEPT ![t] = @ + 1]
    /\ wants' = [wants EXCEPT ![t] = <<t, asked[t] + 1>>]
    /\ UNCHANGED <<queue, compiling, alive, sent, answered, failed>>

\* The task is sent once there is a place.
Send(t) ==
    /\ wants[t] # None /\ ~sent[t]
    /\ alive /\ Len(queue) < Places
    /\ queue' = Append(queue, wants[t])
    /\ sent' = [sent EXCEPT ![t] = TRUE]
    /\ UNCHANGED <<compiling, alive, asked, wants, answered, failed>>

\* The thread is gone: the send fails, which nobody looks at, and the task is dropped.
SendToDead(t) ==
    /\ wants[t] # None /\ ~sent[t] /\ ~alive
    /\ sent' = [sent EXCEPT ![t] = TRUE]
    /\ UNCHANGED <<queue, compiling, alive, asked, wants, answered, failed>>

Receive ==
    /\ alive /\ compiling = None /\ queue # <<>>
    /\ compiling' = Head(queue) /\ queue' = Tail(queue)
    /\ UNCHANGED <<alive, asked, wants, sent, answered, failed>>

\* The code is sent to the channel that came with the task.
Complete ==
    /\ compiling # None
    /\ answered' = answered \cup {compiling}
    /\ compiling' = None
    /\ UNCHANGED <<queue, alive, asked, wants, sent, failed>>

\* Mutant of Crash: the tasks in the channel keep their channels for the answer.
Crash_Undropped ==
    /\ compiling # None
    /\ alive' = FALSE /\ compiling' = None
    /\ UNCHANGED <<queue, asked, wants, sent, answered, failed>>

\* A compilation panics: the channel is dropped with what is in it.
Crash ==
    /\ compiling # None
    /\ alive' = FALSE /\ compiling' = None /\ queue' = <<>>
    /\ UNCHANGED <<asked, wants, sent, answered, failed>>

\* The thread gets the code and runs it; compile_expr returns.
Take(t) ==
    /\ sent[t] /\ wants[t] \in answered
    /\ answered' = answered \ {wants[t]}
    /\ wants' = [wants EXCEPT ![t] = None]
    /\ sent' = [sent EXCEPT ![t] = FALSE]
    /\ UNCHANGED <<queue, compiling, alive, asked, failed>>

\* The other end of the channel for the answer has been dropped with the task, which is in the channel,
\* being compiled, or nowhere.
Dropped(k) == k # compiling /\ k \notin ToSet(queue) \cup answered

Panic(t) ==
    /\ sent[t] /\ Dropped(wants[t])
    /\ failed' = failed \cup {t}
    /\ wants' = [wants EXCEPT ![t] = None]
    /\ sent' = [sent EXCEPT ![t] = FALSE]
    /\ UNCHANGED <<queue, compiling, alive, asked, answered>>

Next ==
    \/ Receive \/ Complete \/ Crash
    \/ \E t \in Requesters : Ask(t) \/ Send(t) \/ SendToDead(t) \/ Take(t) \/ Panic(t)

\* Threads run. As each asks for finitely many compilations, a place in the channel is left in the end
\* for every sender.
Fairness ==
    /\ WF_vars(Receive \/ Complete)
    /\ \A t \in Requesters : WF_vars(Send(t) \/ SendToDead(t) \/ Take(t) \/ Panic(t))

Spec == Init /\ [][Next]_vars /\ Fairness

-----------------------------------------------------------------------------
\* Every compilation that a thread asks for comes back, with code or with a panic, also when more threads
\* ask than the channel has places and when the compilation thread ends meanwhile (compile_expr).
CompilationsReturn == \A t \in Requesters : wants[t] # None ~> wants[t] = None

\* Tasks that have been sent and whose code has not been received.
UnderWay == ToSet(queue) \cup answered \cup ({compiling} \ {None})

\* Every task under way is the one that its thread waits for, so no thread is handed the code of another
\* request, and as long as the compilation thread lives no request is lost: recv_continuation panics
\* only once that thread has ended (compile_expr, compilation_task).
RequestsAreKept ==
    /\ \A k \in UnderWay : k \in Tasks /\ sent[k[1]] /\ wants[k[1]] = k
    /\ alive => \A t \in Requesters : sent[t] => wants[t] \in UnderWay
=============================================================================
