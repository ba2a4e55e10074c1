----------------------------- MODULE GMainLoop ------------------------------
(***************************************************************************)
(* GLib's main loops over the default context, as far as this code uses    *)
(* them (external: GMainLoop, GMainContext, GThread). All loops of the     *)
(* process are made with g_main_loop_new(NULL, FALSE), so they share one   *)
(* context: only the thread that owns it polls and dispatches, the others  *)
(* wait until it is given up. A loop is named like the thread it was made  *)
(* for.                                                                    *)
(***************************************************************************)
EXTENDS Naturals, FiniteSets

CONSTANTS
    GubThreads,     \* threads gub_ref may start, one after the other
    ExportThreads,  \* threads of exported servers
    None

Threads == GubThreads \cup ExportThreads

ASSUME LoopAssumption ==
    /\ GubThreads \cap ExportThreads = {}
    /\ None \notin Threads

VARIABLES
    thread,     \* where each thread is
    target,     \* the loop it runs, None before it does
    isRunning,  \* loop->is_running
    owner,      \* the thread that owns the default context
    posted,     \* whether a message of a pipeline waits to be dispatched
    calling     \* whether the owner is inside a callback

loopVars == <<thread, target, isRunning, owner, posted, calling>>

Steps == {"unborn", "born", "stored", "enter", "wait", "iterate", "left"}

LoopTypeOK ==
    /\ thread \in [Threads -> Steps]
    /\ target \in [Threads -> Threads \cup {None}]
    /\ isRunning \in [Threads -> BOOLEAN]
    /\ owner \in Threads \cup {None}
    /\ posted \in BOOLEAN
    /\ calling \in BOOLEAN

LoopInit ==
    /\ thread = [t \in Threads |-> "unborn"]
    /\ target = [t \in Threads |-> None]
    /\ isRunning = [t \in Threads |-> FALSE]
    /\ owner = None
    /\ posted = FALSE
    /\ calling = FALSE

-----------------------------------------------------------------------------

\* g_thread_new: one of S not used before begins at step s. Which one is only a
\* matter of names.
Unborn(S) == {t \in S : thread[t] = "unborn"}

NewThread(S) == CHOOSE t \in S : t \in Unborn(S)

Spawn(S, s) ==
    /\ Unborn(S) # {}
    /\ thread' = [thread EXCEPT ![NewThread(S)] = s]

\* Mutant: quitting a loop does not wake the threads that wait for the context.
QuitsOwner(l) == [isRunning EXCEPT ![l] = owner = None \/ target[owner] # l]

\* g_main_loop_quit: the flag is cleared, whoever waits or polls is woken up. A
\* loop that does not run yet forgets it: running sets the flag.
Quits(l) == [isRunning EXCEPT ![l] = FALSE]

\* Quitting reaches the thread: it is inside g_main_loop_run of that very loop.
InsideLoop(t, l) == thread[t] \in {"wait", "iterate"} /\ target[t] = l

\* g_main_loop_run: the flag is set, and the context taken if nobody has it.
EnterLoop(t) ==
    /\ thread[t] = "enter"
    /\ target[t] # None
    /\ isRunning' = [isRunning EXCEPT ![target[t]] = TRUE]
    /\ \/ owner = None /\ owner' = t /\ thread' = [thread EXCEPT ![t] = "iterate"]
       \/ owner # None /\ owner' = owner /\ thread' = [thread EXCEPT ![t] = "wait"]
    /\ UNCHANGED <<target, posted, calling>>

\* g_main_loop_run of NULL returns at once.
EnterNothing(t) ==
    /\ thread[t] = "enter"
    /\ target[t] = None
    /\ thread' = [thread EXCEPT ![t] = "left"]
    /\ UNCHANGED <<target, isRunning, owner, posted, calling>>

\* The context was given up: a loop that still runs takes it over.
TakeOver(t) ==
    /\ thread[t] = "wait"
    /\ isRunning[target[t]]
    /\ owner = None
    /\ owner' = t
    /\ thread' = [thread EXCEPT ![t] = "iterate"]
    /\ UNCHANGED <<target, isRunning, posted, calling>>

\* A loop that was quit is left: the owner gives the context up, once it has come
\* back from its callback; one that waits just returns.
LeaveLoop(t) ==
    /\ thread[t] \in {"wait", "iterate"}
    /\ ~isRunning[target[t]]
    /\ \/ thread[t] = "wait" /\ owner' = owner
       \/ thread[t] = "iterate" /\ ~calling /\ owner' = None
    /\ thread' = [thread EXCEPT ![t] = "left"]
    /\ UNCHANGED <<target, isRunning, posted, calling>>

\* The owner dispatches a message, whichever pipeline it is of.
Dispatch ==
    /\ owner # None
    /\ ~calling
    /\ posted
    /\ calling' = TRUE
    /\ posted' = FALSE
    /\ UNCHANGED <<thread, target, isRunning, owner>>

CallbackReturns ==
    /\ calling
    /\ calling' = FALSE
    /\ UNCHANGED <<thread, target, isRunning, owner, posted>>

RunLoop(t) == EnterLoop(t) \/ EnterNothing(t) \/ TakeOver(t) \/ LeaveLoop(t)

LoopNext == (\E t \in Threads : RunLoop(t)) \/ Dispatch \/ CallbackReturns
=============================================================================
