---------------------------- MODULE GubGstreamer ----------------------------
(***************************************************************************)
(* The life cycle of GStreamer in the plugin (gub_gstreamer.c): a count of *)
(* references, and a thread whose main loop delivers the messages of all   *)
(* pipelines. gub_ref and gub_unref are called by Unity's main thread; the *)
(* new thread stores its loop in a global variable and reads it back to    *)
(* run it, without a lock.                                                 *)
(***************************************************************************)
EXTENDS GMainLoop

CONSTANT MaxRefs    \* bound: references held at once

ASSUME RefAssumption == MaxRefs \in Nat

VARIABLES
    refCount,   \* gub_ref_count
    mainLoop,   \* gub_main_loop
    mainThread, \* gub_main_loop_thread
    upc,        \* Unity's main thread: "idle", or "join" inside gub_unref
    missed      \* history: threads that were not in the loop gub_unref quit

gubVars == <<refCount, mainLoop, mainThread, upc, missed>>

GubTypeOK ==
    /\ refCount \in 0 .. MaxRefs
    /\ mainLoop \in GubThreads \cup {None}
    /\ mainThread \in GubThreads \cup {None}
    /\ upc \in {"idle", "join"}
    /\ missed \in SUBSET GubThreads

GubInit ==
    /\ refCount = 0
    /\ mainLoop = None
    /\ mainThread = None
    /\ upc = "idle"
    /\ missed = {}

-----------------------------------------------------------------------------
(* The thread (gub_main_loop_func). *)

\* The loop is made and stored in the global.
StoreLoop(t) ==
    /\ thread[t] = "born"
    /\ thread' = [thread EXCEPT ![t] = "stored"]
    /\ mainLoop' = t
    /\ UNCHANGED <<target, isRunning, owner, posted, calling>>
    /\ UNCHANGED <<refCount, mainThread, upc, missed>>

\* The global is read again for g_main_loop_run: it may be another's by now, or
\* NULL.
ReadLoop(t) ==
    /\ thread[t] = "stored"
    /\ thread' = [thread EXCEPT ![t] = "enter"]
    /\ target' = [target EXCEPT ![t] = mainLoop]
    /\ UNCHANGED <<isRunning, owner, posted, calling, gubVars>>

-----------------------------------------------------------------------------
(* Unity's main thread. *)

\* Mutant: a reference is counted for a GStreamer that could not be initialised.
RefCountsFailure ==
    /\ upc = "idle"
    /\ refCount < MaxRefs
    /\ refCount' = refCount + 1
    /\ \/ UNCHANGED <<mainThread, thread>>
       \/ /\ refCount = 0
          /\ Spawn(GubThreads, "born")
          /\ mainThread' = NewThread(GubThreads)
    /\ UNCHANGED <<target, isRunning, owner, posted, calling>>
    /\ UNCHANGED <<mainLoop, upc, missed>>

\* gub_ref: the first reference starts the thread. If GStreamer cannot be
\* initialised nothing is counted.
Ref ==
    /\ upc = "idle"
    /\ refCount < MaxRefs
    /\ refCount' = refCount + 1
    /\ \/ refCount > 0 /\ UNCHANGED <<mainThread, thread>>
       \/ /\ refCount = 0
          /\ Spawn(GubThreads, "born")
          /\ mainThread' = NewThread(GubThreads)
    /\ UNCHANGED <<target, isRunning, owner, posted, calling>>
    /\ UNCHANGED <<mainLoop, upc, missed>>

\* Mutant: a reference is dropped past zero.
UnrefPastZero ==
    /\ upc = "idle"
    /\ refCount # 1
    /\ refCount' = refCount - 1
    /\ UNCHANGED <<loopVars, mainLoop, mainThread, upc, missed>>

\* Mutant: every gub_unref quits the loop.
UnrefQuits ==
    /\ upc = "idle"
    /\ refCount > 1
    /\ refCount' = refCount - 1
    /\ isRunning' = IF mainLoop = None THEN isRunning ELSE Quits(mainLoop)
    /\ UNCHANGED <<thread, target, owner, posted, calling>>
    /\ UNCHANGED <<mainLoop, mainThread, upc, missed>>

\* gub_unref of a reference that is not the last.
Unref ==
    /\ upc = "idle"
    /\ refCount > 1
    /\ refCount' = refCount - 1
    /\ UNCHANGED <<loopVars, mainLoop, mainThread, upc, missed>>

\* Mutant: the thread is not joined.
UnrefLastNoJoin ==
    /\ upc = "idle"
    /\ refCount = 1
    /\ refCount' = 0
    /\ missed' = IF mainLoop # None /\ InsideLoop(mainThread, mainLoop)
                 THEN missed ELSE missed \cup {mainThread}
    /\ mainLoop # None
    /\ isRunning' = Quits(mainLoop)
    /\ mainLoop' = None
    /\ UNCHANGED <<thread, target, owner, posted, calling, mainThread, upc>>

\* The last one: without a loop it just returns; otherwise it quits the loop,
\* forgets it, and joins the thread.
UnrefLast ==
    /\ upc = "idle"
    /\ refCount = 1
    /\ refCount' = 0
    /\ missed' = IF mainLoop # None /\ InsideLoop(mainThread, mainLoop)
                 THEN missed ELSE missed \cup {mainThread}
    /\ \/ mainLoop = None /\ UNCHANGED <<isRunning, mainLoop, upc>>
       \/ /\ mainLoop # None
          /\ isRunning' = Quits(mainLoop)
          /\ mainLoop' = None
          /\ upc' = "join"
    /\ UNCHANGED <<thread, target, owner, posted, calling, mainThread>>

\* g_thread_join returns.
Joined ==
    /\ upc = "join"
    /\ thread[mainThread] = "left"
    /\ upc' = "idle"
    /\ mainThread' = None
    /\ UNCHANGED <<loopVars, refCount, mainLoop, missed>>

\* A pipeline posts a message; pipelines are used while a reference is held.
Post ==
    /\ refCount > 0
    /\ upc = "idle"
    /\ ~posted
    /\ posted' = TRUE
    /\ UNCHANGED <<thread, target, isRunning, owner, calling, gubVars>>

GubNext ==
    \/ \E t \in GubThreads : StoreLoop(t) \/ ReadLoop(t)
    \/ Ref \/ Unref \/ UnrefLast \/ Joined \/ Post
=============================================================================
