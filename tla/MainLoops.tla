----------------------------- MODULE MainLoops ------------------------------
(***************************************************************************)
(* A process in which Unity plays media and the application exports Wall   *)
(* Clock servers: the main loop of the plugin and those of the servers run *)
(* over one context, so that whichever thread owns it delivers the         *)
(* messages of all pipelines (gub_gstreamer.c, export.c,                   *)
(* export/server-export.c).                                                *)
(***************************************************************************)
EXTENDS GubGstreamer, ServerExport

vars == <<loopVars, gubVars, exportVars>>

Init == LoopInit /\ GubInit /\ ExportInit

Next ==
    \/ LoopNext /\ UNCHANGED <<gubVars, exportVars>>
    \/ GubNext /\ UNCHANGED exportVars
    \/ ExportNext /\ UNCHANGED gubVars

Spec == Init /\ [][Next]_vars

-----------------------------------------------------------------------------
(* Fairness: every thread is scheduled and a lock is granted; callbacks      *)
(* return. Nobody has to make calls, or to post.                             *)

ThreadRuns(t) ==
    \/ RunLoop(t) /\ UNCHANGED <<gubVars, exportVars>>
    \/ t \in GubThreads /\ (StoreLoop(t) \/ ReadLoop(t)) /\ UNCHANGED exportVars

\* A waiting thread competes for the context with others: strong fairness.
Fairness ==
    /\ \A t \in Threads : SF_vars(ThreadRuns(t))
    /\ WF_vars(Dispatch /\ UNCHANGED <<gubVars, exportVars>>)
    /\ WF_vars(CallbackReturns /\ UNCHANGED <<gubVars, exportVars>>)
    /\ WF_vars(Joined /\ UNCHANGED exportVars)
    /\ \A c \in Callers : SF_vars(ExportReturn(c) /\ UNCHANGED gubVars)

FairSpec == Spec /\ Fairness

-----------------------------------------------------------------------------
(* Properties. *)

\* Every variable keeps to its type.
TypeOK == LoopTypeOK /\ GubTypeOK /\ ExportTypeOK

\* While somebody holds a reference the thread that delivers messages exists and
\* has not left its loop, whatever came before: a failed initialisation, a last
\* gub_unref that found no loop yet (gub_ref, gub_unref).
HeldLoopRuns ==
    refCount > 0 => /\ mainThread # None
                    /\ thread[mainThread] \notin {"unborn", "left"}

\* When the last reference is gone and gub_unref has returned, no thread of the
\* plugin runs any more, except one that gub_unref missed: it was not in its loop
\* yet when that was quit (the if in gub_unref that returns without a loop).
QuietWhenUnheld ==
    refCount = 0 /\ upc = "idle" =>
        \A t \in GubThreads \ missed : thread[t] \in {"unborn", "left"}

\* A server is freed only when its thread has left the loop, so nothing of it is
\* dispatched afterwards (gst_dvb_css_wc_stop joins under the lock).
FreedServersLeft ==
    \A s \in ExportThreads : server[s] = "freed" => thread[s] = "left" /\ owner # s

\* When nobody is under the lock, the global of export.c names a server that is
\* alive, or none: who waited for the lock in gst_dvb_css_wc_get_time while
\* another stopped the server does not read a freed one.
GlobalServerLive ==
    api = "global" /\ lock = None /\ sServer # None => server[sServer] = "up"

\* A message posted while the plugin is held is delivered, or the plugin is let
\* go: when the exported server whose thread owned the context is stopped,
\* another loop takes over.
MessagesDelivered == posted ~> (~posted \/ refCount = 0)

-----------------------------------------------------------------------------
(* Joins. Both files quit a loop and then join the thread that runs it.      *)

\* The thread is in a loop that runs: it will not leave by itself.
RunsOn(t) == target[t] # None /\ InsideLoop(t, target[t]) /\ isRunning[target[t]]

\* The plugin's thread t was not in the loop gub_unref quit: either it was in none
\* yet, and g_main_loop_run sets the flag again, or the loop in the global was
\* another's.
QuitMissed(t) == t \in missed

\* Another thread, one that was missed, read the loop of t from the global, which is
\* shared and has no lock, and runs it too.
Revived(t) == \E g \in missed \ {t} : InsideLoop(g, target[t])

\* Whose loop gub_unref has quit does not run on while it is joined, except for
\* these two reasons (gub_main_loop_func, gub_unref).
QuitStands ==
    upc = "join" /\ RunsOn(mainThread) => QuitMissed(mainThread) \/ Revived(mainThread)

\* gub_unref waits for a thread that runs on for one of them.
UnrefHangs ==
    upc = "join" /\ RunsOn(mainThread) /\ (QuitMissed(mainThread) \/ Revived(mainThread))

\* gst_dvb_css_wc_stop, with the lock, waits for a thread that was not in its loop
\* yet when that was quit, and runs on.
StopHangs == lock # None /\ arg[lock] \in deaf /\ RunsOn(arg[lock])

\* A join of gub_unref ends, unless the very thread it waits for runs on for one of
\* the two reasons; one of gst_dvb_css_wc_stop ends and releases the lock, unless
\* that very server was quit before its thread was in the loop; and who waits for
\* the lock gets it, unless it is held for such a join.
JoinsEnd ==
    /\ upc = "join" ~> (upc = "idle" \/ UnrefHangs)
    /\ lock # None ~> (lock = None \/ StopHangs)
    /\ \A c \in Callers : cpc[c] = "ask" ~> (cpc[c] = "idle" \/ StopHangs)
=============================================================================
