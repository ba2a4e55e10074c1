---------------------------- MODULE ServerExport ----------------------------
(***************************************************************************)
(* The exported Wall Clock servers. Two files offer the same functions:    *)
(* export/server-export.c, whose servers are handles the caller keeps, and *)
(* export.c, which keeps one server in a global variable. Both guard every *)
(* function with one lock, and run a main loop in a thread per server. A   *)
(* server is named like its thread.                                        *)
(***************************************************************************)
EXTENDS GMainLoop

CONSTANT Callers    \* threads of the application that call the functions

ASSUME CallerAssumption == None \notin Callers

VARIABLES
    api,        \* the file the library was built from: "handles" or "global"
    server,     \* of each server: "none", "up", "joined" or "freed"
    sServer,    \* the global server of export.c
    lock,       \* the caller that holds the lock
    cpc,        \* of each caller: "idle", "ask" for the lock in get_time, "join"
    arg,        \* of each caller: the server its call is about
    deaf        \* history: servers that were not in their loop when it was quit

exportVars == <<api, server, sServer, lock, cpc, arg, deaf>>

MaybeServer == ExportThreads \cup {None}

ExportTypeOK ==
    /\ api \in {"handles", "global"}
    /\ server \in [ExportThreads -> {"none", "up", "joined", "freed"}]
    /\ sServer \in MaybeServer
    /\ lock \in Callers \cup {None}
    /\ cpc \in [Callers -> {"idle", "ask", "join"}]
    /\ arg \in [Callers -> MaybeServer]
    /\ deaf \in SUBSET ExportThreads

ExportInit ==
    /\ api \in {"handles", "global"}
    /\ server = [s \in ExportThreads |-> "none"]
    /\ sServer = None
    /\ lock = None
    /\ cpc = [c \in Callers |-> "idle"]
    /\ arg = [c \in Callers |-> None]
    /\ deaf = {}

-----------------------------------------------------------------------------
(* What both files do under the lock. Nothing in it blocks but the join.     *)

\* The function begins, and nobody has the lock.
GetsLock(c) == cpc[c] = "idle" /\ lock = None

\* The server's thread runs g_main_loop_run on the server's loop.
Starts ==
    /\ Spawn(ExportThreads, "enter")
    /\ target' = [target EXCEPT ![NewThread(ExportThreads)] = NewThread(ExportThreads)]
    /\ server' = [server EXCEPT ![NewThread(ExportThreads)] = "up"]
    /\ UNCHANGED <<isRunning, owner, posted, calling>>

\* The loop is quit and the thread about to be joined, with the lock held.
BeginsStop(c, s) ==
    /\ isRunning' = Quits(s)
    /\ deaf' = IF InsideLoop(s, s) THEN deaf ELSE deaf \cup {s}
    /\ lock' = c
    /\ cpc' = [cpc EXCEPT ![c] = "join"]
    /\ arg' = [arg EXCEPT ![c] = s]
    /\ server' = [server EXCEPT ![s] = "joined"]
    /\ UNCHANGED <<thread, target, owner, posted, calling>>

\* Mutant: the structure is freed without a join.
EndsStopEarly(c) ==
    /\ cpc[c] = "join"
    /\ server' = [server EXCEPT ![arg[c]] = "freed"]
    /\ lock' = None
    /\ cpc' = [cpc EXCEPT ![c] = "idle"]
    /\ arg' = [arg EXCEPT ![c] = None]

\* The join returns: clock and server are released, the structure is freed, the
\* lock is released.
EndsStop(c) ==
    /\ cpc[c] = "join"
    /\ thread[arg[c]] = "left"
    /\ server' = [server EXCEPT ![arg[c]] = "freed"]
    /\ lock' = None
    /\ cpc' = [cpc EXCEPT ![c] = "idle"]
    /\ arg' = [arg EXCEPT ![c] = None]

\* A call of get_time waits for the lock; s is the handle it was given, if any.
Asks(c, s) ==
    /\ cpc[c] = "idle"
    /\ cpc' = [cpc EXCEPT ![c] = "ask"]
    /\ arg' = [arg EXCEPT ![c] = s]
    /\ UNCHANGED <<loopVars, api, server, sServer, lock, deaf>>

\* It has the lock, reads the clock of that server, or of the global one.
Answers(c) ==
    /\ cpc[c] = "ask"
    /\ lock = None
    /\ cpc' = [cpc EXCEPT ![c] = "idle"]
    /\ arg' = [arg EXCEPT ![c] = None]
    /\ UNCHANGED <<loopVars, api, server, sServer, lock, deaf>>

-----------------------------------------------------------------------------
(* export/server-export.c. A handle is used by whoever has it and not after  *)
(* it was stopped: the caller's side of the interface.                       *)

\* No call about s is under way.
Unused(s) == \A c \in Callers : arg[c] # s

\* gst_dvb_css_wc_start. When the server cannot be made, server_free drops what
\* there is of it: for the caller nothing has changed, and this is no step. (It drops
\* the GMainLoop with gst_object_unref, which is undefined for it: left out.)
StartHandle(c) ==
    /\ api = "handles"
    /\ GetsLock(c)
    /\ Starts
    /\ UNCHANGED <<api, sServer, lock, cpc, arg, deaf>>

\* gst_dvb_css_wc_stop, up to the join.
StopHandle(c) ==
    /\ api = "handles"
    /\ GetsLock(c)
    /\ \E s \in ExportThreads : server[s] = "up" /\ Unused(s) /\ BeginsStop(c, s)
    /\ UNCHANGED <<api, sServer>>

EndStopHandle(c) ==
    /\ api = "handles"
    /\ EndsStop(c)
    /\ UNCHANGED <<loopVars, api, sServer, deaf>>

GetTimeHandle(c) ==
    /\ api = "handles"
    /\ \E s \in ExportThreads : server[s] = "up" /\ Asks(c, s)

-----------------------------------------------------------------------------
(* export.c. *)

\* gst_dvb_css_wc_start: the global is overwritten, and is NULL if the server
\* could not be made.
StartGlobal(c) ==
    /\ api = "global"
    /\ GetsLock(c)
    /\ \/ Starts /\ sServer' = NewThread(ExportThreads)
       \/ /\ sServer' = None
          /\ UNCHANGED <<loopVars, server>>
    /\ UNCHANGED <<api, lock, cpc, arg, deaf>>

\* gst_dvb_css_wc_stop, up to the join; without a server it returns.
StopGlobal(c) ==
    /\ api = "global"
    /\ GetsLock(c)
    /\ sServer # None
    /\ BeginsStop(c, sServer)
    /\ UNCHANGED <<api, sServer>>

\* Mutant: the global still points to the server that was freed.
EndStopGlobalKeeps(c) ==
    /\ api = "global"
    /\ EndsStop(c)
    /\ UNCHANGED <<loopVars, api, sServer, deaf>>

EndStopGlobal(c) ==
    /\ api = "global"
    /\ EndsStop(c)
    /\ sServer' = None
    /\ UNCHANGED <<loopVars, api, deaf>>

GetTimeGlobal(c) == api = "global" /\ Asks(c, None)

-----------------------------------------------------------------------------

ExportCall(c) ==
    \/ StartHandle(c) \/ StopHandle(c) \/ GetTimeHandle(c)
    \/ StartGlobal(c) \/ StopGlobal(c) \/ GetTimeGlobal(c)

ExportReturn(c) == EndStopHandle(c) \/ EndStopGlobal(c) \/ Answers(c)

ExportNext == \E c \in Callers : ExportCall(c) \/ ExportReturn(c)
=============================================================================
