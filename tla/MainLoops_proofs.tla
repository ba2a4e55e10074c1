-------------------------- MODULE MainLoops_proofs ---------------------------
(***************************************************************************)
(* The safety of the main loops, for any number of threads, callers and    *)
(* references: the types, the loop that is held runs, none runs when it is *)
(* not held, and servers are freed in time.                                *)
(***************************************************************************)
EXTENDS MainLoops, TLAPS

\* While a reference is held, the thread the plugin started last is on its way into
\* a loop that nobody has quit: the loop it finds in the global was stored by one
\* of the plugin's threads, and gub_unref quits one only with the last reference.
HeldThread ==
    refCount > 0 =>
        /\ upc = "idle"
        /\ mainThread \in GubThreads
        /\ thread[mainThread] \in {"born", "stored", "enter", "wait", "iterate"}
        /\ thread[mainThread] = "stored" => mainLoop # None
        /\ thread[mainThread] \in {"enter", "wait", "iterate"} =>
              target[mainThread] \in GubThreads
        /\ thread[mainThread] \in {"wait", "iterate"} => isRunning[target[mainThread]]

\* The threads of the plugin that live are the one that is held or about to be
\* joined, and those gub_unref missed.
OnlyMainLives ==
    \A t \in GubThreads \ missed :
        thread[t] \notin {"unborn", "left"} =>
            t = mainThread /\ (refCount > 0 \/ upc = "join")

\* gub_unref joins a thread it has started.
JoinsThread == upc = "join" => mainThread \in GubThreads

\* Who owns the context is inside its loop.
OwnerIterates == \A t \in Threads : owner = t => thread[t] = "iterate"

\* A thread of the plugin is given a loop of the plugin, a server's thread its own:
\* the two kinds never run each other's.
TargetsApart ==
    /\ \A t \in GubThreads : target[t] \in GubThreads \cup {None}
    /\ \A s \in ExportThreads : target[s] \in {s, None}

\* Whom gub_unref joins without having missed it was in the loop that was quit.
JoinedWasInside ==
    upc = "join" /\ mainThread \notin missed =>
        thread[mainThread] \in {"wait", "iterate", "left"}

\* What the joins of gub_unref rest on.
JoinInv == TargetsApart /\ JoinedWasInside /\ QuitStands

\* The inductive invariant.
LoopInv ==
    /\ TypeOK
    /\ HeldThread
    /\ OnlyMainLives
    /\ JoinsThread
    /\ OwnerIterates
    /\ FreedServersLeft
    /\ GlobalServerLive
    /\ JoinInv

Assumptions == LoopAssumption /\ RefAssumption /\ CallerAssumption

-----------------------------------------------------------------------------
\* Initially there is no thread, no reference and no server.
LEMMA InitLoops == Assumptions /\ Init => LoopInv
<1> SUFFICES ASSUME Assumptions, Init PROVE LoopInv
  OBVIOUS
<1> USE DEF Assumptions, LoopAssumption, RefAssumption, CallerAssumption, Init, LoopInit,
            GubInit, ExportInit
<1>1. LoopTypeOK
  BY DEF LoopTypeOK, Steps
<1>2. GubTypeOK /\ ExportTypeOK
  BY DEF GubTypeOK, ExportTypeOK, MaybeServer
<1>3. HeldThread /\ OnlyMainLives /\ JoinsThread
  BY DEF HeldThread, OnlyMainLives, JoinsThread, Threads
<1>4. OwnerIterates /\ FreedServersLeft /\ GlobalServerLive
  BY DEF OwnerIterates, FreedServersLeft, GlobalServerLive
<1>5. JoinInv
  BY DEF JoinInv, TargetsApart, JoinedWasInside, QuitStands, Threads
<1> QED BY <1>1, <1>2, <1>3, <1>4, <1>5 DEF LoopInv, TypeOK

\* A thread that is started was none before.
LEMMA NewThreadIsUnborn ==
    ASSUME NEW S, Unborn(S) # {}
    PROVE  NewThread(S) \in S /\ thread[NewThread(S)] = "unborn"
<1>1. PICK t : t \in S /\ t \in Unborn(S)
  BY DEF Unborn
<1>2. NewThread(S) \in Unborn(S)
  BY <1>1 DEF NewThread
<1> QED BY <1>2 DEF Unborn

-----------------------------------------------------------------------------
(* The loops. *)

\* Running a loop: the thread goes on inside g_main_loop_run, or leaves it because
\* it was quit.
LEMMA RunLoopKeeps ==
    ASSUME Assumptions, LoopInv, NEW t \in Threads, RunLoop(t),
           UNCHANGED <<gubVars, exportVars>>
    PROVE  LoopInv'
<1> USE DEF Assumptions, LoopAssumption, LoopInv
<1>1. TypeOK'
  BY DEF TypeOK, LoopTypeOK, GubTypeOK, ExportTypeOK, RunLoop, EnterLoop, EnterNothing,
         TakeOver, LeaveLoop, Steps, gubVars, exportVars
<1>2. HeldThread'
  BY DEF TypeOK, LoopTypeOK, GubTypeOK, RunLoop, EnterLoop, EnterNothing, TakeOver,
         LeaveLoop, HeldThread, gubVars, Threads
<1>3. OnlyMainLives' /\ JoinsThread'
  BY DEF TypeOK, LoopTypeOK, RunLoop, EnterLoop, EnterNothing, TakeOver, LeaveLoop,
         OnlyMainLives, JoinsThread, gubVars, Threads
<1>4. OwnerIterates'
  BY DEF TypeOK, LoopTypeOK, RunLoop, EnterLoop, EnterNothing, TakeOver, LeaveLoop,
         OwnerIterates
<1>5. FreedServersLeft' /\ GlobalServerLive'
  BY DEF TypeOK, LoopTypeOK, RunLoop, EnterLoop, EnterNothing, TakeOver, LeaveLoop,
         FreedServersLeft, GlobalServerLive, exportVars, Threads
<1>6. JoinInv'
  <2>1. TargetsApart'
    BY DEF JoinInv, TargetsApart, RunLoop, EnterLoop, EnterNothing, TakeOver, LeaveLoop
  <2>2. JoinedWasInside'
    <3> SUFFICES ASSUME upc = "join", mainThread \notin missed
                 PROVE  thread'[mainThread] \in {"wait", "iterate", "left"}
      BY DEF JoinedWasInside, gubVars
    <3>1. thread[mainThread] \in {"wait", "iterate", "left"} /\ mainThread \in Threads
      BY DEF JoinInv, JoinedWasInside, JoinsThread, Threads
    <3>2. thread \in [Threads -> Steps]
      BY DEF TypeOK, LoopTypeOK
    <3>3. CASE EnterLoop(t) \/ EnterNothing(t)
      BY <3>1, <3>2, <3>3 DEF EnterLoop, EnterNothing
    <3>4. CASE TakeOver(t) \/ LeaveLoop(t)
      BY <3>1, <3>2, <3>4 DEF TakeOver, LeaveLoop
    <3> QED BY <3>3, <3>4 DEF RunLoop
  <2>3. QuitStands'
    <3> SUFFICES ASSUME upc = "join", RunsOn(mainThread)', ~QuitMissed(mainThread)
                 PROVE  Revived(mainThread)'
      BY DEF QuitStands, QuitMissed, gubVars
    <3> DEFINE l == target[mainThread]
    <3>1. /\ UNCHANGED <<target, mainThread, missed>>
          /\ mainThread \in GubThreads \ missed
          /\ l \in GubThreads
          /\ isRunning'[l] = TRUE
          /\ thread'[mainThread] \in {"wait", "iterate"}
      BY DEF RunLoop, EnterLoop, EnterNothing, TakeOver, LeaveLoop, JoinsThread, gubVars,
             QuitMissed, RunsOn, InsideLoop, JoinInv, TargetsApart, TypeOK, LoopTypeOK
    <3>2. thread[mainThread] \in {"wait", "iterate"}
      BY <3>1 DEF JoinInv, JoinedWasInside, RunLoop, EnterLoop, EnterNothing, TakeOver,
         LeaveLoop, TypeOK, LoopTypeOK, Threads
    <3>3. CASE isRunning[l]
      <4>1. Revived(mainThread)
        BY <3>1, <3>2, <3>3 DEF JoinInv, QuitStands, RunsOn, InsideLoop, QuitMissed
      <4>2. PICK g \in missed \ {mainThread} : InsideLoop(g, l)
        BY <4>1 DEF Revived
      <4>3. g \in GubThreads
        BY DEF TypeOK, GubTypeOK
      <4>4. thread'[g] \in {"wait", "iterate"}
        BY <3>3, <4>2, <4>3 DEF InsideLoop, RunLoop, EnterLoop, EnterNothing, TakeOver,
           LeaveLoop, TypeOK, LoopTypeOK, Threads
      <4> QED BY <3>1, <4>2, <4>4 DEF Revived, InsideLoop
    <3>4. CASE ~isRunning[l]
      <4>1. EnterLoop(t) /\ target[t] = l
        BY <3>1, <3>4 DEF RunLoop, EnterLoop, EnterNothing, TakeOver, LeaveLoop, TypeOK,
           LoopTypeOK, Threads
      <4>2. t # mainThread /\ thread'[t] \in {"wait", "iterate"}
        BY <3>2, <4>1 DEF EnterLoop, TypeOK, LoopTypeOK
      <4>3. t \in GubThreads
        BY <3>1, <4>1 DEF JoinInv, TargetsApart, Threads
      <4>4. t \in missed
        BY <4>1, <4>2, <4>3 DEF OnlyMainLives, EnterLoop
      <4> QED BY <3>1, <4>1, <4>2, <4>4 DEF Revived, InsideLoop
    <3> QED BY <3>3, <3>4
  <2> QED BY <2>1, <2>2, <2>3 DEF JoinInv
<1> QED BY <1>1, <1>2, <1>3, <1>4, <1>5, <1>6

\* Whatever changes only messages and the callback.
LEMMA MessagesKeep ==
    ASSUME Assumptions, LoopInv, posted' \in BOOLEAN, calling' \in BOOLEAN,
           UNCHANGED <<thread, target, isRunning, owner, gubVars, exportVars>>
    PROVE  LoopInv'
BY DEF LoopInv, TypeOK, LoopTypeOK, GubTypeOK, ExportTypeOK, HeldThread, OnlyMainLives,
       JoinsThread, OwnerIterates, FreedServersLeft, GlobalServerLive, JoinInv,
       TargetsApart, JoinedWasInside, QuitStands, QuitMissed, Revived, RunsOn, InsideLoop,
       gubVars, exportVars

-----------------------------------------------------------------------------
(* The plugin. *)

\* The thread stores its loop, or reads the global back.
LEMMA GubThreadKeeps ==
    ASSUME Assumptions, LoopInv, NEW t \in GubThreads, StoreLoop(t) \/ ReadLoop(t),
           UNCHANGED exportVars
    PROVE  LoopInv'
<1> USE DEF Assumptions, LoopAssumption, LoopInv, StoreLoop, ReadLoop
<1>1. TypeOK'
  BY DEF TypeOK, LoopTypeOK, GubTypeOK, ExportTypeOK, Steps, Threads, gubVars, exportVars
<1>2. HeldThread'
  BY DEF TypeOK, LoopTypeOK, GubTypeOK, HeldThread, gubVars, Threads
<1>3. OnlyMainLives' /\ JoinsThread' /\ OwnerIterates'
  BY DEF TypeOK, LoopTypeOK, OnlyMainLives, JoinsThread, OwnerIterates, gubVars, Threads
<1>4. FreedServersLeft' /\ GlobalServerLive'
  BY DEF TypeOK, LoopTypeOK, FreedServersLeft, GlobalServerLive, exportVars, Threads
<1>5. JoinInv'
  BY DEF JoinInv, TargetsApart, JoinedWasInside, QuitStands, QuitMissed, Revived, RunsOn,
     InsideLoop, JoinsThread, TypeOK, LoopTypeOK, GubTypeOK, gubVars, Threads
<1> QED BY <1>1, <1>2, <1>3, <1>4, <1>5

\* gub_ref: the first reference starts a thread.
LEMMA RefKeeps ==
    ASSUME Assumptions, LoopInv, Ref, UNCHANGED exportVars
    PROVE  LoopInv'
<1> USE DEF Assumptions, LoopAssumption, RefAssumption, LoopInv, Ref
<1>1. CASE refCount > 0 /\ UNCHANGED <<mainThread, thread>>
  BY <1>1 DEF TypeOK, LoopTypeOK, GubTypeOK, ExportTypeOK, HeldThread, OnlyMainLives,
     JoinsThread, OwnerIterates, FreedServersLeft, GlobalServerLive, JoinInv, TargetsApart,
     JoinedWasInside, QuitStands, exportVars
<1>2. CASE /\ refCount = 0
           /\ Spawn(GubThreads, "born")
           /\ mainThread' = NewThread(GubThreads)
  <2> DEFINE n == NewThread(GubThreads)
  <2>1. n \in GubThreads /\ thread[n] = "unborn"
    BY <1>2, NewThreadIsUnborn DEF Spawn
  <2>2. thread' = [thread EXCEPT ![n] = "born"]
    BY <1>2 DEF Spawn
  <2> HIDE DEF n
  <2>3. mainThread' = n
    BY <1>2 DEF n
  <2>4. TypeOK'
    BY <1>2, <2>1, <2>2, <2>3
    DEF TypeOK, LoopTypeOK, GubTypeOK, ExportTypeOK, Steps, Threads, exportVars
  <2>5. HeldThread' /\ OnlyMainLives' /\ JoinsThread'
    BY <1>2, <2>1, <2>2, <2>3
    DEF TypeOK, LoopTypeOK, GubTypeOK, HeldThread, OnlyMainLives, JoinsThread, Threads
  <2>6. OwnerIterates' /\ FreedServersLeft' /\ GlobalServerLive'
    BY <2>1, <2>2
    DEF TypeOK, LoopTypeOK, ExportTypeOK, OwnerIterates, FreedServersLeft,
        GlobalServerLive, Threads, exportVars
  <2>7. JoinInv'
    BY <2>1, <2>2 DEF JoinInv, TargetsApart, JoinedWasInside, QuitStands
  <2> QED BY <2>4, <2>5, <2>6, <2>7
<1> QED BY <1>1, <1>2

\* gub_unref: what is quit is the plugin's own loop, and only with the last
\* reference; the join ends when the thread has left.
LEMMA UnrefKeeps ==
    ASSUME Assumptions, LoopInv, Unref \/ UnrefLast \/ Joined, UNCHANGED exportVars
    PROVE  LoopInv'
<1> USE DEF Assumptions, LoopAssumption, RefAssumption, LoopInv, Unref, UnrefLast, Joined
<1>1. TypeOK'
  <2>1. isRunning' \in [Threads -> BOOLEAN]
    <3>1. CASE UNCHANGED isRunning
      BY <3>1 DEF TypeOK, LoopTypeOK
    <3>2. CASE isRunning' = [isRunning EXCEPT ![mainLoop] = FALSE]
      BY <3>2 DEF TypeOK, LoopTypeOK
    <3> QED BY <3>1, <3>2 DEF Quits, loopVars
  <2>2. LoopTypeOK'
    BY <2>1 DEF TypeOK, LoopTypeOK, loopVars
  <2>3. GubTypeOK'
    BY DEF TypeOK, GubTypeOK, HeldThread
  <2>4. ExportTypeOK'
    BY DEF TypeOK, ExportTypeOK, exportVars
  <2> QED BY <2>2, <2>3, <2>4 DEF TypeOK
<1>2. HeldThread'
  BY DEF TypeOK, GubTypeOK, HeldThread, JoinsThread, loopVars
<1>3. OnlyMainLives' /\ JoinsThread'
  BY DEF TypeOK, GubTypeOK, HeldThread, OnlyMainLives, JoinsThread, loopVars
<1>4. OwnerIterates' /\ FreedServersLeft' /\ GlobalServerLive'
  BY DEF OwnerIterates, FreedServersLeft, GlobalServerLive, loopVars, exportVars
<1>5. JoinInv'
  <2>1. TargetsApart' /\ JoinedWasInside'
    BY DEF JoinInv, TargetsApart, JoinedWasInside, InsideLoop, loopVars
  <2>2. QuitStands'
    <3>1. CASE upc' = "join"
      <4>1. UnrefLast /\ mainLoop # None /\ isRunning' = [isRunning EXCEPT ![mainLoop] = FALSE]
        BY <3>1 DEF Quits
      <4> QED BY <4>1 DEF QuitStands, QuitMissed, RunsOn, InsideLoop, TypeOK, LoopTypeOK,
                 GubTypeOK, Threads
    <3>2. CASE upc' # "join"
      BY <3>2 DEF QuitStands
    <3> QED BY <3>1, <3>2
  <2> QED BY <2>1, <2>2 DEF JoinInv
<1> QED BY <1>1, <1>2, <1>3, <1>4, <1>5

-----------------------------------------------------------------------------
(* The exported servers. *)

\* A server is started, with handles or as the global one.
LEMMA StartKeeps ==
    ASSUME Assumptions, LoopInv, NEW c \in Callers, StartHandle(c) \/ StartGlobal(c),
           UNCHANGED gubVars
    PROVE  LoopInv'
<1> USE DEF Assumptions, LoopAssumption, LoopInv
<1>1. CASE /\ Starts
           /\ \/ sServer' = NewThread(ExportThreads)
              \/ api = "handles" /\ sServer' = sServer
  <2> DEFINE n == NewThread(ExportThreads)
  <2>1. n \in ExportThreads /\ thread[n] = "unborn"
    BY <1>1, NewThreadIsUnborn DEF Starts, Spawn
  <2>2. /\ thread' = [thread EXCEPT ![n] = "enter"]
        /\ target' = [target EXCEPT ![n] = n]
        /\ server' = [server EXCEPT ![n] = "up"]
        /\ UNCHANGED <<isRunning, owner, posted, calling>>
    BY <1>1 DEF Starts, Spawn
  <2>3. /\ UNCHANGED <<api, lock, cpc, arg, deaf>>
        /\ sServer' = n \/ (api = "handles" /\ sServer' = sServer)
    BY <1>1 DEF StartHandle, StartGlobal
  <2> HIDE DEF n
  <2>4. TypeOK'
    BY <2>1, <2>2, <2>3
    DEF TypeOK, LoopTypeOK, GubTypeOK, ExportTypeOK, Steps, Threads, MaybeServer, gubVars
  <2>5. HeldThread' /\ OnlyMainLives' /\ JoinsThread'
    BY <2>1, <2>2
    DEF TypeOK, LoopTypeOK, HeldThread, OnlyMainLives, JoinsThread, Threads, gubVars
  <2>6. OwnerIterates' /\ FreedServersLeft' /\ GlobalServerLive'
    BY <2>1, <2>2, <2>3
    DEF TypeOK, LoopTypeOK, ExportTypeOK, OwnerIterates, FreedServersLeft,
        GlobalServerLive, Threads, MaybeServer
  <2>7. JoinInv'
    BY <2>1, <2>2 DEF JoinInv, TargetsApart, JoinedWasInside, QuitStands, QuitMissed, Revived,
       RunsOn, InsideLoop, JoinsThread, TypeOK, LoopTypeOK, GubTypeOK, Threads, gubVars
  <2> QED BY <2>4, <2>5, <2>6, <2>7
<1>2. CASE StartGlobal(c) /\ sServer' = None /\ UNCHANGED <<loopVars, server>>
  BY <1>2 DEF StartGlobal, TypeOK, LoopTypeOK, GubTypeOK, ExportTypeOK, HeldThread,
     OnlyMainLives, JoinsThread, OwnerIterates, FreedServersLeft, GlobalServerLive,
     JoinInv, TargetsApart, JoinedWasInside, QuitStands, QuitMissed, Revived, RunsOn,
     InsideLoop, MaybeServer, loopVars, gubVars
<1> QED BY <1>1, <1>2 DEF StartHandle, StartGlobal

\* Its loop is quit, and nobody but the caller goes on until it was joined.
LEMMA StopKeeps ==
    ASSUME Assumptions, LoopInv, NEW c \in Callers, StopHandle(c) \/ StopGlobal(c),
           UNCHANGED gubVars
    PROVE  LoopInv'
<1> USE DEF Assumptions, LoopAssumption, CallerAssumption, LoopInv
<1>1. PICK s \in ExportThreads : BeginsStop(c, s) /\ server[s] # "freed"
  BY DEF StopHandle, StopGlobal, GetsLock, GlobalServerLive, TypeOK, ExportTypeOK,
         MaybeServer
<1>2. UNCHANGED <<api, sServer>>
  BY DEF StopHandle, StopGlobal
<1>3. TypeOK'
  BY <1>1, <1>2 DEF TypeOK, LoopTypeOK, GubTypeOK, ExportTypeOK, BeginsStop, Quits,
     MaybeServer, Threads, gubVars
<1>4. HeldThread' /\ OnlyMainLives' /\ JoinsThread' /\ OwnerIterates'
  BY <1>1 DEF BeginsStop, Quits, HeldThread, OnlyMainLives, JoinsThread, OwnerIterates,
     TypeOK, LoopTypeOK, Threads, gubVars
<1>5. FreedServersLeft' /\ GlobalServerLive'
  BY <1>1, <1>2 DEF BeginsStop, FreedServersLeft, GlobalServerLive, TypeOK, ExportTypeOK
<1>6. JoinInv'
  BY <1>1 DEF BeginsStop, Quits, JoinInv, TargetsApart, JoinedWasInside, QuitStands,
     QuitMissed, Revived, RunsOn, InsideLoop, JoinsThread, TypeOK, LoopTypeOK, GubTypeOK,
     Threads, gubVars
<1> QED BY <1>3, <1>4, <1>5, <1>6

\* The join has returned: the thread had left its loop.
LEMMA EndStopKeeps ==
    ASSUME Assumptions, LoopInv, NEW c \in Callers, EndStopHandle(c) \/ EndStopGlobal(c),
           UNCHANGED gubVars
    PROVE  LoopInv'
<1> USE DEF Assumptions, LoopAssumption, LoopInv, EndStopHandle, EndStopGlobal
<1>1. TypeOK'
  BY DEF TypeOK, LoopTypeOK, GubTypeOK, ExportTypeOK, EndsStop, MaybeServer, Threads,
         loopVars, gubVars
<1>2. HeldThread' /\ OnlyMainLives' /\ JoinsThread' /\ OwnerIterates'
  BY DEF HeldThread, OnlyMainLives, JoinsThread, OwnerIterates, loopVars, gubVars
<1>3. FreedServersLeft'
  BY DEF EndsStop, FreedServersLeft, OwnerIterates, TypeOK, ExportTypeOK, MaybeServer,
         Threads, loopVars
<1>4. GlobalServerLive'
  BY DEF GlobalServerLive
<1>5. JoinInv'
  BY DEF JoinInv, TargetsApart, JoinedWasInside, QuitStands, QuitMissed, Revived, RunsOn,
     InsideLoop, loopVars, gubVars
<1> QED BY <1>1, <1>2, <1>3, <1>4, <1>5

\* Asking for the time changes no server.
LEMMA GetTimeKeeps ==
    ASSUME Assumptions, LoopInv, NEW c \in Callers,
           GetTimeHandle(c) \/ GetTimeGlobal(c) \/ Answers(c), UNCHANGED gubVars
    PROVE  LoopInv'
BY DEF GetTimeHandle, GetTimeGlobal, Asks, Answers, LoopInv, TypeOK, LoopTypeOK,
       GubTypeOK, ExportTypeOK, HeldThread, OnlyMainLives, JoinsThread, OwnerIterates,
       FreedServersLeft, GlobalServerLive, JoinInv, TargetsApart, JoinedWasInside,
       QuitStands, QuitMissed, Revived, RunsOn, InsideLoop, MaybeServer, loopVars, gubVars

-----------------------------------------------------------------------------
\* Every step keeps the invariant.
LEMMA LoopsStep == Assumptions /\ LoopInv /\ [Next]_vars => LoopInv'
<1> SUFFICES ASSUME Assumptions, LoopInv, [Next]_vars PROVE LoopInv'
  OBVIOUS
<1>1. ASSUME NEW t \in Threads, RunLoop(t), UNCHANGED <<gubVars, exportVars>>
      PROVE  LoopInv'
  BY <1>1, RunLoopKeeps
<1>2. CASE (Dispatch \/ CallbackReturns) /\ UNCHANGED <<gubVars, exportVars>>
  <2>1. posted' \in BOOLEAN /\ calling' \in BOOLEAN
    BY <1>2 DEF Dispatch, CallbackReturns, LoopInv, TypeOK, LoopTypeOK
  <2> QED BY <1>2, <2>1, MessagesKeep DEF Dispatch, CallbackReturns
<1>3. ASSUME NEW t \in GubThreads, StoreLoop(t) \/ ReadLoop(t), UNCHANGED exportVars
      PROVE  LoopInv'
  BY <1>3, GubThreadKeeps
<1>4. CASE Ref /\ UNCHANGED exportVars
  BY <1>4, RefKeeps
<1>5. CASE (Unref \/ UnrefLast \/ Joined) /\ UNCHANGED exportVars
  BY <1>5, UnrefKeeps
<1>6. CASE Post /\ UNCHANGED exportVars
  <2>1. posted' \in BOOLEAN /\ calling' \in BOOLEAN
    BY <1>6 DEF Post, LoopInv, TypeOK, LoopTypeOK
  <2> QED BY <1>6, <2>1, MessagesKeep DEF Post
<1>7. ASSUME NEW c \in Callers, ExportCall(c) \/ ExportReturn(c), UNCHANGED gubVars
      PROVE  LoopInv'
  BY <1>7, StartKeeps, StopKeeps, EndStopKeeps, GetTimeKeeps DEF ExportCall, ExportReturn
<1>8. CASE UNCHANGED vars
  <2>1. posted' \in BOOLEAN /\ calling' \in BOOLEAN
    BY <1>8 DEF vars, loopVars, LoopInv, TypeOK, LoopTypeOK
  <2> QED BY <1>8, <2>1, MessagesKeep DEF vars, loopVars
<1> QED BY <1>1, <1>2, <1>3, <1>4, <1>5, <1>6, <1>7, <1>8
        DEF Next, LoopNext, GubNext, ExportNext

\* The invariant holds in every behaviour.
LEMMA LoopsInvariant == Spec => []LoopInv
<1>1. Assumptions
  BY LoopAssumption, RefAssumption, CallerAssumption DEF Assumptions
<1> QED BY <1>1, InitLoops, LoopsStep, PTL DEF Spec

\* Every variable keeps to its type.
THEOREM LoopTypes == Spec => []TypeOK
<1>1. LoopInv => TypeOK
  BY DEF LoopInv
<1> QED BY <1>1, LoopsInvariant, PTL

\* While somebody holds a reference the thread that delivers messages lives and has
\* not left its loop, although it reads the loop from a global that a thread missed
\* before may have overwritten (gub_ref, gub_unref, gub_main_loop_func).
THEOREM HeldRuns == Spec => []HeldLoopRuns
<1>1. Assumptions
  BY LoopAssumption, RefAssumption, CallerAssumption DEF Assumptions
<1>2. Assumptions /\ LoopInv => HeldLoopRuns
  BY DEF Assumptions, LoopAssumption, LoopInv, HeldThread, HeldLoopRuns, Threads
<1> QED BY <1>1, <1>2, LoopsInvariant, PTL

\* Without references, and outside gub_unref, no thread of the plugin runs but those
\* gub_unref missed because they were not in their loop yet.
THEOREM UnheldQuiet == Spec => []QuietWhenUnheld
<1>1. LoopInv => QuietWhenUnheld
  BY DEF LoopInv, OnlyMainLives, QuietWhenUnheld
<1> QED BY <1>1, LoopsInvariant, PTL

\* Whose loop the last gub_unref has quit does not run on while it is joined, unless
\* it was not in that loop, or a thread missed before came to run it too: for any
\* number of threads and however they read the global (gub_main_loop_func, gub_unref).
THEOREM QuitLoopsStand == Spec => []QuitStands
<1>1. LoopInv => QuitStands
  BY DEF LoopInv, JoinInv
<1> QED BY <1>1, LoopsInvariant, PTL

\* A server is freed after its thread has left the loop, whoever stops it and
\* whoever dispatches (gst_dvb_css_wc_stop of both files).
THEOREM FreedLeft == Spec => []FreedServersLeft
<1>1. LoopInv => FreedServersLeft
  BY DEF LoopInv
<1> QED BY <1>1, LoopsInvariant, PTL

\* Whoever gets the lock of export.c finds a live server in the global, or none.
THEOREM GlobalLive == Spec => []GlobalServerLive
<1>1. LoopInv => GlobalServerLive
  BY DEF LoopInv
<1> QED BY <1>1, LoopsInvariant, PTL
=============================================================================
