----------------------------- MODULE GubCapture -----------------------------
(***************************************************************************)
(* The script that records a texture into a file (GstUnityBridgeCapture.cs, *)
(* experimental). Only OnFinish is a handler of it.                        *)
(***************************************************************************)
EXTENDS GubScript

VARIABLE sized      \* m_width and m_height are those of the source

captureVars == <<sized>>

CaptureInit == sized = FALSE

\* A function of the script can be called: the main thread is not inside a setup.
Recording == component = "capture" /\ script = "live" /\ setup = None

Unaffected == UNCHANGED <<reports, graphicVars, loopThread, component, queued>>

-----------------------------------------------------------------------------

\* Start: the structure is created and, if there is a source and a file name, set
\* up and asked to play. No callback comes before that. The size is not noted.
StartCapture ==
    /\ component = "capture"
    /\ script = "new"
    /\ script' = "live"
    /\ \/ gub' = Created({"eos"}) /\ UNCHANGED <<loads, media>>
       \/ /\ loads < MaxLoads
          /\ loads' = loads + 1
          /\ gub' = [Created({"eos"}) EXCEPT !.pipeline = loads + 1, !.requested = TRUE]
          /\ media' = Fresh("appsrc")
    /\ UNCHANGED <<bus, freed, setup, owned, told, sized>>
    /\ Unaffected

\* Update for a source of another size, the first one included: what was set up is
\* closed,
UpdateResized ==
    /\ Recording
    /\ BeginsSetup(Encoding, gub.pipeline # 0)
    /\ UNCHANGED <<loads, freed, script, told, sized>>
    /\ Unaffected

\* it is set up anew, plays, and the image is pushed, which meets the request.
ResizeRuns ==
    /\ component = "capture"
    /\ Encodes
    /\ sized' = TRUE
    /\ UNCHANGED <<bus, freed, script, told>>
    /\ Unaffected

\* Update for a source of the size it had: the image is pushed.
UpdateCapture ==
    /\ Recording
    /\ sized
    /\ Becomes(ConsumeImage(Present))
    /\ UNCHANGED <<bus, loads, freed, setup, script, told, sized>>
    /\ Unaffected

\* The source changes its size.
Resize ==
    /\ Recording
    /\ sized
    /\ sized' = FALSE
    /\ UNCHANGED <<playbackVars, graphicVars, pipelineVars, scriptVars>>

\* Destroy: the end is sent down the pipeline, and waited for.
BeginDestroy ==
    /\ Recording
    /\ script' = "waiting"
    /\ media' = StopEncoding(media)
    /\ UNCHANGED <<bus, gub, loads, freed, setup, owned, told, sized>>
    /\ Unaffected

\* m_EOS was set: the structure is closed and freed.
EndDestroy ==
    /\ component = "capture"
    /\ script = "waiting"
    /\ told # <<>>
    /\ Closes
    /\ freed' = TRUE
    /\ script' = "gone"
    /\ UNCHANGED <<loads, setup, told, sized>>
    /\ Unaffected

\* OnFinish, in the thread of the main loop, sets m_EOS.
OnFinish ==
    /\ component = "capture"
    /\ HandlesReport
    /\ told' = IF msg.kind \in gub.handlers THEN Append(told, msg.kind) ELSE told
    /\ UNCHANGED <<component, script, queued, sized>>

CaptureNext ==
    \/ StartCapture \/ UpdateResized \/ ResizeRuns \/ UpdateCapture \/ Resize
    \/ BeginDestroy \/ EndDestroy \/ OnFinish
=============================================================================
