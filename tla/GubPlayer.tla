----------------------------- MODULE GubPlayer ------------------------------
(***************************************************************************)
(* A script of Unity with the pipeline it controls, the threads of         *)
(* GStreamer that run it, the thread of the main loop that delivers its    *)
(* messages, and Unity's graphic device.                                   *)
(***************************************************************************)
EXTENDS GubTexture, GubCapture

vars == <<playbackVars, graphicVars, pipelineVars, scriptVars, captureVars>>

Init ==
    /\ PlaybackInit
    /\ GraphicInit
    /\ PipelineInit
    /\ ScriptInit
    /\ CaptureInit

\* What message_received does without the script.
LoopThread == Dispatch \/ HandleState \/ Syncs \/ HandleFreed

Next ==
    \/ TextureNext /\ UNCHANGED captureVars
    \/ CaptureNext
    \/ LoopThread /\ UNCHANGED <<scriptVars, captureVars>>
    \/ PipelineRuns /\ UNCHANGED <<scriptVars, captureVars>>
    \/ GraphicNext /\ UNCHANGED <<playbackVars, pipelineVars, scriptVars, captureVars>>

Spec == Init /\ [][Next]_vars

\* The thread of the main loop runs, Unity executes events in every frame, and
\* Destroy looks for the end again and again.
Fairness ==
    /\ WF_vars(LoopThread /\ UNCHANGED <<scriptVars, captureVars>>)
    /\ WF_vars((Report \/ ProcessEvents) /\ UNCHANGED captureVars)
    /\ WF_vars(OnFinish \/ EndDestroy)

FairSpec == Spec /\ Fairness

-----------------------------------------------------------------------------
(* Properties. *)

\* Every variable keeps to its type.
TypeOK == GraphicTypeOK /\ PipelineTypeOK /\ ScriptTypeOK /\ sized \in BOOLEAN

\* What the structure points to is what was acquired and not released: no context or
\* sample is forgotten, nor one released twice, however grabs, copies, setups and
\* closes follow each other (gub_pipeline_grab_frame, _blit_image, _close).
NothingLeaks ==
    /\ owned.contexts = IF gub.context = None THEN 0 ELSE 1
    /\ owned.samples = IF gub.sample = 0 THEN 0 ELSE 1

\* A media that was not paused before it played renders in the context of Unity: it
\* starts only in a frame, after the context was made (the comment in
\* gub_pipeline_play).
RendersInUnitysContext ==
    media.gst # "NULL" /\ media.kind = "sink" /\ media.begun # "pause" =>
        media.answered = Provided(gub.context)

\* A pipeline has its base time set by its own callbacks at most once, however often it
\* is paused, and marked as set; and it is not marked before, or without need, unless
\* a callback of an earlier pipeline, which may go on while that is closed and another
\* one set up, has set or marked this one too (sync_video_position, the end of
\* gub_pipeline_setup_decoding_clock).
BaseTimeSetOnce ==
    /\ media.bases <= 1
    /\ media.bases = 1 => gub.synced \/ (mpc = "mark" /\ OfPresent)
    /\ gub.synced /\ setup = None /\ ~media.meddled => ~gub.based \/ media.bases = 1

\* What the bus carries: reports, and the changes of state, for which no script
\* listens.
Messages == Reports \cup {"state"}

\* The messages on their way: queued for the script, in the callback, on the bus.
InCallback == IF mpc \in CallbackSteps THEN <<msg.kind>> ELSE <<>>

OnTheirWay == IF freed THEN queued ELSE queued \o InCallback \o bus

\* The script as its application sees it.
Openness ==
    IF script \in {"live", "waiting"} THEN "open" ELSE IF script = "new" THEN "new" ELSE "gone"

Promise == INSTANCE MediaReports WITH
    Kinds <- Messages,
    Medias <- 1 .. MaxLoads,
    open <- Openness,
    media <- gub.pipeline,
    running <- media.goal # "NULL",
    listens <- gub.handlers,
    due <- OnTheirWay

\* Bus, callback and queue of events together keep what MediaReports promises, and no
\* more than that: what a player that was closed or set up again owes nobody hears.
KeepsPromise == Promise!Spec

\* What the next frame shows is cut as the setup asked (the tooltips of the cropping
\* parameters).
CropsAsAsked ==
    LET grab == Grabbed(Present)
    IN  Draws /\ grab.gub.sample # 0 /\ Copies(grab.gub.context) =>
            Cut(grab.gub.context, media) = gub.crop

\* An end that was reached is told, or the application stops, closes or plays on
\* meanwhile.
EndsAreTold ==
    media.ended ~> (~media.ended \/ \E i \in DOMAIN told : told[i] = "eos")
=============================================================================
