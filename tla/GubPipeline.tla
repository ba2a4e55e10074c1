---------------------------- MODULE GubPipeline ----------------------------
(***************************************************************************)
(* A GUBPipeline (gub_pipeline.c): the structure the scripts of Unity hold *)
(* a pointer to. The functions are called by Unity's main thread, which    *)
(* sets the structure up and zeroes it; message_received is called by the  *)
(* thread of the main loop. Neither takes a lock, so a setup, which waits  *)
(* for a clock, and a callback are split into the steps between which the  *)
(* other thread can come. Pipelines set up are numbered.                   *)
(***************************************************************************)
EXTENDS GubGraphics

CONSTANTS
    MaxLoads,       \* bound: pipelines set up one after the other
    Setups          \* what they are set up with, see SetupAssumption

ASSUME SetupAssumption ==
    /\ MaxLoads \in Nat
    /\ Setups \subseteq [crop : Crops, clock : BOOLEAN, based : BOOLEAN]

VARIABLES
    gub,        \* the structure
    loads,      \* how many pipelines were set up
    freed,      \* the structure was freed
    setup,      \* the setup Unity's main thread is in, None if it is in none
    mpc,        \* the callback: "idle", one of CallbackSteps, or "crashed"
    msg,        \* the message it is about
    owned       \* history: contexts and samples acquired and not released

pipelineVars == <<gub, loads, freed, setup, mpc, msg, owned>>

\* What a recorder sets up has nothing to crop, no clock and no base time.
Encoding == [crop |-> "no", clock |-> FALSE, based |-> FALSE]

\* message_received about to: look at the kind, at synced, compare the clock with the
\* base time, seek, ask for the position, set the base time, mark it as set.
CallbackSteps == {"handle", "sync", "compare", "seek", "position", "set", "mark"}

\* memset(pipeline, 0, sizeof(GUBPipeline)).
Zeroed ==
    [pipeline |-> 0, context |-> None, sample |-> 0, playing |-> FALSE,
     requested |-> FALSE, handlers |-> {}, crop |-> "no", cropBlit |-> FALSE,
     clock |-> FALSE, based |-> FALSE, synced |-> FALSE]

\* gub_pipeline_create, with handlers for some kinds of reports.
Created(kinds) == [Zeroed EXCEPT !.handlers = kinds]

Contexts == [crop : Crops, pipe : 0 .. MaxLoads \cup {None}, setup : BOOLEAN]

ASSUME ContextAssumption == None \notin Contexts /\ None \notin Setups \cup {Encoding}

\* What the structure may be, and the pipeline in it.
Gubs ==
    [pipeline : 0 .. MaxLoads, context : Contexts \cup {None}, sample : 0 .. MaxFrames,
     playing : BOOLEAN, requested : BOOLEAN, handlers : SUBSET Reports,
     crop : {"no", "part"}, cropBlit : BOOLEAN, clock : BOOLEAN, based : BOOLEAN,
     synced : BOOLEAN]

Playbacks ==
    [kind : {"sink", "appsrc", "none"}, gst : {"NULL", "PAUSED", "PLAYING"},
     goal : {"NULL", "PAUSED", "PLAYING"}, begun : {"no", "play", "pause", "frame"},
     answered : Contexts \cup {None}, frame : 0 .. MaxFrames, drained : BOOLEAN,
     ended : BOOLEAN, failed : BOOLEAN, cropped : Crops, bases : Nat,
     meddled : BOOLEAN]

PipelineTypeOK ==
    /\ gub \in Gubs
    /\ media \in Playbacks
    /\ bus \in Seq(Reports \cup {"state"})
    /\ reports \in 0 .. MaxReports
    /\ loads \in 0 .. MaxLoads
    /\ freed \in BOOLEAN
    /\ setup \in Setups \cup {Encoding, None}
    /\ mpc \in CallbackSteps \cup {"idle", "crashed"}
    /\ msg \in [kind : Reports \cup {"state", "none"}, load : 0 .. MaxLoads]
    /\ owned \in [contexts : Nat, samples : Nat]

PipelineInit ==
    /\ gub = Zeroed
    /\ loads = 0
    /\ freed = FALSE
    /\ setup = None
    /\ mpc = "idle"
    /\ msg = [kind |-> "none", load |-> 0]
    /\ owned = [contexts |-> 0, samples |-> 0]

-----------------------------------------------------------------------------
(* Unity's main thread. Operators give what a function makes of st, which is *)
(* the structure, the media in it, and what is owned.                        *)

Present == [gub |-> gub, media |-> media, owned |-> owned]

Becomes(st) == gub' = st.gub /\ media' = st.media /\ owned' = st.owned

\* Mutant: the pipeline is started at once.
PlayAtOnce(st) ==
    [st EXCEPT !.gub.requested = TRUE, !.gub.playing = TRUE,
               !.media = IF st.gub.pipeline = 0 THEN @ ELSE SetState(@, "PLAYING", "play")]

\* gub_pipeline_play only records the wish.
Play(st) == [st EXCEPT !.gub.requested = TRUE]

\* gub_pipeline_pause of a pipeline that is set up.
Pause(st) ==
    IF st.gub.pipeline = 0 THEN st
    ELSE [st EXCEPT !.gub.requested = FALSE, !.gub.playing = FALSE,
                    !.media = SetState(@, "PAUSED", "pause")]

\* What closing releases: the context, the pipeline's own state, the sample.
Released(g, o) ==
    [contexts |-> DestroyContext(g.context, o.contexts),
     samples |-> IF g.sample = 0 THEN o.samples ELSE o.samples - 1]

\* gub_pipeline_close: the structure is zeroed, with the handlers it was made with.
Closes ==
    /\ Becomes([gub |-> Zeroed, media |-> Fresh("none"), owned |-> Released(gub, owned)])
    /\ bus' = <<>>

\* gub_pipeline_stop: the structure stays as it is, "playing" included.
Stops ==
    /\ media' = IF gub.pipeline = 0 THEN media ELSE SetNull(media)
    /\ bus' = IF gub.pipeline = 0 THEN bus ELSE <<>>

\* The request to play is met: also of a pipeline that is not set up, then in vain.
MeetsRequest(st) ==
    IF st.gub.requested /\ ~st.gub.playing
    THEN [st EXCEPT !.gub.playing = TRUE,
                    !.media = IF st.gub.pipeline = 0 THEN @ ELSE SetState(@, "PLAYING", "frame")]
    ELSE st

-----------------------------------------------------------------------------
(* Setting up. The pipeline is in the structure long before the setup ends.  *)

\* A setup s begins: what was there is closed, if the caller finds there is.
BeginsSetup(s, closes) ==
    /\ loads < MaxLoads
    /\ setup' = s
    /\ IF closes THEN Closes ELSE UNCHANGED <<gub, media, owned, bus>>

\* Mutant: a crop that leaves nothing is taken as it is.
DecodingAnyCrop ==
    [gub EXCEPT !.pipeline = loads + 1,
                !.cropBlit = @ \/ CropsInCopy(Assumed),
                !.crop = setup.crop,
                !.clock = @ \/ setup.clock]

\* gub_pipeline_setup_decoding_clock up to the wait for the clock.
Decoding ==
    [gub EXCEPT !.pipeline = loads + 1,
                !.cropBlit = @ \/ CropsInCopy(Assumed),
                !.crop = IF setup.crop = "all" THEN @ ELSE setup.crop,
                !.clock = @ \/ setup.clock]

Launches ==
    /\ setup # None
    /\ gub.pipeline = 0
    /\ loads' = loads + 1
    /\ backend' = Assumed
    /\ gub' = Decoding
    /\ media' = Fresh(IF Assumed = None THEN "none" ELSE "sink")
    /\ UNCHANGED <<build, device, unity, setup>>

\* GStreamer makes no pipeline of the description, and the setup returns.
LaunchFails ==
    /\ setup # None
    /\ gub.pipeline = 0
    /\ setup' = None
    /\ UNCHANGED <<graphicVars, gub, media, loads>>

\* The wait for the clock is over: the base time, and the mark that none is to be set,
\* come last.
EndsDecoding ==
    /\ setup # None
    /\ gub.pipeline # 0
    /\ gub' = [gub EXCEPT !.based = setup.based, !.synced = ~setup.based]
    /\ setup' = None
    /\ UNCHANGED <<graphicVars, media, loads>>

\* gub_pipeline_consume_image: the request to play is met, the image pushed.
ConsumeImage(st) == MeetsRequest(st)

\* gub_pipeline_stop_encoding.
StopEncoding(m) == [m EXCEPT !.drained = m.kind = "appsrc"]

\* gub_pipeline_setup_encoding once closed, a request to play, and the first image:
\* clock, base time and mark stay as they are.
Encodes ==
    /\ setup # None
    /\ loads' = loads + 1
    /\ LET anew == [gub EXCEPT !.pipeline = loads + 1, !.requested = TRUE]
       IN  Becomes(ConsumeImage([gub |-> anew, media |-> Fresh("appsrc"), owned |-> owned]))
    /\ setup' = None

-----------------------------------------------------------------------------
(* Frames (gub_pipeline_grab_frame, gub_pipeline_blit_image).                *)

\* A context is made if there is none, and the backend can.
MakesContext(st) ==
    LET made == CreateContext(st.gub.pipeline, st.gub.crop)
    IN  IF st.gub.context # None \/ made = None THEN st
        ELSE [st EXCEPT !.gub.context = made, !.owned.contexts = @ + 1]

\* Mutant: the sample of the frame before is forgotten, not released.
ForgetsSample(st) == [st EXCEPT !.gub.sample = 0]

\* The sample that is held is released.
DropsSample(st) ==
    IF st.gub.sample = 0 THEN st
    ELSE [st EXCEPT !.gub.sample = 0, !.owned.samples = @ - 1]

\* The last sample of the sink, if it has one, is taken.
TakesSample(st) ==
    IF st.media.frame = 0 THEN st
    ELSE [st EXCEPT !.gub.sample = st.media.frame, !.owned.samples = @ + 1]

\* gub_pipeline_grab_frame.
Grabbed(st) == TakesSample(DropsSample(MeetsRequest(MakesContext(st))))

\* gub_blit_image.
Copied(st) ==
    IF ~Copies(st.gub.context) THEN st
    ELSE [st EXCEPT !.gub.context = AfterCopy(@),
                    !.media = CropsElement(st.gub.context, st.gub.pipeline, @)]

\* gub_pipeline_blit_image of a frame that was grabbed.
Blitted(st) == DropsSample(Copied(st))

-----------------------------------------------------------------------------
(* The thread of the main loop. *)

\* A message is dispatched.
Dispatch ==
    /\ mpc = "idle"
    /\ bus # <<>>
    /\ mpc' = "handle"
    /\ msg' = [kind |-> Head(bus), load |-> gub.pipeline]
    /\ bus' = Tail(bus)
    /\ UNCHANGED <<media, reports, graphicVars, gub, loads, freed, setup, owned>>

\* The callback is at step s, and the structure still there.
CallbackAt(s) == mpc = s /\ ~freed

CallbackGoes(s) == mpc' = s /\ UNCHANGED msg

CallbackEnds ==
    /\ mpc' = "idle"
    /\ msg' = [kind |-> "none", load |-> 0]

CallbackLeaves == UNCHANGED <<bus, reports, graphicVars, loads, freed, setup, owned>>

\* What the callback of a report leaves alone, whatever the handler does.
HandlesReport ==
    /\ CallbackAt("handle")
    /\ msg.kind \in Reports
    /\ CallbackEnds
    /\ UNCHANGED <<gub, media>>
    /\ CallbackLeaves

\* The message is of the pipeline that is set up.
OfPresent == msg.load = gub.pipeline

\* A state message: it is passed over if it is of another pipeline.
HandleState ==
    /\ CallbackAt("handle")
    /\ msg.kind = "state"
    /\ \/ OfPresent /\ CallbackGoes("sync")
       \/ ~OfPresent /\ CallbackEnds
    /\ UNCHANGED <<gub, media>>
    /\ CallbackLeaves

\* sync_video_position, if the base time was not set before.
SyncBegins ==
    /\ CallbackAt("sync")
    /\ \/ gub.synced /\ CallbackEnds
       \/ ~gub.synced /\ CallbackGoes("compare")
    /\ UNCHANGED <<gub, media>>
    /\ CallbackLeaves

\* The network clock is behind the base time, if that is not zero, or it is not. The
\* time of a clock that is missing reads "none", and wraps to half a second with the
\* delay added: that too may be behind or not.
SyncCompares ==
    /\ CallbackAt("compare")
    /\ \/ gub.based /\ CallbackGoes("set")
       \/ CallbackGoes("seek")
    /\ UNCHANGED <<gub, media>>
    /\ CallbackLeaves

\* It seeks, and enters the loop that asks for the position.
SyncSeek ==
    /\ CallbackAt("seek")
    /\ media' = Seek(media)
    /\ CallbackGoes("position")
    /\ UNCHANGED gub
    /\ CallbackLeaves

\* The loop ends once the position is known, of the pipeline that is there by now.
SyncPosition ==
    /\ CallbackAt("position")
    /\ gub.pipeline # 0
    /\ PositionKnown(media)
    /\ CallbackGoes("set")
    /\ UNCHANGED <<gub, media>>
    /\ CallbackLeaves

\* What a callback of an earlier pipeline did to the one that is set up by now.
Meddled == IF gub.pipeline = 0 THEN media ELSE [media EXCEPT !.meddled = TRUE]

\* Mutant: the callback ends without the mark.
SyncSetsUnmarked ==
    /\ CallbackAt("set")
    /\ media' = IF OfPresent THEN [media EXCEPT !.bases = @ + 1] ELSE Meddled
    /\ CallbackEnds
    /\ UNCHANGED gub
    /\ CallbackLeaves

\* gst_element_set_base_time, with what it was set to forgotten.
SyncSets ==
    /\ CallbackAt("set")
    /\ media' = IF OfPresent THEN [media EXCEPT !.bases = @ + 1] ELSE Meddled
    /\ CallbackGoes("mark")
    /\ UNCHANGED gub
    /\ CallbackLeaves

\* The structure is marked, whatever pipeline is in it by now.
SyncMarks ==
    /\ CallbackAt("mark")
    /\ gub' = [gub EXCEPT !.synced = TRUE]
    /\ media' = IF OfPresent THEN media ELSE Meddled
    /\ CallbackEnds
    /\ CallbackLeaves

Syncs == SyncBegins \/ SyncCompares \/ SyncSeek \/ SyncPosition \/ SyncSets \/ SyncMarks

\* The structure was freed under the callback: whatever it reads, it returns having
\* done nothing, or the thread is lost.
HandleFreed ==
    /\ mpc \in CallbackSteps
    /\ freed
    /\ \/ CallbackEnds
       \/ mpc' = "crashed" /\ UNCHANGED msg
    /\ UNCHANGED <<gub, media>>
    /\ CallbackLeaves

-----------------------------------------------------------------------------
(* The threads of the pipeline: the probe answers with the context that is   *)
(* there when the sink asks.                                                 *)

PipelineRuns ==
    /\ \/ Preroll(IF media.kind = "sink" THEN Provided(gub.context) ELSE None)
       \/ Roll \/ Hold \/ Render \/ End \/ Fail \/ Delay
    /\ UNCHANGED <<graphicVars, pipelineVars>>
=============================================================================
