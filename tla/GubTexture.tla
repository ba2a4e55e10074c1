----------------------------- MODULE GubTexture -----------------------------
(***************************************************************************)
(* The script that plays media into a texture (GstUnityBridgeTexture.cs)   *)
(* and the queue by which the thread of the main loop hands it reports     *)
(* (EventProcessor.cs). All its functions run in Unity's main thread; what *)
(* OnStart, volume and bitrate do is left out.                             *)
(***************************************************************************)
EXTENDS GubScript

CONSTANT Loop       \* m_Loop

-----------------------------------------------------------------------------
(* Unity's main thread. *)

\* A function of the script can be called: it is initialised, and the main thread not
\* inside a setup.
Live == component = "texture" /\ script = "live" /\ setup = None

\* Initialize: the structure is created, with a handler for each kind of report.
Initialize ==
    /\ component = "texture"
    /\ script = "new"
    /\ script' = "live"
    /\ gub' = Created(Reports)
    /\ UNCHANGED <<playbackVars, graphicVars, loads, freed, setup, loopThread, owned>>
    /\ UNCHANGED <<component, queued, told>>

\* Setup closes what is loaded, or thought to play, and sets up anew.
Setup ==
    /\ Live
    /\ \E s \in Setups : BeginsSetup(s, gub.pipeline # 0 \/ gub.playing)
    /\ UNCHANGED <<reports, graphicVars, loads, freed, loopThread, scriptVars>>

\* The setup goes on in the plugin, and returns.
SetupRuns ==
    /\ component = "texture"
    /\ Launches \/ LaunchFails \/ EndsDecoding
    /\ UNCHANGED <<bus, reports, freed, loopThread, owned, scriptVars>>

\* Play, Pause: what they make of structure and media.
Commands(st) ==
    /\ Live
    /\ Becomes(st)
    /\ UNCHANGED <<bus, reports, graphicVars, loads, freed, setup, loopThread>>
    /\ UNCHANGED scriptVars

Stop ==
    /\ Live
    /\ Stops
    /\ UNCHANGED <<reports, graphicVars, pipelineVars, scriptVars>>

Close ==
    /\ Live
    /\ Closes
    /\ UNCHANGED <<reports, graphicVars, loads, freed, setup, loopThread, scriptVars>>

\* Destroy: the structure is closed and freed. The queue of events goes with the
\* object, or stays if the application keeps that.
Destroy ==
    /\ Live
    /\ Closes
    /\ freed' = TRUE
    /\ script' = "gone"
    /\ queued' \in {queued, <<>>}
    /\ UNCHANGED <<reports, graphicVars, loads, setup, loopThread, component, told>>

\* Unity draws: its device is there, except in the Editor, which announces none.
Draws == Live /\ (unity = "on" \/ (unity = "off" /\ "d3d9" \in build))

\* Update: a frame is grabbed; if there is one it is copied to the texture, or not,
\* while that has no native pointer yet, or released at once for want of caps.
Update ==
    /\ Draws
    /\ LET grab == Grabbed(Present)
       IN  \/ Becomes(grab)
           \/ grab.gub.sample # 0 /\ (Becomes(DropsSample(grab)) \/ Becomes(Blitted(grab)))
    /\ UNCHANGED <<bus, reports, graphicVars, loads, freed, setup, loopThread, scriptVars>>

\* Update of EventProcessor: all that was queued is executed, in order. A loop is
\* started again at the end of the media, unless that was destroyed.
ProcessEvents ==
    /\ component = "texture"
    /\ setup = None
    /\ queued # <<>>
    /\ told' = told \o queued
    /\ queued' = <<>>
    /\ media' = IF Loop /\ Live /\ \E i \in DOMAIN queued : queued[i] = "eos"
                THEN Seek(media) ELSE media
    /\ UNCHANGED <<bus, reports, graphicVars, pipelineVars, component, script>>

-----------------------------------------------------------------------------
(* The thread of the main loop. *)

\* Mutant: reports are queued in front.
HeardLast(q) == IF msg.kind \in gub.handlers THEN <<msg.kind>> \o q ELSE q

\* OnFinish, OnError, OnQos queue the report, if the structure still has handlers.
Heard(q) == IF msg.kind \in gub.handlers THEN Append(q, msg.kind) ELSE q

Report ==
    /\ component = "texture"
    /\ HandlesReport
    /\ queued' = Heard(queued)
    /\ UNCHANGED <<component, script, told>>

TextureNext ==
    \/ Initialize \/ Setup \/ SetupRuns \/ Stop \/ Close \/ Destroy \/ Update \/ ProcessEvents
    \/ Commands(Play(Present)) \/ Commands(Pause(Present))
    \/ Report
=============================================================================
