---------------------------- MODULE GstPlayback ----------------------------
(***************************************************************************)
(* The GStreamer pipeline inside a GUBPipeline, as far as this code relies *)
(* on it (external: playbin3, appsrc, GstBus). Its state changes in its    *)
(* own threads after gst_element_set_state asked for it; what happens is   *)
(* posted on its bus. There is one at a time: setting the state to NULL,   *)
(* as close does, ends the one before for good.                            *)
(***************************************************************************)
EXTENDS Naturals, Sequences

CONSTANTS
    MaxFrames,      \* bound: frames a media has
    MaxReports,     \* bound: ends, errors and delays reported
    BusBound,       \* bound: messages on the bus
    None

ASSUME PlaybackAssumption ==
    MaxFrames \in Nat \ {0} /\ MaxReports \in Nat /\ BusBound \in Nat

VARIABLES
    media,      \* the pipeline that was set up last
    bus,        \* kinds of the messages posted and not dispatched
    reports     \* how many ends, errors and delays were posted

playbackVars == <<media, bus, reports>>

Reports == {"eos", "error", "qos"}

\* A pipeline just made: with a video sink named "sink", fed by an appsrc, or
\* neither.
Fresh(kind) ==
    [kind |-> kind,             \* "sink", "appsrc" or "none"
     gst |-> "NULL",            \* the state it is in
     goal |-> "NULL",           \* the state it was asked for
     begun |-> "no",            \* history: what first took it out of NULL
     answered |-> None,         \* the context given to its sink's query
     frame |-> 0,               \* the last frame its sink got, last-sample
     drained |-> FALSE,         \* whether the appsrc was told the end
     ended |-> FALSE,
     failed |-> FALSE,
     cropped |-> "no",          \* what its videocrop element cuts
     bases |-> 0,               \* history: how often its callbacks set its base time
     meddled |-> FALSE]         \* history: a callback of an earlier one set or marked it

\* gst_element_set_state to PAUSED or PLAYING; by says for whom.
SetState(m, s, by) ==
    [m EXCEPT !.goal = s, !.begun = IF @ = "no" THEN by ELSE @]

\* gst_element_set_state to NULL: everything stops, frames and position are gone;
\* what was set up stays.
SetNull(m) ==
    [Fresh(m.kind) EXCEPT !.begun = m.begun, !.cropped = m.cropped, !.bases = m.bases,
                          !.meddled = m.meddled]

\* A flushing seek: an end that was reached no longer holds. Only a pipeline that
\* is paused or playing can seek, and an appsrc that streams cannot.
Seek(m) == IF m.gst # "NULL" /\ m.kind # "appsrc" THEN [m EXCEPT !.ended = FALSE] ELSE m

\* A query of the position is answered.
PositionKnown(m) == m.gst # "NULL" /\ ~m.failed

PlaybackInit ==
    /\ media = Fresh("none")
    /\ bus = <<>>
    /\ reports = 0

-----------------------------------------------------------------------------
(* The threads of the pipeline.                                              *)

Posts(kind) == Len(bus) < BusBound /\ bus' = Append(bus, kind)

PostsReport(kind) ==
    /\ Posts(kind)
    /\ reports < MaxReports
    /\ reports' = reports + 1

\* The pipeline reaches PAUSED: its sink has asked for a graphic context, answered
\* as given, and has got a frame.
Preroll(context) ==
    /\ media.gst = "NULL"
    /\ media.goal # "NULL"
    /\ ~media.failed
    /\ Posts("state")
    /\ media' = [media EXCEPT !.gst = "PAUSED", !.answered = context,
                              !.frame = IF media.kind = "sink" THEN 1 ELSE 0]
    /\ UNCHANGED reports

\* From PAUSED to PLAYING.
Roll ==
    /\ media.gst = "PAUSED"
    /\ media.goal = "PLAYING"
    /\ media' = [media EXCEPT !.gst = "PLAYING"]
    /\ UNCHANGED <<bus, reports>>

\* From PLAYING to PAUSED.
Hold ==
    /\ media.gst = "PLAYING"
    /\ media.goal = "PAUSED"
    /\ Posts("state")
    /\ media' = [media EXCEPT !.gst = "PAUSED"]
    /\ UNCHANGED reports

Streaming == media.gst = "PLAYING" /\ ~media.ended /\ ~media.failed

Render ==
    /\ Streaming
    /\ media.kind = "sink"
    /\ media.frame < MaxFrames
    /\ media' = [media EXCEPT !.frame = @ + 1]
    /\ UNCHANGED <<bus, reports>>

\* The end: of the media, or of what the application pushed.
End ==
    /\ Streaming
    /\ media.kind = "appsrc" => media.drained
    /\ media' = [media EXCEPT !.ended = TRUE]
    /\ PostsReport("eos")

\* An error: no more frames, no position.
Fail ==
    /\ media.goal # "NULL"
    /\ ~media.failed
    /\ media' = [media EXCEPT !.failed = TRUE]
    /\ PostsReport("error")

\* A frame was late.
Delay ==
    /\ Streaming
    /\ media.kind = "sink"
    /\ PostsReport("qos")
    /\ UNCHANGED media
=============================================================================
