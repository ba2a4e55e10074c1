-------------------------- MODULE GubPlayer_proofs ---------------------------
(***************************************************************************)
(* The safety of a player or a recorder, for every build, any number of    *)
(* pipelines, frames and reports: types, what is released, the context a   *)
(* media renders in, and its base time.                                    *)
(***************************************************************************)
EXTENDS GubPlayer, TLAPS

\* Before the script begins there is nothing.
Untouched ==
    script = "new" =>
        /\ gub = Zeroed
        /\ media = Fresh("none")
        /\ bus = <<>>
        /\ setup = None
        /\ mpc = "idle"
        /\ queued = <<>>

\* The media belongs to a pipeline that is set up, and the bus to a media that runs.
InService ==
    /\ gub.pipeline = 0 => media.goal = "NULL" /\ media.bases = 0 /\ ~gub.based
    /\ media.goal = "NULL" => media.gst = "NULL" /\ bus = <<>>
    /\ gub.pipeline <= loads
    /\ freed <=> script = "gone"
    /\ freed => gub.pipeline = 0

\* A callback is of a pipeline that was set up.
CallbackOfAPipeline == mpc \in CallbackSteps => msg.load \in 1 .. loads

\* The callback is of the pipeline that is there.
OwnCallback == mpc \in CallbackSteps /\ OfPresent

\* While it is set up, for which there is room, a pipeline is a player's, does not run
\* and calls nobody back.
SetupAlone ==
    setup # None =>
        /\ script = "live"
        /\ gub.pipeline = 0 => loads < MaxLoads
        /\ gub.pipeline # 0 =>
            /\ component = "texture"
            /\ media.goal = "NULL"
            /\ media.bases = 0
            /\ ~OwnCallback

\* Only a player has a base time.
BasedOfPlayer == gub.based => component = "texture"

\* A callback that is to set the base time of its pipeline is the first one to, and has
\* set it before it marks that.
BaseTimeAhead ==
    OfPresent =>
        /\ mpc \in {"compare", "seek", "position", "set"} => media.bases = 0
        /\ mpc = "mark" => media.bases = 1

BaseTimeInv == BaseTimeSetOnce /\ BaseTimeAhead /\ BasedOfPlayer

\* The backend is one of the build.
BackendOfBuild == backend # None => backend \in build

\* A media with a video sink belongs to a player and has a backend.
SinkHasBackend == media.kind = "sink" => component = "texture" /\ backend # None

\* What is asked to change its state was begun by pause or in a frame.
BegunInFrame ==
    /\ media.begun # "play"
    /\ media.gst # "NULL" \/ media.goal # "NULL" => media.begun # "no"

\* What was begun in a frame has the context made in it, if the backend shares one.
BegunWithContext ==
    media.kind = "sink" /\ media.begun = "frame" /\ backend = "egl" => gub.context # None

ContextInv ==
    /\ BackendOfBuild /\ SinkHasBackend
    /\ BegunInFrame /\ BegunWithContext
    /\ RendersInUnitysContext

\* The inductive invariant.
PlayerInv ==
    /\ TypeOK
    /\ NothingLeaks
    /\ Untouched
    /\ InService /\ CallbackOfAPipeline /\ SetupAlone
    /\ BaseTimeInv
    /\ ContextInv

Assumptions ==
    /\ PlaybackAssumption
    /\ BuildAssumption
    /\ SetupAssumption
    /\ ContextAssumption
    /\ ComponentAssumption
    /\ BackendAssumption

-----------------------------------------------------------------------------
(* The operators keep to the types. *)

\* What a function of the main thread works on.
States == [gub : Gubs, media : Playbacks, owned : [contexts : Nat, samples : Nat]]

\* What a structure points to is owned.
Owns(st) ==
    /\ st.owned.contexts = IF st.gub.context = None THEN 0 ELSE 1
    /\ st.owned.samples = IF st.gub.sample = 0 THEN 0 ELSE 1

\* h differs from g in what frames and commands change.
SameSetup(g, h) ==
    /\ h.pipeline = g.pipeline /\ h.handlers = g.handlers
    /\ h.synced = g.synced /\ h.based = g.based

\* n differs from m in what was asked of it, and in its crop.
SameRun(m, n) ==
    /\ n.kind = m.kind /\ n.gst = m.gst /\ n.answered = m.answered /\ n.frame = m.frame
    /\ n.bases = m.bases /\ n.meddled = m.meddled

LEMMA FreshType ==
    ASSUME Assumptions, NEW k \in {"sink", "appsrc", "none"}
    PROVE  /\ Fresh(k) \in Playbacks
           /\ Fresh(k).kind = k /\ Fresh(k).gst = "NULL" /\ Fresh(k).goal = "NULL"
           /\ Fresh(k).begun = "no" /\ Fresh(k).bases = 0 /\ Fresh(k).meddled = FALSE
BY DEF Assumptions, PlaybackAssumption, Fresh, Playbacks, Crops

LEMMA ZeroedType ==
    ASSUME Assumptions
    PROVE  /\ Zeroed \in Gubs
           /\ Zeroed.context = None /\ Zeroed.sample = 0 /\ Zeroed.synced = FALSE
           /\ Zeroed.pipeline = 0 /\ Zeroed.based = FALSE /\ Zeroed.handlers = {}
BY DEF Assumptions, PlaybackAssumption, SetupAssumption, Zeroed, Gubs

LEMMA SetStateType ==
    ASSUME NEW m \in Playbacks, NEW s \in {"PAUSED", "PLAYING"}, NEW by \in {"pause", "frame"}
    PROVE  /\ SetState(m, s, by) \in Playbacks
           /\ SameRun(m, SetState(m, s, by))
           /\ SetState(m, s, by).goal = s
           /\ SetState(m, s, by).begun = IF m.begun = "no" THEN by ELSE m.begun
BY DEF SetState, Playbacks, SameRun

LEMMA SetNullType ==
    ASSUME Assumptions, NEW m \in Playbacks
    PROVE  /\ SetNull(m) \in Playbacks
           /\ SetNull(m).kind = m.kind /\ SetNull(m).gst = "NULL"
           /\ SetNull(m).goal = "NULL" /\ SetNull(m).begun = m.begun
           /\ SetNull(m).bases = m.bases /\ SetNull(m).meddled = m.meddled
<1> DEFINE n == Fresh(m.kind)
<1>1. /\ n \in Playbacks /\ n.kind = m.kind /\ n.gst = "NULL" /\ n.goal = "NULL"
      /\ m.begun \in {"no", "play", "pause", "frame"} /\ m.cropped \in Crops
      /\ m.bases \in Nat /\ m.meddled \in BOOLEAN
  BY FreshType DEF Playbacks
<1>2. SetNull(m) = [n EXCEPT !.begun = m.begun, !.cropped = m.cropped, !.bases = m.bases,
                             !.meddled = m.meddled]
  BY DEF SetNull
<1> HIDE DEF n
<1> QED BY <1>1, <1>2 DEF Playbacks

LEMMA SeekType ==
    ASSUME NEW m \in Playbacks
    PROVE  /\ Seek(m) \in Playbacks
           /\ SameRun(m, Seek(m)) /\ Seek(m).goal = m.goal /\ Seek(m).begun = m.begun
<1> DEFINE s == [m EXCEPT !.ended = FALSE]
<1>1. s \in Playbacks /\ SameRun(m, s) /\ s.goal = m.goal /\ s.begun = m.begun
  BY DEF Playbacks, SameRun
<1>2. Seek(m) = s \/ Seek(m) = m
  BY DEF Seek
<1> HIDE DEF s
<1> QED BY <1>1, <1>2 DEF SameRun

\* A request to play that is met begins the media of a pipeline in a frame.
LEMMA MeetsRequestType ==
    ASSUME NEW st \in States
    PROVE  LET n == MeetsRequest(st)
           IN  /\ n \in States
               /\ SameSetup(st.gub, n.gub)
               /\ n.gub.context = st.gub.context /\ n.gub.sample = st.gub.sample
               /\ n.gub.crop = st.gub.crop /\ n.owned = st.owned
               /\ SameRun(st.media, n.media)
               /\ n.media = st.media \/
                    /\ st.gub.pipeline # 0
                    /\ n.media.goal = "PLAYING"
                    /\ n.media.begun = IF st.media.begun = "no" THEN "frame" ELSE st.media.begun
<1> DEFINE n == MeetsRequest(st)
           g == st.gub
           m == st.media
           h == [g EXCEPT !.playing = TRUE]
           s == SetState(m, "PLAYING", "frame")
<1>0. g \in Gubs /\ m \in Playbacks /\ st.owned \in [contexts : Nat, samples : Nat]
  BY DEF States
<1>1. /\ h \in Gubs /\ h.context = g.context /\ h.sample = g.sample /\ h.crop = g.crop
      /\ SameSetup(g, h)
  <2> HIDE DEF g
  <2> QED BY <1>0 DEF Gubs, SameSetup
<1>2. /\ s \in Playbacks /\ SameRun(m, s) /\ s.goal = "PLAYING"
      /\ s.begun = IF m.begun = "no" THEN "frame" ELSE m.begun
  <2> HIDE DEF m
  <2> QED BY <1>0, SetStateType
<1>3. \/ n = st
      \/ n = [st EXCEPT !.gub = h, !.media = m] /\ g.pipeline = 0
      \/ n = [st EXCEPT !.gub = h, !.media = s] /\ g.pipeline # 0
  BY DEF MeetsRequest, States
<1>4. SameSetup(g, g) /\ SameRun(m, m)
  BY DEF SameSetup, SameRun
<1>5. CASE n = st
  BY <1>0, <1>4, <1>5 DEF States
<1>6. ASSUME NEW p \in Playbacks, n = [st EXCEPT !.gub = h, !.media = p]
      PROVE  n \in States /\ n.gub = h /\ n.media = p /\ n.owned = st.owned
  <2> HIDE DEF h, n
  <2> QED BY <1>1, <1>6 DEF States
<1> HIDE DEF n, g, m, h, s
<1>7. /\ n \in States
      /\ SameSetup(g, n.gub)
      /\ n.gub.context = g.context /\ n.gub.sample = g.sample
      /\ n.gub.crop = g.crop /\ n.owned = st.owned
      /\ SameRun(m, n.media)
      /\ n.media = m \/ /\ g.pipeline # 0
                        /\ n.media.goal = "PLAYING"
                        /\ n.media.begun = IF m.begun = "no" THEN "frame" ELSE m.begun
  <2>1. CASE n = [st EXCEPT !.gub = h, !.media = m]
    BY <1>0, <1>1, <1>4, <1>6, <2>1
  <2>2. CASE n = [st EXCEPT !.gub = h, !.media = s] /\ g.pipeline # 0
    BY <1>1, <1>2, <1>6, <2>2
  <2>3. CASE n = st
    BY <1>0, <1>4, <2>3 DEF g, m
  <2> QED BY <1>3, <2>1, <2>2, <2>3
<1> QED BY <1>7 DEF n, g, m

-----------------------------------------------------------------------------
(* What frames make of the structure, its media, and what is owned.          *)

\* A context that is made is owned. With Direct3D there is one then, and with EGL if
\* Unity's is there.
LEMMA MakesContextType ==
    ASSUME Assumptions, NEW st \in States, Owns(st), backend \in Backends \cup {None}
    PROVE  LET n == MakesContext(st)
           IN  /\ n \in States /\ Owns(n)
               /\ SameSetup(st.gub, n.gub) /\ n.media = st.media
               /\ st.gub.context # None => n.gub.context = st.gub.context
               /\ backend \in {"d3d9", "d3d11"} => n.gub.context # None
               /\ backend = "egl" /\ unity = "on" => n.gub.context # None
<1> DEFINE g == st.gub
           c == CreateContext(g.pipeline, g.crop)
           n == MakesContext(st)
<1>1. /\ g \in Gubs /\ g.context \in Contexts \cup {None} /\ g.crop \in Crops
      /\ g.pipeline \in 0 .. MaxLoads /\ st.owned.contexts \in Nat
      /\ st.owned.samples \in Nat /\ st.owned \in [contexts : Nat, samples : Nat]
  BY DEF States, Gubs, Crops
<1>2. /\ [crop |-> g.crop, pipe |-> None, setup |-> FALSE] \in Contexts
      /\ [crop |-> g.crop, pipe |-> g.pipeline, setup |-> FALSE] \in Contexts
      /\ [crop |-> "no", pipe |-> None, setup |-> FALSE] \in Contexts
  BY <1>1 DEF Contexts, Crops
<1>3. /\ c \in Contexts \cup {None}
      /\ backend \in {"d3d9", "d3d11"} => c \in Contexts
      /\ backend = "egl" /\ unity = "on" => c \in Contexts
  BY <1>2
  DEF CreateContext, CreateD3D9, CreateD3D11, CreateOpenGL, CreateEGL,
      Assumptions, BackendAssumption, Backends
<1>4. None \notin Contexts
  BY DEF Assumptions, ContextAssumption
<1>5. CASE g.context # None \/ c = None
  <2>1. n = st
    BY <1>5 DEF MakesContext
  <2> QED BY <1>3, <1>4, <1>5, <2>1 DEF SameSetup
<1>6. CASE g.context = None /\ c # None
  <2> DEFINE h == [g EXCEPT !.context = c]
             o == [st.owned EXCEPT !.contexts = @ + 1]
  <2>1. n = [st EXCEPT !.gub = h, !.owned = o]
    BY <1>6 DEF MakesContext, States
  <2>2. h \in Gubs /\ h.context = c /\ h.sample = g.sample /\ SameSetup(g, h)
    <3> HIDE DEF g, c
    <3> QED BY <1>1, <1>3 DEF Gubs, SameSetup
  <2>3. /\ o \in [contexts : Nat, samples : Nat]
        /\ o.contexts = st.owned.contexts + 1 /\ o.samples = st.owned.samples
    BY <1>1
  <2> HIDE DEF h, o, n
  <2>4. n \in States /\ n.gub = h /\ n.owned = o /\ n.media = st.media
    BY <2>1, <2>2, <2>3 DEF States
  <2>5. Owns(n)
    BY <1>1, <1>6, <2>2, <2>3, <2>4 DEF Owns
  <2>6. /\ n \in States /\ Owns(n) /\ SameSetup(g, n.gub) /\ n.media = st.media
        /\ n.gub.context # None /\ g.context = None
    BY <1>6, <2>2, <2>4, <2>5
  <2> QED BY <2>6 DEF n
<1> QED BY <1>5, <1>6

\* A sample that is dropped is not owned any more.
LEMMA DropsSampleType ==
    ASSUME Assumptions, NEW st \in States, Owns(st)
    PROVE  LET n == DropsSample(st)
           IN  /\ n \in States /\ Owns(n)
               /\ SameSetup(st.gub, n.gub) /\ n.media = st.media
               /\ n.gub.context = st.gub.context /\ n.gub.sample = 0
<1> DEFINE g == st.gub
           n == DropsSample(st)
<1>1. /\ g \in Gubs /\ st.owned.contexts \in Nat /\ st.owned.samples \in Nat
      /\ st.owned \in [contexts : Nat, samples : Nat] /\ 0 \in 0 .. MaxFrames
  BY DEF States, Assumptions, PlaybackAssumption
<1>2. CASE g.sample = 0
  BY <1>2 DEF DropsSample, SameSetup
<1>3. CASE g.sample # 0
  <2> DEFINE h == [g EXCEPT !.sample = 0]
             o == [st.owned EXCEPT !.samples = @ - 1]
  <2>1. n = [st EXCEPT !.gub = h, !.owned = o]
    BY <1>3 DEF DropsSample, States
  <2>2. h \in Gubs /\ h.context = g.context /\ h.sample = 0 /\ SameSetup(g, h)
    <3> HIDE DEF g
    <3> QED BY <1>1 DEF Gubs, SameSetup
  <2>3. /\ o \in [contexts : Nat, samples : Nat]
        /\ o.contexts = st.owned.contexts /\ o.samples = 0
    BY <1>1, <1>3 DEF Owns
  <2> HIDE DEF h, o, n
  <2>4. n \in States /\ n.gub = h /\ n.owned = o /\ n.media = st.media
    BY <2>1, <2>2, <2>3 DEF States
  <2>5. Owns(n)
    BY <1>1, <2>2, <2>3, <2>4 DEF Owns
  <2>6. /\ n \in States /\ Owns(n) /\ SameSetup(g, n.gub) /\ n.media = st.media
        /\ n.gub.context = g.context /\ n.gub.sample = 0
    BY <2>2, <2>4, <2>5
  <2> QED BY <2>6 DEF n
<1> QED BY <1>2, <1>3

\* A sample is taken when none is held.
LEMMA TakesSampleType ==
    ASSUME Assumptions, NEW st \in States, Owns(st), st.gub.sample = 0
    PROVE  LET n == TakesSample(st)
           IN  /\ n \in States /\ Owns(n)
               /\ SameSetup(st.gub, n.gub) /\ n.media = st.media
               /\ n.gub.context = st.gub.context
<1> DEFINE g == st.gub
           f == st.media.frame
           n == TakesSample(st)
<1>1. /\ g \in Gubs /\ st.owned.contexts \in Nat /\ st.owned.samples \in Nat
      /\ st.owned \in [contexts : Nat, samples : Nat] /\ f \in 0 .. MaxFrames
  BY DEF States, Playbacks
<1>2. CASE f = 0
  BY <1>2 DEF TakesSample, SameSetup
<1>3. CASE f # 0
  <2> DEFINE h == [g EXCEPT !.sample = f]
             o == [st.owned EXCEPT !.samples = @ + 1]
  <2>1. n = [st EXCEPT !.gub = h, !.owned = o]
    BY <1>3 DEF TakesSample, States
  <2>2. h \in Gubs /\ h.context = g.context /\ h.sample = f /\ SameSetup(g, h)
    <3> HIDE DEF g, f
    <3> QED BY <1>1 DEF Gubs, SameSetup
  <2>3. /\ o \in [contexts : Nat, samples : Nat]
        /\ o.contexts = st.owned.contexts /\ o.samples = 1
    BY <1>1 DEF Owns
  <2> HIDE DEF h, o, n
  <2>4. n \in States /\ n.gub = h /\ n.owned = o /\ n.media = st.media
    BY <2>1, <2>2, <2>3 DEF States
  <2>5. Owns(n)
    BY <1>1, <1>3, <2>2, <2>3, <2>4 DEF Owns
  <2>6. /\ n \in States /\ Owns(n) /\ SameSetup(g, n.gub) /\ n.media = st.media
        /\ n.gub.context = g.context
    BY <2>2, <2>4, <2>5
  <2> QED BY <2>6 DEF n
<1> QED BY <1>2, <1>3

\* A frame that is grabbed.
LEMMA GrabbedType ==
    ASSUME Assumptions, NEW st \in States, Owns(st), backend \in Backends \cup {None}
    PROVE  LET n == Grabbed(st)
           IN  /\ n \in States /\ Owns(n)
               /\ SameSetup(st.gub, n.gub)
               /\ st.gub.context # None => n.gub.context = st.gub.context
               /\ backend \in {"d3d9", "d3d11"} => n.gub.context # None
               /\ backend = "egl" /\ unity = "on" => n.gub.context # None
               /\ SameRun(st.media, n.media)
               /\ n.media = st.media \/
                    /\ st.gub.pipeline # 0
                    /\ n.media.goal = "PLAYING"
                    /\ n.media.begun = IF st.media.begun = "no" THEN "frame" ELSE st.media.begun
<1> DEFINE a == MakesContext(st)
           b == MeetsRequest(a)
           c == DropsSample(b)
           n == TakesSample(c)
<1>1. /\ a \in States /\ Owns(a) /\ SameSetup(st.gub, a.gub) /\ a.media = st.media
      /\ st.gub.context # None => a.gub.context = st.gub.context
      /\ backend \in {"d3d9", "d3d11"} => a.gub.context # None
      /\ backend = "egl" /\ unity = "on" => a.gub.context # None
  BY MakesContextType
<1> HIDE DEF a
<1>2. /\ b \in States /\ SameSetup(a.gub, b.gub)
      /\ b.gub.context = a.gub.context /\ b.gub.sample = a.gub.sample /\ b.owned = a.owned
      /\ SameRun(a.media, b.media)
      /\ b.media = a.media \/
            /\ a.gub.pipeline # 0
            /\ b.media.goal = "PLAYING"
            /\ b.media.begun = IF a.media.begun = "no" THEN "frame" ELSE a.media.begun
  BY <1>1, MeetsRequestType
<1> HIDE DEF b
<1>3. Owns(b)
  BY <1>1, <1>2 DEF Owns
<1>4. /\ c \in States /\ Owns(c) /\ SameSetup(b.gub, c.gub) /\ c.media = b.media
      /\ c.gub.context = b.gub.context /\ c.gub.sample = 0
  BY <1>2, <1>3, DropsSampleType
<1> HIDE DEF c
<1>5. /\ n \in States /\ Owns(n) /\ SameSetup(c.gub, n.gub) /\ n.media = c.media
      /\ n.gub.context = c.gub.context
  BY <1>4, TakesSampleType
<1> HIDE DEF n
<1>6. SameSetup(st.gub, n.gub)
  BY <1>1, <1>2, <1>4, <1>5 DEF SameSetup
<1>7. /\ n \in States /\ Owns(n)
      /\ st.gub.context # None => n.gub.context = st.gub.context
      /\ backend \in {"d3d9", "d3d11"} => n.gub.context # None
      /\ backend = "egl" /\ unity = "on" => n.gub.context # None
      /\ SameRun(st.media, n.media)
      /\ n.media = st.media \/
            /\ st.gub.pipeline # 0
            /\ n.media.goal = "PLAYING"
            /\ n.media.begun = IF st.media.begun = "no" THEN "frame" ELSE st.media.begun
  BY <1>1, <1>2, <1>4, <1>5 DEF SameSetup
<1> QED BY <1>6, <1>7 DEF Grabbed, n, c, b, a

\* A copy marks the context of Direct3D 11, and crops in its pipeline.
LEMMA CopiedType ==
    ASSUME Assumptions, NEW st \in States, Owns(st), backend = "d3d11" => st.gub.context # None
    PROVE  LET n == Copied(st)
           IN  /\ n \in States /\ Owns(n)
               /\ SameSetup(st.gub, n.gub) /\ n.gub.sample = st.gub.sample
               /\ n.gub.context = None <=> st.gub.context = None
               /\ backend # "d3d11" => n.gub.context = st.gub.context
               /\ SameRun(st.media, n.media)
               /\ n.media.goal = st.media.goal /\ n.media.begun = st.media.begun
<1> DEFINE g == st.gub
           m == st.media
           c == AfterCopy(g.context)
           p == CropsElement(g.context, g.pipeline, m)
           n == Copied(st)
<1>0. /\ g \in Gubs /\ m \in Playbacks /\ g.context \in Contexts \cup {None}
      /\ st.owned \in [contexts : Nat, samples : Nat]
  BY DEF States, Gubs
<1>1. /\ c \in Contexts \cup {None} /\ (c = None <=> g.context = None)
      /\ backend # "d3d11" => c = g.context
  <2>1. CASE backend = "d3d11"
    <3> DEFINE k == g.context
    <3>1. k \in Contexts
      BY <1>0, <2>1
    <3> HIDE DEF k
    <3>2. [k EXCEPT !.setup = TRUE] \in Contexts
      BY <3>1 DEF Contexts
    <3> USE DEF k
    <3> QED BY <1>0, <2>1, <3>2 DEF AfterCopy, Assumptions, ContextAssumption
  <2>2. CASE backend # "d3d11"
    BY <1>0, <2>2 DEF AfterCopy
  <2> QED BY <2>1, <2>2
<1>2. p \in Playbacks /\ SameRun(m, p) /\ p.goal = m.goal /\ p.begun = m.begun
  <2>1. CASE p = m
    BY <1>0, <2>1 DEF SameRun
  <2>2. CASE backend = "d3d11" /\ p = [m EXCEPT !.cropped = g.context.crop]
    <3>1. g.context.crop \in Crops
      BY <1>0, <2>2 DEF Contexts
    <3> HIDE DEF p, m, g
    <3> QED BY <1>0, <2>2, <3>1 DEF Playbacks, SameRun
  <2> QED BY <2>1, <2>2 DEF CropsElement
<1>3. CASE ~Copies(g.context)
  BY <1>3 DEF Copied, SameSetup, SameRun
<1>4. CASE Copies(g.context)
  <2> DEFINE h == [g EXCEPT !.context = c]
  <2>1. n = [st EXCEPT !.gub = h, !.media = p]
    BY <1>4 DEF Copied, States
  <2>2. h \in Gubs /\ h.context = c /\ h.sample = g.sample /\ SameSetup(g, h)
    <3> HIDE DEF g, c
    <3> QED BY <1>0, <1>1 DEF Gubs, SameSetup
  <2> HIDE DEF h, c, p, n
  <2>3. n \in States /\ n.gub = h /\ n.owned = st.owned /\ n.media = p
    BY <1>2, <2>1, <2>2 DEF States
  <2>4. Owns(n)
    BY <1>1, <2>2, <2>3 DEF Owns
  <2>5. /\ n \in States /\ Owns(n)
        /\ SameSetup(g, n.gub) /\ n.gub.sample = g.sample
        /\ n.gub.context = None <=> g.context = None
        /\ backend # "d3d11" => n.gub.context = g.context
        /\ SameRun(m, n.media) /\ n.media.goal = m.goal /\ n.media.begun = m.begun
    BY <1>1, <1>2, <2>2, <2>3, <2>4
  <2> QED BY <2>5 DEF n
<1> QED BY <1>3, <1>4

\* A frame that is copied and released.
LEMMA BlittedType ==
    ASSUME Assumptions, NEW st \in States, Owns(st), backend = "d3d11" => st.gub.context # None
    PROVE  LET n == Blitted(st)
           IN  /\ n \in States /\ Owns(n)
               /\ SameSetup(st.gub, n.gub)
               /\ n.gub.context = None <=> st.gub.context = None
               /\ backend # "d3d11" => n.gub.context = st.gub.context
               /\ SameRun(st.media, n.media)
               /\ n.media.goal = st.media.goal /\ n.media.begun = st.media.begun
<1> DEFINE c == Copied(st)
           n == DropsSample(c)
<1>1. /\ c \in States /\ Owns(c) /\ SameSetup(st.gub, c.gub)
      /\ c.gub.context = None <=> st.gub.context = None
      /\ backend # "d3d11" => c.gub.context = st.gub.context
      /\ SameRun(st.media, c.media)
      /\ c.media.goal = st.media.goal /\ c.media.begun = st.media.begun
  BY CopiedType
<1> HIDE DEF c
<1>2. /\ n \in States /\ Owns(n) /\ SameSetup(c.gub, n.gub) /\ n.media = c.media
      /\ n.gub.context = c.gub.context
  BY <1>1, DropsSampleType
<1> HIDE DEF n
<1>3. SameSetup(st.gub, n.gub)
  BY <1>1, <1>2 DEF SameSetup
<1>4. /\ n \in States /\ Owns(n)
      /\ n.gub.context = None <=> st.gub.context = None
      /\ backend # "d3d11" => n.gub.context = st.gub.context
      /\ SameRun(st.media, n.media)
      /\ n.media.goal = st.media.goal /\ n.media.begun = st.media.begun
  BY <1>1, <1>2
<1> QED BY <1>3, <1>4 DEF Blitted, n, c

-----------------------------------------------------------------------------
\* Initially.
LEMMA InitPlayer == Assumptions /\ Init => PlayerInv
<1> SUFFICES ASSUME Assumptions, Init PROVE PlayerInv
  OBVIOUS
<1>1. /\ media = Fresh("none") /\ gub = Zeroed /\ bus = <<>> /\ reports = 0
      /\ loads = 0 /\ freed = FALSE /\ setup = None /\ mpc = "idle"
      /\ msg = [kind |-> "none", load |-> 0]
      /\ owned = [contexts |-> 0, samples |-> 0]
      /\ backend = None /\ device = None /\ unity = "off" /\ build \in Builds
      /\ component \in Components /\ script = "new" /\ queued = <<>> /\ told = <<>>
      /\ sized = FALSE
  BY DEF Init, PlaybackInit, GraphicInit, PipelineInit, ScriptInit, CaptureInit
<1>2. /\ gub \in Gubs /\ gub.context = None /\ gub.sample = 0 /\ gub.synced = FALSE
      /\ gub.pipeline = 0 /\ gub.based = FALSE
      /\ media \in Playbacks /\ media.kind = "none" /\ media.gst = "NULL"
      /\ media.goal = "NULL" /\ media.begun = "no" /\ media.bases = 0
  BY <1>1, ZeroedType, FreshType
<1>3. TypeOK
  <2>1. GraphicTypeOK
    BY <1>1 DEF GraphicTypeOK
  <2>2. ScriptTypeOK
    BY <1>1 DEF ScriptTypeOK
  <2>3. bus \in Seq(Reports \cup {"state"}) /\ reports \in 0 .. MaxReports
    BY <1>1 DEF Assumptions, PlaybackAssumption
  <2>4. /\ loads \in 0 .. MaxLoads
        /\ msg \in [kind : Reports \cup {"state", "none"}, load : 0 .. MaxLoads]
    BY <1>1 DEF Assumptions, SetupAssumption
  <2>5. owned \in [contexts : Nat, samples : Nat]
    BY <1>1
  <2>6. freed \in BOOLEAN /\ sized \in BOOLEAN
    BY <1>1, Zenon
  <2> QED BY <1>1, <1>2, <2>1, <2>2, <2>3, <2>4, <2>5, <2>6 DEF TypeOK, PipelineTypeOK
<1>4. NothingLeaks /\ Untouched
  BY <1>1, <1>2 DEF NothingLeaks, Untouched
<1>5. InService /\ CallbackOfAPipeline /\ SetupAlone
  BY <1>1, <1>2 DEF InService, CallbackOfAPipeline, SetupAlone, CallbackSteps
<1>6. BaseTimeInv
  BY <1>1, <1>2 DEF BaseTimeInv, BaseTimeSetOnce, BaseTimeAhead, BasedOfPlayer
<1>7. ContextInv
  BY <1>1, <1>2 DEF ContextInv, BackendOfBuild, SinkHasBackend, BegunInFrame,
                    BegunWithContext, RendersInUnitysContext
<1> QED BY <1>3, <1>4, <1>5, <1>6, <1>7 DEF PlayerInv

-----------------------------------------------------------------------------
(* Kinds of steps. Types and ownership are looked at for each action.        *)

\* A step that leaves the context alone.
LEMMA ContextKeeps ==
    ASSUME Assumptions, PlayerInv, UNCHANGED <<build, backend, component>>,
           gub'.context = gub.context, media'.kind = media.kind,
           media'.begun = media.begun \/ (media.begun = "no" /\ media'.begun = "pause"),
           media'.gst # "NULL" \/ media'.goal # "NULL" => media'.begun # "no",
           media'.gst # "NULL" =>
               \/ media.gst # "NULL" /\ media'.answered = media.answered
               \/ media'.kind = "sink" => media'.answered = Provided(gub.context)
    PROVE  ContextInv'
<1> USE DEF PlayerInv, ContextInv
<1>1. BackendOfBuild' /\ SinkHasBackend'
  BY DEF BackendOfBuild, SinkHasBackend
<1>2. BegunInFrame' /\ BegunWithContext'
  BY DEF BegunInFrame, BegunWithContext
<1>3. RendersInUnitysContext'
  BY DEF RendersInUnitysContext, BegunInFrame, Provided, ProvidedEGL
<1> QED BY <1>1, <1>2, <1>3

\* A step after which a media is there that has not begun to run.
LEMMA ContextAnew ==
    ASSUME BackendOfBuild', media'.gst = "NULL", media'.begun # "play",
           media'.goal # "NULL" => media'.begun # "no",
           media'.kind = "sink" =>
               component' = "texture" /\ backend' # None /\ media'.begun = "no"
    PROVE  ContextInv'
BY DEF ContextInv, SinkHasBackend, BegunInFrame, BegunWithContext, RendersInUnitysContext

\* A step in the life of a media that is set up, which a callback may end with.
LEMMA RunsOn ==
    ASSUME Assumptions, PlayerInv, UNCHANGED <<component, loads, freed, setup>>,
           script' = script \/ (setup = None /\ script \in {"new", "live"}
                                 /\ script' \in {"live", "waiting"}),
           SameSetup(gub, gub'),
           media'.bases = media.bases, media'.meddled = media.meddled,
           \/ media'.goal = media.goal
           \/ setup = None /\ (gub.pipeline = 0 => media'.goal = "NULL"),
           media'.goal = "NULL" => media'.gst = "NULL" /\ bus' = <<>>,
           \/ UNCHANGED <<mpc, msg>>
           \/ mpc' \notin CallbackSteps /\ ~(mpc = "mark" /\ OfPresent)
    PROVE  InService' /\ CallbackOfAPipeline' /\ SetupAlone' /\ BaseTimeInv'
<1> USE DEF PlayerInv, SameSetup
<1>1. InService'
  BY DEF InService
<1>2. CallbackOfAPipeline'
  BY DEF CallbackOfAPipeline
<1>3. SetupAlone'
  BY DEF SetupAlone, OwnCallback, OfPresent
<1>4. BaseTimeInv'
  BY DEF BaseTimeInv, BaseTimeSetOnce, BaseTimeAhead, BasedOfPlayer, OfPresent, CallbackSteps
<1> QED BY <1>1, <1>2, <1>3, <1>4

\* What is released by closing was owned, and is owned no more.
LEMMA ReleasedAll ==
    ASSUME Assumptions, PlayerInv
    PROVE  Released(gub, owned) = [contexts |-> 0, samples |-> 0]
BY DEF PlayerInv, NothingLeaks, Released, DestroyContext

\* Steps that leave nothing of the pipeline that was there, and may begin to set up
\* another one.
LEMMA ClosesKeep ==
    ASSUME Assumptions, PlayerInv, Closes, script' \in {"live", "gone"},
           UNCHANGED <<reports, graphicVars, loads, mpc, msg, component>>,
           freed' \in BOOLEAN, freed' <=> script' = "gone",
           setup' \in Setups \cup {Encoding, None}, setup' # None => script' = "live" /\ loads < MaxLoads,
           queued' \in Seq(Reports), told' = told, sized' = sized
    PROVE  PlayerInv'
<1> USE DEF PlayerInv
<1>1. /\ gub' = Zeroed /\ media' = Fresh("none") /\ bus' = <<>>
      /\ owned' = [contexts |-> 0, samples |-> 0]
  BY ReleasedAll DEF Closes, Becomes
<1>2. /\ gub' \in Gubs /\ gub'.context = None /\ gub'.sample = 0
      /\ gub'.pipeline = 0 /\ gub'.based = FALSE /\ gub'.synced = FALSE
      /\ media' \in Playbacks /\ media'.kind = "none" /\ media'.gst = "NULL"
      /\ media'.goal = "NULL" /\ media'.begun = "no" /\ media'.bases = 0
  BY <1>1, ZeroedType, FreshType
<1>3. TypeOK'
  <2>1. owned' \in [contexts : Nat, samples : Nat] /\ bus' \in Seq(Reports \cup {"state"})
    BY <1>1
  <2> QED BY <1>2, <2>1
          DEF TypeOK, GraphicTypeOK, PipelineTypeOK, ScriptTypeOK, graphicVars
<1>4. NothingLeaks' /\ Untouched'
  BY <1>1, <1>2 DEF NothingLeaks, Untouched
<1>5. loads \in Nat
  BY DEF TypeOK, PipelineTypeOK
<1>6. InService' /\ CallbackOfAPipeline' /\ SetupAlone'
  <2>1. InService'
    BY <1>1, <1>2, <1>5 DEF InService
  <2>2. CallbackOfAPipeline'
    BY DEF CallbackOfAPipeline
  <2>3. SetupAlone'
    BY <1>2 DEF SetupAlone
  <2> QED BY <2>1, <2>2, <2>3
<1>7. BaseTimeInv'
  <2>1. mpc' \in CallbackSteps => ~OfPresent'
    BY <1>2, <1>5 DEF CallbackOfAPipeline, OfPresent
  <2> QED BY <1>2, <2>1
          DEF BaseTimeInv, BaseTimeSetOnce, BaseTimeAhead, BasedOfPlayer, CallbackSteps
<1>8. ContextInv'
  <2>1. BackendOfBuild'
    BY DEF ContextInv, BackendOfBuild, graphicVars
  <2> QED BY <1>2, <2>1, ContextAnew
<1> QED BY <1>3, <1>4, <1>6, <1>7, <1>8

-----------------------------------------------------------------------------
(* The threads of the pipeline, and the device. *)

LEMMA PipelineKeeps ==
    ASSUME Assumptions, PlayerInv, PipelineRuns, UNCHANGED <<scriptVars, captureVars>>
    PROVE  PlayerInv'
<1> USE DEF PlayerInv
<1> DEFINE c == IF media.kind = "sink" THEN Provided(gub.context) ELSE None
<1>1. /\ media \in Playbacks /\ gub \in Gubs /\ bus \in Seq(Reports \cup {"state"})
      /\ reports \in 0 .. MaxReports /\ MaxReports \in Nat /\ MaxFrames \in Nat \ {0}
  BY DEF TypeOK, PipelineTypeOK, Assumptions, PlaybackAssumption
<1>2. c \in Contexts \cup {None}
  BY <1>1 DEF Provided, ProvidedEGL, Gubs
<1> HIDE DEF c
<1>3. UNCHANGED <<graphicVars, pipelineVars, scriptVars, captureVars>>
  BY DEF PipelineRuns
<1>4. Preroll(c) \/ Roll \/ Hold \/ Render \/ End \/ Fail \/ Delay
  BY DEF PipelineRuns, c
<1>5. /\ media' \in Playbacks
      /\ media'.kind = media.kind /\ media'.begun = media.begun
      /\ media'.goal = media.goal /\ media'.bases = media.bases
      /\ media'.meddled = media.meddled
      /\ media'.gst # "NULL" =>
            \/ media.gst # "NULL" /\ media'.answered = media.answered
            \/ media.goal # "NULL" /\ media'.answered = c
  <2>1. CASE Preroll(c)
    <3> DEFINE f == IF media.kind = "sink" THEN 1 ELSE 0
    <3>1. /\ media.goal # "NULL"
          /\ media' = [media EXCEPT !.gst = "PAUSED", !.answered = c, !.frame = f]
      BY <2>1 DEF Preroll
    <3>2. f \in 0 .. MaxFrames
      BY <1>1
    <3> HIDE DEF f
    <3> QED BY <1>1, <1>2, <3>1, <3>2 DEF Playbacks
  <2>2. CASE Roll \/ Hold
    BY <1>1, <2>2 DEF Roll, Hold, Playbacks
  <2>3. CASE Render
    <3> DEFINE f == media.frame + 1
    <3>1. media' = [media EXCEPT !.frame = f] /\ media.frame < MaxFrames
      BY <2>3 DEF Render
    <3>2. f \in 0 .. MaxFrames
      BY <1>1, <3>1 DEF Playbacks
    <3> HIDE DEF f
    <3> QED BY <1>1, <3>1, <3>2 DEF Playbacks
  <2>4. CASE End \/ Fail \/ Delay
    BY <1>1, <2>4 DEF End, Fail, Delay, Streaming, Playbacks
  <2> QED BY <1>4, <2>1, <2>2, <2>3, <2>4
<1>6. bus' \in Seq(Reports \cup {"state"}) /\ reports' \in 0 .. MaxReports
  <2>1. ASSUME NEW k \in Reports \cup {"state"}, Posts(k)
        PROVE  bus' \in Seq(Reports \cup {"state"})
    BY <1>1, <2>1 DEF Posts
  <2>2. ASSUME NEW k \in Reports, PostsReport(k)
        PROVE  bus' \in Seq(Reports \cup {"state"}) /\ reports' \in 0 .. MaxReports
    BY <1>1, <2>1, <2>2 DEF PostsReport
  <2>3. CASE End \/ Fail \/ Delay
    BY <2>2, <2>3 DEF End, Fail, Delay, Reports
  <2>4. CASE Preroll(c) \/ Roll \/ Hold \/ Render
    BY <1>1, <2>1, <2>4 DEF Preroll, Roll, Hold, Render
  <2> QED BY <1>4, <2>3, <2>4
<1>7. TypeOK'
  BY <1>3, <1>5, <1>6
  DEF TypeOK, GraphicTypeOK, PipelineTypeOK, ScriptTypeOK, graphicVars, pipelineVars,
      scriptVars, captureVars
<1>8. media.goal # "NULL"
  BY <1>4 DEF InService, Preroll, Roll, Hold, Render, End, Fail, Delay, Streaming
<1>9. script # "new"
  BY <1>1, <1>8, FreshType DEF Untouched
<1>10. NothingLeaks' /\ Untouched'
  BY <1>3, <1>9 DEF NothingLeaks, Untouched, pipelineVars, scriptVars
<1>11. InService' /\ CallbackOfAPipeline' /\ SetupAlone' /\ BaseTimeInv'
  BY <1>3, <1>5, <1>8, RunsOn DEF SameSetup, pipelineVars, scriptVars
<1>12. ContextInv'
  BY <1>3, <1>5, ContextKeeps
     DEF ContextInv, BegunInFrame, graphicVars, pipelineVars, scriptVars, c
<1> QED BY <1>7, <1>10, <1>11, <1>12

LEMMA GraphicKeeps ==
    ASSUME Assumptions, PlayerInv, GraphicNext,
           UNCHANGED <<playbackVars, pipelineVars, scriptVars, captureVars>>
    PROVE  PlayerInv'
<1> USE DEF PlayerInv, playbackVars, pipelineVars, scriptVars, captureVars
<1>1. /\ build' = build /\ build \in Builds
      /\ backend' = backend \/ (backend = None /\ backend' \in build)
      /\ device' \in {None, "live", "freed"} /\ unity' \in {"off", "on"}
      /\ backend' \in Backends \cup {None}
  BY DEF GraphicNext, UnityStarts, UnityLosesDevice, DeviceComes, DeviceGoes, TypeOK,
         GraphicTypeOK, Assumptions, BuildAssumption, Backends
<1>2. TypeOK'
  BY <1>1 DEF TypeOK, GraphicTypeOK, PipelineTypeOK, ScriptTypeOK
<1>3. NothingLeaks' /\ Untouched'
  BY DEF NothingLeaks, Untouched
<1>4. InService' /\ CallbackOfAPipeline' /\ SetupAlone' /\ BaseTimeInv'
  BY RunsOn DEF SameSetup, InService
<1>5. BackendOfBuild' /\ SinkHasBackend' /\ BegunInFrame'
  BY <1>1 DEF ContextInv, BackendOfBuild, SinkHasBackend, BegunInFrame
<1>6. BegunWithContext' /\ RendersInUnitysContext'
  BY <1>1 DEF ContextInv, SinkHasBackend, BegunWithContext, RendersInUnitysContext,
              Provided, ProvidedEGL
<1> QED BY <1>2, <1>3, <1>4, <1>5, <1>6 DEF ContextInv

-----------------------------------------------------------------------------
(* The thread of the main loop. *)

\* What every step of it leaves alone.
LEMMA LoopThreadLeaves ==
    ASSUME Assumptions, PlayerInv, LoopThread, UNCHANGED <<scriptVars, captureVars>>
    PROVE  /\ UNCHANGED <<reports, graphicVars, loads, freed, setup, owned>>
           /\ UNCHANGED <<component, script, queued, told, sized>>
           /\ script # "new"
           /\ bus' \in Seq(Reports \cup {"state"}) /\ (bus = <<>> => bus' = <<>>)
           /\ msg' \in [kind : Reports \cup {"state", "none"}, load : 0 .. MaxLoads]
           /\ mpc' \in CallbackSteps \cup {"idle", "crashed"}
<1> USE DEF PlayerInv
<1>1. /\ gub \in Gubs /\ bus \in Seq(Reports \cup {"state"})
      /\ msg \in [kind : Reports \cup {"state", "none"}, load : 0 .. MaxLoads]
      /\ gub.pipeline \in 0 .. MaxLoads /\ 0 \in 0 .. MaxLoads
  BY DEF TypeOK, PipelineTypeOK, Gubs, Assumptions, SetupAssumption
<1>2. CASE Dispatch
  BY <1>1, <1>2
  DEF Dispatch, Untouched, CallbackSteps, graphicVars, scriptVars, captureVars
<1>3. CASE HandleState \/ Syncs \/ HandleFreed
  <2>1. CallbackLeaves
    BY <1>3 DEF HandleState, Syncs, HandleFreed, SyncBegins, SyncCompares, SyncSeek,
                SyncPosition, SyncSets, SyncMarks
  <2>2. mpc \in CallbackSteps
    BY <1>3 DEF HandleState, Syncs, HandleFreed, SyncBegins, SyncCompares, SyncSeek,
                SyncPosition, SyncSets, SyncMarks, CallbackAt, CallbackSteps
  <2>3. CallbackEnds \/ \E s \in CallbackSteps \cup {"crashed"} : CallbackGoes(s)
    BY <1>3 DEF HandleState, Syncs, HandleFreed, SyncBegins, SyncCompares, SyncSeek,
                SyncPosition, SyncSets, SyncMarks, CallbackGoes, CallbackSteps
  <2>4. script # "new"
    BY <2>2 DEF Untouched, CallbackSteps
  <2> QED BY <1>1, <2>1, <2>3, <2>4
          DEF CallbackLeaves, CallbackEnds, CallbackGoes, graphicVars, scriptVars, captureVars
<1> QED BY <1>2, <1>3 DEF LoopThread

\* What each of them makes of structure and media: a seek, the base time, or the mark.
LEMMA LoopThreadMakes ==
    ASSUME Assumptions, PlayerInv, LoopThread
    PROVE  /\ gub' \in Gubs /\ gub'.context = gub.context /\ gub'.sample = gub.sample
           /\ gub'.pipeline = gub.pipeline /\ gub'.based = gub.based
           /\ gub'.handlers = gub.handlers
           /\ media' \in Playbacks /\ media'.kind = media.kind /\ media'.gst = media.gst
           /\ media'.goal = media.goal /\ media'.begun = media.begun
           /\ media'.answered = media.answered
           /\ ~SyncMarks => gub'.synced = gub.synced
           /\ SyncMarks => gub'.synced
           /\ ~SyncSets => media'.bases = media.bases
           /\ SyncSets =>
                media'.bases = IF OfPresent THEN media.bases + 1 ELSE media.bases
           /\ (SyncSets \/ SyncMarks) /\ OfPresent => media'.meddled = media.meddled
           /\ (SyncSets \/ SyncMarks) /\ ~OfPresent /\ gub.pipeline # 0 => media'.meddled
           /\ ~(SyncSets \/ SyncMarks) => media'.meddled = media.meddled
<1>1. media \in Playbacks /\ gub \in Gubs
  BY DEF PlayerInv, TypeOK, PipelineTypeOK
<1> DEFINE once == [media EXCEPT !.bases = @ + 1]
           meddled == [media EXCEPT !.meddled = TRUE]
           marked == [gub EXCEPT !.synced = TRUE]
<1>2. /\ once \in Playbacks /\ once.bases = media.bases + 1 /\ once.meddled = media.meddled
      /\ once.kind = media.kind /\ once.gst = media.gst /\ once.goal = media.goal
      /\ once.begun = media.begun /\ once.answered = media.answered
  BY <1>1 DEF Playbacks
<1>3. /\ meddled \in Playbacks /\ meddled.bases = media.bases /\ meddled.meddled
      /\ meddled.kind = media.kind /\ meddled.gst = media.gst
      /\ meddled.goal = media.goal
      /\ meddled.begun = media.begun /\ meddled.answered = media.answered
  BY <1>1 DEF Playbacks
<1>4. /\ marked \in Gubs /\ marked.synced
      /\ marked.context = gub.context /\ marked.sample = gub.sample
      /\ marked.pipeline = gub.pipeline /\ marked.based = gub.based
      /\ marked.handlers = gub.handlers
  BY <1>1 DEF Gubs
<1>5. CASE SyncSets
  <2>1. /\ gub' = gub /\ mpc = "set"
        /\ media' = IF OfPresent THEN once ELSE IF gub.pipeline = 0 THEN media ELSE meddled
    BY <1>5 DEF SyncSets, Meddled, CallbackAt
  <2>2. ~SyncMarks
    BY <2>1 DEF SyncMarks, CallbackAt
  <2> HIDE DEF once, meddled, marked
  <2> QED BY <1>1, <1>2, <1>3, <1>5, <2>1, <2>2
<1>6. CASE SyncMarks
  <2>1. /\ gub' = marked /\ mpc = "mark"
        /\ media' = IF OfPresent \/ gub.pipeline = 0 THEN media ELSE meddled
    BY <1>6 DEF SyncMarks, Meddled, CallbackAt
  <2>2. ~SyncSets
    BY <2>1 DEF SyncSets, CallbackAt
  <2> HIDE DEF once, meddled, marked
  <2> QED BY <1>1, <1>3, <1>4, <1>6, <2>1, <2>2
<1>7. CASE ~SyncSets /\ ~SyncMarks
  <2>1. gub' = gub /\ (media' = media \/ media' = Seek(media))
    BY <1>7 DEF LoopThread, Dispatch, HandleState, Syncs, HandleFreed, SyncBegins,
                SyncCompares, SyncSeek, SyncPosition
  <2>2. CASE media' = media
    BY <1>1, <1>7, <2>1, <2>2
  <2>3. CASE media' = Seek(media)
    BY <1>1, <1>7, <2>1, <2>3, SeekType DEF SameRun
  <2> QED BY <2>1, <2>2, <2>3
<1> QED BY <1>5, <1>6, <1>7

LEMMA LoopThreadKeeps ==
    ASSUME Assumptions, PlayerInv, LoopThread, UNCHANGED <<scriptVars, captureVars>>
    PROVE  PlayerInv'
<1> USE DEF PlayerInv
<1>1. /\ UNCHANGED <<reports, graphicVars, loads, freed, setup, owned>>
      /\ UNCHANGED <<component, script, queued, told, sized>>
      /\ script # "new"
      /\ bus' \in Seq(Reports \cup {"state"}) /\ (bus = <<>> => bus' = <<>>)
      /\ msg' \in [kind : Reports \cup {"state", "none"}, load : 0 .. MaxLoads]
      /\ mpc' \in CallbackSteps \cup {"idle", "crashed"}
  BY LoopThreadLeaves
<1>2. /\ gub' \in Gubs /\ gub'.context = gub.context /\ gub'.sample = gub.sample
      /\ gub'.pipeline = gub.pipeline /\ gub'.based = gub.based
      /\ media' \in Playbacks /\ media'.kind = media.kind /\ media'.gst = media.gst
      /\ media'.goal = media.goal /\ media'.begun = media.begun
      /\ media'.answered = media.answered
      /\ media.bases \in Nat
  BY LoopThreadMakes DEF TypeOK, PipelineTypeOK, Playbacks
<1>3. TypeOK' /\ NothingLeaks' /\ Untouched' /\ ContextInv'
  <2>1. TypeOK'
    BY <1>1, <1>2
    DEF TypeOK, GraphicTypeOK, PipelineTypeOK, ScriptTypeOK, graphicVars
  <2>2. NothingLeaks' /\ Untouched'
    BY <1>1, <1>2 DEF NothingLeaks, Untouched
  <2>3. ContextInv'
    BY <1>1, <1>2, ContextKeeps DEF ContextInv, BegunInFrame, graphicVars
  <2> QED BY <2>1, <2>2, <2>3
\* The callback is the one there was, or that of the pipeline that runs.
<1>4. \/ Dispatch /\ mpc' = "handle" /\ msg'.load = gub.pipeline /\ media.goal # "NULL"
      \/ msg' = msg /\ mpc \in CallbackSteps
      \/ mpc' \in {"idle", "crashed"}
  BY DEF LoopThread, Dispatch, HandleState, Syncs, HandleFreed, SyncBegins, SyncCompares,
         SyncSeek, SyncPosition, SyncSets, SyncMarks, CallbackAt, CallbackEnds,
         CallbackGoes, CallbackSteps, InService
<1>5. OfPresent' <=> msg'.load = gub.pipeline
  BY <1>2 DEF OfPresent
<1>6. SyncSets /\ OfPresent => OwnCallback /\ gub.pipeline # 0
  BY DEF SyncSets, CallbackAt, OwnCallback, CallbackSteps, CallbackOfAPipeline, OfPresent
<1>7. CallbackOfAPipeline'
  <2>1. gub.pipeline \in 0 .. MaxLoads /\ loads \in 0 .. MaxLoads
    BY DEF TypeOK, PipelineTypeOK, Gubs
  <2> QED BY <1>1, <1>4, <2>1 DEF CallbackOfAPipeline, InService, CallbackSteps
<1>8. InService' /\ SetupAlone'
  <2>1. ~(SyncSets /\ OfPresent) => media'.bases = media.bases
    BY LoopThreadMakes
  <2>2. InService'
    BY <1>1, <1>2, <1>6, <2>1 DEF InService
  <2>3. OwnCallback' => OwnCallback \/ media.goal # "NULL"
    BY <1>4, <1>5 DEF OwnCallback, OfPresent, CallbackSteps
  <2> QED BY <1>1, <1>2, <1>6, <2>1, <2>2, <2>3 DEF SetupAlone
<1>9. BaseTimeInv'
  <2>1. BasedOfPlayer'
    BY <1>1, <1>2 DEF BaseTimeInv, BasedOfPlayer
  <2>2. CASE SyncSets
    <3>1. mpc = "set" /\ mpc' = "mark" /\ msg' = msg /\ gub'.synced = gub.synced
      BY <2>2, LoopThreadMakes DEF SyncSets, SyncMarks, CallbackAt, CallbackGoes
    <3>2. CASE OfPresent
      <4>1. media.bases = 0 /\ media'.bases = 1
        BY <2>2, <3>1, <3>2, LoopThreadMakes DEF BaseTimeInv, BaseTimeAhead
      <4> QED BY <1>2, <1>5, <2>1, <3>1, <3>2, <4>1
              DEF BaseTimeInv, BaseTimeSetOnce, BaseTimeAhead, OfPresent
    <3>3. CASE ~OfPresent
      <4>1. /\ media'.bases = media.bases
            /\ media'.meddled \/ (gub.pipeline = 0 /\ ~gub.based)
        BY <2>2, <3>3, LoopThreadMakes DEF InService
      <4> QED BY <1>1, <1>2, <1>5, <2>1, <3>1, <3>3, <4>1
              DEF BaseTimeInv, BaseTimeSetOnce, BaseTimeAhead, OfPresent
    <3> QED BY <3>2, <3>3
  <2>3. CASE SyncMarks
    <3>1. mpc = "mark" /\ mpc' = "idle" /\ gub'.synced /\ media'.bases = media.bases
      BY <2>3, LoopThreadMakes DEF SyncSets, SyncMarks, CallbackAt, CallbackEnds
    <3>2. OfPresent => media.bases = 1
      BY <3>1 DEF BaseTimeInv, BaseTimeAhead
    <3>3. ~OfPresent => media'.meddled \/ (gub.pipeline = 0 /\ ~gub.based)
      BY <2>3, LoopThreadMakes DEF InService
    <3> QED BY <1>2, <2>1, <3>1, <3>2, <3>3
            DEF BaseTimeInv, BaseTimeSetOnce, BaseTimeAhead
  <2>4. CASE ~SyncSets /\ ~SyncMarks
    <3>1. /\ media'.bases = media.bases /\ media'.meddled = media.meddled
          /\ gub'.synced = gub.synced
      BY <2>4, LoopThreadMakes
    <3>2. /\ mpc = "mark" /\ OfPresent => FALSE
          /\ mpc' # "mark"
          /\ mpc' \in {"compare", "seek", "position", "set"} =>
                /\ msg' = msg
                /\ \/ mpc \in {"compare", "seek", "position", "set"}
                   \/ mpc = "sync" /\ ~gub.synced
      <4>1. mpc = "mark" => HandleFreed
        BY <2>4 DEF LoopThread, Dispatch, HandleState, Syncs, SyncBegins, SyncCompares,
                    SyncSeek, SyncPosition, CallbackAt
      <4>2. HandleFreed => gub.pipeline = 0 /\ ~(mpc \in CallbackSteps /\ OfPresent)
        BY DEF HandleFreed, InService, CallbackOfAPipeline, OfPresent
      <4>3. /\ mpc' # "mark"
            /\ mpc' \in {"compare", "seek", "position", "set"} =>
                  /\ msg' = msg
                  /\ \/ mpc \in {"compare", "seek", "position", "set"}
                     \/ mpc = "sync" /\ ~gub.synced
        BY <2>4 DEF LoopThread, Dispatch, HandleState, Syncs, SyncBegins, SyncCompares,
                    SyncSeek, SyncPosition, HandleFreed, CallbackAt, CallbackEnds,
                    CallbackGoes
      <4> QED BY <4>1, <4>2, <4>3 DEF CallbackSteps
    <3>3. BaseTimeSetOnce'
      BY <1>1, <1>2, <3>1, <3>2 DEF BaseTimeInv, BaseTimeSetOnce
    <3>4. BaseTimeAhead'
      <4>1. mpc = "sync" /\ ~gub.synced => media.bases = 0
        BY <1>2 DEF BaseTimeInv, BaseTimeSetOnce
      <4> QED BY <1>5, <3>1, <3>2, <4>1 DEF BaseTimeInv, BaseTimeAhead, OfPresent
    <3> QED BY <2>1, <3>3, <3>4 DEF BaseTimeInv
  <2> QED BY <2>2, <2>3, <2>4
<1> QED BY <1>3, <1>7, <1>8, <1>9

-----------------------------------------------------------------------------
(* The player. *)

LEMMA InitializeKeeps ==
    ASSUME Assumptions, PlayerInv, Initialize, UNCHANGED captureVars
    PROVE  PlayerInv'
<1> USE DEF PlayerInv
<1>1. /\ script = "new" /\ script' = "live" /\ gub' = Created(Reports)
      /\ UNCHANGED <<media, bus, reports, graphicVars, loads, freed, setup, mpc, msg, owned>>
      /\ UNCHANGED <<component, queued, told, sized>>
  BY DEF Initialize, captureVars, playbackVars, loopThread
<1>2. /\ gub = Zeroed /\ media = Fresh("none") /\ bus = <<>> /\ setup = None /\ mpc = "idle"
  BY <1>1 DEF Untouched
<1>3. /\ gub' \in Gubs /\ gub'.context = None /\ gub'.sample = 0 /\ gub'.pipeline = 0
      /\ gub'.based = FALSE /\ gub'.synced = FALSE
      /\ gub.context = None /\ gub.sample = 0
  BY <1>1, <1>2, ZeroedType DEF Created, Gubs
<1>4. /\ media.kind = "none" /\ media.gst = "NULL"
      /\ media.goal = "NULL" /\ media.begun = "no" /\ media.bases = 0
  BY <1>2, FreshType
<1>5. TypeOK'
  BY <1>1, <1>3
  DEF TypeOK, GraphicTypeOK, PipelineTypeOK, ScriptTypeOK, graphicVars
<1>6. NothingLeaks' /\ Untouched'
  BY <1>1, <1>3 DEF NothingLeaks, Untouched
<1>7. InService' /\ CallbackOfAPipeline' /\ SetupAlone'
  BY <1>1, <1>2, <1>3, <1>4
  DEF InService, CallbackOfAPipeline, SetupAlone, TypeOK, PipelineTypeOK
<1>8. BaseTimeInv'
  BY <1>1, <1>2, <1>3, <1>4 DEF BaseTimeInv, BaseTimeSetOnce, BaseTimeAhead, BasedOfPlayer
<1>9. ContextInv'
  <2>1. BackendOfBuild'
    BY <1>1 DEF ContextInv, BackendOfBuild, graphicVars
  <2> QED BY <1>1, <1>4, <2>1, ContextAnew
<1> QED BY <1>5, <1>6, <1>7, <1>8, <1>9

\* A setup begins where no pipeline is, or by closing the one there is.
LEMMA BeginsSetupKeeps ==
    ASSUME Assumptions, PlayerInv, NEW s \in Setups \cup {Encoding}, NEW closes \in BOOLEAN,
           BeginsSetup(s, closes), script = "live", ~closes => gub.pipeline = 0,
           UNCHANGED <<reports, graphicVars, loads, freed, mpc, msg, component, script>>,
           UNCHANGED <<queued, told, sized>>
    PROVE  PlayerInv'
<1> USE DEF PlayerInv
<1>1. setup' = s /\ s # None /\ script' = "live" /\ loads < MaxLoads
  BY DEF BeginsSetup, Assumptions, ContextAssumption
<1>2. CASE closes
  <2>1. Closes
    BY <1>2 DEF BeginsSetup
  <2>2. /\ freed' \in BOOLEAN /\ (freed' <=> script' = "gone") /\ queued' \in Seq(Reports)
    <3>1. freed \in BOOLEAN /\ (freed <=> script = "gone") /\ queued \in Seq(Reports)
      BY DEF TypeOK, PipelineTypeOK, ScriptTypeOK, InService
    <3>2. freed' = freed /\ script' = script /\ queued' = queued
      OBVIOUS
    <3> QED BY <3>1, <3>2
  <2> QED BY <1>1, <2>1, <2>2, ClosesKeep
<1>3. CASE ~closes
  <2>1. UNCHANGED <<gub, media, owned, bus>> /\ gub.pipeline = 0
    BY <1>3 DEF BeginsSetup
  <2>2. TypeOK'
    BY <1>1, <2>1 DEF TypeOK, GraphicTypeOK, PipelineTypeOK, ScriptTypeOK, graphicVars
  <2>3. NothingLeaks' /\ Untouched'
    BY <1>1, <2>1 DEF NothingLeaks, Untouched
  <2>4. InService' /\ CallbackOfAPipeline' /\ SetupAlone'
    BY <1>1, <2>1 DEF InService, CallbackOfAPipeline, SetupAlone
  <2>5. BaseTimeInv'
    BY <1>1, <2>1
    DEF BaseTimeInv, BaseTimeSetOnce, BaseTimeAhead, BasedOfPlayer, OfPresent
  <2>6. ContextInv'
    BY <2>1 DEF ContextInv, BackendOfBuild, SinkHasBackend, BegunInFrame,
                BegunWithContext, RendersInUnitysContext, Provided, ProvidedEGL, graphicVars
  <2> QED BY <2>2, <2>3, <2>4, <2>5, <2>6
<1> QED BY <1>2, <1>3

\* What a pipeline is set up with.
LEMMA SetupType ==
    ASSUME Assumptions, NEW s \in Setups \cup {Encoding}
    PROVE  s \in [crop : Crops, clock : BOOLEAN, based : BOOLEAN]
<1>1. Encoding \in [crop : Crops, clock : BOOLEAN, based : BOOLEAN]
  BY DEF Encoding, Crops
<1>2. Setups \subseteq [crop : Crops, clock : BOOLEAN, based : BOOLEAN]
  BY DEF Assumptions, SetupAssumption
<1>3. CASE s = Encoding
  <2> HIDE DEF Encoding
  <2> QED BY <1>1, <1>3
<1>4. CASE s \in Setups
  BY <1>2, <1>4
<1> QED BY <1>3, <1>4

\* The pipeline is there, with a media that does not run and nobody knows of.
LEMMA LaunchesKeeps ==
    ASSUME Assumptions, PlayerInv, Launches, component = "texture",
           UNCHANGED <<bus, reports, freed, loopThread, owned, scriptVars, sized>>
    PROVE  PlayerInv'
<1> USE DEF PlayerInv
<1>1. /\ setup # None /\ setup' = setup /\ script = "live" /\ script' = "live"
      /\ UNCHANGED <<mpc, msg, component, queued, told>>
      /\ gub.pipeline = 0 /\ bus = <<>> /\ ~gub.based
      /\ loads < MaxLoads /\ loads' = loads + 1
  BY DEF Launches, SetupAlone, InService, loopThread, scriptVars
<1>2. /\ gub \in Gubs /\ loads \in 0 .. MaxLoads /\ MaxLoads \in Nat
      /\ setup \in Setups \cup {Encoding}
  BY <1>1 DEF TypeOK, PipelineTypeOK, Assumptions, SetupAssumption
<1>3. setup.crop \in Crops /\ setup.based \in BOOLEAN /\ setup.clock \in BOOLEAN
  BY <1>2, SetupType
<1>4. /\ gub' \in Gubs /\ gub'.context = gub.context /\ gub'.sample = gub.sample
      /\ gub'.pipeline = loads + 1 /\ gub'.based = gub.based
  <2> DEFINE crop == IF setup.crop = "all" THEN gub.crop ELSE setup.crop
             blit == gub.cropBlit \/ CropsInCopy(Assumed)
             clock == gub.clock \/ setup.clock
  <2>1. gub' = [gub EXCEPT !.pipeline = loads + 1, !.cropBlit = blit, !.crop = crop,
                           !.clock = clock]
    BY DEF Launches, Decoding
  <2>2. /\ crop \in {"no", "part"} /\ blit \in BOOLEAN /\ clock \in BOOLEAN
        /\ loads + 1 \in 0 .. MaxLoads
    BY <1>1, <1>2, <1>3 DEF Gubs, Crops
  <2> HIDE DEF crop, blit, clock
  <2> QED BY <1>2, <2>1, <2>2 DEF Gubs
<1>5. /\ media' \in Playbacks /\ media'.gst = "NULL" /\ media'.goal = "NULL"
      /\ media'.begun = "no" /\ media'.bases = 0
      /\ media'.kind = "sink" => Assumed # None
  BY FreshType DEF Launches
<1>6. /\ backend' = Assumed /\ Assumed \in Backends \cup {None}
      /\ Assumed # None => Assumed \in build
      /\ UNCHANGED <<build, device, unity>>
  BY DEF Launches, Assumed, TypeOK, GraphicTypeOK, ContextInv, BackendOfBuild, Backends
<1>7. TypeOK'
  <2>1. GraphicTypeOK' /\ ScriptTypeOK' /\ sized' \in BOOLEAN
    BY <1>1, <1>6 DEF TypeOK, GraphicTypeOK, ScriptTypeOK
  <2>2. loads' \in 0 .. MaxLoads
    BY <1>1, <1>2
  <2>3. PipelineTypeOK'
    BY <1>1, <1>4, <1>5, <2>2 DEF TypeOK, PipelineTypeOK
  <2> QED BY <2>1, <2>3 DEF TypeOK
<1>8. NothingLeaks' /\ Untouched'
  BY <1>1, <1>4 DEF NothingLeaks, Untouched
\* Callbacks that are still there are of an earlier pipeline.
<1>9. mpc' \in CallbackSteps => ~OfPresent'
  BY <1>1, <1>2, <1>4 DEF CallbackOfAPipeline, OfPresent
<1>10. InService' /\ CallbackOfAPipeline' /\ SetupAlone'
  <2>1. InService'
    BY <1>1, <1>2, <1>4, <1>5 DEF InService
  <2>2. CallbackOfAPipeline'
    BY <1>1, <1>2 DEF CallbackOfAPipeline
  <2>3. SetupAlone'
    BY <1>1, <1>2, <1>4, <1>5, <1>9 DEF SetupAlone, OwnCallback
  <2> QED BY <2>1, <2>2, <2>3
<1>11. BaseTimeInv'
  BY <1>1, <1>4, <1>5, <1>9
  DEF BaseTimeInv, BaseTimeSetOnce, BaseTimeAhead, BasedOfPlayer, CallbackSteps
<1>12. ContextInv'
  <2>1. BackendOfBuild'
    BY <1>6 DEF BackendOfBuild
  <2> QED BY <1>1, <1>5, <1>6, <2>1, ContextAnew
<1> QED BY <1>7, <1>8, <1>10, <1>11, <1>12

\* The setup returns: with the base time and its mark, or without a pipeline.
LEMMA SetupEndsKeeps ==
    ASSUME Assumptions, PlayerInv, LaunchFails \/ EndsDecoding, component = "texture",
           UNCHANGED <<bus, reports, freed, loopThread, owned, scriptVars, sized>>
    PROVE  PlayerInv'
<1> USE DEF PlayerInv
<1>1. /\ setup # None /\ setup' = None
      /\ UNCHANGED <<media, loads, mpc, msg, component, script, queued, told, graphicVars>>
      /\ script = "live" /\ gub \in Gubs
  BY DEF LaunchFails, EndsDecoding, SetupAlone, loopThread, scriptVars, TypeOK,
         PipelineTypeOK
<1>2. /\ gub' \in Gubs /\ gub'.context = gub.context /\ gub'.sample = gub.sample
      /\ gub'.pipeline = gub.pipeline
      /\ \/ gub' = gub /\ gub.pipeline = 0
         \/ (gub'.synced => ~gub'.based) /\ gub.pipeline # 0
  <2>1. CASE LaunchFails
    BY <1>1, <2>1 DEF LaunchFails
  <2>2. CASE EndsDecoding
    <3> DEFINE based == setup.based
               free == ~setup.based
    <3>1. setup \in Setups \cup {Encoding}
      BY <1>1 DEF TypeOK, PipelineTypeOK
    <3>2. based \in BOOLEAN
      BY <3>1, SetupType
    <3>3. gub' = [gub EXCEPT !.based = based, !.synced = free] /\ gub.pipeline # 0
      BY <2>2 DEF EndsDecoding
    <3>4. free = ~based
      OBVIOUS
    <3> HIDE DEF based, free
    <3>5. /\ gub' \in Gubs /\ gub'.context = gub.context /\ gub'.sample = gub.sample
          /\ gub'.pipeline = gub.pipeline
          /\ gub'.based = based /\ gub'.synced = free
      BY <1>1, <3>2, <3>3, <3>4 DEF Gubs
    <3> QED BY <3>3, <3>4, <3>5
  <2> QED BY <2>1, <2>2
<1>3. TypeOK'
  BY <1>1, <1>2
  DEF TypeOK, GraphicTypeOK, PipelineTypeOK, ScriptTypeOK, graphicVars
<1>4. NothingLeaks' /\ Untouched'
  BY <1>1, <1>2 DEF NothingLeaks, Untouched
<1>5. InService' /\ CallbackOfAPipeline' /\ SetupAlone'
  BY <1>1, <1>2 DEF InService, CallbackOfAPipeline, SetupAlone
<1>6. BaseTimeInv'
  <2>1. media'.bases = 0
    BY <1>1 DEF SetupAlone, InService
  <2>2. mpc' \in CallbackSteps => ~OfPresent'
    BY <1>1, <1>2 DEF SetupAlone, OwnCallback, CallbackOfAPipeline, OfPresent, TypeOK,
                      PipelineTypeOK
  <2>3. gub'.synced => ~gub'.based
    BY <1>2 DEF InService
  <2> QED BY <1>1, <2>1, <2>2, <2>3
          DEF BaseTimeInv, BaseTimeSetOnce, BaseTimeAhead, BasedOfPlayer, CallbackSteps
<1>7. ContextInv'
  BY <1>1, <1>2 DEF ContextInv, BackendOfBuild, SinkHasBackend, BegunInFrame,
                    BegunWithContext, RendersInUnitysContext, Provided, ProvidedEGL,
                    graphicVars
<1> QED BY <1>3, <1>4, <1>5, <1>6, <1>7

LEMMA SetupKeeps ==
    ASSUME Assumptions, PlayerInv, Setup \/ SetupRuns, UNCHANGED captureVars
    PROVE  PlayerInv'
<1>1. CASE Setup
  <2>1. PICK s \in Setups : BeginsSetup(s, gub.pipeline # 0 \/ gub.playing)
    BY <1>1 DEF Setup
  <2>2. (gub.pipeline # 0 \/ gub.playing) \in BOOLEAN
    OBVIOUS
  <2> QED BY <1>1, <2>1, <2>2, BeginsSetupKeeps
          DEF Setup, Live, loopThread, scriptVars, captureVars
<1>2. CASE SetupRuns
  BY <1>2, LaunchesKeeps, SetupEndsKeeps DEF SetupRuns, captureVars
<1> QED BY <1>1, <1>2

\* Play, Pause and Stop.
LEMMA CommandsKeep ==
    ASSUME Assumptions, PlayerInv,
           Commands(Play(Present)) \/ Commands(Pause(Present)) \/ Stop,
           UNCHANGED captureVars
    PROVE  PlayerInv'
<1> USE DEF PlayerInv
<1>1. media \in Playbacks /\ gub \in Gubs /\ owned \in [contexts : Nat, samples : Nat]
  BY DEF TypeOK, PipelineTypeOK
<1>2. /\ UNCHANGED <<reports, graphicVars, loads, freed, setup, mpc, msg>>
      /\ UNCHANGED <<component, script, queued, told, sized>>
      /\ script = "live" /\ setup = None
      /\ bus' \in {bus, <<>>}
  BY DEF Commands, Stop, Stops, Live, pipelineVars, loopThread, scriptVars, captureVars
<1>3. /\ gub' \in Gubs /\ owned' = owned
      /\ gub'.context = gub.context /\ gub'.sample = gub.sample /\ SameSetup(gub, gub')
  <2> DEFINE asked == [gub EXCEPT !.requested = TRUE]
             paused == [gub EXCEPT !.requested = FALSE, !.playing = FALSE]
  <2>1. CASE Commands(Play(Present))
    <3>1. gub' = asked /\ owned' = owned
      BY <2>1 DEF Commands, Becomes, Play, Present
    <3> QED BY <1>1, <3>1 DEF Gubs, SameSetup
  <2>2. CASE Commands(Pause(Present))
    <3>1. (gub' = gub \/ gub' = paused) /\ owned' = owned
      BY <2>2 DEF Commands, Becomes, Pause, Present
    <3> QED BY <1>1, <3>1 DEF Gubs, SameSetup
  <2>3. CASE Stop
    BY <1>1, <2>3 DEF Stop, SameSetup, pipelineVars
  <2> QED BY <2>1, <2>2, <2>3
<1>4. \/ media' = media /\ (bus' = bus \/ bus = <<>>)
      \/ media' = SetState(media, "PAUSED", "pause") /\ bus' = bus /\ gub.pipeline # 0
      \/ media' = SetNull(media) /\ bus' = <<>>
  BY DEF Commands, Becomes, Play, Pause, Present, Stop, Stops
<1>5. /\ media' \in Playbacks
      /\ media'.kind = media.kind
      /\ media'.bases = media.bases /\ media'.meddled = media.meddled
      /\ media'.begun = media.begun \/ (media.begun = "no" /\ media'.begun = "pause")
      /\ media'.gst # "NULL" \/ media'.goal # "NULL" => media'.begun # "no"
      /\ media'.gst # "NULL" => media.gst # "NULL" /\ media'.answered = media.answered
      /\ media'.goal = media.goal \/ (gub.pipeline = 0 => media'.goal = "NULL")
      /\ media'.goal = "NULL" => media'.gst = "NULL" /\ bus' = <<>>
  <2>1. CASE media' = media /\ (bus' = bus \/ bus = <<>>)
    BY <1>1, <1>2, <2>1 DEF ContextInv, BegunInFrame, InService
  <2>2. CASE media' = SetState(media, "PAUSED", "pause") /\ bus' = bus /\ gub.pipeline # 0
    BY <1>1, <2>2, SetStateType DEF SameRun
  <2>3. CASE media' = SetNull(media) /\ bus' = <<>>
    BY <1>1, <2>3, SetNullType
  <2> QED BY <1>4, <2>1, <2>2, <2>3
<1>6. TypeOK'
  <2>1. bus' \in Seq(Reports \cup {"state"})
    <3>1. bus' = bus \/ bus' = <<>>
      BY <1>2
    <3>2. bus \in Seq(Reports \cup {"state"})
      BY DEF TypeOK, PipelineTypeOK
    <3>3. <<>> \in Seq(Reports \cup {"state"})
      OBVIOUS
    <3> QED BY <3>1, <3>2, <3>3, Zenon
  <2>2. GraphicTypeOK' /\ ScriptTypeOK' /\ sized' \in BOOLEAN
    BY <1>2 DEF TypeOK, GraphicTypeOK, ScriptTypeOK, graphicVars
  <2>3. PipelineTypeOK'
    BY <1>2, <1>3, <1>5, <2>1 DEF TypeOK, PipelineTypeOK
  <2> QED BY <2>2, <2>3 DEF TypeOK
<1>7. NothingLeaks' /\ Untouched'
  BY <1>2, <1>3 DEF NothingLeaks, Untouched
<1>8. InService' /\ CallbackOfAPipeline' /\ SetupAlone' /\ BaseTimeInv'
  BY <1>2, <1>3, <1>5, RunsOn
<1>9. ContextInv'
  BY <1>2, <1>3, <1>5, ContextKeeps DEF graphicVars
<1> QED BY <1>6, <1>7, <1>8, <1>9

\* Reports are queued, or executed.
LEMMA ReportsKeep ==
    ASSUME Assumptions, PlayerInv, ProcessEvents \/ Report, UNCHANGED captureVars
    PROVE  PlayerInv'
<1> USE DEF PlayerInv
<1>1. media \in Playbacks /\ queued \in Seq(Reports) /\ told \in Seq(Reports)
  BY DEF TypeOK, PipelineTypeOK, ScriptTypeOK
<1>2. /\ UNCHANGED <<bus, reports, graphicVars, gub, loads, freed, setup, owned>>
      /\ UNCHANGED <<component, script, sized>> /\ script # "new"
      /\ \/ UNCHANGED <<mpc, msg>>
         \/ mpc = "handle" /\ mpc' = "idle" /\ msg' = [kind |-> "none", load |-> 0]
      /\ media' = media \/ media' = Seek(media)
  BY DEF ProcessEvents, Report, HandlesReport, CallbackAt, CallbackEnds, CallbackLeaves,
         Live, Untouched, pipelineVars, captureVars
<1>3. queued' \in Seq(Reports) /\ told' \in Seq(Reports)
  <2>1. CASE ProcessEvents
    BY <1>1, <2>1 DEF ProcessEvents
  <2>2. CASE Report
    BY <1>1, <2>2 DEF Report, Heard, HandlesReport
  <2> QED BY <2>1, <2>2
<1>4. /\ media' \in Playbacks /\ media'.kind = media.kind /\ media'.bases = media.bases
      /\ media'.begun = media.begun /\ media'.gst = media.gst
      /\ media'.goal = media.goal /\ media'.answered = media.answered
      /\ media'.meddled = media.meddled
  BY <1>1, <1>2, SeekType DEF SameRun
<1>5. /\ msg' \in [kind : Reports \cup {"state", "none"}, load : 0 .. MaxLoads]
      /\ mpc' \in CallbackSteps \cup {"idle", "crashed"}
  BY <1>2 DEF TypeOK, PipelineTypeOK, Assumptions, SetupAssumption
<1>6. TypeOK'
  BY <1>2, <1>3, <1>4, <1>5
  DEF TypeOK, GraphicTypeOK, PipelineTypeOK, ScriptTypeOK, graphicVars
<1>7. NothingLeaks' /\ Untouched'
  BY <1>2 DEF NothingLeaks, Untouched
<1>8. InService' /\ CallbackOfAPipeline' /\ SetupAlone' /\ BaseTimeInv'
  <2>1. media'.goal = "NULL" => media'.gst = "NULL" /\ bus' = <<>>
    BY <1>2, <1>4 DEF InService
  <2> QED BY <1>2, <1>4, <2>1, RunsOn DEF SameSetup, CallbackSteps
<1>9. ContextInv'
  BY <1>2, <1>4, ContextKeeps DEF ContextInv, BegunInFrame, graphicVars
<1> QED BY <1>6, <1>7, <1>8, <1>9

\* A frame.
LEMMA UpdateKeeps ==
    ASSUME Assumptions, PlayerInv, Update, UNCHANGED captureVars
    PROVE  PlayerInv'
<1> USE DEF PlayerInv
<1> DEFINE grab == Grabbed(Present)
           drop == DropsSample(grab)
           blit == Blitted(grab)
           st == [gub |-> gub', media |-> media', owned |-> owned']
<1>1. /\ Present \in States /\ Owns(Present) /\ backend \in Backends \cup {None}
      /\ Present.gub = gub /\ Present.media = media /\ Present.owned = owned
      /\ build \in Builds /\ media.begun \in {"no", "play", "pause", "frame"}
  BY DEF Playbacks, Present, States, Owns, NothingLeaks, TypeOK, PipelineTypeOK, GraphicTypeOK
<1>2. /\ UNCHANGED <<bus, reports, graphicVars, loads, freed, setup, mpc, msg>>
      /\ UNCHANGED <<component, script, queued, told, sized>>
      /\ Draws /\ script = "live" /\ setup = None
  BY DEF Update, Draws, Live, loopThread, scriptVars, captureVars
<1>3. backend = "egl" => unity = "on"
  BY <1>1, <1>2
  DEF ContextInv, BackendOfBuild, Draws, Assumptions, BuildAssumption, Backends
<1>4. /\ grab \in States /\ Owns(grab)
      /\ SameSetup(gub, grab.gub)
      /\ gub.context # None => grab.gub.context = gub.context
      /\ backend \in {"d3d9", "d3d11", "egl"} => grab.gub.context # None
      /\ SameRun(media, grab.media)
      /\ grab.media = media \/
           /\ gub.pipeline # 0
           /\ grab.media.goal = "PLAYING"
           /\ grab.media.begun = IF media.begun = "no" THEN "frame" ELSE media.begun
  BY <1>1, <1>3, GrabbedType
<1>5. Becomes(grab) \/ Becomes(drop) \/ Becomes(blit)
  BY DEF Update
<1> HIDE DEF grab
<1>6. /\ drop \in States /\ Owns(drop)
      /\ SameSetup(grab.gub, drop.gub) /\ drop.media = grab.media
      /\ drop.gub.context = grab.gub.context
  BY <1>4, DropsSampleType
<1>7. /\ blit \in States /\ Owns(blit)
      /\ SameSetup(grab.gub, blit.gub)
      /\ blit.gub.context = None <=> grab.gub.context = None
      /\ backend # "d3d11" => blit.gub.context = grab.gub.context
      /\ SameRun(grab.media, blit.media)
      /\ blit.media.goal = grab.media.goal /\ blit.media.begun = grab.media.begun
  BY <1>4, BlittedType
<1> HIDE DEF drop, blit
\* All three are structures with what they own.
<1>8. /\ gub' \in Gubs /\ media' \in Playbacks /\ owned' \in [contexts : Nat, samples : Nat]
      /\ NothingLeaks'
  <2>1. ASSUME NEW n \in States, Owns(n), Becomes(n)
        PROVE  /\ gub' \in Gubs /\ media' \in Playbacks
               /\ owned' \in [contexts : Nat, samples : Nat] /\ NothingLeaks'
    BY <2>1 DEF States, Owns, Becomes, NothingLeaks
  <2> QED BY <1>4, <1>5, <1>6, <1>7, <2>1
<1>9. /\ SameSetup(gub, gub') /\ SameRun(media, media')
      /\ gub.context # None => gub'.context # None
      /\ backend # "d3d11" /\ gub.context # None => gub'.context = gub.context
      /\ backend = "egl" => gub'.context # None
      /\ \/ media'.goal = media.goal /\ media'.begun = media.begun
         \/ /\ gub.pipeline # 0
            /\ media'.goal = "PLAYING"
            /\ media'.begun = IF media.begun = "no" THEN "frame" ELSE media.begun
  BY <1>4, <1>5, <1>6, <1>7 DEF Becomes, SameSetup, SameRun
<1>10. TypeOK'
  <2>1. GraphicTypeOK' /\ ScriptTypeOK' /\ sized' \in BOOLEAN
    BY <1>2 DEF TypeOK, GraphicTypeOK, ScriptTypeOK, graphicVars
  <2>2. PipelineTypeOK'
    BY <1>2, <1>8 DEF TypeOK, PipelineTypeOK
  <2> QED BY <2>1, <2>2 DEF TypeOK
<1>11. Untouched'
  BY <1>2 DEF Untouched
<1>12. InService' /\ CallbackOfAPipeline' /\ SetupAlone' /\ BaseTimeInv'
  <2>1. media'.goal = "NULL" => media'.gst = "NULL" /\ bus' = <<>>
    BY <1>2, <1>9 DEF InService, SameRun
  <2> QED BY <1>2, <1>9, <2>1, RunsOn DEF SameRun
<1>13. BackendOfBuild' /\ SinkHasBackend' /\ BegunInFrame' /\ BegunWithContext'
  <2>1. BackendOfBuild' /\ SinkHasBackend'
    BY <1>2, <1>9 DEF ContextInv, BackendOfBuild, SinkHasBackend, SameRun, graphicVars
  <2>2. BegunInFrame'
    BY <1>9 DEF ContextInv, BegunInFrame, SameRun
  <2>3. BegunWithContext'
    BY <1>2, <1>9 DEF BegunWithContext, graphicVars
  <2> QED BY <2>1, <2>2, <2>3
<1>14. RendersInUnitysContext'
  <2> SUFFICES ASSUME media'.gst # "NULL", media'.kind = "sink", media'.begun # "pause"
               PROVE  media'.answered = Provided(gub.context)'
    BY DEF RendersInUnitysContext
  <2>1. /\ media.gst # "NULL" /\ media.kind = "sink" /\ media'.answered = media.answered
        /\ media.begun = "frame" /\ backend' = backend
    BY <1>1, <1>2, <1>9
    DEF ContextInv, BegunInFrame, SameRun, graphicVars
  <2>2. media.answered = Provided(gub.context)
    BY <2>1 DEF ContextInv, RendersInUnitysContext
  <2>3. backend = "egl" => gub'.context = gub.context
    BY <1>9, <2>1 DEF ContextInv, BegunWithContext
  <2> QED BY <2>1, <2>2, <2>3 DEF Provided, ProvidedEGL
<1> QED BY <1>8, <1>10, <1>11, <1>12, <1>13, <1>14 DEF ContextInv

-----------------------------------------------------------------------------
(* The recorder. *)

LEMMA StartCaptureKeeps ==
    ASSUME Assumptions, PlayerInv, StartCapture
    PROVE  PlayerInv'
<1> USE DEF PlayerInv
<1>1. /\ script = "new" /\ script' = "live"
      /\ UNCHANGED <<bus, freed, setup, owned, told, sized>>
      /\ UNCHANGED <<reports, graphicVars, mpc, msg, component, queued>>
  BY DEF StartCapture, Unaffected, loopThread
<1>2. /\ gub = Zeroed /\ media = Fresh("none") /\ bus = <<>> /\ setup = None /\ mpc = "idle"
  BY <1>1 DEF Untouched
<1>3. /\ Created({"eos"}) \in Gubs /\ Created({"eos"}).context = None
      /\ Created({"eos"}).sample = 0 /\ Created({"eos"}).pipeline = 0
      /\ Created({"eos"}).based = FALSE /\ Created({"eos"}).synced = FALSE
      /\ gub.context = None /\ gub.sample = 0
  BY <1>2, ZeroedType DEF Created, Gubs, Reports
<1>4. /\ gub' \in Gubs /\ gub'.context = None /\ gub'.sample = 0
      /\ gub'.based = FALSE /\ gub'.synced = FALSE
      /\ loads' \in 0 .. MaxLoads /\ gub'.pipeline <= loads' /\ loads <= loads'
      /\ media' = Fresh("none") \/ media' = Fresh("appsrc")
  <2>1. loads \in 0 .. MaxLoads /\ MaxLoads \in Nat
    BY DEF TypeOK, PipelineTypeOK, Assumptions, SetupAssumption
  <2>2. CASE gub' = Created({"eos"}) /\ UNCHANGED <<loads, media>>
    BY <1>2, <1>3, <2>1, <2>2
  <2>3. CASE /\ loads < MaxLoads
             /\ loads' = loads + 1
             /\ gub' = [Created({"eos"}) EXCEPT !.pipeline = loads + 1, !.requested = TRUE]
             /\ media' = Fresh("appsrc")
    <3>1. loads + 1 \in 0 .. MaxLoads
      BY <2>1, <2>3
    <3>2. /\ gub' \in Gubs /\ gub'.context = None /\ gub'.sample = 0
          /\ gub'.based = FALSE /\ gub'.synced = FALSE /\ gub'.pipeline = loads + 1
      BY <1>3, <2>3, <3>1 DEF Gubs
    <3> QED BY <2>1, <2>3, <3>1, <3>2
  <2> QED BY <2>2, <2>3 DEF StartCapture
<1>5. /\ media' \in Playbacks /\ media'.kind # "sink" /\ media'.gst = "NULL"
      /\ media'.goal = "NULL" /\ media'.begun = "no" /\ media'.bases = 0
  BY <1>4, FreshType
<1>6. TypeOK'
  <2>1. GraphicTypeOK' /\ ScriptTypeOK' /\ sized' \in BOOLEAN
    BY <1>1 DEF TypeOK, GraphicTypeOK, ScriptTypeOK, graphicVars
  <2>2. PipelineTypeOK'
    BY <1>1, <1>4, <1>5 DEF TypeOK, PipelineTypeOK
  <2> QED BY <2>1, <2>2 DEF TypeOK
<1>7. NothingLeaks' /\ Untouched'
  BY <1>1, <1>3, <1>4 DEF NothingLeaks, Untouched
<1>8. InService' /\ CallbackOfAPipeline' /\ SetupAlone'
  <2>1. InService'
    BY <1>1, <1>2, <1>4, <1>5 DEF InService
  <2> QED BY <1>1, <1>2, <2>1 DEF CallbackOfAPipeline, SetupAlone, CallbackSteps
<1>9. BaseTimeInv'
  BY <1>1, <1>2, <1>4, <1>5 DEF BaseTimeInv, BaseTimeSetOnce, BaseTimeAhead, BasedOfPlayer
<1>10. ContextInv'
  <2>1. BackendOfBuild'
    BY <1>1 DEF ContextInv, BackendOfBuild, graphicVars
  <2> QED BY <1>5, <2>1, ContextAnew
<1> QED BY <1>6, <1>7, <1>8, <1>9, <1>10

LEMMA UpdateResizedKeeps ==
    ASSUME Assumptions, PlayerInv, UpdateResized
    PROVE  PlayerInv'
<1>1. (gub.pipeline # 0) \in BOOLEAN
  OBVIOUS
<1> QED BY <1>1, BeginsSetupKeeps DEF UpdateResized, Recording, Unaffected, loopThread

\* The recorder is set up, and plays at once.
LEMMA ResizeRunsKeeps ==
    ASSUME Assumptions, PlayerInv, ResizeRuns
    PROVE  PlayerInv'
<1> USE DEF PlayerInv
<1> DEFINE h == [gub EXCEPT !.pipeline = loads + 1, !.requested = TRUE]
           anew == [gub |-> h, media |-> Fresh("appsrc"), owned |-> owned]
           meets == MeetsRequest(anew)
<1>1. /\ setup # None /\ setup' = None /\ loads' = loads + 1 /\ Becomes(meets)
      /\ component = "capture" /\ sized' = TRUE
      /\ UNCHANGED <<bus, freed, script, told>>
      /\ UNCHANGED <<reports, graphicVars, mpc, msg, component, queued>>
  BY DEF ResizeRuns, Encodes, ConsumeImage, Unaffected, loopThread
<1>2. /\ gub.pipeline = 0 /\ loads < MaxLoads /\ bus = <<>> /\ ~gub.based
      /\ script = "live"
  BY <1>1 DEF SetupAlone, InService
<1>3. /\ gub \in Gubs /\ loads \in 0 .. MaxLoads /\ MaxLoads \in Nat
      /\ owned \in [contexts : Nat, samples : Nat]
  BY DEF TypeOK, PipelineTypeOK, Assumptions, SetupAssumption
<1>4. /\ h \in Gubs /\ h.context = gub.context /\ h.sample = gub.sample
      /\ h.pipeline = loads + 1 /\ h.based = gub.based
  <2>1. loads + 1 \in 0 .. MaxLoads
    BY <1>2, <1>3
  <2> QED BY <1>3, <2>1 DEF Gubs
<1>5. /\ Fresh("appsrc") \in Playbacks /\ Fresh("appsrc").kind = "appsrc"
      /\ Fresh("appsrc").gst = "NULL" /\ Fresh("appsrc").goal = "NULL"
      /\ Fresh("appsrc").begun = "no" /\ Fresh("appsrc").bases = 0
  BY FreshType
<1>6. anew \in States /\ anew.gub = h /\ anew.media = Fresh("appsrc") /\ anew.owned = owned
  <2> HIDE DEF h
  <2> QED BY <1>3, <1>4, <1>5 DEF States
<1> HIDE DEF h, anew
<1>7. /\ gub' \in Gubs /\ gub'.context = gub.context /\ gub'.sample = gub.sample
      /\ gub'.pipeline = loads + 1 /\ ~gub'.based
      /\ owned' = owned
      /\ media' \in Playbacks /\ media'.kind = "appsrc" /\ media'.gst = "NULL"
      /\ media'.bases = 0 /\ media'.begun # "play"
      /\ media'.goal # "NULL" => media'.begun # "no"
  <2>1. /\ meets \in States /\ SameSetup(h, meets.gub)
        /\ meets.gub.context = h.context /\ meets.gub.sample = h.sample
        /\ meets.owned = owned
        /\ SameRun(anew.media, meets.media)
        /\ meets.media = anew.media \/
             /\ meets.media.goal = "PLAYING"
             /\ meets.media.begun = IF anew.media.begun = "no" THEN "frame"
                                    ELSE anew.media.begun
    BY <1>6, MeetsRequestType
  <2> HIDE DEF meets
  <2>2. gub' = meets.gub /\ media' = meets.media /\ owned' = meets.owned
    BY <1>1 DEF Becomes
  <2> QED BY <1>2, <1>4, <1>5, <1>6, <2>1, <2>2 DEF States, SameSetup, SameRun
<1> HIDE DEF meets
<1>8. TypeOK'
  <2>1. GraphicTypeOK' /\ ScriptTypeOK'
    BY <1>1 DEF TypeOK, GraphicTypeOK, ScriptTypeOK, graphicVars
  <2>2. sized' \in BOOLEAN
    BY <1>1, Zenon
  <2>3. loads' \in 0 .. MaxLoads
    BY <1>1, <1>2, <1>3
  <2>4. PipelineTypeOK'
    BY <1>1, <1>3, <1>7, <2>3 DEF TypeOK, PipelineTypeOK
  <2> QED BY <2>1, <2>2, <2>4 DEF TypeOK
<1>9. NothingLeaks' /\ Untouched'
  BY <1>1, <1>2, <1>7 DEF NothingLeaks, Untouched
<1>10. mpc' \in CallbackSteps => ~OfPresent'
  BY <1>1, <1>3, <1>7 DEF CallbackOfAPipeline, OfPresent
<1>11. InService' /\ CallbackOfAPipeline' /\ SetupAlone'
  <2>1. InService'
    BY <1>1, <1>2, <1>3, <1>7 DEF InService
  <2>2. CallbackOfAPipeline'
    BY <1>1, <1>3 DEF CallbackOfAPipeline
  <2> QED BY <1>1, <2>1, <2>2 DEF SetupAlone
<1>12. BaseTimeInv'
  BY <1>1, <1>7, <1>10
  DEF BaseTimeInv, BaseTimeSetOnce, BaseTimeAhead, BasedOfPlayer, CallbackSteps
<1>13. ContextInv'
  <2>1. BackendOfBuild'
    BY <1>1 DEF ContextInv, BackendOfBuild, graphicVars
  <2> QED BY <1>7, <2>1, ContextAnew
<1> QED BY <1>8, <1>9, <1>11, <1>12, <1>13

\* The image is pushed, which may start the pipeline; it has no video sink.
LEMMA UpdateCaptureKeeps ==
    ASSUME Assumptions, PlayerInv, UpdateCapture
    PROVE  PlayerInv'
<1> USE DEF PlayerInv
<1> DEFINE meets == MeetsRequest(Present)
<1>1. /\ script = "live" /\ component = "capture" /\ Becomes(meets)
      /\ UNCHANGED <<bus, loads, freed, setup, script, told, sized>>
      /\ UNCHANGED <<reports, graphicVars, mpc, msg, component, queued>>
      /\ setup = None
  BY DEF UpdateCapture, ConsumeImage, Recording, Unaffected, loopThread
<1>2. /\ Present \in States
      /\ Present.gub = gub /\ Present.media = media /\ Present.owned = owned
  BY DEF Present, States, TypeOK, PipelineTypeOK
<1>3. /\ gub' \in Gubs /\ gub'.context = gub.context /\ gub'.sample = gub.sample
      /\ SameSetup(gub, gub') /\ owned' = owned
      /\ media' \in Playbacks /\ SameRun(media, media')
      /\ media' = media \/ /\ gub.pipeline # 0
                           /\ media'.goal = "PLAYING"
                           /\ media'.begun =
                                IF media.begun = "no" THEN "frame" ELSE media.begun
  <2>1. /\ meets \in States /\ SameSetup(gub, meets.gub)
        /\ meets.gub.context = gub.context /\ meets.gub.sample = gub.sample
        /\ meets.owned = owned
        /\ SameRun(media, meets.media)
        /\ meets.media = media \/
             /\ gub.pipeline # 0
             /\ meets.media.goal = "PLAYING"
             /\ meets.media.begun = IF media.begun = "no" THEN "frame" ELSE media.begun
    BY <1>2, MeetsRequestType
  <2> HIDE DEF meets
  <2> QED BY <1>1, <2>1 DEF Becomes, States
<1> HIDE DEF meets
<1>4. TypeOK'
  <2>1. GraphicTypeOK' /\ ScriptTypeOK' /\ sized' \in BOOLEAN
    BY <1>1 DEF TypeOK, GraphicTypeOK, ScriptTypeOK, graphicVars
  <2>2. PipelineTypeOK'
    BY <1>1, <1>3 DEF TypeOK, PipelineTypeOK
  <2> QED BY <2>1, <2>2 DEF TypeOK
<1>5. NothingLeaks' /\ Untouched'
  BY <1>1, <1>3 DEF NothingLeaks, Untouched
<1>6. InService' /\ CallbackOfAPipeline' /\ SetupAlone' /\ BaseTimeInv'
  <2>1. media'.goal = "NULL" => media'.gst = "NULL" /\ bus' = <<>>
    BY <1>1, <1>3 DEF InService
  <2> QED BY <1>1, <1>3, <2>1, RunsOn DEF SameRun
<1>7. media'.kind # "sink"
  BY <1>1, <1>3 DEF ContextInv, SinkHasBackend, SameRun
<1>8. BackendOfBuild' /\ SinkHasBackend' /\ BegunWithContext' /\ RendersInUnitysContext'
  BY <1>1, <1>7
  DEF ContextInv, BackendOfBuild, SinkHasBackend, BegunWithContext, RendersInUnitysContext,
      graphicVars
<1>9. BegunInFrame'
  BY <1>3 DEF ContextInv, BegunInFrame
<1> QED BY <1>4, <1>5, <1>6, <1>8, <1>9 DEF ContextInv

\* A change of size, the end sent down the pipeline, the end reported.
LEMMA OtherCaptureKeeps ==
    ASSUME Assumptions, PlayerInv, Resize \/ BeginDestroy \/ OnFinish
    PROVE  PlayerInv'
<1> USE DEF PlayerInv
<1>1. media \in Playbacks /\ told \in Seq(Reports) /\ sized \in BOOLEAN
  BY DEF TypeOK, PipelineTypeOK, ScriptTypeOK
<1>2. /\ UNCHANGED <<bus, reports, graphicVars, gub, loads, freed, setup, owned>>
      /\ UNCHANGED <<component, queued>>
      /\ script # "new"
      /\ \/ script' = script
         \/ setup = None /\ script = "live" /\ script' = "waiting"
      /\ \/ UNCHANGED <<mpc, msg>>
         \/ mpc = "handle" /\ mpc' = "idle" /\ msg' = [kind |-> "none", load |-> 0]
  BY DEF Resize, BeginDestroy, OnFinish, HandlesReport, CallbackAt, CallbackEnds,
         CallbackLeaves, Recording, Unaffected, Untouched, playbackVars, pipelineVars,
         scriptVars, loopThread
<1>3. /\ media' \in Playbacks /\ media'.kind = media.kind /\ media'.bases = media.bases
      /\ media'.begun = media.begun /\ media'.gst = media.gst
      /\ media'.goal = media.goal /\ media'.answered = media.answered
      /\ media'.meddled = media.meddled
  <2>1. CASE media' = media
    BY <1>1, <2>1
  <2>2. CASE media' = [media EXCEPT !.drained = media.kind = "appsrc"]
    BY <1>1, <2>2 DEF Playbacks
  <2> QED BY <2>1, <2>2
          DEF Resize, BeginDestroy, StopEncoding, OnFinish, HandlesReport, playbackVars
<1>4. told' \in Seq(Reports)
  BY <1>1 DEF Resize, BeginDestroy, OnFinish, HandlesReport, scriptVars
<1>5. sized' \in BOOLEAN
  <2>1. sized' = sized \/ sized' = FALSE
    BY DEF Resize, BeginDestroy, OnFinish
  <2> QED BY <1>1, <2>1, Zenon
<1>6. /\ msg' \in [kind : Reports \cup {"state", "none"}, load : 0 .. MaxLoads]
      /\ mpc' \in CallbackSteps \cup {"idle", "crashed"}
  BY <1>2 DEF TypeOK, PipelineTypeOK, Assumptions, SetupAssumption
<1>7. TypeOK'
  <2>1. GraphicTypeOK' /\ ScriptTypeOK'
    BY <1>2, <1>4 DEF TypeOK, GraphicTypeOK, ScriptTypeOK, graphicVars
  <2>2. PipelineTypeOK'
    BY <1>2, <1>3, <1>6 DEF TypeOK, PipelineTypeOK
  <2> QED BY <1>5, <2>1, <2>2 DEF TypeOK
<1>8. NothingLeaks' /\ Untouched'
  BY <1>2 DEF NothingLeaks, Untouched
<1>9. InService' /\ CallbackOfAPipeline' /\ SetupAlone' /\ BaseTimeInv'
  <2>1. media'.goal = "NULL" => media'.gst = "NULL" /\ bus' = <<>>
    BY <1>2, <1>3 DEF InService
  <2> QED BY <1>2, <1>3, <2>1, RunsOn DEF SameSetup, CallbackSteps
<1>10. ContextInv'
  BY <1>2, <1>3, ContextKeeps DEF ContextInv, BegunInFrame, graphicVars
<1> QED BY <1>7, <1>8, <1>9, <1>10

-----------------------------------------------------------------------------
\* Every step keeps the invariant.
LEMMA PlayerStep == Assumptions /\ PlayerInv /\ [Next]_vars => PlayerInv'
<1> SUFFICES ASSUME Assumptions, PlayerInv, [Next]_vars PROVE PlayerInv'
  OBVIOUS
<1>0. /\ queued \in Seq(Reports) /\ freed \in BOOLEAN /\ (freed <=> script = "gone")
      /\ setup \in Setups \cup {Encoding, None}
  BY DEF PlayerInv, TypeOK, PipelineTypeOK, ScriptTypeOK, InService
<1>1. CASE TextureNext /\ UNCHANGED captureVars
  <2>1. CASE Close
    BY <1>0, <1>1, <2>1, ClosesKeep
       DEF Close, Live, scriptVars, captureVars, loopThread
  <2>2. CASE Destroy
    <3>1. queued' \in Seq(Reports)
      <4>1. queued' = queued \/ queued' = <<>>
        BY <2>2 DEF Destroy
      <4>2. <<>> \in Seq(Reports)
        OBVIOUS
      <4> QED BY <1>0, <4>1, <4>2, Zenon
    <3>2. freed' = TRUE
      BY <2>2 DEF Destroy
    <3>3. freed' \in BOOLEAN
      BY <3>2, Zenon
    <3> QED BY <1>0, <1>1, <2>2, <3>1, <3>2, <3>3, ClosesKeep
            DEF Destroy, Live, captureVars, loopThread
  <2> QED BY <1>1, <2>1, <2>2, InitializeKeeps, SetupKeeps, CommandsKeep, UpdateKeeps,
             ReportsKeep DEF TextureNext
<1>2. CASE CaptureNext
  <2>1. CASE EndDestroy
    <3>1. freed' = TRUE
      BY <2>1 DEF EndDestroy
    <3>2. freed' \in BOOLEAN
      BY <3>1, Zenon
    <3>3. setup = None
      BY <2>1 DEF EndDestroy, PlayerInv, SetupAlone
    <3> QED BY <1>0, <2>1, <3>1, <3>2, <3>3, ClosesKeep DEF EndDestroy, Unaffected, loopThread
  <2> QED BY <1>2, <2>1, StartCaptureKeeps, UpdateResizedKeeps, ResizeRunsKeeps,
             UpdateCaptureKeeps, OtherCaptureKeeps DEF CaptureNext
<1>3. CASE LoopThread /\ UNCHANGED <<scriptVars, captureVars>>
  BY <1>3, LoopThreadKeeps
<1>4. CASE PipelineRuns /\ UNCHANGED <<scriptVars, captureVars>>
  BY <1>4, PipelineKeeps
<1>5. CASE GraphicNext /\ UNCHANGED <<playbackVars, pipelineVars, scriptVars, captureVars>>
  BY <1>5, GraphicKeeps
<1>6. CASE UNCHANGED vars
  <2> USE <1>6 DEF PlayerInv, vars, playbackVars, graphicVars, pipelineVars, scriptVars,
                   captureVars
  <2>1. TypeOK'
    BY DEF TypeOK, GraphicTypeOK, PipelineTypeOK, ScriptTypeOK
  <2>2. NothingLeaks' /\ Untouched'
    BY DEF NothingLeaks, Untouched
  <2>3. InService' /\ CallbackOfAPipeline' /\ SetupAlone'
    BY DEF InService, CallbackOfAPipeline, SetupAlone, OwnCallback, OfPresent
  <2>4. BaseTimeInv'
    BY DEF BaseTimeInv, BaseTimeSetOnce, BaseTimeAhead, BasedOfPlayer, OfPresent
  <2>5. ContextInv'
    BY DEF ContextInv, BackendOfBuild, SinkHasBackend, BegunInFrame, BegunWithContext,
           RendersInUnitysContext, Provided, ProvidedEGL
  <2> QED BY <2>1, <2>2, <2>3, <2>4, <2>5
<1> QED BY <1>1, <1>2, <1>3, <1>4, <1>5, <1>6 DEF Next

\* The invariant is inductive.
LEMMA PlayerInvariant == Spec => []PlayerInv
<1>1. Assumptions
  BY PlaybackAssumption, BuildAssumption, BackendAssumption, SetupAssumption,
     ContextAssumption, ComponentAssumption DEF Assumptions
<1>2. Init => PlayerInv
  BY <1>1, InitPlayer
<1>3. PlayerInv /\ [Next]_vars => PlayerInv'
  BY <1>1, PlayerStep
<1> QED BY <1>2, <1>3, PTL DEF Spec

\* The structure, the pipeline in it and the bus keep to their types: no setup makes a
\* structure with a crop that leaves nothing, or a backend the build does not have.
THEOREM PlayerTypes == Spec => []TypeOK
<1>1. PlayerInv => TypeOK
  BY DEF PlayerInv
<1> QED BY <1>1, PlayerInvariant, PTL

\* gub_pipeline_grab_frame, blit_image and close acquire and release contexts and
\* samples in step with the structure, however they, setups and the steps of other
\* threads follow each other, also without a blit or a context.
THEOREM NoLeaks == Spec => []NothingLeaks
<1>1. PlayerInv => NothingLeaks
  BY DEF PlayerInv
<1> QED BY <1>1, PlayerInvariant, PTL

\* With every build, the sink of a media that was not paused first has been given the
\* graphic context of the structure, which gub_pipeline_play waits for.
THEOREM UnitysContext == Spec => []RendersInUnitysContext
<1>1. PlayerInv => RendersInUnitysContext
  BY DEF PlayerInv, ContextInv
<1> QED BY <1>1, PlayerInvariant, PTL

\* The callbacks of a pipeline, and closes and setups between any two of their steps,
\* set its base time once at most and mark that they did; the mark is never set without
\* that, except by a callback that a close or a setup overtook.
THEOREM BaseTimeOnce == Spec => []BaseTimeSetOnce
<1>1. PlayerInv => BaseTimeSetOnce
  BY DEF PlayerInv, BaseTimeInv
<1> QED BY <1>1, PlayerInvariant, PTL
=============================================================================
