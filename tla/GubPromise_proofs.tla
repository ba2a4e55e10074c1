------------------------- MODULE GubPromise_proofs --------------------------
(***************************************************************************)
(* A player or a recorder keeps what MediaReports promises, for every      *)
(* build, any number of pipelines, frames and messages: every step maps to *)
(* a step of MediaReports or to none.                                      *)
(***************************************************************************)
EXTENDS GubPlayer_proofs, SequenceTheorems

\* A callback past its beginning is of a message about the state, and a recorder queues
\* nothing.
ReportInv ==
    /\ mpc \in CallbackSteps \ {"handle"} => msg.kind = "state"
    /\ component = "capture" => queued = <<>>

\* What a step has to do.
Maps == ReportInv' /\ [Promise!Next]_(Promise!vars)

-----------------------------------------------------------------------------
(* Sequences. *)

\* The two parts of a sequence.
LEMMA PartsOfConcat ==
    ASSUME NEW S, NEW a \in Seq(S), NEW b \in Seq(S)
    PROVE  /\ Len(a) \in 0 .. Len(a \o b)
           /\ Len(a) > 0 => Len(a) \in 1 .. Len(a \o b)
           /\ SubSeq(a \o b, 1, Len(a)) = a
           /\ SubSeq(a \o b, Len(a) + 1, Len(a \o b)) = b
OBVIOUS

\* One taken out of the middle.
LEMMA TakenOut ==
    ASSUME NEW S, NEW a \in Seq(S), NEW x \in S, NEW b \in Seq(S)
    PROVE  LET d == (a \o <<x>>) \o b
           IN  /\ Len(a) + 1 \in 1 .. Len(d)
               /\ d[Len(a) + 1] = x
               /\ SubSeq(d, 1, Len(a)) = a
               /\ SubSeq(d, Len(a) + 2, Len(d)) = b
<1> DEFINE c == a \o <<x>>
           d == c \o b
<1>1. /\ c \in Seq(S) /\ Len(c) = Len(a) + 1 /\ c[Len(a) + 1] = x
      /\ SubSeq(c, 1, Len(a)) = a
  OBVIOUS
<1>2. SubSeq(d, Len(a) + 2, Len(d)) = b
  <2>1. SubSeq(d, Len(c) + 1, Len(d)) = b
    <3> HIDE DEF c
    <3> QED BY <1>1
  <2>2. Len(a) + 2 = Len(c) + 1
    OBVIOUS
  <2> HIDE DEF c
  <2> QED BY <2>1, <2>2
<1>3. SubSeq(d, 1, Len(a)) = a /\ d[Len(a) + 1] = x /\ Len(a) + 1 \in 1 .. Len(d)
  OBVIOUS
<1> QED BY <1>2, <1>3

\* One put at an end, or taken from one.
LEMMA EndsOfConcat ==
    ASSUME NEW S, NEW a \in Seq(S), NEW x \in S, NEW b \in Seq(S)
    PROVE  /\ a \o Append(b, x) = Append(a \o b, x)
           /\ Append(a, x) = a \o <<x>>
           /\ a \o <<>> = a
           /\ <<>> \o a = a
           /\ b # <<>> => <<Head(b)>> \o Tail(b) = b
           /\ b # <<>> => (a \o <<Head(b)>>) \o Tail(b) = a \o b
<1>1. a \o Append(b, x) = Append(a \o b, x)
  OBVIOUS
<1>2. Append(a, x) = a \o <<x>>
  OBVIOUS
<1>3. a \o <<>> = a /\ <<>> \o a = a
  OBVIOUS
<1>4. ASSUME b # <<>> PROVE <<Head(b)>> \o Tail(b) = b
  <2>1. Head(b) \in S /\ Tail(b) \in Seq(S) /\ Len(Tail(b)) = Len(b) - 1
        /\ \A i \in 1 .. Len(b) - 1 : Tail(b)[i] = b[i + 1]
    BY <1>4
  <2> QED BY <1>4, <2>1
<1>5. ASSUME b # <<>> PROVE (a \o <<Head(b)>>) \o Tail(b) = a \o b
  <2> DEFINE h == <<Head(b)>>
             t == Tail(b)
  <2>1. h \in Seq(S) /\ t \in Seq(S) /\ h \o t = b
    BY <1>4, <1>5
  <2>2. \A u, v \in Seq(S) : (a \o u) \o v = a \o (u \o v)
    BY ConcatAssociative
  <2> HIDE DEF h, t
  <2>3. (a \o h) \o t = a \o b
    BY <2>1, <2>2
  <2> QED BY <2>3 DEF h, t
<1> QED BY <1>1, <1>2, <1>3, <1>4, <1>5

-----------------------------------------------------------------------------
(* Kinds of steps. *)

\* The messages on their way are messages.
LEMMA OnTheirWayType ==
    ASSUME PlayerInv
    PROVE  /\ queued \in Seq(Messages \cup {"none"})
           /\ InCallback \in Seq(Messages \cup {"none"})
           /\ bus \in Seq(Messages \cup {"none"})
           /\ OnTheirWay \in Seq(Messages \cup {"none"})
<1>1. queued \in Seq(Messages \cup {"none"}) /\ bus \in Seq(Messages \cup {"none"})
  BY DEF PlayerInv, TypeOK, ScriptTypeOK, PipelineTypeOK, Messages
<1>2. InCallback \in Seq(Messages \cup {"none"})
  <2>1. msg.kind \in Messages \cup {"none"}
    BY DEF PlayerInv, TypeOK, PipelineTypeOK, Messages
  <2> DEFINE k == msg.kind
  <2>2. InCallback = <<>> \/ InCallback = <<k>>
    BY DEF InCallback
  <2> HIDE DEF k
  <2>3. <<>> \in Seq(Messages \cup {"none"}) /\ <<k>> \in Seq(Messages \cup {"none"})
    BY <2>1 DEF k
  <2> QED BY <2>2, <2>3
<1> QED BY <1>1, <1>2 DEF OnTheirWay

\* A step that tells nothing and leaves the messages alone; it may ask the media of
\* a structure that is there to run.
LEMMA Runs ==
    ASSUME Assumptions, PlayerInv, ReportInv,
           gub'.pipeline = gub.pipeline, gub'.handlers = gub.handlers,
           media'.goal = media.goal \/ (gub.pipeline # 0 /\ media'.goal # "NULL"),
           Openness' = Openness,
           UNCHANGED <<freed, bus, queued, told, mpc, msg, component>>
    PROVE  Maps
<1>1. ReportInv'
  BY DEF ReportInv
<1>2. OnTheirWay' = OnTheirWay
  BY DEF OnTheirWay, InCallback
<1> DEFINE run == media.goal # "NULL"
<1>3. CASE media'.goal = media.goal
  <2>1. run' = run
    BY <1>3
  <2> HIDE DEF run
  <2>2. <<Openness, gub.pipeline, run, gub.handlers, OnTheirWay, told>>'
        = <<Openness, gub.pipeline, run, gub.handlers, OnTheirWay, told>>
    BY <1>2, <2>1
  <2> QED BY <1>1, <2>2 DEF Maps, Promise!vars, run
<1>4. CASE gub.pipeline # 0 /\ media'.goal # "NULL"
  <2>1. run' = TRUE
    BY <1>4
  <2> HIDE DEF run
  <2>2. Promise!Run
    BY <1>2, <1>4, <2>1 DEF Promise!Run, run
  <2> QED BY <1>1, <2>2 DEF Maps, Promise!Next
<1> QED BY <1>3, <1>4

\* What was on the bus is lost, and only that.
LEMMA LosesBus ==
    ASSUME PlayerInv, bus' = <<>>, ~freed, ~freed', UNCHANGED <<queued, mpc, msg>>
    PROVE  /\ \E n \in 0 .. Len(OnTheirWay) : OnTheirWay' = SubSeq(OnTheirWay, 1, n)
           /\ bus = <<>> => OnTheirWay' = OnTheirWay
<1> DEFINE S == Messages \cup {"none"}
           kept == queued \o InCallback
<1>1. kept \in Seq(S) /\ bus \in Seq(S)
  BY OnTheirWayType
<1>2. OnTheirWay = kept \o bus /\ OnTheirWay' = kept \o <<>>
  BY DEF OnTheirWay, InCallback
<1> HIDE DEF kept, S
<1>3. OnTheirWay' = kept
  BY <1>1, <1>2
<1>4. Len(kept) \in 0 .. Len(OnTheirWay) /\ SubSeq(OnTheirWay, 1, Len(kept)) = kept
  BY <1>1, <1>2, PartsOfConcat
<1>5. bus = <<>> => OnTheirWay' = OnTheirWay
  BY <1>2
<1> QED BY <1>3, <1>4, <1>5

\* A step that stops the media, if it runs, and empties the bus.
LEMMA StopsMedia ==
    ASSUME Assumptions, PlayerInv, ReportInv, script = "live",
           bus' = <<>>, media'.goal = "NULL",
           gub'.pipeline = gub.pipeline, gub'.handlers = gub.handlers,
           UNCHANGED <<freed, script, queued, told, mpc, msg, component>>
    PROVE  Maps
<1>1. ReportInv' /\ Openness' = Openness /\ ~freed
  BY DEF ReportInv, Openness, PlayerInv, InService
<1>2. /\ \E n \in 0 .. Len(OnTheirWay) : OnTheirWay' = SubSeq(OnTheirWay, 1, n)
      /\ bus = <<>> => OnTheirWay' = OnTheirWay
  BY <1>1, LosesBus
<1>3. CASE media.goal = "NULL"
  BY <1>1, <1>2, <1>3 DEF Maps, Promise!vars, PlayerInv, InService
<1>4. CASE media.goal # "NULL"
  BY <1>1, <1>2, <1>4 DEF Maps, Promise!Next, Promise!Stop, Promise!Cut
<1> QED BY <1>3, <1>4

\* A step that closes the structure, and with it the bus and the handlers.
LEMMA ClosesMedia ==
    ASSUME Assumptions, PlayerInv, ReportInv, script = "live", Closes,
           UNCHANGED <<freed, script, queued, told, mpc, msg, component>>
    PROVE  Maps
<1>1. /\ gub'.pipeline = 0 /\ gub'.handlers = {} /\ bus' = <<>> /\ media'.goal = "NULL"
  BY FreshType, ZeroedType DEF Closes, Becomes
<1>2. ReportInv' /\ Openness = "open" /\ Openness' = Openness /\ ~freed
  BY DEF ReportInv, Openness, PlayerInv, InService
<1>3. /\ \E n \in 0 .. Len(OnTheirWay) : OnTheirWay' = SubSeq(OnTheirWay, 1, n)
      /\ bus = <<>> => OnTheirWay' = OnTheirWay
  BY <1>1, <1>2, LosesBus
<1>4. media.goal = "NULL" => OnTheirWay' = OnTheirWay
  BY <1>3 DEF PlayerInv, InService
<1>5. Promise!Close
  BY <1>1, <1>2, <1>3, <1>4 DEF Promise!Close, Promise!Cut
<1> QED BY <1>2, <1>5 DEF Maps, Promise!Next

\* A step that sets up a media where there is none.
LEMMA SetsUp ==
    ASSUME Assumptions, PlayerInv, PlayerInv', ReportInv, script = "live",
           gub.pipeline = 0, gub'.pipeline = loads + 1, gub'.handlers = gub.handlers,
           UNCHANGED <<bus, freed, script, queued, told, mpc, msg, component>>
    PROVE  Maps
<1>1. ReportInv' /\ Openness = "open" /\ Openness' = Openness /\ OnTheirWay' = OnTheirWay
  BY DEF ReportInv, Openness, OnTheirWay, InCallback
<1>2. gub'.pipeline \in 1 .. MaxLoads
  BY DEF PlayerInv, TypeOK, PipelineTypeOK, Gubs, Assumptions, SetupAssumption
<1>3. (media'.goal # "NULL") \in BOOLEAN
  OBVIOUS
<1>4. Promise!SetUp
  BY <1>1, <1>2, <1>3 DEF Promise!SetUp
<1> QED BY <1>1, <1>4 DEF Maps, Promise!Next

\* The last step: the structure is closed and freed.
LEMMA Frees ==
    ASSUME Assumptions, PlayerInv, ReportInv, script \in {"live", "waiting"},
           Closes, freed', script' = "gone",
           queued' = queued \/ (component = "texture" /\ queued' = <<>>),
           UNCHANGED <<told, mpc, msg, component>>
    PROVE  Maps
<1> DEFINE rest == InCallback \o bus
<1>1. /\ gub'.pipeline = 0 /\ gub'.handlers = {} /\ media'.goal = "NULL"
  BY FreshType, ZeroedType DEF Closes, Becomes
<1>2. ReportInv' /\ ~freed
  BY DEF ReportInv, PlayerInv, InService
<1>3. rest \in Seq(Messages \cup {"none"}) /\ queued \in Seq(Messages \cup {"none"})
  BY OnTheirWayType
<1>4. OnTheirWay = queued \o rest
  BY <1>2, OnTheirWayType DEF OnTheirWay
<1> HIDE DEF rest
<1>5. \E n \in 0 .. Len(OnTheirWay) : OnTheirWay' = SubSeq(OnTheirWay, 1, n)
  <2>1. CASE queued' = queued
    BY <1>3, <1>4, <2>1, PartsOfConcat DEF OnTheirWay
  <2>2. CASE queued' = <<>>
    <3>1. OnTheirWay' = <<>>
      BY <2>2 DEF OnTheirWay
    <3>2. <<>> = SubSeq(OnTheirWay, 1, 0) /\ 0 \in 0 .. Len(OnTheirWay)
      BY OnTheirWayType
    <3> QED BY <3>1, <3>2
  <2> QED BY <2>1, <2>2
<1>6. Promise!Leave
  BY <1>1, <1>5 DEF Promise!Leave, Promise!Cut, Openness
<1> QED BY <1>2, <1>6 DEF Maps, Promise!Next

\* The callback returns without having told or queued its message.
LEMMA Misses ==
    ASSUME Assumptions, PlayerInv, ReportInv,
           mpc \in CallbackSteps, ~freed, msg.kind \notin gub.handlers, CallbackEnds,
           gub'.pipeline = gub.pipeline, gub'.handlers = gub.handlers,
           media'.goal = media.goal,
           UNCHANGED <<freed, script, bus, queued, told, component>>
    PROVE  Maps
<1>1. ReportInv' /\ Openness' = Openness
  BY DEF ReportInv, Openness, CallbackEnds, CallbackSteps
<1>2. /\ OnTheirWay = (queued \o <<msg.kind>>) \o bus
      /\ OnTheirWay' = queued \o bus
  <2>1. InCallback = <<msg.kind>> /\ InCallback' = <<>>
    BY DEF InCallback, CallbackEnds, CallbackSteps
  <2>2. queued \o <<>> = queued
    BY OnTheirWayType
  <2> QED BY <2>1, <2>2 DEF OnTheirWay
<1>3. Promise!Miss
  <2> DEFINE i == Len(queued) + 1
  <2>1. msg.kind \in Messages \cup {"none"}
    BY DEF PlayerInv, TypeOK, PipelineTypeOK, Messages
  <2>2. /\ i \in 1 .. Len(OnTheirWay) /\ OnTheirWay[i] = msg.kind
        /\ OnTheirWay' = SubSeq(OnTheirWay, 1, i - 1)
                         \o SubSeq(OnTheirWay, i + 1, Len(OnTheirWay))
    <3>1. Len(queued) \in Nat /\ i - 1 = Len(queued) /\ i + 1 = Len(queued) + 2
      BY OnTheirWayType
    <3>2. bus \in Seq(Messages \cup {"none"}) /\ queued \in Seq(Messages \cup {"none"})
      BY OnTheirWayType
    <3>3. /\ i \in 1 .. Len(OnTheirWay) /\ OnTheirWay[i] = msg.kind
          /\ SubSeq(OnTheirWay, 1, Len(queued)) = queued
          /\ SubSeq(OnTheirWay, Len(queued) + 2, Len(OnTheirWay)) = bus
      BY <1>2, <2>1, <3>2, TakenOut
    <3> QED BY <1>2, <3>1, <3>3
  <2> QED BY <1>1, <2>2 DEF Promise!Miss
<1> QED BY <1>1, <1>3 DEF Maps, Promise!Next

\* A message is posted by a media that runs.
LEMMA PostsMessage ==
    ASSUME Assumptions, PlayerInv, ReportInv, media.goal # "NULL",
           NEW k \in Messages, bus' = Append(bus, k), media'.goal = media.goal,
           UNCHANGED <<gub, freed, script, queued, told, mpc, msg, component>>
    PROVE  Maps
<1>1. ReportInv' /\ Openness' = Openness /\ ~freed
  BY DEF ReportInv, Openness, PlayerInv, InService
<1>2. OnTheirWay' = Append(OnTheirWay, k)
  <2> DEFINE first == queued \o InCallback
  <2>1. /\ first \in Seq(Messages \cup {"none"}) /\ bus \in Seq(Messages \cup {"none"})
        /\ OnTheirWay = first \o bus /\ OnTheirWay' = first \o Append(bus, k)
    <3>1. InCallback' = InCallback
      BY DEF InCallback
    <3>2. first \in Seq(Messages \cup {"none"}) /\ bus \in Seq(Messages \cup {"none"})
      BY OnTheirWayType
    <3> QED BY <1>1, <3>1, <3>2 DEF OnTheirWay
  <2> HIDE DEF first
  <2> QED BY <2>1, EndsOfConcat
<1>3. Promise!Post
  BY <1>1, <1>2 DEF Promise!Post
<1> QED BY <1>1, <1>3 DEF Maps, Promise!Next

-----------------------------------------------------------------------------
(* The player. *)

LEMMA InitializeMaps ==
    ASSUME Assumptions, PlayerInv, ReportInv, Initialize PROVE Maps
<1>1. /\ script = "new" /\ script' = "live" /\ gub' = Created(Reports)
      /\ UNCHANGED <<media, bus, freed, mpc, msg, component, queued, told>>
  BY DEF Initialize, playbackVars, loopThread
<1>2. gub.pipeline = 0 /\ ~freed
  BY <1>1, ZeroedType DEF PlayerInv, Untouched, InService
<1>3. gub'.pipeline = 0 /\ gub'.handlers = Reports
  BY <1>1 DEF Created, Zeroed
<1>4. ReportInv' /\ OnTheirWay' = OnTheirWay
  BY <1>1 DEF ReportInv, OnTheirWay, InCallback
<1>5. Promise!Open
  BY <1>1, <1>2, <1>3, <1>4 DEF Promise!Open, Openness, Messages
<1> QED BY <1>4, <1>5 DEF Maps, Promise!Next

LEMMA SetupMaps ==
    ASSUME Assumptions, PlayerInv, ReportInv, Setup PROVE Maps
<1>1. /\ UNCHANGED <<freed, script, queued, told, mpc, msg, component>>
      /\ script = "live"
  BY DEF Setup, Live, loopThread, scriptVars
<1>2. Closes \/ UNCHANGED <<gub, media, bus>>
  BY DEF Setup, BeginsSetup
<1>3. CASE Closes
  BY <1>1, <1>3, ClosesMedia
<1>4. CASE UNCHANGED <<gub, media, bus>>
  BY <1>1, <1>4, Runs DEF Openness
<1> QED BY <1>2, <1>3, <1>4

LEMMA SetupRunsMaps ==
    ASSUME Assumptions, PlayerInv, PlayerInv', ReportInv, SetupRuns PROVE Maps
<1>1. /\ UNCHANGED <<bus, freed, script, queued, told, mpc, msg, component>>
      /\ setup # None /\ script = "live" /\ gub \in Gubs
  BY DEF SetupRuns, Launches, LaunchFails, EndsDecoding, loopThread, scriptVars, PlayerInv,
         SetupAlone, TypeOK, PipelineTypeOK
<1>2. CASE Launches
  <2>1. /\ gub.pipeline = 0 /\ gub'.pipeline = loads + 1 /\ gub'.handlers = gub.handlers
    BY <1>1, <1>2 DEF Launches, Decoding, Gubs
  <2> QED BY <1>1, <2>1, SetsUp
<1>3. CASE LaunchFails \/ EndsDecoding
  <2>1. /\ media' = media
        /\ gub'.pipeline = gub.pipeline /\ gub'.handlers = gub.handlers
    BY <1>1, <1>3 DEF LaunchFails, EndsDecoding, Gubs
  <2> QED BY <1>1, <2>1, Runs DEF Openness
<1> QED BY <1>2, <1>3 DEF SetupRuns

LEMMA CloseMaps ==
    ASSUME Assumptions, PlayerInv, ReportInv, Close PROVE Maps
<1>1. /\ UNCHANGED <<freed, script, queued, told, mpc, msg, component>>
      /\ script = "live" /\ Closes
  BY DEF Close, Live, loopThread, scriptVars
<1> QED BY <1>1, ClosesMedia

LEMMA StopMaps ==
    ASSUME Assumptions, PlayerInv, ReportInv, Stop PROVE Maps
<1>1. /\ UNCHANGED <<gub, freed, script, queued, told, mpc, msg, component>>
      /\ script = "live"
  BY DEF Stop, Live, pipelineVars, scriptVars
<1>2. CASE gub.pipeline = 0
  <2>1. media' = media /\ bus' = bus
    BY <1>2 DEF Stop, Stops
  <2> QED BY <1>1, <2>1, Runs DEF Openness
<1>3. CASE gub.pipeline # 0
  <2>1. bus' = <<>> /\ media'.goal = "NULL"
    BY <1>3, SetNullType DEF Stop, Stops, PlayerInv, TypeOK, PipelineTypeOK
  <2> QED BY <1>1, <2>1, StopsMedia
<1> QED BY <1>2, <1>3

LEMMA CommandsMap ==
    ASSUME Assumptions, PlayerInv, ReportInv,
           Commands(Play(Present)) \/ Commands(Pause(Present))
    PROVE  Maps
<1>1. media \in Playbacks /\ gub \in Gubs
  BY DEF PlayerInv, TypeOK, PipelineTypeOK
<1>2. /\ UNCHANGED <<freed, bus, script, queued, told, mpc, msg, component>>
      /\ script = "live"
  BY DEF Commands, Live, loopThread, scriptVars
<1>3. gub'.pipeline = gub.pipeline /\ gub'.handlers = gub.handlers
  BY <1>1 DEF Commands, Becomes, Present, Play, Pause, Gubs
<1>4. media'.goal = media.goal \/ (gub.pipeline # 0 /\ media'.goal # "NULL")
  <2>1. media' = media \/ (gub.pipeline # 0 /\ media' = SetState(media, "PAUSED", "pause"))
    BY DEF Commands, Becomes, Present, Play, Pause
  <2> QED BY <1>1, <2>1, SetStateType
<1> QED BY <1>2, <1>3, <1>4, Runs DEF Openness

\* What a frame makes of the structure asks the media to run, at most.
LEMMA UpdateMaps ==
    ASSUME Assumptions, PlayerInv, ReportInv, Update PROVE Maps
<1> DEFINE grab == Grabbed(Present)
           drop == DropsSample(grab)
           blit == Blitted(grab)
<1>1. /\ Present \in States /\ Owns(Present) /\ backend \in Backends \cup {None}
      /\ Present.gub = gub /\ Present.media = media
      /\ build \in Builds
  BY DEF Present, States, Owns, NothingLeaks, PlayerInv, TypeOK, PipelineTypeOK, GraphicTypeOK
<1>2. /\ UNCHANGED <<freed, bus, script, queued, told, mpc, msg, component>> /\ Draws
  BY DEF Update, loopThread, scriptVars
<1>3. /\ grab \in States /\ Owns(grab) /\ SameSetup(gub, grab.gub)
      /\ backend = "d3d11" => grab.gub.context # None
      /\ grab.media = media \/ (gub.pipeline # 0 /\ grab.media.goal = "PLAYING")
  BY <1>1, GrabbedType
<1>4. Becomes(grab) \/ Becomes(drop) \/ Becomes(blit)
  BY DEF Update
<1> HIDE DEF grab
<1>5. SameSetup(grab.gub, drop.gub) /\ drop.media = grab.media
  BY <1>3, DropsSampleType
<1>6. SameSetup(grab.gub, blit.gub) /\ blit.media.goal = grab.media.goal
  BY <1>3, BlittedType
<1> HIDE DEF drop, blit
<1>7. /\ gub'.pipeline = gub.pipeline /\ gub'.handlers = gub.handlers
      /\ media'.goal = media.goal \/ (gub.pipeline # 0 /\ media'.goal # "NULL")
  BY <1>3, <1>4, <1>5, <1>6 DEF Becomes, SameSetup
<1> QED BY <1>2, <1>7, Runs DEF Openness

\* Everything that was queued is told, in order, also after the player is gone.
LEMMA ProcessEventsMaps ==
    ASSUME Assumptions, PlayerInv, ReportInv, ProcessEvents PROVE Maps
<1>1. /\ UNCHANGED <<bus, gub, freed, mpc, msg, component, script>>
      /\ queued # <<>> /\ queued' = <<>> /\ told' = told \o queued
      /\ script # "new"
  BY DEF ProcessEvents, pipelineVars, PlayerInv, Untouched
<1>2. media'.goal = media.goal
  BY SeekType DEF ProcessEvents, PlayerInv, TypeOK, PipelineTypeOK
<1>3. ReportInv' /\ Openness' = Openness /\ Openness # "new"
  BY <1>1 DEF ReportInv, Openness
<1> DEFINE rest == IF freed THEN <<>> ELSE InCallback \o bus
<1>4. queued \in Seq(Messages \cup {"none"}) /\ rest \in Seq(Messages \cup {"none"})
  BY OnTheirWayType
<1>5. OnTheirWay = queued \o rest /\ OnTheirWay' = rest
  <2>1. InCallback' = InCallback
    BY <1>1 DEF InCallback
  <2>2. CASE freed
    <3>1. OnTheirWay = queued /\ OnTheirWay' = <<>> /\ rest = <<>>
      BY <1>1, <2>2 DEF OnTheirWay
    <3> QED BY <1>4, <3>1
  <2>3. CASE ~freed
    <3>1. /\ InCallback \in Seq(Messages \cup {"none"})
          /\ bus \in Seq(Messages \cup {"none"})
          /\ OnTheirWay = queued \o InCallback \o bus
          /\ OnTheirWay' = <<>> \o InCallback \o bus
          /\ rest = InCallback \o bus
      BY <1>1, <2>1, <2>3, OnTheirWayType DEF OnTheirWay
    <3>2. <<>> \o InCallback = InCallback
      BY <3>1
    <3>3. \A u, v, w \in Seq(Messages \cup {"none"}) : (u \o v) \o w = u \o (v \o w)
      BY ConcatAssociative
    <3>4. (queued \o InCallback) \o bus = queued \o (InCallback \o bus)
      <4>1. queued \in Seq(Messages \cup {"none"})
        BY <1>4
      <4> QED BY <3>1, <3>3, <4>1
    <3>5. OnTheirWay = queued \o rest
      BY <3>1, <3>4
    <3>6. OnTheirWay' = rest
      BY <3>1, <3>2
    <3> QED BY <3>5, <3>6
  <2> QED BY <2>2, <2>3
<1> HIDE DEF rest
<1>6. Promise!Tell
  <2>1. /\ Len(queued) \in 1 .. Len(OnTheirWay)
        /\ SubSeq(OnTheirWay, 1, Len(queued)) = queued
        /\ SubSeq(OnTheirWay, Len(queued) + 1, Len(OnTheirWay)) = rest
    <3>1. Len(queued) > 0
      BY <1>1, <1>4
    <3> QED BY <1>4, <1>5, <3>1, PartsOfConcat
  <2> DEFINE run == media.goal # "NULL"
  <2>2. run' = run
    BY <1>2
  <2> HIDE DEF run
  <2>3. /\ told' = told \o SubSeq(OnTheirWay, 1, Len(queued))
        /\ OnTheirWay' = SubSeq(OnTheirWay, Len(queued) + 1, Len(OnTheirWay))
    BY <1>1, <1>5, <2>1
  <2> QED BY <1>1, <1>3, <2>1, <2>2, <2>3 DEF Promise!Tell, run
<1> QED BY <1>3, <1>6 DEF Maps, Promise!Next

\* A report moves from the callback to the queue, unless the structure has no
\* handlers any more.
LEMMA ReportMaps ==
    ASSUME Assumptions, PlayerInv, ReportInv, Report PROVE Maps
<1>1. /\ UNCHANGED <<media, bus, gub, freed, component, script, told>>
      /\ mpc = "handle" /\ ~freed /\ msg.kind \in Reports /\ CallbackEnds
      /\ component = "texture"
  BY DEF Report, HandlesReport, CallbackAt, CallbackLeaves
<1>2. CASE msg.kind \notin gub.handlers
  BY <1>1, <1>2, Misses DEF Report, Heard, CallbackSteps
<1>3. CASE msg.kind \in gub.handlers
  <2>1. ReportInv' /\ Openness' = Openness
    BY <1>1 DEF ReportInv, Openness, CallbackEnds, CallbackSteps
  <2>2. OnTheirWay' = OnTheirWay
    <3>1. /\ OnTheirWay = (queued \o <<msg.kind>>) \o bus
          /\ OnTheirWay' = (Append(queued, msg.kind) \o <<>>) \o bus
      BY <1>1, <1>3 DEF OnTheirWay, InCallback, CallbackEnds, CallbackSteps, Report, Heard
    <3>2. queued \in Seq(Messages \cup {"none"}) /\ msg.kind \in Messages \cup {"none"}
      BY <1>1, OnTheirWayType DEF Messages
    <3>3. /\ Append(queued, msg.kind) = queued \o <<msg.kind>>
          /\ Append(queued, msg.kind) \in Seq(Messages \cup {"none"})
      BY <3>2
    <3>4. Append(queued, msg.kind) \o <<>> = Append(queued, msg.kind)
      BY <3>3, EndsOfConcat, <3>2
    <3> QED BY <3>1, <3>3, <3>4
  <2> QED BY <1>1, <2>1, <2>2 DEF Maps, Promise!vars
<1> QED BY <1>2, <1>3

-----------------------------------------------------------------------------
(* The recorder. *)

-----------------------------------------------------------------------------
(* The recorder. *)

LEMMA StartCaptureMaps ==
    ASSUME Assumptions, PlayerInv, ReportInv, StartCapture PROVE Maps
<1>1. /\ script = "new" /\ script' = "live" /\ component = "capture"
      /\ UNCHANGED <<bus, freed, mpc, msg, component, queued, told>>
  BY DEF StartCapture, Unaffected, loopThread
<1>2. media.goal = "NULL" /\ media'.goal = "NULL"
  <2>1. media = Fresh("none") /\ (media' = media \/ media' = Fresh("appsrc"))
    BY <1>1 DEF StartCapture, PlayerInv, Untouched
  <2> QED BY <2>1, FreshType
<1>3. gub'.handlers = {"eos"} /\ gub'.pipeline \in 0 .. MaxLoads
  <2>1. loads \in 0 .. MaxLoads /\ MaxLoads \in Nat
    BY DEF PlayerInv, TypeOK, PipelineTypeOK, Assumptions, SetupAssumption
  <2>2. \/ gub' = Created({"eos"})
        \/ /\ loads < MaxLoads
           /\ gub' = [Created({"eos"}) EXCEPT !.pipeline = loads + 1, !.requested = TRUE]
    BY DEF StartCapture
  <2>3. /\ gub'.handlers = {"eos"}
        /\ gub'.pipeline = 0 \/ (loads < MaxLoads /\ gub'.pipeline = loads + 1)
    BY <2>2 DEF Created, Zeroed
  <2> QED BY <2>1, <2>3
<1>4. ReportInv' /\ OnTheirWay' = OnTheirWay
  BY <1>1 DEF ReportInv, OnTheirWay, InCallback
<1>5. Promise!Open
  BY <1>1, <1>2, <1>3, <1>4 DEF Promise!Open, Openness, Messages, Reports
<1> QED BY <1>4, <1>5 DEF Maps, Promise!Next

LEMMA UpdateResizedMaps ==
    ASSUME Assumptions, PlayerInv, ReportInv, UpdateResized PROVE Maps
<1>1. /\ UNCHANGED <<freed, script, queued, told, mpc, msg, component>>
      /\ script = "live"
  BY DEF UpdateResized, Recording, Unaffected, loopThread
<1>2. Closes \/ UNCHANGED <<gub, media, bus>>
  BY DEF UpdateResized, BeginsSetup
<1>3. CASE Closes
  BY <1>1, <1>3, ClosesMedia
<1>4. CASE UNCHANGED <<gub, media, bus>>
  BY <1>1, <1>4, Runs DEF Openness
<1> QED BY <1>2, <1>3, <1>4

LEMMA ResizeRunsMaps ==
    ASSUME Assumptions, PlayerInv, PlayerInv', ReportInv, ResizeRuns PROVE Maps
<1> DEFINE h == [gub EXCEPT !.pipeline = loads + 1, !.requested = TRUE]
           anew == [gub |-> h, media |-> Fresh("appsrc"), owned |-> owned]
           meets == MeetsRequest(anew)
<1>1. /\ setup # None /\ Becomes(meets) /\ component = "capture"
      /\ UNCHANGED <<bus, freed, script, told, mpc, msg, component, queued>>
  BY DEF ResizeRuns, Encodes, ConsumeImage, Unaffected, loopThread
<1>2. gub.pipeline = 0 /\ loads < MaxLoads /\ script = "live"
  BY <1>1 DEF PlayerInv, SetupAlone
<1>3. /\ gub \in Gubs /\ owned \in [contexts : Nat, samples : Nat]
      /\ loads + 1 \in 0 .. MaxLoads
  BY <1>2 DEF PlayerInv, TypeOK, PipelineTypeOK, Assumptions, SetupAssumption
<1>4. h \in Gubs /\ h.pipeline = loads + 1 /\ h.handlers = gub.handlers
  BY <1>3 DEF Gubs
<1>5. anew \in States /\ anew.gub = h
  <2>1. Fresh("appsrc") \in Playbacks
    BY FreshType
  <2> HIDE DEF h
  <2> QED BY <1>3, <1>4, <2>1 DEF States
<1> HIDE DEF h, anew
<1>6. gub'.pipeline = loads + 1 /\ gub'.handlers = gub.handlers
  BY <1>1, <1>4, <1>5, MeetsRequestType DEF Becomes, SameSetup
<1> QED BY <1>1, <1>2, <1>6, SetsUp

LEMMA UpdateCaptureMaps ==
    ASSUME Assumptions, PlayerInv, ReportInv, UpdateCapture PROVE Maps
<1> DEFINE meets == MeetsRequest(Present)
<1>1. /\ UNCHANGED <<freed, bus, script, queued, told, mpc, msg, component>>
      /\ Becomes(meets)
  BY DEF UpdateCapture, ConsumeImage, Unaffected, loopThread
<1>2. Present \in States /\ Present.gub = gub /\ Present.media = media
  BY DEF Present, States, PlayerInv, TypeOK, PipelineTypeOK
<1>3. /\ SameSetup(gub, meets.gub)
      /\ meets.media = media \/ (gub.pipeline # 0 /\ meets.media.goal = "PLAYING")
  BY <1>2, MeetsRequestType
<1> HIDE DEF meets
<1>4. /\ gub'.pipeline = gub.pipeline /\ gub'.handlers = gub.handlers
      /\ media'.goal = media.goal \/ (gub.pipeline # 0 /\ media'.goal # "NULL")
  BY <1>1, <1>3 DEF Becomes, SameSetup
<1> QED BY <1>1, <1>4, Runs DEF Openness

LEMMA ResizeMaps ==
    ASSUME Assumptions, PlayerInv, ReportInv, Resize \/ BeginDestroy PROVE Maps
<1>1. /\ UNCHANGED <<gub, freed, bus, queued, told, mpc, msg, component>>
      /\ Openness' = Openness
  BY DEF Resize, BeginDestroy, Recording, Unaffected, playbackVars, pipelineVars,
         scriptVars, loopThread, Openness
<1>2. media'.goal = media.goal
  BY DEF Resize, BeginDestroy, StopEncoding, playbackVars, PlayerInv, TypeOK,
         PipelineTypeOK, Playbacks
<1> QED BY <1>1, <1>2, Runs

\* The recorder is told in the callback.
LEMMA OnFinishMaps ==
    ASSUME Assumptions, PlayerInv, ReportInv, OnFinish PROVE Maps
<1>1. /\ UNCHANGED <<media, bus, gub, freed, component, script, queued>>
      /\ mpc = "handle" /\ ~freed /\ msg.kind \in Reports /\ CallbackEnds
      /\ component = "capture"
  BY DEF OnFinish, HandlesReport, CallbackAt, CallbackLeaves
<1>2. CASE msg.kind \notin gub.handlers
  BY <1>1, <1>2, Misses DEF OnFinish, CallbackSteps
<1>3. CASE msg.kind \in gub.handlers
  <2>1. ReportInv' /\ Openness' = Openness /\ Openness # "new"
    BY <1>1 DEF ReportInv, Openness, CallbackEnds, CallbackSteps, PlayerInv, Untouched
  <2> DEFINE k == <<msg.kind>>
  <2>2. /\ k \in Seq(Messages \cup {"none"}) /\ bus \in Seq(Messages \cup {"none"})
        /\ Len(k) = 1
    BY <1>1, OnTheirWayType DEF Messages
  <2>3. told' = told \o k
    <3>1. told \in Seq(Reports) /\ told' = Append(told, msg.kind)
      BY <1>3 DEF OnFinish, PlayerInv, TypeOK, ScriptTypeOK
    <3> QED BY <1>1, <3>1
  <2>4. OnTheirWay = k \o bus /\ OnTheirWay' = bus
    <3>1. /\ OnTheirWay = (<<>> \o k) \o bus
          /\ OnTheirWay' = (<<>> \o <<>>) \o bus
      BY <1>1 DEF OnTheirWay, InCallback, CallbackEnds, CallbackSteps, ReportInv
    <3>2. <<>> \o k = k
      BY <2>2
    <3>3. <<>> \o <<>> = <<>> /\ <<>> \o bus = bus
      BY <2>2
    <3> QED BY <3>1, <3>2, <3>3
  <2> HIDE DEF k
  <2>5. /\ 1 \in 1 .. Len(OnTheirWay)
        /\ SubSeq(OnTheirWay, 1, 1) = k
        /\ SubSeq(OnTheirWay, 1 + 1, Len(OnTheirWay)) = bus
    BY <2>2, <2>4, PartsOfConcat
  <2> DEFINE run == media.goal # "NULL"
  <2>6. run' = run
    BY <1>1
  <2> HIDE DEF run
  <2>7. Promise!Tell
    BY <1>1, <2>1, <2>3, <2>4, <2>5, <2>6 DEF Promise!Tell, run
  <2> QED BY <2>1, <2>7 DEF Maps, Promise!Next
<1> QED BY <1>2, <1>3

-----------------------------------------------------------------------------
(* The threads that do without the script. *)

\* A message about the state passes through its callback and is missed at the end.
LEMMA LoopThreadMaps ==
    ASSUME Assumptions, PlayerInv, ReportInv, LoopThread,
           UNCHANGED <<scriptVars, captureVars>>
    PROVE  Maps
<1> DEFINE run == media.goal # "NULL"
<1>1. /\ UNCHANGED <<component, script, queued, told, freed>> /\ Openness' = Openness
      /\ gub'.pipeline = gub.pipeline /\ gub'.handlers = gub.handlers
      /\ media'.goal = media.goal /\ run' = run
  BY LoopThreadLeaves, LoopThreadMakes DEF Openness
<1>2. "state" \notin gub.handlers
  BY DEF PlayerInv, TypeOK, PipelineTypeOK, Gubs, Reports
<1>3. CASE HandleState \/ Syncs
  <2>1. /\ bus' = bus /\ ~freed /\ mpc \in CallbackSteps /\ msg.kind = "state"
        /\ CallbackEnds \/ \E s \in CallbackSteps : CallbackGoes(s)
    BY <1>3
    DEF HandleState, Syncs, SyncBegins, SyncCompares, SyncSeek, SyncPosition, SyncSets,
        SyncMarks, CallbackAt, CallbackLeaves, CallbackGoes, CallbackSteps, ReportInv
  <2>2. CASE CallbackEnds
    BY <1>1, <1>2, <2>1, <2>2, Misses
  <2>3. CASE \E s \in CallbackSteps : CallbackGoes(s)
    <3>1. msg' = msg /\ mpc' \in CallbackSteps
      BY <2>3 DEF CallbackGoes
    <3>2. ReportInv' /\ OnTheirWay' = OnTheirWay
      BY <1>1, <2>1, <3>1 DEF ReportInv, OnTheirWay, InCallback
    <3> HIDE DEF run
    <3> QED BY <1>1, <3>2 DEF Maps, Promise!vars, run
  <2> QED BY <2>1, <2>2, <2>3
<1>4. CASE Dispatch
  <2>1. /\ mpc = "idle" /\ mpc' = "handle" /\ bus # <<>> /\ bus' = Tail(bus)
        /\ msg'.kind = Head(bus)
    BY <1>4 DEF Dispatch
  <2>2. ReportInv'
    BY <1>1, <2>1 DEF ReportInv
  <2>3. ~freed
    BY <2>1 DEF PlayerInv, InService
  <2>4. OnTheirWay' = OnTheirWay
    <3>1. /\ OnTheirWay = (queued \o <<>>) \o bus
          /\ OnTheirWay' = (queued \o <<Head(bus)>>) \o Tail(bus)
      BY <1>1, <2>1, <2>3 DEF OnTheirWay, InCallback, CallbackSteps
    <3>2. queued \in Seq(Messages \cup {"none"}) /\ bus \in Seq(Messages \cup {"none"})
      BY OnTheirWayType
    <3>3. "none" \in Messages \cup {"none"}
      OBVIOUS
    <3>4. queued \o <<>> = queued /\ (queued \o <<Head(bus)>>) \o Tail(bus) = queued \o bus
      BY <2>1, <3>2, <3>3, EndsOfConcat
    <3> QED BY <3>1, <3>4
  <2> HIDE DEF run
  <2> QED BY <1>1, <2>2, <2>4 DEF Maps, Promise!vars, run
<1>5. CASE HandleFreed
  <2>1. freed /\ (CallbackEnds \/ mpc' = "crashed")
    BY <1>5 DEF HandleFreed
  <2>2. ReportInv' /\ OnTheirWay' = OnTheirWay
    BY <1>1, <2>1 DEF ReportInv, OnTheirWay, CallbackEnds, CallbackSteps
  <2> HIDE DEF run
  <2> QED BY <1>1, <2>2 DEF Maps, Promise!vars, run
<1> QED BY <1>3, <1>4, <1>5 DEF LoopThread

\* What the threads of the pipeline post is of a media that runs.
LEMMA PipelineMaps ==
    ASSUME Assumptions, PlayerInv, ReportInv, PipelineRuns, UNCHANGED scriptVars
    PROVE  Maps
<1> DEFINE c == IF media.kind = "sink" THEN Provided(gub.context) ELSE None
<1>1. /\ UNCHANGED <<gub, freed, mpc, msg, component, script, queued, told>>
      /\ Preroll(c) \/ Roll \/ Hold \/ Render \/ End \/ Fail \/ Delay
  BY DEF PipelineRuns, pipelineVars, scriptVars
<1> HIDE DEF c
<1>2. /\ media.goal # "NULL" /\ media'.goal = media.goal
      /\ bus' = bus \/ \E k \in Messages : bus' = Append(bus, k)
  <2>1. media \in Playbacks /\ (media.goal = "NULL" => media.gst = "NULL")
    BY DEF PlayerInv, InService, TypeOK, PipelineTypeOK
  <2>2. CASE Preroll(c) \/ Hold
    BY <2>1, <2>2 DEF Preroll, Hold, Posts, Playbacks, Messages
  <2>3. CASE Roll \/ Render
    BY <2>1, <2>3 DEF Roll, Render, Streaming, Playbacks
  <2>4. CASE End \/ Fail \/ Delay
    BY <2>1, <2>4
    DEF End, Fail, Delay, Streaming, PostsReport, Posts, Playbacks, Messages, Reports
  <2> QED BY <1>1, <2>2, <2>3, <2>4
<1>3. CASE bus' = bus
  BY <1>1, <1>2, <1>3, Runs DEF Openness
<1>4. ASSUME NEW k \in Messages, bus' = Append(bus, k) PROVE Maps
  BY <1>1, <1>2, <1>4, PostsMessage
<1> QED BY <1>2, <1>3, <1>4

\* Steps of the device, and those of nobody.
LEMMA OthersMap ==
    ASSUME Assumptions, PlayerInv, ReportInv,
           UNCHANGED <<playbackVars, pipelineVars, scriptVars>>
    PROVE  Maps
BY Runs DEF playbackVars, pipelineVars, scriptVars, Openness

-----------------------------------------------------------------------------
\* Every step maps to a step of MediaReports, or to none.
LEMMA PromiseStep == Assumptions /\ PlayerInv /\ ReportInv /\ [Next]_vars => Maps
<1> SUFFICES ASSUME Assumptions, PlayerInv, ReportInv, [Next]_vars PROVE Maps
  OBVIOUS
<1>1. PlayerInv'
  BY PlayerStep
<1>2. CASE TextureNext
  <2>1. CASE Destroy
    BY <2>1, Frees DEF Destroy, Live, loopThread
  <2> QED BY <1>1, <1>2, <2>1, InitializeMaps, SetupMaps, SetupRunsMaps, CloseMaps, StopMaps,
             CommandsMap, UpdateMaps, ProcessEventsMaps, ReportMaps DEF TextureNext
<1>3. CASE CaptureNext
  <2>1. CASE EndDestroy
    BY <2>1, Frees DEF EndDestroy, Unaffected, loopThread
  <2> QED BY <1>1, <1>3, <2>1, StartCaptureMaps, UpdateResizedMaps, ResizeRunsMaps,
             UpdateCaptureMaps, ResizeMaps, OnFinishMaps DEF CaptureNext
<1>4. CASE LoopThread /\ UNCHANGED <<scriptVars, captureVars>>
  BY <1>4, LoopThreadMaps
<1>5. CASE PipelineRuns /\ UNCHANGED <<scriptVars, captureVars>>
  BY <1>5, PipelineMaps
<1>6. CASE UNCHANGED <<playbackVars, pipelineVars, scriptVars>>
  BY <1>6, OthersMap
<1> QED BY <1>2, <1>3, <1>4, <1>5, <1>6 DEF Next, vars

\* It starts with nothing due, nobody listening and no media.
LEMMA InitPromise == Assumptions /\ Init => ReportInv /\ Promise!Init
<1> SUFFICES ASSUME Assumptions, Init PROVE ReportInv /\ Promise!Init
  OBVIOUS
<1>1. /\ media = Fresh("none") /\ gub = Zeroed /\ bus = <<>> /\ mpc = "idle"
      /\ script = "new" /\ queued = <<>> /\ told = <<>>
  BY DEF Init, PlaybackInit, PipelineInit, ScriptInit
<1>2. media.goal = "NULL" /\ gub.pipeline = 0 /\ gub.handlers = {}
  BY <1>1, FreshType, ZeroedType
<1>3. OnTheirWay = <<>>
  <2>1. OnTheirWay = <<>> \/ OnTheirWay = (<<>> \o <<>>) \o <<>>
    BY <1>1 DEF OnTheirWay, InCallback, CallbackSteps
  <2> QED BY <2>1
<1> QED BY <1>1, <1>2, <1>3 DEF ReportInv, Promise!Init, Openness, CallbackSteps

\* GubPlayer implements MediaReports. From the bus through message_received and the
\* handlers of the scripts to the queue of EventProcessor, nothing is told twice or out
\* of order; and as long as a media is set up and not closed the listeners stay those
\* it was set up with, so that what they listen for is lost only at the tail, when the
\* application itself stops, closes, destroys or sets up anew.
THEOREM PromiseKept == Spec => KeepsPromise
<1>1. Assumptions
  BY PlaybackAssumption, BuildAssumption, BackendAssumption, SetupAssumption,
     ContextAssumption, ComponentAssumption DEF Assumptions
<1>2. Init => ReportInv /\ Promise!Init
  BY <1>1, InitPromise
<1>3. PlayerInv /\ ReportInv /\ [Next]_vars => ReportInv' /\ [Promise!Next]_(Promise!vars)
  BY <1>1, PromiseStep DEF Maps
<1> QED BY <1>2, <1>3, PlayerInvariant, PTL DEF Spec, KeepsPromise, Promise!Spec
=============================================================================
