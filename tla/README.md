# Verification of the GStreamer-Unity Bridge

TLA+ models of gst-unity-bridge, the TLC runs that check them on small
instances, and proofs checked by TLAPS. Every definition is translated from the
source under `src/`; `PROJECT.json` maps each one to the lines it stands for.

## The system

GStreamer - Unity Bridge (GUB) plays media with GStreamer into Unity textures,
and keeps several players in step over a network with the Wall Clock protocol of
DVB-CSS. Its parts, the state they keep and how they talk to each other:

| part | source (below `src/`) | state | operations |
|---|---|---|---|
| Wall Clock packet | `Plugin/DvbCssWc/Source/gstdvbcsswcpacket.c`, `gstdvbcsswccommon.h` | none | new, copy, serialize, send, receive, conversions |
| Wall Clock server | `gstdvbcsswcserver.c` | flags `active` and `followup`, cancellable, socket | thread (wait, receive, respond, follow up), set_property, start, stop |
| Wall Clock client, internal clock | `gstdvbcsswcclient.c` 1-663 | best candidate, calibration, synced flag, server address, last message type and response time | thread (request, receive, the switch), update, start, stop |
| clock cache | `gstdvbcsswcclient.c` 664-842 | list of internal clocks, their users, their busses, a removal timer | constructed, finalize, set_property, remove |
| Wall Clock client, facade | `gstdvbcsswcclient.c` 843-1133 | base times, handler of the signal `synced` | constructed, finalize, synced_cb, get_internal_time |
| exported servers and clients | `export.c`, `export/*.c` | a main loop, its thread, a clock | start, stop, get_time |
| GStreamer life cycle | `Plugin/GUB/Source/gub_gstreamer.c` | reference count, main loop, its thread | gub_ref, gub_unref, gub_is_active |
| pipeline | `Plugin/GUB/Source/gub_pipeline.c` | pipeline, sinks, last sample, flags, clocks | setup, play, pause, stop, close, seek, grab and blit, bus callbacks |
| graphics | `Plugin/GUB/Source/gub_graphics.c` | device, textures, samples | create, copy, destroy, device events |
| Unity scripts | `Unity/Assets/GstUnityBridge/Scripts` | handles, event queue | component life cycle, event processing |

The Wall Clock client and server talk by UDP datagrams; each has one thread. A
client's users are facades: several facades with the same address share one
internal clock through the cache, which keeps it for a minute after the last
user has left; the internal clock's thread tells the facades by a signal that it
is synchronised. A pipeline uses a facade (or a GStreamer network clock) as its
clock. GUB's main loop runs in a thread of its own and delivers the bus messages
of all pipelines; each exported server has a main loop in a thread too, and all of
them share GLib's default context, so that whichever thread owns it does the
delivering. Unity's main thread calls everything else; what the callbacks report
goes to it through a queue of events (the player) or a flag (the recorder).

What is hard in it: datagrams that are lost, late, duplicated, reordered or come
from someone else; clocks that drift while an answer is under way; a flag another
thread changes between two reads; threads stopped in the middle of something;
a timer that fires while its object is taken up again; callbacks for objects that
are being closed. `PROJECT.json` lists each such place under "hazards", with the
properties that cover it.

What makes the parts correct:

- protocol: a synchronised client is off by no more than the dispersion it
  computes; answers pair with their requests; the client asks until it knows;
  both threads end when they are stopped;
- cache: a client always has a live internal clock of its address; nobody uses a
  clock that is gone; a clock that nobody uses goes away, and not before its time;
- main loops: the thread that delivers messages lives while somebody holds a
  reference, and is gone after the last one; an exported server is freed only when
  its thread has left its loop; a server that owned the context hands it on;
- pipeline: a media starts in Unity's graphic context, its own callbacks set its base
  time once, contexts and samples are released once;
- player: each report of a media is told once, in order, and lost only by what the
  application itself does; the end of a media is told; what is drawn is cropped as
  asked.

## Modules

| module | models | status |
|---|---|---|
| `WcPacket` | fields and conversions of the packet | done |
| `WcCandidate` | the measurement algorithm | done |
| `WcNetwork` | the two clocks and the datagrams in flight (external) | done |
| `WcServer` | the server's thread, its properties, stop | done |
| `WcClient` | the internal clock's thread, update, stop | done |
| `WallClock` | both sides and the network together; fairness; properties; the inductive invariants | done |
| `WallClock_proofs` | types | done |
| `WallClockPairs_proofs` | follow-ups pair with their responses | done |
| `WallClockSound_proofs` | the client is within its dispersion | done |
| `WallClockOnce_proofs` | no exchange is measured twice | done |
| `MCWallClock` | values for TLC | done |
| `ClockCache` | the cache of internal clocks and the clients that share them | done |
| `ClockCache_proofs` | the theorems about `ClockCache` | done |
| `MCClockCache` | symmetry for TLC | done |
| `GMainLoop` | GLib's main loops over one shared context (external) | done |
| `GubGstreamer` | gub_ref, gub_unref and the thread of the main loop | done |
| `ServerExport` | exported servers: handles, and the global one of `export.c` | done |
| `MainLoops` | the three together; fairness; properties | done |
| `MainLoops_proofs` | the theorems about `MainLoops` | done |
| `GstPlayback` | the GStreamer pipeline and its bus, as far as GUB relies on them (external) | done |
| `GubGraphics` | Unity's device, the four backends, graphic contexts | done |
| `GubPipeline` | the GUBPipeline: what Unity's thread does to it, and the bus callback | setups that fail half-way, volume, bitrate left |
| `GubScript` | what player and recorder have in common | done |
| `GubTexture` | the player and its event queue | OnStart and properties left |
| `GubCapture` | the recorder | done |
| `GubPlayer` | script, pipeline, graphics and threads together; fairness; properties | done |
| `MediaReports` | abstract: what a player promises about the reports of its media | done |
| `GubPlayer_proofs` | the theorems about `GubPlayer` | done |
| `GubPromise_proofs` | `GubPlayer` implements `MediaReports` | done |
| `MCGubPlayer` | values for TLC | done |

### From the code to the model

*Time.* A reading of a clock is a number of ticks; a second has `SECOND` ticks.
`now` is the client's clock, `now + skew` the server's. The skew changes by one
tick at most, and then not again for `DriftPeriod` ticks: the clocks drift apart
by at most one part in `DriftPeriod`. The widths of the code are constants, so
that their wrapping is in the model: `U32` for the seconds on the wire and the
sum of the frequency errors, `U64` for the frequency term of the dispersion.

*Network.* `c2s` and `s2c` are the datagrams on their way. `Faults` says what the
network may do: lose, duplicate, reorder. A channel holds `MaxInFlight` datagrams;
beyond that bound a send is lost if the network loses any, and else the model has no
such behaviour. Other hosts may send to either socket: a packet of an unknown type,
one that looks like a request, a short one.

*Server.* `gst_dvb_css_wc_server_thread` is cut into actions where another thread
can interfere: `ServerReceives` (the clock is read and the packet received),
`ServerReply` or `ServerIgnore` (the flags are looked at, the response sent),
`ServerFollowup` (the flag `followup` is read a second time). `SetActive` and
`SetFollowup` are other threads setting the properties, `ServerStop` is stop.

*Client.* `gst_dvb_css_wc_client_internal_clock_thread` is at one of the steps
send, recv, handle, synced, sleep, done. `ClientReceives` takes a datagram,
there is one action for each case of the switch, and update is two of them:
`Accept` sets the calibration, `SetSynced` the flag, because other threads wait
for the flag and read the calibration. A negative dispersion is cast to an
unsigned integer, which C leaves undefined: `CastsToClockTime` has both outcomes
of common builds. `lastResponse` is a history variable, no action reads it.

*Cache.* What is done under `clocks_lock` is one action: `LookUp`
(constructed_clock_cache: `TakeUp` an existing clock or `Allocate` one), `Leave`
(finalize_clock_cache), `UpdateBusses` (set_property_clock_cache),
`RemoveClockCache` (remove_clock_cache). What the code does after or before it,
under other locks, is an action of its own: `Connect`, `Disconnect`, `SetBus`.
`Expire` is the system clock calling a timer back; from then on the callback
waits for the lock (`callback`), and unscheduling its timer comes too late.
`Synchronise` sets the flag of an internal clock, `SyncedCb` calls the handlers
one by one. A cache that was freed is no longer in `listed`; if a callback
comes with a pointer to it, anything may happen in C, and the model goes on with
the case where nothing does, the mildest. The list of busses is kept as the code
keeps it, but nothing is ever posted on it: the internal clock only recomputes it
(760-780) and warns if it is not empty at the end (241), although the property is
described as "A GstBus on which to send clock status information" (896). So no
property speaks of it, and `share` leaves the busses out.

*Main loops.* A thread in `GMainLoop` is at one of the steps unborn, born,
stored, enter, wait, iterate, left. `g_main_loop_run` is `EnterLoop`, and then
`TakeOver` of the context if another thread had it; `Quits` clears the flag a loop
sets when it begins to run, so a quit that comes before is forgotten.
`gub_main_loop_func` stores its loop (`StoreLoop`) and reads it back (`ReadLoop`)
in two actions, because the global has no lock and gub_unref may clear it in
between. `UnrefLast` is gub_unref up to its join, `Joined` the rest. In
`ServerExport` every function holds one lock; nothing it does blocks but the join
in stop, so start is one action, stop two, and get_time waits for the lock (`Asks`,
`Answers`). `missed` and `deaf` are history variables: the threads that were
not inside their loop when it was quit. `StartHandle` has the failure path as the
attempt that leaves no server; that it calls gst_object_unref of a GMainLoop, which
is no object, is left out.

*Pipeline.* `gub` is the structure, `media` the GStreamer pipeline in it. Neither the
functions of Unity's main thread nor the callback take a lock, so what one does
is cut where the other can see it half done.

- A setup is `BeginsSetup` (what was there is closed), `Launches` (the pipeline is in
  the structure, 311) or `LaunchFails` (316), and after the wait for the clock, up to 30
  seconds later, `EndsDecoding` (base time and `synced`, 402-403). In between
  (`setup` is not None) the main thread does nothing else. A recorder waits for
  nothing: `Encodes` is the rest of its setup, with the request to play and the first
  image. The other functions are single actions of a script; operators named like the C
  functions say what they make of structure, media and what is owned.
- `message_received`: `Dispatch` enters it; a report ends in `Report` or `OnFinish`, a
  check of a handler and its call being one action; a change of state goes through
  `HandleState` and, in sync_video_position, `SyncBegins` (196), `SyncCompares` (199),
  `SyncSeek` (202), `SyncPosition` (the loop, 204), `SyncSets` (207), `SyncMarks`
  (211), each of the structure and the pipeline that are there by then. `msg.load` is
  the pipeline the message is of; a callback that sets or marks another one sets
  `media.meddled`. If the structure was freed meanwhile (`HandleFreed`) the callback
  returns or the thread crashes.
- `owned` counts contexts and samples where the code acquires and releases them, not
  by comparing structures: `MakesContext` (420), `TakesSample` (443), `DropsSample` (433,
  455, 500), `Released` (close).

The crop is "no", "part" or "all", the last one being a crop that leaves nothing,
which setup ignores. `begun` remembers whether pause or a frame took the media out
of its null state.

*Graphics.* A context has the crop it was made with and, with Direct3D 11, the
pipeline whose element it crops with. `UnityStarts` and `UnityLosesDevice` are
Unity's device events; a build has the backends of Windows, of Android or of the
other systems. In the Editor on Windows Unity announces nothing: the first setup
then assumes Direct3D 9 (`Assumed`), and frames are drawn all the same (`Draws`).

*Scripts.* `Report` is OnFinish, OnError or OnQos queueing an event in the thread of
the main loop, `ProcessEvents` the Update of EventProcessor. The recorder's Destroy
is two actions around its wait for the end.

*What a player promises.* `MediaReports` is abstract: a player opens with its
listeners, a media is set up where there is none and leaves them as they are; reports
are posted while it runs, and told once and in order. One may be passed over only if
nobody listens for its kind; the tail of what is due may be lost only when the
application stops, closes or leaves, and only a close takes the listeners. That it
does is what the code does (`gub_pipeline.c` 99) and less than the scripts' documentation
says: `finish_told` shows the difference.

## Runs

| run | question | bounds |
|---|---|---|
| `lossy` | is the client within its dispersion although packets are lost, duplicated and reordered? does the invariant of the proof hold? | one datagram each way that may never disappear, time 2 to 6, drift of one tick per tick |
| `in_order` | do follow-ups and exchanges pair if the network keeps the order, whatever the server's flags do, and is the client within its dispersion with follow-ups? do the invariants of the proofs hold? | 6 datagrams in flight, one of them of another host, time 2 to 4, timeout and pause of one tick |
| `live` | does the client get synchronised and go on asking, and do both threads end when they are stopped? | time stands still, timeouts of 0 ticks, so that every wait may end; strays of the server |
| `share` | does every client have the live clock of its address, one clock per address? does no client miss the synchronisation? does a clock without users go away? | 3 clients of 2 addresses, 2 clocks, 3 timers, threads that may fail to start, no busses |
| `main_loops` | does the thread that delivers messages live while it is held, and no longer? are exported servers freed after their threads only? does every message get delivered? does a join end, or which thread keeps it? | 2 threads of the plugin, 1 exported server, 2 callers, 2 references |
| `player` | do contexts and samples leak? does a media begin in Unity's context, and have its base time set once by its own callbacks? do bus, callback and queue implement `MediaReports`? | player and recorder, the backend of Android, 2 setups, 1 frame, 2 reports, 1 message on the bus, with and without clock, base time and crop |
| `followup_lost` | what a comment of the client says of follow-ups is violated if the network loses datagrams | 2 datagrams each way |
| `stray` | requests go to another host after one datagram from it | no faults |
| `cached_while` | a clock may be freed before its minute is over | 2 clients, 1 clock, 2 timers |
| `end_told` | the recorder's end may never be told | 2 setups, 1 report |
| `finish_told` | the end of a player's second media is not told | 2 setups, 1 report |
| `crop` | a frame may be copied without the crop that was asked for | 2 setups, no reports |

Why the bounds are enough: an exchange takes one request, one response and one
follow-up. What a late answer can do takes a time after the timeout at which it
arrives, and enough time for the skew to move further than the precisions (3
ticks) hide: in `lossy` it may move by 4, and a response that is duplicated stays
in flight while further requests are answered. Exchanges that overlap take two or more
datagrams in flight, as in `in_order` and `followup_lost`. Time starts at 2, not at 0, for the server to
be behind the client without a negative reading. Deadlock is not checked where
time is bounded or a thread may be stopped: there the system really ends.

A client of the cache lives once, a timer and a cache structure are made once:
`Timers` and `Caches` bound how many. The races need one client that leaves, one
that takes the clock up and one more that does either again, hence three; two
addresses so that there are two clocks whose timers queue up. `Expire` assumes
that a client that left ends its finalize within the minute its timer runs.
When everybody is gone the cache is at rest, so deadlock is not checked.

Two threads of the plugin are needed for a gub_ref after a gub_unref that found no
loop; a third loop, that of an exported server, may then own the context while both
wait. Two callers are needed for one to wait for the lock another holds. Threads
are born once, so the system ends, and deadlock is not checked.

Two setups are needed for a callback, a context or a sample of the first to meet the
second; two reports for an order. One message on the bus is enough: the next is in the
callback, others are queued for the script, and those on the bus itself are kept in
order by GStreamer. One frame is enough to begin, to copy and to be released. `player`
has the backend of Android, the one that shares its context with the media; the theorems
below hold for every build.

Fairness (`FairSpec`, run `live`): both threads are scheduled (weak
fairness of each thread), time passes. The network is fair in the usual sense:
a datagram sent again and again is not lost for ever, and one that waits in the
socket is found when the thread looks again and again (strong fairness). The
code justifies the threads; UDP promises nothing of the network, and without
its fairness no client of any protocol gets an answer. The cache
(`FairSpec` of `ClockCache`, run `share`): a thread that is in the middle of constructed,
set_property or finalize goes on, so do an emission and the thread of the system
clock. No application has to make or drop clients. Main loops (`FairSpec` of
`MainLoops`): every thread is scheduled; one that waits for the context, or for the
lock, competes with others for it and gets it in the end (strong fairness, GLib
wakes the waiters in turn); callbacks return. Nobody has to call or post anything.
Player (`FairSpec` of `GubPlayer`, runs `end_told` and `finish_told`): the main loop's thread runs,
Unity executes events in every frame, and Destroy looks for the end once a second.

### What the violations show

- `followup_lost`: requests 1 and 2 are answered with follow-ups. The follow-up
  of 1 and the response of 2 are lost, the follow-up of 2 arrives after the
  response of 1, and the client, which only looks at the type of the last
  message, computes a candidate from t1, t2, t3 of exchange 2 and t4 of exchange
  1. Its round trip is negative.
- `stray`: the address requests are sent to is overwritten by the sender of every
  datagram received.
- `cached_while`: the timer of an unused clock expires and its callback waits for
  `clocks_lock`, which a new client holds that takes the clock up. That client
  leaves again and sets a new timer before the callback gets the lock. The
  callback only looks whether there are users: it frees the cache a minute too
  early, and the new timer will call back with a pointer to it.
- `end_told`: Start sets the recorder up without noting the size of its source, so
  the first Update finds another size and sets up again. That closes the
  pipeline, which zeroes the whole structure with the handler of the end in it;
  Destroy sends the end down and waits for it for ever.
- `finish_told`: Initialize and Setup store the handlers once, with the structure. Close,
  by the application or by the next Setup of a loaded player, zeroes them with all the
  rest, and no Setup stores them again: the second media plays to its end, the
  message is dispatched, `message_received` finds no handler. OnFinish is "Called when
  media reaches the end", says the script (109); errors go the same way.
- `crop`: Initialize, then a frame: there is no pipeline, but a graphic context is
  made, with no crop. Setup finds no pipeline and so closes nothing; the context
  stays, and all frames of the media are copied uncropped.

Seen while modelling, without a run:

- the follow-up is a copy of the response, transmit time included; the line that
  would read the clock once more is commented out (`gstdvbcsswcserver.c` 229), and
  the test of the server expects a later time (`tests/gstdvbcsswcserver.c` 181);
- finalize_clock_cache recomputes the busses only if other users remain; the bus of
  the last one stays, the warning in the internal clock's finalize
  (`gstdvbcsswcclient.c` 241) is hit, and neither list nor reference is released;
- joins that never return, in three ways: gub_unref quits a loop its thread does not
  run yet, which g_main_loop_run forgets (`QuitMissed`); gst_dvb_css_wc_stop does the
  same to an exported server, holding the lock (`StopHangs`); and a thread that an
  earlier gub_unref missed, because its loop was not stored yet, reads the loop
  of the next thread from the global and sets it running again after gub_unref has
  quit it (`Revived`). `QuitStands` and `JoinsEnd` name these three and no other, each
  only for the thread that is being joined and while it does run on;
- a gub_unref before the new thread has stored its loop leaves that thread running:
  the exception of `QuietWhenUnheld`;
- a callback that is past the check of `synced` while its pipeline is closed and another
  one set up sets the base time of that one, or marks it as synchronised; the end
  of the setup may then reset the mark, and the next PAUSED sets the base time a second
  time. `BaseTimeSetOnce` speaks of what a pipeline's own callbacks do, and excuses a
  mark only where an earlier one meddled;
- `export.c` overwrites its global server if it is started twice;
- a media that fails while sync_video_position asks for its position holds the
  thread of the main loop for ever (`gub_pipeline.c` 204);
- setup passes the base time also if the synchronisation is switched off, so that a
  position is looked for with no clock; a recorder's pipeline is synchronised too,
  for setup_encoding leaves `synced` unset;
- Play and a frame before the first Setup set `playing` for no pipeline: that
  Setup then closes, and the handlers are lost without a second Setup;
- OpenGL copies uncropped; Direct3D 11 copies its first frame uncropped; OpenGL and
  EGL do not release all they wrap; a device of an unknown type with no
  backend is dereferenced (`gub_graphics.c` 769).

## Proofs

The proofs hold for every value of the constants that the assumptions of the modules
allow; where a theorem takes more for granted, that is an operator of its own.

*The protocol.* A packet carries the request's time t1 back, so of a response there is
nothing to confuse; a follow-up is evaluated with the time at which the response before
it was received, and whether that is its own depends on the network.

- `TypeCorrect`: `Spec => []TypeOK`.
- `Pairing`: `Spec => []FollowupPairsItsResponse` under `FollowupAssumption`: the server
  sends no follow-ups, or the network neither loses nor reorders.
- `Soundness`: `Spec => []Sound` under `SoundAssumption`: a synchronised client is
  never further from the server than the dispersion it computes. `Provenance` is the
  invariant behind it.
- `OnlyOnce`: `Spec => []MeasuredOnce` under `OnceAssumption`: the network keeps the
  order and repeats nothing (it may lose), and the client sleeps before it asks again.
  `InOrder` is the invariant behind it.

`FollowupAssumption` cannot be spared: `followup_lost` has the counterexample for a
network that loses. `SoundAssumption` adds that the drift is no faster than the client's
own frequency error allows, that the two precisions are 3 ticks together (that much is
lost by integer divisions: the two halves and the quotient by a million), and that no
number is cut by its width. The instances of `lossy` (every fault, no follow-ups) and
`in_order` (follow-ups, no fault) satisfy it.

*Pairing.* `FollowupInv` looks at the datagrams in flight to the client as a sequence that
begins with the response the client's thread remembers (`Remembered`) and ends with
the follow-up the server is about to send. `PairsInv` says that in it a follow-up comes
right after a response of the same exchange, if after a response that announces one at
all; requests and short packets of other hosts are passed over, for they leave the last
type alone, while one of an unknown type resets it, so it stands between. A duplicate
keeps the property because a datagram delivered twice is the first in line both times.

*Soundness.* `Sound` is not inductive: it speaks of the best candidate only and not of what
will become one. `SoundInv` adds where measurements come from, and `FollowupInv`:

- `GoodReply`: for every response or follow-up in flight, however old, there are moments a and
  b with t1 <= a <= b, no later than now, at which the server read t2 and t3;
- `ReadAt`: a reading of the server is at most as wrong as the clocks could have
  drifted since it was taken; the term `settle` makes the bound exact;
- `ServerInv`: the request being answered was sent before it was received, so t1,
  which the packet carries back, is never later than a;
- `Measured`: the best candidate is such an exchange, received at t4.

The argument: a packet carries t1 back, so the interval from t1 to t4 contains a
and b no matter how the network delayed, repeated or reordered anything; the
offset is off by at most half of the round trip that was not spent in the
server (`MeasuredBound`), and what the clocks drift since t1 is covered by the
frequency term, which grows with the age (`WanderBound`). With a follow-up, t4 is the
reception of the response, which by `FollowupInv` is of the same exchange.

*Once.* Times are not unique: two requests may be sent in the same tick if the answer comes
at once and the client does not sleep, hence `Pause > 0`. `OnceInv` says that requests in
flight, the one being answered, the answers in flight, the packet at hand, the response
kept for a follow-up and the best candidate are in the order of t1, strictly but for a
follow-up and its response (`ComesAfter`), and that the next request will be later than
all of them (`AskedBefore`: a client that sleeps wakes at its deadline).

`lossy` and `in_order` check the inductive invariants with TLC.

`ClockCache_proofs` proves, for any number of clients, addresses, clocks and
timers, from `CacheAssumption` alone:

- `ClockKept`: `Spec => []UsersHoldTheirClock`;
- `ClockShared`: `Spec => []OneClockPerAddress`;
- `CacheTyped`: `Spec => []TypeOK`;
- `SyncReachesAll`: `Spec => []NobodyMissesSync`.

The inductive invariant `CacheInv` adds to the first two that every clock in the list
has an address and was not disposed of (`ListedIsLive`). It says nothing of
timers: no matter which one calls back, `remove_clock_cache` looks at the users
under the lock, and every client in use is among those of its clock. That is why
the early free of `cached_while` never takes a clock from a user.

The other two rest on it (`ClientInv`): it adds that a client in use is among the users of
its clock and connected to its signal (`Listens`), so that an emission that begins
later has it among those to call. `Served` says all of this of one client; each action
has a lemma that it keeps it for the client that acts and for every other.

`MainLoops_proofs` proves, for any number of threads, callers and references, from
the assumptions that their names differ:

- `LoopTypes`, `HeldRuns`, `UnheldQuiet`, `QuitLoopsStand`, `FreedLeft`, `GlobalLive`:
  the six invariants of `main_loops`.

The inductive invariant `LoopInv` adds what the threads are for: the thread of the
plugin is the one thing alive while a reference is held (`HeldThread`), every other
thread of the plugin has left or was missed (`OnlyMainLives`), gub_unref joins a
thread that gub_ref has started (`JoinsThread`), and the owner of the context is a
thread inside its loop (`OwnerIterates`), which makes `FreedServersLeft` follow: a
thread that has left owns nothing.

`GubPlayer_proofs` proves, for every build, any number of setups, frames and
reports:

- `PlayerTypes`, `NoLeaks`, `UnitysContext`, `BaseTimeOnce`: the four invariants of
  `player`.

`NothingLeaks` needs no more than itself and the types: each operator of a frame, a
command or a close has a lemma that what it leaves is owned (`Owns`).

For the context, the inductive invariant `PlayerInv` adds how a media begins.
`BegunInFrame`: what runs or was asked to was begun by pause or in a frame, never by Play
itself. `BegunWithContext`: what was begun in a frame has the context that was made first
in it; `SinkHasBackend` and `BackendOfBuild` say that this is a context of the one
backend there is. So when the sink asks, the probe answers with it.

For the base time it adds where a callback can be (`BaseTimeAhead`): one that is of the
pipeline that is there, and before `SyncSets`, finds no base time set, and one
about to mark finds it set. That holds because only one callback is under way at a time,
and because of two facts about a setup. `SetupAlone`: a pipeline that is being set up
does not run and has no callback of its own, so the end of the setup cannot undo
what a callback of its own did. `CallbackOfAPipeline` with `InService`: a callback is of a
pipeline that was set up before, so one just launched, which has the next number, is
of none. Callbacks of earlier pipelines may do to it what they like; they are counted as
`meddled`. The lemmas are one for each action, with what the loop's thread may change
stated once (`LoopThreadLeaves`, `LoopThreadMakes`).

`GubPromise_proofs` proves, of the same, that player and recorder implement the abstract
specification `MediaReports`:

- `PromiseKept`: `Spec => KeepsPromise`.

The mapping takes as "due" the events queued for the script, then the message in the
callback, then the bus; the changes of state that the bus carries too are messages
for which nobody listens. The listeners are the handlers in the structure, the
media its pipeline. `ReportInv` adds to `PlayerInv` that a callback past its beginning is
of a change of state, and that a recorder queues nothing. Every step is then of one of
seven kinds, each with a lemma: it may ask the media to run (`Runs`), stops it and
with it the bus, the tail of what is due (`StopsMedia`), closes it with the handlers
(`ClosesMedia`), sets one up where there is none (`SetsUp`), frees the structure (`Frees`),
passes a message over for which nobody listens (`Misses`), or posts one
(`PostsMessage`). The steps that tell something are mapped by themselves.

Only model-checked: liveness (`EventuallySynced`, `KeepsAsking`, `ClientStops`,
`ServerStops`, `UnusedClocksGo`, `MessagesDelivered`, `JoinsEnd`), for TLAPS proves nothing
under fairness here.

## Not modelled, and why

- The byte layout of packets, reading properties back, logging, class and type
  registration: no state a property could be about.
- `measure_precision_sec`: the constants `LocalPrecision` and `ServerPrecision`.
  Its value 0, which makes the encoding undefined, is excluded by an assumption.
- `start` of both sides: sockets are created once, the model begins after it.
- A readiness of the socket without a datagram, the error cases of
  `g_socket_condition_wait` other than timeout and cancellation.
- The calibration arithmetic of GstClock modulo 2^64.
- The exported client (`export/client-export.c`): three calls under a lock that make,
  read and release a clock; nothing happens between them.
- Setups of a pipeline that fail half-way: a recoverable error of gst_parse_launch, which
  returns a pipeline the code then leaves without sink and bus watch; a clock that
  cannot be made (373), which g_object_new does not report.
- The selection of streams, volume, bitrate limit, duration; position and base time set
  by the application, but for the start of a loop.
- Pause before the first frame lets a media begin without Unity's context; it is in
  the model, and `RendersInUnitysContext` does not speak of it.
- The drawing, shaders and objects of OpenGL; Unity's frames without a device; a
  renderer the build does not support.
- A script destroyed twice, which throws in C#; materials, OnStart, the texture.
- Scenes, build files and the vendored GStreamer makefiles, which have no behaviour
  of their own.

## Plan

Done: the protocol, the cache, the main loops and exported servers, player and
recorder. Left, the most important first:

1. Setups that fail half-way, and what frames, callbacks and a second setup make of
   the structure they leave; position and base time set by the application.
2. The time a facade tells before and after its synchronisation; the codec over
   bounded inputs.
3. OnStart and the limit of the bitrate, which depend on the first frame.
4. Theorems about what steps may never do: what an internal clock that was disposed of
   may still do, in which order a media changes its state.
