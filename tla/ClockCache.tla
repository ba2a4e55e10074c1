----------------------------- MODULE ClockCache -----------------------------
(***************************************************************************)
(* The cache of internal clocks behind the Wall Clock client               *)
(* (gstdvbcsswcclient.c, from ClockCache on). The clocks an application     *)
(* makes are facades; those with the same address share one internal       *)
(* clock. When the last of them is gone, a timer is set to free it.        *)
(*                                                                         *)
(* Application threads make, use and drop clients, each in a thread of its *)
(* own; the thread of the system clock calls the timers back, one at a     *)
(* time; the thread of every internal clock marks it as synchronised and   *)
(* calls its clients. What is done under clocks_lock is one action.        *)
(***************************************************************************)
EXTENDS Integers, Sequences, SequencesExt, FiniteSets

CONSTANTS
    Clients,        \* GstDvbCssWcClientClock objects; each lives once
    Addresses,      \* pairs of address and port
    Busses,         \* GstBus objects
    Caches,         \* bound: ClockCache structures that may be allocated
    Timers,         \* bound: GstClockIDs that may be made
    MayFail,        \* whether starting the thread of a clock may fail
    None            \* NULL

ASSUME CacheAssumption ==
    /\ None \notin Clients \cup Addresses \cup Busses \cup Caches \cup Timers
    /\ MayFail \in BOOLEAN

VARIABLES
    (* The clients. *)
    pc,             \* where each is: "new", "looked" (up), "alive", "set" (the bus), "left", "gone"
    address,        \* priv->address and priv->port, None before construction
    clock,          \* the cache whose clock is priv->internal_clock, else None
    bus,            \* priv->bus
    synced,         \* whether it is marked as synchronised
    (* The cache structures and the internal clocks they hold. *)
    listed,         \* clocks: the structures in the list
    home,           \* address and port of the internal clock, None if never allocated
    users,          \* cache->clocks
    removeId,       \* cache->remove_id
    busses,         \* busses of the internal clock: a list that nothing is ever posted on
    thread,         \* of the internal clock: "none", "running", "failed" or "joined"
    locked,         \* whether the internal clock is synchronised
    handlers,       \* clients connected to its signal "synced"
    emitting,       \* those the emission under way has still to call
    (* The system clock. *)
    armed,          \* timers that have not expired, the next to expire first
    holder,         \* the cache each timer was made for, None if never made
    callback        \* the timer whose callback was called and waits for the lock

clientPart == <<pc, address, clock, bus, synced>>
cachePart == <<listed, home, users, removeId, busses, thread, locked, handlers, emitting>>
timerPart == <<armed, holder, callback>>

vars == <<clientPart, cachePart, timerPart>>

TypeOK ==
    /\ pc \in [Clients -> {"new", "looked", "alive", "set", "left", "gone"}]
    /\ address \in [Clients -> Addresses \cup {None}]
    /\ clock \in [Clients -> Caches \cup {None}]
    /\ bus \in [Clients -> Busses \cup {None}]
    /\ synced \in [Clients -> BOOLEAN]
    /\ listed \in SUBSET Caches
    /\ home \in [Caches -> Addresses \cup {None}]
    /\ users \in [Caches -> SUBSET Clients]
    /\ removeId \in [Caches -> Timers \cup {None}]
    /\ busses \in [Caches -> SUBSET Busses]
    /\ thread \in [Caches -> {"none", "running", "failed", "joined"}]
    /\ locked \in [Caches -> BOOLEAN]
    /\ handlers \in [Caches -> SUBSET Clients]
    /\ emitting \in [Caches -> SUBSET Clients]
    /\ armed \in Seq(Timers)
    /\ holder \in [Timers -> Caches \cup {None}]
    /\ callback \in Timers \cup {None}

Init ==
    /\ pc = [c \in Clients |-> "new"]
    /\ address = [c \in Clients |-> None]
    /\ clock = [c \in Clients |-> None]
    /\ bus = [c \in Clients |-> None]
    /\ synced = [c \in Clients |-> FALSE]
    /\ listed = {}
    /\ home = [k \in Caches |-> None]
    /\ users = [k \in Caches |-> {}]
    /\ removeId = [k \in Caches |-> None]
    /\ busses = [k \in Caches |-> {}]
    /\ thread = [k \in Caches |-> "none"]
    /\ locked = [k \in Caches |-> FALSE]
    /\ handlers = [k \in Caches |-> {}]
    /\ emitting = [k \in Caches |-> {}]
    /\ armed = <<>>
    /\ holder = [t \in Timers |-> None]
    /\ callback = None

-----------------------------------------------------------------------------
(* A client is made. *)

\* Mutant: a clock that waits for its removal is not found.
MatchingUsed(a) == {k \in listed : home[k] = a /\ users[k] # {}}

Matching(a) == {k \in listed : home[k] = a}

\* gst_clock_id_unschedule: the timer is taken out unless it has expired.
Unscheduled(timers, t) ==
    LET at == {i \in 1 .. Len(timers) : timers[i] = t}
    IN  IF at = {} THEN {timers} ELSE {RemoveAt(timers, i) : i \in at}

Unallocated == {k \in Caches : home[k] = None}

\* constructed_clock_cache finds the clock of the address. Its timer is
\* unscheduled: that has no effect on a callback that was called already.
TakeUp(c, k) ==
    /\ k \in Matching(address'[c])
    /\ clock' = [clock EXCEPT ![c] = k]
    /\ users' = [users EXCEPT ![k] = @ \cup {c}]
    /\ removeId' = [removeId EXCEPT ![k] = None]
    /\ armed' \in Unscheduled(armed, removeId[k])
    /\ UNCHANGED <<listed, home, thread>>

\* Or there is none, and one is made, whether its thread can be started or not.
Allocate(c, k) ==
    /\ Matching(address'[c]) = {}
    /\ k \in Unallocated
    /\ clock' = [clock EXCEPT ![c] = k]
    /\ users' = [users EXCEPT ![k] = {c}]
    /\ listed' = listed \cup {k}
    /\ home' = [home EXCEPT ![k] = address'[c]]
    /\ \E s \in IF MayFail THEN {"running", "failed"} ELSE {"running"} :
          thread' = [thread EXCEPT ![k] = s]
    /\ UNCHANGED <<removeId, armed>>

LookUp(c) ==
    /\ pc[c] = "new"
    /\ pc' = [pc EXCEPT ![c] = "looked"]
    /\ \E a \in Addresses : address' = [address EXCEPT ![c] = a]
    /\ \E k \in Caches : TakeUp(c, k) \/ Allocate(c, k)
    /\ UNCHANGED <<bus, synced, busses, locked, handlers, emitting, holder, callback>>

\* Mutant: constructed connects to the signal and does not look at the clock.
ConnectBlind(c) ==
    /\ pc[c] = "looked"
    /\ pc' = [pc EXCEPT ![c] = "alive"]
    /\ handlers' = [handlers EXCEPT ![clock[c]] = @ \cup {c}]
    /\ UNCHANGED <<address, clock, bus, synced, listed, home, users, removeId, busses,
                   thread, locked, emitting, timerPart>>

\* The rest of constructed, under the lock of the internal clock: it is looked
\* at, and then its signal is connected to.
Connect(c) ==
    /\ pc[c] = "looked"
    /\ pc' = [pc EXCEPT ![c] = "alive"]
    /\ synced' = [synced EXCEPT ![c] = locked[clock[c]]]
    /\ handlers' = [handlers EXCEPT ![clock[c]] = @ \cup {c}]
    /\ UNCHANGED <<address, clock, bus, listed, home, users, removeId, busses,
                   thread, locked, emitting, timerPart>>

-----------------------------------------------------------------------------
(* The property "bus". *)

\* Mutant: no look at whether the user has a bus.
BussesOfAll(clients, busOf) == {busOf[c] : c \in clients}

\* update_clock_cache: the busses of those users that have one.
BussesOf(clients, busOf) == {busOf[c] : c \in clients} \ {None}

\* set_property, under the client's lock.
SetBus(c) ==
    /\ pc[c] = "alive"
    /\ \E b \in Busses \cup {None} : bus' = [bus EXCEPT ![c] = b]
    /\ pc' = [pc EXCEPT ![c] = "set"]
    /\ UNCHANGED <<address, clock, synced, cachePart, timerPart>>

\* set_property_clock_cache, under clocks_lock.
UpdateBusses(c) ==
    /\ pc[c] = "set"
    /\ pc' = [pc EXCEPT ![c] = "alive"]
    /\ busses' = [k \in Caches |-> IF k \in listed /\ k = clock[c]
                                   THEN BussesOf(users[k], bus) ELSE busses[k]]
    /\ UNCHANGED <<address, clock, bus, synced, listed, home, users, removeId,
                   thread, locked, handlers, emitting, timerPart>>

-----------------------------------------------------------------------------
(* A client is dropped. *)

\* finalize_clock_cache: others remain.
LeaveOthers(c, k) ==
    /\ users[k] # {c}
    /\ users' = [users EXCEPT ![k] = @ \ {c}]
    /\ busses' = [busses EXCEPT ![k] = BussesOf(users[k] \ {c}, bus)]
    /\ UNCHANGED <<removeId, armed, holder>>

\* Mutant: no timer if one runs already, be it another clock's.
LeaveLastOneTimer(c, k) ==
    /\ users[k] = {c}
    /\ users' = [users EXCEPT ![k] = {}]
    /\ IF armed # <<>>
       THEN UNCHANGED <<removeId, armed, holder>>
       ELSE \E t \in {u \in Timers : holder[u] = None} :
               /\ removeId' = [removeId EXCEPT ![k] = t]
               /\ armed' = <<t>>
               /\ holder' = [holder EXCEPT ![t] = k]
    /\ UNCHANGED busses

\* Or it was the last: the timer is set. All timers take as long, and are made
\* under the lock, so they expire in the order they are made.
LeaveLast(c, k) ==
    /\ users[k] = {c}
    /\ users' = [users EXCEPT ![k] = {}]
    /\ \E t \in {u \in Timers : holder[u] = None} :
          /\ removeId' = [removeId EXCEPT ![k] = t]
          /\ armed' = Append(armed, t)
          /\ holder' = [holder EXCEPT ![t] = k]
    /\ UNCHANGED busses

Leave(c) ==
    /\ pc[c] = "alive"
    /\ pc' = [pc EXCEPT ![c] = "left"]
    /\ IF clock[c] \in listed
       THEN LeaveOthers(c, clock[c]) \/ LeaveLast(c, clock[c])
       ELSE UNCHANGED <<users, removeId, busses, armed, holder>>
    /\ UNCHANGED <<address, clock, bus, synced, listed, home, thread, locked,
                   handlers, emitting, callback>>

\* The rest of finalize: the handler is disconnected, the bus released.
Disconnect(c) ==
    /\ pc[c] = "left"
    /\ pc' = [pc EXCEPT ![c] = "gone"]
    /\ handlers' = [handlers EXCEPT ![clock[c]] = @ \ {c}]
    /\ emitting' = [emitting EXCEPT ![clock[c]] = @ \ {c}]
    /\ bus' = [bus EXCEPT ![c] = None]
    /\ UNCHANGED <<address, clock, synced, listed, home, users, removeId, busses,
                   thread, locked, timerPart>>

-----------------------------------------------------------------------------
(* The thread of the internal clock. *)

\* gst_clock_set_synced: the flag under the clock's lock, then the emission.
Synchronise(k) ==
    /\ thread[k] = "running"
    /\ ~locked[k]
    /\ locked' = [locked EXCEPT ![k] = TRUE]
    /\ emitting' = [emitting EXCEPT ![k] = handlers[k]]
    /\ UNCHANGED <<clientPart, listed, home, users, removeId, busses, thread, handlers, timerPart>>

\* gst_dvb_css_wc_client_clock_synced_cb.
SyncedCb(k, c) ==
    /\ c \in emitting[k]
    /\ synced' = [synced EXCEPT ![c] = TRUE]
    /\ emitting' = [emitting EXCEPT ![k] = @ \ {c}]
    /\ UNCHANGED <<pc, address, clock, bus, listed, home, users, removeId, busses,
                   thread, locked, handlers, timerPart>>

-----------------------------------------------------------------------------
(* The thread of the system clock. *)

\* The next timer expires and its callback is called. A client that has left has
\* disconnected long before: that takes it no minute.
Expire ==
    /\ callback = None
    /\ armed # <<>>
    /\ \A c \in Clients : pc[c] = "left" => clock[c] # holder[Head(armed)]
    /\ callback' = Head(armed)
    /\ armed' = Tail(armed)
    /\ UNCHANGED <<clientPart, cachePart, holder>>

\* remove_clock_cache has the lock. The last reference to the internal clock is
\* dropped: its thread is joined, which lets an emission under way come to its end.
Dispose(k) ==
    /\ emitting[k] = {}
    /\ listed' = listed \ {k}
    /\ thread' = [thread EXCEPT ![k] = "joined"]
    /\ UNCHANGED <<home, users, removeId, busses, locked, handlers, emitting>>

\* Mutant: the callback does not look whether the cache is in use again.
RemoveUnasked ==
    /\ callback # None
    /\ callback' = None
    /\ IF holder[callback] \in listed
       THEN Dispose(holder[callback])
       ELSE UNCHANGED cachePart
    /\ UNCHANGED <<clientPart, armed, holder>>

\* The cache may be in use again. If it was freed before, it is read all the same:
\* of what may come of that, the model has the case that nothing does.
RemoveClockCache ==
    /\ callback # None
    /\ callback' = None
    /\ IF holder[callback] \in listed /\ users[holder[callback]] = {}
       THEN Dispose(holder[callback])
       ELSE UNCHANGED cachePart
    /\ UNCHANGED <<clientPart, armed, holder>>

-----------------------------------------------------------------------------
ClientNext(c) ==
    \/ LookUp(c) \/ Connect(c)
    \/ SetBus(c) \/ UpdateBusses(c)
    \/ Leave(c) \/ Disconnect(c)

ClockNext(k) == Synchronise(k) \/ \E c \in Clients : SyncedCb(k, c)

TimerNext == Expire \/ RemoveClockCache

Next ==
    \/ \E c \in Clients : ClientNext(c)
    \/ \E k \in Caches : ClockNext(k)
    \/ TimerNext

Spec == Init /\ [][Next]_vars

\* The threads are scheduled: what a client has begun it ends, emissions and
\* callbacks go on. Nobody has to make, use or drop a clock, or be answered.
Fairness ==
    /\ \A c \in Clients : WF_vars(Connect(c) \/ UpdateBusses(c) \/ Disconnect(c))
    /\ \A k \in Caches : WF_vars(\E c \in Clients : SyncedCb(k, c))
    /\ WF_vars(TimerNext)

FairSpec == Spec /\ Fairness

-----------------------------------------------------------------------------
(* Properties. *)

\* A client holds a reference to neither the cache nor its clock: what keeps them
\* is that it is in the list of users when the timer's callback looks.
HoldsClock(c) ==
    /\ clock[c] \in listed
    /\ thread[clock[c]] \in {"running", "failed"}
    /\ home[clock[c]] = address[c]
    /\ c \in users[clock[c]]

\* Every client in use has the internal clock of its address, and it was not
\* disposed of (priv->internal_clock, used by get_internal_time without a lock).
UsersHoldTheirClock ==
    \A c \in Clients : pc[c] \in {"looked", "alive", "set"} => HoldsClock(c)

\* Clients of one address share one clock: two would ask the same server twice
\* and might disagree.
OneClockPerAddress ==
    \A k, l \in listed : home[k] = home[l] => k = l

\* No client misses the synchronisation: neither one that connects while the
\* clock gets synchronised, nor one that comes after it (constructed looks, then
\* connects).
NobodyMissesSync ==
    \A c \in Clients :
        pc[c] \in {"alive", "set"} /\ locked[clock[c]] =>
            synced[c] \/ c \in emitting[clock[c]]

\* "Not actually leaked but is cached for a while before being disposed": as long
\* as its timer runs, a clock is kept for the next client of its address.
CachedForAWhile == \A i \in 1 .. Len(armed) : holder[armed[i]] \in listed

\* A clock nobody uses is disposed of or taken up again.
UnusedClocksGo ==
    \A k \in Caches : (k \in listed /\ users[k] = {}) ~> (k \notin listed \/ users[k] # {})
=============================================================================
