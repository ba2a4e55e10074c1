--------------------------- MODULE ClockCache_proofs ---------------------------
(***************************************************************************)
(* A client keeps its internal clock, and clients of one address share it, *)
(* for any number of clients, addresses, clocks and timers.                *)
(***************************************************************************)
EXTENDS ClockCache, TLAPS

InUse(c) == pc[c] \in {"looked", "alive", "set"}

\* The part of TypeOK the argument needs: not the timers, for whatever timer's
\* callback comes, it looks at the list and at the users itself.
CacheTypes ==
    /\ pc \in [Clients -> {"new", "looked", "alive", "set", "left", "gone"}]
    /\ address \in [Clients -> Addresses \cup {None}]
    /\ clock \in [Clients -> Caches \cup {None}]
    /\ listed \in SUBSET Caches
    /\ home \in [Caches -> Addresses \cup {None}]
    /\ users \in [Caches -> SUBSET Clients]
    /\ thread \in [Caches -> {"none", "running", "failed", "joined"}]

\* What is in the list has an address, and its clock was not disposed of.
ListedIsLive ==
    \A k \in listed : home[k] \in Addresses /\ thread[k] \in {"running", "failed"}

\* The inductive invariant.
CacheInv == CacheTypes /\ ListedIsLive /\ UsersHoldTheirClock /\ OneClockPerAddress

\* What CacheInv reads.
cacheVars == <<pc, address, clock, listed, home, users, thread>>

-----------------------------------------------------------------------------
\* The initial state: no client, an empty list.
LEMMA InitCache == Init => CacheInv
BY DEF Init, CacheInv, CacheTypes, ListedIsLive, UsersHoldTheirClock, OneClockPerAddress

\* Steps that leave alone what CacheInv reads keep it.
LEMMA CacheStutter == CacheInv /\ UNCHANGED cacheVars => CacheInv'
BY DEF CacheInv, cacheVars, CacheTypes, ListedIsLive, UsersHoldTheirClock, HoldsClock,
       OneClockPerAddress

\* Taking up a clock: it is in the list, so it is live, and of the right address.
LEMMA TakeUpKeeps ==
    ASSUME CacheInv, NEW c \in Clients, NEW k \in Caches, NEW a \in Addresses,
           pc[c] = "new", pc' = [pc EXCEPT ![c] = "looked"],
           address' = [address EXCEPT ![c] = a], TakeUp(c, k)
    PROVE  CacheInv'
<1> USE DEF CacheInv, TakeUp, Matching
<1>1. address'[c] = a /\ k \in listed /\ home[k] = a
  BY DEF CacheTypes
<1>2. CacheTypes'
  BY DEF CacheTypes
<1>3. ListedIsLive' /\ OneClockPerAddress'
  BY DEF ListedIsLive, OneClockPerAddress
<1>4. UsersHoldTheirClock'
  <2> SUFFICES ASSUME NEW d \in Clients, pc'[d] \in {"looked", "alive", "set"}
               PROVE  HoldsClock(d)'
    BY DEF UsersHoldTheirClock
  <2>1. CASE d = c
    BY <1>1, <2>1 DEF HoldsClock, CacheTypes, ListedIsLive
  <2>2. CASE d # c
    BY <2>2 DEF HoldsClock, CacheTypes, UsersHoldTheirClock
  <2> QED BY <2>1, <2>2
<1> QED BY <1>2, <1>3, <1>4

\* Allocating a clock: no client had it, and none of that address is in the list.
LEMMA AllocateKeeps ==
    ASSUME CacheAssumption, CacheInv, NEW c \in Clients, NEW k \in Caches, NEW a \in Addresses,
           pc[c] = "new", pc' = [pc EXCEPT ![c] = "looked"],
           address' = [address EXCEPT ![c] = a], Allocate(c, k)
    PROVE  CacheInv'
<1> USE DEF CacheInv, Allocate, Matching, Unallocated
<1>1. address'[c] = a /\ None \notin Addresses
  BY DEF CacheTypes, CacheAssumption
<1>2. PICK s \in {"running", "failed"} : thread' = [thread EXCEPT ![k] = s]
  OBVIOUS
<1>3. k \notin listed
  BY <1>1 DEF ListedIsLive
<1>4. CacheTypes'
  BY <1>1, <1>2 DEF CacheTypes
<1>5. ListedIsLive'
  BY <1>1, <1>2 DEF ListedIsLive, CacheTypes
<1>6. OneClockPerAddress'
  BY <1>1 DEF OneClockPerAddress, CacheTypes
<1>7. UsersHoldTheirClock'
  <2> SUFFICES ASSUME NEW d \in Clients, pc'[d] \in {"looked", "alive", "set"}
               PROVE  HoldsClock(d)'
    BY DEF UsersHoldTheirClock
  <2>1. CASE d = c
    BY <1>1, <1>2, <2>1 DEF HoldsClock, CacheTypes
  <2>2. CASE d # c
    <3>1. HoldsClock(d) /\ clock'[d] = clock[d] /\ address'[d] = address[d]
      BY <2>2 DEF CacheTypes, UsersHoldTheirClock
    <3>2. clock[d] # k
      BY <1>3, <3>1 DEF HoldsClock
    <3> QED BY <1>2, <3>1, <3>2 DEF HoldsClock, CacheTypes
  <2> QED BY <2>1, <2>2
<1> QED BY <1>4, <1>5, <1>6, <1>7

\* A client that leaves is taken out of the users of its own clock, no other is.
LEMMA LeaveKeeps ==
    ASSUME CacheInv, NEW c \in Clients, Leave(c)
    PROVE  CacheInv'
<1> USE DEF CacheInv, Leave
<1>1. clock[c] \in listed
  BY DEF UsersHoldTheirClock, HoldsClock
<1>2. users' = [users EXCEPT ![clock[c]] = @ \ {c}]
  BY <1>1 DEF LeaveOthers, LeaveLast, CacheTypes
<1>3. CacheTypes'
  BY <1>1, <1>2 DEF CacheTypes
<1>4. ListedIsLive' /\ OneClockPerAddress'
  BY DEF ListedIsLive, OneClockPerAddress
<1>5. UsersHoldTheirClock'
  BY <1>1, <1>2 DEF UsersHoldTheirClock, HoldsClock, CacheTypes
<1> QED BY <1>3, <1>4, <1>5

\* The callback disposes of nothing that has a user, whichever timer called it.
LEMMA RemoveKeeps ==
    ASSUME CacheInv, RemoveClockCache
    PROVE  CacheInv'
<1> USE DEF CacheInv, RemoveClockCache
<1>1. CASE holder[callback] \in listed /\ users[holder[callback]] = {}
  <2> DEFINE k == holder[callback]
  <2>1. /\ listed' = listed \ {k}
        /\ thread' = [thread EXCEPT ![k] = "joined"]
        /\ UNCHANGED <<pc, address, clock, home, users>>
    BY <1>1 DEF Dispose, clientPart
  <2>2. CacheTypes'
    BY <1>1, <2>1 DEF CacheTypes
  <2>3. ListedIsLive' /\ OneClockPerAddress'
    BY <2>1 DEF ListedIsLive, OneClockPerAddress, CacheTypes
  <2>4. UsersHoldTheirClock'
    BY <1>1, <2>1 DEF UsersHoldTheirClock, HoldsClock, CacheTypes
  <2> QED BY <2>2, <2>3, <2>4
<1>2. CASE ~(holder[callback] \in listed /\ users[holder[callback]] = {})
  BY <1>2, CacheStutter DEF cachePart, clientPart, cacheVars
<1> QED BY <1>1, <1>2

\* The other steps of a client only move it on.
LEMMA MoveKeeps ==
    ASSUME CacheInv, NEW c \in Clients,
           Connect(c) \/ SetBus(c) \/ UpdateBusses(c) \/ Disconnect(c)
    PROVE  CacheInv'
<1>1. /\ \E p \in {"alive", "set", "gone"} : pc' = [pc EXCEPT ![c] = p] /\ (p = "gone" \/ InUse(c))
      /\ UNCHANGED <<address, clock, listed, home, users, thread>>
  BY DEF Connect, SetBus, UpdateBusses, Disconnect, InUse, cachePart
<1>2. PICK p \in {"alive", "set", "gone"} : pc' = [pc EXCEPT ![c] = p] /\ (p = "gone" \/ InUse(c))
  BY <1>1
<1>3. CacheTypes' /\ ListedIsLive' /\ OneClockPerAddress'
  BY <1>1, <1>2 DEF CacheInv, CacheTypes, ListedIsLive, OneClockPerAddress
<1>4. UsersHoldTheirClock'
  BY <1>1, <1>2 DEF CacheInv, CacheTypes, UsersHoldTheirClock, HoldsClock, InUse
<1> QED BY <1>3, <1>4 DEF CacheInv

\* Every step keeps the invariant.
LEMMA CacheStep == CacheAssumption /\ CacheInv /\ [Next]_vars => CacheInv'
<1> SUFFICES ASSUME CacheAssumption, CacheInv, [Next]_vars PROVE CacheInv'
  OBVIOUS
<1>1. ASSUME NEW c \in Clients, LookUp(c) PROVE CacheInv'
  <2>1. PICK a \in Addresses : address' = [address EXCEPT ![c] = a]
    BY <1>1 DEF LookUp
  <2>2. PICK k \in Caches : TakeUp(c, k) \/ Allocate(c, k)
    BY <1>1 DEF LookUp
  <2> QED BY <1>1, <2>1, <2>2, TakeUpKeeps, AllocateKeeps DEF LookUp
<1>2. ASSUME NEW c \in Clients, Connect(c) \/ SetBus(c) \/ UpdateBusses(c) \/ Disconnect(c)
      PROVE  CacheInv'
  BY <1>2, MoveKeeps
<1>3. ASSUME NEW c \in Clients, Leave(c) PROVE CacheInv'
  BY <1>3, LeaveKeeps
<1>4. ASSUME NEW k \in Caches, ClockNext(k) PROVE CacheInv'
  BY <1>4, CacheStutter DEF ClockNext, Synchronise, SyncedCb, clientPart, cacheVars
<1>5. CASE Expire
  BY <1>5, CacheStutter DEF Expire, clientPart, cachePart, cacheVars
<1>6. CASE RemoveClockCache
  BY <1>6, RemoveKeeps
<1>7. CASE UNCHANGED vars
  BY <1>7, CacheStutter DEF vars, clientPart, cachePart, cacheVars
<1> QED BY <1>1, <1>2, <1>3, <1>4, <1>5, <1>6, <1>7 DEF Next, ClientNext, TimerNext

\* A client in use has the live internal clock of its address, however the
\* removal timers race with clients that come and go (finalize_clock_cache,
\* constructed_clock_cache, remove_clock_cache).
THEOREM ClockKept == Spec => []UsersHoldTheirClock
<1>1. CacheAssumption
  BY CacheAssumption
<1>2. CacheInv => UsersHoldTheirClock
  BY DEF CacheInv
<1> QED BY <1>1, <1>2, InitCache, CacheStep, PTL DEF Spec

\* Clients of one address share one internal clock, also when one was about to be
\* removed (constructed_clock_cache looks at the whole list under the lock).
THEOREM ClockShared == Spec => []OneClockPerAddress
<1>1. CacheAssumption
  BY CacheAssumption
<1>2. CacheInv => OneClockPerAddress
  BY DEF CacheInv
<1> QED BY <1>1, <1>2, InitCache, CacheStep, PTL DEF Spec

-----------------------------------------------------------------------------
(* Types and synchronisation. They rest on the above: whoever uses a clock is *)
(* in the list of its users, and the clock is the one it looks at.            *)

\* A client that has looked at its clock listens to it as well.
Listens ==
    \A c \in Clients : pc[c] \in {"alive", "set"} => c \in handlers[clock[c]]

ClientInv == TypeOK /\ CacheInv /\ Listens /\ NobodyMissesSync

\* What the added conjuncts say of one client.
Served(c) ==
    pc[c] \in {"alive", "set"} =>
        /\ c \in handlers[clock[c]]
        /\ locked[clock[c]] => synced[c] \/ c \in emitting[clock[c]]

\* They hold if they do of every client,
LEMMA AllServed ==
    ClientInv <=> TypeOK /\ CacheInv /\ \A c \in Clients : Served(c)
BY DEF ClientInv, Served, Listens, NobodyMissesSync

\* also after a step.
LEMMA AllServedNext ==
    ASSUME TypeOK', CacheInv', \A c \in Clients : Served(c)' PROVE ClientInv'
<1>1. (TypeOK /\ CacheInv /\ \A c \in Clients : Served(c))'
  OBVIOUS
<1> QED BY <1>1, AllServed, PTL

\* A client in use uses one of the clocks.
LEMMA UsedIsCache ==
    ASSUME ClientInv, NEW c \in Clients, InUse(c)
    PROVE  clock[c] \in Caches /\ clock[c] \in listed /\ c \in users[clock[c]]
BY DEF ClientInv, CacheInv, UsersHoldTheirClock, HoldsClock, CacheTypes, InUse

\* Taking a timer out leaves timers.
LEMMA UnscheduledType ==
    ASSUME NEW s \in Seq(Timers), NEW t, NEW r \in Unscheduled(s, t) PROVE r \in Seq(Timers)
<1>1. CASE r = s
  BY <1>1
<1>2. ASSUME NEW i \in 1 .. Len(s), r = RemoveAt(s, i) PROVE r \in Seq(Timers)
  <2> DEFINE head == SubSeq(s, 1, i - 1)
             tail == SubSeq(s, i + 1, Len(s))
  <2>1. head \in Seq(Timers) /\ tail \in Seq(Timers)
    OBVIOUS
  <2>2. r = head \o tail
    BY <1>2 DEF RemoveAt
  <2> HIDE DEF head, tail
  <2> QED BY <2>1, <2>2
<1> QED BY <1>1, <1>2 DEF Unscheduled

\* Every client starts without a clock.
LEMMA InitClients == CacheAssumption /\ Init => ClientInv
<1> SUFFICES ASSUME CacheAssumption, Init PROVE ClientInv
  OBVIOUS
<1>1. TypeOK
  BY DEF Init, TypeOK
<1>2. \A c \in Clients : Served(c)
  BY DEF Init, Served
<1> QED BY <1>1, <1>2, InitCache, AllServed

\* A client is made: it promises nothing yet, and the others do not notice.
LEMMA LookUpServes ==
    ASSUME CacheAssumption, ClientInv, CacheInv', NEW c \in Clients, LookUp(c) PROVE ClientInv'
<1>1. PICK a \in Addresses : address' = [address EXCEPT ![c] = a]
  BY DEF LookUp
<1>2. PICK k \in Caches : TakeUp(c, k) \/ Allocate(c, k)
  BY DEF LookUp
<1>3. clock' = [clock EXCEPT ![c] = k] /\ pc[c] = "new" /\ pc' = [pc EXCEPT ![c] = "looked"]
  BY <1>2 DEF LookUp, TakeUp, Allocate
<1>4. TypeOK'
  <2>1. /\ users' \in [Caches -> SUBSET Clients]
        /\ removeId' \in [Caches -> Timers \cup {None}]
        /\ armed' \in Seq(Timers)
        /\ listed' \in SUBSET Caches
        /\ home' \in [Caches -> Addresses \cup {None}]
        /\ thread' \in [Caches -> {"none", "running", "failed", "joined"}]
    <3>1. CASE TakeUp(c, k)
      <4>1. armed' \in Seq(Timers)
        BY <3>1, UnscheduledType DEF TakeUp, ClientInv, TypeOK
      <4>2. removeId' \in [Caches -> Timers \cup {None}]
        BY <3>1 DEF TakeUp, ClientInv, TypeOK
      <4>3. users' \in [Caches -> SUBSET Clients]
        BY <3>1 DEF TakeUp, ClientInv, TypeOK
      <4> QED BY <3>1, <4>1, <4>2, <4>3 DEF TakeUp, ClientInv, TypeOK
    <3>2. CASE Allocate(c, k)
      <4>1. PICK s \in {"running", "failed"} : thread' = [thread EXCEPT ![k] = s]
        BY <3>2 DEF Allocate
      <4>2. address'[c] = a
        BY <1>1 DEF ClientInv, TypeOK
      <4> QED BY <3>2, <4>1, <4>2 DEF Allocate, ClientInv, TypeOK
    <3> QED BY <1>2, <3>1, <3>2
  <2>2. /\ pc' \in [Clients -> {"new", "looked", "alive", "set", "left", "gone"}]
        /\ address' \in [Clients -> Addresses \cup {None}]
        /\ clock' \in [Clients -> Caches \cup {None}]
    BY <1>1, <1>3 DEF ClientInv, TypeOK
  <2> QED BY <2>1, <2>2 DEF LookUp, ClientInv, TypeOK
<1>5. ASSUME NEW d \in Clients PROVE Served(d)'
  <2>1. Served(d)
    BY AllServed
  <2>2. UNCHANGED <<handlers, locked, synced, emitting>>
    BY DEF LookUp
  <2>3. CASE d = c
    <3>1. pc'[c] = "looked"
      BY <1>3, <2>1, <2>3 DEF Served, ClientInv, TypeOK
    <3> QED BY <2>2, <2>3, <3>1 DEF Served
  <2>4. CASE d # c
    <3>1. pc'[d] = pc[d] /\ clock'[d] = clock[d]
      BY <1>3, <2>4 DEF ClientInv, TypeOK
    <3> QED BY <2>1, <2>2, <3>1 DEF Served
  <2> QED BY <2>3, <2>4
<1> QED BY <1>4, <1>5, AllServedNext

\* A client looks at its clock and connects to it before the clock can change.
LEMMA ConnectServes ==
    ASSUME ClientInv, CacheInv', NEW c \in Clients, Connect(c) PROVE ClientInv'
<1>1. clock[c] \in Caches /\ pc[c] = "looked"
  BY UsedIsCache DEF Connect, InUse
<1>2. TypeOK'
  BY <1>1 DEF Connect, ClientInv, TypeOK, timerPart
<1>3. ASSUME NEW d \in Clients PROVE Served(d)'
  <2>1. Served(d) /\ (InUse(d) => clock[d] \in Caches)
    BY AllServed, UsedIsCache
  <2>2. CASE d = c
    BY <1>1, <2>2 DEF Connect, Served, ClientInv, TypeOK
  <2>3. CASE d # c
    BY <1>1, <2>1, <2>3 DEF Connect, Served, InUse, ClientInv, TypeOK
  <2> QED BY <2>2, <2>3
<1> QED BY <1>2, <1>3, AllServedNext

\* The bus of a client, and the busses of a clock, are no part of synchronisation.
LEMMA BusServes ==
    ASSUME ClientInv, CacheInv', NEW c \in Clients, SetBus(c) \/ UpdateBusses(c)
    PROVE  ClientInv'
<1>1. CASE SetBus(c)
  <2>1. PICK b \in Busses \cup {None} : bus' = [bus EXCEPT ![c] = b]
    BY <1>1 DEF SetBus
  <2>2. TypeOK'
    BY <1>1, <2>1 DEF SetBus, ClientInv, TypeOK, cachePart, timerPart
  <2>3. ASSUME NEW d \in Clients PROVE Served(d)'
    <3>1. Served(d)
      BY AllServed
    <3> QED BY <1>1, <2>1, <3>1 DEF SetBus, Served, ClientInv, TypeOK, cachePart
  <2> QED BY <2>2, <2>3, AllServedNext
<1>2. CASE UpdateBusses(c)
  <2> DEFINE k == clock[c]
  <2>1. k \in Caches /\ k \in listed /\ c \in users[k]
    BY <1>2, UsedIsCache DEF UpdateBusses, InUse
  <2>2. BussesOf(users[k], bus) \subseteq Busses
    <3>1. \A d \in users[k] : bus[d] \in Busses \cup {None}
      BY <2>1 DEF ClientInv, TypeOK
    <3> QED BY <3>1 DEF BussesOf
  <2>3. busses' = [l \in Caches |-> IF l = k THEN BussesOf(users[k], bus) ELSE busses[l]]
    BY <1>2, <2>1 DEF UpdateBusses
  <2>4. TypeOK'
    <3>1. busses' \in [Caches -> SUBSET Busses]
      BY <2>2, <2>3 DEF ClientInv, TypeOK
    <3> QED BY <1>2, <3>1 DEF UpdateBusses, ClientInv, TypeOK, timerPart
  <2>5. ASSUME NEW d \in Clients PROVE Served(d)'
    <3>1. Served(d)
      BY AllServed
    <3> QED BY <1>2, <3>1 DEF UpdateBusses, Served, ClientInv, TypeOK
  <2> QED BY <2>4, <2>5, AllServedNext
<1> QED BY <1>1, <1>2

\* A client leaves: those that remain do not notice.
LEMMA LeaveServes ==
    ASSUME ClientInv, CacheInv', NEW c \in Clients, Leave(c) PROVE ClientInv'
<1> DEFINE k == clock[c]
<1>1. k \in Caches /\ k \in listed /\ c \in users[k]
  BY UsedIsCache DEF Leave, InUse
<1>2. pc' = [pc EXCEPT ![c] = "left"] /\ UNCHANGED <<clock, bus, synced, locked, handlers, emitting>>
  BY DEF Leave
<1>3. LeaveOthers(c, k) \/ LeaveLast(c, k)
  BY <1>1 DEF Leave
<1>4. TypeOK'
  <2>1. users' \in [Caches -> SUBSET Clients]
    BY <1>1, <1>3 DEF LeaveOthers, LeaveLast, ClientInv, TypeOK
  <2>2. busses' \in [Caches -> SUBSET Busses]
    <3>1. BussesOf(users[k] \ {c}, bus) \subseteq Busses
      BY <1>1 DEF BussesOf, ClientInv, TypeOK
    <3> QED BY <1>1, <1>3, <3>1 DEF LeaveOthers, LeaveLast, ClientInv, TypeOK
  <2>3. /\ removeId' \in [Caches -> Timers \cup {None}]
        /\ armed' \in Seq(Timers)
        /\ holder' \in [Timers -> Caches \cup {None}]
    <3>1. CASE LeaveOthers(c, k)
      BY <3>1 DEF LeaveOthers, ClientInv, TypeOK
    <3>2. CASE LeaveLast(c, k)
      <4>1. PICK t \in Timers : /\ removeId' = [removeId EXCEPT ![k] = t]
                                /\ armed' = Append(armed, t)
                                /\ holder' = [holder EXCEPT ![t] = k]
        BY <3>2 DEF LeaveLast
      <4> QED BY <1>1, <4>1 DEF ClientInv, TypeOK
    <3> QED BY <1>3, <3>1, <3>2
  <2>4. pc' \in [Clients -> {"new", "looked", "alive", "set", "left", "gone"}]
    BY <1>2 DEF ClientInv, TypeOK
  <2> QED BY <2>1, <2>2, <2>3, <2>4 DEF Leave, ClientInv, TypeOK
<1>5. ASSUME NEW d \in Clients PROVE Served(d)'
  <2>1. Served(d)
    BY AllServed
  <2>2. CASE d = c
    BY <1>2, <2>2 DEF Served, ClientInv, TypeOK
  <2>3. CASE d # c
    <3>1. pc'[d] = pc[d]
      BY <1>2, <2>3 DEF ClientInv, TypeOK
    <3> QED BY <1>2, <2>1, <3>1 DEF Served
  <2> QED BY <2>2, <2>3
<1> QED BY <1>4, <1>5, AllServedNext

\* Only the client that has left is disconnected.
LEMMA DisconnectServes ==
    ASSUME ClientInv, CacheInv', NEW c \in Clients, Disconnect(c) PROVE ClientInv'
<1>1. TypeOK'
  BY DEF Disconnect, ClientInv, TypeOK, timerPart
<1>2. ASSUME NEW d \in Clients PROVE Served(d)'
  <2>1. Served(d) /\ (InUse(d) => clock[d] \in Caches)
    BY AllServed, UsedIsCache
  <2>2. CASE d = c
    BY <2>2 DEF Disconnect, Served, ClientInv, TypeOK
  <2>3. CASE d # c
    BY <2>1, <2>3 DEF Disconnect, Served, InUse, ClientInv, TypeOK
  <2> QED BY <2>2, <2>3
<1> QED BY <1>1, <1>2, AllServedNext

\* A clock that is synchronised calls all that listen, and what is called is marked.
LEMMA ClockServes ==
    ASSUME ClientInv, CacheInv', NEW k \in Caches, ClockNext(k) PROVE ClientInv'
<1>1. CASE Synchronise(k)
  <2>1. TypeOK'
    BY <1>1 DEF Synchronise, ClientInv, TypeOK, clientPart, timerPart
  <2>2. ASSUME NEW d \in Clients PROVE Served(d)'
    <3>1. Served(d) /\ (InUse(d) => clock[d] \in Caches)
      BY AllServed, UsedIsCache
    <3> QED BY <1>1, <3>1 DEF Synchronise, Served, InUse, ClientInv, TypeOK, clientPart
  <2> QED BY <2>1, <2>2, AllServedNext
<1>2. ASSUME NEW c \in Clients, SyncedCb(k, c) PROVE ClientInv'
  <2>1. TypeOK'
    BY <1>2 DEF SyncedCb, ClientInv, TypeOK, timerPart
  <2>2. ASSUME NEW d \in Clients PROVE Served(d)'
    <3>1. Served(d) /\ (InUse(d) => clock[d] \in Caches)
      BY AllServed, UsedIsCache
    <3>2. CASE d = c
      BY <1>2, <3>1, <3>2 DEF SyncedCb, Served, ClientInv, TypeOK
    <3>3. CASE d # c
      BY <1>2, <3>1, <3>3 DEF SyncedCb, Served, InUse, ClientInv, TypeOK
    <3> QED BY <3>2, <3>3
  <2> QED BY <2>1, <2>2, AllServedNext
<1> QED BY <1>1, <1>2 DEF ClockNext

\* A timer takes nothing from a client: no step of it touches a signal.
LEMMA TimerServes ==
    ASSUME ClientInv, CacheInv', TimerNext \/ UNCHANGED vars PROVE ClientInv'
<1>1. UNCHANGED <<clientPart, locked, handlers, emitting>>
  BY DEF TimerNext, Expire, RemoveClockCache, Dispose, vars, cachePart
<1>2. TypeOK'
  <2>1. CASE Expire
    <3>1. Head(armed) \in Timers /\ Tail(armed) \in Seq(Timers)
      BY <2>1 DEF Expire, ClientInv, TypeOK
    <3> QED BY <2>1, <3>1 DEF Expire, ClientInv, TypeOK, clientPart, cachePart
  <2>2. CASE RemoveClockCache
    <3>1. CASE UNCHANGED cachePart
      BY <2>2, <3>1 DEF RemoveClockCache, ClientInv, TypeOK, clientPart, cachePart
    <3>2. CASE Dispose(holder[callback])
      BY <2>2, <3>2 DEF RemoveClockCache, Dispose, ClientInv, TypeOK, clientPart
    <3> QED BY <2>2, <3>1, <3>2 DEF RemoveClockCache
  <2>3. CASE UNCHANGED vars
    BY <2>3 DEF vars, ClientInv, TypeOK, clientPart, cachePart, timerPart
  <2> QED BY <2>1, <2>2, <2>3 DEF TimerNext
<1>3. ASSUME NEW d \in Clients PROVE Served(d)'
  BY <1>1, AllServed DEF Served, clientPart
<1> QED BY <1>2, <1>3, AllServedNext

\* Every step keeps the invariant.
LEMMA ClientStep == CacheAssumption /\ ClientInv /\ [Next]_vars => ClientInv'
<1> SUFFICES ASSUME CacheAssumption, ClientInv, [Next]_vars PROVE ClientInv'
  OBVIOUS
<1>1. CacheInv'
  BY CacheStep DEF ClientInv
<1>2. ASSUME NEW c \in Clients, ClientNext(c) PROVE ClientInv'
  BY <1>1, <1>2, LookUpServes, ConnectServes, BusServes, LeaveServes, DisconnectServes DEF ClientNext
<1>3. ASSUME NEW k \in Caches, ClockNext(k) PROVE ClientInv'
  BY <1>1, <1>3, ClockServes
<1>4. CASE TimerNext \/ UNCHANGED vars
  BY <1>1, <1>4, TimerServes
<1> QED BY <1>2, <1>3, <1>4 DEF Next

\* In every state the variables of the cache have their types, timers included.
THEOREM CacheTyped == Spec => []TypeOK
<1>1. CacheAssumption
  BY CacheAssumption
<1>2. ClientInv => TypeOK
  BY DEF ClientInv
<1> QED BY <1>1, <1>2, InitClients, ClientStep, PTL DEF Spec

\* No client misses that its clock was synchronised, whether it connects before,
\* while or after the clock's thread emits the signal (constructed looks at the
\* clock and connects to it under the lock under which the flag is set).
THEOREM SyncReachesAll == Spec => []NobodyMissesSync
<1>1. CacheAssumption
  BY CacheAssumption
<1>2. ClientInv => NobodyMissesSync
  BY DEF ClientInv
<1> QED BY <1>1, <1>2, InitClients, ClientStep, PTL DEF Spec
=============================================================================
