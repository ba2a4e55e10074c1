----------------------------- MODULE WcNetwork ------------------------------
(***************************************************************************)
(* What lies between a Wall Clock client and its server: the two clocks,   *)
(* which drift apart, and the datagrams in flight between the two sockets. *)
(* UDP may lose, duplicate and reorder a datagram, and other hosts may     *)
(* send to the sockets (external: GLib's GSocket, the host's clocks).      *)
(***************************************************************************)
EXTENDS WcCandidate, Sequences, SequencesExt

CONSTANTS
    InitNow,        \* client's reading when the model starts
    MaxTime,        \* bound: no tick past this reading
    InitSkews,      \* possible values of server reading - client reading
    DriftPeriod,    \* ticks that must pass between two changes of the skew
    MaxInFlight,    \* bound: datagrams in flight in one direction
    Faults,         \* what the network does: a subset of AllFaults
    ClientStrays,   \* kinds of datagrams other hosts send to the client
    ServerStrays    \* kinds of datagrams other hosts send to the server

AllFaults == {"lose", "duplicate", "reorder"}

ASSUME NetworkAssumption ==
    /\ InitNow \in Nat
    /\ MaxTime \in Nat
    /\ InitSkews \subseteq Int
    /\ \A s \in InitSkews : InitNow + s \in Nat
    /\ DriftPeriod \in Nat \ {0}
    /\ MaxInFlight \in Nat
    /\ Faults \subseteq AllFaults
    /\ ClientStrays \subseteq {"REQUEST", "OTHER", "SHORT"}
    /\ ServerStrays \subseteq {"OTHER", "SHORT"}

VARIABLES
    now,        \* reading of the client's clock
    skew,       \* reading of the server's clock minus that of the client's
    settle,     \* ticks before the skew may change again
    c2s,        \* datagrams on their way to the server's socket, oldest first
    s2c         \* datagrams on their way to the client's socket

networkVars == <<now, skew, settle, c2s, s2c>>

ServerClock == now + skew

NetworkTypeOK ==
    /\ now \in Nat
    /\ skew \in Int
    /\ ServerClock \in Nat
    /\ settle \in 0 .. DriftPeriod - 1
    /\ c2s \in Seq(Packets)
    /\ s2c \in Seq(Packets)

NetworkInit ==
    /\ now = InitNow
    /\ skew \in InitSkews
    /\ settle = 0
    /\ c2s = <<>>
    /\ s2c = <<>>

-----------------------------------------------------------------------------
(* Operators the threads' actions are written with. *)

\* g_socket_send_to: the datagram joins those in flight, or is lost if the network
\* loses any. The bound MaxInFlight ends the behaviours of a network that does not.
Sent(net, m) ==
    (IF Len(net) < MaxInFlight THEN {Append(net, m)} ELSE {})
        \cup IF "lose" \in Faults THEN {net} ELSE {}

\* The datagram a receive may return: the oldest, or any one if they overtake.
Deliverable(net) ==
    {i \in 1 .. Len(net) : i = 1 \/ "reorder" \in Faults}

\* What may be left in flight once datagram i was received.
Received(net, i) ==
    {RemoveAt(net, i)} \cup IF "duplicate" \in Faults THEN {net} ELSE {}

-----------------------------------------------------------------------------
(* Steps of the environment. *)

\* Time passes; the skew moves by one tick at most, once in DriftPeriod ticks.
Tick ==
    /\ now < MaxTime
    /\ now' = now + 1
    /\ \/ /\ skew' = skew
          /\ settle' = IF settle = 0 THEN 0 ELSE settle - 1
       \/ /\ settle = 0
          /\ \E d \in {-1, 1} : skew' = skew + d
          /\ settle' = DriftPeriod - 1
    /\ UNCHANGED <<c2s, s2c>>

\* Bound: one datagram of another host in flight in each direction.
NoStray(net) == \A i \in 1 .. Len(net) : net[i].from # "other"

StrayToServer ==
    /\ \E k \in ServerStrays : c2s' = Append(c2s, NewPacket(k, "other", 0))
    /\ NoStray(c2s)
    /\ UNCHANGED <<now, skew, settle, s2c>>

StrayToClient ==
    /\ \E k \in ClientStrays : s2c' = Append(s2c, NewPacket(k, "other", 0))
    /\ NoStray(s2c)
    /\ UNCHANGED <<now, skew, settle, c2s>>

NetworkNext == Tick \/ StrayToServer \/ StrayToClient
=============================================================================
